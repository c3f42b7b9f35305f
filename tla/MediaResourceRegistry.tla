----------------------- MODULE MediaResourceRegistry -----------------------
(***************************************************************************)
(* src/src-tauri/src/media_resource.rs: the opaque keys under which the    *)
(* media protocol serves files, and the reference counts of the derived    *)
(* ones.  One mutex guards the registry, so each operation is one step.    *)
(*                                                                         *)
(* A key is the generation of its session with a number unique in it.      *)
(* Numbers of source files and of derived files come from one counter; the *)
(* counter here counts the derived ones only, and every source file the    *)
(* frontend can name is registered in the generation it was scanned in.    *)
(***************************************************************************)
EXTENDS Integers

CONSTANTS
  Path,           \* derived files: one per source file and thumbnail size
  MaxGeneration,  \* bound: sessions begun
  MaxKey          \* bound: derived keys of a generation

VARIABLES
  generation,
  nextKey,
  derivedKey,     \* derived_keys: the number of the key of a path, or NoKey
  registrations   \* its reference count

NoKey == -1
ResourceKey == [generation : 1 .. MaxGeneration, number : 0 .. MaxKey]

ResourceTypeOK ==
  /\ generation \in 1 .. MaxGeneration
  /\ nextKey \in 0 .. MaxKey + 1
  /\ derivedKey \in [Path -> 0 .. MaxKey \cup {NoKey}]
  /\ registrations \in [Path -> Nat]

(* The model starts after the first begin_session: without a session no    *)
(* thumbnail is requested.                                                 *)
ResourceInit ==
  /\ generation = 1
  /\ nextKey = 0
  /\ derivedKey = [p \in Path |-> NoKey]
  /\ registrations = [p \in Path |-> 0]

begin_session ==
  /\ generation < MaxGeneration
  /\ generation' = generation + 1
  /\ nextKey' = 0
  /\ derivedKey' = [p \in Path |-> NoKey]
  /\ registrations' = [p \in Path |-> 0]

(* The path a derived key is served from, as a set of at most one.         *)
ResolveDerived(key) ==
  {p \in Path : key.generation = generation /\ derivedKey[p] = key.number}

(* register_derived for a source key of generation g; its error is         *)
(* InactiveSession (CanRegister false).                                    *)
CanRegister(g) == g = generation

register_derived(p) ==
  /\ UNCHANGED generation
  /\ registrations' = [registrations EXCEPT ![p] = @ + 1]
  /\ IF derivedKey[p] # NoKey
       THEN UNCHANGED <<nextKey, derivedKey>>
       ELSE /\ derivedKey' = [derivedKey EXCEPT ![p] = nextKey]
            /\ nextKey' = nextKey + 1

(* Faulty: the first release removes the key whatever its count.           *)
BugReleaseIgnoresCount(key) ==
  LET released == ResolveDerived(key)
  IN  /\ derivedKey' = [p \in Path |-> IF p \in released THEN NoKey ELSE derivedKey[p]]
      /\ registrations' = [p \in Path |-> IF p \in released THEN 0 ELSE registrations[p]]
      /\ UNCHANGED <<generation, nextKey>>

(* Errors (another generation, an unknown key) leave the registry alone.   *)
release_derived(key) ==
  LET released == ResolveDerived(key)
      last(p)  == p \in released /\ registrations[p] <= 1
  IN  /\ registrations' = [p \in Path |->
           IF p \in released THEN registrations[p] - 1 ELSE registrations[p]]
      /\ derivedKey' = [p \in Path |-> IF last(p) THEN NoKey ELSE derivedKey[p]]
      /\ UNCHANGED <<generation, nextKey>>
=============================================================================
