------------------------------- MODULE Containers -------------------------------
(***************************************************************************)
(* What the readers of metadata/*.rs have in common.  A reader answers an   *)
(* Option, or an I/O error; a container is walked from left to right, and   *)
(* the walk is the sequence of the parts it meets.  When a part cannot be   *)
(* read the walk ends with it: its kind is then "malformed", or "error" if  *)
(* the bytes were missing.                                                  *)
(***************************************************************************)
EXTENDS Naturals, Sequences, FiniteSetsExt

CONSTANT MaxU64   \* u64::MAX

ASSUME MaxU64Assumption == MaxU64 \in Nat

None    == <<>>
Some(v) == <<v>>
Error   == <<"io", "error">>

Found(answer) == Len(answer) = 1

At(walk, kind) == {i \in 1 .. Len(walk) : walk[i].kind = kind}
Failed(walk)   == At(walk, "error") # {}

\* `return Then(part)` at the first part of a kind.
First(walk, kind, Then(_)) ==
    IF At(walk, kind) # {} THEN Then(walk[Min(At(walk, kind))])
    ELSE IF Failed(walk) THEN Error ELSE None

\* The first answer a part of a kind gives; the parts before it gave none.
FirstFound(walk, kind, Then(_)) ==
    LET answering == {i \in At(walk, kind) : Then(walk[i]) # None}
    IN  IF answering # {} THEN Then(walk[Min(answering)]) ELSE None

\* A variable that each part of a kind overwrites, after the first n parts.
Latest(walk, n, kind, Of(_), before) ==
    LET seen == {i \in At(walk, kind) : i <= n}
    IN  IF seen = {} THEN before ELSE Of(walk[Max(seen)])

\* `return` of what Of gives after the first part at which Done holds.
Until(walk, Done(_), Of(_)) ==
    LET ends == {n \in 1 .. Len(walk) : Done(n)}
    IN  IF ends = {} THEN None ELSE Of(Min(ends))

\* checked_mul(1000), then the division.
Milliseconds(units, rate) ==
    IF units * 1000 > MaxU64 THEN None ELSE Some((units * 1000) \div rate)

\* Faulty: a size of zero is a size.
BugZeroSize(width, height) == Some([width |-> width, height |-> height])

Dimensions(width, height) ==
    IF width = 0 \/ height = 0 THEN None ELSE Some([width |-> width, height |-> height])

=================================================================================
