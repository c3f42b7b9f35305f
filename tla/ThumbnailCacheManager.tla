----------------------- MODULE ThumbnailCacheManager -----------------------
(***************************************************************************)
(* src/src-tauri/src/thumbnail_cache.rs with prune_disk_cache of           *)
(* src/crates/waterfall-infra/src/cache.rs: the cache files in use, and    *)
(* the maintenance that deletes old files once the cache is too large.     *)
(*                                                                         *)
(* The manager's mutex makes a registration, with its snapshot of the      *)
(* files in use, one step.  The directory is listed and the files are      *)
(* deleted after the mutex is given up, each in a step of its own.         *)
(* Files have one size; their order of deletion (oldest first) is left     *)
(* open.                                                                   *)
(***************************************************************************)
EXTENDS Integers, FiniteSets

CONSTANTS
  Path,             \* files of the cache directory
  NoPath,           \* the path of a key that is not active
  CacheKey,         \* resource keys of derived files
  MaintainEvery,    \* GENERATED_FILES_BETWEEN_MAINTENANCE (64 in the code)
  MaxFiles,         \* max_bytes of the policy, in files
  TargetFiles       \* target_bytes, in files

VARIABLES
  cacheActive,      \* `active`: registrations of each key, 0 if absent
  cachePath,        \* the path of each active key
  maintained,       \* maintenance_initialized
  generated,        \* generated_since_maintenance
  file              \* the disk: each file is absent, fresh, or older than
                    \* THUMBNAIL_CACHE_MIN_AGE

CacheTypeOK ==
  /\ cacheActive \in [CacheKey -> Nat]
  /\ cachePath \in [CacheKey -> Path \cup {NoPath}]
  /\ maintained \in BOOLEAN
  /\ generated \in 0 .. MaintainEvery - 1
  /\ file \in [Path -> {"absent", "fresh", "old"}]

(* The files of earlier sessions of the application are still there.       *)
CacheInit ==
  /\ cacheActive = [k \in CacheKey |-> 0]
  /\ cachePath = [k \in CacheKey |-> NoPath]
  /\ maintained = FALSE
  /\ generated = 0
  /\ file \in [Path -> {"absent", "old"}]

ActivePaths == {cachePath[k] : k \in {k \in CacheKey : cacheActive[k] > 0}}

(* The error of register_and_maintain: the key names another active path.  *)
KeyConflict(key, path) == cacheActive[key] > 0 /\ cachePath[key] # path

(* Faulty: off by one.                                                     *)
BugMaintainTooLate(newly) ==
  ~maintained \/ (IF newly THEN generated + 1 ELSE generated) > MaintainEvery

(* Maintenance runs on the first registration and after every              *)
(* MaintainEvery newly generated files.                                    *)
ShouldMaintain(newly) ==
  ~maintained \/ (IF newly THEN generated + 1 ELSE generated) >= MaintainEvery

(* register_and_maintain while it holds the mutex.                         *)
CacheRegister(key, path, newly) ==
  /\ cacheActive' = [cacheActive EXCEPT ![key] = @ + 1]
  /\ cachePath' = [cachePath EXCEPT ![key] = path]
  /\ IF ShouldMaintain(newly)
       THEN maintained' = TRUE /\ generated' = 0
       ELSE /\ generated' = IF newly THEN generated + 1 ELSE generated
            /\ UNCHANGED maintained

(* prune_disk_cache lists the directory: the files it may delete, and how  *)
(* many there are.                                                         *)
PruneCandidates(protected) == {p \in Path \ protected : file[p] = "old"}
TotalFiles == Cardinality({p \in Path : file[p] # "absent"})

(* One round of its loop; a file that is gone already counts as deleted.   *)
RemoveFile(p) == file' = [file EXCEPT ![p] = "absent"]

CacheRelease(key) ==
  /\ cacheActive' = [cacheActive EXCEPT ![key] = IF @ > 0 THEN @ - 1 ELSE 0]
  /\ cachePath' = [cachePath EXCEPT ![key] = IF cacheActive[key] > 1 THEN @ ELSE NoPath]
  /\ UNCHANGED <<maintained, generated>>

(* write_atomically: the rename puts a fresh file in the old one's place;  *)
(* when it fails, a file that is there is good enough.                     *)
PublishFile(p) ==
  \/ file' = [file EXCEPT ![p] = "fresh"]
  \/ file[p] # "absent" /\ UNCHANGED file
=============================================================================
