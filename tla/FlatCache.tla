------------------------------- MODULE FlatCache -------------------------------
(***************************************************************************)
(* flat-cache: a cache in memory with a dirty flag and a file to which save *)
(* writes all of it.  Writing the file is not atomic: a write that fails,   *)
(* or a process that dies in it, may leave a torn file.  The operations are *)
(* the building blocks of the modules that keep their state in a FlatCache. *)
(* Left out: TTL and LRU of the entries, changes of cacheId and cacheDir,   *)
(* loadFileStream, legacy formats, other processes that use the file.       *)
(***************************************************************************)
CONSTANTS Keys, Values, None, Torn

VARIABLES
    cache,  \* value of each key, or None
    dirty,  \* changesSinceLastSave
    disk,   \* the cache file: what it holds, Torn, or None without a file
    parted  \* history: the file went, or should have gone, without the flag

Empty == [k \in Keys |-> None]
Contents == [Keys -> Values \cup {None}]

FlatTypeOK ==
    /\ cache \in Contents
    /\ dirty \in BOOLEAN
    /\ disk \in Contents \cup {None, Torn}
    /\ parted \in BOOLEAN

\* Mutant: a torn file goes into the cache.
Loaded_Torn(file) == IF file = None THEN Empty ELSE file

\* What a load of the file puts into a new cache: a torn one does not parse.
Loaded(file) == IF file \in {None, Torn} THEN Empty ELSE file

FlatInit ==
    /\ cache = Empty /\ dirty = FALSE
    /\ disk = None /\ parted = FALSE

SetKey(k, v) ==
    /\ cache' = [cache EXCEPT ![k] = v]
    /\ dirty' = TRUE
    /\ UNCHANGED <<disk, parted>>

RemoveKey(k) == SetKey(k, None)

\* Mutant: the flag is reset even if the write fails.
Save_ResetsFlag(contents, changed) ==
    \/ ~changed /\ dirty' = FALSE /\ UNCHANGED <<disk, parted>>
    \/ changed /\ dirty' = FALSE /\ disk' = contents /\ parted' = FALSE
    \/ changed /\ dirty' = FALSE /\ disk' \in {disk, Torn} /\ UNCHANGED parted

\* save of these contents under this flag: nothing to do, written, or failed.
Save(contents, changed) ==
    \/ ~changed /\ dirty' = FALSE /\ UNCHANGED <<disk, parted>>
    \/ changed /\ dirty' = FALSE /\ disk' = contents /\ parted' = FALSE
    \/ changed /\ dirty' = TRUE /\ disk' \in {disk, Torn} /\ UNCHANGED parted

FlatClear ==
    /\ cache' = Empty
    /\ Save(Empty, TRUE)

\* A load into a cache in use adds what the file holds; an error changes nothing.
Load ==
    /\ disk \notin {None, Torn}
    /\ cache' = [k \in Keys |-> IF disk[k] = None THEN cache[k] ELSE disk[k]]
    /\ dirty' = TRUE
    /\ UNCHANGED <<disk, parted>>

\* The flag stays as it is, so a clean cache is not written again.
RemoveCacheFile ==
    /\ disk # None
    /\ disk' = None /\ parted' = TRUE
    /\ UNCHANGED <<cache, dirty>>

\* The memory is cleared first; if the file cannot be removed the flag stays.
FlatDestroy ==
    /\ cache' = Empty
    /\ \/ disk' = None /\ dirty' = FALSE /\ parted' = FALSE
       \/ disk # None /\ parted' = TRUE /\ UNCHANGED <<disk, dirty>>

\* A new process loads the file, after one that ended, maybe in a save.
LoadAgain ==
    /\ disk' \in {disk} \cup (IF dirty THEN {Torn} ELSE {})
    /\ cache' = Loaded(disk')
    /\ dirty' = (disk' \notin {None, Torn})
    /\ parted' = FALSE

\* While the flag is down, loading the file would give what memory holds,
\* unless the file was removed without regard to the flag.
FlatClean == ~dirty /\ ~parted => Loaded(disk) = cache
=============================================================================
