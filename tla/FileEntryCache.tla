---------------------------- MODULE FileEntryCache ----------------------------
(***************************************************************************)
(* file-entry-cache: tells which files changed since they were last         *)
(* reconciled.  What an inspection sees goes into a FlatCache at once; the  *)
(* comparison is with the baseline, the meta of the last load or reconcile, *)
(* copied from the cache when a file is first inspected.  Files change at   *)
(* any time, also between the stat and the read of one inspection.          *)
(* hasFileChanged, analyzeFiles and the like inspect one file after         *)
(* another.  Left out: renameCacheKeys, cwd and keys of paths,              *)
(* hashAlgorithm, hash collisions, custom properties in meta.               *)
(***************************************************************************)
CONSTANTS
    Files,    \* the paths, which are the keys
    Texts,    \* what a file can contain; a hash is a text
    SizeOf,   \* size of each text
    Times,    \* mtimes
    None, Torn,
    Missing,  \* no such file
    Blocked,  \* stat or read fails, but not with ENOENT
    Unvisited \* the file is not in originalMeta

Sizes == {SizeOf[t] : t \in Texts}
Metas == [size : Sizes, mtime : Times, hash : Texts \cup {None}]

\* The sentinels are told apart from what they stand beside.
ASSUME FileEntryCacheAssumption ==
    /\ None \notin Texts /\ None \notin Metas
    /\ Unvisited \notin Metas \cup {None}
    /\ {None, Torn} \cap [Files -> Metas \cup {None}] = {}
    /\ None \notin [size : Sizes, mtime : Times, read : Texts \cup {None}]

VARIABLES
    cache, dirty, disk, parted,  \* the FlatCache
    files,     \* the files on disk
    baseline,  \* originalMeta: Unvisited, or the meta (None: undefined)
    seen,      \* history: what the inspection behind a cache entry saw
    settled,   \* history: seen, as of the last load or reconcile
    saved      \* history: seen, as of the contents of the cache file

INSTANCE FlatCache WITH Keys <- Files, Values <- Metas

fileVars == <<cache, dirty, disk, parted, files, baseline, seen, settled, saved>>

OnDisk == [text : Texts, mtime : Times]
FileStates == OnDisk \cup {Missing, Blocked}

\* read is the text, if the inspection computed the hash.
Views == [size : Sizes, mtime : Times, read : Texts \cup {None}]
NotSeen == [f \in Files |-> None]

\* Types, and the cache has an entry just for what was seen.
FileTypeOK ==
    /\ FlatTypeOK
    /\ files \in [Files -> FileStates]
    /\ baseline \in [Files -> Metas \cup {None, Unvisited}]
    /\ {seen, settled, saved} \subseteq [Files -> Views \cup {None}]
    /\ \A f \in Files : (cache[f] = None) = (seen[f] = None)

-----------------------------------------------------------------------------
(* The comparison.                                                         *)

\* Mutant: the comparison is with the working cache.
Against_Cache(f) == cache[f]

\* The meta that file f is compared with; None means that the file is new.
Against(f) == IF baseline[f] = Unvisited THEN cache[f] ELSE baseline[f]

\* Does the code report file f changed, in state file, with these options?
Changed(f, file, checkSum, modifiedTime) ==
    LET meta == Against(f)
    IN  \/ meta = None
        \/ modifiedTime /\ meta.mtime # file.mtime
        \/ meta.size # SizeOf[file.text]
        \/ checkSum /\ meta.hash # file.text

-----------------------------------------------------------------------------
(* Operations.                                                             *)

OldHash(f) == IF cache[f] = None THEN None ELSE cache[f].hash

\* getFileDescriptor stats the file and, with useCheckSum, reads it, by then
\* maybe in a later state.
Inspect(f, checkSum) ==
    /\ files[f] \in OnDisk
    /\ \E later \in IF checkSum THEN OnDisk ELSE {files[f]} :
        LET size == SizeOf[files[f].text]
            time == files[f].mtime
        IN  /\ files' = [files EXCEPT ![f] = later]
            /\ SetKey(f, [size |-> size, mtime |-> time,
                          hash |-> IF checkSum THEN later.text ELSE OldHash(f)])
            /\ seen' = [seen EXCEPT ![f] =
                          [size |-> size, mtime |-> time,
                           read |-> IF checkSum THEN later.text ELSE None]]
    /\ baseline' = [baseline EXCEPT ![f] = Against(f)]
    /\ UNCHANGED <<settled, saved>>

RemoveEntry(f) ==
    /\ RemoveKey(f)
    /\ baseline' = [baseline EXCEPT ![f] = Unvisited]
    /\ seen' = [seen EXCEPT ![f] = None]
    /\ settled' = [settled EXCEPT ![f] = None]
    /\ UNCHANGED saved

\* A caller removes the entry.
Forget(f) == RemoveEntry(f) /\ UNCHANGED files

\* The inspection fails: the stat, or the read of a file lost after the stat.
InspectFails(f, checkSum) ==
    /\ \/ files[f] \notin OnDisk /\ UNCHANGED files
       \/ /\ checkSum /\ files[f] \in OnDisk
          /\ \E x \in {Missing, Blocked} : files' = [files EXCEPT ![f] = x]
    /\ RemoveEntry(f)

\* The file now holds what was seen, if it was written.
Saved(changed, view) ==
    saved' = IF disk' \in {None, Torn} THEN NotSeen
             ELSE IF changed /\ ~dirty' THEN view
             ELSE saved

Gone(f) == cache[f] # None /\ files[f] = Missing

\* Mutant: the baseline of the inspected files stays.
Promoted_Kept(f, entries) ==
    IF entries[f] = None THEN Unvisited ELSE baseline[f]

\* The new baseline of a file: the cached meta if it was inspected.
Promoted(f, entries) ==
    IF baseline[f] = Unvisited \/ entries[f] = None THEN Unvisited
    ELSE entries[f]

\* The entries of lost files are removed, the baseline moves, the cache is
\* saved; the baseline has moved even if the save fails.
Reconcile ==
    LET left == [f \in Files |-> IF Gone(f) THEN None ELSE cache[f]]
        changed == dirty \/ \E f \in Files : Gone(f)
    IN  /\ cache' = left
        /\ baseline' = [f \in Files |-> Promoted(f, left)]
        /\ seen' = [f \in Files |-> IF Gone(f) THEN None ELSE seen[f]]
        /\ settled' = seen'
        /\ Save(left, changed)
        /\ Saved(changed, seen')
        /\ UNCHANGED files

\* The FlatCache is saved without a reconcile, by its timer or by a caller.
Persist ==
    /\ dirty
    /\ Save(cache, dirty)
    /\ Saved(dirty, seen)
    /\ UNCHANGED <<cache, files, baseline, seen, settled>>

\* The caller clears the FlatCache; baselines of inspected files stay.
ClearCache ==
    /\ FlatClear
    /\ seen' = NotSeen
    /\ settled' = [f \in Files |-> IF baseline[f] = Unvisited THEN None
                                  ELSE settled[f]]
    /\ Saved(TRUE, NotSeen)
    /\ UNCHANGED <<files, baseline>>

\* The caller loads the file into the FlatCache; a new baseline is what was
\* loaded, for files not yet inspected.
LoadCache ==
    /\ Load
    /\ seen' = [f \in Files |-> IF disk[f] = None THEN seen[f] ELSE saved[f]]
    /\ settled' = [f \in Files |->
                     IF disk[f] = None \/ baseline[f] # Unvisited THEN settled[f]
                     ELSE saved[f]]
    /\ UNCHANGED <<files, baseline, saved>>

DeleteCacheFile ==
    /\ RemoveCacheFile
    /\ saved' = NotSeen
    /\ UNCHANGED <<files, baseline, seen, settled>>

Destroy ==
    /\ FlatDestroy
    /\ baseline' = [f \in Files |-> Unvisited]
    /\ seen' = NotSeen /\ settled' = NotSeen
    /\ Saved(FALSE, NotSeen)
    /\ UNCHANGED files

\* The process ends, and the next one creates the cache from the file.
Restart ==
    /\ LoadAgain
    /\ baseline' = [f \in Files |-> Unvisited]
    /\ Saved(FALSE, NotSeen)
    /\ seen' = saved' /\ settled' = saved'
    /\ UNCHANGED files

\* Somebody writes, removes or blocks a file.
Edit(f) ==
    /\ \E x \in FileStates \ {files[f]} : files' = [files EXCEPT ![f] = x]
    /\ UNCHANGED <<cache, dirty, disk, parted, baseline, seen, settled, saved>>

FileInit ==
    /\ FlatInit
    /\ files \in [Files -> FileStates]
    /\ baseline = [f \in Files |-> Unvisited]
    /\ seen = NotSeen /\ settled = NotSeen /\ saved = NotSeen

Look(f) ==
    \E checkSum \in BOOLEAN : Inspect(f, checkSum) \/ InspectFails(f, checkSum)

FileNext ==
    \/ \E f \in Files : Look(f) \/ Forget(f) \/ Edit(f)
    \/ Reconcile \/ Persist \/ ClearCache \/ LoadCache
    \/ DeleteCacheFile \/ Destroy \/ Restart

FileSpec == FileInit /\ [][FileNext]_fileVars

-----------------------------------------------------------------------------
(* Properties.                                                             *)

\* While changesSinceLastSave is down, the cache file holds what memory holds,
\* after any failed saves, unless the file was deleted without regard to the
\* flag: so a save that is skipped loses nothing.
CleanMeansSaved == FlatClean

\* The meta has a hash that the settled inspection did not compute.
OldHashKept(f) == settled[f].read = None /\ Against(f).hash # None

\* A file is reported changed just if it differs from what was seen of it when
\* it was last settled, by a reconcile or by a load of what was once saved;
\* never seen, or never hashed, counts as different.  A checksum says nothing
\* if that inspection left it out and an older hash stayed in the meta.
ReportRight ==
    \A f \in Files, file \in OnDisk, checkSum, modifiedTime \in BOOLEAN :
        LET view == settled[f]
            differs ==
                \/ view = None
                \/ view.size # SizeOf[file.text]
                \/ modifiedTime /\ view.mtime # file.mtime
                \/ checkSum /\ view.read # file.text
        IN  (view # None /\ checkSum => ~OldHashKept(f))
            => (Changed(f, file, checkSum, modifiedTime) <=> differs)

\* Looking is harmless: an inspection changes no report that a later one will
\* give, of this file or another, so a file reported as changed stays so until
\* it is reconciled.
LookingIsHarmless ==
    [][(\E f \in Files, checkSum \in BOOLEAN : Inspect(f, checkSum))
       => \A f \in Files, file \in OnDisk, checkSum, modifiedTime \in BOOLEAN :
            Changed(f, file, checkSum, modifiedTime)'
                = Changed(f, file, checkSum, modifiedTime)]_fileVars
=============================================================================
