-------------------------------- MODULE Library --------------------------------
(***************************************************************************)
(* The ROM library (src/app/library.cpp): a thread that scans folders, and *)
(* the application's thread that starts and stops it and copies what it    *)
(* publishes (update() and rescan_library() in src/app/application.cpp).   *)
(*                                                                         *)
(* What a file says about itself is a stamp, a number that no two contents *)
(* share (the program's is the time of change and the size); NoRom is a    *)
(* file that is not there, or is not a ROM.  An entry is a file with the   *)
(* stamp of the content that was read.                                     *)
(***************************************************************************)
EXTENDS Integers, FiniteSets

CONSTANTS
  Files,          \* ROM files there may be
  FolderNames,    \* folders the user may choose
  FilesIn,        \* FilesIn[d]: the files of folder d
  MaxStamp,       \* bound: changes on the disk
  MaxRescans      \* bound: calls of rescan_library()

ASSUME LibraryAssumption ==
  /\ FilesIn \in [FolderNames -> SUBSET Files]
  /\ MaxStamp \in Nat /\ MaxRescans \in Nat

NoRom == 0
Stamps == 0 .. MaxStamp
Entries == Files \X (1 .. MaxStamp)

VARIABLES
  disk,         \* the stamp of each file
  lastStamp,    \* the latest stamp given
  worker,       \* worker_: where it is and its locals
  stopAsked,    \* the stop token
  cache,        \* cache_: the stamp each file was read under and the entry, if any
  published,    \* entries_
  revision,     \* revision_
  scanning,     \* scanning_
  window,       \* where the application's thread is
  seen,         \* library_revision_
  shown,        \* library_entries_
  folders,      \* settings_.rom_folders
  rescans,
  stampAtScan   \* history: the latest stamp when the latest scan began

threadVars  == <<worker, stopAsked, cache, published, revision, scanning>>
windowVars  == <<window, seen, shown, folders, rescans, stampAtScan>>
diskVars    == <<disk, lastStamp>>
libraryVars == <<threadVars, windowVars, diskVars>>

NotCached == [stamp |-> NoRom, entry |-> NoRom]
Idle == [at |-> "idle", todo |-> {}, files |-> {}, entries |-> {}, file |-> {}, stamp |-> NoRom]

LibraryInit ==
  /\ disk \in [Files -> 0 .. 1] /\ lastStamp = 1 /\ MaxStamp >= 1
  /\ worker = Idle /\ stopAsked = FALSE /\ scanning = FALSE
  /\ cache = [f \in Files |-> NotCached]
  /\ published = {} /\ revision = 0
  /\ window = "frame" /\ seen = 0 /\ shown = {} /\ folders = {} /\ rescans = 0
  /\ stampAtScan = lastStamp

-----------------------------------------------------------------------------
(* The scanning thread, run().                                             *)

\* The thread returns.
Return == worker' = Idle /\ scanning' = FALSE

\* The files of one more folder; then the stop token.
Find ==
  /\ worker.at = "finding" /\ worker.todo # {}
  /\ \E d \in worker.todo :
       IF stopAsked THEN Return
       ELSE /\ worker' = [worker EXCEPT !.todo = @ \ {d},
                                        !.files = @ \cup {f \in FilesIn[d] : disk[f] # NoRom}]
            /\ UNCHANGED scanning
  /\ UNCHANGED <<stopAsked, cache, published, revision>>

FoundAll ==
  /\ worker.at = "finding" /\ worker.todo = {}
  /\ worker' = [worker EXCEPT !.at = "examining"]
  /\ UNCHANGED <<stopAsked, cache, published, revision, scanning>>

\* Mutant: a file that was read once is never read again.
CacheHitAlways(f, stamp) == stamp # NoRom /\ cache[f].stamp # NoRom

CacheHit(f, stamp) == stamp # NoRom /\ cache[f].stamp = stamp

\* The next file: its stamp, and its entry when the stamp is the cached one.
Examine ==
  /\ worker.at = "examining"
  /\ \E f \in worker.files :
       IF stopAsked THEN Return
       ELSE /\ worker' = IF CacheHit(f, disk[f])
                         THEN [worker EXCEPT !.at = "examined", !.files = @ \ {f},
                                             !.entries = @ \cup {<<f, cache[f].entry>>}]
                         ELSE [worker EXCEPT !.at = "reading", !.files = @ \ {f},
                                             !.file = {f}, !.stamp = disk[f]]
            /\ UNCHANGED scanning
  /\ UNCHANGED <<stopAsked, cache, published, revision>>

\* read_rom_info(): the file may have changed since its stamp was taken.
Read ==
  /\ worker.at = "reading"
  /\ \E f \in worker.file :
       /\ worker' = [worker EXCEPT !.at = "examined", !.file = {}, !.stamp = NoRom,
                       !.entries = IF disk[f] = NoRom THEN @ ELSE @ \cup {<<f, disk[f]>>}]
       /\ cache' = IF disk[f] # NoRom /\ worker.stamp # NoRom
                   THEN [cache EXCEPT ![f] = [stamp |-> worker.stamp, entry |-> disk[f]]]
                   ELSE cache
  /\ UNCHANGED <<stopAsked, published, revision, scanning>>

\* Progress is shown every 300 ms, so after any file; the whole at the end, stopped or not.
Examined ==
  /\ worker.at = "examined"
  /\ \E at \in {"examining", "publishing"} : worker' = [worker EXCEPT !.at = at]
  /\ UNCHANGED <<stopAsked, cache, published, revision, scanning>>

ExaminedAll ==
  /\ worker.at = "examining" /\ worker.files = {}
  /\ worker' = [worker EXCEPT !.at = "publishingAll"]
  /\ UNCHANGED <<stopAsked, cache, published, revision, scanning>>

Publishing == worker.at \in {"publishing", "publishingAll"}
Counting   == worker.at \in {"counting", "countingAll"}

\* publish(): the entries under the lock, then the revision.
Publish ==
  \/ /\ Publishing /\ published' = worker.entries /\ UNCHANGED revision
     /\ worker' = [worker EXCEPT !.at = IF @ = "publishing" THEN "counting" ELSE "countingAll"]
  \/ /\ Counting /\ revision' = revision + 1 /\ UNCHANGED published
     /\ worker' = [worker EXCEPT !.at = IF @ = "counting" THEN "examining" ELSE "returning"]

PublishStep == Publish /\ UNCHANGED <<stopAsked, cache, scanning>>

Finish ==
  /\ worker.at = "returning" /\ Return
  /\ UNCHANGED <<stopAsked, cache, published, revision>>

ThreadStep ==
  Find \/ FoundAll \/ Examine \/ Read \/ Examined \/ ExaminedAll \/ PublishStep \/ Finish

-----------------------------------------------------------------------------
(* The application's thread.                                               *)

\* Mutant: the revision matters only while a scan runs.
HasNewsWhileScanning == scanning /\ revision # seen

HasNews == revision # seen

\* update() compares the revisions, ...
Notice ==
  /\ window = "frame" /\ HasNews /\ window' = "noting"
  /\ UNCHANGED <<seen, shown, folders, rescans, stampAtScan>>

\* ... reads the new one again, ...
NoteRevision ==
  /\ window = "noting" /\ seen' = revision /\ window' = "copying"
  /\ UNCHANGED <<shown, folders, rescans, stampAtScan>>

\* ... and copies the entries under the lock.
CopyEntries ==
  /\ window = "copying" /\ shown' = published /\ window' = "frame"
  /\ UNCHANGED <<seen, folders, rescans, stampAtScan>>

\* stop() waits for a thread that was asked to stop.
Joined == worker.at = "idle"

\* rescan_library(), after the user changed the folders or asked for it: stop(), ...
Rescan ==
  /\ window = "frame" /\ rescans < MaxRescans /\ rescans' = rescans + 1
  /\ folders' \in SUBSET FolderNames
  /\ stopAsked' = TRUE /\ window' = "joining"
  /\ UNCHANGED <<seen, shown, stampAtScan, worker, cache, published, revision, scanning>>

\* ... and a new thread, or nothing to show.
AfterJoin ==
  /\ window = "joining" /\ Joined /\ window' = "frame"
  /\ IF folders = {}
     THEN shown' = {} /\ scanning' = FALSE /\ UNCHANGED <<worker, stopAsked, stampAtScan>>
     ELSE /\ worker' = [Idle EXCEPT !.at = "finding", !.todo = folders]
          /\ scanning' = TRUE /\ stopAsked' = FALSE /\ stampAtScan' = lastStamp /\ UNCHANGED shown
  /\ UNCHANGED <<seen, folders, rescans, cache, published, revision>>

WindowStep == (Notice \/ NoteRevision \/ CopyEntries) /\ UNCHANGED threadVars

-----------------------------------------------------------------------------

\* Files appear, change and go.
DiskChanges ==
  /\ lastStamp < MaxStamp /\ lastStamp' = lastStamp + 1
  /\ \E f \in Files : \E stamp \in {NoRom, lastStamp + 1} \ {disk[f]} :
       disk' = [disk EXCEPT ![f] = stamp]

LibraryNext ==
  \/ ThreadStep /\ UNCHANGED <<windowVars, diskVars>>
  \/ WindowStep /\ UNCHANGED diskVars
  \/ Rescan /\ UNCHANGED diskVars
  \/ AfterJoin /\ UNCHANGED diskVars
  \/ DiskChanges /\ UNCHANGED <<threadVars, windowVars>>

\* Both threads run; the user and the disk need not do anything.
LibraryFairness ==
  /\ WF_libraryVars(ThreadStep /\ UNCHANGED <<windowVars, diskVars>>)
  /\ WF_libraryVars(WindowStep /\ UNCHANGED diskVars)
  /\ WF_libraryVars(AfterJoin /\ UNCHANGED diskVars)

LibrarySpec == LibraryInit /\ [][LibraryNext]_libraryVars /\ LibraryFairness

-----------------------------------------------------------------------------

Workers ==
  [at : {"idle", "finding", "examining", "reading", "examined", "publishing",
         "publishingAll", "counting", "countingAll", "returning"},
   todo : SUBSET FolderNames, files : SUBSET Files, entries : SUBSET Entries,
   file : SUBSET Files, stamp : Stamps]

\* Types; and the thread runs exactly while scanning() says so, so that "No ROMs found" is
\* never shown for a scan that has not ended.
LibraryTypeOK ==
  /\ disk \in [Files -> Stamps] /\ lastStamp \in 1 .. MaxStamp
  /\ worker \in Workers
  /\ stopAsked \in BOOLEAN /\ scanning \in BOOLEAN /\ (scanning <=> worker.at # "idle")
  /\ cache \in [Files -> [stamp : Stamps, entry : Stamps]]
  /\ published \in SUBSET Entries /\ revision \in Nat
  /\ window \in {"frame", "noting", "copying", "joining"}
  /\ seen \in 0 .. revision /\ shown \in SUBSET Entries /\ folders \in SUBSET FolderNames
  /\ rescans \in 0 .. MaxRescans /\ stampAtScan \in 1 .. MaxStamp

\* Whenever the window has no news and no publication is half done, it shows what the thread
\* published, or nothing since the last folder was removed: no copy is left behind by a
\* publication between the reading of the revision and the copying of the entries.
ShownIsPublished ==
  window \in {"frame", "joining"} /\ ~HasNews /\ ~Counting => shown \in {published, {}}

\* What a scan publishes when it ends is what the disk holds, if nothing changed on the disk
\* since it began: the cache never brings back a content that is gone, whatever scans were
\* stopped and whatever files changed while they were read.
OnDisk == {<<f, disk[f]>> : f \in {g \in UNION {FilesIn[d] : d \in folders} : disk[g] # NoRom}}
ScanIsCurrent ==
  window # "joining" /\ folders # {} /\ worker.at = "idle" /\ lastStamp = stampAtScan => published = OnDisk

\* The window shows what was published, and what was published is what the disk holds.
LibraryExact == LibraryTypeOK /\ ShownIsPublished /\ ScanIsCurrent

\* What was published gets shown, unless there are no folders left: the last publication of a
\* scan is not missed because the scan has ended.
PublishedIsShown == (published # shown) ~> (published = shown \/ folders = {})
=============================================================================
