---------------------------- MODULE Frontend_proof ----------------------------
(***************************************************************************)
(* What the application keeps for its user, beside the machine.            *)
(*                                                                         *)
(* Battery saves are never corrupted nor silently left behind, for any     *)
(* games, any autosave delay and any number of writes, faults and crashes. *)
(* The library's window shows what its thread published, for any files.    *)
(* Save states are loaded whole or not at all, and rewinding is a history: *)
(* the buffer of differences, whatever it evicts, holds a suffix of the    *)
(* moments it was given, byte for byte, for any bytes, sizes and budgets.  *)
(***************************************************************************)
EXTENDS Session, Library, BatterySave, Arithmetic_proof, SequenceTheorems, TLAPS

-----------------------------------------------------------------------------
(***************************************************************************)
(* Battery saves.                                                          *)
(***************************************************************************)
\* What is clean is on the disk, in the middle of a call too.
CleanAlways ==
  loaded # NoGame /\ ~dirty /\ ~misread =>
    \/ data = sav[loaded]
    \/ data \in {Erased, Unsized} /\ sav[loaded] \in {Missing, Unsized}

(***************************************************************************)
(* The inductive invariant.  A flush is under way only for a dirty chip;   *)
(* what is about to be renamed is the whole content of the running game;   *)
(* and a flush that is over has cleaned the chip or reported why not.      *)
(***************************************************************************)
SaveInv ==
  /\ SaveTypeOK
  /\ SavIntact
  /\ CleanAlways
  /\ dirty => loaded # NoGame
  /\ stage \in {"create", "write", "rename"} => dirty
  /\ stage = "rename" => tmp[loaded] = data
  /\ stage = "done" /\ dirty => save_error

LEMMA PlayIsCaller == Play \in Callers
  BY DEF Callers

\* A caller that loads a game names it.
LEMMA LoadCaller ==
  ASSUME NEW caller \in Callers, caller.then = "load"
  PROVE  caller.game \in SavedGames
<1>1. caller \notin {Play, Unload, Exit}
  BY DEF Play, Unload, Exit
<1>2. PICK g \in SavedGames : caller = Load(g)
  BY <1>1 DEF Callers
<1> QED BY <1>2 DEF Load

LEMMA InitSaveInv == SaveInit => SaveInv
<1> SUFFICES ASSUME SaveInit PROVE SaveInv
  OBVIOUS
<1> USE SaveAssumption DEF SaveInit, ChipContents, Stages
<1>1. /\ sav \in [SavedGames -> ChipContents \cup {Missing, Partial}]
      /\ tmp \in [SavedGames -> ChipContents \cup {Missing, Partial}]
      /\ slot \in [SavedGames -> ChipContents \cup {Missing}]
  OBVIOUS
<1>2. FlagsOK
  BY DEF FlagsOK
<1>3. SaveTypeOK
  BY <1>1, <1>2, PlayIsCaller DEF SaveTypeOK
<1> QED BY <1>3 DEF SaveInv, SavIntact, CleanAlways

\* Callers is what Flushing is called with.
LEMMA FlushingType ==
  ASSUME NEW caller \in Callers, SaveInv, Flushing(caller)
  PROVE  /\ onward' \in Callers /\ stage' \in {"create", "done"}
         /\ stage' = "create" <=> dirty
  BY DEF Flushing, SaveInv

\* The three flags stay Boolean.
LEMMA NextFlags == FlagsOK /\ [SaveNext]_saveVars => FlagsOK'
<1> SUFFICES ASSUME FlagsOK, [SaveNext]_saveVars PROVE FlagsOK'
  OBVIOUS
<1> USE DEF FlagsOK, chip, timer, onDisk, flush, budgets
<1>1. CASE GameWrites \/ GameReads \/ SaveState \/ LoadState \/ LoadBadState
  BY <1>1 DEF GameWrites, GameReads, SaveState, LoadState, LoadBadState
<1>2. CASE UpdateAutosave \/ FlushToLoad \/ FlushToUnload \/ Quit \/ UNCHANGED saveVars
  BY <1>2 DEF UpdateAutosave, FlushToLoad, FlushToUnload, Quit, saveVars
<1>3. CASE CreateTemporary \/ WriteTemporary
  BY <1>3 DEF CreateTemporary, WriteTemporary, Succeeds, Fails
<1>4. CASE RenameTemporary
  BY <1>4 DEF RenameTemporary, Succeeds, Fails
<1>5. CASE KeepPlaying \/ FinishUnload \/ FinishExit \/ Crash
  BY <1>5 DEF KeepPlaying, FinishUnload, FinishExit, Crash, NoProcess, StartsClean
<1>6. CASE FinishLoad
  BY <1>6 DEF FinishLoad, StartsClean
<1> QED BY <1>1, <1>2, <1>3, <1>4, <1>5, <1>6 DEF SaveNext, FlushStep, Resume

LEMMA NextSaveInv == SaveInv /\ [SaveNext]_saveVars => SaveInv'
<1> SUFFICES ASSUME SaveInv, [SaveNext]_saveVars PROVE SaveInv'
  OBVIOUS
<1> USE SaveAssumption
        DEF SaveInv, SaveTypeOK, SavIntact, CleanAlways, ChipContents, Stages, Erased,
            chip, timer, onDisk, flush, budgets
<1>0. FlagsOK'
  BY NextFlags
<1>1. CASE GameWrites
  BY <1>0, <1>1 DEF GameWrites, Playing
<1>2. CASE GameReads
  BY <1>0, <1>2 DEF GameReads, Playing
<1>3. CASE SaveState
  BY <1>0, <1>3 DEF SaveState, Playing
<1>4. CASE LoadState
  BY <1>0, <1>4 DEF LoadState, Playing
<1>5. CASE LoadBadState
  BY <1>0, <1>5 DEF LoadBadState, Playing
<1>6. CASE UpdateAutosave
  <2>2. CASE generation # observed
    BY <1>0, <1>6, <2>2 DEF UpdateAutosave, Playing
  <2>3. CASE generation = observed /\ FlushDue
    <3>1. Flushing(Play)
      BY <1>0, <1>6, <2>3 DEF UpdateAutosave
    <3>2. onward' \in Callers /\ stage' \in {"create", "done"} /\ (stage' = "create" <=> dirty)
      BY <3>1, PlayIsCaller, FlushingType
    <3> QED BY <1>0, <1>6, <2>3, <3>2 DEF UpdateAutosave, Playing, QuietFrames
  <2>4. CASE generation = observed /\ ~FlushDue
    BY <1>0, <1>6, <2>4 DEF UpdateAutosave, Playing, QuietFrames
  <2> QED BY <2>2, <2>3, <2>4
<1>7. CASE FlushToLoad \/ FlushToUnload \/ Quit
  <2>1. PICK caller \in Callers : Flushing(caller)
    BY <1>0, <1>7 DEF FlushToLoad, FlushToUnload, Quit, Callers
  <2>2. onward' \in Callers /\ stage' \in {"create", "done"} /\ (stage' = "create" <=> dirty)
    BY <2>1, FlushingType
  <2> QED BY <1>0, <1>7, <2>2 DEF FlushToLoad, FlushToUnload, Quit, Playing
<1>8. CASE CreateTemporary
  <2>1. tmp' \in [SavedGames -> ChipContents \cup {Missing, Partial}]
    BY <1>0, <1>8 DEF CreateTemporary, Succeeds, Fails
  <2>2. SaveTypeOK'
    BY <1>0, <1>8, <2>1 DEF CreateTemporary, Succeeds, Fails
  <2> QED BY <1>0, <1>8, <2>2 DEF CreateTemporary, Succeeds, Fails
<1>9. CASE WriteTemporary
  <2>0. loaded \in SavedGames
    BY <1>0, <1>9 DEF WriteTemporary, Succeeds, Fails
  <2>1. /\ tmp' \in [SavedGames -> ChipContents \cup {Missing, Partial}]
        /\ stage' = "rename" => tmp'[loaded] = data
    BY <1>0, <1>9, <2>0 DEF WriteTemporary, Succeeds, Fails
  <2>2. SaveTypeOK'
    BY <1>0, <1>9, <2>1 DEF WriteTemporary, Succeeds, Fails
  <2> QED BY <1>0, <1>9, <2>1, <2>2 DEF WriteTemporary, Succeeds, Fails
<1>10. CASE RenameTemporary
  <2>0. loaded \in SavedGames /\ stage = "rename" /\ tmp[loaded] = data
    BY <1>0, <1>10 DEF RenameTemporary, Succeeds, Fails
  <2>1. /\ tmp' \in [SavedGames -> ChipContents \cup {Missing, Partial}]
        /\ sav' \in [SavedGames -> ChipContents \cup {Missing, Partial}]
        /\ \A g \in SavedGames : sav'[g] # Partial
        /\ ~dirty' => sav'[loaded] = data
    <3>1. tmp' = [tmp EXCEPT ![loaded] = Missing]
      BY <1>10 DEF RenameTemporary
    <3>2. \/ sav' = [sav EXCEPT ![loaded] = data]
          \/ sav' = sav /\ dirty' = dirty
      BY <1>10, <2>0 DEF RenameTemporary, Fails
    <3>3. data # Partial
      OBVIOUS
    <3>4. dirty
      BY <2>0
    <3> QED BY <2>0, <3>1, <3>2, <3>3, <3>4
  <2>2. SaveTypeOK'
    BY <1>0, <1>10, <2>1 DEF RenameTemporary, Succeeds, Fails
  <2> QED BY <1>0, <1>10, <2>0, <2>1, <2>2 DEF RenameTemporary, Succeeds, Fails
<1>11. CASE KeepPlaying
  BY <1>0, <1>11 DEF KeepPlaying
<1>12. CASE FinishLoad
  <2>1. loaded' \in SavedGames
    BY <1>0, <1>12, LoadCaller DEF FinishLoad
  <2>2. sav[loaded'] \in ChipContents \cup {Missing} /\ Configured(loaded') \in {Erased, Unsized}
    BY <2>1 DEF Configured
  <2>3. data' \in ChipContents
    BY <1>0, <1>12, <2>2 DEF FinishLoad
  <2>4. onward' \in Callers
    BY <1>0, <1>12, PlayIsCaller DEF FinishLoad
  <2>5. ~misread' => data' = sav[loaded'] \/ (data' \in {Erased, Unsized} /\ sav[loaded'] \in {Missing, Unsized})
    BY <1>0, <1>12, <2>2 DEF FinishLoad
  <2>6. faults' \in 0 .. MaxFaults
    BY <1>0, <1>12 DEF FinishLoad
  <2>7. /\ generation' = 0 /\ dirty' = FALSE /\ observed' = 0 /\ quiet' = 0
        /\ stage' = "idle" /\ UNCHANGED <<sav, tmp, slot, writes, loads, crashes>>
    BY <1>0, <1>12 DEF FinishLoad, StartsClean
  <2>8. SaveTypeOK'
    BY <1>0, <2>1, <2>3, <2>4, <2>6, <2>7
  <2> QED BY <2>1, <2>5, <2>7, <2>8
<1>13. CASE FinishUnload \/ FinishExit
  <2>1. onward' \in Callers
    BY <1>0, <1>13, PlayIsCaller DEF FinishUnload, FinishExit, NoProcess
  <2> QED BY <1>0, <1>13, <2>1 DEF FinishUnload, FinishExit, NoProcess, StartsClean
<1>14. CASE Crash
  <2>1. onward' \in Callers
    BY <1>0, <1>14, PlayIsCaller DEF Crash, NoProcess
  <2> QED BY <1>0, <1>14, <2>1 DEF Crash, NoProcess, StartsClean
<1>15. CASE UNCHANGED saveVars
  BY <1>0, <1>15 DEF saveVars
<1> QED BY <1>1, <1>2, <1>3, <1>4, <1>5, <1>6, <1>7, <1>8, <1>9, <1>10, <1>11, <1>12, <1>13,
           <1>14, <1>15 DEF SaveNext, FlushStep, Resume

(***************************************************************************)
(* No crash and no failed file operation leaves half a save.               *)
(***************************************************************************)
THEOREM NeverTorn == SaveSpec => []SavIntact
<1>1. SaveInit => SaveInv
  BY InitSaveInv
<1>2. SaveInv /\ [SaveNext]_saveVars => SaveInv'
  BY NextSaveInv
<1>3. SaveInv => SavIntact
  BY DEF SaveInv
<1> QED BY <1>1, <1>2, <1>3, PTL DEF SaveSpec

(***************************************************************************)
(* Between calls, a chip that is not marked dirty is on the disk.          *)
(***************************************************************************)
THEOREM CleanIsSaved == SaveSpec => []CleanOnDisk
<1>1. SaveInit => SaveInv
  BY InitSaveInv
<1>2. SaveInv /\ [SaveNext]_saveVars => SaveInv'
  BY NextSaveInv
<1>3. SaveInv => CleanOnDisk
  BY DEF SaveInv, CleanAlways, CleanOnDisk
<1> QED BY <1>1, <1>2, <1>3, PTL DEF SaveSpec

(***************************************************************************)
(* Only a crash, or a failure that was reported, loses unsaved writes.     *)
(***************************************************************************)
LEMMA LeavesReported ==
  ASSUME SaveInv, [SaveNext]_saveVars, Leaving, dirty
  PROVE  save_error
<1>1. CASE stage = "done"
  BY <1>1 DEF SaveInv
<1>2. CASE loaded' # loaded
  <2>1. ~Crash
    BY SaveAssumption DEF Leaving, Crash, SaveInv, SaveTypeOK
  <2>2. FinishLoad \/ FinishUnload \/ FinishExit
    BY <1>2, <2>1 DEF SaveNext, saveVars, chip, timer, onDisk, flush, budgets, GameWrites, GameReads, SaveState,
          LoadState, LoadBadState, UpdateAutosave, FlushToLoad, FlushToUnload, Quit, FlushStep, Resume,
          CreateTemporary, WriteTemporary, RenameTemporary, Succeeds, Fails, KeepPlaying
  <2> QED BY <2>2 DEF FinishLoad, FinishUnload, FinishExit, SaveInv
<1> QED BY <1>1, <1>2 DEF Leaving

THEOREM NothingLostSilently == SaveSpec => LeavesNothingUnsaved
<1>1. SaveInit => SaveInv
  BY InitSaveInv
<1>2. SaveInv /\ [SaveNext]_saveVars => SaveInv'
  BY NextSaveInv
<1>3. SaveInv /\ [SaveNext]_saveVars => [Leaving /\ dirty => save_error]_saveVars
  BY LeavesReported
<1> QED BY <1>1, <1>2, <1>3, PTL DEF SaveSpec, LeavesNothingUnsaved

-----------------------------------------------------------------------------
(***************************************************************************)
(* The refinement: files are replaced whole, each by its own game.         *)
(***************************************************************************)
LEMMA InitRefines == SaveInit => Store!Init
  BY DEF SaveInit, Store!Init

LEMMA NextRefines == SaveInv /\ [SaveNext]_saveVars => [Store!Next]_Store!vars
<1> SUFFICES ASSUME SaveInv, [SaveNext]_saveVars PROVE Store!Next \/ UNCHANGED Store!vars
  OBVIOUS
<1> USE DEF chip, timer, onDisk, flush, budgets, Playing
<1>1. CASE GameWrites \/ GameReads \/ LoadState
  <2>1. data' \in ChipContents
    BY <1>1, SaveAssumption
       DEF GameWrites, GameReads, LoadState, SaveInv, SaveTypeOK, ChipContents, Erased
  <2>2. Store!Change
    BY <1>1, <2>1 DEF GameWrites, GameReads, LoadState, Store!Change
  <2> QED BY <2>2 DEF Store!Next
<1>2. CASE RenameTemporary
  BY <1>2 DEF RenameTemporary, Succeeds, Fails, SaveInv, SaveTypeOK, Store!Next, Store!Persist, Store!vars
<1>3. CASE FinishLoad
  <2>1. loaded' = onward.game /\ loaded' \in SavedGames /\ UNCHANGED sav
    BY <1>3, LoadCaller DEF FinishLoad, SaveInv, SaveTypeOK
  <2>2. data' \in {Erased, Unsized} \cup ({sav[loaded']} \cap ChipContents)
    BY <1>3, <2>1 DEF FinishLoad, Configured, SaveInv, SaveTypeOK, SavIntact
  <2>3. Store!Open(loaded')
    BY <2>1, <2>2 DEF Store!Open
  <2> QED BY <2>1, <2>3 DEF Store!Next
<1>4. CASE FinishUnload \/ FinishExit \/ Crash
  BY <1>4 DEF FinishUnload, FinishExit, Crash, NoProcess, Store!Next, Store!Close
<1>5. CASE SaveState \/ LoadBadState \/ UpdateAutosave \/ FlushToLoad \/ FlushToUnload \/ Quit
  BY <1>5 DEF SaveState, LoadBadState, UpdateAutosave, FlushToLoad, FlushToUnload, Quit, Store!vars
<1>6. CASE CreateTemporary \/ WriteTemporary \/ KeepPlaying \/ UNCHANGED saveVars
  BY <1>6 DEF CreateTemporary, WriteTemporary, Succeeds, Fails, KeepPlaying, saveVars, Store!vars
<1> QED BY <1>1, <1>2, <1>3, <1>4, <1>5, <1>6 DEF SaveNext, FlushStep, Resume

(***************************************************************************)
(* The dirty marks, the delay and the temporary file add up to a store     *)
(* that replaces whole files in one step.                                  *)
(***************************************************************************)
THEOREM StoreRefined == SaveSpec => ImplementsStore
<1>1. SaveInit => SaveInv /\ Store!Init
  BY InitSaveInv, InitRefines
<1>2. SaveInv /\ [SaveNext]_saveVars => SaveInv'
  BY NextSaveInv
<1>3. SaveInv /\ [SaveNext]_saveVars => [Store!Next]_Store!vars
  BY NextRefines
<1>4. SaveSpec => Store!Spec
  BY <1>1, <1>2, <1>3, PTL DEF SaveSpec, Store!Spec
<1> QED BY <1>4 DEF ImplementsStore

-----------------------------------------------------------------------------
(***************************************************************************)
(* The ROM library is exact, for any files, folders and number of changes  *)
(* and scans.                                                              *)
(*                                                                         *)
(* LibraryExact is not inductive: what is published when a scan ends       *)
(* depends on what the thread has found and read before.  LibraryInv adds  *)
(* what it holds at each place, while nothing changes on the disk, and     *)
(* that a cached entry under the stamp on the disk is the content on it.   *)
(***************************************************************************)
Quiet  == lastStamp = stampAtScan
OfInterest == window # "joining" /\ folders # {} /\ Quiet

\* The files on the disk in the folders S, and the entries of the files S.
Present(S)  == {g \in UNION {FilesIn[d] : d \in S} : disk[g] # NoRom}
Listed(S) == {<<f, disk[f]>> : f \in S}

\* Stamps are of the past; no two contents of a file share one.
Stamped ==
  /\ lastStamp \in 1 .. MaxStamp /\ worker.stamp <= lastStamp /\ stampAtScan <= lastStamp
  /\ \A f \in Files :
       /\ disk[f] <= lastStamp /\ cache[f].stamp <= lastStamp
       /\ CacheHit(f, disk[f]) => cache[f].entry = disk[f]

\* A scan is cut short only when another follows, or none is wanted.
CutShort == stopAsked => window = "joining" \/ folders = {}

\* How far the scan has come, at each place of the thread.
Progress ==
  /\ worker.at = "finding" =>
       /\ worker.todo \subseteq folders /\ worker.entries = {}
       /\ worker.files = Present(folders \ worker.todo)
  /\ worker.at \in {"examining", "examined", "publishing", "counting"} =>
       /\ worker.files \subseteq Present(folders)
       /\ worker.entries = Listed(Present(folders) \ worker.files)
  /\ worker.at = "reading" =>
       /\ worker.files \subseteq Present(folders)
       /\ \E f \in Present(folders) \ worker.files :
            /\ worker.file = {f} /\ worker.stamp = disk[f]
            /\ worker.entries = Listed(Present(folders) \ (worker.files \cup {f}))
  /\ worker.at = "publishingAll" => worker.entries = Listed(Present(folders))
  /\ worker.at \in {"countingAll", "returning", "idle"} => published = Listed(Present(folders))

LibraryInv ==
  /\ LibraryTypeOK /\ Stamped /\ ShownIsPublished /\ CutShort
  /\ OfInterest => Progress

-----------------------------------------------------------------------------
(* What stays as it is when an action leaves its variables alone.          *)

LEMMA SameProgress ==
  ASSUME OfInterest => Progress,
         UNCHANGED <<worker, published, folders, disk, lastStamp, stampAtScan>>,
         OfInterest' => OfInterest
  PROVE  (OfInterest => Progress)'
BY DEF OfInterest, Quiet, Progress, Present, Listed

LEMMA SameStamps ==
  ASSUME Stamped, UNCHANGED <<cache, disk, lastStamp, stampAtScan>>, worker'.stamp \in {worker.stamp, NoRom}
  PROVE  Stamped'
BY DEF Stamped, CacheHit, NoRom

LEMMA IdleFacts ==
  /\ Idle \in Workers
  /\ Idle.at = "idle" /\ Idle.todo = {} /\ Idle.files = {} /\ Idle.entries = {}
  /\ Idle.file = {} /\ Idle.stamp = NoRom
<1>1. NoRom \in Stamps
  BY LibraryAssumption DEF Stamps, NoRom
<1> QED BY <1>1 DEF Idle, Workers

LEMMA InitLibrary == LibraryInit => LibraryInv
<1> SUFFICES ASSUME LibraryInit PROVE LibraryInv
  OBVIOUS
<1> USE LibraryAssumption, IdleFacts DEF LibraryInit, NoRom, NotCached
<1>1. LibraryTypeOK
  <2>1. disk \in [Files -> Stamps] /\ NoRom \in Stamps
    BY DEF Stamps
  <2>2. cache \in [Files -> [stamp : Stamps, entry : Stamps]]
    BY <2>1
  <2>3. worker \in Workers /\ stopAsked \in BOOLEAN /\ scanning \in BOOLEAN
        /\ (scanning <=> worker.at # "idle")
    OBVIOUS
  <2>4. lastStamp \in 1 .. MaxStamp /\ stampAtScan \in 1 .. MaxStamp /\ rescans \in 0 .. MaxRescans
        /\ revision \in Nat /\ seen \in 0 .. revision
    OBVIOUS
  <2>5. published \in SUBSET Entries /\ shown \in SUBSET Entries /\ folders \in SUBSET FolderNames
        /\ window \in {"frame", "noting", "copying", "joining"}
    OBVIOUS
  <2> QED BY <2>1, <2>2, <2>3, <2>4, <2>5 DEF LibraryTypeOK
<1>2. Stamped
  BY DEF Stamped, CacheHit
<1>3. ShownIsPublished /\ CutShort /\ ~OfInterest
  BY DEF ShownIsPublished, CutShort, OfInterest
<1> QED BY <1>1, <1>2, <1>3 DEF LibraryInv

-----------------------------------------------------------------------------
(* The scanning thread.                                                    *)


LEMMA ThreadTypes ==
  ASSUME LibraryInv, ThreadStep, UNCHANGED <<windowVars, diskVars>>
  PROVE  LibraryTypeOK'
<1> USE LibraryAssumption, IdleFacts DEF LibraryInv, LibraryTypeOK, Workers, Stamps, windowVars, diskVars, Return, NoRom
<1>1. CASE Find
  <2>1. \A d \in worker.todo : {f \in FilesIn[d] : disk[f] # NoRom} \subseteq Files
    OBVIOUS
  <2>2. worker' \in Workers
    <3>1. CASE stopAsked
      BY <1>1, <3>1 DEF Find
    <3>2. ASSUME NEW d \in worker.todo
          PROVE  [worker EXCEPT !.todo = @ \ {d},
                                !.files = @ \cup {f \in FilesIn[d] : disk[f] # NoRom}] \in Workers
      BY <2>1
    <3> QED BY <1>1, <3>1, <3>2 DEF Find
  <2> QED BY <1>1, <2>2 DEF Find
<1>2. CASE FoundAll
  BY <1>2 DEF FoundAll
<1>3. CASE Examine
  <2>1. \A f \in worker.files :
          /\ disk[f] \in Stamps
          /\ CacheHit(f, disk[f]) => <<f, cache[f].entry>> \in Entries
    BY DEF CacheHit, Stamped, Entries
  <2>2. worker' \in Workers
    <3>1. CASE stopAsked
      BY <1>3, <3>1 DEF Examine
    <3>2. ASSUME NEW f \in worker.files, CacheHit(f, disk[f])
          PROVE  [worker EXCEPT !.at = "examined", !.files = @ \ {f},
                                !.entries = @ \cup {<<f, cache[f].entry>>}] \in Workers
      BY <2>1, <3>2
    <3>3. ASSUME NEW f \in worker.files
          PROVE  [worker EXCEPT !.at = "reading", !.files = @ \ {f},
                                !.file = {f}, !.stamp = disk[f]] \in Workers
      BY <2>1
    <3> QED BY <1>3, <3>1, <3>2, <3>3, ZenonT(60) DEF Examine
  <2> QED BY <1>3, <2>2 DEF Examine
<1>4. CASE Read
  <2>1. \A f \in worker.file : disk[f] \in Stamps /\ (disk[f] # NoRom => <<f, disk[f]>> \in Entries)
    BY DEF Entries
  <2>2. worker' \in Workers
    <3>1. ASSUME NEW f \in worker.file
          PROVE  [worker EXCEPT !.at = "examined", !.file = {}, !.stamp = NoRom,
                    !.entries = IF disk[f] = NoRom THEN @ ELSE @ \cup {<<f, disk[f]>>}] \in Workers
      <4>1. (IF disk[f] = NoRom THEN worker.entries ELSE worker.entries \cup {<<f, disk[f]>>})
              \in SUBSET Entries
        BY <2>1
      <4> QED BY <4>1
    <3> QED BY <1>4, <3>1 DEF Read
  <2>3. cache' \in [Files -> [stamp : Stamps, entry : Stamps]]
    BY <1>4, <2>1 DEF Read
  <2> QED BY <1>4, <2>2, <2>3 DEF Read
<1>5. CASE Examined
  BY <1>5 DEF Examined
<1>6. CASE ExaminedAll
  BY <1>6 DEF ExaminedAll
<1>7. CASE PublishStep
  BY <1>7 DEF PublishStep, Publish, Publishing, Counting
<1>8. CASE Finish
  BY <1>8 DEF Finish
<1> QED BY <1>1, <1>2, <1>3, <1>4, <1>5, <1>6, <1>7, <1>8 DEF ThreadStep

LEMMA ThreadStamps ==
  ASSUME LibraryInv, ThreadStep, UNCHANGED <<windowVars, diskVars>>
  PROVE  Stamped'
<1> USE DEF LibraryInv, windowVars, diskVars
<1>1. CASE Examine
  <2>1. worker'.stamp \in {worker.stamp, NoRom} \cup {disk[f] : f \in Files}
    BY <1>1, IdleFacts DEF Examine, Return, LibraryTypeOK, Workers
  <2>2. worker'.stamp <= lastStamp
    BY <2>1 DEF Stamped, LibraryTypeOK, NoRom
  <2> QED BY <1>1, <2>2 DEF Examine, Stamped, CacheHit
<1>2. CASE Read
  BY <1>2 DEF Read, Stamped, CacheHit, LibraryTypeOK, Stamps, NoRom
<1>3. CASE Find \/ FoundAll \/ Examined \/ ExaminedAll \/ PublishStep \/ Finish
  <2>1. UNCHANGED <<cache, disk, lastStamp, stampAtScan>>
    BY <1>3 DEF Find, FoundAll, Examined, ExaminedAll, PublishStep, Finish
  <2>2. worker'.stamp \in {worker.stamp, NoRom}
    BY <1>3, IdleFacts DEF Find, FoundAll, Examined, ExaminedAll, PublishStep, Publish, Finish,
                           Return, LibraryTypeOK, Workers
  <2> QED BY <2>1, <2>2, SameStamps
<1> QED BY <1>1, <1>2, <1>3 DEF ThreadStep

LEMMA ThreadShown ==
  ASSUME LibraryInv, ThreadStep, UNCHANGED <<windowVars, diskVars>>
  PROVE  ShownIsPublished' /\ CutShort'
<1> USE DEF LibraryInv, windowVars
<1>1. CutShort'
  BY DEF CutShort, ThreadStep, Find, FoundAll, Examine, Read, Examined, ExaminedAll, PublishStep, Finish
<1>2. CASE PublishStep
  <2>1. CASE Publishing
    <3>1. Counting'
      BY <1>2, <2>1 DEF PublishStep, Publish, Publishing, Counting, LibraryTypeOK, Workers
    <3> QED BY <1>1, <3>1 DEF ShownIsPublished
  <2>2. CASE Counting
    <3>1. revision' = revision + 1 /\ seen' = seen
      BY <1>2, <2>2 DEF PublishStep, Publish, Publishing, Counting
    <3>2. HasNews'
      BY <3>1 DEF HasNews, LibraryTypeOK
    <3> QED BY <1>1, <3>2 DEF ShownIsPublished
  <2> QED BY <1>2, <2>1, <2>2 DEF PublishStep, Publish
<1>3. CASE Find \/ FoundAll \/ Examine \/ Read \/ Examined \/ ExaminedAll \/ Finish
  <2>1. UNCHANGED <<published, revision, seen, shown, window>> /\ ~Counting /\ ~Counting'
    BY <1>3, IdleFacts DEF Find, FoundAll, Examine, Read, Examined, ExaminedAll, Finish, Return,
                           Counting, LibraryTypeOK, Workers
  <2> QED BY <1>1, <2>1 DEF ShownIsPublished, HasNews
<1> QED BY <1>2, <1>3 DEF ThreadStep

LEMMA ThreadProgress ==
  ASSUME LibraryInv, ThreadStep, UNCHANGED <<windowVars, diskVars>>
  PROVE  (OfInterest => Progress)'
<1> SUFFICES ASSUME OfInterest PROVE Progress'
  BY DEF OfInterest, Quiet, windowVars, diskVars
<1>0. Progress /\ ~stopAsked /\ UNCHANGED <<folders, disk>>
  BY DEF LibraryInv, OfInterest, CutShort, windowVars, diskVars
<1> USE <1>0 DEF Progress, Listed
<1>1. CASE Find
  <2>1. PICK d \in worker.todo :
          worker' = [worker EXCEPT !.todo = @ \ {d},
                                   !.files = @ \cup {f \in FilesIn[d] : disk[f] # NoRom}]
    BY <1>1 DEF Find
  <2>2. Present(folders \ (worker.todo \ {d}))
          = Present(folders \ worker.todo) \cup {f \in FilesIn[d] : disk[f] # NoRom}
    BY <1>1, <2>1 DEF Find, Present
  <2> QED BY <1>1, <2>1, <2>2 DEF Find, LibraryInv, LibraryTypeOK, Workers, Present
<1>2. CASE FoundAll
  BY <1>2 DEF FoundAll, LibraryInv, LibraryTypeOK, Workers, Present
<1>3. CASE Examine
  <2>1. PICK f \in worker.files :
          worker' = IF CacheHit(f, disk[f])
                    THEN [worker EXCEPT !.at = "examined", !.files = @ \ {f},
                                        !.entries = @ \cup {<<f, cache[f].entry>>}]
                    ELSE [worker EXCEPT !.at = "reading", !.files = @ \ {f},
                                        !.file = {f}, !.stamp = disk[f]]
    BY <1>3 DEF Examine
  <2>2. f \in Present(folders) /\ f \in Files /\ worker.files \subseteq Present(folders)
    BY <1>3 DEF Examine, LibraryInv, LibraryTypeOK, Workers
  <2>3. Present(folders)' = Present(folders)
    BY DEF Present
  <2>4. CASE CacheHit(f, disk[f])
    <3>1. cache[f].entry = disk[f]
      BY <2>2, <2>4 DEF LibraryInv, Stamped
    <3> QED BY <1>3, <2>1, <2>2, <2>3, <2>4, <3>1 DEF Examine, LibraryInv, LibraryTypeOK, Workers
  <2>5. CASE ~CacheHit(f, disk[f])
    BY <1>3, <2>1, <2>2, <2>3, <2>5 DEF Examine, LibraryInv, LibraryTypeOK, Workers
  <2> QED BY <2>4, <2>5
<1>4. CASE Read
  <2>1. PICK f \in Present(folders) \ worker.files :
          /\ worker.file = {f} /\ worker.stamp = disk[f]
          /\ worker.entries = Listed(Present(folders) \ (worker.files \cup {f}))
    BY <1>4 DEF Read
  <2>2. worker' = [worker EXCEPT !.at = "examined", !.file = {}, !.stamp = NoRom,
                     !.entries = worker.entries \cup {<<f, disk[f]>>}]
    BY <1>4, <2>1 DEF Read, Present
  <2>3. Present(folders)' = Present(folders)
    BY DEF Present
  <2>4. worker'.at = "examined" /\ worker'.files = worker.files
        /\ worker'.entries = worker.entries \cup {<<f, disk[f]>>}
    BY <2>2 DEF LibraryInv, LibraryTypeOK, Workers
  <2>5. Present(folders) \ worker.files = (Present(folders) \ (worker.files \cup {f})) \cup {f}
    BY <2>1
  <2>6. worker'.entries = Listed(Present(folders) \ worker.files)
    BY <2>1, <2>4, <2>5
  <2>7. worker'.entries = Listed(Present(folders) \ worker.files)'
    BY <2>3, <2>4, <2>6
  <2> QED BY <1>4, <2>3, <2>4, <2>7 DEF Read
<1>5. CASE Examined
  BY <1>5 DEF Examined, LibraryInv, LibraryTypeOK, Workers, Present
<1>6. CASE ExaminedAll
  BY <1>6 DEF ExaminedAll, LibraryInv, LibraryTypeOK, Workers, Present
<1>7. CASE PublishStep
  BY <1>7 DEF PublishStep, Publish, Publishing, Counting, LibraryInv, LibraryTypeOK, Workers, Present
<1>8. CASE Finish
  BY <1>8, IdleFacts DEF Finish, Return, Present
<1> QED BY <1>1, <1>2, <1>3, <1>4, <1>5, <1>6, <1>7, <1>8 DEF ThreadStep

LEMMA ThreadInv ==
  ASSUME LibraryInv, ThreadStep, UNCHANGED <<windowVars, diskVars>>
  PROVE  LibraryInv'
BY ThreadTypes, ThreadStamps, ThreadShown, ThreadProgress DEF LibraryInv

-----------------------------------------------------------------------------
(* The application's thread, and the disk.                                 *)

LEMMA WindowInv ==
  ASSUME LibraryInv, WindowStep, UNCHANGED diskVars
  PROVE  LibraryInv'
<1> USE DEF LibraryInv, WindowStep, threadVars, diskVars
<1>1. LibraryTypeOK'
  BY DEF LibraryTypeOK, Notice, NoteRevision, CopyEntries, HasNews
<1>2. Stamped'
  BY SameStamps DEF Notice, NoteRevision, CopyEntries
<1>3. ShownIsPublished' /\ CutShort'
  BY DEF ShownIsPublished, CutShort, Notice, NoteRevision, CopyEntries, HasNews, Counting
<1>4. (OfInterest => Progress)'
  BY SameProgress DEF Notice, NoteRevision, CopyEntries, OfInterest, Quiet
<1> QED BY <1>1, <1>2, <1>3, <1>4

LEMMA RescanInv ==
  ASSUME LibraryInv, Rescan, UNCHANGED diskVars
  PROVE  LibraryInv'
<1> USE DEF LibraryInv, Rescan, diskVars
<1>1. LibraryTypeOK'
  BY LibraryAssumption DEF LibraryTypeOK
<1>2. Stamped'
  BY SameStamps
<1>3. ShownIsPublished' /\ CutShort' /\ ~OfInterest'
  BY DEF ShownIsPublished, CutShort, HasNews, Counting, OfInterest
<1> QED BY <1>1, <1>2, <1>3

LEMMA AfterJoinInv ==
  ASSUME LibraryInv, AfterJoin, UNCHANGED diskVars
  PROVE  LibraryInv'
<1> USE IdleFacts DEF LibraryInv, AfterJoin, diskVars
<1>1. LibraryTypeOK'
  <2>1. [Idle EXCEPT !.at = "finding", !.todo = folders] \in Workers
    BY DEF LibraryTypeOK, Workers
  <2>2. worker' \in Workers /\ (scanning' <=> worker'.at # "idle")
    BY <2>1 DEF LibraryTypeOK, Workers, Joined
  <2> QED BY <2>2 DEF LibraryTypeOK
<1>2. Stamped'
  <2>1. worker'.stamp \in {worker.stamp, NoRom} /\ stampAtScan' \in {stampAtScan, lastStamp}
    BY DEF Workers, LibraryTypeOK
  <2> QED BY <2>1 DEF Stamped, CacheHit, NoRom, LibraryTypeOK
<1>3. ShownIsPublished' /\ CutShort'
  BY DEF ShownIsPublished, CutShort, HasNews, Counting, Joined, LibraryTypeOK, Workers
<1>4. (OfInterest => Progress)'
  BY ZenonT(60) DEF OfInterest, Progress, Present, LibraryTypeOK, Workers
<1> QED BY <1>1, <1>2, <1>3, <1>4

LEMMA DiskInv ==
  ASSUME LibraryInv, DiskChanges, UNCHANGED <<threadVars, windowVars>>
  PROVE  LibraryInv'
<1> USE DEF LibraryInv, DiskChanges, threadVars, windowVars
<1>1. LibraryTypeOK'
  BY LibraryAssumption DEF LibraryTypeOK, Stamps, NoRom
<1>2. Stamped'
  <2>1. lastStamp' \in 1 .. MaxStamp /\ lastStamp' = lastStamp + 1
    BY LibraryAssumption DEF LibraryTypeOK
  <2>2. ASSUME NEW f \in Files
        PROVE  disk'[f] \in {disk[f], NoRom, lastStamp + 1}
    BY DEF LibraryTypeOK
  <2>3. ASSUME NEW f \in Files
        PROVE  /\ disk'[f] <= lastStamp' /\ cache[f].stamp <= lastStamp'
               /\ CacheHit(f, disk[f])' => cache[f].entry = disk'[f]
    <3>1. cache[f].stamp \in Nat /\ cache[f].stamp <= lastStamp /\ disk[f] <= lastStamp
      BY DEF Stamped, LibraryTypeOK, Stamps
    <3> QED BY <2>1, <2>2, <3>1 DEF Stamped, CacheHit, LibraryTypeOK, Stamps, NoRom
  <2>4. worker'.stamp <= lastStamp' /\ stampAtScan' <= lastStamp'
    BY <2>1 DEF Stamped, LibraryTypeOK, Workers, Stamps
  <2> QED BY <2>1, <2>3, <2>4 DEF Stamped
<1>3. ShownIsPublished' /\ CutShort'
  BY DEF ShownIsPublished, CutShort, HasNews, Counting
<1>4. ~OfInterest'
  BY DEF OfInterest, Quiet, Stamped
<1> QED BY <1>1, <1>2, <1>3, <1>4

LEMMA NextLibrary == LibraryInv /\ [LibraryNext]_libraryVars => LibraryInv'
<1> SUFFICES ASSUME LibraryInv, [LibraryNext]_libraryVars PROVE LibraryInv'
  OBVIOUS
<1>1. CASE UNCHANGED libraryVars
  BY <1>1 DEF libraryVars, threadVars, windowVars, diskVars, LibraryInv, LibraryTypeOK, Workers, Stamped, CacheHit,
              ShownIsPublished, HasNews, Counting, CutShort, OfInterest, Quiet, Progress, Present, Listed
<1> QED BY <1>1, ThreadInv, WindowInv, RescanInv, AfterJoinInv, DiskInv DEF LibraryNext

-----------------------------------------------------------------------------

\* What the window shows, once no publication is under way, is what the thread published,
\* and what a whole scan of an unchanged disk published is what the disk holds: for any
\* files and folders, however scans are stopped and files change
\* (library.cpp:75-132, application.cpp:566-569, 1366-1377).
THEOREM AlwaysExact == LibrarySpec => []LibraryExact
<1>1. LibraryInv => LibraryExact
  <2> SUFFICES ASSUME LibraryInv PROVE ScanIsCurrent
    BY DEF LibraryInv, LibraryExact
  <2> SUFFICES ASSUME window # "joining", folders # {}, worker.at = "idle", lastStamp = stampAtScan
               PROVE  published = OnDisk
    BY DEF ScanIsCurrent
  <2>1. Progress
    BY DEF LibraryInv, OfInterest, Quiet
  <2> QED BY <2>1 DEF Progress, Present, Listed, OnDisk
<1> QED BY <1>1, InitLibrary, NextLibrary, PTL DEF LibrarySpec

-----------------------------------------------------------------------------
(***************************************************************************)
(* The rewind buffer: a difference of two snapshots brings one back from   *)
(* the other, so the buffer is a chain of moments, each the difference to  *)
(* the next away from it, and the operations of the buffer take moments    *)
(* from the old end of the chain and add or take them at the new one.      *)
(***************************************************************************)
LEMMA RewindConstants ==
  /\ GapLimit \in Nat /\ GapLimit > 0
  /\ \A a, b \in Byte : ByteXor(a, b) \in Byte /\ ByteXor(a, ByteXor(a, b)) = b
  /\ Never \notin Snapshots
  BY RewindAssumption DEF RewindAssumption, Snapshots

\* A sequence, as the function it is.
LEMMA Indexed ==
  ASSUME NEW S, NEW n \in Nat, NEW f \in [1 .. n -> S]
  PROVE  f \in Seq(S) /\ Len(f) = n
  OBVIOUS

LEMMA Elements ==
  ASSUME NEW S, NEW s \in Seq(S)
  PROVE  /\ Len(s) \in Nat /\ s \in [1 .. Len(s) -> S] /\ DOMAIN s = 1 .. Len(s)
         /\ \A i \in 1 .. Len(s) : s[i] \in S
  OBVIOUS

LEMMA Same ==
  ASSUME NEW S, NEW s \in Seq(S), NEW t \in Seq(S), Len(s) = Len(t),
         \A i \in 1 .. Len(s) : s[i] = t[i]
  PROVE  s = t
  OBVIOUS

LEMMA Longer ==
  ASSUME NEW S, NEW s \in Seq(S), NEW x \in S
  PROVE  /\ Append(s, x) \in Seq(S) /\ Len(Append(s, x)) = Len(s) + 1
         /\ \A i \in 1 .. Len(s) : Append(s, x)[i] = s[i]
         /\ Append(s, x)[Len(s) + 1] = x
  OBVIOUS

LEMMA FirstIs ==
  ASSUME NEW P \in SUBSET Nat, P # {}
  PROVE  First(P) \in P /\ \A q \in P : First(P) <= q
<1>1. \E x \in P : \A y \in P : x <= y
  BY NatMinimum
<1> QED BY <1>1 DEF First

-----------------------------------------------------------------------------
LEMMA EqualUpToIs ==
  ASSUME NEW from, NEW to, Len(to) \in Nat, NEW p \in 0 .. Len(to)
  PROVE  /\ EqualUpTo(from, to, p) \in p .. Len(to)
         /\ \A i \in p + 1 .. EqualUpTo(from, to, p) : from[i] = to[i]
         /\ \/ EqualUpTo(from, to, p) = Len(to)
            \/ from[EqualUpTo(from, to, p) + 1] # to[EqualUpTo(from, to, p) + 1]
<1> DEFINE P == {q \in p .. Len(to) : q = Len(to) \/ from[q + 1] # to[q + 1]}
           s == First(P)
<1>1. P \in SUBSET Nat /\ Len(to) \in P
  OBVIOUS
<1>2. s \in P /\ \A q \in P : s <= q
  <2> HIDE DEF P
  <2> QED BY <1>1, FirstIs
<1>3. EqualUpTo(from, to, p) = s
  BY DEF EqualUpTo
<1> HIDE DEF s
<1>4. ASSUME NEW i \in p + 1 .. s PROVE from[i] = to[i]
  <2>1. i - 1 \in p .. Len(to) /\ i - 1 < s /\ (i - 1) + 1 = i /\ i - 1 # Len(to)
    BY <1>2
  <2>2. i - 1 \notin P
    <3>1. s \in Nat /\ i - 1 \in Nat /\ ~(s <= i - 1)
      BY <1>2, <2>1
    <3> HIDE DEF P
    <3> QED BY <1>2, <3>1
  <2> QED BY <2>1, <2>2
<1> QED BY <1>2, <1>3, <1>4

LEMMA ChangedUpToIs ==
  ASSUME NEW from, NEW to, Len(to) \in Nat, NEW p \in 0 .. Len(to)
  PROVE  /\ ChangedUpTo(from, to, p) \in p .. Len(to)
         /\ p < Len(to) /\ from[p + 1] # to[p + 1] => ChangedUpTo(from, to, p) > p
<1> DEFINE P == {q \in p .. Len(to) : \A i \in q + 1 .. q + GapLimit : i <= Len(to) => from[i] = to[i]}
           s == First(P)
<1>1. P \in SUBSET Nat /\ Len(to) \in P
  BY RewindConstants
<1>2. s \in P
  <2> HIDE DEF P
  <2> QED BY <1>1, FirstIs
<1>3. ChangedUpTo(from, to, p) = s
  BY DEF ChangedUpTo
<1> HIDE DEF s
<1>4. ASSUME p < Len(to), from[p + 1] # to[p + 1] PROVE s # p
  <2>1. p + 1 \in p + 1 .. p + GapLimit /\ p + 1 <= Len(to)
    BY <1>4, RewindConstants
  <2> QED BY <1>2, <1>4, <2>1
<1> QED BY <1>2, <1>3, <1>4

\* The next run: what it leaves alone is equal, and it goes on.
LEMMA NextRunIs ==
  ASSUME NEW n \in Nat, NEW from \in Snapshots, NEW to \in Snapshots, Len(from) = n, Len(to) = n,
         NEW p \in 0 .. n, p # n
  PROVE  LET next  == NextRun(from, to, p)
             start == p + next.run.skip
         IN  /\ next.run \in Run /\ next.end \in p + 1 .. n
             /\ start \in p .. next.end /\ Len(next.run.bytes) = next.end - start
             /\ \A i \in p + 1 .. start : from[i] = to[i]
             /\ \A i \in start + 1 .. next.end : next.run.bytes[i - start] = ByteXor(from[i], to[i])
<1> DEFINE start == EqualUpTo(from, to, p)
           end == ChangedUpTo(from, to, start)
           bytes == [i \in 1 .. end - start |-> ByteXor(from[start + i], to[start + i])]
           run == [skip |-> start - p, bytes |-> bytes]
           next == NextRun(from, to, p)
<1> HIDE DEF bytes, run, next
<1>0. Len(to) \in Nat /\ p \in 0 .. Len(to)
  OBVIOUS
<1>1. start \in p .. n /\ (\A i \in p + 1 .. start : from[i] = to[i])
      /\ (start = n \/ from[start + 1] # to[start + 1])
  <2> HIDE DEF end
  <2> QED BY <1>0, EqualUpToIs, ZenonT(60)
<1> HIDE DEF start
<1>2. end \in start .. n /\ (start < n => end > start)
  <2>1. start \in 0 .. Len(to)
    BY <1>1
  <2>2. end \in start .. Len(to)
        /\ (start < Len(to) /\ from[start + 1] # to[start + 1] => end > start)
    BY <1>0, <2>1, ChangedUpToIs
  <2> HIDE DEF end
  <2> QED BY <1>1, <2>1, <2>2
<1> HIDE DEF end
<1>3. next.run = run /\ next.end = end
  BY DEF NextRun, start, end, next, run, bytes
<1> USE DEF bytes
<1>4. bytes \in [1 .. end - start -> Byte]
  <2>1. ASSUME NEW i \in 1 .. end - start PROVE ByteXor(from[start + i], to[start + i]) \in Byte
    <3>1. start + i \in 1 .. n
      BY <1>1, <1>2
    <3>2. from[start + i] \in Byte /\ to[start + i] \in Byte
      BY <3>1, Elements DEF Snapshots
    <3> QED BY <3>2, RewindConstants
  <2> QED BY <2>1
<1>5. \A i \in start + 1 .. end : bytes[i - start] = ByteXor(from[i], to[i])
  <2> SUFFICES ASSUME NEW i \in start + 1 .. end PROVE bytes[i - start] = ByteXor(from[i], to[i])
    OBVIOUS
  <2>1. i - start \in 1 .. end - start /\ start + (i - start) = i
    BY <1>1, <1>2
  <2> QED BY <2>1
<1> HIDE DEF bytes
<1>6. end - start \in Nat /\ start - p \in Nat /\ p + (start - p) = start /\ end \in p + 1 .. n
  BY <1>1, <1>2
<1>7. bytes \in Seq(Byte) /\ Len(bytes) = end - start
  BY <1>4, <1>6, Indexed
<1>8. run \in Run /\ run.skip = start - p /\ run.bytes = bytes
  BY <1>6, <1>7 DEF Run, run
<1> QED BY <1>1, <1>2, <1>3, <1>5, <1>6, <1>7, <1>8 DEF next

-----------------------------------------------------------------------------
\* A difference applied, with the place it ends at.
Applied(target, difference) ==
  Rounds([target |-> target, position |-> 0],
         [p \in (1 .. Len(difference)) \X Applications |-> ApplyRun(p[2], difference[p[1]])],
         Len(difference))

LEMMA ApplyRunTyped ==
  ASSUME NEW r \in Applications, NEW run \in Run
  PROVE  ApplyRun(r, run) \in Applications
         /\ (ApplyRun(r, run).target # Never => r.target # Never /\ Len(ApplyRun(r, run).target) = Len(r.target))
<1> DEFINE start == r.position + run.skip
           end == start + Len(run.bytes)
           t == r.target
           new == [i \in 1 .. Len(t) |-> IF i \in start + 1 .. end
                                          THEN ByteXor(t[i], run.bytes[i - start]) ELSE t[i]]
           next == ApplyRun(r, run)
<1>1. run.skip \in Nat /\ run.bytes \in Seq(Byte) /\ Len(run.bytes) \in Nat /\ r.position \in Nat
      /\ t \in Snapshots \cup {Never}
  BY Elements DEF Run, Applications
<1>2. start \in Nat /\ end \in Nat
  BY <1>1
<1>3. CASE t = Never \/ end > Len(t)
  <2>1. next = [r EXCEPT !.target = Never]
    BY <1>3 DEF ApplyRun
  <2> HIDE DEF next
  <2>2. next \in Applications /\ next.target = Never
    BY <2>1 DEF Applications
  <2> QED BY <2>2 DEF next
<1>4. CASE ~(t = Never \/ end > Len(t))
  <2>1. next = [target |-> new, position |-> end]
    BY <1>4 DEF ApplyRun
  <2>2. t \in Snapshots /\ t \in Seq(Byte) /\ Len(t) \in Nat
    BY <1>1, <1>4, Elements DEF Snapshots
  <2>3. new \in [1 .. Len(t) -> Byte]
    <3>1. ASSUME NEW i \in 1 .. Len(t), i \in start + 1 .. end PROVE ByteXor(t[i], run.bytes[i - start]) \in Byte
      <4>1. i - start \in 1 .. Len(run.bytes)
        BY <1>1, <1>2, <3>1
      <4>2. t[i] \in Byte /\ run.bytes[i - start] \in Byte
        BY <1>1, <2>2, <4>1, Elements
      <4> QED BY <4>2, RewindConstants
    <3>2. \A i \in 1 .. Len(t) : t[i] \in Byte
      BY <2>2, Elements
    <3> HIDE DEF start, end, t
    <3> QED BY <3>1, <3>2
  <2> HIDE DEF new, next
  <2>4. new \in Snapshots /\ Len(new) = Len(t)
    BY <2>2, <2>3, Indexed DEF Snapshots
  <2>5. next \in Applications /\ next.target = new
    <3> HIDE DEF end
    <3> QED BY <1>2, <2>1, <2>4 DEF Applications
  <2> HIDE DEF t
  <2> QED BY <1>4, <2>4, <2>5 DEF next, t
<1> QED BY <1>3, <1>4

\* The steps of an application.
LEMMA ApplySteps ==
  ASSUME NEW target \in Snapshots \cup {Never}, NEW d \in Differences
  PROVE  \E h \in [0 .. Len(d) -> Applications] :
            /\ Applied(target, d) = h[Len(d)]
            /\ h[0] = [target |-> target, position |-> 0]
            /\ \A k \in 0 .. Len(d) - 1 : h[k + 1] = ApplyRun(h[k], d[k + 1])
<1> DEFINE n == Len(d)
           start == [target |-> target, position |-> 0]
           step == [p \in (1 .. n) \X Applications |-> ApplyRun(p[2], d[p[1]])]
<1>1. n \in Nat /\ \A k \in 1 .. n : d[k] \in Run
  BY Elements DEF Differences
<1>2. start \in Applications
  BY DEF Applications
<1>3. step \in [(1 .. n) \X Applications -> Applications]
  BY <1>1, ApplyRunTyped
<1>4. Applied(target, d) = Rounds(start, step, n)
  BY DEF Applied
<1>5. PICK h \in [0 .. n -> Applications] : Rounds(start, step, n) = h[n] /\ Follows(h, start, step, n)
  <2> HIDE DEF start, step, n
  <2> QED BY <1>1, <1>2, <1>3, RoundsFollow
<1>6. ASSUME NEW k \in 0 .. n - 1 PROVE h[k + 1] = ApplyRun(h[k], d[k + 1])
  <2>1. k + 1 \in 1 .. n /\ h[k] \in Applications /\ <<k + 1, h[k]>> \in (1 .. n) \X Applications
    <3>1. n \in Nat
      BY <1>1
    <3> HIDE DEF step, n
    <3>2. k + 1 \in 1 .. n /\ k \in 0 .. n
      BY <3>1
    <3> QED BY <3>2
  <2>2. h[k + 1] = step[<<k + 1, h[k]>>]
    <3> HIDE DEF step
    <3> QED BY <1>5 DEF Follows
  <2> HIDE DEF n
  <2> QED BY <2>1, <2>2
<1>7. h[0] = start
  BY <1>5 DEF Follows
<1> QED BY <1>4, <1>5, <1>6, <1>7

LEMMA AppliedTyped ==
  ASSUME NEW target \in Snapshots \cup {Never}, NEW d \in Differences
  PROVE  /\ Applied(target, d) \in Applications
         /\ ApplyDifference(target, d) = Applied(target, d).target
         /\ ApplyDifference(target, d) \in Snapshots \cup {Never}
         /\ ApplyDifference(target, d) # Never
              => target # Never /\ Len(ApplyDifference(target, d)) = Len(target)
<1> DEFINE n == Len(d)
<1>1. PICK h \in [0 .. n -> Applications] :
         /\ Applied(target, d) = h[n]
         /\ h[0] = [target |-> target, position |-> 0]
         /\ \A k \in 0 .. n - 1 : h[k + 1] = ApplyRun(h[k], d[k + 1])
  BY ApplySteps
<1>2. n \in Nat /\ \A k \in 1 .. n : d[k] \in Run
  BY Elements DEF Differences
<1> DEFINE T == {k \in 0 .. n : h[k].target # Never => target # Never /\ Len(h[k].target) = Len(target)}
<1>3. 0 \in T
  BY <1>1, <1>2
<1>4. ASSUME NEW k \in 0 .. n - 1, k \in T PROVE k + 1 \in T
  <2>1. h[k] \in Applications /\ d[k + 1] \in Run /\ h[k + 1] = ApplyRun(h[k], d[k + 1]) /\ k + 1 \in 0 .. n
    BY <1>1, <1>2
  <2>2. h[k + 1].target # Never => h[k].target # Never /\ Len(h[k + 1].target) = Len(h[k].target)
    BY <2>1, ApplyRunTyped
  <2> HIDE DEF n
  <2> QED BY <1>4, <2>1, <2>2
<1> HIDE DEF T
<1>5. n \in T
  <2>1. 0 .. n \subseteq T
    <3> HIDE DEF n
    <3> QED BY <1>2, <1>3, <1>4, UpToInduct
  <2> QED BY <1>2, <2>1
<1>6. h[n] \in Applications /\ (h[n].target # Never => target # Never /\ Len(h[n].target) = Len(target))
  BY <1>2, <1>5 DEF T
<1>7. ApplyDifference(target, d) = Applied(target, d).target
  BY DEF ApplyDifference, Applied
<1> HIDE DEF n
<1> QED BY <1>1, <1>6, <1>7 DEF Applications

LEMMA ApplyAppend ==
  ASSUME NEW target \in Snapshots \cup {Never}, NEW d \in Differences, NEW run \in Run
  PROVE  /\ Append(d, run) \in Differences
         /\ Applied(target, Append(d, run)) = ApplyRun(Applied(target, d), run)
<1> DEFINE n == Len(d)
           e == Append(d, run)
<1>1. e \in Differences /\ Len(e) = n + 1 /\ n \in Nat /\ (\A i \in 1 .. n : e[i] = d[i]) /\ e[n + 1] = run
  BY Longer, Elements DEF Differences
<1> HIDE DEF e
<1>2. PICK h \in [0 .. n -> Applications] :
         /\ Applied(target, d) = h[n]
         /\ h[0] = [target |-> target, position |-> 0]
         /\ \A k \in 0 .. n - 1 : h[k + 1] = ApplyRun(h[k], d[k + 1])
  BY ApplySteps
<1>3. PICK g \in [0 .. n + 1 -> Applications] :
         /\ Applied(target, e) = g[n + 1]
         /\ g[0] = [target |-> target, position |-> 0]
         /\ \A k \in 0 .. n : g[k + 1] = ApplyRun(g[k], e[k + 1])
  <2>1. PICK g \in [0 .. Len(e) -> Applications] :
         /\ Applied(target, e) = g[Len(e)]
         /\ g[0] = [target |-> target, position |-> 0]
         /\ \A k \in 0 .. Len(e) - 1 : g[k + 1] = ApplyRun(g[k], e[k + 1])
    BY <1>1, ApplySteps
  <2>2. (n + 1) - 1 = n
    BY <1>1
  <2> HIDE DEF n
  <2> QED BY <1>1, <2>1, <2>2
<1> DEFINE T == {k \in 0 .. n : g[k] = h[k]}
<1>4. 0 \in T
  BY <1>1, <1>2, <1>3
<1>5. ASSUME NEW k \in 0 .. n - 1, k \in T PROVE k + 1 \in T
  <2>1. k \in 0 .. n /\ k + 1 \in 1 .. n /\ k + 1 \in 0 .. n
    BY <1>1
  <2> HIDE DEF n
  <2> QED BY <1>1, <1>2, <1>3, <1>5, <2>1
<1> HIDE DEF T
<1>6. n \in T
  <2>1. 0 .. n \subseteq T
    <3> HIDE DEF n
    <3> QED BY <1>1, <1>4, <1>5, UpToInduct
  <2> QED BY <1>1, <2>1
<1>7. g[n + 1] = ApplyRun(h[n], run)
  <2>1. n \in 0 .. n
    BY <1>1
  <2> HIDE DEF n
  <2> QED BY <1>1, <1>3, <1>6, <2>1 DEF T
<1> HIDE DEF n
<1> QED BY <1>1, <1>2, <1>3, <1>7 DEF e
\* The first k bytes are those of the one, the others those of the other.
Mixed(from, to, k) == [i \in 1 .. Len(to) |-> IF i <= k THEN to[i] ELSE from[i]]

\* What has been encoded so far turns the target into a mixture.
PartWay(from, to) ==
  {r \in Encodings(to) :
     Applied(from, r.runs) = [target |-> Mixed(from, to, r.position), position |-> r.position]}

LEMMA MixedIs ==
  ASSUME NEW n \in Nat, NEW from \in Snapshots, NEW to \in Snapshots, Len(from) = n, Len(to) = n,
         NEW k \in 0 .. n
  PROVE  /\ Mixed(from, to, k) \in Snapshots /\ Len(Mixed(from, to, k)) = n
         /\ \A i \in 1 .. n : Mixed(from, to, k)[i] = IF i <= k THEN to[i] ELSE from[i]
         /\ Mixed(from, to, 0) = from /\ Mixed(from, to, n) = to
<1>1. (\A i \in 1 .. n : from[i] \in Byte /\ to[i] \in Byte)
      /\ from \in [1 .. n -> Byte] /\ to \in [1 .. n -> Byte]
  BY Elements DEF Snapshots
<1>2. Mixed(from, to, k) \in [1 .. n -> Byte]
  BY <1>1 DEF Mixed
<1>3. Mixed(from, to, k) \in Snapshots /\ Len(Mixed(from, to, k)) = n
  BY <1>2, Indexed DEF Snapshots
<1>4. Mixed(from, to, 0) = [i \in 1 .. n |-> from[i]] /\ Mixed(from, to, n) = [i \in 1 .. n |-> to[i]]
  BY DEF Mixed
<1>5. Mixed(from, to, 0) = from /\ Mixed(from, to, n) = to
  BY <1>1, <1>4
<1>6. \A i \in 1 .. n : Mixed(from, to, k)[i] = IF i <= k THEN to[i] ELSE from[i]
  BY DEF Mixed
<1> QED BY <1>3, <1>5, <1>6

\* The next run turns a mixture into the one that goes on to where the run ends.
LEMMA ApplyNextRun ==
  ASSUME NEW n \in Nat, NEW from \in Snapshots, NEW to \in Snapshots, Len(from) = n, Len(to) = n,
         NEW p \in 0 .. n, p # n
  PROVE  LET next == NextRun(from, to, p)
         IN  /\ next.run \in Run /\ next.end \in p + 1 .. n
             /\ ApplyRun([target |-> Mixed(from, to, p), position |-> p], next.run)
                  = [target |-> Mixed(from, to, next.end), position |-> next.end]
<1> DEFINE next == NextRun(from, to, p)
           run == next.run
           end == next.end
           start == p + run.skip
           r == [target |-> Mixed(from, to, p), position |-> p]
           t == Mixed(from, to, p)
           u == Mixed(from, to, end)
           new == [i \in 1 .. n |-> IF i \in start + 1 .. end
                                    THEN ByteXor(t[i], run.bytes[i - start]) ELSE t[i]]
<1>1. /\ run \in Run /\ end \in p + 1 .. n
      /\ start \in p .. end /\ Len(run.bytes) = end - start
      /\ \A i \in p + 1 .. start : from[i] = to[i]
      /\ \A i \in start + 1 .. end : run.bytes[i - start] = ByteXor(from[i], to[i])
  BY NextRunIs
<1> HIDE DEF next
<1>2. /\ t \in Snapshots /\ Len(t) = n /\ t # Never
      /\ \A i \in 1 .. n : t[i] = IF i <= p THEN to[i] ELSE from[i]
  <2> HIDE DEF r, u, new, run, end, start
  <2>1. /\ t \in Snapshots /\ Len(t) = n
        /\ \A i \in 1 .. n : t[i] = IF i <= p THEN to[i] ELSE from[i]
    <3>1. Mixed(from, to, p) \in Snapshots /\ Len(Mixed(from, to, p)) = n
      BY MixedIs
    <3>2. \A i \in 1 .. n : Mixed(from, to, p)[i] = IF i <= p THEN to[i] ELSE from[i]
      BY DEF Mixed
    <3> QED BY <3>1, <3>2
  <2> HIDE DEF t
  <2> QED BY <2>1, RewindConstants
<1>3. u = [i \in 1 .. n |-> IF i <= end THEN to[i] ELSE from[i]]
  BY DEF Mixed
<1>4. \A i \in 1 .. n : from[i] \in Byte /\ to[i] \in Byte
  BY Elements DEF Snapshots
<1>5. start + Len(run.bytes) = end /\ start \in Nat /\ end \in Nat /\ end <= n
  BY <1>1
<1> HIDE DEF run, end, start
<1>6. ASSUME NEW i \in 1 .. n
      PROVE  (IF i \in start + 1 .. end THEN ByteXor(t[i], run.bytes[i - start]) ELSE t[i])
               = IF i <= end THEN to[i] ELSE from[i]
  <2>1. CASE i \in start + 1 .. end
    <3>1. run.bytes[i - start] = ByteXor(from[i], to[i])
      BY <1>1, <2>1
    <3>2. i > p /\ i <= end
      BY <1>1, <2>1
    <3>3. t[i] = from[i]
      BY <1>2, <3>2
    <3>4. ByteXor(from[i], ByteXor(from[i], to[i])) = to[i]
      BY <1>4, RewindConstants
    <3> HIDE DEF t
    <3> QED BY <2>1, <3>1, <3>2, <3>3, <3>4
  <2>2. CASE i \in p + 1 .. start
    <3>1. i > p /\ i <= end /\ i \notin start + 1 .. end
      BY <1>1, <2>2
    <3>2. t[i] = from[i] /\ from[i] = to[i]
      BY <1>1, <1>2, <2>2, <3>1
    <3> HIDE DEF t
    <3> QED BY <3>1, <3>2
  <2>3. CASE i <= p
    <3>1. i <= end /\ i \notin start + 1 .. end
      BY <1>1, <2>3
    <3>2. t[i] = to[i]
      BY <1>2, <2>3
    <3> HIDE DEF t
    <3> QED BY <3>1, <3>2
  <2>4. CASE i > end
    <3>1. ~(i <= p) /\ ~(i <= end) /\ i \notin start + 1 .. end
      BY <1>1, <2>4
    <3>2. t[i] = from[i]
      BY <1>2, <3>1
    <3> HIDE DEF t
    <3> QED BY <3>1, <3>2
  <2> QED BY <1>1, <1>5, <2>1, <2>2, <2>3, <2>4
<1>7. new = u
  <2> HIDE DEF t, u
  <2> QED BY <1>3, <1>6
<1>8. r.target = t /\ r.position = p
  OBVIOUS
<1>9. ApplyRun(r, run) = [target |-> new, position |-> end]
  <2>1. r.position + run.skip = start
    BY <1>8 DEF start
  <2>2. ~(r.target = Never \/ end > Len(r.target)) /\ Len(r.target) = n
    BY <1>2, <1>5, <1>8
  <2> HIDE DEF r, t
  <2> QED BY <1>5, <1>8, <2>1, <2>2 DEF ApplyRun
<1> HIDE DEF new, u, r, t
<1> QED BY <1>1, <1>7, <1>9 DEF u, r, t, run, end, next

LEMMA EncodedIs ==
  ASSUME NEW n \in Nat, NEW from \in Snapshots, NEW to \in Snapshots, Len(from) = n, Len(to) = n,
         NEW r \in Encodings(to)
  PROVE  /\ Encoded(from, to, r) \in Encodings(to)
         /\ Encoded(from, to, r).position = n \/ Encoded(from, to, r).position > r.position
         /\ r \in PartWay(from, to) => Encoded(from, to, r) \in PartWay(from, to)
<1> DEFINE next == NextRun(from, to, r.position)
           e == Encoded(from, to, r)
<1>1. r.runs \in Differences /\ r.position \in 0 .. n
  BY DEF Encodings
<1>2. CASE r.position = n
  <2>1. e = r
    BY <1>2 DEF Encoded
  <2> HIDE DEF e
  <2> QED BY <1>2, <2>1 DEF e
<1>3. CASE r.position # n
  <2>1. e = [runs |-> Append(r.runs, next.run), position |-> next.end]
    BY <1>3 DEF Encoded
  <2> HIDE DEF e, next
  <2>2. /\ next.run \in Run /\ next.end \in r.position + 1 .. n
        /\ ApplyRun([target |-> Mixed(from, to, r.position), position |-> r.position], next.run)
             = [target |-> Mixed(from, to, next.end), position |-> next.end]
    BY <1>1, <1>3, ApplyNextRun DEF next
  <2>3. e.runs = Append(r.runs, next.run) /\ e.position = next.end
    BY <2>1
  <2>4. Append(r.runs, next.run) \in Differences
        /\ Applied(from, Append(r.runs, next.run)) = ApplyRun(Applied(from, r.runs), next.run)
    BY <1>1, <2>2, ApplyAppend
  <2>5. e \in Encodings(to)
    BY <1>1, <2>1, <2>2, <2>4 DEF Encodings
  <2>6. ASSUME r \in PartWay(from, to) PROVE e \in PartWay(from, to)
    BY <2>2, <2>3, <2>4, <2>5, <2>6 DEF PartWay
  <2>7. e.position > r.position
    BY <1>1, <2>2, <2>3
  <2> QED BY <2>5, <2>6, <2>7 DEF e
<1> QED BY <1>2, <1>3

\* Applying a difference gives the other snapshot, whatever the two are.
LEMMA EncodeExact ==
  ASSUME NEW n \in Nat, NEW from \in Snapshots, NEW to \in Snapshots, Len(from) = n, Len(to) = n
  PROVE  /\ EncodeDifference(from, to) \in Differences
         /\ ApplyDifference(from, EncodeDifference(from, to)) = to
<1> DEFINE S == Encodings(to)
           start == [runs |-> <<>>, position |-> 0]
           step == [p \in (1 .. n) \X S |-> Encoded(from, to, p[2])]
<1>1. start \in S
  BY DEF Encodings, Differences
<1>2. step \in [(1 .. n) \X S -> S]
  BY EncodedIs
<1>3. start \in PartWay(from, to)
  <2>1. PICK h \in [0 .. Len(start.runs) -> Applications] :
          Applied(from, start.runs) = h[Len(start.runs)] /\ h[0] = [target |-> from, position |-> 0]
    <3>1. start.runs \in Differences /\ from \in Snapshots \cup {Never}
      BY DEF Differences
    <3> HIDE DEF start
    <3> QED BY <3>1, ApplySteps
  <2>2. Len(start.runs) = 0 /\ start.position = 0
    OBVIOUS
  <2>3. Mixed(from, to, 0) = from
    BY MixedIs
  <2> HIDE DEF start, S
  <2> QED BY <1>1, <2>1, <2>2, <2>3 DEF PartWay, S
<1>4. PICK h \in [0 .. n -> S] : Rounds(start, step, n) = h[n] /\ Follows(h, start, step, n)
  <2> HIDE DEF S, start, step
  <2> QED BY <1>1, <1>2, RoundsFollow
<1> DEFINE T == {k \in 0 .. n : h[k] \in PartWay(from, to) /\ h[k].position >= k}
<1>5. 0 \in T
  BY <1>3, <1>4 DEF Follows
<1>6. ASSUME NEW k \in 0 .. n - 1, k \in T PROVE k + 1 \in T
  <2>1. k + 1 \in 1 .. n /\ h[k] \in S /\ k + 1 \in 0 .. n /\ k \in 0 .. n
    BY <1>4
  <2>2. h[k + 1] = step[<<k + 1, h[k]>>]
    BY <1>4 DEF Follows
  <2>3. step[<<k + 1, h[k]>>] = Encoded(from, to, h[k])
    BY <2>1
  <2> HIDE DEF S, step
  <2>4. h[k] \in PartWay(from, to) /\ h[k].position >= k /\ h[k].position \in 0 .. n
    BY <1>6, <2>1 DEF S, Encodings
  <2>5. /\ h[k + 1] \in PartWay(from, to)
        /\ h[k + 1].position = n \/ h[k + 1].position > h[k].position
    BY <2>1, <2>2, <2>3, <2>4, EncodedIs DEF S
  <2>6. h[k + 1].position \in 0 .. n
    BY <1>4, <2>1 DEF S, Encodings
  <2>7. h[k + 1].position >= k + 1
    BY <2>1, <2>4, <2>5, <2>6
  <2> QED BY <2>1, <2>5, <2>7
<1> HIDE DEF T
<1>7. n \in T
  <2>1. 0 .. n \subseteq T
    BY <1>5, <1>6, UpToInduct
  <2> QED BY <2>1
<1>8. h[n] \in S /\ h[n] \in PartWay(from, to) /\ h[n].position = n /\ h[n].runs \in Differences
  <2>1. h[n] \in S /\ h[n] \in PartWay(from, to) /\ h[n].position >= n
    BY <1>4, <1>7 DEF T
  <2> QED BY <2>1 DEF Encodings
<1>9. EncodeDifference(from, to) = h[n].runs
  BY <1>4 DEF EncodeDifference
<1>10. Applied(from, h[n].runs) = [target |-> Mixed(from, to, n), position |-> n]
  BY <1>8 DEF PartWay
<1>11. Mixed(from, to, n) = to
  BY MixedIs
<1>12. ApplyDifference(from, h[n].runs) = to
  BY <1>8, <1>10, <1>11, AppliedTyped
<1> QED BY <1>8, <1>9, <1>12

-----------------------------------------------------------------------------
(***************************************************************************)
(* Sizes.                                                                  *)
(***************************************************************************)
LEMMA TotalSteps ==
  ASSUME NEW s \in Seq(Nat)
  PROVE  \E h \in [0 .. Len(s) -> Nat] :
            Total(s) = h[Len(s)] /\ h[0] = 0 /\ \A k \in 0 .. Len(s) - 1 : h[k + 1] = h[k] + s[k + 1]
<1> DEFINE n == Len(s)
           step == [p \in (1 .. n) \X Nat |-> p[2] + s[p[1]]]
<1>1. n \in Nat /\ \A k \in 1 .. n : s[k] \in Nat
  BY Elements
<1>2. step \in [(1 .. n) \X Nat -> Nat]
  BY <1>1
<1>3. Total(s) = Rounds(0, step, n)
  BY DEF Total
<1>4. PICK h \in [0 .. n -> Nat] : Rounds(0, step, n) = h[n] /\ Follows(h, 0, step, n)
  <2> HIDE DEF step, n
  <2> QED BY <1>1, <1>2, RoundsFollow
<1>5. ASSUME NEW k \in 0 .. n - 1 PROVE h[k + 1] = h[k] + s[k + 1]
  <2>1. k + 1 \in 1 .. n /\ h[k] \in Nat /\ <<k + 1, h[k]>> \in (1 .. n) \X Nat
    <3>1. n \in Nat
      BY <1>1
    <3> HIDE DEF step, n
    <3>2. k + 1 \in 1 .. n /\ k \in 0 .. n
      BY <3>1
    <3> QED BY <3>2
  <2>2. h[k + 1] = step[<<k + 1, h[k]>>]
    <3> HIDE DEF step
    <3> QED BY <1>4 DEF Follows
  <2> HIDE DEF n
  <2> QED BY <2>1, <2>2
<1>6. h[0] = 0
  BY <1>4 DEF Follows
<1> QED BY <1>3, <1>4, <1>5, <1>6

\* PartWay sums determine the total.
LEMMA TotalIs ==
  ASSUME NEW s \in Seq(Nat), NEW g, g[0] = 0,
         \A k \in 0 .. Len(s) - 1 : g[k + 1] = g[k] + s[k + 1]
  PROVE  Total(s) = g[Len(s)]
<1> DEFINE n == Len(s)
<1>1. PICK h \in [0 .. n -> Nat] :
         Total(s) = h[n] /\ h[0] = 0 /\ \A k \in 0 .. n - 1 : h[k + 1] = h[k] + s[k + 1]
  BY TotalSteps
<1>2. n \in Nat
  BY Elements
<1> DEFINE T == {k \in 0 .. n : g[k] = h[k]}
<1>3. 0 \in T
  BY <1>1, <1>2
<1>4. ASSUME NEW k \in 0 .. n - 1, k \in T PROVE k + 1 \in T
  <2>1. k + 1 \in 0 .. n
    BY <1>2
  <2> QED BY <1>1, <1>4, <2>1
<1> HIDE DEF T
<1>5. n \in T
  <2>1. 0 .. n \subseteq T
    <3> HIDE DEF n
    <3> QED BY <1>2, <1>3, <1>4, UpToInduct
  <2> QED BY <1>2, <2>1
<1> QED BY <1>1, <1>5 DEF T

LEMMA TotalTyped ==
  ASSUME NEW s \in Seq(Nat)
  PROVE  Total(s) \in Nat /\ (s = <<>> => Total(s) = 0)
<1>1. PICK h \in [0 .. Len(s) -> Nat] : Total(s) = h[Len(s)] /\ h[0] = 0
  BY TotalSteps
<1> QED BY <1>1

LEMMA TotalAppend ==
  ASSUME NEW s \in Seq(Nat), NEW x \in Nat
  PROVE  Total(Append(s, x)) = Total(s) + x
<1> DEFINE n == Len(s)
           t == Append(s, x)
<1>1. t \in Seq(Nat) /\ Len(t) = n + 1 /\ n \in Nat /\ (\A i \in 1 .. n : t[i] = s[i]) /\ t[n + 1] = x
  BY Longer, Elements
<1> HIDE DEF t
<1>2. PICK h \in [0 .. Len(t) -> Nat] :
         Total(t) = h[Len(t)] /\ h[0] = 0 /\ \A k \in 0 .. Len(t) - 1 : h[k + 1] = h[k] + t[k + 1]
  BY <1>1, TotalSteps
<1>3. \A k \in 0 .. n - 1 : h[k + 1] = h[k] + s[k + 1]
  <2> SUFFICES ASSUME NEW k \in 0 .. n - 1 PROVE h[k + 1] = h[k] + s[k + 1]
    OBVIOUS
  <2>1. k \in 0 .. Len(t) - 1 /\ k + 1 \in 1 .. n
    BY <1>1
  <2> QED BY <1>1, <1>2, <2>1
<1>4. Total(s) = h[n]
  BY <1>2, <1>3, TotalIs
<1>5. n \in 0 .. Len(t) - 1
  BY <1>1
<1>6. Total(t) = h[n] + x
  BY <1>1, <1>2, <1>5
<1> QED BY <1>4, <1>6 DEF t

LEMMA TotalTail ==
  ASSUME NEW s \in Seq(Nat), NEW t \in Seq(Nat), Len(s) = Len(t) + 1,
         \A i \in 1 .. Len(t) : t[i] = s[i + 1]
  PROVE  Total(t) = Total(s) - s[1]
<1> DEFINE n == Len(t)
<1>1. PICK h \in [0 .. Len(s) -> Nat] :
         Total(s) = h[Len(s)] /\ h[0] = 0 /\ \A k \in 0 .. Len(s) - 1 : h[k + 1] = h[k] + s[k + 1]
  BY TotalSteps
<1>2. n \in Nat /\ s[1] \in Nat
  <2>1. n \in Nat /\ 1 \in 1 .. Len(s)
    BY Elements
  <2> QED BY <2>1, Elements
<1> DEFINE g == [k \in 0 .. n |-> h[k + 1] - s[1]]
<1>3. h[1] = s[1]
  <2>1. 0 \in 0 .. Len(s) - 1 /\ 0 + 1 = 1
    BY <1>2
  <2> QED BY <1>1, <1>2, <2>1
<1>4. g[0] = 0
  BY <1>2, <1>3
<1>5. \A k \in 0 .. n - 1 : g[k + 1] = g[k] + t[k + 1]
  <2> SUFFICES ASSUME NEW k \in 0 .. n - 1 PROVE g[k + 1] = g[k] + t[k + 1]
    OBVIOUS
  <2>1. k + 1 \in 0 .. Len(s) - 1 /\ k + 1 \in 1 .. n /\ k \in 0 .. n /\ k + 1 \in 0 .. n
    BY <1>2
  <2>2. h[(k + 1) + 1] = h[k + 1] + t[k + 1]
    BY <1>1, <2>1
  <2>3. h[k + 1] \in Nat /\ t[k + 1] \in Nat
    <3>1. k + 1 \in 0 .. Len(s)
      BY <1>2
    <3> QED BY <2>1, <3>1, Elements
  <2>4. g[k + 1] = h[(k + 1) + 1] - s[1] /\ g[k] = h[k + 1] - s[1]
    BY <2>1
  <2> HIDE DEF g
  <2> QED BY <1>2, <2>2, <2>3, <2>4
<1>6. g[n] = h[n + 1] - s[1]
  BY <1>2
<1> HIDE DEF g
<1>7. Total(t) = g[n]
  BY <1>4, <1>5, TotalIs
<1> QED BY <1>1, <1>6, <1>7

LEMMA SizeTyped ==
  ASSUME NEW d \in Differences
  PROVE  SizeOf(d) \in Nat
<1> DEFINE counts == [k \in 1 .. Len(d) |-> 2 + Len(d[k].bytes)]
<1>1. Len(d) \in Nat /\ \A k \in 1 .. Len(d) : d[k] \in Run
  BY Elements DEF Differences
<1>2. ASSUME NEW k \in 1 .. Len(d) PROVE 2 + Len(d[k].bytes) \in Nat
  <2>1. d[k].bytes \in Seq(Byte)
    BY <1>1 DEF Run
  <2> QED BY <2>1, Elements
<1>3. counts \in [1 .. Len(d) -> Nat]
  BY <1>2
<1> HIDE DEF counts
<1>4. counts \in Seq(Nat)
  BY <1>1, <1>3, Indexed
<1>5. Total(counts) \in Nat
  BY <1>4, TotalTyped
<1> QED BY <1>5 DEF SizeOf, counts

Sizes(differences) == [i \in DOMAIN differences |-> SizeOf(differences[i])]

LEMMA SizesTyped ==
  ASSUME NEW ds \in Seq(Differences)
  PROVE  /\ Sizes(ds) \in Seq(Nat) /\ Len(Sizes(ds)) = Len(ds)
         /\ \A i \in 1 .. Len(ds) : Sizes(ds)[i] = SizeOf(ds[i])
<1>1. Len(ds) \in Nat /\ DOMAIN ds = 1 .. Len(ds) /\ \A i \in 1 .. Len(ds) : ds[i] \in Differences
  BY Elements
<1>2. Sizes(ds) \in [1 .. Len(ds) -> Nat]
  BY <1>1, SizeTyped DEF Sizes
<1>3. \A i \in 1 .. Len(ds) : Sizes(ds)[i] = SizeOf(ds[i])
  BY <1>1 DEF Sizes
<1> QED BY <1>1, <1>2, <1>3, Indexed

\* What the buffer accounts for, with a difference more and with the oldest or the
\* newest less.
LEMMA Accounts ==
  ASSUME NEW ds \in Seq(Differences)
  PROVE  /\ Total(Sizes(<<>>)) = 0
         /\ Total(Sizes(ds)) \in Nat
         /\ \A d \in Differences : Total(Sizes(Append(ds, d))) = Total(Sizes(ds)) + SizeOf(d)
         /\ ds # <<>> => /\ Total(Sizes(Tail(ds))) = Total(Sizes(ds)) - SizeOf(Head(ds))
                        /\ Total(Sizes(Front(ds))) = Total(Sizes(ds)) - SizeOf(Last(ds))
<1>1. Total(Sizes(<<>>)) = 0
  <2>1. <<>> \in Seq(Differences) /\ Len(<<>>) = 0
    OBVIOUS
  <2>2. Sizes(<<>>) \in Seq(Nat) /\ Len(Sizes(<<>>)) = 0
    BY <2>1, SizesTyped
  <2>3. Sizes(<<>>) = <<>>
    BY <2>2
  <2> QED BY <2>2, <2>3, TotalTyped
<1>2. ASSUME NEW e \in Seq(Differences), NEW d \in Differences
      PROVE  Total(Sizes(Append(e, d))) = Total(Sizes(e)) + SizeOf(d)
  <2> DEFINE f == Append(e, d)
  <2>1. f \in Seq(Differences) /\ Len(f) = Len(e) + 1 /\ Len(e) \in Nat
        /\ (\A i \in 1 .. Len(e) : f[i] = e[i]) /\ f[Len(e) + 1] = d
    BY Longer, Elements
  <2> HIDE DEF f
  <2>2. /\ Sizes(f) \in Seq(Nat) /\ Len(Sizes(f)) = Len(f)
        /\ \A i \in 1 .. Len(f) : Sizes(f)[i] = SizeOf(f[i])
    BY <2>1, SizesTyped
  <2>3. /\ Sizes(e) \in Seq(Nat) /\ Len(Sizes(e)) = Len(e)
        /\ \A i \in 1 .. Len(e) : Sizes(e)[i] = SizeOf(e[i])
    BY SizesTyped
  <2>4. SizeOf(d) \in Nat
    BY SizeTyped
  <2>5. /\ Append(Sizes(e), SizeOf(d)) \in Seq(Nat)
        /\ Len(Append(Sizes(e), SizeOf(d))) = Len(e) + 1
        /\ \A i \in 1 .. Len(e) : Append(Sizes(e), SizeOf(d))[i] = SizeOf(e[i])
        /\ Append(Sizes(e), SizeOf(d))[Len(e) + 1] = SizeOf(d)
    BY <2>3, <2>4, Longer
  <2>6. Sizes(f) = Append(Sizes(e), SizeOf(d))
    <3>1. ASSUME NEW i \in 1 .. Len(e) + 1 PROVE Sizes(f)[i] = Append(Sizes(e), SizeOf(d))[i]
      <4>1. i \in 1 .. Len(e) \/ i = Len(e) + 1
        BY <2>1
      <4> QED BY <2>1, <2>2, <2>5, <4>1
    <3> QED BY <2>1, <2>2, <2>5, <3>1, Same
  <2> QED BY <2>3, <2>4, <2>6, TotalAppend DEF f
<1>3. Total(Sizes(ds)) \in Nat
  BY SizesTyped, TotalTyped
<1>4. ASSUME ds # <<>> PROVE Total(Sizes(Tail(ds))) = Total(Sizes(ds)) - SizeOf(Head(ds))
  <2> DEFINE t == Tail(ds)
  <2>1. t \in Seq(Differences) /\ Len(ds) = Len(t) + 1 /\ Len(t) \in Nat
        /\ (\A i \in 1 .. Len(t) : t[i] = ds[i + 1]) /\ Head(ds) = ds[1]
    BY <1>4
  <2> HIDE DEF t
  <2>2. /\ Sizes(t) \in Seq(Nat) /\ Len(Sizes(t)) = Len(t)
        /\ \A i \in 1 .. Len(t) : Sizes(t)[i] = SizeOf(t[i])
    BY <2>1, SizesTyped
  <2>3. /\ Sizes(ds) \in Seq(Nat) /\ Len(Sizes(ds)) = Len(ds)
        /\ \A i \in 1 .. Len(ds) : Sizes(ds)[i] = SizeOf(ds[i])
    BY SizesTyped
  <2>4. \A i \in 1 .. Len(t) : Sizes(t)[i] = Sizes(ds)[i + 1]
    <3> SUFFICES ASSUME NEW i \in 1 .. Len(t) PROVE Sizes(t)[i] = Sizes(ds)[i + 1]
      OBVIOUS
    <3>1. i + 1 \in 1 .. Len(ds)
      BY <2>1
    <3> QED BY <2>1, <2>2, <2>3, <3>1
  <2>5. Sizes(ds)[1] = SizeOf(Head(ds))
    BY <2>1, <2>3
  <2>6. Total(Sizes(t)) = Total(Sizes(ds)) - Sizes(ds)[1]
    BY <2>1, <2>2, <2>3, <2>4, TotalTail
  <2> QED BY <2>5, <2>6 DEF t
<1>5. ASSUME ds # <<>> PROVE Total(Sizes(Front(ds))) = Total(Sizes(ds)) - SizeOf(Last(ds))
  <2>1. Front(ds) \in Seq(Differences) /\ Last(ds) \in Differences /\ ds = Append(Front(ds), Last(ds))
    BY <1>5 DEF Front, Last
  <2>2. Total(Sizes(ds)) = Total(Sizes(Front(ds))) + SizeOf(Last(ds))
    BY <1>2, <2>1
  <2>3. Total(Sizes(Front(ds))) \in Nat /\ SizeOf(Last(ds)) \in Nat
    BY <2>1, SizesTyped, TotalTyped, SizeTyped
  <2> QED BY <2>2, <2>3
<1> QED BY <1>1, <1>2, <1>3, <1>4, <1>5

-----------------------------------------------------------------------------
(***************************************************************************)
(* The moments of a buffer.                                                *)
(***************************************************************************)
Held == Snapshots \cup {Never}

\* The moments, each the next one with its difference applied.
Chain(m, newest, ds) ==
  /\ m \in Seq(Held) /\ Len(m) = Len(ds) + 1 /\ m[Len(ds) + 1] = newest
  /\ \A i \in 1 .. Len(ds) : m[i] = ApplyDifference(m[i + 1], ds[i])

LEMMA ChainUnique ==
  ASSUME NEW newest, NEW ds \in Seq(Differences), NEW m, NEW p,
         Chain(m, newest, ds), Chain(p, newest, ds)
  PROVE  m = p
<1> DEFINE n == Len(ds)
           T == {k \in 0 .. n : m[n + 1 - k] = p[n + 1 - k]}
<1>1. n \in Nat
  BY Elements
<1>2. 0 \in T
  BY <1>1 DEF Chain
<1>3. ASSUME NEW k \in 0 .. n - 1, k \in T PROVE k + 1 \in T
  <2>1. n + 1 - (k + 1) \in 1 .. n /\ (n + 1 - (k + 1)) + 1 = n + 1 - k /\ k + 1 \in 0 .. n
    BY <1>1
  <2>2. m[n + 1 - (k + 1)] = ApplyDifference(m[n + 1 - k], ds[n + 1 - (k + 1)])
        /\ p[n + 1 - (k + 1)] = ApplyDifference(p[n + 1 - k], ds[n + 1 - (k + 1)])
    BY <2>1 DEF Chain
  <2> HIDE DEF n
  <2> QED BY <1>3, <2>1, <2>2
<1> HIDE DEF T
<1>4. 0 .. n \subseteq T
  <2> HIDE DEF n
  <2> QED BY <1>1, <1>2, <1>3, UpToInduct
<1>5. ASSUME NEW i \in 1 .. n + 1 PROVE m[i] = p[i]
  <2>1. n + 1 - i \in 0 .. n /\ n + 1 - (n + 1 - i) = i
    BY <1>1
  <2>2. n + 1 - i \in T
    BY <1>4, <2>1
  <2> QED BY <2>1, <2>2 DEF T
<1>6. m \in Seq(Held) /\ p \in Seq(Held) /\ Len(m) = n + 1 /\ Len(p) = n + 1
  BY DEF Chain
<1> HIDE DEF n
<1> QED BY <1>5, <1>6, Same

LEMMA MomentsChain ==
  ASSUME NEW b \in Buffers, b.newest # Never
  PROVE  Chain(Moments(b), b.newest, b.differences)
<1> DEFINE ds == b.differences
           n == Len(ds)
           S == Seq(Held) \ {<<>>}
           step == [p \in (1 .. n) \X S |-> <<ApplyDifference(Head(p[2]), ds[n + 1 - p[1]])>> \o p[2]]
           start == <<b.newest>>
<1>1. ds \in Seq(Differences) /\ n \in Nat /\ (\A i \in 1 .. n : ds[i] \in Differences)
      /\ b.newest \in Held
  <2>1. ds \in Seq(Differences) /\ b.newest \in Held
    BY DEF Buffers, Held
  <2> HIDE DEF ds
  <2> QED BY <2>1, Elements
<1>2. ASSUME NEW k \in 1 .. n, NEW later \in S
      PROVE  LET longer == <<ApplyDifference(Head(later), ds[n + 1 - k])>> \o later
             IN  /\ longer \in S /\ Len(longer) = Len(later) + 1
                 /\ longer[1] = ApplyDifference(later[1], ds[n + 1 - k])
                 /\ \A i \in 1 .. Len(later) : longer[i + 1] = later[i]
  <2> DEFINE x == ApplyDifference(Head(later), ds[n + 1 - k])
  <2>1. Head(later) = later[1] /\ later[1] \in Held /\ Len(later) \in Nat
    OBVIOUS
  <2>2. n + 1 - k \in 1 .. n
    BY <1>1
  <2>3. x \in Held
    BY <1>1, <2>1, <2>2, AppliedTyped DEF Held
  <2>4. x = ApplyDifference(later[1], ds[n + 1 - k])
    BY <2>1
  <2> HIDE DEF x, ds, n
  <2>5. /\ <<x>> \o later \in S /\ Len(<<x>> \o later) = Len(later) + 1
        /\ (<<x>> \o later)[1] = x
        /\ \A i \in 1 .. Len(later) : (<<x>> \o later)[i + 1] = later[i]
    BY <2>1, <2>3
  <2> QED BY <2>4, <2>5 DEF x
<1>3. step \in [(1 .. n) \X S -> S]
  <2> SUFFICES ASSUME NEW q \in (1 .. n) \X S PROVE step[q] \in S
    OBVIOUS
  <2>1. q[1] \in 1 .. n /\ q[2] \in S
    OBVIOUS
  <2> HIDE DEF S, ds, n
  <2> QED BY <1>2, <2>1
<1>4. Moments(b) = Rounds(start, step, n)
  BY DEF Moments, Held
<1>5. start \in S /\ Len(start) = 1 /\ start[1] = b.newest
  BY <1>1
<1>6. PICK h \in [0 .. n -> S] : Rounds(start, step, n) = h[n] /\ Follows(h, start, step, n)
  <2> HIDE DEF step, start, S, n
  <2> QED BY <1>1, <1>3, <1>5, RoundsFollow
<1> DEFINE T == {k \in 0 .. n : /\ Len(h[k]) = k + 1 /\ h[k][k + 1] = b.newest
                                /\ \A i \in 1 .. k : h[k][i] = ApplyDifference(h[k][i + 1], ds[n - k + i])}
<1>7. 0 \in T
  <2>1. h[0] = start
    BY <1>6 DEF Follows
  <2> HIDE DEF start, S, step, ds, n
  <2>2. 0 \in 0 .. n /\ Len(h[0]) = 0 + 1 /\ h[0][0 + 1] = b.newest
    BY <1>1, <1>5, <2>1
  <2> QED BY <2>2
<1>8. ASSUME NEW k \in 0 .. n - 1, k \in T PROVE k + 1 \in T
  <2> DEFINE later == h[k]
             longer == h[k + 1]
  <2> HIDE DEF T, step, start
  <2>0. k \in 0 .. n /\ h[k] \in S
    <3> HIDE DEF S, n
    <3> QED BY <1>1
  <2>1. k + 1 \in 1 .. n /\ k + 1 \in 0 .. n /\ later \in S /\ k \in Nat
        /\ <<k + 1, later>> \in (1 .. n) \X S /\ n + 1 - (k + 1) = n - k
    <3> HIDE DEF S, n
    <3> QED BY <1>1, <2>0
  <2>2. longer = step[<<k + 1, later>>]
    <3> HIDE DEF step
    <3> QED BY <1>6 DEF Follows
  <2>3. longer = <<ApplyDifference(Head(later), ds[n - k])>> \o later
    <3> HIDE DEF S, n, ds, later, longer
    <3> QED BY <2>1, <2>2 DEF step
  <2> HIDE DEF step, S, longer
  <2>4. /\ Len(longer) = Len(later) + 1 /\ longer[1] = ApplyDifference(later[1], ds[n - k])
        /\ \A i \in 1 .. Len(later) : longer[i + 1] = later[i]
    BY <1>2, <2>1, <2>3
  <2>5. /\ Len(later) = k + 1 /\ later[k + 1] = b.newest
        /\ \A i \in 1 .. k : later[i] = ApplyDifference(later[i + 1], ds[n - k + i])
    BY <1>8 DEF T
  <2> HIDE DEF later, ds, n
  <2>6. Len(longer) = (k + 1) + 1 /\ longer[(k + 1) + 1] = b.newest
    BY <2>1, <2>4, <2>5
  <2>7. ASSUME NEW i \in 1 .. k + 1
        PROVE  longer[i] = ApplyDifference(longer[i + 1], ds[n - (k + 1) + i])
    <3>1. CASE i = 1
      <4>1. longer[1 + 1] = later[1] /\ n - (k + 1) + 1 = n - k
        BY <1>1, <2>1, <2>4, <2>5
      <4> QED BY <2>4, <3>1, <4>1
    <3>2. CASE i # 1
      <4>1. i - 1 \in 1 .. k /\ i - 1 \in 1 .. Len(later) /\ i \in 1 .. Len(later)
            /\ (i - 1) + 1 = i /\ n - k + (i - 1) = n - (k + 1) + i
        <5>1. i \in Nat /\ i > 1 /\ i <= k + 1 /\ k \in Nat /\ n \in Nat /\ Len(later) = k + 1
          BY <1>1, <2>1, <2>5, <3>2
        <5> HIDE DEF later
        <5> QED BY <5>1
      <4>2. longer[(i - 1) + 1] = later[i - 1] /\ longer[i + 1] = later[i]
        BY <2>4, <4>1
      <4>3. later[i - 1] = ApplyDifference(later[(i - 1) + 1], ds[n - k + (i - 1)])
        BY <2>5, <4>1
      <4> QED BY <4>1, <4>2, <4>3
    <3> QED BY <3>1, <3>2
  <2> QED BY <2>1, <2>6, <2>7 DEF T, longer
<1> HIDE DEF T
<1>9. n \in T
  <2>1. 0 .. n \subseteq T
    <3> HIDE DEF n
    <3> QED BY <1>1, <1>7, <1>8, UpToInduct
  <2> QED BY <1>1, <2>1
<1>10. h[n] \in S /\ Len(h[n]) = n + 1 /\ h[n][n + 1] = b.newest
       /\ \A i \in 1 .. n : h[n][i] = ApplyDifference(h[n][i + 1], ds[n - n + i])
  <2> HIDE DEF S, ds
  <2> QED BY <1>1, <1>9 DEF T
<1>11. \A i \in 1 .. n : n - n + i = i
  BY <1>1
<1> QED BY <1>4, <1>6, <1>10, <1>11 DEF Chain

LEMMA ChainAppend ==
  ASSUME NEW newest \in Held, NEW ds \in Seq(Differences), NEW m, Chain(m, newest, ds),
         NEW x \in Held, NEW d \in Differences, ApplyDifference(x, d) = newest
  PROVE  Chain(Append(m, x), x, Append(ds, d))
<1> DEFINE n == Len(ds)
           t == Append(m, x)
           e == Append(ds, d)
<1>1. m \in Seq(Held) /\ Len(m) = n + 1 /\ m[n + 1] = newest /\ n \in Nat
      /\ \A i \in 1 .. n : m[i] = ApplyDifference(m[i + 1], ds[i])
  BY Elements DEF Chain
<1>2. t \in Seq(Held) /\ Len(t) = n + 2 /\ t[n + 2] = x /\ \A i \in 1 .. n + 1 : t[i] = m[i]
  BY <1>1, Longer
<1>3. Len(e) = n + 1 /\ e[n + 1] = d /\ \A i \in 1 .. n : e[i] = ds[i]
  BY Longer
<1> HIDE DEF t, e
<1>4. ASSUME NEW i \in 1 .. n + 1 PROVE t[i] = ApplyDifference(t[i + 1], e[i])
  <2>1. CASE i = n + 1
    <3>1. i + 1 = n + 2
      BY <1>1, <2>1
    <3> QED BY <1>1, <1>2, <1>3, <2>1, <3>1
  <2>2. CASE i # n + 1
    <3>1. i \in 1 .. n /\ i + 1 \in 1 .. n + 1
      BY <1>1, <2>2
    <3> HIDE DEF n
    <3> QED BY <1>1, <1>2, <1>3, <3>1
  <2> QED BY <2>1, <2>2
<1>5. Len(e) + 1 = n + 2
  BY <1>1, <1>3
<1> HIDE DEF n
<1>6. Chain(t, x, e)
  BY <1>2, <1>3, <1>4, <1>5 DEF Chain
<1> QED BY <1>6 DEF t, e

LEMMA ChainTail ==
  ASSUME NEW newest \in Held, NEW ds \in Seq(Differences), ds # <<>>, NEW m, Chain(m, newest, ds)
  PROVE  Chain(Tail(m), newest, Tail(ds))
<1> DEFINE n == Len(Tail(ds))
<1>1. m \in Seq(Held) /\ Len(m) = Len(ds) + 1 /\ m[Len(ds) + 1] = newest /\ Len(ds) \in Nat
      /\ \A i \in 1 .. Len(ds) : m[i] = ApplyDifference(m[i + 1], ds[i])
  BY Elements DEF Chain
<1>2. Len(ds) = n + 1 /\ n \in Nat /\ \A i \in 1 .. n : Tail(ds)[i] = ds[i + 1]
  OBVIOUS
<1>3. Tail(m) \in Seq(Held) /\ Len(Tail(m)) = n + 1 /\ \A i \in 1 .. n + 1 : Tail(m)[i] = m[i + 1]
  <2>1. m # <<>> /\ Len(m) = n + 2
    BY <1>1, <1>2
  <2> HIDE DEF n
  <2> QED BY <1>1, <1>2, <2>1
<1>4. Tail(m)[n + 1] = newest
  <2>1. n + 1 \in 1 .. n + 1
    BY <1>2
  <2> HIDE DEF n
  <2> QED BY <1>1, <1>2, <1>3, <2>1
<1>5. ASSUME NEW i \in 1 .. n PROVE Tail(m)[i] = ApplyDifference(Tail(m)[i + 1], Tail(ds)[i])
  <2>1. i \in 1 .. n + 1 /\ i + 1 \in 1 .. n + 1 /\ i + 1 \in 1 .. Len(ds)
    BY <1>2
  <2>2. m[i + 1] = ApplyDifference(m[(i + 1) + 1], ds[i + 1])
    BY <1>1, <2>1
  <2> HIDE DEF n
  <2> QED BY <1>2, <1>3, <2>1, <2>2
<1> QED BY <1>3, <1>4, <1>5 DEF Chain

LEMMA ChainFront ==
  ASSUME NEW newest \in Held, NEW ds \in Seq(Differences), ds # <<>>, NEW m, Chain(m, newest, ds)
  PROVE  /\ ApplyDifference(newest, Last(ds)) = Last(Front(m)) /\ Last(m) = newest
         /\ Front(m) # <<>>
         /\ Chain(Front(m), Last(Front(m)), Front(ds))
<1> DEFINE n == Len(Front(ds))
<1>1. m \in Seq(Held) /\ Len(m) = Len(ds) + 1 /\ m[Len(ds) + 1] = newest /\ Len(ds) \in Nat
      /\ \A i \in 1 .. Len(ds) : m[i] = ApplyDifference(m[i + 1], ds[i])
  BY Elements DEF Chain
<1>2. Len(ds) = n + 1 /\ n \in Nat /\ (\A i \in 1 .. n : Front(ds)[i] = ds[i]) /\ Last(ds) = ds[n + 1]
  <2>1. Front(ds) \in Seq(Differences) /\ Last(ds) \in Differences /\ ds = Append(Front(ds), Last(ds))
    BY DEF Front, Last
  <2>2. n \in Nat
    BY <2>1, Elements
  <2>3. Len(ds) = n + 1 /\ (\A i \in 1 .. n : Front(ds)[i] = ds[i]) /\ Last(ds) = ds[n + 1]
    BY <2>1, Longer
  <2> HIDE DEF n
  <2> QED BY <2>2, <2>3
<1> HIDE DEF n
<1>3. /\ Front(m) \in Seq(Held) /\ Len(Front(m)) = n + 1 /\ \A i \in 1 .. n + 1 : Front(m)[i] = m[i]
      /\ Last(m) = newest
  <2>1. m # <<>> /\ Len(m) = n + 2
    BY <1>1, <1>2
  <2> QED BY <1>1, <1>2, <2>1 DEF Front, Last
<1>4. Last(Front(m)) = m[n + 1] /\ Front(m)[n + 1] = Last(Front(m)) /\ Front(m) # <<>>
  <2>1. n + 1 \in 1 .. n + 1
    BY <1>2
  <2> QED BY <1>2, <1>3, <2>1 DEF Last
<1>5. m[n + 1] = ApplyDifference(newest, Last(ds))
  <2>1. n + 1 \in 1 .. Len(ds) /\ (n + 1) + 1 = Len(ds) + 1
    BY <1>2
  <2> QED BY <1>1, <1>2, <2>1
<1>6. ASSUME NEW i \in 1 .. n PROVE Front(m)[i] = ApplyDifference(Front(m)[i + 1], Front(ds)[i])
  <2>1. i \in 1 .. n + 1 /\ i + 1 \in 1 .. n + 1 /\ i \in 1 .. Len(ds)
    BY <1>2
  <2> QED BY <1>1, <1>2, <1>3, <2>1
<1> QED BY <1>3, <1>4, <1>5, <1>6 DEF Chain, n

-----------------------------------------------------------------------------
(***************************************************************************)
(* What is left of a history whose oldest moments are given up.            *)
(***************************************************************************)
\* A suffix, moment by moment.
LEMMA SuffixIs ==
  ASSUME NEW S, NEW m \in Seq(S), NEW t
  PROVE  t \in Suffixes(m) <=>
           \E j \in 0 .. Len(m) : /\ t \in Seq(S) /\ Len(t) = Len(m) - j
                                /\ \A i \in 1 .. Len(m) - j : t[i] = m[i + j]
<1> DEFINE L == Len(m)
           Cut(j) == SubSeq(m, j + 1, L)
<1>1. L \in Nat
  BY Elements
<1>2. ASSUME NEW j \in 0 .. L
      PROVE  /\ Cut(j) \in Seq(S) /\ Len(Cut(j)) = L - j
             /\ \A i \in 1 .. L - j : Cut(j)[i] = m[i + j]
  <2>1. SubSeq(m, j + 1, L) = [i \in 1 .. L - j |-> m[i + j]]
    <3>1. L - (j + 1) + 1 = L - j /\ \A i \in 1 .. L - j : i + (j + 1) - 1 = i + j
      BY <1>1
    <3>2. SubSeq(m, j + 1, L) = [i \in 1 .. L - (j + 1) + 1 |-> m[i + (j + 1) - 1]]
      BY <1>1, SubSeqProperties
    <3> HIDE DEF L
    <3> QED BY <3>1, <3>2
  <2>2. L - j \in Nat /\ \A i \in 1 .. L - j : i + j \in 1 .. L
    BY <1>1
  <2>3. \A i \in 1 .. L - j : m[i + j] \in S
    BY <2>2, Elements
  <2> DEFINE f == [i \in 1 .. L - j |-> m[i + j]]
  <2>4. f \in [1 .. L - j -> S] /\ \A i \in 1 .. L - j : f[i] = m[i + j]
    <3> HIDE DEF L
    <3> QED BY <2>3
  <2>5. Cut(j) = f
    BY <2>1
  <2> HIDE DEF f, L, Cut
  <2> QED BY <2>2, <2>4, <2>5, Indexed
<1>3. t \in Suffixes(m) <=> \E j \in 0 .. L : t = Cut(j)
  <2>0. L \in 0 .. L /\ Cut(L) = <<>>
    <3>1. L \in 0 .. L /\ L - L = 0
      BY <1>1
    <3> HIDE DEF Cut, L
    <3>2. Cut(L) \in Seq(S) /\ Len(Cut(L)) = 0
      BY <1>2, <3>1
    <3> QED BY <3>1, <3>2
  <2>1. ASSUME t \in Suffixes(m) PROVE \E j \in 0 .. L : t = Cut(j)
    <3>1. CASE t = <<>>
      <4> HIDE DEF Cut, L
      <4> QED BY <2>0, <3>1
    <3>2. CASE \E n \in 1 .. L : t = SubSeq(m, n, L)
      <4>1. PICK n \in 1 .. L : t = SubSeq(m, n, L)
        BY <3>2
      <4>2. n - 1 \in 0 .. L /\ (n - 1) + 1 = n
        BY <1>1
      <4> QED BY <4>1, <4>2
    <3> QED BY <2>1, <3>1, <3>2 DEF Suffixes
  <2>2. ASSUME NEW j \in 0 .. L, t = Cut(j) PROVE t \in Suffixes(m)
    <3>1. CASE j = L
      <4>1. t = <<>>
        <5> HIDE DEF Cut, L
        <5> QED BY <2>0, <2>2, <3>1
      <4> QED BY <4>1 DEF Suffixes
    <3>2. CASE j # L
      <4>1. j + 1 \in 1 .. L
        BY <1>1, <3>2
      <4> QED BY <2>2, <4>1 DEF Suffixes
    <3> QED BY <3>1, <3>2
  <2> QED BY <2>1, <2>2
<1> HIDE DEF Cut
<1>4. ASSUME NEW j \in 0 .. L, t \in Seq(S), Len(t) = L - j, \A i \in 1 .. L - j : t[i] = m[i + j]
      PROVE  t = Cut(j)
  <2>1. \A i \in 1 .. Len(t) : t[i] = Cut(j)[i]
    <3> HIDE DEF L
    <3> QED BY <1>2, <1>4
  <2> HIDE DEF L
  <2> QED BY <1>2, <1>4, <2>1, Same
<1> HIDE DEF L
<1>5. (\E j \in 0 .. L : t = Cut(j)) <=>
        \E j \in 0 .. L : t \in Seq(S) /\ Len(t) = L - j /\ \A i \in 1 .. L - j : t[i] = m[i + j]
  BY <1>2, <1>4
<1> QED BY <1>3, <1>5 DEF L

LEMMA SuffixTyped ==
  ASSUME NEW S, NEW m \in Seq(S), NEW t \in Suffixes(m)
  PROVE  t \in Seq(S)
  BY SuffixIs

LEMMA SuffixAll ==
  ASSUME NEW S, NEW m \in Seq(S)
  PROVE  m \in Suffixes(m) /\ <<>> \in Suffixes(m)
<1>1. Len(m) \in Nat
  BY Elements
<1>2. m \in Suffixes(m)
  <2>1. 0 \in 0 .. Len(m) /\ Len(m) = Len(m) - 0 /\ \A i \in 1 .. Len(m) - 0 : m[i] = m[i + 0]
    BY <1>1
  <2> QED BY <2>1, SuffixIs
<1>3. <<>> \in Suffixes(m)
  <2>1. Len(m) \in 0 .. Len(m) /\ Len(<<>>) = Len(m) - Len(m) /\ <<>> \in Seq(S)
        /\ \A i \in 1 .. Len(m) - Len(m) : <<>>[i] = m[i + Len(m)]
    BY <1>1
  <2> QED BY <2>1, SuffixIs
<1> QED BY <1>2, <1>3

LEMMA SuffixTransitive ==
  ASSUME NEW S, NEW m \in Seq(S), NEW t \in Suffixes(m), NEW u \in Suffixes(t)
  PROVE  u \in Suffixes(m)
<1>1. PICK j \in 0 .. Len(m) : t \in Seq(S) /\ Len(t) = Len(m) - j /\ \A i \in 1 .. Len(m) - j : t[i] = m[i + j]
  BY SuffixIs
<1>2. PICK k \in 0 .. Len(t) : u \in Seq(S) /\ Len(u) = Len(t) - k /\ \A i \in 1 .. Len(t) - k : u[i] = t[i + k]
  <2>1. t \in Seq(S)
    BY <1>1
  <2> QED BY <2>1, SuffixIs
<1>3. Len(m) \in Nat
  BY Elements
<1> DEFINE l == j + k
<1>4. l \in 0 .. Len(m) /\ Len(u) = Len(m) - l
  BY <1>1, <1>2, <1>3
<1>5. ASSUME NEW i \in 1 .. Len(m) - l PROVE u[i] = m[i + l]
  <2>1. i \in 1 .. Len(t) - k /\ i + k \in 1 .. Len(m) - j /\ (i + k) + j = i + l
    BY <1>1, <1>2, <1>3
  <2> HIDE DEF l
  <2> QED BY <1>1, <1>2, <2>1
<1> HIDE DEF l
<1> QED BY <1>2, <1>4, <1>5, SuffixIs

LEMMA SuffixTail ==
  ASSUME NEW S, NEW m \in Seq(S), m # <<>>
  PROVE  Tail(m) \in Suffixes(m)
<1>1. Len(m) \in Nat /\ 1 \in 0 .. Len(m) /\ Tail(m) \in Seq(S) /\ Len(Tail(m)) = Len(m) - 1
      /\ \A i \in 1 .. Len(m) - 1 : Tail(m)[i] = m[i + 1]
  OBVIOUS
<1> QED BY <1>1, SuffixIs

LEMMA SuffixLast ==
  ASSUME NEW S, NEW m \in Seq(S), NEW x \in S
  PROVE  <<x>> \in Suffixes(Append(m, x))
<1> DEFINE t == Append(m, x)
<1>1. t \in Seq(S) /\ Len(t) = Len(m) + 1 /\ t[Len(m) + 1] = x /\ Len(m) \in Nat
  BY Longer, Elements
<1> HIDE DEF t
<1>2. Len(m) \in 0 .. Len(t) /\ <<x>> \in Seq(S) /\ Len(<<x>>) = Len(t) - Len(m)
      /\ \A i \in 1 .. Len(t) - Len(m) : <<x>>[i] = t[i + Len(m)]
  <2>1. Len(t) - Len(m) = 1 /\ Len(m) \in 0 .. Len(t)
    BY <1>1
  <2>2. \A i \in 1 .. 1 : i = 1 /\ i + Len(m) = Len(m) + 1
    BY <1>1
  <2> QED BY <1>1, <2>1, <2>2
<1> QED BY <1>1, <1>2, SuffixIs DEF t

-----------------------------------------------------------------------------
(***************************************************************************)
(* The operations of the buffer.                                           *)
(***************************************************************************)

\* A buffer that accounts for what it holds.
Sound(b) ==
  /\ b \in Buffers
  /\ b.bytes = Total(Sizes(b.differences))
  /\ b.newest = Never => b.differences = <<>>

LEMMA BufferFields ==
  ASSUME NEW b \in Buffers
  PROVE  /\ b.newest \in Held /\ b.differences \in Seq(Differences) /\ b.bytes \in Int /\ b.limit \in Nat
         /\ b = [newest |-> b.newest, differences |-> b.differences, bytes |-> b.bytes, limit |-> b.limit]
  BY DEF Buffers, Held

LEMMA BufferOf ==
  ASSUME NEW newest \in Held, NEW ds \in Seq(Differences), NEW bytes \in Int, NEW limit \in Nat
  PROVE  LET b == [newest |-> newest, differences |-> ds, bytes |-> bytes, limit |-> limit]
         IN  /\ b \in Buffers /\ b.newest = newest /\ b.differences = ds
             /\ b.bytes = bytes /\ b.limit = limit
  BY DEF Buffers, Held

LEMMA MomentsOf ==
  ASSUME NEW b \in Buffers
  PROVE  /\ Moments(b) \in Seq(Held)
         /\ b.newest = Never => Moments(b) = <<>>
         /\ b.newest # Never => /\ Chain(Moments(b), b.newest, b.differences)
                               /\ Moments(b) # <<>> /\ Last(Moments(b)) = b.newest
<1>1. ASSUME b.newest = Never PROVE Moments(b) = <<>>
  BY <1>1 DEF Moments
<1>2. ASSUME b.newest # Never
      PROVE  /\ Chain(Moments(b), b.newest, b.differences)
             /\ Moments(b) # <<>> /\ Last(Moments(b)) = b.newest
  <2>1. Chain(Moments(b), b.newest, b.differences)
    BY <1>2, MomentsChain
  <2>2. Len(b.differences) \in Nat
    BY BufferFields, Elements
  <2> QED BY <2>1, <2>2 DEF Chain, Last
<1>3. Moments(b) \in Seq(Held)
  <2>1. <<>> \in Seq(Held)
    OBVIOUS
  <2> QED BY <1>1, <1>2, <2>1 DEF Chain
<1> QED BY <1>1, <1>2, <1>3

\* The moments are those of any chain that ends at the newest.
LEMMA MomentsUnique ==
  ASSUME NEW b \in Buffers, b.newest # Never, NEW m, Chain(m, b.newest, b.differences)
  PROVE  Moments(b) = m
  BY MomentsOf, BufferFields, ChainUnique

\* The buffer with its oldest difference given up.
LEMMA GivenUpIs ==
  ASSUME NEW b \in Buffers, b.differences # <<>>
  PROVE  /\ GivenUp(b) \in Buffers
         /\ GivenUp(b).newest = b.newest /\ GivenUp(b).limit = b.limit
         /\ Len(GivenUp(b).differences) = Len(b.differences) - 1
         /\ Sound(b) => Sound(GivenUp(b)) /\ Moments(GivenUp(b)) \in Suffixes(Moments(b))
<1> DEFINE ds == b.differences
           g == GivenUp(b)
           bytes == b.bytes - SizeOf(Head(ds))
<1>1. b.newest \in Held /\ ds \in Seq(Differences) /\ b.bytes \in Int /\ b.limit \in Nat
  BY BufferFields
<1>2. Head(ds) \in Differences /\ Tail(ds) \in Seq(Differences) /\ Len(Tail(ds)) = Len(ds) - 1
  <2> HIDE DEF ds
  <2> QED BY <1>1 DEF ds
<1>3. bytes \in Int
  <2> HIDE DEF ds
  <2> QED BY <1>1, <1>2, SizeTyped
<1>4. g = [newest |-> b.newest, differences |-> Tail(ds), bytes |-> bytes, limit |-> b.limit]
  <2>1. b \in [newest : Held, differences : Seq(Differences), bytes : Int, limit : Nat]
    BY DEF Buffers, Held
  <2> HIDE DEF bytes, ds
  <2>2. g = [b EXCEPT !.bytes = bytes, !.differences = Tail(ds)]
    BY DEF GivenUp, bytes, ds
  <2> HIDE DEF g
  <2> QED BY <2>1, <2>2
<1> HIDE DEF g, bytes
<1>5. g \in Buffers /\ g.newest = b.newest /\ g.differences = Tail(ds) /\ g.bytes = bytes /\ g.limit = b.limit
  <2> HIDE DEF ds
  <2> QED BY <1>1, <1>2, <1>3, <1>4, BufferOf
<1>6. ASSUME Sound(b) PROVE Sound(g) /\ Moments(g) \in Suffixes(Moments(b))
  <2>1. b.newest # Never /\ b.bytes = Total(Sizes(ds))
    BY <1>6 DEF Sound
  <2>2. bytes = Total(Sizes(Tail(ds)))
    BY <1>1, <2>1, Accounts DEF bytes
  <2>3. Sound(g)
    BY <1>5, <2>1, <2>2 DEF Sound
  <2>4. Chain(Moments(b), b.newest, ds) /\ Moments(b) \in Seq(Held) /\ Moments(b) # <<>>
    BY <2>1, MomentsOf
  <2>5. Chain(Tail(Moments(b)), g.newest, g.differences)
    BY <1>1, <1>5, <2>4, ChainTail
  <2>6. Moments(g) = Tail(Moments(b))
    BY <1>5, <2>1, <2>5, MomentsUnique
  <2>7. Tail(Moments(b)) \in Suffixes(Moments(b))
    BY <2>4, SuffixTail
  <2> QED BY <2>3, <2>6, <2>7
<1> QED BY <1>2, <1>5, <1>6 DEF g

LEMMA FittedIs ==
  ASSUME NEW b \in Buffers
  PROVE  /\ Fitted(b) \in Buffers
         /\ Fitted(b).newest = b.newest /\ Fitted(b).limit = b.limit
         /\ \/ ~TooMuch(Fitted(b))
            \/ Len(Fitted(b).differences) = Len(b.differences) - 1
         /\ Sound(b) => Sound(Fitted(b)) /\ Moments(Fitted(b)) \in Suffixes(Moments(b))
<1>1. CASE TooMuch(b)
  <2>1. Fitted(b) = GivenUp(b) /\ b.differences # <<>>
    BY <1>1 DEF Fitted, TooMuch
  <2> QED BY <2>1, GivenUpIs
<1>2. CASE ~TooMuch(b)
  <2>1. Fitted(b) = b
    BY <1>2 DEF Fitted
  <2>2. Moments(b) \in Suffixes(Moments(b))
    BY MomentsOf, SuffixAll
  <2> QED BY <1>2, <2>1, <2>2
<1> QED BY <1>1, <1>2

\* After as many rounds as there are differences, what is left fits.
LEMMA EvictedIs ==
  ASSUME NEW b, Sound(b)
  PROVE  /\ Sound(Evicted(b)) /\ ~TooMuch(Evicted(b))
         /\ Evicted(b).newest = b.newest /\ Evicted(b).limit = b.limit
         /\ Moments(Evicted(b)) \in Suffixes(Moments(b))
<1> DEFINE n == Len(b.differences)
           step == [p \in (1 .. n) \X Buffers |-> Fitted(p[2])]
<1>1. b \in Buffers /\ n \in Nat
  BY BufferFields, Elements DEF Sound
<1>2. step \in [(1 .. n) \X Buffers -> Buffers]
  BY FittedIs
<1>3. PICK h \in [0 .. n -> Buffers] : Rounds(b, step, n) = h[n] /\ Follows(h, b, step, n)
  <2> HIDE DEF step, n
  <2> QED BY <1>1, <1>2, RoundsFollow
<1> DEFINE T == {k \in 0 .. n : /\ Sound(h[k]) /\ h[k].newest = b.newest /\ h[k].limit = b.limit
                                /\ Moments(h[k]) \in Suffixes(Moments(b))
                                /\ ~TooMuch(h[k]) \/ Len(h[k].differences) = n - k}
<1>4. 0 \in T
  <2>1. h[0] = b
    BY <1>3 DEF Follows
  <2>2. Moments(b) \in Suffixes(Moments(b))
    BY <1>1, MomentsOf, SuffixAll
  <2>3. 0 \in 0 .. n /\ Len(b.differences) = n - 0
    BY <1>1
  <2> HIDE DEF n
  <2> QED BY <2>1, <2>2, <2>3
<1>5. ASSUME NEW k \in 0 .. n - 1, k \in T PROVE k + 1 \in T
  <2> HIDE DEF T, step
  <2>1. k \in 0 .. n /\ k + 1 \in 1 .. n /\ k + 1 \in 0 .. n
    BY <1>1
  <2>2. h[k] \in Buffers /\ <<k + 1, h[k]>> \in (1 .. n) \X Buffers
    BY <2>1
  <2>3. h[k + 1] = step[<<k + 1, h[k]>>]
    BY <1>3 DEF Follows
  <2>4. h[k + 1] = Fitted(h[k])
    <3> HIDE DEF n
    <3> QED BY <2>2, <2>3 DEF step
  <2>5. /\ Sound(h[k]) /\ h[k].newest = b.newest /\ h[k].limit = b.limit
        /\ Moments(h[k]) \in Suffixes(Moments(b))
        /\ ~TooMuch(h[k]) \/ Len(h[k].differences) = n - k
    BY <1>5 DEF T
  <2>6. /\ h[k + 1] \in Buffers
        /\ h[k + 1].newest = b.newest /\ h[k + 1].limit = b.limit
        /\ ~TooMuch(h[k + 1]) \/ Len(h[k + 1].differences) = Len(h[k].differences) - 1
        /\ Sound(h[k + 1]) /\ Moments(h[k + 1]) \in Suffixes(Moments(h[k]))
    BY <2>2, <2>4, <2>5, FittedIs
  <2>7. Moments(h[k + 1]) \in Suffixes(Moments(b))
    <3>1. Moments(b) \in Seq(Held)
      BY <1>1, MomentsOf
    <3> QED BY <2>5, <2>6, <3>1, SuffixTransitive
  <2>8. ~TooMuch(h[k + 1]) \/ Len(h[k + 1].differences) = n - (k + 1)
    <3>1. CASE ~TooMuch(h[k])
      <4>1. h[k + 1] = h[k]
        BY <2>4, <3>1 DEF Fitted
      <4> QED BY <3>1, <4>1
    <3>2. CASE Len(h[k].differences) = n - k
      <4>1. Len(h[k].differences) - 1 = n - (k + 1)
        <5> HIDE DEF n
        <5> QED BY <1>1, <2>1, <3>2
      <4> HIDE DEF n
      <4> QED BY <2>6, <4>1
    <3> QED BY <2>5, <3>1, <3>2
  <2> HIDE DEF n
  <2> QED BY <2>1, <2>6, <2>7, <2>8 DEF T
<1> HIDE DEF T
<1>6. n \in T
  <2>1. 0 .. n \subseteq T
    <3> HIDE DEF n
    <3> QED BY <1>1, <1>4, <1>5, UpToInduct
  <2> QED BY <1>1, <2>1
<1>7. /\ Sound(h[n]) /\ h[n].newest = b.newest /\ h[n].limit = b.limit
      /\ Moments(h[n]) \in Suffixes(Moments(b))
      /\ ~TooMuch(h[n]) \/ Len(h[n].differences) = n - n
  <2> HIDE DEF n
  <2> QED BY <1>6 DEF T
<1>8. Evicted(b) = h[n]
  BY <1>3 DEF Evicted
<1>9. ~TooMuch(h[n])
  <2>1. ASSUME Len(h[n].differences) = n - n PROVE h[n].differences = <<>>
    <3>1. h[n].differences \in Seq(Differences) /\ n - n = 0
      BY <1>1, <1>7, BufferFields DEF Sound
    <3> HIDE DEF n
    <3> QED BY <2>1, <3>1
  <2> HIDE DEF n
  <2> QED BY <1>7, <2>1 DEF TooMuch
<1> QED BY <1>7, <1>8, <1>9

LEMMA GrownIs ==
  ASSUME NEW b, Sound(b), NEW snapshot \in Snapshots
  PROVE  /\ Sound(Grown(b, snapshot))
         /\ Grown(b, snapshot).newest = snapshot /\ Grown(b, snapshot).limit = b.limit
         /\ Moments(Grown(b, snapshot)) \in Suffixes(Append(Moments(b), snapshot))
<1> DEFINE ds == b.differences
           d == EncodeDifference(snapshot, b.newest)
           g == Grown(b, snapshot)
           m == Moments(b)
<1>1. b \in Buffers /\ b.newest \in Held /\ ds \in Seq(Differences) /\ b.bytes \in Int /\ b.limit \in Nat
      /\ m \in Seq(Held)
  BY BufferFields, MomentsOf DEF Sound
<1>2. snapshot \in Held /\ snapshot # Never
  BY RewindConstants DEF Held
<1>3. Append(m, snapshot) \in Seq(Held)
  BY <1>1, <1>2
<1>4. CASE Chains(b, snapshot)
  <2>1. b.newest \in Snapshots /\ b.newest # Never /\ Len(b.newest) = Len(snapshot)
    BY <1>1, <1>4 DEF Chains, Held
  <2>2. d \in Differences /\ ApplyDifference(snapshot, d) = b.newest
    <3>1. Len(snapshot) \in Nat
      BY Elements DEF Snapshots
    <3> QED BY <2>1, <3>1, EncodeExact
  <2> DEFINE bytes == b.bytes + SizeOf(d)
  <2>3. SizeOf(d) \in Nat /\ bytes \in Int /\ Append(ds, d) \in Seq(Differences)
    <3> HIDE DEF ds, d
    <3> QED BY <1>1, <2>2, SizeTyped
  <2> HIDE DEF m
  <2>4. g = [newest |-> snapshot, differences |-> Append(ds, d), bytes |-> bytes, limit |-> b.limit]
    <3>1. b \in [newest : Held, differences : Seq(Differences), bytes : Int, limit : Nat]
      BY <1>1 DEF Buffers, Held
    <3>2. g = [b EXCEPT !.newest = snapshot, !.differences = Append(ds, d), !.bytes = bytes]
      BY <1>4 DEF Grown
    <3> HIDE DEF g, bytes, d, ds
    <3> QED BY <3>1, <3>2
  <2> HIDE DEF g, bytes, d
  <2>5. g \in Buffers /\ g.newest = snapshot /\ g.differences = Append(ds, d) /\ g.bytes = bytes /\ g.limit = b.limit
    <3> HIDE DEF ds
    <3> QED BY <1>1, <1>2, <2>3, <2>4, BufferOf
  <2>6. bytes = Total(Sizes(Append(ds, d)))
    BY <1>1, <2>2, Accounts DEF Sound, bytes
  <2>7. Sound(g)
    BY <1>2, <2>5, <2>6 DEF Sound
  <2>8. Chain(m, b.newest, ds)
    BY <1>1, <2>1, MomentsOf DEF m
  <2>9. Chain(Append(m, snapshot), snapshot, Append(ds, d))
    BY <1>1, <1>2, <2>2, <2>8, ChainAppend
  <2>10. Moments(g) = Append(m, snapshot)
    <3>1. Chain(Append(m, snapshot), g.newest, g.differences)
      BY <2>5, <2>9
    <3> QED BY <1>2, <2>5, <3>1, MomentsUnique
  <2> QED BY <1>3, <2>5, <2>7, <2>10, SuffixAll DEF g, m
<1>5. CASE ~Chains(b, snapshot)
  <2> HIDE DEF m
  <2>1. g = [newest |-> snapshot, differences |-> <<>>, bytes |-> 0, limit |-> b.limit]
    <3>1. b \in [newest : Held, differences : Seq(Differences), bytes : Int, limit : Nat]
      BY <1>1 DEF Buffers, Held
    <3>2. g = [b EXCEPT !.newest = snapshot, !.differences = <<>>, !.bytes = 0]
      BY <1>5 DEF Grown
    <3> HIDE DEF g, d, ds
    <3> QED BY <3>1, <3>2
  <2> HIDE DEF g, d
  <2>2. g \in Buffers /\ g.newest = snapshot /\ g.differences = <<>> /\ g.bytes = 0 /\ g.limit = b.limit
    <3>1. <<>> \in Seq(Differences) /\ 0 \in Int
      OBVIOUS
    <3> QED BY <1>1, <1>2, <2>1, <3>1, BufferOf
  <2>3. Sound(g)
    BY <1>1, <2>2, Accounts DEF Sound
  <2>4. Chain(<<snapshot>>, snapshot, <<>>)
    BY <1>2 DEF Chain
  <2>5. Moments(g) = <<snapshot>>
    <3>1. Chain(<<snapshot>>, g.newest, g.differences)
      BY <2>2, <2>4
    <3> QED BY <1>2, <2>2, <3>1, MomentsUnique
  <2>6. <<snapshot>> \in Suffixes(Append(m, snapshot))
    BY <1>1, <1>2, SuffixLast DEF m
  <2> QED BY <2>2, <2>3, <2>5, <2>6 DEF g, m
<1> QED BY <1>4, <1>5

\* push(): the snapshot is the newest moment, and the oldest may be given up.
LEMMA PushedIs ==
  ASSUME NEW b, Sound(b), NEW snapshot \in Snapshots
  PROVE  /\ Sound(Pushed(b, snapshot)) /\ ~TooMuch(Pushed(b, snapshot))
         /\ Pushed(b, snapshot).limit = b.limit
         /\ Moments(Pushed(b, snapshot)) \in Suffixes(Append(Moments(b), snapshot))
<1> DEFINE g == Grown(b, snapshot)
           m == Append(Moments(b), snapshot)
<1>1. Sound(g) /\ g.limit = b.limit /\ Moments(g) \in Suffixes(m)
  BY GrownIs
<1>2. m \in Seq(Held)
  <2>1. Moments(b) \in Seq(Held) /\ snapshot \in Held
    BY MomentsOf DEF Sound, Held
  <2> QED BY <2>1
<1> HIDE DEF g, m
<1>3. Sound(Evicted(g)) /\ ~TooMuch(Evicted(g)) /\ Evicted(g).limit = g.limit
      /\ Moments(Evicted(g)) \in Suffixes(Moments(g))
  BY <1>1, EvictedIs
<1>4. Moments(Evicted(g)) \in Suffixes(m)
  BY <1>1, <1>2, <1>3, SuffixTransitive
<1>5. Pushed(b, snapshot) = Evicted(g)
  BY DEF Pushed, g
<1> QED BY <1>1, <1>3, <1>4, <1>5 DEF m

\* clear(): nothing is left.
LEMMA ClearedIs ==
  ASSUME NEW b, b.limit \in Nat
  PROVE  /\ Sound(Cleared(b)) /\ ~TooMuch(Cleared(b)) /\ Cleared(b).limit = b.limit
         /\ Moments(Cleared(b)) = <<>>
<1> DEFINE c == Cleared(b)
<1>1. c = [newest |-> Never, differences |-> <<>>, bytes |-> 0, limit |-> b.limit]
  BY DEF Cleared, EmptyBuffer
<1> HIDE DEF c
<1>2. c \in Buffers /\ c.newest = Never /\ c.differences = <<>> /\ c.bytes = 0 /\ c.limit = b.limit
  <2>1. Never \in Held /\ <<>> \in Seq(Differences) /\ 0 \in Int
    BY DEF Held
  <2> QED BY <1>1, <2>1, BufferOf
<1>3. Total(Sizes(<<>>)) = 0
  <2>1. <<>> \in Seq(Differences)
    OBVIOUS
  <2> QED BY <2>1, Accounts
<1>4. Sound(c) /\ ~TooMuch(c)
  BY <1>2, <1>3 DEF Sound, TooMuch
<1>5. Moments(c) = <<>>
  BY <1>2, MomentsOf
<1> QED BY <1>2, <1>4, <1>5 DEF c

\* set_memory_limit(): the oldest moments may be given up.
LEMMA LimitedIs ==
  ASSUME NEW b, Sound(b), NEW limit \in Nat
  PROVE  /\ Sound(SetMemoryLimit(b, limit)) /\ ~TooMuch(SetMemoryLimit(b, limit))
         /\ SetMemoryLimit(b, limit).limit = limit
         /\ Moments(SetMemoryLimit(b, limit)) \in Suffixes(Moments(b))
<1> DEFINE g == [b EXCEPT !.limit = limit]
<1>1. b \in Buffers /\ b.newest \in Held /\ b.differences \in Seq(Differences) /\ b.bytes \in Int
  BY BufferFields DEF Sound
<1>2. g \in Buffers /\ g.newest = b.newest /\ g.differences = b.differences /\ g.bytes = b.bytes /\ g.limit = limit
  BY <1>1 DEF Buffers
<1>3. SetMemoryLimit(b, limit) = Evicted(g)
  BY DEF SetMemoryLimit
<1> HIDE DEF g
<1>4. Sound(g)
  BY <1>2 DEF Sound
<1>5. Moments(g) = Moments(b)
  <2>1. CASE b.newest = Never
    BY <1>1, <1>2, <2>1, MomentsOf
  <2>2. CASE b.newest # Never
    <3>1. Chain(Moments(b), g.newest, g.differences)
      BY <1>1, <1>2, <2>2, MomentsOf
    <3> QED BY <1>2, <2>2, <3>1, MomentsUnique
  <2> QED BY <2>1, <2>2
<1> QED BY <1>2, <1>3, <1>4, <1>5, EvictedIs

\* pop(): the newest moment is taken, and the others stay.
LEMMA PoppedIs ==
  ASSUME NEW b, Sound(b), ~TooMuch(b), b.newest # Never, Moments(b) \in Seq(Snapshots)
  PROVE  /\ Sound(Popped(b)) /\ ~TooMuch(Popped(b)) /\ Popped(b).limit = b.limit
         /\ Moments(Popped(b)) = Front(Moments(b))
<1> DEFINE ds == b.differences
           m == Moments(b)
           q == Popped(b)
<1>1. b \in Buffers /\ b.newest \in Held /\ ds \in Seq(Differences) /\ b.bytes \in Int /\ b.limit \in Nat
      /\ b.bytes = Total(Sizes(ds))
  BY BufferFields DEF Sound
<1>2. m \in Seq(Held) /\ Chain(m, b.newest, ds) /\ m # <<>> /\ Last(m) = b.newest
  BY <1>1, MomentsOf
<1>3. CASE ds = <<>>
  <2>1. q = [b EXCEPT !.newest = Never]
    BY <1>3 DEF Popped
  <2> HIDE DEF m, q
  <2>2. q \in Buffers /\ q.newest = Never /\ q.differences = <<>> /\ q.bytes = b.bytes /\ q.limit = b.limit
    BY <1>1, <1>3, <2>1 DEF Buffers
  <2>3. Sound(q) /\ ~TooMuch(q)
    BY <1>1, <1>3, <2>2 DEF Sound, TooMuch
  <2>4. Moments(q) = <<>>
    BY <2>2, MomentsOf
  <2>5. Front(m) = <<>>
    <3>1. m \in Seq(Held) /\ Len(m) = 1
      BY <1>2, <1>3 DEF Chain
    <3> QED BY <3>1 DEF Front
  <2> QED BY <2>2, <2>3, <2>4, <2>5 DEF m, q
<1>4. CASE ds # <<>>
  <2> DEFINE before == ApplyDifference(b.newest, Last(ds))
             bytes == b.bytes - SizeOf(Last(ds))
  <2> HIDE DEF m, q
  <2>1. before = Last(Front(m)) /\ Front(m) # <<>> /\ Chain(Front(m), before, Front(ds))
    <3>1. ApplyDifference(b.newest, Last(ds)) = Last(Front(m)) /\ Front(m) # <<>>
          /\ Chain(Front(m), Last(Front(m)), Front(ds))
      BY <1>1, <1>2, <1>4, ChainFront
    <3> QED BY <3>1
  <2>2. before \in Snapshots /\ before # Never
    <3>1. m \in Seq(Snapshots)
      BY DEF m
    <3>2. Front(m) \in Seq(Snapshots)
      BY <1>2, <3>1 DEF Front
    <3>3. Last(Front(m)) \in Snapshots
      BY <2>1, <3>2 DEF Last
    <3> HIDE DEF before
    <3> QED BY <2>1, <3>3, RewindConstants
  <2>3. Front(ds) \in Seq(Differences) /\ Last(ds) \in Differences
    <3> HIDE DEF ds
    <3> QED BY <1>1, <1>4 DEF Front, Last
  <2>4. SizeOf(Last(ds)) \in Nat /\ bytes \in Int /\ bytes <= b.bytes
    <3>1. SizeOf(Last(ds)) \in Nat
      BY <2>3, SizeTyped
    <3> QED BY <1>1, <3>1
  <2>5. q = [newest |-> before, differences |-> Front(ds), bytes |-> bytes, limit |-> b.limit]
    <3>1. b \in [newest : Held, differences : Seq(Differences), bytes : Int, limit : Nat]
      BY <1>1 DEF Buffers, Held
    <3>2. q = [b EXCEPT !.newest = before, !.differences = Front(ds), !.bytes = bytes]
      BY <1>4, <2>2 DEF Popped, q
    <3> HIDE DEF before, bytes, ds
    <3> QED BY <3>1, <3>2
  <2>6. q \in Buffers /\ q.newest = before /\ q.differences = Front(ds) /\ q.bytes = bytes /\ q.limit = b.limit
    <3>1. before \in Held
      BY <2>2 DEF Held
    <3> HIDE DEF before, bytes, ds
    <3> QED BY <1>1, <2>3, <2>4, <2>5, <3>1, BufferOf
  <2>7. bytes = Total(Sizes(Front(ds)))
    BY <1>1, <1>4, Accounts
  <2>8. Sound(q)
    <3> HIDE DEF before, bytes, ds
    <3> QED BY <2>2, <2>6, <2>7 DEF Sound
  <2>9. Len(before) = Len(b.newest)
    BY <1>1, <2>2, <2>3, AppliedTyped DEF Held
  <2>10. ~TooMuch(q)
    <3>1. MemoryUsed(b) <= b.limit
      <4>1. MemoryUsed(b) = b.bytes + Len(b.newest) /\ Len(b.newest) \in Nat
        <5>1. b.newest \in Snapshots
          BY <1>1 DEF Held
        <5> QED BY <5>1, Elements DEF MemoryUsed, Snapshots
      <4>2. ~(MemoryUsed(b) > b.limit)
        BY <1>4 DEF TooMuch
      <4> QED BY <1>1, <4>1, <4>2
    <3>2. MemoryUsed(q) = bytes + Len(before)
      <4> HIDE DEF before, bytes, ds
      <4> QED BY <2>2, <2>6 DEF MemoryUsed
    <3>3. MemoryUsed(b) = b.bytes + Len(before) /\ Len(before) \in Nat
      <4>1. before \in Seq(Byte)
        BY <2>2 DEF Snapshots
      <4>2. Len(before) \in Nat
        <5> HIDE DEF before
        <5> QED BY <4>1, Elements
      <4> QED BY <2>9, <4>2 DEF MemoryUsed
    <3>4. MemoryUsed(q) <= q.limit
      <4> HIDE DEF before, bytes, ds
      <4> QED BY <1>1, <2>4, <2>6, <3>1, <3>2, <3>3
    <3>5. MemoryUsed(q) \in Int
      <4> HIDE DEF before, bytes, ds
      <4> QED BY <2>4, <3>2, <3>3
    <3> QED BY <1>1, <2>6, <3>4, <3>5 DEF TooMuch
  <2>11. Moments(q) = Front(m)
    <3> HIDE DEF before, bytes, ds
    <3>1. Chain(Front(m), q.newest, q.differences)
      BY <2>1, <2>6
    <3> QED BY <2>2, <2>6, <3>1, MomentsUnique
  <2> QED BY <2>6, <2>8, <2>10, <2>11 DEF m, q
<1> QED BY <1>3, <1>4

-----------------------------------------------------------------------------
(***************************************************************************)
(* The session: the moments the buffer keeps are of the game that runs,    *)
(* however frames, faults, save states, resets, budgets and rewinding      *)
(* interleave, and every step of it is a step of the history.              *)
(***************************************************************************)
LEMMA SessionConstants ==
  /\ None \notin Games /\ None \notin {"Running", "Paused"}
  /\ \A g \in Games : Contents[g] # {} /\ Contents[g] \subseteq Seq(Byte)
  /\ 0 .. MaxFrames + 1 \subseteq Byte /\ Limits \subseteq Nat
  /\ Interval \in Nat \ {0} /\ MaxFrames \in Nat /\ MaxChoices \in Nat
  BY SessionAssumption DEF SessionAssumption

LEMMA SnapshotIs ==
  ASSUME NEW f \in 0 .. MaxFrames + 1, NEW c \in Seq(Byte)
  PROVE  /\ Snapshot(f, c) \in Snapshots /\ Len(Snapshot(f, c)) = Len(c) + 1
         /\ Snapshot(f, c)[1] = f
<1>1. f \in Byte /\ Len(c) \in Nat /\ \A i \in 1 .. Len(c) : c[i] \in Byte
  BY SessionConstants, Elements
<1> DEFINE n == Len(c) + 1
           s == Snapshot(f, c)
<1>2. n \in Nat /\ 1 \in 1 .. n
  BY <1>1
<1>3. s = [i \in 1 .. n |-> IF i = 1 THEN f ELSE c[i - 1]]
  BY DEF Snapshot
<1>4. ASSUME NEW i \in 1 .. n PROVE (IF i = 1 THEN f ELSE c[i - 1]) \in Byte
  <2>1. i # 1 => i - 1 \in 1 .. Len(c)
    BY <1>1
  <2> QED BY <1>1, <2>1
<1> HIDE DEF s, n
<1>5. s \in [1 .. n -> Byte] /\ s[1] = f
  BY <1>2, <1>3, <1>4
<1>6. s \in Snapshots /\ Len(s) = n
  BY <1>2, <1>5, Indexed DEF Snapshots
<1> QED BY <1>5, <1>6 DEF s, n

\* A machine whose frame counter is put back.
LEMMA SnapshotFirst ==
  ASSUME NEW f, NEW h, NEW c \in Seq(Byte)
  PROVE  [Snapshot(f, c) EXCEPT ![1] = h] = Snapshot(h, c)
<1>1. Len(c) \in Nat
  BY Elements
<1> DEFINE n == Len(c) + 1
<1>2. n \in Nat
  BY <1>1
<1>3. \A x : Snapshot(x, c) = [i \in 1 .. n |-> IF i = 1 THEN x ELSE c[i - 1]]
  BY DEF Snapshot
<1> DEFINE s == Snapshot(f, c)
           t == Snapshot(h, c)
<1>4. s = [i \in 1 .. n |-> IF i = 1 THEN f ELSE c[i - 1]]
  BY <1>3
<1>5. t = [i \in 1 .. n |-> IF i = 1 THEN h ELSE c[i - 1]]
  BY <1>3
<1> HIDE DEF s, t, n
<1>6. [s EXCEPT ![1] = h] = t
  BY <1>4, <1>5
<1> QED BY <1>6 DEF s, t

\* The machines of a game.
LEMMA MachineIs ==
  ASSUME NEW g \in Games \cup {None}, NEW m \in MachinesOf(g)
  PROVE  /\ m \in Snapshots
         /\ g # None => /\ m[1] \in 0 .. MaxFrames + 1
                        /\ \A f \in 0 .. MaxFrames + 1 :
                              [m EXCEPT ![1] = f] \in MachinesOf(g) /\ [m EXCEPT ![1] = f][1] = f
<1>1. CASE g = None
  <2>1. m = <<0>> /\ 0 \in Byte
    BY <1>1, SessionConstants DEF MachinesOf, NoMachine
  <2>2. m \in Seq(Byte)
    BY <2>1
  <2> QED BY <1>1, <2>2 DEF Snapshots
<1>2. CASE g # None
  <2>1. g \in Games
    BY <1>2
  <2>2. PICK f \in 0 .. MaxFrames + 1, c \in Contents[g] : m = Snapshot(f, c)
    BY <1>2 DEF MachinesOf
  <2>3. c \in Seq(Byte)
    BY <2>1, SessionConstants
  <2>4. m \in Snapshots /\ m[1] = f
    BY <2>2, <2>3, SnapshotIs
  <2>5. ASSUME NEW h \in 0 .. MaxFrames + 1
        PROVE  [m EXCEPT ![1] = h] \in MachinesOf(g) /\ [m EXCEPT ![1] = h][1] = h
    <3>1. [m EXCEPT ![1] = h] = Snapshot(h, c) /\ Snapshot(h, c)[1] = h
      BY <2>2, <2>3, SnapshotFirst, SnapshotIs
    <3>2. Snapshot(h, c) \in MachinesOf(g)
      BY <1>2 DEF MachinesOf
    <3> QED BY <3>1, <3>2
  <2> QED BY <2>4, <2>5
<1> QED BY <1>1, <1>2

LEMMA FreshIs ==
  ASSUME NEW g \in Games
  PROVE  Fresh(g) \in MachinesOf(g) /\ Fresh(g)[1] = 0
<1> DEFINE lengths == {Len(c) : c \in Contents[g]}
<1>1. lengths \in SUBSET Nat /\ lengths # {}
  <2>1. Contents[g] # {} /\ Contents[g] \subseteq Seq(Byte)
    BY SessionConstants
  <2>2. \A c \in Contents[g] : Len(c) \in Nat
    BY <2>1, Elements
  <2> QED BY <2>1, <2>2
<1>2. PICK n \in lengths : \A k \in lengths : n <= k
  <2> HIDE DEF lengths
  <2> QED BY <1>1, NatMinimum
<1>3. PICK c \in Contents[g] : n = Len(c)
  OBVIOUS
<1>4. c \in Seq(Byte) /\ 0 \in 0 .. MaxFrames + 1
  BY SessionConstants
<1> DEFINE m == Snapshot(0, c)
<1>5. m[1] = 0 /\ Len(m) = Len(c) + 1
  BY <1>4, SnapshotIs
<1>6. m \in MachinesOf(g)
  BY <1>4, SessionConstants DEF MachinesOf
<1>7. \A d \in Contents[g] : Len(m) <= Len(d) + 1
  <2> SUFFICES ASSUME NEW d \in Contents[g] PROVE Len(m) <= Len(d) + 1
    OBVIOUS
  <2>1. Len(d) \in Nat /\ Len(c) \in Nat /\ Len(c) <= Len(d)
    BY <1>1, <1>2, <1>3
  <2> HIDE DEF m
  <2> QED BY <1>5, <2>1
<1> HIDE DEF m
<1> QED BY <1>5, <1>6, <1>7 DEF Fresh

-----------------------------------------------------------------------------
(***************************************************************************)
(* The invariant.  Beyond types: every moment is a machine of this game    *)
(* from which a frame can be run within the bound, the buffer accounts for *)
(* what it holds and fits, a step under way belongs to a game that will be *)
(* resumed as it was, and a slot holds a machine of its game.              *)
(***************************************************************************)
Playable(g) == {m \in MachinesOf(g) : m[1] <= MaxFrames}

Rewindable(b, g) ==
  Sound(b) /\ ~TooMuch(b) /\ b.limit \in Limits /\ Moments(b) \in Seq(Playable(g))

SlotFiles(g) ==
  {NoFile} \cup [game : Games, damaged : BOOLEAN, machine : MachinesOf(g)]

Typed ==
  /\ game \in Games \cup {None} /\ state \in {"Empty", "Running", "Paused"}
  /\ (state = "Empty") <=> (game = None)
  /\ machine \in MachinesOf(game)
  /\ enabled \in BOOLEAN /\ held \in BOOLEAN /\ choices \in 0 .. MaxChoices

SteppingOn ==
  stepping # None =>
    /\ game # None /\ state = "Running" /\ stepping \in {"Running", "Paused"}
    /\ machine[1] <= MaxFrames

FilesSound ==
  /\ DOMAIN slots = Games \X Slots
  /\ \A g \in Games, s \in Slots : slots[<<g, s>>] \in SlotFiles(g)

Inv == Typed /\ Rewindable(rewind, game) /\ SteppingOn /\ FilesSound

\* What a buffer of moments to go on from is.
LEMMA RewindableIs ==
  ASSUME NEW b, NEW g \in Games \cup {None}, Rewindable(b, g)
  PROVE  /\ Sound(b) /\ ~TooMuch(b) /\ b.limit \in Limits /\ b.bytes \in Nat
         /\ Moments(b) \in Seq(Playable(g)) /\ Moments(b) \in Seq(MachinesOf(g))
         /\ Moments(b) \in Seq(Snapshots)
<1>1. Sound(b) /\ ~TooMuch(b) /\ b.limit \in Limits /\ Moments(b) \in Seq(Playable(g))
  BY DEF Rewindable
<1>2. b.bytes \in Nat
  <2>1. b.differences \in Seq(Differences)
    BY <1>1, BufferFields DEF Sound
  <2> QED BY <1>1, <2>1, Accounts DEF Sound
<1>3. Playable(g) \subseteq MachinesOf(g)
  BY DEF Playable
<1>4. MachinesOf(g) \subseteq Snapshots
  BY MachineIs
<1>5. Moments(b) \in Seq(MachinesOf(g)) /\ Moments(b) \in Seq(Snapshots)
  BY <1>1, <1>3, <1>4, SeqMonotonic
<1> QED BY <1>1, <1>2, <1>5

\* What is left of a history of moments to go on from is one.
LEMMA RewindableSuffix ==
  ASSUME NEW g \in Games \cup {None}, NEW m \in Seq(Playable(g)), NEW b, b.limit \in Limits,
         Sound(b), ~TooMuch(b), Moments(b) \in Suffixes(m)
  PROVE  Rewindable(b, g)
  BY SuffixTyped DEF Rewindable

LEMMA InitInv == Init => Inv
<1> SUFFICES ASSUME Init PROVE Inv
  OBVIOUS
<1>1. PICK limit \in Limits : rewind = EmptyBuffer(limit)
  BY DEF Init
<1>2. limit \in Nat /\ rewind = Cleared(rewind) /\ rewind.limit = limit
  BY <1>1, SessionConstants DEF EmptyBuffer, Cleared
<1>3. Sound(rewind) /\ ~TooMuch(rewind) /\ Moments(rewind) = <<>>
  <2>1. rewind.limit \in Nat
    BY <1>2
  <2> QED BY <1>2, <2>1, ClearedIs
<1>4. game = None /\ state = "Empty" /\ machine = NoMachine /\ enabled = TRUE /\ held = FALSE
      /\ choices = 0 /\ stepping = None /\ slots = [place \in Games \X Slots |-> NoFile]
  BY DEF Init
<1>5. Typed
  <2>1. machine \in MachinesOf(game) /\ choices \in 0 .. MaxChoices
    BY <1>4, SessionConstants DEF MachinesOf
  <2> QED BY <1>4, <2>1 DEF Typed
<1>6. Rewindable(rewind, game)
  <2>1. <<>> \in Seq(Playable(game))
    OBVIOUS
  <2> QED BY <1>2, <1>3, <2>1 DEF Rewindable
<1>7. FilesSound
  BY <1>4 DEF FilesSound, SlotFiles
<1>8. SteppingOn
  BY <1>4 DEF SteppingOn
<1> QED BY <1>5, <1>6, <1>7, <1>8 DEF Inv

-----------------------------------------------------------------------------
(* Steps.                                                                  *)

\* The machines a frame can end with.
LEMMA NextMachinesAre ==
  ASSUME Typed, game # None, machine[1] <= MaxFrames, NEW m \in NextMachines
  PROVE  /\ m \in MachinesOf(game) /\ m[1] = machine[1] + 1 /\ m[1] \in 0 .. MaxFrames + 1
         /\ [m EXCEPT ![1] = machine[1]] \in MachinesOf(game)
         /\ [m EXCEPT ![1] = machine[1]][1] = machine[1]
<1>1. game \in Games /\ machine \in MachinesOf(game)
  BY DEF Typed
<1>2. machine[1] \in 0 .. MaxFrames + 1 /\ MaxFrames \in Nat
  BY <1>1, MachineIs, SessionConstants
<1>3. PICK c \in Contents[game] : m = Snapshot(machine[1] + 1, c)
  BY DEF NextMachines
<1>4. machine[1] + 1 \in 0 .. MaxFrames + 1 /\ c \in Seq(Byte)
  BY <1>1, <1>2, SessionConstants
<1>5. m \in MachinesOf(game) /\ m[1] = machine[1] + 1
  <2>1. m[1] = machine[1] + 1
    BY <1>3, <1>4, SnapshotIs
  <2> QED BY <1>3, <1>4, <2>1 DEF MachinesOf
<1> QED BY <1>1, <1>2, <1>4, <1>5, MachineIs

\* A frame that ends is remembered as the newest moment, or not at all.
LEMMA FrameRemembered ==
  ASSUME NEW g \in Games, NEW b, Rewindable(b, g), NEW m \in Playable(g)
  PROVE  /\ Rewindable(Pushed(b, m), g)
         /\ Moments(Pushed(b, m)) \in Suffixes(Append(Moments(b), m))
<1>1. m \in Snapshots
  BY MachineIs DEF Playable
<1>2. Sound(b) /\ b.limit \in Limits /\ Moments(b) \in Seq(Playable(g))
  BY RewindableIs
<1>3. Append(Moments(b), m) \in Seq(Playable(g))
  BY <1>2
<1>4. /\ Sound(Pushed(b, m)) /\ ~TooMuch(Pushed(b, m))
      /\ Pushed(b, m).limit = b.limit
      /\ Moments(Pushed(b, m)) \in Suffixes(Append(Moments(b), m))
  BY <1>1, <1>2, PushedIs
<1> QED BY <1>2, <1>3, <1>4, RewindableSuffix

\* The history goes on: what is left of it, with the present machine or without.
Continued == Moments(rewind)' \in Suffixes(Moments(rewind)) \cup Suffixes(Append(Moments(rewind), machine'))

\* A history nothing happened to has gone on.
LEMMA Unchanged ==
  ASSUME Inv, rewind' = rewind
  PROVE  Rewindable(rewind', game) /\ Continued
<1>1. Moments(rewind) \in Seq(Snapshots)
  BY RewindableIs DEF Inv, Typed
<1>2. Moments(rewind) \in Suffixes(Moments(rewind))
  BY <1>1, SuffixAll
<1> QED BY <1>2 DEF Inv, Continued

LEMMA FrameStep ==
  ASSUME Inv, game # None, machine[1] < MaxFrames, NEW m \in NextMachines, FrameEnds(m)
  PROVE  machine' \in MachinesOf(game) /\ Rewindable(rewind', game) /\ Continued
<1>1. game \in Games /\ machine \in MachinesOf(game) /\ Typed
  BY DEF Inv, Typed
<1>2. machine[1] \in 0 .. MaxFrames + 1 /\ MaxFrames \in Nat
  BY <1>1, MachineIs, SessionConstants
<1>3. machine[1] <= MaxFrames
  BY <1>2
<1>4. m \in MachinesOf(game) /\ m[1] = machine[1] + 1
  BY <1>1, <1>3, NextMachinesAre
<1>5. m \in Playable(game)
  BY <1>2, <1>4 DEF Playable
<1>6. machine' = m
  BY DEF FrameEnds
<1>7. CASE rewind' = rewind
  BY <1>4, <1>6, <1>7, Unchanged
<1>8. CASE rewind' = Pushed(rewind, m)
  BY <1>1, <1>4, <1>5, <1>6, <1>8, FrameRemembered DEF Inv, Continued
<1> QED BY <1>7, <1>8 DEF FrameEnds

LEMMA RunFrameStep == Inv /\ RunFrame => Inv' /\ Continued
<1> SUFFICES ASSUME Inv, RunFrame PROVE Inv' /\ Continued
  OBVIOUS
<1>1. game # None /\ machine[1] < MaxFrames /\ game' = game /\ state' = state /\ stepping = None
      /\ stepping' = stepping /\ slots' = slots /\ enabled' = enabled /\ held' = held /\ choices' = choices
  BY DEF RunFrame, Inv, Typed
<1>2. machine' \in MachinesOf(game) /\ Rewindable(rewind', game) /\ Continued
  BY <1>1, FrameStep DEF RunFrame
<1>3. Typed' /\ SteppingOn' /\ FilesSound'
  BY <1>1, <1>2 DEF Inv, Typed, SteppingOn, FilesSound
<1> QED BY <1>1, <1>2, <1>3 DEF Inv

LEMMA AdvanceFrameStep == Inv /\ AdvanceFrame => Inv' /\ Continued
<1> SUFFICES ASSUME Inv, AdvanceFrame PROVE Inv' /\ Continued
  OBVIOUS
<1>1. game # None /\ machine[1] < MaxFrames /\ game' = game /\ state' = state /\ stepping = None
      /\ stepping' = stepping /\ slots' = slots /\ enabled' = enabled /\ held' = held
      /\ choices' \in 0 .. MaxChoices
  BY SessionConstants DEF AdvanceFrame, Choose, Inv, Typed
<1>2. machine' \in MachinesOf(game) /\ Rewindable(rewind', game) /\ Continued
  BY <1>1, FrameStep DEF AdvanceFrame
<1>3. Typed' /\ SteppingOn' /\ FilesSound'
  BY <1>1, <1>2 DEF Inv, Typed, SteppingOn, FilesSound
<1> QED BY <1>1, <1>2, <1>3 DEF Inv

\* A fault leaves the frame counter where it was.
LEMMA FaultStep == Inv /\ Fault => Inv' /\ Continued
<1> SUFFICES ASSUME Inv, Fault PROVE Inv' /\ Continued
  OBVIOUS
<1>1. game \in Games /\ game # None /\ game' = game /\ state' = "Paused" /\ stepping = None /\ rewind' = rewind
      /\ stepping' = stepping /\ slots' = slots /\ enabled' = enabled /\ held' = held
      /\ choices' \in 0 .. MaxChoices
  BY SessionConstants DEF Fault, Choose, Inv, Typed
<1>2. PICK m \in NextMachines : machine' = [m EXCEPT ![1] = machine[1]]
  BY DEF Fault
<1>3. machine' \in MachinesOf(game)
  <2>1. machine[1] \in 0 .. MaxFrames + 1
    BY <1>1, MachineIs DEF Inv, Typed
  <2>2. PICK c \in Contents[game] : m = Snapshot(machine[1] + 1, c)
    BY DEF NextMachines
  <2>3. c \in Seq(Byte)
    BY <1>1, SessionConstants
  <2>4. [m EXCEPT ![1] = machine[1]] = Snapshot(machine[1], c)
    BY <2>1, <2>2, <2>3, SnapshotFirst
  <2> QED BY <1>1, <1>2, <2>1, <2>2, <2>4 DEF MachinesOf
<1>4. Rewindable(rewind', game) /\ Continued
  BY <1>1, Unchanged
<1>5. Typed' /\ SteppingOn' /\ FilesSound'
  BY <1>1, <1>3 DEF Inv, Typed, SteppingOn, FilesSound
<1> QED BY <1>1, <1>4, <1>5 DEF Inv

LEMMA SetPausedStep == Inv /\ SetPaused => Inv' /\ Continued
<1> SUFFICES ASSUME Inv, SetPaused PROVE Inv' /\ Continued
  OBVIOUS
<1>1. game # None /\ game' = game /\ state' \in {"Paused", "Running"} /\ machine' = machine /\ rewind' = rewind
      /\ stepping = None /\ stepping' = stepping /\ slots' = slots /\ enabled' = enabled /\ held' = held
      /\ choices' \in 0 .. MaxChoices
  BY SessionConstants DEF SetPaused, Choose, Inv, Typed
<1>2. Rewindable(rewind', game) /\ Continued
  BY <1>1, Unchanged
<1>3. Typed' /\ SteppingOn' /\ FilesSound'
  BY <1>1 DEF Inv, Typed, SteppingOn, FilesSound
<1> QED BY <1>1, <1>2, <1>3 DEF Inv

-----------------------------------------------------------------------------
\* Loading gives the machine saved, or the one there was.
LEMMA LoadGives ==
  ASSUME NEW m, NEW g \in Games, NEW file \in SlotFiles(g), file # NoFile, m \in MachinesOf(g)
  PROVE  /\ AfterLoad(m, g, file).machine = IF file.game = g /\ ~file.damaged THEN file.machine ELSE m
         /\ file.machine \in MachinesOf(g)
<1> DEFINE first == Deserialized(m, g, file)
<1>1. file.machine \in MachinesOf(g)
  BY DEF SlotFiles
<1>2. CASE file.game = g /\ ~file.damaged
  <2>1. first = [ok |-> TRUE, machine |-> file.machine]
    BY <1>2 DEF Deserialized
  <2>2. AfterLoad(m, g, file) = first
    BY <2>1 DEF AfterLoad
  <2> QED BY <1>1, <1>2, <2>1, <2>2
<1>3. CASE ~(file.game = g /\ ~file.damaged)
  <2>1. \E x : first = [ok |-> FALSE, machine |-> x]
    BY <1>3 DEF Deserialized
  <2>2. Deserialized(first.machine, g, Serialized(m, g)).machine = m
    BY DEF Deserialized, Serialized
  <2>3. AfterLoad(m, g, file)
          = [first EXCEPT !.machine = Deserialized(first.machine, g, Serialized(m, g)).machine]
    BY <2>1 DEF AfterLoad
  <2> HIDE DEF first
  <2>4. AfterLoad(m, g, file).machine = m
    BY <2>1, <2>2, <2>3
  <2> QED BY <1>1, <1>3, <2>4
<1> QED BY <1>2, <1>3

LEMMA LoadStateStep == Inv /\ (\E s \in Slots : LoadStateSlot(s)) => Inv' /\ Continued
<1> SUFFICES ASSUME Inv, NEW s \in Slots, LoadStateSlot(s) PROVE Inv' /\ Continued
  OBVIOUS
<1>1. game \in Games /\ game # None /\ game' = game /\ state' = state /\ rewind' = rewind
      /\ stepping = None /\ stepping' = stepping /\ slots' = slots /\ enabled' = enabled /\ held' = held
      /\ choices' \in 0 .. MaxChoices
  BY SessionConstants DEF LoadStateSlot, Choose, Inv, Typed
<1>2. /\ slots[<<game, s>>] # NoFile
      /\ machine' = AfterLoad(machine, game, slots[<<game, s>>]).machine
  BY DEF LoadStateSlot
<1>3. machine \in MachinesOf(game) /\ slots[<<game, s>>] \in SlotFiles(game)
  BY <1>1 DEF Inv, Typed, FilesSound
<1>4. machine' \in MachinesOf(game)
  BY <1>1, <1>2, <1>3, LoadGives
<1>5. Rewindable(rewind', game) /\ Continued
  BY <1>1, Unchanged
<1>6. Typed' /\ SteppingOn' /\ FilesSound'
  BY <1>1, <1>4 DEF Inv, Typed, SteppingOn, FilesSound
<1> QED BY <1>1, <1>5, <1>6 DEF Inv

LEMMA SaveStateStep == Inv /\ SaveStateSlot => Inv' /\ Continued
<1> SUFFICES ASSUME Inv, SaveStateSlot PROVE Inv' /\ Continued
  OBVIOUS
<1>1. game \in Games /\ game # None /\ game' = game /\ state' = state /\ rewind' = rewind /\ machine' = machine
      /\ stepping = None /\ stepping' = stepping /\ enabled' = enabled /\ held' = held
      /\ choices' \in 0 .. MaxChoices
  BY SessionConstants DEF SaveStateSlot, Choose, Inv, Typed
<1>2. PICK s \in Slots : slots' = [slots EXCEPT ![<<game, s>>] = Serialized(machine, game)]
  BY DEF SaveStateSlot
<1>3. Serialized(machine, game) \in SlotFiles(game)
  BY <1>1 DEF Serialized, SlotFiles, Inv, Typed
<1>4. FilesSound'
  BY <1>2, <1>3 DEF Inv, FilesSound
<1>5. Rewindable(rewind', game) /\ Continued
  BY <1>1, Unchanged
<1>6. Typed' /\ SteppingOn'
  BY <1>1 DEF Inv, Typed, SteppingOn
<1> QED BY <1>1, <1>4, <1>5, <1>6 DEF Inv

LEMMA FileChangesStep == Inv /\ FileChanges => Inv' /\ Continued
<1> SUFFICES ASSUME Inv, FileChanges PROVE Inv' /\ Continued
  OBVIOUS
<1>1. game' = game /\ state' = state /\ rewind' = rewind /\ machine' = machine
      /\ stepping = None /\ stepping' = stepping /\ enabled' = enabled /\ held' = held
      /\ choices' \in 0 .. MaxChoices
  BY SessionConstants DEF FileChanges, Choose, Inv, Typed
<1>2. PICK g \in Games, s \in Slots, damaged \in BOOLEAN, h \in Games :
        /\ slots[<<g, s>>] # NoFile
        /\ slots' = [slots EXCEPT ![<<g, s>>] = [@ EXCEPT !.damaged = damaged, !.game = h]]
  BY ZenonT(60) DEF FileChanges
<1>3. [slots[<<g, s>>] EXCEPT !.damaged = damaged, !.game = h] \in SlotFiles(g)
  <2>1. slots[<<g, s>>] \in [game : Games, damaged : BOOLEAN, machine : MachinesOf(g)]
    BY <1>2 DEF Inv, FilesSound, SlotFiles
  <2> QED BY <2>1 DEF SlotFiles
<1>4. FilesSound'
  BY <1>2, <1>3 DEF Inv, FilesSound
<1>5. Rewindable(rewind', game) /\ Continued
  BY <1>1, Unchanged
<1>6. Typed' /\ SteppingOn'
  BY <1>1 DEF Inv, Typed, SteppingOn
<1> QED BY <1>1, <1>4, <1>5, <1>6 DEF Inv
-----------------------------------------------------------------------------
LEMMA PressRewindStep == Inv /\ PressRewind => Inv' /\ Continued
<1> SUFFICES ASSUME Inv, PressRewind PROVE Inv' /\ Continued
  OBVIOUS
<1>1. game' = game /\ state' = state /\ rewind' = rewind /\ machine' = machine
      /\ stepping = None /\ stepping' = stepping /\ enabled' = enabled /\ held' = TRUE
      /\ slots' = slots /\ choices' \in 0 .. MaxChoices
  BY SessionConstants DEF PressRewind, Choose, Inv, Typed
<1>2. Rewindable(rewind', game) /\ Continued
  BY <1>1, Unchanged
<1>3. Typed' /\ SteppingOn' /\ FilesSound'
  BY <1>1 DEF Inv, Typed, SteppingOn, FilesSound
<1> QED BY <1>1, <1>2, <1>3 DEF Inv

LEMMA ReleaseRewindStep == Inv /\ ReleaseRewind => Inv' /\ Continued
<1> SUFFICES ASSUME Inv, ReleaseRewind PROVE Inv' /\ Continued
  OBVIOUS
<1>1. game' = game /\ state' = state /\ rewind' = rewind /\ machine' = machine
      /\ stepping = None /\ stepping' = stepping /\ enabled' = enabled /\ held' = FALSE
      /\ slots' = slots /\ choices' \in 0 .. MaxChoices
  BY SessionConstants DEF ReleaseRewind, Choose, Inv, Typed
<1>2. Rewindable(rewind', game) /\ Continued
  BY <1>1, Unchanged
<1>3. Typed' /\ SteppingOn' /\ FilesSound'
  BY <1>1 DEF Inv, Typed, SteppingOn, FilesSound
<1> QED BY <1>1, <1>2, <1>3 DEF Inv

\* The newest moment is taken back, whole.
Recalled ==
  /\ Moments(rewind) # <<>>
  /\ Moments(rewind)' = Front(Moments(rewind)) /\ machine' = Last(Moments(rewind))

LEMMA FrontTyped ==
  ASSUME NEW S, NEW m \in Seq(S), m # <<>>
  PROVE  Front(m) \in Seq(S) /\ Last(m) \in S
  BY DEF Front, Last

LEMMA RewindStepStep == Inv /\ RewindStep => Inv' /\ Recalled
<1> SUFFICES ASSUME Inv, RewindStep PROVE Inv' /\ Recalled
  OBVIOUS
<1>1. game \in Games /\ game # None /\ game' = game /\ state' = "Running" /\ stepping' = state
      /\ state \in {"Running", "Paused"} /\ enabled' = enabled /\ held' = held
      /\ slots' = slots /\ choices' = choices /\ rewind.newest # Never
  BY DEF RewindStep, Inv, Typed
<1>2. machine' = rewind.newest
  BY DEF RewindStep, Deserialized, Serialized
<1>3. /\ Sound(rewind) /\ ~TooMuch(rewind) /\ rewind.limit \in Limits
      /\ Moments(rewind) \in Seq(Playable(game)) /\ Moments(rewind) \in Seq(Snapshots)
  BY <1>1, RewindableIs DEF Inv
<1>4. Moments(rewind) # <<>> /\ Last(Moments(rewind)) = rewind.newest
  BY <1>1, <1>3, MomentsOf DEF Sound
<1>5. /\ Sound(rewind') /\ ~TooMuch(rewind') /\ rewind'.limit = rewind.limit
      /\ Moments(rewind') = Front(Moments(rewind))
  <2>1. rewind' = Popped(rewind)
    BY DEF RewindStep
  <2> QED BY <1>1, <1>3, <2>1, PoppedIs
<1>6. Moments(rewind') \in Seq(Playable(game)) /\ machine' \in Playable(game)
  BY <1>2, <1>3, <1>4, <1>5, FrontTyped
<1>7. Rewindable(rewind', game)
  BY <1>3, <1>5, <1>6 DEF Rewindable
<1>8. Typed' /\ SteppingOn' /\ FilesSound'
  BY <1>1, <1>6 DEF Inv, Typed, SteppingOn, FilesSound, Playable
<1>9. Recalled
  BY <1>2, <1>4, <1>5 DEF Recalled
<1> QED BY <1>1, <1>7, <1>8, <1>9 DEF Inv

\* The step that shows a moment remembers nothing.
LEMMA ShowRestoredStep == Inv /\ ShowRestored => Inv' /\ Continued
<1> SUFFICES ASSUME Inv, ShowRestored PROVE Inv' /\ Continued
  OBVIOUS
<1>1. game \in Games /\ game # None /\ game' = game /\ stepping # None /\ stepping' = None
      /\ stepping \in {"Running", "Paused"} /\ enabled' = enabled /\ held' = held
      /\ slots' = slots /\ choices' = choices /\ machine[1] <= MaxFrames
  BY DEF ShowRestored, Inv, Typed, SteppingOn
<1>2. rewind' = rewind /\ machine' \in MachinesOf(game) /\ state' \in {"Running", "Paused"}
  <2>1. CASE (\E m \in NextMachines : FrameEnds(m)) /\ state' = stepping
    <3>1. PICK m \in NextMachines : FrameEnds(m)
      BY <2>1
    <3>2. machine' = m /\ rewind' = rewind
      BY <1>1, <3>1 DEF FrameEnds, Captures
    <3>3. m \in MachinesOf(game)
      BY <1>1, NextMachinesAre DEF Inv
    <3> QED BY <1>1, <2>1, <3>2, <3>3
  <2>2. CASE /\ state' = "Paused" /\ rewind' = rewind
             /\ \E m \in NextMachines : machine' = [m EXCEPT ![1] = machine[1]]
    <3>1. PICK m \in NextMachines : machine' = [m EXCEPT ![1] = machine[1]]
      BY <2>2
    <3>2. [m EXCEPT ![1] = machine[1]] \in MachinesOf(game)
      BY <1>1, NextMachinesAre DEF Inv
    <3> QED BY <2>2, <3>1, <3>2
  <2> QED BY <2>1, <2>2 DEF ShowRestored
<1>3. Rewindable(rewind', game) /\ Continued
  BY <1>2, Unchanged
<1>4. Typed' /\ SteppingOn' /\ FilesSound'
  BY <1>1, <1>2 DEF Inv, Typed, SteppingOn, FilesSound
<1> QED BY <1>1, <1>3, <1>4 DEF Inv

\* Nothing is left of a buffer that is cleared.
LEMMA ClearedStep ==
  ASSUME Inv, rewind' = Cleared(rewind), NEW g \in Games \cup {None}
  PROVE  Rewindable(rewind', g) /\ Continued
<1>1. rewind.limit \in Limits /\ Moments(rewind) \in Seq(Snapshots)
  BY RewindableIs DEF Inv, Typed
<1>2. /\ Sound(rewind') /\ ~TooMuch(rewind') /\ rewind'.limit = rewind.limit
      /\ Moments(rewind') = <<>>
  BY <1>1, ClearedIs, SessionConstants
<1>3. <<>> \in Suffixes(Moments(rewind)) /\ <<>> \in Seq(Playable(g))
  BY <1>1, SuffixAll
<1> QED BY <1>1, <1>2, <1>3 DEF Rewindable, Continued

LEMMA SetRewindEnabledStep == Inv /\ SetRewindEnabled => Inv' /\ Continued
<1> SUFFICES ASSUME Inv, SetRewindEnabled PROVE Inv' /\ Continued
  OBVIOUS
<1>1. game' = game /\ state' = state /\ machine' = machine /\ stepping = None /\ stepping' = stepping
      /\ slots' = slots /\ choices' \in 0 .. MaxChoices /\ game \in Games \cup {None}
  BY SessionConstants DEF SetRewindEnabled, Choose, Inv, Typed
<1>2. PICK on \in BOOLEAN, limit \in Limits :
        /\ enabled' = on /\ held' = (held /\ on)
        /\ rewind' = IF on THEN SetMemoryLimit(rewind, limit) ELSE Cleared(SetMemoryLimit(rewind, limit))
  BY DEF SetRewindEnabled
<1> DEFINE b == SetMemoryLimit(rewind, limit)
<1>3. /\ Sound(rewind) /\ Moments(rewind) \in Seq(Playable(game)) /\ Moments(rewind) \in Seq(Snapshots)
  BY <1>1, RewindableIs DEF Inv
<1>4. /\ Sound(b) /\ ~TooMuch(b) /\ b.limit = limit /\ Moments(b) \in Suffixes(Moments(rewind))
  BY <1>3, LimitedIs, SessionConstants
<1> HIDE DEF b
<1>5. ASSUME on PROVE Rewindable(rewind', game) /\ Continued
  <2>1. rewind' = b
    BY <1>2, <1>5 DEF b
  <2>2. Rewindable(b, game)
    BY <1>1, <1>3, <1>4, RewindableSuffix
  <2> QED BY <1>4, <2>1, <2>2 DEF Continued
<1>6. ASSUME ~on PROVE Rewindable(rewind', game) /\ Continued
  <2>1. rewind' = Cleared(b)
    BY <1>2, <1>6 DEF b
  <2>2. Sound(rewind') /\ ~TooMuch(rewind') /\ rewind'.limit = limit /\ Moments(rewind') = <<>>
    BY <1>4, <2>1, ClearedIs, SessionConstants
  <2>3. <<>> \in Suffixes(Moments(rewind)) /\ <<>> \in Seq(Playable(game))
    BY <1>3, SuffixAll
  <2> QED BY <2>2, <2>3 DEF Rewindable, Continued
<1>7. Typed' /\ SteppingOn' /\ FilesSound'
  BY <1>1, <1>2 DEF Inv, Typed, SteppingOn, FilesSound
<1> QED BY <1>1, <1>5, <1>6, <1>7 DEF Inv

\* A game starts anew, with no moments.
LEMMA RestartStep ==
  ASSUME Inv, NEW g \in Games, Restart(g), stepping = None, stepping' = stepping, slots' = slots,
         enabled' = enabled, held' = held, choices' \in 0 .. MaxChoices
  PROVE  Inv' /\ Continued
<1>1. game' = g /\ g # None /\ state' = "Running" /\ machine' = Fresh(g) /\ rewind' = Cleared(rewind)
  BY SessionConstants DEF Restart, Forget
<1>2. machine' \in MachinesOf(g)
  BY <1>1, FreshIs
<1>3. Rewindable(rewind', g) /\ Continued
  BY <1>1, ClearedStep
<1>4. Typed' /\ SteppingOn' /\ FilesSound'
  BY <1>1, <1>2 DEF Inv, Typed, SteppingOn, FilesSound
<1> QED BY <1>1, <1>3, <1>4 DEF Inv

LEMMA LoadRomStep == Inv /\ LoadRom => Inv' /\ Continued
<1> SUFFICES ASSUME Inv, LoadRom PROVE Inv' /\ Continued
  OBVIOUS
<1>1. choices' \in 0 .. MaxChoices
  BY SessionConstants DEF LoadRom, Choose, Inv, Typed
<1> QED BY <1>1, RestartStep DEF LoadRom, Choose

LEMMA ResetMachineStep == Inv /\ ResetMachine => Inv' /\ Continued
<1> SUFFICES ASSUME Inv, ResetMachine PROVE Inv' /\ Continued
  OBVIOUS
<1>1. choices' \in 0 .. MaxChoices /\ game \in Games
  BY SessionConstants DEF ResetMachine, Choose, Inv, Typed
<1> QED BY <1>1, RestartStep DEF ResetMachine, Choose

LEMMA UnloadRomStep == Inv /\ UnloadRom => Inv' /\ Continued
<1> SUFFICES ASSUME Inv, UnloadRom PROVE Inv' /\ Continued
  OBVIOUS
<1>1. game' = None /\ state' = "Empty" /\ machine' = NoMachine /\ rewind' = Cleared(rewind)
      /\ stepping = None /\ stepping' = stepping /\ slots' = slots /\ enabled' = enabled /\ held' = FALSE
      /\ choices' \in 0 .. MaxChoices
  BY SessionConstants DEF UnloadRom, Choose, Inv, Typed
<1>2. machine' \in MachinesOf(None)
  BY <1>1 DEF MachinesOf
<1>3. Rewindable(rewind', None) /\ Continued
  BY <1>1, ClearedStep
<1>4. Typed' /\ SteppingOn' /\ FilesSound'
  BY <1>1, <1>2 DEF Inv, Typed, SteppingOn, FilesSound
<1> QED BY <1>1, <1>3, <1>4 DEF Inv

LEMMA StutterStep == Inv /\ UNCHANGED vars => Inv' /\ Continued
<1> SUFFICES ASSUME Inv, UNCHANGED vars PROVE Inv' /\ Continued
  OBVIOUS
<1>1. game' = game /\ rewind' = rewind
  BY DEF vars
<1>2. Rewindable(rewind', game) /\ Continued
  BY <1>1, Unchanged
<1>3. Typed' /\ SteppingOn' /\ FilesSound'
  BY DEF vars, Inv, Typed, SteppingOn, FilesSound
<1> QED BY <1>1, <1>2, <1>3 DEF Inv

LEMMA NextStep == Inv /\ [Next]_vars => Inv' /\ (Continued \/ Recalled)
  BY RunFrameStep, AdvanceFrameStep, FaultStep, SetPausedStep, SaveStateStep, LoadStateStep,
     FileChangesStep, PressRewindStep, ReleaseRewindStep, RewindStepStep, ShowRestoredStep,
     SetRewindEnabledStep, LoadRomStep, ResetMachineStep, UnloadRomStep, StutterStep
     DEF Next

LEMMA Always == Spec => []Inv
<1>1. Inv /\ [Next]_vars => Inv'
  BY NextStep
<1> QED BY InitInv, <1>1, PTL DEF Spec

\* Whatever is played, saved, loaded, rewound and switched, the moments that can be
\* brought back are machines of the loaded game, and the buffer accounts for exactly
\* what it holds and is within its budget.
THEOREM MomentsStayKept == Spec => []MomentsKept
<1>1. Inv => MomentsKept
  <2> SUFFICES ASSUME Inv PROVE MomentsKept
    OBVIOUS
  <2>1. /\ Sound(rewind) /\ ~TooMuch(rewind) /\ rewind.limit \in Limits /\ rewind.bytes \in Nat
        /\ Moments(rewind) \in Seq(MachinesOf(game))
    BY RewindableIs DEF Inv, Typed
  <2>2. TypeOK
    BY <2>1 DEF Inv, Typed, TypeOK
  <2>3. rewind.differences # <<>> => MemoryUsed(rewind) <= rewind.limit
    <3>1. rewind.newest \in Held /\ rewind.bytes \in Int /\ rewind.limit \in Nat
      BY <2>1, BufferFields DEF Sound
    <3>2. rewind.differences # <<>> => rewind.newest \in Seq(Byte)
      BY <2>1, <3>1 DEF Sound, Held, Snapshots
    <3>3. rewind.differences # <<>> => MemoryUsed(rewind) \in Int
      BY <2>1, <3>1, <3>2, Elements DEF MemoryUsed, Sound
    <3> QED BY <2>1, <3>1, <3>3 DEF TooMuch
  <2>4. BudgetKept
    BY <2>1, <2>3 DEF BudgetKept, Sound, Sizes
  <2> QED BY <2>2, <2>4 DEF MomentsKept
<1> QED BY Always, <1>1, PTL

\* Loading a whole state of this game gives the machine that was saved; a damaged or
\* foreign one, undone from the copy, leaves the machine there is.
THEOREM LoadsWholeOrNot == Spec => LoadedWholeOrNot
<1>1. ASSUME Inv, NEW s \in Slots, LoadStateSlot(s)
      PROVE  machine' = IF OwnAndWhole(slots[<<game, s>>]) THEN slots[<<game, s>>].machine ELSE machine
  <2>1. game \in Games /\ machine \in MachinesOf(game)
    BY <1>1 DEF LoadStateSlot, Inv, Typed
  <2>2. /\ slots[<<game, s>>] # NoFile
        /\ machine' = AfterLoad(machine, game, slots[<<game, s>>]).machine
    BY <1>1 DEF LoadStateSlot
  <2>3. slots[<<game, s>>] \in SlotFiles(game)
    BY <1>1, <2>1 DEF Inv, FilesSound
  <2> QED BY <2>1, <2>2, <2>3, LoadGives DEF OwnAndWhole
<1>2. Inv /\ [Next]_vars =>
        (\A s \in Slots : LoadStateSlot(s) =>
           LET file == slots[<<game, s>>]
           IN  machine' = IF OwnAndWhole(file) THEN file.machine ELSE machine)
  BY <1>1
<1> QED BY Always, <1>2, PTL DEF Spec, LoadedWholeOrNot

\* Rewinding is a history: whatever is pushed, evicted, resized or cleared in between,
\* what comes back is the newest moment kept, exactly.
THEOREM RewindIsHistory == Spec => ImplementsHistory
<1>1. Init => PastOf!Init
  <2> SUFFICES ASSUME Init PROVE Moments(rewind) = <<>>
    BY DEF PastOf!Init
  <2>1. PICK limit \in Limits : rewind = EmptyBuffer(limit)
    BY DEF Init
  <2>2. limit \in Nat /\ rewind = Cleared(rewind) /\ rewind.limit = limit
    BY <2>1, SessionConstants DEF EmptyBuffer, Cleared
  <2>3. rewind.limit \in Nat
    BY <2>2
  <2> QED BY <2>2, <2>3, ClearedIs
<1>2. Inv /\ [Next]_vars => [PastOf!Next]_(PastOf!vars)
  <2> SUFFICES ASSUME Inv, [Next]_vars PROVE PastOf!Next
    OBVIOUS
  <2>1. CASE Continued
    <3>1. PastOf!Suffixes(Moments(rewind)) = Suffixes(Moments(rewind))
      BY DEF PastOf!Suffixes, Suffixes
    <3>2. PastOf!Suffixes(Append(Moments(rewind), machine')) = Suffixes(Append(Moments(rewind), machine'))
      BY DEF PastOf!Suffixes, Suffixes
    <3> QED BY <2>1, <3>1, <3>2 DEF Continued, PastOf!Next, PastOf!Live
  <2>2. CASE Recalled
    BY <2>2 DEF Recalled, PastOf!Next, PastOf!Recall, PastOf!Front, PastOf!Last, Front, Last
  <2> QED BY <2>1, <2>2, NextStep
<1> QED BY Always, <1>1, <1>2, PTL DEF Spec, ImplementsHistory, PastOf!Spec
=============================================================================
