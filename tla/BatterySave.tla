------------------------------ MODULE BatterySave ------------------------------
(***************************************************************************)
(* The life of a battery save: the save chip of the game                   *)
(* (src/core/backup.cpp), the emulator that notices that its writes have   *)
(* settled and flushes them (src/core/emulator.cpp), the file replaced     *)
(* through a temporary one (src/core/save_file.cpp), and the save states   *)
(* that carry the chip's content too.  Files outlive the process; the rest *)
(* does not.                                                               *)
(*                                                                         *)
(* A content is a number: 0 for the erased chip, and a new one for each    *)
(* write of the game.  An EEPROM that no transfer has sized yet has no     *)
(* content at all.                                                         *)
(***************************************************************************)
EXTENDS Naturals

CONSTANTS SavedGames, NoGame,
          EepromGames,      \* the games whose chip is an EEPROM
          Missing, Partial, Unsized,
          DelayFrames,      \* kAutosaveDelayFrames
          MaxWrites,        \* bound: writes of the games
          MaxLoads,         \* bound: attempts to load a save state
          MaxFaults,        \* bound: file operations that fail
          MaxCrashes        \* bound: crashes of the process

ASSUME SaveAssumption ==
  /\ NoGame \notin SavedGames /\ EepromGames \subseteq SavedGames
  /\ DelayFrames \in Nat \ {0}
  /\ MaxWrites \in Nat /\ MaxLoads \in Nat /\ MaxFaults \in Nat /\ MaxCrashes \in Nat
  /\ Missing \notin Nat /\ Partial \notin Nat /\ Unsized \notin Nat
  /\ Missing # Partial /\ Missing # Unsized /\ Partial # Unsized

Erased   == 0
ChipContents == 0 .. MaxWrites \cup {Unsized}

VARIABLES loaded,              \* the game that is loaded, or NoGame
          data,                \* the content of its save chip
          generation, dirty,   \* BackupMemory's marks of a write
          observed, quiet,     \* observed_save_generation_, frames_since_save_write_
          save_error,          \* save_error_ is not empty
          sav, tmp,            \* the files "<rom>.sav" and "<rom>.sav.tmp"
          slot,                \* the content kept in a save state of each game
          stage,               \* where flush_save stands
          onward,              \* what its caller does next
          misread,             \* the game's file could not be read when it was loaded
          writes, loads, faults, crashes

chip     == <<data, generation, dirty>>
timer    == <<observed, quiet>>
onDisk   == <<sav, tmp, slot>>
flush    == <<stage, onward>>
budgets  == <<writes, loads, faults, crashes>>
saveVars == <<loaded, chip, timer, save_error, onDisk, flush, misread, budgets>>

Play     == [then |-> "play", game |-> NoGame]
Unload   == [then |-> "unload", game |-> NoGame]
Load(g)  == [then |-> "load", game |-> g]
Exit     == [then |-> "exit", game |-> NoGame]
Callers  == {Play, Unload, Exit} \cup {Load(g) : g \in SavedGames}
Stages   == {"idle", "create", "write", "rename", "done"}

SaveInit ==
  /\ loaded = NoGame
  /\ data = Unsized /\ generation = 0 /\ dirty = FALSE
  /\ observed = 0 /\ quiet = 0 /\ save_error = FALSE
  /\ sav = [g \in SavedGames |-> Missing]
  /\ tmp = [g \in SavedGames |-> Missing]
  /\ slot = [g \in SavedGames |-> Missing]
  /\ stage = "idle" /\ onward = Play /\ misread = FALSE
  /\ writes = 0 /\ loads = 0 /\ faults = 0 /\ crashes = 0

Playing == loaded # NoGame /\ stage = "idle"

-----------------------------------------------------------------------------
(***************************************************************************)
(* The game and its chip, inside a frame.                                  *)
(***************************************************************************)
GameWrites ==
  /\ Playing
  /\ writes < MaxWrites
  /\ writes' = writes + 1
  /\ data' = writes + 1
  /\ generation' = generation + 1 /\ dirty' = TRUE
  /\ UNCHANGED <<loaded, timer, save_error, onDisk, flush, misread, loads, faults, crashes>>

\* The first transfer tells the size of an EEPROM; reading writes nothing.
GameReads ==
  /\ Playing
  /\ data = Unsized
  /\ data' = Erased
  /\ UNCHANGED <<loaded, generation, dirty, timer, save_error, onDisk, flush, misread, budgets>>

SaveState ==
  /\ Playing
  /\ slot' = [slot EXCEPT ![loaded] = data]
  /\ UNCHANGED <<loaded, chip, timer, save_error, sav, tmp, flush, misread, budgets>>

\* Mutant: the chip that a state replaced is not marked.
LoadStateUnmarked ==
  /\ Playing
  /\ slot[loaded] # Missing
  /\ loads < MaxLoads /\ loads' = loads + 1
  /\ data' = slot[loaded]
  /\ generation' = generation + 1
  /\ UNCHANGED <<loaded, dirty, timer, save_error, onDisk, flush, misread, writes, faults, crashes>>

\* load_state, and rewinding, replace the chip's content and mark it written.
LoadState ==
  /\ Playing
  /\ slot[loaded] # Missing
  /\ loads < MaxLoads /\ loads' = loads + 1
  /\ data' = slot[loaded]
  /\ generation' = generation + 1 /\ dirty' = TRUE
  /\ UNCHANGED <<loaded, timer, save_error, onDisk, flush, misread, writes, faults, crashes>>

\* A damaged or foreign state: the machine of before the call is loaded back.
LoadBadState ==
  /\ Playing
  /\ loads < MaxLoads /\ loads' = loads + 1
  /\ generation' = generation + 1 /\ dirty' = TRUE
  /\ UNCHANGED <<loaded, data, timer, save_error, onDisk, flush, misread, writes, faults, crashes>>

-----------------------------------------------------------------------------
(***************************************************************************)
(* flush_save: nothing to do when nothing is dirty; otherwise the content  *)
(* goes into a temporary file that replaces the old one.  Each step can    *)
(* fail, and the caller goes on all the same.                              *)
(***************************************************************************)
Flushing(caller) ==
  /\ onward' = caller
  /\ stage' = IF loaded # NoGame /\ dirty THEN "create" ELSE "done"

\* Mutant: one frame tries, the later ones do not.
FlushDueOnce == dirty /\ quiet + 1 = DelayFrames

\* Frames without a write, counted while a write waits (up to DelayFrames: the
\* code's counter goes on, and is only ever compared with it).
QuietFrames == IF dirty /\ quiet < DelayFrames THEN quiet + 1 ELSE quiet

FlushDue == dirty /\ quiet + 1 >= DelayFrames

\* run_frame ends: update_autosave.
UpdateAutosave ==
  /\ Playing
  /\ IF generation # observed
     THEN /\ observed' = generation /\ quiet' = 0
          /\ UNCHANGED flush
     ELSE /\ quiet' = QuietFrames
          /\ IF FlushDue THEN Flushing(Play) ELSE UNCHANGED flush
          /\ UNCHANGED observed
  /\ UNCHANGED <<loaded, chip, save_error, onDisk, misread, budgets>>

\* Mutant: the new game is set up before the old one is flushed.
LoadRomEarly ==
  /\ stage = "idle"
  /\ \E g \in SavedGames : Flushing(Load(g)) /\ loaded' = g
  /\ UNCHANGED <<chip, timer, save_error, onDisk, misread, budgets>>

FlushToLoad ==
  /\ stage = "idle"
  /\ \E g \in SavedGames : Flushing(Load(g))
  /\ UNCHANGED <<loaded, chip, timer, save_error, onDisk, misread, budgets>>

\* Mutant: no flush.
UnloadRomAtOnce ==
  /\ Playing
  /\ onward' = Unload /\ stage' = "done"
  /\ UNCHANGED <<loaded, chip, timer, save_error, onDisk, misread, budgets>>

FlushToUnload ==
  /\ Playing
  /\ Flushing(Unload)
  /\ UNCHANGED <<loaded, chip, timer, save_error, onDisk, misread, budgets>>

Quit ==
  /\ stage = "idle"
  /\ Flushing(Exit)
  /\ UNCHANGED <<loaded, chip, timer, save_error, onDisk, misread, budgets>>

Succeeds(from, to) ==
  /\ stage = from /\ stage' = to
  /\ UNCHANGED <<loaded, data, generation, timer, slot, onward, misread, budgets>>

Fails(from) ==
  /\ stage = from /\ stage' = "done"
  /\ faults < MaxFaults /\ faults' = faults + 1
  /\ save_error' = TRUE
  /\ UNCHANGED <<loaded, chip, timer, sav, slot, onward, misread, writes, loads, crashes>>

\* Mutant: the file itself is truncated.
CreateInPlace ==
  \/ /\ Succeeds("create", "write")
     /\ sav' = [sav EXCEPT ![loaded] = Partial]
     /\ UNCHANGED <<dirty, save_error, tmp>>
  \/ Fails("create") /\ UNCHANGED tmp

CreateTemporary ==
  \/ /\ Succeeds("create", "write")
     /\ tmp' = [tmp EXCEPT ![loaded] = Partial]
     /\ UNCHANGED <<dirty, save_error, sav>>
  \/ Fails("create") /\ UNCHANGED tmp

WriteTemporary ==
  \/ /\ Succeeds("write", "rename")
     /\ tmp' = [tmp EXCEPT ![loaded] = data]
     /\ UNCHANGED <<dirty, save_error, sav>>
  \/ Fails("write") /\ UNCHANGED tmp

RenameTemporary ==
  \/ /\ Succeeds("rename", "done")
     /\ sav' = [sav EXCEPT ![loaded] = tmp[loaded]]
     /\ tmp' = [tmp EXCEPT ![loaded] = Missing]
     /\ dirty' = FALSE /\ save_error' = FALSE
  \/ Fails("rename") /\ tmp' = [tmp EXCEPT ![loaded] = Missing]

-----------------------------------------------------------------------------
(***************************************************************************)
(* After the flush: configure() gives an erased chip, load() fills it from *)
(* the file, unless there is none, it cannot be read, or it is empty.      *)
(***************************************************************************)
Configured(g) == IF g \in EepromGames THEN Unsized ELSE Erased

StartsClean == generation' = 0 /\ dirty' = FALSE /\ observed' = 0 /\ quiet' = 0

KeepPlaying ==
  /\ stage = "done" /\ onward.then = "play"
  /\ stage' = "idle"
  /\ UNCHANGED <<loaded, chip, timer, save_error, onDisk, onward, misread, budgets>>

FinishLoad ==
  /\ stage = "done" /\ onward.then = "load"
  /\ stage' = "idle" /\ onward' = Play
  /\ loaded' = onward.game
  /\ StartsClean
  /\ \/ /\ data' = IF sav[loaded'] \in {Missing, Unsized} THEN Configured(loaded') ELSE sav[loaded']
        /\ save_error' = (sav[loaded'] = Unsized)
        /\ misread' = FALSE
        /\ UNCHANGED faults
     \/ /\ sav[loaded'] # Missing
        /\ faults < MaxFaults /\ faults' = faults + 1
        /\ data' = Configured(loaded')
        /\ save_error' = FALSE
        /\ misread' = TRUE
  /\ UNCHANGED <<onDisk, writes, loads, crashes>>

NoProcess ==
  /\ loaded' = NoGame /\ data' = Unsized
  /\ StartsClean
  /\ save_error' = FALSE /\ misread' = FALSE
  /\ stage' = "idle" /\ onward' = Play

\* unload_rom leaves the autosave's counters and its last error; load_rom resets them.
FinishUnload ==
  /\ stage = "done" /\ onward.then = "unload"
  /\ loaded' = NoGame /\ data' = Unsized /\ generation' = 0 /\ dirty' = FALSE
  /\ misread' = FALSE
  /\ stage' = "idle" /\ onward' = Play
  /\ UNCHANGED <<timer, save_error, onDisk, budgets>>

FinishExit ==
  /\ stage = "done" /\ onward.then = "exit"
  /\ NoProcess
  /\ UNCHANGED <<onDisk, budgets>>

\* The process dies, wherever it is.
Crash ==
  /\ crashes < MaxCrashes /\ crashes' = crashes + 1
  /\ NoProcess
  /\ UNCHANGED <<onDisk, writes, loads, faults>>

FlushStep == CreateTemporary \/ WriteTemporary \/ RenameTemporary
Resume    == KeepPlaying \/ FinishLoad \/ FinishUnload \/ FinishExit

SaveNext ==
  \/ GameWrites \/ GameReads \/ SaveState \/ LoadState \/ LoadBadState
  \/ UpdateAutosave \/ FlushToLoad \/ FlushToUnload \/ Quit
  \/ FlushStep \/ Resume \/ Crash

(***************************************************************************)
(* Frames keep ending while a game is loaded, and a flush, which is one    *)
(* call, goes on.                                                          *)
(***************************************************************************)
SaveFairness == WF_saveVars(UpdateAutosave) /\ WF_saveVars(FlushStep) /\ WF_saveVars(Resume)

SaveSpec == SaveInit /\ [][SaveNext]_saveVars /\ SaveFairness

-----------------------------------------------------------------------------
(***************************************************************************)
(* Properties.                                                             *)
(***************************************************************************)

\* Every variable stays in its range.
FlagsOK == dirty \in BOOLEAN /\ save_error \in BOOLEAN /\ misread \in BOOLEAN

SaveTypeOK ==
  /\ FlagsOK
  /\ loaded \in SavedGames \cup {NoGame}
  /\ data \in ChipContents
  /\ generation \in Nat /\ observed \in Nat
  /\ quiet \in 0 .. DelayFrames
  /\ sav \in [SavedGames -> ChipContents \cup {Missing, Partial}]
  /\ tmp \in [SavedGames -> ChipContents \cup {Missing, Partial}]
  /\ slot \in [SavedGames -> ChipContents \cup {Missing}]
  /\ stage \in Stages /\ onward \in Callers
  /\ (loaded = NoGame => stage \in {"idle", "done"})
  /\ writes \in 0 .. MaxWrites /\ loads \in 0 .. MaxLoads
  /\ faults \in 0 .. MaxFaults /\ crashes \in 0 .. MaxCrashes

\* A crash or a failed file operation, at any point of a flush, never leaves
\* half a content in a game's save file (write_file_atomically).
SavIntact == \A g \in SavedGames : sav[g] # Partial

\* The dirty mark is the only thing that makes a save reach the disk, so a chip
\* without it holds what the file holds, or is blank beside no file at all.
CleanOnDisk ==
  stage = "idle" /\ loaded # NoGame /\ ~dirty /\ ~misread =>
    \/ data = sav[loaded]
    \/ data \in {Erased, Unsized} /\ sav[loaded] \in {Missing, Unsized}

\* Closing a game, or opening another or the same again, leaves unsaved writes
\* behind only when the flush before it failed: then save_error_ is set.
Leaving ==
  crashes' = crashes /\ (loaded' # loaded \/ (stage = "done" /\ onward.then # "play"))
LeavesNothingUnsaved == [][Leaving /\ dirty => save_error]_saveVars

\* "Keep the previous game's progress" (emulator.cpp:41), and when that fails "see
\* save_error()" (emulator.hpp:56): whoever opens a game finds there that the writes
\* of the game before it were lost.
LossReported == [][FinishLoad /\ dirty => save_error']_saveVars

\* Once a game stops writing, its save reaches the disk without being closed,
\* also when an attempt to write the file failed (update_autosave retries).
Autosaved == dirty ~> (~dirty \/ loaded = NoGame)

\* All this implements the store that replaces whole files in one step, each
\* with the content of the game it belongs to.
Store == INSTANCE SaveStore WITH
  Games <- SavedGames, game <- loaded, Contents <- ChipContents, Blank <- {Erased, Unsized}
ImplementsStore == Store!Spec

=============================================================================
