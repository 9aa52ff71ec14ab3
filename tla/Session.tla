-------------------------------- MODULE Session --------------------------------
(***************************************************************************)
(* A game being played, with save states and rewinding                     *)
(* (src/core/emulator.cpp, driven by src/app/application.cpp).             *)
(*                                                                         *)
(* The machine is a snapshot without the picture: a sequence of bytes, the *)
(* first of which is the frame counter.  It is longer once an EEPROM knows *)
(* its size.  What the game does in a frame is any change of the others.   *)
(***************************************************************************)
EXTENDS Rewind

CONSTANTS
  Games, None,     \* games, and no game
  Slots,           \* state slots
  Contents,        \* Contents[g]: byte sequences game g may have behind the frame counter
  Limits,          \* rewind budgets the settings offer
  Interval,        \* kRewindIntervalFrames
  MaxFrames,       \* bound: the frame counter
  MaxChoices       \* bound: what the user does besides playing

ASSUME SessionAssumption ==
  /\ None \notin Games /\ None \notin {"Running", "Paused"}
  /\ \A g \in Games : Contents[g] # {} /\ Contents[g] \subseteq Seq(Byte)
  /\ 0 .. MaxFrames + 1 \subseteq Byte /\ Limits \subseteq Nat
  /\ Interval \in Nat \ {0} /\ MaxFrames \in Nat /\ MaxChoices \in Nat

VARIABLES
  game,        \* the loaded game, or None
  state,       \* RunState
  machine,     \* what serialize(false) writes
  rewind,      \* rewind_
  enabled,     \* rewind_enabled_
  held,        \* the rewind key
  stepping,    \* None, or the RunState rewind_step() will put back
  slots,       \* slot files of each game
  choices

vars == <<game, state, machine, rewind, enabled, held, stepping, slots, choices>>

NoFile   == [game |-> None, damaged |-> FALSE, machine |-> <<>>]
NoMachine == <<0>>

\* A frame counter, and the bytes behind it.
Snapshot(f, c) == [i \in 1 .. Len(c) + 1 |-> IF i = 1 THEN f ELSE c[i - 1]]

MachinesOf(g) ==
  IF g = None THEN {NoMachine} ELSE {Snapshot(f, c) : f \in 0 .. MaxFrames + 1, c \in Contents[g]}
Fresh(g) ==
  CHOOSE m \in MachinesOf(g) : m[1] = 0 /\ \A c \in Contents[g] : Len(m) <= Len(c) + 1

Init ==
  /\ game = None /\ state = "Empty" /\ machine = NoMachine
  /\ \E limit \in Limits : rewind = EmptyBuffer(limit)
  /\ enabled = TRUE /\ held = FALSE /\ stepping = None
  /\ slots = [place \in Games \X Slots |-> NoFile]
  /\ choices = 0

Choose ==
  /\ choices < MaxChoices /\ choices' = choices + 1
  /\ stepping = None

-----------------------------------------------------------------------------
(* Frames.                                                                 *)

\* run_frame() remembers every other frame, but not the one rewind_step() shows.
Captures(m) == enabled /\ stepping = None /\ m[1] % Interval = 0

\* The frame ends.
FrameEnds(m) ==
  /\ machine' = m
  /\ rewind' = IF Captures(m) THEN Pushed(rewind, m) ELSE rewind

\* Sizes only grow: a chip that knows its size keeps it.
NextMachines ==
  {Snapshot(machine[1] + 1, c) : c \in {c \in Contents[game] : Len(c) + 1 >= Len(machine)}}

\* The application runs frames while the rewind key is up.
RunFrame ==
  /\ state = "Running" /\ ~held /\ stepping = None /\ machine[1] < MaxFrames
  /\ \E m \in NextMachines : FrameEnds(m)
  /\ UNCHANGED <<game, state, enabled, held, stepping, slots, choices>>

\* advance_frame(): one frame, then paused again.
AdvanceFrame ==
  /\ Choose /\ state = "Paused" /\ ~held /\ machine[1] < MaxFrames
  /\ \E m \in NextMachines : FrameEnds(m)
  /\ UNCHANGED <<game, state, enabled, held, stepping, slots>>

\* An instruction that cannot be decoded pauses the machine within a frame.
Fault ==
  /\ Choose /\ state = "Running" /\ ~held
  /\ state' = "Paused"
  /\ \E m \in NextMachines : machine' = [m EXCEPT ![1] = machine[1]]
  /\ UNCHANGED <<game, rewind, enabled, held, stepping, slots>>

SetPaused ==
  /\ Choose /\ game # None
  /\ \E s \in {"Paused", "Running"} : state' = s
  /\ UNCHANGED <<game, machine, rewind, enabled, held, stepping, slots>>

-----------------------------------------------------------------------------
(* Save states.                                                            *)

\* What is in memory after deserialize(), with its result.  A file that turns out
\* damaged has changed the first components it holds.
Deserialized(m, g, file) ==
  IF file.game # g THEN [ok |-> FALSE, machine |-> m]
  ELSE IF file.damaged THEN [ok |-> FALSE, machine |-> [file.machine EXCEPT ![1] = m[1]]]
  ELSE [ok |-> TRUE, machine |-> file.machine]

Serialized(m, g) == [game |-> g, damaged |-> FALSE, machine |-> m]

\* Mutant: nothing puts the machine back.
AfterLoadHalf(m, g, file) == Deserialized(m, g, file)

\* load_state(): a state that fails part-way is undone from a copy.
AfterLoad(m, g, file) ==
  LET first == Deserialized(m, g, file)
  IN  IF first.ok THEN first
      ELSE [first EXCEPT !.machine = Deserialized(first.machine, g, Serialized(m, g)).machine]

SaveStateSlot ==
  /\ Choose /\ game # None
  /\ \E s \in Slots : slots' = [slots EXCEPT ![<<game, s>>] = Serialized(machine, game)]
  /\ UNCHANGED <<game, state, machine, rewind, enabled, held, stepping>>

LoadStateSlot(s) ==
  /\ Choose /\ game # None
  /\ LET file == slots[<<game, s>>]
     IN  file # NoFile /\ machine' = AfterLoad(machine, game, file).machine
  /\ UNCHANGED <<game, state, rewind, enabled, held, stepping, slots>>

\* Files change outside the program: they are damaged, or another game's.
FileChanges ==
  /\ Choose
  /\ \E g \in Games, s \in Slots :
       /\ slots[<<g, s>>] # NoFile
       /\ \E damaged \in BOOLEAN, h \in Games :
            slots' = [slots EXCEPT ![<<g, s>>] = [@ EXCEPT !.damaged = damaged, !.game = h]]
  /\ UNCHANGED <<game, state, machine, rewind, enabled, held, stepping>>

-----------------------------------------------------------------------------
(* Rewinding.                                                              *)

PressRewind ==
  /\ Choose /\ game # None /\ enabled /\ ~held /\ held' = TRUE
  /\ UNCHANGED <<game, state, machine, rewind, enabled, stepping, slots>>

ReleaseRewind ==
  /\ Choose /\ held /\ held' = FALSE
  /\ UNCHANGED <<game, state, machine, rewind, enabled, stepping, slots>>

\* rewind_step() takes the newest snapshot back ...
RewindStep ==
  /\ held /\ stepping = None /\ game # None /\ enabled /\ rewind.newest # Never
  /\ LET result == Deserialized(machine, game, Serialized(rewind.newest, game))
     IN  machine' = result.machine
  /\ rewind' = Popped(rewind)
  /\ stepping' = state /\ state' = "Running"
  /\ UNCHANGED <<game, enabled, held, slots, choices>>

\* ... and runs a frame to show it.  A fault in it leaves the machine paused.
ShowRestored ==
  /\ stepping # None /\ stepping' = None
  /\ \/ /\ \E m \in NextMachines : FrameEnds(m)
        /\ state' = stepping
     \/ /\ state' = "Paused"
        /\ \E m \in NextMachines : machine' = [m EXCEPT ![1] = machine[1]]
        /\ UNCHANGED rewind
  /\ UNCHANGED <<game, enabled, held, slots, choices>>

\* set_rewind_enabled()
SetRewindEnabled ==
  /\ Choose
  /\ \E on \in BOOLEAN, limit \in Limits :
       /\ enabled' = on /\ held' = (held /\ on)
       /\ LET b == SetMemoryLimit(rewind, limit) IN rewind' = IF on THEN b ELSE Cleared(b)
  /\ UNCHANGED <<game, state, machine, stepping, slots>>

-----------------------------------------------------------------------------
(* Games.                                                                  *)

Forget(b) == Cleared(b)

\* load_rom() and reset() both end in reset_machine().
Restart(g) ==
  /\ game' = g /\ state' = "Running" /\ machine' = Fresh(g)
  /\ rewind' = Forget(rewind)

LoadRom ==
  /\ Choose
  /\ \E g \in Games : Restart(g)
  /\ UNCHANGED <<enabled, held, stepping, slots>>

ResetMachine ==
  /\ Choose /\ game # None /\ Restart(game)
  /\ UNCHANGED <<enabled, held, stepping, slots>>

UnloadRom ==
  /\ Choose /\ game # None
  /\ game' = None /\ state' = "Empty" /\ machine' = NoMachine
  /\ rewind' = Cleared(rewind) /\ held' = FALSE
  /\ UNCHANGED <<enabled, stepping, slots>>

Next ==
  \/ RunFrame \/ AdvanceFrame \/ Fault \/ SetPaused
  \/ SaveStateSlot \/ (\E s \in Slots : LoadStateSlot(s)) \/ FileChanges
  \/ PressRewind \/ ReleaseRewind \/ RewindStep \/ ShowRestored \/ SetRewindEnabled
  \/ LoadRom \/ ResetMachine \/ UnloadRom

\* The application keeps stepping while the key is down, and a frame ends.
SessionFairness == WF_vars(RewindStep) /\ WF_vars(ShowRestored)

Spec == Init /\ [][Next]_vars /\ SessionFairness

-----------------------------------------------------------------------------

\* Types; and every moment that rewinding can bring back is one of this game's: none is
\* left from another game, or put together from bytes of two sizes.
TypeOK ==
  /\ game \in Games \cup {None} /\ state \in {"Empty", "Running", "Paused"}
  /\ (state = "Empty") <=> (game = None)
  /\ machine \in MachinesOf(game)
  /\ rewind.limit \in Limits /\ rewind.bytes \in Nat
  /\ Moments(rewind) \in Seq(MachinesOf(game))
  /\ enabled \in BOOLEAN /\ held \in BOOLEAN /\ choices \in 0 .. MaxChoices

\* The size the buffer accounts for is the size of what it holds, and is within the
\* budget whenever anything older than the newest snapshot is kept.
BudgetKept ==
  /\ rewind.bytes = Total([i \in DOMAIN rewind.differences |-> SizeOf(rewind.differences[i])])
  /\ rewind.differences # <<>> => MemoryUsed(rewind) <= rewind.limit

\* "Loading a damaged or foreign state leaves the game untouched" (emulator.hpp): the
\* machine is the one before, though parts of the file were in it; and a whole state of
\* this game, and no other, gives the machine that was saved.
OwnAndWhole(file) == file.game = game /\ ~file.damaged
LoadedWholeOrNot ==
  [][\A s \in Slots : LoadStateSlot(s) =>
       LET file == slots[<<game, s>>]
       IN  machine' = IF OwnAndWhole(file) THEN file.machine ELSE machine]_vars

\* Rewinding is a history: the newest moment comes back exactly, whatever was pushed,
\* evicted, resized or cleared before.
PastOf == INSTANCE History WITH past <- Moments(rewind), present <- machine
ImplementsHistory == PastOf!Spec

\* Holding the key reaches the oldest moment kept: the steps themselves remember
\* nothing.
ReachesOldest == held ~> (rewind.newest = Never \/ ~held)

\* The moments that can be brought back are this game's, within the budget.
MomentsKept == TypeOK /\ BudgetKept
=============================================================================
