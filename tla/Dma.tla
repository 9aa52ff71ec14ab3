---------------------------------- MODULE Dma ----------------------------------
(***************************************************************************)
(* The four DMA channels (src/core/dma.cpp), unit by unit, and the Direct  *)
(* Sound FIFOs they refill (src/core/apu.cpp).  A transfer can write the   *)
(* registers of DMA channels while it runs, which starts other transfers   *)
(* inside it: `running' is the stack of those that are not finished, the   *)
(* innermost first.  `todo' is what the caller has left to look at         *)
(* once the stack is empty: the rest of the channels of a trigger, or the  *)
(* FIFOs that want a refill.                                               *)
(*                                                                         *)
(* What is moved is left out.  A unit written to a register carries any    *)
(* value of the program's choice; one written to a FIFO is the next        *)
(* sample; one written to memory changes nothing here.                     *)
(***************************************************************************)
EXTENDS Fifo, FiniteSetsExt

CONSTANTS
  Channels,      \* the channels the program uses, of 0 .. 3
  Space,         \* addresses are 0 .. Space - 1 and wrap
  TargetAt,      \* what a unit written to an address reaches
  FifoAddress,   \* the address of each FIFO
  Setups,        \* the registers the program writes: <<channel, registers>>
  Controls,      \* the controls it writes: <<channel, control>>
  SelfWrites,    \* whether a transfer may change the control of one that is not finished
  RefillUnits,   \* units of a FIFO transfer: 4
  StartCycles, UnitCycles,
  MaxDepth,      \* bound: transfers inside transfers
  MaxSteps       \* bound: what the CPU and the events do

Address == 0 .. Space - 1
FifoIds == DOMAIN FifoAddress
Timings == {"Immediate", "VBlank", "HBlank", "Special"}
Steps   == [Increment |-> 1, IncrementReload |-> 1, Decrement |-> Space - 1, Fixed |-> 0]
Control == [enabled : BOOLEAN, timing : Timings, repeat : BOOLEAN, irq : BOOLEAN,
            toward : DOMAIN Steps]
Registers == [source : Address, destination : Address, count : Nat \ {0}]

ASSUME DmaAssumption ==
  /\ Channels \subseteq 0 .. 3
  /\ Space \in Nat \ {0} /\ FifoIds \subseteq 1 .. 2 /\ FifoAddress \in [FifoIds -> Address]
  /\ \A f \in FifoIds : TargetAt[FifoAddress[f]] = [kind |-> "fifo", id |-> f]
  /\ Setups \subseteq Channels \X Registers /\ Controls \subseteq Channels \X Control
  /\ RefillUnits \in Nat \ {0}
  /\ FifoDepth \div 2 <= RefillUnits /\ RefillUnits <= FifoDepth - FifoDepth \div 2
  /\ StartCycles \in Nat /\ UnitCycles \in Nat

VARIABLES
  registers, control,   \* per channel: what the program wrote
  internal,             \* per channel: where the next transfer starts
  running, todo,
  stall,                \* stall_cycles_
  iflag,                \* channels whose interrupt has been requested
  sound_on,             \* SOUNDCNT_X: sound is on
  fifo,                 \* the FIFOs
  queue,                \* history: each FIFO as a queue
  debt,                 \* history: cycles of every unit moved since the stall was taken
  reached,              \* history: per channel, the source after its last unit
  fed,                  \* history: FIFOs whose last request found a channel
  steps

programmed == <<registers, control, internal>>
direct     == <<sound_on, fifo, queue, fed>>
vars == <<programmed, running, todo, stall, iflag, direct, debt, reached, steps>>

Idle == running = <<>> /\ todo = <<>>
Off  == [enabled |-> FALSE, timing |-> "Immediate", repeat |-> FALSE, irq |-> FALSE,
         toward |-> "Increment"]
Unset == [source |-> 0, destination |-> 0, count |-> 1]

Init ==
  /\ registers = [c \in Channels |-> Unset] /\ control = [c \in Channels |-> Off]
  /\ internal = registers
  /\ running = <<>> /\ todo = <<>> /\ stall = 0 /\ iflag = {}
  /\ sound_on = TRUE
  /\ \E s \in Samples : fifo = [f \in FifoIds |-> EmptyFifo(s)]
  /\ queue = [f \in FifoIds |-> <<>>] /\ fed = {}
  /\ debt = 0 /\ reached = [c \in Channels |-> 0]
  /\ steps = 0

-----------------------------------------------------------------------------
(* run() *)

SoundFifo(c) == control[c].timing = "Special" /\ c \in {1, 2}

\* What run() keeps in local variables, and does not read again.
Transfer(c, at, toward, units, refill) ==
  [channel |-> c, source |-> at.source, destination |-> at.destination,
   toward |-> toward, left |-> units, cycles |-> StartCycles, refill |-> refill]

Run(c) ==
  /\ running' = << IF SoundFifo(c) THEN Transfer(c, internal[c], "Fixed", RefillUnits, TRUE)
                   ELSE Transfer(c, internal[c], control[c].toward, internal[c].count, FALSE) >>
  /\ debt' = debt + StartCycles

\* Mutant: every write of an enabled control latches.
EnablesAlways(c, new) == new.enabled

Enables(c, new) == ~control[c].enabled /\ new.enabled

\* A control is written, by the CPU or by the transfer on top of `outer'.
\* The enable edge latches, and starts an immediate transfer at once.
WriteControl(c, new, outer, cost, reach) ==
  /\ control' = [control EXCEPT ![c] = new]
  /\ IF Enables(c, new)
     THEN internal' = [internal EXCEPT ![c] = registers[c]]
     ELSE UNCHANGED internal
  /\ reached' = IF ~control[c].enabled /\ new.enabled
                THEN [reach EXCEPT ![c] = registers[c].source] ELSE reach
  /\ IF Enables(c, new) /\ new.timing = "Immediate"
     THEN /\ running' = <<Transfer(c, registers[c], new.toward, registers[c].count, FALSE)>>
                           \o outer
          /\ debt' = debt + cost + StartCycles
     ELSE running' = outer /\ debt' = debt + cost

Unfinished(c) == \E i \in 1 .. Len(running) : running[i].channel = c

\* The controls a transfer may write: the one of an unfinished transfer only as it is.
Writable(c) ==
  IF Unfinished(c) /\ ~SelfWrites THEN {control[c]} ELSE {w[2] : w \in {x \in Controls : x[1] = c}}

\* One unit of the innermost transfer, and what it reaches.
Unit ==
  /\ running # <<>> /\ running[1].left > 0
  /\ LET t     == running[1]
         rest  == <<[t EXCEPT !.source = (@ + 1) % Space,
                              !.destination = (@ + Steps[t.toward]) % Space,
                              !.left = @ - 1, !.cycles = @ + UnitCycles]>> \o Tail(running)
         reach == [reached EXCEPT ![t.channel] = (t.source + 1) % Space]
         what  == TargetAt[t.destination]
     IN  \/ /\ what.kind \in {"memory", "fifo"}
            /\ running' = rest /\ debt' = debt + UnitCycles /\ reached' = reach
            /\ IF what.kind = "memory" THEN UNCHANGED <<fifo, queue>>
               ELSE \E s \in Samples :
                 /\ fifo' = [fifo EXCEPT ![what.id] = Pushed(@, s)]
                 /\ queue' = [queue EXCEPT ![what.id] =
                                IF Len(@) < FifoDepth THEN Append(@, s) ELSE @]
            /\ UNCHANGED <<control, internal>>
         \/ /\ what.kind = "control" /\ Len(running) < MaxDepth
            /\ \E new \in Writable(what.id) :
                 WriteControl(what.id, new, rest, UnitCycles, reach)
            /\ UNCHANGED <<fifo, queue>>
  /\ UNCHANGED <<registers, todo, stall, iflag, sound_on, fed, steps>>

\* Mutant: the stall of a transfer replaces what was there.
StallWithOnly(cycles) == cycles

StallWith(cycles) == stall + cycles

\* After the last unit: write back, reload for a repeat or switch off, interrupt.
Finish ==
  /\ running # <<>> /\ running[1].left = 0
  /\ LET t  == running[1]
         c  == t.channel
         on == control[c].repeat /\ control[c].timing # "Immediate"
     IN  /\ running' = Tail(running)
         /\ stall' = StallWith(t.cycles)
         /\ internal' = [internal EXCEPT ![c] =
              [source |-> t.source,
               destination |-> IF on /\ t.toward = "IncrementReload"
                               THEN registers[c].destination ELSE t.destination,
               count |-> IF on THEN registers[c].count ELSE @.count]]
         /\ control' = IF on THEN control ELSE [control EXCEPT ![c].enabled = FALSE]
         /\ iflag' = IF control[c].irq THEN iflag \cup {c} ELSE iflag
  /\ UNCHANGED <<registers, todo, direct, debt, reached, steps>>

-----------------------------------------------------------------------------
(* The callers.  A step of the CPU or of an event counts. *)

\* The members of a set in their order, which is that of priority.
Ascending(S) ==
  {s \in [1 .. Cardinality(S) -> S] :
     \A i, j \in 1 .. Cardinality(S) : i < j => s[i] < s[j]}

Outside == Idle /\ steps < MaxSteps /\ steps' = steps + 1

WriteRegisters ==
  /\ Outside
  /\ \E s \in Setups : registers' = [registers EXCEPT ![s[1]] = s[2]]
  /\ UNCHANGED <<control, internal, running, todo, stall, iflag, direct, debt, reached>>

WriteEnable ==
  /\ Outside
  /\ \E w \in Controls : WriteControl(w[1], w[2], <<>>, 0, reached)
  /\ UNCHANGED <<registers, todo, stall, iflag, direct>>

\* trigger(): the channels are looked at in order of priority, each when the
\* transfers of those before it are over.
Trigger ==
  /\ Outside
  /\ \E timing \in {"VBlank", "HBlank"}, order \in Ascending(Channels) :
       todo' = [i \in DOMAIN order |-> [channel |-> order[i], timing |-> timing]]
  /\ UNCHANGED <<programmed, running, stall, iflag, direct, debt, reached>>

\* on_timer_overflow(): the FIFOs of the timers that overflowed play a sample
\* each, and then those that are half empty ask for more.
Overflow ==
  /\ Outside /\ sound_on
  /\ \E clocked \in SUBSET FifoIds \ {{}} :
       /\ fifo' = [f \in FifoIds |-> IF f \in clocked THEN Popped(fifo[f]) ELSE fifo[f]]
       /\ queue' = [f \in FifoIds |-> IF f \in clocked /\ queue[f] # <<>>
                                      THEN Tail(queue[f]) ELSE queue[f]]
       /\ \E order \in Ascending({f \in clocked : WantsRefill(fifo'[f])}) :
            todo' = [i \in DOMAIN order |-> [fifo |-> order[i]]]
  /\ UNCHANGED <<programmed, running, stall, iflag, sound_on, fed, debt, reached>>

Refillers(f) ==
  {c \in Channels \cap {1, 2} : /\ control[c].enabled /\ control[c].timing = "Special"
                                /\ internal[c].destination = FifoAddress[f]}

LookAt ==
  /\ running = <<>> /\ todo # <<>>
  /\ todo' = Tail(todo)
  /\ LET next == Head(todo) IN
     IF "fifo" \in DOMAIN next
     THEN IF Refillers(next.fifo) # {}
          THEN Run(Min(Refillers(next.fifo))) /\ fed' = fed \cup {next.fifo}
          ELSE UNCHANGED <<running, debt>> /\ fed' = fed \ {next.fifo}
     ELSE /\ IF control[next.channel].enabled /\ control[next.channel].timing = next.timing
             THEN Run(next.channel) ELSE UNCHANGED <<running, debt>>
          /\ UNCHANGED fed
  /\ UNCHANGED <<programmed, stall, iflag, sound_on, fifo, queue, reached, steps>>

\* take_stall_cycles(): the emulator pays for the transfers.
TakeStall ==
  /\ Idle /\ stall > 0 /\ stall' = 0 /\ debt' = 0
  /\ UNCHANGED <<programmed, running, todo, iflag, direct, reached, steps>>

\* SOUNDCNT_H clears FIFOs, SOUNDCNT_X turns sound off and on.
ClearFifo ==
  /\ Outside
  /\ \E f \in FifoIds :
       /\ fifo' = [fifo EXCEPT ![f] = Cleared(@)] /\ queue' = [queue EXCEPT ![f] = <<>>]
       /\ fed' = fed \ {f}
  /\ UNCHANGED <<programmed, running, todo, stall, iflag, sound_on, debt, reached>>

SwitchSound ==
  /\ Outside /\ sound_on' = ~sound_on
  /\ UNCHANGED <<programmed, running, todo, stall, iflag, fifo, queue, fed, debt, reached>>

Next ==
  \/ Unit \/ Finish \/ LookAt \/ TakeStall
  \/ WriteRegisters \/ WriteEnable \/ Trigger \/ Overflow \/ ClearFifo \/ SwitchSound

\* run(), trigger() and the requests are calls: they go on until they return.
DmaFairness == WF_vars(Unit \/ Finish \/ LookAt)

Spec == Init /\ [][Next]_vars /\ DmaFairness

-----------------------------------------------------------------------------

\* Everything has its type; without a transfer that restarts an unfinished
\* one, transfers nest at most as deep as there are channels.
TypeOK ==
  /\ registers \in [Channels -> Registers] /\ internal \in [Channels -> Registers]
  /\ control \in [Channels -> Control]
  /\ ~SelfWrites => Len(running) <= Cardinality(Channels)
  /\ stall \in Nat /\ iflag \subseteq Channels /\ fed \subseteq FifoIds
  /\ fifo \in [FifoIds -> FifoRecords]

\* Cycles are paid once: what the emulator will take is the cost of every
\* unit moved since it last took them, through transfers inside transfers and
\* several channels of one trigger (dma.cpp:217).
PaidInFull == Idle => stall = debt

\* A channel goes on where its last transfer stopped, or from the source
\* latched by its last enable edge: neither registers rewritten while it is
\* armed nor transfers inside its own disturb that (dma.cpp:113, 215).
SourceContinues ==
  \A c \in Channels :
    ~Unfinished(c) => internal[c].source = reached[c]

\* The ring behaves as a queue: samples are played in the order they were
\* written, none twice and none skipped (apu.cpp:163).
RingIsQueue == \A f \in FifoIds : Waiting(fifo[f]) = queue[f]

\* A refill never finds its FIFO full, so no sample of it is lost.
RefillFits ==
  running # <<>> /\ running[1].refill /\ running[1].left > 0 =>
    fifo[TargetAt[running[1].destination].id].size < FifoDepth

\* Once the requests of an overflow are served, a FIFO that a channel feeds
\* is at least half full again: it does not run dry at the next overflows
\* (apu.cpp:539, gba_bus.cpp:444).
StaysFed == Idle => \A f \in fed : fifo[f].size >= FifoDepth \div 2

\* The CPU gets the bus back: what a trigger, a request or a write starts
\* comes to an end, whatever transfers start one another.
BusComesBack == (running # <<>>) ~> Idle

\* A transfer moves what it was set up to move and is paid for, once, though others run
\* inside it, and the nesting stays within the number of channels.
TransfersWhole == TypeOK /\ PaidInFull /\ SourceContinues

\* Sound by DMA: a FIFO neither runs dry, nor overflows, nor loses the order of its samples.
SoundBuffersFeed == RingIsQueue /\ RefillFits /\ StaysFed
=============================================================================
