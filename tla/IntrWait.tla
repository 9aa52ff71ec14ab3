------------------------------- MODULE IntrWait -------------------------------
(***************************************************************************)
(* The IntrWait routine of the built-in system ROM                         *)
(* (src/core/system_bios.cpp, 0x38 to 0x9C) and the interrupts that cut    *)
(* into it.  The game calls it to sleep until its own interrupt handler    *)
(* has recorded one of the interrupts it wants in the BIOS flags at        *)
(* 0x03007FF8.  A step is one instruction, or a run of them that touches   *)
(* nothing shared; an interrupt is taken between two steps whenever CPSR.I *)
(* allows it (Emulator::service_interrupts).                               *)
(***************************************************************************)
EXTENDS FiniteSets

CONSTANTS Kinds,      \* the interrupts enabled in IE
          Wishes,     \* the sets of them that programs wait for
          Recurring   \* the interrupts that come again and again, like VBlank

ASSUME IntrWaitAssumption ==
  /\ Wishes \subseteq SUBSET Kinds /\ {} \notin Wishes
  /\ Recurring \subseteq Kinds

VARIABLES pc,            \* the address of the next instruction, or "caller"
          irq_disabled,  \* CPSR.I
          halted,
          iflag,         \* IF
          flags,         \* the BIOS flags
          discard,       \* r0 of the call
          wanted,        \* r1 of the call
          loaded,        \* r2, the flags read at 0x5C
          got,           \* r0 on return
          recorded       \* what the handler recorded since the call (history)

call == <<discard, wanted>>
waitVars == <<pc, irq_disabled, halted, iflag, flags, call, loaded, got, recorded>>

Labels == {"caller", "0x38", "0x50", "0x54", "0x64", "0x6C", "0x70", "0x74", "0x84", "0x8C"}

WaitInit ==
  /\ pc = "caller"
  /\ irq_disabled = FALSE /\ halted = FALSE
  /\ iflag = {} /\ flags = {}
  /\ discard = FALSE /\ wanted = {}
  /\ loaded = {} /\ got = {} /\ recorded = {}

-----------------------------------------------------------------------------
(***************************************************************************)
(* The hardware requests an interrupt.  An enabled request ends HALT.      *)
(***************************************************************************)
Raise(kind) ==
  /\ kind \notin iflag
  /\ iflag' = iflag \cup {kind}
  /\ halted' = FALSE
  /\ UNCHANGED <<pc, irq_disabled, flags, call, loaded, got, recorded>>

(***************************************************************************)
(* The dispatcher at 0x18 and the game's handler, which runs with          *)
(* interrupts off: it acknowledges IF and records it in the BIOS flags.    *)
(***************************************************************************)
TakesIrq == iflag # {} /\ ~irq_disabled

Interrupt ==
  /\ TakesIrq
  /\ flags' = flags \cup iflag
  /\ recorded' = recorded \cup iflag
  /\ iflag' = {}
  /\ UNCHANGED <<pc, irq_disabled, halted, call, loaded, got>>

-----------------------------------------------------------------------------
Step(from, to) ==
  /\ pc = from
  /\ ~halted /\ ~TakesIrq
  /\ pc' = to
  /\ UNCHANGED iflag

\* SWI: an exception, so interrupts are off.
Call ==
  /\ Step("caller", "0x38")
  /\ discard' \in BOOLEAN
  /\ wanted' \in Wishes
  /\ irq_disabled' = TRUE
  /\ recorded' = {} /\ got' = {} /\ loaded' = {}
  /\ UNCHANGED <<halted, flags>>

\* 0x38 - 0x4C: the caller's registers go on the stack, IME = 1.
Enter ==
  /\ Step("0x38", "0x50")
  /\ UNCHANGED <<irq_disabled, halted, flags, call, loaded, got, recorded>>

\* Mutant: System mode with interrupts still off.
OpenMasked ==
  /\ Step("0x50", IF discard THEN "0x54" ELSE "0x6C")
  /\ UNCHANGED <<irq_disabled, halted, flags, call, loaded, got, recorded>>

\* 0x50: System mode, interrupts on.
Open ==
  /\ Step("0x50", IF discard THEN "0x54" ELSE "0x6C")
  /\ irq_disabled' = FALSE
  /\ UNCHANGED <<halted, flags, call, loaded, got, recorded>>

\* 0x5C: the old flags are read ...
ReadOld ==
  /\ Step("0x54", "0x64")
  /\ loaded' = flags
  /\ UNCHANGED <<irq_disabled, halted, flags, call, got, recorded>>

\* Mutant: nothing is taken out of the old flags.
WriteOldUncleared ==
  /\ Step("0x64", "0x6C")
  /\ flags' = loaded
  /\ UNCHANGED <<irq_disabled, halted, call, loaded, got, recorded>>

\* 0x60, 0x64: ... and written back without the wanted ones.
WriteOld ==
  /\ Step("0x64", "0x6C")
  /\ flags' = loaded \ wanted
  /\ UNCHANGED <<irq_disabled, halted, call, loaded, got, recorded>>

\* 0x6C: HALTCNT.  A request that is already pending keeps the CPU awake.
Halt ==
  /\ Step("0x6C", "0x70")
  /\ halted' = (iflag = {})
  /\ UNCHANGED <<irq_disabled, flags, call, loaded, got, recorded>>

\* 0x70: interrupts off while checking.
Mask ==
  /\ Step("0x70", "0x74")
  /\ irq_disabled' = TRUE
  /\ UNCHANGED <<halted, flags, call, loaded, got, recorded>>

\* 0x74 - 0x80: the wanted flags that are set are acknowledged.
Check ==
  /\ Step("0x74", IF flags \cap wanted = {} THEN "0x84" ELSE "0x8C")
  /\ got' = flags \cap wanted
  /\ flags' = flags \ wanted
  /\ UNCHANGED <<irq_disabled, halted, call, loaded, recorded>>

\* Mutant: the next halt comes with interrupts off.
RetryMasked ==
  /\ Step("0x84", "0x6C")
  /\ UNCHANGED <<irq_disabled, halted, flags, call, loaded, got, recorded>>

\* 0x84, 0x88: none; interrupts on, and halt again.
Retry ==
  /\ Step("0x84", "0x6C")
  /\ irq_disabled' = FALSE
  /\ UNCHANGED <<halted, flags, call, loaded, got, recorded>>

\* 0x8C - 0x9C: back to the caller and its CPSR.
Return ==
  /\ Step("0x8C", "caller")
  /\ irq_disabled' = FALSE
  /\ UNCHANGED <<halted, flags, call, loaded, got, recorded>>

Routine == Enter \/ Open \/ ReadOld \/ WriteOld \/ Halt \/ Mask \/ Check \/ Retry \/ Return

WaitNext == Call \/ Routine \/ Interrupt \/ \E kind \in Kinds : Raise(kind)

(***************************************************************************)
(* The emulator keeps executing instructions and taking interrupts; the    *)
(* recurring interrupts keep coming; and no interrupt comes so fast that   *)
(* its handler is all that ever runs, which is why the routine's steps,    *)
(* disabled each time an interrupt is to be taken, are strongly fair.      *)
(***************************************************************************)
WaitSpec ==
  /\ WaitInit /\ [][WaitNext]_waitVars
  /\ SF_waitVars(Routine) /\ WF_waitVars(Interrupt)
  /\ \A kind \in Recurring : WF_waitVars(Raise(kind))

-----------------------------------------------------------------------------
(***************************************************************************)
(* The types of the registers and flags the routine uses.                  *)
(***************************************************************************)
WaitTypeOK ==
  /\ pc \in Labels
  /\ irq_disabled \in BOOLEAN /\ halted \in BOOLEAN /\ discard \in BOOLEAN
  /\ iflag \subseteq Kinds /\ flags \subseteq Kinds
  /\ wanted \in Wishes \cup {{}}
  /\ loaded \subseteq Kinds /\ got \subseteq Kinds /\ recorded \subseteq Kinds

(***************************************************************************)
(* The wait ends for a reason: it returns with a nonempty part of what was *)
(* asked for, and when old flags were to be discarded, with interrupts the *)
(* handler recorded after the call and not before.                         *)
(***************************************************************************)
ReturnsForCause ==
  pc = "0x8C" =>
    /\ got # {} /\ got \subseteq wanted
    /\ discard => got \subseteq recorded

(***************************************************************************)
(* The routine never sleeps where no interrupt could be handled: while it  *)
(* is halted interrupts are on and none is pending, so the next request    *)
(* reaches the handler before the flags are looked at again.               *)
(***************************************************************************)
SleepsInterruptible == halted => ~irq_disabled /\ iflag = {} /\ pc = "0x70"

(***************************************************************************)
(* A wait for an interrupt that keeps coming returns, whatever other       *)
(* interrupts come between: a wake-up for the wrong reason halts again, an *)
(* interrupt that slips in between a check and the next halt costs one     *)
(* period and no more.                                                     *)
(***************************************************************************)
RecurringWaitEnds ==
  (pc # "caller" /\ wanted \cap Recurring # {}) ~> pc = "caller"

=============================================================================
