------------------------------ MODULE MCHardware -------------------------------
(***************************************************************************)
(* The scheduler, the system ROM's wait and the save chips, for TLC.  They *)
(* share no state at this abstraction, so each behaviour exercises one of  *)
(* them and leaves the others as they began.                               *)
(***************************************************************************)
EXTENDS SchedulerUse, IntrWait, Backup

(* The first, the last and a middle event; delays and advances that meet,  *)
(* miss and overrun one another.                                           *)
MCUsers  == {HBlankStart, TimerEvent(0), ApuSequencer}
MCDelays == {0, 2}
MCCycles == {1, 3}

(* Two kinds of interrupt, waited for one at a time or together.           *)
CONSTANTS vblank, timer

MCKinds  == {vblank, timer}
MCWishes == {{vblank}, {timer}, {vblank, timer}}
MCVBlank == {vblank}

(* The command bytes of a flash chip and some stray writes, and EEPROMs of *)
(* two and four blocks.                                                    *)
MCRoms == {<<"code", "FLASH1M_V", "x", "x">>, <<"FLASH_V", "x", "x">>, <<"code", "SRAM_V", "x">>,
           <<"EEPROM_V", "x", "SRAM_V", "x", "x">>, <<"code", "EEPROM_V", "x">>}

MCOffsets == {0, 10922, 10923, 21845}

MCStores == {Unlock1, Unlock2,
             <<21845, 144>>, <<21845, 240>>, <<21845, 128>>, <<21845, 16>>,
             <<21845, 160>>, <<21845, 176>>,
             <<10923, 48>>, <<0, 1>>, <<0, 170>>}

VARIABLE part

hardware == <<useVars, waitVars, vars, part>>

HardwareInit ==
  /\ UseInit /\ WaitInit /\ Init
  /\ part \in {"scheduler", "wait", "chip"}
  /\ part # "chip" => type = "Sram"

HardwareNext ==
  /\ UNCHANGED part
  /\ \/ part = "scheduler" /\ UseNext /\ UNCHANGED <<waitVars, vars>>
     \/ part = "wait" /\ WaitNext /\ UNCHANGED <<useVars, vars>>
     \/ part = "chip" /\ Next /\ UNCHANGED <<useVars, waitVars>>

(* The fairness of WaitSpec, of the behaviours that exercise the wait.      *)
Waiting == part = "wait"

HardwareSpec ==
  /\ HardwareInit /\ [][HardwareNext]_hardware
  /\ SF_waitVars(Waiting /\ Routine) /\ WF_waitVars(Waiting /\ Interrupt)
  /\ \A kind \in Recurring : WF_waitVars(Waiting /\ Raise(kind))
================================================================================
