------------------------------- MODULE MCConsole -------------------------------
(***************************************************************************)
(* The processor and the bus for TLC.  They share no state at this         *)
(* abstraction (the processor has a memory of its own), so each behaviour  *)
(* exercises one of them and leaves the other idle.                        *)
(***************************************************************************)
EXTENDS MCProcessor, Bus

Page(top, low) == top * 2 ^ 24 + low
Io(o) == Page(4, o)

MCFamilies ==
  [idle |-> {}, memory |-> {Page(2, 1), Page(2, 262146), Page(3, 3), Page(5, 2), Page(6, 65537), Page(6, 65536 + 32768 + 2), Page(7, 1), Io(0)},
   rom    |-> {Page(8, 131070), Page(8, 131072), Page(10, 131074), Page(13, 131076), Page(14, 1), Io(516)},
   hidden |-> {256, 16384, Page(1, 2), Io(2048), Page(4, 67585), Io(769), Page(8, 131077)},
   keys   |-> {Io(304), Io(306), Io(307)},
   interrupts |-> {Io(512), Io(514), Io(515), Io(520)},
   video  |-> {Io(4), Io(5), Io(6), Io(44), Io(60)}]
MCValues ==
  [idle |-> {}, memory |-> {<<3, 17, 34, 51>>, <<0, 1, 2, 3>>},
   rom    |-> {<<20, 75, 0, 0>>, <<255, 255, 255, 255>>, <<226, 38, 1, 2>>},
   hidden |-> {<<1, 2, 3, 4>>},
   keys   |-> {<<1, 64, 0, 0>>, <<1, 192, 1, 64>>, <<1, 1, 1, 193>>, <<0, 0, 0, 0>>, <<0, 64, 1, 65>>},
   interrupts |-> {<<1, 16, 1, 0>>, <<255, 255, 8, 255>>, <<0, 0, 0, 16>>},
   video  |-> {<<255, 160, 159, 1>>, <<0, 0, 0, 0>>}]
MCLimits == [idle |-> 0, memory |-> 2, rom |-> 2, hidden |-> 2, keys |-> 3, interrupts |-> 3, video |-> 3]
MCRom(o) == o % 251
MCBios(a) == a % 13


console == <<cpuVars, busVars>>

ConsoleInit == CpuInit /\ BusInit /\ (repertoire = "idle") # (family = "idle")
ConsoleNext == (CpuNext /\ UNCHANGED busVars) \/ (BusNext /\ UNCHANGED cpuVars)
ConsoleSpec == ConsoleInit /\ [][ConsoleNext]_console
================================================================================
