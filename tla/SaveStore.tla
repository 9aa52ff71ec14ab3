------------------------------- MODULE SaveStore -------------------------------
(***************************************************************************)
(* What battery saves promise: the file of a game holds, at every moment   *)
(* and after any crash, one whole content its save chip has had.  Saving   *)
(* is one step that makes the file of the running game equal to the chip;  *)
(* nothing else writes a file.                                             *)
(***************************************************************************)
CONSTANTS Games, NoGame, Missing,
          Contents,       \* what a chip can hold
          Blank           \* what it holds when no file fills it

VARIABLES game,   \* the game that is loaded
          data,   \* the content of its save chip
          sav     \* the file of each game

vars == <<game, data, sav>>

Init ==
  /\ game = NoGame
  /\ data \in Blank
  /\ sav = [g \in Games |-> Missing]

Change ==
  /\ game # NoGame
  /\ data' \in Contents
  /\ UNCHANGED <<game, sav>>

Persist ==
  /\ game # NoGame
  /\ sav' = [sav EXCEPT ![game] = data]
  /\ UNCHANGED <<game, data>>

\* A game starts with what its own file holds, or with nothing.
Open(g) ==
  /\ game' = g
  /\ data' \in Blank \cup ({sav[g]} \cap Contents)
  /\ UNCHANGED sav

\* The game is closed, or the process dies.
Close ==
  /\ game' = NoGame
  /\ data' \in Blank
  /\ UNCHANGED sav

Next == Change \/ Persist \/ (\E g \in Games : Open(g)) \/ Close

Spec == Init /\ [][Next]_vars
=============================================================================
