-------------------------------- MODULE Agenda --------------------------------
(***************************************************************************)
(* What a scheduler promises its users, with no cache and no array: a      *)
(* clock, a set of appointments with at most one per event, and the answer *)
(* of the last call that removes one.  The earliest appointment that has   *)
(* been reached comes out first, ties by event order, and "none" is        *)
(* answered only when nothing is due.                                      *)
(***************************************************************************)
EXTENDS Integers

CONSTANTS Events,      \* the kinds of event, numbered by priority
          Delays,      \* the delays used by callers
          Cycles,      \* the advances of the clock made by callers
          Horizon      \* bound on the clock

VARIABLES clock,       \* the current time
          agenda,      \* the appointments: pairs <<event, time>>
          fired        \* the answer of the last pop: <<event, time>> or Nothing

vars == <<clock, agenda, fired>>

Nothing == <<>>

Without(e) == {a \in agenda : a[1] # e}

Due == {a \in agenda : a[2] <= clock}

Earlier(a, b) == a[2] < b[2] \/ (a[2] = b[2] /\ a[1] <= b[1])

Init == clock = 0 /\ agenda = {} /\ fired = Nothing

Reset ==
  /\ clock' = 0 /\ agenda' = {}
  /\ UNCHANGED fired

Pass ==
  /\ \E c \in Cycles : clock' = clock + c /\ clock' <= Horizon
  /\ UNCHANGED <<agenda, fired>>

\* Time jumps to the first appointment, and never over one.
Jump ==
  /\ \E a \in agenda :
       /\ \A b \in agenda : a[2] <= b[2]
       /\ a[2] > clock
       /\ a[2] <= Horizon
       /\ clock' = a[2]
  /\ UNCHANGED <<agenda, fired>>

Appoint ==
  /\ \E e \in Events, d \in Delays :
       \E t \in {clock + d} \cup (IF fired = Nothing THEN {} ELSE {fired[2] + d}) :
         agenda' = Without(e) \cup {<<e, t>>}
  /\ UNCHANGED <<clock, fired>>

Drop ==
  /\ \E e \in Events : agenda' = Without(e)
  /\ UNCHANGED <<clock, fired>>

Pop ==
  \/ /\ Due = {}
     /\ fired' = Nothing
     /\ UNCHANGED <<clock, agenda>>
  \/ \E a \in Due :
       /\ \A b \in Due : Earlier(a, b)
       /\ fired' = a
       /\ agenda' = agenda \ {a}
       /\ UNCHANGED clock

Next == Reset \/ Pass \/ Jump \/ Appoint \/ Drop \/ Pop

Spec == Init /\ [][Next]_vars
=============================================================================
