--------------------------- MODULE OneShotEffect ---------------------------
(***************************************************************************)
(* What BreakGlass promises about one incident, with no process, contract  *)
(* or network in it: an authority to act is committed at most once, the    *)
(* destructive call is fired at most once and only under that authority,   *)
(* and the incident is closed only when the target is gone.                *)
(***************************************************************************)
EXTENDS Naturals

CONSTANTS Authority, None

VARIABLES
  authority,  \* the committed authority, or None
  fired,      \* destructive calls fired
  present,    \* the target exists
  closed      \* the incident is closed as verified absent

vars == <<authority, fired, present, closed>>

Init ==
  /\ authority = None
  /\ fired = 0
  /\ present \in BOOLEAN
  /\ closed = FALSE

Commit ==
  /\ authority = None
  /\ authority' \in Authority
  /\ UNCHANGED <<fired, present, closed>>

\* The call may take the target with it, now or later (Vanish).
Fire ==
  /\ authority # None
  /\ fired = 0
  /\ fired' = 1
  /\ present' \in {present, FALSE}
  /\ UNCHANGED <<authority, closed>>

\* A call landing late, or anybody else removing the target.
Vanish ==
  /\ present' = FALSE
  /\ UNCHANGED <<authority, fired, closed>>

Close ==
  /\ authority # None
  /\ ~present
  /\ closed' = TRUE
  /\ UNCHANGED <<authority, fired, present>>

Next == Commit \/ Fire \/ Vanish \/ Close

Spec == Init /\ [][Next]_vars
=============================================================================
