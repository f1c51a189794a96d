--------------------------- MODULE OneShotPolicy ---------------------------
(***************************************************************************)
(* The policy lifecycle of BreakGlass (HANDOVER.md: ACTIVE, then           *)
(* BOUND_TO_EVENT, then RETIRED), with no handler, file or race in it: a   *)
(* policy binds one event for ever, authorizes at most one incident, that  *)
(* of its event, and is retired only after that incident closed.           *)
(***************************************************************************)
CONSTANTS Event, Policy, None

VARIABLES
  registered,  \* policies the operator activated
  bound,       \* the event of each policy, or None
  authorized,  \* incidents authorized: [policy, event]
  closed,      \* incidents closed as verified absent
  retired      \* policies retired

vars == <<registered, bound, authorized, closed, retired>>

Incident == [policy : Policy, event : Event]

Init ==
  /\ registered = {} /\ authorized = {} /\ closed = {} /\ retired = {}
  /\ bound = [p \in Policy |-> None]

Activate(p) ==
  /\ registered' = registered \cup {p}
  /\ UNCHANGED <<bound, authorized, closed, retired>>

Bind(p, e) ==
  /\ p \in registered \ retired
  /\ bound[p] = None
  /\ bound' = [bound EXCEPT ![p] = e]
  /\ UNCHANGED <<registered, authorized, closed, retired>>

\* A delivery authorizes one incident, that of a policy bound to it.
Authorize(p, e) ==
  /\ bound[p] = e
  /\ \A i \in authorized : i.event.delivery # e.delivery
  /\ authorized' = authorized \cup {[policy |-> p, event |-> e]}
  /\ UNCHANGED <<registered, bound, closed, retired>>

Close(i) ==
  /\ i \in authorized
  /\ closed' = closed \cup {i}
  /\ UNCHANGED <<registered, bound, authorized, retired>>

Retire(p, e) ==
  /\ bound[p] = e
  /\ [policy |-> p, event |-> e] \in closed
  /\ retired' = retired \cup {p}
  /\ UNCHANGED <<registered, bound, authorized, closed>>

Next ==
  \/ \E p \in Policy : Activate(p)
  \/ \E p \in Policy, e \in Event : Bind(p, e) \/ Authorize(p, e) \/ Retire(p, e)
  \/ \E i \in Incident : Close(i)

Spec == Init /\ [][Next]_vars
=============================================================================
