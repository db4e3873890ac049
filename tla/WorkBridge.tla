---------------------------- MODULE WorkBridge ----------------------------
(***************************************************************************)
(* What the async work bridge promises (spec 3, Work Item, and 4.2):       *)
(* a work item goes Queued -> Executing -> Completed, or Queued ->         *)
(* Cancelled when it is cancelled before execution starts, and never from  *)
(* Executing to Cancelled; its outstanding-counter token is taken on       *)
(* enqueue and given back exactly once, on entry to the runtime-thread     *)
(* callback, which hands complete the status Ok or Cancelled. A failed     *)
(* enqueue, a refused cancel and everything else leave the bridge as it    *)
(* was.                                                                    *)
(*                                                                         *)
(* "Idle" is a work item not in flight: never enqueued, or delivered.      *)
(***************************************************************************)
EXTENDS Naturals

CONSTANT Works

VARIABLES
  phase,        \* [Works -> Phases]
  outstanding,  \* the facade's outstanding-work counter
  delivered     \* [Works -> status complete was last called with]

vars == <<phase, outstanding, delivered>>

Phases == {"Idle", "Queued", "Executing", "Completed", "Cancelled"}

Init ==
  /\ phase = [w \in Works |-> "Idle"]
  /\ outstanding = 0
  /\ delivered = [w \in Works |-> "None"]

\* Enqueue that the pool accepted: the token is taken.
Enqueue(w) ==
  /\ phase[w] = "Idle"
  /\ phase' = [phase EXCEPT ![w] = "Queued"]
  /\ outstanding' = outstanding + 1
  /\ delivered' = [delivered EXCEPT ![w] = "None"]

\* Cancel() that returns true: only before execution starts.
Cancel(w) ==
  /\ phase[w] = "Queued"
  /\ phase' = [phase EXCEPT ![w] = "Cancelled"]
  /\ UNCHANGED <<outstanding, delivered>>

\* A worker thread begins execute, and execute returns.
Start(w) ==
  /\ phase[w] = "Queued"
  /\ phase' = [phase EXCEPT ![w] = "Executing"]
  /\ UNCHANGED <<outstanding, delivered>>

Finish(w) ==
  /\ phase[w] = "Executing"
  /\ phase' = [phase EXCEPT ![w] = "Completed"]
  /\ UNCHANGED <<outstanding, delivered>>

\* The runtime-thread callback: release the token, then call complete with
\* the status of how the item ended.
Deliver(w) ==
  /\ phase[w] \in {"Completed", "Cancelled"}
  /\ phase' = [phase EXCEPT ![w] = "Idle"]
  /\ outstanding' = outstanding - 1
  /\ delivered' = [delivered EXCEPT ![w] =
                     IF phase[w] = "Cancelled" THEN "Cancelled" ELSE "Ok"]

Next == \E w \in Works : Enqueue(w) \/ Cancel(w) \/ Start(w) \/ Finish(w) \/ Deliver(w)

Spec == Init /\ [][Next]_vars

=============================================================================
