----------------------------- MODULE JobStates -----------------------------
(***************************************************************************)
(* The pure job state machine of services/jobs/states.py: the states, the  *)
(* events, which event is legal in which status and the status it leads   *)
(* to.  A status is the persisted state plus the cancel_requested flag.   *)
(* The queue (JobQueue) reuses the state sets, the abstract specification *)
(* (JobLifecycle) is built from Legal and Apply.                          *)
(***************************************************************************)

JobState == {"queued", "leased", "running",
             "published", "cancelled", "deleted", "failed"}

JobEvent == {"claim", "start", "publish", "fail", "release", "retry",
             "expire", "request_cancel", "cancel", "delete"}

JobStatus == [state : JobState, cancel : BOOLEAN]

TERMINAL == {"published", "cancelled", "deleted", "failed"}

LEASED_STATES == {"leased", "running"}

ACTIVE == {"queued"} \cup LEASED_STATES

(* is_legal(): the case guards of apply(). *)
Legal(s, e) ==
  \/ e = "claim" /\ s.state = "queued"
  \/ e = "start" /\ s.state = "leased" /\ ~s.cancel
  \/ e = "publish" /\ s.state = "running" /\ ~s.cancel
  \/ e \in {"fail", "release", "retry", "expire"} /\ s.state \in LEASED_STATES
  \/ e \in {"request_cancel", "cancel"} /\ s.state \in ACTIVE
  \/ e = "delete" /\ s.state # "deleted"

(* Where a lease that is given back sends its job: a pending cancellation  *)
(* wins over the queue.                                                    *)
Returned(s) == IF s.cancel THEN "cancelled" ELSE "queued"

(* apply(), for a legal event. *)
Apply(s, e) ==
  CASE e = "claim"   -> [s EXCEPT !.state = "leased"]
    [] e = "start"   -> [s EXCEPT !.state = "running"]
    [] e = "publish" -> [s EXCEPT !.state = "published"]
    [] e = "fail"    -> [s EXCEPT !.state = "failed"]
    [] e \in {"release", "retry", "expire"} -> [s EXCEPT !.state = Returned(s)]
    [] e = "request_cancel" ->
         [state |-> IF s.state = "queued" THEN "cancelled" ELSE s.state,
          cancel |-> TRUE]
    [] e = "cancel"  -> [state |-> "cancelled", cancel |-> TRUE]
    [] e = "delete"  -> [s EXCEPT !.state = "deleted"]

(* check_invariants(). *)
CheckInvariants(s) ==
  /\ s.state = "published" => ~s.cancel
  /\ s.state = "queued" => ~s.cancel
  /\ s.state = "cancelled" => s.cancel
=============================================================================
