---------------------------- MODULE JobLifecycle ----------------------------
(***************************************************************************)
(* What the jobs table promises about the life of every job: it is created *)
(* once, moves only by the events of services/jobs/states.py, and leaves   *)
(* the table for good when retention purges its row.  One step is one      *)
(* committed database transaction; a transaction may move several jobs     *)
(* (the expiry sweep of a claim, a publication that enqueues successors)   *)
(* but each of them by one event, or by the expiry and the new claim that  *)
(* one claim transaction performs on the same row.                         *)
(***************************************************************************)
EXTENDS JobStates

CONSTANT Jobs

VARIABLE status   \* status[j]: the JobStatus of row j; "absent" before its
                  \* insertion, "gone" once the row was purged

Row == [state : JobState \cup {"absent", "gone"}, cancel : BOOLEAN]

LifeInit == status = [j \in Jobs |-> [state |-> "absent", cancel |-> FALSE]]

(* s becomes t by one event, or by "expire" followed by "claim". *)
ByEvent(s, t) ==
  \/ \E e \in JobEvent : Legal(s, e) /\ t = Apply(s, e)
  \/ /\ Legal(s, "expire") /\ ~s.cancel
     /\ t = Apply(Apply(s, "expire"), "claim")

(* What one transaction may do to one job.  Purging is for tombstones and  *)
(* for the finished runs of the retention stage.                           *)
Moves(s, t) ==
  \/ t = s
  \/ s.state = "absent" /\ t = [state |-> "queued", cancel |-> FALSE]
  \/ s.state \in JobState /\ ByEvent(s, t)
  \/ s.state \in {"deleted", "published", "failed"} /\ t.state = "gone"

LifeNext == /\ status' \in [Jobs -> Row]
            /\ \A j \in Jobs : Moves(status[j], status'[j])

LifeSpec == LifeInit /\ [][LifeNext]_status
=============================================================================
