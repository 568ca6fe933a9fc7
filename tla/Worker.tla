------------------------------- MODULE Worker -------------------------------
(***************************************************************************)
(* The worker process of services/worker/runtime.py on top of the durable  *)
(* queue: the claim loop, the execution of one job with its handler, the   *)
(* retry decision of services/jobs/retries.py, shutdown and crashes.  Each *)
(* await of the code that reaches the database is a step of its own, so a  *)
(* cancellation, a deletion, an expiry or another worker may come between. *)
(*                                                                         *)
(* Crashes, infrastructure errors and stalls are faults: each one is       *)
(* counted and a behaviour has at most MaxFaults of them.                  *)
(***************************************************************************)
EXTENDS JobQueue

CONSTANTS
  Cap,        \* RetryPolicy.cap(): retries allowed per class
  Unknown,    \* the UNKNOWN_OUTCOME class
  MaxFaults   \* bound: faults in a behaviour

ASSUME CapAssumption == Cap \in [Classes -> Nat] /\ Unknown \in Classes

VARIABLES
  pc,      \* pc[w]: the await the process is at
  mem,     \* mem[w]: the ClaimedJob in memory, a snapshot taken by the claim
  faults

wvars == <<vars, pc, mem, faults>>

Awaits == {"claimed", "unstarted", "running", "cancelling", "retrying",
           "failing", "releasing", "publishing", "withdrawn", "stopping"}

Memory == [lease : Lease, counts : [Classes -> Nat], reqid : BOOLEAN,
           class : Classes]

WorkerTypeOK ==
  /\ pc \in [Workers -> Awaits \cup {"idle", "stopped", "down"}]
  /\ \A w \in Workers : pc[w] \in Awaits => mem[w] \in Memory
  /\ faults \in 0..MaxFaults

NoMemory == [lease |-> <<>>]

WInit == /\ Init
         /\ pc = [w \in Workers |-> "idle"]
         /\ mem = [w \in Workers |-> NoMemory]
         /\ faults = 0

-----------------------------------------------------------------------------
Goto(w, next) == /\ pc' = [pc EXCEPT ![w] = next]
                 /\ mem' = IF next \in Awaits THEN mem
                           ELSE [mem EXCEPT ![w] = NoMemory]

Fault == faults < MaxFaults /\ faults' = faults + 1

NoFault == UNCHANGED faults

(* A fenced update: it applies, or its row no longer matches the lease and *)
(* it changes nothing.                                                     *)
Try(update, matches) == update \/ (~matches /\ UNCHANGED vars)

L(w) == mem[w].lease

(* run(): poll.  ClaimNothing only when there is nothing to claim. *)
Claimable(lag) == \E j \in Jobs : /\ Swept(lag)[j].state = "queued"
                                  /\ Swept(lag)[j].wait + lag <= 0

Poll(w) ==
  /\ pc[w] = "idle"
  /\ \E lag \in 0..MaxLag :
       \/ /\ Claim(w, lag)
          /\ \E l \in leases' \ leases :
               mem' = [mem EXCEPT ![w] =
                 [lease |-> l, counts |-> job'[l.job].counts,
                  reqid |-> job'[l.job].reqid, class |-> Unknown]]
          /\ pc' = [pc EXCEPT ![w] = "claimed"]
       \/ /\ ~Claimable(lag) /\ ClaimNothing(lag)
          /\ UNCHANGED <<pc, mem>>
  /\ NoFault

(* _execute(): start, or cancel a job whose cancellation came first. *)
Begin(w) ==
  /\ pc[w] = "claimed"
  /\ \/ Start(L(w)) /\ Goto(w, "running")
     \/ /\ ~(Held(L(w)) /\ job[L(w).job].state = "leased" /\ ~job[L(w).job].cancel)
        /\ Goto(w, "unstarted") /\ UNCHANGED vars
  /\ NoFault

(* Mutant: a lost lease is handled like a cancellation. *)
BeatCancelsOnLoss(w) ==
  /\ pc[w] = "running"
  /\ \/ /\ \E lag \in 0..MaxLag : Heartbeat(L(w), lag)
        /\ Goto(w, IF job[L(w).job].cancel THEN "cancelling" ELSE "running")
     \/ ~(Held(L(w)) /\ Unexpired(L(w).job)) /\ Goto(w, "cancelling") /\ UNCHANGED vars
  /\ NoFault

(* JobContext.heartbeat(): LeaseLost drops the job, a cancellation request *)
(* is raised.                                                              *)
Beat(w) ==
  /\ pc[w] = "running"
  /\ \/ /\ \E lag \in 0..MaxLag : Heartbeat(L(w), lag)
        /\ Goto(w, IF job[L(w).job].cancel THEN "cancelling" ELSE "running")
     \/ ~(Held(L(w)) /\ Unexpired(L(w).job)) /\ Goto(w, "idle") /\ UNCHANGED vars
  /\ NoFault

RecordId(w) ==
  /\ pc[w] = "running"
  /\ \/ RecordRequestId(L(w)) /\ Goto(w, "running")
     \/ ~Held(L(w)) /\ Goto(w, "idle") /\ UNCHANGED vars
  /\ NoFault

Checkpoint(w) ==
  /\ pc[w] = "running"
  /\ \/ SaveStageData(L(w)) /\ Goto(w, "running")
     \/ ~LockActive(L(w)) /\ Goto(w, "idle") /\ UNCHANGED vars
  /\ NoFault

(* The handler returns a result or raises. *)
HandlerEnds(w) ==
  /\ pc[w] = "running"
  /\ \/ Goto(w, "publishing") /\ NoFault
     \/ Goto(w, "failing") /\ NoFault
     \/ /\ \E c \in Classes : mem' = [mem EXCEPT ![w].class = c]
        /\ pc' = [pc EXCEPT ![w] = "retrying"] /\ NoFault
     \/ Goto(w, "releasing") /\ Fault
  /\ UNCHANGED vars

(* publish_stage(): committed; committed but the answer was lost; not      *)
(* committed for an infrastructure error; rejected.  The owner clash of a  *)
(* successor key raises ValueError, which nothing catches: the worker's    *)
(* task ends and its lease expires.                                        *)
PublishResult(w) ==
  /\ pc[w] = "publishing"
  /\ \/ /\ \E succ \in SUBSET Keys : Publish(L(w), succ)
        /\ \/ Goto(w, "idle") /\ NoFault
           \/ Goto(w, "releasing") /\ Fault
     \/ Goto(w, "releasing") /\ Fault /\ UNCHANGED vars
     \/ ~LockActive(L(w)) /\ Goto(w, "idle") /\ NoFault /\ UNCHANGED vars
     \/ /\ LockActive(L(w))
        /\ \E succ \in Fanouts[job[L(w).job].key] : OwnerClash(L(w), succ)
        /\ Goto(w, "down") /\ Fault /\ UNCHANGED vars

(* publish_capture_stage() that finds its capture stopped or its root job  *)
(* ended: it requests the cancellation of the job, by id and whoever holds *)
(* the lease, instead of publishing.                                       *)
Withdraw(w) ==
  /\ pc[w] = "publishing"
  /\ \/ RequestCancel(L(w).job)
     \/ job[L(w).job].state \notin ACTIVE /\ UNCHANGED vars
  /\ Goto(w, "withdrawn") /\ NoFault

(* queue.cancel(lease): before the start, after CancellationRequested or   *)
(* after a withdrawn publication, where an infrastructure error releases.  *)
AcknowledgeCancel(w) ==
  \/ /\ pc[w] \in {"unstarted", "cancelling", "withdrawn"}
     /\ Try(Cancel(L(w)), Held(L(w)))
     /\ Goto(w, "idle") /\ NoFault
  \/ /\ pc[w] = "withdrawn"
     /\ Goto(w, "releasing") /\ Fault /\ UNCHANGED vars

FailJob(w) ==
  /\ pc[w] = "failing"
  /\ Try(Fail(L(w)), Held(L(w)))
  /\ Goto(w, "idle") /\ NoFault

(* _release(), which swallows infrastructure errors and lets the lease     *)
(* expire.  During a forced shutdown the process exits afterwards.         *)
ReleaseLease(w) ==
  /\ pc[w] \in {"releasing", "stopping"}
  /\ LET after == IF pc[w] = "stopping" THEN "stopped" ELSE "idle" IN
     \/ Try(Release(L(w)), Held(L(w))) /\ Goto(w, after) /\ NoFault
     \/ Goto(w, IF after = "idle" THEN "idle" ELSE "down") /\ Fault /\ UNCHANGED vars

-----------------------------------------------------------------------------
(* RetryPolicy.decide() and _retry(): the counters are those of the claim; *)
(* the request id is read again for an unknown outcome.                    *)
Recorded(w) == \/ mem[w].reqid
               \/ mem[w].class = Unknown /\ job[L(w).job].reqid

(* Mutant: an unknown outcome is retried like any other. *)
DecideBlind(w) == mem[w].counts[mem[w].class] + 1 <= Cap[mem[w].class]


Decide(w) == /\ mem[w].counts[mem[w].class] + 1 <= Cap[mem[w].class]
             /\ mem[w].class = Unknown => Recorded(w)

RetryJob(w) ==
  /\ pc[w] = "retrying"
  /\ \/ Decide(w) /\ Try(\E d \in 0..MaxDelay : Retry(L(w), mem[w].class, d), Held(L(w)))
     \/ ~Decide(w) /\ Try(Fail(L(w)), Held(L(w)))
  /\ Goto(w, "idle") /\ NoFault

-----------------------------------------------------------------------------
(* Processes *)

(* Mutant: a forced shutdown exits with the lease in its hands. *)
StopWithoutRelease(w) ==
  /\ pc[w] \in (Awaits \ {"stopping"}) \cup {"idle"} /\ Goto(w, "stopped")
  /\ Fault /\ UNCHANGED vars

(* stop(): an idle worker leaves its loop; a busy one is cancelled when    *)
(* the shutdown timeout passes.                                            *)
Stop(w) ==
  /\ \/ pc[w] = "idle" /\ Goto(w, "stopped")
     \/ pc[w] \in Awaits \ {"stopping"} /\ Goto(w, "stopping")
  /\ Fault /\ UNCHANGED vars

Crash(w) == /\ pc[w] \in Awaits \cup {"idle"}
            /\ Goto(w, "down") /\ Fault /\ UNCHANGED vars

Restart(w) == /\ pc[w] \in {"stopped", "down"}
              /\ Goto(w, "idle") /\ NoFault /\ UNCHANGED vars

(* Time passes.  Handlers extend their lease well before it expires, so a  *)
(* busy worker whose lease runs out has stalled: that is a fault.          *)
Stalls == \E w \in Workers : /\ pc[w] \in Awaits
                             /\ Held(L(w)) /\ job[L(w).job].ttl = 1

Clock == /\ Tick
         /\ IF Stalls THEN Fault ELSE NoFault
         /\ UNCHANGED <<pc, mem>>

Api == /\ \/ \E k \in Keys, o \in Owners : Enqueue(k, o)
          \/ \E j \in Jobs : RequestCancel(j) \/ Delete(j)
       /\ UNCHANGED <<pc, mem, faults>>

(* The steps a live process is bound to take. *)
Work(w) == \/ Poll(w) \/ Begin(w) \/ HandlerEnds(w) \/ PublishResult(w)
           \/ Withdraw(w) \/ AcknowledgeCancel(w) \/ FailJob(w) \/ ReleaseLease(w) \/ RetryJob(w)

WNext == \/ \E w \in Workers : Work(w) \/ Beat(w) \/ RecordId(w) \/ Checkpoint(w)
         \/ \E w \in Workers : Stop(w) \/ Crash(w) \/ Restart(w)
         \/ Clock
         \/ Api

(* The event loop runs every task that is ready, the process supervisor    *)
(* restarts a worker that exited, and time passes.                         *)
Fairness == /\ \A w \in Workers : WF_wvars(Work(w)) /\ WF_wvars(Restart(w))
            /\ WF_wvars(Clock)

WSafety == WInit /\ [][WNext]_wvars

WSpec == WSafety /\ Fairness

-----------------------------------------------------------------------------
(* Properties *)

(* A job is requeued at most cap() times per retry class, although the     *)
(* decision uses counters read when the job was claimed.                   *)
RetryCapRespected == \A j \in Jobs, c \in Classes : job[j].counts[c] <= Cap[c]

(* A job is only run again after an unknown provider outcome when its      *)
(* request id is stored, so that the next attempt can reconcile instead of *)
(* calling the provider twice.                                             *)
UnknownOutcomeReconciles ==
  \A j \in Jobs : job[j].state \in ACTIVE /\ job[j].counts[Unknown] > 0
                    => job[j].reqid

(* A retry neither exceeds its cap nor repeats a provider call blindly.    *)
RetriesSafe == RetryCapRespected /\ UnknownOutcomeReconciles

(* A worker only makes a cancellation effective that somebody requested,   *)
(* although start() returns the same False for a lost lease.               *)
CancelOnlyOnRequest ==
  [][\A j \in Jobs : job[j].state \in LEASED_STATES /\ job'[j].state = "cancelled"
                       => job[j].cancel]_wvars

(* stop(): "finish or release the in-flight job, then return".  A stopped  *)
(* worker leaves no live lease behind when the shutdown is the only fault, *)
(* except on a job whose cancellation made the last publication bounce:    *)
(* that lease waits for its expiry.                                        *)
StoppedHoldsNothing ==
  \A w \in Workers : pc[w] = "stopped" /\ faults = 1 =>
    \A l \in leases : l.worker = w /\ Held(l) /\ Unexpired(l.job)
                        => job[l.job].cancel

(* Every job that is enqueued reaches a terminal state, through crashes,   *)
(* stalls, lost answers, retries and cancellations, once the faults stop.  *)
EveryJobSettles ==
  \A j \in Jobs : job[j].state \in ACTIVE ~> job[j].state \in TERMINAL
=============================================================================
