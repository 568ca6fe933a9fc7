------------------------------ MODULE Extraction ------------------------------
(***************************************************************************)
(* Claim extraction of one investigation: the window jobs and the          *)
(* reconciliation job (pipeline/extraction.py, pipeline/reconciliation.py, *)
(* pipeline/provider_recovery.py, the answers of pipeline/llm.py), the     *)
(* request ledger of pipeline/incremental.py, the settlement of            *)
(* pipeline/producers.py, and the report versions both stages publish.     *)
(*                                                                         *)
(* A job keeps its attempts in stage_data, which is durable; what its      *)
(* handler is about to do, "at", is not, and is lost when the worker       *)
(* crashes or its lease expires.  How observations become windows is the   *)
(* subject of Windows, and the provider units that all processes share of  *)
(* Budget.                                                                 *)
(***************************************************************************)
EXTENDS Integers, FiniteSets, JobStates

CONSTANTS
  W,                  \* the windows the observations of this input fill
  Rec,                \* the reconciliation job
  ClaimsOf,           \* ClaimsOf[w]: the occurrences window w yields
  max_requests,
  reconciliation_requests,
  recovery_attempts,
  groq_approved,      \* the windows that authorise Groq, where an adapter exists
  FromCapture,        \* the input is a live capture, else an upload
  MaxLosses           \* bound: crashes, deletions and reports by others

ASSUME ExtractionAssumption ==
  /\ Rec \notin W /\ IsFiniteSet(W)
  /\ max_requests \in Nat /\ reconciliation_requests \in 1..(max_requests - 1)
  /\ recovery_attempts \in 0..10 /\ groq_approved \subseteq W
  /\ FromCapture \in BOOLEAN /\ MaxLosses \in Nat

J == W \cup {Rec}
Terminal == {"published", "failed", "cancelled", "deleted"}

VARIABLES
  run,     \* the extraction_runs row
  input,   \* the upstream: "working", "done", or "stopped" without research
  task,    \* task[j]: a row of jobs with its stage_data
  at,      \* at[j]: what the handler of a running job does next
  report,  \* the latest report version
  sends,   \* sends[j]: completion requests that reached a provider (history)
  lost,    \* lost[j]: one of them has no durable outcome (history)
  losses

xvars == <<run, input, task, at, report, sends, lost, losses>>

-----------------------------------------------------------------------------
(* State *)

(* stage_data; "models" is what fallbacks() left to try, -1 before it.     *)
NoData == [in_flight |-> FALSE, invalid |-> 0, failures |-> 0, groq |-> FALSE,
           needs_route |-> FALSE, models |-> -1, artifact |-> FALSE,
           budget_exhausted |-> FALSE, feedback_blocked |-> FALSE]

NoJob == [state |-> "none", cancel |-> FALSE, data |-> NoData]

NoRun == [closed |-> FALSE, windows |-> {}, reconcile |-> FALSE, requests_used |-> 0,
          report_id |-> 0, upstream_limited |-> FALSE]

NoReport == [id |-> 0, claims |-> {}, reconciled |-> FALSE, limited |-> FALSE]

XInit ==
  /\ run = NoRun /\ input = "working" /\ report = NoReport
  /\ task = [j \in J |-> NoJob] /\ at = [j \in J |-> "idle"]
  /\ sends = [j \in J |-> 0] /\ lost = [j \in J |-> FALSE]
  /\ losses = 0

NewJob == [NoJob EXCEPT !.state = "queued"]

(* enqueue() of a set of jobs *)
EnqueueTask(js) == [j \in J |-> IF j \in js /\ task[j].state = "none" THEN NewJob ELSE task[j]]

Alive(j) == task[j].state = "running" /\ ~task[j].cancel
Data(j) == task[j].data

(* save_stage_data() under the lease *)
Saved(j, data) == [task EXCEPT ![j].data = data]

(* The worker ends a job whose handler raised: a refused input fails.      *)
Failed(j, data) == [task EXCEPT ![j].data = data, ![j].state = "failed"]

-----------------------------------------------------------------------------
(* Observations and settlement *)

(* submit_observations() in a publication upstream: a window is full.      *)
Submit(w) ==
  /\ input = "working" /\ ~run.closed /\ w \notin run.windows
  /\ ~report.reconciled
  /\ run' = [run EXCEPT !.windows = @ \cup {w}]
  /\ task' = EnqueueTask({w})
  /\ UNCHANGED <<input, at, report, sends, lost, losses>>

UpstreamEnds ==
  /\ input = "working" /\ input' = "done"
  /\ UNCHANGED <<run, task, at, report, sends, lost, losses>>

RequestStop(j) ==
  IF task[j].state \notin ACTIVE THEN task[j]
  ELSE [task[j] EXCEPT !.cancel = TRUE, !.state = IF @ = "queued" THEN "cancelled" ELSE @]

(* close_capture() without continued research *)
StopCapture ==
  /\ FromCapture /\ input = "working"
  /\ input' = "stopped"
  /\ task' = [j \in J |-> RequestStop(j)]
  /\ UNCHANGED <<run, at, report, sends, lost, losses>>

(* request_reconciliation(): the accepted work is sealed, once. *)
Registered(r, admitted) == [r EXCEPT !.reconcile = @ \/ admitted]

(* settle_inputs(): the ledger closes, what is left fills the last windows *)
(* and reconciliation is registered if any observation was admitted: those *)
(* without a target fill no window.                                        *)
Settle ==
  /\ input = "done" /\ ~run.closed
  /\ \E rest \in SUBSET (W \ run.windows), admitted \in BOOLEAN :
       /\ run.windows \cup rest # {} => admitted
       /\ run' = Registered([run EXCEPT !.closed = TRUE, !.windows = @ \cup rest], admitted)
       /\ task' = EnqueueTask(rest)
  /\ UNCHANGED <<input, at, report, sends, lost, losses>>

(* Mutant: reconciliation waits for windows that failed. *)
WindowsPublished == \A w \in run.windows : task[w].state = "published"

(* schedule_reconciliation(): all work the ledger lists is over. *)
WindowsEnded == \A w \in run.windows : task[w].state \in Terminal

(* Mutant: windows that were cancelled or deleted are not counted. *)
LimitedByFailure == \E w \in run.windows : task[w].state = "failed"

Limited == \E w \in run.windows : task[w].state # "published"

ScheduleReconciliation ==
  /\ run.closed /\ run.reconcile /\ task[Rec].state = "none"
  /\ input = "done" /\ WindowsEnded
  /\ run' = [run EXCEPT !.report_id = report.id, !.upstream_limited = Limited]
  /\ task' = EnqueueTask({Rec})
  /\ UNCHANGED <<input, at, report, sends, lost, losses>>

-----------------------------------------------------------------------------
(* Claiming a job *)

(* What run() refuses before it asks a provider again *)
Superseded(j) ==
  IF j = Rec THEN report.id = 0 \/ report.id # run.report_id \/ report.reconciled
  ELSE report.reconciled

(* _use_groq() *)
GroqRemains(j) ==
  j \in groq_approved /\ ~Data(j).groq /\ Data(j).invalid = 0

WithGroq(d) == [d EXCEPT !.groq = TRUE, !.needs_route = FALSE, !.failures = 0]

Exhausted(j) == Data(j).failures > recovery_attempts

(* No further inference: the one repair is used, or the feedback blocked it. *)
Spent(d) == d.invalid >= 2 \/ d.feedback_blocked

(* Mutant: an attempt in flight is simply made again. *)
RefusedWithoutFlight(j) ==
  LET d == Data(j) IN
  \/ Superseded(j) \/ d.budget_exhausted
  \/ ~d.artifact /\ (Spent(d) \/ (Exhausted(j) /\ ~GroqRemains(j)))

Refused(j) ==
  LET d == Data(j) IN
  \/ Superseded(j) \/ d.budget_exhausted \/ d.in_flight
  \/ ~d.artifact /\ (Spent(d) \/ (Exhausted(j) /\ ~GroqRemains(j)))

Step(d) == IF d.artifact THEN "publish" ELSE IF d.needs_route THEN "route" ELSE "complete"

ClaimTask(j) ==
  /\ task[j].state = "queued"
  /\ LET d == IF Exhausted(j) /\ ~Data(j).artifact THEN WithGroq(Data(j)) ELSE Data(j) IN
     IF Refused(j)
     THEN task' = Failed(j, Data(j)) /\ at' = at
     ELSE /\ task' = [Saved(j, d) EXCEPT ![j].state = "running"]
          /\ at' = [at EXCEPT ![j] = Step(d)]
  /\ UNCHANGED <<run, input, report, sends, lost, losses>>

-----------------------------------------------------------------------------
(* Requests *)

(* Mutant: the extraction windows may use the whole budget. *)
BudgetLeftAll(j) == run.requests_used + 1 <= max_requests

(* record_request(): the limit on requests *)
BudgetLeft(j) ==
  run.requests_used + 1 <= max_requests - (IF j = Rec THEN 0 ELSE reconciliation_requests)

(* complete(), fallbacks() and feedback() of the adapter: each is accounted *)
(* for before it is sent.                                                  *)
Operations == {"complete", "route", "feedback"}

NeedsRequest(j) == at[j] \in Operations
                     /\ ~(at[j] = "route" /\ j # Rec /\ Data(j).models >= 0)

(* in_flight is durable before a request that may have an unknown outcome. *)
Accounted(d, operation) == [d EXCEPT !.in_flight = (operation # "feedback")]

OverBudget(d, operation) ==
  [d EXCEPT !.in_flight = FALSE, !.budget_exhausted = TRUE,
            !.feedback_blocked = @ \/ operation = "feedback"]

(* account(), the transaction before the send; a refused budget is         *)
(* remembered: no request is left, or the tokens of this one do not fit,   *)
(* and that may be so of any.  A cancelled job gets no further:            *)
(* save_stage_data() and the stop check find out (Acknowledge).            *)
Account(j) ==
  /\ Alive(j) /\ NeedsRequest(j)
  /\ \/ /\ BudgetLeft(j)
        /\ run' = [run EXCEPT !.requests_used = @ + 1]
        /\ task' = Saved(j, Accounted(Data(j), at[j]))
        /\ at' = [at EXCEPT ![j] = CASE @ = "complete" -> "send"
                                     [] @ = "route" -> "sent_route"
                                     [] @ = "feedback" -> "sent_feedback"]
     \/ /\ task' = Failed(j, OverBudget(Data(j), at[j]))
        /\ at' = [at EXCEPT ![j] = "idle"] /\ UNCHANGED run
  /\ UNCHANGED <<input, report, sends, lost, losses>>

(* complete(): the request leaves; nothing looks for a cancellation between *)
(* the commit of account() and the exchange.                               *)
Send(j) ==
  /\ task[j].state = "running" /\ at[j] = "send"
  /\ sends' = [sends EXCEPT ![j] = @ + 1]
  /\ at' = [at EXCEPT ![j] = "sent"]
  /\ UNCHANGED <<run, input, task, report, lost, losses>>

(* The completion was sent and its answer is awaited. *)
Awaiting(j) == Alive(j) /\ at[j] = "sent"

(* The availability failure is stored; a gateway failure of Scholarxiv also *)
(* asks for another route.                                                 *)
Recovering(d, gateway) ==
  [d EXCEPT !.in_flight = FALSE, !.failures = @ + 1, !.needs_route = gateway /\ ~d.groq]

(* A 429 or a 502, or no shared units: the job goes back to the queue, or  *)
(* fails for good once its recovery attempts are used up and no provider   *)
(* remains, or when the worker has retried it too often.                   *)
Unavailable(j) ==
  /\ Awaiting(j) \/ (Alive(j) /\ at[j] = "complete")
  /\ \E gateway \in BOOLEAN :
     LET e == Recovering(Data(j), gateway)
         gave_up == e.failures > recovery_attempts
     IN
     /\ gateway => at[j] = "sent"
     /\ IF gave_up /\ GroqRemains(j)
        THEN task' = Saved(j, WithGroq(e)) /\ at' = [at EXCEPT ![j] = "complete"]
        ELSE /\ at' = [at EXCEPT ![j] = "idle"]
             /\ \/ task' = Failed(j, e)
                \/ ~gave_up /\ task' = [Saved(j, e) EXCEPT ![j].state = "queued"]
  /\ UNCHANGED <<run, input, report, sends, lost, losses>>

(* A completion that parses and is grounded is stored before it is published. *)
Stored(d) == [d EXCEPT !.in_flight = FALSE, !.artifact = TRUE]

Valid(j) ==
  /\ Awaiting(j)
  /\ task' = Saved(j, Stored(Data(j)))
  /\ at' = [at EXCEPT ![j] = "publish"]
  /\ UNCHANGED <<run, input, report, sends, lost, losses>>

(* ... any other is counted, then reported to the router unless it came    *)
(* from Groq or names no decision (invalid_feedback()).                    *)
Invalidated(d) == [d EXCEPT !.in_flight = FALSE, !.invalid = @ + 1]

Invalid(j) ==
  LET d == Invalidated(Data(j)) IN
  /\ Awaiting(j)
  /\ \/ ~d.groq /\ task' = Saved(j, d) /\ at' = [at EXCEPT ![j] = "feedback"]
     \/ d.invalid < 2 /\ task' = Saved(j, d) /\ at' = [at EXCEPT ![j] = "complete"]
     \/ d.invalid >= 2 /\ task' = Failed(j, d) /\ at' = [at EXCEPT ![j] = "idle"]
  /\ UNCHANGED <<run, input, report, sends, lost, losses>>

(* The provider denies the request, or its outcome is unknown: the job     *)
(* fails with in_flight still set.                                         *)
Denied(j) ==
  /\ Alive(j) /\ at[j] \in {"sent", "sent_route"}
  /\ task' = Failed(j, Data(j))
  /\ at' = [at EXCEPT ![j] = "idle"]
  /\ UNCHANGED <<run, input, report, sends, lost, losses>>

(* The answer to the feedback; a denial blocks the job, a cooldown sends   *)
(* it back to the queue, and neither matters after the second invalid one. *)
FeedbackAnswered(j) ==
  LET d == Data(j)
      over == d.invalid >= 2
  IN
  /\ Alive(j) /\ at[j] = "sent_feedback"
  /\ \/ /\ task' = IF over THEN Failed(j, d) ELSE task
        /\ at' = [at EXCEPT ![j] = IF over THEN "idle" ELSE "complete"]
     \/ /\ task' = Failed(j, [d EXCEPT !.feedback_blocked = TRUE])
        /\ at' = [at EXCEPT ![j] = "idle"]
     \/ /\ task' = IF over THEN Failed(j, d) ELSE [task EXCEPT ![j].state = "queued"]
        /\ at' = [at EXCEPT ![j] = "idle"]
  /\ UNCHANGED <<run, input, report, sends, lost, losses>>

(* fallbacks(): a window asks once and keeps the list; reconciliation asks *)
(* again for a model it has not used.  No shared units: no model either.   *)
Routed(j) ==
  LET d == [Data(j) EXCEPT !.in_flight = FALSE, !.needs_route = FALSE]
      With(n) == IF n > 0 THEN task' = Saved(j, [d EXCEPT !.models = n - 1])
                                 /\ at' = [at EXCEPT ![j] = "complete"]
                 ELSE IF GroqRemains(j)
                 THEN task' = Saved(j, WithGroq([d EXCEPT !.models = 0]))
                        /\ at' = [at EXCEPT ![j] = "complete"]
                 ELSE task' = Failed(j, [d EXCEPT !.models = 0]) /\ at' = [at EXCEPT ![j] = "idle"]
  IN
  /\ Alive(j)
  /\ \/ at[j] = "sent_route" /\ \E n \in {0, 1} : With(n)
     \/ at[j] = "route" /\ With(IF NeedsRequest(j) THEN 0 ELSE d.models)
  /\ UNCHANGED <<run, input, report, sends, lost, losses>>

-----------------------------------------------------------------------------
(* Publication *)

(* publish() of a window, merged into the latest report by occurrence *)
MergedReport(w) == [report EXCEPT !.id = @ + 1, !.claims = @ \cup ClaimsOf[w]]

(* ... and of the reconciliation.  What it does to the claims, and which   *)
(* of them it hands to retrieval, is the subject of Claims and Reports.    *)
ReconciledReport ==
  [report EXCEPT !.id = @ + 1, !.reconciled = TRUE, !.limited = run.upstream_limited]

(* publish_capture_stage() of an incremental job: a superseded report      *)
(* rejects it, and then its lease runs out.                                *)
PublishTask(j) ==
  /\ Alive(j) /\ at[j] = "publish"
  /\ \/ /\ Superseded(j)
        /\ at' = [at EXCEPT ![j] = "rejected"] /\ UNCHANGED <<task, report>>
     \/ /\ ~Superseded(j)
        /\ report' = IF j = Rec THEN ReconciledReport ELSE MergedReport(j)
        /\ task' = [task EXCEPT ![j].state = "published"]
        /\ at' = [at EXCEPT ![j] = "idle"]
  /\ UNCHANGED <<run, input, sends, lost, losses>>

(* The worker acknowledges a cancellation it met at a heartbeat, in         *)
(* account() or when it publishes.                                         *)
Acknowledge(j) ==
  /\ task[j].state = "running" /\ task[j].cancel
  /\ task' = [task EXCEPT ![j].state = "cancelled"]
  /\ at' = [at EXCEPT ![j] = "idle"]
  /\ UNCHANGED <<run, input, report, sends, lost, losses>>

(* The lease runs out: after a rejected publication, and after a crash at  *)
(* any point.                                                              *)
Expire(j) ==
  /\ task[j].state = "running"
  /\ task' = [task EXCEPT ![j].state = IF task[j].cancel THEN "cancelled" ELSE "queued"]
  /\ at' = [at EXCEPT ![j] = "idle"]
  /\ lost' = [lost EXCEPT ![j] = @ \/ at[j] = "sent"]
  /\ UNCHANGED <<run, input, report, sends>>

Rejected(j) == at[j] = "rejected" /\ Expire(j) /\ UNCHANGED losses
LoseTask(j) == losses < MaxLosses /\ losses' = losses + 1 /\ Expire(j)

(* The owner deletes a window's job; another writer publishes a version.   *)
DeleteTask(w) ==
  /\ task[w].state \in JobState \ {"deleted"} /\ losses < MaxLosses
  /\ task' = [task EXCEPT ![w] = [NoJob EXCEPT !.state = "deleted"]]
  /\ at' = [at EXCEPT ![w] = "idle"]
  /\ losses' = losses + 1
  /\ UNCHANGED <<run, input, report, sends, lost>>

OtherVersion ==
  /\ report.id > 0 /\ losses < MaxLosses
  /\ report' = [report EXCEPT !.id = @ + 1]
  /\ losses' = losses + 1
  /\ UNCHANGED <<run, input, task, at, sends, lost>>

WorkTask(j) ==
  \/ ClaimTask(j) \/ Account(j) \/ Send(j) \/ Unavailable(j) \/ Valid(j) \/ Invalid(j)
  \/ Denied(j) \/ FeedbackAnswered(j) \/ Routed(j) \/ PublishTask(j) \/ Acknowledge(j)
  \/ Rejected(j)

XNext ==
  \/ UpstreamEnds \/ StopCapture \/ Settle \/ ScheduleReconciliation \/ OtherVersion
  \/ \E w \in W : Submit(w) \/ DeleteTask(w)
  \/ \E j \in J : WorkTask(j) \/ LoseTask(j)

(* A worker polls: it settles inputs before every claim, and finishes what *)
(* it has claimed.  That the upstream ends is assumed.                     *)
XFairness ==
  /\ WF_xvars(UpstreamEnds) /\ WF_xvars(Settle) /\ WF_xvars(ScheduleReconciliation)
  /\ WF_xvars(\E j \in J : WorkTask(j))

XSpec == XInit /\ [][XNext]_xvars /\ XFairness

-----------------------------------------------------------------------------
(* Properties *)

(* The completion requests of the jobs js that reached a provider. *)
Sent(js) == UNION {{j} \X (1..sends[j]) : j \in js}

(* What reached a provider was counted first, and the windows leave the    *)
(* reconciliation reserve untouched, across crashes between the count and  *)
(* the send, repairs, reroutes and feedback.                               *)
ReserveKept ==
  /\ Cardinality(Sent(J)) <= run.requests_used
  /\ Cardinality(Sent(W)) <= max_requests - reconciliation_requests

(* A completion whose outcome was lost is never sent again, and a job      *)
(* whose answers were invalid gets one repair: with its availability       *)
(* recoveries that bounds what it may send.                                *)
NeverResent ==
  \A j \in J : /\ lost[j] => at[j] \notin {"complete", "route", "send", "sent", "sent_route"}
               /\ sends[j] <= 2 + 2 * (recovery_attempts + 1)
               /\ Data(j).invalid <= 2

(* Every window that is published has its claims in the latest report, and *)
(* a reconciled report that does not say its coverage is limited has the   *)
(* claims of all windows.                                                  *)
ClaimsKept ==
  /\ \A w \in W : task[w].state = "published" => ClaimsOf[w] \subseteq report.claims
  /\ report.reconciled /\ ~report.limited =>
       \A w \in run.windows : ClaimsOf[w] \subseteq report.claims

(* After "keep only available results" every job of the input that is left *)
(* is cancelled, whatever its last chunks submit: none accounts for another *)
(* request or publishes, and at most the one request each has accounted    *)
(* for still leaves.                                                       *)
StopReachesWindows ==
  input = "stopped" => \A j \in J : task[j].state \in ACTIVE => task[j].cancel

(* The reports say what the windows found, and none appears after a stop.  *)
ReportsTrue == ClaimsKept /\ StopReachesWindows

(* An input whose upstream ends settles: its ledger closes, and when it    *)
(* had anything to extract the reconciliation job is scheduled and ends.   *)
Settles ==
  input = "done" ~> /\ run.closed
                    /\ run.reconcile => task[Rec].state \in Terminal
=============================================================================
