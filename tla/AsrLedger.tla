----------------------------- MODULE AsrLedger -----------------------------
(***************************************************************************)
(* Hosted speech: the reservation ledger asr_requests                      *)
(* (asr/reservations.py), the handler that tries the primary model and     *)
(* then the fallback once (asr/fallback.py), and the owner's retry of the  *)
(* chunks that ran out of quota (api/routes/speech_retry.py).  The jobs    *)
(* are the speech jobs of one capture; they share each model's rolling     *)
(* quota window.  The retry of an upload is the same retry with one job.   *)
(*                                                                         *)
(* A handler run belongs to a lease.  A run that crashes or loses its      *)
(* lease just takes no further step, except that a request it was about to *)
(* send may still go out.                                                  *)
(***************************************************************************)
EXTENDS JobQueue, FiniteSets

CONSTANTS
  Window,     \* length of the rolling window
  Limit,      \* requests per model and window
  Failures,   \* bound: the ways in which a call may fail
  MaxRetries  \* bound: owner retries of one job

ASSUME LedgerAssumption ==
  /\ Window \in Nat /\ Limit \in Nat /\ MaxRetries \in Nat
  /\ IsFiniteSet(Jobs)
  /\ Failures \subseteq {"ASRInvalidResponse", "ASRUnknownOutcome",
                         "ASRQuotaExhausted", "ASROffline"}

VARIABLES
  ledger,  \* the rows of asr_requests
  retries, \* retries[j]: speech_retry in the payload of job j
  quota,   \* the jobs whose failure is ASRQuotaExhausted
  run,     \* run[n]: the handler run of the lease with serial n
  missing, \* the jobs whose validated media was found deleted
  reached  \* the requests that reached the provider (history)

avars == <<ledger, retries, quota, run, reached, missing>>

Models == 1..2     \* the primary, then the fallback

(* What a call ends in.  The names are the exceptions of groq.py, of which *)
(* those the ledger, the retry and the reasons treat alike share one:      *)
(* ASRQuotaExhausted stands for RateLimited too, ASROffline for the others *)
(* that refuse the request.                                                *)
Answers == {"completed"} \cup Failures

Outcomes == Answers \cup {"reserved", "uncertain", "ASRUnknownOutcome"}

(* by tells apart the rows of two leases; 0 is an owner's reservation. *)
Rows == [job : Jobs, model : Models, index : 0..MaxRetries, by : 0..MaxClaims,
         age : 0..Window + MaxLag, outcome : Outcomes, result : BOOLEAN]

(* What a run knows of each model: no row, a row, or that its quota is full. *)
Knowledge == Outcomes \cup {"none", "full"}

Run == [at : {"idle", "load", "loop", "begun", "sending", "answered", "done"},
        seen : [Models -> Knowledge], model : Models \cup {0},
        by : 0..MaxClaims, answer : Answers \cup {"none"}]

Idle == [at |-> "idle", seen |-> [m \in Models |-> "none"], model |-> 0,
         by |-> 0, answer |-> "none"]

AInit == /\ Init
         /\ ledger = {}
         /\ retries = [j \in Jobs |-> 0]
         /\ quota = {}
         /\ run = [n \in 1..MaxClaims |-> Idle]
         /\ reached = {}
         /\ missing = {}

-----------------------------------------------------------------------------
(* Quota *)

(* window_usage() at a timestamp taken lag ago. *)
Used(m, lag) == Cardinality({r \in ledger : r.model = m /\ r.age < Window + lag})

(* Mutant: the request to come is not counted. *)
HasRoomOneMore(m, lag) == Used(m, lag) <= Limit

(* reserve_in() does not raise ASRQuotaExhausted. *)
HasRoom(m, lag) == Used(m, lag) + 1 <= Limit

Reservation(j, m, index, by, lag, outcome) ==
  [job |-> j, model |-> m, index |-> index, by |-> by, age |-> lag,
   outcome |-> outcome, result |-> FALSE]

-----------------------------------------------------------------------------
(* transcribe() *)

RowsOf(j, index) == {r \in ledger : r.job = j /\ r.index = index}

(* attempts(): the latest row of each model in this run of the job. *)
Recorded(j) ==
  [m \in Models |->
     LET rows == {r \in RowsOf(j, retries[j]) : r.model = m} IN
     IF rows = {} THEN "none"
     ELSE (CHOOSE r \in rows : \A s \in rows : r.by >= s.by).outcome]

(* A model without a row is skipped when a later one has a row: its quota  *)
(* was full.                                                               *)
Known(seen) ==
  [m \in Models |-> IF seen[m] = "none" /\ \E n \in Models : n > m /\ seen[n] # "none"
                    THEN "full" ELSE seen[m]]

Pending(n) == {m \in Models : run[n].seen[m] \in {"none", "reserved"}}

NextModel(n) == CHOOSE m \in Pending(n) : \A k \in Pending(n) : m <= k

(* The checks of handle() before transcribe() find the media job of the    *)
(* chunk or upload deleted: the run fails without a look into the ledger.  *)
(* The deletion may come at any time and nothing else of a run reads it,   *)
(* so it is modelled where it is noticed.                                  *)
Unprepared(l) ==
  /\ run[l.serial].at = "idle"
  /\ Fail(l)
  /\ missing' = missing \cup {l.job}
  /\ UNCHANGED <<ledger, retries, quota, run, reached>>

(* attempts() and the reuse of a stored result.  A request id without any  *)
(* row is an unknown outcome.                                              *)
Attempts(l) ==
  LET seen == IF job[l.job].reqid /\ {r \in ledger : r.job = l.job} = {}
              THEN [m \in Models |-> "ASRUnknownOutcome"]
              ELSE Known(Recorded(l.job))
      stored == \E m \in Models : seen[m] = "completed"
  IN
  /\ run[l.serial].at = "idle" /\ LockActive(l)
  /\ run' = [run EXCEPT ![l.serial] =
               [Idle EXCEPT !.at = IF stored THEN "done" ELSE "load", !.seen = seen]]
  /\ UNCHANGED <<vars, ledger, retries, quota, reached, missing>>

(* load() finds no usable audio. *)
LoadFails(l) ==
  /\ run[l.serial].at = "load"
  /\ Fail(l)
  /\ UNCHANGED avars

Begun(l, m, by) ==
  run' = [run EXCEPT ![l.serial] = [@ EXCEPT !.at = "begun", !.model = m, !.by = by]]

(* begin(): claim the owner's reservation, or reserve, or find no room. *)
Begin(l, lag) ==
  LET m == NextModel(l.serial)
      reserved == {r \in RowsOf(l.job, retries[l.job]) :
                     r.model = m /\ r.outcome = "reserved"}
  IN
  /\ run[l.serial].at \in {"load", "loop"} /\ Pending(l.serial) # {}
  /\ LockActive(l)
  /\ \/ \E r \in reserved :
          /\ ledger' = (ledger \ {r}) \cup {[r EXCEPT !.outcome = "uncertain"]}
          /\ Begun(l, m, r.by)
          /\ UNCHANGED job
     \/ /\ reserved = {} /\ HasRoom(m, lag)
        /\ ledger' = ledger \cup
             {Reservation(l.job, m, retries[l.job], l.serial, lag, "uncertain")}
        /\ Update(l.job, [job[l.job] EXCEPT !.reqid = TRUE])
        /\ Begun(l, m, l.serial)
     \/ /\ reserved = {} /\ ~HasRoom(m, lag)
        /\ run' = [run EXCEPT ![l.serial] = [@ EXCEPT !.at = "loop", !.seen[m] = "full"]]
        /\ UNCHANGED <<ledger, job>>
  /\ UNCHANGED <<result, principals, leases, claims, retries, quota, reached, missing>>

(* heartbeat() before and during the call; it raises for a cancelled job. *)
Beat(l) ==
  /\ run[l.serial].at \in {"begun", "sending"}
  /\ Heartbeat(l, 0)
  /\ run' = IF job[l.job].cancel THEN run
            ELSE [run EXCEPT ![l.serial].at = "sending"]
  /\ UNCHANGED <<ledger, retries, quota, reached, missing>>

(* The HTTP request and its answer; the lease may be lost meanwhile. *)
Send(l, answer) ==
  /\ run[l.serial].at = "sending"
  /\ run' = [run EXCEPT ![l.serial] = [@ EXCEPT !.at = "answered", !.answer = answer]]
  /\ reached' = IF answer = "ASROffline" THEN reached
                ELSE reached \cup {[job |-> l.job, model |-> run[l.serial].model,
                                    gen |-> l.gen, by |-> l.serial]}
  /\ UNCHANGED <<vars, ledger, retries, quota, missing>>

Finished(l, r) == /\ r.job = l.job /\ r.model = run[l.serial].model
                  /\ r.by = run[l.serial].by /\ r.outcome = "uncertain"

(* The run goes on with what complete() recorded. *)
Continued(l) ==
  LET answer == run[l.serial].answer IN
  run' = [run EXCEPT ![l.serial] =
            [@ EXCEPT !.at = IF answer = "completed" THEN "done" ELSE "loop",
                      !.seen[run[l.serial].model] = answer]]

(* Mutant: the answer is stored by request id, without the lease. *)
CompleteUnfenced(l) ==
  /\ run[l.serial].at = "answered"
  /\ \E r \in ledger :
       /\ Finished(l, r)
       /\ ledger' = (ledger \ {r}) \cup
            {[r EXCEPT !.outcome = run[l.serial].answer,
                       !.result = (run[l.serial].answer = "completed")]}
  /\ Continued(l)
  /\ UNCHANGED <<vars, retries, quota, reached, missing>>

(* complete() *)
Complete(l) ==
  /\ run[l.serial].at = "answered" /\ LockActive(l)
  /\ \E r \in ledger :
       /\ Finished(l, r)
       /\ ledger' = (ledger \ {r}) \cup
            {[r EXCEPT !.outcome = run[l.serial].answer,
                       !.result = (run[l.serial].answer = "completed")]}
  /\ Continued(l)
  /\ UNCHANGED <<vars, retries, quota, reached, missing>>

PublishSpeech(l) ==
  /\ run[l.serial].at = "done"
  /\ Publish(l, {})
  /\ UNCHANGED avars

(* Both models failed: the reason of the fallback is the job's failure. *)
FailSpeech(l) ==
  /\ run[l.serial].at \in {"load", "loop"} /\ Pending(l.serial) = {}
  /\ Fail(l)
  /\ quota' = IF run[l.serial].seen[2] \in {"full", "ASRQuotaExhausted"}
              THEN quota \cup {l.job} ELSE quota
  /\ UNCHANGED <<ledger, retries, run, reached, missing>>

-----------------------------------------------------------------------------
(* Owners *)

UNSAFE_TO_RESEND == {"reserved", "uncertain", "ASRUnknownOutcome", "completed"}

(* Mutant: a call without a recorded answer is forgotten. *)
ReplaySafeForgetful(j) ==
  \A r \in RowsOf(j, retries[j]) : r.outcome \notin UNSAFE_TO_RESEND \ {"uncertain"}

(* replay_safe() *)
ReplaySafe(j) == \A r \in RowsOf(j, retries[j]) : r.outcome \notin UNSAFE_TO_RESEND

(* A job whose media was deleted is left alone, or blocks every retry      *)
(* until the tombstone of the media job is purged.                         *)
Blocked ==
  {j \in Jobs \ missing : job[j].state = "failed" /\ j \in quota /\ ReplaySafe(j)}

(* _reserve_either() for every blocked job: the primary as long as it has  *)
(* room, then the fallback, or nothing at all.                             *)
Assignments ==
  {to \in [Blocked -> Models] :
     \A m \in Models :
       LET mine == Cardinality({j \in Blocked : to[j] = m})
           room == IF Used(m, 0) >= Limit THEN 0 ELSE Limit - Used(m, 0)
       IN /\ mine <= room
          /\ m = 1 /\ mine < room => mine = Cardinality(Blocked)}

Requeue(js) ==
  job' = [j \in Jobs |->
            IF j \in js
            THEN [job[j] EXCEPT !.state = "queued", !.gen = @ + 1, !.reqid = TRUE,
                                !.counts = [c \in Classes |-> 0]]
            ELSE job[j]]

(* retry_speech() that is accepted. *)
RetrySpeech ==
  /\ Blocked # {}
  /\ \A j \in Jobs : InTable(j) => /\ job[j].owner \in principals /\ ~job[j].cancel
                                   /\ job[j].state \notin {"deleted", "cancelled"}
  /\ \A j \in Blocked : retries[j] < MaxRetries
  /\ \E to \in Assignments :
       ledger' = ledger \cup {Reservation(j, to[j], retries[j] + 1, 0, 0, "reserved") :
                                j \in Blocked}
  /\ Requeue(Blocked)
  /\ retries' = [j \in Jobs |-> retries[j] + IF j \in Blocked THEN 1 ELSE 0]
  /\ quota' = quota \ Blocked
  /\ UNCHANGED <<result, principals, leases, claims, run, reached, missing>>

(* delete(): the stored speech goes with the job. *)
DeleteSpeech(j) ==
  /\ Delete(j)
  /\ ledger' = {IF r.job = j THEN [r EXCEPT !.result = FALSE] ELSE r : r \in ledger}
  /\ UNCHANGED <<retries, quota, run, reached, missing>>

(* The media job of a failed speech job is deleted: retries pass it over.  *)
DeleteMedia(j) ==
  /\ job[j].state = "failed" /\ j \notin missing
  /\ missing' = missing \cup {j}
  /\ UNCHANGED <<vars, ledger, retries, quota, run, reached>>

-----------------------------------------------------------------------------
Older(r) == [r EXCEPT !.age = IF @ < Window + MaxLag THEN @ + 1 ELSE @]

Time == /\ Tick
        /\ ledger' = {Older(r) : r \in ledger}
        /\ UNCHANGED <<retries, quota, run, reached, missing>>

HandlerStep(l) ==
  \/ Unprepared(l) \/ Attempts(l) \/ LoadFails(l) \/ Beat(l) \/ Complete(l)
  \/ \E lag \in 0..MaxLag : Begin(l, lag)
  \/ \E answer \in Answers : Send(l, answer)
  \/ PublishSpeech(l) \/ FailSpeech(l)
  \/ (Start(l) \/ Release(l) \/ Cancel(l)) /\ UNCHANGED avars

ANext ==
  \/ \E k \in Keys, o \in Owners : Enqueue(k, o) /\ UNCHANGED avars
  \/ \E w \in Workers : Claim(w, 0) /\ UNCHANGED avars
  \/ \E l \in leases : HandlerStep(l)
  \/ \E j \in Jobs : RequestCancel(j) /\ UNCHANGED avars
  \/ \E j \in Jobs : DeleteSpeech(j) \/ DeleteMedia(j)
  \/ RetrySpeech
  \/ Time

ASpec == AInit /\ [][ANext]_<<vars, avars>>

-----------------------------------------------------------------------------
(* Properties *)

LedgerTypeOK ==
  /\ ledger \subseteq Rows
  /\ retries \in [Jobs -> 0..MaxRetries]
  /\ quota \subseteq {j \in Jobs : job[j].state \in {"failed", "deleted"}}
  /\ run \in [1..MaxClaims -> Run]

(* In one run of a job, which its generation counts, no model receives the *)
(* audio twice, whatever leases expire or crash during the call.           *)
OncePerModel ==
  \A c, d \in reached : c.job = d.job /\ c.model = d.model /\ c.gen = d.gen => c = d

(* "An unknown outcome is never resent": once a call of a job has no       *)
(* certain outcome, no later retry of the job sends its audio again.       *)
UnknownNeverResent ==
  \A r, s \in ledger : r.job = s.job /\ r.outcome \in {"uncertain", "ASRUnknownOutcome"}
                         => s.index <= r.index

(* No lease sends audio a second time to the model that got it in this run *)
(* of the job, and no owner's retry follows a call whose outcome is not    *)
(* known.  A retry may follow a call that was answered: see                *)
(* RetriedOnlyWhenRefused.                                                 *)
NeverSentAgain == OncePerModel /\ UnknownNeverResent

(* "A chunk is retried only after both models refused it for quota and     *)
(* neither attempt may have reached the provider": the runs an owner's     *)
(* retry left behind hold no call the provider processed.                  *)
RetriedOnlyWhenRefused ==
  \A r \in ledger : r.index < retries[r.job] =>
    r.outcome \notin {"completed", "ASRInvalidResponse", "uncertain", "ASRUnknownOutcome"}

(* The speech a provider delivered is kept: a job whose latest run has a   *)
(* stored result does not fail, unless its media was deleted.              *)
PaidResultIsKept ==
  \A r \in ledger : r.outcome = "completed" /\ r.index = retries[r.job]
                        /\ job[r.job].state = "failed" => r.job \in missing

(* In every rolling window a model gets at most Limit requests, whoever    *)
(* reserves them and however late their transactions commit.               *)
WindowRespected ==
  \A m \in Models, a \in 0..MaxLag :
    Cardinality({r \in ledger : r.model = m /\ a <= r.age /\ r.age < a + Window}) <= Limit

(* No stored speech outlives the deletion of its job, even when the answer *)
(* arrives afterwards.                                                     *)
DeletedSpeechErased ==
  \A r \in ledger : job[r.job].state = "deleted" => ~r.result

(* Delivered speech is not lost to a failure while its media exists, and   *)
(* is not kept after the deletion of its job.                              *)
SpeechKept == PaidResultIsKept /\ DeletedSpeechErased
=============================================================================
