----------------------------- MODULE JobService -----------------------------
(***************************************************************************)
(* What owners and routes do to jobs, on top of the queue:                 *)
(*   - cancel with a durable receipt, forwarded along a reanalysis request *)
(*     (api/routes/jobs.py), and delete;                                   *)
(*   - the fenced publication of an evidence stage, which repoints the     *)
(*     request at its successor (evidence/stages.py);                      *)
(*   - the retry of a speech job that ran out of quota                     *)
(*     (api/routes/speech_retry.py), which puts a failed job back in the   *)
(*     queue.                                                              *)
(* There is one reanalysis request and one uploaded investigation.  The    *)
(* cancel route is two steps: the unlocked read with the lock of the       *)
(* request row, and the rest of the transaction.  Heartbeats, checkpoints, *)
(* releases and retries write no column that is read here and are left to  *)
(* Worker; a lease is given back by its expiry.                            *)
(***************************************************************************)
EXTENDS JobQueue

CONSTANTS
  EvidenceKeys,  \* stage keys of the jobs that work for the request
  ReanalysisKey, \* the one the request starts with
  UploadKeys,    \* intake, media_validation and upload_asr of the upload
  IntakeKey, MediaKey, SpeechKey,
  NoJob

(* The stages of the request hand it on to at most one of themselves, and  *)
(* the upload has its own.                                                 *)
ASSUME ServiceAssumption ==
  /\ EvidenceKeys \subseteq Keys \ RetentionKeys /\ ReanalysisKey \in EvidenceKeys
  /\ UploadKeys \subseteq Keys \ RetentionKeys /\ {IntakeKey, MediaKey, SpeechKey} \subseteq UploadKeys
  /\ EvidenceKeys \cap UploadKeys = {} /\ NoJob \notin Jobs
  /\ \A k \in EvidenceKeys : \A succ \in Fanouts[k] :
       succ \subseteq EvidenceKeys /\ \A a, b \in succ : a = b
  /\ \A k \in UploadKeys : \A succ \in Fanouts[k] : succ \cap EvidenceKeys = {}

VARIABLES
  receipt,    \* receipt[j]: jobs.cancel_outcome
  quota,      \* the jobs whose failure is ASRQuotaExhausted
  request,    \* reanalysis_requests.job_id
  cancelling, \* the cancel transaction in progress: its job and the job the
              \* locked request row pointed at
  fence       \* the upload_text row without media job, which a deletion leaves

svars == <<receipt, quota, request, cancelling, fence>>

Outcome == {"none", "effective", "requested", "not_cancellable"}

NoCancel == [job |-> NoJob, current |-> NoJob]

ServiceTypeOK ==
  /\ receipt \in [Jobs -> Outcome]
  /\ quota \subseteq {j \in Jobs : job[j].state = "failed" \/ ~job[j].payload}
  /\ request \in Jobs \cup {NoJob}
  /\ cancelling \in [job : Jobs \cup {NoJob}, current : Jobs \cup {NoJob}]
  /\ fence \in BOOLEAN

SInit == /\ Init
         /\ receipt = [j \in Jobs |-> "none"]
         /\ quota = {} /\ request = NoJob /\ cancelling = NoCancel
         /\ fence = FALSE

KeyOf(j) == job[j].key

(* The request row is locked by a cancel of one of its jobs. *)
RequestLocked == cancelling.job # NoJob /\ KeyOf(cancelling.job) \in EvidenceKeys

-----------------------------------------------------------------------------
(* Producing and running jobs *)

RequestReanalysis(o) ==
  /\ ReanalysisKey \in Keys /\ \A j \in Jobs : KeyOf(j) # ReanalysisKey
  /\ Enqueue(ReanalysisKey, o)
  /\ request' \in {j \in Jobs : job'[j] # job[j]}
  /\ UNCHANGED <<receipt, quota, cancelling, fence>>

CompleteUpload(o) ==
  /\ IntakeKey \in Keys /\ \A j \in Jobs : KeyOf(j) # IntakeKey
  /\ Enqueue(IntakeKey, o)
  /\ UNCHANGED svars

(* Mutant: the lock of the request row is not taken. *)
PublishEvidenceUnlocked(l, succ) ==
  /\ KeyOf(l.job) \in EvidenceKeys
  /\ Publish(l, succ)
  /\ IF succ = {} THEN UNCHANGED request
     ELSE request' \in {j \in Jobs : job'[j].state \in JobState /\ job'[j].key \in succ}
  /\ UNCHANGED <<receipt, quota, cancelling, fence>>

(* publish_evidence_stage(): takes the request row lock first. *)
PublishEvidence(l, succ) ==
  /\ KeyOf(l.job) \in EvidenceKeys
  /\ ~RequestLocked
  /\ Publish(l, succ)
  /\ IF succ = {} THEN UNCHANGED request
     ELSE request' \in {j \in Jobs : job'[j].state \in JobState /\ job'[j].key \in succ}
  /\ UNCHANGED <<receipt, quota, cancelling, fence>>

PublishUpload(l, succ) ==
  /\ KeyOf(l.job) \in UploadKeys
  /\ Publish(l, succ)
  /\ UNCHANGED svars

FailStage(l, exhausted) ==
  /\ exhausted => KeyOf(l.job) = SpeechKey
  /\ Fail(l)
  /\ quota' = IF exhausted THEN quota \cup {l.job} ELSE quota
  /\ UNCHANGED <<receipt, request, cancelling, fence>>

RunJobs ==
  \/ \E w \in Workers : Claim(w, 0) /\ UNCHANGED svars
  \/ \E l \in leases : (Start(l) \/ Cancel(l)) /\ UNCHANGED svars
  \/ \E l \in leases, succ \in UNION {Fanouts[k] : k \in Keys} :
       PublishEvidence(l, succ) \/ PublishUpload(l, succ)
  \/ \E l \in leases, exhausted \in BOOLEAN : FailStage(l, exhausted)

-----------------------------------------------------------------------------
(* cancel_owned_job() *)

(* The read without a lock, then _lock_request(). *)
CancelPeek(j) ==
  /\ cancelling = NoCancel
  /\ InTable(j) /\ job[j].state # "deleted" /\ job[j].owner \in principals
  /\ cancelling' = [job |-> j,
                    current |-> IF KeyOf(j) \in EvidenceKeys THEN request ELSE NoJob]
  /\ UNCHANGED <<vars, receipt, quota, request, fence>>

RequestCancelOutcome(j) ==
  CASE job[j].state = "queued" -> "effective"
    [] job[j].state \in LEASED_STATES -> "requested"
    [] OTHER -> "not_cancellable"

(* request_cancel() inside the transaction, which may change nothing. *)
TryCancel(j) == RequestCancel(j) \/ (job[j].state \notin ACTIVE /\ UNCHANGED vars)

(* The outcome is stored and, by the route, answered. *)
Answer(j, outcome) == receipt' = [receipt EXCEPT ![j] = outcome]

(* The rest of the transaction.  The state of the current job is read      *)
(* without a lock: it may have become cancelled when request_cancel()      *)
(* locks it, and then the cancel is refused.                               *)
CancelFinish ==
  LET j == cancelling.job
      current == cancelling.current
  IN
  /\ cancelling # NoCancel
  /\ \/ /\ ~InTable(j) \/ job[j].state = "deleted"      \* 404
        /\ UNCHANGED <<vars, receipt>>
     \/ /\ InTable(j) /\ job[j].state # "deleted"
        /\ \/ /\ receipt[j] # "none"
              /\ Answer(j, receipt[j]) /\ UNCHANGED vars
           \/ /\ receipt[j] = "none" /\ job[j].state = "cancelled"
              /\ Answer(j, "effective") /\ UNCHANGED vars
           \/ /\ receipt[j] = "none" /\ job[j].state = "published"
              /\ current \notin {NoJob, j}
              /\ \/ /\ job[current].state = "cancelled"
                    /\ Answer(j, "effective") /\ UNCHANGED vars
                 \/ Answer(j, RequestCancelOutcome(current)) /\ TryCancel(current)
           \/ /\ receipt[j] = "none" /\ job[j].state # "cancelled"
              /\ job[j].state = "published" => current \in {NoJob, j}
              /\ Answer(j, RequestCancelOutcome(j)) /\ TryCancel(j)
  /\ cancelling' = NoCancel
  /\ UNCHANGED <<quota, request, fence>>

-----------------------------------------------------------------------------
(* Mutant: no fence outlives the tombstone. *)
DeleteJobUnfenced(j) ==
  /\ Delete(j)
  /\ UNCHANGED svars

(* delete_job(), with the source fence queue.delete() leaves behind *)
DeleteJob(j) ==
  /\ Delete(j)
  /\ fence' = (fence \/ KeyOf(j) \in UploadKeys)
  /\ UNCHANGED <<receipt, quota, request, cancelling>>

(* The purge of a tombstone: the request loses its reference (ON DELETE    *)
(* SET NULL), which takes the lock of its row.                             *)
PurgeJob(j) ==
  /\ request = j => ~RequestLocked
  /\ Purge(j)
  /\ receipt' = [receipt EXCEPT ![j] = "none"]
  /\ request' = IF request = j THEN NoJob ELSE request
  /\ UNCHANGED <<quota, cancelling, fence>>

-----------------------------------------------------------------------------
Requeued(r) == [r EXCEPT !.state = "queued", !.gen = @ + 1,
                         !.counts = [c \in Classes |-> 0]]

(* retry_speech() that is accepted: a model has room for the reservation.  *)
(* Every other outcome writes nothing but its idempotency receipt.         *)
RetrySpeech(j) ==
  /\ KeyOf(j) = SpeechKey /\ job[j].state = "failed" /\ j \in quota
  /\ job[j].owner \in principals
  /\ ~fence
  /\ \A i \in Jobs : InTable(i) /\ KeyOf(i) \in UploadKeys =>
       ~job[i].cancel /\ job[i].state \notin {"deleted", "cancelled"}
  /\ \E i \in Jobs : KeyOf(i) = MediaKey /\ job[i].state = "published"
  /\ Update(j, Requeued(job[j]))
  /\ quota' = quota \ {j}
  /\ UNCHANGED <<result, principals, leases, claims,
                 receipt, request, cancelling, fence>>

SNext ==
  \/ \E o \in Owners : RequestReanalysis(o) \/ CompleteUpload(o)
  \/ RunJobs
  \/ \E j \in Jobs : CancelPeek(j) \/ DeleteJob(j) \/ PurgeJob(j) \/ RetrySpeech(j)
  \/ CancelFinish
  \/ Tick /\ UNCHANGED svars

SSpec == SInit /\ [][SNext]_<<vars, svars>>

-----------------------------------------------------------------------------
(* Properties *)

WorksForRequest(j) == KeyOf(j) \in EvidenceKeys

(* Cancelling any job of a reanalysis request reaches the work that is     *)
(* still running for it: after an "effective" or "requested" answer no     *)
(* step of the request is left that may still publish, and the request     *)
(* does not end in a published step.                                       *)
AcceptedCancelStops ==
  \A j \in Jobs : WorksForRequest(j) /\ receipt[j] \in {"effective", "requested"} =>
    /\ \A i \in Jobs : WorksForRequest(i) /\ job[i].state \in ACTIVE => job[i].cancel
    /\ request # NoJob => job[request].state # "published"

(* A cancel of a request's job is only refused when no job of the request  *)
(* is left to cancel, however the publication of a step and the cancel     *)
(* interleave.                                                             *)
RefusedCancelIsOver ==
  \A j \in Jobs : WorksForRequest(j) /\ receipt[j] = "not_cancellable" =>
    \A i \in Jobs : WorksForRequest(i) => job[i].state \notin ACTIVE

(* The answer of the cancel route is true of the whole request.            *)
CancelAnswersTrue == AcceptedCancelStops /\ RefusedCancelIsOver

(* A speech job is never put back in the queue once a job of its upload    *)
(* was deleted, even after the tombstone itself was purged.                *)
DeletionBlocksSpeechRetry ==
  [][\A j \in Jobs : job[j].state = "failed" /\ job'[j].state = "queued" =>
       \A i \in Jobs : KeyOf(i) \in UploadKeys
                         => job[i].state \notin {"deleted", "gone"}]_vars

=============================================================================
