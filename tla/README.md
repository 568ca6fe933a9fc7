# Verification of the ovrly backend

ovrly is an Android companion that captures or receives short video clips and a
Python backend that transcribes them, extracts claims, retrieves evidence and
publishes versioned reports. This directory holds TLA+ models of the parts of
the backend that are hard to test: the durable job queue with its leases and
fences, the pipelines that run on it (captures, uploads, extraction, evidence),
the ledgers that bound what is sent to paid providers, and the accounts that
own it all. TLC checks small instances of
every model; TLAPS proves, for every instance, every safety property that the
passing runs check, and that the queue implements the state machine. Four runs
show where the code does not do what one of its own docstrings says.

Paths below are relative to `src/backend/services/` unless they start with
another directory of the repository.

## 1. The system and its parts

The API (`api/`) and one or more workers (`worker/`) share a PostgreSQL
database and talk to each other only through it. A *job* is a row with an
idempotent stage key, a state, a lease (owner, fencing token, expiry) and a
generation. A worker claims a job, runs the handler of its stage and publishes
a result, which in the same transaction enqueues the successor stages. Owners
cancel, delete and retry through the API while workers run; a retention job
erases expired workspaces. Handlers call paid providers, whose requests are
booked in ledgers before they are sent.

| part | state it keeps | operations | what is hard | what makes it correct |
|---|---|---|---|---|
| state machine `jobs/states.py` | state, `cancel_requested` | ten events | - | legal events only; cancellation is sticky |
| queue `jobs/queue.py`, `jobs/models.py` | `jobs`, `job_results` | enqueue, claim (with the expiry sweep), start, heartbeat, publish, save_stage_data, fail, retry, record_request_id, release, cancel, request_cancel, delete | late workers, expiry at the boundary of two clocks, races of cancel, retry, expiry and deletion | one lease passes the fence; results are those of the newest lease; cancelled and deleted work stays so |
| worker `worker/runtime.py`, `jobs/handlers.py`, `jobs/retries.py` | the claimed job in memory | poll, execute, heartbeat, retry decision, release, stop | crashes, lost answers, stale counters, shutdown | retry caps, reconciliation after unknown outcomes, drained shutdown, every job ends |
| job routes `api/routes/jobs.py` | `cancel_outcome`, `reanalysis_requests.job_id` | cancel, delete | a request moves from job to job while it is cancelled | an accepted cancel stops the request, a refused one had nothing to stop |
| speech retry `api/routes/speech_retry.py` | the job row, a reservation | retry | revives a failed job outside the state machine | cancelled or deleted uploads stay so; no audio of unknown fate is resent |
| hosted speech `asr/reservations.py`, `asr/fallback.py` | `asr_requests` | begin, complete, attempts, reserve | crash around the paid call, shared rolling windows | at most once per model and run; windows are respected; paid results are kept |
| reports `reports.py`, `reanalysis.py`, `evidence/stages.py` | report versions, `result_version` | correction, deeper check, expansion, assessment | minutes pass between reading a version and publishing the next | no version undoes a correction or shows an assessment of another meaning |
| captures `pipeline/capture.py`, `captures.py`, `api/routes/captures.py` | session, chunks, stored bytes | create, reserve and stream a chunk, close, stage publications, sweep | a receipt spans two transactions and a file; the last stages publish at once; Stop meets running stages | an acknowledged chunk is stored and accounted for; the fan-in is enqueued once; Stop reaches every stage |
| uploads and device text `api/routes/device_text.py`, `pipeline/analysis.py`, `pipeline/producers.py` | `upload_text`, `media_analysis`, the audio artifact | text batch, completion, deadline, settlement | the deadline is read by one transaction and resolved by another while text and speech arrive | accepted text is extracted or recorded as late; the analysis shown is true; the input settles |
| claim extraction `pipeline/incremental.py`, `pipeline/extraction.py`, `pipeline/llm.py`, `pipeline/reconciliation.py` | `extraction_runs`, `stage_data` | admit, cut windows, request, repair, reroute, publish, reconcile | crash with a request in flight; observations that arrive in any order | the reconciliation reserve is kept, nothing unknown is resent, every observation is covered or reported |
| provider budgets `providers/budget.py`, `provider_budgets.py` | buckets, slots | acquire, refund, slot, cool down | slots expire under crashed processes; refunds arrive late | limits hold across processes; a request waits for a bounded time |
| evidence `evidence/retrieval.py`, `evidence/assessment.py`, `providers/` | the run in memory, its durable input | plan, search, collapse versions, rank, fetch, label | partial failure of searches and labels, redirects, restarts | the verdict claims no more than was found; calls are bounded; no private address is dialled |
| accounts `auth/`, `quotas.py`, `api/routes/` (uploads, investigations, principals, saved reports, voice) | principals, links, uploads, idempotency keys, usage | authenticate, link, save, upload, admit, voice save, expire | a request acts under a principal that was merged or erased meanwhile | saved reports survive a link; admission is once per key and within the quota |
| retention `privacy.py` | principals, tombstones | expire workspace, purge, sweep reservations | workers and requests write while the workspace goes | nothing of a job outlives its workspace |
| Android app `android/` | capture spool, UI state | record, upload, share, voice | platform callbacks | uploads are neither lost nor repeated |

`PROJECT.json` lists every part with its status, and under `hazards` the places
in the code that are hard to test together with the properties that cover them.

## 2. Modules

    JobStates            the pure functions of jobs/states.py
      JobLifecycle       abstract specification: the life of a row
      JobQueue           every transaction on jobs and job_results
        JobQueue_proofs  fencing, cancellation, erasure, the refinement of JobLifecycle
        Worker           the worker process on top of the queue
        JobService       cancel, delete, request hand-on, speech retry (row side)
          QueueUsers_proofs  retries, shutdown, cancel answers (with JobQueue_proofs)
        AsrLedger        hosted speech: ledger, handler, retry (ledger side)
        Reports          report versions and the stages that publish them
          Stages_proofs  calls sent once, corrections kept (with JobQueue_proofs)
      Capture            a live capture: session, chunks, bytes, stage jobs
        Capture_proofs   receipts, the fan-in and Stop, gaps
      Upload             an uploaded clip: media, speech, device text, deadline
        Upload_proofs    text kept or erased, what the client reads
      Extraction         the request ledger and the window and reconciliation jobs
        Extraction_proofs  the reserve, unknown outcomes, reports
    Windows              the observation ledger and how it is cut into windows
      Claims             quotes, grounding, merging and reconciling claims
        (Capture_proofs) windows cover the input, claims are grounded, corrections end
    Budget               token buckets, request slots, shared admission
    Evidence             retrieval and assessment of one claim
      Providers_proofs   limits and pauses; call budget, egress, the verdict
    Accounts             principals, linking, uploads, admission, quotas, voice
      Accounts_proofs    serialized requests, quotas, saved reports
    MC<module>           instances for TLC
      MCWorkerExtraction, MCUploadBudget, MCCaptureClaimsEvidence
                         several instances in one run, one at a time

Indentation is `EXTENDS`. `Worker`, `JobService`, `AsrLedger` and `Reports` add
their state to the whole queue and conjoin its actions. `Capture`, `Upload` and
`Extraction` have several jobs of fixed stages each; they keep of a job its
status and what its handler returned, and use the events of `JobStates`. That a
late lease cannot publish is what `JobQueue` shows, so there "leased" and
"running" are one state and a crash, an expiry or a release brings a job back to
the queue.

The last three MC modules put components that share no state into one run: the
variable `part` is chosen in the initial state and never changes, only the
chosen component steps, and each has the fairness of its own specification. The
states of such a run are those of its components side by side, not their
product. For this the top-level names of the components differ (`XSpec`,
`USpec`, `BSpec`, `PSpec`, ...).

### Conventions

* One action is one committed transaction. A compare-and-set that matches no
  row raises or returns `False` and writes nothing: that is a stuttering step
  of the queue. `Worker` models the caller's reaction to it. In `Reports` and
  `AsrLedger` a handler run that loses its lease simply takes no further
  fenced step.
* What the code does in two transactions, or reads without a lock and writes
  later, is two actions (`CancelPeek`/`CancelFinish`,
  `AssessmentReads`/`AssessmentPublishes`, `Reserve`/`WriteBytes`/`Receive`,
  `ResolveRead`/`ResolveCommit`, `CreateCheck`/`CommitCheck`). What it does
  outside of any transaction (bytes in the file store, a request to a provider)
  is an action too and is not undone by a rollback.
* `leases` holds every lease ever granted. Any of them may be presented again
  at any time, which covers suspended, partitioned and restarted workers.
* Time is relative: `ttl` is `lease_expires_at - clock`, `wait` is
  `available_at - clock`. `now()` is the start of the transaction and
  `clock_timestamp()` the moment of evaluation; `lag` is their difference.
  Values past every comparison in the code are not counted down further.
  Where only "before or after the deadline" is compared, time is a flag.
* A row is "absent" before its insertion and "gone" after its purge, so job ids
  are never reused (they are uuid4).
* Payloads, results, claims and transcripts are abstracted to what is compared:
  whether a payload still has content, which lease wrote a checkpoint, how
  often a claim was corrected and which meaning an assessment is about, whether
  a frame has words, which letters a quote consists of.
* Crashes, lost answers, infrastructure errors and the owner's interventions
  that would otherwise repeat for ever are *faults*, counted and bounded by
  `MaxFaults` (`MaxLosses` in `Extraction`, `MaxRestarts` in `Evidence`).
* History variables, marked as such where they are declared, record what a
  provider received, what a client was told or what an owner erased; no guard
  reads them.
* Each module states one type invariant or none. `TypeOK` of `JobQueue` is
  proved, `LedgerTypeOK` as a part of `AInv` and `TypeOK` of `Accounts` as a part
  of `Typed`; the proof modules of the other components state the type invariant
  their induction needs. `WorkerTypeOK`, `ServiceTypeOK` and `ReportsTypeOK`
  document the state and can be added to a configuration as they are.
* A mutant is an operator just before the definition it replaces; its comment
  names the bug it stands for.

### Correspondence

**JobStates / JobLifecycle.** `Legal`, `Apply` and `CheckInvariants` are
`is_legal()`, `apply()` and `check_invariants()`. `JobLifecycle` allows a
transaction to move each row by one event, or by expiry and a new claim
together, as a claim transaction does.

**JobQueue.** `job[j]` is the row (`token`, `gen`, `lessee`, `ttl`, `wait`,
`counts`, `reqid`, ...), `result[j]` the result row, `principals` the
workspaces that still exist. `Owned`, `Held` and `LockActive` are the fences
`_owned()`, `_fenced_update()` with leased states, and the condition of
publish, save_stage_data and lock_active. `Swept` is the expiry sweep inside
`claim()`. The remaining actions have the names of the queue's methods;
`ExpireWorkspace` and `Purge` are the retention transactions of `privacy.py`.
Which ready job a claim takes is left open: rows locked elsewhere are skipped
and workers ask for their own stages only.

**Worker.** `pc[w]` is the `await` a process is at, `mem[w]` the `ClaimedJob`
it holds, a snapshot taken by the claim: the retry decision uses its counters,
as `_retry()` does. `Withdraw` is the capture publication that asks for
cancellation instead; `PublishResult` includes the commit whose answer is lost
and the `ValueError` of an owner clash, which ends the worker's task. Crashes,
infrastructure errors, stalls and shutdowns are faults.

**JobService.** `receipt` is `cancel_outcome`, `request` the job a reanalysis
request points at, `fence` the `upload_text` row a deletion leaves behind.
`PublishEvidence` waits for the request row that a cancel has locked.

**AsrLedger.** `ledger` is the set of `asr_requests` rows, `run[n]` the handler
run of the n-th lease, `reached` a history of what the provider received.
A run begins with the checks of `handle()`, which fail the job without a look
into the ledger when its media job was deleted (`Unprepared`; `missing` is the
history of that), or with `Attempts`, which reuses a stored result or learns
which models were tried. `Begin` marks the row `uncertain` before the call,
`Complete` records the answer behind the fence. The other checks (settings hash,
source digest, configured account, `asr/reservations.py:83`) compare values that
do not change between the enqueueing and the run of a job. Exceptions of the adapter that the ledger, the retry and the
failure reasons treat alike share a name.

**Reports.** `versions` is the list of report versions; for each claim id it
holds the meanings it is listed with (counts of corrections; an imported claim
may be listed twice) and the meaning its assessment is about. A correction may
be of any listed claim (`corrected_report()` looks up the id alone) and replaces
every listing of it; `Reconcile` publishes the reconciliation of the extraction
when the version it was asked for is still the latest, and plans the retrieval
of what is current and unassessed. Two assessments of one id are an invalid
citation, which fails the job. Whether a version is provisional is left out.
Assessment and expansion write their version
in a transaction of their own, before the publication of their job. The
reanalysis and retrieval jobs before an assessment publish no version and are
one step.

**Capture.** `session` is the `capture_sessions` row, `chunk[s]` the
`capture_chunks` row with its receipt and fan-in, `store[s]` the bytes under its
storage key, `put[p]` an upload request between its two transactions, `job[i]` a
stage job. `Reserve`, `WriteBytes` and `Receive` are the steps of the chunk
upload, `Duplicate` its replay; `Abandon` is a request that ends anywhere in
between. `CloseCapture` is Stop, with or without continued research.
`PublishChunk` is `publish_capture_stage()` with the fan-out, the fan-in and the
withdrawal of a stopped capture. The read models (`Missing`, `PendingChunks`,
`AnalyzedChunks`, `AnalysisStatus`, `WorkStatus`) are operators, which the
properties compare with the state.

**Upload.** `job["text"]` is the job row that fences the document, `doc` the
`upload_text` row, `analysis` the `media_analysis` row, `found` and `due` what a
handler or a claim has read and not yet committed, `ledger` the part of
`extraction_runs` that text can reach. `PutBatch` and `CompleteText` are the
device-text routes, `Due` lets the deadline pass, `ResolveRead`/`ResolveCommit`
are `resolve_due()`, `SettleInput` is `settle_inputs()`. `NonRetriableInput` of
`submit_observations()` (`pipeline/producers.py:370` and `:446`) is left out: it
is raised for a policy, an approval or a timebase that differs from the stored
one, for a changed observation and for one over the length bound, while the
producers pass back the stored policy and approval, use one timebase, build
observations from immutable batches and cut them to the bound.

**Extraction.** `run` is the `extraction_runs` row with its request count,
`task[j].data` the attempts in `stage_data`, `at[j]` the point the handler has
reached: accounting (`Account`), the request (`Send`), its answers
(`Unavailable`, `Valid`, `Invalid`, `Denied`), the fallback provider (`Routed`)
and the feedback round of the reconciliation. The token limit is a refusal that
may come at any `Account`, so of `record_request()` only the request half is
stated. A request that was counted is sent even if a cancellation arrives in
between, as the code does not look again. `PublishTask` conjoins the report
version with the publication of the job; what reconciliation hands on to
retrieval is in `Claims` and `Reports`. `sends` and `lost` are histories.

**Windows / Claims.** `Admitted` and `Cut` are the ledger's admission and its
windows; `Progress` is `extraction_progress()`. Of the pressure that widens a
window (`Threshold`) the share of requests used is kept; the share of tokens
(`pipeline/incremental.py:176`) has the same effect. The checks of
`grounded_claims()` on mixed speakers and on lengths are left out, so `Grounded`
accepts more answers than the code does. `Claims` resolves the quotes of
a completion to spans (exact before case-insensitive, without quotation marks
that the text does not have, each repetition taking the next appearance),
accepts an answer that is grounded in its window, adds its claims to the report
and lets the reconciliation reword claims or declare that one corrects another.
A claim is identified by the spans of its sources.

**Budget.** `bucket[b]` is a `provider_buckets` row with its balance brought
forward, `slot[s]` a `provider_slots` row, `caller[c]` a process inside
`TokenBucket.request()` or `LlmAdmission`. `quotas_enabled` is chosen once:
without quotas concurrency is 0 and `request()` is `acquire()` (`Acquire`,
`LimitedAcquire`, `AnswerUnslotted`), which needs no slot and bounds each single
wait only. `Dies` loses a process anywhere; its units and its slot stay behind.

**Evidence.** `pc` follows one claim through planning, search, reading and
assessment. `Dedupe`, `Ranked`, the label rules and `Overall` are operators
translated from the pure functions; `FetchHop` is one redirect under the egress
guard, with the address the name resolves to chosen freshly. `Restart` runs the
interrupted stage again with a fresh `CallBudget`, as the code does; the history
`billed` counts the router calls of all runs.

**Accounts.** `caller[r]` is the principal a request authenticated as, which
`LinkFirst`, `LinkSecond` and `Expire` may have merged or erased since.
`CreateCheck`, `CommitCheck` and `AbortCheck` are the admission transaction of
an investigation, under the owner's lock only when quotas are enabled (`quotas`
is chosen once). `check[i].jobs` says whether an investigation has jobs that
`active_checks()` counts: since its admission (`first`), not any more (`none`,
`Publish`), or again (`more`, `Resume`), for a speech retry, the settlement after
the text deadline and the reconciliation enqueue jobs without a charge. The gate
on configured providers (`quotas.py:97`) and the charges of captures and
reanalysis, which add to the same counters, are left out. `PutStart`/`PutEnd` stream a body under the row lock. `Sweep`,
`Expire`, `ExpireSkips` and `ExpireFails` are the retention loop over
workspaces.

## 3. Runs

| run | instance | what it shows | distinct states |
|---|---|---|---|
| `queue` | 2 jobs, 3 keys (one of retention), 2 owners, 2 leases, lag 0..1 | only the newest lease writes or publishes (`OneHolder`, `GenerationFence`, `ResultOfLastLease`), checkpoints and cancellations are never taken back (`NothingTakenBack`), results commit with their successors, deletion and expiry erase content; the table refines `JobLifecycle` (`Refinement`) | 509 000 |
| `service` | 3 jobs, the chains of a request and of an upload | the answers of a cancel are true while the request is handed on; a deleted upload is not revived by a speech retry | 741 000 |
| `asr` | 2 jobs, 2 leases, window and limit 1, lag 0..1, 1 retry | nothing is sent twice to a model in a run or after an unknown outcome (`NeverSentAgain`), results are kept until deleted (`SpeechKept`), no rolling window is overdrawn | 1 600 000 |
| `report_versions` | 1 claim, 2 jobs, 4 versions, 1 source version, 2 plans | assessments match what is shown, corrections and assessments survive and reconciliation overwrites nothing it has not read (`NothingUndone`), one version per job | 1 100 000 |
| `accounts` | 2 principals, 1 subject, 2 requests, 1 upload, 2 keys, 2 checks, 2 days | saved reports survive linking and stay reachable (`SavedSurvive`); a completed upload has the declared bytes and a key is admitted once and within the quota (`RequestsSerialize`) | 568 000 |
| `worker_extraction` | 2 workers, 1 job, 2 retry classes, 4 leases, 1 fault | retry caps and reconciliation of unknown outcomes (`RetriesSafe`), drained shutdown, no cancellation nobody asked for, every job settles | 118 000 |
| | 2 overlapping windows, 4 requests, 1 reserved, 1 fault | the reserve is kept, no unknown outcome is resent, reports hold what the windows found and Stop reaches every window (`ReportsTrue`), a finished input settles | 414 000 |
| `upload_budget` | 2 batches of 3 kinds, 2 faults | text is admitted or late, never both or neither, erased text stays erased and the analysis shown is true (`TextTruthful`), the input settles | 64 000 |
| | 2 requesters, 1 admission, 2 buckets, 1 slot, Retry-After of 2, quotas on and off | calls in flight and units taken stay within the limits (`LimitsKept`), every request with a deadline is sent or refused | 269 000 |
| `capture_claims_evidence` | 2 sequence numbers, 3 kinds of chunk, 2 uploads at a time, 1 fault | an acknowledged chunk is stored and within the closed range (`ReceiptsHold`), the fan-in is enqueued and Stop reaches every stage (`StagesMeet`), no chunk disappears from the analysis (`NothingSilentlyLost`) | 430 000 |
| | 3 observations in 3 role patterns, every order of arrival, 6 answers | windows are valid and cover what was admitted (`WindowsCover`), spans lie in the window that produced them and chains of corrections end (`ClaimsSound`) | 81 000 |
| | 5 papers (three versions of a preprint, the last two without an abstract, one withdrawn; its journal version; an article), lists of up to 2 hits, 1 restart | the verdict claims no more than was found and counts an origin once (`VerdictHonest`), router calls are bounded and every address dialled was checked (`OutsideBounded`) | 1 060 000 |
| `asr_resent` | as `asr`, 1 job, with an invalid response | **violated**: `RetriedOnlyWhenRefused`, section 5 | |
| `budget_pause` | as the budget part | **violated**: `PausesLast`, section 5 | |
| `evidence_dedupe` | as the evidence part | **violated**: `WorksCollapse`, section 5 | |
| `report_ids` | as `report_versions` | **violated**: `NoIdCollides`, section 5 | |

A property that is a conjunction of named parts states them in its definition.

### Why the bounds are enough

* `queue`: keys, owners and successors need two rows, one that publishes and one
  that already holds or receives the successor key; the third key is the
  ownerless retention stage. Two leases per behaviour let an old lease meet a
  new one, on either row; that every property of this run also holds for any
  number of leases, workers and rows is proved (section 4). `LeaseTime = 2` with lag 1 contains
  both orders of the two clocks.
* workers: one retry per class passes a cap. Four leases suffice for every
  behaviour (the first, one per retry class, one after the fault), so
  `MaxClaims` never blocks a job and the liveness property is not satisfied by
  the bound.
* `service`: a reanalysis request has three steps (reanalysis, retrieval,
  assessment), an upload also three (intake, media validation, speech); the
  fourth lease is the one after a speech retry or an expiry. Three rows in all
  also admit mixtures of both chains.
* `asr`: a run touches each of two models once; two jobs compete for the last
  place of each window of one. `Failures` has the exhausted quota alone; the
  unknown outcomes come from crashes between sending and recording, which leave
  the row `uncertain`. With the other failures the run takes more than five
  minutes; the theorems are for all of them, and `asr_resent` has the one that
  matters to a retry.
* `report_versions`: two competing publishers and the owner's corrections make
  every pair of publications meet; four versions follow a pair by a third and a
  fourth. Two assessments of a claim that is listed twice need more versions and
  jobs than that: the invalid citation of an assessment is only in the proof.
* captures: two sequence numbers give a first chunk, a last one and a hole
  between them; two puts meet on the same chunk; the three kinds are a valid
  package with text, a shorter, invalid one for the same number, and bytes that
  are no package. Uploads may be abandoned anywhere and time may end the upload
  window at any moment; the one fault is an expired lease, a cancellation, a
  deletion or a sweep that fails after it erased the bytes.
* uploads: speech is configured (the theorem is for both settings); two batches fall on either side of the deadline, and of each other;
  the second fault is one that hits the recovery of the first.
* extraction: two windows and the reconciliation compete for four requests of
  which one is reserved: repairs and reroutes of both windows would exceed it.
  `FromCapture = TRUE` includes Stop, which uploads do not have.
* claims: with windows of at most two observations and an overlap of one,
  three observations make a window that must be cut, one that is extended by
  its context and one that arrives late; `max_observations = 2` lets the ledger
  overflow; two observations share their interval.
* budgets: one slot and two requesters suffice for a successor's lease to meet
  a late release; the capacity is two so that a refund can exceed it; a
  Retry-After longer than `max_wait` makes waiting requests give up while those
  that come later are served. No clock is kept, so time is unbounded.
* evidence: two hits in each of two searches bring the three versions of one
  work in every order and from either search, so that a version is kept before
  one it is older than although another replaced it in between; each limit (candidates, passages, full
  texts, calls, redirects) can be reached and exceeded by one.
* `accounts`: two principals of which either may become the account; two
  requests that authenticated before the other's transaction; limits of one per
  day, and a second day to reset them. `MaxCalls = 4` requests allow an
  admission, an upload, a link and a save in one behaviour, or two admissions
  with a link before each.

Deadlock is checked in `queue`, `service`, `asr`, `report_versions` and for the
workers, where time can always pass. In the others the modelled
system comes to rest when its input has ended, so it is off; `Settles`,
`UploadSettles` and `RequestsEnd` state that it does not stop earlier.
Symmetry is used for interchangeable model values in safety runs only.

### Fairness

* workers: weak fairness of `Work(w)` (the event loop runs every ready task;
  the loop of `Worker.run()` blocks on nothing but the database), of
  `Restart(w)` (the process supervisor, and the API lifespan for the embedded
  worker, start a worker that exited) and of `Clock`. Heartbeats, checkpoints
  and request ids are *not* assumed to happen. A release is not counted by any
  retry class, so a stage that meets an infrastructure error for ever is retried
  for ever; faults are therefore finite in a behaviour.
* extraction: a worker settles inputs and schedules the reconciliation before
  every claim (`Settle`, `ScheduleReconciliation`) and works on some job while
  there is one; no job is favoured. That a request gets an answer or an error
  follows from the client's timeout. `EveryJobSettles` of `Worker` is what
  justifies the end of a single handler.
* uploads: the deadline passes (`Due`), and the polling loop takes one or another
  of its steps (`Poll`: claim a queued stage, end its handler, acknowledge a
  cancellation, `ResolveRead`, `ResolveCommit`, `SettleInput`) while there is
  one; none is favoured. The owner's and the client's actions are not assumed.
* budgets: time passes and a process takes its own steps. Nothing is assumed of
  the admissions, of crashes or of who wins a bucket: a request ends because its
  total wait is bounded. That is so with quotas on. Without them `acquire()`
  bounds each single wait by `max_wait_seconds` and not their sum, so a request
  that others overtake again and again may wait for ever; `RequestsEnd` is about
  requests with a deadline (those that are at `tokens`).

## 4. Proofs

Eight modules hold proofs. Each theorem is for any sets of jobs, keys, owners,
workers, classes, windows, buckets, principals, papers and requests, and any
times and limits that satisfy the assumptions below:

| module | theorem | property |
|---|---|---|
| `JobQueue_proofs` | `TypeCorrect` | `TypeOK`, including the bounds of `ttl` and `wait` |
| | `Fencing` | `OneHolder`: of all leases ever granted on a job at most one passes `_owned()` |
| | `CancelledIsFenced` | `GenerationFence`: no older lease carries the generation of a cancelled or deleted job |
| | `ResultsAreCurrent` | `ResultOfLastLease`: a result exists exactly for published jobs and is the newest lease's |
| | `CancellationIsConsistent` | `CancelConsistent` (no run): `check_invariants()` holds of every row |
| | `NeverTakenBack` | `NothingTakenBack`: no checkpoint is replaced by an older lease's; a job asked to cancel never publishes and is not leased again |
| | `Implements` | `Refinement`: the table implements `JobLifecycle` |
| | `DeletionErases` | `ContentErased`: deleted jobs and jobs of an expired workspace hold no content |
| | `PublicationIsAtomic` | `SuccessorsCommitted`: a published job has its successors |
| `QueueUsers_proofs` | `RetriesAreSafe` | `RetriesSafe`: caps hold, and an unknown outcome is run again only with its request id |
| | `ShutdownHoldsNothing` | `StoppedHoldsNothing`: a shutdown that is the only fault leaves no usable lease |
| | `CancelsOnlyOnRequest` | `CancelOnlyOnRequest`: nobody's cancellation becomes effective unasked |
| | `WorkersUseTheQueue` | `WSpec => Spec`: the runtime only performs the queue's transactions, with granted leases |
| | `CancelAnswersAreTrue` | `CancelAnswersTrue`: an accepted cancel stops the request, a refused one had nothing to stop |
| | `DeletionBlocksRetry` | `DeletionBlocksSpeechRetry`: no failed job of a deleted upload is put back |
| `Stages_proofs` | `AudioIsSentOnce` | `NeverSentAgain`: one call per model and generation; an unknown outcome is never retried |
| | `DeliveredSpeechIsKept` | `SpeechKept`: a stored result is not lost to a failure, unless its media was deleted, and not kept after deletion |
| | `QuotaIsRespected` | `WindowRespected`: every rolling window of a model is within the limit |
| | `AssessmentsMatch` | `AssessedAsShown` |
| | `NothingIsUndone` | `NothingUndone`: corrections of any claim and assessments survive later versions, reconciliation's too |
| | `VersionsAreUnique` | `OneVersionPerJob` |
| `Capture_proofs` | `ReceiptsAreKept` | `ReceiptsHold`: an acknowledged chunk is stored, and within the range a capture is closed with |
| | `StagesAlwaysMeet` | `StagesMeet`: the fan-in is enqueued whichever sibling publishes last; Stop reaches every stage |
| | `NothingIsLostSilently` | `NothingSilentlyLost`: every instant of a capture is analyzed, in a reported gap or pending, and a complete analysis has them all |
| | `WindowsCoverInput` | `WindowsCover`: windows are what their jobs demand, and nothing submitted is dropped |
| | `ClaimsAreGrounded` | `ClaimsGrounded`: sources are spans of admitted targets; a quote may be cited as often as it appears |
| | `ChainsEnd` | `CorrectionsEnd`: some claim is always current; no assessment of a changed claim is kept |
| | `ClaimsAreSound` | `ClaimsSound`: the last two |
| `Upload_proofs` | `TextIsKept` | `TextKept`: a batch is admitted or late, never both; erased text and audio do not come back |
| | `AnalysisIsTruthful` | `AnalysisTruthful` |
| | `TextIsTruthful` | `TextTruthful`: the last two |
| `Extraction_proofs` | `ReserveIsKept` | `ReserveKept`: requests are counted before they are sent, the reserve is left alone |
| | `NothingIsResent` | `NeverResent` |
| | `ReportsAreTrue` | `ReportsTrue`: published windows are in the report; after Stop nothing goes on |
| `Providers_proofs` | `LimitsAreKept` | `LimitsKept`: calls within the slots, pauses kept, no burst above capacity |
| | `CallsStayInBudget` | `CallsBound`: the router calls of a claim over both stages of one run, and `n + 1` budgets for `n` interruptions |
| | `EgressIsGuarded` | `EgressGuarded`: only public addresses over https, and a bounded number of connections |
| | `OutsideIsBounded` | `OutsideBounded`: the last two |
| | `VerdictsAreHonest` | `VerdictHonest`: one vote for every work, and a label that says what the counted sources say |
| `Accounts_proofs` | `RequestsAlwaysSerialize` | `RequestsSerialize`: completed bytes, one admission per key, quotas |
| | `SavesSurvive` | `SavedSurvive`: a saved report is lost only to its owner or with a workspace that was never linked |

With them every safety property of every passing run is proved; the liveness properties
are checked by TLC.

### Assumptions

* `KeyAssumption` (successors are keys and never retention keys, retention has
  no successor), `OwnerAssumption` and `WorkerAssumption` (the null values are
  not members), `TimeAssumption` (natural numbers, and a transaction is shorter
  than a lease).
* `CapAssumption`: caps are natural numbers and the unknown outcome is a class.
* `ServiceAssumption`: a stage of a reanalysis request enqueues at most one
  stage, of the same request, and the stages of an upload none of a request.
* `LedgerAssumption`: finitely many jobs (so that a window can be counted);
  window, limit and the bound on retries are natural numbers; the failures are
  the adapter's.
* `ReportsAssumption`: the claims of the clip and of the full video have
  different ids, and the null author is no job.
* `CaptureAssumption`: chunks have a positive length; what may be sent for a
  sequence number is content.
* `WindowsAssumption`: bounds are positive and the reserve is less than the
  limit; a text has from one to `MaxChars` characters, as `Observation` demands.
* `ClaimsAssumption`: an observation ends after it starts
  (`Observation.interval()`), an occurrence has a source (`source_refs` has
  `min_length=1`) and no quote is empty (`_resolve_quotes()` rejects blank ones).
* `UploadAssumption`: batches are numbered from zero.
* `ExtractionAssumption`: finitely many windows; the reserve is positive and
  less than the limit, as the settings validate.
* `BudgetAssumption`: positive capacities and rates; `MaxLag < SlotGrace`: the
  transaction that grants a slot commits within the grace by which a slot
  outlasts the request's timeout. Without it `SlotsBound` is false: the slot of
  a request that is still in flight could be granted again.
* `EvidenceAssumption`: a claim has at least two router calls, as the settings
  validate; the router's labels are keys of `LABELS`.
* `AccountsAssumption`: limits are natural numbers; the null value is no member.

TLC evaluates each of them in the runs of the modules that extend its module.

### The queue

None of the properties is inductive. `OneHolder` could be broken from a state in
which a lease is ahead of its row: the next claim would then reuse its token.
`IInv` therefore adds

* `TokensUnique`: two grants on one job differ in their token, and
* `RowOK` for each row: every lease's token and generation are at most the
  row's; a row has a lessee exactly in the leased states; leases are strictly
  behind a cancelled or deleted row's generation; the result clause; the
  invariants of the state machine; a checkpoint's token is at most the row's; an
  absent row has neither a checkpoint nor a cancel flag.

`InitInv` establishes `IInv`; there is one lemma per action (`StartInv`,
`ClaimInv`, `PublishInv`, ...) that shows its preservation, `NextInv` combines
them, and `Invariance` is `Spec => []IInv`. Actions that write one row share
`OneRow`/`OneJobRow`, those that write many (sweep, enqueue, expiry, tick) share
`ManyRows`; the row updates used by several actions (`ReturnedRow`,
`CancelledRow`, `DeletedRow`, `LeasedRow`) have lemmas of their own. The step
that carries the argument is `ClaimInv`: the new token exceeds that of every
earlier lease by the first clause of `RowOK`.

`NothingTakenBack` is an action property. `RowStep` is its body for one row, and
`NextStep` shows from `IInv` that every transaction takes every row by a
`RowStep`. The two steps that carry it: `save_stage_data()` writes the token of
a lease that passes the fence, which is the row's own and so at least that of
the checkpoint it replaces; and a row with the cancel flag set is never
`queued`, so that `claim()` cannot take it, while `publish()` requires the flag
to be clear.

`Implements` maps a row to its state and cancel flag (`St`). `Events` states
what each event of `apply()` does to a state it is legal in; a lemma per row
update shows that the update is such an event. `ClaimMove` is the only step that
needs two: the sweep inside `claim()` may requeue the row that the same
transaction then leases. `InitMaps` and `StepMaps` give the theorem, with `IInv`
as the invariant of the detailed specification.

Erasure needs more than `IInv`. `EInv` adds `Tidy` for each row (a row
in the table keeps its key and payload until it is deleted, an absent or purged
row has no owner, content without an owner exists under retention keys only) and
`HasSuccessors` for each published one. `Tidy` is needed because a tombstone
may keep the provider's request id as long as it keeps its key, so a live row
must not have lost its key; and because successors are enqueued under the owner
of their job, who must still exist.

### The workers

`WInv` is the queue's `IInv` and three parts about what a worker may rely on
between two transactions:

* `MemoryOK`: the lease a busy worker remembers was granted to it, and *as long
  as that lease passes the fence* the snapshot of the claim is true: the retry
  counters are those of the row, a request id has not gone, a job it started is
  running, a job it is about to cancel has its flag set. `Decide` compares stale
  counters with the caps; this is why that is sound.
* `CountsOK` of each row, the body of `RetriesSafe`.
* `NothingForgotten`: until the first fault, and while that fault is the
  worker's own shutdown, every usable lease of a worker is the one it remembers.

`RowChange` states what a transaction does to one row (`Keeps`: a lease that
passes the fence afterwards passed it before, with the columns it trusts;
`Calm`: no counter grows; `Asked`), with one lemma per transaction. `HeldBefore`
carries the argument: only a claim hands a job to a worker, and its token
exceeds that of every lease granted before. `LeavesInv` and `StaysInv` reduce the
seventeen steps of the runtime to whether the worker drops its lease or goes on.
`WorkersUseTheQueue` follows from the same invariant, since a worker that
remembers a lease that was never granted could perform any update; with it
every theorem about `Spec` is one about `WSpec`.

### The job routes

`JobService` is the queue with three tables of the routes and one step more,
the speech retry. `SInv` is `IInv`, the types, the property and

* `RequestOK`: a reanalysis request has one chain of jobs, of which only the one
  it points at may still do something, and a cancel that holds the request's row
  has read the current job. This is what makes a stored answer true of the jobs
  that come later;
* `UnusedIds`: an id that was never enqueued has neither key nor receipt, so that
  a new job starts without an answer;
* `FenceKept`: once a job of the upload was deleted the fence is set, also after
  the tombstone is purged.

Each of the queue's transactions is shown to be `Quiet` for a row (work is not
taken up again and no result appears) or to concern a row `Away` from the
request, so that all of them share one argument. `DeletionBlocksRetry` combines
`FenceKept` with the refinement of the queue: no event of the state machine leads
from failed to queued, so that such a step can only be the speech retry.

### Hosted speech

`AInv` of `Stages_proofs` is the queue's `IInv`, the types and the three
properties, strengthened by

* `LedgerOK`: a run of a job has one row per model, no row is ahead of the
  payload's retry count, and a call without a certain outcome belongs to the
  latest run;
* `SerialsOK`: a handler run belongs to one lease;
* `RunsOK`: what the run of a lease *that passes the fence* read at its start is
  still so (`Fresh`): a model it has yet to try has no row but the owner's
  reservation, and no result is stored. A run that lost its lease may be wrong
  about the ledger; it takes no fenced step any more;
* `CallsOK`: a call that began in the job's current generation left its row, no
  two leases of one generation call the same model, and a call that was not yet
  sent finds nothing sent. The last two clauses cover the runs that lose their
  lease between the heartbeat and the call: they still send.

`Stays`, `Calm` and `HeldBefore` say what the queue's transactions leave alone,
so that the transactions that do not touch the ledger share `QuietInv`;
`FreshStays` and `CallsCarry` carry `RunsOK` and `CallsOK` over those that do.
`BeginCalls` and `SendAInv` carry `NeverSentAgain`: the fence of `Begin`
excludes a second lease of the generation that found the row missing.
`CompleteAInv` and `FailAInv` carry `SpeechKept`: a handler that may fail its
job still holds the lease, so that by `Fresh` no result is stored. For the
windows `Win` generalizes the set that `WindowRespected` counts; a replaced row
leaves it or keeps its place (`ReplacedWindow`), the passing of time maps the
window of one age onto that of another (`TimeAInv`), and a new row is admitted
only when it fits every window that it enters, whatever the lag of its
transaction (`AddedRow`, `ReservedWindow`).

### Report versions

`RInv` adds to `IInv` the types, `VersionsOK` and `AnswersOK`. `NothingUndone`
compares any two versions, so it needs to be stated of neighbours and composed:
`Follows` is transitive and each publication extends the latest version by one
that follows it (`AppendOK`, with one lemma per kind of publication).
`OneVersionPerJob` needs that only a job that was leased has an answer:
otherwise a new job could reuse the id of an answered one with another payload.

### Extraction

`IInv` of `Extraction_proofs` strengthens each property. `ReserveKept` counts the
requests that *are about to be sent* as well (`Due`, `CountsOK`), because the
count is committed before the request leaves. `NeverResent` follows from `RowOK`:
`in_flight` in `stage_data` is set exactly while an outcome is awaited and
survives the handler that set it, so that the next handler finds it; and the
attempts `stage_data` accounts for bound what was sent (`Attempts`). `ReportOK`
ties the published windows, the latest report and the reconciliation together.
The cardinality of the requests sent, a union of intervals, is related to each
step by lemmas on finite sets.

### Captures

A receipt spans two transactions and a file, so that `ReceiptsHold` depends on
requests in the middle of one. `CInv` adds `PutsOK` (a request in flight is about
the row it reserved; the one that holds the session has written its bytes and
has no receipt yet), `ReceiptsOK` (what was acknowledged is received, and its
bytes are there until the workspace goes), `LastShort` and `ClosedOK` (of the
reserved chunks only the last is short, so that no chunk lies beyond the
duration a capture was closed with), `JobsOK` and `NothingYet`. `StagesMeet`
follows from its two halves, `FanInEnqueued` and `StopReachesAll`, which are
inductive with them: the publications of siblings exclude each other, so that the
second one finds the first. `NothingSilentlyLost` compares read models, whose
ranges are defined by a least or greatest number; the lemmas about them rest on
the least-number principle, derived from `WFMin`.

### Uploads

`UInv` ties the document to the ledger: nothing is late before settlement, and
what settlement admitted is still stored until its owner erases it, so that no
late batch can have been admitted (`LedgerOK`); what was erased leaves a document
without media or a fence that is gone for good, so that no later request is
`Eligible` (`FenceOK`); validation is enqueued once and its audio goes with it
(`AudioOK`). `AnalysisTruthful` follows from `UInv` in each state.

### Accounts

`AInv` adds to the types: who owns a save can still be acted as (`LinksOK`);
bodies only stream into a pending target (`UploadsOK`); a request in the middle
of an admission does nothing else, and with quotas a principal has at most one
(`AdmissionsOK`); every investigation has its stored answer under one key
(`KeysOK`, which also says that only finitely many exist, so that they can be
counted); and `QuotaOK`: the usage row counts the investigations of its day, and
an open admission still sees the row it read, with room for one more
(`Reserved`). That admission reads the usage long before it writes is why the
quota needs `Reserved`, and the owner's lock is what keeps it.

### Budgets

`LeasesOK` says that the lease of a request in flight is its own and outlasts
what is left of the call by the grace less the lag; calls are then injected into
slots (`SlotsAreEnough`). `PausesOK` says that a pause is kept either by the hold on
the bucket or by a balance so far below zero that the refill of the pause cannot
lift it, which is what a Retry-After is turned into when requests overlap.

### Evidence

`EInv` of `Providers_proofs` has one part for each property. `CallsOK`: planning
makes at most two calls, and what they used is what assessment starts from; what
earlier runs used is at most a budget for each interruption.
`DialledOK`: connections made so far, with those the fetch under way may still
open, stay below a chain of redirects for each of three sources and each full
text that was tried (`Spent`); a fetch is always at https and its address is one
that `Pinned` let through. `SearchesOK`: the result reports exactly what the
searches left out, and a retrieval without an answer is published as such.
`AssessedHonest` derives the label from what was counted.

`OneVotePerWork` follows the papers from the hits to the passages (`VotesOK`). Its
core is what the fold of `dedupe()` preserves (`Collapsed`): one paper of every
work, each of them `Fair`. A paper that replaces a later version was the only one
with an abstract, so the version it replaces witnesses the exception, and it
still does when that paper is replaced in turn (`JoinedFair`). The fold of the
library is a recursion over sets of positions; that it exists, that it adds one
hit at a time (`DedupeFair`) and that a ranking exists (`OrderExists`) are proved
by the least-number principle (`Climb`), since induction theorems cannot be
instantiated.

### Windows and claims

`WindowsCover` speaks of a ledger at rest: one on which the loop of
`submit_observations()` would do nothing more (`AtRest` in `WinInv`). That the
loop reaches this in at most `N` turns is `CutIs`: a turn that changes the ledger
takes at least one observation out of what is pending (`CutOneIs`), because a
single observation fits into an empty window and `Overlap` leaves room for the
first pending one. Two facts carry the rest. The sum of the lengths of a set of
texts is the number of their letters (`CharsIs`), hence adds and is monotone. And
a ledger stays at rest when a request is counted, because the threshold only
grows with the requests that were used (`ThresholdGrows`): this is the one step
in which the ledger changes and no window is cut.

`ClaimsGrounded` needs where the citations of an occurrence are among all those
of the answer (`AnswerIs`, by what `FlattenSeq` preserves: `GrowingKeeps`) and that
each of them resolves to a match of its own quote (`ResolveIs`). With that,
`ReportInv` says of every claim that it is `Sound`. For the count of repetitions,
`RepeatsResolve`: before the k-th citation fewer than k spans are taken, so an
unused one is left as long as k is at most the number of places; beyond that two
citations share a span by the pigeonhole principle. For `CorrectionsEnd`,
`PrecedesGrows` says that of two claims in order the later one starts later, or
as early and further into the same text; a finite, non-empty report has a last
claim in this order (`LastOne`), and no correction supersedes it.

### Only model-checked

The liveness properties (`EveryJobSettles`, `Settles`, `UploadSettles`,
`RequestsEnd`): liveness under fairness is beyond the prover.

## 5. Findings and observations

Four runs each check one sentence of the repository and are violated by what the
code does; `PROJECT.json` lists them under `findings`.

* `asr_resent`: `api/routes/speech_retry.py:3` says that "a chunk is retried only
  after both models refused it for quota and neither attempt may have reached the
  provider" (`RetriedOnlyWhenRefused`). `ASRInvalidResponse` is not in
  `UNSAFE_TO_RESEND` (`asr/reservations.py:35`): when the primary model answered
  with something the adapter rejects and the fallback ran out of quota, a retry
  is accepted and the audio is sent again. `NeverSentAgain` is what holds: no
  model gets it twice in one run, and no retry follows an *unknown* outcome.
* `budget_pause`: `providers/budget.py:9` says that a Retry-After drives the
  balance negative "so every process pauses exactly that long" (`PausesLast`).
  `_refund()` adds to that balance, so every unit given back during a pause after
  the first one ends it `1/rate` earlier. `BudgetRespected` is what holds: a pause
  gives out no more units than come back.
* `evidence_dedupe`: `evidence/retrieval.py:181` says "Collapse hits of one work
  (same DOI, arXiv id or version); keep the latest version" (`WorksCollapse`).
  `dedupe()` lets a version with an abstract replace a later one without, and any
  version later than that one replaces it in turn: of versions 3 (no abstract),
  1 (with one) and 2 (none), found in this order, it keeps version 2. Works are
  told apart by `Paper.origin`, so a preprint and its journal version count as
  two although they share an arXiv id. `OneVotePerWork` is what holds of works
  with one origin.
* `report_ids`: `evidence/stages.py:651` says that imported claims are
  "re-identified so no identifier collides" (`NoIdCollides`). The prefix is the
  version of the full video's report, so a second expansion to the same,
  unassessed version lists the same ids again, the imported meaning beside a
  corrected one. `AssessedAsShown` and `NothingUndone` hold of such reports too:
  a correction applies to every listing, and the first one is never taken back.

What else came up while translating the code. The properties are stated of what
the code does.

Jobs and speech

* A job revived by speech retry keeps the `not_cancellable` receipt an earlier
  cancel stored while it was failed; every later cancel of the queued or running
  job replays the 409 (`api/routes/jobs.py:90`; `backend/README.md:878`
  documents other answers).
* Speech retry moves a failed job back to `queued`, which the state machine has
  no event for (`backend/README.md:753`: "Terminal states only move to
  deleted"). `Refinement` is therefore stated of `JobQueue`, without that route.
* A speech job that already has a stored transcription fails, and cannot be
  retried, when its media job is deleted before it runs again
  (`pipeline/speech.py:133`, `pipeline/capture_media.py:318`); `SpeechKept`
  excludes this case by name.

Reports

* The report version of an assessment or expansion is written without the
  lease's fence (`evidence/stages.py:462` and `:537`), so a run whose lease was
  granted again still adds a version (`docs/architecture.md:64`: a late worker
  cannot publish). `OneVersionPerJob` shows that the comparison with the latest
  version keeps it to one per job.

Captures and uploads

* After the tombstone of a chunk's job is purged, `capture_analysis()` turns the
  chunk from a gap back to "pending", for good.
* If the owner deletes a chunk's speech or text job after the chunk's fan-in was
  enqueued, the publication of the fan-in is rejected every time and the capture
  does not settle.
* `put_content()` excludes other requests through the row lock that its
  transaction holds while it streams; a database connection lost in the middle
  would release it. Losing only the connection is not modelled.
* Completed text without any recognized frame is in none of the analyzed,
  pending and unavailable lists of an upload's summary.
* A failed `upload_asr` does not open the extraction ledger, so the device text
  of that upload is extracted only if speech is retried; a cancelled one never
  sets the text deadline, so text stays "pending". `UploadSettles` starts from
  an open ledger for this reason.
* `settle_inputs()` logs and skips an input that raises `NonRetriableInput`, and
  tries it again with every claim.

Budgets and evidence

* `SharedBudget.acquire()` has no total deadline, nor has `request()` without
  quotas (the default settings), so an admission or a request may wait for ever
  while others take the units.
* Retrieval and assessment begin each run with a fresh `CallBudget`
  (`evidence/assessment.py:217`, `evidence/retrieval.py:280`): the limit is one
  of a run, and an interrupted run is paid for again.

Accounts

* `link_account()` does not read the caller's `merged_into`: a second link that
  authenticated before the first committed, for another subject, turns a merged
  guest into an account whose saves are refused.
* The sweep deletes files before its transaction commits. If that transaction
  fails, completed uploads are left without bytes, and are never swept again
  when the guest becomes an account meanwhile.
* The limit on active checks is one on admission: a check that ended and gets jobs
  again (`api/routes/speech_retry.py:156`, `pipeline/producers.py:374`) is not
  charged, so more than the limit may be running. `RequestsSerialize` counts the
  checks that have been running since their admission.
* With quotas disabled the owner lock is a no-op, so uploads and investigations
  can be created under a guest that was merged after authentication.
* The duplicate branch of `transfer_saved_reports()` cannot be reached: a report
  is saved by the owner of its investigation, and a merged guest saves nothing,
  so two principals never hold the same report.

## 6. Not modelled

The reasons are listed per component in `PROJECT.json`. The Android app is
Kotlin against platform callbacks; `Capture` and `Upload` accept its requests in
every order, repeated and lost. Media tools, HTTP and XML parsing, prompts and
schemas, credentials, settings, logging and health are I/O or data without
state; they appear by their outcomes. Report export and the tables of stages and
claims are pure projections. Contracts, evaluation and experiments are not part
of the running system.

Within the modelled parts: the order in which ready jobs are claimed, jitter of
retry delays (any delay up to the longest), idempotent replays that write
nothing, the schedule of the retention job, expired link-only investigations,
more than one capture or investigation at a time (they share only the queue,
the quotas and the provider budgets, each modelled with several users), and the
text of answers and logs.

## 7. Plan

Done: every backend component that keeps state of its own, in 15 modules with 8
passing runs and 4 findings, and the theorems of section 4. What is left is the capture spool of the
Android app, composed with `Capture`.

## 8. Running

In this directory: `tlc -workers 2 -config X.cfg M` for a run (`PROJECT.json`
names the pair), `tlapm M.tla` for the proofs of a module whose name ends in
`_proofs`. The longest runs
(`upload_budget`, `worker_extraction`, `capture_claims_evidence`) take about
three minutes each, the proofs from one to seven minutes per module (`Capture_proofs`).
