------------------------------ MODULE JobQueue ------------------------------
(***************************************************************************)
(* The durable job queue of services/jobs/queue.py: the jobs and           *)
(* job_results tables and every transaction that writes them, with the     *)
(* retention sweep of services/privacy.py.  One action is one committed    *)
(* transaction.  A transaction whose compare-and-set matches no row raises *)
(* or returns False and changes nothing: it is a stuttering step here, and *)
(* the reaction of its caller is modelled in Worker.                       *)
(*                                                                         *)
(* A lease is a value a worker keeps in memory, so every lease ever        *)
(* granted may be presented again at any later time and in any order: a    *)
(* worker that was suspended, partitioned or has crashed and restarted is  *)
(* one that presents an old lease late, or never.                          *)
(*                                                                         *)
(* Time is relative: ttl is lease_expires_at - clock, wait is              *)
(* available_at - clock, and Tick lets the clock advance.  now() is the    *)
(* time a transaction STARTED while clock_timestamp() is read when the row *)
(* is evaluated: lag is the difference (a transaction that waited for a    *)
(* row lock), bounded by MaxLag.                                           *)
(*                                                                         *)
(* The side tables that publish, fail, claim and delete also touch         *)
(* (media_analysis, upload_text) hold no column of a job and are the state *)
(* of Upload.                                                              *)
(***************************************************************************)
EXTENDS Integers, JobStates

CONSTANTS
  Jobs,          \* job ids; a uuid4 is never used twice
  Keys,          \* stage keys (version, stage, input hash)
  RetentionKeys, \* the keys of the retention stage, whose jobs have no owner
  Owners,        \* principals
  Workers,       \* worker ids
  Classes,       \* retry classes
  NoKey, NoOwner, NoWorker,
  LeaseTime,     \* lease_seconds
  MaxDelay,      \* longest retry delay
  MaxLag,        \* longest transaction
  Fanouts,       \* Fanouts[k]: the sets of successor keys k may enqueue
  MaxClaims      \* bound: leases granted in a behaviour

ASSUME KeyAssumption == /\ NoKey \notin Keys
                        /\ RetentionKeys \subseteq Keys
                        /\ Fanouts \in [Keys -> SUBSET SUBSET (Keys \ RetentionKeys)]
                        /\ \A k \in RetentionKeys : Fanouts[k] = {{}}
ASSUME OwnerAssumption == NoOwner \notin Owners
ASSUME WorkerAssumption == NoWorker \notin Workers
ASSUME TimeAssumption == /\ LeaseTime \in Nat /\ MaxDelay \in Nat
                         /\ MaxLag \in Nat /\ MaxLag < LeaseTime
                         /\ MaxClaims \in Nat

VARIABLES
  job,        \* job[j]: the jobs row with id j
  result,     \* result[j]: the job_results row of job j
  principals, \* the owners whose workspace still exists
  leases,     \* every lease a claim returned (history; the workers' memory)
  claims      \* how many claims returned one (history)

vars == <<job, result, principals, leases, claims>>

-----------------------------------------------------------------------------
(* Rows *)

Ttl == -(MaxLag + 1)..LeaseTime
Wait == -MaxLag..MaxDelay

JobRow == [state : JobState \cup {"absent", "gone"}, cancel : BOOLEAN,
           token : Nat, gen : Nat, lessee : Workers \cup {NoWorker},
           ttl : Ttl, wait : Wait, key : Keys \cup {NoKey},
           owner : Owners \cup {NoOwner},
           payload : BOOLEAN,     \* the payload column still has content
           data : Nat,            \* stage_data: token of its writer, 0 if {}
           reqid : BOOLEAN,       \* provider_request_id is set
           counts : [Classes -> Nat]]

(* A row that is not in the table. *)
Blank == [state |-> "absent", cancel |-> FALSE, token |-> 0, gen |-> 0,
          lessee |-> NoWorker, ttl |-> 0, wait |-> 0, key |-> NoKey,
          owner |-> NoOwner, payload |-> FALSE, data |-> 0, reqid |-> FALSE,
          counts |-> [c \in Classes |-> 0]]

NewRow(k, o) == [Blank EXCEPT !.state = "queued", !.key = k, !.owner = o,
                              !.payload = TRUE]

(* serial numbers the grants, so that two grants are two leases even when  *)
(* nothing the database compares tells them apart.                         *)
Lease == [job : Jobs, worker : Workers, token : Nat, gen : Nat,
          serial : Nat]

JobResult == [token : Nat, gen : Nat, succ : SUBSET Keys]

NoResult == [token |-> 0, gen |-> 0, succ |-> {}]

InTable(j) == job[j].state \in JobState

Init ==
  /\ job = [j \in Jobs |-> Blank]
  /\ result = [j \in Jobs |-> NoResult]
  /\ principals = Owners
  /\ leases = {}
  /\ claims = 0

-----------------------------------------------------------------------------
(* Fences *)

(* _owned(): the row still carries the owner, token and generation the     *)
(* lease was granted with.                                                 *)
Owned(l) == /\ InTable(l.job)
            /\ job[l.job].lessee = l.worker
            /\ job[l.job].token = l.token
            /\ job[l.job].gen = l.gen

(* The condition of _fenced_update with the leased states. *)
Held(l) == Owned(l) /\ job[l.job].state \in LEASED_STATES

(* lease_expires_at > clock_timestamp() *)
Unexpired(j) == job[j].ttl > 0

(* Mutant: the fence compares the worker id only. *)
LockActiveByWorker(l) == /\ InTable(l.job)
                         /\ job[l.job].lessee = l.worker
                         /\ job[l.job].state = "running"
                         /\ ~job[l.job].cancel
                         /\ Unexpired(l.job)

(* Mutant: a job that was claimed and not yet started may publish. *)
LockActiveUnstarted(l) == Held(l) /\ ~job[l.job].cancel /\ Unexpired(l.job)

(* The condition of publish, save_stage_data and lock_active. *)
LockActive(l) == /\ Owned(l)
                 /\ job[l.job].state = "running"
                 /\ ~job[l.job].cancel
                 /\ Unexpired(l.job)

-----------------------------------------------------------------------------
(* Row updates shared by several transactions *)

(* _cleared() *)
Cleared(r) == [r EXCEPT !.lessee = NoWorker, !.ttl = 0]

(* Mutant: an effective cancellation keeps the generation. *)
ReturnedSameGeneration(r) == Cleared([r EXCEPT !.state = Returned(r)])

(* The lease goes back; a requested cancellation becomes effective. *)
ReturnedRow(r) == Cleared([r EXCEPT !.state = Returned(r),
                                    !.gen = @ + (IF r.cancel THEN 1 ELSE 0)])

CancelledRow(r) == Cleared([r EXCEPT !.state = "cancelled", !.cancel = TRUE,
                                     !.gen = @ + 1])

DeletedRow(r) == IF r.state = "deleted" THEN r
                 ELSE Cleared([r EXCEPT !.state = "deleted", !.gen = @ + 1,
                                        !.payload = FALSE, !.data = 0])

(* _delete_jobs(): the tombstone keeps no owner, key or provider id. *)
DetachedRow(r) == [DeletedRow(r) EXCEPT !.owner = NoOwner, !.key = NoKey,
                                        !.reqid = FALSE]

Update(j, r) == job' = [job EXCEPT ![j] = r]

-----------------------------------------------------------------------------
(* Producers *)

(* The row that holds the stage key, if there is one. *)
KeyTaken(k) == \E j \in Jobs : InTable(j) /\ job[j].key = k

(* ids maps each stage key that has no row to the id of its new row. *)
Inserted(rows, ids, o) ==
  [j \in Jobs |-> IF \E k \in DOMAIN ids : ids[k] = j
                  THEN NewRow(CHOOSE k \in DOMAIN ids : ids[k] = j, o)
                  ELSE rows[j]]

FreshIds(ks) == {ids \in [ks -> {j \in Jobs : job[j].state = "absent"}] :
                   \A k1, k2 \in ks : ids[k1] = ids[k2] => k1 = k2}

(* enqueue() by an API route, which holds the principal, or by the         *)
(* retention scheduler.  A key that has a row returns that row's id, or    *)
(* raises ValueError for another owner: no change either way.              *)
Enqueue(k, o) ==
  /\ IF k \in RetentionKeys THEN o = NoOwner ELSE o \in principals
  /\ ~KeyTaken(k)
  /\ \E ids \in FreshIds({k}) : job' = Inserted(job, ids, o)
  /\ UNCHANGED <<result, principals, leases, claims>>

-----------------------------------------------------------------------------
(* Workers *)

(* Mutant: the sweep overlooks running jobs. *)
SweptLeasedOnly(lag) == [j \in Jobs |->
                           IF job[j].state = "leased" /\ job[j].ttl + lag < 0
                           THEN ReturnedRow(job[j]) ELSE job[j]]

(* The expiry sweep: lease_expires_at < now(). *)
Swept(lag) == [j \in Jobs |->
                 IF job[j].state \in LEASED_STATES /\ job[j].ttl + lag < 0
                 THEN ReturnedRow(job[j]) ELSE job[j]]

LeasedRow(r, w, lag) == [r EXCEPT !.state = "leased", !.lessee = w,
                                  !.ttl = LeaseTime - lag, !.token = @ + 1]

(* Mutant: a claim reuses the fencing token. *)
ClaimSameToken(w, lag) ==
  /\ claims < MaxClaims
  /\ LET rows == Swept(lag) IN
     \E j \in Jobs :
       /\ rows[j].state = "queued" /\ rows[j].wait + lag <= 0
       /\ job' = [rows EXCEPT ![j] =
                    [@ EXCEPT !.state = "leased", !.lessee = w,
                              !.ttl = LeaseTime - lag]]
       /\ leases' = leases \cup
            {[job |-> j, worker |-> w, token |-> job'[j].token,
              gen |-> job'[j].gen, serial |-> claims + 1]}
  /\ claims' = claims + 1
  /\ UNCHANGED <<result, principals>>

(* claim() that finds a job.  Which one is left open: rows locked by other *)
(* transactions are skipped and a worker only asks for its own stages.     *)
Claim(w, lag) ==
  /\ claims < MaxClaims
  /\ LET rows == Swept(lag) IN
     \E j \in Jobs :
       /\ rows[j].state = "queued" /\ rows[j].wait + lag <= 0
       /\ job' = [rows EXCEPT ![j] = LeasedRow(rows[j], w, lag)]
       /\ leases' = leases \cup
            {[job |-> j, worker |-> w, token |-> job'[j].token,
              gen |-> job'[j].gen, serial |-> claims + 1]}
  /\ claims' = claims + 1
  /\ UNCHANGED <<result, principals>>

(* claim() that finds none has still swept the expired leases. *)
ClaimNothing(lag) ==
  /\ job' = Swept(lag)
  /\ UNCHANGED <<result, principals, leases, claims>>

Start(l) ==
  /\ Owned(l) /\ job[l.job].state = "leased" /\ ~job[l.job].cancel
  /\ Update(l.job, [job[l.job] EXCEPT !.state = "running"])
  /\ UNCHANGED <<result, principals, leases, claims>>

Heartbeat(l, lag) ==
  /\ Held(l) /\ Unexpired(l.job)
  /\ Update(l.job, [job[l.job] EXCEPT !.ttl = LeaseTime - lag])
  /\ UNCHANGED <<result, principals, leases, claims>>

(* enqueue() raises ValueError: a successor key belongs to another owner. *)
OwnerClash(l, succ) == \E j \in Jobs : /\ InTable(j) /\ job[j].key \in succ
                                        /\ job[j].owner # job[l.job].owner

(* Mutant: the successors are left to a second transaction. *)
PublishAlone(l, succ) ==
  /\ LockActive(l)
  /\ succ \in Fanouts[job[l.job].key]
  /\ Update(l.job, Cleared([job[l.job] EXCEPT !.state = "published"]))
  /\ result' = [result EXCEPT ![l.job] =
                  [token |-> l.token, gen |-> l.gen, succ |-> succ]]
  /\ UNCHANGED <<principals, leases, claims>>

(* publish(): the result, the state and the successors commit together. A  *)
(* successor key of another owner rolls everything back.                   *)
Publish(l, succ) ==
  /\ LockActive(l)
  /\ succ \in Fanouts[job[l.job].key]
  /\ ~OwnerClash(l, succ)
  /\ \E ids \in FreshIds({k \in succ : ~KeyTaken(k)}) :
       job' = [Inserted(job, ids, job[l.job].owner) EXCEPT
                 ![l.job] = Cleared([job[l.job] EXCEPT !.state = "published"])]
  /\ result' = [result EXCEPT ![l.job] =
                  [token |-> l.token, gen |-> l.gen, succ |-> succ]]
  /\ UNCHANGED <<principals, leases, claims>>

(* Mutant: the checkpoint is written by job id. *)
SaveStageDataById(l) ==
  /\ job[l.job].state = "running"
  /\ Update(l.job, [job[l.job] EXCEPT !.data = l.token])
  /\ UNCHANGED <<result, principals, leases, claims>>


SaveStageData(l) ==
  /\ LockActive(l)
  /\ Update(l.job, [job[l.job] EXCEPT !.data = l.token])
  /\ UNCHANGED <<result, principals, leases, claims>>

Fail(l) ==
  /\ Held(l)
  /\ Update(l.job, Cleared([job[l.job] EXCEPT !.state = "failed"]))
  /\ UNCHANGED <<result, principals, leases, claims>>

Retry(l, c, delay) ==
  /\ Held(l)
  /\ Update(l.job, [ReturnedRow(job[l.job]) EXCEPT !.wait = delay,
                                                   !.counts[c] = @ + 1])
  /\ UNCHANGED <<result, principals, leases, claims>>

RecordRequestId(l) ==
  /\ Held(l)
  /\ Update(l.job, [job[l.job] EXCEPT !.reqid = TRUE])
  /\ UNCHANGED <<result, principals, leases, claims>>

Release(l) ==
  /\ Held(l)
  /\ Update(l.job, ReturnedRow(job[l.job]))
  /\ UNCHANGED <<result, principals, leases, claims>>

Cancel(l) ==
  /\ Held(l)
  /\ Update(l.job, CancelledRow(job[l.job]))
  /\ UNCHANGED <<result, principals, leases, claims>>

-----------------------------------------------------------------------------
(* Owners: cancel, delete; retention *)

RequestCancel(j) ==
  /\ \/ /\ job[j].state = "queued"
        /\ Update(j, CancelledRow(job[j]))
     \/ /\ job[j].state \in LEASED_STATES
        /\ Update(j, [job[j] EXCEPT !.cancel = TRUE])
  /\ UNCHANGED <<result, principals, leases, claims>>

Delete(j) ==
  /\ InTable(j) /\ job[j].state # "deleted"
  /\ Update(j, DeletedRow(job[j]))
  /\ result' = [result EXCEPT ![j] = NoResult]
  /\ UNCHANGED <<principals, leases, claims>>

(* Mutant: jobs that a worker holds are skipped. *)
ExpireIdleJobs(o) ==
  /\ o \in principals
  /\ principals' = principals \ {o}
  /\ LET idle == {j \in Jobs : /\ InTable(j) /\ job[j].owner = o
                               /\ job[j].lessee = NoWorker} IN
     /\ job' = [j \in Jobs |-> IF j \in idle THEN DetachedRow(job[j]) ELSE job[j]]
     /\ result' = [j \in Jobs |-> IF j \in idle THEN NoResult ELSE result[j]]
  /\ UNCHANGED <<leases, claims>>

(* One expired workspace of PrivacyService.run(): every job of the owner   *)
(* is deleted and detached and the principal removed, in one transaction.  *)
(* A job enqueued meanwhile trips the foreign key and rolls it all back.   *)
ExpireWorkspace(o) ==
  /\ o \in principals
  /\ principals' = principals \ {o}
  /\ job' = [j \in Jobs |-> IF InTable(j) /\ job[j].owner = o
                            THEN DetachedRow(job[j]) ELSE job[j]]
  /\ result' = [j \in Jobs |-> IF InTable(j) /\ job[j].owner = o
                               THEN NoResult ELSE result[j]]
  /\ UNCHANGED <<leases, claims>>

(* Tombstones and finished retention runs past their window lose their     *)
(* row; the result row cascades.  (The key of a row that is "gone" is only *)
(* remembered for SuccessorsCommitted.)                                    *)
Purge(j) ==
  /\ \/ job[j].state = "deleted"
     \/ job[j].state \in {"published", "failed"} /\ job[j].key \in RetentionKeys
  /\ Update(j, [Blank EXCEPT !.state = "gone", !.key = job[j].key])
  /\ result' = [result EXCEPT ![j] = NoResult]
  /\ UNCHANGED <<principals, leases, claims>>

-----------------------------------------------------------------------------
(* Time.  A value past every comparison the code makes needs no further    *)
(* counting down.                                                          *)
Floor(n, low) == IF n > low THEN n - 1 ELSE low

Tick ==
  /\ job' = [j \in Jobs |->
       [job[j] EXCEPT !.ttl = IF job[j].state \in LEASED_STATES
                              THEN Floor(@, -(MaxLag + 1)) ELSE @,
                      !.wait = IF job[j].state \in ACTIVE THEN Floor(@, -MaxLag) ELSE @]]
  /\ UNCHANGED <<result, principals, leases, claims>>

LeaseStep(l) ==
  \/ Start(l)
  \/ \E lag \in 0..MaxLag : Heartbeat(l, lag)
  \/ \E succ \in SUBSET Keys : Publish(l, succ)
  \/ SaveStageData(l)
  \/ Fail(l)
  \/ \E c \in Classes, delay \in 0..MaxDelay : Retry(l, c, delay)
  \/ RecordRequestId(l)
  \/ Release(l)
  \/ Cancel(l)

Next ==
  \/ \E k \in Keys, o \in Owners \cup {NoOwner} : Enqueue(k, o)
  \/ \E w \in Workers, lag \in 0..MaxLag : Claim(w, lag)
  \/ \E lag \in 0..MaxLag : ClaimNothing(lag)
  \/ \E l \in leases : LeaseStep(l)
  \/ \E j \in Jobs : RequestCancel(j) \/ Delete(j) \/ Purge(j)
  \/ \E o \in Owners : ExpireWorkspace(o)
  \/ Tick

Spec == Init /\ [][Next]_vars
-----------------------------------------------------------------------------
(* Properties *)

TypeOK ==
  /\ job \in [Jobs -> JobRow]
  /\ result \in [Jobs -> JobResult]
  /\ principals \subseteq Owners
  /\ leases \subseteq Lease
  /\ claims \in Nat

(* Of all the leases ever granted on a job, at most one passes the fence   *)
(* of _owned(): a worker whose lease expired and was granted again, even   *)
(* to the same worker id, can no longer write to the row.                  *)
OneHolder ==
  \A l1, l2 \in leases : l1.job = l2.job /\ Owned(l1) /\ Owned(l2) => l1 = l2

(* "Bumped on effective cancellation and deletion; a late publish can      *)
(* never match" (jobs.generation): once a job is cancelled or deleted no   *)
(* lease granted before carries its generation.                            *)
GenerationFence ==
  \A l \in leases : job[l.job].state \in {"cancelled", "deleted"}
                      => l.gen < job[l.job].gen

(* A job is published exactly when it has a result, and that result is the *)
(* one of the newest lease in the current generation: no stale result is   *)
(* ever visible and none survives the deletion of its job.                 *)
ResultOfLastLease ==
  \A j \in Jobs :
    IF job[j].state = "published"
    THEN result[j].token = job[j].token /\ result[j].gen = job[j].gen
         /\ \E l \in leases : l.job = j /\ l.token = result[j].token
    ELSE result[j] = NoResult

(* The documented invariants of check_invariants() hold of every row       *)
(* whatever order cancellations, expiries, releases and retries come in.   *)
CancelConsistent == \A j \in Jobs : InTable(j) => CheckInvariants(job[j])

(* Publication and the enqueueing of successors are one transaction: while *)
(* a result exists, each of its successor stages has a row of the same     *)
(* owner, unless that row was itself deleted and purged.                   *)
SuccessorsCommitted ==
  \A j \in Jobs : job[j].state = "published" =>
    \A k \in result[j].succ :
      \E i \in Jobs : /\ job[i].key = k
                      /\ job[i].state = "gone" \/ job[i].owner = job[j].owner

(* A deleted job keeps no payload, checkpoint or result, whatever its      *)
(* worker still sends; a detached one keeps no provider request id either. *)
DeletedIsEmpty ==
  \A j \in Jobs : job[j].state \in {"deleted", "gone"} =>
    /\ ~job[j].payload /\ job[j].data = 0 /\ result[j] = NoResult
    /\ job[j].key = NoKey => ~job[j].reqid

(* No job outlives the workspace of its owner with content in it.          *)
WorkspaceErased ==
  \A j \in Jobs : /\ job[j].owner \in principals \cup {NoOwner}
                  /\ job[j].payload /\ job[j].owner = NoOwner
                       => job[j].key \in RetentionKeys

(* What a deleted job or an expired workspace held is erased, together     *)
(* with all that a worker still holding a lease writes afterwards.         *)
ContentErased == DeletedIsEmpty /\ WorkspaceErased

(* No step of any lease takes back what a newer lease or the owner did: a  *)
(* checkpoint is never replaced by the one of an older lease, and once     *)
(* cancellation was requested the job never publishes and never runs under *)
(* a new lease.                                                            *)
NothingTakenBack ==
  [][\A j \in Jobs :
       /\ job'[j].data >= job[j].data \/ job'[j].state \in {"deleted", "gone"}
       /\ job[j].cancel /\ job'[j].state # "gone" =>
            /\ job'[j].cancel
            /\ job'[j].state # "published"
            /\ job'[j].token = job[j].token]_vars

(* The table keeps the promises of the pure state machine of states.py.    *)
Lifecycle == INSTANCE JobLifecycle
  WITH status <- [j \in Jobs |-> [state |-> job[j].state, cancel |-> job[j].cancel]]

Refinement == Lifecycle!LifeSpec
=============================================================================
