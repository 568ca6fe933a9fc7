-------------------------- MODULE JobQueue_proofs --------------------------
(***************************************************************************)
(* Proofs that the job queue keeps its fencing promises for any number of  *)
(* jobs, workers, leases and retry classes and any lease time.             *)
(***************************************************************************)
EXTENDS JobQueue, TLAPS

(* What holds of one row r with id j, its result row res and the leases L  *)
(* granted so far.  The first conjunct is the strengthening that makes the *)
(* rest inductive: a lease never runs ahead of its row.                    *)
RowOK(j, r, res, L) ==
  /\ \A l \in L : l.job = j =>
       /\ r.state # "absent"
       /\ r.state # "gone" => l.token <= r.token /\ l.gen <= r.gen
  /\ r.state \in LEASED_STATES <=> r.lessee # NoWorker
  /\ r.state \in {"cancelled", "deleted"} =>
       \A l \in L : l.job = j => l.gen < r.gen
  /\ IF r.state = "published"
     THEN /\ res.token = r.token /\ res.gen = r.gen
          /\ \E l \in L : l.job = j /\ l.token = res.token
     ELSE res = NoResult
  /\ r.state \in JobState => CheckInvariants(r)
  /\ r.data <= r.token
  /\ r.state = "absent" => r.data = 0 /\ ~r.cancel

(* No two grants on one job carry the same fencing token. *)
TokensUnique ==
  \A l1, l2 \in leases : l1.job = l2.job /\ l1.token = l2.token => l1 = l2

(* The inductive invariant. *)
IInv ==
  /\ TypeOK
  /\ TokensUnique
  /\ \A j \in Jobs : RowOK(j, job[j], result[j], leases)

-----------------------------------------------------------------------------
(* Row updates preserve RowOK *)

LEMMA ZeroTimes == 0 \in Ttl /\ 0 \in Wait
  BY TimeAssumption DEF Ttl, Wait

LEMMA BlankTyped ==
  /\ Blank \in JobRow
  /\ \A k \in Keys, o \in Owners \cup {NoOwner} : NewRow(k, o) \in JobRow
  /\ NoResult \in JobResult
  <1>1. Blank \in JobRow
    <2>2. [c \in Classes |-> 0] \in [Classes -> Nat] OBVIOUS
    <2> QED BY <2>2, ZeroTimes DEF Blank, JobRow
  <1>2. ASSUME NEW k \in Keys, NEW o \in Owners \cup {NoOwner}
        PROVE  NewRow(k, o) \in JobRow
    BY <1>1 DEF NewRow, JobRow, JobState
  <1>3. NoResult \in JobResult BY DEF NoResult, JobResult
  <1> QED BY <1>1, <1>2, <1>3

(* The columns the updates leave behind. *)
LEMMA ReturnedRowIs ==
  ASSUME NEW r \in JobRow
  PROVE  LET q == ReturnedRow(r) IN
         /\ q \in JobRow
         /\ q.state = IF r.cancel THEN "cancelled" ELSE "queued"
         /\ q.gen = IF r.cancel THEN r.gen + 1 ELSE r.gen
         /\ q.token = r.token /\ q.cancel = r.cancel /\ q.data = r.data
         /\ q.lessee = NoWorker
  <1> DEFINE p == [r EXCEPT !.state = Returned(r),
                            !.gen = @ + (IF r.cancel THEN 1 ELSE 0)]
  <1>a. Returned(r) \in JobState BY DEF Returned, JobState
  <1>b. r.gen + (IF r.cancel THEN 1 ELSE 0) \in Nat BY DEF JobRow
  <1>1. p \in JobRow BY <1>a, <1>b DEF JobRow
  <1>2. ReturnedRow(r) = [p EXCEPT !.lessee = NoWorker, !.ttl = 0]
    BY DEF ReturnedRow, Cleared
  <1>3. ReturnedRow(r) \in JobRow
    BY <1>1, <1>2, ZeroTimes DEF JobRow
  <1> QED BY <1>1, <1>2, <1>3 DEF JobRow, Returned

LEMMA CancelledRowIs ==
  ASSUME NEW r \in JobRow
  PROVE  LET q == CancelledRow(r) IN
         /\ q \in JobRow /\ q.state = "cancelled" /\ q.cancel = TRUE
         /\ q.gen = r.gen + 1 /\ q.token = r.token /\ q.data = r.data
         /\ q.lessee = NoWorker
  <1> DEFINE p == [r EXCEPT !.state = "cancelled", !.cancel = TRUE, !.gen = @ + 1]
  <1>a. r.gen + 1 \in Nat BY DEF JobRow
  <1>1. p \in JobRow BY <1>a DEF JobRow, JobState
  <1>2. CancelledRow(r) = [p EXCEPT !.lessee = NoWorker, !.ttl = 0]
    BY DEF CancelledRow, Cleared
  <1>3. CancelledRow(r) \in JobRow
    BY <1>1, <1>2, ZeroTimes DEF JobRow
  <1> QED BY <1>1, <1>2, <1>3 DEF JobRow

LEMMA DeletedRowIs ==
  ASSUME NEW r \in JobRow, r.state # "deleted"
  PROVE  LET q == DeletedRow(r) IN
         /\ q \in JobRow /\ q.state = "deleted" /\ q.cancel = r.cancel
         /\ q.gen = r.gen + 1 /\ q.token = r.token /\ q.data = 0
         /\ q.lessee = NoWorker
  <1> DEFINE p == [r EXCEPT !.state = "deleted", !.gen = @ + 1,
                            !.payload = FALSE, !.data = 0]
  <1>a. r.gen + 1 \in Nat BY DEF JobRow
  <1>1. p \in JobRow BY <1>a DEF JobRow, JobState
  <1>2. DeletedRow(r) = [p EXCEPT !.lessee = NoWorker, !.ttl = 0]
    BY DEF DeletedRow, Cleared
  <1>3. DeletedRow(r) \in JobRow
    BY <1>1, <1>2, ZeroTimes DEF JobRow
  <1> QED BY <1>1, <1>2, <1>3 DEF JobRow

(* A lease that is given back leaves a well-formed row. *)
LEMMA ReturnedOK ==
  ASSUME NEW j, NEW r \in JobRow, NEW res, NEW L \in SUBSET Lease,
         RowOK(j, r, res, L), r.state \in LEASED_STATES
  PROVE  ReturnedRow(r) \in JobRow /\ RowOK(j, ReturnedRow(r), res, L)
  <1> DEFINE q == ReturnedRow(r)
  <1> HIDE DEF q
  <1>1. /\ q \in JobRow
        /\ q.state = IF r.cancel THEN "cancelled" ELSE "queued"
        /\ q.gen = IF r.cancel THEN r.gen + 1 ELSE r.gen
        /\ q.token = r.token /\ q.cancel = r.cancel /\ q.data = r.data
        /\ q.lessee = NoWorker
    BY ReturnedRowIs DEF q
  <1>2. r.gen \in Nat /\ r.token \in Nat /\ r.cancel \in BOOLEAN BY DEF JobRow
  <1>3. \A l \in L : l.gen \in Nat /\ l.token \in Nat BY DEF Lease
  <1>4. RowOK(j, q, res, L)
    BY <1>1, <1>2, <1>3 DEF RowOK, LEASED_STATES, CheckInvariants
  <1> QED BY <1>1, <1>4 DEF q

LEMMA CancelledOK ==
  ASSUME NEW j, NEW r \in JobRow, NEW res, NEW L \in SUBSET Lease,
         RowOK(j, r, res, L), r.state \in ACTIVE
  PROVE  CancelledRow(r) \in JobRow /\ RowOK(j, CancelledRow(r), res, L)
  <1> DEFINE q == CancelledRow(r)
  <1> HIDE DEF q
  <1>1. /\ q \in JobRow /\ q.state = "cancelled" /\ q.cancel = TRUE
        /\ q.gen = r.gen + 1 /\ q.token = r.token /\ q.data = r.data
        /\ q.lessee = NoWorker
    BY CancelledRowIs DEF q
  <1>2. r.gen \in Nat /\ r.token \in Nat BY DEF JobRow
  <1>3. \A l \in L : l.gen \in Nat /\ l.token \in Nat BY DEF Lease
  <1>4. RowOK(j, q, res, L)
    BY <1>1, <1>2, <1>3 DEF RowOK, LEASED_STATES, ACTIVE, CheckInvariants
  <1> QED BY <1>1, <1>4 DEF q

LEMMA DeletedOK ==
  ASSUME NEW j, NEW r \in JobRow, NEW res, NEW L \in SUBSET Lease,
         RowOK(j, r, res, L), r.state \in JobState
  PROVE  /\ DeletedRow(r) \in JobRow /\ RowOK(j, DeletedRow(r), NoResult, L)
         /\ DetachedRow(r) \in JobRow /\ RowOK(j, DetachedRow(r), NoResult, L)
  <1> DEFINE q == DeletedRow(r)
  <1> HIDE DEF q
  <1>1. q \in JobRow /\ RowOK(j, q, NoResult, L)
    <2>1. CASE r.state = "deleted"
      BY <2>1 DEF RowOK, q, DeletedRow
    <2>2. CASE r.state # "deleted"
      <3>1. /\ q \in JobRow /\ q.state = "deleted" /\ q.cancel = r.cancel
            /\ q.gen = r.gen + 1 /\ q.token = r.token /\ q.data = 0
            /\ q.lessee = NoWorker
        BY <2>2, DeletedRowIs DEF q
      <3>2. r.gen \in Nat /\ r.token \in Nat BY DEF JobRow
      <3>3. \A l \in L : l.gen \in Nat /\ l.token \in Nat BY DEF Lease
      <3>4. \A l \in L : l.job = j => l.token <= r.token /\ l.gen <= r.gen
        BY DEF RowOK, JobState
      <3> QED BY <3>1, <3>2, <3>3, <3>4 DEF RowOK, LEASED_STATES, CheckInvariants
    <2> QED BY <2>1, <2>2
  <1>2. DetachedRow(r) = [q EXCEPT !.owner = NoOwner, !.key = NoKey, !.reqid = FALSE]
    BY DEF DetachedRow, q
  <1>3. DetachedRow(r) \in JobRow BY <1>1, <1>2 DEF JobRow
  <1>4. RowOK(j, DetachedRow(r), NoResult, L)
    BY <1>1, <1>2 DEF RowOK, JobRow, CheckInvariants
  <1> QED BY <1>1, <1>3, <1>4 DEF q

(* A transaction that rewrites one row and its result, and grants nothing. *)
LEMMA OneRow ==
  ASSUME IInv, NEW j \in Jobs, NEW r \in JobRow, NEW res \in JobResult,
         job' = [job EXCEPT ![j] = r], result' = [result EXCEPT ![j] = res],
         RowOK(j, r, res, leases), UNCHANGED <<principals, leases, claims>>
  PROVE  IInv'
  <1>1. TypeOK' BY DEF IInv, TypeOK
  <1>2. TokensUnique' BY DEF IInv, TokensUnique
  <1>3. \A i \in Jobs : RowOK(i, job'[i], result'[i], leases')
    BY DEF IInv, TypeOK
  <1> QED BY <1>1, <1>2, <1>3 DEF IInv

LEMMA OneJobRow ==
  ASSUME IInv, NEW j \in Jobs, NEW r \in JobRow,
         job' = [job EXCEPT ![j] = r], RowOK(j, r, result[j], leases),
         UNCHANGED <<result, principals, leases, claims>>
  PROVE  IInv'
  <1>1. result[j] \in JobResult /\ result' = [result EXCEPT ![j] = result[j]]
    BY DEF IInv, TypeOK
  <1> QED BY <1>1, OneRow

LEMMA InitInv == Init => IInv
  <1> SUFFICES ASSUME Init PROVE IInv OBVIOUS
  <1>1. TypeOK BY BlankTyped DEF Init, TypeOK
  <1>2. TokensUnique BY DEF Init, TokensUnique
  <1>3. ASSUME NEW j \in Jobs PROVE RowOK(j, job[j], result[j], leases)
    BY DEF Init, RowOK, Blank, LEASED_STATES, JobState
  <1> QED BY <1>1, <1>2, <1>3 DEF IInv
-----------------------------------------------------------------------------
(* Transactions that rewrite several rows and grant nothing *)

LEMMA ManyRows ==
  ASSUME IInv, job' \in [Jobs -> JobRow], result' \in [Jobs -> JobResult],
         principals' \subseteq Owners, UNCHANGED <<leases, claims>>,
         \A j \in Jobs : RowOK(j, job'[j], result'[j], leases)
  PROVE  IInv'
  <1>1. TypeOK' BY DEF IInv, TypeOK
  <1>2. TokensUnique' BY DEF IInv, TokensUnique
  <1> QED BY <1>1, <1>2 DEF IInv

(* An id that is not in use has no lease, so its first row is well formed. *)
LEMMA NewRowOK ==
  ASSUME IInv, NEW j \in Jobs, job[j].state = "absent",
         NEW k \in Keys, NEW o \in Owners \cup {NoOwner}
  PROVE  NewRow(k, o) \in JobRow /\ RowOK(j, NewRow(k, o), result[j], leases)
  <1>1. NewRow(k, o) \in JobRow BY BlankTyped
  <1>2. \A l \in leases : l.job # j BY DEF IInv, RowOK
  <1>3. result[j] = NoResult BY DEF IInv, RowOK
  <1> QED BY <1>1, <1>2, <1>3 DEF RowOK, NewRow, Blank, LEASED_STATES, CheckInvariants

LEMMA InsertedOK ==
  ASSUME IInv, NEW ks \in SUBSET Keys, NEW ids \in FreshIds(ks),
         NEW o \in Owners \cup {NoOwner}
  PROVE  /\ Inserted(job, ids, o) \in [Jobs -> JobRow]
         /\ \A j \in Jobs :
              /\ RowOK(j, Inserted(job, ids, o)[j], result[j], leases)
              /\ job[j].state # "absent" => Inserted(job, ids, o)[j] = job[j]
  <1>1. DOMAIN ids = ks /\ \A k \in ks : ids[k] \in Jobs /\ job[ids[k]].state = "absent"
    BY DEF FreshIds
  <1>2. ASSUME NEW j \in Jobs
        PROVE  /\ Inserted(job, ids, o)[j] \in JobRow
               /\ RowOK(j, Inserted(job, ids, o)[j], result[j], leases)
               /\ job[j].state # "absent" => Inserted(job, ids, o)[j] = job[j]
    <2>1. CASE \E k \in DOMAIN ids : ids[k] = j
      <3> DEFINE key == CHOOSE k \in DOMAIN ids : ids[k] = j
      <3>1. key \in ks /\ ids[key] = j BY <2>1, <1>1
      <3>2. Inserted(job, ids, o)[j] = NewRow(key, o) BY <2>1 DEF Inserted
      <3>3. job[j].state = "absent" BY <3>1, <1>1
      <3> HIDE DEF key
      <3> QED BY <3>1, <3>2, <3>3, NewRowOK
    <2>2. CASE ~ \E k \in DOMAIN ids : ids[k] = j
      BY <2>2 DEF Inserted, IInv, TypeOK
    <2> QED BY <2>1, <2>2
  <1>3. Inserted(job, ids, o) \in [Jobs -> JobRow]
    BY <1>2 DEF Inserted
  <1> QED BY <1>2, <1>3

LEMMA SweptOK ==
  ASSUME IInv, NEW lag \in 0..MaxLag
  PROVE  /\ Swept(lag) \in [Jobs -> JobRow]
         /\ \A j \in Jobs : RowOK(j, Swept(lag)[j], result[j], leases)
  <1>1. ASSUME NEW j \in Jobs
        PROVE  Swept(lag)[j] \in JobRow /\ RowOK(j, Swept(lag)[j], result[j], leases)
    BY ReturnedOK DEF Swept, IInv, TypeOK
  <1> QED BY <1>1 DEF Swept

-----------------------------------------------------------------------------
(* Every action preserves the invariant *)

LEMMA EnqueueInv ==
  ASSUME IInv, NEW k \in Keys, NEW o \in Owners \cup {NoOwner}, Enqueue(k, o)
  PROVE  IInv'
  <1>1. PICK ids \in FreshIds({k}) : job' = Inserted(job, ids, o) BY DEF Enqueue
  <1>2. UNCHANGED <<result, principals, leases, claims>> BY DEF Enqueue
  <1>3. {k} \in SUBSET Keys OBVIOUS
  <1>4. /\ job' \in [Jobs -> JobRow]
        /\ \A j \in Jobs : RowOK(j, job'[j], result'[j], leases)
    BY <1>1, <1>2, <1>3, InsertedOK
  <1> QED BY <1>2, <1>4, ManyRows DEF IInv, TypeOK

LEMMA ClaimNothingInv ==
  ASSUME IInv, NEW lag \in 0..MaxLag, ClaimNothing(lag)
  PROVE  IInv'
  BY SweptOK, ManyRows DEF ClaimNothing, IInv, TypeOK

LEMMA LeasedRowIs ==
  ASSUME NEW r \in JobRow, NEW w \in Workers, NEW lag \in 0..MaxLag
  PROVE  LET q == LeasedRow(r, w, lag) IN
         /\ q \in JobRow /\ q.state = "leased" /\ q.lessee = w
         /\ q.token = r.token + 1 /\ q.gen = r.gen /\ q.cancel = r.cancel
         /\ q.data = r.data
  <1>1. LeaseTime - lag \in Ttl BY TimeAssumption DEF Ttl
  <1>2. r.token + 1 \in Nat BY DEF JobRow
  <1>3. LeasedRow(r, w, lag) \in JobRow
    BY <1>1, <1>2 DEF LeasedRow, JobRow, JobState
  <1> QED BY <1>3 DEF LeasedRow, JobRow

LEMMA ClaimInv ==
  ASSUME IInv, NEW w \in Workers, NEW lag \in 0..MaxLag, Claim(w, lag)
  PROVE  IInv'
  <1> DEFINE rows == Swept(lag)
  <1>1. PICK j \in Jobs :
          /\ rows[j].state = "queued"
          /\ job' = [rows EXCEPT ![j] = LeasedRow(rows[j], w, lag)]
          /\ leases' = leases \cup
               {[job |-> j, worker |-> w, token |-> job'[j].token,
                 gen |-> job'[j].gen, serial |-> claims + 1]}
    BY DEF Claim
  <1>2. UNCHANGED <<result, principals>> /\ claims' = claims + 1 BY DEF Claim
  <1>3. /\ rows \in [Jobs -> JobRow]
        /\ \A i \in Jobs : RowOK(i, rows[i], result[i], leases)
    BY SweptOK
  <1> HIDE DEF rows
  <1> DEFINE r == LeasedRow(rows[j], w, lag)
             new == [job |-> j, worker |-> w, token |-> job'[j].token,
                     gen |-> job'[j].gen, serial |-> claims + 1]
  <1>5. rows[j] \in JobRow /\ rows[j].token \in Nat /\ rows[j].gen \in Nat
    BY <1>3 DEF JobRow
  <1>7. /\ r \in JobRow /\ r.state = "leased" /\ r.lessee = w
        /\ r.token = rows[j].token + 1
        /\ r.gen = rows[j].gen /\ r.cancel = rows[j].cancel /\ r.data = rows[j].data
    BY <1>5, LeasedRowIs
  <1> HIDE DEF r
  <1>8. job' = [rows EXCEPT ![j] = r] /\ job'[j] = r BY <1>1, <1>3 DEF r
  <1>9. new \in Lease /\ new.job = j /\ new.token = r.token /\ new.gen = r.gen
    <2>1. job'[j].token \in Nat /\ job'[j].gen \in Nat /\ claims + 1 \in Nat
      BY <1>7, <1>8 DEF JobRow, IInv, TypeOK
    <2> QED BY <2>1, <1>8 DEF Lease
  <1>10. leases' = leases \cup {new} BY <1>1
  <1> HIDE DEF new
  <1>11. \A l \in leases : l.token \in Nat /\ l.gen \in Nat BY DEF IInv, TypeOK, Lease
  <1>12. \A l \in leases : l.job = j => l.token <= rows[j].token /\ l.gen <= rows[j].gen
    BY <1>1, <1>3 DEF RowOK
  <1>13. TypeOK'
    <2>1. job' \in [Jobs -> JobRow] BY <1>3, <1>7, <1>8
    <2> QED BY <2>1, <1>2, <1>9, <1>10 DEF IInv, TypeOK
  <1>14. TokensUnique'
    <2>1. \A l \in leases : l.job = j => l.token # new.token
      BY <1>5, <1>7, <1>9, <1>11, <1>12
    <2> QED BY <2>1, <1>9, <1>10 DEF IInv, TokensUnique
  <1>15. ASSUME NEW i \in Jobs PROVE RowOK(i, job'[i], result'[i], leases')
    <2>1. CASE i = j
      <3>a. RowOK(j, rows[j], result[j], leases) BY <1>3
      <3>1. result'[i] = NoResult BY <2>1, <3>a, <1>1, <1>2 DEF RowOK
      <3>2. rows[j].data <= rows[j].token /\ rows[j].data \in Nat
        BY <3>a, <1>3 DEF RowOK, JobRow
      <3>3. r.cancel = FALSE \/ ~r.cancel
        BY <3>a, <1>1, <1>7 DEF RowOK, CheckInvariants, JobState
      <3> QED BY <2>1, <3>1, <3>2, <1>5, <1>7, <1>8, <1>9, <1>10, <1>11, <1>12,
              WorkerAssumption DEF RowOK, LEASED_STATES, CheckInvariants
    <2>2. CASE i # j
      <3>1. job'[i] = rows[i] BY <2>2, <1>3, <1>8
      <3>2. RowOK(i, rows[i], result[i], leases) BY <1>3
      <3> QED BY <2>2, <3>1, <3>2, <1>2, <1>9, <1>10 DEF RowOK
    <2> QED BY <2>1, <2>2
  <1> QED BY <1>13, <1>14, <1>15 DEF IInv
(* The row behind a granted lease. *)
LEMMA LeaseRow ==
  ASSUME IInv, NEW l \in leases
  PROVE  /\ l.job \in Jobs /\ l \in Lease /\ l.token \in Nat /\ l.gen \in Nat
         /\ job[l.job] \in JobRow /\ result[l.job] \in JobResult
         /\ RowOK(l.job, job[l.job], result[l.job], leases)
         /\ leases \in SUBSET Lease
  BY DEF IInv, TypeOK, Lease

LEMMA StartInv ==
  ASSUME IInv, NEW l \in leases, Start(l)
  PROVE  IInv'
  <1> DEFINE r == job[l.job]
             q == [r EXCEPT !.state = "running"]
  <1>1. r \in JobRow /\ RowOK(l.job, r, result[l.job], leases) /\ l.job \in Jobs
    BY LeaseRow
  <1>2. r.state = "leased" BY DEF Start
  <1> HIDE DEF r
  <1>3. q \in JobRow BY <1>1 DEF JobRow, JobState
  <1>4. RowOK(l.job, q, result[l.job], leases)
    BY <1>1, <1>2 DEF RowOK, JobRow, LEASED_STATES, CheckInvariants
  <1> QED BY <1>1, <1>3, <1>4, OneJobRow DEF Start, Update, r

LEMMA HeartbeatInv ==
  ASSUME IInv, NEW l \in leases, NEW lag \in 0..MaxLag, Heartbeat(l, lag)
  PROVE  IInv'
  <1> DEFINE r == job[l.job]
             q == [r EXCEPT !.ttl = LeaseTime - lag]
  <1>1. r \in JobRow /\ RowOK(l.job, r, result[l.job], leases) /\ l.job \in Jobs
    BY LeaseRow
  <1> HIDE DEF r
  <1>2. LeaseTime - lag \in Ttl BY TimeAssumption DEF Ttl
  <1>3. q \in JobRow BY <1>1, <1>2 DEF JobRow
  <1>4. RowOK(l.job, q, result[l.job], leases)
    BY <1>1 DEF RowOK, JobRow, CheckInvariants
  <1> QED BY <1>1, <1>3, <1>4, OneJobRow DEF Heartbeat, Update, r

LEMMA SaveStageDataInv ==
  ASSUME IInv, NEW l \in leases, SaveStageData(l)
  PROVE  IInv'
  <1> DEFINE r == job[l.job]
             q == [r EXCEPT !.data = l.token]
  <1>1. /\ r \in JobRow /\ RowOK(l.job, r, result[l.job], leases)
        /\ l.job \in Jobs /\ l.token \in Nat
    BY LeaseRow
  <1>2. r.token = l.token BY DEF SaveStageData, LockActive, Owned
  <1> HIDE DEF r
  <1>3. q \in JobRow BY <1>1 DEF JobRow
  <1>4. RowOK(l.job, q, result[l.job], leases)
    BY <1>1, <1>2 DEF RowOK, JobRow, CheckInvariants
  <1> QED BY <1>1, <1>3, <1>4, OneJobRow DEF SaveStageData, Update, r

LEMMA RecordRequestIdInv ==
  ASSUME IInv, NEW l \in leases, RecordRequestId(l)
  PROVE  IInv'
  <1> DEFINE r == job[l.job]
             q == [r EXCEPT !.reqid = TRUE]
  <1>1. r \in JobRow /\ RowOK(l.job, r, result[l.job], leases) /\ l.job \in Jobs
    BY LeaseRow
  <1> HIDE DEF r
  <1>3. q \in JobRow BY <1>1 DEF JobRow
  <1>4. RowOK(l.job, q, result[l.job], leases)
    BY <1>1 DEF RowOK, JobRow, CheckInvariants
  <1> QED BY <1>1, <1>3, <1>4, OneJobRow DEF RecordRequestId, Update, r

(* Ending a lease in a terminal state that keeps the generation. *)
LEMMA FinishedRowIs ==
  ASSUME NEW r \in JobRow, NEW s \in {"published", "failed"}
  PROVE  LET q == Cleared([r EXCEPT !.state = s]) IN
         /\ q \in JobRow /\ q.state = s /\ q.lessee = NoWorker
         /\ q.token = r.token /\ q.gen = r.gen /\ q.cancel = r.cancel
         /\ q.data = r.data
  <1> DEFINE p == [r EXCEPT !.state = s]
  <1>1. p \in JobRow BY DEF JobRow, JobState
  <1>2. Cleared(p) \in JobRow BY <1>1, ZeroTimes DEF JobRow, Cleared
  <1> QED BY <1>1, <1>2 DEF JobRow, Cleared

LEMMA FailInv ==
  ASSUME IInv, NEW l \in leases, Fail(l)
  PROVE  IInv'
  <1> DEFINE r == job[l.job]
             q == Cleared([r EXCEPT !.state = "failed"])
  <1>1. r \in JobRow /\ RowOK(l.job, r, result[l.job], leases) /\ l.job \in Jobs
    BY LeaseRow
  <1>2. r.state \in LEASED_STATES BY DEF Fail, Held
  <1>3. /\ q \in JobRow /\ q.state = "failed" /\ q.lessee = NoWorker
        /\ q.token = r.token /\ q.gen = r.gen /\ q.cancel = r.cancel
        /\ q.data = r.data
    BY <1>1, FinishedRowIs
  <1>5. job' = [job EXCEPT ![l.job] = q] BY DEF Fail, Update
  <1> HIDE DEF r, q
  <1>4. RowOK(l.job, q, result[l.job], leases)
    BY <1>1, <1>2, <1>3 DEF RowOK, LEASED_STATES, CheckInvariants
  <1> QED BY <1>1, <1>3, <1>4, <1>5, OneJobRow DEF Fail

LEMMA RetryInv ==
  ASSUME IInv, NEW l \in leases, NEW c \in Classes, NEW delay \in 0..MaxDelay,
         Retry(l, c, delay)
  PROVE  IInv'
  <1> DEFINE r == job[l.job]
             p == ReturnedRow(r)
             q == [p EXCEPT !.wait = delay, !.counts[c] = @ + 1]
  <1>1. /\ r \in JobRow /\ RowOK(l.job, r, result[l.job], leases)
        /\ l.job \in Jobs /\ leases \in SUBSET Lease
    BY LeaseRow
  <1>2. r.state \in LEASED_STATES BY DEF Retry, Held
  <1>3. p \in JobRow /\ RowOK(l.job, p, result[l.job], leases)
    BY <1>1, <1>2, ReturnedOK
  <1>4. job' = [job EXCEPT ![l.job] = q] BY DEF Retry, Update
  <1> HIDE DEF r, p
  <1>5. delay \in Wait BY TimeAssumption DEF Wait
  <1>6. p.counts \in [Classes -> Nat] BY <1>3 DEF JobRow
  <1>7. [p.counts EXCEPT ![c] = @ + 1] \in [Classes -> Nat] BY <1>6
  <1>8. q = [p EXCEPT !.wait = delay, !.counts = [p.counts EXCEPT ![c] = @ + 1]]
    BY <1>3 DEF JobRow
  <1>9. q \in JobRow BY <1>3, <1>5, <1>7, <1>8 DEF JobRow
  <1>10. RowOK(l.job, q, result[l.job], leases)
    BY <1>3, <1>8 DEF RowOK, JobRow, CheckInvariants
  <1> QED BY <1>1, <1>4, <1>9, <1>10, OneJobRow DEF Retry

LEMMA ReleaseInv ==
  ASSUME IInv, NEW l \in leases, Release(l)
  PROVE  IInv'
  <1>1. /\ job[l.job] \in JobRow /\ RowOK(l.job, job[l.job], result[l.job], leases)
        /\ l.job \in Jobs /\ leases \in SUBSET Lease
    BY LeaseRow
  <1>2. job[l.job].state \in LEASED_STATES BY DEF Release, Held
  <1>3. /\ ReturnedRow(job[l.job]) \in JobRow
        /\ RowOK(l.job, ReturnedRow(job[l.job]), result[l.job], leases)
    BY <1>1, <1>2, ReturnedOK
  <1> QED BY <1>1, <1>3, OneJobRow DEF Release, Update

LEMMA CancelInv ==
  ASSUME IInv, NEW l \in leases, Cancel(l)
  PROVE  IInv'
  <1>1. /\ job[l.job] \in JobRow /\ RowOK(l.job, job[l.job], result[l.job], leases)
        /\ l.job \in Jobs /\ leases \in SUBSET Lease
    BY LeaseRow
  <1>2. job[l.job].state \in ACTIVE BY DEF Cancel, Held, ACTIVE
  <1>3. /\ CancelledRow(job[l.job]) \in JobRow
        /\ RowOK(l.job, CancelledRow(job[l.job]), result[l.job], leases)
    BY <1>1, <1>2, CancelledOK
  <1> QED BY <1>1, <1>3, OneJobRow DEF Cancel, Update
LEMMA PublishInv ==
  ASSUME IInv, NEW l \in leases, NEW succ \in SUBSET Keys, Publish(l, succ)
  PROVE  IInv'
  <1> DEFINE r == job[l.job]
             q == Cleared([r EXCEPT !.state = "published"])
             o == r.owner
             res == [token |-> l.token, gen |-> l.gen, succ |-> succ]
  <1>1. /\ r \in JobRow /\ RowOK(l.job, r, result[l.job], leases) /\ l.job \in Jobs
        /\ l.token \in Nat /\ l.gen \in Nat
    BY LeaseRow
  <1>2. /\ r.state = "running" /\ ~r.cancel /\ r.token = l.token /\ r.gen = l.gen
    BY DEF Publish, LockActive, Owned
  <1>3. PICK ids \in FreshIds({k \in succ : ~KeyTaken(k)}) :
          job' = [Inserted(job, ids, o) EXCEPT ![l.job] = q]
    BY DEF Publish
  <1>4. /\ result' = [result EXCEPT ![l.job] = res]
        /\ UNCHANGED <<principals, leases, claims>>
    BY DEF Publish
  <1>5. o \in Owners \cup {NoOwner} BY <1>1 DEF JobRow
  <1>6. {k \in succ : ~KeyTaken(k)} \in SUBSET Keys OBVIOUS
  <1>7. /\ Inserted(job, ids, o) \in [Jobs -> JobRow]
        /\ \A j \in Jobs : RowOK(j, Inserted(job, ids, o)[j], result[j], leases)
    BY <1>3, <1>5, <1>6, InsertedOK
  <1>8. /\ q \in JobRow /\ q.state = "published" /\ q.lessee = NoWorker
        /\ q.token = r.token /\ q.gen = r.gen /\ q.cancel = r.cancel
        /\ q.data = r.data
    BY <1>1, FinishedRowIs
  <1>9. res \in JobResult /\ res.token = l.token /\ res.gen = l.gen
    BY <1>1 DEF JobResult
  <1> HIDE DEF r, q, o, res
  <1>10. RowOK(l.job, q, res, leases)
    BY <1>1, <1>2, <1>8, <1>9 DEF RowOK, LEASED_STATES, CheckInvariants
  <1>11. job' \in [Jobs -> JobRow] /\ result' \in [Jobs -> JobResult]
    BY <1>3, <1>4, <1>7, <1>8, <1>9 DEF IInv, TypeOK
  <1>12. ASSUME NEW j \in Jobs PROVE RowOK(j, job'[j], result'[j], leases)
    <2>1. CASE j = l.job
      <3>1. job'[j] = q BY <2>1, <1>3, <1>7
      <3>2. result'[j] = res BY <2>1, <1>4 DEF IInv, TypeOK
      <3> QED BY <2>1, <3>1, <3>2, <1>10
    <2>2. CASE j # l.job
      <3>1. job'[j] = Inserted(job, ids, o)[j] BY <2>2, <1>3, <1>7
      <3>2. result'[j] = result[j] BY <2>2, <1>4 DEF IInv, TypeOK
      <3> QED BY <3>1, <3>2, <1>7
    <2> QED BY <2>1, <2>2
  <1>13. principals' \subseteq Owners BY <1>4 DEF IInv, TypeOK
  <1> QED BY <1>4, <1>11, <1>12, <1>13, ManyRows

LEMMA RequestCancelInv ==
  ASSUME IInv, NEW j \in Jobs, RequestCancel(j)
  PROVE  IInv'
  <1>1. /\ job[j] \in JobRow /\ RowOK(j, job[j], result[j], leases)
        /\ leases \in SUBSET Lease
    BY DEF IInv, TypeOK
  <1>2. CASE job[j].state = "queued"
    <2>1. /\ CancelledRow(job[j]) \in JobRow
          /\ RowOK(j, CancelledRow(job[j]), result[j], leases)
      BY <1>1, <1>2, CancelledOK DEF ACTIVE
    <2>2. job' = [job EXCEPT ![j] = CancelledRow(job[j])]
      BY <1>2 DEF RequestCancel, Update, LEASED_STATES
    <2> QED BY <2>1, <2>2, OneJobRow DEF RequestCancel
  <1>3. CASE job[j].state \in LEASED_STATES
    <2> DEFINE r == job[j]
               q == [r EXCEPT !.cancel = TRUE]
    <2>1. job' = [job EXCEPT ![j] = q]
      BY <1>3 DEF RequestCancel, Update, LEASED_STATES
    <2>2. q \in JobRow BY <1>1 DEF JobRow
    <2>3. RowOK(j, q, result[j], leases)
      BY <1>1, <1>3 DEF RowOK, JobRow, LEASED_STATES, CheckInvariants
    <2> QED BY <2>1, <2>2, <2>3, OneJobRow DEF RequestCancel
  <1> QED BY <1>2, <1>3 DEF RequestCancel

LEMMA DeleteInv ==
  ASSUME IInv, NEW j \in Jobs, Delete(j)
  PROVE  IInv'
  <1>1. /\ job[j] \in JobRow /\ RowOK(j, job[j], result[j], leases)
        /\ leases \in SUBSET Lease /\ job[j].state \in JobState
    BY DEF IInv, TypeOK, Delete, InTable
  <1>2. /\ DeletedRow(job[j]) \in JobRow
        /\ RowOK(j, DeletedRow(job[j]), NoResult, leases)
    BY <1>1, DeletedOK
  <1> QED BY <1>2, BlankTyped, OneRow DEF Delete, Update

LEMMA ExpireWorkspaceInv ==
  ASSUME IInv, NEW o \in Owners, ExpireWorkspace(o)
  PROVE  IInv'
  <1>1. ASSUME NEW j \in Jobs
        PROVE  /\ job'[j] \in JobRow /\ result'[j] \in JobResult
               /\ RowOK(j, job'[j], result'[j], leases)
    <2>1. /\ job[j] \in JobRow /\ result[j] \in JobResult
          /\ RowOK(j, job[j], result[j], leases) /\ leases \in SUBSET Lease
      BY DEF IInv, TypeOK
    <2>2. CASE InTable(j) /\ job[j].owner = o
      BY <2>1, <2>2, DeletedOK, BlankTyped DEF ExpireWorkspace, InTable
    <2>3. CASE ~(InTable(j) /\ job[j].owner = o)
      BY <2>1, <2>3 DEF ExpireWorkspace
    <2> QED BY <2>2, <2>3
  <1>2. job' \in [Jobs -> JobRow] /\ result' \in [Jobs -> JobResult]
    BY <1>1 DEF ExpireWorkspace
  <1>3. principals' \subseteq Owners BY DEF ExpireWorkspace, IInv, TypeOK
  <1> QED BY <1>1, <1>2, <1>3, ManyRows DEF ExpireWorkspace

LEMMA PurgeInv ==
  ASSUME IInv, NEW j \in Jobs, Purge(j)
  PROVE  IInv'
  <1> DEFINE q == [Blank EXCEPT !.state = "gone", !.key = job[j].key]
  <1>1. job[j].key \in Keys \cup {NoKey} BY DEF IInv, TypeOK, JobRow
  <1>2. q \in JobRow BY <1>1, BlankTyped DEF JobRow
  <1>3. RowOK(j, q, NoResult, leases)
    BY DEF RowOK, Blank, LEASED_STATES, JobState
  <1> QED BY <1>2, <1>3, BlankTyped, OneRow DEF Purge, Update

LEMMA TickInv ==
  ASSUME IInv, Tick
  PROVE  IInv'
  <1>1. ASSUME NEW j \in Jobs
        PROVE  job'[j] \in JobRow /\ RowOK(j, job'[j], result[j], leases)
    <2> DEFINE r == job[j]
               t == IF r.state \in LEASED_STATES THEN Floor(r.ttl, -(MaxLag + 1)) ELSE r.ttl
               w == IF r.state \in ACTIVE THEN Floor(r.wait, -MaxLag) ELSE r.wait
               q == [r EXCEPT !.ttl = t, !.wait = w]
    <2>1. r \in JobRow /\ RowOK(j, r, result[j], leases) BY DEF IInv, TypeOK
    <2>2. job'[j] = q BY DEF Tick
    <2>3. t \in Ttl BY <2>1, TimeAssumption DEF JobRow, Floor, Ttl
    <2>4. w \in Wait BY <2>1, TimeAssumption DEF JobRow, Floor, Wait
    <2> HIDE DEF r, t, w
    <2>5. q \in JobRow BY <2>1, <2>3, <2>4 DEF JobRow
    <2>6. RowOK(j, q, result[j], leases)
      BY <2>1 DEF RowOK, JobRow, CheckInvariants
    <2> QED BY <2>2, <2>5, <2>6
  <1>2. job' \in [Jobs -> JobRow] BY <1>1 DEF Tick
  <1> QED BY <1>1, <1>2, ManyRows DEF Tick, IInv, TypeOK

LEMMA NextInv == IInv /\ [Next]_vars => IInv'
  <1> SUFFICES ASSUME IInv, [Next]_vars PROVE IInv' OBVIOUS
  <1>1. CASE UNCHANGED vars
    BY <1>1 DEF vars, IInv, TypeOK, TokensUnique
  <1>2. CASE Next
    <2>1. ASSUME NEW k \in Keys, NEW o \in Owners \cup {NoOwner}, Enqueue(k, o)
          PROVE  IInv'
      BY <2>1, EnqueueInv
    <2>2. ASSUME NEW w \in Workers, NEW lag \in 0..MaxLag, Claim(w, lag)
          PROVE  IInv'
      BY <2>2, ClaimInv
    <2>3. ASSUME NEW lag \in 0..MaxLag, ClaimNothing(lag) PROVE IInv'
      BY <2>3, ClaimNothingInv
    <2>4. ASSUME NEW l \in leases, LeaseStep(l) PROVE IInv'
      BY <2>4, StartInv, HeartbeatInv, PublishInv, SaveStageDataInv, FailInv,
         RetryInv, RecordRequestIdInv, ReleaseInv, CancelInv DEF LeaseStep
    <2>5. ASSUME NEW j \in Jobs, RequestCancel(j) \/ Delete(j) \/ Purge(j)
          PROVE  IInv'
      BY <2>5, RequestCancelInv, DeleteInv, PurgeInv
    <2>6. ASSUME NEW o \in Owners, ExpireWorkspace(o) PROVE IInv'
      BY <2>6, ExpireWorkspaceInv
    <2>7. CASE Tick BY <2>7, TickInv
    <2> QED BY <1>2, <2>1, <2>2, <2>3, <2>4, <2>5, <2>6, <2>7 DEF Next
  <1> QED BY <1>1, <1>2

LEMMA Invariance == Spec => []IInv
  BY InitInv, NextInv, PTL DEF Spec

-----------------------------------------------------------------------------
(* What a transaction may do to one row *)

(* The row r may become q: the body of NothingTakenBack for one row. *)
RowStep(r, q) ==
  /\ q.data >= r.data \/ q.state \in {"deleted", "gone"}
  /\ r.cancel /\ q.state # "gone" =>
       /\ q.cancel /\ q.state # "published" /\ q.token = r.token

StepOK == \A j \in Jobs : RowStep(job[j], job'[j])

LEMMA SameStep ==
  ASSUME IInv, NEW j \in Jobs
  PROVE  RowStep(job[j], job[j])
  <1>1. job[j].data \in Nat BY DEF IInv, TypeOK, JobRow
  <1>2. job[j].state = "published" => ~job[j].cancel
    BY DEF IInv, RowOK, CheckInvariants, JobState
  <1> QED BY <1>1, <1>2 DEF RowStep

LEMMA OneRowStep ==
  ASSUME IInv, NEW j \in Jobs, NEW r, job' = [job EXCEPT ![j] = r],
         RowStep(job[j], r)
  PROVE  StepOK
  <1>1. \A i \in Jobs : job'[i] = IF i = j THEN r ELSE job[i] BY DEF IInv, TypeOK
  <1> QED BY <1>1, SameStep DEF StepOK

(* A row whose cancel flag, token and checkpoint stay, in a state that is  *)
(* not published.                                                          *)
LEMMA KeptStep ==
  ASSUME NEW r \in JobRow, NEW q, q.state # "published", q.token = r.token,
         q.data = r.data, r.cancel => q.cancel
  PROVE  RowStep(r, q)
  BY DEF RowStep, JobRow

LEMMA SweptStep ==
  ASSUME IInv, NEW lag \in 0..MaxLag, NEW j \in Jobs
  PROVE  RowStep(job[j], Swept(lag)[j])
  <1>1. job[j] \in JobRow BY DEF IInv, TypeOK
  <1>2. CASE job[j].state \in LEASED_STATES /\ job[j].ttl + lag < 0
    <2> DEFINE q == ReturnedRow(job[j])
    <2>1. Swept(lag)[j] = q BY <1>2 DEF Swept
    <2>2. /\ q.state = IF job[j].cancel THEN "cancelled" ELSE "queued"
          /\ q.token = job[j].token /\ q.cancel = job[j].cancel
          /\ q.data = job[j].data
      BY <1>1, ReturnedRowIs
    <2> HIDE DEF q
    <2> QED BY <1>1, <2>1, <2>2, KeptStep
  <1>3. CASE ~(job[j].state \in LEASED_STATES /\ job[j].ttl + lag < 0)
    BY <1>3, SameStep DEF Swept
  <1> QED BY <1>2, <1>3

LEMMA InsertedStep ==
  ASSUME IInv, NEW ks \in SUBSET Keys, NEW ids \in FreshIds(ks), NEW o,
         NEW j \in Jobs
  PROVE  RowStep(job[j], Inserted(job, ids, o)[j])
  <1>1. CASE \E k \in DOMAIN ids : ids[k] = j
    <2>1. job[j].state = "absent" BY <1>1 DEF FreshIds
    <2>2. job[j].data = 0 /\ ~job[j].cancel BY <2>1 DEF IInv, RowOK
    <2>3. PICK k : Inserted(job, ids, o)[j] = NewRow(k, o) BY <1>1 DEF Inserted
    <2>4. NewRow(k, o).data = 0 BY DEF NewRow, Blank
    <2> QED BY <2>2, <2>3, <2>4 DEF RowStep
  <1>2. CASE ~ \E k \in DOMAIN ids : ids[k] = j
    BY <1>2, SameStep DEF Inserted
  <1> QED BY <1>1, <1>2

(* Of the steps of a worker only a publication and a checkpoint need the   *)
(* fence: the first is refused after a requested cancellation, and the     *)
(* second carries the row's own token, which no checkpoint exceeds.        *)
LEMMA ClaimSteps ==
  ASSUME IInv, NEW w \in Workers, NEW lag \in 0..MaxLag, Claim(w, lag)
  PROVE  StepOK
  <1> DEFINE rows == Swept(lag)
  <1>1. PICK j \in Jobs :
          /\ rows[j].state = "queued"
          /\ job' = [rows EXCEPT ![j] = LeasedRow(rows[j], w, lag)]
    BY DEF Claim
  <1>2. /\ rows \in [Jobs -> JobRow]
        /\ \A i \in Jobs : RowOK(i, rows[i], result[i], leases)
    BY SweptOK
  <1>3. \A i \in Jobs : RowStep(job[i], rows[i]) BY SweptStep
  <1> HIDE DEF rows
  <1> DEFINE r == LeasedRow(rows[j], w, lag)
  <1>4. r.data = rows[j].data /\ rows[j].state # "gone" BY <1>1, <1>2, LeasedRowIs
  <1>5. ~rows[j].cancel BY <1>1, <1>2 DEF RowOK, CheckInvariants, JobState
  <1>6. ~job[j].cancel BY <1>3, <1>4, <1>5 DEF RowStep
  <1>7. rows[j].state \notin {"deleted", "gone"} BY <1>1
  <1> HIDE DEF r
  <1>8. RowStep(job[j], r) BY <1>3, <1>4, <1>6, <1>7 DEF RowStep
  <1>9. \A i \in Jobs : job'[i] = IF i = j THEN r ELSE rows[i] BY <1>1, <1>2 DEF r
  <1> QED BY <1>3, <1>8, <1>9 DEF StepOK

LEMMA PublishStep ==
  ASSUME IInv, NEW l \in leases, NEW succ \in SUBSET Keys, Publish(l, succ)
  PROVE  StepOK
  <1> DEFINE r == job[l.job]
             q == Cleared([r EXCEPT !.state = "published"])
             o == r.owner
  <1>1. r \in JobRow /\ l.job \in Jobs BY LeaseRow
  <1>2. ~r.cancel BY DEF Publish, LockActive
  <1>3. PICK ids \in FreshIds({k \in succ : ~KeyTaken(k)}) :
          job' = [Inserted(job, ids, o) EXCEPT ![l.job] = q]
    BY DEF Publish
  <1>4. q.data = r.data /\ r.data \in Nat BY <1>1, FinishedRowIs DEF JobRow
  <1>5. {k \in succ : ~KeyTaken(k)} \in SUBSET Keys OBVIOUS
  <1> HIDE DEF q, o
  <1>6. \A j \in Jobs : RowStep(job[j], Inserted(job, ids, o)[j])
    BY <1>3, <1>5, InsertedStep
  <1>7. RowStep(r, q) BY <1>2, <1>4 DEF RowStep
  <1>8. \A j \in Jobs : job'[j] = IF j = l.job THEN q ELSE Inserted(job, ids, o)[j]
    BY <1>1, <1>3 DEF Inserted
  <1> QED BY <1>6, <1>7, <1>8 DEF StepOK

LEMMA LeaseSteps ==
  ASSUME IInv, NEW l \in leases, LeaseStep(l)
  PROVE  StepOK
  <1> DEFINE r == job[l.job]
  <1>1. /\ r \in JobRow /\ RowOK(l.job, r, result[l.job], leases)
        /\ l.job \in Jobs /\ l.token \in Nat
    BY LeaseRow
  <1> HIDE DEF r
  <1>2. CASE Start(l)
    <2> DEFINE q == [r EXCEPT !.state = "running"]
    <2>1. RowStep(r, q) BY <1>1, KeptStep DEF JobRow
    <2> QED BY <1>1, <1>2, <2>1, OneRowStep DEF Start, Update, r
  <1>3. ASSUME NEW lag \in 0..MaxLag, Heartbeat(l, lag) PROVE StepOK
    <2> DEFINE q == [r EXCEPT !.ttl = LeaseTime - lag]
    <2>1. r.state # "published" BY <1>3 DEF Heartbeat, Held, LEASED_STATES, r
    <2>2. RowStep(r, q) BY <1>1, <2>1, KeptStep DEF JobRow
    <2> QED BY <1>1, <1>3, <2>2, OneRowStep DEF Heartbeat, Update, r
  <1>4. CASE SaveStageData(l)
    <2> DEFINE q == [r EXCEPT !.data = l.token]
    <2>1. r.token = l.token /\ ~r.cancel
      BY <1>4 DEF SaveStageData, LockActive, Owned, r
    <2>2. q.data = l.token BY <1>1 DEF JobRow
    <2>3. r.data <= r.token BY <1>1 DEF RowOK
    <2>4. r.data \in Nat /\ r.token \in Nat BY <1>1 DEF JobRow
    <2>5. RowStep(r, q) BY <2>1, <2>2, <2>3, <2>4 DEF RowStep
    <2> QED BY <1>1, <1>4, <2>5, OneRowStep DEF SaveStageData, Update, r
  <1>5. CASE Fail(l)
    <2> DEFINE q == Cleared([r EXCEPT !.state = "failed"])
    <2>1. /\ q.state = "failed" /\ q.token = r.token /\ q.cancel = r.cancel
          /\ q.data = r.data
      BY <1>1, FinishedRowIs
    <2>2. job' = [job EXCEPT ![l.job] = q] BY <1>5 DEF Fail, Update, r
    <2> HIDE DEF q
    <2>3. RowStep(r, q) BY <1>1, <2>1, KeptStep
    <2> QED BY <1>1, <2>2, <2>3, OneRowStep DEF r
  <1>6. ASSUME NEW c \in Classes, NEW delay \in 0..MaxDelay, Retry(l, c, delay)
        PROVE  StepOK
    <2> DEFINE p == ReturnedRow(r)
               q == [p EXCEPT !.wait = delay, !.counts[c] = @ + 1]
    <2>1. /\ p \in JobRow /\ p.state = IF r.cancel THEN "cancelled" ELSE "queued"
          /\ p.token = r.token /\ p.cancel = r.cancel /\ p.data = r.data
      BY <1>1, ReturnedRowIs
    <2>2. job' = [job EXCEPT ![l.job] = q] BY <1>6 DEF Retry, Update, r
    <2> HIDE DEF p
    <2>3. q.state = p.state /\ q.token = p.token /\ q.cancel = p.cancel /\ q.data = p.data
      BY <2>1 DEF JobRow
    <2> HIDE DEF q
    <2>4. RowStep(r, q) BY <1>1, <2>1, <2>3, KeptStep
    <2> QED BY <1>1, <2>2, <2>4, OneRowStep DEF r
  <1>7. CASE RecordRequestId(l)
    <2> DEFINE q == [r EXCEPT !.reqid = TRUE]
    <2>1. r.state # "published" BY <1>7 DEF RecordRequestId, Held, LEASED_STATES, r
    <2>2. RowStep(r, q) BY <1>1, <2>1, KeptStep DEF JobRow
    <2> QED BY <1>1, <1>7, <2>2, OneRowStep DEF RecordRequestId, Update, r
  <1>8. CASE Release(l)
    <2> DEFINE q == ReturnedRow(r)
    <2>1. /\ q.state = IF r.cancel THEN "cancelled" ELSE "queued"
          /\ q.token = r.token /\ q.cancel = r.cancel /\ q.data = r.data
      BY <1>1, ReturnedRowIs
    <2>2. job' = [job EXCEPT ![l.job] = q] BY <1>8 DEF Release, Update, r
    <2> HIDE DEF q
    <2>3. RowStep(r, q) BY <1>1, <2>1, KeptStep
    <2> QED BY <1>1, <2>2, <2>3, OneRowStep DEF r
  <1>9. CASE Cancel(l)
    <2> DEFINE q == CancelledRow(r)
    <2>1. /\ q.state = "cancelled" /\ q.token = r.token /\ q.cancel = TRUE
          /\ q.data = r.data
      BY <1>1, CancelledRowIs
    <2>2. job' = [job EXCEPT ![l.job] = q] BY <1>9 DEF Cancel, Update, r
    <2> HIDE DEF q
    <2>3. RowStep(r, q) BY <1>1, <2>1, KeptStep
    <2> QED BY <1>1, <2>2, <2>3, OneRowStep DEF r
  <1> QED BY <1>2, <1>3, <1>4, <1>5, <1>6, <1>7, <1>8, <1>9, PublishStep DEF LeaseStep

LEMMA OwnerSteps ==
  ASSUME IInv, NEW j \in Jobs, RequestCancel(j) \/ Delete(j) \/ Purge(j)
  PROVE  StepOK
  <1> DEFINE r == job[j]
  <1>1. r \in JobRow BY DEF IInv, TypeOK
  <1> HIDE DEF r
  <1>2. CASE RequestCancel(j)
    <2>1. PICK q : /\ job' = [job EXCEPT ![j] = q]
                   /\ \/ q = CancelledRow(r)
                      \/ r.state \in LEASED_STATES /\ q = [r EXCEPT !.cancel = TRUE]
      BY <1>2 DEF RequestCancel, Update, r
    <2>2. /\ q.state # "published" /\ q.token = r.token /\ q.cancel
          /\ q.data = r.data
      <3>1. CASE q = CancelledRow(r) BY <1>1, <3>1, CancelledRowIs
      <3>2. CASE r.state \in LEASED_STATES /\ q = [r EXCEPT !.cancel = TRUE]
        BY <1>1, <3>2 DEF JobRow, LEASED_STATES
      <3> QED BY <2>1, <3>1, <3>2
    <2>3. RowStep(r, q) BY <1>1, <2>2, KeptStep
    <2> QED BY <2>1, <2>3, OneRowStep DEF r
  <1>3. CASE Delete(j)
    <2> DEFINE q == DeletedRow(r)
    <2>1. /\ q.state = "deleted" /\ q.token = r.token /\ q.cancel = r.cancel
      BY <1>1, <1>3, DeletedRowIs DEF Delete, r
    <2>2. job' = [job EXCEPT ![j] = q] BY <1>3 DEF Delete, Update, r
    <2> HIDE DEF q
    <2>3. RowStep(r, q) BY <2>1 DEF RowStep
    <2> QED BY <2>2, <2>3, OneRowStep DEF r
  <1>4. CASE Purge(j)
    <2> DEFINE q == [Blank EXCEPT !.state = "gone", !.key = job[j].key]
    <2>1. q.state = "gone" BY DEF Blank
    <2>2. job' = [job EXCEPT ![j] = q] BY <1>4 DEF Purge, Update
    <2> HIDE DEF q
    <2>3. RowStep(r, q) BY <2>1 DEF RowStep
    <2> QED BY <2>2, <2>3, OneRowStep DEF r
  <1> QED BY <1>2, <1>3, <1>4

LEMMA ExpireWorkspaceStep ==
  ASSUME IInv, NEW o \in Owners, ExpireWorkspace(o)
  PROVE  StepOK
  <1> SUFFICES ASSUME NEW j \in Jobs PROVE RowStep(job[j], job'[j]) BY DEF StepOK
  <1>1. job[j] \in JobRow BY DEF IInv, TypeOK
  <1>2. CASE InTable(j) /\ job[j].owner = o
    <2> DEFINE p == DeletedRow(job[j])
    <2>1. /\ p \in JobRow /\ p.state = "deleted" /\ p.token = job[j].token
          /\ p.cancel = job[j].cancel
      <3>1. CASE job[j].state = "deleted" BY <1>1, <3>1 DEF DeletedRow
      <3>2. CASE job[j].state # "deleted" BY <1>1, <3>2, DeletedRowIs
      <3> QED BY <3>1, <3>2
    <2>2. job'[j] = [p EXCEPT !.owner = NoOwner, !.key = NoKey, !.reqid = FALSE]
      BY <1>2 DEF ExpireWorkspace, DetachedRow
    <2> HIDE DEF p
    <2>3. /\ job'[j].state = "deleted" /\ job'[j].token = job[j].token
          /\ job'[j].cancel = job[j].cancel
      BY <2>1, <2>2 DEF JobRow
    <2> QED BY <2>3 DEF RowStep
  <1>3. CASE ~(InTable(j) /\ job[j].owner = o)
    BY <1>3, SameStep DEF ExpireWorkspace
  <1> QED BY <1>2, <1>3

LEMMA TickStep ==
  ASSUME IInv, Tick
  PROVE  StepOK
  <1> SUFFICES ASSUME NEW j \in Jobs PROVE RowStep(job[j], job'[j]) BY DEF StepOK
  <1>1. job[j] \in JobRow BY DEF IInv, TypeOK
  <1>2. /\ job'[j].state = job[j].state /\ job'[j].token = job[j].token
        /\ job'[j].data = job[j].data /\ job'[j].cancel = job[j].cancel
    BY <1>1 DEF Tick, JobRow
  <1>3. RowStep(job[j], job[j]) BY SameStep
  <1> QED BY <1>2, <1>3 DEF RowStep

LEMMA NextStep == IInv /\ [Next]_vars => StepOK
  <1> SUFFICES ASSUME IInv, [Next]_vars PROVE StepOK OBVIOUS
  <1>1. CASE UNCHANGED vars BY <1>1, SameStep DEF vars, StepOK
  <1>2. CASE Next
    <2>1. ASSUME NEW k \in Keys, NEW o \in Owners \cup {NoOwner}, Enqueue(k, o)
          PROVE  StepOK
      <3>1. PICK ids \in FreshIds({k}) : job' = Inserted(job, ids, o)
        BY <2>1 DEF Enqueue
      <3>2. {k} \in SUBSET Keys OBVIOUS
      <3> QED BY <3>1, <3>2, InsertedStep DEF StepOK
    <2>2. ASSUME NEW w \in Workers, NEW lag \in 0..MaxLag, Claim(w, lag)
          PROVE  StepOK
      BY <2>2, ClaimSteps
    <2>3. ASSUME NEW lag \in 0..MaxLag, ClaimNothing(lag) PROVE StepOK
      BY <2>3, SweptStep DEF ClaimNothing, StepOK
    <2>4. ASSUME NEW l \in leases, LeaseStep(l) PROVE StepOK
      BY <2>4, LeaseSteps
    <2>5. ASSUME NEW j \in Jobs, RequestCancel(j) \/ Delete(j) \/ Purge(j)
          PROVE  StepOK
      BY <2>5, OwnerSteps
    <2>6. ASSUME NEW o \in Owners, ExpireWorkspace(o) PROVE StepOK
      BY <2>6, ExpireWorkspaceStep
    <2>7. CASE Tick BY <2>7, TickStep
    <2> QED BY <1>2, <2>1, <2>2, <2>3, <2>4, <2>5, <2>6, <2>7 DEF Next
  <1> QED BY <1>1, <1>2

-----------------------------------------------------------------------------
(* Theorems *)

(* Every row, result and lease the queue's transactions write stays within *)
(* the columns' types and the bounds of time.                              *)
THEOREM TypeCorrect == Spec => []TypeOK
  <1>1. IInv => TypeOK BY DEF IInv
  <1> QED BY <1>1, Invariance, PTL

(* However many leases expire and are granted again, at most one passes    *)
(* the fence of _owned().                                                  *)
THEOREM Fencing == Spec => []OneHolder
  <1>1. IInv => OneHolder BY DEF IInv, TokensUnique, OneHolder, Owned
  <1> QED BY <1>1, Invariance, PTL

(* Effective cancellation and deletion retire every lease granted before.  *)
THEOREM CancelledIsFenced == Spec => []GenerationFence
  <1>1. IInv => GenerationFence
    BY DEF IInv, TypeOK, GenerationFence, RowOK, Lease
  <1> QED BY <1>1, Invariance, PTL

(* A result row exists exactly for published jobs and is the newest        *)
(* lease's: publish() is exactly-once whatever stale workers send.         *)
THEOREM ResultsAreCurrent == Spec => []ResultOfLastLease
  <1>1. IInv => ResultOfLastLease BY DEF IInv, ResultOfLastLease, RowOK
  <1> QED BY <1>1, Invariance, PTL

(* The invariants of check_invariants() hold of every row. *)
THEOREM CancellationIsConsistent == Spec => []CancelConsistent
  <1>1. IInv => CancelConsistent BY DEF IInv, CancelConsistent, RowOK, InTable
  <1> QED BY <1>1, Invariance, PTL

(* No transaction takes back what a newer lease or the owner did: an old   *)
(* lease never replaces a newer checkpoint, and a job whose cancellation   *)
(* was requested neither publishes nor runs under another lease.           *)
THEOREM NeverTakenBack == Spec => NothingTakenBack
  <1> DEFINE A == \A j \in Jobs :
               /\ job'[j].data >= job[j].data \/ job'[j].state \in {"deleted", "gone"}
               /\ job[j].cancel /\ job'[j].state # "gone" =>
                    /\ job'[j].cancel
                    /\ job'[j].state # "published"
                    /\ job'[j].token = job[j].token
  <1>1. IInv /\ [Next]_vars => A BY NextStep DEF StepOK, RowStep
  <1>2. NothingTakenBack <=> [][A]_vars BY DEF NothingTakenBack
  <1> HIDE DEF A
  <1> QED BY <1>1, <1>2, Invariance, PTL DEF Spec

-----------------------------------------------------------------------------
(***************************************************************************)
(* The job queue implements JobLifecycle: under the refinement mapping     *)
(* that keeps a row's state and cancel flag, every transaction moves each  *)
(* row by one event of the state machine, or not at all.                   *)
(***************************************************************************)
(* The refinement mapping for one row. *)
St(r) == [state |-> r.state, cancel |-> r.cancel]

Move(r, q) == Lifecycle!Moves(St(r), St(q))

AllMove == \A j \in Jobs : Move(job[j], job'[j])

-----------------------------------------------------------------------------
(* What the events of the state machine do *)

LEMMA ByOneEvent ==
  ASSUME NEW s, NEW t, NEW e \in JobEvent, s.state \in JobState,
         Lifecycle!Legal(s, e), t = Lifecycle!Apply(s, e)
  PROVE  Lifecycle!Moves(s, t)
  BY DEF Lifecycle!Moves, Lifecycle!ByEvent, Lifecycle!JobEvent, JobEvent,
         Lifecycle!JobState, JobState

(* Where one event leads from status s, and expiry followed by a claim. *)
LEMMA Events ==
  ASSUME NEW s \in JobStatus
  PROVE  /\ s.state = "queued" =>
              Lifecycle!Moves(s, [state |-> "leased", cancel |-> s.cancel])
         /\ s.state = "leased" /\ ~s.cancel =>
              Lifecycle!Moves(s, [state |-> "running", cancel |-> s.cancel])
         /\ s.state = "running" /\ ~s.cancel =>
              Lifecycle!Moves(s, [state |-> "published", cancel |-> s.cancel])
         /\ s.state \in LEASED_STATES =>
              Lifecycle!Moves(s, [state |-> "failed", cancel |-> s.cancel])
         /\ s.state \in LEASED_STATES =>
              Lifecycle!Moves(s, [state |-> IF s.cancel THEN "cancelled" ELSE "queued", cancel |-> s.cancel])
         /\ s.state \in ACTIVE =>
              Lifecycle!Moves(s, [state |-> "cancelled", cancel |-> TRUE])
         /\ s.state \in LEASED_STATES =>
              Lifecycle!Moves(s, [state |-> s.state, cancel |-> TRUE])
         /\ s.state # "deleted" =>
              Lifecycle!Moves(s, [state |-> "deleted", cancel |-> s.cancel])
         /\ s.state \in LEASED_STATES /\ ~s.cancel =>
              Lifecycle!Moves(s, [state |-> "leased", cancel |-> s.cancel])
  <1>0. s = [state |-> s.state, cancel |-> s.cancel] /\ s.state \in JobState BY DEF JobStatus
  <1>1. ASSUME s.state = "queued"
        PROVE  Lifecycle!Moves(s, [state |-> "leased", cancel |-> s.cancel])
    <2>1. "claim" \in JobEvent BY DEF JobEvent
    <2>2. Lifecycle!Legal(s, "claim")
      BY <1>1 DEF Lifecycle!Legal, Lifecycle!ACTIVE, Lifecycle!LEASED_STATES, ACTIVE, LEASED_STATES
    <2>3. [state |-> "leased", cancel |-> s.cancel] = Lifecycle!Apply(s, "claim")
      BY <1>0, <1>1 DEF Lifecycle!Apply, Lifecycle!Returned, JobStatus, LEASED_STATES
    <2> QED BY <1>0, <2>1, <2>2, <2>3, ByOneEvent
  <1>2. ASSUME s.state = "leased", ~s.cancel
        PROVE  Lifecycle!Moves(s, [state |-> "running", cancel |-> s.cancel])
    <2>1. "start" \in JobEvent BY DEF JobEvent
    <2>2. Lifecycle!Legal(s, "start")
      BY <1>2 DEF Lifecycle!Legal, Lifecycle!ACTIVE, Lifecycle!LEASED_STATES, ACTIVE, LEASED_STATES
    <2>3. [state |-> "running", cancel |-> s.cancel] = Lifecycle!Apply(s, "start")
      BY <1>0, <1>2 DEF Lifecycle!Apply, Lifecycle!Returned, JobStatus, LEASED_STATES
    <2> QED BY <1>0, <2>1, <2>2, <2>3, ByOneEvent
  <1>3. ASSUME s.state = "running", ~s.cancel
        PROVE  Lifecycle!Moves(s, [state |-> "published", cancel |-> s.cancel])
    <2>1. "publish" \in JobEvent BY DEF JobEvent
    <2>2. Lifecycle!Legal(s, "publish")
      BY <1>3 DEF Lifecycle!Legal, Lifecycle!ACTIVE, Lifecycle!LEASED_STATES, ACTIVE, LEASED_STATES
    <2>3. [state |-> "published", cancel |-> s.cancel] = Lifecycle!Apply(s, "publish")
      BY <1>0, <1>3 DEF Lifecycle!Apply, Lifecycle!Returned, JobStatus, LEASED_STATES
    <2> QED BY <1>0, <2>1, <2>2, <2>3, ByOneEvent
  <1>4. ASSUME s.state \in LEASED_STATES
        PROVE  Lifecycle!Moves(s, [state |-> "failed", cancel |-> s.cancel])
    <2>1. "fail" \in JobEvent BY DEF JobEvent
    <2>2. Lifecycle!Legal(s, "fail")
      BY <1>4 DEF Lifecycle!Legal, Lifecycle!ACTIVE, Lifecycle!LEASED_STATES, ACTIVE, LEASED_STATES
    <2>3. [state |-> "failed", cancel |-> s.cancel] = Lifecycle!Apply(s, "fail")
      BY <1>0, <1>4 DEF Lifecycle!Apply, Lifecycle!Returned, JobStatus, LEASED_STATES
    <2> QED BY <1>0, <2>1, <2>2, <2>3, ByOneEvent
  <1>5. ASSUME s.state \in LEASED_STATES
        PROVE  Lifecycle!Moves(s, [state |-> IF s.cancel THEN "cancelled" ELSE "queued", cancel |-> s.cancel])
    <2>1. "release" \in JobEvent BY DEF JobEvent
    <2>2. Lifecycle!Legal(s, "release")
      BY <1>5 DEF Lifecycle!Legal, Lifecycle!ACTIVE, Lifecycle!LEASED_STATES, ACTIVE, LEASED_STATES
    <2>3. [state |-> IF s.cancel THEN "cancelled" ELSE "queued", cancel |-> s.cancel] = Lifecycle!Apply(s, "release")
      BY <1>0, <1>5 DEF Lifecycle!Apply, Lifecycle!Returned, JobStatus, LEASED_STATES
    <2> QED BY <1>0, <2>1, <2>2, <2>3, ByOneEvent
  <1>6. ASSUME s.state \in ACTIVE
        PROVE  Lifecycle!Moves(s, [state |-> "cancelled", cancel |-> TRUE])
    <2>1. "cancel" \in JobEvent BY DEF JobEvent
    <2>2. Lifecycle!Legal(s, "cancel")
      BY <1>6 DEF Lifecycle!Legal, Lifecycle!ACTIVE, Lifecycle!LEASED_STATES, ACTIVE, LEASED_STATES
    <2>3. [state |-> "cancelled", cancel |-> TRUE] = Lifecycle!Apply(s, "cancel")
      BY <1>0, <1>6 DEF Lifecycle!Apply, Lifecycle!Returned, JobStatus, LEASED_STATES
    <2> QED BY <1>0, <2>1, <2>2, <2>3, ByOneEvent
  <1>7. ASSUME s.state \in LEASED_STATES
        PROVE  Lifecycle!Moves(s, [state |-> s.state, cancel |-> TRUE])
    <2>1. "request_cancel" \in JobEvent BY DEF JobEvent
    <2>2. Lifecycle!Legal(s, "request_cancel")
      BY <1>7 DEF Lifecycle!Legal, Lifecycle!ACTIVE, Lifecycle!LEASED_STATES, ACTIVE, LEASED_STATES
    <2>3. [state |-> s.state, cancel |-> TRUE] = Lifecycle!Apply(s, "request_cancel")
      BY <1>0, <1>7 DEF Lifecycle!Apply, Lifecycle!Returned, JobStatus, LEASED_STATES
    <2> QED BY <1>0, <2>1, <2>2, <2>3, ByOneEvent
  <1>8. ASSUME s.state # "deleted"
        PROVE  Lifecycle!Moves(s, [state |-> "deleted", cancel |-> s.cancel])
    <2>1. "delete" \in JobEvent BY DEF JobEvent
    <2>2. Lifecycle!Legal(s, "delete")
      BY <1>8 DEF Lifecycle!Legal, Lifecycle!ACTIVE, Lifecycle!LEASED_STATES, ACTIVE, LEASED_STATES
    <2>3. [state |-> "deleted", cancel |-> s.cancel] = Lifecycle!Apply(s, "delete")
      BY <1>0, <1>8 DEF Lifecycle!Apply, Lifecycle!Returned, JobStatus, LEASED_STATES
    <2> QED BY <1>0, <2>1, <2>2, <2>3, ByOneEvent
  <1>9. ASSUME s.state \in LEASED_STATES, ~s.cancel
        PROVE  Lifecycle!Moves(s, [state |-> "leased", cancel |-> s.cancel])
    <2>1. Lifecycle!Legal(s, "expire")
      BY <1>9 DEF Lifecycle!Legal, Lifecycle!LEASED_STATES, LEASED_STATES
    <2>2. Lifecycle!Apply(s, "expire") = [s EXCEPT !.state = "queued"]
      BY <1>9 DEF Lifecycle!Apply, Lifecycle!Returned
    <2>3. Lifecycle!Apply([s EXCEPT !.state = "queued"], "claim")
            = [state |-> "leased", cancel |-> s.cancel]
      BY <1>0 DEF Lifecycle!Apply, JobStatus
    <2> QED BY <1>0, <1>9, <2>1, <2>2, <2>3
            DEF Lifecycle!Moves, Lifecycle!ByEvent, Lifecycle!JobState, JobState
  <1> QED BY <1>1, <1>2, <1>3, <1>4, <1>5, <1>6, <1>7, <1>8, <1>9

-----------------------------------------------------------------------------
(* Every transaction moves every row by the state machine *)

LEMMA Status ==
  ASSUME NEW r \in JobRow, r.state \in JobState
  PROVE  /\ St(r) \in JobStatus /\ St(r).state = r.state /\ St(r).cancel = r.cancel
  BY DEF St, JobStatus, JobRow

LEMMA SameMove ==
  ASSUME NEW r, NEW q, q.state = r.state, q.cancel = r.cancel
  PROVE  Move(r, q)
  BY DEF Move, St, Lifecycle!Moves

LEMMA OneRowMove ==
  ASSUME IInv, NEW j \in Jobs, NEW r, job' = [job EXCEPT ![j] = r], Move(job[j], r)
  PROVE  AllMove
  <1>1. \A i \in Jobs : job'[i] = IF i = j THEN r ELSE job[i] BY DEF IInv, TypeOK
  <1> QED BY <1>1, SameMove DEF AllMove

(* A lease that is given back, a finished one, and a cancelled, a deleted  *)
(* and a leased row.                                                       *)
LEMMA ReturnedMove ==
  ASSUME NEW r \in JobRow, NEW q, r.state \in LEASED_STATES, q.cancel = r.cancel,
         q.state = IF r.cancel THEN "cancelled" ELSE "queued"
  PROVE  Move(r, q)
  <1>1. r.state \in JobState BY DEF LEASED_STATES, JobState
  <1>2. St(q) = [state |-> IF St(r).cancel THEN "cancelled" ELSE "queued", cancel |-> St(r).cancel]
    BY DEF St
  <1>3. St(r) \in JobStatus /\ St(r).state \in LEASED_STATES BY <1>1, Status
  <1>4. Lifecycle!Moves(St(r), [state |-> IF St(r).cancel THEN "cancelled" ELSE "queued",
                               cancel |-> St(r).cancel])
    BY <1>3, Events
  <1> QED BY <1>2, <1>4 DEF Move

LEMMA FinishedMove ==
  ASSUME NEW r \in JobRow, NEW q, q.cancel = r.cancel,
         \/ r.state \in LEASED_STATES /\ q.state = "failed"
         \/ r.state = "running" /\ ~r.cancel /\ q.state = "published"
  PROVE  Move(r, q)
  <1>1. r.state \in JobState BY DEF LEASED_STATES, JobState
  <1>2. St(q) = [state |-> q.state, cancel |-> St(r).cancel] BY DEF St
  <1> QED BY <1>1, <1>2, Status, Events DEF Move

LEMMA CancelledMove ==
  ASSUME NEW r \in JobRow, NEW q, q.cancel = TRUE,
         \/ r.state \in ACTIVE /\ q.state = "cancelled"
         \/ r.state \in LEASED_STATES /\ q.state = r.state
  PROVE  Move(r, q)
  <1>1. r.state \in JobState BY DEF ACTIVE, LEASED_STATES, JobState
  <1>2. St(q) = [state |-> q.state, cancel |-> TRUE] BY DEF St
  <1>3. St(r) \in JobStatus /\ St(r).state = r.state BY <1>1, Status
  <1>4. CASE r.state \in ACTIVE /\ q.state = "cancelled"
    <2>1. Lifecycle!Moves(St(r), [state |-> "cancelled", cancel |-> TRUE])
      BY <1>3, <1>4, Events
    <2> QED BY <1>2, <1>4, <2>1 DEF Move
  <1>5. CASE r.state \in LEASED_STATES /\ q.state = r.state
    <2>1. Lifecycle!Moves(St(r), [state |-> St(r).state, cancel |-> TRUE])
      BY <1>3, <1>5, Events
    <2> QED BY <1>2, <1>3, <1>5, <2>1 DEF Move
  <1> QED BY <1>4, <1>5

LEMMA DeletedMove ==
  ASSUME NEW r \in JobRow, NEW q, r.state \in JobState, q.state = "deleted",
         q.cancel = r.cancel
  PROVE  Move(r, q)
  <1>1. CASE r.state = "deleted" BY <1>1, SameMove
  <1>2. CASE r.state # "deleted"
    <2>1. St(q) = [state |-> "deleted", cancel |-> St(r).cancel] BY DEF St
    <2> QED BY <1>2, <2>1, Status, Events DEF Move
  <1> QED BY <1>1, <1>2

LEMMA SweptMove ==
  ASSUME IInv, NEW lag \in 0..MaxLag, NEW j \in Jobs
  PROVE  /\ Move(job[j], Swept(lag)[j])
         /\ Swept(lag)[j].cancel = job[j].cancel
         /\ Swept(lag)[j].state # job[j].state => job[j].state \in LEASED_STATES
  <1>1. job[j] \in JobRow BY DEF IInv, TypeOK
  <1>2. CASE job[j].state \in LEASED_STATES /\ job[j].ttl + lag < 0
    <2>1. Swept(lag)[j] = ReturnedRow(job[j]) BY <1>2 DEF Swept
    <2> QED BY <1>1, <1>2, <2>1, ReturnedRowIs, ReturnedMove
  <1>3. CASE ~(job[j].state \in LEASED_STATES /\ job[j].ttl + lag < 0)
    BY <1>3, SameMove DEF Swept
  <1> QED BY <1>2, <1>3

LEMMA InsertedMove ==
  ASSUME IInv, NEW ks \in SUBSET Keys, NEW ids \in FreshIds(ks), NEW o,
         NEW j \in Jobs
  PROVE  Move(job[j], Inserted(job, ids, o)[j])
  <1>1. CASE \E k \in DOMAIN ids : ids[k] = j
    <2>1. job[j].state = "absent" BY <1>1 DEF FreshIds
    <2>2. PICK k : Inserted(job, ids, o)[j] = NewRow(k, o) BY <1>1 DEF Inserted
    <2>3. NewRow(k, o).state = "queued" /\ NewRow(k, o).cancel = FALSE
      BY DEF NewRow, Blank
    <2> QED BY <2>1, <2>2, <2>3 DEF Move, St, Lifecycle!Moves
  <1>2. CASE ~ \E k \in DOMAIN ids : ids[k] = j
    BY <1>2, SameMove DEF Inserted
  <1> QED BY <1>1, <1>2

(* The one step that needs two events: the claimed row may be one whose    *)
(* lease the same transaction has just expired.                            *)
LEMMA ClaimMove ==
  ASSUME IInv, NEW w \in Workers, NEW lag \in 0..MaxLag, Claim(w, lag)
  PROVE  AllMove
  <1> DEFINE rows == Swept(lag)
  <1>1. PICK j \in Jobs :
          /\ rows[j].state = "queued"
          /\ job' = [rows EXCEPT ![j] = LeasedRow(rows[j], w, lag)]
    BY DEF Claim
  <1>2. /\ rows \in [Jobs -> JobRow]
        /\ \A i \in Jobs : RowOK(i, rows[i], result[i], leases)
    BY SweptOK
  <1>3. \A i \in Jobs : Move(job[i], rows[i]) BY SweptMove
  <1>4. /\ rows[j].cancel = job[j].cancel
        /\ job[j].state = "queued" \/ job[j].state \in LEASED_STATES
    BY <1>1, SweptMove
  <1> HIDE DEF rows
  <1> DEFINE r == LeasedRow(rows[j], w, lag)
  <1>5. r.state = "leased" /\ r.cancel = rows[j].cancel BY <1>2, LeasedRowIs
  <1>6. ~rows[j].cancel BY <1>1, <1>2 DEF RowOK, CheckInvariants, JobState
  <1> HIDE DEF r
  <1>7. Move(job[j], r)
    <2>1. job[j] \in JobRow /\ job[j].state \in JobState
      BY <1>4 DEF IInv, TypeOK, LEASED_STATES, JobState
    <2>2. St(r) = [state |-> "leased", cancel |-> St(job[j]).cancel]
      BY <1>4, <1>5 DEF St
    <2> QED BY <1>4, <1>6, <2>1, <2>2, Status, Events DEF Move
  <1>8. \A i \in Jobs : job'[i] = IF i = j THEN r ELSE rows[i] BY <1>1, <1>2 DEF r
  <1> QED BY <1>3, <1>7, <1>8 DEF AllMove

LEMMA PublishMove ==
  ASSUME IInv, NEW l \in leases, NEW succ \in SUBSET Keys, Publish(l, succ)
  PROVE  AllMove
  <1> DEFINE r == job[l.job]
             q == Cleared([r EXCEPT !.state = "published"])
             o == r.owner
  <1>1. r \in JobRow /\ l.job \in Jobs BY LeaseRow
  <1>2. r.state = "running" /\ ~r.cancel BY DEF Publish, LockActive
  <1>3. PICK ids \in FreshIds({k \in succ : ~KeyTaken(k)}) :
          job' = [Inserted(job, ids, o) EXCEPT ![l.job] = q]
    BY DEF Publish
  <1>4. q.state = "published" /\ q.cancel = r.cancel BY <1>1, FinishedRowIs
  <1>5. {k \in succ : ~KeyTaken(k)} \in SUBSET Keys OBVIOUS
  <1> HIDE DEF q, o
  <1>6. \A j \in Jobs : Move(job[j], Inserted(job, ids, o)[j])
    BY <1>3, <1>5, InsertedMove
  <1>7. Move(r, q) BY <1>1, <1>2, <1>4, FinishedMove
  <1>8. \A j \in Jobs : job'[j] = IF j = l.job THEN q ELSE Inserted(job, ids, o)[j]
    BY <1>1, <1>3 DEF Inserted
  <1> QED BY <1>6, <1>7, <1>8 DEF AllMove

LEMMA LeaseMoves ==
  ASSUME IInv, NEW l \in leases, LeaseStep(l)
  PROVE  AllMove
  <1> DEFINE r == job[l.job]
  <1>1. r \in JobRow /\ l.job \in Jobs BY LeaseRow
  <1> HIDE DEF r
  <1>2. CASE Start(l)
    <2> DEFINE q == [r EXCEPT !.state = "running"]
    <2>1. r.state = "leased" /\ ~r.cancel BY <1>2 DEF Start, r
    <2>2. q.state = "running" /\ q.cancel = r.cancel BY <1>1 DEF JobRow
    <2>3. St(q) = [state |-> "running", cancel |-> St(r).cancel] BY <2>2 DEF St
    <2>4. r.state \in JobState BY <2>1 DEF JobState
    <2>5. Move(r, q) BY <1>1, <2>1, <2>3, <2>4, Status, Events DEF Move
    <2> QED BY <1>1, <1>2, <2>5, OneRowMove DEF Start, Update, r
  <1>3. ASSUME NEW lag \in 0..MaxLag, Heartbeat(l, lag) PROVE AllMove
    <2> DEFINE q == [r EXCEPT !.ttl = LeaseTime - lag]
    <2>1. Move(r, q) BY <1>1, SameMove DEF JobRow
    <2> QED BY <1>1, <1>3, <2>1, OneRowMove DEF Heartbeat, Update, r
  <1>4. CASE SaveStageData(l)
    <2> DEFINE q == [r EXCEPT !.data = l.token]
    <2>1. Move(r, q) BY <1>1, SameMove DEF JobRow
    <2> QED BY <1>1, <1>4, <2>1, OneRowMove DEF SaveStageData, Update, r
  <1>5. CASE Fail(l)
    <2> DEFINE q == Cleared([r EXCEPT !.state = "failed"])
    <2>1. q.state = "failed" /\ q.cancel = r.cancel BY <1>1, FinishedRowIs
    <2>2. r.state \in LEASED_STATES BY <1>5 DEF Fail, Held, r
    <2>3. job' = [job EXCEPT ![l.job] = q] BY <1>5 DEF Fail, Update, r
    <2> HIDE DEF q
    <2>4. Move(r, q) BY <1>1, <2>1, <2>2, FinishedMove
    <2> QED BY <1>1, <2>3, <2>4, OneRowMove DEF r
  <1>6. ASSUME NEW c \in Classes, NEW delay \in 0..MaxDelay, Retry(l, c, delay)
        PROVE  AllMove
    <2> DEFINE p == ReturnedRow(r)
               q == [p EXCEPT !.wait = delay, !.counts[c] = @ + 1]
    <2>1. /\ p \in JobRow /\ p.cancel = r.cancel
          /\ p.state = IF r.cancel THEN "cancelled" ELSE "queued"
      BY <1>1, ReturnedRowIs
    <2>2. r.state \in LEASED_STATES BY <1>6 DEF Retry, Held, r
    <2>3. job' = [job EXCEPT ![l.job] = q] BY <1>6 DEF Retry, Update, r
    <2> HIDE DEF p
    <2>4. q.state = p.state /\ q.cancel = p.cancel BY <2>1 DEF JobRow
    <2> HIDE DEF q
    <2>5. Move(r, q) BY <1>1, <2>1, <2>2, <2>4, ReturnedMove
    <2> QED BY <1>1, <2>3, <2>5, OneRowMove DEF r
  <1>7. CASE RecordRequestId(l)
    <2> DEFINE q == [r EXCEPT !.reqid = TRUE]
    <2>1. Move(r, q) BY <1>1, SameMove DEF JobRow
    <2> QED BY <1>1, <1>7, <2>1, OneRowMove DEF RecordRequestId, Update, r
  <1>8. CASE Release(l)
    <2>1. r.state \in LEASED_STATES BY <1>8 DEF Release, Held, r
    <2>2. Move(r, ReturnedRow(r)) BY <1>1, <2>1, ReturnedRowIs, ReturnedMove
    <2> QED BY <1>1, <1>8, <2>2, OneRowMove DEF Release, Update, r
  <1>9. CASE Cancel(l)
    <2>1. r.state \in ACTIVE BY <1>9 DEF Cancel, Held, ACTIVE, r
    <2>2. Move(r, CancelledRow(r)) BY <1>1, <2>1, CancelledRowIs, CancelledMove
    <2> QED BY <1>1, <1>9, <2>2, OneRowMove DEF Cancel, Update, r
  <1> QED BY <1>2, <1>3, <1>4, <1>5, <1>6, <1>7, <1>8, <1>9, PublishMove DEF LeaseStep

LEMMA OwnerMoves ==
  ASSUME IInv, NEW j \in Jobs, RequestCancel(j) \/ Delete(j) \/ Purge(j)
  PROVE  AllMove
  <1> DEFINE r == job[j]
  <1>1. r \in JobRow BY DEF IInv, TypeOK
  <1> HIDE DEF r
  <1>2. CASE RequestCancel(j)
    <2>1. PICK q : /\ job' = [job EXCEPT ![j] = q]
                   /\ \/ r.state = "queued" /\ q = CancelledRow(r)
                      \/ r.state \in LEASED_STATES /\ q = [r EXCEPT !.cancel = TRUE]
      BY <1>2 DEF RequestCancel, Update, r
    <2>2. /\ q.cancel = TRUE
          /\ \/ r.state \in ACTIVE /\ q.state = "cancelled"
             \/ r.state \in LEASED_STATES /\ q.state = r.state
      <3>1. CASE r.state = "queued" /\ q = CancelledRow(r)
        BY <1>1, <3>1, CancelledRowIs DEF ACTIVE
      <3>2. CASE r.state \in LEASED_STATES /\ q = [r EXCEPT !.cancel = TRUE]
        BY <1>1, <3>2 DEF JobRow
      <3> QED BY <2>1, <3>1, <3>2
    <2>3. Move(r, q) BY <1>1, <2>2, CancelledMove
    <2> QED BY <2>1, <2>3, OneRowMove DEF r
  <1>3. CASE Delete(j)
    <2>1. r.state \in JobState /\ r.state # "deleted" BY <1>3 DEF Delete, InTable, r
    <2>2. Move(r, DeletedRow(r)) BY <1>1, <2>1, DeletedRowIs, DeletedMove
    <2> QED BY <1>3, <2>2, OneRowMove DEF Delete, Update, r
  <1>4. CASE Purge(j)
    <2> DEFINE q == [Blank EXCEPT !.state = "gone", !.key = job[j].key]
    <2>1. q.state = "gone" BY DEF Blank
    <2>2. job' = [job EXCEPT ![j] = q] BY <1>4 DEF Purge, Update
    <2>3. r.state \in {"deleted", "published", "failed"} BY <1>4 DEF Purge, r
    <2> HIDE DEF q
    <2>4. Move(r, q) BY <2>1, <2>3 DEF Move, St, Lifecycle!Moves
    <2> QED BY <2>2, <2>4, OneRowMove DEF r
  <1> QED BY <1>2, <1>3, <1>4

LEMMA ExpireWorkspaceMove ==
  ASSUME IInv, NEW o \in Owners, ExpireWorkspace(o)
  PROVE  AllMove
  <1> SUFFICES ASSUME NEW j \in Jobs PROVE Move(job[j], job'[j]) BY DEF AllMove
  <1>1. job[j] \in JobRow BY DEF IInv, TypeOK
  <1>2. CASE InTable(j) /\ job[j].owner = o
    <2> DEFINE p == DeletedRow(job[j])
    <2>1. p \in JobRow /\ p.state = "deleted" /\ p.cancel = job[j].cancel
      <3>1. CASE job[j].state = "deleted" BY <1>1, <3>1 DEF DeletedRow
      <3>2. CASE job[j].state # "deleted" BY <1>1, <3>2, DeletedRowIs
      <3> QED BY <3>1, <3>2
    <2>2. job'[j] = [p EXCEPT !.owner = NoOwner, !.key = NoKey, !.reqid = FALSE]
      BY <1>2 DEF ExpireWorkspace, DetachedRow
    <2> HIDE DEF p
    <2>3. job'[j].state = "deleted" /\ job'[j].cancel = job[j].cancel
      BY <2>1, <2>2 DEF JobRow
    <2> QED BY <1>1, <1>2, <2>3, DeletedMove DEF InTable
  <1>3. CASE ~(InTable(j) /\ job[j].owner = o)
    BY <1>3, SameMove DEF ExpireWorkspace
  <1> QED BY <1>2, <1>3

LEMMA TickMove ==
  ASSUME IInv, Tick
  PROVE  AllMove
  <1> SUFFICES ASSUME NEW j \in Jobs PROVE Move(job[j], job'[j]) BY DEF AllMove
  <1>1. job[j] \in JobRow BY DEF IInv, TypeOK
  <1>2. job'[j].state = job[j].state /\ job'[j].cancel = job[j].cancel
    BY <1>1 DEF Tick, JobRow
  <1> QED BY <1>2, SameMove

LEMMA NextMove == IInv /\ [Next]_vars => AllMove
  <1> SUFFICES ASSUME IInv, [Next]_vars PROVE AllMove OBVIOUS
  <1>1. CASE UNCHANGED vars BY <1>1, SameMove DEF vars, AllMove
  <1>2. CASE Next
    <2>1. ASSUME NEW k \in Keys, NEW o \in Owners \cup {NoOwner}, Enqueue(k, o)
          PROVE  AllMove
      <3>1. PICK ids \in FreshIds({k}) : job' = Inserted(job, ids, o)
        BY <2>1 DEF Enqueue
      <3>2. {k} \in SUBSET Keys OBVIOUS
      <3> QED BY <3>1, <3>2, InsertedMove DEF AllMove
    <2>2. ASSUME NEW w \in Workers, NEW lag \in 0..MaxLag, Claim(w, lag)
          PROVE  AllMove
      BY <2>2, ClaimMove
    <2>3. ASSUME NEW lag \in 0..MaxLag, ClaimNothing(lag) PROVE AllMove
      BY <2>3, SweptMove DEF ClaimNothing, AllMove
    <2>4. ASSUME NEW l \in leases, LeaseStep(l) PROVE AllMove
      BY <2>4, LeaseMoves
    <2>5. ASSUME NEW j \in Jobs, RequestCancel(j) \/ Delete(j) \/ Purge(j)
          PROVE  AllMove
      BY <2>5, OwnerMoves
    <2>6. ASSUME NEW o \in Owners, ExpireWorkspace(o) PROVE AllMove
      BY <2>6, ExpireWorkspaceMove
    <2>7. CASE Tick BY <2>7, TickMove
    <2> QED BY <1>2, <2>1, <2>2, <2>3, <2>4, <2>5, <2>6, <2>7 DEF Next
  <1> QED BY <1>1, <1>2

-----------------------------------------------------------------------------
(* The theorem *)

LEMMA InitMaps == Init => Lifecycle!LifeInit
  BY DEF Init, Blank, Lifecycle!LifeInit

LEMMA StepMaps == IInv /\ IInv' /\ [Next]_vars => Lifecycle!LifeNext
  <1> SUFFICES ASSUME IInv, IInv', [Next]_vars PROVE Lifecycle!LifeNext OBVIOUS
  <1> DEFINE t == [j \in Jobs |-> [state |-> job'[j].state, cancel |-> job'[j].cancel]]
  <1>1. \A j \in Jobs : Move(job[j], job'[j]) BY NextMove DEF AllMove
  <1>2. job' \in [Jobs -> JobRow] BY DEF IInv, TypeOK
  <1>3. t \in [Jobs -> Lifecycle!Row]
    BY <1>2 DEF JobRow, Lifecycle!Row, Lifecycle!JobState, JobState
  <1> QED BY <1>1, <1>3 DEF Lifecycle!LifeNext, Move, St

(* Every behaviour of the queue is, row by row, a behaviour of the pure    *)
(* state machine: no order of claims, expiries, late leases, cancellations *)
(* and deletions makes a move that states.py does not have.                *)
THEOREM Implements == Spec => Refinement
  <1>1. Init => Lifecycle!LifeInit BY InitMaps
  <1>2. IInv /\ IInv' /\ [Next]_vars
          => [Lifecycle!LifeNext]_[j \in Jobs |-> [state |-> job[j].state, cancel |-> job[j].cancel]]
    BY StepMaps
  <1> QED BY <1>1, <1>2, Invariance, PTL DEF Spec, Refinement, Lifecycle!LifeSpec

-----------------------------------------------------------------------------
(***************************************************************************)
(* Proofs that deletion and the expiry of a workspace erase what they      *)
(* should, and that a publication commits with its successors, whatever    *)
(* the workers that still hold a lease do afterwards.                      *)
(***************************************************************************)
(* What holds of one row r while the workspaces P exist.  A row in the     *)
(* table has its key and its content until it is deleted: without this the *)
(* deletion of a row that had lost its key would keep a provider id, and a *)
(* job of an expired owner could still enqueue a successor with content.   *)
Tidy(r, P) ==
  /\ r.state \in JobState \ {"deleted"} => r.key \in Keys /\ r.payload
  /\ r.state \in {"deleted", "gone"} =>
       ~r.payload /\ r.data = 0 /\ (r.key = NoKey => ~r.reqid)
  /\ r.state \in {"absent", "gone"} => r.owner = NoOwner /\ ~r.payload
  /\ r.state = "absent" => r.key = NoKey
  /\ r.owner \in P \cup {NoOwner}
  /\ r.payload /\ r.owner = NoOwner => r.key \in RetentionKeys

TidyRows == \A j \in Jobs : Tidy(job[j], principals)

(* The published job j has its successors. *)
HasSuccessors(j) ==
  /\ result[j].succ \in Fanouts[job[j].key]
  /\ \A k \in result[j].succ :
       \E i \in Jobs : /\ job[i].key = k
                       /\ job[i].state = "gone" \/ job[i].owner = job[j].owner

EInv == /\ IInv /\ TidyRows
        /\ \A j \in Jobs : job[j].state = "published" => HasSuccessors(j)

-----------------------------------------------------------------------------
(* Row updates *)

(* An update within the active and finished states that keeps them.        *)
LEMMA KeptTidy ==
  ASSUME NEW r, NEW q, NEW P, Tidy(r, P),
         r.state \in JobState \ {"deleted"}, q.state \in JobState \ {"deleted"},
         q.key = r.key, q.owner = r.owner, q.payload = r.payload
  PROVE  Tidy(q, P)
  BY DEF Tidy, JobState

LEMMA ReturnedKeeps ==
  ASSUME NEW r \in JobRow
  PROVE  LET q == ReturnedRow(r) IN
         q.key = r.key /\ q.owner = r.owner /\ q.payload = r.payload
  <1> DEFINE p == [r EXCEPT !.state = Returned(r),
                            !.gen = @ + (IF r.cancel THEN 1 ELSE 0)]
  <1>1. ReturnedRow(r) = [p EXCEPT !.lessee = NoWorker, !.ttl = 0]
    BY DEF ReturnedRow, Cleared
  <1> QED BY <1>1 DEF JobRow

LEMMA CancelledKeeps ==
  ASSUME NEW r \in JobRow
  PROVE  LET q == CancelledRow(r) IN
         q.key = r.key /\ q.owner = r.owner /\ q.payload = r.payload
  BY DEF CancelledRow, Cleared, JobRow

LEMMA FinishedKeeps ==
  ASSUME NEW r \in JobRow, NEW s
  PROVE  LET q == Cleared([r EXCEPT !.state = s]) IN
         q.key = r.key /\ q.owner = r.owner /\ q.payload = r.payload
  BY DEF Cleared, JobRow

LEMMA LeasedKeeps ==
  ASSUME NEW r \in JobRow, NEW w, NEW lag
  PROVE  LET q == LeasedRow(r, w, lag) IN
         q.key = r.key /\ q.owner = r.owner /\ q.payload = r.payload
  BY DEF LeasedRow, JobRow

LEMMA DeletedEmpties ==
  ASSUME NEW r \in JobRow, r.state # "deleted"
  PROVE  LET q == DeletedRow(r) IN
         /\ q.key = r.key /\ q.owner = r.owner /\ q.payload = FALSE /\ q.data = 0
         /\ q.reqid = r.reqid
  BY DEF DeletedRow, Cleared, JobRow

-----------------------------------------------------------------------------
(* Successors stay where they are *)

(* The row r, now q, is still the successor it was. *)
RowKeeps(r, q) ==
  /\ q.key = r.key
  /\ q.state = "gone" \/ (r.state # "gone" /\ q.owner = r.owner)

LEMMA NoKeyRows ==
  ASSUME EInv, NEW i \in Jobs, job[i].key \in Keys
  PROVE  job[i].state # "absent"
  BY KeyAssumption DEF EInv, TidyRows, Tidy

LEMMA SuccessorsStay ==
  ASSUME EInv, NEW j \in Jobs, job[j].state = "published",
         job'[j].state = "published", result'[j] = result[j],
         \A i \in Jobs : job[i].state = "absent" \/ RowKeeps(job[i], job'[i])
  PROVE  HasSuccessors(j)'
  <1>1. RowKeeps(job[j], job'[j]) OBVIOUS
  <1>2. job'[j].key = job[j].key /\ job'[j].owner = job[j].owner BY <1>1 DEF RowKeeps
  <1>3. HasSuccessors(j) BY DEF EInv
  <1>4. result[j].succ \subseteq Keys
    BY DEF EInv, IInv, TypeOK, JobResult
  <1>5. ASSUME NEW k \in result[j].succ
        PROVE  \E i \in Jobs : /\ job'[i].key = k
                               /\ job'[i].state = "gone" \/ job'[i].owner = job'[j].owner
    <2>1. PICK i \in Jobs : /\ job[i].key = k
                            /\ job[i].state = "gone" \/ job[i].owner = job[j].owner
      BY <1>3 DEF HasSuccessors
    <2>2. RowKeeps(job[i], job'[i]) BY <1>4, <2>1, NoKeyRows
    <2> QED BY <1>2, <2>1, <2>2 DEF RowKeeps
  <1> QED BY <1>2, <1>3, <1>5 DEF HasSuccessors

(* A transaction that publishes nothing. *)
LEMMA NoPublication ==
  ASSUME EInv, IInv', TidyRows',
         \A i \in Jobs : job[i].state = "absent" \/ RowKeeps(job[i], job'[i]),
         \A j \in Jobs : job'[j].state = "published" =>
                           job[j].state = "published" /\ result'[j] = result[j]
  PROVE  EInv'
  <1>1. \A j \in Jobs : job'[j].state = "published" => HasSuccessors(j)'
    BY SuccessorsStay
  <1> QED BY <1>1 DEF EInv

LEMMA OneRowErasure ==
  ASSUME EInv, IInv', NEW j \in Jobs, NEW r, job' = [job EXCEPT ![j] = r],
         UNCHANGED principals, Tidy(r, principals), RowKeeps(job[j], r),
         r.state # "published", \A i \in Jobs \ {j} : result'[i] = result[i]
  PROVE  EInv'
  <1>1. \A i \in Jobs : job'[i] = IF i = j THEN r ELSE job[i]
    BY DEF EInv, IInv, TypeOK
  <1>2. TidyRows' BY <1>1 DEF EInv, TidyRows
  <1>3. \A i \in Jobs : RowKeeps(job[i], job'[i])
    <2>1. ASSUME NEW i \in Jobs, i # j PROVE RowKeeps(job[i], job'[i])
      BY <1>1, <2>1 DEF RowKeeps
    <2>2. RowKeeps(job[j], job'[j]) BY <1>1
    <2> QED BY <2>1, <2>2
  <1>4. \A i \in Jobs : job'[i].state = "published" =>
                          job[i].state = "published" /\ result'[i] = result[i]
    BY <1>1
  <1> QED BY <1>2, <1>3, <1>4, NoPublication

(* One row of the table changes its state and keeps the rest. *)
LEMMA KeptErasure ==
  ASSUME EInv, IInv', NEW j \in Jobs, NEW q, job' = [job EXCEPT ![j] = q],
         UNCHANGED <<result, principals>>,
         job[j].state \in JobState \ {"deleted"},
         q.state \in JobState \ {"deleted", "published"},
         q.key = job[j].key, q.owner = job[j].owner, q.payload = job[j].payload
  PROVE  EInv'
  <1>1. Tidy(job[j], principals) BY DEF EInv, TidyRows
  <1>2. Tidy(q, principals) BY <1>1, KeptTidy
  <1>3. RowKeeps(job[j], q) BY DEF RowKeeps, JobState
  <1> QED BY <1>2, <1>3, OneRowErasure

-----------------------------------------------------------------------------
(* Insertion *)

LEMMA InsertedTidy ==
  ASSUME EInv, NEW ks \in SUBSET Keys, NEW ids \in FreshIds(ks),
         NEW o \in principals \cup {NoOwner},
         \A k \in ks : o = NoOwner => k \in RetentionKeys,
         NEW j \in Jobs
  PROVE  /\ Tidy(Inserted(job, ids, o)[j], principals)
         /\ job[j].state # "absent" => Inserted(job, ids, o)[j] = job[j]
         /\ job[j].state = "absent" => Inserted(job, ids, o)[j].state # "published"
  <1>0. Tidy(job[j], principals) BY DEF EInv, TidyRows
  <1>1. DOMAIN ids = ks /\ \A k \in ks : job[ids[k]].state = "absent" BY DEF FreshIds
  <1>2. CASE \E k \in DOMAIN ids : ids[k] = j
    <2> DEFINE key == CHOOSE k \in DOMAIN ids : ids[k] = j
    <2>1. key \in ks /\ ids[key] = j BY <1>1, <1>2
    <2>2. Inserted(job, ids, o)[j] = NewRow(key, o) BY <1>2 DEF Inserted
    <2> HIDE DEF key
    <2>3. /\ NewRow(key, o).state = "queued" /\ NewRow(key, o).key = key
          /\ NewRow(key, o).owner = o /\ NewRow(key, o).payload = TRUE
      BY DEF NewRow, Blank
    <2>4. key \in Keys /\ (o = NoOwner => key \in RetentionKeys) BY <2>1
    <2>5. Tidy(NewRow(key, o), principals) BY <2>3, <2>4 DEF Tidy
    <2> QED BY <1>1, <2>1, <2>2, <2>3, <2>5
  <1>3. CASE ~ \E k \in DOMAIN ids : ids[k] = j
    BY <1>0, <1>3 DEF Inserted
  <1> QED BY <1>2, <1>3

LEMMA EnqueueErasure ==
  ASSUME EInv, IInv', NEW k \in Keys, NEW o \in Owners \cup {NoOwner}, Enqueue(k, o)
  PROVE  EInv'
  <1>1. PICK ids \in FreshIds({k}) : job' = Inserted(job, ids, o) BY DEF Enqueue
  <1>2. UNCHANGED <<result, principals>> BY DEF Enqueue
  <1>3. {k} \in SUBSET Keys OBVIOUS
  <1>4. o \in principals \cup {NoOwner} BY DEF Enqueue
  <1>5. principals \subseteq Owners BY DEF EInv, IInv, TypeOK
  <1>6. \A x \in {k} : o = NoOwner => x \in RetentionKeys
    BY <1>5, OwnerAssumption DEF Enqueue
  <1>7. \A j \in Jobs :
          /\ Tidy(job'[j], principals)
          /\ job[j].state # "absent" => job'[j] = job[j]
          /\ job[j].state = "absent" => job'[j].state # "published"
    BY <1>1, <1>3, <1>4, <1>6, InsertedTidy
  <1>8. TidyRows' BY <1>2, <1>7 DEF TidyRows
  <1>9. \A i \in Jobs : job[i].state = "absent" \/ RowKeeps(job[i], job'[i])
    BY <1>7 DEF RowKeeps
  <1> QED BY <1>2, <1>7, <1>8, <1>9, NoPublication

(* The publication itself: a successor key that has a row has one of the   *)
(* same owner, since another owner's would have rolled everything back,    *)
(* and the other keys get their rows in the same transaction.              *)
LEMMA PublishErasure ==
  ASSUME EInv, IInv', NEW l \in leases, NEW succ \in SUBSET Keys, Publish(l, succ)
  PROVE  EInv'
  <1> DEFINE r == job[l.job]
             q == Cleared([r EXCEPT !.state = "published"])
             o == r.owner
             ks == {k \in succ : ~KeyTaken(k)}
  <1>1. r \in JobRow /\ l.job \in Jobs /\ Tidy(r, principals)
    BY LeaseRow DEF EInv, TidyRows
  <1>2. r.state = "running" /\ succ \in Fanouts[r.key] /\ ~OwnerClash(l, succ)
    BY DEF Publish, LockActive
  <1>3. PICK ids \in FreshIds(ks) : job' = [Inserted(job, ids, o) EXCEPT ![l.job] = q]
    BY DEF Publish
  <1>4. /\ result' = [result EXCEPT ![l.job] = [token |-> l.token, gen |-> l.gen, succ |-> succ]]
        /\ UNCHANGED principals
    BY DEF Publish
  <1>5. /\ q.state = "published" /\ q.key = r.key /\ q.owner = o /\ q.payload = r.payload
    BY <1>1, FinishedRowIs, FinishedKeeps
  <1>6. o \in principals \cup {NoOwner} /\ r.payload /\ r.key \in Keys
    BY <1>1, <1>2 DEF Tidy, JobState
  <1>7. \A k \in ks : o = NoOwner => k \in RetentionKeys
    <2>1. CASE o = NoOwner
      <3>1. r.key \in RetentionKeys BY <1>1, <1>6, <2>1 DEF Tidy
      <3>2. succ = {} BY <1>2, <3>1, KeyAssumption
      <3> QED BY <3>2
    <2> QED BY <2>1
  <1>8. ks \in SUBSET Keys OBVIOUS
  <1>9. Tidy(q, principals)
    BY <1>1, <1>2, <1>5, KeptTidy DEF JobState
  <1>10. \A k1, k2 \in ks : ids[k1] = ids[k2] => k1 = k2 BY DEF FreshIds
  <1>11. DOMAIN ids = ks /\ \A k \in ks : ids[k] \in Jobs /\ job[ids[k]].state = "absent"
    BY DEF FreshIds
  <1> HIDE DEF q, ks
  <1>12. \A j \in Jobs :
           /\ Tidy(Inserted(job, ids, o)[j], principals)
           /\ job[j].state # "absent" => Inserted(job, ids, o)[j] = job[j]
           /\ job[j].state = "absent" => Inserted(job, ids, o)[j].state # "published"
    BY <1>3, <1>6, <1>7, <1>8, InsertedTidy
  <1>13. \A j \in Jobs : job'[j] = IF j = l.job THEN q ELSE Inserted(job, ids, o)[j]
    BY <1>1, <1>3 DEF Inserted
  <1>14. TidyRows' BY <1>4, <1>9, <1>12, <1>13 DEF TidyRows
  <1>15. \A i \in Jobs : job[i].state = "absent" \/ RowKeeps(job[i], job'[i])
    <2>1. RowKeeps(r, q) BY <1>2, <1>5 DEF RowKeeps
    <2> QED BY <1>12, <1>13, <2>1 DEF RowKeeps
  <1>16. ASSUME NEW j \in Jobs, job'[j].state = "published" PROVE HasSuccessors(j)'
    <2>1. CASE j = l.job
      <3>1. job'[j] = q /\ result'[j].succ = succ
        BY <1>4, <1>13, <2>1 DEF EInv, IInv, TypeOK
      <3>2. ASSUME NEW k \in succ
            PROVE  \E i \in Jobs : job'[i].key = k /\ job'[i].owner = o
        <4>1. CASE KeyTaken(k)
          <5>1. PICK i \in Jobs : InTable(i) /\ job[i].key = k BY <4>1 DEF KeyTaken
          <5>2. job[i].owner = o BY <1>2, <5>1 DEF OwnerClash
          <5>3. job[i].state # "absent" BY <5>1 DEF InTable, JobState
          <5>4. job'[i].key = k /\ job'[i].owner = o
            BY <1>5, <1>12, <1>13, <5>1, <5>2, <5>3
          <5> QED BY <5>4
        <4>2. CASE ~KeyTaken(k)
          <5>1. k \in ks BY <4>2 DEF ks
          <5> DEFINE i == ids[k]
          <5>2. i \in Jobs /\ job[i].state = "absent" /\ i # l.job BY <1>2, <1>11, <5>1
          <5>3. (CHOOSE x \in DOMAIN ids : ids[x] = i) = k BY <1>10, <1>11, <5>1
          <5>4. Inserted(job, ids, o)[i] = NewRow(k, o)
            BY <1>11, <5>1, <5>2, <5>3 DEF Inserted
          <5>5. NewRow(k, o).key = k /\ NewRow(k, o).owner = o BY DEF NewRow, Blank
          <5> QED BY <1>13, <5>2, <5>4, <5>5
        <4> QED BY <4>1, <4>2
      <3> QED BY <1>2, <1>5, <2>1, <3>1, <3>2 DEF HasSuccessors
    <2>2. CASE j # l.job
      <3>1. job[j].state = "published" BY <1>12, <1>13, <1>16, <2>2
      <3>2. result'[j] = result[j] BY <1>4, <2>2 DEF EInv, IInv, TypeOK
      <3> QED BY <1>15, <1>16, <3>1, <3>2, SuccessorsStay
    <2> QED BY <2>1, <2>2
  <1> QED BY <1>14, <1>16 DEF EInv

-----------------------------------------------------------------------------
(* The other transactions *)

LEMMA SweptKeeps ==
  ASSUME EInv, NEW lag \in 0..MaxLag, NEW j \in Jobs
  PROVE  /\ Tidy(Swept(lag)[j], principals) /\ RowKeeps(job[j], Swept(lag)[j])
         /\ Swept(lag)[j].state = "published" => job[j].state = "published"
  <1>1. job[j] \in JobRow /\ Tidy(job[j], principals)
    BY DEF EInv, IInv, TypeOK, TidyRows
  <1>2. CASE job[j].state \in LEASED_STATES /\ job[j].ttl + lag < 0
    <2> DEFINE q == ReturnedRow(job[j])
    <2>1. Swept(lag)[j] = q BY <1>2 DEF Swept
    <2>2. /\ q.state = IF job[j].cancel THEN "cancelled" ELSE "queued"
          /\ q.key = job[j].key /\ q.owner = job[j].owner /\ q.payload = job[j].payload
      BY <1>1, ReturnedRowIs, ReturnedKeeps
    <2> HIDE DEF q
    <2>3. /\ job[j].state \in JobState \ {"deleted"}
          /\ q.state \in JobState \ {"deleted", "published"}
      BY <1>2, <2>2 DEF LEASED_STATES, JobState
    <2>4. Tidy(q, principals) BY <1>1, <2>2, <2>3, KeptTidy
    <2>5. RowKeeps(job[j], q) BY <2>2, <2>3 DEF RowKeeps, JobState
    <2> QED BY <2>1, <2>3, <2>4, <2>5
  <1>3. CASE ~(job[j].state \in LEASED_STATES /\ job[j].ttl + lag < 0)
    BY <1>1, <1>3 DEF Swept, RowKeeps
  <1> QED BY <1>2, <1>3

LEMMA ClaimNothingErasure ==
  ASSUME EInv, IInv', NEW lag \in 0..MaxLag, ClaimNothing(lag)
  PROVE  EInv'
  <1>1. job' = Swept(lag) /\ UNCHANGED <<result, principals>> BY DEF ClaimNothing
  <1>2. TidyRows' BY <1>1, SweptKeeps DEF TidyRows
  <1>3. \A j \in Jobs : job'[j].state = "published" => job[j].state = "published"
    BY <1>1, SweptKeeps
  <1>4. \A i \in Jobs : RowKeeps(job[i], job'[i]) BY <1>1, SweptKeeps
  <1> QED BY <1>1, <1>2, <1>3, <1>4, NoPublication

LEMMA ClaimErasure ==
  ASSUME EInv, IInv', NEW w \in Workers, NEW lag \in 0..MaxLag, Claim(w, lag)
  PROVE  EInv'
  <1> DEFINE rows == Swept(lag)
  <1>1. PICK j \in Jobs :
          /\ rows[j].state = "queued"
          /\ job' = [rows EXCEPT ![j] = LeasedRow(rows[j], w, lag)]
    BY DEF Claim
  <1>2. UNCHANGED <<result, principals>> BY DEF Claim
  <1>3. rows \in [Jobs -> JobRow] BY SweptOK DEF EInv
  <1>4. \A i \in Jobs : /\ Tidy(rows[i], principals) /\ RowKeeps(job[i], rows[i])
                        /\ rows[i].state = "published" => job[i].state = "published"
    BY SweptKeeps
  <1> HIDE DEF rows
  <1> DEFINE r == LeasedRow(rows[j], w, lag)
  <1>5. /\ r.state = "leased" /\ r.key = rows[j].key /\ r.owner = rows[j].owner
        /\ r.payload = rows[j].payload
    BY <1>3, LeasedRowIs, LeasedKeeps
  <1>6. \A i \in Jobs : job'[i] = IF i = j THEN r ELSE rows[i] BY <1>1, <1>3
  <1> HIDE DEF r
  <1>7. Tidy(r, principals) BY <1>1, <1>4, <1>5, KeptTidy DEF JobState
  <1>8. RowKeeps(job[j], r) BY <1>1, <1>4, <1>5 DEF RowKeeps
  <1>9. TidyRows' BY <1>2, <1>4, <1>6, <1>7 DEF TidyRows
  <1>10. \A i \in Jobs : RowKeeps(job[i], job'[i]) BY <1>4, <1>6, <1>8
  <1>11. \A i \in Jobs : job'[i].state = "published" => job[i].state = "published"
    BY <1>4, <1>5, <1>6
  <1> QED BY <1>2, <1>9, <1>10, <1>11, NoPublication

LEMMA LeaseErasure ==
  ASSUME EInv, IInv', NEW l \in leases, LeaseStep(l)
  PROVE  EInv'
  <1> DEFINE r == job[l.job]
  <1>1. r \in JobRow /\ l.job \in Jobs BY LeaseRow DEF EInv
  <1>a. ASSUME NEW q, q.state \in JobState \ {"deleted", "published"},
               r.state \in LEASED_STATES,
               q.key = r.key, q.owner = r.owner, q.payload = r.payload,
               Update(l.job, q), UNCHANGED <<result, principals>>
        PROVE  EInv'
    BY <1>1, <1>a, KeptErasure DEF Update, LEASED_STATES, JobState
  <1>2. CASE Start(l)
    <2> DEFINE q == [r EXCEPT !.state = "running"]
    <2>1. /\ q.state = "running" /\ q.key = r.key /\ q.owner = r.owner
          /\ q.payload = r.payload
      BY <1>1 DEF JobRow
    <2>2. Update(l.job, q) /\ UNCHANGED <<result, principals>> /\ r.state \in LEASED_STATES
      BY <1>2 DEF Start, LEASED_STATES
    <2> HIDE DEF q, r
    <2> QED BY <1>a, <2>1, <2>2 DEF JobState
  <1>3. ASSUME NEW lag \in 0..MaxLag, Heartbeat(l, lag) PROVE EInv'
    <2> DEFINE q == [r EXCEPT !.ttl = LeaseTime - lag]
    <2>1. /\ q.state = r.state /\ q.key = r.key /\ q.owner = r.owner
          /\ q.payload = r.payload
      BY <1>1 DEF JobRow
    <2>2. Update(l.job, q) /\ UNCHANGED <<result, principals>> /\ r.state \in LEASED_STATES
      BY <1>3 DEF Heartbeat, Held
    <2> HIDE DEF q, r
    <2> QED BY <1>a, <2>1, <2>2 DEF LEASED_STATES, JobState
  <1>4. CASE SaveStageData(l)
    <2> DEFINE q == [r EXCEPT !.data = l.token]
    <2>1. /\ q.state = r.state /\ q.key = r.key /\ q.owner = r.owner
          /\ q.payload = r.payload
      BY <1>1 DEF JobRow
    <2>2. Update(l.job, q) /\ UNCHANGED <<result, principals>> /\ r.state \in LEASED_STATES
      BY <1>4 DEF SaveStageData, LockActive, LEASED_STATES
    <2> HIDE DEF q, r
    <2> QED BY <1>a, <2>1, <2>2 DEF LEASED_STATES, JobState
  <1>5. CASE Fail(l)
    <2> DEFINE q == Cleared([r EXCEPT !.state = "failed"])
    <2>1. /\ q.state = "failed" /\ q.key = r.key /\ q.owner = r.owner
          /\ q.payload = r.payload
      BY <1>1, FinishedRowIs, FinishedKeeps
    <2>2. Update(l.job, q) /\ UNCHANGED <<result, principals>> /\ r.state \in LEASED_STATES
      BY <1>5 DEF Fail, Held
    <2> HIDE DEF q, r
    <2> QED BY <1>a, <2>1, <2>2 DEF JobState
  <1>6. ASSUME NEW c \in Classes, NEW delay \in 0..MaxDelay, Retry(l, c, delay)
        PROVE  EInv'
    <2> DEFINE p == ReturnedRow(r)
               q == [p EXCEPT !.wait = delay, !.counts[c] = @ + 1]
    <2>1. /\ p \in JobRow /\ p.state = IF r.cancel THEN "cancelled" ELSE "queued"
          /\ p.key = r.key /\ p.owner = r.owner /\ p.payload = r.payload
      BY <1>1, ReturnedRowIs, ReturnedKeeps
    <2>2. Update(l.job, q) /\ UNCHANGED <<result, principals>> /\ r.state \in LEASED_STATES
      BY <1>6 DEF Retry, Held
    <2> HIDE DEF p, r
    <2>3. /\ q.state = p.state /\ q.key = p.key /\ q.owner = p.owner
          /\ q.payload = p.payload
      BY <2>1 DEF JobRow
    <2> HIDE DEF q
    <2> QED BY <1>a, <2>1, <2>2, <2>3 DEF JobState
  <1>7. CASE RecordRequestId(l)
    <2> DEFINE q == [r EXCEPT !.reqid = TRUE]
    <2>1. /\ q.state = r.state /\ q.key = r.key /\ q.owner = r.owner
          /\ q.payload = r.payload
      BY <1>1 DEF JobRow
    <2>2. Update(l.job, q) /\ UNCHANGED <<result, principals>> /\ r.state \in LEASED_STATES
      BY <1>7 DEF RecordRequestId, Held
    <2> HIDE DEF q, r
    <2> QED BY <1>a, <2>1, <2>2 DEF LEASED_STATES, JobState
  <1>8. CASE Release(l)
    <2> DEFINE q == ReturnedRow(r)
    <2>1. /\ q.state = IF r.cancel THEN "cancelled" ELSE "queued"
          /\ q.key = r.key /\ q.owner = r.owner /\ q.payload = r.payload
      BY <1>1, ReturnedRowIs, ReturnedKeeps
    <2>2. Update(l.job, q) /\ UNCHANGED <<result, principals>> /\ r.state \in LEASED_STATES
      BY <1>8 DEF Release, Held
    <2> HIDE DEF q, r
    <2> QED BY <1>a, <2>1, <2>2 DEF JobState
  <1>9. CASE Cancel(l)
    <2> DEFINE q == CancelledRow(r)
    <2>1. /\ q.state = "cancelled"
          /\ q.key = r.key /\ q.owner = r.owner /\ q.payload = r.payload
      BY <1>1, CancelledRowIs, CancelledKeeps
    <2>2. Update(l.job, q) /\ UNCHANGED <<result, principals>> /\ r.state \in LEASED_STATES
      BY <1>9 DEF Cancel, Held
    <2> HIDE DEF q, r
    <2> QED BY <1>a, <2>1, <2>2 DEF JobState
  <1> QED BY <1>2, <1>3, <1>4, <1>5, <1>6, <1>7, <1>8, <1>9, PublishErasure DEF LeaseStep

LEMMA RequestCancelErasure ==
  ASSUME EInv, IInv', NEW j \in Jobs, RequestCancel(j)
  PROVE  EInv'
  <1> DEFINE r == job[j]
  <1>1. r \in JobRow BY DEF EInv, IInv, TypeOK
  <1>2. UNCHANGED <<result, principals>> BY DEF RequestCancel
  <1>3. CASE r.state = "queued"
    <2> DEFINE q == CancelledRow(r)
    <2>1. /\ q.state = "cancelled"
          /\ q.key = r.key /\ q.owner = r.owner /\ q.payload = r.payload
      BY <1>1, CancelledRowIs, CancelledKeeps
    <2>2. job' = [job EXCEPT ![j] = q] BY <1>3 DEF RequestCancel, Update, LEASED_STATES
    <2> HIDE DEF q
    <2> QED BY <1>2, <1>3, <2>1, <2>2, KeptErasure DEF JobState
  <1>4. CASE r.state \in LEASED_STATES
    <2> DEFINE q == [r EXCEPT !.cancel = TRUE]
    <2>1. /\ q.state = r.state
          /\ q.key = r.key /\ q.owner = r.owner /\ q.payload = r.payload
      BY <1>1 DEF JobRow
    <2>2. job' = [job EXCEPT ![j] = q] BY <1>4 DEF RequestCancel, Update, LEASED_STATES
    <2> HIDE DEF q
    <2> QED BY <1>2, <1>4, <2>1, <2>2, KeptErasure DEF JobState, LEASED_STATES
  <1> QED BY <1>3, <1>4 DEF RequestCancel

LEMMA DeleteErasure ==
  ASSUME EInv, IInv', NEW j \in Jobs, Delete(j)
  PROVE  EInv'
  <1> DEFINE r == job[j]
             q == DeletedRow(r)
  <1>1. r \in JobRow /\ Tidy(r, principals) BY DEF EInv, IInv, TypeOK, TidyRows
  <1>2. r.state \in JobState \ {"deleted"} BY DEF Delete, InTable
  <1>3. /\ q.state = "deleted" /\ q.key = r.key /\ q.owner = r.owner
        /\ q.payload = FALSE /\ q.data = 0
    BY <1>1, <1>2, DeletedRowIs, DeletedEmpties
  <1>4. job' = [job EXCEPT ![j] = q] /\ UNCHANGED principals BY DEF Delete, Update
  <1>5. \A i \in Jobs \ {j} : result'[i] = result[i] BY DEF Delete, EInv, IInv, TypeOK
  <1> HIDE DEF q
  <1>6. q.key # NoKey BY <1>1, <1>2, <1>3, KeyAssumption DEF Tidy
  <1>7. Tidy(q, principals) BY <1>1, <1>3, <1>6 DEF Tidy, JobState
  <1>8. RowKeeps(r, q) BY <1>2, <1>3 DEF RowKeeps, JobState
  <1> QED BY <1>3, <1>4, <1>5, <1>7, <1>8, OneRowErasure

LEMMA PurgeErasure ==
  ASSUME EInv, IInv', NEW j \in Jobs, Purge(j)
  PROVE  EInv'
  <1> DEFINE q == [Blank EXCEPT !.state = "gone", !.key = job[j].key]
  <1>1. /\ q.state = "gone" /\ q.key = job[j].key /\ q.owner = NoOwner
        /\ q.payload = FALSE /\ q.data = 0 /\ q.reqid = FALSE
    BY DEF Blank
  <1>2. job' = [job EXCEPT ![j] = q] /\ UNCHANGED principals BY DEF Purge, Update
  <1>3. \A i \in Jobs \ {j} : result'[i] = result[i] BY DEF Purge, EInv, IInv, TypeOK
  <1> HIDE DEF q
  <1>4. Tidy(q, principals) BY <1>1 DEF Tidy, JobState
  <1>5. RowKeeps(job[j], q) BY <1>1 DEF RowKeeps
  <1> QED BY <1>1, <1>2, <1>3, <1>4, <1>5, OneRowErasure

(* The workspace goes with all its jobs: a published job that stays is     *)
(* another owner's, and so are its successors.                             *)
LEMMA ExpireWorkspaceErasure ==
  ASSUME EInv, IInv', NEW o \in Owners, ExpireWorkspace(o)
  PROVE  EInv'
  <1>1. principals' = principals \ {o} BY DEF ExpireWorkspace
  <1>2. ASSUME NEW j \in Jobs PROVE Tidy(job'[j], principals')
    <2>1. job[j] \in JobRow /\ Tidy(job[j], principals)
      BY DEF EInv, IInv, TypeOK, TidyRows
    <2>2. CASE InTable(j) /\ job[j].owner = o
      <3> DEFINE p == DeletedRow(job[j])
      <3>1. p \in JobRow /\ p.state = "deleted" /\ p.payload = FALSE /\ p.data = 0
        <4>1. CASE job[j].state = "deleted"
          BY <2>1, <4>1 DEF DeletedRow, Tidy, JobRow
        <4>2. CASE job[j].state # "deleted"
          BY <2>1, <4>2, DeletedRowIs, DeletedEmpties
        <4> QED BY <4>1, <4>2
      <3>2. job'[j] = [p EXCEPT !.owner = NoOwner, !.key = NoKey, !.reqid = FALSE]
        BY <2>2 DEF ExpireWorkspace, DetachedRow
      <3> HIDE DEF p
      <3>3. /\ job'[j].state = "deleted" /\ job'[j].payload = FALSE /\ job'[j].data = 0
            /\ job'[j].owner = NoOwner /\ job'[j].reqid = FALSE
        BY <3>1, <3>2 DEF JobRow
      <3> QED BY <3>3 DEF Tidy
    <2>3. CASE ~(InTable(j) /\ job[j].owner = o)
      <3>1. job'[j] = job[j] BY <2>3 DEF ExpireWorkspace
      <3>2. job[j].owner # o
        BY <2>1, <2>3, OwnerAssumption DEF InTable, Tidy, JobRow
      <3> QED BY <1>1, <2>1, <3>1, <3>2 DEF Tidy
    <2> QED BY <2>2, <2>3
  <1>3. ASSUME NEW j \in Jobs, job'[j].state = "published" PROVE HasSuccessors(j)'
    <2>1. ~(InTable(j) /\ job[j].owner = o)
      <3>1. ASSUME InTable(j) /\ job[j].owner = o PROVE FALSE
        <4> DEFINE p == DeletedRow(job[j])
        <4>1. p \in JobRow /\ p.state = "deleted"
          <5>1. job[j] \in JobRow BY DEF EInv, IInv, TypeOK
          <5> QED BY <5>1, DeletedRowIs DEF DeletedRow
        <4>2. job'[j] = [p EXCEPT !.owner = NoOwner, !.key = NoKey, !.reqid = FALSE]
          BY <3>1 DEF ExpireWorkspace, DetachedRow
        <4> HIDE DEF p
        <4>3. job'[j].state = "deleted" BY <4>1, <4>2 DEF JobRow
        <4> QED BY <1>3, <4>3
      <3> QED BY <3>1
    <2>2. job'[j] = job[j] /\ result'[j] = result[j] BY <2>1 DEF ExpireWorkspace
    <2>3. job[j].owner # o BY <1>3, <2>1, <2>2 DEF InTable, JobState
    <2>4. HasSuccessors(j) BY <1>3, <2>2 DEF EInv
    <2>5. ASSUME NEW k \in result[j].succ
          PROVE  \E i \in Jobs : /\ job'[i].key = k
                                 /\ job'[i].state = "gone" \/ job'[i].owner = job'[j].owner
      <3>1. PICK i \in Jobs : /\ job[i].key = k
                              /\ job[i].state = "gone" \/ job[i].owner = job[j].owner
        BY <2>4 DEF HasSuccessors
      <3>2. ~(InTable(i) /\ job[i].owner = o)
        BY <2>3, <3>1 DEF InTable, JobState
      <3>3. job'[i] = job[i] BY <3>2 DEF ExpireWorkspace
      <3> QED BY <2>2, <3>1, <3>3
    <2> QED BY <2>2, <2>4, <2>5 DEF HasSuccessors
  <1>4. TidyRows' BY <1>2 DEF TidyRows
  <1> QED BY <1>3, <1>4 DEF EInv

LEMMA TickErasure ==
  ASSUME EInv, IInv', Tick
  PROVE  EInv'
  <1>1. UNCHANGED <<result, principals>> BY DEF Tick
  <1>2. ASSUME NEW j \in Jobs
        PROVE  /\ job'[j].state = job[j].state /\ job'[j].key = job[j].key
               /\ job'[j].owner = job[j].owner /\ job'[j].payload = job[j].payload
               /\ job'[j].data = job[j].data /\ job'[j].reqid = job[j].reqid
    <2>1. job[j] \in JobRow BY DEF EInv, IInv, TypeOK
    <2> QED BY <2>1 DEF Tick, JobRow
  <1>3. ASSUME NEW j \in Jobs PROVE Tidy(job'[j], principals')
    BY <1>1, <1>2 DEF EInv, TidyRows, Tidy
  <1>4. \A i \in Jobs : RowKeeps(job[i], job'[i]) BY <1>2 DEF RowKeeps
  <1>5. TidyRows' BY <1>3 DEF TidyRows
  <1> QED BY <1>1, <1>2, <1>4, <1>5, NoPublication

-----------------------------------------------------------------------------
(* The invariant *)

LEMMA InitErasure == Init => EInv
  <1> SUFFICES ASSUME Init PROVE EInv OBVIOUS
  <1>1. TidyRows BY DEF Init, TidyRows, Tidy, Blank, JobState
  <1>2. \A j \in Jobs : job[j].state # "published" BY DEF Init, Blank
  <1> QED BY <1>1, <1>2, InitInv DEF EInv

LEMMA NextErasure == EInv /\ [Next]_vars => EInv'
  <1> SUFFICES ASSUME EInv, [Next]_vars PROVE EInv' OBVIOUS
  <1>0. IInv' BY NextInv DEF EInv
  <1>1. CASE UNCHANGED vars
    BY <1>0, <1>1 DEF vars, EInv, TidyRows, HasSuccessors
  <1>2. CASE Next
    <2>1. ASSUME NEW k \in Keys, NEW o \in Owners \cup {NoOwner}, Enqueue(k, o)
          PROVE  EInv'
      BY <1>0, <2>1, EnqueueErasure
    <2>2. ASSUME NEW w \in Workers, NEW lag \in 0..MaxLag, Claim(w, lag)
          PROVE  EInv'
      BY <1>0, <2>2, ClaimErasure
    <2>3. ASSUME NEW lag \in 0..MaxLag, ClaimNothing(lag) PROVE EInv'
      BY <1>0, <2>3, ClaimNothingErasure
    <2>4. ASSUME NEW l \in leases, LeaseStep(l) PROVE EInv'
      BY <1>0, <2>4, LeaseErasure
    <2>5. ASSUME NEW j \in Jobs, RequestCancel(j) \/ Delete(j) \/ Purge(j)
          PROVE  EInv'
      BY <1>0, <2>5, RequestCancelErasure, DeleteErasure, PurgeErasure
    <2>6. ASSUME NEW o \in Owners, ExpireWorkspace(o) PROVE EInv'
      BY <1>0, <2>6, ExpireWorkspaceErasure
    <2>7. CASE Tick BY <1>0, <2>7, TickErasure
    <2> QED BY <1>2, <2>1, <2>2, <2>3, <2>4, <2>5, <2>6, <2>7 DEF Next
  <1> QED BY <1>1, <1>2

LEMMA ErasureInvariance == Spec => []EInv
  BY InitErasure, NextErasure, PTL DEF Spec

(* Nothing of a deleted job or of an expired workspace is left in the      *)
(* table or comes back, although workers may still hold leases on its jobs *)
(* and publish, checkpoint and record request ids with them.               *)
THEOREM DeletionErases == Spec => []ContentErased
  <1>1. EInv => DeletedIsEmpty
    BY DEF EInv, IInv, RowOK, TidyRows, Tidy, DeletedIsEmpty
  <1>2. EInv => WorkspaceErased BY DEF EInv, TidyRows, Tidy, WorkspaceErased
  <1> QED BY <1>1, <1>2, ErasureInvariance, PTL DEF ContentErased

(* A visible result has all its successor stages, of the same owner.       *)
THEOREM PublicationIsAtomic == Spec => []SuccessorsCommitted
  <1>1. EInv => SuccessorsCommitted BY DEF EInv, HasSuccessors, SuccessorsCommitted
  <1> QED BY <1>1, ErasureInvariance, PTL
=============================================================================
