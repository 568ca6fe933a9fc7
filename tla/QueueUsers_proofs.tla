-------------------------- MODULE QueueUsers_proofs --------------------------
(***************************************************************************)
(* Proofs about the two sides that use the job queue, for any number of    *)
(* jobs, workers and keys: the worker runtime, and what owners and routes  *)
(* do to jobs.  Every step of either is a transaction of the queue, leaves *)
(* its tables alone or is the speech retry, the one step on a job row that *)
(* the queue does not have, so the invariant of the queue carries over.    *)
(***************************************************************************)
EXTENDS Worker, JobService, JobQueue_proofs

-----------------------------------------------------------------------------
(***************************************************************************)
(* The worker runtime, for any retry classes, caps and faults: what is new *)
(* is how far a worker may trust what it remembers.                        *)
(***************************************************************************)

(* The inductive invariant *)

WTypeOK ==
  /\ pc \in [Workers -> Awaits \cup {"idle", "stopped", "down"}]
  /\ mem \in [Workers -> Memory \cup {NoMemory}]
  /\ faults \in Nat

(* What a worker knows of the row r of a lease it still holds. *)
Trusted(w, r) ==
  /\ mem[w].counts = r.counts
  /\ mem[w].reqid => r.reqid
  /\ pc[w] = "claimed" => r.state = "leased"
  /\ pc[w] \in {"running", "publishing"} => r.state = "running"
  /\ pc[w] \in {"unstarted", "cancelling", "withdrawn"} => r.cancel

(* The lease a busy worker remembers is its own, and while it passes the   *)
(* fence the claim's snapshot of the row is still true.                    *)
MemoryOK(w) ==
  pc[w] \in Awaits =>
    /\ mem[w] \in Memory /\ L(w) \in leases /\ L(w).worker = w
    /\ Held(L(w)) => Trusted(w, job[L(w).job])

(* The retry counters of a row r are within the caps, and an unknown       *)
(* outcome is behind it only with a request id.                            *)
CountsOK(r) ==
  /\ \A c \in Classes : r.counts[c] <= Cap[c]
  /\ r.state \in ACTIVE /\ r.counts[Unknown] > 0 => r.reqid

(* A lease of w that could still publish. *)
Live(w, l) == l.worker = w /\ Held(l) /\ Unexpired(l.job) /\ ~job[l.job].cancel

(* Before the first fault, or when that fault was the worker's own         *)
(* shutdown.                                                               *)
Orderly(w) == faults = 0 \/ (faults = 1 /\ pc[w] \in {"stopping", "stopped"})

(* No live lease is forgotten in an orderly run. *)
NothingForgotten(w) ==
  /\ pc[w] \in {"stopping", "stopped", "down"} => faults > 0
  /\ Orderly(w) => \A l \in leases : Live(w, l) => pc[w] \in Awaits /\ l = L(w)

WInv ==
  /\ IInv
  /\ WTypeOK
  /\ \A w \in Workers : MemoryOK(w) /\ NothingForgotten(w)
  /\ \A j \in Jobs : CountsOK(job[j])

-----------------------------------------------------------------------------
(* What a transaction of worker w does to one row: r becomes q *)

(* A lease that passes the fence before and after finds the columns it     *)
(* trusts, and only w itself starts a job it holds.                        *)
Keeps(w, r, q) ==
  q.state \in LEASED_STATES =>
    \/ q.token > r.token /\ r.state # "gone"
    \/ /\ r.state \in LEASED_STATES /\ q.token = r.token
       /\ q.gen = r.gen /\ q.lessee = r.lessee
       /\ q.counts = r.counts /\ (r.reqid => q.reqid) /\ (r.cancel => q.cancel)
       /\ q.ttl > 0 => r.ttl > 0
       /\ r.state = "running" \/ r.lessee # w => q.state = r.state

(* No retry is counted and no request id of a job in work is lost. *)
Calm(r, q) ==
  \/ \A c \in Classes : q.counts[c] = 0
  \/ q.counts = r.counts
     /\ (q.state \in ACTIVE => r.state \in ACTIVE /\ (r.reqid => q.reqid))

(* Only a requested cancellation becomes effective. *)
Asked(r, q) == r.state \in LEASED_STATES /\ q.state = "cancelled" => r.cancel

RowChange(w, r, q) == Keeps(w, r, q) /\ Calm(r, q) /\ Asked(r, q)

(* Every row of a transaction of w. *)
Changes(w) == \A j \in Jobs : RowChange(w, job[j], job'[j])

LEMMA SameRow ==
  ASSUME NEW w, NEW r \in JobRow
  PROVE  RowChange(w, r, r)
  BY DEF RowChange, Keeps, Calm, Asked, LEASED_STATES

LEMMA OneRowChange ==
  ASSUME IInv, NEW w, NEW j \in Jobs, NEW q, job' = [job EXCEPT ![j] = q],
         RowChange(w, job[j], q)
  PROVE  Changes(w)
  <1>1. \A i \in Jobs : job'[i] = IF i = j THEN q ELSE job[i] BY DEF IInv, TypeOK
  <1>2. \A i \in Jobs : job[i] \in JobRow BY DEF IInv, TypeOK
  <1> QED BY <1>1, <1>2, SameRow DEF Changes

(* The columns a returned lease leaves alone. *)
LEMMA ReturnedColumns ==
  ASSUME NEW r \in JobRow
  PROVE  ReturnedRow(r).counts = r.counts /\ ReturnedRow(r).reqid = r.reqid
  BY DEF ReturnedRow, Cleared, JobRow

LEMMA ReturnedChange ==
  ASSUME NEW w, NEW r \in JobRow, r.state \in LEASED_STATES
  PROVE  RowChange(w, r, ReturnedRow(r))
  <1> DEFINE q == ReturnedRow(r)
  <1>1. q.state = IF r.cancel THEN "cancelled" ELSE "queued" BY ReturnedRowIs
  <1>2. q.counts = r.counts /\ q.reqid = r.reqid BY ReturnedColumns
  <1> HIDE DEF q
  <1>3. RowChange(w, r, q)
    BY <1>1, <1>2 DEF RowChange, Keeps, Calm, Asked, LEASED_STATES, ACTIVE
  <1> QED BY <1>3 DEF q

LEMMA SweptChange ==
  ASSUME IInv, NEW w, NEW lag \in 0..MaxLag, NEW j \in Jobs
  PROVE  RowChange(w, job[j], Swept(lag)[j])
  <1>1. job[j] \in JobRow BY DEF IInv, TypeOK
  <1> QED BY <1>1, SameRow, ReturnedChange DEF Swept

LEMMA NewRowChange ==
  ASSUME NEW w, NEW r \in JobRow, NEW k \in Keys, NEW o \in Owners \cup {NoOwner},
         r.state = "absent"
  PROVE  RowChange(w, r, NewRow(k, o))
  <1>1. /\ NewRow(k, o).state = "queued"
        /\ \A c \in Classes : NewRow(k, o).counts[c] = 0
    BY DEF NewRow, Blank
  <1> QED BY <1>1 DEF RowChange, Keeps, Calm, Asked, LEASED_STATES

LEMMA InsertedChange ==
  ASSUME IInv, NEW w, NEW ks \in SUBSET Keys, NEW ids \in FreshIds(ks),
         NEW o \in Owners \cup {NoOwner}, NEW j \in Jobs
  PROVE  RowChange(w, job[j], Inserted(job, ids, o)[j])
  <1>1. job[j] \in JobRow BY DEF IInv, TypeOK
  <1>2. CASE \E k \in DOMAIN ids : ids[k] = j
    <2>1. job[j].state = "absent" BY <1>2 DEF FreshIds
    <2>2. PICK k \in ks : Inserted(job, ids, o)[j] = NewRow(k, o)
      BY <1>2 DEF Inserted, FreshIds
    <2> QED BY <1>1, <2>1, <2>2, NewRowChange
  <1>3. CASE ~ \E k \in DOMAIN ids : ids[k] = j
    BY <1>1, <1>3, SameRow DEF Inserted
  <1> QED BY <1>2, <1>3

-----------------------------------------------------------------------------
(* Transactions *)

LEMMA EnqueueChanges ==
  ASSUME IInv, NEW w, NEW k \in Keys, NEW o \in Owners, Enqueue(k, o)
  PROVE  Changes(w)
  <1>1. PICK ids \in FreshIds({k}) : job' = Inserted(job, ids, o) BY DEF Enqueue
  <1>2. {k} \in SUBSET Keys OBVIOUS
  <1> QED BY <1>1, <1>2, InsertedChange DEF Changes

LEMMA ClaimNothingChanges ==
  ASSUME IInv, NEW w, NEW lag \in 0..MaxLag, ClaimNothing(lag)
  PROVE  Changes(w)
  BY SweptChange DEF ClaimNothing, Changes

(* A grant raises the token of its row and keeps the counters. *)
LEMMA ClaimChanges ==
  ASSUME IInv, NEW w \in Workers, NEW lag \in 0..MaxLag, Claim(w, lag)
  PROVE  /\ Changes(w)
         /\ \E l : /\ l \notin leases /\ leases' = leases \cup {l} /\ l.worker = w
                   /\ l.job \in Jobs /\ job'[l.job].state = "leased"
  <1> DEFINE rows == Swept(lag)
  <1>1. PICK j \in Jobs :
          /\ rows[j].state = "queued"
          /\ job' = [rows EXCEPT ![j] = LeasedRow(rows[j], w, lag)]
          /\ leases' = leases \cup
               {[job |-> j, worker |-> w, token |-> job'[j].token,
                 gen |-> job'[j].gen, serial |-> claims + 1]}
    BY DEF Claim
  <1>2. /\ rows \in [Jobs -> JobRow]
        /\ \A i \in Jobs : RowOK(i, rows[i], result[i], leases)
    BY SweptOK
  <1>3. \A i \in Jobs : RowChange(w, job[i], rows[i]) BY SweptChange
  <1>4. \A i \in Jobs : job[i] \in JobRow BY DEF IInv, TypeOK
  <1>5. rows[j].token = job[j].token /\ job[j].state # "gone"
    BY <1>1, <1>4, ReturnedRowIs DEF Swept, LEASED_STATES
  <1> HIDE DEF rows
  <1> DEFINE q == LeasedRow(rows[j], w, lag)
             new == [job |-> j, worker |-> w, token |-> job'[j].token,
                     gen |-> job'[j].gen, serial |-> claims + 1]
  <1>6. q.state = "leased" /\ q.token = rows[j].token + 1 BY <1>2, LeasedRowIs
  <1>7. q.counts = rows[j].counts /\ q.reqid = rows[j].reqid
    BY <1>2 DEF LeasedRow, JobRow
  <1>8. rows[j].token \in Nat BY <1>2 DEF JobRow
  <1> HIDE DEF q
  <1>9. \A i \in Jobs : job'[i] = IF i = j THEN q ELSE rows[i] BY <1>1, <1>2 DEF q
  <1>10. RowChange(w, job[j], q)
    <2>1. Calm(job[j], rows[j]) /\ rows[j].state \in ACTIVE
      BY <1>1, <1>3 DEF RowChange, ACTIVE
    <2>2. Calm(job[j], q) BY <1>7, <2>1 DEF Calm
    <2>3. Keeps(w, job[j], q) BY <1>5, <1>6, <1>8 DEF Keeps
    <2>4. Asked(job[j], q) BY <1>6 DEF Asked
    <2> QED BY <2>2, <2>3, <2>4 DEF RowChange
  <1>11. Changes(w) BY <1>3, <1>9, <1>10 DEF Changes
  <1>12. new \notin leases
    <2>1. ASSUME new \in leases PROVE FALSE
      <3>1. new.job = j /\ new.token = q.token BY <1>9
      <3> HIDE DEF new
      <3>2. new.token <= rows[j].token
        BY <1>1, <1>2, <2>1, <3>1 DEF RowOK
      <3> QED BY <1>6, <1>8, <3>1, <3>2
    <2> QED BY <2>1
  <1>13. new.worker = w /\ new.job = j OBVIOUS
  <1>14. leases' = leases \cup {new} /\ job'[j].state = "leased" BY <1>1, <1>6, <1>9
  <1> HIDE DEF new
  <1> QED BY <1>11, <1>12, <1>13, <1>14

(* Starting, extending, checkpointing and recording keep the lease. *)
LEMMA StartChanges ==
  ASSUME IInv, NEW l \in leases, Start(l)
  PROVE  /\ Changes(l.worker) /\ UNCHANGED leases
         /\ job'[l.job].state = "running"
  <1> DEFINE r == job[l.job]
             q == [r EXCEPT !.state = "running"]
  <1>1. r \in JobRow /\ l.job \in Jobs /\ job \in [Jobs -> JobRow]
    BY LeaseRow DEF IInv, TypeOK
  <1>2. r.state = "leased" /\ r.lessee = l.worker BY DEF Start, Owned
  <1>3. job' = [job EXCEPT ![l.job] = q] BY DEF Start, Update
  <1> HIDE DEF r
  <1>4. /\ q.state = "running" /\ q.token = r.token /\ q.gen = r.gen
        /\ q.lessee = r.lessee /\ q.counts = r.counts /\ q.reqid = r.reqid
        /\ q.cancel = r.cancel /\ q.ttl = r.ttl
    BY <1>1 DEF JobRow
  <1> HIDE DEF q
  <1>5. RowChange(l.worker, r, q)
    BY <1>2, <1>4 DEF RowChange, Keeps, Calm, Asked, LEASED_STATES, ACTIVE
  <1> QED BY <1>1, <1>3, <1>4, <1>5, OneRowChange DEF Start, r

LEMMA HeartbeatChanges ==
  ASSUME IInv, NEW l \in leases, NEW lag \in 0..MaxLag, Heartbeat(l, lag)
  PROVE  /\ Changes(l.worker) /\ UNCHANGED leases
         /\ job'[l.job].cancel = job[l.job].cancel
  <1> DEFINE r == job[l.job]
             q == [r EXCEPT !.ttl = LeaseTime - lag]
  <1>1. r \in JobRow /\ l.job \in Jobs /\ job \in [Jobs -> JobRow]
    BY LeaseRow DEF IInv, TypeOK
  <1>2. r.state \in LEASED_STATES /\ r.ttl > 0 BY DEF Heartbeat, Held, Unexpired
  <1>3. job' = [job EXCEPT ![l.job] = q] BY DEF Heartbeat, Update
  <1> HIDE DEF r
  <1>4. /\ q.state = r.state /\ q.token = r.token /\ q.gen = r.gen
        /\ q.lessee = r.lessee /\ q.counts = r.counts /\ q.reqid = r.reqid
        /\ q.cancel = r.cancel
    BY <1>1 DEF JobRow
  <1> HIDE DEF q
  <1>5. RowChange(l.worker, r, q)
    BY <1>2, <1>4 DEF RowChange, Keeps, Calm, Asked, LEASED_STATES, ACTIVE
  <1> QED BY <1>1, <1>3, <1>4, <1>5, OneRowChange DEF Heartbeat, r

LEMMA RecordingChanges ==
  ASSUME IInv, NEW l \in leases, SaveStageData(l) \/ RecordRequestId(l)
  PROVE  Changes(l.worker) /\ UNCHANGED leases
  <1> DEFINE r == job[l.job]
  <1>1. r \in JobRow /\ l.job \in Jobs BY LeaseRow
  <1>2. PICK q : /\ job' = [job EXCEPT ![l.job] = q]
                 /\ \/ q = [r EXCEPT !.data = l.token]
                    \/ q = [r EXCEPT !.reqid = TRUE]
    BY DEF SaveStageData, RecordRequestId, Update
  <1>3. r.state \in LEASED_STATES
    BY DEF SaveStageData, LockActive, RecordRequestId, Held, LEASED_STATES
  <1> HIDE DEF r
  <1>4. /\ q.state = r.state /\ q.token = r.token /\ q.gen = r.gen
        /\ q.lessee = r.lessee /\ q.counts = r.counts /\ (r.reqid => q.reqid)
        /\ q.cancel = r.cancel /\ q.ttl = r.ttl
    BY <1>1, <1>2 DEF JobRow
  <1>5. RowChange(l.worker, r, q)
    BY <1>3, <1>4 DEF RowChange, Keeps, Calm, Asked, LEASED_STATES, ACTIVE
  <1> QED BY <1>1, <1>2, <1>5, OneRowChange DEF SaveStageData, RecordRequestId, r

(* Failing, releasing and an acknowledged cancellation end the lease. *)
LEMMA EndingChanges ==
  ASSUME IInv, NEW w, NEW l \in leases,
         Fail(l) \/ Release(l) \/ (Cancel(l) /\ job[l.job].cancel)
  PROVE  /\ Changes(w) /\ UNCHANGED leases
         /\ job'[l.job].state \notin LEASED_STATES
  <1> DEFINE r == job[l.job]
  <1>1. r \in JobRow /\ l.job \in Jobs /\ job \in [Jobs -> JobRow]
    BY LeaseRow DEF IInv, TypeOK
  <1>2. r.state \in LEASED_STATES /\ UNCHANGED leases
    BY DEF Fail, Release, Cancel, Held
  <1>3. PICK q : /\ job' = [job EXCEPT ![l.job] = q]
                 /\ \/ q = Cleared([r EXCEPT !.state = "failed"])
                    \/ q = ReturnedRow(r)
                    \/ q = CancelledRow(r) /\ r.cancel
    BY DEF Fail, Release, Cancel, Update
  <1> HIDE DEF r
  <1>4. RowChange(w, r, q) /\ q.state \notin LEASED_STATES
    <2>1. CASE q = Cleared([r EXCEPT !.state = "failed"])
      <3>1. q.state = "failed" BY <1>1, <2>1, FinishedRowIs
      <3>2. q.counts = r.counts BY <1>1, <2>1 DEF Cleared, JobRow
      <3> QED BY <3>1, <3>2 DEF RowChange, Keeps, Calm, Asked, LEASED_STATES, ACTIVE
    <2>2. CASE q = ReturnedRow(r)
      BY <1>1, <1>2, <2>2, ReturnedChange, ReturnedRowIs DEF LEASED_STATES
    <2>3. CASE q = CancelledRow(r) /\ r.cancel
      <3>1. q.state = "cancelled" BY <1>1, <2>3, CancelledRowIs
      <3>2. q.counts = r.counts BY <1>1, <2>3 DEF CancelledRow, Cleared, JobRow
      <3> QED BY <2>3, <3>1, <3>2 DEF RowChange, Keeps, Calm, Asked, LEASED_STATES, ACTIVE
    <2> QED BY <1>3, <2>1, <2>2, <2>3
  <1> QED BY <1>1, <1>2, <1>3, <1>4, OneRowChange DEF r

LEMMA PublishChanges ==
  ASSUME IInv, NEW w, NEW l \in leases, NEW succ \in SUBSET Keys, Publish(l, succ)
  PROVE  /\ Changes(w) /\ UNCHANGED leases
         /\ job'[l.job].state \notin LEASED_STATES
  <1> DEFINE r == job[l.job]
             q == Cleared([r EXCEPT !.state = "published"])
             o == r.owner
  <1>1. r \in JobRow /\ l.job \in Jobs BY LeaseRow
  <1>2. PICK ids \in FreshIds({k \in succ : ~KeyTaken(k)}) :
          job' = [Inserted(job, ids, o) EXCEPT ![l.job] = q]
    BY DEF Publish
  <1>3. o \in Owners \cup {NoOwner} BY <1>1 DEF JobRow
  <1>4. {k \in succ : ~KeyTaken(k)} \in SUBSET Keys OBVIOUS
  <1>5. q.state = "published" BY <1>1, FinishedRowIs
  <1>6. q.counts = r.counts BY <1>1 DEF Cleared, JobRow
  <1> HIDE DEF q, o
  <1>7. \A j \in Jobs : RowChange(w, job[j], Inserted(job, ids, o)[j])
    BY <1>2, <1>3, <1>4, InsertedChange
  <1>8. RowChange(w, r, q)
    BY <1>5, <1>6 DEF RowChange, Keeps, Calm, Asked, LEASED_STATES, ACTIVE
  <1>9. \A j \in Jobs : job'[j] = IF j = l.job THEN q ELSE Inserted(job, ids, o)[j]
    BY <1>1, <1>2 DEF Inserted
  <1>10. Changes(w) BY <1>7, <1>8, <1>9 DEF Changes
  <1> QED BY <1>1, <1>5, <1>9, <1>10 DEF Publish, LEASED_STATES

LEMMA RequestCancelChanges ==
  ASSUME IInv, NEW w, NEW j \in Jobs, RequestCancel(j)
  PROVE  /\ Changes(w) /\ UNCHANGED leases
         /\ job'[j].state \in LEASED_STATES => job'[j].cancel
  <1> DEFINE r == job[j]
  <1>1. r \in JobRow /\ job \in [Jobs -> JobRow] BY DEF IInv, TypeOK
  <1>2. PICK q : /\ job' = [job EXCEPT ![j] = q]
                 /\ \/ r.state = "queued" /\ q = CancelledRow(r)
                    \/ r.state \in LEASED_STATES /\ q = [r EXCEPT !.cancel = TRUE]
    BY DEF RequestCancel, Update
  <1> HIDE DEF r
  <1>3. RowChange(w, r, q) /\ (q.state \in LEASED_STATES => q.cancel)
    <2>1. CASE r.state = "queued" /\ q = CancelledRow(r)
      <3>1. q.state = "cancelled" /\ q.cancel BY <1>1, <2>1, CancelledRowIs
      <3>2. q.counts = r.counts BY <1>1, <2>1 DEF CancelledRow, Cleared, JobRow
      <3> QED BY <2>1, <3>1, <3>2 DEF RowChange, Keeps, Calm, Asked, LEASED_STATES, ACTIVE
    <2>2. CASE r.state \in LEASED_STATES /\ q = [r EXCEPT !.cancel = TRUE]
      <3>1. /\ q.state = r.state /\ q.token = r.token /\ q.gen = r.gen
            /\ q.lessee = r.lessee /\ q.counts = r.counts /\ q.reqid = r.reqid
            /\ q.cancel /\ q.ttl = r.ttl
        BY <1>1, <2>2 DEF JobRow
      <3> QED BY <2>2, <3>1 DEF RowChange, Keeps, Calm, Asked, LEASED_STATES, ACTIVE
    <2> QED BY <1>2, <2>1, <2>2
  <1> QED BY <1>1, <1>2, <1>3, OneRowChange DEF RequestCancel, r

LEMMA DeleteChanges ==
  ASSUME IInv, NEW w, NEW j \in Jobs, Delete(j)
  PROVE  Changes(w) /\ UNCHANGED leases
  <1> DEFINE r == job[j]
             q == DeletedRow(r)
  <1>1. r \in JobRow BY DEF IInv, TypeOK
  <1>2. r.state # "deleted" /\ job' = [job EXCEPT ![j] = q] BY DEF Delete, Update
  <1> HIDE DEF r
  <1>3. q.state = "deleted" BY <1>1, <1>2, DeletedRowIs
  <1>4. q.counts = r.counts BY <1>1, <1>2 DEF DeletedRow, Cleared, JobRow
  <1> HIDE DEF q
  <1>5. RowChange(w, r, q)
    BY <1>3, <1>4 DEF RowChange, Keeps, Calm, Asked, LEASED_STATES, ACTIVE
  <1> QED BY <1>2, <1>5, OneRowChange DEF Delete, r

LEMMA TickChanges ==
  ASSUME IInv, NEW w, Tick
  PROVE  Changes(w) /\ UNCHANGED leases
  <1>1. ASSUME NEW j \in Jobs PROVE RowChange(w, job[j], job'[j])
    <2> DEFINE r == job[j]
               t == IF r.state \in LEASED_STATES THEN Floor(r.ttl, -(MaxLag + 1)) ELSE r.ttl
               n == IF r.state \in ACTIVE THEN Floor(r.wait, -MaxLag) ELSE r.wait
               q == [r EXCEPT !.ttl = t, !.wait = n]
    <2>1. r \in JobRow BY DEF IInv, TypeOK
    <2>2. job'[j] = q BY DEF Tick
    <2>3. t > 0 => r.ttl > 0 BY <2>1, TimeAssumption DEF JobRow, Floor, Ttl
    <2> HIDE DEF r, t, n
    <2>4. /\ q.state = r.state /\ q.token = r.token /\ q.gen = r.gen
          /\ q.lessee = r.lessee /\ q.counts = r.counts /\ q.reqid = r.reqid
          /\ q.cancel = r.cancel /\ q.ttl = t
      BY <2>1 DEF JobRow
    <2> HIDE DEF q
    <2>5. RowChange(w, r, q)
      BY <2>3, <2>4 DEF RowChange, Keeps, Calm, Asked, LEASED_STATES, ACTIVE
    <2> QED BY <2>2, <2>5 DEF r
  <1> QED BY <1>1 DEF Changes, Tick

-----------------------------------------------------------------------------
(* Leases across a step *)

KeepsAll(w) == \A j \in Jobs : Keeps(w, job[j], job'[j])

LEMMA ChangesKeep ==
  ASSUME WInv, NEW w, Changes(w)
  PROVE  KeepsAll(w) /\ \A j \in Jobs : CountsOK(job'[j])
  <1>1. KeepsAll(w) BY DEF Changes, RowChange, KeepsAll
  <1>2. ASSUME NEW j \in Jobs PROVE CountsOK(job'[j])
    <2>1. CountsOK(job[j]) /\ Calm(job[j], job'[j]) BY DEF WInv, Changes, RowChange
    <2>2. CASE \A c \in Classes : job'[j].counts[c] = 0
      BY <2>2, CapAssumption DEF CountsOK
    <2>3. CASE job'[j].counts = job[j].counts
               /\ (job'[j].state \in ACTIVE => job[j].state \in ACTIVE /\ (job[j].reqid => job'[j].reqid))
      BY <2>1, <2>3 DEF CountsOK
    <2> QED BY <2>1, <2>2, <2>3 DEF Calm
  <1> QED BY <1>1, <1>2

(* A lease that passes the fence after a step passed it before: a grant    *)
(* carries a new token, and nothing else hands a job to a worker.          *)
LEMMA HeldBefore ==
  ASSUME IInv, NEW w, KeepsAll(w), NEW l \in leases, Held(l)'
  PROVE  LET r == job[l.job]
             q == job'[l.job]
         IN  /\ Held(l)
             /\ r.lessee = l.worker /\ q.counts = r.counts
             /\ (r.reqid => q.reqid) /\ (r.cancel => q.cancel)
             /\ q.ttl > 0 => r.ttl > 0
             /\ r.state = "running" \/ l.worker # w => q.state = r.state
  <1> DEFINE r == job[l.job]
             q == job'[l.job]
  <1>1. l.job \in Jobs /\ r \in JobRow /\ l.token \in Nat /\ RowOK(l.job, r, result[l.job], leases)
    BY LeaseRow
  <1>2. /\ q.state \in LEASED_STATES /\ q.lessee = l.worker /\ q.token = l.token
        /\ q.gen = l.gen
    BY DEF Held, Owned
  <1>3. Keeps(w, r, q) BY <1>1 DEF KeepsAll
  <1>4. r.token \in Nat BY <1>1 DEF JobRow
  <1>5. r.state # "gone" => l.token <= r.token BY <1>1 DEF RowOK
  <1> HIDE DEF r, q
  <1>6. /\ r.state \in LEASED_STATES /\ q.token = r.token
        /\ q.gen = r.gen /\ q.lessee = r.lessee
        /\ q.counts = r.counts /\ (r.reqid => q.reqid) /\ (r.cancel => q.cancel)
        /\ q.ttl > 0 => r.ttl > 0
        /\ r.state = "running" \/ r.lessee # w => q.state = r.state
    BY <1>1, <1>2, <1>3, <1>4, <1>5 DEF Keeps
  <1>7. Held(l)
    <2>1. r.state \in JobState BY <1>6 DEF LEASED_STATES, JobState
    <2> QED BY <1>2, <1>6, <2>1 DEF Held, Owned, InTable, r
  <1> QED BY <1>2, <1>6, <1>7 DEF r, q

LEMMA LiveBefore ==
  ASSUME IInv, NEW w, KeepsAll(w), NEW v, NEW l \in leases, Live(v, l)'
  PROVE  Live(v, l)
  <1>1. l.worker = v /\ Held(l)' /\ job'[l.job].ttl > 0 /\ ~job'[l.job].cancel
    BY DEF Live, Unexpired
  <1> QED BY <1>1, HeldBefore DEF Live, Unexpired

(* What the step of w means for another worker. *)
LEMMA Others ==
  ASSUME WInv, NEW w, KeepsAll(w), leases \subseteq leases',
         \A l \in leases' \ leases : l.worker = w,
         faults' = faults \/ faults' = faults + 1,
         NEW v \in Workers, v # w, pc'[v] = pc[v], mem'[v] = mem[v]
  PROVE  MemoryOK(v)' /\ NothingForgotten(v)'
  <1>1. MemoryOK(v) /\ NothingForgotten(v) /\ IInv /\ faults \in Nat BY DEF WInv, WTypeOK
  <1>2. MemoryOK(v)'
    <2> SUFFICES ASSUME pc[v] \in Awaits
                 PROVE  /\ mem'[v] \in Memory /\ L(v)' \in leases' /\ L(v)'.worker = v
                        /\ Held(L(v))' => Trusted(v, job[L(v).job])'
      BY DEF MemoryOK
    <2>1. /\ mem[v] \in Memory /\ L(v) \in leases /\ L(v).worker = v
          /\ Held(L(v)) => Trusted(v, job[L(v).job])
      BY <1>1 DEF MemoryOK
    <2>2. L(v)' = L(v) BY DEF L
    <2>3. ASSUME Held(L(v))' PROVE Trusted(v, job[L(v).job])'
      <3>1. PICK l \in leases : l = L(v) BY <2>1
      <3>2. L(v)' = l /\ Held(l)' BY <2>2, <2>3, <3>1 DEF Held, Owned, InTable
      <3>3. /\ Held(l) /\ job'[l.job].counts = job[l.job].counts
            /\ (job[l.job].reqid => job'[l.job].reqid)
            /\ (job[l.job].cancel => job'[l.job].cancel)
            /\ job[l.job].state = "running" \/ l.worker # w => job'[l.job].state = job[l.job].state
        BY <1>1, <3>1, <3>2, HeldBefore
      <3>4. l.worker = v /\ Trusted(v, job[l.job]) BY <2>1, <3>1, <3>3
      <3>5. Trusted(v, job[l.job])' BY <3>3, <3>4 DEF Trusted
      <3> QED BY <3>2, <3>5
    <2> QED BY <2>1, <2>2, <2>3
  <1>3. NothingForgotten(v)'
    <2>1. pc'[v] \in {"stopping", "stopped", "down"} => faults' > 0
      BY <1>1 DEF NothingForgotten
    <2>2. ASSUME Orderly(v)', NEW l \in leases', Live(v, l)'
          PROVE  pc'[v] \in Awaits /\ l = L(v)'
      <3>1. Orderly(v) BY <1>1, <2>2 DEF Orderly, NothingForgotten
      <3>2. l \in leases
        BY <2>2 DEF Live
      <3>3. Live(v, l) BY <1>1, <2>2, <3>2, LiveBefore
      <3> QED BY <1>1, <3>1, <3>2, <3>3 DEF NothingForgotten, L
    <2> QED BY <2>1, <2>2 DEF NothingForgotten
  <1> QED BY <1>2, <1>3

-----------------------------------------------------------------------------
(* A worker that drops its job, and one that goes on with it *)

(* A step of w that keeps the invariant for w itself keeps it. *)
LEMMA Combined ==
  ASSUME WInv, IInv', WTypeOK', NEW w, KeepsAll(w), \A j \in Jobs : CountsOK(job'[j]),
         leases \subseteq leases', \A l \in leases' \ leases : l.worker = w,
         faults' = faults \/ faults' = faults + 1,
         \A v \in Workers \ {w} : pc'[v] = pc[v] /\ mem'[v] = mem[v],
         w \in Workers => MemoryOK(w)' /\ NothingForgotten(w)'
  PROVE  WInv'
  <1>1. ASSUME NEW v \in Workers PROVE MemoryOK(v)' /\ NothingForgotten(v)'
    <2>1. CASE v = w BY <2>1
    <2>2. CASE v # w BY <2>2, Others
    <2> QED BY <2>1, <2>2
  <1> QED BY <1>1 DEF WInv

LEMMA GotoFacts ==
  ASSUME WInv, NEW w \in Workers, NEW n \in Awaits \cup {"idle", "stopped", "down"},
         Goto(w, n), NoFault \/ Fault, pc[w] \in Awaits \/ n \notin Awaits
  PROVE  /\ WTypeOK' /\ pc'[w] = n
         /\ \A v \in Workers \ {w} : pc'[v] = pc[v] /\ mem'[v] = mem[v]
         /\ n \in Awaits => mem'[w] = mem[w]
         /\ faults' = faults \/ faults' = faults + 1
  <1>1. WTypeOK BY DEF WInv
  <1>2. faults' \in Nat /\ (faults' = faults \/ faults' = faults + 1)
    BY <1>1 DEF WTypeOK, NoFault, Fault
  <1> QED BY <1>1, <1>2 DEF WTypeOK, Goto

(* The worker forgets its lease: in an orderly run it is no longer live. *)
LEMMA LeavesInv ==
  ASSUME WInv, IInv', NEW w \in Workers, NEW n \in {"idle", "stopped", "down"},
         Goto(w, n), NoFault \/ Fault, KeepsAll(w),
         \A j \in Jobs : CountsOK(job'[j]), UNCHANGED leases,
         n # "idle" => faults' > 0,
         Orderly(w)' => /\ Orderly(w)
                        /\ \A l \in leases : pc[w] \in Awaits /\ l = L(w) => ~Live(w, l)'
  PROVE  WInv'
  <1>1. n \notin Awaits /\ n \in Awaits \cup {"idle", "stopped", "down"} BY DEF Awaits
  <1>2. /\ WTypeOK' /\ pc'[w] = n
        /\ \A v \in Workers \ {w} : pc'[v] = pc[v] /\ mem'[v] = mem[v]
        /\ faults' = faults \/ faults' = faults + 1
    BY <1>1, GotoFacts
  <1>3. MemoryOK(w)' BY <1>1, <1>2 DEF MemoryOK
  <1>4. NothingForgotten(w)'
    <2>1. ASSUME Orderly(w)', NEW l \in leases, Live(w, l)' PROVE FALSE
      <3>1. Live(w, l) BY <2>1, LiveBefore DEF WInv
      <3>2. NothingForgotten(w) BY DEF WInv
      <3> QED BY <2>1, <3>1, <3>2 DEF NothingForgotten
    <2> QED BY <1>2, <2>1 DEF NothingForgotten
  <1> QED BY <1>2, <1>3, <1>4, Combined

(* The worker goes on with the lease it remembers. *)
LEMMA StaysInv ==
  ASSUME WInv, IInv', WTypeOK', NEW w \in Workers, KeepsAll(w),
         \A j \in Jobs : CountsOK(job'[j]), UNCHANGED leases,
         pc[w] \in Awaits, pc'[w] \in Awaits, mem'[w] \in Memory,
         L(w)' = L(w), mem'[w].counts = mem[w].counts, mem'[w].reqid = mem[w].reqid,
         \A v \in Workers \ {w} : pc'[v] = pc[v] /\ mem'[v] = mem[v],
         faults' = faults \/ faults' = faults + 1,
         pc'[w] = "stopping" => faults' > 0,
         Orderly(w)' => Orderly(w),
         \A l \in leases : l = L(w) /\ Held(l) /\ Held(l)' =>
           /\ pc'[w] = "claimed" => job'[l.job].state = "leased"
           /\ pc'[w] \in {"running", "publishing"} => job'[l.job].state = "running"
           /\ pc'[w] \in {"unstarted", "cancelling", "withdrawn"} => job'[l.job].cancel
  PROVE  WInv'
  <1>1. MemoryOK(w) /\ NothingForgotten(w) /\ IInv BY DEF WInv
  <1>2. PICK l \in leases : l = L(w) BY <1>1 DEF MemoryOK
  <1>3. L(w)' = l /\ l.worker = w BY <1>1, <1>2 DEF MemoryOK
  <1>4. MemoryOK(w)'
    <2>1. ASSUME Held(L(w))' PROVE Trusted(w, job[L(w).job])'
      <3>1. Held(l)' BY <1>3, <2>1 DEF Held, Owned, InTable
      <3>2. /\ Held(l) /\ job'[l.job].counts = job[l.job].counts
            /\ (job[l.job].reqid => job'[l.job].reqid)
        BY <1>1, <3>1, HeldBefore
      <3>3. mem[w].counts = job[l.job].counts /\ (mem[w].reqid => job[l.job].reqid)
        BY <1>1, <1>2, <3>2 DEF MemoryOK, Trusted
      <3>4. Trusted(w, job[l.job])' BY <1>2, <3>1, <3>2, <3>3 DEF Trusted
      <3> QED BY <1>3, <3>4
    <2> QED BY <1>2, <1>3, <2>1 DEF MemoryOK
  <1>5. NothingForgotten(w)'
    <2>1. ASSUME Orderly(w)', NEW k \in leases, Live(w, k)' PROVE k = L(w)'
      <3>1. Live(w, k) BY <1>1, <2>1, LiveBefore
      <3> QED BY <1>1, <2>1, <3>1 DEF NothingForgotten
    <2>2. pc'[w] \in {"stopped", "down"} => FALSE BY DEF Awaits
    <2> QED BY <2>1, <2>2 DEF NothingForgotten
  <1> QED BY <1>4, <1>5, Combined

(* The tables are untouched. *)
LEMMA Untouched ==
  ASSUME WInv, NEW w, UNCHANGED vars
  PROVE  IInv' /\ Changes(w) /\ UNCHANGED <<leases, job>>
  <1>1. IInv' BY NextInv DEF WInv
  <1>2. \A j \in Jobs : job[j] \in JobRow BY DEF WInv, IInv, TypeOK
  <1> QED BY <1>1, <1>2, SameRow DEF Changes, vars

(* The lease of a busy worker. *)
LEMMA BusyLease ==
  ASSUME WInv, NEW w \in Workers, pc[w] \in Awaits
  PROVE  /\ IInv /\ L(w) \in leases /\ L(w).job \in Jobs /\ L(w).worker = w
         /\ mem[w] \in Memory /\ faults \in Nat
         /\ Held(L(w)) => Trusted(w, job[L(w).job])
         /\ pc[w] \in {"stopping", "stopped", "down"} => faults > 0
  <1>1. MemoryOK(w) /\ IInv /\ NothingForgotten(w) /\ faults \in Nat BY DEF WInv, WTypeOK
  <1> QED BY <1>1, LeaseRow DEF MemoryOK, NothingForgotten

(* The job is dropped without a fault: its lease has ended. *)
LEMMA DropsInv ==
  ASSUME WInv, IInv', NEW w \in Workers, pc[w] \in Awaits, Goto(w, "idle"), NoFault,
         KeepsAll(w), \A j \in Jobs : CountsOK(job'[j]), UNCHANGED leases,
         \A l \in leases : l = L(w) => ~Live(w, l)'
  PROVE  WInv'
  <1>1. pc'[w] = "idle" BY GotoFacts
  <1>2. Orderly(w)' => Orderly(w) BY <1>1 DEF Orderly, NoFault
  <1> QED BY <1>2, LeavesInv

(* The job is dropped by a fault that is not a shutdown. *)
LEMMA FaultyDropInv ==
  ASSUME WInv, IInv', NEW w \in Workers, NEW n \in {"idle", "down"}, Goto(w, n), Fault,
         Changes(w), UNCHANGED leases
  PROVE  WInv'
  <1>1. pc'[w] = n BY GotoFacts DEF Awaits
  <1>2. faults \in Nat BY DEF WInv, WTypeOK
  <1>3. faults' > 0 /\ ~Orderly(w)' BY <1>1, <1>2 DEF Orderly, Fault
  <1>4. KeepsAll(w) /\ \A j \in Jobs : CountsOK(job'[j]) BY ChangesKeep
  <1> QED BY <1>3, <1>4, LeavesInv

(* The worker goes on and nothing but a fault may happen to it. *)
LEMMA GoesOnInv ==
  ASSUME WInv, IInv', NEW w \in Workers, NEW n \in Awaits, pc[w] \in Awaits, Goto(w, n),
         Changes(w), UNCHANGED leases,
         (NoFault /\ n # "stopping") \/ Fault,
         \A l \in leases : l = L(w) /\ Held(l) /\ Held(l)' =>
           /\ n = "claimed" => job'[l.job].state = "leased"
           /\ n \in {"running", "publishing"} => job'[l.job].state = "running"
           /\ n \in {"unstarted", "cancelling", "withdrawn"} => job'[l.job].cancel
  PROVE  WInv'
  <1>1. /\ WTypeOK' /\ pc'[w] = n /\ mem'[w] = mem[w]
        /\ \A v \in Workers \ {w} : pc'[v] = pc[v] /\ mem'[v] = mem[v]
        /\ faults' = faults \/ faults' = faults + 1
    BY GotoFacts
  <1>2. mem[w] \in Memory /\ faults \in Nat BY BusyLease
  <1>3. KeepsAll(w) /\ \A j \in Jobs : CountsOK(job'[j]) BY ChangesKeep
  <1>4. L(w)' = L(w) BY <1>1 DEF L
  <1>5. Orderly(w)' => Orderly(w)
    <2>1. n # "stopped" BY DEF Awaits
    <2> QED BY <1>1, <1>2, <2>1 DEF Orderly, NoFault, Fault
  <1>6. n = "stopping" => faults' > 0 BY <1>2 DEF Fault
  <1> QED BY <1>1, <1>2, <1>3, <1>4, <1>5, <1>6, StaysInv

-----------------------------------------------------------------------------
(* The steps of a handler *)

LEMMA BeginInv ==
  ASSUME WInv, NEW w \in Workers, Begin(w)
  PROVE  WInv'
  <1>1. pc[w] = "claimed" /\ pc[w] \in Awaits /\ NoFault BY DEF Begin, Awaits
  <1>2. PICK l \in leases : l = L(w) BY <1>1, BusyLease
  <1>3. /\ IInv /\ l.worker = w
        /\ Held(l) => Trusted(w, job[l.job])
    BY <1>1, <1>2, BusyLease
  <1>4. CASE Start(L(w)) /\ Goto(w, "running")
    <2>1. Start(l) BY <1>2, <1>4
    <2>2. IInv' BY <1>3, <2>1, StartInv
    <2>3. Changes(w) /\ UNCHANGED leases /\ job'[l.job].state = "running"
      BY <1>3, <2>1, StartChanges
    <2> QED BY <1>1, <1>2, <1>4, <2>2, <2>3, GoesOnInv DEF Awaits
  <1>5. CASE /\ ~(Held(l) /\ job[l.job].state = "leased" /\ ~job[l.job].cancel)
             /\ Goto(w, "unstarted") /\ UNCHANGED vars
    <2>1. IInv' /\ Changes(w) /\ UNCHANGED <<leases, job>> BY <1>5, Untouched
    <2>2. Held(l) => job[l.job].cancel BY <1>1, <1>3, <1>5 DEF Trusted
    <2> QED BY <1>1, <1>2, <1>5, <2>1, <2>2, GoesOnInv DEF Awaits
  <1> QED BY <1>2, <1>4, <1>5 DEF Begin

LEMMA BeatInv ==
  ASSUME WInv, NEW w \in Workers, Beat(w)
  PROVE  WInv'
  <1>1. pc[w] = "running" /\ pc[w] \in Awaits /\ NoFault BY DEF Beat, Awaits
  <1>2. PICK l \in leases : l = L(w) BY <1>1, BusyLease
  <1>3. /\ IInv /\ l.worker = w
        /\ Held(l) => Trusted(w, job[l.job])
    BY <1>1, <1>2, BusyLease
  <1>4. ASSUME NEW lag \in 0..MaxLag, Heartbeat(l, lag),
               Goto(w, IF job[l.job].cancel THEN "cancelling" ELSE "running")
        PROVE  WInv'
    <2>1. IInv' BY <1>3, <1>4, HeartbeatInv
    <2>2. Changes(w) /\ UNCHANGED leases /\ job'[l.job].cancel = job[l.job].cancel
      BY <1>3, <1>4, HeartbeatChanges
    <2>3. Held(l) /\ Held(l)' => job'[l.job].state = "running"
      <3>1. ASSUME Held(l), Held(l)' PROVE job'[l.job].state = "running"
        <4>1. job[l.job].state = "running" BY <1>1, <1>3, <3>1 DEF Trusted
        <4>2. KeepsAll(w) BY <2>2, ChangesKeep
        <4> QED BY <1>3, <3>1, <4>1, <4>2, HeldBefore
      <3> QED BY <3>1
    <2>4. CASE job[l.job].cancel
      <3>1. Goto(w, "cancelling") BY <1>4, <2>4
      <3> QED BY <1>1, <1>2, <2>1, <2>2, <2>4, <3>1, GoesOnInv DEF Awaits
    <2>5. CASE ~job[l.job].cancel
      <3>1. Goto(w, "running") BY <1>4, <2>5
      <3> QED BY <1>1, <1>2, <2>1, <2>2, <2>3, <3>1, GoesOnInv DEF Awaits
    <2> QED BY <2>4, <2>5
  <1>5. CASE ~(Held(l) /\ Unexpired(l.job)) /\ Goto(w, "idle") /\ UNCHANGED vars
    <2>1. IInv' /\ Changes(w) /\ UNCHANGED <<leases, job>> BY <1>5, Untouched
    <2>2. KeepsAll(w) /\ \A j \in Jobs : CountsOK(job'[j]) BY <2>1, ChangesKeep
    <2>3. ~Live(w, l)
      BY <1>5 DEF Live
    <2>4. ~Live(w, l)' BY <1>3, <2>2, <2>3, LiveBefore
    <2> QED BY <1>1, <1>2, <1>5, <2>1, <2>2, <2>4, DropsInv
  <1> QED BY <1>2, <1>4, <1>5 DEF Beat

(* The job stays at "running", or its lease is gone. *)
LEMMA RunningInv ==
  ASSUME WInv, NEW w \in Workers, RecordId(w) \/ Checkpoint(w)
  PROVE  WInv'
  <1>1. pc[w] = "running" /\ pc[w] \in Awaits /\ NoFault BY DEF RecordId, Checkpoint, Awaits
  <1>2. PICK l \in leases : l = L(w) BY <1>1, BusyLease
  <1>3. /\ IInv /\ l.worker = w
        /\ Held(l) => Trusted(w, job[l.job])
    BY <1>1, <1>2, BusyLease
  <1>4. CASE (RecordRequestId(l) \/ SaveStageData(l)) /\ Goto(w, "running")
    <2>1. IInv' BY <1>3, <1>4, RecordRequestIdInv, SaveStageDataInv
    <2>2. Changes(w) /\ UNCHANGED leases BY <1>3, <1>4, RecordingChanges
    <2>3. ASSUME Held(l), Held(l)' PROVE job'[l.job].state = "running"
      <3>1. job[l.job].state = "running" BY <1>1, <1>3, <2>3 DEF Trusted
      <3>2. KeepsAll(w) BY <2>2, ChangesKeep
      <3> QED BY <1>3, <2>3, <3>1, <3>2, HeldBefore
    <2> QED BY <1>1, <1>2, <1>4, <2>1, <2>2, <2>3, GoesOnInv DEF Awaits
  <1>5. CASE (~Held(l) \/ ~LockActive(l)) /\ Goto(w, "idle") /\ UNCHANGED vars
    <2>1. IInv' /\ Changes(w) /\ UNCHANGED <<leases, job>> BY <1>5, Untouched
    <2>2. KeepsAll(w) /\ \A j \in Jobs : CountsOK(job'[j]) BY <2>1, ChangesKeep
    <2>3. ~Live(w, l) BY <1>1, <1>3, <1>5 DEF Live, Held, LockActive, Trusted
    <2>4. ~Live(w, l)' BY <1>3, <2>2, <2>3, LiveBefore
    <2> QED BY <1>1, <1>2, <1>5, <2>1, <2>2, <2>4, DropsInv
  <1> QED BY <1>2, <1>4, <1>5 DEF RecordId, Checkpoint

LEMMA HandlerEndsInv ==
  ASSUME WInv, NEW w \in Workers, HandlerEnds(w)
  PROVE  WInv'
  <1>1. pc[w] = "running" /\ pc[w] \in Awaits /\ UNCHANGED vars BY DEF HandlerEnds, Awaits
  <1>2. PICK l \in leases : l = L(w) BY <1>1, BusyLease
  <1>3. /\ mem[w] \in Memory /\ faults \in Nat
        /\ Held(l) => Trusted(w, job[l.job])
    BY <1>1, <1>2, BusyLease
  <1>4. IInv' /\ Changes(w) /\ UNCHANGED <<leases, job>> BY <1>1, Untouched
  <1>5. Held(l) => job'[l.job].state = "running" BY <1>1, <1>3, <1>4 DEF Trusted
  <1>6. CASE Goto(w, "publishing") /\ NoFault
    BY <1>1, <1>2, <1>4, <1>5, <1>6, GoesOnInv DEF Awaits
  <1>7. CASE Goto(w, "failing") /\ NoFault
    BY <1>1, <1>4, <1>7, GoesOnInv DEF Awaits
  <1>8. CASE Goto(w, "releasing") /\ Fault
    BY <1>1, <1>4, <1>8, GoesOnInv DEF Awaits
  <1>9. ASSUME NEW c \in Classes, mem' = [mem EXCEPT ![w].class = c],
               pc' = [pc EXCEPT ![w] = "retrying"], NoFault
        PROVE  WInv'
    <2> DEFINE m == [mem[w] EXCEPT !.class = c]
    <2>1. /\ m \in Memory /\ m.lease = mem[w].lease /\ m.counts = mem[w].counts
          /\ m.reqid = mem[w].reqid
      BY <1>3 DEF Memory
    <2>2. mem' = [mem EXCEPT ![w] = m] BY <1>9
    <2> HIDE DEF m
    <2>3. WTypeOK BY DEF WInv
    <2>4. /\ WTypeOK' /\ pc'[w] = "retrying" /\ mem'[w] = m
          /\ \A v \in Workers \ {w} : pc'[v] = pc[v] /\ mem'[v] = mem[v]
      BY <1>9, <2>1, <2>2, <2>3 DEF WTypeOK, NoFault, Awaits
    <2>5. L(w)' = L(w) BY <2>1, <2>4 DEF L
    <2>6. KeepsAll(w) /\ \A j \in Jobs : CountsOK(job'[j]) BY <1>4, ChangesKeep
    <2>7. Orderly(w)' => Orderly(w) BY <1>9, <2>4 DEF Orderly, NoFault
    <2> QED BY <1>1, <1>4, <1>9, <2>1, <2>4, <2>5, <2>6, <2>7, StaysInv DEF NoFault, Awaits
  <1> QED BY <1>6, <1>7, <1>8, <1>9 DEF HandlerEnds

LEMMA PublishResultInv ==
  ASSUME WInv, NEW w \in Workers, PublishResult(w)
  PROVE  WInv'
  <1>1. pc[w] = "publishing" /\ pc[w] \in Awaits BY DEF PublishResult, Awaits
  <1>2. PICK l \in leases : l = L(w) BY <1>1, BusyLease
  <1>3. /\ IInv /\ l.worker = w
        /\ Held(l) => Trusted(w, job[l.job])
    BY <1>1, <1>2, BusyLease
  <1>4. ASSUME NEW succ \in SUBSET Keys, Publish(l, succ),
               (Goto(w, "idle") /\ NoFault) \/ (Goto(w, "releasing") /\ Fault)
        PROVE  WInv'
    <2>1. IInv' BY <1>3, <1>4, PublishInv
    <2>2. Changes(w) /\ UNCHANGED leases /\ job'[l.job].state \notin LEASED_STATES
      BY <1>3, <1>4, PublishChanges
    <2>3. KeepsAll(w) /\ \A j \in Jobs : CountsOK(job'[j]) BY <2>2, ChangesKeep
    <2>4. ~Held(l)' /\ ~Live(w, l)' BY <2>2 DEF Live, Held
    <2>5. CASE Goto(w, "idle") /\ NoFault
      BY <1>1, <1>2, <2>1, <2>2, <2>3, <2>4, <2>5, DropsInv
    <2>6. CASE Goto(w, "releasing") /\ Fault
      BY <1>1, <2>1, <2>2, <2>6, GoesOnInv DEF Awaits
    <2> QED BY <1>4, <2>5, <2>6
  <1>5. CASE UNCHANGED vars
    <2>1. IInv' /\ Changes(w) /\ UNCHANGED <<leases, job>> BY <1>5, Untouched
    <2>2. KeepsAll(w) /\ \A j \in Jobs : CountsOK(job'[j]) BY <2>1, ChangesKeep
    <2>3. CASE Goto(w, "releasing") /\ Fault
      BY <1>1, <2>1, <2>3, GoesOnInv DEF Awaits
    <2>4. CASE ~LockActive(l) /\ Goto(w, "idle") /\ NoFault
      <3>1. ~Live(w, l) BY <1>1, <1>3, <2>4 DEF Live, Held, LockActive, Trusted
      <3>2. ~Live(w, l)' BY <1>3, <2>2, <3>1, LiveBefore
      <3> QED BY <1>1, <1>2, <2>1, <2>2, <2>4, <3>2, DropsInv
    <2>5. CASE Goto(w, "down") /\ Fault BY <2>1, <2>5, FaultyDropInv
    <2>6. \/ Goto(w, "releasing") /\ Fault
          \/ ~LockActive(l) /\ Goto(w, "idle") /\ NoFault
          \/ Goto(w, "down") /\ Fault
          \/ \E succ \in SUBSET Keys : Publish(l, succ) /\ ((Goto(w, "idle") /\ NoFault) \/ (Goto(w, "releasing") /\ Fault))
      BY <1>2 DEF PublishResult
    <2> QED BY <1>4, <2>3, <2>4, <2>5, <2>6
  <1> QED BY <1>2, <1>4, <1>5 DEF PublishResult

LEMMA WithdrawInv ==
  ASSUME WInv, NEW w \in Workers, Withdraw(w)
  PROVE  WInv'
  <1>1. /\ pc[w] = "publishing" /\ pc[w] \in Awaits /\ NoFault /\ Goto(w, "withdrawn")
    BY DEF Withdraw, Awaits
  <1>2. PICK l \in leases : l = L(w) BY <1>1, BusyLease
  <1>3. IInv /\ l.job \in Jobs BY <1>1, <1>2, BusyLease
  <1>4. CASE RequestCancel(l.job)
    <2>1. IInv' BY <1>3, <1>4, RequestCancelInv
    <2>2. /\ Changes(w) /\ UNCHANGED leases
          /\ job'[l.job].state \in LEASED_STATES => job'[l.job].cancel
      BY <1>3, <1>4, RequestCancelChanges
    <2>3. Held(l)' => job'[l.job].cancel BY <2>2 DEF Held
    <2> QED BY <1>1, <1>2, <2>1, <2>2, <2>3, GoesOnInv DEF Awaits
  <1>5. CASE job[l.job].state \notin ACTIVE /\ UNCHANGED vars
    <2>1. IInv' /\ Changes(w) /\ UNCHANGED <<leases, job>> BY <1>5, Untouched
    <2>2. ~Held(l) BY <1>5 DEF Held, ACTIVE
    <2> QED BY <1>1, <1>2, <2>1, <2>2, GoesOnInv DEF Awaits
  <1> QED BY <1>2, <1>4, <1>5 DEF Withdraw

(* A fenced update that ends the lease, or finds it ended. *)
Ends(l) == \/ Fail(l) \/ Release(l) \/ (Cancel(l) /\ job[l.job].cancel)
           \/ ~Held(l) /\ UNCHANGED vars

LEMMA EndsFacts ==
  ASSUME WInv, NEW w, NEW l \in leases, Ends(l)
  PROVE  /\ IInv' /\ KeepsAll(w) /\ UNCHANGED leases /\ ~Live(w, l)'
         /\ \A j \in Jobs : CountsOK(job'[j])
  <1>1. IInv BY DEF WInv
  <1>2. CASE Fail(l) \/ Release(l) \/ (Cancel(l) /\ job[l.job].cancel)
    <2>1. IInv' BY <1>1, <1>2, FailInv, ReleaseInv, CancelInv
    <2>2. Changes(w) /\ UNCHANGED leases /\ job'[l.job].state \notin LEASED_STATES
      BY <1>1, <1>2, EndingChanges
    <2>3. ~Live(w, l)' BY <2>2 DEF Live, Held
    <2> QED BY <2>1, <2>2, <2>3, ChangesKeep
  <1>3. CASE ~Held(l) /\ UNCHANGED vars
    <2>1. IInv' /\ Changes(w) /\ UNCHANGED <<leases, job>> BY <1>3, Untouched
    <2>2. KeepsAll(w) /\ \A j \in Jobs : CountsOK(job'[j]) BY <2>1, ChangesKeep
    <2>3. ~Live(w, l) BY <1>3 DEF Live
    <2>4. ~Live(w, l)' BY <1>1, <2>2, <2>3, LiveBefore
    <2> QED BY <2>1, <2>2, <2>4
  <1> QED BY <1>2, <1>3 DEF Ends

LEMMA EndsInv ==
  ASSUME WInv, NEW w \in Workers, pc[w] \in Awaits, NEW l \in leases, l = L(w),
         Goto(w, "idle"), NoFault, Ends(l)
  PROVE  WInv'
  BY EndsFacts, DropsInv

LEMMA AcknowledgeCancelInv ==
  ASSUME WInv, NEW w \in Workers, AcknowledgeCancel(w)
  PROVE  WInv'
  <1>1. pc[w] \in {"unstarted", "cancelling", "withdrawn"} /\ pc[w] \in Awaits
    BY DEF AcknowledgeCancel, Awaits
  <1>2. PICK l \in leases : l = L(w) BY <1>1, BusyLease
  <1>3. Held(l) => job[l.job].cancel BY <1>1, <1>2, BusyLease DEF Trusted
  <1>4. CASE /\ Cancel(l) \/ (~Held(l) /\ UNCHANGED vars)
             /\ Goto(w, "idle") /\ NoFault
    <2>1. Cancel(l) => job[l.job].cancel BY <1>3 DEF Cancel
    <2> QED BY <1>1, <1>2, <1>4, <2>1, EndsInv DEF Ends
  <1>5. CASE Goto(w, "releasing") /\ Fault /\ UNCHANGED vars
    <2>1. IInv' /\ Changes(w) /\ UNCHANGED <<leases, job>> BY <1>5, Untouched
    <2> QED BY <1>1, <1>5, <2>1, GoesOnInv DEF Awaits
  <1> QED BY <1>2, <1>4, <1>5 DEF AcknowledgeCancel, Try

LEMMA FailJobInv ==
  ASSUME WInv, NEW w \in Workers, FailJob(w)
  PROVE  WInv'
  <1>1. pc[w] \in Awaits BY DEF FailJob, Awaits
  <1>2. PICK l \in leases : l = L(w) BY <1>1, BusyLease
  <1> QED BY <1>1, <1>2, EndsInv DEF FailJob, Try, Ends

LEMMA ReleaseLeaseInv ==
  ASSUME WInv, NEW w \in Workers, ReleaseLease(w)
  PROVE  WInv'
  <1> DEFINE after == IF pc[w] = "stopping" THEN "stopped" ELSE "idle"
  <1>1. pc[w] \in {"releasing", "stopping"} /\ pc[w] \in Awaits BY DEF ReleaseLease, Awaits
  <1>2. PICK l \in leases : l = L(w) BY <1>1, BusyLease
  <1>3. faults \in Nat /\ (pc[w] = "stopping" => faults > 0) BY <1>1, BusyLease
  <1>4. CASE Ends(l) /\ Goto(w, after) /\ NoFault
    <2>1. CASE pc[w] = "releasing"
      <3>1. Goto(w, "idle") BY <1>4, <2>1
      <3> QED BY <1>1, <1>2, <1>4, <3>1, EndsInv
    <2>2. CASE pc[w] = "stopping"
      <3>1. Goto(w, "stopped") BY <1>4, <2>2
      <3>2. /\ IInv' /\ KeepsAll(w) /\ UNCHANGED leases /\ ~Live(w, l)'
            /\ \A j \in Jobs : CountsOK(job'[j])
        BY <1>4, EndsFacts
      <3>3. pc'[w] = "stopped" BY <1>4, <3>1, GotoFacts DEF Awaits
      <3>4. faults' > 0 /\ (Orderly(w)' => Orderly(w))
        BY <1>3, <1>4, <2>2, <3>3 DEF Orderly, NoFault
      <3> QED BY <1>2, <1>4, <3>1, <3>2, <3>4, LeavesInv
    <2> QED BY <1>1, <2>1, <2>2
  <1>5. CASE Goto(w, IF after = "idle" THEN "idle" ELSE "down") /\ Fault /\ UNCHANGED vars
    <2>1. IInv' /\ Changes(w) /\ UNCHANGED <<leases, job>> BY <1>5, Untouched
    <2>2. PICK n \in {"idle", "down"} : Goto(w, n) BY <1>5
    <2> QED BY <1>5, <2>1, <2>2, FaultyDropInv
  <1> QED BY <1>2, <1>4, <1>5 DEF ReleaseLease, Try, Ends

(* The counters a decision used are those of the row it updates. *)
LEMMA RetryJobInv ==
  ASSUME WInv, NEW w \in Workers, RetryJob(w)
  PROVE  WInv'
  <1>1. pc[w] \in Awaits /\ Goto(w, "idle") /\ NoFault BY DEF RetryJob, Awaits
  <1>2. PICK l \in leases : l = L(w) BY <1>1, BusyLease
  <1>3. /\ IInv /\ mem[w] \in Memory /\ l.job \in Jobs
        /\ Held(l) => Trusted(w, job[l.job])
    BY <1>1, <1>2, BusyLease
  <1>4. ASSUME Decide(w), NEW d \in 0..MaxDelay, Retry(l, mem[w].class, d)
        PROVE  WInv'
    <2> DEFINE c == mem[w].class
               r == job[l.job]
               p == ReturnedRow(r)
               q == [p EXCEPT !.wait = d, !.counts[c] = @ + 1]
    <2>1. c \in Classes BY <1>3 DEF Memory
    <2>2. IInv' BY <1>3, <1>4, <2>1, RetryInv
    <2>3. r \in JobRow /\ job \in [Jobs -> JobRow] BY <1>3, LeaseRow DEF IInv, TypeOK
    <2>4. /\ p \in JobRow /\ p.state = IF r.cancel THEN "cancelled" ELSE "queued"
          /\ p.counts = r.counts /\ p.reqid = r.reqid
      BY <2>3, ReturnedRowIs, ReturnedColumns
    <2>5. /\ job' = [job EXCEPT ![l.job] = q] /\ UNCHANGED leases
          /\ r.state \in LEASED_STATES /\ Held(l)
      BY <1>4 DEF Retry, Update, Held
    <2>6. /\ r.counts = mem[w].counts /\ (mem[w].reqid => r.reqid)
      BY <1>3, <2>5 DEF Trusted
    <2>7. r.counts[c] + 1 <= Cap[c] /\ (c = Unknown => r.reqid)
      BY <1>2, <1>4, <2>6 DEF Decide, Recorded
    <2>8. CountsOK(r) BY <1>3 DEF WInv
    <2> HIDE DEF c, r, p
    <2>9. /\ q.state = p.state /\ q.reqid = p.reqid
          /\ \A e \in Classes : q.counts[e] = IF e = c THEN p.counts[e] + 1 ELSE p.counts[e]
      BY <2>1, <2>4 DEF JobRow
    <2> HIDE DEF q
    <2>10. CountsOK(q)
      <3>1. \A e \in Classes : q.counts[e] <= Cap[e]
        BY <2>4, <2>7, <2>8, <2>9 DEF CountsOK
      <3>2. q.counts[Unknown] > 0 => q.reqid
        BY <2>4, <2>5, <2>7, <2>8, <2>9, CapAssumption DEF CountsOK, ACTIVE
      <3> QED BY <3>1, <3>2 DEF CountsOK
    <2>11. q.state \notin LEASED_STATES BY <2>4, <2>9 DEF LEASED_STATES
    <2>12. \A j \in Jobs : job'[j] = IF j = l.job THEN q ELSE job[j] BY <2>3, <2>5
    <2>13. KeepsAll(w)
      <3>1. ASSUME NEW j \in Jobs PROVE Keeps(w, job[j], job'[j])
        <4>1. CASE j = l.job BY <2>11, <2>12, <4>1 DEF Keeps
        <4>2. CASE j # l.job
          <5>1. RowChange(w, job[j], job[j]) BY <2>3, SameRow
          <5> QED BY <2>12, <4>2, <5>1 DEF RowChange
        <4> QED BY <4>1, <4>2
      <3> QED BY <3>1 DEF KeepsAll
    <2>14. \A j \in Jobs : CountsOK(job'[j]) BY <2>10, <2>12 DEF WInv
    <2>15. ~Live(w, l)' BY <1>3, <2>11, <2>12 DEF Live, Held
    <2> QED BY <1>1, <1>2, <2>2, <2>5, <2>13, <2>14, <2>15, DropsInv
  <1>5. CASE Fail(l) \/ (~Held(l) /\ UNCHANGED vars)
    BY <1>1, <1>2, <1>5, EndsInv DEF Ends
  <1> QED BY <1>2, <1>4, <1>5 DEF RetryJob, Try

-----------------------------------------------------------------------------
(* Processes *)

LEMMA StopInv ==
  ASSUME WInv, NEW w \in Workers, Stop(w)
  PROVE  WInv'
  <1>1. Fault /\ UNCHANGED vars BY DEF Stop
  <1>2. IInv' /\ Changes(w) /\ UNCHANGED <<leases, job>> BY <1>1, Untouched
  <1>3. CASE pc[w] = "idle" /\ Goto(w, "stopped")
    <2>1. faults \in Nat BY DEF WInv, WTypeOK
    <2>2. pc'[w] = "stopped" BY <1>1, <1>3, GotoFacts DEF Awaits
    <2>3. faults' > 0 /\ (Orderly(w)' => Orderly(w)) BY <1>1, <2>1, <2>2 DEF Orderly, Fault
    <2>4. pc[w] \notin Awaits BY <1>3 DEF Awaits
    <2>5. KeepsAll(w) /\ \A j \in Jobs : CountsOK(job'[j]) BY <1>2, ChangesKeep
    <2> QED BY <1>1, <1>2, <1>3, <2>3, <2>4, <2>5, LeavesInv
  <1>4. CASE pc[w] \in Awaits \ {"stopping"} /\ Goto(w, "stopping")
    BY <1>1, <1>2, <1>4, GoesOnInv DEF Awaits
  <1> QED BY <1>3, <1>4 DEF Stop

LEMMA CrashInv ==
  ASSUME WInv, NEW w \in Workers, Crash(w)
  PROVE  WInv'
  <1>1. IInv' /\ Changes(w) /\ UNCHANGED <<leases, job>> BY Untouched DEF Crash
  <1> QED BY <1>1, FaultyDropInv DEF Crash

(* A restart follows a fault, so the run is no longer orderly for w. *)
LEMMA RestartInv ==
  ASSUME WInv, NEW w \in Workers, Restart(w)
  PROVE  WInv'
  <1>1. IInv' /\ Changes(w) /\ UNCHANGED <<leases, job>> BY Untouched DEF Restart
  <1>2. Goto(w, "idle") /\ NoFault /\ pc[w] \in {"stopped", "down"} BY DEF Restart
  <1>3. NothingForgotten(w) /\ faults \in Nat BY DEF WInv, WTypeOK
  <1>4. pc'[w] = "idle" BY <1>2, GotoFacts DEF Awaits
  <1>5. ~Orderly(w)' BY <1>2, <1>3, <1>4 DEF Orderly, NothingForgotten, NoFault
  <1>6. KeepsAll(w) /\ \A j \in Jobs : CountsOK(job'[j]) BY <1>1, ChangesKeep
  <1> QED BY <1>1, <1>2, <1>5, <1>6, LeavesInv

(* The claim's snapshot is the row it returned. *)
LEMMA PollInv ==
  ASSUME WInv, NEW w \in Workers, Poll(w)
  PROVE  WInv'
  <1>1. pc[w] = "idle" /\ NoFault /\ IInv BY DEF Poll, WInv
  <1>2. WTypeOK /\ faults' = faults /\ faults \in Nat BY <1>1 DEF WInv, WTypeOK, NoFault
  <1>3. ASSUME NEW lag \in 0..MaxLag, ClaimNothing(lag), UNCHANGED <<pc, mem>>
        PROVE  WInv'
    <2>1. IInv' BY <1>1, <1>3, ClaimNothingInv
    <2>2. Changes(NoWorker) /\ UNCHANGED leases
      BY <1>1, <1>3, ClaimNothingChanges DEF ClaimNothing
    <2>3. KeepsAll(NoWorker) /\ \A j \in Jobs : CountsOK(job'[j]) BY <2>2, ChangesKeep
    <2>4. WTypeOK' BY <1>2, <1>3 DEF WTypeOK
    <2> QED BY <1>2, <1>3, <2>1, <2>2, <2>3, <2>4, Combined, WorkerAssumption
  <1>4. ASSUME NEW lag \in 0..MaxLag, Claim(w, lag), NEW l \in leases' \ leases,
               mem' = [mem EXCEPT ![w] =
                 [lease |-> l, counts |-> job'[l.job].counts,
                  reqid |-> job'[l.job].reqid, class |-> Unknown]],
               pc' = [pc EXCEPT ![w] = "claimed"]
        PROVE  WInv'
    <2> DEFINE m == [lease |-> l, counts |-> job'[l.job].counts,
                     reqid |-> job'[l.job].reqid, class |-> Unknown]
    <2>1. IInv' BY <1>1, <1>4, ClaimInv
    <2>2. /\ Changes(w) /\ leases' = leases \cup {l} /\ l.worker = w
          /\ l.job \in Jobs /\ job'[l.job].state = "leased"
      BY <1>1, <1>4, ClaimChanges
    <2>3. KeepsAll(w) /\ \A j \in Jobs : CountsOK(job'[j]) BY <2>2, ChangesKeep
    <2>4. l \in Lease /\ job'[l.job] \in JobRow
      BY <2>1, <2>2 DEF IInv, TypeOK
    <2>5. m \in Memory BY <2>4, CapAssumption DEF Memory, JobRow
    <2>6. /\ m.lease = l /\ m.counts = job'[l.job].counts /\ m.reqid = job'[l.job].reqid
      OBVIOUS
    <2>7. mem' = [mem EXCEPT ![w] = m] BY <1>4
    <2> HIDE DEF m
    <2>8. /\ WTypeOK' /\ pc'[w] = "claimed" /\ mem'[w] = m
          /\ \A v \in Workers \ {w} : pc'[v] = pc[v] /\ mem'[v] = mem[v]
      BY <1>2, <1>4, <2>5, <2>7 DEF WTypeOK, Awaits
    <2>9. L(w)' = l BY <2>6, <2>8 DEF L
    <2>10. MemoryOK(w)'
      <3>1. Trusted(w, job[l.job])' BY <2>2, <2>6, <2>8 DEF Trusted
      <3> QED BY <2>2, <2>5, <2>8, <2>9, <3>1 DEF MemoryOK
    <2>11. NothingForgotten(w)'
      <3>1. ASSUME Orderly(w)', NEW k \in leases, Live(w, k)' PROVE FALSE
        <4>1. Orderly(w) BY <1>2, <2>8, <3>1 DEF Orderly
        <4>2. Live(w, k) BY <1>1, <2>3, <3>1, LiveBefore
        <4>3. NothingForgotten(w) BY DEF WInv
        <4> QED BY <1>1, <4>1, <4>2, <4>3 DEF NothingForgotten, Awaits
      <3> QED BY <2>2, <2>8, <2>9, <3>1 DEF NothingForgotten, Awaits
    <2> QED BY <1>2, <2>1, <2>2, <2>3, <2>8, <2>10, <2>11, Combined
  <1> QED BY <1>3, <1>4 DEF Poll

(* A transaction of no worker. *)
LEMMA OutsideInv ==
  ASSUME WInv, IInv', Changes(NoWorker), UNCHANGED <<leases, pc, mem>>,
         faults' = faults \/ faults' = faults + 1
  PROVE  WInv'
  <1>1. KeepsAll(NoWorker) /\ \A j \in Jobs : CountsOK(job'[j]) BY ChangesKeep
  <1>2. WTypeOK' BY DEF WInv, WTypeOK
  <1> QED BY <1>1, <1>2, Combined, WorkerAssumption

LEMMA ClockInv ==
  ASSUME WInv, Clock
  PROVE  WInv'
  <1>1. IInv /\ Tick BY DEF Clock, WInv
  <1>2. IInv' BY <1>1, TickInv
  <1>3. Changes(NoWorker) /\ UNCHANGED leases BY <1>1, TickChanges
  <1> QED BY <1>2, <1>3, OutsideInv DEF Clock, Fault, NoFault

LEMMA ApiInv ==
  ASSUME WInv, Api
  PROVE  WInv'
  <1>1. IInv BY DEF WInv
  <1>2. UNCHANGED <<pc, mem, faults>> BY DEF Api
  <1>3. ASSUME NEW k \in Keys, NEW o \in Owners, Enqueue(k, o) PROVE WInv'
    <2>1. IInv' BY <1>1, <1>3, EnqueueInv
    <2>2. Changes(NoWorker) /\ UNCHANGED leases BY <1>1, <1>3, EnqueueChanges DEF Enqueue
    <2> QED BY <1>2, <2>1, <2>2, OutsideInv
  <1>4. ASSUME NEW j \in Jobs, RequestCancel(j) \/ Delete(j) PROVE WInv'
    <2>1. IInv' BY <1>1, <1>4, RequestCancelInv, DeleteInv
    <2>2. Changes(NoWorker) /\ UNCHANGED leases
      BY <1>1, <1>4, RequestCancelChanges, DeleteChanges
    <2> QED BY <1>2, <2>1, <2>2, OutsideInv
  <1> QED BY <1>3, <1>4 DEF Api

LEMMA WInitInv == WInit => WInv
  <1> SUFFICES ASSUME WInit PROVE WInv OBVIOUS
  <1>1. IInv BY InitInv DEF WInit
  <1>2. WTypeOK BY DEF WInit, WTypeOK
  <1>3. ASSUME NEW w \in Workers PROVE MemoryOK(w) /\ NothingForgotten(w)
    BY DEF WInit, Init, MemoryOK, NothingForgotten, Awaits
  <1>4. ASSUME NEW j \in Jobs PROVE CountsOK(job[j])
    <2>1. \A c \in Classes : job[j].counts[c] = 0 BY DEF WInit, Init, Blank
    <2> QED BY <2>1, CapAssumption DEF CountsOK
  <1> QED BY <1>1, <1>2, <1>3, <1>4 DEF WInv

LEMMA WNextInv == WInv /\ [WNext]_wvars => WInv'
  <1> SUFFICES ASSUME WInv, [WNext]_wvars PROVE WInv' OBVIOUS
  <1>1. CASE UNCHANGED wvars
    <2>1. IInv' /\ Changes(NoWorker) /\ UNCHANGED <<leases, job>>
      BY <1>1, Untouched DEF wvars
    <2> QED BY <1>1, <2>1, OutsideInv DEF wvars
  <1>2. ASSUME NEW w \in Workers, Work(w) PROVE WInv'
    BY <1>2, PollInv, BeginInv, HandlerEndsInv, PublishResultInv, WithdrawInv,
       AcknowledgeCancelInv, FailJobInv, ReleaseLeaseInv, RetryJobInv DEF Work
  <1>3. ASSUME NEW w \in Workers, Beat(w) \/ RecordId(w) \/ Checkpoint(w) PROVE WInv'
    BY <1>3, BeatInv, RunningInv
  <1>4. ASSUME NEW w \in Workers, Stop(w) \/ Crash(w) \/ Restart(w) PROVE WInv'
    BY <1>4, StopInv, CrashInv, RestartInv
  <1> QED BY <1>1, <1>2, <1>3, <1>4, ClockInv, ApiInv DEF WNext

(* The inductive invariant holds in every reachable state. *)
THEOREM WorkerInvariance == WSafety => []WInv
  BY WInitInv, WNextInv, PTL DEF WSafety

-----------------------------------------------------------------------------
(* The transactions of the workers *)

(* What a step of the runtime may do to the tables: a cancellation is only *)
(* acknowledged when it was requested.                                     *)
Transaction ==
  \/ UNCHANGED vars
  \/ \E k \in Keys, o \in Owners : Enqueue(k, o)
  \/ \E w \in Workers, lag \in 0..MaxLag : Claim(w, lag)
  \/ \E lag \in 0..MaxLag : ClaimNothing(lag)
  \/ \E l \in leases :
       \/ Start(l)
       \/ \E lag \in 0..MaxLag : Heartbeat(l, lag)
       \/ \E succ \in SUBSET Keys : Publish(l, succ)
       \/ SaveStageData(l) \/ RecordRequestId(l) \/ Fail(l) \/ Release(l)
       \/ \E c \in Classes, d \in 0..MaxDelay : Retry(l, c, d)
       \/ Cancel(l) /\ job[l.job].cancel
  \/ \E j \in Jobs : RequestCancel(j) \/ Delete(j)
  \/ Tick

LEMMA WorkTransaction ==
  ASSUME WInv, NEW w \in Workers, Work(w) \/ Beat(w) \/ RecordId(w) \/ Checkpoint(w)
  PROVE  Transaction
  <1>1. CASE Poll(w) BY <1>1 DEF Poll, Transaction
  <1>2. CASE ~Poll(w)
    <2>1. pc[w] \in Awaits
      BY <1>2 DEF Work, Beat, RecordId, Checkpoint, Begin, HandlerEnds, PublishResult,
         Withdraw, AcknowledgeCancel, FailJob, ReleaseLease, RetryJob, Awaits
    <2>2. PICK l \in leases : l = L(w) BY <2>1, BusyLease
    <2>3. l.job \in Jobs /\ mem[w].class \in Classes
          /\ (Held(l) => Trusted(w, job[l.job]))
      BY <2>1, <2>2, BusyLease DEF Memory
    <2>4. CASE Begin(w) BY <2>2, <2>4 DEF Begin, Transaction
    <2>5. CASE HandlerEnds(w) BY <2>5 DEF HandlerEnds, Transaction
    <2>6. CASE PublishResult(w) BY <2>2, <2>6 DEF PublishResult, Transaction
    <2>7. CASE Withdraw(w) BY <2>2, <2>3, <2>7 DEF Withdraw, Transaction
    <2>8. CASE AcknowledgeCancel(w)
      <3>1. Cancel(l) => job[l.job].cancel
        BY <2>3, <2>8 DEF AcknowledgeCancel, Cancel, Trusted
      <3> QED BY <2>2, <2>8, <3>1 DEF AcknowledgeCancel, Try, Transaction
    <2>9. CASE FailJob(w) BY <2>2, <2>9 DEF FailJob, Try, Transaction
    <2>10. CASE ReleaseLease(w) BY <2>2, <2>10 DEF ReleaseLease, Try, Transaction
    <2>11. CASE RetryJob(w) BY <2>2, <2>3, <2>11 DEF RetryJob, Try, Transaction
    <2>12. CASE Beat(w) BY <2>2, <2>12 DEF Beat, Transaction
    <2>13. CASE RecordId(w) \/ Checkpoint(w)
      BY <2>2, <2>13 DEF RecordId, Checkpoint, Transaction
    <2> QED BY <1>2, <2>4, <2>5, <2>6, <2>7, <2>8, <2>9, <2>10, <2>11, <2>12, <2>13 DEF Work
  <1> QED BY <1>1, <1>2

LEMMA StepTransaction == WInv /\ [WNext]_wvars => Transaction
  <1> SUFFICES ASSUME WInv, [WNext]_wvars PROVE Transaction OBVIOUS
  <1>1. CASE UNCHANGED wvars BY <1>1 DEF wvars, Transaction
  <1>2. ASSUME NEW w \in Workers, Stop(w) \/ Crash(w) \/ Restart(w) PROVE Transaction
    BY <1>2 DEF Stop, Crash, Restart, Transaction
  <1>3. CASE Clock BY <1>3 DEF Clock, Transaction
  <1>4. CASE Api BY <1>4 DEF Api, Transaction
  <1> QED BY <1>1, <1>2, <1>3, <1>4, WorkTransaction DEF WNext

LEMMA TransactionIsNext == Transaction => [Next]_vars
  BY DEF Transaction, Next, LeaseStep

LEMMA TransactionAsks ==
  ASSUME IInv, Transaction, NEW j \in Jobs
  PROVE  Asked(job[j], job'[j])
  <1>1. ASSUME NEW w, Changes(w) PROVE Asked(job[j], job'[j])
    BY <1>1 DEF Changes, RowChange
  <1>2. CASE UNCHANGED vars BY <1>2 DEF vars, Asked, LEASED_STATES
  <1>3. ASSUME NEW l \in leases, NEW c \in Classes, NEW d \in 0..MaxDelay, Retry(l, c, d)
        PROVE  Asked(job[j], job'[j])
    <2> DEFINE r == job[l.job]
               p == ReturnedRow(r)
               q == [p EXCEPT !.wait = d, !.counts[c] = @ + 1]
    <2>1. r \in JobRow /\ l.job \in Jobs /\ job \in [Jobs -> JobRow] BY LeaseRow DEF IInv, TypeOK
    <2>2. p \in JobRow /\ p.state = IF r.cancel THEN "cancelled" ELSE "queued"
      BY <2>1, ReturnedRowIs
    <2>3. job' = [job EXCEPT ![l.job] = q] BY <1>3 DEF Retry, Update
    <2> HIDE DEF p
    <2>4. q.state = p.state BY <2>2 DEF JobRow
    <2> HIDE DEF q
    <2>5. job'[j] = IF j = l.job THEN q ELSE job[j] BY <2>1, <2>3
    <2> QED BY <2>2, <2>4, <2>5 DEF Asked, LEASED_STATES
  <1>4. CASE \E k \in Keys, o \in Owners : Enqueue(k, o)
    BY <1>1, <1>4, EnqueueChanges
  <1>5. CASE \/ \E w \in Workers, lag \in 0..MaxLag : Claim(w, lag)
             \/ \E lag \in 0..MaxLag : ClaimNothing(lag)
    BY <1>1, <1>5, ClaimChanges, ClaimNothingChanges
  <1>6. ASSUME NEW l \in leases,
               \/ Start(l)
               \/ \E lag \in 0..MaxLag : Heartbeat(l, lag)
               \/ \E succ \in SUBSET Keys : Publish(l, succ)
               \/ SaveStageData(l) \/ RecordRequestId(l) \/ Fail(l) \/ Release(l)
               \/ Cancel(l) /\ job[l.job].cancel
        PROVE  Asked(job[j], job'[j])
    <2>1. Changes(l.worker)
      BY <1>6, StartChanges, HeartbeatChanges, PublishChanges, RecordingChanges, EndingChanges
    <2> QED BY <1>1, <2>1
  <1>7. CASE \E i \in Jobs : RequestCancel(i) \/ Delete(i)
    BY <1>1, <1>7, RequestCancelChanges, DeleteChanges
  <1>8. CASE Tick BY <1>1, <1>8, TickChanges
  <1> QED BY <1>2, <1>3, <1>4, <1>5, <1>6, <1>7, <1>8 DEF Transaction

-----------------------------------------------------------------------------
(* Theorems *)

(* No schedule of workers, faults and requests requeues a job more often   *)
(* than cap() allows, or repeats a provider call of unknown outcome        *)
(* without the request id that lets the next attempt reconcile.            *)
THEOREM RetriesAreSafe == WSpec => []RetriesSafe
  <1>1. WInv => RetriesSafe
    BY DEF WInv, CountsOK, RetriesSafe, RetryCapRespected, UnknownOutcomeReconciles
  <1>2. WSpec => WSafety BY DEF WSpec
  <1> QED BY <1>1, <1>2, WorkerInvariance, PTL

(* A worker whose shutdown is the only fault leaves no lease behind that   *)
(* could still publish.                                                    *)
THEOREM ShutdownHoldsNothing == WSpec => []StoppedHoldsNothing
  <1>1. WInv => StoppedHoldsNothing
    <2> SUFFICES ASSUME WInv, NEW w \in Workers, pc[w] = "stopped", faults = 1,
                        NEW l \in leases, l.worker = w, Held(l), Unexpired(l.job),
                        ~job[l.job].cancel
                 PROVE  FALSE
      BY DEF StoppedHoldsNothing
    <2>1. Orderly(w) /\ Live(w, l) /\ NothingForgotten(w) BY DEF Orderly, Live, WInv
    <2> QED BY <2>1 DEF NothingForgotten, Awaits
  <1>2. WSpec => WSafety BY DEF WSpec
  <1> QED BY <1>1, <1>2, WorkerInvariance, PTL

(* A worker makes a cancellation effective only if somebody requested it,  *)
(* although start() and a withdrawn publication tell it the same of a lost *)
(* lease.                                                                  *)
THEOREM CancelsOnlyOnRequest == WSpec => CancelOnlyOnRequest
  <1> DEFINE A == \A j \in Jobs : job[j].state \in LEASED_STATES /\ job'[j].state = "cancelled"
                                    => job[j].cancel
  <1>1. WInv /\ [WNext]_wvars => A
    BY StepTransaction, TransactionAsks DEF WInv, Asked
  <1>2. CancelOnlyOnRequest <=> [][A]_wvars BY DEF CancelOnlyOnRequest
  <1>3. WSpec => WSafety BY DEF WSpec
  <1> HIDE DEF A
  <1> QED BY <1>1, <1>2, <1>3, WorkerInvariance, PTL DEF WSafety

(* The runtime only ever performs transactions of the queue, with leases   *)
(* the queue granted: whatever the queue guarantees holds under it.        *)
THEOREM WorkersUseTheQueue == WSpec => Spec
  <1>1. WInv /\ [WNext]_wvars => [Next]_vars BY StepTransaction, TransactionIsNext
  <1>2. WInit => Init BY DEF WInit
  <1>3. WSpec => WSafety BY DEF WSpec
  <1> QED BY <1>1, <1>2, <1>3, WorkerInvariance, PTL DEF WSafety, Spec

-----------------------------------------------------------------------------
(***************************************************************************)
(* Owners and routes: what the cancel route answers is true of the whole   *)
(* request, and a deletion fences the retry of its upload.                 *)
(***************************************************************************)

OpenStates == JobState \ {"published", "deleted"}

ServiceTyped ==
  /\ receipt \in [Jobs -> Outcome]
  /\ request \in Jobs \cup {NoJob}
  /\ cancelling \in [job : Jobs \cup {NoJob}, current : Jobs \cup {NoJob}]
  /\ cancelling.job = NoJob => cancelling = NoCancel
  /\ fence \in BOOLEAN

(* The request has one chain of jobs: the one it points at is the only one *)
(* that may still do something.  A cancel in progress has its row locked,  *)
(* so the job it read is still the current one.                            *)
RequestOK ==
  /\ request # NoJob => WorksForRequest(request)
  /\ \A i \in Jobs : WorksForRequest(i) /\ job[i].state \in OpenStates => i = request
  /\ (\E i \in Jobs : WorksForRequest(i)) => \E j \in Jobs : KeyOf(j) = ReanalysisKey
  /\ cancelling.job # NoJob =>
       cancelling.current = IF WorksForRequest(cancelling.job) THEN request ELSE NoJob

(* A job that was never enqueued has no key and no receipt, and nobody     *)
(* cancels it.                                                             *)
UnusedIds ==
  \A i \in Jobs : job[i].state = "absent" =>
    KeyOf(i) = NoKey /\ receipt[i] = "none" /\ cancelling.job # i

(* A deletion from the upload leaves its fence behind for good. *)
FenceKept ==
  \A i \in Jobs : KeyOf(i) \in UploadKeys /\ job[i].state \in {"deleted", "gone"} => fence

(* The inductive invariant. *)
SInv == IInv /\ ServiceTyped /\ RequestOK /\ UnusedIds /\ FenceKept /\ CancelAnswersTrue

-----------------------------------------------------------------------------
(* What a step may do to a row without disturbing the request or the fence *)

(* The work of the row is not taken up again, and no result appears. *)
Quiet(r, q) ==
  /\ q.key = r.key
  /\ q.state \in ACTIVE => r.state \in ACTIVE /\ (r.cancel => q.cancel)
  /\ q.state = "published" => r.state = "published"
  /\ q.state \in OpenStates => r.state \in OpenStates
  /\ q.state = "absent" => r.state = "absent"

(* The row is none of the request's. *)
Away(r, q) ==
  /\ r.key \notin EvidenceKeys /\ q.key \notin EvidenceKeys
  /\ q.state = "absent" => r.state = "absent" /\ q.key = r.key

(* The row is not erased. *)
Spared(r, q) == q.state \in {"deleted", "gone"} => q.key = r.key /\ r.state \in {"deleted", "gone"}

Still == \A i \in Jobs : Quiet(job[i], job'[i]) \/ Away(job[i], job'[i])

AllSpared == \A i \in Jobs : Spared(job[i], job'[i])

LEMMA SameRowQuiet ==
  ASSUME NEW r
  PROVE  Quiet(r, r) /\ Spared(r, r)
  BY DEF Quiet, Spared

LEMMA OneQuietRow ==
  ASSUME IInv, NEW j \in Jobs, NEW q, job' = [job EXCEPT ![j] = q],
         Quiet(job[j], q) \/ Away(job[j], q)
  PROVE  Still /\ (Spared(job[j], q) => AllSpared)
  <1>1. \A i \in Jobs : job'[i] = IF i = j THEN q ELSE job[i] BY DEF IInv, TypeOK
  <1> QED BY <1>1, SameRowQuiet DEF Still, AllSpared

LEMMA NothingMoves ==
  ASSUME UNCHANGED job
  PROVE  Still /\ AllSpared
  BY SameRowQuiet DEF Still, AllSpared

(* What an accepted and what a refused cancellation say. *)
Stopped ==
  /\ \A i \in Jobs : WorksForRequest(i) /\ job[i].state \in ACTIVE => job[i].cancel
  /\ request # NoJob => job[request].state # "published"

Done == \A i \in Jobs : WorksForRequest(i) => job[i].state \notin ACTIVE

LEMMA Answers ==
  CancelAnswersTrue <=>
    \A j \in Jobs : WorksForRequest(j) =>
      /\ receipt[j] \in {"effective", "requested"} => Stopped
      /\ receipt[j] = "not_cancellable" => Done
  BY DEF CancelAnswersTrue, AcceptedCancelStops, RefusedCancelIsOver, Stopped, Done

(* In a quiet step a row of the request was one before. *)
LEMMA StillRows ==
  ASSUME Still, NEW i \in Jobs
  PROVE  /\ WorksForRequest(i)' <=> WorksForRequest(i)
         /\ WorksForRequest(i) => Quiet(job[i], job'[i])
         /\ job'[i].state = "absent" => job[i].state = "absent" /\ job'[i].key = job[i].key
  BY DEF Still, Quiet, Away, WorksForRequest, KeyOf

LEMMA AnswersStay ==
  ASSUME SInv, Still, request' \in {request, NoJob},
         \A j \in Jobs : \/ receipt'[j] \in {receipt[j], "none"}
                         \/ WorksForRequest(j) =>
                              /\ receipt'[j] \in {"effective", "requested"} => Stopped'
                              /\ receipt'[j] = "not_cancellable" => Done'
  PROVE  CancelAnswersTrue'
  <1>1. Stopped => Stopped'
    <2> SUFFICES ASSUME Stopped PROVE Stopped'
      OBVIOUS
    <2>1. ASSUME NEW i \in Jobs, WorksForRequest(i)', job'[i].state \in ACTIVE PROVE job'[i].cancel
      <3>1. WorksForRequest(i) /\ Quiet(job[i], job'[i]) BY <2>1, StillRows
      <3> QED BY <2>1, <3>1 DEF Stopped, Quiet
    <2>2. ASSUME request' # NoJob PROVE job'[request'].state # "published"
      <3>1. request' = request /\ request \in Jobs /\ WorksForRequest(request)
        BY <2>2 DEF SInv, RequestOK, ServiceTyped
      <3>2. Quiet(job[request], job'[request]) BY <3>1, StillRows
      <3> QED BY <2>2, <3>1, <3>2 DEF Stopped, Quiet
    <2> QED BY <2>1, <2>2 DEF Stopped
  <1>2. Done => Done' BY StillRows DEF Done, Quiet
  <1>3. ASSUME NEW j \in Jobs, WorksForRequest(j)'
        PROVE  /\ receipt'[j] \in {"effective", "requested"} => Stopped'
               /\ receipt'[j] = "not_cancellable" => Done'
    <2>1. WorksForRequest(j) BY <1>3, StillRows
    <2>2. CASE receipt'[j] \in {receipt[j], "none"}
      BY <1>1, <1>2, <2>1, <2>2, Answers DEF SInv
    <2> QED BY <2>1, <2>2
  <1> QED BY <1>3, Answers DEF CancelAnswersTrue, AcceptedCancelStops, RefusedCancelIsOver, Stopped, Done

LEMMA RequestStays ==
  ASSUME SInv, Still, ServiceTyped', UNCHANGED request,
         cancelling' = NoCancel \/ cancelling' = cancelling
  PROVE  RequestOK'
  <1> USE DEF SInv
  <1>1. ASSUME request' # NoJob PROVE job'[request'].key \in EvidenceKeys
    <2>1. request' = request /\ request \in Jobs /\ WorksForRequest(request)
      BY <1>1 DEF RequestOK, ServiceTyped
    <2> QED BY <2>1, StillRows DEF Quiet, WorksForRequest, KeyOf
  <1>2. ASSUME NEW i \in Jobs, WorksForRequest(i)', job'[i].state \in OpenStates PROVE i = request'
    BY <1>2, StillRows DEF RequestOK, Quiet
  <1>3. ASSUME NEW i \in Jobs, WorksForRequest(i)' PROVE \E j \in Jobs : job'[j].key = ReanalysisKey
    <2>1. PICK j \in Jobs : job[j].key = ReanalysisKey BY <1>3, StillRows DEF RequestOK, KeyOf
    <2>2. WorksForRequest(j) BY <2>1, ServiceAssumption DEF WorksForRequest, KeyOf
    <2>3. job'[j].key = job[j].key BY <2>2, StillRows DEF Quiet
    <2> QED BY <2>1, <2>3
  <1>4. ASSUME cancelling'.job # NoJob
        PROVE  cancelling'.current = IF job'[cancelling'.job].key \in EvidenceKeys THEN request' ELSE NoJob
    <2>1. cancelling' = cancelling /\ cancelling.job \in Jobs
      BY <1>4 DEF NoCancel, ServiceTyped
    <2>2. job'[cancelling.job].key \in EvidenceKeys <=> WorksForRequest(cancelling.job)
      BY <2>1, StillRows DEF WorksForRequest, KeyOf
    <2> QED BY <1>4, <2>1, <2>2 DEF RequestOK, WorksForRequest, KeyOf
  <1>5. \A i \in Jobs : (job'[i].key \in EvidenceKeys) /\ job'[i].state \in OpenStates => i = request'
    BY <1>2 DEF WorksForRequest, KeyOf
  <1>6. (\E i \in Jobs : job'[i].key \in EvidenceKeys) => \E j \in Jobs : job'[j].key = ReanalysisKey
    BY <1>3 DEF WorksForRequest, KeyOf
  <1> QED BY <1>1, <1>4, <1>5, <1>6 DEF RequestOK, KeyOf, WorksForRequest

(* A quiet step of the queue keeps the whole invariant. *)
LEMMA QuietHolds ==
  ASSUME SInv, IInv', Still, AllSpared, UNCHANGED <<receipt, request, cancelling, fence>>
  PROVE  SInv'
  <1>1. ServiceTyped' BY DEF SInv, ServiceTyped
  <1>2. RequestOK' BY <1>1, RequestStays
  <1>3. CancelAnswersTrue' BY AnswersStay
  <1>4. UnusedIds' BY StillRows DEF SInv, UnusedIds, KeyOf
  <1>5. FenceKept' BY DEF SInv, FenceKept, AllSpared, Spared, KeyOf
  <1> QED BY <1>1, <1>2, <1>3, <1>4, <1>5 DEF SInv

-----------------------------------------------------------------------------
(* The steps of the queue are quiet *)

LEMMA ClaimQuiet ==
  ASSUME IInv, NEW w \in Workers, Claim(w, 0)
  PROVE  Still /\ AllSpared
  <1>0. 0 \in 0..MaxLag BY TimeAssumption
  <1> DEFINE rows == Swept(0)
  <1>1. PICK j \in Jobs :
          rows[j].state = "queued" /\ job' = [rows EXCEPT ![j] = LeasedRow(rows[j], w, 0)]
    BY DEF Claim
  <1>2. rows \in [Jobs -> JobRow] BY <1>0, SweptOK
  <1>3. ASSUME NEW i \in Jobs PROVE Quiet(job[i], rows[i]) /\ Spared(job[i], rows[i])
    <2>1. job[i] \in JobRow BY DEF IInv, TypeOK
    <2>2. CASE job[i].state \in LEASED_STATES /\ job[i].ttl + 0 < 0
      <3> DEFINE q == ReturnedRow(job[i])
      <3>1. rows[i] = q BY <2>2 DEF Swept
      <3>2. /\ q.state = (IF job[i].cancel THEN "cancelled" ELSE "queued")
            /\ q.cancel = job[i].cancel /\ q.key = job[i].key
        BY <2>1, ReturnedRowIs, ReturnedKeeps
      <3> HIDE DEF q
      <3> QED BY <2>2, <3>1, <3>2
            DEF Quiet, Spared, ACTIVE, LEASED_STATES, OpenStates, JobState
    <2>3. CASE ~(job[i].state \in LEASED_STATES /\ job[i].ttl + 0 < 0)
      BY <2>3, SameRowQuiet DEF Swept
    <2> QED BY <2>2, <2>3
  <1> HIDE DEF rows
  <1> DEFINE q == LeasedRow(rows[j], w, 0)
  <1>4. q.state = "leased" /\ q.cancel = rows[j].cancel /\ q.key = rows[j].key
    BY <1>0, <1>2, LeasedRowIs, LeasedKeeps
  <1>5. \A i \in Jobs : job'[i] = IF i = j THEN q ELSE rows[i] BY <1>1, <1>2
  <1> HIDE DEF q
  <1>6. Quiet(job[j], q) /\ Spared(job[j], q)
    <2>1. Quiet(job[j], rows[j]) BY <1>3
    <2> QED BY <1>1, <1>4, <2>1 DEF Quiet, Spared, ACTIVE, LEASED_STATES, OpenStates, JobState
  <1> QED BY <1>3, <1>5, <1>6 DEF Still, AllSpared

LEMMA LeaseQuiet ==
  ASSUME IInv, NEW l \in leases, Start(l) \/ Cancel(l) \/ Fail(l)
  PROVE  Still /\ AllSpared
  <1> DEFINE r == job[l.job]
  <1>1. r \in JobRow /\ l.job \in Jobs BY LeaseRow
  <1>2. r.state \in LEASED_STATES BY DEF Start, Cancel, Fail, Held, LEASED_STATES
  <1>3. PICK q \in {[r EXCEPT !.state = "running"], CancelledRow(r),
                    Cleared([r EXCEPT !.state = "failed"])} :
          job' = [job EXCEPT ![l.job] = q]
    BY DEF Start, Cancel, Fail, Update
  <1>4. q.state \in {"running", "cancelled", "failed"} /\ q.key = r.key
        /\ (q.state = "running" => q.cancel = r.cancel)
    <2>1. CASE q = [r EXCEPT !.state = "running"] BY <1>1, <2>1 DEF JobRow
    <2>2. CASE q = CancelledRow(r) BY <1>1, <2>2, CancelledRowIs, CancelledKeeps
    <2>3. CASE q = Cleared([r EXCEPT !.state = "failed"])
      BY <1>1, <2>3, FinishedRowIs, FinishedKeeps
    <2> QED BY <1>3, <2>1, <2>2, <2>3
  <1>5. Quiet(r, q) /\ Spared(r, q)
    BY <1>2, <1>4 DEF Quiet, Spared, ACTIVE, LEASED_STATES, OpenStates, JobState
  <1> QED BY <1>1, <1>3, <1>5, OneQuietRow

LEMMA TickQuiet ==
  ASSUME IInv, Tick
  PROVE  Still /\ AllSpared
  <1>1. ASSUME NEW i \in Jobs
        PROVE  /\ job'[i].key = job[i].key /\ job'[i].state = job[i].state
               /\ job'[i].cancel = job[i].cancel
    <2>1. job[i] \in JobRow BY DEF IInv, TypeOK
    <2> QED BY <2>1 DEF Tick, JobRow
  <1> QED BY <1>1 DEF Still, AllSpared, Quiet, Spared

(* What request_cancel() leaves: a cancelled or a flagged job. *)
LEMMA TryCancelQuiet ==
  ASSUME IInv, NEW j \in Jobs, TryCancel(j)
  PROVE  /\ Still /\ AllSpared /\ IInv'
         /\ job'[j].state \in ACTIVE => job'[j].cancel
         /\ job[j].state \notin ACTIVE => job' = job
         /\ job[j].state \in ACTIVE => job'[j].state # "published"
         /\ \A i \in Jobs \ {j} : job'[i] = job[i]
  <1>0. job \in [Jobs -> JobRow] BY DEF IInv, TypeOK
  <1>1. CASE job[j].state = "queued" /\ Update(j, CancelledRow(job[j])) /\ RequestCancel(j)
    <2> DEFINE q == CancelledRow(job[j])
    <2>1. q.state = "cancelled" /\ q.cancel /\ q.key = job[j].key
      BY <1>0, CancelledRowIs, CancelledKeeps
    <2>2. job' = [job EXCEPT ![j] = q] BY <1>1 DEF Update
    <2> HIDE DEF q
    <2>3. Quiet(job[j], q) /\ Spared(job[j], q)
      BY <1>1, <2>1 DEF Quiet, Spared, ACTIVE, LEASED_STATES, OpenStates, JobState
    <2>4. Still /\ AllSpared BY <2>2, <2>3, OneQuietRow
    <2>5. job'[j] = q /\ \A i \in Jobs \ {j} : job'[i] = job[i] BY <1>0, <2>2
    <2>6. IInv' BY <1>1, RequestCancelInv
    <2>7. job[j].state \in ACTIVE BY <1>1 DEF ACTIVE
    <2> QED BY <2>1, <2>4, <2>5, <2>6, <2>7
  <1>2. CASE /\ job[j].state \in LEASED_STATES /\ RequestCancel(j)
             /\ Update(j, [job[j] EXCEPT !.cancel = TRUE])
    <2> DEFINE q == [job[j] EXCEPT !.cancel = TRUE]
    <2>1. q.state = job[j].state /\ q.cancel /\ q.key = job[j].key BY <1>0 DEF JobRow
    <2>2. job' = [job EXCEPT ![j] = q] BY <1>2 DEF Update
    <2> HIDE DEF q
    <2>3. Quiet(job[j], q) /\ Spared(job[j], q)
      BY <2>1 DEF Quiet, Spared
    <2>4. Still /\ AllSpared BY <2>2, <2>3, OneQuietRow
    <2>5. job'[j] = q /\ \A i \in Jobs \ {j} : job'[i] = job[i] BY <1>0, <2>2
    <2>6. IInv' BY <1>2, RequestCancelInv
    <2>7. job[j].state \in ACTIVE /\ job[j].state # "published" BY <1>2 DEF ACTIVE, LEASED_STATES
    <2> QED BY <2>1, <2>4, <2>5, <2>6, <2>7
  <1>3. CASE job[j].state \notin ACTIVE /\ UNCHANGED vars
    <2>1. Still /\ AllSpared BY <1>3, NothingMoves DEF vars
    <2>2. IInv' BY <1>3, NextInv
    <2> QED BY <1>3, <2>1, <2>2 DEF vars
  <1> QED BY <1>1, <1>2, <1>3 DEF TryCancel, RequestCancel

(* New rows of other stages are none of the request's. *)
LEMMA InsertedAway ==
  ASSUME SInv, NEW ks \in SUBSET Keys, NEW ids \in FreshIds(ks), NEW o, NEW j \in Jobs
  PROVE  \/ Inserted(job, ids, o)[j] = job[j]
         \/ \E k \in ks : /\ ids[k] = j /\ Inserted(job, ids, o)[j] = NewRow(k, o)
                          /\ job[j].state = "absent" /\ KeyOf(j) \notin Keys
                          /\ NewRow(k, o).key = k /\ NewRow(k, o).state = "queued"
  <1>1. DOMAIN ids = ks /\ \A k \in ks : ids[k] \in Jobs /\ job[ids[k]].state = "absent"
    BY DEF FreshIds
  <1>2. CASE \E k \in DOMAIN ids : ids[k] = j
    <2> DEFINE k == CHOOSE x \in DOMAIN ids : ids[x] = j
    <2>1. k \in ks /\ ids[k] = j BY <1>1, <1>2
    <2>2. Inserted(job, ids, o)[j] = NewRow(k, o) BY <1>2 DEF Inserted
    <2>3. job[j].state = "absent" BY <1>1, <2>1
    <2>4. KeyOf(j) \notin Keys BY <2>3, KeyAssumption DEF SInv, UnusedIds
    <2> HIDE DEF k
    <2>5. NewRow(k, o).key = k /\ NewRow(k, o).state = "queued"
      BY DEF NewRow, Blank
    <2> QED BY <2>1, <2>2, <2>3, <2>4, <2>5
  <1>3. CASE ~\E k \in DOMAIN ids : ids[k] = j
    BY <1>3 DEF Inserted
  <1> QED BY <1>2, <1>3

-----------------------------------------------------------------------------
(* The steps of the service *)

LEMMA InitHolds == SInit => SInv
  <1> SUFFICES ASSUME SInit PROVE SInv OBVIOUS
  <1>1. IInv BY InitInv DEF SInit
  <1>2. \A i \in Jobs : job[i].key = NoKey /\ job[i].state = "absent"
    BY DEF SInit, Init, Blank
  <1>3. NoKey \notin EvidenceKeys /\ NoKey \notin UploadKeys
    BY KeyAssumption, ServiceAssumption
  <1>4. /\ receipt = [j \in Jobs |-> "none"] /\ request = NoJob /\ fence = FALSE
        /\ cancelling = NoCancel
    BY DEF SInit
  <1>5. ServiceTyped BY <1>4 DEF ServiceTyped, NoCancel, Outcome
  <1>6. RequestOK BY <1>2, <1>3, <1>4 DEF RequestOK, WorksForRequest, KeyOf, NoCancel
  <1>7. UnusedIds BY <1>2, <1>4, ServiceAssumption DEF UnusedIds, KeyOf, NoCancel
  <1>8. FenceKept BY <1>2, <1>3 DEF FenceKept, KeyOf
  <1>9. CancelAnswersTrue
    BY <1>2, <1>3 DEF CancelAnswersTrue, AcceptedCancelStops, RefusedCancelIsOver,
                      WorksForRequest, KeyOf
  <1> QED BY <1>1, <1>5, <1>6, <1>7, <1>8, <1>9 DEF SInv

LEMMA CompleteUploadHolds ==
  ASSUME SInv, NEW o \in Owners, CompleteUpload(o)
  PROVE  SInv'
  <1>1. IntakeKey \in Keys /\ IntakeKey \notin EvidenceKeys BY ServiceAssumption
  <1>2. PICK ids \in FreshIds({IntakeKey}) : job' = Inserted(job, ids, o)
    BY DEF CompleteUpload, Enqueue
  <1>3. IInv' BY <1>1, EnqueueInv DEF CompleteUpload, SInv
  <1>4. ASSUME NEW i \in Jobs
        PROVE  /\ Quiet(job[i], job'[i]) \/ Away(job[i], job'[i])
               /\ Spared(job[i], job'[i])
    <2>1. CASE job'[i] = job[i] BY <2>1, SameRowQuiet
    <2>2. CASE job'[i] # job[i]
      <3>1. /\ job'[i].key = IntakeKey /\ job'[i].state = "queued" /\ KeyOf(i) \notin Keys
        <4>1. {IntakeKey} \in SUBSET Keys BY <1>1
        <4>2. \/ Inserted(job, ids, o)[i] = job[i]
              \/ \E k \in {IntakeKey} :
                   /\ Inserted(job, ids, o)[i] = NewRow(k, o) /\ KeyOf(i) \notin Keys
                   /\ NewRow(k, o).key = k /\ NewRow(k, o).state = "queued"
            BY <1>2, <4>1, InsertedAway
        <4> QED BY <1>2, <2>2, <4>2
      <3> QED BY <1>1, <3>1, ServiceAssumption DEF Away, Spared, KeyOf
    <2> QED BY <2>1, <2>2
  <1> QED BY <1>3, <1>4, QuietHolds DEF Still, AllSpared, CompleteUpload, svars

(* What publish() does to the rows. *)
LEMMA PublishedRows ==
  ASSUME SInv, NEW l \in leases, NEW succ, KeyOf(l.job) \in Keys, Publish(l, succ)
  PROVE  /\ l.job \in Jobs /\ succ \subseteq Keys /\ succ \in Fanouts[KeyOf(l.job)]
         /\ IInv'
         /\ job[l.job].state = "running" /\ ~job[l.job].cancel
         /\ job'[l.job].state = "published" /\ job'[l.job].key = KeyOf(l.job)
         /\ \E ids \in FreshIds({k \in succ : ~KeyTaken(k)}) :
              \A i \in Jobs \ {l.job} :
                \/ job'[i] = job[i]
                \/ \E k \in {k \in succ : ~KeyTaken(k)} :
                     /\ ids[k] = i /\ job[i].state = "absent" /\ KeyOf(i) \notin Keys
                     /\ job'[i].key = k /\ job'[i].state = "queued"
  <1>0. IInv BY DEF SInv
  <1>1. l.job \in Jobs /\ job[l.job] \in JobRow BY <1>0, LeaseRow
  <1>2. job[l.job].state = "running" /\ ~job[l.job].cancel BY DEF Publish, LockActive
  <1>3. succ \in Fanouts[KeyOf(l.job)] BY DEF Publish, KeyOf
  <1>5. succ \in SUBSET Keys BY <1>3, KeyAssumption
  <1>6. IInv' BY <1>0, <1>5, PublishInv
  <1> DEFINE ks == {k \in succ : ~KeyTaken(k)}
             q == Cleared([job[l.job] EXCEPT !.state = "published"])
             o == job[l.job].owner
  <1>7. PICK ids \in FreshIds(ks) : job' = [Inserted(job, ids, o) EXCEPT ![l.job] = q]
    BY DEF Publish
  <1>8. q.state = "published" /\ q.key = KeyOf(l.job)
    BY <1>1, FinishedRowIs, FinishedKeeps DEF KeyOf
  <1>9. ks \in SUBSET Keys BY <1>5
  <1> HIDE DEF q, ks, o
  <1>10. job'[l.job] = q /\ \A i \in Jobs \ {l.job} : job'[i] = Inserted(job, ids, o)[i]
    BY <1>1, <1>7 DEF Inserted
  <1>11. ASSUME NEW i \in Jobs \ {l.job}
         PROVE  \/ job'[i] = job[i]
                \/ \E k \in ks :
                     /\ ids[k] = i /\ job[i].state = "absent" /\ KeyOf(i) \notin Keys
                     /\ job'[i].key = k /\ job'[i].state = "queued"
    <2>1. \/ Inserted(job, ids, o)[i] = job[i]
          \/ \E k \in ks :
               /\ ids[k] = i /\ Inserted(job, ids, o)[i] = NewRow(k, o)
               /\ job[i].state = "absent" /\ KeyOf(i) \notin Keys
               /\ NewRow(k, o).key = k /\ NewRow(k, o).state = "queued"
      BY <1>7, <1>9, InsertedAway
    <2> QED BY <1>10, <2>1
  <1> QED BY <1>1, <1>2, <1>3, <1>5, <1>6, <1>8, <1>10, <1>11 DEF ks

LEMMA PublishUploadHolds ==
  ASSUME SInv, NEW l \in leases, NEW succ, PublishUpload(l, succ)
  PROVE  SInv'
  <1>1. KeyOf(l.job) \in UploadKeys /\ Publish(l, succ) /\ UNCHANGED svars
    BY DEF PublishUpload
  <1>2. KeyOf(l.job) \in Keys /\ KeyOf(l.job) \notin EvidenceKeys
    BY <1>1, ServiceAssumption
  <1>3. /\ succ \in Fanouts[KeyOf(l.job)] /\ IInv'
        /\ job'[l.job].state = "published" /\ job'[l.job].key = KeyOf(l.job)
        /\ \E ids \in FreshIds({k \in succ : ~KeyTaken(k)}) :
             \A i \in Jobs \ {l.job} :
               \/ job'[i] = job[i]
               \/ \E k \in {k \in succ : ~KeyTaken(k)} :
                    /\ ids[k] = i /\ job[i].state = "absent" /\ KeyOf(i) \notin Keys
                    /\ job'[i].key = k /\ job'[i].state = "queued"
    BY <1>1, <1>2, PublishedRows
  <1>4. succ \cap EvidenceKeys = {} BY <1>1, <1>3, ServiceAssumption
  <1>5. ASSUME NEW i \in Jobs
        PROVE  /\ Quiet(job[i], job'[i]) \/ Away(job[i], job'[i])
               /\ Spared(job[i], job'[i])
    <2>1. CASE i = l.job
      BY <1>2, <1>3, <2>1 DEF Away, Spared, KeyOf
    <2>2. CASE i # l.job
      <3>1. job'[i] = job[i] \/ /\ KeyOf(i) \notin Keys /\ job'[i].key \in succ
                                /\ job'[i].state = "queued"
        BY <1>3, <2>2
      <3>2. CASE job'[i] = job[i] BY <3>2, SameRowQuiet
      <3>3. CASE /\ KeyOf(i) \notin Keys /\ job'[i].key \in succ
                 /\ job'[i].state = "queued"
        BY <1>4, <3>3, ServiceAssumption DEF Away, Spared, KeyOf
      <3> QED BY <3>1, <3>2, <3>3
    <2> QED BY <2>1, <2>2
  <1> QED BY <1>1, <1>3, <1>5, QuietHolds DEF Still, AllSpared, svars

(* A request is made once: before it no job works for it. *)
LEMMA RequestReanalysisHolds ==
  ASSUME SInv, NEW o \in Owners, RequestReanalysis(o)
  PROVE  SInv'
  <1>1. ReanalysisKey \in Keys /\ ReanalysisKey \in EvidenceKeys BY ServiceAssumption
  <1>2. PICK ids \in FreshIds({ReanalysisKey}) : job' = Inserted(job, ids, o)
    BY DEF RequestReanalysis, Enqueue
  <1>3. request' \in Jobs /\ job'[request'] # job[request'] BY DEF RequestReanalysis
  <1>4. UNCHANGED <<receipt, quota, cancelling, fence>> BY DEF RequestReanalysis
  <1>5. IInv' BY <1>1, EnqueueInv DEF RequestReanalysis, SInv
  <1>6. \A i \in Jobs : ~WorksForRequest(i)
    BY DEF RequestReanalysis, SInv, RequestOK
  <1>7. ASSUME NEW i \in Jobs
        PROVE  \/ job'[i] = job[i] /\ i # request'
               \/ /\ i = request' /\ job[i].state = "absent"
                  /\ job'[i].key = ReanalysisKey /\ job'[i].state = "queued"
    <2>1. {ReanalysisKey} \in SUBSET Keys BY <1>1
    <2>2. \A j \in Jobs :
            \/ Inserted(job, ids, o)[j] = job[j]
            \/ \E k \in {ReanalysisKey} :
                 /\ ids[k] = j /\ Inserted(job, ids, o)[j] = NewRow(k, o)
                 /\ job[j].state = "absent" /\ KeyOf(j) \notin Keys
                 /\ NewRow(k, o).key = k /\ NewRow(k, o).state = "queued"
      BY <1>2, <2>1, InsertedAway
    <2>3. \A j \in Jobs :
            \/ job'[j] = job[j]
            \/ /\ ids[ReanalysisKey] = j /\ job[j].state = "absent"
               /\ job'[j].key = ReanalysisKey /\ job'[j].state = "queued"
      BY <1>2, <2>2
    <2> QED BY <1>3, <2>3
  <1>8. ServiceTyped' BY <1>3, <1>4 DEF SInv, ServiceTyped
  <1>9. UnusedIds'
    <2>1. ASSUME NEW i \in Jobs, job'[i].state = "absent"
          PROVE  job'[i].key = NoKey /\ receipt[i] = "none" /\ cancelling.job # i
      BY <1>7, <2>1 DEF SInv, UnusedIds, KeyOf
    <2> QED BY <1>4, <2>1 DEF UnusedIds, KeyOf
  <1>10. FenceKept'
    BY <1>4, <1>7 DEF SInv, FenceKept, KeyOf
  <1>11. \A i \in Jobs : job'[i].key \in EvidenceKeys => i = request'
    BY <1>6, <1>7 DEF WorksForRequest, KeyOf
  <1>12. RequestOK'
    <2>1. cancelling.job # NoJob =>
            /\ job'[cancelling.job].key \notin EvidenceKeys
            /\ cancelling.current = NoJob
      BY <1>6, <1>7 DEF SInv, UnusedIds, RequestOK, ServiceTyped, WorksForRequest, KeyOf
    <2>2. job'[request'].key = ReanalysisKey BY <1>3, <1>7
    <2> QED BY <1>1, <1>3, <1>4, <1>11, <2>1, <2>2 DEF RequestOK, WorksForRequest, KeyOf
  <1>13. CancelAnswersTrue'
    <2>1. receipt'[request'] = "none" BY <1>3, <1>4, <1>7 DEF SInv, UnusedIds
    <2> QED BY <1>11, <2>1
          DEF CancelAnswersTrue, AcceptedCancelStops, RefusedCancelIsOver, WorksForRequest, KeyOf
  <1> QED BY <1>5, <1>8, <1>9, <1>10, <1>12, <1>13 DEF SInv

(* A step that publishes was not cancelled, so nobody was told it had      *)
(* stopped, and it still ran, so nobody was told it was over.              *)
LEMMA PublishEvidenceHolds ==
  ASSUME SInv, NEW l \in leases, NEW succ, PublishEvidence(l, succ)
  PROVE  SInv'
  <1>1. KeyOf(l.job) \in EvidenceKeys /\ Publish(l, succ) /\ ~RequestLocked
    BY DEF PublishEvidence
  <1>2. UNCHANGED <<receipt, quota, cancelling, fence>> BY DEF PublishEvidence
  <1>3. KeyOf(l.job) \in Keys BY <1>1, ServiceAssumption
  <1>4. /\ l.job \in Jobs /\ succ \in Fanouts[KeyOf(l.job)] /\ IInv'
        /\ job[l.job].state = "running" /\ ~job[l.job].cancel
        /\ job'[l.job].state = "published" /\ job'[l.job].key = KeyOf(l.job)
        /\ \E ids \in FreshIds({k \in succ : ~KeyTaken(k)}) :
             \A i \in Jobs \ {l.job} :
               \/ job'[i] = job[i]
               \/ \E k \in {k \in succ : ~KeyTaken(k)} :
                    /\ ids[k] = i /\ job[i].state = "absent" /\ KeyOf(i) \notin Keys
                    /\ job'[i].key = k /\ job'[i].state = "queued"
    BY <1>1, <1>3, PublishedRows
  <1>5. PICK ids : \A i \in Jobs \ {l.job} :
               \/ job'[i] = job[i]
               \/ \E k \in {k \in succ : ~KeyTaken(k)} :
                    /\ ids[k] = i /\ job[i].state = "absent" /\ KeyOf(i) \notin Keys
                    /\ job'[i].key = k /\ job'[i].state = "queued"
    BY <1>4
  <1>6. succ \subseteq EvidenceKeys /\ \A a, b \in succ : a = b
    BY <1>1, <1>4, ServiceAssumption
  <1>7. /\ l.job = request /\ request \in Jobs
        /\ \A i \in Jobs : WorksForRequest(i) => receipt[i] \notin {"effective", "requested", "not_cancellable"}
    <2>1. WorksForRequest(l.job) /\ job[l.job].state \in ACTIVE
      BY <1>1, <1>4 DEF WorksForRequest, ACTIVE, LEASED_STATES
    <2>2. job[l.job].state \in OpenStates BY <1>4 DEF OpenStates, JobState
    <2>3. l.job = request BY <1>4, <2>1, <2>2 DEF SInv, RequestOK
    <2>4. ~Stopped /\ ~Done BY <1>4, <2>1 DEF Stopped, Done
    <2> QED BY <1>4, <2>3, <2>4, Answers DEF SInv
  <1>8. \A i \in Jobs : job'[i].key \in EvidenceKeys =>
          \/ WorksForRequest(i)
          \/ job[i].state = "absent" /\ KeyOf(i) \notin Keys
    BY <1>4, <1>5 DEF WorksForRequest, KeyOf
  <1>9. \A i \in Jobs : job[i].state # "absent" /\ i # l.job => job'[i] = job[i]
    BY <1>5
  <1>10. request' \in Jobs /\ job'[request'].key \in EvidenceKeys
    <2>1. CASE succ = {}
      BY <1>1, <1>4, <1>7, <2>1 DEF PublishEvidence
    <2>2. CASE succ # {}
      <3>1. request' \in {j \in Jobs : job'[j].state \in JobState /\ job'[j].key \in succ}
        BY <2>2 DEF PublishEvidence
      <3> QED BY <1>6, <3>1
    <2> QED BY <2>1, <2>2
  <1>11. ServiceTyped' BY <1>2, <1>10 DEF SInv, ServiceTyped
  <1>12. UnusedIds'
    <2>1. ASSUME NEW i \in Jobs, job'[i].state = "absent"
          PROVE  job'[i].key = NoKey /\ receipt[i] = "none" /\ cancelling.job # i
      <3>1. job'[i] = job[i] BY <1>4, <1>5, <2>1
      <3> QED BY <2>1, <3>1 DEF SInv, UnusedIds, KeyOf
    <2> QED BY <1>2, <2>1 DEF UnusedIds, KeyOf
  <1>13. FenceKept'
    <2>1. ASSUME NEW i \in Jobs, job'[i].key \in UploadKeys, job'[i].state \in {"deleted", "gone"}
          PROVE  fence
      <3>1. job'[i] = job[i] BY <1>4, <1>5, <2>1
      <3> QED BY <2>1, <3>1 DEF SInv, FenceKept, KeyOf
    <2> QED BY <1>2, <2>1 DEF FenceKept, KeyOf
  <1>14. CancelAnswersTrue'
    <2>1. \A i \in Jobs : job'[i].key \in EvidenceKeys =>
            receipt'[i] \notin {"effective", "requested", "not_cancellable"}
      BY <1>2, <1>7, <1>8 DEF SInv, UnusedIds
    <2> QED BY <2>1
          DEF CancelAnswersTrue, AcceptedCancelStops, RefusedCancelIsOver, WorksForRequest, KeyOf
  <1>15. ASSUME NEW i \in Jobs, job'[i].key \in EvidenceKeys, job'[i].state \in OpenStates
         PROVE  i = request'
    <2>1. i # l.job BY <1>4, <1>15 DEF OpenStates
    <2>2. job'[i] # job[i]
      BY <1>7, <1>15, <2>1 DEF SInv, RequestOK, WorksForRequest, KeyOf
    <2>3. PICK k \in succ : ~KeyTaken(k) /\ ids[k] = i /\ job'[i].key = k
      BY <1>5, <2>1, <2>2
    <2>4. /\ request' \in Jobs /\ job'[request'].state \in JobState /\ job'[request'].key = k
      BY <1>6, <2>3 DEF PublishEvidence
    <2>5. request' # l.job
      <3>1. KeyOf(l.job) # k BY <1>4, <2>3 DEF KeyTaken, InTable, KeyOf, JobState
      <3> QED BY <1>4, <2>4, <3>1
    <2>6. job'[request'] # job[request']
      BY <2>3, <2>4 DEF KeyTaken, InTable
    <2> QED BY <1>5, <2>3, <2>4, <2>5, <2>6
  <1>16. \E j \in Jobs : job'[j].key = ReanalysisKey
    <2>1. PICK j \in Jobs : job[j].key = ReanalysisKey
      BY <1>1, <1>4 DEF SInv, RequestOK, WorksForRequest, KeyOf
    <2>2. KeyOf(j) \in Keys BY <2>1, ServiceAssumption DEF KeyOf
    <2>3. job'[j].key = job[j].key BY <1>4, <1>5, <2>2 DEF KeyOf
    <2> QED BY <2>1, <2>3
  <1>17. cancelling.job # NoJob =>
           job'[cancelling.job].key \notin EvidenceKeys /\ cancelling.current = NoJob
    <2> SUFFICES ASSUME cancelling.job # NoJob
                 PROVE  job'[cancelling.job].key \notin EvidenceKeys /\ cancelling.current = NoJob
      OBVIOUS
    <2>1. cancelling.job \in Jobs /\ ~WorksForRequest(cancelling.job)
      BY <1>1 DEF SInv, ServiceTyped, RequestLocked, WorksForRequest
    <2>2. job[cancelling.job].state # "absent" BY <2>1 DEF SInv, UnusedIds
    <2>3. job'[cancelling.job] = job[cancelling.job]
      BY <1>1, <1>9, <2>1, <2>2 DEF WorksForRequest
    <2> QED BY <2>1, <2>3 DEF SInv, RequestOK, WorksForRequest, KeyOf
  <1>18. RequestOK'
    BY <1>2, <1>10, <1>15, <1>16, <1>17 DEF RequestOK, WorksForRequest, KeyOf
  <1> QED BY <1>4, <1>11, <1>12, <1>13, <1>14, <1>18 DEF SInv

LEMMA CancelPeekHolds ==
  ASSUME SInv, NEW j \in Jobs, CancelPeek(j)
  PROVE  SInv'
  <1>1. UNCHANGED <<vars, receipt, quota, request, fence>> /\ job' = job
    BY DEF CancelPeek, vars
  <1>2. /\ cancelling'.job = j /\ job[j].state # "absent"
        /\ cancelling'.current = IF KeyOf(j) \in EvidenceKeys THEN request ELSE NoJob
        /\ cancelling' \in [job : Jobs \cup {NoJob}, current : Jobs \cup {NoJob}]
    BY DEF CancelPeek, InTable, JobState, SInv, ServiceTyped
  <1>3. IInv' BY <1>1, NextInv DEF SInv
  <1>4. ServiceTyped' BY <1>1, <1>2, ServiceAssumption DEF SInv, ServiceTyped
  <1>5. RequestOK' BY <1>1, <1>2 DEF SInv, RequestOK, WorksForRequest, KeyOf
  <1>6. UnusedIds' BY <1>1, <1>2 DEF SInv, UnusedIds, KeyOf
  <1>7. FenceKept' BY <1>1 DEF SInv, FenceKept, KeyOf
  <1>8. CancelAnswersTrue'
    BY <1>1 DEF SInv, CancelAnswersTrue, AcceptedCancelStops, RefusedCancelIsOver,
                WorksForRequest, KeyOf
  <1> QED BY <1>3, <1>4, <1>5, <1>6, <1>7, <1>8 DEF SInv

(* While the current job of the request is over, so is the request. *)
LEMMA CurrentIsOver ==
  ASSUME SInv, request # NoJob => job[request].state \notin ACTIVE
  PROVE  Done
  <1> SUFFICES ASSUME NEW i \in Jobs, WorksForRequest(i), job[i].state \in ACTIVE PROVE FALSE
    BY DEF Done
  <1>1. i = request BY DEF SInv, RequestOK, OpenStates, JobState, ACTIVE, LEASED_STATES
  <1> QED BY <1>1, ServiceAssumption

(* The end of a cancellation: an answer that is true of the jobs it leaves. *)
LEMMA AnswerHolds ==
  ASSUME SInv, Still, AllSpared, IInv', NEW j \in Jobs, NEW x \in Outcome,
         job[j].state # "absent", Answer(j, x), cancelling' = NoCancel,
         UNCHANGED <<quota, request, fence>>,
         \/ x = receipt[j]
         \/ WorksForRequest(j) =>
              /\ x \in {"effective", "requested"} => Stopped'
              /\ x = "not_cancellable" => Done'
  PROVE  SInv'
  <1>1. receipt' \in [Jobs -> Outcome] /\ receipt'[j] = x
        /\ \A i \in Jobs \ {j} : receipt'[i] = receipt[i]
    BY DEF Answer, SInv, ServiceTyped
  <1>2. ServiceTyped' BY <1>1 DEF SInv, ServiceTyped, NoCancel
  <1>3. RequestOK' BY <1>2, RequestStays
  <1>4. \A i \in Jobs : \/ receipt'[i] \in {receipt[i], "none"}
                        \/ WorksForRequest(i) =>
                             /\ receipt'[i] \in {"effective", "requested"} => Stopped'
                             /\ receipt'[i] = "not_cancellable" => Done'
    BY <1>1
  <1>5. CancelAnswersTrue' BY <1>4, AnswersStay
  <1>6. UnusedIds'
    <2>1. ASSUME NEW i \in Jobs, job'[i].state = "absent"
          PROVE  job'[i].key = NoKey /\ receipt'[i] = "none" /\ NoJob # i
      BY <1>1, <2>1, StillRows, ServiceAssumption DEF SInv, UnusedIds, KeyOf
    <2> QED BY <2>1 DEF UnusedIds, KeyOf, NoCancel
  <1>7. FenceKept' BY DEF SInv, FenceKept, AllSpared, Spared, KeyOf
  <1> QED BY <1>2, <1>3, <1>5, <1>6, <1>7 DEF SInv

(* request_cancel() of the job the request points at: what is answered is  *)
(* true of the request.                                                    *)
LEMMA CancelCurrent ==
  ASSUME SInv, NEW c \in Jobs, TryCancel(c), UNCHANGED request,
         job[c].state \in ACTIVE => c = request,
         job[c].state \notin ACTIVE => (request # NoJob => job[request].state \notin ACTIVE)
  PROVE  /\ RequestCancelOutcome(c) \in {"effective", "requested"} => Stopped'
         /\ RequestCancelOutcome(c) = "not_cancellable" => Done'
  <1>1. /\ Still /\ (job'[c].state \in ACTIVE => job'[c].cancel)
        /\ (job[c].state \notin ACTIVE => job' = job)
        /\ (job[c].state \in ACTIVE => job'[c].state # "published")
    BY TryCancelQuiet DEF SInv
  <1>2. CASE job[c].state \in ACTIVE
    <2>1. c = request BY <1>2
    <2>2. \A i \in Jobs : WorksForRequest(i)' /\ job'[i].state \in ACTIVE => i = c
      <3> SUFFICES ASSUME NEW i \in Jobs, WorksForRequest(i)', job'[i].state \in ACTIVE PROVE i = c
        OBVIOUS
      <3>1. WorksForRequest(i) /\ Quiet(job[i], job'[i]) BY <1>1, StillRows
      <3>2. job[i].state \in OpenStates
        BY <3>1 DEF Quiet, OpenStates, JobState, ACTIVE, LEASED_STATES
      <3> QED BY <2>1, <3>1, <3>2 DEF SInv, RequestOK
    <2>3. Stopped' BY <1>1, <1>2, <2>1, <2>2 DEF Stopped
    <2>4. RequestCancelOutcome(c) # "not_cancellable"
      BY <1>2 DEF RequestCancelOutcome, ACTIVE, LEASED_STATES
    <2> QED BY <2>3, <2>4
  <1>3. CASE job[c].state \notin ACTIVE
    <2>1. Done BY <1>3, CurrentIsOver
    <2>2. Done' BY <1>1, <1>3, <2>1 DEF Done, WorksForRequest, KeyOf
    <2>3. RequestCancelOutcome(c) = "not_cancellable"
      BY <1>3 DEF RequestCancelOutcome, ACTIVE, LEASED_STATES
    <2> QED BY <2>2, <2>3
  <1> QED BY <1>2, <1>3

(* A request whose current job is cancelled has stopped. *)
LEMMA CancelledStopped ==
  ASSUME SInv, request \in Jobs, job[request].state = "cancelled"
  PROVE  Stopped
  <1>1. Done BY CurrentIsOver DEF ACTIVE, LEASED_STATES
  <1> QED BY <1>1 DEF Done, Stopped

LEMMA OutcomeIs ==
  ASSUME NEW j
  PROVE  RequestCancelOutcome(j) \in Outcome \ {"none"}
  BY DEF RequestCancelOutcome, Outcome

LEMMA CancelFinishHolds ==
  ASSUME SInv, CancelFinish
  PROVE  SInv'
  <1> DEFINE j == cancelling.job
             current == cancelling.current
  <1>1. cancelling # NoCancel /\ cancelling' = NoCancel /\ UNCHANGED <<quota, request, fence>>
    BY DEF CancelFinish
  <1>2. j \in Jobs BY <1>1 DEF SInv, ServiceTyped
  <1>3. \/ UNCHANGED <<vars, receipt>>
        \/ /\ InTable(j) /\ job[j].state # "deleted"
           /\ \/ Answer(j, receipt[j]) /\ UNCHANGED vars
              \/ /\ job[j].state = "cancelled"
                 /\ Answer(j, "effective") /\ UNCHANGED vars
              \/ /\ current \notin {NoJob, j}
                 /\ \/ /\ job[current].state = "cancelled"
                       /\ Answer(j, "effective") /\ UNCHANGED vars
                    \/ Answer(j, RequestCancelOutcome(current)) /\ TryCancel(current)
              \/ /\ job[j].state # "cancelled"
                 /\ job[j].state = "published" => current \in {NoJob, j}
                 /\ Answer(j, RequestCancelOutcome(j)) /\ TryCancel(j)
    BY DEF CancelFinish
  <1>4. current = IF WorksForRequest(j) THEN request ELSE NoJob
    BY <1>2, ServiceAssumption DEF SInv, RequestOK
  <1>5. request \in Jobs \cup {NoJob} /\ receipt[j] \in Outcome BY <1>2 DEF SInv, ServiceTyped
  <1> HIDE DEF j, current
  <1>6. ASSUME UNCHANGED vars
        PROVE  /\ Still /\ AllSpared /\ IInv'
               /\ Stopped => Stopped'
    BY <1>1, <1>6, NothingMoves, NextInv
       DEF vars, SInv, Stopped, WorksForRequest, KeyOf
  <1>7. InTable(j) => job[j].state # "absent" BY DEF InTable, JobState
  <1>8. CASE UNCHANGED <<vars, receipt>>
    <2>1. Still /\ AllSpared /\ IInv' BY <1>6, <1>8
    <2>2. ServiceTyped' BY <1>1, <1>8 DEF SInv, ServiceTyped, NoCancel
    <2>3. RequestOK' BY <1>1, <2>1, <2>2, RequestStays
    <2>4. CancelAnswersTrue' BY <1>1, <1>8, <2>1, AnswersStay
    <2>5. UnusedIds'
      BY <1>1, <1>8, ServiceAssumption DEF vars, SInv, UnusedIds, KeyOf, NoCancel
    <2>6. FenceKept' BY <1>1, <1>8 DEF vars, SInv, FenceKept, KeyOf
    <2> QED BY <2>1, <2>2, <2>3, <2>4, <2>5, <2>6 DEF SInv
  <1>9. CASE InTable(j) /\ Answer(j, receipt[j]) /\ UNCHANGED vars
    BY <1>1, <1>2, <1>5, <1>6, <1>7, <1>9, AnswerHolds
  <1>10. CASE InTable(j) /\ job[j].state = "cancelled" /\ Answer(j, "effective") /\ UNCHANGED vars
    <2>1. WorksForRequest(j) => j = request
      BY <1>2, <1>10 DEF SInv, RequestOK, OpenStates, JobState
    <2>2. WorksForRequest(j) => Stopped' BY <1>2, <1>6, <1>10, <2>1, CancelledStopped
    <2>3. "effective" \in Outcome BY DEF Outcome
    <2> QED BY <1>1, <1>2, <1>6, <1>7, <1>10, <2>2, <2>3, AnswerHolds
  <1>11. CASE /\ InTable(j) /\ current \notin {NoJob, j} /\ job[current].state = "cancelled"
              /\ Answer(j, "effective") /\ UNCHANGED vars
    <2>1. current = request /\ request \in Jobs BY <1>4, <1>5, <1>11
    <2>2. Stopped' BY <1>6, <1>11, <2>1, CancelledStopped
    <2>3. "effective" \in Outcome BY DEF Outcome
    <2> QED BY <1>1, <1>2, <1>6, <1>7, <1>11, <2>2, <2>3, AnswerHolds
  <1>12. CASE /\ InTable(j) /\ current \notin {NoJob, j}
              /\ Answer(j, RequestCancelOutcome(current)) /\ TryCancel(current)
    <2>1. current = request /\ current \in Jobs BY <1>4, <1>5, <1>12
    <2>2. Still /\ AllSpared /\ IInv' BY <1>12, <2>1, TryCancelQuiet DEF SInv
    <2>3. /\ RequestCancelOutcome(current) \in {"effective", "requested"} => Stopped'
          /\ RequestCancelOutcome(current) = "not_cancellable" => Done'
      BY <1>1, <1>12, <2>1, CancelCurrent
    <2>4. RequestCancelOutcome(current) \in Outcome BY OutcomeIs
    <2> QED BY <1>1, <1>2, <1>7, <1>12, <2>2, <2>3, <2>4, AnswerHolds
  <1>13. CASE /\ InTable(j) /\ job[j].state \notin {"cancelled", "deleted"}
              /\ job[j].state = "published" => current \in {NoJob, j}
              /\ Answer(j, RequestCancelOutcome(j)) /\ TryCancel(j)
    <2>1. Still /\ AllSpared /\ IInv' BY <1>2, <1>13, TryCancelQuiet DEF SInv
    <2>2. WorksForRequest(j) /\ job[j].state # "published" => j = request
      BY <1>2, <1>13 DEF SInv, RequestOK, OpenStates, InTable
    <2>3. WorksForRequest(j) /\ job[j].state = "published" => request \in {NoJob, j}
      BY <1>4, <1>13
    <2>4. WorksForRequest(j) =>
            /\ RequestCancelOutcome(j) \in {"effective", "requested"} => Stopped'
            /\ RequestCancelOutcome(j) = "not_cancellable" => Done'
      <3> SUFFICES ASSUME WorksForRequest(j)
                   PROVE  /\ RequestCancelOutcome(j) \in {"effective", "requested"} => Stopped'
                          /\ RequestCancelOutcome(j) = "not_cancellable" => Done'
        OBVIOUS
      <3>1. job[j].state \in ACTIVE => j = request
        BY <2>2 DEF ACTIVE, LEASED_STATES
      <3>2. job[j].state \notin ACTIVE => (request # NoJob => job[request].state \notin ACTIVE)
        BY <2>2, <2>3
      <3> QED BY <1>1, <1>2, <1>13, <3>1, <3>2, CancelCurrent
    <2>5. RequestCancelOutcome(j) \in Outcome BY OutcomeIs
    <2> QED BY <1>1, <1>2, <1>7, <1>13, <2>1, <2>4, <2>5, AnswerHolds
  <1> QED BY <1>3, <1>8, <1>9, <1>10, <1>11, <1>12, <1>13
LEMMA DeleteJobHolds ==
  ASSUME SInv, NEW j \in Jobs, DeleteJob(j)
  PROVE  SInv'
  <1>1. /\ Delete(j) /\ fence' = (fence \/ KeyOf(j) \in UploadKeys)
        /\ UNCHANGED <<receipt, quota, request, cancelling>>
    BY DEF DeleteJob
  <1>2. IInv' BY <1>1, DeleteInv DEF SInv
  <1> DEFINE q == DeletedRow(job[j])
  <1>3. job[j] \in JobRow /\ job[j].state \in JobState \ {"deleted"}
    BY <1>1 DEF SInv, IInv, TypeOK, Delete, InTable
  <1>4. q.state = "deleted" /\ q.key = job[j].key
    BY <1>3, DeletedRowIs, DeletedEmpties
  <1>5. job' = [job EXCEPT ![j] = q] BY <1>1 DEF Delete, Update
  <1> HIDE DEF q
  <1>6. Quiet(job[j], q)
    BY <1>4 DEF Quiet, OpenStates, ACTIVE, LEASED_STATES
  <1>7. Still BY <1>5, <1>6, OneQuietRow DEF SInv
  <1>8. \A i \in Jobs : job'[i] = IF i = j THEN q ELSE job[i]
    BY <1>5 DEF SInv, IInv, TypeOK
  <1>9. fence' \in BOOLEAN /\ (fence => fence') /\ (KeyOf(j) \in UploadKeys => fence')
    BY <1>1 DEF SInv, ServiceTyped
  <1>10. ServiceTyped' BY <1>1, <1>9 DEF SInv, ServiceTyped
  <1>11. RequestOK' BY <1>1, <1>7, <1>10, RequestStays
  <1>12. CancelAnswersTrue' BY <1>1, <1>7, AnswersStay
  <1>13. UnusedIds' BY <1>1, <1>4, <1>8 DEF SInv, UnusedIds, KeyOf
  <1>14. FenceKept' BY <1>4, <1>8, <1>9 DEF SInv, FenceKept, KeyOf
  <1> QED BY <1>2, <1>10, <1>11, <1>12, <1>13, <1>14 DEF SInv

LEMMA PurgeJobHolds ==
  ASSUME SInv, NEW j \in Jobs, PurgeJob(j)
  PROVE  SInv'
  <1>1. /\ Purge(j) /\ UNCHANGED <<quota, cancelling, fence>>
        /\ receipt' = [receipt EXCEPT ![j] = "none"]
        /\ request' = (IF request = j THEN NoJob ELSE request)
        /\ (request = j => ~RequestLocked)
    BY DEF PurgeJob
  <1>2. IInv' BY <1>1, PurgeInv DEF SInv
  <1> DEFINE q == [Blank EXCEPT !.state = "gone", !.key = job[j].key]
  <1>3. q.state = "gone" /\ q.key = job[j].key BY DEF Blank
  <1>4. job' = [job EXCEPT ![j] = q] BY <1>1 DEF Purge, Update
  <1> HIDE DEF q
  <1>5. Quiet(job[j], q)
    BY <1>3 DEF Quiet, OpenStates, JobState, ACTIVE, LEASED_STATES
  <1>6. Still BY <1>4, <1>5, OneQuietRow DEF SInv
  <1>7. \A i \in Jobs : job'[i] = IF i = j THEN q ELSE job[i]
    BY <1>4 DEF SInv, IInv, TypeOK
  <1>8. receipt' \in [Jobs -> Outcome]
        /\ \A i \in Jobs : receipt'[i] = IF i = j THEN "none" ELSE receipt[i]
    BY <1>1 DEF SInv, ServiceTyped, Outcome
  <1>9. ServiceTyped' BY <1>1, <1>8 DEF SInv, ServiceTyped
  <1>10. RequestOK'
    <2>1. \A i \in Jobs : job'[i].key = job[i].key BY <1>3, <1>7
    <2>2. ASSUME request' # NoJob PROVE job'[request'].key \in EvidenceKeys
      BY <1>1, <2>1, <2>2 DEF SInv, ServiceTyped, RequestOK, WorksForRequest, KeyOf
    <2>3. ASSUME NEW i \in Jobs, job'[i].key \in EvidenceKeys, job'[i].state \in OpenStates
          PROVE  i = request'
      <3>1. i # j BY <1>3, <1>7, <2>3 DEF OpenStates, JobState
      <3> QED BY <1>1, <1>7, <2>3, <3>1 DEF SInv, RequestOK, WorksForRequest, KeyOf
    <2>4. ASSUME NEW i \in Jobs, job'[i].key \in EvidenceKeys
          PROVE  \E k \in Jobs : job'[k].key = ReanalysisKey
      BY <2>1, <2>4 DEF SInv, RequestOK, WorksForRequest, KeyOf
    <2>5. ASSUME cancelling.job # NoJob
          PROVE  cancelling.current =
                   IF job'[cancelling.job].key \in EvidenceKeys THEN request' ELSE NoJob
      <3>1. cancelling.job \in Jobs BY <2>5 DEF SInv, ServiceTyped
      <3>2. cancelling.current = IF WorksForRequest(cancelling.job) THEN request ELSE NoJob
        BY <2>5 DEF SInv, RequestOK
      <3>3. WorksForRequest(cancelling.job) => request' = request
        BY <1>1, <2>5 DEF RequestLocked, WorksForRequest
      <3> QED BY <2>1, <3>1, <3>2, <3>3 DEF WorksForRequest, KeyOf
    <2> QED BY <1>1, <2>2, <2>3, <2>4, <2>5 DEF RequestOK, WorksForRequest, KeyOf
  <1>11. CancelAnswersTrue' BY <1>1, <1>6, <1>8, AnswersStay
  <1>12. UnusedIds' BY <1>1, <1>3, <1>7, <1>8 DEF SInv, UnusedIds, KeyOf
  <1>13. FenceKept'
    <2>1. job[j].state = "deleted" \/ job[j].key \notin UploadKeys
      BY <1>1, ServiceAssumption DEF Purge
    <2> QED BY <1>1, <1>3, <1>7, <2>1 DEF SInv, FenceKept, KeyOf
  <1> QED BY <1>2, <1>9, <1>10, <1>11, <1>12, <1>13 DEF SInv

(* A failed speech job that nobody cancelled may wait for a lease again,   *)
(* above the generation of every lease it was granted.                     *)
LEMMA RetrySpeechHolds ==
  ASSUME SInv, NEW j \in Jobs, RetrySpeech(j)
  PROVE  SInv'
  <1> DEFINE r == job[j]
             q == Requeued(r)
  <1>1. /\ KeyOf(j) = SpeechKey /\ r.state = "failed"
        /\ \A i \in Jobs : InTable(i) /\ KeyOf(i) \in UploadKeys =>
             ~job[i].cancel /\ job[i].state \notin {"deleted", "cancelled"}
        /\ job' = [job EXCEPT ![j] = q]
        /\ UNCHANGED <<result, principals, leases, claims, receipt, request, cancelling, fence>>
    BY DEF RetrySpeech, Update
  <1>2. SpeechKey \in UploadKeys /\ SpeechKey \notin EvidenceKeys BY ServiceAssumption
  <1>3. r \in JobRow /\ RowOK(j, r, result[j], leases) /\ leases \subseteq Lease
    BY DEF SInv, IInv, TypeOK
  <1>4. ~r.cancel BY <1>1, <1>2 DEF InTable, JobState
  <1>5. /\ q.state = "queued" /\ q.gen = r.gen + 1 /\ q.key = r.key /\ q.cancel = r.cancel
        /\ q.token = r.token /\ q.data = r.data /\ q.lessee = r.lessee
    BY <1>3 DEF Requeued, JobRow
  <1>6. q \in JobRow
    <2> DEFINE z == [c \in Classes |-> 0]
    <2>1. z \in [Classes -> Nat] /\ r.gen + 1 \in Nat /\ "queued" \in JobState
      BY <1>3 DEF JobRow, JobState
    <2>2. q = [r EXCEPT !.state = "queued", !.gen = r.gen + 1, !.counts = z]
      BY <1>3 DEF Requeued, JobRow
    <2> HIDE DEF z
    <2> QED BY <1>3, <2>1, <2>2 DEF JobRow
  <1> HIDE DEF q
  <1>7. RowOK(j, q, result[j], leases)
    <2>1. r.gen \in Nat /\ \A l \in leases : l.gen \in Nat BY <1>3 DEF JobRow, Lease
    <2>2. \A l \in leases : l.job = j => l.token <= q.token /\ l.gen <= q.gen
      BY <1>1, <1>3, <1>5, <2>1 DEF RowOK
    <2>3. q.lessee = NoWorker /\ result[j] = NoResult /\ q.data <= q.token
      BY <1>1, <1>3, <1>5 DEF RowOK, LEASED_STATES
    <2>4. CheckInvariants(q) BY <1>4, <1>5 DEF CheckInvariants
    <2> QED BY <1>5, <2>2, <2>3, <2>4 DEF RowOK, LEASED_STATES
  <1>8. IInv' BY <1>1, <1>6, <1>7, OneJobRow DEF SInv
  <1>9. Away(r, q) /\ Spared(r, q)
    BY <1>1, <1>2, <1>5 DEF Away, Spared, KeyOf
  <1>10. Still /\ AllSpared BY <1>1, <1>9, OneQuietRow DEF SInv
  <1> QED BY <1>1, <1>8, <1>10, QuietHolds

LEMMA RunJobsHolds ==
  ASSUME SInv, RunJobs
  PROVE  SInv'
  <1>0. IInv BY DEF SInv
  <1>1. ASSUME NEW w \in Workers, Claim(w, 0), UNCHANGED svars PROVE SInv'
    <2>1. 0 \in 0..MaxLag BY TimeAssumption
    <2>2. IInv' BY <1>0, <1>1, <2>1, ClaimInv
    <2>3. Still /\ AllSpared BY <1>0, <1>1, ClaimQuiet
    <2> QED BY <1>1, <2>2, <2>3, QuietHolds DEF svars
  <1>2. ASSUME NEW l \in leases, Start(l) \/ Cancel(l), UNCHANGED svars PROVE SInv'
    <2>1. IInv' BY <1>0, <1>2, StartInv, CancelInv
    <2>2. Still /\ AllSpared BY <1>0, <1>2, LeaseQuiet
    <2> QED BY <1>2, <2>1, <2>2, QuietHolds DEF svars
  <1>3. ASSUME NEW l \in leases, NEW exhausted, FailStage(l, exhausted) PROVE SInv'
    <2>1. Fail(l) /\ UNCHANGED <<receipt, request, cancelling, fence>>
      BY <1>3 DEF FailStage
    <2>2. IInv' BY <1>0, <2>1, FailInv
    <2>3. Still /\ AllSpared BY <1>0, <2>1, LeaseQuiet
    <2> QED BY <2>1, <2>2, <2>3, QuietHolds
  <1> QED BY <1>1, <1>2, <1>3, PublishEvidenceHolds, PublishUploadHolds DEF RunJobs

LEMMA ServiceNext == SInv /\ [SNext]_<<vars, svars>> => SInv'
  <1> SUFFICES ASSUME SInv, [SNext]_<<vars, svars>> PROVE SInv' OBVIOUS
  <1>1. CASE UNCHANGED <<vars, svars>>
    <2>1. IInv' BY <1>1, NextInv DEF SInv
    <2>2. Still /\ AllSpared BY <1>1, NothingMoves DEF vars
    <2> QED BY <1>1, <2>1, <2>2, QuietHolds DEF svars
  <1>2. CASE SNext
    <2>1. ASSUME NEW o \in Owners, RequestReanalysis(o) \/ CompleteUpload(o) PROVE SInv'
      BY <2>1, RequestReanalysisHolds, CompleteUploadHolds
    <2>2. CASE RunJobs BY <2>2, RunJobsHolds
    <2>3. ASSUME NEW j \in Jobs, CancelPeek(j) \/ DeleteJob(j) \/ PurgeJob(j) \/ RetrySpeech(j)
          PROVE  SInv'
      BY <2>3, CancelPeekHolds, DeleteJobHolds, PurgeJobHolds, RetrySpeechHolds
    <2>4. CASE CancelFinish BY <2>4, CancelFinishHolds
    <2>5. CASE Tick /\ UNCHANGED svars
      <3>1. IInv' /\ Still /\ AllSpared BY <2>5, TickInv, TickQuiet DEF SInv
      <3> QED BY <2>5, <3>1, QuietHolds DEF svars
    <2> QED BY <1>2, <2>1, <2>2, <2>3, <2>4, <2>5 DEF SNext
  <1> QED BY <1>1, <1>2

LEMMA ServiceInvariance == SSpec => []SInv
  BY InitHolds, ServiceNext, PTL DEF SSpec

-----------------------------------------------------------------------------
(* What the cancel route answers (cancel_owned_job) is true of the whole   *)
(* reanalysis request, however publications, deletions and purges come     *)
(* between the read of the request and the cancellation: after an accepted *)
(* cancel no step of it still publishes, and one is refused only when no   *)
(* step is left.                                                           *)
THEOREM CancelAnswersAreTrue == SSpec => []CancelAnswersTrue
  BY ServiceInvariance, PTL DEF SInv

(* The steps of the service on the queue are steps of JobQueue, except the *)
(* retry of a speech job.                                                  *)
LEMMA QueueStep ==
  ASSUME SInv, [SNext]_<<vars, svars>>, \A j \in Jobs : ~RetrySpeech(j)
  PROVE  [Next]_vars
  <1>1. CASE UNCHANGED <<vars, svars>> BY <1>1
  <1>2. CASE SNext
    <2>1. ASSUME NEW o \in Owners, RequestReanalysis(o) \/ CompleteUpload(o) PROVE Next
      <3>1. ReanalysisKey \in Keys /\ IntakeKey \in Keys BY ServiceAssumption
      <3> QED BY <2>1, <3>1 DEF RequestReanalysis, CompleteUpload, Next
    <2>2. CASE RunJobs
      <3>1. 0 \in 0..MaxLag BY TimeAssumption
      <3>2. ASSUME NEW w \in Workers, Claim(w, 0) PROVE Next BY <3>1, <3>2 DEF Next
      <3>3. ASSUME NEW l \in leases, Start(l) \/ Cancel(l) \/ Fail(l) PROVE Next
        BY <3>3 DEF Next, LeaseStep
      <3>4. ASSUME NEW l \in leases, NEW succ, KeyOf(l.job) \in Keys, Publish(l, succ) PROVE Next
        <4>1. succ \in SUBSET Keys BY <3>4, PublishedRows
        <4> QED BY <3>4, <4>1 DEF Next, LeaseStep
      <3>5. EvidenceKeys \subseteq Keys /\ UploadKeys \subseteq Keys BY ServiceAssumption
      <3> QED BY <2>2, <3>2, <3>3, <3>4, <3>5
              DEF RunJobs, PublishEvidence, PublishUpload, FailStage
    <2>3. ASSUME NEW j \in Jobs, CancelPeek(j) \/ DeleteJob(j) \/ PurgeJob(j)
          PROVE  [Next]_vars
      BY <2>3 DEF CancelPeek, DeleteJob, PurgeJob, Next
    <2>4. CASE CancelFinish
      <3>1. \A c \in Jobs : TryCancel(c) => [Next]_vars BY DEF TryCancel, Next
      <3>2. cancelling.job \in Jobs /\ cancelling.current \in Jobs \cup {NoJob}
        BY <2>4 DEF CancelFinish, SInv, ServiceTyped
      <3> QED BY <2>4, <3>1, <3>2 DEF CancelFinish
    <2>5. CASE Tick BY <2>5 DEF Next
    <2> QED BY <1>2, <2>1, <2>2, <2>3, <2>4, <2>5 DEF SNext
  <1> QED BY <1>1, <1>2

(* The state machine has no way out of a failure but deletion. *)
LEMMA FailedStays ==
  ASSUME NEW r, NEW q, Move(r, q), r.state = "failed"
  PROVE  q.state # "queued"
  <1> DEFINE s == St(r)
             t == St(q)
  <1>1. s = [state |-> "failed", cancel |-> r.cancel] /\ t.state = q.state BY DEF St
  <1>2. Lifecycle!Moves(s, t) BY DEF Move
  <1> HIDE DEF s, t
  <1>3. CASE t = s BY <1>1, <1>3
  <1>4. CASE t.state = "gone" BY <1>1, <1>4
  <1>5. CASE Lifecycle!ByEvent(s, t)
    <2>1. ~Lifecycle!Legal(s, "expire")
      BY <1>1 DEF Lifecycle!Legal, Lifecycle!LEASED_STATES
    <2>2. PICK e \in Lifecycle!JobEvent : Lifecycle!Legal(s, e) /\ t = Lifecycle!Apply(s, e)
      BY <1>5, <2>1 DEF Lifecycle!ByEvent
    <2>3. e = "delete"
      BY <1>1, <2>2 DEF Lifecycle!Legal, Lifecycle!LEASED_STATES, Lifecycle!ACTIVE
    <2>4. Lifecycle!Apply(s, "delete") = [s EXCEPT !.state = "deleted"]
      BY DEF Lifecycle!Apply
    <2>5. t.state = "deleted" BY <1>1, <2>2, <2>3, <2>4
    <2> QED BY <1>1, <2>5
  <1> QED BY <1>1, <1>2, <1>3, <1>4, <1>5 DEF Lifecycle!Moves

(* A failed job is only put back in the queue by retry_speech(), which no  *)
(* deletion of a job of its upload lets through, not even one that was     *)
(* purged since.                                                           *)
THEOREM DeletionBlocksRetry == SSpec => DeletionBlocksSpeechRetry
  <1> DEFINE A == \A j \in Jobs : job[j].state = "failed" /\ job'[j].state = "queued" =>
                    \A i \in Jobs : KeyOf(i) \in UploadKeys
                                      => job[i].state \notin {"deleted", "gone"}
  <1>1. SInv /\ [SNext]_<<vars, svars>> => [A]_vars
    <2> SUFFICES ASSUME SInv, [SNext]_<<vars, svars>>, NEW j \in Jobs,
                        job[j].state = "failed", job'[j].state = "queued",
                        NEW i \in Jobs, KeyOf(i) \in UploadKeys,
                        job[i].state \in {"deleted", "gone"}
                 PROVE  FALSE
      OBVIOUS
    <2>1. fence BY DEF SInv, FenceKept
    <2>2. \A k \in Jobs : ~RetrySpeech(k) BY <2>1 DEF RetrySpeech
    <2>3. IInv /\ [Next]_vars BY <2>2, QueueStep DEF SInv
    <2>4. Move(job[j], job'[j]) BY <2>3, NextMove DEF AllMove
    <2> QED BY <2>4, FailedStays
  <1>2. DeletionBlocksSpeechRetry <=> [][A]_vars BY DEF DeletionBlocksSpeechRetry
  <1> HIDE DEF A
  <1> QED BY <1>1, <1>2, ServiceInvariance, PTL DEF SSpec
=============================================================================
