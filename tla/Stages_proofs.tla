-------------------------- MODULE Stages_proofs --------------------------
(***************************************************************************)
(* Proofs about two stages that keep tables of their own next to the       *)
(* queue: hosted speech with its attempt ledger, and the report versions   *)
(* of an investigation.  Every step here is a step of the queue or leaves  *)
(* it alone, so the invariant of the queue carries over.                   *)
(***************************************************************************)
EXTENDS AsrLedger, Reports, JobQueue_proofs, FiniteSetTheorems

-----------------------------------------------------------------------------
(***************************************************************************)
(* Hosted speech, for any number of speech jobs, workers, leases and       *)
(* retries, any window, limit and lag: audio whose call may have gone      *)
(* through is never sent again, delivered speech is kept as long as its    *)
(* job, and no window holds more requests than the limit.                  *)
(***************************************************************************)

(* The inductive invariant *)

(* The row of model m in the current run of job j, as a set. *)
RowAt(j, m) == {r \in ledger : r.job = j /\ r.index = retries[j] /\ r.model = m}

(* A run of a job has one row per model, no run is ahead of the payload,   *)
(* and a call without a certain outcome belongs to the latest run.         *)
LedgerOK ==
  /\ \A r, s \in ledger : r.job = s.job /\ r.model = s.model /\ r.index = s.index => r = s
  /\ \A r \in ledger :
       /\ r.index <= retries[r.job]
       /\ r.outcome \in {"uncertain", "ASRUnknownOutcome"} => r.index = retries[r.job]

(* A run that has an answer to store has one of the answers. *)
Sound == {h \in Run : h.at = "answered" => h.answer \in Answers}

(* Serials tell the leases apart, and no lease yet to come has run. *)
SerialsOK ==
  /\ run \in [1..MaxClaims -> Sound] /\ claims <= MaxClaims
  /\ \A l \in leases : l.serial \in 1..claims
  /\ \A l, k \in leases : l.serial = k.serial => l = k
  /\ \A n \in 1..MaxClaims : n > claims => run[n].at = "idle"

Calls == {"begun", "sending", "answered"}

(* What the run of a held lease read at its start is still so: a model it  *)
(* has yet to try has no row but perhaps the owner's reservation, and no   *)
(* result is stored.                                                       *)
Fresh(l) ==
  LET h == run[l.serial] IN
  /\ h.at # "idle" => \A m \in Models : h.at \notin Calls \/ m # h.model =>
       /\ h.seen[m] = "none" => RowAt(l.job, m) = {}
       /\ h.seen[m] = "reserved" => \E s \in RowAt(l.job, m) : s.outcome = "reserved"
  /\ h.at \notin {"idle", "done"} =>
       \A s \in RowsOf(l.job, retries[l.job]) : s.outcome # "completed"

RunsOK == \A l \in leases : Held(l) => Fresh(l)

(* A call that began in the current generation g of job j left its row. *)
Noted(j, m, g) ==
  g = job[j].gen => \E s \in RowAt(j, m) : s.outcome # "reserved"

Calling(l, m) == run[l.serial].at \in Calls /\ run[l.serial].model = m

(* Calls leave a row, no two leases of one generation call the same model, *)
(* and a call that has not been sent finds nothing sent before.            *)
CallsOK ==
  /\ \A l \in leases : run[l.serial].at \in Calls =>
       run[l.serial].model \in Models /\ Noted(l.job, run[l.serial].model, l.gen)
  /\ \A l, k \in leases : \A m \in Models :
       l.job = k.job /\ l.gen = k.gen /\ Calling(l, m) /\ Calling(k, m) => l = k
  /\ \A c \in reached :
       /\ c.job \in Jobs /\ c.model \in Models /\ c.gen \in Nat
       /\ job[c.job].state # "absent" /\ c.gen <= job[c.job].gen
       /\ Noted(c.job, c.model, c.gen)
  /\ \A l \in leases, c \in reached :
       c.job = l.job /\ c.gen = l.gen /\ Calling(l, c.model) => run[l.serial].at = "answered"
  /\ OncePerModel

(* In this composition no tombstone is purged. *)
NoneGone == \A j \in Jobs : job[j].state # "gone"

AInv ==
  /\ IInv /\ NoneGone
  /\ LedgerTypeOK /\ IsFiniteSet(ledger)
  /\ SerialsOK /\ LedgerOK /\ RunsOK /\ CallsOK
  /\ SpeechKept /\ WindowRespected

-----------------------------------------------------------------------------
(* What a transaction does to the row r of a job, which becomes q *)

(* Only a grant, with a new token, hands a job to a lease; generations     *)
(* only grow.                                                              *)
Stays(r, q) ==
  /\ q.state \in LEASED_STATES =>
       \/ q.token > r.token
       \/ /\ r.state \in LEASED_STATES /\ q.token = r.token
          /\ q.gen = r.gen /\ q.lessee = r.lessee
  /\ r.state # "absent" => q.state # "absent" /\ q.gen >= r.gen
  /\ r.state # "gone" => q.state # "gone"

(* The job neither fails nor is deleted, nor was it. *)
Calm(r, q) == \A s \in {"failed", "deleted"} : q.state = s <=> r.state = s

RowsStay == \A j \in Jobs : Stays(job[j], job'[j])

(* The rows stay and none but perhaps that of a job in js ends. *)
QuietBut(js) == RowsStay /\ \A j \in Jobs \ js : Calm(job[j], job'[j])

LEMMA SameStays ==
  ASSUME NEW r \in JobRow
  PROVE  Stays(r, r) /\ Calm(r, r)
  BY DEF Stays, Calm, JobRow

LEMMA OneRowStays ==
  ASSUME IInv, NEW j \in Jobs, NEW q, job' = [job EXCEPT ![j] = q], Stays(job[j], q)
  PROVE  /\ QuietBut({j}) /\ job'[j] = q
         /\ Calm(job[j], q) => QuietBut({})
  <1>1. \A i \in Jobs : job'[i] = IF i = j THEN q ELSE job[i] BY DEF IInv, TypeOK
  <1>2. \A i \in Jobs : job[i] \in JobRow BY DEF IInv, TypeOK
  <1> QED BY <1>1, <1>2, SameStays DEF QuietBut, RowsStay

LEMMA ReturnedStays ==
  ASSUME NEW r \in JobRow, r.state \in LEASED_STATES
  PROVE  Stays(r, ReturnedRow(r)) /\ Calm(r, ReturnedRow(r))
  <1> DEFINE q == ReturnedRow(r)
  <1>1. /\ q.state = IF r.cancel THEN "cancelled" ELSE "queued"
        /\ q.gen = IF r.cancel THEN r.gen + 1 ELSE r.gen
    BY ReturnedRowIs
  <1>2. r.gen \in Nat BY DEF JobRow
  <1> HIDE DEF q
  <1>3. Stays(r, q) /\ Calm(r, q) BY <1>1, <1>2 DEF Stays, Calm, LEASED_STATES
  <1> QED BY <1>3 DEF q

LEMMA InsertedStays ==
  ASSUME AInv, NEW o \in Owners \cup {NoOwner}, NEW ks \in SUBSET Keys,
         NEW ids \in FreshIds(ks), NEW j \in Jobs
  PROVE  LET q == Inserted(job, ids, o)[j]
         IN  Stays(job[j], q) /\ Calm(job[j], q)
  <1>1. job[j] \in JobRow BY DEF AInv, IInv, TypeOK
  <1>2. CASE \E n \in DOMAIN ids : ids[n] = j
    <2>1. job[j].state = "absent" BY <1>2 DEF FreshIds
    <2>2. PICK n : Inserted(job, ids, o)[j] = NewRow(n, o) BY <1>2 DEF Inserted
    <2>3. NewRow(n, o).state = "queued" BY DEF NewRow, Blank
    <2> QED BY <2>1, <2>2, <2>3 DEF Stays, Calm, LEASED_STATES
  <1>3. CASE ~ \E n \in DOMAIN ids : ids[n] = j
    BY <1>1, <1>3, SameStays DEF Inserted
  <1> QED BY <1>2, <1>3

LEMMA EnqueueQuiet ==
  ASSUME AInv, NEW k \in Keys, NEW o \in Owners, Enqueue(k, o)
  PROVE  IInv' /\ QuietBut({}) /\ UNCHANGED <<leases, claims>>
  <1>1. PICK ids \in FreshIds({k}) : job' = Inserted(job, ids, o) BY DEF Enqueue
  <1>2. {k} \in SUBSET Keys OBVIOUS
  <1>3. IInv' BY EnqueueInv DEF AInv
  <1> QED BY <1>1, <1>2, <1>3, InsertedStays DEF QuietBut, RowsStay, Enqueue

(* A grant: its lease is new and carries the next serial. *)
LEMMA ClaimQuiet ==
  ASSUME AInv, NEW w \in Workers, Claim(w, 0)
  PROVE  /\ IInv' /\ QuietBut({})
         /\ claims < MaxClaims /\ claims' = claims + 1
         /\ \E l : l.serial = claims + 1 /\ leases' = leases \cup {l}
  <1> DEFINE rows == Swept(0)
  <1>0. 0 \in 0..MaxLag /\ IInv BY TimeAssumption DEF AInv
  <1>1. PICK j \in Jobs :
          /\ rows[j].state = "queued"
          /\ job' = [rows EXCEPT ![j] = LeasedRow(rows[j], w, 0)]
          /\ leases' = leases \cup
               {[job |-> j, worker |-> w, token |-> job'[j].token,
                 gen |-> job'[j].gen, serial |-> claims + 1]}
    BY DEF Claim
  <1>2. rows \in [Jobs -> JobRow] BY <1>0, SweptOK
  <1>3. \A i \in Jobs : job[i] \in JobRow BY <1>0 DEF IInv, TypeOK
  <1>4. \A i \in Jobs : Stays(job[i], rows[i]) /\ Calm(job[i], rows[i])
    BY <1>3, SameStays, ReturnedStays DEF Swept
  <1>5. rows[j].token = job[j].token BY <1>3, ReturnedRowIs DEF Swept
  <1> HIDE DEF rows
  <1> DEFINE q == LeasedRow(rows[j], w, 0)
  <1>6. q.state = "leased" /\ q.token = rows[j].token + 1 /\ q.gen = rows[j].gen
    BY <1>0, <1>2, LeasedRowIs
  <1>7. rows[j].token \in Nat BY <1>2 DEF JobRow
  <1> HIDE DEF q
  <1>8. \A i \in Jobs : job'[i] = IF i = j THEN q ELSE rows[i] BY <1>1, <1>2 DEF q
  <1>9. Stays(job[j], q) /\ Calm(job[j], q)
    <2>1. Stays(job[j], rows[j]) /\ Calm(job[j], rows[j]) BY <1>4
    <2> QED BY <1>1, <1>5, <1>6, <1>7, <2>1 DEF Stays, Calm
  <1>10. QuietBut({}) BY <1>4, <1>8, <1>9 DEF QuietBut, RowsStay
  <1>11. IInv' BY <1>0, ClaimInv
  <1> QED BY <1>1, <1>10, <1>11 DEF Claim

(* Starting, extending and recording keep the lease. *)
LEMMA KeepingQuiet ==
  ASSUME AInv, NEW l \in leases, Start(l) \/ Heartbeat(l, 0) \/ RecordRequestId(l)
  PROVE  IInv' /\ QuietBut({}) /\ UNCHANGED <<leases, claims>>
  <1> DEFINE r == job[l.job]
  <1>1. IInv /\ 0 \in 0..MaxLag BY TimeAssumption DEF AInv
  <1>2. r \in JobRow /\ l.job \in Jobs BY <1>1, LeaseRow
  <1>3. PICK q : /\ job' = [job EXCEPT ![l.job] = q]
                 /\ \/ r.state = "leased" /\ q = [r EXCEPT !.state = "running"]
                    \/ q = [r EXCEPT !.ttl = LeaseTime - 0]
                    \/ q = [r EXCEPT !.reqid = TRUE]
    BY DEF Start, Heartbeat, RecordRequestId, Update
  <1>4. r.state \in LEASED_STATES
    BY DEF Start, Heartbeat, RecordRequestId, Held, LEASED_STATES
  <1> HIDE DEF r
  <1>5. /\ q.state = r.state \/ (q.state = "running" /\ r.state = "leased")
        /\ q.token = r.token /\ q.gen = r.gen /\ q.lessee = r.lessee
    BY <1>2, <1>3 DEF JobRow
  <1>6. r.gen \in Nat BY <1>2 DEF JobRow
  <1>7. Stays(r, q) /\ Calm(r, q) BY <1>4, <1>5, <1>6 DEF Stays, Calm, LEASED_STATES
  <1>8. QuietBut({}) BY <1>1, <1>2, <1>3, <1>7, OneRowStays DEF r
  <1>9. IInv' BY <1>1, StartInv, HeartbeatInv, RecordRequestIdInv
  <1> QED BY <1>8, <1>9 DEF Start, Heartbeat, RecordRequestId

(* Releasing and cancelling give the lease back. *)
LEMMA GivingBackQuiet ==
  ASSUME AInv, NEW l \in leases, Release(l) \/ Cancel(l)
  PROVE  IInv' /\ QuietBut({}) /\ UNCHANGED <<leases, claims>>
  <1> DEFINE r == job[l.job]
  <1>1. IInv BY DEF AInv
  <1>2. r \in JobRow /\ l.job \in Jobs BY <1>1, LeaseRow
  <1>3. PICK q : /\ job' = [job EXCEPT ![l.job] = q]
                 /\ q = ReturnedRow(r) \/ q = CancelledRow(r)
    BY DEF Release, Cancel, Update
  <1>4. r.state \in LEASED_STATES BY DEF Release, Cancel, Held
  <1> HIDE DEF r
  <1>5. Stays(r, q) /\ Calm(r, q)
    <2>1. CASE q = ReturnedRow(r) BY <1>2, <1>4, <2>1, ReturnedStays
    <2>2. CASE q = CancelledRow(r)
      <3>1. q.state = "cancelled" /\ q.gen = r.gen + 1 /\ r.gen \in Nat
        BY <1>2, <2>2, CancelledRowIs DEF JobRow
      <3> QED BY <1>4, <3>1 DEF Stays, Calm, LEASED_STATES
    <2> QED BY <1>3, <2>1, <2>2
  <1>6. QuietBut({}) BY <1>1, <1>2, <1>3, <1>5, OneRowStays DEF r
  <1>7. IInv' BY <1>1, ReleaseInv, CancelInv
  <1> QED BY <1>6, <1>7 DEF Release, Cancel

LEMMA FailQuiet ==
  ASSUME AInv, NEW l \in leases, Fail(l)
  PROVE  /\ IInv' /\ QuietBut({l.job}) /\ UNCHANGED <<leases, claims>>
         /\ job'[l.job].state = "failed"
  <1> DEFINE r == job[l.job]
             q == Cleared([r EXCEPT !.state = "failed"])
  <1>1. IInv BY DEF AInv
  <1>2. r \in JobRow /\ l.job \in Jobs BY <1>1, LeaseRow
  <1>3. job' = [job EXCEPT ![l.job] = q] BY DEF Fail, Update
  <1>4. q.state = "failed" /\ q.gen = r.gen /\ r.gen \in Nat
    BY <1>2, FinishedRowIs DEF JobRow
  <1> HIDE DEF q
  <1>5. Stays(r, q) BY <1>4 DEF Stays, LEASED_STATES
  <1> QED BY <1>1, <1>2, <1>3, <1>4, <1>5, OneRowStays, FailInv DEF Fail

LEMMA PublishQuiet ==
  ASSUME AInv, NEW l \in leases, NEW succ \in SUBSET Keys, Publish(l, succ)
  PROVE  IInv' /\ QuietBut({}) /\ UNCHANGED <<leases, claims>>
  <1> DEFINE r == job[l.job]
             q == Cleared([r EXCEPT !.state = "published"])
             o == r.owner
  <1>1. IInv BY DEF AInv
  <1>2. r \in JobRow /\ l.job \in Jobs BY <1>1, LeaseRow
  <1>3. PICK ids \in FreshIds({k \in succ : ~KeyTaken(k)}) :
          job' = [Inserted(job, ids, o) EXCEPT ![l.job] = q]
    BY DEF Publish
  <1>4. o \in Owners \cup {NoOwner} BY <1>2 DEF JobRow
  <1>5. {k \in succ : ~KeyTaken(k)} \in SUBSET Keys OBVIOUS
  <1>6. q.state = "published" /\ q.gen = r.gen /\ r.gen \in Nat
    BY <1>2, FinishedRowIs DEF JobRow
  <1>7. r.state = "running" BY DEF Publish, LockActive
  <1> HIDE DEF q, o
  <1>8. \A j \in Jobs : /\ Stays(job[j], Inserted(job, ids, o)[j])
                        /\ Calm(job[j], Inserted(job, ids, o)[j])
    BY <1>3, <1>4, <1>5, InsertedStays
  <1>9. Stays(r, q) /\ Calm(r, q) BY <1>6, <1>7 DEF Stays, Calm, LEASED_STATES
  <1>10. \A j \in Jobs : job'[j] = IF j = l.job THEN q ELSE Inserted(job, ids, o)[j]
    BY <1>2, <1>3 DEF Inserted
  <1>11. QuietBut({}) BY <1>8, <1>9, <1>10 DEF QuietBut, RowsStay
  <1> QED BY <1>1, <1>11, PublishInv DEF Publish

LEMMA RequestCancelQuiet ==
  ASSUME AInv, NEW j \in Jobs, RequestCancel(j)
  PROVE  IInv' /\ QuietBut({}) /\ UNCHANGED <<leases, claims>>
  <1> DEFINE r == job[j]
  <1>1. IInv BY DEF AInv
  <1>2. r \in JobRow /\ r.gen \in Nat BY <1>1 DEF IInv, TypeOK, JobRow
  <1>3. PICK q : /\ job' = [job EXCEPT ![j] = q]
                 /\ \/ r.state = "queued" /\ q = CancelledRow(r)
                    \/ r.state \in LEASED_STATES /\ q = [r EXCEPT !.cancel = TRUE]
    BY DEF RequestCancel, Update
  <1> HIDE DEF r
  <1>4. Stays(r, q) /\ Calm(r, q)
    <2>1. CASE r.state = "queued" /\ q = CancelledRow(r)
      <3>1. q.state = "cancelled" /\ q.gen = r.gen + 1 BY <1>2, <2>1, CancelledRowIs
      <3> QED BY <1>2, <2>1, <3>1 DEF Stays, Calm, LEASED_STATES
    <2>2. CASE r.state \in LEASED_STATES /\ q = [r EXCEPT !.cancel = TRUE]
      <3>1. /\ q.state = r.state /\ q.token = r.token /\ q.gen = r.gen
            /\ q.lessee = r.lessee
        BY <1>2, <2>2 DEF JobRow
      <3> QED BY <1>2, <2>2, <3>1 DEF Stays, Calm, LEASED_STATES
    <2> QED BY <1>3, <2>1, <2>2
  <1>5. QuietBut({}) BY <1>1, <1>3, <1>4, OneRowStays DEF r
  <1> QED BY <1>1, <1>5, RequestCancelInv DEF RequestCancel

LEMMA DeleteQuiet ==
  ASSUME AInv, NEW j \in Jobs, Delete(j)
  PROVE  /\ IInv' /\ QuietBut({j}) /\ UNCHANGED <<leases, claims>>
         /\ job'[j].state = "deleted"
  <1> DEFINE r == job[j]
             q == DeletedRow(r)
  <1>1. IInv BY DEF AInv
  <1>2. r \in JobRow /\ r.gen \in Nat BY <1>1 DEF IInv, TypeOK, JobRow
  <1>3. r.state # "deleted" /\ job' = [job EXCEPT ![j] = q] BY DEF Delete, Update
  <1>4. q.state = "deleted" /\ q.gen = r.gen + 1 BY <1>2, <1>3, DeletedRowIs
  <1> HIDE DEF q
  <1>5. Stays(r, q) BY <1>2, <1>4 DEF Stays, LEASED_STATES
  <1> QED BY <1>1, <1>3, <1>4, <1>5, OneRowStays, DeleteInv DEF Delete

LEMMA TickQuiet ==
  ASSUME AInv, Tick
  PROVE  IInv' /\ QuietBut({}) /\ UNCHANGED <<leases, claims>>
  <1>1. IInv BY DEF AInv
  <1>2. ASSUME NEW j \in Jobs PROVE Stays(job[j], job'[j]) /\ Calm(job[j], job'[j])
    <2>1. job[j] \in JobRow BY <1>1 DEF IInv, TypeOK
    <2>2. LET q == job'[j]
          IN  /\ q.state = job[j].state /\ q.token = job[j].token
              /\ q.gen = job[j].gen /\ q.lessee = job[j].lessee
      BY <2>1 DEF Tick, JobRow
    <2> QED BY <2>1, <2>2, SameStays DEF Stays, Calm
  <1> QED BY <1>1, <1>2, TickInv DEF Tick, QuietBut, RowsStay

-----------------------------------------------------------------------------
(* Leases across a step *)

(* A lease that passes the fence after a step passed it before. *)
LEMMA HeldBefore ==
  ASSUME AInv, RowsStay, NEW l \in leases, Held(l)'
  PROVE  Held(l)
  <1> DEFINE r == job[l.job]
             q == job'[l.job]
  <1>1. /\ l.job \in Jobs /\ r \in JobRow /\ r.state # "gone" /\ l.token \in Nat
        /\ RowOK(l.job, r, result[l.job], leases)
    BY LeaseRow DEF AInv, NoneGone
  <1>2. l.token <= r.token /\ r.token \in Nat BY <1>1 DEF RowOK, JobRow
  <1>3. /\ q.state \in LEASED_STATES /\ q.token = l.token /\ q.gen = l.gen
        /\ q.lessee = l.worker
    BY DEF Held, Owned
  <1>4. Stays(r, q) BY <1>1 DEF RowsStay
  <1>5. /\ r.state \in LEASED_STATES /\ q.token = r.token /\ q.gen = r.gen
        /\ q.lessee = r.lessee
    <2> HIDE DEF r, q
    <2>1. ~(q.token > r.token) BY <1>1, <1>2, <1>3
    <2> QED BY <1>3, <1>4, <2>1 DEF Stays
  <1>6. r.state \in JobState BY <1>5 DEF LEASED_STATES, JobState
  <1> QED BY <1>3, <1>5, <1>6 DEF Held, Owned, InTable

(* Two leases that pass the fence on one job are one. *)
LEMMA OneHeld ==
  ASSUME IInv, NEW l \in leases, NEW k \in leases, Held(l), Held(k), l.job = k.job
  PROVE  l = k
  BY DEF Held, Owned, IInv, TokensUnique

(* No lease is ahead of the generation of its row. *)
LEMMA LeaseGen ==
  ASSUME AInv, NEW l \in leases
  PROVE  /\ l.job \in Jobs /\ l.gen \in Nat /\ job[l.job].gen \in Nat
         /\ job[l.job].state # "absent" /\ l.gen <= job[l.job].gen
  BY LeaseRow DEF AInv, NoneGone, RowOK, JobRow

LEMMA NoneGoneStays ==
  ASSUME AInv, RowsStay
  PROVE  NoneGone'
  BY DEF AInv, NoneGone, RowsStay, Stays

-----------------------------------------------------------------------------
(* The ledger across a step *)

Match(r, s) == s.job = r.job /\ s.model = r.model /\ s.index = r.index

(* No row is lost and no call forgotten. *)
Grows == \A r \in ledger : \E s \in ledger' :
           Match(r, s) /\ (r.outcome # "reserved" => s.outcome # "reserved")

(* The rows of job j keep their outcomes, and no speech is added. *)
SameRows(j) ==
  /\ \A r \in ledger : r.job = j =>
       \E s \in ledger' : Match(r, s) /\ s.outcome = r.outcome
  /\ \A s \in ledger' : s.job = j =>
       \E r \in ledger : Match(r, s) /\ s.outcome = r.outcome /\ (s.result => r.result)

LEMMA SameLedger ==
  ASSUME UNCHANGED ledger
  PROVE  Grows /\ \A j \in Jobs : SameRows(j)
  BY DEF Grows, SameRows, Match

LEMMA SameRowsGrow ==
  ASSUME LedgerTypeOK, \A j \in Jobs : SameRows(j)
  PROVE  Grows
  <1>1. \A r \in ledger : r.job \in Jobs BY DEF LedgerTypeOK, Rows
  <1> QED BY <1>1 DEF Grows, SameRows

(* A payload's retry counter moves only with the generation. *)
RetriesStay == \A j \in Jobs : job'[j].gen = job[j].gen => retries'[j] = retries[j]

LEMMA NotedStays ==
  ASSUME AInv, RowsStay, Grows, RetriesStay, NEW j \in Jobs, NEW m, NEW g \in Nat,
         job[j].state # "absent", g <= job[j].gen, Noted(j, m, g)
  PROVE  Noted(j, m, g)'
  <1>1. job[j].gen \in Nat BY DEF AInv, IInv, TypeOK, JobRow
  <1>2. job'[j].gen >= job[j].gen BY DEF RowsStay, Stays
  <1> SUFFICES ASSUME g = job'[j].gen
               PROVE  \E s \in RowAt(j, m)' : s.outcome # "reserved"
    BY DEF Noted
  <1>3. job'[j].gen = job[j].gen BY <1>1, <1>2
  <1>4. retries'[j] = retries[j] BY <1>3 DEF RetriesStay
  <1>5. PICK r \in RowAt(j, m) : r.outcome # "reserved" BY <1>3 DEF Noted
  <1>6. PICK s \in ledger' : Match(r, s) /\ s.outcome # "reserved"
    BY <1>5 DEF Grows, RowAt
  <1>7. s \in RowAt(j, m)' BY <1>4, <1>5, <1>6 DEF Match, RowAt
  <1> QED BY <1>6, <1>7

(* A request that reached the provider stays behind its job and on record. *)
LEMMA ReachedStays ==
  ASSUME AInv, IInv', RowsStay, Grows, RetriesStay, NEW c \in reached
  PROVE  /\ c.job \in Jobs /\ c.model \in Models /\ c.gen \in Nat
         /\ job'[c.job].state # "absent" /\ c.gen <= job'[c.job].gen
         /\ Noted(c.job, c.model, c.gen)'
  <1>1. /\ c.job \in Jobs /\ c.model \in Models /\ c.gen \in Nat
        /\ job[c.job].state # "absent" /\ c.gen <= job[c.job].gen
        /\ Noted(c.job, c.model, c.gen)
    BY DEF AInv, CallsOK
  <1>2. job[c.job].gen \in Nat /\ Stays(job[c.job], job'[c.job])
    BY <1>1 DEF AInv, IInv, TypeOK, JobRow, RowsStay
  <1>3. job'[c.job].state # "absent" /\ job'[c.job].gen >= job[c.job].gen
    BY <1>1, <1>2 DEF Stays
  <1>4. job'[c.job].gen \in Nat BY <1>1 DEF IInv, TypeOK, JobRow
  <1>5. c.gen <= job'[c.job].gen BY <1>1, <1>2, <1>3, <1>4
  <1> QED BY <1>1, <1>3, <1>5, NotedStays

(* No lease begins a call; one may end or be answered for. *)
NoneBegins ==
  \A l \in leases' : run'[l.serial].at \in Calls =>
    /\ l \in leases /\ run[l.serial].at \in Calls
    /\ run'[l.serial].model = run[l.serial].model
    /\ run[l.serial].at = "answered" => run'[l.serial].at = "answered"

LEMMA CallsCarry ==
  ASSUME AInv, IInv', RowsStay, Grows, RetriesStay, NoneBegins, UNCHANGED reached
  PROVE  CallsOK'
  <1>1. CallsOK BY DEF AInv
  <1>2. \A l \in leases' : run'[l.serial].at \in Calls => l \in leases BY DEF NoneBegins
  <1>3. ASSUME NEW l \in leases', run'[l.serial].at \in Calls
        PROVE  (run[l.serial].model \in Models /\ Noted(l.job, run[l.serial].model, l.gen))'
    <2>1. l \in leases /\ run[l.serial].at \in Calls
      BY <1>3 DEF NoneBegins
    <2> DEFINE m == run[l.serial].model
    <2>2. run'[l.serial].model = m BY <1>3 DEF NoneBegins
    <2>3. m \in Models /\ Noted(l.job, m, l.gen) BY <1>1, <2>1 DEF CallsOK
    <2>4. ASSUME NEW n, n = m PROVE Noted(l.job, n, l.gen)'
      BY <2>1, <2>3, <2>4, LeaseGen, NotedStays
    <2>5. PICK n : n = m OBVIOUS
    <2> QED BY <2>2, <2>3, <2>4, <2>5
  <1>4. ASSUME NEW l \in leases', NEW k \in leases', NEW m \in Models,
               l.job = k.job, l.gen = k.gen, Calling(l, m)', Calling(k, m)'
        PROVE  l = k
    <2>1. l \in leases /\ k \in leases /\ Calling(l, m) /\ Calling(k, m)
      BY <1>4 DEF NoneBegins, Calling
    <2> QED BY <1>1, <1>4, <2>1 DEF CallsOK
  <1>5. ASSUME NEW c \in reached'
        PROVE  /\ c.job \in Jobs /\ c.model \in Models /\ c.gen \in Nat
               /\ job'[c.job].state # "absent" /\ c.gen <= job'[c.job].gen
               /\ Noted(c.job, c.model, c.gen)'
    BY ReachedStays
  <1>6. ASSUME NEW l \in leases', NEW c \in reached', c.job = l.job, c.gen = l.gen,
               Calling(l, c.model)'
        PROVE  run'[l.serial].at = "answered"
    <2>1. l \in leases /\ Calling(l, c.model) BY <1>6 DEF NoneBegins, Calling
    <2>2. run[l.serial].at = "answered" BY <1>1, <1>6, <2>1 DEF CallsOK
    <2> QED BY <1>6, <2>2 DEF NoneBegins, Calling
  <1>7. OncePerModel' BY <1>1 DEF CallsOK, OncePerModel
  <1> QED BY <1>3, <1>4, <1>5, <1>6, <1>7 DEF CallsOK

(* What the run of a lease knows is still true. *)
LEMMA FreshStays ==
  ASSUME NEW l \in leases, Fresh(l), SameRows(l.job),
         run'[l.serial] = run[l.serial], retries'[l.job] = retries[l.job]
  PROVE  Fresh(l)'
  <1> DEFINE h == run[l.serial]
  <1>1. ASSUME NEW m \in Models, RowAt(l.job, m) = {} PROVE RowAt(l.job, m)' = {}
    BY <1>1 DEF RowAt, SameRows, Match
  <1>2. ASSUME NEW m \in Models, NEW r \in RowAt(l.job, m), r.outcome = "reserved"
        PROVE  \E s \in RowAt(l.job, m)' : s.outcome = "reserved"
    BY <1>2 DEF RowAt, SameRows, Match
  <1>3. ASSUME \A r \in RowsOf(l.job, retries[l.job]) : r.outcome # "completed"
        PROVE  \A s \in RowsOf(l.job, retries[l.job])' : s.outcome # "completed"
    BY <1>3 DEF RowsOf, SameRows, Match
  <1> QED BY <1>1, <1>2, <1>3 DEF Fresh

(* The stored speech of job j is kept as long as the job. *)
Kept(j) ==
  \A r \in ledger : r.job = j =>
    /\ r.outcome = "completed" /\ r.index = retries[j] /\ job[j].state = "failed" => j \in missing
    /\ job[j].state = "deleted" => ~r.result

LEMMA KeptIs ==
  ASSUME SpeechKept
  PROVE  \A j \in Jobs : Kept(j)
  BY DEF SpeechKept, PaidResultIsKept, DeletedSpeechErased, Kept

LEMMA KeptAfter ==
  ASSUME LedgerTypeOK', \A j \in Jobs : Kept(j)'
  PROVE  SpeechKept'
  <1>1. \A r \in ledger' : r.job \in Jobs BY DEF LedgerTypeOK, Rows
  <1> QED BY <1>1 DEF SpeechKept, PaidResultIsKept, DeletedSpeechErased, Kept

LEMMA KeptStays ==
  ASSUME NEW j \in Jobs, Kept(j), SameRows(j), retries'[j] = retries[j],
         Calm(job[j], job'[j]), missing \subseteq missing'
  PROVE  Kept(j)'
  BY DEF Kept, SameRows, Match, Calm

LEMMA QuotaStays ==
  ASSUME LedgerTypeOK, QuietBut({})
  PROVE  quota \subseteq {j \in Jobs : job'[j].state \in {"failed", "deleted"}}
  BY DEF LedgerTypeOK, QuietBut, Calm

-----------------------------------------------------------------------------
(* Steps of the queue alone *)

(* The job rows move, the ledger and the runs stay as they are. *)
LEMMA SpeechQueueInv ==
  ASSUME AInv, IInv', RowsStay, UNCHANGED <<leases, claims, ledger, retries, run, reached>>,
         quota' \subseteq {j \in Jobs : job'[j].state \in {"failed", "deleted"}},
         \A j \in Jobs : Kept(j)'
  PROVE  AInv'
  <1>1. NoneGone' BY NoneGoneStays
  <1>2. LedgerTypeOK' /\ IsFiniteSet(ledger)' BY DEF AInv, LedgerTypeOK
  <1>3. SerialsOK' /\ LedgerOK' BY DEF AInv, SerialsOK, LedgerOK
  <1>4. RunsOK'
    <2> SUFFICES ASSUME NEW l \in leases, Held(l)' PROVE Fresh(l)' BY DEF RunsOK
    <2>1. Held(l) BY HeldBefore
    <2> QED BY <2>1, LeaseGen, SameLedger, FreshStays DEF AInv, RunsOK
  <1>5. CallsOK' BY SameLedger, CallsCarry DEF RetriesStay, NoneBegins
  <1>6. SpeechKept' BY <1>2, KeptAfter
  <1>7. WindowRespected' BY DEF AInv, WindowRespected
  <1> QED BY <1>1, <1>2, <1>3, <1>4, <1>5, <1>6, <1>7 DEF AInv

LEMMA QuietInv ==
  ASSUME AInv, IInv', QuietBut({}), UNCHANGED <<leases, claims>>, UNCHANGED avars
  PROVE  AInv'
  <1>1. UNCHANGED <<ledger, retries, quota, run, reached, missing>> BY DEF avars
  <1>2. quota' \subseteq {j \in Jobs : job'[j].state \in {"failed", "deleted"}}
    BY <1>1, QuotaStays DEF AInv
  <1>3. \A j \in Jobs : Kept(j)'
    BY <1>1, SameLedger, KeptIs, KeptStays DEF AInv, QuietBut
  <1> QED BY <1>1, <1>2, <1>3, SpeechQueueInv DEF QuietBut

(* A new lease has not run yet. *)
LEMMA ClaimAInv ==
  ASSUME AInv, NEW w \in Workers, Claim(w, 0), UNCHANGED avars
  PROVE  AInv'
  <1>1. UNCHANGED <<ledger, retries, quota, run, reached, missing>> BY DEF avars
  <1>2. /\ IInv' /\ QuietBut({}) /\ claims < MaxClaims /\ claims' = claims + 1
    BY ClaimQuiet
  <1>3. PICK new : new.serial = claims + 1 /\ leases' = leases \cup {new}
    BY ClaimQuiet
  <1>4. claims \in Nat /\ MaxClaims \in Nat BY TimeAssumption DEF AInv, IInv, TypeOK
  <1>5. SerialsOK BY DEF AInv
  <1>6. run'[new.serial].at = "idle" BY <1>1, <1>2, <1>3, <1>4, <1>5 DEF SerialsOK
  <1>7. RowsStay BY <1>2 DEF QuietBut
  <1>8. NoneGone' BY <1>7, NoneGoneStays
  <1>9. LedgerTypeOK' /\ IsFiniteSet(ledger)'
    BY <1>1, <1>2, QuotaStays DEF AInv, LedgerTypeOK
  <1>10. SerialsOK'
    <2>1. claims' <= MaxClaims BY <1>2, <1>4
    <2>2. \A l \in leases' : l.serial \in 1..claims' BY <1>2, <1>3, <1>4, <1>5 DEF SerialsOK
    <2>3. \A l \in leases : l.serial # new.serial BY <1>3, <1>4, <1>5 DEF SerialsOK
    <2>4. \A l, k \in leases' : l.serial = k.serial => l = k
      BY <1>3, <1>5, <2>3 DEF SerialsOK
    <2>5. \A n \in 1..MaxClaims : n > claims' => run'[n].at = "idle"
      BY <1>1, <1>2, <1>4, <1>5 DEF SerialsOK
    <2> QED BY <1>1, <1>5, <2>1, <2>2, <2>4, <2>5 DEF SerialsOK
  <1>11. LedgerOK' BY <1>1 DEF AInv, LedgerOK
  <1>12. RunsOK'
    <2> SUFFICES ASSUME NEW l \in leases', Held(l)' PROVE Fresh(l)' BY DEF RunsOK
    <2>1. CASE l \in leases
      <3>1. Held(l) BY <1>7, <2>1, HeldBefore
      <3> QED BY <1>1, <2>1, <3>1, LeaseGen, SameLedger, FreshStays DEF AInv, RunsOK
    <2>2. CASE l = new
      <3>1. (run[l.serial].at)' = "idle" BY <1>6, <2>2
      <3> QED BY <3>1 DEF Fresh
    <2> QED BY <1>3, <2>1, <2>2
  <1>13. CallsOK'
    <2>1. NoneBegins BY <1>1, <1>3, <1>6 DEF NoneBegins, Calls
    <2> QED BY <1>1, <1>2, <1>7, <2>1, SameLedger, CallsCarry DEF RetriesStay
  <1>14. SpeechKept'
    BY <1>1, <1>2, <1>9, SameLedger, KeptIs, KeptStays, KeptAfter DEF AInv, QuietBut
  <1>15. WindowRespected' BY <1>1 DEF AInv, WindowRespected
  <1> QED BY <1>2, <1>8, <1>9, <1>10, <1>11, <1>12, <1>13, <1>14, <1>15 DEF AInv

(* A run that fails has no stored result, or its media is gone. *)
LEMMA FailAInv ==
  ASSUME AInv, NEW l \in leases, Fail(l), missing \subseteq missing',
         run[l.serial].at \in {"load", "loop"} \/ l.job \in missing',
         UNCHANGED <<ledger, retries, run, reached>>, quota' \subseteq quota \cup {l.job}
  PROVE  AInv'
  <1>1. /\ IInv' /\ QuietBut({l.job}) /\ UNCHANGED <<leases, claims>>
        /\ job'[l.job].state = "failed"
    BY FailQuiet
  <1>2. Held(l) BY DEF Fail
  <1>3. l.job \in missing' \/ \A s \in RowsOf(l.job, retries[l.job]) : s.outcome # "completed"
    BY <1>2 DEF AInv, RunsOK, Fresh
  <1>4. quota' \subseteq {j \in Jobs : job'[j].state \in {"failed", "deleted"}}
    BY <1>1, LeaseGen DEF AInv, LedgerTypeOK, QuietBut, Calm
  <1>5. ASSUME NEW j \in Jobs PROVE Kept(j)'
    <2>1. CASE j = l.job BY <1>1, <1>3, <2>1 DEF Kept, RowsOf
    <2>2. CASE j # l.job
      BY <1>1, <2>2, SameLedger, KeptIs, KeptStays DEF AInv, QuietBut
    <2> QED BY <2>1, <2>2
  <1> QED BY <1>1, <1>4, <1>5, SpeechQueueInv DEF QuietBut

-----------------------------------------------------------------------------
(* Steps of a handler *)

(* The run of lease l becomes h and no other. *)
LEMMA RunOf ==
  ASSUME AInv, NEW l \in leases
  PROVE  l.serial \in 1..MaxClaims /\ run[l.serial] \in Run /\ run[l.serial] \in Sound
  BY TimeAssumption DEF AInv, SerialsOK, LedgerTypeOK, IInv, TypeOK

LEMMA RunSet ==
  ASSUME AInv, NEW l \in leases, NEW h \in Sound, run' = [run EXCEPT ![l.serial] = h],
         UNCHANGED <<leases, claims>>
  PROVE  /\ run' \in [1..MaxClaims -> Run]
         /\ run'[l.serial] = h
         /\ \A k \in leases : k # l => run'[k.serial] = run[k.serial]
         /\ SerialsOK'
  <1>1. l.serial \in 1..MaxClaims BY RunOf
  <1>2. run \in [1..MaxClaims -> Run] /\ SerialsOK BY DEF AInv, LedgerTypeOK
  <1>3. \A k \in leases : k # l => k.serial # l.serial BY <1>2 DEF SerialsOK
  <1>4. claims \in Nat /\ l.serial <= claims /\ MaxClaims \in Nat /\ l.serial \in Nat
    BY <1>2, TimeAssumption DEF SerialsOK, AInv, IInv, TypeOK
  <1>5. \A n \in 1..MaxClaims : n > claims => run'[n] = run[n] BY <1>2, <1>4
  <1>6. run' \in [1..MaxClaims -> Run] BY <1>1, <1>2 DEF Sound
  <1>7. run' \in [1..MaxClaims -> Sound] BY <1>1, <1>2 DEF SerialsOK
  <1> QED BY <1>1, <1>2, <1>3, <1>5, <1>6, <1>7 DEF SerialsOK

LEMMA RunsCarry ==
  ASSUME AInv, RowsStay, NEW l \in leases, UNCHANGED <<leases, retries>>,
         \A k \in leases : k # l => run'[k.serial] = run[k.serial],
         \A j \in Jobs \ {l.job} : SameRows(j), Held(l) \/ SameRows(l.job),
         Held(l)' => Fresh(l)'
  PROVE  RunsOK'
  <1> SUFFICES ASSUME NEW k \in leases, Held(k)', k # l PROVE Fresh(k)' BY DEF RunsOK
  <1>1. Held(k) BY HeldBefore
  <1>2. k.job \in Jobs BY LeaseGen
  <1>3. SameRows(k.job)
    <2>1. CASE Held(l) BY <1>1, <1>2, <2>1, OneHeld DEF AInv
    <2>2. CASE SameRows(l.job) BY <1>2, <2>2
    <2> QED BY <2>1, <2>2
  <1> QED BY <1>1, <1>3, <1>2, FreshStays DEF AInv, RunsOK

(* A step of a run that leaves the ledger alone. *)
LEMMA RunInvCalls ==
  ASSUME AInv, IInv', QuietBut({}), NEW l \in leases, NEW h \in Sound,
         run' = [run EXCEPT ![l.serial] = h],
         UNCHANGED <<leases, claims, ledger, retries, quota, missing>>,
         Held(l)' => Fresh(l)', CallsOK'
  PROVE  AInv'
  <1>1. /\ run' \in [1..MaxClaims -> Run] /\ run'[l.serial] = h /\ SerialsOK'
        /\ \A k \in leases : k # l => run'[k.serial] = run[k.serial]
    BY RunSet
  <1>2. RowsStay BY DEF QuietBut
  <1>3. NoneGone' BY <1>2, NoneGoneStays
  <1>4. LedgerTypeOK' /\ IsFiniteSet(ledger)' BY <1>1, QuotaStays DEF AInv, LedgerTypeOK
  <1>5. LedgerOK' BY DEF AInv, LedgerOK
  <1>6. RunsOK' BY <1>1, <1>2, LeaseGen, SameLedger, RunsCarry
  <1>7. SpeechKept'
    BY <1>4, SameLedger, KeptIs, KeptStays, KeptAfter DEF AInv, QuietBut
  <1>8. WindowRespected' BY DEF AInv, WindowRespected
  <1> QED BY <1>1, <1>3, <1>4, <1>5, <1>6, <1>7, <1>8 DEF AInv

(* One that begins no call and sends nothing. *)
LEMMA RunInv ==
  ASSUME AInv, IInv', QuietBut({}), NEW l \in leases, NEW h \in Sound,
         run' = [run EXCEPT ![l.serial] = h],
         UNCHANGED <<leases, claims, ledger, retries, quota, reached, missing>>,
         h.at \in Calls => /\ run[l.serial].at \in Calls /\ h.model = run[l.serial].model
                           /\ run[l.serial].at = "answered" => h.at = "answered",
         Held(l)' => Fresh(l)'
  PROVE  AInv'
  <1>1. NoneBegins BY RunSet DEF NoneBegins
  <1>2. CallsOK' BY <1>1, SameLedger, CallsCarry DEF RetriesStay, QuietBut
  <1> QED BY <1>2, RunInvCalls

(* No outcome of a call is mistaken for what a run knows without one. *)
LEMMA OutcomesAre ==
  /\ "none" \notin Outcomes /\ "full" \notin Outcomes
  /\ Answers \subseteq Outcomes /\ "reserved" \notin Answers /\ "uncertain" \notin Answers
  /\ {"reserved", "uncertain", "ASRUnknownOutcome", "completed"} \subseteq Outcomes
  BY LedgerAssumption DEF Outcomes, Answers

(* attempts() reads the one row a model has in the current run of the job. *)
LEMMA RecordedIs ==
  ASSUME AInv, NEW j \in Jobs, NEW m \in Models
  PROVE  /\ RowAt(j, m) = {} => Recorded(j)[m] = "none"
         /\ \A r \in RowAt(j, m) : Recorded(j)[m] = r.outcome /\ r.outcome \in Outcomes
  <1> DEFINE rows == {r \in RowsOf(j, retries[j]) : r.model = m}
             best == CHOOSE r \in rows : \A s \in rows : r.by >= s.by
  <1>1. rows = RowAt(j, m) BY DEF RowsOf, RowAt
  <1>2. Recorded(j)[m] = IF rows = {} THEN "none" ELSE best.outcome BY DEF Recorded
  <1>3. ASSUME NEW r \in rows PROVE best = r /\ r.outcome \in Outcomes
    <2>1. r \in Rows BY DEF RowsOf, AInv, LedgerTypeOK
    <2>2. r.outcome \in Outcomes /\ r.by \in Int BY <2>1 DEF Rows
    <2>3. \A s \in rows : s = r BY DEF RowsOf, AInv, LedgerOK
    <2>4. r.by >= r.by BY <2>2
    <2>5. \A s \in rows : r.by >= s.by BY <2>3, <2>4
    <2>6. best \in rows BY <2>5
    <2> QED BY <2>2, <2>3, <2>6
  <1> QED BY <1>1, <1>2, <1>3

LEMMA IdleTyped == Idle \in Run /\ Idle.at = "idle"
  <1>1. [m \in Models |-> "none"] \in [Models -> Knowledge] BY DEF Knowledge
  <1>2. 0 \in 0..MaxClaims BY TimeAssumption
  <1> QED BY <1>1, <1>2 DEF Idle, Run

LEMMA AttemptsAInv ==
  ASSUME AInv, NEW l \in leases, Attempts(l)
  PROVE  AInv'
  <1> DEFINE j == l.job
             lost == job[j].reqid /\ {r \in ledger : r.job = j} = {}
             seen == IF lost THEN [m \in Models |-> "ASRUnknownOutcome"]
                     ELSE Known(Recorded(j))
             stored == \E m \in Models : seen[m] = "completed"
             at == IF stored THEN "done" ELSE "load"
             h == [Idle EXCEPT !.at = at, !.seen = seen]
  <1>1. /\ run' = [run EXCEPT ![l.serial] = h]
        /\ UNCHANGED <<vars, ledger, retries, quota, reached, missing>>
    BY DEF Attempts
  <1>2. UNCHANGED <<job, result, principals, leases, claims>> BY <1>1 DEF vars
  <1>3. j \in Jobs BY LeaseGen
  <1>4. \A m \in Models : Recorded(j)[m] \in Outcomes \cup {"none"} BY <1>3, RecordedIs
  <1>5. ASSUME NEW m \in Models
        PROVE  /\ seen[m] \in Knowledge
               /\ seen[m] \in {"ASRUnknownOutcome", "full", Recorded(j)[m]}
               /\ ~lost => seen[m] = "full" \/ seen[m] = Recorded(j)[m]
               /\ ~lost /\ Recorded(j)[m] # "none" => seen[m] = Recorded(j)[m]
    BY <1>4, OutcomesAre DEF Known, Knowledge
  <1>6. seen \in [Models -> Knowledge]
    <2>1. seen = [m \in Models |-> seen[m]] BY DEF Known
    <2> HIDE DEF seen
    <2> QED BY <1>5, <2>1
  <1> HIDE DEF seen, lost
  <1>7. h \in Sound /\ h.at = at /\ h.seen = seen
    <2>1. at \in {"load", "done"} OBVIOUS
    <2> HIDE DEF at
    <2> QED BY <1>6, <2>1, IdleTyped DEF Run, Sound
  <1>8. Fresh(l)'
    <2>1. run'[l.serial] = h BY <1>1, <1>2, <1>7, RunSet
    <2>2. ASSUME NEW m \in Models
          PROVE  /\ seen[m] = "none" => RowAt(j, m) = {}
                 /\ seen[m] = "reserved" => \E s \in RowAt(j, m) : s.outcome = "reserved"
      BY <1>3, <1>5, RecordedIs, OutcomesAre
    <2>3. ASSUME ~stored, NEW s \in RowsOf(j, retries[j]), s.outcome = "completed"
          PROVE  FALSE
      <3>1. s \in ledger /\ s.job = j /\ s.model \in Models /\ s \in RowAt(j, s.model)
        BY <2>3 DEF RowsOf, RowAt, AInv, LedgerTypeOK, Rows
      <3>2. Recorded(j)[s.model] = "completed" BY <1>3, <2>3, <3>1, RecordedIs
      <3>3. ~lost BY <3>1 DEF lost
      <3>4. seen[s.model] = "completed" BY <1>5, <3>1, <3>2, <3>3
      <3> QED BY <2>3, <3>1, <3>4
    <2> HIDE DEF stored, h
    <2>4. /\ \A m \in Models : (RowAt(j, m))' = RowAt(j, m)
          /\ (RowsOf(j, retries[j]))' = RowsOf(j, retries[j])
      BY <1>1 DEF RowAt, RowsOf
    <2> QED BY <1>7, <2>1, <2>2, <2>3, <2>4 DEF Fresh
  <1>9. QuietBut({})
    <2>1. \A i \in Jobs : job[i] \in JobRow BY DEF AInv, IInv, TypeOK
    <2> QED BY <1>2, <2>1, SameStays DEF QuietBut, RowsStay
  <1>10. IInv' BY <1>1, NextInv DEF AInv
  <1>11. h.at \notin Calls BY <1>7 DEF Calls
  <1> HIDE DEF h
  <1> QED BY <1>1, <1>2, <1>7, <1>8, <1>9, <1>10, <1>11, RunInv

(* heartbeat(): the call goes on. *)
LEMMA BeatAInv ==
  ASSUME AInv, NEW l \in leases, Beat(l)
  PROVE  AInv'
  <1> DEFINE h == IF job[l.job].cancel THEN run[l.serial]
                  ELSE [run[l.serial] EXCEPT !.at = "sending"]
  <1>1. run[l.serial].at \in {"begun", "sending"} /\ Heartbeat(l, 0)
    BY DEF Beat
  <1>2. IInv' /\ QuietBut({}) /\ UNCHANGED <<leases, claims>> BY <1>1, KeepingQuiet
  <1>3. run[l.serial] \in Run /\ l.serial \in 1..MaxClaims BY RunOf
  <1>4. run \in [1..MaxClaims -> Run] BY DEF AInv, LedgerTypeOK
  <1>5. run' = [run EXCEPT ![l.serial] = h] BY <1>3, <1>4 DEF Beat
  <1>6. /\ h \in Sound /\ h.at \in {"begun", "sending"} /\ h.model = run[l.serial].model
        /\ h.seen = run[l.serial].seen
    BY <1>1, <1>3 DEF Run, Sound
  <1> HIDE DEF h
  <1>7. UNCHANGED <<ledger, retries, quota, reached, missing>> BY DEF Beat
  <1>8. run'[l.serial] = h BY <1>3, <1>4, <1>5
  <1>9. Fresh(l)'
    <2>1. Fresh(l) BY <1>1 DEF Heartbeat, AInv, RunsOK
    <2>2. /\ \A m \in Models : (RowAt(l.job, m))' = RowAt(l.job, m)
          /\ (RowsOf(l.job, retries[l.job]))' = RowsOf(l.job, retries[l.job])
      BY <1>7 DEF RowAt, RowsOf
    <2> QED BY <1>1, <1>6, <1>8, <2>1, <2>2 DEF Fresh, Calls
  <1> QED BY <1>1, <1>2, <1>5, <1>6, <1>7, <1>9, RunInv DEF Calls

-----------------------------------------------------------------------------
(* Windows *)

(* The requests to model m in the window of age a, out of the rows L. *)
Win(L, m, a) == {r \in L : r.model = m /\ a <= r.age /\ r.age < a + Window}

LEMMA WindowIs ==
  WindowRespected <=> \A m \in Models, a \in 0..MaxLag : Cardinality(Win(ledger, m, a)) <= Limit
  BY DEF WindowRespected, Win

LEMMA WinFinite ==
  ASSUME NEW L, IsFiniteSet(L), NEW m, NEW a
  PROVE  IsFiniteSet(Win(L, m, a)) /\ Cardinality(Win(L, m, a)) \in Nat
  <1>1. Win(L, m, a) \in SUBSET L BY DEF Win
  <1> QED BY <1>1, FS_Subset, FS_CardinalityType

(* A row that is rewritten keeps its place in every window. *)
LEMMA ReplacedWindow ==
  ASSUME NEW L, IsFiniteSet(L), NEW r \in L, NEW s, s.model = r.model, s.age = r.age,
         NEW m, NEW a
  PROVE  LET M == (L \ {r}) \cup {s}
         IN  IsFiniteSet(M) /\ Cardinality(Win(M, m, a)) <= Cardinality(Win(L, m, a))
  <1> DEFINE M == (L \ {r}) \cup {s}
             W == Win(L, m, a)
  <1>1. IsFiniteSet(W) /\ Cardinality(W) \in Nat BY WinFinite
  <1>2. IsFiniteSet(M) BY FS_RemoveElement, FS_AddElement
  <1>3. CASE r \in W
    <2>1. Win(M, m, a) \in SUBSET ((W \ {r}) \cup {s}) BY DEF Win
    <2>2. IsFiniteSet(W \ {r}) /\ Cardinality(W \ {r}) = Cardinality(W) - 1
      BY <1>1, <1>3, FS_RemoveElement
    <2>3. /\ IsFiniteSet((W \ {r}) \cup {s})
          /\ Cardinality((W \ {r}) \cup {s}) \in {Cardinality(W \ {r}), Cardinality(W \ {r}) + 1}
      BY <2>2, FS_AddElement
    <2>4. /\ IsFiniteSet((W \ {r}) \cup {s})
          /\ Cardinality((W \ {r}) \cup {s}) <= Cardinality(W)
      <3> HIDE DEF W
      <3> QED BY <1>1, <2>2, <2>3
    <2>5. Cardinality((W \ {r}) \cup {s}) \in Nat BY <2>4, FS_CardinalityType
    <2>6. /\ IsFiniteSet(Win(M, m, a))
          /\ Cardinality(Win(M, m, a)) <= Cardinality((W \ {r}) \cup {s})
      BY <2>1, <2>4, FS_Subset
    <2>7. Cardinality(Win(M, m, a)) \in Nat BY <2>6, FS_CardinalityType
    <2> HIDE DEF W, M
    <2> QED BY <1>1, <1>2, <2>4, <2>5, <2>6, <2>7 DEF M, W
  <1>4. CASE r \notin W
    <2>1. Win(M, m, a) \in SUBSET W BY <1>4 DEF Win
    <2> QED BY <1>1, <1>2, <2>1, FS_Subset
  <1> QED BY <1>3, <1>4

-----------------------------------------------------------------------------
(* Rows that a handler writes *)

(* A row of the current run is rewritten, to anything but a reservation. *)
LEMMA ReplacedRow ==
  ASSUME AInv, NEW r \in ledger, NEW s \in Rows, Match(r, s), s.age = r.age,
         r.index = retries[r.job], s.outcome # "reserved",
         ledger' = (ledger \ {r}) \cup {s}, UNCHANGED retries
  PROVE  /\ ledger' \subseteq Rows /\ IsFiniteSet(ledger')
         /\ LedgerOK' /\ WindowRespected' /\ Grows
         /\ \A j \in Jobs : j # r.job => SameRows(j)
  <1>1. /\ ledger \subseteq Rows /\ IsFiniteSet(ledger) /\ LedgerOK /\ WindowRespected
        /\ retries \in [Jobs -> 0..MaxRetries]
    BY DEF AInv, LedgerTypeOK
  <1>2. LedgerOK'
    <2>1. ASSUME NEW x \in ledger', NEW y \in ledger', Match(x, y) PROVE x = y
      <3>1. CASE x = s /\ y \in ledger \ {r} BY <1>1, <2>1, <3>1 DEF Match, LedgerOK
      <3>2. CASE y = s /\ x \in ledger \ {r} BY <1>1, <2>1, <3>2 DEF Match, LedgerOK
      <3>3. CASE x \in ledger /\ y \in ledger BY <1>1, <2>1, <3>3 DEF Match, LedgerOK
      <3> QED BY <2>1, <3>1, <3>2, <3>3
    <2>2. r.job \in Jobs /\ retries[r.job] \in Int BY <1>1 DEF Rows
    <2>3. ASSUME NEW x \in ledger'
          PROVE  /\ x.index <= retries'[x.job]
                 /\ x.outcome \in {"uncertain", "ASRUnknownOutcome"} => x.index = retries'[x.job]
      BY <1>1, <2>2 DEF Match, LedgerOK
    <2> QED BY <2>1, <2>3 DEF LedgerOK, Match
  <1>3. IsFiniteSet(ledger') /\ WindowRespected'
    <2>1. ASSUME NEW m \in Models, NEW a \in 0..MaxLag
          PROVE  Cardinality(Win(ledger', m, a)) <= Limit
      <3>1. Cardinality(Win(ledger, m, a)) <= Limit BY <1>1, WindowIs
      <3>2. /\ IsFiniteSet(ledger')
            /\ Cardinality(Win(ledger', m, a)) <= Cardinality(Win(ledger, m, a))
        BY <1>1, ReplacedWindow DEF Match
      <3>3. /\ Cardinality(Win(ledger, m, a)) \in Nat /\ Cardinality(Win(ledger', m, a)) \in Nat
            /\ Limit \in Nat
        BY <1>1, <3>2, WinFinite, LedgerAssumption
      <3> QED BY <3>1, <3>2, <3>3
    <2>2. IsFiniteSet(ledger') BY <1>1, FS_RemoveElement, FS_AddElement
    <2> QED BY <2>1, <2>2 DEF WindowRespected, Win
  <1>4. Grows BY DEF Grows, Match
  <1>5. \A j \in Jobs : j # r.job => SameRows(j) BY DEF SameRows, Match
  <1> QED BY <1>1, <1>2, <1>3, <1>4, <1>5

(* A first row for its model, with room left in the window. *)
LEMMA AddedRow ==
  ASSUME AInv, NEW s \in Rows, s.index = retries[s.job], RowAt(s.job, s.model) = {},
         HasRoom(s.model, s.age), ledger' = ledger \cup {s}, UNCHANGED retries
  PROVE  /\ ledger' \subseteq Rows /\ IsFiniteSet(ledger')
         /\ LedgerOK' /\ WindowRespected' /\ Grows
         /\ \A j \in Jobs : j # s.job => SameRows(j)
  <1>1. /\ ledger \subseteq Rows /\ IsFiniteSet(ledger) /\ LedgerOK /\ WindowRespected
        /\ retries \in [Jobs -> 0..MaxRetries]
    BY DEF AInv, LedgerTypeOK
  <1>2. LedgerOK'
    <2>1. ASSUME NEW x \in ledger', NEW y \in ledger', Match(x, y) PROVE x = y
      <3>1. CASE x = s /\ y \in ledger BY <2>1, <3>1 DEF Match, RowAt
      <3>2. CASE y = s /\ x \in ledger BY <2>1, <3>2 DEF Match, RowAt
      <3>3. CASE x \in ledger /\ y \in ledger BY <1>1, <2>1, <3>3 DEF Match, LedgerOK
      <3> QED BY <2>1, <3>1, <3>2, <3>3
    <2>2. s.job \in Jobs /\ retries[s.job] \in Int BY <1>1 DEF Rows
    <2>3. ASSUME NEW x \in ledger'
          PROVE  /\ x.index <= retries'[x.job]
                 /\ x.outcome \in {"uncertain", "ASRUnknownOutcome"} => x.index = retries'[x.job]
      BY <1>1, <2>2 DEF LedgerOK
    <2> QED BY <2>1, <2>3 DEF LedgerOK, Match
  <1>3. IsFiniteSet(ledger') BY <1>1, FS_AddElement
  <1>4. WindowRespected'
    <2>1. ASSUME NEW m \in Models, NEW a \in 0..MaxLag
          PROVE  Cardinality(Win(ledger', m, a)) <= Limit
      <3> DEFINE W == Win(ledger, m, a)
                 U == {r \in ledger : r.model = m /\ r.age < Window + s.age}
      <3>1. Cardinality(W) <= Limit BY <1>1, WindowIs
      <3>2. CASE s \notin Win(ledger', m, a)
        <4>1. Win(ledger', m, a) = W BY <3>2 DEF Win
        <4> QED BY <3>1, <4>1
      <3>3. CASE s \in Win(ledger', m, a)
        <4>1. s.model = m /\ a <= s.age /\ s.age \in Int /\ a \in Int BY <3>3 DEF Win, Rows
        <4>2. \A r \in ledger : r.age \in Int BY <1>1 DEF Rows
        <4>3. W \in SUBSET U BY <4>1, <4>2, LedgerAssumption DEF Win
        <4>4. U \in SUBSET ledger OBVIOUS
        <4>5. IsFiniteSet(U) /\ Cardinality(U) \in Nat
          BY <1>1, <4>4, FS_Subset, FS_CardinalityType
        <4>6. Cardinality(U) + 1 <= Limit BY <4>1 DEF HasRoom, Used
        <4>7. Cardinality(W) <= Cardinality(U) /\ IsFiniteSet(W) BY <4>3, <4>5, FS_Subset
        <4>8. Win(ledger', m, a) = W \cup {s} BY <3>3 DEF Win
        <4> HIDE DEF W, U
        <4>9. Cardinality(W) \in Nat BY <4>7, FS_CardinalityType
        <4>10. Cardinality(W \cup {s}) \in {Cardinality(W), Cardinality(W) + 1}
          BY <4>7, FS_AddElement
        <4>11. Limit \in Nat BY LedgerAssumption
        <4>12. Cardinality(W \cup {s}) <= Limit BY <4>5, <4>6, <4>7, <4>9, <4>10, <4>11
        <4> QED BY <4>8, <4>12
      <3> QED BY <3>2, <3>3
    <2> QED BY <2>1 DEF WindowRespected, Win
  <1>5. Grows BY DEF Grows, Match
  <1>6. \A j \in Jobs : j # s.job => SameRows(j) BY DEF SameRows, Match
  <1> QED BY <1>1, <1>2, <1>3, <1>4, <1>5, <1>6

(* The calls when lease l begins model m. *)
LEMMA BeginCalls ==
  ASSUME AInv, IInv', RowsStay, Grows, UNCHANGED <<leases, retries, reached, missing>>,
         NEW l \in leases, NEW m \in Models, Held(l),
         \A s \in RowAt(l.job, m) : s.outcome = "reserved",
         \E s \in RowAt(l.job, m)' : s.outcome # "reserved",
         run'[l.serial].at = "begun", run'[l.serial].model = m,
         \A k \in leases : k # l => run'[k.serial] = run[k.serial]
  PROVE  CallsOK'
  <1>1. CallsOK BY DEF AInv
  <1>2. ~Noted(l.job, m, l.gen) BY DEF Noted, Held, Owned
  <1>3. \A k \in leases : k.job = l.job /\ k.gen = l.gen => ~Calling(k, m)
    BY <1>1, <1>2 DEF CallsOK, Calling
  <1>4. \A c \in reached : c.job = l.job /\ c.gen = l.gen => c.model # m
    BY <1>1, <1>2 DEF CallsOK
  <1>5. RetriesStay BY DEF RetriesStay
  <1>6. ASSUME NEW k \in leases', run'[k.serial].at \in Calls
        PROVE  (run[k.serial].model \in Models /\ Noted(k.job, run[k.serial].model, k.gen))'
    <2>1. CASE k = l BY <2>1 DEF Noted
    <2>2. CASE k # l
      <3>1. PICK n : n = run[k.serial].model OBVIOUS
      <3>2. n \in Models /\ Noted(k.job, n, k.gen) BY <1>1, <1>6, <2>2, <3>1 DEF CallsOK
      <3>3. Noted(k.job, n, k.gen)' BY <1>5, <3>2, LeaseGen, NotedStays
      <3> QED BY <2>2, <3>1, <3>2, <3>3
    <2> QED BY <2>1, <2>2
  <1>7. ASSUME NEW i \in leases', NEW k \in leases', NEW n \in Models,
               i.job = k.job, i.gen = k.gen, Calling(i, n)', Calling(k, n)'
        PROVE  i = k
    <2>1. CASE i # l /\ k # l BY <1>1, <1>7, <2>1 DEF CallsOK, Calling
    <2>2. CASE i = l /\ k # l BY <1>3, <1>7, <2>2 DEF Calling
    <2>3. CASE i # l /\ k = l BY <1>3, <1>7, <2>3 DEF Calling
    <2> QED BY <2>1, <2>2, <2>3
  <1>8. ASSUME NEW c \in reached'
        PROVE  /\ c.job \in Jobs /\ c.model \in Models /\ c.gen \in Nat
               /\ job'[c.job].state # "absent" /\ c.gen <= job'[c.job].gen
               /\ Noted(c.job, c.model, c.gen)'
    BY <1>5, ReachedStays
  <1>9. ASSUME NEW k \in leases', NEW c \in reached', c.job = k.job, c.gen = k.gen,
               Calling(k, c.model)'
        PROVE  run'[k.serial].at = "answered"
    <2>1. CASE k = l BY <1>4, <1>9, <2>1 DEF Calling
    <2>2. CASE k # l BY <1>1, <1>9, <2>2 DEF CallsOK, Calling
    <2> QED BY <2>1, <2>2
  <1>10. OncePerModel' BY <1>1 DEF CallsOK, OncePerModel
  <1> QED BY <1>6, <1>7, <1>8, <1>9, <1>10 DEF CallsOK

(* A model that is still to be tried is chosen. *)
LEMMA NextModelIs ==
  ASSUME NEW n, Pending(n) # {}
  PROVE  /\ NextModel(n) \in Models
         /\ run[n].seen[NextModel(n)] \in {"none", "reserved"}
  <1>1. \E m \in Pending(n) : \A k \in Pending(n) : m <= k BY DEF Pending, Models
  <1>2. NextModel(n) \in Pending(n) BY <1>1 DEF NextModel
  <1> QED BY <1>2 DEF Pending

(* begin() has written the row and the run goes on with the call. *)
LEMMA BegunInv ==
  ASSUME AInv, IInv', QuietBut({}), NEW l \in leases, NEW m \in Models, NEW b \in 0..MaxClaims,
         Held(l), run[l.serial].at \in {"load", "loop"}, Begun(l, m, b),
         UNCHANGED <<leases, claims, retries, quota, reached, missing>>,
         \A s \in RowAt(l.job, m) : s.outcome = "reserved",
         \E s \in RowAt(l.job, m)' : s.outcome # "reserved",
         \A n \in Models \ {m} : RowAt(l.job, n)' = RowAt(l.job, n),
         \A s \in RowAt(l.job, m)' : s.outcome = "uncertain",
         ledger' \subseteq Rows, IsFiniteSet(ledger'), LedgerOK', WindowRespected', Grows,
         \A j \in Jobs : j # l.job => SameRows(j)
  PROVE  AInv'
  <1> DEFINE h == [run[l.serial] EXCEPT !.at = "begun", !.model = m, !.by = b]
  <1>1. l.serial \in 1..MaxClaims /\ run[l.serial] \in Run BY RunOf
  <1>2. h \in Sound /\ h.at = "begun" /\ h.model = m /\ h.seen = run[l.serial].seen
    BY <1>1 DEF Run, Sound
  <1>3. run' = [run EXCEPT ![l.serial] = h] BY DEF Begun
  <1> HIDE DEF h
  <1>4. /\ run' \in [1..MaxClaims -> Run] /\ run'[l.serial] = h /\ SerialsOK'
        /\ \A k \in leases : k # l => run'[k.serial] = run[k.serial]
    BY <1>2, <1>3, RunSet
  <1>5. RowsStay BY DEF QuietBut
  <1>6. NoneGone' BY <1>5, NoneGoneStays
  <1>7. LedgerTypeOK' BY <1>4, QuotaStays DEF AInv, LedgerTypeOK
  <1>8. \A s \in ledger' : s.job = l.job /\ s.index = retries[l.job] =>
          s.outcome = "uncertain" \/ s \in ledger
    <2>1. \A s \in ledger' : s.model \in Models BY DEF Rows
    <2> QED BY <2>1 DEF RowAt
  <1>9. RunsOK'
    <2>1. Fresh(l) BY DEF AInv, RunsOK
    <2>2. \A s \in RowsOf(l.job, retries[l.job])' : s.outcome # "completed"
      BY <1>8, <2>1 DEF Fresh, RowsOf
    <2>3. \A n \in Models \ {m} :
            /\ run[l.serial].seen[n] = "none" => RowAt(l.job, n) = {}
            /\ run[l.serial].seen[n] = "reserved" =>
                 \E s \in RowAt(l.job, n) : s.outcome = "reserved"
      BY <2>1 DEF Fresh, Calls
    <2>4. Fresh(l)' BY <1>2, <1>4, <2>2, <2>3 DEF Fresh, Calls
    <2> QED BY <1>4, <1>5, <2>4, RunsCarry
  <1>10. CallsOK' BY <1>2, <1>4, <1>5, BeginCalls
  <1>11. ASSUME NEW j \in Jobs PROVE Kept(j)'
    <2>1. Kept(j) /\ Calm(job[j], job'[j]) BY KeptIs DEF AInv, QuietBut
    <2>2. CASE j = l.job
      BY <2>1, <2>2 DEF Kept, Calm, Held, LEASED_STATES
    <2>3. CASE j # l.job BY <2>1, <2>3, KeptStays
    <2> QED BY <2>2, <2>3
  <1>12. SpeechKept' BY <1>7, <1>11, KeptAfter
  <1> QED BY <1>4, <1>6, <1>7, <1>9, <1>10, <1>12 DEF AInv

(* A step that leaves the queue alone. *)
LEMMA StutterQuiet ==
  ASSUME AInv, UNCHANGED vars
  PROVE  IInv' /\ QuietBut({}) /\ UNCHANGED <<job, leases, claims>>
  <1>1. \A i \in Jobs : job[i] \in JobRow BY DEF AInv, IInv, TypeOK
  <1>2. UNCHANGED <<job, leases, claims>> BY DEF vars
  <1>3. IInv' BY NextInv DEF AInv
  <1> QED BY <1>1, <1>2, <1>3, SameStays DEF QuietBut, RowsStay

LEMMA BeginAInv ==
  ASSUME AInv, NEW l \in leases, NEW lag \in 0..MaxLag, Begin(l, lag)
  PROVE  AInv'
  <1> DEFINE j == l.job
             i == retries[j]
  <1>0. PICK m : m = NextModel(l.serial) OBVIOUS
  <1> DEFINE reserved == {r \in RowsOf(j, i) : r.model = m /\ r.outcome = "reserved"}
  <1>1. /\ run[l.serial].at \in {"load", "loop"} /\ Pending(l.serial) # {} /\ LockActive(l)
        /\ UNCHANGED <<result, principals, leases, claims, retries, quota, reached, missing>>
        /\ \/ \E r \in reserved :
                /\ ledger' = (ledger \ {r}) \cup {[r EXCEPT !.outcome = "uncertain"]}
                /\ Begun(l, m, r.by)
                /\ UNCHANGED job
           \/ /\ reserved = {} /\ HasRoom(m, lag)
              /\ ledger' = ledger \cup {Reservation(j, m, i, l.serial, lag, "uncertain")}
              /\ Update(j, [job[j] EXCEPT !.reqid = TRUE])
              /\ Begun(l, m, l.serial)
           \/ /\ reserved = {} /\ ~HasRoom(m, lag)
              /\ run' = [run EXCEPT ![l.serial] = [@ EXCEPT !.at = "loop", !.seen[m] = "full"]]
              /\ UNCHANGED <<ledger, job>>
    BY <1>0 DEF Begin
  <1>2. m \in Models /\ run[l.serial].seen[m] \in {"none", "reserved"} BY <1>0, <1>1, NextModelIs
  <1>3. Held(l) BY <1>1 DEF LockActive, Held, LEASED_STATES
  <1>4. Fresh(l) BY <1>3 DEF AInv, RunsOK
  <1>5. j \in Jobs BY LeaseGen
  <1>6. l.serial \in 1..MaxClaims /\ run[l.serial] \in Run BY RunOf
  <1>7. ledger \subseteq Rows /\ retries \in [Jobs -> 0..MaxRetries] /\ LedgerOK
    BY DEF AInv, LedgerTypeOK
  <1>8. reserved = {s \in RowAt(j, m) : s.outcome = "reserved"} BY DEF RowsOf, RowAt
  <1>9. ASSUME NEW r \in reserved,
               ledger' = (ledger \ {r}) \cup {[r EXCEPT !.outcome = "uncertain"]},
               Begun(l, m, r.by), UNCHANGED job
        PROVE  AInv'
    <2> DEFINE s == [r EXCEPT !.outcome = "uncertain"]
    <2>1. /\ r \in ledger /\ r \in Rows /\ r.job = j /\ r.index = i /\ r.model = m
          /\ r.outcome = "reserved" /\ r.by \in 0..MaxClaims
      BY <1>7 DEF RowsOf, Rows
    <2>2. s \in Rows /\ Match(r, s) /\ s.age = r.age /\ s.outcome = "uncertain"
      BY <2>1, OutcomesAre DEF Rows, Match
    <2> HIDE DEF s
    <2>3. /\ ledger' \subseteq Rows /\ IsFiniteSet(ledger') /\ LedgerOK' /\ WindowRespected'
          /\ Grows /\ \A k \in Jobs : k # j => SameRows(k)
      BY <1>1, <1>9, <2>1, <2>2, ReplacedRow DEF s
    <2>4. ledger' = (ledger \ {r}) \cup {s} BY <1>9 DEF s
    <2>5. \A x \in RowAt(j, m) : x = r BY <1>7, <2>1 DEF RowAt, LedgerOK
    <2>6. (RowAt(j, m))' = {s} BY <1>1, <2>1, <2>2, <2>4, <2>5 DEF RowAt, Match
    <2>7. \A n \in Models \ {m} : (RowAt(j, n))' = RowAt(j, n)
      BY <1>1, <2>1, <2>2, <2>4 DEF RowAt, Match
    <2>8. UNCHANGED vars BY <1>1, <1>9 DEF vars
    <2> QED BY <1>1, <1>2, <1>3, <1>9, <2>1, <2>2, <2>3, <2>5, <2>6, <2>7, <2>8,
            StutterQuiet, BegunInv
  <1>10. ASSUME reserved = {}, HasRoom(m, lag),
                ledger' = ledger \cup {Reservation(j, m, i, l.serial, lag, "uncertain")},
                Update(j, [job[j] EXCEPT !.reqid = TRUE]), Begun(l, m, l.serial)
         PROVE  AInv'
    <2> DEFINE s == Reservation(j, m, i, l.serial, lag, "uncertain")
    <2>1. RecordRequestId(l) BY <1>1, <1>3, <1>10 DEF RecordRequestId
    <2>2. IInv' /\ QuietBut({}) BY <2>1, KeepingQuiet
    <2>3. RowAt(j, m) = {} BY <1>1, <1>2, <1>4, <1>8, <1>10 DEF Fresh, Calls
    <2>4. /\ s.job = j /\ s.model = m /\ s.index = i /\ s.age = lag
          /\ s.outcome = "uncertain"
      BY DEF Reservation
    <2>5. s \in Rows
      <3>1. /\ l.serial \in 0..MaxClaims /\ i \in 0..MaxRetries /\ lag \in 0..Window + MaxLag
        BY <1>5, <1>6, <1>7, TimeAssumption, LedgerAssumption
      <3>2. "uncertain" \in Outcomes BY OutcomesAre
      <3> QED BY <1>2, <1>5, <3>1, <3>2 DEF Reservation, Rows
    <2>6. ledger' = ledger \cup {s} BY <1>10
    <2> HIDE DEF s
    <2>7. /\ ledger' \subseteq Rows /\ IsFiniteSet(ledger') /\ LedgerOK' /\ WindowRespected'
          /\ Grows /\ \A k \in Jobs : k # j => SameRows(k)
      BY <1>1, <1>10, <2>3, <2>4, <2>5, <2>6, AddedRow
    <2>8. (RowAt(j, m))' = {s} BY <1>1, <2>3, <2>4, <2>6 DEF RowAt
    <2>9. \A n \in Models \ {m} : (RowAt(j, n))' = RowAt(j, n)
      BY <1>1, <2>4, <2>6 DEF RowAt
    <2>10. l.serial \in 0..MaxClaims BY <1>6
    <2> QED BY <1>1, <1>2, <1>3, <1>10, <2>2, <2>3, <2>4, <2>7, <2>8, <2>9, <2>10, BegunInv
  <1>11. ASSUME run' = [run EXCEPT ![l.serial] = [@ EXCEPT !.at = "loop", !.seen[m] = "full"]],
                UNCHANGED <<ledger, job>>
         PROVE  AInv'
    <2> DEFINE h == [run[l.serial] EXCEPT !.at = "loop", !.seen[m] = "full"]
    <2>1. /\ h \in Sound /\ h.at = "loop"
          /\ \A n \in Models : h.seen[n] = IF n = m THEN "full" ELSE run[l.serial].seen[n]
      BY <1>2, <1>6 DEF Run, Knowledge, Sound
    <2>2. run' = [run EXCEPT ![l.serial] = h] BY <1>11
    <2> HIDE DEF h
    <2>3. UNCHANGED vars BY <1>1, <1>11 DEF vars
    <2>4. run'[l.serial] = h BY <1>1, <2>1, <2>2, RunSet
    <2>5. Fresh(l)'
      <3>1. /\ \A n \in Models : (RowAt(j, n))' = RowAt(j, n)
            /\ (RowsOf(j, i))' = RowsOf(j, i)
        BY <1>1, <1>11 DEF RowAt, RowsOf
      <3> QED BY <1>1, <1>4, <2>1, <2>4, <3>1 DEF Fresh, Calls
    <2> QED BY <1>1, <1>11, <2>1, <2>2, <2>3, <2>5, StutterQuiet, RunInv DEF Calls
  <1> QED BY <1>1, <1>9, <1>10, <1>11

(* The request goes out, perhaps after the lease was lost. *)
LEMMA SendAInv ==
  ASSUME AInv, NEW l \in leases, NEW given \in Answers, Send(l, given)
  PROVE  AInv'
  <1> DEFINE h == [run[l.serial] EXCEPT !.at = "answered", !.answer = given]
  <1>1. /\ run[l.serial].at = "sending" /\ run' = [run EXCEPT ![l.serial] = h]
        /\ UNCHANGED <<vars, ledger, retries, quota, missing>>
    BY DEF Send
  <1>2. l.serial \in 1..MaxClaims /\ run[l.serial] \in Run BY RunOf
  <1>3. /\ h \in Sound /\ h.at = "answered" /\ h.model = run[l.serial].model
        /\ h.seen = run[l.serial].seen
    BY <1>2 DEF Run, Sound
  <1> HIDE DEF h
  <1>4. IInv' /\ QuietBut({}) /\ UNCHANGED <<job, leases, claims>> BY <1>1, StutterQuiet
  <1>5. /\ run'[l.serial] = h /\ \A k \in leases : k # l => run'[k.serial] = run[k.serial]
    BY <1>1, <1>3, <1>4, RunSet
  <1>6. Held(l)' => Fresh(l)'
    <2>1. Held(l)' => Fresh(l) BY <1>4, HeldBefore DEF QuietBut, AInv, RunsOK
    <2>2. /\ \A n \in Models : (RowAt(l.job, n))' = RowAt(l.job, n)
          /\ (RowsOf(l.job, retries[l.job]))' = RowsOf(l.job, retries[l.job])
      BY <1>1 DEF RowAt, RowsOf
    <2> QED BY <1>1, <1>3, <1>5, <2>1, <2>2 DEF Fresh, Calls
  <1>7. CallsOK'
    <2>1. CASE UNCHANGED reached
      <3>1. NoneBegins BY <1>1, <1>3, <1>4, <1>5 DEF NoneBegins, Calls
      <3> QED BY <1>1, <1>4, <2>1, <3>1, SameLedger, CallsCarry DEF RetriesStay, QuietBut
    <2>2. ASSUME NEW c, c.job = l.job, c.model = run[l.serial].model, c.gen = l.gen,
                 reached' = reached \cup {c}
          PROVE  CallsOK'
      <3>1. CallsOK BY DEF AInv
      <3>2. \A j, m, g : Noted(j, m, g)' = Noted(j, m, g) BY <1>1, <1>4 DEF Noted, RowAt
      <3>3. \A k \in leases : /\ run'[k.serial].at \in Calls <=> run[k.serial].at \in Calls
                              /\ run'[k.serial].model = run[k.serial].model
        BY <1>1, <1>3, <1>5 DEF Calls
      <3>4. \A k \in leases : \A m : Calling(k, m)' <=> Calling(k, m) BY <3>3 DEF Calling
      <3>5. Calling(l, c.model) /\ run[l.serial].at \in Calls BY <1>1, <2>2 DEF Calling, Calls
      <3>6. \A d \in reached : ~(d.job = c.job /\ d.model = c.model /\ d.gen = c.gen)
        BY <1>1, <2>2, <3>1, <3>5 DEF CallsOK
      <3>7. /\ c.job \in Jobs /\ c.model \in Models /\ c.gen \in Nat
            /\ job[c.job].state # "absent" /\ c.gen <= job[c.job].gen
            /\ Noted(c.job, c.model, c.gen)
        BY <2>2, <3>1, <3>5, LeaseGen DEF CallsOK
      <3>8. ASSUME NEW k \in leases', run'[k.serial].at \in Calls
            PROVE  (run[k.serial].model \in Models /\ Noted(k.job, run[k.serial].model, k.gen))'
        <4>1. PICK m : m = run[k.serial].model OBVIOUS
        <4>2. m \in Models /\ Noted(k.job, m, k.gen) BY <1>4, <3>1, <3>3, <3>8, <4>1 DEF CallsOK
        <4>3. Noted(k.job, m, k.gen)' BY <3>2, <4>2
        <4> QED BY <1>4, <3>3, <4>1, <4>2, <4>3
      <3>9. ASSUME NEW i \in leases', NEW k \in leases', NEW m \in Models,
                   i.job = k.job, i.gen = k.gen, Calling(i, m)', Calling(k, m)'
            PROVE  i = k
        BY <1>4, <3>1, <3>4, <3>9 DEF CallsOK
      <3>10. ASSUME NEW d \in reached'
             PROVE  /\ d.job \in Jobs /\ d.model \in Models /\ d.gen \in Nat
                    /\ job'[d.job].state # "absent" /\ d.gen <= job'[d.job].gen
                    /\ Noted(d.job, d.model, d.gen)'
        <4>1. CASE d = c BY <1>4, <3>2, <3>7, <4>1
        <4>2. CASE d \in reached BY <1>4, <3>1, <3>2, <4>2 DEF CallsOK
        <4> QED BY <2>2, <4>1, <4>2
      <3>11. ASSUME NEW k \in leases', NEW d \in reached', d.job = k.job, d.gen = k.gen,
                    Calling(k, d.model)'
             PROVE  run'[k.serial].at = "answered"
        <4>1. CASE k = l BY <1>3, <1>5, <4>1
        <4>2. CASE k # l /\ d \in reached
          BY <1>4, <1>5, <3>1, <3>4, <3>11, <4>2 DEF CallsOK
        <4>3. CASE k # l /\ d = c
          <5>1. Calling(k, c.model) /\ k \in leases BY <1>4, <3>4, <3>11, <4>3
          <5> QED BY <2>2, <3>1, <3>5, <3>7, <3>11, <4>3, <5>1 DEF CallsOK
        <4> QED BY <2>2, <4>1, <4>2, <4>3
      <3>12. OncePerModel' BY <2>2, <3>1, <3>6 DEF CallsOK, OncePerModel
      <3> QED BY <3>8, <3>9, <3>10, <3>11, <3>12 DEF CallsOK
    <2>3. PICK c : c = [job |-> l.job, model |-> run[l.serial].model,
                        gen |-> l.gen, by |-> l.serial]
      OBVIOUS
    <2>4. c.job = l.job /\ c.model = run[l.serial].model /\ c.gen = l.gen BY <2>3
    <2>5. UNCHANGED reached \/ reached' = reached \cup {c} BY <2>3 DEF Send
    <2> QED BY <2>1, <2>2, <2>4, <2>5
  <1> QED BY <1>1, <1>3, <1>4, <1>6, <1>7, RunInvCalls

(* complete(): the answer is stored under the lease. *)
LEMMA CompleteAInv ==
  ASSUME AInv, NEW l \in leases, Complete(l)
  PROVE  AInv'
  <1> DEFINE j == l.job
             h == run[l.serial]
             g == [h EXCEPT !.at = IF h.answer = "completed" THEN "done" ELSE "loop",
                            !.seen[h.model] = h.answer]
  <1>1. /\ h.at = "answered" /\ LockActive(l) /\ run' = [run EXCEPT ![l.serial] = g]
        /\ UNCHANGED <<vars, retries, quota, reached, missing>>
    BY DEF Complete, Continued
  <1>2. Held(l) BY <1>1 DEF LockActive, Held, LEASED_STATES
  <1>3. Fresh(l) BY <1>2 DEF AInv, RunsOK
  <1>4. j \in Jobs /\ l.serial \in 1..MaxClaims /\ h \in Run /\ h \in Sound BY RunOf, LeaseGen
  <1>5. h.answer \in Answers BY <1>1, <1>4 DEF Sound
  <1>6. h.answer \in Outcomes /\ h.answer \notin {"none", "reserved"} BY <1>5, OutcomesAre
  <1>7. h.model \in Models BY <1>1 DEF AInv, CallsOK, Calls
  <1>8. /\ g \in Sound /\ g.at = (IF h.answer = "completed" THEN "done" ELSE "loop")
        /\ \A n \in Models : g.seen[n] = IF n = h.model THEN h.answer ELSE h.seen[n]
    <2> DEFINE at == IF h.answer = "completed" THEN "done" ELSE "loop"
    <2>1. at \in {"done", "loop"} OBVIOUS
    <2> HIDE DEF at, h
    <2> QED BY <1>4, <1>6, <1>7, <2>1 DEF Run, Knowledge, Sound, at
  <1>9. PICK r \in ledger :
          /\ Finished(l, r)
          /\ ledger' = (ledger \ {r}) \cup
               {[r EXCEPT !.outcome = h.answer, !.result = (h.answer = "completed")]}
    BY DEF Complete
  <1> DEFINE s == [r EXCEPT !.outcome = h.answer, !.result = (h.answer = "completed")]
  <1>10. /\ r \in Rows /\ r.job = j /\ r.model = h.model /\ r.index = retries[j]
    BY <1>9 DEF Finished, AInv, LedgerOK, LedgerTypeOK
  <1>11. PICK t : t = s OBVIOUS
  <1>12. t \in Rows /\ Match(r, t) /\ t.age = r.age /\ t.outcome = h.answer
    BY <1>6, <1>10, <1>11 DEF Rows, Match
  <1>13. ledger' = (ledger \ {r}) \cup {t} BY <1>9, <1>11
  <1>14. /\ IInv' /\ QuietBut({}) /\ UNCHANGED <<job, leases, claims>> /\ RowsStay
    BY <1>1, StutterQuiet DEF QuietBut
  <1> HIDE DEF g, s
  <1>15. /\ ledger' \subseteq Rows /\ IsFiniteSet(ledger') /\ LedgerOK' /\ WindowRespected'
         /\ Grows /\ \A k \in Jobs : k # j => SameRows(k)
    BY <1>1, <1>6, <1>10, <1>12, <1>13, ReplacedRow
  <1>16. /\ run' \in [1..MaxClaims -> Run] /\ run'[l.serial] = g /\ SerialsOK'
         /\ \A k \in leases : k # l => run'[k.serial] = run[k.serial]
    BY <1>1, <1>8, <1>14, RunSet
  <1>17. LedgerTypeOK' BY <1>1, <1>14, <1>15, <1>16, QuotaStays DEF AInv, LedgerTypeOK
  <1>18. RunsOK'
    <2>1. \A n \in Models : n # h.model => (RowAt(j, n))' = RowAt(j, n)
      BY <1>1, <1>10, <1>12, <1>13 DEF RowAt, Match
    <2>2. h.answer # "completed" =>
            \A x \in RowsOf(j, retries[j])' : x.outcome # "completed"
      BY <1>1, <1>3, <1>12, <1>13 DEF Fresh, RowsOf
    <2>3. Fresh(l)'
      <3>1. g.at \notin Calls BY <1>8 DEF Calls
      <3>2. ASSUME NEW n \in Models
            PROVE  /\ g.seen[n] = "none" => (RowAt(j, n))' = {}
                   /\ g.seen[n] = "reserved" =>
                        \E x \in RowAt(j, n)' : x.outcome = "reserved"
        <4>1. CASE n = h.model BY <1>6, <1>8, <4>1
        <4>2. CASE n # h.model BY <1>1, <1>3, <1>8, <2>1, <4>2 DEF Fresh
        <4> QED BY <4>1, <4>2
      <3>3. g.at # "done" => h.answer # "completed" BY <1>8
      <3> HIDE DEF h
      <3> QED BY <1>16, <2>2, <3>1, <3>2, <3>3 DEF Fresh
    <2> QED BY <1>1, <1>2, <1>14, <1>15, <1>16, <2>3, RunsCarry
  <1>19. CallsOK'
    <2>1. g.at \notin Calls BY <1>8 DEF Calls
    <2>2. NoneBegins BY <1>14, <1>16, <2>1 DEF NoneBegins
    <2> QED BY <1>1, <1>14, <1>15, <2>2, CallsCarry DEF RetriesStay
  <1>20. ASSUME NEW i \in Jobs PROVE Kept(i)'
    <2>1. CASE i = j BY <1>1, <1>14, <2>1 DEF Kept, LockActive
    <2>2. CASE i # j BY <1>1, <1>14, <1>15, <2>2, KeptIs, KeptStays DEF AInv, QuietBut
    <2> QED BY <2>1, <2>2
  <1>21. SpeechKept' BY <1>17, <1>20, KeptAfter
  <1>22. NoneGone' BY <1>14, NoneGoneStays
  <1> QED BY <1>14, <1>15, <1>16, <1>17, <1>18, <1>19, <1>21, <1>22 DEF AInv

-----------------------------------------------------------------------------
(* Steps that rewrite the whole ledger: deletion and time *)

LEMMA ImageBound ==
  ASSUME NEW S, IsFiniteSet(S), NEW f, NEW T, T \subseteq {f[x] : x \in S}
  PROVE  IsFiniteSet(T) /\ Cardinality(T) <= Cardinality(S)
  <1> DEFINE I == {f[x] : x \in S}
             g == [x \in S |-> f[x]]
  <1>1. g \in Surjection(S, I) BY DEF Surjection
  <1>2. IsFiniteSet(I) /\ Cardinality(I) <= Cardinality(S) BY <1>1, FS_Surjection
  <1>3. T \in SUBSET I OBVIOUS
  <1>4. IsFiniteSet(T) /\ Cardinality(T) <= Cardinality(I) BY <1>2, <1>3, FS_Subset
  <1>5. /\ Cardinality(T) \in Nat /\ Cardinality(I) \in Nat /\ Cardinality(S) \in Nat
    BY <1>2, <1>4, FS_CardinalityType
  <1> HIDE DEF I
  <1> QED BY <1>2, <1>4, <1>5

(* Every row r becomes f[r], of the same run, model and outcome. *)
LEMMA MappedRows ==
  ASSUME AInv, NEW f, ledger' = {f[r] : r \in ledger}, UNCHANGED retries,
         \A r \in ledger : /\ f[r] \in Rows /\ Match(r, f[r]) /\ f[r].outcome = r.outcome
                           /\ f[r].result => r.result
  PROVE  /\ ledger' \subseteq Rows /\ IsFiniteSet(ledger')
         /\ LedgerOK' /\ Grows /\ \A j \in Jobs : SameRows(j)
  <1>1. IsFiniteSet(ledger') BY ImageBound DEF AInv
  <1>2. LedgerOK'
    <2>1. ASSUME NEW x \in ledger', NEW y \in ledger', Match(x, y) PROVE x = y
      <3>1. PICK r \in ledger : x = f[r] OBVIOUS
      <3>2. PICK s \in ledger : y = f[s] OBVIOUS
      <3>3. r = s BY <2>1, <3>1, <3>2 DEF AInv, LedgerOK, Match
      <3> QED BY <3>1, <3>2, <3>3
    <2>2. ASSUME NEW x \in ledger'
          PROVE  /\ x.index <= retries'[x.job]
                 /\ x.outcome \in {"uncertain", "ASRUnknownOutcome"} => x.index = retries'[x.job]
      BY DEF AInv, LedgerOK, Match
    <2> QED BY <2>1, <2>2 DEF LedgerOK, Match
  <1>3. \A j \in Jobs : SameRows(j) BY DEF SameRows, Match
  <1>4. Grows BY <1>3, SameRowsGrow DEF AInv
  <1> QED BY <1>1, <1>2, <1>3, <1>4

(* The ledger is rewritten so, and the runs stay as they are. *)
LEMMA MappedInv ==
  ASSUME AInv, IInv', RowsStay, UNCHANGED <<leases, claims, retries, run, reached, missing>>,
         NEW f, ledger' = {f[r] : r \in ledger},
         \A r \in ledger : /\ f[r] \in Rows /\ Match(r, f[r]) /\ f[r].outcome = r.outcome
                           /\ f[r].result => r.result,
         quota' \subseteq {j \in Jobs : job'[j].state \in {"failed", "deleted"}},
         \A j \in Jobs : Kept(j)', WindowRespected'
  PROVE  AInv'
  <1>1. /\ ledger' \subseteq Rows /\ IsFiniteSet(ledger')
        /\ LedgerOK' /\ Grows /\ \A j \in Jobs : SameRows(j)
    BY MappedRows
  <1>2. NoneGone' BY NoneGoneStays
  <1>3. LedgerTypeOK' BY <1>1 DEF AInv, LedgerTypeOK
  <1>4. SerialsOK' BY DEF AInv, SerialsOK
  <1>5. RunsOK'
    <2> SUFFICES ASSUME NEW l \in leases, Held(l)' PROVE Fresh(l)' BY DEF RunsOK
    <2>1. Held(l) BY HeldBefore
    <2> QED BY <1>1, <2>1, LeaseGen, FreshStays DEF AInv, RunsOK
  <1>6. CallsOK' BY <1>1, CallsCarry DEF RetriesStay, NoneBegins
  <1>7. SpeechKept' BY <1>3, KeptAfter
  <1> QED BY <1>1, <1>2, <1>3, <1>4, <1>5, <1>6, <1>7 DEF AInv

(* A window that is the image of an earlier one is as full at most. *)
LEMMA WindowBound ==
  ASSUME AInv, NEW m \in Models, NEW a \in 0..MaxLag, NEW f, NEW T,
         T \subseteq {f[r] : r \in Win(ledger, m, a)}
  PROVE  Cardinality(T) <= Limit
  <1> DEFINE W == Win(ledger, m, a)
  <1>1. Cardinality(W) <= Limit BY WindowIs DEF AInv
  <1>2. IsFiniteSet(W) /\ Cardinality(W) \in Nat BY WinFinite DEF AInv
  <1> HIDE DEF W
  <1>3. IsFiniteSet(T) /\ Cardinality(T) <= Cardinality(W) BY <1>2, ImageBound DEF W
  <1>4. Cardinality(T) \in Nat /\ Limit \in Nat BY <1>3, FS_CardinalityType, LedgerAssumption
  <1> QED BY <1>1, <1>2, <1>3, <1>4

LEMMA DeleteAInv ==
  ASSUME AInv, NEW j \in Jobs, DeleteSpeech(j)
  PROVE  AInv'
  <1> DEFINE f == [r \in ledger |-> IF r.job = j THEN [r EXCEPT !.result = FALSE] ELSE r]
  <1>1. /\ IInv' /\ QuietBut({j}) /\ UNCHANGED <<leases, claims>> /\ job'[j].state = "deleted"
    BY DeleteQuiet DEF DeleteSpeech
  <1>2. ledger' = {f[r] : r \in ledger} /\ UNCHANGED <<retries, quota, run, reached, missing>>
    BY DEF DeleteSpeech
  <1>3. ASSUME NEW r \in ledger
        PROVE  /\ f[r] \in Rows /\ Match(r, f[r]) /\ f[r].outcome = r.outcome
               /\ f[r].result => r.result
               /\ f[r].age = r.age /\ (r.job = j => ~f[r].result)
    BY DEF AInv, LedgerTypeOK, Rows, Match
  <1> HIDE DEF f
  <1>4. quota' \subseteq {i \in Jobs : job'[i].state \in {"failed", "deleted"}}
    BY <1>1, <1>2 DEF AInv, LedgerTypeOK, QuietBut, Calm
  <1>5. ASSUME NEW i \in Jobs PROVE Kept(i)'
    <2>1. CASE i = j BY <1>1, <1>2, <1>3, <2>1 DEF Kept, Match
    <2>2. CASE i # j
      <3>1. SameRows(i) BY <1>2, <1>3, MappedRows
      <3> QED BY <1>1, <1>2, <2>2, <3>1, KeptIs, KeptStays DEF AInv, QuietBut
    <2> QED BY <2>1, <2>2
  <1>6. ASSUME NEW m \in Models, NEW a \in 0..MaxLag
        PROVE  Cardinality(Win(ledger', m, a)) <= Limit
    <2>1. Win(ledger', m, a) \subseteq {f[r] : r \in Win(ledger, m, a)}
      BY <1>2, <1>3 DEF Win, Match
    <2> QED BY <2>1, WindowBound
  <1>7. WindowRespected' BY <1>6 DEF WindowRespected, Win
  <1> QED BY <1>1, <1>2, <1>3, <1>4, <1>5, <1>7, MappedInv DEF QuietBut

(* The media of a failed job goes. *)
LEMMA MediaAInv ==
  ASSUME AInv, NEW j \in Jobs, DeleteMedia(j)
  PROVE  AInv'
  <1>1. UNCHANGED <<vars, ledger, retries, quota, run, reached>> /\ missing \subseteq missing'
    BY DEF DeleteMedia
  <1>2. IInv' /\ QuietBut({}) /\ UNCHANGED <<job, leases, claims>> BY <1>1, StutterQuiet
  <1>3. quota' \subseteq {i \in Jobs : job'[i].state \in {"failed", "deleted"}}
    BY <1>1, <1>2, QuotaStays DEF AInv
  <1>4. \A i \in Jobs : Kept(i)'
    BY <1>1, <1>2, SameLedger, KeptIs, KeptStays DEF AInv, QuietBut
  <1> QED BY <1>1, <1>2, <1>3, <1>4, SpeechQueueInv DEF QuietBut

(* The clock moves on and the windows with it. *)
LEMMA TimeAInv ==
  ASSUME AInv, Time
  PROVE  AInv'
  <1> DEFINE f == [r \in ledger |-> Older(r)]
  <1>1. IInv' /\ QuietBut({}) /\ UNCHANGED <<leases, claims>>
    BY TickQuiet DEF Time
  <1>2. ledger' = {f[r] : r \in ledger} /\ UNCHANGED <<retries, quota, run, reached, missing>>
    BY DEF Time
  <1>3. ASSUME NEW r \in ledger
        PROVE  /\ f[r] \in Rows /\ Match(r, f[r]) /\ f[r].outcome = r.outcome
               /\ f[r].result => r.result
               /\ r.age \in 0..Window + MaxLag
               /\ f[r].age = IF r.age < Window + MaxLag THEN r.age + 1 ELSE r.age
    <2>1. r \in Rows BY DEF AInv, LedgerTypeOK
    <2>2. Window \in Nat /\ MaxLag \in Nat BY LedgerAssumption, TimeAssumption
    <2>3. r.age \in 0..Window + MaxLag BY <2>1 DEF Rows
    <2>4. (IF r.age < Window + MaxLag THEN r.age + 1 ELSE r.age) \in 0..Window + MaxLag
      BY <2>2, <2>3
    <2> QED BY <2>1, <2>3, <2>4 DEF Older, Rows, Match
  <1> HIDE DEF f
  <1>4. quota' \subseteq {i \in Jobs : job'[i].state \in {"failed", "deleted"}}
    BY <1>1, <1>2, QuotaStays DEF AInv
  <1>5. ASSUME NEW i \in Jobs PROVE Kept(i)'
    <2>1. SameRows(i) BY <1>2, <1>3, MappedRows
    <2> QED BY <1>1, <1>2, <2>1, KeptIs, KeptStays DEF AInv, QuietBut
  <1>6. ASSUME NEW m \in Models, NEW a \in 0..MaxLag
        PROVE  Cardinality(Win(ledger', m, a)) <= Limit
    <2> DEFINE b == IF a = 0 THEN 0 ELSE a - 1
    <2>1. b \in 0..MaxLag BY TimeAssumption
    <2>2. Window \in Nat /\ MaxLag \in Nat BY LedgerAssumption, TimeAssumption
    <2>3. ASSUME NEW r \in ledger, f[r].model = m, a <= f[r].age, f[r].age < a + Window
          PROVE  r \in Win(ledger, m, b)
      <3>1. r.age < Window + MaxLag /\ f[r].age = r.age + 1 BY <1>3, <2>2, <2>3
      <3>2. b <= r.age /\ r.age < b + Window BY <1>3, <2>2, <2>3, <3>1
      <3>3. r.model = m BY <1>3, <2>3 DEF Match
      <3> QED BY <3>2, <3>3 DEF Win
    <2>4. Win(ledger', m, a) \subseteq {f[r] : r \in Win(ledger, m, b)}
      BY <1>2, <2>3 DEF Win
    <2> HIDE DEF b
    <2> QED BY <2>1, <2>4, WindowBound
  <1>7. WindowRespected' BY <1>6 DEF WindowRespected, Win
  <1> QED BY <1>1, <1>2, <1>3, <1>4, <1>5, <1>7, MappedInv DEF QuietBut

-----------------------------------------------------------------------------
(* The owner's retry *)

LEMMA RequeueQuiet ==
  ASSUME AInv, RetrySpeech
  PROVE  /\ IInv' /\ QuietBut(Blocked) /\ UNCHANGED <<leases, claims>>
         /\ \A j \in Blocked : job'[j].state = "queued" /\ job'[j].gen # job[j].gen
  <1>1. /\ IInv /\ UNCHANGED <<result, principals, leases, claims>>
        /\ Requeue(Blocked)
        /\ \A j \in Blocked : job[j].state = "failed" /\ ~job[j].cancel
    BY DEF AInv, RetrySpeech, Blocked, InTable, JobState
  <1>2. ASSUME NEW j \in Jobs
        PROVE  /\ job'[j] \in JobRow /\ RowOK(j, job'[j], result[j], leases)
               /\ Stays(job[j], job'[j])
               /\ j \notin Blocked => job'[j] = job[j]
               /\ j \in Blocked => job'[j].state = "queued" /\ job'[j].gen # job[j].gen
    <2> DEFINE r == job[j]
               q == job'[j]
    <2>1. r \in JobRow /\ RowOK(j, r, result[j], leases) BY <1>1 DEF IInv, TypeOK
    <2>2. CASE j \notin Blocked
      <3>1. q = r BY <1>1, <2>2 DEF Requeue
      <3> QED BY <2>1, <2>2, <3>1, SameStays
    <2>3. CASE j \in Blocked
      <3> DEFINE zero == [c \in Classes |-> 0]
      <3>1. q = [r EXCEPT !.state = "queued", !.gen = @ + 1, !.reqid = TRUE, !.counts = zero]
        BY <1>1, <2>3 DEF Requeue
      <3>2. r.state = "failed" /\ ~r.cancel BY <1>1, <2>3
      <3>3. zero \in [Classes -> Nat] OBVIOUS
      <3> HIDE DEF r, q, zero
      <3>4. r.gen \in Nat /\ r.gen + 1 \in Nat /\ r.token \in Nat BY <2>1 DEF JobRow
      <3>5. /\ q \in JobRow /\ q.state = "queued" /\ q.gen = r.gen + 1
            /\ q.token = r.token /\ q.cancel = r.cancel /\ q.lessee = r.lessee
            /\ q.data = r.data
        BY <2>1, <3>1, <3>3, <3>4 DEF JobRow, JobState
      <3>6. \A l \in leases : l.job = j => l.token <= r.token /\ l.gen <= r.gen /\ l.gen \in Nat
        BY <1>1, <2>1, <3>2, LeaseRow DEF RowOK
      <3>7. RowOK(j, q, result[j], leases)
        BY <2>1, <3>2, <3>4, <3>5, <3>6 DEF RowOK, LEASED_STATES, CheckInvariants
      <3>8. Stays(r, q) BY <3>2, <3>4, <3>5 DEF Stays, LEASED_STATES
      <3> QED BY <2>3, <3>4, <3>5, <3>7, <3>8 DEF r, q
    <2> QED BY <2>2, <2>3
  <1>3. job' \in [Jobs -> JobRow] BY <1>1, <1>2 DEF Requeue
  <1>4. IInv' BY <1>1, <1>2, <1>3, ManyRows DEF IInv, TypeOK
  <1>5. \A j \in Jobs : job[j] \in JobRow BY <1>1 DEF IInv, TypeOK
  <1>6. QuietBut(Blocked) BY <1>2, <1>5, SameStays DEF QuietBut, RowsStay
  <1>7. Blocked \subseteq Jobs BY DEF Blocked
  <1> QED BY <1>1, <1>2, <1>4, <1>6, <1>7

(* The reservations of a retry find room in the window. *)
LEMMA ReservedWindow ==
  ASSUME AInv, NEW to \in Assignments, NEW f,
         \A j \in Blocked : f[j].model = to[j] /\ f[j].age = 0,
         NEW m \in Models, NEW a \in 0..MaxLag
  PROVE  LET M == ledger \cup {f[j] : j \in Blocked}
         IN  IsFiniteSet(M) /\ Cardinality(Win(M, m, a)) <= Limit
  <1> DEFINE N == {f[j] : j \in Blocked}
             M == ledger \cup N
             W == Win(ledger, m, a)
             B == {j \in Blocked : to[j] = m}
  <1>1. IsFiniteSet(ledger) /\ WindowRespected /\ ledger \subseteq Rows
    BY DEF AInv, LedgerTypeOK
  <1>2. Limit \in Nat /\ Window \in Nat /\ MaxLag \in Nat /\ IsFiniteSet(Jobs)
    BY LedgerAssumption, TimeAssumption
  <1>3. IsFiniteSet(Blocked) /\ IsFiniteSet(B)
    <2>1. Blocked \in SUBSET Jobs /\ B \in SUBSET Jobs BY DEF Blocked
    <2> QED BY <1>2, <2>1, FS_Subset
  <1>4. IsFiniteSet(N) BY <1>3, ImageBound
  <1>5. IsFiniteSet(M) BY <1>1, <1>4, FS_Union
  <1>6. IsFiniteSet(W) /\ Cardinality(W) \in Nat /\ Cardinality(W) <= Limit
    BY <1>1, WinFinite, WindowIs
  <1>7. CASE a > 0 \/ Window = 0
    <2>1. \A x \in N : ~(a <= x.age /\ x.age < a + Window) BY <1>2, <1>7
    <2>2. Win(M, m, a) = W BY <2>1 DEF Win
    <2> QED BY <1>5, <1>6, <2>2
  <1>8. CASE ~(a > 0 \/ Window = 0)
    <2>1. a = 0 /\ a \in Int BY <1>2, <1>8
    <2>2. W = {r \in ledger : r.model = m /\ r.age < Window + 0}
      BY <1>1, <1>2, <2>1 DEF Win, Rows
    <2>3. Used(m, 0) = Cardinality(W) BY <2>2 DEF Used
    <2>4. Cardinality(B) <= (IF Cardinality(W) >= Limit THEN 0 ELSE Limit - Cardinality(W))
      BY <2>3 DEF Assignments
    <2>5. Cardinality(B) \in Nat BY <1>3, FS_CardinalityType
    <2> DEFINE T == {f[j] : j \in B}
    <2>6. IsFiniteSet(T) /\ Cardinality(T) <= Cardinality(B) BY <1>3, ImageBound
    <2>7. Win(M, m, a) \in SUBSET (W \cup T) BY DEF Win
    <2>8. Cardinality(T) \in Nat BY <2>6, FS_CardinalityType
    <2> HIDE DEF W, T, B, M
    <2>9. IsFiniteSet(W \cap T) /\ Cardinality(W \cap T) \in Nat
      <3>1. (W \cap T) \in SUBSET W OBVIOUS
      <3> QED BY <1>6, <3>1, FS_Subset, FS_CardinalityType
    <2>10. /\ IsFiniteSet(W \cup T)
           /\ Cardinality(W \cup T) = Cardinality(W) + Cardinality(T) - Cardinality(W \cap T)
      BY <1>6, <2>6, FS_Union
    <2>11. Cardinality(W \cup T) <= Limit /\ Cardinality(W \cup T) \in Int
      BY <1>2, <1>6, <2>4, <2>5, <2>6, <2>8, <2>9, <2>10
    <2>12. IsFiniteSet(Win(M, m, a)) /\ Cardinality(Win(M, m, a)) <= Cardinality(W \cup T)
      BY <2>7, <2>10, FS_Subset
    <2>13. Cardinality(Win(M, m, a)) \in Nat BY <2>12, FS_CardinalityType
    <2>14. Cardinality(Win(M, m, a)) <= Limit BY <1>2, <2>11, <2>12, <2>13
    <2> QED BY <1>5, <2>14 DEF M
  <1> QED BY <1>7, <1>8

LEMMA RetryAInv ==
  ASSUME AInv, RetrySpeech
  PROVE  AInv'
  <1>1. /\ IInv' /\ QuietBut(Blocked) /\ UNCHANGED <<leases, claims>>
        /\ \A j \in Blocked : job'[j].state = "queued" /\ job'[j].gen # job[j].gen
    BY RequeueQuiet
  <1>2. RowsStay /\ \A j \in Jobs \ Blocked : Calm(job[j], job'[j]) BY <1>1 DEF QuietBut
  <1>3. PICK to \in Assignments :
          ledger' = ledger \cup {Reservation(j, to[j], retries[j] + 1, 0, 0, "reserved") :
                                   j \in Blocked}
    BY DEF RetrySpeech
  <1>4. PICK B : B = Blocked OBVIOUS
  <1> DEFINE F == [j \in B |-> Reservation(j, to[j], retries[j] + 1, 0, 0, "reserved")]
  <1>5. PICK f : f = F OBVIOUS
  <1>6. /\ retries' = [j \in Jobs |-> retries[j] + IF j \in B THEN 1 ELSE 0]
        /\ quota' = quota \ B /\ UNCHANGED <<run, reached, missing>>
        /\ \A j \in B : retries[j] < MaxRetries
    BY <1>4 DEF RetrySpeech
  <1>7. ledger' = ledger \cup {f[j] : j \in B} BY <1>3, <1>4, <1>5
  <1>8. B \subseteq Jobs /\ \A j \in B : job[j].state = "failed" /\ ReplaySafe(j)
    BY <1>4 DEF Blocked
  <1>9. /\ ledger \subseteq Rows /\ retries \in [Jobs -> 0..MaxRetries] /\ LedgerOK
        /\ MaxRetries \in Nat
    BY LedgerAssumption DEF AInv, LedgerTypeOK
  <1>10. ASSUME NEW j \in B
         PROVE  /\ f[j] \in Rows /\ f[j].job = j /\ f[j].model = to[j] /\ f[j].age = 0
                /\ f[j].index = retries[j] + 1 /\ f[j].outcome = "reserved"
    <2>1. to[j] \in Models BY <1>4 DEF Assignments
    <2>2. retries[j] + 1 \in 0..MaxRetries BY <1>6, <1>8, <1>9
    <2>3. 0 \in 0..MaxClaims /\ 0 \in 0..Window + MaxLag BY LedgerAssumption, TimeAssumption
    <2>4. f[j] = Reservation(j, to[j], retries[j] + 1, 0, 0, "reserved") BY <1>5
    <2>5. "reserved" \in Outcomes BY OutcomesAre
    <2> QED BY <1>8, <2>1, <2>2, <2>3, <2>4, <2>5 DEF Reservation, Rows
  <1> HIDE DEF F
  <1>11. \A j \in Jobs : /\ retries[j] \in Nat
                         /\ retries'[j] = IF j \in B THEN retries[j] + 1 ELSE retries[j]
    BY <1>6, <1>9
  <1>12. retries' \in [Jobs -> 0..MaxRetries]
    <2>1. \A j \in Jobs : retries[j] + (IF j \in B THEN 1 ELSE 0) \in 0..MaxRetries
      BY <1>6, <1>9
    <2> QED BY <1>6, <2>1
  <1>13. LedgerTypeOK'
    <2>1. ledger' \subseteq Rows BY <1>7, <1>9, <1>10
    <2>2. quota' \subseteq {j \in Jobs : job'[j].state \in {"failed", "deleted"}}
      BY <1>2, <1>4, <1>6 DEF AInv, LedgerTypeOK, Calm
    <2>3. run' \in [1..MaxClaims -> Run] BY <1>6 DEF AInv, LedgerTypeOK
    <2> QED BY <1>12, <2>1, <2>2, <2>3 DEF LedgerTypeOK
  <1>14. LedgerOK'
    <2>1. \A r \in ledger : r.job \in Jobs /\ r.index \in Int /\ r.index <= retries[r.job]
      BY <1>9 DEF Rows, LedgerOK
    <2>2. \A r \in ledger, j \in B : ~(r.job = j /\ r.index = retries[j] + 1)
      BY <1>8, <1>11, <2>1
    <2>3. ASSUME NEW x \in ledger', NEW y \in ledger', Match(x, y) PROVE x = y
      <3>1. CASE x \in ledger /\ y \in ledger BY <1>9, <2>3, <3>1 DEF LedgerOK, Match
      <3>2. ASSUME NEW j \in B, x = f[j], y \in ledger PROVE FALSE
        BY <1>10, <2>2, <2>3, <3>2 DEF Match
      <3>3. ASSUME NEW j \in B, y = f[j], x \in ledger PROVE FALSE
        BY <1>10, <2>2, <2>3, <3>3 DEF Match
      <3>4. ASSUME NEW i \in B, NEW j \in B, x = f[i], y = f[j] PROVE x = y
        BY <1>10, <2>3, <3>4 DEF Match
      <3> QED BY <1>7, <3>1, <3>2, <3>3, <3>4
    <2>4. ASSUME NEW x \in ledger'
          PROVE  /\ x.index <= retries'[x.job]
                 /\ x.outcome \in {"uncertain", "ASRUnknownOutcome"} => x.index = retries'[x.job]
      <3>1. CASE x \in ledger
        <4>1. x.index <= retries'[x.job] BY <1>11, <2>1, <3>1
        <4>2. ASSUME x.outcome \in {"uncertain", "ASRUnknownOutcome"}
              PROVE  x.index = retries'[x.job]
          <5>1. x.index = retries[x.job] BY <1>9, <3>1, <4>2 DEF LedgerOK
          <5>2. x.job \notin B
            BY <1>8, <3>1, <4>2, <5>1 DEF ReplaySafe, RowsOf, UNSAFE_TO_RESEND
          <5> QED BY <1>11, <2>1, <3>1, <5>1, <5>2
        <4> QED BY <4>1, <4>2
      <3>2. ASSUME NEW j \in B, x = f[j]
            PROVE  x.index <= retries'[x.job] /\ x.outcome = "reserved"
        BY <1>8, <1>10, <1>11, <3>2
      <3> QED BY <1>7, <3>1, <3>2
    <2> QED BY <2>3, <2>4 DEF LedgerOK, Match
  <1>15. IsFiniteSet(ledger') /\ WindowRespected'
    <2>1. ASSUME NEW m \in Models, NEW a \in 0..MaxLag
          PROVE  IsFiniteSet(ledger') /\ Cardinality(Win(ledger', m, a)) <= Limit
      <3>1. \A j \in Blocked : f[j].model = to[j] /\ f[j].age = 0 BY <1>4, <1>10
      <3>2. ledger' = ledger \cup {f[j] : j \in Blocked} BY <1>4, <1>7
      <3> QED BY <3>1, <3>2, ReservedWindow
    <2>2. 1 \in Models /\ 0 \in 0..MaxLag BY TimeAssumption DEF Models
    <2> QED BY <2>1, <2>2 DEF WindowRespected, Win
  <1>16. \A j \in Jobs \ B : SameRows(j) BY <1>7, <1>10 DEF SameRows, Match
  <1>17. Grows BY <1>7 DEF Grows, Match
  <1>18. RunsOK'
    <2> SUFFICES ASSUME NEW l \in leases, Held(l)' PROVE Fresh(l)' BY <1>1 DEF RunsOK
    <2>1. Held(l) BY <1>2, HeldBefore
    <2>2. l.job \in Jobs \ B BY <1>8, <2>1, LeaseGen DEF Held, LEASED_STATES
    <2>3. Fresh(l) BY <2>1 DEF AInv, RunsOK
    <2> QED BY <1>6, <1>11, <1>16, <2>2, <2>3, FreshStays
  <1>19. CallsOK'
    <2>1. RetriesStay BY <1>1, <1>4, <1>11 DEF RetriesStay
    <2>2. NoneBegins BY <1>1, <1>6 DEF NoneBegins
    <2> QED BY <1>1, <1>2, <1>6, <1>17, <2>1, <2>2, CallsCarry
  <1>20. ASSUME NEW j \in Jobs PROVE Kept(j)'
    <2>1. CASE j \in B BY <1>1, <1>4, <2>1 DEF Kept
    <2>2. CASE j \notin B
      BY <1>2, <1>4, <1>6, <1>11, <1>16, <2>2, KeptIs, KeptStays DEF AInv
    <2> QED BY <2>1, <2>2
  <1>21. SpeechKept' BY <1>13, <1>20, KeptAfter
  <1>22. SerialsOK' BY <1>1, <1>6 DEF AInv, SerialsOK
  <1>23. NoneGone' BY <1>2, NoneGoneStays
  <1> QED BY <1>1, <1>13, <1>14, <1>15, <1>18, <1>19, <1>21, <1>22, <1>23 DEF AInv

-----------------------------------------------------------------------------
(* The invariant holds *)

LEMMA AInitInv == AInit => AInv
  <1> SUFFICES ASSUME AInit PROVE AInv OBVIOUS
  <1>1. /\ Init /\ ledger = {} /\ retries = [j \in Jobs |-> 0] /\ quota = {}
        /\ run = [n \in 1..MaxClaims |-> Idle] /\ reached = {}
    BY DEF AInit
  <1>2. leases = {} /\ claims = 0 /\ \A j \in Jobs : job[j].state = "absent"
    BY <1>1 DEF Init, Blank
  <1>3. IInv BY <1>1, InitInv
  <1>4. NoneGone BY <1>2 DEF NoneGone
  <1>5. LedgerTypeOK
    <2>1. 0 \in 0..MaxRetries BY LedgerAssumption
    <2> QED BY <1>1, <2>1, IdleTyped DEF LedgerTypeOK
  <1>6. IsFiniteSet(ledger) BY <1>1, FS_EmptySet
  <1>7. SerialsOK BY <1>1, <1>2, IdleTyped, TimeAssumption DEF SerialsOK, Sound
  <1>8. LedgerOK /\ SpeechKept
    BY <1>1 DEF LedgerOK, SpeechKept, PaidResultIsKept, DeletedSpeechErased
  <1>9. RunsOK BY <1>2 DEF RunsOK
  <1>10. CallsOK BY <1>1, <1>2 DEF CallsOK, OncePerModel
  <1>11. WindowRespected
    <2>1. \A m \in Models, a \in 0..MaxLag : Win(ledger, m, a) = {} BY <1>1 DEF Win
    <2>2. Cardinality({}) = 0 /\ 0 <= Limit BY FS_EmptySet, LedgerAssumption
    <2> QED BY <2>1, <2>2, WindowIs
  <1> QED BY <1>3, <1>4, <1>5, <1>6, <1>7, <1>8, <1>9, <1>10, <1>11 DEF AInv

LEMMA HandlerAInv ==
  ASSUME AInv, NEW l \in leases, HandlerStep(l)
  PROVE  AInv'
  <1>1. CASE Attempts(l) BY <1>1, AttemptsAInv
  <1>2. CASE LoadFails(l) \/ Unprepared(l)
    <2>1. CASE LoadFails(l) BY <2>1, FailAInv DEF LoadFails, avars
    <2>2. CASE Unprepared(l)
      <3>1. /\ Fail(l) /\ missing \subseteq missing' /\ l.job \in missing'
            /\ UNCHANGED <<ledger, retries, run, reached>> /\ quota' \subseteq quota \cup {l.job}
        BY <2>2 DEF Unprepared
      <3> QED BY <3>1, FailAInv
    <2> QED BY <1>2, <2>1, <2>2
  <1>3. CASE Beat(l) BY <1>3, BeatAInv
  <1>4. CASE Complete(l) BY <1>4, CompleteAInv
  <1>5. ASSUME NEW lag \in 0..MaxLag, Begin(l, lag) PROVE AInv' BY <1>5, BeginAInv
  <1>6. ASSUME NEW given \in Answers, Send(l, given) PROVE AInv' BY <1>6, SendAInv
  <1>7. CASE PublishSpeech(l)
    <2>1. Publish(l, {}) /\ UNCHANGED avars /\ {} \in SUBSET Keys
      BY <1>7 DEF PublishSpeech
    <2> QED BY <2>1, PublishQuiet, QuietInv
  <1>8. CASE FailSpeech(l)
    <2>1. /\ Fail(l) /\ run[l.serial].at \in {"load", "loop"}
          /\ UNCHANGED <<ledger, retries, run, reached, missing>> /\ quota' \subseteq quota \cup {l.job}
      BY <1>8 DEF FailSpeech
    <2> QED BY <2>1, FailAInv
  <1>9. CASE (Start(l) \/ Release(l) \/ Cancel(l)) /\ UNCHANGED avars
    BY <1>9, KeepingQuiet, GivingBackQuiet, QuietInv
  <1> QED BY <1>1, <1>2, <1>3, <1>4, <1>5, <1>6, <1>7, <1>8, <1>9 DEF HandlerStep

LEMMA ANextInv == AInv /\ [ANext]_<<vars, avars>> => AInv'
  <1> SUFFICES ASSUME AInv, [ANext]_<<vars, avars>> PROVE AInv' OBVIOUS
  <1>1. CASE UNCHANGED <<vars, avars>> BY <1>1, StutterQuiet, QuietInv
  <1>2. CASE ANext
    <2>1. ASSUME NEW k \in Keys, NEW o \in Owners, Enqueue(k, o), UNCHANGED avars
          PROVE  AInv'
      BY <2>1, EnqueueQuiet, QuietInv
    <2>2. ASSUME NEW w \in Workers, Claim(w, 0), UNCHANGED avars PROVE AInv'
      BY <2>2, ClaimAInv
    <2>3. ASSUME NEW l \in leases, HandlerStep(l) PROVE AInv' BY <2>3, HandlerAInv
    <2>4. ASSUME NEW j \in Jobs, RequestCancel(j), UNCHANGED avars PROVE AInv'
      BY <2>4, RequestCancelQuiet, QuietInv
    <2>5. ASSUME NEW j \in Jobs, DeleteSpeech(j) \/ DeleteMedia(j) PROVE AInv'
      BY <2>5, DeleteAInv, MediaAInv
    <2>6. CASE RetrySpeech BY <2>6, RetryAInv
    <2>7. CASE Time BY <2>7, TimeAInv
    <2> QED BY <1>2, <2>1, <2>2, <2>3, <2>4, <2>5, <2>6, <2>7 DEF ANext
  <1> QED BY <1>1, <1>2

LEMMA LedgerInvariance == ASpec => []AInv
  BY AInitInv, ANextInv, PTL DEF ASpec

-----------------------------------------------------------------------------
(* Theorems *)

(* Whatever leases expire, crash or answer late, no model receives the     *)
(* audio of a job twice in one generation of the job, and a call without a *)
(* certain outcome is never followed by an owner's retry.                  *)
THEOREM AudioIsSentOnce == ASpec => []NeverSentAgain
  <1>1. AInv => NeverSentAgain
    <2> SUFFICES ASSUME AInv PROVE NeverSentAgain OBVIOUS
    <2>1. OncePerModel BY DEF AInv, CallsOK
    <2>2. UnknownNeverResent BY DEF AInv, LedgerOK, UnknownNeverResent
    <2> QED BY <2>1, <2>2 DEF NeverSentAgain
  <1> QED BY <1>1, LedgerInvariance, PTL

(* Speech the provider delivered is neither lost to a failure of its job,  *)
(* unless the media was deleted, nor kept after the deletion of the job.   *)
THEOREM DeliveredSpeechIsKept == ASpec => []SpeechKept
  <1>1. AInv => SpeechKept BY DEF AInv
  <1> QED BY <1>1, LedgerInvariance, PTL

(* The handlers and the owners' retries together never exceed a model's    *)
(* quota in any rolling window, for any limit, window and lag.             *)
THEOREM QuotaIsRespected == ASpec => []WindowRespected
  <1>1. AInv => WindowRespected BY DEF AInv
  <1> QED BY <1>1, LedgerInvariance, PTL

-----------------------------------------------------------------------------
(***************************************************************************)
(* The report versions of an investigation, for any number of claims,      *)
(* jobs, workers and versions.                                             *)
(***************************************************************************)

(* The inductive invariant *)

PayloadT == [kind : {"none", "assess", "expand"}, base : Nat, scope : SUBSET Ids, poll : Nat]

(* Reconciliation publishes on top of its snapshot. *)
ExtractionOK ==
  snapshot \in Nat /\ reconciled \in {0, snapshot + 1} /\ (snapshot = 0 => reconciled = 0)

RTypeOK ==
  /\ versions \in Seq(Report) /\ Latest > 0
  /\ source \in [version : 0..MaxSource, assessed : BOOLEAN]
  /\ ExtractionOK
  /\ planned \subseteq PayloadT /\ plan \in [Jobs -> PayloadT]
  /\ answer \in [Jobs -> Nat]

(* An assessment is about a meaning listed. *)
Shown(r) ==
  \A i \in Ids : r.assessed[i] # Unassessed => \E k \in 1..Len(r.shows[i]) : r.shows[i][k] = r.assessed[i]

(* What is listed of a claim stays until it is restated, and so does its   *)
(* assessment.                                                             *)
Keeps(before, after, wasAssessed, isAssessed) ==
  /\ Len(before) <= Len(after)
  /\ before # <<>> => before[1] <= after[1]
  /\ before # <<>> /\ before[1] = after[1] =>
       (\A k \in 1..Len(before) : before[k] = after[k]) /\ (wasAssessed => isAssessed)

(* The version q takes nothing back from r. *)
Follows(r, q) ==
  \A i \in Ids : Keeps(r.shows[i], q.shows[i], r.assessed[i] # Unassessed, q.assessed[i] # Unassessed)

VersionsOK ==
  /\ \A v \in 1..Latest : Shown(versions[v])
  /\ \A v, w \in 1..Latest : v < w => Follows(versions[v], versions[w])

(* Only a job that was leased has an answer, so its payload is settled.    *)
AnswersOK ==
  /\ OneVersionPerJob
  /\ \A j \in Jobs : answer[j] # 0 => \E l \in leases : l.job = j

RInv == IInv /\ RTypeOK /\ VersionsOK /\ AnswersOK

-----------------------------------------------------------------------------
(* Versions *)

LEMMA ReportType ==
  ASSUME NEW r \in Report
  PROVE  /\ r.shows \in [Ids -> Seq(Nat)] /\ r.assessed \in [Ids -> Nat \cup {Unassessed}]
         /\ \A i \in Ids : r.shows[i] \in Seq(Nat) /\ Len(r.shows[i]) \in Nat
  <1>1. r.shows \in [Ids -> Seq(Nat)] /\ r.assessed \in [Ids -> Nat \cup {Unassessed}] BY DEF Report
  <1> QED BY <1>1

LEMMA KeepsTransitive ==
  ASSUME NEW a \in Seq(Nat), NEW b \in Seq(Nat), NEW c \in Seq(Nat),
         NEW x, NEW y, NEW z, Keeps(a, b, x, y), Keeps(b, c, y, z)
  PROVE  Keeps(a, c, x, z)
  <1>1. Len(a) \in Nat /\ Len(b) \in Nat /\ Len(c) \in Nat OBVIOUS
  <1>2. Len(a) <= Len(b) /\ Len(b) <= Len(c) BY DEF Keeps
  <1>3. CASE a = <<>>
    <2>1. Len(a) <= Len(c) BY <1>1, <1>2
    <2> QED BY <1>3, <2>1 DEF Keeps
  <1>4. CASE a # <<>>
    <2>1. Len(a) > 0 /\ b # <<>> /\ c # <<>> BY <1>1, <1>2, <1>4
    <2>2. a[1] \in Nat /\ b[1] \in Nat /\ c[1] \in Nat BY <1>1, <1>2, <2>1
    <2>3. a[1] <= b[1] /\ b[1] <= c[1] BY <2>1 DEF Keeps
    <2>4. ASSUME a[1] = c[1]
          PROVE  (\A k \in 1..Len(a) : a[k] = c[k]) /\ (x => z)
      <3>1. a[1] = b[1] /\ b[1] = c[1] BY <2>2, <2>3, <2>4
      <3>2. \A k \in 1..Len(a) : k \in 1..Len(b) BY <1>1, <1>2
      <3> QED BY <2>1, <3>1, <3>2 DEF Keeps
    <2>5. Len(a) <= Len(c) /\ a[1] <= c[1] BY <1>1, <1>2, <2>2, <2>3
    <2> QED BY <2>4, <2>5 DEF Keeps
  <1> QED BY <1>3, <1>4

LEMMA FollowsTransitive ==
  ASSUME NEW p \in Report, NEW r \in Report, NEW q \in Report, Follows(p, r), Follows(r, q)
  PROVE  Follows(p, q)
  <1> SUFFICES ASSUME NEW i \in Ids
               PROVE  Keeps(p.shows[i], q.shows[i], p.assessed[i] # Unassessed, q.assessed[i] # Unassessed)
    BY DEF Follows
  <1>1. p.shows[i] \in Seq(Nat) /\ r.shows[i] \in Seq(Nat) /\ q.shows[i] \in Seq(Nat) BY ReportType
  <1>2. /\ Keeps(p.shows[i], r.shows[i], p.assessed[i] # Unassessed, r.assessed[i] # Unassessed)
        /\ Keeps(r.shows[i], q.shows[i], r.assessed[i] # Unassessed, q.assessed[i] # Unassessed)
    BY DEF Follows
  <1> QED BY <1>1, <1>2, KeepsTransitive

(* A version that follows the latest one follows them all. *)
LEMMA AppendOK ==
  ASSUME RTypeOK, VersionsOK, NEW q \in Report, Shown(q), Follows(versions[Latest], q),
         versions' = Append(versions, q)
  PROVE  /\ versions' \in Seq(Report) /\ VersionsOK' /\ Latest' = Latest + 1
         /\ versions'[Latest + 1] = q
         /\ \A v \in 1..Latest : versions'[v] = versions[v]
  <1>1. Latest \in Nat /\ Latest > 0 BY DEF RTypeOK, Latest
  <1>2. /\ versions' \in Seq(Report) /\ Latest' = Latest + 1
        /\ versions'[Latest + 1] = q
        /\ \A v \in 1..Latest : versions'[v] = versions[v]
    BY DEF RTypeOK, Latest
  <1>3. \A v \in 1..Latest' : v \in 1..Latest \/ v = Latest + 1 BY <1>1, <1>2
  <1>4. ASSUME NEW v \in 1..Latest' PROVE Shown(versions'[v])
    BY <1>2, <1>3 DEF VersionsOK
  <1>5. ASSUME NEW v \in 1..Latest PROVE Follows(versions[v], q)
    <2>1. CASE v = Latest BY <2>1
    <2>2. CASE v # Latest
      <3>1. Latest \in 1..Latest /\ v < Latest BY <1>1, <2>2
      <3>2. Follows(versions[v], versions[Latest]) BY <3>1 DEF VersionsOK
      <3>3. versions[v] \in Report /\ versions[Latest] \in Report BY <1>1 DEF RTypeOK, Latest
      <3> QED BY <3>2, <3>3, FollowsTransitive
    <2> QED BY <2>1, <2>2
  <1>6. ASSUME NEW v \in 1..Latest', NEW w \in 1..Latest', v < w
        PROVE  Follows(versions'[v], versions'[w])
    <2>1. v \in 1..Latest BY <1>1, <1>2, <1>6
    <2>2. CASE w \in 1..Latest BY <1>2, <1>6, <2>1, <2>2 DEF VersionsOK
    <2>3. CASE w = Latest + 1 BY <1>2, <1>5, <2>1, <2>3
    <2> QED BY <1>3, <2>2, <2>3
  <1> QED BY <1>2, <1>4, <1>6 DEF VersionsOK

(* Restating a claim moves it on, and nothing else. *)
LEMMA RestatedOK ==
  ASSUME NEW r \in Report, Shown(r), NEW ids \in SUBSET Ids, NEW q \in Report,
         q.shows = Restated(r, ids), q.assessed = Forgotten(r, ids)
  PROVE  Shown(q) /\ Follows(r, q)
  <1>1. ASSUME NEW i \in Ids, i \notin ids
        PROVE  q.shows[i] = r.shows[i] /\ q.assessed[i] = r.assessed[i]
    BY <1>1 DEF Restated, Forgotten
  <1>2. ASSUME NEW i \in ids
        PROVE  /\ q.assessed[i] = Unassessed /\ Len(q.shows[i]) = Len(r.shows[i])
               /\ r.shows[i] # <<>> => q.shows[i][1] = r.shows[i][1] + 1 /\ r.shows[i][1] \in Nat
    <2>1. i \in Ids /\ q.assessed[i] = Unassessed BY DEF Forgotten
    <2>2. q.shows[i] = [k \in 1..Len(r.shows[i]) |-> r.shows[i][1] + 1] BY <2>1 DEF Restated
    <2>3. r.shows[i] \in Seq(Nat) /\ Len(r.shows[i]) \in Nat BY <2>1, ReportType
    <2>4. Len(q.shows[i]) = Len(r.shows[i]) BY <2>2, <2>3
    <2>5. r.shows[i] # <<>> => Len(r.shows[i]) > 0 /\ r.shows[i][1] \in Nat BY <2>3
    <2> QED BY <2>1, <2>2, <2>3, <2>4, <2>5
  <1>3. Shown(q) BY <1>1, <1>2 DEF Shown
  <1>4. ASSUME NEW i \in Ids
        PROVE  Keeps(r.shows[i], q.shows[i], r.assessed[i] # Unassessed, q.assessed[i] # Unassessed)
    <2>1. r.shows[i] \in Seq(Nat) /\ Len(r.shows[i]) \in Nat BY ReportType
    <2>2. CASE i \in ids BY <1>2, <2>1, <2>2 DEF Keeps
    <2>3. CASE i \notin ids
      <3>1. r.shows[i] # <<>> => r.shows[i][1] \in Nat BY <2>1
      <3> QED BY <1>1, <2>1, <2>3, <3>1 DEF Keeps
    <2> QED BY <2>2, <2>3
  <1> QED BY <1>3, <1>4 DEF Follows

(* A correction or a reconciliation is a version that restates claims. *)
LEMMA CorrectedOK ==
  ASSUME NEW r \in Report, Shown(r), NEW ids \in SUBSET Ids
  PROVE  LET q == [r EXCEPT !.shows = Restated(r, ids), !.assessed = Forgotten(r, ids), !.author = NoKey] IN
         q \in Report /\ Shown(q) /\ Follows(r, q) /\ q.author = NoKey
  <1> DEFINE m == Restated(r, ids)
             a == Forgotten(r, ids)
             q == [r EXCEPT !.shows = m, !.assessed = a, !.author = NoKey]
  <1>1. m \in [Ids -> Seq(Nat)]
    <2>1. ASSUME NEW i \in ids
          PROVE  [k \in 1..Len(r.shows[i]) |-> r.shows[i][1] + 1] \in Seq(Nat)
      <3>1. r.shows[i] \in Seq(Nat) /\ Len(r.shows[i]) \in Nat BY ReportType
      <3>2. \A k \in 1..Len(r.shows[i]) : r.shows[i][1] + 1 \in Nat BY <3>1
      <3> QED BY <3>1, <3>2
    <2> QED BY <2>1, ReportType DEF Restated
  <1>2. a \in [Ids -> Nat \cup {Unassessed}] BY ReportType DEF Forgotten
  <1> HIDE DEF m, a
  <1>3. q \in Report /\ q.shows = m /\ q.assessed = a /\ q.author = NoKey BY <1>1, <1>2 DEF Report
  <1> HIDE DEF q
  <1>4. Shown(q) /\ Follows(r, q) BY <1>3, RestatedOK DEF m, a
  <1> QED BY <1>3, <1>4 DEF q, m, a

LEMMA MergedOK ==
  ASSUME NEW r \in Report, Shown(r), NEW done \in SUBSET Listed(r), NEW j \in Jobs
  PROVE  LET q == Merged(r, done, j) IN
         q \in Report /\ Shown(q) /\ Follows(r, q) /\ q.author = j
  <1> DEFINE q == Merged(r, done, j)
             a == [i \in Ids |-> IF i \in done THEN r.shows[i][Len(r.shows[i])] ELSE r.assessed[i]]
  <1>1. r.shows \in [Ids -> Seq(Nat)] /\ r.assessed \in [Ids -> Nat \cup {Unassessed}] BY ReportType
  <1>2. ASSUME NEW i \in done
        PROVE  i \in Ids /\ Len(r.shows[i]) \in 1..Len(r.shows[i]) /\ r.shows[i][Len(r.shows[i])] \in Nat
    <2>1. i \in Ids /\ r.shows[i] # <<>> /\ r.shows[i] \in Seq(Nat) BY <1>1 DEF Listed
    <2> QED BY <2>1
  <1>3. a \in [Ids -> Nat \cup {Unassessed}] BY <1>1, <1>2
  <1>4. q = [r EXCEPT !.assessed = a, !.author = j] BY DEF Merged, Report
  <1>5. q \in Report /\ q.shows = r.shows /\ q.assessed = a /\ q.author = j
    <2> HIDE DEF a, q
    <2> QED BY <1>3, <1>4 DEF Report
  <1>6. \A i \in Ids : a[i] = IF i \in done THEN r.shows[i][Len(r.shows[i])] ELSE r.assessed[i] OBVIOUS
  <1> HIDE DEF q, a
  <1>7. Shown(q) BY <1>2, <1>5, <1>6 DEF Shown
  <1>8. ASSUME NEW i \in Ids
        PROVE  Keeps(r.shows[i], q.shows[i], r.assessed[i] # Unassessed, q.assessed[i] # Unassessed)
    <2>1. r.shows[i] \in Seq(Nat) /\ Len(r.shows[i]) \in Nat BY ReportType
    <2>2. r.shows[i] # <<>> => r.shows[i][1] \in Nat BY <2>1
    <2>3. r.assessed[i] # Unassessed => q.assessed[i] # Unassessed
      BY <1>2, <1>5, <1>6 DEF Unassessed
    <2> QED BY <1>5, <2>1, <2>2, <2>3 DEF Keeps
  <1>9. Follows(r, q) BY <1>8 DEF Follows
  <1> USE DEF q
  <1> QED BY <1>5, <1>7, <1>9

LEMMA ExpandedOK ==
  ASSUME RTypeOK, NEW r \in Report, Shown(r), NEW j \in Jobs, source.version > 0
  PROVE  LET q == Expanded(r, j) IN
         q \in Report /\ Shown(q) /\ Follows(r, q) /\ q.author = j
  <1> DEFINE q == Expanded(r, j)
             s == source.version
             n == [r.shows EXCEPT ![s] = Append(@, 0)]
             a == [r.assessed EXCEPT ![s] = IF source.assessed THEN 0 ELSE @]
  <1>1. s \in 1..MaxSource BY ReportsAssumption DEF RTypeOK
  <1>2. s \in Ids BY <1>1 DEF Ids
  <1>3. r.shows \in [Ids -> Seq(Nat)] /\ r.assessed \in [Ids -> Nat \cup {Unassessed}] BY ReportType
  <1>4. n \in [Ids -> Seq(Nat)]
    <2>1. Append(r.shows[s], 0) \in Seq(Nat) BY <1>2, <1>3
    <2> QED BY <1>3, <2>1
  <1>5. a \in [Ids -> Nat \cup {Unassessed}] BY <1>2, <1>3
  <1>6. q = [r EXCEPT !.shows = n, !.assessed = a, !.author = j] BY DEF Expanded, Report
  <1>7. q \in Report /\ q.shows = n /\ q.assessed = a /\ q.author = j
    <2> HIDE DEF a, q, n
    <2> QED BY <1>4, <1>5, <1>6 DEF Report
  <1>8. ASSUME NEW i \in Ids
        PROVE  /\ r.shows[i] \in Seq(Nat) /\ Len(r.shows[i]) \in Nat
               /\ Len(r.shows[i]) <= Len(n[i]) /\ \A k \in 1..Len(r.shows[i]) : n[i][k] = r.shows[i][k]
               /\ i = s => Len(n[i]) = Len(r.shows[i]) + 1 /\ n[i][Len(r.shows[i]) + 1] = 0
    <2>1. r.shows[i] \in Seq(Nat) /\ Len(r.shows[i]) \in Nat BY <1>3
    <2>2. n[i] = IF i = s THEN Append(r.shows[i], 0) ELSE r.shows[i] BY <1>3
    <2> HIDE DEF n, s
    <2> QED BY <2>1, <2>2
  <1>9. \A i \in Ids : a[i] = IF i = s /\ source.assessed THEN 0 ELSE r.assessed[i] BY <1>2, <1>3
  <1> HIDE DEF q, a, n, s
  <1>10. Shown(q)
    <2> SUFFICES ASSUME NEW i \in Ids, q.assessed[i] # Unassessed
                 PROVE  \E k \in 1..Len(q.shows[i]) : q.shows[i][k] = q.assessed[i]
      BY DEF Shown
    <2>1. CASE i = s /\ source.assessed
      <3>1. Len(r.shows[i]) + 1 \in 1..Len(n[i]) BY <1>8, <2>1
      <3> QED BY <1>7, <1>8, <1>9, <2>1, <3>1
    <2>2. CASE ~(i = s /\ source.assessed)
      <3>1. PICK k \in 1..Len(r.shows[i]) : r.shows[i][k] = r.assessed[i] BY <1>7, <1>9, <2>2 DEF Shown
      <3>2. /\ Len(r.shows[i]) \in Nat /\ Len(n[i]) \in Nat /\ Len(r.shows[i]) <= Len(n[i])
            /\ n[i][k] = r.shows[i][k]
        BY <1>4, <1>8, <3>1
      <3>3. k \in 1..Len(n[i]) BY <3>2
      <3> QED BY <1>7, <1>9, <2>2, <3>1, <3>2, <3>3
    <2> QED BY <2>1, <2>2
  <1>11. ASSUME NEW i \in Ids
         PROVE  Keeps(r.shows[i], q.shows[i], r.assessed[i] # Unassessed, q.assessed[i] # Unassessed)
    <2>1. r.shows[i] # <<>> => 1 \in 1..Len(r.shows[i]) /\ r.shows[i][1] \in Nat BY <1>8
    <2>2. r.shows[i] # <<>> => n[i][1] = r.shows[i][1] BY <1>8, <2>1
    <2>3. r.assessed[i] # Unassessed => q.assessed[i] # Unassessed BY <1>7, <1>9 DEF Unassessed
    <2> QED BY <1>7, <1>8, <2>1, <2>2, <2>3 DEF Keeps
  <1>12. Follows(r, q) BY <1>11 DEF Follows
  <1> USE DEF q
  <1> QED BY <1>7, <1>10, <1>12

-----------------------------------------------------------------------------
(* Steps *)

(* A step of the queue that publishes no version, and gives payloads only  *)
(* to new jobs.                                                            *)
LEMMA QueueStepInv ==
  ASSUME RInv, IInv', leases \subseteq leases', UNCHANGED <<versions, answer>>, ExtractionOK',
         source' \in [version : 0..MaxSource, assessed : BOOLEAN],
         planned' \subseteq PayloadT, plan' \in [Jobs -> PayloadT],
         \A j \in Jobs : plan'[j] = plan[j] \/ job[j].state = "absent"
  PROVE  RInv'
  <1>1. Latest' = Latest BY DEF Latest
  <1>2. RTypeOK' BY <1>1 DEF RInv, RTypeOK
  <1>3. VersionsOK' BY <1>1 DEF RInv, VersionsOK
  <1>4. ASSUME NEW j \in Jobs, answer[j] # 0 PROVE plan'[j] = plan[j]
    <2>1. PICK l \in leases : l.job = j BY <1>4 DEF RInv, AnswersOK
    <2>2. job[j].state # "absent" BY <2>1 DEF RInv, IInv, RowOK
    <2> QED BY <2>2
  <1>5. OneVersionPerJob' BY <1>1, <1>4 DEF RInv, AnswersOK, OneVersionPerJob
  <1>6. \A j \in Jobs : answer'[j] # 0 => \E l \in leases' : l.job = j
    BY DEF RInv, AnswersOK
  <1> QED BY <1>2, <1>3, <1>5, <1>6 DEF RInv, AnswersOK

(* A version by a request of the owner or by the job of a lease, based on  *)
(* the latest one.                                                         *)
LEMMA VersionInv ==
  ASSUME RInv, UNCHANGED <<vars, source, plan>>, ExtractionOK', planned' \subseteq PayloadT,
         NEW q \in Report, Shown(q), Follows(versions[Latest], q),
         versions' = Append(versions, q),
         \/ q.author = NoKey /\ UNCHANGED answer
         \/ \E l \in leases : /\ q.author = l.job /\ plan[l.job].base = Latest
                              /\ answer' = [answer EXCEPT ![l.job] = Latest + 1]
  PROVE  RInv'
  <1>1. /\ versions' \in Seq(Report) /\ VersionsOK' /\ Latest' = Latest + 1
        /\ versions'[Latest + 1] = q
        /\ \A v \in 1..Latest : versions'[v] = versions[v]
    BY AppendOK DEF RInv
  <1>2. Latest \in Nat /\ Latest > 0 BY DEF RInv, RTypeOK, Latest
  <1>3. IInv' BY DEF RInv, IInv, TypeOK, TokensUnique, vars
  <1>4. \A l \in leases : l.job \in Jobs BY DEF RInv, IInv, TypeOK, Lease
  <1>5. answer \in [Jobs -> Nat] BY DEF RInv, RTypeOK
  <1>6. RTypeOK'
    <2>1. answer' \in [Jobs -> Nat] BY <1>2, <1>4, <1>5
    <2> QED BY <1>1, <1>2, <2>1 DEF RInv, RTypeOK
  <1>7. \A v \in 1..Latest' : v \in 1..Latest \/ v = Latest + 1 BY <1>1, <1>2
  <1>8. 1..Latest \subseteq 1..Latest' /\ Latest + 1 \in 1..Latest' BY <1>1, <1>2
  <1>9. ASSUME NEW j \in Jobs
        PROVE  {v \in 1..Latest' : versions'[v].author = j}
                 = {v \in 1..Latest : versions[v].author = j}
                     \cup {v \in {Latest + 1} : q.author = j}
    BY <1>1, <1>7, <1>8
  <1>10. OneVersionPerJob'
    <2> SUFFICES ASSUME NEW j \in Jobs
                 PROVE  LET mine == {v \in 1..Latest' : versions'[v].author = j} IN
                        IF answer'[j] = 0 THEN mine = {}
                        ELSE mine = {answer'[j]} /\ answer'[j] = plan[j].base + 1
      BY DEF OneVersionPerJob, vars
    <2> DEFINE mine == {v \in 1..Latest : versions[v].author = j}
    <2>1. IF answer[j] = 0 THEN mine = {}
          ELSE mine = {answer[j]} /\ answer[j] = plan[j].base + 1
      BY DEF RInv, AnswersOK, OneVersionPerJob
    <2>2. CASE q.author # j
      <3>1. answer'[j] = answer[j] BY <1>4, <1>5, <2>2
      <3> QED BY <1>9, <2>1, <2>2, <3>1
    <2>3. CASE q.author = j
      <3>1. q.author # NoKey BY <2>3, ReportsAssumption
      <3>2. plan[j].base = Latest /\ answer'[j] = Latest + 1 BY <1>5, <2>3, <3>1
      <3>3. answer[j] = 0
        <4> SUFFICES ASSUME answer[j] # 0 PROVE FALSE OBVIOUS
        <4>1. answer[j] \in 1..Latest BY <2>1
        <4> QED BY <1>2, <2>1, <3>2, <4>1
      <3>4. {v \in 1..Latest' : versions'[v].author = j} = {Latest + 1}
        <4>1. mine = {} BY <2>1, <3>3
        <4>2. {v \in {Latest + 1} : q.author = j} = {Latest + 1} BY <2>3
        <4> QED BY <1>9, <4>1, <4>2
      <3>5. answer'[j] # 0 BY <1>2, <3>2
      <3> QED BY <3>2, <3>4, <3>5
    <2> QED BY <2>2, <2>3
  <1>11. \A j \in Jobs : answer'[j] # 0 => \E l \in leases : l.job = j
    BY <1>4, <1>5 DEF RInv, AnswersOK
  <1> QED BY <1>1, <1>3, <1>6, <1>10, <1>11 DEF RInv, AnswersOK, vars

(* What the queue does in a step of the stages. *)
LEMMA ReportsQueueInv ==
  ASSUME RInv, RNext
  PROVE  IInv' /\ leases \subseteq leases'
  <1>1. IInv BY DEF RInv
  <1>2. CASE UNCHANGED vars BY <1>1, <1>2 DEF vars, IInv, TypeOK, TokensUnique
  <1>3. ASSUME NEW k \in Keys, NEW o \in Owners, Enqueue(k, o)
        PROVE  IInv' /\ leases \subseteq leases'
    BY <1>1, <1>3, EnqueueInv DEF Enqueue
  <1>4. ASSUME NEW w \in Workers, Claim(w, 0) PROVE IInv' /\ leases \subseteq leases'
    <2>1. 0 \in 0..MaxLag BY TimeAssumption
    <2>2. IInv' BY <1>1, <1>4, <2>1, ClaimInv
    <2> QED BY <1>4, <2>2 DEF Claim
  <1>5. ASSUME NEW l \in leases, Start(l) \/ Fail(l) PROVE IInv' /\ leases \subseteq leases'
    BY <1>1, <1>5, StartInv, FailInv DEF Start, Fail
  <1>6. ASSUME NEW l \in leases, NEW succ \in UNION {Fanouts[k] : k \in Keys}, Publish(l, succ)
        PROVE  IInv' /\ leases \subseteq leases'
    <2>1. succ \in SUBSET Keys BY KeyAssumption
    <2> QED BY <1>1, <1>6, <2>1, PublishInv DEF Publish
  <1>7. CASE Tick BY <1>1, <1>7, TickInv DEF Tick
  <1>9. ASSUME NEW l \in leases, StageStep(l) PROVE IInv' /\ leases \subseteq leases'
    BY <1>2, <1>5, <1>6, <1>9
    DEF StageStep, StartStage, AssessmentReads, AssessmentPublishes, Expand, PublishStage,
        FailStage
  <1>10. CASE \/ \E c \in Ids : RequestCorrection(c)
              \/ RequestDeeper
              \/ \E assessed \in BOOLEAN : SourcePublishes(assessed)
              \/ CloseExtraction
              \/ \E changed, superseded \in SUBSET Clip : Reconcile(changed, superseded)
    BY <1>2, <1>10 DEF RequestCorrection, RequestDeeper, SourcePublishes, CloseExtraction, Reconcile
  <1>11. CASE \/ \E k \in Keys, o \in Owners : RequestExpansion(k, o)
              \/ \E p \in planned, k \in Keys, o \in Owners : Retrieved(p, k, o)
    BY <1>2, <1>3, <1>11 DEF RequestExpansion, Retrieved
  <1> QED BY <1>4, <1>7, <1>9, <1>10, <1>11 DEF RNext

(* What the stages keep: payloads, plans and the latest version. *)
LEMMA RFacts ==
  ASSUME RInv
  PROVE  /\ IInv /\ Latest \in Nat /\ Latest > 0 /\ versions[Latest] \in Report
         /\ Shown(versions[Latest]) /\ plan \in [Jobs -> PayloadT] /\ planned \subseteq PayloadT
         /\ source \in [version : 0..MaxSource, assessed : BOOLEAN] /\ ExtractionOK
         /\ (UNCHANGED extraction => ExtractionOK')
         /\ \A l \in leases : l.job \in Jobs
  <1>1. Latest \in Nat /\ Latest > 0 /\ Latest \in 1..Latest BY DEF RInv, RTypeOK, Latest
  <1>2. versions[Latest] \in Report BY <1>1 DEF RInv, RTypeOK, Latest
  <1>3. Shown(versions[Latest]) BY <1>1 DEF RInv, VersionsOK
  <1>4. \A l \in leases : l.job \in Jobs BY DEF RInv, IInv, TypeOK, Lease
  <1>5. ExtractionOK /\ (UNCHANGED extraction => ExtractionOK') BY DEF RInv, RTypeOK, ExtractionOK, extraction
  <1> QED BY <1>1, <1>2, <1>3, <1>4, <1>5 DEF RInv, RTypeOK

LEMMA PlanType ==
  ASSUME RInv, NEW scope \in SUBSET Ids, NEW base \in Nat, Plan(scope, base)
  PROVE  planned' \subseteq PayloadT
  <1>1. [kind |-> "assess", base |-> base, scope |-> scope, poll |-> 0] \in PayloadT
    BY DEF PayloadT
  <1> QED BY <1>1, RFacts DEF Plan

LEMMA OwnerStepInv ==
  ASSUME RInv, \/ \E c \in Ids : RequestCorrection(c)
               \/ RequestDeeper
               \/ \E assessed \in BOOLEAN : SourcePublishes(assessed)
  PROVE  RInv'
  <1> USE RFacts
  <1>1. ASSUME NEW c \in Ids, RequestCorrection(c) PROVE RInv'
    <2> DEFINE q == Corrected(versions[Latest], c)
    <2>1. q \in Report /\ Shown(q) /\ Follows(versions[Latest], q) /\ q.author = NoKey
      BY CorrectedOK DEF Corrected
    <2>2. /\ UNCHANGED <<vars, source, plan>> /\ UNCHANGED answer /\ Plan({c}, Latest + 1)
          /\ versions' = Append(versions, q) /\ UNCHANGED extraction
      BY <1>1 DEF RequestCorrection, PublishVersion
    <2>3. {c} \in SUBSET Ids /\ Latest + 1 \in Nat BY DEF Ids
    <2>4. planned' \subseteq PayloadT BY <2>2, <2>3, PlanType
    <2>5. ExtractionOK' BY <2>2
    <2> HIDE DEF q
    <2> QED BY <2>1, <2>2, <2>4, <2>5, VersionInv
  <1>2. CASE RequestDeeper
    <2>1. Listed(versions[Latest]) \in SUBSET Ids BY DEF Listed
    <2>2. planned' \subseteq PayloadT BY <1>2, <2>1, PlanType DEF RequestDeeper
    <2>3. IInv' /\ leases \subseteq leases' BY <1>2, ReportsQueueInv DEF RNext
    <2>4. UNCHANGED <<versions, extraction, answer, source, plan>> BY <1>2 DEF RequestDeeper
    <2> QED BY <2>2, <2>3, <2>4, QueueStepInv
  <1>3. ASSUME NEW assessed \in BOOLEAN, SourcePublishes(assessed) PROVE RInv'
    <2>1. IInv' /\ leases \subseteq leases' BY <1>3, ReportsQueueInv DEF RNext
    <2>2. UNCHANGED <<versions, extraction, answer, planned, plan>> BY <1>3 DEF SourcePublishes
    <2>3. source' \in [version : 0..MaxSource, assessed : BOOLEAN]
      <3>1. source.version + 1 \in 0..MaxSource BY <1>3, ReportsAssumption DEF SourcePublishes
      <3> QED BY <1>3, <3>1 DEF SourcePublishes
    <2> QED BY <2>1, <2>2, <2>3, QueueStepInv
  <1> QED BY <1>1, <1>2, <1>3

(* Reconciliation restates the version it was asked for, the latest one.   *)
LEMMA ExtractionStepInv ==
  ASSUME RInv, \/ CloseExtraction
               \/ \E changed, superseded \in SUBSET Clip : Reconcile(changed, superseded)
  PROVE  RInv'
  <1> USE RFacts
  <1>1. CASE CloseExtraction
    <2>1. IInv' /\ leases \subseteq leases' BY <1>1, ReportsQueueInv DEF RNext
    <2>2. UNCHANGED <<versions, answer, source, planned, plan>> BY <1>1 DEF CloseExtraction
    <2>3. ExtractionOK' BY <1>1 DEF CloseExtraction, ExtractionOK
    <2> QED BY <2>1, <2>2, <2>3, QueueStepInv
  <1>2. ASSUME NEW changed \in SUBSET Clip, NEW superseded \in SUBSET Clip, Reconcile(changed, superseded)
        PROVE  RInv'
    <2> DEFINE q == Reconciled(versions[Latest], changed)
               pending == {i \in Listed(q) \ superseded : q.assessed[i] = Unassessed}
    <2>1. changed \in SUBSET Ids BY DEF Ids
    <2>2. q \in Report /\ Shown(q) /\ Follows(versions[Latest], q) /\ q.author = NoKey
      BY <2>1, CorrectedOK DEF Reconciled
    <2>3. /\ UNCHANGED <<vars, source, plan>> /\ UNCHANGED answer /\ versions' = Append(versions, q)
          /\ snapshot' = Latest /\ reconciled' = Latest + 1
          /\ UNCHANGED <<planned, plans>> \/ Plan(pending, Latest + 1)
      BY <1>2 DEF Reconcile, PublishVersion
    <2>4. pending \in SUBSET Ids /\ Latest + 1 \in Nat BY DEF Listed
    <2> HIDE DEF pending
    <2>5. planned' \subseteq PayloadT BY <2>3, <2>4, PlanType
    <2>6. ExtractionOK' BY <2>3 DEF ExtractionOK
    <2> HIDE DEF q
    <2> QED BY <2>2, <2>3, <2>5, <2>6, VersionInv
  <1> QED BY <1>1, <1>2

(* Payloads are given to jobs that are new. *)
LEMMA AddedPlans ==
  ASSUME RInv, NEW p \in PayloadT,
         plan' = [j \in Jobs |-> IF j \in Added THEN p ELSE plan[j]]
  PROVE  /\ plan' \in [Jobs -> PayloadT]
         /\ \A j \in Jobs : plan'[j] = plan[j] \/ job[j].state = "absent"
  BY RFacts DEF Added

LEMMA EnqueueStepInv ==
  ASSUME RInv, \/ \E k \in Keys, o \in Owners : RequestExpansion(k, o)
               \/ \E p \in planned, k \in Keys, o \in Owners : Retrieved(p, k, o)
  PROVE  RInv'
  <1>1. IInv' /\ leases \subseteq leases' BY ReportsQueueInv DEF RNext
  <1>2. ASSUME NEW k \in Keys, NEW o \in Owners, RequestExpansion(k, o) PROVE RInv'
    <2> DEFINE p == [NoPlan EXCEPT !.kind = "expand", !.base = Latest]
    <2>1. p \in PayloadT BY RFacts DEF NoPlan, PayloadT
    <2>2. /\ plan' = [j \in Jobs |-> IF j \in Added THEN p ELSE plan[j]]
          /\ UNCHANGED <<versions, extraction, source, planned, answer>>
      BY <1>2 DEF RequestExpansion
    <2> HIDE DEF p
    <2>3. /\ plan' \in [Jobs -> PayloadT]
          /\ \A j \in Jobs : plan'[j] = plan[j] \/ job[j].state = "absent"
      BY <2>1, <2>2, AddedPlans
    <2> QED BY <1>1, <2>2, <2>3, RFacts, QueueStepInv
  <1>3. ASSUME NEW p \in planned, NEW k \in Keys, NEW o \in Owners, Retrieved(p, k, o)
        PROVE  RInv'
    <2>1. p \in PayloadT /\ planned' \subseteq PayloadT BY <1>3, RFacts DEF Retrieved
    <2>2. UNCHANGED <<versions, extraction, source, answer>> BY <1>3 DEF Retrieved
    <2>3. \/ UNCHANGED plan
          \/ plan' = [j \in Jobs |-> IF j \in Added THEN p ELSE plan[j]]
      BY <1>3 DEF Retrieved
    <2>4. /\ plan' \in [Jobs -> PayloadT]
          /\ \A j \in Jobs : plan'[j] = plan[j] \/ job[j].state = "absent"
      BY <2>1, <2>3, RFacts, AddedPlans
    <2> QED BY <1>1, <2>1, <2>2, <2>4, RFacts, QueueStepInv
  <1> QED BY <1>2, <1>3

(* The handlers: of those that publish a version each starts from the      *)
(* latest, and a payload's base is passed over for good by the first.      *)
LEMMA StageStepInv ==
  ASSUME RInv, NEW l \in leases, StageStep(l)
  PROVE  RInv'
  <1>1. IInv' /\ leases \subseteq leases' BY ReportsQueueInv DEF RNext
  <1>2. l.job \in Jobs /\ plan[l.job] \in PayloadT BY RFacts
  <1>3. CASE StartStage(l) \/ AssessmentReads(l) \/ FailStage(l)
    <2>1. UNCHANGED <<versions, extraction, source, planned, plan, answer>>
      BY <1>3 DEF StartStage, AssessmentReads, FailStage, rvars
    <2> QED BY <1>1, <2>1, RFacts, QueueStepInv
  <1>4. ASSUME NEW q \in Report, Shown(q), Follows(versions[Latest], q), q.author = l.job,
               versions' = Append(versions, q), plan[l.job].base = Latest,
               answer' = [answer EXCEPT ![l.job] = Latest + 1],
               UNCHANGED <<vars, extraction, source, planned, plan>>
        PROVE  RInv'
    BY <1>4, RFacts, VersionInv
  <1>5. ASSUME NEW done \in SUBSET Ids, NEW again \in SUBSET Ids, AssessmentPublishes(l, done, again)
        PROVE  RInv'
    <2> DEFINE p == plan[l.job]
               q == Merged(versions[p.base], done, l.job)
    <2>1. UNCHANGED <<vars, extraction, source, planned, plan>> /\ done \in SUBSET Listed(versions[p.base])
      BY <1>5 DEF AssessmentPublishes
    <2>2. CASE Latest = p.base /\ again = {}
      <3>1. q \in Report /\ Shown(q) /\ Follows(versions[Latest], q) /\ q.author = l.job
        BY <1>2, <2>1, <2>2, RFacts, MergedOK
      <3>2. versions' = Append(versions, q) /\ answer' = [answer EXCEPT ![l.job] = Latest + 1]
        BY <1>5, <2>2 DEF AssessmentPublishes, PublishVersion
      <3> HIDE DEF q
      <3> QED BY <1>4, <2>1, <2>2, <3>1, <3>2
    <2>3. CASE ~(Latest = p.base /\ again = {})
      <3>1. UNCHANGED <<versions, answer>> BY <1>5, <2>3 DEF AssessmentPublishes
      <3> QED BY <1>1, <2>1, <3>1, RFacts, QueueStepInv
    <2> QED BY <2>2, <2>3
  <1>6. CASE Expand(l)
    <2> DEFINE q == Expanded(versions[Latest], l.job)
    <2>1. UNCHANGED <<vars, extraction, source, planned, plan>> BY <1>6 DEF Expand
    <2>2. \/ UNCHANGED <<versions, answer>>
          \/ /\ Latest = plan[l.job].base /\ source.version > 0
             /\ versions' = Append(versions, q)
             /\ answer' = [answer EXCEPT ![l.job] = Latest + 1]
      BY <1>6 DEF Expand, PublishVersion
    <2>3. CASE UNCHANGED <<versions, answer>>
      BY <1>1, <2>1, <2>3, RFacts, QueueStepInv
    <2>4. CASE /\ Latest = plan[l.job].base /\ source.version > 0
               /\ versions' = Append(versions, q)
               /\ answer' = [answer EXCEPT ![l.job] = Latest + 1]
      <3>1. RTypeOK BY DEF RInv
      <3>2. q \in Report /\ Shown(q) /\ Follows(versions[Latest], q) /\ q.author = l.job
        BY <1>2, <2>4, <3>1, RFacts, ExpandedOK
      <3> HIDE DEF q
      <3> QED BY <1>4, <2>1, <2>4, <3>2
    <2> QED BY <2>2, <2>3, <2>4
  <1>7. ASSUME NEW succ, PublishStage(l, succ) PROVE RInv'
    <2> DEFINE p == [plan[l.job] EXCEPT !.poll = @ + 1]
    <2>1. p \in PayloadT
      <3>1. plan[l.job].poll + 1 \in Nat BY <1>2 DEF PayloadT
      <3> QED BY <1>2, <3>1 DEF PayloadT
    <2>2. /\ plan' = [j \in Jobs |-> IF j \in Added THEN p ELSE plan[j]]
          /\ UNCHANGED <<versions, extraction, source, planned, answer>>
      BY <1>7 DEF PublishStage
    <2> HIDE DEF p
    <2>3. /\ plan' \in [Jobs -> PayloadT]
          /\ \A j \in Jobs : plan'[j] = plan[j] \/ job[j].state = "absent"
      BY <2>1, <2>2, AddedPlans
    <2> QED BY <1>1, <2>2, <2>3, RFacts, QueueStepInv
  <1> QED BY <1>3, <1>5, <1>6, <1>7 DEF StageStep

-----------------------------------------------------------------------------
(* Theorems *)

LEMMA RInitInv == RInit => RInv
  <1> SUFFICES ASSUME RInit PROVE RInv OBVIOUS
  <1> DEFINE r == [shows |-> [i \in Ids |-> IF i \in Clip THEN <<0>> ELSE <<>>],
                   assessed |-> [i \in Ids |-> Unassessed], author |-> NoKey]
  <1>1. IInv BY InitInv DEF RInit
  <1>2. versions = <<r>> /\ Latest = 1 BY DEF RInit, Latest
  <1>3. r \in Report
    <2>1. <<0>> \in Seq(Nat) /\ <<>> \in Seq(Nat) OBVIOUS
    <2>2. [i \in Ids |-> IF i \in Clip THEN <<0>> ELSE <<>>] \in [Ids -> Seq(Nat)] BY <2>1
    <2> QED BY <2>2 DEF Report, Unassessed
  <1>4. Shown(r) BY DEF Shown
  <1>5. r.author = NoKey OBVIOUS
  <1> HIDE DEF r
  <1>6. versions \in Seq(Report) /\ versions[1] = r BY <1>2, <1>3
  <1>7. NoPlan \in PayloadT BY DEF PayloadT, NoPlan
  <1>8. source \in [version : 0..MaxSource, assessed : BOOLEAN] /\ ExtractionOK
    BY ReportsAssumption DEF RInit, ExtractionOK
  <1>9. planned = {} /\ plan = [j \in Jobs |-> NoPlan] /\ answer = [j \in Jobs |-> 0]
    BY DEF RInit
  <1>10. RTypeOK BY <1>2, <1>6, <1>7, <1>8, <1>9 DEF RTypeOK
  <1>11. VersionsOK BY <1>2, <1>4, <1>6 DEF VersionsOK
  <1>12. AnswersOK
    <2>1. \A v \in 1..Latest : versions[v].author = NoKey BY <1>2, <1>5, <1>6
    <2> QED BY <1>9, <2>1, ReportsAssumption DEF AnswersOK, OneVersionPerJob
  <1> QED BY <1>1, <1>10, <1>11, <1>12 DEF RInv

LEMMA RNextInv == RInv /\ [RNext]_<<vars, rvars>> => RInv'
  <1> SUFFICES ASSUME RInv, [RNext]_<<vars, rvars>> PROVE RInv' OBVIOUS
  <1>1. CASE UNCHANGED <<vars, rvars>>
    <2>1. IInv' /\ leases \subseteq leases'
      BY <1>1 DEF RInv, IInv, TypeOK, TokensUnique, vars
    <2> QED BY <1>1, <2>1, RFacts, QueueStepInv DEF rvars
  <1>2. CASE RNext
    <2>1. CASE \/ \E c \in Ids : RequestCorrection(c)
               \/ RequestDeeper
               \/ \E assessed \in BOOLEAN : SourcePublishes(assessed)
      BY <2>1, OwnerStepInv
    <2>5. CASE \/ CloseExtraction
               \/ \E changed, superseded \in SUBSET Clip : Reconcile(changed, superseded)
      BY <2>5, ExtractionStepInv
    <2>2. CASE \/ \E k \in Keys, o \in Owners : RequestExpansion(k, o)
               \/ \E p \in planned, k \in Keys, o \in Owners : Retrieved(p, k, o)
      BY <2>2, EnqueueStepInv
    <2>3. CASE \E l \in leases : StageStep(l) BY <2>3, StageStepInv
    <2>4. CASE UNCHANGED rvars
      <3>1. IInv' /\ leases \subseteq leases' BY <1>2, ReportsQueueInv
      <3> QED BY <2>4, <3>1, RFacts, QueueStepInv DEF rvars
    <2> QED BY <1>2, <2>1, <2>2, <2>3, <2>4, <2>5 DEF RNext
  <1> QED BY <1>1, <1>2

(* The inductive invariant holds in every reachable state. *)
THEOREM ReportsInvariance == RSpec => []RInv
  BY RInitInv, RNextInv, PTL DEF RSpec

(* No version shows an assessment of a meaning it does not list, whatever  *)
(* corrections, of imported claims too, reconciliation or expansions       *)
(* arrive while a handler assesses.                                        *)
THEOREM AssessmentsMatch == RSpec => []AssessedAsShown
  <1>1. RInv => AssessedAsShown BY DEF RInv, VersionsOK, Shown, AssessedAsShown
  <1> QED BY <1>1, ReportsInvariance, PTL

(* No version drops a claim, goes back behind a correction of the owner or *)
(* of reconciliation, or loses an assessment whose meaning stays, and      *)
(* reconciliation overwrites nothing that came after its snapshot: each    *)
(* version is made from the latest one.                                    *)
THEOREM NothingIsUndone == RSpec => []NothingUndone
  <1>1. RInv => NothingUndone
    <2> SUFFICES ASSUME RInv PROVE CorrectionsSurvive /\ AssessmentsSurvive /\ reconciled \in {0, snapshot + 1}
      BY DEF NothingUndone
    <2>1. ASSUME NEW v \in 1..Latest, NEW w \in 1..Latest, NEW i \in Ids, v < w
          PROVE  /\ Keeps(versions[v].shows[i], versions[w].shows[i],
                          versions[v].assessed[i] # Unassessed, versions[w].assessed[i] # Unassessed)
                 /\ versions[v].assessed[i] # Unassessed => versions[v].shows[i] # <<>>
      <3>1. Follows(versions[v], versions[w]) /\ Shown(versions[v]) BY <2>1 DEF RInv, VersionsOK
      <3>2. Len(<<>>) = 0 /\ 1..0 = {} OBVIOUS
      <3> QED BY <3>1, <3>2 DEF Follows, Shown
    <2>2. CorrectionsSurvive BY <2>1 DEF CorrectionsSurvive, Keeps
    <2>3. AssessmentsSurvive BY <2>1 DEF AssessmentsSurvive, Keeps
    <2>4. reconciled \in {0, snapshot + 1} BY DEF RInv, RTypeOK, ExtractionOK
    <2> QED BY <2>2, <2>3, <2>4
  <1> QED BY <1>1, ReportsInvariance, PTL

(* A job publishes at most one version however often it is leased again,   *)
(* and the answer of its request is that version.                          *)
THEOREM VersionsAreUnique == RSpec => []OneVersionPerJob
  <1>1. RInv => OneVersionPerJob BY DEF RInv, AnswersOK
  <1> QED BY <1>1, ReportsInvariance, PTL
=============================================================================
