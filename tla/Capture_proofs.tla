---------------------------- MODULE Capture_proofs ----------------------------
(***************************************************************************)
(* Proofs about a live capture, for any number of sequence numbers, upload *)
(* requests and faults and any chunks clients send: acknowledged chunks    *)
(* are kept, the stages of a chunk meet and Stop reaches them, and what    *)
(* the read models say covers the whole capture.                           *)
(*                                                                         *)
(* Then about the observations it yields, for any texts, bounds and        *)
(* completions: the windows cut from them are admissible and cover them,   *)
(* claims are grounded in their text, and chains of corrections end.       *)
(***************************************************************************)
EXTENDS Capture, Claims, FiniteSetTheorems, WellFoundedInduction, TLAPS

-----------------------------------------------------------------------------
(* The inductive invariant *)

SessionT == [state : {"none", "open", "closed", "gone"}, expired : BOOLEAN,
             continue : {"null", "yes", "no"}, duration : Nat,
             investigation : {"none", "queued", "cancelled"}, lifetime : BOOLEAN]
Maybe == Content \cup {NoContent}
ChunkT == [content : Maybe, received : BOOLEAN]
PutT == [at : {"idle", "reserved", "written"}, seq : Seqs, content : Maybe]
JobT == [state : JobState \cup {"none", "gone"}, cancel : BOOLEAN,
         out : {"none", "invalid", "package", "no_package", "completed", "unavailable"}]

TypeOK ==
  /\ session \in SessionT /\ chunk \in [Seqs -> ChunkT] /\ store \in [Seqs -> Maybe]
  /\ put \in [Puts -> PutT] /\ job \in [Ids -> JobT]
  /\ acked \subseteq Seqs \X Content

(* An upload request in flight is about the row it reserved, which is      *)
(* there as long as the session is open.                                   *)
PutOK(p) ==
  /\ put[p].at # "idle" /\ Exists =>
       /\ put[p].content \in Content
       /\ put[p].seq \in Reserved => chunk[put[p].seq].content = put[p].content
       /\ Open => put[p].seq \in Reserved

(* The one request that holds the session has its bytes in the store and   *)
(* no receipt yet.                                                         *)
HoldsLock(p) ==
  put[p].at = "written" =>
    /\ session.state = "open"
    /\ put[p].seq \in Reserved \ Received
    /\ store[put[p].seq] = put[p].content
    /\ \A q \in Puts : put[q].at = "written" => q = p

PutsOK == \A p \in Puts : PutOK(p) /\ HoldsLock(p)

(* A receipt is kept, and its bytes until the workspace goes. *)
ReceiptsOK ==
  /\ session.state # "gone" =>
       \A a \in acked : chunk[a[1]] = [content |-> a[2], received |-> TRUE]
  /\ session.lifetime => \A s \in Received : store[s] = chunk[s].content
  /\ \A s \in Seqs : chunk[s].received => s \in Reserved

(* Only the last chunk is short, of the reserved ones too. *)
LastShort == \A r, s \in Reserved : r < s => ~Short(chunk[r].content)

ClosedOK == session.state = "closed" => ClosesWith(session.duration)

(* A job belongs to a received chunk, and only a closed session is stopped. *)
JobsOK ==
  /\ Exists => \A i \in Ids : job[i].state # "none" => i[1] \in Received
  /\ session.state # "closed" => session.continue = "null"

(* Nothing precedes the session. *)
NothingYet ==
  session.state = "none" =>
    /\ \A p \in Puts : put[p].at = "idle"
    /\ \A i \in Ids : job[i].state = "none"

CInv ==
  /\ TypeOK /\ PutsOK /\ ReceiptsOK /\ BytesHaveRows /\ LastShort /\ ClosedOK
  /\ JobsOK /\ NothingYet /\ FanInEnqueued /\ StopReachesAll

-----------------------------------------------------------------------------
(* The parts of the invariant that steps leave alone *)

(* Session, chunks, bytes and requests stay. *)
RowsSame == UNCHANGED <<session, chunk, store, put, acked>>

LEMMA RowsSameInv ==
  ASSUME CInv, RowsSame, job' \in [Ids -> JobT]
  PROVE  /\ TypeOK' /\ PutsOK' /\ ReceiptsOK' /\ BytesHaveRows' /\ LastShort' /\ ClosedOK'
         /\ Reserved' = Reserved /\ Received' = Received /\ Exists' = Exists
  <1> USE DEF RowsSame, CInv
  <1>1. Reserved' = Reserved /\ Received' = Received /\ Exists' = Exists /\ Open' = Open
    BY DEF Reserved, Received, Exists, Open
  <1>2. TypeOK' BY DEF TypeOK
  <1>3. PutsOK' BY <1>1 DEF PutsOK, PutOK, HoldsLock
  <1>4. ReceiptsOK' BY <1>1 DEF ReceiptsOK
  <1>5. BytesHaveRows' /\ LastShort' BY <1>1 DEF BytesHaveRows, LastShort
  <1>6. ClosedOK' BY <1>1 DEF ClosedOK, ClosesWith, EndOf
  <1> QED BY <1>1, <1>2, <1>3, <1>4, <1>5, <1>6

(* One job moves on without being published or enqueued. *)
LEMMA OneJob ==
  ASSUME CInv, RowsSame, NEW i \in Ids, NEW q \in JobT,
         job' = [job EXCEPT ![i] = q],
         job[i].state # "none", q.state # "none",
         q.state = "published" => job[i].state = "published",
         q.state \in ACTIVE => job[i].state \in ACTIVE /\ (job[i].cancel => q.cancel)
  PROVE  CInv'
  <1>1. job \in [Ids -> JobT] /\ job' \in [Ids -> JobT] BY DEF CInv, TypeOK
  <1>2. \A k \in Ids : job'[k] = IF k = i THEN q ELSE job[k] BY <1>1
  <1>3. /\ TypeOK' /\ PutsOK' /\ ReceiptsOK' /\ BytesHaveRows' /\ LastShort' /\ ClosedOK'
        /\ Received' = Received /\ Exists' = Exists
    BY <1>1, RowsSameInv
  <1>4. JobsOK' BY <1>2, <1>3 DEF RowsSame, CInv, JobsOK
  <1>5. NothingYet' BY <1>2 DEF RowsSame, CInv, NothingYet
  <1>6. FanInEnqueued'
    <2> SUFFICES ASSUME NEW s \in Seqs, IsPublished(s, "asr")', IsPublished(s, "device_text")'
                 PROVE  job'[<<s, "claim_extraction">>].state # "none"
      BY DEF FanInEnqueued
    <2>1. <<s, "asr">> \in Ids /\ <<s, "device_text">> \in Ids /\ <<s, "claim_extraction">> \in Ids
      BY DEF Ids, CAPTURE_STAGES
    <2>2. IsPublished(s, "asr") /\ IsPublished(s, "device_text")
      BY <1>2, <2>1 DEF IsPublished
    <2> QED BY <1>2, <2>1, <2>2 DEF CInv, FanInEnqueued
  <1>7. StopReachesAll' BY <1>2 DEF RowsSame, CInv, StopReachesAll
  <1> QED BY <1>3, <1>4, <1>5, <1>6, <1>7 DEF CInv

LEMMA RequestCancelled ==
  ASSUME NEW j \in JobT
  PROVE  /\ RequestCancel(j) \in JobT
         /\ RequestCancel(j).state = "none" <=> j.state = "none"
         /\ RequestCancel(j).state = "published" <=> j.state = "published"
         /\ RequestCancel(j).state \in ACTIVE => j.state \in ACTIVE /\ RequestCancel(j).cancel
  BY DEF RequestCancel, JobT, JobState, ACTIVE, LEASED_STATES

LEMMA OutcomeIs ==
  ASSUME TypeOK, NEW i \in Ids, NEW out \in Outcome(i)
  PROVE  out \in {"none", "invalid", "package", "no_package", "completed", "unavailable"}
  <1>1. Validated(i[1]) \in {"invalid", "package", "no_package"} BY DEF Validated, Package
  <1>2. SpeechOutcome(i[1]) \subseteq {"invalid", "unavailable", "completed"} BY DEF SpeechOutcome
  <1>3. TextOutcome(i[1]) \subseteq {"invalid", "unavailable", "completed"} BY DEF TextOutcome
  <1> QED BY <1>1, <1>2, <1>3 DEF Outcome, FanInOutcome

(* The steps of a job that neither publish nor enqueue *)
LEMMA JobStepInv ==
  ASSUME CInv, NEW i \in Ids,
         Run(i) \/ EndJob(i) \/ LeaseExpires(i) \/ OwnerCancels(i) \/ OwnerDeletes(i) \/ PurgeTombstone(i)
  PROVE  CInv'
  <1>1. job \in [Ids -> JobT] /\ job[i] \in JobT BY DEF CInv, TypeOK
  <1>2. PICK q \in JobT :
          /\ job' = [job EXCEPT ![i] = q] /\ job[i].state # "none" /\ q.state # "none"
          /\ q.state = "published" => job[i].state = "published"
          /\ q.state \in ACTIVE => job[i].state \in ACTIVE /\ (job[i].cancel => q.cancel)
    <2>1. CASE Run(i)
      <3>1. PICK out \in Outcome(i) : job' = [job EXCEPT ![i].state = "running", ![i].out = out]
        BY <2>1 DEF Run
      <3>2. out \in {"none", "invalid", "package", "no_package", "completed", "unavailable"}
        BY OutcomeIs DEF CInv
      <3> DEFINE q == [job[i] EXCEPT !.state = "running", !.out = out]
      <3>3. q \in JobT /\ job' = [job EXCEPT ![i] = q] BY <1>1, <3>1, <3>2 DEF JobT, JobState
      <3>4. q.state = "running" /\ q.cancel = job[i].cancel BY <1>1 DEF JobT
      <3> HIDE DEF q
      <3> QED BY <2>1, <3>3, <3>4 DEF Run, ACTIVE, LEASED_STATES
    <2>2. CASE EndJob(i)
      <3>1. PICK st \in {"cancelled", "failed"} :
              job' = [job EXCEPT ![i].state = st, ![i].out = "none"]
        BY <2>2 DEF EndJob
      <3> DEFINE q == [job[i] EXCEPT !.state = st, !.out = "none"]
      <3>2. q \in JobT /\ job' = [job EXCEPT ![i] = q] BY <1>1, <3>1 DEF JobT, JobState
      <3>3. q.state = st BY <1>1 DEF JobT
      <3> HIDE DEF q
      <3> QED BY <2>2, <3>2, <3>3 DEF EndJob, ACTIVE, LEASED_STATES
    <2>3. CASE LeaseExpires(i)
      <3> DEFINE q == [job[i] EXCEPT !.state = IF job[i].cancel THEN "cancelled" ELSE "queued",
                                   !.out = "none"]
      <3>1. q \in JobT /\ job' = [job EXCEPT ![i] = q]
        BY <1>1, <2>3 DEF LeaseExpires, JobT, JobState
      <3>2. q.state = (IF job[i].cancel THEN "cancelled" ELSE "queued") /\ q.cancel = job[i].cancel
        BY <1>1 DEF JobT
      <3> HIDE DEF q
      <3> QED BY <2>3, <3>1, <3>2 DEF LeaseExpires, ACTIVE, LEASED_STATES
    <2>4. CASE OwnerCancels(i)
      <3>1. job' = [job EXCEPT ![i] = RequestCancel(job[i])] BY <2>4 DEF OwnerCancels
      <3> QED BY <1>1, <2>4, <3>1, RequestCancelled DEF OwnerCancels, ACTIVE, LEASED_STATES
    <2>5. CASE OwnerDeletes(i)
      <3> DEFINE q == [job[i] EXCEPT !.state = "deleted", !.out = "none"]
      <3>1. q \in JobT /\ job' = [job EXCEPT ![i] = q]
        BY <1>1, <2>5 DEF OwnerDeletes, JobT, JobState
      <3>2. q.state = "deleted" BY <1>1 DEF JobT
      <3> HIDE DEF q
      <3> QED BY <2>5, <3>1, <3>2 DEF OwnerDeletes, InTable, JobState, ACTIVE, LEASED_STATES
    <2>6. CASE PurgeTombstone(i)
      <3> DEFINE q == [NoJob EXCEPT !.state = "gone"]
      <3>1. q \in JobT /\ job' = [job EXCEPT ![i] = q]
        BY <1>1, <2>6 DEF PurgeTombstone, NoJob, JobT, JobState
      <3>2. q.state = "gone" BY DEF NoJob
      <3> HIDE DEF q
      <3> QED BY <2>6, <3>1, <3>2 DEF PurgeTombstone, ACTIVE, LEASED_STATES
    <2> QED BY <2>1, <2>2, <2>3, <2>4, <2>5, <2>6
  <1>3. RowsSame
    BY DEF Run, EndJob, LeaseExpires, OwnerCancels, OwnerDeletes, PurgeTombstone, RowsSame
  <1> QED BY <1>2, <1>3, OneJob

LEMMA IdsAre ==
  ASSUME NEW s \in Seqs
  PROVE  \A stage \in CAPTURE_STAGES : <<s, stage>> \in Ids
  BY DEF Ids

(* Publication, with the fan-out and the fan-in, or a withdrawal *)
LEMMA PublishInv ==
  ASSUME CInv, NEW i \in Ids, PublishChunk(i)
  PROVE  CInv'
  <1> DEFINE s == i[1]
             stage == i[2]
  <1>1. /\ s \in Seqs /\ stage \in CAPTURE_STAGES /\ i = <<s, stage>>
        /\ job \in [Ids -> JobT] /\ job[i] \in JobT /\ RowsSame
        /\ job[i].state = "running"
    BY DEF Ids, CInv, TypeOK, PublishChunk, Publishable, RowsSame
  <1>2. CASE job' = [job EXCEPT ![i] = RequestCancel(job[i])]
    BY <1>1, <1>2, RequestCancelled, OneJob DEF ACTIVE, LEASED_STATES
  <1>3. CASE /\ ~Withdrawn(s)
             /\ job' = [k \in Ids |-> IF k = i THEN [job[i] EXCEPT !.state = "published"]
                                      ELSE IF k \in Enqueued(Successors(s, stage))
                                      THEN NewJob ELSE job[k]]
    <2> DEFINE q == [job[i] EXCEPT !.state = "published"]
    <2>1. q \in JobT /\ q.state = "published" BY <1>1 DEF JobT, JobState
    <2>2. NewJob \in JobT /\ NewJob.state = "queued" BY DEF NewJob, NoJob, JobT, JobState
    <2>3. /\ job'[i] = q
          /\ \A k \in Ids \ {i} : \/ job'[k] = job[k]
                                  \/ job'[k] = NewJob /\ k \in Successors(s, stage)
      BY <1>1, <1>3 DEF Enqueued
    <2>4. job' \in [Ids -> JobT] BY <1>1, <1>3, <2>1, <2>2
    <2> HIDE DEF q
    <2>5. /\ TypeOK' /\ PutsOK' /\ ReceiptsOK' /\ BytesHaveRows' /\ LastShort' /\ ClosedOK'
          /\ Received' = Received /\ Exists' = Exists
      BY <1>1, <2>4, RowsSameInv
    <2>6. session.state \in {"open", "closed"} /\ session.continue # "no" /\ s \in Received
      BY <1>3 DEF Withdrawn, Exists
    <2>7. \A k \in Successors(s, stage) : k[1] = s BY DEF Successors
    <2>8. JobsOK'
      <3>1. \A k \in Ids : job'[k].state # "none" => k[1] \in Received
        BY <1>1, <2>3, <2>6, <2>7 DEF CInv, JobsOK, Exists
      <3> QED BY <1>1, <2>5, <3>1 DEF RowsSame, CInv, JobsOK
    <2>9. NothingYet' /\ StopReachesAll'
      BY <1>1, <2>6 DEF RowsSame, NothingYet, StopReachesAll
    <2>10. FanInEnqueued'
      <3> SUFFICES ASSUME NEW r \in Seqs, IsPublished(r, "asr")', IsPublished(r, "device_text")'
                   PROVE  job'[<<r, "claim_extraction">>].state # "none"
        BY DEF FanInEnqueued
      <3> DEFINE a == <<r, "asr">>
                 t == <<r, "device_text">>
                 f == <<r, "claim_extraction">>
      <3>1. a \in Ids /\ t \in Ids /\ f \in Ids BY IdsAre DEF CAPTURE_STAGES
      <3>2. a # i => job[a].state = "published" BY <2>2, <2>3, <3>1 DEF IsPublished
      <3>3. t # i => job[t].state = "published" BY <2>2, <2>3, <3>1 DEF IsPublished
      <3>4. CASE i = a \/ i = t
        <4>1. f \in Successors(s, stage) /\ f # i
          BY <1>1, <3>2, <3>3, <3>4 DEF Successors, IsPublished, CAPTURE_STAGE
        <4>2. job'[f] = IF job[f].state = "none" THEN NewJob ELSE job[f]
          BY <1>3, <3>1, <4>1 DEF Enqueued
        <4> QED BY <2>2, <4>2
      <3>5. CASE i # a /\ i # t
        <4>1. job[f].state # "none" BY <3>2, <3>3, <3>5 DEF CInv, FanInEnqueued, IsPublished
        <4> QED BY <2>1, <2>2, <2>3, <3>1, <4>1
      <3> QED BY <3>4, <3>5
    <2> QED BY <2>5, <2>8, <2>9, <2>10 DEF CInv
  <1> QED BY <1>2, <1>3 DEF PublishChunk

-----------------------------------------------------------------------------
(* Upload *)

LEMMA PutSet ==
  ASSUME TypeOK, NEW p \in Puts, NEW v \in PutT, put' = [put EXCEPT ![p] = v]
  PROVE  put' \in [Puts -> PutT] /\ \A q \in Puts : put'[q] = IF q = p THEN v ELSE put[q]
  BY DEF TypeOK

LEMMA NoPutIs == NoPut \in PutT /\ NoPut.at = "idle"
  BY CaptureAssumption DEF NoPut, PutT, Seqs, Maybe

LEMMA ReserveInv ==
  ASSUME CInv, NEW p \in Puts, NEW s \in Seqs, NEW c \in Sent[s], Reserve(p, s, c)
  PROVE  CInv'
  <1> DEFINE v == [at |-> "reserved", seq |-> s, content |-> c]
  <1>1. c \in Content /\ c # NoContent BY CaptureAssumption DEF Seqs
  <1>2. v \in PutT /\ v.at = "reserved" /\ v.seq = s /\ v.content = c BY <1>1 DEF PutT, Maybe
  <1>3. /\ put' \in [Puts -> PutT]
        /\ \A q \in Puts : put'[q] = IF q = p THEN v ELSE put[q]
    BY <1>2, PutSet DEF CInv, Reserve
  <1> HIDE DEF v
  <1>4. /\ Exists /\ Free /\ UNCHANGED <<session, store, job, acked>>
        /\ chunk \in [Seqs -> ChunkT]
    BY DEF Reserve, CInv, TypeOK
  <1>5. /\ s \notin Reserved => Open
        /\ s \in Reserved => chunk[s].content = c /\ chunk' = chunk
        /\ s \notin Reserved => chunk' = [chunk EXCEPT ![s].content = c]
    BY DEF Reserve, Admissible
  <1>6. /\ chunk' \in [Seqs -> ChunkT]
        /\ chunk'[s].content = c /\ chunk'[s].received = chunk[s].received
        /\ \A r \in Seqs \ {s} : chunk'[r] = chunk[r]
        /\ s \in Reserved => chunk' = chunk
    <2>1. CASE s \in Reserved BY <1>4, <1>5, <2>1
    <2>2. CASE s \notin Reserved BY <1>1, <1>4, <1>5, <2>2 DEF ChunkT, Maybe
    <2> QED BY <2>1, <2>2
  <1>7. Reserved' = Reserved \cup {s} BY <1>1, <1>6 DEF Reserved
  <1>8. Received' = Received
    <2>1. s \notin Reserved => ~chunk[s].received BY DEF CInv, ReceiptsOK
    <2>2. \A r \in Seqs : chunk'[r].received = chunk[r].received BY <1>6
    <2>3. Reserved \subseteq Seqs BY DEF Reserved
    <2> QED BY <1>7, <2>1, <2>2, <2>3, Zenon DEF Received
  <1>9. Exists' = Exists /\ Open' = Open BY <1>4 DEF Exists, Open
  <1>10. TypeOK' BY <1>3, <1>4, <1>6 DEF CInv, TypeOK
  <1>11. \A r \in Reserved : chunk'[r] = chunk[r]
    BY <1>5, <1>6 DEF Reserved
  <1>12. PutsOK'
    <2> SUFFICES ASSUME NEW q \in Puts PROVE PutOK(q)' /\ HoldsLock(q)'
      BY DEF PutsOK
    <2>1. put[q].at # "written" /\ put'[q].at # "written"
      BY <1>2, <1>3, <1>4 DEF Free
    <2>2. HoldsLock(q)' BY <2>1 DEF HoldsLock
    <2>3. CASE q = p BY <1>1, <1>2, <1>3, <1>6, <1>7, <2>2, <2>3 DEF PutOK
    <2>4. CASE q # p
      <3>1. put'[q] = put[q] /\ PutOK(q) /\ put[q].seq \in Seqs
        BY <1>3, <2>4 DEF CInv, PutsOK, TypeOK, PutT
      <3>2. CASE put[q].at = "idle" BY <2>2, <3>1, <3>2 DEF PutOK
      <3>3. CASE put[q].at # "idle"
        <4>1. /\ put[q].content \in Content
              /\ put[q].seq \in Reserved => chunk[put[q].seq].content = put[q].content
              /\ Open => put[q].seq \in Reserved
          BY <1>4, <3>1, <3>3 DEF PutOK
        <4>2. put[q].seq \in Reserved' => put[q].seq \in Reserved
          BY <1>5, <1>7, <4>1
        <4> QED BY <1>7, <1>9, <1>11, <2>2, <3>1, <4>1, <4>2 DEF PutOK
      <3> QED BY <3>2, <3>3
    <2> QED BY <2>2, <2>3, <2>4
  <1>13. ReceiptsOK'
    <2>1. session.state # "gone" =>
            \A a \in acked : chunk'[a[1]] = [content |-> a[2], received |-> TRUE]
      <3> SUFFICES ASSUME session.state # "gone", NEW a \in acked
                   PROVE  chunk'[a[1]] = [content |-> a[2], received |-> TRUE]
        OBVIOUS
      <3>1. chunk[a[1]] = [content |-> a[2], received |-> TRUE] /\ a[1] \in Seqs
        BY DEF CInv, ReceiptsOK, TypeOK
      <3>2. chunk[a[1]].received /\ a[1] \in Reserved BY <3>1 DEF CInv, ReceiptsOK
      <3> QED BY <1>11, <3>1, <3>2
    <2>2. \A r \in Received : r \in Reserved BY DEF Received
    <2>3. session.lifetime => \A r \in Received : store[r] = chunk'[r].content
      BY <1>11, <2>2 DEF CInv, ReceiptsOK
    <2>4. \A r \in Seqs : chunk'[r].received => r \in Reserved'
      BY <1>6, <1>7 DEF CInv, ReceiptsOK
    <2> QED BY <1>4, <1>8, <2>1, <2>3, <2>4 DEF ReceiptsOK
  <1>14. BytesHaveRows' BY <1>4, <1>7 DEF CInv, BytesHaveRows
  <1>15. LastShort'
    <2>1. CASE s \in Reserved
      BY <1>6, <1>7, <2>1 DEF CInv, LastShort, Short
    <2>2. CASE s \notin Reserved
      <3>1. ~\E r \in Reserved : (r < s /\ Short(chunk[r].content)) \/ (r > s /\ Short(c))
        BY <2>2 DEF Reserve, Admissible
      <3>2. Reserved \subseteq Seqs /\ \A r \in Seqs : r \in Int BY DEF Reserved, Seqs
      <3>3. SUFFICES ASSUME NEW q \in Reserved \cup {s}, NEW r \in Reserved \cup {s}, q < r
                     PROVE  ~Short(chunk'[q].content)
        BY <1>7 DEF LastShort, Short
      <3>4. CASE q = s BY <1>6, <3>1, <3>2, <3>3, <3>4
      <3>5. CASE q # s BY <1>11, <3>1, <3>2, <3>3, <3>5 DEF CInv, LastShort
      <3> QED BY <3>4, <3>5
    <2> QED BY <2>1, <2>2
  <1>16. ClosedOK'
    <2>1. \A r \in Received : chunk'[r] = chunk[r] BY <1>11 DEF Received
    <2> QED BY <1>4, <1>8, <2>1 DEF CInv, ClosedOK, ClosesWith, EndOf, Short
  <1>17. JobsOK' /\ FanInEnqueued' /\ StopReachesAll'
    BY <1>4, <1>8, <1>9 DEF CInv, JobsOK, FanInEnqueued, StopReachesAll, IsPublished
  <1>18. NothingYet' BY <1>4 DEF NothingYet, Exists
  <1> QED BY <1>10, <1>12, <1>13, <1>14, <1>15, <1>16, <1>17, <1>18 DEF CInv

(* A request that ends, with or without an acknowledgement of a chunk that *)
(* is received already                                                     *)
LEMMA EndPutInv ==
  ASSUME CInv, NEW p \in Puts, put' = [put EXCEPT ![p] = NoPut],
         UNCHANGED <<session, chunk, store, job>>,
         \/ acked' = acked
         \/ /\ acked' = acked \cup {<<put[p].seq, put[p].content>>}
            /\ put[p].seq \in Received /\ put[p].content \in Content
            /\ chunk[put[p].seq].content = put[p].content
  PROVE  CInv'
  <1>1. /\ put' \in [Puts -> PutT]
        /\ \A q \in Puts : put'[q] = IF q = p THEN NoPut ELSE put[q]
    BY NoPutIs, PutSet DEF CInv
  <1>2. Reserved' = Reserved /\ Received' = Received /\ Exists' = Exists /\ Open' = Open
    BY DEF Reserved, Received, Exists, Open
  <1>3. put[p].seq \in Seqs BY DEF CInv, TypeOK, PutT
  <1>4. TypeOK' BY <1>1, <1>3 DEF CInv, TypeOK
  <1>5. PutsOK'
    <2> SUFFICES ASSUME NEW q \in Puts PROVE PutOK(q)' /\ HoldsLock(q)'
      BY DEF PutsOK
    <2>1. CASE q = p BY <1>1, <2>1, NoPutIs DEF PutOK, HoldsLock
    <2>2. CASE q # p
      <3>1. put'[q] = put[q] /\ PutOK(q) /\ HoldsLock(q) BY <1>1, <2>2 DEF CInv, PutsOK
      <3>2. PutOK(q)' BY <1>2, <3>1 DEF PutOK
      <3>3. \A k \in Puts : put'[k].at = "written" => put[k].at = "written"
        BY <1>1, NoPutIs
      <3>4. HoldsLock(q)' BY <1>2, <3>1, <3>3 DEF HoldsLock
      <3> QED BY <3>2, <3>4
    <2> QED BY <2>1, <2>2
  <1>6. ReceiptsOK'
    <2>1. session.state # "gone" =>
            \A a \in acked' : chunk[a[1]] = [content |-> a[2], received |-> TRUE]
      <3>1. session.state # "gone" =>
              \A a \in acked : chunk[a[1]] = [content |-> a[2], received |-> TRUE]
        BY DEF CInv, ReceiptsOK
      <3>2. CASE acked' = acked BY <3>1, <3>2
      <3>3. CASE acked' # acked
        <4>1. /\ acked' = acked \cup {<<put[p].seq, put[p].content>>}
              /\ put[p].seq \in Received
              /\ chunk[put[p].seq].content = put[p].content
          BY <3>3
        <4>2. chunk[put[p].seq] \in ChunkT /\ chunk[put[p].seq].received
          BY <1>3, <4>1 DEF CInv, TypeOK, Received
        <4>3. chunk[put[p].seq] = [content |-> put[p].content, received |-> TRUE]
          BY <4>1, <4>2 DEF ChunkT
        <4>4. \A a \in acked' : a \in acked \/ (a[1] = put[p].seq /\ a[2] = put[p].content)
          BY <4>1
        <4> QED BY <3>1, <4>3, <4>4
      <3> QED BY <3>2, <3>3
    <2> QED BY <1>2, <2>1 DEF CInv, ReceiptsOK
  <1>7. BytesHaveRows' /\ LastShort' /\ ClosedOK' /\ JobsOK' /\ FanInEnqueued' /\ StopReachesAll'
    BY <1>2 DEF CInv, BytesHaveRows, LastShort, ClosedOK, ClosesWith, EndOf, JobsOK,
                FanInEnqueued, IsPublished, StopReachesAll
  <1>8. NothingYet' BY <1>1, NoPutIs DEF CInv, NothingYet
  <1> QED BY <1>4, <1>5, <1>6, <1>7, <1>8 DEF CInv

LEMMA DuplicateInv ==
  ASSUME CInv, NEW p \in Puts, Duplicate(p) \/ Abandon(p)
  PROVE  CInv'
  <1>1. CASE Abandon(p) BY <1>1, EndPutInv DEF Abandon
  <1>2. CASE Duplicate(p)
    <2>1. PutOK(p) /\ put[p].at # "idle" /\ Exists /\ put[p].seq \in Received
      BY <1>2 DEF Duplicate, CInv, PutsOK
    <2>2. put[p].content \in Content /\ chunk[put[p].seq].content = put[p].content
      BY <2>1 DEF PutOK, Received
    <2> QED BY <1>2, <2>1, <2>2, EndPutInv DEF Duplicate, Acknowledge
  <1> QED BY <1>1, <1>2

LEMMA WriteBytesInv ==
  ASSUME CInv, NEW p \in Puts, WriteBytes(p)
  PROVE  CInv'
  <1> DEFINE s == put[p].seq
             v == [put[p] EXCEPT !.at = "written"]
  <1>1. /\ put[p] \in PutT /\ s \in Seqs /\ put[p].content \in Maybe
        /\ put \in [Puts -> PutT] /\ store \in [Seqs -> Maybe]
    BY DEF CInv, TypeOK, PutT
  <1>2. v \in PutT /\ v.at = "written" /\ v.seq = s /\ v.content = put[p].content
    BY <1>1 DEF PutT
  <1>3. /\ put' \in [Puts -> PutT]
        /\ \A q \in Puts : put'[q] = IF q = p THEN v ELSE put[q]
    BY <1>1, <1>2 DEF WriteBytes
  <1>4. /\ store' \in [Seqs -> Maybe] /\ store'[s] = put[p].content
        /\ \A r \in Seqs \ {s} : store'[r] = store[r]
    BY <1>1 DEF WriteBytes
  <1> HIDE DEF v
  <1>5. /\ put[p].at = "reserved" /\ Free /\ s \in Reserved \ Received /\ Open
        /\ UNCHANGED <<session, chunk, job, acked>>
    BY DEF WriteBytes
  <1> HIDE DEF s
  <1>6. Reserved' = Reserved /\ Received' = Received /\ Exists' = Exists /\ Open' = Open
    BY <1>5 DEF Reserved, Received, Exists, Open
  <1>7. TypeOK' BY <1>3, <1>4, <1>5 DEF CInv, TypeOK
  <1>8. PutsOK'
    <2> SUFFICES ASSUME NEW q \in Puts PROVE PutOK(q)' /\ HoldsLock(q)'
      BY DEF PutsOK
    <2>1. CASE q = p
      <3>1. PutOK(p) /\ put[p].at # "idle" /\ Exists
        BY <1>5 DEF CInv, PutsOK, Open, Exists
      <3>2. put'[p].seq = s /\ put'[p].content = put[p].content /\ put[p].seq = s
        BY <1>2, <1>3 DEF s
      <3>3. PutOK(p)' BY <1>5, <1>6, <3>1, <3>2 DEF PutOK
      <3>4. \A k \in Puts : put'[k].at = "written" => k = p BY <1>3, <1>5 DEF Free
      <3>5. session'.state = "open" BY <1>5 DEF Open
      <3>6. HoldsLock(p)' BY <1>4, <1>5, <1>6, <3>2, <3>4, <3>5 DEF HoldsLock
      <3> QED BY <2>1, <3>3, <3>6
    <2>2. CASE q # p
      <3>1. put'[q] = put[q] /\ PutOK(q) /\ put[q].at # "written"
        BY <1>3, <1>5, <2>2 DEF CInv, PutsOK, Free
      <3>2. PutOK(q)' BY <1>5, <1>6, <3>1 DEF PutOK
      <3>3. HoldsLock(q)' BY <3>1 DEF HoldsLock
      <3> QED BY <3>2, <3>3
    <2> QED BY <2>1, <2>2
  <1>9. Received \subseteq Seqs /\ s \notin Received BY <1>5 DEF Received, Reserved
  <1>10. ReceiptsOK' BY <1>4, <1>5, <1>6, <1>9 DEF CInv, ReceiptsOK
  <1>11. BytesHaveRows' BY <1>4, <1>5, <1>6 DEF CInv, BytesHaveRows
  <1>12. LastShort' /\ ClosedOK' /\ JobsOK' /\ FanInEnqueued' /\ StopReachesAll'
    BY <1>5, <1>6 DEF CInv, LastShort, ClosedOK, ClosesWith, EndOf, JobsOK,
                FanInEnqueued, IsPublished, StopReachesAll
  <1>13. NothingYet' BY <1>5 DEF NothingYet, Open
  <1> QED BY <1>7, <1>8, <1>10, <1>11, <1>12, <1>13 DEF CInv

LEMMA ReceiveInv ==
  ASSUME CInv, NEW p \in Puts, Receive(p)
  PROVE  CInv'
  <1> DEFINE s == put[p].seq
             c == put[p].content
             root == <<s, CAPTURE_STAGE>>
  <1>1. /\ put[p].at = "written" /\ Open /\ s \in Seqs
        /\ put' = [put EXCEPT ![p] = NoPut] /\ acked' = acked \cup {<<s, c>>}
        /\ chunk' = [chunk EXCEPT ![s].received = TRUE]
        /\ job' = [job EXCEPT ![root] = NewJob]
        /\ UNCHANGED <<session, store>>
        /\ chunk \in [Seqs -> ChunkT] /\ job \in [Ids -> JobT] /\ acked \subseteq Seqs \X Content
    BY DEF Receive, Acknowledge, CInv, TypeOK, PutT
  <1>2. PutOK(p) /\ HoldsLock(p) BY DEF CInv, PutsOK
  <1>3. Exists BY <1>1 DEF Open, Exists
  <1>4. c \in Content /\ chunk[s].content = c /\ s \in Reserved \ Received /\ store[s] = c
    BY <1>1, <1>2, <1>3 DEF PutOK, HoldsLock
  <1>5. /\ put' \in [Puts -> PutT]
        /\ \A q \in Puts : put'[q] = IF q = p THEN NoPut ELSE put[q]
    BY <1>1, NoPutIs, PutSet DEF CInv
  <1>6. root \in Ids BY <1>1, IdsAre DEF CAPTURE_STAGES
  <1> HIDE DEF s, c, root
  <1>7. /\ chunk' \in [Seqs -> ChunkT]
        /\ chunk'[s] = [content |-> c, received |-> TRUE]
        /\ \A r \in Seqs \ {s} : chunk'[r] = chunk[r]
    BY <1>1, <1>4 DEF ChunkT
  <1>8. \A r \in Seqs : chunk'[r].content = chunk[r].content BY <1>4, <1>7
  <1>9. Reserved' = Reserved BY <1>8 DEF Reserved
  <1>10. Received' = Received \cup {s} BY <1>4, <1>7, <1>9 DEF Received, Reserved
  <1>11. Exists' = Exists /\ Open' = Open BY <1>1 DEF Exists, Open
  <1>12. NewJob \in JobT /\ NewJob.state = "queued" BY DEF NewJob, NoJob, JobT, JobState
  <1>13. job' \in [Ids -> JobT] /\ \A k \in Ids : job'[k] = IF k = root THEN NewJob ELSE job[k]
    BY <1>1, <1>6, <1>12
  <1>14. TypeOK' BY <1>1, <1>4, <1>5, <1>7, <1>13 DEF CInv, TypeOK
  <1>15. PutsOK'
    <2> SUFFICES ASSUME NEW q \in Puts PROVE PutOK(q)' /\ HoldsLock(q)'
      BY DEF PutsOK
    <2>1. put'[q].at # "written" BY <1>1, <1>2, <1>5, NoPutIs DEF HoldsLock
    <2>2. HoldsLock(q)' BY <2>1 DEF HoldsLock
    <2>3. CASE q = p BY <1>5, <2>2, <2>3, NoPutIs DEF PutOK
    <2>4. CASE q # p
      <3>1. put'[q] = put[q] /\ PutOK(q) /\ put[q].seq \in Seqs
        BY <1>5, <2>4 DEF CInv, PutsOK, TypeOK, PutT
      <3>2. PutOK(q)' BY <1>8, <1>9, <1>11, <3>1 DEF PutOK
      <3> QED BY <2>2, <3>2
    <2> QED BY <2>3, <2>4
  <1>16. ReceiptsOK'
    <2>1. session.state # "gone" =>
            \A a \in acked' : chunk'[a[1]] = [content |-> a[2], received |-> TRUE]
      <3> SUFFICES ASSUME session.state # "gone", NEW a \in acked'
                   PROVE  chunk'[a[1]] = [content |-> a[2], received |-> TRUE]
        OBVIOUS
      <3>1. CASE a \in acked
        <4>1. chunk[a[1]] = [content |-> a[2], received |-> TRUE] /\ a[1] \in Seqs
          BY <1>1, <3>1 DEF CInv, ReceiptsOK
        <4>2. a[1] # s BY <1>4, <4>1 DEF Received
        <4> QED BY <1>7, <4>1, <4>2
      <3>2. CASE a = <<s, c>> BY <1>7, <3>2
      <3> QED BY <1>1, <3>1, <3>2
    <2>2. session.lifetime => \A r \in Received' : store[r] = chunk'[r].content
      <3>1. \A r \in Received : r \in Seqs BY DEF Received, Reserved
      <3> QED BY <1>1, <1>4, <1>8, <1>10, <3>1 DEF CInv, ReceiptsOK
    <2>3. \A r \in Seqs : chunk'[r].received => r \in Reserved'
      BY <1>4, <1>7, <1>9 DEF CInv, ReceiptsOK
    <2> QED BY <1>1, <2>1, <2>2, <2>3 DEF ReceiptsOK
  <1>17. BytesHaveRows' BY <1>1, <1>9 DEF CInv, BytesHaveRows
  <1>18. LastShort'
    <2>1. \A r \in Reserved : chunk'[r].content = chunk[r].content BY <1>8 DEF Reserved
    <2> QED BY <1>9, <2>1 DEF CInv, LastShort
  <1>19. ClosedOK' /\ StopReachesAll' /\ NothingYet'
    BY <1>1 DEF CInv, JobsOK, ClosedOK, StopReachesAll, NothingYet, Open
  <1>20. JobsOK'
    <2>1. root[1] = s BY DEF root
    <2> QED BY <1>1, <1>3, <1>10, <1>13, <2>1 DEF CInv, JobsOK
  <1>21. FanInEnqueued'
    <2> SUFFICES ASSUME NEW r \in Seqs, IsPublished(r, "asr")', IsPublished(r, "device_text")'
                 PROVE  job'[<<r, "claim_extraction">>].state # "none"
      BY DEF FanInEnqueued
    <2>1. <<r, "asr">> \in Ids /\ <<r, "device_text">> \in Ids /\ <<r, "claim_extraction">> \in Ids
      BY IdsAre DEF CAPTURE_STAGES
    <2>2. <<r, "asr">> # root /\ <<r, "device_text">> # root /\ <<r, "claim_extraction">> # root
      BY DEF root, CAPTURE_STAGE
    <2> QED BY <1>13, <2>1, <2>2 DEF CInv, FanInEnqueued, IsPublished
  <1> QED BY <1>14, <1>15, <1>16, <1>17, <1>18, <1>19, <1>20, <1>21 DEF CInv

-----------------------------------------------------------------------------
(* The ends of chunks *)

(* The least number principle and, for a bounded set, the greatest one *)
LEMMA Smallest ==
  ASSUME NEW T \in SUBSET Nat, T # {}
  PROVE  \E x \in T : \A y \in T : x <= y
  <1> DEFINE R == OpToRel(<, Nat)
  <1>1. IsWellFoundedOn(R, Nat) BY NatLessThanWellFounded
  <1> HIDE DEF R
  <1>2. PICK x \in T : \A y \in T : ~(<<y, x>> \in R) BY <1>1, WFMin
  <1>3. \A y \in T : <<y, x>> \in R <=> y < x BY DEF R, OpToRel
  <1>4. \A y \in T : ~(y < x) BY <1>2, <1>3
  <1>5. x \in Nat /\ \A y \in T : y \in Nat OBVIOUS
  <1>6. \A y \in T : x <= y BY <1>4, <1>5
  <1> QED BY <1>6

LEMMA Greatest ==
  ASSUME NEW T \in SUBSET Nat, T # {}, NEW n \in Nat, \A x \in T : x <= n
  PROVE  \E x \in T : \A y \in T : y <= x
  <1> DEFINE U == {m \in Nat : \E x \in T : m = n - x}
  <1>1. U \in SUBSET Nat /\ U # {}
    <2>1. PICK x \in T : TRUE OBVIOUS
    <2>2. n - x \in U BY <2>1
    <2> QED BY <2>2
  <1>2. PICK m \in U : \A k \in U : m <= k
    <2> HIDE DEF U
    <2> QED BY <1>1, Smallest
  <1>3. PICK x \in T : m = n - x BY <1>2
  <1>4. \A y \in T : n - y \in U OBVIOUS
  <1>5. \A y \in T : y <= x BY <1>2, <1>3, <1>4
  <1> QED BY <1>5

(* Received chunks have their contents and end within their own length. *)
LEMMA EndIs ==
  ASSUME TypeOK, NEW s \in Received
  PROVE  /\ s \in Nat /\ s <= MaxSeq /\ s \in Seqs
         /\ chunk[s].content.len \in 1..ChunkLen
         /\ StartOf(s) \in Nat /\ EndOf(s) \in Nat
         /\ StartOf(s) < EndOf(s) /\ EndOf(s) <= StartOf(s) + ChunkLen
  <1>1. s \in Nat /\ s <= MaxSeq /\ s \in Seqs BY CaptureAssumption DEF Received, Reserved, Seqs
  <1>2. chunk[s].content \in Content
    BY <1>1 DEF TypeOK, Received, Reserved, ChunkT, Maybe
  <1>3. chunk[s].content.len \in 1..ChunkLen BY <1>2 DEF Content
  <1>4. ChunkLen \in Nat BY CaptureAssumption
  <1>5. StartOf(s) \in Nat BY <1>1, <1>4 DEF StartOf
  <1> QED BY <1>1, <1>3, <1>4, <1>5 DEF EndOf

LEMMA Starts ==
  ASSUME NEW q \in Nat, NEW s \in Nat, q < s
  PROVE  StartOf(q) + ChunkLen <= StartOf(s)
  <1>1. ChunkLen \in Nat BY CaptureAssumption
  <1> QED BY <1>1 DEF StartOf

LEMMA LastEndIs ==
  ASSUME TypeOK
  PROVE  /\ LastEnd \in Nat
         /\ \A s \in Received : EndOf(s) <= LastEnd
         /\ Received # {} => \E s \in Received : LastEnd = EndOf(s)
  <1>1. CASE Received = {} BY <1>1 DEF LastEnd
  <1>2. CASE Received # {}
    <2> DEFINE T == {EndOf(s) : s \in Received}
               n == StartOf(MaxSeq) + ChunkLen
    <2>1. MaxSeq \in Nat /\ ChunkLen \in Nat /\ StartOf(MaxSeq) \in Nat
      BY CaptureAssumption DEF StartOf
    <2>2. \A s \in Received : EndOf(s) \in Nat /\ EndOf(s) <= n
      <3> SUFFICES ASSUME NEW s \in Received PROVE EndOf(s) \in Nat /\ EndOf(s) <= n OBVIOUS
      <3>1. s < MaxSeq => StartOf(s) + ChunkLen <= StartOf(MaxSeq) BY <2>1, EndIs, Starts
      <3> QED BY <2>1, <3>1, EndIs
    <2>3. T \in SUBSET Nat /\ T # {} /\ n \in Nat /\ \A x \in T : x <= n
      BY <1>2, <2>1, <2>2
    <2> HIDE DEF n
    <2>4. \E e \in T : \A y \in T : y <= e
      <3> HIDE DEF T
      <3> QED BY <2>3, Greatest
    <2>5. \E e \in T : \A s \in Received : EndOf(s) <= e BY <2>4
    <2>6. LastEnd \in T /\ \A s \in Received : EndOf(s) <= LastEnd
      BY <1>2, <2>5 DEF LastEnd
    <2> QED BY <2>3, <2>6
  <1> QED BY <1>1, <1>2

(* What ends before chunk s, when some chunk precedes it, is the chunk     *)
(* right before it.                                                        *)
LEMMA EndBeforeIs ==
  ASSUME TypeOK, NEW s \in Seqs
  PROVE  /\ EndBefore(s) \in Nat
         /\ Before(s) = {} => EndBefore(s) = 0
         /\ Before(s) # {} => \E r \in Before(s) : EndBefore(s) = EndOf(r)
  <1>1. CASE Before(s) = {} BY <1>1 DEF EndBefore
  <1>2. CASE Before(s) # {}
    <2>1. Before(s) \in SUBSET Nat /\ \A r \in Before(s) : r <= MaxSeq BY EndIs DEF Before
    <2>2. MaxSeq \in Nat BY CaptureAssumption
    <2>3. \E r \in Before(s) : \A q \in Before(s) : q <= r BY <1>2, <2>1, <2>2, Greatest
    <2> DEFINE r == CHOOSE r \in Before(s) : \A q \in Before(s) : q <= r
    <2>4. r \in Before(s) BY <2>3
    <2>5. EndBefore(s) = EndOf(r) BY <1>2 DEF EndBefore
    <2> HIDE DEF r
    <2>6. EndOf(r) \in Nat BY <2>4, EndIs DEF Before
    <2> QED BY <1>2, <2>4, <2>5, <2>6
  <1> QED BY <1>1, <1>2

-----------------------------------------------------------------------------
(* The session *)

LEMMA CloseInv ==
  ASSUME CInv, NEW continue \in {"yes", "no"}, NEW d \in {LastEnd, MaxLen},
         CloseCapture(continue, d)
  PROVE  CInv'
  <1>1. d \in Nat BY CaptureAssumption, LastEndIs DEF CInv
  <1>2. /\ session.state = "open" /\ Free /\ ClosesWith(d)
        /\ UNCHANGED <<chunk, store, put, acked>>
        /\ session \in SessionT /\ job \in [Ids -> JobT]
    BY DEF CloseCapture, CInv, TypeOK
  <1>3. /\ session' \in SessionT /\ session'.state = "closed" /\ session'.duration = d
        /\ session'.continue = continue /\ session'.lifetime = session.lifetime
    BY <1>1, <1>2 DEF CloseCapture, SessionT
  <1>4. \A i \in Ids : job'[i] = IF continue = "no" /\ i \in Listed THEN RequestCancel(job[i])
                                 ELSE job[i]
    BY DEF CloseCapture
  <1>5. job' \in [Ids -> JobT]
    <2>1. \A i \in Ids : job'[i] \in JobT BY <1>2, <1>4, RequestCancelled
    <2>2. job' = [i \in Ids |-> job'[i]] BY DEF CloseCapture
    <2> QED BY <2>1, <2>2
  <1>6. /\ Reserved' = Reserved /\ Received' = Received /\ Exists /\ Exists' /\ ~Open'
    BY <1>2, <1>3 DEF Reserved, Received, Exists, Open
  <1>7. TypeOK' BY <1>2, <1>3, <1>5 DEF CInv, TypeOK
  <1>8. PutsOK'
    <2> SUFFICES ASSUME NEW q \in Puts PROVE PutOK(q)' /\ HoldsLock(q)'
      BY DEF PutsOK
    <2>1. PutOK(q)' BY <1>2, <1>6 DEF CInv, PutsOK, PutOK
    <2>2. HoldsLock(q)' BY <1>2 DEF HoldsLock, Free
    <2> QED BY <2>1, <2>2
  <1>9. ReceiptsOK' /\ BytesHaveRows' /\ LastShort'
    BY <1>2, <1>3, <1>6 DEF CInv, ReceiptsOK, BytesHaveRows, LastShort
  <1>10. ClosedOK' BY <1>2, <1>3, <1>6 DEF ClosedOK, ClosesWith, EndOf
  <1>11. \A i \in Ids : /\ job'[i].state = "none" <=> job[i].state = "none"
                        /\ job'[i].state = "published" <=> job[i].state = "published"
    BY <1>2, <1>4, RequestCancelled
  <1>12. JobsOK' BY <1>3, <1>6, <1>11 DEF CInv, JobsOK
  <1>13. NothingYet' BY <1>3 DEF NothingYet
  <1>14. FanInEnqueued'
    <2> SUFFICES ASSUME NEW r \in Seqs, IsPublished(r, "asr")', IsPublished(r, "device_text")'
                 PROVE  job'[<<r, "claim_extraction">>].state # "none"
      BY DEF FanInEnqueued
    <2>1. <<r, "asr">> \in Ids /\ <<r, "device_text">> \in Ids /\ <<r, "claim_extraction">> \in Ids
      BY IdsAre DEF CAPTURE_STAGES
    <2> QED BY <1>11, <2>1 DEF CInv, FanInEnqueued, IsPublished
  <1>15. StopReachesAll'
    <2> SUFFICES ASSUME continue = "no", NEW i \in Ids, job'[i].state \in ACTIVE
                 PROVE  job'[i].cancel
      BY <1>3 DEF StopReachesAll
    <2>1. RequestCancel(job[i]).state \in ACTIVE => job[i].state \in ACTIVE
      BY <1>2, RequestCancelled
    <2>2. job[i].state \in ACTIVE BY <1>4, <2>1
    <2>3. InTable(i) /\ job[i].state # "none"
      BY <2>2 DEF InTable, ACTIVE, LEASED_STATES, JobState
    <2>4. i \in Listed BY <1>6, <2>3 DEF CInv, JobsOK, Listed
    <2> QED BY <1>2, <1>4, <2>4, RequestCancelled
  <1> QED BY <1>7, <1>8, <1>9, <1>10, <1>12, <1>13, <1>14, <1>15 DEF CInv

LEMMA CreateInv ==
  ASSUME CInv, CreateCapture
  PROVE  CInv'
  <1>1. session.state = "none" /\ UNCHANGED <<chunk, store, put, job, acked>> /\ session \in SessionT
    BY DEF CreateCapture, CInv, TypeOK
  <1>2. /\ session' \in SessionT /\ session'.state = "open"
        /\ session'.continue = session.continue /\ session'.lifetime = session.lifetime
    BY <1>1 DEF CreateCapture, SessionT
  <1>3. Reserved' = Reserved /\ Received' = Received BY <1>1 DEF Reserved, Received
  <1>4. TypeOK' BY <1>1, <1>2 DEF CInv, TypeOK
  <1>5. \A p \in Puts : put[p].at = "idle" BY <1>1 DEF CInv, NothingYet
  <1>6. PutsOK' BY <1>1, <1>5 DEF PutsOK, PutOK, HoldsLock
  <1>7. ReceiptsOK' /\ BytesHaveRows' /\ LastShort'
    BY <1>1, <1>2, <1>3 DEF CInv, ReceiptsOK, BytesHaveRows, LastShort
  <1>8. ClosedOK' /\ NothingYet' BY <1>2 DEF ClosedOK, NothingYet
  <1>9. \A i \in Ids : job[i].state = "none" BY <1>1 DEF CInv, NothingYet
  <1>10. JobsOK' BY <1>1, <1>2, <1>9 DEF CInv, JobsOK
  <1>11. FanInEnqueued' /\ StopReachesAll'
    BY <1>1, <1>2 DEF CInv, FanInEnqueued, IsPublished, StopReachesAll
  <1> QED BY <1>4, <1>6, <1>7, <1>8, <1>10, <1>11 DEF CInv

LEMMA TimeInv ==
  ASSUME CInv, TimePasses
  PROVE  CInv'
  <1>1. session.state = "open" /\ UNCHANGED <<chunk, store, put, job, acked>> /\ session \in SessionT
    BY DEF TimePasses, CInv, TypeOK, Open
  <1>2. /\ session' \in SessionT /\ session'.state = "open" /\ session'.expired
        /\ session'.continue = session.continue /\ session'.lifetime = session.lifetime
    BY <1>1 DEF TimePasses, SessionT
  <1>3. /\ Reserved' = Reserved /\ Received' = Received /\ Exists /\ Exists' /\ ~Open'
    BY <1>1, <1>2 DEF Reserved, Received, Exists, Open
  <1>4. TypeOK' BY <1>1, <1>2 DEF CInv, TypeOK
  <1>5. PutsOK' BY <1>1, <1>2, <1>3 DEF CInv, PutsOK, PutOK, HoldsLock
  <1>6. ReceiptsOK' /\ BytesHaveRows' /\ LastShort'
    BY <1>1, <1>2, <1>3 DEF CInv, ReceiptsOK, BytesHaveRows, LastShort
  <1>7. ClosedOK' /\ NothingYet' BY <1>2 DEF ClosedOK, NothingYet
  <1>8. JobsOK' BY <1>1, <1>2, <1>3 DEF CInv, JobsOK
  <1>9. FanInEnqueued' /\ StopReachesAll'
    BY <1>1, <1>2 DEF CInv, FanInEnqueued, IsPublished, StopReachesAll
  <1> QED BY <1>4, <1>5, <1>6, <1>7, <1>8, <1>9 DEF CInv

-----------------------------------------------------------------------------
(* Retention *)

LEMMA ErasedStore ==
  ASSUME TypeOK, NEW S \in SUBSET Seqs, Erase(S)
  PROVE  /\ store' \in [Seqs -> Maybe]
         /\ \A s \in S : store'[s] = NoContent
         /\ \A s \in Seqs \ S : store'[s] = store[s]
  BY DEF TypeOK, Erase, Maybe

LEMMA NoChunkIs == NoChunk \in ChunkT /\ NoChunk.content = NoContent /\ ~NoChunk.received
  BY DEF NoChunk, ChunkT, Maybe

LEMMA SweepReservationsInv ==
  ASSUME CInv, SweepReservations
  PROVE  CInv'
  <1>1. /\ Exists /\ Free /\ UNCHANGED <<session, put, job, acked>>
        /\ Swept \in SUBSET Seqs /\ chunk \in [Seqs -> ChunkT]
    BY DEF SweepReservations, CInv, TypeOK, Swept, Reserved
  <1>2. /\ store' \in [Seqs -> Maybe]
        /\ \A s \in Swept : store'[s] = NoContent
        /\ \A s \in Seqs \ Swept : store'[s] = store[s]
    BY <1>1, ErasedStore DEF SweepReservations, CInv
  <1>3. /\ chunk' \in [Seqs -> ChunkT]
        /\ \A s \in Seqs \ Swept : chunk'[s] = chunk[s]
        /\ \A s \in Swept : chunk'[s] = NoChunk \/ chunk'[s] = chunk[s]
    <2>1. CASE chunk' = chunk BY <1>1, <2>1
    <2>2. CASE chunk' = [s \in Seqs |-> IF s \in Swept THEN NoChunk ELSE chunk[s]]
      BY <1>1, <2>2, NoChunkIs
    <2> QED BY <2>1, <2>2 DEF SweepReservations
  <1>4. /\ Swept \cap Received = {} /\ Swept \subseteq Reserved /\ (Swept # {} => ~Open)
        /\ Received \subseteq Seqs /\ Reserved \subseteq Seqs /\ Received \subseteq Reserved
    BY DEF Swept, Open, Received, Reserved
  <1>5. Reserved' \subseteq Reserved /\ Reserved \ Swept \subseteq Reserved'
    BY <1>3, NoChunkIs DEF Reserved
  <1>6. \A r \in Reserved' : chunk'[r] = chunk[r] /\ r \in Reserved
    BY <1>3, <1>5, NoChunkIs DEF Reserved
  <1>7. Received' = Received
    <2>1. \A r \in Received : chunk'[r] = chunk[r] /\ r \in Reserved' BY <1>3, <1>4, <1>5
    <2>2. \A r \in Received : r \in Received' BY <2>1 DEF Received
    <2>3. \A r \in Received' : r \in Received BY <1>6 DEF Received
    <2> QED BY <2>2, <2>3
  <1>8. Exists' = Exists /\ Open' = Open BY <1>1 DEF Exists, Open
  <1>9. TypeOK' BY <1>1, <1>2, <1>3 DEF CInv, TypeOK
  <1>10. ~Open BY <1>4 DEF SweepReservations
  <1>11. PutsOK'
    <2> SUFFICES ASSUME NEW q \in Puts PROVE PutOK(q)' /\ HoldsLock(q)'
      BY DEF PutsOK
    <2>1. PutOK(q)' BY <1>1, <1>6, <1>8, <1>10 DEF CInv, PutsOK, PutOK
    <2>2. HoldsLock(q)' BY <1>1 DEF HoldsLock, Free
    <2> QED BY <2>1, <2>2
  <1>12. ReceiptsOK'
    <2>1. session.state # "gone" =>
            \A a \in acked : chunk'[a[1]] = [content |-> a[2], received |-> TRUE]
      <3> SUFFICES ASSUME session.state # "gone", NEW a \in acked
                   PROVE  chunk'[a[1]] = [content |-> a[2], received |-> TRUE]
        OBVIOUS
      <3>1. chunk[a[1]] = [content |-> a[2], received |-> TRUE] /\ a[1] \in Seqs
        BY DEF CInv, ReceiptsOK, TypeOK
      <3>2. chunk[a[1]].received BY <3>1
      <3>3. a[1] \in Received BY <3>1, <3>2 DEF CInv, ReceiptsOK, Received
      <3> QED BY <1>3, <1>4, <3>1, <3>3
    <2>2. session.lifetime => \A s \in Received : store'[s] = chunk'[s].content
      BY <1>2, <1>3, <1>4 DEF CInv, ReceiptsOK
    <2>3. \A s \in Seqs : chunk'[s].received => s \in Reserved'
      <3> SUFFICES ASSUME NEW s \in Seqs, chunk'[s].received PROVE s \in Reserved' OBVIOUS
      <3>1. chunk'[s] = chunk[s] BY <1>3, NoChunkIs
      <3>2. s \in Reserved BY <3>1 DEF CInv, ReceiptsOK
      <3> QED BY <3>1, <3>2 DEF Reserved
    <2> QED BY <1>1, <1>7, <2>1, <2>2, <2>3 DEF ReceiptsOK
  <1>13. BytesHaveRows' BY <1>2, <1>5 DEF CInv, BytesHaveRows
  <1>14. LastShort' BY <1>6 DEF CInv, LastShort
  <1>15. ClosedOK'
    <2>1. \A s \in Received : chunk'[s] = chunk[s] BY <1>3, <1>4
    <2> QED BY <1>1, <1>7, <2>1 DEF CInv, ClosedOK, ClosesWith, EndOf
  <1>16. JobsOK' /\ NothingYet' /\ FanInEnqueued' /\ StopReachesAll'
    BY <1>1, <1>7, <1>8 DEF CInv, JobsOK, NothingYet, FanInEnqueued, IsPublished, StopReachesAll
  <1> QED BY <1>9, <1>11, <1>12, <1>13, <1>14, <1>15, <1>16 DEF CInv

LEMMA SweepWorkspaceInv ==
  ASSUME CInv, SweepWorkspace
  PROVE  CInv'
  <1>1. /\ Exists /\ Free /\ UNCHANGED <<put, acked>> /\ Reserved \in SUBSET Seqs
        /\ session \in SessionT /\ job \in [Ids -> JobT] /\ chunk \in [Seqs -> ChunkT]
    BY DEF SweepWorkspace, CInv, TypeOK, Reserved
  <1>2. /\ store' \in [Seqs -> Maybe] /\ \A s \in Reserved : store'[s] = NoContent
        /\ \A s \in Seqs \ Reserved : store'[s] = store[s]
    BY <1>1, ErasedStore DEF SweepWorkspace, CInv
  <1>3. \A s \in Seqs : store'[s] = NoContent BY <1>2 DEF CInv, BytesHaveRows
  <1>4. CASE /\ session' = [NoSession EXCEPT !.state = "gone"]
             /\ chunk' = [s \in Seqs |-> NoChunk]
             /\ job' = [i \in Ids |-> IF InTable(i) THEN [NoJob EXCEPT !.state = "deleted"]
                                      ELSE job[i]]
    <2>1. session' \in SessionT /\ session'.state = "gone" /\ session'.continue = "null"
      BY <1>4 DEF NoSession, SessionT
    <2> DEFINE q == [NoJob EXCEPT !.state = "deleted"]
    <2>2. q \in JobT /\ q.state = "deleted" BY DEF NoJob, JobT, JobState
    <2> HIDE DEF q
    <2>3. \A i \in Ids : job'[i] = IF InTable(i) THEN q ELSE job[i] BY <1>4 DEF q
    <2>4. job' \in [Ids -> JobT] BY <1>1, <1>4, <2>2 DEF q
    <2>5. chunk' \in [Seqs -> ChunkT] /\ Reserved' = {} /\ Received' = {}
      BY <1>4, NoChunkIs DEF Reserved, Received
    <2>6. TypeOK' BY <1>1, <1>2, <2>1, <2>4, <2>5 DEF CInv, TypeOK
    <2>7. ~Exists' /\ ~Open' BY <2>1 DEF Exists, Open
    <2>8. PutsOK' BY <1>1, <2>7 DEF PutsOK, PutOK, HoldsLock, Free
    <2>9. \A s \in Seqs : ~chunk'[s].received BY <1>4, NoChunkIs
    <2>10. ReceiptsOK' BY <2>1, <2>5, <2>9 DEF ReceiptsOK
    <2>11. BytesHaveRows' /\ LastShort' BY <1>3, <2>5 DEF BytesHaveRows, LastShort
    <2>12. ClosedOK' /\ NothingYet' /\ StopReachesAll' /\ JobsOK'
      BY <2>1, <2>7 DEF ClosedOK, NothingYet, StopReachesAll, JobsOK
    <2>13. FanInEnqueued'
      <3> SUFFICES ASSUME NEW r \in Seqs, IsPublished(r, "asr")' PROVE FALSE
        BY DEF FanInEnqueued
      <3>1. <<r, "asr">> \in Ids BY IdsAre DEF CAPTURE_STAGES
      <3> QED BY <2>2, <2>3, <3>1 DEF IsPublished, InTable, JobState
    <2> QED BY <2>6, <2>8, <2>10, <2>11, <2>12, <2>13 DEF CInv
  <1>5. CASE session' = [session EXCEPT !.lifetime = FALSE] /\ UNCHANGED <<chunk, job>>
    <2>1. /\ session' \in SessionT /\ session'.state = session.state /\ ~session'.lifetime
          /\ session'.continue = session.continue /\ session'.duration = session.duration
          /\ session'.expired = session.expired
      BY <1>1, <1>5 DEF SessionT
    <2>2. Reserved' = Reserved /\ Received' = Received /\ Exists' = Exists /\ Open' = Open
      BY <1>5, <2>1 DEF Reserved, Received, Exists, Open
    <2>3. TypeOK' BY <1>1, <1>2, <1>5, <2>1 DEF CInv, TypeOK
    <2>4. PutsOK' BY <1>1, <1>5, <2>2 DEF CInv, PutsOK, PutOK, HoldsLock, Free
    <2>5. ReceiptsOK' BY <1>1, <1>5, <2>1, <2>2 DEF CInv, ReceiptsOK
    <2>6. BytesHaveRows' /\ LastShort' BY <1>3, <1>5, <2>2 DEF CInv, BytesHaveRows, LastShort
    <2>7. ClosedOK' BY <1>5, <2>1, <2>2 DEF CInv, ClosedOK, ClosesWith, EndOf
    <2>8. JobsOK' /\ NothingYet' BY <1>1, <1>5, <2>1, <2>2 DEF CInv, JobsOK, NothingYet
    <2>9. FanInEnqueued' /\ StopReachesAll'
      BY <1>5, <2>1 DEF CInv, FanInEnqueued, IsPublished, StopReachesAll
    <2> QED BY <2>3, <2>4, <2>5, <2>6, <2>7, <2>8, <2>9 DEF CInv
  <1> QED BY <1>4, <1>5 DEF SweepWorkspace

-----------------------------------------------------------------------------
(* The invariant *)

LEMMA InitInv == Init => CInv
  <1> SUFFICES ASSUME Init PROVE CInv OBVIOUS
  <1>1. session \in SessionT /\ session.state = "none" /\ session.continue = "null"
    BY DEF Init, NoSession, SessionT
  <1>2. NoJob \in JobT /\ NoJob.state = "none" BY DEF NoJob, JobT
  <1>3. /\ chunk \in [Seqs -> ChunkT] /\ store \in [Seqs -> Maybe] /\ put \in [Puts -> PutT]
        /\ job \in [Ids -> JobT] /\ acked = {}
    BY <1>2, NoChunkIs, NoPutIs DEF Init, Maybe
  <1>4. /\ \A s \in Seqs : chunk[s] = NoChunk /\ store[s] = NoContent
        /\ \A p \in Puts : put[p] = NoPut
        /\ \A i \in Ids : job[i] = NoJob
    BY DEF Init
  <1>5. TypeOK BY <1>1, <1>3 DEF TypeOK
  <1>6. PutsOK BY <1>4, NoPutIs DEF PutsOK, PutOK, HoldsLock
  <1>7. Reserved = {} /\ Received = {} BY <1>4, NoChunkIs DEF Reserved, Received
  <1>8. ReceiptsOK BY <1>3, <1>4, <1>7, NoChunkIs DEF ReceiptsOK
  <1>9. BytesHaveRows /\ LastShort BY <1>4, <1>7 DEF BytesHaveRows, LastShort
  <1>10. ClosedOK /\ JobsOK BY <1>1 DEF ClosedOK, JobsOK, Exists
  <1>11. NothingYet /\ StopReachesAll BY <1>1, <1>2, <1>4, NoPutIs DEF NothingYet, StopReachesAll
  <1>12. FanInEnqueued
    <2> SUFFICES ASSUME NEW r \in Seqs, IsPublished(r, "asr") PROVE FALSE BY DEF FanInEnqueued
    <2>1. <<r, "asr">> \in Ids BY IdsAre DEF CAPTURE_STAGES
    <2> QED BY <1>2, <1>4, <2>1 DEF IsPublished
  <1> QED BY <1>5, <1>6, <1>8, <1>9, <1>10, <1>11, <1>12 DEF CInv

LEMMA NextInv == CInv /\ [Next]_vars => CInv'
  <1> SUFFICES ASSUME CInv, [Next]_vars PROVE CInv' OBVIOUS
  <1>1. CASE UNCHANGED vars
    <2>1. RowsSame /\ job' = job BY <1>1 DEF vars, RowsSame
    <2>2. /\ TypeOK' /\ PutsOK' /\ ReceiptsOK' /\ BytesHaveRows' /\ LastShort' /\ ClosedOK'
          /\ Received' = Received /\ Exists' = Exists
      BY <2>1, RowsSameInv DEF CInv, TypeOK
    <2>3. JobsOK' /\ NothingYet' /\ FanInEnqueued' /\ StopReachesAll'
      BY <2>1, <2>2 DEF RowsSame, CInv, JobsOK, NothingYet, FanInEnqueued, IsPublished, StopReachesAll
    <2> QED BY <2>2, <2>3 DEF CInv
  <1>2. CASE Next
    <2>1. CASE CreateCapture BY <2>1, CreateInv
    <2>2. CASE TimePasses BY <2>2, TimeInv
    <2>3. ASSUME NEW p \in Puts, NEW s \in Seqs, NEW c \in Sent[s], Reserve(p, s, c) PROVE CInv'
      BY <2>3, ReserveInv
    <2>4. ASSUME NEW p \in Puts, Duplicate(p) \/ WriteBytes(p) \/ Receive(p) \/ Abandon(p) PROVE CInv'
      BY <2>4, DuplicateInv, WriteBytesInv, ReceiveInv
    <2>5. ASSUME NEW continue \in {"yes", "no"}, NEW d \in {LastEnd, MaxLen},
                 CloseCapture(continue, d) PROVE CInv'
      BY <2>5, CloseInv
    <2>6. ASSUME NEW i \in Ids,
                 \/ Run(i) \/ PublishChunk(i) \/ EndJob(i) \/ LeaseExpires(i)
                 \/ OwnerCancels(i) \/ OwnerDeletes(i) \/ PurgeTombstone(i)
          PROVE  CInv'
      BY <2>6, JobStepInv, PublishInv
    <2>7. CASE SweepReservations BY <2>7, SweepReservationsInv
    <2>8. CASE SweepWorkspace BY <2>8, SweepWorkspaceInv
    <2> QED BY <1>2, <2>1, <2>2, <2>3, <2>4, <2>5, <2>6, <2>7, <2>8 DEF Next
  <1> QED BY <1>1, <1>2

LEMMA Invariance == Spec => []CInv
  BY InitInv, NextInv, PTL DEF Spec

-----------------------------------------------------------------------------
(* The read models *)

(* An instant that no chunk before s reaches, but which precedes s, is in  *)
(* a missing interval.                                                     *)
LEMMA MissingBefore ==
  ASSUME TypeOK, NEW s \in Received, NEW t \in Nat, t < StartOf(s),
         \A r \in Before(s) : EndOf(r) <= t
  PROVE  \E g \in Missing : g[1] <= t /\ t < g[2]
  <1>1. s \in Seqs /\ StartOf(s) \in Nat BY EndIs
  <1>2. EndBefore(s) \in Nat /\ EndBefore(s) <= t BY <1>1, EndBeforeIs
  <1>3. s \in {r \in Received : StartOf(r) > EndBefore(r)} BY <1>1, <1>2
  <1>4. <<EndBefore(s), StartOf(s)>> \in Missing BY <1>3 DEF Missing
  <1> DEFINE g == <<EndBefore(s), StartOf(s)>>
  <1>5. g[1] <= t /\ t < g[2] BY <1>2
  <1> QED BY <1>4, <1>5

LEMMA DurationIs ==
  ASSUME CInv, Exists
  PROVE  Duration \in Nat /\ \A s \in Received : EndOf(s) <= Duration
  <1>1. CASE session.state = "closed"
    BY <1>1 DEF CInv, TypeOK, SessionT, ClosedOK, ClosesWith, Duration
  <1>2. CASE session.state # "closed" BY <1>2, LastEndIs DEF CInv, Duration
  <1> QED BY <1>1, <1>2

(* Every instant is within a received chunk or a missing interval. *)
LEMMA InstantsCovered ==
  ASSUME CInv, Exists, NEW t \in 0..(Duration - 1)
  PROVE  \/ \E s \in Received : StartOf(s) <= t /\ t < EndOf(s)
         \/ \E g \in Missing : g[1] <= t /\ t < g[2]
  <1>1. TypeOK /\ Duration \in Nat /\ t \in Nat /\ t < Duration BY DurationIs DEF CInv
  <1>2. LastEnd \in Nat /\ \A s \in Received : EndOf(s) <= LastEnd BY <1>1, LastEndIs
  <1>3. CASE LastEnd <= t
    <2> DEFINE g == <<LastEnd, Duration>>
    <2>1. g \in Missing BY <1>1, <1>2, <1>3 DEF Missing
    <2>2. g[1] <= t /\ t < g[2] BY <1>1, <1>3
    <2> QED BY <2>1, <2>2
  <1>4. CASE t < LastEnd
    <2> DEFINE T == {s \in Received : t < EndOf(s)}
    <2>1. T \in SUBSET Nat BY <1>1, EndIs
    <2>2. T # {}
      <3>1. Received # {} BY <1>1, <1>4 DEF LastEnd
      <3>2. PICK s \in Received : LastEnd = EndOf(s) BY <1>1, <3>1, LastEndIs
      <3> QED BY <1>4, <3>2
    <2>3. PICK s \in T : \A r \in T : s <= r
      <3> HIDE DEF T
      <3> QED BY <2>1, <2>2, Smallest
    <2>4. s \in Received /\ t < EndOf(s) /\ StartOf(s) \in Nat BY <1>1, EndIs
    <2>5. CASE StartOf(s) <= t BY <2>4, <2>5
    <2>6. CASE t < StartOf(s)
      <3>1. ASSUME NEW r \in Before(s) PROVE EndOf(r) <= t
        <4>1. r \in Received /\ r < s /\ r \in Nat /\ s \in Nat /\ EndOf(r) \in Nat
          BY <1>1, <2>4, EndIs DEF Before
        <4>2. r \notin T BY <2>3, <4>1
        <4> QED BY <1>1, <4>1, <4>2
      <3> QED BY <1>1, <2>4, <2>6, <3>1, MissingBefore
    <2> QED BY <1>1, <2>4, <2>5, <2>6
  <1> QED BY <1>1, <1>2, <1>3, <1>4

(* Analyzed, in a gap, or pending *)
LEMMA Accounted ==
  ASSUME CInv, Exists, NEW m \in Modalities, NEW t \in 0..(Duration - 1)
  PROVE  \/ PendingChunks(m) # {}
         \/ \E s \in AnalyzedChunks(m) : StartOf(s) <= t /\ t < EndOf(s)
         \/ \E g \in GapIntervals(m) : g[1] <= t /\ t < g[2]
  <1>1. CASE \E g \in Missing : g[1] <= t /\ t < g[2]
    BY <1>1 DEF GapIntervals
  <1>2. CASE \E s \in Received : StartOf(s) <= t /\ t < EndOf(s)
    <2>1. PICK s \in Received : StartOf(s) <= t /\ t < EndOf(s) BY <1>2
    <2>2. CASE s \in PendingChunks(m) BY <2>2
    <2>3. CASE s \in AnalyzedChunks(m) BY <2>1, <2>3
    <2>4. CASE s \in Received \ (PendingChunks(m) \cup AnalyzedChunks(m))
      <3> DEFINE g == <<StartOf(s), EndOf(s)>>
      <3>1. g \in GapIntervals(m) BY <2>4 DEF GapIntervals
      <3>2. g[1] <= t /\ t < g[2] BY <2>1
      <3> QED BY <3>1, <3>2
    <2> QED BY <2>2, <2>3, <2>4
  <1> QED BY <1>1, <1>2, InstantsCovered

(* A skipped sequence number is in a missing interval. *)
LEMMA SkippedMissing ==
  ASSUME CInv, NEW s \in SkippedSeqs
  PROVE  \E g \in Missing : g[1] <= StartOf(s) /\ StartOf(s) < g[2]
  <1>1. TypeOK /\ s \in Nat /\ s \notin Received BY CaptureAssumption DEF CInv, SkippedSeqs, Seqs
  <1> DEFINE T == {r \in Received : r > s}
  <1>2. T \in SUBSET Nat /\ T # {} BY <1>1, EndIs DEF SkippedSeqs
  <1>3. PICK r \in T : \A q \in T : r <= q
    <2> HIDE DEF T
    <2> QED BY <1>2, Smallest
  <1>4. r \in Received /\ r > s /\ r \in Nat BY <1>2
  <1>5. ChunkLen \in Nat \ {0} /\ StartOf(s) \in Nat BY <1>1, CaptureAssumption DEF StartOf
  <1>6. StartOf(r) \in Nat /\ StartOf(s) < StartOf(r) BY <1>1, <1>4, <1>5, Starts, EndIs
  <1>7. ASSUME NEW q \in Before(r) PROVE EndOf(q) <= StartOf(s)
    <2>1. q \in Received /\ q < r /\ q \in Nat BY <1>1, EndIs DEF Before
    <2>2. q \notin T BY <1>3, <1>4, <2>1
    <2>3. q < s BY <1>1, <2>1, <2>2
    <2>4. StartOf(q) + ChunkLen <= StartOf(s) BY <1>1, <2>1, <2>3, Starts
    <2> QED BY <1>1, <1>5, <2>1, <2>4, EndIs
  <1> QED BY <1>1, <1>4, <1>5, <1>6, <1>7, MissingBefore

-----------------------------------------------------------------------------
(* Theorems *)

(* For any number of concurrent uploads, crashes and sweeps: a chunk whose *)
(* upload was acknowledged is received with those bytes in the store until *)
(* its workspace goes, no bytes are without a row, and the closed duration *)
(* covers what was received.                                               *)
THEOREM ReceiptsAreKept == Spec => []ReceiptsHold
  <1>1. CInv => ReceiptsHold
    <2> SUFFICES ASSUME CInv PROVE ReceiptsHold OBVIOUS
    <2>1. AckedIsStored
      <3> SUFFICES ASSUME session.lifetime, session.state # "gone", NEW a \in acked
                   PROVE  /\ chunk[a[1]] = [content |-> a[2], received |-> TRUE]
                          /\ store[a[1]] = a[2]
        BY DEF AckedIsStored
      <3>1. chunk[a[1]] = [content |-> a[2], received |-> TRUE] /\ a[1] \in Seqs
        BY DEF CInv, ReceiptsOK, TypeOK
      <3>2. chunk[a[1]].received /\ chunk[a[1]].content = a[2] BY <3>1
      <3>3. a[1] \in Received BY <3>1, <3>2 DEF CInv, ReceiptsOK, Received
      <3> QED BY <3>1, <3>2, <3>3 DEF CInv, ReceiptsOK
    <2>2. ClosedCoversReceived
      <3>1. ASSUME NEW s \in Received, Short(chunk[s].content), NEW r \in Received PROVE r <= s
        <4>1. r \in Reserved /\ s \in Reserved /\ r \in Nat /\ s \in Nat
          BY EndIs DEF CInv, Received
        <4> QED BY <3>1, <4>1 DEF CInv, LastShort
      <3> QED BY <3>1 DEF CInv, ClosedOK, ClosedCoversReceived
    <2> QED BY <2>1, <2>2 DEF CInv, ReceiptsHold
  <1> QED BY <1>1, Invariance, PTL

(* Whichever of the two stages of a chunk publishes last, its fan-in job   *)
(* was enqueued; and after Stop without continued research no stage of the *)
(* capture is left that could still publish.                               *)
THEOREM StagesAlwaysMeet == Spec => []StagesMeet
  <1>1. CInv => StagesMeet BY DEF CInv, StagesMeet
  <1> QED BY <1>1, Invariance, PTL

(* Whatever chunks are missing, cancelled or deleted, the read models      *)
(* account for every instant of the capture, and one that calls itself     *)
(* complete has analyzed all of it.                                        *)
THEOREM NothingIsLostSilently == Spec => []NothingSilentlyLost
  <1>1. CInv => NothingSilentlyLost
    <2> SUFFICES ASSUME CInv PROVE NothingSilentlyLost OBVIOUS
    <2>1. ASSUME Exists, NEW m \in Modalities, NEW t \in 0..(Duration - 1)
          PROVE  \/ PendingChunks(m) # {}
                 \/ \E s \in AnalyzedChunks(m) : StartOf(s) <= t /\ t < EndOf(s)
                 \/ \E g \in GapIntervals(m) : g[1] <= t /\ t < g[2]
      BY <2>1, Accounted
    <2>2. ASSUME NEW s \in Received,
                 \E j \in Related(s) : j.state \in {"failed", "cancelled", "deleted"}
          PROVE  WorkStatus(s) \in {"failed", "cancelled"}
      BY <2>2 DEF WorkStatus
    <2>3. ASSUME Exists, NEW usable \in Usable, AnalysisStatus(usable) = "complete",
                 NEW m \in Modalities, NEW t \in 0..(Duration - 1)
          PROVE  \E s \in AnalyzedChunks(m) : StartOf(s) <= t /\ t < EndOf(s)
      <3>1. PendingChunks(m) = {} /\ GapIntervals(m) = {} BY <2>3 DEF AnalysisStatus
      <3> QED BY <2>1, <2>3, <3>1
    <2>4. ASSUME NEW s \in SkippedSeqs
          PROVE  \E g \in Missing : g[1] <= StartOf(s) /\ StartOf(s) < g[2]
      BY SkippedMissing
    <2> QED BY <2>1, <2>2, <2>3, <2>4 DEF NothingSilentlyLost
  <1> QED BY <1>1, Invariance, PTL

-----------------------------------------------------------------------------
(* Sums and firsts *)

(* A set that has a number and with every number the next one has all. *)
LEMMA Climb ==
  ASSUME NEW T, 0 \in T, NEW n \in Nat, \A k \in Nat : k < n /\ k \in T => k + 1 \in T
  PROVE  \A k \in 0..n : k \in T
  <1> SUFFICES ASSUME NEW k \in 0..n, k \notin T PROVE FALSE OBVIOUS
  <1> DEFINE Gaps == {m \in 0..n : m \notin T}
  <1>1. Gaps \in SUBSET Nat /\ Gaps # {} OBVIOUS
  <1>2. PICK m \in Gaps : \A l \in Gaps : m <= l BY <1>1, Smallest
  <1>3. m \in Nat /\ m # 0 /\ m <= n /\ m \notin T BY <1>2
  <1>4. m - 1 \in Nat /\ m - 1 < n /\ m - 1 \in T BY <1>2, <1>3
  <1> QED BY <1>3, <1>4

(* The least and the greatest member of a set of numbers *)
LEMMA MinIs ==
  ASSUME NEW T \in SUBSET Nat, T # {}
  PROVE  Min(T) \in T /\ \A y \in T : Min(T) <= y
  <1>1. \E x \in T : \A y \in T : x <= y BY Smallest
  <1> QED BY <1>1 DEF Min

LEMMA MaxIs ==
  ASSUME NEW T \in SUBSET Nat, T # {}, NEW n \in Nat, \A x \in T : x <= n
  PROVE  Max(T) \in T /\ \A y \in T : y <= Max(T)
  <1>1. \E x \in T : \A y \in T : y <= x BY Greatest
  <1>2. PICK x \in T : \A y \in T : x >= y BY <1>1
  <1>3. Max(T) \in T /\ \A y \in T : Max(T) >= y BY <1>2 DEF Max
  <1> QED BY <1>3

LEMMA ObsFinite ==
  /\ IsFiniteSet(Obs) /\ Cardinality(Obs) = N /\ N \in Nat
  /\ \A S \in SUBSET Obs : IsFiniteSet(S) /\ Cardinality(S) \in Nat /\ Cardinality(S) <= N
  <1>1. N \in Nat BY WindowsAssumption
  <1>2. IsFiniteSet(Obs) /\ Cardinality(Obs) = N BY <1>1, FS_Interval DEF Obs
  <1>3. \A S \in SUBSET Obs : IsFiniteSet(S) /\ Cardinality(S) \in Nat /\ Cardinality(S) <= N
    BY <1>2, FS_Subset, FS_CardinalityType
  <1> QED BY <1>1, <1>2, <1>3

(* A sum of lengths counts the letters it sums over. *)
Letters(S) == UNION {{i} \X (1..Len(obs[i].text)) : i \in S}

LEMMA LettersOfOne ==
  ASSUME obs \in Inputs, NEW S \in SUBSET Obs, NEW x \in S, IsFiniteSet(Letters(S \ {x}))
  PROVE  /\ IsFiniteSet(Letters(S))
         /\ Cardinality(Letters(S)) = Len(obs[x].text) + Cardinality(Letters(S \ {x}))
  <1> DEFINE own == {x} \X (1..Len(obs[x].text))
             n == Len(obs[x].text)
             g == [k \in 1..n |-> <<x, k>>]
  <1>1. n \in Nat /\ IsFiniteSet(1..n) /\ Cardinality(1..n) = n
    <2>1. n \in 1..MaxChars /\ MaxChars \in Nat BY WindowsAssumption DEF Obs
    <2>2. n \in Nat BY <2>1
    <2> HIDE DEF n
    <2> QED BY <2>2, FS_Interval
  <1>2. IsFiniteSet(own) /\ Cardinality(own) = n
    <2>1. IsFiniteSet({x}) /\ Cardinality({x}) = 1 BY FS_Singleton
    <2>2. IsFiniteSet(own) /\ Cardinality(own) = 1 * n BY <1>1, <2>1, FS_Product
    <2> HIDE DEF own, n
    <2> QED BY <1>1, <2>2
  <1>3. Letters(S) = Letters(S \ {x}) \cup own BY DEF Letters
  <1>4. Letters(S \ {x}) \cap own = {} BY DEF Letters
  <1>5. Cardinality({}) = 0 /\ Cardinality(Letters(S \ {x})) \in Nat BY FS_EmptySet, FS_CardinalityType
  <1> HIDE DEF own, n
  <1>6. IsFiniteSet(Letters(S)) /\ Cardinality(Letters(S)) = Cardinality(Letters(S \ {x})) + n - 0
    BY <1>2, <1>3, <1>4, <1>5, FS_Union
  <1> QED BY <1>1, <1>5, <1>6 DEF n

LEMMA LettersFinite ==
  ASSUME obs \in Inputs, NEW S \in SUBSET Obs
  PROVE  IsFiniteSet(Letters(S))
  <1> DEFINE T == {k \in Nat : \A s \in SUBSET Obs : Cardinality(s) = k => IsFiniteSet(Letters(s))}
  <1>1. 0 \in T
    <2>1. Letters({}) = {} BY DEF Letters
    <2>2. \A s \in SUBSET Obs : Cardinality(s) = 0 => s = {} BY ObsFinite, FS_EmptySet
    <2> QED BY <2>1, <2>2, FS_EmptySet
  <1>2. ASSUME NEW k \in Nat, k < N, k \in T PROVE k + 1 \in T
    <2>1. SUFFICES ASSUME NEW s \in SUBSET Obs, Cardinality(s) = k + 1 PROVE IsFiniteSet(Letters(s))
      OBVIOUS
    <2>2. IsFiniteSet(s) /\ s # {} BY <2>1, ObsFinite, FS_EmptySet
    <2>3. PICK x \in s : TRUE BY <2>2
    <2>4. s \ {x} \in SUBSET Obs /\ Cardinality(s \ {x}) = k
      <3> HIDE DEF T
      <3>1. Cardinality(s \ {x}) = Cardinality(s) - 1 BY <2>2, <2>3, FS_RemoveElement
      <3>2. s \ {x} \in SUBSET Obs OBVIOUS
      <3> QED BY <1>2, <2>1, <3>1, <3>2
    <2>5. IsFiniteSet(Letters(s \ {x})) BY <1>2, <2>4
    <2> QED BY <2>5, LettersOfOne
  <1> HIDE DEF T
  <1>3. Cardinality(S) \in 0..N /\ \A k \in 0..N : k \in T BY <1>1, <1>2, Climb, ObsFinite
  <1> QED BY <1>3 DEF T

LEMMA CharsIs ==
  ASSUME obs \in Inputs, NEW S \in SUBSET Obs
  PROVE  Chars(S) = Cardinality(Letters(S)) /\ Chars(S) \in Nat
  <1> DEFINE Rest(s) == s \ {CHOOSE x \in s : TRUE}
             Tallied(f) == f = [s \in SUBSET S |-> IF s = {} THEN 0
                                 ELSE Len(obs[CHOOSE x \in s : TRUE].text) + f[Rest(s)]]
             iter == CHOOSE f : Tallied(f)
             c == [s \in SUBSET S |-> Cardinality(Letters(s))]
  <1>1. Chars(S) = iter[S] BY DEF Chars, MapThenSumSet, MapThenFoldSet
  <1>2. ASSUME NEW s \in SUBSET S, s # {}
        PROVE  /\ Rest(s) \in SUBSET S
               /\ Cardinality(Letters(s)) = Len(obs[CHOOSE x \in s : TRUE].text) + Cardinality(Letters(Rest(s)))
    <2>1. (CHOOSE x \in s : TRUE) \in s BY <1>2
    <2>2. Rest(s) \in SUBSET Obs BY <2>1
    <2>3. IsFiniteSet(Letters(Rest(s))) BY <2>2, LettersFinite
    <2> QED BY <2>1, <2>3, LettersOfOne
  <1>3. Letters({}) = {} /\ Cardinality({}) = 0 BY FS_EmptySet DEF Letters
  <1>4. Tallied(c)
    <2>1. \A s \in SUBSET S : c[s] = IF s = {} THEN 0
                                     ELSE Len(obs[CHOOSE x \in s : TRUE].text) + c[Rest(s)]
      <3> HIDE DEF Rest
      <3> QED BY <1>2, <1>3
    <2> QED BY <2>1
  <1>5. Tallied(iter) BY <1>4
  <1> HIDE DEF iter, c
  <1> DEFINE T == {k \in Nat : \A s \in SUBSET S : Cardinality(s) = k => iter[s] = Cardinality(Letters(s))}
  <1>6. 0 \in T
    <2>1. \A s \in SUBSET S : Cardinality(s) = 0 => s = {} BY ObsFinite, FS_EmptySet
    <2>2. iter[{}] = 0 BY <1>5
    <2> QED BY <1>3, <2>1, <2>2
  <1>7. ASSUME NEW k \in Nat, k < N, k \in T PROVE k + 1 \in T
    <2>1. SUFFICES ASSUME NEW s \in SUBSET S, Cardinality(s) = k + 1
                   PROVE iter[s] = Cardinality(Letters(s))
      OBVIOUS
    <2>2. IsFiniteSet(s) /\ s # {} BY <2>1, ObsFinite, FS_EmptySet
    <2>3. iter[s] = Len(obs[CHOOSE x \in s : TRUE].text) + iter[Rest(s)] BY <1>5, <2>2
    <2>4. Cardinality(Rest(s)) = k
      <3> HIDE DEF T
      <3> DEFINE first == CHOOSE x \in s : TRUE
      <3>1. first \in s BY <2>2
      <3>2. Rest(s) = s \ {first} OBVIOUS
      <3> HIDE DEF first, Rest
      <3>3. Cardinality(s \ {first}) = Cardinality(s) - 1 BY <2>2, <3>1, FS_RemoveElement
      <3> QED BY <1>7, <2>1, <3>2, <3>3
    <2>5. iter[Rest(s)] = Cardinality(Letters(Rest(s)))
      <3> HIDE DEF Rest, Tallied
      <3> QED BY <1>2, <1>7, <2>2, <2>4
    <2> HIDE DEF Rest, Tallied, T
    <2> QED BY <1>2, <2>2, <2>3, <2>5
  <1> HIDE DEF T
  <1>8. Cardinality(S) \in 0..N /\ \A k \in 0..N : k \in T BY <1>6, <1>7, Climb, ObsFinite
  <1>9. iter[S] = Cardinality(Letters(S)) BY <1>8 DEF T
  <1>10. Cardinality(Letters(S)) \in Nat BY LettersFinite, FS_CardinalityType
  <1> QED BY <1>1, <1>9, <1>10

LEMMA CharsAdd ==
  ASSUME obs \in Inputs, NEW S \in SUBSET Obs, NEW T \in SUBSET Obs, S \cap T = {}
  PROVE  Chars(S \cup T) = Chars(S) + Chars(T)
  <1>1. Letters(S \cup T) = Letters(S) \cup Letters(T) BY DEF Letters
  <1>2. Letters(S) \cap Letters(T) = {} BY DEF Letters
  <1>3. IsFiniteSet(Letters(S)) /\ IsFiniteSet(Letters(T)) BY LettersFinite
  <1>4. /\ Chars(S) = Cardinality(Letters(S)) /\ Chars(T) = Cardinality(Letters(T))
        /\ Chars(S) \in Nat /\ Chars(T) \in Nat
        /\ Chars(S \cup T) = Cardinality(Letters(S \cup T))
    BY CharsIs
  <1>5. Cardinality(Letters(S) \cup Letters(T)) = Cardinality(Letters(S)) + Cardinality(Letters(T)) - 0
    BY <1>2, <1>3, FS_Union, FS_EmptySet
  <1>6. Cardinality(Letters(S \cup T)) = Cardinality(Letters(S)) + Cardinality(Letters(T)) - 0
    BY <1>1, <1>5
  <1> HIDE DEF Letters
  <1> QED BY <1>4, <1>6

LEMMA CharsMonotone ==
  ASSUME obs \in Inputs, NEW T \in SUBSET Obs, NEW S \in SUBSET T
  PROVE  Chars(S) <= Chars(T) /\ Chars(S) \in Nat /\ Chars(T) \in Nat
  <1>1. Chars(S) \in Nat /\ Chars(T) \in Nat /\ Chars(T \ S) \in Nat BY CharsIs
  <1>2. S \cup (T \ S) = T /\ S \cap (T \ S) = {} OBVIOUS
  <1>3. Chars(T) = Chars(S) + Chars(T \ S) BY <1>2, CharsAdd
  <1> QED BY <1>1, <1>3

LEMMA CharsFew ==
  ASSUME obs \in Inputs
  PROVE  Chars({}) = 0 /\ \A i \in Obs : Chars({i}) \in 1..MaxChars
  <1>1. Letters({}) = {} BY DEF Letters
  <1>2. Chars({}) = 0 BY <1>1, CharsIs, FS_EmptySet
  <1>3. ASSUME NEW i \in Obs PROVE Chars({i}) \in 1..MaxChars
    <2>1. IsFiniteSet(Letters({i} \ {i})) /\ Cardinality(Letters({i} \ {i})) = 0
      BY <1>1, FS_EmptySet
    <2>2. Chars({i}) = Len(obs[i].text) + 0 BY <2>1, CharsIs, LettersOfOne
    <2>3. Len(obs[i].text) \in 1..MaxChars BY WindowsAssumption DEF Obs
    <2> QED BY <2>2, <2>3, WindowsAssumption
  <1> QED BY <1>2, <1>3

(* The first observations of a set are at most so many, and the first of   *)
(* all is one of them.                                                     *)
LEMMA FirstOfIs ==
  ASSUME NEW S \in SUBSET Obs, NEW n \in Nat
  PROVE  /\ FirstOf(S, n) \subseteq S /\ Cardinality(FirstOf(S, n)) <= n
         /\ (S # {} /\ n >= 1) => Min(S) \in FirstOf(S, n)
  <1>1. FirstOf(S, n) \subseteq S BY DEF FirstOf
  <1>2. S \subseteq Nat /\ (\A i \in S : i <= N) /\ N \in Nat BY ObsFinite DEF Obs
  <1>3. Cardinality(FirstOf(S, n)) <= n
    <2>1. CASE FirstOf(S, n) = {} BY <2>1, FS_EmptySet
    <2>2. CASE FirstOf(S, n) # {}
      <3>1. PICK m \in FirstOf(S, n) : \A y \in FirstOf(S, n) : y <= m
        BY <1>1, <1>2, <2>2, Greatest
      <3>2. m \in S /\ Cardinality({j \in S : j <= m}) <= n BY <3>1 DEF FirstOf
      <3>3. FirstOf(S, n) \subseteq {j \in S : j <= m} BY <1>1, <3>1
      <3>4. {j \in S : j <= m} \in SUBSET Obs OBVIOUS
      <3>5. Cardinality(FirstOf(S, n)) <= Cardinality({j \in S : j <= m})
        BY <3>3, <3>4, ObsFinite, FS_Subset
      <3>6. Cardinality(FirstOf(S, n)) \in Nat /\ Cardinality({j \in S : j <= m}) \in Nat
        BY <1>1, <3>4, ObsFinite
      <3> QED BY <3>2, <3>5, <3>6
    <2> QED BY <2>1, <2>2
  <1>4. ASSUME S # {}, n >= 1 PROVE Min(S) \in FirstOf(S, n)
    <2>1. Min(S) \in S /\ \A y \in S : Min(S) <= y BY <1>2, <1>4, MinIs
    <2>2. \A j \in S : j <= Min(S) <=> j = Min(S)
      <3>1. \A m \in Nat, j \in Nat : m <= j /\ j <= m => j = m OBVIOUS
      <3>2. Min(S) \in Nat BY <1>2, <2>1
      <3> QED BY <1>2, <2>1, <3>1, <3>2
    <2>3. Cardinality({Min(S)}) = 1 BY FS_Singleton
    <2>4. {j \in S : j <= Min(S)} = {Min(S)} BY <2>1, <2>2
    <2> QED BY <1>4, <2>1, <2>3, <2>4 DEF FirstOf
  <1> QED BY <1>1, <1>3, <1>4

-----------------------------------------------------------------------------
(* Cutting windows *)

WindowT == [overlap : SUBSET Obs, selected : SUBSET Obs]
LedgerT == [closed : BOOLEAN, existing : SUBSET Obs, windows : Seq(WindowT), skipped : SUBSET Obs,
            input_closed : SUBSET Obs, budget_exhausted : SUBSET Obs, requests_used : Nat]

(* What ObservationWindow demands *)
ValidWindow(x) ==
  /\ Chars(x.overlap \cup x.selected) <= MaxChars
  /\ HasTarget(x.overlap \cup x.selected)
  /\ x.overlap \cap x.selected = {} /\ x.selected # {}
  /\ Cardinality(x.selected) <= MaxWindow

(* A ledger between two turns of the loop *)
LedgerOK(l) ==
  /\ l \in LedgerT /\ l.skipped \subseteq l.existing
  /\ \A w \in DOMAIN l.windows :
       /\ ValidWindow(l.windows[w])
       /\ l.windows[w].overlap \cup l.windows[w].selected \subseteq l.existing
  /\ \A v, w \in DOMAIN l.windows :
       v # w => l.windows[v].selected \cap l.windows[w].selected = {}

LEMMA LedgerType ==
  ASSUME NEW l, LedgerOK(l)
  PROVE  /\ l \in LedgerT /\ l.closed \in BOOLEAN /\ l.existing \in SUBSET Obs
         /\ l.windows \in Seq(WindowT) /\ l.skipped \in SUBSET Obs /\ l.requests_used \in Nat
         /\ Len(l.windows) \in Nat /\ DOMAIN l.windows = 1..Len(l.windows)
         /\ \A w \in DOMAIN l.windows :
              /\ l.windows[w].overlap \in SUBSET l.existing
              /\ l.windows[w].selected \in SUBSET l.existing
         /\ Pending(l) \in SUBSET l.existing /\ Pending(l) \in SUBSET Obs
         /\ Selected(l) \in SUBSET l.existing
         /\ Pending(l) \cap Selected(l) = {} /\ Pending(l) \cap l.skipped = {}
  <1>1. l \in LedgerT BY DEF LedgerOK
  <1>2. /\ l.closed \in BOOLEAN /\ l.existing \in SUBSET Obs /\ l.windows \in Seq(WindowT)
        /\ l.skipped \in SUBSET Obs /\ l.requests_used \in Nat
    BY <1>1 DEF LedgerT
  <1>3. Len(l.windows) \in Nat /\ DOMAIN l.windows = 1..Len(l.windows) BY <1>2
  <1>4. \A w \in DOMAIN l.windows : /\ l.windows[w].overlap \in SUBSET l.existing
                                    /\ l.windows[w].selected \in SUBSET l.existing
    BY DEF LedgerOK
  <1>5. Selected(l) \in SUBSET l.existing BY <1>4 DEF Selected
  <1>6. Pending(l) \in SUBSET l.existing /\ Pending(l) \cap Selected(l) = {}
        /\ Pending(l) \cap l.skipped = {}
    BY DEF Pending
  <1> QED BY <1>1, <1>2, <1>3, <1>4, <1>5, <1>6

LEMMA Extremes ==
  ASSUME NEW a \in Nat, NEW b \in Nat
  PROVE  /\ Min({a, b}) = IF a <= b THEN a ELSE b
         /\ Max({a, b}) = IF a <= b THEN b ELSE a
  <1>1. \A x \in {a, b} : (\A y \in {a, b} : x <= y) <=> x = IF a <= b THEN a ELSE b OBVIOUS
  <1>2. \A x \in {a, b} : (\A y \in {a, b} : x >= y) <=> x = IF a <= b THEN b ELSE a OBVIOUS
  <1>3. (IF a <= b THEN a ELSE b) \in {a, b} /\ (IF a <= b THEN b ELSE a) \in {a, b} OBVIOUS
  <1>4. Min({a, b}) = IF a <= b THEN a ELSE b BY <1>1, <1>3 DEF Min
  <1>5. Max({a, b}) = IF a <= b THEN b ELSE a BY <1>2, <1>3 DEF Max
  <1> QED BY <1>4, <1>5

(* The batch at a pressure *)
Factor(pressure) ==
  LET room == max_requests - reconciliation_requests
  IN IF 4 * pressure >= 3 * room THEN 4 ELSE IF 2 * pressure >= room THEN 2 ELSE 1

LEMMA FactorGrows ==
  ASSUME NEW p \in Nat, NEW q \in Nat, p <= q
  PROVE  Factor(p) \in {1, 2, 4} /\ Factor(q) \in {1, 2, 4} /\ Factor(p) <= Factor(q)
  <1> DEFINE room == max_requests - reconciliation_requests
  <1>1. room \in Int
    BY WindowsAssumption
  <1> HIDE DEF room
  <1>2. Factor(p) = IF 4 * p >= 3 * room THEN 4 ELSE IF 2 * p >= room THEN 2 ELSE 1
    BY DEF Factor, room
  <1>3. Factor(q) = IF 4 * q >= 3 * room THEN 4 ELSE IF 2 * q >= room THEN 2 ELSE 1
    BY DEF Factor, room
  <1> QED BY <1>1, <1>2, <1>3

LEMMA ThresholdIs ==
  ASSUME NEW l, LedgerOK(l)
  PROVE  Threshold(l) \in 1..MaxWindow /\ MaxWindow \in Nat
  <1> DEFINE p == Max({l.requests_used, Len(l.windows)})
  <1>1. p \in Nat
    <2>1. l.requests_used \in Nat /\ Len(l.windows) \in Nat BY LedgerType
    <2>2. p = IF l.requests_used <= Len(l.windows) THEN Len(l.windows) ELSE l.requests_used
      BY <2>1, Extremes
    <2> QED BY <2>1, <2>2
  <1>2. Factor(p) \in {1, 2, 4} BY <1>1, FactorGrows
  <1>3. batch_observations \in Nat \ {0} /\ MaxWindow \in Nat \ {0} BY WindowsAssumption
  <1>4. Threshold(l) = Min({MaxWindow, batch_observations * Factor(p)}) BY DEF Threshold, Factor
  <1> HIDE DEF p
  <1>5. batch_observations * Factor(p) \in Nat \ {0} BY <1>2, <1>3
  <1>6. Threshold(l) = IF MaxWindow <= batch_observations * Factor(p) THEN MaxWindow
                       ELSE batch_observations * Factor(p)
    BY <1>3, <1>4, <1>5, Extremes
  <1> QED BY <1>3, <1>5, <1>6

LEMMA ThresholdGrows ==
  ASSUME NEW l, LedgerOK(l), NEW m, LedgerOK(m),
         l.requests_used <= m.requests_used, l.windows = m.windows
  PROVE  Threshold(l) <= Threshold(m)
  <1> DEFINE p(k) == Max({k.requests_used, Len(k.windows)})
  <1>1. p(l) \in Nat /\ p(m) \in Nat /\ p(l) <= p(m)
    <2>1. /\ l.requests_used \in Nat /\ Len(l.windows) \in Nat
          /\ m.requests_used \in Nat /\ Len(m.windows) \in Nat
      BY LedgerType
    <2>2. p(l) = IF l.requests_used <= Len(l.windows) THEN Len(l.windows) ELSE l.requests_used
      BY <2>1, Extremes
    <2>3. p(m) = IF m.requests_used <= Len(m.windows) THEN Len(m.windows) ELSE m.requests_used
      BY <2>1, Extremes
    <2> QED BY <2>1, <2>2, <2>3
  <1>2. /\ Threshold(l) = Min({MaxWindow, batch_observations * Factor(p(l))})
        /\ Threshold(m) = Min({MaxWindow, batch_observations * Factor(p(m))})
    BY DEF Threshold, Factor
  <1> HIDE DEF p
  <1>3. Factor(p(l)) \in {1, 2, 4} /\ Factor(p(m)) \in {1, 2, 4} /\ Factor(p(l)) <= Factor(p(m))
    BY <1>1, FactorGrows
  <1>4. batch_observations \in Nat \ {0} /\ MaxWindow \in Nat \ {0} BY WindowsAssumption
  <1>5. \A f \in {1, 2, 4} : batch_observations * f \in Nat BY <1>4
  <1>6. \A f, g \in {1, 2, 4} : f <= g => batch_observations * f <= batch_observations * g BY <1>4
  <1>7. \A f \in {1, 2, 4} : Min({MaxWindow, batch_observations * f}) =
          IF MaxWindow <= batch_observations * f THEN MaxWindow ELSE batch_observations * f
    BY <1>4, <1>5, Extremes
  <1> QED BY <1>2, <1>3, <1>4, <1>5, <1>6, <1>7

LEMMA OverlapIs ==
  ASSUME obs \in Inputs, NEW l, LedgerOK(l), Pending(l) # {}
  PROVE  /\ Overlap(l) \in SUBSET l.existing /\ Overlap(l) \in SUBSET Obs
         /\ Overlap(l) \cap Pending(l) = {}
         /\ Min(Pending(l)) \in Pending(l) /\ \A j \in Pending(l) : Min(Pending(l)) <= j
         /\ Chars(Overlap(l)) + Chars({Min(Pending(l))}) <= MaxChars
  <1> DEFINE first == Min(Pending(l))
             before == LastOf({i \in l.existing : i < first /\ i \in Selected(l)}, overlap_observations)
  <1>1. before \subseteq {i \in l.existing : i \in Selected(l)} BY DEF LastOf
  <1>2. Overlap(l) = {i \in before : Chars({j \in before : j >= i}) + Chars({first}) <= MaxChars}
    BY DEF Overlap
  <1>3. /\ l.existing \in SUBSET Obs /\ Pending(l) \in SUBSET Obs
        /\ Selected(l) \cap Pending(l) = {}
    BY LedgerType
  <1>4. Obs \subseteq Nat BY DEF Obs
  <1>5. first \in Pending(l) /\ \A j \in Pending(l) : first <= j BY <1>3, <1>4, MinIs
  <1>6. before \in SUBSET Obs BY <1>1, <1>3
  <1> HIDE DEF before, first
  <1>7. Chars({first}) \in 1..MaxChars /\ Chars({}) = 0 /\ MaxChars \in Nat
    BY <1>3, <1>5, CharsFew, WindowsAssumption
  <1>8. Chars(Overlap(l)) + Chars({first}) <= MaxChars
    <2>1. CASE Overlap(l) = {} BY <1>7, <2>1
    <2>2. CASE Overlap(l) # {}
      <3>1. PICK m \in Overlap(l) : \A y \in Overlap(l) : m <= y
        BY <1>2, <1>4, <1>6, <2>2, Smallest
      <3>2. Overlap(l) \subseteq {j \in before : j >= m}
        <4>1. \A y \in Overlap(l) : y \in before /\ y \in Nat /\ m \in Nat BY <1>2, <1>4, <1>6, <3>1
        <4> QED BY <3>1, <4>1
      <3>3. {j \in before : j >= m} \in SUBSET Obs BY <1>6
      <3>4. /\ Chars(Overlap(l)) <= Chars({j \in before : j >= m})
            /\ Chars(Overlap(l)) \in Nat /\ Chars({j \in before : j >= m}) \in Nat
        BY <3>2, <3>3, CharsMonotone
      <3>5. Chars({j \in before : j >= m}) + Chars({first}) <= MaxChars BY <1>2, <3>1
      <3> QED BY <1>7, <3>4, <3>5
    <2> QED BY <2>1, <2>2
  <1> QED BY <1>1, <1>2, <1>3, <1>5, <1>8 DEF first

LEMMA ChosenIs ==
  ASSUME obs \in Inputs, NEW l, LedgerOK(l), Pending(l) # {}
  PROVE  /\ Chosen(l) \in SUBSET Pending(l) /\ Chosen(l) # {}
         /\ Cardinality(Chosen(l)) <= MaxWindow
         /\ Chars(Overlap(l)) + Chars(Chosen(l)) <= MaxChars
  <1> DEFINE pending == Pending(l)
             targets == {i \in pending : obs[i].role = "target"}
             first_target == IF targets = {} THEN 0
                             ELSE Cardinality({i \in pending : i < Min(targets)})
             size == Min({MaxWindow, Max({Threshold(l), first_target + 1})})
             first == FirstOf(pending, size)
             start == Min(pending)
  <1>1. pending \in SUBSET Obs /\ Obs \subseteq Nat
    <2>1. pending \in SUBSET Obs BY LedgerType
    <2>2. Obs \subseteq Nat BY DEF Obs
    <2> QED BY <2>1, <2>2
  <1>2. /\ Overlap(l) \in SUBSET Obs /\ start \in pending /\ \A j \in pending : start <= j
        /\ Chars(Overlap(l)) + Chars({start}) <= MaxChars
    BY OverlapIs
  <1>3. Chosen(l) = {i \in first : Chars(Overlap(l)) + Chars({j \in first : j <= i}) <= MaxChars}
    BY DEF Chosen
  <1>4. first_target \in Nat BY <1>1, ObsFinite
  <1> HIDE DEF first_target
  <1>5. size \in 1..MaxWindow /\ MaxWindow \in Nat
    <2> DEFINE t == Threshold(l)
    <2>1. t \in 1..MaxWindow /\ MaxWindow \in Nat BY ThresholdIs
    <2> HIDE DEF t
    <2>2. Max({t, first_target + 1}) = IF t <= first_target + 1 THEN first_target + 1 ELSE t
      BY <1>4, <2>1, Extremes
    <2> DEFINE b == Max({t, first_target + 1})
    <2>3. b \in Nat /\ b >= 1 BY <1>4, <2>1, <2>2
    <2> HIDE DEF b
    <2>4. Min({MaxWindow, b}) = IF MaxWindow <= b THEN MaxWindow ELSE b BY <2>1, <2>3, Extremes
    <2> QED BY <2>1, <2>3, <2>4 DEF b, t
  <1> HIDE DEF size
  <1>6. /\ first \subseteq pending /\ Cardinality(first) <= size /\ start \in first
        /\ first \in SUBSET Obs
    BY <1>1, <1>2, <1>5, FirstOfIs
  <1> HIDE DEF first, pending, start
  <1>7. Chars({j \in first : j <= start}) = Chars({start})
    <2>1. \A x \in Nat, y \in Nat : x <= y /\ y <= x => x = y OBVIOUS
    <2>2. \A j \in first : j <= start <=> j = start BY <1>1, <1>2, <1>6, <2>1
    <2>3. {j \in first : j <= start} = {start} BY <1>6, <2>2
    <2> QED BY <2>3
  <1>8. start \in Chosen(l) BY <1>2, <1>3, <1>6, <1>7
  <1>9. Cardinality(Chosen(l)) <= MaxWindow
    <2>1. Chosen(l) \in SUBSET first BY <1>3
    <2>2. Cardinality(Chosen(l)) <= Cardinality(first) BY <1>6, <2>1, ObsFinite, FS_Subset
    <2>3. Cardinality(Chosen(l)) \in Nat /\ Cardinality(first) \in Nat BY <1>6, <2>1, ObsFinite
    <2> QED BY <1>5, <1>6, <2>2, <2>3
  <1>10. Chars(Overlap(l)) + Chars(Chosen(l)) <= MaxChars
    <2>1. PICK m \in Chosen(l) : \A y \in Chosen(l) : y <= m
      <3>1. Chosen(l) \in SUBSET Nat /\ Chosen(l) # {} BY <1>1, <1>3, <1>6, <1>8
      <3>2. (\A y \in Obs : y <= N) /\ N \in Nat BY ObsFinite DEF Obs
      <3>3. \A y \in Chosen(l) : y <= N BY <1>3, <1>6, <3>2
      <3> QED BY <3>1, <3>2, <3>3, Greatest
    <2>2. Chosen(l) \subseteq {j \in first : j <= m} BY <1>3, <2>1
    <2>3. {j \in first : j <= m} \in SUBSET Obs BY <1>6
    <2>4. /\ Chars(Chosen(l)) <= Chars({j \in first : j <= m})
          /\ Chars(Chosen(l)) \in Nat /\ Chars({j \in first : j <= m}) \in Nat
      BY <2>2, <2>3, CharsMonotone
    <2>5. Chars(Overlap(l)) + Chars({j \in first : j <= m}) <= MaxChars BY <1>3, <2>1
    <2>6. Chars(Overlap(l)) \in Nat /\ MaxChars \in Nat BY <1>2, CharsIs, WindowsAssumption
    <2> QED BY <2>4, <2>5, <2>6
  <1> QED BY <1>3, <1>6, <1>8, <1>9, <1>10 DEF pending

-----------------------------------------------------------------------------
(* Turns of the loop *)

(* What the turns leave alone *)
SameInput(l, m) ==
  /\ m.closed = l.closed /\ m.existing = l.existing /\ m.requests_used = l.requests_used
  /\ m.input_closed = l.input_closed /\ m.budget_exhausted = l.budget_exhausted
  /\ Len(l.windows) <= Len(m.windows)

LEMMA CutOneIs ==
  ASSUME obs \in Inputs, NEW l, LedgerOK(l)
  PROVE  /\ LedgerOK(CutOne(l)) /\ SameInput(l, CutOne(l))
         /\ \/ CutOne(l) = l
            \/ Cardinality(Pending(CutOne(l))) < Cardinality(Pending(l))
         /\ (CutOne(l) = l /\ Pending(l) # {}) =>
              /\ ~l.closed
              /\ \/ Cardinality(Pending(l)) < Threshold(l)
                 \/ ~HasTarget(Pending(l)) /\ ~HasTarget(Overlap(l))
  <1> DEFINE pending == Pending(l)
             selected == Chosen(l)
             overlap == Overlap(l)
             window == [overlap |-> overlap, selected |-> selected]
             Stays == pending = {} \/ (Cardinality(pending) < Threshold(l) /\ ~l.closed)
             Cuts == HasTarget(overlap \cup selected)
             Waits == ~l.closed /\ ~HasTarget(pending \ selected)
             cut == [l EXCEPT !.windows = Append(@, window)]
             skip == [l EXCEPT !.skipped = @ \cup selected]
  <1>1. CutOne(l) = IF Stays THEN l ELSE IF Cuts THEN cut ELSE IF Waits THEN l ELSE skip
    BY DEF CutOne
  <1>2. /\ l \in LedgerT /\ l.windows \in Seq(WindowT) /\ l.existing \in SUBSET Obs
        /\ l.skipped \in SUBSET Obs /\ Len(l.windows) \in Nat
        /\ DOMAIN l.windows = 1..Len(l.windows)
        /\ pending \in SUBSET l.existing /\ pending \in SUBSET Obs
        /\ pending \cap Selected(l) = {} /\ pending \cap l.skipped = {}
    BY LedgerType
  <1>3. SameInput(l, l) BY <1>2 DEF SameInput
  <1>4. ASSUME ~Stays
        PROVE  /\ selected \in SUBSET pending /\ selected # {} /\ Cardinality(selected) <= MaxWindow
               /\ Chars(overlap) + Chars(selected) <= MaxChars
               /\ overlap \in SUBSET l.existing /\ overlap \in SUBSET Obs
               /\ overlap \cap pending = {} /\ window \in WindowT
    <2>1. /\ selected \in SUBSET pending /\ selected # {} /\ Cardinality(selected) <= MaxWindow
          /\ Chars(overlap) + Chars(selected) <= MaxChars
      BY <1>4, ChosenIs
    <2>2. /\ overlap \in SUBSET l.existing /\ overlap \in SUBSET Obs /\ overlap \cap pending = {}
      BY <1>4, OverlapIs
    <2> HIDE DEF overlap, selected, pending
    <2> QED BY <1>2, <2>1, <2>2 DEF WindowT
  <1> HIDE DEF pending, selected, overlap
  <1>5. \A m \in SUBSET pending : m # {} => Cardinality(pending \ m) < Cardinality(pending)
    <2>1. TAKE m \in SUBSET pending
    <2>2. HAVE m # {}
    <2>3. IsFiniteSet(pending) /\ pending \ m # pending /\ pending \ m \in SUBSET pending
      BY <1>2, <2>1, <2>2, ObsFinite
    <2>4. Cardinality(pending \ m) <= Cardinality(pending) /\ Cardinality(pending \ m) # Cardinality(pending)
      BY <2>3, FS_Subset
    <2>5. Cardinality(pending \ m) \in Nat /\ Cardinality(pending) \in Nat BY <1>2, <2>3, ObsFinite
    <2> QED BY <2>4, <2>5
  <1>6. ASSUME ~Stays, Cuts
        PROVE  /\ LedgerOK(cut) /\ SameInput(l, cut) /\ cut # l
               /\ Cardinality(Pending(cut)) < Cardinality(pending)
    <2>1. cut \in LedgerT
      <3>1. Append(l.windows, window) \in Seq(WindowT) BY <1>2, <1>4, <1>6
      <3> HIDE DEF window
      <3> QED BY <1>2, <3>1 DEF LedgerT
    <2> DEFINE n == Len(l.windows)
    <2>2. /\ cut.closed = l.closed /\ cut.existing = l.existing /\ cut.requests_used = l.requests_used
          /\ cut.input_closed = l.input_closed /\ cut.budget_exhausted = l.budget_exhausted
          /\ cut.skipped = l.skipped /\ cut.windows = Append(l.windows, window)
      BY <1>2 DEF LedgerT
    <2> HIDE DEF cut
    <2>3. /\ DOMAIN cut.windows = 1..(n + 1) /\ Len(cut.windows) = n + 1 /\ n \in Nat
          /\ cut.windows[n + 1] = window /\ \A w \in 1..n : cut.windows[w] = l.windows[w]
      <3> HIDE DEF window
      <3> QED BY <1>2, <2>2
    <2> HIDE DEF n
    <2>4. DOMAIN l.windows = 1..n BY <1>2 DEF n
    <2>5. \A w \in 1..(n + 1) : w \in 1..n \/ w = n + 1 BY <2>3
    <2>6. ValidWindow(window)
      <3>1. selected \in SUBSET Obs BY <1>2, <1>4, <1>6
      <3>2. overlap \cap selected = {} BY <1>4, <1>6
      <3>3. Chars(overlap \cup selected) <= MaxChars BY <1>4, <1>6, <3>1, <3>2, CharsAdd
      <3> QED BY <1>4, <1>6, <3>2, <3>3 DEF ValidWindow
    <2>7. \A w \in 1..n : l.windows[w].selected \cap selected = {}
      <3>1. \A w \in 1..n : l.windows[w].selected \subseteq Selected(l) BY <2>4 DEF Selected
      <3>2. selected \cap Selected(l) = {} BY <1>2, <1>4, <1>6
      <3> QED BY <3>1, <3>2
    <2>8. LedgerOK(cut)
      <3>1. ASSUME NEW w \in 1..(n + 1)
            PROVE  ValidWindow(cut.windows[w])
                   /\ cut.windows[w].overlap \cup cut.windows[w].selected \subseteq l.existing
        <4>1. CASE w = n + 1 BY <1>2, <1>4, <1>6, <2>3, <2>6, <4>1
        <4>2. CASE w \in 1..n BY <2>3, <2>4, <4>2 DEF LedgerOK
        <4> QED BY <2>5, <4>1, <4>2
      <3>2. ASSUME NEW v \in 1..(n + 1), NEW w \in 1..(n + 1), v # w
            PROVE  cut.windows[v].selected \cap cut.windows[w].selected = {}
        <4>1. CASE v = n + 1 /\ w \in 1..n BY <2>3, <2>7, <4>1
        <4>2. CASE w = n + 1 /\ v \in 1..n BY <2>3, <2>7, <4>2
        <4>3. CASE v \in 1..n /\ w \in 1..n BY <2>3, <2>4, <3>2, <4>3 DEF LedgerOK
        <4> QED BY <2>5, <3>2, <4>1, <4>2, <4>3
      <3>3. l.skipped \subseteq l.existing BY DEF LedgerOK
      <3> QED BY <2>1, <2>2, <2>3, <3>1, <3>2, <3>3 DEF LedgerOK
    <2>9. SameInput(l, cut) BY <2>2, <2>3 DEF SameInput, n
    <2>10. cut # l BY <2>3 DEF n
    <2>11. Pending(cut) = pending \ selected
      <3>1. Selected(cut) = Selected(l) \cup selected
        <4>1. Selected(cut) = UNION {cut.windows[w].selected : w \in 1..(n + 1)} BY <2>3 DEF Selected
        <4>2. Selected(l) = UNION {cut.windows[w].selected : w \in 1..n} BY <2>3, <2>4 DEF Selected
        <4>3. cut.windows[n + 1].selected = selected BY <2>3
        <4>4. 1..(n + 1) = (1..n) \cup {n + 1} BY <2>3
        <4> QED BY <4>1, <4>2, <4>3, <4>4
      <3> QED BY <2>2, <3>1 DEF Pending, pending
    <2> QED BY <1>4, <1>5, <1>6, <2>8, <2>9, <2>10, <2>11
  <1>7. ASSUME ~Stays, ~Cuts, ~Waits
        PROVE  /\ LedgerOK(skip) /\ SameInput(l, skip) /\ skip # l
               /\ Cardinality(Pending(skip)) < Cardinality(pending)
    <2>1. skip \in LedgerT /\ skip.skipped \subseteq l.existing
      <3>1. selected \in SUBSET Obs /\ selected \in SUBSET l.existing BY <1>2, <1>4, <1>7
      <3>2. l.skipped \subseteq l.existing BY DEF LedgerOK
      <3> QED BY <1>2, <3>1, <3>2 DEF LedgerT
    <2>2. /\ skip.closed = l.closed /\ skip.existing = l.existing /\ skip.requests_used = l.requests_used
          /\ skip.input_closed = l.input_closed /\ skip.budget_exhausted = l.budget_exhausted
          /\ skip.skipped = l.skipped \cup selected /\ skip.windows = l.windows
      BY <1>2 DEF LedgerT
    <2> HIDE DEF skip
    <2>3. LedgerOK(skip) BY <2>1, <2>2 DEF LedgerOK
    <2>4. SameInput(l, skip) BY <1>2, <2>2 DEF SameInput
    <2>5. skip # l BY <1>2, <1>4, <1>7, <2>2
    <2>6. Pending(skip) = pending \ selected BY <2>2 DEF Pending, pending, Selected
    <2> QED BY <1>4, <1>5, <1>7, <2>3, <2>4, <2>5, <2>6
  <1>8. ASSUME ~Stays, ~Cuts, Waits PROVE ~l.closed /\ ~HasTarget(pending) /\ ~HasTarget(overlap)
    <2>1. selected \in SUBSET pending BY <1>4, <1>8
    <2> QED BY <1>8, <2>1 DEF HasTarget
  <1> HIDE DEF Cuts, Waits, cut, skip
  <1> QED BY <1>1, <1>3, <1>6, <1>7, <1>8 DEF pending, overlap

Turns(l, n, f) == f = [k \in 0..n |-> IF k = 0 THEN l ELSE CutOne(f[k - 1])]

LEMMA TurnsExist ==
  ASSUME NEW l, NEW n \in Nat
  PROVE  \E f : Turns(l, n, f)
  <1> DEFINE T == {k \in Nat : \E f : Turns(l, k, f)}
  <1>1. 0 \in T
    <2> DEFINE f == [k \in 0..0 |-> l]
    <2>1. \A k \in 0..0 : k = 0 OBVIOUS
    <2>2. Turns(l, 0, f) BY <2>1 DEF Turns
    <2> QED BY <2>2
  <1>2. ASSUME NEW k \in Nat, k < n, k \in T PROVE k + 1 \in T
    <2>1. PICK f : Turns(l, k, f) BY <1>2
    <2> DEFINE g == [j \in 0..(k + 1) |-> IF j = k + 1 THEN CutOne(f[k]) ELSE f[j]]
    <2>2. \A j \in 0..k : f[j] = IF j = 0 THEN l ELSE CutOne(f[j - 1]) BY <2>1 DEF Turns
    <2>3. ASSUME NEW j \in 0..(k + 1) PROVE g[j] = IF j = 0 THEN l ELSE CutOne(g[j - 1])
      <3>1. CASE j = k + 1
        <4>1. g[j - 1] = f[k] /\ j # 0 BY <1>2, <3>1
        <4> QED BY <3>1, <4>1
      <3>2. CASE j # k + 1
        <4>1. j \in 0..k /\ (j # 0 => j - 1 \in 0..k /\ j - 1 # k + 1) BY <1>2, <2>3, <3>2
        <4>2. j # 0 => g[j - 1] = f[j - 1] BY <4>1
        <4> QED BY <2>2, <3>2, <4>1, <4>2
      <3> QED BY <3>1, <3>2
    <2>4. Turns(l, k + 1, g) BY <2>3 DEF Turns
    <2> QED BY <1>2, <2>4
  <1> HIDE DEF T
  <1>3. n \in T
    <2>1. \A k \in 0..n : k \in T BY <1>1, <1>2, Climb
    <2> QED BY <2>1
  <1> QED BY <1>3 DEF T

(* The loop ends before its bound: when Cut() is over, another turn would  *)
(* change nothing.                                                         *)
LEMMA CutIs ==
  ASSUME obs \in Inputs, ~finalized, NEW l, LedgerOK(l)
  PROVE  LedgerOK(Cut(l)) /\ SameInput(l, Cut(l)) /\ CutOne(Cut(l)) = Cut(l)
  <1> DEFINE turn == CHOOSE f : Turns(l, N, f)
  <1>1. Cut(l) = turn[N] BY DEF Cut, Turns
  <1>2. N \in Nat BY ObsFinite
  <1>3. Turns(l, N, turn) BY <1>2, TurnsExist
  <1> HIDE DEF turn
  <1>4. /\ turn[0] = l
        /\ \A k \in Nat : k < N => turn[k + 1] = CutOne(turn[k])
    <2>1. turn[0] = l BY <1>2, <1>3 DEF Turns
    <2>2. ASSUME NEW k \in Nat, k < N PROVE turn[k + 1] = CutOne(turn[k])
      <3>1. k + 1 \in 0..N /\ k + 1 # 0 /\ (k + 1) - 1 = k BY <1>2, <2>2
      <3> QED BY <1>3, <3>1 DEF Turns
    <2> QED BY <2>1, <2>2
  <1> DEFINE T == {k \in 0..N : /\ LedgerOK(turn[k]) /\ SameInput(l, turn[k])
                                /\ \/ CutOne(turn[k]) = turn[k]
                                   \/ Cardinality(Pending(turn[k])) <= N - k}
  <1>5. 0 \in T
    <2>1. Pending(l) \in SUBSET Obs /\ Len(l.windows) \in Nat BY LedgerType
    <2>2. Cardinality(Pending(l)) <= N /\ Cardinality(Pending(l)) \in Nat BY <2>1, ObsFinite
    <2>3. SameInput(l, l) BY <2>1 DEF SameInput
    <2> QED BY <1>2, <1>4, <2>2, <2>3
  <1>6. ASSUME NEW k \in Nat, k < N, k \in T PROVE k + 1 \in T
    <2> DEFINE a == turn[k]
               b == turn[k + 1]
    <2>1. LedgerOK(a) /\ SameInput(l, a) /\ b = CutOne(a) BY <1>4, <1>6
    <2>2. LedgerOK(b) /\ SameInput(a, b) /\ (b = a \/ Cardinality(Pending(b)) < Cardinality(Pending(a)))
      BY <2>1, CutOneIs
    <2>3. Len(l.windows) \in Nat /\ Len(a.windows) \in Nat /\ Len(b.windows) \in Nat
      BY <2>1, <2>2, LedgerType
    <2>4. SameInput(l, b) BY <2>1, <2>2, <2>3 DEF SameInput
    <2>5. CASE b = a
      <3>1. CutOne(b) = b BY <2>1, <2>5
      <3>2. k + 1 \in 0..N BY <1>2, <1>6
      <3> QED BY <2>2, <2>4, <3>1, <3>2
    <2>6. CASE b # a
      <3>1. Cardinality(Pending(b)) < Cardinality(Pending(a)) BY <2>2, <2>6
      <3>2. Cardinality(Pending(a)) <= N - k BY <1>6, <2>1, <2>6
      <3>3. Pending(a) \in SUBSET Obs /\ Pending(b) \in SUBSET Obs BY <2>1, <2>2, LedgerType
      <3>4. Cardinality(Pending(a)) \in Nat /\ Cardinality(Pending(b)) \in Nat BY <3>3, ObsFinite
      <3> HIDE DEF a
      <3>5. Cardinality(Pending(b)) <= N - (k + 1) BY <1>2, <1>6, <3>1, <3>2, <3>4
      <3> QED BY <1>2, <1>6, <2>2, <2>4, <3>5
    <2> QED BY <2>5, <2>6
  <1> HIDE DEF T
  <1>7. N \in T
    <2>1. \A k \in 0..N : k \in T BY <1>2, <1>5, <1>6, Climb
    <2> QED BY <1>2, <2>1
  <1>8. LedgerOK(turn[N]) /\ SameInput(l, turn[N]) BY <1>7 DEF T
  <1>9. CutOne(turn[N]) = turn[N]
    <2>1. SUFFICES ASSUME Cardinality(Pending(turn[N])) <= N - N PROVE CutOne(turn[N]) = turn[N]
      BY <1>7 DEF T
    <2>2. Pending(turn[N]) \in SUBSET Obs BY <1>8, LedgerType
    <2>3. IsFiniteSet(Pending(turn[N])) /\ Cardinality(Pending(turn[N])) \in Nat BY <2>2, ObsFinite
    <2>4. Cardinality(Pending(turn[N])) = 0 BY <1>2, <2>1, <2>3
    <2>5. Pending(turn[N]) = {} BY <2>3, <2>4, FS_EmptySet
    <2> QED BY <2>5 DEF CutOne
  <1> QED BY <1>1, <1>8, <1>9

(* A ledger at rest is left as it is, also when it is read again. *)
LEMMA CutAgain ==
  ASSUME NEW l, finalized \/ CutOne(l) = l
  PROVE  Cut(l) = l
  <1>1. CASE finalized BY <1>1 DEF Cut
  <1>2. CASE ~finalized
    <2> DEFINE turn == CHOOSE f : Turns(l, N, f)
    <2>1. Cut(l) = turn[N] BY <1>2 DEF Cut, Turns
    <2>2. N \in Nat BY ObsFinite
    <2>3. Turns(l, N, turn) BY <2>2, TurnsExist
    <2> HIDE DEF turn
    <2> DEFINE T == {k \in 0..N : turn[k] = l}
    <2>4. 0 \in T BY <2>2, <2>3 DEF Turns
    <2>5. ASSUME NEW k \in Nat, k < N, k \in T PROVE k + 1 \in T
      <3>1. k + 1 \in 0..N /\ k + 1 # 0 /\ (k + 1) - 1 = k BY <2>2, <2>5
      <3>2. turn[k + 1] = CutOne(turn[k]) BY <2>3, <3>1 DEF Turns
      <3> QED BY <1>2, <2>5, <3>1, <3>2
    <2> HIDE DEF T
    <2>6. \A k \in 0..N : k \in T BY <2>2, <2>4, <2>5, Climb
    <2> QED BY <2>1, <2>2, <2>6 DEF T
  <1> QED BY <1>1, <1>2

-----------------------------------------------------------------------------
(* Windows under their operations *)

(* The ledger is at rest, nothing waits once its input is over, and what   *)
(* was submitted is admitted or recorded as unadmitted.                    *)
AtRest(l) ==
  /\ LedgerOK(l)
  /\ ~finalized => CutOne(l) = l
  /\ l.closed => Pending(l) = {}

WinInv ==
  /\ obs \in Inputs /\ finalized \in BOOLEAN /\ stopped \in BOOLEAN
  /\ AtRest(ledger) /\ (finalized => ledger.closed)
  /\ seen = ledger.existing \cup Unadmitted(ledger)
  /\ outcome = [w \in DOMAIN ledger.windows |-> outcome[w]]

(* The operators on ledgers depend on the observations, which stay. *)
LEMMA SameObs ==
  ASSUME obs' = obs
  PROVE  \A x : /\ Chars(x)' = Chars(x) /\ (HasTarget(x)' <=> HasTarget(x))
                /\ (ValidWindow(x)' <=> ValidWindow(x)) /\ (LedgerOK(x)' <=> LedgerOK(x))
                /\ CutOne(x)' = CutOne(x)
  <1>1. \A x : Chars(x)' = Chars(x) BY DEF Chars, MapThenSumSet, MapThenFoldSet
  <1>2. \A x : HasTarget(x)' <=> HasTarget(x) BY DEF HasTarget
  <1>3. \A x : ValidWindow(x)' <=> ValidWindow(x) BY <1>1, <1>2 DEF ValidWindow
  <1>4. \A x : LedgerOK(x)' <=> LedgerOK(x) BY <1>3 DEF LedgerOK
  <1>5. \A x : CutOne(x)' = CutOne(x)
    <2>1. \A x : Pending(x)' = Pending(x) /\ Threshold(x)' = Threshold(x) /\ Selected(x)' = Selected(x)
      BY DEF Pending, Threshold, Selected
    <2>2. \A x : Overlap(x)' = Overlap(x) BY <1>1, <2>1 DEF Overlap
    <2>3. \A x : Chosen(x)' = Chosen(x) BY <1>1, <2>1, <2>2 DEF Chosen
    <2> QED BY <1>2, <2>1, <2>2, <2>3 DEF CutOne
  <1> QED BY <1>1, <1>2, <1>3, <1>4, <1>5

LEMMA AtRestNow ==
  ASSUME obs' = obs, finalized' = finalized, NEW l, AtRest(l), ledger' = l
  PROVE  AtRest(ledger)'
  <1>1. LedgerOK(l) /\ (~finalized => CutOne(l) = l) /\ (l.closed => Pending(l) = {}) BY DEF AtRest
  <1>2. LedgerOK(ledger)' <=> LedgerOK(l) BY SameObs
  <1>3. CutOne(ledger)' = CutOne(l) BY SameObs
  <1>4. Pending(ledger)' = Pending(l) BY DEF Pending, Selected
  <1> QED BY <1>1, <1>2, <1>3, <1>4 DEF AtRest

(* Cutting leaves a ledger at rest. *)
LEMMA CutRests ==
  ASSUME obs \in Inputs, NEW l, LedgerOK(l), finalized => l.closed /\ Pending(l) = {}
  PROVE  /\ AtRest(Cut(l)) /\ SameInput(l, Cut(l))
  <1>1. CASE finalized
    <2>1. Cut(l) = l BY <1>1 DEF Cut
    <2>2. Len(l.windows) \in Nat BY LedgerType
    <2> QED BY <1>1, <2>1, <2>2 DEF AtRest, SameInput
  <1>2. CASE ~finalized
    <2>1. LedgerOK(Cut(l)) /\ SameInput(l, Cut(l)) /\ CutOne(Cut(l)) = Cut(l) BY <1>2, CutIs
    <2>2. Cut(l).closed => Pending(Cut(l)) = {} BY <2>1, CutOneIs
    <2> QED BY <2>1, <2>2 DEF AtRest
  <1> QED BY <1>1, <1>2

LEMMA StoreInv ==
  ASSUME WinInv, NEW l, LedgerOK(l), finalized => l.closed /\ Pending(l) = {},
         Store(Cut(l)), UNCHANGED <<obs, finalized, stopped>>,
         seen' = l.existing \cup Unadmitted(l)
  PROVE  WinInv'
  <1>1. AtRest(Cut(l)) /\ SameInput(l, Cut(l)) BY CutRests DEF WinInv
  <1> DEFINE m == Cut(l)
  <1>2. ledger' = m BY DEF Store
  <1>3. outcome' = [w \in DOMAIN m.windows |-> IF w \in DOMAIN outcome THEN outcome[w] ELSE "active"]
    BY DEF Store
  <1> HIDE DEF m
  <1>4. AtRest(ledger)' BY <1>1, <1>2, AtRestNow DEF m
  <1>5. seen' = m.existing \cup Unadmitted(m) BY <1>1 DEF SameInput, Unadmitted, m
  <1>6. outcome' = [w \in DOMAIN m.windows |-> outcome'[w]] BY <1>3
  <1>7. finalized => m.closed BY <1>1 DEF SameInput, m
  <1> QED BY <1>2, <1>4, <1>5, <1>6, <1>7 DEF WinInv, Unadmitted

(* What a batch makes of a ledger *)
LEMMA AdmittedIs ==
  ASSUME WinInv, NEW batch \in SUBSET Obs, NEW l \in Admitted(ledger, batch)
  PROVE  /\ LedgerOK(l) /\ (finalized => l.closed /\ Pending(l) = {})
         /\ seen \cup batch = l.existing \cup Unadmitted(l)
         /\ ledger.existing \subseteq l.existing /\ l.windows = ledger.windows
         /\ batch \subseteq seen => l = ledger
  <1> DEFINE new == batch \ (ledger.existing \cup Unadmitted(ledger))
             room == max_observations - Cardinality(ledger.existing)
             late == [ledger EXCEPT !.input_closed = @ \cup new]
             With(taken) == [ledger EXCEPT !.existing = @ \cup taken, !.budget_exhausted = @ \cup (new \ taken)]
  <1>1. /\ LedgerOK(ledger) /\ ledger \in LedgerT /\ ledger.existing \in SUBSET Obs
        /\ seen = ledger.existing \cup Unadmitted(ledger)
    BY LedgerType DEF WinInv, AtRest
  <1>2. new \in SUBSET Obs /\ (batch \subseteq seen => new = {}) BY <1>1
  <1>3. \/ (ledger.closed \/ finalized) /\ l = late
        \/ ~ledger.closed /\ ~finalized /\ \E taken \in SUBSET new : l = With(taken)
    BY DEF Admitted
  <1> HIDE DEF new
  <1>4. CASE (ledger.closed \/ finalized) /\ l = late
    <2>1. /\ l \in LedgerT /\ l.existing = ledger.existing /\ l.windows = ledger.windows
          /\ l.skipped = ledger.skipped /\ l.closed = ledger.closed
          /\ Unadmitted(l) = Unadmitted(ledger) \cup new
          /\ new = {} => l = ledger
      BY <1>1, <1>2, <1>4 DEF LedgerT, Unadmitted
    <2>2. LedgerOK(l) BY <1>1, <2>1 DEF LedgerOK
    <2>3. Pending(l) = Pending(ledger) BY <2>1 DEF Pending, Selected
    <2>4. seen \cup batch = l.existing \cup Unadmitted(l) BY <1>1, <2>1 DEF new
    <2> QED BY <1>2, <2>1, <2>2, <2>3, <2>4 DEF WinInv, AtRest
  <1>5. ASSUME ~ledger.closed, ~finalized, NEW taken \in SUBSET new, l = With(taken)
        PROVE  /\ LedgerOK(l)
               /\ seen \cup batch = l.existing \cup Unadmitted(l)
               /\ ledger.existing \subseteq l.existing /\ l.windows = ledger.windows
               /\ batch \subseteq seen => l = ledger
    <2>1. /\ l \in LedgerT /\ l.existing = ledger.existing \cup taken /\ l.windows = ledger.windows
          /\ l.skipped = ledger.skipped /\ l.closed = ledger.closed
          /\ Unadmitted(l) = Unadmitted(ledger) \cup (new \ taken)
          /\ new = {} => l = ledger
      <3>1. taken \in SUBSET Obs /\ new \ taken \in SUBSET Obs BY <1>2
      <3>2. ledger.existing \cup taken \in SUBSET Obs BY <1>1, <3>1
      <3>3. new = {} => taken = {} OBVIOUS
      <3> QED BY <1>1, <1>5, <3>1, <3>2, <3>3 DEF LedgerT, Unadmitted
    <2>2. LedgerOK(l)
      <3>1. l.skipped \subseteq l.existing BY <1>1, <2>1 DEF LedgerOK
      <3> QED BY <1>1, <2>1, <3>1 DEF LedgerOK
    <2>3. seen \cup batch = l.existing \cup Unadmitted(l) BY <1>1, <1>5, <2>1 DEF new
    <2> QED BY <1>2, <2>1, <2>2, <2>3
  <1> QED BY <1>3, <1>4, <1>5

LEMMA WindowsInit == WInit => WinInv
  <1> SUFFICES ASSUME WInit PROVE WinInv OBVIOUS
  <1>1. /\ ledger = NewLedger /\ obs \in Inputs /\ finalized = FALSE /\ stopped = FALSE
        /\ seen = {} /\ outcome = <<>>
    BY DEF WInit
  <1>2. /\ NewLedger.windows = <<>> /\ NewLedger.existing = {} /\ NewLedger.skipped = {}
        /\ NewLedger.closed = FALSE /\ NewLedger.input_closed = {} /\ NewLedger.budget_exhausted = {}
        /\ NewLedger \in LedgerT
    <2>1. <<>> \in Seq(WindowT) OBVIOUS
    <2> QED BY <2>1 DEF NewLedger, LedgerT
  <1>3. DOMAIN NewLedger.windows = {} BY <1>2
  <1>4. LedgerOK(NewLedger) BY <1>2, <1>3 DEF LedgerOK
  <1>5. Pending(NewLedger) = {} BY <1>2 DEF Pending
  <1>6. CutOne(NewLedger) = NewLedger BY <1>5 DEF CutOne
  <1>7. Unadmitted(NewLedger) = {} BY <1>2 DEF Unadmitted
  <1>8. <<>> = [w \in {} |-> outcome[w]] OBVIOUS
  <1> QED BY <1>1, <1>2, <1>3, <1>4, <1>5, <1>6, <1>7, <1>8 DEF WinInv, AtRest

LEMMA SubmitInv ==
  ASSUME WinInv, NEW batch \in SUBSET (Obs \ seen), SubmitObservations(batch)
  PROVE  WinInv'
  <1>1. PICK l \in Admitted(ledger, batch) : Store(Cut(l)) BY DEF SubmitObservations
  <1>2. batch \in SUBSET Obs OBVIOUS
  <1>3. /\ LedgerOK(l) /\ (finalized => l.closed /\ Pending(l) = {})
        /\ seen \cup batch = l.existing \cup Unadmitted(l)
    BY <1>1, <1>2, AdmittedIs
  <1>4. seen' = seen \cup batch /\ UNCHANGED <<obs, finalized, stopped>> BY DEF SubmitObservations
  <1> QED BY <1>1, <1>3, <1>4, StoreInv

LEMMA CloseInputInv == WinInv /\ CloseInput => WinInv'
  <1> SUFFICES ASSUME WinInv, CloseInput PROVE WinInv' OBVIOUS
  <1> DEFINE l == [ledger EXCEPT !.closed = TRUE]
  <1>1. LedgerOK(ledger) /\ (finalized => ledger.closed) /\ seen = ledger.existing \cup Unadmitted(ledger)
    BY DEF WinInv, AtRest
  <1>2. ledger \in LedgerT BY <1>1, LedgerType
  <1>3. /\ l \in LedgerT /\ l.existing = ledger.existing /\ l.windows = ledger.windows
        /\ l.skipped = ledger.skipped /\ Unadmitted(l) = Unadmitted(ledger)
    BY <1>2 DEF LedgerT, Unadmitted
  <1>4. ~finalized /\ Store(Cut(l)) /\ seen' = seen /\ UNCHANGED <<obs, finalized, stopped>>
    BY <1>1 DEF CloseInput
  <1> HIDE DEF l
  <1>5. LedgerOK(l) BY <1>1, <1>3 DEF LedgerOK
  <1> QED BY <1>1, <1>3, <1>4, <1>5, StoreInv

LEMMA RecordRequestInv ==
  ASSUME WinInv, NEW w \in DOMAIN outcome, RecordRequest(w)
  PROVE  WinInv'
  <1> DEFINE l == ledger
             m == [ledger EXCEPT !.requests_used = @ + 1]
  <1>1. LedgerOK(l) /\ (~finalized => CutOne(l) = l) /\ (l.closed => Pending(l) = {}) /\ obs \in Inputs
    BY DEF WinInv, AtRest
  <1>2. l \in LedgerT /\ l.requests_used \in Nat BY <1>1, LedgerType
  <1>3. /\ m \in LedgerT /\ m.existing = l.existing /\ m.windows = l.windows /\ m.skipped = l.skipped
        /\ m.closed = l.closed /\ m.requests_used = l.requests_used + 1
        /\ Unadmitted(m) = Unadmitted(l)
    BY <1>2 DEF LedgerT, Unadmitted
  <1>4. ledger' = m /\ UNCHANGED <<obs, seen, outcome, finalized, stopped>> BY DEF RecordRequest
  <1> HIDE DEF l, m
  <1>5. LedgerOK(m) BY <1>1, <1>3 DEF LedgerOK
  <1>6. Pending(m) = Pending(l) /\ Selected(m) = Selected(l) BY <1>3 DEF Pending, Selected
  <1>7. ASSUME ~finalized PROVE CutOne(m) = m
    <2>1. CASE Pending(m) = {} BY <2>1 DEF CutOne
    <2>2. CASE Pending(m) # {}
      <3>1. /\ ~l.closed
            /\ \/ Cardinality(Pending(l)) < Threshold(l)
               \/ ~HasTarget(Pending(l)) /\ ~HasTarget(Overlap(l))
        BY <1>1, <1>6, <1>7, <2>2, CutOneIs
      <3>2. CASE Cardinality(Pending(l)) < Threshold(l)
        <4>1. l.requests_used <= m.requests_used BY <1>2, <1>3
        <4>2. Threshold(l) <= Threshold(m) BY <1>1, <1>3, <1>5, <4>1, ThresholdGrows
        <4>3. Threshold(l) \in Nat /\ Threshold(m) \in Nat
          <5>1. Threshold(l) \in 1..MaxWindow /\ Threshold(m) \in 1..MaxWindow /\ MaxWindow \in Nat
            BY <1>1, <1>5, ThresholdIs
          <5> QED BY <5>1
        <4>4. Cardinality(Pending(l)) \in Nat
          <5>1. Pending(l) \in SUBSET Obs BY <1>1, LedgerType
          <5> QED BY <5>1, ObsFinite
        <4>5. Cardinality(Pending(m)) < Threshold(m) /\ ~m.closed BY <1>3, <1>6, <3>1, <3>2, <4>2, <4>3, <4>4
        <4> QED BY <4>5 DEF CutOne
      <3>3. CASE ~HasTarget(Pending(l)) /\ ~HasTarget(Overlap(l))
        <4>1. Overlap(m) = Overlap(l) BY <1>3, <1>6 DEF Overlap
        <4>2. Chosen(m) \in SUBSET Pending(m) BY <1>1, <1>5, <2>2, ChosenIs
        <4>3. ~HasTarget(Overlap(m) \cup Chosen(m)) BY <1>6, <3>3, <4>1, <4>2 DEF HasTarget
        <4>4. ~HasTarget(Pending(m) \ Chosen(m)) BY <1>6, <3>3 DEF HasTarget
        <4> QED BY <1>3, <3>1, <4>3, <4>4 DEF CutOne
      <3> QED BY <3>1, <3>2, <3>3
    <2> QED BY <2>1, <2>2
  <1>8. AtRest(m) BY <1>1, <1>3, <1>5, <1>6, <1>7 DEF AtRest
  <1>9. AtRest(ledger)' BY <1>4, <1>8, AtRestNow
  <1> QED BY <1>3, <1>4, <1>9 DEF WinInv, l, Unadmitted

LEMMA AtRestStays ==
  ASSUME obs' = obs, ledger' = ledger, (finalized' = finalized) \/ finalized', AtRest(ledger)
  PROVE  AtRest(ledger)'
  <1>1. LedgerOK(ledger)' <=> LedgerOK(ledger) BY SameObs
  <1>2. CutOne(ledger)' = CutOne(ledger) BY SameObs
  <1>3. Pending(ledger)' = Pending(ledger) BY DEF Pending, Selected
  <1> QED BY <1>1, <1>2, <1>3 DEF AtRest

LEMMA EndWindowInv ==
  ASSUME WinInv, NEW w \in DOMAIN outcome, NEW s, EndWindow(w, s)
  PROVE  WinInv'
  <1>1. UNCHANGED <<obs, seen, ledger, finalized, stopped>> /\ outcome' = [outcome EXCEPT ![w] = s]
    BY DEF EndWindow
  <1>2. AtRest(ledger)' BY <1>1, AtRestStays DEF WinInv
  <1>3. DOMAIN outcome = DOMAIN ledger.windows BY DEF WinInv
  <1>4. outcome' = [v \in DOMAIN ledger.windows |-> outcome'[v]] BY <1>1, <1>3
  <1> QED BY <1>1, <1>2, <1>4 DEF WinInv, Unadmitted

LEMMA OtherInv ==
  ASSUME WinInv, Finalize \/ Stop \/ UNCHANGED wvars \/ \E w \in DOMAIN outcome : RemoveWindow(w)
  PROVE  WinInv'
  <1>1. CASE Finalize
    <2>1. UNCHANGED <<obs, seen, ledger, outcome, stopped>> /\ finalized' = TRUE /\ ledger.closed
      BY <1>1 DEF Finalize
    <2>2. AtRest(ledger)' BY <2>1, AtRestStays DEF WinInv
    <2> QED BY <2>1, <2>2 DEF WinInv, Unadmitted
  <1>2. CASE Stop
    <2>1. /\ UNCHANGED <<obs, seen, ledger, finalized>> /\ stopped' = TRUE
          /\ outcome' = [w \in DOMAIN outcome |-> IF outcome[w] = "active" THEN "cancelled" ELSE outcome[w]]
      BY <1>2 DEF Stop
    <2>2. AtRest(ledger)' BY <2>1, AtRestStays DEF WinInv
    <2>3. DOMAIN outcome = DOMAIN ledger.windows BY DEF WinInv
    <2>4. outcome' = [v \in DOMAIN ledger.windows |-> outcome'[v]] BY <2>1, <2>3
    <2> QED BY <2>1, <2>2, <2>4 DEF WinInv, Unadmitted
  <1>3. CASE UNCHANGED wvars
    <2>1. UNCHANGED <<obs, seen, ledger, outcome, finalized, stopped>> BY <1>3 DEF wvars
    <2>2. AtRest(ledger)' BY <2>1, AtRestStays DEF WinInv
    <2> QED BY <2>1, <2>2 DEF WinInv, Unadmitted
  <1>4. ASSUME NEW w \in DOMAIN outcome, RemoveWindow(w) PROVE WinInv'
    <2>1. UNCHANGED <<obs, seen, ledger, finalized, stopped>> /\ outcome' = [outcome EXCEPT ![w] = "removed"]
      BY <1>4 DEF RemoveWindow
    <2>2. AtRest(ledger)' BY <2>1, AtRestStays DEF WinInv
    <2>3. DOMAIN outcome = DOMAIN ledger.windows BY DEF WinInv
    <2>4. outcome' = [v \in DOMAIN ledger.windows |-> outcome'[v]] BY <2>1, <2>3
    <2> QED BY <2>1, <2>2, <2>4 DEF WinInv, Unadmitted
  <1> QED BY <1>1, <1>2, <1>3, <1>4

LEMMA CoverHolds == WinInv => WindowsCover
  <1> SUFFICES ASSUME WinInv PROVE WindowsCover OBVIOUS
  <1>1. /\ obs \in Inputs /\ LedgerOK(ledger) /\ (~finalized => CutOne(ledger) = ledger)
        /\ (ledger.closed => Pending(ledger) = {}) /\ (finalized => ledger.closed)
        /\ seen = ledger.existing \cup Unadmitted(ledger)
        /\ DOMAIN outcome = DOMAIN ledger.windows
    BY DEF WinInv, AtRest
  <1>2. WindowsValid BY <1>1 DEF WindowsValid, LedgerOK, ValidWindow
  <1>3. \A i \in seen : \A l \in Admitted(ledger, {i}) : Cut(l) = ledger
    <2>1. TAKE i \in seen
    <2>2. TAKE l \in Admitted(ledger, {i})
    <2>3. {i} \in SUBSET Obs
      <3>1. ledger \in LedgerT BY <1>1, LedgerType
      <3>2. seen \in SUBSET Obs BY <1>1, <3>1 DEF LedgerT, Unadmitted
      <3> QED BY <2>1, <3>2
    <2>4. l = ledger
      <3>1. {i} \subseteq seen BY <2>1
      <3> QED BY <2>2, <2>3, <3>1, AdmittedIs
    <2>5. Cut(ledger) = ledger BY <1>1, CutAgain
    <2> QED BY <2>4, <2>5
  <1>4. (~ledger.closed /\ HasTarget(Pending(ledger))) =>
          Cardinality(Pending(ledger)) < Threshold(ledger)
    <2>1. HAVE ~ledger.closed /\ HasTarget(Pending(ledger))
    <2>2. Pending(ledger) # {} /\ CutOne(ledger) = ledger BY <1>1, <2>1 DEF HasTarget
    <2> QED BY <1>1, <2>1, <2>2, CutOneIs
  <1>5. ((ledger.closed \/ stopped) /\ AllEnded) => \A i \in seen : Progress(i) # "pending"
    <2>1. HAVE (ledger.closed \/ stopped) /\ AllEnded
    <2>2. TAKE i \in seen
    <2>3. CASE i \in Unadmitted(ledger) BY <2>3 DEF Progress
    <2>4. CASE stopped BY <2>4 DEF Progress
    <2>5. CASE i \in ledger.existing /\ ledger.closed
      <3>1. i \in Selected(ledger) \/ i \in ledger.skipped BY <1>1, <2>5 DEF Pending
      <3>2. CASE i \in ledger.skipped BY <3>2 DEF Progress
      <3>3. CASE i \in Selected(ledger)
        <4>1. PICK w \in DOMAIN ledger.windows : i \in ledger.windows[w].selected BY <3>3 DEF Selected
        <4>2. outcome[w] # "active" BY <1>1, <2>1 DEF AllEnded
        <4> QED BY <4>1, <4>2 DEF Progress
      <3> QED BY <3>1, <3>2, <3>3
    <2> QED BY <1>1, <2>1, <2>3, <2>4, <2>5
  <1> QED BY <1>1, <1>2, <1>3, <1>4, <1>5 DEF WindowsCover, NothingDropped

LEMMA WindowsStep ==
  ASSUME WinInv, [CNext]_cvars
  PROVE  WinInv'
  <1>1. ASSUME NEW batch \in SUBSET (Obs \ seen), SubmitObservations(batch) PROVE WinInv'
    BY <1>1, SubmitInv
  <1>2. ASSUME NEW w \in DOMAIN outcome, NEW s, EndWindow(w, s) PROVE WinInv' BY <1>2, EndWindowInv
  <1>3. ASSUME NEW w \in DOMAIN outcome, RecordRequest(w) PROVE WinInv' BY <1>3, RecordRequestInv
  <1>4. ASSUME NEW w \in DOMAIN outcome, RemoveWindow(w) PROVE WinInv' BY <1>4, OtherInv
  <1>5. CASE CloseInput BY <1>5, CloseInputInv
  <1>6. CASE Stop BY <1>6, OtherInv
  <1>7. CASE Reconcile
    <2>1. Finalize BY <1>7 DEF Reconcile
    <2> QED BY <2>1, OtherInv
  <1>8. ASSUME NEW c, Assess(c) PROVE WinInv'
    <2>1. UNCHANGED wvars BY <1>8 DEF Assess
    <2> QED BY <2>1, OtherInv
  <1>9. ASSUME NEW w \in DOMAIN outcome, NEW answer, PublishWindow(w, answer) PROVE WinInv'
    <2>1. EndWindow(w, "published") BY <1>9 DEF PublishWindow
    <2> QED BY <2>1, EndWindowInv
  <1>10. CASE UNCHANGED cvars
    <2>1. UNCHANGED wvars BY <1>10 DEF wvars, cvars
    <2> QED BY <2>1, OtherInv
  <1> QED BY <1>1, <1>2, <1>3, <1>4, <1>5, <1>6, <1>7, <1>8, <1>9, <1>10 DEF CNext

(* Windows are valid and nothing submitted is dropped: whatever arrives in *)
(* whatever order, the loop of submit_observations() ends with admissible  *)
(* windows that share the observations out.                                *)
THEOREM WindowsCoverInput == CSpec => []WindowsCover
  <1>1. CInit => WinInv BY WindowsInit DEF CInit
  <1>2. WinInv /\ [CNext]_cvars => WinInv' BY WindowsStep
  <1>3. WinInv => WindowsCover BY CoverHolds
  <1> QED BY <1>1, <1>2, <1>3, PTL DEF CSpec

-----------------------------------------------------------------------------
(* Quotes and spans *)

RefT == Obs \X Seq(Nat)
SpanT == Obs \X Nat \X Nat

(* A span of the text of its observation *)
Within(s) ==
  /\ s \in SpanT
  /\ 1 <= s[2] /\ s[2] < s[3] /\ s[3] <= Len(obs[s[1]].text) + 1

LEMMA TextIs ==
  ASSUME obs \in Inputs, NEW i \in Obs
  PROVE  obs[i].text \in Seq(Nat) /\ Len(obs[i].text) \in Nat
  <1>1. obs \in [1..N -> [role : {"target", "context"}, text : Seq(Nat)]] BY WindowsAssumption
  <1>2. obs[i] \in [role : {"target", "context"}, text : Seq(Nat)] BY <1>1 DEF Obs
  <1> QED BY <1>2

LEMMA UnmarkedIs ==
  ASSUME NEW text, NEW quote \in Seq(Nat)
  PROVE  /\ Unmarked(text, quote) \in Seq(Nat)
         /\ quote # <<>> => Len(Unmarked(text, quote)) >= 1
  <1>1. CASE Len(quote) > 2
    <2>1. Len(quote) \in Nat /\ Len(quote) - 1 \in 0..Len(quote) BY <1>1
    <2>2. SubSeq(quote, 2, Len(quote) - 1) \in Seq(Nat) BY <1>1, <2>1
    <2>3. Len(SubSeq(quote, 2, Len(quote) - 1)) = Len(quote) - 2 BY <1>1, <2>1
    <2> QED BY <1>1, <2>1, <2>2, <2>3 DEF Unmarked
  <1>2. CASE ~(Len(quote) > 2)
    <2>1. quote # <<>> => Len(quote) >= 1 OBVIOUS
    <2> QED BY <1>2, <2>1 DEF Unmarked
  <1> QED BY <1>1, <1>2

LEMMA FoldIs ==
  ASSUME NEW q \in Seq(Nat)
  PROVE  Fold(q) \in Seq(Nat) /\ Len(Fold(q)) = Len(q)
  <1>1. DOMAIN q = 1..Len(q) /\ Len(q) \in Nat OBVIOUS
  <1>2. \A k \in 1..Len(q) : q[k] % 10 \in Nat OBVIOUS
  <1> QED BY <1>1, <1>2 DEF Fold

LEMMA MatchesIs ==
  ASSUME obs \in Inputs, NEW i \in Obs, NEW quote \in Seq(Nat)
  PROVE  /\ \A s \in Matches(i, quote) : s \in SpanT /\ s[1] = i
         /\ quote # <<>> => \A s \in Matches(i, quote) : Within(s)
  <1> DEFINE text == obs[i].text
             q == Unmarked(text, quote)
             at == IF FindAll(text, q) # {} THEN FindAll(text, q) ELSE FindAll(Fold(text), Fold(q))
  <1>1. text \in Seq(Nat) /\ Len(text) \in Nat BY TextIs
  <1>2. q \in Seq(Nat) /\ Len(q) \in Nat /\ (quote # <<>> => Len(q) >= 1) BY UnmarkedIs
  <1>3. Matches(i, quote) = {<<i, k, k + Len(q)>> : k \in at} BY DEF Matches
  <1> HIDE DEF text, q
  <1>4. at \subseteq 1..(Len(text) - Len(q) + 1)
    <2>1. FindAll(text, q) \subseteq 1..(Len(text) - Len(q) + 1) BY DEF FindAll
    <2>2. FindAll(Fold(text), Fold(q)) \subseteq 1..(Len(Fold(text)) - Len(Fold(q)) + 1) BY DEF FindAll
    <2>3. Len(Fold(text)) = Len(text) /\ Len(Fold(q)) = Len(q) BY <1>1, <1>2, FoldIs
    <2> QED BY <2>1, <2>2, <2>3
  <1> HIDE DEF at
  <1>5. ASSUME NEW s \in Matches(i, quote)
        PROVE  /\ s \in SpanT /\ s[1] = i /\ s[2] >= 1 /\ s[3] <= Len(text) + 1
               /\ quote # <<>> => s[2] < s[3]
    <2>1. PICK k \in at : s = <<i, k, k + Len(q)>> BY <1>3, <1>5
    <2>2. k \in 1..(Len(text) - Len(q) + 1) BY <1>4, <2>1
    <2>3. k \in Nat /\ k + Len(q) \in Nat /\ k + Len(q) <= Len(text) + 1 /\ k >= 1
          /\ (quote # <<>> => k < k + Len(q))
      BY <1>1, <1>2, <2>2
    <2>4. s[1] = i /\ s[2] = k /\ s[3] = k + Len(q) BY <2>1
    <2> QED BY <2>1, <2>3, <2>4 DEF SpanT
  <1> QED BY <1>5 DEF Within, text

LEMMA FirstSpanIs ==
  ASSUME NEW S \in SUBSET SpanT, S # {}
  PROVE  FirstSpan(S) \in S
  <1> DEFINE T == {s[2] : s \in S}
  <1>1. T \in SUBSET Nat /\ T # {} BY DEF SpanT
  <1>2. PICK n \in T : \A m \in T : n <= m
    <2> HIDE DEF T
    <2> QED BY <1>1, Smallest
  <1>3. PICK s \in S : s[2] = n BY <1>2
  <1>4. \A t \in S : s[2] <= t[2] BY <1>2, <1>3
  <1> QED BY <1>3, <1>4 DEF FirstSpan

(* The spans of the citations, each from those before it *)
FreeSpans(refs, f, k) ==
  LET all == Matches(refs[k][1], refs[k][2])
      unused == all \ {f[j] : j \in 1..(k - 1)}
  IN IF unused # {} THEN unused ELSE all
Spans(refs, n, f) == f = [k \in 1..n |-> FirstSpan(FreeSpans(refs, f, k))]

LEMMA SpansExist ==
  ASSUME NEW refs, NEW n \in Nat
  PROVE  \E f : Spans(refs, n, f)
  <1> DEFINE T == {k \in Nat : \E f : Spans(refs, k, f)}
  <1>1. 0 \in T
    <2>1. Spans(refs, 0, <<>>) BY DEF Spans
    <2> QED BY <2>1
  <1>2. ASSUME NEW k \in Nat, k < n, k \in T PROVE k + 1 \in T
    <2>1. PICK f : Spans(refs, k, f) BY <1>2
    <2> DEFINE g == [j \in 1..(k + 1) |-> IF j = k + 1 THEN FirstSpan(FreeSpans(refs, f, k + 1)) ELSE f[j]]
    <2>2. \A j \in 1..k : f[j] = FirstSpan(FreeSpans(refs, f, j)) BY <2>1 DEF Spans
    <2>3. \A j \in 1..k : g[j] = f[j] BY <1>2
    <2>4. ASSUME NEW j \in 1..(k + 1) PROVE FreeSpans(refs, g, j) = FreeSpans(refs, f, j)
      <3>1. \A m \in 1..(j - 1) : m \in 1..k BY <1>2, <2>4
      <3>2. {g[m] : m \in 1..(j - 1)} = {f[m] : m \in 1..(j - 1)} BY <2>3, <3>1
      <3> QED BY <3>2 DEF FreeSpans
    <2>5. ASSUME NEW j \in 1..(k + 1) PROVE g[j] = FirstSpan(FreeSpans(refs, g, j))
      <3>1. CASE j = k + 1 BY <2>4, <3>1
      <3>2. CASE j # k + 1
        <4>1. j \in 1..k BY <1>2, <2>5, <3>2
        <4> QED BY <2>2, <2>3, <2>4, <4>1
      <3> QED BY <3>1, <3>2
    <2>6. Spans(refs, k + 1, g) BY <2>5 DEF Spans
    <2> QED BY <1>2, <2>6
  <1> HIDE DEF T
  <1>3. n \in T
    <2>1. \A k \in 0..n : k \in T BY <1>1, <1>2, Climb
    <2> QED BY <2>1
  <1> QED BY <1>3 DEF T

LEMMA ResolveIs ==
  ASSUME obs \in Inputs, NEW refs \in Seq(RefT),
         \A k \in 1..Len(refs) : Matches(refs[k][1], refs[k][2]) # {}
  PROVE  /\ Resolve(refs) \in Seq(SpanT) /\ Len(Resolve(refs)) = Len(refs)
         /\ \A k \in 1..Len(refs) : /\ Resolve(refs)[k] \in FreeSpans(refs, Resolve(refs), k)
                                    /\ Resolve(refs)[k] \in Matches(refs[k][1], refs[k][2])
  <1> DEFINE n == Len(refs)
             spans == CHOOSE f : Spans(refs, n, f)
  <1>1. n \in Nat OBVIOUS
  <1>2. Resolve(refs) = spans BY DEF Resolve, Spans, FreeSpans
  <1>3. Spans(refs, n, spans)
    <2>1. \E f : Spans(refs, n, f) BY <1>1, SpansExist
    <2> QED BY <2>1
  <1> HIDE DEF spans, n
  <1>4. ASSUME NEW k \in 1..n
        PROVE  /\ spans[k] \in FreeSpans(refs, spans, k) /\ spans[k] \in Matches(refs[k][1], refs[k][2])
               /\ spans[k] \in SpanT
    <2>1. refs[k][1] \in Obs /\ refs[k][2] \in Seq(Nat)
      <3>1. refs[k] \in RefT BY <1>4 DEF n
      <3> QED BY <3>1 DEF RefT
    <2>2. Matches(refs[k][1], refs[k][2]) \in SUBSET SpanT BY <2>1, MatchesIs
    <2>3. FreeSpans(refs, spans, k) \subseteq Matches(refs[k][1], refs[k][2]) BY DEF FreeSpans
    <2>4. FreeSpans(refs, spans, k) # {} BY <1>4 DEF FreeSpans, n
    <2>5. FirstSpan(FreeSpans(refs, spans, k)) \in FreeSpans(refs, spans, k) BY <2>2, <2>3, <2>4, FirstSpanIs
    <2>6. spans[k] = FirstSpan(FreeSpans(refs, spans, k)) BY <1>3, <1>4 DEF Spans
    <2> QED BY <2>2, <2>3, <2>5, <2>6
  <1>5. spans = [k \in 1..n |-> spans[k]] BY <1>3 DEF Spans
  <1>6. spans \in Seq(SpanT) /\ Len(spans) = n BY <1>1, <1>4, <1>5
  <1> QED BY <1>2, <1>4, <1>6 DEF n

(* The library's FlattenSeq, from the front *)
Flats(ss, n, f) == f = [k \in 1..n |-> IF k = 1 THEN ss[k] ELSE f[k - 1] \o ss[k]]

LEMMA FlatsExist ==
  ASSUME NEW ss, NEW n \in Nat
  PROVE  \E f : Flats(ss, n, f)
  <1> DEFINE T == {k \in Nat : \E f : Flats(ss, k, f)}
  <1>1. 0 \in T
    <2>1. Flats(ss, 0, <<>>) BY DEF Flats
    <2> QED BY <2>1
  <1>2. ASSUME NEW k \in Nat, k < n, k \in T PROVE k + 1 \in T
    <2>1. PICK f : Flats(ss, k, f) BY <1>2
    <2> DEFINE g == [j \in 1..(k + 1) |-> IF j = k + 1 THEN IF j = 1 THEN ss[j] ELSE f[j - 1] \o ss[j]
                                          ELSE f[j]]
    <2>2. \A j \in 1..k : f[j] = IF j = 1 THEN ss[j] ELSE f[j - 1] \o ss[j] BY <2>1 DEF Flats
    <2>3. ASSUME NEW j \in 1..(k + 1) PROVE g[j] = IF j = 1 THEN ss[j] ELSE g[j - 1] \o ss[j]
      <3>1. j # 1 => g[j - 1] = f[j - 1]
        <4>1. HAVE j # 1
        <4>2. j - 1 \in 1..(k + 1) /\ j - 1 # k + 1 BY <1>2, <2>3, <4>1
        <4> QED BY <4>2
      <3>2. CASE j = k + 1 BY <3>1, <3>2
      <3>3. CASE j # k + 1
        <4>1. j \in 1..k BY <1>2, <2>3, <3>3
        <4> QED BY <2>2, <3>1, <3>3, <4>1
      <3> QED BY <3>2, <3>3
    <2>4. Flats(ss, k + 1, g) BY <2>3 DEF Flats
    <2> QED BY <1>2, <2>4
  <1> HIDE DEF T
  <1>3. n \in T
    <2>1. \A k \in 0..n : k \in T BY <1>1, <1>2, Climb
    <2> QED BY <2>1
  <1> QED BY <1>3 DEF T

(* The first sequences, one after the other *)
Joined(ss, m) == FlattenSeq(SubSeq(ss, 1, m))

LEMMA JoinedIs ==
  ASSUME NEW ss \in Seq(Seq(RefT))
  PROVE  /\ Joined(ss, 0) = <<>> /\ Joined(ss, Len(ss)) = FlattenSeq(ss)
         /\ \A m \in Nat : m < Len(ss) => Joined(ss, m + 1) = Joined(ss, m) \o ss[m + 1]
  <1> DEFINE n == Len(ss)
             flat == CHOOSE f : Flats(ss, n, f)
  <1>1. n \in Nat OBVIOUS
  <1>2. Flats(ss, n, flat)
    <2>1. \E f : Flats(ss, n, f) BY <1>1, FlatsExist
    <2> QED BY <2>1
  <1> HIDE DEF flat
  <1>3. \A k \in 1..n : flat[k] = IF k = 1 THEN ss[k] ELSE flat[k - 1] \o ss[k] BY <1>2 DEF Flats
  <1>4. ASSUME NEW m \in 1..n PROVE Joined(ss, m) = flat[m]
    <2> DEFINE s == SubSeq(ss, 1, m)
               own == CHOOSE f : Flats(s, m, f)
    <2>1. m \in Nat /\ s \in Seq(Seq(RefT)) /\ Len(s) = m /\ (\A k \in 1..m : s[k] = ss[k]) /\ m # 0
      BY <1>1, <1>4
    <2>2. Flats(s, m, own)
      <3>1. \E f : Flats(s, m, f) BY <2>1, FlatsExist
      <3> QED BY <3>1
    <2>3. Joined(ss, m) = own[m] BY <2>1 DEF Joined, FlattenSeq, Flats
    <2> HIDE DEF own, s
    <2>4. \A k \in 1..m : own[k] = IF k = 1 THEN s[k] ELSE own[k - 1] \o s[k] BY <2>2 DEF Flats
    <2> DEFINE T == {k \in 0..m : k = 0 \/ own[k] = flat[k]}
    <2>5. 0 \in T BY <2>1
    <2>6. ASSUME NEW k \in Nat, k < m, k \in T PROVE k + 1 \in T
      <3>1. k + 1 \in 1..m /\ k + 1 \in 1..n /\ (k + 1) - 1 = k BY <1>1, <1>4, <2>1, <2>6
      <3>2. CASE k = 0
        <4>1. own[1] = s[1] /\ flat[1] = ss[1] BY <1>3, <2>4, <3>1, <3>2
        <4> QED BY <2>1, <3>1, <3>2, <4>1
      <3>3. CASE k # 0
        <4>1. k + 1 # 1 BY <2>6, <3>3
        <4>2. own[k + 1] = own[k] \o s[k + 1] BY <2>4, <3>1, <4>1
        <4>3. flat[k + 1] = flat[k] \o ss[k + 1] BY <1>3, <3>1, <4>1
        <4>4. own[k] = flat[k] BY <2>6, <3>3
        <4>5. s[k + 1] = ss[k + 1] BY <2>1, <3>1
        <4>6. own[k + 1] = flat[k + 1] BY <4>2, <4>3, <4>4, <4>5
        <4>7. k + 1 \in 0..m BY <2>1, <3>1
        <4> QED BY <4>6, <4>7
      <3> QED BY <3>2, <3>3
    <2> HIDE DEF T
    <2>7. \A k \in 0..m : k \in T BY <2>1, <2>5, <2>6, Climb
    <2>8. m \in T BY <2>1, <2>7
    <2> QED BY <2>1, <2>3, <2>8 DEF T
  <1>5. Joined(ss, 0) = <<>>
    <2>1. SubSeq(ss, 1, 0) = <<>> OBVIOUS
    <2> QED BY <2>1 DEF Joined, FlattenSeq
  <1>6. Joined(ss, n) = FlattenSeq(ss)
    <2>1. SubSeq(ss, 1, n) = ss OBVIOUS
    <2> HIDE DEF n
    <2> QED BY <2>1 DEF Joined
  <1>7. ASSUME NEW m \in Nat, m < n PROVE Joined(ss, m + 1) = Joined(ss, m) \o ss[m + 1]
    <2>1. m + 1 \in 1..n /\ (m + 1) - 1 = m BY <1>1, <1>7
    <2>2. CASE m = 0
      <3>1. Joined(ss, 1) = ss[1] BY <1>3, <1>4, <2>1, <2>2
      <3>2. ss[1] \in Seq(RefT) BY <2>1, <2>2
      <3>3. <<>> \o ss[1] = ss[1] BY <3>2
      <3>4. m + 1 = 1 BY <2>2
      <3>5. Joined(ss, m) \o ss[m + 1] = ss[1] BY <1>5, <2>2, <3>3, <3>4
      <3> QED BY <3>1, <3>4, <3>5
    <2>3. CASE m # 0
      <3>1. m \in 1..n /\ m + 1 # 1 BY <1>1, <1>7, <2>3
      <3> HIDE DEF n
      <3>2. Joined(ss, m + 1) = flat[m + 1] /\ Joined(ss, m) = flat[m] BY <1>4, <2>1, <3>1
      <3>3. flat[m + 1] = flat[m] \o ss[m + 1] BY <1>3, <2>1, <3>1
      <3> QED BY <3>2, <3>3
    <2> QED BY <2>2, <2>3
  <1> QED BY <1>5, <1>6, <1>7

LEMMA JoinIs ==
  ASSUME NEW R, NEW a \in Seq(R), NEW b \in Seq(R)
  PROVE  /\ a \o b \in Seq(R) /\ Len(a \o b) = Len(a) + Len(b) /\ Len(a) \in Nat /\ Len(b) \in Nat
         /\ \A i \in 1..Len(a) : (a \o b)[i] = a[i]
         /\ \A i \in 1..Len(b) : (a \o b)[Len(a) + i] = b[i]
  <1>1. /\ a \o b \in Seq(R) /\ Len(a \o b) = Len(a) + Len(b) /\ Len(a) \in Nat /\ Len(b) \in Nat
    OBVIOUS
  <1>2. \A i \in 1..Len(a) : (a \o b)[i] = a[i] OBVIOUS
  <1>3. \A i \in 1..Len(b) : (a \o b)[Len(a) + i] = b[i] OBVIOUS
  <1> QED BY <1>1, <1>2, <1>3

(* In sequences that grow at their end, what was appended stays in place. *)
Growing(F, ss, n, R) ==
  /\ n \in Nat /\ F[0] \in Seq(R) /\ \A m \in 1..n : ss[m] \in Seq(R)
  /\ \A m \in Nat : m < n => F[m + 1] = F[m] \o ss[m + 1]

Placed(F, ss, n, k) ==
  /\ Len(F[k - 1]) + Len(ss[k]) <= Len(F[n])
  /\ \A j \in 1..Len(ss[k]) : F[n][Len(F[k - 1]) + j] = ss[k][j]

LEMMA GrowingKeeps ==
  ASSUME NEW R, NEW n, NEW ss, NEW F, Growing(F, ss, n, R), NEW k \in 1..n
  PROVE  (\A m \in 0..n : F[m] \in Seq(R)) /\ Placed(F, ss, n, k)
  <1> USE DEF Growing
  <1>1. k \in Nat /\ k - 1 \in Nat /\ k - 1 \in 0..n OBVIOUS
  <1>3. \A m \in 0..n : F[m] \in Seq(R)
    <2> DEFINE T == {m \in 0..n : F[m] \in Seq(R)}
    <2>1. 0 \in T OBVIOUS
    <2>2. ASSUME NEW m \in Nat, m < n, m \in T PROVE m + 1 \in T
      <3>1. m + 1 \in 1..n /\ m + 1 \in 0..n BY <2>2
      <3>2. ss[m + 1] \in Seq(R) /\ F[m] \in Seq(R) BY <2>2, <3>1
      <3>4. F[m + 1] = F[m] \o ss[m + 1]
        <4> HIDE DEF T
        <4> QED BY <2>2
      <3>3. F[m] \o ss[m + 1] \in Seq(R) BY <3>2, JoinIs
      <3> QED BY <3>1, <3>3, <3>4
    <2> HIDE DEF T
    <2>3. \A m \in 0..n : m \in T BY <2>1, <2>2, Climb
    <2> QED BY <2>3 DEF T
  <1> DEFINE from == Len(F[k - 1])
             own == Len(ss[k])
             U == {m \in 0..n : m >= k => /\ from + own <= Len(F[m])
                                          /\ \A j \in 1..own : F[m][from + j] = ss[k][j]}
  <1>4. from \in Nat /\ own \in Nat
    <2>1. F[k - 1] \in Seq(R) /\ ss[k] \in Seq(R) BY <1>1, <1>3
    <2> QED BY <2>1, JoinIs
  <1> HIDE DEF from, own
  <1>5. 0 \in U BY <1>1
  <1>6. ASSUME NEW m \in Nat, m < n, m \in U PROVE m + 1 \in U
    <2> DEFINE a == F[m]
               b == ss[m + 1]
    <2>1. m + 1 \in 0..n /\ m + 1 \in 1..n /\ m \in 0..n BY <1>6
    <2>2. F[m + 1] = a \o b /\ a \in Seq(R) /\ b \in Seq(R) BY <1>3, <1>6, <2>1
    <2>3. m >= k => from + own <= Len(a) /\ \A j \in 1..own : a[from + j] = ss[k][j] BY <1>6
    <2>4. m + 1 = k => from = Len(a) /\ own = Len(b) /\ b = ss[k]
      <3>1. m + 1 = k => m = k - 1 BY <1>6
      <3> QED BY <3>1 DEF from, own
    <2> HIDE DEF a, b
    <2>5. /\ Len(a \o b) = Len(a) + Len(b) /\ Len(a) \in Nat /\ Len(b) \in Nat
          /\ \A i \in 1..Len(a) : (a \o b)[i] = a[i]
          /\ \A i \in 1..Len(b) : (a \o b)[Len(a) + i] = b[i]
      BY <2>2, JoinIs
    <2>6. m + 1 < k \/ m + 1 = k \/ m >= k BY <1>6
    <2>7. m + 1 >= k => from + own <= Len(a \o b) BY <1>4, <1>6, <2>3, <2>4, <2>5, <2>6
    <2>8. ASSUME m + 1 >= k, NEW j \in 1..own PROVE (a \o b)[from + j] = ss[k][j]
      <3>1. CASE m + 1 = k BY <2>4, <2>5, <2>8, <3>1
      <3>2. CASE m >= k
        <4>1. from + j \in 1..Len(a) BY <1>4, <2>3, <2>5, <2>8, <3>2
        <4> QED BY <2>3, <2>5, <2>8, <3>2, <4>1
      <3>3. m + 1 = k \/ m >= k BY <1>1, <1>6, <2>6, <2>8
      <3> QED BY <3>1, <3>2, <3>3
    <2> QED BY <2>1, <2>2, <2>7, <2>8
  <1> HIDE DEF U
  <1>7. \A m \in 0..n : m \in U BY <1>5, <1>6, Climb
  <1>8. n \in U /\ n >= k BY <1>7
  <1>9. from + own <= Len(F[n]) /\ \A j \in 1..own : F[n][from + j] = ss[k][j] BY <1>8 DEF U
  <1> QED BY <1>3, <1>9 DEF from, own, Placed

LEMMA JoinedAt ==
  ASSUME NEW ss \in Seq(Seq(RefT)), NEW k \in 1..Len(ss)
  PROVE  /\ Joined(ss, k - 1) \in Seq(RefT) /\ FlattenSeq(ss) \in Seq(RefT)
         /\ Len(Joined(ss, k - 1)) + Len(ss[k]) <= Len(FlattenSeq(ss))
         /\ \A j \in 1..Len(ss[k]) : FlattenSeq(ss)[Len(Joined(ss, k - 1)) + j] = ss[k][j]
  <1> DEFINE n == Len(ss)
             F == [m \in 0..n |-> Joined(ss, m)]
  <1>1. n \in Nat /\ k \in 1..n /\ \A m \in 1..n : ss[m] \in Seq(RefT) OBVIOUS
  <1>2. /\ Joined(ss, 0) = <<>> /\ Joined(ss, n) = FlattenSeq(ss)
        /\ \A m \in Nat : m < n => Joined(ss, m + 1) = Joined(ss, m) \o ss[m + 1]
    BY JoinedIs
  <1> HIDE DEF n
  <1>3. \A m \in 0..n : F[m] = Joined(ss, m) OBVIOUS
  <1>4. \A m \in Nat : m < n => m \in 0..n /\ m + 1 \in 0..n BY <1>1
  <1>5. 0 \in 0..n /\ n \in 0..n /\ k - 1 \in 0..n BY <1>1
  <1> HIDE DEF F
  <1>6. F[0] \in Seq(RefT) /\ \A m \in Nat : m < n => F[m + 1] = F[m] \o ss[m + 1]
    <2>1. <<>> \in Seq(RefT) OBVIOUS
    <2>2. F[0] \in Seq(RefT) BY <1>2, <1>3, <1>5, <2>1
    <2>3. \A m \in Nat : m < n => F[m + 1] = F[m] \o ss[m + 1] BY <1>2, <1>3, <1>4
    <2> QED BY <2>2, <2>3
  <1>7. /\ \A m \in 0..n : F[m] \in Seq(RefT)
        /\ Len(F[k - 1]) + Len(ss[k]) <= Len(F[n])
        /\ \A j \in 1..Len(ss[k]) : F[n][Len(F[k - 1]) + j] = ss[k][j]
    <2>1. Growing(F, ss, n, RefT) BY <1>1, <1>6 DEF Growing
    <2>2. (\A m \in 0..n : F[m] \in Seq(RefT)) /\ Placed(F, ss, n, k) BY <1>1, <2>1, GrowingKeeps
    <2> QED BY <2>2 DEF Placed
  <1> QED BY <1>2, <1>3, <1>5, <1>7

-----------------------------------------------------------------------------
(* Grounded answers *)

OccurrenceT == [src : Seq(RefT), ctx : Seq(RefT)]

(* Where the sources of an occurrence are among the citations *)
LEMMA AnswerIs ==
  ASSUME NEW answer \in Seq(OccurrenceT), NEW k \in 1..Len(answer)
  PROVE  /\ Refs(answer) \in Seq(RefT)
         /\ Len(Refs(SubSeq(answer, 1, k - 1))) \in Nat
         /\ Len(Refs(SubSeq(answer, 1, k - 1))) + Len(answer[k].src) <= Len(Refs(answer))
         /\ \A n \in 1..Len(answer[k].src) :
              Refs(answer)[Len(Refs(SubSeq(answer, 1, k - 1))) + n] = answer[k].src[n]
  <1> DEFINE ss == [j \in DOMAIN answer |-> answer[j].src \o answer[j].ctx]
             n == Len(answer)
             before == SubSeq(answer, 1, k - 1)
  <1>1. /\ DOMAIN answer = 1..n /\ n \in Nat /\ k \in 1..n /\ k - 1 \in 0..n
        /\ \A j \in 1..n : answer[j].src \in Seq(RefT) /\ answer[j].ctx \in Seq(RefT)
    <2>1. DOMAIN answer = 1..n /\ n \in Nat /\ k \in 1..n OBVIOUS
    <2>2. \A j \in 1..n : answer[j] \in OccurrenceT BY <2>1
    <2>3. \A j \in 1..n : answer[j].src \in Seq(RefT) /\ answer[j].ctx \in Seq(RefT)
      BY <2>2 DEF OccurrenceT
    <2> HIDE DEF n
    <2> QED BY <2>1, <2>3
  <1>2. ss \in Seq(Seq(RefT)) /\ Len(ss) = n /\ \A j \in 1..n : ss[j] = answer[j].src \o answer[j].ctx
    <2>1. \A j \in 1..n : answer[j].src \o answer[j].ctx \in Seq(RefT) BY <1>1, JoinIs
    <2>2. ss = [j \in 1..n |-> ss[j]] BY <1>1
    <2>3. \A j \in 1..n : ss[j] = answer[j].src \o answer[j].ctx BY <1>1
    <2>4. \A j \in 1..n : ss[j] \in Seq(RefT) BY <2>1, <2>3
    <2> HIDE DEF n, ss
    <2>5. ss \in Seq(Seq(RefT)) /\ Len(ss) = n
      <3> DEFINE R == Seq(RefT)
      <3>1. \A j \in 1..n : ss[j] \in R BY <2>4
      <3> HIDE DEF R
      <3>2. ss \in Seq(R) /\ Len(ss) = n BY <1>1, <2>2, <3>1
      <3> QED BY <3>2 DEF R
    <2> QED BY <2>3, <2>5
  <1>3. Refs(answer) = FlattenSeq(ss) BY DEF Refs
  <1>4. Refs(before) = Joined(ss, k - 1)
    <2>1. before \in Seq(OccurrenceT) /\ Len(before) = k - 1 /\ DOMAIN before = 1..(k - 1)
          /\ \A j \in 1..(k - 1) : before[j] = answer[j]
      BY <1>1
    <2> DEFINE b == [j \in DOMAIN before |-> before[j].src \o before[j].ctx]
               f == SubSeq(ss, 1, k - 1)
    <2>2. Refs(before) = FlattenSeq(b) BY DEF Refs
    <2> HIDE DEF before, ss, n
    <2>3. f = [j \in 1..(k - 1) |-> ss[j]]
      <3>1. f \in Seq(Seq(RefT)) /\ Len(f) = k - 1 /\ \A j \in 1..(k - 1) : f[j] = ss[j]
        BY <1>1, <1>2
      <3> HIDE DEF f
      <3>2. f = [j \in 1..Len(f) |-> f[j]] BY <3>1
      <3> QED BY <3>1, <3>2
    <2>4. \A j \in 1..(k - 1) : j \in 1..n BY <1>1
    <2>5. b = [j \in 1..(k - 1) |-> ss[j]] BY <1>2, <2>1, <2>4
    <2>6. b = f BY <2>3, <2>5
    <2> QED BY <2>2, <2>6 DEF Joined
  <1> HIDE DEF ss, before, n
  <1>5. /\ Joined(ss, k - 1) \in Seq(RefT) /\ FlattenSeq(ss) \in Seq(RefT)
        /\ Len(Joined(ss, k - 1)) + Len(ss[k]) <= Len(FlattenSeq(ss))
        /\ \A j \in 1..Len(ss[k]) : FlattenSeq(ss)[Len(Joined(ss, k - 1)) + j] = ss[k][j]
    BY <1>1, <1>2, JoinedAt
  <1> DEFINE src == answer[k].src
             ctx == answer[k].ctx
             from == Len(Joined(ss, k - 1))
  <1>6. /\ Len(ss[k]) = Len(src) + Len(ctx) /\ Len(src) \in Nat /\ Len(ctx) \in Nat
        /\ \A j \in 1..Len(src) : ss[k][j] = src[j]
    <2>1. src \in Seq(RefT) /\ ctx \in Seq(RefT) /\ ss[k] = src \o ctx BY <1>1, <1>2
    <2> HIDE DEF src, ctx
    <2> QED BY <2>1, JoinIs
  <1>7. from \in Nat /\ Len(FlattenSeq(ss)) \in Nat BY <1>5
  <1> DEFINE all == FlattenSeq(ss)
  <1>10. from + Len(ss[k]) <= Len(all) /\ \A j \in 1..Len(ss[k]) : all[from + j] = ss[k][j] BY <1>5
  <1> HIDE DEF src, ctx, from, all
  <1>8. from + Len(src) <= Len(all) BY <1>6, <1>7, <1>10 DEF all
  <1>9. ASSUME NEW j \in 1..Len(src) PROVE all[from + j] = src[j]
    <2>1. j \in 1..Len(ss[k]) BY <1>6, <1>9
    <2> QED BY <1>6, <1>9, <1>10, <2>1
  <1> QED BY <1>3, <1>4, <1>5, <1>7, <1>8, <1>9 DEF before, src, from, all

LEMMA RangeFinite ==
  ASSUME NEW R, NEW s \in Seq(R)
  PROVE  IsFiniteSet(Range(s)) /\ Range(s) = {s[n] : n \in 1..Len(s)}
  <1>1. DOMAIN s = 1..Len(s) /\ Len(s) \in Nat OBVIOUS
  <1>2. Range(s) = {s[n] : n \in 1..Len(s)} BY <1>1 DEF Range
  <1> DEFINE f == [n \in 1..Len(s) |-> s[n]]
  <1>3. f \in Surjection(1..Len(s), Range(s)) BY <1>1, <1>2 DEF Surjection
  <1>4. IsFiniteSet(1..Len(s)) BY <1>1, FS_Interval
  <1>5. IsFiniteSet(Range(s)) BY <1>3, <1>4, FS_Surjection
  <1> QED BY <1>2, <1>5

(* What a completion may say *)
Sayable(answer) ==
  /\ answer \in Seq(OccurrenceT)
  /\ \A k \in 1..Len(answer) : /\ answer[k].src # <<>>
                                /\ \A ref \in Range(answer[k].src \o answer[k].ctx) : ref[2] # <<>>

LEMMA AnswersSayable ==
  ASSUME NEW answer \in Answers
  PROVE  Sayable(answer)
  <1>1. answer \in Seq(OccurrenceT) BY ClaimsAssumption DEF OccurrenceT, RefT
  <1>2. ASSUME NEW k \in 1..Len(answer)
        PROVE  answer[k].src # <<>> /\ \A ref \in Range(answer[k].src \o answer[k].ctx) : ref[2] # <<>>
    <2>1. answer[k] \in Range(answer) BY <1>1, <1>2 DEF Range
    <2> QED BY <2>1, ClaimsAssumption
  <1> QED BY <1>1, <1>2 DEF Sayable

(* The spans of the sources of an occurrence *)
LEMMA SourceIs ==
  ASSUME obs \in Inputs, NEW answer, Sayable(answer), NEW w, Quotable(w, Refs(answer)),
         NEW k \in DOMAIN answer
  PROVE  LET src == Resolved(answer)[k].src IN
         /\ DOMAIN Resolved(answer) = DOMAIN answer
         /\ src \in Seq(SpanT) /\ Len(src) = Len(answer[k].src) /\ Len(src) >= 1
         /\ \A n \in 1..Len(src) :
              /\ src[n] = Resolve(Refs(answer))[Len(Refs(SubSeq(answer, 1, k - 1))) + n]
              /\ Within(src[n]) /\ src[n][1] \in InWindow(w)
  <1> DEFINE refs == Refs(answer)
             spans == Resolve(refs)
             from == Len(Refs(SubSeq(answer, 1, k - 1)))
             own == answer[k].src
             src == SubSeq(spans, from + 1, from + Len(own))
  <1>1. /\ answer \in Seq(OccurrenceT) /\ k \in 1..Len(answer)
        /\ own # <<>> /\ \A ref \in Range(own \o answer[k].ctx) : ref[2] # <<>>
    <2>1. answer \in Seq(OccurrenceT) BY DEF Sayable
    <2>2. k \in 1..Len(answer) BY <2>1
    <2> QED BY <2>1, <2>2 DEF Sayable
  <1>2. Resolved(answer)[k].src = src /\ DOMAIN Resolved(answer) = DOMAIN answer BY DEF Resolved
  <1>3. /\ refs \in Seq(RefT) /\ from \in Nat /\ from + Len(own) <= Len(refs)
        /\ \A n \in 1..Len(own) : refs[from + n] = own[n]
    BY <1>1, AnswerIs
  <1>4. own \in Seq(RefT) /\ answer[k].ctx \in Seq(RefT) /\ Len(own) \in Nat /\ Len(own) >= 1
    <2>1. answer[k] \in OccurrenceT BY <1>1
    <2>2. own \in Seq(RefT) /\ answer[k].ctx \in Seq(RefT) BY <2>1 DEF OccurrenceT
    <2> HIDE DEF own
    <2> QED BY <1>1, <2>2
  <1>5. \A n \in 1..Len(own) : own[n][2] # <<>>
    <2>1. TAKE n \in 1..Len(own)
    <2> DEFINE both == own \o answer[k].ctx
    <2>2. both[n] = own[n] /\ both \in Seq(RefT) /\ Len(both) = Len(own) + Len(answer[k].ctx)
          /\ Len(answer[k].ctx) \in Nat
      <3> HIDE DEF own
      <3> QED BY <1>4, <2>1, JoinIs
    <2>3. n \in DOMAIN both
      <3> HIDE DEF both, own
      <3> QED BY <1>4, <2>1, <2>2
    <2>4. both[n] \in Range(both) BY <2>3 DEF Range
    <2> HIDE DEF own
    <2> QED BY <1>1, <2>2, <2>4
  <1> HIDE DEF refs, from, own
  <1>6. \A j \in 1..Len(refs) : refs[j][1] \in InWindow(w) /\ Matches(refs[j][1], refs[j][2]) # {}
    BY <1>3 DEF Quotable, refs
  <1>7. /\ spans \in Seq(SpanT) /\ Len(spans) = Len(refs)
        /\ \A j \in 1..Len(refs) : spans[j] \in Matches(refs[j][1], refs[j][2])
    BY <1>3, <1>6, ResolveIs
  <1> HIDE DEF spans
  <1>8. Len(refs) \in Nat BY <1>3
  <1>9. src \in Seq(SpanT) /\ Len(src) = Len(own) /\ \A n \in 1..Len(own) : src[n] = spans[from + n]
    <2>1. \A n \in 1..Len(own) : from + n \in 1..Len(spans) BY <1>3, <1>4, <1>7, <1>8
    <2>2. from + 1 \in Nat /\ from + Len(own) \in Nat /\ from + 1 >= 1
          /\ 1 + (from + Len(own)) - (from + 1) = Len(own)
      BY <1>3, <1>4
    <2>3. src = [n \in 1..Len(own) |-> spans[n + (from + 1) - 1]] BY <1>3, <1>4, <1>7, <2>2
    <2>4. \A n \in 1..Len(own) : n + (from + 1) - 1 = from + n BY <1>3, <1>4
    <2>5. \A n \in 1..Len(own) : spans[from + n] \in SpanT BY <1>7, <2>1
    <2>6. src = [n \in 1..Len(own) |-> src[n]] /\ \A n \in 1..Len(own) : src[n] = spans[from + n]
      <3> HIDE DEF src
      <3> QED BY <2>3, <2>4
    <2> HIDE DEF src
    <2> QED BY <1>4, <2>5, <2>6
  <1> HIDE DEF src
  <1>10. ASSUME NEW n \in 1..Len(own) PROVE Within(src[n]) /\ src[n][1] \in InWindow(w)
    <2>1. from + n \in 1..Len(refs) BY <1>3, <1>4, <1>8, <1>10
    <2>2. own[n] \in RefT /\ refs[from + n] = own[n] BY <1>3, <1>4, <1>10
    <2>3. own[n][1] \in Obs /\ own[n][2] \in Seq(Nat) /\ own[n][2] # <<>> BY <1>5, <1>10, <2>2 DEF RefT
    <2>4. src[n] \in Matches(own[n][1], own[n][2]) BY <1>7, <1>9, <1>10, <2>1, <2>2
    <2>5. Within(src[n]) /\ src[n][1] = own[n][1] BY <2>3, <2>4, MatchesIs
    <2> QED BY <1>6, <2>1, <2>2, <2>5
  <1> QED BY <1>2, <1>4, <1>9, <1>10 DEF refs, from, own, spans

-----------------------------------------------------------------------------
(* A quote cited several times *)

LEMMA Copies ==
  ASSUME NEW ref \in RefT, NEW n \in Nat
  PROVE  FlattenSeq([k \in 1..n |-> <<ref>>]) = [k \in 1..n |-> ref]
  <1> DEFINE ss == [k \in 1..n |-> <<ref>>]
             T == {m \in 0..n : Joined(ss, m) = [k \in 1..m |-> ref]}
  <1>1. ss \in Seq(Seq(RefT)) /\ Len(ss) = n /\ \A k \in 1..n : ss[k] = <<ref>>
    <2>1. <<ref>> \in Seq(RefT) OBVIOUS
    <2> DEFINE R == Seq(RefT)
               one == <<ref>>
    <2>2. one \in R BY <2>1
    <2> HIDE DEF R, one
    <2>3. [k \in 1..n |-> one] \in Seq(R) /\ Len([k \in 1..n |-> one]) = n BY <2>2
    <2> QED BY <2>3 DEF R, one
  <1> HIDE DEF ss
  <1>2. /\ Joined(ss, 0) = <<>> /\ Joined(ss, n) = FlattenSeq(ss)
        /\ \A m \in Nat : m < n => Joined(ss, m + 1) = Joined(ss, m) \o ss[m + 1]
    BY <1>1, JoinedIs
  <1>3. 0 \in T
    <2>1. [k \in 1..0 |-> ref] = <<>> OBVIOUS
    <2>2. Joined(ss, 0) = [k \in 1..0 |-> ref]
      <3> HIDE DEF T
      <3> QED BY <1>2, <2>1
    <2>3. 0 \in 0..n OBVIOUS
    <2> QED BY <2>2, <2>3, Zenon
  <1>4. ASSUME NEW m \in Nat, m < n, m \in T PROVE m + 1 \in T
    <2>1. m + 1 \in 0..n /\ m + 1 \in 1..n BY <1>4
    <2>2. Joined(ss, m + 1) = [k \in 1..m |-> ref] \o <<ref>> BY <1>1, <1>2, <1>4, <2>1
    <2>3. [k \in 1..m |-> ref] \o <<ref>> = [k \in 1..(m + 1) |-> ref]
      <3> DEFINE a == [k \in 1..m |-> ref]
                 b == <<ref>>
      <3>1. a \in Seq(RefT) /\ Len(a) = m /\ b \in Seq(RefT) /\ Len(b) = 1 /\ b[1] = ref
            /\ \A k \in 1..m : a[k] = ref
        BY <1>4
      <3> HIDE DEF a, b
      <3>2. /\ a \o b \in Seq(RefT) /\ Len(a \o b) = m + 1
            /\ \A k \in 1..m : (a \o b)[k] = ref
            /\ (a \o b)[m + 1] = ref
        BY <3>1, JoinIs
      <3> DEFINE c == a \o b
      <3>3. \A k \in 1..(m + 1) : k \in 1..m \/ k = m + 1 BY <1>4
      <3> HIDE DEF c
      <3>7. c \in Seq(RefT) /\ Len(c) = m + 1 BY <3>2 DEF c
      <3>4. c = [k \in 1..(m + 1) |-> c[k]]
        <4>1. c = [k \in 1..Len(c) |-> c[k]] BY <3>7
        <4> QED BY <3>7, <4>1
      <3>5. \A k \in 1..(m + 1) : c[k] = ref BY <3>2, <3>3 DEF c
      <3>6. c = [k \in 1..(m + 1) |-> ref] BY <3>4, <3>5
      <3> QED BY <3>6 DEF a, b, c
    <2> QED BY <2>1, <2>2, <2>3
  <1> HIDE DEF T
  <1>5. n \in T
    <2>1. \A m \in 0..n : m \in T BY <1>3, <1>4, Climb
    <2> QED BY <2>1
  <1>6. FlattenSeq(ss) = [k \in 1..n |-> ref] BY <1>2, <1>5 DEF T
  <1> QED BY <1>6 DEF ss

LEMMA CopiesRefs ==
  ASSUME NEW o \in OccurrenceT, o.ctx = <<>>, Len(o.src) = 1, NEW n \in Nat
  PROVE  /\ o.src[1] \in RefT /\ [k \in 1..n |-> o] \in Seq(OccurrenceT)
         /\ Len([k \in 1..n |-> o]) = n
         /\ Refs([k \in 1..n |-> o]) = [k \in 1..n |-> o.src[1]]
         /\ \A k \in 1..n : Len(Refs(SubSeq([j \in 1..n |-> o], 1, k - 1))) = k - 1
  <1>1. o.src \in Seq(RefT) BY DEF OccurrenceT
  <1>2. o.src[1] \in RefT BY <1>1
  <1>3. o.src \o o.ctx = <<o.src[1]>>
    <2> DEFINE s == o.src
    <2>1. s \o <<>> = s /\ s = <<s[1]>> BY <1>1
    <2> QED BY <2>1
  <1>4. \A m \in Nat : Refs([k \in 1..m |-> o]) = [k \in 1..m |-> o.src[1]]
    <2>1. TAKE m \in Nat
    <2> DEFINE a == [k \in 1..m |-> o]
    <2>2. Refs(a) = FlattenSeq([k \in 1..m |-> <<o.src[1]>>])
      <3>1. Refs(a) = FlattenSeq([k \in DOMAIN a |-> a[k].src \o a[k].ctx]) BY DEF Refs
      <3>2. DOMAIN a = 1..m /\ \A k \in 1..m : a[k].src \o a[k].ctx = <<o.src[1]>> BY <1>3
      <3>3. [k \in DOMAIN a |-> a[k].src \o a[k].ctx] = [k \in 1..m |-> <<o.src[1]>>] BY <3>2
      <3> HIDE DEF a
      <3> QED BY <3>1, <3>3
    <2> HIDE DEF a
    <2>3. FlattenSeq([k \in 1..m |-> <<o.src[1]>>]) = [k \in 1..m |-> o.src[1]] BY <1>2, <2>1, Copies
    <2> QED BY <2>2, <2>3 DEF a
  <1>5. [k \in 1..n |-> o] \in Seq(OccurrenceT) /\ Len([k \in 1..n |-> o]) = n
    <2> DEFINE R == OccurrenceT
    <2>1. o \in R OBVIOUS
    <2> HIDE DEF R
    <2>2. [k \in 1..n |-> o] \in Seq(R) /\ Len([k \in 1..n |-> o]) = n BY <2>1
    <2> QED BY <2>2 DEF R
  <1>6. ASSUME NEW k \in 1..n PROVE Len(Refs(SubSeq([j \in 1..n |-> o], 1, k - 1))) = k - 1
    <2> DEFINE a == [j \in 1..n |-> o]
               m == k - 1
    <2>1. m \in Nat /\ m <= n BY <1>6
    <2> HIDE DEF m
    <2>2. SubSeq(a, 1, m) = [j \in 1..m |-> o] BY <2>1
    <2>3. Refs(SubSeq(a, 1, m)) = [j \in 1..m |-> o.src[1]]
      <3> HIDE DEF a
      <3> QED BY <1>4, <2>1, <2>2
    <2>4. Len([j \in 1..m |-> o.src[1]]) = m BY <2>1
    <2> HIDE DEF a
    <2> QED BY <2>3, <2>4 DEF m, a
  <1> QED BY <1>2, <1>4, <1>5, <1>6

-----------------------------------------------------------------------------
(* The order of claims *)

(* The values of a function on a finite set are bounded. *)
LEMMA Bounded ==
  ASSUME NEW S, IsFiniteSet(S), NEW f \in [S -> Nat]
  PROVE  \E b \in Nat : \A x \in S : f[x] <= b
  <1>1. PICK n \in Nat : \E g : g \in Surjection(1..n, S) BY FS_NatSurjection DEF ExistsSurjection
  <1>2. PICK g : g \in Surjection(1..n, S) BY <1>1
  <1>3. g \in [1..n -> S] /\ \A x \in S : \E j \in 1..n : g[j] = x BY <1>2 DEF Surjection
  <1> DEFINE T == {k \in 0..n : \E b \in Nat : \A j \in 1..k : f[g[j]] <= b}
  <1>4. 0 \in T
    <2>1. 0 \in 0..n /\ \A j \in 1..0 : f[g[j]] <= 0 OBVIOUS
    <2> QED BY <2>1
  <1>5. ASSUME NEW k \in Nat, k < n, k \in T PROVE k + 1 \in T
    <2>1. PICK b \in Nat : \A j \in 1..k : f[g[j]] <= b BY <1>5
    <2>2. k + 1 \in 1..n /\ k + 1 \in 0..n BY <1>5
    <2>3. f[g[k + 1]] \in Nat BY <1>3, <2>2
    <2>4. PICK c \in Nat : b <= c /\ f[g[k + 1]] <= c
      <3>1. b + f[g[k + 1]] \in Nat /\ b <= b + f[g[k + 1]] /\ f[g[k + 1]] <= b + f[g[k + 1]]
        BY <2>1, <2>3
      <3> QED BY <3>1
    <2>5. ASSUME NEW j \in 1..(k + 1) PROVE f[g[j]] <= c
      <3>1. CASE j = k + 1 BY <2>4, <3>1
      <3>2. CASE j # k + 1
        <4>1. j \in 1..k /\ j \in 1..n BY <1>5, <2>5, <3>2
        <4>2. f[g[j]] \in Nat /\ f[g[j]] <= b BY <1>3, <2>1, <4>1
        <4> QED BY <2>1, <2>4, <4>2
      <3> QED BY <3>1, <3>2
    <2> QED BY <2>2, <2>4, <2>5
  <1> HIDE DEF T
  <1>6. n \in T
    <2>1. \A k \in 0..n : k \in T BY <1>4, <1>5, Climb
    <2> QED BY <2>1
  <1>7. PICK b \in Nat : \A j \in 1..n : f[g[j]] <= b BY <1>6 DEF T
  <1>8. \A x \in S : f[x] <= b BY <1>3, <1>7
  <1> QED BY <1>8

(* Spans said somewhere: what a claim is *)
Said(c) == c # {} /\ c \in SUBSET SpanT /\ IsFiniteSet(c) /\ \A s \in c : s[2] < s[3]

Offset(c) == Min({s[2] : s \in c})

LEMMA TimesIs ==
  ASSUME NEW c, Said(c)
  PROVE  /\ Start(c) \in Nat /\ End(c) \in Nat /\ Offset(c) \in Nat /\ Start(c) < End(c)
         /\ Start(c) \in {Times[s[1]][1] : s \in c}
         /\ Offset(c) < Max({s[3] : s \in c})
         /\ Max({s[3] : s \in c}) \in Nat
  <1>1. c # {} /\ c \in SUBSET SpanT /\ IsFiniteSet(c) /\ \A s \in c : s[2] < s[3] BY DEF Said
  <1>2. \A s \in c : s[1] \in Obs /\ s[2] \in Nat /\ s[3] \in Nat BY <1>1 DEF SpanT
  <1>3. \A s \in c : /\ Times[s[1]][1] \in Nat /\ Times[s[1]][2] \in Nat
                     /\ Times[s[1]][1] < Times[s[1]][2]
    BY <1>2, ClaimsAssumption
  <1> DEFINE starts == {Times[s[1]][1] : s \in c}
             ends == {Times[s[1]][2] : s \in c}
             from == {s[2] : s \in c}
             to == {s[3] : s \in c}
  <1>4. starts \in SUBSET Nat /\ starts # {} /\ ends \in SUBSET Nat /\ ends # {} BY <1>1, <1>3
  <1>5. from \in SUBSET Nat /\ from # {} /\ to \in SUBSET Nat /\ to # {} BY <1>1, <1>2
  <1>6. PICK b \in Nat : \A e \in ends : e <= b
    <2> DEFINE f == [s \in c |-> Times[s[1]][2]]
    <2>1. f \in [c -> Nat] BY <1>3
    <2>2. PICK b \in Nat : \A s \in c : f[s] <= b
      <3> HIDE DEF f
      <3> QED BY <1>1, <2>1, Bounded
    <2> QED BY <2>2
  <1>7. PICK d \in Nat : \A e \in to : e <= d
    <2> DEFINE f == [s \in c |-> s[3]]
    <2>1. f \in [c -> Nat] BY <1>2
    <2>2. PICK d \in Nat : \A s \in c : f[s] <= d
      <3> HIDE DEF f
      <3> QED BY <1>1, <2>1, Bounded
    <2> QED BY <2>2
  <1> HIDE DEF starts, ends, from, to
  <1>8. Min(starts) \in starts /\ \A y \in starts : Min(starts) <= y BY <1>4, MinIs
  <1>9. Max(ends) \in ends /\ \A y \in ends : y <= Max(ends) BY <1>4, <1>6, MaxIs
  <1>10. Min(from) \in from BY <1>5, MinIs
  <1>11. Max(to) \in to /\ \A y \in to : y <= Max(to) BY <1>5, <1>7, MaxIs
  <1>12. Min(starts) < Max(ends)
    <2>1. PICK s \in c : Min(starts) = Times[s[1]][1] BY <1>8 DEF starts
    <2>2. Times[s[1]][2] \in ends BY <2>1 DEF ends
    <2>3. Times[s[1]][2] <= Max(ends) BY <1>9, <2>2
    <2>4. Max(ends) \in Nat BY <1>4, <1>9
    <2> QED BY <1>3, <2>1, <2>3, <2>4
  <1>13. Min(from) < Max(to)
    <2>1. PICK s \in c : Min(from) = s[2] BY <1>10 DEF from
    <2>2. s[3] \in to BY <2>1 DEF to
    <2>3. s[3] <= Max(to) BY <1>11, <2>2
    <2>4. Max(to) \in Nat BY <1>5, <1>11
    <2> QED BY <1>1, <1>2, <2>1, <2>3, <2>4
  <1> QED BY <1>4, <1>5, <1>8, <1>9, <1>10, <1>11, <1>12, <1>13 DEF Start, End, Offset, starts, ends, from, to

(* A claim that precedes another one starts earlier, or as early and at a  *)
(* smaller offset.                                                         *)
LEMMA PrecedesGrows ==
  ASSUME NEW e, NEW l, Said(e), Said(l), Precedes(e, l)
  PROVE  \/ Start(e) < Start(l)
         \/ Start(e) = Start(l) /\ Offset(e) < Offset(l)
  <1>1. /\ Start(e) \in Nat /\ End(e) \in Nat /\ Start(e) < End(e) /\ Offset(e) \in Nat
        /\ Start(e) \in {Times[s[1]][1] : s \in e}
        /\ Offset(e) < Max({s[3] : s \in e}) /\ Max({s[3] : s \in e}) \in Nat
    BY TimesIs
  <1>2. Start(l) \in Nat /\ Offset(l) \in Nat /\ Start(l) \in {Times[s[1]][1] : s \in l} BY TimesIs
  <1>3. CASE End(e) <= Start(l) BY <1>1, <1>2, <1>3
  <1>4. CASE /\ Cardinality({s[1] : s \in e \cup l}) = 1
             /\ Max({s[3] : s \in e}) <= Min({s[2] : s \in l})
    <2> DEFINE where == {s[1] : s \in e \cup l}
    <2>1. where \in SUBSET Obs BY DEF Said, SpanT
    <2>2. IsFiniteSet(where) BY <2>1, ObsFinite
    <2>3. Cardinality(where) = 1 BY <1>4
    <2>4. \E i : where = {i}
      <3> HIDE DEF where
      <3> QED BY <2>2, <2>3, FS_Singleton
    <2>5. PICK i : where = {i} BY <2>4
    <2>6. (\A s \in e : s[1] = i) /\ (\A s \in l : s[1] = i)
      <3>1. ASSUME NEW s \in e \cup l PROVE s[1] = i
        <4>1. s[1] \in where BY <3>1
        <4> HIDE DEF where
        <4> QED BY <2>5, <4>1
      <3> QED BY <3>1
    <2>7. Start(e) = Times[i][1] /\ Start(l) = Times[i][1] BY <1>1, <1>2, <2>6
    <2>8. Offset(e) < Offset(l) BY <1>1, <1>2, <1>4 DEF Offset
    <2> QED BY <2>7, <2>8
  <1> QED BY <1>3, <1>4 DEF Precedes

(* Corrections that point back leave some claim uncorrected: the last one. *)
LEMMA LastOne ==
  ASSUME NEW C, C # {}, IsFiniteSet(C), \A c \in C : Said(c)
  PROVE  \E c \in C : \A d \in C : ~Precedes(c, d)
  <1>1. \A c \in C : Start(c) \in Nat /\ Offset(c) \in Nat BY TimesIs
  <1> DEFINE f == [c \in C |-> Start(c)]
             g == [c \in C |-> Offset(c)]
  <1>2. f \in [C -> Nat] /\ g \in [C -> Nat] BY <1>1
  <1>3. PICK b \in Nat : \A c \in C : f[c] <= b
    <2> HIDE DEF f
    <2> QED BY <1>2, Bounded
  <1>4. PICK d \in Nat : \A c \in C : g[c] <= d
    <2> HIDE DEF g
    <2> QED BY <1>2, Bounded
  <1> DEFINE starts == {Start(c) : c \in C}
  <1>5. starts \in SUBSET Nat /\ starts # {} /\ \A y \in starts : y <= b BY <1>1, <1>3
  <1>6. PICK m \in starts : \A y \in starts : y <= m
    <2> HIDE DEF starts
    <2> QED BY <1>5, Greatest
  <1> DEFINE latest == {c \in C : Start(c) = m}
             offsets == {Offset(c) : c \in latest}
  <1>7. offsets \in SUBSET Nat /\ offsets # {} /\ \A y \in offsets : y <= d BY <1>1, <1>4, <1>6
  <1>8. PICK o \in offsets : \A y \in offsets : y <= o
    <2> HIDE DEF offsets
    <2> QED BY <1>7, Greatest
  <1>9. PICK c \in latest : Offset(c) = o BY <1>8
  <1>10. ASSUME NEW e \in C, Precedes(c, e) PROVE FALSE
    <2>1. Start(e) <= Start(c) BY <1>6, <1>9, <1>10
    <2>2. Start(e) = Start(c) => Offset(e) <= Offset(c) BY <1>8, <1>9, <1>10
    <2>3. Start(c) < Start(e) \/ (Start(c) = Start(e) /\ Offset(c) < Offset(e))
      BY <1>9, <1>10, PrecedesGrows
    <2>4. Start(e) \in Nat /\ Start(c) \in Nat /\ Offset(e) \in Nat /\ Offset(c) \in Nat
      BY <1>1, <1>9, <1>10
    <2> QED BY <2>1, <2>2, <2>3, <2>4
  <1> QED BY <1>9, <1>10

-----------------------------------------------------------------------------
(* Genuine repetitions *)

(* The places of a text where a quote appears *)
Places(text, q) == {k \in DOMAIN text : \E m \in k..Len(text) : SubSeq(text, k, m) = q}

LEMMA LettersAre ==
  ASSUME NEW R, NEW s \in Seq(R)
  PROVE  \A j \in 1..Len(s) : s[j] \in R
  OBVIOUS

LEMMA PlacesFound ==
  ASSUME NEW text \in Seq(Nat), NEW q \in Seq(Nat), q # <<>>
  PROVE  FindAll(text, q) = Places(text, q)
  <1>1. Len(text) \in Nat /\ DOMAIN text = 1..Len(text) /\ Len(q) \in Nat /\ Len(q) >= 1 OBVIOUS
  <1>2. ASSUME NEW k \in FindAll(text, q) PROVE k \in Places(text, q)
    <2>1. k \in 1..(Len(text) - Len(q) + 1) /\ SubSeq(text, k, k + Len(q) - 1) = q BY <1>2 DEF FindAll
    <2>2. k \in DOMAIN text /\ k + Len(q) - 1 \in k..Len(text) BY <1>1, <2>1
    <2> QED BY <2>1, <2>2 DEF Places
  <1>3. ASSUME NEW k \in Places(text, q) PROVE k \in FindAll(text, q)
    <2>1. PICK m \in k..Len(text) : SubSeq(text, k, m) = q BY <1>3 DEF Places
    <2>2. k \in 1..Len(text) BY <1>1, <1>3 DEF Places
    <2>5. k \in Nat /\ m \in Nat /\ k >= 1 /\ k <= m /\ m <= Len(text) BY <1>1, <2>1, <2>2
    <2>6. \A j \in k..m : text[j] \in Nat
      <3>1. \A j \in k..m : j \in 1..Len(text) BY <1>1, <2>5
      <3>2. \A j \in 1..Len(text) : text[j] \in Nat BY LettersAre
      <3> QED BY <3>1, <3>2
    <2>3. Len(SubSeq(text, k, m)) = m - k + 1 BY <2>5, <2>6
    <2>4. m = k + Len(q) - 1 /\ k \in 1..(Len(text) - Len(q) + 1) BY <1>1, <2>1, <2>2, <2>3
    <2> QED BY <2>1, <2>4 DEF FindAll
  <1> QED BY <1>2, <1>3

LEMMA PlacesIs ==
  ASSUME obs \in Inputs, NEW i \in Obs, NEW q \in Seq(Nat), q # <<>>, Places(obs[i].text, q) # {}
  PROVE  /\ IsFiniteSet(Matches(i, q)) /\ Matches(i, q) # {}
         /\ Cardinality(Matches(i, q)) = Cardinality(Places(obs[i].text, q))
  <1> DEFINE text == obs[i].text
             at == Places(text, q)
             M == Matches(i, q)
  <1>1. text \in Seq(Nat) BY TextIs
  <1>2. FindAll(text, q) = at BY <1>1, PlacesFound
  <1>3. Unmarked(text, q) = q BY <1>2 DEF Unmarked
  <1>4. M = {<<i, k, k + Len(q)>> : k \in at} BY <1>2, <1>3 DEF Matches
  <1>5. IsFiniteSet(at)
    <2>1. Len(text) \in Nat /\ DOMAIN text = 1..Len(text) BY <1>1
    <2>2. at \in SUBSET (1..Len(text)) BY <2>1 DEF Places
    <2> HIDE DEF at
    <2>3. IsFiniteSet(1..Len(text)) BY <2>1, FS_Interval
    <2> QED BY <2>2, <2>3, FS_Subset
  <1> HIDE DEF at, M
  <1> DEFINE f == [k \in at |-> <<i, k, k + Len(q)>>]
  <1>6. f \in Bijection(at, M)
    <2>1. f \in [at -> M] /\ \A s \in M : \E k \in at : f[k] = s BY <1>4
    <2>2. \A j, k \in at : f[j] = f[k] => j = k OBVIOUS
    <2> QED BY <2>1, <2>2 DEF Bijection, Injection, Surjection, IsInjective
  <1>7. IsFiniteSet(M) /\ Cardinality(M) = Cardinality(at)
    <2>1. ExistsBijection(at, M) BY <1>6 DEF ExistsBijection
    <2> QED BY <1>5, <2>1, FS_Bijection
  <1>8. M # {} BY <1>4 DEF at, text
  <1> QED BY <1>7, <1>8 DEF at, M, text

Distinct(f, n) == \A j, k \in 1..n : f[j] = f[k] => j = k

(* A quote cited n times takes n places exactly when there are as many. *)
LEMMA RepeatsResolve ==
  ASSUME obs \in Inputs, NEW ref \in RefT, NEW n \in Nat,
         IsFiniteSet(Matches(ref[1], ref[2])), Matches(ref[1], ref[2]) # {}
  PROVE  LET spans == Resolve([k \in 1..n |-> ref]) IN
         /\ spans \in Seq(SpanT) /\ Len(spans) = n
         /\ \A k \in 1..n : spans[k] \in Matches(ref[1], ref[2])
         /\ Distinct(spans, n) <=> n <= Cardinality(Matches(ref[1], ref[2]))
  <1> DEFINE refs == [k \in 1..n |-> ref]
             spans == Resolve(refs)
             M == Matches(ref[1], ref[2])
  <1>1. refs \in Seq(RefT) /\ Len(refs) = n /\ \A k \in 1..n : refs[k] = ref OBVIOUS
  <1> HIDE DEF refs
  <1>2. /\ spans \in Seq(SpanT) /\ Len(spans) = n
        /\ \A k \in 1..n : spans[k] \in FreeSpans(refs, spans, k) /\ spans[k] \in M
    BY <1>1, ResolveIs
  <1> HIDE DEF spans
  <1>3. \A k \in 1..n : FreeSpans(refs, spans, k) =
          IF M \ {spans[j] : j \in 1..(k - 1)} # {} THEN M \ {spans[j] : j \in 1..(k - 1)} ELSE M
    BY <1>1 DEF FreeSpans
  <1> HIDE DEF M
  <1>4. IsFiniteSet(M) /\ Cardinality(M) \in Nat BY FS_CardinalityType DEF M
  <1>5. ASSUME Distinct(spans, n) PROVE n <= Cardinality(M)
    <2>1. spans = [k \in 1..n |-> spans[k]]
      <3>1. spans = [k \in 1..Len(spans) |-> spans[k]] BY <1>2
      <3> QED BY <1>2, <3>1
    <2>2. spans \in [1..n -> M] BY <1>2, <2>1
    <2>3. spans \in Injection(1..n, M) BY <1>5, <2>2 DEF Injection, IsInjective, Distinct
    <2>4. Cardinality(1..n) <= Cardinality(M) BY <1>4, <2>3, FS_Injection
    <2>5. Cardinality(1..n) = n BY FS_Interval
    <2> QED BY <2>4, <2>5
  <1>6. ASSUME n <= Cardinality(M), NEW k \in 1..n PROVE \A j \in 1..(k - 1) : spans[j] # spans[k]
    <2> DEFINE used == {spans[j] : j \in 1..(k - 1)}
               f == [j \in 1..(k - 1) |-> spans[j]]
    <2>1. f \in Surjection(1..(k - 1), used) BY DEF Surjection
    <2>2. IsFiniteSet(1..(k - 1)) /\ Cardinality(1..(k - 1)) = k - 1
      <3>1. k - 1 \in Nat BY <1>6
      <3>2. k - 1 = 0 \/ k - 1 >= 1 BY <3>1
      <3> DEFINE m == k - 1
      <3> HIDE DEF m
      <3>3. m \in Nat BY <3>1 DEF m
      <3>4. IsFiniteSet(1..m) /\ Cardinality(1..m) = m BY <3>3, FS_Interval
      <3> QED BY <3>4 DEF m
    <2>3. IsFiniteSet(used) /\ Cardinality(used) <= k - 1
      <3> HIDE DEF used, f
      <3> QED BY <2>1, <2>2, FS_Surjection
    <2>4. M \ used # {}
      <3>1. SUFFICES ASSUME M \subseteq used PROVE FALSE OBVIOUS
      <3> HIDE DEF used
      <3>2. Cardinality(M) <= Cardinality(used) BY <2>3, <3>1, FS_Subset
      <3>3. Cardinality(used) \in Nat BY <2>3, FS_CardinalityType
      <3> QED BY <1>4, <1>6, <2>3, <3>2, <3>3
    <2>5. spans[k] \in M \ used BY <1>2, <1>3, <1>6, <2>4
    <2> QED BY <2>5
  <1>7. ASSUME n <= Cardinality(M) PROVE Distinct(spans, n)
    <2>1. SUFFICES ASSUME NEW j \in 1..n, NEW k \in 1..n, j # k PROVE spans[j] # spans[k] BY DEF Distinct
    <2>2. j \in 1..(k - 1) \/ k \in 1..(j - 1) BY <2>1
    <2> QED BY <1>6, <1>7, <2>1, <2>2
  <1> QED BY <1>2, <1>5, <1>7 DEF refs, spans, M

(* An answer of the same occurrence n times is grounded exactly when there *)
(* are n places.                                                           *)
LEMMA RepeatsGrounded ==
  ASSUME obs \in Inputs, NEW w, NEW o, NEW n \in Nat,
         o \in OccurrenceT, o.ctx = <<>>, Len(o.src) = 1, Sayable([k \in 1..n |-> o]),
         o.src[1][2] # <<>>, o.src[1][1] \in InWindow(w), obs[o.src[1][1]].role = "target",
         Places(obs[o.src[1][1]].text, o.src[1][2]) # {}
  PROVE  Grounded([k \in 1..n |-> o], w)
           <=> n <= Cardinality(Places(obs[o.src[1][1]].text, o.src[1][2]))
  <1> DEFINE ref == o.src[1]
             a == [k \in 1..n |-> o]
             M == Matches(ref[1], ref[2])
             refs == [k \in 1..n |-> ref]
             spans == Resolve(refs)
  <1>1. /\ ref \in RefT /\ Len(a) = n /\ Refs(a) = refs
        /\ \A k \in 1..n : Len(Refs(SubSeq(a, 1, k - 1))) = k - 1
    BY CopiesRefs
  <1>2. ref[1] \in Obs /\ ref[2] \in Seq(Nat) BY <1>1 DEF RefT
  <1>3. /\ IsFiniteSet(M) /\ M # {}
        /\ Cardinality(M) = Cardinality(Places(obs[ref[1]].text, ref[2]))
    BY <1>2, PlacesIs
  <1>4. /\ spans \in Seq(SpanT) /\ Len(spans) = n /\ \A k \in 1..n : spans[k] \in M
        /\ Distinct(spans, n) <=> n <= Cardinality(M)
    BY <1>1, <1>3, RepeatsResolve
  <1>5. \A s \in M : s[1] = ref[1] BY <1>2, MatchesIs
  <1>6. Quotable(w, Refs(a))
    <2>1. DOMAIN refs = 1..n /\ \A k \in 1..n : refs[k] = ref OBVIOUS
    <2> HIDE DEF refs, a
    <2> QED BY <1>1, <1>3, <2>1 DEF Quotable
  <1>7. Sayable(a) /\ DOMAIN a = 1..n /\ \A k \in 1..n : a[k].src = o.src /\ a[k].ctx = <<>> OBVIOUS
  <1> DEFINE r == Resolved(a)
  <1>8. DOMAIN r = 1..n BY <1>7 DEF Resolved
  <1>9. ASSUME NEW k \in 1..n
        PROVE  Len(r[k].src) = 1 /\ r[k].src \in Seq(SpanT) /\ r[k].src[1] = spans[k]
    <2>1. k \in DOMAIN a /\ a[k].src = o.src BY <1>7, <1>9
    <2>2. Len(Refs(SubSeq(a, 1, k - 1))) = k - 1 BY <1>1, <1>9
    <2> HIDE DEF refs, a
    <2>3. LET src == r[k].src IN
          /\ src \in Seq(SpanT) /\ Len(src) = Len(a[k].src)
          /\ \A m \in 1..Len(src) : src[m] = Resolve(Refs(a))[Len(Refs(SubSeq(a, 1, k - 1))) + m]
      BY <1>6, <1>7, <2>1, SourceIs
    <2>4. Len(r[k].src) = 1 BY <2>1, <2>3
    <2>5. r[k].src[1] = spans[(k - 1) + 1]
      <3>1. 1 \in 1..Len(r[k].src) BY <2>4
      <3> QED BY <1>1, <2>2, <2>3, <3>1
    <2>6. (k - 1) + 1 = k BY <1>9
    <2> QED BY <2>3, <2>4, <2>5, <2>6
  <1>10. ASSUME NEW k \in 1..n PROVE DOMAIN r[k].ctx = {}
    <2> DEFINE mid == Len(Refs(SubSeq(a, 1, k - 1))) + Len(a[k].src)
    <2>1. mid \in Nat
      <3>1. k - 1 \in Nat /\ Len(a[k].src) = 1 BY <1>7, <1>10
      <3>2. Len(Refs(SubSeq(a, 1, k - 1))) = k - 1 BY <1>1, <1>10
      <3> HIDE DEF a
      <3> QED BY <3>1, <3>2
    <2>2. Len(a[k].ctx) = 0 BY <1>7, <1>10
    <2>3. DOMAIN r[k].ctx =
            {j \in (mid + 1)..(mid + Len(a[k].ctx)) : obs[Resolve(Refs(a))[j][1]].role = "context"}
      <3>1. k \in DOMAIN a BY <1>7, <1>10
      <3> HIDE DEF a
      <3> QED BY <3>1 DEF Resolved
    <2> HIDE DEF mid, a
    <2>4. (mid + 1)..(mid + Len(a[k].ctx)) = {} BY <2>1, <2>2
    <2> QED BY <2>3, <2>4
  <1> HIDE DEF a, r, refs, spans, M
  <1>11. ASSUME NEW k \in 1..n
         PROVE  /\ DOMAIN r[k].src = {1} /\ Range(r[k].src) = {spans[k]}
                /\ IsInjective(r[k].src) /\ IsInjective(r[k].ctx)
                /\ \A m \in DOMAIN r[k].src : obs[r[k].src[m][1]].role = "target"
    <2>1. DOMAIN r[k].src = {1}
      <3>1. DOMAIN r[k].src = 1..1 BY <1>9, <1>11
      <3> QED BY <3>1
    <2>2. Range(r[k].src) = {spans[k]} BY <1>9, <1>11, <2>1 DEF Range
    <2>3. IsInjective(r[k].src) /\ IsInjective(r[k].ctx) BY <1>10, <1>11, <2>1 DEF IsInjective
    <2>4. obs[r[k].src[1][1]].role = "target" BY <1>4, <1>5, <1>9, <1>11 DEF ref
    <2> QED BY <2>1, <2>2, <2>3, <2>4
  <1>12. Grounded(a, w) <=> \A k, m \in 1..n : Range(r[k].src) = Range(r[m].src) => k = m
    BY <1>6, <1>7, <1>11 DEF Grounded, r
  <1>13. (\A k, m \in 1..n : Range(r[k].src) = Range(r[m].src) => k = m) <=> Distinct(spans, n)
    <2>1. \A k, m \in 1..n : Range(r[k].src) = Range(r[m].src) <=> spans[k] = spans[m] BY <1>11
    <2> QED BY <2>1 DEF Distinct
  <1> QED BY <1>3, <1>4, <1>12, <1>13 DEF a, ref

-----------------------------------------------------------------------------
(* Claims under the operations *)

(* A claim rests on spans of admitted targets. *)
Sound(c) ==
  /\ c # {} /\ IsFiniteSet(c)
  /\ \A s \in c : Within(s) /\ obs[s[1]].role = "target" /\ s[1] \in ledger.existing

ClaimT == SUBSET SpanT
ReportT == [claims : SUBSET ClaimT, assessed : SUBSET ClaimT, corrects : SUBSET (ClaimT \X ClaimT),
            changed : SUBSET ClaimT, reassessment : SUBSET ClaimT, retrieval : SUBSET ClaimT]

ReportInv ==
  /\ report \in ReportT /\ IsFiniteSet(report.claims) /\ report.assessed \subseteq report.claims
  /\ \A c \in report.claims : Sound(c)
  /\ \A p \in report.corrects : p \in report.claims \X report.claims /\ Precedes(p[2], p[1])
  /\ ~finalized => /\ report.corrects = {} /\ report.changed = {}
                   /\ report.reassessment = {} /\ report.retrieval = {}
  /\ report.assessed \cap (report.changed \cup Superseded(report)) = {}
  /\ finalized => report.assessed \cup report.retrieval = Current(report)
  /\ report.reassessment \subseteq report.retrieval

LEMMA SoundSaid ==
  ASSUME NEW c, Sound(c)
  PROVE  Said(c) /\ c \in ClaimT
  BY DEF Sound, Said, Within, ClaimT

(* What grounded_claims() accepts is sound. *)
LEMMA GroundedIs ==
  ASSUME WinInv, NEW w \in DOMAIN outcome, NEW answer \in Answers, Grounded(answer, w)
  PROVE  IsFiniteSet(GroundedClaims(answer)) /\ \A c \in GroundedClaims(answer) : Sound(c)
  <1> DEFINE r == Resolved(answer)
  <1>1. obs \in Inputs /\ LedgerOK(ledger) /\ w \in DOMAIN ledger.windows BY DEF WinInv, AtRest
  <1>2. InWindow(w) \subseteq ledger.existing BY <1>1, LedgerType DEF InWindow
  <1>3. Sayable(answer) BY AnswersSayable
  <1>4. Quotable(w, Refs(answer)) BY DEF Grounded
  <1>5. DOMAIN r = DOMAIN answer BY DEF Resolved
  <1>6. GroundedClaims(answer) = {Range(r[k].src) : k \in DOMAIN answer} BY <1>5 DEF GroundedClaims
  <1>7. \A k \in DOMAIN answer : \A n \in DOMAIN r[k].src : obs[r[k].src[n][1]].role = "target"
    BY DEF Grounded
  <1>8. ASSUME NEW k \in DOMAIN answer
        PROVE  /\ r[k].src \in Seq(SpanT) /\ Len(r[k].src) >= 1
               /\ \A n \in 1..Len(r[k].src) : Within(r[k].src[n]) /\ r[k].src[n][1] \in InWindow(w)
    BY <1>1, <1>3, <1>4, <1>8, SourceIs
  <1> HIDE DEF r
  <1>9. ASSUME NEW k \in DOMAIN answer PROVE Sound(Range(r[k].src))
    <2> DEFINE src == r[k].src
    <2>1. /\ src \in Seq(SpanT) /\ Len(src) >= 1 /\ Len(src) \in Nat /\ DOMAIN src = 1..Len(src)
          /\ \A n \in 1..Len(src) : /\ Within(src[n]) /\ src[n][1] \in ledger.existing
                                    /\ obs[src[n][1]].role = "target"
      BY <1>2, <1>7, <1>8, <1>9
    <2> HIDE DEF src
    <2>2. IsFiniteSet(Range(src)) /\ Range(src) = {src[n] : n \in 1..Len(src)} BY <2>1, RangeFinite
    <2>3. 1 \in 1..Len(src) BY <2>1
    <2>4. Sound(Range(src)) BY <2>1, <2>2, <2>3 DEF Sound
    <2> QED BY <2>4 DEF src
  <1>10. IsFiniteSet(DOMAIN answer)
    <2>1. answer \in Seq(OccurrenceT) BY <1>3 DEF Sayable
    <2>2. DOMAIN answer = 1..Len(answer) /\ Len(answer) \in Nat BY <2>1
    <2> QED BY <2>2, FS_Interval
  <1>11. IsFiniteSet(GroundedClaims(answer))
    <2> DEFINE f == [k \in DOMAIN answer |-> Range(r[k].src)]
               C == GroundedClaims(answer)
    <2>1. f \in Surjection(DOMAIN answer, C) BY <1>6 DEF Surjection
    <2> HIDE DEF f, C
    <2>2. IsFiniteSet(C) BY <1>10, <2>1, FS_Surjection
    <2> QED BY <2>2 DEF C
  <1> QED BY <1>6, <1>9, <1>11

(* What was admitted stays admitted. *)
LEMMA ExistingGrows ==
  ASSUME WinInv, [CNext]_cvars
  PROVE  obs' = obs /\ ledger.existing \subseteq ledger'.existing
  <1>1. LedgerOK(ledger) /\ ledger \in LedgerT /\ obs \in Inputs /\ (finalized => ledger.closed)
        /\ (ledger.closed => Pending(ledger) = {})
    BY LedgerType DEF WinInv, AtRest
  <1>2. ASSUME NEW batch \in SUBSET (Obs \ seen), SubmitObservations(batch)
        PROVE  obs' = obs /\ ledger.existing \subseteq ledger'.existing
    <2>1. PICK l \in Admitted(ledger, batch) : Store(Cut(l)) BY <1>2 DEF SubmitObservations
    <2>2. batch \in SUBSET Obs BY <1>2
    <2>3. /\ LedgerOK(l) /\ (finalized => l.closed /\ Pending(l) = {})
          /\ ledger.existing \subseteq l.existing
      BY <2>1, <2>2, AdmittedIs
    <2>4. SameInput(l, Cut(l)) BY <1>1, <2>3, CutRests
    <2>5. ledger' = Cut(l) BY <2>1 DEF Store
    <2> QED BY <1>2, <2>3, <2>4, <2>5 DEF SubmitObservations, SameInput
  <1>3. ASSUME CloseInput PROVE obs' = obs /\ ledger.existing \subseteq ledger'.existing
    <2> DEFINE l == [ledger EXCEPT !.closed = TRUE]
    <2>1. /\ l \in LedgerT /\ l.existing = ledger.existing /\ l.windows = ledger.windows
          /\ l.skipped = ledger.skipped
      BY <1>1 DEF LedgerT
    <2>2. ~finalized /\ Store(Cut(l)) /\ obs' = obs BY <1>1, <1>3 DEF CloseInput
    <2> HIDE DEF l
    <2>3. LedgerOK(l) BY <1>1, <2>1 DEF LedgerOK
    <2>4. SameInput(l, Cut(l)) BY <1>1, <2>2, <2>3, CutRests
    <2>5. ledger' = Cut(l) BY <2>2 DEF Store
    <2> QED BY <2>1, <2>2, <2>4, <2>5 DEF SameInput
  <1>4. ASSUME NEW w, RecordRequest(w) PROVE obs' = obs /\ ledger.existing \subseteq ledger'.existing
    BY <1>1, <1>4 DEF RecordRequest, LedgerT
  <1>5. ASSUME NEW w, NEW s, EndWindow(w, s) PROVE obs' = obs /\ ledger' = ledger
    BY <1>5 DEF EndWindow
  <1>6. ASSUME NEW w, RemoveWindow(w) PROVE obs' = obs /\ ledger' = ledger BY <1>6 DEF RemoveWindow
  <1>7. ASSUME NEW w, NEW answer, PublishWindow(w, answer) PROVE obs' = obs /\ ledger' = ledger
    <2>1. EndWindow(w, "published") BY <1>7 DEF PublishWindow
    <2> QED BY <1>5, <2>1
  <1>8. ASSUME NEW c, Assess(c) PROVE obs' = obs /\ ledger' = ledger BY <1>8 DEF Assess, wvars
  <1>9. CASE Reconcile BY <1>9 DEF Reconcile, Finalize
  <1>10. CASE Stop BY <1>10 DEF Stop
  <1>11. CASE UNCHANGED cvars BY <1>11 DEF cvars
  <1> QED BY <1>2, <1>3, <1>4, <1>5, <1>6, <1>7, <1>8, <1>9, <1>10, <1>11 DEF CNext

LEMMA SoundStays ==
  ASSUME obs' = obs, ledger.existing \subseteq ledger'.existing, NEW c, Sound(c)
  PROVE  Sound(c)'
  <1>1. \A s : Within(s)' <=> Within(s) BY DEF Within
  <1> QED BY <1>1 DEF Sound

LEMMA ReportInit == CInit => ReportInv
  <1> SUFFICES ASSUME CInit PROVE ReportInv OBVIOUS
  <1>1. report = NewReport /\ finalized = FALSE BY DEF CInit, WInit
  <1>2. /\ report.claims = {} /\ report.assessed = {} /\ report.corrects = {} /\ report.changed = {}
        /\ report.reassessment = {} /\ report.retrieval = {}
    BY <1>1 DEF NewReport
  <1>3. report \in ReportT BY <1>1 DEF NewReport, ReportT
  <1>4. IsFiniteSet({}) BY FS_EmptySet
  <1> QED BY <1>1, <1>2, <1>3, <1>4 DEF ReportInv

(* The report is left alone. *)
LEMMA ReportStays ==
  ASSUME WinInv, ReportInv, [CNext]_cvars, report' = report, finalized' = finalized
  PROVE  ReportInv'
  <1>1. obs' = obs /\ ledger.existing \subseteq ledger'.existing BY ExistingGrows
  <1>2. \A c \in report'.claims : Sound(c)'
    <2>1. \A c \in report.claims : Sound(c) BY DEF ReportInv
    <2> QED BY <1>1, <2>1, SoundStays
  <1>3. Superseded(report)' = Superseded(report) /\ Current(report)' = Current(report)
    BY DEF Superseded, Current
  <1> QED BY <1>2, <1>3 DEF ReportInv

LEMMA MergeInv ==
  ASSUME WinInv, ReportInv, [CNext]_cvars,
         NEW w \in DOMAIN outcome, NEW answer \in Answers, PublishWindow(w, answer)
  PROVE  ReportInv'
  <1> DEFINE new == GroundedClaims(answer)
  <1>1. Grounded(answer, w) /\ EndWindow(w, "published")
        /\ report' = [report EXCEPT !.claims = @ \cup new]
    BY DEF PublishWindow
  <1>2. ~finalized /\ UNCHANGED <<finalized, obs, ledger>> BY <1>1 DEF EndWindow
  <1>3. IsFiniteSet(new) /\ \A c \in new : Sound(c) BY <1>1, GroundedIs
  <1> HIDE DEF new
  <1>4. report \in ReportT /\ new \in SUBSET ClaimT BY <1>3, SoundSaid DEF ReportInv
  <1>5. /\ report' \in ReportT /\ report'.claims = report.claims \cup new
        /\ report'.assessed = report.assessed /\ report'.corrects = report.corrects
        /\ report'.changed = report.changed /\ report'.reassessment = report.reassessment
        /\ report'.retrieval = report.retrieval
    <2>1. report.claims \cup new \in SUBSET ClaimT BY <1>4 DEF ReportT
    <2> HIDE DEF ClaimT
    <2> QED BY <1>1, <1>4, <2>1 DEF ReportT
  <1>6. IsFiniteSet(report'.claims)
    <2> DEFINE old == report.claims
    <2>1. IsFiniteSet(old) BY DEF ReportInv
    <2> HIDE DEF old
    <2>2. IsFiniteSet(old \cup new) BY <1>3, <2>1, FS_Union
    <2> QED BY <1>5, <2>2 DEF old
  <1>7. \A c \in report'.claims : Sound(c)'
    <2>1. \A c \in report'.claims : Sound(c) BY <1>3, <1>5 DEF ReportInv
    <2> QED BY <1>2, <2>1, SoundStays
  <1>8. Superseded(report)' = Superseded(report) BY <1>5 DEF Superseded
  <1> QED BY <1>2, <1>5, <1>6, <1>7, <1>8 DEF ReportInv

LEMMA AssessInv ==
  ASSUME WinInv, ReportInv, [CNext]_cvars, NEW c \in report.claims, Assess(c)
  PROVE  ReportInv'
  <1>1. ~finalized /\ report' = [report EXCEPT !.assessed = @ \cup {c}] /\ UNCHANGED <<finalized, obs, ledger>>
    BY DEF Assess, wvars
  <1>2. report \in ReportT /\ c \in ClaimT BY DEF ReportInv, ReportT
  <1>3. /\ report' \in ReportT /\ report'.assessed = report.assessed \cup {c}
        /\ report'.claims = report.claims /\ report'.corrects = report.corrects
        /\ report'.changed = report.changed /\ report'.reassessment = report.reassessment
        /\ report'.retrieval = report.retrieval
    <2>1. report.assessed \cup {c} \in SUBSET ClaimT BY <1>2 DEF ReportT
    <2> HIDE DEF ClaimT
    <2> QED BY <1>1, <1>2, <2>1 DEF ReportT
  <1>4. \A d \in report'.claims : Sound(d)'
    <2>1. \A d \in report.claims : Sound(d) BY DEF ReportInv
    <2> QED BY <1>1, <1>3, <2>1, SoundStays
  <1>5. Superseded(report)' = {} BY <1>1, <1>3 DEF Superseded, ReportInv
  <1> QED BY <1>1, <1>3, <1>4, <1>5 DEF ReportInv

LEMMA ReconcileInv ==
  ASSUME WinInv, ReportInv, [CNext]_cvars, Reconcile
  PROVE  ReportInv'
  <1>1. Finalize BY DEF Reconcile
  <1>2. finalized' = TRUE /\ UNCHANGED <<obs, ledger>> BY <1>1 DEF Finalize
  <1>3. PICK changed \in SUBSET report.claims, corrects \in SUBSET Corrections :
          report' = Reconciled(changed, corrects)
    BY DEF Reconcile
  <1> DEFINE superseded == {p[2] : p \in corrects}
             assessed == report.assessed \ (changed \cup superseded)
  <1>4. \A p \in corrects : p \in report.claims \X report.claims /\ Precedes(p[2], p[1])
    BY <1>3 DEF Corrections
  <1>5. report \in ReportT /\ report.claims \in SUBSET ClaimT /\ report.assessed \subseteq report.claims
    BY DEF ReportInv, ReportT
  <1>6. superseded \subseteq report.claims BY <1>4
  <1> HIDE DEF superseded
  <1>7. /\ report' \in ReportT /\ report'.claims = report.claims /\ report'.assessed = assessed
        /\ report'.corrects = corrects /\ report'.changed = changed
        /\ report'.reassessment = changed \ superseded
        /\ report'.retrieval = report.claims \ (superseded \cup assessed)
    <2>1. /\ corrects \in SUBSET (ClaimT \X ClaimT) /\ changed \in SUBSET ClaimT
          /\ assessed \in SUBSET ClaimT /\ changed \ superseded \in SUBSET ClaimT
          /\ report.claims \ (superseded \cup assessed) \in SUBSET ClaimT
      <3>1. corrects \in SUBSET (ClaimT \X ClaimT) BY <1>4, <1>5
      <3> QED BY <1>3, <1>5, <3>1
    <2>2. report' = [report EXCEPT !.corrects = corrects, !.changed = changed,
                                   !.assessed = assessed,
                                   !.reassessment = changed \ superseded,
                                   !.retrieval = report.claims \ (superseded \cup assessed)]
      BY <1>3 DEF Reconciled, superseded
    <2> HIDE DEF assessed, ClaimT
    <2> QED BY <1>5, <2>1, <2>2 DEF ReportT
  <1>8. Superseded(report)' = superseded BY <1>7 DEF Superseded, superseded
  <1>9. Current(report)' = report.claims \ superseded BY <1>7, <1>8 DEF Current
  <1>10. \A c \in report'.claims : Sound(c)'
    <2>1. \A c \in report.claims : Sound(c) BY DEF ReportInv
    <2> QED BY <1>2, <1>7, <2>1, SoundStays
  <1>11. IsFiniteSet(report'.claims) BY <1>7 DEF ReportInv
  <1> QED BY <1>2, <1>4, <1>5, <1>6, <1>7, <1>8, <1>9, <1>10, <1>11 DEF ReportInv

LEMMA ReportStep ==
  ASSUME WinInv, ReportInv, [CNext]_cvars
  PROVE  ReportInv'
  <1>1. ASSUME NEW batch, SubmitObservations(batch), UNCHANGED report PROVE ReportInv'
    BY <1>1, ReportStays DEF SubmitObservations
  <1>2. ASSUME CloseInput, UNCHANGED report PROVE ReportInv' BY <1>2, ReportStays DEF CloseInput
  <1>3. ASSUME Stop, UNCHANGED report PROVE ReportInv' BY <1>3, ReportStays DEF Stop
  <1>4. ASSUME NEW w, RecordRequest(w), UNCHANGED report PROVE ReportInv'
    BY <1>4, ReportStays DEF RecordRequest
  <1>5. ASSUME NEW w, NEW s, EndWindow(w, s), UNCHANGED report PROVE ReportInv'
    BY <1>5, ReportStays DEF EndWindow
  <1>6. ASSUME NEW w, RemoveWindow(w), UNCHANGED report PROVE ReportInv'
    BY <1>6, ReportStays DEF RemoveWindow
  <1>7. CASE UNCHANGED cvars BY <1>7, ReportStays DEF cvars
  <1>8. CASE Reconcile BY <1>8, ReconcileInv
  <1>9. ASSUME NEW c \in report.claims, Assess(c) PROVE ReportInv' BY <1>9, AssessInv
  <1>10. ASSUME NEW w \in DOMAIN outcome, NEW answer \in Answers, PublishWindow(w, answer) PROVE ReportInv'
    BY <1>10, MergeInv
  <1> QED BY <1>1, <1>2, <1>3, <1>4, <1>5, <1>6, <1>7, <1>8, <1>9, <1>10 DEF CNext

LEMMA GroundedHolds == WinInv /\ ReportInv => ClaimsGrounded
  <1> SUFFICES ASSUME WinInv, ReportInv PROVE ClaimsGrounded OBVIOUS
  <1>1. ASSUME NEW c \in report.claims, NEW s \in c
        PROVE  /\ obs[s[1]].role = "target" /\ s[1] \in ledger.existing
               /\ 1 <= s[2] /\ s[2] < s[3] /\ s[3] <= Len(obs[s[1]].text) + 1
    BY <1>1 DEF ReportInv, Sound, Within
  <1>2. ASSUME NEW w \in DOMAIN outcome, NEW o \in UNION {Range(a) : a \in Answers}, NEW n \in 1..3,
               o.ctx = <<>>, Len(o.src) = 1, o.src[1][1] \in InWindow(w),
               obs[o.src[1][1]].role = "target",
               Places(obs[o.src[1][1]].text, o.src[1][2]) # {}
        PROVE  Grounded([k \in 1..n |-> o], w)
                 <=> n <= Cardinality(Places(obs[o.src[1][1]].text, o.src[1][2]))
    <2>1. obs \in Inputs BY DEF WinInv
    <2>2. PICK answer \in Answers : o \in Range(answer) BY <1>2
    <2>3. Sayable(answer) /\ \E k \in 1..Len(answer) : o = answer[k]
      <3>1. Sayable(answer) BY AnswersSayable
      <3>2. DOMAIN answer = 1..Len(answer) BY <3>1 DEF Sayable
      <3> QED BY <2>2, <3>1, <3>2 DEF Range
    <2>4. /\ o \in OccurrenceT /\ o.src # <<>>
          /\ \A ref \in Range(o.src \o o.ctx) : ref[2] # <<>>
      <3>1. PICK k \in 1..Len(answer) : o = answer[k] BY <2>3
      <3>2. answer \in Seq(OccurrenceT) BY <2>3 DEF Sayable
      <3> QED BY <2>3, <3>1, <3>2 DEF Sayable
    <2>5. o.src[1][2] # <<>>
      <3> DEFINE s == o.src
      <3>1. s \in Seq(RefT) /\ Len(s) = 1 BY <1>2, <2>4 DEF OccurrenceT
      <3>2. s \o <<>> = s BY <3>1
      <3>3. s[1] \in Range(s) BY <3>1 DEF Range
      <3> QED BY <1>2, <2>4, <3>2, <3>3
    <2>6. n \in Nat BY <1>2
    <2>7. Sayable([k \in 1..n |-> o])
      <3>1. [k \in 1..n |-> o] \in Seq(OccurrenceT) /\ Len([k \in 1..n |-> o]) = n
        BY <1>2, <2>4, <2>6, CopiesRefs
      <3>2. \A k \in 1..n : [j \in 1..n |-> o][k] = o OBVIOUS
      <3> QED BY <2>4, <3>1, <3>2 DEF Sayable
    <2> QED BY <1>2, <2>1, <2>4, <2>5, <2>6, <2>7, RepeatsGrounded
  <1> QED BY <1>1, <1>2 DEF ClaimsGrounded, Places

LEMMA EndHolds == ReportInv => CorrectionsEnd
  <1> SUFFICES ASSUME ReportInv PROVE CorrectionsEnd OBVIOUS
  <1>1. ASSUME report.claims # {} PROVE Current(report) # {}
    <2>1. \A c \in report.claims : Said(c) BY SoundSaid DEF ReportInv
    <2>2. IsFiniteSet(report.claims) BY DEF ReportInv
    <2> DEFINE C == report.claims
    <2>3. PICK c \in C : \A d \in C : ~Precedes(c, d)
      <3> HIDE DEF C
      <3>1. C # {} /\ IsFiniteSet(C) /\ \A c \in C : Said(c) BY <1>1, <2>1, <2>2 DEF C
      <3> QED BY <3>1, LastOne
    <2>4. ASSUME NEW p \in report.corrects PROVE p[2] # c
      <3>1. p[1] \in C /\ Precedes(p[2], p[1]) BY <2>4 DEF ReportInv
      <3> QED BY <2>3, <3>1
    <2>5. c \in Current(report) BY <2>3, <2>4 DEF Current, Superseded
    <2> QED BY <2>5
  <1> QED BY <1>1 DEF CorrectionsEnd, ReportInv

(* Claims rest on what targets say, and genuine repetitions are claims of  *)
(* their own: _resolve_quotes() gives n citations of a quote n different   *)
(* spans exactly when its text has n appearances, and grounded_claims()    *)
(* accepts them exactly then.                                              *)
THEOREM ClaimsAreGrounded == CSpec => []ClaimsGrounded
  <1>1. CInit => WinInv /\ ReportInv BY WindowsInit, ReportInit DEF CInit
  <1>2. WinInv /\ ReportInv /\ [CNext]_cvars => (WinInv /\ ReportInv)' BY WindowsStep, ReportStep
  <1>3. WinInv /\ ReportInv => ClaimsGrounded BY GroundedHolds
  <1> QED BY <1>1, <1>2, <1>3, PTL DEF CSpec

(* Corrections end: as _precedes() orders claims by time, or by place      *)
(* within an observation, the last claim of a report is never superseded,  *)
(* and reconcile_claims() keeps no assessment of what it changed.          *)
THEOREM ChainsEnd == CSpec => []CorrectionsEnd
  <1>1. CInit => WinInv /\ ReportInv BY WindowsInit, ReportInit DEF CInit
  <1>2. WinInv /\ ReportInv /\ [CNext]_cvars => (WinInv /\ ReportInv)' BY WindowsStep, ReportStep
  <1>3. WinInv /\ ReportInv => CorrectionsEnd BY EndHolds
  <1> QED BY <1>1, <1>2, <1>3, PTL DEF CSpec

(* The claims of every report are grounded in what targets say and its     *)
(* corrections leave something current (grounded_claims,                   *)
(* reconcile_claims).                                                      *)
THEOREM ClaimsAreSound == CSpec => []ClaimsSound
  BY ClaimsAreGrounded, ChainsEnd, PTL DEF ClaimsSound
=============================================================================
