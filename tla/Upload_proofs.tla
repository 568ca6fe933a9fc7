---------------------------- MODULE Upload_proofs ----------------------------
(***************************************************************************)
(* Proofs that the text a client sent for an upload is kept or erased as a *)
(* whole, and that what the client reads of the analysis is true, for any  *)
(* number of batches and faults and with or without speech.                *)
(***************************************************************************)
EXTENDS Upload, TLAPS

JobRow == [state : {"none", "gone"} \cup JobState, cancel : BOOLEAN]
MediaRow == [ready : BOOLEAN, audio : BOOLEAN, video : BOOLEAN]
AnalysisRow == [exists : BOOLEAN, deadline : {"none", "set", "past"}, expired : BOOLEAN]
Texts == Batches \X TextBodies
DocRow == [exists : BOOLEAN, media : BOOLEAN, batches : SUBSET Texts,
           completed : BOOLEAN, dropped : BOOLEAN]
LedgerRow == [open : BOOLEAN, closed : BOOLEAN, admitted : SUBSET Texts, late : SUBSET Texts]

TypeOK ==
  /\ job \in [Stages -> JobRow]
  /\ media \in MediaRow /\ found \in MediaRow
  /\ wav \in BOOLEAN /\ spoken \in BOOLEAN
  /\ analysis \in AnalysisRow /\ due \in BOOLEAN
  /\ doc \in DocRow /\ ledger \in LedgerRow
  /\ erased \in BOOLEAN /\ faults \in Nat

(* The fence of the document: its row is no stage that a worker runs, it   *)
(* comes with the document, and whatever was erased leaves either a        *)
(* document without media or a fence that is gone for good.                *)
FenceOK ==
  /\ job["text"].state \in {"none", "queued", "cancelled", "deleted", "gone"}
  /\ job["text"].state # "none" => doc.exists
  /\ ~doc.exists => doc.batches = {}
  /\ erased => /\ doc.exists /\ doc.batches = {} /\ ~doc.completed
               /\ ~doc.media \/ job["text"].state \in {"deleted", "gone"}

(* Settled text: nothing is late before settlement, and what settlement    *)
(* admitted is still stored until its owner erases it, so that no late     *)
(* batch can be one that was admitted.                                     *)
LedgerOK ==
  /\ TextAccounted
  /\ ~ledger.closed => ledger.late = {}
  /\ ledger.closed /\ ~erased => ledger.admitted \subseteq doc.batches

(* Media validation is enqueued once, by the intake job that precedes it,  *)
(* and its audio goes with it.                                             *)
AudioOK ==
  /\ job["intake"].state \in ACTIVE => job["media"].state = "none"
  /\ job["media"].state = "gone" => ~wav

(* The inductive invariant. *)
UInv == TypeOK /\ FenceOK /\ LedgerOK /\ AudioOK

-----------------------------------------------------------------------------
LEMMA InitHolds == UInit => UInv
  <1> SUFFICES ASSUME UInit PROVE UInv
    OBVIOUS
  <1> USE DEF UInit, NoJob, Queued, NoMedia, NoAnalysis, NoDoc, NewLedger
  <1>1. /\ job \in [Stages -> JobRow]
        /\ job["text"].state = "none" /\ job["media"].state = "none"
    BY DEF JobRow, Stages, JobState
  <1>2. /\ media \in MediaRow /\ found \in MediaRow /\ analysis \in AnalysisRow
    BY DEF MediaRow, AnalysisRow
  <1>3. doc \in DocRow /\ ledger \in LedgerRow
    BY DEF DocRow, LedgerRow
  <1>4. TypeOK BY <1>1, <1>2, <1>3 DEF TypeOK
  <1>5. FenceOK /\ LedgerOK /\ AudioOK
    BY <1>1 DEF FenceOK, LedgerOK, AudioOK, TextAccounted
  <1> QED BY <1>4, <1>5 DEF UInv

(* Once something was erased, no text is taken for the upload any more. *)
LEMMA ErasedIneligible ==
  ASSUME FenceOK, Eligible
  PROVE  ~erased /\ (doc.exists => job["text"].state = "queued")
  BY DEF FenceOK, Eligible

(* A step that moves one row of a stage, other than the fence, between     *)
(* states that are not purged, leaves the document alone and opens the     *)
(* ledger at most.                                                         *)
LEMMA WorkerStep ==
  ASSUME UInv, NEW s \in Stages, NEW q \in JobRow,
         job' = [job EXCEPT ![s] = q],
         q.state \notin {"none", "gone"},
         s = "intake" /\ q.state \in ACTIVE => job["intake"].state \in ACTIVE,
         s = "media" => job["media"].state # "none",
         s = "text" => q.state = "cancelled" /\ job["text"].state = "queued",
         wav' = wav, UNCHANGED <<doc, erased>>,
         ledger'.closed = ledger.closed, ledger'.admitted = ledger.admitted,
         ledger'.late = ledger.late
  PROVE  job' \in [Stages -> JobRow] /\ FenceOK' /\ LedgerOK' /\ AudioOK'
  <1>1. /\ job' \in [Stages -> JobRow]
        /\ \A t \in Stages : job'[t] = IF t = s THEN q ELSE job[t]
    BY DEF UInv, TypeOK
  <1>2. {"intake", "media", "asr", "text"} \subseteq Stages BY DEF Stages
  <1>3. FenceOK' BY <1>1, <1>2 DEF UInv, FenceOK
  <1>4. LedgerOK' BY DEF UInv, LedgerOK, TextAccounted
  <1>5. AudioOK' BY <1>1, <1>2 DEF UInv, AudioOK
  <1> QED BY <1>1, <1>3, <1>4, <1>5

(* A row with another state, and what a cancellation makes of it. *)
LEMMA RowWith ==
  ASSUME TypeOK, NEW s \in Stages, NEW x \in {"none", "gone"} \cup JobState
  PROVE  /\ [job[s] EXCEPT !.state = x] \in JobRow
         /\ [job[s] EXCEPT !.state = x].state = x
         /\ [job EXCEPT ![s].state = x] = [job EXCEPT ![s] = [job[s] EXCEPT !.state = x]]
         /\ Queued \in JobRow /\ NoJob \in JobRow
  <1>1. job[s] \in JobRow BY DEF TypeOK
  <1>2. [job[s] EXCEPT !.state = x] \in JobRow /\ [job[s] EXCEPT !.state = x].state = x
    BY <1>1 DEF JobRow
  <1>3. Queued \in JobRow /\ NoJob \in JobRow BY DEF Queued, NoJob, JobRow, JobState
  <1> QED BY <1>2, <1>3

-----------------------------------------------------------------------------
(* The worker's stages and the owner's cancellation *)

LEMMA StartStep ==
  ASSUME UInv, NEW s \in Stages, Start(s)
  PROVE  UInv'
  <1>1. "running" \in {"none", "gone"} \cup JobState /\ "queued" \in ACTIVE
    BY DEF JobState, ACTIVE
  <1> DEFINE q == [job[s] EXCEPT !.state = "running"]
  <1>2. q \in JobRow /\ q.state = "running" /\ job' = [job EXCEPT ![s] = q]
    BY <1>1, RowWith DEF UInv, Start
  <1> HIDE DEF q
  <1>3. job' \in [Stages -> JobRow] /\ FenceOK' /\ LedgerOK' /\ AudioOK'
    <2>1. /\ s # "text" /\ job[s].state = "queued" /\ wav' = wav
          /\ UNCHANGED <<doc, erased>> /\ ledger' = ledger
      BY DEF Start
    <2> QED BY <1>1, <1>2, <2>1, WorkerStep
  <1>4. TypeOK' BY <1>3 DEF UInv, TypeOK, Start, NoMedia, MediaRow
  <1> QED BY <1>3, <1>4 DEF UInv

LEMMA FailStep ==
  ASSUME UInv, NEW s \in Stages, Fail(s)
  PROVE  UInv'
  <1>1. "failed" \in {"none", "gone"} \cup JobState /\ "failed" \notin ACTIVE
    BY DEF JobState, ACTIVE, LEASED_STATES
  <1> DEFINE q == [job[s] EXCEPT !.state = "failed"]
  <1>2. q \in JobRow /\ q.state = "failed" /\ job' = [job EXCEPT ![s] = q]
    BY <1>1, RowWith DEF UInv, Fail
  <1> HIDE DEF q
  <1>3. job' \in [Stages -> JobRow] /\ FenceOK' /\ LedgerOK' /\ AudioOK'
    BY <1>1, <1>2, WorkerStep DEF Fail, Live
  <1>4. TypeOK' BY <1>3 DEF UInv, TypeOK, Fail
  <1> QED BY <1>3, <1>4 DEF UInv

LEMMA RequeueStep ==
  ASSUME UInv, NEW s \in Stages, Requeue(s)
  PROVE  UInv'
  <1> DEFINE x == IF job[s].cancel THEN "cancelled" ELSE "queued"
             q == [job[s] EXCEPT !.state = x]
  <1>1. /\ x \in {"none", "gone"} \cup JobState /\ x \in {"cancelled", "queued"}
        /\ job[s].state \in ACTIVE /\ s # "text"
    BY DEF JobState, ACTIVE, LEASED_STATES, Requeue, UInv, FenceOK
  <1>2. q \in JobRow /\ q.state = x /\ job' = [job EXCEPT ![s] = q]
    BY <1>1, RowWith DEF UInv, Requeue
  <1> HIDE DEF q, x
  <1>3. job' \in [Stages -> JobRow] /\ FenceOK' /\ LedgerOK' /\ AudioOK'
    BY <1>1, <1>2, WorkerStep DEF Requeue
  <1>4. TypeOK' BY <1>3 DEF UInv, TypeOK, Requeue
  <1> QED BY <1>3, <1>4 DEF UInv

LEMMA AcknowledgeStep ==
  ASSUME UInv, NEW s \in Stages, Acknowledge(s)
  PROVE  UInv'
  <1>1. /\ "cancelled" \in {"none", "gone"} \cup JobState /\ "cancelled" \notin ACTIVE
        /\ s # "text"
    BY DEF JobState, ACTIVE, LEASED_STATES, Acknowledge, UInv, FenceOK
  <1> DEFINE q == [job[s] EXCEPT !.state = "cancelled"]
  <1>2. q \in JobRow /\ q.state = "cancelled" /\ job' = [job EXCEPT ![s] = q]
    BY <1>1, RowWith DEF UInv, Acknowledge
  <1> HIDE DEF q
  <1>3. job' \in [Stages -> JobRow] /\ FenceOK' /\ LedgerOK' /\ AudioOK'
    BY <1>1, <1>2, WorkerStep DEF Acknowledge
  <1>4. TypeOK' BY <1>3 DEF UInv, TypeOK, Acknowledge
  <1> QED BY <1>3, <1>4 DEF UInv

LEMMA CancelStep ==
  ASSUME UInv, NEW s \in Stages, Cancel(s)
  PROVE  UInv'
  <1> DEFINE q == [cancel |-> TRUE,
                   state |-> IF job[s].state = "queued" THEN "cancelled" ELSE job[s].state]
  <1>0. job[s] \in JobRow BY DEF UInv, TypeOK
  <1>1. /\ job[s].state \in ACTIVE /\ job[s].state \notin {"none", "gone"}
        /\ "cancelled" \notin ACTIVE
    BY DEF ACTIVE, LEASED_STATES, Cancel
  <1>2. /\ q \in JobRow /\ q.state \in {"cancelled", job[s].state}
        /\ job' = [job EXCEPT ![s] = q]
        /\ job[s].state = "queued" => q.state = "cancelled"
    BY <1>0 DEF JobRow, JobState, Cancel, UInv, TypeOK
  <1> HIDE DEF q
  <1>3. job[s].state = "queued" \/ s # "text"
    BY <1>1 DEF UInv, FenceOK, ACTIVE, LEASED_STATES
  <1>4. job' \in [Stages -> JobRow] /\ FenceOK' /\ LedgerOK' /\ AudioOK'
    <2>1. wav' = wav /\ UNCHANGED <<doc, erased>> /\ ledger' = ledger BY DEF Cancel
    <2>2. q.state \notin {"none", "gone"} BY <1>1, <1>2
    <2>3. s = "text" => q.state = "cancelled" /\ job["text"].state = "queued" BY <1>2, <1>3
    <2>4. s = "media" => job["media"].state # "none" BY <1>1
    <2>5. s = "intake" /\ q.state \in ACTIVE => job["intake"].state \in ACTIVE BY <1>1
    <2> QED BY <1>2, <2>1, <2>2, <2>3, <2>4, <2>5, WorkerStep
  <1>5. TypeOK' BY <1>4 DEF UInv, TypeOK, Cancel
  <1> QED BY <1>4, <1>5 DEF UInv

(* The stages that enqueue the next one, and the retry of speech. *)
LEMMA PublishIntakeStep ==
  ASSUME UInv, PublishIntake
  PROVE  UInv'
  <1>1. /\ job \in [Stages -> JobRow] /\ {"intake", "media", "asr", "text"} \subseteq Stages
        /\ Queued \in JobRow /\ Queued.state = "queued"
    BY DEF UInv, TypeOK, Stages, Queued, JobRow, JobState
  <1> DEFINE q == [job["intake"] EXCEPT !.state = "published"]
  <1>2. q \in JobRow /\ q.state = "published" BY <1>1 DEF JobRow, JobState
  <1>3. job' = [job EXCEPT !["intake"] = q, !["media"] = Queued] BY DEF PublishIntake
  <1> HIDE DEF q
  <1>4. /\ job' \in [Stages -> JobRow] /\ job'["intake"] = q /\ job'["media"] = Queued
        /\ job'["text"] = job["text"]
    BY <1>1, <1>2, <1>3
  <1>5. TypeOK' BY <1>4 DEF UInv, TypeOK, PublishIntake
  <1>6. FenceOK' BY <1>4 DEF UInv, FenceOK, PublishIntake
  <1>7. LedgerOK' BY DEF UInv, LedgerOK, TextAccounted, PublishIntake
  <1>8. AudioOK' BY <1>1, <1>2, <1>4 DEF AudioOK, ACTIVE, LEASED_STATES
  <1> QED BY <1>5, <1>6, <1>7, <1>8 DEF UInv

LEMMA PrepareStep ==
  ASSUME UInv, Prepare
  PROVE  UInv'
  <1>1. PICK m \in Probed : found' = m /\ PublishAudio(m) BY DEF Prepare
  <1>2. found' \in MediaRow /\ wav' \in BOOLEAN BY <1>1 DEF Probed, MediaRow, PublishAudio
  <1>3. /\ UNCHANGED <<job, media, spoken, analysis, due, doc, ledger, erased, faults>>
        /\ job["media"].state = "running"
    BY DEF Prepare, Live
  <1>4. TypeOK' BY <1>2, <1>3 DEF UInv, TypeOK
  <1>5. FenceOK' /\ LedgerOK' BY <1>3 DEF UInv, FenceOK, LedgerOK, TextAccounted
  <1>6. AudioOK' BY <1>3 DEF UInv, AudioOK
  <1> QED BY <1>4, <1>5, <1>6 DEF UInv

LEMMA PublishMediaStep ==
  ASSUME UInv, PublishMedia
  PROVE  UInv'
  <1> DEFINE speech == asr_configured /\ found.audio
             q == [job["media"] EXCEPT !.state = "published"]
             a == IF speech /\ job["asr"].state = "none" THEN Queued ELSE job["asr"]
  <1>1. /\ job \in [Stages -> JobRow] /\ {"intake", "media", "asr", "text"} \subseteq Stages
        /\ Queued \in JobRow
    BY DEF UInv, TypeOK, Stages, Queued, JobRow, JobState
  <1>2. q \in JobRow /\ q.state = "published" /\ a \in JobRow BY <1>1 DEF JobRow, JobState
  <1>3. job' = [job EXCEPT !["media"] = q, !["asr"] = a] BY DEF PublishMedia
  <1> HIDE DEF q, a
  <1>4. /\ job' \in [Stages -> JobRow] /\ job'["intake"] = job["intake"] /\ job'["media"] = q
        /\ job'["text"] = job["text"]
    BY <1>1, <1>2, <1>3
  <1>5. /\ media' = found /\ found' = NoMedia /\ job["media"].state = "running"
        /\ analysis' = [exists |-> TRUE, deadline |-> IF speech THEN "none" ELSE "set",
                        expired |-> FALSE]
        /\ ledger' = [ledger EXCEPT !.open = ~speech]
        /\ UNCHANGED <<wav, spoken, due, doc, erased, faults>>
    BY DEF PublishMedia, Live
  <1>6. /\ ledger' \in LedgerRow /\ ledger'.closed = ledger.closed
        /\ ledger'.admitted = ledger.admitted /\ ledger'.late = ledger.late
    BY <1>5 DEF UInv, TypeOK, LedgerRow
  <1>7. analysis' \in AnalysisRow /\ found' \in MediaRow /\ media' \in MediaRow
    BY <1>5 DEF UInv, TypeOK, AnalysisRow, MediaRow, NoMedia
  <1>8. TypeOK' BY <1>4, <1>5, <1>6, <1>7 DEF UInv, TypeOK
  <1>9. FenceOK' BY <1>4, <1>5 DEF UInv, FenceOK
  <1>10. LedgerOK' BY <1>5, <1>6 DEF UInv, LedgerOK, TextAccounted
  <1>11. AudioOK' BY <1>2, <1>4, <1>5 DEF UInv, AudioOK
  <1> QED BY <1>8, <1>9, <1>10, <1>11 DEF UInv

LEMMA EndSpeechStep ==
  ASSUME UInv, EndSpeech
  PROVE  UInv'
  <1>1. PICK x \in {"published", "failed"} :
          /\ job' = [job EXCEPT !["asr"].state = x] /\ analysis' = DeadlineAfter(x)
          /\ spoken' \in BOOLEAN /\ (ledger' = OpenLedger \/ ledger' = ledger)
    BY DEF EndSpeech, UInv, TypeOK
  <1>2. "asr" \in Stages /\ x \in {"none", "gone"} \cup JobState BY DEF Stages, JobState
  <1> DEFINE q == [job["asr"] EXCEPT !.state = x]
  <1>3. q \in JobRow /\ q.state = x /\ job' = [job EXCEPT !["asr"] = q]
    BY <1>1, <1>2, RowWith DEF UInv
  <1> HIDE DEF q
  <1>4. UNCHANGED <<media, found, wav, due, doc, erased, faults>> BY DEF EndSpeech
  <1>5. /\ ledger' \in LedgerRow /\ ledger'.closed = ledger.closed
        /\ ledger'.admitted = ledger.admitted /\ ledger'.late = ledger.late
    BY <1>1 DEF UInv, TypeOK, LedgerRow, OpenLedger
  <1>6. job' \in [Stages -> JobRow] /\ FenceOK' /\ LedgerOK' /\ AudioOK'
    BY <1>2, <1>3, <1>4, <1>5, WorkerStep
  <1>7. analysis' \in AnalysisRow BY <1>1 DEF UInv, TypeOK, AnalysisRow, DeadlineAfter
  <1>8. TypeOK' BY <1>1, <1>4, <1>5, <1>6, <1>7 DEF UInv, TypeOK
  <1> QED BY <1>6, <1>8 DEF UInv

LEMMA RetrySpeechStep ==
  ASSUME UInv, RetrySpeech
  PROVE  UInv'
  <1>1. /\ "asr" \in Stages /\ Queued \in JobRow /\ Queued.state \notin {"none", "gone"}
    BY DEF Stages, Queued, JobRow, JobState
  <1>2. /\ job' = [job EXCEPT !["asr"] = Queued] /\ faults' = faults + 1
        /\ UNCHANGED <<media, found, wav, spoken, analysis, due, doc, ledger, erased>>
    BY DEF RetrySpeech
  <1>3. job' \in [Stages -> JobRow] /\ FenceOK' /\ LedgerOK' /\ AudioOK'
    BY <1>1, <1>2, WorkerStep
  <1>4. TypeOK' BY <1>2, <1>3 DEF UInv, TypeOK
  <1> QED BY <1>3, <1>4 DEF UInv

-----------------------------------------------------------------------------
(* Erasure *)

LEMMA DeleteStep ==
  ASSUME UInv, NEW s \in Stages, Delete(s)
  PROVE  UInv'
  <1> DEFINE q == [NoJob EXCEPT !.state = "deleted"]
  <1>1. /\ job \in [Stages -> JobRow] /\ {"intake", "media", "asr", "text"} \subseteq Stages
        /\ q \in JobRow /\ q.state = "deleted" /\ job' = [job EXCEPT ![s] = q]
    BY DEF UInv, TypeOK, Stages, NoJob, JobRow, JobState, Delete
  <1> HIDE DEF q
  <1>2. job' \in [Stages -> JobRow] /\ \A t \in Stages : job'[t] = IF t = s THEN q ELSE job[t]
    BY <1>1
  <1>3. /\ doc' = Erased(s) /\ erased' = TRUE /\ HasRow(s)
        /\ media' \in MediaRow /\ spoken' \in BOOLEAN
        /\ UNCHANGED <<found, wav, analysis, due, ledger, faults>>
    BY DEF Delete, UInv, TypeOK, MediaRow, NoMedia
  <1>4. /\ doc' \in DocRow /\ doc'.batches = {} /\ ~doc'.completed
        /\ s = "text" => doc'.exists = doc.exists
        /\ s # "text" => doc'.exists /\ ~doc'.media
    BY <1>3 DEF Erased, NoDoc, DocRow, UInv, TypeOK
  <1>5. TypeOK' BY <1>2, <1>3, <1>4 DEF UInv, TypeOK
  <1>6. FenceOK' BY <1>1, <1>2, <1>3, <1>4 DEF UInv, FenceOK, HasRow
  <1>7. LedgerOK' BY <1>3, <1>4 DEF UInv, LedgerOK, TextAccounted
  <1>8. AudioOK' BY <1>1, <1>2, <1>3 DEF UInv, AudioOK, HasRow, ACTIVE, LEASED_STATES
  <1> QED BY <1>5, <1>6, <1>7, <1>8 DEF UInv

LEMMA PurgeStep ==
  ASSUME UInv, NEW s \in Stages, Purge(s)
  PROVE  UInv'
  <1>0. "gone" \in {"none", "gone"} \cup JobState OBVIOUS
  <1> DEFINE q == [job[s] EXCEPT !.state = "gone"]
  <1>1. /\ job \in [Stages -> JobRow] /\ {"intake", "media", "asr", "text"} \subseteq Stages
        /\ q \in JobRow /\ q.state = "gone" /\ job' = [job EXCEPT ![s] = q]
    BY <1>0, RowWith DEF UInv, TypeOK, Stages, Purge
  <1> HIDE DEF q
  <1>2. job' \in [Stages -> JobRow] /\ \A t \in Stages : job'[t] = IF t = s THEN q ELSE job[t]
    BY <1>1
  <1>3. /\ job[s].state = "deleted" /\ wav' = (wav /\ s # "media")
        /\ analysis' \in AnalysisRow
        /\ doc' = IF s = "media" THEN [doc EXCEPT !.media = FALSE] ELSE doc
        /\ UNCHANGED <<media, found, spoken, due, ledger, erased, faults>>
    BY DEF Purge, UInv, TypeOK, AnalysisRow, NoAnalysis
  <1>4. /\ doc' \in DocRow /\ doc'.batches = doc.batches /\ doc'.completed = doc.completed
        /\ doc'.exists = doc.exists /\ (doc'.media => doc.media)
    BY <1>3 DEF DocRow, UInv, TypeOK
  <1>5. TypeOK' BY <1>2, <1>3, <1>4 DEF UInv, TypeOK
  <1>6. FenceOK' BY <1>1, <1>2, <1>3, <1>4 DEF UInv, FenceOK
  <1>7. LedgerOK' BY <1>3, <1>4 DEF UInv, LedgerOK, TextAccounted
  <1>8. AudioOK' BY <1>1, <1>2, <1>3 DEF UInv, AudioOK, ACTIVE, LEASED_STATES
  <1> QED BY <1>5, <1>6, <1>7, <1>8 DEF UInv

-----------------------------------------------------------------------------
(* Device text, deadline and settlement *)

(* A document that takes text has its fence queued, and nothing was erased. *)
LEMMA DocumentTakesText ==
  ASSUME UInv, Eligible
  PROVE  /\ ~erased
         /\ WithDoc \in DocRow /\ WithDoc.exists /\ WithDoc.batches = doc.batches
         /\ WithFence \in [Stages -> JobRow] /\ WithFence["text"].state = "queued"
         /\ WithFence["intake"] = job["intake"] /\ WithFence["media"] = job["media"]
  <1>1. ~erased /\ (doc.exists => job["text"].state = "queued") BY ErasedIneligible DEF UInv
  <1>2. CASE doc.exists
    BY <1>1, <1>2 DEF WithDoc, WithFence, UInv, TypeOK
  <1>3. CASE ~doc.exists
    <2>1. doc.batches = {} BY <1>3 DEF UInv, FenceOK
    <2>2. WithDoc \in DocRow /\ WithDoc.exists /\ WithDoc.batches = {}
      BY <1>3 DEF WithDoc, NoDoc, DocRow
    <2>3. Queued \in JobRow /\ Queued.state = "queued" BY DEF Queued, JobRow, JobState
    <2>4. WithFence = [job EXCEPT !["text"] = Queued] BY <1>3 DEF WithFence
    <2>5. /\ WithFence \in [Stages -> JobRow] /\ WithFence["text"].state = "queued"
          /\ WithFence["intake"] = job["intake"] /\ WithFence["media"] = job["media"]
      BY <2>3, <2>4 DEF UInv, TypeOK, Stages
    <2> QED BY <1>1, <2>1, <2>2, <2>5
  <1> QED BY <1>2, <1>3

LEMMA PutBatchStep ==
  ASSUME UInv, NEW n \in Batches, NEW body \in TextBodies, PutBatch(n, body)
  PROVE  UInv'
  <1> DEFINE b == <<n, body>>
  <1>1. /\ Eligible /\ doc' = [WithDoc EXCEPT !.batches = @ \cup {b}] /\ job' = WithFence
        /\ ledger' = LateText(b) /\ \A e \in doc.batches : e[1] # n
        /\ UNCHANGED <<media, found, wav, spoken, analysis, due, erased, faults>>
    BY DEF PutBatch
  <1>2. b \in Texts /\ b \notin doc.batches BY <1>1 DEF Texts
  <1> HIDE DEF b
  <1>3. /\ doc' \in DocRow /\ doc'.exists /\ doc'.batches = doc.batches \cup {b}
    <2>1. doc' = [WithDoc EXCEPT !.batches = WithDoc.batches \cup {b}] BY <1>1
    <2>2. WithDoc \in DocRow /\ WithDoc.exists /\ WithDoc.batches = doc.batches
      BY <1>1, DocumentTakesText
    <2> HIDE DEF WithDoc
    <2> QED BY <1>2, <2>1, <2>2 DEF DocRow
  <1>4. /\ ~erased /\ job' \in [Stages -> JobRow] /\ job'["text"].state = "queued"
        /\ job'["intake"] = job["intake"] /\ job'["media"] = job["media"]
    BY <1>1, DocumentTakesText
  <1>5. /\ ledger' \in LedgerRow /\ ledger'.closed = ledger.closed
        /\ ledger'.admitted = ledger.admitted
        /\ ledger'.late = IF ledger.closed THEN ledger.late \cup {b} ELSE ledger.late
    BY <1>1, <1>2 DEF LateText, LedgerRow, UInv, TypeOK
  <1>6. TypeOK' BY <1>1, <1>3, <1>4, <1>5 DEF UInv, TypeOK
  <1>7. FenceOK' BY <1>1, <1>3, <1>4 DEF FenceOK
  <1>8. LedgerOK' BY <1>1, <1>2, <1>3, <1>4, <1>5 DEF UInv, LedgerOK, TextAccounted
  <1>9. AudioOK' BY <1>1, <1>4 DEF UInv, AudioOK
  <1> QED BY <1>6, <1>7, <1>8, <1>9 DEF UInv

LEMMA CompleteTextStep ==
  ASSUME UInv, CompleteText
  PROVE  UInv'
  <1>1. PICK d \in BOOLEAN : doc' = [WithDoc EXCEPT !.completed = TRUE, !.dropped = d]
    BY DEF CompleteText
  <1>2. /\ Eligible /\ job' = WithFence
        /\ UNCHANGED <<media, found, wav, spoken, analysis, due, ledger, erased, faults>>
    BY DEF CompleteText
  <1>3. doc' \in DocRow /\ doc'.exists /\ doc'.batches = doc.batches
    <2>1. WithDoc \in DocRow /\ WithDoc.exists /\ WithDoc.batches = doc.batches
      BY <1>2, DocumentTakesText
    <2> HIDE DEF WithDoc
    <2> QED BY <1>1, <2>1 DEF DocRow
  <1>4. /\ ~erased /\ job' \in [Stages -> JobRow] /\ job'["text"].state = "queued"
        /\ job'["intake"] = job["intake"] /\ job'["media"] = job["media"]
    BY <1>2, DocumentTakesText
  <1>5. TypeOK' BY <1>2, <1>3, <1>4 DEF UInv, TypeOK
  <1>6. FenceOK' BY <1>2, <1>3, <1>4 DEF FenceOK
  <1>7. LedgerOK' BY <1>2, <1>3 DEF UInv, LedgerOK, TextAccounted
  <1>8. AudioOK' BY <1>2, <1>4 DEF UInv, AudioOK
  <1> QED BY <1>5, <1>6, <1>7, <1>8 DEF UInv

LEMMA DeadlineStep ==
  ASSUME UInv, Due \/ ResolveRead \/ ResolveCommit
  PROVE  UInv'
  <1>1. /\ analysis' \in AnalysisRow /\ due' \in BOOLEAN
        /\ UNCHANGED <<job, media, found, wav, spoken, doc, ledger, erased, faults>>
    BY DEF Due, ResolveRead, ResolveCommit, UInv, TypeOK, AnalysisRow
  <1> QED BY <1>1 DEF UInv, TypeOK, FenceOK, LedgerOK, TextAccounted, AudioOK

LEMMA SettleInputStep ==
  ASSUME UInv, SettleInput
  PROVE  UInv'
  <1>1. /\ ~ledger.closed
        /\ ledger' = [ledger EXCEPT !.closed = TRUE, !.admitted = doc.batches]
        /\ UNCHANGED <<job, media, found, wav, spoken, analysis, due, doc, erased, faults>>
    BY DEF SettleInput, UploadText
  <1>2. /\ ledger' \in LedgerRow /\ ledger'.closed /\ ledger'.admitted = doc.batches
        /\ ledger'.late = ledger.late
    BY <1>1 DEF UInv, TypeOK, LedgerRow, DocRow
  <1>3. TypeOK' /\ FenceOK' /\ AudioOK' BY <1>1, <1>2 DEF UInv, TypeOK, FenceOK, AudioOK
  <1>4. LedgerOK' BY <1>1, <1>2 DEF UInv, LedgerOK, TextAccounted
  <1> QED BY <1>3, <1>4 DEF UInv

-----------------------------------------------------------------------------
LEMMA NextHolds == UInv /\ [UNext]_uvars => UInv'
  <1> SUFFICES ASSUME UInv, [UNext]_uvars PROVE UInv'
    OBVIOUS
  <1>1. ASSUME NEW s \in Stages,
               \/ Start(s) \/ Fail(s) \/ Requeue(s) \/ Acknowledge(s)
               \/ Cancel(s) \/ Delete(s) \/ Purge(s)
        PROVE  UInv'
    BY <1>1, StartStep, FailStep, RequeueStep, AcknowledgeStep, CancelStep, DeleteStep, PurgeStep
  <1>2. ASSUME NEW n \in Batches, NEW body \in TextBodies, PutBatch(n, body) PROVE UInv'
    BY <1>2, PutBatchStep
  <1>3. CASE UNCHANGED uvars
    BY <1>3 DEF uvars, UInv, TypeOK, FenceOK, LedgerOK, TextAccounted, AudioOK
  <1> QED
    BY <1>1, <1>2, <1>3, PublishIntakeStep, PrepareStep, PublishMediaStep, EndSpeechStep,
       RetrySpeechStep, CompleteTextStep, DeadlineStep, SettleInputStep DEF UNext

(* Device text is kept: once the input is settled every stored batch was   *)
(* either handed to extraction or recorded as late and never both, and     *)
(* text or audio that its owner erased does not come back, in whatever     *)
(* order batches, completion, deadline, settlement, cancellation, deletion *)
(* and retention fall (put_batch, settle_inputs, JobQueue.delete).         *)
THEOREM TextIsKept == USpec => []TextKept
  <1>1. UInv => TextKept
    BY DEF UInv, FenceOK, LedgerOK, AudioOK, TextKept, ErasedStaysErased
  <1> QED BY <1>1, InitHolds, NextHolds, PTL DEF USpec

(* An analysis is shown only of an upload of which nothing was erased:     *)
(* The client is told the truth about the analysis of its upload: what the *)
(* read model makes of the tables never calls delivered text missing, and  *)
(* calls an analysis complete, or without usable content, only when speech *)
(* and text are both over; and nothing of an upload is analysed for its    *)
(* reader after a part of it was erased (summarize, uploaded_analysis,     *)
(* read_models).                                                           *)
THEOREM AnalysisIsTruthful == USpec => []AnalysisTruthful
  <1>1. ASSUME UInv PROVE AnalysisTruthful
    <2> SUFFICES ASSUME HasAnalysis
                 PROVE  /\ ~erased
                        /\ doc.completed => ~Missing
                        /\ Status = "complete" => /\ Speech = "completed" /\ doc.completed /\ ~doc.dropped
                                                  /\ "failed" \notin Frames
                        /\ Status = "no_usable" => /\ doc.completed \/ analysis.expired
                                                   /\ "words" \notin Frames
                                                   /\ job["asr"].state \notin ACTIVE
      BY DEF AnalysisTruthful
    <2>1. Speech \in {"completed", "pending", "unavailable"}
      BY DEF Speech, HasAnalysis
    <2>2. job["asr"].state \in ACTIVE => Speech = "pending"
      BY DEF Speech, HasRow, ACTIVE, LEASED_STATES
    <2>3. Status = "complete" => Usable /\ ~Gaps /\ ~Waiting BY DEF Status
    <2>4. Status = "no_usable" => ~Usable /\ ~Waiting BY DEF Status
    <2>5. (doc.completed => ~Missing) /\ ~erased
      BY <1>1 DEF Missing, UInv, FenceOK, HasAnalysis, HasRow
    <2>6. Status = "complete" => /\ Speech = "completed" /\ doc.completed /\ ~doc.dropped
                                 /\ "failed" \notin Frames
      BY <2>1, <2>3 DEF Gaps, Waiting, Missing
    <2>7. Status = "no_usable" => /\ doc.completed \/ analysis.expired
                                  /\ "words" \notin Frames
                                  /\ job["asr"].state \notin ACTIVE
      BY <2>2, <2>4 DEF Usable, Waiting
    <2> QED BY <2>5, <2>6, <2>7
  <1> QED BY <1>1, InitHolds, NextHolds, PTL DEF USpec

(* Accepted text is kept or erased, and the reader of the analysis is told *)
(* which (put_batch, settle_inputs, JobQueue.delete, summarize).           *)
THEOREM TextIsTruthful == USpec => []TextTruthful
  BY TextIsKept, AnalysisIsTruthful, PTL DEF TextTruthful
=============================================================================
