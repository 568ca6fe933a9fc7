-------------------------------- MODULE Upload --------------------------------
(***************************************************************************)
(* The media pipeline of an uploaded investigation: intake, media          *)
(* validation with its audio artifact, speech, the device text that the    *)
(* client submits beside them (api/routes/device_text.py), the deadline    *)
(* that stops waiting for that text (pipeline/analysis.py), its            *)
(* settlement into the extraction ledger (pipeline/producers.py) and the   *)
(* read model a client polls (api/routes/investigations.py).               *)
(*                                                                         *)
(* A batch of device text holds one frame; its body says what became of    *)
(* it.  Only whether the deadline has passed is kept of time.              *)
(***************************************************************************)
EXTENDS Integers, FiniteSets, JobStates

CONSTANTS
  Batches,          \* the batch identifiers a client may use: 0..n
  TextBodies,       \* subset of {"words", "blank", "failed"}
  asr_configured,   \* speech is enabled and has a provider
  MaxFaults         \* bound: crashes, transient failures and retried speech

ASSUME UploadAssumption ==
  /\ Batches = 0..(Cardinality(Batches) - 1) /\ TextBodies \subseteq {"words", "blank", "failed"}
  /\ asr_configured \in BOOLEAN /\ MaxFaults \in Nat

Stages == {"intake", "media", "asr", "text"}
Prerequisites == {"intake", "media", "asr"}

VARIABLES
  job,       \* job[s]: the row of stage s; "text" is the fence of the document
  media,     \* what media validation found, once it is published
  found,     \* what its handler has prepared so far (volatile)
  wav,       \* the audio artifact is on disk
  spoken,    \* the published speech has segments
  analysis,  \* the media_analysis row
  due,       \* resolve_due() of a claim that has not committed (volatile)
  doc,       \* the upload_text row
  ledger,    \* the extraction ledger, as far as text goes
  erased,    \* a prerequisite or the text was deleted (history)
  faults

uvars == <<job, media, found, wav, spoken, analysis, due, doc, ledger, erased, faults>>

-----------------------------------------------------------------------------
(* State *)

NoJob == [state |-> "none", cancel |-> FALSE]
Queued == [state |-> "queued", cancel |-> FALSE]
NoMedia == [ready |-> FALSE, audio |-> FALSE, video |-> FALSE]
NoAnalysis == [exists |-> FALSE, deadline |-> "none", expired |-> FALSE]
NoDoc == [exists |-> FALSE, media |-> FALSE, batches |-> {}, completed |-> FALSE, dropped |-> FALSE]
NewLedger == [open |-> FALSE, closed |-> FALSE, admitted |-> {}, late |-> {}]

UInit ==
  /\ job = [s \in Stages |-> IF s = "intake" THEN Queued ELSE NoJob]
  /\ media = NoMedia /\ found = NoMedia /\ wav = FALSE /\ spoken = FALSE
  /\ analysis = NoAnalysis /\ due = FALSE /\ doc = NoDoc /\ ledger = NewLedger
  /\ erased = FALSE /\ faults = 0

Live(s) == job[s].state = "running" /\ ~job[s].cancel
HasRow(s) == job[s].state \notin {"none", "gone"}
Over(s) == job[s].state \in {"published", "failed", "cancelled", "deleted"}

-----------------------------------------------------------------------------
(* The worker's stages *)

Start(s) ==
  /\ s # "text" /\ job[s].state = "queued"
  /\ job' = [job EXCEPT ![s].state = "running"]
  /\ found' = IF s = "media" THEN NoMedia ELSE found
  /\ UNCHANGED <<media, wav, spoken, analysis, due, doc, ledger, erased, faults>>

(* intake_stage(): media validation is enqueued with the publication. *)
PublishIntake ==
  /\ Live("intake")
  /\ job' = [job EXCEPT !["intake"].state = "published", !["media"] = Queued]
  /\ UNCHANGED <<media, found, wav, spoken, analysis, due, doc, ledger, erased, faults>>

(* _prepare(): what a source that can be decoded within its limits holds *)
Probed == {m \in [ready : {TRUE}, audio : BOOLEAN, video : BOOLEAN] : m.audio \/ m.video}

(* _publish_audio() links the artifact of a source with sound; one that an *)
(* earlier attempt linked is kept.                                         *)
PublishAudio(m) == wav' = (wav \/ m.audio)

(* The artifact is linked under lock_active(), which retention respects.   *)
Prepare ==
  /\ Live("media") /\ ~found.ready
  /\ \E m \in Probed : found' = m /\ PublishAudio(m)
  /\ UNCHANGED <<job, media, spoken, analysis, due, doc, ledger, erased, faults>>

(* Publication of the media result: speech is the next stage, or it is     *)
(* unavailable and the wait for text and the ledger start now.             *)
PublishMedia ==
  LET speech == asr_configured /\ found.audio IN
  /\ Live("media") /\ found.ready
  /\ media' = found
  /\ job' = [job EXCEPT !["media"].state = "published",
                        !["asr"] = IF speech /\ @.state = "none" THEN Queued ELSE @]
  /\ analysis' = [exists |-> TRUE, deadline |-> IF speech THEN "none" ELSE "set", expired |-> FALSE]
  /\ ledger' = [ledger EXCEPT !.open = ~speech]
  /\ found' = NoMedia
  /\ UNCHANGED <<wav, spoken, due, doc, erased, faults>>

(* Mutant: only a failure starts the wait for text. *)
DeadlineAfterFailure(state) ==
  IF analysis.exists /\ analysis.deadline = "none" /\ state = "failed"
  THEN [analysis EXCEPT !.deadline = "set"] ELSE analysis

(* record_terminal() of the speech job *)
DeadlineAfter(state) ==
  IF analysis.exists /\ analysis.deadline = "none"
  THEN [analysis EXCEPT !.deadline = "set"] ELSE analysis

(* admit_upload_speech(): the ledger opens with the publication of speech *)
OpenLedger == [ledger EXCEPT !.open = TRUE]

(* The speech job reads media's published result before it asks anybody.   *)
EndSpeech ==
  /\ Live("asr")
  /\ \/ /\ media.ready /\ wav /\ spoken' \in BOOLEAN
        /\ job' = [job EXCEPT !["asr"].state = "published"]
        /\ analysis' = DeadlineAfter("published")
        /\ ledger' = OpenLedger
     \/ /\ job' = [job EXCEPT !["asr"].state = "failed"]
        /\ analysis' = DeadlineAfter("failed")
        /\ UNCHANGED <<spoken, ledger>>
  /\ UNCHANGED <<media, found, wav, due, doc, erased, faults>>

(* Refused input: a stage fails; a rejected intake or media ends there.    *)
Fail(s) ==
  /\ s \in {"intake", "media"} /\ Live(s)
  /\ job' = [job EXCEPT ![s].state = "failed"]
  /\ UNCHANGED <<media, found, wav, spoken, analysis, due, doc, ledger, erased, faults>>

(* A crash, a lost lease or a transient failure *)
Requeue(s) ==
  /\ job[s].state = "running" /\ faults < MaxFaults
  /\ job' = [job EXCEPT ![s].state = IF job[s].cancel THEN "cancelled" ELSE "queued"]
  /\ faults' = faults + 1
  /\ UNCHANGED <<media, found, wav, spoken, analysis, due, doc, ledger, erased>>

Acknowledge(s) ==
  /\ job[s].state = "running" /\ job[s].cancel
  /\ job' = [job EXCEPT ![s].state = "cancelled"]
  /\ UNCHANGED <<media, found, wav, spoken, analysis, due, doc, ledger, erased, faults>>

-----------------------------------------------------------------------------
(* The owner *)

Cancel(s) ==
  /\ job[s].state \in ACTIVE /\ ~job[s].cancel
  /\ job' = [job EXCEPT ![s] = [cancel |-> TRUE,
                                state |-> IF @.state = "queued" THEN "cancelled" ELSE @.state]]
  /\ UNCHANGED <<media, found, wav, spoken, analysis, due, doc, ledger, erased, faults>>

(* JobQueue.delete(): the text goes with any prerequisite, and a document  *)
(* without a media job fences the source for good.                         *)
Erased(s) ==
  IF s = "text" THEN [doc EXCEPT !.batches = {}, !.completed = FALSE, !.dropped = FALSE]
  ELSE [NoDoc EXCEPT !.exists = TRUE]

Delete(s) ==
  /\ HasRow(s) /\ job[s].state # "deleted"
  /\ job' = [job EXCEPT ![s] = [NoJob EXCEPT !.state = "deleted"]]
  /\ media' = IF s = "media" THEN NoMedia ELSE media
  /\ spoken' = (spoken /\ s # "asr")
  /\ doc' = Erased(s)
  /\ erased' = TRUE
  /\ UNCHANGED <<found, wav, analysis, due, ledger, faults>>

(* Retention removes a tombstone with its artifacts; the analysis row      *)
(* cascades and the document's references become null.                     *)
Purge(s) ==
  /\ job[s].state = "deleted"
  /\ job' = [job EXCEPT ![s].state = "gone"]
  /\ wav' = (wav /\ s # "media")
  /\ analysis' = IF s = "media" THEN NoAnalysis ELSE analysis
  /\ doc' = IF s = "media" THEN [doc EXCEPT !.media = FALSE] ELSE doc
  /\ UNCHANGED <<media, found, spoken, due, ledger, erased, faults>>

(* retry_speech(): speech that was refused for quota becomes runnable. *)
RetrySpeech ==
  /\ job["asr"].state = "failed" /\ media.ready /\ wav /\ faults < MaxFaults
  /\ \A s \in Prerequisites : ~job[s].cancel /\ job[s].state \notin {"deleted", "cancelled"}
  /\ doc.exists => doc.media
  /\ job' = [job EXCEPT !["asr"] = Queued]
  /\ faults' = faults + 1
  /\ UNCHANGED <<media, found, wav, spoken, analysis, due, doc, ledger, erased>>

-----------------------------------------------------------------------------
(* Device text *)

(* eligible() and text_state() *)
Eligible ==
  /\ \A s \in Prerequisites : ~job[s].cancel /\ job[s].state \notin {"cancelled", "deleted"}
  /\ job["media"].state = "published" /\ media.video
  /\ doc.exists => doc.media /\ job["text"].state = "queued"

(* create_text_document() *)
WithDoc == IF doc.exists THEN doc ELSE [NoDoc EXCEPT !.exists = TRUE, !.media = TRUE]
WithFence == IF doc.exists THEN job ELSE [job EXCEPT !["text"] = Queued]

(* Mutant: a batch that arrives after settlement is only stored. *)
LateIgnored(b) == ledger

(* admit_late_text() *)
LateText(b) == IF ledger.closed THEN [ledger EXCEPT !.late = @ \cup {b}] ELSE ledger

(* put_batch(): the same batch again is answered and changes nothing, and  *)
(* a different one under its identifier is a conflict.                     *)
PutBatch(n, body) ==
  /\ Eligible /\ ~doc.completed
  /\ \A b \in doc.batches : b[1] # n
  /\ doc' = [WithDoc EXCEPT !.batches = @ \cup {<<n, body>>}]
  /\ job' = WithFence
  /\ ledger' = LateText(<<n, body>>)
  /\ UNCHANGED <<media, found, wav, spoken, analysis, due, erased, faults>>

(* complete_text(): the batches are exactly those the client counted. *)
CompleteText ==
  /\ Eligible /\ ~doc.completed
  /\ {b[1] : b \in doc.batches} = 0..(Cardinality(doc.batches) - 1)
  /\ \E d \in BOOLEAN : doc' = [WithDoc EXCEPT !.completed = TRUE, !.dropped = d]
  /\ job' = WithFence
  /\ UNCHANGED <<media, found, wav, spoken, analysis, due, ledger, erased, faults>>

(* The grace passes; the next claim looks for due rows and for completions *)
(* in its snapshot, and commits later.                                     *)
Due ==
  /\ analysis.deadline = "set"
  /\ analysis' = [analysis EXCEPT !.deadline = "past"]
  /\ UNCHANGED <<job, media, found, wav, spoken, due, doc, ledger, erased, faults>>

ResolveRead ==
  /\ ~due /\ analysis.deadline = "past" /\ ~analysis.expired /\ ~(doc.media /\ doc.completed)
  /\ due' = TRUE
  /\ UNCHANGED <<job, media, found, wav, spoken, analysis, doc, ledger, erased, faults>>

ResolveCommit ==
  /\ due /\ due' = FALSE
  /\ analysis' = IF analysis.exists THEN [analysis EXCEPT !.expired = TRUE] ELSE analysis
  /\ UNCHANGED <<job, media, found, wav, spoken, doc, ledger, erased, faults>>

(* _upload_settled(): speech is over and so is the text *)
UploadSettled ==
  /\ HasRow("asr") => Over("asr")
  /\ analysis.exists /\ (analysis.expired \/ (doc.media /\ doc.completed))

(* _upload_text(): what was received, completed or not *)
UploadText == doc.batches

(* settle_inputs() of this upload *)
SettleInput ==
  /\ ledger.open /\ ~ledger.closed /\ UploadSettled
  /\ ledger' = [ledger EXCEPT !.closed = TRUE, !.admitted = UploadText]
  /\ UNCHANGED <<job, media, found, wav, spoken, analysis, due, doc, erased, faults>>

-----------------------------------------------------------------------------
(* The read model *)

(* job_states(): the last stage that has a row *)
Current == IF HasRow("asr") THEN "asr" ELSE IF HasRow("media") THEN "media" ELSE "intake"

(* investigation_response() *)
Speech ==
  IF HasRow("asr")
  THEN CASE job["asr"].state = "published" -> "completed"
         [] job["asr"].state \in ACTIVE -> "pending"
         [] OTHER -> "unavailable"
  ELSE IF media.ready /\ ~(asr_configured /\ media.audio) THEN "unavailable" ELSE "none"

Base ==
  CASE job[Current].state \in {"cancelled", "deleted"} -> "cancelled"
    [] job[Current].state = "failed" -> "failed"
    [] job[Current].state = "running" -> "running"
    [] OTHER -> "queued"

(* Mutant: the expiry is looked at before the completion. *)
MissingFirst == analysis.expired

(* summarize(): the text never arrived *)
Missing == analysis.expired /\ ~doc.completed

Frames == {b[2] : b \in doc.batches}
Usable == (Speech = "completed" /\ spoken) \/ "words" \in Frames
Gaps ==
  \/ Speech = "unavailable" \/ Missing \/ "failed" \in Frames
  \/ doc.completed /\ doc.dropped
Waiting == Speech = "pending" \/ (~doc.completed /\ ~analysis.expired)

(* uploaded_analysis() has nothing to show without the media result, for   *)
(* an erased source and for cancelled or deleted text.                     *)
HasAnalysis ==
  /\ Base # "cancelled" /\ media.ready /\ Speech # "none"
  /\ analysis.exists /\ job["media"].state = "published"
  /\ doc.exists => doc.media /\ HasRow("text") /\ ~job["text"].cancel
                     /\ job["text"].state \notin {"cancelled", "deleted"}

Status ==
  IF Usable THEN (IF Gaps \/ Waiting THEN "partial" ELSE "complete")
  ELSE IF Waiting THEN "pending" ELSE "no_usable"

-----------------------------------------------------------------------------

UNext ==
  \/ PublishIntake \/ Prepare \/ PublishMedia \/ EndSpeech \/ RetrySpeech
  \/ CompleteText \/ Due \/ ResolveRead \/ ResolveCommit \/ SettleInput
  \/ \E s \in Stages : Start(s) \/ Fail(s) \/ Requeue(s) \/ Acknowledge(s)
                         \/ Cancel(s) \/ Delete(s) \/ Purge(s)
  \/ \E n \in Batches, body \in TextBodies : PutBatch(n, body)

(* A worker polls: it resolves deadlines and settles inputs with every     *)
(* claim, and runs and ends the stages it claims.                          *)
Poll ==
  \/ ResolveRead \/ ResolveCommit \/ SettleInput \/ Prepare \/ PublishMedia \/ EndSpeech
  \/ \E s \in Stages : Start(s) \/ Acknowledge(s)

(* Time passes, and a worker goes on with one or another of its steps. *)
UFairness == WF_uvars(Due) /\ WF_uvars(Poll)

USpec == UInit /\ [][UNext]_uvars /\ UFairness

-----------------------------------------------------------------------------
(* Properties *)

(* Text that was accepted is never lost or hidden: once the input is       *)
(* settled every stored batch was either handed to extraction or recorded  *)
(* as late, never both, whichever side the deadline and the settlement     *)
(* fell on.                                                                *)
TextAccounted ==
  /\ ledger.closed => doc.batches \subseteq ledger.admitted \cup ledger.late
  /\ ledger.admitted \cap ledger.late = {}

(* Once the owner deleted a prerequisite or the text itself, no text of    *)
(* the upload is stored again, even after the tombstones are gone, and     *)
(* purged media leaves no audio behind.                                    *)
ErasedStaysErased ==
  /\ erased => doc.batches = {} /\ ~doc.completed
  /\ job["media"].state = "gone" => ~wav

(* Accepted text is in the report's input, unless its owner erased it.     *)
TextKept == TextAccounted /\ ErasedStaysErased

(* What the client reads of the analysis is true: it is silent once a part *)
(* of the upload was erased, tombstones purged or not; delivered text is   *)
(* never called missing although its completion may race the deadline; a   *)
(* complete analysis lacks nothing; and "no usable content" is said only   *)
(* when all was looked at.                                                 *)
AnalysisTruthful ==
  HasAnalysis =>
    /\ ~erased
    /\ doc.completed => ~Missing
    /\ Status = "complete" => /\ Speech = "completed" /\ doc.completed /\ ~doc.dropped
                              /\ "failed" \notin Frames
    /\ Status = "no_usable" => /\ doc.completed \/ analysis.expired
                               /\ "words" \notin Frames
                               /\ job["asr"].state \notin ACTIVE

(* Accepted text is kept or erased, and the reader is told which.          *)
TextTruthful == TextKept /\ AnalysisTruthful

(* An upload whose ledger is open settles: the wait for speech and for     *)
(* text ends, unless media validation is deleted from under it.            *)
UploadSettles ==
  ledger.open ~> (ledger.closed \/ job["media"].state \in {"deleted", "gone"})
=============================================================================
