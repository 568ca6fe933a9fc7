------------------------------- MODULE Capture -------------------------------
(***************************************************************************)
(* A live capture: the session and its chunks (api/routes/captures.py),    *)
(* the bytes in the upload store, the stage jobs of every chunk and their  *)
(* fenced publication (pipeline/capture.py, captures.py, pipeline/         *)
(* capture_media.py), the sweep of privacy.py over reservations and        *)
(* workspaces, and the read models the clients poll (manifest(),           *)
(* capture_analysis(), the work list of capture_status()).                 *)
(*                                                                         *)
(* A request that uploads a chunk is two transactions with a gap between   *)
(* them, and the second one writes bytes that no rollback takes back.      *)
(* It holds the row lock of the session meanwhile; every other transaction *)
(* on the session is one step and needs that lock to be free.              *)
(*                                                                         *)
(* A job is its status of JobStates; "leased" and "running" are one state  *)
(* here, and the lease fence itself is the subject of JobQueue.  There is  *)
(* one capture.  The windows of its incremental extraction are the subject *)
(* of Extraction, the owner's quotas of Accounts.                          *)
(***************************************************************************)
EXTENDS Integers, FiniteSets, JobStates

CONSTANTS
  MaxSeq,     \* bound: highest sequence number a client sends
  ChunkLen,   \* chunk_duration_ms
  MaxLen,     \* MAX_CAPTURE_MS
  Sent,       \* Sent[s]: what clients send under sequence number s
  NoContent,
  Puts,       \* upload requests in flight
  MaxBytes,   \* upload_max_bytes; every chunk has size 1
  MaxFaults   \* bound: lease expiries, cancels and deletions by the owner,
              \* crashes of the sweep

Content == [len : 1..ChunkLen, package : {"valid", "invalid", "other"},
            speech : BOOLEAN, text : BOOLEAN, id : Nat]

ASSUME CaptureAssumption ==
  /\ MaxSeq \in Nat /\ ChunkLen \in Nat \ {0} /\ MaxLen \in Nat /\ MaxBytes \in Nat
  /\ MaxFaults \in Nat
  /\ Sent \in [0..MaxSeq -> SUBSET Content] /\ NoContent \notin Content

Seqs == 0..MaxSeq
Contents == UNION {Sent[s] : s \in Seqs}
CAPTURE_STAGE == "media_validation"
CAPTURE_STAGES == {CAPTURE_STAGE, "asr", "device_text", "claim_extraction"}
Ids == Seqs \X CAPTURE_STAGES
Modalities == {"speech", "text"}

VARIABLES
  session, \* the capture_sessions row and the state of its investigation
  chunk,   \* chunk[s]: the capture_chunks row with sequence s
  store,   \* store[s]: the bytes under the storage key of chunk s
  put,     \* put[p]: an upload request between its transactions
  job,     \* job[i]: status of a stage job and what its handler returned
  acked,   \* the chunks whose upload was acknowledged (history)
  charged, \* upload bytes charged to the owner
  faults   \* faults so far (history)

vars == <<session, chunk, store, put, job, acked, charged, faults>>

-----------------------------------------------------------------------------
(* Rows *)

NoSession == [state |-> "none", expired |-> FALSE, continue |-> "null",
              duration |-> 0, investigation |-> "none", lifetime |-> TRUE]
NoChunk == [content |-> NoContent, received |-> FALSE]
NoPut == [at |-> "idle", seq |-> 0, content |-> NoContent]
NoJob == [state |-> "none", cancel |-> FALSE, out |-> "none"]
NewJob == [NoJob EXCEPT !.state = "queued"]

Init ==
  /\ session = NoSession
  /\ chunk = [s \in Seqs |-> NoChunk] /\ store = [s \in Seqs |-> NoContent]
  /\ put = [p \in Puts |-> NoPut]
  /\ job = [i \in Ids |-> NoJob]
  /\ acked = {} /\ charged = 0 /\ faults = 0

Exists == session.state \in {"open", "closed"}
Reserved == {s \in Seqs : chunk[s].content # NoContent}
Received == {s \in Reserved : chunk[s].received}
StartOf(s) == s * ChunkLen
EndOf(s) == StartOf(s) + chunk[s].content.len
Short(c) == c.len < ChunkLen
InTable(i) == job[i].state \in JobState

(* Mutant: only the upload window is checked. *)
OpenWindow == Exists /\ ~session.expired

(* require_open() *)
Open == session.state = "open" /\ ~session.expired

(* No upload is between writing its bytes and its commit, so the row lock  *)
(* of the session is free.                                                 *)
Free == \A p \in Puts : put[p].at # "written"

-----------------------------------------------------------------------------
(* Upload *)

(* create_capture(): a replay of the key returns the stored session. *)
CreateCapture ==
  /\ session.state = "none"
  /\ session' = [session EXCEPT !.state = "open", !.investigation = "queued"]
  /\ UNCHANGED <<chunk, store, put, job, acked, charged, faults>>

(* The checks of reserve() on a chunk that has no row yet. *)
Admissible(s, c) ==
  /\ Open
  /\ ~\E r \in Reserved : \/ r < s /\ Short(chunk[r].content)
                          \/ r > s /\ Short(c)
  /\ Cardinality(Reserved) < MaxBytes

(* put_chunk() up to the end of reserve(): the body has been parsed and    *)
(* matches its declaration.  Every refused request leaves no trace.        *)
Reserve(p, s, c) ==
  /\ put[p].at = "idle" /\ Exists /\ Free
  /\ StartOf(s) + c.len <= MaxLen
  /\ \/ /\ s \in Reserved /\ chunk[s].content = c
        /\ chunk[s].received \/ Open
        /\ UNCHANGED <<chunk, charged>>
     \/ /\ s \notin Reserved /\ Admissible(s, c)
        /\ charged < MaxBytes
        /\ chunk' = [chunk EXCEPT ![s].content = c]
        /\ charged' = charged + 1
  /\ put' = [put EXCEPT ![p] = [at |-> "reserved", seq |-> s, content |-> c]]
  /\ UNCHANGED <<session, store, job, acked, faults>>

Acknowledge(p) == acked' = acked \cup {<<put[p].seq, put[p].content>>}

(* The second transaction: a chunk that was received meanwhile is answered *)
(* as a duplicate.                                                         *)
Duplicate(p) ==
  /\ put[p].at = "reserved" /\ Exists /\ Free
  /\ put[p].seq \in Received
  /\ Acknowledge(p)
  /\ put' = [put EXCEPT ![p] = NoPut]
  /\ UNCHANGED <<session, chunk, store, job, charged, faults>>

(* ... otherwise the session stays locked while the bytes are written. *)
WriteBytes(p) ==
  /\ put[p].at = "reserved" /\ Free
  /\ put[p].seq \in Reserved \ Received /\ Open
  /\ store' = [store EXCEPT ![put[p].seq] = put[p].content]
  /\ put' = [put EXCEPT ![p].at = "written"]
  /\ UNCHANGED <<session, chunk, job, acked, charged, faults>>

(* ... and the receipt commits together with the validation job. *)
Receive(p) ==
  /\ put[p].at = "written" /\ Open
  /\ chunk' = [chunk EXCEPT ![put[p].seq].received = TRUE]
  /\ job' = [job EXCEPT ![<<put[p].seq, CAPTURE_STAGE>>] = NewJob]
  /\ Acknowledge(p)
  /\ put' = [put EXCEPT ![p] = NoPut]
  /\ UNCHANGED <<session, store, charged, faults>>

(* The request ends without an answer: it was refused, the session expired *)
(* while the bytes were written, the client went away or the process died. *)
(* The database rolls back, the bytes stay.                                *)
Abandon(p) ==
  /\ put[p].at # "idle"
  /\ put' = [put EXCEPT ![p] = NoPut]
  /\ UNCHANGED <<session, chunk, store, job, acked, charged, faults>>

-----------------------------------------------------------------------------
(* Close *)

LastEnd == IF Received = {} THEN 0
           ELSE CHOOSE e \in {EndOf(s) : s \in Received} :
                  \A s \in Received : EndOf(s) <= e

(* The checks of close_capture() on the declared duration. *)
ClosesWith(d) == \A s \in Received : /\ EndOf(s) <= d
                                     /\ Short(chunk[s].content) => EndOf(s) = d

(* chunk_jobs() of the received chunks *)
Listed == {i \in Ids : InTable(i) /\ i[1] \in Received}

RequestCancel(j) ==
  IF j.state \notin ACTIVE THEN j
  ELSE [j EXCEPT !.cancel = TRUE, !.state = IF @ = "queued" THEN "cancelled" ELSE @]

(* close_capture(): one transaction.  A repeated close answers or          *)
(* conflicts, and writes nothing.                                          *)
CloseCapture(continue, d) ==
  /\ session.state = "open" /\ Free
  /\ ClosesWith(d)
  /\ session' = [session EXCEPT !.state = "closed", !.continue = continue, !.duration = d,
                   !.investigation = IF continue = "no" THEN "cancelled" ELSE "queued"]
  /\ job' = [i \in Ids |-> IF continue = "no" /\ i \in Listed THEN RequestCancel(job[i])
                           ELSE job[i]]
  /\ UNCHANGED <<chunk, store, put, acked, charged, faults>>

-----------------------------------------------------------------------------
(* Stage jobs *)

Root(s) == job[<<s, CAPTURE_STAGE>>]

(* read_package() of the stored bytes: anything the manifest, the digests  *)
(* or the bounds do not allow is refused; bytes that are no archive are a  *)
(* chunk without a package.                                                *)
Package(c) == CASE c.package = "valid" -> "package"
                [] c.package = "invalid" -> "invalid"
                [] OTHER -> "no_package"

(* CaptureProcessor.run() *)
Validated(s) ==
  IF s \notin Received \/ store[s] # chunk[s].content THEN "invalid" ELSE Package(store[s])

(* _prepared() and _load(): a validated package whose bytes are still there *)
Prepared(s) == s \in Received /\ Root(s).state = "published" /\ Root(s).out = "package"
Loaded(s) == store[s] = chunk[s].content

(* build_capture_speech(): transcription may be unavailable or fail. *)
SpeechOutcome(s) ==
  IF ~Prepared(s) THEN {"invalid"}
  ELSE IF ~chunk[s].content.speech THEN {"unavailable"}
  ELSE {"unavailable"} \cup (IF Loaded(s) THEN {"completed", "invalid"} ELSE {"invalid"})

(* build_capture_text() *)
TextOutcome(s) ==
  IF ~Prepared(s) THEN {"invalid"}
  ELSE IF ~chunk[s].content.text THEN {"unavailable"}
  ELSE IF Loaded(s) THEN {"completed"} ELSE {"invalid"}

(* build_capture_extraction(): whatever speech and text have been published *)
(* is admitted, nothing at all included.                                   *)
FanInOutcome(s) == {"completed"}

Outcome(i) ==
  LET s == i[1] IN
  CASE i[2] = CAPTURE_STAGE -> {Validated(s)}
    [] i[2] = "asr" -> SpeechOutcome(s)
    [] i[2] = "device_text" -> TextOutcome(s)
    [] OTHER -> FanInOutcome(s)

(* A worker claims the job and its handler reads what it needs.  Validation *)
(* locks the session to read it.                                           *)
Run(i) ==
  /\ job[i].state = "queued"
  /\ i[2] = CAPTURE_STAGE => Free
  /\ \E out \in Outcome(i) : job' = [job EXCEPT ![i].state = "running", ![i].out = out]
  /\ UNCHANGED <<session, chunk, store, put, acked, charged, faults>>

(* Why publish_capture_stage() withdraws a stage instead of publishing it *)
Withdrawn(s) ==
  \/ ~Exists \/ session.continue = "no" \/ s \notin Received
  \/ ~InTable(<<s, CAPTURE_STAGE>>)
  \/ Root(s).state \in {"cancelled", "deleted", "failed"} \/ Root(s).cancel

Prerequisites(stage) == CASE stage = CAPTURE_STAGE -> {}
                          [] stage = "claim_extraction" -> {"asr", "device_text"}
                          [] OTHER -> {CAPTURE_STAGE}

IsPublished(s, stage) == job[<<s, stage>>].state = "published"

(* Mutant: only the speech stage looks for its sibling. *)
SuccessorsOneSided(s, stage) ==
  CASE stage = CAPTURE_STAGE -> {<<s, "asr">>, <<s, "device_text">>}
    [] stage = "asr" /\ IsPublished(s, "device_text") -> {<<s, "claim_extraction">>}
    [] OTHER -> {}

Successors(s, stage) ==
  CASE stage = CAPTURE_STAGE -> {<<s, "asr">>, <<s, "device_text">>}
    [] stage = "asr" /\ IsPublished(s, "device_text") -> {<<s, "claim_extraction">>}
    [] stage = "device_text" /\ IsPublished(s, "asr") -> {<<s, "claim_extraction">>}
    [] OTHER -> {}

(* enqueue(): a key that is in the table already keeps its job. *)
Enqueued(ids) == {i \in ids : job[i].state = "none"}

Publishable(i) == job[i].state = "running" /\ job[i].out # "invalid"

(* publish_capture_stage() *)
PublishChunk(i) ==
  LET s == i[1]
      stage == i[2]
  IN
  /\ Publishable(i) /\ Free /\ ~job[i].cancel
  /\ \/ /\ Withdrawn(s)
        /\ job' = [job EXCEPT ![i] = RequestCancel(@)]
     \/ /\ ~Withdrawn(s)
        /\ \A pre \in Prerequisites(stage) : IsPublished(s, pre)
        /\ job' = [k \in Ids |-> IF k = i THEN [job[i] EXCEPT !.state = "published"]
                                 ELSE IF k \in Enqueued(Successors(s, stage))
                                 THEN NewJob ELSE job[k]]
  /\ UNCHANGED <<session, chunk, store, put, acked, charged, faults>>

(* The worker fails a job whose handler refused its input, and             *)
(* acknowledges a cancellation.                                            *)
EndJob(i) ==
  /\ job[i].state = "running"
  /\ \/ job[i].cancel /\ job' = [job EXCEPT ![i].state = "cancelled", ![i].out = "none"]
     \/ /\ ~job[i].cancel /\ job[i].out = "invalid"
        /\ job' = [job EXCEPT ![i].state = "failed", ![i].out = "none"]
  /\ UNCHANGED <<session, chunk, store, put, acked, charged, faults>>

-----------------------------------------------------------------------------
(* Faults, the owner and retention *)

Fault == faults < MaxFaults /\ faults' = faults + 1

LeaseExpires(i) ==
  /\ job[i].state = "running" /\ Fault
  /\ job' = [job EXCEPT ![i].state = IF job[i].cancel THEN "cancelled" ELSE "queued",
                        ![i].out = "none"]
  /\ UNCHANGED <<session, chunk, store, put, acked, charged>>

OwnerCancels(i) ==
  /\ job[i].state \in ACTIVE /\ ~job[i].cancel /\ Fault
  /\ job' = [job EXCEPT ![i] = RequestCancel(@)]
  /\ UNCHANGED <<session, chunk, store, put, acked, charged>>

OwnerDeletes(i) ==
  /\ InTable(i) /\ job[i].state # "deleted" /\ Fault
  /\ job' = [job EXCEPT ![i].state = "deleted", ![i].out = "none"]
  /\ UNCHANGED <<session, chunk, store, put, acked, charged>>

(* The tombstone is purged once its window has passed. *)
PurgeTombstone(i) ==
  /\ job[i].state = "deleted"
  /\ job' = [job EXCEPT ![i] = [NoJob EXCEPT !.state = "gone"]]
  /\ UNCHANGED <<session, chunk, store, put, acked, charged, faults>>

(* The upload window of the session ends. *)
TimePasses ==
  /\ Open
  /\ session' = [session EXCEPT !.expired = TRUE]
  /\ UNCHANGED <<chunk, store, put, job, acked, charged, faults>>

Erase(seqs) == store' = [s \in Seqs |-> IF s \in seqs THEN NoContent ELSE store[s]]

Swept == {s \in Reserved \ Received : session.state = "closed" \/ session.expired}

(* Retention.run(), reservations: bytes go before the transaction commits, *)
(* so a crash may leave the rows behind.                                   *)
SweepReservations ==
  /\ Exists /\ Free /\ Swept # {}
  /\ Erase(Swept)
  /\ \/ /\ chunk' = [s \in Seqs |-> IF s \in Swept THEN NoChunk ELSE chunk[s]]
        /\ UNCHANGED faults
     \/ Fault /\ UNCHANGED chunk
  /\ UNCHANGED <<session, put, job, acked, charged>>

(* Retention.run(), a guest workspace at the end of its lifetime, likewise. *)
SweepWorkspace ==
  /\ Exists /\ Free
  /\ Erase(Reserved)
  /\ \/ /\ session' = [NoSession EXCEPT !.state = "gone"]
        /\ chunk' = [s \in Seqs |-> NoChunk]
        /\ job' = [i \in Ids |-> IF InTable(i) THEN [NoJob EXCEPT !.state = "deleted"]
                                 ELSE job[i]]
        /\ UNCHANGED faults
     \/ /\ Fault /\ session' = [session EXCEPT !.lifetime = FALSE]
        /\ UNCHANGED <<chunk, job>>
  /\ UNCHANGED <<put, acked, charged>>

Next ==
  \/ CreateCapture \/ TimePasses
  \/ \E p \in Puts : \/ \E s \in Seqs : \E c \in Sent[s] : Reserve(p, s, c)
                     \/ Duplicate(p) \/ WriteBytes(p) \/ Receive(p) \/ Abandon(p)
  \/ \E continue \in {"yes", "no"} :
       \E d \in {LastEnd, MaxLen} : CloseCapture(continue, d)
  \/ \E i \in Ids : \/ Run(i) \/ PublishChunk(i) \/ EndJob(i)
                    \/ LeaseExpires(i) \/ OwnerCancels(i) \/ OwnerDeletes(i)
                    \/ PurgeTombstone(i)
  \/ SweepReservations \/ SweepWorkspace

Spec == Init /\ [][Next]_vars

-----------------------------------------------------------------------------
(* Read models *)

Duration == IF session.state = "closed" THEN session.duration ELSE LastEnd

Before(s) == {r \in Received : r < s}

(* The end of the chunk received before s, in sequence order. *)
EndBefore(s) == IF Before(s) = {} THEN 0
                ELSE EndOf(CHOOSE r \in Before(s) : \A q \in Before(s) : q <= r)

(* Mutant: the stretch after the last chunk is not missing. *)
MissingInside == {<<EndBefore(s), StartOf(s)>> :
                    s \in {r \in Received : StartOf(r) > EndBefore(r)}}

(* manifest(): missing_intervals *)
Missing == {<<EndBefore(s), StartOf(s)>> : s \in {r \in Received : StartOf(r) > EndBefore(r)}}
             \cup (IF LastEnd < Duration THEN {<<LastEnd, Duration>>} ELSE {})

StageOf(m) == IF m = "speech" THEN "asr" ELSE "device_text"

(* capture_analysis(): what is still expected, analyzed, or a gap *)
PendingChunks(m) ==
  {s \in Received :
     \/ ~InTable(<<s, CAPTURE_STAGE>>) \/ Root(s).state \in ACTIVE
     \/ /\ Root(s).state = "published"
        /\ LET j == job[<<s, StageOf(m)>>] IN j.state \in ACTIVE \cup {"none", "gone"}}

AnalyzedChunks(m) ==
  {s \in Received : /\ Root(s).state = "published"
                    /\ IsPublished(s, StageOf(m))
                    /\ job[<<s, StageOf(m)>>].out = "completed"}

GapIntervals(m) ==
  {<<StartOf(s), EndOf(s)>> : s \in Received \ (PendingChunks(m) \cup AnalyzedChunks(m))}
    \cup Missing

(* The overall status of the analysis.  Which analyzed chunk holds anything *)
(* usable is a matter of its contents: any of them may.                    *)
AnalysisStatus(usable) ==
  LET pending == \E m \in Modalities : PendingChunks(m) # {}
      gaps == \E m \in Modalities : GapIntervals(m) # {}
  IN IF usable THEN (IF gaps \/ pending THEN "partial" ELSE "complete")
     ELSE (IF pending THEN "pending" ELSE "no_usable")

Usable == IF \E m \in Modalities : AnalyzedChunks(m) # {} THEN BOOLEAN ELSE {FALSE}

(* session_response(): the sequence numbers skipped below the highest one *)
SkippedSeqs == {s \in Seqs \ Received : \E r \in Received : r > s}

(* capture_status(): the status of a chunk's work *)
Related(s) == {job[i] : i \in {k \in Ids : k[1] = s /\ InTable(k)}}

WorkStatus(s) ==
  IF \/ session.continue = "no" \/ ~InTable(<<s, CAPTURE_STAGE>>)
     \/ \E j \in Related(s) : j.state \in {"cancelled", "deleted"} \/ j.cancel
  THEN "cancelled"
  ELSE IF \E j \in Related(s) : j.state = "failed" THEN "failed"
  ELSE IF \E j \in Related(s) : j.state \in LEASED_STATES THEN "checking" ELSE "waiting"

-----------------------------------------------------------------------------
(* Properties *)

(* A chunk whose upload was acknowledged is received with exactly those    *)
(* bytes in the store, whatever other uploads of the sequence, crashes     *)
(* between the two transactions and retention do, as long as its workspace *)
(* has not reached the end of its lifetime: the client may forget it.      *)
AckedIsStored ==
  session.lifetime /\ session.state # "gone" =>
    \A a \in acked : /\ chunk[a[1]] = [content |-> a[2], received |-> TRUE]
                     /\ store[a[1]] = a[2]

(* No byte in the store is without a row that a sweep will find: whatever  *)
(* crash leaves bytes behind, the reservation they belong to is still      *)
(* there.                                                                  *)
BytesHaveRows == \A s \in Seqs : store[s] # NoContent => s \in Reserved

(* The closed duration covers every received chunk, and a chunk shorter    *)
(* than the others is the last one and ends the capture, even when uploads *)
(* that were reserved before the close finish after it.                    *)
ClosedCoversReceived ==
  /\ session.state = "closed" => ClosesWith(session.duration)
  /\ \A s \in Received : Short(chunk[s].content) => \A r \in Received : r <= s

(* What the client was told of its uploads stays true.                     *)
ReceiptsHold == AckedIsStored /\ BytesHaveRows /\ ClosedCoversReceived

(* When speech and text of a chunk are both published, the fan-in job of   *)
(* the chunk was enqueued: neither publisher misses the other.             *)
FanInEnqueued ==
  \A s \in Seqs : IsPublished(s, "asr") /\ IsPublished(s, "device_text")
                    => job[<<s, "claim_extraction">>].state # "none"

(* After "keep only available results" no stage of the capture is left     *)
(* that may still publish.                                                 *)
StopReachesAll ==
  session.continue = "no" => \A i \in Ids : job[i].state \in ACTIVE => job[i].cancel

(* The stages of a chunk meet in its fan-in, and a stop meets them all.    *)
StagesMeet == FanInEnqueued /\ StopReachesAll

(* Missing chunks stay gaps, never coverage (capture_analysis()): at every *)
(* moment and for each modality, every instant of the capture is analyzed, *)
(* inside a reported gap, or the modality is still pending; and a stage    *)
(* that ended without a result shows in the work list, where its chunk is  *)
(* failed or cancelled.  An analysis that calls itself complete has        *)
(* analyzed every instant in both modalities, and a sequence number the    *)
(* session reports as skipped is a missing interval of its manifest.       *)
NothingSilentlyLost ==
  /\ Exists => \A m \in Modalities, t \in 0..(Duration - 1) :
       \/ PendingChunks(m) # {}
       \/ \E s \in AnalyzedChunks(m) : StartOf(s) <= t /\ t < EndOf(s)
       \/ \E g \in GapIntervals(m) : g[1] <= t /\ t < g[2]
  /\ \A s \in Received : (\E j \in Related(s) : j.state \in {"failed", "cancelled", "deleted"})
                           => WorkStatus(s) \in {"failed", "cancelled"}
  /\ Exists /\ (\E usable \in Usable : AnalysisStatus(usable) = "complete") =>
       \A m \in Modalities, t \in 0..(Duration - 1) :
         \E s \in AnalyzedChunks(m) : StartOf(s) <= t /\ t < EndOf(s)
  /\ \A s \in SkippedSeqs : \E g \in Missing : g[1] <= StartOf(s) /\ StartOf(s) < g[2]
=============================================================================
