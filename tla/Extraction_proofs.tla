-------------------------- MODULE Extraction_proofs --------------------------
(***************************************************************************)
(* Proofs about claim extraction, for any set of windows and any limits:   *)
(* the request budget keeps the reconciliation reserve, no request of      *)
(* unknown outcome is repeated, and the reports say what was found.        *)
(***************************************************************************)
EXTENDS Extraction, FiniteSetTheorems, TLAPS

-----------------------------------------------------------------------------
(* The inductive invariant *)

DataT == [in_flight : BOOLEAN, invalid : Nat, failures : Nat, groq : BOOLEAN,
          needs_route : BOOLEAN, models : Int, artifact : BOOLEAN,
          budget_exhausted : BOOLEAN, feedback_blocked : BOOLEAN]

JobT == [state : JobState \cup {"none"}, cancel : BOOLEAN, data : DataT]

(* Where a handler is before and after it asks for a completion, and where *)
(* it reports an invalid one.                                              *)
Asking == {"complete", "route", "send", "sent", "sent_route"}
Reporting == {"feedback", "sent_feedback"}
AtT == Asking \cup Reporting \cup {"idle", "publish", "rejected"}

RunT == [closed : BOOLEAN, windows : SUBSET W, reconcile : BOOLEAN,
         requests_used : Nat, report_id : Nat, upstream_limited : BOOLEAN]

Occurrences == UNION {ClaimsOf[w] : w \in W}

ReportT == [id : Nat, claims : SUBSET Occurrences, reconciled : BOOLEAN,
            limited : BOOLEAN]

TypeOK ==
  /\ run \in RunT /\ input \in {"working", "done", "stopped"}
  /\ task \in [J -> JobT] /\ at \in [J -> AtT]
  /\ report \in ReportT
  /\ sends \in [J -> Nat] /\ lost \in [J -> BOOLEAN] /\ losses \in Nat

(* The attempts stage_data accounts for: each completion that reached a    *)
(* provider was invalid, or failed, before or after the change to Groq.    *)
Attempts(d) == d.invalid + d.failures + (IF d.groq THEN recovery_attempts + 1 ELSE 0)

(* ... or is the one whose outcome is stored or unknown.                   *)
LastAttempt(d, a) ==
  IF d.artifact \/ (d.in_flight /\ a \notin {"send", "sent_route"}) THEN 1 ELSE 0

(* What holds of stage_data d while the handler is at a, after n requests. *)
(* in_flight is set exactly while an outcome is awaited.                   *)
DataOK(d, a, n) ==
  /\ a \in {"send", "sent", "sent_route"} => d.in_flight
  /\ a \in {"complete", "route"} \cup Reporting => ~d.in_flight
  /\ a \in Asking => d.invalid < 2
  /\ a \in Asking \cup Reporting => ~d.artifact /\ d.failures <= recovery_attempts
  /\ d.failures <= recovery_attempts + 1
  /\ n <= Attempts(d) + LastAttempt(d, a)

(* What holds of the job r, which has lost the outcome of a request if l:  *)
(* in_flight survives the handler that set it.                             *)
RowOK(r, a, n, l) ==
  /\ r.state = "none" => r = NoJob
  /\ a # "idle" => r.state = "running"
  /\ r.state # "deleted" => DataOK(r.data, a, n)
  /\ l => \/ r.state = "deleted"
          \/ r.data.in_flight /\ r.state \in {"queued", "failed", "cancelled"}
  /\ r.data.invalid <= 2 /\ n <= 2 + 2 * (recovery_attempts + 1)

RowsOK == \A j \in J : RowOK(task[j], at[j], sends[j], lost[j])

(* The requests that were counted and sent, or are about to be sent. *)
Due(j) == sends[j] + (IF at[j] = "send" THEN 1 ELSE 0)
Counted(js) == UNION {{j} \X (1..Due(j)) : j \in js}

CountsOK == /\ Cardinality(Counted(J)) <= run.requests_used
            /\ Cardinality(Counted(W)) <= max_requests - reconciliation_requests

(* Once reconciliation is scheduled the ledger is closed, and says whether *)
(* a window is missing.                                                    *)
ScheduledOK ==
  task[Rec].state # "none" =>
    /\ run.closed
    /\ ~run.upstream_limited =>
         \A w \in run.windows : ClaimsOf[w] \subseteq report.claims

ReportOK ==
  /\ \A w \in W : task[w].state = "published" => ClaimsOf[w] \subseteq report.claims
  /\ ScheduledOK
  /\ report.reconciled =>
       /\ task[Rec].state # "none" /\ run.closed
       /\ ~report.limited => \A w \in run.windows : ClaimsOf[w] \subseteq report.claims

IInv == TypeOK /\ RowsOK /\ CountsOK /\ ReportOK /\ StopReachesWindows

-----------------------------------------------------------------------------
(* Counting requests *)

LEMMA JFinite == IsFiniteSet(J)
  BY FS_AddElement, ExtractionAssumption DEF J

(* A job sends a bounded number of requests, so there are finitely many.   *)
LEMMA CountedFinite ==
  ASSUME TypeOK, RowsOK, NEW js \in SUBSET J
  PROVE  IsFiniteSet(Counted(js)) /\ IsFiniteSet(Sent(js)) /\ Sent(js) \subseteq Counted(js)
  <1> DEFINE B == 3 + 2 * (recovery_attempts + 1)
  <1>1. B \in Nat BY ExtractionAssumption
  <1>2. \A j \in J : sends[j] \in Nat /\ Due(j) \in Nat /\ sends[j] <= Due(j) /\ Due(j) <= B
    <2> SUFFICES ASSUME NEW j \in J
                 PROVE  sends[j] \in Nat /\ Due(j) \in Nat /\ sends[j] <= Due(j) /\ Due(j) <= B
      OBVIOUS
    <2>1. sends[j] \in Nat BY DEF TypeOK
    <2>2. sends[j] <= 2 + 2 * (recovery_attempts + 1) BY DEF RowsOK, RowOK
    <2> QED BY <2>1, <2>2, ExtractionAssumption DEF Due
  <1> HIDE DEF B
  <1>3. IsFiniteSet(J \X (1..B)) 
    <2>1. IsFiniteSet(1..B) BY <1>1, FS_Interval
    <2> QED BY <2>1, JFinite, FS_Product
  <1>4. Counted(js) \subseteq J \X (1..B)
    <2> SUFFICES ASSUME NEW j \in js, NEW n \in 1..Due(j)
                 PROVE  <<j, n>> \in J \X (1..B)
      BY DEF Counted
    <2> QED BY <1>1, <1>2
  <1>5. Sent(js) \subseteq Counted(js)
    <2> SUFFICES ASSUME NEW j \in js PROVE 1..sends[j] \subseteq 1..Due(j)
      BY DEF Counted, Sent
    <2> QED BY <1>2
  <1> QED BY <1>3, <1>4, <1>5, FS_Subset

LEMMA CountedFiniteNext ==
  ASSUME TypeOK', RowsOK', NEW js \in SUBSET J
  PROVE  IsFiniteSet(Counted(js)')
  <1>1. (TypeOK /\ RowsOK => IsFiniteSet(Counted(js)))'
    BY CountedFinite, PTL
  <1> QED BY <1>1

(* Nothing is counted that was not counted before. *)
LEMMA NoneAdded ==
  ASSUME IInv, NEW js \in SUBSET J,
         \A j \in js : sends'[j] = sends[j] /\ (at'[j] = "send" => at[j] = "send")
  PROVE  /\ Cardinality(Counted(js)') \in Nat
         /\ Cardinality(Counted(js)') <= Cardinality(Counted(js))
  <1>1. \A j \in js : Due(j) \in Nat /\ Due(j)' \in Nat /\ Due(j)' <= Due(j)
    BY DEF IInv, TypeOK, Due
  <1>2. Counted(js)' \subseteq Counted(js)
    <2> SUFFICES ASSUME NEW j \in js PROVE 1..Due(j)' \subseteq 1..Due(j)
      BY DEF Counted
    <2> QED BY <1>1
  <1> QED BY <1>2, CountedFinite, FS_Subset, FS_CardinalityType DEF IInv

(* The request of one job is counted. *)
LEMMA OneAdded ==
  ASSUME IInv, NEW js \in SUBSET J, NEW j \in js,
         \A i \in js : sends'[i] = sends[i] /\ (i # j => at'[i] = at[i])
  PROVE  /\ Cardinality(Counted(js)') \in Nat
         /\ Cardinality(Counted(js)') <= Cardinality(Counted(js)) + 1
  <1> DEFINE new == <<j, sends[j] + 1>>
  <1>1. \A i \in js : /\ Due(i) \in Nat /\ Due(i)' \in Nat
                      /\ i # j => Due(i)' = Due(i)
                      /\ sends[i] <= Due(i) /\ Due(i)' <= sends[i] + 1
    BY DEF IInv, TypeOK, Due
  <1>2. Counted(js)' \subseteq Counted(js) \cup {new}
    <2> SUFFICES ASSUME NEW i \in js, NEW n \in 1..Due(i)'
                 PROVE  n \in 1..Due(i) \/ (i = j /\ n = sends[j] + 1)
      BY DEF Counted
    <2>1. sends[i] \in Nat BY DEF IInv, TypeOK
    <2> QED BY <2>1, <1>1
  <1> HIDE DEF new
  <1>3. IsFiniteSet(Counted(js)) BY CountedFinite DEF IInv
  <1>4. /\ IsFiniteSet(Counted(js) \cup {new})
        /\ Cardinality(Counted(js) \cup {new}) <= Cardinality(Counted(js)) + 1
    <2>1. Cardinality(Counted(js)) \in Nat BY <1>3, FS_CardinalityType
    <2>2. /\ IsFiniteSet(Counted(js) \cup {new})
          /\ Cardinality(Counted(js) \cup {new})
               = IF new \in Counted(js) THEN Cardinality(Counted(js)) ELSE Cardinality(Counted(js)) + 1
      BY <1>3, FS_AddElement
    <2> QED BY <2>1, <2>2
  <1>5. /\ IsFiniteSet(Counted(js)')
        /\ Cardinality(Counted(js)') <= Cardinality(Counted(js) \cup {new})
    BY <1>2, <1>4, FS_Subset
  <1> QED BY <1>3, <1>4, <1>5, FS_CardinalityType

-----------------------------------------------------------------------------
(* Steps *)

(* A step of one job that neither counts nor sends nor publishes. *)
LEMMA OneJobInv ==
  ASSUME IInv, NEW j \in J, NEW r \in JobT, NEW a \in AtT, NEW l \in BOOLEAN,
         task' = [task EXCEPT ![j] = r], at' = [at EXCEPT ![j] = a],
         lost' = [lost EXCEPT ![j] = l], losses' \in Nat,
         UNCHANGED <<run, input, report, sends>>,
         a # "send", RowOK(r, a, sends[j], l),
         task[j].state # "none", r.state # "none",
         r.state = "published" => task[j].state = "published",
         input = "stopped" /\ r.state \in ACTIVE => r.cancel
  PROVE  IInv'
  <1>1. \A i \in J : /\ task'[i] = IF i = j THEN r ELSE task[i]
                     /\ at'[i] = IF i = j THEN a ELSE at[i]
    BY DEF IInv, TypeOK
  <1>2. TypeOK' BY DEF IInv, TypeOK
  <1>3. RowsOK'
    <2> SUFFICES ASSUME NEW i \in J PROVE RowOK(task'[i], at'[i], sends'[i], lost'[i])
      BY DEF RowsOK
    <2>1. CASE i = j
      <3>1. lost'[j] = l BY DEF IInv, TypeOK
      <3> QED BY <2>1, <3>1, <1>1
    <2>2. CASE i # j
      <3>1. lost'[i] = lost[i] BY <2>2 DEF IInv, TypeOK
      <3> QED BY <2>2, <3>1, <1>1 DEF IInv, RowsOK
    <2> QED BY <2>1, <2>2
  <1>4. CountsOK'
    <2>1. W \in SUBSET J /\ J \in SUBSET J BY DEF J
    <2>2. \A i \in J : sends'[i] = sends[i] /\ (at'[i] = "send" => at[i] = "send") BY <1>1
    <2>3. Cardinality(Counted(J)') <= Cardinality(Counted(J)) /\ Cardinality(Counted(J)') \in Nat
      BY <2>1, <2>2, NoneAdded
    <2>4. Cardinality(Counted(W)') <= Cardinality(Counted(W)) /\ Cardinality(Counted(W)') \in Nat
      BY <2>1, <2>2, NoneAdded
    <2>5. Cardinality(Counted(J)) \in Nat /\ Cardinality(Counted(W)) \in Nat
      BY <2>1, CountedFinite, FS_CardinalityType DEF IInv
    <2> QED BY <2>3, <2>4, <2>5, ExtractionAssumption DEF IInv, CountsOK, TypeOK, RunT
  <1>5. ReportOK' BY <1>1 DEF IInv, ReportOK, ScheduledOK, J
  <1>6. StopReachesWindows' BY <1>1 DEF IInv, StopReachesWindows
  <1> QED BY <1>2, <1>3, <1>4, <1>5, <1>6 DEF IInv

(* A step of a running job that nobody has asked to cancel. *)
LEMMA AliveInv ==
  ASSUME IInv, NEW j \in J, Alive(j), NEW d \in DataT, NEW a \in AtT,
         NEW s \in {"running", "queued", "failed"},
         task' = [task EXCEPT ![j] = [@ EXCEPT !.data = d, !.state = s]],
         at' = [at EXCEPT ![j] = a],
         UNCHANGED <<run, input, report, sends, lost, losses>>,
         a # "send", a # "idle" => s = "running",
         d.invalid <= 2, DataOK(d, a, sends[j])
  PROVE  IInv'
  <1> DEFINE r == [task[j] EXCEPT !.data = d, !.state = s]
  <1>1. task[j] \in JobT /\ at[j] \in AtT BY DEF IInv, TypeOK
  <1>2. r \in JobT /\ r.state = s /\ r.data = d /\ r.cancel = task[j].cancel
    BY <1>1 DEF JobT, JobState
  <1>3. RowOK(task[j], at[j], sends[j], lost[j]) BY DEF IInv, RowsOK
  <1>4. ~lost[j] BY <1>3 DEF RowOK, Alive
  <1>5. input # "stopped" BY DEF IInv, StopReachesWindows, Alive, ACTIVE, LEASED_STATES
  <1>6. RowOK(r, a, sends[j], FALSE) BY <1>2, <1>3 DEF RowOK
  <1>7. lost' = [lost EXCEPT ![j] = FALSE] BY <1>4 DEF IInv, TypeOK
  <1>8. losses' \in Nat BY DEF IInv, TypeOK
  <1>9. task' = [task EXCEPT ![j] = r] BY DEF IInv, TypeOK
  <1> HIDE DEF r
  <1> QED BY <1>2, <1>5, <1>6, <1>7, <1>8, <1>9, OneJobInv DEF Alive

(* What is known of the job of such a step. *)
LEMMA RunningFacts ==
  ASSUME IInv, NEW j \in J, task[j].state = "running"
  PROVE  /\ task[j] \in JobT /\ Data(j) \in DataT
         /\ Data(j).invalid <= 2 /\ DataOK(Data(j), at[j], sends[j])
         /\ at[j] \in AtT /\ sends[j] \in Nat /\ recovery_attempts \in Nat
  <1>1. task[j] \in JobT /\ at[j] \in AtT /\ sends[j] \in Nat BY DEF IInv, TypeOK
  <1>2. RowOK(task[j], at[j], sends[j], lost[j]) BY DEF IInv, RowsOK
  <1> QED BY <1>1, <1>2, ExtractionAssumption DEF RowOK, Data, JobT

LEMMA AliveFacts ==
  ASSUME IInv, NEW j \in J, Alive(j)
  PROVE  /\ task[j] \in JobT /\ Data(j) \in DataT /\ task[j].state = "running"
         /\ Data(j).invalid <= 2 /\ DataOK(Data(j), at[j], sends[j])
         /\ at[j] \in AtT /\ sends[j] \in Nat /\ recovery_attempts \in Nat
  BY RunningFacts DEF Alive

(* The changes of stage_data keep its type. *)
LEMMA DataTypes ==
  ASSUME NEW d \in DataT
  PROVE  /\ WithGroq(d) \in DataT /\ Stored(d) \in DataT /\ Invalidated(d) \in DataT
         /\ \A gateway \in BOOLEAN : Recovering(d, gateway) \in DataT
         /\ \A o \in Operations : Accounted(d, o) \in DataT /\ OverBudget(d, o) \in DataT
  <1>1. WithGroq(d) \in DataT /\ Stored(d) \in DataT /\ Invalidated(d) \in DataT
    <2>1. d.invalid + 1 \in Nat BY DEF DataT
    <2>2. WithGroq(d) \in DataT BY DEF DataT, WithGroq
    <2>3. Stored(d) \in DataT BY DEF DataT, Stored
    <2>4. Invalidated(d) \in DataT BY <2>1 DEF DataT, Invalidated
    <2> QED BY <2>2, <2>3, <2>4
  <1>2. ASSUME NEW gateway \in BOOLEAN PROVE Recovering(d, gateway) \in DataT
    <2>1. (gateway /\ ~d.groq) \in BOOLEAN OBVIOUS
    <2>2. d.failures + 1 \in Nat BY DEF DataT
    <2> QED BY <2>1, <2>2 DEF DataT, Recovering
  <1>3. ASSUME NEW o \in Operations PROVE Accounted(d, o) \in DataT
    <2>1. (o # "feedback") \in BOOLEAN OBVIOUS
    <2> QED BY <2>1 DEF DataT, Accounted
  <1>4. ASSUME NEW o \in Operations PROVE OverBudget(d, o) \in DataT
    <2>1. (d.feedback_blocked \/ o = "feedback") \in BOOLEAN OBVIOUS
    <2> QED BY <2>1 DEF DataT, OverBudget
  <1> QED BY <1>1, <1>2, <1>3, <1>4

(* A completion request was sent: it is the last attempt. *)
LEMMA SentFacts ==
  ASSUME IInv, NEW j \in J, Alive(j), at[j] = "sent"
  PROVE  /\ Data(j).in_flight /\ Data(j).invalid < 2 /\ ~Data(j).artifact
         /\ Data(j).failures <= recovery_attempts
         /\ sends[j] <= Attempts(Data(j)) + 1
  BY AliveFacts DEF DataOK, LastAttempt, Asking

(* Attempts are natural numbers, and what counts one more. *)
LEMMA AttemptsType ==
  ASSUME NEW d \in DataT
  PROVE  Attempts(d) \in Nat
  BY ExtractionAssumption DEF Attempts, DataT

LEMMA AttemptsSame ==
  ASSUME NEW d \in DataT, NEW e \in DataT, e.groq = d.groq, NEW k \in Nat,
         e.invalid + e.failures = d.invalid + d.failures + k
  PROVE  Attempts(e) = Attempts(d) + k
  BY ExtractionAssumption DEF Attempts, DataT

LEMMA ValidInv ==
  ASSUME IInv, NEW j \in J, Valid(j)
  PROVE  IInv'
  <1> DEFINE d == Stored(Data(j))
  <1>1. Alive(j) /\ at[j] = "sent" BY DEF Valid, Awaiting
  <1>2. d \in DataT BY <1>1, AliveFacts, DataTypes
  <1>3. d.invalid <= 2 /\ DataOK(d, "publish", sends[j])
    BY <1>1, AliveFacts
    DEF Stored, DataOK, DataT, Attempts, LastAttempt, Asking, Reporting
  <1>4. task' = [task EXCEPT ![j] = [@ EXCEPT !.data = d, !.state = "running"]]
    BY <1>1, AliveFacts DEF Valid, Saved, IInv, TypeOK, JobT
  <1> HIDE DEF d
  <1> QED BY <1>1, <1>2, <1>3, <1>4, AliveInv DEF Valid, AtT

LEMMA InvalidInv ==
  ASSUME IInv, NEW j \in J, Invalid(j)
  PROVE  IInv'
  <1> DEFINE d == Invalidated(Data(j))
  <1>1. Alive(j) /\ at[j] = "sent" BY DEF Invalid, Awaiting
  <1>2. d \in DataT BY <1>1, AliveFacts, DataTypes
  <1>3. /\ d.invalid <= 2 /\ DataOK(d, "feedback", sends[j]) /\ DataOK(d, "idle", sends[j])
        /\ d.invalid < 2 => DataOK(d, "complete", sends[j])
    <2>1. Data(j) \in DataT /\ sends[j] \in Nat /\ recovery_attempts \in Nat
      BY <1>1, AliveFacts
    <2>2. /\ d.in_flight = FALSE /\ d.invalid = Data(j).invalid + 1
          /\ d.failures = Data(j).failures /\ d.groq = Data(j).groq
          /\ d.artifact = Data(j).artifact
      BY <2>1 DEF Invalidated, DataT
    <2>3. Attempts(d) = Attempts(Data(j)) + 1
      <3>1. d.invalid + d.failures = Data(j).invalid + Data(j).failures + 1
        BY <2>1, <2>2 DEF DataT
      <3> HIDE DEF d
      <3> QED BY <3>1, <2>1, <2>2, <1>2, AttemptsSame
    <2>4. d.invalid <= 2 /\ d.failures <= recovery_attempts /\ sends[j] <= Attempts(d)
      BY <1>1, <2>1, <2>2, <2>3, SentFacts DEF DataT
    <2>5. Attempts(d) \in Nat BY <1>2, AttemptsType
    <2>6. ~d.artifact BY <1>1, <2>2, SentFacts
    <2> HIDE DEF d
    <2> QED BY <1>2, <2>1, <2>2, <2>4, <2>5, <2>6 DEF DataOK, LastAttempt, DataT, Asking, Reporting
  <1>4. /\ Saved(j, d) = [task EXCEPT ![j] = [@ EXCEPT !.data = d, !.state = "running"]]
        /\ Failed(j, d) = [task EXCEPT ![j] = [@ EXCEPT !.data = d, !.state = "failed"]]
    BY <1>1, AliveFacts DEF Saved, Failed, IInv, TypeOK, JobT
  <1>5. {"feedback", "complete", "idle"} \subseteq AtT BY DEF AtT, Asking, Reporting
  <1>6. UNCHANGED <<run, input, report, sends, lost, losses>> BY DEF Invalid
  <1>7. \/ task' = Saved(j, d) /\ at' = [at EXCEPT ![j] = "feedback"]
        \/ d.invalid < 2 /\ task' = Saved(j, d) /\ at' = [at EXCEPT ![j] = "complete"]
        \/ task' = Failed(j, d) /\ at' = [at EXCEPT ![j] = "idle"]
    BY DEF Invalid
  <1> HIDE DEF d
  <1> QED BY <1>1, <1>2, <1>3, <1>4, <1>5, <1>6, <1>7, AliveInv

LEMMA DeniedInv ==
  ASSUME IInv, NEW j \in J, Denied(j)
  PROVE  IInv'
  <1>1. Alive(j) /\ at[j] \in {"sent", "sent_route"} BY DEF Denied
  <1>2. Data(j) \in DataT /\ Data(j).invalid <= 2 BY <1>1, AliveFacts
  <1>3. DataOK(Data(j), "idle", sends[j])
    <2>1. Data(j) \in DataT /\ sends[j] \in Nat /\ recovery_attempts \in Nat
      BY <1>1, AliveFacts
    <2>2. Attempts(Data(j)) \in Nat BY <2>1, AttemptsType
    <2>3. /\ Data(j).in_flight /\ Data(j).failures <= recovery_attempts + 1
          /\ sends[j] <= Attempts(Data(j)) + 1
      <3>1. CASE at[j] = "sent" BY <1>1, <2>1, <2>2, <3>1, SentFacts DEF DataT
      <3>2. CASE at[j] = "sent_route"
        <4>1. DataOK(Data(j), at[j], sends[j]) BY <1>1, AliveFacts
        <4>2. LastAttempt(Data(j), at[j]) \in {0, 1} BY DEF LastAttempt
        <4>3. Data(j).in_flight BY <4>1, <3>2 DEF DataOK
        <4>4. /\ Data(j).failures <= recovery_attempts + 1
              /\ sends[j] <= Attempts(Data(j)) + LastAttempt(Data(j), at[j])
          BY <4>1 DEF DataOK
        <4> HIDE DEF LastAttempt
        <4>5. sends[j] <= Attempts(Data(j)) + 1 BY <2>1, <2>2, <4>2, <4>4
        <4> QED BY <4>3, <4>4, <4>5
      <3> QED BY <1>1, <3>1, <3>2
    <2> QED BY <2>1, <2>2, <2>3 DEF DataOK, DataT, LastAttempt, Asking, Reporting
  <1>4. task' = [task EXCEPT ![j] = [@ EXCEPT !.data = Data(j), !.state = "failed"]]
    BY <1>1, AliveFacts DEF Denied, Failed, IInv, TypeOK, JobT
  <1> QED BY <1>1, <1>2, <1>3, <1>4, AliveInv DEF Denied, AtT

LEMMA FeedbackInv ==
  ASSUME IInv, NEW j \in J, FeedbackAnswered(j)
  PROVE  IInv'
  <1> DEFINE d == Data(j)
             b == [d EXCEPT !.feedback_blocked = TRUE]
  <1>1. Alive(j) /\ at[j] = "sent_feedback" BY DEF FeedbackAnswered
  <1>2. d \in DataT /\ b \in DataT BY <1>1, AliveFacts DEF DataT
  <1>3. /\ d.invalid <= 2 /\ b.invalid <= 2
        /\ DataOK(d, "idle", sends[j]) /\ DataOK(b, "idle", sends[j])
        /\ d.invalid < 2 => DataOK(d, "complete", sends[j])
    <2>1. sends[j] \in Nat /\ recovery_attempts \in Nat /\ d.invalid <= 2
          /\ DataOK(d, "sent_feedback", sends[j])
      BY <1>1, AliveFacts
    <2>2. /\ b.in_flight = d.in_flight /\ b.invalid = d.invalid /\ b.failures = d.failures
          /\ b.groq = d.groq /\ b.artifact = d.artifact
      BY <1>2 DEF DataT
    <2> HIDE DEF d, b
    <2>3. Attempts(b) = Attempts(d) /\ Attempts(d) \in Nat
      BY <1>2, <2>2, AttemptsType DEF Attempts
    <2> QED BY <1>2, <2>1, <2>2, <2>3 DEF DataOK, DataT, LastAttempt, Asking, Reporting
  <1>4. /\ Failed(j, d) = [task EXCEPT ![j] = [@ EXCEPT !.data = d, !.state = "failed"]]
        /\ Failed(j, b) = [task EXCEPT ![j] = [@ EXCEPT !.data = b, !.state = "failed"]]
        /\ task = [task EXCEPT ![j] = [@ EXCEPT !.data = d, !.state = "running"]]
        /\ [task EXCEPT ![j].state = "queued"]
             = [task EXCEPT ![j] = [@ EXCEPT !.data = d, !.state = "queued"]]
    BY <1>1, AliveFacts DEF Failed, IInv, TypeOK, JobT, Data
  <1>5. {"complete", "idle"} \subseteq AtT BY DEF AtT, Asking
  <1>6. UNCHANGED <<run, input, report, sends, lost, losses>> BY DEF FeedbackAnswered
  <1>7. \/ /\ ~(d.invalid >= 2) /\ task' = task /\ at' = [at EXCEPT ![j] = "complete"]
        \/ /\ task' \in {Failed(j, d), Failed(j, b), [task EXCEPT ![j].state = "queued"]}
           /\ at' = [at EXCEPT ![j] = "idle"]
    BY DEF FeedbackAnswered
  <1>8. d.invalid \in Nat BY <1>2 DEF DataT
  <1>9. CASE task' = task /\ at' = [at EXCEPT ![j] = "complete"] /\ ~(d.invalid >= 2)
    <2>1. d.invalid < 2 BY <1>8, <1>9
    <2> HIDE DEF d, b
    <2> QED BY <1>1, <1>2, <1>3, <1>4, <1>5, <1>6, <1>9, <2>1, AliveInv
  <1>10. CASE /\ task' \in {Failed(j, d), Failed(j, b), [task EXCEPT ![j].state = "queued"]}
              /\ at' = [at EXCEPT ![j] = "idle"]
    <2> HIDE DEF d, b
    <2> QED BY <1>1, <1>2, <1>3, <1>4, <1>5, <1>6, <1>10, AliveInv
  <1> QED BY <1>7, <1>9, <1>10

LEMMA UnavailableInv ==
  ASSUME IInv, NEW j \in J, Unavailable(j)
  PROVE  IInv'
  <1>1. Alive(j) /\ at[j] \in {"sent", "complete"} BY DEF Unavailable, Awaiting
  <1>2. PICK gateway \in BOOLEAN :
          LET e == Recovering(Data(j), gateway)
              gave_up == e.failures > recovery_attempts
          IN IF gave_up /\ GroqRemains(j)
             THEN task' = Saved(j, WithGroq(e)) /\ at' = [at EXCEPT ![j] = "complete"]
             ELSE /\ at' = [at EXCEPT ![j] = "idle"]
                  /\ \/ task' = Failed(j, e)
                     \/ ~gave_up /\ task' = [Saved(j, e) EXCEPT ![j].state = "queued"]
    BY DEF Unavailable
  <1> DEFINE e == Recovering(Data(j), gateway)
             g == WithGroq(e)
  <1>3. e \in DataT /\ g \in DataT BY <1>1, AliveFacts, DataTypes
  <1>11. Data(j) \in DataT /\ sends[j] \in Nat /\ recovery_attempts \in Nat
    BY <1>1, AliveFacts
  <1>12. /\ e.in_flight = FALSE /\ e.invalid = Data(j).invalid
         /\ e.failures = Data(j).failures + 1 /\ e.groq = Data(j).groq
         /\ e.artifact = Data(j).artifact
    BY <1>11 DEF Recovering, DataT
  <1>13. Attempts(e) = Attempts(Data(j)) + 1
    <2>1. e.invalid + e.failures = Data(j).invalid + Data(j).failures + 1
      BY <1>11, <1>12 DEF DataT
    <2> HIDE DEF e
    <2> QED BY <2>1, <1>3, <1>11, <1>12, AttemptsSame
  <1>14. /\ e.invalid < 2 /\ ~e.artifact /\ ~e.in_flight
         /\ e.failures <= recovery_attempts + 1
         /\ Attempts(e) \in Nat /\ sends[j] <= Attempts(e)
         /\ sends[j] \in Nat /\ recovery_attempts \in Nat
    <2>1. Attempts(e) \in Nat /\ Attempts(Data(j)) \in Nat BY <1>3, <1>11, AttemptsType
    <2>2. /\ Data(j).invalid < 2 /\ ~Data(j).artifact /\ Data(j).failures <= recovery_attempts
          /\ sends[j] <= Attempts(Data(j)) + 1
      <3>1. CASE at[j] = "sent" BY <1>1, <3>1, SentFacts
      <3>2. CASE at[j] = "complete"
        <4>1. DataOK(Data(j), "complete", sends[j]) BY <1>1, <3>2, AliveFacts
        <4> QED BY <1>11, <2>1, <4>1 DEF DataOK, LastAttempt, Asking
      <3> QED BY <1>1, <3>1, <3>2
    <2> HIDE DEF e
    <2> QED BY <1>11, <1>12, <1>13, <2>1, <2>2 DEF DataT
  <1>4. e.invalid <= 2 /\ DataOK(e, "idle", sends[j])
    <2> HIDE DEF e
    <2> QED BY <1>3, <1>14 DEF DataOK, LastAttempt, DataT, Asking, Reporting
  <1>5. GroqRemains(j) => g.invalid <= 2 /\ DataOK(g, "complete", sends[j])
    <2> SUFFICES ASSUME GroqRemains(j) PROVE g.invalid <= 2 /\ DataOK(g, "complete", sends[j])
      OBVIOUS
    <2>1. /\ g.in_flight = FALSE /\ g.invalid = e.invalid /\ g.failures = 0 /\ g.groq = TRUE
          /\ g.artifact = e.artifact /\ e.groq = FALSE /\ e.invalid = 0
      <3>1. e.groq = FALSE /\ e.invalid = 0
        BY <1>11 DEF GroqRemains, Recovering, DataT
      <3> HIDE DEF e
      <3> QED BY <3>1, <1>3, <1>14 DEF WithGroq, DataT
    <2> HIDE DEF e, g
    <2>2. Attempts(e) <= Attempts(g)
      BY <1>3, <1>14, <2>1 DEF Attempts, DataT
    <2>3. Attempts(g) \in Nat BY <1>3, AttemptsType
    <2> QED BY <1>3, <1>14, <2>1, <2>2, <2>3 DEF DataOK, LastAttempt, DataT, Asking, Reporting
  <1>6. /\ Saved(j, g) = [task EXCEPT ![j] = [@ EXCEPT !.data = g, !.state = "running"]]
        /\ Failed(j, e) = [task EXCEPT ![j] = [@ EXCEPT !.data = e, !.state = "failed"]]
        /\ [Saved(j, e) EXCEPT ![j].state = "queued"]
             = [task EXCEPT ![j] = [@ EXCEPT !.data = e, !.state = "queued"]]
    BY <1>1, AliveFacts DEF Saved, Failed, IInv, TypeOK, JobT
  <1>7. {"complete", "idle"} \subseteq AtT BY DEF AtT, Asking
  <1>8. UNCHANGED <<run, input, report, sends, lost, losses>> BY DEF Unavailable
  <1>9. \/ GroqRemains(j) /\ task' = Saved(j, g) /\ at' = [at EXCEPT ![j] = "complete"]
        \/ /\ task' \in {Failed(j, e), [Saved(j, e) EXCEPT ![j].state = "queued"]}
           /\ at' = [at EXCEPT ![j] = "idle"]
    BY <1>2
  <1> HIDE DEF e, g
  <1> QED BY <1>1, <1>3, <1>4, <1>5, <1>6, <1>7, <1>8, <1>9, AliveInv

(* The change to Groq covers the failures it forgets. *)
LEMMA GroqData ==
  ASSUME NEW d \in DataT, ~d.groq, d.failures <= recovery_attempts + 1
  PROVE  LET g == WithGroq(d) IN
         /\ g \in DataT /\ g.in_flight = d.in_flight /\ g.invalid = d.invalid
         /\ g.failures = 0 /\ g.artifact = d.artifact
         /\ Attempts(g) \in Nat /\ Attempts(d) <= Attempts(g)
  <1> DEFINE g == WithGroq(d)
  <1>1. g \in DataT BY DataTypes
  <1>2. /\ g.in_flight = d.in_flight /\ g.invalid = d.invalid
        /\ g.failures = 0 /\ g.artifact = d.artifact /\ g.groq = TRUE
    BY DEF WithGroq, DataT
  <1> HIDE DEF g
  <1>3. Attempts(d) <= Attempts(g) BY <1>1, <1>2, ExtractionAssumption DEF Attempts, DataT
  <1>4. Attempts(g) \in Nat BY <1>1, AttemptsType
  <1> USE DEF g
  <1> QED BY <1>1, <1>2, <1>3, <1>4

(* Whoever is about to ask has all earlier requests accounted for. *)
LEMMA AskingFacts ==
  ASSUME IInv, NEW j \in J, task[j].state = "running",
         at[j] \in {"complete", "route", "send", "sent_route"} \cup Reporting
  PROVE  /\ ~Data(j).artifact /\ Data(j).failures <= recovery_attempts
         /\ sends[j] <= Attempts(Data(j)) /\ Attempts(Data(j)) \in Nat
         /\ at[j] \notin Reporting => Data(j).invalid < 2
  <1> DEFINE d == Data(j)
  <1>1. /\ d \in DataT /\ DataOK(d, at[j], sends[j])
        /\ sends[j] \in Nat /\ recovery_attempts \in Nat
    BY RunningFacts
  <1>2. Attempts(d) \in Nat BY <1>1, AttemptsType
  <1> HIDE DEF d
  <1>3. ~d.artifact /\ d.failures <= recovery_attempts BY <1>1 DEF DataOK, Asking, Reporting
  <1>4. at[j] \notin Reporting => d.invalid < 2 BY <1>1 DEF DataOK, Asking
  <1>5. ~d.in_flight \/ at[j] \in {"send", "sent_route"} BY <1>1 DEF DataOK
  <1>6. LastAttempt(d, at[j]) = 0 BY <1>3, <1>5 DEF LastAttempt
  <1>7. sends[j] <= Attempts(d) + LastAttempt(d, at[j]) BY <1>1 DEF DataOK
  <1>8. sends[j] <= Attempts(d) BY <1>1, <1>2, <1>6, <1>7
  <1> USE DEF d
  <1> QED BY <1>2, <1>3, <1>4, <1>8

(* A settled stage_data allows the next completion. *)
LEMMA ReadyOK ==
  ASSUME NEW d \in DataT, NEW n \in Nat, ~d.in_flight, ~d.artifact,
         d.failures <= recovery_attempts + 1,
         Attempts(d) \in Nat, n <= Attempts(d)
  PROVE  /\ DataOK(d, "idle", n)
         /\ d.invalid < 2 /\ d.failures <= recovery_attempts =>
              DataOK(d, "complete", n) /\ DataOK(d, "route", n)
  BY ExtractionAssumption DEF DataOK, LastAttempt, DataT, Asking, Reporting

LEMMA RoutedInv ==
  ASSUME IInv, NEW j \in J, Routed(j)
  PROVE  IInv'
  <1> DEFINE D(m) == [Data(j) EXCEPT !.in_flight = FALSE, !.needs_route = FALSE, !.models = m]
  <1>1. Alive(j) /\ at[j] \in {"route", "sent_route"} BY DEF Routed
  <1>2. /\ Data(j) \in DataT /\ Data(j).models \in Int /\ task[j].state = "running"
        /\ sends[j] \in Nat /\ recovery_attempts \in Nat
    BY <1>1, AliveFacts DEF DataT
  <1>3. PICK m \in Int :
          \/ task' = Saved(j, D(m)) /\ at' = [at EXCEPT ![j] = "complete"]
          \/ /\ GroqRemains(j)
             /\ task' = Saved(j, WithGroq(D(m))) /\ at' = [at EXCEPT ![j] = "complete"]
          \/ task' = Failed(j, D(m)) /\ at' = [at EXCEPT ![j] = "idle"]
    <2> DEFINE d == [Data(j) EXCEPT !.in_flight = FALSE, !.needs_route = FALSE]
    <2>1. \A m \in Int : [d EXCEPT !.models = m] = D(m) BY <1>2 DEF DataT
    <2>2. d.models \in Int BY <1>2 DEF DataT
    <2> DEFINE With(n) ==
                 IF n > 0 THEN task' = Saved(j, [d EXCEPT !.models = n - 1])
                                 /\ at' = [at EXCEPT ![j] = "complete"]
                 ELSE IF GroqRemains(j)
                 THEN task' = Saved(j, WithGroq([d EXCEPT !.models = 0]))
                        /\ at' = [at EXCEPT ![j] = "complete"]
                 ELSE task' = Failed(j, [d EXCEPT !.models = 0]) /\ at' = [at EXCEPT ![j] = "idle"]
    <2>3. (\E n \in {0, 1} : With(n)) \/ With(IF NeedsRequest(j) THEN 0 ELSE d.models)
      BY DEF Routed
    <2>4. (IF NeedsRequest(j) THEN 0 ELSE d.models) \in Int BY <2>2
    <2>5. PICK n \in Int : With(n)
      <3> HIDE DEF With
      <3> QED BY <2>3, <2>4
    <2>6. n - 1 \in Int /\ 0 \in Int OBVIOUS
    <2> HIDE DEF d, D
    <2> QED BY <2>1, <2>5, <2>6
  <1> DEFINE d == D(m)
             g == WithGroq(d)
  <1>4. /\ d \in DataT /\ d.in_flight = FALSE /\ d.invalid = Data(j).invalid
        /\ d.failures = Data(j).failures /\ d.groq = Data(j).groq
        /\ d.artifact = Data(j).artifact
    BY <1>2 DEF DataT
  <1>5. /\ ~d.artifact /\ d.failures <= recovery_attempts /\ d.invalid < 2
        /\ Attempts(d) \in Nat /\ sends[j] <= Attempts(d)
    <2>1. /\ ~Data(j).artifact /\ Data(j).failures <= recovery_attempts /\ Data(j).invalid < 2
          /\ sends[j] <= Attempts(Data(j)) /\ Attempts(Data(j)) \in Nat
      BY <1>1, AskingFacts DEF Reporting, Alive
    <2> HIDE DEF d
    <2>2. Attempts(d) = Attempts(Data(j)) BY <1>4 DEF Attempts
    <2> QED BY <1>4, <2>1, <2>2
  <1> HIDE DEF D
  <1>6. DataOK(d, "idle", sends[j]) /\ DataOK(d, "complete", sends[j]) /\ d.invalid <= 2
    <2> HIDE DEF d
    <2>1. d.failures <= recovery_attempts + 1 /\ d.invalid <= 2 BY <1>2, <1>4, <1>5 DEF DataT
    <2> QED BY <1>2, <1>4, <1>5, <2>1, ReadyOK
  <1>7. GroqRemains(j) =>
          g \in DataT /\ DataOK(g, "complete", sends[j]) /\ g.invalid <= 2
    <2> SUFFICES ASSUME GroqRemains(j)
                 PROVE  g \in DataT /\ DataOK(g, "complete", sends[j]) /\ g.invalid <= 2
      OBVIOUS
    <2> HIDE DEF d
    <2>1. ~d.groq BY <1>4 DEF GroqRemains
    <2>2. d.failures <= recovery_attempts + 1 /\ d.invalid <= 2 BY <1>2, <1>4, <1>5 DEF DataT
    <2>3. /\ g \in DataT /\ g.in_flight = d.in_flight /\ g.invalid = d.invalid
          /\ g.failures = 0 /\ g.artifact = d.artifact
          /\ Attempts(g) \in Nat /\ Attempts(d) <= Attempts(g)
      BY <1>4, <2>1, <2>2, GroqData
    <2> HIDE DEF g
    <2>4. sends[j] <= Attempts(g) BY <1>2, <1>5, <2>3
    <2>5. g.failures <= recovery_attempts /\ g.failures <= recovery_attempts + 1
      BY <1>2, <2>3
    <2>6. ~g.in_flight /\ ~g.artifact /\ g.invalid < 2 BY <1>4, <1>5, <2>3
    <2> QED BY <1>2, <2>2, <2>3, <2>4, <2>5, <2>6, ReadyOK
  <1>8. \A e : /\ Saved(j, e) = [task EXCEPT ![j] = [@ EXCEPT !.data = e, !.state = "running"]]
               /\ Failed(j, e) = [task EXCEPT ![j] = [@ EXCEPT !.data = e, !.state = "failed"]]
    BY <1>1, AliveFacts DEF Saved, Failed, IInv, TypeOK, JobT
  <1>9. {"complete", "idle"} \subseteq AtT BY DEF AtT, Asking
  <1>10. UNCHANGED <<run, input, report, sends, lost, losses>> BY DEF Routed
  <1> HIDE DEF d, g
  <1>11. CASE task' = Saved(j, d) /\ at' = [at EXCEPT ![j] = "complete"]
    BY <1>1, <1>4, <1>6, <1>8, <1>9, <1>10, <1>11, AliveInv
  <1>12. CASE /\ GroqRemains(j)
              /\ task' = Saved(j, g) /\ at' = [at EXCEPT ![j] = "complete"]
    BY <1>1, <1>7, <1>8, <1>9, <1>10, <1>12, AliveInv
  <1>13. CASE task' = Failed(j, d) /\ at' = [at EXCEPT ![j] = "idle"]
    BY <1>1, <1>4, <1>6, <1>8, <1>9, <1>10, <1>13, AliveInv
  <1> QED BY <1>3, <1>11, <1>12, <1>13 DEF d, g

LEMMA ClaimInv ==
  ASSUME IInv, NEW j \in J, ClaimTask(j)
  PROVE  IInv'
  <1> DEFINE c == Data(j)
             d == IF Exhausted(j) /\ ~c.artifact THEN WithGroq(c) ELSE c
  <1>1. /\ task[j] \in JobT /\ at[j] \in AtT /\ sends[j] \in Nat /\ lost[j] \in BOOLEAN
        /\ recovery_attempts \in Nat /\ c \in DataT /\ task[j].state = "queued"
    BY ExtractionAssumption DEF IInv, TypeOK, Data, JobT, ClaimTask
  <1>2. RowOK(task[j], at[j], sends[j], lost[j]) BY DEF IInv, RowsOK
  <1>3. at[j] = "idle" /\ c.invalid <= 2 /\ DataOK(c, "idle", sends[j])
    BY <1>1, <1>2 DEF RowOK, Data
  <1>4. input = "stopped" => task[j].cancel
    BY <1>1 DEF IInv, StopReachesWindows, ACTIVE
  <1>5. losses' \in Nat /\ UNCHANGED <<run, input, report, sends, lost, losses>>
    BY DEF IInv, TypeOK, ClaimTask
  <1>6. lost' = [lost EXCEPT ![j] = lost[j]] BY <1>5 DEF IInv, TypeOK
  <1>7. CASE Refused(j)
    <2> DEFINE r == [task[j] EXCEPT !.data = c, !.state = "failed"]
    <2>1. task' = [task EXCEPT ![j] = r]
      BY <1>7, <1>1 DEF ClaimTask, Failed, IInv, TypeOK, JobT
    <2>2. r \in JobT /\ r.state = "failed" /\ r.data = c BY <1>1 DEF JobT, JobState
    <2>3. at' = [at EXCEPT ![j] = "idle"] BY <1>3, <1>7 DEF ClaimTask, IInv, TypeOK
    <2>4. lost[j] => c.in_flight BY <1>1, <1>2 DEF RowOK, Data
    <2> HIDE DEF r, c
    <2>5. RowOK(r, "idle", sends[j], lost[j]) BY <1>1, <1>2, <1>3, <2>2, <2>4 DEF RowOK
    <2>6. r.state \notin ACTIVE BY <2>2 DEF ACTIVE, LEASED_STATES
    <2>7. "idle" \in AtT BY DEF AtT
    <2> QED BY <1>1, <1>5, <1>6, <2>1, <2>2, <2>3, <2>5, <2>6, <2>7, OneJobInv
  <1>8. CASE ~Refused(j)
    <2> DEFINE r == [task[j] EXCEPT !.data = d, !.state = "running"]
    <2>1. ~c.in_flight /\ (~c.artifact => ~Spent(c) /\ (~Exhausted(j) \/ GroqRemains(j)))
      BY <1>8 DEF Refused
    <2>2. ~lost[j] BY <1>1, <1>2, <2>1 DEF RowOK, Data
    <2>3. task' = [task EXCEPT ![j] = r] /\ at' = [at EXCEPT ![j] = Step(d)]
      BY <1>8, <1>1 DEF ClaimTask, Saved, IInv, TypeOK, JobT
    <2>4. /\ d \in DataT /\ d.invalid <= 2 /\ DataOK(d, Step(d), sends[j])
          /\ Step(d) \in {"publish", "route", "complete"}
      <3>1. CASE c.artifact
        <4>1. d = c /\ Step(d) = "publish" BY <3>1 DEF Step
        <4> HIDE DEF d, c
        <4>2. DataOK(c, "publish", sends[j])
          BY <1>1, <1>3, <3>1 DEF DataOK, LastAttempt, Asking, Reporting
        <4> QED BY <1>1, <1>3, <4>1, <4>2
      <3>2. CASE ~c.artifact
        <4>1. /\ c.failures <= recovery_attempts + 1 /\ Attempts(c) \in Nat
              /\ sends[j] <= Attempts(c)
          <5>1. Attempts(c) \in Nat BY <1>1, AttemptsType
          <5>2. LastAttempt(c, "idle") = 0 BY <2>1, <3>2 DEF LastAttempt
          <5> HIDE DEF c
          <5> QED BY <1>1, <1>3, <5>1, <5>2 DEF DataOK
        <4>2. c.invalid < 2 BY <1>1, <2>1, <3>2 DEF Spent, DataT
        <4>3. /\ d \in DataT /\ ~d.in_flight /\ ~d.artifact /\ d.invalid < 2
              /\ d.failures <= recovery_attempts
              /\ Attempts(d) \in Nat /\ sends[j] <= Attempts(d)
          <5>1. CASE Exhausted(j)
            <6>1. d = WithGroq(c) BY <3>2, <5>1
            <6>2. ~c.groq BY <2>1, <3>2, <5>1 DEF GroqRemains
            <6> HIDE DEF d, c
            <6>3. /\ d \in DataT /\ d.in_flight = c.in_flight /\ d.invalid = c.invalid
                  /\ d.failures = 0 /\ d.artifact = c.artifact
                  /\ Attempts(d) \in Nat /\ Attempts(c) <= Attempts(d)
              BY <1>1, <4>1, <6>1, <6>2, GroqData
            <6> QED BY <1>1, <2>1, <3>2, <4>1, <4>2, <6>3
          <5>2. CASE ~Exhausted(j)
            <6>1. d = c BY <5>2
            <6>2. c.failures <= recovery_attempts BY <1>1, <5>2 DEF Exhausted, DataT
            <6> HIDE DEF d, c
            <6> QED BY <1>1, <2>1, <3>2, <4>1, <4>2, <6>1, <6>2
          <5> QED BY <5>1, <5>2
        <4> HIDE DEF d, c
        <4>4. Step(d) \in {"route", "complete"} BY <4>3 DEF Step
        <4>5. d.failures <= recovery_attempts + 1 /\ d.invalid <= 2 BY <1>1, <4>3 DEF DataT
        <4>6. DataOK(d, "complete", sends[j]) /\ DataOK(d, "route", sends[j])
          BY <1>1, <4>3, <4>5, ReadyOK
        <4> QED BY <4>3, <4>4, <4>5, <4>6
      <3> QED BY <3>1, <3>2
    <2> HIDE DEF c, d
    <2>5. /\ r \in JobT /\ r.state = "running" /\ r.data = d /\ r.cancel = task[j].cancel
      BY <1>1, <2>4 DEF JobT, JobState
    <2> HIDE DEF r
    <2>6. RowOK(r, Step(d), sends[j], FALSE) BY <1>2, <2>4, <2>5 DEF RowOK
    <2>7. Step(d) \in AtT /\ Step(d) # "send" BY <2>4 DEF AtT, Asking
    <2>8. lost' = [lost EXCEPT ![j] = FALSE] BY <1>6, <2>2, <1>1
    <2> QED BY <1>1, <1>4, <1>5, <2>3, <2>5, <2>6, <2>7, <2>8, OneJobInv
  <1> QED BY <1>7, <1>8

(* One row changes. *)
LEMMA RowsStep ==
  ASSUME IInv, NEW j \in J, NEW r, NEW a, NEW n, NEW l,
         task' = [task EXCEPT ![j] = r], at' = [at EXCEPT ![j] = a],
         sends' = [sends EXCEPT ![j] = n], lost' = [lost EXCEPT ![j] = l],
         RowOK(r, a, n, l)
  PROVE  RowsOK'
  <1> SUFFICES ASSUME NEW i \in J PROVE RowOK(task'[i], at'[i], sends'[i], lost'[i])
    BY DEF RowsOK
  <1>1. CASE i = j
    <2>1. task'[j] = r /\ at'[j] = a /\ sends'[j] = n /\ lost'[j] = l BY DEF IInv, TypeOK
    <2> QED BY <1>1, <2>1
  <1>2. CASE i # j
    <2>1. task'[i] = task[i] /\ at'[i] = at[i] /\ sends'[i] = sends[i] /\ lost'[i] = lost[i]
      BY <1>2 DEF IInv, TypeOK
    <2> QED BY <2>1 DEF IInv, RowsOK
  <1> QED BY <1>1, <1>2

(* What the request changes in stage_data, and where the handler is then.  *)
LEMMA AccountedOK ==
  ASSUME IInv, NEW j \in J, Alive(j), at[j] \in Operations
  PROVE  /\ LET e == Accounted(Data(j), at[j]) IN
            /\ e \in DataT /\ e.invalid <= 2
            /\ at[j] = "complete" => DataOK(e, "send", sends[j])
            /\ at[j] = "route" => DataOK(e, "sent_route", sends[j])
            /\ at[j] = "feedback" => DataOK(e, "sent_feedback", sends[j])
         /\ LET o == OverBudget(Data(j), at[j]) IN
            o \in DataT /\ o.invalid <= 2 /\ DataOK(o, "idle", sends[j])
  <1> DEFINE c == Data(j)
             e == Accounted(c, at[j])
             o == OverBudget(c, at[j])
  <1>1. /\ c \in DataT /\ c.invalid <= 2 /\ sends[j] \in Nat /\ recovery_attempts \in Nat
    BY AliveFacts
  <1>2. at[j] \in {"complete", "route", "send", "sent_route"} \cup Reporting
    BY DEF Operations, Reporting
  <1>3. /\ ~c.artifact /\ c.failures <= recovery_attempts
        /\ sends[j] <= Attempts(c) /\ Attempts(c) \in Nat
        /\ at[j] # "feedback" => c.invalid < 2
    BY <1>2, AskingFacts DEF Reporting, Operations, Alive
  <1> HIDE DEF c
  <1>4. e \in DataT /\ o \in DataT BY <1>1, DataTypes
  <1>5. /\ e.in_flight = (at[j] # "feedback") /\ e.invalid = c.invalid /\ e.failures = c.failures
        /\ e.groq = c.groq /\ e.artifact = c.artifact
    BY <1>1 DEF Accounted, DataT
  <1>6. /\ o.in_flight = FALSE /\ o.invalid = c.invalid /\ o.failures = c.failures
        /\ o.groq = c.groq /\ o.artifact = c.artifact
    BY <1>1 DEF OverBudget, DataT
  <1> HIDE DEF e, o
  <1>7. Attempts(e) = Attempts(c) /\ Attempts(o) = Attempts(c) BY <1>5, <1>6 DEF Attempts
  <1>8. at[j] = "complete" => DataOK(e, "send", sends[j])
    BY <1>1, <1>3, <1>4, <1>5, <1>7 DEF DataOK, LastAttempt, DataT, Asking, Reporting
  <1>9. at[j] = "route" => DataOK(e, "sent_route", sends[j])
    BY <1>1, <1>3, <1>4, <1>5, <1>7 DEF DataOK, LastAttempt, DataT, Asking, Reporting
  <1>10. at[j] = "feedback" => DataOK(e, "sent_feedback", sends[j])
    BY <1>1, <1>3, <1>4, <1>5, <1>7 DEF DataOK, LastAttempt, DataT, Asking, Reporting
  <1>11. DataOK(o, "idle", sends[j])
    BY <1>1, <1>3, <1>4, <1>6, <1>7 DEF DataOK, LastAttempt, DataT, Asking, Reporting
  <1> USE DEF e, o, c
  <1> QED BY <1>1, <1>4, <1>5, <1>6, <1>8, <1>9, <1>10, <1>11

LEMMA AccountInv ==
  ASSUME IInv, NEW j \in J, Account(j)
  PROVE  IInv'
  <1> DEFINE e == Accounted(Data(j), at[j])
             o == OverBudget(Data(j), at[j])
             a == CASE at[j] = "complete" -> "send"
                    [] at[j] = "route" -> "sent_route"
                    [] at[j] = "feedback" -> "sent_feedback"
             r == [task[j] EXCEPT !.data = e]
  <1>1. Alive(j) /\ at[j] \in Operations BY DEF Account, NeedsRequest
  <1>2. /\ task[j] \in JobT /\ Data(j) \in DataT /\ task[j].state = "running"
        /\ at[j] \in AtT /\ sends[j] \in Nat /\ recovery_attempts \in Nat
    BY <1>1, AliveFacts
  <1>3. UNCHANGED <<input, report, sends, lost, losses>> BY DEF Account
  <1>4. CASE task' = Failed(j, o) /\ at' = [at EXCEPT ![j] = "idle"] /\ UNCHANGED run
    <2>1. /\ task' = Failed(j, o) /\ at' = [at EXCEPT ![j] = "idle"] /\ UNCHANGED run
      BY <1>4
    <2>2. task' = [task EXCEPT ![j] = [@ EXCEPT !.data = o, !.state = "failed"]]
      BY <1>2, <2>1 DEF Failed, IInv, TypeOK, JobT
    <2>3. o \in DataT /\ o.invalid <= 2 /\ DataOK(o, "idle", sends[j]) BY <1>1, AccountedOK
    <2>4. "idle" \in AtT BY DEF AtT
    <2> HIDE DEF o
    <2> QED BY <1>1, <1>3, <2>1, <2>2, <2>3, <2>4, AliveInv
  <1>5. CASE /\ BudgetLeft(j) /\ run' = [run EXCEPT !.requests_used = @ + 1]
             /\ task' = Saved(j, e) /\ at' = [at EXCEPT ![j] = a]
    <2>1. /\ run' = [run EXCEPT !.requests_used = @ + 1]
          /\ task' = Saved(j, e) /\ at' = [at EXCEPT ![j] = a]
      BY <1>5
    <2>2. task' = [task EXCEPT ![j] = r] BY <2>1, <1>2 DEF Saved, IInv, TypeOK, JobT
    <2>3. /\ a \in AtT /\ a # "idle" /\ DataOK(e, a, sends[j])
          /\ e \in DataT /\ e.invalid <= 2
      <3>1. /\ e \in DataT /\ e.invalid <= 2
            /\ at[j] = "complete" => DataOK(e, "send", sends[j])
            /\ at[j] = "route" => DataOK(e, "sent_route", sends[j])
            /\ at[j] = "feedback" => DataOK(e, "sent_feedback", sends[j])
        BY <1>1, AccountedOK
      <3> HIDE DEF e
      <3> QED BY <1>1, <3>1 DEF Operations, AtT, Asking, Reporting
    <2> HIDE DEF e, a
    <2>4. r \in JobT /\ r.state = "running" /\ r.data = e /\ r.cancel = task[j].cancel
      BY <1>2, <2>3 DEF JobT
    <2> HIDE DEF r
    <2>5. /\ run.requests_used \in Nat /\ run' \in RunT
          /\ run'.requests_used = run.requests_used + 1
          /\ run'.closed = run.closed /\ run'.windows = run.windows
          /\ run'.upstream_limited = run.upstream_limited
      <3>1. run \in RunT /\ run.requests_used + 1 \in Nat BY DEF IInv, TypeOK, RunT
      <3> QED BY <2>1, <3>1 DEF RunT
    <2>6. TypeOK' BY <1>3, <2>1, <2>2, <2>3, <2>4, <2>5 DEF IInv, TypeOK
    <2>7. RowsOK'
      <3>1. RowOK(task[j], at[j], sends[j], lost[j]) BY DEF IInv, RowsOK
      <3>2. ~lost[j] BY <1>2, <3>1 DEF RowOK
      <3>3. RowOK(r, a, sends[j], lost[j]) BY <2>3, <2>4, <3>1, <3>2 DEF RowOK
      <3>4. sends' = [sends EXCEPT ![j] = sends[j]] /\ lost' = [lost EXCEPT ![j] = lost[j]]
        BY <1>3 DEF IInv, TypeOK
      <3> QED BY <2>1, <2>2, <3>3, <3>4, RowsStep
    <2>8. CountsOK'
      <3>1. W \in SUBSET J /\ J \in SUBSET J BY DEF J
      <3>2. /\ Cardinality(Counted(J)) \in Nat /\ Cardinality(Counted(W)) \in Nat
            /\ Cardinality(Counted(J)) <= run.requests_used
            /\ Cardinality(Counted(W)) <= max_requests - reconciliation_requests
        BY <3>1, CountedFinite, FS_CardinalityType DEF IInv, CountsOK
      <3>3. \A i \in J : sends'[i] = sends[i] /\ (i # j => at'[i] = at[i])
        BY <1>3, <2>1 DEF IInv, TypeOK
      <3>4. /\ Cardinality(Counted(J)') \in Nat
            /\ Cardinality(Counted(J)') <= run'.requests_used
        <4>1. /\ Cardinality(Counted(J)') \in Nat
              /\ Cardinality(Counted(J)') <= Cardinality(Counted(J)) + 1
          BY <3>1, <3>3, OneAdded
        <4> QED BY <4>1, <3>2, <2>5
      <3>5. Cardinality(Counted(W)') <= max_requests - reconciliation_requests
        <4>1. CASE j = Rec
          <5>1. \A i \in W : i # j BY <4>1, ExtractionAssumption
          <5>2. \A i \in W : sends'[i] = sends[i] /\ (at'[i] = "send" => at[i] = "send")
            BY <3>1, <3>3, <5>1
          <5>3. /\ Cardinality(Counted(W)') \in Nat
                /\ Cardinality(Counted(W)') <= Cardinality(Counted(W))
            BY <3>1, <5>2, NoneAdded
          <5> QED BY <5>3, <3>2, ExtractionAssumption
        <4>2. CASE j # Rec
          <5>1. Counted(W)' \subseteq Counted(J)' BY <3>1 DEF Counted
          <5>2. IsFiniteSet(Counted(J)')
            <6>1. IsFiniteSet(Counted(J)) /\ TypeOK' /\ RowsOK'
              BY <2>6, <2>7, <3>1, CountedFinite DEF IInv
            <6> QED BY <6>1, <3>1, CountedFiniteNext
          <5>3. Cardinality(Counted(W)') <= Cardinality(Counted(J)')
                /\ Cardinality(Counted(W)') \in Nat
            BY <5>1, <5>2, FS_Subset, FS_CardinalityType
          <5>4. run.requests_used + 1 <= max_requests - reconciliation_requests
            BY <1>5, <4>2 DEF BudgetLeft
          <5> QED BY <5>3, <5>4, <3>4, <2>5, ExtractionAssumption
        <4> QED BY <4>1, <4>2
      <3> QED BY <3>4, <3>5 DEF CountsOK
    <2>9. \A i \in J : task'[i].state = task[i].state /\ task'[i].cancel = task[i].cancel
      BY <1>2, <2>2, <2>4 DEF IInv, TypeOK
    <2>10. ReportOK' BY <1>3, <2>5, <2>9 DEF IInv, ReportOK, ScheduledOK, J
    <2>11. StopReachesWindows' BY <1>3, <2>9 DEF IInv, StopReachesWindows
    <2> QED BY <2>6, <2>7, <2>8, <2>10, <2>11 DEF IInv
  <1>6. at \in [J -> AtT] BY DEF IInv, TypeOK
  <1> QED BY <1>4, <1>5, <1>6 DEF Account

(* A request that leaves was counted when it was accounted for. *)
LEMMA SendInv ==
  ASSUME IInv, NEW j \in J, Send(j)
  PROVE  IInv'
  <1> DEFINE d == Data(j)
             n == sends[j] + 1
  <1>1. task[j].state = "running" /\ at[j] = "send" BY DEF Send
  <1>2. /\ task[j] \in JobT /\ d \in DataT /\ task[j].state = "running" /\ d.invalid <= 2
        /\ sends[j] \in Nat /\ recovery_attempts \in Nat /\ n \in Nat
        /\ DataOK(d, at[j], sends[j])
    BY <1>1, RunningFacts
  <1>3. /\ ~d.artifact /\ d.failures <= recovery_attempts /\ d.invalid < 2
        /\ sends[j] <= Attempts(d) /\ Attempts(d) \in Nat
    BY <1>1, AskingFacts DEF Reporting
  <1>4. sends' = [sends EXCEPT ![j] = n] /\ at' = [at EXCEPT ![j] = "sent"]
    BY DEF Send
  <1>5. UNCHANGED <<run, input, task, report, lost, losses>> BY DEF Send
  <1>6. TypeOK'
    <2>1. "sent" \in AtT BY DEF AtT, Asking
    <2> HIDE DEF n
    <2> QED BY <1>2, <1>4, <1>5, <2>1 DEF IInv, TypeOK
  <1>7. RowsOK'
    <2>1. RowOK(task[j], at[j], sends[j], lost[j]) BY DEF IInv, RowsOK
    <2>2. ~lost[j] BY <1>2, <2>1 DEF RowOK
    <2>3. d.in_flight BY <1>1, <1>2 DEF DataOK
    <2>4. n <= 2 + 2 * (recovery_attempts + 1)
      <3> HIDE DEF d
      <3> QED BY <1>2, <1>3 DEF Attempts, DataT
    <2>5. DataOK(d, "sent", n)
      <3>1. LastAttempt(d, "sent") = 1 BY <2>3 DEF LastAttempt
      <3> HIDE DEF d
      <3> QED BY <1>2, <1>3, <2>3, <3>1 DEF DataOK, DataT, Asking, Reporting
    <2> HIDE DEF n
    <2>6. RowOK(task[j], "sent", n, lost[j])
      BY <1>2, <2>1, <2>2, <2>4, <2>5 DEF RowOK, Data
    <2>7. task' = [task EXCEPT ![j] = task[j]] /\ lost' = [lost EXCEPT ![j] = lost[j]]
      BY <1>5 DEF IInv, TypeOK
    <2> QED BY <1>4, <2>6, <2>7, RowsStep
  <1>8. CountsOK'
    <2>1. \A i \in J : Due(i)' = Due(i) BY <1>1, <1>2, <1>4 DEF IInv, TypeOK, Due
    <2>2. Counted(J)' = Counted(J) /\ Counted(W)' = Counted(W) BY <2>1 DEF Counted, J
    <2> QED BY <1>5, <2>2 DEF IInv, CountsOK
  <1>9. ReportOK' BY <1>5 DEF IInv, ReportOK, ScheduledOK
  <1>10. StopReachesWindows' BY <1>5 DEF IInv, StopReachesWindows
  <1> QED BY <1>6, <1>7, <1>8, <1>9, <1>10 DEF IInv

(* Whatever a handler did, its stage_data may be left as it is. *)
LEMMA IdleOK ==
  ASSUME NEW d \in DataT, NEW a, NEW n \in Nat, DataOK(d, a, n)
  PROVE  DataOK(d, "idle", n)
  <1>1. Attempts(d) \in Nat BY AttemptsType
  <1>2. n <= Attempts(d) + LastAttempt(d, a) /\ d.failures <= recovery_attempts + 1
    BY DEF DataOK
  <1>3. LastAttempt(d, a) \in {0, 1} /\ LastAttempt(d, "idle") \in {0, 1}
        /\ LastAttempt(d, a) <= LastAttempt(d, "idle")
    BY DEF LastAttempt
  <1>4. n <= Attempts(d) + LastAttempt(d, "idle") BY <1>1, <1>2, <1>3
  <1> QED BY <1>2, <1>4 DEF DataOK, Asking, Reporting

(* The counted requests stay as they are. *)
LEMMA SameCounts ==
  ASSUME IInv, UNCHANGED <<at, sends>>, run'.requests_used = run.requests_used
  PROVE  CountsOK'
  <1>1. Counted(J)' = Counted(J) /\ Counted(W)' = Counted(W) BY DEF Counted, Due
  <1> QED BY <1>1 DEF IInv, CountsOK

LEMMA PublishInv ==
  ASSUME IInv, NEW j \in J, PublishTask(j)
  PROVE  IInv'
  <1> DEFINE r == [task[j] EXCEPT !.state = "published"]
  <1>1. Alive(j) /\ at[j] = "publish" BY DEF PublishTask
  <1>2. /\ task[j] \in JobT /\ Data(j) \in DataT /\ task[j].state = "running" /\ ~task[j].cancel
        /\ Data(j).invalid <= 2 /\ sends[j] \in Nat /\ DataOK(Data(j), "publish", sends[j])
    BY <1>1, AliveFacts DEF Alive
  <1>3. DataOK(Data(j), "idle", sends[j]) BY <1>2, IdleOK
  <1>4. UNCHANGED <<run, input, sends, lost, losses>> BY DEF PublishTask
  <1>5. CASE Superseded(j)
    <2>1. at' = [at EXCEPT ![j] = "rejected"] /\ UNCHANGED <<task, report>>
      BY <1>5 DEF PublishTask
    <2>2. task' = [task EXCEPT ![j] = [@ EXCEPT !.data = Data(j), !.state = "running"]]
      BY <1>2, <2>1 DEF Data, IInv, TypeOK, JobT
    <2>3. "rejected" \in AtT BY DEF AtT
    <2>4. DataOK(Data(j), "rejected", sends[j])
      BY <1>2 DEF DataOK, LastAttempt, Asking, Reporting
    <2> QED BY <1>1, <1>2, <1>4, <2>1, <2>2, <2>3, <2>4, AliveInv
  <1>6. CASE ~Superseded(j)
    <2>1. /\ report' = IF j = Rec THEN ReconciledReport ELSE MergedReport(j)
          /\ task' = [task EXCEPT ![j].state = "published"]
          /\ at' = [at EXCEPT ![j] = "idle"]
      BY <1>6 DEF PublishTask
    <2>2. task' = [task EXCEPT ![j] = r] BY <2>1, <1>2 DEF IInv, TypeOK
    <2>3. r \in JobT /\ r.state = "published" /\ r.data = Data(j)
      BY <1>2 DEF JobT, JobState, Data
    <2> HIDE DEF r
    <2>4. /\ \A i \in J : i # j => task'[i] = task[i]
          /\ task'[j] = r
      BY <2>2 DEF IInv, TypeOK
    <2>5. /\ report' \in ReportT /\ report.claims \subseteq report'.claims
          /\ j = Rec => /\ report'.claims = report.claims
                        /\ report'.limited = run.upstream_limited
          /\ j # Rec => report'.reconciled = FALSE /\ ClaimsOf[j] \subseteq report'.claims
      <3>1. /\ report \in ReportT /\ run.upstream_limited \in BOOLEAN /\ report.id + 1 \in Nat
        BY DEF IInv, TypeOK, ReportT, RunT
      <3>2. CASE j = Rec
        <4>1. report' = ReconciledReport BY <2>1, <3>2
        <4> QED BY <3>1, <3>2, <4>1 DEF ReconciledReport, ReportT
      <3>3. CASE j # Rec
        <4>1. report' = MergedReport(j) /\ ~report.reconciled
          BY <1>6, <2>1, <3>3 DEF Superseded
        <4>2. j \in W /\ ClaimsOf[j] \subseteq Occurrences BY <3>3 DEF J, Occurrences
        <4> QED BY <3>1, <3>3, <4>1, <4>2 DEF MergedReport, ReportT
      <3> QED BY <3>2, <3>3
    <2>6. TypeOK'
      <3>1. "idle" \in AtT BY DEF AtT
      <3> QED BY <1>4, <2>1, <2>2, <2>3, <2>5, <3>1 DEF IInv, TypeOK
    <2>7. RowsOK'
      <3>1. RowOK(task[j], at[j], sends[j], lost[j]) BY DEF IInv, RowsOK
      <3>2. ~lost[j] BY <1>2, <3>1 DEF RowOK
      <3>3. RowOK(r, "idle", sends[j], lost[j]) BY <1>2, <1>3, <2>3, <3>1, <3>2 DEF RowOK
      <3>4. sends' = [sends EXCEPT ![j] = sends[j]] /\ lost' = [lost EXCEPT ![j] = lost[j]]
        BY <1>4 DEF IInv, TypeOK
      <3> QED BY <2>1, <2>2, <3>3, <3>4, RowsStep
    <2>8. CountsOK'
      <3>1. W \in SUBSET J /\ J \in SUBSET J BY DEF J
      <3>2. \A i \in J : Due(i)' = Due(i) BY <1>1, <1>4, <2>1 DEF IInv, TypeOK, Due
      <3>3. Counted(J)' = Counted(J) /\ Counted(W)' = Counted(W) BY <3>2 DEF Counted, J
      <3> QED BY <1>4, <3>3 DEF IInv, CountsOK
    <2>9. ReportOK'
      <3>1. CASE j = Rec
        <4>1. \A w \in W : w # j BY <3>1, ExtractionAssumption
        <4>2. run.closed /\ (~run.upstream_limited =>
                               \A w \in run.windows : ClaimsOf[w] \subseteq report.claims)
          BY <1>2, <3>1 DEF IInv, ReportOK, ScheduledOK
        <4>3. task'[Rec].state # "none" BY <2>3, <2>4, <3>1
        <4> QED BY <1>4, <2>4, <2>5, <3>1, <4>1, <4>2, <4>3 DEF IInv, ReportOK, ScheduledOK, J
      <3>2. CASE j # Rec
        <4>1. task'[Rec] = task[Rec] BY <2>4, <3>2 DEF J
        <4>2. \A w \in W : task'[w].state = "published" =>
                             w = j \/ task[w].state = "published"
          BY <2>4 DEF J
        <4> QED BY <1>4, <2>5, <3>2, <4>1, <4>2 DEF IInv, ReportOK, ScheduledOK
      <3> QED BY <3>1, <3>2
    <2>10. StopReachesWindows'
      <3>1. input # "stopped"
        BY <1>2 DEF IInv, StopReachesWindows, ACTIVE, LEASED_STATES
      <3> QED BY <1>4, <3>1 DEF StopReachesWindows
    <2> QED BY <2>6, <2>7, <2>8, <2>9, <2>10 DEF IInv
  <1> QED BY <1>5, <1>6

(* A running job ends, or goes back to the queue, with what it has saved.  *)
LEMMA LeaveInv ==
  ASSUME IInv, NEW j \in J, task[j].state = "running", NEW s \in {"cancelled", "queued"},
         task[j].cancel => s = "cancelled", NEW l \in BOOLEAN, l => at[j] = "sent",
         task' = [task EXCEPT ![j].state = s], at' = [at EXCEPT ![j] = "idle"],
         lost' = [lost EXCEPT ![j] = l], losses' \in Nat,
         UNCHANGED <<run, input, report, sends>>
  PROVE  IInv'
  <1> DEFINE r == [task[j] EXCEPT !.state = s]
  <1>1. task[j] \in JobT /\ sends[j] \in Nat BY DEF IInv, TypeOK
  <1>2. RowOK(task[j], at[j], sends[j], lost[j]) BY DEF IInv, RowsOK
  <1>3. /\ task[j].data \in DataT /\ DataOK(task[j].data, at[j], sends[j])
        /\ task[j].data.invalid <= 2
    BY <1>1, <1>2 DEF RowOK, JobT
  <1>4. DataOK(task[j].data, "idle", sends[j]) BY <1>1, <1>3, IdleOK
  <1>5. l => task[j].data.in_flight BY <1>3 DEF DataOK
  <1>6. r \in JobT /\ r.state = s /\ r.data = task[j].data /\ r.cancel = task[j].cancel
    BY <1>1 DEF JobT, JobState
  <1>7. task' = [task EXCEPT ![j] = r] BY <1>1 DEF IInv, TypeOK
  <1>8. input = "stopped" => task[j].cancel
    BY DEF IInv, StopReachesWindows, ACTIVE, LEASED_STATES
  <1> HIDE DEF r
  <1>9. RowOK(r, "idle", sends[j], l) BY <1>2, <1>3, <1>4, <1>5, <1>6 DEF RowOK
  <1>10. input = "stopped" /\ r.state \in ACTIVE => r.cancel BY <1>6, <1>8
  <1>11. "idle" \in AtT /\ r.state # "none" /\ r.state # "published" BY <1>6 DEF AtT
  <1> QED BY <1>6, <1>7, <1>9, <1>10, <1>11, OneJobInv

LEMMA AcknowledgeInv ==
  ASSUME IInv, NEW j \in J, Acknowledge(j)
  PROVE  IInv'
  <1>1. task[j].state = "running" /\ lost[j] \in BOOLEAN BY DEF Acknowledge, IInv, TypeOK
  <1>2. RowOK(task[j], at[j], sends[j], lost[j]) BY DEF IInv, RowsOK
  <1>3. ~lost[j] BY <1>1, <1>2 DEF RowOK
  <1>4. lost' = [lost EXCEPT ![j] = FALSE] BY <1>1, <1>3 DEF Acknowledge, IInv, TypeOK
  <1>5. losses' \in Nat BY DEF Acknowledge, IInv, TypeOK
  <1> QED BY <1>1, <1>4, <1>5, LeaveInv DEF Acknowledge

LEMMA ExpireInv ==
  ASSUME IInv, NEW j \in J, Rejected(j) \/ LoseTask(j)
  PROVE  IInv'
  <1>1. Expire(j) /\ losses' \in Nat BY DEF Rejected, LoseTask, IInv, TypeOK
  <1>2. task[j].state = "running" /\ lost[j] \in BOOLEAN BY <1>1 DEF Expire, IInv, TypeOK
  <1>3. RowOK(task[j], at[j], sends[j], lost[j]) BY DEF IInv, RowsOK
  <1>4. ~lost[j] BY <1>2, <1>3 DEF RowOK
  <1> DEFINE l == (at[j] = "sent")
             s == IF task[j].cancel THEN "cancelled" ELSE "queued"
  <1>5. lost' = [lost EXCEPT ![j] = l] BY <1>1, <1>2, <1>4 DEF Expire, IInv, TypeOK
  <1>6. /\ task' = [task EXCEPT ![j].state = s] /\ at' = [at EXCEPT ![j] = "idle"]
        /\ UNCHANGED <<run, input, report, sends>>
    BY <1>1 DEF Expire
  <1>7. l \in BOOLEAN /\ s \in {"cancelled", "queued"} /\ (task[j].cancel => s = "cancelled")
        /\ (l => at[j] = "sent")
    OBVIOUS
  <1> HIDE DEF l, s
  <1> QED BY <1>1, <1>2, <1>5, <1>6, <1>7, LeaveInv

LEMMA NoDataType == NoData \in DataT /\ NoJob \in JobT /\ NewJob \in JobT /\ NewJob.data = NoData
  <1>1. NoData \in DataT
    <2>1. -1 \in Int /\ 0 \in Nat OBVIOUS
    <2> QED BY <2>1 DEF NoData, DataT
  <1>2. NoJob \in JobT /\ NoJob.data = NoData BY <1>1 DEF NoJob, JobT
  <1>3. NewJob \in JobT /\ NewJob.data = NoData BY <1>2 DEF NewJob, JobT, JobState
  <1> QED BY <1>1, <1>2, <1>3

LEMMA DeleteInv ==
  ASSUME IInv, NEW w \in W, DeleteTask(w)
  PROVE  IInv'
  <1> DEFINE r == [NoJob EXCEPT !.state = "deleted"]
  <1>1. w \in J BY DEF J
  <1>2. r \in JobT /\ r.state = "deleted" /\ r.data = NoData
    BY NoDataType DEF NoJob, JobT, JobState
  <1>3. RowOK(task[w], at[w], sends[w], lost[w]) /\ lost[w] \in BOOLEAN
    BY <1>1 DEF IInv, RowsOK, TypeOK
  <1>4. /\ task' = [task EXCEPT ![w] = r] /\ at' = [at EXCEPT ![w] = "idle"]
        /\ UNCHANGED <<run, input, report, sends, lost>> /\ task[w].state \in JobState
    BY DEF DeleteTask
  <1>5. losses' \in Nat BY DEF DeleteTask, IInv, TypeOK
  <1>6. task[w].state # "none" BY <1>4 DEF JobState
  <1>7. lost' = [lost EXCEPT ![w] = lost[w]] BY <1>4 DEF IInv, TypeOK
  <1> HIDE DEF r
  <1>8. RowOK(r, "idle", sends[w], lost[w]) BY <1>2, <1>3 DEF RowOK, NoData
  <1>9. "idle" \in AtT /\ r.state \notin ACTIVE BY <1>2 DEF AtT, ACTIVE, LEASED_STATES
  <1> QED BY <1>1, <1>2, <1>3, <1>4, <1>5, <1>6, <1>7, <1>8, <1>9, OneJobInv

(* A new job has sent nothing. *)
LEMMA EnqueueRows ==
  ASSUME IInv, NEW js \in SUBSET J, task' = EnqueueTask(js), UNCHANGED <<at, sends, lost>>
  PROVE  /\ task' \in [J -> JobT] /\ RowsOK'
         /\ \A j \in J : \/ task'[j] = task[j]
                         \/ task[j].state = "none" /\ task'[j].state = "queued" /\ j \in js
  <1>1. \A j \in J : \/ task'[j] = task[j]
                     \/ task[j].state = "none" /\ task'[j] = NewJob /\ j \in js
    BY DEF EnqueueTask
  <1>2. NewJob.state = "queued" BY DEF NewJob, NoJob
  <1>3. task' \in [J -> JobT] BY NoDataType DEF IInv, TypeOK, EnqueueTask
  <1>4. RowsOK'
    <2> SUFFICES ASSUME NEW j \in J PROVE RowOK(task'[j], at[j], sends[j], lost[j])
      BY DEF RowsOK
    <2>1. RowOK(task[j], at[j], sends[j], lost[j]) /\ sends[j] \in Nat
      BY DEF IInv, RowsOK, TypeOK
    <2>2. CASE task[j].state = "none" /\ task'[j] = NewJob
      <3>1. task[j] = NoJob /\ at[j] = "idle" /\ ~lost[j] BY <2>1, <2>2 DEF RowOK
      <3>2. DataOK(NoData, "idle", sends[j]) BY <2>1, <3>1 DEF RowOK, NoJob
      <3> QED BY <1>2, <2>1, <2>2, <3>1, <3>2, NoDataType DEF RowOK, NoData
    <2> QED BY <1>1, <2>1, <2>2
  <1> QED BY <1>1, <1>2, <1>3, <1>4

LEMMA SubmitInv ==
  ASSUME IInv, NEW w \in W, Submit(w)
  PROVE  IInv'
  <1>1. {w} \in SUBSET J /\ w # Rec BY ExtractionAssumption DEF J
  <1>2. UNCHANGED <<input, at, report, sends, lost, losses>> /\ task' = EnqueueTask({w})
    BY DEF Submit
  <1>3. /\ task' \in [J -> JobT] /\ RowsOK'
        /\ \A j \in J : \/ task'[j] = task[j]
                        \/ task[j].state = "none" /\ task'[j].state = "queued" /\ j \in {w}
    BY <1>1, <1>2, EnqueueRows
  <1>4. /\ ~run.closed /\ run \in RunT /\ run' = [run EXCEPT !.windows = @ \cup {w}]
        /\ input = "working"
    BY DEF IInv, TypeOK, Submit
  <1>5. /\ run' \in RunT /\ run'.requests_used = run.requests_used /\ run'.closed = run.closed
    BY <1>4 DEF RunT
  <1>6. TypeOK' BY <1>2, <1>3, <1>5 DEF IInv, TypeOK
  <1>7. CountsOK' BY <1>2, <1>5, SameCounts
  <1>8. task[Rec].state = "none" /\ ~report.reconciled
    BY <1>4 DEF IInv, ReportOK, ScheduledOK
  <1>9. task'[Rec] = task[Rec] /\ \A v \in W : task'[v].state = "published" => task[v].state = "published"
    BY <1>1, <1>3 DEF J
  <1>10. ReportOK' BY <1>2, <1>8, <1>9 DEF IInv, ReportOK, ScheduledOK
  <1>11. StopReachesWindows' BY <1>2, <1>4 DEF StopReachesWindows
  <1> QED BY <1>3, <1>6, <1>7, <1>10, <1>11 DEF IInv

LEMMA SettleInv ==
  ASSUME IInv, Settle
  PROVE  IInv'
  <1>1. PICK rest \in SUBSET (W \ run.windows), admitted \in BOOLEAN :
          /\ run' = Registered([run EXCEPT !.closed = TRUE, !.windows = @ \cup rest], admitted)
          /\ task' = EnqueueTask(rest)
    BY DEF Settle
  <1>2. rest \in SUBSET J /\ Rec \notin rest BY ExtractionAssumption DEF J
  <1>3. UNCHANGED <<input, at, report, sends, lost, losses>> /\ input = "done" /\ ~run.closed
    BY DEF Settle
  <1>4. /\ task' \in [J -> JobT] /\ RowsOK'
        /\ \A j \in J : \/ task'[j] = task[j]
                        \/ task[j].state = "none" /\ task'[j].state = "queued" /\ j \in rest
    BY <1>1, <1>2, <1>3, EnqueueRows
  <1>5. run' \in RunT /\ run'.requests_used = run.requests_used
    <2>1. run \in RunT /\ run.windows \cup rest \subseteq W BY DEF IInv, TypeOK, RunT
    <2>2. (run.reconcile \/ admitted) \in BOOLEAN OBVIOUS
    <2> QED BY <1>1, <2>1, <2>2 DEF RunT, Registered
  <1>6. TypeOK' BY <1>3, <1>4, <1>5 DEF IInv, TypeOK
  <1>7. CountsOK' BY <1>3, <1>5, SameCounts
  <1>8. task[Rec].state = "none" /\ ~report.reconciled
    BY <1>3 DEF IInv, ReportOK, ScheduledOK
  <1>9. task'[Rec] = task[Rec] /\ \A v \in W : task'[v].state = "published" => task[v].state = "published"
    BY <1>2, <1>4 DEF J
  <1>10. ReportOK' BY <1>3, <1>8, <1>9 DEF IInv, ReportOK, ScheduledOK
  <1>11. StopReachesWindows' BY <1>3 DEF StopReachesWindows
  <1> QED BY <1>4, <1>6, <1>7, <1>10, <1>11 DEF IInv

LEMMA ScheduleInv ==
  ASSUME IInv, ScheduleReconciliation
  PROVE  IInv'
  <1>1. {Rec} \in SUBSET J /\ \A w \in W : w # Rec BY ExtractionAssumption DEF J
  <1>2. /\ UNCHANGED <<input, at, report, sends, lost, losses>> /\ input = "done"
        /\ task' = EnqueueTask({Rec}) /\ run.closed /\ task[Rec].state = "none"
        /\ run' = [run EXCEPT !.report_id = report.id, !.upstream_limited = Limited]
    BY DEF ScheduleReconciliation
  <1>3. /\ task' \in [J -> JobT] /\ RowsOK'
        /\ \A j \in J : \/ task'[j] = task[j]
                        \/ task[j].state = "none" /\ task'[j].state = "queued" /\ j \in {Rec}
    BY <1>1, <1>2, EnqueueRows
  <1>4. /\ run' \in RunT /\ run'.requests_used = run.requests_used /\ run'.closed
        /\ run'.windows = run.windows /\ run'.upstream_limited = Limited
        /\ run.windows \subseteq W
    <2>1. run \in RunT /\ report.id \in Nat /\ Limited \in BOOLEAN
      BY DEF IInv, TypeOK, ReportT, Limited
    <2> HIDE DEF Limited
    <2> QED BY <1>2, <2>1 DEF RunT
  <1>5. TypeOK' BY <1>2, <1>3, <1>4 DEF IInv, TypeOK
  <1>6. CountsOK' BY <1>2, <1>4, SameCounts
  <1>7. \A w \in W : task'[w] = task[w] BY <1>1, <1>3 DEF J
  <1>8. ~Limited => \A w \in run.windows : ClaimsOf[w] \subseteq report.claims
    BY <1>4 DEF Limited, IInv, ReportOK
  <1>9. ~report.reconciled BY <1>2 DEF IInv, ReportOK
  <1>10. ReportOK' BY <1>2, <1>4, <1>7, <1>8, <1>9 DEF IInv, ReportOK, ScheduledOK
  <1>11. StopReachesWindows' BY <1>2 DEF StopReachesWindows
  <1> QED BY <1>3, <1>5, <1>6, <1>10, <1>11 DEF IInv

LEMMA UpstreamInv ==
  ASSUME IInv, UpstreamEnds
  PROVE  IInv'
  <1>1. input' = "done" /\ UNCHANGED <<run, task, at, report, sends, lost, losses>>
    BY DEF UpstreamEnds
  <1>2. TypeOK' BY <1>1 DEF IInv, TypeOK
  <1>3. RowsOK' BY <1>1 DEF IInv, RowsOK
  <1>4. CountsOK' BY <1>1, SameCounts
  <1>5. ReportOK' BY <1>1 DEF IInv, ReportOK, ScheduledOK
  <1>6. StopReachesWindows' BY <1>1 DEF StopReachesWindows
  <1> QED BY <1>2, <1>3, <1>4, <1>5, <1>6 DEF IInv

LEMMA OtherVersionInv ==
  ASSUME IInv, OtherVersion
  PROVE  IInv'
  <1>1. /\ report' = [report EXCEPT !.id = @ + 1] /\ losses' = losses + 1
        /\ UNCHANGED <<run, input, task, at, sends, lost>>
    BY DEF OtherVersion
  <1>2. report \in ReportT /\ report.id + 1 \in Nat BY DEF IInv, TypeOK, ReportT
  <1>3. /\ report' \in ReportT /\ report'.claims = report.claims
        /\ report'.reconciled = report.reconciled /\ report'.limited = report.limited
    BY <1>1, <1>2 DEF ReportT
  <1>4. TypeOK' BY <1>1, <1>3 DEF IInv, TypeOK
  <1>5. RowsOK' BY <1>1 DEF IInv, RowsOK
  <1>6. CountsOK' BY <1>1, SameCounts
  <1>7. ReportOK' BY <1>1, <1>3 DEF IInv, ReportOK, ScheduledOK
  <1>8. StopReachesWindows' BY <1>1 DEF IInv, StopReachesWindows
  <1> QED BY <1>4, <1>5, <1>6, <1>7, <1>8 DEF IInv

(* A stop asks every active job to cancel; those that wait end at once.    *)
LEMMA StopInv ==
  ASSUME IInv, StopCapture
  PROVE  IInv'
  <1>1. /\ input' = "stopped" /\ task' = [j \in J |-> RequestStop(j)]
        /\ UNCHANGED <<run, at, report, sends, lost, losses>>
    BY DEF StopCapture
  <1>2. ASSUME NEW j \in J
        PROVE  /\ task'[j] \in JobT /\ task'[j].data = task[j].data
               /\ \/ task'[j] = task[j] /\ task[j].state \notin ACTIVE
                  \/ /\ task[j].state \in ACTIVE /\ task'[j].cancel
                     /\ task'[j].state = IF task[j].state = "queued" THEN "cancelled"
                                        ELSE task[j].state
    <2>1. task[j] \in JobT /\ task'[j] = RequestStop(j) BY <1>1 DEF IInv, TypeOK
    <2>2. CASE task[j].state \notin ACTIVE BY <2>1, <2>2 DEF RequestStop
    <2>3. CASE task[j].state \in ACTIVE
      BY <2>1, <2>3 DEF RequestStop, JobT, JobState, ACTIVE, LEASED_STATES
    <2> QED BY <2>2, <2>3
  <1>3. TypeOK'
    <2>1. task' \in [J -> JobT] BY <1>1, <1>2
    <2> QED BY <1>1, <2>1 DEF IInv, TypeOK
  <1>4. RowsOK'
    <2> SUFFICES ASSUME NEW j \in J PROVE RowOK(task'[j], at[j], sends[j], lost[j])
      BY <1>1 DEF RowsOK
    <2>1. RowOK(task[j], at[j], sends[j], lost[j]) BY DEF IInv, RowsOK
    <2>2. CASE task'[j] = task[j] BY <2>1, <2>2
    <2>3. CASE /\ task[j].state \in ACTIVE
               /\ task'[j].state = IF task[j].state = "queued" THEN "cancelled" ELSE task[j].state
      BY <1>2, <2>1, <2>3 DEF RowOK, ACTIVE, LEASED_STATES
    <2> QED BY <1>2, <2>2, <2>3
  <1>5. CountsOK' BY <1>1, SameCounts
  <1>6. \A j \in J : /\ task'[j].state = "none" <=> task[j].state = "none"
                     /\ task'[j].state = "published" => task[j].state = "published"
    BY <1>2 DEF ACTIVE, LEASED_STATES
  <1>7. ReportOK' BY <1>1, <1>6 DEF IInv, ReportOK, ScheduledOK, J
  <1>8. StopReachesWindows' BY <1>2 DEF StopReachesWindows
  <1> QED BY <1>3, <1>4, <1>5, <1>7, <1>8 DEF IInv

-----------------------------------------------------------------------------
(* Theorems *)

LEMMA InitInv == XInit => IInv
  <1> SUFFICES ASSUME XInit PROVE IInv OBVIOUS
  <1>1. TypeOK
    <2>1. NoRun \in RunT /\ NoReport \in ReportT BY DEF NoRun, RunT, NoReport, ReportT
    <2>2. "idle" \in AtT BY DEF AtT
    <2> QED BY <2>1, <2>2, NoDataType DEF XInit, TypeOK
  <1>2. RowsOK
    <2> SUFFICES RowOK(NoJob, "idle", 0, FALSE) BY DEF XInit, RowsOK
    <2>1. NoJob.state = "none" /\ NoJob.data = NoData BY DEF NoJob
    <2>2. DataOK(NoData, "idle", 0)
      BY ExtractionAssumption DEF DataOK, NoData, Attempts, LastAttempt, Asking, Reporting
    <2> QED BY <2>1, <2>2, ExtractionAssumption DEF RowOK, NoData
  <1>3. CountsOK
    <2>1. \A j \in J : 1..Due(j) = {} BY DEF XInit, Due
    <2>2. Counted(J) = {} /\ Counted(W) = {} BY <2>1 DEF Counted, J
    <2>3. Cardinality({}) = 0 BY FS_EmptySet
    <2>4. 0 <= max_requests - reconciliation_requests BY ExtractionAssumption
    <2> QED BY <2>2, <2>3, <2>4 DEF CountsOK, XInit, NoRun
  <1>4. ReportOK
    <2>1. \A j \in J : task[j].state = "none" BY DEF XInit, NoJob
    <2>2. ~report.reconciled BY DEF XInit, NoReport
    <2> QED BY <2>1, <2>2 DEF ReportOK, ScheduledOK, J
  <1>5. StopReachesWindows BY DEF XInit, StopReachesWindows
  <1> QED BY <1>1, <1>2, <1>3, <1>4, <1>5 DEF IInv

LEMMA NextInv == IInv /\ [XNext]_xvars => IInv'
  <1> SUFFICES ASSUME IInv, [XNext]_xvars PROVE IInv' OBVIOUS
  <1>1. ASSUME NEW j \in J, WorkTask(j) PROVE IInv'
    BY <1>1, ClaimInv, AccountInv, SendInv, UnavailableInv, ValidInv, InvalidInv, DeniedInv,
       FeedbackInv, RoutedInv, PublishInv, AcknowledgeInv, ExpireInv DEF WorkTask
  <1>2. ASSUME NEW j \in J, LoseTask(j) PROVE IInv' BY <1>2, ExpireInv
  <1>3. ASSUME NEW w \in W, Submit(w) \/ DeleteTask(w) PROVE IInv'
    BY <1>3, SubmitInv, DeleteInv
  <1>4. CASE UpstreamEnds \/ StopCapture \/ Settle \/ ScheduleReconciliation \/ OtherVersion
    BY <1>4, UpstreamInv, StopInv, SettleInv, ScheduleInv, OtherVersionInv
  <1>5. CASE UNCHANGED xvars
    BY <1>5 DEF xvars, IInv, TypeOK, RowsOK, CountsOK, Counted, Due, ReportOK, ScheduledOK,
                StopReachesWindows
  <1> QED BY <1>1, <1>2, <1>3, <1>4, <1>5 DEF XNext

(* The rows, the handlers and the reports keep their types, and the        *)
(* inductive invariant holds in every reachable state.                     *)
THEOREM Invariance == XSpec => []IInv
  BY InitInv, NextInv, PTL DEF XSpec

(* What reached a provider was counted first, and the windows never spend  *)
(* the requests reserved for reconciliation, for any number of windows and *)
(* any crashes between account() and the send.                             *)
THEOREM ReserveIsKept == XSpec => []ReserveKept
  <1>1. IInv => ReserveKept
    <2> SUFFICES ASSUME IInv PROVE ReserveKept OBVIOUS
    <2>1. W \in SUBSET J /\ J \in SUBSET J BY DEF J
    <2>2. ASSUME NEW js \in SUBSET J
          PROVE  /\ Cardinality(Sent(js)) <= Cardinality(Counted(js))
                 /\ Cardinality(Sent(js)) \in Nat /\ Cardinality(Counted(js)) \in Nat
      BY CountedFinite, FS_Subset, FS_CardinalityType DEF IInv
    <2>3. /\ run.requests_used \in Nat
          /\ max_requests - reconciliation_requests \in Int
      BY ExtractionAssumption DEF IInv, TypeOK, RunT
    <2>4. /\ Cardinality(Sent(J)) <= Cardinality(Counted(J))
          /\ Cardinality(Sent(J)) \in Nat /\ Cardinality(Counted(J)) \in Nat
      BY <2>1, <2>2
    <2>5. /\ Cardinality(Sent(W)) <= Cardinality(Counted(W))
          /\ Cardinality(Sent(W)) \in Nat /\ Cardinality(Counted(W)) \in Nat
      BY <2>1, <2>2
    <2> QED BY <2>3, <2>4, <2>5 DEF IInv, CountsOK, ReserveKept
  <1> QED BY <1>1, Invariance, PTL

(* A completion whose outcome a crash has lost is never asked for again,   *)
(* and a job sends a bounded number of requests whatever its providers     *)
(* answer: in_flight is durable before the request leaves.                 *)
THEOREM NothingIsResent == XSpec => []NeverResent
  <1>1. IInv => NeverResent
    <2> SUFFICES ASSUME IInv, NEW j \in J
                 PROVE  /\ lost[j] => at[j] \notin {"complete", "route", "send", "sent", "sent_route"}
                        /\ sends[j] <= 2 + 2 * (recovery_attempts + 1)
                        /\ Data(j).invalid <= 2
      BY DEF NeverResent
    <2>1. RowOK(task[j], at[j], sends[j], lost[j]) BY DEF IInv, RowsOK
    <2>2. lost[j] => at[j] = "idle" BY <2>1 DEF RowOK
    <2> QED BY <2>1, <2>2 DEF RowOK, Data
  <1> QED BY <1>1, Invariance, PTL

(* Every published window is in the latest report, a reconciled report     *)
(* that claims full coverage has the claims of all windows, and after a    *)
(* stop no job is left that may still ask or publish.                      *)
THEOREM ReportsAreTrue == XSpec => []ReportsTrue
  <1>1. IInv => ReportsTrue BY DEF IInv, ReportOK, ReportsTrue, ClaimsKept
  <1> QED BY <1>1, Invariance, PTL
=============================================================================
