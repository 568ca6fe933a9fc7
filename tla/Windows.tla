------------------------------- MODULE Windows -------------------------------
(***************************************************************************)
(* The observation ledger of one investigation, extraction_runs.data:      *)
(* what pipeline/incremental.py admits, how it cuts admitted observations  *)
(* into bounded windows, and what extraction_progress() says of each.      *)
(*                                                                         *)
(* Observations are numbered in the ledger's order (start, end, id) and    *)
(* may arrive in any order: chunks of a capture are published as their     *)
(* jobs end.  MaxChars stands for the 24000 characters and MaxWindow for   *)
(* the 64 observations of the code.                                        *)
(***************************************************************************)
EXTENDS Integers, Sequences, FiniteSets, FiniteSetsExt, SequencesExt

CONSTANTS
  N,                        \* the observations upstream may produce: 1..N
  Inputs,                   \* what they may be: functions to [role, text]
  MaxChars, MaxWindow,
  max_requests, reconciliation_requests,
  batch_observations, overlap_observations, max_observations

ASSUME WindowsAssumption ==
  /\ N \in Nat \ {0} /\ MaxChars \in Nat \ {0} /\ MaxWindow \in Nat \ {0}
  /\ max_requests \in Nat /\ reconciliation_requests \in 1..(max_requests - 1)
  /\ batch_observations \in 1..MaxWindow /\ overlap_observations \in Nat \ {0}
  /\ max_observations \in Nat \ {0}
  /\ Inputs \subseteq [1..N -> [role : {"target", "context"}, text : Seq(Nat)]]
  /\ \A o \in Inputs : \A i \in 1..N : Len(o[i].text) \in 1..MaxChars

Obs == 1..N

VARIABLES
  obs,        \* the observations themselves; they never change
  seen,       \* those a producer has submitted
  ledger,     \* the row's data
  outcome,    \* outcome[w]: the state of the job of window w
  finalized,  \* the latest report is reconciled
  stopped     \* the capture was closed without continued research

wvars == <<obs, seen, ledger, outcome, finalized, stopped>>

-----------------------------------------------------------------------------
(* The ledger *)

NewLedger == [closed |-> FALSE, existing |-> {}, windows |-> <<>>, skipped |-> {},
              input_closed |-> {}, budget_exhausted |-> {}, requests_used |-> 0]

Unadmitted(l) == l.input_closed \cup l.budget_exhausted

WInit ==
  /\ obs \in Inputs /\ seen = {} /\ ledger = NewLedger
  /\ outcome = <<>> /\ finalized = FALSE /\ stopped = FALSE

(* submit_observations(): what a producer's batch becomes.  Replays are    *)
(* ignored; which ones still fit depends on the order of the batch.        *)
Admitted(l, batch) ==
  LET new == batch \ (l.existing \cup Unadmitted(l))
      room == max_observations - Cardinality(l.existing)
  IN
  IF l.closed \/ finalized THEN {[l EXCEPT !.input_closed = @ \cup new]}
  ELSE {[l EXCEPT !.existing = @ \cup taken, !.budget_exhausted = @ \cup (new \ taken)] :
           taken \in {t \in SUBSET new : Cardinality(t) = Min({room, Cardinality(new)})}}

-----------------------------------------------------------------------------
(* Cutting windows *)

Selected(l) == UNION {l.windows[w].selected : w \in DOMAIN l.windows}
Pending(l) == (l.existing \ Selected(l)) \ l.skipped
Chars(S) == MapThenSumSet(LAMBDA i : Len(obs[i].text), S)
HasTarget(S) == \E i \in S : obs[i].role = "target"

FirstOf(S, n) == {i \in S : Cardinality({j \in S : j <= i}) <= n}
LastOf(S, n) == {i \in S : Cardinality({j \in S : j >= i}) <= n}

(* Batches grow as the requests outside the reserve are used up. *)
Threshold(l) ==
  LET pressure == Max({l.requests_used, Len(l.windows)})
      room == max_requests - reconciliation_requests
      factor == IF 4 * pressure >= 3 * room THEN 4 ELSE IF 2 * pressure >= room THEN 2 ELSE 1
  IN Min({MaxWindow, batch_observations * factor})

(* The assigned observations just before, as far as they leave room *)
Overlap(l) ==
  LET first == Min(Pending(l))
      before == LastOf({i \in l.existing : i < first /\ i \in Selected(l)}, overlap_observations)
  IN {i \in before : Chars({j \in before : j >= i}) + Chars({first}) <= MaxChars}

Chosen(l) ==
  LET pending == Pending(l)
      targets == {i \in pending : obs[i].role = "target"}
      first_target == IF targets = {} THEN 0
                      ELSE Cardinality({i \in pending : i < Min(targets)})
      first == FirstOf(pending, Min({MaxWindow, Max({Threshold(l), first_target + 1})}))
  IN {i \in first : Chars(Overlap(l)) + Chars({j \in first : j <= i}) <= MaxChars}

(* One turn of the loop; the ledger itself when the loop breaks *)
CutOne(l) ==
  LET pending == Pending(l)
      selected == Chosen(l)
      overlap == Overlap(l)
  IN
  IF pending = {} \/ (Cardinality(pending) < Threshold(l) /\ ~l.closed) THEN l
  ELSE IF HasTarget(overlap \cup selected)
       THEN [l EXCEPT !.windows = Append(@, [overlap |-> overlap, selected |-> selected])]
  ELSE IF ~l.closed /\ ~HasTarget(pending \ selected) THEN l
  ELSE [l EXCEPT !.skipped = @ \cup selected]

(* Mutant: one window is cut for a batch, however much is pending. *)
CutOnce(l) == IF finalized THEN l ELSE CutOne(l)

Cut(l) ==
  LET turn[n \in 0..N] == IF n = 0 THEN l ELSE CutOne(turn[n - 1])
  IN IF finalized THEN l ELSE turn[N]

-----------------------------------------------------------------------------
(* Operations *)

(* The jobs of the windows that were just cut are enqueued. *)
Store(l) ==
  /\ ledger' = l
  /\ outcome' = [w \in DOMAIN l.windows |-> IF w \in DOMAIN outcome THEN outcome[w] ELSE "active"]

(* A publication upstream submits a batch; a stopped capture rejects it.   *)
SubmitObservations(batch) ==
  /\ ~stopped
  /\ \E l \in Admitted(ledger, batch) : Store(Cut(l))
  /\ seen' = seen \cup batch
  /\ UNCHANGED <<obs, finalized, stopped>>

(* settle_inputs() once upstream is over *)
CloseInput ==
  /\ ~stopped /\ ~ledger.closed
  /\ Store(Cut([ledger EXCEPT !.closed = TRUE]))
  /\ UNCHANGED <<obs, seen, finalized, stopped>>

(* A window's job sends a request, *)
RecordRequest(w) ==
  /\ outcome[w] = "active" /\ ~stopped
  /\ ledger.requests_used < max_requests - reconciliation_requests
  /\ ledger' = [ledger EXCEPT !.requests_used = @ + 1]
  /\ UNCHANGED <<obs, seen, outcome, finalized, stopped>>

(* ... and ends, *)
EndWindow(w, state) ==
  /\ outcome[w] = "active"
  /\ state = "published" => ~finalized /\ ~stopped
  /\ outcome' = [outcome EXCEPT ![w] = state]
  /\ UNCHANGED <<obs, seen, ledger, finalized, stopped>>

(* ... and its row is removed by the owner or by retention. *)
RemoveWindow(w) ==
  /\ outcome[w] \in {"published", "failed"}
  /\ outcome' = [outcome EXCEPT ![w] = "removed"]
  /\ UNCHANGED <<obs, seen, ledger, finalized, stopped>>

AllEnded == \A w \in DOMAIN outcome : outcome[w] # "active"

(* Reconciliation is published after the input is closed and its windows   *)
(* are over.                                                               *)
Finalize ==
  /\ ledger.closed /\ AllEnded /\ ~stopped /\ ~finalized
  /\ finalized' = TRUE
  /\ UNCHANGED <<obs, seen, ledger, outcome, stopped>>

(* close_capture() without continued research cancels what is left. *)
Stop ==
  /\ ~stopped /\ stopped' = TRUE
  /\ outcome' = [w \in DOMAIN outcome |-> IF outcome[w] = "active" THEN "cancelled" ELSE outcome[w]]
  /\ UNCHANGED <<obs, seen, ledger, finalized>>

(* extraction_progress() *)
Progress(i) ==
  LET of == {w \in DOMAIN ledger.windows : i \in ledger.windows[w].selected}
      in == of \cup {w \in DOMAIN ledger.windows : i \in ledger.windows[w].overlap}
  IN
  IF i \in Unadmitted(ledger) THEN "skipped"
  ELSE IF \E w \in in : outcome[w] = "published" THEN "processed"
  ELSE IF stopped \/ i \in ledger.skipped THEN "skipped"
  ELSE IF \E w \in of : outcome[w] = "failed" THEN "failed"
  ELSE IF \E w \in of : outcome[w] # "active" THEN "skipped"
  ELSE "pending"

-----------------------------------------------------------------------------
(* Properties *)

(* Every window that is queued satisfies what ObservationWindow demands    *)
(* when its job reads it: at most MaxChars characters, unique observations *)
(* at least one of which is a target.  Each observation is the business of *)
(* exactly one window, whatever the order in which they arrived.           *)
WindowsValid ==
  /\ \A w \in DOMAIN ledger.windows :
       LET x == ledger.windows[w] IN
       /\ Chars(x.overlap \cup x.selected) <= MaxChars
       /\ HasTarget(x.overlap \cup x.selected)
       /\ x.overlap \cap x.selected = {} /\ x.selected # {}
       /\ Cardinality(x.selected) <= MaxWindow
  /\ \A v, w \in DOMAIN ledger.windows :
       v # w => ledger.windows[v].selected \cap ledger.windows[w].selected = {}

(* No accepted content is lost or hidden: a replay of what was submitted   *)
(* changes nothing, a batch that is large enough is never left waiting,    *)
(* and once the input is over and its windows have ended every observation *)
(* that was ever submitted is reported as processed, failed or skipped.    *)
NothingDropped ==
  /\ \A i \in seen : \A l \in Admitted(ledger, {i}) : Cut(l) = ledger
  /\ (~ledger.closed /\ HasTarget(Pending(ledger))) =>
       Cardinality(Pending(ledger)) < Threshold(ledger)
  /\ seen = ledger.existing \cup Unadmitted(ledger)
  /\ ((ledger.closed \/ stopped) /\ AllEnded) => \A i \in seen : Progress(i) # "pending"

(* The windows of an input are admissible and together cover it.           *)
WindowsCover == WindowsValid /\ NothingDropped
=============================================================================
