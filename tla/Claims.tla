------------------------------- MODULE Claims -------------------------------
(***************************************************************************)
(* From observations to claims: how the quotes of a completion become      *)
(* spans (pipeline/llm.py), how occurrences are grounded in their window   *)
(* (pipeline/extraction.py), merged into the report, and revised by the    *)
(* reconciliation of the whole input (pipeline/reconciliation.py).         *)
(*                                                                         *)
(* A text is a sequence of letters, numbers that fold modulo 10 when case  *)
(* is ignored; 0 is a quotation mark.  An occurrence cites observations by *)
(* quotes: src and ctx are sequences of <<observation, quote>>.            *)
(***************************************************************************)
EXTENDS Windows

CONSTANTS
  Times,       \* Times[i]: the interval <<start, end>> of observation i
  Answers      \* what completions may say: sequences of occurrences

(* An observation takes some time (Observation.interval()), an occurrence  *)
(* has a source (min_length=1 of source_refs), and no quote is empty.      *)
ASSUME ClaimsAssumption ==
  /\ Times \in [Obs -> Nat \X Nat] /\ \A i \in Obs : Times[i][1] < Times[i][2]
  /\ \A answer \in Answers :
       /\ answer \in Seq([src : Seq(Obs \X Seq(Nat)), ctx : Seq(Obs \X Seq(Nat))])
       /\ \A o \in Range(answer) :
            o.src # <<>> /\ \A ref \in Range(o.src \o o.ctx) : ref[2] # <<>>

VARIABLE report

cvars == <<obs, seen, ledger, outcome, finalized, stopped, report>>

NewReport == [claims |-> {}, assessed |-> {}, corrects |-> {}, changed |-> {},
              reassessment |-> {}, retrieval |-> {}]

-----------------------------------------------------------------------------
(* Quotes *)

Fold(q) == [k \in DOMAIN q |-> q[k] % 10]

(* _find_all(): appearances may overlap *)
FindAll(text, q) ==
  {k \in 1..(Len(text) - Len(q) + 1) : SubSeq(text, k, k + Len(q) - 1) = q}

Unmarked(text, q) ==
  IF FindAll(text, q) = {} /\ Len(q) > 2 /\ q[1] = 0 /\ q[Len(q)] = 0
  THEN SubSeq(q, 2, Len(q) - 1) ELSE q

(* The spans a quote may stand for: exact before case-insensitive *)
Matches(i, quote) ==
  LET text == obs[i].text
      q == Unmarked(text, quote)
      exact == FindAll(text, q)
      at == IF exact # {} THEN exact ELSE FindAll(Fold(text), Fold(q))
  IN {<<i, k, k + Len(q)>> : k \in at}

FirstSpan(S) == CHOOSE s \in S : \A t \in S : s[2] <= t[2]

(* Mutant: the first appearance is taken, used or not. *)
ResolveFirst(refs) ==
  [k \in 1..Len(refs) |-> FirstSpan(Matches(refs[k][1], refs[k][2]))]

(* _resolve_quotes(): a quote cited again takes its next unused appearance *)
Resolve(refs) ==
  LET spans[k \in 1..Len(refs)] ==
        LET all == Matches(refs[k][1], refs[k][2])
            unused == all \ {spans[j] : j \in 1..(k - 1)}
        IN FirstSpan(IF unused # {} THEN unused ELSE all)
  IN spans

-----------------------------------------------------------------------------
(* Grounding an answer, a sequence of occurrences, in window w *)

InWindow(w) == ledger.windows[w].overlap \cup ledger.windows[w].selected

Refs(answer) == FlattenSeq([k \in DOMAIN answer |-> answer[k].src \o answer[k].ctx])

Quotable(w, refs) ==
  \A k \in DOMAIN refs : refs[k][1] \in InWindow(w) /\ Matches(refs[k][1], refs[k][2]) # {}

(* The occurrences with their spans; a target cited as context is dropped  *)
(* from the context.                                                       *)
Resolved(answer) ==
  LET spans == Resolve(Refs(answer))
      From(k) == Len(Refs(SubSeq(answer, 1, k - 1)))
      Contexts(m, n) == {j \in m..n : obs[spans[j][1]].role = "context"}
  IN [k \in DOMAIN answer |->
        LET from == From(k)
            mid == from + Len(answer[k].src)
        IN [src |-> SubSeq(spans, from + 1, mid),
            ctx |-> [j \in Contexts(mid + 1, mid + Len(answer[k].ctx)) |-> spans[j]]]]

(* grounded_claims() accepts the answer; a claim is identified by where it *)
(* was said, the spans of its sources.                                     *)
Grounded(answer, w) ==
  /\ Quotable(w, Refs(answer))
  /\ LET occurrences == Resolved(answer)
         Source(k) == occurrences[k].src
     IN /\ \A k \in DOMAIN answer :
             /\ \A n \in DOMAIN Source(k) : obs[Source(k)[n][1]].role = "target"
             /\ IsInjective(Source(k)) /\ IsInjective(occurrences[k].ctx)
        /\ \A k, m \in DOMAIN answer : Range(Source(k)) = Range(Source(m)) => k = m

GroundedClaims(answer) == LET o == Resolved(answer) IN {Range(o[k].src) : k \in DOMAIN o}

(* publish() of the window's job: known occurrences are kept as they are *)
PublishWindow(w, answer) ==
  /\ Grounded(answer, w)
  /\ EndWindow(w, "published")
  /\ report' = [report EXCEPT !.claims = @ \cup GroundedClaims(answer)]

-----------------------------------------------------------------------------
(* Reconciliation *)

Start(c) == Min({Times[s[1]][1] : s \in c})
End(c) == Max({Times[s[1]][2] : s \in c})

(* Mutant: claims of one observation are ordered by where they start. *)
PrecedesByStart(e, l) ==
  \/ Start(e) <= Start(l)

(* _precedes(): the earlier one ends before the later one starts, in time  *)
(* or within one observation.                                              *)
Precedes(e, l) ==
  \/ End(e) <= Start(l)
  \/ /\ Cardinality({s[1] : s \in e \cup l}) = 1
     /\ Max({s[3] : s \in e}) <= Min({s[2] : s \in l})

(* reconcile_claims() accepts updates of every claim, which leave its      *)
(* sources alone: those in "changed" are reworded, and a pair of           *)
(* "corrects" says that its first corrects its second.                     *)
Corrections ==
  {p \in report.claims \X report.claims : p[1] # p[2] /\ Precedes(p[2], p[1])}

Reconcilable(corrects) ==
  \A p, q \in corrects : (p[1] = q[1] \/ p[2] = q[2]) => p = q

Superseded(r) == {p[2] : p \in r.corrects}
Current(r) == r.claims \ Superseded(r)

(* The next version, and the claims handed to retrieval *)
Reconciled(changed, corrects) ==
  LET superseded == {p[2] : p \in corrects}
      assessed == report.assessed \ (changed \cup superseded)
  IN [report EXCEPT !.corrects = corrects, !.changed = changed,
                    !.assessed = assessed,
                    !.reassessment = changed \ superseded,
                    !.retrieval = report.claims \ (superseded \cup assessed)]

Reconcile ==
  /\ report.claims # {} /\ Finalize
  /\ \E changed \in SUBSET report.claims, corrects \in SUBSET Corrections :
       Reconcilable(corrects) /\ report' = Reconciled(changed, corrects)

(* Another writer assesses a claim of the provisional report. *)
Assess(c) ==
  /\ ~finalized
  /\ report' = [report EXCEPT !.assessed = @ \cup {c}]
  /\ UNCHANGED wvars

-----------------------------------------------------------------------------

CInit == WInit /\ report = NewReport

Failures == {"failed", "deleted"}

(* A replayed batch is left out: NothingDropped says it changes nothing.   *)
CNext ==
  \/ \E batch \in SUBSET (Obs \ seen) : batch # {} /\ SubmitObservations(batch) /\ UNCHANGED report
  \/ CloseInput /\ UNCHANGED report
  \/ Stop /\ UNCHANGED report
  \/ Reconcile
  \/ \E c \in report.claims : Assess(c)
  \/ \E w \in DOMAIN outcome :
       \/ RecordRequest(w) /\ UNCHANGED report
       \/ \E s \in Failures : EndWindow(w, s) /\ UNCHANGED report
       \/ RemoveWindow(w) /\ UNCHANGED report
       \/ \E answer \in Answers : PublishWindow(w, answer)

CSpec == CInit /\ [][CNext]_cvars

-----------------------------------------------------------------------------
(* Properties *)

(* Every claim rests on text its observation really contains, said by a    *)
(* target, and a genuine repetition is a claim of its own: a window whose  *)
(* answer cites a quote n times is accepted exactly when its observation   *)
(* has n appearances of it, overlapping ones included.                     *)
ClaimsGrounded ==
  /\ \A c \in report.claims : \A s \in c :
       /\ obs[s[1]].role = "target" /\ s[1] \in ledger.existing
       /\ 1 <= s[2] /\ s[2] < s[3] /\ s[3] <= Len(obs[s[1]].text) + 1
  /\ report = NewReport => \A w \in DOMAIN outcome : \A o \in UNION {Range(a) : a \in Answers} : \A n \in 1..3 :
       (outcome[w] = "active" /\ ledger.requests_used = 0 /\ o.ctx = <<>> /\ Len(o.src) = 1 /\ o.src[1][1] \in InWindow(w)
          /\ obs[o.src[1][1]].role = "target") =>
         LET text == obs[o.src[1][1]].text
             q == o.src[1][2]
             places == {k \in DOMAIN text : \E m \in k..Len(text) : SubSeq(text, k, m) = q}
         IN places # {} => (Grounded([k \in 1..n |-> o], w) <=> n <= Cardinality(places))

(* Corrections point back in time, so their chains never close and some    *)
(* claim of a reconciled report is always current; what was reworded or    *)
(* superseded keeps no assessment, and every current claim either keeps    *)
(* one or is handed to retrieval.                                          *)
CorrectionsEnd ==
  /\ report.claims # {} => Current(report) # {}
  /\ report.assessed \cap (report.changed \cup Superseded(report)) = {}
  /\ finalized => report.assessed \cup report.retrieval = Current(report)
  /\ report.reassessment \subseteq report.retrieval

(* The claims of a report are what was said, each where it was said, and   *)
(* its corrections leave something current.                                *)
ClaimsSound == ClaimsGrounded /\ CorrectionsEnd
=============================================================================
