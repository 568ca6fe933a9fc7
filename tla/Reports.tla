------------------------------ MODULE Reports ------------------------------
(***************************************************************************)
(* The report versions of one investigation and everything that publishes  *)
(* one (services/reports.py, reanalysis.py, evidence/stages.py and the     *)
(* publication of pipeline/reconciliation.py): the owner's corrections,    *)
(* evidence assessments, the expansion to a full video and the             *)
(* reconciliation of the extracted claims, each racing the others and the  *)
(* re-leases of its own job.                                               *)
(*                                                                         *)
(* The reanalysis and retrieval jobs that lead to an assessment publish no *)
(* version; they are one step here.  Extraction windows only add claims    *)
(* to the latest version and come before the first one here; they and      *)
(* reconciliation publish inside the fenced publication of their own jobs  *)
(* (Extraction).  The handler of an evidence stage starts under its lease  *)
(* and then writes a version in a transaction that does not look at the    *)
(* lease, so a run whose lease is lost may still take every step up to the *)
(* publication of its job.  A lease that is handed back differs from one   *)
(* that expires only in time, and a cancellation (JobService) from one     *)
(* that is lost for good only in the state of the job.                     *)
(***************************************************************************)
EXTENDS JobQueue, Sequences

CONSTANTS
  Clip,        \* claims of the investigation
  MaxVersions, \* bound: report versions
  MaxSource,   \* bound: report versions of the full video
  MaxPolls,    \* MAX_EXPANSION_POLLS
  MaxPlans     \* bound: retrievals planned

(* The claims of the full video have ids of their own. *)
ASSUME ReportsAssumption ==
  /\ Clip \cap 1..MaxSource = {} /\ NoKey \notin Jobs
  /\ MaxVersions \in Nat \ {0} /\ {MaxSource, MaxPolls, MaxPlans} \subseteq Nat

VARIABLES
  versions,   \* the report versions in order
  snapshot,   \* the version reconciliation was asked for; 0 before extraction closes
  reconciled, \* the version it published, if any
  source,     \* the full video's latest report: its version, is it assessed
  planned,    \* retrievals under way
  plans,      \* how many were planned (history)
  plan,       \* plan[j]: the payload of job j
  answer,     \* answer[j]: result_version of the request job j works for
  stage       \* stage[n]: where the handler run of the lease with serial n is

extraction == <<snapshot, reconciled>>

rvars == <<versions, extraction, source, planned, plans, plan, answer, stage>>

(* The claim of the full video's report v has the id of v in the clip. *)
Ids == Clip \cup 1..MaxSource

Unassessed == -1

(* The meanings listed under a claim id (0 the extracted one, n + 1 the    *)
(* one that replaced n), the meaning its assessment is about, and the job  *)
(* that published it, if any.                                              *)
Report == [shows : [Ids -> Seq(Nat)], assessed : [Ids -> Nat \cup {Unassessed}],
           author : Jobs \cup {NoKey}]

Payload == [kind : {"none", "assess", "expand"}, base : 0..MaxVersions,
            scope : SUBSET Ids, poll : 0..MaxPolls]

NoPlan == [kind |-> "none", base |-> 0, scope |-> {}, poll |-> 0]

Latest == Len(versions)

Listed(r) == {i \in Ids : r.shows[i] # <<>>}

(* The first version is the one of the last window. *)
RInit ==
  /\ Init
  /\ versions = <<[shows |-> [i \in Ids |-> IF i \in Clip THEN <<0>> ELSE <<>>],
                   assessed |-> [i \in Ids |-> Unassessed], author |-> NoKey]>>
  /\ snapshot = 0 /\ reconciled = 0
  /\ source = [version |-> 0, assessed |-> FALSE]
  /\ planned = {} /\ plans = 0
  /\ plan = [j \in Jobs |-> NoPlan]
  /\ answer = [j \in Jobs |-> 0]
  /\ stage = [n \in 1..MaxClaims |-> "none"]

(* publish_report_version(): the next version, under the investigation's   *)
(* row lock.                                                               *)
PublishVersion(r) == Latest < MaxVersions /\ versions' = Append(versions, r)

-----------------------------------------------------------------------------
(* Requests of the owner; each starts from the latest version *)

(* The meaning of some claims is replaced wherever they are listed. *)
Restated(r, ids) ==
  [i \in Ids |-> IF i \in ids THEN [k \in 1..Len(r.shows[i]) |-> r.shows[i][1] + 1] ELSE r.shows[i]]

Forgotten(r, ids) == [i \in Ids |-> IF i \in ids THEN Unassessed ELSE r.assessed[i]]

(* Mutant: the assessment of the old meaning stays. *)
CorrectedKeepingAssessment(r, c) ==
  [r EXCEPT !.shows = Restated(r, {c}), !.author = NoKey]

(* corrected_report() *)
Corrected(r, c) ==
  [r EXCEPT !.shows = Restated(r, {c}), !.assessed = Forgotten(r, {c}), !.author = NoKey]

Plan(scope, base) ==
  /\ plans < MaxPlans /\ plans' = plans + 1
  /\ planned' = planned \cup {[kind |-> "assess", base |-> base, scope |-> scope,
                               poll |-> 0]}

RequestCorrection(c) ==
  /\ c \in Listed(versions[Latest])
  /\ PublishVersion(Corrected(versions[Latest], c))
  /\ Plan({c}, Latest + 1)
  /\ UNCHANGED <<vars, extraction, source, plan, answer, stage>>

RequestDeeper ==
  /\ Plan(Listed(versions[Latest]), Latest)
  /\ UNCHANGED <<vars, versions, extraction, source, plan, answer, stage>>

Added == {j \in Jobs : job[j].state = "absent" /\ job'[j].state = "queued"}

RequestExpansion(k, o) ==
  /\ Enqueue(k, o)
  /\ plan' = [j \in Jobs |-> IF j \in Added
                             THEN [NoPlan EXCEPT !.kind = "expand", !.base = Latest]
                             ELSE plan[j]]
  /\ UNCHANGED <<versions, extraction, source, planned, plans, answer, stage>>

(* _retrieval() and the publication of its artifact: superseded, without   *)
(* claims, or with an assessment job.  The version was compared when the   *)
(* retrieval began.                                                        *)
Retrieved(p, k, o) ==
  /\ p \in planned
  /\ planned' = planned \ {p}
  /\ \/ UNCHANGED <<vars, plan>>
     \/ /\ Enqueue(k, o)
        /\ plan' = [j \in Jobs |-> IF j \in Added THEN p ELSE plan[j]]
  /\ UNCHANGED <<versions, extraction, source, plans, answer, stage>>

(* The full video's own investigation publishes a report. *)
SourcePublishes(assessed) ==
  /\ source.version < MaxSource
  /\ source' = [version |-> source.version + 1, assessed |-> assessed]
  /\ UNCHANGED <<vars, versions, extraction, planned, plans, plan, answer, stage>>

-----------------------------------------------------------------------------
(* The extraction of the investigation *)

(* Reconciliation is enqueued for the latest version. *)
CloseExtraction ==
  /\ snapshot = 0 /\ snapshot' = Latest
  /\ UNCHANGED <<vars, versions, reconciled, source, planned, plans, plan, answer, stage>>

(* reconcile_claims(): some claims are restated; one that a later          *)
(* occurrence supersedes is shown as that, a change of meaning too.        *)
Reconciled(r, changed) ==
  [r EXCEPT !.shows = Restated(r, changed), !.assessed = Forgotten(r, changed), !.author = NoKey]

(* Mutant: the snapshot is not compared with the latest version. *)
ReconcileAnySnapshot(changed, superseded) ==
  /\ snapshot # 0 /\ reconciled = 0
  /\ superseded \subseteq changed /\ changed \subseteq Listed(versions[snapshot])
  /\ PublishVersion(Reconciled(versions[snapshot], changed))
  /\ reconciled' = Latest + 1
  /\ UNCHANGED <<vars, snapshot, source, planned, plans, plan, answer, stage>>

(* The publication of reconciliation: the snapshot must still be the       *)
(* latest version, and every claim one that was extracted here, for its    *)
(* source is looked up.  What is current and unassessed goes to retrieval. *)
Reconcile(changed, superseded) ==
  LET q == Reconciled(versions[Latest], changed)
      pending == {i \in Listed(q) \ superseded : q.assessed[i] = Unassessed}
  IN
  /\ snapshot = Latest /\ reconciled = 0
  /\ superseded \subseteq changed /\ changed \subseteq Listed(q) /\ Listed(q) \subseteq Clip
  /\ superseded = {} \/ Listed(q) \ superseded # {}
  /\ PublishVersion(q)
  /\ reconciled' = Latest + 1
  /\ IF pending = {} THEN UNCHANGED <<planned, plans>> ELSE Plan(pending, Latest + 1)
  /\ UNCHANGED <<vars, snapshot, source, plan, answer, stage>>

-----------------------------------------------------------------------------
(* Stage handlers *)

StartStage(l) ==
  /\ Start(l)
  /\ stage' = [stage EXCEPT ![l.serial] = "started"]
  /\ UNCHANGED <<versions, extraction, source, planned, plans, plan, answer>>

Goto(l, at) == stage' = [stage EXCEPT ![l.serial] = at]

(* The first half of _assessment(). *)
AssessmentReads(l) ==
  /\ stage[l.serial] = "started" /\ plan[l.job].kind = "assess"
  /\ Goto(l, IF Latest = plan[l.job].base THEN "assessing" ELSE "return")
  /\ UNCHANGED <<vars, versions, extraction, source, planned, plans, plan, answer>>

(* merged_version(): the claims in done were assessed, each as it is       *)
(* listed last.                                                            *)
Merged(r, done, j) ==
  [r EXCEPT !.assessed = [i \in Ids |-> IF i \in done THEN r.shows[i][Len(r.shows[i])] ELSE @[i]],
            !.author = j]

(* Mutant: the latest version is not compared again. *)
AssessmentPublishesBlind(l, done, again) ==
  LET p == plan[l.job] IN
  /\ stage[l.serial] = "assessing"
  /\ done \subseteq p.scope \cap Listed(versions[p.base]) /\ again = {}
  /\ PublishVersion(Merged(versions[p.base], done, l.job))
  /\ answer' = [answer EXCEPT ![l.job] = Latest + 1]
  /\ Goto(l, "return")
  /\ UNCHANGED <<vars, extraction, source, planned, plans, plan>>

(* The second half: publish, unless another version came in between.  A    *)
(* claim listed twice has two outcomes, and two assessments of it (again)  *)
(* are an invalid citation.                                                *)
AssessmentPublishes(l, done, again) ==
  LET p == plan[l.job]
      r == versions[p.base]
  IN
  /\ stage[l.serial] = "assessing"
  /\ done \subseteq p.scope \cap Listed(r) /\ again \subseteq {i \in done : Len(r.shows[i]) > 1}
  /\ IF Latest = p.base /\ again = {}
     THEN /\ PublishVersion(Merged(r, done, l.job))
          /\ answer' = [answer EXCEPT ![l.job] = Latest + 1]
     ELSE UNCHANGED <<versions, answer>>
  /\ Goto(l, IF Latest = p.base /\ again # {} THEN "failing" ELSE "return")
  /\ UNCHANGED <<vars, extraction, source, planned, plans, plan>>

(* expanded_version(): the full video's claim is listed as it was          *)
(* extracted, under an id made of the version it came from.                *)
Expanded(r, j) ==
  [r EXCEPT !.shows[source.version] = Append(@, 0),
            !.assessed[source.version] = IF source.assessed THEN 0 ELSE @,
            !.author = j]

(* validate_citations(): the claim would be assessed twice. *)
CitationInvalid(r) == r.assessed[source.version] # Unassessed /\ source.assessed

(* Mutant: the version the request named is not compared. *)
ExpandAnyVersion(l) ==
  /\ stage[l.serial] = "started" /\ plan[l.job].kind = "expand"
  /\ source.version > 0
  /\ PublishVersion(Expanded(versions[Latest], l.job))
  /\ answer' = [answer EXCEPT ![l.job] = Latest + 1]
  /\ Goto(l, "return")
  /\ UNCHANGED <<vars, extraction, source, planned, plans, plan>>

(* _expand() *)
Expand(l) ==
  LET p == plan[l.job]
      r == versions[Latest]
  IN
  /\ stage[l.serial] = "started" /\ p.kind = "expand"
  /\ \/ /\ Latest # p.base
        /\ Goto(l, "return") /\ UNCHANGED <<versions, answer>>
     \/ /\ Latest = p.base /\ source.version = 0
        /\ Goto(l, IF p.poll >= MaxPolls THEN "failing" ELSE "waiting")
        /\ UNCHANGED <<versions, answer>>
     \/ /\ Latest = p.base /\ source.version > 0 /\ CitationInvalid(r)
        /\ Goto(l, "failing") /\ UNCHANGED <<versions, answer>>
     \/ /\ Latest = p.base /\ source.version > 0 /\ ~CitationInvalid(r)
        /\ PublishVersion(Expanded(r, l.job))
        /\ answer' = [answer EXCEPT ![l.job] = Latest + 1]
        /\ Goto(l, "return")
  /\ UNCHANGED <<vars, extraction, source, planned, plans, plan>>

(* publish_evidence_stage(); a waiting expansion enqueues its next check. *)
PublishStage(l, succ) ==
  /\ \/ stage[l.serial] = "return" /\ succ = {}
     \/ stage[l.serial] = "waiting" /\ succ # {}
  /\ Publish(l, succ)
  /\ plan' = [j \in Jobs |-> IF j \in Added
                             THEN [plan[l.job] EXCEPT !.poll = @ + 1] ELSE plan[j]]
  /\ Goto(l, "none")
  /\ UNCHANGED <<versions, extraction, source, planned, plans, answer>>

FailStage(l) ==
  /\ stage[l.serial] = "failing"
  /\ Fail(l)
  /\ UNCHANGED rvars

StageStep(l) ==
  \/ StartStage(l)
  \/ AssessmentReads(l)
  \/ \E done, again \in SUBSET Ids : AssessmentPublishes(l, done, again)
  \/ Expand(l)
  \/ \E succ \in UNION {Fanouts[k] : k \in Keys} : PublishStage(l, succ)
  \/ FailStage(l)

RNext ==
  \/ \E c \in Ids : RequestCorrection(c)
  \/ RequestDeeper
  \/ \E k \in Keys, o \in Owners : RequestExpansion(k, o)
  \/ \E p \in planned, k \in Keys, o \in Owners : Retrieved(p, k, o)
  \/ \E assessed \in BOOLEAN : SourcePublishes(assessed)
  \/ CloseExtraction
  \/ \E changed, superseded \in SUBSET Clip : Reconcile(changed, superseded)
  \/ \E w \in Workers : Claim(w, 0) /\ UNCHANGED rvars
  \/ \E l \in leases : StageStep(l)
  \/ Tick /\ UNCHANGED rvars

RSpec == RInit /\ [][RNext]_<<vars, rvars>>

-----------------------------------------------------------------------------
(* Properties *)

ReportsTypeOK ==
  /\ versions \in Seq(Report) /\ Latest \in 1..MaxVersions
  /\ planned \subseteq Payload
  /\ plan \in [Jobs -> Payload]
  /\ answer \in [Jobs -> 0..MaxVersions]

(* An assessment is about a meaning its version lists for the claim, and   *)
(* the only one unless the claim was imported twice: a correction that     *)
(* arrives while evidence for the old meaning is being assessed never ends *)
(* up beside that assessment.                                              *)
AssessedAsShown ==
  \A v \in 1..Latest, i \in Ids :
    LET listed == versions[v].shows[i] IN
    versions[v].assessed[i] # Unassessed => \E k \in 1..Len(listed) : listed[k] = versions[v].assessed[i]

(* No version drops a claim of an earlier one or goes back behind a        *)
(* meaning the owner or reconciliation gave it; what is listed stays as it *)
(* is until that very claim is restated.                                   *)
CorrectionsSurvive ==
  \A v, w \in 1..Latest, i \in Ids :
    LET before == versions[v].shows[i]  after == versions[w].shows[i] IN
    v < w /\ before # <<>> =>
      /\ Len(before) <= Len(after) /\ before[1] <= after[1]
      /\ before[1] = after[1] => \A k \in 1..Len(before) : before[k] = after[k]

(* While the meaning of a claim stays, no version loses its assessment.    *)
AssessmentsSurvive ==
  \A v, w \in 1..Latest, i \in Ids :
    /\ v < w /\ versions[v].assessed[i] # Unassessed
    /\ versions[v].shows[i][1] = versions[w].shows[i][1]
    => versions[w].assessed[i] # Unassessed

(* A later version takes nothing back from the reader of an earlier one,   *)
(* and the pipeline restates only what it has seen: a correction that      *)
(* comes after its snapshot is not overwritten.                            *)
NothingUndone == CorrectionsSurvive /\ AssessmentsSurvive /\ reconciled \in {0, snapshot + 1}

(* The docstring of expanded_version(): the claims of the full video are   *)
(* "re-identified so no identifier collides".  The code prefixes their ids *)
(* with the version they come from, and a second expansion to the same     *)
(* version lists them again.                                               *)
NoIdCollides == \A v \in 1..Latest, i \in Ids : Len(versions[v].shows[i]) <= 1

(* A job publishes at most one version, however often it is leased again   *)
(* after a crash between its version and its own publication, and the      *)
(* request's result is that version, the direct successor of the one the   *)
(* request named.                                                          *)
OneVersionPerJob ==
  \A j \in Jobs :
    LET mine == {v \in 1..Latest : versions[v].author = j} IN
    IF answer[j] = 0 THEN mine = {}
    ELSE mine = {answer[j]} /\ answer[j] = plan[j].base + 1

=============================================================================
