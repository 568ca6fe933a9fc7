------------------------------- MODULE Evidence -------------------------------
(***************************************************************************)
(* The evidence for one claim: retrieval (evidence/retrieval.py) plans     *)
(* queries with the router, searches papers, collapses and ranks them and  *)
(* reads passages, following redirects under the egress guard              *)
(* (providers/egress.py); assessment (evidence/assessment.py) labels the   *)
(* passages and computes the overall label.  Either stage may be           *)
(* interrupted and run again from its durable input.                       *)
(*                                                                         *)
(* A paper is what the properties tell apart of it: the identifiers it has *)
(* ("none" for a missing one), its version, whether it has an abstract or  *)
(* is withdrawn, and its score, for the words it shares with the claim.    *)
(***************************************************************************)
EXTENDS Integers, FiniteSets, Sequences, SequencesExt

(* What parse_paper() keeps of a hit. *)
Paper == [doi : STRING, arxiv : STRING, title : STRING, version : Nat,
          summary : BOOLEAN, withdrawn : BOOLEAN, score : Nat]

CONSTANTS
  Papers,           \* the papers a provider knows
  Hits,             \* the lists of papers a search may return
  Labels,           \* the labels the router may give: a subset of the keys of LABELS
  federated,        \* federated search is enabled
  max_queries, max_candidates, max_passages, max_full_text, max_llm_calls,
  MAX_REDIRECTS,
  MaxRestarts       \* bound: interruptions of a stage

ASSUME EvidenceAssumption ==
  /\ Papers \subseteq Paper /\ Hits \subseteq Seq(Papers) /\ federated \in BOOLEAN
  /\ {max_queries, max_candidates, max_passages} \subseteq Nat \ {0} /\ max_llm_calls \in Nat \ {0, 1}
  /\ {max_full_text, MAX_REDIRECTS, MaxRestarts} \subseteq Nat
  /\ Labels \subseteq {"supports", "challenges", "qualifies", "context", "cannot_assess"}

VARIABLES
  pc,        \* where the stages are
  attempt,   \* of the single repair in RouterClient.structured()
  calls,     \* router calls since the running stage began (CallBudget)
  billed,    \* router calls for the claim over every run of both stages (history)
  queries,   \* kinds of the queries still to be searched
  found,     \* what they found: <<kind, paper>>
  result,    \* the ClaimRetrieval
  chosen,    \* ranked papers still to be read
  left,      \* full texts that may still be fetched
  fetch,     \* the fetch under way
  claim_outcome,   \* the ClaimOutcome
  restarts,
  dialled,   \* addresses connected to, with the scheme (history)
  missed     \* some search of the run left something out (history)

evars == <<pc, attempt, calls, billed, queries, found, result, chosen, left, fetch, claim_outcome, restarts, dialled, missed>>

-----------------------------------------------------------------------------
(* State *)

NewResult == [status |-> "retrieved", reason |-> "none", source |-> "none", used |-> 0, queries |-> 0, failed |-> 0,
              unknown |-> FALSE, unavailable |-> FALSE, passages |-> <<>>]
NoFetch == [url |-> "none", hops |-> 0, source |-> "none"]
NoOutcome == [assessed |-> FALSE, reason |-> "none", overall |-> "none", relations |-> <<>>, incomplete |-> FALSE]

EInit ==
  /\ pc = "plan" /\ attempt = 0 /\ calls = 0 /\ billed = 0 /\ queries = <<>> /\ found = <<>>
  /\ result = NewResult /\ chosen = <<>> /\ left = max_full_text /\ fetch = NoFetch
  /\ claim_outcome = NoOutcome /\ restarts = 0 /\ dialled = <<>> /\ missed = FALSE

-----------------------------------------------------------------------------
(* RouterClient.structured(): a reply, one repair, or no more budget *)

CallRouter == calls' = calls + 1 /\ billed' = billed + 1
Repairs == attempt = 0

(* A reply that names exactly the passages it was given: clean_reply() and *)
(* check_reply() accept nothing else.                                      *)
Replies == [1..Len(result.passages) -> Labels]

-----------------------------------------------------------------------------
(* plan_queries() *)

Capped(s, n) == SubSeq(s, 1, IF Len(s) < n THEN Len(s) ELSE n)

(* What the cap leaves: one neutral and one disconfirming query go first.  *)
Ordered(neutral, disconfirming) ==
  LET Of(kind, n) == [i \in 1..n |-> kind]
      both == IF disconfirming > 0 THEN 1 ELSE 0
  IN Capped(Of("neutral", 1) \o Of("disconfirming", both)
            \o Of("neutral", neutral - 1) \o Of("disconfirming", disconfirming - both), max_queries)

Fallback ==
  /\ queries' = <<"neutral">>
  /\ result' = [result EXCEPT !.source = "fallback", !.used = calls']
  /\ pc' = "search" /\ attempt' = 0

(* With at least two calls the budget is never short here. *)
Plan ==
  /\ pc = "plan" /\ CallRouter
  /\ \/ \E n \in 1..2, d \in 0..2 :
          /\ queries' = Ordered(n, d)
          /\ result' = [result EXCEPT !.source = "router", !.used = calls']
          /\ pc' = "search" /\ attempt' = 0
     \/ Repairs /\ attempt' = 1 /\ UNCHANGED <<queries, result, pc>>
     \/ Fallback
  /\ UNCHANGED <<found, chosen, left, fetch, claim_outcome, restarts, dialled, missed>>

(* _retrieval(): a claim beyond the limit of a run is not looked at. *)
OverClaimLimit ==
  /\ pc = "plan" /\ calls = 0
  /\ result' = [result EXCEPT !.status = "unassessed", !.reason = "claim_budget"]
  /\ pc' = "retrieved"
  /\ UNCHANGED <<attempt, calls, billed, queries, found, chosen, left, fetch, claim_outcome, restarts, dialled, missed>>

-----------------------------------------------------------------------------
(* PapersClient.search() *)

(* What one search answers: federated search may leave sources unknown, or *)
(* be refused for the plan, and then the single source is asked.           *)
Search ==
  /\ pc = "search" /\ queries # <<>>
  /\ queries' = Tail(queries)
  /\ \/ /\ result' = [result EXCEPT !.queries = @ + 1, !.failed = @ + 1]
        /\ missed' = TRUE /\ UNCHANGED found
     \/ \E hits \in Hits, unknown, refused \in {FALSE, federated} :
          /\ ~(unknown /\ refused)
          /\ result' = [result EXCEPT !.queries = @ + 1, !.unknown = @ \/ unknown, !.unavailable = @ \/ refused]
          /\ missed' = (missed \/ unknown \/ refused)
          /\ found' = found \o [i \in 1..Len(hits) |-> <<Head(queries), hits[i]>>]
  /\ UNCHANGED <<pc, attempt, calls, billed, chosen, left, fetch, claim_outcome, restarts, dialled>>

(* Paper.origin: the work a hit belongs to.  Two hits with one origin are  *)
(* one source.                                                             *)
Origin(p) ==
  CASE p.doi # "none" -> <<"doi", p.doi>>
    [] p.doi = "none" /\ p.arxiv # "none" -> <<"arxiv", p.arxiv>>
    [] OTHER -> <<"title", p.title>>

Lookupable(p) == p.doi # "none"

(* Mutant: every version of a work stays. *)
DedupeNothing(hits) == [i \in 1..Len(hits) |-> hits[i][2]]

(* dedupe(): a work keeps the place of its first hit.  A hit replaces the  *)
(* paper it is held by if its version is later or only it has an abstract. *)
Dedupe(hits) ==
  LET Better(new, old) == new.version > old.version \/ (~old.summary /\ new.summary)
      Step(acc, hit) ==
        LET at == {i \in 1..Len(acc) : Origin(acc[i]) = Origin(hit[2])} IN
        IF at = {} THEN Append(acc, hit[2])
        ELSE [i \in 1..Len(acc) |-> IF i \in at /\ Better(hit[2], acc[i]) THEN hit[2] ELSE acc[i]]
  IN FoldLeft(Step, <<>>, hits)

(* bm25.rank(): best first, ties in input order; what shares no word with  *)
(* the claim is left out.                                                  *)
Ranked(papers) ==
  LET Before(i, j) == papers[i].score > papers[j].score \/ (papers[i].score = papers[j].score /\ i < j)
      sharing == {i \in 1..Len(papers) : papers[i].score > 0}
      order == CHOOSE o \in [1..Cardinality(sharing) -> sharing] :
                 \A i, j \in 1..Cardinality(sharing) : i < j => Before(o[i], o[j])
  IN [i \in 1..Cardinality(sharing) |-> papers[order[i]]]

Searched ==
  /\ pc = "search" /\ queries = <<>>
  /\ IF result.failed = result.queries
     THEN /\ result' = [result EXCEPT !.status = "unassessed", !.reason = "retrieval_unavailable"]
          /\ pc' = "retrieved" /\ UNCHANGED chosen
     ELSE /\ chosen' = Capped(Ranked(Capped(Dedupe(found), max_candidates)), max_passages)
          /\ pc' = "read" /\ UNCHANGED result
  /\ UNCHANGED <<attempt, calls, billed, queries, found, left, fetch, claim_outcome, restarts, dialled, missed>>

-----------------------------------------------------------------------------
(* Reading a passage *)

(* CrossrefClient.status(): a notice that is not familiar is not a clean   *)
(* record.                                                                 *)
CrossrefStatus(notices) ==
  IF "retraction" \in notices THEN "retracted"
  ELSE IF "withdrawal" \in notices THEN "withdrawn"
  ELSE IF "correction" \in notices THEN "corrected"
  ELSE IF notices = {} THEN "none" ELSE "unknown"

(* _retraction(): what cannot be looked up, or is not answered, is unknown *)
Retractions(p) ==
  IF p.withdrawn THEN {"withdrawn"}
  ELSE {"unknown"} \cup
       IF Lookupable(p) THEN {CrossrefStatus(n) : n \in SUBSET {"retraction", "withdrawal", "correction", "concern"}} ELSE {}

AddPassage(level) ==
  /\ \E status \in Retractions(Head(chosen)) :
       result' = [result EXCEPT !.passages =
                    Append(@, [paper |-> Head(chosen), level |-> level, retraction |-> status])]
  /\ chosen' = Tail(chosen)
  /\ fetch' = NoFetch

AbstractLevel(p) == IF p.summary THEN "abstract_only" ELSE "metadata_only"

(* The abstract is read when no full text may be fetched. *)
Read ==
  /\ pc = "read" /\ chosen # <<>> /\ fetch = NoFetch /\ left = 0
  /\ AddPassage(AbstractLevel(Head(chosen)))
  /\ UNCHANGED <<pc, attempt, calls, billed, queries, found, left, claim_outcome, restarts, dialled, missed>>

Fetching(source) ==
  fetch' = [url |-> "https", hops |-> 0, source |-> source] /\ UNCHANGED <<result, chosen>>

(* arxiv() first, then europepmc() for a DOI that can be looked up,   *)
(* which searches for the article and fetches it                           *)
StartFetch ==
  /\ pc = "read" /\ chosen # <<>> /\ fetch = NoFetch /\ left > 0
  /\ left' = left - 1
  /\ IF Head(chosen).arxiv # "none" \/ Lookupable(Head(chosen))
     THEN Fetching(IF Head(chosen).arxiv # "none" THEN "arxiv" ELSE "europepmc")
     ELSE AddPassage(AbstractLevel(Head(chosen)))
  /\ UNCHANGED <<pc, attempt, calls, billed, queries, found, claim_outcome, restarts, dialled, missed>>

(* Nothing usable came back: the next source, or the abstract *)
Absent ==
  IF fetch.source = "arxiv" /\ Lookupable(Head(chosen))
  THEN Fetching("europepmc")
  ELSE AddPassage(AbstractLevel(Head(chosen)))

(* A text that shares no word with the claim leaves the abstract. *)
TextLevels(p) == {"full_text", AbstractLevel(p)}

(* Mutant: the first answer of the resolver is the one that is checked. *)
PinnedFirst(answers) == IF answers = <<>> THEN "none" ELSE IF answers[1] = "internal" THEN "none" ELSE answers[Len(answers)]

(* blocked_address(): private, loopback, link-local, reserved, multicast   *)
(* addresses and the IPv6 forms that embed them                            *)
BlockedAddress(address) == address = "internal"

(* pinned_address(): one resolution, and every answer must be public *)
Pinned(answers) ==
  IF answers = <<>> \/ \E i \in 1..Len(answers) : BlockedAddress(answers[i]) THEN "none" ELSE answers[1]

(* check_url() and the downgrade check of fetch(): "refused" stands for a  *)
(* scheme, a port, credentials or a host name that is not allowed.         *)
Checked(from, to) == to # "refused" /\ ~(from = "https" /\ to = "http")

(* connect_tcp(): the connection goes to the address that was checked. *)
Dial(answers) == dialled' = Append(dialled, <<fetch.url, Pinned(answers)>>)

(* A hop of fetch(): resolve, connect to the address that was checked, and *)
(* return the answer or follow its redirect.                               *)
FetchHop ==
  /\ fetch # NoFetch
  /\ \E answers \in {<<>>, <<"public">>, <<"internal">>, <<"public", "internal">>} :
       IF Pinned(answers) = "none" THEN Absent /\ UNCHANGED dialled
       ELSE /\ Dial(answers)
            /\ \/ IF fetch.source = "europepmc" THEN Fetching("pmc")
                  ELSE \E level \in TextLevels(Head(chosen)) : AddPassage(level)
               \/ Absent
               \/ \E to \in {"https", "http", "refused"} :
                    IF fetch.hops < MAX_REDIRECTS /\ Checked(fetch.url, to)
                    THEN fetch' = [fetch EXCEPT !.url = to, !.hops = @ + 1] /\ UNCHANGED <<result, chosen>>
                    ELSE Absent
  /\ UNCHANGED <<pc, attempt, calls, billed, queries, found, left, claim_outcome, restarts, missed>>

(* The retrieval is published and its assessment enqueued.  A claim that   *)
(* no search reached is published when another claim of the run was.       *)
Retrieved ==
  /\ \/ pc = "read" /\ chosen = <<>> /\ fetch = NoFetch
     \/ pc = "retrieved"
  /\ pc' = "assess" /\ attempt' = 0 /\ calls' = 0 /\ dialled' = <<>> /\ found' = <<>>
  /\ UNCHANGED <<billed, queries, result, chosen, left, fetch, claim_outcome, restarts, missed>>

(* An interruption: a lost lease, a crash, RateLimited, or every search    *)
(* failed.  Retrieval starts over and assessment starts from the artifact. *)
Restart ==
  /\ pc \in {"plan", "search", "read", "retrieved", "assess"} /\ restarts < MaxRestarts
  /\ restarts' = restarts + 1
  /\ calls' = 0 /\ attempt' = 0 /\ fetch' = NoFetch /\ dialled' = <<>>
  /\ IF pc = "assess" THEN UNCHANGED <<pc, queries, found, result, chosen, left, missed>>
     ELSE /\ pc' = "plan" /\ queries' = <<>> /\ found' = <<>> /\ result' = NewResult
          /\ chosen' = <<>> /\ left' = max_full_text /\ missed' = FALSE
  /\ UNCHANGED <<claim_outcome, billed>>

-----------------------------------------------------------------------------
(* Assessor.assess() *)

(* LABELS: what settles nothing is insufficient *)
LABELS ==
  [l \in {"supports", "challenges", "qualifies", "context", "cannot_assess"} |->
     CASE l = "supports" -> "support" [] l = "challenges" -> "challenge"
       [] l = "qualifies" -> "qualify" [] OTHER -> "insufficient"]

Counted(passage, label) ==
  IF passage.retraction \in {"retracted", "withdrawn"} THEN "insufficient" ELSE LABELS[label]

(* overall() *)
Overall(relations) ==
  LET has(relation) == relation \in ToSet(relations) IN
  IF has("challenge") THEN IF has("support") \/ has("qualify") THEN "mixed" ELSE "challenged"
  ELSE IF has("qualify") THEN "qualified"
  ELSE IF has("support") THEN "supported" ELSE "insufficient_evidence"

(* summary(): the search was incomplete *)
Incomplete == result.failed > 0 \/ result.unknown \/ result.unavailable

Unassessed(reason) ==
  claim_outcome' = [NoOutcome EXCEPT !.reason = reason]

Assessed(labels) ==
  LET relations == [i \in 1..Len(labels) |-> Counted(result.passages[i], labels[i])] IN
  claim_outcome' = [assessed |-> TRUE, reason |-> "none", overall |-> Overall(relations),
              relations |-> [i \in 1..Len(labels) |-> <<Origin(result.passages[i].paper), labels[i]>>],
              incomplete |-> Incomplete]

(* Mutant: assessment starts with a budget of its own. *)
RemainingWhole == max_llm_calls - calls

(* The rest of the claim's router calls *)
Remaining == max_llm_calls - result.used - calls

AssessClaim ==
  /\ pc = "assess"
  /\ \/ /\ result.status # "retrieved"
        /\ Unassessed(result.reason) /\ pc' = "done" /\ UNCHANGED <<attempt, calls, billed>>
     \/ /\ result.status = "retrieved" /\ result.passages = <<>>
        /\ Assessed(<<>>) /\ pc' = "done" /\ UNCHANGED <<attempt, calls, billed>>
     \/ /\ result.passages # <<>> /\ Remaining <= 0
        /\ Unassessed("llm_budget_exhausted") /\ pc' = "done" /\ UNCHANGED <<attempt, calls, billed>>
     \/ /\ result.passages # <<>> /\ Remaining > 0 /\ CallRouter
        /\ \/ /\ \E labels \in Replies : Assessed(labels)
              /\ pc' = "done" /\ UNCHANGED attempt
           \/ Repairs /\ attempt' = 1 /\ UNCHANGED <<pc, claim_outcome>>
           \/ Unassessed("assessment_unavailable") /\ pc' = "done" /\ UNCHANGED attempt
  /\ UNCHANGED <<queries, found, result, chosen, left, fetch, restarts, dialled, missed>>

ENext == Plan \/ OverClaimLimit \/ Search \/ Searched \/ Read \/ StartFetch \/ FetchHop \/ Retrieved \/ Restart \/ AssessClaim

ESpec == EInit /\ [][ENext]_evars

-----------------------------------------------------------------------------
(* Properties *)

(* The label says what the counted sources say, and silence is told apart  *)
(* from absence: a claim is called settled only by sources that are        *)
(* neither retracted nor withdrawn, "insufficient" only when a search was  *)
(* answered, and a search that left something out is reported.             *)
LabelHonest ==
  pc = "done" =>
    LET Says(l) == \E i \in 1..Len(result.passages) :
                     /\ result.passages[i].retraction \notin {"retracted", "withdrawn"}
                     /\ claim_outcome.relations[i][2] = l
    IN /\ claim_outcome.assessed = (claim_outcome.reason = "none")
       /\ claim_outcome.assessed =>
            /\ claim_outcome.overall = "supported" <=> Says("supports") /\ ~Says("challenges") /\ ~Says("qualifies")
            /\ claim_outcome.overall \in {"challenged", "mixed"} <=> Says("challenges")
            /\ result.failed < result.queries
            /\ claim_outcome.incomplete = missed

(* Every work, told by Paper.origin, is one source with one vote: passages *)
(* are of distinct origins, and an older version is read only where one at *)
(* least as late as the one it stands for was found without an abstract.   *)
(* A preprint and its journal version have two origins: see WorksCollapse. *)
OneVotePerWork ==
  /\ \A i, j \in 1..Len(result.passages) :
       i # j => Origin(result.passages[i].paper) # Origin(result.passages[j].paper)
  /\ \A i \in 1..Len(result.passages), h \in 1..Len(found) :
       LET read == result.passages[i].paper  hit == found[h][2] IN
       Origin(hit) = Origin(read) /\ hit.version > read.version =>
         \E g \in 1..Len(found) :
           /\ Origin(found[g][2]) = Origin(read)
           /\ found[g][2].version >= hit.version /\ ~found[g][2].summary

(* What a claim is called follows from origins that each count once.       *)
VerdictHonest == LabelHonest /\ OneVotePerWork

(* The docstring of dedupe(): "Collapse hits of one work (same DOI, arXiv  *)
(* id or version); keep the latest version."  What is read of two hits     *)
(* that share an arXiv id is one passage, and no later version of it was   *)
(* found.  The code keeps the version that came last of those better than  *)
(* their predecessor, and a hit with a journal DOI apart from one without. *)
WorksCollapse ==
  LET read(i) == result.passages[i].paper IN
  /\ \A i \in 1..Len(result.passages), h \in 1..Len(found) :
       Origin(found[h][2]) = Origin(read(i)) => found[h][2].version <= read(i).version
  /\ \A i, j \in 1..Len(result.passages) :
       i # j /\ read(i).arxiv # "none" => read(i).arxiv # read(j).arxiv

(* One run of both stages makes at most max_llm_calls router calls for a   *)
(* claim, repairs included: assessment is left what retrieval did not use. *)
(* A stage that runs again has its budget afresh, so over every run the    *)
(* claim costs at most that many more for each interruption.               *)
CallsBound ==
  /\ (IF pc \in {"assess", "done"} THEN result.used ELSE 0) + calls <= max_llm_calls
  /\ billed <= (restarts + 1) * max_llm_calls

(* Every connection goes to a public address, a redirect never leaves      *)
(* https, and a fetch follows a bounded number of them.                    *)
EgressGuarded ==
  /\ \A i \in 1..Len(dialled) : dialled[i] = <<"https", "public">>
  /\ Len(dialled) <= 3 * max_full_text * (MAX_REDIRECTS + 1)

(* What a claim may cost and reach: router calls are counted over both     *)
(* stages and every run, and connections are checked one by one.           *)
OutsideBounded == CallsBound /\ EgressGuarded
=============================================================================
