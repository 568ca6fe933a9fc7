------------------------------ MODULE MCEvidence ------------------------------
(***************************************************************************)
(* A preprint in three versions, the later ones without an abstract and    *)
(* the second of them withdrawn, its journal version, and an article.      *)
(***************************************************************************)
EXTENDS Evidence

Preprint(v) == [doi |-> "none", arxiv |-> "a1", title |-> "t1", version |-> v, summary |-> v = 1,
                withdrawn |-> v = 2, score |-> v]
Article == [doi |-> "d2", arxiv |-> "none", title |-> "t2", version |-> 0, summary |-> TRUE,
            withdrawn |-> FALSE, score |-> 1]
Journal == [Preprint(1) EXCEPT !.doi = "d1"]
MCPapers == {Preprint(v) : v \in 1..3} \cup {Article, Journal}
Pairs == {<<p, q>> : p, q \in MCPapers \ {Article}}
MCHits == {<<>>} \cup {<<p>> : p \in MCPapers} \cup {h \in Pairs : h[1] # h[2]}
=============================================================================
