------------------------------ MODULE MCClaims ------------------------------
(***************************************************************************)
(* Three observations, two of them at the same time; the first text holds  *)
(* overlapping repetitions of a quote, and the last is an upper-case text. *)
(***************************************************************************)
EXTENDS Claims

Texts == <<<<1, 1, 1>>, <<2>>, <<12, 1>>>>

Roles == {<<"target", "context", "target">>, <<"context", "target", "target">>,
          <<"target", "target", "target">>}

SomeInputs == {[i \in 1..3 |-> [role |-> r[i], text |-> Texts[i]]] : r \in Roles}

SomeTimes == <<<<0, 2>>, <<0, 2>>, <<2, 3>>>>

Occ(i, q) == [src |-> <<<<i, q>>>>, ctx |-> <<>>]

Mixed == [src |-> <<<<3, <<0, 12, 0>>>>, <<1, <<1>>>>>>, ctx |-> <<<<2, <<2>>>>, <<1, <<1>>>>>>]

SomeAnswers ==
  {<<>>, <<Occ(1, <<1, 1>>), Occ(1, <<1, 1>>)>>, <<Occ(2, <<2>>)>>, <<Occ(1, <<1>>), Occ(2, <<2>>)>>,
   <<Occ(3, <<2>>), Mixed>>, <<Mixed, Mixed>>}
=============================================================================
