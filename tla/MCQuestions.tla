----------------------------- MODULE MCQuestions -----------------------------
(***************************************************************************)
(* A small instance of Questions: one tag of the migration, one that the   *)
(* sync adds and that resembles it, and a synonym of that one.             *)
(***************************************************************************)
EXTENDS Questions, TLC

CONSTANTS c1, c2, c3, i1, i2, angular, angularjs, ng

MCCall == {c1, c2, c3}
MCInstance == {i1, i2}
MCTag == {angular, angularjs, ng}
MCSpelling == {"AngularJS", "NG"}
MCNormal == [s \in MCSpelling |-> IF s = "NG" THEN ng ELSE angularjs]
MCScore ==
  [t \in MCTag |-> [c \in MCTag |->
     IF t = c THEN 100 ELSE IF ng \in {t, c} THEN 0 ELSE 95]]
MCSeedTags == {angular}
MCSeedSynonyms == [t \in MCTag |-> NoTag]
MCSoTag == {angularjs}
MCSoSynonym == {<<ng, angularjs>>}

\* Asking for no tags is as asking for those that resolve to none.
AsksForTags ==
  \A c \in Call : ask'[c].kind \in {"submit", "search"} => ask'[c].asked # {}

\* Bound: one request at a time is still at work after its client's 408.
OneOutlives ==
  Cardinality(abandoned' \union {c \in Call : pc'[c] = "late"}) <= 1

Interchangeable == Permutations(MCCall) \union Permutations(MCInstance)
=============================================================================
