------------------------------ MODULE TagTables ------------------------------
(***************************************************************************)
(* The tables tags and tag_synonyms as the tag sync and the API share      *)
(* them: what the sync promises of every statement it commits, and all     *)
(* that the copies of the tables in the API instances rely on.  No tag     *)
(* goes away, and a synonym always has the one tag it was inserted with,   *)
(* which was there before it.                                              *)
(***************************************************************************)
CONSTANTS
  Tag, Synonym, NoTag,
  SoTag,       \* tags of Stack Overflow
  SoSynonym    \* pairs <<synonym, tag>> of Stack Overflow

VARIABLES
  tags,        \* the names that have a row
  synonyms     \* synonyms[s]: the tag of s, NoTag if s has no row

tables == <<tags, synonyms>>

Init ==
  /\ tags \in SUBSET Tag
  /\ synonyms \in [Synonym -> tags \union {NoTag}]

InsertTags ==
  \E T \in (SUBSET (SoTag \ tags)) \ {{}} :
    /\ tags' = tags \union T
    /\ UNCHANGED synonyms

New == {p \in SoSynonym : synonyms[p[1]] = NoTag /\ p[2] \in tags}

InsertSynonyms ==
  \E S \in (SUBSET New) \ {{}} :
    /\ synonyms' = [s \in Synonym |->
                      IF \E t \in tags : <<s, t>> \in S
                      THEN CHOOSE t \in tags : <<s, t>> \in S
                      ELSE synonyms[s]]
    /\ UNCHANGED tags

Next == InsertTags \/ InsertSynonyms

Spec == Init /\ [][Next]_tables
=============================================================================
