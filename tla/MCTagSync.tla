----------------------------- MODULE MCTagSync -----------------------------
(***************************************************************************)
(* Small instances of TagSync.  Pages and chunks hold one item, so that    *)
(* two tags make a second page and a second chunk.                         *)
(***************************************************************************)
EXTENDS TagSync, TLC

CONSTANTS t1, t2, s1, s2, r1, r2

NoSeedSynonyms == [s \in Synonym |-> NoTag]

\* Both listings of tags are in one order at first.  Either there was no
\* activity since the migration and synonyms are made later, or the migrated
\* database lacks an active tag and two new synonyms of the other one.
OneOrder ==
  /\ popular = [i \in DOMAIN recent |-> recent[i].tag]
  /\ \/ aliases = <<>> /\ \A e \in Range(recent) : e.at = 0
     \/ /\ LastSyncDate # Never
        /\ Len(recent) = 2 /\ recent[1].at = now /\ recent[2].at = 0
        /\ Len(aliases) = 2 /\ \A e \in Range(aliases) :
                                 e.at = now /\ e.to = recent[2].tag

MCInit == Init /\ OneOrder
MCSpec == MCInit /\ [][Next]_vars

\* The same on a migrated database that lacks no synonym.
SeededInit == MCInit /\ LastSyncDate # Never /\ aliases = <<>>
SeededSpec == SeededInit /\ [][Next]_vars

\* An incremental run does not look at --dry-run.
FlagsThatMatter ==
  \A r \in Run : job[r].dry => job[r].mode # "incremental"

\* Bound: while there are two synonyms nothing changes but that one of them is
\* withdrawn; in a listing of two tags, one leaves or falls as the last change.
\* Either happens while a run is past its first page.
Shrinks == Len(recent') < Len(recent) \/ Len(aliases') < Len(aliases)
Falls == changes' # changes /\ recent' = recent /\ aliases' = aliases
FewChanges ==
  /\ Len(aliases') = 2 => changes' = 0
  /\ Shrinks \/ Falls =>
       /\ changes' = MaxChanges \/ Len(aliases) = 2
       /\ \E r \in Run : job[r].page > 1

Symmetry == Permutations({s1, s2}) \union Permutations(Run)
=============================================================================
