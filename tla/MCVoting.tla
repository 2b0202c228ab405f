------------------------------ MODULE MCVoting ------------------------------
(***************************************************************************)
(* Small instances of Voting.  Every assignment of user, answer, value and *)
(* instance to the calls is an initial state (up to their names, where     *)
(* MCSpec is used), so three calls cover three votes of one user, votes of *)
(* different users on one answer, and votes of one user on different       *)
(* answers.  ann is the author of every answer, so self-votes are among    *)
(* the calls.                                                              *)
(***************************************************************************)
EXTENDS Voting, TLC

CONSTANTS ann, bob, cat, c1, c2, c3, i1, i2, i3, a1, a2

AnnWrites == [a \in Answer |-> ann]

(***************************************************************************)
(* Calls, instances and answers are interchangeable, but TLC's symmetry is *)
(* not sound for liveness.  Of the initial states that differ only in such *)
(* names, OneOfEach keeps one: calls are named in the order of what they   *)
(* ask, instances and answers in the order in which the calls name them.   *)
(***************************************************************************)
Rank(c) ==
  2 * (ann :> 0 @@ bob :> 1 @@ cat :> 2)[ask[c].user]
    + (-1 :> 0 @@ 1 :> 1)[ask[c].value]

OneOfEach ==
  /\ Rank(c1) <= Rank(c2) /\ Rank(c2) <= Rank(c3)
  /\ ask[c1].instance = i1
  /\ ask[c2].instance \in {i1, i2}
  /\ ask[c3].instance = i3 => ask[c2].instance = i2
  /\ ask[c1].answer = a1

MCInit == Init /\ OneOfEach

MCSpec == MCInit /\ [][Next]_vars /\ Fairness
=============================================================================
