----------------------------- MODULE VoteLedger -----------------------------
(***************************************************************************)
(* What the voting API promises: a ledger that holds, for every answer,    *)
(* at most one vote per user, and two counters that are at every instant   *)
(* the tally of those votes.  Casting a vote is one atomic step that       *)
(* changes the ballot and both counters together; casting the vote that    *)
(* is already there changes nothing.                                       *)
(***************************************************************************)
EXTENDS Integers, FiniteSets

CONSTANTS
  User,     \* rows of api.users
  Answer,   \* rows of api.answers that exist or will exist
  Author    \* Author[a]: the user who submits answer a

VARIABLES
  answers,  \* the answers that have been posted
  votes,    \* votes[a][u]: 1, -1, or 0 when u has no vote on a
  up,       \* up[a]: the column answers.upvotes
  down      \* down[a]: the column answers.downvotes

ledgerVars == <<answers, votes, up, down>>

Value == {-1, 1}

\* The users whose vote on an answer with these ballots is v.
Voters(ballots, v) == {u \in User : ballots[u] = v}

Init ==
  /\ answers = {}
  /\ votes = [a \in Answer |-> [u \in User |-> 0]]
  /\ up = [a \in Answer |-> 0]
  /\ down = [a \in Answer |-> 0]

\* The ballots on answer a once u votes v.
WithVote(a, u, v) == [votes[a] EXCEPT ![u] = v]

Post(a) ==
  /\ answers' = answers \union {a}
  /\ UNCHANGED <<votes, up, down>>

Cast(a, u, v) ==
  /\ a \in answers
  /\ u # Author[a]
  /\ votes' = [votes EXCEPT ![a] = WithVote(a, u, v)]
  /\ up' = [up EXCEPT ![a] = Cardinality(Voters(WithVote(a, u, v), 1))]
  /\ down' = [down EXCEPT ![a] = Cardinality(Voters(WithVote(a, u, v), -1))]
  /\ UNCHANGED answers

Next ==
  \/ \E a \in Answer : Post(a)
  \/ \E a \in Answer, u \in User, v \in Value : Cast(a, u, v)

Spec == Init /\ [][Next]_ledgerVars
=============================================================================
