------------------------------- MODULE Voting -------------------------------
(***************************************************************************)
(* Upvotes and downvotes, as the API executes them: AnswerService guards   *)
(* against self-votes, then PgAnswerRepository::vote runs a READ COMMITTED *)
(* transaction that reads the user's vote, writes the votes row and        *)
(* adjusts the counters kept on the answers row.                           *)
(*                                                                         *)
(* A call is one HTTP request or MCP tool call.  It waits for the single   *)
(* database connection of the API instance it reached, and keeps that      *)
(* connection until it ends.  Calls on different instances interleave      *)
(* statement by statement.  A transaction sees committed rows only; a row  *)
(* it has written stays locked until it commits or rolls back.             *)
(*                                                                         *)
(* The request timeout drops the handler of an HTTP request, but not an    *)
(* MCP tool, which rmcp runs in a task of its own: the client has its 408, *)
(* and the tool takes all the steps it would have taken, its reply being   *)
(* lost.  So a call that runs here may be one that its client has given    *)
(* up.                                                                     *)
(***************************************************************************)
EXTENDS Integers, FiniteSets

CONSTANTS
  User,               \* rows of api.users
  Answer,             \* rows of api.answers that exist or will exist
  Author,             \* Author[a]: answers.submitted_by of a
  Call,               \* vote requests
  Instance,           \* API processes, each with a pool of one connection
  RetryElsewhere,     \* may a client vote again, through another instance,
                      \* while its last vote on the same answer is running,
                      \* whether it waits for that or has been told 408?
  LateCommits         \* may PostgreSQL execute the COMMIT of a handler that
                      \* was dropped, after its connection was replaced?

ASSUME UserAssumption == IsFiniteSet(User)
ASSUME CallAssumption == IsFiniteSet(Call)
ASSUME AuthorAssumption == Author \in [Answer -> User]
ASSUME RetryAssumption == RetryElsewhere \in BOOLEAN
ASSUME LateAssumption == LateCommits \in BOOLEAN

VARIABLES
  ask,        \* ask[c]: what call c asks for and the instance that serves it
  answers,    \* the committed answers rows
  votes,      \* votes[a][u]: the committed votes.value, 0 when there is no row
  up, down,   \* the committed answers.upvotes and answers.downvotes
  pc,         \* pc[c]: the statement call c executes next, or its outcome
  existing,   \* existing[c]: the vote c's transaction read, 0 for no row
  row         \* row[c]: the counters c's transaction wrote, not yet committed

vars == <<ask, answers, votes, up, down, pc, existing, row>>
dbVars == <<answers, votes, up, down>>

Ledger == INSTANCE VoteLedger
            WITH User <- User, Answer <- Answer, Author <- Author,
                 answers <- answers, votes <- votes, up <- up, down <- down

Value == {-1, 1}
Ask == [user : User, answer : Answer, value : Value, instance : Instance]
Outcome == {"ok", "forbidden", "not_found", "error"}
NoRow == [up |-> 0, down |-> 0]

Running(c) == pc[c] \notin {"idle"} \union Outcome

\* Mutant: the early return of a refused self-vote leaks the connection.
HasConnection_Leaked(c) ==
  (Running(c) /\ pc[c] \notin {"sent", "in_doubt"}) \/ pc[c] = "forbidden"

HasConnection(c) == Running(c) /\ pc[c] \notin {"sent", "in_doubt"}

SameBallot(c, d) ==
  ask[c].user = ask[d].user /\ ask[c].answer = ask[d].answer
SelfVote(c) == Author[ask[c].answer] = ask[c].user

\* A transaction holds the votes row from its write to its end, and the
\* answers row from the counter update to its end.
HoldsVoteRow(c) == pc[c] \in {"count", "commit", "in_doubt"}
HoldsAnswerRow(c) == pc[c] \in {"commit", "in_doubt"}
VoteRowFree(c) ==
  \A d \in Call \ {c} : HoldsVoteRow(d) => ~SameBallot(c, d)

AnswerRowFree(c) ==
  \A d \in Call \ {c} : HoldsAnswerRow(d) => ask[d].answer # ask[c].answer

Goto(c, label) == pc' = [pc EXCEPT ![c] = label]

\* The call has ended: its connection is free and its transaction, if any was
\* open, is gone.
Finish(c, outcome) ==
  /\ Goto(c, outcome)
  /\ existing' = [existing EXCEPT ![c] = 0]
  /\ row' = [row EXCEPT ![c] = NoRow]
  /\ UNCHANGED ask

-----------------------------------------------------------------------------
Init ==
  /\ ask \in [Call -> Ask]
  /\ answers = {}
  /\ votes = [a \in Answer |-> [u \in User |-> 0]]
  /\ up = [a \in Answer |-> 0]
  /\ down = [a \in Answer |-> 0]
  /\ pc = [c \in Call |-> "idle"]
  /\ existing = [c \in Call |-> 0]
  /\ row = [c \in Call |-> NoRow]

\* AnswerService::create: the row starts with the column defaults.
CreateAnswer(a) ==
  /\ a \notin answers
  /\ answers' = answers \union {a}
  /\ UNCHANGED <<ask, votes, up, down, pc, existing, row>>

\* A client sends a vote and its token is accepted.
Send(c) ==
  /\ pc[c] = "idle"
  /\ \/ RetryElsewhere
     \/ \A d \in Call \ {c} :
          Running(d) /\ SameBallot(c, d) => ask[d].instance = ask[c].instance
  /\ Goto(c, "sent")
  /\ UNCHANGED <<ask, dbVars, existing, row>>

\* Mutant: the pool lends a connection to every call that asks.
Checkout_Unbounded(c) ==
  /\ pc[c] = "sent"
  /\ Goto(c, "guard")
  /\ UNCHANGED <<ask, dbVars, existing, row>>

\* state.pool.get(): the pool of an instance has one connection.
Checkout(c) ==
  /\ pc[c] = "sent"
  /\ \A d \in Call \ {c} : HasConnection(d) => ask[d].instance # ask[c].instance
  /\ Goto(c, "guard")
  /\ UNCHANGED <<ask, dbVars, existing, row>>

\* connection_timeout: pool.get() gives up while another call keeps the
\* connection.
CheckoutTimeout(c) ==
  /\ pc[c] = "sent"
  /\ \E d \in Call \ {c} : HasConnection(d) /\ ask[d].instance = ask[c].instance
  /\ Finish(c, "error")
  /\ UNCHANGED dbVars

\* guard_self_vote, a statement of its own before the transaction.
GuardSelfVote(c) ==
  /\ pc[c] = "guard"
  /\ \/ /\ ask[c].answer \notin answers
        /\ Finish(c, "not_found")
     \/ /\ ask[c].answer \in answers
        /\ SelfVote(c)
        /\ Finish(c, "forbidden")
     \/ /\ ask[c].answer \in answers
        /\ ~SelfVote(c)
        /\ Goto(c, "select")
        /\ UNCHANGED <<ask, existing, row>>
  /\ UNCHANGED dbVars

\* Mutant: keeps the change of the vote instead of the old vote.
ReadVote_Difference(c) ==
  LET old == votes[ask[c].answer][ask[c].user]
  IN  /\ pc[c] = "select"
      /\ existing' = [existing EXCEPT ![c] = ask[c].value - old]
      /\ Goto(c, IF old = ask[c].value THEN "reply" ELSE "write")
      /\ UNCHANGED <<ask, dbVars, row>>

\* BEGIN, SELECT value FROM votes, and the match on the result.  The read
\* takes no lock.  The same vote again is a no-op: an empty transaction.
ReadVote(c) ==
  LET old == votes[ask[c].answer][ask[c].user]
  IN  /\ pc[c] = "select"
      /\ existing' = [existing EXCEPT ![c] = old]
      /\ Goto(c, IF old = ask[c].value THEN "reply" ELSE "write")
      /\ UNCHANGED <<ask, dbVars, row>>

\* Mutant: no transaction around the statements, each commits by itself.
WriteVote_Autocommit(c) ==
  /\ pc[c] = "write"
  /\ VoteRowFree(c)
  /\ ~SelfVote(c)
  /\ votes' = [votes EXCEPT ![ask[c].answer][ask[c].user] = ask[c].value]
  /\ Goto(c, "count")
  /\ UNCHANGED <<ask, answers, up, down, existing, row>>

\* The UPDATE of a flip, or the INSERT ... ON CONFLICT DO UPDATE of a new
\* vote: either waits for the row, then sets its value.  The trigger
\* prevent_self_vote lets no self-vote through.
WriteVote(c) ==
  /\ pc[c] = "write"
  /\ VoteRowFree(c)
  /\ ~SelfVote(c)
  /\ Goto(c, "count")
  /\ UNCHANGED <<ask, dbVars, existing, row>>

\* Mutant: a flip takes the old vote away and forgets to add the new one.
Adjusted_HalfFlip(c) ==
  LET a == ask[c].answer
      v == ask[c].value
  IN  IF existing[c] # 0
      THEN [up |-> IF v = 1 THEN up[a] ELSE up[a] - 1,
            down |-> IF v = 1 THEN down[a] - 1 ELSE down[a]]
      ELSE [up |-> IF v = 1 THEN up[a] + 1 ELSE up[a],
            down |-> IF v = 1 THEN down[a] ELSE down[a] + 1]

\* Mutant: a flip moves its vote the wrong way.
Adjusted_WrongWay(c) ==
  LET a == ask[c].answer
      v == ask[c].value
  IN  IF existing[c] # 0
      THEN [up |-> up[a] - v, down |-> down[a] + v]
      ELSE IF v = 1
           THEN [up |-> up[a] + 1, down |-> down[a]]
           ELSE [up |-> up[a], down |-> down[a] + 1]

\* The counters the transaction computes from the answers row: a flip moves
\* one vote from a column to the other, a new vote adds one to its column.
Adjusted(c) ==
  LET a == ask[c].answer
      v == ask[c].value
  IN  IF existing[c] # 0
      THEN [up |-> up[a] + v, down |-> down[a] - v]
      ELSE IF v = 1
           THEN [up |-> up[a] + 1, down |-> down[a]]
           ELSE [up |-> up[a], down |-> down[a] + 1]

\* UPDATE answers SET upvotes = upvotes + ..: waits for the row, then
\* computes from its latest committed version.
AdjustCounters(c) ==
  /\ pc[c] = "count"
  /\ AnswerRowFree(c)
  /\ row' = [row EXCEPT ![c] = Adjusted(c)]
  /\ Goto(c, "commit")
  /\ UNCHANGED <<ask, dbVars, existing>>

\* COMMIT makes the vote and both counters visible at once.
MakeVisible(c) ==
  LET a == ask[c].answer
  IN  /\ votes' = [votes EXCEPT ![a][ask[c].user] = ask[c].value]
      /\ up' = [up EXCEPT ![a] = row[c].up]
      /\ down' = [down EXCEPT ![a] = row[c].down]
      /\ UNCHANGED answers

Commit(c) ==
  /\ pc[c] = "commit"
  /\ MakeVisible(c)
  /\ Goto(c, "reply")
  /\ UNCHANGED <<ask, existing, row>>

Reply(c) ==
  /\ pc[c] = "reply"
  /\ Finish(c, "ok")
  /\ UNCHANGED dbVars

\* Mutant: the handler swallows the error of the transaction.
Rollback_Swallowed(c) ==
  /\ pc[c] \in {"guard", "select", "write", "count", "commit"}
  /\ Finish(c, "ok")
  /\ UNCHANGED dbVars

\* A statement fails, or the request timeout or a crash drops the handler:
\* the open transaction rolls back.  (PostgreSQL may take a while to notice a
\* dropped handler; until then its locks delay others.)
Rollback(c) ==
  /\ pc[c] \in {"guard", "select", "write", "count", "commit"}
  /\ Finish(c, "error")
  /\ UNCHANGED dbVars

\* The handler is dropped while its COMMIT is under way: the client is told
\* that it failed and the connection is replaced, but not the transaction.
DropInCommit(c) ==
  /\ LateCommits
  /\ pc[c] = "commit"
  /\ Goto(c, "in_doubt")
  /\ UNCHANGED <<ask, dbVars, existing, row>>

\* PostgreSQL executes such a COMMIT, or notices first that nobody is there.
Settle(c) ==
  /\ pc[c] = "in_doubt"
  /\ MakeVisible(c) \/ UNCHANGED dbVars
  /\ Finish(c, "error")

\* The same after the commit, or of a tool that has outlived its 408: the vote
\* stands but the client is told it failed.
LoseReply(c) ==
  /\ pc[c] = "reply"
  /\ Finish(c, "error")
  /\ UNCHANGED dbVars

Serve(c) ==
  \/ Checkout(c)
  \/ GuardSelfVote(c)
  \/ ReadVote(c)
  \/ WriteVote(c)
  \/ AdjustCounters(c)
  \/ Commit(c)
  \/ Reply(c)
  \/ Settle(c)

Next ==
  \/ \E a \in Answer : CreateAnswer(a)
  \/ \E c \in Call :
       \/ Send(c)
       \/ Serve(c)
       \/ CheckoutTimeout(c)
       \/ Rollback(c)
       \/ DropInCommit(c)
       \/ LoseReply(c)

Spec == Init /\ [][Next]_vars

\* The server and PostgreSQL keep executing a call they have received; nothing
\* obliges a client to send one, nor a transaction to fail.
Fairness == \A c \in Call : WF_vars(Serve(c))

-----------------------------------------------------------------------------
(***************************************************************************)
(* Properties.                                                             *)
(***************************************************************************)

\* Every variable has the type of the column or local it stands for.
TypeOK ==
  /\ ask \in [Call -> Ask]
  /\ answers \subseteq Answer
  /\ votes \in [Answer -> [User -> {-1, 0, 1}]]
  /\ up \in [Answer -> Int]
  /\ down \in [Answer -> Int]
  /\ pc \in [Call -> {"idle", "sent", "guard", "select", "write", "count",
                      "commit", "in_doubt", "reply"} \union Outcome]
  /\ existing \in [Call -> {-1, 0, 1}]
  /\ row \in [Call -> [up : Int, down : Int]]

\* No two votes of one user on one answer run at once in two transactions:
\* clients keep to an instance until the call has ended there, or there is only
\* one, and no COMMIT comes after the connection it was sent on was replaced.
Serialised ==
  (~RetryElsewhere \/ \A i, j \in Instance : i = j) /\ ~LateCommits

\* The denormalised counters of PgAnswerRepository::vote are the tally of
\* the votes table in every committed state: no interleaving of the
\* statements of two transactions, no rollback and no retry after a lost
\* reply makes them drift, as long as the system is Serialised: within a
\* process the pool of one connection keeps two votes apart.
CountersMatchVotes ==
  \A a \in Answer :
    /\ up[a] = Cardinality(Ledger!Voters(votes[a], 1))
    /\ down[a] = Cardinality(Ledger!Voters(votes[a], -1))

\* The users who have a row among these ballots.
Voted(ballots) == {u \in User : ballots[u] # 0}

\* With no restriction on clients, races may count one vote twice, but the two
\* counters of vote() together are never short of the votes rows.  That says
\* nothing of either counter: two flips of one vote that race take it out of
\* its column twice and add it to the other twice.
CountersCoverVotes ==
  \A a \in Answer :
    up[a] + down[a] >= Cardinality(Voted(votes[a]))

Column(a, v) == IF v = 1 THEN up[a] ELSE down[a]

\* The calls for vote v on answer a that their user has made more than once.
Repeats(a, v) ==
  {c \in Call :
     /\ pc[c] # "idle" /\ ask[c].answer = a /\ ask[c].value = v
     /\ \E d \in Call \ {c} :
          pc[d] # "idle" /\ SameBallot(c, d) /\ ask[d].value = v}

\* One counter is short of its votes by no more than the calls for the opposite
\* vote that some user has made more than once: a new vote never hides an old
\* one, whatever races with it, and a vote whose user has flipped it once is
\* taken out once, however many votes of others are under way.
OnlyRepeatedFlipsLoseVotes ==
  \A a \in Answer, v \in Value :
    Column(a, v) + Cardinality(Repeats(a, -v))
      >= Cardinality(Ledger!Voters(votes[a], v))

\* A vote that was answered 200 OK is in the votes table, and stays there
\* with the value that was asked, unless the same user also asked for the
\* opposite value.
AcknowledgedVoteStands ==
  \A c \in Call :
    (/\ pc[c] = "ok"
     /\ \A d \in Call : SameBallot(c, d) => ask[d].value = ask[c].value)
    => votes[ask[c].answer][ask[c].user] = ask[c].value

\* answer.rs:23 and :36 say of upvote and downvote "calling twice has no
\* additional effect": an answer has no more upvotes than users who asked
\* to upvote it, and no more downvotes than users who asked to downvote it,
\* however often each of them called.
CallingTwiceHasNoAdditionalEffect ==
  \A a \in Answer :
    LET Callers(v) ==
          {u \in User : \E c \in Call :
             /\ pc[c] # "idle"
             /\ ask[c].user = u /\ ask[c].answer = a /\ ask[c].value = v}
    IN  /\ up[a] <= Cardinality(Callers(1))
        /\ down[a] <= Cardinality(Callers(-1))

\* Transactions that meet at the votes row and at the answers row are
\* never left waiting for each other, nor for one whose handler is gone: every
\* call that was sent is answered.
EveryCallAnswered ==
  \A c \in Call : pc[c] = "sent" ~> pc[c] \in Outcome \union {"in_doubt"}

\* Seen through the committed rows alone, vote() is one atomic step of the
\* ledger that clients are promised.
ImplementsLedger == Ledger!Spec
=============================================================================
