---------------------------- MODULE VotingProofs ----------------------------
(***************************************************************************)
(* Proofs about Voting for any sets of users, answers, calls and instances.*)
(***************************************************************************)
EXTENDS Voting, FiniteSetTheorems, TLAPS

(***************************************************************************)
(* The inductive invariant.                                                *)
(***************************************************************************)

\* A call past guard_self_vote votes on a posted answer of somebody else.
GuardPassed ==
  \A c \in Call : pc[c] \in {"select", "write", "count", "commit", "in_doubt", "reply"} =>
    ask[c].answer \in answers /\ ~SelfVote(c)

\* A call that writes found no vote, or the opposite one; and since no code
\* deletes a vote, what it found is still a row.
WritesAChange ==
  \A c \in Call : pc[c] \in {"write", "count", "commit", "in_doubt"} =>
    /\ existing[c] # ask[c].value
    /\ existing[c] # 0 => votes[ask[c].answer][ask[c].user] # 0

\* Row locks exclude each other.
LocksExclusive ==
  \A c, d \in Call : c # d =>
    /\ HoldsVoteRow(c) /\ HoldsVoteRow(d) => ~SameBallot(c, d)
    /\ HoldsAnswerRow(c) /\ HoldsAnswerRow(d) => ask[c].answer # ask[d].answer

\* The uncommitted counters were computed from the committed ones, which
\* have not changed since.
CountersLocked ==
  \A c \in Call : HoldsAnswerRow(c) => row[c] = Adjusted(c)

\* The pool of an instance lends its connection to one call at a time.
ConnectionExclusive ==
  \A c, d \in Call : c # d /\ HasConnection(c) /\ HasConnection(d) =>
    ask[c].instance # ask[d].instance

\* Clients keep to one instance for the calls they have in flight on a
\* ballot.
ClientsKeepInstance ==
  ~RetryElsewhere =>
    \A c, d \in Call :
      c # d /\ Running(c) /\ Running(d) /\ SameBallot(c, d) =>
        ask[c].instance = ask[d].instance

Protocol ==
  /\ GuardPassed
  /\ WritesAChange
  /\ LocksExclusive
  /\ CountersLocked
  /\ ConnectionExclusive
  /\ ClientsKeepInstance

IInv == TypeOK /\ Protocol

-----------------------------------------------------------------------------
LEMMA TypeInit == Init => TypeOK
  BY DEF Init, TypeOK, Ask, Value, NoRow

\* Every step keeps the types.
LEMMA TypeStep ==
  ASSUME TypeOK, [Next]_vars
  PROVE  TypeOK'
<1> USE DEF TypeOK, Goto, Finish, NoRow, dbVars, Outcome
<1>0. ASSUME NEW c \in Call, NEW o \in Outcome, Finish(c, o), UNCHANGED dbVars
      PROVE  TypeOK'
  BY <1>0
<1>1. ASSUME NEW a \in Answer, CreateAnswer(a) PROVE TypeOK'
  BY <1>1 DEF CreateAnswer
<1>2. ASSUME NEW c \in Call, Send(c) PROVE TypeOK'
  BY <1>2 DEF Send
<1>3. ASSUME NEW c \in Call, Checkout(c) PROVE TypeOK'
  BY <1>3 DEF Checkout
<1>4. ASSUME NEW c \in Call, CheckoutTimeout(c) PROVE TypeOK'
  BY <1>4 DEF CheckoutTimeout
<1>5. ASSUME NEW c \in Call, GuardSelfVote(c) PROVE TypeOK'
  <2>1. CASE Goto(c, "select") /\ UNCHANGED <<ask, existing, row, dbVars>>
    BY <2>1
  <2> QED
    BY <1>0, <1>5, <2>1 DEF GuardSelfVote
<1>6. ASSUME NEW c \in Call, ReadVote(c) PROVE TypeOK'
  BY <1>6 DEF ReadVote, Ask
<1>7. ASSUME NEW c \in Call, WriteVote(c) PROVE TypeOK'
  BY <1>7 DEF WriteVote
<1>8. ASSUME NEW c \in Call, AdjustCounters(c) PROVE TypeOK'
  BY <1>8 DEF AdjustCounters, Adjusted, Ask, Value
<1>9. ASSUME NEW c \in Call, Commit(c) PROVE TypeOK'
  BY <1>9 DEF Commit, MakeVisible, Ask, Value
<1>10. ASSUME NEW c \in Call, Reply(c) \/ Rollback(c) \/ LoseReply(c) PROVE TypeOK'
  BY <1>0, <1>10 DEF Reply, Rollback, LoseReply
<1>12. ASSUME NEW c \in Call, DropInCommit(c) PROVE TypeOK'
  BY <1>12 DEF DropInCommit
<1>13. ASSUME NEW c \in Call, Settle(c) PROVE TypeOK'
  <2>1. CASE MakeVisible(c)
    <3>1. /\ answers' \subseteq Answer /\ votes' \in [Answer -> [User -> {-1, 0, 1}]]
          /\ up' \in [Answer -> Int] /\ down' \in [Answer -> Int]
      BY <2>1 DEF MakeVisible, Ask, Value
    <3>2. Finish(c, "error")
      BY <1>13 DEF Settle
    <3> QED
      BY <3>1, <3>2
  <2>2. CASE UNCHANGED dbVars
    BY <1>0, <1>13, <2>2 DEF Settle
  <2> QED
    BY <1>13, <2>1, <2>2 DEF Settle
<1>11. CASE UNCHANGED vars
  BY <1>11 DEF vars
<1> QED
  BY <1>1, <1>2, <1>3, <1>4, <1>5, <1>6, <1>7, <1>8, <1>9, <1>10, <1>11,
     <1>12, <1>13 DEF Next, Serve

\* Every step keeps the types of the columns and locals of the vote
\* handler, so they hold in every state, whatever is in the database.
THEOREM TypeCorrect == Spec => []TypeOK
<1>1. TypeOK /\ [Next]_vars => TypeOK'
  BY TypeStep
<1> QED
  BY TypeInit, <1>1, PTL DEF Spec

\* A step that starts no call leaves each with its instance.
LEMMA InstanceKept ==
  ASSUME ClientsKeepInstance, UNCHANGED ask,
         \A d \in Call : Running(d)' => Running(d)
  PROVE  ClientsKeepInstance'
<1>1. \A c, d \in Call : SameBallot(c, d)' => SameBallot(c, d)
  BY DEF SameBallot
<1> QED
  BY <1>1 DEF ClientsKeepInstance

\* A sent call has no connection and no locks yet, and a client that keeps
\* to an instance sends no vote on the same ballot elsewhere.
LEMMA SendStep ==
  ASSUME IInv, NEW c \in Call, Send(c)
  PROVE  Protocol'
<1> USE DEF IInv, TypeOK, Ask, Value, Outcome, dbVars, Protocol, Goto, Send
<1>1. GuardPassed'
  BY DEF GuardPassed, SelfVote
<1>2. WritesAChange'
  BY DEF WritesAChange
<1>3. LocksExclusive'
  BY DEF LocksExclusive, HoldsVoteRow, HoldsAnswerRow, SameBallot
<1>4. CountersLocked'
  BY DEF CountersLocked, HoldsAnswerRow, Adjusted
<1>5. ConnectionExclusive'
  BY DEF ConnectionExclusive, HasConnection, Running
<1>6. ClientsKeepInstance'
  <2> SUFFICES ASSUME ~RetryElsewhere, NEW d \in Call, NEW e \in Call, d # e,
                      Running(d)', Running(e)', SameBallot(d, e)'
               PROVE  ask'[d].instance = ask'[e].instance
    BY DEF ClientsKeepInstance
  <2>1. UNCHANGED ask /\ SameBallot(d, e) /\ SameBallot(e, d)
    BY DEF SameBallot
  <2>2. \A f \in Call \ {c} : Running(f)' => Running(f)
    BY DEF Running
  <2>3. CASE d = c \/ e = c
    BY <2>1, <2>2, <2>3
  <2>4. CASE d # c /\ e # c
    BY <2>1, <2>2, <2>4 DEF ClientsKeepInstance
  <2> QED
    BY <2>3, <2>4
<1> QED
  BY <1>1, <1>2, <1>3, <1>4, <1>5, <1>6

\* A connection is lent only when no call of the same instance has it.
LEMMA CheckoutStep ==
  ASSUME IInv, NEW c \in Call, Checkout(c)
  PROVE  Protocol'
<1> USE DEF IInv, TypeOK, Ask, Value, Outcome, dbVars, Protocol, Goto, Checkout
<1>1. GuardPassed'
  BY DEF GuardPassed, SelfVote
<1>2. WritesAChange'
  BY DEF WritesAChange
<1>3. LocksExclusive'
  BY DEF LocksExclusive, HoldsVoteRow, HoldsAnswerRow, SameBallot
<1>4. CountersLocked'
  BY DEF CountersLocked, HoldsAnswerRow, Adjusted
<1>5. ConnectionExclusive'
  BY DEF ConnectionExclusive, HasConnection, Running
<1>6. ClientsKeepInstance'
  <2>1. UNCHANGED ask /\ \A d \in Call : Running(d)' => Running(d)
    BY DEF Running
  <2> QED
    BY <2>1, InstanceKept
<1> QED
  BY <1>1, <1>2, <1>3, <1>4, <1>5, <1>6

\* However a call ends, it gives up its locks and its connection and leaves
\* the committed rows alone.
LEMMA FinishStep ==
  ASSUME IInv, NEW c \in Call, NEW o \in Outcome, Finish(c, o), UNCHANGED dbVars
  PROVE  Protocol'
<1> USE DEF IInv, TypeOK, Ask, Value, Outcome, dbVars, Protocol, Goto, Finish
<1>1. GuardPassed'
  BY DEF GuardPassed, SelfVote
<1>2. WritesAChange'
  BY DEF WritesAChange
<1>3. LocksExclusive'
  BY DEF LocksExclusive, HoldsVoteRow, HoldsAnswerRow, SameBallot
<1>4. CountersLocked'
  BY DEF CountersLocked, HoldsAnswerRow, Adjusted
<1>5. ConnectionExclusive'
  BY DEF ConnectionExclusive, HasConnection, Running
<1>6. ClientsKeepInstance'
  <2>1. UNCHANGED ask /\ \A d \in Call : Running(d)' => Running(d)
    BY DEF Running
  <2> QED
    BY <2>1, InstanceKept
<1> QED
  BY <1>1, <1>2, <1>3, <1>4, <1>5, <1>6

\* Passing the guard.
LEMMA GuardStep ==
  ASSUME IInv, NEW c \in Call, GuardSelfVote(c), Goto(c, "select")
  PROVE  Protocol'
<1>0. /\ pc[c] = "guard" /\ ask[c].answer \in answers /\ ~SelfVote(c)
      /\ UNCHANGED <<ask, existing, row>> /\ UNCHANGED dbVars
  BY DEF GuardSelfVote, Goto, Finish, IInv, TypeOK
<1> USE <1>0 DEF IInv, TypeOK, Ask, Value, Outcome, dbVars, Protocol, Goto
<1>1. GuardPassed'
  BY DEF GuardPassed, SelfVote
<1>2. WritesAChange'
  BY DEF WritesAChange
<1>3. LocksExclusive'
  BY DEF LocksExclusive, HoldsVoteRow, HoldsAnswerRow, SameBallot
<1>4. CountersLocked'
  BY DEF CountersLocked, HoldsAnswerRow, Adjusted
<1>5. ConnectionExclusive'
  BY DEF ConnectionExclusive, HasConnection, Running
<1>6. ClientsKeepInstance'
  <2>1. UNCHANGED ask /\ \A d \in Call : Running(d)' => Running(d)
    BY DEF Running
  <2> QED
    BY <2>1, InstanceKept
<1> QED
  BY <1>1, <1>2, <1>3, <1>4, <1>5, <1>6

\* Reading the vote takes no lock.
LEMMA ReadStep ==
  ASSUME IInv, NEW c \in Call, ReadVote(c)
  PROVE  Protocol'
<1> USE DEF IInv, TypeOK, Ask, Value, Outcome, dbVars, Protocol, Goto, ReadVote
<1>1. GuardPassed'
  BY DEF GuardPassed, SelfVote
<1>2. WritesAChange'
  BY DEF WritesAChange
<1>3. LocksExclusive'
  BY DEF LocksExclusive, HoldsVoteRow, HoldsAnswerRow, SameBallot
<1>4. CountersLocked'
  BY DEF CountersLocked, HoldsAnswerRow, Adjusted
<1>5. ConnectionExclusive'
  BY DEF ConnectionExclusive, HasConnection, Running
<1>6. ClientsKeepInstance'
  <2>1. UNCHANGED ask /\ \A d \in Call : Running(d)' => Running(d)
    BY DEF Running
  <2> QED
    BY <2>1, InstanceKept
<1> QED
  BY <1>1, <1>2, <1>3, <1>4, <1>5, <1>6

\* The votes row is taken only when it is free.
LEMMA WriteStep ==
  ASSUME IInv, NEW c \in Call, WriteVote(c)
  PROVE  Protocol'
<1> USE DEF IInv, TypeOK, Ask, Value, Outcome, dbVars, Protocol, Goto, WriteVote
<1>1. GuardPassed'
  BY DEF GuardPassed, SelfVote
<1>2. WritesAChange'
  BY DEF WritesAChange
<1>3. LocksExclusive'
  BY DEF LocksExclusive, HoldsVoteRow, HoldsAnswerRow, SameBallot, VoteRowFree
<1>4. CountersLocked'
  BY DEF CountersLocked, HoldsAnswerRow, Adjusted
<1>5. ConnectionExclusive'
  BY DEF ConnectionExclusive, HasConnection, Running
<1>6. ClientsKeepInstance'
  <2>1. UNCHANGED ask /\ \A d \in Call : Running(d)' => Running(d)
    BY DEF Running
  <2> QED
    BY <2>1, InstanceKept
<1> QED
  BY <1>1, <1>2, <1>3, <1>4, <1>5, <1>6

\* The answers row is taken only when it is free.
LEMMA AdjustStep ==
  ASSUME IInv, NEW c \in Call, AdjustCounters(c)
  PROVE  Protocol'
<1> USE DEF IInv, TypeOK, Ask, Value, Outcome, dbVars, Protocol, Goto, AdjustCounters
<1>1. GuardPassed'
  BY DEF GuardPassed, SelfVote
<1>2. WritesAChange'
  BY DEF WritesAChange
<1>3. LocksExclusive'
  BY DEF LocksExclusive, HoldsVoteRow, HoldsAnswerRow, SameBallot, AnswerRowFree
<1>4. CountersLocked'
  BY DEF CountersLocked, HoldsAnswerRow, Adjusted
<1>5. ConnectionExclusive'
  BY DEF ConnectionExclusive, HasConnection, Running
<1>6. ClientsKeepInstance'
  <2>1. UNCHANGED ask /\ \A d \in Call : Running(d)' => Running(d)
    BY DEF Running
  <2> QED
    BY <2>1, InstanceKept
<1> QED
  BY <1>1, <1>2, <1>3, <1>4, <1>5, <1>6

\* Committing changes one vote and the counters of one answer, which no
\* other transaction can have written.
LEMMA CommitStep ==
  ASSUME IInv, NEW c \in Call, Commit(c)
  PROVE  Protocol'
<1> USE DEF IInv, TypeOK, Ask, Value, Outcome, dbVars, Protocol, Goto, Commit, MakeVisible
<1>1. GuardPassed'
  BY DEF GuardPassed, SelfVote
<1>2. WritesAChange'
  BY DEF WritesAChange
<1>3. LocksExclusive'
  BY DEF LocksExclusive, HoldsVoteRow, HoldsAnswerRow, SameBallot
<1>4. CountersLocked'
  <2> SUFFICES ASSUME NEW d \in Call, HoldsAnswerRow(d)'
               PROVE  row'[d] = Adjusted(d)'
    BY DEF CountersLocked
  <2>1. d # c /\ HoldsAnswerRow(d) /\ HoldsAnswerRow(c)
    BY DEF HoldsAnswerRow
  <2>2. ask[c].answer # ask[d].answer
    BY <2>1 DEF LocksExclusive
  <2>3. /\ up'[ask[d].answer] = up[ask[d].answer]
        /\ down'[ask[d].answer] = down[ask[d].answer]
    BY <2>2
  <2> QED
    BY <2>1, <2>3 DEF CountersLocked, Adjusted
<1>5. ConnectionExclusive'
  BY DEF ConnectionExclusive, HasConnection, Running
<1>6. ClientsKeepInstance'
  <2>1. UNCHANGED ask /\ \A d \in Call : Running(d)' => Running(d)
    BY DEF Running
  <2> QED
    BY <2>1, InstanceKept
<1> QED
  BY <1>1, <1>2, <1>3, <1>4, <1>5, <1>6

\* The same commit, after its handler is gone.
LEMMA LateCommitStep ==
  ASSUME IInv, NEW c \in Call, Settle(c), MakeVisible(c)
  PROVE  Protocol'
<1> USE DEF IInv, TypeOK, Ask, Value, Outcome, dbVars, Protocol, Goto, Settle, MakeVisible, Finish
<1>1. GuardPassed'
  BY DEF GuardPassed, SelfVote
<1>2. WritesAChange'
  BY DEF WritesAChange
<1>3. LocksExclusive'
  BY DEF LocksExclusive, HoldsVoteRow, HoldsAnswerRow, SameBallot
<1>4. CountersLocked'
  <2> SUFFICES ASSUME NEW d \in Call, HoldsAnswerRow(d)'
               PROVE  row'[d] = Adjusted(d)'
    BY DEF CountersLocked
  <2>1. d # c /\ HoldsAnswerRow(d) /\ HoldsAnswerRow(c)
    BY DEF HoldsAnswerRow
  <2>2. ask[c].answer # ask[d].answer
    BY <2>1 DEF LocksExclusive
  <2>3. /\ up'[ask[d].answer] = up[ask[d].answer]
        /\ down'[ask[d].answer] = down[ask[d].answer]
    BY <2>2
  <2> QED
    BY <2>1, <2>3 DEF CountersLocked, Adjusted
<1>5. ConnectionExclusive'
  BY DEF ConnectionExclusive, HasConnection, Running
<1>6. ClientsKeepInstance'
  <2>1. UNCHANGED ask /\ \A d \in Call : Running(d)' => Running(d)
    BY DEF Running
  <2> QED
    BY <2>1, InstanceKept
<1> QED
  BY <1>1, <1>2, <1>3, <1>4, <1>5, <1>6

\* The handler is gone, but its transaction still holds both rows.
LEMMA DropStep ==
  ASSUME IInv, NEW c \in Call, DropInCommit(c)
  PROVE  Protocol'
<1> USE DEF IInv, TypeOK, Ask, Value, Outcome, dbVars, Protocol, Goto, DropInCommit
<1>1. GuardPassed'
  BY DEF GuardPassed, SelfVote
<1>2. WritesAChange'
  BY DEF WritesAChange
<1>3. LocksExclusive'
  BY DEF LocksExclusive, HoldsVoteRow, HoldsAnswerRow, SameBallot
<1>4. CountersLocked'
  BY DEF CountersLocked, HoldsAnswerRow, Adjusted
<1>5. ConnectionExclusive'
  BY DEF ConnectionExclusive, HasConnection, Running
<1>6. ClientsKeepInstance'
  <2>1. UNCHANGED ask /\ \A d \in Call : Running(d)' => Running(d)
    BY DEF Running
  <2> QED
    BY <2>1, InstanceKept
<1> QED
  BY <1>1, <1>2, <1>3, <1>4, <1>5, <1>6

\* Posting an answer disturbs no call.
LEMMA CreateStep ==
  ASSUME IInv, NEW a \in Answer, CreateAnswer(a)
  PROVE  Protocol'
<1> USE DEF IInv, TypeOK, Ask, Value, Outcome, dbVars, Protocol, CreateAnswer
<1>1. GuardPassed'
  BY DEF GuardPassed, SelfVote
<1>2. WritesAChange'
  BY DEF WritesAChange
<1>3. LocksExclusive'
  BY DEF LocksExclusive, HoldsVoteRow, HoldsAnswerRow, SameBallot
<1>4. CountersLocked'
  BY DEF CountersLocked, HoldsAnswerRow, Adjusted
<1>5. ConnectionExclusive'
  BY DEF ConnectionExclusive, HasConnection, Running
<1>6. ClientsKeepInstance'
  <2>1. UNCHANGED ask /\ \A d \in Call : Running(d)' => Running(d)
    BY DEF Running
  <2> QED
    BY <2>1, InstanceKept
<1> QED
  BY <1>1, <1>2, <1>3, <1>4, <1>5, <1>6

\* Nothing changes.
LEMMA StutterStep ==
  ASSUME IInv, UNCHANGED vars
  PROVE  Protocol'
<1> USE DEF IInv, TypeOK, Ask, Value, Outcome, dbVars, Protocol, vars
<1>1. GuardPassed'
  BY DEF GuardPassed, SelfVote
<1>2. WritesAChange'
  BY DEF WritesAChange
<1>3. LocksExclusive'
  BY DEF LocksExclusive, HoldsVoteRow, HoldsAnswerRow, SameBallot
<1>4. CountersLocked'
  BY DEF CountersLocked, HoldsAnswerRow, Adjusted
<1>5. ConnectionExclusive'
  BY DEF ConnectionExclusive, HasConnection, Running
<1>6. ClientsKeepInstance'
  <2>1. UNCHANGED ask /\ \A d \in Call : Running(d)' => Running(d)
    BY DEF Running
  <2> QED
    BY <2>1, InstanceKept
<1> QED
  BY <1>1, <1>2, <1>3, <1>4, <1>5, <1>6

\* IInv is inductive.
LEMMA ProtocolStep ==
  ASSUME IInv, [Next]_vars
  PROVE  IInv'
<1>1. TypeOK'
  BY TypeStep DEF IInv
<1>2. ASSUME NEW c \in Call, GuardSelfVote(c) PROVE Protocol'
  BY <1>2, FinishStep, GuardStep DEF GuardSelfVote, Outcome
<1>3. ASSUME NEW c \in Call,
             CheckoutTimeout(c) \/ Reply(c) \/ Rollback(c) \/ LoseReply(c)
      PROVE  Protocol'
  BY <1>3, FinishStep DEF CheckoutTimeout, Reply, Rollback, LoseReply, Outcome
<1>5. ASSUME NEW c \in Call, Settle(c) PROVE Protocol'
  BY <1>5, LateCommitStep, FinishStep DEF Settle, Outcome
<1>4. Protocol'
  BY <1>2, <1>3, <1>5, DropStep, SendStep, CheckoutStep, ReadStep, WriteStep, AdjustStep,
     CommitStep, CreateStep, StutterStep DEF Next, Serve
<1> QED
  BY <1>1, <1>4 DEF IInv

\* Row locks, connections and the guard protect the vote transaction in
\* every reachable state.
THEOREM ProtocolHolds == Spec => []IInv
<1>1. Init => IInv
  BY TypeInit DEF Init, IInv, Protocol, GuardPassed, WritesAChange, LocksExclusive,
     HoldsVoteRow, HoldsAnswerRow, CountersLocked, ConnectionExclusive,
     HasConnection, ClientsKeepInstance, Running
<1>2. IInv /\ [Next]_vars => IInv'
  BY ProtocolStep
<1> QED
  BY <1>1, <1>2, PTL DEF Spec

-----------------------------------------------------------------------------
(***************************************************************************)
(* Counting ballots.                                                       *)
(***************************************************************************)

\* The ledger counts with the same operator.
LEMMA LedgerCardinality ==
  ASSUME NEW S
  PROVE  Ledger!Cardinality(S) = Cardinality(S)
BY DEF Ledger!Cardinality, Cardinality

\* Setting one ballot to v adds one to the tally of v and takes one from
\* the tally of -v exactly when that was the ballot.
LEMMA CastTally ==
  ASSUME NEW f \in [User -> {-1, 0, 1}], NEW u \in User, NEW v \in Value,
         f[u] # v
  PROVE  LET g == [f EXCEPT ![u] = v]
             N(h, w) == Cardinality(Ledger!Voters(h, w))
         IN  /\ N(f, v) \in Nat /\ N(f, -v) \in Nat
             /\ N(g, v) = N(f, v) + 1
             /\ f[u] = 0 => N(g, -v) = N(f, -v)
             /\ f[u] # 0 => N(g, -v) = N(f, -v) - 1
<1> DEFINE g == [f EXCEPT ![u] = v]
           S(h, w) == Ledger!Voters(h, w)
<1>1. \A h, w : IsFiniteSet(S(h, w)) /\ Cardinality(S(h, w)) \in Nat
  <2> SUFFICES ASSUME NEW h, NEW w
               PROVE  IsFiniteSet(S(h, w)) /\ Cardinality(S(h, w)) \in Nat
    OBVIOUS
  <2>1. S(h, w) \in SUBSET User
    BY DEF Ledger!Voters
  <2> QED
    BY <2>1, FS_Subset, FS_CardinalityType, UserAssumption
<1>2. u \notin S(f, v) /\ S(g, v) = S(f, v) \union {u}
  BY DEF Ledger!Voters, Value
<1>3. Cardinality(S(g, v)) = Cardinality(S(f, v)) + 1
  BY <1>1, <1>2, FS_AddElement
<1>4. CASE f[u] = 0
  <2>1. S(g, -v) = S(f, -v)
    BY <1>4 DEF Ledger!Voters, Value
  <2> QED
    BY <1>1, <1>3, <1>4, <2>1
<1>5. CASE f[u] # 0
  <2>1. u \in S(f, -v) /\ S(g, -v) = S(f, -v) \ {u}
    BY <1>5 DEF Ledger!Voters, Value
  <2>2. Cardinality(S(g, -v)) = Cardinality(S(f, -v)) - 1
    BY <1>1, <2>1, FS_RemoveElement
  <2> QED
    BY <1>1, <1>3, <1>5, <2>2
<1> QED
  BY <1>4, <1>5

\* Setting one ballot makes the set of voters grow by one when the user had
\* not voted, and leaves it alone otherwise.
LEMMA CastVoters ==
  ASSUME NEW f \in [User -> {-1, 0, 1}], NEW u \in User, NEW v \in Value
  PROVE  LET g == [f EXCEPT ![u] = v]
             N(h) == Cardinality(Voted(h))
         IN  /\ N(f) \in Nat /\ N(g) \in Nat
             /\ N(g) <= N(f) + 1
             /\ f[u] # 0 => N(g) = N(f)
<1> DEFINE g == [f EXCEPT ![u] = v]
           S(h) == Voted(h)
<1>1. /\ IsFiniteSet(S(f)) /\ Cardinality(S(f)) \in Nat
      /\ IsFiniteSet(S(g)) /\ Cardinality(S(g)) \in Nat
  <2>1. S(f) \in SUBSET User /\ S(g) \in SUBSET User
    BY DEF Voted
  <2> QED
    BY <2>1, FS_Subset, FS_CardinalityType, UserAssumption
<1>2. S(g) = S(f) \union {u}
  BY DEF Value, Voted
<1>3. CASE f[u] = 0
  <2>1. u \notin S(f)
    BY <1>3 DEF Voted
  <2>2. Cardinality(S(g)) = Cardinality(S(f)) + 1
    BY <1>1, <1>2, <2>1, FS_AddElement
  <2> QED
    BY <1>1, <1>3, <2>2
<1>4. CASE f[u] # 0
  <2>1. S(g) = S(f)
    BY <1>2, <1>4 DEF Voted
  <2> QED
    BY <1>1, <1>4, <2>1
<1> QED
  BY <1>3, <1>4

\* Before anybody votes every tally is zero.
LEMMA NoVotesNoTally ==
  ASSUME Init, NEW a \in Answer
  PROVE  /\ \A v \in Value : Cardinality(Ledger!Voters(votes[a], v)) = 0
         /\ Cardinality(Voted(votes[a])) = 0
<1>1. \A v \in Value : Ledger!Voters(votes[a], v) = {}
  BY DEF Init, Ledger!Voters, Value
<1>2. Voted(votes[a]) = {}
  BY DEF Init, Voted
<1> QED
  BY <1>1, <1>2, FS_EmptySet

-----------------------------------------------------------------------------
(***************************************************************************)
(* The theorems.                                                           *)
(***************************************************************************)

\* The COMMIT of c takes effect, whether its handler is there or not.
Lands(c) ==
  /\ HoldsAnswerRow(c)
  /\ MakeVisible(c)
  /\ pc' \in {[pc EXCEPT ![c] = "reply"], [pc EXCEPT ![c] = "error"]}
  /\ UNCHANGED ask
  /\ existing' \in {existing, [existing EXCEPT ![c] = 0]}

\* A call that will not change anything any more.
Ended(c) == pc[c] \in {"reply"} \union Outcome

\* The committed rows change only when an answer is posted or a transaction
\* commits.
LEMMA OnlyCommitVotes ==
  ASSUME [Next]_vars
  PROVE  \/ UNCHANGED dbVars
         \/ \E a \in Answer : CreateAnswer(a)
         \/ \E c \in Call : Lands(c)
BY DEF Next, Serve, Send, Checkout, CheckoutTimeout, GuardSelfVote, ReadVote,
       WriteVote, AdjustCounters, Reply, Rollback, LoseReply, vars, dbVars,
       Commit, DropInCommit, Settle, Lands, HoldsAnswerRow, Goto, Finish

\* No call changes what it asks for, is taken back or starts again.
LEMMA CallsGoOn ==
  ASSUME TypeOK, [Next]_vars
  PROVE  /\ ask' = ask
         /\ \A c \in Call : /\ pc[c] # "idle" => pc'[c] # "idle"
                            /\ Ended(c) => Ended(c)'
<1> USE DEF TypeOK, Goto, Finish, Ended, Outcome
<1>1. ASSUME NEW c \in Call, Serve(c)
      PROVE  /\ ask' = ask
             /\ \A d \in Call : /\ pc[d] # "idle" => pc'[d] # "idle"
                                /\ Ended(d) => Ended(d)'
  BY <1>1 DEF Serve, Checkout, GuardSelfVote, ReadVote, WriteVote, AdjustCounters,
     Commit, Reply, Settle
<1>2. ASSUME NEW c \in Call,
             \/ Send(c) \/ CheckoutTimeout(c) \/ Rollback(c)
             \/ DropInCommit(c) \/ LoseReply(c)
      PROVE  /\ ask' = ask
             /\ \A d \in Call : /\ pc[d] # "idle" => pc'[d] # "idle"
                                /\ Ended(d) => Ended(d)'
  BY <1>2 DEF Send, CheckoutTimeout, Rollback, DropInCommit, LoseReply
<1> QED
  BY <1>1, <1>2 DEF Next, CreateAnswer, vars

\* Whatever votes race, the two counters written by vote() together never count
\* fewer votes than there are users with a vote row.
THEOREM CountersCover == Spec => []CountersCoverVotes
<1>1. Init => CountersCoverVotes
  BY NoVotesNoTally DEF Init, CountersCoverVotes
<1>2. IInv /\ CountersCoverVotes /\ [Next]_vars => CountersCoverVotes'
  <2> SUFFICES ASSUME IInv, CountersCoverVotes, [Next]_vars
               PROVE  CountersCoverVotes'
    OBVIOUS
  <2>1. CASE UNCHANGED dbVars
    BY <2>1 DEF dbVars, CountersCoverVotes
  <2>2. ASSUME NEW a \in Answer, CreateAnswer(a) PROVE CountersCoverVotes'
    BY <2>2 DEF CreateAnswer, CountersCoverVotes
  <2>3. ASSUME NEW c \in Call, Lands(c), NEW b \in Answer
        PROVE  up'[b] + down'[b] >= Cardinality(Voted(votes'[b]))
    <3> DEFINE a == ask[c].answer
               u == ask[c].user
               v == ask[c].value
    <3>1. /\ a \in Answer /\ u \in User /\ v \in Value
          /\ votes[a] \in [User -> {-1, 0, 1}]
          /\ up[a] \in Int /\ down[a] \in Int
          /\ existing[c] \in {-1, 0, 1}
      BY DEF IInv, TypeOK, Ask
    <3>2. CASE b # a
      BY <2>3, <3>2 DEF Lands, MakeVisible, HoldsAnswerRow, CountersCoverVotes, IInv, TypeOK
    <3>3. CASE b = a
      <4>1. votes'[a] = [votes[a] EXCEPT ![u] = v]
        BY <2>3, <3>1 DEF Lands, MakeVisible, HoldsAnswerRow, IInv, TypeOK
      <4>2. up'[a] = Adjusted(c).up /\ down'[a] = Adjusted(c).down
        BY <2>3, <3>1 DEF Lands, MakeVisible, HoldsAnswerRow, IInv, TypeOK, Protocol, CountersLocked
      <4>3. existing[c] # 0 => votes[a][u] # 0
        BY <2>3 DEF Lands, MakeVisible, HoldsAnswerRow, IInv, Protocol, WritesAChange
      <4>4. up[a] + down[a] >= Cardinality(Voted(votes[a]))
        BY <3>1 DEF CountersCoverVotes
      <4>5. up'[a] + down'[a] = up[a] + down[a] + (IF existing[c] # 0 THEN 0 ELSE 1)
        BY <3>1, <4>2 DEF Adjusted, Value
      <4> HIDE DEF a, u, v
      <4> QED
        BY <3>1, <3>3, <4>1, <4>3, <4>4, <4>5, CastVoters
    <3> QED
      BY <3>2, <3>3
  <2> QED
    BY <2>1, <2>2, <2>3, OnlyCommitVotes DEF CountersCoverVotes
<1> QED
  BY <1>1, <1>2, ProtocolHolds, PTL DEF Spec

-----------------------------------------------------------------------------
(***************************************************************************)
(* One column: what it loses is paid for by calls that were made again.    *)
(***************************************************************************)
\* A flip found the opposite vote, and that is still there unless the user has
\* made the same call again.
FlipsAreFresh ==
  \A c \in Call :
    /\ pc[c] \in {"write", "count", "commit", "in_doubt"}
    /\ existing[c] # 0
    /\ c \notin Repeats(ask[c].answer, ask[c].value)
    => votes[ask[c].answer][ask[c].user] = existing[c]

\* The repeated calls that have ended.
Paid(a, v) == {c \in Repeats(a, v) : Ended(c)}

ColumnsCovered ==
  \A a \in Answer, v \in Value :
    Column(a, v) + Cardinality(Paid(a, -v)) >= Cardinality(Ledger!Voters(votes[a], v))

ColumnInv == FlipsAreFresh /\ ColumnsCovered

\* A call once repeated stays repeated, and once paid for, paid for.
LEMMA RepeatsGrow ==
  ASSUME TypeOK, [Next]_vars, NEW a, NEW v
  PROVE  /\ Repeats(a, v) \subseteq Repeats(a, v)'
         /\ Paid(a, v) \subseteq Paid(a, v)'
<1>1. /\ ask' = ask
      /\ \A c \in Call : (pc[c] # "idle" => pc'[c] # "idle") /\ (Ended(c) => Ended(c)')
  BY CallsGoOn
<1>2. Repeats(a, v) \subseteq Repeats(a, v)'
  BY <1>1 DEF Repeats, SameBallot
<1>3. ASSUME NEW c \in Paid(a, v) PROVE c \in Paid(a, v)'
  <2>1. c \in Call /\ c \in Repeats(a, v) /\ Ended(c)
    BY DEF Paid, Repeats
  <2>2. c \in Repeats(a, v)' /\ Ended(c)'
    BY <1>1, <1>2, <2>1
  <2> QED
    BY <2>2 DEF Paid
<1> QED
  BY <1>2, <1>3

LEMMA PaidCounts ==
  ASSUME TypeOK, [Next]_vars, NEW a, NEW v
  PROVE  /\ Cardinality(Paid(a, v)) \in Nat /\ Cardinality(Paid(a, v)') \in Nat
         /\ Cardinality(Paid(a, v)) <= Cardinality(Paid(a, v)')
         /\ \A c \in Paid(a, v)' \ Paid(a, v) :
              Cardinality(Paid(a, v)) + 1 <= Cardinality(Paid(a, v)')
<1>1. Paid(a, v) \subseteq Paid(a, v)' /\ Paid(a, v)' \subseteq Call
  BY RepeatsGrow DEF Paid, Repeats
<1>2. IsFiniteSet(Paid(a, v)) /\ IsFiniteSet(Paid(a, v)')
  BY <1>1, CallAssumption, FS_Subset
<1>3. ASSUME NEW c \in Paid(a, v)' \ Paid(a, v)
      PROVE  Cardinality(Paid(a, v)) + 1 <= Cardinality(Paid(a, v)')
  <2>1. Cardinality(Paid(a, v) \union {c}) = Cardinality(Paid(a, v)) + 1
    BY <1>2, <1>3, FS_AddElement
  <2>2. Paid(a, v) \union {c} \subseteq Paid(a, v)'
    BY <1>1, <1>3
  <2> QED
    BY <1>2, <2>1, <2>2, FS_Subset
<1> QED
  BY <1>1, <1>2, <1>3, FS_Subset, FS_CardinalityType

\* However the ballot stood, one vote for v adds at most one to the tally of v
\* and nothing to that of -v, from which it takes one if it was there.
LEMMA CastBounds ==
  ASSUME NEW f \in [User -> {-1, 0, 1}], NEW u \in User, NEW v \in Value
  PROVE  LET g == [f EXCEPT ![u] = v]
             N(h, w) == Cardinality(Ledger!Voters(h, w))
         IN  /\ \A w \in Value : N(f, w) \in Nat /\ N(g, w) \in Nat
             /\ N(g, v) <= N(f, v) + 1
             /\ N(g, -v) <= N(f, -v)
             /\ f[u] = -v => N(g, -v) = N(f, -v) - 1
<1> DEFINE g == [f EXCEPT ![u] = v]
           N(h, w) == Cardinality(Ledger!Voters(h, w))
<1>1. \A h, w : N(h, w) \in Nat
  <2> SUFFICES ASSUME NEW h, NEW w PROVE N(h, w) \in Nat
    OBVIOUS
  <2>1. Ledger!Voters(h, w) \in SUBSET User
    BY DEF Ledger!Voters
  <2> QED
    BY <2>1, FS_Subset, FS_CardinalityType, UserAssumption
<1>2. \A w \in Value : N(f, w) \in Nat /\ N(g, w) \in Nat
  BY <1>1
<1>3. /\ N(g, v) <= N(f, v) + 1
      /\ N(g, -v) <= N(f, -v)
      /\ f[u] = -v => N(g, -v) = N(f, -v) - 1
  <2>1. /\ N(f, v) \in Nat /\ N(g, v) \in Nat
        /\ N(f, -v) \in Nat /\ N(g, -v) \in Nat
    BY <1>1
  <2>2. CASE f[u] = v
    <3>1. g = f /\ f[u] # -v
      BY <2>2 DEF Value
    <3> HIDE DEF g, N
    <3> QED
      BY <2>1, <3>1
  <2>3. CASE f[u] # v
    <3>1. /\ N(g, v) = N(f, v) + 1
          /\ f[u] = 0 => N(g, -v) = N(f, -v)
          /\ f[u] # 0 => N(g, -v) = N(f, -v) - 1
      BY <2>3, CastTally
    <3>2. f[u] = 0 \/ f[u] # 0
      OBVIOUS
    <3>3. f[u] = -v => f[u] # 0
      BY DEF Value
    <3> HIDE DEF g, N
    <3> QED
      BY <2>1, <3>1, <3>2, <3>3
  <2> QED
    BY <2>2, <2>3
<1> QED
  BY <1>2, <1>3

LEMMA FlipsAreFreshStep ==
  ASSUME IInv, FlipsAreFresh, [Next]_vars
  PROVE  FlipsAreFresh'
<1> SUFFICES ASSUME NEW d \in Call,
                    pc'[d] \in {"write", "count", "commit", "in_doubt"}, existing'[d] # 0,
                    d \notin Repeats(ask[d].answer, ask[d].value)'
             PROVE  votes'[ask'[d].answer][ask'[d].user] = existing'[d]
  BY DEF FlipsAreFresh
<1> USE DEF IInv, TypeOK
<1>1. ask' = ask
  BY CallsGoOn
<1>2. d \notin Repeats(ask[d].answer, ask[d].value)
  <2>1. PICK a, v : a = ask[d].answer /\ v = ask[d].value
    OBVIOUS
  <2>2. d \notin Repeats(a, v)'
    BY <1>1, <2>1 DEF Repeats
  <2> QED
    BY <2>1, <2>2, RepeatsGrow
<1>3. ASSUME NEW c \in Call, Lands(c)
      PROVE  votes'[ask[d].answer][ask[d].user] = existing'[d]
  <2>1. /\ c # d /\ pc'[d] = pc[d] /\ existing'[d] = existing[d]
        /\ pc'[c] # "idle" /\ pc'[d] # "idle"
    BY <1>3 DEF Lands, HoldsAnswerRow
  <2>2. votes[ask[d].answer][ask[d].user] = existing[d]
    BY <1>2, <2>1 DEF FlipsAreFresh
  <2>3. CASE ~SameBallot(c, d)
    BY <1>3, <2>1, <2>2, <2>3 DEF Lands, MakeVisible, SameBallot, Ask
  <2>4. CASE SameBallot(c, d)
    <3>1. ask[c].value # ask[d].value
      <4>1. pc'[c] # "idle" /\ pc'[d] # "idle" /\ SameBallot(d, c)'
        BY <1>1, <2>1, <2>4 DEF SameBallot
      <4> QED
        BY <1>1, <2>1, <4>1 DEF Repeats
    <3>2. existing[d] # ask[d].value
      BY <2>1 DEF Protocol, WritesAChange
    <3>3. existing[d] = ask[c].value
      BY <2>1, <3>1, <3>2 DEF Ask, Value
    <3>4. votes'[ask[d].answer][ask[d].user] = ask[c].value
      BY <1>3, <2>4 DEF Lands, MakeVisible, SameBallot, Ask
    <3> QED
      BY <2>1, <3>3, <3>4
  <2> QED
    BY <2>3, <2>4
<1>4. ASSUME NEW c \in Call, ReadVote(c)
      PROVE  votes'[ask[d].answer][ask[d].user] = existing'[d]
  BY <1>2, <1>4 DEF ReadVote, Goto, dbVars, FlipsAreFresh
<1>5. ASSUME votes' = votes, existing'[d] = existing[d],
             pc[d] \in {"write", "count", "commit", "in_doubt"}
      PROVE  votes'[ask[d].answer][ask[d].user] = existing'[d]
  BY <1>2, <1>5 DEF FlipsAreFresh
<1>6. \/ \E c \in Call : Lands(c) \/ ReadVote(c)
      \/ /\ votes' = votes /\ existing'[d] = existing[d]
         /\ pc[d] \in {"write", "count", "commit", "in_doubt"}
  <2>1. ASSUME NEW c \in Call, Finish(c, "ok") \/ Finish(c, "error"), UNCHANGED dbVars
        PROVE  /\ votes' = votes /\ existing'[d] = existing[d]
               /\ pc[d] \in {"write", "count", "commit", "in_doubt"}
    BY <2>1 DEF Finish, Goto, dbVars
  <2>2. ASSUME NEW c \in Call, GuardSelfVote(c)
        PROVE  /\ votes' = votes /\ existing'[d] = existing[d]
               /\ pc[d] \in {"write", "count", "commit", "in_doubt"}
    BY <2>2 DEF GuardSelfVote, Finish, Goto, dbVars
  <2>3. ASSUME NEW c \in Call,
               \/ Send(c) \/ Checkout(c) \/ WriteVote(c) \/ AdjustCounters(c)
               \/ DropInCommit(c)
        PROVE  /\ votes' = votes /\ existing'[d] = existing[d]
               /\ pc[d] \in {"write", "count", "commit", "in_doubt"}
    BY <2>3 DEF Send, Checkout, WriteVote, AdjustCounters, DropInCommit, Goto, dbVars
  <2>4. ASSUME NEW c \in Call, Settle(c) PROVE Lands(c) \/ (Finish(c, "error") /\ UNCHANGED dbVars)
    BY <2>4 DEF Settle, Lands, HoldsAnswerRow, Finish, Goto
  <2>5. ASSUME NEW c \in Call, Commit(c) PROVE Lands(c)
    BY <2>5 DEF Commit, Lands, HoldsAnswerRow, Goto
  <2>6. ASSUME NEW c \in Call,
               CheckoutTimeout(c) \/ Reply(c) \/ Rollback(c) \/ LoseReply(c)
        PROVE  (Finish(c, "ok") \/ Finish(c, "error")) /\ UNCHANGED dbVars
    BY <2>6 DEF CheckoutTimeout, Reply, Rollback, LoseReply
  <2>7. CASE UNCHANGED vars \/ \E a \in Answer : CreateAnswer(a)
    BY <2>7 DEF vars, CreateAnswer
  <2> QED
    BY <2>1, <2>2, <2>3, <2>4, <2>5, <2>6, <2>7 DEF Next, Serve
<1> QED
  BY <1>1, <1>3, <1>4, <1>5, <1>6

\* A commit adds one to the column of its vote; what it takes from the other
\* was there, or the call is a repeated one that has now been paid for.
LEMMA LandingIsCovered ==
  ASSUME IInv, FlipsAreFresh, ColumnsCovered, [Next]_vars, NEW c \in Call, Lands(c),
         NEW a \in Answer, NEW u \in User, NEW v \in Value,
         ask[c].answer = a, ask[c].user = u, ask[c].value = v
  PROVE  \A w \in Value :
           Column(a, w)' + Cardinality(Paid(a, -w)')
             >= Cardinality(Ledger!Voters(votes'[a], w))
<1> DEFINE N(h, w) == Cardinality(Ledger!Voters(h, w))
           P(w) == Cardinality(Paid(a, w))
           Q(w) == Cardinality(Paid(a, w)')
<1>1. /\ votes[a] \in [User -> {-1, 0, 1}]
      /\ up[a] \in Int /\ down[a] \in Int /\ existing[c] \in {-1, 0, 1}
  BY DEF IInv, TypeOK, Ask
<1>2. votes'[a] = [votes[a] EXCEPT ![u] = v]
  BY <1>1 DEF Lands, MakeVisible, IInv, TypeOK
<1>3. up'[a] = Adjusted(c).up /\ down'[a] = Adjusted(c).down
  BY <1>1 DEF Lands, MakeVisible, IInv, TypeOK, Protocol, CountersLocked
<1>4. /\ Column(a, v)' = Column(a, v) + 1
      /\ Column(a, -v)' = Column(a, -v) - (IF existing[c] # 0 THEN 1 ELSE 0)
      /\ Column(a, v) \in Int /\ Column(a, -v) \in Int
  BY <1>1, <1>3 DEF Adjusted, Column, Value
<1>5. \A w : P(w) \in Nat /\ Q(w) \in Nat /\ P(w) <= Q(w)
  BY PaidCounts DEF IInv
<1>6. /\ N(votes'[a], v) <= N(votes[a], v) + 1
      /\ N(votes'[a], -v) <= N(votes[a], -v)
      /\ votes[a][u] = -v => N(votes'[a], -v) = N(votes[a], -v) - 1
      /\ \A w \in Value : N(votes[a], w) \in Nat /\ N(votes'[a], w) \in Nat
  BY <1>1, <1>2, CastBounds
<1>7. /\ Column(a, v) + P(-v) >= N(votes[a], v)
      /\ Column(a, -v) + P(v) >= N(votes[a], -v)
  BY <1>1 DEF ColumnsCovered, Value
<1>8. existing[c] # 0 => votes[a][u] = -v \/ P(v) + 1 <= Q(v)
  <2> SUFFICES ASSUME existing[c] # 0, votes[a][u] # -v
               PROVE  P(v) + 1 <= Q(v)
    OBVIOUS
  <2>1. existing[c] = -v
    BY <1>1 DEF Lands, HoldsAnswerRow, IInv, Protocol, WritesAChange, Value
  <2>2. c \in Repeats(a, v)
    BY <2>1 DEF Lands, HoldsAnswerRow, FlipsAreFresh
  <2>3. c \in Paid(a, v)' \ Paid(a, v)
    <3>1. c \in Repeats(a, v)'
      BY <2>2, RepeatsGrow DEF IInv
    <3>2. ~Ended(c) /\ Ended(c)'
      BY DEF Lands, HoldsAnswerRow, Ended, Outcome, IInv, TypeOK
    <3> QED
      BY <3>1, <3>2 DEF Paid
  <2> QED
    BY <2>3, PaidCounts DEF IInv
<1> HIDE DEF N, P, Q
<1>9. Column(a, v)' + Q(-v) >= N(votes'[a], v)
  BY <1>1, <1>4, <1>5, <1>6, <1>7 DEF Value
<1>10. Column(a, -v)' + Q(v) >= N(votes'[a], -v)
  <2>1. -v \in Value
    BY <1>1 DEF Value
  <2> QED
    BY <1>1, <1>4, <1>5, <1>6, <1>7, <1>8, <2>1
<1>11. \A w \in Value : (w = v \/ w = -v) /\ -(-v) = v
  BY <1>1 DEF Value
<1>12. \A w \in Value : Column(a, w)' + Q(-w) >= N(votes'[a], w)
  BY <1>9, <1>10, <1>11
<1> QED
  BY <1>12 DEF N, Q

LEMMA ColumnsCoveredStep ==
  ASSUME IInv, ColumnInv, [Next]_vars
  PROVE  ColumnsCovered'
<1> SUFFICES ASSUME NEW a \in Answer, NEW v \in Value
             PROVE  Column(a, v)' + Cardinality(Paid(a, -v)')
                      >= Cardinality(Ledger!Voters(votes'[a], v))
  BY DEF ColumnsCovered
<1>1. /\ Cardinality(Paid(a, -v)) <= Cardinality(Paid(a, -v)')
      /\ Cardinality(Paid(a, -v)) \in Nat /\ Cardinality(Paid(a, -v)') \in Nat
  BY PaidCounts DEF IInv
<1>2. Column(a, v) + Cardinality(Paid(a, -v)) >= Cardinality(Ledger!Voters(votes[a], v))
  BY DEF ColumnInv, ColumnsCovered
<1>3. Column(a, v) \in Int /\ Cardinality(Ledger!Voters(votes[a], v)) \in Nat
  <2>1. Ledger!Voters(votes[a], v) \in SUBSET User
    BY DEF Ledger!Voters
  <2> QED
    BY <2>1, FS_Subset, FS_CardinalityType, UserAssumption DEF IInv, TypeOK, Column
<1>4. CASE votes'[a] = votes[a] /\ up'[a] = up[a] /\ down'[a] = down[a]
  <2>1. Column(a, v)' = Column(a, v)
    BY <1>4 DEF Column
  <2> QED
    BY <1>1, <1>2, <1>3, <1>4, <2>1
<1>5. CASE UNCHANGED dbVars \/ \E b \in Answer : CreateAnswer(b)
  BY <1>4, <1>5 DEF dbVars, CreateAnswer
<1>6. ASSUME NEW c \in Call, Lands(c)
      PROVE  Column(a, v)' + Cardinality(Paid(a, -v)')
               >= Cardinality(Ledger!Voters(votes'[a], v))
  <2>1. CASE a = ask[c].answer
    <3>1. /\ ask[c].user \in User /\ ask[c].value \in Value
      BY DEF IInv, TypeOK, Ask
    <3> QED
      BY <1>6, <2>1, <3>1, LandingIsCovered DEF ColumnInv
  <2>2. CASE a # ask[c].answer
    BY <1>4, <1>6, <2>2 DEF Lands, MakeVisible, IInv, TypeOK
  <2> QED
    BY <2>1, <2>2
<1> QED
  BY <1>5, <1>6, OnlyCommitVotes

\* OnlyRepeatedFlipsLoseVotes: a column is short of its votes by no more than
\* the calls for the opposite that some user has made more than once, for any
\* number of users, answers, calls and API instances.
THEOREM ColumnsKeepTheirVotes == Spec => []OnlyRepeatedFlipsLoseVotes
<1>1. Init => ColumnInv
  <2> SUFFICES ASSUME Init PROVE ColumnInv
    OBVIOUS
  <2>1. FlipsAreFresh
    BY DEF Init, FlipsAreFresh
  <2>2. ASSUME NEW a \in Answer, NEW v \in Value
        PROVE  Column(a, v) + Cardinality(Paid(a, -v)) >= Cardinality(Ledger!Voters(votes[a], v))
    <3>1. Paid(a, -v) = {} /\ Column(a, v) = 0
      BY <2>2 DEF Init, Paid, Repeats, Column
    <3> QED
      BY <2>2, <3>1, NoVotesNoTally, FS_EmptySet
  <2> QED
    BY <2>1, <2>2 DEF ColumnInv, ColumnsCovered
<1>2. IInv /\ ColumnInv /\ [Next]_vars => ColumnInv'
  BY FlipsAreFreshStep, ColumnsCoveredStep DEF ColumnInv
<1>3. IInv /\ ColumnInv => OnlyRepeatedFlipsLoseVotes
  <2> SUFFICES ASSUME IInv, ColumnInv, NEW a \in Answer, NEW v \in Value
               PROVE  Column(a, v) + Cardinality(Repeats(a, -v))
                        >= Cardinality(Ledger!Voters(votes[a], v))
    BY DEF OnlyRepeatedFlipsLoseVotes
  <2>1. Paid(a, -v) \subseteq Repeats(a, -v) /\ Repeats(a, -v) \subseteq Call
    BY DEF Paid, Repeats
  <2>2. /\ Cardinality(Paid(a, -v)) <= Cardinality(Repeats(a, -v))
        /\ Cardinality(Paid(a, -v)) \in Nat /\ Cardinality(Repeats(a, -v)) \in Nat
    BY <2>1, CallAssumption, FS_Subset, FS_CardinalityType
  <2>3. Ledger!Voters(votes[a], v) \in SUBSET User
    BY DEF Ledger!Voters
  <2>4. Column(a, v) \in Int /\ Cardinality(Ledger!Voters(votes[a], v)) \in Nat
    BY <2>3, FS_Subset, FS_CardinalityType, UserAssumption DEF IInv, TypeOK, Column
  <2> QED
    BY <2>2, <2>4 DEF ColumnInv, ColumnsCovered
<1> QED
  BY <1>1, <1>2, <1>3, ProtocolHolds, PTL DEF Spec

\* A vote that is committed, answered or not, stands while nobody asks for
\* the opposite.
Unopposed(c) == \A d \in Call : SameBallot(c, d) => ask[d].value = ask[c].value

CommittedVoteStands ==
  \A c \in Call : pc[c] \in {"reply", "ok"} /\ Unopposed(c) =>
    votes[ask[c].answer][ask[c].user] = ask[c].value

\* A vote answered with success is in the table and stays there, whatever
\* other calls race with it, are retried or fail, unless the same user asks
\* for the opposite vote.
THEOREM AcknowledgedVotesStand == Spec => []AcknowledgedVoteStands
<1>1. Init => CommittedVoteStands
  BY DEF Init, CommittedVoteStands
<1>2. IInv /\ CommittedVoteStands /\ [Next]_vars => CommittedVoteStands'
  <2> SUFFICES ASSUME IInv, CommittedVoteStands, [Next]_vars,
                      NEW c \in Call, pc'[c] \in {"reply", "ok"}, Unopposed(c)'
               PROVE  votes'[ask'[c].answer][ask'[c].user] = ask'[c].value
    BY DEF CommittedVoteStands
  <2> USE DEF IInv, TypeOK
  <2>1. ask' = ask
    BY CallsGoOn
  <2>2. Unopposed(c)
    BY <2>1 DEF Unopposed, SameBallot
  <2>3. ASSUME NEW d \in Call, Lands(d)
        PROVE  votes'[ask[c].answer][ask[c].user] = ask[c].value
    <3>1. CASE SameBallot(c, d)
      BY <2>2, <2>3, <3>1 DEF Lands, MakeVisible, HoldsAnswerRow, SameBallot, Unopposed, Ask
    <3>2. CASE ~SameBallot(c, d)
      <4>1. pc[c] \in {"reply", "ok"}
        BY <2>3, <3>2 DEF Lands, MakeVisible, HoldsAnswerRow, Goto, SameBallot
      <4>2. votes'[ask[c].answer][ask[c].user] = votes[ask[c].answer][ask[c].user]
        BY <2>3, <3>2 DEF Lands, MakeVisible, HoldsAnswerRow, SameBallot, Ask
      <4> QED
        BY <2>2, <4>1, <4>2 DEF CommittedVoteStands
    <3> QED
      BY <3>1, <3>2
  <2>4. ASSUME NEW d \in Call, ReadVote(d)
        PROVE  votes'[ask[c].answer][ask[c].user] = ask[c].value
    BY <2>2, <2>4 DEF ReadVote, Goto, dbVars, CommittedVoteStands
  <2>5. ASSUME pc[c] \in {"reply", "ok"}, votes' = votes
        PROVE  votes'[ask[c].answer][ask[c].user] = ask[c].value
    BY <2>2, <2>5 DEF CommittedVoteStands
  <2>6. \/ \E d \in Call : Lands(d) \/ ReadVote(d)
        \/ pc[c] \in {"reply", "ok"} /\ votes' = votes
    BY DEF Next, Serve, CreateAnswer, Send, Checkout, CheckoutTimeout,
           GuardSelfVote, WriteVote, AdjustCounters, Reply, Rollback,
           LoseReply, Finish, Goto, dbVars, vars, Commit, DropInCommit, Settle,
           Lands, HoldsAnswerRow, Outcome
  <2> QED
    BY <2>1, <2>3, <2>4, <2>5, <2>6
<1>3. CommittedVoteStands => AcknowledgedVoteStands
  BY DEF CommittedVoteStands, AcknowledgedVoteStands, Unopposed
<1> QED
  BY <1>1, <1>2, <1>3, ProtocolHolds, PTL DEF Spec

\* In a serialised system what a transaction read is what is committed: no
\* other transaction on the same ballot can commit in between.
ReadIsFresh ==
  \A c \in Call : pc[c] \in {"write", "count", "commit", "in_doubt"} =>
    existing[c] = votes[ask[c].answer][ask[c].user]

\* And no transaction is left without its handler.
NoneInDoubt == \A c \in Call : pc[c] # "in_doubt"

TallyInv == NoneInDoubt /\ ReadIsFresh /\ CountersMatchVotes

LEMMA NoneInDoubtStep ==
  ASSUME IInv, Serialised, NoneInDoubt, [Next]_vars
  PROVE  NoneInDoubt'
<1> USE DEF IInv, TypeOK, NoneInDoubt, Goto, Finish, Outcome
<1>1. ASSUME NEW c \in Call, Serve(c) PROVE NoneInDoubt'
  BY <1>1 DEF Serve, Checkout, GuardSelfVote, ReadVote, WriteVote, AdjustCounters,
     Commit, Reply, Settle
<1>2. ASSUME NEW c \in Call, Send(c) \/ CheckoutTimeout(c) \/ Rollback(c) \/ LoseReply(c)
      PROVE  NoneInDoubt'
  BY <1>2 DEF Send, CheckoutTimeout, Rollback, LoseReply
<1>3. ASSUME NEW c \in Call, DropInCommit(c) PROVE FALSE
  BY <1>3 DEF DropInCommit, Serialised
<1> QED
  BY <1>1, <1>2, <1>3 DEF Next, CreateAnswer, vars

LEMMA OneTransactionPerBallot ==
  ASSUME IInv, Serialised, NEW c \in Call, NEW d \in Call, c # d,
         HasConnection(c), HasConnection(d)
  PROVE  ~SameBallot(c, d)
<1>1. Running(c) /\ Running(d)
  BY DEF HasConnection
<1>2. ask[c].instance \in Instance /\ ask[d].instance \in Instance
  BY DEF IInv, TypeOK, Ask
<1>3. ask[c].instance # ask[d].instance
  BY DEF IInv, Protocol, ConnectionExclusive
<1> QED
  BY <1>1, <1>2, <1>3 DEF Serialised, IInv, Protocol, ClientsKeepInstance

LEMMA ReadIsFreshStep ==
  ASSUME IInv, Serialised, NoneInDoubt, ReadIsFresh, [Next]_vars
  PROVE  ReadIsFresh'
<1>0. NoneInDoubt'
  BY NoneInDoubtStep
<1> SUFFICES ASSUME NEW d \in Call, pc'[d] \in {"write", "count", "commit"}
             PROVE  existing'[d] = votes'[ask'[d].answer][ask'[d].user]
  BY <1>0 DEF ReadIsFresh, NoneInDoubt
<1> USE DEF IInv, TypeOK
<1>1. ASSUME NEW c \in Call, Lands(c)
      PROVE  existing'[d] = votes'[ask'[d].answer][ask'[d].user]
  <2>1. c # d /\ HasConnection(c) /\ HasConnection(d) /\ pc'[d] = pc[d]
    BY <1>1 DEF Lands, HoldsAnswerRow, NoneInDoubt, HasConnection, Running, Outcome
  <2>2. ~SameBallot(c, d)
    BY <2>1, OneTransactionPerBallot
  <2>3. votes'[ask[d].answer][ask[d].user] = votes[ask[d].answer][ask[d].user]
    BY <1>1, <2>2 DEF Lands, MakeVisible, HoldsAnswerRow, SameBallot, Ask
  <2> QED
    BY <1>1, <2>1, <2>3 DEF Lands, MakeVisible, HoldsAnswerRow, ReadIsFresh
<1>2. ASSUME NEW c \in Call, ReadVote(c)
      PROVE  existing'[d] = votes'[ask'[d].answer][ask'[d].user]
  BY <1>2 DEF ReadVote, Goto, ReadIsFresh, dbVars
<1>3. ASSUME NEW c \in Call, NEW o \in Outcome, Finish(c, o), UNCHANGED dbVars
      PROVE  existing'[d] = votes'[ask'[d].answer][ask'[d].user]
  BY <1>3 DEF Finish, Goto, ReadIsFresh, dbVars, Outcome
<1>4. ASSUME NEW c \in Call, WriteVote(c) \/ AdjustCounters(c) \/ Send(c) \/ Checkout(c)
      PROVE  existing'[d] = votes'[ask'[d].answer][ask'[d].user]
  BY <1>4 DEF WriteVote, AdjustCounters, Send, Checkout, Goto, ReadIsFresh, dbVars
<1>5. ASSUME NEW a \in Answer, CreateAnswer(a)
      PROVE  existing'[d] = votes'[ask'[d].answer][ask'[d].user]
  BY <1>5 DEF CreateAnswer, ReadIsFresh
<1>6. CASE UNCHANGED vars
  BY <1>6 DEF vars, ReadIsFresh
<1>7. ASSUME NEW c \in Call, GuardSelfVote(c)
      PROVE  existing'[d] = votes'[ask'[d].answer][ask'[d].user]
  <2>1. CASE Goto(c, "select") /\ UNCHANGED <<ask, existing, row>> /\ UNCHANGED dbVars
    BY <2>1 DEF Goto, ReadIsFresh, dbVars
  <2> QED
    BY <1>3, <1>7, <2>1 DEF GuardSelfVote, Outcome
<1>8. ASSUME NEW c \in Call,
             CheckoutTimeout(c) \/ Reply(c) \/ Rollback(c) \/ LoseReply(c)
      PROVE  existing'[d] = votes'[ask'[d].answer][ask'[d].user]
  BY <1>3, <1>8 DEF CheckoutTimeout, Reply, Rollback, LoseReply, Outcome
<1>9. ASSUME NEW c \in Call, Commit(c) PROVE Lands(c)
  BY <1>9 DEF Commit, Lands, HoldsAnswerRow, Goto
<1>10. ASSUME NEW c \in Call, Settle(c) \/ DropInCommit(c) PROVE FALSE
  BY <1>10 DEF Settle, DropInCommit, NoneInDoubt, Serialised
<1> QED
  BY <1>1, <1>2, <1>4, <1>5, <1>6, <1>7, <1>8, <1>9, <1>10
     DEF Next, Serve

\* A committing transaction is one atomic vote of the ledger.
LEMMA CommitIsCast ==
  ASSUME IInv, TallyInv, NEW c \in Call, Lands(c)
  PROVE  Ledger!Cast(ask[c].answer, ask[c].user, ask[c].value)
<1> DEFINE a == ask[c].answer
           u == ask[c].user
           v == ask[c].value
           g == Ledger!WithVote(a, u, v)
           N(h, w) == Cardinality(Ledger!Voters(h, w))
<1>1. /\ a \in Answer /\ u \in User /\ v \in Value
      /\ votes[a] \in [User -> {-1, 0, 1}]
      /\ existing[c] = votes[a][u] /\ existing[c] # v
      /\ a \in answers /\ u # Author[a]
  BY DEF Lands, MakeVisible, HoldsAnswerRow, IInv, TypeOK, Ask, Protocol, WritesAChange, GuardPassed,
         SelfVote, TallyInv, ReadIsFresh
<1>2. /\ votes' = [votes EXCEPT ![a] = g]
      /\ up' = [up EXCEPT ![a] = Adjusted(c).up]
      /\ down' = [down EXCEPT ![a] = Adjusted(c).down]
      /\ UNCHANGED answers
  BY <1>1 DEF Lands, MakeVisible, HoldsAnswerRow, IInv, TypeOK, Protocol, CountersLocked, Ledger!WithVote
<1>3. /\ N(votes[a], v) \in Nat /\ N(votes[a], -v) \in Nat
      /\ N(g, v) = N(votes[a], v) + 1
      /\ votes[a][u] = 0 => N(g, -v) = N(votes[a], -v)
      /\ votes[a][u] # 0 => N(g, -v) = N(votes[a], -v) - 1
  BY <1>1, CastTally DEF Ledger!WithVote
<1>4. up[a] = N(votes[a], 1) /\ down[a] = N(votes[a], -1)
  BY <1>1 DEF TallyInv, CountersMatchVotes
<1>5. Adjusted(c).up = N(g, 1) /\ Adjusted(c).down = N(g, -1)
  <2> HIDE DEF g, N
  <2>1. CASE v = 1
    BY <1>1, <1>3, <1>4, <2>1 DEF Adjusted
  <2>2. CASE v = -1
    BY <1>1, <1>3, <1>4, <2>2 DEF Adjusted
  <2> QED
    BY <1>1, <2>1, <2>2 DEF Value
<1>6. /\ up' = [up EXCEPT ![a] = Cardinality(Ledger!Voters(g, 1))]
      /\ down' = [down EXCEPT ![a] = Cardinality(Ledger!Voters(g, -1))]
  BY <1>2, <1>5
<1> HIDE DEF a, u, v
<1>7. Ledger!Cast(a, u, v)
  BY <1>1, <1>2, <1>6, LedgerCardinality DEF Ledger!Cast
<1> QED
  BY <1>7 DEF a, u, v

LEMMA TallyInit == Init => TallyInv
  BY NoVotesNoTally DEF Init, TallyInv, NoneInDoubt, ReadIsFresh, CountersMatchVotes, Value

LEMMA TallyStep ==
  ASSUME IInv, Serialised, TallyInv, [Next]_vars
  PROVE  TallyInv'
<1>1. NoneInDoubt' /\ ReadIsFresh'
  BY NoneInDoubtStep, ReadIsFreshStep DEF TallyInv
<1>2. CASE UNCHANGED dbVars
  BY <1>1, <1>2 DEF dbVars, TallyInv, CountersMatchVotes
<1>3. ASSUME NEW a \in Answer, CreateAnswer(a) PROVE TallyInv'
  BY <1>1, <1>3 DEF CreateAnswer, TallyInv, CountersMatchVotes
<1>4. ASSUME NEW c \in Call, Lands(c) PROVE CountersMatchVotes'
  <2>1. Ledger!Cast(ask[c].answer, ask[c].user, ask[c].value)
    BY <1>4, CommitIsCast
  <2>2. ASSUME NEW b \in Answer
        PROVE  /\ up'[b] = Cardinality(Ledger!Voters(votes'[b], 1))
               /\ down'[b] = Cardinality(Ledger!Voters(votes'[b], -1))
    <3>1. CASE b = ask[c].answer
      BY <2>1, <3>1, LedgerCardinality DEF Ledger!Cast, IInv, TypeOK
    <3>2. CASE b # ask[c].answer
      BY <2>1, <3>2 DEF Ledger!Cast, IInv, TypeOK, TallyInv, CountersMatchVotes
    <3> QED
      BY <3>1, <3>2
  <2> QED
    BY <2>2 DEF CountersMatchVotes
<1> QED
  BY <1>1, <1>2, <1>3, <1>4, OnlyCommitVotes DEF TallyInv

\* If no two votes of one user on one answer run together, then the
\* counters of vote() are the tally of the votes table in every state, for
\* any number of users, answers, calls and API instances.
THEOREM TallyCorrect ==
  ASSUME Serialised
  PROVE  Spec => []CountersMatchVotes
<1>1. IInv /\ TallyInv /\ [Next]_vars => TallyInv'
  BY TallyStep
<1>2. TallyInv => CountersMatchVotes
  BY DEF TallyInv
<1> QED
  BY TallyInit, <1>1, <1>2, ProtocolHolds, PTL DEF Spec

\* Under the same condition the whole vote protocol (guard, read, two row
\* updates, commit or rollback) implements the atomic ledger.
THEOREM VotingImplementsLedger ==
  ASSUME Serialised
  PROVE  Spec => ImplementsLedger
<1>1. Init => Ledger!Init
  BY DEF Init, Ledger!Init
<1>2. IInv /\ TallyInv /\ [Next]_vars => [Ledger!Next]_(Ledger!ledgerVars)
  <2> SUFFICES ASSUME IInv, TallyInv, [Next]_vars
               PROVE  [Ledger!Next]_(Ledger!ledgerVars)
    OBVIOUS
  <2>1. CASE UNCHANGED dbVars
    BY <2>1 DEF dbVars, Ledger!ledgerVars
  <2>2. ASSUME NEW a \in Answer, CreateAnswer(a) PROVE Ledger!Next
    BY <2>2 DEF CreateAnswer, Ledger!Next, Ledger!Post
  <2>3. ASSUME NEW c \in Call, Lands(c) PROVE Ledger!Next
    BY <2>3, CommitIsCast DEF Ledger!Next, IInv, TypeOK, Ask, Value, Ledger!Value
  <2> QED
    BY <2>1, <2>2, <2>3, OnlyCommitVotes
<1>3. IInv /\ TallyInv /\ [Next]_vars => TallyInv'
  BY TallyStep
<1> QED
  BY TallyInit, <1>1, <1>2, <1>3, ProtocolHolds, PTL DEF Spec, ImplementsLedger, Ledger!Spec
=============================================================================
