------------------------- MODULE ProvisioningProofs -------------------------
(***************************************************************************)
(* Proofs about Provisioning for any WorkOS and GitHub accounts, any       *)
(* mapping between them and any number of requests.                        *)
(***************************************************************************)
EXTENDS Provisioning, TLAPS

(***************************************************************************)
(* The inductive invariant.                                                *)
(***************************************************************************)

\* An approval or a stamp is of an application that is there, and an
\* approval is remembered.
HistoryOK ==
  \A g \in Github :
    /\ waitlist[g].approved => waitlist[g].listed /\ g \in approved
    /\ waitlist[g].user # NoUser => waitlist[g].listed

\* A transaction that updated its application has it locked.
StampHeld ==
  \A c \in Call : stamped[c] => pc[c] = "commit" /\ waitlist[G(c)].listed

\* Past the gate the application was approved, and is still there unless it
\* was scrubbed.
PastTheGate ==
  \A c \in Call : Gate /\ pc[c] \in {"create", "stamp", "commit"} =>
    /\ G(c) \in approved
    /\ G(c) \notin scrubbed => waitlist[G(c)].listed

\* A transaction past its insert has its user: committed, or its own and
\* then nobody else has the GitHub id.
HasItsUser ==
  \A c \in Call : pc[c] \in {"stamp", "commit"} =>
    \/ ask[c].workos \in users
    \/ /\ inserted[c]
       /\ \A v \in users : Identity[v] # G(c)

InsertsExclusive ==
  \A c, d \in Call :
    c # d /\ InsertPending(c) /\ InsertPending(d) => G(c) # G(d)

\* With the gate on, a transaction about to commit carries its stamp unless
\* the application was scrubbed.
CarriesItsStamp ==
  \A c \in Call : Gate /\ pc[c] = "commit" /\ G(c) \notin scrubbed => stamped[c]

IInv ==
  /\ TypeOK
  /\ HistoryOK
  /\ PastTheGate
  /\ HasItsUser
  /\ InsertsExclusive
  /\ CarriesItsStamp
  /\ StampHeld
  /\ NoUserWithoutApproval
  /\ OneUserPerGithub
  /\ ProvisionedIsStamped

\* The parts of IInv that speak of the tables and not of the calls.
TablesOK ==
  HistoryOK /\ NoUserWithoutApproval /\ OneUserPerGithub /\ ProvisionedIsStamped

\* A step that changes no table keeps what is said of them.
LEMMA TablesFrame ==
  ASSUME TablesOK, UNCHANGED <<legacy, dbVars, approved, scrubbed>>
  PROVE  TablesOK'
<1>1. UNCHANGED legacy /\ UNCHANGED users /\ UNCHANGED waitlist
      /\ UNCHANGED approved /\ UNCHANGED scrubbed
  BY DEF dbVars
<1>2. HistoryOK'
  BY <1>1 DEF TablesOK, HistoryOK
<1>3. NoUserWithoutApproval'
  BY <1>1 DEF TablesOK, NoUserWithoutApproval
<1>4. OneUserPerGithub'
  BY <1>1 DEF TablesOK, OneUserPerGithub
<1>5. ProvisionedIsStamped'
  BY <1>1 DEF TablesOK, ProvisionedIsStamped
<1> QED
  BY <1>2, <1>3, <1>4, <1>5 DEF TablesOK

LEMMA StartStep ==
  ASSUME IInv, NEW c \in Call, Start(c)
  PROVE  IInv'
<1> USE IdentityAssumption, NoUserAssumption
    DEF IInv, TypeOK, Ask, Entry, Outcome, Refusal, dbVars, txVars, history, G,
        StampPending, InsertPending, Start, Goto
<1>1. TypeOK'
  BY DEF TypeOK
<1>2. PastTheGate'
  BY DEF PastTheGate
<1>3. HasItsUser'
  BY DEF HasItsUser
<1>4. InsertsExclusive'
  BY DEF InsertsExclusive
<1>5. CarriesItsStamp'
  BY DEF CarriesItsStamp
<1>6. StampHeld'
  BY DEF StampHeld
<1>7. TablesOK'
  BY TablesFrame DEF TablesOK
<1> QED
  BY <1>1, <1>2, <1>3, <1>4, <1>5, <1>6, <1>7 DEF TablesOK

\* Every way of answering a call without a commit.
LEMMA FinishStep ==
  ASSUME IInv, NEW c \in Call, NEW o \in Outcome, Finish(c, o),
         UNCHANGED <<ask, legacy, dbVars, history>>
  PROVE  IInv'
<1> USE IdentityAssumption, NoUserAssumption
    DEF IInv, TypeOK, Ask, Entry, Outcome, Refusal, dbVars, txVars, history, G,
        StampPending, InsertPending, Finish, Goto
<1>1. TypeOK'
  BY DEF TypeOK
<1>2. PastTheGate'
  BY DEF PastTheGate
<1>3. HasItsUser'
  BY DEF HasItsUser
<1>4. InsertsExclusive'
  BY DEF InsertsExclusive
<1>5. CarriesItsStamp'
  BY DEF CarriesItsStamp
<1>6. StampHeld'
  BY DEF StampHeld
<1>7. TablesOK'
  BY TablesFrame DEF TablesOK
<1> QED
  BY <1>1, <1>2, <1>3, <1>4, <1>5, <1>6, <1>7 DEF TablesOK

\* The statements that only read, before the gate is passed.
LEMMA MoveStep ==
  ASSUME IInv, NEW c \in Call, pc[c] # "commit",
         NEW l \in {"identify", "list", "gate", "relist"}, Goto(c, l),
         UNCHANGED <<ask, legacy, dbVars, txVars, history>>
  PROVE  IInv'
<1> USE IdentityAssumption, NoUserAssumption
    DEF IInv, TypeOK, Ask, Entry, Outcome, Refusal, dbVars, txVars, history, G,
        StampPending, InsertPending, Goto
<1>1. TypeOK'
  BY DEF TypeOK
<1>2. PastTheGate'
  BY DEF PastTheGate
<1>3. HasItsUser'
  BY DEF HasItsUser
<1>4. InsertsExclusive'
  BY DEF InsertsExclusive
<1>5. CarriesItsStamp'
  BY DEF CarriesItsStamp
<1>6. StampHeld'
  BY DEF StampHeld
<1>7. TablesOK'
  BY TablesFrame DEF TablesOK
<1> QED
  BY <1>1, <1>2, <1>3, <1>4, <1>5, <1>6, <1>7 DEF TablesOK

\* Reaching the insert: the gate is off or has found an approval.
LEMMA PassGateStep ==
  ASSUME IInv, NEW c \in Call, pc[c] # "commit",
        Gate => waitlist[G(c)].approved,
         Goto(c, "create"),
         UNCHANGED <<ask, legacy, dbVars, txVars, history>>
  PROVE  IInv'
<1> USE IdentityAssumption, NoUserAssumption
    DEF IInv, TypeOK, Ask, Entry, Outcome, Refusal, dbVars, txVars, history, G,
        StampPending, InsertPending, Goto
<1>1. TypeOK'
  BY DEF TypeOK
<1>2. PastTheGate'
  BY DEF PastTheGate, HistoryOK
<1>3. HasItsUser'
  BY DEF HasItsUser
<1>4. InsertsExclusive'
  BY DEF InsertsExclusive
<1>5. CarriesItsStamp'
  BY DEF CarriesItsStamp
<1>6. StampHeld'
  BY DEF StampHeld
<1>7. TablesOK'
  BY TablesFrame DEF TablesOK
<1> QED
  BY <1>1, <1>2, <1>3, <1>4, <1>5, <1>6, <1>7 DEF TablesOK

\* The insert that finds no conflict, or finds the user.
LEMMA InsertStep ==
  ASSUME IInv, NEW c \in Call, pc[c] = "create",
         \A d \in Call \ {c} : InsertPending(d) => G(d) # G(c),
         Goto(c, IF Gate THEN "stamp" ELSE "commit"),
         UNCHANGED <<ask, legacy, dbVars, stamped, history>>,
         \/ ask[c].workos \in users /\ UNCHANGED inserted
         \/ /\ \A v \in users : Identity[v] # G(c)
            /\ inserted' = [inserted EXCEPT ![c] = TRUE]
  PROVE  IInv'
<1> USE IdentityAssumption, NoUserAssumption
    DEF IInv, TypeOK, Ask, Entry, Outcome, Refusal, dbVars, txVars, history, G,
        StampPending, InsertPending, Goto
<1>1. TypeOK'
  BY DEF TypeOK
<1>2. PastTheGate'
  BY DEF PastTheGate
<1>3. HasItsUser'
  BY DEF HasItsUser
<1>4. InsertsExclusive'
  BY DEF InsertsExclusive
<1>5. CarriesItsStamp'
  BY DEF CarriesItsStamp
<1>6. StampHeld'
  BY DEF StampHeld
<1>7. TablesOK'
  BY TablesFrame DEF TablesOK
<1> QED
  BY <1>1, <1>2, <1>3, <1>4, <1>5, <1>6, <1>7 DEF TablesOK

LEMMA SetUserIdStep ==
  ASSUME IInv, NEW c \in Call, SetUserId(c)
  PROVE  IInv'
<1> USE IdentityAssumption, NoUserAssumption
    DEF IInv, TypeOK, Ask, Entry, Outcome, Refusal, dbVars, txVars, history, G,
        StampPending, InsertPending, SetUserId, Goto
<1>1. TypeOK'
  BY DEF TypeOK
<1>2. PastTheGate'
  BY DEF PastTheGate
<1>3. HasItsUser'
  BY DEF HasItsUser
<1>4. InsertsExclusive'
  BY DEF InsertsExclusive
<1>5. CarriesItsStamp'
  BY DEF CarriesItsStamp, PastTheGate
<1>6. StampHeld'
  BY DEF StampHeld
<1>7. TablesOK'
  BY TablesFrame DEF TablesOK
<1> QED
  BY <1>1, <1>2, <1>3, <1>4, <1>5, <1>6, <1>7 DEF TablesOK

LEMMA CommitStep ==
  ASSUME IInv, NEW c \in Call, Commit(c)
  PROVE  IInv'
<1> USE IdentityAssumption, NoUserAssumption
    DEF IInv, TypeOK, Ask, Entry, Outcome, Refusal, dbVars, txVars, history, G,
        StampPending, InsertPending, Commit, Finish, Goto
<1>1. TypeOK'
  BY DEF TypeOK
<1>2. PastTheGate'
  BY DEF PastTheGate
<1>3. HasItsUser'
  <2> SUFFICES ASSUME NEW d \in Call, pc'[d] \in {"stamp", "commit"},
                       ask[d].workos \notin users'
                PROVE  inserted'[d] /\ \A v \in users' : Identity[v] # G(d)
    BY DEF HasItsUser
  <2>1. d # c /\ inserted[d] /\ \A v \in users : Identity[v] # G(d)
    BY DEF HasItsUser
  <2>2. inserted[c] => G(c) # G(d)
    BY <2>1 DEF InsertsExclusive
  <2> QED
    BY <2>1, <2>2
<1>4. InsertsExclusive'
  BY DEF InsertsExclusive
<1>5. CarriesItsStamp'
  BY DEF CarriesItsStamp
<1>6. StampHeld'
  BY DEF StampHeld
<1>7. HistoryOK'
  BY DEF HistoryOK, StampHeld
<1>8. NoUserWithoutApproval'
  BY DEF NoUserWithoutApproval, PastTheGate
<1>9. OneUserPerGithub'
  <2>1. inserted[c] /\ ask[c].workos \notin users =>
          \A v \in users : Identity[v] # G(c)
    BY DEF HasItsUser
  <2> QED
    BY <2>1 DEF OneUserPerGithub
<1>10. ProvisionedIsStamped'
  <2> SUFFICES ASSUME Gate, NEW w \in users' \ legacy,
        Identity[w] \notin scrubbed
                PROVE  waitlist'[Identity[w]].user = w
    BY DEF ProvisionedIsStamped
  <2>1. ask[c].workos \in users'
    BY DEF HasItsUser
  <2>2. CASE Identity[w] = G(c)
    <3>1. stamped[c]
      BY <2>2 DEF CarriesItsStamp
    <3>2. w = ask[c].workos
      BY <1>9, <2>1, <2>2 DEF OneUserPerGithub
    <3> QED
      BY <2>2, <3>1, <3>2
  <2>3. CASE Identity[w] # G(c)
    <3>1. w \in users
      BY <2>3
    <3>2. waitlist'[Identity[w]] = waitlist[Identity[w]]
      BY <2>3, <3>1
    <3> QED
      BY <3>1, <3>2 DEF ProvisionedIsStamped
  <2> QED
    BY <2>2, <2>3
<1> QED
  BY <1>1, <1>2, <1>3, <1>4, <1>5, <1>6, <1>7, <1>8, <1>9, <1>10

LEMMA EnlistStep ==
  ASSUME IInv, NEW c \in Call, Enlist(c)
  PROVE  IInv'
<1> USE IdentityAssumption, NoUserAssumption
    DEF IInv, TypeOK, Ask, Entry, Outcome, Refusal, dbVars, txVars, history, G,
        StampPending, InsertPending, Enlist, Finish, Goto
<1>1. TypeOK'
  <2>1. NewEntry \in Entry
    BY DEF NewEntry
  <2>2. waitlist' \in [Github -> Entry]
    BY <2>1
  <2>3. pc'[c] \in {"listed", "relist"}
    OBVIOUS
  <2> HIDE DEF Entry
  <2> QED
    BY <2>2, <2>3 DEF TypeOK
<1>2. PastTheGate'
  BY DEF PastTheGate, NewEntry
<1>3. HasItsUser'
  BY DEF HasItsUser
<1>4. InsertsExclusive'
  <2>1. \A d \in Call : InsertPending(d)' => InsertPending(d)
    OBVIOUS
  <2> QED
    BY <2>1 DEF InsertsExclusive
<1>5. CarriesItsStamp'
  BY DEF CarriesItsStamp
<1>6. StampHeld'
  <2>1. \A g \in Github : waitlist[g].listed => waitlist'[g] = waitlist[g]
    BY DEF TypeOK
  <2>2. \A d \in Call : stamped'[d] => stamped[d] /\ d # c
    BY DEF StampHeld
  <2>3. \A d \in Call : d # c => pc'[d] = pc[d]
    OBVIOUS
  <2>4. ask' = ask
    OBVIOUS
  <2>5. ASSUME NEW d \in Call, stamped'[d]
        PROVE  pc'[d] = "commit" /\ waitlist'[G(d)].listed
    <3>1. stamped[d] /\ d # c /\ pc[d] = "commit" /\ waitlist[G(d)].listed
      BY <2>2, <2>5 DEF StampHeld
    <3>2. G(d) \in Github
      BY DEF TypeOK
    <3> QED
      BY <3>1, <3>2, <2>1, <2>3
  <2> QED
    BY <2>4, <2>5 DEF StampHeld
<1>7. HistoryOK'
  BY DEF HistoryOK, NewEntry
<1>8. NoUserWithoutApproval'
  BY DEF NoUserWithoutApproval
<1>9. OneUserPerGithub'
  BY DEF OneUserPerGithub
<1>10. ProvisionedIsStamped'
  <2>1. \A g \in Github : waitlist[g].user # NoUser => waitlist'[g] = waitlist[g]
    BY DEF HistoryOK
  <2>2. \A w \in users : w # NoUser /\ Identity[w] \in Github
    OBVIOUS
  <2> QED
    BY <2>1, <2>2 DEF ProvisionedIsStamped
<1> QED
  BY <1>1, <1>2, <1>3, <1>4, <1>5, <1>6, <1>7, <1>8, <1>9, <1>10

LEMMA ApproveStep ==
  ASSUME IInv, NEW g \in Github, Approve(g)
  PROVE  IInv'
<1> USE IdentityAssumption, NoUserAssumption
    DEF IInv, TypeOK, Ask, Entry, Outcome, Refusal, dbVars, txVars, history, G,
        StampPending, InsertPending, Approve
<1>1. TypeOK'
  BY DEF TypeOK
<1>2. PastTheGate'
  BY DEF PastTheGate
<1>3. HasItsUser'
  BY DEF HasItsUser
<1>4. InsertsExclusive'
  BY DEF InsertsExclusive
<1>5. CarriesItsStamp'
  BY DEF CarriesItsStamp
<1>6. StampHeld'
  BY DEF StampHeld
<1>7. HistoryOK'
  BY DEF HistoryOK
<1>8. NoUserWithoutApproval'
  BY DEF NoUserWithoutApproval
<1>9. OneUserPerGithub'
  BY DEF OneUserPerGithub
<1>10. ProvisionedIsStamped'
  BY DEF ProvisionedIsStamped
<1> QED
  BY <1>1, <1>2, <1>3, <1>4, <1>5, <1>6, <1>7, <1>8, <1>9, <1>10

LEMMA ScrubStep ==
  ASSUME IInv, NEW g \in Github, Scrub(g)
  PROVE  IInv'
<1> USE IdentityAssumption, NoUserAssumption
    DEF IInv, TypeOK, Ask, Entry, Outcome, Refusal, dbVars, txVars, history, G,
        StampPending, InsertPending, Scrub, RowFree, NoEntry
<1>1. TypeOK'
  BY DEF TypeOK
<1>2. PastTheGate'
  BY DEF PastTheGate
<1>3. HasItsUser'
  BY DEF HasItsUser
<1>4. InsertsExclusive'
  BY DEF InsertsExclusive
<1>5. CarriesItsStamp'
  BY DEF CarriesItsStamp
<1>6. StampHeld'
  BY DEF StampHeld
<1>7. HistoryOK'
  BY DEF HistoryOK
<1>8. NoUserWithoutApproval'
  BY DEF NoUserWithoutApproval
<1>9. OneUserPerGithub'
  BY DEF OneUserPerGithub
<1>10. ProvisionedIsStamped'
  BY DEF ProvisionedIsStamped
<1> QED
  BY <1>1, <1>2, <1>3, <1>4, <1>5, <1>6, <1>7, <1>8, <1>9, <1>10

LEMMA StutterStep ==
  ASSUME IInv, UNCHANGED vars
  PROVE  IInv'
<1> USE IdentityAssumption, NoUserAssumption
    DEF IInv, TypeOK, Ask, Entry, Outcome, Refusal, dbVars, txVars, history, G,
        StampPending, InsertPending, vars
<1>1. TypeOK'
  BY DEF TypeOK
<1>2. PastTheGate'
  BY DEF PastTheGate
<1>3. HasItsUser'
  BY DEF HasItsUser
<1>4. InsertsExclusive'
  BY DEF InsertsExclusive
<1>5. CarriesItsStamp'
  BY DEF CarriesItsStamp
<1>6. StampHeld'
  BY DEF StampHeld
<1>7. TablesOK'
  BY TablesFrame DEF TablesOK
<1> QED
  BY <1>1, <1>2, <1>3, <1>4, <1>5, <1>6, <1>7 DEF TablesOK

LEMMA NextStep ==
  ASSUME IInv, [Next]_vars
  PROVE  IInv'
<1>1. ASSUME NEW c \in Call, Start(c)
      PROVE  IInv'
  BY <1>1, StartStep
<1>2. ASSUME NEW c \in Call, FindUser(c)
      PROVE  IInv'
  <2>1. CASE ask[c].workos \in users
    BY <1>2, <2>1, FinishStep DEF FindUser, Outcome
  <2>2. CASE ask[c].workos \notin users
    BY <1>2, <2>2, MoveStep DEF FindUser, txVars
  <2> QED
    BY <2>1, <2>2
<1>3. ASSUME NEW c \in Call, Identify(c)
      PROVE  IInv'
  <2>1. CASE Finish(c, "error")
    BY <1>3, <2>1, FinishStep DEF Identify, Outcome
  <2>2. CASE Goto(c, "create") /\ ~Gate /\ UNCHANGED txVars
    BY <1>3, <2>2, PassGateStep DEF Identify, txVars
  <2>3. CASE (Goto(c, "list") \/ Goto(c, "gate")) /\ UNCHANGED txVars
    BY <1>3, <2>3, MoveStep DEF Identify, txVars
  <2> QED
    BY <1>3, <2>1, <2>2, <2>3 DEF Identify
<1>4. ASSUME NEW c \in Call, CheckGate(c)
      PROVE  IInv'
  <2>1. CASE \E o \in {"required", "pending"} : Finish(c, o)
    BY <1>4, <2>1, FinishStep DEF CheckGate, Outcome, Refusal
  <2>2. CASE waitlist[G(c)].approved /\ Goto(c, "create") /\ UNCHANGED txVars
    BY <1>4, <2>2, PassGateStep DEF CheckGate, txVars
  <2> QED
    BY <1>4, <2>1, <2>2 DEF CheckGate
<1>5. ASSUME NEW c \in Call, CreateUser(c)
      PROVE  IInv'
  <2>1. CASE Finish(c, "conflict")
    BY <1>5, <2>1, FinishStep DEF CreateUser, Outcome
  <2>2. CASE ~Finish(c, "conflict")
    BY <1>5, <2>2, InsertStep DEF CreateUser, G, txVars
  <2> QED
    BY <2>1, <2>2
<1>6. ASSUME NEW c \in Call, SetUserId(c)
      PROVE  IInv'
  BY <1>6, SetUserIdStep
<1>7. ASSUME NEW c \in Call, SetUserIdFails(c) \/ Rollback(c) \/ FetchListed(c)
      PROVE  IInv'
  BY <1>7, FinishStep DEF SetUserIdFails, Rollback, FetchListed, Outcome
<1>8. ASSUME NEW c \in Call, Commit(c)
      PROVE  IInv'
  BY <1>8, CommitStep
<1>9. ASSUME NEW c \in Call, Enlist(c)
      PROVE  IInv'
  BY <1>9, EnlistStep
<1>10. ASSUME NEW g \in Github, Approve(g) \/ Scrub(g)
       PROVE  IInv'
  BY <1>10, ApproveStep, ScrubStep
<1>11. CASE UNCHANGED vars
  BY <1>11, StutterStep
<1> QED
  BY <1>1, <1>2, <1>3, <1>4, <1>5, <1>6, <1>7, <1>8, <1>9, <1>10, <1>11
     DEF Next, Serve

LEMMA InitOK == Init => IInv
<1> SUFFICES ASSUME Init PROVE IInv
  OBVIOUS
<1> USE NoUserAssumption DEF Init
<1>1. NoEntry \in Entry
  BY DEF NoEntry, Entry
<1>2. TypeOK
  BY <1>1 DEF TypeOK
<1>3. HistoryOK /\ NoUserWithoutApproval /\ ProvisionedIsStamped
  BY DEF HistoryOK, NoUserWithoutApproval, ProvisionedIsStamped, NoEntry
<1>4. OneUserPerGithub
  BY DEF OneUserPerGithub
<1>5. PastTheGate /\ HasItsUser /\ CarriesItsStamp
  BY DEF PastTheGate, HasItsUser, CarriesItsStamp
<1>6. InsertsExclusive /\ StampHeld
  BY DEF InsertsExclusive, StampHeld, InsertPending
<1> QED
  BY <1>2, <1>3, <1>4, <1>5, <1>6 DEF IInv

\* The inductive invariant holds of every behaviour: the transactions of
\* jwt_auth_layer, the waitlist endpoint and the operator keep it together.
THEOREM TransactionsHold == Spec => []IInv
<1> QED
  BY InitOK, NextStep, PTL DEF Spec

\* Type correctness of the provisioning component.
THEOREM TypeCorrect == Spec => []TypeOK
<1>1. IInv => TypeOK
  BY DEF IInv
<1> QED
  BY <1>1, TransactionsHold, PTL

\* The gate of resolve_user: however joins, approvals, scrubs and logins
\* interleave, nobody is provisioned without an approval.
THEOREM GateHolds == Spec => []NoUserWithoutApproval
<1>1. IInv => NoUserWithoutApproval
  BY DEF IInv
<1> QED
  BY <1>1, TransactionsHold, PTL

\* PgUserRepository::create: concurrent first logins of one GitHub account,
\* under one WorkOS id or several, leave one user.
THEOREM UsersUnique == Spec => []OneUserPerGithub
<1>1. IInv => OneUserPerGithub
  BY DEF IInv
<1> QED
  BY <1>1, TransactionsHold, PTL

\* The transaction around create and set_user_id: a provisioned user's
\* application names it, unless it was scrubbed.
THEOREM StampsAtomic == Spec => []ProvisionedIsStamped
<1>1. IInv => ProvisionedIsStamped
  BY DEF IInv
<1> QED
  BY <1>1, TransactionsHold, PTL

-----------------------------------------------------------------------------
(***************************************************************************)
(* The fast path.                                                          *)
(***************************************************************************)

\* A request of a known user has it in the table, and is either waiting for
\* the fast path or a join, which never comes near the gate.
FastPath ==
  \A c \in Call : known[c] =>
    /\ ask[c].workos \in users
    /\ pc[c] \in IF ask[c].path = "auth"
                 THEN {"find", "ok", "error"}
                 ELSE {"identify", "list", "relist", "listed", "error"}

LEMMA FastPathStep ==
  ASSUME TypeOK, FastPath, [Next]_vars
  PROVE  FastPath'
<1> USE DEF TypeOK, FastPath, Ask, Outcome, Refusal, dbVars, txVars, history, G
<1>1. users \subseteq users' /\ UNCHANGED ask
  BY DEF Next, Start, Serve, FindUser, Identify, CheckGate, CreateUser,
         SetUserId, SetUserIdFails, Commit, Enlist, FetchListed, Rollback,
         Approve, Scrub, vars
<1>2. ASSUME NEW c \in Call, Start(c)
      PROVE  FastPath'
  BY <1>2 DEF Start, Goto
<1>3. ASSUME NEW c \in Call, FindUser(c)
      PROVE  FastPath'
  BY <1>3 DEF FindUser, Finish, Goto
<1>4. ASSUME NEW c \in Call, Identify(c)
      PROVE  FastPath'
  BY <1>4 DEF Identify, Finish, Goto
<1>5. ASSUME NEW c \in Call, CheckGate(c)
      PROVE  FastPath'
  BY <1>5 DEF CheckGate, Finish, Goto
<1>6. ASSUME NEW c \in Call, CreateUser(c)
      PROVE  FastPath'
  BY <1>6 DEF CreateUser, Finish, Goto
<1>7. ASSUME NEW c \in Call, SetUserId(c) \/ SetUserIdFails(c)
      PROVE  FastPath'
  BY <1>7 DEF SetUserId, SetUserIdFails, Finish, Goto
<1>8. ASSUME NEW c \in Call, Commit(c)
      PROVE  FastPath'
  BY <1>1, <1>8 DEF Commit, Finish, Goto
<1>9. ASSUME NEW c \in Call, Enlist(c) \/ FetchListed(c)
      PROVE  FastPath'
  BY <1>9 DEF Enlist, FetchListed, Finish, Goto
<1>10. ASSUME NEW c \in Call, Rollback(c)
       PROVE  FastPath'
  BY <1>10 DEF Rollback, Running, Finish, Goto
<1>11. ASSUME NEW g \in Github, Approve(g) \/ Scrub(g)
       PROVE  FastPath'
  BY <1>11 DEF Approve, Scrub
<1>12. CASE UNCHANGED vars
  BY <1>12 DEF vars
<1> QED
  BY <1>2, <1>3, <1>4, <1>5, <1>6, <1>7, <1>8, <1>9, <1>10, <1>11, <1>12
     DEF Next, Serve

\* The fast path of resolve_user: whatever happens to its application, a
\* user that is there is never refused.
THEOREM FastPathHolds == Spec => []KnownUserNeverRefused
<1>1. Init => FastPath
  BY DEF Init, FastPath
<1>2. FastPath => KnownUserNeverRefused
  BY DEF FastPath, KnownUserNeverRefused, Refusal
<1> QED
  BY <1>1, <1>2, FastPathStep, TypeCorrect, PTL DEF Spec

-----------------------------------------------------------------------------
(***************************************************************************)
(* Applications only advance.                                              *)
(***************************************************************************)

\* A stamp names a committed user, and the one of its own GitHub id.
StampNamesItsUser ==
  \A g \in Github : waitlist[g].user # NoUser =>
    waitlist[g].user \in users /\ Identity[waitlist[g].user] = g

\* A transaction that commits leaves its user behind, the only one of its
\* GitHub id.
LEMMA CommitsItsUser ==
  ASSUME IInv, NEW c \in Call, Commit(c)
  PROVE  /\ ask[c].workos \in users'
         /\ \A v \in users : Identity[v] = G(c) => v = ask[c].workos
<1>1. \/ ask[c].workos \in users
      \/ inserted[c] /\ \A v \in users : Identity[v] # G(c)
  BY DEF IInv, HasItsUser, Commit
<1> QED
  BY <1>1 DEF IInv, OneUserPerGithub, Commit, G

LEMMA StampStep ==
  ASSUME IInv, StampNamesItsUser, [Next]_vars
  PROVE  StampNamesItsUser'
<1> USE IdentityAssumption DEF TypeOK, StampNamesItsUser, dbVars
<1>1. TypeOK
  BY DEF IInv
<1>2. ASSUME NEW c \in Call, Commit(c)
      PROVE  StampNamesItsUser'
  <2>1. users \subseteq users' /\ ask[c].workos \in users'
    BY <1>2, CommitsItsUser DEF Commit
  <2> QED
    BY <1>1, <1>2, <2>1 DEF Commit, G
<1>3. ASSUME NEW c \in Call, Enlist(c)
      PROVE  StampNamesItsUser'
  BY <1>1, <1>3 DEF Enlist, NewEntry
<1>4. ASSUME NEW g \in Github, Approve(g) \/ Scrub(g)
      PROVE  StampNamesItsUser'
  <2>1. UNCHANGED users
    BY <1>4 DEF Approve, Scrub
  <2>2. \A h \in Github : waitlist'[h].user \in {waitlist[h].user, NoUser}
    BY <1>1, <1>4 DEF Approve, Scrub, NoEntry, Entry
  <2> QED
    BY <2>1, <2>2
<1>5. CASE UNCHANGED <<users, waitlist>>
  BY <1>5
<1>6. ASSUME NEW c \in Call,
             \/ Start(c) \/ FindUser(c) \/ Identify(c) \/ CheckGate(c)
             \/ CreateUser(c) \/ SetUserId(c) \/ SetUserIdFails(c)
             \/ FetchListed(c) \/ Rollback(c)
      PROVE  UNCHANGED <<users, waitlist>>
  BY <1>6 DEF Start, FindUser, Identify, CheckGate, CreateUser, SetUserId,
              SetUserIdFails, FetchListed, Rollback
<1>7. CASE UNCHANGED vars
  BY <1>7 DEF vars
<1> QED
  BY <1>2, <1>3, <1>4, <1>5, <1>6, <1>7 DEF Next, Serve

\* What a step may do to the application of g.
Advances(g) ==
  /\ waitlist[g].listed => waitlist'[g].listed
  /\ waitlist[g].approved => waitlist'[g].approved
  /\ waitlist[g].user # NoUser => waitlist'[g].user = waitlist[g].user

LEMMA AdvanceStep ==
  ASSUME IInv, StampNamesItsUser, [Next]_vars
  PROVE  \A g \in Github : g \notin scrubbed' => Advances(g)
<1> SUFFICES ASSUME NEW g \in Github, g \notin scrubbed'
             PROVE  Advances(g)
  OBVIOUS
<1> USE DEF dbVars
<1>1. TypeOK /\ HistoryOK
  BY DEF IInv
<1>2. ASSUME NEW c \in Call, Commit(c)
      PROVE  Advances(g)
  <2>1. waitlist[g].user # NoUser /\ g = G(c) => waitlist[g].user = ask[c].workos
    BY <1>2, CommitsItsUser DEF StampNamesItsUser
  <2> QED
    BY <1>1, <1>2, <2>1 DEF Commit, Advances, TypeOK, Entry
<1>3. ASSUME NEW c \in Call, Enlist(c)
      PROVE  Advances(g)
  <2>1. waitlist[g].listed => waitlist'[g] = waitlist[g]
    BY <1>1, <1>3 DEF Enlist, TypeOK
  <2> QED
    BY <1>1, <2>1 DEF HistoryOK, Advances
<1>4. ASSUME NEW h \in Github, Approve(h)
      PROVE  Advances(g)
  BY <1>1, <1>4 DEF Approve, Advances, TypeOK, Entry
<1>5. ASSUME NEW h \in Github, Scrub(h)
      PROVE  Advances(g)
  BY <1>1, <1>5 DEF Scrub, Advances, TypeOK
<1>6. CASE UNCHANGED waitlist
  BY <1>6 DEF Advances
<1>7. ASSUME NEW c \in Call,
             \/ Start(c) \/ FindUser(c) \/ Identify(c) \/ CheckGate(c)
             \/ CreateUser(c) \/ SetUserId(c) \/ SetUserIdFails(c)
             \/ FetchListed(c) \/ Rollback(c)
      PROVE  UNCHANGED waitlist
  BY <1>7 DEF Start, FindUser, Identify, CheckGate, CreateUser, SetUserId,
              SetUserIdFails, FetchListed, Rollback
<1>8. CASE UNCHANGED vars
  BY <1>6, <1>8 DEF vars
<1> QED
  BY <1>2, <1>3, <1>4, <1>5, <1>6, <1>7, <1>8 DEF Next, Serve

\* Every stamp names the committed user of its own GitHub id.
LEMMA StampsNameTheirUsers == Spec => []StampNamesItsUser
<1>1. Init => StampNamesItsUser
  BY DEF Init, StampNamesItsUser, NoEntry
<1> QED
  BY <1>1, StampStep, TransactionsHold, PTL DEF Spec

\* ON CONFLICT DO NOTHING of WaitlistRepository::insert and one user per
\* GitHub id: no join, login or race takes an application, its approval or
\* its stamp away.
THEOREM ApplicationsAdvance == Spec => ApplicationsOnlyAdvance
<1>1. IInv /\ StampNamesItsUser /\ [Next]_vars =>
        [\A g \in Github : g \notin scrubbed' =>
           /\ waitlist[g].listed => waitlist'[g].listed
           /\ waitlist[g].approved => waitlist'[g].approved
           /\ waitlist[g].user # NoUser => waitlist'[g].user = waitlist[g].user]_vars
  BY AdvanceStep DEF Advances
<1> QED
  BY <1>1, TransactionsHold, StampsNameTheirUsers, PTL
     DEF Spec, ApplicationsOnlyAdvance
=============================================================================
