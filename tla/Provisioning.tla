---------------------------- MODULE Provisioning ----------------------------
(***************************************************************************)
(* How a valid token becomes a user: jwt_auth_layer runs                   *)
(* AuthService::resolve_user inside one READ COMMITTED transaction, which  *)
(* finds the user or, when the waitlist gate lets the GitHub identity      *)
(* through, inserts it and stamps the waitlist row.  Beside it, the        *)
(* waitlist endpoint inserts applications, and an operator approves or     *)
(* scrubs them with SQL.                                                   *)
(*                                                                         *)
(* A call is one request.  A statement of an open transaction sees the     *)
(* rows committed when it runs; an uncommitted insert makes a conflicting  *)
(* insert wait, an uncommitted update keeps its row locked.                *)
(***************************************************************************)
EXTENDS Integers, FiniteSets

CONSTANTS
  Workos,     \* WorkOS user ids (the sub claim), the key of api.users
  Github,     \* GitHub ids, the key of api.waitlist
  Identity,   \* Identity[w]: the GitHub id WorkOS reports for w
  Call,       \* requests
  Gate,       \* config.require_waitlist_approval
  NoUser      \* waitlist.user_id IS NULL

ASSUME IdentityAssumption == Identity \in [Workos -> Github]
ASSUME GateAssumption == Gate \in BOOLEAN
ASSUME NoUserAssumption == NoUser \notin Workos

VARIABLES
  ask,       \* ask[c]: who calls, and whether to be authenticated or listed
  legacy,    \* the users that were there at the start
  users,     \* the committed api.users rows, by workos_id
  waitlist,  \* waitlist[g]: the committed row of g
  pc,        \* pc[c]: the statement call c executes next, or its outcome
  inserted,  \* inserted[c]: c's transaction inserted its user
  stamped,   \* stamped[c]: c's transaction updated its waitlist row
  known,     \* history: c's user was committed before c started
  approved,  \* history: the GitHub ids that were ever approved
  scrubbed   \* history: the GitHub ids whose application was ever scrubbed

dbVars == <<users, waitlist>>
txVars == <<inserted, stamped>>
history == <<known, approved, scrubbed>>
vars == <<ask, legacy, dbVars, pc, txVars, history>>

Ask == [workos : Workos, path : {"auth", "join"}]
Refusal == {"pending", "required"}
Outcome ==
  {"ok", "listed", "error", "conflict", "stamp_failed"} \union Refusal
NoEntry == [listed |-> FALSE, approved |-> FALSE, user |-> NoUser]
NewEntry == [listed |-> TRUE, approved |-> FALSE, user |-> NoUser]
Entry == [listed : BOOLEAN, approved : BOOLEAN, user : Workos \union {NoUser}]

G(c) == Identity[ask[c].workos]
Running(c) == pc[c] \notin {"idle"} \union Outcome

\* What an open transaction keeps to itself until it ends.
InsertPending(c) == pc[c] \in {"stamp", "commit"} /\ inserted[c]
StampPending(c) == pc[c] = "commit" /\ stamped[c]

Goto(c, label) == pc' = [pc EXCEPT ![c] = label]

\* The call is answered and whatever its transaction had not committed is
\* gone.
Finish(c, outcome) ==
  /\ Goto(c, outcome)
  /\ inserted' = [inserted EXCEPT ![c] = FALSE]
  /\ stamped' = [stamped EXCEPT ![c] = FALSE]

-----------------------------------------------------------------------------
Init ==
  /\ ask \in [Call -> Ask]
  /\ users \in {s \in SUBSET Workos :
                  \A v, w \in s : Identity[v] = Identity[w] => v = w}
  /\ legacy = users
  /\ waitlist = [g \in Github |-> NoEntry]
  /\ pc = [c \in Call |-> "idle"]
  /\ inserted = [c \in Call |-> FALSE]
  /\ stamped = [c \in Call |-> FALSE]
  /\ known = [c \in Call |-> FALSE]
  /\ approved = {}
  /\ scrubbed = {}

\* A request with a valid token has its connection and, to be
\* authenticated, its transaction.
Start(c) ==
  /\ pc[c] = "idle"
  /\ Goto(c, IF ask[c].path = "auth" THEN "find" ELSE "identify")
  /\ known' = [known EXCEPT ![c] = ask[c].workos \in users]
  /\ UNCHANGED <<ask, legacy, dbVars, txVars, approved, scrubbed>>

\* Mutant: the gate is asked before the fast path.
FindUser_GateFirst(c) ==
  /\ pc[c] = "find"
  /\ Goto(c, "identify")
  /\ UNCHANGED txVars
  /\ UNCHANGED <<ask, legacy, dbVars, history>>

\* resolve_user: the fast path of a user that is there.
FindUser(c) ==
  /\ pc[c] = "find"
  /\ IF ask[c].workos \in users
     THEN Finish(c, "ok")
     ELSE Goto(c, "identify") /\ UNCHANGED txVars
  /\ UNCHANGED <<ask, legacy, dbVars, history>>

\* resolve_github_identity: the users row again, else WorkOS, which may
\* fail.
Identify(c) ==
  /\ pc[c] = "identify"
  /\ \/ /\ Goto(c, IF ask[c].path = "join" THEN "list"
                   ELSE IF Gate THEN "gate" ELSE "create")
        /\ UNCHANGED txVars
     \/ /\ ask[c].workos \notin users
        /\ Finish(c, "error")
  /\ UNCHANGED <<ask, legacy, dbVars, history>>

\* Mutant: any application passes.
CheckGate_AnyEntry(c) ==
  LET entry == waitlist[G(c)]
  IN  /\ pc[c] = "gate"
      /\ \/ ~entry.listed /\ Finish(c, "required")
         \/ entry.listed /\ Goto(c, "create") /\ UNCHANGED txVars
      /\ UNCHANGED <<ask, legacy, dbVars, history>>

\* The gate: an approved application passes.
CheckGate(c) ==
  LET entry == waitlist[G(c)]
  IN  /\ pc[c] = "gate"
      /\ \/ ~entry.listed /\ Finish(c, "required")
         \/ entry.listed /\ ~entry.approved /\ Finish(c, "pending")
         \/ entry.approved /\ Goto(c, "create") /\ UNCHANGED txVars
      /\ UNCHANGED <<ask, legacy, dbVars, history>>

\* Mutant: github_id is not unique.
CreateUser_NoGithubKey(c) ==
  LET w == ask[c].workos
  IN  /\ pc[c] = "create"
      /\ \A d \in Call \ {c} : InsertPending(d) => ask[d].workos # w
      /\ inserted' = [inserted EXCEPT ![c] = w \notin users]
      /\ Goto(c, IF Gate THEN "stamp" ELSE "commit")
      /\ UNCHANGED <<ask, legacy, dbVars, stamped, history>>

\* Mutant: no transaction in jwt_auth_layer, the user is committed at once.
CreateUser_Autocommit(c) ==
  LET w == ask[c].workos
  IN  /\ pc[c] = "create"
      /\ \/ /\ w \in users \/ \A v \in users : Identity[v] # Identity[w]
            /\ users' = users \union {w}
            /\ Goto(c, IF Gate THEN "stamp" ELSE "commit")
            /\ UNCHANGED txVars
         \/ /\ w \notin users
            /\ \E v \in users : Identity[v] = Identity[w]
            /\ Finish(c, "conflict")
            /\ UNCHANGED users
      /\ UNCHANGED <<ask, legacy, waitlist, history>>

\* Mutant: a violation of the github_id key is tried again.
CreateUser_Retries(c) ==
  LET w == ask[c].workos
      taken == \E v \in users : Identity[v] = Identity[w]
  IN  /\ pc[c] = "create"
      /\ \A d \in Call \ {c} : InsertPending(d) => G(d) # G(c)
      /\ inserted' = [inserted EXCEPT ![c] = ~taken]
      /\ Goto(c, IF w \notin users /\ taken THEN "find"
                 ELSE IF Gate THEN "stamp" ELSE "commit")
      /\ UNCHANGED <<ask, legacy, dbVars, stamped, history>>

\* PgUserRepository::create: INSERT ... ON CONFLICT (workos_id) DO NOTHING
\* waits for a transaction that inserted the same workos_id or github_id.
\* A row with the same workos_id is fetched instead; one with the same
\* github_id and another workos_id violates the unique constraint.
CreateUser(c) ==
  LET w == ask[c].workos
      next == IF Gate THEN "stamp" ELSE "commit"
  IN  /\ pc[c] = "create"
      /\ \A d \in Call \ {c} : InsertPending(d) => G(d) # G(c)
      /\ \/ w \in users /\ Goto(c, next) /\ UNCHANGED txVars
         \/ /\ w \notin users
            /\ \A v \in users : Identity[v] # Identity[w]
            /\ inserted' = [inserted EXCEPT ![c] = TRUE]
            /\ Goto(c, next)
            /\ UNCHANGED stamped
         \/ /\ w \notin users
            /\ \E v \in users : Identity[v] = Identity[w]
            /\ Finish(c, "conflict")
      /\ UNCHANGED <<ask, legacy, dbVars, history>>

\* set_user_id: UPDATE waitlist .. WHERE github_id waits for the row, and
\* updates nothing when the row has been scrubbed.
SetUserId(c) ==
  /\ pc[c] = "stamp"
  /\ \A d \in Call \ {c} : StampPending(d) => G(d) # G(c)
  /\ stamped' = [stamped EXCEPT ![c] = waitlist[G(c)].listed]
  /\ Goto(c, "commit")
  /\ UNCHANGED <<ask, legacy, dbVars, inserted, history>>

\* set_user_id fails: its error leaves resolve_user, and the transaction of
\* jwt_auth_layer rolls back.
SetUserIdFails(c) ==
  /\ pc[c] = "stamp"
  /\ Finish(c, "stamp_failed")
  /\ UNCHANGED <<ask, legacy, dbVars, history>>

\* Mutant: the arguments of set_user_id are swapped.
Commit_StampsGithub(c) ==
  /\ pc[c] = "commit"
  /\ users' = users \union IF inserted[c] THEN {ask[c].workos} ELSE {}
  /\ waitlist' = IF stamped[c]
                 THEN [waitlist EXCEPT ![G(c)].user = G(c)]
                 ELSE waitlist
  /\ Finish(c, "ok")
  /\ UNCHANGED <<ask, legacy, history>>

\* The transaction of jwt_auth_layer commits.
Commit(c) ==
  /\ pc[c] = "commit"
  /\ users' = users \union IF inserted[c] THEN {ask[c].workos} ELSE {}
  /\ waitlist' = IF stamped[c]
                 THEN [waitlist EXCEPT ![G(c)].user = ask[c].workos]
                 ELSE waitlist
  /\ Finish(c, "ok")
  /\ UNCHANGED <<ask, legacy, history>>

\* Mutant: joining again overwrites the application.
Enlist_Upsert(c) ==
  /\ pc[c] = "list"
  /\ waitlist' = [waitlist EXCEPT ![G(c)] = NewEntry]
  /\ Finish(c, "listed")
  /\ UNCHANGED <<ask, legacy, users, history>>

\* WaitlistRepository::insert, a statement of its own: INSERT ... ON
\* CONFLICT (github_id) DO NOTHING.
Enlist(c) ==
  /\ pc[c] = "list"
  /\ \/ /\ ~waitlist[G(c)].listed
        /\ waitlist' = [waitlist EXCEPT ![G(c)] = NewEntry]
        /\ Finish(c, "listed")
     \/ /\ waitlist[G(c)].listed
        /\ Goto(c, "relist")
        /\ UNCHANGED <<waitlist, txVars>>
  /\ UNCHANGED <<ask, legacy, users, history>>

\* The row that was in the way is fetched, unless it is gone by now.
FetchListed(c) ==
  /\ pc[c] = "relist"
  /\ Finish(c, IF waitlist[G(c)].listed THEN "listed" ELSE "error")
  /\ UNCHANGED <<ask, legacy, dbVars, history>>

\* A statement fails, or the request timeout or a crash drops the handler.
Rollback(c) ==
  /\ Running(c)
  /\ Finish(c, "error")
  /\ UNCHANGED <<ask, legacy, dbVars, history>>

\* The operator approves an application, or deletes it.  Both statements
\* wait for a transaction that has the row locked.
RowFree(g) == \A c \in Call : StampPending(c) => G(c) # g

Approve(g) ==
  /\ waitlist[g].listed
  /\ RowFree(g)
  /\ waitlist' = [waitlist EXCEPT ![g].approved = TRUE]
  /\ approved' = approved \union {g}
  /\ UNCHANGED <<ask, legacy, users, pc, txVars, known, scrubbed>>

Scrub(g) ==
  /\ waitlist[g].listed
  /\ RowFree(g)
  /\ waitlist' = [waitlist EXCEPT ![g] = NoEntry]
  /\ scrubbed' = scrubbed \union {g}
  /\ UNCHANGED <<ask, legacy, users, pc, txVars, known, approved>>

Serve(c) ==
  \/ FindUser(c)
  \/ Identify(c)
  \/ CheckGate(c)
  \/ CreateUser(c)
  \/ SetUserId(c)
  \/ Commit(c)
  \/ Enlist(c)
  \/ FetchListed(c)

Next ==
  \/ \E c \in Call : Start(c) \/ Serve(c) \/ SetUserIdFails(c) \/ Rollback(c)
  \/ \E g \in Github : Approve(g) \/ Scrub(g)

Spec == Init /\ [][Next]_vars

\* The server keeps executing a request it has received.
FairSpec == Spec /\ \A c \in Call : WF_vars(Serve(c))

-----------------------------------------------------------------------------
(***************************************************************************)
(* Properties.                                                             *)
(***************************************************************************)

\* Every variable has the type of the column or local it stands for.
TypeOK ==
  /\ ask \in [Call -> Ask]
  /\ legacy \subseteq users
  /\ users \subseteq Workos
  /\ waitlist \in [Github -> Entry]
  /\ pc \in [Call -> {"idle", "find", "identify", "gate", "create", "stamp",
                      "commit", "list", "relist"} \union Outcome]
  /\ inserted \in [Call -> BOOLEAN]
  /\ stamped \in [Call -> BOOLEAN]
  /\ known \in [Call -> BOOLEAN]
  /\ approved \subseteq Github
  /\ scrubbed \subseteq Github

\* With the gate on, resolve_user provisions nobody whose GitHub identity
\* was never approved, whatever joins, approvals, scrubs and logins race.
NoUserWithoutApproval ==
  Gate => \A w \in users \ legacy : Identity[w] \in approved

\* One GitHub account is one user, whichever WorkOS ids it comes with and
\* however many of them are provisioned at once.
OneUserPerGithub ==
  \A v, w \in users : Identity[v] = Identity[w] => v = w

\* A provisioned user and the stamp on its application are committed
\* together: an application that was not scrubbed names the user it
\* admitted.
ProvisionedIsStamped ==
  Gate => \A w \in users \ legacy :
    Identity[w] \notin scrubbed => waitlist[Identity[w]].user = w

\* The fast path of resolve_user: a request of a user that is already there
\* is never refused for the state of the waitlist.
KnownUserNeverRefused ==
  \A c \in Call : known[c] => pc[c] \notin Refusal

\* Joining again, logging in and racing with either never takes an
\* application, its approval or its stamp away; only a scrub does.
ApplicationsOnlyAdvance ==
  [][\A g \in Github : g \notin scrubbed' =>
       /\ waitlist[g].listed => waitlist'[g].listed
       /\ waitlist[g].approved => waitlist'[g].approved
       /\ waitlist[g].user # NoUser => waitlist'[g].user = waitlist[g].user]_vars

\* auth.rs:190 says of the stamp "a `set_user_id` failure does not roll back
\* the user": the user of a call that failed there is in the table.
UserSurvivesStampFailure ==
  \A c \in Call : pc[c] = "stamp_failed" => ask[c].workos \in users

\* auth.rs:152 says of the gate "approved provisions a user": a request it
\* lets through does not fail for the users that are already there.
ApprovedProvisionsAUser == \A c \in Call : pc[c] # "conflict"

\* Transactions that insert the same user or stamp the same application
\* wait for each other but never for ever, whether they commit or roll back.
EveryCallAnswered == \A c \in Call : Running(c) ~> pc[c] \in Outcome
=============================================================================
