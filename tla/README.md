# Verification of TokenOverflow

TLA+ models of TokenOverflow, the question-and-answer service for coding
agents: what its API, its authentication and its data keeping promise, checked
by TLC on small instances and, where it matters most, proved by TLAPS for every
value of the constants. Paths are relative to the root of the repository
(`src/` in `PROJECT.json` stands for that root).

## 1. The system

TokenOverflow is a Rust API (`apps/api`, axum on Lambda or as a standalone
server) in front of PostgreSQL, a Rust job that copies the Stack Overflow tag
vocabulary into the database (`apps/so_tag_sync`), a small embedding service
(`apps/embedding_service`), and a TanStack Start site whose server part is the
backend-for-frontend (BFF) for signing up (`apps/web`). WorkOS issues the
tokens, GitHub is the identity.

| Component | State | Operations | Interacts with |
|---|---|---|---|
| **Voting** (`services/answer.rs`, `repository/postgres/answer.rs`, `answers/`, MCP `upvote_answer`, `downvote_answer`) | `votes` rows, counters `upvotes`, `downvotes` on `answers` | submit an answer, upvote, downvote | pool; PostgreSQL row locks and the `prevent_self_vote` trigger |
| **User provisioning and waitlist gate** (`services/auth.rs`, `api/middleware.rs`, `repository/postgres/user.rs`, `waitlist.rs`, `routes/waitlist.rs`) | `users`, `waitlist` | authenticate, provision, stamp, join; an operator approves and scrubs | token validation before it; WorkOS and GitHub; pool |
| **JWKS cache and token validation** (`services/auth.rs`) | the cached key set and its age, per process | look up, fetch, store, validate, refresh and retry | the JWKS endpoint; the request timeout |
| **Connection pool** (`db/pool.rs`) | one connection per process | check out, time out, return | every handler |
| **Request pipeline** (`api/server.rs`, `api/middleware.rs`) | requests in flight | timeout, shutdown | every handler |
| **Questions** (`services/question.rs`, `repository/postgres/question.rs`, `tag.rs`, MCP `submit`, `submit_answer`) | `questions`, `question_tags`, `answers` | submit with a first answer, answer, read | tag resolver, embedding, pool |
| **Search** (`services/search.rs`, `repository/postgres/search.rs`) | none of its own | search by vector and tags | tag resolver, embedding |
| **Tag resolution** (`services/tag_resolver.rs`) | three maps behind three locks, loaded at start-up | resolve, refresh | `tags`, `tag_synonyms` |
| **Tag sync** (`apps/so_tag_sync`) | `tags`, `tag_synonyms`, a watermark derived from them | incremental, full and from-file sync | Stack Exchange API with retries; files |
| **Web sign-up flow** (`apps/web/src/routes/auth`) | the state cookie | start, callback | WorkOS, the waitlist endpoint |
| **OAuth proxy, health check** | none | forward to AuthKit, query the database | request timeout; pool |
| **MCP routing, embedding service, configuration, static site** | none that outlives a request | route, compute, render | - |

What is hard in each, and the properties that make it right:

* *Voting.* Counters are denormalised. Nothing recomputes them, so a single
  lost update, a half-committed vote or a vote counted twice stays wrong for
  good. Requests of different processes interleave between the statements of a
  READ COMMITTED transaction; a handler may be dropped at any await; a client
  retries after a lost reply. Right means: counters equal the tally; vote and
  counters change together; an acknowledged vote stands; transactions that wait
  for each other's rows all end.
* *Provisioning.* Approval is read without a lock before the user is inserted;
  two first logins of one GitHub account race; the stamp comes after the insert;
  the operator edits the same rows. Right means: nobody gets in unapproved; one
  user per GitHub account; user and stamp together; a user who is in is never
  sent back to the waitlist; an application is never lost by joining again.
* *JWKS cache.* Read, fetch and store are three steps with other requests in
  between, and the endpoint rotates meanwhile. Right means: a retired key is not
  accepted for longer than a known time; the retry after a miss uses the keys
  just fetched; every validation ends.
* *Pool and pipeline.* One connection, two checkouts per request, calls of
  other services while the connection is held, a shutdown that waits for all of
  it. Right means: no request waits for itself or keeps a connection it does not
  use; a shutdown ends.
* *Questions and search.* A question, its answer and its tags are inserted by
  five statements; a question or a search result is read by three, without a
  snapshot. Right means: a question appears as a whole or not at all; what is
  shown existed at one instant; what a client is told of its post is so.
* *Tag resolution.* Every process has a copy of the tags, as old as the process,
  while the sync goes on. Right means: what a tag is resolved to is in the table
  and resolves to itself; no resolved tag is lost; a filtered search answers it.
* *Tag sync.* Commits in several pieces, a watermark that is a timestamp of
  something else. Right means: what is lost is known; what is reported as synced
  is complete.
* *Sign-up.* One cookie for all tabs, a redirect, a code that is good once, two
  services that may not answer. Right means: success is only shown to who is
  listed; a code leads to one application at most; an undisturbed flow works;
  every callback ends.

`PROJECT.json` lists every hazard with its line and the properties that cover
it, or why none does.

## 2. The modules

| Module | Models | Extends / uses |
|---|---|---|
| `VoteLedger` | abstract: a vote is one atomic step | - |
| `Voting` | the vote handler, statement by statement | `INSTANCE VoteLedger` |
| `VotingProofs` | theorems about `Voting` | `Voting`, TLAPS |
| `Provisioning` | authentication transaction, waitlist, operator | - |
| `ProvisioningProofs` | theorems about `Provisioning` | `Provisioning`, TLAPS |
| `JwksCache` | token validation, key cache, rotation, clock | - |
| `JwksCacheProofs` | theorems about `JwksCache` | `JwksCache`, TLAPS |
| `TagTables` | abstract: the two tag tables, as the sync may change them and the API relies on them | - |
| `TagSync` | the command that mirrors Stack Overflow's tags | `INSTANCE TagTables` |
| `TagSyncProofs` | theorems about `TagSync` | `TagSync`, TLAPS |
| `TagResolver` | the tags in the database and their copy in each process; resolution | `INSTANCE TagTables` |
| `TagResolverProofs` | lemmas about `TagResolver` | `TagResolver`, TLAPS |
| `QuestionBoard` | abstract: posts and readers meet in atomic steps | - |
| `Questions` | submit, answer, read, search, statement by statement, on several processes | `TagResolver`; `INSTANCE QuestionBoard` |
| `QuestionsProofs` | the invariants of `Questions` | `Questions`, `TagResolverProofs`, TLAPS |
| `QuestionsRefinement` | `Questions` implements `QuestionBoard` | `QuestionsProofs` |
| `ApiProcess` | one process: token, checkouts, timeouts, shutdown | - |
| `SignUp` | browser, BFF and AuthKit around an API process | `ApiProcess` |
| `SignUpProofs` | theorems about `SignUp` and its API process | `SignUp`, TLAPS |
| `MCVoting`, `MCProvisioning`, `MCJwksCache`, `MCTagSync`, `MCQuestions`, `MCSignUp` | instances for TLC | the six components |

### Conventions

A *call* is one request. `pc[c]` names the statement it executes next, or its
outcome. Each statement that PostgreSQL executes atomically, and each stretch of
code between two awaits that touches shared state, is one action. Rows in the
variables are *committed* rows; what an open transaction has written lives in
per-call variables until its commit action publishes it. Row locks are derived
from the program counters: `HoldsVoteRow(c)` is "c's transaction has written the
votes row and has not ended". A statement that has to wait for a lock is a
disabled action.

A dropped handler (request timeout, client gone) is an action that ends the
call as an error at whatever point it was: `Rollback`, `LoseReply`, `Drop` or
`Fail`. A connection dropped inside a transaction is discarded by the pool
(bb8 and diesel-async, external), so that PostgreSQL rolls back, unless the
statement that commits had been sent: then PostgreSQL may still execute it, after
the client was told that the request failed and the pool has a new connection.
That is `DropInCommit`, followed by `Settle` (Voting) or `LateCommit` (Questions).
In `Provisioning`, where calls of one person may run at once and nothing depends on
what their client heard, such a call is one that has not committed yet.

An MCP tool is not dropped. `api/server.rs:71-79` mounts rmcp's service in
its stateless mode, in which it runs each tool in a task of its own (rmcp 1.6.0
in `Cargo.lock`, external), and `TimeoutLayer` drops only the future that waits
for the result. After the 408 the tool goes on, with its connection and its
transaction, until it ends or the process does. In `ApiProcess` and `Questions`
such a request is in `abandoned`; in `Voting` it is a call that goes on and whose
reply is lost (`LoseReply`), while its client may send the next one.

### Voting

`ask[c]` is the request (user, answer, value, process). `Checkout` and
`CheckoutTimeout` are `state.pool.get()` on a pool of one connection.
`GuardSelfVote` is `guard_self_vote`, a query outside the transaction.
`ReadVote`, `WriteVote`, `AdjustCounters` and `Commit` are the statements of
`PgAnswerRepository::vote`: the `SELECT` takes no lock; the `UPDATE` or
`INSERT .. ON CONFLICT` takes the votes row; `upvotes = upvotes + 1` takes the
answers row and computes from its latest committed version (`Adjusted`). The
same vote again skips the writes. Upvotes and downvotes are one action each with
the value as a parameter: the code's two match arms mirror each other.

`Ledger` is `VoteLedger` under the identity mapping of the committed rows, so
`ImplementsLedger` says: seen from the outside, the protocol is the atomic
ledger.

`RetryElsewhere` says whether a client may send a second vote on an answer
through another process while its first one is running, also after it had a 408
for it; `LateCommits`, whether a COMMIT may come after its handler was
dropped. `Serialised`, the condition of the exact properties, is: there is no
second vote elsewhere, or there is one process only; and no late COMMIT.
Retries through the same process are always allowed: the pool of one connection
keeps them apart, and the run and the proof of `CountersMatchVotes` rest on it.

Without that condition the counters drift, and two properties say how far.
`CountersCoverVotes`: the two of an answer *together* are never short of its
votes. One of them can be: two flips of one user's downvote that race both run
`downvotes - 1, upvotes + 1`, and the column then lacks another user's vote or is
negative. `OnlyRepeatedFlipsLoseVotes` bounds it per column: what is missing is
no more than the calls for the opposite vote that some user made more than once.

### Provisioning

`FindUser`, `Identify`, `CheckGate`, `CreateUser`, `SetUserId`, `Commit` are the
steps of `resolve_user` inside the transaction of `jwt_auth_layer`. `Identify`
also stands for the WorkOS and GitHub lookups, as one step that answers or
fails. `Enlist` and `FetchListed` are the two statements of
`WaitlistRepository::insert`; `Approve` and `Scrub` are the operator's SQL,
external to the program. `known`, `approved`, `scrubbed` are history. The set of
users at the start is any set with distinct GitHub ids, each with its
`github_id` recorded; the column is nullable in the schema, and a row without it
would be looked up at WorkOS on the join path. No code deletes a user.

### JWKS cache

`Lookup`, `Load` and `Store` are `get_jwks`, `load_jwks` and `refresh_jwks`, cut
where the code awaits or releases the lock. `Conclude` is
`try_validate_with_kid` and what `validate_jwt` makes of it. `stage` tells the
first try, the refresh after a miss and the retry apart. Signature and claims
are one choice between accepted and invalid. `Publish` and `Retire` are the
endpoint (external), `Tick` is the clock; it does not pass a running call's
`started + Timeout`, which is what `TimeoutLayer` guarantees. `alone` is history.
`Ttl = 0` means the cache never expires, as in the code.

### Tag sync

`recent`, `popular` and `aliases` are the three listings Stack Overflow serves.
`Activity` and `Alias` add to them or bring an item to the front, `Decline`,
`Leave` and `Withdraw` let a tag fall behind another, a tag go and a synonym go;
all at any time, also between two pages. The code asks for pages by number, so
the last three may carry an item that did not change from a page ahead of a run to
one it has fetched (`Slipped`): that run never sees it. `Shift` notes it, as
history, in `tagsPassed` and `synonymsPassed`, which go with the rows into the
files. One thing is assumed of Stack Overflow: the date of a tag's last activity
does not go back. A run is the command from start to exit; its locals
are `job[r]`. `TakeDate` is `get_last_sync_date` and the guard on it;
`FetchTags` and `FetchSynonyms` are one page each, in the order and with the
lower bound that the mode asks for; `SaveTags`, `SaveSynonyms`, `ReadTags`,
`ReadSynonyms` are the files; `UpsertTags` and `UpsertSynonyms` are one chunk
each, a statement that commits by itself; `Resolve` is the read of the tags table
in `upsert_synonyms`. The order of the steps differs between modes as in `main.rs`:
a full sync fetches everything before it writes, an incremental one writes its
tags before it fetches its synonyms. The up to three attempts of a request are
one step, because only the last of them has an effect. `Fail` ends a run
anywhere and may leave a truncated file.

The code stores no date of a sync; it takes the newest `created_at` of the tags.
`Behind` is what Stack Overflow has, the database lacks and that date excludes:
no later incremental sync will ask for it. `gap` is history: `Behind` at the
start, what changed in the window between fetch and write of a run that moved the
date, what slipped past such a run, what a failing run had not written yet, and synonyms skipped because their
tag was missing. `synced` is history too.

`Keep` is a filter of a list by a set: the loop of `upsert_synonyms` that passes
over synonyms of missing tags, and an item that leaves its old place in a listing.
It is a recursive function and not `SelectSeq`, so that it can be proved about.
`Horizon` is at least 1, the time of the migration.

### Tag resolution

`tags` and `synonyms` are the two tables. `Sync` changes them as `TagTables` lets a
statement of the tag sync: it adds tags, or synonyms of tags that are there, and
leaves rows that are there as they are. That it only does that is what makes old
copies safe, and that the command does it is `ImplementsTables` of `TagSync`: the
two components meet in `TagTables`. `LoadSynonyms` and `LoadCanonicals` are
the two queries of `TagResolver::new`, in the order of the code. `Exit` ends a
process at any time, also between the two. `Resolve` has the three layers of
`resolve`; the Jaro-Winkler similarity is a constant table of scores. Of several
closest tags the code takes the last one in the order of the table; here it is
any one, always the same.

### Questions

A request goes from statement to statement; `pc[c]` names the next. `Embed` is
the call of the embedding service with all its retries. `InsertQuestion`,
`FindTagIds`, `LinkTags` and `Commit` are a submission: the route and the MCP
tool each open a transaction around `QuestionService::create`, in which the
transaction of the repository is a savepoint, so that nothing is visible before
`Commit`. Question and answer ids are fresh, so a post has the name of its
request. `InsertAnswer`, one statement, commits by itself; its foreign key is the
only check that the question is there (`NotFound`). `GetQuestion`, `GetTags`,
`GetAnswers` and `Match`, `SearchAnswers`, `SearchTags` are the reads, in the
order of the code. `Refuse` is every refusal before the checkout: validation,
and the preview an MCP tool returns for an unconfirmed post. `End` with
"refused" is a response that says that nothing was posted; with "over" the client
learns nothing (a server error, a timeout, a lost reply, a crash). `Drop`,
`DropInCommit` and `Abandon` are the request timeout of a handler, of one whose
last statement is under way, and of an MCP tool; there is no tool that reads a
question (`Tool`). A tool is abandoned only once it has its connection, since it
waits for that for 5 s and the request timeout is 30 s. Votes do not
appear: they are in `Voting`, and a reader of a question shows counters that were
committed when it read them.

`Board` maps the committed tables to those of `QuestionBoard`, the response a
client gets to `told`, and what a reader will send to `shown`, from its last read
of something that can change.

### API process

`ApiProcess` is what `Voting` and `Questions` leave out: a request of a protected
route takes the connection of its process twice, once in `jwt_auth_layer`
(`"resolve"`, where WorkOS and GitHub may be asked) and once in its handler. The
work of a handler is one step, `Work`. `RequestTimeout` answers 408; it drops a
handler wherever it is, and leaves an MCP tool where it is (`InTool`,
`abandoned`), with the connection if it has it. `Signal` stops the listener,
`Stop` is the end of `axum::serve`, which waits for requests and not for such
tools; they end with the process. A request of /mcp that calls no tool ends
before its checkout like one that is refused.

### Sign-up

A *tab* is one sign-up, with its state token, its code and its applicant; a *load*
is one request of the callback URL. `cookie` is the one state cookie of the
browser, named by the tab whose token it has. `Open` is the handler up to the
call of AuthKit: the query, the cookie, the state, the provider's error. `Exchange`
is `exchangeCode`; that a code can be redeemed once is AuthKit's part (external).
`RefusalUnread` is `describeNon2xx` failing to read the body, which nothing
catches. `SendToApi` makes the load a request of the API process, and the two go
on independently: after `ApiCallFails` the process may still insert the row.
`AddToWaitlist` is `Work` with the row. `Land` is the browser getting the
redirect, whose `set-cookie` clears the cookie whichever flow it belongs to.
`disturbed` is history. Signed cookies are taken to be unforgeable, and
`auth_mode = "bypass"`, for local tests, is left out.

## 3. The runs

Every instance lets all requests be anything: who asks what of which process is
chosen in `Init`. Deadlock checking is off in all runs, because every behaviour
ends when all requests have been answered, or when the bounds on runs, changes
and the clock are reached.

| Run | Instance | Shows |
|---|---|---|
| `voting_serial` | 3 calls, 3 processes, 3 users, 2 answers, retries through the same process | types, `CountersMatchVotes`, `ImplementsLedger` |
| `voting_racing` | 3 calls, 3 processes, 3 users, 1 answer, retries anywhere, late COMMITs, fairness | `CountersCoverVotes`, `OnlyRepeatedFlipsLoseVotes`, `AcknowledgedVoteStands`, `EveryCallAnswered` |
| `voting_retry` | 2 calls | *violation*, section 5 |
| `provisioning` | 3 calls, 2 WorkOS ids of one GitHub account and a third, gate on, fairness | types, `NoUserWithoutApproval`, `OneUserPerGithub`, `ProvisionedIsStamped`, `KnownUserNeverRefused`, `ApplicationsOnlyAdvance`, `EveryCallAnswered` |
| `provisioning_stamp`, `provisioning_twin` | 2 calls | *violations*, section 5 |
| `tag_sync` | 2 tags, one of them seeded, 2 synonyms, pages and chunks of 1, 2 runs of any mode at once or in turn, 2 changes of the listings, clock to 2 | types, `OnlyKnownGaps`, `SyncedIsComplete`, `ImplementsTables` |
| `tag_sync_lost` | the same with 3 runs in turn, clock to 3 | *violation*, section 5 |
| `tag_sync_dry` | the same | *violation*, section 5 |
| `jwks` | 2 calls, 2 keys, TTL 2, timeout 1, clock to 4 | types, `RetiredKeysExpire`, `RetrySeesRefreshedKeys`, `ValidationEnds` |
| `questions` | 3 requests of any kind, 2 processes, 3 tags (one migrated, one synced, one synonym of that), searches of 2, one request at a time at work after its 408 | types, `ResolutionSettles`, `NoResolvedTagDropped`, `SearchAnswersTheTags`, `ImplementsBoard` |
| `sign_up` | 2 tabs, 2 loads of the callback in any of them, one more request of the API process (an MCP tool or the proxy), a shutdown, fairness | types, `OnlyUsersHoldTheConnection`, `SuccessMeansListed`, `OneCallPerSignUp`, `OnlyDisturbedFlowsAreInvalid`, `DrainEnds`, `CallbackEnds` |

*Bounds.* Three votes are the smallest number with two writers and a third party
whose row or counter they could disturb, with a flip after a vote, and with a
retry racing both; with three processes none waits for another's connection.
Two GitHub accounts, one of them with two WorkOS ids, give every collision of
the two unique keys and a bystander; two calls meet at a key and the third may
join or log in between. The clock runs to 4 with a TTL of 2 and a timeout of 1:
a set can be fetched at 0, stored at 1, go stale and be fetched again. Where a
theorem states the same property, the bound does not matter. The gate is on in
the provisioning runs, because the paths with it off are a part of those with it
on; the theorems hold for either setting.

For tag sync, two tags with pages and chunks of one make a second page, a tag
that moves between the two, and a failure between two chunks; two runs are enough
for one to move the date under the other, for a file to be loaded by another run
than the one that saved it, and for an incremental sync after one that failed.
Two tags and two synonyms of one date are the least from which an item can leave
while the other is on the next page, for a run in any mode (`OneOrder` has such
listings among its initial states); `FewChanges` leaves out what does not lead
there: listings that shrink while no run is past its first page, two synonyms
that do anything else. With the migration at time 1, a change at 1 and a write at 2 lie on the two sides
of a date. `FlagsThatMatter` leaves out incremental runs with `--dry-run`, which
behave as those without it (`tag_sync_dry` has them).

For questions, three requests are a submission, an answer to its question and a
reader that sees the two, or two submissions and a search of both. Two processes
are needed for any two statements to interleave, and for one to have an older
copy of the tags than the other. One request at a time is still at work after its
client's 408 (`OneOutlives`): two of them would be two requests that post as they
do without a timeout and whose clients see nothing. A process starts once: one that
would start again is one that starts later, which the second is. The second tag resembles the
first, so that a process with an old copy resolves it to the first, and one with
a new copy to itself. `AsksForTags` leaves out requests without tags, which are
served as those whose tags resolve to nothing. For sign-up, two tabs are enough
to overwrite and to clear each other's cookie and two loads to reload one of
them; the third request takes the connection before, between or after theirs, as
a protected one does twice and an MCP tool keeps it after its 408, or waits for
AuthKit as the proxy does.

*Symmetry.* The `jwks` run uses TLC's symmetry for calls and keys, `tag_sync` for
runs, `questions` for requests and processes. In `sign_up`, which checks
liveness, the first tab to be started is `t1` (`MCInit`). The two
passing voting runs take one initial state of each class of renamed calls,
processes and answers instead (`OneOfEach` in `MCVoting`), which is also sound
for liveness.

*Fairness.* `FairSpec` adds weak fairness of `Serve(c)` for each call: the
runtime keeps polling a request it has received, and PostgreSQL executes a
statement whose lock is free and settles the COMMIT of a dropped handler. Nothing
makes a client send, a statement fail, an operator act, a key rotate or the clock
tick. Weak fairness is enough for `Checkout` and the locks because each call runs
once: those that stand in the way run out. For Voting, a call that waits at the
pool may also be turned away by `CheckoutTimeout`. Token validation waits for
nobody, so it needs no fairness: `ValidationEnds` says that each step of a
request leaves it fewer to go. In `SignUp` only timers are fair: `RequestTimeout`
of the API process (tower's `TimeoutLayer`), `LambdaTimeout` of the BFF (the
limit in its deployment), `Stop` once nothing is left to wait for, and that the
browser gets a redirect. Nothing is assumed of AuthKit, WorkOS, the database or
the pool. `Questions` states no fairness and no liveness: its requests run in
`ApiProcess`.

## 4. The proofs

All theorems hold for arbitrary sets of users, answers, calls, processes, keys
and so on. Assumptions on constants: `User` is finite (its votes are counted),
so are the `Tag` and `Synonym` of `TagSync` (they are listed),
`Author` maps answers to users, `Identity` maps WorkOS ids to GitHub ids,
`Call` of `Voting` is finite (repeated calls are counted),
`NoUser` is not a WorkOS id, pages and chunks are not empty, seeded synonyms have
seeded tags, times are naturals, switches are Booleans. What bounds a model for TLC
(`Horizon`, `MaxChanges`, `MaxStarts`) is any natural in the proofs.

* `VotingProofs`. `TypeCorrect`. `ProtocolHolds` is the inductive invariant of
  the protocol: two transactions never hold the same votes row or the same
  answers row, a running transaction has passed the guard, and what it holds
  uncommitted (`row`) is what the counters of the *current* committed row give,
  which is true because the row is locked. `CountersCover` strengthens
  "counters cover voters" with what each open transaction is about to do: the
  vote it read may be stale, but votes are never deleted, so the stale read that
  matters to the sum is one of "no vote" and errs on the side of counting more.
  `ColumnsKeepTheirVotes` is the bound per column: the old vote that a flip found is
  still there when it commits, unless its user has made the same call again
  (`FlipsAreFresh`); so what a column lacks is no more than the repeated calls that
  have ended (`ColumnsCovered`). `AcknowledgedVotesStand` tracks the vote
  from its commit to the reply. `TallyCorrect` assumes `Serialised`: then the
  old vote a transaction read is still the vote that is there when it writes,
  and the counters move by exactly the difference of two cardinalities.
  `VotingImplementsLedger` maps every step to a ledger step or a stutter; all of
  it happens in `Commit`.
* `ProvisioningProofs`. `TransactionsHold` is the inductive invariant: whoever
  is past the gate is approved; two transactions with an inserted user have
  different GitHub ids; a transaction that is to commit a new user carries its
  stamp unless the application was scrubbed; a stamped application stays listed
  while the row is locked. `GateHolds`, `UsersUnique` and `StampsAtomic` follow.
  `FastPathHolds` has an invariant of its own: a request of a known user is on
  the fast path or is a join. `ApplicationsAdvance` adds that a stamp names the
  committed user of its own GitHub id, so that with one user per GitHub id a
  second stamp of a row can only repeat the first.
* `JwksCacheProofs`. `RetiredKeysRefused`: what a call has fetched was published
  no earlier than its start; what is in the cache was published no earlier than
  `Timeout` before it was stored; a usable cache is younger than `Ttl`; a call
  is no older than `Timeout`. `RetryOnRefreshedKeys`: while a request has run
  alone, the cache is what it fetched from its store to the end of its retry.
  `EveryValidationEnds` follows from the types: `StepsLeft` is a measure.

* `TagSyncProofs`. `Invariance` is one inductive invariant for all of the command,
  `IInv`, with which the properties are short. Its parts:
  * `ListingsOK`: Stack Overflow's listings are sorted, name nothing twice, know no
    future, and rank every tag. `FrontKeepsOrder` and `RemovalKeepsOrder` have what
    it needs of a change: a new item comes to the front and every other stays where
    it is or moves back by one; or an item goes.
  * `TagsFetched`, `SynonymsFetched`, per run: what the run asks for, did not change
    since it began and did not slip past it is in its hands, on a page it has still
    to fetch, or (a tag) already in the table. Activity between two pages only moves
    items back, so no page can miss one; what a shrinking or reordered listing moves
    to the front is still ahead or has slipped (`ShiftKeeps`, for the three actions
    at once); that a lower bound on the date cuts a listing to a prefix
    (`KeepSince`) makes the pages of an incremental run those of the whole listing.
  * `SynonymsCurrent`: what a run has fetched of a synonym is what Stack Overflow
    still has, unless that changed since; so the first of two rows of one synonym,
    which a run keeps, is as good as the second. `SynonymsResolved`: once synonyms of
    missing tags are dropped, the rest can be inserted, because rows never go.
  * `Asks`, `FilesOK`: no run has begun in the future; an incremental run asks from
    a date not later than the last sync's, which never goes back
    (`SyncDateGrows`); a readable file has what was there when its run began.
  * `TagsCovered`, `SynonymsCovered`: an item that is missing and older than the date
    of the last sync is in `gap` or *sure to be written* by some run that does not
    fail (`SureTags`, `SureSynonyms`). This is stronger than `OnlyKnownGaps`, which
    says that it is *pending*, and which is not inductive: a run may have pending what
    it will not write, such as a synonym that changed behind the pages it has fetched.
    That one must be sure to be written by another run, or recorded.
  * `Shape`: which locals a run has set, by where it is; `DatesOK`: no row is from
    the future.

  `TypeCorrect`, `LossesKnown`, `EndsComplete` follow. `TablesImplemented` is the
  refinement of `TagTables`: a chunk of tags is `InsertTags`, a chunk of synonyms
  `InsertSynonyms` (that needs `SynonymsResolved`: another run may have changed the
  table since this one read it, but only by adding rows), all else a stutter. What
  `Keep` returns is proved by induction over its domain as a *set* of naturals
  (`Inductive`, from the library's theorem that the naturals are well-founded), which
  needs no theorem with an operator parameter.

* `QuestionsProofs`, on the lemmas of `TagResolverProofs`. The part about tags,
  `TagInv`, is inductive by itself: tables only grow, a synonym has a tag that is
  in the table, so a copy of the synonyms made before a copy of the names only
  has synonyms of tags among those names, all of which are in the table. The part
  about requests says for each step what a request has in hand: the process that
  serves it is up (else its resolver would be empty), a submission has found
  exactly what it resolved, a reader has questions that are there, with the tags
  they have (which never change) and, after a filtered search, tags that match.
  `RequestsStayConsistent` is the whole; the four properties follow.
* `QuestionsRefinement`. `BoardImplemented`: with that invariant, every step is a
  step of `QuestionBoard` or a stutter. A submission is `Post` at its commit and an
  answer `Answer` at its insert; a lost reply and a crash are `Close`; a refusal or
  an acknowledgement is `Tell`; a reader is `Show` at the read of the answers, for
  a search one read before the last: that its tags are read later does not matter
  because they cannot change. A tool that posts after its client's 408, and a
  statement that is executed late, are `Post` or `Answer` all the same; nobody is
  told anything of them. That a post happens once needs that a request with
  the connection has not posted before; that "refused" is only said of what is
  not there needs the same.

* `SignUpProofs`. Whatever surrounds it, an API process takes the steps of
  `ApiNext`, and these keep `conn = r` in step with `r` using it, and the requests
  that are answered and still at work among the MCP tools:
  `ConnectionWithItsUser`. For the sign-ups, `SignUpsStayConsistent` says what the
  stage of a load implies for its tab, its outcome and its request; that of two
  loads of one tab only one has redeemed the code, because AuthKit redeems it
  once; that an acknowledged request has its row; and that a started tab that has
  not the cookie has been disturbed. `SuccessIsTrue`, `CodesAreGoodOnce` and
  `UndisturbedFlowsPass` follow from the three.

Where an invariant is not inductive as it stands, its strengthening was checked
by TLC before it was proved.

*Model-checked only.* Liveness (the two `EveryCallAnswered`, `DrainEnds`,
`CallbackEnds`) is out of the prover's reach, and a violation is a TLC trace. Every
other property of a passing run is also a theorem.

## 5. Where the code and its comments disagree

Five runs check what a comment says and find it refuted by what the code does.

1. `voting_retry`: `services/answer.rs:23` "Idempotent: calling twice has no
   additional effect." Two upvotes of one user that reach two processes at once
   both read no vote; the second waits for the first one's row, updates it on
   conflict, and adds one again. `upvotes` is then 2 for one vote, for good.
2. `provisioning_stamp`: `services/auth.rs:189-191` "a `set_user_id` failure does
   not roll back the user". It does: both run in the transaction of
   `jwt_auth_layer`. The user is provisioned by the next request.
3. `provisioning_twin`: `services/auth.rs:151-152` "approved provisions a user". Not when
   the GitHub account already has a user under another WorkOS id: the insert
   violates the unique `github_id`, which `ON CONFLICT (workos_id)` does not
   cover, on this and every later login.
4. `tag_sync_lost`: `main.rs:94` of so_tag_sync, "only fetch tags/synonyms newer
   than the last sync". After a good sync, a tag and a synonym appear. The next
   run upserts the tag and fails before it has fetched the synonym. The newest
   `created_at` is now later than the synonym, so the run after that ends well
   without it, and so do all later incremental ones.
5. `tag_sync_dry`: `cli.rs:27`, "do not write to DB". The incremental mode is not
   given the command line and writes all the same.

Other observations have no run of their own. The MCP tools compare lengths in
bytes with limits that their messages, the REST routes and the database count in
characters (`mcp/tools/submit.rs:81`). The MCP search tool documents at most five
tags and does not count them. Tags none of which can be resolved widen a search
to all questions. "Lambda runs one request at a time, so max_size=1 is correct"
(`db/pool.rs:13`) is not so after a timeout: a tool that waits for the embedding
service, for which `external/embedding/client.rs:37` sets no timeout, has
outlived its 408 and has the connection, which the next request waits for (the
exception in `OnlyUsersHoldTheConnection`). `/health` "returns 200 when the
database is reachable" (`api/routes/health.rs:15`), and 503 when a request keeps
the connection for longer than the checkout timeout, as a submission does that
waits for the embedding service. Listings are fetched by page number
(`apps/so_tag_sync/src/api_client.rs:124`): when one shrinks or is reordered between
two pages, an item that did not change is skipped, and incremental syncs do not ask
for it again until it is active (one of the five ways of `OnlyKnownGaps`).

One is a condition of a property instead of a run: the retry
of `validate_jwt` reads the shared cache, where a slower request may have stored
an older key set since the refresh, so a token can be refused although its key
was just fetched. `RetrySeesRefreshedKeys` therefore speaks of requests that run
alone, as all do on Lambda.

## 6. What is not modelled

* Text, embeddings, ranking, similarity: data no property is about.
* Logging, headers, CORS, error bodies, OpenAPI, discovery documents, the
  rewriting of proxied OAuth parameters, the framing of MCP, the
  computation of embeddings: no state that outlives a request.
* Configuration, migrations, the landing page, infrastructure and scripts:
  sequential, or run once, or static. The schema is in the modules that use it.
* `TagResolver::refresh` and the elicitation helper: nothing calls them.
* Failing statements are not told apart by cause.
* PostgreSQL's READ COMMITTED, its row locks and its waiting on unique keys are
  modelled from how the statements use them.
* `Voting`, `Provisioning`, `Questions` and `ApiProcess` are not composed into
  one specification: they meet in the pool, which each of them has, and in
  `answers`, whose rows `Questions` adds and whose counters `Voting` changes.

## 7. The plan

1. *done* `VoteLedger`, `Voting`, `VotingProofs`; `Provisioning`,
   `ProvisioningProofs`; `JwksCache`, `JwksCacheProofs`; `TagSync`,
   `TagSyncProofs`.
2. *done* `TagTables`, `TagResolver`, `QuestionBoard`, `Questions` and their
   proofs; `ApiProcess`, `SignUp`, `SignUpProofs`.
3. Next: what the refuted comments of section 5 promise under a condition, as
   theorems where the condition can be stated of the code (an incremental sync after
   one that ended well and alone; a vote whose user has no other in flight).
