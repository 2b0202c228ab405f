------------------------------ MODULE Questions ------------------------------
(***************************************************************************)
(* Questions and answers: how the REST routes and the MCP tools post,      *)
(* read and search them, on several API instances over one database.  Each *)
(* instance has a pool of one connection and its own copy of the tags      *)
(* (TagResolver).  A request goes through the steps between which others   *)
(* may run: the calls of the embedding service and the SQL statements.     *)
(* The statements of a submission are one transaction; every other         *)
(* statement commits by itself and sees what is committed then.  An MCP    *)
(* tool runs in a task of its own and goes on when its client has had its  *)
(* 408; a statement that a dropped handler has sent may still be executed. *)
(***************************************************************************)
EXTENDS TagResolver

CONSTANTS
  Call,            \* requests; a post is named after its request
  NoCall,          \* the id of no question
  MaxTags,         \* bound: tags per request (5 in the code, but for the
                   \* search tool of the MCP server, which does not count)
  Limit            \* questions per search (1 to 10 in the code)

ASSUME NoCallAssumption == NoCall \notin Call
ASSUME LimitAssumption == MaxTags \in Nat /\ Limit \in Nat \ {0}

VARIABLES
  questions,   \* committed rows of api.questions
  links,       \* links[q]: committed rows of api.question_tags
  answers,     \* answers[q]: committed rows of api.answers
  ask,         \* ask[c]: the request c
  pc,          \* pc[c]: the next step of c, or how it has ended
  draft,       \* draft[c]: tags that the transaction of c has found
  got,         \* got[c]: what c has read so far, by question
  abandoned    \* tools that run on after their 408

boardVars == <<questions, links, answers>>
callVars == <<ask, pc, draft, got, abandoned>>
vars == <<tagVars, resolverVars, boardVars, callVars>>

Kind == {"submit", "answer", "get", "search"}
Request == [kind : Kind, instance : Instance, asked : SUBSET Spelling,
            target : Call \union {NoCall}]
NoRequest == [kind |-> "none"]
Content == [tags : SUBSET Tag, answers : SUBSET Call]
Reading == UNION {[S -> Content] : S \in SUBSET Call}
Nothing == [q \in {} |-> {}]

\* What the MCP server has a tool for.
Tool == Kind \ {"get"}

\* The statement or call that follows the checkout.
FirstStep == [submit |-> "embed", answer |-> "answer",
              get |-> "question", search |-> "embed"]

\* Steps taken with the connection of the instance.
Holding == {"embed", "insert", "find", "link", "commit", "answer",
            "question", "tags", "answers", "match", "found_answers",
            "found_tags"}
Running == Holding \union {"sent", "reply"}
\* The client knows that its post is there, knows that it is not, or knows
\* nothing: a server error, no response at all, or nothing was posted.
Ended == {"created", "refused", "over"}

Resolved(c) == ResolveTags(resolver[ask[c].instance], ask[c].asked)

-----------------------------------------------------------------------------
Init ==
  /\ TagInit
  /\ questions = {}
  /\ links = [q \in Call |-> {}]
  /\ answers = [q \in Call |-> {}]
  /\ ask = [c \in Call |-> NoRequest]
  /\ pc = [c \in Call |-> "idle"]
  /\ draft = [c \in Call |-> {}]
  /\ got = [c \in Call |-> Nothing]
  /\ abandoned = {}

Goto(c, step) == pc' = [pc EXCEPT ![c] = step]

\* The request ends; what it has staged and read is gone, and nobody hears the
\* last word of a tool that was abandoned.
End(c, word) ==
  /\ Goto(c, IF c \in abandoned THEN "over" ELSE word)
  /\ abandoned' = abandoned \ {c}
  /\ ask' = [ask EXCEPT ![c] = NoRequest]
  /\ draft' = [draft EXCEPT ![c] = {}]
  /\ got' = [got EXCEPT ![c] = Nothing]

Send(c, r) ==
  /\ pc[c] = "idle"
  /\ Up(r.instance)
  /\ ask' = [ask EXCEPT ![c] = r]
  /\ Goto(c, "sent")
  /\ UNCHANGED <<tagVars, resolverVars, boardVars, draft, got, abandoned>>

\* What the client may ask: tags only where the request has them, an id only
\* where it has one.
Requests ==
  [kind : {"submit", "search"}, instance : Instance,
   asked : {A \in SUBSET Spelling : Cardinality(A) <= MaxTags},
   target : {NoCall}]
  \union
  [kind : {"answer", "get"}, instance : Instance, asked : {{}},
   target : questions \union {NoCall}]

\* The validation of lengths, tags and ids, and the preview that the MCP
\* tools return for a post that is not confirmed.
Refuse(c) ==
  /\ pc[c] = "sent"
  /\ End(c, "refused")
  /\ UNCHANGED <<tagVars, resolverVars, boardVars>>

Busy(i) == \E d \in Call : pc[d] \in Holding /\ ask[d].instance = i

Checkout(c) ==
  /\ pc[c] = "sent"
  /\ ~Busy(ask[c].instance)
  /\ Goto(c, FirstStep[ask[c].kind])
  /\ UNCHANGED <<tagVars, resolverVars, boardVars, ask, draft, got, abandoned>>

CheckoutFails(c) ==
  /\ pc[c] = "sent"
  /\ Busy(ask[c].instance)
  /\ End(c, "over")
  /\ UNCHANGED <<tagVars, resolverVars, boardVars>>

\* The embedding service answers.  A submission has begun its transaction
\* before it asks.
Embed(c) ==
  /\ pc[c] = "embed"
  /\ Goto(c, IF ask[c].kind = "submit" THEN "insert" ELSE "match")
  /\ UNCHANGED <<tagVars, resolverVars, boardVars, ask, draft, got, abandoned>>

EmbedFails(c) ==
  /\ pc[c] = "embed"
  /\ End(c, "refused")
  /\ UNCHANGED <<tagVars, resolverVars, boardVars>>

-----------------------------------------------------------------------------
(***************************************************************************)
(* submit, create_question                                                 *)
(***************************************************************************)
PostedBy(c, T) ==
  /\ questions' = questions \union {c}
  /\ links' = [links EXCEPT ![c] = T]
  /\ answers' = [answers EXCEPT ![c] = {c}]

\* Mutant: the rows are committed by the transaction of the repository alone.
InsertQuestion_Commits(c) ==
  /\ pc[c] = "insert"
  /\ PostedBy(c, {})
  /\ Goto(c, IF Resolved(c) = {} THEN "commit" ELSE "find")
  /\ UNCHANGED <<tagVars, resolverVars, ask, draft, got, abandoned>>

\* The question and its first answer: a savepoint in the transaction.
InsertQuestion(c) ==
  /\ pc[c] = "insert"
  /\ Goto(c, IF Resolved(c) = {} THEN "commit" ELSE "find")
  /\ UNCHANGED <<tagVars, resolverVars, boardVars, ask, draft, got, abandoned>>

\* Mutant: looks up the tags as they were asked for.
FoundTags_Unresolved(c) == Normalised(ask[c].asked) \intersect tags

\* find_tag_ids: the names that are in the table now.
FoundTags(c) == Resolved(c) \intersect tags

FindTagIds(c) ==
  /\ pc[c] = "find"
  /\ draft' = [draft EXCEPT ![c] = FoundTags(c)]
  /\ Goto(c, IF FoundTags(c) = {} THEN "commit" ELSE "link")
  /\ UNCHANGED <<tagVars, resolverVars, boardVars, ask, got, abandoned>>

LinkTags(c) ==
  /\ pc[c] = "link"
  /\ Goto(c, "commit")
  /\ UNCHANGED <<tagVars, resolverVars, boardVars, ask, draft, got, abandoned>>

\* The database commits; the answer to the COMMIT may get lost.
Commit(c) ==
  /\ pc[c] = "commit"
  /\ PostedBy(c, draft[c])
  /\ \/ Goto(c, "reply") /\ UNCHANGED <<ask, draft, got, abandoned>>
     \/ End(c, "over")
  /\ UNCHANGED <<tagVars, resolverVars>>

-----------------------------------------------------------------------------
(***************************************************************************)
(* submit_answer, add_answer: one statement that commits by itself.        *)
(***************************************************************************)
AnsweredBy(c, q) ==
  /\ q \in questions
  /\ answers' = [answers EXCEPT ![q] = @ \union {c}]
  /\ UNCHANGED <<questions, links>>

InsertAnswer(c) ==
  /\ pc[c] = "answer"
  /\ AnsweredBy(c, ask[c].target)
  /\ \/ Goto(c, "reply") /\ UNCHANGED <<ask, draft, got, abandoned>>
     \/ End(c, "over")
  /\ UNCHANGED <<tagVars, resolverVars>>

\* The foreign key of the answer has no question, or the question is not found.
NotFound(c) ==
  /\ pc[c] \in {"answer", "question"}
  /\ ask[c].target \notin questions
  /\ End(c, "refused")
  /\ UNCHANGED <<tagVars, resolverVars, boardVars>>

-----------------------------------------------------------------------------
(***************************************************************************)
(* get_question: three statements.                                         *)
(***************************************************************************)
Read(c, content, step) ==
  /\ got' = [got EXCEPT ![c] = content]
  /\ Goto(c, step)
  /\ UNCHANGED <<tagVars, resolverVars, boardVars, ask, draft, abandoned>>

\* Mutant: a question without a row is not an error.
GetQuestion_Optional(c) ==
  /\ pc[c] = "question"
  /\ Read(c, [x \in {ask[c].target} |-> [tags |-> {}, answers |-> {}]], "tags")

GetQuestion(c) ==
  LET q == ask[c].target
  IN  /\ pc[c] = "question"
      /\ q \in questions
      /\ Read(c, [x \in {q} |-> [tags |-> {}, answers |-> {}]], "tags")

ReadTags(c) == [q \in DOMAIN got[c] |-> [got[c][q] EXCEPT !.tags = links[q]]]
ReadAnswers(c) ==
  [q \in DOMAIN got[c] |-> [got[c][q] EXCEPT !.answers = answers[q]]]

GetTags(c) == pc[c] = "tags" /\ Read(c, ReadTags(c), "answers")
GetAnswers(c) == pc[c] = "answers" /\ Read(c, ReadAnswers(c), "reply")

-----------------------------------------------------------------------------
(***************************************************************************)
(* search: the nearest questions, then their answers, then their tags.     *)
(***************************************************************************)
\* Mutant: never filters, as if the resolved tags were always empty.
Matching_Unfiltered(c) == questions

\* Tags that resolve to nothing do not narrow the search.
Matching(c) ==
  IF Resolved(c) = {} THEN questions
  ELSE {q \in questions : links[q] \intersect Resolved(c) # {}}

\* Which of the matching questions are nearest is up to the embeddings.
Match(c) ==
  /\ pc[c] = "match"
  /\ \E S \in SUBSET Matching(c) :
       /\ Cardinality(S) <= Limit
       /\ Cardinality(S) < Limit => S = Matching(c)
       /\ Read(c, [q \in S |-> [tags |-> {}, answers |-> {}]],
                  IF S = {} THEN "reply" ELSE "found_answers")

SearchAnswers(c) ==
  pc[c] = "found_answers" /\ Read(c, ReadAnswers(c), "found_tags")
SearchTags(c) == pc[c] = "found_tags" /\ Read(c, ReadTags(c), "reply")

-----------------------------------------------------------------------------
\* A statement fails: a column's limit, a broken connection, a timeout.  The
\* transaction is rolled back.
StatementFails(c) ==
  /\ pc[c] \in Holding \ {"embed"}
  /\ End(c, "over")
  /\ UNCHANGED <<tagVars, resolverVars, boardVars>>

Reply(c) ==
  /\ pc[c] = "reply"
  /\ End(c, IF ask[c].kind \in {"submit", "answer"} THEN "created" ELSE "over")
  /\ UNCHANGED <<tagVars, resolverVars, boardVars>>

\* The request timeout answers 408 and drops the handler, wherever it is; its
\* connection is discarded with its transaction.
Drop(c) ==
  /\ pc[c] \in Running
  /\ c \notin abandoned
  /\ End(c, "over")
  /\ UNCHANGED <<tagVars, resolverVars, boardVars>>

\* The same while the statement that commits is under way.
DropInCommit(c) ==
  /\ pc[c] \in {"commit", "answer"}
  /\ c \notin abandoned
  /\ Goto(c, "late")
  /\ UNCHANGED <<tagVars, resolverVars, boardVars, ask, draft, got, abandoned>>

\* PostgreSQL executes it, or notices first that nobody is there.
LateCommit(c) ==
  /\ pc[c] = "late"
  /\ \/ ask[c].kind = "submit" /\ PostedBy(c, draft[c])
     \/ ask[c].kind = "answer" /\ AnsweredBy(c, ask[c].target)
     \/ UNCHANGED boardVars
  /\ End(c, "over")
  /\ UNCHANGED <<tagVars, resolverVars>>

\* Of a tool only who waits for it is dropped: it goes on, with its connection
\* and its transaction.  The wait for the connection, with which it begins, is
\* shorter than the request timeout.
Abandon(c) ==
  /\ pc[c] \in Holding
  /\ ask[c].kind \in Tool
  /\ c \notin abandoned
  /\ abandoned' = abandoned \union {c}
  /\ UNCHANGED <<tagVars, resolverVars, boardVars, ask, pc, draft, got>>

\* The process ends and takes its requests along.
Crash(i) ==
  LET mine == {c \in Call : pc[c] \in Running /\ ask[c].instance = i}
  IN  /\ Exit(i)
      /\ pc' = [c \in Call |-> IF c \in mine THEN "over" ELSE pc[c]]
      /\ ask' = [c \in Call |-> IF c \in mine THEN NoRequest ELSE ask[c]]
      /\ draft' = [c \in Call |-> IF c \in mine THEN {} ELSE draft[c]]
      /\ got' = [c \in Call |-> IF c \in mine THEN Nothing ELSE got[c]]
      /\ abandoned' = abandoned \ mine
      /\ UNCHANGED boardVars

Submit(c) == InsertQuestion(c) \/ FindTagIds(c) \/ LinkTags(c) \/ Commit(c)
Get(c) == GetQuestion(c) \/ GetTags(c) \/ GetAnswers(c)
Search(c) == Match(c) \/ SearchAnswers(c) \/ SearchTags(c)

Step(c) ==
  \/ \E r \in Requests : Send(c, r)
  \/ Refuse(c)
  \/ Checkout(c)
  \/ CheckoutFails(c)
  \/ Embed(c)
  \/ EmbedFails(c)
  \/ Submit(c)
  \/ InsertAnswer(c)
  \/ NotFound(c)
  \/ Get(c)
  \/ Search(c)
  \/ StatementFails(c)
  \/ Reply(c)
  \/ Drop(c)
  \/ DropInCommit(c)
  \/ LateCommit(c)
  \/ Abandon(c)

Tags == Sync \/ \E i \in Instance : Load(i)

Next ==
  \/ \E c \in Call : Step(c)
  \/ \E i \in Instance : Crash(i)
  \/ Tags /\ UNCHANGED <<boardVars, callVars>>

Spec == Init /\ [][Next]_vars

-----------------------------------------------------------------------------
(***************************************************************************)
(* What the clients see of it, in the words of QuestionBoard.  A reader is *)
(* shown what it would be sent from its last read that can change on, and  *)
(* a client that has had its 408 nothing.                                  *)
(***************************************************************************)
Told ==
  [c \in Call |-> IF pc[c] \in {"created", "refused"} THEN pc[c] ELSE "nothing"]

Shown ==
  [c \in Call |->
     IF c \in abandoned THEN Nothing
     ELSE IF pc[c] = "found_tags" THEN ReadTags(c)
     ELSE IF pc[c] = "reply" THEN got[c]
     ELSE Nothing]

Board == INSTANCE QuestionBoard
           WITH Call <- Call, Tag <- Tag, questions <- questions,
                links <- links, answers <- answers, told <- Told,
                shown <- Shown

-----------------------------------------------------------------------------
\* The types of the tables and of the requests.
TypeOK ==
  /\ TagTypeOK
  /\ questions \in SUBSET Call
  /\ links \in [Call -> SUBSET Tag]
  /\ answers \in [Call -> SUBSET Call]
  /\ ask \in [Call -> Request \union {NoRequest}]
  /\ pc \in [Call -> Running \union Ended \union {"idle", "late"}]
  /\ draft \in [Call -> SUBSET Tag]
  /\ got \in [Call -> Reading]
  /\ abandoned \in SUBSET Call

\* The API implements the board: a question appears with its answer and its
\* tags in one step whatever fails on the way or is committed after its client
\* has had its 408 (the transaction around QuestionService::create), the three
\* unsynchronised reads of get_by_id and of search show it as it is at one
\* instant, "created" is only said of what is there and a validation error, a
\* missing question or an unavailable embedding service leaves nothing behind.
ImplementsBoard == Board!Spec

\* No resolved tag is lost on the way to question_tags: although the resolver
\* is an old copy and find_tag_ids silently leaves out the names it does not
\* find, it finds all of them.
NoResolvedTagDropped ==
  \A c \in Call : pc[c] \in {"link", "commit"} => draft[c] = Resolved(c)

\* What a search shows has one of the tags that were asked for, as the
\* instance resolves them, whenever it resolves any, although the tags shown
\* are read after the questions have been chosen by theirs.
SearchAnswersTheTags ==
  \A c \in Call :
    pc[c] = "reply" /\ ask[c].kind = "search" /\ Resolved(c) # {}
      => \A q \in DOMAIN got[c] : got[c][q].tags \intersect Resolved(c) # {}
=============================================================================
