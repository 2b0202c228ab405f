--------------------------- MODULE QuestionsProofs ---------------------------
(***************************************************************************)
(* The theorems of Questions, for any number of requests, instances and    *)
(* tags.  CallInv says of each request what it has staged and read at each *)
(* of its steps; it rests on TagInv, on the rows of a question never       *)
(* changing once it is committed, and on the instance of a running request *)
(* keeping its copy of the tags.                                           *)
(***************************************************************************)
EXTENDS Questions, TagResolverProofs

Steps == Running \union Ended \union {"idle", "late"}
Posts == {"submit", "answer"}

\* Which kind of request takes a step.
KindFits(c) ==
  /\ pc[c] = "embed" => ask[c].kind \in {"submit", "search"}
  /\ pc[c] \in {"insert", "find", "link", "commit"} => ask[c].kind = "submit"
  /\ pc[c] = "answer" => ask[c].kind = "answer"
  /\ pc[c] \in {"question", "tags", "answers"} => ask[c].kind = "get"
  /\ pc[c] \in {"match", "found_answers", "found_tags"}
       => ask[c].kind = "search"

\* Only a request that has got to its reply may have posted; one that will
\* say "created", or has, has posted.
PostFits(c) ==
  /\ pc[c] \notin {"reply", "created", "over"}
       => c \notin questions /\ \A q \in Call : c \notin answers[q]
  /\ \/ pc[c] = "created"
     \/ pc[c] = "reply" /\ ask[c].kind \in Posts
     => \E q \in Call : c \in answers[q]

DraftFits(c) ==
  /\ pc[c] \in {"link", "commit"} => draft[c] = Resolved(c)
  /\ pc[c] \notin {"link", "commit", "late", "reply"} => draft[c] = {}

ReadFits(c) ==
  /\ pc[c] \notin {"tags", "answers", "found_answers", "found_tags", "reply"}
       => got[c] = Nothing
  /\ pc[c] = "reply" /\ ask[c].kind \in Posts => got[c] = Nothing
  /\ DOMAIN got[c] \subseteq questions
  /\ pc[c] = "answers" => \A q \in DOMAIN got[c] : got[c][q].tags = links[q]

FoundFits(c) ==
  /\ /\ pc[c] \in {"found_answers", "found_tags", "reply"}
     /\ ask[c].kind = "search"
     /\ Resolved(c) # {}
     => \A q \in DOMAIN got[c] : links[q] \intersect Resolved(c) # {}
  /\ pc[c] = "reply" /\ ask[c].kind = "search"
     => \A q \in DOMAIN got[c] : got[c][q].tags = links[q]

RunsOnLiveInstance(c) ==
  pc[c] \in Running => ask[c] \in Request /\ Up(ask[c].instance)

\* A tool that was abandoned is still at work.
WorksOn(c) == c \in abandoned => pc[c] \in Running

CallInv(c) ==
  /\ RunsOnLiveInstance(c)
  /\ WorksOn(c)
  /\ KindFits(c)
  /\ PostFits(c)
  /\ DraftFits(c)
  /\ ReadFits(c)
  /\ FoundFits(c)

Inv ==
  /\ TypeOK
  /\ TagInv
  /\ \A q \in Call : answers[q] # {} => q \in questions
  /\ \A c \in Call : CallInv(c)

callTypes ==
  /\ ask \in [Call -> Request \union {NoRequest}]
  /\ pc \in [Call -> Steps]
  /\ draft \in [Call -> SUBSET Tag]
  /\ got \in [Call -> Reading]
  /\ abandoned \in SUBSET Call

-----------------------------------------------------------------------------
LEMMA NothingIsRead == Nothing \in Reading /\ DOMAIN Nothing = {}
<1>1. Nothing \in [{} -> Content]
  BY DEF Nothing
<1> QED
  BY <1>1 DEF Reading, Nothing

LEMMA InvInit == Init => Inv
<1> SUFFICES ASSUME Init
             PROVE  Inv
  OBVIOUS
<1>1. TagInv
  BY TagInvInit DEF Init
<1>2. TypeOK
  BY <1>1, NothingIsRead DEF TagInv, TypeOK, Init, Running, Holding, Ended
<1>3. \A c \in Call : CallInv(c)
  BY NothingIsRead
     DEF Init, CallInv, RunsOnLiveInstance, WorksOn, KindFits, PostFits, DraftFits,
         ReadFits, FoundFits, Running, Holding
<1> QED
  BY <1>1, <1>2, <1>3 DEF Inv, Init

\* A step that touches the slots of one request and no table.
LEMMA Slot ==
  ASSUME Inv, NEW c \in Call, callTypes', CallInv(c)',
         UNCHANGED <<tagVars, resolverVars, boardVars>>,
         \A d \in Call \ {c} : /\ ask'[d] = ask[d] /\ pc'[d] = pc[d]
                               /\ draft'[d] = draft[d] /\ got'[d] = got[d]
                               /\ (d \in abandoned' <=> d \in abandoned)
  PROVE  Inv'
<1>1. TagInv'
  BY TagInvFrame DEF Inv, allTagVars
<1>2. TypeOK'
  BY <1>1 DEF TagInv, Inv, TypeOK, callTypes, boardVars, Steps
<1>3. ASSUME NEW d \in Call \ {c}
      PROVE  CallInv(d)'
  <2>1. CallInv(d)
    BY DEF Inv
  <2>2. /\ ask'[d] = ask[d] /\ pc'[d] = pc[d]
        /\ draft'[d] = draft[d] /\ got'[d] = got[d]
        /\ (d \in abandoned' <=> d \in abandoned)
        /\ UNCHANGED <<resolver, loaded, questions, links, answers>>
    BY DEF resolverVars, boardVars
  <2>3. Resolved(d)' = Resolved(d)
    BY <2>2 DEF Resolved
  <2> QED
    BY <2>1, <2>2, <2>3
       DEF CallInv, RunsOnLiveInstance, WorksOn, KindFits, PostFits, DraftFits,
           ReadFits, FoundFits, Up
<1> QED
  BY <1>1, <1>2, <1>3 DEF Inv, boardVars

-----------------------------------------------------------------------------
(***************************************************************************)
(* The steps of a request that touch no table.                             *)
(***************************************************************************)
LEMMA EndEffect ==
  ASSUME Inv, NEW c \in Call, NEW word \in Ended, End(c, word)
  PROVE  /\ callTypes'
         /\ pc'[c] = IF c \in abandoned THEN "over" ELSE word
         /\ ask'[c] = NoRequest /\ draft'[c] = {} /\ got'[c] = Nothing
         /\ c \notin abandoned'
         /\ \A d \in Call \ {c} : /\ ask'[d] = ask[d] /\ pc'[d] = pc[d]
                                  /\ draft'[d] = draft[d] /\ got'[d] = got[d]
                                  /\ (d \in abandoned' <=> d \in abandoned)
<1> DEFINE last == IF c \in abandoned THEN "over" ELSE word
<1>1. last \in Steps /\ pc' = [pc EXCEPT ![c] = last]
  BY DEF End, Goto, Steps, Ended
<1>2. callTypes'
  BY <1>1, NothingIsRead DEF Inv, TypeOK, callTypes, End, Steps
<1> QED
  BY <1>1, <1>2 DEF End, Inv, TypeOK

LEMMA EndStep ==
  ASSUME Inv, NEW c \in Call, NEW word \in Ended,
         pc[c] \in Running \union {"late"}, End(c, word),
         UNCHANGED <<tagVars, resolverVars, boardVars>>,
         word = "refused" => pc[c] # "reply",
         word = "created" => pc[c] = "reply" /\ ask[c].kind \in Posts
  PROVE  Inv'
<1>1. callTypes'
  BY EndEffect
<1>2. /\ pc'[c] = IF c \in abandoned THEN "over" ELSE word
      /\ ask'[c] = NoRequest /\ draft'[c] = {} /\ got'[c] = Nothing
      /\ c \notin abandoned'
  BY EndEffect
<1>3. CallInv(c)
  BY DEF Inv
<1>4. CallInv(c)'
  <2>1. PostFits(c)'
    BY <1>2, <1>3
       DEF CallInv, PostFits, boardVars, Ended, Running, Holding, Posts
  <2> QED
    BY <1>2, <2>1, NothingIsRead
       DEF CallInv, RunsOnLiveInstance, WorksOn, KindFits, DraftFits, ReadFits,
           FoundFits, Ended, Running, Holding
<1>5. \A d \in Call \ {c} : /\ ask'[d] = ask[d] /\ pc'[d] = pc[d]
                            /\ draft'[d] = draft[d] /\ got'[d] = got[d]
                            /\ (d \in abandoned' <=> d \in abandoned)
  BY EndEffect
<1> QED
  BY <1>1, <1>4, <1>5, Slot

LEMMA SendStep ==
  ASSUME Inv, NEW c \in Call, NEW r \in Requests, Send(c, r)
  PROVE  Inv'
<1>1. r \in Request
  BY DEF Requests, Request, Kind, Inv, TypeOK
<1>2. callTypes'
  BY <1>1 DEF Inv, TypeOK, callTypes, Send, Goto, Steps, Running
<1>3. /\ pc[c] = "idle" /\ pc'[c] = "sent" /\ ask'[c] = r /\ Up(r.instance)
      /\ UNCHANGED <<draft, got, abandoned, loaded, questions, answers>>
  BY DEF Send, Goto, Inv, TypeOK, resolverVars, boardVars
<1>4. CallInv(c)
  BY DEF Inv
<1>5. CallInv(c)'
  BY <1>1, <1>3, <1>4
     DEF CallInv, RunsOnLiveInstance, WorksOn, KindFits, PostFits, DraftFits,
         ReadFits, FoundFits, Up, Running
<1> QED
  BY <1>2, <1>5, Slot DEF Send, Goto, Inv, TypeOK

\* A step that leaves ask alone: what is left to show of it is what it
\* stages and reads.
LEMMA WorkStep ==
  ASSUME Inv, NEW c \in Call, NEW step \in Running,
         pc[c] \in Running \ {"reply"}, Goto(c, step),
         UNCHANGED <<tagVars, resolverVars, boardVars, ask, abandoned>>,
         draft' \in [Call -> SUBSET Tag], got' \in [Call -> Reading],
         \A d \in Call \ {c} : draft'[d] = draft[d] /\ got'[d] = got[d],
         KindFits(c)', DraftFits(c)', ReadFits(c)', FoundFits(c)',
         step = "reply" => ask[c].kind \notin Posts
  PROVE  Inv'
<1>1. callTypes'
  BY DEF Inv, TypeOK, callTypes, Goto, Steps
<1>2. pc'[c] = step /\ \A d \in Call \ {c} : pc'[d] = pc[d]
  BY DEF Goto, Inv, TypeOK
<1>3. CallInv(c)
  BY DEF Inv
<1>4. RunsOnLiveInstance(c)' /\ WorksOn(c)'
  BY <1>2, <1>3 DEF CallInv, RunsOnLiveInstance, WorksOn, Up, resolverVars
<1>5. PostFits(c)'
  BY <1>2, <1>3 DEF CallInv, PostFits, boardVars, Running, Holding
<1> QED
  BY <1>1, <1>2, <1>4, <1>5, Slot DEF CallInv

\* A step that neither stages nor reads.
LEMMA PlainStep ==
  ASSUME Inv, NEW c \in Call, NEW step \in Running \ {"reply", "link"},
         pc[c] \in Running \ {"reply"}, Goto(c, step),
         UNCHANGED <<tagVars, resolverVars, boardVars, ask, draft, got,
                     abandoned>>,
         got[c] = Nothing, KindFits(c)',
         step = "commit" => draft[c] = Resolved(c),
         step # "commit" => draft[c] = {}
  PROVE  Inv'
<1>1. pc'[c] = step
  BY DEF Goto, Inv, TypeOK
<1>2. CallInv(c)
  BY DEF Inv
<1>3. DraftFits(c)'
  BY <1>1, <1>2 DEF CallInv, DraftFits, Resolved, resolverVars
<1>4. ReadFits(c)' /\ FoundFits(c)'
  BY <1>1, <1>2, NothingIsRead
     DEF CallInv, ReadFits, FoundFits, boardVars, Resolved, resolverVars
<1> QED
  BY <1>1, <1>3, <1>4, WorkStep DEF Inv, TypeOK

LEMMA CheckoutStep ==
  ASSUME Inv, NEW c \in Call, Checkout(c)
  PROVE  Inv'
<1> DEFINE step == FirstStep[ask[c].kind]
<1>1. CallInv(c) /\ pc[c] = "sent" /\ ask[c] \in Request
  BY DEF Inv, Checkout, CallInv, RunsOnLiveInstance, Running
<1>2. /\ step \in {"embed", "answer", "question"}
      /\ step = "embed" => ask[c].kind \in {"submit", "search"}
      /\ step = "answer" => ask[c].kind = "answer"
      /\ step = "question" => ask[c].kind = "get"
  BY <1>1 DEF Request, Kind, FirstStep
<1>3. pc'[c] = step /\ UNCHANGED ask
  BY DEF Checkout, Goto, Inv, TypeOK
<1>4. KindFits(c)'
  BY <1>2, <1>3 DEF KindFits
<1> QED
  BY <1>1, <1>2, <1>4, PlainStep
     DEF Checkout, CallInv, DraftFits, ReadFits, Running, Holding

LEMMA EmbedStep ==
  ASSUME Inv, NEW c \in Call, Embed(c)
  PROVE  Inv'
<1> DEFINE step == IF ask[c].kind = "submit" THEN "insert" ELSE "match"
<1>1. CallInv(c) /\ pc[c] = "embed"
  BY DEF Inv, Embed
<1>2. pc'[c] = step /\ UNCHANGED ask
  BY DEF Embed, Goto, Inv, TypeOK
<1>3. KindFits(c)'
  BY <1>1, <1>2 DEF CallInv, KindFits
<1> QED
  BY <1>1, <1>3, PlainStep
     DEF Embed, CallInv, DraftFits, ReadFits, Running, Holding

LEMMA InsertQuestionStep ==
  ASSUME Inv, NEW c \in Call, InsertQuestion(c)
  PROVE  Inv'
<1> DEFINE step == IF Resolved(c) = {} THEN "commit" ELSE "find"
<1>1. CallInv(c) /\ pc[c] = "insert"
  BY DEF Inv, InsertQuestion
<1>2. pc'[c] = step /\ UNCHANGED ask
  BY DEF InsertQuestion, Goto, Inv, TypeOK
<1>3. KindFits(c)'
  BY <1>1, <1>2 DEF CallInv, KindFits
<1> QED
  BY <1>1, <1>3, PlainStep
     DEF InsertQuestion, CallInv, DraftFits, ReadFits, Running, Holding

\* What find_tag_ids finds is all that was resolved.
LEMMA FoundIsResolved ==
  ASSUME Inv, NEW c \in Call, pc[c] \in Running
  PROVE  FoundTags(c) = Resolved(c) /\ Resolved(c) \in SUBSET Tag
<1>1. ask[c] \in Request
  BY DEF Inv, CallInv, RunsOnLiveInstance
<1>2. ask[c].instance \in Instance /\ ask[c].asked \in SUBSET Spelling
  BY <1>1 DEF Request
<1>3. Resolved(c) \subseteq tags
  BY <1>2, ResolvedTagsAreThere DEF Inv, Resolved
<1> QED
  BY <1>3 DEF FoundTags, Inv, TagInv, TagTypeOK

LEMMA FindTagIdsStep ==
  ASSUME Inv, NEW c \in Call, FindTagIds(c)
  PROVE  Inv'
<1> DEFINE step == IF FoundTags(c) = {} THEN "commit" ELSE "link"
<1>1. CallInv(c) /\ pc[c] = "find"
  BY DEF Inv, FindTagIds
<1>2. FoundTags(c) = Resolved(c) /\ Resolved(c) \in SUBSET Tag
  BY <1>1, FoundIsResolved DEF Running, Holding
<1>3. /\ pc'[c] = step /\ draft' = [draft EXCEPT ![c] = Resolved(c)]
      /\ draft'[c] = Resolved(c)
      /\ UNCHANGED <<ask, got, abandoned, resolver, questions, links>>
  BY <1>2 DEF FindTagIds, Goto, Inv, TypeOK, resolverVars, boardVars
<1>4. KindFits(c)'
  BY <1>1, <1>3 DEF CallInv, KindFits
<1>5. DraftFits(c)'
  BY <1>3 DEF DraftFits, Resolved
<1>6. ReadFits(c)' /\ FoundFits(c)'
  BY <1>1, <1>3 DEF CallInv, ReadFits, FoundFits
<1>7. draft' \in [Call -> SUBSET Tag] /\ got' \in [Call -> Reading]
  BY <1>2, <1>3 DEF Inv, TypeOK
<1>8. step \in Running /\ step # "reply" /\ pc[c] \in Running \ {"reply"}
  BY <1>1 DEF Running, Holding
<1> QED
  BY <1>3, <1>4, <1>5, <1>6, <1>7, <1>8, WorkStep DEF FindTagIds, Inv, TypeOK

LEMMA LinkTagsStep ==
  ASSUME Inv, NEW c \in Call, LinkTags(c)
  PROVE  Inv'
<1>1. CallInv(c) /\ pc[c] = "link"
  BY DEF Inv, LinkTags
<1>2. pc'[c] = "commit" /\ UNCHANGED ask
  BY DEF LinkTags, Goto, Inv, TypeOK
<1>3. KindFits(c)'
  BY <1>1, <1>2 DEF CallInv, KindFits
<1> QED
  BY <1>1, <1>3, PlainStep
     DEF LinkTags, CallInv, DraftFits, ReadFits, Running, Holding

-----------------------------------------------------------------------------
(***************************************************************************)
(* The reads.                                                              *)
(***************************************************************************)
LEMMA ReadingsTypes ==
  ASSUME Inv, NEW c \in Call
  PROVE  /\ ReadTags(c) \in Reading /\ DOMAIN ReadTags(c) = DOMAIN got[c]
         /\ ReadAnswers(c) \in Reading /\ DOMAIN ReadAnswers(c) = DOMAIN got[c]
         /\ \A q \in DOMAIN got[c] :
              /\ ReadTags(c)[q] = [tags |-> links[q], answers |-> got[c][q].answers]
              /\ ReadAnswers(c)[q] = [tags |-> got[c][q].tags, answers |-> answers[q]]
<1>1. PICK S \in SUBSET Call : got[c] \in [S -> Content]
  BY DEF Inv, TypeOK, Reading
<1>2. /\ \A q \in S : got[c][q] \in Content /\ links[q] \in SUBSET Tag
                        /\ answers[q] \in SUBSET Call
      /\ DOMAIN got[c] = S
  BY <1>1 DEF Inv, TypeOK
<1>3. \A q \in S :
        /\ [got[c][q] EXCEPT !.tags = links[q]]
             = [tags |-> links[q], answers |-> got[c][q].answers]
        /\ [got[c][q] EXCEPT !.answers = answers[q]]
             = [tags |-> got[c][q].tags, answers |-> answers[q]]
  BY <1>2 DEF Content
<1>4. ReadTags(c) \in [S -> Content] /\ ReadAnswers(c) \in [S -> Content]
  BY <1>2, <1>3 DEF ReadTags, ReadAnswers, Content
<1> QED
  BY <1>2, <1>3, <1>4 DEF ReadTags, ReadAnswers, Reading

LEMMA TagsAsLinked ==
  ASSUME Inv, NEW c \in Call, NEW q \in DOMAIN ReadTags(c)
  PROVE  ReadTags(c)[q].tags = links[q]
<1>1. q \in DOMAIN got[c]
  BY ReadingsTypes
<1>2. ReadTags(c)[q] = [tags |-> links[q], answers |-> got[c][q].answers]
  BY <1>1, ReadingsTypes
<1> QED
  BY <1>2

\* A statement that reads leaves the draft alone.
LEMMA ReadStep ==
  ASSUME Inv, NEW c \in Call, NEW content \in Reading, NEW step \in Running,
         pc[c] \in {"question", "tags", "answers", "match", "found_answers",
                    "found_tags"},
         step \in {"tags", "answers", "found_answers", "found_tags", "reply"},
         Read(c, content, step), KindFits(c)', FoundFits(c)',
         step = "reply" => ask[c].kind \notin Posts,
         DOMAIN content \subseteq questions,
         step = "answers" => \A q \in DOMAIN content : content[q].tags = links[q]
  PROVE  Inv'
<1>1. /\ pc'[c] = step /\ got'[c] = content
      /\ got' \in [Call -> Reading]
      /\ UNCHANGED <<ask, draft, links, questions>>
  BY DEF Read, Goto, Inv, TypeOK, boardVars
<1>2. CallInv(c)
  BY DEF Inv
<1>3. DraftFits(c)' /\ ReadFits(c)'
  BY <1>1, <1>2 DEF CallInv, DraftFits, ReadFits
<1>4. pc[c] \in Running \ {"reply"}
  BY DEF Running, Holding
<1> QED
  BY <1>1, <1>3, <1>4, WorkStep DEF Read, Inv, TypeOK

LEMMA GetQuestionStep ==
  ASSUME Inv, NEW c \in Call, GetQuestion(c)
  PROVE  Inv'
<1> DEFINE q == ask[c].target
           content == [x \in {q} |-> [tags |-> {}, answers |-> {}]]
<1>1. /\ CallInv(c) /\ pc[c] = "question" /\ q \in questions /\ q \in Call
      /\ Read(c, content, "tags")
  BY DEF Inv, TypeOK, GetQuestion
<1>2. content \in [{q} -> Content]
  BY DEF Content
<1>3. content \in Reading
  BY <1>1, <1>2 DEF Reading
<1>4. pc'[c] = "tags" /\ UNCHANGED ask
  BY <1>1 DEF Read, Goto, Inv, TypeOK
<1>5. KindFits(c)' /\ FoundFits(c)'
  BY <1>1, <1>4 DEF CallInv, KindFits, FoundFits
<1> QED
  BY <1>1, <1>3, <1>5, ReadStep DEF Running, Holding

LEMMA GetTagsStep ==
  ASSUME Inv, NEW c \in Call, GetTags(c)
  PROVE  Inv'
<1>1. CallInv(c) /\ pc[c] = "tags" /\ Read(c, ReadTags(c), "answers")
  BY DEF Inv, GetTags
<1>2. pc'[c] = "answers" /\ UNCHANGED ask
  BY <1>1 DEF Read, Goto, Inv, TypeOK
<1>3. KindFits(c)' /\ FoundFits(c)'
  BY <1>1, <1>2 DEF CallInv, KindFits, FoundFits
<1>4. DOMAIN ReadTags(c) \subseteq questions
  BY <1>1, ReadingsTypes DEF CallInv, ReadFits
<1>5. \A q \in DOMAIN ReadTags(c) : ReadTags(c)[q].tags = links[q]
  BY TagsAsLinked
<1> QED
  BY <1>1, <1>3, <1>4, <1>5, ReadingsTypes, ReadStep DEF Running, Holding

LEMMA GetAnswersStep ==
  ASSUME Inv, NEW c \in Call, GetAnswers(c)
  PROVE  Inv'
<1>1. CallInv(c) /\ pc[c] = "answers" /\ Read(c, ReadAnswers(c), "reply")
  BY DEF Inv, GetAnswers
<1>2. pc'[c] = "reply" /\ UNCHANGED ask /\ ask[c].kind = "get"
  BY <1>1 DEF Read, Goto, Inv, TypeOK, CallInv, KindFits
<1>3. KindFits(c)' /\ FoundFits(c)'
  BY <1>1, <1>2 DEF CallInv, KindFits, FoundFits
<1>4. DOMAIN ReadAnswers(c) \subseteq questions
  BY <1>1, ReadingsTypes DEF CallInv, ReadFits
<1> QED
  BY <1>1, <1>2, <1>3, <1>4, ReadingsTypes, ReadStep DEF Running, Posts

\* Resolved tags of a request do not change while no table does.
LEMMA ResolvedKept ==
  ASSUME NEW c \in Call, UNCHANGED <<resolver, ask>>
  PROVE  Resolved(c)' = Resolved(c)
BY DEF Resolved

LEMMA MatchStep ==
  ASSUME Inv, NEW c \in Call, Match(c)
  PROVE  Inv'
<1>1. PICK S \in SUBSET Matching(c) :
        Read(c, [q \in S |-> [tags |-> {}, answers |-> {}]],
             IF S = {} THEN "reply" ELSE "found_answers")
  BY DEF Match
<1> DEFINE content == [q \in S |-> [tags |-> {}, answers |-> {}]]
           step == IF S = {} THEN "reply" ELSE "found_answers"
<1>2. CallInv(c) /\ pc[c] = "match" /\ ask[c].kind = "search"
  BY DEF Inv, Match, CallInv, KindFits
<1>3. /\ S \subseteq questions /\ S \subseteq Call
      /\ Resolved(c) # {} => \A q \in S : links[q] \intersect Resolved(c) # {}
  BY DEF Matching, Inv, TypeOK
<1>4. content \in [S -> Content]
  BY DEF Content
<1>5. content \in Reading
  BY <1>3, <1>4 DEF Reading
<1>6. /\ pc'[c] = step /\ got'[c] = content
      /\ UNCHANGED <<ask, links, resolver>>
  BY <1>1 DEF Read, Goto, Inv, TypeOK, boardVars, resolverVars
<1>7. KindFits(c)'
  BY <1>2, <1>6 DEF KindFits
<1>8. FoundFits(c)'
  BY <1>3, <1>6, ResolvedKept DEF FoundFits
<1>9. Read(c, content, step)
  BY <1>1
<1> QED
  BY <1>2, <1>3, <1>5, <1>7, <1>8, <1>9, ReadStep DEF Running, Holding, Posts

LEMMA SearchAnswersStep ==
  ASSUME Inv, NEW c \in Call, SearchAnswers(c)
  PROVE  Inv'
<1>1. /\ CallInv(c) /\ pc[c] = "found_answers" /\ ask[c].kind = "search"
      /\ Read(c, ReadAnswers(c), "found_tags")
  BY DEF Inv, SearchAnswers, CallInv, KindFits
<1>2. /\ pc'[c] = "found_tags" /\ got'[c] = ReadAnswers(c)
      /\ UNCHANGED <<ask, links, resolver>>
  BY <1>1 DEF Read, Goto, Inv, TypeOK, boardVars, resolverVars
<1>3. KindFits(c)'
  BY <1>1, <1>2 DEF KindFits
<1>4. FoundFits(c)'
  BY <1>1, <1>2, ReadingsTypes, ResolvedKept DEF CallInv, FoundFits
<1>5. DOMAIN ReadAnswers(c) \subseteq questions
  BY <1>1, ReadingsTypes DEF CallInv, ReadFits
<1> QED
  BY <1>1, <1>3, <1>4, <1>5, ReadingsTypes, ReadStep DEF Running, Holding

LEMMA SearchTagsStep ==
  ASSUME Inv, NEW c \in Call, SearchTags(c)
  PROVE  Inv'
<1>1. /\ CallInv(c) /\ pc[c] = "found_tags" /\ ask[c].kind = "search"
      /\ Read(c, ReadTags(c), "reply")
  BY DEF Inv, SearchTags, CallInv, KindFits
<1>2. /\ pc'[c] = "reply" /\ got'[c] = ReadTags(c)
      /\ UNCHANGED <<ask, links, resolver>>
  BY <1>1 DEF Read, Goto, Inv, TypeOK, boardVars, resolverVars
<1>3. KindFits(c)'
  BY <1>1, <1>2 DEF KindFits
<1>4. FoundFits(c)'
  <2>1. DOMAIN got'[c] = DOMAIN got[c]
    BY <1>2, ReadingsTypes
  <2>2. Resolved(c)' = Resolved(c)
    BY <1>2, ResolvedKept
  <2>3. Resolved(c) # {}
          => \A q \in DOMAIN got[c] : links[q] \intersect Resolved(c) # {}
    BY <1>1 DEF CallInv, FoundFits
  <2>4. \A q \in DOMAIN got'[c] : got'[c][q].tags = links[q]
    BY <1>2, TagsAsLinked
  <2> QED
    BY <1>2, <2>1, <2>2, <2>3, <2>4 DEF FoundFits
<1>5. DOMAIN ReadTags(c) \subseteq questions
  BY <1>1, ReadingsTypes DEF CallInv, ReadFits
<1> QED
  BY <1>1, <1>3, <1>4, <1>5, ReadingsTypes, ReadStep DEF Running, Holding, Posts

-----------------------------------------------------------------------------
(***************************************************************************)
(* The steps that commit.                                                  *)
(***************************************************************************)
\* What a request knows stays true while others post.
LEMMA OtherCall ==
  ASSUME Inv, NEW d \in Call,
         UNCHANGED <<tagVars, resolverVars>>,
         /\ ask'[d] = ask[d] /\ pc'[d] = pc[d]
         /\ draft'[d] = draft[d] /\ got'[d] = got[d]
         /\ (d \in abandoned' <=> d \in abandoned),
         questions \subseteq questions',
         \A q \in questions : links'[q] = links[q],
         d \in questions' => d \in questions,
         \A q \in Call : d \in answers'[q] <=> d \in answers[q]
  PROVE  CallInv(d)'
<1>1. CallInv(d)
  BY DEF Inv
<1>2. UNCHANGED <<resolver, loaded>>
  BY DEF resolverVars
<1>3. Resolved(d)' = Resolved(d)
  BY <1>2 DEF Resolved
<1>4. RunsOnLiveInstance(d)' /\ WorksOn(d)' /\ KindFits(d)'
  BY <1>1, <1>2 DEF CallInv, RunsOnLiveInstance, WorksOn, KindFits, Up
<1>5. PostFits(d)'
  BY <1>1 DEF CallInv, PostFits
<1>6. DraftFits(d)'
  BY <1>1, <1>3 DEF CallInv, DraftFits
<1>7. \A q \in DOMAIN got[d] : q \in questions /\ links'[q] = links[q]
  BY <1>1 DEF CallInv, ReadFits
<1>8. ReadFits(d)'
  BY <1>1, <1>7 DEF CallInv, ReadFits
<1>9. FoundFits(d)'
  BY <1>1, <1>3, <1>7 DEF CallInv, FoundFits
<1> QED
  BY <1>4, <1>5, <1>6, <1>8, <1>9 DEF CallInv

LEMMA PostStep ==
  ASSUME Inv, NEW c \in Call, pc[c] \in {"commit", "answer", "late"},
         UNCHANGED <<tagVars, resolverVars>>,
         \/ /\ Goto(c, "reply") /\ pc[c] # "late"
            /\ UNCHANGED <<ask, draft, got, abandoned>>
         \/ End(c, "over"),
         questions' \in SUBSET Call, links' \in [Call -> SUBSET Tag],
         answers' \in [Call -> SUBSET Call],
         questions \subseteq questions', questions' \subseteq questions \union {c},
         \A q \in questions : links'[q] = links[q],
         \A d \in Call \ {c}, q \in Call : d \in answers'[q] <=> d \in answers[q],
         \E q \in Call : c \in answers'[q],
         \A q \in Call : answers'[q] # {} => q \in questions'
  PROVE  Inv'
<1>1. TagInv'
  BY TagInvFrame DEF Inv, allTagVars
<1>2. \A d \in Call \ {c} : /\ ask'[d] = ask[d] /\ pc'[d] = pc[d]
                            /\ draft'[d] = draft[d] /\ got'[d] = got[d]
                            /\ (d \in abandoned' <=> d \in abandoned)
  BY EndEffect DEF Goto, Inv, TypeOK, Ended
<1>3. \A d \in Call \ {c} : CallInv(d)'
  BY <1>2, OtherCall
<1>4. callTypes'
  BY EndEffect DEF Inv, TypeOK, callTypes, Goto, Steps, Running, Ended
<1>5. TypeOK'
  BY <1>1, <1>4 DEF TagInv, TypeOK, callTypes, Steps
<1>6. /\ CallInv(c) /\ got[c] = Nothing
      /\ pc[c] # "late" => pc[c] \in Running /\ ask[c].kind \in Posts
  BY DEF Inv, CallInv, KindFits, ReadFits, Running, Holding, Posts
<1>7. CallInv(c)'
  <2>1. ASSUME Goto(c, "reply"), pc[c] # "late",
               UNCHANGED <<ask, draft, got, abandoned>>
        PROVE  CallInv(c)'
    <3>1. pc'[c] = "reply" /\ ask'[c] = ask[c] /\ got'[c] = Nothing
      BY <2>1, <1>6 DEF Goto, Inv, TypeOK
    <3>2. RunsOnLiveInstance(c)' /\ WorksOn(c)'
      BY <1>6, <2>1, <3>1
         DEF CallInv, RunsOnLiveInstance, WorksOn, Running, Up, resolverVars
    <3>3. KindFits(c)' /\ PostFits(c)' /\ DraftFits(c)'
      BY <3>1 DEF KindFits, PostFits, DraftFits
    <3>4. ReadFits(c)' /\ FoundFits(c)'
      BY <1>6, <3>1, NothingIsRead DEF ReadFits, FoundFits
    <3> QED
      BY <3>2, <3>3, <3>4 DEF CallInv
  <2>2. ASSUME End(c, "over")
        PROVE  CallInv(c)'
    <3>1. /\ pc'[c] = "over" /\ draft'[c] = {} /\ got'[c] = Nothing
          /\ c \notin abandoned'
      BY <2>2, EndEffect DEF Ended
    <3> QED
      BY <3>1, NothingIsRead
         DEF CallInv, RunsOnLiveInstance, WorksOn, KindFits, PostFits, DraftFits,
             ReadFits, FoundFits, Running, Holding
  <2> QED
    BY <2>1, <2>2
<1> QED
  BY <1>1, <1>3, <1>5, <1>7 DEF Inv

\* After the step the request has its word to say, or has ended without.
Posted(c) ==
  \/ /\ Goto(c, "reply") /\ pc[c] # "late"
     /\ UNCHANGED <<ask, draft, got, abandoned>>
  \/ End(c, "over")

LEMMA PostedStep ==
  ASSUME Inv, NEW c \in Call, pc[c] \in {"commit", "late"}, Posted(c),
         PostedBy(c, draft[c]), UNCHANGED <<tagVars, resolverVars>>
  PROVE  Inv'
<1>2. c \notin questions /\ answers[c] = {}
  BY DEF CallInv, PostFits, Inv
<1>3. /\ questions' = questions \union {c}
      /\ links' = [links EXCEPT ![c] = draft[c]]
      /\ answers' = [answers EXCEPT ![c] = {c}]
  BY DEF PostedBy
<1>4. /\ questions' \in SUBSET Call /\ links' \in [Call -> SUBSET Tag]
      /\ answers' \in [Call -> SUBSET Call]
  BY <1>3 DEF Inv, TypeOK
<1>5. /\ \A q \in questions : links'[q] = links[q]
      /\ \A q \in Call : answers'[q] = IF q = c THEN {c} ELSE answers[q]
  BY <1>2, <1>3 DEF Inv, TypeOK
<1>6. \A q \in Call : answers'[q] # {} => q \in questions'
  BY <1>3, <1>5 DEF Inv
<1>7. \A d \in Call \ {c}, q \in Call : d \in answers'[q] <=> d \in answers[q]
  BY <1>2, <1>5
<1>8. \E q \in Call : c \in answers'[q]
  BY <1>5
<1> QED
  BY <1>3, <1>4, <1>5, <1>6, <1>7, <1>8, PostStep DEF Posted

LEMMA CommitStep ==
  ASSUME Inv, NEW c \in Call, Commit(c)
  PROVE  Inv'
<1>1. pc[c] = "commit" /\ Posted(c)
  BY DEF Commit, Posted
<1> QED
  BY <1>1, PostedStep DEF Commit

LEMMA AnsweredStep ==
  ASSUME Inv, NEW c \in Call, pc[c] \in {"answer", "late"}, Posted(c),
         AnsweredBy(c, ask[c].target), UNCHANGED <<tagVars, resolverVars>>
  PROVE  Inv'
<1> DEFINE q == ask[c].target
<1>1. /\ q \in questions /\ q \in Call
      /\ answers' = [answers EXCEPT ![q] = @ \union {c}]
      /\ UNCHANGED <<questions, links>>
  BY DEF Inv, TypeOK, AnsweredBy
<1>2. answers' \in [Call -> SUBSET Call]
  BY <1>1 DEF Inv, TypeOK
<1>3. \A p \in Call :
        answers'[p] = IF p = q THEN answers[p] \union {c} ELSE answers[p]
  BY <1>1 DEF Inv, TypeOK
<1>4. \A p \in Call : answers'[p] # {} => p \in questions'
  BY <1>1, <1>3 DEF Inv
<1>5. \A d \in Call \ {c}, p \in Call : d \in answers'[p] <=> d \in answers[p]
  BY <1>3
<1>6. \E p \in Call : c \in answers'[p]
  BY <1>1, <1>3
<1> QED
  BY <1>1, <1>2, <1>4, <1>5, <1>6, PostStep DEF Posted, Inv, TypeOK

LEMMA InsertAnswerStep ==
  ASSUME Inv, NEW c \in Call, InsertAnswer(c)
  PROVE  Inv'
<1>1. pc[c] = "answer" /\ Posted(c)
  BY DEF InsertAnswer, Posted
<1> QED
  BY <1>1, AnsweredStep DEF InsertAnswer

\* The statement of a handler that was dropped.
LEMMA DropInCommitStep ==
  ASSUME Inv, NEW c \in Call, DropInCommit(c)
  PROVE  Inv'
<1>1. /\ CallInv(c) /\ pc[c] \in {"commit", "answer"} /\ c \notin abandoned
      /\ pc'[c] = "late" /\ got[c] = Nothing
      /\ UNCHANGED <<ask, draft, got, abandoned, questions, answers>>
  BY DEF Inv, DropInCommit, Goto, TypeOK, CallInv, ReadFits, boardVars
<1>2. callTypes'
  BY DEF DropInCommit, Goto, Inv, TypeOK, callTypes, Steps
<1>3. CallInv(c)'
  BY <1>1, NothingIsRead
     DEF CallInv, RunsOnLiveInstance, WorksOn, KindFits, PostFits, DraftFits,
         ReadFits, FoundFits, Running, Holding
<1> QED
  BY <1>2, <1>3, Slot DEF DropInCommit, Goto, Inv, TypeOK

LEMMA LateCommitStep ==
  ASSUME Inv, NEW c \in Call, LateCommit(c)
  PROVE  Inv'
<1>1. /\ CallInv(c) /\ pc[c] = "late" /\ End(c, "over")
      /\ UNCHANGED <<tagVars, resolverVars>>
  BY DEF Inv, LateCommit
<1>3. ASSUME PostedBy(c, draft[c])
      PROVE  Inv'
  BY <1>1, <1>3, PostedStep DEF Posted
<1>4. ASSUME AnsweredBy(c, ask[c].target)
      PROVE  Inv'
  BY <1>1, <1>4, AnsweredStep DEF Posted
<1>5. ASSUME UNCHANGED boardVars
      PROVE  Inv'
  BY <1>1, <1>5, EndStep DEF Ended
<1> QED
  BY <1>3, <1>4, <1>5 DEF LateCommit

LEMMA AbandonStep ==
  ASSUME Inv, NEW c \in Call, Abandon(c)
  PROVE  Inv'
<1>1. /\ CallInv(c) /\ pc[c] \in Running /\ abandoned' = abandoned \union {c}
      /\ UNCHANGED <<ask, pc, draft, got, resolver, loaded, questions, links,
                     answers>>
  BY DEF Inv, Abandon, Running, boardVars, resolverVars
<1>2. callTypes'
  BY <1>1 DEF Inv, TypeOK, callTypes, Steps
<1>3. CallInv(c)'
  BY <1>1
     DEF CallInv, RunsOnLiveInstance, WorksOn, KindFits, PostFits, DraftFits,
         ReadFits, FoundFits, Resolved, Up
<1> QED
  BY <1>1, <1>2, <1>3, Slot DEF Abandon

-----------------------------------------------------------------------------
(***************************************************************************)
(* The steps of the processes and of the tag sync.                         *)
(***************************************************************************)
LEMMA CrashStep ==
  ASSUME Inv, NEW i \in Instance, Crash(i)
  PROVE  Inv'
<1> DEFINE mine == {c \in Call : pc[c] \in Running /\ ask[c].instance = i}
<1>1. /\ Exit(i) /\ UNCHANGED <<questions, links, answers>>
      /\ \A c \in mine : /\ pc'[c] = "over" /\ ask'[c] = NoRequest
                         /\ draft'[c] = {} /\ got'[c] = Nothing
                         /\ c \notin abandoned'
      /\ \A c \in Call \ mine : /\ pc'[c] = pc[c] /\ ask'[c] = ask[c]
                                /\ draft'[c] = draft[c] /\ got'[c] = got[c]
                                /\ (c \in abandoned' <=> c \in abandoned)
  BY DEF Crash, boardVars
<1>2. TagInv'
  BY <1>1, ExitInv DEF Inv
<1>3. callTypes'
  BY NothingIsRead DEF Crash, Inv, TypeOK, callTypes, Steps, Ended
<1>4. TypeOK'
  BY <1>1, <1>2, <1>3 DEF TagInv, Inv, TypeOK, callTypes, Steps
<1>5. ASSUME NEW c \in mine
      PROVE  CallInv(c)'
  BY <1>1, NothingIsRead
     DEF CallInv, RunsOnLiveInstance, WorksOn, KindFits, PostFits, DraftFits,
         ReadFits, FoundFits, Running, Holding
<1>6. ASSUME NEW c \in Call \ mine
      PROVE  CallInv(c)'
  <2>1. /\ CallInv(c) /\ pc'[c] = pc[c] /\ ask'[c] = ask[c]
        /\ draft'[c] = draft[c] /\ got'[c] = got[c]
        /\ (c \in abandoned' <=> c \in abandoned)
    BY <1>1 DEF Inv
  <2>2. PostFits(c)' /\ KindFits(c)' /\ ReadFits(c)' /\ WorksOn(c)'
    BY <1>1, <2>1 DEF CallInv, PostFits, KindFits, ReadFits, WorksOn
  <2>3. ASSUME pc[c] \in Running
        PROVE  Up(ask[c].instance)' /\ Resolved(c)' = Resolved(c)
    <3>1. ask[c].instance \in Instance \ {i}
      BY <2>1, <2>3 DEF CallInv, RunsOnLiveInstance, Request
    <3>2. /\ loaded'[ask[c].instance] = loaded[ask[c].instance]
          /\ resolver'[ask[c].instance] = resolver[ask[c].instance]
      BY <1>1, <3>1 DEF Exit, Inv, TagInv, TagTypeOK
    <3> QED
      BY <2>1, <2>3, <3>2 DEF CallInv, RunsOnLiveInstance, Up, Resolved
  <2>4. RunsOnLiveInstance(c)'
    BY <2>1, <2>3 DEF CallInv, RunsOnLiveInstance, Up
  <2>5. DraftFits(c)'
    BY <2>1, <2>3 DEF CallInv, DraftFits, Running, Holding
  <2>6. FoundFits(c)'
    BY <1>1, <2>1, <2>3 DEF CallInv, FoundFits, Running, Holding
  <2> QED
    BY <2>2, <2>4, <2>5, <2>6 DEF CallInv
<1> QED
  BY <1>1, <1>2, <1>4, <1>5, <1>6 DEF Inv

LEMMA TagsStep ==
  ASSUME Inv, Tags, UNCHANGED <<boardVars, callVars>>
  PROVE  Inv'
<1>1. TagInv'
  BY TagInvStep DEF Tags, Inv, TagNext
<1>2. TypeOK'
  BY <1>1 DEF TagInv, Inv, TypeOK, boardVars, callVars
<1>3. \A j \in Instance :
        Up(j) => loaded'[j] = loaded[j] /\ resolver'[j] = resolver[j]
  <2>1. ASSUME Sync
        PROVE  UNCHANGED <<resolver, loaded>>
    BY <2>1 DEF Sync, resolverVars
  <2>2. ASSUME NEW k \in Instance, Load(k), NEW j \in Instance, Up(j)
        PROVE  loaded'[j] = loaded[j] /\ resolver'[j] = resolver[j]
    <3>1. k # j
      BY <2>2 DEF Load, LoadSynonyms, LoadCanonicals, LoadOrder, Up
    <3> QED
      BY <2>2, <3>1
         DEF Load, LoadSynonyms, LoadCanonicals, LoadNext, Inv, TagInv, TagTypeOK
  <2> QED
    BY <2>1, <2>2 DEF Tags
<1>4. ASSUME NEW c \in Call
      PROVE  CallInv(c)'
  <2>1. CallInv(c) /\ UNCHANGED <<questions, links, answers, ask, pc, draft, got,
                                   abandoned>>
    BY DEF Inv, boardVars, callVars
  <2>2. ASSUME pc[c] \in Running
        PROVE  Up(ask[c].instance)' /\ Resolved(c)' = Resolved(c)
    <3>1. ask[c].instance \in Instance /\ Up(ask[c].instance)
      BY <2>1, <2>2 DEF CallInv, RunsOnLiveInstance, Request
    <3> QED
      BY <1>3, <2>1, <3>1 DEF Up, Resolved
  <2>3. RunsOnLiveInstance(c)'
    BY <2>1, <2>2 DEF CallInv, RunsOnLiveInstance, Up
  <2>4. DraftFits(c)' /\ FoundFits(c)'
    BY <2>1, <2>2 DEF CallInv, DraftFits, FoundFits, Running, Holding
  <2> QED
    BY <2>1, <2>3, <2>4
       DEF CallInv, WorksOn, KindFits, PostFits, ReadFits
<1> QED
  BY <1>1, <1>2, <1>4 DEF Inv, boardVars

LEMMA StutterStep ==
  ASSUME Inv, UNCHANGED vars
  PROVE  Inv'
<1>1. TagInv'
  BY TagInvFrame DEF Inv, allTagVars, vars
<1> USE DEF vars, tagVars, resolverVars, boardVars, callVars
<1>2. TypeOK'
  BY <1>1 DEF TagInv, Inv, TypeOK
<1>3. ASSUME NEW c \in Call
      PROVE  CallInv(c)'
  <2>1. CallInv(c) /\ Resolved(c)' = Resolved(c)
    BY DEF Inv, Resolved
  <2> QED
    BY <2>1
       DEF CallInv, RunsOnLiveInstance, WorksOn, KindFits, PostFits, DraftFits,
           ReadFits, FoundFits, Up
<1> QED
  BY <1>1, <1>2, <1>3 DEF Inv

\* The ends that post nothing: only Reply leaves "reply" with a word.
LEMMA EndingsStep ==
  ASSUME Inv, NEW c \in Call,
         \/ Refuse(c) \/ CheckoutFails(c) \/ EmbedFails(c) \/ NotFound(c)
         \/ StatementFails(c) \/ Reply(c) \/ Drop(c)
  PROVE  Inv'
<1>1. ASSUME Refuse(c) \/ EmbedFails(c) \/ NotFound(c)
      PROVE  Inv'
  <2>1. /\ pc[c] \in Running \ {"reply"} /\ End(c, "refused")
        /\ UNCHANGED <<tagVars, resolverVars, boardVars>>
    BY <1>1 DEF Refuse, EmbedFails, NotFound, Running, Holding
  <2> QED
    BY <2>1, EndStep DEF Ended
<1>2. ASSUME CheckoutFails(c) \/ StatementFails(c) \/ Drop(c)
      PROVE  Inv'
  <2>1. /\ pc[c] \in Running /\ End(c, "over")
        /\ UNCHANGED <<tagVars, resolverVars, boardVars>>
    BY <1>2 DEF CheckoutFails, StatementFails, Drop, Running
  <2> QED
    BY <2>1, EndStep DEF Ended
<1>3. ASSUME Reply(c)
      PROVE  Inv'
  BY <1>3, EndStep DEF Reply, Running, Ended, Posts
<1> QED
  BY <1>1, <1>2, <1>3

LEMMA InvNext ==
  ASSUME Inv, [Next]_vars
  PROVE  Inv'
<1>1. ASSUME NEW c \in Call, Step(c)
      PROVE  Inv'
  BY <1>1, SendStep, CheckoutStep, EmbedStep, InsertQuestionStep,
     FindTagIdsStep, LinkTagsStep, CommitStep, InsertAnswerStep,
     GetQuestionStep, GetTagsStep, GetAnswersStep, MatchStep,
     SearchAnswersStep, SearchTagsStep, EndingsStep, DropInCommitStep,
     LateCommitStep, AbandonStep
     DEF Step, Submit, Get, Search
<1> QED
  BY <1>1, CrashStep, TagsStep, StutterStep DEF Next

\* Every reachable state satisfies the invariant of the requests: the
\* strengthening that all properties of Questions follow from.
THEOREM RequestsStayConsistent == Spec => []Inv
<1> QED
  BY InvInit, InvNext, PTL DEF Spec

\* The tables, copies and requests keep their types, whatever requests come.
THEOREM TypeCorrect == Spec => []TypeOK
<1>1. Inv => TypeOK
  BY DEF Inv
<1> QED
  BY <1>1, RequestsStayConsistent, PTL

\* What an instance resolves a tag to, it resolves to itself, for any tags,
\* similarities and interleavings of TagResolver::new with the tag sync.
THEOREM ResolutionFinal == Spec => []ResolutionSettles
<1>1. Inv => ResolutionSettles
  BY SettlesIfInv DEF Inv
<1> QED
  BY <1>1, RequestsStayConsistent, PTL

\* find_tag_ids finds every tag that was resolved.
THEOREM TagsKept == Spec => []NoResolvedTagDropped
<1>1. Inv => NoResolvedTagDropped
  BY DEF Inv, CallInv, DraftFits, NoResolvedTagDropped
<1> QED
  BY <1>1, RequestsStayConsistent, PTL

\* A search shows only questions that have a tag it has resolved.
THEOREM SearchesAnswerTheTags == Spec => []SearchAnswersTheTags
<1>1. Inv => SearchAnswersTheTags
  BY DEF Inv, CallInv, FoundFits, SearchAnswersTheTags
<1> QED
  BY <1>1, RequestsStayConsistent, PTL
=============================================================================
