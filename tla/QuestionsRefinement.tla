------------------------- MODULE QuestionsRefinement -------------------------
(***************************************************************************)
(* Questions implements QuestionBoard: every step of a request posts,      *)
(* answers, tells, shows or closes, or does nothing that a client can see. *)
(***************************************************************************)
EXTENDS QuestionsProofs

\* What a request that ends with no word, or has not ended, has been told.
Words == {"created", "refused"}

\* The steps at which a request has nothing to show and no word.
Silent == Steps \ (Words \union {"found_tags", "reply"})

LEMMA NothingOnBoard == Board!Content({}) = Nothing /\ Board!Nothing = Nothing
BY DEF Board!Content, Board!Nothing, Nothing

LEMMA ToldOf ==
  ASSUME NEW c \in Call
  PROVE  Told[c] = IF pc[c] \in Words THEN pc[c] ELSE "nothing"
BY DEF Told, Words

LEMMA ShownOf ==
  ASSUME NEW c \in Call
  PROVE  Shown[c] = IF c \in abandoned THEN Nothing
                    ELSE IF pc[c] = "found_tags" THEN ReadTags(c)
                    ELSE IF pc[c] = "reply" THEN got[c] ELSE Nothing
BY DEF Shown

LEMMA SilentShowsNothing ==
  ASSUME NEW c \in Call, pc[c] \in Silent
  PROVE  Told[c] = "nothing" /\ Shown[c] = Nothing
BY ToldOf, ShownOf DEF Silent, Words

LEMMA InitRefines == Init => Board!Init
<1> SUFFICES ASSUME Init
             PROVE  Board!Init
  OBVIOUS
<1>1. Told = [c \in Call |-> "nothing"]
  BY DEF Told, Init
<1>2. Shown = [c \in Call |-> Nothing]
  BY DEF Shown, Init
<1> QED
  BY <1>1, <1>2, NothingOnBoard DEF Init, Board!Init

\* What a request shows does not change while others post.
LEMMA OthersKeepTheirView ==
  ASSUME Inv, NEW d \in Call, pc'[d] = pc[d], got'[d] = got[d],
         d \in abandoned' <=> d \in abandoned,
         \A q \in questions : links'[q] = links[q]
  PROVE  Told'[d] = Told[d] /\ Shown'[d] = Shown[d]
<1>1. \A q \in DOMAIN got[d] : links'[q] = links[q]
  BY DEF Inv, CallInv, ReadFits
<1>2. ReadTags(d)' = ReadTags(d)
  BY <1>1 DEF ReadTags
<1> QED
  BY <1>2 DEF Told, Shown

\* Only the slots of c change.
OthersRest(c) ==
  \A d \in Call \ {c} : /\ pc'[d] = pc[d]
                         /\ got'[d] = got[d]
                         /\ (d \in abandoned' <=> d \in abandoned)

\* A step after which one request at most is told or shown something else.
LEMMA ViewsAfter ==
  ASSUME Inv, NEW c \in Call, OthersRest(c),
         \A q \in questions : links'[q] = links[q]
  PROVE  /\ Told' = [Told EXCEPT ![c] = Told'[c]]
         /\ Shown' = [Shown EXCEPT ![c] = Shown'[c]]
         /\ Told'[c] = Told[c] => Told' = Told
         /\ Shown'[c] = Shown[c] => Shown' = Shown
<1>1. \A d \in Call \ {c} : Told'[d] = Told[d] /\ Shown'[d] = Shown[d]
  <2>1. ASSUME NEW d \in Call \ {c}
        PROVE  Told'[d] = Told[d] /\ Shown'[d] = Shown[d]
    <3>1. pc'[d] = pc[d] /\ got'[d] = got[d]
      BY DEF OthersRest
    <3>2. d \in abandoned' <=> d \in abandoned
      BY DEF OthersRest
    <3> QED
      BY <3>1, <3>2, OthersKeepTheirView
  <2> QED
    BY <2>1
<1>2. /\ Told = [d \in Call |-> Told[d]] /\ Told' = [d \in Call |-> Told'[d]]
      /\ Shown = [d \in Call |-> Shown[d]]
      /\ Shown' = [d \in Call |-> Shown'[d]]
  BY DEF Told, Shown
<1> QED
  BY <1>1, <1>2, Zenon

-----------------------------------------------------------------------------
(***************************************************************************)
(* The steps of one request that leave the board alone.                    *)
(***************************************************************************)
Private(c) == UNCHANGED boardVars /\ OthersRest(c)

LEMMA QuietStep ==
  ASSUME Inv, NEW c \in Call, Private(c),
         Told'[c] = Told[c], Shown'[c] = Shown[c]
  PROVE  UNCHANGED Board!boardVars
<1>1. UNCHANGED <<questions, links, answers>>
  BY DEF Private, boardVars
<1>2. Told' = Told /\ Shown' = Shown
  BY <1>1, ViewsAfter DEF Private
<1> QED
  BY <1>1, <1>2 DEF Board!boardVars

LEMMA SilentStep ==
  ASSUME Inv, NEW c \in Call, Private(c), pc[c] \in Silent, pc'[c] \in Silent
  PROVE  UNCHANGED Board!boardVars
<1>1. Told[c] = "nothing" /\ Shown[c] = Nothing
  BY SilentShowsNothing
<1>2. Told'[c] = "nothing" /\ Shown'[c] = Nothing
  BY DEF Told, Shown, Silent, Words
<1> QED
  BY <1>1, <1>2, QuietStep

LEMMA ShowStep ==
  ASSUME Inv, NEW c \in Call, Private(c), NEW S \in SUBSET Call,
         S \subseteq questions, Told'[c] = Told[c],
         Shown'[c] = Board!Content(S)
  PROVE  Board!Next
<1>1. UNCHANGED <<questions, links, answers>>
  BY DEF Private, boardVars
<1>2. Told' = Told /\ Shown' = [Shown EXCEPT ![c] = Board!Content(S)]
  BY <1>1, ViewsAfter DEF Private
<1>3. Board!Show(c, S)
  BY <1>1, <1>2 DEF Board!Show
<1> QED
  BY <1>3 DEF Board!Next

LEMMA CloseStep ==
  ASSUME Inv, NEW c \in Call, Private(c), Told'[c] = Told[c],
         Shown'[c] = Nothing
  PROVE  Board!Next
<1>1. UNCHANGED <<questions, links, answers>>
  BY DEF Private, boardVars
<1>2. Told' = Told /\ Shown' = [Shown EXCEPT ![c] = Nothing]
  BY <1>1, ViewsAfter DEF Private
<1>3. Shown' = [d \in Call |-> IF d \in {c} THEN Board!Nothing ELSE Shown[d]]
  BY <1>2, NothingOnBoard DEF Shown
<1>4. Board!Close({c})
  BY <1>1, <1>2, <1>3 DEF Board!Close
<1> QED
  BY <1>4 DEF Board!Next

LEMMA TellStep ==
  ASSUME Inv, NEW c \in Call, Private(c), NEW word \in Words,
         Told[c] = "nothing", Told'[c] = word, Shown'[c] = Shown[c],
         (word = "created") <=> \E q \in Call : c \in answers[q]
  PROVE  Board!Next
<1>1. UNCHANGED <<questions, links, answers>>
  BY DEF Private, boardVars
<1>2. Shown' = Shown /\ Told' = [Told EXCEPT ![c] = word]
  BY <1>1, ViewsAfter DEF Private
<1>3. (word = "created") <=> Board!Posted(c)
  BY DEF Board!Posted, Inv, TypeOK
<1>4. Board!Tell(c, word)
  BY <1>1, <1>2, <1>3 DEF Board!Tell
<1> QED
  BY <1>4 DEF Board!Next, Words

\* A request ends without a word, or is refused before it has posted; of a
\* tool that was abandoned nobody hears either.
LEMMA EndRefines ==
  ASSUME Inv, NEW c \in Call, NEW word \in Ended,
         pc[c] \in Running \union {"late"}, End(c, word), UNCHANGED boardVars,
         word = "refused" => pc[c] \notin {"reply", "found_tags"},
         word = "created" => c \in abandoned
  PROVE  Board!Next
<1>1. /\ pc'[c] = IF c \in abandoned THEN "over" ELSE word
      /\ got'[c] = Nothing /\ Private(c)
  BY EndEffect DEF Private, OthersRest
<1>2. Told[c] = "nothing"
  BY ToldOf DEF Running, Holding, Words
<1>3. Shown'[c] = Nothing
  BY <1>1 DEF Shown, Ended
<1>4. ASSUME pc'[c] = "over"
      PROVE  Board!Next
  <2>1. Told'[c] = "nothing"
    BY <1>4 DEF Told
  <2> QED
    BY <1>1, <1>2, <1>3, <2>1, CloseStep
<1>5. ASSUME pc'[c] = "refused", word = "refused"
      PROVE  Board!Next
  <2>1. Shown[c] = Nothing
    BY <1>5, ShownOf
  <2>2. Told'[c] = "refused"
    BY <1>5 DEF Told
  <2>3. \A q \in Call : c \notin answers[q]
    BY <1>5 DEF Inv, CallInv, PostFits, Running, Holding
  <2> QED
    BY <1>1, <1>2, <1>3, <2>1, <2>2, <2>3, TellStep DEF Words
<1> QED
  BY <1>1, <1>4, <1>5 DEF Ended

LEMMA EndingsRefine ==
  ASSUME Inv, NEW c \in Call,
         \/ Refuse(c) \/ CheckoutFails(c) \/ EmbedFails(c) \/ NotFound(c)
         \/ StatementFails(c) \/ Drop(c)
  PROVE  Board!Next
<1>1. ASSUME Refuse(c) \/ EmbedFails(c) \/ NotFound(c)
      PROVE  Board!Next
  <2>1. /\ pc[c] \in Running \ {"reply", "found_tags"} /\ End(c, "refused")
        /\ UNCHANGED boardVars
    BY <1>1 DEF Refuse, EmbedFails, NotFound, Running, Holding
  <2> QED
    BY <2>1, EndRefines DEF Ended
<1>2. ASSUME CheckoutFails(c) \/ StatementFails(c) \/ Drop(c)
      PROVE  Board!Next
  <2>1. pc[c] \in Running /\ End(c, "over") /\ UNCHANGED boardVars
    BY <1>2 DEF CheckoutFails, StatementFails, Drop, Running
  <2> QED
    BY <2>1, EndRefines DEF Ended
<1> QED
  BY <1>1, <1>2

LEMMA ReplyRefines ==
  ASSUME Inv, NEW c \in Call, Reply(c)
  PROVE  Board!Next
<1> DEFINE word == IF ask[c].kind \in Posts THEN "created" ELSE "over"
<1>1. /\ pc[c] = "reply" /\ End(c, word) /\ UNCHANGED boardVars
  BY DEF Reply, Posts
<1>2. ASSUME ask[c].kind \notin Posts \/ c \in abandoned
      PROVE  Board!Next
  BY <1>1, <1>2, EndRefines DEF Running, Ended
<1>3. ASSUME ask[c].kind \in Posts, c \notin abandoned
      PROVE  Board!Next
  <2>1. pc'[c] = "created" /\ Private(c)
    BY <1>1, <1>3, EndEffect DEF Private, OthersRest, Ended
  <2>2. got[c] = Nothing /\ \E q \in Call : c \in answers[q]
    BY <1>1, <1>3 DEF Inv, CallInv, PostFits, ReadFits
  <2>3. Told[c] = "nothing" /\ Shown[c] = Nothing
    BY <1>1, <2>2, ToldOf, ShownOf DEF Words
  <2>4. got'[c] = Nothing
    BY <1>1, <1>3, EndEffect DEF Ended
  <2>5. Told'[c] = "created" /\ Shown'[c] = Nothing
    BY <2>1, <2>4 DEF Told, Shown
  <2> QED
    BY <2>1, <2>2, <2>3, <2>5, TellStep DEF Words
<1> QED
  BY <1>2, <1>3

LEMMA SilentStepsRefine ==
  ASSUME Inv, NEW c \in Call,
         \/ \E r \in Requests : Send(c, r)
         \/ Checkout(c) \/ Embed(c) \/ InsertQuestion(c) \/ FindTagIds(c)
         \/ LinkTags(c) \/ GetQuestion(c) \/ GetTags(c) \/ DropInCommit(c)
  PROVE  UNCHANGED Board!boardVars
<1>1. ASSUME \E r \in Requests : Send(c, r)
      PROVE  Private(c) /\ pc[c] = "idle" /\ pc'[c] = "sent"
  BY <1>1 DEF Send, Goto, Inv, TypeOK, Private, OthersRest
<1>2. ASSUME Checkout(c)
      PROVE  /\ Private(c) /\ pc[c] = "sent"
             /\ pc'[c] \in {"embed", "answer", "question"}
  <2>1. ask[c].kind \in Kind
    BY <1>2 DEF Checkout, Inv, CallInv, RunsOnLiveInstance, Running, Request
  <2> QED
    BY <1>2, <2>1
       DEF Checkout, Goto, Inv, TypeOK, Private, OthersRest, Kind, FirstStep
<1>3. ASSUME Embed(c) \/ InsertQuestion(c) \/ FindTagIds(c) \/ LinkTags(c)
      PROVE  /\ Private(c) /\ pc[c] \in {"embed", "insert", "find", "link"}
             /\ pc'[c] \in {"insert", "match", "commit", "find", "link"}
  BY <1>3 DEF Embed, InsertQuestion, FindTagIds, LinkTags, Goto, Inv, TypeOK,
              Private, OthersRest
<1>4. ASSUME GetQuestion(c) \/ GetTags(c)
      PROVE  /\ Private(c) /\ pc[c] \in {"question", "tags"}
             /\ pc'[c] \in {"tags", "answers"}
  BY <1>4 DEF GetQuestion, GetTags, Read, Goto, Inv, TypeOK, Private, OthersRest
<1>5. ASSUME DropInCommit(c)
      PROVE  /\ Private(c) /\ pc[c] \in {"commit", "answer"} /\ pc'[c] = "late"
  BY <1>5 DEF DropInCommit, Goto, Inv, TypeOK, Private, OthersRest
<1> QED
  BY <1>1, <1>2, <1>3, <1>4, <1>5, SilentStep
     DEF Silent, Steps, Words, Running, Holding, Ended

-----------------------------------------------------------------------------
(***************************************************************************)
(* The steps that show, and those that post.                               *)
(***************************************************************************)
\* What a tool reads that was abandoned is shown to nobody.
LEMMA AbandonedRead ==
  ASSUME Inv, NEW c \in Call, c \in abandoned, c \in abandoned', Private(c),
         pc[c] \in Running, pc'[c] \in Running
  PROVE  UNCHANGED Board!boardVars
<1>1. Told'[c] = Told[c] /\ Shown'[c] = Shown[c]
  BY DEF Told, Shown, Running, Holding
<1> QED
  BY <1>1, QuietStep

\* The answers were read last, of tags that cannot have changed since.
LEMMA GetAnswersRefines ==
  ASSUME Inv, NEW c \in Call, GetAnswers(c)
  PROVE  Board!Next \/ UNCHANGED Board!boardVars
<1> DEFINE S == DOMAIN got[c]
<1>1. /\ pc[c] = "answers" /\ pc'[c] = "reply" /\ Private(c)
      /\ got'[c] = ReadAnswers(c) /\ abandoned' = abandoned
  BY DEF GetAnswers, Read, Goto, Inv, TypeOK, Private, OthersRest
<1>2. S \subseteq questions /\ S \in SUBSET Call
  BY DEF Inv, TypeOK, CallInv, ReadFits
<1>3. \A q \in S : got[c][q].tags = links[q]
  BY <1>1 DEF Inv, CallInv, ReadFits
<1>4. ReadAnswers(c) = Board!Content(S)
  <2>1. \A q \in S : ReadAnswers(c)[q] = [tags |-> links[q], answers |-> answers[q]]
    BY <1>3, ReadingsTypes
  <2> QED
    BY <2>1 DEF ReadAnswers, Board!Content
<1>5. Told'[c] = Told[c]
  BY <1>1 DEF Told
<1>6. CASE c \in abandoned
  BY <1>1, <1>6, AbandonedRead DEF Running, Holding
<1>7. CASE c \notin abandoned
  <2>1. Shown'[c] = ReadAnswers(c)
    BY <1>1, <1>7 DEF Shown
  <2> QED
    BY <1>1, <1>2, <1>4, <1>5, <2>1, ShowStep
<1> QED
  BY <1>6, <1>7

\* The tags are read last, and are now what they will be then.
LEMMA SearchAnswersRefines ==
  ASSUME Inv, NEW c \in Call, SearchAnswers(c)
  PROVE  Board!Next \/ UNCHANGED Board!boardVars
<1> DEFINE S == DOMAIN got[c]
<1>1. /\ pc[c] = "found_answers" /\ pc'[c] = "found_tags" /\ Private(c)
      /\ got'[c] = ReadAnswers(c) /\ UNCHANGED <<links, abandoned>>
  BY DEF SearchAnswers, Read, Goto, Inv, TypeOK, Private, OthersRest, boardVars
<1>2. S \subseteq questions /\ S \in SUBSET Call
  BY DEF Inv, TypeOK, CallInv, ReadFits
<1>3. /\ DOMAIN ReadAnswers(c) = S
      /\ \A q \in S : ReadAnswers(c)[q] = [tags |-> got[c][q].tags, answers |-> answers[q]]
  BY ReadingsTypes
<1>4. c \notin abandoned => Shown'[c] = Board!Content(S)
  <2>1. \A q \in S : [ReadAnswers(c)[q] EXCEPT !.tags = links[q]]
                     = [tags |-> links[q], answers |-> answers[q]]
    <3>1. ASSUME NEW q \in S
          PROVE  [ReadAnswers(c)[q] EXCEPT !.tags = links[q]]
                   = [tags |-> links[q], answers |-> answers[q]]
      <4>1. ReadAnswers(c)[q] = [tags |-> got[c][q].tags, answers |-> answers[q]]
        BY <1>3, <3>1
      <4> QED
        BY <4>1
    <3> QED
      BY <3>1
  <2>2. c \notin abandoned => Shown'[c] = [q \in S |-> [ReadAnswers(c)[q] EXCEPT !.tags = links[q]]]
    BY <1>1, <1>3 DEF Shown, ReadTags
  <2> QED
    BY <2>1, <2>2 DEF Board!Content
<1>5. Told'[c] = Told[c]
  BY <1>1 DEF Told
<1>6. CASE c \in abandoned
  BY <1>1, <1>6, AbandonedRead DEF Running, Holding
<1> QED
  BY <1>1, <1>2, <1>4, <1>5, <1>6, ShowStep

LEMMA SearchTagsRefines ==
  ASSUME Inv, NEW c \in Call, SearchTags(c)
  PROVE  UNCHANGED Board!boardVars
<1>1. /\ pc[c] = "found_tags" /\ pc'[c] = "reply" /\ Private(c)
      /\ got'[c] = ReadTags(c) /\ abandoned' = abandoned
  BY DEF SearchTags, Read, Goto, Inv, TypeOK, Private, OthersRest
<1>2. Told'[c] = Told[c] /\ Shown'[c] = Shown[c]
  BY <1>1 DEF Told, Shown
<1> QED
  BY <1>1, <1>2, QuietStep

LEMMA MatchRefines ==
  ASSUME Inv, NEW c \in Call, Match(c)
  PROVE  UNCHANGED Board!boardVars
<1>1. PICK S \in SUBSET Matching(c) :
        Read(c, [q \in S |-> [tags |-> {}, answers |-> {}]],
             IF S = {} THEN "reply" ELSE "found_answers")
  BY DEF Match
<1>2. /\ pc[c] = "match" /\ Private(c)
      /\ pc'[c] = IF S = {} THEN "reply" ELSE "found_answers"
      /\ got'[c] = [q \in S |-> [tags |-> {}, answers |-> {}]]
  BY <1>1 DEF Match, Read, Goto, Inv, TypeOK, Private, OthersRest
<1>3. Told'[c] = Told[c]
  BY <1>2 DEF Told
<1>4. Shown[c] = Nothing
  BY <1>2, ShownOf
<1>5. Shown'[c] = Nothing
  BY <1>2 DEF Shown, Nothing
<1> QED
  BY <1>2, <1>3, <1>4, <1>5, QuietStep

\* A step that posts changes no view: its own request has none yet.
LEMMA PostKeepsViews ==
  ASSUME Inv, NEW c \in Call, pc[c] \in {"commit", "answer", "late"}, Posted(c),
         \A q \in questions : links'[q] = links[q]
  PROVE  Told[c] = "nothing" /\ UNCHANGED <<Told, Shown>>
<1>1. got[c] = Nothing
  BY DEF Inv, CallInv, ReadFits
<1>2. pc'[c] \in {"reply", "over"} /\ got'[c] = Nothing /\ OthersRest(c)
  BY <1>1, EndEffect DEF Posted, Goto, Inv, TypeOK, OthersRest, Ended
<1>3. Told[c] = "nothing" /\ Shown[c] = Nothing
  BY ToldOf, ShownOf DEF Words
<1>4. Told'[c] = "nothing" /\ Shown'[c] = Nothing
  BY <1>2 DEF Told, Shown
<1> QED
  BY <1>2, <1>3, <1>4, ViewsAfter

LEMMA PostedRefines ==
  ASSUME Inv, NEW c \in Call, pc[c] \in {"commit", "late"}, Posted(c),
         PostedBy(c, draft[c])
  PROVE  Board!Next
<1>1. /\ questions' = questions \union {c}
      /\ links' = [links EXCEPT ![c] = draft[c]]
      /\ answers' = [answers EXCEPT ![c] = {c}]
      /\ draft[c] \in SUBSET Tag
  BY DEF PostedBy, Inv, TypeOK
<1>2. c \notin questions
  BY DEF Inv, CallInv, PostFits
<1>3. \A q \in questions : links'[q] = links[q]
  BY <1>1, <1>2 DEF Inv, TypeOK
<1>4. Told[c] = "nothing" /\ UNCHANGED <<Told, Shown>>
  BY <1>3, PostKeepsViews
<1>5. Board!Post(c, draft[c])
  BY <1>1, <1>2, <1>4 DEF Board!Post
<1> QED
  BY <1>1, <1>5 DEF Board!Next

LEMMA AnsweredRefines ==
  ASSUME Inv, NEW c \in Call, pc[c] \in {"answer", "late"}, Posted(c),
         AnsweredBy(c, ask[c].target)
  PROVE  Board!Next
<1> DEFINE q == ask[c].target
<1>1. /\ q \in questions /\ q \in Call
      /\ answers' = [answers EXCEPT ![q] = @ \union {c}]
      /\ UNCHANGED <<questions, links>>
  BY DEF AnsweredBy, Inv, TypeOK
<1>2. \A p \in Call : c \notin answers[p]
  BY DEF Inv, CallInv, PostFits
<1>3. Told[c] = "nothing" /\ UNCHANGED <<Told, Shown>>
  BY <1>1, PostKeepsViews
<1>4. Board!Answer(c, q)
  BY <1>1, <1>2, <1>3 DEF Board!Answer
<1> QED
  BY <1>1, <1>4 DEF Board!Next

LEMMA PostsRefine ==
  ASSUME Inv, NEW c \in Call,
         Commit(c) \/ InsertAnswer(c) \/ LateCommit(c)
  PROVE  Board!Next
<1>1. ASSUME Commit(c)
      PROVE  Board!Next
  BY <1>1, PostedRefines DEF Commit, Posted
<1>2. ASSUME InsertAnswer(c)
      PROVE  Board!Next
  BY <1>2, AnsweredRefines DEF InsertAnswer, Posted
<1>3. ASSUME LateCommit(c)
      PROVE  Board!Next
  <2>1. ASSUME PostedBy(c, draft[c]) \/ AnsweredBy(c, ask[c].target)
        PROVE  Board!Next
    BY <1>3, <2>1, PostedRefines, AnsweredRefines DEF LateCommit, Posted
  <2>2. ASSUME UNCHANGED boardVars
        PROVE  Board!Next
    BY <1>3, <2>2, EndRefines DEF LateCommit, Ended
  <2> QED
    BY <1>3, <2>1, <2>2 DEF LateCommit
<1> QED
  BY <1>1, <1>2, <1>3

\* Who has waited for a tool is shown nothing more.
LEMMA AbandonRefines ==
  ASSUME Inv, NEW c \in Call, Abandon(c)
  PROVE  Board!Next
<1>1. /\ Private(c) /\ pc' = pc /\ c \in abandoned'
  BY DEF Abandon, Private, OthersRest
<1>2. Told'[c] = Told[c] /\ Shown'[c] = Nothing
  BY <1>1 DEF Told, Shown
<1> QED
  BY <1>1, <1>2, CloseStep

-----------------------------------------------------------------------------
LEMMA CrashRefines ==
  ASSUME Inv, NEW i \in Instance, Crash(i)
  PROVE  Board!Next
<1> DEFINE mine == {c \in Call : pc[c] \in Running /\ ask[c].instance = i}
<1>1. /\ UNCHANGED <<questions, links, answers>>
      /\ \A c \in mine : pc'[c] = "over"
      /\ \A c \in Call \ mine : /\ pc'[c] = pc[c] /\ got'[c] = got[c]
                                /\ (c \in abandoned' <=> c \in abandoned)
  BY DEF Crash, boardVars
<1>2. \A c \in mine : /\ Told'[c] = "nothing" /\ Told[c] = "nothing"
                     /\ Shown'[c] = Nothing
  BY <1>1 DEF Told, Shown, Running, Holding
<1>3. \A c \in Call \ mine : Told'[c] = Told[c] /\ Shown'[c] = Shown[c]
  BY <1>1, OthersKeepTheirView
<1>4. /\ Told = [d \in Call |-> Told[d]] /\ Told' = [d \in Call |-> Told'[d]]
      /\ Shown' = [d \in Call |-> Shown'[d]]
  BY DEF Told, Shown
<1>5. Told' = Told
  <2>1. \A c \in Call : Told'[c] = Told[c]
    BY <1>2, <1>3
  <2> QED
    BY <1>4, <2>1, Zenon
<1>6. Shown' = [c \in Call |-> IF c \in mine THEN Board!Nothing ELSE Shown[c]]
  BY <1>2, <1>3, <1>4, NothingOnBoard, Zenon
<1>7. Board!Close(mine)
  BY <1>1, <1>5, <1>6 DEF Board!Close
<1> QED
  BY <1>7 DEF Board!Next

LEMMA UnseenRefines ==
  ASSUME UNCHANGED <<boardVars, callVars>>
  PROVE  UNCHANGED Board!boardVars
<1>1. UNCHANGED <<questions, links, answers, pc, got, abandoned>>
  BY DEF boardVars, callVars
<1>2. Told' = Told /\ Shown' = Shown
  BY <1>1 DEF Told, Shown, ReadTags
<1> QED
  BY <1>1, <1>2 DEF Board!boardVars

LEMMA NextRefines ==
  ASSUME Inv, [Next]_vars
  PROVE  [Board!Next]_Board!boardVars
<1>1. ASSUME NEW c \in Call, Step(c)
      PROVE  Board!Next \/ UNCHANGED Board!boardVars
  BY <1>1, SilentStepsRefine, EndingsRefine, ReplyRefines, GetAnswersRefines,
     SearchAnswersRefines, SearchTagsRefines, MatchRefines, PostsRefine,
     AbandonRefines
     DEF Step, Submit, Get, Search
<1>2. ASSUME Tags, UNCHANGED <<boardVars, callVars>>
      PROVE  UNCHANGED Board!boardVars
  BY <1>2, UnseenRefines
<1>3. ASSUME UNCHANGED vars
      PROVE  UNCHANGED Board!boardVars
  BY <1>3, UnseenRefines DEF vars
<1> QED
  BY <1>1, <1>2, <1>3, CrashRefines DEF Next

\* The API implements the board: whatever requests, failures, crashes and
\* syncs come, a client sees questions with all their tags and answers as
\* they are at one instant, and is told the truth about its own post.
THEOREM BoardImplemented == Spec => ImplementsBoard
<1>1. Inv /\ [Next]_vars => [Board!Next]_Board!boardVars
  BY NextRefines
<1> QED
  BY <1>1, InitRefines, RequestsStayConsistent, PTL
     DEF Spec, ImplementsBoard, Board!Spec
=============================================================================
