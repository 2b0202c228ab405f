---------------------------- MODULE QuestionBoard ----------------------------
(***************************************************************************)
(* What the API promises about questions: a board on which a question      *)
(* appears with its first answer and all its tags in one step, never       *)
(* changes its tags and never loses an answer.  Whoever looks at the board *)
(* sees questions as they all are at one instant.  Whoever is told that a  *)
(* post was refused finds nothing of it there.                             *)
(***************************************************************************)
CONSTANTS Call, Tag

VARIABLES
  questions,   \* the submissions that are on the board
  links,       \* links[q]: the tags of question q
  answers,     \* answers[q]: the posts that answer q, its own among them
  told,        \* told[c]: what the client of post c has been told
  shown        \* shown[c]: what the client of reader c is about to be shown

boardVars == <<questions, links, answers, told, shown>>

Nothing == [q \in {} |-> {}]
Content(S) == [q \in S |-> [tags |-> links[q], answers |-> answers[q]]]

Init ==
  /\ questions = {}
  /\ links = [q \in Call |-> {}]
  /\ answers = [q \in Call |-> {}]
  /\ told = [c \in Call |-> "nothing"]
  /\ shown = [c \in Call |-> Nothing]

Post(c, T) ==
  /\ c \notin questions
  /\ told[c] = "nothing"
  /\ questions' = questions \union {c}
  /\ links' = [links EXCEPT ![c] = T]
  /\ answers' = [answers EXCEPT ![c] = {c}]
  /\ UNCHANGED <<told, shown>>

Answer(c, q) ==
  /\ q \in questions
  /\ told[c] = "nothing"
  /\ \A p \in Call : c \notin answers[p]
  /\ answers' = [answers EXCEPT ![q] = @ \union {c}]
  /\ UNCHANGED <<questions, links, told, shown>>

Posted(c) == \E q \in questions : c \in answers[q]

Tell(c, word) ==
  /\ told[c] = "nothing"
  /\ (word = "created") <=> Posted(c)
  /\ told' = [told EXCEPT ![c] = word]
  /\ UNCHANGED <<questions, links, answers, shown>>

Show(c, S) ==
  /\ S \subseteq questions
  /\ shown' = [shown EXCEPT ![c] = Content(S)]
  /\ UNCHANGED <<questions, links, answers, told>>

\* Replies have been delivered, or lost.
Close(C) ==
  /\ shown' = [c \in Call |-> IF c \in C THEN Nothing ELSE shown[c]]
  /\ UNCHANGED <<questions, links, answers, told>>

Next ==
  \/ \E C \in SUBSET Call : Close(C)
  \/ \E c \in Call :
       \/ \E T \in SUBSET Tag : Post(c, T)
       \/ \E q \in Call : Answer(c, q)
       \/ \E word \in {"created", "refused"} : Tell(c, word)
       \/ \E S \in SUBSET Call : Show(c, S)

Spec == Init /\ [][Next]_boardVars
=============================================================================
