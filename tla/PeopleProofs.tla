----------------------------- MODULE PeopleProofs -----------------------------
(***************************************************************************)
(* Theorems about what people of a Project see and decide: Decisions, the  *)
(* Members of a Project and who is online, for any number of people,       *)
(* requests and connections.                                               *)
(***************************************************************************)
EXTENDS Questions, Membership, Presence, WellFoundedInduction, FiniteSetTheorems, TLAPS

(***************************************************************************)
(* Decisions.                                                              *)
(***************************************************************************)
Words == Remarks \cup {Shown(Options[i]) : i \in DOMAIN Options} \cup {NoAnswer, NotNeeded}
Told == {Options[i].id : i \in DOMAIN Options} \cup {NoAnswer, <<"cancelled">>}

Decided == [at : {"none", "reading", "open", "answered"}, by : {"nobody", "person", "memory", "the run's end"},
            answer : Words]

QuestionsTyped ==
  /\ decision \in [Decisions -> Decided]
  /\ memory \in Words /\ recalled \in [Inquiries -> Words]
  /\ goes \in BOOLEAN
  /\ relay \in [Permits -> {"none", "posting", "polling", "over"}]
  /\ replied \in [Permits -> Told]

(* Who answered goes with the answer. *)
Answered(d) ==
  /\ decision[d].at = "answered" <=> decision[d].answer # NoAnswer
  /\ decision[d].at = "answered" <=> decision[d].by # "nobody"
  /\ decision[d].by = "memory" => d \in Inquiries
  /\ decision[d].by = "the run's end" => decision[d].answer = NotNeeded

(* A person gave this answer to the question that is remembered. *)
Given(a) == \E e \in Inquiries : decision[e].by = "person" /\ decision[e].answer = a

(* What makes PeopleDecide inductive: the answer that is remembered, and   *)
(* that a transaction has read and still may write, is one a person gave.  *)
QuestionsSound ==
  /\ \A d \in Decisions : Answered(d)
  /\ \A p \in Permits : relay[p] = "over" <=> replied[p] # NoAnswer
  /\ memory # NoAnswer => Given(memory)
  /\ \A d \in Inquiries : recalled[d] # NoAnswer => Given(recalled[d])

QuestionsInv == QuestionsTyped /\ QuestionsSound /\ PeopleDecide

(* An answer that means an option picks one that it means.                 *)
LEMMA OptionPicked ==
  ASSUME NEW a, Means(a) # {}
  PROVE  (CHOOSE i \in Means(a) : \A j \in Means(a) : i <= j) \in Means(a)
<1>1. Means(a) \subseteq Nat
  BY OptionsAssumption DEF Means
<1>2. PICK x \in Means(a) : \A y \in Means(a) : <<y, x>> \notin OpToRel(<, Nat)
  BY <1>1, NatLessThanWellFounded, WFMin
<1>3. \A y \in Means(a) : x <= y
  <2>1. \A y \in Means(a) : ~ (y < x)
    BY <1>1, <1>2, Zenon DEF OpToRel
  <2> QED BY <1>1, <2>1
<1> QED BY <1>3

(* Every step of Decisions, by what it does to them. *)
LEMMA QuestionSteps ==
  ASSUME QuestionsNext
  PROVE  \/ \E d \in Inquiries : ReadMemory(d) \/ CreateDecision(d)
         \/ \E p \in Permits : Ask(p) \/ AskPermit(p) \/ GiveUp(p) \/ Poll(p)
         \/ \E d \in Decisions, a \in Words \ {NoAnswer, NotNeeded} : DecisionAnswered(d, a)
         \/ \E d \in Decisions : DecisionAnswered(d, NotNeeded)
         \/ RunEnds
BY OptionsAssumption DEF QuestionsNext, Decisions, Words

(* A Decision that is answered stays so, with its answer. *)
LEMMA AnsweredOnce ==
  ASSUME QuestionsTyped, QuestionsNext
  PROVE  \A d \in Decisions : decision[d].at = "answered" => decision'[d] = decision[d]
<1> USE DEF QuestionsTyped, Decided
<1>0. Inquiries \subseteq Decisions /\ Permits \subseteq Decisions
  BY DEF Decisions
<1>1. ASSUME NEW d \in Inquiries, ReadMemory(d)
      PROVE  \A e \in Decisions : decision[e].at = "answered" => decision'[e] = decision[e]
  BY <1>1, <1>0 DEF ReadMemory
<1>2. ASSUME NEW d \in Inquiries, CreateDecision(d)
      PROVE  \A e \in Decisions : decision[e].at = "answered" => decision'[e] = decision[e]
  BY <1>2, <1>0 DEF CreateDecision, OpenDecision, Answers
<1>3. ASSUME NEW p \in Permits, Ask(p) \/ AskPermit(p) \/ GiveUp(p) \/ Poll(p)
      PROVE  \A e \in Decisions : decision[e].at = "answered" => decision'[e] = decision[e]
  BY <1>3, <1>0 DEF Ask, AskPermit, OpenDecision, Answers, GiveUp, Poll, Tell
<1>4. ASSUME NEW d \in Decisions, NEW a, DecisionAnswered(d, a)
      PROVE  \A e \in Decisions : decision[e].at = "answered" => decision'[e] = decision[e]
  BY <1>4 DEF DecisionAnswered, Answers, IsOpen
<1>5. ASSUME RunEnds
      PROVE  \A e \in Decisions : decision[e].at = "answered" => decision'[e] = decision[e]
  BY <1>5 DEF RunEnds, Unanswered, IsOpen
<1> QED BY QuestionSteps, <1>1, <1>2, <1>3, <1>4, <1>5

(* The invariant holds at first, and every step keeps it. *)
LEMMA QuestionsStart == QuestionsInit => QuestionsInv
<1> SUFFICES ASSUME QuestionsInit PROVE QuestionsInv
  OBVIOUS
<1>1. NoAnswer \in Words /\ NoAnswer \in Told /\ Inquiries \subseteq Decisions
  BY DEF Words, Told, Decisions
<1>2. QuestionsTyped
  BY <1>1 DEF QuestionsInit, QuestionsTyped, Unasked, Decided
<1>3. QuestionsSound /\ PeopleDecide
  BY <1>1 DEF QuestionsInit, QuestionsSound, Answered, PeopleDecide, Unasked
<1> QED BY <1>2, <1>3 DEF QuestionsInv

(* An answer and a new Decision leave every Decision a record of the       *)
(* model.                                                                  *)
LEMMA DecisionsTyped ==
  ASSUME decision \in [Decisions -> Decided], NEW d \in Decisions
  PROVE  /\ \A a \in Words, who \in {"person", "memory"} : Answers(d, who, a) => decision' \in [Decisions -> Decided]
         /\ \A at \in {"reading", "open"} :
              decision' = [decision EXCEPT ![d].at = at] => decision' \in [Decisions -> Decided]
<1>1. \A a \in Words, who \in {"person", "memory", "the run's end"} :
        [at |-> "answered", by |-> who, answer |-> a] \in Decided
  BY DEF Decided
<1>2. \A at \in {"reading", "open"} : [decision[d] EXCEPT !.at = at] \in Decided
  BY DEF Decided
<1> QED BY <1>1, <1>2 DEF Answers

(* Every step keeps the types. *)
LEMMA QuestionsTypedKept ==
  ASSUME QuestionsTyped, QuestionsNext
  PROVE  QuestionsTyped'
<1> USE DEF QuestionsTyped
<1>0. /\ Inquiries \subseteq Decisions /\ Permits \subseteq Decisions
      /\ NotNeeded \in Words /\ <<"cancelled">> \in Told
      /\ \A i \in DOMAIN Options : Options[i].id \in Told
  BY DEF Decisions, Words, Told
<1>1. ASSUME NEW d \in Inquiries, ReadMemory(d) \/ CreateDecision(d)
      PROVE  QuestionsTyped'
  BY <1>1, <1>0, DecisionsTyped DEF ReadMemory, CreateDecision, OpenDecision
<1>2. ASSUME NEW p \in Permits, Ask(p) \/ AskPermit(p) \/ GiveUp(p)
      PROVE  QuestionsTyped'
  <2>1. CASE AskPermit(p)
    BY <2>1, <1>0, DecisionsTyped DEF AskPermit, OpenDecision
  <2>2. CASE Ask(p) \/ GiveUp(p)
    BY <2>2, <1>0 DEF Ask, GiveUp, Tell
  <2> QED BY <1>2, <2>1, <2>2
<1>3. ASSUME NEW p \in Permits, Poll(p)
      PROVE  QuestionsTyped'
  <2> DEFINE picked == Means(decision[p].answer)
             reply == IF picked = {} THEN <<"cancelled">>
                     ELSE Options[CHOOSE i \in picked : \A j \in picked : i <= j].id
  <2>1. reply \in Told
    <3>1. picked # {} => (CHOOSE i \in picked : \A j \in picked : i <= j) \in DOMAIN Options
      BY OptionPicked DEF Means
    <3> QED BY <1>0, <3>1
  <2>2. Tell(p, reply)
    BY <1>3 DEF Poll
  <2> HIDE DEF reply
  <2> QED BY <2>1, <2>2 DEF Tell
<1>4. ASSUME NEW d \in Decisions, NEW a \in Words, DecisionAnswered(d, a)
      PROVE  QuestionsTyped'
  BY <1>4, DecisionsTyped DEF DecisionAnswered
<1>5. ASSUME RunEnds
      PROVE  QuestionsTyped'
  <2>1. [at |-> "answered", by |-> "the run's end", answer |-> NotNeeded] \in Decided
    BY <1>0 DEF Decided
  <2> QED BY <1>5, <2>1 DEF RunEnds
<1> QED BY QuestionSteps, <1>0, <1>1, <1>2, <1>3, <1>4, <1>5

(* ... and what else a step keeps: what a person said stays said.          *)
LEMMA GivenStays ==
  ASSUME QuestionsTyped, QuestionsSound, QuestionsNext, NEW a, Given(a)
  PROVE  Given(a)'
<1>1. PICK e \in Inquiries : decision[e].by = "person" /\ decision[e].answer = a
  BY DEF Given
<1>2. decision[e].at = "answered"
  BY <1>1 DEF QuestionsSound, Answered, Decisions
<1>3. decision'[e] = decision[e]
  BY <1>2, AnsweredOnce DEF Decisions
<1> QED BY <1>1, <1>3 DEF Given

(* An answer changes one Decision. *)
LEMMA AnswersTo ==
  ASSUME decision \in [Decisions -> Decided], NEW d \in Decisions, NEW who, NEW a, Answers(d, who, a)
  PROVE  /\ decision'[d].at = "answered" /\ decision'[d].by = who /\ decision'[d].answer = a
         /\ \A e \in Decisions \ {d} : decision'[e] = decision[e]
BY DEF Answers, Decided

(* A Decision that changes with the end of a Run is closed by it. *)
LEMMA EndClosed ==
  ASSUME RunEnds, NEW d \in Decisions, decision'[d] # decision[d]
  PROVE  /\ decision'[d].at = "answered" /\ decision'[d].by = "the run's end"
         /\ decision'[d].answer = NotNeeded
<1>1. d \in Unanswered
  BY DEF RunEnds
<1> QED BY <1>1 DEF RunEnds

(* A Decision that was answered keeps who answered it and what. *)
LEMMA AnsweredKept ==
  ASSUME QuestionsTyped, QuestionsSound, QuestionsNext
  PROVE  \A d \in Decisions : Answered(d)'
<1> SUFFICES ASSUME NEW e \in Decisions PROVE Answered(e)'
  OBVIOUS
<1>0. /\ Inquiries \subseteq Decisions /\ Permits \subseteq Decisions /\ NotNeeded # NoAnswer
      /\ decision \in [Decisions -> Decided] /\ Answered(e)
  BY DEF Decisions, NotNeeded, NoAnswer, QuestionsTyped, QuestionsSound
<1>1. decision'[e] = decision[e] => Answered(e)'
  BY <1>0 DEF Answered
<1>2. ASSUME NEW at \in {"reading", "open"}, decision[e].at # "answered",
             decision' = [decision EXCEPT ![e].at = at]
      PROVE  Answered(e)'
  <2>1. decision'[e].at = at /\ decision'[e].by = decision[e].by /\ decision'[e].answer = decision[e].answer
    BY <1>0, <1>2 DEF Decided
  <2> QED BY <1>0, <1>2, <2>1 DEF Answered
<1>3. ASSUME NEW who \in {"person", "memory"}, NEW a, a # NoAnswer, Answers(e, who, a),
             who = "memory" => e \in Inquiries
      PROVE  Answered(e)'
  BY <1>0, <1>3, AnswersTo DEF Answered
<1>4. ASSUME NEW d \in Inquiries, ReadMemory(d)
      PROVE  Answered(e)'
  BY <1>0, <1>1, <1>2, <1>4 DEF ReadMemory
<1>5. ASSUME NEW d \in Inquiries, CreateDecision(d)
      PROVE  Answered(e)'
  <2>1. d # e => decision'[e] = decision[e]
    BY <1>0, <1>5 DEF CreateDecision, OpenDecision, Answers
  <2>2. CASE d = e
    BY <1>0, <1>2, <1>3, <1>5, <2>2 DEF CreateDecision, OpenDecision
  <2> QED BY <1>1, <2>1, <2>2
<1>6. ASSUME NEW p \in Permits, AskPermit(p)
      PROVE  Answered(e)'
  <2>1. p \notin Inquiries
    BY QuestionsAssumption
  <2> QED BY <1>0, <1>1, <1>2, <1>6, <2>1 DEF AskPermit, OpenDecision
<1>7. ASSUME NEW p \in Permits, Ask(p) \/ GiveUp(p) \/ Poll(p)
      PROVE  Answered(e)'
  BY <1>1, <1>7 DEF Ask, GiveUp, Poll, Tell
<1>8. ASSUME NEW d \in Decisions, NEW a \in Words \ {NoAnswer}, DecisionAnswered(d, a)
      PROVE  Answered(e)'
  <2>1. Answers(d, "person", a)
    BY <1>8 DEF DecisionAnswered
  <2>2. d # e => decision'[e] = decision[e]
    BY <1>0, <2>1, AnswersTo
  <2>3. d = e => Answered(e)'
    <3>1. d = e => Answers(e, "person", a)
      BY <2>1
    <3> QED BY <1>3, <3>1
  <2> QED BY <1>1, <2>2, <2>3
<1>9. ASSUME RunEnds
      PROVE  Answered(e)'
  BY <1>0, <1>1, <1>9, EndClosed DEF Answered
<1> QED
  BY QuestionSteps, <1>0, <1>4, <1>5, <1>6, <1>7, <1>8, <1>9 DEF Words

(* What was relayed stays the answer of its Decision. *)
LEMMA SoundKept ==
  ASSUME QuestionsTyped, QuestionsSound, QuestionsNext
  PROVE  QuestionsSound'
<1>1. \A d \in Decisions : Answered(d)'
  BY AnsweredKept
<1>2. \A p \in Permits : (relay[p] = "over" <=> replied[p] # NoAnswer)'
  <2> DEFINE Kept == \A p \in Permits : (relay[p] = "over" <=> replied[p] # NoAnswer)'
  <2>1. ASSUME NEW p \in Permits, NEW what, what # NoAnswer, Tell(p, what)
        PROVE  Kept
    BY <2>1 DEF Tell, QuestionsTyped, QuestionsSound
  <2>2. ASSUME NEW p \in Permits, Poll(p)
        PROVE  Kept
    <3> DEFINE picked == Means(decision[p].answer)
               reply == IF picked = {} THEN <<"cancelled">>
                       ELSE Options[CHOOSE i \in picked : \A j \in picked : i <= j].id
    <3>1. picked # {} => (CHOOSE i \in picked : \A j \in picked : i <= j) \in DOMAIN Options
      BY OptionPicked DEF Means
    <3>2. reply # NoAnswer
      BY <3>1, OptionsAssumption DEF NoAnswer
    <3>3. Tell(p, reply)
      BY <2>2 DEF Poll
    <3> HIDE DEF reply, Kept
    <3> QED BY <2>1, <3>2, <3>3
  <2>3. ASSUME NEW p \in Permits, Ask(p) \/ AskPermit(p)
        PROVE  Kept
    BY <2>3 DEF Ask, AskPermit, QuestionsTyped, QuestionsSound
  <2>4. ASSUME NEW p \in Permits, GiveUp(p)
        PROVE  Kept
    <3>1. <<"cancelled">> # NoAnswer
      BY DEF NoAnswer
    <3> QED BY <2>1, <2>4, <3>1 DEF GiveUp
  <2>5. UNCHANGED <<relay, replied>> => Kept
    BY DEF QuestionsSound
  <2>6. (\E d \in Inquiries : ReadMemory(d) \/ CreateDecision(d)) => UNCHANGED <<relay, replied>>
    BY DEF ReadMemory, CreateDecision
  <2>7. \A d, a : DecisionAnswered(d, a) => UNCHANGED <<relay, replied>>
    BY DEF DecisionAnswered
  <2>8. RunEnds => UNCHANGED <<relay, replied>>
    BY DEF RunEnds
  <2> HIDE DEF Kept
  <2>9. Kept
    BY QuestionSteps, <2>2, <2>3, <2>4, <2>5, <2>6, <2>7, <2>8
  <2> QED BY <2>9 DEF Kept
<1>3. (memory # NoAnswer => Given(memory))'
  <2>1. CASE memory' = memory
    BY <2>1, GivenStays DEF QuestionsSound, Given
  <2>2. ASSUME NEW d \in Inquiries, NEW a, DecisionAnswered(d, a)
        PROVE  Given(a)'
    BY <2>2 DEF DecisionAnswered, Answers, Given, QuestionsTyped, Decided, Decisions
  <2>3. CASE memory' # memory
    <3>0. PICK d \in Decisions, a \in Words : DecisionAnswered(d, a)
      <4>1. NotNeeded \in Words
        BY DEF Words
      <4>2. ASSUME NEW d, ReadMemory(d) \/ CreateDecision(d) PROVE FALSE
        BY <2>3, <4>2 DEF ReadMemory, CreateDecision
      <4>3. ASSUME NEW p, Ask(p) \/ AskPermit(p) \/ GiveUp(p) \/ Poll(p) PROVE FALSE
        BY <2>3, <4>3 DEF Ask, AskPermit, GiveUp, Poll, Tell
      <4>4. ~ RunEnds
        BY <2>3 DEF RunEnds
      <4> QED BY QuestionSteps, <4>1, <4>2, <4>3, <4>4
    <3>1. d \in Inquiries
      BY <2>3, <3>0 DEF DecisionAnswered
    <3>2. memory' = a
      BY <3>0, <3>1 DEF DecisionAnswered
    <3>3. Given(a)'
      BY <2>2, <3>0, <3>1
    <3> QED BY <3>2, <3>3 DEF Given
  <2> QED BY <2>1, <2>3
<1>4. \A d \in Inquiries : (recalled[d] # NoAnswer => Given(recalled[d]))'
  <2> SUFFICES ASSUME NEW d \in Inquiries, NEW r, r = recalled'[d], r # NoAnswer PROVE Given(r)'
    BY DEF Given
  <2>1. r \in {recalled[d], memory}
    BY QuestionSteps DEF ReadMemory, CreateDecision, Ask, AskPermit, GiveUp, Poll, Tell, DecisionAnswered, RunEnds, QuestionsTyped
  <2> QED BY <2>1, GivenStays DEF QuestionsSound
<1> QED BY <1>1, <1>2, <1>3, <1>4 DEF QuestionsSound

(* An agent goes on doing what people said. *)
LEMMA PeopleDecideKept ==
  ASSUME QuestionsInv, QuestionsNext
  PROVE  PeopleDecide'
<1> USE DEF QuestionsInv
<1>1. ASSUME NEW p \in Permits, replied'[p] \notin {NoAnswer, <<"cancelled">>}
      PROVE  /\ decision'[p].by = "person"
             /\ \E i \in DOMAIN Options : /\ replied'[p] = Options[i].id
                                          /\ i \in Means(decision'[p].answer)
  <2>0. p \in Decisions
    BY DEF Decisions
  <2>1. CASE replied'[p] = replied[p]
    <3>1. decision[p].by = "person"
      BY <1>1, <2>1 DEF PeopleDecide
    <3>2. decision'[p] = decision[p]
      BY <2>0, <3>1, AnsweredOnce DEF QuestionsSound, Answered
    <3> QED BY <1>1, <2>1, <3>2 DEF PeopleDecide
  <2>2. CASE replied'[p] # replied[p]
    <3>1. ASSUME NEW q \in Permits, NEW what, Tell(q, what)
          PROVE  q = p /\ what = replied'[p]
      BY <2>2, <3>1 DEF Tell, QuestionsTyped
    <3>2. Poll(p)
      <4>1. PICK q \in Permits : GiveUp(q) \/ Poll(q)
        BY <2>2, QuestionSteps DEF ReadMemory, CreateDecision, Ask, AskPermit, DecisionAnswered, RunEnds
      <4>2. ~ GiveUp(q)
        BY <1>1, <3>1 DEF GiveUp
      <4> QED BY <3>1, <4>1, <4>2 DEF Poll
    <3> DEFINE picked == Means(decision[p].answer)
               first == CHOOSE i \in picked : \A j \in picked : i <= j
    <3>3. decision[p].at = "answered" /\ Tell(p, IF picked = {} THEN <<"cancelled">> ELSE Options[first].id)
      BY <3>2 DEF Poll
    <3>4. picked # {} /\ replied'[p] = Options[first].id
      BY <1>1, <3>1, <3>3
    <3>5. first \in picked /\ first \in DOMAIN Options
      BY <3>4, OptionPicked DEF Means
    <3>6. decision'[p] = decision[p]
      BY <2>0, <3>3, AnsweredOnce
    <3>7. decision[p].by = "person"
      <4>1. decision[p].answer # NotNeeded
        BY <3>5, OptionsAssumption DEF Means
      <4>2. Answered(p) /\ p \notin Inquiries /\ decision[p] \in Decided
        BY <2>0, QuestionsAssumption DEF QuestionsSound, QuestionsTyped
      <4> QED BY <3>3, <4>1, <4>2 DEF Answered, Decided
    <3> QED BY <3>4, <3>5, <3>6, <3>7
  <2> QED BY <2>1, <2>2
<1>2. ASSUME NEW d \in Inquiries, NEW a, decision'[d].by = "memory", a = decision'[d].answer
      PROVE  Given(a)'
  <2>0. d \in Decisions
    BY DEF Decisions
  <2>1. CASE decision'[d] = decision[d]
    <3>1. Given(a)
      BY <1>2, <2>1 DEF PeopleDecide, Given
    <3> QED BY <3>1, GivenStays
  <2>2. CASE decision'[d] # decision[d]
    <3>1. CreateDecision(d) /\ recalled[d] # NoAnswer
      <4>1. \A e \in Inquiries : CreateDecision(e) /\ recalled[e] # NoAnswer => Answers(e, "memory", recalled[e])
        BY DEF CreateDecision, OpenDecision
      <4>2. ASSUME NEW e \in Decisions, NEW at, decision' = [decision EXCEPT ![e].at = at]
            PROVE  decision'[d].by = decision[d].by
        BY <2>0, <4>2 DEF QuestionsTyped, Decided
      <4>3. decision[d].by = "memory" => decision'[d] = decision[d]
        BY <2>0, AnsweredOnce DEF QuestionsSound, Answered
      <4>4. ~ \E e \in Decisions : \E at : decision' = [decision EXCEPT ![e].at = at]
        BY <1>2, <2>2, <4>2, <4>3
      <4>5. ~ \E e \in Decisions : \E x, who : who # "memory" /\ Answers(e, who, x)
        BY <1>2, <2>0, <2>2, AnswersTo DEF QuestionsTyped
      <4>6. ~ RunEnds
        BY <1>2, <2>0, <2>2, EndClosed
      <4>7. PICK e \in Inquiries : CreateDecision(e) /\ recalled[e] # NoAnswer
        <5>1. ASSUME NEW e \in Inquiries, ReadMemory(e) PROVE FALSE
          BY <4>4, <5>1 DEF ReadMemory, Decisions
        <5>2. ASSUME NEW q \in Permits, Ask(q) \/ GiveUp(q) \/ Poll(q) PROVE FALSE
          BY <2>2, <5>2 DEF Ask, GiveUp, Poll, Tell
        <5>3. ASSUME NEW q \in Permits, AskPermit(q) PROVE FALSE
          BY <4>4, <5>3, QuestionsAssumption DEF AskPermit, OpenDecision, Decisions
        <5>4. ASSUME NEW e \in Decisions, NEW x, DecisionAnswered(e, x) PROVE FALSE
          BY <4>5, <5>4 DEF DecisionAnswered
        <5>5. ASSUME NEW e \in Inquiries, CreateDecision(e) PROVE recalled[e] # NoAnswer
          BY <4>4, <5>5 DEF CreateDecision, OpenDecision, Decisions
        <5> QED BY QuestionSteps, <4>6, <5>1, <5>2, <5>3, <5>4, <5>5
      <4>8. e = d
        BY <2>0, <2>2, <4>1, <4>7, AnswersTo DEF QuestionsTyped, Decisions
      <4> QED BY <4>7, <4>8
    <3>2. Answers(d, "memory", recalled[d])
      BY <3>1 DEF CreateDecision, OpenDecision
    <3>3. a = recalled[d]
      BY <1>2, <2>0, <3>2, AnswersTo DEF QuestionsTyped
    <3> QED BY <3>1, <3>3, GivenStays DEF QuestionsSound
  <2> QED BY <2>1, <2>2
<1> QED BY <1>1, <1>2 DEF PeopleDecide, Given

(* Every step keeps the invariant of Decisions. *)
LEMMA QuestionsKept ==
  ASSUME QuestionsInv, [QuestionsNext]_questionVars
  PROVE  QuestionsInv'
<1>1. CASE QuestionsNext
  BY <1>1, QuestionsTypedKept, SoundKept, PeopleDecideKept DEF QuestionsInv
<1>2. CASE UNCHANGED questionVars
  BY <1>2 DEF questionVars, QuestionsInv, QuestionsTyped, QuestionsSound, Answered, Given, PeopleDecide
<1> QED BY <1>1, <1>2

(* Whoever answers, forgets or ends the Run meanwhile, an agent goes ahead  *)
(* only with an option that a person named in answer to this very question *)
(* (decisions.go AskPermission, AnswerDecision, runEnded; agent.go asker). *)
THEOREM AgentsDoWhatPeopleSaid == QuestionsSpec => []PeopleDecide
<1>1. QuestionsInv => PeopleDecide
  BY DEF QuestionsInv
<1> QED BY <1>1, QuestionsStart, QuestionsKept, PTL DEF QuestionsSpec

(***************************************************************************)
(* Members.                                                                *)
(***************************************************************************)
NameOrNone == Names \cup {Nobody}
MemberRow == [is : BOOLEAN, name : NameOrNone, left : BOOLEAN]
Request == [at : {"idle", "read", "renaming"},
            kind : {"create", "join", "leave", "add", "remove", "update"},
            by : SUBSET People, joins : BOOLEAN, name : NameOrNone,
            of : SUBSET People, was : NameOrNone, to : NameOrNone]
Book == [rows : [People -> MemberRow], said : [People -> Int], outrun : SUBSET People]

MembersTyped == MembersTypeOK /\ call \in [Calls -> Request]

(* What RosterIsTrue needs of the books, the Person's names being pers:    *)
(* Members are of People who exist, and one that a Rename did not see has  *)
(* been overtaken by it.                                                   *)
SaidRight(ms, p) == ms.said[p] = IF ms.rows[p].is /\ ~ms.rows[p].left THEN 1 ELSE 0

NameRight(ms, pers, p) ==
  ms.rows[p].is => /\ pers[p] # Nobody
                   /\ ms.rows[p].name = pers[p] \/ p \in ms.outrun
                   /\ \A q \in Renaming(p) : call[q].joins \/ p \in ms.outrun

TrueBooks(ms, pers) == \A p \in People : SaidRight(ms, p) /\ NameRight(ms, pers, p)

(* A request is of one Person, who exists, about Members who are there; and *)
(* two Renames are not of the same one.                                    *)
RequestSound(c) ==
  /\ c.at # "idle" => \E p \in People : c.by = {p} /\ Exists(p)
  /\ c.at = "read" /\ c.joins => c.name \in Names
  /\ c.at = "read" /\ c.kind = "add" => c.to \in Names
  /\ c.at = "renaming" => c.to \in Names
  /\ c.at = "read" => \A p \in c.of : member[p].is

MembersSound ==
  /\ TrueBooks(Books, person)
  /\ \A q \in Calls : RequestSound(call[q])
  /\ \A p \in People : \A q, r \in Renaming(p) : q = r

MembersInv == MembersTyped /\ MembersSound

(* A request is a record of the model, ... *)
LEMMA RequestIs ==
  ASSUME NEW at \in {"idle", "read", "renaming"},
         NEW kind \in {"create", "join", "leave", "add", "remove", "update"},
         NEW by \in SUBSET People, NEW joins \in BOOLEAN, NEW name \in NameOrNone,
         NEW of \in SUBSET People, NEW was \in NameOrNone, NEW to \in NameOrNone
  PROVE  [at |-> at, kind |-> kind, by |-> by, joins |-> joins, name |-> name, of |-> of, was |-> was, to |-> to]
           \in Request
BY DEF Request

(* ... and so is the one of an idle caller. *)
LEMMA IdleCallIs == IdleCall \in Request /\ IdleCall.at = "idle"
BY RequestIs DEF IdleCall, NameOrNone

(* Rows and books that are changed. *)
WithName(r, n) == [r EXCEPT !.name = n]
WithLeft(r, gone) == [r EXCEPT !.left = gone]
Entered(ms, p, r, k) == [ms EXCEPT !.rows[p] = r, !.said[p] = k]

(* A Member with another name is a record of the model, ... *)
LEMMA WithNameIs ==
  ASSUME NEW r \in MemberRow, NEW n \in NameOrNone
  PROVE  /\ WithName(r, n) \in MemberRow /\ WithName(r, n).name = n
         /\ WithName(r, n).is = r.is /\ WithName(r, n).left = r.left
BY DEF MemberRow, WithName

(* ... and so is one that left or came back. *)
LEMMA WithLeftIs ==
  ASSUME NEW r \in MemberRow, NEW gone \in BOOLEAN
  PROVE  /\ WithLeft(r, gone) \in MemberRow /\ WithLeft(r, gone).left = gone
         /\ WithLeft(r, gone).is = r.is /\ WithLeft(r, gone).name = r.name
BY DEF MemberRow, WithLeft

(* What an entry changes of the books. *)
LEMMA EnteredIs ==
  ASSUME NEW ms \in Book, NEW p \in People, NEW r \in MemberRow, NEW k \in Int
  PROVE  /\ Entered(ms, p, r, k) \in Book
         /\ Entered(ms, p, r, k).rows[p] = r /\ Entered(ms, p, r, k).said[p] = k
         /\ Entered(ms, p, r, k).outrun = ms.outrun
         /\ \A o \in People \ {p} : /\ Entered(ms, p, r, k).rows[o] = ms.rows[o]
                                    /\ Entered(ms, p, r, k).said[o] = ms.said[o]
BY DEF Book, Entered

(* What is done to the books. *)
LEMMA NamedIs ==
  ASSUME NEW ms \in Book, NEW p \in People, NEW n \in NameOrNone
  PROVE  /\ Named(ms, p, n) \in Book
         /\ Named(ms, p, n).said = ms.said
         /\ Named(ms, p, n).rows[p] = WithName(ms.rows[p], n)
         /\ \A o \in People \ {p} : Named(ms, p, n).rows[o] = ms.rows[o]
BY DEF Named, Book, MemberRow, WithName

(* Who was overtaken stays overtaken, and a change of a name may overtake  *)
(* one more.                                                               *)
LEMMA NamedOutruns ==
  ASSUME NEW ms \in Book, NEW p \in People, NEW n \in NameOrNone
  PROVE  /\ p \in Named(ms, p, n).outrun <=> Overtaken(p, n)
         /\ \A o \in People \ {p} : o \in ms.outrun => o \in Named(ms, p, n).outrun
BY DEF Named, Book

(* A change of a name keeps the books and who is in them, ... *)
LEMMA NamedStays ==
  ASSUME NEW ms \in Book, NEW p \in People, NEW n \in NameOrNone
  PROVE  Named(ms, p, n) \in Book /\ \A o \in People : Named(ms, p, n).rows[o].is = ms.rows[o].is
<1>1. ms.rows[p] \in MemberRow
  BY DEF Book
<1>2. Named(ms, p, n).rows[p].is = ms.rows[p].is
  BY <1>1, NamedIs, WithNameIs
<1> QED BY <1>2, NamedIs

(* Someone who is there leaves: true books stay true. *)
LEMMA DepartedTrue ==
  ASSUME NEW ms \in Book, NEW p \in People, NEW pers, TrueBooks(ms, pers), ms.rows[p].is
  PROVE  Departed(ms, p) \in Book /\ TrueBooks(Departed(ms, p), pers)
<1>1. CASE ms.rows[p].left
  BY <1>1 DEF Departed
<1>2. CASE ~ms.rows[p].left
  <2>1. ms.rows[p] \in MemberRow /\ ms.said[p] \in Int /\ ms.said[p] - 1 \in Int /\ ms.said[p] = 1
    BY <1>2 DEF Book, TrueBooks, SaidRight
  <2> DEFINE r == WithLeft(ms.rows[p], TRUE)
             k == ms.said[p] - 1
             d == Departed(ms, p)
  <2>2. d = Entered(ms, p, r, k)
    BY <1>2 DEF Departed, Entered, WithLeft
  <2>3. r \in MemberRow /\ r.is = ms.rows[p].is /\ r.name = ms.rows[p].name /\ r.left
    BY <2>1, WithLeftIs
  <2>4. k \in Int /\ k = 0
    BY <2>1
  <2> HIDE DEF r, k, d
  <2>5. /\ d \in Book
        /\ d.rows[p] = r /\ d.said[p] = k /\ d.outrun = ms.outrun
        /\ \A o \in People \ {p} : d.rows[o] = ms.rows[o] /\ d.said[o] = ms.said[o]
    BY <2>2, <2>3, <2>4, EnteredIs
  <2>6. TrueBooks(d, pers)
    BY <2>3, <2>4, <2>5 DEF TrueBooks, SaidRight, NameRight
  <2> QED BY <2>5, <2>6 DEF d
<1> QED BY <1>1, <1>2

(* ... and so does a departure. *)
LEMMA DepartedStays ==
  ASSUME NEW ms \in Book, NEW p \in People
  PROVE  \A o \in People : Departed(ms, p).rows[o].is = ms.rows[o].is
<1>1. CASE ms.rows[p].left
  BY <1>1 DEF Departed
<1>2. CASE ~ms.rows[p].left
  <2> DEFINE r == WithLeft(ms.rows[p], TRUE)
             k == ms.said[p] - 1
  <2>1. ms.rows[p] \in MemberRow /\ k \in Int
    BY DEF Book
  <2>2. Departed(ms, p) = Entered(ms, p, r, k)
    BY <1>2 DEF Departed, Entered, WithLeft
  <2>3. r \in MemberRow /\ r.is = ms.rows[p].is
    BY <2>1, WithLeftIs
  <2> HIDE DEF r, k
  <2>4. Entered(ms, p, r, k).rows[p] = r /\ \A o \in People \ {p} : Entered(ms, p, r, k).rows[o] = ms.rows[o]
    BY <2>1, <2>3, EnteredIs
  <2> QED BY <2>2, <2>3, <2>4
<1> QED BY <1>1, <1>2

(* A row's name is written: as the Person's, who may be new, or overtaken. *)
LEMMA NamedTrue ==
  ASSUME NEW ms \in Book, NEW p \in People, NEW n \in NameOrNone, NEW pers,
         \A o \in People \ {p} : SaidRight(ms, o) /\ NameRight(ms, pers, o),
         SaidRight(ms, p),
         pers[p] # Nobody, pers[p] = IF Exists(p) THEN person[p] ELSE n,
         ~Exists(p) => Renaming(p) = {}, ~HoldsMember(p)
  PROVE  TrueBooks(Named(ms, p, n), pers)
<1> DEFINE r == WithName(ms.rows[p], n)
           d == Named(ms, p, n)
<1>1. ms.rows[p] \in MemberRow /\ ms.outrun \subseteq People
  BY DEF Book
<1>2. r.is = ms.rows[p].is /\ r.name = n /\ r.left = ms.rows[p].left
  BY <1>1, WithNameIs
<1>3. /\ d.rows[p] = r /\ d.said = ms.said
      /\ \A o \in People \ {p} : d.rows[o] = ms.rows[o]
  BY NamedIs
<1>4. /\ p \in d.outrun <=> Overtaken(p, n)
      /\ \A o \in People \ {p} : o \in ms.outrun => o \in d.outrun
  BY NamedOutruns
<1> HIDE DEF d, r
<1>5. p \in d.outrun \/ (n = pers[p] /\ Renaming(p) = {})
  BY <1>4 DEF Overtaken
<1>6. ASSUME NEW o \in People
      PROVE  SaidRight(d, o) /\ NameRight(d, pers, o)
  <2>1. CASE o = p
    BY <2>1, <1>2, <1>3, <1>5 DEF SaidRight, NameRight
  <2>2. CASE o # p
    BY <2>2, <1>3, <1>4 DEF SaidRight, NameRight
  <2> QED BY <2>1, <2>2
<1> QED BY <1>6 DEF d, TrueBooks

(* Who joins is entered under the name they have as a Person. *)
LEMMA JoinedTrue ==
  ASSUME NEW ms \in Book, NEW p \in People, NEW n \in NameOrNone, NEW pers, TrueBooks(ms, pers),
         pers[p] # Nobody, pers[p] = IF Exists(p) THEN person[p] ELSE n,
         ~Exists(p) => Renaming(p) = {}, ~HoldsMember(p)
  PROVE  /\ Joined(ms, p, n) \in Book /\ TrueBooks(Joined(ms, p, n), pers)
         /\ \A o \in People : ms.rows[o].is => Joined(ms, p, n).rows[o].is
<1>0. ms.rows \in [People -> MemberRow] /\ ms.said \in [People -> Int] /\ ms.outrun \subseteq People
  BY DEF Book
<1>1. CASE ~ms.rows[p].is
  <2> DEFINE r == [is |-> TRUE, name |-> n, left |-> FALSE]
             k == ms.said[p] + 1
             d == Entered(ms, p, r, k)
  <2>1. r \in MemberRow /\ r.is /\ ~r.left
    BY DEF MemberRow
  <2>2. k = 1
    BY <1>1 DEF TrueBooks, SaidRight, NameRight
  <2>3. Joined(ms, p, n) = Named(d, p, n)
    BY <1>1 DEF Joined, Entered
  <2> HIDE DEF r, k
  <2>5. /\ d \in Book /\ d.rows[p] = r /\ d.said[p] = k /\ d.outrun = ms.outrun
        /\ \A o \in People \ {p} : d.rows[o] = ms.rows[o] /\ d.said[o] = ms.said[o]
    <3>1. k \in Int
      BY <2>2
    <3> QED BY <2>1, <3>1, EnteredIs
  <2> HIDE DEF d
  <2>6. TrueBooks(Named(d, p, n), pers)
    <3>1. \A o \in People \ {p} : SaidRight(d, o) /\ NameRight(d, pers, o)
      BY <2>5, Zenon DEF TrueBooks, SaidRight, NameRight
    <3>2. SaidRight(d, p)
      BY <2>1, <2>2, <2>5 DEF SaidRight
    <3> QED BY <2>5, <3>1, <3>2, NamedTrue, Zenon
  <2>7. Named(d, p, n) \in Book /\ \A o \in People : Named(d, p, n).rows[o].is = d.rows[o].is
    BY <2>5, NamedStays
  <2>8. \A o \in People : ms.rows[o].is => d.rows[o].is
    BY <1>1, <2>5
  <2> QED BY <2>3, <2>6, <2>7, <2>8
<1>2. CASE ms.rows[p].is /\ ms.rows[p].left
  <2> DEFINE r == WithLeft(ms.rows[p], FALSE)
             k == ms.said[p] + 1
             d == Joined(ms, p, n)
  <2>1. ms.rows[p] \in MemberRow
    BY DEF Book
  <2>2. r \in MemberRow /\ r.is = ms.rows[p].is /\ r.name = ms.rows[p].name /\ r.left = FALSE
    BY <2>1, WithLeftIs
  <2>3. k = 1
    BY <1>2 DEF TrueBooks, SaidRight, NameRight
  <2>4. d = Entered(ms, p, r, k)
    BY <1>2 DEF Joined, Entered, WithLeft
  <2> HIDE DEF r, k, d
  <2>5. /\ d \in Book /\ d.rows[p] = r /\ d.said[p] = k /\ d.outrun = ms.outrun
        /\ \A o \in People \ {p} : d.rows[o] = ms.rows[o] /\ d.said[o] = ms.said[o]
    <3>1. k \in Int
      BY <2>3
    <3> QED BY <2>2, <2>4, <3>1, EnteredIs
  <2>6. TrueBooks(d, pers)
    <3>1. \A o \in People \ {p} : SaidRight(d, o) /\ NameRight(d, pers, o)
      BY <2>5, Zenon DEF TrueBooks, SaidRight, NameRight
    <3>2. SaidRight(d, p)
      BY <1>2, <2>2, <2>3, <2>5 DEF SaidRight
    <3>3. NameRight(d, pers, p)
      BY <1>2, <2>2, <2>5 DEF TrueBooks, NameRight
    <3> QED BY <3>1, <3>2, <3>3 DEF TrueBooks
  <2>7. \A o \in People : ms.rows[o].is => d.rows[o].is
    BY <1>2, <2>2, <2>5
  <2> QED BY <2>5, <2>6, <2>7 DEF d
<1>3. CASE ms.rows[p].is /\ ~ms.rows[p].left
  BY <1>3 DEF Joined
<1> QED BY <1>1, <1>2, <1>3

(* The books are a book, and what they have of each Person is in the rows. *)
LEMMA BooksAre ==
  /\ MembersTypeOK => Books \in Book
  /\ Books.rows = member /\ Books.said = said /\ Books.outrun = outrun
BY DEF MembersTypeOK, Books, Book, MemberRow, NameOrNone

(* Requests that go on as they were, or end, leave Renames as they were.   *)
LEMMA RenamesKept ==
  ASSUME NEW q \in Calls, call \in [Calls -> Request], NEW c, call' = [call EXCEPT ![q] = c], c.at # "renaming"
  PROVE  \A p \in People : /\ Renaming(p)' \subseteq Renaming(p)
                           /\ \A r \in Renaming(p)' : call'[r] = call[r]
BY DEF Renaming

(* New true books under Renames that stay or end. *)
LEMMA BooksTrueAfter ==
  ASSUME NEW ms \in Book, Becoming(ms), TrueBooks(ms, person'),
         \A p \in People : /\ Renaming(p)' \subseteq Renaming(p)
                           /\ \A r \in Renaming(p)' : call'[r] = call[r]
  PROVE  TrueBooks(Books, person)'
<1>1. Books'.rows = ms.rows /\ Books'.said = ms.said /\ Books'.outrun = ms.outrun
  BY DEF Books, Becoming
<1> QED BY <1>1, Zenon DEF TrueBooks, SaidRight, NameRight

(* Requests stay sound when one of them moves. *)
LEMMA SoundAfter ==
  ASSUME MembersInv, NEW q \in Calls, NEW c \in Request, call' = [call EXCEPT ![q] = c],
         \A p \in People : Exists(p) => person'[p] # Nobody,
         \A p \in People : member[p].is => member'[p].is,
         RequestSound(c)'
  PROVE  /\ call' \in [Calls -> Request]
         /\ \A r \in Calls : RequestSound(call[r])'
<1>1. call' \in [Calls -> Request] /\ call'[q] = c /\ \A r \in Calls \ {q} : call'[r] = call[r]
  BY DEF MembersInv, MembersTyped
<1>2. ASSUME NEW r \in Calls \ {q} PROVE RequestSound(call[r])'
  <2>1. RequestSound(call[r]) /\ call[r] \in Request
    BY DEF MembersInv, MembersSound, MembersTyped
  <2>2. call'[r] = call[r]
    BY <1>1
  <2> QED BY <2>1, <2>2 DEF RequestSound, Exists, Request
<1>3. RequestSound(call[q])'
  BY <1>1 DEF RequestSound, Exists
<1> QED BY <1>1, <1>2, <1>3

(* A transaction that leaves the books true keeps the invariant. *)
LEMMA Commits ==
  ASSUME MembersInv, NEW q \in Calls, NEW kind, Writes(q, kind), NEW ms \in Book, Becoming(ms),
         TrueBooks(ms, person'), person' \in [People -> NameOrNone],
         \A p \in People : Exists(p) => person'[p] = person[p],
         \A p \in People : member[p].is => ms.rows[p].is,
         project' \in {"none", "open"}
  PROVE  MembersInv'
<1>1. call' = [call EXCEPT ![q] = IdleCall] /\ call \in [Calls -> Request]
  BY DEF Writes, MembersInv, MembersTyped
<1>2. \A p \in People : /\ Renaming(p)' \subseteq Renaming(p)
                        /\ \A r \in Renaming(p)' : call'[r] = call[r]
  BY <1>1, IdleCallIs, RenamesKept
<1>3. TrueBooks(Books, person)'
  BY <1>2, BooksTrueAfter
<1>4. call' \in [Calls -> Request] /\ \A r \in Calls : RequestSound(call[r])'
  <2>1. RequestSound(IdleCall)'
    BY IdleCallIs DEF RequestSound
  <2>2. \A p \in People : member[p].is => member'[p].is
    BY DEF Becoming
  <2>3. \A p \in People : Exists(p) => person'[p] # Nobody
    BY DEF Exists
  <2> QED BY <1>1, <2>1, <2>2, <2>3, IdleCallIs, SoundAfter
<1>5. MembersTypeOK'
  BY <1>4 DEF MembersTypeOK, Becoming, Book, MemberRow, NameOrNone, Request
<1>6. \A p \in People : \A r, o \in Renaming(p)' : r = o
  BY <1>2 DEF MembersInv, MembersSound
<1> QED BY <1>3, <1>4, <1>5, <1>6 DEF MembersInv, MembersTyped, MembersSound

(* What the acting Person's joining does. *)
LEMMA ActorJoins ==
  ASSUME MembersInv, NEW q \in Calls, NEW kind, Writes(q, kind)
  PROVE  /\ WithActor(q) \in Book /\ TrueBooks(WithActor(q), person)
         /\ \A p \in People : member[p].is => WithActor(q).rows[p].is
         /\ call[q].of \subseteq People
         /\ \A p \in call[q].of : ~HoldsMember(p) /\ member[p].is /\ Exists(p)
<1>1. Books \in Book /\ TrueBooks(Books, person) /\ Books.rows = member
  BY BooksAre DEF MembersInv, MembersTyped, MembersSound
<1>2. call[q] \in Request /\ RequestSound(call[q]) /\ call[q].at = "read"
  BY DEF MembersInv, MembersTyped, MembersSound, Writes
<1>3. call[q].of \subseteq People /\ \A p \in call[q].of : ~HoldsMember(p) /\ member[p].is /\ Exists(p)
  <2>1. call[q].of \subseteq People /\ \A p \in call[q].of : member[p].is
    BY <1>2 DEF Request, RequestSound
  <2>2. \A p \in call[q].of : ~HoldsMember(p)
    BY DEF Writes
  <2>3. \A p \in People : member[p].is => Exists(p)
    BY <1>1 DEF TrueBooks, NameRight, Exists
  <2> QED BY <2>1, <2>2, <2>3
<1>4. CASE ~call[q].joins
  BY <1>1, <1>3, <1>4 DEF WithActor
<1>5. CASE call[q].joins
  <2>1. PICK p \in People : call[q].by = {p} /\ Exists(p)
    BY <1>2 DEF RequestSound
  <2>2. WithActor(q) = Joined(Books, p, call[q].name)
    BY <1>5, <2>1 DEF WithActor
  <2>3. ~HoldsMember(p)
    BY <1>5, <2>1 DEF Writes
  <2>4. call[q].name \in NameOrNone
    BY <1>2 DEF Request
  <2> QED BY <1>1, <1>3, <2>1, <2>2, <2>3, <2>4, JoinedTrue DEF Exists
<1> QED BY <1>4, <1>5

(* Requests that write, and create nobody. *)
LEMMA OldPeopleWrite ==
  ASSUME MembersInv, NEW q \in Calls,
         CreateProject(q) \/ Join(q) \/ Leave(q) \/ RemoveMember(q) \/ UpdateMember(q)
  PROVE  MembersInv'
<1>0. person' = person /\ person \in [People -> NameOrNone] /\ project \in {"none", "open"}
  BY DEF CreateProject, Join, Leave, RemoveMember, UpdateMember, MembersInv, MembersTyped, MembersTypeOK, NameOrNone
<1>1. ASSUME NEW kind, Writes(q, kind), NEW ms \in Book, Becoming(ms), TrueBooks(ms, person),
             \A p \in People : member[p].is => ms.rows[p].is, project' \in {"none", "open"}
      PROVE  MembersInv'
  BY <1>0, <1>1, Commits
<1>2. CASE CreateProject(q) \/ Join(q)
  <2>1. /\ Writes(q, "create") \/ Writes(q, "join")
        /\ Becoming(WithActor(q)) /\ project' \in {"none", "open"}
    BY <1>0, <1>2 DEF CreateProject, Join
  <2> QED BY <1>1, <2>1, ActorJoins
<1>3. CASE Leave(q)
  <2>1. PICK p \in call[q].of : Becoming(Departed(Books, p))
    BY <1>3 DEF Leave
  <2>2. Writes(q, "leave") /\ project' \in {"none", "open"}
    BY <1>0, <1>3 DEF Leave
  <2>3. Books \in Book /\ TrueBooks(Books, person) /\ Books.rows = member
    BY BooksAre DEF MembersInv, MembersTyped, MembersSound
  <2>4. p \in People /\ member[p].is
    BY <2>2, ActorJoins
  <2>5. Departed(Books, p) \in Book /\ TrueBooks(Departed(Books, p), person)
    BY <2>3, <2>4, DepartedTrue
  <2>6. \A o \in People : member[o].is => Departed(Books, p).rows[o].is
    BY <2>3, <2>4, DepartedStays
  <2> QED BY <1>1, <2>1, <2>2, <2>5, <2>6
<1>4. CASE RemoveMember(q)
  <2>1. PICK p \in call[q].of : Becoming(Departed(WithActor(q), p))
    BY <1>4 DEF RemoveMember
  <2>2. Writes(q, "remove") /\ project' \in {"none", "open"}
    BY <1>0, <1>4 DEF RemoveMember
  <2>3. /\ WithActor(q) \in Book /\ TrueBooks(WithActor(q), person)
        /\ \A o \in People : member[o].is => WithActor(q).rows[o].is
        /\ p \in People /\ WithActor(q).rows[p].is
    BY <2>2, ActorJoins
  <2>5. Departed(WithActor(q), p) \in Book /\ TrueBooks(Departed(WithActor(q), p), person)
    BY <2>3, DepartedTrue
  <2>6. \A o \in People : member[o].is => Departed(WithActor(q), p).rows[o].is
    BY <2>3, DepartedStays
  <2> QED BY <1>1, <2>1, <2>2, <2>5, <2>6
<1>5. CASE UpdateMember(q)
  <2>1. PICK p \in call[q].of : Becoming(Named(WithActor(q), p, call[q].was))
    BY <1>5 DEF UpdateMember
  <2>2. Writes(q, "update") /\ project' \in {"none", "open"}
    BY <1>0, <1>5 DEF UpdateMember
  <2>3. /\ WithActor(q) \in Book /\ TrueBooks(WithActor(q), person)
        /\ \A o \in People : member[o].is => WithActor(q).rows[o].is
        /\ p \in People /\ WithActor(q).rows[p].is
        /\ ~HoldsMember(p) /\ Exists(p)
    BY <2>2, ActorJoins
  <2>4. call[q].was \in NameOrNone
    BY DEF MembersInv, MembersTyped, Request
  <2>5. TrueBooks(Named(WithActor(q), p, call[q].was), person)
    BY <2>3, <2>4, NamedTrue DEF Exists, TrueBooks
  <2>6. /\ Named(WithActor(q), p, call[q].was) \in Book
        /\ \A o \in People : member[o].is => Named(WithActor(q), p, call[q].was).rows[o].is
    BY <2>3, <2>4, NamedStays
  <2> QED BY <1>1, <2>1, <2>2, <2>5, <2>6
<1> QED BY <1>2, <1>3, <1>4, <1>5

(* AddMember may create the Person it adds. *)
LEMMA AddMemberKeeps ==
  ASSUME MembersInv, NEW q \in Calls, AddMember(q)
  PROVE  MembersInv'
<1> DEFINE to == call[q].to
<1>1. Writes(q, "add") /\ project' = project
  BY DEF AddMember
<1>2. PICK p \in People : /\ UpsertPerson(to, p) /\ ~HoldsMember(p)
                          /\ Becoming(Joined(WithActor(q), p, to))
  BY DEF AddMember
<1>3. to \in Names /\ to # Nobody /\ to \in NameOrNone
  BY <1>1, MembershipAssumption DEF MembersInv, MembersSound, RequestSound, Writes, NameOrNone
<1> HIDE DEF to
<1>4. person \in [People -> NameOrNone] /\ project \in {"none", "open"}
  BY DEF MembersInv, MembersTyped, MembersTypeOK, NameOrNone
<1>5. /\ person' \in [People -> NameOrNone]
      /\ \A o \in People : Exists(o) => person'[o] = person[o]
      /\ person'[p] = IF Exists(p) THEN person[p] ELSE to
      /\ person'[p] # Nobody
  <2>1. CASE p \in Called(to) /\ UNCHANGED person
    BY <1>3, <1>4, <2>1 DEF Called, Exists
  <2>2. CASE /\ Unborn # {} /\ p = CHOOSE o \in Unborn : TRUE
             /\ person' = [person EXCEPT ![p] = to]
    <3>1. p \in Unborn
      BY <2>2
    <3> QED BY <1>3, <1>4, <2>2, <3>1 DEF Unborn, Exists
  <2> QED BY <1>2, <2>1, <2>2 DEF UpsertPerson
<1>6. ~Exists(p) => Renaming(p) = {}
  <2>1. ASSUME NEW r \in Renaming(p) PROVE Exists(p)
    BY <2>1 DEF Renaming, MembersInv, MembersSound, RequestSound
  <2> QED BY <2>1
<1> DEFINE ms == WithActor(q)
<1>7. ms \in Book /\ TrueBooks(ms, person) /\ \A o \in People : member[o].is => ms.rows[o].is
  BY <1>1, ActorJoins
<1> HIDE DEF ms
<1>8. TrueBooks(ms, person')
  BY <1>5, <1>7 DEF TrueBooks, SaidRight, NameRight, Exists
<1>9. /\ Joined(ms, p, to) \in Book /\ TrueBooks(Joined(ms, p, to), person')
      /\ \A o \in People : ms.rows[o].is => Joined(ms, p, to).rows[o].is
  BY <1>2, <1>3, <1>5, <1>6, <1>7, <1>8, JoinedTrue
<1>10. \A o \in People : member[o].is => Joined(ms, p, to).rows[o].is
  BY <1>7, <1>9
<1>11. Becoming(Joined(ms, p, to))
  BY <1>2 DEF ms
<1> QED BY <1>1, <1>4, <1>5, <1>9, <1>10, <1>11, Commits

(* Steps that leave the books, and may read, fail or create someone. *)
LEMMA BooksStay ==
  ASSUME MembersInv, NEW q \in Calls, NEW c \in Request, call' = [call EXCEPT ![q] = c], c.at # "renaming",
         RequestSound(c)', UNCHANGED <<person, member, project, said, outrun>>
  PROVE  MembersInv'
<1>1. call \in [Calls -> Request]
  BY DEF MembersInv, MembersTyped
<1>2. \A p \in People : /\ Renaming(p)' \subseteq Renaming(p)
                        /\ \A r \in Renaming(p)' : call'[r] = call[r]
  BY <1>1, RenamesKept
<1>3. call' \in [Calls -> Request] /\ \A r \in Calls : RequestSound(call[r])'
  BY SoundAfter DEF Exists
<1>4. TrueBooks(Books, person)'
  <2>1. Books \in Book /\ Becoming(Books) /\ TrueBooks(Books, person')
    BY BooksAre DEF Becoming, MembersInv, MembersTyped, MembersSound
  <2> QED BY <1>2, <2>1, BooksTrueAfter
<1>5. MembersTypeOK'
  BY <1>3 DEF MembersInv, MembersTyped, MembersTypeOK, Request
<1>6. \A p \in People : \A r, o \in Renaming(p)' : r = o
  BY <1>2 DEF MembersInv, MembersSound
<1> QED BY <1>3, <1>4, <1>5, <1>6 DEF MembersInv, MembersTyped, MembersSound

(* A request that reads the books changes none. *)
LEMMA ReadsKeep ==
  ASSUME MembersInv, NEW q \in Calls, NEW kind \in {"create", "join", "leave", "add", "remove", "update"},
         NEW p \in People, NEW of \in SUBSET People, NEW to \in NameOrNone,
         \A o \in of : member[o].is, \E o \in People : of \subseteq {o}, kind = "update" => of # {},
         kind = "add" => to \in Names, Reads(q, kind, p, of, to)
  PROVE  MembersInv'
<1>1. /\ person \in [People -> NameOrNone] /\ member \in [People -> MemberRow] /\ call \in [Calls -> Request]
  BY DEF MembersInv, MembersTyped, MembersTypeOK, NameOrNone, MemberRow
<1>2. Exists(p) /\ UNCHANGED <<person, member, project, said, outrun>>
  BY DEF Reads
<1>3. PICK joins : joins = (kind # "leave" /\ MemberOf(p).joins)
  OBVIOUS
<1>4. PICK name : name = IF kind = "leave" THEN Nobody ELSE MemberOf(p).name
  OBVIOUS
<1>5. PICK was : was = IF kind = "update" THEN CHOOSE n \in {member[o].name : o \in of} : TRUE ELSE Nobody
  OBVIOUS
<1>6. joins \in BOOLEAN /\ name \in NameOrNone /\ (joins => name \in Names)
  BY <1>1, <1>2, <1>3, <1>4 DEF MemberOf, Exists, NameOrNone
<1>7. was \in NameOrNone
  <2>1. \A o \in of : member[o].name \in NameOrNone
    BY <1>1 DEF MemberRow
  <2> QED BY <1>5, <2>1 DEF NameOrNone
<1>8. PICK c : c = [at |-> "read", kind |-> kind, by |-> {p}, joins |-> joins, name |-> name, of |-> of,
                    was |-> was, to |-> to]
  OBVIOUS
<1>9. call' = [call EXCEPT ![q] = c]
  BY <1>3, <1>4, <1>5, <1>8 DEF Reads
<1>10. c \in Request
  <2>1. [at |-> "read", kind |-> kind, by |-> {p}, joins |-> joins, name |-> name, of |-> of, was |-> was, to |-> to]
          \in Request
    <3>1. {p} \in SUBSET People /\ of \in SUBSET People
      OBVIOUS
    <3> QED BY <1>6, <1>7, <3>1, RequestIs, Zenon
  <2> QED BY <1>8, <2>1
<1>11. c.at = "read" /\ c.by = {p} /\ c.joins = joins /\ c.name = name /\ c.of = of /\ c.to = to /\ c.kind = kind
  BY <1>8
<1>12. RequestSound(c)'
  BY <1>2, <1>6, <1>11 DEF RequestSound, Exists
<1> QED BY <1>2, <1>9, <1>10, <1>11, <1>12, BooksStay

(* A rename takes the Person's lock, ... *)
LEMMA RenameLocksKeeps ==
  ASSUME MembersInv, NEW q \in Calls, NEW p \in People, NEW n \in Names, RenameLocks(q, p, n)
  PROVE  MembersInv'
<1>1. /\ Exists(p) /\ Renaming(p) = {} /\ UNCHANGED <<person, member, project, said, outrun>>
      /\ call[q].at = "idle"
  BY DEF RenameLocks
<1>2. call \in [Calls -> Request] /\ member \in [People -> MemberRow]
  BY DEF MembersInv, MembersTyped, MembersTypeOK, NameOrNone, MemberRow
<1>3. PICK sees \in BOOLEAN : sees = member[p].is
  BY <1>2 DEF MemberRow
<1>4. PICK c : c = [IdleCall EXCEPT !.at = "renaming", !.by = {p}, !.to = n, !.joins = sees]
  OBVIOUS
<1>5. call' = [call EXCEPT ![q] = c]
  BY <1>3, <1>4 DEF RenameLocks, Copies
<1>6. c \in Request /\ c.at = "renaming" /\ c.by = {p} /\ c.joins = sees /\ c.to = n
  <2>1. n \in NameOrNone
    BY DEF NameOrNone
  <2> QED BY <1>4, <2>1, IdleCallIs DEF Request
<1>7. c.at = "renaming" /\ c.by = {p} /\ c.joins = sees /\ c.to = n
  BY <1>6
<1>8. RequestSound(c)'
  BY <1>1, <1>7 DEF RequestSound, Exists
<1>9. call' \in [Calls -> Request] /\ \A r \in Calls : RequestSound(call[r])'
  BY <1>1, <1>5, <1>6, <1>8, SoundAfter DEF Exists
<1>10. /\ Renaming(p)' = {q} /\ call'[q] = c
       /\ \A o \in People \ {p} : /\ Renaming(o)' = Renaming(o)
                                  /\ \A r \in Renaming(o) : call'[r] = call[r]
  BY <1>1, <1>2, <1>5, <1>7 DEF Renaming
<1>11. TrueBooks(Books, person)'
  <2>1. TrueBooks(Books, person) /\ Books' = Books
    BY <1>1 DEF MembersInv, MembersSound, Books
  <2>2. ASSUME NEW o \in People PROVE (SaidRight(Books, o) /\ NameRight(Books, person, o))'
    <3>1. SaidRight(Books, o)'
      BY <1>1, <2>1 DEF TrueBooks, SaidRight
    <3>2. CASE o # p
      BY <1>1, <1>10, <2>1, <3>1, <3>2 DEF TrueBooks, NameRight
    <3>3. CASE o = p
      BY <1>1, <1>3, <1>7, <1>10, <2>1, <3>1, <3>3, BooksAre DEF TrueBooks, NameRight
    <3> QED BY <3>2, <3>3
  <2> QED BY <2>2 DEF TrueBooks
<1>12. MembersTypeOK'
  BY <1>1, <1>9 DEF MembersInv, MembersTyped, MembersTypeOK, Request
<1>13. \A o \in People : \A r, l \in Renaming(o)' : r = l
  BY <1>10 DEF MembersInv, MembersSound
<1> QED BY <1>9, <1>11, <1>12, <1>13 DEF MembersInv, MembersTyped, MembersSound

(* ... and then changes every Member of the Person. *)
LEMMA RenameCommitsKeeps ==
  ASSUME MembersInv, NEW q \in Calls, RenameCommits(q)
  PROVE  MembersInv'
<1>1. /\ person \in [People -> NameOrNone] /\ member \in [People -> MemberRow] /\ call \in [Calls -> Request]
      /\ outrun \subseteq People
  BY DEF MembersInv, MembersTyped, MembersTypeOK, NameOrNone, MemberRow
<1>2. RequestSound(call[q]) /\ call[q].at = "renaming" /\ call[q].to \in Names
  BY DEF MembersInv, MembersSound, RequestSound, RenameCommits
<1>3. PICK p \in People : call[q].by = {p} /\ Exists(p)
  BY <1>2 DEF RequestSound
<1>4. PICK to \in Names : to = call[q].to
  BY <1>2
<1>5. to # Nobody /\ to \in NameOrNone
  BY MembershipAssumption DEF NameOrNone
<1>6. /\ person' = [person EXCEPT ![p] = to]
      /\ member' = IF call[q].joins THEN [member EXCEPT ![p].name = to] ELSE member
      /\ outrun' = IF call[q].joins THEN outrun \ {p} ELSE outrun
      /\ call' = [call EXCEPT ![q] = IdleCall] /\ UNCHANGED <<project, said>>
  BY <1>3, <1>4 DEF RenameCommits
<1>7. q \in Renaming(p) /\ Renaming(p) = {q}
  BY <1>2, <1>3 DEF Renaming, MembersInv, MembersSound
<1>8. \A o \in People : /\ Renaming(o)' \subseteq Renaming(o)
                        /\ \A r \in Renaming(o)' : call'[r] = call[r]
  BY <1>1, <1>6, IdleCallIs, RenamesKept
<1>9. Renaming(p)' = {}
  <2>1. call'[q].at = "idle"
    BY <1>1, <1>6, IdleCallIs
  <2>2. q \notin Renaming(p)'
    BY <2>1 DEF Renaming
  <2> QED BY <1>7, <1>8, <2>2
<1>10. /\ person' \in [People -> NameOrNone] /\ person'[p] = to
       /\ \A o \in People \ {p} : person'[o] = person[o]
  BY <1>1, <1>5, <1>6
<1>11. /\ member' \in [People -> MemberRow]
       /\ member'[p].is = member[p].is /\ member'[p].left = member[p].left
       /\ call[q].joins => member'[p].name = to
       /\ ~call[q].joins => member'[p] = member[p]
       /\ \A o \in People \ {p} : member'[o] = member[o]
  <2>1. CASE ~call[q].joins
    BY <1>1, <1>6, <2>1
  <2>2. CASE call[q].joins
    <3> DEFINE r == WithName(member[p], to)
    <3>1. member' = [member EXCEPT ![p] = r]
      BY <1>6, <2>2 DEF WithName
    <3>2. r \in MemberRow /\ r.is = member[p].is /\ r.left = member[p].left /\ r.name = to
      BY <1>1, <1>5, WithNameIs
    <3> HIDE DEF r
    <3>3. member'[p] = r /\ \A o \in People \ {p} : member'[o] = member[o]
      BY <1>1, <3>1
    <3> QED BY <1>1, <2>2, <3>1, <3>2, <3>3
  <2> QED BY <2>1, <2>2
<1>12. outrun' \subseteq outrun /\ \A o \in outrun \ {p} : o \in outrun'
  BY <1>6
<1>13. call' \in [Calls -> Request] /\ \A r \in Calls : RequestSound(call[r])'
  <2>1. RequestSound(IdleCall)'
    BY IdleCallIs DEF RequestSound
  <2>2. \A o \in People : Exists(o) => person'[o] # Nobody
    BY <1>5, <1>10 DEF Exists
  <2>3. \A o \in People : member[o].is => member'[o].is
    BY <1>11
  <2> QED BY <1>6, <2>1, <2>2, <2>3, IdleCallIs, SoundAfter
<1>14. TrueBooks(Books, person)'
  <2>0. TrueBooks(Books, person)
    BY DEF MembersInv, MembersSound
  <2>1. ASSUME NEW o \in People PROVE SaidRight(Books, o)'
    <3>1. member'[o].is = member[o].is /\ member'[o].left = member[o].left /\ said' = said
      BY <1>6, <1>11
    <3> QED BY <2>0, <3>1, BooksAre DEF TrueBooks, SaidRight, Books
  <2>2. ASSUME NEW o \in People \ {p} PROVE NameRight(Books, person, o)'
    <3>1. member'[o] = member[o] /\ person'[o] = person[o] /\ (o \in outrun => o \in outrun')
      BY <1>10, <1>11, <1>12
    <3> QED BY <1>8, <2>0, <3>1 DEF TrueBooks, NameRight, Books
  <2>3. NameRight(Books, person, p)'
    <3>1. member[p].is => call[q].joins \/ p \in outrun
      BY <1>7, <2>0, BooksAre DEF TrueBooks, NameRight
    <3>2. member'[p].is => member'[p].name = to \/ p \in outrun'
      BY <1>6, <1>11, <3>1
    <3> QED BY <1>5, <1>9, <1>10, <3>2 DEF NameRight, Books
  <2> QED BY <2>1, <2>2, <2>3 DEF TrueBooks
<1>15. MembersTypeOK'
  BY <1>6, <1>10, <1>11, <1>12, <1>13 DEF MembersInv, MembersTyped, MembersTypeOK, Request, MemberRow, NameOrNone
<1>16. \A o \in People : \A r, l \in Renaming(o)' : r = l
  BY <1>8 DEF MembersInv, MembersSound
<1> QED BY <1>13, <1>14, <1>15, <1>16 DEF MembersInv, MembersTyped, MembersSound

(* A Person signs in under a name. *)
LEMMA HelloKeeps ==
  ASSUME MembersInv, NEW n \in Names, Hello(n)
  PROVE  MembersInv'
<1>1. UNCHANGED <<member, project, call, said, outrun>>
  BY DEF Hello
<1>2. person \in [People -> NameOrNone] /\ n # Nobody /\ n \in NameOrNone
  BY MembershipAssumption DEF MembersInv, MembersTyped, MembersTypeOK, NameOrNone
<1>3. /\ person' \in [People -> NameOrNone]
      /\ \A o \in People : Exists(o) => person'[o] = person[o]
  <2>1. PICK p \in Unborn : UpsertPerson(n, p)
    BY DEF Hello
  <2>2. p \in People /\ ~Exists(p)
    BY <2>1 DEF Unborn, Exists
  <2>3. person' = person \/ person' = [person EXCEPT ![p] = n]
    BY <2>1 DEF UpsertPerson
  <2> QED BY <1>2, <2>2, <2>3
<1>4. \A p \in People : Renaming(p)' = Renaming(p)
  BY <1>1 DEF Renaming
<1>5. TrueBooks(Books, person)'
  <2>1. TrueBooks(Books, person) /\ Books' = Books
    BY <1>1 DEF MembersInv, MembersSound, Books
  <2> QED BY <1>1, <1>3, <1>4, <2>1 DEF TrueBooks, SaidRight, NameRight, Exists
<1>6. ASSUME NEW r \in Calls PROVE RequestSound(call[r])'
  <2>1. RequestSound(call[r])
    BY DEF MembersInv, MembersSound
  <2> QED BY <1>1, <1>3, <2>1 DEF RequestSound, Exists
<1>7. MembersTypeOK'
  BY <1>1, <1>3 DEF MembersInv, MembersTyped, MembersTypeOK, NameOrNone
<1>8. \A o \in People : \A r, l \in Renaming(o)' : r = l
  BY <1>4 DEF MembersInv, MembersSound
<1> QED BY <1>1, <1>5, <1>6, <1>7, <1>8 DEF MembersInv, MembersTyped, MembersSound

(* A request that fails leaves nothing. *)
LEMMA FailsKeeps ==
  ASSUME MembersInv, NEW q \in Calls, Fails(q)
  PROVE  MembersInv'
<1>1. call' = [call EXCEPT ![q] = IdleCall] /\ UNCHANGED <<person, member, project, said, outrun>>
  BY DEF Fails
<1>2. RequestSound(IdleCall)'
  BY IdleCallIs DEF RequestSound
<1> QED BY <1>1, <1>2, IdleCallIs, BooksStay

(* No Person and no Project. *)
LEMMA MembersStart == MembersInit => MembersInv
<1> SUFFICES ASSUME MembersInit PROVE MembersInv
  OBVIOUS
<1>1. MembersTyped
  BY IdleCallIs DEF MembersInit, MembersTyped, MembersTypeOK
<1>2. \A q \in Calls : call[q].at = "idle"
  BY IdleCallIs DEF MembersInit
<1>3. \A p \in People : Renaming(p) = {}
  BY <1>2 DEF Renaming
<1>4. \A p \in People : ~member[p].is /\ said[p] = 0
  BY DEF MembersInit
<1>5. TrueBooks(Books, person)
  BY <1>4, BooksAre DEF TrueBooks, SaidRight, NameRight
<1>6. \A q \in Calls : RequestSound(call[q])
  BY <1>2 DEF RequestSound
<1> QED BY <1>1, <1>3, <1>5, <1>6 DEF MembersInv, MembersSound

(* Every step keeps the invariant of Members. *)
LEMMA MembersKept ==
  ASSUME MembersInv, [MembersNext]_memberVars
  PROVE  MembersInv'
<1>1. CASE UNCHANGED memberVars
  BY <1>1 DEF memberVars, MembersInv, MembersTyped, MembersTypeOK, MembersSound, TrueBooks, SaidRight, NameRight,
              Books, Renaming, RequestSound, Exists
<1>2. \A p \in People : member[p].is \in BOOLEAN /\ Nobody \in NameOrNone
  BY DEF MembersInv, MembersTyped, MembersTypeOK, NameOrNone
<1>3. ASSUME NEW q \in Calls, NEW p \in People,
             ReadsToCreate(q, p) \/ ReadsToJoin(q, p) \/ ReadsToLeave(q, p)
      PROVE  MembersInv'
  <2>1. \/ Reads(q, "create", p, {}, Nobody) \/ Reads(q, "join", p, {}, Nobody)
        \/ member[p].is /\ Reads(q, "leave", p, {p}, Nobody)
    BY <1>3 DEF ReadsToCreate, ReadsToJoin, ReadsToLeave
  <2> QED BY <1>2, <2>1, ReadsKeep
<1>4. ASSUME NEW q \in Calls, NEW p \in People, NEW n \in Names, ReadsToAdd(q, p, n)
      PROVE  MembersInv'
  <2>1. Reads(q, "add", p, {}, n) /\ n \in NameOrNone
    BY <1>4 DEF ReadsToAdd, NameOrNone
  <2> QED BY <2>1, ReadsKeep
<1>5. ASSUME NEW q \in Calls, NEW p \in People, NEW o \in People, ReadsToRemove(q, p, o) \/ ReadsToUpdate(q, p, o)
      PROVE  MembersInv'
  <2>1. member[o].is /\ (Reads(q, "remove", p, {o}, Nobody) \/ Reads(q, "update", p, {o}, Nobody))
    BY <1>5 DEF ReadsToRemove, ReadsToUpdate
  <2> QED BY <1>2, <2>1, ReadsKeep
<1> QED
  BY <1>1, <1>3, <1>4, <1>5, HelloKeeps, RenameLocksKeeps, OldPeopleWrite, AddMemberKeeps, RenameCommitsKeeps,
     FailsKeeps DEF MembersNext

(* What others see of a Project's people is who they are: however joins,   *)
(* departures, updates and renames of the same people interleave, each is  *)
(* said to be there just if they are, and has the name they have now,      *)
(* unless a request wrote one that it had read before a Rename             *)
(* (inbox.go Rename; core.go member; projects.go).                         *)
THEOREM RosterStaysTrue == MembersSpec => []RosterIsTrue
<1>1. MembersInv => RosterIsTrue
  BY BooksAre DEF MembersInv, MembersSound, TrueBooks, SaidRight, NameRight, RosterIsTrue, MembersHaveTheirName,
                  SaidAsItIs, Present
<1> QED BY <1>1, MembersStart, MembersKept, PTL DEF MembersSpec

(***************************************************************************)
(* Presence.                                                               *)
(***************************************************************************)
(* What ViewersAreUpToDate needs of a Bot that is quiet: a heartbeat makes *)
(* it fresh and tells nobody, so viewers that did not miss it show it.     *)
QuietBotsShow == ~told /\ toTell = {} => (seen = "stale" /\ ~missed => view.bot)

PresenceInv == PresenceTypeOK /\ IsFiniteSet(opened) /\ ViewersAreUpToDate /\ QuietBotsShow

(* Nobody is there, and the viewer sees so. *)
LEMMA PresenceStarts == PresenceInit => PresenceInv
<1> SUFFICES ASSUME PresenceInit PROVE PresenceInv
  OBVIOUS
<1>1. PresenceTypeOK
  BY FS_EmptySet DEF PresenceInit, PresenceTypeOK
<1> QED BY <1>1, FS_EmptySet DEF PresenceInit, PresenceInv, ViewersAreUpToDate, QuietBotsShow

(* The count is that of the connections, and is 0 just if there are none.  *)
LEMMA SocketsCounted ==
  ASSUME IsFiniteSet(opened), count = Cardinality(opened)
  PROVE  /\ count \in Nat /\ (count = 0 <=> opened = {})
         /\ \A k \in Sockets \ opened : /\ IsFiniteSet(opened \cup {k})
                                        /\ Cardinality(opened \cup {k}) = count + 1
         /\ \A k \in opened : IsFiniteSet(opened \ {k}) /\ Cardinality(opened \ {k}) = count - 1
BY FS_CardinalityType, FS_EmptySet, FS_AddElement, FS_RemoveElement

(* Connections come and go. *)
LEMMA SocketsKeep ==
  ASSUME PresenceInv, NEW k \in Sockets, Online(k) \/ Release(k)
  PROVE  PresenceInv'
<1>1. IsFiniteSet(opened) /\ count = Cardinality(opened) /\ opened \subseteq Sockets
  BY DEF PresenceInv, PresenceTypeOK
<1>2. UNCHANGED <<seen, told, view, missed>>
  BY DEF Online, Release
<1>3. /\ IsFiniteSet(opened') /\ count' = Cardinality(opened') /\ opened' \subseteq Sockets
  BY <1>1, SocketsCounted DEF Online, Release
<1>4. toTell' \subseteq Sockets \cup AgentCalls
  BY DEF PresenceInv, PresenceTypeOK, Online, Release, TellsIf
<1>5. toTell' = {} => toTell = {} /\ (opened' = {} <=> opened = {})
  <2>1. CASE Online(k)
    <3>1. k \in Sockets \ opened /\ opened' = opened \cup {k} /\ count' = count + 1 /\ TellsIf(count' = 1, k)
      BY <2>1 DEF Online
    <3> QED BY <1>1, <3>1, SocketsCounted DEF TellsIf
  <2>2. CASE Release(k)
    <3>1. /\ k \in opened /\ opened' = opened \ {k} /\ count' = count - 1 /\ TellsIf(count' <= 0, k)
          /\ count' \in Int
      BY <1>1, <2>2, SocketsCounted DEF Release
    <3>2. opened' = {} => count' = 0
      BY <1>3, FS_EmptySet
    <3>3. opened' = {} => toTell' # {}
      BY <3>1, <3>2 DEF TellsIf
    <3> QED BY <1>1, <3>1, <3>3 DEF TellsIf
  <2> QED BY <2>1, <2>2
<1> QED BY <1>2, <1>3, <1>4, <1>5 DEF PresenceInv, PresenceTypeOK, ViewersAreUpToDate, QuietBotsShow

(* The Bot's agent claims, keeps quiet and says goodbye. *)
LEMMA AgentKeeps ==
  ASSUME PresenceInv, (\E c \in AgentCalls : SawAgent(c) \/ SetAgentGone(c)) \/ StillThere \/ GoesStale
  PROVE  PresenceInv'
<1>1. UNCHANGED <<count, opened, told, view, missed>>
  BY DEF SawAgent, SetAgentGone, StillThere, GoesStale
<1>2. toTell' \subseteq Sockets \cup AgentCalls /\ seen' \in {"none", "fresh", "stale"}
  BY DEF SawAgent, SetAgentGone, StillThere, GoesStale, TellsIf, PresenceInv, PresenceTypeOK
<1>3. toTell' = {} => toTell = {} /\ \/ seen' = seen
                                     \/ seen' \in {"fresh", "stale"} /\ seen \in {"fresh", "stale"}
  BY DEF SawAgent, SetAgentGone, StillThere, GoesStale, TellsIf, PresenceInv, PresenceTypeOK
<1> QED BY <1>1, <1>2, <1>3 DEF PresenceInv, PresenceTypeOK, ViewersAreUpToDate, QuietBotsShow

(* What the viewer is told, or missed while away. *)
LEMMA ViewerKeeps ==
  ASSUME PresenceInv, (\E x \in Sockets \cup AgentCalls : PresenceChanged(x)) \/ LoadChanged \/ Restart
  PROVE  PresenceInv'
<1>1. told'
  BY DEF PresenceChanged, LoadChanged, Restart
<1>2. IsFiniteSet(opened') /\ PresenceTypeOK'
  BY FS_EmptySet DEF PresenceChanged, LoadChanged, Restart, PresenceInv, PresenceTypeOK
<1> QED BY <1>1, <1>2 DEF PresenceInv, ViewersAreUpToDate, QuietBotsShow

(* The viewer looks again. *)
LEMMA LookKeeps ==
  ASSUME PresenceInv, Look
  PROVE  PresenceInv'
<1>1. /\ UNCHANGED <<count, opened, toTell>> /\ told' = FALSE
      /\ view' = [person |-> count > 0, bot |-> seen = "fresh"]
      /\ seen' = seen \/ (seen = "stale" /\ seen' = "none")
  BY DEF Look
<1>0. missed' \in BOOLEAN /\ (missed' <=> seen = "stale")
  BY Zenon DEF Look
<1>2. /\ IsFiniteSet(opened) /\ count = Cardinality(opened) /\ seen \in {"none", "fresh", "stale"}
      /\ PresenceTypeOK
  BY DEF PresenceInv, PresenceTypeOK
<1>3. count > 0 <=> opened # {}
  BY <1>2, SocketsCounted
<1>4. (view'.person <=> opened # {}) /\ (view'.bot <=> seen = "fresh")
  BY <1>1, <1>3
<1>5. PresenceTypeOK'
  <2>1. view' \in [person : BOOLEAN, bot : BOOLEAN]
    BY <1>1
  <2> QED BY <1>0, <1>1, <1>2, <2>1 DEF PresenceTypeOK
<1> QED BY <1>0, <1>1, <1>2, <1>4, <1>5 DEF PresenceInv, ViewersAreUpToDate, QuietBotsShow

(* Every step keeps the invariant of Presence. *)
LEMMA PresenceKept == PresenceInv /\ [PresenceNext]_presenceVars => PresenceInv'
<1>1. PresenceInv /\ UNCHANGED presenceVars => PresenceInv'
  BY DEF presenceVars, PresenceInv, PresenceTypeOK, ViewersAreUpToDate, QuietBotsShow
<1> QED BY <1>1, SocketsKeep, AgentKeeps, ViewerKeeps, LookKeeps DEF PresenceNext

(* Whatever the order in which connections, claims and goodbyes are counted *)
(* and then published, viewers who looked after all they were told show who *)
(* is there (presence.go Online, sawAgent, SetAgentGone).                   *)
THEOREM ViewersSeeWhoIsThere == PresenceSpec => []ViewersAreUpToDate
<1>1. PresenceInv => ViewersAreUpToDate
  BY DEF PresenceInv
<1> QED BY PresenceKept, <1>1, PresenceStarts, PTL DEF PresenceSpec
=============================================================================
