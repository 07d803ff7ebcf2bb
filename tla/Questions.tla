------------------------------ MODULE Questions ------------------------------
(***************************************************************************)
(* Decisions of a Project: one question that several people and Bots ask   *)
(* in the same words, whose answer is remembered, and the permissions a    *)
(* Run's agent asks for, which its worker relays and polls.  The Run may   *)
(* end, on the Server or for its worker, and requests may be lost.         *)
(***************************************************************************)
EXTENDS Naturals, Sequences

CONSTANTS
  Inquiries,   \* Decisions that ask the question
  Permits,     \* permissions the agent asks for, several at a time
  Options,     \* their options: [id, name], each text a sequence of pieces
               \* of 100 bytes, or " " for blanks at its ends
  Remarks      \* what else people may answer

ASSUME QuestionsAssumption == Inquiries \cap Permits = {}

Decisions == Inquiries \cup Permits
NoAnswer == <<>>
NotNeeded == <<"not needed: the run ended">>
Unasked == [at |-> "none", by |-> "nobody", answer |-> NoAnswer]

VARIABLES
  decision,    \* each Decision: [at, by, answer], at "none", "reading",
               \* "open" or "answered", by a person, memory or the Run's end
  memory,      \* the remembered answer, if any
  recalled,    \* the memory as the transaction of an Inquiry read it
  goes,        \* the Run is running, as the Server knows
  relay,       \* where the worker is with a permission: "none", "posting",
               \* "polling", "over"
  replied      \* what it told the agent: an option's id or "cancelled"

questionVars == <<decision, memory, recalled, goes, relay, replied>>

QuestionsInit ==
  /\ decision = [d \in Decisions |-> Unasked]
  /\ memory = NoAnswer /\ recalled = [d \in Inquiries |-> NoAnswer]
  /\ goes = TRUE
  /\ relay = [p \in Permits |-> "none"] /\ replied = [p \in Permits |-> NoAnswer]

IsOpen(d) == decision[d].at = "open"
Answers(d, who, a) == decision' = [decision EXCEPT ![d] = [at |-> "answered", by |-> who, answer |-> a]]
-----------------------------------------------------------------------------
(* What people see of an option: its name without blanks, or its id, cut   *)
(* to 100 bytes.                                                           *)
Bare(text) == SelectSeq(text, LAMBDA piece : piece # " ")

Shown(o) == LET text == IF Bare(o.name) = <<>> THEN o.id ELSE Bare(o.name)
            IN SubSeq(text, 1, 1)

(* AskPermission leaves out options that show nothing.  An option called   *)
(* what the Run's end says would be taken for it: no agent offers it.      *)
ASSUME OptionsAssumption ==
  /\ NoAnswer \notin Remarks
  /\ DOMAIN Options \subseteq Nat
  /\ \A i \in DOMAIN Options : /\ NoAnswer \notin {Shown(Options[i]), Options[i].id}
                               /\ NotNeeded \notin {Options[i].name, Options[i].id}

(* Mutant of OpenDecision: actions are answered from memory too. *)
OpenFromMemory(d, remembered) ==
  IF remembered # NoAnswer
    THEN Answers(d, "memory", remembered)
    ELSE decision' = [decision EXCEPT ![d].at = "open"]

(* An answer remembered from the same question stands at once; one to an   *)
(* action never does.                                                      *)
OpenDecision(d, remembered) ==
  IF remembered # NoAnswer /\ d \in Inquiries
    THEN Answers(d, "memory", remembered)
    ELSE decision' = [decision EXCEPT ![d].at = "open"]

(* CreateDecision reads the memory ...                                     *)
ReadMemory(d) ==
  /\ d \in Inquiries /\ decision[d].at = "none"
  /\ decision' = [decision EXCEPT ![d].at = "reading"]
  /\ recalled' = [recalled EXCEPT ![d] = memory]
  /\ UNCHANGED <<memory, goes, relay, replied>>

(* ... and commits.                                                        *)
CreateDecision(d) ==
  /\ d \in Inquiries /\ decision[d].at = "reading"
  /\ OpenDecision(d, recalled[d])
  /\ UNCHANGED <<memory, recalled, goes, relay, replied>>

(* The worker asks the Server for a permission.                            *)
Ask(p) ==
  /\ relay[p] = "none" /\ relay' = [relay EXCEPT ![p] = "posting"]
  /\ UNCHANGED <<decision, memory, recalled, goes, replied>>

(* The Server opens a question while the Run is running, whose row it      *)
(* locks.                                                                  *)
AskPermit(p) ==
  /\ relay[p] \in {"posting", "over"} /\ goes /\ decision[p].at = "none"
  /\ OpenDecision(p, memory)
  /\ \/ relay[p] = "posting" /\ relay' = [relay EXCEPT ![p] = "polling"]
     \/ UNCHANGED relay                    \* its answer is lost, or too late
  /\ UNCHANGED <<memory, recalled, goes, replied>>

Tell(p, what) ==
  /\ replied' = [replied EXCEPT ![p] = what]
  /\ relay' = [relay EXCEPT ![p] = "over"]
  /\ UNCHANGED <<decision, memory, recalled, goes>>

(* The request failed, or the worker's context ends while it polls.        *)
GiveUp(p) == relay[p] \in {"posting", "polling"} /\ Tell(p, <<"cancelled">>)

(* The options an answer names, by the agent's own words. *)
Means(a) == {i \in DOMAIN Options : a \in {Options[i].name, Options[i].id}}

(* asker: the first option with that name or id.                           *)
Poll(p) ==
  /\ relay[p] = "polling" /\ decision[p].at = "answered"
  /\ LET picked == Means(decision[p].answer)
     IN Tell(p, IF picked = {} THEN <<"cancelled">>
                ELSE Options[CHOOSE i \in picked : \A j \in picked : i <= j].id)
-----------------------------------------------------------------------------
(* A person answers: the first does.  The answer to an action is not       *)
(* remembered.                                                             *)
DecisionAnswered(d, a) ==
  /\ IsOpen(d)
  /\ Answers(d, "person", a)
  /\ memory' = IF d \in Inquiries THEN a ELSE memory
  /\ UNCHANGED <<recalled, goes, relay, replied>>

(* CloseRunDecisions: the questions it closes.                             *)
Unanswered == {p \in Permits : IsOpen(p)}

(* The Run ends in one way or another, and closes its questions.           *)
RunEnds ==
  /\ goes /\ goes' = FALSE
  /\ decision' = [d \in Decisions |-> IF d \in Unanswered
                  THEN [at |-> "answered", by |-> "the run's end", answer |-> NotNeeded] ELSE decision[d]]
  /\ UNCHANGED <<memory, recalled, relay, replied>>

QuestionsNext ==
  \/ \E d \in Inquiries : \/ ReadMemory(d) \/ CreateDecision(d)
                          \/ \E a \in Remarks : DecisionAnswered(d, a)
  \/ \E p \in Permits : \/ Ask(p) \/ AskPermit(p) \/ GiveUp(p) \/ Poll(p)
                        \/ \E i \in DOMAIN Options : DecisionAnswered(p, Shown(Options[i]))
                        \/ \E a \in Remarks : DecisionAnswered(p, a)
  \/ RunEnds

QuestionsSpec == QuestionsInit /\ [][QuestionsNext]_questionVars
-----------------------------------------------------------------------------
QuestionsTypeOK ==
  /\ \A d \in Decisions : /\ decision[d].at \in {"none", "reading", "open", "answered"}
                          /\ decision[d].at = "answered" <=> decision[d].answer # NoAnswer
  /\ goes \in BOOLEAN
  /\ relay \in [Permits -> {"none", "posting", "polling", "over"}]
  /\ \A p \in Permits : relay[p] = "over" <=> replied[p] # NoAnswer

(* An agent goes ahead only with an option that a person named in answer   *)
(* to this very question, and the Decision goes on saying so; and a        *)
(* question that memory answered has the answer a person gave to it        *)
(* before.  Whoever answers, forgets or ends the Run meanwhile             *)
(* (decisions.go openDecision, AskPermission, AnswerDecision, runEnded;    *)
(* agent.go asker).                                                        *)
PeopleDecide ==
  /\ \A p \in Permits : replied[p] \notin {NoAnswer, <<"cancelled">>} =>
       /\ decision[p].by = "person"
       /\ \E i \in DOMAIN Options : /\ replied[p] = Options[i].id
                                    /\ i \in Means(decision[p].answer)
  /\ \A d \in Inquiries : decision[d].by = "memory" =>
       \E e \in Inquiries : decision[e].by = "person" /\ decision[e].answer = decision[d].answer
=============================================================================
