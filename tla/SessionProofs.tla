----------------------------- MODULE SessionProofs -----------------------------
(***************************************************************************)
(* Theorems about an agent's session, whatever people say meanwhile, in    *)
(* whatever order the agent, people and the end of the Run come, and about *)
(* the sink that its output goes through.                                  *)
(***************************************************************************)
EXTENDS Session, EventSink, SequenceTheorems, FiniteSetTheorems, TLAPS

Replies == {"ok", "error", "login", "end_turn", "refusal", "cancelled"}
ToAgent == [what : {"call", "mode", "prompt", "cancel", "allowed", "refused"}, id : Nat]
ToClient == [what : {"response"}, id : Nat, reply : Replies] \cup [what : {"permission"}, id : {0}]

SessionTyped ==
  /\ place \in Places /\ nextID \in Nat \ {0} /\ pending \subseteq 1..nextID
  /\ answer \in [Calls -> {NoReply, "gone"} \cup Replies]
  /\ closed \in BOOLEAN /\ agentUp \in BOOLEAN /\ working \in Nat
  /\ toAgent \in Seq(ToAgent) /\ toClient \in Seq(ToClient)

(* People's messages are in one place each. *)
Heard == {held[i] : i \in DOMAIN held}
MessagesSound ==
  /\ steer \in Seq(Messages) /\ held \in Seq(Messages) /\ heard \subseteq Messages /\ unsaid \subseteq Messages
  /\ interrupted \in BOOLEAN /\ cancels \in Nat
  /\ unsaid \cap (Heard \cup heard) = {} /\ Heard \cap heard = {}
  /\ \A i \in DOMAIN steer : /\ steer[i] \notin unsaid \cup Heard \cup heard
                             /\ \A j \in DOMAIN steer : steer[i] = steer[j] => i = j

Opening == {"initialize", "new", "authenticate", "renew", "mode"}

(* A turn is canceled once, by what interrupts it. *)
CancelsSound ==
  /\ place \in Opening => held = <<>> /\ ~interrupted /\ cancels = 0
  /\ place = "turn" => /\ interrupted <=> \E i \in DOMAIN held : held[i] \in Interrupts
                       /\ cancels = IF interrupted THEN 1 ELSE 0

(* Every call has its number, up to one for each message. *)
CallsBounded ==
  /\ nextID <= 6 + Cardinality(heard)
  /\ place = "initialize" => nextID <= 1
  /\ place = "new" => nextID <= 2
  /\ place = "authenticate" => nextID <= 3
  /\ place = "renew" => nextID <= 4
  /\ place = "mode" => nextID <= 5

Waits == place \notin {"grace", "over"} => nextID \in pending \/ answer[nextID] # NoReply

(* Nobody has answered the last request. *)
Unanswered ==
  /\ answer[nextID] \in {NoReply, "gone"}
  /\ \A i \in DOMAIN toClient : toClient[i].what = "response" => toClient[i].id # nextID

(* The agent has the last request before it, which is a prompt.            *)
Prompted ==
  /\ place \notin Opening /\ Unanswered
  /\ \A i \in DOMAIN toAgent : toAgent[i].what \in {"call", "mode"} => toAgent[i].id # nextID

IsPrompt(i) == toAgent[i].what = "prompt"

(* A prompt that the agent has yet to read, or works on, is the last       *)
(* request and the only one; a cancel for another is read before it.       *)
TurnsSound ==
  /\ \A c \in Calls : c > nextID => answer[c] = NoReply
  /\ \A c \in Calls : answer[c] = "gone" => closed
  /\ \A i \in DOMAIN toAgent : toAgent[i].id <= nextID
  /\ \A i \in DOMAIN toClient : toClient[i].id <= nextID
  /\ \A i \in DOMAIN toAgent : IsPrompt(i) =>
       /\ toAgent[i].id = nextID /\ working = 0 /\ Prompted
       /\ \A j \in DOMAIN toAgent : IsPrompt(j) => i = j
  /\ working # 0 => working = nextID /\ Prompted
  /\ \A i \in DOMAIN toAgent : toAgent[i].what = "cancel" =>
       /\ place \notin Opening
       /\ toAgent[i].id # nextID => \E j \in DOMAIN toAgent : i < j /\ IsPrompt(j)

SessionInv == SessionTyped /\ MessagesSound /\ CancelsSound /\ CallsBounded /\ Waits /\ TurnsSound
-----------------------------------------------------------------------------
(* A sequence with one more element.                                       *)
LEMMA Longer ==
  ASSUME NEW S, NEW s \in Seq(S), NEW e \in S
  PROVE  /\ Append(s, e) \in Seq(S) /\ DOMAIN Append(s, e) = 1..(Len(s) + 1) /\ Len(s) \in Nat
         /\ DOMAIN s = 1..Len(s) /\ Append(s, e)[Len(s) + 1] = e
         /\ \A i \in DOMAIN s : Append(s, e)[i] = s[i]
<1>1. /\ Len(s) \in Nat /\ DOMAIN s = 1..Len(s)
  BY LenProperties
<1>2. /\ Append(s, e) \in Seq(S) /\ Len(Append(s, e)) = Len(s) + 1
      /\ \A i \in 1..Len(s) : Append(s, e)[i] = s[i]
      /\ Append(s, e)[Len(s) + 1] = e
  BY AppendProperties
<1>3. DOMAIN Append(s, e) = 1..Len(Append(s, e))
  BY <1>2, LenProperties
<1> QED BY <1>1, <1>2, <1>3

(* A sequence without its first element. *)
LEMMA Shorter ==
  ASSUME NEW S, NEW s \in Seq(S), s # <<>>
  PROVE  /\ Tail(s) \in Seq(S) /\ Head(s) = s[1] /\ 1 \in DOMAIN s /\ Head(s) \in S /\ Len(s) \in Nat
         /\ DOMAIN s = 1..Len(s) /\ DOMAIN Tail(s) = 1..(Len(s) - 1)
         /\ \A i \in DOMAIN Tail(s) : i + 1 \in DOMAIN s /\ Tail(s)[i] = s[i + 1]
<1>1. /\ Len(s) \in Nat \ {0} /\ DOMAIN s = 1..Len(s)
  BY LenProperties, EmptySeq
<1>2. /\ Head(s) \in S /\ Tail(s) \in Seq(S) /\ Len(Tail(s)) = Len(s) - 1
      /\ \A i \in 1..Len(Tail(s)) : Tail(s)[i] = s[i + 1]
  BY HeadTailProperties
<1>3. DOMAIN Tail(s) = 1..Len(Tail(s))
  BY <1>2, LenProperties
<1> QED BY <1>1, <1>2, <1>3

(* The empty sequence. *)
LEMMA NoElement == <<>> \in Seq(Messages) /\ <<>> \in Seq(ToAgent) /\ DOMAIN <<>> = {}
BY EmptySeq, LenProperties

-----------------------------------------------------------------------------
(* What converse does: it ends, or makes a request. *)
Ends == place' = "over" /\ UNCHANGED <<nextID, pending, answer, toAgent, cancels>>

Makes(what, next) ==
  /\ ~closed /\ agentUp /\ nextID' = nextID + 1 /\ pending' = pending \cup {nextID + 1}
  /\ toAgent' = Append(toAgent, [what |-> what, id |-> nextID + 1])
  /\ place' = next /\ cancels' = 0 /\ answer' = answer

(* A request is made, or the conversation ends. *)
LEMMA RequestIs ==
  ASSUME NEW what \in {"call", "mode", "prompt"}, NEW next \in Places, Request(what, next)
  PROVE  Ends \/ Makes(what, next)
BY DEF Request, Explain, Return, Ends, Makes

(* The handshake goes on: it ends, or makes the call that follows. *)
LEMMA OpeningMoves ==
  ASSUME Converse \/ Abandon
  PROVE  /\ place \in Opening
         /\ UNCHANGED <<asks, closed, ctx, toClient, agentUp, working, cancelled, steer, unsaid, held, heard, interrupted>>
         /\ \/ Ends
            \/ place = "initialize" /\ Makes("call", "new")
            \/ place = "new" /\ Makes("call", "authenticate")
            \/ place = "authenticate" /\ Makes("call", "renew")
            \/ place \in {"new", "renew"} /\ Makes("mode", "mode")
            \/ place \in {"new", "renew", "mode"} /\ Makes("prompt", "turn")
<1>1. \A r : (Explain(r) => Ends) /\ (Return(r) => Ends)
  BY DEF Explain, Return, Ends
<1>2. /\ Request("call", "new") => Ends \/ Makes("call", "new")
      /\ Request("call", "authenticate") => Ends \/ Makes("call", "authenticate")
      /\ Request("call", "renew") => Ends \/ Makes("call", "renew")
      /\ Request("mode", "mode") => Ends \/ Makes("mode", "mode")
      /\ Prompt => Ends \/ Makes("prompt", "turn")
  BY RequestIs DEF Prompt, Places
<1>3. Opened => Ends \/ Makes("mode", "mode") \/ Makes("prompt", "turn")
  BY <1>2 DEF Opened
<1>4. CASE Converse
  BY <1>1, <1>2, <1>3, <1>4 DEF Converse, Opening, agentVars
<1>5. CASE Abandon
  BY <1>1, <1>2, <1>5 DEF Abandon, Opening, agentVars
<1> QED BY <1>4, <1>5

(* A turn is over: the conversation ends, or what people said is the next  *)
(* prompt.                                                                 *)
LEMMA TurnMoves ==
  ASSUME TurnOver
  PROVE  /\ place = "turn" /\ answer[nextID] # NoReply
         /\ UNCHANGED <<closed, toClient, agentUp, working, steer, unsaid>>
         /\ \/ Ends /\ UNCHANGED <<heard, held, interrupted>>
            \/ /\ Makes("prompt", "turn") /\ held # <<>> /\ answer[nextID] \in {"end_turn", "cancelled"}
               /\ heard' = heard \cup Heard /\ held' = <<>> /\ interrupted' = FALSE
<1>1. \A r : (Explain(r) => Ends) /\ (Return(r) => Ends)
  BY DEF Explain, Return, Ends
<1>2. Prompt => Ends \/ Makes("prompt", "turn")
  BY RequestIs DEF Prompt, Places
<1>3. NextTurn => \/ Ends /\ UNCHANGED <<heard, held, interrupted>>
                  \/ Makes("prompt", "turn") /\ heard' = heard \cup Heard /\ held' = <<>> /\ interrupted' = FALSE
  BY <1>2 DEF NextTurn, Heard, Ends, Makes
<1> QED BY <1>1, <1>3 DEF TurnOver, Reply, agentVars


-----------------------------------------------------------------------------
(* What does not touch a part of the state keeps what is true of it. *)
LEMMA WireStays ==
  ASSUME SessionInv, UNCHANGED <<place, nextID, pending, answer, closed, agentUp, working, toAgent, toClient>>
  PROVE  SessionTyped' /\ Waits' /\ TurnsSound'
BY DEF SessionInv, SessionTyped, Waits, TurnsSound, IsPrompt, Prompted, Unanswered

(* Steps that leave people's messages alone. *)
LEMMA MessagesStay ==
  ASSUME SessionInv, UNCHANGED <<steer, unsaid, held, heard, interrupted>>, cancels' \in Nat
  PROVE  MessagesSound'
BY DEF SessionInv, MessagesSound, Heard

(* Converse comes to its end. *)
LEMMA EndsKeeps ==
  ASSUME SessionInv, Ends, UNCHANGED <<closed, agentUp, working, toClient, steer, unsaid, held, heard, interrupted>>,
         working # 0 \/ (\E i \in DOMAIN toAgent : IsPrompt(i)) => place \notin Opening
  PROVE  SessionInv'
<1>1. place' = "over" /\ UNCHANGED <<nextID, pending, answer, toAgent, cancels, closed, agentUp, working, toClient,
                                      steer, unsaid, held, heard, interrupted>>
  BY DEF Ends
<1>2. SessionTyped'
  BY <1>1 DEF SessionInv, SessionTyped, Places
<1>3. MessagesSound'
  BY <1>1, MessagesStay DEF SessionInv, MessagesSound
<1>4. CancelsSound'
  BY <1>1 DEF CancelsSound, Opening
<1>5. CallsBounded'
  BY <1>1 DEF SessionInv, CallsBounded
<1>6. Waits'
  BY <1>1 DEF Waits
<1>7. TurnsSound'
  BY <1>1 DEF SessionInv, TurnsSound, IsPrompt, Prompted, Unanswered, Opening
<1> QED BY <1>2, <1>3, <1>4, <1>5, <1>6, <1>7 DEF SessionInv

(* A request is made while the agent has no prompt before it. *)
LEMMA MakesKeeps ==
  ASSUME SessionInv, NEW what \in {"call", "mode", "prompt"}, NEW next \in Places, Makes(what, next),
         UNCHANGED <<closed, agentUp, working, toClient>>, nextID + 1 \in Calls, next \notin {"grace", "over"},
         working = 0, \A i \in DOMAIN toAgent : ~IsPrompt(i), 
         what = "prompt" <=> next \notin Opening, what = "prompt" \/ place \in Opening
  PROVE  SessionTyped' /\ Waits' /\ TurnsSound'
<1>1. PICK m \in ToAgent : m = [what |-> what, id |-> nextID + 1]
  <2>1. nextID + 1 \in Nat /\ what \in {"call", "mode", "prompt", "cancel", "allowed", "refused"}
    BY DEF SessionInv, SessionTyped
  <2>2. [what |-> what, id |-> nextID + 1] \in ToAgent
    BY <2>1 DEF ToAgent
  <2> QED BY <2>2
<1>2. /\ ~closed /\ nextID' = nextID + 1 /\ pending' = pending \cup {nextID + 1} /\ toAgent' = Append(toAgent, m)
      /\ place' = next /\ answer' = answer /\ SessionTyped /\ TurnsSound
  BY <1>1 DEF Makes, SessionInv
<1>3. /\ toAgent' \in Seq(ToAgent) /\ DOMAIN toAgent' = 1..(Len(toAgent) + 1) /\ Len(toAgent) \in Nat
      /\ DOMAIN toAgent = 1..Len(toAgent) /\ toAgent'[Len(toAgent) + 1] = m
      /\ \A i \in DOMAIN toAgent : toAgent'[i] = toAgent[i]
  BY <1>2, Longer DEF SessionTyped
<1>4. nextID \in Nat /\ nextID + 1 \in Nat \ {0} /\ pending' \subseteq 1..(nextID + 1)
  BY <1>2 DEF SessionTyped
<1>5. SessionTyped'
  BY <1>2, <1>3, <1>4 DEF SessionTyped
<1>6. Waits'
  BY <1>2, <1>4 DEF Waits
<1>7. TurnsSound'
  <2>1. \A c \in Calls : c > nextID' => answer'[c] = NoReply
    BY <1>2, <1>4 DEF TurnsSound, Calls
  <2>2. \A c \in Calls : answer'[c] = "gone" => closed'
    BY <1>2 DEF TurnsSound
  <2>3. \A i \in DOMAIN toAgent' : (i \in DOMAIN toAgent /\ toAgent'[i] = toAgent[i]) \/ (i = Len(toAgent) + 1 /\ toAgent'[i] = m)
    <3>1. ASSUME NEW i \in DOMAIN toAgent'
          PROVE  i \in DOMAIN toAgent \/ i = Len(toAgent) + 1
      BY <1>3
    <3> QED BY <1>3, <3>1
  <2>4. \A i \in DOMAIN toAgent : toAgent[i] \in ToAgent /\ toAgent[i].id \in Nat /\ toAgent[i].id <= nextID
    <3>1. ASSUME NEW i \in DOMAIN toAgent
          PROVE  toAgent[i] \in ToAgent
      BY <1>2, <1>3, ElementOfSeq DEF SessionTyped
    <3> QED BY <1>2, <3>1 DEF TurnsSound, ToAgent
  <2>5. \A i \in DOMAIN toClient : toClient[i].id \in Nat /\ toClient[i].id <= nextID
    <3>1. \A i \in DOMAIN toClient : toClient[i] \in ToClient
      BY <1>2, ElementOfSeq, LenProperties DEF SessionTyped
    <3> QED BY <1>2, <3>1 DEF TurnsSound, ToClient
  <2>6. m.id = nextID + 1 /\ m.what = what
    BY <1>1
  <2>7. /\ \A i \in DOMAIN toAgent' : toAgent'[i].id <= nextID'
        /\ \A i \in DOMAIN toClient' : toClient'[i].id <= nextID'
    BY <1>2, <1>4, <2>3, <2>4, <2>5, <2>6
  <2>8. answer[nextID + 1] = NoReply
    BY <1>2, <1>4 DEF TurnsSound
  <2>9. \A i \in DOMAIN toAgent' : toAgent'[i].what = "prompt" =>
          i = Len(toAgent) + 1 /\ what = "prompt" /\ toAgent'[i] = m
    BY <2>3, <2>6 DEF IsPrompt
  <2>10. what = "prompt" => Prompted'
    <3>1. Unanswered'
      BY <1>2, <1>4, <2>5, <2>8 DEF Unanswered
    <3>2. what = "prompt" => \A i \in DOMAIN toAgent' : toAgent'[i].what \in {"call", "mode"} => toAgent'[i].id # nextID'
      BY <1>2, <1>4, <2>3, <2>4, <2>6
    <3> QED BY <1>2, <3>1, <3>2 DEF Prompted
  <2>11. \A i \in DOMAIN toAgent' : IsPrompt(i)' =>
           /\ toAgent'[i].id = nextID' /\ working' = 0 /\ Prompted'
           /\ \A j \in DOMAIN toAgent' : IsPrompt(j)' => i = j
    BY <1>2, <2>6, <2>9, <2>10 DEF IsPrompt
  <2>12. \A i \in DOMAIN toAgent' : toAgent'[i].what = "cancel" =>
           /\ place' \notin Opening
           /\ toAgent'[i].id # nextID' => \E j \in DOMAIN toAgent' : i < j /\ IsPrompt(j)'
    <3>1. \A i \in DOMAIN toAgent : toAgent[i].what = "cancel" => what = "prompt"
      BY <1>2 DEF TurnsSound
    <3>2. /\ what = "prompt" => toAgent'[Len(toAgent) + 1].what = "prompt"
          /\ Len(toAgent) + 1 \in DOMAIN toAgent'
      BY <1>3, <2>6
    <3>3. ASSUME NEW i \in DOMAIN toAgent', toAgent'[i].what = "cancel"
          PROVE  what = "prompt" /\ i < Len(toAgent) + 1
      <4>1. i \in DOMAIN toAgent /\ toAgent'[i] = toAgent[i]
        BY <2>3, <2>6, <3>3
      <4> QED BY <1>3, <3>1, <3>3, <4>1
    <3>4. what = "prompt" => place' \notin Opening
      BY <1>2
    <3> QED BY <3>2, <3>3, <3>4 DEF IsPrompt
  <2> QED BY <1>2, <2>1, <2>2, <2>7, <2>11, <2>12 DEF TurnsSound
<1> QED BY <1>5, <1>6, <1>7


-----------------------------------------------------------------------------
(* What people said makes room for a turn's call. *)
LEMMA HeardGrows ==
  ASSUME MessagesSound
  PROVE  /\ Cardinality(heard) \in Nat /\ Cardinality(Messages) \in Nat /\ Cardinality(heard) <= Cardinality(Messages)
         /\ heard \cup Heard \subseteq Messages
         /\ held # <<>> => /\ Cardinality(heard \cup Heard) \in Nat
                           /\ Cardinality(heard) + 1 <= Cardinality(heard \cup Heard)
                           /\ Cardinality(heard \cup Heard) <= Cardinality(Messages)
<1>1. /\ IsFiniteSet(Messages) /\ heard \subseteq Messages /\ held \in Seq(Messages) /\ Heard \cap heard = {}
  BY SessionAssumption DEF MessagesSound
<1>2. \A i \in DOMAIN held : held[i] \in Messages
  BY <1>1, ElementOfSeq, LenProperties
<1>3. Heard \subseteq Messages /\ heard \cup Heard \subseteq Messages
  BY <1>1, <1>2 DEF Heard
<1>4. /\ IsFiniteSet(heard) /\ Cardinality(heard) \in Nat /\ Cardinality(Messages) \in Nat
      /\ Cardinality(heard) <= Cardinality(Messages)
      /\ IsFiniteSet(heard \cup Heard) /\ Cardinality(heard \cup Heard) \in Nat
      /\ Cardinality(heard \cup Heard) <= Cardinality(Messages)
  BY <1>1, <1>3, FS_Subset, FS_CardinalityType
<1>5. ASSUME held # <<>>
      PROVE  Cardinality(heard) + 1 <= Cardinality(heard \cup Heard)
  <2>1. 1 \in DOMAIN held
    BY <1>1, <1>5, Shorter
  <2>2. held[1] \in Heard /\ held[1] \notin heard
    BY <1>1, <2>1 DEF Heard
  <2>3. IsFiniteSet(heard \cup {held[1]}) /\ Cardinality(heard \cup {held[1]}) = Cardinality(heard) + 1
    BY <1>4, <2>2, FS_AddElement
  <2>4. heard \cup {held[1]} \subseteq heard \cup Heard
    BY <2>2
  <2> QED BY <1>4, <2>3, <2>4, FS_Subset
<1> QED BY <1>1, <1>3, <1>4, <1>5

(* There are numbers enough for the calls. *)
LEMMA CallsFit ==
  ASSUME SessionInv
  PROVE  /\ MaxCalls \in Nat /\ nextID \in Nat /\ nextID \in Calls
         /\ place \in Opening => nextID <= 5 /\ nextID + 1 \in Calls
         /\ held # <<>> => nextID + 1 \in Calls /\ nextID + 1 <= 6 + Cardinality(heard \cup Heard)
<1>1. MessagesSound /\ CallsBounded /\ nextID \in Nat \ {0}
  BY DEF SessionInv, SessionTyped
<1>2. nextID <= 6 + Cardinality(heard) /\ (place \in Opening => nextID <= 5)
  BY <1>1 DEF CallsBounded, Opening
<1>3. MaxCalls = 6 + Cardinality(Messages)
  BY DEF MaxCalls
<1> QED BY <1>1, <1>2, <1>3, HeardGrows DEF Calls

(* The handshake keeps the invariant, ... *)
LEMMA OpeningKeeps ==
  ASSUME SessionInv, Converse \/ Abandon
  PROVE  SessionInv'
<1>1. /\ place \in Opening
      /\ UNCHANGED <<closed, toClient, agentUp, working, steer, unsaid, held, heard, interrupted>>
      /\ \/ Ends
         \/ place = "initialize" /\ Makes("call", "new")
         \/ place = "new" /\ Makes("call", "authenticate")
         \/ place = "authenticate" /\ Makes("call", "renew")
         \/ place \in {"new", "renew"} /\ Makes("mode", "mode")
         \/ place \in {"new", "renew", "mode"} /\ Makes("prompt", "turn")
  BY OpeningMoves
<1>2. working = 0 /\ \A i \in DOMAIN toAgent : ~IsPrompt(i)
  BY <1>1 DEF SessionInv, TurnsSound, Prompted
<1>3. CASE Ends
  BY <1>1, <1>2, <1>3, EndsKeeps
<1>4. ASSUME NEW what \in {"call", "mode", "prompt"}, NEW next \in {"new", "authenticate", "renew", "mode", "turn"},
             Makes(what, next), what = "prompt" <=> next = "turn",
             \/ place = "initialize" /\ next = "new"
             \/ place = "new" /\ next = "authenticate"
             \/ place = "authenticate" /\ next = "renew"
             \/ place \in {"new", "renew"} /\ next = "mode"
             \/ next = "turn"
      PROVE  SessionInv'
  <2>1. /\ next \in Places /\ next \notin {"grace", "over"} /\ (what = "prompt" <=> next \notin Opening)
        /\ nextID + 1 \in Calls /\ nextID <= 5 /\ nextID \in Nat
    BY <1>1, <1>4, CallsFit DEF Places, Opening
  <2>2. SessionTyped' /\ Waits' /\ TurnsSound'
    BY <1>1, <1>2, <1>4, <2>1, MakesKeeps
  <2>3. place' = next /\ cancels' = 0 /\ nextID' = nextID + 1
    BY <1>4 DEF Makes
  <2>4. held = <<>> /\ ~interrupted /\ DOMAIN held = {}
    BY <1>1, NoElement DEF SessionInv, CancelsSound
  <2>5. CancelsSound'
    BY <1>1, <2>3, <2>4 DEF CancelsSound
  <2>6. CallsBounded'
    <3>1. Cardinality(heard) \in Nat /\ heard' = heard
      BY <1>1, HeardGrows DEF SessionInv
    <3>2. /\ place = "initialize" => nextID <= 1
          /\ place = "new" => nextID <= 2
          /\ place = "authenticate" => nextID <= 3
          /\ place = "renew" => nextID <= 4
      BY DEF SessionInv, CallsBounded
    <3> QED BY <1>4, <2>1, <2>3, <3>1, <3>2 DEF CallsBounded
  <2> QED BY <1>1, <2>2, <2>3, <2>5, <2>6, MessagesStay DEF SessionInv
<1> QED BY <1>1, <1>3, <1>4

(* ... and so do the end of a turn, ... *)
LEMMA TurnOverKeeps ==
  ASSUME SessionInv, TurnOver
  PROVE  SessionInv'
<1>1. /\ place = "turn" /\ answer[nextID] # NoReply
      /\ UNCHANGED <<closed, toClient, agentUp, working, steer, unsaid>>
      /\ \/ Ends /\ UNCHANGED <<heard, held, interrupted>>
         \/ /\ Makes("prompt", "turn") /\ held # <<>> /\ answer[nextID] \in {"end_turn", "cancelled"}
            /\ heard' = heard \cup Heard /\ held' = <<>> /\ interrupted' = FALSE
  BY TurnMoves
<1>2. CASE Ends /\ UNCHANGED <<heard, held, interrupted>>
  BY <1>1, <1>2, EndsKeeps DEF Opening
<1>3. ASSUME Makes("prompt", "turn"), held # <<>>, answer[nextID] \in {"end_turn", "cancelled"},
             heard' = heard \cup Heard, held' = <<>>, interrupted' = FALSE
      PROVE  SessionInv'
  <2>1. working = 0 /\ \A i \in DOMAIN toAgent : ~IsPrompt(i)
    BY <1>3 DEF SessionInv, TurnsSound, Prompted, Unanswered, NoReply
  <2>2. nextID + 1 \in Calls /\ nextID + 1 <= 6 + Cardinality(heard \cup Heard) /\ nextID \in Nat
    BY <1>3, CallsFit
  <2>3. SessionTyped' /\ Waits' /\ TurnsSound'
    BY <1>1, <1>3, <2>1, <2>2, MakesKeeps DEF Places, Opening
  <2>4. place' = "turn" /\ cancels' = 0 /\ nextID' = nextID + 1
    BY <1>3 DEF Makes
  <2>5. MessagesSound'
    <3>1. MessagesSound /\ heard \cup Heard \subseteq Messages
      BY HeardGrows DEF SessionInv
    <3>2. Heard' = {}
      BY <1>3, NoElement DEF Heard
    <3>3. \A i \in DOMAIN steer : /\ steer[i] \notin unsaid \cup Heard \cup heard
                                  /\ \A j \in DOMAIN steer : steer[i] = steer[j] => i = j
      BY <3>1 DEF MessagesSound
    <3> QED BY <1>1, <1>3, <2>4, <3>1, <3>2, <3>3, NoElement DEF MessagesSound
  <2>6. CancelsSound'
    BY <1>3, <2>4, NoElement DEF CancelsSound, Opening
  <2>7. CallsBounded'
    BY <1>3, <2>2, <2>4 DEF CallsBounded
  <2> QED BY <2>3, <2>5, <2>6, <2>7 DEF SessionInv
<1> QED BY <1>1, <1>2, <1>3


-----------------------------------------------------------------------------
(* The client tells the agent something, or the agent is gone.             *)
LEMMA SpeaksKeeps ==
  ASSUME SessionInv, NEW m \in ToAgent, m.what \in {"cancel", "allowed", "refused"}, m.id <= nextID,
         m.what = "cancel" => place \notin Opening /\ m.id = nextID,
         toAgent' = toAgent \/ toAgent' = Append(toAgent, m),
         place' = place \/ (place \notin Opening /\ place' \in Places \ Opening),
         UNCHANGED <<nextID, pending, answer, closed, agentUp, working, toClient>>
  PROVE  SessionTyped' /\ TurnsSound'
<1>1. SessionTyped /\ TurnsSound
  BY DEF SessionInv
<1>2. place' \in Places /\ (place \notin Opening => place' \notin Opening)
  BY <1>1 DEF SessionTyped
<1>3. CASE toAgent' = toAgent
  <2>1. SessionTyped'
    BY <1>1, <1>2, <1>3 DEF SessionTyped
  <2>2. TurnsSound'
    BY <1>1, <1>2, <1>3 DEF TurnsSound, IsPrompt, Prompted, Unanswered
  <2> QED BY <2>1, <2>2
<1>4. CASE toAgent' = Append(toAgent, m)
  <2>1. /\ toAgent' \in Seq(ToAgent) /\ DOMAIN toAgent' = 1..(Len(toAgent) + 1) /\ Len(toAgent) \in Nat
        /\ DOMAIN toAgent = 1..Len(toAgent) /\ toAgent'[Len(toAgent) + 1] = m
        /\ \A i \in DOMAIN toAgent : toAgent'[i] = toAgent[i]
    BY <1>1, <1>4, Longer DEF SessionTyped
  <2>2. SessionTyped'
    BY <1>1, <1>2, <2>1 DEF SessionTyped
  <2>3. \A i \in DOMAIN toAgent' :
          (i \in DOMAIN toAgent /\ toAgent'[i] = toAgent[i]) \/ (i = Len(toAgent) + 1 /\ toAgent'[i] = m)
    <3>1. ASSUME NEW i \in DOMAIN toAgent'
          PROVE  i \in DOMAIN toAgent \/ i = Len(toAgent) + 1
      BY <2>1
    <3> QED BY <2>1, <3>1
  <2>4. Prompted => Prompted'
    BY <1>2, <2>3 DEF Prompted, Unanswered
  <2>5. \A i \in DOMAIN toAgent' : IsPrompt(i)' => i \in DOMAIN toAgent /\ IsPrompt(i) /\ toAgent'[i] = toAgent[i]
    BY <2>3 DEF IsPrompt
  <2>6. \A i \in DOMAIN toAgent : i \in DOMAIN toAgent' /\ (IsPrompt(i) => IsPrompt(i)')
    BY <2>1 DEF IsPrompt
  <2>7. \A i \in DOMAIN toAgent' : toAgent'[i].id <= nextID'
    BY <1>1, <2>3 DEF TurnsSound
  <2>8. \A i \in DOMAIN toAgent' : IsPrompt(i)' =>
           /\ toAgent'[i].id = nextID' /\ working' = 0 /\ Prompted'
           /\ \A j \in DOMAIN toAgent' : IsPrompt(j)' => i = j
    BY <1>1, <2>4, <2>5 DEF TurnsSound
  <2>9. \A i \in DOMAIN toAgent' : toAgent'[i].what = "cancel" =>
           /\ place' \notin Opening
           /\ toAgent'[i].id # nextID' => \E j \in DOMAIN toAgent' : i < j /\ IsPrompt(j)'
    BY <1>1, <1>2, <2>3, <2>6 DEF TurnsSound
  <2>10. working' # 0 => working' = nextID' /\ Prompted'
    BY <1>1, <2>4 DEF TurnsSound
  <2>11. /\ \A c \in Calls : c > nextID' => answer'[c] = NoReply
         /\ \A c \in Calls : answer'[c] = "gone" => closed'
         /\ \A i \in DOMAIN toClient' : toClient'[i].id <= nextID'
    BY <1>1 DEF TurnsSound
  <2> QED BY <2>2, <2>7, <2>8, <2>9, <2>10, <2>11 DEF TurnsSound
<1> QED BY <1>3, <1>4

(* The agent's process is gone. *)
LEMMA GoneKeeps ==
  ASSUME SessionInv, toAgent' = <<>>, working' = 0, agentUp' = FALSE,
         UNCHANGED <<place, nextID, pending, answer, closed, toClient>>
  PROVE  SessionTyped' /\ Waits' /\ TurnsSound'
<1>1. SessionTyped /\ TurnsSound /\ Waits
  BY DEF SessionInv
<1>2. SessionTyped'
  BY <1>1, NoElement DEF SessionTyped
<1>3. TurnsSound'
  BY <1>1, NoElement DEF TurnsSound, IsPrompt
<1> QED BY <1>1, <1>2, <1>3 DEF Waits

(* The turns: a message is heard, the Run is stopped, the grace is over. *)
LEMMA HearKeeps ==
  ASSUME SessionInv, Hear
  PROVE  SessionInv'
<1>1. /\ place = "turn" /\ steer # <<>> /\ steer' = Tail(steer) /\ held' = Append(held, Head(steer))
      /\ IF Head(steer) \in Interrupts /\ ~interrupted
         THEN interrupted' = TRUE /\ Cancel /\ cancels' = cancels + 1
         ELSE UNCHANGED <<interrupted, toAgent, cancels>>
      /\ UNCHANGED <<place, nextID, pending, answer, closed, agentUp, working, toClient, unsaid, heard>>
      /\ SessionTyped /\ MessagesSound /\ CancelsSound
  BY DEF Hear, connVars, agentVars, SessionInv
<1>2. PICK msg \in Messages : msg = Head(steer)
  BY <1>1, Shorter DEF MessagesSound
<1>3. /\ steer' \in Seq(Messages) /\ msg = steer[1] /\ 1 \in DOMAIN steer
      /\ \A i \in DOMAIN steer' : i \in Nat \ {0} /\ i + 1 \in DOMAIN steer /\ steer'[i] = steer[i + 1]
  BY <1>1, <1>2, Shorter DEF MessagesSound
<1>4. /\ held' \in Seq(Messages) /\ DOMAIN held' = 1..(Len(held) + 1) /\ Len(held) \in Nat
      /\ DOMAIN held = 1..Len(held) /\ held'[Len(held) + 1] = msg
      /\ \A i \in DOMAIN held : held'[i] = held[i]
  BY <1>1, <1>2, Longer DEF MessagesSound
<1>5. Heard' = Heard \cup {msg}
  <2>1. \A i \in DOMAIN held' : i \in DOMAIN held \/ i = Len(held) + 1
    BY <1>4
  <2>2. \A i \in DOMAIN held : i \in DOMAIN held'
    BY <1>4
  <2>3. Len(held) + 1 \in DOMAIN held'
    BY <1>4
  <2> QED BY <1>4, <2>1, <2>2, <2>3 DEF Heard
<1>6. MessagesSound'
  <2>1. msg \notin unsaid \cup Heard \cup heard
    BY <1>1, <1>3 DEF MessagesSound
  <2>2. \A i \in DOMAIN steer' : /\ steer'[i] \notin unsaid \cup Heard \cup heard \cup {msg}
                                 /\ \A j \in DOMAIN steer' : steer'[i] = steer'[j] => i = j
    BY <1>1, <1>3 DEF MessagesSound
  <2>3. interrupted' \in BOOLEAN /\ cancels' \in Nat
    <3>1. interrupted \in BOOLEAN /\ cancels \in Nat
      BY <1>1 DEF MessagesSound
    <3>2. \/ interrupted' = TRUE /\ cancels' = cancels + 1
          \/ interrupted' = interrupted /\ cancels' = cancels
      BY <1>1
    <3>3. interrupted' \in BOOLEAN
      BY <3>1, <3>2, Zenon
    <3>4. cancels' \in Nat
      BY <3>1, <3>2
    <3> QED BY <3>3, <3>4
  <2> QED BY <1>1, <1>3, <1>4, <1>5, <2>1, <2>2, <2>3 DEF MessagesSound
<1>7. CancelsSound'
  <2>1. (\E i \in DOMAIN held' : held'[i] \in Interrupts) <=> msg \in Interrupts \/ \E i \in DOMAIN held : held[i] \in Interrupts
    <3>1. \A x : x \in Heard' <=> \E i \in DOMAIN held' : held'[i] = x
      BY DEF Heard
    <3>2. \A x : x \in Heard <=> \E i \in DOMAIN held : held[i] = x
      BY DEF Heard
    <3> QED BY <1>5, <3>1, <3>2
  <2>2. /\ interrupted <=> \E i \in DOMAIN held : held[i] \in Interrupts
        /\ cancels = IF interrupted THEN 1 ELSE 0
        /\ interrupted \in BOOLEAN
    BY <1>1 DEF CancelsSound, MessagesSound
  <2>3. CASE msg \in Interrupts /\ ~interrupted
    BY <1>1, <1>2, <2>1, <2>2, <2>3 DEF CancelsSound, Opening
  <2>4. CASE ~(msg \in Interrupts /\ ~interrupted)
    BY <1>1, <1>2, <2>1, <2>2, <2>4 DEF CancelsSound, Opening
  <2> QED BY <2>3, <2>4
<1>8. CallsBounded' /\ Waits'
  BY <1>1 DEF SessionInv, CallsBounded, Waits
<1>9. PICK m \in ToAgent : m = [what |-> "cancel", id |-> nextID]
  BY <1>1 DEF SessionTyped, ToAgent
<1>10. SessionTyped' /\ TurnsSound'
  <2>1. m.id = nextID /\ m.what = "cancel" /\ m.id <= nextID
    BY <1>1, <1>9 DEF SessionTyped
  <2>2. toAgent' = toAgent \/ toAgent' = Append(toAgent, m)
    BY <1>1, <1>9 DEF Cancel
  <2> QED BY <1>1, <2>1, <2>2, SpeaksKeeps DEF Opening
<1> QED BY <1>6, <1>7, <1>8, <1>10 DEF SessionInv

(* ... the stop of the Run, ... *)
LEMMA StoppingKeeps ==
  ASSUME SessionInv, Stopping
  PROVE  SessionInv'
<1>1. /\ place = "turn" /\ Cancel /\ cancels' = cancels + 1 /\ place' = "grace"
      /\ UNCHANGED <<nextID, pending, answer, closed, agentUp, working, toClient, steer, unsaid, held, heard, interrupted>>
      /\ SessionTyped /\ MessagesSound
  BY DEF Stopping, connVars, agentVars, SessionInv
<1>2. PICK m \in ToAgent : m = [what |-> "cancel", id |-> nextID]
  BY <1>1 DEF SessionTyped, ToAgent
<1>3. m.id = nextID /\ m.what = "cancel" /\ m.id <= nextID /\ (toAgent' = toAgent \/ toAgent' = Append(toAgent, m))
  BY <1>1, <1>2 DEF Cancel, SessionTyped
<1>4. SessionTyped' /\ TurnsSound'
  BY <1>1, <1>3, SpeaksKeeps DEF Opening, Places
<1>5. MessagesSound'
  BY <1>1, MessagesStay DEF MessagesSound
<1>6. CancelsSound' /\ CallsBounded' /\ Waits'
  BY <1>1 DEF SessionInv, CancelsSound, CallsBounded, Waits, Opening
<1> QED BY <1>4, <1>5, <1>6 DEF SessionInv

(* ... the end of the grace it is given ... *)
LEMMA GraceOverKeeps ==
  ASSUME SessionInv, GraceOver
  PROVE  SessionInv'
<1>1. /\ place = "grace" /\ Ends
      /\ UNCHANGED <<closed, toClient, agentUp, working, steer, unsaid, held, heard, interrupted>>
  BY DEF GraceOver, Return, Ends, agentVars
<1> QED BY <1>1, EndsKeeps DEF Opening

(* A permission is answered. *)
LEMMA PermitKeeps ==
  ASSUME SessionInv, Permit
  PROVE  SessionInv'
<1>1. /\ question' \in {"allowed", "refused"}
      /\ toAgent' = IF agentUp THEN Append(toAgent, [what |-> question', id |-> 0]) ELSE toAgent
      /\ UNCHANGED <<place, nextID, pending, answer, closed, agentUp, working, toClient, steer, unsaid, held, heard, interrupted,
                     cancels>>
      /\ SessionTyped /\ MessagesSound
  BY DEF Permit, connVars, agentVars, steerVars, SessionInv
<1>2. PICK m \in ToAgent : m = [what |-> question', id |-> 0]
  BY <1>1 DEF ToAgent
<1>3. m.id = 0 /\ m.what \in {"allowed", "refused"} /\ m.id <= nextID /\ (toAgent' = toAgent \/ toAgent' = Append(toAgent, m))
  BY <1>1, <1>2 DEF SessionTyped
<1>4. SessionTyped' /\ TurnsSound'
  BY <1>1, <1>3, SpeaksKeeps
<1>5. MessagesSound'
  BY <1>1, MessagesStay DEF MessagesSound
<1>6. CancelsSound' /\ CallsBounded' /\ Waits'
  BY <1>1 DEF SessionInv, CancelsSound, CallsBounded, Waits
<1> QED BY <1>4, <1>5, <1>6 DEF SessionInv


-----------------------------------------------------------------------------
(* The read loop. *)
LEMMA ReadKeeps ==
  ASSUME SessionInv, Read
  PROVE  SessionInv'
<1>0. /\ toClient # <<>> /\ toClient' = Tail(toClient) /\ SessionTyped /\ TurnsSound /\ Waits
      /\ UNCHANGED <<place, nextID, closed, agentUp, working, toAgent, steer, unsaid, held, heard, interrupted, cancels>>
  BY DEF Read, agentVars, steerVars, SessionInv
<1>1. PICK m \in ToClient : m = Head(toClient)
  BY <1>0, Shorter DEF SessionTyped
<1>2. /\ m = toClient[1] /\ 1 \in DOMAIN toClient /\ toClient' \in Seq(ToClient)
      /\ \A i \in DOMAIN toClient' : i + 1 \in DOMAIN toClient /\ toClient'[i] = toClient[i + 1]
  BY <1>0, <1>1, Shorter DEF SessionTyped
<1>3. \/ UNCHANGED <<answer, pending>>
      \/ /\ m.what = "response" /\ m.id \in pending
         /\ answer' = [answer EXCEPT ![m.id] = m.reply] /\ pending' = pending \ {m.id}
  BY <1>1 DEF Read, ReadResponse, ReadRequest
<1>4. /\ nextID \in Nat /\ nextID \in Calls /\ pending \subseteq 1..nextID /\ 1..nextID \subseteq Calls
      /\ answer \in [Calls -> {NoReply, "gone"} \cup Replies]
  BY <1>0, CallsFit DEF SessionTyped, Calls
<1>5. m.what = "response" => m.reply \in Replies /\ m.reply # NoReply /\ m.reply # "gone"
  BY DEF ToClient, Replies, NoReply
<1>6. SessionTyped'
  BY <1>0, <1>2, <1>3, <1>4, <1>5 DEF SessionTyped
<1>7. \A c \in Calls : answer'[c] = answer[c] \/ (c \in pending /\ c = m.id /\ m.what = "response" /\ answer'[c] = m.reply)
  BY <1>3, <1>4
<1>8. Waits'
  <2>1. CASE nextID \in pending' \/ answer'[nextID] = answer[nextID]
    BY <1>0, <1>3, <1>4, <1>5, <2>1 DEF Waits
  <2>2. CASE nextID \notin pending' /\ answer'[nextID] # answer[nextID]
    BY <1>0, <1>4, <1>5, <1>7, <2>2 DEF Waits
  <2> QED BY <2>1, <2>2
<1>9. TurnsSound'
  <2>1. \A c \in Calls : c > nextID' => answer'[c] = NoReply
    BY <1>0, <1>4, <1>7 DEF TurnsSound
  <2>2. \A c \in Calls : answer'[c] = "gone" => closed'
    BY <1>0, <1>5, <1>7 DEF TurnsSound
  <2>3. \A i \in DOMAIN toClient' : toClient'[i].id <= nextID'
    BY <1>0, <1>2 DEF TurnsSound
  <2>4. Unanswered => Unanswered'
    BY <1>0, <1>2, <1>4, <1>7 DEF Unanswered
  <2>5. Prompted => Prompted'
    BY <1>0, <2>4 DEF Prompted
  <2> QED BY <1>0, <2>1, <2>2, <2>3, <2>5 DEF TurnsSound, IsPrompt
<1>10. MessagesSound' /\ CancelsSound' /\ CallsBounded'
  BY <1>0, MessagesStay DEF SessionInv, MessagesSound, CancelsSound, CallsBounded
<1> QED BY <1>6, <1>8, <1>9, <1>10 DEF SessionInv

(* ... and the end of the agent's output. *)
LEMMA ReadEndsKeeps ==
  ASSUME SessionInv, ReadEnds
  PROVE  SessionInv'
<1>0. /\ closed' = TRUE /\ answer' = [c \in Calls |-> IF c \in pending THEN "gone" ELSE answer[c]] /\ pending' = {}
      /\ SessionTyped /\ TurnsSound /\ Waits
      /\ UNCHANGED <<place, nextID, agentUp, working, toAgent, toClient, steer, unsaid, held, heard, interrupted, cancels>>
  BY DEF ReadEnds, agentVars, steerVars, SessionInv
<1>1. nextID \in Nat /\ nextID \in Calls /\ pending \subseteq 1..nextID
  BY <1>0, CallsFit DEF SessionTyped
<1>2. SessionTyped'
  BY <1>0 DEF SessionTyped
<1>3. \A c \in Calls : answer'[c] = answer[c] \/ (c \in pending /\ answer'[c] = "gone")
  BY <1>0
<1>4. Waits'
  BY <1>0, <1>1 DEF Waits, NoReply
<1>5. TurnsSound'
  <2>1. \A c \in Calls : c > nextID' => answer'[c] = NoReply
    BY <1>0, <1>1, <1>3 DEF TurnsSound
  <2>2. Prompted => Prompted'
    BY <1>0, <1>1, <1>3 DEF Prompted, Unanswered
  <2> QED BY <1>0, <2>1, <2>2 DEF TurnsSound, IsPrompt
<1>6. MessagesSound' /\ CancelsSound' /\ CallsBounded'
  BY <1>0, MessagesStay DEF SessionInv, MessagesSound, CancelsSound, CallsBounded
<1> QED BY <1>2, <1>4, <1>5, <1>6 DEF SessionInv

-----------------------------------------------------------------------------
(* The agent writes a message. *)
LEMMA SaysIs ==
  ASSUME SessionInv, NEW m \in ToClient, Says(m), m.id <= nextID
  PROVE  /\ toClient' \in Seq(ToClient)
         /\ \A i \in DOMAIN toClient' : (i \in DOMAIN toClient /\ toClient'[i] = toClient[i]) \/ toClient'[i] = m
         /\ \A i \in DOMAIN toClient' : toClient'[i].id <= nextID
<1>1. toClient' = Append(toClient, m) /\ toClient \in Seq(ToClient) /\ TurnsSound
  BY DEF Says, SessionInv, SessionTyped
<1>2. /\ toClient' \in Seq(ToClient) /\ DOMAIN toClient' = 1..(Len(toClient) + 1) /\ Len(toClient) \in Nat
      /\ DOMAIN toClient = 1..Len(toClient) /\ toClient'[Len(toClient) + 1] = m
      /\ \A i \in DOMAIN toClient : toClient'[i] = toClient[i]
  BY <1>1, Longer
<1>3. \A i \in DOMAIN toClient' : i \in DOMAIN toClient \/ i = Len(toClient) + 1
  BY <1>2
<1>4. \A i \in DOMAIN toClient' : (i \in DOMAIN toClient /\ toClient'[i] = toClient[i]) \/ toClient'[i] = m
  BY <1>2, <1>3
<1> QED BY <1>1, <1>2, <1>4 DEF TurnsSound

(* The agent reads what is next. *)
LEMMA AgentReadsKeeps ==
  ASSUME SessionInv, AgentReads
  PROVE  SessionInv'
<1>0. /\ toAgent # <<>> /\ toAgent' = Tail(toAgent) /\ SessionTyped /\ TurnsSound /\ Waits
      /\ UNCHANGED <<place, nextID, pending, answer, closed, agentUp, steer, unsaid, held, heard, interrupted, cancels>>
  BY DEF AgentReads, connVars, steerVars, SessionInv
<1>1. PICK m \in ToAgent : m = Head(toAgent)
  BY <1>0, Shorter DEF SessionTyped
<1>2. /\ m = toAgent[1] /\ 1 \in DOMAIN toAgent /\ toAgent' \in Seq(ToAgent)
      /\ DOMAIN toAgent = 1..Len(toAgent) /\ DOMAIN toAgent' = 1..(Len(toAgent) - 1) /\ Len(toAgent) \in Nat
      /\ \A i \in DOMAIN toAgent' : i + 1 \in DOMAIN toAgent /\ toAgent'[i] = toAgent[i + 1]
  BY <1>0, <1>1, Shorter DEF SessionTyped
<1>3. /\ \A i \in DOMAIN toAgent' : toAgent'[i].id <= nextID'
      /\ \A i \in DOMAIN toAgent' : IsPrompt(i)' => IsPrompt(i + 1) /\ ~IsPrompt(1)
  <2>1. \A i \in DOMAIN toAgent' : IsPrompt(i)' => IsPrompt(i + 1) /\ i + 1 \in DOMAIN toAgent /\ i + 1 # 1
    BY <1>2 DEF IsPrompt
  <2>2. \A i, j \in DOMAIN toAgent : IsPrompt(i) /\ IsPrompt(j) => i = j
    BY <1>0 DEF TurnsSound
  <2> QED BY <1>0, <1>2, <2>1, <2>2 DEF TurnsSound
<1>4. m.what # "prompt" =>
        \A i \in DOMAIN toAgent' : toAgent'[i].what = "cancel" =>
           /\ place' \notin Opening
           /\ toAgent'[i].id # nextID' => \E j \in DOMAIN toAgent' : i < j /\ IsPrompt(j)'
  <2>1. ASSUME m.what # "prompt", NEW i \in DOMAIN toAgent', toAgent'[i].what = "cancel", toAgent'[i].id # nextID'
        PROVE  \E j \in DOMAIN toAgent' : i < j /\ IsPrompt(j)'
    <3>1. PICK j \in DOMAIN toAgent : i + 1 < j /\ IsPrompt(j)
      BY <1>0, <1>2, <2>1 DEF TurnsSound
    <3>2. j - 1 \in DOMAIN toAgent' /\ i < j - 1 /\ toAgent'[j - 1] = toAgent[j]
      BY <1>2, <3>1
    <3>3. PICK k \in DOMAIN toAgent' : k = j - 1
      BY <3>2
    <3> QED BY <3>1, <3>2, <3>3 DEF IsPrompt
  <2> QED BY <1>0, <1>2, <2>1 DEF TurnsSound
<1>5. ASSUME SessionTyped', working' # 0 => working' = nextID' /\ Prompted', m.what # "prompt" => working' = working,
             m.what # "prompt" /\ Prompted => Prompted', \A i \in DOMAIN toClient' : toClient'[i].id <= nextID'
      PROVE  SessionInv'
  <2>1. ASSUME NEW i \in DOMAIN toAgent', IsPrompt(i)'
        PROVE  /\ toAgent'[i].id = nextID' /\ working' = 0 /\ Prompted'
               /\ \A j \in DOMAIN toAgent' : IsPrompt(j)' => i = j
    <3>1. i + 1 \in DOMAIN toAgent /\ IsPrompt(i + 1) /\ m.what # "prompt" /\ toAgent'[i] = toAgent[i + 1]
      BY <1>2, <1>3, <2>1 DEF IsPrompt
    <3>2. toAgent[i + 1].id = nextID /\ working = 0 /\ Prompted
      BY <1>0, <3>1 DEF TurnsSound
    <3>3. ASSUME NEW j \in DOMAIN toAgent', IsPrompt(j)'
          PROVE  i = j
      <4>1. j + 1 \in DOMAIN toAgent /\ IsPrompt(j + 1)
        BY <1>2, <1>3, <3>3
      <4>2. i + 1 = j + 1
        BY <1>0, <3>1, <4>1 DEF TurnsSound
      <4> QED BY <1>2, <4>2
    <3> QED BY <1>0, <1>5, <3>1, <3>2, <3>3
  <2>2. \A i \in DOMAIN toAgent' : toAgent'[i].what = "cancel" =>
           /\ place' \notin Opening
           /\ toAgent'[i].id # nextID' => \E j \in DOMAIN toAgent' : i < j /\ IsPrompt(j)'
    <3>1. CASE m.what = "prompt"
      <4>1. IsPrompt(1)
        BY <1>2, <3>1 DEF IsPrompt
      <4>2. ASSUME NEW i \in DOMAIN toAgent', toAgent'[i].what = "cancel"
            PROVE  place \notin Opening /\ toAgent'[i].id = nextID
        <5>1. i + 1 \in DOMAIN toAgent /\ i \in Nat \ {0} /\ toAgent[i + 1].what = "cancel" /\ toAgent'[i] = toAgent[i + 1]
          BY <1>2, <4>2
        <5>2. \A j \in DOMAIN toAgent : IsPrompt(j) => j = 1
          BY <1>0, <1>2, <4>1 DEF TurnsSound
        <5> QED BY <1>0, <5>1, <5>2 DEF TurnsSound
      <4> QED BY <1>0, <4>2
    <3> QED BY <1>4, <3>1
  <2>3. TurnsSound'
    BY <1>0, <1>3, <1>5, <2>1, <2>2 DEF TurnsSound
  <2>4. MessagesSound' /\ CancelsSound' /\ CallsBounded' /\ Waits'
    BY <1>0, MessagesStay DEF SessionInv, MessagesSound, CancelsSound, CallsBounded, Waits
  <2> QED BY <1>5, <2>3, <2>4 DEF SessionInv
<1>6. \A i \in DOMAIN toAgent' : toAgent'[i].what \in {"call", "mode"} /\ Prompted => toAgent'[i].id # nextID'
  BY <1>0, <1>2 DEF Prompted
<1>7. CASE m.what \in {"call", "mode"}
  <2>1. UNCHANGED working /\ \E r \in {"ok", "error", "login"} : Says([what |-> "response", id |-> m.id, reply |-> r])
    BY <1>1, <1>7 DEF AgentReads
  <2>2. PICK r \in {"ok", "error", "login"} : Says([what |-> "response", id |-> m.id, reply |-> r])
    BY <2>1
  <2>3. PICK sent \in ToClient : sent = [what |-> "response", id |-> m.id, reply |-> r]
    <3>1. m.id \in Nat /\ r \in Replies
      BY DEF ToAgent, Replies
    <3> QED BY <3>1 DEF ToClient
  <2>4. sent.id = m.id /\ m.id <= nextID
    BY <1>0, <1>2, <2>3 DEF TurnsSound
  <2>5. /\ toClient' \in Seq(ToClient)
        /\ \A i \in DOMAIN toClient' : (i \in DOMAIN toClient /\ toClient'[i] = toClient[i]) \/ toClient'[i] = sent
        /\ \A i \in DOMAIN toClient' : toClient'[i].id <= nextID
    BY <2>2, <2>3, <2>4, SaysIs
  <2>6. Prompted => m.id # nextID
    BY <1>2, <1>7 DEF Prompted
  <2>7. Prompted => Prompted'
    <3>1. Prompted => Unanswered'
      BY <1>0, <2>4, <2>5, <2>6 DEF Prompted, Unanswered
    <3> QED BY <1>0, <1>6, <3>1 DEF Prompted
  <2>8. SessionTyped'
    BY <1>0, <1>2, <2>1, <2>5 DEF SessionTyped
  <2> QED BY <1>0, <1>5, <1>7, <2>1, <2>5, <2>7, <2>8 DEF TurnsSound
<1>8. CASE m.what = "prompt"
  <2>1. working' = m.id /\ UNCHANGED toClient
    BY <1>1, <1>8 DEF AgentReads
  <2>2. m.id = nextID /\ Prompted
    BY <1>0, <1>2, <1>8 DEF TurnsSound, IsPrompt
  <2>3. Prompted'
    BY <1>0, <1>6, <2>1, <2>2 DEF Prompted, Unanswered
  <2>4. SessionTyped'
    BY <1>0, <1>2, <2>1, <2>2 DEF SessionTyped
  <2> QED BY <1>0, <1>5, <1>8, <2>1, <2>2, <2>3, <2>4 DEF TurnsSound
<1>9. CASE m.what \in {"cancel", "allowed", "refused"}
  <2>1. UNCHANGED <<working, toClient>>
    BY <1>1, <1>9 DEF AgentReads
  <2>2. Prompted => Prompted'
    BY <1>0, <1>6, <2>1 DEF Prompted, Unanswered
  <2>3. SessionTyped'
    BY <1>0, <1>2, <2>1 DEF SessionTyped
  <2> QED BY <1>0, <1>5, <1>9, <2>1, <2>2, <2>3 DEF TurnsSound
<1> QED BY <1>7, <1>8, <1>9 DEF ToAgent


(* It ends its turn, or asks a person. *)
LEMMA AgentWritesKeeps ==
  ASSUME SessionInv, AgentEndsTurn \/ AgentAsks
  PROVE  SessionInv'
<1>0. /\ working # 0 /\ SessionTyped /\ TurnsSound /\ Waits
      /\ UNCHANGED <<place, nextID, pending, answer, closed, agentUp, toAgent, steer, unsaid, held, heard, interrupted, cancels>>
  BY DEF AgentEndsTurn, AgentAsks, connVars, steerVars, agentVars, SessionInv
<1>1. MessagesSound' /\ CancelsSound' /\ CallsBounded' /\ Waits'
  BY <1>0, MessagesStay DEF SessionInv, MessagesSound, CancelsSound, CallsBounded, Waits
<1>2. working = nextID /\ \A i \in DOMAIN toAgent : ~IsPrompt(i)
  BY <1>0 DEF TurnsSound
<1>3. CASE AgentEndsTurn
  <2>1. working' = 0 /\ \E r \in {"end_turn", "refusal", "error", "cancelled"} :
                          Says([what |-> "response", id |-> working, reply |-> r])
    BY <1>3 DEF AgentEndsTurn
  <2>2. PICK r \in {"end_turn", "refusal", "error", "cancelled"} : Says([what |-> "response", id |-> working, reply |-> r])
    BY <2>1
  <2>3. PICK sent \in ToClient : sent = [what |-> "response", id |-> working, reply |-> r]
    <3>1. working \in Nat /\ r \in Replies
      BY <1>0 DEF SessionTyped, Replies
    <3> QED BY <3>1 DEF ToClient
  <2>4. /\ toClient' \in Seq(ToClient)
        /\ \A i \in DOMAIN toClient' : toClient'[i].id <= nextID
    <3>1. sent.id = nextID /\ nextID <= nextID
      BY <1>0, <1>2, <2>3 DEF SessionTyped
    <3> QED BY <2>2, <2>3, <3>1, SaysIs
  <2>5. SessionTyped'
    BY <1>0, <2>1, <2>4 DEF SessionTyped
  <2>6. TurnsSound'
    BY <1>0, <1>2, <2>1, <2>4 DEF TurnsSound, IsPrompt
  <2> QED BY <1>1, <2>5, <2>6 DEF SessionInv
<1>4. CASE AgentAsks
  <2>1. working' = working /\ Says([what |-> "permission", id |-> 0])
    BY <1>4 DEF AgentAsks, agentVars
  <2>2. PICK sent \in ToClient : sent = [what |-> "permission", id |-> 0]
    BY DEF ToClient
  <2>3. /\ toClient' \in Seq(ToClient)
        /\ \A i \in DOMAIN toClient' : (i \in DOMAIN toClient /\ toClient'[i] = toClient[i]) \/ toClient'[i] = sent
        /\ \A i \in DOMAIN toClient' : toClient'[i].id <= nextID
    <3>1. sent.id = 0 /\ 0 <= nextID
      BY <1>0, <2>2 DEF SessionTyped
    <3> QED BY <2>1, <2>2, <3>1, SaysIs
  <2>4. SessionTyped'
    BY <1>0, <2>1, <2>3 DEF SessionTyped
  <2>5. Prompted => Prompted'
    BY <1>0, <2>2, <2>3 DEF Prompted, Unanswered
  <2>6. TurnsSound'
    BY <1>0, <1>2, <2>1, <2>3, <2>5 DEF TurnsSound, IsPrompt
  <2> QED BY <1>1, <2>4, <2>6 DEF SessionInv
<1> QED BY <1>3, <1>4

(* It exits, or is stopped when the conversation is over; the Run stops.   *)
LEMMA ExitKeeps ==
  ASSUME SessionInv, AgentExits \/ StopProcess \/ StopRun
  PROVE  SessionInv'
<1>1. UNCHANGED <<place, nextID, pending, answer, closed, toClient, steer, unsaid, held, heard, interrupted, cancels>>
  BY DEF AgentExits, StopProcess, StopRun, connVars, steerVars
<1>2. MessagesSound' /\ CancelsSound' /\ CallsBounded' /\ Waits'
  BY <1>1, MessagesStay DEF SessionInv, MessagesSound, CancelsSound, CallsBounded, Waits
<1>3. CASE AgentExits \/ StopProcess
  <2>1. toAgent' = <<>> /\ working' = 0 /\ agentUp' = FALSE
    BY <1>3 DEF AgentExits, StopProcess, AgentGone
  <2> QED BY <1>1, <1>2, <2>1, GoneKeeps DEF SessionInv
<1>4. CASE StopRun
  <2>1. UNCHANGED <<agentUp, working, toAgent>>
    BY <1>4 DEF StopRun, agentVars
  <2> QED BY <1>1, <1>2, <2>1, WireStays DEF SessionInv
<1> QED BY <1>3, <1>4

(* Someone says something. *)
LEMMA SayKeeps ==
  ASSUME SessionInv, NEW m \in Messages, Say(m)
  PROVE  SessionInv'
<1>1. /\ m \in unsaid /\ unsaid' = unsaid \ {m} /\ steer' = Append(steer, m) /\ MessagesSound
      /\ UNCHANGED <<place, nextID, pending, answer, closed, agentUp, working, toAgent, toClient, held, heard, interrupted, cancels>>
  BY DEF Say, connVars, agentVars, SessionInv
<1>2. /\ steer' \in Seq(Messages) /\ DOMAIN steer' = 1..(Len(steer) + 1) /\ Len(steer) \in Nat
      /\ DOMAIN steer = 1..Len(steer) /\ steer'[Len(steer) + 1] = m
      /\ \A i \in DOMAIN steer : steer'[i] = steer[i]
  BY <1>1, Longer DEF MessagesSound
<1>3. \A i \in DOMAIN steer' : (i \in DOMAIN steer /\ steer'[i] = steer[i]) \/ (i = Len(steer) + 1 /\ steer'[i] = m)
  <2>1. \A i \in DOMAIN steer' : i \in DOMAIN steer \/ i = Len(steer) + 1
    BY <1>2
  <2> QED BY <1>2, <2>1
<1>4. Heard' = Heard
  BY <1>1 DEF Heard
<1>5. m \notin Heard \cup heard /\ \A i \in DOMAIN steer : steer[i] # m
  BY <1>1 DEF MessagesSound
<1>6. \A i \in DOMAIN steer' : /\ steer'[i] \notin unsaid' \cup Heard \cup heard
                               /\ \A j \in DOMAIN steer' : steer'[i] = steer'[j] => i = j
  BY <1>1, <1>3, <1>5 DEF MessagesSound
<1>7. MessagesSound'
  BY <1>1, <1>2, <1>4, <1>6 DEF MessagesSound
<1>8. CancelsSound' /\ CallsBounded'
  BY <1>1 DEF SessionInv, CancelsSound, CallsBounded
<1> QED BY <1>1, <1>7, <1>8, WireStays DEF SessionInv

(* A session that has called initialize. *)
LEMMA SessionStarts == SessionInit => SessionInv
<1> SUFFICES ASSUME SessionInit PROVE SessionInv
  OBVIOUS
<1>1. Cardinality({}) = 0 /\ Cardinality(Messages) \in Nat
  BY SessionAssumption, FS_EmptySet, FS_CardinalityType
<1>2. 1 \in Calls /\ heard = {}
  BY <1>1 DEF Calls, MaxCalls, SessionInit
<1>3. PICK m \in ToAgent : m = [what |-> "call", id |-> 1]
  BY DEF ToAgent
<1>4. toAgent = <<m>> /\ toAgent \in Seq(ToAgent) /\ DOMAIN toAgent = {1} /\ toAgent[1] = m
  BY <1>3 DEF SessionInit
<1>5. toClient = <<>> /\ toClient \in Seq(ToClient) /\ DOMAIN toClient = {}
  BY EmptySeq, NoElement DEF SessionInit
<1>6. SessionTyped
  <2>1. answer = [c \in Calls |-> NoReply] /\ nextID = 1 /\ pending = {1} /\ place = "initialize" /\ working = 0
    BY DEF SessionInit
  <2>2. answer \in [Calls -> {NoReply, "gone"} \cup Replies]
    BY <2>1
  <2>3. closed \in BOOLEAN /\ agentUp \in BOOLEAN
    BY Zenon DEF SessionInit
  <2> QED BY <1>4, <1>5, <2>1, <2>2, <2>3 DEF SessionTyped, Places
<1>7. MessagesSound
  BY NoElement DEF SessionInit, MessagesSound, Heard
<1>8. CancelsSound /\ CallsBounded /\ Waits
  BY <1>1, <1>2 DEF SessionInit, CancelsSound, CallsBounded, Waits
<1>9. TurnsSound
  BY <1>2, <1>3, <1>4, <1>5 DEF SessionInit, TurnsSound, IsPrompt, NoReply
<1> QED BY <1>6, <1>7, <1>8, <1>9 DEF SessionInv

(* Every step keeps the invariant. *)
LEMMA SessionKept == SessionInv /\ [SessionNext]_sessionVars => SessionInv'
<1> SUFFICES ASSUME SessionInv, [SessionNext]_sessionVars PROVE SessionInv'
  OBVIOUS
<1>1. CASE ClientStep
  BY <1>1, OpeningKeeps, HearKeeps, TurnOverKeeps, StoppingKeeps, GraceOverKeeps DEF ClientStep
<1>2. CASE StopProcess \/ AgentExits \/ StopRun
  BY <1>2, ExitKeeps
<1>3. CASE Read
  BY <1>3, ReadKeeps
<1>4. CASE EndOfFile \/ BadLine
  BY <1>4, ReadEndsKeeps DEF EndOfFile, BadLine
<1>5. CASE Permit
  BY <1>5, PermitKeeps
<1>6. CASE AgentReads
  BY <1>6, AgentReadsKeeps
<1>7. CASE AgentEndsTurn \/ AgentAsks
  BY <1>7, AgentWritesKeeps
<1>8. ASSUME NEW m \in Messages, Say(m) PROVE SessionInv'
  BY <1>8, SayKeeps
<1>9. CASE UNCHANGED sessionVars
  <2>1. UNCHANGED <<place, nextID, pending, answer, closed, agentUp, working, toAgent, toClient, steer, unsaid, held, heard,
                    interrupted, cancels>>
    BY <1>9 DEF sessionVars, connVars, agentVars, steerVars
  <2>2. MessagesSound' /\ CancelsSound' /\ CallsBounded'
    BY <2>1, MessagesStay DEF SessionInv, MessagesSound, CancelsSound, CallsBounded
  <2> QED BY <2>1, <2>2, WireStays DEF SessionInv
<1> QED BY <1>1, <1>2, <1>3, <1>4, <1>5, <1>6, <1>7, <1>8, <1>9 DEF SessionNext

(* The invariant of the session holds throughout. *)
LEMMA SessionAlways == SessionSpec => []SessionInv
BY SessionStarts, SessionKept, PTL DEF SessionSpec

(* Whatever the agent does, converse never waits for a response nobody     *)
(* owes it (rpc.go start, readLoop).                                       *)
THEOREM NobodyWaitsInVain == SessionSpec => []WaitsForSomething
<1>1. SessionInv => WaitsForSomething
  BY DEF SessionInv, Waits, WaitsForSomething
<1> QED BY <1>1, SessionAlways, PTL

(* Turns follow each other, and an interrupt stops the turn it was meant   *)
(* for or none (acp.go converse).                                          *)
THEOREM TurnsDoNotOverlap == SessionSpec => []OneTurnAtATime
<1>1. ASSUME SessionInv
      PROVE  OneTurnAtATime
  <2>1. ASSUME toAgent # <<>>, NEW m, m = Head(toAgent)
        PROVE  /\ m.what = "prompt" => working = 0
               /\ m.what = "cancel" /\ working # 0 => m.id = working
    <3>1. m = toAgent[1] /\ 1 \in DOMAIN toAgent
      BY <1>1, <2>1, Shorter DEF SessionInv, SessionTyped
    <3> QED BY <1>1, <3>1 DEF SessionInv, TurnsSound, IsPrompt
  <2>2. place = "turn" => cancels = IF \E i \in DOMAIN held : held[i] \in Interrupts THEN 1 ELSE 0
    BY <1>1 DEF SessionInv, CancelsSound
  <2> QED BY <2>1, <2>2 DEF OneTurnAtATime
<1> QED BY <1>1, SessionAlways, PTL

-----------------------------------------------------------------------------
(* The sink. *)

(* The channel is closed when nobody adds, and run ends when it is empty.  *)
SinkSound ==
  /\ sinkClosed => closing /\ adding = {}
  /\ sinkDone => sinkClosed /\ in = <<>> /\ pend = <<>>
  /\ onErrors = IF sinkErr THEN 1 ELSE 0
  /\ \A p \in adding : /\ said[p] + 1 \in DOMAIN Output[p]
                       /\ IsEvent(Output[p][said[p] + 1])

SinkInv == SinkTypeOK /\ SinkSound

(* Of these events the first are taken and the others left, because the    *)
(* Handler fails or has failed.                                            *)
TakenOf(events, taken, left) ==
  /\ events = taken \o left /\ emitted' = emitted \o taken
  /\ sinkErr => taken = <<>> /\ sinkErr'
  /\ ~sinkErr => (sinkErr' <=> left # <<>>)
  /\ sinkErr' \in BOOLEAN /\ onErrors' = IF sinkErr' THEN 1 ELSE 0

(* What sends leave of the events they are given: some of the first.       *)
LEMMA SendsIs ==
  ASSUME SinkInv, NEW a \in Seq(Pieces), NEW b \in Seq(Pieces), Sends(a, b)
  PROVE  \E taken, left \in Seq(Pieces) : TakenOf(a \o b, taken, left)
<1>1. /\ emitted \in Seq(Pieces) /\ sinkErr \in BOOLEAN /\ onErrors = IF sinkErr THEN 1 ELSE 0
  BY DEF SinkInv, SinkTypeOK, SinkSound
<1>2. a \o b \in Seq(Pieces) /\ <<>> \in Seq(Pieces)
  BY ConcatProperties, EmptySeq
<1>3. CASE sinkErr
  <2>1. UNCHANGED sendVars
    BY <1>3 DEF Sends, Send
  <2>2. a \o b = <<>> \o (a \o b) /\ emitted = emitted \o <<>>
    BY <1>1, <1>2, ConcatEmptySeq
  <2>3. TakenOf(a \o b, <<>>, a \o b)
    BY <1>1, <1>3, <2>1, <2>2 DEF sendVars, TakenOf
  <2> QED BY <1>2, <2>3
<1>4. CASE ~sinkErr
  <2>1. PICK taken \in {<<>>, a, a \o b} : Send(a \o b, taken)
    BY DEF Sends
  <2>2. /\ emitted' = emitted \o taken /\ sinkErr' = (taken # a \o b)
        /\ onErrors' = IF sinkErr' THEN onErrors + 1 ELSE onErrors
    BY <1>4, <2>1 DEF Send
  <2>3. sinkErr' \in BOOLEAN /\ onErrors' = IF sinkErr' THEN 1 ELSE 0
    BY <1>1, <1>4, <2>2
  <2>4. \E left \in Seq(Pieces) : a \o b = taken \o left /\ (left = <<>> <=> taken = a \o b)
    <3>1. /\ a \o b = <<>> \o (a \o b) /\ a \o b = (a \o b) \o <<>> /\ a \o <<>> = a
      BY <1>2, ConcatEmptySeq
    <3>2. (a \o b = a) <=> b = <<>>
      BY ConcatEqualIffEmpty
    <3>3. CASE taken = <<>>
      BY <1>2, <3>1, <3>3
    <3>4. CASE taken = a
      BY <3>2, <3>4
    <3>5. CASE taken = a \o b
      BY <1>2, <3>1, <3>5
    <3> QED BY <2>1, <3>3, <3>4, <3>5
  <2>5. PICK left \in Seq(Pieces) : a \o b = taken \o left /\ (left = <<>> <=> taken = a \o b)
    BY <2>4
  <2>6. TakenOf(a \o b, taken, left)
    BY <1>4, <2>2, <2>3, <2>5 DEF TakenOf
  <2>7. taken \in Seq(Pieces)
    BY <1>2, <2>1
  <2> QED BY <2>5, <2>6, <2>7
<1> QED BY <1>1, <1>3, <1>4

(* What run does with what it takes: some of the events that it was given  *)
(* are sent, the others pend.                                              *)
LEMMA TakeIs ==
  ASSUME SinkInv, Take
  PROVE  /\ UNCHANGED <<said, adding, closing, sinkClosed, sinkDone>>
         /\ in \in Seq(Pieces) /\ pend \in Seq(Pieces) /\ in' \in Seq(Pieces) /\ pend' \in Seq(Pieces)
         /\ Len(in') <= SinkBuffer
         /\ \/ pend' \o in' = pend \o in /\ UNCHANGED sendVars
            \/ \E a, b \in Seq(Pieces) : Sends(a, b) /\ pend \o in = (a \o b) \o (pend' \o in')
<1>. DEFINE ev == Head(in)
            t == Tail(in)
<1>1. /\ in \in Seq(Pieces) /\ pend \in Seq(Pieces) /\ in # <<>> /\ in' = t
      /\ <<>> \in Seq(Pieces) /\ Len(in) <= SinkBuffer
  BY EmptySeq DEF Take, SinkInv, SinkTypeOK
<1>2. ev \in Pieces /\ t \in Seq(Pieces) /\ Len(t) <= SinkBuffer
  BY <1>1, HeadTailProperties, LenProperties, SinkAssumption
<1>3. <<ev>> \in Seq(Pieces) /\ Merged(ev) \in Seq(Pieces) /\ Merged(ev) = pend \o <<ev>>
  BY <1>1, <1>2, AppendProperties, AppendIsConcat DEF Merged
<1>4. in = <<ev>> \o t
  <2>1. Len(in) \in Nat \ {0}
    BY <1>1, EmptySeq
  <2>2. SubSeq(in, 1, Len(in)) = <<in[1]>> \o SubSeq(in, 2, Len(in))
    BY <1>1, <2>1, SubSeqRecursiveFirst
  <2> QED BY <1>1, <2>1, <2>2, SubSeqFull, TailIsSubSeq
<1>. HIDE DEF ev, t
<1>5. pend \o in = (pend \o <<ev>>) \o t
  BY <1>1, <1>2, <1>3, <1>4, ConcatAssociative
<1>6. UNCHANGED <<said, adding, closing, sinkClosed, sinkDone>>
  BY DEF Take
<1>7. \/ pend' = Merged(ev) /\ UNCHANGED sendVars
      \/ pend' = <<>> /\ Sends(Merged(ev), <<>>)
      \/ pend' = <<ev>> /\ Sends(pend, <<>>)
      \/ pend' = <<>> /\ Sends(pend, <<ev>>)
  BY DEF Take, ev, Nothing
<1>8. CASE pend' = Merged(ev) /\ UNCHANGED sendVars
  BY <1>1, <1>2, <1>3, <1>5, <1>6, <1>8
<1>9. CASE pend' = <<>> /\ Sends(Merged(ev), <<>>)
  <2>1. Merged(ev) \o <<>> = Merged(ev) /\ pend' \o in' = t
    BY <1>1, <1>2, <1>3, <1>9, ConcatEmptySeq
  <2> QED BY <1>1, <1>2, <1>3, <1>5, <1>6, <1>9, <2>1
<1>10. CASE pend' = <<ev>> /\ Sends(pend, <<>>)
  <2>1. pend \o <<>> = pend /\ pend' \o in' = in
    BY <1>1, <1>4, <1>10, ConcatEmptySeq
  <2> QED BY <1>1, <1>2, <1>3, <1>6, <1>10, <2>1
<1>11. CASE pend' = <<>> /\ Sends(pend, <<ev>>)
  <2>1. pend' \o in' = t
    BY <1>1, <1>2, <1>11, ConcatEmptySeq
  <2> QED BY <1>1, <1>2, <1>3, <1>5, <1>6, <1>11, <2>1
<1> QED BY <1>7, <1>8, <1>9, <1>10, <1>11


(* The first part of two sequences, and the second.                        *)
LEMMA PartsAre ==
  ASSUME NEW S, NEW s \in Seq(S), NEW t \in Seq(S)
  PROVE  /\ SubSeq(s \o t, 1, Len(s)) = s
         /\ SubSeq(s \o t, Len(s) + 1, Len(s \o t)) = t
<1>1. /\ Len(s) \in Nat /\ Len(t) \in Nat /\ s \o t \in Seq(S)
      /\ Len(s \o t) = Len(s) + Len(t)
      /\ \A i \in 1..(Len(s) + Len(t)) :
           (s \o t)[i] = IF i <= Len(s) THEN s[i] ELSE t[i - Len(s)]
  BY LenProperties, ConcatProperties
<1>. DEFINE u == s \o t
<1>2. \A i \in 1..Len(u) : u[i] \in S
  BY <1>1, ElementOfSeq
<1>. HIDE DEF u
<1>3. SubSeq(u, 1, Len(s)) = s
  <2>. DEFINE v == SubSeq(u, 1, Len(s))
  <2>1. /\ v \in Seq(S) /\ Len(v) = Len(s)
        /\ \A i \in 1..Len(s) : v[i] = u[i]
    <3>1. \A i \in 1..Len(s) : u[i] \in S
      BY <1>1, <1>2 DEF u
    <3>2. /\ v \in Seq(S) /\ Len(v) = IF 1 <= Len(s) THEN Len(s) - 1 + 1 ELSE 0
          /\ \A i \in 1..(Len(s) - 1 + 1) : v[i] = u[1 + i - 1]
      BY <1>1, <3>1, SubSeqProperties
    <3>. HIDE DEF v
    <3>3. Len(v) = Len(s)
      BY <1>1, <3>2
    <3>4. \A i \in 1..Len(s) : i \in 1..(Len(s) - 1 + 1) /\ 1 + i - 1 = i
      BY <1>1
    <3> QED BY <3>2, <3>3, <3>4
  <2>. HIDE DEF v
  <2>2. \A i \in 1..Len(v) : v[i] = s[i]
    BY <1>1, <2>1 DEF u
  <2>3. v = s
    BY <2>1, <2>2, SeqEqual
  <2> QED BY <2>3 DEF v
<1>4. SubSeq(u, Len(s) + 1, Len(u)) = t
  <2>. DEFINE m == Len(s) + 1
              n == Len(u)
              v == SubSeq(u, m, n)
  <2>1. /\ m \in Int /\ n \in Int /\ n - m + 1 = Len(t)
        /\ \A i \in m..n : u[i] \in S
    BY <1>1, <1>2 DEF u
  <2>2. /\ v \in Seq(S) /\ Len(v) = IF m <= n THEN n - m + 1 ELSE 0
        /\ \A i \in 1..(n - m + 1) : v[i] = u[m + i - 1]
    <3>. HIDE DEF m, n
    <3> QED BY <2>1, SubSeqProperties
  <2>. HIDE DEF v
  <2>3. Len(v) = Len(t)
    BY <1>1, <2>1, <2>2 DEF u
  <2>4. \A i \in 1..Len(v) : v[i] = t[i]
    <3>1. ASSUME NEW i \in 1..Len(v) PROVE v[i] = t[i]
      <4>1. v[i] = u[m + i - 1]
        BY <2>1, <2>2, <2>3
      <4>2. m + i - 1 = Len(s) + i /\ Len(s) + i \in 1..(Len(s) + Len(t)) /\ ~(Len(s) + i <= Len(s))
            /\ (Len(s) + i) - Len(s) = i
        BY <1>1, <2>3
      <4> QED BY <1>1, <4>1, <4>2 DEF u
    <3> QED BY <3>1
  <2>5. v = t
    BY <2>2, <2>3, <2>4, SeqEqual
  <2> QED BY <2>5 DEF v
<1> QED BY <1>3, <1>4 DEF u

Regroups(s, t, u) == (s \o t) \o u = s \o (t \o u)

(* Parts of the output may be put together in either order. *)
LEMMA Associative == \A s, t, u \in Seq(Pieces) : Regroups(s, t, u)
<1>1. \A s, t, u \in Seq(Pieces) : (s \o t) \o u = s \o (t \o u)
  BY ConcatAssociative
<1> QED BY <1>1 DEF Regroups

(* Sends settle what they were given. *)
LEMMA SendsSettle ==
  ASSUME SinkInv, NEW a \in Seq(Pieces), NEW b \in Seq(Pieces), NEW rest \in Seq(Pieces),
         Sends(a, b)
  PROVE  pend \o in = (a \o b) \o rest /\ pend' \o in' = rest =>
         \E n \in 0..Len(pend \o in), k \in 0..Len(pend \o in) :
            /\ k <= n /\ Pipe!Settle(k, n) /\ n = Len(a \o b)
<1>0. PICK taken, left \in Seq(Pieces) : TakenOf(a \o b, taken, left)
  BY SendsIs
<1>1.   /\ a \o b = taken \o left /\ emitted' = emitted \o taken
        /\ sinkErr => taken = <<>> /\ sinkErr'
        /\ ~sinkErr => (sinkErr' <=> left # <<>>)
        /\ sinkErr' \in BOOLEAN /\ onErrors' = IF sinkErr' THEN 1 ELSE 0
  BY <1>0 DEF TakenOf
<1>2. /\ Len(taken) \in Nat /\ Len(left) \in Nat /\ Len(rest) \in Nat
      /\ taken \o left \in Seq(Pieces) /\ left \o rest \in Seq(Pieces)
      /\ Len(taken \o left) = Len(taken) + Len(left)
      /\ (left = <<>> <=> Len(left) = 0) /\ (taken = <<>> => Len(taken) = 0)
  BY LenProperties, ConcatProperties, EmptySeq
<1>a. (taken \o left) \o rest = taken \o (left \o rest)
  <2>1. Regroups(taken, left, rest)
    BY Associative
  <2> QED BY <2>1 DEF Regroups
<1>b. SUFFICES ASSUME pend \o in = (a \o b) \o rest, pend' \o in' = rest
               PROVE  \E n \in 0..Len(pend \o in), k \in 0..Len(pend \o in) :
                        k <= n /\ Pipe!Settle(k, n) /\ n = Len(a \o b)
  OBVIOUS
<1>. DEFINE owed == pend \o in
            n == Len(a \o b)
            k == Len(taken)
<1>3. /\ owed = (a \o b) \o rest /\ owed = taken \o (left \o rest)
      /\ Len(owed) = n + Len(rest)
  <2>1. a \o b \in Seq(Pieces)
    BY ConcatProperties
  <2>2. owed = (a \o b) \o rest
    BY <1>b
  <2>4. Len((a \o b) \o rest) = n + Len(rest)
    BY <2>1, ConcatProperties
  <2> QED BY <1>1, <1>a, <2>2, <2>4
<1>4. /\ SubSeq(owed, 1, k) = taken /\ SubSeq(owed, n + 1, Len(owed)) = rest
  <2>1. SubSeq(owed, 1, k) = taken
    BY <1>2, <1>3, PartsAre
  <2>2. SubSeq(owed, n + 1, Len(owed)) = rest
    <3>1. a \o b \in Seq(Pieces)
      BY ConcatProperties
    <3>2. SubSeq((a \o b) \o rest, Len(a \o b) + 1, Len((a \o b) \o rest)) = rest
      BY <3>1, PartsAre
    <3> QED BY <1>3, <3>2
  <2> QED BY <2>1, <2>2
<1>5. k \in 0..Len(owed) /\ n \in 0..Len(owed) /\ k <= n /\ (k < n <=> left # <<>>)
  BY <1>1, <1>2, <1>3
<1>6. sinkErr \in BOOLEAN
  BY DEF SinkInv, SinkTypeOK
<1>7. /\ sinkErr => k = 0
      /\ sinkErr' = (sinkErr \/ k < n)
  <2>1. CASE sinkErr
    BY <1>1, <1>2, <2>1
  <2>2. CASE ~sinkErr
    BY <1>1, <1>5, <2>2
  <2> QED BY <2>1, <2>2
<1>8. Pipe!Settle(k, n)
  BY <1>1, <1>b, <1>4, <1>7 DEF Pipe!Settle
<1> QED BY <1>5, <1>8

(* A step of the sink is one of the pipe, or nothing the pipe sees. *)
LEMMA SinkImplements ==
  ASSUME SinkInv, [SinkNext]_sinkVars
  PROVE  [Pipe!PipeNext]_(Pipe!pipeVars)
<1>. DEFINE Same == UNCHANGED <<pend, in, emitted, sinkErr, sinkDone>>
<1>1. /\ in \in Seq(Pieces) /\ pend \in Seq(Pieces) /\ <<>> \in Seq(Pieces)
  BY EmptySeq DEF SinkInv, SinkTypeOK
<1>2. Same => UNCHANGED Pipe!pipeVars
  BY DEF Pipe!pipeVars
<1>3. ASSUME NEW p \in Producers, Add(p) PROVE Same
  BY <1>3 DEF Add, sendVars
<1>4. CASE CloseSink \/ CloseIn \/ UNCHANGED sinkVars
  <2>1. Same
    BY <1>4 DEF CloseSink, CloseIn, sinkVars, sendVars
  <2> QED BY <1>2, <2>1
<1>5. ASSUME NEW p \in Producers, Put(p) PROVE Pipe!PipeNext
  <2>. DEFINE i == said[p] + 1
              e == Event(Output[p][i])
  <2>1. i \in DOMAIN Output[p] /\ IsEvent(Output[p][i]) /\ ~sinkDone
    BY <1>5 DEF SinkInv, SinkSound, Put
  <2>2. e \in Pieces
    BY <2>1 DEF Pieces, Given
  <2>3. in' = Append(in, e) /\ UNCHANGED <<pend, emitted, sinkErr, sinkDone>>
    BY <1>5 DEF Put, sendVars
  <2>. HIDE DEF e
  <2>4. pend' \o in' = Append(pend \o in, e)
    <3>1. /\ Append(in, e) = in \o <<e>> /\ <<e>> \in Seq(Pieces)
          /\ pend \o in \in Seq(Pieces)
      BY <1>1, <2>2, AppendIsConcat, ConcatProperties
    <3>2. Append(pend \o in, e) = (pend \o in) \o <<e>>
      BY <2>2, <3>1, AppendIsConcat
    <3> QED BY <1>1, <2>3, <3>1, <3>2, ConcatAssociative
  <2>5. Pipe!Accept(e)
    BY <2>1, <2>3, <2>4 DEF Pipe!Accept
  <2> QED BY <2>2, <2>5 DEF Pipe!PipeNext
<1>6. ASSUME NEW a \in Seq(Pieces), NEW b \in Seq(Pieces), NEW rest \in Seq(Pieces),
             Sends(a, b), pend \o in = (a \o b) \o rest, pend' \o in' = rest, sinkDone' = sinkDone
      PROVE  [Pipe!PipeNext]_(Pipe!pipeVars)
  <2>1. PICK n \in 0..Len(pend \o in), k \in 0..Len(pend \o in) :
          k <= n /\ Pipe!Settle(k, n) /\ n = Len(a \o b)
    BY <1>6, SendsSettle
  <2>2. Len(pend \o in) \in Nat /\ a \o b \in Seq(Pieces)
    BY <1>1, ConcatProperties, LenProperties
  <2>3. CASE n # 0
    <3>1. n \in 1..Len(pend \o in)
      BY <2>2, <2>3
    <3> QED BY <1>6, <2>1, <3>1 DEF Pipe!PipeNext
  <2>4. CASE n = 0
    <3>1. a \o b = <<>>
      BY <2>1, <2>2, <2>4, EmptySeq
    <3>2. pend' \o in' = pend \o in
      BY <1>6, <3>1, ConcatEmptySeq
    <3>0. PICK taken, left \in Seq(Pieces) : TakenOf(a \o b, taken, left)
      BY <1>6, SendsIs
    <3>3. /\ a \o b = taken \o left /\ emitted' = emitted \o taken
          /\ sinkErr => taken = <<>> /\ sinkErr'
          /\ ~sinkErr => (sinkErr' <=> left # <<>>)
          /\ sinkErr' \in BOOLEAN
      BY <3>0 DEF TakenOf
    <3>4. taken = <<>> /\ left = <<>>
      BY <3>1, <3>3, ConcatEqualIffEmpty
    <3>5. emitted' = emitted
      BY <3>3, <3>4, ConcatEmptySeq DEF SinkInv, SinkTypeOK
    <3>6. sinkErr' = sinkErr
      BY <3>3, <3>4 DEF SinkInv, SinkTypeOK
    <3> QED BY <1>6, <3>2, <3>5, <3>6 DEF Pipe!pipeVars
  <2> QED BY <2>3, <2>4
<1>7. CASE Take
  <2>1. /\ UNCHANGED <<said, adding, closing, sinkClosed, sinkDone>>
        /\ in' \in Seq(Pieces) /\ pend' \in Seq(Pieces)
        /\ \/ pend' \o in' = pend \o in /\ UNCHANGED sendVars
           \/ \E a, b \in Seq(Pieces) : Sends(a, b) /\ pend \o in = (a \o b) \o (pend' \o in')
    BY <1>7, TakeIs
  <2>2. pend' \o in' \in Seq(Pieces)
    BY <2>1, ConcatProperties
  <2>3. CASE pend' \o in' = pend \o in /\ UNCHANGED sendVars
    BY <2>1, <2>3 DEF Pipe!pipeVars, sendVars
  <2> QED BY <1>6, <2>1, <2>2, <2>3
<1>8. CASE Flush
  <2>1. Sends(pend, <<>>) /\ pend' = <<>> /\ UNCHANGED <<in, sinkDone>>
    BY <1>8 DEF Flush, Nothing
  <2>2. pend \o in = (pend \o <<>>) \o in /\ pend' \o in' = in
    BY <1>1, <2>1, ConcatEmptySeq
  <2> QED BY <1>1, <1>6, <2>1, <2>2
<1>9. CASE Drained
  <2>1. Sends(pend, <<>>) /\ pend' = <<>> /\ in = <<>> /\ in' = <<>> /\ sinkDone' = TRUE
    BY <1>9 DEF Drained, Nothing
  <2>2. pend \o in = (pend \o <<>>) \o <<>> /\ pend' \o in' = <<>> /\ pend \o <<>> = pend
        /\ pend \o in = pend
    BY <1>1, <2>1, ConcatEmptySeq
  <2>3. PICK n \in 0..Len(pend \o in), k \in 0..Len(pend \o in) :
          k <= n /\ Pipe!Settle(k, n) /\ n = Len(pend \o <<>>)
    BY <1>1, <2>1, <2>2, SendsSettle
  <2>4. n = Len(pend \o in)
    BY <2>2, <2>3
  <2>5. Pipe!Finish
    BY <2>1, <2>3, <2>4 DEF Pipe!Finish
  <2> QED BY <2>5 DEF Pipe!PipeNext
<1> QED BY <1>2, <1>3, <1>4, <1>5, <1>7, <1>8, <1>9 DEF SinkNext, SinkStep

(* An empty channel, and nobody adds. *)
LEMMA SinkStarts == SinkInit => SinkInv
<1>1. <<>> \in Seq(Pieces) /\ Len(<<>>) = 0 /\ SinkBuffer \in Nat
  BY EmptySeq, SinkAssumption
<1>2. SinkInit => SinkTypeOK
  <2>. SUFFICES ASSUME SinkInit PROVE SinkTypeOK
    OBVIOUS
  <2>1. said \in [Producers -> Nat] /\ adding \subseteq Producers
    BY DEF SinkInit
  <2>2. /\ in \in Seq(Pieces) /\ Len(in) <= SinkBuffer
        /\ pend \in Seq(Pieces) /\ emitted \in Seq(Pieces)
    BY <1>1 DEF SinkInit, Nothing
  <2>3. /\ sinkErr \in BOOLEAN /\ onErrors \in {0, 1}
        /\ closing \in BOOLEAN /\ sinkClosed \in BOOLEAN /\ sinkDone \in BOOLEAN
    BY DEF SinkInit
  <2> QED BY <2>1, <2>2, <2>3 DEF SinkTypeOK
<1>3. SinkInit => SinkSound
  BY DEF SinkInit, SinkSound, Nothing
<1> QED BY <1>2, <1>3 DEF SinkInv

(* What was sent adds to what the Handler took. *)
LEMMA SendsType ==
  ASSUME SinkInv, NEW a \in Seq(Pieces), NEW b \in Seq(Pieces), Sends(a, b)
  PROVE  /\ emitted' \in Seq(Pieces) /\ sinkErr' \in BOOLEAN
         /\ onErrors' = IF sinkErr' THEN 1 ELSE 0
<1>0. PICK taken, left \in Seq(Pieces) : TakenOf(a \o b, taken, left)
  BY SendsIs
<1>1.   /\ a \o b = taken \o left /\ emitted' = emitted \o taken
        /\ sinkErr => taken = <<>> /\ sinkErr'
        /\ ~sinkErr => (sinkErr' <=> left # <<>>)
        /\ sinkErr' \in BOOLEAN /\ onErrors' = IF sinkErr' THEN 1 ELSE 0
  BY <1>0 DEF TakenOf
<1>2. emitted \in Seq(Pieces)
  BY DEF SinkInv, SinkTypeOK
<1>3. emitted \o taken \in Seq(Pieces)
  BY <1>2, ConcatProperties
<1> QED BY <1>1, <1>3

(* Every step keeps the invariant of the sink. *)
LEMMA SinkKeeps == SinkInv /\ [SinkNext]_sinkVars => SinkInv'
<1>. SUFFICES ASSUME SinkInv, [SinkNext]_sinkVars PROVE SinkInv'
  OBVIOUS
<1>1. ASSUME NEW p \in Producers, Add(p) PROVE SinkInv'
  <2>1. UNCHANGED <<in, pend, emitted, sinkErr, onErrors, closing, sinkClosed, sinkDone>>
    BY <1>1 DEF Add, sendVars
  <2>2. CASE sinkClosed \/ ~IsEvent(Output[p][said[p] + 1])
    <3>1. said' = [said EXCEPT ![p] = @ + 1] /\ adding' = adding /\ p \notin adding
      BY <1>1, <2>2 DEF Add
    <3>2. said' \in [Producers -> Nat]
      BY <3>1 DEF SinkInv, SinkTypeOK
    <3>3. \A q \in adding' : said'[q] = said[q]
      BY <3>1 DEF SinkInv, SinkTypeOK
    <3> QED BY <2>1, <3>1, <3>2, <3>3 DEF SinkInv, SinkTypeOK, SinkSound
  <2>3. CASE ~(sinkClosed \/ ~IsEvent(Output[p][said[p] + 1]))
    <3>1. said' = said /\ adding' = adding \cup {p} /\ ~sinkClosed /\ said[p] < Len(Output[p])
      BY <1>1, <2>3 DEF Add
    <3>2. said[p] + 1 \in DOMAIN Output[p]
      <4>1. Output[p] \in Seq([update : STRING, text : STRING])
        BY SinkAssumption DEF Producers
      <4>2. DOMAIN Output[p] = 1..Len(Output[p]) /\ Len(Output[p]) \in Nat
        BY <4>1, LenProperties
      <4>3. said[p] \in Nat
        BY DEF SinkInv, SinkTypeOK
      <4> QED BY <3>1, <4>2, <4>3
    <3>3. SinkTypeOK'
      BY <2>1, <3>1 DEF SinkInv, SinkTypeOK
    <3>4. SinkSound'
      BY <2>1, <2>3, <3>1, <3>2 DEF SinkInv, SinkTypeOK, SinkSound
    <3> QED BY <3>3, <3>4 DEF SinkInv
  <2> QED BY <2>2, <2>3
<1>2. ASSUME NEW p \in Producers, Put(p) PROVE SinkInv'
  <2>. DEFINE i == said[p] + 1
              e == Event(Output[p][i])
  <2>1. i \in DOMAIN Output[p] /\ IsEvent(Output[p][i]) /\ ~sinkDone /\ ~sinkClosed
    BY <1>2 DEF SinkInv, SinkSound, Put
  <2>2. e \in Pieces
    BY <2>1 DEF Pieces, Given
  <2>3. /\ in' = Append(in, e) /\ said' = [said EXCEPT ![p] = @ + 1] /\ adding' = adding \ {p}
        /\ Len(in) < SinkBuffer
        /\ UNCHANGED <<pend, emitted, sinkErr, onErrors, closing, sinkClosed, sinkDone>>
    BY <1>2 DEF Put, sendVars
  <2>. HIDE DEF e
  <2>4. in' \in Seq(Pieces) /\ Len(in') <= SinkBuffer
    <3>1. in \in Seq(Pieces) /\ Len(in) \in Nat
      BY LenProperties DEF SinkInv, SinkTypeOK
    <3>2. Append(in, e) \in Seq(Pieces) /\ Len(Append(in, e)) = Len(in) + 1
      BY <2>2, <3>1, AppendProperties
    <3> QED BY <2>3, <3>1, <3>2, SinkAssumption
  <2>5. said' \in [Producers -> Nat] /\ \A q \in adding' : said'[q] = said[q]
    BY <2>3 DEF SinkInv, SinkTypeOK
  <2> QED BY <2>1, <2>3, <2>4, <2>5 DEF SinkInv, SinkTypeOK, SinkSound
<1>3. CASE Take
  <2>1. /\ UNCHANGED <<said, adding, closing, sinkClosed, sinkDone>>
        /\ in' \in Seq(Pieces) /\ pend' \in Seq(Pieces) /\ Len(in') <= SinkBuffer
        /\ UNCHANGED sendVars \/ \E a, b \in Seq(Pieces) : Sends(a, b)
    BY <1>3, TakeIs
  <2>2. ~sinkDone
    BY <1>3 DEF Take, SinkInv, SinkSound
  <2>3. /\ emitted' \in Seq(Pieces) /\ sinkErr' \in BOOLEAN
        /\ onErrors' = IF sinkErr' THEN 1 ELSE 0
    <3>1. CASE UNCHANGED sendVars
      BY <3>1 DEF sendVars, SinkInv, SinkTypeOK, SinkSound
    <3>2. ASSUME NEW a \in Seq(Pieces), NEW b \in Seq(Pieces), Sends(a, b)
          PROVE  /\ emitted' \in Seq(Pieces) /\ sinkErr' \in BOOLEAN
                 /\ onErrors' = IF sinkErr' THEN 1 ELSE 0
      BY <3>2, SendsType
    <3> QED BY <2>1, <3>1, <3>2
  <2> QED BY <2>1, <2>2, <2>3 DEF SinkInv, SinkTypeOK, SinkSound
<1>4. CASE Flush \/ Drained
  <2>1. /\ Sends(pend, <<>>) /\ pend' = <<>> /\ in' = in
        /\ UNCHANGED <<said, adding, closing, sinkClosed>>
        /\ sinkDone' = sinkDone \/ (sinkDone' = TRUE /\ sinkClosed /\ in = <<>>)
    BY <1>4 DEF Flush, Drained, Nothing
  <2>2. /\ emitted' \in Seq(Pieces) /\ sinkErr' \in BOOLEAN
        /\ onErrors' = IF sinkErr' THEN 1 ELSE 0
    <3>1. pend \in Seq(Pieces) /\ <<>> \in Seq(Pieces)
      BY EmptySeq DEF SinkInv, SinkTypeOK
    <3> QED BY <2>1, <3>1, SendsType
  <2>3. <<>> \in Seq(Pieces)
    BY EmptySeq
  <2>4. SinkTypeOK'
    BY <2>1, <2>2, <2>3 DEF SinkInv, SinkTypeOK
  <2>5. SinkSound'
    BY <2>1, <2>2 DEF SinkInv, SinkTypeOK, SinkSound
  <2> QED BY <2>4, <2>5 DEF SinkInv
<1>5. CASE CloseIn \/ CloseSink
  <2>1. /\ UNCHANGED <<said, in, pend, emitted, sinkErr, onErrors, sinkDone>> /\ adding' = adding
        /\ closing' = TRUE /\ sinkClosed' \in BOOLEAN
        /\ sinkClosed' = sinkClosed \/ adding = {}
        /\ sinkClosed => sinkClosed'
    BY <1>5 DEF CloseIn, CloseSink, SinkInv, SinkTypeOK, SinkSound, sendVars
  <2>2. SinkTypeOK'
    BY <2>1 DEF SinkInv, SinkTypeOK
  <2>3. SinkSound'
    BY <2>1 DEF SinkInv, SinkTypeOK, SinkSound
  <2> QED BY <2>2, <2>3 DEF SinkInv
<1>6. CASE UNCHANGED sinkVars
  BY <1>6 DEF sinkVars, SinkInv, SinkTypeOK, SinkSound
<1> QED BY <1>1, <1>2, <1>3, <1>4, <1>5, <1>6 DEF SinkNext, SinkStep

(* run and add pass the agent's output on: each event that is added is     *)
(* shown once, in the order in which they were added, until the Handler    *)
(* fails, and close returns when none is owed.                             *)
THEOREM OutputStaysInOrder == SinkSpec => OutputInOrder
<1>1. SinkInit => Pipe!PipeInit
  BY EmptySeq, ConcatEmptySeq DEF SinkInit, Pipe!PipeInit, Nothing
<1>2. SinkInv /\ [SinkNext]_sinkVars => [Pipe!PipeNext]_(Pipe!pipeVars)
  BY SinkImplements
<1> QED BY <1>1, <1>2, SinkStarts, SinkKeeps, PTL DEF SinkSpec, OutputInOrder, Pipe!PipeSpec

(* The channel never holds more than it has room for, and the session is   *)
(* told of a failure once.                                                 *)
THEOREM SinkTypeCorrect == SinkSpec => []SinkTypeOK
<1>1. SinkInv => SinkTypeOK
  BY DEF SinkInv
<1> QED BY <1>1, SinkStarts, SinkKeeps, PTL DEF SinkSpec
=============================================================================
