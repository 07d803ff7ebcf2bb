------------------------------- MODULE Session -------------------------------
(***************************************************************************)
(* One conversation with a coding agent over JSON-RPC on its stdin and     *)
(* stdout: the calls that open a session, the prompt turns with what       *)
(* people say meanwhile, the permissions the agent asks for, and the       *)
(* agent's exit, a broken stream, a canceled Run or a Handler that failed  *)
(* at any moment.                                                          *)
(***************************************************************************)
EXTENDS Naturals, Sequences, FiniteSets

CONSTANTS
  Messages,    \* what people say to the agent while it works ...
  Interrupts   \* ... some of it interrupting its turn

ASSUME SessionAssumption == IsFiniteSet(Messages) /\ Interrupts \subseteq Messages

(* initialize, session/new, authenticate, session/new again, mode, and a   *)
(* turn for the prompt and for each message at most.                       *)
MaxCalls == 6 + Cardinality(Messages)
Calls == 1..MaxCalls
NoReply == "none"

VARIABLES
  asks,        \* the Project's agents ask before they act (cfg.Ask)
  place,       \* where converse is
  nextID,      \* the last request's id, the one converse waits on
  pending,     \* requests the peer owes a response
  answer,      \* what is in each request's channel
  closed,      \* the read loop ended
  ctx,         \* "live", or "stopped": canceled, timed out, Handler failed
  outcome,     \* of converse: "none", "ok", "error", "stopped"
  toAgent,     \* the agent's stdin
  toClient,    \* the agent's stdout
  agentUp,     \* the agent's process
  working,     \* the turn the agent works on, 0 for none
  cancelled,   \* that turn was canceled, as the agent knows
  steer,       \* messages in the channel from the Run's listener
  unsaid,      \* messages people have not sent yet
  held,        \* messages for the next turn
  heard,       \* messages sent in a turn
  interrupted, \* this turn was interrupted
  cancels,     \* session/cancel notifications sent during this turn
  question     \* a permission: "none", "sent", "asked", "allowed", "refused"

connVars == <<nextID, pending, answer, closed>>
agentVars == <<agentUp, working, cancelled>>
steerVars == <<steer, unsaid, held, heard, interrupted, cancels>>
sessionVars == <<asks, place, connVars, ctx, outcome, toAgent, toClient, agentVars, steerVars, question>>

Places == {"initialize", "new", "authenticate", "renew", "mode", "turn", "grace", "over"}

SessionInit ==
  /\ asks \in BOOLEAN
  /\ place = "initialize" /\ nextID = 1 /\ pending = {1}
  /\ answer = [c \in Calls |-> NoReply]
  /\ closed = FALSE /\ ctx = "live" /\ outcome = "none"
  /\ toAgent = <<[what |-> "call", id |-> 1]>> /\ toClient = <<>>
  /\ agentUp = TRUE /\ working = 0 /\ cancelled = FALSE
  /\ steer = <<>> /\ unsaid = Messages /\ held = <<>> /\ heard = {}
  /\ interrupted = FALSE /\ cancels = 0
  /\ question = "none"
-----------------------------------------------------------------------------
(* The client's side: calls.                                               *)

(* converse returns; explain prefers the reason the Run was stopped.       *)
Return(result) ==
  /\ place' = "over"
  /\ outcome' = result
  /\ UNCHANGED <<nextID, pending, answer, toAgent, cancels>>

Explain(result) == Return(IF ctx = "stopped" THEN "stopped" ELSE result)

(* start: registers the request and writes it, or fails when the peer is   *)
(* gone: converse explains that of a call, not of a prompt.                *)
Request(what, next) ==
  IF closed \/ ~agentUp
  THEN IF what = "call" THEN Explain("error") ELSE Return("error")
  ELSE /\ nextID' = nextID + 1
       /\ pending' = pending \cup {nextID'}
       /\ toAgent' = Append(toAgent, [what |-> what, id |-> nextID'])
       /\ place' = next
       /\ cancels' = 0
       /\ UNCHANGED <<answer, outcome>>

Prompt == Request("prompt", "turn")

Reply == answer[nextID]

(* The session is open: unattended, a mode that skips permissions is       *)
(* chosen if the agent offers one.                                         *)
Opened == IF asks THEN Prompt ELSE Prompt \/ Request("mode", "mode")

(* converse, on the response to the call it waits for. *)
Converse ==
  /\ Reply # NoReply
  /\ \/ /\ place = "initialize"
        /\ IF Reply = "ok" THEN Request("call", "new") \/ Return("error")
                           ELSE Explain("error")
     \/ /\ place = "new"
        /\ CASE Reply = "ok" -> Opened
             [] Reply = "login" -> Request("call", "authenticate") \/ Explain("error")
             [] OTHER -> Explain("error")
     \/ /\ place = "authenticate"
        /\ IF Reply = "ok" THEN Request("call", "renew") ELSE Explain("error")
     \/ /\ place = "renew"
        /\ IF Reply = "ok" THEN Opened ELSE Explain("error")
     \/ place = "mode" /\ Prompt
  /\ UNCHANGED <<asks, closed, ctx, toClient, agentVars, steer, unsaid, held, heard, interrupted, question>>

(* Mutant of Abandon: a call waits for its response whatever happens.      *)
AbandonLogin ==
  /\ place = "authenticate" /\ Explain("error")
  /\ UNCHANGED <<asks, closed, ctx, toClient, agentVars, steer, unsaid, held, heard, interrupted, question>>

(* A call that is not waited for any longer: its context ended, or         *)
(* authenticate took 30 s.  A mode that was not set is only logged.        *)
Abandon ==
  /\ \/ place \in {"initialize", "new", "renew"} /\ ctx = "stopped" /\ Explain("error")
     \/ place = "authenticate" /\ Explain("error")
     \/ place = "mode" /\ ctx = "stopped" /\ Prompt
  /\ UNCHANGED <<asks, closed, ctx, toClient, agentVars, steer, unsaid, held, heard, interrupted, question>>
-----------------------------------------------------------------------------
(* The client's side: the loop over turns.                                 *)

Cancel == toAgent' = IF agentUp THEN Append(toAgent, [what |-> "cancel", id |-> nextID]) ELSE toAgent

(* Mutant of Hear: any message cancels the turn. *)
HearAny ==
  /\ place = "turn" /\ steer # <<>>
  /\ steer' = Tail(steer)
  /\ held' = Append(held, Head(steer))
  /\ IF ~interrupted THEN interrupted' = TRUE /\ Cancel /\ cancels' = cancels + 1
                     ELSE UNCHANGED <<interrupted, toAgent, cancels>>
  /\ UNCHANGED <<asks, place, connVars, ctx, outcome, toClient, agentVars, unsaid, heard, question>>

(* A message: an interrupting one cancels the turn, once. *)
Hear ==
  /\ place = "turn" /\ steer # <<>>
  /\ steer' = Tail(steer)
  /\ held' = Append(held, Head(steer))
  /\ IF Head(steer) \in Interrupts /\ ~interrupted
     THEN interrupted' = TRUE /\ Cancel /\ cancels' = cancels + 1
     ELSE UNCHANGED <<interrupted, toAgent, cancels>>
  /\ UNCHANGED <<asks, place, connVars, ctx, outcome, toClient, agentVars, unsaid, heard, question>>

(* What people said is the next turn. *)
NextTurn ==
  /\ Prompt
  /\ IF place' = "turn"
     THEN /\ heard' = heard \cup {held[i] : i \in DOMAIN held}
          /\ held' = <<>> /\ interrupted' = FALSE
     ELSE UNCHANGED <<heard, held, interrupted>>

(* The turn ended. *)
TurnOver ==
  /\ place = "turn" /\ Reply # NoReply
  /\ IF Reply = "end_turn" \/ (Reply = "cancelled" /\ interrupted /\ held # <<>>)
     THEN IF held = <<>> THEN Return("ok") /\ UNCHANGED <<heard, held, interrupted>>
                         ELSE NextTurn
     ELSE /\ IF Reply = "refusal" THEN Return("error") ELSE Explain("error")
          /\ UNCHANGED <<heard, held, interrupted>>
  /\ UNCHANGED <<asks, closed, ctx, toClient, agentVars, steer, unsaid, question>>

(* The Run is stopped during a turn: the agent is asked to wind down ... *)
Stopping ==
  /\ place = "turn" /\ ctx = "stopped"
  /\ Cancel /\ cancels' = cancels + 1
  /\ place' = "grace"
  /\ UNCHANGED <<asks, connVars, ctx, outcome, toClient, agentVars, steer, unsaid, held, heard, interrupted, question>>

(* ... and has until it answers, is gone, or CancelGrace is over. *)
GraceOver ==
  /\ place = "grace"
  /\ Return("stopped")
  /\ UNCHANGED <<asks, closed, ctx, toClient, agentVars, steer, unsaid, held, heard, interrupted, question>>

(* Of a process that is gone, only what it wrote is left. *)
AgentGone ==
  /\ agentUp' = FALSE /\ toAgent' = <<>>
  /\ working' = 0 /\ cancelled' = FALSE

(* The conversation over, its context ends, and so does the process: stdin *)
(* is closed, then its process group is killed.                            *)
StopProcess ==
  /\ place = "over" /\ (agentUp \/ ctx = "live")
  /\ AgentGone /\ ctx' = "stopped"
  /\ UNCHANGED <<asks, place, connVars, outcome, toClient, steerVars, question>>
-----------------------------------------------------------------------------
(* The read loop and the goroutines that answer the agent's requests.      *)

ReadResponse(m) ==
  /\ m.what = "response"
  /\ IF m.id \in pending
     THEN /\ answer' = [answer EXCEPT ![m.id] = m.reply]
          /\ pending' = pending \ {m.id}
     ELSE UNCHANGED <<answer, pending>>
  /\ UNCHANGED question

ReadRequest(m) ==
  /\ m.what = "permission"
  /\ question' = "asked"
  /\ UNCHANGED <<answer, pending>>

Read ==
  /\ toClient # <<>> /\ ~closed
  /\ ReadResponse(Head(toClient)) \/ ReadRequest(Head(toClient))
  /\ toClient' = Tail(toClient)
  /\ UNCHANGED <<asks, place, nextID, closed, ctx, outcome, toAgent, agentVars, steerVars>>

(* Mutant of ReadEnds: those who wait are not told. *)
ReadEndsSilently ==
  /\ ~closed
  /\ closed' = TRUE /\ pending' = {}
  /\ UNCHANGED <<asks, place, nextID, answer, ctx, outcome, toAgent, toClient, agentVars, steerVars, question>>

(* The read loop ends: the agent is gone and all it wrote was read, or it  *)
(* wrote what is no message.  Every request still owed one gets an error.  *)
ReadEnds ==
  /\ ~closed
  /\ closed' = TRUE
  /\ answer' = [c \in Calls |-> IF c \in pending THEN "gone" ELSE answer[c]]
  /\ pending' = {}
  /\ UNCHANGED <<asks, place, nextID, ctx, outcome, toAgent, toClient, agentVars, steerVars, question>>

EndOfFile == ~agentUp /\ toClient = <<>> /\ ReadEnds
BadLine == agentUp /\ ReadEnds

(* permit: a person decides, or nobody any more; unattended, the first     *)
(* option that allows is taken.                                            *)
Permit ==
  /\ question = "asked"
  /\ question' \in IF asks /\ ctx = "stopped" THEN {"refused"} ELSE {"allowed", "refused"}
  /\ toAgent' = IF agentUp THEN Append(toAgent, [what |-> question', id |-> 0]) ELSE toAgent
  /\ UNCHANGED <<asks, place, connVars, ctx, outcome, toClient, agentVars, steerVars>>
-----------------------------------------------------------------------------
(* Around the session: the agent, people, the Run.                         *)

Says(m) == toClient' = Append(toClient, m)

(* The agent reads its next message.  It may answer a call in any way. *)
AgentReads ==
  /\ agentUp /\ toAgent # <<>>
  /\ toAgent' = Tail(toAgent)
  /\ LET m == Head(toAgent) IN
     \/ /\ m.what = "call"
        /\ \E r \in {"ok", "error", "login"} : Says([what |-> "response", id |-> m.id, reply |-> r])
        /\ UNCHANGED <<working, cancelled>>
     \/ /\ m.what = "mode"
        /\ Says([what |-> "response", id |-> m.id, reply |-> "ok"])
        /\ UNCHANGED <<working, cancelled>>
     \/ /\ m.what = "prompt"
        /\ working' = m.id /\ cancelled' = FALSE
        /\ UNCHANGED toClient
     \/ /\ m.what = "cancel"
        /\ cancelled' = (working # 0)
        /\ UNCHANGED <<working, toClient>>
     \/ /\ m.what \in {"allowed", "refused"}
        /\ UNCHANGED <<working, cancelled, toClient>>
  /\ UNCHANGED <<asks, place, connVars, ctx, outcome, agentUp, steerVars, question>>

(* It ends its turn; a turn it was told to cancel may have ended anyway.   *)
AgentEndsTurn ==
  /\ agentUp /\ working # 0
  /\ \E r \in {"end_turn", "refusal", "error"} \cup (IF cancelled THEN {"cancelled"} ELSE {}) :
        Says([what |-> "response", id |-> working, reply |-> r])
  /\ working' = 0 /\ cancelled' = FALSE
  /\ UNCHANGED <<asks, place, connVars, ctx, outcome, toAgent, agentUp, steerVars, question>>

AgentAsks ==
  /\ agentUp /\ working # 0 /\ question = "none"
  /\ Says([what |-> "permission", id |-> 0])
  /\ question' = "sent"
  /\ UNCHANGED <<asks, place, connVars, ctx, outcome, toAgent, agentVars, steerVars>>

AgentExits ==
  /\ agentUp /\ AgentGone
  /\ UNCHANGED <<asks, place, connVars, ctx, outcome, toClient, steerVars, question>>

(* Only the loop over turns reads the channel: what is said before it      *)
(* waits there, as if it were said when the loop starts.                   *)
Say(m) ==
  /\ place = "turn" /\ m \in unsaid
  /\ unsaid' = unsaid \ {m}
  /\ steer' = Append(steer, m)
  /\ UNCHANGED <<asks, place, connVars, ctx, outcome, toAgent, toClient, agentVars, held, heard, interrupted, cancels, question>>

StopRun ==
  /\ ctx = "live" /\ ctx' = "stopped"
  /\ UNCHANGED <<asks, place, connVars, outcome, toAgent, toClient, agentVars, steerVars, question>>
-----------------------------------------------------------------------------
ClientStep == Converse \/ Abandon \/ Hear \/ TurnOver \/ Stopping \/ GraceOver

SessionNext ==
  \/ ClientStep \/ StopProcess
  \/ Read \/ EndOfFile \/ BadLine \/ Permit
  \/ AgentReads \/ AgentEndsTurn \/ AgentAsks \/ AgentExits
  \/ StopRun \/ \E m \in Messages : Say(m)

(* The client's goroutines are scheduled, its timers fire, a killed        *)
(* process is gone.  Nothing is assumed of the agent, nor of people: only  *)
(* a question whose session has ended is sure to be given up.              *)
SessionFairness ==
  /\ WF_sessionVars(ClientStep) /\ WF_sessionVars(StopProcess)
  /\ WF_sessionVars(Read \/ EndOfFile)
  /\ WF_sessionVars(Permit /\ (asks => ctx = "stopped"))

SessionSpec == SessionInit /\ [][SessionNext]_sessionVars /\ SessionFairness
-----------------------------------------------------------------------------
SessionTypeOK ==
  /\ asks \in BOOLEAN /\ place \in Places /\ nextID \in Calls
  /\ pending \subseteq 1..nextID
  /\ answer \in [Calls -> {NoReply, "ok", "error", "login", "gone", "end_turn", "refusal", "cancelled"}]
  /\ closed \in BOOLEAN /\ ctx \in {"live", "stopped"}
  /\ outcome \in {"none", "ok", "error", "stopped"} /\ (outcome = "none" <=> place # "over")
  /\ agentUp \in BOOLEAN /\ working \in 0..MaxCalls /\ cancelled \in BOOLEAN
  /\ unsaid \subseteq Messages /\ heard \subseteq Messages
  /\ interrupted \in BOOLEAN /\ cancels \in Nat
  /\ question \in {"none", "sent", "asked", "allowed", "refused"}

(* A request converse waits for is owed a response or has one, so that no  *)
(* end of the agent leaves converse waiting (rpc.go start, readLoop).      *)
WaitsForSomething ==
  place \notin {"grace", "over"} => nextID \in pending \/ answer[nextID] # NoReply

(* The agent is never prompted while it works on a turn; a cancel it reads *)
(* is for the turn it works on or for one that is over, so that an         *)
(* interrupt never stops the turn that was to take it into account; and    *)
(* during a turn it is told to cancel once if someone who interrupts was   *)
(* heard, and else not at all (acp.go converse).                           *)
OneTurnAtATime ==
  /\ (agentUp /\ toAgent # <<>>) =>
       LET m == Head(toAgent) IN
       /\ m.what = "prompt" => working = 0
       /\ m.what = "cancel" /\ working # 0 => m.id = working
  /\ place = "turn" =>
       cancels = IF \E i \in DOMAIN held : held[i] \in Interrupts THEN 1 ELSE 0

(* Once the Run is stopped or the agent is gone, the session ends, no      *)
(* process is left and nobody waits for a person's answer: whatever the    *)
(* agent does not answer, in whatever order things happen (acp.go Run,     *)
(* drive, permit, stop; rpc.go readLoop).                                  *)
SessionEnds ==
  (ctx = "stopped" \/ ~agentUp) ~> (place = "over" /\ ~agentUp /\ question # "asked")
=============================================================================
