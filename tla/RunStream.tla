------------------------------ MODULE RunStream ------------------------------
(***************************************************************************)
(* A Run's events and the messages people send its agent: a queued Run     *)
(* gets a message in its prompt, a running one from the agent's listener,  *)
(* which follows the Run's topic through the hub from the event of its     *)
(* claim on.                                                               *)
(***************************************************************************)
EXTENDS Hub

VARIABLES
  status,     \* of the Run: "pending", "running" or "over"
  messages,   \* the events that are people's messages ...
  queued,     \* ... those sent while the Run was queued
  prompt,     \* messages in the Run's prompt
  job,        \* the messages in the prompt the agent was given
  listening,  \* the agent's listener
  posting,    \* an event of the agent whose request saw the Run running
  inbox       \* messages the listener passed to the agent

runVars == <<status, messages, queued, prompt, job, listening, posting, inbox>>
vars == <<hubVars, runVars>>

hubRest == <<delivering, topic, client, conn, dialled>>

TypeOK ==
  /\ HubTypeOK
  /\ status \in {"pending", "running", "over"}
  /\ messages \subseteq 1..committed
  /\ queued \subseteq messages /\ prompt \subseteq messages /\ job \subseteq messages
  /\ listening \in BOOLEAN /\ posting \in BOOLEAN
  /\ inbox \subseteq messages

Init ==
  /\ HubInit
  /\ status = "pending" /\ messages = {} /\ queued = {} /\ prompt = {}
  /\ job = {} /\ listening = FALSE /\ posting = FALSE /\ inbox = {}
-----------------------------------------------------------------------------
(* SteerRun, with the Run's row locked. *)
SteerRun ==
  /\ status # "over"
  /\ Commit
  /\ messages' = messages \cup {committed'}
  /\ IF status = "pending"
     THEN /\ prompt' = prompt \cup {committed'}
          /\ queued' = queued \cup {committed'}
     ELSE UNCHANGED <<prompt, queued>>
  /\ UNCHANGED <<status, job, listening, posting, inbox, cursor, hubRest>>

(* AppendRunEvent, of the agent's output, one at a time.  The Run's status *)
(* is read without the row's lock, so an event may be appended to a Run    *)
(* that ended meanwhile: ReportRun finds one "posting" or not.             *)
AppendRunEvent ==
  /\ (status = "running" /\ listening) \/ posting
  /\ Commit
  /\ posting' = FALSE
  /\ UNCHANGED <<status, messages, queued, prompt, job, listening, inbox, cursor, hubRest>>

(* The claim's event is the Run's last when its prompt is read. *)
Claim ==
  /\ status = "pending"
  /\ status' = "running"
  /\ Commit
  /\ cursor' = committed'
  /\ job' = prompt
  /\ listening' = TRUE
  /\ UNCHANGED <<messages, queued, prompt, posting, inbox, hubRest>>

(* ReportRun: the Run ends, by its agent or by others. *)
ReportRun ==
  /\ status # "over"
  /\ posting' \in {FALSE, listening}
  /\ status' = "over"
  /\ Commit
  /\ UNCHANGED <<messages, queued, prompt, job, listening, inbox, cursor, hubRest>>

(* The agent is done, or learns that its Run is over. *)
StopListening ==
  /\ listening
  /\ listening' = FALSE
  /\ UNCHANGED <<hubVars, status, messages, queued, prompt, job, posting, inbox>>

(* Mutant of Listen: messages that are in the prompt are passed on too.    *)
ListenToQueued(e) == inbox' = IF e \in messages THEN inbox \cup {e} ELSE inbox

(* listen: a message is passed on, unless it is in the prompt. *)
Listen(e) == inbox' = IF e \in messages \ queued THEN inbox \cup {e} ELSE inbox

Hear(c) ==
  /\ listening
  /\ Write(c)
  /\ Listen(Head(client[c].send))
  /\ UNCHANGED <<status, messages, queued, prompt, job, listening, posting>>

Dials == listening /\ Dial
-----------------------------------------------------------------------------
Hubs ==
  \/ \E e \in unpublished : Publish(e)
  \/ \E e \in Events, c \in 1..dialled : Deliver(e, c)
  \/ \E c \in 1..dialled : Serve(c) \/ Close(c)
  \/ Dials

Next ==
  \/ SteerRun \/ AppendRunEvent \/ Claim \/ ReportRun \/ StopListening
  \/ \E c \in 1..dialled : Hear(c)
  \/ Hubs /\ UNCHANGED runVars

Spec == Init /\ [][Next]_vars

(* Every goroutine of the hub gets its turn, a frame is written before its *)
(* deadline or the connection is closed, and a client that dropped a frame *)
(* is closed.  Nobody need send messages, connect or end the Run.          *)
Fairness ==
  /\ \A e \in Events : WF_vars(Publish(e) /\ UNCHANGED runVars)
  /\ \A e \in Events, c \in Conns : WF_vars(Deliver(e, c) /\ UNCHANGED runVars)
  /\ \A c \in Conns :
       /\ WF_vars(c <= dialled /\ Serve(c) /\ UNCHANGED runVars)
       /\ WF_vars(c <= dialled /\ Hear(c))
       /\ WF_vars(c <= dialled /\ client[c].closing /\ Close(c) /\ UNCHANGED runVars)

FairSpec == Spec /\ Fairness
-----------------------------------------------------------------------------
(* Messages for the agent that its prompt does not have. *)
Told == messages \ queued

(* A message reaches the agent in its prompt or through its listener, not  *)
(* in both ways, though the events of messages in the prompt may still be  *)
(* published after the claim; and the prompt misses none of them.          *)
PromptOrStream == job \cap inbox = {} /\ (listening => queued \subseteq job)

(* A message sent while the agent's listener is connected and has read its *)
(* backlog is passed on, unless the connection or the listener ends first. *)
MessagesAreHeard ==
  \A e \in Events :
    /\ e \in Told
    /\ conn # 0 /\ client[conn].stage = "ready"
    /\ client[conn].after < e /\ ~client[conn].more
    ~> e \in inbox \/ conn = 0 \/ ~listening

(* docs/api.md: a client that falls too far behind is disconnected, and    *)
(* "reconnect with the last cursor you saw" continues "with no gap".  No   *)
(* message behind the listener's cursor is lost to the agent.              *)
NoGapAfterReconnecting ==
  listening => \A e \in Told : e <= cursor =>
    e \in inbox \/ e \in unpublished \/ (conn # 0 /\ UnderWay(e, conn))
=============================================================================
