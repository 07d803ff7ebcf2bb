------------------------------ MODULE EventSink ------------------------------
(***************************************************************************)
(* How an agent's output reaches the Server: goroutines add events to a    *)
(* bounded channel, one goroutine merges consecutive pieces of text and    *)
(* hands the result to the Handler, which may fail.  The session closes    *)
(* the sink when the conversation is over; events added later are dropped. *)
(*                                                                         *)
(* An event that merges others is the sequence of them: what the Handler   *)
(* took is the events it shows, however they came.                         *)
(***************************************************************************)
EXTENDS Naturals, Sequences

CONSTANTS
  Output,          \* what each goroutine reads: a sequence of
                   \* [update, text], text a piece or none at all
  SinkBuffer,      \* capacity of the channel
  CoalesceBytes    \* pieces of text that are handed over at once

ASSUME SinkAssumption ==
  /\ SinkBuffer \in Nat \ {0} /\ CoalesceBytes \in Nat \ {0}
  /\ \A p \in DOMAIN Output : Output[p] \in Seq([update : STRING, text : STRING])

Producers == DOMAIN Output

(* update: the kind of event an update of the agent becomes, if any.       *)
KindOf ==
  [agent_message_chunk |-> "token", agent_thought_chunk |-> "thought", plan |-> "plan",
   tool_call |-> "tool_call", tool_call_update |-> "tool_result", usage_update |-> "usage",
   stderr |-> "log"]

IsEvent(u) ==
  /\ u.update \in DOMAIN KindOf
  /\ u.update \in {"agent_message_chunk", "agent_thought_chunk"} => u.text # ""

Event(u) == [kind |-> KindOf[u.update], text |-> u.text]

(* The events that a goroutine has for the sink. *)
Given(p) == {Event(Output[p][i]) : i \in {i \in DOMAIN Output[p] : IsEvent(Output[p][i])}}

Nothing == <<>>      \* no event pends

VARIABLES
  said,       \* how many of its events each goroutine has added
  adding,     \* goroutines inside add, which hold the read lock
  in,         \* the channel
  pend,       \* Nothing, or the events whose text is being merged
  emitted,    \* what the Handler took
  sinkErr,    \* the Handler failed ...
  onErrors,   \* ... and how often the session was told
  closing,    \* close waits for the lock, or has it
  sinkClosed, \* the channel is closed
  sinkDone    \* run has returned, and with it close

sinkVars == <<said, adding, in, pend, emitted, sinkErr, onErrors, closing, sinkClosed, sinkDone>>
sendVars == <<emitted, sinkErr, onErrors>>

SinkInit ==
  /\ said = [p \in Producers |-> 0] /\ adding = {}
  /\ in = <<>> /\ pend = Nothing
  /\ emitted = <<>> /\ sinkErr = FALSE /\ onErrors = 0
  /\ closing = FALSE /\ sinkClosed = FALSE /\ sinkDone = FALSE
-----------------------------------------------------------------------------
(* add takes the read lock, for which it waits while close waits.  Once    *)
(* the sink is closed the event is dropped; some updates are no event.     *)
Add(p) ==
  /\ p \notin adding /\ said[p] < Len(Output[p])
  /\ IF sinkClosed \/ ~IsEvent(Output[p][said[p] + 1])
     THEN /\ said' = [said EXCEPT ![p] = @ + 1]
          /\ UNCHANGED adding
     ELSE /\ ~closing
          /\ adding' = adding \cup {p}
          /\ UNCHANGED said
  /\ UNCHANGED <<in, pend, sendVars, closing, sinkClosed, sinkDone>>

(* ... and waits, holding the lock, while the channel is full. *)
Put(p) ==
  /\ p \in adding /\ Len(in) < SinkBuffer
  /\ in' = Append(in, Event(Output[p][said[p] + 1]))
  /\ said' = [said EXCEPT ![p] = @ + 1]
  /\ adding' = adding \ {p}
  /\ UNCHANGED <<pend, sendVars, closing, sinkClosed, sinkDone>>

(* Mutant of Send: every event after the failure tells the session again.  *)
SendAgain(events, taken) ==
  /\ emitted' = IF sinkErr THEN emitted ELSE emitted \o taken
  /\ sinkErr' = (sinkErr \/ taken # events)
  /\ onErrors' = IF sinkErr' THEN onErrors + 1 ELSE onErrors

(* send, of some events of which the Handler takes the first. *)
Send(events, taken) ==
  IF sinkErr
  THEN UNCHANGED sendVars
  ELSE /\ emitted' = emitted \o taken
       /\ sinkErr' = (taken # events)
       /\ onErrors' = IF sinkErr' THEN onErrors + 1 ELSE onErrors

(* Mutant of Sends: run stops taking events when the Handler has failed. *)
SendsUntilError(merged, next) ==
  ~sinkErr /\ \E taken \in {<<>>, merged, merged \o next} : Send(merged \o next, taken)

(* What was merged is sent as one event, then the next, if any. *)
Sends(merged, next) ==
  \E taken \in {<<>>, merged, merged \o next} : Send(merged \o next, taken)

IsText(ev) == ev.kind \in {"token", "thought"}

Merged(ev) == Append(pend, ev)

(* Mutant of Take: what is not text overtakes the text that pends.         *)
TakeOvertaking ==
  /\ in # <<>>
  /\ in' = Tail(in)
  /\ IF IsText(Head(in)) /\ pend = Nothing
     THEN pend' = <<Head(in)>> /\ UNCHANGED sendVars
     ELSE Sends(<<Head(in)>>, <<>>) /\ UNCHANGED pend
  /\ UNCHANGED <<said, adding, closing, sinkClosed, sinkDone>>

(* run, of one event from the channel: text joins what pends or starts to  *)
(* pend, anything else is sent after what pends.                           *)
Take ==
  /\ in # <<>>
  /\ in' = Tail(in)
  /\ LET ev == Head(in) IN
     IF pend # Nothing /\ pend[1].kind = ev.kind
     THEN IF Len(Merged(ev)) < CoalesceBytes
          THEN pend' = Merged(ev) /\ UNCHANGED sendVars
          ELSE pend' = Nothing /\ Sends(Merged(ev), <<>>)
     ELSE IF IsText(ev)
          THEN pend' = <<ev>> /\ Sends(pend, <<>>)
          ELSE pend' = Nothing /\ Sends(pend, <<ev>>)
  /\ UNCHANGED <<said, adding, closing, sinkClosed, sinkDone>>

(* The window of coalesceWindow is over. *)
Flush ==
  /\ pend # Nothing
  /\ Sends(pend, <<>>) /\ pend' = Nothing
  /\ UNCHANGED <<said, adding, in, closing, sinkClosed, sinkDone>>

(* The channel is closed and empty: run flushes and returns. *)
Drained ==
  /\ sinkClosed /\ in = <<>> /\ ~sinkDone
  /\ Sends(pend, <<>>) /\ pend' = Nothing
  /\ sinkDone' = TRUE
  /\ UNCHANGED <<said, adding, in, closing, sinkClosed>>

(* close, asking for the lock ... *)
CloseSink ==
  /\ ~closing
  /\ closing' = TRUE
  /\ UNCHANGED <<said, adding, in, pend, sendVars, sinkClosed, sinkDone>>

(* ... and getting it when nobody adds. *)
CloseIn ==
  /\ closing /\ ~sinkClosed /\ adding = {}
  /\ sinkClosed' = TRUE
  /\ UNCHANGED <<said, adding, in, pend, sendVars, closing, sinkDone>>

SinkStep == Take \/ Flush \/ Drained \/ CloseIn \/ \E p \in Producers : Put(p)

SinkNext == SinkStep \/ CloseSink \/ \E p \in Producers : Add(p)

(* Goroutines are scheduled, and the Handler always returns: its requests *)
(* end with the Run's context.                                             *)
SinkFairness ==
  /\ WF_sinkVars(Take \/ Flush \/ Drained) /\ WF_sinkVars(CloseIn)
  /\ \A p \in Producers : WF_sinkVars(Put(p))

SinkSpec == SinkInit /\ [][SinkNext]_sinkVars /\ SinkFairness
-----------------------------------------------------------------------------
Pieces == UNION {Given(p) : p \in Producers}

SinkTypeOK ==
  /\ said \in [Producers -> Nat] /\ adding \subseteq Producers
  /\ in \in Seq(Pieces) /\ Len(in) <= SinkBuffer
  /\ pend \in Seq(Pieces) /\ emitted \in Seq(Pieces)
  /\ sinkErr \in BOOLEAN /\ onErrors \in {0, 1}
  /\ closing \in BOOLEAN /\ sinkClosed \in BOOLEAN /\ sinkDone \in BOOLEAN

(* The session's output is an EventPipe: what the channel and the merged   *)
(* text hold is owed, what the Handler took is shown, event by event.      *)
Pipe == INSTANCE EventPipe WITH
  owed <- pend \o in, shown <- emitted, refused <- sinkErr, finished <- sinkDone

(* However the pieces are merged, flushed by the window or given up after  *)
(* the Handler failed, the sink implements EventPipe (sink.go run, add).   *)
OutputInOrder == Pipe!PipeSpec

(* close returns, also when goroutines wait in add for room in the channel *)
(* and hold the lock close needs (sink.go add, close).                     *)
CloseReturns == closing ~> sinkDone
=============================================================================
