----------------------------- MODULE TopicReader -----------------------------
(***************************************************************************)
(* What the hub promises a reader of a topic, whatever its goroutines do   *)
(* and however they race.  A connection that follows the topic is owed     *)
(* every event after the cursor it came with, and it is shown only what it *)
(* is owed, each event once.  A connection that the hub cannot serve so is *)
(* behind: it may still be shown events, each once, and is owed none.  The *)
(* reader's cursor is the latest event it was shown, or told of elsewhere, *)
(* and it is what the reader's next connection comes with.                 *)
(***************************************************************************)
EXTENDS Naturals, Sequences

CONSTANT Conns   \* the connections the reader may make

VARIABLES
  committed,   \* the topic's last event
  cursor,      \* the last event the reader knows of
  state,       \* of each connection, as below
  from,        \* the cursor it came with
  owed,        \* the events it is to be shown
  shown        \* those it was shown, one after another

readerVars == <<committed, cursor, state, from, owed, shown>>

(* A connection asks to follow the topic ("connecting"), and then follows  *)
(* it ("live") or is "behind".                                             *)
ConnState == {"none", "connecting", "live", "behind", "gone"}

ReaderInit ==
  /\ committed = 0 /\ cursor = 0
  /\ state = [c \in Conns |-> "none"] /\ from = [c \in Conns |-> 0]
  /\ owed = [c \in Conns |-> {}] /\ shown = [c \in Conns |-> <<>>]

(* An event happens: every connection that is live is owed it. *)
Occurs ==
  /\ committed' = committed + 1
  /\ cursor' \in {cursor, committed'}
  /\ owed' = [c \in Conns |-> IF state[c] = "live" THEN owed[c] \cup {committed'} ELSE owed[c]]
  /\ UNCHANGED <<state, from, shown>>

(* The reader connects, with no other connection open. *)
Connects(c) ==
  /\ state[c] = "none"
  /\ \A d \in Conns : state[d] \in {"none", "gone"}
  /\ state' = [state EXCEPT ![c] = "connecting"]
  /\ from' = [from EXCEPT ![c] = cursor]
  /\ UNCHANGED <<committed, cursor, owed, shown>>

(* From here on it is owed every event after its cursor; and there may be  *)
(* older ones that still come.                                             *)
Follows(c) ==
  /\ state[c] = "connecting"
  /\ state' = [state EXCEPT ![c] = "live"]
  /\ \E old \in SUBSET (1..from[c]) :
       owed' = [owed EXCEPT ![c] = old \cup ((from[c] + 1)..committed)]
  /\ UNCHANGED <<committed, cursor, from, shown>>

(* The hub cannot give it all it would be owed, or gives up. *)
FallsBehind(c) ==
  /\ state[c] \in {"connecting", "live"}
  /\ state' = [state EXCEPT ![c] = "behind"]
  /\ owed' = [owed EXCEPT ![c] = {}]
  /\ UNCHANGED <<committed, cursor, from, shown>>

(* An event is shown that is owed, or comes late; none is shown again. *)
Shows(c, e) ==
  /\ \/ state[c] = "live" /\ e \in owed[c]
     \/ state[c] = "behind"
  /\ e \in 1..committed /\ \A i \in 1..Len(shown[c]) : shown[c][i] # e
  /\ owed' = [owed EXCEPT ![c] = @ \ {e}]
  /\ shown' = [shown EXCEPT ![c] = Append(@, e)]
  /\ cursor' = IF e > cursor THEN e ELSE cursor
  /\ UNCHANGED <<committed, state, from>>

Disconnects(c) ==
  /\ state[c] \notin {"none", "gone"}
  /\ state' = [state EXCEPT ![c] = "gone"]
  /\ from' = [from EXCEPT ![c] = 0]
  /\ owed' = [owed EXCEPT ![c] = {}] /\ shown' = [shown EXCEPT ![c] = <<>>]
  /\ UNCHANGED <<committed, cursor>>

ReaderNext ==
  \/ Occurs
  \/ \E c \in Conns :
       \/ Connects(c) \/ Follows(c) \/ FallsBehind(c) \/ Disconnects(c)
       \/ \E e \in 1..committed : Shows(c, e)

ReaderSpec == ReaderInit /\ [][ReaderNext]_readerVars
=============================================================================
