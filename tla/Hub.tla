--------------------------------- MODULE Hub ---------------------------------
(***************************************************************************)
(* The WebSocket hub, for one topic and one reader: events are committed   *)
(* one after another, each is then published to the connections subscribed *)
(* to the topic, and a new subscription first replays what the reader      *)
(* missed.  Nothing here waits for a slow reader: a connection that falls  *)
(* behind drops a frame and is closed, and the reader connects again with  *)
(* the last cursor it saw.                                                 *)
(*                                                                         *)
(* Every goroutine has its steps: those that publish (they commit in the   *)
(* order of the cursors, but then race each other), the one that serves a  *)
(* connection, its writer, and those that close it.  A frame is an event's *)
(* cursor.                                                                 *)
(***************************************************************************)
EXTENDS Integers, Sequences, Functions

CONSTANTS
  MaxEvents,    \* bound: events of the topic
  MaxConns,     \* bound: connections the reader makes
  SendQueue,    \* frames a connection queues
  MaxPending,   \* frames it holds back during a replay
  ReplayLimit   \* events one replay returns

ASSUME HubBounds ==
  /\ MaxEvents \in Nat /\ MaxConns \in Nat /\ MaxPending \in Nat
  /\ SendQueue \in Nat \ {0} /\ ReplayLimit \in Nat \ {0}

VARIABLES
  committed,    \* the last event in the database
  unpublished,  \* committed events whose Publish has not begun
  delivering,   \* <<event, connection>>: where Publish has yet to deliver it
  topic,        \* connections subscribed in the hub's table
  client,       \* the hub's record of each connection
  conn,         \* the reader's connection, 0 while it has none ...
  dialled,      \* ... and how many it has made
  cursor        \* the last cursor it saw

hubVars == <<committed, unpublished, delivering, topic, client, conn, dialled,
             cursor>>

Events == 1..MaxEvents
Conns  == 1..MaxConns

(* A subscription is in the connection's own table ("named"), then in the  *)
(* hub's ("listed"), has read its backlog ("replayed"), queues it and what *)
(* was held back ("releasing", with the connection's lock held), and then  *)
(* passes events on ("ready").                                             *)
Stage == {"none", "named", "listed", "replayed", "releasing", "ready"}

Client == [stage   : Stage,
           after   : 0..MaxEvents,  \* the cursor subscribed with
           upto    : 0..MaxEvents,  \* the last event replayed
           more    : BOOLEAN,       \* the replay left events out
           pending : Seq(Events),   \* held back during the replay
           rest    : Seq(Events),   \* still to be queued by the release
           send    : Seq(Events),   \* queued
           sent    : Seq(Events),   \* written to the socket
           closing : BOOLEAN,       \* a frame was dropped: go c.close()
           done    : BOOLEAN]

NewClient(after) ==
  [stage |-> "none", after |-> after, upto |-> 0, more |-> FALSE, pending |-> <<>>,
   rest |-> <<>>, send |-> <<>>, sent |-> <<>>, closing |-> FALSE, done |-> FALSE]

HubTypeOK ==
  /\ committed \in 0..MaxEvents
  /\ unpublished \subseteq 1..committed
  /\ delivering \subseteq (1..committed) \X (1..dialled)
  /\ topic \subseteq 1..dialled
  /\ client \in Seq(Client) /\ Len(client) = dialled /\ dialled <= MaxConns
  /\ conn \in 0..dialled
  /\ cursor \in 0..committed
  /\ \A c \in 1..dialled : Len(client[c].send) <= SendQueue
                           /\ Len(client[c].pending) <= MaxPending

HubInit ==
  /\ committed = 0 /\ unpublished = {} /\ delivering = {} /\ topic = {}
  /\ client = <<>> /\ conn = 0 /\ dialled = 0 /\ cursor = 0

TheReader == <<conn, dialled, cursor>>
-----------------------------------------------------------------------------
(* Events. *)

(* A transaction commits the topic's next event. *)
Commit ==
  /\ committed < MaxEvents
  /\ committed' = committed + 1
  /\ unpublished' = unpublished \cup {committed'}

(* Publish first copies the topic's subscribers, ... *)
Publish(e) ==
  /\ e \in unpublished
  /\ unpublished' = unpublished \ {e}
  /\ delivering' = delivering \cup {<<e, c>> : c \in topic}
  /\ UNCHANGED <<committed, topic, client, TheReader>>

(* Mutant of Enqueue: one frame too many. *)
EnqueueOneMore(k, e) == IF Len(k.send) <= SendQueue THEN [k EXCEPT !.send = Append(@, e)]
                                                    ELSE [k EXCEPT !.closing = TRUE]

(* Mutant of Enqueue: a dropped frame goes unnoticed. *)
EnqueueOrDrop(k, e) == IF Len(k.send) < SendQueue THEN [k EXCEPT !.send = Append(@, e)] ELSE k

(* enqueueLocked: a full queue drops the frame and has the client closed. *)
Enqueue(k, e) == IF Len(k.send) < SendQueue THEN [k EXCEPT !.send = Append(@, e)]
                                            ELSE [k EXCEPT !.closing = TRUE]

Replayed(k, e) == k.after < e /\ e <= k.upto

(* Mutant of Live: the replay's events are not remembered. *)
LiveTwice(k, e) == Enqueue(k, e)

(* A live event is queued, unless the replay has it. *)
Live(k, e) == IF Replayed(k, e) THEN k ELSE Enqueue(k, e)

(* Until the subscription is ready, it is held back. *)
HoldBack(k, e) == IF Len(k.pending) < MaxPending THEN [k EXCEPT !.pending = Append(@, e)]
                                                 ELSE [k EXCEPT !.closing = TRUE]

(* What deliver makes of event e on a connection that is subscribed. *)
Received(k, e) == IF k.stage = "ready" THEN Live(k, e) ELSE HoldBack(k, e)

(* ... then delivers to one after another; a release holds the lock. *)
Deliver(e, c) ==
  /\ <<e, c>> \in delivering
  /\ client[c].stage # "releasing"
  /\ delivering' = delivering \ {<<e, c>>}
  /\ client' = IF client[c].done \/ client[c].stage = "none" THEN client
               ELSE [client EXCEPT ![c] = Received(@, e)]
  /\ UNCHANGED <<committed, unpublished, topic, TheReader>>
-----------------------------------------------------------------------------
(* A connection. *)

(* The reader dials and the server attaches the connection. *)
Dial ==
  /\ conn = 0
  /\ dialled < MaxConns
  /\ dialled' = dialled + 1
  /\ conn' = dialled'
  /\ client' = Append(client, NewClient(cursor))
  /\ UNCHANGED <<committed, unpublished, delivering, topic, cursor>>

(* subscribe: first in the connection's own table ... *)
Subscribe(c) ==
  /\ client[c].stage = "none" /\ ~client[c].done
  /\ client' = [client EXCEPT ![c].stage = "named"]
  /\ UNCHANGED <<committed, unpublished, delivering, topic, TheReader>>

(* ... then in the hub's, whether or not the connection was closed by now. *)
List(c) ==
  /\ client[c].stage = "named"
  /\ client' = [client EXCEPT ![c].stage = "listed"]
  /\ topic' = topic \cup {c}
  /\ UNCHANGED <<committed, unpublished, delivering, TheReader>>

(* Mutant of Backlog: it starts one event late.                            *)
BacklogShort(after) ==
  [i \in 1..(IF committed - after <= ReplayLimit THEN committed - after - 1
                                                 ELSE ReplayLimit) |-> after + 1 + i]

(* What a replay reads from the database, in order: ReplayLimit events at  *)
(* most, and that there are more is not passed on.                         *)
Backlog(after) ==
  [i \in 1..(IF committed - after <= ReplayLimit THEN committed - after
                                                 ELSE ReplayLimit) |-> after + i]

Replay(c) ==
  /\ client[c].stage = "listed" /\ ~client[c].done
  /\ LET k == client[c]
     IN client' = [client EXCEPT ![c].stage = "replayed",
                                 ![c].rest = Backlog(k.after),
                                 ![c].upto = k.after + Len(Backlog(k.after)),
                                 ![c].more = committed > k.after + ReplayLimit]
  /\ UNCHANGED <<committed, unpublished, delivering, topic, TheReader>>

(* With the lock taken, the backlog is queued, ... *)
Release(c) ==
  /\ client[c].stage = "replayed" /\ ~client[c].done
  /\ client' = [client EXCEPT ![c].stage = "releasing"]
  /\ UNCHANGED <<committed, unpublished, delivering, topic, TheReader>>

(* ... and then what was held back, without the events that are in it. *)
Released(k) ==
  IF k.rest # <<>> THEN [Enqueue(k, Head(k.rest)) EXCEPT !.rest = Tail(@)]
  ELSE IF k.pending # <<>> THEN [Live(k, Head(k.pending)) EXCEPT !.pending = Tail(@)]
  ELSE [k EXCEPT !.stage = "ready"]

ReleaseOne(c) ==
  /\ client[c].stage = "releasing" /\ ~client[c].done
  /\ client' = [client EXCEPT ![c] = Released(@)]
  /\ UNCHANGED <<committed, unpublished, delivering, topic, TheReader>>

(* Mutant of Write: the reader keeps the cursor of its last frame.         *)
WriteLast(c) ==
  /\ client[c].send # <<>> /\ ~client[c].done
  /\ cursor' = Head(client[c].send)
  /\ client' = [client EXCEPT ![c].send = Tail(@), ![c].sent = Append(@, cursor')]
  /\ UNCHANGED <<committed, unpublished, delivering, topic, conn, dialled>>

(* writeLoop: a frame reaches the reader, which keeps its latest cursor. *)
Write(c) ==
  LET e == Head(client[c].send)
  IN /\ client[c].send # <<>> /\ ~client[c].done
     /\ client' = [client EXCEPT ![c].send = Tail(@), ![c].sent = Append(@, e)]
     /\ cursor' = IF e > cursor THEN e ELSE cursor
     /\ UNCHANGED <<committed, unpublished, delivering, topic, conn, dialled>>

(* close, after a dropped frame, a failed write or replay, or because the  *)
(* peer or the server goes away.  detach takes the connection out of the   *)
(* topics in its own table; a subscribe under way goes on, and of what it  *)
(* still does only List matters.                                           *)
Close(c) ==
  /\ ~client[c].done
  /\ client' = [client EXCEPT ![c] =
                  [NewClient(0) EXCEPT !.done = TRUE,
                     !.stage = IF client[c].stage = "named" THEN "named" ELSE "none"]]
  /\ topic' = topic \ {c}
  /\ conn' = 0
  /\ UNCHANGED <<committed, unpublished, delivering, dialled, cursor>>

Serve(c) == \/ Subscribe(c) \/ List(c) \/ Replay(c) \/ Release(c) \/ ReleaseOne(c)

-----------------------------------------------------------------------------
(* Event e is on its way to connection c. *)
UnderWay(e, c) ==
  \/ e \in unpublished
  \/ <<e, c>> \in delivering
  \/ e \in Range(client[c].rest) \cup Range(client[c].pending) \cup Range(client[c].send)

(* A subscriber sees every event after its cursor: on a connection that    *)
(* has read its backlog and dropped nothing, each event since was written  *)
(* or is under way, though events are published during the replay.         *)
NoGapWhileConnected ==
  \A c \in 1..dialled :
    /\ client[c].stage \in {"replayed", "releasing", "ready"}
    /\ ~client[c].closing /\ ~client[c].more
    => \A e \in (client[c].after + 1)..committed :
         UnderWay(e, c) \/ e \in Range(client[c].sent)

(* No event is written twice to one connection, replayed and live. *)
NoDuplicates ==
  \A c \in 1..dialled : IsInjective(client[c].sent \o client[c].send)
-----------------------------------------------------------------------------
(* What the reader may make of a connection: it follows the topic once it  *)
(* has read its backlog, until a frame is dropped; a backlog that leaves   *)
(* events out is behind from the start.                                    *)
StateOf(k) ==
  IF k.done THEN "gone"
  ELSE IF k.stage \notin {"replayed", "releasing", "ready"} THEN "connecting"
  ELSE IF k.closing \/ k.more THEN "behind" ELSE "live"

(* A connection that follows is owed what is on its way and not written.   *)
OwedTo(c) ==
  IF StateOf(client[c]) = "live"
  THEN {e \in 1..committed : UnderWay(e, c)} \ Range(client[c].sent) ELSE {}

ReaderState == [c \in Conns |-> IF c \in 1..dialled THEN StateOf(client[c]) ELSE "none"]
ReaderFrom  == [c \in Conns |-> IF c \in 1..dialled THEN client[c].after ELSE 0]
ReaderOwed  == [c \in Conns |-> IF c \in 1..dialled THEN OwedTo(c) ELSE {}]
ReaderShown == [c \in Conns |-> IF c \in 1..dialled THEN client[c].sent ELSE <<>>]

Reader == INSTANCE TopicReader WITH
  state <- ReaderState, from <- ReaderFrom, owed <- ReaderOwed, shown <- ReaderShown

(* Whatever order events are published and delivered in, and although a    *)
(* subscription replays while they are, the hub keeps what TopicReader     *)
(* promises (hub.go Publish, subscribe, deliver, writeLoop, close).        *)
ServesReader == Reader!ReaderSpec
=============================================================================
