---------------------------- MODULE RunStreamProofs ----------------------------
(***************************************************************************)
(* Theorems about the WebSocket hub and a Run's events and messages, for   *)
(* any number of events and connections and any size of their queues,      *)
(* whatever order events are published and delivered in.                   *)
(***************************************************************************)
EXTENDS RunStream, SequenceTheorems, TLAPS

(* The stages of a subscription that has read its backlog.                 *)
Active == {"replayed", "releasing", "ready"}

(* What a connection has written or will write.                            *)
Queue(k) == Range(k.rest) \cup Range(k.send) \cup Range(k.sent)

(* Publish has yet to hand the event to the connection, if subscribed.     *)
Coming(e, c) == e \in unpublished \/ <<e, c>> \in delivering

Once(s) == \A i, j \in DOMAIN s : s[i] = s[j] => i = j

OpenSound(k) ==
  /\ k.stage \in Active => ~k.done
  /\ k.stage \notin Active => k.rest = <<>> /\ k.send = <<>> /\ k.sent = <<>>

KnownEvents(k) ==
  /\ k.after <= committed /\ k.upto <= committed
  /\ Queue(k) \cup Range(k.pending) \subseteq 1..committed

(* An event is in one place, or held back although the backlog has it.     *)
OnceEach(k) ==
  /\ Once(k.rest) /\ Once(k.send) /\ Once(k.sent) /\ Once(k.pending)
  /\ Range(k.rest) \cap Range(k.send) = {}
  /\ Range(k.rest) \cap Range(k.sent) = {}
  /\ Range(k.send) \cap Range(k.sent) = {}
  /\ \A e \in Queue(k) : Replayed(k, e) \/ e \notin Range(k.pending)

BacklogWhole(k) ==
  k.stage \in Active /\ ~k.closing => \A e \in Events : Replayed(k, e) => e \in Queue(k)

(* What the hub has yet to deliver was not seen here, but in the backlog,  *)
(* and with what it has, nothing is missing.                               *)
OutsideSound(k, c) ==
  /\ k.stage \in {"listed"} \cup Active <=> c \in topic
  /\ \A e \in Events : e \in unpublished => <<e, c>> \notin delivering
  /\ \A e \in Events : Coming(e, c) =>
       e \notin Range(k.pending) /\ (e \in Queue(k) => Replayed(k, e))
  /\ k.stage \in Active /\ ~k.closing /\ ~k.more =>
       \A e \in (k.after + 1)..committed :
         Coming(e, c) \/ e \in Queue(k) \cup Range(k.pending)

Sound(k, c) ==
  /\ OpenSound(k) /\ KnownEvents(k) /\ OnceEach(k) /\ BacklogWhole(k)
  /\ OutsideSound(k, c)

HubInv == HubTypeOK /\ \A c \in 1..dialled : Sound(client[c], c)

RunInv ==
  /\ prompt = queued /\ job \subseteq queued /\ inbox \cap queued = {}
  /\ listening => status # "pending" /\ job = queued
-----------------------------------------------------------------------------
(* The empty sequence.                                                     *)
LEMMA EmptyIs == <<>> \in Seq(Events) /\ Range(<<>>) = {} /\ Once(<<>>) /\ Len(<<>>) = 0
<1>1. DOMAIN <<>> = {} /\ <<>> \in Seq(Events) /\ Len(<<>>) = 0
  BY EmptySeq, LenProperties
<1> QED BY <1>1 DEF Range, Once

(* A sequence with one more element. *)
LEMMA LongerIs ==
  ASSUME NEW S, NEW s \in Seq(S), NEW e \in S
  PROVE  /\ Append(s, e) \in Seq(S) /\ Len(Append(s, e)) = Len(s) + 1 /\ Len(s) \in Nat
         /\ Range(Append(s, e)) = Range(s) \cup {e}
         /\ Once(s) /\ e \notin Range(s) => Once(Append(s, e))
<1>1. /\ Len(s) \in Nat /\ DOMAIN s = 1..Len(s)
  BY LenProperties
<1>2. /\ Append(s, e) \in Seq(S) /\ Len(Append(s, e)) = Len(s) + 1
      /\ \A i \in 1..Len(s) : Append(s, e)[i] = s[i]
      /\ Append(s, e)[Len(s) + 1] = e
  BY AppendProperties
<1>3. DOMAIN Append(s, e) = 1..(Len(s) + 1)
  BY <1>2, LenProperties
<1>. DEFINE t == Append(s, e)
<1>. HIDE DEF t
<1>4. Range(t) \subseteq Range(s) \cup {e}
  BY <1>1, <1>2, <1>3 DEF Range, t
<1>5. \A i \in DOMAIN s : i \in DOMAIN t /\ t[i] = s[i]
  BY <1>1, <1>2, <1>3 DEF t
<1>6. Len(s) + 1 \in DOMAIN t /\ t[Len(s) + 1] = e
  BY <1>1, <1>2, <1>3 DEF t
<1>7. Range(s) \cup {e} \subseteq Range(t)
  BY <1>5, <1>6 DEF Range
<1>8. ASSUME Once(s), e \notin Range(s) PROVE Once(t)
  BY <1>1, <1>3, <1>5, <1>6, <1>8 DEF Range, Once, t
<1> QED BY <1>1, <1>2, <1>4, <1>7, <1>8 DEF t

(* A sequence without its first element. *)
LEMMA ShorterIs ==
  ASSUME NEW S, NEW s \in Seq(S), s # <<>>
  PROVE  /\ Tail(s) \in Seq(S) /\ Len(Tail(s)) = Len(s) - 1 /\ Len(s) \in Nat \ {0}
         /\ Head(s) \in S /\ Range(s) = {Head(s)} \cup Range(Tail(s))
         /\ Once(s) => Once(Tail(s)) /\ Head(s) \notin Range(Tail(s))
<1>1. /\ Len(s) \in Nat \ {0} /\ DOMAIN s = 1..Len(s)
  BY LenProperties, EmptySeq
<1>2. /\ Head(s) \in S /\ Tail(s) \in Seq(S) /\ Len(Tail(s)) = Len(s) - 1
      /\ \A i \in 1..Len(Tail(s)) : Tail(s)[i] = s[i + 1]
  BY HeadTailProperties
<1>3. DOMAIN Tail(s) = 1..(Len(s) - 1)
  BY <1>2, LenProperties
<1>4. Head(s) = s[1] /\ 1 \in DOMAIN s
  BY <1>1
<1>. DEFINE t == Tail(s)
<1>. HIDE DEF t
<1>5. \A i \in DOMAIN t : i + 1 \in DOMAIN s /\ t[i] = s[i + 1]
  BY <1>1, <1>2, <1>3 DEF t
<1>6. \A i \in DOMAIN s : i = 1 \/ (i - 1 \in DOMAIN t /\ s[i] = t[i - 1])
  BY <1>1, <1>2, <1>3 DEF t
<1>7. Range(s) = {Head(s)} \cup Range(t)
  BY <1>4, <1>5, <1>6 DEF Range
<1>8. ASSUME Once(s) PROVE Once(t) /\ Head(s) \notin Range(t)
  <2>1. \A i \in DOMAIN t : i \in Nat /\ i + 1 # 1
    BY <1>1, <1>3 DEF t
  <2>2. ASSUME NEW i \in DOMAIN t, NEW j \in DOMAIN t, t[i] = t[j] PROVE i = j
    <3>1. i + 1 = j + 1
      BY <1>5, <1>8, <2>2 DEF Once
    <3> QED BY <2>1, <3>1
  <2>3. Head(s) \notin Range(t)
    BY <1>4, <1>5, <1>8, <2>1 DEF Range, Once
  <2> QED BY <2>2, <2>3 DEF Once
<1> QED BY <1>1, <1>2, <1>7, <1>8 DEF t

-----------------------------------------------------------------------------
(* What a connection's record becomes. *)

Limits(k) == Len(k.send) <= SendQueue /\ Len(k.pending) <= MaxPending

(* A new connection, or one that is closed, holds nothing. *)
LEMMA NewClientIs ==
  ASSUME NEW a \in 0..MaxEvents
  PROVE  NewClient(a) \in Client /\ Limits(NewClient(a))
BY HubBounds, EmptyIs DEF NewClient, Client, Stage, Limits

(* A frame is queued, or is dropped and the connection is to be closed. *)
LEMMA EnqueueIs ==
  ASSUME NEW k \in Client, NEW e \in Events, Limits(k)
  PROVE  \E m \in Client :
            /\ m = Enqueue(k, e) /\ Limits(m)
            /\ m.stage = k.stage /\ m.after = k.after /\ m.upto = k.upto /\ m.more = k.more
            /\ m.pending = k.pending /\ m.rest = k.rest /\ m.sent = k.sent /\ m.done = k.done
            /\ \/ m.send = Append(k.send, e) /\ m.closing = k.closing
               \/ m.send = k.send /\ m.closing
<1>1. /\ Append(k.send, e) \in Seq(Events) /\ Len(Append(k.send, e)) = Len(k.send) + 1
      /\ Len(k.send) \in Nat
  BY LongerIs DEF Client
<1>2. CASE Len(k.send) < SendQueue
  <2>. DEFINE m == [k EXCEPT !.send = Append(k.send, e)]
  <2>1. /\ m \in Client /\ Limits(m)
        /\ m.stage = k.stage /\ m.after = k.after /\ m.upto = k.upto /\ m.more = k.more
        /\ m.pending = k.pending /\ m.rest = k.rest /\ m.sent = k.sent /\ m.done = k.done
        /\ m.send = Append(k.send, e) /\ m.closing = k.closing
    <3>1. /\ m \in Client
          /\ m.stage = k.stage /\ m.after = k.after /\ m.upto = k.upto /\ m.more = k.more
          /\ m.pending = k.pending /\ m.rest = k.rest /\ m.sent = k.sent /\ m.done = k.done
          /\ m.send = Append(k.send, e) /\ m.closing = k.closing
      BY <1>1 DEF Client
    <3>2. Limits(m)
      BY <1>1, <1>2, <3>1, HubBounds DEF Limits
    <3> QED BY <3>1, <3>2
  <2>2. Enqueue(k, e) = m
    BY <1>2 DEF Enqueue
  <2> QED BY <2>1, <2>2
<1>3. CASE ~(Len(k.send) < SendQueue)
  <2>. DEFINE m == [k EXCEPT !.closing = TRUE]
  <2>1. /\ m \in Client /\ Limits(m)
        /\ m.stage = k.stage /\ m.after = k.after /\ m.upto = k.upto /\ m.more = k.more
        /\ m.pending = k.pending /\ m.rest = k.rest /\ m.sent = k.sent /\ m.done = k.done
        /\ m.send = k.send /\ m.closing
    BY DEF Client, Limits
  <2>2. Enqueue(k, e) = m
    BY <1>3 DEF Enqueue
  <2> QED BY <2>1, <2>2
<1> QED BY <1>2, <1>3

(* An event joins the queue once: from the rest of the backlog, from what  *)
(* was held back, or live.                                                 *)
LEMMA JoinsOnce ==
  ASSUME NEW k \in Client, NEW m \in Client, NEW e \in Events,
         OnceEach(k), e \notin Range(k.send), e \notin Range(k.sent),
         m.after = k.after, m.upto = k.upto, m.sent = k.sent,
         Once(m.rest), Range(m.rest) \subseteq Range(k.rest), e \notin Range(m.rest),
         Once(m.pending), Range(m.pending) \subseteq Range(k.pending),
         Replayed(k, e) \/ e \notin Range(m.pending),
         m.send = Append(k.send, e) \/ m.send = k.send
  PROVE  /\ OnceEach(m) /\ Queue(m) \subseteq Queue(k) \cup {e}
         /\ m.send = Append(k.send, e) => Range(m.send) = Range(k.send) \cup {e}
<1>1. k.send \in Seq(Events)
  BY DEF Client
<1>2. /\ Range(Append(k.send, e)) = Range(k.send) \cup {e}
      /\ Once(k.send) => Once(Append(k.send, e))
  BY <1>1, LongerIs
<1>3. Range(m.send) \subseteq Range(k.send) \cup {e} /\ Once(m.send)
  BY <1>2 DEF OnceEach
<1>4. Queue(m) \subseteq Queue(k) \cup {e}
  BY <1>3 DEF Queue
<1>5. \A x : Replayed(m, x) <=> Replayed(k, x)
  BY DEF Replayed
<1>6. \A x \in Queue(m) : Replayed(m, x) \/ x \notin Range(m.pending)
  BY <1>4, <1>5 DEF OnceEach
<1>7. /\ Range(m.rest) \cap Range(m.send) = {}
      /\ Range(m.rest) \cap Range(m.sent) = {}
      /\ Range(m.send) \cap Range(m.sent) = {}
  BY <1>3 DEF OnceEach
<1> QED BY <1>2, <1>3, <1>4, <1>6, <1>7 DEF OnceEach

(* The release queues what is left of the backlog, then what was held back.*)
LEMMA ReleasedIs ==
  ASSUME NEW k \in Client, NEW c, Sound(k, c), Limits(k), committed \in 0..MaxEvents,
         k.stage = "releasing", ~k.done
  PROVE  Released(k) \in Client /\ Limits(Released(k)) /\ Sound(Released(k), c)
<1>1. /\ k.rest \in Seq(Events) /\ k.pending \in Seq(Events) /\ k.send \in Seq(Events)
      /\ k.stage \in Active
  BY DEF Client, Active
<1>2. CASE k.rest # <<>>
  <2>. DEFINE e == Head(k.rest)
              q == Enqueue(k, e)
              m == [q EXCEPT !.rest = Tail(k.rest)]
  <2>1. /\ Tail(k.rest) \in Seq(Events) /\ e \in Events
        /\ Range(k.rest) = {e} \cup Range(Tail(k.rest))
        /\ Once(Tail(k.rest)) /\ e \notin Range(Tail(k.rest))
    BY <1>1, <1>2, ShorterIs DEF Sound, OnceEach
  <2>. HIDE DEF e
  <2>2. /\ q \in Client /\ Limits(q)
        /\ q.stage = k.stage /\ q.after = k.after /\ q.upto = k.upto /\ q.more = k.more
        /\ q.pending = k.pending /\ q.rest = k.rest /\ q.sent = k.sent /\ q.done = k.done
        /\ \/ q.send = Append(k.send, e) /\ q.closing = k.closing
           \/ q.send = k.send /\ q.closing
    <3>1. PICK z \in Client :
            /\ z = Enqueue(k, e) /\ Limits(z)
            /\ z.stage = k.stage /\ z.after = k.after /\ z.upto = k.upto /\ z.more = k.more
            /\ z.pending = k.pending /\ z.rest = k.rest /\ z.sent = k.sent /\ z.done = k.done
            /\ \/ z.send = Append(k.send, e) /\ z.closing = k.closing
               \/ z.send = k.send /\ z.closing
      BY <2>1, EnqueueIs
    <3>2. q = z
      BY <3>1
    <3>. HIDE DEF q
    <3> QED BY <3>1, <3>2, Zenon
  <2>. HIDE DEF q
  <2>3. /\ m \in Client /\ Limits(m) /\ m.rest = Tail(k.rest)
        /\ m.stage = k.stage /\ m.after = k.after /\ m.upto = k.upto /\ m.more = k.more
        /\ m.pending = k.pending /\ m.sent = k.sent /\ m.done = k.done
        /\ \/ m.send = Append(k.send, e) /\ m.closing = k.closing
           \/ m.send = k.send /\ m.closing
    BY <2>1, <2>2 DEF Client, Limits
  <2>4. Released(k) = m
    BY <1>2, <2>2 DEF Released, m, q, e
  <2>. HIDE DEF m
  <2>5. /\ OnceEach(m) /\ Queue(m) \subseteq Queue(k) \cup {e}
        /\ m.send = Append(k.send, e) => Range(m.send) = Range(k.send) \cup {e}
    <3>1. /\ OnceEach(k) /\ e \notin Range(k.send) /\ e \notin Range(k.sent) /\ e \in Queue(k)
      BY <2>1 DEF Sound, OnceEach, Queue
    <3>2. Once(m.pending) /\ (Replayed(k, e) \/ e \notin Range(m.pending))
      BY <2>3, <3>1 DEF OnceEach
    <3> QED BY <2>1, <2>3, <3>1, <3>2, JoinsOnce
  <2>6. Queue(m) \subseteq Queue(k) /\ (~m.closing => Queue(m) = Queue(k))
    BY <2>1, <2>3, <2>5 DEF Queue
  <2>7. Sound(m, c)
    <3>1. OpenSound(m)
      BY <1>1, <2>3 DEF Sound, OpenSound
    <3>2. KnownEvents(m)
      BY <2>3, <2>6 DEF Sound, KnownEvents
    <3>3. BacklogWhole(m)
      BY <2>3, <2>6 DEF Sound, BacklogWhole, Replayed
    <3>4. OutsideSound(m, c)
      BY <2>3, <2>6 DEF Sound, OutsideSound, Replayed
    <3> QED BY <2>5, <3>1, <3>2, <3>3, <3>4 DEF Sound
  <2> QED BY <2>3, <2>4, <2>7
<1>3. CASE k.rest = <<>> /\ k.pending # <<>>
  <2>. DEFINE e == Head(k.pending)
              q == Live(k, e)
              m == [q EXCEPT !.pending = Tail(k.pending)]
  <2>1. /\ Tail(k.pending) \in Seq(Events) /\ e \in Events
        /\ Range(k.pending) = {e} \cup Range(Tail(k.pending))
        /\ Once(Tail(k.pending)) /\ e \notin Range(Tail(k.pending))
        /\ Len(Tail(k.pending)) = Len(k.pending) - 1 /\ Len(k.pending) \in Nat
    BY <1>1, <1>3, ShorterIs DEF Sound, OnceEach
  <2>. HIDE DEF e
  <2>2. /\ q \in Client /\ Limits(q)
        /\ q.stage = k.stage /\ q.after = k.after /\ q.upto = k.upto /\ q.more = k.more
        /\ q.pending = k.pending /\ q.rest = k.rest /\ q.sent = k.sent /\ q.done = k.done
        /\ \/ Replayed(k, e) /\ q.send = k.send /\ q.closing = k.closing
           \/ ~Replayed(k, e) /\ q.send = Append(k.send, e) /\ q.closing = k.closing
           \/ ~Replayed(k, e) /\ q.send = k.send /\ q.closing
    <3>1. CASE Replayed(k, e)
      BY <3>1 DEF Live
    <3>2. CASE ~Replayed(k, e)
      <4>1. q = Enqueue(k, e)
        BY <3>2 DEF Live
      <4>2. PICK n \in Client :
              /\ n = Enqueue(k, e) /\ Limits(n)
              /\ n.stage = k.stage /\ n.after = k.after /\ n.upto = k.upto /\ n.more = k.more
              /\ n.pending = k.pending /\ n.rest = k.rest /\ n.sent = k.sent /\ n.done = k.done
              /\ \/ n.send = Append(k.send, e) /\ n.closing = k.closing
                 \/ n.send = k.send /\ n.closing
        BY <2>1, EnqueueIs
      <4>3. q = n
        BY <4>1, <4>2
      <4>. HIDE DEF q
      <4> QED BY <3>2, <4>2, <4>3, Zenon
    <3> QED BY <3>1, <3>2
  <2>. HIDE DEF q
  <2>3. /\ m \in Client /\ Limits(m) /\ m.rest = k.rest
        /\ m.stage = k.stage /\ m.after = k.after /\ m.upto = k.upto /\ m.more = k.more
        /\ m.pending = Tail(k.pending) /\ m.sent = k.sent /\ m.done = k.done
        /\ \/ Replayed(k, e) /\ m.send = k.send /\ m.closing = k.closing
           \/ ~Replayed(k, e) /\ m.send = Append(k.send, e) /\ m.closing = k.closing
           \/ ~Replayed(k, e) /\ m.send = k.send /\ m.closing
    <3>1. /\ m \in Client /\ m.rest = q.rest /\ m.send = q.send /\ m.closing = q.closing
          /\ m.stage = q.stage /\ m.after = q.after /\ m.upto = q.upto /\ m.more = q.more
          /\ m.pending = Tail(k.pending) /\ m.sent = q.sent /\ m.done = q.done
      BY <2>1, <2>2 DEF Client
    <3>2. Limits(m)
      BY <2>1, <2>2, <3>1, HubBounds DEF Limits
    <3>. HIDE DEF m
    <3> QED BY <2>2, <3>1, <3>2, Zenon
  <2>4. Released(k) = m
    BY <1>3, <2>2 DEF Released, m, q, e
  <2>. HIDE DEF m
  <2>5. CASE Replayed(k, e)
    <3>1. Queue(m) = Queue(k) /\ m.closing = k.closing /\ m.send = k.send
      BY <2>3, <2>5 DEF Queue
    <3>2. OpenSound(m)
      BY <1>1, <2>3 DEF Sound, OpenSound
    <3>3. KnownEvents(m)
      BY <2>1, <2>3, <3>1 DEF Sound, KnownEvents
    <3>4. OnceEach(m)
      BY <2>1, <2>3, <3>1 DEF Sound, OnceEach, Replayed
    <3>5. BacklogWhole(m)
      BY <2>3, <3>1 DEF Sound, BacklogWhole, Replayed
    <3>6. k.closing \/ e \in Queue(k)
      BY <1>1, <2>1, <2>5 DEF Sound, BacklogWhole
    <3>7. OutsideSound(m, c)
      BY <2>1, <2>3, <3>1, <3>6 DEF Sound, OutsideSound, Replayed
    <3> QED BY <2>3, <2>4, <3>2, <3>3, <3>4, <3>5, <3>7 DEF Sound
  <2>6. CASE ~Replayed(k, e)
    <3>1. e \notin Queue(k) /\ e \in 1..committed /\ ~Coming(e, c)
      BY <2>1, <2>6 DEF Sound, OnceEach, OutsideSound, KnownEvents
    <3>2. /\ OnceEach(m) /\ Queue(m) \subseteq Queue(k) \cup {e}
          /\ m.send = Append(k.send, e) => Range(m.send) = Range(k.send) \cup {e}
      <4>1. OnceEach(k) /\ Once(m.rest) /\ e \notin Range(k.send) /\ e \notin Range(k.sent)
            /\ e \notin Range(m.rest)
        BY <2>3, <3>1 DEF Sound, OnceEach, Queue
      <4>2. /\ m.after = k.after /\ m.upto = k.upto /\ m.sent = k.sent
            /\ Range(m.rest) \subseteq Range(k.rest)
            /\ Once(m.pending) /\ Range(m.pending) \subseteq Range(k.pending)
            /\ e \notin Range(m.pending) /\ m.send \in {Append(k.send, e), k.send}
        BY <2>1, <2>3
      <4> QED BY <2>1, <2>3, <4>1, <4>2, JoinsOnce
    <3>3. /\ Queue(k) \subseteq Queue(m)
          /\ ~m.closing => Queue(m) = Queue(k) \cup {e} /\ ~k.closing
      BY <2>3, <2>6, <3>2 DEF Queue
    <3>4. OpenSound(m)
      BY <1>1, <2>3 DEF Sound, OpenSound
    <3>5. KnownEvents(m)
      BY <2>1, <2>3, <3>1, <3>2 DEF Sound, KnownEvents
    <3>6. BacklogWhole(m)
      BY <2>3, <3>3 DEF Sound, BacklogWhole, Replayed
    <3>7. OutsideSound(m, c)
      BY <2>1, <2>3, <3>1, <3>2, <3>3 DEF Sound, OutsideSound, Replayed
    <3> QED BY <2>3, <2>4, <3>2, <3>4, <3>5, <3>6, <3>7 DEF Sound
  <2> QED BY <2>5, <2>6
<1>4. CASE k.rest = <<>> /\ k.pending = <<>>
  <2>. DEFINE m == [k EXCEPT !.stage = "ready"]
  <2>1. /\ m \in Client /\ Limits(m) /\ m.stage = "ready"
        /\ m.after = k.after /\ m.upto = k.upto /\ m.more = k.more /\ m.closing = k.closing
        /\ m.pending = k.pending /\ m.rest = k.rest /\ m.sent = k.sent /\ m.done = k.done
        /\ m.send = k.send
    BY DEF Client, Limits, Stage
  <2>2. Released(k) = m
    BY <1>4 DEF Released
  <2>. HIDE DEF m
  <2>3. Queue(m) = Queue(k) /\ m.stage \in Active
    BY <2>1 DEF Queue, Active
  <2>4. Sound(m, c)
    BY <1>1, <2>1, <2>3 DEF Sound, OpenSound, KnownEvents, OnceEach, BacklogWhole,
                           OutsideSound, Replayed
  <2> QED BY <2>1, <2>2, <2>4
<1> QED BY <1>2, <1>3, <1>4


(* A frame is written. *)
LEMMA WrittenIs ==
  ASSUME NEW k \in Client, NEW c, Sound(k, c), Limits(k), k.send # <<>>
  PROVE  \E m \in Client :
            /\ m = [k EXCEPT !.send = Tail(k.send), !.sent = Append(k.sent, Head(k.send))]
            /\ Limits(m) /\ Sound(m, c) /\ Head(k.send) \in 1..committed
<1>. DEFINE e == Head(k.send)
            m == [k EXCEPT !.send = Tail(k.send), !.sent = Append(k.sent, e)]
<1>1. k.send \in Seq(Events) /\ k.sent \in Seq(Events)
  BY DEF Client
<1>2. /\ Tail(k.send) \in Seq(Events) /\ e \in Events
      /\ Range(k.send) = {e} \cup Range(Tail(k.send))
      /\ Once(Tail(k.send)) /\ e \notin Range(Tail(k.send))
      /\ Len(Tail(k.send)) = Len(k.send) - 1 /\ Len(k.send) \in Nat
  BY <1>1, ShorterIs DEF Sound, OnceEach
<1>. HIDE DEF e
<1>3. e \notin Range(k.sent)
  BY <1>2 DEF Sound, OnceEach
<1>4. /\ Append(k.sent, e) \in Seq(Events)
      /\ Range(Append(k.sent, e)) = Range(k.sent) \cup {e} /\ Once(Append(k.sent, e))
  BY <1>1, <1>2, <1>3, LongerIs DEF Sound, OnceEach
<1>5. /\ m \in Client /\ m.send = Tail(k.send) /\ m.sent = Append(k.sent, e)
      /\ m.stage = k.stage /\ m.after = k.after /\ m.upto = k.upto /\ m.more = k.more
      /\ m.pending = k.pending /\ m.rest = k.rest /\ m.closing = k.closing /\ m.done = k.done
  BY <1>2, <1>4 DEF Client
<1>6. m = [k EXCEPT !.send = Tail(k.send), !.sent = Append(k.sent, Head(k.send))]
  BY DEF e
<1>. HIDE DEF m
<1>7. Limits(m)
  BY <1>2, <1>5, HubBounds DEF Limits
<1>8. Queue(m) = Queue(k)
  BY <1>2, <1>4, <1>5 DEF Queue
<1>9. OnceEach(m)
  <2>1. \A x : Replayed(m, x) <=> Replayed(k, x)
    BY <1>5 DEF Replayed
  <2>2. /\ Range(m.send) \subseteq Range(k.send) /\ e \notin Range(m.send)
        /\ Range(m.sent) = Range(k.sent) \cup {e} /\ e \notin Range(m.rest)
    BY <1>2, <1>4, <1>5 DEF Sound, OnceEach
  <2> QED BY <1>2, <1>4, <1>5, <1>8, <2>1, <2>2 DEF Sound, OnceEach
<1>10. OpenSound(m) /\ KnownEvents(m) /\ BacklogWhole(m)
  BY <1>5, <1>8 DEF Sound, OpenSound, KnownEvents, BacklogWhole, Replayed
<1>11. OutsideSound(m, c)
  BY <1>5, <1>8 DEF Sound, OutsideSound, Replayed
<1>12. Head(k.send) \in 1..committed
  BY <1>2 DEF Sound, KnownEvents, Queue, e
<1> QED BY <1>5, <1>6, <1>7, <1>9, <1>10, <1>11, <1>12 DEF Sound

(* The replay reads the backlog: every event up to its last, in order.     *)
LEMMA BacklogIs ==
  ASSUME NEW a \in 0..MaxEvents, committed \in 0..MaxEvents, a <= committed
  PROVE  LET b == Backlog(a)
         IN /\ b \in Seq(Events) /\ Once(b) /\ a + Len(b) <= committed
            /\ Len(b) \in Nat /\ Range(b) = (a + 1)..(a + Len(b))
            /\ a + Len(b) < committed => committed > a + ReplayLimit
<1>. DEFINE n == IF committed - a <= ReplayLimit THEN committed - a ELSE ReplayLimit
            b == [i \in 1..n |-> a + i]
<1>1. n \in Nat /\ a + n <= committed /\ (a + n < committed => committed > a + ReplayLimit)
  BY HubBounds
<1>2. Backlog(a) = b
  BY DEF Backlog
<1>. HIDE DEF n
<1>3. DOMAIN b = 1..n /\ \A i \in 1..n : b[i] = a + i /\ a + i \in Events
  BY <1>1, HubBounds DEF Events
<1>4. b \in [1..n -> Events]
  BY <1>3
<1>5. b \in Seq(Events)
  BY <1>1, <1>4
<1>. HIDE DEF b
<1>6. Len(b) = n
  BY <1>1, <1>3, <1>5, LenProperties
<1>7. Once(b)
  BY <1>1, <1>3, HubBounds DEF Once
<1>8. Range(b) = (a + 1)..(a + n)
  <2>1. Range(b) \subseteq (a + 1)..(a + n)
    BY <1>1, <1>3, HubBounds DEF Range
  <2>2. ASSUME NEW e \in (a + 1)..(a + n) PROVE e \in Range(b)
    <3>1. e - a \in 1..n /\ a + (e - a) = e
      BY <1>1, HubBounds
    <3>2. b[e - a] = e
      BY <1>3, <3>1
    <3> QED BY <1>3, <3>1, <3>2 DEF Range
  <2> QED BY <2>1, <2>2
<1> QED BY <1>1, <1>2, <1>5, <1>6, <1>7, <1>8

(* A connection that has read its backlog. *)
LEMMA ReplayIs ==
  ASSUME NEW k \in Client, NEW c, Sound(k, c), Limits(k), committed \in 0..MaxEvents,
         k.stage = "listed", ~k.done
  PROVE  \E m \in Client :
            /\ m = [k EXCEPT !.stage = "replayed", !.rest = Backlog(k.after),
                             !.upto = k.after + Len(Backlog(k.after)),
                             !.more = committed > k.after + ReplayLimit]
            /\ Limits(m) /\ Sound(m, c)
<1>. DEFINE b == Backlog(k.after)
            u == k.after + Len(b)
            o == committed > k.after + ReplayLimit
            m == [k EXCEPT !.stage = "replayed", !.rest = b, !.upto = u, !.more = o]
<1>1. /\ k.after \in 0..MaxEvents /\ k.after <= committed
      /\ k.rest = <<>> /\ k.send = <<>> /\ k.sent = <<>>
  BY DEF Client, Sound, KnownEvents, OpenSound, Active
<1>2. /\ b \in Seq(Events) /\ Once(b) /\ u \in 0..MaxEvents /\ u <= committed
      /\ k.after <= u /\ Range(b) = (k.after + 1)..u /\ (u < committed => o) /\ o \in BOOLEAN
  BY <1>1, BacklogIs, HubBounds
<1>3. m = [k EXCEPT !.stage = "replayed", !.rest = Backlog(k.after),
                    !.upto = k.after + Len(Backlog(k.after)),
                    !.more = committed > k.after + ReplayLimit]
  OBVIOUS
<1>. HIDE DEF b, u, o
<1>4. /\ m \in Client /\ m.stage = "replayed" /\ m.rest = b /\ m.upto = u /\ m.more = o
      /\ m.after = k.after /\ m.pending = k.pending /\ m.send = k.send /\ m.sent = k.sent
      /\ m.closing = k.closing /\ m.done = k.done
  BY <1>2 DEF Client, Stage
<1>. HIDE DEF m
<1>5. Limits(m)
  BY <1>4 DEF Limits
<1>6. /\ Queue(m) = (k.after + 1)..u /\ m.stage \in Active
      /\ Range(m.send) = {} /\ Range(m.sent) = {}
  BY <1>1, <1>2, <1>4, EmptyIs DEF Queue, Active
<1>7. \A x \in Queue(m) : Replayed(m, x)
  BY <1>1, <1>2, <1>4, <1>6, HubBounds DEF Replayed
<1>8. OpenSound(m)
  BY <1>4, <1>6 DEF OpenSound
<1>9. KnownEvents(m)
  BY <1>1, <1>2, <1>4, <1>6, HubBounds DEF KnownEvents, Sound
<1>10. OnceEach(m)
  BY <1>1, <1>2, <1>4, <1>6, <1>7, EmptyIs DEF OnceEach, Sound
<1>11. BacklogWhole(m)
  BY <1>1, <1>2, <1>4, <1>6, HubBounds DEF BacklogWhole, Replayed, Events
<1>12. OutsideSound(m, c)
  <2>1. m.stage \in {"listed"} \cup Active <=> c \in topic
    BY <1>6 DEF OutsideSound, Sound
  <2>2. ~m.more => \A e \in (m.after + 1)..committed : e \in Queue(m)
    BY <1>1, <1>2, <1>4, <1>6, HubBounds
  <2> QED BY <1>4, <1>7, <2>1, <2>2 DEF OutsideSound, Sound
<1> QED BY <1>3, <1>4, <1>5, <1>8, <1>9, <1>10, <1>11, <1>12 DEF Sound

-----------------------------------------------------------------------------
(* Connections that a step leaves alone stay sound. *)
LEMMA SoundStays ==
  ASSUME NEW k, NEW d, Sound(k, d), committed' = committed, unpublished' = unpublished,
         d \in topic' <=> d \in topic,
         \A e : <<e, d>> \in delivering' <=> <<e, d>> \in delivering
  PROVE  Sound(k, d)'
<1>1. \A e : Coming(e, d)' <=> Coming(e, d)
  BY DEF Coming
<1>2. OutsideSound(k, d)'
  BY <1>1 DEF Sound, OutsideSound
<1>3. (OpenSound(k) /\ KnownEvents(k) /\ OnceEach(k) /\ BacklogWhole(k))'
  BY DEF Sound, OpenSound, KnownEvents, OnceEach, BacklogWhole, Queue, Replayed
<1> QED BY <1>2, <1>3 DEF Sound

(* A step of one connection. *)
LEMMA OneMoves ==
  ASSUME HubInv, NEW c \in 1..dialled, NEW m \in Client, Limits(m),
         client' = [client EXCEPT ![c] = m],
         dialled' = dialled, committed' = committed, unpublished' = unpublished,
         \A d \in 1..dialled : d # c => (d \in topic' <=> d \in topic),
         \A e, d : d # c => (<<e, d>> \in delivering' <=> <<e, d>> \in delivering),
         delivering' \subseteq delivering, topic' \subseteq topic \cup {c},
         conn' \in {conn, 0}, cursor' \in 0..committed, Sound(m, c)'
  PROVE  HubInv'
<1>1. client \in Seq(Client) /\ Len(client) = dialled /\ dialled \in Nat
  BY LenProperties DEF HubInv, HubTypeOK
<1>2. /\ client' \in Seq(Client) /\ Len(client') = dialled /\ client'[c] = m
      /\ \A d \in 1..dialled : d # c => client'[d] = client[d]
  BY <1>1, ExceptSeq
<1>3. HubTypeOK'
  <2>1. \A d \in 1..dialled : Len(client'[d].send) <= SendQueue
                              /\ Len(client'[d].pending) <= MaxPending
    BY <1>2 DEF HubInv, HubTypeOK, Limits
  <2>2. topic' \subseteq 1..dialled /\ conn' \in 0..dialled
    BY <1>1 DEF HubInv, HubTypeOK
  <2> QED BY <1>2, <2>1, <2>2 DEF HubInv, HubTypeOK
<1>4. ASSUME NEW d \in 1..dialled PROVE Sound(client[d], d)'
  <2>1. CASE d = c
    BY <1>2, <2>1
  <2>2. CASE d # c
    <3>1. PICK k : k = client[d]
      OBVIOUS
    <3>2. Sound(k, d)'
      BY <2>2, <3>1, SoundStays DEF HubInv
    <3> QED BY <1>2, <2>2, <3>1, <3>2
  <2> QED BY <2>1, <2>2
<1> QED BY <1>3, <1>4 DEF HubInv

(* What HubInv says of a connection. *)
LEMMA ClientIs ==
  ASSUME HubInv, NEW c \in 1..dialled
  PROVE  /\ client[c] \in Client /\ Limits(client[c]) /\ Sound(client[c], c)
         /\ committed \in 0..MaxEvents /\ cursor \in 0..committed
<1>1. client \in Seq(Client) /\ Len(client) = dialled
  BY DEF HubInv, HubTypeOK
<1> QED BY <1>1, ElementOfSeq DEF HubInv, HubTypeOK, Limits

(* A subscription goes on, outside of the hub's tables. *)
LEMMA ServeKeeps ==
  ASSUME HubInv, NEW c \in 1..dialled, Subscribe(c) \/ Replay(c) \/ Release(c) \/ ReleaseOne(c)
  PROVE  HubInv'
<1>1. PICK k \in Client : k = client[c]
  BY ClientIs
<1>2. /\ Limits(k) /\ Sound(k, c) /\ committed \in 0..MaxEvents /\ cursor \in 0..committed
      /\ ~k.done
  BY <1>1, ClientIs DEF Subscribe, Replay, Release, ReleaseOne
<1>3. UNCHANGED <<committed, unpublished, delivering, topic, conn, dialled, cursor>>
  BY DEF Subscribe, Replay, Release, ReleaseOne, TheReader
<1>4. \E m \in Client : client' = [client EXCEPT ![c] = m] /\ Limits(m) /\ Sound(m, c)
  <2>1. CASE Subscribe(c)
    <3>. DEFINE m == [k EXCEPT !.stage = "named"]
    <3>1. /\ m \in Client /\ m.stage = "named" /\ m.after = k.after /\ m.upto = k.upto
          /\ m.more = k.more /\ m.pending = k.pending /\ m.rest = k.rest /\ m.send = k.send
          /\ m.sent = k.sent /\ m.closing = k.closing /\ m.done = k.done
      BY DEF Client, Stage
    <3>2. client' = [client EXCEPT ![c] = m] /\ k.stage = "none"
      BY <1>1, <2>1 DEF Subscribe
    <3>. HIDE DEF m
    <3>3. Limits(m) /\ Queue(m) = Queue(k)
      BY <1>2, <3>1 DEF Limits, Queue
    <3>4. Sound(m, c)
      BY <1>2, <3>1, <3>2, <3>3 DEF Sound, OpenSound, KnownEvents, OnceEach, BacklogWhole,
                                    OutsideSound, Replayed, Active
    <3> QED BY <3>1, <3>2, <3>3, <3>4
  <2>2. CASE Replay(c)
    <3>1. k.stage = "listed"
      BY <1>1, <2>2 DEF Replay
    <3>2. PICK m \in Client :
            /\ m = [k EXCEPT !.stage = "replayed", !.rest = Backlog(k.after),
                             !.upto = k.after + Len(Backlog(k.after)),
                             !.more = committed > k.after + ReplayLimit]
            /\ Limits(m) /\ Sound(m, c)
      BY <1>2, <3>1, ReplayIs
    <3>3. client' = [client EXCEPT ![c] = m]
      BY <1>1, <2>2, <3>2 DEF Replay
    <3> QED BY <3>2, <3>3
  <2>3. CASE Release(c)
    <3>. DEFINE m == [k EXCEPT !.stage = "releasing"]
    <3>1. /\ m \in Client /\ m.stage = "releasing" /\ m.after = k.after /\ m.upto = k.upto
          /\ m.more = k.more /\ m.pending = k.pending /\ m.rest = k.rest /\ m.send = k.send
          /\ m.sent = k.sent /\ m.closing = k.closing /\ m.done = k.done
      BY DEF Client, Stage
    <3>2. client' = [client EXCEPT ![c] = m] /\ k.stage = "replayed"
      BY <1>1, <2>3 DEF Release
    <3>. HIDE DEF m
    <3>3. Limits(m) /\ Queue(m) = Queue(k)
      BY <1>2, <3>1 DEF Limits, Queue
    <3>4. Sound(m, c)
      BY <1>2, <3>1, <3>2, <3>3 DEF Sound, OpenSound, KnownEvents, OnceEach, BacklogWhole,
                                    OutsideSound, Replayed, Active
    <3> QED BY <3>1, <3>2, <3>3, <3>4
  <2>4. CASE ReleaseOne(c)
    <3>1. client' = [client EXCEPT ![c] = Released(k)] /\ k.stage = "releasing"
      BY <1>1, <2>4 DEF ReleaseOne
    <3> QED BY <1>2, <3>1, ReleasedIs
  <2> QED BY <2>1, <2>2, <2>3, <2>4
<1>5. PICK m \in Client : client' = [client EXCEPT ![c] = m] /\ Limits(m) /\ Sound(m, c)
  BY <1>4
<1>6. Sound(m, c)'
  BY <1>3, <1>5, SoundStays
<1> QED BY <1>2, <1>3, <1>5, <1>6, OneMoves

(* The writer takes a frame from the queue. *)
LEMMA WriteKeeps ==
  ASSUME HubInv, NEW c \in 1..dialled, Write(c)
  PROVE  HubInv' /\ Head(client[c].send) \in 1..committed
<1>1. PICK k \in Client : k = client[c]
  BY ClientIs
<1>2. /\ Limits(k) /\ Sound(k, c) /\ committed \in 0..MaxEvents /\ cursor \in 0..committed
      /\ k.send # <<>>
  BY <1>1, ClientIs DEF Write
<1>3. UNCHANGED <<committed, unpublished, delivering, topic, conn, dialled>>
  BY DEF Write
<1>4. PICK m \in Client :
        /\ m = [k EXCEPT !.send = Tail(k.send), !.sent = Append(k.sent, Head(k.send))]
        /\ Limits(m) /\ Sound(m, c) /\ Head(k.send) \in 1..committed
  BY <1>2, WrittenIs
<1>5. client' = [client EXCEPT ![c] = m]
  BY <1>1, <1>4 DEF Write
<1>6. cursor' \in 0..committed
  BY <1>1, <1>2, <1>4 DEF Write
<1>7. Sound(m, c)'
  BY <1>3, <1>4, SoundStays
<1> QED BY <1>1, <1>3, <1>4, <1>5, <1>6, <1>7, OneMoves


(* A connection enters the hub's table. *)
LEMMA ListKeeps ==
  ASSUME HubInv, NEW c \in 1..dialled, List(c)
  PROVE  HubInv'
<1>1. PICK k \in Client : k = client[c]
  BY ClientIs
<1>2. /\ Limits(k) /\ Sound(k, c) /\ committed \in 0..MaxEvents /\ cursor \in 0..committed
      /\ k.stage = "named" /\ topic' = topic \cup {c}
  BY <1>1, ClientIs DEF List
<1>3. UNCHANGED <<committed, unpublished, delivering, conn, dialled, cursor>>
  BY DEF List, TheReader
<1>. DEFINE m == [k EXCEPT !.stage = "listed"]
<1>4. /\ m \in Client /\ m.stage = "listed" /\ m.after = k.after /\ m.upto = k.upto
      /\ m.more = k.more /\ m.pending = k.pending /\ m.rest = k.rest /\ m.send = k.send
      /\ m.sent = k.sent /\ m.closing = k.closing /\ m.done = k.done
  BY DEF Client, Stage
<1>5. client' = [client EXCEPT ![c] = m]
  BY <1>1 DEF List
<1>. HIDE DEF m
<1>6. Limits(m) /\ Queue(m) = Queue(k)
  BY <1>2, <1>4 DEF Limits, Queue
<1>7. Sound(m, c)'
  <2>1. \A e : Coming(e, c)' <=> Coming(e, c)
    BY <1>3 DEF Coming
  <2>2. (OpenSound(m) /\ KnownEvents(m) /\ OnceEach(m) /\ BacklogWhole(m))'
    BY <1>2, <1>3, <1>4, <1>6 DEF Sound, OpenSound, KnownEvents, OnceEach, BacklogWhole, Queue,
                                 Replayed, Active
  <2>3. OutsideSound(m, c)'
    BY <1>2, <1>3, <1>4, <1>6, <2>1 DEF Sound, OutsideSound, Queue, Replayed, Active
  <2> QED BY <2>2, <2>3 DEF Sound
<1> QED BY <1>2, <1>3, <1>4, <1>5, <1>6, <1>7, OneMoves

(* A closed connection holds nothing, and nothing is said of it. *)
LEMMA CloseKeeps ==
  ASSUME HubInv, NEW c \in 1..dialled, Close(c)
  PROVE  HubInv'
<1>1. PICK k \in Client : k = client[c]
  BY ClientIs
<1>2. /\ Sound(k, c) /\ committed \in 0..MaxEvents /\ cursor \in 0..committed
      /\ topic' = topic \ {c} /\ conn' = 0
  BY <1>1, ClientIs DEF Close
<1>3. UNCHANGED <<committed, unpublished, delivering, dialled, cursor>>
  BY DEF Close
<1>. DEFINE n == NewClient(0)
            s == IF k.stage = "named" THEN "named" ELSE "none"
            m == [n EXCEPT !.done = TRUE, !.stage = s]
<1>4. client' = [client EXCEPT ![c] = m]
  BY <1>1 DEF Close
<1>5. /\ m \in Client /\ m.stage \in {"none", "named"} /\ m.after = 0 /\ m.upto = 0
      /\ m.pending = <<>> /\ m.rest = <<>> /\ m.send = <<>> /\ m.sent = <<>> /\ m.done
  <2>1. /\ n \in Client /\ n.after = 0 /\ n.upto = 0
        /\ n.pending = <<>> /\ n.rest = <<>> /\ n.send = <<>> /\ n.sent = <<>>
    BY HubBounds, NewClientIs DEF NewClient
  <2>2. s \in {"none", "named"}
    OBVIOUS
  <2>. HIDE DEF n, s
  <2> QED BY <2>1, <2>2 DEF Client, Stage
<1>. HIDE DEF m
<1>6. Limits(m)
  BY <1>5, HubBounds, EmptyIs DEF Limits
<1>7. Queue(m) = {} /\ Range(m.pending) = {} /\ m.stage \notin {"listed"} \cup Active
  BY <1>5, EmptyIs DEF Queue, Active
<1>8. Sound(m, c)'
  <2>1. /\ \A e : Coming(e, c)' <=> Coming(e, c)
        /\ c \notin topic'
    BY <1>2, <1>3 DEF Coming
  <2>2. Queue(m)' = {} /\ Range(m.pending)' = {}
    BY <1>7 DEF Queue
  <2>3. (OpenSound(m) /\ KnownEvents(m))'
    BY <1>2, <1>3, <1>5, <1>7, <2>2 DEF OpenSound, KnownEvents
  <2>4. OnceEach(m)'
    BY <1>5, <1>7, <2>2, EmptyIs DEF OnceEach
  <2>5. BacklogWhole(m)'
    BY <1>7 DEF BacklogWhole
  <2>6. OutsideSound(m, c)'
    BY <1>2, <1>3, <1>7, <2>1, <2>2 DEF Sound, OutsideSound
  <2> QED BY <2>3, <2>4, <2>5, <2>6 DEF Sound
<1> QED BY <1>2, <1>3, <1>4, <1>5, <1>6, <1>8, OneMoves

(* What deliver makes of an event that is still to come. *)
LEMMA ReceivedIs ==
  ASSUME NEW k \in Client, NEW c, NEW e \in Events, Sound(k, c), Limits(k),
         committed \in 0..MaxEvents, e \in 1..committed, Coming(e, c)
  PROVE  \E m \in Client :
            /\ m = Received(k, e) /\ Limits(m) /\ OpenSound(m) /\ KnownEvents(m) /\ OnceEach(m)
            /\ BacklogWhole(m)
            /\ m.stage = k.stage /\ m.after = k.after /\ m.upto = k.upto /\ m.more = k.more
            /\ Queue(k) \subseteq Queue(m) /\ Queue(m) \subseteq Queue(k) \cup {e}
            /\ Range(k.pending) \subseteq Range(m.pending)
            /\ Range(m.pending) \subseteq Range(k.pending) \cup {e}
            /\ k.closing => m.closing
            /\ k.stage \in Active /\ ~m.closing => e \in Queue(m) \cup Range(m.pending)
<1>1. /\ k.pending \in Seq(Events) /\ k.send \in Seq(Events) /\ k.stage \in Stage
  BY DEF Client
<1>2. e \notin Range(k.pending) /\ (e \in Queue(k) => Replayed(k, e))
  BY DEF Sound, OutsideSound
<1>3. CASE k.stage = "ready" /\ Replayed(k, e)
  <2>1. Received(k, e) = k
    BY <1>3 DEF Received, Live
  <2>2. ~k.closing => e \in Queue(k)
    BY <1>3 DEF Sound, BacklogWhole, Active
  <2> QED BY <2>1, <2>2 DEF Sound
<1>4. CASE k.stage = "ready" /\ ~Replayed(k, e)
  <2>1. PICK m \in Client :
          /\ m = Enqueue(k, e) /\ Limits(m)
          /\ m.stage = k.stage /\ m.after = k.after /\ m.upto = k.upto /\ m.more = k.more
          /\ m.pending = k.pending /\ m.rest = k.rest /\ m.sent = k.sent /\ m.done = k.done
          /\ \/ m.send = Append(k.send, e) /\ m.closing = k.closing
             \/ m.send = k.send /\ m.closing
    BY EnqueueIs
  <2>2. m = Received(k, e)
    BY <1>4, <2>1 DEF Received, Live
  <2>3. e \notin Queue(k)
    BY <1>2, <1>4
  <2>4. /\ OnceEach(m) /\ Queue(m) \subseteq Queue(k) \cup {e}
        /\ m.send = Append(k.send, e) => Range(m.send) = Range(k.send) \cup {e}
    <3>1. /\ OnceEach(k) /\ Once(k.rest) /\ Once(k.pending)
          /\ e \notin Range(k.send) /\ e \notin Range(k.sent) /\ e \notin Range(k.rest)
      BY <2>3 DEF Sound, OnceEach, Queue
    <3>2. /\ m.send \in {Append(k.send, e), k.send}
          /\ Once(m.rest) /\ Range(m.rest) \subseteq Range(k.rest) /\ e \notin Range(m.rest)
          /\ Once(m.pending) /\ Range(m.pending) \subseteq Range(k.pending)
          /\ e \notin Range(m.pending)
      BY <1>2, <2>1, <3>1
    <3>3. m.after = k.after /\ m.upto = k.upto /\ m.sent = k.sent
      BY <2>1
    <3>4. m.send = Append(k.send, e) \/ m.send = k.send
      BY <2>1
    <3> QED BY <3>1, <3>2, <3>3, <3>4, JoinsOnce
  <2>5. /\ Queue(k) \subseteq Queue(m)
        /\ ~m.closing => Queue(m) = Queue(k) \cup {e} /\ ~k.closing
    BY <2>1, <2>4 DEF Queue
  <2>6. OpenSound(m)
    BY <1>4, <2>1 DEF Sound, OpenSound, Active
  <2>7. KnownEvents(m)
    BY <2>1, <2>4 DEF Sound, KnownEvents
  <2>8. BacklogWhole(m)
    BY <2>1, <2>5 DEF Sound, BacklogWhole, Replayed
  <2>9. /\ k.closing => m.closing
        /\ ~m.closing => e \in Queue(m)
    BY <2>5
  <2>10. Range(k.pending) = Range(m.pending)
    BY <2>1
  <2> QED BY <2>1, <2>2, <2>4, <2>5, <2>6, <2>7, <2>8, <2>9, <2>10
<1>5. CASE k.stage # "ready" /\ Len(k.pending) < MaxPending
  <2>. DEFINE p == Append(k.pending, e)
              m == [k EXCEPT !.pending = p]
  <2>1. /\ p \in Seq(Events) /\ Range(p) = Range(k.pending) \cup {e} /\ Once(p)
        /\ Len(p) = Len(k.pending) + 1 /\ Len(k.pending) \in Nat
    BY <1>1, <1>2, LongerIs DEF Sound, OnceEach
  <2>2. Received(k, e) = m
    BY <1>5 DEF Received, HoldBack
  <2>. HIDE DEF p
  <2>3. /\ m \in Client /\ m.stage = k.stage /\ m.after = k.after /\ m.upto = k.upto
        /\ m.more = k.more /\ m.pending = p /\ m.rest = k.rest /\ m.send = k.send
        /\ m.sent = k.sent /\ m.closing = k.closing /\ m.done = k.done
    BY <2>1 DEF Client
  <2>. HIDE DEF m
  <2>4. Limits(m)
    BY <1>5, <2>1, <2>3, HubBounds DEF Limits
  <2>5. Queue(m) = Queue(k) /\ Range(m.pending) = Range(k.pending) \cup {e}
    BY <2>1, <2>3 DEF Queue
  <2>6. OpenSound(m) /\ BacklogWhole(m)
    BY <2>3, <2>5 DEF Sound, OpenSound, BacklogWhole, Replayed
  <2>7. KnownEvents(m)
    BY <2>3, <2>5 DEF Sound, KnownEvents
  <2>8. OnceEach(m)
    <3>1. \A x \in Queue(m) : Replayed(m, x) \/ x \notin Range(m.pending)
      BY <1>2, <2>3, <2>5 DEF Sound, OnceEach, Replayed
    <3> QED BY <2>1, <2>3, <3>1 DEF Sound, OnceEach
  <2> QED BY <2>2, <2>3, <2>4, <2>5, <2>6, <2>7, <2>8
<1>6. CASE k.stage # "ready" /\ ~(Len(k.pending) < MaxPending)
  <2>. DEFINE m == [k EXCEPT !.closing = TRUE]
  <2>1. Received(k, e) = m
    BY <1>6 DEF Received, HoldBack
  <2>2. /\ m \in Client /\ m.stage = k.stage /\ m.after = k.after /\ m.upto = k.upto
        /\ m.more = k.more /\ m.pending = k.pending /\ m.rest = k.rest /\ m.send = k.send
        /\ m.sent = k.sent /\ m.closing /\ m.done = k.done
    BY DEF Client
  <2>. HIDE DEF m
  <2>3. Limits(m) /\ Queue(m) = Queue(k)
    BY <2>2 DEF Limits, Queue
  <2>4. OpenSound(m) /\ KnownEvents(m) /\ OnceEach(m) /\ BacklogWhole(m)
    BY <2>2, <2>3 DEF Sound, OpenSound, KnownEvents, OnceEach, BacklogWhole, Replayed
  <2> QED BY <2>1, <2>2, <2>3, <2>4
<1> QED BY <1>3, <1>4, <1>5, <1>6

(* Publish hands an event to one connection. *)
LEMMA DeliverKeeps ==
  ASSUME HubInv, NEW c \in 1..dialled, NEW e \in Events, Deliver(e, c)
  PROVE  HubInv'
<1>1. PICK k \in Client : k = client[c]
  BY ClientIs
<1>2. /\ Limits(k) /\ Sound(k, c) /\ committed \in 0..MaxEvents /\ cursor \in 0..committed
      /\ delivering \subseteq (1..committed) \X (1..dialled) /\ topic \subseteq 1..dialled
  BY <1>1, ClientIs DEF HubInv, HubTypeOK
<1>3. UNCHANGED <<committed, unpublished, topic, conn, dialled, cursor>>
  BY DEF Deliver, TheReader
<1>4. /\ <<e, c>> \in delivering /\ delivering' = delivering \ {<<e, c>>}
      /\ Coming(e, c) /\ e \in 1..committed
  BY <1>2 DEF Deliver, Coming
<1>5. \E m \in Client : client' = [client EXCEPT ![c] = m] /\ Limits(m) /\ Sound(m, c)'
  <2>1. CASE k.done \/ k.stage = "none"
    <3>1. client' = [client EXCEPT ![c] = k]
      <4>1. client \in [1..dialled -> Client]
        BY LenProperties DEF HubInv, HubTypeOK
      <4> QED BY <1>1, <2>1, <4>1 DEF Deliver
    <3>2. k.stage \notin Active
      BY <1>2, <2>1 DEF Sound, OpenSound, Active
    <3>3. (OpenSound(k) /\ KnownEvents(k) /\ OnceEach(k) /\ BacklogWhole(k))'
      BY <1>2, <1>3 DEF Sound, OpenSound, KnownEvents, OnceEach, BacklogWhole, Queue, Replayed
    <3>4. OutsideSound(k, c)'
      BY <1>2, <1>3, <1>4, <3>2 DEF Sound, OutsideSound, Coming
    <3> QED BY <1>2, <3>1, <3>3, <3>4 DEF Sound
  <2>2. CASE ~(k.done \/ k.stage = "none")
    <3>1. PICK m \in Client :
            /\ m = Received(k, e) /\ Limits(m) /\ OpenSound(m) /\ KnownEvents(m) /\ OnceEach(m)
            /\ BacklogWhole(m)
            /\ m.stage = k.stage /\ m.after = k.after /\ m.upto = k.upto /\ m.more = k.more
            /\ Queue(k) \subseteq Queue(m) /\ Queue(m) \subseteq Queue(k) \cup {e}
            /\ Range(k.pending) \subseteq Range(m.pending)
            /\ Range(m.pending) \subseteq Range(k.pending) \cup {e}
            /\ k.closing => m.closing
            /\ k.stage \in Active /\ ~m.closing => e \in Queue(m) \cup Range(m.pending)
      BY <1>2, <1>4, ReceivedIs
    <3>2. client' = [client EXCEPT ![c] = m]
      BY <1>1, <2>2, <3>1 DEF Deliver
    <3>3. (OpenSound(m) /\ KnownEvents(m) /\ OnceEach(m) /\ BacklogWhole(m))'
      BY <1>3, <3>1 DEF OpenSound, KnownEvents, OnceEach, BacklogWhole, Queue, Replayed
    <3>4. OutsideSound(m, c)'
      <4>1. \A x : Coming(x, c)' => Coming(x, c) /\ (x \in Events => x # e)
        BY <1>2, <1>3, <1>4 DEF Coming, Sound, OutsideSound
      <4>2. \A x : Coming(x, c) => Coming(x, c)' \/ x = e
        BY <1>3, <1>4 DEF Coming
      <4>3. (m.stage \in {"listed"} \cup Active <=> c \in topic)'
        BY <1>2, <1>3, <3>1 DEF Sound, OutsideSound
      <4>4. (\A x \in Events : x \in unpublished => <<x, c>> \notin delivering)'
        BY <1>2, <1>3, <1>4 DEF Sound, OutsideSound
      <4>5. (\A x \in Events : Coming(x, c) =>
               x \notin Range(m.pending) /\ (x \in Queue(m) => Replayed(m, x)))'
        <5>1. ASSUME NEW x \in Events, Coming(x, c)'
              PROVE  x \notin Range(m.pending) /\ (x \in Queue(m) => Replayed(m, x))
          BY <1>2, <3>1, <4>1, <5>1 DEF Sound, OutsideSound, Replayed
        <5> QED BY <5>1 DEF Queue, Replayed
      <4>6. (m.stage \in Active /\ ~m.closing /\ ~m.more =>
               \A x \in (m.after + 1)..committed :
                 Coming(x, c) \/ x \in Queue(m) \cup Range(m.pending))'
        <5>1. ASSUME m.stage \in Active, ~m.closing, ~m.more,
                     NEW x \in (m.after + 1)..committed
              PROVE  Coming(x, c)' \/ x \in Queue(m) \cup Range(m.pending)
          <6>1. Coming(x, c) \/ x \in Queue(k) \cup Range(k.pending)
            BY <1>2, <3>1, <5>1 DEF Sound, OutsideSound
          <6> QED BY <3>1, <4>2, <5>1, <6>1
        <5> QED BY <1>3, <5>1 DEF Queue
      <4> QED BY <4>3, <4>4, <4>5, <4>6 DEF OutsideSound
    <3> QED BY <3>1, <3>2, <3>3, <3>4 DEF Sound
  <2> QED BY <2>1, <2>2
<1> QED BY <1>2, <1>3, <1>4, <1>5, OneMoves


(* Publish hands an event to those subscribed, and to them alone. *)
LEMMA PublishKeeps ==
  ASSUME HubInv, NEW e \in unpublished, Publish(e)
  PROVE  HubInv'
<1>1. /\ unpublished' = unpublished \ {e}
      /\ delivering' = delivering \cup {<<e, c>> : c \in topic}
      /\ UNCHANGED <<committed, topic, client, conn, dialled, cursor>>
  BY DEF Publish, TheReader
<1>2. e \in 1..committed /\ topic \subseteq 1..dialled /\ e \in Events
  BY HubBounds DEF HubInv, HubTypeOK, Events
<1>3. HubTypeOK'
  BY <1>1, <1>2 DEF HubInv, HubTypeOK
<1>4. ASSUME NEW c \in 1..dialled PROVE Sound(client[c], c)'
  <2>1. PICK k \in Client : k = client[c]
    BY ClientIs
  <2>2. Sound(k, c) /\ committed \in 0..MaxEvents
    BY <2>1, ClientIs
  <2>3. (OpenSound(k) /\ KnownEvents(k) /\ OnceEach(k) /\ BacklogWhole(k))'
    BY <1>1, <2>2 DEF Sound, OpenSound, KnownEvents, OnceEach, BacklogWhole, Queue, Replayed
  <2>4. \A x : Coming(x, c)' => Coming(x, c)
    BY <1>1 DEF Coming
  <2>5. c \in topic => \A x : Coming(x, c) => Coming(x, c)'
    BY <1>1 DEF Coming
  <2>6. (\A x \in Events : x \in unpublished => <<x, c>> \notin delivering)'
    BY <1>1, <2>2 DEF Sound, OutsideSound
  <2>7. OutsideSound(k, c)'
    <3>1. (k.stage \in {"listed"} \cup Active <=> c \in topic)'
      BY <1>1, <2>2 DEF Sound, OutsideSound
    <3>2. (\A x \in Events : Coming(x, c) =>
             x \notin Range(k.pending) /\ (x \in Queue(k) => Replayed(k, x)))'
      BY <2>2, <2>4 DEF Sound, OutsideSound, Queue, Replayed
    <3>3. (k.stage \in Active /\ ~k.closing /\ ~k.more =>
             \A x \in (k.after + 1)..committed :
               Coming(x, c) \/ x \in Queue(k) \cup Range(k.pending))'
      <4>1. k.stage \in Active => c \in topic
        BY <2>2 DEF Sound, OutsideSound
      <4> QED BY <1>1, <2>2, <2>5, <4>1 DEF Sound, OutsideSound, Queue
    <3> QED BY <2>6, <3>1, <3>2, <3>3 DEF OutsideSound
  <2>8. client'[c] = k
    BY <1>1, <2>1
  <2> QED BY <2>3, <2>7, <2>8 DEF Sound
<1> QED BY <1>1, <1>3, <1>4 DEF HubInv

(* A new connection is in no table. *)
LEMMA DialKeeps ==
  ASSUME HubInv, Dial
  PROVE  HubInv'
<1>. DEFINE n == dialled + 1
<1>1. /\ client' = Append(client, NewClient(cursor)) /\ dialled' = n /\ conn' = n
      /\ dialled < MaxConns /\ UNCHANGED <<committed, unpublished, delivering, topic, cursor>>
  BY DEF Dial
<1>2. /\ committed \in 0..MaxEvents /\ cursor \in 0..committed /\ topic \subseteq 1..dialled
      /\ delivering \subseteq (1..committed) \X (1..dialled)
      /\ client \in Seq(Client) /\ Len(client) = dialled /\ dialled \in Nat
      /\ unpublished \subseteq 1..committed
  BY LenProperties DEF HubInv, HubTypeOK
<1>3. PICK m \in Client :
        /\ m = NewClient(cursor) /\ Limits(m) /\ m.stage = "none" /\ m.after <= committed
        /\ m.upto = 0
        /\ m.pending = <<>> /\ m.rest = <<>> /\ m.send = <<>> /\ m.sent = <<>>
  <2>1. cursor \in 0..MaxEvents /\ cursor <= committed
    BY <1>2, HubBounds
  <2>2. NewClient(cursor) \in Client /\ Limits(NewClient(cursor))
    BY <2>1, NewClientIs
  <2>3. LET m == NewClient(cursor)
        IN /\ m.stage = "none" /\ m.after <= committed /\ m.upto = 0
           /\ m.pending = <<>> /\ m.rest = <<>> /\ m.send = <<>> /\ m.sent = <<>>
    BY <2>1 DEF NewClient
  <2> QED BY <2>2, <2>3
<1>4. /\ client' \in Seq(Client) /\ Len(client') = n /\ client'[n] = m
      /\ \A c \in 1..dialled : client'[c] = client[c]
  BY <1>1, <1>2, <1>3, AppendProperties
<1>5. HubTypeOK'
  <2>1. \A c \in 1..n : Len(client'[c].send) <= SendQueue /\ Len(client'[c].pending) <= MaxPending
    BY <1>2, <1>3, <1>4 DEF HubInv, HubTypeOK, Limits
  <2>2. /\ committed' \in 0..MaxEvents /\ unpublished' \subseteq 1..committed' 
        /\ delivering' \subseteq (1..committed') \X (1..n) /\ topic' \subseteq 1..n
        /\ conn' \in 0..n /\ cursor' \in 0..committed' /\ n <= MaxConns
    BY <1>1, <1>2, HubBounds
  <2> QED BY <1>1, <1>4, <2>1, <2>2 DEF HubTypeOK
<1>6. ASSUME NEW c \in 1..n PROVE Sound(client[c], c)'
  <2>1. CASE c \in 1..dialled
    <3>1. PICK k : k = client[c]
      OBVIOUS
    <3>2. Sound(k, c)'
      BY <1>1, <2>1, <3>1, SoundStays DEF HubInv
    <3> QED BY <1>4, <2>1, <3>1, <3>2
  <2>2. CASE c = n
    <3>1. Queue(m) = {} /\ Range(m.pending) = {} /\ m.stage \notin {"listed"} \cup Active
      BY <1>3, EmptyIs DEF Queue, Active
    <3>2. c \notin topic /\ \A e : <<e, c>> \notin delivering
      BY <1>2, <2>2
    <3>3. OpenSound(m)' /\ BacklogWhole(m)'
      BY <1>3, <3>1 DEF OpenSound, BacklogWhole
    <3>4. KnownEvents(m)'
      BY <1>1, <1>2, <1>3, <3>1 DEF KnownEvents, Queue
    <3>5. OnceEach(m)'
      BY <1>3, <3>1, EmptyIs DEF OnceEach, Queue
    <3>6. OutsideSound(m, c)'
      BY <1>1, <3>1, <3>2 DEF OutsideSound, Coming, Queue
    <3>7. client'[c] = m
      BY <1>4, <2>2
    <3> QED BY <3>3, <3>4, <3>5, <3>6, <3>7 DEF Sound
  <2> QED BY <1>2, <2>1, <2>2
<1> QED BY <1>1, <1>5, <1>6 DEF HubInv

(* A new event comes to everyone. *)
LEMMA CommitKeeps ==
  ASSUME HubInv, Commit, UNCHANGED hubRest, cursor' \in {cursor, committed'}
  PROVE  HubInv' /\ committed' = committed + 1 /\ committed \in Nat
<1>. DEFINE n == committed + 1
<1>1. /\ committed' = n /\ unpublished' = unpublished \cup {n} /\ committed < MaxEvents
      /\ UNCHANGED <<delivering, topic, client, conn, dialled>>
  BY DEF Commit, hubRest
<1>2. /\ committed \in 0..MaxEvents /\ cursor \in 0..committed
      /\ delivering \subseteq (1..committed) \X (1..dialled)
      /\ unpublished \subseteq 1..committed
  BY DEF HubInv, HubTypeOK
<1>3. HubTypeOK'
  <2>1. /\ committed' \in 0..MaxEvents /\ unpublished' \subseteq 1..committed'
        /\ delivering' \subseteq (1..committed') \X (1..dialled') /\ cursor' \in 0..committed'
    BY <1>1, <1>2, HubBounds
  <2> QED BY <1>1, <2>1 DEF HubInv, HubTypeOK
<1>4. ASSUME NEW c \in 1..dialled PROVE Sound(client[c], c)'
  <2>1. PICK k \in Client : k = client[c]
    BY ClientIs
  <2>2. Sound(k, c) /\ k.after \in Nat
    BY <2>1, ClientIs, HubBounds DEF Client
  <2>3. (OpenSound(k) /\ OnceEach(k) /\ BacklogWhole(k))'
    BY <2>2 DEF Sound, OpenSound, OnceEach, BacklogWhole, Queue, Replayed
  <2>4. KnownEvents(k)'
    BY <1>1, <1>2, <2>1, <2>2, HubBounds DEF Sound, KnownEvents, Queue, Client
  <2>5. n \notin Queue(k) \cup Range(k.pending) /\ <<n, c>> \notin delivering
    <3>1. n \notin 1..committed
      BY <1>2
    <3>2. Queue(k) \cup Range(k.pending) \subseteq 1..committed
      BY <2>2 DEF Sound, KnownEvents
    <3> QED BY <1>2, <3>1, <3>2
  <2>6. \A x : Coming(x, c)' <=> Coming(x, c) \/ x = n
    BY <1>1 DEF Coming
  <2>7. OutsideSound(k, c)'
    <3>1. (k.stage \in {"listed"} \cup Active <=> c \in topic)'
      BY <1>1, <2>2 DEF Sound, OutsideSound
    <3>2. (\A x \in Events : x \in unpublished => <<x, c>> \notin delivering)'
      BY <1>1, <2>2, <2>5 DEF Sound, OutsideSound
    <3>3. (\A x \in Events : Coming(x, c) =>
             x \notin Range(k.pending) /\ (x \in Queue(k) => Replayed(k, x)))'
      BY <2>2, <2>5, <2>6 DEF Sound, OutsideSound, Queue, Replayed
    <3>4. (k.stage \in Active /\ ~k.closing /\ ~k.more =>
             \A x \in (k.after + 1)..committed :
               Coming(x, c) \/ x \in Queue(k) \cup Range(k.pending))'
      <4>1. \A x \in (k.after + 1)..n : x = n \/ x \in (k.after + 1)..committed
        BY <1>2, <2>2, HubBounds
      <4> QED BY <1>1, <2>2, <2>6, <4>1 DEF Sound, OutsideSound, Queue
    <3> QED BY <3>1, <3>2, <3>3, <3>4 DEF OutsideSound
  <2> QED BY <1>1, <2>1, <2>3, <2>4, <2>7 DEF Sound
<1> QED BY <1>1, <1>2, <1>3, <1>4, HubBounds DEF HubInv

(* No event and no connection. *)
LEMMA HubStarts == HubInit => HubInv
<1>1. HubInit => HubTypeOK
  BY HubBounds, EmptySeq DEF HubInit, HubTypeOK
<1> QED BY <1>1 DEF HubInit, HubInv

(* A step of others. *)
LEMMA HubStays ==
  ASSUME HubInv, UNCHANGED hubVars
  PROVE  HubInv'
<1>1. HubTypeOK'
  BY DEF HubInv, HubTypeOK, hubVars
<1>2. ASSUME NEW c \in 1..dialled PROVE Sound(client[c], c)'
  <2>1. PICK k : k = client[c]
    OBVIOUS
  <2>2. Sound(k, c)'
    BY <2>1, SoundStays DEF HubInv, hubVars
  <2> QED BY <2>1, <2>2 DEF hubVars
<1> QED BY <1>1, <1>2 DEF HubInv, hubVars

(* Every step of the hub itself keeps its invariant. *)
LEMMA HubsKeep ==
  ASSUME HubInv, Hubs
  PROVE  HubInv'
BY PublishKeeps, DeliverKeeps, ServeKeeps, ListKeeps, CloseKeeps, DialKeeps DEF Hubs, Serve, Dials

-----------------------------------------------------------------------------
(* The Run and its agent. *)

RunTyped ==
  /\ status \in {"pending", "running", "over"}
  /\ messages \subseteq 1..committed
  /\ queued \subseteq messages /\ prompt \subseteq messages /\ job \subseteq messages
  /\ listening \in BOOLEAN /\ posting \in BOOLEAN
  /\ inbox \subseteq messages

StreamInv == HubInv /\ RunTyped /\ RunInv

(* A queued Run, and nobody listens. *)
LEMMA StreamStarts == Init => StreamInv
BY HubStarts DEF Init, StreamInv, HubInit, RunTyped, RunInv

(* A step of the Run commits an event, which is no message yet. *)
LEMMA RunKeeps ==
  ASSUME StreamInv, SteerRun \/ AppendRunEvent \/ Claim \/ ReportRun
  PROVE  StreamInv'
<1>1. Commit /\ UNCHANGED hubRest /\ cursor' \in {cursor, committed'}
  BY DEF SteerRun, AppendRunEvent, Claim, ReportRun
<1>2. HubInv' /\ committed' = committed + 1 /\ committed \in Nat
  BY <1>1, CommitKeeps DEF StreamInv
<1>3. /\ messages \subseteq 1..committed /\ 1..committed \subseteq 1..committed'
      /\ committed' \in 1..committed' /\ committed' \notin 1..committed
  BY <1>2 DEF StreamInv, RunTyped
<1>4. CASE SteerRun
  <2>1. RunTyped'
    BY <1>3, <1>4 DEF SteerRun, StreamInv, RunTyped
  <2>2. RunInv'
    BY <1>3, <1>4 DEF SteerRun, StreamInv, RunTyped, RunInv
  <2> QED BY <1>2, <2>1, <2>2 DEF StreamInv
<1>5. CASE AppendRunEvent
  <2>1. RunTyped' /\ RunInv'
    BY <1>3, <1>5 DEF AppendRunEvent, StreamInv, RunTyped, RunInv
  <2> QED BY <1>2, <2>1 DEF StreamInv
<1>6. CASE Claim
  <2>1. RunTyped' /\ RunInv'
    BY <1>3, <1>6 DEF Claim, StreamInv, RunTyped, RunInv
  <2> QED BY <1>2, <2>1 DEF StreamInv
<1>7. CASE ReportRun
  <2>1. posting' \in BOOLEAN
    BY <1>7 DEF ReportRun, StreamInv, RunTyped
  <2>2. RunTyped' /\ RunInv'
    BY <1>3, <1>7, <2>1 DEF ReportRun, StreamInv, RunTyped, RunInv
  <2> QED BY <1>2, <2>2 DEF StreamInv
<1> QED BY <1>4, <1>5, <1>6, <1>7

(* The listener passes on a message that the prompt does not have. *)
LEMMA HearKeeps ==
  ASSUME StreamInv, NEW c \in 1..dialled, Hear(c)
  PROVE  StreamInv'
<1>1. HubInv' /\ committed' = committed
  BY WriteKeeps DEF Hear, StreamInv, Write
<1>2. /\ UNCHANGED <<status, messages, queued, prompt, job, listening, posting>>
      /\ inbox' \subseteq inbox \cup (messages \ queued)
  BY DEF Hear, Listen
<1>3. RunTyped' /\ RunInv'
  BY <1>1, <1>2 DEF StreamInv, RunTyped, RunInv
<1> QED BY <1>1, <1>3 DEF StreamInv

(* Every step keeps the invariant. *)
LEMMA StreamKeeps == StreamInv /\ [Next]_vars => StreamInv'
<1>. SUFFICES ASSUME StreamInv, [Next]_vars PROVE StreamInv'
  OBVIOUS
<1>1. CASE SteerRun \/ AppendRunEvent \/ Claim \/ ReportRun
  BY <1>1, RunKeeps
<1>2. CASE StopListening
  <2>1. HubInv'
    BY <1>2, HubStays DEF StopListening, StreamInv
  <2>2. RunTyped' /\ RunInv'
    BY <1>2 DEF StopListening, StreamInv, RunTyped, RunInv, hubVars
  <2> QED BY <2>1, <2>2 DEF StreamInv
<1>3. ASSUME NEW c \in 1..dialled, Hear(c) PROVE StreamInv'
  BY <1>3, HearKeeps
<1>4. CASE Hubs /\ UNCHANGED runVars
  <2>1. HubInv' /\ committed' = committed
    BY <1>4, HubsKeep DEF StreamInv, Hubs, Publish, Deliver, Serve, Subscribe, List, Replay, Release,
                          ReleaseOne, Close, Dials, Dial, TheReader
  <2>2. RunTyped' /\ RunInv'
    BY <1>4, <2>1 DEF StreamInv, RunTyped, RunInv, runVars
  <2> QED BY <2>1, <2>2 DEF StreamInv
<1>5. CASE UNCHANGED vars
  <2>1. HubInv'
    BY <1>5, HubStays DEF StreamInv, vars
  <2>2. RunTyped' /\ RunInv'
    BY <1>5 DEF StreamInv, RunTyped, RunInv, hubVars, runVars, vars
  <2> QED BY <2>1, <2>2 DEF StreamInv
<1> QED BY <1>1, <1>2, <1>3, <1>4, <1>5 DEF Next

(* It holds throughout. *)
LEMMA StreamAlways == Spec => []StreamInv
BY StreamStarts, StreamKeeps, PTL DEF Spec

(* Every variable of the hub and the Run keeps its range: no queue of a    *)
(* connection grows past its limit, whoever publishes meanwhile.           *)
THEOREM StreamTyped == Spec => []TypeOK
<1>1. StreamInv => TypeOK
  BY DEF StreamInv, RunTyped, HubInv, TypeOK
<1> QED BY <1>1, StreamAlways, PTL

(* subscribe and Publish together leave no gap: a connection that has read *)
(* its backlog and dropped nothing wrote every event after its cursor, or  *)
(* has it on its way.                                                      *)
THEOREM NothingIsMissed == Spec => []NoGapWhileConnected
<1>1. StreamInv => NoGapWhileConnected
  <2>. SUFFICES ASSUME StreamInv, NEW c \in 1..dialled,
                       client[c].stage \in {"replayed", "releasing", "ready"},
                       ~client[c].closing /\ ~client[c].more,
                       NEW e \in (client[c].after + 1)..committed
                PROVE  UnderWay(e, c) \/ e \in Range(client[c].sent)
    BY DEF NoGapWhileConnected
  <2>1. Sound(client[c], c)
    BY DEF StreamInv, HubInv
  <2>2. Coming(e, c) \/ e \in Queue(client[c]) \cup Range(client[c].pending)
    BY <2>1 DEF Sound, OutsideSound, Active
  <2> QED BY <2>2 DEF Coming, Queue, UnderWay
<1> QED BY <1>1, StreamAlways, PTL

(* Two sequences of different elements, one after the other.               *)
LEMMA OnceTogether ==
  ASSUME NEW S, NEW s \in Seq(S), NEW t \in Seq(S), Once(s), Once(t), Range(s) \cap Range(t) = {}
  PROVE  IsInjective(s \o t)
<1>1. /\ Len(s) \in Nat /\ DOMAIN s = 1..Len(s)
      /\ Len(t) \in Nat /\ DOMAIN t = 1..Len(t)
  BY LenProperties
<1>2. /\ s \o t \in Seq(S) /\ Len(s \o t) = Len(s) + Len(t)
      /\ \A i \in 1..(Len(s) + Len(t)) :
           (s \o t)[i] = IF i <= Len(s) THEN s[i] ELSE t[i - Len(s)]
  BY ConcatProperties
<1>3. DOMAIN (s \o t) = 1..(Len(s) + Len(t))
  BY <1>2, LenProperties
<1>. DEFINE u == s \o t
<1>. HIDE DEF u
<1>4. \A i \in DOMAIN u : \/ i \in DOMAIN s /\ u[i] = s[i]
                          \/ i - Len(s) \in DOMAIN t /\ u[i] = t[i - Len(s)] /\ i \in Nat
  BY <1>1, <1>2, <1>3 DEF u
<1>5. ASSUME NEW i \in DOMAIN u, NEW j \in DOMAIN u, u[i] = u[j] PROVE i = j
  <2>1. CASE i \in DOMAIN s /\ u[i] = s[i] /\ j \in DOMAIN s /\ u[j] = s[j]
    BY <1>5, <2>1 DEF Once
  <2>2. CASE /\ i - Len(s) \in DOMAIN t /\ u[i] = t[i - Len(s)] /\ i \in Nat
             /\ j - Len(s) \in DOMAIN t /\ u[j] = t[j - Len(s)] /\ j \in Nat
    <3>1. i - Len(s) = j - Len(s)
      BY <1>5, <2>2 DEF Once
    <3> QED BY <1>1, <2>2, <3>1
  <2>3. ASSUME NEW a \in DOMAIN s, NEW b \in DOMAIN t PROVE s[a] # t[b]
    BY DEF Range
  <2> QED BY <1>4, <1>5, <2>1, <2>2, <2>3
<1> QED BY <1>5 DEF IsInjective, u

(* The replay and the live events do not overlap: no connection writes an  *)
(* event twice, though deliver and subscribe race.                         *)
THEOREM NothingIsSentTwice == Spec => []NoDuplicates
<1>1. StreamInv => NoDuplicates
  <2>. SUFFICES ASSUME StreamInv, NEW c \in 1..dialled
                PROVE  IsInjective(client[c].sent \o client[c].send)
    BY DEF NoDuplicates
  <2>1. client[c] \in Client /\ Sound(client[c], c)
    BY ClientIs DEF StreamInv
  <2>2. /\ client[c].sent \in Seq(Events) /\ client[c].send \in Seq(Events)
        /\ Once(client[c].sent) /\ Once(client[c].send)
        /\ Range(client[c].sent) \cap Range(client[c].send) = {}
    BY <2>1 DEF Client, Sound, OnceEach
  <2> QED BY <2>2, OnceTogether
<1> QED BY <1>1, StreamAlways, PTL

(* SteerRun's message is in the Run's prompt or goes through the agent's   *)
(* listener, never both, and the prompt misses none of the former.         *)
THEOREM MessagesComeOneWay == Spec => []PromptOrStream
<1>1. StreamInv => PromptOrStream
  BY DEF StreamInv, RunInv, PromptOrStream
<1> QED BY <1>1, StreamAlways, PTL
-----------------------------------------------------------------------------
(* The hub implements TopicReader.                                         *)

(* What the hub still has for a connection, if that follows the topic.     *)
Owes(k, c) ==
  IF StateOf(k) = "live"
  THEN {e \in 1..committed : Coming(e, c) \/ e \in Queue(k) \cup Range(k.pending)} \ Range(k.sent)
  ELSE {}

(* All the reader's connections but the last are closed.                   *)
OneAtATime == \A c \in 1..dialled : client[c].done \/ c = conn

(* What a connection is owed, by its record.                               *)
LEMMA OwedIs ==
  ASSUME NEW c
  PROVE  OwedTo(c) = Owes(client[c], c) /\ OwedTo(c)' = Owes(client[c], c)'
BY DEF OwedTo, Owes, UnderWay, Coming, Queue

(* The connections are those the reader may make. *)
LEMMA ConnIs ==
  ASSUME HubInv
  PROVE  /\ dialled \in Nat /\ 1..dialled \subseteq Conns /\ DOMAIN client = 1..dialled
         /\ dialled < MaxConns => dialled + 1 \in Conns
<1>1. client \in Seq(Client) /\ Len(client) = dialled /\ dialled <= MaxConns
  BY DEF HubInv, HubTypeOK
<1>2. dialled \in Nat /\ DOMAIN client = 1..dialled
  BY <1>1
<1> QED BY <1>1, <1>2, HubBounds DEF Conns

(* One connection changes in the reader's eyes, and no other. *)
LEMMA OneViewed ==
  ASSUME HubInv, NEW c \in 1..dialled, NEW m \in Client,
         client' = [client EXCEPT ![c] = m], dialled' = dialled, committed' = committed,
         \A d \in 1..dialled : d # c => \A e : Coming(e, d)' <=> Coming(e, d)
  PROVE  /\ ReaderState' = [ReaderState EXCEPT ![c] = StateOf(m)]
         /\ ReaderFrom' = [ReaderFrom EXCEPT ![c] = m.after]
         /\ ReaderOwed' = [ReaderOwed EXCEPT ![c] = Owes(m, c)']
         /\ ReaderShown' = [ReaderShown EXCEPT ![c] = m.sent]
<1>1. /\ c \in Conns /\ DOMAIN client = 1..dialled
      /\ client'[c] = m /\ \A d \in 1..dialled : d # c => client'[d] = client[d]
  BY ConnIs
<1>2. ASSUME NEW d \in 1..dialled, d # c PROVE OwedTo(d)' = OwedTo(d)
  <2>1. PICK k : k = client[d] /\ k = client'[d]
    BY <1>1, <1>2
  <2>2. Owes(k, d)' = Owes(k, d)
    BY <1>2 DEF Owes, Queue, StateOf
  <2> QED BY <2>1, <2>2, OwedIs
<1>3. OwedTo(c)' = Owes(m, c)'
  BY <1>1, OwedIs
<1>4. ReaderState' = [ReaderState EXCEPT ![c] = StateOf(m)]
  BY <1>1 DEF ReaderState, StateOf
<1>5. ReaderFrom' = [ReaderFrom EXCEPT ![c] = m.after]
  BY <1>1 DEF ReaderFrom
<1>6. ReaderOwed' = [ReaderOwed EXCEPT ![c] = Owes(m, c)']
  BY <1>1, <1>2, <1>3 DEF ReaderOwed
<1>7. ReaderShown' = [ReaderShown EXCEPT ![c] = m.sent]
  BY <1>1 DEF ReaderShown
<1> QED BY <1>4, <1>5, <1>6, <1>7

(* A connection's place in the reader's eyes. *)
LEMMA Viewed ==
  ASSUME HubInv, NEW c \in 1..dialled
  PROVE  /\ c \in Conns
         /\ ReaderState[c] = StateOf(client[c]) /\ ReaderFrom[c] = client[c].after
         /\ ReaderOwed[c] = Owes(client[c], c) /\ ReaderShown[c] = client[c].sent
         /\ DOMAIN ReaderState = Conns /\ DOMAIN ReaderFrom = Conns
         /\ DOMAIN ReaderOwed = Conns /\ DOMAIN ReaderShown = Conns
         /\ ReaderState = [ReaderState EXCEPT ![c] = StateOf(client[c])]
         /\ ReaderFrom = [ReaderFrom EXCEPT ![c] = client[c].after]
         /\ ReaderOwed = [ReaderOwed EXCEPT ![c] = Owes(client[c], c)]
         /\ ReaderShown = [ReaderShown EXCEPT ![c] = client[c].sent]
<1>1. c \in Conns
  BY ConnIs
<1>2. OwedTo(c) = Owes(client[c], c)
  BY OwedIs
<1> QED BY <1>1, <1>2 DEF ReaderState, ReaderFrom, ReaderOwed, ReaderShown

(* Nothing changes in the reader's eyes. *)
LEMMA SameView ==
  ASSUME HubInv, NEW c \in 1..dialled, NEW m \in Client,
         client' = [client EXCEPT ![c] = m], dialled' = dialled, committed' = committed,
         cursor' = cursor,
         \A d \in 1..dialled : d # c => \A e : Coming(e, d)' <=> Coming(e, d),
         StateOf(m) = StateOf(client[c]), m.after = client[c].after, m.sent = client[c].sent,
         Owes(m, c)' = Owes(client[c], c)
  PROVE  UNCHANGED Reader!readerVars
<1>1. /\ ReaderState' = [ReaderState EXCEPT ![c] = StateOf(m)]
      /\ ReaderFrom' = [ReaderFrom EXCEPT ![c] = m.after]
      /\ ReaderOwed' = [ReaderOwed EXCEPT ![c] = Owes(m, c)']
      /\ ReaderShown' = [ReaderShown EXCEPT ![c] = m.sent]
  BY OneViewed
<1>2. UNCHANGED <<ReaderState, ReaderFrom, ReaderOwed, ReaderShown>>
  BY <1>1, Viewed
<1> QED BY <1>2 DEF Reader!readerVars

(* A connection gives up on what it owes. *)
LEMMA BehindViewed ==
  ASSUME HubInv, NEW c \in 1..dialled, NEW m \in Client,
         client' = [client EXCEPT ![c] = m], dialled' = dialled, committed' = committed,
         cursor' = cursor,
         \A d \in 1..dialled : d # c => \A e : Coming(e, d)' <=> Coming(e, d),
         StateOf(client[c]) \in {"connecting", "live"}, StateOf(m) = "behind",
         m.after = client[c].after, m.sent = client[c].sent
  PROVE  Reader!FallsBehind(c)
<1>1. /\ ReaderState' = [ReaderState EXCEPT ![c] = StateOf(m)]
      /\ ReaderFrom' = [ReaderFrom EXCEPT ![c] = m.after]
      /\ ReaderOwed' = [ReaderOwed EXCEPT ![c] = Owes(m, c)']
      /\ ReaderShown' = [ReaderShown EXCEPT ![c] = m.sent]
  BY OneViewed
<1>2. Owes(m, c)' = {}
  BY DEF Owes, StateOf
<1>3. UNCHANGED <<ReaderFrom, ReaderShown>> /\ ReaderState[c] \in {"connecting", "live"}
  BY <1>1, Viewed
<1> QED BY <1>1, <1>2, <1>3 DEF Reader!FallsBehind

(* A connection that has not read its backlog is owed nothing. *)
LEMMA Unviewed ==
  ASSUME HubInv, NEW c \in 1..dialled, NEW m \in Client,
         client' = [client EXCEPT ![c] = m], dialled' = dialled, committed' = committed,
         cursor' = cursor,
         \A d \in 1..dialled : d # c => \A e : Coming(e, d)' <=> Coming(e, d),
         client[c].done \/ client[c].stage \notin Active, m.done \/ m.stage \notin Active,
         m.done = client[c].done, m.after = client[c].after, m.sent = client[c].sent
  PROVE  UNCHANGED Reader!readerVars
<1>1. StateOf(m) = StateOf(client[c]) /\ StateOf(m) # "live"
  BY DEF StateOf, Active
<1>2. Owes(m, c)' = {} /\ Owes(client[c], c) = {}
  BY <1>1 DEF Owes, StateOf
<1> QED BY <1>1, <1>2, SameView

(* Frames move between a connection's queues: either none is lost to the   *)
(* reader, or the connection is closing.                                   *)
LEMMA MovesOn ==
  ASSUME HubInv, NEW c \in 1..dialled, NEW k \in Client, NEW m \in Client, k = client[c],
         client' = [client EXCEPT ![c] = m], dialled' = dialled, committed' = committed,
         cursor' = cursor,
         \A d \in 1..dialled : d # c => \A e : Coming(e, d)' <=> Coming(e, d),
         k.stage \in Active, m.stage \in Active, m.done = k.done, m.more = k.more,
         m.after = k.after, m.sent = k.sent, k.closing => m.closing,
         ~m.closing => \A e \in 1..committed : e \notin Range(k.sent) =>
           (Coming(e, c)' \/ e \in Queue(m) \cup Range(m.pending)
            <=> Coming(e, c) \/ e \in Queue(k) \cup Range(k.pending))
  PROVE  Reader!FallsBehind(c) \/ UNCHANGED Reader!readerVars
<1>1. ~k.done
  BY ClientIs DEF Sound, OpenSound
<1>2. StateOf(k) \in {"live", "behind"} /\ StateOf(m) \in {"live", "behind"}
      /\ (StateOf(k) = "behind" => StateOf(m) = "behind")
      /\ (StateOf(m) = "live" => ~m.closing)
  BY <1>1 DEF StateOf, Active
<1>3. CASE StateOf(k) = "live" /\ StateOf(m) = "behind"
  BY <1>3, BehindViewed
<1>4. CASE StateOf(k) = StateOf(m)
  <2>1. Owes(m, c)' = Owes(k, c)
    <3>1. CASE StateOf(m) = "live"
      <4>1. Owes(m, c)' = {e \in 1..committed : Coming(e, c)' \/ e \in Queue(m) \cup Range(m.pending)}
                          \ Range(m.sent)
        BY <3>1 DEF Owes, StateOf, Queue
      <4>2. Owes(k, c) = {e \in 1..committed : Coming(e, c) \/ e \in Queue(k) \cup Range(k.pending)}
                         \ Range(k.sent)
        BY <1>4, <3>1 DEF Owes
      <4> QED BY <1>2, <3>1, <4>1, <4>2
    <3>2. CASE StateOf(m) # "live"
      BY <1>4, <3>2 DEF Owes, StateOf
    <3> QED BY <3>1, <3>2
  <2> QED BY <1>4, <2>1, SameView
<1> QED BY <1>2, <1>3, <1>4

(* A release queues the next frame, or drops it and has the client closed. *)
LEMMA ReleasedViewed ==
  ASSUME NEW k \in Client, NEW c, Sound(k, c), Limits(k), k.stage = "releasing"
  PROVE  LET m == Released(k)
         IN /\ m.stage \in Active /\ m.done = k.done /\ m.more = k.more
            /\ m.after = k.after /\ m.sent = k.sent /\ (k.closing => m.closing)
            /\ ~m.closing => Queue(m) \cup Range(m.pending) = Queue(k) \cup Range(k.pending)
<1>1. /\ k.rest \in Seq(Events) /\ k.pending \in Seq(Events) /\ k.send \in Seq(Events)
      /\ k.stage \in Active
  BY DEF Client, Active
<1>2. CASE k.rest # <<>>
  <2>. DEFINE e == Head(k.rest)
  <2>1. /\ Tail(k.rest) \in Seq(Events) /\ e \in Events
        /\ Range(k.rest) = {e} \cup Range(Tail(k.rest))
    BY <1>1, <1>2, ShorterIs
  <2>. HIDE DEF e
  <2>2. PICK q \in Client :
          /\ q = Enqueue(k, e) /\ Limits(q)
          /\ q.stage = k.stage /\ q.after = k.after /\ q.upto = k.upto /\ q.more = k.more
          /\ q.pending = k.pending /\ q.rest = k.rest /\ q.sent = k.sent /\ q.done = k.done
          /\ \/ q.send = Append(k.send, e) /\ q.closing = k.closing
             \/ q.send = k.send /\ q.closing
    BY <2>1, EnqueueIs
  <2>3. Released(k) = [q EXCEPT !.rest = Tail(q.rest)]
    BY <1>2, <2>2 DEF Released, e
  <2>4. PICK m : m = Released(k)
    OBVIOUS
  <2>5. /\ m.rest = Tail(k.rest) /\ m.stage = k.stage /\ m.after = k.after /\ m.more = k.more
        /\ m.pending = k.pending /\ m.sent = k.sent /\ m.done = k.done /\ m.closing = q.closing
        /\ m.send = q.send
    BY <2>2, <2>3, <2>4 DEF Client
  <2>6. ~m.closing => Range(m.send) = Range(k.send) \cup {e}
    <3>1. Range(Append(k.send, e)) = Range(k.send) \cup {e}
      BY <1>1, <2>1, LongerIs
    <3> QED BY <2>2, <2>5, <3>1
  <2>7. ~m.closing => Queue(m) \cup Range(m.pending) = Queue(k) \cup Range(k.pending)
    BY <2>1, <2>5, <2>6 DEF Queue
  <2> QED BY <1>1, <2>2, <2>4, <2>5, <2>7
<1>3. CASE k.rest = <<>> /\ k.pending # <<>>
  <2>. DEFINE e == Head(k.pending)
  <2>1. /\ Tail(k.pending) \in Seq(Events) /\ e \in Events
        /\ Range(k.pending) = {e} \cup Range(Tail(k.pending))
    BY <1>1, <1>3, ShorterIs
  <2>. HIDE DEF e
  <2>2. PICK m : m = Released(k)
    OBVIOUS
  <2>3. CASE Replayed(k, e)
    <3>1. m = [k EXCEPT !.pending = Tail(k.pending)]
      BY <1>3, <2>2, <2>3 DEF Released, Live, e
    <3>2. /\ m.rest = k.rest /\ m.stage = k.stage /\ m.after = k.after /\ m.more = k.more
          /\ m.pending = Tail(k.pending) /\ m.sent = k.sent /\ m.done = k.done
          /\ m.closing = k.closing /\ m.send = k.send
      BY <3>1 DEF Client
    <3>3. ~m.closing => e \in Queue(k)
      BY <1>1, <2>1, <2>3, <3>2 DEF Sound, BacklogWhole
    <3>4. ~m.closing => Queue(m) \cup Range(m.pending) = Queue(k) \cup Range(k.pending)
      BY <2>1, <3>2, <3>3 DEF Queue
    <3> QED BY <1>1, <2>2, <3>2, <3>4
  <2>4. CASE ~Replayed(k, e)
    <3>1. PICK q \in Client :
            /\ q = Enqueue(k, e) /\ Limits(q)
            /\ q.stage = k.stage /\ q.after = k.after /\ q.upto = k.upto /\ q.more = k.more
            /\ q.pending = k.pending /\ q.rest = k.rest /\ q.sent = k.sent /\ q.done = k.done
            /\ \/ q.send = Append(k.send, e) /\ q.closing = k.closing
               \/ q.send = k.send /\ q.closing
      BY <2>1, EnqueueIs
    <3>2. m = [q EXCEPT !.pending = Tail(q.pending)]
      BY <1>3, <2>2, <2>4, <3>1 DEF Released, Live, e
    <3>3. /\ m.rest = k.rest /\ m.stage = k.stage /\ m.after = k.after /\ m.more = k.more
          /\ m.pending = Tail(k.pending) /\ m.sent = k.sent /\ m.done = k.done
          /\ m.closing = q.closing /\ m.send = q.send
      BY <3>1, <3>2 DEF Client
    <3>4. ~m.closing => Range(m.send) = Range(k.send) \cup {e}
      <4>1. Range(Append(k.send, e)) = Range(k.send) \cup {e}
        BY <1>1, <2>1, LongerIs
      <4> QED BY <3>1, <3>3, <4>1
    <3>5. ~m.closing => Queue(m) \cup Range(m.pending) = Queue(k) \cup Range(k.pending)
      BY <2>1, <3>3, <3>4 DEF Queue
    <3> QED BY <1>1, <2>2, <3>1, <3>3, <3>5
  <2> QED BY <2>3, <2>4
<1>4. CASE k.rest = <<>> /\ k.pending = <<>>
  <2>1. PICK m : m = [k EXCEPT !.stage = "ready"]
    OBVIOUS
  <2>2. /\ m.rest = k.rest /\ m.stage = "ready" /\ m.after = k.after /\ m.more = k.more
        /\ m.pending = k.pending /\ m.sent = k.sent /\ m.done = k.done
        /\ m.closing = k.closing /\ m.send = k.send
    BY <2>1 DEF Client
  <2>3. Released(k) = m
    BY <1>4, <2>1 DEF Released
  <2> QED BY <2>2, <2>3 DEF Queue, Active
<1> QED BY <1>2, <1>3, <1>4

(* What deliver changes on a connection, and that it writes nothing. *)
LEMMA ReceivedViewed ==
  ASSUME NEW k \in Client, NEW e \in Events, Limits(k)
  PROVE  /\ Received(k, e).sent = k.sent /\ Received(k, e).done = k.done
         /\ Received(k, e).stage = k.stage /\ Received(k, e).after = k.after
<1>1. PICK q \in Client :
        /\ q = Enqueue(k, e) /\ Limits(q)
        /\ q.stage = k.stage /\ q.after = k.after /\ q.upto = k.upto /\ q.more = k.more
        /\ q.pending = k.pending /\ q.rest = k.rest /\ q.sent = k.sent /\ q.done = k.done
        /\ \/ q.send = Append(k.send, e) /\ q.closing = k.closing
           \/ q.send = k.send /\ q.closing
  BY EnqueueIs
<1>2. CASE k.stage = "ready"
  <2>1. Received(k, e) \in {k, q}
    BY <1>1, <1>2 DEF Received, Live
  <2> QED BY <1>1, <2>1
<1>3. CASE k.stage # "ready"
  <2>1. \/ Received(k, e) = [k EXCEPT !.pending = Append(k.pending, e)]
        \/ Received(k, e) = [k EXCEPT !.closing = TRUE]
    BY <1>3 DEF Received, HoldBack
  <2> QED BY <2>1 DEF Client
<1> QED BY <1>2, <1>3

(* An event is delivered: it is owed as before, or the connection falls    *)
(* behind.                                                                 *)
LEMMA DeliverViewed ==
  ASSUME HubInv, NEW c \in 1..dialled, NEW e \in Events, Deliver(e, c)
  PROVE  Reader!FallsBehind(c) \/ UNCHANGED Reader!readerVars
<1>1. PICK k \in Client : k = client[c]
  BY ClientIs
<1>2. /\ Limits(k) /\ Sound(k, c) /\ committed \in 0..MaxEvents
      /\ delivering \subseteq (1..committed) \X (1..dialled)
  BY <1>1, ClientIs DEF HubInv, HubTypeOK
<1>3. UNCHANGED <<committed, unpublished, topic, conn, dialled, cursor>>
  BY DEF Deliver, TheReader
<1>4. /\ <<e, c>> \in delivering /\ delivering' = delivering \ {<<e, c>>}
      /\ Coming(e, c) /\ e \in 1..committed
  BY <1>2 DEF Deliver, Coming
<1>5. \A d \in 1..dialled : d # c => \A x : Coming(x, d)' <=> Coming(x, d)
  BY <1>3, <1>4 DEF Coming
<1>6. CASE k.done \/ k.stage = "none"
  <2>1. client' = [client EXCEPT ![c] = k]
    <3>1. client \in [1..dialled -> Client]
      BY LenProperties DEF HubInv, HubTypeOK
    <3> QED BY <1>1, <1>6, <3>1 DEF Deliver
  <2>2. k.done \/ k.stage \notin Active
    BY <1>6 DEF Active
  <2> QED BY <1>1, <1>3, <1>5, <2>1, <2>2, Unviewed
<1>7. CASE ~(k.done \/ k.stage = "none")
  <2>1. PICK m \in Client :
          /\ m = Received(k, e) /\ Limits(m) /\ OpenSound(m) /\ KnownEvents(m) /\ OnceEach(m)
          /\ BacklogWhole(m)
          /\ m.stage = k.stage /\ m.after = k.after /\ m.upto = k.upto /\ m.more = k.more
          /\ Queue(k) \subseteq Queue(m) /\ Queue(m) \subseteq Queue(k) \cup {e}
          /\ Range(k.pending) \subseteq Range(m.pending)
          /\ Range(m.pending) \subseteq Range(k.pending) \cup {e}
          /\ k.closing => m.closing
          /\ k.stage \in Active /\ ~m.closing => e \in Queue(m) \cup Range(m.pending)
    BY <1>2, <1>4, ReceivedIs
  <2>2. m.sent = k.sent /\ m.done = k.done
    BY <1>2, <2>1, ReceivedViewed
  <2>3. client' = [client EXCEPT ![c] = m]
    BY <1>1, <1>7, <2>1 DEF Deliver
  <2>4. CASE k.stage \in Active
    <3>1. \A x : (Coming(x, c)' => Coming(x, c)) /\ (Coming(x, c) => Coming(x, c)' \/ x = e)
      BY <1>3, <1>4 DEF Coming
    <3>2. ~m.closing => \A x \in 1..committed : x \notin Range(k.sent) =>
            (Coming(x, c)' \/ x \in Queue(m) \cup Range(m.pending)
             <=> Coming(x, c) \/ x \in Queue(k) \cup Range(k.pending))
      <4>1. ~m.closing => e \in Queue(m) \cup Range(m.pending)
        BY <2>1, <2>4
      <4>2. /\ Queue(k) \cup Range(k.pending) \subseteq Queue(m) \cup Range(m.pending)
            /\ Queue(m) \cup Range(m.pending) \subseteq Queue(k) \cup Range(k.pending) \cup {e}
        BY <2>1
      <4> QED BY <1>4, <3>1, <4>1, <4>2
    <3> QED BY <1>1, <1>3, <1>5, <2>1, <2>2, <2>3, <2>4, <3>2, MovesOn
  <2>5. CASE k.stage \notin Active
    BY <1>1, <1>3, <1>5, <2>1, <2>2, <2>3, <2>5, Unviewed
  <2> QED BY <2>4, <2>5
<1> QED BY <1>6, <1>7

(* A subscription enters the tables, or takes its lock. *)
LEMMA TablesViewed ==
  ASSUME HubInv, NEW c \in 1..dialled, Subscribe(c) \/ List(c) \/ Release(c)
  PROVE  Reader!FallsBehind(c) \/ UNCHANGED Reader!readerVars
<1>1. PICK k \in Client : k = client[c]
  BY ClientIs
<1>2. UNCHANGED <<committed, unpublished, delivering, conn, dialled, cursor>>
  BY DEF Subscribe, List, Release, TheReader
<1>3. \A d, x : Coming(x, d)' <=> Coming(x, d)
  BY <1>2 DEF Coming
<1>4. CASE Subscribe(c) \/ List(c)
  <2>1. PICK s \in Stage \ Active : client' = [client EXCEPT ![c] = [k EXCEPT !.stage = s]]
    BY <1>1, <1>4 DEF Subscribe, List, Stage, Active
  <2>2. PICK m : m = [k EXCEPT !.stage = s]
    OBVIOUS
  <2>3. m \in Client /\ m.stage = s /\ m.done = k.done /\ m.after = k.after /\ m.sent = k.sent
    BY <2>1, <2>2 DEF Client
  <2>4. k.stage \notin Active
    BY <1>1, <1>4 DEF Subscribe, List, Active
  <2> QED BY <1>1, <1>2, <1>3, <2>1, <2>2, <2>3, <2>4, Unviewed
<1>5. CASE Release(c)
  <2>1. PICK m : m = [k EXCEPT !.stage = "releasing"]
    OBVIOUS
  <2>2. client' = [client EXCEPT ![c] = m] /\ k.stage \in Active
    BY <1>1, <1>5, <2>1 DEF Release, Active
  <2>3. /\ m \in Client /\ m.stage \in Active /\ m.done = k.done /\ m.after = k.after
        /\ m.sent = k.sent /\ m.closing = k.closing /\ m.more = k.more /\ Queue(m) = Queue(k)
        /\ m.pending = k.pending
    BY <2>1 DEF Client, Stage, Active, Queue
  <2> QED BY <1>1, <1>2, <1>3, <2>2, <2>3, MovesOn
<1> QED BY <1>4, <1>5

(* A release goes on. *)
LEMMA ReleaseViewed ==
  ASSUME HubInv, NEW c \in 1..dialled, ReleaseOne(c)
  PROVE  Reader!FallsBehind(c) \/ UNCHANGED Reader!readerVars
<1>1. PICK k \in Client : k = client[c]
  BY ClientIs
<1>2. /\ UNCHANGED <<committed, unpublished, delivering, conn, dialled, cursor>>
      /\ client' = [client EXCEPT ![c] = Released(k)]
      /\ k.stage = "releasing" /\ ~k.done
  BY <1>1 DEF ReleaseOne, TheReader
<1>3. \A d, x : Coming(x, d)' <=> Coming(x, d)
  BY <1>2 DEF Coming
<1>4. Limits(k) /\ Sound(k, c) /\ committed \in 0..MaxEvents
  BY <1>1, ClientIs
<1>5. PICK m \in Client : m = Released(k)
  BY <1>2, <1>4, ReleasedIs
<1>6. /\ m.stage \in Active /\ m.done = k.done /\ m.more = k.more
      /\ m.after = k.after /\ m.sent = k.sent /\ (k.closing => m.closing)
      /\ ~m.closing => Queue(m) \cup Range(m.pending) = Queue(k) \cup Range(k.pending)
  BY <1>2, <1>4, <1>5, ReleasedViewed
<1>7. k.stage \in Active /\ client' = [client EXCEPT ![c] = m]
  BY <1>2, <1>5 DEF Active
<1> QED BY <1>1, <1>2, <1>3, <1>6, <1>7, MovesOn

(* A backlog is read: from here on every event after the cursor is owed,   *)
(* unless the backlog leaves some out.                                     *)
LEMMA ReplayViewed ==
  ASSUME HubInv, NEW c \in 1..dialled, Replay(c)
  PROVE  Reader!Follows(c) \/ Reader!FallsBehind(c)
<1>1. PICK k \in Client : k = client[c]
  BY ClientIs
<1>2. /\ Limits(k) /\ Sound(k, c) /\ committed \in 0..MaxEvents
      /\ k.stage = "listed" /\ ~k.done
  BY <1>1, ClientIs DEF Replay
<1>3. UNCHANGED <<committed, unpublished, delivering, topic, conn, dialled, cursor>>
  BY DEF Replay, TheReader
<1>4. PICK m \in Client :
        /\ m = [k EXCEPT !.stage = "replayed", !.rest = Backlog(k.after),
                         !.upto = k.after + Len(Backlog(k.after)),
                         !.more = committed > k.after + ReplayLimit]
        /\ Limits(m) /\ Sound(m, c)
  BY <1>2, ReplayIs
<1>5. /\ m.stage = "replayed" /\ m.after = k.after /\ m.sent = k.sent /\ m.done = k.done
      /\ m.after \in 0..MaxEvents
  BY <1>4 DEF Client
<1>6. client' = [client EXCEPT ![c] = m]
  BY <1>1, <1>4 DEF Replay
<1>7. \A d, x : Coming(x, d)' <=> Coming(x, d)
  BY <1>3 DEF Coming
<1>8. StateOf(k) = "connecting" /\ StateOf(m) \in {"live", "behind"}
  BY <1>2, <1>5 DEF StateOf
<1>9. CASE StateOf(m) = "behind"
  BY <1>1, <1>3, <1>5, <1>6, <1>7, <1>8, <1>9, BehindViewed
<1>10. CASE StateOf(m) = "live"
  <2>. DEFINE old == {x \in 1..m.after : x \in Owes(m, c)}
  <2>1. /\ ReaderState' = [ReaderState EXCEPT ![c] = "live"]
        /\ ReaderFrom' = [ReaderFrom EXCEPT ![c] = m.after]
        /\ ReaderOwed' = [ReaderOwed EXCEPT ![c] = Owes(m, c)']
        /\ ReaderShown' = [ReaderShown EXCEPT ![c] = m.sent]
    <3>1. /\ ReaderState' = [ReaderState EXCEPT ![c] = StateOf(m)]
          /\ ReaderFrom' = [ReaderFrom EXCEPT ![c] = m.after]
          /\ ReaderOwed' = [ReaderOwed EXCEPT ![c] = Owes(m, c)']
          /\ ReaderShown' = [ReaderShown EXCEPT ![c] = m.sent]
      BY <1>3, <1>6, <1>7, OneViewed
    <3> QED BY <1>10, <3>1
  <2>2. Owes(m, c)' = Owes(m, c)
    BY <1>3, <1>7 DEF Owes, Queue, StateOf
  <2>3. m.sent = <<>>
    BY <1>2, <1>5 DEF Sound, OpenSound, Active
  <2>4. \A x \in (m.after + 1)..committed : Coming(x, c) \/ x \in Queue(m) \cup Range(m.pending)
    BY <1>4, <1>5, <1>10 DEF Sound, OutsideSound, StateOf, Active
  <2>5. Owes(m, c) = old \cup ((m.after + 1)..committed)
    <3>1. Owes(m, c) = {x \in 1..committed : Coming(x, c) \/ x \in Queue(m) \cup Range(m.pending)}
      BY <1>10, <2>3, EmptyIs DEF Owes
    <3>2. m.after \in Nat /\ committed \in Nat
      BY <1>2, <1>5, HubBounds
    <3> QED BY <2>4, <3>1, <3>2
  <2>6. old \in SUBSET (1..m.after)
    OBVIOUS
  <2>. HIDE DEF old
  <2>7. /\ ReaderState[c] = "connecting" /\ ReaderFrom[c] = m.after
        /\ UNCHANGED <<committed, cursor, ReaderFrom, ReaderShown>>
    BY <1>1, <1>3, <1>5, <1>8, <2>1, Viewed
  <2> QED BY <2>1, <2>2, <2>5, <2>6, <2>7 DEF Reader!Follows
<1> QED BY <1>8, <1>9, <1>10

(* A frame is written: an event that was owed is shown, and for the first  *)
(* time.                                                                   *)
LEMMA WriteViewed ==
  ASSUME HubInv, NEW c \in 1..dialled, Write(c)
  PROVE  \E e \in 1..committed : Reader!Shows(c, e)
<1>1. PICK k \in Client : k = client[c]
  BY ClientIs
<1>2. /\ Limits(k) /\ Sound(k, c) /\ committed \in 0..MaxEvents
      /\ k.send # <<>> /\ ~k.done
  BY <1>1, ClientIs DEF Write
<1>3. UNCHANGED <<committed, unpublished, delivering, topic, conn, dialled>>
  BY DEF Write
<1>4. PICK e : e = Head(k.send)
  OBVIOUS
<1>5. PICK m \in Client :
        /\ m = [k EXCEPT !.send = Tail(k.send), !.sent = Append(k.sent, Head(k.send))]
        /\ Limits(m) /\ Sound(m, c) /\ Head(k.send) \in 1..committed
  BY <1>2, WrittenIs
<1>6. /\ m.stage = k.stage /\ m.after = k.after /\ m.sent = Append(k.sent, e) /\ m.done = k.done
      /\ m.send = Tail(k.send) /\ m.rest = k.rest /\ m.pending = k.pending
      /\ m.closing = k.closing /\ m.more = k.more
      /\ k.send \in Seq(Events) /\ k.sent \in Seq(Events)
  BY <1>4, <1>5 DEF Client
<1>7. /\ client' = [client EXCEPT ![c] = m] /\ e \in 1..committed
      /\ cursor' = IF e > cursor THEN e ELSE cursor
  BY <1>1, <1>4, <1>5 DEF Write
<1>8. \A d, x : Coming(x, d)' <=> Coming(x, d)
  BY <1>3 DEF Coming
<1>9. /\ e \in Events /\ Range(k.send) = {e} \cup Range(m.send)
      /\ Range(m.sent) = Range(k.sent) \cup {e}
  <2>1. e \in Events /\ Range(k.send) = {e} \cup Range(m.send)
    BY <1>2, <1>4, <1>6, ShorterIs
  <2> QED BY <1>6, <2>1, LongerIs
<1>10. e \notin Range(k.sent)
  BY <1>2, <1>9 DEF Sound, OnceEach
<1>11. StateOf(k) \in {"live", "behind"} /\ StateOf(m) = StateOf(k)
  BY <1>2, <1>6 DEF StateOf, Sound, OpenSound, Active
<1>12. /\ StateOf(k) = "live" => e \in Owes(k, c)
       /\ Owes(m, c)' = Owes(k, c) \ {e}
  <2>1. e \in Queue(k) /\ Queue(m) = Queue(k)
    BY <1>6, <1>9 DEF Queue
  <2>2. Owes(m, c)' = Owes(m, c)
    BY <1>3, <1>8 DEF Owes, Queue, StateOf
  <2>3. Owes(m, c) = Owes(k, c) \ {e}
    BY <1>6, <1>9, <1>11, <2>1 DEF Owes
  <2> QED BY <1>7, <1>10, <2>1, <2>2, <2>3 DEF Owes
<1>13. /\ ReaderState' = [ReaderState EXCEPT ![c] = StateOf(m)]
       /\ ReaderFrom' = [ReaderFrom EXCEPT ![c] = m.after]
       /\ ReaderOwed' = [ReaderOwed EXCEPT ![c] = Owes(m, c)']
       /\ ReaderShown' = [ReaderShown EXCEPT ![c] = m.sent]
  BY <1>3, <1>7, <1>8, OneViewed
<1>14. /\ UNCHANGED <<committed, ReaderState, ReaderFrom>>
       /\ ReaderState[c] = StateOf(k) /\ ReaderShown[c] = k.sent /\ ReaderOwed[c] = Owes(k, c)
  BY <1>1, <1>3, <1>6, <1>11, <1>13, Viewed
<1>15. \A i \in 1..Len(ReaderShown[c]) : ReaderShown[c][i] # e
  BY <1>6, <1>10, <1>14 DEF Range
<1>16. Reader!Shows(c, e)
  <2>1. \/ ReaderState[c] = "live" /\ e \in ReaderOwed[c]
        \/ ReaderState[c] = "behind"
    BY <1>11, <1>12, <1>14
  <2>2. /\ ReaderOwed' = [ReaderOwed EXCEPT ![c] = ReaderOwed[c] \ {e}]
        /\ ReaderShown' = [ReaderShown EXCEPT ![c] = Append(ReaderShown[c], e)]
    BY <1>6, <1>12, <1>13, <1>14
  <2> QED BY <1>7, <1>14, <1>15, <2>1, <2>2 DEF Reader!Shows
<1> QED BY <1>7, <1>16

(* A connection is closed. *)
LEMMA CloseViewed ==
  ASSUME HubInv, NEW c \in 1..dialled, Close(c)
  PROVE  Reader!Disconnects(c)
<1>1. PICK k \in Client : k = client[c]
  BY ClientIs
<1>2. ~k.done /\ UNCHANGED <<committed, unpublished, delivering, dialled, cursor>>
  BY <1>1 DEF Close
<1>. DEFINE n == NewClient(0)
            s == IF k.stage = "named" THEN "named" ELSE "none"
            m == [n EXCEPT !.done = TRUE, !.stage = s]
<1>3. client' = [client EXCEPT ![c] = m]
  BY <1>1 DEF Close
<1>4. m \in Client /\ m.after = 0 /\ m.sent = <<>> /\ m.done
  <2>1. n \in Client /\ n.after = 0 /\ n.sent = <<>>
    BY HubBounds, NewClientIs DEF NewClient
  <2>2. s \in {"none", "named"}
    OBVIOUS
  <2>. HIDE DEF n, s
  <2> QED BY <2>1, <2>2 DEF Client, Stage
<1>. HIDE DEF m
<1>5. \A d, x : Coming(x, d)' <=> Coming(x, d)
  BY <1>2 DEF Coming
<1>6. StateOf(m) = "gone" /\ StateOf(k) \notin {"none", "gone"} /\ Owes(m, c)' = {}
  BY <1>2, <1>4 DEF StateOf, Owes
<1>7. /\ ReaderState' = [ReaderState EXCEPT ![c] = StateOf(m)]
      /\ ReaderFrom' = [ReaderFrom EXCEPT ![c] = m.after]
      /\ ReaderOwed' = [ReaderOwed EXCEPT ![c] = Owes(m, c)']
      /\ ReaderShown' = [ReaderShown EXCEPT ![c] = m.sent]
  BY <1>2, <1>3, <1>4, <1>5, OneViewed
<1>8. ReaderState[c] = StateOf(k)
  BY <1>1, Viewed
<1> QED BY <1>2, <1>4, <1>6, <1>7, <1>8 DEF Reader!Disconnects

(* Publishing changes nothing in the reader's eyes: an event on its way to *)
(* a connection that follows the topic stays on its way.                   *)
LEMMA PublishViewed ==
  ASSUME HubInv, NEW e \in unpublished, Publish(e)
  PROVE  UNCHANGED Reader!readerVars
<1>1. /\ unpublished' = unpublished \ {e}
      /\ delivering' = delivering \cup {<<e, c>> : c \in topic}
      /\ UNCHANGED <<committed, topic, client, conn, dialled, cursor>>
  BY DEF Publish, TheReader
<1>2. UNCHANGED <<ReaderState, ReaderFrom, ReaderShown>>
  BY <1>1 DEF ReaderState, ReaderFrom, ReaderShown, StateOf
<1>3. ASSUME NEW c \in 1..dialled PROVE OwedTo(c)' = OwedTo(c)
  <2>1. PICK k \in Client : k = client[c]
    BY ClientIs
  <2>2. Sound(k, c) /\ k = client'[c]
    BY <1>1, <2>1, ClientIs
  <2>3. Owes(k, c)' = Owes(k, c)
    <3>1. CASE StateOf(k) = "live"
      <4>1. c \in topic
        BY <2>2, <3>1 DEF StateOf, Sound, OutsideSound, Active
      <4>2. \A x : Coming(x, c)' <=> Coming(x, c)
        BY <1>1, <4>1 DEF Coming
      <4> QED BY <1>1, <4>2 DEF Owes, Queue, StateOf
    <3>2. CASE StateOf(k) # "live"
      BY <3>2 DEF Owes, StateOf
    <3> QED BY <3>1, <3>2
  <2> QED BY <2>1, <2>2, <2>3, OwedIs
<1>4. UNCHANGED ReaderOwed
  BY <1>1, <1>3 DEF ReaderOwed
<1> QED BY <1>1, <1>2, <1>4 DEF Reader!readerVars

(* The reader connects, with the last cursor it saw. *)
LEMMA DialViewed ==
  ASSUME HubInv, OneAtATime, Dial
  PROVE  \E c \in Conns : Reader!Connects(c)
<1>. PICK n : n = dialled + 1
  OBVIOUS
<1>1. /\ client' = Append(client, NewClient(cursor)) /\ dialled' = n /\ conn = 0
      /\ dialled < MaxConns /\ UNCHANGED <<committed, unpublished, delivering, topic, cursor>>
  BY DEF Dial
<1>2. /\ n \in Conns /\ dialled \in Nat /\ 1..dialled \subseteq Conns
      /\ client \in Seq(Client) /\ Len(client) = dialled
  BY <1>1, ConnIs DEF HubInv, HubTypeOK
<1>3. PICK m : m = NewClient(cursor)
  OBVIOUS
<1>4. m.stage = "none" /\ m.after = cursor /\ m.sent = <<>> /\ ~m.done
  BY <1>3 DEF NewClient
<1>5. /\ client'[n] = m /\ \A c \in 1..dialled : client'[c] = client[c]
      /\ 1..n = 1..dialled \cup {n} /\ n \notin 1..dialled
  BY <1>1, <1>2, <1>3
<1>6. StateOf(m) = "connecting"
  BY <1>4 DEF StateOf
<1>7. OwedTo(n)' = {}
  BY <1>5, <1>6 DEF OwedTo, StateOf
<1>8. ASSUME NEW d \in 1..dialled PROVE OwedTo(d)' = OwedTo(d)
  <2>1. PICK k : k = client[d] /\ k = client'[d]
    BY <1>5
  <2>2. Owes(k, d)' = Owes(k, d)
    BY <1>1 DEF Owes, Queue, StateOf, Coming
  <2> QED BY <2>1, <2>2, OwedIs
<1>9. ReaderState' = [ReaderState EXCEPT ![n] = "connecting"] /\ ReaderState[n] = "none"
  <2>1. \A d \in 1..dialled : StateOf(client[d])' = StateOf(client[d])
    BY <1>5 DEF StateOf
  <2>2. StateOf(client[n])' = "connecting"
    BY <1>5, <1>6 DEF StateOf
  <2> QED BY <1>1, <1>2, <1>5, <2>1, <2>2 DEF ReaderState
<1>10. ReaderFrom' = [ReaderFrom EXCEPT ![n] = cursor]
  BY <1>1, <1>2, <1>4, <1>5 DEF ReaderFrom
<1>11. UNCHANGED ReaderOwed
  BY <1>1, <1>2, <1>5, <1>7, <1>8 DEF ReaderOwed
<1>12. UNCHANGED ReaderShown
  BY <1>1, <1>2, <1>4, <1>5 DEF ReaderShown
<1>13. \A d \in Conns : ReaderState[d] \in {"none", "gone"}
  <2>1. \A d \in 1..dialled : client[d].done
    BY <1>1 DEF OneAtATime
  <2> QED BY <2>1 DEF ReaderState, StateOf
<1> QED BY <1>1, <1>2, <1>9, <1>10, <1>11, <1>12, <1>13 DEF Reader!Connects

(* An event is committed, and every connection that follows the topic is   *)
(* owed it before it is published.                                         *)
LEMMA CommitViewed ==
  ASSUME HubInv, Commit, UNCHANGED hubRest, cursor' \in {cursor, committed'}
  PROVE  Reader!Occurs
<1>1. /\ committed' = committed + 1 /\ unpublished' = unpublished \cup {committed'}
      /\ UNCHANGED <<delivering, topic, client, conn, dialled>>
      /\ committed \in Nat /\ 1..committed' = 1..committed \cup {committed'}
  BY HubBounds DEF Commit, hubRest, HubInv, HubTypeOK
<1>2. UNCHANGED <<ReaderState, ReaderFrom, ReaderShown>>
  BY <1>1 DEF ReaderState, ReaderFrom, ReaderShown, StateOf
<1>3. ASSUME NEW c \in 1..dialled
      PROVE  OwedTo(c)' = IF StateOf(client[c]) = "live" THEN OwedTo(c) \cup {committed'}
                                                         ELSE OwedTo(c)
  <2>1. PICK k \in Client : k = client[c]
    BY ClientIs
  <2>2. Sound(k, c) /\ k = client'[c]
    BY <1>1, <2>1, ClientIs
  <2>3. CASE StateOf(k) = "live"
    <3>1. \A x : Coming(x, c)' <=> Coming(x, c) \/ x = committed'
      BY <1>1 DEF Coming
    <3>2. Queue(k) \cup Range(k.pending) \subseteq 1..committed /\ Range(k.sent) \subseteq Queue(k)
      BY <2>2 DEF Sound, KnownEvents, Queue
    <3>3. committed' \notin 1..committed
      BY <1>1
    <3>4. Owes(k, c)' = {x \in 1..committed' : Coming(x, c)' \/ x \in Queue(k) \cup Range(k.pending)}
                        \ Range(k.sent)
      BY <2>3 DEF Owes, Queue, StateOf
    <3>5. Owes(k, c) = {x \in 1..committed : Coming(x, c) \/ x \in Queue(k) \cup Range(k.pending)}
                       \ Range(k.sent)
      BY <2>3 DEF Owes
    <3>6. ~Coming(committed', c)
      BY <1>1, <3>3 DEF Coming, HubInv, HubTypeOK
    <3>7. Owes(k, c)' = Owes(k, c) \cup {committed'}
      BY <1>1, <3>1, <3>2, <3>3, <3>4, <3>5, <3>6
    <3> QED BY <2>1, <2>2, <2>3, <3>7, OwedIs
  <2>4. CASE StateOf(k) # "live"
    <3>1. Owes(k, c)' = {} /\ Owes(k, c) = {}
      BY <2>4 DEF Owes, StateOf
    <3> QED BY <2>1, <2>2, <2>4, <3>1, OwedIs
  <2> QED BY <2>3, <2>4
<1>4. ReaderOwed' = [c \in Conns |-> IF ReaderState[c] = "live" THEN ReaderOwed[c] \cup {committed'}
                                                                ELSE ReaderOwed[c]]
  BY <1>1, <1>3 DEF ReaderOwed, ReaderState
<1> QED BY <1>1, <1>2, <1>4 DEF Reader!Occurs

(* At first nobody is connected. *)
LEMMA ReaderStarts == Init => OneAtATime /\ Reader!ReaderInit
<1>. SUFFICES ASSUME Init PROVE OneAtATime /\ Reader!ReaderInit
  OBVIOUS
<1>1. committed = 0 /\ cursor = 0 /\ 1..dialled = {}
  BY DEF Init, HubInit
<1> QED BY <1>1 DEF OneAtATime, Reader!ReaderInit, ReaderState, ReaderFrom, ReaderOwed, ReaderShown

(* Only the last connection is open: the reader connects again when it has *)
(* none.                                                                   *)
LEMMA OneKept == HubInv /\ OneAtATime /\ [Next]_vars => OneAtATime'
<1>. SUFFICES ASSUME HubInv, OneAtATime, [Next]_vars PROVE OneAtATime'
  OBVIOUS
<1>1. /\ client \in Seq(Client) /\ Len(client) = dialled /\ dialled \in Nat
      /\ client \in [1..dialled -> Client]
  BY LenProperties DEF HubInv, HubTypeOK
<1>2. CASE UNCHANGED <<client, dialled, conn>>
  BY <1>2 DEF OneAtATime
<1>3. ASSUME NEW c \in 1..dialled, NEW m \in Client, client' = [client EXCEPT ![c] = m],
             client[c].done => m.done, UNCHANGED <<dialled, conn>>
      PROVE  OneAtATime'
  BY <1>1, <1>3 DEF OneAtATime
<1>4. ASSUME NEW c \in 1..dialled, Close(c) PROVE OneAtATime'
  <2>1. /\ ~client[c].done /\ conn' = 0 /\ dialled' = dialled
        /\ \A d \in 1..dialled : d # c => client'[d] = client[d]
    BY <1>1, <1>4 DEF Close
  <2>2. client'[c].done
    <3>1. PICK k : k = NewClient(0)
      OBVIOUS
    <3>2. k \in Client
      BY <3>1, HubBounds, NewClientIs
    <3>3. PICK s : client'[c] = [k EXCEPT !.done = TRUE, !.stage = s]
      BY <1>1, <1>4, <3>1 DEF Close
    <3> QED BY <3>2, <3>3 DEF Client
  <2> QED BY <2>1, <2>2 DEF OneAtATime
<1>5. CASE Dial
  <2>1. /\ conn = 0 /\ dialled' = dialled + 1 /\ conn' = dialled'
        /\ \A d \in 1..dialled : client'[d] = client[d]
    BY <1>1, <1>5 DEF Dial
  <2> QED BY <1>1, <2>1 DEF OneAtATime
<1>6. ASSUME NEW c \in 1..dialled, Serve(c) \/ Write(c) PROVE OneAtATime'
  <2>1. UNCHANGED <<dialled, conn>> /\ \A d \in 1..dialled : d # c => client'[d] = client[d]
    BY <1>1, <1>6 DEF Serve, Subscribe, List, Replay, Release, ReleaseOne, Write, TheReader
  <2>2. client[c].done => client'[c].done
    BY <1>1, <1>6 DEF Serve, Subscribe, List, Replay, Release, ReleaseOne, Write, Client
  <2> QED BY <2>1, <2>2 DEF OneAtATime
<1>7. ASSUME NEW c \in 1..dialled, NEW e \in Events, Deliver(e, c) PROVE OneAtATime'
  <2>1. UNCHANGED <<dialled, conn>> /\ \A d \in 1..dialled : d # c => client'[d] = client[d]
    BY <1>1, <1>7 DEF Deliver, TheReader
  <2>2. client[c].done => client'[c].done
    BY <1>7 DEF Deliver
  <2> QED BY <2>1, <2>2 DEF OneAtATime
<1>8. CASE SteerRun \/ AppendRunEvent \/ Claim \/ ReportRun \/ StopListening
  <2>1. UNCHANGED <<client, dialled, conn>>
    BY <1>8 DEF SteerRun, AppendRunEvent, Claim, ReportRun, StopListening, hubRest, hubVars
  <2> QED BY <1>2, <2>1
<1>9. ASSUME NEW e \in unpublished, Publish(e) PROVE OneAtATime'
  BY <1>2, <1>9 DEF Publish, TheReader
<1>10. CASE UNCHANGED vars
  BY <1>2, <1>10 DEF vars, hubVars
<1> QED BY <1>4, <1>5, <1>6, <1>7, <1>8, <1>9, <1>10 DEF Next, Hubs, Hear, Dials

(* Every step of the hub and of the Run is one that TopicReader allows.    *)
LEMMA ReaderMoves ==
  HubInv /\ OneAtATime /\ [Next]_vars => [Reader!ReaderNext]_(Reader!readerVars)
<1>. SUFFICES ASSUME HubInv, OneAtATime, [Next]_vars
              PROVE  Reader!ReaderNext \/ UNCHANGED Reader!readerVars
  OBVIOUS
<1>1. ASSUME NEW c \in 1..dialled, Serve(c) \/ Close(c) \/ Write(c)
      PROVE  Reader!ReaderNext \/ UNCHANGED Reader!readerVars
  <2>1. c \in Conns
    BY ConnIs
  <2>2. CASE Serve(c)
    BY <2>1, <2>2, TablesViewed, ReplayViewed, ReleaseViewed DEF Serve, Reader!ReaderNext
  <2>3. CASE Close(c)
    BY <2>1, <2>3, CloseViewed DEF Reader!ReaderNext
  <2>4. CASE Write(c)
    BY <2>1, <2>4, WriteViewed DEF Reader!ReaderNext
  <2> QED BY <1>1, <2>2, <2>3, <2>4
<1>2. ASSUME NEW c \in 1..dialled, NEW e \in Events, Deliver(e, c)
      PROVE  Reader!ReaderNext \/ UNCHANGED Reader!readerVars
  BY <1>2, ConnIs, DeliverViewed DEF Reader!ReaderNext
<1>3. CASE Dial
  BY <1>3, DialViewed DEF Reader!ReaderNext
<1>4. ASSUME NEW e \in unpublished, Publish(e)
      PROVE  UNCHANGED Reader!readerVars
  BY <1>4, PublishViewed
<1>5. CASE SteerRun \/ AppendRunEvent \/ Claim \/ ReportRun
  <2>1. Commit /\ UNCHANGED hubRest /\ cursor' \in {cursor, committed'}
    BY <1>5 DEF SteerRun, AppendRunEvent, Claim, ReportRun
  <2> QED BY <2>1, CommitViewed DEF Reader!ReaderNext
<1>6. CASE StopListening \/ UNCHANGED vars
  <2>1. UNCHANGED <<committed, cursor, unpublished, delivering, client, dialled>>
    BY <1>6 DEF StopListening, vars, hubVars
  <2>2. UNCHANGED <<ReaderState, ReaderFrom, ReaderShown, ReaderOwed>>
    BY <2>1 DEF ReaderState, ReaderFrom, ReaderShown, ReaderOwed, StateOf, OwedTo, UnderWay
  <2> QED BY <2>1, <2>2 DEF Reader!readerVars
<1> QED BY <1>1, <1>2, <1>3, <1>4, <1>5, <1>6 DEF Next, Hubs, Hear, Dials

(* The hub implements TopicReader, for any number of events, connections   *)
(* and frames: subscribe, Publish, deliver and close may race in any way,  *)
(* and the reader of a topic sees a stream that is whole and without       *)
(* duplicates, or is known to have fallen behind.                          *)
THEOREM HubServesReader == Spec => ServesReader
<1>1. StreamInv /\ OneAtATime /\ [Next]_vars => (OneAtATime' /\ [Reader!ReaderNext]_(Reader!readerVars))
  BY OneKept, ReaderMoves DEF StreamInv
<1> QED BY <1>1, ReaderStarts, StreamAlways, PTL DEF Spec, ServesReader, Reader!ReaderSpec
=============================================================================
