------------------------------ MODULE Presence ------------------------------
(***************************************************************************)
(* Who is online on one Server: a Person by the connections of their app,  *)
(* a Bot by what its agent was last heard to ask.  Both are counted under  *)
(* a lock; that something changed is published after the lock is let go,   *)
(* by the goroutine that changed it, and viewers then look for themselves. *)
(***************************************************************************)
EXTENDS Integers, FiniteSets

CONSTANTS
  Sockets,     \* connections of the Person's apps
  AgentCalls   \* requests of the Bot's agent that may be under way at once

ASSUME PresenceAssumption == Sockets \cap AgentCalls = {}

VARIABLES
  count,   \* people: the Person's open sockets, as counted
  opened,  \* connections that are open
  seen,    \* the Bot's entry: "none", "fresh", or "stale" after agentFresh
  toTell,  \* goroutines that are about to publish a change
  told,    \* the viewer has an event it has not looked after
  view,    \* what it saw: [person, bot]
  missed   \* it looked while the Bot was stale

presenceVars == <<count, opened, seen, toTell, told, view, missed>>

PresenceInit ==
  /\ count = 0 /\ opened = {} /\ seen = "none"
  /\ toTell = {} /\ told = FALSE
  /\ view = [person |-> FALSE, bot |-> FALSE] /\ missed = FALSE
-----------------------------------------------------------------------------
(* presenceChanged is called once the lock is let go. *)
TellsIf(changed, x) == toTell' = IF changed THEN toTell \cup {x} ELSE toTell

(* Online, and its release: the first and the last connection count.       *)
Online(k) ==
  /\ k \notin opened \cup toTell
  /\ opened' = opened \cup {k} /\ count' = count + 1
  /\ TellsIf(count' = 1, k)
  /\ UNCHANGED <<seen, told, view, missed>>

(* Mutant of Release: the same connection may be released again. *)
ReleaseAgain(k) ==
  /\ k \notin toTell
  /\ opened' = opened \ {k} /\ count' = count - 1
  /\ TellsIf(count' <= 0, k)
  /\ UNCHANGED <<seen, told, view, missed>>

Release(k) ==
  /\ k \in opened \ toTell
  /\ opened' = opened \ {k} /\ count' = count - 1
  /\ TellsIf(count' <= 0, k)
  /\ UNCHANGED <<seen, told, view, missed>>

(* A claim: the agent is there, and if it was not, that is news. *)
SawAgent(c) ==
  /\ c \notin toTell
  /\ seen' = "fresh"
  /\ TellsIf(seen # "fresh", c)
  /\ UNCHANGED <<count, opened, told, view, missed>>

(* A heartbeat. *)
StillThere ==
  /\ seen = "stale" /\ seen' = "fresh"
  /\ UNCHANGED <<count, opened, toTell, told, view, missed>>

(* Mutant of SetAgentGone: no news if the Bot was quiet for a while. *)
SetQuietAgentGone(c) ==
  /\ c \notin toTell
  /\ seen' = "none"
  /\ TellsIf(seen = "fresh", c)
  /\ UNCHANGED <<count, opened, told, view, missed>>

(* The agent says goodbye; a claim it sent before may still be under way.  *)
SetAgentGone(c) ==
  /\ c \notin toTell
  /\ seen' = "none"
  /\ TellsIf(seen # "none", c)
  /\ UNCHANGED <<count, opened, told, view, missed>>

(* Nothing was heard of it for agentFresh. *)
GoesStale ==
  /\ seen = "fresh" /\ seen' = "stale"
  /\ UNCHANGED <<count, opened, toTell, told, view, missed>>

PresenceChanged(x) ==
  /\ x \in toTell /\ toTell' = toTell \ {x}
  /\ told' = TRUE
  /\ UNCHANGED <<count, opened, seen, view, missed>>

(* A Run was queued, taken or ended. *)
LoadChanged ==
  /\ told' = TRUE
  /\ UNCHANGED <<count, opened, seen, toTell, view, missed>>

(* The viewer asks for Presence, which forgets a Bot after a day. *)
Look ==
  /\ told /\ told' = FALSE
  /\ view' = [person |-> count > 0, bot |-> seen = "fresh"]
  /\ missed' = (seen = "stale")
  /\ seen' \in IF seen = "stale" THEN {"stale", "none"} ELSE {seen}
  /\ UNCHANGED <<count, opened, toTell>>

(* The Server starts afresh; the viewer connects again and looks. *)
Restart ==
  /\ count' = 0 /\ opened' = {} /\ seen' = "none" /\ toTell' = {}
  /\ told' = TRUE
  /\ UNCHANGED <<view, missed>>

PresenceNext ==
  \/ \E k \in Sockets : Online(k) \/ Release(k)
  \/ \E c \in AgentCalls : SawAgent(c) \/ SetAgentGone(c)
  \/ StillThere \/ GoesStale
  \/ \E x \in Sockets \cup AgentCalls : PresenceChanged(x)
  \/ LoadChanged \/ Look \/ Restart

PresenceSpec == PresenceInit /\ [][PresenceNext]_presenceVars
-----------------------------------------------------------------------------
PresenceTypeOK ==
  /\ count = Cardinality(opened) /\ opened \subseteq Sockets
  /\ seen \in {"none", "fresh", "stale"}
  /\ toTell \subseteq Sockets \cup AgentCalls /\ told \in BOOLEAN
  /\ view \in [person : BOOLEAN, bot : BOOLEAN] /\ missed \in BOOLEAN

(* When nobody is about to publish and the viewer has looked after all it  *)
(* was told, it shows the Person as online just if a connection is open,   *)
(* no Bot that said goodbye, and every Bot that is connected: but for one  *)
(* that was quiet for agentFresh when the viewer looked, and came back     *)
(* with a heartbeat (presence.go Online, sawAgent, SetAgentGone).          *)
ViewersAreUpToDate ==
  ~told /\ toTell = {} =>
    /\ view.person <=> opened # {}
    /\ view.bot => seen # "none"
    /\ seen = "fresh" /\ ~missed => view.bot
=============================================================================
