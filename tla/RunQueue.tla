------------------------------ MODULE RunQueue ------------------------------
(***************************************************************************)
(* The queue of Runs: how Bots' agents claim Runs from the Server, keep    *)
(* them with heartbeats, ask people for permission and report the outcome, *)
(* while people cancel Runs, change a Project's max_runs and remove Bots,  *)
(* agents crash, and requests and answers are lost or repeated.            *)
(*                                                                         *)
(* A request to the Server is a database transaction.  One that locks the  *)
(* Run's row before it looks at it (a report, a heartbeat, a permission    *)
(* request) is one action.  A claim is not: it takes a Run's row with SKIP *)
(* LOCKED, then waits for its Project's row, then commits, and each of     *)
(* these is a step of its own, so claims interleave as they do in the      *)
(* database.  Every other transaction sees a Run being claimed as pending, *)
(* and waits for the claim if it wants to change the row.                  *)
(***************************************************************************)
EXTENDS RunStatus, Integers, FiniteSets

CONSTANTS
  Runs,        \* numbered in the order of their created_at
  Projects, Bots, Questions,
  Slots,       \* one loop of an agent process: it works on one Run at a time
  Workers,     \* agent processes, by the name they send in X-BuildBee-Agent
  Limits,      \* the values people give max_runs; 0 is no limit
  NoProject, NoBot, NoWorker, NoRun,
  BotProject,  \* the Project each Bot is a Member of
  SlotBot,     \* the Bot each slot's agent runs
  SlotWorker   \* the agent process each slot belongs to

ASSUME RunsAreNumbers == Runs \subseteq Nat /\ IsFiniteSet(Runs)
ASSUME LimitsAreNumbers == Limits \subseteq Nat
ASSUME Names ==
  /\ NoRun \notin Runs
  /\ NoProject \notin Projects
  /\ NoBot \notin Bots
  /\ NoWorker \notin Workers
  /\ BotProject \in [Bots -> Projects]
  /\ SlotBot \in [Slots -> Bots]
  /\ SlotWorker \in [Slots -> Workers]

VARIABLES
  status,    \* the Run's row in the database ...
  project,
  bot,       \* the Bot it is for, NoBot for a Run any agent may take
  worker,    \* the agent process that claimed it
  lease,     \* "none", "live", or "expired": lease_until has passed
  limit,     \* max_runs of each Project
  archived,  \* archived Projects
  left,      \* removed Bots
  asked,     \* the Run each permission Decision belongs to
  answer,    \* "unasked", "open", "given" by a person, "closed" with its Run
  phase,     \* where each slot, or the request it waits on, is
  hand,      \* the Run of that claim or of that work
  reports    \* outcomes agents have sent; the network may repeat them

vars == <<status, project, bot, worker, lease, limit, archived, left, asked,
          answer, phase, hand, reports>>

(* A slot is idle, has a claim waiting on the Server, has one whose        *)
(* transaction holds a Run's row ("picked") and then its Project's row too *)
(* ("loaded"), works on a Run, or reports its outcome.                     *)
Claiming == {"picked", "loaded"}
AtWork   == {"working", "reporting"}
Phase    == {"idle", "waiting"} \cup Claiming \cup AtWork

Outcomes == {"succeeded", "failed"}
Report == [run : Runs, worker : Workers, next : Outcomes]

TypeOK ==
  /\ status \in [Runs -> Status]
  /\ project \in [Runs -> Projects \cup {NoProject}]
  /\ bot \in [Runs -> Bots \cup {NoBot}]
  /\ worker \in [Runs -> Workers \cup {NoWorker}]
  /\ lease \in [Runs -> {"none", "live", "expired"}]
  /\ limit \in [Projects -> Limits]
  /\ archived \subseteq Projects
  /\ left \subseteq Bots
  /\ asked \in [Questions -> Runs \cup {NoRun}]
  /\ answer \in [Questions -> {"unasked", "open", "given", "closed"}]
  /\ phase \in [Slots -> Phase]
  /\ hand \in [Slots -> Runs \cup {NoRun}]
  /\ reports \subseteq Report

Init ==
  /\ status = [r \in Runs |-> "unborn"]
  /\ project = [r \in Runs |-> NoProject]
  /\ bot = [r \in Runs |-> NoBot]
  /\ worker = [r \in Runs |-> NoWorker]
  /\ lease = [r \in Runs |-> "none"]
  /\ limit \in [Projects -> Limits]
  /\ archived = {}
  /\ left = {}
  /\ asked = [q \in Questions |-> NoRun]
  /\ answer = [q \in Questions |-> "unasked"]
  /\ phase = [s \in Slots |-> "idle"]
  /\ hand = [s \in Slots |-> NoRun]
  /\ reports = {}
-----------------------------------------------------------------------------
(* Reading the tables. *)

Going(p) == {r \in Runs : project[r] = p /\ status[r] = "running"}
Busy(p)  == Cardinality(Going(p))
RoomFor(p, n) == limit[p] = 0 \/ n <= limit[p]

(* Rows held by claims that have not committed. *)
RunLocked(r)     == \E s \in Slots : phase[s] \in Claiming /\ hand[s] = r
ProjectLocked(p) == \E s \in Slots : phase[s] = "loaded" /\ project[hand[s]] = p

(* Mutant of Claimable: no SKIP LOCKED, so two claims take one row.        *)
ClaimableThoughLocked(s) ==
  {r \in Runs : /\ status[r] = "pending"
                /\ project[r] \notin archived
                /\ bot[r] \in {SlotBot[s], NoBot}
                /\ RoomFor(project[r], Busy(project[r]) + 1)}

(* Mutant of Claimable: the Run to start is counted twice.                 *)
ClaimableOffByOne(s) ==
  {r \in Runs : /\ status[r] = "pending"
                /\ ~RunLocked(r)
                /\ project[r] \notin archived
                /\ bot[r] \in {SlotBot[s], NoBot}
                /\ RoomFor(project[r], Busy(project[r]) + 2)}

(* What the claim of slot s may take, and the order it is served in: the   *)
(* Project with the fewest Runs going first, then the oldest Run.          *)
Claimable(s) ==
  {r \in Runs : /\ status[r] = "pending"
                /\ ~RunLocked(r)
                /\ project[r] \notin archived
                /\ bot[r] \in {SlotBot[s], NoBot}
                /\ RoomFor(project[r], Busy(project[r]) + 1)}

Before(r, q) == \/ Busy(project[r]) < Busy(project[q])
                \/ Busy(project[r]) = Busy(project[q]) /\ r <= q

(* runEnded: the permission questions of Runs that end close with them. *)
CloseQuestions(ended) ==
  answer' = [q \in Questions |->
               IF answer[q] = "open" /\ asked[q] \in ended THEN "closed"
                                                            ELSE answer[q]]
-----------------------------------------------------------------------------
(* People. *)

(* A person or autopilot queues Run r in Project p, for one of its Bots or *)
(* for any agent.  Nothing here asks whether the Bot was removed; and the  *)
(* Project's archived_at is read without a lock, or, by autopilot, not at  *)
(* all.                                                                    *)
Enqueue(r, p, b) ==
  /\ status[r] = "unborn"
  /\ b \in Bots => BotProject[b] = p
  /\ status' = [status EXCEPT ![r] = "pending"]
  /\ project' = [project EXCEPT ![r] = p]
  /\ bot' = [bot EXCEPT ![r] = b]
  /\ UNCHANGED <<worker, lease, limit, archived, left, asked, answer, phase,
                 hand, reports>>

(* ReportRun by a person, who can only cancel. *)
Cancel(r) ==
  /\ ~RunLocked(r)
  /\ CanBecome(status[r], "canceled")
  /\ status' = [status EXCEPT ![r] = "canceled"]
  /\ lease' = [lease EXCEPT ![r] = "none"]
  /\ CloseQuestions({r})
  /\ UNCHANGED <<project, bot, worker, limit, archived, left, asked, phase,
                 hand, reports>>

(* UpdateProject writes every column of a row it read earlier, so any      *)
(* earlier values may come with a change; it waits for a claim that holds  *)
(* the row.                                                                *)
UpdateProject(p, n, arch) ==
  /\ ~ProjectLocked(p)
  /\ limit' = [limit EXCEPT ![p] = n]
  /\ archived' = IF arch THEN archived \cup {p} ELSE archived \ {p}
  /\ UNCHANGED <<status, project, bot, worker, lease, left, asked, answer,
                 phase, hand, reports>>

(* Removing a Bot cancels its queued and running Runs; the UPDATE waits    *)
(* for claims that hold one of them.                                       *)
BotRuns(b) == {r \in Runs : bot[r] = b /\ status[r] \in Live}

RemoveMember(b) ==
  /\ b \notin left
  /\ BotProject[b] \notin archived
  /\ \A r \in BotRuns(b) : ~RunLocked(r)
  /\ left' = left \cup {b}
  /\ status' = [r \in Runs |-> IF r \in BotRuns(b) THEN "canceled" ELSE status[r]]
  /\ lease' = [r \in Runs |-> IF r \in BotRuns(b) THEN "none" ELSE lease[r]]
  /\ CloseQuestions(BotRuns(b))
  /\ UNCHANGED <<project, bot, worker, limit, archived, asked, phase, hand,
                 reports>>

(* The first answer to a Decision stands. *)
AnswerDecision(q) ==
  /\ answer[q] = "open"
  /\ project[asked[q]] \notin archived
  /\ answer' = [answer EXCEPT ![q] = "given"]
  /\ UNCHANGED <<status, project, bot, worker, lease, limit, archived, left,
                 asked, phase, hand, reports>>
-----------------------------------------------------------------------------
(* Claiming. *)

Serving == <<status, project, bot, worker, lease, limit, archived, left, asked,
             answer, reports>>

(* A slot asks for work.  Whether its Bot is still a Member is asked here, *)
(* once, and not again while the request waits for a Run to appear.        *)
Connect(s) ==
  /\ phase[s] = "idle"
  /\ SlotBot[s] \notin left
  /\ phase' = [phase EXCEPT ![s] = "waiting"]
  /\ UNCHANGED <<hand, Serving>>

(* The wait is over with nothing found. *)
NothingFound(s) ==
  /\ phase[s] = "waiting"
  /\ phase' = [phase EXCEPT ![s] = "idle"]
  /\ UNCHANGED <<hand, Serving>>

(* store.ClaimRun: the UPDATE takes the first claimable row nobody holds.  *)
ClaimRun(s) ==
  /\ phase[s] = "waiting"
  /\ \E r \in Claimable(s) :
       /\ \A q \in Claimable(s) : Before(r, q)
       /\ hand' = [hand EXCEPT ![s] = r]
  /\ phase' = [phase EXCEPT ![s] = "picked"]
  /\ UNCHANGED Serving

(* Mutant of ProjectLoad: the claim trusts the count of its UPDATE.        *)
LoadWithoutRecount(s) ==
  /\ phase[s] = "picked"
  /\ ~ProjectLocked(project[hand[s]])
  /\ phase' = [phase EXCEPT ![s] = "loaded"]
  /\ UNCHANGED <<hand, Serving>>

(* ProjectLoad: with the Project's row locked the claim counts again, its  *)
(* own Run included, and goes on only if that is within max_runs.          *)
ProjectLoad(s) ==
  /\ phase[s] = "picked"
  /\ ~ProjectLocked(project[hand[s]])
  /\ RoomFor(project[hand[s]], Busy(project[hand[s]]) + 1)
  /\ phase' = [phase EXCEPT ![s] = "loaded"]
  /\ UNCHANGED <<hand, Serving>>

(* errOverLimit: the claim rolls back and the request goes on waiting. *)
OverLimit(s) ==
  /\ phase[s] = "picked"
  /\ ~ProjectLocked(project[hand[s]])
  /\ ~RoomFor(project[hand[s]], Busy(project[hand[s]]) + 1)
  /\ phase' = [phase EXCEPT ![s] = "waiting"]
  /\ hand' = [hand EXCEPT ![s] = NoRun]
  /\ UNCHANGED Serving

(* The Server dies, or the database refuses the transaction. *)
AbortClaim(s) ==
  /\ phase[s] \in Claiming
  /\ phase' = [phase EXCEPT ![s] = "idle"]
  /\ hand' = [hand EXCEPT ![s] = NoRun]
  /\ UNCHANGED Serving

(* Mutant of CommitClaim: the claim sets no lease.                         *)
CommitWithoutLease(s, told) ==
  /\ phase[s] = "loaded"
  /\ status' = [status EXCEPT ![hand[s]] = "running"]
  /\ worker' = [worker EXCEPT ![hand[s]] = SlotWorker[s]]
  /\ phase' = [phase EXCEPT ![s] = IF told THEN "working" ELSE "idle"]
  /\ hand' = [hand EXCEPT ![s] = IF told THEN @ ELSE NoRun]
  /\ UNCHANGED <<project, bot, lease, limit, archived, left, asked, answer,
                 reports>>

(* The claim commits and its answer reaches the agent, or it does not (the *)
(* connection is gone, or the agent is): then the Run is running and       *)
(* nobody works on it.                                                     *)
CommitClaim(s, told) ==
  /\ phase[s] = "loaded"
  /\ status' = [status EXCEPT ![hand[s]] = "running"]
  /\ worker' = [worker EXCEPT ![hand[s]] = SlotWorker[s]]
  /\ lease' = [lease EXCEPT ![hand[s]] = "live"]
  /\ phase' = [phase EXCEPT ![s] = IF told THEN "working" ELSE "idle"]
  /\ hand' = [hand EXCEPT ![s] = IF told THEN @ ELSE NoRun]
  /\ UNCHANGED <<project, bot, limit, archived, left, asked, answer, reports>>
-----------------------------------------------------------------------------
(* Working. *)

Owns(s) == worker[hand[s]] = SlotWorker[s]

(* Mutant of Heartbeat: a finished Run's lease is extended too.            *)
HeartbeatAnyStatus(s) ==
  /\ phase[s] \in AtWork
  /\ Owns(s)
  /\ lease' = [lease EXCEPT ![hand[s]] = "live"]
  /\ UNCHANGED <<status, project, bot, worker, limit, archived, left, asked,
                 answer, phase, hand, reports>>

(* ExtendLease, on a Run still running; an expired lease comes back if the *)
(* reaper has not been.                                                    *)
Heartbeat(s) ==
  /\ phase[s] \in AtWork
  /\ Owns(s)
  /\ status[hand[s]] = "running"
  /\ lease' = [lease EXCEPT ![hand[s]] = "live"]
  /\ UNCHANGED <<status, project, bot, worker, limit, archived, left, asked,
                 answer, phase, hand, reports>>

(* keepAlive learns from a heartbeat that the Run is over or is another    *)
(* worker's: the agent stops and reports nothing.                          *)
Stopped(s) ==
  /\ phase[s] = "working"
  /\ ~Owns(s) \/ status[hand[s]] \in Finished
  /\ phase' = [phase EXCEPT ![s] = "idle"]
  /\ hand' = [hand EXCEPT ![s] = NoRun]
  /\ UNCHANGED Serving

(* Mutant of AskPermission: a question is taken from a Run that has ended. *)
AskAnyStatus(s, q) ==
  /\ phase[s] = "working"
  /\ answer[q] = "unasked"
  /\ Owns(s)
  /\ asked' = [asked EXCEPT ![q] = hand[s]]
  /\ answer' = [answer EXCEPT ![q] = "open"]
  /\ UNCHANGED <<status, project, bot, worker, lease, limit, archived, left,
                 phase, hand, reports>>

(* AskPermission records a Decision, if the Run is running on this worker. *)
AskPermission(s, q) ==
  /\ phase[s] = "working"
  /\ answer[q] = "unasked"
  /\ Owns(s)
  /\ status[hand[s]] = "running"
  /\ asked' = [asked EXCEPT ![q] = hand[s]]
  /\ answer' = [answer EXCEPT ![q] = "open"]
  /\ UNCHANGED <<status, project, bot, worker, lease, limit, archived, left,
                 phase, hand, reports>>

(* The agent is done, failed or ran out of time, and sends its outcome. *)
SendReport(s, next) ==
  /\ phase[s] = "working"
  /\ phase' = [phase EXCEPT ![s] = "reporting"]
  /\ reports' = reports \cup {[run |-> hand[s], worker |-> SlotWorker[s], next |-> next]}
  /\ UNCHANGED <<status, project, bot, worker, lease, limit, archived, left,
                 asked, answer, hand>>

(* reportOutcome returns: answered, refused, or tired of retrying.  A copy *)
(* may still be on its way to the Server.                                  *)
StopReporting(s) ==
  /\ phase[s] = "reporting"
  /\ phase' = [phase EXCEPT ![s] = "idle"]
  /\ hand' = [hand EXCEPT ![s] = NoRun]
  /\ UNCHANGED Serving

(* Mutant of ReportRun: a late report changes a finished Run.              *)
ReportAnyStatus(m) ==
  /\ m \in reports
  /\ worker[m.run] = m.worker
  /\ status' = [status EXCEPT ![m.run] = m.next]
  /\ lease' = [lease EXCEPT ![m.run] = "none"]
  /\ CloseQuestions({m.run})
  /\ UNCHANGED <<project, bot, worker, limit, archived, left, asked, phase,
                 hand, reports>>

(* ReportRun by an agent: ownRun, then the lifecycle; a finished Run does  *)
(* not change again.                                                       *)
ReportRun(m) ==
  /\ m \in reports
  /\ worker[m.run] = m.worker
  /\ CanBecome(status[m.run], m.next)
  /\ status' = [status EXCEPT ![m.run] = m.next]
  /\ lease' = [lease EXCEPT ![m.run] = "none"]
  /\ CloseQuestions({m.run})
  /\ UNCHANGED <<project, bot, worker, limit, archived, left, asked, phase,
                 hand, reports>>

(* An agent process dies with everything its slots were doing. *)
Crash(w) ==
  LET gone == {s \in Slots : SlotWorker[s] = w /\ phase[s] \notin Claiming}
  IN /\ \E s \in gone : phase[s] # "idle"
     /\ phase' = [s \in Slots |-> IF s \in gone THEN "idle" ELSE phase[s]]
     /\ hand' = [s \in Slots |-> IF s \in gone THEN NoRun ELSE hand[s]]
     /\ UNCHANGED Serving
-----------------------------------------------------------------------------
(* The Server's clock. *)

(* LeaseTTL passes without a heartbeat getting through. *)
LeaseOut(r) ==
  /\ lease[r] = "live"
  /\ lease' = [lease EXCEPT ![r] = "expired"]
  /\ UNCHANGED <<status, project, bot, worker, limit, archived, left, asked,
                 answer, phase, hand, reports>>

(* ExpiredRuns; a claim holds only pending rows, so none of these. *)
Expired == {r \in Runs : status[r] = "running" /\ lease[r] = "expired"}

(* Mutant of ReapRuns: the reaper writes a status the lifecycle lacks.     *)
ReapAsExpired(dead) ==
  /\ dead # {}
  /\ dead \subseteq Expired
  /\ status' = [r \in Runs |-> IF r \in dead THEN "expired" ELSE status[r]]
  /\ lease' = [r \in Runs |-> IF r \in dead THEN "none" ELSE lease[r]]
  /\ CloseQuestions(dead)
  /\ UNCHANGED <<project, bot, worker, limit, archived, left, asked, phase,
                 hand, reports>>

(* The reaper fails Runs whose lease ran out: those its query could lock,  *)
(* and no more than a batch.                                               *)
ReapRuns(dead) ==
  /\ dead # {}
  /\ dead \subseteq Expired
  /\ status' = [r \in Runs |-> IF r \in dead THEN "failed" ELSE status[r]]
  /\ lease' = [r \in Runs |-> IF r \in dead THEN "none" ELSE lease[r]]
  /\ CloseQuestions(dead)
  /\ UNCHANGED <<project, bot, worker, limit, archived, left, asked, phase,
                 hand, reports>>
-----------------------------------------------------------------------------
People ==
  \/ \E r \in Runs, p \in Projects, b \in Bots \cup {NoBot} : Enqueue(r, p, b)
  \/ \E r \in Runs : Cancel(r)
  \/ \E p \in Projects, n \in Limits, arch \in BOOLEAN : UpdateProject(p, n, arch)
  \/ \E b \in Bots : RemoveMember(b)
  \/ \E q \in Questions : AnswerDecision(q)

Agent(s) ==
  \/ Connect(s) \/ NothingFound(s)
  \/ ClaimRun(s) \/ ProjectLoad(s) \/ OverLimit(s) \/ AbortClaim(s)
  \/ \E told \in BOOLEAN : CommitClaim(s, told)
  \/ Heartbeat(s) \/ Stopped(s)
  \/ \E q \in Questions : AskPermission(s, q)
  \/ \E next \in Outcomes : SendReport(s, next)
  \/ StopReporting(s)

Server ==
  \/ \E m \in reports : ReportRun(m)
  \/ \E r \in Runs : LeaseOut(r)
  \/ \E dead \in SUBSET Runs : ReapRuns(dead)

Next ==
  \/ People
  \/ \E s \in Slots : Agent(s)
  \/ \E w \in Workers : Crash(w)
  \/ Server

Spec == Init /\ [][Next]_vars

(* What the Server and the agents keep doing: the clock and the reaper's   *)
(* ticker, an agent works for at most its RunTimeout, gives up reporting   *)
(* and asks for work again, and a claim gets through in the end however    *)
(* often one is aborted.  People, crashes, heartbeats and the delivery of  *)
(* reports promise nothing.                                                *)
Abandoned(r) == status[r] = "running" /\ \A s \in Slots : hand[s] # r

Fairness ==
  /\ \A r \in Runs : /\ WF_vars(Abandoned(r) /\ LeaseOut(r))
                      /\ WF_vars(\E dead \in SUBSET Runs : r \in dead /\ ReapRuns(dead))
  /\ \A s \in Slots : /\ WF_vars(Connect(s))
                       /\ SF_vars(ClaimRun(s))
                       /\ SF_vars(ProjectLoad(s) \/ OverLimit(s))
                       /\ SF_vars(CommitClaim(s, TRUE))
                       /\ WF_vars(\E next \in Outcomes : SendReport(s, next))
                       /\ WF_vars(StopReporting(s))

FairSpec == Spec /\ Fairness
-----------------------------------------------------------------------------
(* Two slots never have the same Run, claiming it or working on it, and a  *)
(* slot at work is on record as the Run's worker (SKIP LOCKED, ownRun).    *)
OneWorkerPerRun ==
  \A s \in Slots :
    /\ phase[s] \in AtWork => Owns(s)
    /\ \A t \in Slots \ {s} : hand[s] # NoRun => hand[s] # hand[t]

(* A Run has a lease exactly while it runs: without one the reaper would   *)
(* never find it, and a finished Run is never reaped.                      *)
LeasedWhileRunning == \A r \in Runs : lease[r] # "none" <=> status[r] = "running"

(* No permission question waits for an answer once its Run has ended, by   *)
(* whichever way it ended, and a late request opens none.                  *)
NoQuestionOutlivesItsRun ==
  \A q \in Questions : answer[q] = "open" => status[asked[q]] = "running"

(* A claim never takes a Project past its max_runs, though claims race and *)
(* people change the limit.  (Lowering it stops nothing that is running.)  *)
ClaimsWithinLimit ==
  [][\A p \in Projects : Busy(p)' > Busy(p) => RoomFor(p, Busy(p))']_vars

(* RemoveMember: a removed Bot takes no more work.                         *)
RemovedBotTakesNoWork ==
  [][\A s \in Slots : /\ phase[s] = "loaded"
                      /\ status[hand[s]] = "pending"
                      /\ status'[hand[s]] = "running"
                      => SlotBot[s] \notin left]_vars

(* The queue keeps what RunLifecycle promises. *)
Lifecycle == INSTANCE RunLifecycle
ImplementsLifecycle == Lifecycle!Spec

(* A Run nobody works on ends: its claim's answer was lost, its agent died *)
(* or gave up reporting.                                                   *)
AbandonedRunsEnd == \A r \in Runs : Abandoned(r) ~> status[r] \in Finished

(* A queued Run with an agent for its Bot is taken, or ended, unless its   *)
(* Project is archived or the agent's Bot is removed: claims that race for *)
(* the last place do not turn each other away for ever.                    *)
QueuedRunsAreTaken ==
  \A r \in Runs, s \in Slots :
    status[r] = "pending" /\ bot[r] = SlotBot[s]
      ~> status[r] # "pending" \/ project[r] \in archived \/ bot[r] \in left
=============================================================================
