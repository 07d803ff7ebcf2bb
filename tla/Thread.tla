------------------------------- MODULE Thread -------------------------------
(***************************************************************************)
(* The thread of a Task and the Runs asked for in it: people reply, hand   *)
(* the Task to a Bot, start a Run by hand and steer one, while agents      *)
(* claim Runs and report them.  Each request is a transaction of several   *)
(* statements; rows it wrote or locked stay locked to its end, and the     *)
(* database aborts one of those that wait for each other.                  *)
(***************************************************************************)
EXTENDS Naturals, FiniteSets

CONSTANTS
  Replies,   \* replies of people that mention no Bot
  Asks,      \* replies that hand the Task to a Bot
  Starts,    \* requests to start a Run by hand
  Steers,    \* messages to a Run's agent
  Runs       \* Runs there may be

ASSUME ThreadAssumption ==
  /\ Asks \cap Replies = {} /\ Starts \cap (Asks \cup Replies) = {}
  /\ Steers \cap (Asks \cup Replies \cup Starts) = {}
  /\ Runs \cap (Asks \cup Replies \cup Starts \cup Steers) = {}

Writers == Replies \cup Asks
Requests == Writers \cup Starts
Tx == Requests \cup Runs      \* a Run also stands for the request to end it
None == "none"
Rows == {"root", "task"} \cup Runs
ASSUME NoneAssumption == None \notin Tx \cup Rows

VARIABLES
  holder,     \* who has each row locked
  step,       \* where each request is; of a Run, the request to end it
  inThread,   \* replies committed
  status,     \* each Run: "none", "pending", "running" or "over"
  prompt,     \* messages in its prompt, which is final once it is claimed
  passed,     \* messages its agent gets as events
  handed,     \* Runs that were created with the Task locked
  read,       \* the thread as a request read it
  target,     \* the Run a reply was to reach ...
  sawQueued,  \* ... which was pending, when it read it
  steered,    \* messages sent to a Run and committed, each with its Run
  reporting   \* Runs whose agent has an outcome to report

threadVars == <<holder, step, inThread, status, prompt, passed, handed, read, target, sawQueued, steered, reporting>>
runsVars == <<status, prompt, passed, handed>>
replyVars == <<read, target, sawQueued>>

ThreadInit ==
  /\ holder = [r \in Rows |-> None]
  /\ step = [t \in Tx |-> "idle"]
  /\ inThread = {}
  /\ status = [r \in Runs |-> "none"]
  /\ prompt = [r \in Runs |-> {}] /\ passed = [r \in Runs |-> {}]
  /\ handed = {}
  /\ read = [t \in Requests |-> {}]
  /\ target = [p \in Replies |-> None] /\ sawQueued = [p \in Replies |-> FALSE]
  /\ steered = {}
  /\ reporting = {}

Active == {r \in Runs : status[r] \in {"pending", "running"}}

Moves(t, s) == step' = [step EXCEPT ![t] = s]
Locks(t, row) == holder[row] = None /\ holder' = [holder EXCEPT ![row] = t]
Ends(t, s) ==
  /\ Moves(t, s)
  /\ holder' = [row \in Rows |-> IF holder[row] = t THEN None ELSE holder[row]]

(* createRun: the prompt has the replies it read of the thread.            *)
Creates(r, replies, isHanded) ==
  /\ status[r] = "none"
  /\ status' = [status EXCEPT ![r] = "pending"]
  /\ prompt' = [prompt EXCEPT ![r] = replies]
  /\ handed' = IF isHanded THEN handed \cup {r} ELSE handed
  /\ UNCHANGED passed
-----------------------------------------------------------------------------
(* post: the reply is written and counted on its root ...                  *)
WriteReply(p) ==
  /\ step[p] = "idle" /\ Locks(p, "root") /\ Moves(p, "wrote")
  /\ UNCHANGED <<inThread, runsVars, replyVars, steered, reporting>>

(* ... the Task is read, and locked ... *)
LockTask(p) ==
  /\ step[p] = "wrote" /\ Locks(p, "task") /\ Moves(p, "locked")
  /\ UNCHANGED <<inThread, runsVars, replyVars, steered, reporting>>

(* ... and a Run of it that has not ended is looked for, unlocked: the one *)
(* whose request came last, which may be any.                              *)
ListRuns(p) ==
  /\ p \in Replies /\ step[p] = "locked"
  /\ \/ /\ Active = {}
        /\ Ends(p, "posted") /\ inThread' = inThread \cup {p}
        /\ UNCHANGED <<target, sawQueued, read>>
     \/ \E r \in Active :
          /\ target' = [target EXCEPT ![p] = r]
          /\ sawQueued' = [sawQueued EXCEPT ![p] = status[r] = "pending"]
          /\ read' = [read EXCEPT ![p] = prompt[r]]
          /\ Moves(p, "listed")
          /\ UNCHANGED <<holder, inThread>>
  /\ UNCHANGED <<runsVars, steered, reporting>>

(* UpdateRunPrompt: the prompt of a Run that is pending. *)
UpdateRunPrompt(r, messages) ==
  prompt' = IF status[r] = "pending" THEN [prompt EXCEPT ![r] = messages] ELSE prompt

(* Mutant of TakenMeanwhile: how many rows were written is not looked at.  *)
NeverTaken(p) == sawQueued[p] /\ status[target[p]] = "none"

(* It was claimed after the reply read it as pending. *)
TakenMeanwhile(p) == sawQueued[p] /\ status[target[p]] # "pending"

(* steer: the prompt that was read, with this message, is written if the   *)
(* Run is still pending, or the request fails; a message to one that was   *)
(* running is an event, whatever became of the Run.                        *)
SteerTask(p) ==
  /\ step[p] = "listed"
  /\ LET r == target[p] IN
     /\ holder[r] = None
     /\ IF TakenMeanwhile(p)
        THEN /\ Ends(p, "refused") /\ target' = [target EXCEPT ![p] = None]
             /\ UNCHANGED <<inThread, runsVars, steered>>
        ELSE /\ Ends(p, "posted") /\ inThread' = inThread \cup {p}
             /\ steered' = steered \cup {<<p, r>>}
             /\ IF sawQueued[p]
                THEN UpdateRunPrompt(r, read[p] \cup {p}) /\ UNCHANGED passed
                ELSE passed' = [passed EXCEPT ![r] = @ \cup {p}] /\ UNCHANGED prompt
             /\ UNCHANGED <<status, handed, target>>
  /\ read' = [read EXCEPT ![p] = {}]
  /\ UNCHANGED <<sawQueued, reporting>>

(* A Bot is mentioned: handoff queues a Run of the Task. *)
HandOn(p, r) ==
  /\ p \in Asks /\ step[p] = "locked"
  /\ Creates(r, inThread \cup {p}, TRUE)
  /\ Ends(p, "posted") /\ inThread' = inThread \cup {p}
  /\ UNCHANGED <<replyVars, steered, reporting>>

(* ... unless the Project does not run Tasks by itself, the Bot works on   *)
(* none, or there is no branch to review.                                  *)
HandOnOnly(p) ==
  /\ p \in Asks /\ step[p] = "locked"
  /\ Ends(p, "posted") /\ inThread' = inThread \cup {p}
  /\ UNCHANGED <<runsVars, replyVars, steered, reporting>>

(* CreateRun reads the thread with no lock on the Task ...                 *)
ReadThread(h) ==
  /\ h \in Starts /\ step[h] = "idle"
  /\ read' = [read EXCEPT ![h] = inThread] /\ Moves(h, "read")
  /\ UNCHANGED <<holder, inThread, runsVars, target, sawQueued, steered, reporting>>

(* ... and inserts a Run, which refers to the Task: it waits while the     *)
(* Task is locked.                                                         *)
StartRun(h, r) ==
  /\ h \in Starts /\ step[h] = "read" /\ holder["task"] = None
  /\ Creates(r, read[h], FALSE)
  /\ Moves(h, "posted") /\ read' = [read EXCEPT ![h] = {}]
  /\ UNCHANGED <<holder, inThread, target, sawQueued, steered, reporting>>

(* SteerRun, with the Run's row locked. *)
SteerOne(s, r) ==
  /\ \A m \in steered : m[1] # s
  /\ r \in Active /\ holder[r] = None
  /\ steered' = steered \cup {<<s, r>>}
  /\ IF status[r] = "pending"
     THEN UpdateRunPrompt(r, prompt[r] \cup {s}) /\ UNCHANGED passed
     ELSE passed' = [passed EXCEPT ![r] = @ \cup {s}] /\ UNCHANGED prompt
  /\ UNCHANGED <<holder, step, inThread, status, handed, replyVars, reporting>>

(* A claim skips Runs that are locked. *)
ClaimOne(r) ==
  /\ status[r] = "pending" /\ holder[r] = None
  /\ status' = [status EXCEPT ![r] = "running"]
  /\ UNCHANGED <<holder, step, inThread, prompt, passed, handed, replyVars, steered, reporting>>
-----------------------------------------------------------------------------
(* ReportRun locks the Run: its agent reports the outcome, and again until *)
(* it is told that the Run is over; or a person cancels it.                *)
HasOutcome(r) ==
  /\ status[r] = "running" /\ reporting' = reporting \cup {r}
  /\ r \notin reporting
  /\ UNCHANGED <<holder, step, inThread, runsVars, replyVars, steered>>

(* Mutant of Report: what a Run may become is asked of the wrong status. *)
ReportQueued(r) ==
  /\ r \in reporting /\ status[r] = "pending"
  /\ step[r] = "idle" /\ Locks(r, r) /\ Moves(r, "reporting")
  /\ UNCHANGED <<inThread, runsVars, replyVars, steered, reporting>>

Report(r) ==
  /\ r \in reporting /\ status[r] = "running"
  /\ step[r] = "idle" /\ Locks(r, r) /\ Moves(r, "reporting")
  /\ UNCHANGED <<inThread, runsVars, replyVars, steered, reporting>>

Cancel(r) ==
  /\ r \in Active
  /\ step[r] = "idle" /\ Locks(r, r) /\ Moves(r, "canceling")
  /\ UNCHANGED <<inThread, runsVars, replyVars, steered, reporting>>

Over(r) ==
  /\ status' = [status EXCEPT ![r] = "over"]
  /\ Ends(r, "idle")

(* advance locks the Task.  Nothing is said of a Run that was canceled ... *)
EndCanceled(r) ==
  /\ step[r] = "canceling" /\ holder["task"] = None
  /\ Over(r)
  /\ UNCHANGED <<inThread, prompt, passed, handed, replyVars, steered, reporting>>

Advance(r) ==
  /\ step[r] = "reporting" /\ Locks(r, "task") /\ Moves(r, "noting")
  /\ UNCHANGED <<inThread, runsVars, replyVars, steered, reporting>>

(* ... the outcome of another is a reply in the thread.                    *)
Note(r) ==
  /\ step[r] = "noting" /\ holder["root"] = None
  /\ Over(r)
  /\ UNCHANGED <<inThread, prompt, passed, handed, replyVars, steered, reporting>>
-----------------------------------------------------------------------------
(* The row a request waits for next. *)
Wants(t) ==
  CASE t \in Writers /\ step[t] = "wrote" -> "task"
    [] t \in Replies /\ step[t] = "listed" -> target[t]
    [] t \in Runs /\ step[t] \in {"reporting", "canceling"} -> "task"
    [] t \in Runs /\ step[t] = "noting" -> "root"
    [] OTHER -> None

WaitsFor(t) == IF Wants(t) = None THEN None ELSE holder[Wants(t)]

(* Deadlock detection: of two requests that wait for each other one is     *)
(* aborted.  No cycle is longer: one request has the thread's root, and    *)
(* one the Task.                                                           *)
InDeadlock(t) == WaitsFor(t) \notin {None, t} /\ WaitsFor(WaitsFor(t)) = t

Abort(t) ==
  /\ InDeadlock(t)
  /\ Ends(t, IF t \in Runs THEN "idle" ELSE "refused")
  /\ IF t \in Replies
     THEN target' = [target EXCEPT ![t] = None] /\ read' = [read EXCEPT ![t] = {}]
     ELSE UNCHANGED <<target, read>>
  /\ UNCHANGED <<inThread, runsVars, sawQueued, steered, reporting>>

RequestStep(t) ==
  \/ t \in Writers /\ LockTask(t)
  \/ t \in Replies /\ (ListRuns(t) \/ SteerTask(t))
  \/ t \in Asks /\ (HandOnOnly(t) \/ \E r \in Runs : HandOn(t, r))
  \/ t \in Runs /\ (EndCanceled(t) \/ Advance(t) \/ Note(t))
  \/ Abort(t)

ThreadNext ==
  \/ \E t \in Tx : RequestStep(t)
  \/ \E p \in Writers : WriteReply(p)
  \/ \E h \in Starts : ReadThread(h) \/ \E r \in Runs : StartRun(h, r)
  \/ \E s \in Steers, r \in Runs : SteerOne(s, r)
  \/ \E r \in Runs : ClaimOne(r) \/ HasOutcome(r) \/ Report(r) \/ Cancel(r)

(* A transaction that can go on does, the database sees deadlocks, and the *)
(* agent reports again.                                                    *)
ThreadFairness ==
  /\ \A t \in Tx : WF_threadVars(RequestStep(t))
  /\ \A r \in Runs : WF_threadVars(Report(r))

ThreadSpec == ThreadInit /\ [][ThreadNext]_threadVars /\ ThreadFairness
-----------------------------------------------------------------------------
ThreadTypeOK ==
  /\ holder \in [Rows -> Tx \cup {None}]
  /\ step \in [Tx -> {"idle", "wrote", "locked", "listed", "read", "posted", "refused",
                      "reporting", "canceling", "noting"}]
  /\ inThread \subseteq Writers
  /\ status \in [Runs -> {"none", "pending", "running", "over"}]
  /\ prompt \in [Runs -> SUBSET (Writers \cup Steers)] /\ passed \in [Runs -> SUBSET (Replies \cup Steers)]
  /\ handed \subseteq Runs
  /\ target \in [Replies -> Runs \cup {None}] /\ sawQueued \in [Replies -> BOOLEAN]
  /\ steered \subseteq (Replies \cup Steers) \X Runs /\ reporting \subseteq Runs

(* No reply falls between the prompt of a Run and its agent's ear: while a *)
(* Run the Task was handed on for is going, every reply in the thread was  *)
(* in the thread its prompt was made from, or was sent to a Run.  What was *)
(* sent to a Run reaches it, in its prompt or as an event, but for a       *)
(* message sent to it directly that a reply overwrote, having read the     *)
(* prompt before (chat.go post, steerTask; runs.go createRun, steer).  A   *)
(* Run started by hand may miss a reply.                                   *)
RepliesReachAgents ==
  /\ \A r \in handed \cap Active : \A p \in inThread \cap Replies :
       p \in prompt[r] \/ \E q \in Runs : <<p, q>> \in steered
  /\ \A m \in steered :
       \/ m[1] \in prompt[m[2]] \cup passed[m[2]]
       \/ m[1] \in Steers /\ \E p \in Replies \cap prompt[m[2]] : <<p, m[2]>> \in steered

(* A Run whose agent reports it ends, though reports and replies lock the  *)
(* Task and the thread in opposite orders (runs.go ReportRun, autopilot.go *)
(* advance, chat.go note, post).                                           *)
ReportsLand == \A r \in Runs : r \in reporting ~> status[r] = "over"
=============================================================================
