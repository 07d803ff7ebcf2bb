----------------------------- MODULE Autopilot ------------------------------
(***************************************************************************)
(* Autopilot on one Task: how plans, builds, reviews, CI results, merge    *)
(* Decisions and merges follow one another, while people queue Runs of     *)
(* their own, hand the Task on, close or reopen it, change the Project's   *)
(* settings and push to its branches, agents work on several Runs at once, *)
(* and any of them may die.                                                *)
(*                                                                         *)
(* Every handler holds the Task's row, or inserts one Run, so it is one    *)
(* action.  What an agent does to the repository between claiming a Run    *)
(* and reporting it is not: it reads the Task when it claims, the          *)
(* repository when it prepares its checkout, and pushes later; an agent    *)
(* whose Run was canceled or failed meanwhile goes on until it hears of it.*)
(*                                                                         *)
(* Claims, leases and lost answers are RunQueue's.  Handoffs, notes,       *)
(* Activity and notifications are records no decision here reads, and are  *)
(* left out, as are CI results that name no commit.                        *)
(***************************************************************************)
EXTENDS RunStatus, Integers, Sequences, FiniteSets

CONSTANTS
  Team,        \* the roles the Project has Bots for
  Checks,      \* names of CI checks
  Statuses,    \* those people give the Task
  AutoRuns,    \* the values people give auto_run ...
  Policies,    \* ... and merge_policy
  MaxRounds,   \* the Builder's attempts before a person decides
  MaxRuns,     \* bound: Runs of the Task
  MaxCommits   \* bound: commits pushed to its branches

ASSUME TeamOfRoles == Team \subseteq {"scout", "builder", "sentry"}
ASSUME Settings ==
  /\ Statuses \subseteq {"open", "in_progress", "done", "canceled"}
  /\ AutoRuns \subseteq BOOLEAN
  /\ Policies \subseteq {"auto", "approval"}
ASSUME Bounds == MaxRounds \in Nat /\ MaxRuns \in Nat /\ MaxCommits \in Nat

VARIABLES
  task,       \* status of the Task
  branch,     \* the branch it records, by the Run that opened it; 0 for none
  head,       \* the commit it records, 0 for none
  merged,     \* merged_at is set
  autoRun,
  policy,     \* merge_policy
  runs,       \* the Task's Runs, oldest first
  decisions,  \* merge Decisions: the commit each is about, and its answer
  ci,         \* the latest result of each check on each commit
  tips,       \* the repository: the commit each branch points at, 0 for none
  parent,     \* of each commit, the one it was built on
  landed      \* commits merged into the default branch

vars == <<task, branch, head, merged, autoRun, policy, runs, decisions, ci,
          tips, parent, landed>>

taskRow    == <<branch, head, merged>>
settings   == <<autoRun, policy>>
repository == <<tips, parent, landed>>

Closed  == {"done", "canceled"}
Commits == 1..MaxCommits
Names   == 1..MaxRuns  \* of branches

Kind    == {"plan", "build", "review", "merge"}
Verdict == {"", "approve", "changes"}
Agent   == {"none", "claimed", "prepared", "done"}

Run == [kind : Kind, verdict : Verdict,
        status : Live \cup {"succeeded", "failed"},
        commit : 0..MaxCommits,  \* to merge, or what a finished Run reported
        branch : 0..MaxRuns,     \* what it reported
        agent  : Agent,          \* how far its agent is
        from   : 0..MaxRuns,     \* the branch its agent was told of
        at     : 0..MaxCommits]  \* the commit in its agent's checkout

Decision == [commit : 0..MaxCommits, answer : {"open", "merge", "stop"}]

TypeOK ==
  /\ task \in {"open", "in_progress"} \cup Closed
  /\ branch \in 0..MaxRuns /\ head \in 0..MaxCommits /\ merged \in BOOLEAN
  /\ autoRun \in AutoRuns /\ policy \in Policies
  /\ runs \in Seq(Run) /\ Len(runs) <= MaxRuns
  /\ decisions \subseteq Decision
  /\ ci \in [Commits -> [Checks -> {"none", "pending", "success", "failure"}]]
  /\ tips \in [Names -> 0..MaxCommits]
  /\ parent \in Seq(0..MaxCommits) /\ Len(parent) <= MaxCommits
  /\ landed \subseteq Commits

NoResults == [c \in Commits |-> [k \in Checks |-> "none"]]

Init ==
  /\ task = "open" /\ branch = 0 /\ head = 0 /\ merged = FALSE
  /\ autoRun \in AutoRuns /\ policy \in Policies
  /\ runs = <<>>
  /\ decisions = {}
  /\ ci = NoResults
  /\ tips = [b \in Names |-> 0] /\ parent = <<>> /\ landed = {}
-----------------------------------------------------------------------------
(* Reading the tables. *)

Unfinished(kind, rs) ==
  \E i \in DOMAIN rs : rs[i].kind = kind /\ rs[i].status \in Live

Succeeded(kind, rs) ==
  {i \in DOMAIN rs : rs[i].kind = kind /\ rs[i].status = "succeeded"}

(* i is the newest of the Runs in S. *)
Newest(i, S) == i \in S /\ \A j \in S : j <= i

Open == {d \in decisions : d.answer = "open"}

(* ciState: what the latest results say of commit c.  A Task that CI never *)
(* reported on has no CI to wait for.                                      *)
CIState(results, c) ==
  LET said == {results[c][k] : k \in Checks} \ {"none"}
  IN CASE results = NoResults -> "success"
       [] results # NoResults /\ said = {} -> "pending"
       [] "failure" \in said -> "failure"
       [] "pending" \in said /\ "failure" \notin said -> "pending"
       [] OTHER -> "success"
-----------------------------------------------------------------------------
(* What a handler decides: nothing, to queue a Run, or to ask people.      *)

(* passOn: the Bot of one role hands the Task to the Bot of another, which *)
(* starts a Run.                                                           *)
PassOn(from, to, kind) == IF {from, to} \subseteq Team THEN kind ELSE "nothing"

SendBack(rs) ==
  IF Unfinished("build", rs) THEN "nothing"
  ELSE IF Cardinality(Succeeded("build", rs)) < MaxRounds
       THEN PassOn("sentry", "builder", "build")
       ELSE "ask"

(* The newest review that succeeded approved the commit the Task records.  *)
Approved(rs) ==
  \E i \in DOMAIN rs : /\ Newest(i, Succeeded("review", rs))
                       /\ rs[i].verdict = "approve"
                       /\ rs[i].commit = head

TryMerge(rs, results) ==
  IF merged \/ branch = 0 \/ Unfinished("merge", rs) \/ ~Approved(rs) THEN "nothing"
  ELSE CASE CIState(results, head) = "failure" -> SendBack(rs)
         [] CIState(results, head) = "pending" -> "nothing"
         [] CIState(results, head) = "success" -> IF policy = "approval" THEN "ask" ELSE "merge"

(* Mutant of NewRun: the row is inserted without a status.                 *)
NewRunNoStatus(kind, commit) ==
  [kind |-> kind, status |-> "", verdict |-> "", branch |-> 0, from |-> 0,
   commit |-> IF kind = "merge" THEN commit ELSE 0, agent |-> "none", at |-> 0]

NewRun(kind, commit) ==
  [kind |-> kind, status |-> "pending", verdict |-> "", branch |-> 0, from |-> 0,
   commit |-> IF kind = "merge" THEN commit ELSE 0, agent |-> "none", at |-> 0]

(* The decision is carried out, on Runs rs and head commit c.  A Handoff   *)
(* puts the Task in progress; a question is asked unless one is open.      *)
Follow(todo, rs, c) ==
  /\ runs' = IF todo \in Kind THEN Append(rs, NewRun(todo, c)) ELSE rs
  /\ Len(runs') <= MaxRuns
  /\ task' = IF todo \in Kind \ {"merge"} THEN "in_progress" ELSE task
  /\ decisions' = IF todo = "ask" /\ Open = {}
                  THEN decisions \cup {[commit |-> c, answer |-> "open"]}
                  ELSE decisions
-----------------------------------------------------------------------------
(* People. *)

RoleKind == [scout |-> "plan", builder |-> "build", sentry |-> "review"]

(* CreateTask and CreateHandoff: the Task goes to a Bot, reopened if it was *)
(* closed, and the Bot starts a Run if asked to, or if autopilot is on.    *)
HandOff(role, autorun) ==
  /\ role \in Team
  /\ LET starts == (autorun \/ autoRun) /\ ~(role = "sentry" /\ branch = 0)
     IN runs' = IF starts THEN Append(runs, NewRun(RoleKind[role], head)) ELSE runs
  /\ Len(runs') <= MaxRuns
  /\ task' = "in_progress"
  /\ UNCHANGED <<taskRow, settings, decisions, ci, repository>>

(* CreateRun, whatever the Task's status. *)
CreateRun(role) ==
  /\ role \in Team
  /\ role = "sentry" => branch # 0
  /\ Len(runs) < MaxRuns
  /\ runs' = Append(runs, NewRun(RoleKind[role], head))
  /\ UNCHANGED <<task, taskRow, settings, decisions, ci, repository>>

UpdateTask(status) ==
  /\ task' = status
  /\ UNCHANGED <<taskRow, settings, runs, decisions, ci, repository>>

UpdateProject(auto, pol) ==
  /\ autoRun' = auto
  /\ policy' = pol
  /\ UNCHANGED <<task, taskRow, runs, decisions, ci, repository>>

(* Mutant of AnswerDecision: it does not ask whether a merge is under way. *)
AnswerThoughMerging(d, answer) ==
  /\ d \in Open
  /\ decisions' = (decisions \ {d}) \cup {[d EXCEPT !.answer = answer]}
  /\ LET merges == /\ answer = "merge"
                   /\ ~merged /\ branch # 0 /\ task \notin Closed
                   /\ d.commit \in {0, head}
     IN runs' = IF merges THEN Append(runs, NewRun("merge", head)) ELSE runs
  /\ Len(runs') <= MaxRuns
  /\ UNCHANGED <<task, taskRow, settings, ci, repository>>

(* AnswerDecision and onDecision. *)
AnswerDecision(d, answer) ==
  /\ d \in Open
  /\ decisions' = (decisions \ {d}) \cup {[d EXCEPT !.answer = answer]}
  /\ LET merges == /\ answer = "merge"
                   /\ ~merged /\ branch # 0 /\ task \notin Closed
                   /\ d.commit \in {0, head}
                   /\ ~Unfinished("merge", runs)
     IN runs' = IF merges THEN Append(runs, NewRun("merge", head)) ELSE runs
  /\ Len(runs') <= MaxRuns
  /\ UNCHANGED <<task, taskRow, settings, ci, repository>>

(* A person pushes to a branch a Builder opened. *)
PersonPushes(b) ==
  /\ tips[b] # 0
  /\ Len(parent) < MaxCommits
  /\ parent' = Append(parent, tips[b])
  /\ tips' = [tips EXCEPT ![b] = Len(parent')]
  /\ UNCHANGED <<task, taskRow, settings, runs, decisions, ci, landed>>
-----------------------------------------------------------------------------
(* CI. *)

(* Mutant of Pipeline: the result is judged without itself.                *)
PipelineJudgedEarly(c, k, result) ==
  /\ c <= Len(parent)
  /\ ci' = [ci EXCEPT ![c][k] = result]
  /\ IF branch = 0 \/ merged \/ task \in Closed \/ ~autoRun
     THEN UNCHANGED <<task, runs, decisions>>
     ELSE \/ result = "failure" /\ Follow(SendBack(runs), runs, head)
          \/ result = "success" /\ Follow(TryMerge(runs, ci), runs, head)
          \/ result = "pending" /\ UNCHANGED <<task, runs, decisions>>
  /\ UNCHANGED <<taskRow, settings, repository>>

(* RecordPipeline and UpdatePipeline, then onPipeline: a result for a      *)
(* commit that was pushed.                                                 *)
Pipeline(c, k, result) ==
  /\ c <= Len(parent)
  /\ ci' = [ci EXCEPT ![c][k] = result]
  /\ IF branch = 0 \/ merged \/ task \in Closed \/ ~autoRun
     THEN UNCHANGED <<task, runs, decisions>>
     ELSE \/ result = "failure" /\ Follow(SendBack(runs), runs, head)
          \/ result = "success" /\ Follow(TryMerge(runs, ci'), runs, head)
          \/ result = "pending" /\ UNCHANGED <<task, runs, decisions>>
  /\ UNCHANGED <<taskRow, settings, repository>>
-----------------------------------------------------------------------------
(* Agents. *)

(* branchesFor: a Builder carries on its own branch, the one its newest    *)
(* Run reported; Sentry reviews the newest build that succeeded; a merge   *)
(* is of the branch the Task records.                                      *)
Pushed == {i \in DOMAIN runs : runs[i].branch # 0}

BranchOfNewest(S) == IF S = {} THEN 0
                     ELSE runs[CHOOSE i \in S : Newest(i, S)].branch

BranchFor(kind) ==
  CASE kind = "plan"   -> 0
    [] kind = "build"  -> BranchOfNewest(Pushed)
    [] kind = "review" -> LET built == Pushed \cap Succeeded("build", runs)
                          IN IF built = {} THEN branch ELSE BranchOfNewest(built)
    [] kind = "merge"  -> branch

Server == <<task, taskRow, settings, decisions, ci>>

Claim(i) ==
  /\ runs[i].status = "pending"
  /\ runs' = [runs EXCEPT ![i].status = "running", ![i].agent = "claimed",
                         ![i].from = BranchFor(runs[i].kind)]
  /\ UNCHANGED <<Server, repository>>

(* Mutant of Prepare: a merge takes the branch wherever it is now.         *)
PrepareAnyTip(i) ==
  LET r == runs[i]
      tip == IF r.from = 0 THEN 0 ELSE tips[r.from]
  IN /\ r.agent = "claimed"
     /\ r.from # 0 => tip # 0
     /\ r.kind = "review" => r.from # 0
     /\ runs' = [runs EXCEPT ![i].agent = "prepared", ![i].at = tip]
     /\ UNCHANGED <<Server, repository>>

(* The agent fetches the repository and checks out the tip of the branch,  *)
(* or of the default branch.  It gives up (Fail) if the branch is gone, a  *)
(* review has none, or a merge finds it moved since it was approved.       *)
Prepare(i) ==
  LET r == runs[i]
      tip == IF r.from = 0 THEN 0 ELSE tips[r.from]
  IN /\ r.agent = "claimed"
     /\ r.from # 0 => tip # 0
     /\ r.kind = "review" => r.from # 0
     /\ r.kind = "merge" => tip = r.commit
     /\ runs' = [runs EXCEPT ![i].agent = "prepared", ![i].at = tip]
     /\ UNCHANGED <<Server, repository>>

(* deliver: a build that changed something is pushed to the branch it      *)
(* started from, or to a new one of its own, if nobody pushed there        *)
(* meanwhile (--force-with-lease).                                         *)
Target(i) == IF runs[i].from = 0 THEN i ELSE runs[i].from

(* Mutant of Push: without the lease.                                      *)
PushForced(i) ==
  /\ runs[i].kind = "build" /\ runs[i].agent = "prepared"
  /\ Len(parent) < MaxCommits
  /\ parent' = Append(parent, runs[i].at)
  /\ tips' = [tips EXCEPT ![Target(i)] = Len(parent')]
  /\ runs' = [runs EXCEPT ![i].agent = "done", ![i].at = Len(parent')]
  /\ UNCHANGED <<Server, landed>>

Push(i) ==
  /\ runs[i].kind = "build" /\ runs[i].agent = "prepared"
  /\ tips[Target(i)] = runs[i].at
  /\ Len(parent) < MaxCommits
  /\ parent' = Append(parent, runs[i].at)
  /\ tips' = [tips EXCEPT ![Target(i)] = Len(parent')]
  /\ runs' = [runs EXCEPT ![i].agent = "done", ![i].at = Len(parent')]
  /\ UNCHANGED <<Server, landed>>

(* merge: the result is pushed to the default branch, then the branch is   *)
(* deleted if it is still there and where it was; that may fail.           *)
Land(i, deletes) ==
  LET r == runs[i]
  IN /\ r.kind = "merge" /\ r.agent = "prepared"
     /\ landed' = landed \cup {r.at}
     /\ tips' = IF deletes /\ tips[r.from] = r.at THEN [tips EXCEPT ![r.from] = 0] ELSE tips
     /\ runs' = [runs EXCEPT ![i].agent = "done"]
     /\ UNCHANGED <<Server, parent>>
-----------------------------------------------------------------------------
(* Runs end: ReportRun, then advance. *)

Ended(i, status, verdict) ==
  [runs[i] EXCEPT
     !.status = status, !.verdict = verdict, !.agent = "none", !.from = 0, !.at = 0,
     !.commit = IF runs[i].kind = "merge" THEN @ ELSE runs[i].at,
     !.branch = IF runs[i].kind = "build" /\ runs[i].agent = "done" THEN Target(i) ELSE 0]

(* What follows Run r, which just succeeded, on a Task that records br. *)
Advance(r, rs, br) ==
  CASE r.kind = "plan" -> PassOn("scout", "builder", "build")
    [] r.kind = "build" -> IF br = 0 THEN "nothing" ELSE PassOn("builder", "sentry", "review")
    [] r.kind = "review" -> CASE r.verdict = "approve" -> TryMerge(rs, ci)
                              [] r.verdict = "changes" -> SendBack(rs)
                              [] r.verdict = ""        -> "nothing"

(* Mutant of Succeed: advance does not look at the Task's status.          *)
SucceedThoughClosed(i, verdict) ==
  LET r  == Ended(i, "succeeded", verdict)
      rs == [runs EXCEPT ![i] = r]
  IN /\ runs[i].status = "running"
     /\ \/ runs[i].agent = "prepared" /\ r.kind # "merge"
        \/ runs[i].agent = "done" /\ r.kind = "build"
     /\ r.kind # "review" => verdict = ""
     /\ branch' = IF r.branch # 0 THEN r.branch ELSE branch
     /\ head' = IF r.branch # 0 THEN r.commit ELSE head
     /\ IF ~autoRun
        THEN runs' = rs /\ UNCHANGED <<task, decisions>>
        ELSE Follow(Advance(r, rs, branch'), rs, head')
     /\ UNCHANGED <<merged, settings, ci, repository>>

(* A plan, a build (with or without something to push) or a review. *)
Succeed(i, verdict) ==
  LET r  == Ended(i, "succeeded", verdict)
      rs == [runs EXCEPT ![i] = r]
  IN /\ runs[i].status = "running"
     /\ \/ runs[i].agent = "prepared" /\ r.kind # "merge"
        \/ runs[i].agent = "done" /\ r.kind = "build"
     /\ r.kind # "review" => verdict = ""
     /\ branch' = IF r.branch # 0 THEN r.branch ELSE branch
     /\ head' = IF r.branch # 0 THEN r.commit ELSE head
     /\ IF ~autoRun \/ task \in Closed
        THEN runs' = rs /\ UNCHANGED <<task, decisions>>
        ELSE Follow(Advance(r, rs, branch'), rs, head')
     /\ UNCHANGED <<merged, settings, ci, repository>>

(* A merge, whatever has become of the Task. *)
Merged(i) ==
  /\ runs[i].status = "running"
  /\ runs[i].kind = "merge" /\ runs[i].agent = "done"
  /\ runs' = [runs EXCEPT ![i] = Ended(i, "succeeded", "")]
  /\ task' = "done" /\ merged' = TRUE
  /\ UNCHANGED <<branch, head, settings, decisions, ci, repository>>

(* The agent reports a failure, with what it had pushed by then.  Nothing  *)
(* follows a Run that failed or was canceled, and nothing here tells the   *)
(* two apart: both are "failed".                                           *)
Fail(i) ==
  /\ runs[i].status = "running" /\ runs[i].agent # "none"
  /\ runs' = [runs EXCEPT ![i] = Ended(i, "failed", "")]
  /\ UNCHANGED <<Server, repository>>

(* The reaper fails a Run, or a person cancels it.  Its agent does not     *)
(* know yet, and may still push.                                           *)
MayPush(r) == r.kind \in {"build", "merge"} /\ r.agent \in {"claimed", "prepared"}

Stop(i) ==
  /\ runs[i].status \in Live
  /\ runs' = [runs EXCEPT ![i] = IF MayPush(@) THEN [@ EXCEPT !.status = "failed"]
                                 ELSE [@ EXCEPT !.status = "failed", !.agent = "none",
                                                !.from = 0, !.at = 0]]
  /\ UNCHANGED <<Server, repository>>
-----------------------------------------------------------------------------
People ==
  \/ \E role \in Team : CreateRun(role) \/ \E autorun \in BOOLEAN : HandOff(role, autorun)
  \/ \E status \in Statuses : UpdateTask(status)
  \/ \E auto \in AutoRuns, pol \in Policies : UpdateProject(auto, pol)
  \/ \E d \in Open, answer \in {"merge", "stop"} : AnswerDecision(d, answer)
  \/ \E b \in Names : PersonPushes(b)

Results ==
  \E c \in Commits, k \in Checks, result \in {"pending", "success", "failure"} : Pipeline(c, k, result)

Work(i) ==
  \/ Claim(i) \/ Prepare(i) \/ Push(i)
  \/ \E deletes \in BOOLEAN : Land(i, deletes)
  \/ \E verdict \in Verdict : Succeed(i, verdict)
  \/ Merged(i) \/ Fail(i) \/ Stop(i)

Next == People \/ Results \/ \E i \in DOMAIN runs : Work(i)

Spec == Init /\ [][Next]_vars
-----------------------------------------------------------------------------
(* What landed in the default branch was approved by a review that looked  *)
(* at that very commit, or a person agreed to merge that commit, though    *)
(* branches and the Task's head move while reviews, questions and merges   *)
(* are under way.                                                          *)
Agreed(c) ==
  \/ \E i \in Succeeded("review", runs) : runs[i].verdict = "approve" /\ runs[i].commit = c
  \/ [commit |-> c, answer |-> "merge"] \in decisions

LandedWorkWasAgreed == \A c \in landed : Agreed(c)

(* At most one merge of a Task is queued, under way or done, whether       *)
(* reviews, CI results or answers ask for it.                              *)
TaskMergesOnce ==
  \A i, j \in DOMAIN runs :
    /\ runs[i].kind = "merge" /\ runs[i].status \in Live \cup {"succeeded"}
    /\ runs[j].kind = "merge" /\ runs[j].status \in Live \cup {"succeeded"}
    => i = j

(* A push never drops commits another Builder or a person pushed: a branch *)
(* only ever moves to a commit built on its tip, or is deleted once its    *)
(* tip has landed.                                                         *)
WorkIsNotOverwritten ==
  [][\A b \in Names :
       tips'[b] # tips[b] => IF tips'[b] = 0 THEN tips[b] \in landed'
                                             ELSE parent'[tips'[b]] = tips[b]]_vars

(* When the last thing an open Task's merge waited for arrives, be it the  *)
(* approval or a check's result, the merge is queued or a question is open *)
(* (it may be about an older commit: askToMerge opens no second one).      *)
Ready ==
  /\ autoRun /\ task \notin Closed /\ ~merged /\ branch # 0
  /\ Approved(runs) /\ CIState(ci, head) = "success"

ReadyWorkIsTakenUp ==
  [][~Ready /\ Ready' /\ UNCHANGED <<task, head, settings>>
     => Unfinished("merge", runs') \/ Open' # {}]_vars

(* Once a Task is done or canceled only people start something on it.      *)
ClosedTasksRest ==
  [][/\ task \in Closed
     /\ Len(runs') > Len(runs) \/ ~(Open' \subseteq Open)
     => \E role \in Team, autorun \in BOOLEAN : CreateRun(role) \/ HandOff(role, autorun)]_vars

(* core/autopilot_test.go: "a result for another commit does not" count.   *)
(* A failure of a commit the Task has left behind sends nothing back.      *)
OldFailuresSendNothingBack ==
  [][\A c \in Commits, k \in Checks :
       Pipeline(c, k, "failure") /\ c < head => runs' = runs]_vars

(* core/autopilot_test.go: TestACanceledTaskIsNotMerged.  Nothing lands    *)
(* while the Task is canceled.                                             *)
CanceledTasksAreNotMerged == [][task = "canceled" => landed' = landed]_vars

(* A Builder carries on its own branch, if it has one: a build that is     *)
(* claimed is told of a branch that exists.                                *)
BuildersHaveTheirBranch ==
  [][\A i \in DOMAIN runs :
       runs[i].kind = "build" /\ Claim(i) => LET b == runs'[i].from
                                             IN b # 0 => tips[b] # 0]_vars
=============================================================================
