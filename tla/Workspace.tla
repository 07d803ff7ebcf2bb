------------------------------ MODULE Workspace ------------------------------
(***************************************************************************)
(* What an agent process does to the Project's repository: a mirror it     *)
(* fetches into, a checkout for each Run, and pushes to a remote that      *)
(* people and other agents push to as well.  The process may die at any    *)
(* moment, and a push, or a merge by gh, may succeed though the worker is  *)
(* told it failed.                                                         *)
(***************************************************************************)
EXTENDS Naturals, FiniteSets

CONSTANTS
  Builds,      \* Runs that build; each has a branch of its own name
  Merges,      \* Runs that merge
  MaxCommits   \* bound on the commits ever made

ASSUME WorkspaceAssumption ==
  /\ Builds \cap Merges = {} /\ "main" \notin Builds
  /\ MaxCommits \in Nat \ {0}

Checkouts == Builds \cup Merges
Branches == Builds \cup {"main"}
Commits == 1..MaxCommits
Gone == 0                  \* no commit: the branch does not exist

VARIABLES
  made,      \* commits made so far
  history,   \* what each commit contains
  remote,    \* the repository's branches
  fetched,   \* the mirror's refs/remotes/origin
  kept,      \* the mirror's branch of each Run, refs/heads/buildbee-run
  at,        \* where each Run is
  start,     \* the branch a Run started from ...
  base,      \* ... and that branch's tip then
  approved,  \* the branch and commit a merge was asked for
  reported,  \* what a Run reported: a branch and commit, and whether it succeeded
  discarded  \* commits that were on no other branch than one that gh deleted
               \* (no action reads it)

repoVars == <<made, history, remote, discarded>>
workspaceVars == <<repoVars, fetched, kept, at, start, base, approved, reported>>

Stages == {"queued", "prepared", "committed", "pushed", "unpushed", "landed", "squashed", "closed", "crashed"}
NoReport == [ok |-> FALSE, branch |-> "main", commit |-> Gone]

WorkspaceInit ==
  /\ made = 1 /\ history = [c \in Commits |-> IF c = 1 THEN {1} ELSE {}]
  /\ remote = [b \in Branches |-> IF b = "main" THEN 1 ELSE Gone]
  /\ fetched = [b \in Branches |-> Gone]
  /\ kept = [r \in Checkouts |-> Gone]
  /\ at = [r \in Checkouts |-> "queued"]
  /\ start = [r \in Checkouts |-> "main"] /\ base = [r \in Checkouts |-> Gone]
  /\ approved = [m \in Merges |-> NoReport]
  /\ reported = [r \in Checkouts |-> NoReport]
  /\ discarded = {}
-----------------------------------------------------------------------------
(* A commit on top of others: one on what it contains. *)
NewCommit(contained) ==
  /\ made < MaxCommits
  /\ made' = made + 1
  /\ history' = [history EXCEPT ![made + 1] = contained \cup {made + 1}]

Reaches(c, d) == d \in history[c]
OnRemote(b, c) == remote[b] # Gone /\ Reaches(remote[b], c)

(* The Run ends: its checkout is removed, and its branch in the mirror     *)
(* unless the work could not be pushed.                                    *)
Close(r, keep, report) ==
  /\ at' = [at EXCEPT ![r] = "closed"]
  /\ kept' = IF keep THEN kept ELSE [kept EXCEPT ![r] = Gone]
  /\ reported' = [reported EXCEPT ![r] = report]
  /\ start' = [start EXCEPT ![r] = "main"]
  /\ base' = [base EXCEPT ![r] = Gone]

Fails(r) == Close(r, FALSE, NoReport)

(* prepare: the mirror is cloned or fetched and the checkout added, under  *)
(* the mirror's lock; it fails if the branch to start from is gone.        *)
Prepare(r, from) ==
  /\ at[r] = "queued"
  /\ fetched' = remote
  /\ IF remote[from] = Gone
     THEN Fails(r)
     ELSE /\ start' = [start EXCEPT ![r] = from]
          /\ base' = [base EXCEPT ![r] = remote[from]]
          /\ at' = [at EXCEPT ![r] = "prepared"]
          /\ kept' = [kept EXCEPT ![r] = remote[from]]
          /\ UNCHANGED reported

(* A build starts from the default branch, or carries on a branch that an *)
(* earlier build reported.                                                 *)
PrepareBuild(r, from) ==
  /\ from = "main" \/ \E q \in Builds : reported[q].ok /\ reported[q].branch = from
  /\ Prepare(r, from)
  /\ UNCHANGED <<repoVars, approved>>

(* A merge is of a commit that a build reported for its branch. *)
PrepareMerge(m) ==
  /\ \E q \in Builds : /\ reported[q].ok /\ reported[q].commit # Gone
                       /\ approved' = [approved EXCEPT ![m] = reported[q]]
  /\ Prepare(m, "main")
  /\ UNCHANGED repoVars

(* The agent is done: its files become one commit, if they changed. *)
CommitWork(r) ==
  /\ at[r] = "prepared"
  /\ NewCommit(history[base[r]])
  /\ kept' = [kept EXCEPT ![r] = made']
  /\ at' = [at EXCEPT ![r] = "committed"]
  /\ UNCHANGED <<remote, discarded, fetched, start, base, approved, reported>>

NothingToDeliver(r) ==
  /\ at[r] = "prepared"
  /\ \/ Fails(r)                                     \* the agent failed
     \/ Close(r, FALSE, [NoReport EXCEPT !.ok = TRUE])      \* it changed nothing
  /\ UNCHANGED <<repoVars, fetched, approved>>

(* The files people attached cannot be fetched: the Run fails before its   *)
(* checkout is sure to be removed.                                         *)
FilesFail(r) ==
  /\ at[r] = "prepared"
  /\ Close(r, TRUE, NoReport)
  /\ UNCHANGED <<repoVars, fetched, approved>>

(* Where the work goes, and the tip the lease expects there. *)
Target(r) == IF start[r] = "main" THEN r ELSE start[r]
Lease(r) == IF start[r] = "main" THEN Gone ELSE base[r]

SetRemote(b, c) == remote' = [remote EXCEPT ![b] = c]

(* push.  An answer that is lost looks like a push that failed. *)
Push(r) ==
  /\ at[r] = "committed"
  /\ \/ /\ remote[Target(r)] = Lease(r)
        /\ SetRemote(Target(r), kept[r])
        /\ at' \in {[at EXCEPT ![r] = s] : s \in {"pushed", "unpushed"}}
     \/ UNCHANGED remote /\ at' = [at EXCEPT ![r] = "unpushed"]
  /\ UNCHANGED <<made, history, discarded, fetched, kept, start, base, approved, reported>>

Delivers(r, ok) == [ok |-> ok, branch |-> Target(r), commit |-> kept[r]]

(* Mutant of StaysHere: close removes the branch in the mirror as well.    *)
StaysNowhere(r) == Close(r, FALSE, Delivers(r, FALSE))

(* The report says that the work stays on this worker. *)
StaysHere(r) == Close(r, TRUE, Delivers(r, FALSE))

(* deliver, after the push, and the report of what became of it. *)
Deliver(r) ==
  /\ \/ at[r] = "pushed" /\ Close(r, FALSE, Delivers(r, TRUE))
     \/ at[r] = "unpushed" /\ StaysHere(r)
  /\ UNCHANGED <<repoVars, fetched, approved>>

(* Mutant of WhereApproved: whatever is on the branch is merged.           *)
IsThere(m) == fetched[approved[m].branch] # Gone

WhereApproved(m) == fetched[approved[m].branch] = approved[m].commit

(* merge: the branch is where it was approved, as the last fetch of the    *)
(* mirror saw it, and merges cleanly into the checkout.                    *)
MergeBranch(m) ==
  /\ at[m] = "prepared"
  /\ LET tip == fetched[approved[m].branch] IN
     \/ /\ WhereApproved(m)
        /\ at' = [at EXCEPT ![m] = "committed"]
        /\ IF Reaches(base[m], tip)
           THEN UNCHANGED <<made, history, kept>>
           ELSE /\ NewCommit(history[base[m]] \cup history[tip])
                /\ kept' = [kept EXCEPT ![m] = made']
        /\ UNCHANGED <<start, base, reported>>
     \/ Fails(m) /\ UNCHANGED <<made, history>>
  /\ UNCHANGED <<remote, discarded, fetched, approved>>

MergeAt(m, s) == at' = [at EXCEPT ![m] = s] /\ UNCHANGED <<kept, start, base, reported>>

(* The default branch is pushed without force (an answer may be lost) ...  *)
PushMain(m) ==
  /\ at[m] = "committed"
  /\ \/ /\ Reaches(kept[m], remote["main"])
        /\ SetRemote("main", kept[m])
        /\ MergeAt(m, "landed") \/ Fails(m)
     \/ Fails(m) /\ UNCHANGED remote
  /\ UNCHANGED <<made, history, discarded, fetched, approved>>

(* ... and the branch is deleted, if it is still where it was approved. *)
DeleteBranch(m) ==
  /\ at[m] = "landed"
  /\ \/ /\ remote[approved[m].branch] = approved[m].commit
        /\ SetRemote(approved[m].branch, Gone)
     \/ UNCHANGED remote
  /\ Close(m, FALSE, approved[m])
  /\ UNCHANGED <<made, history, discarded, fetched, approved>>

(* mergePR: gh asks GitHub to squash the branch onto the default branch,   *)
(* if it is where it was approved.  It says that it failed also when only  *)
(* the answer is lost.                                                     *)
MergePR(m) ==
  /\ at[m] = "queued"
  /\ \E q \in Builds :
       /\ reported[q].ok /\ reported[q].commit # Gone
       /\ approved' = [approved EXCEPT ![m] = reported[q]]
       /\ \/ LET b == reported[q].branch IN
             /\ remote[b] = reported[q].commit
             /\ NewCommit(history[remote["main"]] \cup history[remote[b]])
             /\ SetRemote("main", made')
             /\ MergeAt(m, "squashed") \/ Fails(m)
          \/ Fails(m) /\ UNCHANGED <<made, history, remote>>
  /\ UNCHANGED <<fetched, discarded>>

(* Then gh deletes the branch, wherever it is by now; without an answer,   *)
(* the branch deleted or not, it says that it failed.                      *)
DeletePRBranch(m) ==
  /\ at[m] = "squashed"
  /\ LET b == approved[m].branch IN
     \/ /\ SetRemote(b, Gone)
        /\ discarded' = discarded \cup {c \in Commits : OnRemote(b, c) /\ ~OnRemote("main", c)}
        /\ Close(m, FALSE, approved[m]) \/ Fails(m)
     \/ UNCHANGED <<remote, discarded>> /\ Fails(m)
  /\ UNCHANGED <<made, history, fetched, approved>>

(* The process dies: its Runs' branches stay in the mirror, and the Server *)
(* fails the Runs when their leases are over.                              *)
Crash ==
  /\ \E r \in Checkouts : at[r] \notin {"queued", "closed", "crashed"}
  /\ at' = [r \in Checkouts |-> IF at[r] \in {"queued", "closed"} THEN at[r] ELSE "crashed"]
  /\ start' = [r \in Checkouts |-> "main"] /\ base' = [r \in Checkouts |-> Gone]
  /\ UNCHANGED <<repoVars, fetched, kept, approved, reported>>

(* Someone else pushes to a branch. *)
SomeonePushes(b) ==
  /\ remote[b] # Gone
  /\ NewCommit(history[remote[b]])
  /\ SetRemote(b, made')
  /\ UNCHANGED <<discarded, fetched, kept, at, start, base, approved, reported>>

WorkspaceNext ==
  \/ \E r \in Builds : \/ \E from \in Branches : PrepareBuild(r, from)
                       \/ CommitWork(r) \/ NothingToDeliver(r) \/ FilesFail(r) \/ Push(r) \/ Deliver(r)
  \/ \E m \in Merges : \/ PrepareMerge(m) \/ MergeBranch(m) \/ PushMain(m) \/ DeleteBranch(m)
                       \/ MergePR(m) \/ DeletePRBranch(m)
  \/ Crash
  \/ \E b \in Branches : SomeonePushes(b)

WorkspaceSpec == WorkspaceInit /\ [][WorkspaceNext]_workspaceVars
-----------------------------------------------------------------------------
WorkspaceTypeOK ==
  /\ made \in Commits /\ history \in [Commits -> SUBSET Commits]
  /\ remote \in [Branches -> 0..made] /\ fetched \in [Branches -> 0..made]
  /\ kept \in [Checkouts -> 0..made]
  /\ at \in [Checkouts -> Stages] /\ start \in [Checkouts -> Branches]
  /\ base \in [Checkouts -> 0..made]
  /\ \A r \in Checkouts : reported[r].branch \in Branches /\ reported[r].commit \in 0..made
  /\ discarded \subseteq Commits

(* What was reported stays true, whatever later Runs fetch, push and       *)
(* remove, and whichever answers are lost.  A build's work reported as     *)
(* pushed stays on its branch or has landed, unless it came there between  *)
(* the merge by gh and its deletion of the branch; reported as staying on  *)
(* the worker it is in the mirror; a merge that reports success has put    *)
(* the approved commit on the default branch (agent.go deliver, merge;     *)
(* workspace.go push, close, mergePR).                                     *)
ReportsStayTrue ==
  /\ \A r \in Builds : reported[r].commit # Gone =>
       LET c == reported[r].commit IN
       IF reported[r].ok
       THEN OnRemote(reported[r].branch, c) \/ OnRemote("main", c) \/ c \in discarded
       ELSE kept[r] = c
  /\ \A m \in Merges : reported[m].ok => OnRemote("main", approved[m].commit)

(* A merge, whatever it is told became of it, puts on the default branch   *)
(* what was approved and nothing else that was not there, whoever pushed   *)
(* to the Task's branch meanwhile (workspace.go merge, mergePR).           *)
OnlyApprovedLands ==
  [][\A m \in Merges : at'[m] # at[m] /\ remote'["main"] # remote["main"] =>
       LET tip == remote'["main"] IN
       history'[tip] \ (history[remote["main"]] \cup history[approved'[m].commit]) \subseteq {tip}]_workspaceVars
=============================================================================
