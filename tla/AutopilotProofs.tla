--------------------------- MODULE AutopilotProofs ---------------------------
(***************************************************************************)
(* Theorems about Autopilot, for any team, checks, settings and bounds.    *)
(***************************************************************************)
EXTENDS Autopilot, SequenceTheorems, WellFoundedInduction, TLAPS

(* A set of positions of a sequence has a newest one, if it has any. *)
LEMMA NewestExists ==
  ASSUME NEW n \in Nat, NEW S \in SUBSET (1..n), S # {}
  PROVE  \E i \in S : Newest(i, S)
<1> DEFINE Left == {n - i : i \in S}
<1>1. Left \subseteq Nat /\ Left # {}
  <2>1. \A i \in S : n - i \in Nat
    OBVIOUS
  <2> QED BY <2>1
<1>2. PICK x \in Left : \A y \in Left : <<y, x>> \notin OpToRel(<, Nat)
  <2> HIDE DEF Left
  <2> QED BY <1>1, NatLessThanWellFounded, WFMin
<1>3. \A y \in Left : x <= y
  <2> HIDE DEF Left
  <2>1. \A y \in Left : ~ (y < x)
    BY <1>1, <1>2, Zenon DEF OpToRel
  <2> QED BY <1>1, <2>1
<1>4. PICK i \in S : x = n - i
  OBVIOUS
<1>5. \A j \in S : j <= i
  BY <1>3, <1>4
<1> QED BY <1>5 DEF Newest

(* Every step is one of these.  Proofs by cases on a step use this list. *)
LEMMA StepCases ==
  ASSUME [Next]_vars
  PROVE  \/ \E role \in Team : CreateRun(role)
         \/ \E role \in Team, autorun \in BOOLEAN : HandOff(role, autorun)
         \/ \E status \in Statuses : UpdateTask(status)
         \/ \E auto \in AutoRuns, pol \in Policies : UpdateProject(auto, pol)
         \/ \E d \in Open, answer \in {"merge", "stop"} : AnswerDecision(d, answer)
         \/ \E b \in Names : PersonPushes(b)
         \/ \E c \in Commits, k \in Checks, result \in {"pending", "success", "failure"} :
              Pipeline(c, k, result)
         \/ \E i \in DOMAIN runs :
              \/ Claim(i) \/ Prepare(i) \/ Push(i) \/ Merged(i) \/ Fail(i) \/ Stop(i)
              \/ \E deletes \in BOOLEAN : Land(i, deletes)
              \/ \E verdict \in Verdict : Succeed(i, verdict)
         \/ UNCHANGED vars
BY DEF Next, People, Results, Work
-----------------------------------------------------------------------------
(* Types are not inductive alone: a merge adds the commit in its checkout  *)
(* to those that landed, so it must have one.  The Task records a branch   *)
(* and a commit or neither; reviews are of a branch; questions and merges  *)
(* are about a commit; and a merge's checkout holds the commit it is of.   *)
RunSound(r, br) ==
  /\ r.kind = "review" => br # 0
  /\ r.kind = "merge" => r.commit # 0
  /\ r.agent = "done" => r.at # 0
  /\ r.kind = "merge" /\ r.agent \in {"prepared", "done"} => r.at = r.commit

Sound ==
  /\ branch # 0 <=> head # 0
  /\ \A d \in decisions : d.commit # 0
  /\ \A i \in DOMAIN runs : RunSound(runs[i], branch)

Typed == TypeOK /\ Sound

(* What a handler decides is one of these; a merge or a question is about  *)
(* a Task with a branch.                                                   *)
LEMMA Decided ==
  ASSUME Typed, NEW rs
  PROVE  /\ SendBack(rs) \in {"nothing", "build", "ask"}
         /\ TryMerge(rs, ci) \in {"nothing", "build", "ask", "merge"}
         /\ TryMerge(rs, ci') \in {"nothing", "build", "ask", "merge"}
         /\ TryMerge(rs, ci) # "nothing" => branch # 0 
         /\ TryMerge(rs, ci') # "nothing" => branch # 0
<1>1. SendBack(rs) \in {"nothing", "build", "ask"}
  BY DEF SendBack, PassOn
<1>2. ASSUME NEW results
      PROVE  CIState(results, head) \in {"success", "pending", "failure"}
  BY DEF CIState
<1>3. ASSUME NEW results
      PROVE  /\ TryMerge(rs, results) \in {"nothing", "build", "ask", "merge"}
             /\ TryMerge(rs, results) # "nothing" => branch # 0
  BY <1>1, <1>2 DEF TryMerge
<1> QED BY <1>1, <1>3

(* A queued Run is a record of the model. *)
LEMMA NewRunIsARun ==
  ASSUME NEW kind \in Kind, NEW c \in 0..MaxCommits
  PROVE  NewRun(kind, c) \in Run
BY Bounds DEF NewRun, Run, Kind, Verdict, Agent, Live

(* What carrying a decision out does. *)
LEMMA Followed ==
  ASSUME NEW rs \in Seq(Run), NEW c \in 0..MaxCommits, NEW todo, Follow(todo, rs, c),
         decisions \subseteq Decision, task \in {"open", "in_progress"} \cup Closed
  PROVE  /\ runs' \in Seq(Run) /\ Len(runs') <= MaxRuns
         /\ task' \in {"open", "in_progress"} \cup Closed
         /\ decisions' \subseteq Decision
         /\ DOMAIN rs \subseteq DOMAIN runs'
         /\ DOMAIN runs' \subseteq DOMAIN rs \cup {Len(rs) + 1}
         /\ \A i \in DOMAIN rs : runs'[i] = rs[i]
         /\ \A i \in DOMAIN runs' \ DOMAIN rs : todo \in Kind /\ runs'[i] = NewRun(todo, c)
         /\ \A d \in decisions' \ decisions : todo = "ask" /\ d = [commit |-> c, answer |-> "open"]
<1>1. CASE todo \in Kind
  <2>1. NewRun(todo, c) \in Run
    BY <1>1, NewRunIsARun
  <2>2. runs' = Append(rs, NewRun(todo, c)) /\ decisions' = decisions
    BY <1>1 DEF Follow, Kind
  <2>3. task' \in {"open", "in_progress"} \cup Closed
    BY DEF Follow
  <2> QED BY <1>1, <2>1, <2>2, <2>3, AppendProperties DEF Follow
<1>2. CASE todo \notin Kind
  BY <1>2 DEF Follow, Decision
<1> QED BY <1>1, <1>2

(* A Run that is changed is another Run, and no other is. *)
LEMMA Replaced ==
  ASSUME runs \in Seq(Run), NEW i \in DOMAIN runs, NEW e \in Run
  PROVE  /\ [runs EXCEPT ![i] = e] \in Seq(Run)
         /\ Len([runs EXCEPT ![i] = e]) = Len(runs)
         /\ DOMAIN [runs EXCEPT ![i] = e] = DOMAIN runs
         /\ [runs EXCEPT ![i] = e][i] = e
         /\ \A j \in DOMAIN runs \ {i} : [runs EXCEPT ![i] = e][j] = runs[j]
BY ExceptSeq, LenProperties

(* A Run that is queued is added to the others. *)
LEMMA Appended ==
  ASSUME runs \in Seq(Run), NEW e \in Run
  PROVE  /\ Append(runs, e) \in Seq(Run)
         /\ Len(Append(runs, e)) = Len(runs) + 1
         /\ DOMAIN Append(runs, e) = DOMAIN runs \cup {Len(runs) + 1}
         /\ Append(runs, e)[Len(runs) + 1] = e
         /\ \A j \in DOMAIN runs : Append(runs, e)[j] = runs[j]
BY AppendProperties, LenProperties

(* A Bot's own Run is a plan, a build or Sentry's review. *)
LEMMA RoleStarts ==
  ASSUME NEW role \in Team, NEW c \in 0..MaxCommits
  PROVE  LET e == NewRun(RoleKind[role], c)
         IN e \in Run /\ (e.kind = "review" => role = "sentry") /\ e.kind # "merge" /\ e.agent = "none"
<1>1. /\ RoleKind[role] \in {"plan", "build", "review"}
      /\ RoleKind[role] = "review" => role = "sentry"
  BY TeamOfRoles DEF RoleKind
<1>2. NewRun(RoleKind[role], c) \in Run
  BY <1>1, NewRunIsARun DEF Kind
<1> QED BY <1>1, <1>2 DEF NewRun

(* The branch an agent is told of is none, or the one a Run reported. *)
LEMMA BranchForTyped ==
  ASSUME TypeOK, NEW kind \in Kind
  PROVE  BranchFor(kind) \in 0..MaxRuns
<1>1. ASSUME NEW S \in SUBSET DOMAIN runs PROVE BranchOfNewest(S) \in 0..MaxRuns
  <2>1. CASE S = {}
    BY <2>1, Bounds DEF BranchOfNewest
  <2>2. CASE S # {}
    <3>1. \E i \in S : Newest(i, S)
      BY <2>2, NewestExists, LenProperties DEF TypeOK
    <3>2. (CHOOSE i \in S : Newest(i, S)) \in DOMAIN runs
      BY <3>1
    <3>3. runs[CHOOSE i \in S : Newest(i, S)] \in Run
      BY <3>2 DEF TypeOK
    <3> QED BY <2>2, <3>3 DEF BranchOfNewest, Run
  <2> QED BY <2>1, <2>2
<1>2. Pushed \subseteq DOMAIN runs /\ branch \in 0..MaxRuns
  BY DEF Pushed, TypeOK
<1> QED BY <1>1, <1>2, Bounds DEF BranchFor, Kind

(* A Run of the Task, and its place. *)
LEMMA ARun ==
  ASSUME Typed, NEW i \in DOMAIN runs
  PROVE  runs[i] \in Run /\ RunSound(runs[i], branch) /\ i \in 1..MaxRuns
<1>1. runs[i] \in Run
  BY DEF Typed, TypeOK
<1>2. RunSound(runs[i], branch)
  BY DEF Typed, Sound
<1>3. i \in 1..MaxRuns
  BY LenProperties, Bounds DEF Typed, TypeOK
<1> QED BY <1>1, <1>2, <1>3

(* A step that changes one Run and not what the Task records, nor what was *)
(* asked, keeps everything typed if the Run and the repository are.        *)
LEMMA OneRunChanged ==
  ASSUME Typed, NEW i \in DOMAIN runs, NEW e \in Run, RunSound(e, branch),
         runs' = [runs EXCEPT ![i] = e], UNCHANGED <<branch, head, settings, decisions, ci>>,
         task' \in {task, "done"}, merged' \in BOOLEAN, 
         tips' \in [Names -> 0..MaxCommits],
         parent' \in Seq(0..MaxCommits), Len(parent') <= MaxCommits, landed' \subseteq Commits
  PROVE  Typed'
<1>1. runs \in Seq(Run)
  BY DEF Typed, TypeOK
<1>2. /\ runs' \in Seq(Run) /\ Len(runs') = Len(runs) /\ DOMAIN runs' = DOMAIN runs
      /\ runs'[i] = e /\ \A j \in DOMAIN runs \ {i} : runs'[j] = runs[j]
  BY <1>1, Replaced
<1>3. UNCHANGED <<branch, head, autoRun, policy, decisions, ci>>
  BY DEF settings
<1>4. TypeOK'
  BY <1>2, <1>3 DEF Typed, TypeOK, Closed
<1>5. Sound'
  BY <1>2, <1>3 DEF Typed, Sound
<1> QED BY <1>4, <1>5 DEF Typed

(* Ending a Run within its fields' types leaves a Run. *)
LEMMA FieldsSet ==
  ASSUME NEW r \in Run, NEW s \in Live \cup {"succeeded", "failed"}, NEW v \in Verdict,
         NEW a \in Agent, NEW f \in 0..MaxRuns, NEW t \in 0..MaxCommits,
         NEW b \in 0..MaxRuns, NEW c \in 0..MaxCommits
  PROVE  [r EXCEPT !.status = s, !.verdict = v, !.agent = a, !.from = f, !.at = t,
                   !.commit = c, !.branch = b] \in Run
BY DEF Run

(* What becomes of a Run that ends. *)
LEMMA EndedTyped ==
  ASSUME Typed, NEW i \in DOMAIN runs, NEW status \in {"succeeded", "failed"}, NEW verdict \in Verdict,
         NEW br, runs[i].kind = "review" => br # 0
  PROVE  Ended(i, status, verdict) \in Run /\ RunSound(Ended(i, status, verdict), br)
<1> DEFINE c == IF runs[i].kind = "merge" THEN runs[i].commit ELSE runs[i].at
           b == IF runs[i].kind = "build" /\ runs[i].agent = "done" THEN Target(i) ELSE 0
           r == [runs[i] EXCEPT !.status = status, !.verdict = verdict, !.agent = "none", !.from = 0,
                                !.at = 0, !.commit = c, !.branch = b]
<1>1. runs[i] \in Run /\ RunSound(runs[i], branch) /\ i \in 1..MaxRuns
  BY ARun
<1>2. c \in 0..MaxCommits /\ b \in 0..MaxRuns
  BY <1>1, Bounds DEF Target, Run
<1>3. runs[i].kind = "merge" => c # 0
  BY <1>1 DEF RunSound
<1>4. Ended(i, status, verdict) = r
  BY <1>1 DEF Ended, Run
<1> HIDE DEF c, b
<1>5. r \in Run
  <2>1. 0 \in 0..MaxRuns /\ 0 \in 0..MaxCommits /\ "none" \in Agent
    BY Bounds DEF Agent
  <2> QED BY <1>1, <1>2, <2>1, FieldsSet
<1>6. r.kind = runs[i].kind /\ r.agent = "none" /\ r.commit = c
  BY <1>1 DEF Run
<1>7. RunSound(r, br)
  BY <1>3, <1>6 DEF RunSound
<1> QED BY <1>4, <1>5, <1>7

(* What the end of a Run changes of its record. *)
LEMMA EndedFields ==
  ASSUME Typed, NEW i \in DOMAIN runs, NEW status, NEW verdict
  PROVE  /\ Ended(i, status, verdict).kind = runs[i].kind
         /\ Ended(i, status, verdict).verdict = verdict
         /\ Ended(i, status, verdict).status = status
         /\ runs[i].kind = "merge" => Ended(i, status, verdict).commit = runs[i].commit
         /\ Ended(i, status, verdict).branch # 0 =>
              runs[i].kind = "build" /\ Ended(i, status, verdict).commit # 0
<1>1. runs[i] \in Run /\ RunSound(runs[i], branch)
  BY ARun
<1> QED BY <1>1 DEF Ended, Run, RunSound

(* What follows a Run that succeeds: a review is started of a branch, and  *)
(* only a review merges or asks, of a Task that has a branch by then.      *)
LEMMA Advanced ==
  ASSUME Typed, NEW r \in Run, NEW rs, NEW br, r.kind # "merge", r.kind = "review" => branch # 0
  PROVE  /\ Advance(r, rs, br) \in {"nothing", "build", "review", "merge", "ask"}
         /\ Advance(r, rs, br) = "review" => br # 0
         /\ Advance(r, rs, br) \in {"merge", "ask"} => r.kind = "review"
<1>1. /\ SendBack(rs) \in {"nothing", "build", "ask"}
      /\ TryMerge(rs, ci) \in {"nothing", "build", "ask", "merge"}
  BY Decided
<1>2. CASE r.kind = "plan"
  BY <1>2 DEF Advance, PassOn
<1>3. CASE r.kind = "build"
  BY <1>3 DEF Advance, PassOn
<1>4. CASE r.kind = "review"
  BY <1>1, <1>4 DEF Advance, Run, Verdict
<1> QED BY <1>2, <1>3, <1>4 DEF Run, Kind

(* The types hold throughout. *)
LEMMA TypedAlways == Spec => []Typed
<1>1. Init => Typed
  <2> SUFFICES ASSUME Init PROVE Typed
    OBVIOUS
  <2>1. /\ runs \in Seq(Run) /\ Len(runs) = 0 /\ DOMAIN runs = {}
        /\ parent \in Seq(0..MaxCommits) /\ Len(parent) = 0
    BY EmptySeq DEF Init
  <2>2. ci \in [Commits -> [Checks -> {"none", "pending", "success", "failure"}]]
    BY DEF Init, NoResults
  <2>3. tips \in [Names -> 0..MaxCommits]
    BY Bounds DEF Init
  <2>4. TypeOK
    <3>1. landed \subseteq Commits /\ decisions \subseteq Decision
      BY DEF Init
    <3>2. /\ task \in {"open", "in_progress"} \cup Closed
          /\ merged \in BOOLEAN /\ autoRun \in AutoRuns /\ policy \in Policies
      BY Zenon DEF Init
    <3>4. branch \in 0..MaxRuns /\ head \in 0..MaxCommits
      BY Bounds DEF Init
    <3>3. Len(runs) <= MaxRuns /\ Len(parent) <= MaxCommits
      BY <2>1, Bounds
    <3> QED BY <2>1, <2>2, <2>3, <3>1, <3>2, <3>3, <3>4, Zenon DEF TypeOK, Init
  <2>5. Sound
    BY <2>1 DEF Init, Sound
  <2> QED BY <2>4, <2>5 DEF Typed
<1>2. Typed /\ [Next]_vars => Typed'
  <2> SUFFICES ASSUME Typed, [Next]_vars PROVE Typed'
    OBVIOUS
  <2> USE DEF Typed
  <2>1. ASSUME NEW role \in Team, CreateRun(role) PROVE Typed'
    <3> DEFINE e == NewRun(RoleKind[role], head)
    <3>1. e \in Run /\ (e.kind = "review" => role = "sentry") /\ e.kind # "merge" /\ e.agent = "none"
      BY RoleStarts DEF TypeOK
    <3>2. runs' = Append(runs, e) /\ Len(runs) < MaxRuns /\ branch' = branch
      BY <2>1 DEF CreateRun, taskRow
    <3>3. RunSound(e, branch)
      BY <2>1, <3>1 DEF CreateRun, RunSound
    <3> HIDE DEF e
    <3>4. TypeOK'
      BY <2>1, <3>1, <3>2, Appended, Bounds DEF CreateRun, TypeOK, taskRow, settings, repository
    <3>5. Sound'
      BY <2>1, <3>1, <3>2, <3>3, Appended DEF CreateRun, TypeOK, Sound, taskRow
    <3> QED BY <3>4, <3>5
  <2>2. ASSUME NEW role \in Team, NEW autorun \in BOOLEAN, HandOff(role, autorun) PROVE Typed'
    <3> DEFINE e == NewRun(RoleKind[role], head)
    <3>1. e \in Run /\ (e.kind = "review" => role = "sentry") /\ e.kind # "merge" /\ e.agent = "none"
      BY RoleStarts DEF TypeOK
    <3>2. \/ runs' = runs
          \/ runs' = Append(runs, e) /\ (role = "sentry" => branch # 0)
      BY <2>2 DEF HandOff
    <3>3. Len(runs') <= MaxRuns /\ task' = "in_progress" /\ UNCHANGED <<taskRow, settings, decisions, ci, repository>>
      BY <2>2 DEF HandOff
    <3>4. (role = "sentry" => branch # 0) => RunSound(e, branch)
      BY <3>1 DEF RunSound
    <3> HIDE DEF e
    <3>6. TypeOK'
      BY <3>1, <3>2, <3>3, Appended DEF TypeOK, taskRow, settings, repository
    <3>7. Sound'
      <4>1. CASE runs' = runs
        BY <3>3, <4>1 DEF Sound, taskRow
      <4>2. CASE runs' = Append(runs, e) /\ (role = "sentry" => branch # 0)
        BY <3>1, <3>3, <3>4, <4>2, Appended DEF TypeOK, Sound, taskRow
      <4> QED BY <3>2, <4>1, <4>2
    <3> QED BY <3>6, <3>7
  <2>3. ASSUME NEW status \in Statuses, UpdateTask(status) PROVE Typed'
    BY <2>3, Settings DEF UpdateTask, TypeOK, Sound, taskRow, settings, repository, Closed
  <2>4. ASSUME NEW auto \in AutoRuns, NEW pol \in Policies, UpdateProject(auto, pol) PROVE Typed'
    BY <2>4 DEF UpdateProject, TypeOK, Sound, taskRow, settings, repository
  <2>6. ASSUME NEW b \in Names, PersonPushes(b) PROVE Typed'
    <3>1. Sound'
      BY <2>6 DEF PersonPushes, Sound, taskRow
    <3>2. /\ parent' \in Seq(0..MaxCommits) /\ Len(parent') = Len(parent) + 1 /\ Len(parent) \in Nat
          /\ Len(parent') <= MaxCommits
      BY <2>6, Bounds, AppendProperties DEF PersonPushes, TypeOK, Names
    <3>3. TypeOK'
      BY <2>6, <3>2, Bounds DEF PersonPushes, TypeOK, taskRow, settings, Names
    <3> QED BY <3>1, <3>3
  <2>5. ASSUME NEW d \in Open, NEW answer \in {"merge", "stop"}, AnswerDecision(d, answer) PROVE Typed'
    <3> DEFINE e == NewRun("merge", head)
    <3>1. e \in Run /\ e.kind = "merge" /\ e.agent = "none" /\ e.commit = head
      BY NewRunIsARun DEF TypeOK, Kind, NewRun
    <3>2. \/ runs' = runs
          \/ runs' = Append(runs, e) /\ branch # 0
      BY <2>5 DEF AnswerDecision
    <3>3. Len(runs') <= MaxRuns /\ UNCHANGED <<task, taskRow, settings, ci, repository>>
      BY <2>5 DEF AnswerDecision
    <3>4. decisions' \subseteq Decision /\ \A x \in decisions' : x.commit # 0
      BY <2>5 DEF AnswerDecision, Open, TypeOK, Sound, Decision
    <3>5. branch # 0 => RunSound(e, branch)
      BY <3>1 DEF RunSound, Sound
    <3> HIDE DEF e
    <3>6. TypeOK'
      BY <3>1, <3>2, <3>3, <3>4, Appended DEF TypeOK, taskRow, settings, repository
    <3>7. Sound'
      <4>1. ASSUME NEW i \in DOMAIN runs' PROVE RunSound(runs'[i], branch)
        <5>1. i \in DOMAIN runs => RunSound(runs[i], branch)
          BY DEF Sound
        <5>2. CASE runs' = runs
          BY <5>1, <5>2
        <5>3. CASE runs' = Append(runs, e) /\ branch # 0
          <6>1. \/ i \in DOMAIN runs /\ runs'[i] = runs[i]
                \/ runs'[i] = e
            BY <3>1, <5>3, Appended DEF TypeOK
          <6> QED BY <3>5, <5>1, <5>3, <6>1
        <5> QED BY <3>2, <5>2, <5>3
      <4> QED BY <3>3, <3>4, <4>1 DEF Sound, taskRow
    <3> QED BY <3>6, <3>7
  <2>7. ASSUME NEW c \in Commits, NEW k \in Checks, NEW result \in {"pending", "success", "failure"},
               Pipeline(c, k, result)
        PROVE  Typed'
    <3>1. ci' \in [Commits -> [Checks -> {"none", "pending", "success", "failure"}]]
      BY <2>7 DEF Pipeline, TypeOK
    <3>2. UNCHANGED <<taskRow, settings, repository>>
      BY <2>7 DEF Pipeline
    <3>3. CASE UNCHANGED <<task, runs, decisions>>
      BY <3>1, <3>2, <3>3 DEF TypeOK, Sound, taskRow, settings, repository
    <3>4. CASE ~UNCHANGED <<task, runs, decisions>>
      <4>1. PICK todo \in {"nothing", "build", "ask", "merge"} : Follow(todo, runs, head) /\ branch # 0
        BY <2>7, <3>4, Decided DEF Pipeline
      <4>2. RunSound(NewRun(todo, head), branch)
        BY <4>1 DEF RunSound, NewRun, Sound
      <4>3. TypeOK'
        BY <3>1, <3>2, <4>1, Followed DEF TypeOK, taskRow, settings, repository
      <4>4. Sound'
        <5>1. /\ \A i \in DOMAIN runs : runs'[i] = runs[i]
              /\ \A i \in DOMAIN runs' \ DOMAIN runs : runs'[i] = NewRun(todo, head)
              /\ \A d \in decisions' \ decisions : d.commit = head
          <6>1. runs \in Seq(Run) /\ head \in 0..MaxCommits /\ decisions \subseteq Decision
                /\ task \in {"open", "in_progress"} \cup Closed
            BY DEF TypeOK
          <6>2. /\ \A i \in DOMAIN runs : runs'[i] = runs[i]
                /\ \A i \in DOMAIN runs' \ DOMAIN runs : runs'[i] = NewRun(todo, head)
                /\ \A d \in decisions' \ decisions : d = [commit |-> head, answer |-> "open"]
            BY <4>1, <6>1, Followed, Zenon
          <6> QED BY <6>2
        <5>2. ASSUME NEW i \in DOMAIN runs' PROVE RunSound(runs'[i], branch)
          BY <4>2, <5>1, Zenon DEF Sound
        <5>3. ASSUME NEW d \in decisions' PROVE d.commit # 0
          BY <4>1, <5>1 DEF Sound
        <5> QED BY <3>2, <5>2, <5>3 DEF Sound, taskRow
      <4> QED BY <4>3, <4>4
    <3> QED BY <3>3, <3>4
  <2>8. ASSUME NEW i \in DOMAIN runs, Claim(i) PROVE Typed'
    <3>1. runs[i] \in Run /\ RunSound(runs[i], branch)
      BY ARun
    <3>2. PICK b \in 0..MaxRuns : b = BranchFor(runs[i].kind)
      BY <3>1, BranchForTyped DEF Run
    <3> DEFINE e == [runs[i] EXCEPT !.status = "running", !.agent = "claimed", !.from = b]
    <3>3. e \in Run
      BY <3>1 DEF Run, Live, Agent
    <3>4. RunSound(e, branch)
      BY <3>1 DEF RunSound, Run
    <3>5. runs' = [runs EXCEPT ![i] = e] /\ UNCHANGED <<Server, repository>>
      BY <2>8, <3>2 DEF Claim, TypeOK
    <3> QED BY <3>3, <3>4, <3>5, OneRunChanged DEF TypeOK, Server, taskRow, repository
  <2>9. ASSUME NEW i \in DOMAIN runs, Prepare(i) PROVE Typed'
    <3> DEFINE tip == IF runs[i].from = 0 THEN 0 ELSE tips[runs[i].from]
    <3> DEFINE e == [runs[i] EXCEPT !.agent = "prepared", !.at = tip]
    <3>1. runs[i] \in Run /\ RunSound(runs[i], branch)
      BY ARun
    <3>2. tip \in 0..MaxCommits
      <4>1. runs[i].from \in 0..MaxRuns /\ tips \in [1..MaxRuns -> 0..MaxCommits]
        BY <3>1 DEF TypeOK, Run, Names
      <4> QED BY <4>1, Bounds
    <3>3. e \in Run
      BY <3>1, <3>2 DEF Run, Agent
    <3>4. RunSound(e, branch)
      BY <2>9, <3>1 DEF Prepare, RunSound, Run
    <3>5. runs' = [runs EXCEPT ![i] = e] /\ UNCHANGED <<Server, repository>>
      BY <2>9 DEF Prepare, TypeOK
    <3> QED BY <3>3, <3>4, <3>5, OneRunChanged DEF TypeOK, Server, taskRow, repository
  <2>10. ASSUME NEW i \in DOMAIN runs, Push(i) PROVE Typed'
    <3>1. runs[i] \in Run /\ RunSound(runs[i], branch)
      BY ARun
    <3>2. PICK n \in 0..MaxCommits : n # 0 /\ parent' \in Seq(0..MaxCommits) /\ n = Len(parent')
      <4>1. runs[i].at \in 0..MaxCommits /\ parent \in Seq(0..MaxCommits)
        BY <3>1 DEF Run, TypeOK
      <4> QED BY <2>10, <4>1, AppendProperties, LenProperties, Bounds DEF Push
    <3> DEFINE e == [runs[i] EXCEPT !.agent = "done", !.at = n]
    <3>3. tips' \in [Names -> 0..MaxCommits]
      <4>1. tips' = [tips EXCEPT ![Target(i)] = n] /\ tips \in [Names -> 0..MaxCommits]
        BY <2>10, <3>2 DEF Push, TypeOK
      <4> QED BY <4>1
    <3>4. e \in Run
      <4>1. n \in 0..MaxCommits /\ "done" \in Agent
        BY <3>2, Bounds DEF Agent
      <4> QED BY <3>1, <4>1 DEF Run
    <3>5. RunSound(e, branch)
      BY <2>10, <3>1, <3>2 DEF Push, RunSound, Run
    <3>6. runs' = [runs EXCEPT ![i] = e] /\ UNCHANGED <<Server, landed>>
      BY <2>10, <3>2 DEF Push, TypeOK
    <3>7. /\ Len(parent') <= MaxCommits /\ landed' \subseteq Commits /\ merged' \in BOOLEAN
          /\ UNCHANGED <<branch, head, settings, decisions, ci>> /\ task' \in {task, "done"}
      BY <3>2, <3>6 DEF TypeOK, Server, taskRow
    <3> HIDE DEF e
    <3> QED BY <3>2, <3>3, <3>4, <3>5, <3>6, <3>7, OneRunChanged
  <2>11. ASSUME NEW i \in DOMAIN runs, NEW deletes \in BOOLEAN, Land(i, deletes) PROVE Typed'
    <3> DEFINE e == [runs[i] EXCEPT !.agent = "done"]
    <3>1. runs[i] \in Run /\ RunSound(runs[i], branch)
      BY ARun
    <3>2. runs[i].at \in Commits
      BY <2>11, <3>1, Bounds DEF Land, RunSound, Run, Commits
    <3>3. tips' \in [Names -> 0..MaxCommits]
      <4>1. tips \in [Names -> 0..MaxCommits] /\ (tips' = tips \/ tips' = [tips EXCEPT ![runs[i].from] = 0])
        BY <2>11 DEF Land, TypeOK
      <4> QED BY <4>1, Bounds
    <3>4. e \in Run
      BY <3>1 DEF Run, Agent
    <3>5. RunSound(e, branch)
      BY <2>11, <3>1 DEF Land, RunSound, Run
    <3>6. runs' = [runs EXCEPT ![i] = e] /\ UNCHANGED <<Server, parent>> /\ landed' = landed \cup {runs[i].at}
      BY <2>11 DEF Land, TypeOK
    <3> QED BY <3>2, <3>3, <3>4, <3>5, <3>6, OneRunChanged DEF TypeOK, Server, taskRow
  <2>12. ASSUME NEW i \in DOMAIN runs, Merged(i) \/ Fail(i) PROVE Typed'
    <3> DEFINE status == IF Merged(i) THEN "succeeded" ELSE "failed"
               e == Ended(i, status, "")
    <3>1. e \in Run /\ RunSound(e, branch)
      <4>1. runs[i].kind = "review" => branch # 0
        BY ARun DEF RunSound
      <4>2. ASSUME NEW s \in {"succeeded", "failed"} PROVE Ended(i, s, "") \in Run /\ RunSound(Ended(i, s, ""), branch)
        <5>1. "" \in Verdict
          BY DEF Verdict
        <5> QED BY <4>1, <5>1, EndedTyped, Zenon
      <4> QED BY <4>2
    <3>2. runs' = [runs EXCEPT ![i] = e]
      BY <2>12 DEF Merged, Fail
    <3>3. UNCHANGED <<branch, head, settings, decisions, ci, repository>> /\ task' \in {task, "done"} /\ merged' \in BOOLEAN
      BY <2>12 DEF Merged, Fail, Server, taskRow, TypeOK
    <3> QED BY <3>1, <3>2, <3>3, OneRunChanged DEF TypeOK, repository
  <2>13. ASSUME NEW i \in DOMAIN runs, Stop(i) PROVE Typed'
    <3> DEFINE e == IF MayPush(runs[i]) THEN [runs[i] EXCEPT !.status = "failed"]
                    ELSE [runs[i] EXCEPT !.status = "failed", !.agent = "none", !.from = 0, !.at = 0]
    <3>1. runs[i] \in Run /\ RunSound(runs[i], branch)
      BY ARun
    <3>2. e \in Run
      <4>1. [runs[i] EXCEPT !.status = "failed"] \in Run
        BY <3>1 DEF Run
      <4>2. [runs[i] EXCEPT !.status = "failed", !.agent = "none", !.from = 0, !.at = 0] \in Run
        <5>1. /\ 0 \in 0..MaxRuns /\ 0 \in 0..MaxCommits /\ "none" \in Agent
              /\ "failed" \in Live \cup {"succeeded", "failed"}
          BY Bounds DEF Agent
        <5> QED BY <3>1, <5>1 DEF Run
      <4> QED BY <4>1, <4>2
    <3>3. RunSound(e, branch)
      BY <3>1 DEF RunSound, Run
    <3>4. runs' = [runs EXCEPT ![i] = e] /\ UNCHANGED <<Server, repository>>
      BY <2>13 DEF Stop, TypeOK
    <3> QED BY <3>2, <3>3, <3>4, OneRunChanged DEF TypeOK, Server, taskRow, repository
  <2>14. ASSUME NEW i \in DOMAIN runs, NEW verdict \in Verdict, Succeed(i, verdict) PROVE Typed'
    <3> DEFINE r  == Ended(i, "succeeded", verdict)
               rs == [runs EXCEPT ![i] = r]
               todo == Advance(r, rs, branch')
    <3>1. runs[i] \in Run /\ RunSound(runs[i], branch)
      BY ARun
    <3>2. r \in Run /\ RunSound(r, branch)
      BY <3>1, EndedTyped DEF RunSound
    <3>3. /\ r.kind = runs[i].kind /\ r.kind # "merge"
          /\ r.branch # 0 => r.kind = "build" /\ r.commit # 0
      <4>1. /\ r.kind = runs[i].kind
            /\ r.branch # 0 => r.kind = "build" /\ r.commit # 0
        BY EndedFields
      <4>2. r.kind # "merge" \/ r.kind = "build"
        BY <2>14 DEF Succeed
      <4> QED BY <4>1, <4>2
    <3>4. /\ rs \in Seq(Run) /\ Len(rs) = Len(runs) /\ DOMAIN rs = DOMAIN runs
          /\ rs[i] = r /\ \A j \in DOMAIN runs \ {i} : rs[j] = runs[j]
      BY <3>2, Replaced DEF TypeOK
    <3>5. /\ branch' = IF r.branch # 0 THEN r.branch ELSE branch
          /\ head' = IF r.branch # 0 THEN r.commit ELSE head
          /\ IF ~autoRun \/ task \in Closed
             THEN runs' = rs /\ UNCHANGED <<task, decisions>>
             ELSE Follow(todo, rs, head')
          /\ UNCHANGED <<merged, settings, ci, repository>>
      BY <2>14 DEF Succeed
    <3> HIDE DEF r, rs
    <3>6. /\ branch' \in 0..MaxRuns /\ head' \in 0..MaxCommits
          /\ (branch' # 0 <=> head' # 0)
          /\ branch # 0 => branch' # 0
      <4>1. r.branch \in 0..MaxRuns /\ r.commit \in 0..MaxCommits
        BY <3>2 DEF Run
      <4> QED BY <3>3, <3>5, <4>1 DEF TypeOK, Sound
    <3>7. UNCHANGED <<merged, autoRun, policy, ci, tips, parent, landed>>
      BY <3>5 DEF settings, repository
    <3>8. \A j \in DOMAIN rs : RunSound(rs[j], branch')
      <4>1. \A j \in DOMAIN rs : RunSound(rs[j], branch)
        BY <3>2, <3>4 DEF Sound
      <4> QED BY <3>6, <4>1 DEF RunSound
    <3>9. CASE ~autoRun \/ task \in Closed
      <4>1. runs' = rs /\ UNCHANGED <<task, decisions>>
        BY <3>5, <3>9
      <4>2. TypeOK'
        BY <3>4, <3>6, <3>7, <4>1 DEF TypeOK
      <4>3. Sound'
        BY <3>6, <3>8, <4>1 DEF Sound
      <4> QED BY <4>2, <4>3
    <3>10. CASE ~(~autoRun \/ task \in Closed)
      <4>1. /\ todo \in {"nothing", "build", "review", "merge", "ask"}
            /\ todo = "review" => branch' # 0
            /\ todo \in {"merge", "ask"} => branch' # 0
        BY <3>1, <3>2, <3>3, <3>6, Advanced DEF RunSound
      <4> HIDE DEF todo
      <4>2. Follow(todo, rs, head')
        BY <3>5, <3>10
      <4>3. decisions \subseteq Decision /\ task \in {"open", "in_progress"} \cup Closed
        BY DEF TypeOK
      <4>4. /\ runs' \in Seq(Run) /\ Len(runs') <= MaxRuns
            /\ task' \in {"open", "in_progress"} \cup Closed
            /\ decisions' \subseteq Decision
        BY <3>4, <3>6, <4>2, <4>3, Followed
      <4>5. /\ \A j \in DOMAIN rs : runs'[j] = rs[j]
            /\ \A j \in DOMAIN runs' \ DOMAIN rs : todo \in Kind /\ runs'[j] = NewRun(todo, head')
            /\ \A d \in decisions' \ decisions : todo = "ask" /\ d = [commit |-> head', answer |-> "open"]
        BY <3>4, <3>6, <4>2, <4>3, Followed
      <4>6. todo \in Kind => RunSound(NewRun(todo, head'), branch')
        BY <3>6, <4>1 DEF RunSound, NewRun, Kind
      <4>7. TypeOK'
        BY <3>6, <3>7, <4>4 DEF TypeOK
      <4>8. ASSUME NEW j \in DOMAIN runs' PROVE RunSound(runs'[j], branch')
        BY <3>8, <4>5, <4>6, Zenon
      <4>9. ASSUME NEW d \in decisions' PROVE d.commit # 0
        BY <3>6, <4>1, <4>5 DEF Sound
      <4> QED BY <3>6, <4>7, <4>8, <4>9 DEF Sound
    <3> QED BY <3>9, <3>10
  <2>15. CASE UNCHANGED vars
    BY <2>15 DEF vars, TypeOK, Sound, taskRow, settings, repository
  <2> QED
    BY StepCases, <2>1, <2>2, <2>3, <2>4, <2>5, <2>6, <2>7, <2>8, <2>9, <2>10, <2>11, <2>12, <2>13,
       <2>14, <2>15
<1>3. QED
  BY <1>1, <1>2, PTL DEF Spec

(* Every state of Autopilot is well typed: no handler writes a Run, a      *)
(* question or a commit that is not one.                                   *)
THEOREM TypeCorrect == Spec => []TypeOK
BY TypedAlways, PTL DEF Typed
-----------------------------------------------------------------------------
(* What no step takes back: a Run stays what it is, one that ended stays   *)
(* as it ended, an answer stays given and a Task stays merged.  At most    *)
(* one Run is queued, and a merge only when none is under way or done and  *)
(* its commit was agreed on.                                               *)
ReviewEnds ==
  \E i \in DOMAIN runs, verdict \in Verdict : runs[i].kind = "review" /\ Succeed(i, verdict)

RunKept(old, new) ==
  /\ new.kind = old.kind
  /\ old.kind = "merge" => new.commit = old.commit
  /\ old.status \notin Live => /\ new.status = old.status
                               /\ new.verdict = old.verdict
                               /\ new.commit = old.commit
  /\ old.kind = "merge" /\ old.status \in Live /\ new.status = "succeeded" => merged'
  /\ old.kind = "review" /\ old.status \in Live /\ new.status = "succeeded" => ReviewEnds

MergeMayBeQueued ==
  ~merged /\ ~Unfinished("merge", runs)

AgreedThen(c) ==
  \/ \E i \in Succeeded("review", runs') : runs'[i].verdict = "approve" /\ runs'[i].commit = c
  \/ [commit |-> c, answer |-> "merge"] \in decisions'

History ==
  /\ \A i \in DOMAIN runs : i \in DOMAIN runs' /\ RunKept(runs[i], runs'[i])
  /\ DOMAIN runs' \subseteq DOMAIN runs \cup {Len(runs) + 1}
  /\ \A i \in DOMAIN runs' \ DOMAIN runs :
       /\ runs'[i].status = "pending"
       /\ runs'[i].kind = "merge" => MergeMayBeQueued /\ AgreedThen(runs'[i].commit)
  /\ merged => merged'
  /\ \A d \in decisions : d.answer # "open" => d \in decisions'
  /\ \A c \in landed' \ landed :
       \E i \in DOMAIN runs : runs[i].kind = "merge" /\ runs[i].commit = c

(* A step that takes up nothing is part of the history. *)
LEMMA NothingTaken ==
  ASSUME runs' = runs, merged' = merged, decisions' = decisions, landed' = landed
  PROVE  History
BY DEF History, RunKept, Live

(* So is one in which one Run goes on ... *)
LEMMA OneTaken ==
  ASSUME NEW i \in DOMAIN runs, NEW e, RunKept(runs[i], e),
         runs' = [runs EXCEPT ![i] = e], decisions' = decisions, merged => merged',
         \A c \in landed' \ landed : runs[i].kind = "merge" /\ runs[i].commit = c
  PROVE  History
<1>1. /\ DOMAIN runs' = DOMAIN runs /\ runs'[i] = e
      /\ \A j \in DOMAIN runs \ {i} : runs'[j] = runs[j]
  OBVIOUS
<1>2. \A j \in DOMAIN runs : RunKept(runs[j], runs'[j])
  BY <1>1 DEF RunKept, Live
<1> QED BY <1>1, <1>2 DEF History

(* ... and one that queues one. *)
LEMMA OneQueued ==
  ASSUME Typed, NEW e \in Run, e.status = "pending",
         e.kind = "merge" => MergeMayBeQueued /\ AgreedThen(e.commit),
         runs' = Append(runs, e), merged' = merged, landed' = landed,
         \A d \in decisions : d.answer # "open" => d \in decisions'
  PROVE  History
<1>1. /\ DOMAIN runs' = DOMAIN runs \cup {Len(runs) + 1} /\ runs'[Len(runs) + 1] = e
      /\ \A j \in DOMAIN runs : runs'[j] = runs[j]
  BY Appended DEF Typed, TypeOK
<1>2. \A j \in DOMAIN runs : RunKept(runs[j], runs'[j])
  BY <1>1 DEF RunKept, Live
<1>3. \A j \in DOMAIN runs' \ DOMAIN runs : runs'[j] = e
  BY <1>1
<1> QED BY <1>1, <1>2, <1>3 DEF History

(* A merge that is decided on is of approved work, and the first.          *)
LEMMA MergeDecided ==
  ASSUME NEW rs, NEW results, TryMerge(rs, results) = "merge"
  PROVE  ~merged /\ branch # 0 /\ ~Unfinished("merge", rs) /\ Approved(rs)
BY DEF TryMerge, SendBack, PassOn

(* What was approved in a list of Runs is agreed on once it is the Task's. *)
LEMMA ApprovedIsAgreed ==
  ASSUME NEW rs, Approved(rs), \A i \in DOMAIN rs : i \in DOMAIN runs' /\ runs'[i] = rs[i]
  PROVE  AgreedThen(head)
BY DEF Approved, Newest, AgreedThen, Succeeded

(* What Follow queues after Run i has become e, or no Run has.             *)
LEMMA FollowedHistory ==
  ASSUME Typed, NEW rs \in Seq(Run), DOMAIN rs = DOMAIN runs, Len(rs) = Len(runs),
         \A i \in DOMAIN runs : RunKept(runs[i], rs[i]),
         NEW c \in 0..MaxCommits, NEW todo, Follow(todo, rs, c),
         todo = "merge" => MergeMayBeQueued /\ Approved(rs) /\ c = head,
         merged' = merged, landed' = landed
  PROVE  History
<1>1. /\ runs' \in Seq(Run) /\ DOMAIN rs \subseteq DOMAIN runs'
      /\ DOMAIN runs' \subseteq DOMAIN rs \cup {Len(rs) + 1}
      /\ \A i \in DOMAIN rs : runs'[i] = rs[i]
      /\ \A i \in DOMAIN runs' \ DOMAIN rs : todo \in Kind /\ runs'[i] = NewRun(todo, c)
  BY Followed DEF Typed, TypeOK
<1>2. \A d \in decisions : d \in decisions'
  BY DEF Follow
<1>3. NewRun(todo, c).status = "pending" /\ NewRun(todo, c).kind = todo
  BY DEF NewRun
<1>4. todo = "merge" => NewRun(todo, c).commit = head
  BY DEF NewRun
<1>5. todo = "merge" => AgreedThen(head)
  BY <1>1, ApprovedIsAgreed
<1>6. ASSUME NEW i \in DOMAIN runs' \ DOMAIN runs
      PROVE  /\ runs'[i].status = "pending"
             /\ runs'[i].kind = "merge" => MergeMayBeQueued /\ AgreedThen(runs'[i].commit)
  BY <1>1, <1>3, <1>4, <1>5
<1>7. \A i \in DOMAIN runs : i \in DOMAIN runs' /\ RunKept(runs[i], runs'[i])
  BY <1>1
<1> QED BY <1>1, <1>2, <1>6, <1>7 DEF History

(* Every step is part of the history. *)
LEMMA StepHistory ==
  ASSUME Typed, [Next]_vars
  PROVE  History
<1>1. ASSUME NEW role \in Team, CreateRun(role) PROVE History
  <2> DEFINE e == NewRun(RoleKind[role], head)
  <2>1. e \in Run /\ e.kind # "merge" /\ e.status = "pending"
    BY RoleStarts DEF Typed, TypeOK, NewRun
  <2>2. runs' = Append(runs, e) /\ merged' = merged /\ decisions' = decisions /\ landed' = landed
    BY <1>1 DEF CreateRun, taskRow, repository
  <2> HIDE DEF e
  <2> QED BY <2>1, <2>2, OneQueued
<1>2. ASSUME NEW role \in Team, NEW autorun \in BOOLEAN, HandOff(role, autorun) PROVE History
  <2> DEFINE e == NewRun(RoleKind[role], head)
  <2>1. e \in Run /\ e.kind # "merge" /\ e.status = "pending"
    BY RoleStarts DEF Typed, TypeOK, NewRun
  <2>2. /\ runs' = Append(runs, e) \/ runs' = runs
        /\ merged' = merged /\ decisions' = decisions /\ landed' = landed
    BY <1>2 DEF HandOff, taskRow, repository
  <2> HIDE DEF e
  <2> QED BY <2>1, <2>2, OneQueued, NothingTaken
<1>3. ASSUME NEW status \in Statuses, UpdateTask(status) PROVE History
  BY <1>3, NothingTaken DEF UpdateTask, taskRow, repository
<1>4. ASSUME NEW auto \in AutoRuns, NEW pol \in Policies, UpdateProject(auto, pol) PROVE History
  BY <1>4, NothingTaken DEF UpdateProject, taskRow, repository
<1>5. ASSUME NEW d \in Open, NEW answer \in {"merge", "stop"}, AnswerDecision(d, answer) PROVE History
  <2> DEFINE e == NewRun("merge", head)
  <2>1. e \in Run /\ e.kind = "merge" /\ e.status = "pending" /\ e.commit = head
    BY NewRunIsARun DEF Typed, TypeOK, Kind, NewRun
  <2>2. /\ merged' = merged /\ landed' = landed
        /\ \A x \in decisions : x.answer # "open" => x \in decisions'
    BY <1>5 DEF AnswerDecision, taskRow, repository, Open
  <2>3. CASE runs' = runs
    BY <2>2, <2>3 DEF History, RunKept, Live, AnswerDecision
  <2>4. CASE runs' # runs
    <3>1. /\ runs' = Append(runs, e) /\ answer = "merge" /\ d.commit \in {0, head}
          /\ MergeMayBeQueued
      BY <1>5, <2>4 DEF AnswerDecision, MergeMayBeQueued
    <3>2. d \in Decision /\ d.commit = head
      BY <3>1 DEF Open, Typed, TypeOK, Sound
    <3>3. [d EXCEPT !.answer = answer] = [commit |-> head, answer |-> "merge"]
      BY <3>1, <3>2 DEF Decision
    <3>4. AgreedThen(head)
      BY <1>5, <3>3 DEF AgreedThen, AnswerDecision
    <3> HIDE DEF e
    <3> QED BY <2>1, <2>2, <3>1, <3>4, OneQueued
  <2> QED BY <2>3, <2>4
<1>6. ASSUME NEW b \in Names, PersonPushes(b) PROVE History
  BY <1>6, NothingTaken DEF PersonPushes, taskRow
<1>7. ASSUME NEW c \in Commits, NEW k \in Checks, NEW result \in {"pending", "success", "failure"},
             Pipeline(c, k, result)
      PROVE  History
  <2>1. merged' = merged /\ landed' = landed
    BY <1>7 DEF Pipeline, taskRow, repository
  <2>2. CASE UNCHANGED <<task, runs, decisions>>
    BY <2>1, <2>2, NothingTaken
  <2>3. CASE ~UNCHANGED <<task, runs, decisions>>
    <3>1. PICK todo \in {SendBack(runs), TryMerge(runs, ci')} : Follow(todo, runs, head)
      BY <1>7, <2>3 DEF Pipeline
    <3>2. todo = "merge" => MergeMayBeQueued /\ Approved(runs)
      <4>1. SendBack(runs) # "merge"
        BY Decided
      <4> QED BY <4>1, MergeDecided DEF MergeMayBeQueued
    <3>3. \A i \in DOMAIN runs : RunKept(runs[i], runs[i])
      BY DEF RunKept, Live
    <3>4. runs \in Seq(Run) /\ head \in 0..MaxCommits
      BY DEF Typed, TypeOK
    <3> QED BY <2>1, <3>1, <3>2, <3>3, <3>4, FollowedHistory
  <2> QED BY <2>2, <2>3
<1>8. ASSUME NEW i \in DOMAIN runs, Claim(i) PROVE History
  <2> DEFINE e == [runs[i] EXCEPT !.status = "running", !.agent = "claimed", !.from = BranchFor(runs[i].kind)]
  <2>1. runs[i] \in Run
    BY ARun
  <2>2. RunKept(runs[i], e)
    BY <1>8, <2>1 DEF Claim, RunKept, Run, Live
  <2>3. runs' = [runs EXCEPT ![i] = e] /\ decisions' = decisions /\ merged' = merged /\ landed' = landed
    BY <1>8 DEF Claim, Server, taskRow, repository, Typed, TypeOK
  <2> QED BY <2>2, <2>3, OneTaken
<1>9. ASSUME NEW i \in DOMAIN runs, Prepare(i) PROVE History
  <2> DEFINE e == [runs[i] EXCEPT !.agent = "prepared",
                                  !.at = IF runs[i].from = 0 THEN 0 ELSE tips[runs[i].from]]
  <2>1. runs[i] \in Run
    BY ARun
  <2>2. RunKept(runs[i], e)
    BY <2>1 DEF RunKept, Run, Live
  <2>3. runs' = [runs EXCEPT ![i] = e] /\ decisions' = decisions /\ merged' = merged /\ landed' = landed
    BY <1>9 DEF Prepare, Server, taskRow, repository, Typed, TypeOK
  <2> QED BY <2>2, <2>3, OneTaken
<1>10. ASSUME NEW i \in DOMAIN runs, Push(i) PROVE History
  <2> DEFINE e == [runs[i] EXCEPT !.agent = "done", !.at = Len(parent')]
  <2>1. runs[i] \in Run
    BY ARun
  <2>2. RunKept(runs[i], e)
    BY <2>1 DEF RunKept, Run, Live
  <2>3. runs' = [runs EXCEPT ![i] = e] /\ decisions' = decisions /\ merged' = merged /\ landed' = landed
    BY <1>10 DEF Push, Server, taskRow, Typed, TypeOK
  <2> QED BY <2>2, <2>3, OneTaken
<1>11. ASSUME NEW i \in DOMAIN runs, NEW deletes \in BOOLEAN, Land(i, deletes) PROVE History
  <2> DEFINE e == [runs[i] EXCEPT !.agent = "done"]
  <2>1. runs[i] \in Run /\ RunSound(runs[i], branch)
    BY ARun
  <2>2. RunKept(runs[i], e)
    BY <2>1 DEF RunKept, Run, Live
  <2>3. runs' = [runs EXCEPT ![i] = e] /\ decisions' = decisions /\ merged' = merged
    BY <1>11 DEF Land, Server, taskRow, Typed, TypeOK
  <2>4. \A c \in landed' \ landed : runs[i].kind = "merge" /\ runs[i].commit = c
    BY <1>11, <2>1 DEF Land, RunSound
  <2> QED BY <2>2, <2>3, <2>4, OneTaken
<1>12. ASSUME NEW i \in DOMAIN runs, Merged(i) PROVE History
  <2> DEFINE e == Ended(i, "succeeded", "")
  <2>1. RunKept(runs[i], e)
    <3>1. /\ e.kind = runs[i].kind /\ e.status = "succeeded"
          /\ runs[i].kind = "merge" => e.commit = runs[i].commit
      BY ARun DEF Ended, Run
    <3> HIDE DEF e
    <3> QED BY <1>12, <3>1 DEF Merged, RunKept, Live
  <2>2. runs' = [runs EXCEPT ![i] = e] /\ decisions' = decisions /\ merged' /\ landed' = landed
    BY <1>12 DEF Merged, repository
  <2> QED BY <2>1, <2>2, OneTaken
<1>13. ASSUME NEW i \in DOMAIN runs, Fail(i) PROVE History
  <2> DEFINE e == Ended(i, "failed", "")
  <2>1. RunKept(runs[i], e)
    <3>1. /\ e.kind = runs[i].kind /\ e.status = "failed"
          /\ runs[i].kind = "merge" => e.commit = runs[i].commit
      BY ARun DEF Ended, Run
    <3> HIDE DEF e
    <3> QED BY <1>13, <3>1 DEF Fail, RunKept, Live
  <2>2. runs' = [runs EXCEPT ![i] = e] /\ decisions' = decisions /\ merged' = merged /\ landed' = landed
    BY <1>13 DEF Fail, Server, taskRow, repository
  <2> QED BY <2>1, <2>2, OneTaken
<1>14. ASSUME NEW i \in DOMAIN runs, Stop(i) PROVE History
  <2> DEFINE e == IF MayPush(runs[i]) THEN [runs[i] EXCEPT !.status = "failed"]
                  ELSE [runs[i] EXCEPT !.status = "failed", !.agent = "none", !.from = 0, !.at = 0]
  <2>1. runs[i] \in Run
    BY ARun
  <2>2. RunKept(runs[i], e)
    BY <1>14, <2>1 DEF Stop, RunKept, Run, Live
  <2>3. runs' = [runs EXCEPT ![i] = e] /\ decisions' = decisions /\ merged' = merged /\ landed' = landed
    BY <1>14 DEF Stop, Server, taskRow, repository, Typed, TypeOK
  <2> QED BY <2>2, <2>3, OneTaken
<1>15. ASSUME NEW i \in DOMAIN runs, NEW verdict \in Verdict, Succeed(i, verdict) PROVE History
  <2> DEFINE r  == Ended(i, "succeeded", verdict)
             rs == [runs EXCEPT ![i] = r]
             todo == Advance(r, rs, branch')
  <2>1. runs[i] \in Run /\ RunSound(runs[i], branch)
    BY ARun
  <2>2. r \in Run
    BY <2>1, EndedTyped DEF RunSound
  <2>3. /\ r.kind = runs[i].kind /\ r.kind # "merge" /\ runs[i].status = "running"
        /\ r.branch # 0 => r.kind = "build"
    <3>1. /\ r.kind = runs[i].kind
          /\ r.branch # 0 => r.kind = "build" /\ r.commit # 0
      BY EndedFields
    <3>2. runs[i].status = "running" /\ (r.kind # "merge" \/ r.kind = "build")
      BY <1>15 DEF Succeed
    <3> HIDE DEF r
    <3> QED BY <3>1, <3>2
  <2>4. RunKept(runs[i], r)
    <3>1. runs[i].kind = "review" => ReviewEnds
      BY <1>15 DEF ReviewEnds
    <3> QED BY <2>3, <3>1 DEF RunKept, Live
  <2>5. /\ rs \in Seq(Run) /\ Len(rs) = Len(runs) /\ DOMAIN rs = DOMAIN runs
        /\ rs[i] = r /\ \A j \in DOMAIN runs \ {i} : rs[j] = runs[j]
    BY <2>2, Replaced DEF Typed, TypeOK
  <2>6. /\ head' = IF r.branch # 0 THEN r.commit ELSE head
        /\ IF ~autoRun \/ task \in Closed
           THEN runs' = rs /\ UNCHANGED <<task, decisions>>
           ELSE Follow(todo, rs, head')
        /\ merged' = merged /\ landed' = landed
    BY <1>15 DEF Succeed, repository
  <2>7. CASE ~autoRun \/ task \in Closed
    BY <2>4, <2>6, <2>7, OneTaken
  <2>8. CASE ~(~autoRun \/ task \in Closed)
    <3>1. head' \in 0..MaxCommits
      BY <2>2, <2>6 DEF Typed, TypeOK, Run
    <3>2. todo = "merge" => r.kind = "review" /\ TryMerge(rs, ci) = "merge"
      <4>1. SendBack(rs) # "merge"
        BY Decided
      <4> HIDE DEF r, rs
      <4> QED BY <2>2, <2>3, <4>1 DEF Advance, Run, Kind, Verdict, PassOn
    <3>3. ~Unfinished("merge", rs) => ~Unfinished("merge", runs)
      BY <2>3, <2>5 DEF Unfinished
    <3>4. todo = "merge" => MergeMayBeQueued /\ Approved(rs) /\ head' = head
      BY <2>3, <2>6, <3>2, <3>3, MergeDecided DEF MergeMayBeQueued
    <3>5. \A j \in DOMAIN runs : RunKept(runs[j], rs[j])
      BY <2>4, <2>5 DEF RunKept, Live
    <3>6. Follow(todo, rs, head')
      BY <2>6, <2>8
    <3> HIDE DEF todo, rs, r
    <3> QED BY <2>5, <2>6, <3>1, <3>4, <3>5, <3>6, FollowedHistory
  <2> QED BY <2>7, <2>8
<1>16. CASE UNCHANGED vars
  BY <1>16, NothingTaken DEF vars
<1> QED
  BY StepCases, <1>1, <1>2, <1>3, <1>4, <1>5, <1>6, <1>7, <1>8, <1>9, <1>10, <1>11, <1>12, <1>13,
     <1>14, <1>15, <1>16
-----------------------------------------------------------------------------
(* A Task with a merge that succeeded is merged: that is what keeps a      *)
(* second one from being queued once the first has ended.                  *)
MergesOnce ==
  /\ TaskMergesOnce
  /\ \A i \in DOMAIN runs : runs[i].kind = "merge" /\ runs[i].status = "succeeded" => merged

(* No history merges a Task a second time. *)
LEMMA MergesOnceKept ==
  ASSUME Typed, MergesOnce, History
  PROVE  MergesOnce'
<1> DEFINE Counts(r) == r.kind = "merge" /\ r.status \in Live \cup {"succeeded"}
           Old == DOMAIN runs
<1>1. ASSUME NEW i \in Old, Counts(runs'[i]) PROVE Counts(runs[i])
  <2>1. RunKept(runs[i], runs'[i]) /\ runs[i].status \in Live \cup {"succeeded", "failed"}
    BY ARun DEF History, Run
  <2> QED BY <1>1, <2>1 DEF RunKept, Live
<1>2. ASSUME NEW i \in DOMAIN runs' \ Old, Counts(runs'[i]), NEW j \in Old, Counts(runs'[j])
      PROVE  FALSE
  <2>1. ~merged /\ ~Unfinished("merge", runs)
    BY <1>2 DEF History, MergeMayBeQueued
  <2>2. Counts(runs[j])
    BY <1>1, <1>2
  <2> QED BY <2>1, <2>2 DEF MergesOnce, Unfinished
<1>3. TaskMergesOnce'
  <2> SUFFICES ASSUME NEW i \in DOMAIN runs', NEW j \in DOMAIN runs', Counts(runs'[i]), Counts(runs'[j])
               PROVE  i = j
    BY DEF TaskMergesOnce
  <2>1. CASE i \in Old /\ j \in Old
    <3>1. Counts(runs[i]) /\ Counts(runs[j])
      BY <1>1, <2>1
    <3> QED BY <2>1, <3>1 DEF MergesOnce, TaskMergesOnce
  <2>2. CASE i \in Old /\ j \notin Old
    BY <1>2, <2>2
  <2>3. CASE i \notin Old /\ j \in Old
    BY <1>2, <2>3
  <2>4. CASE i \notin Old /\ j \notin Old
    BY <2>4 DEF History
  <2> QED BY <2>1, <2>2, <2>3, <2>4
<1>4. ASSUME NEW i \in DOMAIN runs', runs'[i].kind = "merge", runs'[i].status = "succeeded"
      PROVE  merged'
  <2>1. i \in Old
    BY <1>4 DEF History
  <2>2. RunKept(runs[i], runs'[i]) /\ runs[i].status \in Live \cup {"succeeded", "failed"}
    BY <2>1, ARun DEF History, Run
  <2> QED BY <1>4, <2>1, <2>2 DEF RunKept, MergesOnce, History
<1> QED BY <1>3, <1>4 DEF MergesOnce

(* At most one merge of a Task is queued, under way or done.               *)
THEOREM TaskIsMergedOnce == Spec => []TaskMergesOnce
<1>1. Init => MergesOnce
  BY EmptySeq DEF Init, MergesOnce, TaskMergesOnce
<1>2. Typed /\ MergesOnce /\ [Next]_vars => MergesOnce'
  BY StepHistory, MergesOnceKept
<1>3. MergesOnce => TaskMergesOnce
  BY DEF MergesOnce
<1> QED BY <1>1, <1>2, <1>3, TypedAlways, PTL DEF Spec
-----------------------------------------------------------------------------
(* What landed was agreed on because every merge is of a commit that was,  *)
(* and neither an approval nor an answer is ever taken back.               *)
MergesAreAgreed ==
  /\ LandedWorkWasAgreed
  /\ \A i \in DOMAIN runs : runs[i].kind = "merge" => Agreed(runs[i].commit)

(* No history lands a commit that nobody agreed to. *)
LEMMA MergesAreAgreedKept ==
  ASSUME Typed, MergesAreAgreed, History
  PROVE  MergesAreAgreed'
<1>1. ASSUME NEW c, Agreed(c) PROVE AgreedThen(c)
  <2>1. CASE \E i \in Succeeded("review", runs) : runs[i].verdict = "approve" /\ runs[i].commit = c
    <3>1. PICK i \in DOMAIN runs : /\ runs[i].kind = "review" /\ runs[i].status = "succeeded"
                                   /\ runs[i].verdict = "approve" /\ runs[i].commit = c
      BY <2>1 DEF Succeeded
    <3>2. i \in DOMAIN runs' /\ RunKept(runs[i], runs'[i])
      BY DEF History
    <3> QED BY <3>1, <3>2 DEF RunKept, Live, AgreedThen, Succeeded
  <2>2. CASE [commit |-> c, answer |-> "merge"] \in decisions
    BY <2>2 DEF History, AgreedThen
  <2> QED BY <1>1, <2>1, <2>2 DEF Agreed
<1>2. ASSUME NEW c \in landed' PROVE AgreedThen(c)
  <2>1. CASE c \in landed
    BY <1>1, <2>1 DEF MergesAreAgreed, LandedWorkWasAgreed
  <2>2. CASE c \notin landed
    BY <1>1, <2>2 DEF MergesAreAgreed, History
  <2> QED BY <2>1, <2>2
<1>3. ASSUME NEW i \in DOMAIN runs', runs'[i].kind = "merge" PROVE AgreedThen(runs'[i].commit)
  <2>1. CASE i \in DOMAIN runs
    <3>1. RunKept(runs[i], runs'[i])
      BY <2>1 DEF History
    <3>2. runs[i].kind = "merge" /\ runs'[i].commit = runs[i].commit
      BY <1>3, <3>1 DEF RunKept
    <3> QED BY <1>1, <2>1, <3>2 DEF MergesAreAgreed
  <2>2. CASE i \notin DOMAIN runs
    BY <1>3, <2>2 DEF History
  <2> QED BY <2>1, <2>2
<1> QED BY <1>2, <1>3 DEF MergesAreAgreed, LandedWorkWasAgreed, Agreed, AgreedThen

(* What landed in the default branch was approved by a review of that very *)
(* commit, or a person agreed to merge it.                                 *)
THEOREM OnlyAgreedWorkLands == Spec => []LandedWorkWasAgreed
<1>1. Init => MergesAreAgreed
  BY EmptySeq DEF Init, MergesAreAgreed, LandedWorkWasAgreed
<1>2. Typed /\ MergesAreAgreed /\ [Next]_vars => MergesAreAgreed'
  BY StepHistory, MergesAreAgreedKept
<1>3. MergesAreAgreed => LandedWorkWasAgreed
  BY DEF MergesAreAgreed
<1> QED BY <1>1, <1>2, <1>3, TypedAlways, PTL DEF Spec
-----------------------------------------------------------------------------
(* A push never drops commits that somebody else pushed, and a branch goes *)
(* only once its tip has landed.                                           *)
THEOREM NoWorkIsOverwritten == Spec => WorkIsNotOverwritten
<1> DEFINE Kept(b) == tips'[b] # tips[b] => IF tips'[b] = 0 THEN tips[b] \in landed'
                                            ELSE parent'[tips'[b]] = tips[b]
<1>1. ASSUME Typed, [Next]_vars PROVE \A b \in Names : Kept(b)
  <2>1. ASSUME NEW b \in Names, NEW c, tips' = [tips EXCEPT ![b] = Len(parent')], c = tips[b],
               parent' = Append(parent, c), c \in 0..MaxCommits
        PROVE  \A x \in Names : Kept(x)
    <3>1. Len(parent') # 0 /\ parent'[Len(parent')] = c
      BY <1>1, <2>1, AppendProperties, LenProperties DEF Typed, TypeOK
    <3>2. tips'[b] = Len(parent') /\ \A x \in Names \ {b} : tips'[x] = tips[x]
      BY <1>1, <2>1 DEF Typed, TypeOK
    <3> QED BY <2>1, <3>1, <3>2
  <2>2. ASSUME NEW b \in Names, PersonPushes(b) PROVE \A x \in Names : Kept(x)
    BY <1>1, <2>1, <2>2 DEF PersonPushes, Typed, TypeOK
  <2>3. ASSUME NEW i \in DOMAIN runs, Push(i) PROVE \A x \in Names : Kept(x)
    <3>1. runs[i] \in Run /\ i \in 1..MaxRuns
      BY <1>1, ARun
    <3>2. Target(i) \in Names /\ runs[i].at \in 0..MaxCommits
      BY <3>1, Bounds DEF Target, Names, Run
    <3> QED BY <2>1, <2>3, <3>2 DEF Push
  <2>4. ASSUME NEW i \in DOMAIN runs, NEW deletes \in BOOLEAN, Land(i, deletes)
        PROVE  \A x \in Names : Kept(x)
    BY <1>1, <2>4 DEF Land, Typed, TypeOK
  <2>5. CASE tips' = tips
    BY <2>5
  <2> QED
    BY <1>1, StepCases, <2>2, <2>3, <2>4, <2>5
       DEF CreateRun, HandOff, UpdateTask, UpdateProject, AnswerDecision, Pipeline, Claim, Prepare,
           Succeed, Merged, Fail, Stop, vars, repository
<1> QED BY <1>1, TypedAlways, PTL DEF Spec, WorkIsNotOverwritten
-----------------------------------------------------------------------------
(* Once a Task is done or canceled, no handler queues a Run or asks people *)
(* anything, unless a person starts a Run or hands the Task on.            *)
THEOREM ClosedTasksStayQuiet == Spec => ClosedTasksRest
<1> DEFINE Quiet == Len(runs') <= Len(runs) /\ Open' \subseteq Open
<1>1. ASSUME Typed, [Next]_vars, task \in Closed,
             ~ \E role \in Team, autorun \in BOOLEAN : CreateRun(role) \/ HandOff(role, autorun)
      PROVE  Quiet
  <2>1. runs \in Seq(Run) /\ Len(runs) \in Nat
    BY <1>1, LenProperties DEF Typed, TypeOK
  <2>2. ASSUME NEW i \in DOMAIN runs, NEW e, runs' = [runs EXCEPT ![i] = e], decisions' = decisions
        PROVE  Quiet
    <3>1. Len(runs') = Len(runs)
      BY <2>1, <2>2
    <3> QED BY <2>1, <2>2, <3>1 DEF Open
  <2>3. ASSUME NEW d \in Open, NEW answer \in {"merge", "stop"}, AnswerDecision(d, answer) PROVE Quiet
    <3>1. runs' = runs
      BY <1>1, <2>3 DEF AnswerDecision
    <3>2. Open' \subseteq Open
      BY <1>1, <2>3 DEF AnswerDecision, Open, Typed, TypeOK, Decision
    <3> QED BY <2>1, <3>1, <3>2
  <2>4. CASE runs' = runs /\ decisions' = decisions
    BY <2>1, <2>4 DEF Open
  <2>5. ASSUME NEW i \in DOMAIN runs, Work(i) PROVE Quiet
    <3>1. decisions' = decisions
      BY <1>1, <2>5 DEF Work, Claim, Prepare, Push, Land, Succeed, Merged, Fail, Stop, Server
    <3>2. CASE Claim(i)
      <4>1. \E e : runs' = [runs EXCEPT ![i] = e]
        BY <2>1, <3>2 DEF Claim
      <4> QED BY <2>2, <3>1, <4>1
    <3>3. CASE Prepare(i) \/ Push(i)
      <4>1. \E e : runs' = [runs EXCEPT ![i] = e]
        BY <2>1, <3>3 DEF Prepare, Push
      <4> QED BY <2>2, <3>1, <4>1
    <3>4. CASE \E deletes \in BOOLEAN : Land(i, deletes)
      <4>1. \E e : runs' = [runs EXCEPT ![i] = e]
        BY <2>1, <3>4 DEF Land
      <4> QED BY <2>2, <3>1, <4>1
    <3>5. CASE Merged(i) \/ Fail(i) \/ Stop(i)
      BY <2>2, <3>1, <3>5 DEF Merged, Fail, Stop
    <3>6. CASE \E verdict \in Verdict : Succeed(i, verdict)
      BY <1>1, <2>2, <3>1, <3>6 DEF Succeed
    <3> QED BY <2>5, <3>2, <3>3, <3>4, <3>5, <3>6 DEF Work
  <2> QED
    BY <1>1, StepCases, <2>3, <2>4, <2>5
       DEF UpdateTask, UpdateProject, PersonPushes, Pipeline, Work, vars
<1>2. ASSUME Typed, [Next]_vars
      PROVE  task \in Closed /\ (Len(runs') > Len(runs) \/ ~(Open' \subseteq Open))
             => \E role \in Team, autorun \in BOOLEAN : CreateRun(role) \/ HandOff(role, autorun)
  BY <1>1, <1>2
<1> QED BY <1>2, TypedAlways, PTL DEF Spec, ClosedTasksRest
-----------------------------------------------------------------------------
(* Whether work is approved hangs on the reviews that succeeded alone.     *)
LEMMA SameReviews ==
  ASSUME NEW old, NEW new,
         Succeeded("review", new) = Succeeded("review", old),
         \A i \in Succeeded("review", old) : /\ new[i].verdict = old[i].verdict
                                             /\ new[i].commit = old[i].commit
  PROVE  Approved(new) <=> Approved(old)
<1> DEFINE S == Succeeded("review", old)
<1>0. S \subseteq DOMAIN old /\ S \subseteq DOMAIN new
  BY DEF Succeeded
<1>1. Approved(old) <=> \E i \in S : Newest(i, S) /\ old[i].verdict = "approve" /\ old[i].commit = head
  BY <1>0, Zenon DEF Approved, Newest
<1>2. Approved(new) <=> \E i \in S : Newest(i, S) /\ new[i].verdict = "approve" /\ new[i].commit = head
  BY <1>0, Zenon DEF Approved, Newest
<1> QED BY <1>1, <1>2, Zenon

(* Unless a review ends, a step leaves them as they are. *)
LEMMA ReviewsRest ==
  ASSUME Typed, History, ~ReviewEnds
  PROVE  Approved(runs') <=> Approved(runs)
<1>1. ASSUME NEW i \in DOMAIN runs
      PROVE  /\ i \in DOMAIN runs'
             /\ runs'[i].kind = runs[i].kind
             /\ runs[i].kind = "review" =>
                  (runs'[i].status = "succeeded" <=> runs[i].status = "succeeded")
             /\ runs[i].status = "succeeded" => /\ runs'[i].verdict = runs[i].verdict
                                                /\ runs'[i].commit = runs[i].commit
  <2>1. i \in DOMAIN runs' /\ RunKept(runs[i], runs'[i])
    BY DEF History
  <2>2. runs[i].status \in Live \cup {"succeeded", "failed"}
    BY ARun DEF Run
  <2> QED BY <2>1, <2>2 DEF RunKept, Live
<1>2. \A i \in DOMAIN runs' \ DOMAIN runs : runs'[i].status = "pending"
  BY DEF History
<1>3. Succeeded("review", runs') = Succeeded("review", runs)
  BY <1>1, <1>2 DEF Succeeded
<1>4. \A i \in Succeeded("review", runs) : /\ runs'[i].verdict = runs[i].verdict
                                           /\ runs'[i].commit = runs[i].commit
  BY <1>1 DEF Succeeded
<1> QED BY <1>3, <1>4, SameReviews

(* Nor does what Follow queues. *)
LEMMA FollowedReviews ==
  ASSUME Typed, NEW rs \in Seq(Run), NEW c \in 0..MaxCommits, NEW todo, Follow(todo, rs, c)
  PROVE  Approved(runs') <=> Approved(rs)
<1>1. /\ DOMAIN rs \subseteq DOMAIN runs'
      /\ \A i \in DOMAIN rs : runs'[i] = rs[i]
      /\ \A i \in DOMAIN runs' \ DOMAIN rs : todo \in Kind /\ runs'[i] = NewRun(todo, c)
  BY Followed DEF Typed, TypeOK
<1>2. \A i \in DOMAIN runs' \ DOMAIN rs : runs'[i].status = "pending"
  <2>1. NewRun(todo, c).status = "pending"
    BY DEF NewRun
  <2> QED BY <1>1, <2>1
<1>3. Succeeded("review", runs') = Succeeded("review", rs)
  BY <1>1, <1>2 DEF Succeeded
<1>4. \A i \in Succeeded("review", rs) : runs'[i] = rs[i]
  BY <1>1 DEF Succeeded
<1> QED BY <1>3, <1>4, SameReviews

(* When work is approved and its CI has passed, a merge is under way or    *)
(* queued, or people are asked.                                            *)
LEMMA TakenUp ==
  ASSUME Typed, NEW rs \in Seq(Run), NEW results, Follow(TryMerge(rs, results), rs, head),
         ~merged, branch # 0, Approved(rs), CIState(results, head) = "success"
  PROVE  Unfinished("merge", runs') \/ Open' # {}
<1> DEFINE todo == TryMerge(rs, results)
<1>0. /\ head \in 0..MaxCommits /\ decisions \subseteq Decision
      /\ task \in {"open", "in_progress"} \cup Closed
      /\ Follow(todo, rs, head)
  BY DEF Typed, TypeOK
<1>1. CASE Unfinished("merge", rs)
  <2>1. /\ DOMAIN rs \subseteq DOMAIN runs'
        /\ \A i \in DOMAIN rs : runs'[i] = rs[i]
    BY <1>0, Followed
  <2> QED BY <1>1, <2>1 DEF Unfinished
<1>2. CASE ~Unfinished("merge", rs) /\ policy = "approval"
  <2>1. todo = "ask"
    BY <1>2 DEF TryMerge
  <2> HIDE DEF todo
  <2>2. Open = {} => [commit |-> head, answer |-> "open"] \in decisions'
    BY <1>0, <2>1 DEF Follow, Kind
  <2>3. decisions \subseteq decisions'
    BY <1>0 DEF Follow
  <2> QED BY <2>2, <2>3 DEF Open
<1>3. CASE ~Unfinished("merge", rs) /\ policy # "approval"
  <2>1. todo = "merge"
    BY <1>3 DEF TryMerge
  <2> HIDE DEF todo
  <2>2. runs' = Append(rs, NewRun("merge", head)) /\ NewRun("merge", head) \in Run
    BY <1>0, <2>1, NewRunIsARun DEF Follow, Kind
  <2>3. Len(rs) + 1 \in DOMAIN runs' /\ runs'[Len(rs) + 1] = NewRun("merge", head)
    BY <2>2, AppendProperties, LenProperties
  <2>4. NewRun("merge", head).kind = "merge" /\ NewRun("merge", head).status \in Live
    BY DEF NewRun, Live
  <2> QED BY <2>3, <2>4 DEF Unfinished
<1> QED BY <1>1, <1>2, <1>3

(* A result that is not a success does not make CI pass. *)
LEMMA OnlySuccessPasses ==
  ASSUME Typed, NEW c \in Commits, NEW k \in Checks, NEW result \in {"pending", "failure"},
         ci' = [ci EXCEPT ![c][k] = result], CIState(ci', head) = "success", head \in Commits
  PROVE  CIState(ci, head) = "success"
<1> DEFINE now  == {ci[head][x] : x \in Checks} \ {"none"}
           then == {ci'[head][x] : x \in Checks} \ {"none"}
<1>1. ci'[c][k] = result /\ \A d \in Commits \ {c} : ci'[d] = ci[d]
  BY DEF Typed, TypeOK
<1>2. ci' # NoResults
  BY <1>1 DEF NoResults
<1>3. then # {} /\ "failure" \notin then /\ "pending" \notin then
  BY <1>2 DEF CIState
<1>4. head # c
  BY <1>1, <1>3
<1>5. now = then
  BY <1>1, <1>4
<1>6. ci # NoResults
  BY <1>3, <1>5 DEF NoResults
<1> QED BY <1>3, <1>5, <1>6 DEF CIState

(* A step after which a Task has just become ready for its merge leaves a  *)
(* merge or a question.                                                    *)
LEMMA ReadyStep ==
  ASSUME Typed, Typed', [Next]_vars, ~Ready, Ready', UNCHANGED <<task, head, settings>>
  PROVE  Unfinished("merge", runs') \/ Open' # {}
<1>1. History
  BY StepHistory
<1>2. /\ autoRun /\ task \notin Closed /\ ~merged /\ branch # 0 /\ head \in Commits
      /\ Approved(runs') /\ CIState(ci', head) = "success"
  <2>1. autoRun /\ task \notin Closed /\ ~merged' /\ branch' # 0
    BY DEF Ready, settings
  <2>2. Approved(runs') /\ CIState(ci', head) = "success"
    BY DEF Ready, Approved
  <2>3. ~merged
    BY <1>1, <2>1 DEF History
  <2>4. branch # 0 /\ head \in Commits
    BY <2>1, Bounds DEF Typed, Sound, TypeOK, Commits
  <2> QED BY <2>1, <2>2, <2>3, <2>4
<1>3. ~ (Approved(runs) /\ CIState(ci, head) = "success")
  BY <1>2 DEF Ready
<1>4. CASE ReviewEnds
  <2>1. PICK i \in DOMAIN runs, verdict \in Verdict : runs[i].kind = "review" /\ Succeed(i, verdict)
    BY <1>4 DEF ReviewEnds
  <2> DEFINE r  == Ended(i, "succeeded", verdict)
             rs == [runs EXCEPT ![i] = r]
             todo == Advance(r, rs, branch')
  <2>2. runs[i] \in Run /\ branch # 0
    BY <1>2, ARun
  <2>3. r \in Run
    BY <2>2, EndedTyped
  <2>4. /\ r.kind = "review" /\ r.verdict = verdict
        /\ r.branch = 0
    <3>1. /\ r.kind = runs[i].kind /\ r.verdict = verdict
          /\ r.branch # 0 => runs[i].kind = "build"
      BY EndedFields
    <3> HIDE DEF r
    <3> QED BY <2>1, <3>1
  <2>5. /\ rs \in Seq(Run) /\ DOMAIN rs = DOMAIN runs
        /\ rs[i] = r /\ \A j \in DOMAIN runs \ {i} : rs[j] = runs[j]
    BY <2>3, Replaced DEF Typed, TypeOK
  <2>6. Follow(todo, rs, head) /\ ci' = ci
    BY <1>2, <2>1 DEF Succeed
  <2>7. Approved(rs)
    <3>1. head \in 0..MaxCommits
      BY DEF Typed, TypeOK
    <3> HIDE DEF todo, rs
    <3> QED BY <1>2, <2>5, <2>6, <3>1, FollowedReviews
  <2> HIDE DEF r, rs
  <2>8. CASE verdict = "approve"
    <3>1. todo = TryMerge(rs, ci)
      BY <2>4, <2>8 DEF Advance
    <3>2. Follow(TryMerge(rs, ci), rs, head) /\ CIState(ci, head) = "success"
      BY <1>2, <2>6, <3>1
    <3> QED BY <1>2, <2>5, <2>7, <3>2, TakenUp
  <2>9. CASE verdict # "approve"
    <3>1. PICK j \in DOMAIN rs : /\ Newest(j, Succeeded("review", rs))
                                 /\ rs[j].verdict = "approve" /\ rs[j].commit = head
      BY <2>7 DEF Approved
    <3>2. j # i /\ rs[j] = runs[j]
      BY <2>4, <2>5, <2>9, <3>1
    <3>3. Succeeded("review", runs) \subseteq Succeeded("review", rs)
      <4>1. runs[i].status = "running"
        BY <2>1 DEF Succeed
      <4> QED BY <2>5, <4>1 DEF Succeeded
    <3>4. Newest(j, Succeeded("review", runs))
      BY <2>5, <3>1, <3>2, <3>3 DEF Newest, Succeeded
    <3>5. Approved(runs)
      BY <2>5, <3>1, <3>2, <3>4 DEF Approved
    <3> QED BY <1>2, <1>3, <2>6, <3>5
  <2> QED BY <2>8, <2>9
<1>5. CASE ~ReviewEnds /\ ci' # ci
  <2>1. PICK c \in Commits, k \in Checks, result \in {"pending", "success", "failure"} :
          Pipeline(c, k, result)
    BY <1>5, StepCases
       DEF CreateRun, HandOff, UpdateTask, UpdateProject, AnswerDecision, PersonPushes, Claim, Prepare,
           Push, Land, Succeed, Merged, Fail, Stop, Server, vars
  <2>2. Approved(runs)
    BY <1>1, <1>2, <1>5, ReviewsRest
  <2>3. result = "success"
    <3>1. ci' = [ci EXCEPT ![c][k] = result]
      BY <2>1 DEF Pipeline
    <3> QED BY <1>2, <1>3, <2>2, <3>1, OnlySuccessPasses
  <2>4. Follow(TryMerge(runs, ci'), runs, head)
    BY <1>2, <2>1, <2>3 DEF Pipeline
  <2>5. runs \in Seq(Run)
    BY DEF Typed, TypeOK
  <2> QED BY <1>2, <2>2, <2>4, <2>5, TakenUp
<1>6. CASE ~ReviewEnds /\ ci' = ci
  BY <1>1, <1>2, <1>3, <1>6, ReviewsRest
<1> QED BY <1>4, <1>5, <1>6

(* When the last thing an open Task's merge waited for arrives, the merge  *)
(* is queued or people are asked, whichever handler sees it arrive.        *)
THEOREM ReadyWorkIsNotLeft == Spec => ReadyWorkIsTakenUp
<1>1. ASSUME Typed, Typed', [Next]_vars
      PROVE  ~Ready /\ Ready' /\ UNCHANGED <<task, head, settings>>
             => Unfinished("merge", runs') \/ Open' # {}
  BY <1>1, ReadyStep
<1> QED BY <1>1, TypedAlways, PTL DEF Spec, ReadyWorkIsTakenUp
=============================================================================
