--------------------------- MODULE RunQueueProofs ---------------------------
(***************************************************************************)
(* Theorems about RunQueue, for any number of Runs, slots, agents, Bots,   *)
(* Projects and questions.                                                 *)
(***************************************************************************)
EXTENDS RunQueue, FiniteSetTheorems, TLAPS

(* Every step is one of these.  Proofs by cases on a step use this list. *)
LEMMA StepCases ==
  ASSUME [Next]_vars
  PROVE  \/ \E r \in Runs, p \in Projects, b \in Bots \cup {NoBot} : Enqueue(r, p, b)
         \/ \E r \in Runs : Cancel(r)
         \/ \E p \in Projects, n \in Limits, arch \in BOOLEAN : UpdateProject(p, n, arch)
         \/ \E b \in Bots : RemoveMember(b)
         \/ \E q \in Questions : AnswerDecision(q)
         \/ \E s \in Slots :
              \/ Connect(s) \/ NothingFound(s) \/ ClaimRun(s) \/ ProjectLoad(s)
              \/ OverLimit(s) \/ AbortClaim(s) \/ Heartbeat(s) \/ Stopped(s)
              \/ StopReporting(s)
              \/ \E told \in BOOLEAN : CommitClaim(s, told)
              \/ \E q \in Questions : AskPermission(s, q)
              \/ \E next \in Outcomes : SendReport(s, next)
         \/ \E w \in Workers : Crash(w)
         \/ \E m \in reports : ReportRun(m)
         \/ \E r \in Runs : LeaseOut(r)
         \/ \E dead \in SUBSET Runs : ReapRuns(dead)
         \/ UNCHANGED vars
BY DEF Next, People, Agent, Server

-----------------------------------------------------------------------------
(* TypeOK is not inductive alone: an outcome is reported for the Run in    *)
(* hand, so a slot at work must have one.                                  *)
Handed == \A s \in Slots : hand[s] \in Runs <=> phase[s] \in Claiming \cup AtWork
Typed  == TypeOK /\ Handed

(* The types hold throughout. *)
LEMMA TypedAlways == Spec => []Typed
<1> USE Names DEF Typed, Handed, TypeOK, Status, Live, Finished, Phase,
                  Claiming, AtWork, Report, Outcomes
<1>1. Init => Typed
  BY DEF Init
<1>2. Typed /\ [Next]_vars => Typed'
  <2> SUFFICES ASSUME Typed, [Next]_vars PROVE Typed'
    OBVIOUS
  <2>1. ASSUME NEW r \in Runs, NEW p \in Projects, NEW b \in Bots \cup {NoBot},
               Enqueue(r, p, b)
        PROVE  Typed'
    BY <2>1 DEF Enqueue
  <2>2. ASSUME NEW r \in Runs, Cancel(r)
        PROVE  Typed'
    BY <2>2 DEF Cancel, CloseQuestions
  <2>3. ASSUME NEW p \in Projects, NEW n \in Limits, NEW arch \in BOOLEAN,
               UpdateProject(p, n, arch)
        PROVE  Typed'
    BY <2>3 DEF UpdateProject
  <2>4. ASSUME NEW b \in Bots, RemoveMember(b)
        PROVE  Typed'
    BY <2>4 DEF RemoveMember, CloseQuestions
  <2>5. ASSUME NEW q \in Questions, AnswerDecision(q)
        PROVE  Typed'
    BY <2>5 DEF AnswerDecision
  <2>6. ASSUME NEW s \in Slots, \/ Connect(s) \/ NothingFound(s) \/ ProjectLoad(s)
                                \/ OverLimit(s) \/ AbortClaim(s) \/ Stopped(s)
                                \/ StopReporting(s)
        PROVE  Typed'
    BY <2>6 DEF Connect, NothingFound, ProjectLoad, OverLimit, AbortClaim,
                Stopped, StopReporting, Serving
  <2>7. ASSUME NEW s \in Slots, ClaimRun(s)
        PROVE  Typed'
    BY <2>7 DEF ClaimRun, Claimable, Serving
  <2>8. ASSUME NEW s \in Slots, NEW told \in BOOLEAN, CommitClaim(s, told)
        PROVE  Typed'
    BY <2>8 DEF CommitClaim
  <2>9. ASSUME NEW s \in Slots, Heartbeat(s)
        PROVE  Typed'
    BY <2>9 DEF Heartbeat
  <2>10. ASSUME NEW s \in Slots, NEW q \in Questions, AskPermission(s, q)
        PROVE  Typed'
    BY <2>10 DEF AskPermission
  <2>11. ASSUME NEW s \in Slots, NEW next \in Outcomes, SendReport(s, next)
        PROVE  Typed'
    BY <2>11 DEF SendReport
  <2>12. ASSUME NEW w \in Workers, Crash(w)
        PROVE  Typed'
    BY <2>12 DEF Crash, Serving
  <2>13. ASSUME NEW m \in reports, ReportRun(m)
        PROVE  Typed'
    BY <2>13 DEF ReportRun, CloseQuestions
  <2>14. ASSUME NEW r \in Runs, LeaseOut(r)
        PROVE  Typed'
    BY <2>14 DEF LeaseOut
  <2>15. ASSUME NEW dead \in SUBSET Runs, ReapRuns(dead)
        PROVE  Typed'
    BY <2>15 DEF ReapRuns, Expired, CloseQuestions
  <2>16. CASE UNCHANGED vars
    BY <2>16 DEF vars
  <2> HIDE DEF Typed
  <2>17. QED
    BY StepCases, <2>1, <2>2, <2>3, <2>4, <2>5, <2>6, <2>7, <2>8, <2>9, <2>10,
       <2>11, <2>12, <2>13, <2>14, <2>15, <2>16
<1>3. QED
  BY <1>1, <1>2, PTL DEF Spec

(* Every variable of every reachable state has its type. *)
THEOREM TypeCorrect == Spec => []TypeOK
BY TypedAlways, PTL DEF Typed
-----------------------------------------------------------------------------
(* Who has which Run.  OneWorkerPerRun is inductive once it is known that  *)
(* a Run being claimed is still pending and one being worked on is not,    *)
(* so that a row no claim holds is in nobody's hand, and that a Run has no *)
(* worker before it starts, so that no late report reaches one.            *)
Hands ==
  /\ OneWorkerPerRun
  /\ \A s \in Slots : /\ phase[s] \in Claiming => status[hand[s]] = "pending"
                      /\ phase[s] \in AtWork => status[hand[s]] \notin {"unborn", "pending"}
  /\ \A r \in Runs : status[r] \in {"unborn", "pending"} => worker[r] = NoWorker

(* Slots and Runs go together throughout. *)
LEMMA HandsAlways == Spec => []Hands
<1> USE Names DEF Typed, Handed, TypeOK, Hands, OneWorkerPerRun, Owns, Status,
                  Live, Finished, CanBecome, Phase, Claiming, AtWork, Report, Outcomes
<1>1. Init => Hands
  BY DEF Init
<1>2. Typed /\ Hands /\ [Next]_vars => Hands'
  <2> SUFFICES ASSUME Typed, Hands, [Next]_vars PROVE Hands'
    OBVIOUS
  <2>1. ASSUME NEW r \in Runs, NEW p \in Projects, NEW b \in Bots \cup {NoBot},
               Enqueue(r, p, b)
        PROVE  Hands'
    BY <2>1 DEF Enqueue
  <2>2. ASSUME NEW r \in Runs, Cancel(r)
        PROVE  Hands'
    BY <2>2 DEF Cancel, CloseQuestions, RunLocked
  <2>3. ASSUME NEW p \in Projects, NEW n \in Limits, NEW arch \in BOOLEAN,
               UpdateProject(p, n, arch)
        PROVE  Hands'
    BY <2>3 DEF UpdateProject
  <2>4. ASSUME NEW b \in Bots, RemoveMember(b)
        PROVE  Hands'
    BY <2>4 DEF RemoveMember, CloseQuestions, RunLocked, BotRuns
  <2>5. ASSUME NEW q \in Questions, AnswerDecision(q)
        PROVE  Hands'
    BY <2>5 DEF AnswerDecision
  <2>6. ASSUME NEW s \in Slots, \/ Connect(s) \/ NothingFound(s) \/ ProjectLoad(s)
                                \/ OverLimit(s) \/ AbortClaim(s) \/ Stopped(s)
                                \/ StopReporting(s)
        PROVE  Hands'
    BY <2>6 DEF Connect, NothingFound, ProjectLoad, OverLimit, AbortClaim,
                Stopped, StopReporting, Serving
  <2>7. ASSUME NEW s \in Slots, ClaimRun(s)
        PROVE  Hands'
    BY <2>7 DEF ClaimRun, Claimable, Serving, RunLocked
  <2>8. ASSUME NEW s \in Slots, NEW told \in BOOLEAN, CommitClaim(s, told)
        PROVE  Hands'
    BY <2>8 DEF CommitClaim
  <2>9. ASSUME NEW s \in Slots, Heartbeat(s)
        PROVE  Hands'
    BY <2>9 DEF Heartbeat
  <2>10. ASSUME NEW s \in Slots, NEW q \in Questions, AskPermission(s, q)
        PROVE  Hands'
    BY <2>10 DEF AskPermission
  <2>11. ASSUME NEW s \in Slots, NEW next \in Outcomes, SendReport(s, next)
        PROVE  Hands'
    BY <2>11 DEF SendReport
  <2>12. ASSUME NEW w \in Workers, Crash(w)
        PROVE  Hands'
    BY <2>12 DEF Crash, Serving
  <2>13. ASSUME NEW m \in reports, ReportRun(m)
        PROVE  Hands'
    BY <2>13 DEF ReportRun, CloseQuestions
  <2>14. ASSUME NEW r \in Runs, LeaseOut(r)
        PROVE  Hands'
    BY <2>14 DEF LeaseOut
  <2>15. ASSUME NEW dead \in SUBSET Runs, ReapRuns(dead)
        PROVE  Hands'
    BY <2>15 DEF ReapRuns, Expired, CloseQuestions
  <2>16. CASE UNCHANGED vars
    BY <2>16 DEF vars
  <2> HIDE DEF Hands
  <2>17. QED
    BY StepCases, <2>1, <2>2, <2>3, <2>4, <2>5, <2>6, <2>7, <2>8, <2>9, <2>10,
       <2>11, <2>12, <2>13, <2>14, <2>15, <2>16
<1>3. QED
  BY <1>1, <1>2, TypedAlways, PTL DEF Spec
-----------------------------------------------------------------------------
(* The reaper can find every Run whose worker is gone: a running Run has a *)
(* lease to run out (ReapRuns passes over a Run that has none), and a Run  *)
(* that ended has none left.                                               *)
THEOREM LeasesFollowRuns == Spec => []LeasedWhileRunning
<1> USE DEF Typed, Handed, TypeOK, Hands, Status, Live, Finished, CanBecome, Phase,
            Claiming, AtWork, Report, Outcomes, LeasedWhileRunning
<1>1. Init => LeasedWhileRunning
  BY DEF Init
<1>2. Typed /\ Hands /\ LeasedWhileRunning /\ [Next]_vars => LeasedWhileRunning'
  <2> SUFFICES ASSUME Typed, Hands, LeasedWhileRunning, [Next]_vars
               PROVE  LeasedWhileRunning'
    OBVIOUS
  <2>1. ASSUME NEW r \in Runs, NEW p \in Projects, NEW b \in Bots \cup {NoBot},
               Enqueue(r, p, b)
        PROVE  LeasedWhileRunning'
    BY <2>1 DEF Enqueue
  <2>2. ASSUME NEW r \in Runs, Cancel(r)
        PROVE  LeasedWhileRunning'
    BY <2>2 DEF Cancel, CloseQuestions
  <2>3. ASSUME NEW p \in Projects, NEW n \in Limits, NEW arch \in BOOLEAN,
               UpdateProject(p, n, arch)
        PROVE  LeasedWhileRunning'
    BY <2>3 DEF UpdateProject
  <2>4. ASSUME NEW b \in Bots, RemoveMember(b)
        PROVE  LeasedWhileRunning'
    BY <2>4 DEF RemoveMember, CloseQuestions, BotRuns
  <2>5. ASSUME NEW q \in Questions, AnswerDecision(q)
        PROVE  LeasedWhileRunning'
    BY <2>5 DEF AnswerDecision
  <2>6. ASSUME NEW s \in Slots, \/ Connect(s) \/ NothingFound(s) \/ ProjectLoad(s)
                                \/ OverLimit(s) \/ AbortClaim(s) \/ Stopped(s)
                                \/ StopReporting(s)
        PROVE  LeasedWhileRunning'
    BY <2>6 DEF Connect, NothingFound, ProjectLoad, OverLimit, AbortClaim,
                Stopped, StopReporting, Serving
  <2>7. ASSUME NEW s \in Slots, ClaimRun(s)
        PROVE  LeasedWhileRunning'
    BY <2>7 DEF ClaimRun, Claimable, Serving
  <2>8. ASSUME NEW s \in Slots, NEW told \in BOOLEAN, CommitClaim(s, told)
        PROVE  LeasedWhileRunning'
    BY <2>8 DEF CommitClaim
  <2>9. ASSUME NEW s \in Slots, Heartbeat(s)
        PROVE  LeasedWhileRunning'
    BY <2>9 DEF Heartbeat
  <2>10. ASSUME NEW s \in Slots, NEW q \in Questions, AskPermission(s, q)
        PROVE  LeasedWhileRunning'
    BY <2>10 DEF AskPermission
  <2>11. ASSUME NEW s \in Slots, NEW next \in Outcomes, SendReport(s, next)
        PROVE  LeasedWhileRunning'
    BY <2>11 DEF SendReport
  <2>12. ASSUME NEW w \in Workers, Crash(w)
        PROVE  LeasedWhileRunning'
    BY <2>12 DEF Crash, Serving
  <2>13. ASSUME NEW m \in reports, ReportRun(m)
        PROVE  LeasedWhileRunning'
    BY <2>13 DEF ReportRun, CloseQuestions
  <2>14. ASSUME NEW r \in Runs, LeaseOut(r)
        PROVE  LeasedWhileRunning'
    BY <2>14 DEF LeaseOut
  <2>15. ASSUME NEW dead \in SUBSET Runs, ReapRuns(dead)
        PROVE  LeasedWhileRunning'
    BY <2>15 DEF ReapRuns, Expired, CloseQuestions
  <2>16. CASE UNCHANGED vars
    BY <2>16 DEF vars
  <2> HIDE DEF LeasedWhileRunning
  <2>17. QED
    BY StepCases, <2>1, <2>2, <2>3, <2>4, <2>5, <2>6, <2>7, <2>8, <2>9, <2>10,
       <2>11, <2>12, <2>13, <2>14, <2>15, <2>16
<1>3. QED
  BY <1>1, <1>2, TypedAlways, HandsAlways, PTL DEF Spec

-----------------------------------------------------------------------------
(* An open question belongs to a Run, and that Run is running. *)
Asked == \A q \in Questions : answer[q] # "unasked" => asked[q] \in Runs

(* Questions belong to Runs that go on, throughout. *)
LEMMA QuestionsAlways == Spec => [](Asked /\ NoQuestionOutlivesItsRun)
<1> USE DEF Typed, Handed, TypeOK, Hands, Status, Live, Finished, CanBecome, Phase,
            Claiming, AtWork, Report, Outcomes, Asked, NoQuestionOutlivesItsRun
<1>1. Init => Asked /\ NoQuestionOutlivesItsRun
  BY DEF Init
<1> DEFINE Inv == Asked /\ NoQuestionOutlivesItsRun
<1>2. Typed /\ Hands /\ Inv /\ [Next]_vars => Inv'
  <2> SUFFICES ASSUME Typed, Hands, Inv, [Next]_vars PROVE Inv'
    OBVIOUS
  <2>1. ASSUME NEW r \in Runs, NEW p \in Projects, NEW b \in Bots \cup {NoBot},
               Enqueue(r, p, b)
        PROVE  Inv'
    BY <2>1 DEF Enqueue
  <2>2. ASSUME NEW r \in Runs, Cancel(r)
        PROVE  Inv'
    BY <2>2 DEF Cancel, CloseQuestions
  <2>3. ASSUME NEW p \in Projects, NEW n \in Limits, NEW arch \in BOOLEAN,
               UpdateProject(p, n, arch)
        PROVE  Inv'
    BY <2>3 DEF UpdateProject
  <2>4. ASSUME NEW b \in Bots, RemoveMember(b)
        PROVE  Inv'
    BY <2>4 DEF RemoveMember, CloseQuestions, BotRuns
  <2>5. ASSUME NEW q \in Questions, AnswerDecision(q)
        PROVE  Inv'
    BY <2>5 DEF AnswerDecision
  <2>6. ASSUME NEW s \in Slots, \/ Connect(s) \/ NothingFound(s) \/ ProjectLoad(s)
                                \/ OverLimit(s) \/ AbortClaim(s) \/ Stopped(s)
                                \/ StopReporting(s)
        PROVE  Inv'
    BY <2>6 DEF Connect, NothingFound, ProjectLoad, OverLimit, AbortClaim,
                Stopped, StopReporting, Serving
  <2>7. ASSUME NEW s \in Slots, ClaimRun(s)
        PROVE  Inv'
    BY <2>7 DEF ClaimRun, Claimable, Serving
  <2>8. ASSUME NEW s \in Slots, NEW told \in BOOLEAN, CommitClaim(s, told)
        PROVE  Inv'
    BY <2>8 DEF CommitClaim
  <2>9. ASSUME NEW s \in Slots, Heartbeat(s)
        PROVE  Inv'
    BY <2>9 DEF Heartbeat
  <2>10. ASSUME NEW s \in Slots, NEW q \in Questions, AskPermission(s, q)
        PROVE  Inv'
    BY <2>10 DEF AskPermission
  <2>11. ASSUME NEW s \in Slots, NEW next \in Outcomes, SendReport(s, next)
        PROVE  Inv'
    BY <2>11 DEF SendReport
  <2>12. ASSUME NEW w \in Workers, Crash(w)
        PROVE  Inv'
    BY <2>12 DEF Crash, Serving
  <2>13. ASSUME NEW m \in reports, ReportRun(m)
        PROVE  Inv'
    BY <2>13 DEF ReportRun, CloseQuestions
  <2>14. ASSUME NEW r \in Runs, LeaseOut(r)
        PROVE  Inv'
    BY <2>14 DEF LeaseOut
  <2>15. ASSUME NEW dead \in SUBSET Runs, ReapRuns(dead)
        PROVE  Inv'
    BY <2>15 DEF ReapRuns, Expired, CloseQuestions
  <2>16. CASE UNCHANGED vars
    BY <2>16 DEF vars
  <2> HIDE DEF Inv
  <2>17. QED
    BY StepCases, <2>1, <2>2, <2>3, <2>4, <2>5, <2>6, <2>7, <2>8, <2>9, <2>10,
       <2>11, <2>12, <2>13, <2>14, <2>15, <2>16
<1>3. QED
  BY <1>1, <1>2, TypedAlways, HandsAlways, PTL DEF Spec

(* Whatever ends a Run (its worker, a person, the reaper, its Bot's        *)
(* removal) closes its permission questions, and a request that comes late *)
(* opens none.                                                             *)
THEOREM QuestionsEndWithRuns == Spec => []NoQuestionOutlivesItsRun
BY QuestionsAlways, PTL

(* No two slots ever have the same Run, and a slot works only on a Run it  *)
(* is the worker of.                                                       *)
THEOREM RunsHaveOneWorker == Spec => []OneWorkerPerRun
BY HandsAlways, PTL DEF Hands
-----------------------------------------------------------------------------
(* The count of running Runs that a claim makes under its Project's lock.  *)
LEMMA BusyIsNat ==
  ASSUME NEW p
  PROVE  /\ IsFiniteSet(Going(p)) /\ IsFiniteSet(Going(p)')
         /\ Busy(p) \in Nat /\ Busy(p)' \in Nat
<1>1. IsFiniteSet(Going(p)) /\ IsFiniteSet(Going(p)')
  BY RunsAreNumbers, FS_Subset DEF Going
<1>2. QED
  BY <1>1, FS_CardinalityType DEF Busy

(* A Project with fewer Runs is no busier. *)
LEMMA BusyShrinks ==
  ASSUME NEW p, Going(p)' \subseteq Going(p)
  PROVE  Busy(p)' <= Busy(p)
BY BusyIsNat, FS_Subset DEF Busy

(* Only a claim that commits starts a Run. *)
LEMMA OnlyClaimsStart ==
  ASSUME Typed, [Next]_vars, ~ \E s \in Slots, told \in BOOLEAN : CommitClaim(s, told),
         NEW p
  PROVE  Going(p)' \subseteq Going(p)
<1> USE DEF Typed, TypeOK, Going, Status, Live, Finished, CanBecome, Report, Outcomes
<1>1. ASSUME NEW r \in Runs, NEW pp \in Projects, NEW b \in Bots \cup {NoBot},
               Enqueue(r, pp, b)
      PROVE  Going(p)' \subseteq Going(p)
  BY <1>1 DEF Enqueue
<1>2. ASSUME NEW r \in Runs, Cancel(r)
      PROVE  Going(p)' \subseteq Going(p)
  BY <1>2 DEF Cancel, CloseQuestions
<1>3. ASSUME NEW pp \in Projects, NEW n \in Limits, NEW arch \in BOOLEAN,
               UpdateProject(pp, n, arch)
      PROVE  Going(p)' \subseteq Going(p)
  BY <1>3 DEF UpdateProject
<1>4. ASSUME NEW b \in Bots, RemoveMember(b)
      PROVE  Going(p)' \subseteq Going(p)
  BY <1>4 DEF RemoveMember, CloseQuestions, BotRuns
<1>5. ASSUME NEW q \in Questions, AnswerDecision(q)
      PROVE  Going(p)' \subseteq Going(p)
  BY <1>5 DEF AnswerDecision
<1>6. ASSUME NEW s \in Slots, \/ Connect(s) \/ NothingFound(s) \/ ProjectLoad(s)
                                \/ OverLimit(s) \/ AbortClaim(s) \/ Stopped(s)
                                \/ StopReporting(s)
      PROVE  Going(p)' \subseteq Going(p)
  BY <1>6 DEF Connect, NothingFound, ProjectLoad, OverLimit, AbortClaim,
                Stopped, StopReporting, Serving
<1>7. ASSUME NEW s \in Slots, ClaimRun(s)
      PROVE  Going(p)' \subseteq Going(p)
  BY <1>7 DEF ClaimRun, Claimable, Serving
<1>8. ASSUME NEW s \in Slots, NEW told \in BOOLEAN, CommitClaim(s, told)
      PROVE  Going(p)' \subseteq Going(p)
  BY <1>8
<1>9. ASSUME NEW s \in Slots, Heartbeat(s)
      PROVE  Going(p)' \subseteq Going(p)
  BY <1>9 DEF Heartbeat
<1>10. ASSUME NEW s \in Slots, NEW q \in Questions, AskPermission(s, q)
      PROVE  Going(p)' \subseteq Going(p)
  BY <1>10 DEF AskPermission
<1>11. ASSUME NEW s \in Slots, NEW next \in Outcomes, SendReport(s, next)
      PROVE  Going(p)' \subseteq Going(p)
  BY <1>11 DEF SendReport
<1>12. ASSUME NEW w \in Workers, Crash(w)
      PROVE  Going(p)' \subseteq Going(p)
  BY <1>12 DEF Crash, Serving
<1>13. ASSUME NEW m \in reports, ReportRun(m)
      PROVE  Going(p)' \subseteq Going(p)
  BY <1>13 DEF ReportRun, CloseQuestions
<1>14. ASSUME NEW r \in Runs, LeaseOut(r)
      PROVE  Going(p)' \subseteq Going(p)
  BY <1>14 DEF LeaseOut
<1>15. ASSUME NEW dead \in SUBSET Runs, ReapRuns(dead)
      PROVE  Going(p)' \subseteq Going(p)
  BY <1>15 DEF ReapRuns, Expired, CloseQuestions
<1>16. CASE UNCHANGED vars
  BY <1>16 DEF vars
<1>17. QED
  BY StepCases, <1>1, <1>2, <1>3, <1>4, <1>5, <1>6, <1>7, <1>8, <1>9, <1>10,
     <1>11, <1>12, <1>13, <1>14, <1>15, <1>16

(* And it starts one, the Run in its hand. *)
LEMMA ClaimStartsOne ==
  ASSUME Typed, Hands, NEW s \in Slots, NEW told \in BOOLEAN, CommitClaim(s, told), NEW p
  PROVE  Busy(p)' = IF p = project[hand[s]] THEN Busy(p) + 1 ELSE Busy(p)
<1> USE DEF Typed, Handed, TypeOK, Hands, Claiming
<1>1. hand[s] \in Runs /\ status[hand[s]] = "pending"
  BY DEF CommitClaim
<1>2. CASE p = project[hand[s]]
  <2>1. Going(p)' = Going(p) \cup {hand[s]} /\ hand[s] \notin Going(p)
    BY <1>1, <1>2 DEF CommitClaim, Going
  <2>2. Cardinality(Going(p) \cup {hand[s]}) = Cardinality(Going(p)) + 1
    BY <2>1, BusyIsNat, FS_AddElement
  <2>3. Busy(p)' = Cardinality(Going(p) \cup {hand[s]})
    BY <2>1 DEF Busy
  <2>4. QED
    BY <1>2, <2>2, <2>3 DEF Busy
<1>3. CASE p # project[hand[s]]
  <2>1. Going(p)' = Going(p)
    BY <1>1, <1>3 DEF CommitClaim, Going
  <2>2. QED
    BY <1>3, <2>1 DEF Busy
<1>4. QED
  BY <1>2, <1>3

(* A claim that holds its Project's row holds it alone, its Run belongs to *)
(* a Project, and the room it counted is still there when it commits: only *)
(* another claim could take it, and people cannot lower the limit without  *)
(* the row.                                                                *)
Queued == \A r \in Runs : status[r] # "unborn" => project[r] \in Projects
LocksApart ==
  \A s, t \in Slots : /\ phase[s] = "loaded" /\ phase[t] = "loaded"
                      /\ project[hand[s]] = project[hand[t]]
                      => s = t
Room == \A s \in Slots :
          phase[s] = "loaded" => RoomFor(project[hand[s]], Busy(project[hand[s]]) + 1)

(* Claims hold their locks throughout. *)
LEMMA LocksAlways == Spec => [](Queued /\ LocksApart)
<1> USE DEF Typed, Handed, TypeOK, Hands, Status, Live, Finished, CanBecome, Phase,
            Claiming, AtWork, Report, Outcomes, Queued,
            LocksApart, ProjectLocked
<1>1. Init => Queued /\ LocksApart
  BY DEF Init
<1> DEFINE Inv == Queued /\ LocksApart
<1>2. Typed /\ Hands /\ Inv /\ [Next]_vars => Inv'
  <2> SUFFICES ASSUME Typed, Hands, Inv, [Next]_vars PROVE Inv'
    OBVIOUS
  <2>1. ASSUME NEW r \in Runs, NEW p \in Projects, NEW b \in Bots \cup {NoBot},
               Enqueue(r, p, b)
        PROVE  Inv'
    BY <2>1 DEF Enqueue
  <2>2. ASSUME NEW r \in Runs, Cancel(r)
        PROVE  Inv'
    BY <2>2 DEF Cancel, CloseQuestions
  <2>3. ASSUME NEW p \in Projects, NEW n \in Limits, NEW arch \in BOOLEAN,
               UpdateProject(p, n, arch)
        PROVE  Inv'
    BY <2>3 DEF UpdateProject
  <2>4. ASSUME NEW b \in Bots, RemoveMember(b)
        PROVE  Inv'
    BY <2>4 DEF RemoveMember, CloseQuestions, BotRuns
  <2>5. ASSUME NEW q \in Questions, AnswerDecision(q)
        PROVE  Inv'
    BY <2>5 DEF AnswerDecision
  <2>6. ASSUME NEW s \in Slots, \/ Connect(s) \/ NothingFound(s) \/ ProjectLoad(s)
                                \/ OverLimit(s) \/ AbortClaim(s) \/ Stopped(s)
                                \/ StopReporting(s)
        PROVE  Inv'
    BY <2>6 DEF Connect, NothingFound, ProjectLoad, OverLimit, AbortClaim,
                Stopped, StopReporting, Serving
  <2>7. ASSUME NEW s \in Slots, ClaimRun(s)
        PROVE  Inv'
    BY <2>7 DEF ClaimRun, Claimable, Serving
  <2>8. ASSUME NEW s \in Slots, NEW told \in BOOLEAN, CommitClaim(s, told)
        PROVE  Inv'
    BY <2>8 DEF CommitClaim
  <2>9. ASSUME NEW s \in Slots, Heartbeat(s)
        PROVE  Inv'
    BY <2>9 DEF Heartbeat
  <2>10. ASSUME NEW s \in Slots, NEW q \in Questions, AskPermission(s, q)
        PROVE  Inv'
    BY <2>10 DEF AskPermission
  <2>11. ASSUME NEW s \in Slots, NEW next \in Outcomes, SendReport(s, next)
        PROVE  Inv'
    BY <2>11 DEF SendReport
  <2>12. ASSUME NEW w \in Workers, Crash(w)
        PROVE  Inv'
    BY <2>12 DEF Crash, Serving
  <2>13. ASSUME NEW m \in reports, ReportRun(m)
        PROVE  Inv'
    BY <2>13 DEF ReportRun, CloseQuestions
  <2>14. ASSUME NEW r \in Runs, LeaseOut(r)
        PROVE  Inv'
    BY <2>14 DEF LeaseOut
  <2>15. ASSUME NEW dead \in SUBSET Runs, ReapRuns(dead)
        PROVE  Inv'
    BY <2>15 DEF ReapRuns, Expired, CloseQuestions
  <2>16. CASE UNCHANGED vars
    BY <2>16 DEF vars
  <2> HIDE DEF Inv
  <2>17. QED
    BY StepCases, <2>1, <2>2, <2>3, <2>4, <2>5, <2>6, <2>7, <2>8, <2>9, <2>10,
       <2>11, <2>12, <2>13, <2>14, <2>15, <2>16
<1>3. QED
  BY <1>1, <1>2, TypedAlways, HandsAlways, PTL DEF Spec

(* A claim's Project has the room it saw, throughout. *)
LEMMA RoomAlways == Spec => []Room
<1> USE DEF Typed, Handed, TypeOK, Claiming, AtWork
<1>1. Init => Room
  BY DEF Init, Room
<1>2. Typed /\ Hands /\ Queued /\ LocksApart /\ Room /\ [Next]_vars => Room'
  <2> SUFFICES ASSUME Typed, Hands, Queued, LocksApart, Room, [Next]_vars,
                      NEW s \in Slots, phase'[s] = "loaded"
               PROVE  RoomFor(project[hand[s]], Busy(project[hand[s]]) + 1)'
    BY DEF Room
  <2> PICK p : p = project[hand[s]]
    OBVIOUS
  (* A claim that holds the row keeps it and its Run, and its limit stands. *)
  <2>1. /\ hand'[s] = hand[s] /\ project'[hand[s]] = p /\ p \in Projects
        /\ limit'[p] = limit[p] /\ RoomFor(p, Busy(p) + 1)
    <3> DEFINE Kept == /\ hand'[s] = hand[s] /\ project'[hand[s]] = p /\ p \in Projects
                       /\ limit'[p] = limit[p] /\ RoomFor(p, Busy(p) + 1)
    <3> USE DEF Hands, Queued, Room, LocksApart, ProjectLocked
    <3>1. ASSUME NEW r \in Runs, NEW pp \in Projects, NEW b \in Bots \cup {NoBot},
               Enqueue(r, pp, b)
          PROVE  Kept
      BY <3>1 DEF Enqueue
    <3>2. ASSUME NEW r \in Runs, Cancel(r)
          PROVE  Kept
      BY <3>2 DEF Cancel, CloseQuestions
    <3>3. ASSUME NEW pp \in Projects, NEW n \in Limits, NEW arch \in BOOLEAN,
               UpdateProject(pp, n, arch)
          PROVE  Kept
      BY <3>3 DEF UpdateProject
    <3>4. ASSUME NEW b \in Bots, RemoveMember(b)
          PROVE  Kept
      BY <3>4 DEF RemoveMember, CloseQuestions, BotRuns
    <3>5. ASSUME NEW q \in Questions, AnswerDecision(q)
          PROVE  Kept
      BY <3>5 DEF AnswerDecision
    <3>6. ASSUME NEW t \in Slots, \/ Connect(t) \/ NothingFound(t) \/ ProjectLoad(t)
                                \/ OverLimit(t) \/ AbortClaim(t) \/ Stopped(t)
                                \/ StopReporting(t)
          PROVE  Kept
      BY <3>6 DEF Connect, NothingFound, ProjectLoad, OverLimit, AbortClaim,
                Stopped, StopReporting, Serving
    <3>7. ASSUME NEW t \in Slots, ClaimRun(t)
          PROVE  Kept
      BY <3>7 DEF ClaimRun, Claimable, Serving
    <3>8. ASSUME NEW t \in Slots, NEW told \in BOOLEAN, CommitClaim(t, told)
          PROVE  Kept
      BY <3>8 DEF CommitClaim
    <3>9. ASSUME NEW t \in Slots, Heartbeat(t)
          PROVE  Kept
      BY <3>9 DEF Heartbeat
    <3>10. ASSUME NEW t \in Slots, NEW q \in Questions, AskPermission(t, q)
          PROVE  Kept
      BY <3>10 DEF AskPermission
    <3>11. ASSUME NEW t \in Slots, NEW next \in Outcomes, SendReport(t, next)
          PROVE  Kept
      BY <3>11 DEF SendReport
    <3>12. ASSUME NEW w \in Workers, Crash(w)
          PROVE  Kept
      BY <3>12 DEF Crash, Serving
    <3>13. ASSUME NEW m \in reports, ReportRun(m)
          PROVE  Kept
      BY <3>13 DEF ReportRun, CloseQuestions
    <3>14. ASSUME NEW r \in Runs, LeaseOut(r)
          PROVE  Kept
      BY <3>14 DEF LeaseOut
    <3>15. ASSUME NEW dead \in SUBSET Runs, ReapRuns(dead)
          PROVE  Kept
      BY <3>15 DEF ReapRuns, Expired, CloseQuestions
    <3>16. CASE UNCHANGED vars
      BY <3>16 DEF vars
    <3>17. QED
      BY StepCases, <3>1, <3>2, <3>3, <3>4, <3>5, <3>6, <3>7, <3>8, <3>9, <3>10,
         <3>11, <3>12, <3>13, <3>14, <3>15, <3>16
  <2>2. Busy(p)' <= Busy(p)
    <3>1. CASE \E t \in Slots, told \in BOOLEAN : CommitClaim(t, told)
      <4>1. PICK t \in Slots, told \in BOOLEAN : CommitClaim(t, told)
        BY <3>1
      <4>2. t # s /\ phase[s] = "loaded" /\ phase[t] = "loaded"
        BY <4>1 DEF CommitClaim
      <4>3. p # project[hand[t]]
        BY <4>2 DEF LocksApart
      <4>4. QED
        BY <4>1, <4>3, ClaimStartsOne, BusyIsNat
    <3>2. CASE ~ \E t \in Slots, told \in BOOLEAN : CommitClaim(t, told)
      BY <3>2, OnlyClaimsStart, BusyShrinks
    <3>3. QED
      BY <3>1, <3>2
  <2>3. limit[p] \in Nat /\ Busy(p) \in Nat /\ Busy(p)' \in Nat
    BY <2>1, LimitsAreNumbers, BusyIsNat
  <2>4. QED
    BY <2>1, <2>2, <2>3 DEF RoomFor
<1>3. QED
  BY <1>1, <1>2, TypedAlways, HandsAlways, LocksAlways, PTL DEF Spec

(* max_runs holds at every claim: the step that makes a Project busier is  *)
(* a claim's commit, and its Project has room for the Run it starts.       *)
THEOREM ClaimsKeepTheLimit == Spec => ClaimsWithinLimit
<1>1. Typed /\ Hands /\ Queued /\ Room /\ [Next]_vars
      => \A p \in Projects : Busy(p)' > Busy(p) => RoomFor(p, Busy(p))'
  <2> SUFFICES ASSUME Typed, Hands, Queued, Room, [Next]_vars,
                      NEW p \in Projects, Busy(p)' > Busy(p)
               PROVE  RoomFor(p, Busy(p))'
    OBVIOUS
  <2>1. PICK s \in Slots, told \in BOOLEAN : CommitClaim(s, told)
    BY OnlyClaimsStart, BusyShrinks, BusyIsNat
  <2>2. Busy(p)' = IF p = project[hand[s]] THEN Busy(p) + 1 ELSE Busy(p)
    BY <2>1, ClaimStartsOne
  <2>3. p = project[hand[s]] /\ Busy(p)' = Busy(p) + 1
    BY <2>2, BusyIsNat
  <2>4. RoomFor(p, Busy(p) + 1) /\ limit' = limit
    BY <2>1, <2>3 DEF CommitClaim, Room
  <2>5. QED
    BY <2>3, <2>4 DEF RoomFor
<1>2. QED
  BY <1>1, TypedAlways, HandsAlways, LocksAlways, RoomAlways, PTL
     DEF Spec, ClaimsWithinLimit
-----------------------------------------------------------------------------
(* The queue implements RunLifecycle: every step starts one Run where its  *)
(* Project has room, ends Runs that had not ended, queues a new one or     *)
(* changes a limit, or is nothing RunLifecycle sees.                       *)
Abstract == Lifecycle!Next \/ UNCHANGED Lifecycle!vars

(* RunQueue implements RunLifecycle. *)
THEOREM QueueImplementsLifecycle == Spec => ImplementsLifecycle
<1>1. Init => Lifecycle!Init
  BY DEF Init, Lifecycle!Init
<1>2. Typed /\ Hands /\ Queued /\ Room /\ [Next]_vars => [Lifecycle!Next]_(Lifecycle!vars)
  <2> SUFFICES ASSUME Typed, Hands, Queued, Room, [Next]_vars PROVE Abstract
    BY DEF Abstract
  <2> USE DEF Typed, TypeOK, Status, Live, Finished, CanBecome, Abstract,
              Lifecycle!Next, Lifecycle!vars
  <2> DEFINE Ends(ending) == Lifecycle!End(ending)
  <2>1. ASSUME NEW r \in Runs, NEW p \in Projects, NEW b \in Bots \cup {NoBot},
               Enqueue(r, p, b)
        PROVE  Abstract
    BY <2>1 DEF Enqueue, Lifecycle!Enqueue
  <2>2. ASSUME NEW r \in Runs, Cancel(r)
        PROVE  Abstract
    <3>1. Ends({r})
      BY <2>2 DEF Cancel, Lifecycle!End, Lifecycle!Status, Lifecycle!Live,
                  Lifecycle!Finished, Lifecycle!CanBecome
    <3>2. QED
      BY <3>1
  <2>3. ASSUME NEW p \in Projects, NEW n \in Limits, NEW arch \in BOOLEAN,
               UpdateProject(p, n, arch)
        PROVE  Abstract
    BY <2>3 DEF UpdateProject, Lifecycle!SetLimit
  <2>4. ASSUME NEW b \in Bots, RemoveMember(b)
        PROVE  Abstract
    <3>1. CASE BotRuns(b) = {}
      BY <2>4, <3>1 DEF RemoveMember
    <3>2. CASE BotRuns(b) # {}
      <4>1. Ends(BotRuns(b))
        BY <2>4, <3>2 DEF RemoveMember, BotRuns, Lifecycle!End, Lifecycle!Status,
                          Lifecycle!Live, Lifecycle!Finished, Lifecycle!CanBecome
      <4>2. BotRuns(b) \in SUBSET Runs
        BY DEF BotRuns
      <4>3. QED
        BY <4>1, <4>2
    <3>3. QED
      BY <3>1, <3>2
  <2>5. ASSUME NEW q \in Questions, AnswerDecision(q)
        PROVE  Abstract
    BY <2>5 DEF AnswerDecision
  <2>6. ASSUME NEW s \in Slots, \/ Connect(s) \/ NothingFound(s) \/ ProjectLoad(s)
                                \/ OverLimit(s) \/ AbortClaim(s) \/ Stopped(s)
                                \/ StopReporting(s)
        PROVE  Abstract
    BY <2>6 DEF Connect, NothingFound, ProjectLoad, OverLimit, AbortClaim,
                Stopped, StopReporting, Serving
  <2>7. ASSUME NEW s \in Slots, ClaimRun(s)
        PROVE  Abstract
    BY <2>7 DEF ClaimRun, Serving
  <2>8. ASSUME NEW s \in Slots, NEW told \in BOOLEAN, CommitClaim(s, told)
        PROVE  Abstract
    <3> DEFINE r == hand[s]
    <3>1. /\ r \in Runs /\ status[r] = "pending" /\ project[r] \in Projects
          /\ RoomFor(project[r], Busy(project[r]) + 1)
      BY <2>8 DEF CommitClaim, Handed, Hands, Queued, Room, Claiming
    <3>2. Lifecycle!HasRoom(project[r])
      <4>1. limit[project[r]] \in Nat /\ Busy(project[r]) \in Nat
        BY <3>1, LimitsAreNumbers, BusyIsNat
      <4>2. limit[project[r]] = 0 \/ Busy(project[r]) < limit[project[r]]
        BY <3>1, <4>1 DEF RoomFor
      (* Cardinality of the instance and of this module are one operator. *)
      <4>3. Lifecycle!HasRoom(project[r])
              <=> limit[project[r]] = 0 \/ Busy(project[r]) < limit[project[r]]
        BY Zenon DEF Lifecycle!HasRoom, Lifecycle!Going, Busy, Going, Lifecycle!Cardinality, Cardinality
      <4>4. QED
        BY <4>2, <4>3
    <3>3. SlotWorker[s] \in Workers
      BY Names
    <3>4. Lifecycle!Start(r, SlotWorker[s])
      BY <2>8, <3>1, <3>2 DEF CommitClaim, Lifecycle!Start
    <3>5. QED
      BY <3>1, <3>3, <3>4
  <2>9. ASSUME NEW s \in Slots, Heartbeat(s)
        PROVE  Abstract
    BY <2>9 DEF Heartbeat
  <2>10. ASSUME NEW s \in Slots, NEW q \in Questions, AskPermission(s, q)
        PROVE  Abstract
    BY <2>10 DEF AskPermission
  <2>11. ASSUME NEW s \in Slots, NEW next \in Outcomes, SendReport(s, next)
        PROVE  Abstract
    BY <2>11 DEF SendReport
  <2>12. ASSUME NEW w \in Workers, Crash(w)
        PROVE  Abstract
    BY <2>12 DEF Crash, Serving
  <2>13. ASSUME NEW m \in reports, ReportRun(m)
        PROVE  Abstract
    <3>1. m.run \in Runs /\ Ends({m.run})
      BY <2>13 DEF ReportRun, Report, Outcomes, Lifecycle!End, Lifecycle!Status,
                   Lifecycle!Live, Lifecycle!Finished, Lifecycle!CanBecome
    <3>2. QED
      BY <3>1
  <2>14. ASSUME NEW r \in Runs, LeaseOut(r)
        PROVE  Abstract
    BY <2>14 DEF LeaseOut
  <2>15. ASSUME NEW dead \in SUBSET Runs, ReapRuns(dead)
        PROVE  Abstract
    <3>1. Ends(dead)
      BY <2>15 DEF ReapRuns, Expired, Lifecycle!End, Lifecycle!Status,
                   Lifecycle!Live, Lifecycle!Finished, Lifecycle!CanBecome
    <3>2. QED
      BY <3>1
  <2>16. CASE UNCHANGED vars
    BY <2>16 DEF vars
  <2> HIDE DEF Abstract
  <2>17. QED
    BY StepCases, <2>1, <2>2, <2>3, <2>4, <2>5, <2>6, <2>7, <2>8, <2>9, <2>10,
       <2>11, <2>12, <2>13, <2>14, <2>15, <2>16
<1>3. QED
  BY <1>1, <1>2, TypedAlways, HandsAlways, LocksAlways, RoomAlways, PTL
     DEF Spec, ImplementsLifecycle, Lifecycle!Spec
=============================================================================
