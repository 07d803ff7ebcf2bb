---------------------------- MODULE RunLifecycle ----------------------------
(***************************************************************************)
(* What the queue of Runs promises, without workers' requests, leases,     *)
(* transactions or locks: a Run is queued once, starts at most once, for   *)
(* one worker and only where its Project has room, and ends once.          *)
(* RunQueue implements this specification.                                 *)
(***************************************************************************)
EXTENDS RunStatus, Integers, FiniteSets

CONSTANTS Runs, Projects, Workers, NoProject, NoWorker,
          Limits  \* the values max_runs may take

VARIABLES
  status,   \* of each Run
  project,  \* the Project of each Run, NoProject before it is queued
  worker,   \* the agent process a Run was given to
  limit     \* max_runs of each Project; 0 is no limit

vars == <<status, project, worker, limit>>

Going(p) == {r \in Runs : project[r] = p /\ status[r] = "running"}
HasRoom(p) == limit[p] = 0 \/ Cardinality(Going(p)) < limit[p]

Init ==
  /\ status = [r \in Runs |-> "unborn"]
  /\ project = [r \in Runs |-> NoProject]
  /\ worker = [r \in Runs |-> NoWorker]
  /\ limit \in [Projects -> Limits]

Enqueue(r, p) ==
  /\ status[r] = "unborn"
  /\ status' = [status EXCEPT ![r] = "pending"]
  /\ project' = [project EXCEPT ![r] = p]
  /\ UNCHANGED <<worker, limit>>

Start(r, w) ==
  /\ status[r] = "pending"
  /\ HasRoom(project[r])
  /\ status' = [status EXCEPT ![r] = "running"]
  /\ worker' = [worker EXCEPT ![r] = w]
  /\ UNCHANGED <<project, limit>>

(* One or more Runs end in one step: a removed Bot's, or those whose lease *)
(* ran out.                                                                *)
End(ending) ==
  /\ ending # {}
  /\ \A r \in ending : status[r] \in Live
  /\ status' \in [Runs -> Status]
  /\ \A r \in Runs : IF r \in ending THEN status'[r] \in Finished
                                          /\ CanBecome(status[r], status'[r])
                                     ELSE status'[r] = status[r]
  /\ UNCHANGED <<project, worker, limit>>

SetLimit(p, n) ==
  /\ limit' = [limit EXCEPT ![p] = n]
  /\ UNCHANGED <<status, project, worker>>

Next ==
  \/ \E r \in Runs, p \in Projects : Enqueue(r, p)
  \/ \E r \in Runs, w \in Workers : Start(r, w)
  \/ \E ending \in SUBSET Runs : End(ending)
  \/ \E p \in Projects, n \in Limits : SetLimit(p, n)

Spec == Init /\ [][Next]_vars
=============================================================================
