------------------------------ MODULE AgentHome ------------------------------
(***************************************************************************)
(* What an agent process keeps on its machine for a Run: a scratch home    *)
(* with a copy of the AI's login, and a container.  The AI may refresh its *)
(* login; the fresh token goes back to the user's home when the Run ends.  *)
(* Agents of several Bots may share the machine and the user's login.      *)
(***************************************************************************)
EXTENDS Naturals, Sequences, FiniteSets

CONSTANTS
  Procs,      \* agent processes of the machine, each for a Bot of its own
  Jobs,       \* Runs they execute
  MaxTokens   \* bound on the tokens ever issued

Nobody == "nobody"

ASSUME HomeAssumption ==
  MaxTokens \in Nat \ {0} /\ IsFiniteSet(Jobs) /\ Nobody \notin Procs \cup Jobs

VARIABLES
  up,         \* processes that run
  told,       \* processes the Server told its Bot's name: they go by it
  known,      \* processes that found the Project's image good
  stage,      \* where a Run is
  owner,      \* the process that executes it
  container,  \* the label of a Run's container: none, its process's
              \* configured name, or the name with the Bot's
  login,      \* the token in the user's home
  issued,     \* for each token issued, those it goes back to
  orig, now,  \* the token a Run's home was given, and the one it holds
  writing,    \* the Run that writes a token back, of each process
  overtaken   \* those of them that compared before somebody else replaced
              \* the login (no action reads it)

homeVars == <<up, told, known, stage, owner, container, login, issued, orig, now, writing, overtaken>>
tokenVars == <<login, issued, orig, now, writing, overtaken>>

JobStages == {"queued", "home", "ready", "running", "returned", "over", "lost"}
Names == {"none", "configured", "of the Bot"}

HomeInit ==
  /\ up = {} /\ told = {} /\ known = {}
  /\ stage = [j \in Jobs |-> "queued"] /\ owner = [j \in Jobs |-> Nobody]
  /\ container = [j \in Jobs |-> "none"]
  /\ login = 1 /\ issued = <<{}>>
  /\ orig = [j \in Jobs |-> 1] /\ now = [j \in Jobs |-> 1]
  /\ writing = [p \in Procs |-> Nobody] /\ overtaken = {}
-----------------------------------------------------------------------------
(* FromConfig: the Server names the Bot, or cannot be reached; containers  *)
(* labelled with the configured name are removed, or Docker fails and the  *)
(* process does not start.                                                 *)
FromConfig(p) ==
  /\ p \notin up
  /\ up' = up \cup {p}
  /\ told' \in {told \cup {p}, told \ {p}}
  /\ container' = [j \in Jobs |-> IF owner[j] = p /\ container[j] = "configured"
                                  THEN "none" ELSE container[j]]
  /\ UNCHANGED <<known, stage, owner, tokenVars>>

Goes(j, s) == stage' = [stage EXCEPT ![j] = s]
Working(j, s) == stage[j] = s /\ owner[j] \in up

(* exec: the scratch home and the copied login ... *)
MakeHome(p, j) ==
  /\ p \in up /\ stage[j] = "queued"
  /\ Goes(j, "home") /\ owner' = [owner EXCEPT ![j] = p]
  /\ orig' = [orig EXCEPT ![j] = login] /\ now' = [now EXCEPT ![j] = login]
  /\ UNCHANGED <<up, told, known, container, login, issued, writing, overtaken>>

(* ... the image, pulled and probed unless this process found it good ...  *)
Ready(j) ==
  /\ Working(j, "home")
  /\ \/ Goes(j, "ready") /\ known' = known \cup {owner[j]}
     \/ owner[j] \notin known /\ Goes(j, "returned") /\ UNCHANGED known
  /\ UNCHANGED <<up, told, owner, container, tokenVars>>

(* ... and the agent in its container, labelled with the process's name.   *)
RunContainer(j) ==
  /\ Working(j, "ready")
  /\ Goes(j, "running")
  /\ container' = [container EXCEPT ![j] = IF owner[j] \in told THEN "of the Bot" ELSE "configured"]
  /\ UNCHANGED <<up, told, known, owner, tokenVars>>

(* The AI exchanges its token for a fresh one. *)
Refresh(j) ==
  /\ container[j] # "none" /\ stage[j] = "running"
  /\ Len(issued) < MaxTokens
  /\ issued' = Append(issued, issued[now[j]] \cup {now[j]})
  /\ now' = [now EXCEPT ![j] = Len(issued')]
  /\ UNCHANGED <<up, told, known, stage, owner, container, login, orig, writing, overtaken>>

(* The conversation is over: the container is removed (an error of Docker  *)
(* is not looked at).                                                      *)
RemoveContainer(j) ==
  /\ Working(j, "running")
  /\ Goes(j, "returned")
  /\ container' \in {container, [container EXCEPT ![j] = "none"]}
  /\ UNCHANGED <<up, told, known, owner, tokenVars>>

(* Mutant of StillCopied: the user's home is not looked at again.          *)
AnyLogin(j) == orig[j] <= login

StillCopied(j) == login = orig[j]

Writers == {writing[p] : p \in Procs} \ {Nobody}

(* writeBack: if the token is fresh, and the user's home still holds the   *)
(* one that was copied, as read under this process's lock ...              *)
Compare(j) ==
  /\ Working(j, "returned") /\ writing[owner[j]] = Nobody
  /\ now[j] # orig[j] /\ StillCopied(j)
  /\ writing' = [writing EXCEPT ![owner[j]] = j]
  /\ UNCHANGED <<up, told, known, stage, owner, container, login, issued, orig, now, overtaken>>

(* ... the fresh one replaces it, unless the disk fails; or that of a Run  *)
(* of another process, whose temporary file has the same name.             *)
Replace(j) ==
  /\ Working(j, "returned") /\ writing[owner[j]] = j
  /\ login' \in {login} \cup {now[i] : i \in Writers}
  /\ overtaken' = (IF login' = login THEN overtaken ELSE Writers) \ {j}
  /\ writing' = [writing EXCEPT ![owner[j]] = Nobody]
  /\ Goes(j, "over")
  /\ UNCHANGED <<up, told, known, owner, container, issued, orig, now>>

NoWriteBack(j) ==
  /\ Working(j, "returned") /\ writing[owner[j]] = Nobody
  /\ now[j] = orig[j] \/ ~StillCopied(j)
  /\ Goes(j, "over")
  /\ UNCHANGED <<up, told, known, owner, container, tokenVars>>

(* The process dies; its containers go on, and may end by themselves. *)
Die(p) ==
  /\ p \in up /\ up' = up \ {p} /\ known' = known \ {p}
  /\ stage' = [j \in Jobs |-> IF owner[j] = p /\ stage[j] # "over" THEN "lost" ELSE stage[j]]
  /\ writing' = [writing EXCEPT ![p] = Nobody] /\ overtaken' = overtaken \ {writing[p]}
  /\ UNCHANGED <<told, owner, container, login, issued, orig, now>>

ContainerEnds(j) ==
  /\ container[j] # "none" /\ stage[j] \in {"over", "lost"}
  /\ container' = [container EXCEPT ![j] = "none"]
  /\ UNCHANGED <<up, told, known, stage, owner, tokenVars>>

(* The user logs in again: their CLI knows nothing of the agents' lock.    *)
LogIn ==
  /\ Len(issued) < MaxTokens
  /\ issued' = Append(issued, {}) /\ login' = Len(issued')
  /\ overtaken' = Writers
  /\ UNCHANGED <<up, told, known, stage, owner, container, orig, now, writing>>

HomeNext ==
  \/ \E p \in Procs : FromConfig(p) \/ Die(p) \/ \E j \in Jobs : MakeHome(p, j)
  \/ \E j \in Jobs : \/ Ready(j) \/ RunContainer(j) \/ Refresh(j) \/ RemoveContainer(j)
                     \/ Compare(j) \/ Replace(j) \/ NoWriteBack(j) \/ ContainerEnds(j)
  \/ LogIn

HomeSpec == HomeInit /\ [][HomeNext]_homeVars
-----------------------------------------------------------------------------
HomeTypeOK ==
  /\ up \subseteq Procs /\ told \subseteq Procs /\ known \subseteq up
  /\ stage \in [Jobs -> JobStages] /\ owner \in [Jobs -> Procs \cup {Nobody}]
  /\ container \in [Jobs -> Names]
  /\ login \in 1..Len(issued) /\ Len(issued) <= MaxTokens
  /\ \A j \in Jobs : orig[j] \in 1..Len(issued) /\ now[j] \in 1..Len(issued)
  /\ writing \in [Procs -> Jobs \cup {Nobody}] /\ overtaken \subseteq Jobs

Follows == issued'[login'] = {} \/ login \in issued'[login']

(* The login in the user's home is replaced by one that goes back to it,   *)
(* or by the user: Runs of a process that were given the same token never  *)
(* undo each other's refresh, nor a Run the user's login, unless the user  *)
(* or another process came between a Run's comparison and its rename       *)
(* (container.go writeBack).                                               *)
LoginFollows ==
  [][login' # login => Follows \/ \E j \in Writers \cap overtaken : login' = now[j]]_homeVars
=============================================================================
