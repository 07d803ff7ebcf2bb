------------------------------ MODULE Routines ------------------------------
(***************************************************************************)
(* One Routine of a Project: the tickers of several Servers and people who *)
(* run it now, racing for each firing with a compare-and-set, and people   *)
(* who edit it, whose transactions read the whole row and write it back.   *)
(***************************************************************************)
EXTENDS Naturals, Sequences

CONSTANTS
  Tickers,     \* Servers
  Hands,       \* requests of people to run the Routine now
  Editors,     \* requests of people to change it
  Interval,    \* its schedule
  MaxTime,     \* bound on the clock
  MaxTasks     \* bound on the Tasks it opens

ASSUME RoutineAssumption ==
  /\ Tickers \cap Hands = {} /\ Editors \cap (Tickers \cup Hands) = {}
  /\ Interval \in Nat \ {0} /\ MaxTime \in Nat \ {0} /\ MaxTasks \in Nat

Firers == Tickers \cup Hands
Callers == Firers \cup Editors
NotRead == [last |-> 0, task |-> 0, enabled |-> FALSE]
Never == 0       \* last_run_at of a Routine that has not fired
NoTask == 0

VARIABLES
  clock,    \* the Servers' clock
  open,     \* the Project is not archived
  row,      \* the Routine's row: [last, task, enabled]
  tasks,    \* the Tasks it opened, "open" or "closed"
  doing,    \* where each request is: "idle", "read", "begun", and, having
              \* claimed the firing, "skips" or "opens"; at its end
              \* "over", or a ticker "idle" again
  rowRead,  \* the row as it read it
  began,    \* when its transaction began
  lost,     \* an edit has put back an older last Task
  reopened  \* a Task was opened again since the firing that is under way
              \* looked (no action reads the two)

routineVars == <<clock, open, row, tasks, doing, rowRead, began, lost, reopened>>

RoutineRows == [last : 0..MaxTime, task : 0..MaxTasks, enabled : BOOLEAN]

(* CreateRoutine. *)
RoutinesInit ==
  /\ clock = 1 /\ open = TRUE
  /\ row \in {[last |-> Never, task |-> NoTask, enabled |-> e] : e \in BOOLEAN}
  /\ tasks = <<>>
  /\ doing = [r \in Callers |-> "idle"] /\ rowRead = [r \in Callers |-> NotRead]
  /\ began = [r \in Firers |-> 1]
  /\ lost = FALSE /\ reopened = FALSE

(* Mutant of Due: a unit early. *)
DueEarly(r, now) == r.enabled /\ (r.last = Never \/ now - r.last + 1 >= Interval)

Due(r, now) == r.enabled /\ (r.last = Never \/ now - r.last >= Interval)

(* TickRoutines lists the Routines that are enabled in open Projects;      *)
(* FireRoutine reads one whatever its schedule.                            *)
ReadToFire(f) ==
  /\ doing[f] = "idle"
  /\ f \in Tickers => open /\ Due(row, clock)
  /\ rowRead' = [rowRead EXCEPT ![f] = row]
  /\ doing' = [doing EXCEPT ![f] = "read"]
  /\ UNCHANGED <<clock, open, row, tasks, began, lost, reopened>>

Done(r) ==
  /\ doing' = [doing EXCEPT ![r] = IF r \in Tickers THEN "idle" ELSE "over"]
  /\ rowRead' = [rowRead EXCEPT ![r] = NotRead]
  /\ began' = IF r \in Firers THEN [began EXCEPT ![r] = 1] ELSE began

(* fire begins its transaction: later, on a clock of microseconds, than    *)
(* the one whose time is in the row it has read.                           *)
BeginFiring(f) ==
  /\ f \in Firers /\ doing[f] = "read" /\ clock > rowRead[f].last
  /\ IF open THEN /\ doing' = [doing EXCEPT ![f] = "begun"]
                  /\ began' = [began EXCEPT ![f] = clock]
                  /\ UNCHANGED rowRead
             ELSE Done(f)
  /\ UNCHANGED <<clock, open, row, tasks, lost, reopened>>

(* The row is locked from a claim to the end of its transaction.           *)
Claimed(f) == doing[f] \in {"skips", "opens"}
RowLocked == \E f \in Firers : Claimed(f)

(* Mutant of LastTaskOpen: a Task of an earlier firing is no obstacle. *)
LastTaskIgnored(f) == rowRead[f].task > MaxTasks

LastTaskOpen(f) == rowRead[f].task # NoTask /\ tasks[rowRead[f].task] = "open"

(* ClaimRoutine: nobody has fired it since it was read; and then a look,   *)
(* without a lock, at the last Task.                                       *)
Claim(f) ==
  /\ doing[f] = "begun" /\ ~RowLocked
  /\ row.last = rowRead[f].last
  /\ doing' = [doing EXCEPT ![f] = IF LastTaskOpen(f) THEN "skips" ELSE "opens"]
  /\ reopened' = FALSE
  /\ UNCHANGED <<clock, open, row, tasks, rowRead, began, lost>>

(* Skip, because the last Task was still open ...                          *)
Skip(f) ==
  /\ doing[f] = "skips"
  /\ row' = [row EXCEPT !.last = began[f]]
  /\ Done(f)
  /\ UNCHANGED <<clock, open, tasks, lost, reopened>>

(* ... or open the next one and write the row that was read back with it.  *)
Fire(f) ==
  /\ doing[f] = "opens" /\ Len(tasks) < MaxTasks
  /\ tasks' = Append(tasks, "open")
  /\ row' = [rowRead[f] EXCEPT !.last = began[f], !.task = Len(tasks')]
  /\ Done(f)
  /\ UNCHANGED <<clock, open, lost, reopened>>

(* Somebody else claimed this firing; the Project has no Bot to take the   *)
(* Task; or the Server dies: the transaction leaves nothing behind.        *)
NotFired(f) ==
  /\ f \in Firers /\ (doing[f] = "begun" \/ Claimed(f))
  /\ Done(f)
  /\ UNCHANGED <<clock, open, row, tasks, lost, reopened>>

(* UpdateRoutine reads the row without a lock ... *)
ReadToEdit(e) ==
  /\ doing[e] = "idle" /\ open
  /\ rowRead' = [rowRead EXCEPT ![e] = row]
  /\ doing' = [doing EXCEPT ![e] = "read"]
  /\ UNCHANGED <<clock, open, row, tasks, began, lost, reopened>>

(* ... and writes it back, with what the patch sets: every column but      *)
(* last_run_at.                                                            *)
WriteEdit(e, enabled) ==
  /\ doing[e] = "read" /\ ~RowLocked
  /\ row' = [rowRead[e] EXCEPT !.last = row.last, !.enabled = enabled]
  /\ lost' = (lost \/ row'.task # row.task)
  /\ Done(e)
  /\ UNCHANGED <<clock, open, tasks, reopened>>

(* People close a Task, and open one again, the Routine's row locked or    *)
(* not.                                                                    *)
SetTask(t) ==
  /\ tasks' = [tasks EXCEPT ![t] = IF @ = "open" THEN "closed" ELSE "open"]
  /\ reopened' = (reopened \/ (tasks[t] = "closed" /\ RowLocked))
  /\ UNCHANGED <<clock, open, row, doing, rowRead, began, lost>>

SetArchived ==
  /\ open' = ~open
  /\ UNCHANGED <<clock, row, tasks, doing, rowRead, began, lost, reopened>>

Tick ==
  /\ clock < MaxTime
  /\ clock' = clock + 1
  /\ UNCHANGED <<open, row, tasks, doing, rowRead, began, lost, reopened>>

RoutinesNext ==
  \/ \E f \in Firers : ReadToFire(f) \/ BeginFiring(f) \/ Claim(f) \/ Skip(f) \/ Fire(f) \/ NotFired(f)
  \/ \E e \in Editors : ReadToEdit(e) \/ \E b \in BOOLEAN : WriteEdit(e, b)
  \/ \E t \in DOMAIN tasks : SetTask(t)
  \/ SetArchived \/ Tick

RoutinesSpec == RoutinesInit /\ [][RoutinesNext]_routineVars
-----------------------------------------------------------------------------
RoutinesTypeOK ==
  /\ clock \in 1..MaxTime /\ open \in BOOLEAN
  /\ row \in RoutineRows /\ row.task <= Len(tasks)
  /\ tasks \in Seq({"open", "closed"}) /\ Len(tasks) <= MaxTasks
  /\ doing \in [Callers -> {"idle", "read", "begun", "skips", "opens", "over"}]
  /\ rowRead \in [Callers -> RoutineRows] /\ began \in [Firers -> 1..MaxTime]
  /\ lost \in BOOLEAN /\ reopened \in BOOLEAN

Opens == Len(tasks') > Len(tasks)

(* However many Servers find a Routine due, and whoever runs it by hand    *)
(* meanwhile, a schedule fires it at most once in an interval (routines.go *)
(* TickRoutines, fire; store/runs.go ClaimRoutine).                        *)
FiresOncePerInterval ==
  [][\A f \in Tickers : row'.last # row.last /\ Claimed(f) /\ ~Claimed(f)' =>
       row.last = Never \/ row'.last - row.last >= Interval]_routineVars

NewestIsClosed == tasks = <<>> \/ tasks[Len(tasks)] = "closed"

(* A firing opens no Task while the one opened by the firing before is     *)
(* open (routines.go fire), but for one that an edit made the row forget,  *)
(* reading it before a firing and writing it after (UpdateRoutine), or one *)
(* that people opened again after this firing had looked at it.            *)
OnlyPeoplePileUp == [][Opens => NewestIsClosed \/ lost \/ reopened]_routineVars
=============================================================================
