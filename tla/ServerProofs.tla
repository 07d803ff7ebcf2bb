------------------------------ MODULE ServerProofs ------------------------------
(***************************************************************************)
(* Theorems about what Servers do by themselves: Routines fire and         *)
(* migrations run, for any number of Servers, requests, firings and        *)
(* builds; and about the Server's parts together: their types, and what    *)
(* each of them promises.                                                  *)
(***************************************************************************)
EXTENDS MCServer, ChatProofs, PeopleProofs, SequenceTheorems, WellFoundedInduction, TLAPS

(***************************************************************************)
(* Routines.                                                               *)
(***************************************************************************)
Row == [last : Nat, task : Nat, enabled : BOOLEAN]

Steps == {"idle", "read", "begun", "skips", "opens", "over"}

RoutinesTyped ==
  /\ clock \in Nat /\ row \in Row /\ tasks \in Seq({"open", "closed"})
  /\ doing \in [Callers -> Steps]
  /\ rowRead \in [Callers -> Row] /\ began \in [Firers -> Nat]
  /\ lost \in BOOLEAN /\ reopened \in BOOLEAN

(* A ticker fires only a Routine that was due when it read it, and still   *)
(* is when it begins. *)
UnderWay(f) == doing[f] = "begun" \/ Claimed(f)

TickersSawItDue ==
  \A f \in Tickers : /\ doing[f] = "read" => Due(rowRead[f], clock)
                     /\ UnderWay(f) => Due(rowRead[f], began[f])

(* The row's time only grows, so one that is as it was read has the Task   *)
(* of the last firing as it was read, unless an edit put an older back.    *)
ReadsAreOlder ==
  \A f \in Firers :
    /\ doing[f] = "read" \/ UnderWay(f) =>
         /\ rowRead[f].last <= row.last
         /\ rowRead[f].last = row.last /\ ~lost => rowRead[f].task = row.task
    /\ UnderWay(f) => began[f] > rowRead[f].last
LastTaskKnown == ~lost => row.task = Len(tasks)

(* One firing at a time is claimed, and its row stays as it was read; one  *)
(* that is to open a Task found the last one closed.                       *)
ClaimSound ==
  /\ \A f, g \in Firers : Claimed(f) /\ Claimed(g) => f = g
  /\ \A f \in Firers : Claimed(f) => rowRead[f].last = row.last
  /\ \A f \in Firers : doing[f] = "opens" => NewestIsClosed \/ lost \/ reopened

RoutinesInv == RoutinesTyped /\ TickersSawItDue /\ ReadsAreOlder /\ LastTaskKnown /\ ClaimSound

(* What was due is due later. *)
LEMMA DueStays ==
  ASSUME NEW r \in Row, NEW now \in Nat, NEW later \in Nat, now <= later, Due(r, now)
  PROVE  Due(r, later)
<1>1. r.last \in Nat /\ Interval \in Nat
  BY RoutineAssumption DEF Row
<1> QED BY <1>1 DEF Due

(* The rows that firings and edits write. *)
LEMMA RowSkipped ==
  ASSUME NEW r \in Row, NEW last \in Nat, NEW new, new = [r EXCEPT !.last = last]
  PROVE  new \in Row /\ new.last = last /\ new.task = r.task
BY DEF Row

(* A Routine's row after a firing or an edit is a record of the model. *)
LEMMA RowEdited ==
  ASSUME NEW r \in Row, NEW last \in Nat, NEW enabled \in BOOLEAN, NEW new,
         new = [r EXCEPT !.last = last, !.enabled = enabled]
  PROVE  new \in Row /\ new.last = last
BY DEF Row

(* The Routine has not fired, and nobody has read it. *)
LEMMA RoutinesStart == RoutinesInit => RoutinesInv
<1> SUFFICES ASSUME RoutinesInit PROVE RoutinesInv
  OBVIOUS
<1>1. row \in Row /\ row.task = 0 /\ NotRead \in Row
  BY DEF RoutinesInit, Row, NotRead, Never, NoTask
<1>2. tasks \in Seq({"open", "closed"}) /\ Len(tasks) = 0
  BY DEF RoutinesInit
<1>3. RoutinesTyped
  BY <1>1, <1>2 DEF RoutinesInit, RoutinesTyped, Steps
<1> QED BY <1>1, <1>2, <1>3 DEF RoutinesInit, RoutinesInv, TickersSawItDue, ReadsAreOlder, LastTaskKnown,
     ClaimSound, UnderWay, Claimed, Callers, Firers

(* A request that ends leaves the others as they were. *)
LEMMA DoneIs ==
  ASSUME RoutinesTyped, NEW c \in Callers, Done(c)
  PROVE  /\ doing' \in [Callers -> Steps]
         /\ rowRead' \in [Callers -> Row] /\ began' \in [Firers -> Nat]
         /\ doing'[c] \in {"idle", "over"}
         /\ \A d \in Callers \ {c} : doing'[d] = doing[d] /\ rowRead'[d] = rowRead[d]
         /\ \A d \in Firers \ {c} : began'[d] = began[d]
<1>1. NotRead \in Row
  BY DEF NotRead, Row
<1> QED BY <1>1 DEF RoutinesTyped, Done, Steps

(* A firing that leaves the row as it is. *)
LEMMA FirersKeep ==
  ASSUME RoutinesInv, NEW f \in Firers, ReadToFire(f) \/ BeginFiring(f) \/ NotFired(f)
  PROVE  RoutinesInv'
<1>0. f \in Callers /\ Firers \subseteq Callers /\ Tickers \subseteq Firers
  BY DEF Callers, Firers
<1> USE <1>0
<1>1. CASE ReadToFire(f)
  <2>1. /\ rowRead' = [rowRead EXCEPT ![f] = row] /\ doing' = [doing EXCEPT ![f] = "read"]
        /\ f \in Tickers => Due(row, clock)
        /\ UNCHANGED <<clock, open, row, tasks, began, lost, reopened>>
    BY <1>1 DEF ReadToFire
  <2>2. RoutinesTyped'
    BY <2>1 DEF RoutinesInv, RoutinesTyped, Steps
  <2>3. TickersSawItDue'
    <3>1. \A g \in Tickers \ {f} : doing'[g] = doing[g] /\ rowRead'[g] = rowRead[g]
      BY <2>1 DEF RoutinesInv, RoutinesTyped
    <3>2. doing'[f] = "read" /\ rowRead'[f] = row
      BY <2>1 DEF RoutinesInv, RoutinesTyped
    <3>3. \A g \in Tickers : /\ doing'[g] = "read" => Due(rowRead'[g], clock)
                             /\ UnderWay(g)' => Due(rowRead'[g], began[g])
      BY <2>1, <3>1, <3>2 DEF RoutinesInv, TickersSawItDue, UnderWay, Claimed
    <3> QED BY <2>1, <3>3 DEF TickersSawItDue, UnderWay, Claimed, Due
  <2>4. ReadsAreOlder'
    BY <2>1 DEF RoutinesInv, RoutinesTyped, ReadsAreOlder, UnderWay, Claimed, Row
  <2>5. \A g \in Firers : doing'[g] = "opens" \/ Claimed(g)' => doing'[g] = doing[g] /\ rowRead'[g] = rowRead[g]
    BY <2>1 DEF RoutinesInv, RoutinesTyped, Claimed
  <2>6. ClaimSound'
    BY <2>1, <2>5 DEF RoutinesInv, ClaimSound, Claimed, NewestIsClosed
  <2> QED BY <2>1, <2>2, <2>3, <2>4, <2>6 DEF RoutinesInv, LastTaskKnown
<1>2. CASE BeginFiring(f) /\ open
  <2>1. /\ doing[f] = "read" /\ clock > rowRead[f].last
        /\ doing' = [doing EXCEPT ![f] = "begun"] /\ began' = [began EXCEPT ![f] = clock]
        /\ UNCHANGED <<clock, open, row, tasks, lost, reopened, rowRead>>
    BY <1>2 DEF BeginFiring
  <2>2. RoutinesTyped'
    BY <2>1 DEF RoutinesInv, RoutinesTyped, Steps
  <2>3. /\ \A g \in Firers \ {f} : doing'[g] = doing[g] /\ began'[g] = began[g]
        /\ doing'[f] = "begun" /\ began'[f] = clock
    BY <2>1 DEF RoutinesInv, RoutinesTyped
  <2>4. \A g \in Tickers : /\ doing'[g] = "read" => Due(rowRead[g], clock)
                           /\ UnderWay(g)' => Due(rowRead[g], began'[g])
    BY <2>1, <2>3 DEF RoutinesInv, TickersSawItDue, UnderWay, Claimed
  <2>5. TickersSawItDue'
    BY <2>1, <2>4 DEF TickersSawItDue, UnderWay, Claimed, Due
  <2>6. ReadsAreOlder'
    BY <2>1, <2>3 DEF RoutinesInv, ReadsAreOlder, UnderWay, Claimed
  <2>7. ClaimSound'
    BY <2>1, <2>3 DEF RoutinesInv, ClaimSound, Claimed, NewestIsClosed
  <2> QED BY <2>1, <2>2, <2>5, <2>6, <2>7 DEF RoutinesInv, LastTaskKnown
<1>3. CASE Done(f) /\ UNCHANGED <<clock, row, tasks, lost, reopened>>
  <2>1. /\ doing' \in [Callers -> Steps]
        /\ rowRead' \in [Callers -> Row] /\ began' \in [Firers -> Nat]
        /\ doing'[f] \in {"idle", "over"}
        /\ \A d \in Firers \ {f} : doing'[d] = doing[d] /\ rowRead'[d] = rowRead[d] /\ began'[d] = began[d]
    BY <1>3, DoneIs DEF RoutinesInv
  <2>2. RoutinesTyped'
    BY <1>3, <2>1 DEF RoutinesInv, RoutinesTyped
  <2>3. \A g \in Tickers : /\ doing'[g] = "read" => Due(rowRead'[g], clock)
                           /\ UnderWay(g)' => Due(rowRead'[g], began'[g])
    BY <2>1 DEF RoutinesInv, TickersSawItDue, UnderWay, Claimed
  <2>4. TickersSawItDue'
    BY <1>3, <2>3 DEF TickersSawItDue, UnderWay, Claimed, Due
  <2>5. ReadsAreOlder'
    BY <1>3, <2>1 DEF RoutinesInv, ReadsAreOlder, UnderWay, Claimed
  <2>6. ClaimSound'
    BY <1>3, <2>1 DEF RoutinesInv, ClaimSound, Claimed, NewestIsClosed
  <2> QED BY <1>3, <2>2, <2>4, <2>5, <2>6 DEF RoutinesInv, LastTaskKnown
<1> QED BY <1>1, <1>2, <1>3 DEF BeginFiring, NotFired

(* A firing is claimed by one that sees the last Task, which is the newest *)
(* unless an edit has been lost.                                           *)
LEMMA ClaimKeeps ==
  ASSUME RoutinesInv, NEW f \in Firers, Claim(f)
  PROVE  RoutinesInv' /\ tasks' = tasks
<1>0. f \in Callers /\ Firers \subseteq Callers /\ Tickers \subseteq Firers
  BY DEF Callers, Firers
<1>1. /\ doing[f] = "begun" /\ row.last = rowRead[f].last /\ reopened' = FALSE
      /\ \A g \in Firers : ~Claimed(g)
      /\ UNCHANGED <<clock, open, row, tasks, rowRead, began, lost>>
  BY DEF Claim, RowLocked
<1>2. PICK to \in {"skips", "opens"} :
        doing' = [doing EXCEPT ![f] = to] /\ (to = "opens" => ~LastTaskOpen(f))
  BY DEF Claim
<1>3. doing'[f] = to /\ \A g \in Firers \ {f} : doing'[g] = doing[g]
  BY <1>0, <1>2 DEF RoutinesInv, RoutinesTyped
<1>4. RoutinesTyped'
  BY <1>1, <1>2 DEF RoutinesInv, RoutinesTyped, Steps
<1>5. TickersSawItDue'
  <2>1. \A g \in Tickers : /\ doing'[g] = "read" => Due(rowRead[g], clock)
                           /\ UnderWay(g)' => Due(rowRead[g], began[g])
    BY <1>0, <1>1, <1>3 DEF RoutinesInv, TickersSawItDue, UnderWay, Claimed
  <2> QED BY <1>1, <2>1 DEF TickersSawItDue, UnderWay, Claimed, Due
<1>6. ReadsAreOlder'
  BY <1>1, <1>3 DEF RoutinesInv, ReadsAreOlder, UnderWay, Claimed
<1>7. to = "opens" => NewestIsClosed \/ lost
  <2>1. tasks \in Seq({"open", "closed"}) /\ Len(tasks) \in Nat
    BY DEF RoutinesInv, RoutinesTyped
  <2>2. Len(tasks) = 0 => tasks = <<>>
    BY <2>1, EmptySeq
  <2>3. Len(tasks) # 0 => tasks[Len(tasks)] \in {"open", "closed"}
    BY <2>1, ElementOfSeq
  <2>4. lost \/ rowRead[f].task = Len(tasks)
    BY <1>1 DEF RoutinesInv, ReadsAreOlder, LastTaskKnown, UnderWay
  <2> QED BY <1>2, <2>2, <2>3, <2>4 DEF LastTaskOpen, NewestIsClosed, NoTask
<1>8. ClaimSound'
  <2>1. \A g \in Firers : Claimed(g)' \/ doing'[g] = "opens" => g = f
    BY <1>1, <1>3 DEF Claimed
  <2> QED BY <1>1, <1>3, <1>7, <2>1 DEF ClaimSound, NewestIsClosed
<1> QED BY <1>1, <1>4, <1>5, <1>6, <1>8 DEF RoutinesInv, LastTaskKnown

(* A claimed firing commits: the row's time moves on, whether a Task is    *)
(* opened or the last was still open.                                      *)
LEMMA ClaimedKeeps ==
  ASSUME RoutinesInv, NEW f \in Firers, Claimed(f), Done(f), UNCHANGED <<clock, lost, reopened>>,
         tasks' \in Seq({"open", "closed"}), row' \in Row, row'.last = began[f],
         ~lost => row'.task = Len(tasks')
  PROVE  RoutinesInv' /\ row'.last > row.last
<1>1. f \in Callers /\ Firers \subseteq Callers /\ Tickers \subseteq Firers
  BY DEF Callers, Firers
<1>2. /\ doing' \in [Callers -> Steps]
      /\ rowRead' \in [Callers -> Row] /\ began' \in [Firers -> Nat]
      /\ doing'[f] \in {"idle", "over"}
      /\ \A d \in Firers \ {f} : doing'[d] = doing[d] /\ rowRead'[d] = rowRead[d] /\ began'[d] = began[d]
  BY <1>1, DoneIs DEF RoutinesInv
<1>3. row'.last > row.last
  BY DEF RoutinesInv, ReadsAreOlder, ClaimSound, UnderWay
<1>4. RoutinesTyped'
  BY <1>2 DEF RoutinesInv, RoutinesTyped
<1>5. TickersSawItDue'
  <2>1. \A g \in Tickers : /\ doing'[g] = "read" => Due(rowRead'[g], clock)
                           /\ UnderWay(g)' => Due(rowRead'[g], began'[g])
    BY <1>1, <1>2 DEF RoutinesInv, TickersSawItDue, UnderWay, Claimed
  <2> QED BY <2>1 DEF TickersSawItDue, UnderWay, Claimed, Due
<1>6. ReadsAreOlder'
  <2>1. ASSUME NEW g \in Firers, doing'[g] = "read" \/ UnderWay(g)'
        PROVE  /\ rowRead'[g].last < row'.last
               /\ UnderWay(g)' => began'[g] > rowRead'[g].last
    <3>1. g # f /\ doing[g] = doing'[g] /\ rowRead'[g] = rowRead[g] /\ began'[g] = began[g]
      BY <1>2, <2>1 DEF UnderWay, Claimed
    <3>2. rowRead[g].last \in Nat /\ row.last \in Nat /\ row'.last \in Nat
      BY <1>1 DEF RoutinesInv, RoutinesTyped, Row
    <3>3. rowRead[g].last <= row.last /\ (UnderWay(g) => began[g] > rowRead[g].last)
      BY <2>1, <3>1 DEF RoutinesInv, ReadsAreOlder, UnderWay, Claimed
    <3> QED BY <1>3, <3>1, <3>2, <3>3 DEF UnderWay, Claimed
  <2>2. \A g \in Firers : rowRead'[g].last \in Nat /\ row'.last \in Nat
    BY <1>1, <1>4 DEF RoutinesTyped, Row
  <2> QED BY <2>1, <2>2 DEF ReadsAreOlder
<1>7. LastTaskKnown'
  BY DEF LastTaskKnown
<1>8. ClaimSound'
  <2>1. \A g \in Firers : ~Claimed(g)'
    BY <1>2 DEF RoutinesInv, ClaimSound, Claimed
  <2> QED BY <2>1 DEF ClaimSound, Claimed
<1> QED BY <1>3, <1>4, <1>5, <1>6, <1>7, <1>8 DEF RoutinesInv

(* A firing that found the last Task open makes none. *)
LEMMA SkipKeeps ==
  ASSUME RoutinesInv, NEW f \in Firers, Skip(f)
  PROVE  RoutinesInv' /\ tasks' = tasks
<1>1. f \in Callers /\ began[f] \in Nat /\ row \in Row /\ row.task \in Nat /\ row.enabled \in BOOLEAN
  BY DEF Callers, RoutinesInv, RoutinesTyped, Row
<1>2. row' = [row EXCEPT !.last = began[f]]
  BY DEF Skip
<1>3. row' \in Row /\ row'.last = began[f] /\ row'.task = row.task
  BY <1>1, <1>2, RowSkipped
<1>4. Claimed(f) /\ Done(f) /\ UNCHANGED <<clock, lost, reopened, tasks>>
  BY DEF Skip, Claimed
<1> QED BY <1>3, <1>4, ClaimedKeeps DEF RoutinesInv, RoutinesTyped, LastTaskKnown

(* A Task is opened only when the one before was closed. *)
LEMMA FireKeeps ==
  ASSUME RoutinesInv, NEW f \in Firers, Fire(f)
  PROVE  RoutinesInv' /\ (NewestIsClosed \/ lost \/ reopened)
<1>1. f \in Callers /\ began[f] \in Nat /\ rowRead[f] \in Row /\ rowRead[f].enabled \in BOOLEAN
  BY DEF Callers, RoutinesInv, RoutinesTyped, Row
<1>2. /\ doing[f] = "opens" /\ Claimed(f) /\ Done(f) /\ UNCHANGED <<clock, lost, reopened>>
      /\ tasks' = Append(tasks, "open") /\ row' = [rowRead[f] EXCEPT !.last = began[f], !.task = Len(tasks')]
  BY DEF Fire, Claimed
<1>3. tasks \in Seq({"open", "closed"})
  BY DEF RoutinesInv, RoutinesTyped
<1>4. tasks' \in Seq({"open", "closed"}) /\ Len(tasks') \in Nat
  BY <1>2, <1>3
<1>5. row' \in Row /\ row'.last = began[f] /\ row'.task = Len(tasks')
  <2>1. PICK n \in Nat : n = Len(tasks')
    BY <1>4
  <2>2. PICK r \in Row, last \in Nat : r = rowRead[f] /\ last = began[f]
    BY <1>1
  <2>3. PICK new : new = row'
    OBVIOUS
  <2>4. new = [r EXCEPT !.last = last, !.task = n]
    BY <1>2, <2>1, <2>2, <2>3
  <2>5. new \in Row /\ new.last = last /\ new.task = n
    BY <2>4 DEF Row
  <2> QED BY <2>1, <2>2, <2>3, <2>5
<1>6. RoutinesInv'
  BY <1>2, <1>4, <1>5, ClaimedKeeps
<1>7. NewestIsClosed \/ lost \/ reopened
  BY <1>2 DEF RoutinesInv, ClaimSound
<1> QED BY <1>6, <1>7

(* Edits write back all but the row's time. *)
LEMMA EditsKeep ==
  ASSUME RoutinesInv, NEW e \in Editors
  PROVE  /\ ReadToEdit(e) => RoutinesInv' /\ tasks' = tasks
         /\ \A b \in BOOLEAN : WriteEdit(e, b) => RoutinesInv' /\ tasks' = tasks
<1>0. e \in Callers /\ e \notin Firers /\ Firers \subseteq Callers /\ Tickers \subseteq Firers
  BY RoutineAssumption DEF Callers, Firers
<1>1. ASSUME ReadToEdit(e)
      PROVE  RoutinesInv' /\ tasks' = tasks
  <2>1. /\ rowRead' = [rowRead EXCEPT ![e] = row] /\ doing' = [doing EXCEPT ![e] = "read"]
        /\ UNCHANGED <<clock, open, row, tasks, began, lost, reopened>>
    BY <1>1 DEF ReadToEdit
  <2>2. RoutinesTyped'
    BY <2>1 DEF RoutinesInv, RoutinesTyped, Steps
  <2>3. \A g \in Firers : doing'[g] = doing[g] /\ rowRead'[g] = rowRead[g]
    BY <1>0, <2>1 DEF RoutinesInv, RoutinesTyped
  <2>4. \A g \in Tickers : /\ doing'[g] = "read" => Due(rowRead'[g], clock)
                           /\ UnderWay(g)' => Due(rowRead'[g], began[g])
    BY <1>0, <2>3 DEF RoutinesInv, TickersSawItDue, UnderWay, Claimed
  <2>5. TickersSawItDue'
    BY <2>1, <2>4 DEF TickersSawItDue, UnderWay, Claimed, Due
  <2>6. ReadsAreOlder'
    BY <2>1, <2>3 DEF RoutinesInv, ReadsAreOlder, UnderWay, Claimed
  <2>7. ClaimSound'
    BY <2>1, <2>3 DEF RoutinesInv, ClaimSound, Claimed, NewestIsClosed
  <2> QED BY <2>1, <2>2, <2>5, <2>6, <2>7 DEF RoutinesInv, LastTaskKnown
<1>2. ASSUME NEW b \in BOOLEAN, WriteEdit(e, b)
      PROVE  RoutinesInv' /\ tasks' = tasks
  <2>1. /\ row' = [rowRead[e] EXCEPT !.last = row.last, !.enabled = b] /\ Done(e)
        /\ lost' = (lost \/ row'.task # row.task) /\ UNCHANGED <<clock, open, tasks, reopened>>
        /\ \A g \in Firers : ~Claimed(g)
    BY <1>2 DEF WriteEdit, RowLocked
  <2>2. rowRead[e] \in Row /\ row.last \in Nat /\ rowRead[e].task \in Nat
    BY <1>0 DEF RoutinesInv, RoutinesTyped, Row
  <2>3. row' \in Row /\ row'.last = row.last
    <3>1. PICK r \in Row, last \in Nat : r = rowRead[e] /\ last = row.last
      BY <2>2
    <3>2. PICK new : new = row'
      OBVIOUS
    <3>3. new = [r EXCEPT !.last = last, !.enabled = b]
      BY <2>1, <3>1, <3>2
    <3>4. new \in Row /\ new.last = last
      BY <3>3, RowEdited
    <3> QED BY <3>1, <3>2, <3>4
  <2>4. /\ doing' \in [Callers -> Steps]
        /\ rowRead' \in [Callers -> Row] /\ began' \in [Firers -> Nat]
        /\ \A d \in Firers : doing'[d] = doing[d] /\ rowRead'[d] = rowRead[d] /\ began'[d] = began[d]
    BY <1>0, <2>1, DoneIs DEF RoutinesInv
  <2>5. RoutinesTyped'
    BY <2>1, <2>3, <2>4 DEF RoutinesInv, RoutinesTyped
  <2>6. \A g \in Tickers : /\ doing'[g] = "read" => Due(rowRead'[g], clock)
                           /\ UnderWay(g)' => Due(rowRead'[g], began'[g])
    BY <1>0, <2>4 DEF RoutinesInv, TickersSawItDue, UnderWay, Claimed
  <2>7. TickersSawItDue'
    BY <2>1, <2>6 DEF TickersSawItDue, UnderWay, Claimed, Due
  <2>8. ReadsAreOlder' /\ LastTaskKnown'
    BY <2>1, <2>3, <2>4 DEF RoutinesInv, ReadsAreOlder, LastTaskKnown, UnderWay, Claimed
  <2>9. ClaimSound'
    <3>1. \A g \in Firers : ~Claimed(g)'
      BY <2>1, <2>4 DEF Claimed
    <3> QED BY <3>1 DEF ClaimSound, Claimed
  <2> QED BY <2>1, <2>5, <2>7, <2>8, <2>9 DEF RoutinesInv
<1> QED BY <1>1, <1>2

(* Tasks are closed and opened again, the Project is archived, time passes. *)
LEMMA TimesKeep ==
  ASSUME RoutinesInv, (\E t \in DOMAIN tasks : SetTask(t)) \/ SetArchived \/ Tick
  PROVE  RoutinesInv' /\ Len(tasks') = Len(tasks)
<1>0. Tickers \subseteq Callers /\ Tickers \subseteq Firers
  BY DEF Callers, Firers
<1>1. UNCHANGED <<row, doing, rowRead, began, lost>> /\ clock' \in Nat /\ clock <= clock'
  BY DEF SetTask, SetArchived, Tick, RoutinesInv, RoutinesTyped
<1>2. tasks' \in Seq({"open", "closed"}) /\ Len(tasks') = Len(tasks)
  <2>1. tasks \in Seq({"open", "closed"})
    BY DEF RoutinesInv, RoutinesTyped
  <2>2. ASSUME NEW t \in DOMAIN tasks, SetTask(t)
        PROVE  tasks' \in Seq({"open", "closed"}) /\ Len(tasks') = Len(tasks)
    <3>1. PICK to \in {"open", "closed"} : tasks' = [tasks EXCEPT ![t] = to]
      BY <2>2 DEF SetTask
    <3> QED BY <2>1, <3>1, ExceptSeq
  <2> QED BY <2>1, <2>2 DEF SetArchived, Tick
<1>3. RoutinesTyped'
  <2>1. reopened' \in BOOLEAN
    BY DEF SetTask, SetArchived, Tick, RoutinesInv, RoutinesTyped
  <2> QED BY <1>1, <1>2, <2>1 DEF RoutinesInv, RoutinesTyped
<1>4. TickersSawItDue'
  <2>1. \A g \in Tickers : /\ doing'[g] = "read" => Due(rowRead'[g], clock')
                           /\ UnderWay(g)' => Due(rowRead'[g], began'[g])
    BY <1>0, <1>1, DueStays DEF RoutinesInv, RoutinesTyped, TickersSawItDue, UnderWay, Claimed
  <2> QED BY <2>1 DEF TickersSawItDue, UnderWay, Claimed, Due
<1>5. ReadsAreOlder' /\ LastTaskKnown'
  BY <1>1, <1>2 DEF RoutinesInv, ReadsAreOlder, LastTaskKnown, UnderWay, Claimed
<1>6. (\E f \in Firers : Claimed(f)) /\ NewestIsClosed => NewestIsClosed' \/ reopened'
  <2>1. CASE UNCHANGED tasks
    BY <2>1 DEF NewestIsClosed
  <2>2. ASSUME NEW t \in DOMAIN tasks, SetTask(t), NEW f \in Firers, Claimed(f), NewestIsClosed
        PROVE  NewestIsClosed' \/ reopened'
    <3>1. tasks # <<>> /\ tasks[Len(tasks)] = "closed" /\ Len(tasks') = Len(tasks)
      BY <1>2, <2>2 DEF NewestIsClosed
    <3>2. CASE t = Len(tasks)
      BY <2>2, <3>1, <3>2 DEF SetTask, RowLocked
    <3>3. CASE t # Len(tasks)
      BY <2>2, <3>1, <3>3 DEF SetTask, NewestIsClosed
    <3> QED BY <3>2, <3>3
  <2> QED BY <2>1, <2>2 DEF SetArchived, Tick
<1>7. reopened => reopened'
  BY DEF SetTask, SetArchived, Tick
<1>8. ClaimSound'
  <2>1. \A f \in Firers : doing[f] = "opens" => Claimed(f)
    BY DEF Claimed
  <2> QED BY <1>1, <1>6, <1>7, <2>1 DEF RoutinesInv, ClaimSound, Claimed
<1> QED BY <1>2, <1>3, <1>4, <1>5, <1>8 DEF RoutinesInv

(* Every step keeps the invariant of Routines. *)
LEMMA RoutinesKept == RoutinesInv /\ [RoutinesNext]_routineVars => RoutinesInv'
<1>1. RoutinesInv /\ UNCHANGED routineVars => RoutinesInv'
  BY DEF routineVars, RoutinesInv, RoutinesTyped, TickersSawItDue, ReadsAreOlder, LastTaskKnown, ClaimSound,
         UnderWay, Claimed, NewestIsClosed, Due
<1> QED BY <1>1, FirersKeep, ClaimKeeps, SkipKeeps, FireKeeps, EditsKeep, TimesKeep DEF RoutinesNext

(* It holds throughout. *)
LEMMA RoutinesAlways == RoutinesSpec => []RoutinesInv
BY RoutinesStart, RoutinesKept, PTL DEF RoutinesSpec

(* A schedule fires its Routine at most once in an interval, however many  *)
(* Servers find it due and whoever runs or edits it meanwhile (routines.go *)
(* TickRoutines, fire; store/runs.go ClaimRoutine).                        *)
THEOREM ScheduleIsKept == RoutinesSpec => FiresOncePerInterval
<1>1. ASSUME RoutinesInv, [RoutinesNext]_routineVars
      PROVE  [\A f \in Tickers : row'.last # row.last /\ Claimed(f) /\ ~Claimed(f)' =>
                row.last = Never \/ row'.last - row.last >= Interval]_routineVars
  <2> SUFFICES ASSUME NEW f \in Tickers, RoutinesNext,
                      row'.last # row.last, Claimed(f), ~Claimed(f)'
               PROVE  row.last = Never \/ row'.last - row.last >= Interval
    BY <1>1
  <2>1. f \in Callers /\ f \in Firers /\ f \notin Editors
    BY RoutineAssumption DEF Callers, Firers
  <2>2. CASE Skip(f) \/ Fire(f)
    <3>1. rowRead[f].last = row.last /\ Due(rowRead[f], began[f])
      BY <1>1, <2>1 DEF RoutinesInv, TickersSawItDue, UnderWay, ClaimSound
    <3>2. row'.last = began[f]
      <4>1. CASE Skip(f)
        BY <4>1, <2>1, <1>1, RowSkipped DEF Skip, RoutinesInv, RoutinesTyped, Row
      <4>2. CASE Fire(f)
        BY <4>2, <2>1, <1>1 DEF Fire, RoutinesInv, RoutinesTyped, Row
      <4> QED BY <2>2, <4>1, <4>2
    <3> QED BY <3>1, <3>2 DEF Due
  <2>3. CASE NotFired(f) \/ Claim(f) \/ BeginFiring(f) \/ ReadToFire(f)
    BY <2>3 DEF NotFired, Claim, BeginFiring, ReadToFire
  <2>4. ASSUME NEW g \in Firers \ {f}, Skip(g) \/ Fire(g) \/ NotFired(g) \/ Claim(g) \/ BeginFiring(g) \/ ReadToFire(g)
        PROVE  doing'[f] = doing[f]
    <3>1. g \in Callers
      BY DEF Callers
    <3>2. Done(g) => doing'[f] = doing[f]
      BY <1>1, <2>1, <3>1, DoneIs DEF RoutinesInv
    <3>3. doing \in [Callers -> Steps]
      BY <1>1 DEF RoutinesInv, RoutinesTyped
    <3> QED BY <2>1, <2>4, <3>2, <3>3 DEF Skip, Fire, NotFired, Claim, BeginFiring, ReadToFire
  <2>5. ASSUME NEW e \in Editors, ReadToEdit(e) \/ \E b \in BOOLEAN : WriteEdit(e, b)
        PROVE  doing'[f] = doing[f]
    <3>1. e \in Callers /\ e # f
      BY <2>1 DEF Callers
    <3>2. Done(e) => doing'[f] = doing[f]
      BY <1>1, <2>1, <3>1, DoneIs DEF RoutinesInv
    <3>3. doing \in [Callers -> Steps]
      BY <1>1 DEF RoutinesInv, RoutinesTyped
    <3> QED BY <2>1, <2>5, <3>1, <3>2, <3>3 DEF ReadToEdit, WriteEdit
  <2>6. CASE (\E t \in DOMAIN tasks : SetTask(t)) \/ SetArchived \/ Tick
    BY <2>6 DEF SetTask, SetArchived, Tick
  <2> QED BY <2>1, <2>2, <2>3, <2>4, <2>5, <2>6 DEF RoutinesNext, Claimed
<1> QED BY <1>1, RoutinesAlways, PTL DEF RoutinesSpec, FiresOncePerInterval

(* A firing opens no Task while the one opened by the firing before is     *)
(* open, but for one that an edit made the row forget, or that people      *)
(* opened again after the firing had looked at it (routines.go fire,       *)
(* UpdateRoutine; core.go UpdateTask).                                     *)
THEOREM WorkDoesNotPileUp == RoutinesSpec => OnlyPeoplePileUp
<1>1. ASSUME RoutinesInv, [RoutinesNext]_routineVars
      PROVE  [Opens => NewestIsClosed \/ lost \/ reopened]_routineVars
  <2>1. \A f \in Firers : ReadToFire(f) \/ BeginFiring(f) \/ NotFired(f) => tasks' = tasks
    BY DEF ReadToFire, BeginFiring, NotFired
  <2>2. tasks' # tasks /\ Len(tasks') # Len(tasks) /\ RoutinesNext => NewestIsClosed \/ lost \/ reopened
    BY <1>1, <2>1, ClaimKeeps, SkipKeeps, FireKeeps, EditsKeep, TimesKeep DEF RoutinesNext
  <2>3. Opens => tasks' # tasks /\ Len(tasks') # Len(tasks)
    <3>1. tasks \in Seq({"open", "closed"}) /\ Len(tasks) \in Nat
      BY <1>1 DEF RoutinesInv, RoutinesTyped
    <3> QED BY <3>1 DEF Opens
  <2> QED BY <1>1, <2>2, <2>3
<1> QED BY <1>1, RoutinesAlways, PTL DEF RoutinesSpec, OnlyPeoplePileUp

(***************************************************************************)
(* Migrations.                                                             *)
(***************************************************************************)
Entry == [name : Nat, sum : Checksums]

(* The first migrations of b are those of vs. *)
BeginsWith(b, vs) == Len(vs) <= Len(b) /\ \A i \in 1..Len(vs) : b[i] = vs[i]

MigrateTyped ==
  /\ applied \in Seq(Entry) /\ versions \in Seq(Checksums)
  /\ server \in [Servers -> {"down", "connected", "listed", "serving", "refused"}]
  /\ build \in [Servers -> Builds] /\ listed \in [Servers -> Seq(Checksums)]

(* What SchemaIsOfABuild needs: what is recorded is what was applied; a    *)
(* Server that applies migrations has the lock, and knows all that is      *)
(* recorded.                                                               *)
Recorded ==
  /\ Len(versions) = Len(applied)
  /\ \A i \in 1..Len(applied) : applied[i].name = i /\ applied[i].sum = versions[i]
OfABuild == \E b \in Builds : BeginsWith(b, versions)
AppliesAlone ==
  \A s \in Servers : server[s] = "listed" =>
    lockedBy = s /\ listed[s] = versions /\ BeginsWith(build[s], versions)
ServedWhole == \A s \in Servers : server[s] = "serving" => BeginsWith(versions, build[s])

MigrateInv == MigrateTyped /\ Recorded /\ OfABuild /\ AppliesAlone /\ ServedWhole

(* What a build ships. *)
LEMMA BuildIs ==
  ASSUME NEW b \in Builds
  PROVE  b \in Seq(Checksums) /\ Len(b) \in Nat /\ DOMAIN b = 1..Len(b) /\ \A i \in 1..Len(b) : b[i] \in Checksums
<1>1. b \in Seq(Checksums)
  BY MigrateAssumption
<1> QED BY <1>1, LenProperties, ElementOfSeq

(* The first of what is missing is the next after what is recorded. *)
LEMMA NextIs ==
  ASSUME MigrateInv, NEW s \in Servers, server[s] = "listed"
  PROVE  /\ Missing(s) = {} => BeginsWith(versions, build[s])
         /\ Missing(s) # {} => Next1(s) = Len(versions) + 1 /\ Next1(s) \in 1..Len(build[s])
<1>1. build[s] \in Builds /\ versions \in Seq(Checksums) /\ listed[s] = versions /\ BeginsWith(build[s], versions)
  BY DEF MigrateInv, MigrateTyped, AppliesAlone
<1>2. Len(versions) \in Nat /\ DOMAIN versions = 1..Len(versions)
  BY <1>1
<1>3. Len(build[s]) \in Nat /\ DOMAIN build[s] = 1..Len(build[s])
  BY <1>1, BuildIs
<1>4. Len(versions) <= Len(build[s])
  BY <1>1 DEF BeginsWith
<1>5. Missing(s) = (Len(versions) + 1)..Len(build[s])
  BY <1>1, <1>2, <1>3 DEF Missing
<1>6. ASSUME Missing(s) = {}
      PROVE  BeginsWith(versions, build[s])
  <2>1. Len(versions) = Len(build[s])
    <3>1. Len(versions) + 1 \notin (Len(versions) + 1)..Len(build[s])
      BY <1>5, <1>6
    <3> QED BY <1>2, <1>3, <1>4, <3>1
  <2> QED BY <1>1, <2>1 DEF BeginsWith
<1>7. ASSUME Missing(s) # {}
      PROVE  Next1(s) = Len(versions) + 1 /\ Next1(s) \in 1..Len(build[s])
  <2> DEFINE n == Len(versions) + 1
  <2>1. n \in Missing(s) /\ \A k \in Missing(s) : n <= k
    BY <1>2, <1>3, <1>4, <1>5, <1>7
  <2>2. Next1(s) \in Missing(s) /\ \A k \in Missing(s) : Next1(s) <= k
    BY <2>1 DEF Next1
  <2>3. Missing(s) \subseteq Nat
    BY <1>2, <1>3, <1>5
  <2>4. Next1(s) = n
    BY <2>1, <2>2, <2>3
  <2> QED BY <1>2, <1>3, <1>5, <2>2, <2>4
<1> QED BY <1>6, <1>7

(* An empty database, and no Server up. *)
LEMMA MigrateStart == MigrateInit => MigrateInv
<1> SUFFICES ASSUME MigrateInit PROVE MigrateInv
  OBVIOUS
<1>1. Builds # {} /\ (CHOOSE b \in Builds : TRUE) \in Builds
  BY MigrateAssumption
<1>2. MigrateTyped
  BY <1>1 DEF MigrateInit, MigrateTyped, NoVersions
<1>3. Len(versions) = 0 /\ Len(applied) = 0
  BY DEF MigrateInit, NoVersions
<1>4. OfABuild
  BY <1>1, <1>3, BuildIs DEF OfABuild, BeginsWith
<1> QED BY <1>2, <1>3, <1>4 DEF MigrateInit, MigrateInv, Recorded, AppliesAlone, ServedWhole

(* A Server starts, waits, is refused or goes down: the database is as it  *)
(* was. *)
LEMMA ServersKeep ==
  ASSUME MigrateInv, NEW s \in Servers,
         \/ \E b \in Builds : StartServer(s, b)
         \/ ListVersions(s) \/ Serves(s) \/ LosesConnection(s) \/ ServerDies(s)
  PROVE  MigrateInv'
<1> USE NoServerAssumption
<1>1. ASSUME NEW b \in Builds, StartServer(s, b)
      PROVE  MigrateInv'
  BY <1>1 DEF StartServer, Becomes, MigrateInv, MigrateTyped, Recorded, OfABuild, AppliesAlone, ServedWhole
<1>2. CASE ListVersions(s) /\ Known(s, versions)
  <2>1. /\ server' = [server EXCEPT ![s] = "listed"] /\ lockedBy' = s
        /\ listed' = [listed EXCEPT ![s] = versions] /\ UNCHANGED <<applied, versions, build>>
        /\ lockedBy = NoServer
    BY <1>2 DEF ListVersions, Becomes
  <2>2. BeginsWith(build[s], versions)
    <3>1. build[s] \in Builds /\ versions \in Seq(Checksums)
      BY DEF MigrateInv, MigrateTyped
    <3>2. /\ Len(versions) \in Nat /\ DOMAIN versions = 1..Len(versions)
          /\ Len(build[s]) \in Nat /\ DOMAIN build[s] = 1..Len(build[s])
      BY <3>1, BuildIs, LenProperties
    <3>3. \A n \in 1..Len(versions) : n \in 1..Len(build[s]) /\ build[s][n] = versions[n]
      BY <1>2, <3>2 DEF Known
    <3>4. Len(versions) <= Len(build[s])
      <4>1. CASE Len(versions) = 0
        BY <3>2, <4>1
      <4>2. CASE Len(versions) # 0
        <5>1. Len(versions) \in 1..Len(versions)
          BY <3>2, <4>2
        <5>2. Len(versions) \in 1..Len(build[s])
          BY <3>3, <5>1
        <5> QED BY <3>2, <5>2
      <4> QED BY <4>1, <4>2
    <3> QED BY <3>3, <3>4 DEF BeginsWith
  <2>3. MigrateTyped'
    BY <2>1 DEF MigrateInv, MigrateTyped
  <2>4. AppliesAlone'
    BY <2>1, <2>2 DEF MigrateInv, MigrateTyped, AppliesAlone, BeginsWith
  <2>5. ServedWhole'
    BY <2>1 DEF MigrateInv, MigrateTyped, ServedWhole, BeginsWith
  <2> QED BY <2>1, <2>3, <2>4, <2>5 DEF MigrateInv, Recorded, OfABuild, BeginsWith
<1>3. ASSUME NEW to \in {"serving", "refused", "down"}, server' = [server EXCEPT ![s] = to],
             to = "serving" => BeginsWith(versions, build[s]),
             lockedBy' = IF lockedBy = s THEN NoServer ELSE lockedBy,
             listed' = [listed EXCEPT ![s] = NoVersions] \/ listed' = listed, UNCHANGED <<applied, versions, build>>
      PROVE  MigrateInv'
  <2>1. NoVersions \in Seq(Checksums)
    BY DEF NoVersions
  <2>2. MigrateTyped'
    BY <1>3, <2>1 DEF MigrateInv, MigrateTyped
  <2>3. \A q \in Servers \ {s} : server'[q] = server[q] /\ listed'[q] = listed[q]
    BY <1>3 DEF MigrateInv, MigrateTyped
  <2>4. server'[s] = to
    BY <1>3 DEF MigrateInv, MigrateTyped
  <2>5. AppliesAlone'
    BY <1>3, <2>3, <2>4 DEF MigrateInv, AppliesAlone, BeginsWith
  <2>6. ServedWhole'
    BY <1>3, <2>3, <2>4 DEF MigrateInv, ServedWhole, BeginsWith
  <2> QED BY <1>3, <2>2, <2>5, <2>6 DEF MigrateInv, Recorded, OfABuild, BeginsWith
<1>4. CASE ListVersions(s) /\ ~Known(s, versions)
  BY <1>3, <1>4 DEF ListVersions, Becomes
<1>5. CASE Serves(s)
  BY <1>3, <1>5, NextIs DEF Serves, Becomes, Unlocks, Forgets
<1>6. CASE LosesConnection(s) \/ ServerDies(s)
  BY <1>3, <1>6 DEF LosesConnection, ServerDies, Becomes, Unlocks, Forgets
<1> QED BY <1>1, <1>2, <1>4, <1>5, <1>6

(* A migration is applied and recorded, or its name was recorded before. *)
LEMMA ApplyKeeps ==
  ASSUME MigrateInv, NEW s \in Servers, ApplyNext(s)
  PROVE  MigrateInv'
<1> DEFINE n == Len(versions) + 1
<1> DEFINE sum == build[s][n]
<1>1. /\ server[s] = "listed" /\ lockedBy = s /\ Missing(s) # {} /\ build' = build
      /\ build[s] \in Builds /\ versions \in Seq(Checksums) /\ applied \in Seq(Entry)
      /\ listed[s] = versions /\ BeginsWith(build[s], versions)
  BY DEF ApplyNext, MigrateInv, MigrateTyped, AppliesAlone
<1>2. /\ Next1(s) = n /\ n \in 1..Len(build[s]) /\ sum \in Checksums
      /\ Len(versions) \in Nat /\ DOMAIN versions = 1..Len(versions)
      /\ Len(build[s]) \in Nat
  BY <1>1, NextIs, BuildIs, LenProperties
<1>3. n \notin DOMAIN versions
  BY <1>2
<1>4. /\ applied' = Append(applied, [name |-> n, sum |-> sum])
      /\ versions' = [k \in DOMAIN versions \cup {n} |-> IF k = n THEN sum ELSE versions[k]]
      /\ listed' = [listed EXCEPT ![s] = versions'] /\ UNCHANGED <<server, lockedBy>>
  BY <1>2, <1>3 DEF ApplyNext
<1>5. versions' = Append(versions, sum)
  <2>1. DOMAIN versions \cup {n} = 1..n
    BY <1>2
  <2>2. versions' = [k \in 1..n |-> IF k = n THEN sum ELSE versions[k]]
    BY <1>4, <2>1
  <2>3. Append(versions, sum) = [k \in 1..n |-> IF k = n THEN sum ELSE versions[k]]
    <3>1. Append(versions, sum) \in [1..n -> Checksums]
      <4>1. PICK v : v = Append(versions, sum)
        OBVIOUS
      <4>2. v \in Seq(Checksums) /\ Len(v) = n
        BY <1>1, <1>2, <4>1, AppendProperties
      <4>3. v \in [1..Len(v) -> Checksums]
        BY <4>2, LenProperties
      <4> QED BY <4>1, <4>2, <4>3
    <3>2. \A k \in 1..n : Append(versions, sum)[k] = IF k = n THEN sum ELSE versions[k]
      BY <1>1, <1>2, AppendProperties
    <3> QED BY <3>1, <3>2
  <2> QED BY <2>2, <2>3
<1>6. /\ versions' \in Seq(Checksums) /\ Len(versions') = n
      /\ versions'[n] = sum /\ \A i \in 1..Len(versions) : versions'[i] = versions[i]
  BY <1>1, <1>2, <1>5, AppendProperties
<1>7. PICK e : e = [name |-> n, sum |-> sum]
  OBVIOUS
<1>8. e \in Entry /\ e.name = n /\ e.sum = sum
  BY <1>2, <1>7 DEF Entry
<1>9. /\ applied' \in Seq(Entry) /\ Len(applied') = Len(applied) + 1
      /\ applied'[Len(applied) + 1] = e /\ \A i \in 1..Len(applied) : applied'[i] = applied[i]
  BY <1>1, <1>4, <1>7, <1>8, AppendProperties
<1> HIDE DEF sum
<1>10. MigrateTyped'
  BY <1>1, <1>4, <1>6, <1>9 DEF MigrateInv, MigrateTyped
<1>11. Recorded'
  <2>1. Len(versions) = Len(applied) /\ \A i \in 1..Len(applied) : applied[i].name = i /\ applied[i].sum = versions[i]
    BY DEF MigrateInv, Recorded
  <2>2. ASSUME NEW i \in 1..n
        PROVE  applied'[i].name = i /\ applied'[i].sum = versions'[i]
    <3>1. CASE i = n
      BY <1>6, <1>8, <1>9, <2>1, <3>1
    <3>2. CASE i # n
      <4>1. i \in 1..Len(versions)
        BY <1>2, <2>2, <3>2
      <4> QED BY <1>6, <1>9, <2>1, <4>1
    <3> QED BY <3>1, <3>2
  <2> QED BY <1>6, <1>9, <2>1, <2>2 DEF Recorded
<1>12. BeginsWith(build[s], versions')
  <2>1. ASSUME NEW i \in 1..n
        PROVE  build[s][i] = versions'[i]
    <3>1. CASE i = n
      BY <1>6, <3>1 DEF sum
    <3>2. CASE i # n
      <4>1. i \in 1..Len(versions)
        BY <1>2, <2>1, <3>2
      <4> QED BY <1>1, <1>6, <4>1 DEF BeginsWith
    <3> QED BY <3>1, <3>2
  <2> QED BY <1>2, <1>6, <2>1 DEF BeginsWith
<1>13. OfABuild'
  <2>1. \E b \in Builds : BeginsWith(b, versions')
    BY <1>1, <1>12
  <2> QED BY <2>1 DEF OfABuild, BeginsWith
<1>14. AppliesAlone'
  <2>1. \A q \in Servers : server[q] = "listed" => q = s
    BY <1>1 DEF MigrateInv, AppliesAlone
  <2>2. listed'[s] = versions'
    BY <1>4 DEF MigrateInv, MigrateTyped
  <2>3. \A q \in Servers : server'[q] = "listed" =>
          lockedBy' = q /\ listed'[q] = versions' /\ BeginsWith(build'[q], versions')
    BY <1>1, <1>4, <1>12, <2>1, <2>2
  <2> QED BY <2>3 DEF AppliesAlone, BeginsWith
<1>15. ServedWhole'
  <2>1. ASSUME NEW q \in Servers, server'[q] = "serving"
        PROVE  BeginsWith(versions', build'[q])
    <3>1. BeginsWith(versions, build[q]) /\ build'[q] = build[q] /\ build[q] \in Builds
      BY <1>1, <1>4, <2>1 DEF MigrateInv, MigrateTyped, ServedWhole
    <3>2. Len(build[q]) \in Nat
      BY <3>1, BuildIs
    <3>3. \A i \in 1..Len(build[q]) : i \in 1..Len(versions)
      BY <1>2, <3>1, <3>2 DEF BeginsWith
    <3> QED BY <1>2, <1>6, <3>1, <3>2, <3>3 DEF BeginsWith
  <2> QED BY <2>1 DEF ServedWhole, BeginsWith
<1> QED BY <1>10, <1>11, <1>13, <1>14, <1>15 DEF MigrateInv

(* A sequence begins with another: its first elements are the other's. *)
LEMMA PrefixIs ==
  ASSUME NEW s \in Seq(Checksums), NEW t \in Seq(Checksums), BeginsWith(t, s)
  PROVE  IsPrefix(s, t)
<1> DEFINE k == Len(s)
<1>1. k \in Nat /\ Len(t) \in Nat /\ k <= Len(t)
  BY DEF BeginsWith
<1>2. \A i \in 1..k : s[i] \in Checksums /\ t[i] \in Checksums /\ s[i] = t[i]
  BY <1>1, ElementOfSeq DEF BeginsWith
<1>3. SubSeq(s, 1, k) \in Seq(Checksums) /\ SubSeq(t, 1, k) \in Seq(Checksums)
  BY <1>1, <1>2, SubSeqProperties
<1>4. Len(SubSeq(s, 1, k)) = k /\ Len(SubSeq(t, 1, k)) = k
  <2>1. /\ Len(SubSeq(s, 1, k)) = IF 1 <= k THEN k - 1 + 1 ELSE 0
        /\ Len(SubSeq(t, 1, k)) = IF 1 <= k THEN k - 1 + 1 ELSE 0
    BY <1>1, <1>2, SubSeqProperties
  <2> QED BY <1>1, <2>1
<1>5. \A i \in 1..k : SubSeq(s, 1, k)[i] = SubSeq(t, 1, k)[i]
  <2>1. \A i \in 1..(k - 1 + 1) : SubSeq(s, 1, k)[i] = s[1 + i - 1] /\ SubSeq(t, 1, k)[i] = t[1 + i - 1]
    BY <1>1, <1>2, SubSeqProperties
  <2>2. \A i \in 1..k : i \in 1..(k - 1 + 1) /\ 1 + i - 1 = i
    BY <1>1
  <2> QED BY <1>2, <2>1, <2>2
<1>6. SubSeq(s, 1, k) = SubSeq(t, 1, k)
  <2> DEFINE a == SubSeq(s, 1, k)
             b == SubSeq(t, 1, k)
  <2>1. a \in [1..k -> Checksums] /\ b \in [1..k -> Checksums]
    BY <1>3, <1>4, LenProperties
  <2>2. \A i \in 1..k : a[i] = b[i]
    BY <1>5
  <2> HIDE DEF a, b
  <2>3. a = b
    BY <2>1, <2>2
  <2> QED BY <2>3 DEF a, b
<1> QED BY <1>1, <1>6 DEF IsPrefix

(* Every step keeps the invariant of migrations. *)
LEMMA MigrateKept == MigrateInv /\ [MigrateNext]_migrateVars => MigrateInv'
<1>1. MigrateInv /\ UNCHANGED migrateVars => MigrateInv'
  BY DEF migrateVars, MigrateInv, MigrateTyped, Recorded, OfABuild, AppliesAlone, ServedWhole, BeginsWith
<1> QED BY <1>1, ServersKeep, ApplyKeeps DEF MigrateNext, UpStep

(* The schema is one that a build makes from nothing, and a Server that    *)
(* serves finds in it all it was built for: whoever starts, dies or loses  *)
(* its connection meanwhile, in whatever order (migrate.go Up, check).     *)
THEOREM SchemaStaysOfABuild == MigrateSpec => []SchemaIsOfABuild
<1>1. MigrateInv => SchemaIsOfABuild
  <2> SUFFICES ASSUME MigrateInv PROVE SchemaIsOfABuild
    OBVIOUS
  <2>1. versions \in Seq(Checksums) /\ applied \in Seq(Entry) /\ Len(applied) \in Nat /\ DOMAIN applied = 1..Len(applied)
    BY LenProperties DEF MigrateInv, MigrateTyped
  <2>2. Sums(applied) = versions
    <3>1. Len(versions) = Len(applied) /\ \A i \in 1..Len(applied) : applied[i].sum = versions[i]
      BY DEF MigrateInv, Recorded
    <3>2. versions \in [1..Len(applied) -> Checksums]
      BY <2>1, <3>1, LenProperties
    <3> QED BY <3>1, <3>2 DEF Sums
  <2>3. \E b \in Builds : IsPrefix(Sums(applied), b)
    BY <2>1, <2>2, PrefixIs, BuildIs DEF MigrateInv, OfABuild
  <2>4. \A s \in Servers : server[s] = "serving" => IsPrefix(build[s], Sums(applied))
    BY <2>1, <2>2, PrefixIs, BuildIs DEF MigrateInv, MigrateTyped, ServedWhole
  <2> QED BY <2>1, <2>3, <2>4 DEF SchemaIsOfABuild, MigrateInv, Recorded
<1> QED BY MigrateKept, <1>1, MigrateStart, PTL DEF MigrateSpec

(***************************************************************************)
(* Types.                                                                  *)
(***************************************************************************)
(* What a request has read of the Routine names a Task there is. *)
RoutineTypes == RoutinesTypeOK /\ \A c \in Callers : rowRead[c].task <= Len(tasks)

(* A Routine that has not fired. *)
LEMMA RoutineTypesStart == RoutinesInit => RoutineTypes
<1> SUFFICES ASSUME RoutinesInit PROVE RoutineTypes
  OBVIOUS
<1>1. 0 \in 0..MaxTime /\ 0 \in 0..MaxTasks /\ 1 \in 1..MaxTime
  BY RoutineAssumption
<1>2. row \in RoutineRows /\ row.task = 0 /\ NotRead \in RoutineRows /\ NotRead.task = 0
  BY <1>1 DEF RoutinesInit, RoutineRows, NotRead, Never, NoTask
<1>3. tasks \in Seq({"open", "closed"}) /\ Len(tasks) = 0
  BY DEF RoutinesInit
<1>4. began \in [Firers -> 1..MaxTime] /\ rowRead \in [Callers -> RoutineRows]
      /\ doing \in [Callers -> Steps]
  BY <1>1, <1>2 DEF RoutinesInit, Steps
<1>5. clock \in 1..MaxTime /\ open \in BOOLEAN /\ lost \in BOOLEAN /\ reopened \in BOOLEAN
  BY <1>1 DEF RoutinesInit
<1>6. Len(tasks) <= MaxTasks /\ row.task <= Len(tasks)
  BY <1>2, <1>3, RoutineAssumption
<1> QED BY <1>2, <1>3, <1>4, <1>5, <1>6 DEF RoutinesInit, RoutineTypes, RoutinesTypeOK, Steps

(* The rows that a firing that is skipped ...                              *)
LEMMA SkippedRow ==
  ASSUME NEW r \in RoutineRows, NEW last \in 0..MaxTime, NEW new, new = [r EXCEPT !.last = last]
  PROVE  new \in RoutineRows /\ new.task = r.task
BY DEF RoutineRows

(* ... and an edit write.                                                  *)
LEMMA EditedRow ==
  ASSUME NEW r \in RoutineRows, NEW last \in 0..MaxTime, NEW b \in BOOLEAN, NEW new,
         new = [r EXCEPT !.last = last, !.enabled = b]
  PROVE  new \in RoutineRows /\ new.task = r.task
BY DEF RoutineRows

(* A request that ends has read nothing. *)
LEMMA DoneTyped ==
  ASSUME RoutineTypes, NEW c \in Callers, Done(c)
  PROVE  /\ doing' \in [Callers -> Steps]
         /\ rowRead' \in [Callers -> RoutineRows] /\ began' \in [Firers -> 1..MaxTime]
         /\ \A d \in Callers : rowRead'[d].task <= Len(tasks)
<1>1. 0 \in 0..MaxTime /\ 0 \in 0..MaxTasks /\ 1 \in 1..MaxTime
  BY RoutineAssumption
<1>2. NotRead \in RoutineRows /\ NotRead.task = 0
  BY <1>1 DEF RoutineRows, NotRead
<1>3. Len(tasks) \in Nat
  BY DEF RoutineTypes, RoutinesTypeOK
<1> QED BY <1>1, <1>2, <1>3 DEF RoutineTypes, RoutinesTypeOK, Done, Steps

(* Every step keeps the types of Routines. *)
LEMMA RoutineTypesKept == RoutineTypes /\ [RoutinesNext]_routineVars => RoutineTypes'
<1> SUFFICES ASSUME RoutineTypes, [RoutinesNext]_routineVars PROVE RoutineTypes'
  OBVIOUS
<1>0. /\ clock \in 1..MaxTime /\ row \in RoutineRows /\ row.task <= Len(tasks)
      /\ tasks \in Seq({"open", "closed"}) /\ Len(tasks) \in Nat /\ Len(tasks) <= MaxTasks
      /\ MaxTasks \in Nat /\ MaxTime \in Nat /\ Firers \subseteq Callers /\ Editors \subseteq Callers
      /\ \A c \in Callers : rowRead[c] \in RoutineRows /\ rowRead[c].task <= Len(tasks)
      /\ \A f \in Firers : began[f] \in 0..MaxTime
  BY RoutineAssumption DEF RoutineTypes, RoutinesTypeOK, Callers
<1>1. ASSUME NEW c \in Callers, UNCHANGED <<clock, open, row, tasks, began, lost, reopened>>,
             rowRead' = [rowRead EXCEPT ![c] = row], doing' = [doing EXCEPT ![c] = "read"]
      PROVE  RoutineTypes'
  BY <1>0, <1>1 DEF RoutineTypes, RoutinesTypeOK
<1>2. ASSUME NEW c \in Callers, Done(c), UNCHANGED <<clock, open, reopened>>, lost' \in BOOLEAN,
             row' \in RoutineRows, row'.task <= Len(tasks'), Len(tasks) <= Len(tasks'),
             tasks' \in Seq({"open", "closed"}), Len(tasks') <= MaxTasks
      PROVE  RoutineTypes'
  <2>1. /\ doing' \in [Callers -> Steps]
        /\ rowRead' \in [Callers -> RoutineRows] /\ began' \in [Firers -> 1..MaxTime]
        /\ \A d \in Callers : rowRead'[d].task <= Len(tasks)
    BY <1>2, DoneTyped
  <2>2. \A d \in Callers : rowRead'[d].task \in Nat
    BY <2>1, RoutineAssumption DEF RoutineRows
  <2>3. Len(tasks') \in Nat
    BY <1>2
  <2>4. \A d \in Callers : rowRead'[d].task <= Len(tasks')
    BY <1>0, <1>2, <2>1, <2>2, <2>3
  <2> QED BY <1>0, <1>2, <2>1, <2>4 DEF RoutineTypes, RoutinesTypeOK, Steps
<1>3. ASSUME NEW f \in Firers, ReadToFire(f) PROVE RoutineTypes'
  BY <1>0, <1>1, <1>3 DEF ReadToFire
<1>4. ASSUME NEW f \in Firers, BeginFiring(f) PROVE RoutineTypes'
  <2>1. CASE open
    BY <1>0, <1>4, <2>1 DEF BeginFiring, RoutineTypes, RoutinesTypeOK
  <2>2. CASE ~open
    BY <1>0, <1>2, <1>4, <2>2 DEF BeginFiring, RoutineTypes, RoutinesTypeOK
  <2> QED BY <2>1, <2>2
<1>5. ASSUME NEW f \in Firers, Skip(f) PROVE RoutineTypes'
  <2>1. row' = [row EXCEPT !.last = began[f]] /\ Done(f) /\ UNCHANGED <<clock, open, tasks, lost, reopened>>
    BY <1>5 DEF Skip
  <2>2. row' \in RoutineRows /\ row'.task = row.task
    <3>1. PICK r \in RoutineRows, last \in 0..MaxTime : r = row /\ last = began[f]
      BY <1>0
    <3>2. PICK new : new = row'
      OBVIOUS
    <3>3. new = [r EXCEPT !.last = last]
      BY <2>1, <3>1, <3>2
    <3>4. new \in RoutineRows /\ new.task = r.task
      BY <3>3, SkippedRow
    <3> QED BY <3>1, <3>2, <3>4
  <2>3. /\ f \in Callers /\ lost' \in BOOLEAN /\ tasks' \in Seq({"open", "closed"})
        /\ Len(tasks) <= Len(tasks') /\ Len(tasks') <= MaxTasks /\ row'.task <= Len(tasks')
    BY <1>0, <2>1, <2>2 DEF RoutineTypes, RoutinesTypeOK
  <2> QED BY <1>2, <2>1, <2>2, <2>3
<1>6. ASSUME NEW f \in Firers, Fire(f) PROVE RoutineTypes'
  <2>1. /\ Len(tasks) < MaxTasks /\ tasks' = Append(tasks, "open") /\ Done(f)
        /\ row' = [rowRead[f] EXCEPT !.last = began[f], !.task = Len(tasks')] /\ UNCHANGED <<clock, open, lost, reopened>>
    BY <1>6 DEF Fire
  <2>2. tasks' \in Seq({"open", "closed"}) /\ Len(tasks') = Len(tasks) + 1
    BY <1>0, <2>1, AppendProperties
  <2>3. row' \in RoutineRows /\ row'.task = Len(tasks')
    <3>1. Len(tasks') \in 0..MaxTasks
      BY <1>0, <2>1, <2>2
    <3>2. PICK r \in RoutineRows, last \in 0..MaxTime, n \in 0..MaxTasks :
            r = rowRead[f] /\ last = began[f] /\ n = Len(tasks')
      BY <1>0, <3>1
    <3>3. PICK new : new = row'
      OBVIOUS
    <3>4. new = [r EXCEPT !.last = last, !.task = n]
      BY <2>1, <3>2, <3>3
    <3>5. new \in RoutineRows /\ new.task = n
      BY <3>4 DEF RoutineRows
    <3> QED BY <3>2, <3>3, <3>5
  <2>4. /\ Len(tasks) <= Len(tasks') /\ Len(tasks') <= MaxTasks /\ row'.task <= Len(tasks')
    BY <1>0, <2>1, <2>2, <2>3
  <2> QED BY <1>0, <1>2, <2>1, <2>2, <2>3, <2>4 DEF RoutineTypes, RoutinesTypeOK
<1>7. ASSUME NEW f \in Firers, NotFired(f) PROVE RoutineTypes'
  BY <1>0, <1>2, <1>7 DEF NotFired, RoutineTypes, RoutinesTypeOK
<1>8. ASSUME NEW e \in Editors, ReadToEdit(e) PROVE RoutineTypes'
  BY <1>0, <1>1, <1>8 DEF ReadToEdit
<1>9. ASSUME NEW e \in Editors, NEW b \in BOOLEAN, WriteEdit(e, b) PROVE RoutineTypes'
  <2>1. /\ row' = [rowRead[e] EXCEPT !.last = row.last, !.enabled = b] /\ Done(e)
        /\ lost' = (lost \/ row'.task # row.task) /\ UNCHANGED <<clock, open, tasks, reopened>>
    BY <1>9 DEF WriteEdit
  <2>2. row.last \in 0..MaxTime
    BY <1>0 DEF RoutineRows
  <2>3. row' \in RoutineRows /\ row'.task = rowRead[e].task
    <3>1. PICK r \in RoutineRows, last \in 0..MaxTime : r = rowRead[e] /\ last = row.last
      BY <1>0, <2>2
    <3>2. PICK new : new = row'
      OBVIOUS
    <3>3. new = [r EXCEPT !.last = last, !.enabled = b]
      BY <2>1, <3>1, <3>2
    <3>4. /\ [r EXCEPT !.last = last, !.enabled = b] \in RoutineRows
          /\ [r EXCEPT !.last = last, !.enabled = b].task = r.task
      BY EditedRow
    <3> QED BY <3>1, <3>2, <3>3, <3>4
  <2>4. e \in Callers /\ lost' \in BOOLEAN
    <3>1. e \in Callers
      BY <1>0
    <3>2. lost' = (lost \/ row'.task # row.task)
      BY <2>1
    <3>3. lost' \in {TRUE, FALSE}
      BY <3>2, Zenon
    <3> QED BY <3>1, <3>3
  <2>5. row'.task <= Len(tasks') /\ Len(tasks) <= Len(tasks')
    BY <1>0, <2>1, <2>3, <2>4
  <2>6. tasks' \in Seq({"open", "closed"}) /\ Len(tasks') <= MaxTasks
    BY <1>0, <2>1
  <2> QED BY <1>2, <2>1, <2>3, <2>4, <2>5, <2>6
<1>10. ASSUME NEW t \in DOMAIN tasks, SetTask(t) PROVE RoutineTypes'
  <2>1. PICK to \in {"open", "closed"} : tasks' = [tasks EXCEPT ![t] = to]
    BY <1>10 DEF SetTask
  <2>2. tasks' \in Seq({"open", "closed"}) /\ Len(tasks') = Len(tasks)
    BY <1>0, <2>1, ExceptSeq
  <2>3. UNCHANGED <<clock, open, row, doing, rowRead, began, lost>>
    BY <1>10 DEF SetTask
  <2>4. reopened' \in BOOLEAN
    BY <1>10, Zenon DEF SetTask, RoutineTypes, RoutinesTypeOK
  <2> QED BY <1>0, <2>2, <2>3, <2>4 DEF RoutineTypes, RoutinesTypeOK
<1>11. CASE SetArchived \/ Tick
  <2>1. UNCHANGED <<row, tasks, doing, rowRead, began, lost, reopened>>
    BY <1>11 DEF SetArchived, Tick
  <2>2. clock' \in 1..MaxTime
    BY <1>0, <1>11 DEF SetArchived, Tick
  <2>3. open' \in BOOLEAN
    BY <1>11, Zenon DEF SetArchived, Tick, RoutineTypes, RoutinesTypeOK
  <2> QED BY <2>1, <2>2, <2>3 DEF RoutineTypes, RoutinesTypeOK
<1>12. CASE UNCHANGED routineVars
  BY <1>12 DEF routineVars, RoutineTypes, RoutinesTypeOK
<1>13. ASSUME NEW f \in Firers, Claim(f) PROVE RoutineTypes'
  <2>1. UNCHANGED <<clock, open, row, tasks, rowRead, began, lost>> /\ reopened' = FALSE
    BY <1>13 DEF Claim
  <2>2. doing' \in [Callers -> Steps]
    BY <1>0, <1>13 DEF Claim, RoutineTypes, RoutinesTypeOK, Steps
  <2> QED BY <2>1, <2>2 DEF RoutineTypes, RoutinesTypeOK, Steps
<1> QED BY <1>13, <1>3, <1>4, <1>5, <1>6, <1>7, <1>8, <1>9, <1>10, <1>11, <1>12 DEF RoutinesNext

(* Only a Server has the advisory lock. *)
LockTyped == lockedBy \in Servers \cup {NoServer}

(* It stays so. *)
LEMMA LockTypedKept == LockTyped /\ [MigrateNext]_migrateVars => LockTyped'
BY DEF LockTyped, migrateVars, MigrateNext, UpStep, StartServer, ListVersions, ApplyNext, Serves, LosesConnection,
       ServerDies, Unlocks

(* Only replies reach an agent as events, and only Runs are reported. *)
ThreadRest == passed \in [Runs -> SUBSET (Replies \cup Steers)] /\ reporting \subseteq Runs

(* It stays so. *)
LEMMA ThreadRestKept == ThreadRest /\ [ThreadNext]_threadVars => ThreadRest'
<1> SUFFICES ASSUME ThreadRest, [ThreadNext]_threadVars PROVE ThreadRest'
  OBVIOUS
<1> USE DEF ThreadRest, runsVars
<1>1. ASSUME NEW t \in Tx, RequestStep(t) PROVE ThreadRest'
  <2>1. CASE t \in Replies /\ SteerTask(t)
    <3>1. reporting' = reporting /\ (passed' = passed \/ \E r : passed' = [passed EXCEPT ![r] = @ \cup {t}])
      BY <2>1 DEF SteerTask
    <3> QED BY <2>1, <3>1
  <2>2. CASE t \in Asks /\ \E r \in Runs : HandOn(t, r)
    BY <2>2 DEF HandOn, Creates
  <2> QED BY <1>1, <2>1, <2>2 DEF RequestStep, LockTask, ListRuns, HandOnOnly, EndCanceled, Advance, Note, Abort
<1>2. ASSUME NEW p \in Writers, WriteReply(p) PROVE ThreadRest'
  BY <1>2 DEF WriteReply
<1>3. ASSUME NEW h \in Starts, ReadThread(h) \/ \E r \in Runs : StartRun(h, r) PROVE ThreadRest'
  BY <1>3 DEF ReadThread, StartRun, Creates
<1>4. ASSUME NEW s \in Steers, NEW r \in Runs, SteerOne(s, r) PROVE ThreadRest'
  <2>1. reporting' = reporting /\ (passed' = passed \/ passed' = [passed EXCEPT ![r] = @ \cup {s}])
    BY <1>4 DEF SteerOne
  <2> QED BY <1>4, <2>1
<1>5. ASSUME NEW r \in Runs, ClaimOne(r) \/ HasOutcome(r) \/ Report(r) \/ Cancel(r) PROVE ThreadRest'
  BY <1>5 DEF ClaimOne, HasOutcome, Report, Cancel
<1>6. CASE UNCHANGED threadVars
  BY <1>6 DEF threadVars
<1> QED BY <1>1, <1>2, <1>3, <1>4, <1>5, <1>6 DEF ThreadNext

(* Each message has its own number. *)
Begun == {l \in Letters : letter[l].at # "none"}
DrawnFits == drawn <= Cardinality(Begun)

(* The messages begun are finitely many, and no more than there are. *)
LEMMA BegunFinite == IsFiniteSet(Begun) /\ Cardinality(Begun) \in Nat /\ Cardinality(Begun) <= Cardinality(Letters)
<1>1. Begun \subseteq Letters
  BY DEF Begun
<1> QED BY <1>1, FS_Subset, FS_CardinalityType, ConversationAssumption

(* A number is drawn only for a message that had none. *)
LEMMA DrawnFitsKept == DMInv /\ DrawnFits /\ [DMNext]_dmVars => DrawnFits'
<1> SUFFICES ASSUME DMInv, DrawnFits, [DMNext]_dmVars PROVE DrawnFits'
  OBVIOUS
<1>0. drawn \in Nat /\ letter \in [Letters -> LetterRow]
  BY DEF DMInv, DMTyped
<1>1. ASSUME drawn' = drawn, Begun' = Begun PROVE DrawnFits'
  BY <1>1 DEF DrawnFits
<1>2. ASSUME NEW l \in Letters, InsertLetter(l) PROVE DrawnFits'
  <2>1. l \notin Begun /\ drawn' = drawn + 1
    BY <1>2 DEF InsertLetter, Begun
  <2>2. PICK r : r = [at |-> "writing", seq |-> drawn + 1, text |-> "as written", deleted |-> FALSE]
    OBVIOUS
  <2>3. r.at = "writing" /\ letter' = [letter EXCEPT ![l] = r]
    BY <1>2, <2>1, <2>2 DEF InsertLetter
  <2>4. letter'[l].at # "none" /\ \A k \in Letters \ {l} : letter'[k] = letter[k]
    BY <1>0, <2>3
  <2>5. Begun' = Begun \cup {l}
    BY <2>4 DEF Begun
  <2>6. Cardinality(Begun \cup {l}) = Cardinality(Begun) + 1
    BY <2>1, BegunFinite, FS_AddElement
  <2> QED BY <1>0, <2>1, <2>5, <2>6, BegunFinite DEF DrawnFits
<1>3. ASSUME NEW l \in Letters, CommitLetter(l) PROVE DrawnFits'
  <2>1. PICK at \in {"posted", "undone"} : letter' = [letter EXCEPT ![l].at = at]
    BY <1>3 DEF CommitLetter
  <2>2. \A k \in Letters : letter'[k].at # "none" <=> letter[k].at # "none"
    BY <1>0, <1>3, <2>1 DEF CommitLetter, LetterRow
  <2>3. Begun' = Begun
    BY <2>2 DEF Begun
  <2> QED BY <1>1, <1>3, <2>3 DEF CommitLetter
<1>4. ASSUME NEW c \in Changes, ChangeMessage(c) PROVE DrawnFits'
  <2>1. PICK l \in change[c].of : letter' = [letter EXCEPT ![l] = Changed(l, change[c].kind)]
    BY <1>4 DEF ChangeMessage
  <2>2. l \in Letters
    BY DEF DMInv, DMTyped, ChangeRow
  <2>3. PICK r : r = Changed(l, change[c].kind)
    OBVIOUS
  <2>4. r.at = letter[l].at
    BY <1>0, <2>2, <2>3 DEF Changed, LetterRow
  <2>5. \A k \in Letters : letter'[k].at = letter[k].at
    BY <1>0, <2>1, <2>2, <2>3, <2>4
  <2>6. Begun' = Begun
    BY <2>5 DEF Begun
  <2> QED BY <1>1, <1>4, <2>6 DEF ChangeMessage
<1>5. ASSUME drawn' = drawn, letter' = letter PROVE DrawnFits'
  BY <1>1, <1>5 DEF Begun
<1>6. ASSUME NEW c \in Changes, NEW l \in Letters, NEW k \in {"edit", "delete"}, OwnMessage(c, l, k) PROVE DrawnFits'
  BY <1>5, <1>6 DEF OwnMessage
<1>7. CASE ListMessages \/ (\E s \in 1..Cardinality(Letters) : MarkRead(s)) \/ CloseDM \/ ReopenDM
  BY <1>5, <1>7 DEF ListMessages, MarkRead, CloseDM, ReopenDM
<1>8. CASE UNCHANGED dmVars
  BY <1>5, <1>8 DEF dmVars
<1> QED BY <1>2, <1>3, <1>4, <1>6, <1>7, <1>8 DEF DMNext

(* The types of direct messages follow: all that was read, closed and      *)
(* listed is of numbers that were drawn.                                   *)
LEMMA DMTypes == DMInv /\ DrawnFits => DMTypeOK
<1> SUFFICES ASSUME DMInv, DrawnFits PROVE DMTypeOK
  OBVIOUS
<1>0. /\ drawn \in Nat /\ letter \in [Letters -> LetterRow] /\ change \in [Changes -> ChangeRow]
      /\ closedDM \in [is : BOOLEAN, seq : Nat] /\ marker \in Nat /\ looked \in Nat
      /\ sinceClose \subseteq Letters /\ sinceRead \subseteq Letters
      /\ \A l \in Letters : letter[l].seq <= drawn
      /\ closedDM.seq <= drawn /\ marker <= drawn /\ looked <= drawn
  BY DEF DMInv, DMTyped, DMSound
<1>1. drawn \in 0..Cardinality(Letters)
  <2>1. Cardinality(Letters) \in Nat
    BY FS_CardinalityType, ConversationAssumption
  <2> QED BY <1>0, <2>1, BegunFinite DEF DrawnFits
<1>2. \A l \in Letters : letter[l] \in [at : {"none", "writing", "posted", "undone"}, seq : 0..drawn,
                                         text : Texts, deleted : BOOLEAN]
  <2>1. ASSUME NEW r \in LetterRow, r.seq <= drawn
        PROVE  r \in [at : {"none", "writing", "posted", "undone"}, seq : 0..drawn, text : Texts, deleted : BOOLEAN]
    BY <1>0, <2>1 DEF LetterRow
  <2> QED BY <1>0, <2>1
<1>3. closedDM \in [is : BOOLEAN, seq : 0..drawn]
  BY <1>0
<1>4. marker \in 0..drawn /\ looked \in 0..drawn
  BY <1>0
<1> QED BY <1>0, <1>1, <1>2, <1>3, <1>4 DEF DMTypeOK, ChangeRow

(* The types of Decisions follow from their invariant. *)
LEMMA QuestionsTypes == QuestionsInv => QuestionsTypeOK
<1> SUFFICES ASSUME QuestionsTyped, QuestionsSound PROVE QuestionsTypeOK
  BY DEF QuestionsInv
<1>1. \A d \in Decisions : decision[d].at \in {"none", "reading", "open", "answered"}
  BY DEF QuestionsTyped, Decided
<1> QED BY <1>1 DEF QuestionsTyped, QuestionsSound, Answered, QuestionsTypeOK

(* The types of migrations follow from theirs, ... *)
LEMMA MigrateTypes == MigrateInv /\ LockTyped => MigrateTypeOK
<1> SUFFICES ASSUME MigrateInv, LockTyped PROVE MigrateTypeOK
  OBVIOUS
<1>1. \A i \in DOMAIN applied : applied[i].name \in Nat
  <2>1. DOMAIN applied = 1..Len(applied) /\ applied \in Seq(Entry)
    BY LenProperties DEF MigrateInv, MigrateTyped
  <2>2. \A i \in 1..Len(applied) : applied[i] \in Entry
    BY <2>1, ElementOfSeq
  <2> QED BY <2>1, <2>2 DEF Entry
<1> QED BY <1>1 DEF MigrateInv, MigrateTyped, LockTyped, MigrateTypeOK

(* ... and those of threads from theirs. *)
LEMMA ThreadTypes == ThreadInv /\ ThreadRest => ThreadTypeOK
BY DEF ThreadInv, ThreadTyped, ThreadRest, ThreadTypeOK, StepNames
-----------------------------------------------------------------------------
(* The Server's parts together. *)
ServerInv ==
  /\ RoutineTypes /\ FilesInv /\ DMInv /\ DrawnFits /\ MigrateInv /\ LockTyped /\ PresenceInv
  /\ ThreadInv /\ ThreadRest /\ MembersInv /\ QuestionsInv

(* All parts start as they do alone. *)
LEMMA ServerStarts == ServerInit => ServerInv
<1> SUFFICES ASSUME ServerInit PROVE ServerInv
  OBVIOUS
<1>1. /\ RoutinesInit /\ FilesInit /\ DMInit /\ MigrateInit /\ PresenceInit /\ ThreadInit /\ MembersInit
      /\ QuestionsInit
  BY DEF ServerInit
<1>2. DrawnFits
  <2>1. drawn = 0
    BY <1>1 DEF DMInit
  <2> QED BY <2>1, BegunFinite DEF DrawnFits
<1>3. LockTyped /\ ThreadRest
  BY <1>1 DEF MigrateInit, LockTyped, ThreadInit, ThreadRest
<1> QED
  BY <1>1, <1>2, <1>3, RoutineTypesStart, FilesStart, DMStart, MigrateStart, PresenceStarts, ThreadStarts,
     MembersStart, QuestionsStart DEF ServerInv

(* One part moves, and what is true of the others stays. *)
LEMMA ServerPartsMove ==
  [ServerNext]_serverParts =>
    /\ [RoutinesNext]_routineVars /\ [FilesNext]_fileVars /\ [DMNext]_dmVars /\ [MigrateNext]_migrateVars
    /\ [PresenceNext]_presenceVars /\ [ThreadNext]_threadVars /\ [MembersNext]_memberVars
    /\ [QuestionsNext]_questionVars
BY DEF ServerNext, serverParts

(* Whichever part moves, the invariants of all are kept. *)
LEMMA ServerKept == ServerInv /\ [ServerNext]_serverParts => ServerInv'
BY ServerPartsMove, RoutineTypesKept, FilesKept, DMKept, DrawnFitsKept, MigrateKept, LockTypedKept, PresenceKept,
   ThreadKept, ThreadRestKept, MembersKept, QuestionsKept DEF ServerInv

(* Every part's variables have their types: no Routine names a Task it has *)
(* not opened, a direct message's numbers are ones that were drawn and no  *)
(* more of them than messages, a Decision is answered just if it has an    *)
(* answer, and only a Server that exists has the advisory lock             *)
(* (routines.go, chat.go, decisions.go, migrate.go).                       *)
THEOREM ServerPartsAreTyped == ServerSpec => []ServerTypeOK
<1>1. ServerInv => ServerTypeOK
  <2> SUFFICES ASSUME ServerInv PROVE ServerTypeOK
    OBVIOUS
  <2>1. RoutinesTypeOK /\ FilesTypeOK /\ PresenceTypeOK /\ MembersTypeOK
    BY DEF ServerInv, RoutineTypes, FilesInv, PresenceInv, MembersInv, MembersTyped
  <2>2. DMTypeOK /\ MigrateTypeOK /\ ThreadTypeOK /\ QuestionsTypeOK
    BY DMTypes, MigrateTypes, ThreadTypes, QuestionsTypes DEF ServerInv
  <2> QED BY <2>1, <2>2 DEF ServerTypeOK
<1> QED BY <1>1, ServerStarts, ServerKept, PTL DEF ServerSpec

(* Each part behaves as it does alone, while the others rest: what the     *)
(* theorems about a part say of it is true of it in the Server             *)
(* (internal/core, internal/migrate).                                      *)
LEMMA ServerPartsBehave ==
  ServerSpec => /\ RoutinesSpec /\ FilesSpec /\ DMSpec /\ MigrateSpec /\ PresenceSpec
                /\ ThreadSpec /\ MembersSpec /\ QuestionsSpec
<1>1. ServerInit => /\ RoutinesInit /\ FilesInit /\ DMInit /\ MigrateInit /\ PresenceInit
                    /\ ThreadInit /\ MembersInit /\ QuestionsInit
  BY DEF ServerInit
<1> QED
  BY <1>1, ServerPartsMove, PTL
     DEF ServerSpec, RoutinesSpec, FilesSpec, DMSpec, MigrateSpec, PresenceSpec, ThreadSpec, MembersSpec, QuestionsSpec

(* What its parts promise the Server keeps, whichever of them moves: files *)
(* have their bytes, direct messages show what is there, the schema is of  *)
(* a build, viewers see who is there, replies reach agents, the roster is  *)
(* true, agents do what people said, and Routines keep their schedule and  *)
(* do not pile work up (internal/core, internal/migrate).                  *)
THEOREM ServerKeepsItsPromises ==
  ServerSpec =>
    /\ []FilesKeepTheirBytes /\ []DMsShowWhatIsThere /\ []SchemaIsOfABuild /\ []ViewersAreUpToDate
    /\ []RepliesReachAgents /\ []RosterIsTrue /\ []PeopleDecide
    /\ FiresOncePerInterval /\ OnlyPeoplePileUp
BY ServerPartsBehave, SeenFilesHaveTheirBytes, DMsStayTrue, SchemaStaysOfABuild, ViewersSeeWhoIsThere,
   NoReplyIsMissed, RosterStaysTrue, AgentsDoWhatPeopleSaid, ScheduleIsKept, WorkDoesNotPileUp, PTL
=============================================================================
