----------------------------- MODULE Membership -----------------------------
(***************************************************************************)
(* People, and their Members of one Project.  A Member keeps a copy of its *)
(* Person's name.  Requests read rows, and later write what they read, in  *)
(* transactions that see what others have committed; Rename changes the    *)
(* Person and the copies it can see.  (Bots have no Person: RunQueue.)     *)
(***************************************************************************)
EXTENDS Integers

CONSTANTS
  People,     \* everyone who may ever say hello
  Names,      \* names, equal when they differ in case only
  Calls       \* requests the Server handles at a time

Nobody == ""            \* not a name: the Person does not exist yet
ASSUME MembershipAssumption == Nobody \notin Names

VARIABLES
  person,     \* people: each one's name
  member,     \* the members rows: [is, name, left], one of a Person at most
  project,    \* is there one yet: "none" or "open"
  call,       \* each request: [at, kind, by, joins, name, of, was, to]
  said,       \* of each Person: joins and returns announced, less departures
  outrun      \* Members whose name was written by a request that had read
              \* it before a Rename

memberVars == <<person, member, project, call, said, outrun>>

IdleCall == [at |-> "idle", kind |-> "join", by |-> {}, joins |-> FALSE, name |-> Nobody,
             of |-> {}, was |-> Nobody, to |-> Nobody]

MembersInit ==
  /\ person = [p \in People |-> Nobody]
  /\ member = [p \in People |-> [is |-> FALSE, name |-> Nobody, left |-> FALSE]]
  /\ project = "none"
  /\ call = [q \in Calls |-> IdleCall]
  /\ said = [p \in People |-> 0]
  /\ outrun = {}

Exists(p) == person[p] # Nobody
Unborn == {p \in People : person[p] = Nobody}
Called(n) == {p \in People : person[p] = n}
Present(p) == member[p].is /\ ~member[p].left

(* A Rename that has changed rows and not committed: it holds the Person   *)
(* and, if it saw one, the Member.                                         *)
Renaming(p) == {q \in Calls : call[q].at = "renaming" /\ p \in call[q].by}
HoldsMember(p) == \E q \in Renaming(p) : call[q].joins
-----------------------------------------------------------------------------
(* Hello, and AddMember's upsert: the Person of that name, created on      *)
(* first use.  One being renamed is waited for.                            *)
UpsertPerson(n, p) ==
  \/ p \in Called(n) /\ Renaming(p) = {} /\ UNCHANGED person
  \/ /\ Called(n) = {} /\ Unborn # {} /\ p = CHOOSE o \in Unborn : TRUE
     /\ \A q \in Calls : call[q].at = "renaming" => call[q].to # n
     /\ person' = [person EXCEPT ![p] = n]

Hello(n) ==
  /\ \E p \in Unborn : UpsertPerson(n, p)
  /\ UNCHANGED <<member, project, call, said, outrun>>
-----------------------------------------------------------------------------
(* What the writes do to rows, kept with what is said of them: ms is       *)
(* [rows, said, outrun].                                                   *)
Books == [rows |-> member, said |-> said, outrun |-> outrun]

(* A name that is written was overtaken if the Person has another one by   *)
(* now, or is being given one by a Rename that did not see the row.        *)
Overtaken(p, n) ==
  Exists(p) /\ (n # person[p] \/ (Renaming(p) # {} /\ ~HoldsMember(p)))

Named(ms, p, n) ==
  [ms EXCEPT !.rows[p].name = n,
             !.outrun = IF Overtaken(p, n) THEN @ \cup {p} ELSE @ \ {p}]

(* JoinPerson: inserts the row, or brings back one that left, with the     *)
(* name it has; said once.                                                 *)
Joined(ms, p, n) ==
  IF ~ms.rows[p].is
    THEN Named([ms EXCEPT !.rows[p] = [is |-> TRUE, name |-> n, left |-> FALSE], !.said[p] = @ + 1], p, n)
  ELSE IF ms.rows[p].left THEN [ms EXCEPT !.rows[p].left = FALSE, !.said[p] = @ + 1]
  ELSE ms

(* Mutant of Departed: said of a Member that had gone already. *)
DepartedAgain(ms, p) == [ms EXCEPT !.rows[p].left = TRUE, !.said[p] = @ - 1]

(* LeaveProject and RemoveMember: gone, unless gone already.               *)
Departed(ms, p) ==
  IF ms.rows[p].left THEN ms ELSE [ms EXCEPT !.rows[p].left = TRUE, !.said[p] = @ - 1]

-----------------------------------------------------------------------------
(* openProject: a Project that takes writes.  (RunQueue archives them.)     *)
OpenProject == project = "open"

(* member and requireMember: is the acting Person to join, and with which  *)
(* name.                                                                   *)
MemberOf(p) == [joins |-> ~Present(p), name |-> IF Present(p) THEN Nobody ELSE person[p]]

(* A request's reads.                                                      *)
Reads(q, kind, p, of, to) ==
  /\ call[q].at = "idle" /\ Exists(p)
  /\ call' = [call EXCEPT ![q] =
       [at |-> "read", kind |-> kind, by |-> {p}, of |-> of, to |-> to,
        joins |-> kind # "leave" /\ MemberOf(p).joins, name |-> IF kind = "leave" THEN Nobody ELSE MemberOf(p).name,
        was |-> IF kind = "update" THEN CHOOSE n \in {member[o].name : o \in of} : TRUE ELSE Nobody]]
  /\ UNCHANGED <<person, member, project, said, outrun>>

ReadsToCreate(q, p) == project = "none" /\ Reads(q, "create", p, {}, Nobody)
ReadsToJoin(q, p) == OpenProject /\ Reads(q, "join", p, {}, Nobody)
ReadsToLeave(q, p) == OpenProject /\ member[p].is /\ Reads(q, "leave", p, {p}, Nobody)
ReadsToAdd(q, p, n) == OpenProject /\ Reads(q, "add", p, {}, n)
ReadsToRemove(q, p, o) == OpenProject /\ member[o].is /\ Reads(q, "remove", p, {o}, Nobody)
ReadsToUpdate(q, p, o) == OpenProject /\ member[o].is /\ Reads(q, "update", p, {o}, Nobody)
-----------------------------------------------------------------------------
(* The request's writes, and its commit.  A row that a Rename holds is     *)
(* waited for.                                                             *)
WithActor(q) ==
  IF call[q].joins THEN LET p == CHOOSE p \in call[q].by : TRUE IN Joined(Books, p, call[q].name)
                   ELSE Books

Writes(q, kind) ==
  /\ call[q].at = "read" /\ call[q].kind = kind
  /\ \A p \in call[q].of \cup (IF call[q].joins THEN call[q].by ELSE {}) : ~HoldsMember(p)
  /\ call' = [call EXCEPT ![q] = IdleCall]

Becoming(ms) == member' = ms.rows /\ said' = ms.said /\ outrun' = ms.outrun

(* CreateProject: its owner is the first Member.                           *)
CreateProject(q) ==
  /\ Writes(q, "create") /\ project = "none" /\ project' = "open"
  /\ Becoming(WithActor(q)) /\ UNCHANGED person

Join(q) == Writes(q, "join") /\ Becoming(WithActor(q)) /\ UNCHANGED <<person, project>>

Leave(q) ==
  /\ Writes(q, "leave")
  /\ \E p \in call[q].of : Becoming(Departed(Books, p))
  /\ UNCHANGED <<person, project>>

(* AddMember: the Person's row is locked from the upsert on, so the name   *)
(* it returns cannot be changed before the Member has it.                  *)
AddMember(q) ==
  /\ Writes(q, "add")
  /\ \E p \in People :
       /\ UpsertPerson(call[q].to, p) /\ ~HoldsMember(p)
       /\ Becoming(Joined(WithActor(q), p, call[q].to))
  /\ UNCHANGED project

RemoveMember(q) ==
  /\ Writes(q, "remove")
  /\ \E p \in call[q].of : Becoming(Departed(WithActor(q), p))
  /\ UNCHANGED <<person, project>>

(* UpdateMember writes the whole row it read, its name too.                *)
UpdateMember(q) ==
  /\ Writes(q, "update")
  /\ \E p \in call[q].of : Becoming(Named(WithActor(q), p, call[q].was))
  /\ UNCHANGED <<person, project>>

(* Any of them may fail, and leaves nothing.                               *)
Fails(q) ==
  /\ call[q].at # "idle" /\ call' = [call EXCEPT ![q] = IdleCall]
  /\ UNCHANGED <<person, member, project, said, outrun>>
-----------------------------------------------------------------------------
(* Mutant of Copies: Members who left keep the name they had. *)
CopiesOfPresent(p) == Present(p)

(* RenamePerson, the second statement: is there a Member to rename?        *)
Copies(p) == member[p].is

(* Rename: takes the name, if nobody has it or is taking it, and locks the *)
(* Person and the Members of theirs that are committed by now ...          *)
RenameLocks(q, p, n) ==
  /\ call[q].at = "idle" /\ Exists(p) /\ Renaming(p) = {}
  /\ Called(n) \subseteq {p}
  /\ \A r \in Calls : call[r].at = "renaming" => call[r].to # n
  /\ call' = [call EXCEPT ![q] = [IdleCall EXCEPT !.at = "renaming", !.by = {p}, !.to = n, !.joins = Copies(p)]]
  /\ UNCHANGED <<person, member, project, said, outrun>>

(* ... and commits.                                                        *)
RenameCommits(q) ==
  /\ call[q].at = "renaming"
  /\ \E p \in call[q].by :
       /\ person' = [person EXCEPT ![p] = call[q].to]
       /\ member' = IF call[q].joins THEN [member EXCEPT ![p].name = call[q].to] ELSE member
       /\ outrun' = IF call[q].joins THEN outrun \ {p} ELSE outrun
  /\ call' = [call EXCEPT ![q] = IdleCall]
  /\ UNCHANGED <<project, said>>

MembersNext ==
  \/ \E n \in Names : Hello(n)
  \/ \E q \in Calls, p \in People :
       \/ ReadsToCreate(q, p) \/ ReadsToJoin(q, p) \/ ReadsToLeave(q, p)
       \/ \E n \in Names : ReadsToAdd(q, p, n) \/ RenameLocks(q, p, n)
       \/ \E o \in People : ReadsToRemove(q, p, o) \/ ReadsToUpdate(q, p, o)
  \/ \E q \in Calls : \/ CreateProject(q) \/ Join(q) \/ Leave(q) \/ AddMember(q) \/ RemoveMember(q)
                      \/ UpdateMember(q) \/ RenameCommits(q) \/ Fails(q)

MembersSpec == MembersInit /\ [][MembersNext]_memberVars
-----------------------------------------------------------------------------
MembersTypeOK ==
  /\ person \in [People -> Names \cup {Nobody}]
  /\ member \in [People -> [is : BOOLEAN, name : Names \cup {Nobody}, left : BOOLEAN]]
  /\ project \in {"none", "open"}
  /\ \A q \in Calls : call[q].at \in {"idle", "read", "renaming"}
  /\ said \in [People -> Int]
  /\ outrun \subseteq People

(* A Member, one who left and may come back too, has the name its Person   *)
(* has, unless a request that had read it before a Rename wrote it after   *)
(* (inbox.go Rename; core.go member; projects.go UpdateMember) and none    *)
(* has renamed them since.                                                 *)
MembersHaveTheirName ==
  \A p \in People : member[p].is => \/ member[p].name = person[p]
                                    \/ p \in outrun

(* People who join and go in racing requests are said to join when they    *)
(* were away, and to go when they were there, once each time.              *)
SaidAsItIs == \A p \in People : said[p] = IF Present(p) THEN 1 ELSE 0

(* What others see of a Project's people is who they are. *)
RosterIsTrue == MembersHaveTheirName /\ SaidAsItIs
=============================================================================
