------------------------------ MODULE AgentProofs ------------------------------
(***************************************************************************)
(* Theorems about the agent process: what it does to the Project's         *)
(* repository and to its user's login, for any number of Runs, commits,    *)
(* branches and tokens; and the types of all its parts.                    *)
(***************************************************************************)
EXTENDS MCAgent, SessionProofs

(***************************************************************************)
(* The repository.                                                         *)
(***************************************************************************)
ReportRow == [ok : BOOLEAN, branch : Branches, commit : 0..made]

WorkspaceTyped ==
  /\ made \in Commits /\ history \in [Commits -> SUBSET Commits]
  /\ remote \in [Branches -> 0..made] /\ fetched \in [Branches -> 0..made]
  /\ kept \in [Checkouts -> 0..made] /\ at \in [Checkouts -> Stages]
  /\ start \in [Checkouts -> Branches] /\ base \in [Checkouts -> 0..made]
  /\ approved \in [Merges -> ReportRow] /\ reported \in [Checkouts -> ReportRow]
  /\ discarded \subseteq Commits

(* A commit contains itself, and all that what it contains contains. *)
HistorySound ==
  \A c \in 1..made : /\ c \in history[c] /\ history[c] \subseteq 1..made
                     /\ \A d \in history[c] : history[d] \subseteq history[c]

Held(b, c) == OnRemote(b, c) \/ OnRemote("main", c) \/ c \in discarded

(* A build works on top of what it started from, and what it said it has   *)
(* pushed is on the remote from the push on, or was discarded there.       *)
BuildSound(r) ==
  /\ at[r] = "prepared" => base[r] # Gone /\ kept[r] = base[r]
  /\ at[r] \in {"committed", "pushed", "unpushed"} => kept[r] # Gone
  /\ at[r] = "committed" => base[r] # Gone /\ history[base[r]] \subseteq history[kept[r]]
  /\ at[r] = "pushed" => Held(Target(r), kept[r])
  /\ reported[r].commit # Gone =>
       /\ at[r] = "closed" /\ reported[r].branch \in Builds
       /\ IF reported[r].ok THEN Held(reported[r].branch, reported[r].commit) ELSE kept[r] = reported[r].commit

(* A merge adds to the default branch as it was, which is still part of    *)
(* it, what was approved and nothing else.                                 *)
MergeSound(m) ==
  /\ at[m] \in {"prepared", "committed", "landed", "squashed"} =>
       approved[m].commit # Gone /\ approved[m].branch \in Builds
  /\ at[m] = "prepared" => kept[m] = base[m]
  /\ at[m] \in {"prepared", "committed"} => base[m] # Gone /\ history[base[m]] \subseteq history[remote["main"]]
  /\ at[m] = "committed" =>
       /\ kept[m] # Gone /\ approved[m].commit \in history[kept[m]]
       /\ history[kept[m]] \subseteq history[base[m]] \cup history[approved[m].commit] \cup {kept[m]}
  /\ at[m] \in {"landed", "squashed"} => OnRemote("main", approved[m].commit)
  /\ reported[m].ok => at[m] = "closed" /\ OnRemote("main", approved[m].commit)

WorkspaceInv ==
  /\ WorkspaceTyped /\ HistorySound /\ remote["main"] # Gone
  /\ \A r \in Builds : BuildSound(r)
  /\ \A m \in Merges : MergeSound(m)

(* Commits are only added, and what is on a branch stays there, is on the  *)
(* default branch or was discarded with the branch.                        *)
RepoGrows ==
  /\ made <= made' /\ discarded \subseteq discarded'
  /\ \A c \in 1..made : history'[c] = history[c]
  /\ \A b \in Branches : remote[b] # Gone =>
       \/ remote'[b] # Gone /\ history[remote[b]] \subseteq history'[remote'[b]]
       \/ history[remote[b]] \subseteq history'[remote'["main"]] \cup discarded'
  /\ remote'["main"] # Gone /\ history[remote["main"]] \subseteq history'[remote'["main"]]

(* Who is who. *)
LEMMA WorkspaceNames ==
  /\ "main" \in Branches /\ Builds \subseteq Branches /\ "main" \notin Builds
  /\ Builds \subseteq Checkouts /\ Merges \subseteq Checkouts /\ Builds \cap Merges = {}
  /\ Commits \subseteq Nat /\ 1 \in Commits
BY WorkspaceAssumption DEF Branches, Checkouts, Commits

(* What is on the remote stays on it. *)
LEMMA HeldStays ==
  ASSUME RepoGrows, NEW b \in Branches, NEW c
  PROVE  /\ OnRemote("main", c) => OnRemote("main", c)'
         /\ Held(b, c) => Held(b, c)'
BY WorkspaceNames DEF RepoGrows, Held, OnRemote, Reaches

(* Nothing changes for a Run that does not move. *)
LEMMA BuildStays ==
  ASSUME WorkspaceInv, RepoGrows, NEW r \in Builds,
         at'[r] = at[r], kept'[r] = kept[r], start'[r] = start[r], base'[r] = base[r], reported'[r] = reported[r]
  PROVE  BuildSound(r)'
<1> USE WorkspaceNames
<1>1. BuildSound(r) /\ Target(r) \in Branches /\ reported[r].branch \in Branches
  BY DEF WorkspaceInv, WorkspaceTyped, Target, ReportRow
<1>2. base[r] \in 0..made /\ kept[r] \in 0..made /\ made \in Nat /\ reported[r].commit \in 0..made
  BY DEF WorkspaceInv, WorkspaceTyped, ReportRow
<1>3. at[r] = "committed" => history'[base[r]] = history[base[r]] /\ history'[kept[r]] = history[kept[r]]
  BY <1>1, <1>2 DEF RepoGrows, BuildSound, Gone
<1>4. at[r] = "pushed" => Held(Target(r), kept[r])'
  <2>1. at[r] = "pushed" => (Held(Target(r), kept[r]))
    BY <1>1 DEF BuildSound
  <2>2. PICK b \in Branches, c \in Nat : b = Target(r) /\ c = kept[r]
    BY <1>1, <1>2
  <2>3. at[r] = "pushed" => Held(b, c)'
    BY <2>1, <2>2, HeldStays
  <2>4. Target(r)' = b /\ kept'[r] = c
    BY <2>2 DEF Target
  <2> QED BY <2>3, <2>4 DEF Held, OnRemote, Reaches
<1>5. reported[r].commit # Gone /\ reported[r].ok => Held(reported[r].branch, reported[r].commit)'
  <2>1. reported[r].commit # Gone /\ reported[r].ok => Held(reported[r].branch, reported[r].commit)
    BY <1>1 DEF BuildSound
  <2>2. PICK b \in Branches, c \in Nat : b = reported[r].branch /\ c = reported[r].commit
    BY <1>1, <1>2
  <2>3. reported[r].commit # Gone /\ reported[r].ok => Held(b, c)'
    BY <2>1, <2>2, HeldStays
  <2> QED BY <2>2, <2>3 DEF Held, OnRemote, Reaches
<1> QED BY <1>1, <1>3, <1>4, <1>5 DEF BuildSound, Held, OnRemote, Reaches

(* A step elsewhere leaves a merge sound. *)
LEMMA MergeStays ==
  ASSUME WorkspaceInv, RepoGrows, NEW m \in Merges,
         at'[m] = at[m], kept'[m] = kept[m], base'[m] = base[m], approved'[m] = approved[m], reported'[m] = reported[m]
  PROVE  MergeSound(m)'
<1> USE WorkspaceNames
<1>1. MergeSound(m)
  BY DEF WorkspaceInv
<1>2. /\ base[m] \in 0..made /\ kept[m] \in 0..made /\ approved[m].commit \in 0..made /\ made \in Nat
      /\ remote["main"] \in 1..made
  BY DEF WorkspaceInv, WorkspaceTyped, ReportRow, Gone
<1>3. /\ at[m] \in {"prepared", "committed"} => base[m] # Gone /\ history'[base[m]] = history[base[m]]
      /\ at[m] = "committed" => /\ history'[kept[m]] = history[kept[m]]
                                /\ history'[approved[m].commit] = history[approved[m].commit]
  BY <1>1, <1>2 DEF RepoGrows, MergeSound, Gone
<1>4. OnRemote("main", approved[m].commit) =>
        remote'["main"] # Gone /\ approved'[m].commit \in history'[remote'["main"]]
  BY DEF RepoGrows, OnRemote, Reaches
<1>5. history[remote["main"]] \subseteq history'[remote'["main"]]
  BY DEF RepoGrows
<1>6. at'[m] \in {"prepared", "committed"} => base'[m] # Gone /\ history'[base'[m]] \subseteq history'[remote'["main"]]
  BY <1>1, <1>3, <1>5 DEF MergeSound
<1>7. at'[m] = "committed" =>
        /\ kept'[m] # Gone /\ approved'[m].commit \in history'[kept'[m]]
        /\ history'[kept'[m]] \subseteq history'[base'[m]] \cup history'[approved'[m].commit] \cup {kept'[m]}
  BY <1>1, <1>3 DEF MergeSound
<1>8. at'[m] \in {"landed", "squashed"} \/ reported'[m].ok => remote'["main"] # Gone /\ approved'[m].commit \in history'[remote'["main"]]
  BY <1>1, <1>4 DEF MergeSound
<1> QED BY <1>1, <1>6, <1>7, <1>8 DEF MergeSound, OnRemote, Reaches

(* Numbers of commits stay ones as commits are added. *)
LEMMA TypesStay ==
  ASSUME WorkspaceTyped, made' \in Commits, made <= made'
  PROVE  /\ remote \in [Branches -> 0..made'] /\ fetched \in [Branches -> 0..made']
         /\ kept \in [Checkouts -> 0..made'] /\ base \in [Checkouts -> 0..made']
         /\ approved \in [Merges -> ReportRow'] /\ reported \in [Checkouts -> ReportRow']
         /\ 0..made \subseteq 0..made' /\ made \in Nat /\ made' \in Nat
<1>1. made \in Nat /\ made' \in Nat /\ 0..made \subseteq 0..made'
  BY WorkspaceNames DEF WorkspaceTyped
<1>2. ReportRow \subseteq ReportRow'
  BY <1>1 DEF ReportRow
<1> QED BY <1>1, <1>2 DEF WorkspaceTyped

(* A commit is added on top of some, and all that they contain. *)
LEMMA CommitIsMade ==
  ASSUME WorkspaceTyped, HistorySound, NEW contained \in SUBSET (1..made),
         \A d \in contained : history[d] \subseteq contained, NewCommit(contained)
  PROVE  /\ made' \in Commits /\ made <= made' /\ made' = made + 1 /\ made \in Nat
         /\ history' \in [Commits -> SUBSET Commits]
         /\ \A c \in 1..made : history'[c] = history[c]
         /\ history'[made'] = contained \cup {made'}
         /\ HistorySound'
<1>1. made \in Nat /\ made \in 1..MaxCommits /\ MaxCommits \in Nat
  BY WorkspaceAssumption DEF WorkspaceTyped, Commits
<1>2. made < MaxCommits /\ made' = made + 1 /\ history' = [history EXCEPT ![made + 1] = contained \cup {made + 1}]
  BY DEF NewCommit
<1>3. made + 1 \in Commits /\ 1..(made + 1) \subseteq Commits /\ contained \cup {made + 1} \subseteq 1..(made + 1)
  BY <1>1, <1>2 DEF Commits
<1>4. history' \in [Commits -> SUBSET Commits]
  BY <1>2, <1>3 DEF WorkspaceTyped
<1>5. \A c \in 1..made : history'[c] = history[c]
  BY <1>1, <1>2, <1>3 DEF WorkspaceTyped
<1>6. history'[made + 1] = contained \cup {made + 1}
  BY <1>2, <1>3 DEF WorkspaceTyped
<1>7. HistorySound'
  <2>1. ASSUME NEW c \in 1..(made + 1)
        PROVE  /\ c \in history'[c] /\ history'[c] \subseteq 1..(made + 1)
               /\ \A d \in history'[c] : history'[d] \subseteq history'[c]
    <3>1. CASE c = made + 1
      <4>1. \A d \in contained : history'[d] \subseteq contained
        BY <1>5
      <4> QED BY <1>3, <1>6, <3>1, <4>1
    <3>2. CASE c \in 1..made
      <4>1. history'[c] = history[c] /\ c \in history[c] /\ history[c] \subseteq 1..made
        BY <1>5, <3>2 DEF HistorySound
      <4>2. \A d \in history[c] : history'[d] = history[d] /\ history[d] \subseteq history[c]
        BY <1>5, <3>2, <4>1 DEF HistorySound
      <4> QED BY <1>1, <4>1, <4>2
    <3> QED BY <1>1, <3>1, <3>2
  <2> QED BY <1>2, <2>1 DEF HistorySound
<1> QED BY <1>1, <1>2, <1>3, <1>4, <1>5, <1>6, <1>7

(* A step of one Run. *)
LEMMA RunMoves ==
  ASSUME WorkspaceInv, WorkspaceTyped', HistorySound', RepoGrows, NEW r \in Checkouts,
         \A q \in Checkouts \ {r} : /\ at'[q] = at[q] /\ kept'[q] = kept[q] /\ start'[q] = start[q]
                                    /\ base'[q] = base[q] /\ reported'[q] = reported[q],
         \A m \in Merges \ {r} : approved'[m] = approved[m],
         r \in Builds => BuildSound(r)', r \in Merges => MergeSound(r)'
  PROVE  WorkspaceInv'
<1>1. \A q \in Builds \ {r} : BuildSound(q)'
  BY BuildStays, WorkspaceNames
<1>2. \A m \in Merges \ {r} : MergeSound(m)'
  BY MergeStays, WorkspaceNames
<1>3. remote'["main"] # Gone
  BY DEF RepoGrows
<1> QED BY <1>1, <1>2, <1>3 DEF WorkspaceInv

(* A step that leaves the repository alone makes it no smaller. *)
LEMMA RepoStays ==
  ASSUME WorkspaceInv, UNCHANGED repoVars
  PROVE  RepoGrows /\ HistorySound' /\ ReportRow' = ReportRow
BY WorkspaceNames DEF WorkspaceInv, WorkspaceTyped, RepoGrows, HistorySound, repoVars, ReportRow

(* A Run that ends. *)
LEMMA CloseIs ==
  ASSUME WorkspaceTyped, made' \in Commits, made <= made', NEW r \in Checkouts, NEW keep \in BOOLEAN,
         NEW report \in ReportRow', Close(r, keep, report)
  PROVE  /\ kept' \in [Checkouts -> 0..made'] /\ at' \in [Checkouts -> Stages]
         /\ start' \in [Checkouts -> Branches] /\ base' \in [Checkouts -> 0..made']
         /\ reported' \in [Checkouts -> ReportRow']
         /\ \A q \in Checkouts \ {r} : /\ at'[q] = at[q] /\ kept'[q] = kept[q] /\ start'[q] = start[q]
                                       /\ base'[q] = base[q] /\ reported'[q] = reported[q]
         /\ at'[r] = "closed" /\ reported'[r] = report /\ (keep => kept' = kept)
<1>1. /\ kept \in [Checkouts -> 0..made'] /\ base \in [Checkouts -> 0..made']
      /\ reported \in [Checkouts -> ReportRow'] /\ 0 \in 0..made'
  BY TypesStay
<1>2. at \in [Checkouts -> Stages] /\ start \in [Checkouts -> Branches] /\ "closed" \in Stages /\ "main" \in Branches
  BY WorkspaceNames DEF WorkspaceTyped, Stages
<1> QED BY <1>1, <1>2 DEF Close, Gone

(* A build that reported nothing has no commit and no success to show. *)
LEMMA NoReportIs == WorkspaceTyped => NoReport \in ReportRow /\ NoReport.commit = Gone /\ ~NoReport.ok
BY WorkspaceNames DEF WorkspaceTyped, NoReport, ReportRow, Gone

(* A Run ends, its report of no commit, or of an approved one that is on   *)
(* the default branch.                                                     *)
LEMMA EndingKeeps ==
  ASSUME WorkspaceInv, RepoGrows, HistorySound', made' \in Commits, history' \in [Commits -> SUBSET Commits],
         remote' \in [Branches -> 0..made'], fetched' \in [Branches -> 0..made'], discarded' \subseteq Commits,
         approved' \in [Merges -> ReportRow'],
         NEW r \in Checkouts, NEW keep \in BOOLEAN, NEW report \in ReportRow', Close(r, keep, report),
         r \in Builds => report.commit = Gone,
         r \in Merges /\ report.ok => OnRemote("main", approved[r].commit)',
         \A m \in Merges \ {r} : approved'[m] = approved[m]
  PROVE  WorkspaceInv'
<1>1. WorkspaceTyped /\ made <= made'
  BY DEF WorkspaceInv, RepoGrows
<1>2. /\ kept' \in [Checkouts -> 0..made'] /\ at' \in [Checkouts -> Stages]
      /\ start' \in [Checkouts -> Branches] /\ base' \in [Checkouts -> 0..made']
      /\ reported' \in [Checkouts -> ReportRow']
      /\ \A q \in Checkouts \ {r} : /\ at'[q] = at[q] /\ kept'[q] = kept[q] /\ start'[q] = start[q]
                                    /\ base'[q] = base[q] /\ reported'[q] = reported[q]
      /\ at'[r] = "closed" /\ reported'[r] = report
  BY <1>1, CloseIs
<1>3. WorkspaceTyped'
  BY <1>2 DEF WorkspaceTyped
<1>4. r \in Builds => BuildSound(r)'
  BY <1>2 DEF BuildSound
<1>5. r \in Merges => MergeSound(r)'
  BY <1>2 DEF MergeSound, OnRemote, Reaches
<1> QED BY <1>2, <1>3, <1>4, <1>5, RunMoves

(* A Run fails, without or with a word of what it changed. *)
LEMMA FailingKeeps ==
  ASSUME WorkspaceInv, NEW r \in Checkouts, NEW keep \in BOOLEAN, NEW report \in ReportRow, report.commit = Gone,
         Close(r, keep, report), UNCHANGED repoVars, fetched' \in [Branches -> 0..made],
         report.ok => r \in Builds,
         approved' \in [Merges -> ReportRow], \A m \in Merges \ {r} : approved'[m] = approved[m]
  PROVE  WorkspaceInv'
<1>1. RepoGrows /\ HistorySound' /\ ReportRow' = ReportRow
  BY RepoStays
<1>2. /\ made' \in Commits /\ history' \in [Commits -> SUBSET Commits] /\ report \in ReportRow'
      /\ remote' \in [Branches -> 0..made'] /\ fetched' \in [Branches -> 0..made']
      /\ discarded' \subseteq Commits /\ approved' \in [Merges -> ReportRow']
  BY <1>1 DEF WorkspaceInv, WorkspaceTyped, repoVars
<1>3. r \in Merges => ~report.ok
  BY WorkspaceNames
<1> QED BY <1>1, <1>2, <1>3, EndingKeeps

(* The mirror is fetched and a checkout made of a branch, if it is there.  *)
LEMMA PrepareKeeps ==
  ASSUME WorkspaceInv, NEW r \in Checkouts, NEW from \in Branches, Prepare(r, from), UNCHANGED repoVars,
         approved' \in [Merges -> ReportRow], \A m \in Merges \ {r} : approved'[m] = approved[m],
         r \in Merges => approved'[r].commit # Gone /\ approved'[r].branch \in Builds /\ from = "main"
  PROVE  WorkspaceInv'
<1>1. RepoGrows /\ HistorySound' /\ ReportRow' = ReportRow /\ WorkspaceTyped
  BY RepoStays DEF WorkspaceInv
<1>2. fetched' = remote /\ at[r] = "queued" /\ UNCHANGED <<made, history, remote, discarded>>
  BY DEF Prepare, repoVars
<1>3. CASE remote[from] = Gone
  <2>1. Close(r, FALSE, NoReport)
    BY <1>3 DEF Prepare, Fails
  <2>2. UNCHANGED repoVars /\ fetched' \in [Branches -> 0..made]
    BY <1>1, <1>2 DEF WorkspaceTyped
  <2> QED BY <1>1, <2>1, <2>2, NoReportIs, FailingKeeps
<1>4. CASE remote[from] # Gone
  <2>1. /\ start' = [start EXCEPT ![r] = from] /\ base' = [base EXCEPT ![r] = remote[from]]
        /\ at' = [at EXCEPT ![r] = "prepared"] /\ kept' = [kept EXCEPT ![r] = remote[from]]
        /\ reported' = reported
    BY <1>4 DEF Prepare
  <2>2. remote[from] \in 0..made /\ "prepared" \in Stages
    BY <1>1 DEF WorkspaceTyped, Stages
  <2>3. WorkspaceTyped'
    BY <1>1, <1>2, <2>1, <2>2 DEF WorkspaceTyped
  <2>4. at'[r] = "prepared" /\ base'[r] = remote[from] /\ kept'[r] = remote[from] /\ reported'[r] = reported[r]
    BY <1>1, <2>1 DEF WorkspaceTyped
  <2>5. \A q \in Checkouts \ {r} : /\ at'[q] = at[q] /\ kept'[q] = kept[q] /\ start'[q] = start[q]
                                   /\ base'[q] = base[q] /\ reported'[q] = reported[q]
    BY <1>1, <2>1 DEF WorkspaceTyped
  <2>6. r \in Builds => BuildSound(r)'
    <3>1. r \in Builds => reported[r].commit = Gone
      BY <1>2 DEF WorkspaceInv, BuildSound
    <3> QED BY <1>4, <2>4, <3>1 DEF BuildSound
  <2>7. r \in Merges => MergeSound(r)'
    <3>1. r \in Merges => ~reported[r].ok
      BY <1>2 DEF WorkspaceInv, MergeSound
    <3> QED BY <1>2, <1>4, <2>4, <3>1 DEF MergeSound
  <2> QED BY <1>1, <2>3, <2>5, <2>6, <2>7, RunMoves
<1> QED BY <1>3, <1>4

(* What a commit contains can be built upon. *)
LEMMA ContentsAreClosed ==
  ASSUME WorkspaceInv, NEW c \in 0..made, c # Gone
  PROVE  /\ c \in 1..made /\ c \in history[c] /\ history[c] \in SUBSET (1..made)
         /\ \A d \in history[c] : history[d] \subseteq history[c]
BY WorkspaceNames DEF WorkspaceInv, WorkspaceTyped, HistorySound, Gone

(* The agent's work is committed in the checkout. *)
LEMMA CommitWorkKeeps ==
  ASSUME WorkspaceInv, NEW r \in Builds, CommitWork(r)
  PROVE  WorkspaceInv'
<1>0. r \in Checkouts /\ WorkspaceTyped /\ HistorySound
  BY WorkspaceNames DEF WorkspaceInv
<1>1. /\ at[r] = "prepared" /\ NewCommit(history[base[r]]) /\ kept' = [kept EXCEPT ![r] = made']
      /\ at' = [at EXCEPT ![r] = "committed"] /\ UNCHANGED <<remote, discarded, fetched, start, base, approved, reported>>
  BY DEF CommitWork
<1>2. base[r] \in 0..made /\ base[r] # Gone /\ reported[r].commit = Gone
  BY <1>0, <1>1 DEF WorkspaceInv, WorkspaceTyped, BuildSound
<1>3. /\ base[r] \in 1..made /\ history[base[r]] \in SUBSET (1..made)
      /\ \A d \in history[base[r]] : history[d] \subseteq history[base[r]]
  BY <1>2, ContentsAreClosed
<1>4. /\ made' \in Commits /\ made <= made' /\ made' = made + 1 /\ made \in Nat
      /\ history' \in [Commits -> SUBSET Commits]
      /\ \A c \in 1..made : history'[c] = history[c]
      /\ history'[made'] = history[base[r]] \cup {made'}
      /\ HistorySound'
  BY <1>0, <1>1, <1>3, CommitIsMade
<1>5. RepoGrows
  <2>1. \A b \in Branches : remote[b] # Gone => history'[remote[b]] = history[remote[b]]
    BY <1>0, <1>4 DEF WorkspaceTyped, Gone
  <2> QED BY <1>1, <1>4, <2>1, WorkspaceNames DEF RepoGrows, WorkspaceInv
<1>6. /\ remote \in [Branches -> 0..made'] /\ fetched \in [Branches -> 0..made']
      /\ kept \in [Checkouts -> 0..made'] /\ base \in [Checkouts -> 0..made']
      /\ approved \in [Merges -> ReportRow'] /\ reported \in [Checkouts -> ReportRow']
      /\ made' \in 0..made' /\ "committed" \in Stages
  BY <1>0, <1>4, TypesStay DEF Stages
<1>7. WorkspaceTyped'
  BY <1>0, <1>1, <1>4, <1>6 DEF WorkspaceTyped
<1>8. /\ at'[r] = "committed" /\ kept'[r] = made'
      /\ \A q \in Checkouts \ {r} : at'[q] = at[q] /\ kept'[q] = kept[q]
  BY <1>0, <1>1 DEF WorkspaceTyped
<1>9. BuildSound(r)'
  <2>1. history'[base[r]] = history[base[r]] /\ made' # Gone
    BY <1>3, <1>4 DEF Gone
  <2> QED BY <1>1, <1>2, <1>4, <1>8, <2>1 DEF BuildSound
<1> QED BY <1>0, <1>1, <1>4, <1>5, <1>7, <1>8, <1>9, RunMoves, WorkspaceNames

(* A push to a branch of one that contains what is there, or makes it. *)
LEMMA BranchGrows ==
  ASSUME WorkspaceInv, NEW b \in Branches, NEW c \in 1..made, SetRemote(b, c), UNCHANGED <<made, history, discarded>>,
         remote[b] # Gone => history[remote[b]] \subseteq history[c]
  PROVE  /\ RepoGrows /\ HistorySound' /\ ReportRow' = ReportRow
         /\ remote' \in [Branches -> 0..made'] /\ remote'[b] = c
<1>1. /\ remote \in [Branches -> 0..made] /\ made \in Nat
      /\ remote' = [remote EXCEPT ![b] = c]
  BY WorkspaceNames DEF WorkspaceInv, WorkspaceTyped, SetRemote
<1>2. remote' \in [Branches -> 0..made'] /\ remote'[b] = c /\ \A d \in Branches \ {b} : remote'[d] = remote[d]
  BY <1>1
<1>3. c # Gone
  BY DEF Gone
<1> QED BY <1>1, <1>2, <1>3, WorkspaceNames DEF WorkspaceInv, RepoGrows, HistorySound, ReportRow

(* A build pushes its branch, or one it carries on that nobody has pushed  *)
(* to. *)
LEMMA PushKeeps ==
  ASSUME WorkspaceInv, NEW r \in Builds, Push(r)
  PROVE  WorkspaceInv'
<1>0. r \in Checkouts /\ WorkspaceTyped /\ HistorySound /\ BuildSound(r)
  BY WorkspaceNames DEF WorkspaceInv
<1>1. at[r] = "committed" /\ UNCHANGED <<made, history, discarded, fetched, kept, start, base, approved, reported>>
  BY DEF Push
<1>2. kept[r] \in 1..made /\ Target(r) \in Branches
  BY <1>0, <1>1, WorkspaceNames DEF WorkspaceTyped, BuildSound, Target, Gone
<1>3. ASSUME NEW s \in {"pushed", "unpushed"}, at' = [at EXCEPT ![r] = s], RepoGrows, HistorySound', ReportRow' = ReportRow,
             remote' \in [Branches -> 0..made'], s = "pushed" => remote'[Target(r)] = kept[r]
      PROVE  WorkspaceInv'
  <2>1. s \in Stages
    BY DEF Stages
  <2>2. WorkspaceTyped'
    BY <1>0, <1>1, <1>3, <2>1 DEF WorkspaceTyped
  <2>3. at'[r] = s /\ \A q \in Checkouts \ {r} : at'[q] = at[q]
    BY <1>0, <1>3 DEF WorkspaceTyped
  <2>4. s = "pushed" => Held(Target(r), kept[r])'
    BY <1>0, <1>1, <1>2, <1>3 DEF Held, OnRemote, Reaches, Target, HistorySound, Gone
  <2>5. BuildSound(r)'
    BY <1>0, <1>1, <2>3, <2>4 DEF BuildSound, Held, OnRemote, Reaches, Target
  <2> QED BY <1>0, <1>1, <1>3, <2>2, <2>3, <2>5, RunMoves, WorkspaceNames
<1>4. ASSUME remote[Target(r)] = Lease(r), SetRemote(Target(r), kept[r]),
             NEW s \in {"pushed", "unpushed"}, at' = [at EXCEPT ![r] = s]
      PROVE  WorkspaceInv'
  <2>1. remote[Target(r)] # Gone => history[remote[Target(r)]] \subseteq history[kept[r]]
    BY <1>0, <1>1, <1>4 DEF Lease, BuildSound
  <2>2. PICK b \in Branches, c \in 1..made : b = Target(r) /\ c = kept[r]
    BY <1>2
  <2>3. /\ RepoGrows /\ HistorySound' /\ ReportRow' = ReportRow
        /\ remote' \in [Branches -> 0..made'] /\ remote'[b] = c
    BY <1>1, <1>4, <2>1, <2>2, BranchGrows
  <2> QED BY <1>3, <1>4, <2>2, <2>3
<1>5. ASSUME UNCHANGED remote, at' = [at EXCEPT ![r] = "unpushed"]
      PROVE  WorkspaceInv'
  BY <1>0, <1>1, <1>3, <1>5, RepoStays DEF repoVars, WorkspaceTyped
<1> QED BY <1>4, <1>5 DEF Push

(* A build delivers, or has nothing to deliver. *)
LEMMA DeliverKeeps ==
  ASSUME WorkspaceInv, NEW r \in Builds, Deliver(r)
  PROVE  WorkspaceInv'
<1>0. r \in Checkouts /\ WorkspaceTyped /\ HistorySound /\ BuildSound(r)
  BY WorkspaceNames DEF WorkspaceInv
<1>1. UNCHANGED <<made, history, remote, discarded, fetched, approved>>
  BY DEF Deliver, repoVars
<1>2. PICK ok \in BOOLEAN : Close(r, ~ok, Delivers(r, ok)) /\ at[r] = IF ok THEN "pushed" ELSE "unpushed"
  <2>1. CASE at[r] = "pushed" /\ Close(r, FALSE, Delivers(r, TRUE))
    BY <2>1
  <2>2. CASE at[r] = "unpushed" /\ StaysHere(r)
    BY <2>2 DEF StaysHere
  <2> QED BY <2>1, <2>2 DEF Deliver
<1>3. /\ RepoGrows /\ HistorySound' /\ ReportRow' = ReportRow
  BY <1>1, RepoStays DEF repoVars
<1>4. Target(r) \in Builds /\ Target(r) \in Branches /\ kept[r] \in 0..made /\ kept[r] # Gone
  BY <1>0, <1>2, WorkspaceNames DEF WorkspaceTyped, Target, Branches, BuildSound
<1>5. PICK report : report = Delivers(r, ok)
  OBVIOUS
<1>6. report \in ReportRow /\ report.ok = ok /\ report.branch = Target(r) /\ report.commit = kept[r]
  BY <1>4, <1>5 DEF Delivers, ReportRow
<1>7. made' \in Commits /\ made <= made' /\ (~ok) \in BOOLEAN
  <2>1. made \in Commits /\ made' = made /\ made <= made
    BY <1>0, <1>1, WorkspaceNames DEF WorkspaceTyped
  <2> QED BY <2>1
<1>8. /\ kept' \in [Checkouts -> 0..made'] /\ at' \in [Checkouts -> Stages]
      /\ start' \in [Checkouts -> Branches] /\ base' \in [Checkouts -> 0..made']
      /\ reported' \in [Checkouts -> ReportRow']
      /\ \A q \in Checkouts \ {r} : /\ at'[q] = at[q] /\ kept'[q] = kept[q] /\ start'[q] = start[q]
                                    /\ base'[q] = base[q] /\ reported'[q] = reported[q]
      /\ at'[r] = "closed" /\ reported'[r] = report /\ (~ok => kept' = kept)
  BY <1>0, <1>2, <1>3, <1>5, <1>6, <1>7, CloseIs
<1>9. WorkspaceTyped'
  BY <1>0, <1>1, <1>3, <1>8 DEF WorkspaceTyped
<1>10. ok => Held(report.branch, report.commit)
  BY <1>0, <1>2, <1>6 DEF BuildSound
<1>11. BuildSound(r)'
  <2>1. ok => Held(report.branch, report.commit)'
    <3>1. PICK b \in Branches, c \in 0..made : b = Target(r) /\ c = kept[r]
      BY <1>4
    <3>2. ok => Held(b, c)'
      BY <1>3, <1>6, <1>10, <3>1, HeldStays
    <3> QED BY <1>6, <3>1, <3>2 DEF Held, OnRemote, Reaches
  <2> QED BY <1>2, <1>4, <1>6, <1>8, <2>1 DEF BuildSound, Held, OnRemote, Reaches
<1> QED BY <1>0, <1>1, <1>3, <1>8, <1>9, <1>11, RunMoves, WorkspaceNames

(* A build ends with nothing delivered. *)
LEMMA EmptyHandedKeeps ==
  ASSUME WorkspaceInv, NEW r \in Builds, NothingToDeliver(r) \/ FilesFail(r)
  PROVE  WorkspaceInv'
<1>1. UNCHANGED repoVars /\ UNCHANGED <<fetched, approved>> /\ r \in Checkouts /\ WorkspaceTyped
  BY WorkspaceNames DEF NothingToDeliver, FilesFail, WorkspaceInv
<1>2. PICK keep \in BOOLEAN, report \in ReportRow : Close(r, keep, report) /\ report.commit = Gone
  <2>1. [NoReport EXCEPT !.ok = TRUE] \in ReportRow /\ [NoReport EXCEPT !.ok = TRUE].commit = Gone
    <3>1. PICK row : row = NoReport
      OBVIOUS
    <3>2. row \in ReportRow /\ row.commit = Gone
      BY <1>1, <3>1, NoReportIs
    <3>3. [row EXCEPT !.ok = TRUE] \in ReportRow /\ [row EXCEPT !.ok = TRUE].commit = Gone
      BY <3>2 DEF ReportRow
    <3> QED BY <3>1, <3>3
  <2> QED BY <1>1, <2>1, NoReportIs DEF NothingToDeliver, FilesFail, Fails
<1> QED BY <1>1, <1>2, FailingKeeps DEF WorkspaceTyped

(* A merge starts from a commit that a build reported. *)
LEMMA ReportedIs ==
  ASSUME WorkspaceInv, NEW q \in Builds, reported[q].ok, reported[q].commit # Gone
  PROVE  /\ reported[q] \in ReportRow /\ reported[q].branch \in Builds /\ reported[q].commit \in 1..made
         /\ reported[q].branch \in Branches
BY WorkspaceNames DEF WorkspaceInv, WorkspaceTyped, BuildSound, ReportRow, Gone

(* A build or a merge begins in a checkout of what it fetched. *)
LEMMA PreparesKeep ==
  ASSUME WorkspaceInv
  PROVE  /\ \A r \in Builds, from \in Branches : PrepareBuild(r, from) => WorkspaceInv'
         /\ \A m \in Merges : PrepareMerge(m) => WorkspaceInv'
<1>1. ASSUME NEW r \in Builds, NEW from \in Branches, PrepareBuild(r, from)
      PROVE  WorkspaceInv'
  BY <1>1, PrepareKeeps, WorkspaceNames DEF PrepareBuild, WorkspaceInv, WorkspaceTyped
<1>2. ASSUME NEW m \in Merges, PrepareMerge(m)
      PROVE  WorkspaceInv'
  <2>1. PICK q \in Builds : /\ reported[q].ok /\ reported[q].commit # Gone
                            /\ approved' = [approved EXCEPT ![m] = reported[q]]
    BY <1>2 DEF PrepareMerge
  <2>2. approved \in [Merges -> ReportRow] /\ reported[q] \in ReportRow
    BY <2>1, ReportedIs DEF WorkspaceInv, WorkspaceTyped
  <2>3. approved' \in [Merges -> ReportRow] /\ approved'[m] = reported[q] /\ \A n \in Merges \ {m} : approved'[n] = approved[n]
    BY <2>1, <2>2
  <2> QED BY <1>2, <2>1, <2>3, ReportedIs, PrepareKeeps, WorkspaceNames DEF PrepareMerge
<1> QED BY <1>1, <1>2


(* A commit alone leaves the remote as it was. *)
LEMMA CommitGrows ==
  ASSUME WorkspaceInv, made <= made', \A c \in 1..made : history'[c] = history[c], UNCHANGED <<remote, discarded>>
  PROVE  RepoGrows
<1>1. \A b \in Branches : remote[b] # Gone => history'[remote[b]] = history[remote[b]]
  BY DEF WorkspaceInv, WorkspaceTyped, Gone
<1> QED BY <1>1, WorkspaceNames DEF RepoGrows, WorkspaceInv

(* The approved commit is merged into the checkout. *)
LEMMA MergeBranchKeeps ==
  ASSUME WorkspaceInv, NEW m \in Merges, MergeBranch(m)
  PROVE  WorkspaceInv'
<1>0. /\ m \in Checkouts /\ m \notin Builds /\ WorkspaceTyped /\ HistorySound /\ MergeSound(m)
      /\ approved' = approved /\ fetched' = fetched /\ remote' = remote /\ discarded' = discarded /\ at[m] = "prepared"
  BY WorkspaceNames DEF WorkspaceInv, MergeBranch
<1>1. PICK tip : tip = approved[m].commit
  OBVIOUS
<1>2. /\ tip \in 0..made /\ tip # Gone /\ base[m] \in 0..made /\ base[m] # Gone /\ kept[m] = base[m]
      /\ approved[m].branch \in Builds /\ approved[m].branch \in Branches
      /\ history[base[m]] \subseteq history[remote["main"]]
  BY <1>0, <1>1, WorkspaceNames DEF MergeSound, WorkspaceTyped, ReportRow
<1>3. /\ tip \in 1..made /\ tip \in history[tip] /\ history[tip] \in SUBSET (1..made)
      /\ \A d \in history[tip] : history[d] \subseteq history[tip]
      /\ base[m] \in 1..made /\ history[base[m]] \in SUBSET (1..made)
      /\ \A d \in history[base[m]] : history[d] \subseteq history[base[m]]
  BY <1>2, ContentsAreClosed
<1>4. CASE Fails(m) /\ UNCHANGED <<made, history>>
  BY <1>0, <1>4, NoReportIs, FailingKeeps DEF Fails, WorkspaceTyped, repoVars
<1>5. ASSUME at' = [at EXCEPT ![m] = "committed"], Reaches(base[m], tip),
             UNCHANGED <<made, history, kept, start, base, reported>>
      PROVE  WorkspaceInv'
  <2>1. RepoGrows /\ HistorySound' /\ ReportRow' = ReportRow
    BY <1>0, <1>5, RepoStays DEF repoVars
  <2>2. WorkspaceTyped'
    BY <1>0, <1>5, <2>1 DEF WorkspaceTyped, Stages
  <2>3. at'[m] = "committed" /\ \A q \in Checkouts \ {m} : at'[q] = at[q]
    BY <1>0, <1>5 DEF WorkspaceTyped
  <2>4. MergeSound(m)'
    BY <1>0, <1>1, <1>2, <1>5, <2>3 DEF MergeSound, Reaches
  <2> QED BY <1>0, <1>5, <2>1, <2>2, <2>3, <2>4, RunMoves
<1>6. ASSUME at' = [at EXCEPT ![m] = "committed"], NewCommit(history[base[m]] \cup history[tip]),
             kept' = [kept EXCEPT ![m] = made'], UNCHANGED <<start, base, reported>>
      PROVE  WorkspaceInv'
  <2>1. PICK contained \in SUBSET (1..made) : contained = history[base[m]] \cup history[tip]
    BY <1>3
  <2>2. \A d \in contained : history[d] \subseteq contained
    BY <1>3, <2>1
  <2>3. /\ made' \in Commits /\ made <= made' /\ made' = made + 1 /\ made \in Nat
        /\ history' \in [Commits -> SUBSET Commits]
        /\ \A c \in 1..made : history'[c] = history[c]
        /\ history'[made'] = contained \cup {made'}
        /\ HistorySound'
    BY <1>0, <1>6, <2>1, <2>2, CommitIsMade
  <2>4. RepoGrows
    BY <1>0, <2>3, CommitGrows
  <2>5. /\ remote \in [Branches -> 0..made'] /\ fetched \in [Branches -> 0..made']
        /\ kept \in [Checkouts -> 0..made'] /\ base \in [Checkouts -> 0..made']
        /\ approved \in [Merges -> ReportRow'] /\ reported \in [Checkouts -> ReportRow']
        /\ made' \in 0..made' /\ made' # Gone
    BY <1>0, <2>3, TypesStay DEF Gone
  <2>6. WorkspaceTyped'
    BY <1>0, <1>6, <2>3, <2>5 DEF WorkspaceTyped, Stages
  <2>7. /\ at'[m] = "committed" /\ kept'[m] = made'
        /\ \A q \in Checkouts \ {m} : at'[q] = at[q] /\ kept'[q] = kept[q]
    BY <1>0, <1>6 DEF WorkspaceTyped
  <2>8. /\ history'[base[m]] = history[base[m]] /\ history'[tip] = history[tip]
        /\ history[base[m]] \subseteq history'[remote["main"]]
    <3>1. remote["main"] \in 1..made
      BY <1>0, WorkspaceNames DEF WorkspaceInv, WorkspaceTyped, Gone
    <3> QED BY <1>2, <1>3, <2>3, <3>1
  <2>9. MergeSound(m)'
    BY <1>0, <1>1, <1>2, <1>3, <1>6, <2>1, <2>3, <2>5, <2>7, <2>8 DEF MergeSound
  <2> QED BY <1>0, <1>6, <2>3, <2>4, <2>6, <2>7, <2>9, RunMoves
<1> QED BY <1>1, <1>4, <1>5, <1>6 DEF MergeBranch, WhereApproved

(* The default branch grows by the merge, or has moved on. *)
LEMMA PushMainKeeps ==
  ASSUME WorkspaceInv, NEW m \in Merges, PushMain(m)
  PROVE  WorkspaceInv'
<1>0. /\ m \in Checkouts /\ m \notin Builds /\ WorkspaceTyped /\ HistorySound /\ MergeSound(m)
      /\ UNCHANGED <<made, history, discarded, fetched, approved>> /\ at[m] = "committed"
  BY WorkspaceNames DEF WorkspaceInv, PushMain
<1>1. CASE Fails(m) /\ UNCHANGED remote
  BY <1>0, <1>1, NoReportIs, FailingKeeps DEF Fails, WorkspaceTyped, repoVars
<1>2. ASSUME Reaches(kept[m], remote["main"]), SetRemote("main", kept[m]), MergeAt(m, "landed") \/ Fails(m)
      PROVE  WorkspaceInv'
  <2>1. PICK c \in 1..made : c = kept[m]
    BY <1>0 DEF MergeSound, WorkspaceTyped, Gone
  <2>2. history[remote["main"]] \subseteq history[c]
    BY <1>0, <1>2, <2>1 DEF Reaches, HistorySound
  <2>3. /\ RepoGrows /\ HistorySound' /\ ReportRow' = ReportRow
        /\ remote' \in [Branches -> 0..made'] /\ remote'["main"] = c
    BY <1>0, <1>2, <2>1, <2>2, BranchGrows, WorkspaceNames
  <2>4. CASE MergeAt(m, "landed")
    <3>1. at' = [at EXCEPT ![m] = "landed"] /\ UNCHANGED <<kept, start, base, reported>>
      BY <2>4 DEF MergeAt
    <3>2. WorkspaceTyped'
      BY <1>0, <2>3, <3>1 DEF WorkspaceTyped, Stages
    <3>3. at'[m] = "landed" /\ \A q \in Checkouts \ {m} : at'[q] = at[q]
      BY <1>0, <3>1 DEF WorkspaceTyped
    <3>4. MergeSound(m)'
      BY <1>0, <2>1, <2>3, <3>1, <3>3 DEF MergeSound, OnRemote, Reaches, Gone
    <3> QED BY <1>0, <2>3, <3>1, <3>2, <3>3, <3>4, RunMoves
  <2>5. CASE Fails(m)
    <3>1. Close(m, FALSE, NoReport) /\ NoReport \in ReportRow' /\ ~NoReport.ok
      BY <1>0, <2>3, <2>5, NoReportIs DEF Fails
    <3> QED BY <1>0, <2>3, <3>1, EndingKeeps DEF WorkspaceTyped
  <2> QED BY <1>2, <2>4, <2>5
<1> QED BY <1>1, <1>2 DEF PushMain

(* A branch that was merged is removed; what is on the default branch is   *)
(* not, nor what was put aside.                                            *)
LEMMA BranchGoes ==
  ASSUME WorkspaceInv, NEW b \in Builds, SetRemote(b, Gone), UNCHANGED <<made, history>>,
         discarded \subseteq discarded', discarded' \subseteq Commits,
         remote[b] # Gone => history[remote[b]] \subseteq history[remote["main"]] \cup discarded'
  PROVE  /\ RepoGrows /\ HistorySound' /\ ReportRow' = ReportRow /\ remote' \in [Branches -> 0..made']
         /\ remote'["main"] = remote["main"]
<1>1. /\ remote \in [Branches -> 0..made] /\ made \in Nat /\ HistorySound
      /\ remote' = [remote EXCEPT ![b] = Gone] /\ b \in Branches /\ b # "main" /\ remote["main"] # Gone
  BY WorkspaceNames DEF WorkspaceInv, WorkspaceTyped, SetRemote
<1>2. /\ remote' \in [Branches -> 0..made'] /\ remote'["main"] = remote["main"]
      /\ \A d \in Branches \ {b} : remote'[d] = remote[d]
  BY <1>1, WorkspaceNames DEF Gone
<1>3. RepoGrows
  BY <1>1, <1>2, WorkspaceNames DEF RepoGrows
<1> QED BY <1>1, <1>2, <1>3 DEF HistorySound, ReportRow

(* A merge ends, after the merge: its branch removed or not, and whatever  *)
(* it is told of that.                                                     *)
LEMMA MergeEnds ==
  ASSUME WorkspaceInv, NEW m \in Merges, at[m] \in {"landed", "squashed"},
         RepoGrows, HistorySound', ReportRow' = ReportRow, remote' \in [Branches -> 0..made'],
         remote'["main"] = remote["main"], discarded' \subseteq Commits,
         UNCHANGED <<made, history, fetched, approved>>, Close(m, FALSE, approved[m]) \/ Fails(m)
  PROVE  WorkspaceInv'
<1>1. /\ m \in Checkouts /\ m \notin Builds /\ WorkspaceTyped /\ remote["main"] # Gone
      /\ OnRemote("main", approved[m].commit)
  BY WorkspaceNames DEF WorkspaceInv, MergeSound
<1>2. OnRemote("main", approved[m].commit)'
  BY <1>1 DEF OnRemote, Reaches
<1>3. PICK report \in ReportRow' : Close(m, FALSE, report)
  BY <1>1, NoReportIs DEF Fails, WorkspaceTyped
<1> QED BY <1>1, <1>2, <1>3, EndingKeeps DEF WorkspaceTyped

(* The merged branch is removed if it still is what was merged. *)
LEMMA DeleteBranchKeeps ==
  ASSUME WorkspaceInv, NEW m \in Merges, DeleteBranch(m)
  PROVE  WorkspaceInv'
<1>0. /\ WorkspaceTyped /\ HistorySound /\ MergeSound(m) /\ remote["main"] # Gone
      /\ UNCHANGED <<made, history, discarded, fetched, approved>> /\ at[m] = "landed"
      /\ Close(m, FALSE, approved[m])
  BY DEF WorkspaceInv, DeleteBranch
<1>1. PICK b \in Builds : b = approved[m].branch
  BY <1>0 DEF MergeSound
<1>2. OnRemote("main", approved[m].commit) /\ remote["main"] \in 1..made
  BY <1>0, WorkspaceNames DEF WorkspaceTyped, MergeSound, Gone
<1>3. /\ RepoGrows /\ HistorySound' /\ ReportRow' = ReportRow /\ remote' \in [Branches -> 0..made']
      /\ remote'["main"] = remote["main"]
  <2>1. CASE UNCHANGED remote
    BY <1>0, <2>1, RepoStays DEF repoVars, WorkspaceTyped
  <2>2. CASE remote[b] = approved[m].commit /\ SetRemote(b, Gone)
    <3>1. history[remote[b]] \subseteq history[remote["main"]]
      BY <1>2, <1>0, <2>2 DEF OnRemote, Reaches, HistorySound
    <3> QED BY <1>0, <2>2, <3>1, BranchGoes DEF WorkspaceTyped
  <2> QED BY <1>1, <2>1, <2>2 DEF DeleteBranch
<1> QED BY <1>0, <1>3, MergeEnds DEF WorkspaceTyped

(* gh removes the branch, and what came to it since the merge with it. *)
LEMMA DeletePRBranchKeeps ==
  ASSUME WorkspaceInv, NEW m \in Merges, DeletePRBranch(m)
  PROVE  WorkspaceInv'
<1>0. /\ WorkspaceTyped /\ HistorySound /\ MergeSound(m) /\ remote["main"] # Gone
      /\ UNCHANGED <<made, history, fetched, approved>> /\ at[m] = "squashed"
      /\ Close(m, FALSE, approved[m]) \/ Fails(m)
  BY DEF WorkspaceInv, DeletePRBranch
<1>1. PICK b \in Builds : b = approved[m].branch
  BY <1>0 DEF MergeSound
<1>2. /\ RepoGrows /\ HistorySound' /\ ReportRow' = ReportRow /\ remote' \in [Branches -> 0..made']
      /\ remote'["main"] = remote["main"] /\ discarded' \subseteq Commits
  <2>1. CASE UNCHANGED <<remote, discarded>>
    BY <1>0, <2>1, RepoStays DEF repoVars, WorkspaceTyped
  <2>2. CASE /\ SetRemote(b, Gone)
             /\ discarded' = discarded \cup {c \in Commits : OnRemote(b, c) /\ ~OnRemote("main", c)}
    <3>1. discarded \subseteq discarded' /\ discarded' \subseteq Commits
      BY <1>0, <2>2 DEF WorkspaceTyped
    <3>2. ASSUME remote[b] # Gone
          PROVE  history[remote[b]] \subseteq history[remote["main"]] \cup discarded'
      <4>1. remote[b] \in Commits
        BY <1>0, <3>2, WorkspaceNames, WorkspaceAssumption DEF WorkspaceTyped, Commits, Gone
      <4>2. history[remote[b]] \subseteq Commits
        BY <1>0, <4>1 DEF WorkspaceTyped
      <4> QED BY <1>0, <2>2, <3>2, <4>2 DEF OnRemote, Reaches
    <3> QED BY <1>0, <2>2, <3>1, <3>2, BranchGoes
  <2> QED BY <1>1, <2>1, <2>2 DEF DeletePRBranch
<1> QED BY <1>0, <1>2, MergeEnds

(* GitHub merges the branch if it still is what was approved. *)
LEMMA MergePRKeeps ==
  ASSUME WorkspaceInv, NEW m \in Merges, MergePR(m)
  PROVE  WorkspaceInv'
<1>0. /\ m \in Checkouts /\ m \notin Builds /\ WorkspaceTyped /\ HistorySound /\ MergeSound(m) /\ remote["main"] # Gone
      /\ fetched' = fetched /\ discarded' = discarded /\ at[m] = "queued"
  BY WorkspaceNames DEF WorkspaceInv, MergePR
<1>1. PICK q \in Builds :
        /\ reported[q].ok /\ reported[q].commit # Gone
        /\ approved' = [approved EXCEPT ![m] = reported[q]]
        /\ \/ LET b == reported[q].branch IN
              /\ remote[b] = reported[q].commit
              /\ NewCommit(history[remote["main"]] \cup history[remote[b]])
              /\ SetRemote("main", made')
              /\ MergeAt(m, "squashed") \/ Fails(m)
           \/ Fails(m) /\ UNCHANGED <<made, history, remote>>
  BY DEF MergePR
<1>2. PICK asked \in ReportRow, b \in Builds, tip \in 1..made :
        asked = reported[q] /\ b = asked.branch /\ tip = asked.commit
  BY <1>1, ReportedIs
<1>3. /\ approved' \in [Merges -> ReportRow] /\ approved'[m] = asked
      /\ \A n \in Merges \ {m} : approved'[n] = approved[n]
  BY <1>0, <1>1, <1>2 DEF WorkspaceTyped
<1>4. CASE Fails(m) /\ UNCHANGED <<made, history, remote>>
  BY <1>0, <1>3, <1>4, NoReportIs, FailingKeeps DEF Fails, WorkspaceTyped, repoVars
<1>5. ASSUME remote[b] = tip, NewCommit(history[remote["main"]] \cup history[tip]),
             SetRemote("main", made'), MergeAt(m, "squashed") \/ Fails(m)
      PROVE  WorkspaceInv'
  <2>1. PICK main \in 1..made : main = remote["main"]
    BY <1>0, WorkspaceNames DEF WorkspaceTyped, Gone
  <2>2. /\ tip # Gone /\ tip \in history[tip] /\ history[tip] \in SUBSET (1..made)
        /\ \A d \in history[tip] : history[d] \subseteq history[tip]
        /\ history[main] \in SUBSET (1..made)
        /\ \A d \in history[main] : history[d] \subseteq history[main]
    BY <1>0 DEF HistorySound, Gone
  <2>3. PICK contained \in SUBSET (1..made) : contained = history[main] \cup history[tip]
    BY <2>2
  <2>4. \A d \in contained : history[d] \subseteq contained
    BY <2>2, <2>3
  <2>5. /\ made' \in Commits /\ made <= made' /\ made' = made + 1 /\ made \in Nat
        /\ history' \in [Commits -> SUBSET Commits]
        /\ \A c \in 1..made : history'[c] = history[c]
        /\ history'[made'] = contained \cup {made'}
        /\ HistorySound'
    BY <1>0, <1>5, <2>1, <2>3, <2>4, CommitIsMade
  <2>6. /\ remote \in [Branches -> 0..made'] /\ fetched \in [Branches -> 0..made']
        /\ kept \in [Checkouts -> 0..made'] /\ base \in [Checkouts -> 0..made']
        /\ approved \in [Merges -> ReportRow'] /\ reported \in [Checkouts -> ReportRow']
        /\ made' \in 0..made' /\ made' # Gone
    BY <1>0, <2>5, TypesStay DEF Gone
  <2>7. asked \in ReportRow'
    BY <1>0, <1>2, <2>6, WorkspaceNames
  <2>8. /\ remote' \in [Branches -> 0..made'] /\ remote'["main"] = made'
        /\ \A d \in Branches \ {"main"} : remote'[d] = remote[d]
    BY <1>5, <2>6, WorkspaceNames DEF SetRemote
  <2>9. RepoGrows
    <3>1. ASSUME NEW d \in Branches, remote[d] # Gone
          PROVE  remote'[d] # Gone /\ history[remote[d]] \subseteq history'[remote'[d]]
      <4>1. CASE d # "main"
        <5>1. remote[d] \in 1..made /\ remote'[d] = remote[d]
          BY <1>0, <2>8, <3>1, <4>1 DEF WorkspaceTyped, Gone
        <5> QED BY <2>5, <3>1, <5>1
      <4>2. CASE d = "main"
        BY <2>1, <2>3, <2>5, <2>6, <2>8, <4>2
      <4> QED BY <4>1, <4>2
    <3>2. remote["main"] # Gone /\ "main" \in Branches
      BY <1>0, WorkspaceNames
    <3> QED BY <1>0, <2>5, <3>1, <3>2 DEF RepoGrows
  <2>10. approved' \in [Merges -> ReportRow']
    BY <1>1, <1>2, <2>6, <2>7
  <2>11. tip \in history'[remote'["main"]] /\ remote'["main"] # Gone
    BY <2>2, <2>3, <2>5, <2>6, <2>8
  <2>12. CASE MergeAt(m, "squashed")
    <3>1. at' = [at EXCEPT ![m] = "squashed"] /\ UNCHANGED <<kept, start, base, reported>>
      BY <2>12 DEF MergeAt
    <3>2. WorkspaceTyped'
      BY <1>0, <2>5, <2>6, <2>8, <2>10, <3>1 DEF WorkspaceTyped, Stages
    <3>3. at'[m] = "squashed" /\ \A r \in Checkouts \ {m} : at'[r] = at[r]
      BY <1>0, <3>1 DEF WorkspaceTyped
    <3>4. MergeSound(m)'
      BY <1>0, <1>2, <1>3, <2>2, <2>11, <3>1, <3>3 DEF MergeSound, OnRemote, Reaches
    <3> QED BY <1>0, <1>3, <2>5, <2>9, <3>1, <3>2, <3>3, <3>4, RunMoves
  <2>13. CASE Fails(m)
    <3>1. Close(m, FALSE, NoReport) /\ ~NoReport.ok /\ NoReport \in ReportRow
      BY <1>0, <2>13, NoReportIs DEF Fails
    <3>2. NoReport \in ReportRow' /\ fetched' \in [Branches -> 0..made'] /\ discarded' \subseteq Commits
      BY <1>0, <2>5, <2>6, <3>1, WorkspaceNames DEF ReportRow, WorkspaceTyped
    <3> QED BY <1>0, <1>3, <2>5, <2>8, <2>9, <2>10, <3>1, <3>2, EndingKeeps
  <2> QED BY <1>5, <2>12, <2>13
<1> QED BY <1>1, <1>2, <1>4, <1>5

(* The process dies: no checkout is left to work in. *)
LEMMA CrashKeeps ==
  ASSUME WorkspaceInv, Crash
  PROVE  WorkspaceInv'
<1>1. /\ at' = [r \in Checkouts |-> IF at[r] \in {"queued", "closed"} THEN at[r] ELSE "crashed"]
      /\ start' = [r \in Checkouts |-> "main"] /\ base' = [r \in Checkouts |-> Gone]
      /\ UNCHANGED <<made, history, remote, discarded, fetched, kept, approved, reported>>
      /\ WorkspaceTyped /\ HistorySound /\ remote["main"] # Gone
  BY DEF Crash, repoVars, WorkspaceInv
<1>2. 0 \in 0..made /\ "crashed" \in Stages
  BY <1>1, WorkspaceNames DEF WorkspaceTyped, Stages
<1>3. WorkspaceTyped'
  <2>1. at' \in [Checkouts -> Stages]
    BY <1>1, <1>2 DEF WorkspaceTyped
  <2>2. start' \in [Checkouts -> Branches] /\ base' \in [Checkouts -> 0..made]
    BY <1>1, <1>2, WorkspaceNames DEF Gone
  <2> QED BY <1>1, <2>1, <2>2 DEF WorkspaceTyped, ReportRow
<1>4. ASSUME NEW r \in Checkouts
      PROVE  at'[r] = (IF at[r] \in {"queued", "closed"} THEN at[r] ELSE "crashed")
  BY <1>1
<1>5. ASSUME NEW r \in Builds
      PROVE  BuildSound(r)'
  <2>1. BuildSound(r) /\ (at'[r] \in {"queued", "closed", "crashed"}) /\ (at[r] = "closed" => at'[r] = "closed")
    BY <1>4, WorkspaceNames DEF WorkspaceInv
  <2> QED BY <1>1, <2>1 DEF BuildSound, Held, OnRemote, Reaches
<1>6. ASSUME NEW m \in Merges
      PROVE  MergeSound(m)'
  <2>1. MergeSound(m) /\ (at'[m] \in {"queued", "closed", "crashed"}) /\ (at[m] = "closed" => at'[m] = "closed")
    BY <1>4, WorkspaceNames DEF WorkspaceInv
  <2> QED BY <1>1, <2>1 DEF MergeSound, OnRemote, Reaches
<1>7. HistorySound'
  BY <1>1 DEF HistorySound
<1> QED BY <1>1, <1>3, <1>5, <1>6, <1>7 DEF WorkspaceInv

(* Someone else pushes on top of a branch. *)
LEMMA SomeonePushesKeeps ==
  ASSUME WorkspaceInv, NEW b \in Branches, SomeonePushes(b)
  PROVE  WorkspaceInv'
<1>1. /\ remote[b] # Gone /\ NewCommit(history[remote[b]]) /\ remote' = [remote EXCEPT ![b] = made']
      /\ UNCHANGED <<discarded, fetched, kept, at, start, base, approved, reported>>
      /\ WorkspaceTyped /\ HistorySound /\ remote["main"] # Gone
  BY DEF SomeonePushes, SetRemote, WorkspaceInv
<1>2. PICK c \in 1..made : c = remote[b]
  BY <1>1 DEF WorkspaceTyped, Gone
<1>3. history[c] \in SUBSET (1..made) /\ \A d \in history[c] : history[d] \subseteq history[c]
  BY <1>1 DEF HistorySound
<1>4. /\ made' \in Commits /\ made <= made' /\ made' = made + 1 /\ made \in Nat
      /\ history' \in [Commits -> SUBSET Commits]
      /\ \A d \in 1..made : history'[d] = history[d]
      /\ history'[made'] = history[c] \cup {made'}
      /\ HistorySound'
  BY <1>1, <1>2, <1>3, CommitIsMade
<1>5. /\ remote \in [Branches -> 0..made'] /\ fetched \in [Branches -> 0..made']
      /\ kept \in [Checkouts -> 0..made'] /\ base \in [Checkouts -> 0..made']
      /\ approved \in [Merges -> ReportRow'] /\ reported \in [Checkouts -> ReportRow']
      /\ made' \in 0..made' /\ made' # Gone
  BY <1>1, <1>4, TypesStay DEF Gone
<1>6. /\ remote' \in [Branches -> 0..made'] /\ remote'[b] = made'
      /\ \A d \in Branches \ {b} : remote'[d] = remote[d]
  BY <1>1, <1>5
<1>7. RepoGrows
  <2>1. ASSUME NEW d \in Branches, remote[d] # Gone
        PROVE  remote'[d] # Gone /\ history[remote[d]] \subseteq history'[remote'[d]]
    <3>1. remote[d] \in 1..made /\ (d # b => remote'[d] = remote[d])
      BY <1>1, <1>6, <2>1 DEF WorkspaceTyped, Gone
    <3> QED BY <1>2, <1>4, <1>5, <1>6, <2>1, <3>1
  <2> QED BY <1>1, <1>4, <2>1, WorkspaceNames DEF RepoGrows
<1>8. WorkspaceTyped'
  BY <1>1, <1>4, <1>5, <1>6 DEF WorkspaceTyped
<1>9. \A r \in Builds : BuildSound(r)'
  BY <1>1, <1>7, BuildStays
<1>10. \A m \in Merges : MergeSound(m)'
  BY <1>1, <1>7, MergeStays
<1> QED BY <1>4, <1>7, <1>8, <1>9, <1>10 DEF WorkspaceInv, RepoGrows

(* A repository with one commit, and nobody working. *)
LEMMA WorkspaceStart == WorkspaceInit => WorkspaceInv
<1> SUFFICES ASSUME WorkspaceInit PROVE WorkspaceInv
  OBVIOUS
<1>1. made = 1 /\ 0 \in 0..made /\ 1 \in 0..made /\ "queued" \in Stages
  BY DEF WorkspaceInit, Stages
<1>2. NoReport \in ReportRow /\ NoReport.commit = Gone /\ ~NoReport.ok
  BY <1>1, WorkspaceNames DEF NoReport, ReportRow, Gone
<1>3. /\ history \in [Commits -> SUBSET Commits] /\ history[1] = {1}
      /\ remote \in [Branches -> 0..made] /\ remote["main"] = 1
  BY <1>1, WorkspaceNames DEF WorkspaceInit, Gone
<1>4. WorkspaceTyped
  BY <1>1, <1>2, <1>3, WorkspaceNames DEF WorkspaceInit, WorkspaceTyped, Gone
<1>5. HistorySound
  BY <1>1, <1>3 DEF HistorySound
<1>6. ASSUME NEW r \in Checkouts
      PROVE  at[r] = "queued" /\ reported[r] = NoReport
  BY DEF WorkspaceInit
<1>7. \A r \in Builds : BuildSound(r)
  BY <1>2, <1>6, WorkspaceNames DEF BuildSound
<1>8. \A m \in Merges : MergeSound(m)
  BY <1>2, <1>6, WorkspaceNames DEF MergeSound
<1> QED BY <1>3, <1>4, <1>5, <1>7, <1>8 DEF WorkspaceInv, Gone

(* Every step keeps the invariant. *)
LEMMA WorkspaceKept == WorkspaceInv /\ [WorkspaceNext]_workspaceVars => WorkspaceInv'
<1> SUFFICES ASSUME WorkspaceInv, [WorkspaceNext]_workspaceVars PROVE WorkspaceInv'
  OBVIOUS
<1>1. ASSUME NEW r \in Builds, NEW from \in Branches, PrepareBuild(r, from) PROVE WorkspaceInv'
  BY <1>1, PreparesKeep
<1>2. ASSUME NEW r \in Builds, CommitWork(r) PROVE WorkspaceInv'
  BY <1>2, CommitWorkKeeps
<1>3. ASSUME NEW r \in Builds, NothingToDeliver(r) \/ FilesFail(r) PROVE WorkspaceInv'
  BY <1>3, EmptyHandedKeeps
<1>4. ASSUME NEW r \in Builds, Push(r) PROVE WorkspaceInv'
  BY <1>4, PushKeeps
<1>5. ASSUME NEW r \in Builds, Deliver(r) PROVE WorkspaceInv'
  BY <1>5, DeliverKeeps
<1>6. ASSUME NEW m \in Merges, PrepareMerge(m) PROVE WorkspaceInv'
  BY <1>6, PreparesKeep
<1>7. ASSUME NEW m \in Merges, MergeBranch(m) PROVE WorkspaceInv'
  BY <1>7, MergeBranchKeeps
<1>8. ASSUME NEW m \in Merges, PushMain(m) PROVE WorkspaceInv'
  BY <1>8, PushMainKeeps
<1>9. ASSUME NEW m \in Merges, DeleteBranch(m) PROVE WorkspaceInv'
  BY <1>9, DeleteBranchKeeps
<1>10. ASSUME NEW m \in Merges, MergePR(m) PROVE WorkspaceInv'
  BY <1>10, MergePRKeeps
<1>11. CASE Crash
  BY <1>11, CrashKeeps
<1>14. ASSUME NEW m \in Merges, DeletePRBranch(m) PROVE WorkspaceInv'
  BY <1>14, DeletePRBranchKeeps
<1>12. ASSUME NEW b \in Branches, SomeonePushes(b) PROVE WorkspaceInv'
  BY <1>12, SomeonePushesKeeps
<1>13. CASE UNCHANGED workspaceVars
  <2>1. UNCHANGED <<made, history, remote, discarded, fetched, kept, at, start, base, approved, reported>>
    BY <1>13 DEF workspaceVars, repoVars
  <2>2. RepoGrows /\ HistorySound' /\ ReportRow' = ReportRow
    BY <2>1, RepoStays DEF repoVars
  <2>3. WorkspaceTyped'
    BY <2>1, <2>2 DEF WorkspaceInv, WorkspaceTyped
  <2> QED BY <2>1, <2>2, <2>3, BuildStays, MergeStays DEF WorkspaceInv
<1> QED BY <1>1, <1>2, <1>3, <1>4, <1>5, <1>6, <1>7, <1>8, <1>9, <1>10, <1>11, <1>12, <1>13, <1>14 DEF WorkspaceNext

(* The invariant of the workspace holds throughout. *)
LEMMA WorkspaceAlways == WorkspaceSpec => []WorkspaceInv
BY WorkspaceStart, WorkspaceKept, PTL DEF WorkspaceSpec

(* What a Run said of its work stays true whatever other Runs, people and  *)
(* a dying process do to the mirror and the remote, but for what came to a *)
(* branch between gh's merge of it and its deletion (agent.go deliver,     *)
(* merge; workspace.go push, close, mergePR).                              *)
THEOREM ReportsHold == WorkspaceSpec => []ReportsStayTrue
<1>1. WorkspaceInv => ReportsStayTrue
  BY DEF WorkspaceInv, BuildSound, MergeSound, ReportsStayTrue, Held
<1> QED BY <1>1, WorkspaceAlways, PTL

(* A merge puts the approved commit on the default branch and nothing that *)
(* was not there or asked for, also one that is told it failed             *)
(* (workspace.go merge, mergePR).                                          *)
THEOREM MergesAreFaithful == WorkspaceSpec => OnlyApprovedLands
<1>1. ASSUME WorkspaceInv, [WorkspaceNext]_workspaceVars, NEW m \in Merges,
             at'[m] # at[m], remote'["main"] # remote["main"]
      PROVE  history'[remote'["main"]] \ (history[remote["main"]] \cup history[approved'[m].commit])
               \subseteq {remote'["main"]}
  <2> USE <1>1
  <2>0. WorkspaceTyped /\ MergeSound(m) /\ m \in Checkouts /\ m \notin Builds
    BY WorkspaceNames DEF WorkspaceInv
  <2>1. PICK n \in Merges : PushMain(n) \/ MergePR(n)
    <3>1. ASSUME NEW r \in Builds, NEW from \in Branches, PrepareBuild(r, from) PROVE FALSE
      BY <3>1 DEF PrepareBuild, repoVars
    <3>2. ASSUME NEW r \in Builds, Push(r) PROVE FALSE
      BY <2>0, <3>2, WorkspaceNames DEF Push, SetRemote, Target, WorkspaceTyped
    <3>3. ASSUME NEW r \in Builds, CommitWork(r) \/ NothingToDeliver(r) \/ FilesFail(r) \/ Deliver(r) PROVE FALSE
      BY <3>3 DEF CommitWork, NothingToDeliver, FilesFail, Deliver, repoVars
    <3>4. ASSUME NEW n \in Merges, PrepareMerge(n) \/ MergeBranch(n) PROVE FALSE
      BY <3>4 DEF PrepareMerge, MergeBranch, repoVars
    <3>5. ASSUME NEW n \in Merges, DeleteBranch(n) \/ DeletePRBranch(n) PROVE FALSE
      <4>1. approved[n].branch \in Builds
        BY <3>5 DEF WorkspaceInv, MergeSound, DeleteBranch, DeletePRBranch
      <4> QED BY <2>0, <3>5, <4>1, WorkspaceNames DEF DeleteBranch, DeletePRBranch, SetRemote, WorkspaceTyped
    <3>6. CASE Crash
      BY <3>6 DEF Crash, repoVars
    <3>7. ASSUME NEW b \in Branches, SomeonePushes(b) PROVE FALSE
      BY <3>7 DEF SomeonePushes
    <3>8. CASE UNCHANGED workspaceVars
      BY <3>8 DEF workspaceVars
    <3> QED BY <3>1, <3>2, <3>3, <3>4, <3>5, <3>6, <3>7, <3>8 DEF WorkspaceNext
  <2>2. MergeAt(n, "landed") \/ MergeAt(n, "squashed") \/ Fails(n)
    BY <2>1 DEF PushMain, MergePR
  <2>3. n = m
    BY <2>0, <2>2 DEF MergeAt, Fails, Close, WorkspaceTyped
  <2>4. CASE PushMain(n)
    <3>1. SetRemote("main", kept[m]) /\ UNCHANGED <<history, approved>> /\ at[m] = "committed"
      BY <2>3, <2>4 DEF PushMain
    <3>2. remote'["main"] = kept[m]
      BY <2>0, <3>1, WorkspaceNames DEF SetRemote, WorkspaceTyped
    <3>3. history[kept[m]] \subseteq history[base[m]] \cup history[approved[m].commit] \cup {kept[m]}
      BY <2>0, <3>1 DEF MergeSound
    <3>4. history[base[m]] \subseteq history[remote["main"]]
      BY <2>0, <3>1 DEF MergeSound
    <3>5. history' = history /\ approved'[m].commit = approved[m].commit
      BY <3>1
    <3> QED BY <3>2, <3>3, <3>4, <3>5
  <2>5. CASE MergePR(n)
    <3>1. PICK q \in Builds :
             /\ reported[q].ok /\ reported[q].commit # Gone
             /\ approved' = [approved EXCEPT ![m] = reported[q]]
             /\ remote[reported[q].branch] = reported[q].commit
             /\ NewCommit(history[remote["main"]] \cup history[remote[reported[q].branch]])
             /\ SetRemote("main", made')
      BY <2>3, <2>5 DEF MergePR
    <3>2. PICK asked \in ReportRow, c \in 1..made :
             /\ c = asked.commit /\ approved' = [approved EXCEPT ![m] = asked]
             /\ NewCommit(history[remote["main"]] \cup history[c])
      BY <3>1, ReportedIs
    <3>3. made' = made + 1 /\ made + 1 \in Commits
      BY <2>0, <3>2, WorkspaceAssumption DEF WorkspaceTyped, NewCommit, Commits
    <3>4. remote'["main"] = made'
      BY <2>0, <3>1, WorkspaceNames DEF WorkspaceTyped, SetRemote
    <3>5. approved'[m].commit = c
      BY <2>0, <3>2 DEF WorkspaceTyped
    <3>6. history'[made'] = history[remote["main"]] \cup history[c] \cup {made'}
      BY <2>0, <3>2, <3>3 DEF WorkspaceTyped, NewCommit
    <3> QED BY <3>4, <3>5, <3>6
  <2> QED BY <2>1, <2>4, <2>5
<1>2. WorkspaceInv /\ [WorkspaceNext]_workspaceVars =>
        \/ \A m \in Merges : at'[m] # at[m] /\ remote'["main"] # remote["main"] =>
             LET tip == remote'["main"] IN
             history'[tip] \ (history[remote["main"]] \cup history[approved'[m].commit]) \subseteq {tip}
        \/ UNCHANGED workspaceVars
  BY <1>1
<1> QED BY <1>2, WorkspaceAlways, PTL DEF WorkspaceSpec, OnlyApprovedLands

(***************************************************************************)
(* The login.                                                              *)
(***************************************************************************)
Tokens == 1..Len(issued)

HomeTyped ==
  /\ up \subseteq Procs /\ stage \in [Jobs -> JobStages] /\ owner \in [Jobs -> Procs \cup {Nobody}]
  /\ issued \in Seq(SUBSET Nat) /\ login \in Tokens
  /\ orig \in [Jobs -> Tokens] /\ now \in [Jobs -> Tokens]
  /\ writing \in [Procs -> Jobs \cup {Nobody}] /\ overtaken \subseteq Jobs

(* The token a Run holds goes back to the one it was given, or is that.    *)
Descends(j) == now[j] # orig[j] => orig[j] \in issued[now[j]]

(* Who writes a token back found in the user's home the one it was given,  *)
(* and nobody has replaced that, or it was overtaken.                      *)
WriterIsRight(p) ==
  writing[p] # Nobody =>
    /\ writing[p] \in Jobs /\ stage[writing[p]] = "returned" /\ owner[writing[p]] = p
    /\ now[writing[p]] # orig[writing[p]]
    /\ login = orig[writing[p]] \/ writing[p] \in overtaken

HomeInv == HomeTyped /\ (\A j \in Jobs : Descends(j)) /\ (\A p \in Procs : WriterIsRight(p))

(* Jobs and processes that nothing happens to. *)
LEMMA HomeStays ==
  ASSUME HomeInv, HomeTyped', UNCHANGED <<issued, login, orig, now, writing, overtaken>>,
         \A j \in Jobs : stage[j] = "returned" /\ writing[owner[j]] = j => stage'[j] = stage[j] /\ owner'[j] = owner[j]
  PROVE  HomeInv'
<1>1. \A j \in Jobs : Descends(j)'
  BY DEF HomeInv, Descends
<1>2. ASSUME NEW p \in Procs
      PROVE  WriterIsRight(p)'
  BY DEF HomeInv, WriterIsRight
<1> QED BY <1>1, <1>2 DEF HomeInv

(* A token is issued; those of before keep theirs. *)
LEMMA TokenIsIssued ==
  ASSUME HomeTyped, NEW back \in SUBSET Nat, issued' = Append(issued, back)
  PROVE  /\ issued' \in Seq(SUBSET Nat)
         /\ Tokens \subseteq Tokens' /\ Len(issued') \in Tokens' /\ Len(issued') \notin Tokens
         /\ issued'[Len(issued')] = back /\ \A t \in Tokens : issued'[t] = issued[t]
<1>1. issued \in Seq(SUBSET Nat) /\ Len(issued) \in Nat
  BY LenProperties DEF HomeTyped, Tokens
<1>2. /\ issued' \in Seq(SUBSET Nat) /\ Len(issued') = Len(issued) + 1
      /\ \A i \in 1..Len(issued) : issued'[i] = issued[i]
      /\ issued'[Len(issued) + 1] = back
  BY <1>1, AppendProperties
<1> QED BY <1>1, <1>2 DEF Tokens

(* The AI exchanges a Run's token. *)
LEMMA RefreshKeeps ==
  ASSUME HomeInv, NEW j \in Jobs, Refresh(j)
  PROVE  HomeInv'
<1>1. /\ stage[j] = "running" /\ issued' = Append(issued, issued[now[j]] \cup {now[j]})
      /\ now' = [now EXCEPT ![j] = Len(issued')] /\ UNCHANGED <<up, stage, owner, login, orig, writing, overtaken>> /\ HomeTyped
  BY DEF Refresh, HomeInv
<1>2. now[j] \in Tokens /\ orig[j] \in Tokens /\ issued[now[j]] \in SUBSET Nat /\ now[j] \in Nat
  BY <1>1, ElementOfSeq DEF HomeTyped, Tokens
<1>3. PICK back \in SUBSET Nat : back = issued[now[j]] \cup {now[j]}
  BY <1>2
<1>4. /\ issued' \in Seq(SUBSET Nat)
      /\ Tokens \subseteq Tokens' /\ Len(issued') \in Tokens' /\ Len(issued') \notin Tokens
      /\ issued'[Len(issued')] = back /\ \A t \in Tokens : issued'[t] = issued[t]
  BY <1>1, <1>3, TokenIsIssued
<1>5. now'[j] = Len(issued') /\ \A k \in Jobs \ {j} : now'[k] = now[k]
  BY <1>1 DEF HomeTyped
<1>6. HomeTyped'
  <2>1. now' \in [Jobs -> Tokens'] /\ orig \in [Jobs -> Tokens'] /\ login \in Tokens'
    BY <1>1, <1>4 DEF HomeTyped
  <2> QED BY <1>1, <1>4, <2>1 DEF HomeTyped
<1>7. ASSUME NEW k \in Jobs
      PROVE  Descends(k)'
  <2>1. Descends(k) /\ Descends(j) /\ now[k] \in Tokens /\ orig'[k] = orig[k]
    BY <1>1 DEF HomeInv, HomeTyped
  <2>2. CASE k = j
    <3>1. issued'[now'[j]] = issued[now[j]] \cup {now[j]}
      BY <1>3, <1>4, <1>5
    <3> QED BY <2>1, <2>2, <3>1 DEF Descends
  <2>3. CASE k # j
    <3>1. now'[k] = now[k] /\ issued'[now[k]] = issued[now[k]]
      BY <1>4, <1>5, <2>1, <2>3
    <3> QED BY <2>1, <3>1 DEF Descends
  <2> QED BY <2>2, <2>3
<1>8. ASSUME NEW p \in Procs
      PROVE  WriterIsRight(p)'
  BY <1>1, <1>5 DEF HomeInv, WriterIsRight
<1> QED BY <1>6, <1>7, <1>8 DEF HomeInv

(* The user logs in again. *)
LEMMA LogInKeeps ==
  ASSUME HomeInv, LogIn
  PROVE  HomeInv' /\ issued'[login'] = {}
<1>1. /\ issued' = Append(issued, {}) /\ login' = Len(issued') /\ HomeTyped
      /\ UNCHANGED <<up, stage, owner, orig, now, writing>> /\ overtaken' = Writers
  BY DEF LogIn, HomeInv
<1>2. PICK back \in SUBSET Nat : back = {}
  OBVIOUS
<1>3. /\ issued' \in Seq(SUBSET Nat)
      /\ Tokens \subseteq Tokens' /\ Len(issued') \in Tokens'
      /\ issued'[Len(issued')] = back /\ \A t \in Tokens : issued'[t] = issued[t]
  BY <1>1, <1>2, TokenIsIssued
<1>4. HomeTyped'
  <2>1. now \in [Jobs -> Tokens'] /\ orig \in [Jobs -> Tokens'] /\ login' \in Tokens'
    BY <1>1, <1>3 DEF HomeTyped
  <2>2. Writers \subseteq Jobs
    BY <1>1 DEF HomeTyped, Writers
  <2> QED BY <1>1, <1>3, <2>1, <2>2 DEF HomeTyped
<1>5. ASSUME NEW j \in Jobs
      PROVE  Descends(j)'
  BY <1>1, <1>3 DEF HomeInv, HomeTyped, Descends
<1>6. ASSUME NEW p \in Procs
      PROVE  WriterIsRight(p)'
  BY <1>1 DEF HomeInv, WriterIsRight, Writers
<1> QED BY <1>1, <1>2, <1>3, <1>4, <1>5, <1>6 DEF HomeInv

(* A fresh token is written back, in two steps. *)
LEMMA CompareKeeps ==
  ASSUME HomeInv, NEW j \in Jobs, Compare(j)
  PROVE  HomeInv'
<1>1. /\ stage[j] = "returned" /\ owner[j] \in Procs /\ now[j] # orig[j] /\ login = orig[j]
      /\ writing' = [writing EXCEPT ![owner[j]] = j]
      /\ UNCHANGED <<up, stage, owner, login, issued, orig, now, overtaken>> /\ HomeTyped
  BY DEF Compare, Working, StillCopied, HomeInv, HomeTyped
<1>2. /\ writing' \in [Procs -> Jobs \cup {Nobody}] /\ writing'[owner[j]] = j
      /\ \A p \in Procs \ {owner[j]} : writing'[p] = writing[p]
  BY <1>1 DEF HomeTyped
<1>3. HomeTyped'
  BY <1>1, <1>2 DEF HomeTyped, Tokens
<1>4. \A k \in Jobs : Descends(k)'
  BY <1>1 DEF HomeInv, Descends
<1>5. ASSUME NEW p \in Procs
      PROVE  WriterIsRight(p)'
  BY <1>1, <1>2 DEF HomeInv, WriterIsRight
<1> QED BY <1>3, <1>4, <1>5 DEF HomeInv

(* A Run puts its token back, which goes back to the one it was given: the *)
(* one in the user's home, unless the Run was overtaken.                   *)
LEMMA ReplaceKeeps ==
  ASSUME HomeInv, NEW j \in Jobs, Replace(j)
  PROVE  HomeInv' /\ (login' # login => Follows \/ \E i \in Writers \cap overtaken : login' = now[i])
<1>1. /\ owner[j] \in Procs /\ writing[owner[j]] = j
      /\ writing' = [writing EXCEPT ![owner[j]] = Nobody] /\ stage' = [stage EXCEPT ![j] = "over"]
      /\ UNCHANGED <<up, owner, issued, orig, now>> /\ HomeTyped
      /\ login' = login \/ \E i \in Writers : login' = now[i]
      /\ overtaken' = (IF login' = login THEN overtaken ELSE Writers) \ {j}
  BY DEF Replace, Working, Goes, HomeInv, HomeTyped
<1>2. Writers \subseteq Jobs
  BY <1>1 DEF Writers, HomeTyped
<1>3. writing'[owner[j]] = Nobody /\ \A p \in Procs \ {owner[j]} : writing'[p] = writing[p]
  BY <1>1 DEF HomeTyped
<1>4. HomeTyped'
  <2>1. login' \in Tokens
    BY <1>1, <1>2 DEF HomeTyped
  <2>2. overtaken' \subseteq Jobs /\ stage' \in [Jobs -> JobStages] /\ writing' \in [Procs -> Jobs \cup {Nobody}]
    BY <1>1, <1>2 DEF HomeTyped, JobStages
  <2> QED BY <1>1, <2>1, <2>2 DEF HomeTyped, Tokens
<1>5. \A k \in Jobs : Descends(k)'
  BY <1>1 DEF HomeInv, Descends
<1>6. ASSUME NEW p \in Procs
      PROVE  WriterIsRight(p)'
  <2>1. CASE p = owner[j]
    BY <1>3, <2>1 DEF WriterIsRight
  <2>2. CASE p # owner[j]
    <3>1. writing'[p] = writing[p] /\ WriterIsRight(p)
      BY <1>3, <2>2 DEF HomeInv
    <3>2. writing[p] # Nobody => writing[p] # j /\ writing[p] \in Writers
      BY <1>1, <2>2, <3>1 DEF WriterIsRight, Writers
    <3>3. writing[p] # Nobody => stage'[writing[p]] = stage[writing[p]]
      BY <1>1, <3>1, <3>2 DEF WriterIsRight
    <3> QED BY <1>1, <3>1, <3>2, <3>3 DEF WriterIsRight
  <2> QED BY <2>1, <2>2
<1>7. ASSUME login' # login
      PROVE  Follows \/ \E i \in Writers \cap overtaken : login' = now[i]
  <2>1. PICK i \in Writers : login' = now[i]
    BY <1>1, <1>7
  <2>2. PICK p \in Procs : writing[p] = i /\ i # Nobody
    BY DEF Writers
  <2>3. i \in Jobs /\ now[i] # orig[i] /\ (login = orig[i] \/ i \in overtaken)
    BY <2>2 DEF HomeInv, WriterIsRight
  <2>4. orig[i] \in issued[now[i]]
    BY <2>3 DEF HomeInv, Descends
  <2> QED BY <1>1, <2>1, <2>3, <2>4 DEF Follows
<1> QED BY <1>4, <1>5, <1>6, <1>7 DEF HomeInv

(* What else a process does for a Run. *)
LEMMA OthersKeep ==
  ASSUME HomeInv, NEW j \in Jobs,
         \/ Ready(j) \/ RunContainer(j) \/ RemoveContainer(j) \/ NoWriteBack(j) \/ ContainerEnds(j)
  PROVE  HomeInv' /\ login' = login
<1>1. UNCHANGED <<up, owner, login, issued, orig, now, writing, overtaken>> /\ HomeTyped
  BY DEF Ready, RunContainer, RemoveContainer, NoWriteBack, ContainerEnds, tokenVars, HomeInv
<1>2. \/ UNCHANGED stage
      \/ \E s \in JobStages : stage' = [stage EXCEPT ![j] = s] /\ ~(stage[j] = "returned" /\ writing[owner[j]] = j)
  <2>1. CASE NoWriteBack(j)
    BY <2>1, HomeAssumption DEF NoWriteBack, Working, Goes, JobStages
  <2>2. CASE Ready(j) \/ RunContainer(j) \/ RemoveContainer(j)
    BY <2>2 DEF Ready, RunContainer, RemoveContainer, Working, Goes, JobStages
  <2> QED BY <2>1, <2>2 DEF ContainerEnds
<1>3. HomeTyped'
  <2>1. stage' \in [Jobs -> JobStages]
    BY <1>1, <1>2 DEF HomeTyped
  <2> QED BY <1>1, <2>1 DEF HomeTyped, Tokens
<1>4. \A k \in Jobs : stage[k] = "returned" /\ writing[owner[k]] = k => stage'[k] = stage[k] /\ owner'[k] = owner[k]
  BY <1>1, <1>2 DEF HomeTyped
<1> QED BY <1>1, <1>3, <1>4, HomeStays

(* A Run begins. *)
LEMMA MakeHomeKeeps ==
  ASSUME HomeInv, NEW p \in Procs, NEW j \in Jobs, MakeHome(p, j)
  PROVE  HomeInv' /\ login' = login
<1>1. /\ stage[j] = "queued" /\ stage' = [stage EXCEPT ![j] = "home"] /\ owner' = [owner EXCEPT ![j] = p]
      /\ orig' = [orig EXCEPT ![j] = login] /\ now' = [now EXCEPT ![j] = login]
      /\ UNCHANGED <<up, login, issued, writing, overtaken>> /\ HomeTyped
  BY DEF MakeHome, Goes, HomeInv
<1>2. HomeTyped'
  BY <1>1 DEF HomeTyped, Tokens, JobStages
<1>3. /\ orig'[j] = now'[j]
      /\ \A k \in Jobs \ {j} : orig'[k] = orig[k] /\ now'[k] = now[k] /\ stage'[k] = stage[k] /\ owner'[k] = owner[k]
  BY <1>1 DEF HomeTyped
<1>4. ASSUME NEW k \in Jobs
      PROVE  Descends(k)'
  BY <1>1, <1>3 DEF HomeInv, Descends
<1>5. ASSUME NEW q \in Procs
      PROVE  WriterIsRight(q)'
  BY <1>1, <1>3 DEF HomeInv, WriterIsRight
<1> QED BY <1>1, <1>2, <1>4, <1>5 DEF HomeInv

(* A process starts, or dies and writes nothing any more. *)
LEMMA ProcessKeeps ==
  ASSUME HomeInv, NEW p \in Procs, FromConfig(p) \/ Die(p)
  PROVE  HomeInv' /\ login' = login
<1>1. CASE FromConfig(p)
  <2>1. up' = up \cup {p} /\ UNCHANGED <<stage, owner, login, issued, orig, now, writing, overtaken>> /\ HomeTyped
    BY <1>1 DEF FromConfig, tokenVars, HomeInv
  <2>2. HomeTyped'
    BY <2>1 DEF HomeTyped, Tokens
  <2> QED BY <2>1, <2>2, HomeStays
<1>2. CASE Die(p)
  <2>1. /\ up' = up \ {p} /\ stage' = [j \in Jobs |-> IF owner[j] = p /\ stage[j] # "over" THEN "lost" ELSE stage[j]]
        /\ writing' = [writing EXCEPT ![p] = Nobody] /\ overtaken' = overtaken \ {writing[p]}
        /\ UNCHANGED <<owner, login, issued, orig, now>> /\ HomeTyped
    BY <1>2 DEF Die, HomeInv
  <2>2. HomeTyped'
    BY <2>1 DEF HomeTyped, Tokens, JobStages
  <2>3. writing'[p] = Nobody /\ \A q \in Procs \ {p} : writing'[q] = writing[q]
    BY <2>1 DEF HomeTyped
  <2>4. \A j \in Jobs : owner[j] # p => stage'[j] = stage[j]
    BY <2>1
  <2>5. \A j \in Jobs : Descends(j)'
    BY <2>1 DEF HomeInv, Descends
  <2>6. ASSUME NEW q \in Procs
        PROVE  WriterIsRight(q)'
    BY <2>1, <2>3, <2>4 DEF HomeInv, WriterIsRight
  <2> QED BY <2>1, <2>2, <2>5, <2>6 DEF HomeInv
<1> QED BY <1>1, <1>2

(* One token, and no Run has a copy. *)
LEMMA HomeStarts == HomeInit => HomeInv
<1> SUFFICES ASSUME HomeInit PROVE HomeInv
  OBVIOUS
<1>1. issued = <<{}>> /\ issued \in Seq(SUBSET Nat) /\ Len(issued) = 1
  BY DEF HomeInit
<1>2. HomeTyped
  BY <1>1 DEF HomeInit, HomeTyped, Tokens, JobStages
<1> QED BY <1>2 DEF HomeInit, HomeInv, Descends, WriterIsRight

(* The login in the user's home is only ever replaced by one that goes     *)
(* back to it, or by the user, unless the user or another process came     *)
(* between a Run's comparison and its rename: processes share no lock, and *)
(* the user's CLI takes none (container.go writeBack).                     *)
THEOREM LoginIsNotUndone == HomeSpec => LoginFollows
<1>1. HomeInv /\ [HomeNext]_homeVars =>
        HomeInv' /\ (login' # login => Follows \/ \E j \in Writers \cap overtaken : login' = now[j])
  <2> SUFFICES ASSUME HomeInv, [HomeNext]_homeVars
               PROVE  HomeInv' /\ (login' # login => Follows \/ \E j \in Writers \cap overtaken : login' = now[j])
    OBVIOUS
  <2>1. ASSUME NEW p \in Procs, FromConfig(p) \/ Die(p) PROVE HomeInv' /\ login' = login
    BY <2>1, ProcessKeeps
  <2>2. ASSUME NEW p \in Procs, NEW j \in Jobs, MakeHome(p, j) PROVE HomeInv' /\ login' = login
    BY <2>2, MakeHomeKeeps
  <2>3. ASSUME NEW j \in Jobs, Ready(j) \/ RunContainer(j) \/ RemoveContainer(j) \/ NoWriteBack(j) \/ ContainerEnds(j)
        PROVE  HomeInv' /\ login' = login
    BY <2>3, OthersKeep
  <2>4. ASSUME NEW j \in Jobs, Refresh(j) PROVE HomeInv' /\ login' = login
    BY <2>4, RefreshKeeps DEF Refresh
  <2>5. ASSUME NEW j \in Jobs, Compare(j) PROVE HomeInv' /\ login' = login
    BY <2>5, CompareKeeps DEF Compare
  <2>6. ASSUME NEW i \in Jobs, Replace(i)
        PROVE  HomeInv' /\ (login' # login => Follows \/ \E j \in Writers \cap overtaken : login' = now[j])
    BY <2>6, ReplaceKeeps
  <2>7. CASE LogIn
    BY <2>7, LogInKeeps DEF Follows
  <2>8. CASE UNCHANGED homeVars
    <3>1. UNCHANGED <<up, stage, owner, login, issued, orig, now, writing, overtaken>>
      BY <2>8 DEF homeVars
    <3> QED BY <3>1 DEF HomeInv, HomeTyped, Tokens, Descends, WriterIsRight
  <2> QED BY <2>1, <2>2, <2>3, <2>4, <2>5, <2>6, <2>7, <2>8 DEF HomeNext
<1> QED BY <1>1, HomeStarts, PTL DEF HomeSpec, LoginFollows, Follows

-----------------------------------------------------------------------------
(***************************************************************************)
(* Types, of each part and of the process.                                 *)
(***************************************************************************)

(* What no other part of the session's invariant speaks of: how it ends,   *)
(* and what a person is asked.                                             *)
SessionRest ==
  /\ asks \in BOOLEAN /\ ctx \in {"live", "stopped"} /\ cancelled \in BOOLEAN
  /\ outcome \in {"none", "ok", "error", "stopped"} /\ (outcome = "none" <=> place # "over")
  /\ question \in {"none", "sent", "asked", "allowed", "refused"}

(* Converse ends with an outcome, or goes on without one. *)
Proceeds ==
  \/ place' = "over" /\ outcome' \in {"ok", "error", "stopped"}
  \/ place' # "over" /\ outcome' = outcome

(* A request that is made has no outcome yet; one that cannot be made is   *)
(* the end.                                                                *)
LEMMA RequestProceeds ==
  ASSUME NEW what, NEW next \in Places \ {"over"}, Request(what, next)
  PROVE  Proceeds
BY DEF Request, Explain, Return, Proceeds

(* So does whatever converse does, which ends once. *)
LEMMA ConverseProceeds ==
  ASSUME Converse \/ Abandon \/ TurnOver \/ GraceOver
  PROVE  place # "over" /\ Proceeds /\ UNCHANGED <<asks, ctx, cancelled, question>>
<1>1. \A r \in {"ok", "error", "stopped"} : (Explain(r) => Proceeds) /\ (Return(r) => Proceeds)
  BY DEF Explain, Return, Proceeds
<1>2. /\ Request("call", "new") => Proceeds
      /\ Request("call", "authenticate") => Proceeds
      /\ Request("call", "renew") => Proceeds
      /\ Request("mode", "mode") => Proceeds
      /\ Prompt => Proceeds
  BY RequestProceeds DEF Prompt, Places
<1>3. (Opened => Proceeds) /\ (NextTurn => Proceeds)
  BY <1>2 DEF Opened, NextTurn
<1>4. CASE Converse
  BY <1>1, <1>2, <1>3, <1>4 DEF Converse, agentVars
<1>5. CASE Abandon
  BY <1>1, <1>2, <1>5 DEF Abandon, agentVars
<1>6. CASE TurnOver
  BY <1>1, <1>2, <1>3, <1>6 DEF TurnOver, agentVars
<1>7. CASE GraceOver
  BY <1>1, <1>7 DEF GraceOver, agentVars
<1> QED BY <1>4, <1>5, <1>6, <1>7

(* No step forgets how the session ended, or asks a second question. *)
LEMMA SessionRestKept == SessionRest /\ [SessionNext]_sessionVars => SessionRest'
<1> SUFFICES ASSUME SessionRest, [SessionNext]_sessionVars PROVE SessionRest'
  OBVIOUS
<1>1. CASE Converse \/ Abandon \/ TurnOver \/ GraceOver
  <2>1. place # "over" /\ Proceeds /\ UNCHANGED <<asks, ctx, cancelled, question>>
    BY <1>1, ConverseProceeds
  <2> QED BY <2>1 DEF SessionRest, Proceeds
<1>2. CASE Hear \/ (\E m \in Messages : Say(m)) \/ EndOfFile \/ BadLine
  BY <1>2 DEF Hear, Say, EndOfFile, BadLine, ReadEnds, connVars, agentVars, steerVars, SessionRest
<1>3. CASE Stopping
  BY <1>3 DEF Stopping, agentVars, SessionRest
<1>4. CASE StopProcess \/ AgentExits \/ StopRun
  BY <1>4 DEF StopProcess, AgentExits, AgentGone, StopRun, agentVars, SessionRest
<1>5. CASE Read
  BY <1>5 DEF Read, ReadResponse, ReadRequest, agentVars, SessionRest
<1>6. CASE Permit
  BY <1>6 DEF Permit, agentVars, SessionRest
<1>7. CASE AgentReads
  <2>1. cancelled' \in BOOLEAN /\ UNCHANGED <<asks, place, ctx, outcome, question>>
    BY <1>7 DEF AgentReads, SessionRest
  <2> QED BY <2>1 DEF SessionRest
<1>8. CASE AgentEndsTurn
  BY <1>8 DEF AgentEndsTurn, SessionRest
<1>9. CASE AgentAsks
  BY <1>9 DEF AgentAsks, agentVars, SessionRest
<1>10. CASE UNCHANGED sessionVars
  BY <1>10 DEF sessionVars, agentVars, SessionRest
<1> QED BY <1>1, <1>2, <1>3, <1>4, <1>5, <1>6, <1>7, <1>8, <1>9, <1>10 DEF SessionNext, ClientStep

(* The session's types follow from its invariants. *)
LEMMA SessionTypes == SessionInv /\ SessionRest => SessionTypeOK
<1> SUFFICES ASSUME SessionInv, SessionRest PROVE SessionTypeOK
  OBVIOUS
<1>1. MaxCalls \in Nat /\ nextID \in Nat /\ nextID \in Calls
  BY CallsFit
<1>2. working \in 0..MaxCalls
  BY <1>1 DEF SessionInv, TurnsSound, SessionTyped, Calls
<1> QED BY <1>1, <1>2 DEF SessionInv, SessionTyped, MessagesSound, SessionRest, SessionTypeOK, Replies, NoReply

(* The checkouts' types are part of their invariant. *)
LEMMA WorkspaceTypes == WorkspaceInv => WorkspaceTypeOK
<1> SUFFICES ASSUME WorkspaceTyped PROVE WorkspaceTypeOK
  BY DEF WorkspaceInv
<1>1. \A r \in Checkouts : reported[r] \in ReportRow
  BY DEF WorkspaceTyped
<1> QED BY <1>1 DEF WorkspaceTyped, WorkspaceTypeOK, ReportRow

(* The home, whatever the number of processes: what a token is, who holds  *)
(* which, and that a process that does not run has found no image good.    *)
HomeTypes ==
  /\ HomeTyped /\ told \subseteq Procs /\ known \subseteq up
  /\ container \in [Jobs -> Names] /\ Len(issued) <= MaxTokens

(* A machine on which nothing runs. *)
LEMMA HomeTypesStart == HomeInit => HomeTypes
<1> SUFFICES ASSUME HomeInit PROVE HomeTypes
  OBVIOUS
<1>1. HomeTyped /\ Len(issued) = 1
  BY HomeStarts DEF HomeInv, HomeInit
<1> QED BY <1>1, HomeAssumption DEF HomeInit, HomeTypes, Names

(* The tokens after one was issued. *)
LEMMA TokenFits ==
  ASSUME HomeTypes, NEW back \in SUBSET Nat, issued' = Append(issued, back), Len(issued) < MaxTokens
  PROVE  /\ issued' \in Seq(SUBSET Nat) /\ Tokens \subseteq Tokens' /\ Len(issued') \in Tokens'
         /\ Len(issued') <= MaxTokens
<1>1. HomeTyped /\ issued \in Seq(SUBSET Nat) /\ Len(issued) \in Nat
  BY LenProperties DEF HomeTypes, HomeTyped
<1>2. Len(issued') = Len(issued) + 1
  BY <1>1, AppendProperties
<1> QED BY <1>1, <1>2, TokenIsIssued, HomeAssumption

(* Every step keeps the types, also with several processes. *)
LEMMA HomeTypesKept == HomeTypes /\ [HomeNext]_homeVars => HomeTypes'
<1> SUFFICES ASSUME HomeTypes, [HomeNext]_homeVars PROVE HomeTypes'
  OBVIOUS
<1>0. HomeTyped
  BY DEF HomeTypes
<1>1. ASSUME NEW p \in Procs, FromConfig(p) PROVE HomeTypes'
  <2>1. container' \in [Jobs -> Names]
    BY <1>1 DEF FromConfig, HomeTypes, Names
  <2> QED BY <1>0, <1>1, <2>1 DEF FromConfig, tokenVars, HomeTypes, HomeTyped, Tokens
<1>2. ASSUME NEW p \in Procs, Die(p) PROVE HomeTypes'
  <2>1. stage' \in [Jobs -> JobStages]
    BY <1>0, <1>2 DEF Die, HomeTyped, JobStages
  <2>2. writing' \in [Procs -> Jobs \cup {Nobody}]
    BY <1>0, <1>2 DEF Die, HomeTyped
  <2> QED BY <1>0, <1>2, <2>1, <2>2 DEF Die, HomeTypes, HomeTyped, Tokens
<1>3. ASSUME NEW p \in Procs, NEW j \in Jobs, MakeHome(p, j) PROVE HomeTypes'
  BY <1>0, <1>3 DEF MakeHome, Goes, HomeTypes, HomeTyped, Tokens, JobStages
<1>4. ASSUME NEW j \in Jobs, Ready(j) PROVE HomeTypes'
  BY <1>0, <1>4 DEF Ready, Working, Goes, tokenVars, HomeTypes, HomeTyped, Tokens, JobStages
<1>5. ASSUME NEW j \in Jobs, RunContainer(j) \/ RemoveContainer(j) \/ ContainerEnds(j) PROVE HomeTypes'
  <2>1. container' \in [Jobs -> Names]
    BY <1>5 DEF RunContainer, RemoveContainer, ContainerEnds, HomeTypes, Names
  <2>2. stage' \in [Jobs -> JobStages]
    BY <1>0, <1>5 DEF RunContainer, RemoveContainer, ContainerEnds, Goes, HomeTyped, JobStages
  <2>3. UNCHANGED <<up, told, known, owner, login, issued, orig, now, writing, overtaken>>
    BY <1>5 DEF RunContainer, RemoveContainer, ContainerEnds, tokenVars
  <2> QED BY <1>0, <2>1, <2>2, <2>3 DEF HomeTypes, HomeTyped, Tokens
<1>6. ASSUME NEW j \in Jobs, Refresh(j) PROVE HomeTypes'
  <2>1. now[j] \in Tokens /\ issued[now[j]] \in SUBSET Nat /\ now[j] \in Nat
    BY <1>0, ElementOfSeq DEF HomeTyped, Tokens
  <2>2. PICK back \in SUBSET Nat : back = issued[now[j]] \cup {now[j]}
    BY <2>1
  <2>3. /\ issued' \in Seq(SUBSET Nat) /\ Tokens \subseteq Tokens' /\ Len(issued') \in Tokens'
        /\ Len(issued') <= MaxTokens
    BY <1>6, <2>2, TokenFits DEF Refresh
  <2>4. orig \in [Jobs -> Tokens'] /\ now' \in [Jobs -> Tokens'] /\ login \in Tokens'
    BY <1>0, <1>6, <2>3 DEF Refresh, HomeTyped
  <2> QED BY <1>0, <1>6, <2>3, <2>4 DEF Refresh, HomeTypes, HomeTyped
<1>7. ASSUME NEW j \in Jobs, Compare(j) PROVE HomeTypes'
  BY <1>0, <1>7 DEF Compare, HomeTypes, HomeTyped, Tokens
<1>8. ASSUME NEW j \in Jobs, Replace(j) PROVE HomeTypes'
  <2>1. Writers \subseteq Jobs
    BY <1>0 DEF HomeTyped, Writers
  <2>2. stage' \in [Jobs -> JobStages] /\ writing' \in [Procs -> Jobs \cup {Nobody}] /\ overtaken' \subseteq Jobs
    BY <1>0, <1>8, <2>1 DEF Replace, Goes, HomeTyped, JobStages
  <2>3. login' \in Tokens
    BY <1>0, <1>8, <2>1 DEF Replace, HomeTyped
  <2> QED BY <1>0, <1>8, <2>2, <2>3 DEF Replace, HomeTypes, HomeTyped, Tokens
<1>9. ASSUME NEW j \in Jobs, NoWriteBack(j) PROVE HomeTypes'
  BY <1>0, <1>9 DEF NoWriteBack, Goes, tokenVars, HomeTypes, HomeTyped, Tokens, JobStages
<1>10. CASE LogIn
  <2>1. PICK back \in SUBSET Nat : back = {}
    OBVIOUS
  <2>2. /\ issued' \in Seq(SUBSET Nat) /\ Tokens \subseteq Tokens' /\ Len(issued') \in Tokens'
        /\ Len(issued') <= MaxTokens
    BY <1>10, <2>1, TokenFits DEF LogIn
  <2>3. orig \in [Jobs -> Tokens'] /\ now \in [Jobs -> Tokens'] /\ login' \in Tokens'
    BY <1>0, <1>10, <2>2 DEF LogIn, HomeTyped
  <2>4. Writers \subseteq Jobs
    BY <1>0 DEF HomeTyped, Writers
  <2> QED BY <1>0, <1>10, <2>2, <2>3, <2>4 DEF LogIn, HomeTypes, HomeTyped
<1>11. CASE UNCHANGED homeVars
  BY <1>0, <1>11 DEF homeVars, HomeTypes, HomeTyped, Tokens
<1> QED BY <1>1, <1>2, <1>3, <1>4, <1>5, <1>6, <1>7, <1>8, <1>9, <1>10, <1>11 DEF HomeNext

-----------------------------------------------------------------------------
(* The process as a whole. *)
AgentInv == SinkInv /\ SessionInv /\ SessionRest /\ WorkspaceInv /\ HomeTypes

(* All parts start as they do alone. *)
LEMMA AgentStarts == AgentInit => AgentInv
<1> SUFFICES ASSUME AgentInit PROVE AgentInv
  OBVIOUS
<1>1. SinkInit /\ SessionInit /\ WorkspaceInit /\ HomeInit
  BY DEF AgentInit
<1>2. SessionRest
  BY <1>1 DEF SessionInit, SessionRest
<1> QED BY <1>1, <1>2, SinkStarts, SessionStarts, WorkspaceStart, HomeTypesStart DEF AgentInv

(* One part moves, and what is true of the others stays. *)
LEMMA PartsMove ==
  [AgentNext]_agentParts =>
    [SinkNext]_sinkVars /\ [SessionNext]_sessionVars /\ [WorkspaceNext]_workspaceVars /\ [HomeNext]_homeVars
BY DEF AgentNext, agentParts

(* Whichever part moves, the invariants of all are kept. *)
LEMMA AgentKept == AgentInv /\ [AgentNext]_agentParts => AgentInv'
BY PartsMove, SinkKeeps, SessionKept, SessionRestKept, WorkspaceKept, HomeTypesKept DEF AgentInv

(* Every part's variables have their types: a session's numbers stay       *)
(* within MaxCalls, and it has an outcome exactly when converse has        *)
(* returned; the channel stays within its capacity; every commit, branch,  *)
(* token and process that is named exists (acp.go converse, sink.go,       *)
(* workspace.go, container.go).                                            *)
THEOREM PartsAreTyped == AgentSpec => []AgentTypeOK
<1>1. AgentInv => AgentTypeOK
  <2> SUFFICES ASSUME AgentInv PROVE AgentTypeOK
    OBVIOUS
  <2>1. SinkTypeOK
    BY DEF AgentInv, SinkInv
  <2>2. HomeTypeOK
    BY DEF AgentInv, HomeTypes, HomeTyped, HomeTypeOK, Tokens
  <2> QED BY <2>1, <2>2, SessionTypes, WorkspaceTypes DEF AgentInv, AgentTypeOK
<1> QED BY <1>1, AgentStarts, AgentKept, PTL DEF AgentSpec

(* Each part of the process behaves as it does alone: what the theorems    *)
(* about a part say holds of it in the process (agent.go execute, which    *)
(* drives all of them, each over data of its own).                         *)
LEMMA PartsBehave == AgentSpec => SinkSpec /\ SessionSpec /\ WorkspaceSpec /\ HomeSpec
<1>1. AgentInit => SinkInit /\ SessionInit /\ WorkspaceInit /\ HomeInit
  BY DEF AgentInit
<1> QED BY <1>1, PartsMove, PTL DEF AgentSpec, SinkSpec, SessionSpec, WorkspaceSpec, HomeSpec

(* What its parts promise the process keeps, whichever of them moves:      *)
(* whoever waits is waited for, a session works on one turn at a time, a   *)
(* report stays true, output arrives in the order it was made, only what   *)
(* was approved lands, and no refresh of a login is undone (acp.go,        *)
(* sink.go, workspace.go, container.go).                                   *)
THEOREM AgentKeepsItsPromises ==
  AgentSpec => /\ []WaitsForSomething /\ []OneTurnAtATime /\ []ReportsStayTrue
               /\ OutputInOrder /\ OnlyApprovedLands /\ LoginFollows
BY PartsBehave, NobodyWaitsInVain, TurnsDoNotOverlap, ReportsHold, OutputStaysInOrder, MergesAreFaithful,
   LoginIsNotUndone, PTL
=============================================================================
