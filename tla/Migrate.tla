------------------------------- MODULE Migrate -------------------------------
(***************************************************************************)
(* Servers of several builds start on one database and bring its schema up *)
(* to date, one at a time under an advisory lock that a connection holds,  *)
(* and may die or lose the connection at any moment.                       *)
(***************************************************************************)
EXTENDS Naturals, Sequences, SequencesExt

CONSTANTS
  Servers,
  Builds     \* what builds ship: their migrations in order, by checksum

Checksums == UNION {{b[i] : i \in DOMAIN b} : b \in Builds}

ASSUME MigrateAssumption == Builds # {} /\ Builds \subseteq Seq(Checksums) \ {<<>>}

NoServer == "nobody"
ASSUME NoServerAssumption == NoServer \notin Servers

VARIABLES
  applied,    \* the statements the database has been through, in order:
              \* [name, sum], name the migration's place in the order
  versions,   \* schema_migrations: the checksums recorded, by name
  lockedBy,   \* the Server whose connection holds the advisory lock
  server,     \* each Server: "down", "connected", "listed", "serving", "refused"
  build,      \* the build it is of
  listed      \* the versions it read

migrateVars == <<applied, versions, lockedBy, server, build, listed>>

NoVersions == <<>>

MigrateInit ==
  /\ applied = <<>> /\ versions = NoVersions
  /\ lockedBy = NoServer
  /\ server = [s \in Servers |-> "down"]
  /\ build = [s \in Servers |-> CHOOSE b \in Builds : TRUE]
  /\ listed = [s \in Servers |-> NoVersions]

Becomes(s, state) == server' = [server EXCEPT ![s] = state]
(* Mutant of Unlocks: a lock that outlives its connection. *)
KeepsLock(s) == server[s] # "down" /\ UNCHANGED lockedBy

Unlocks(s) == lockedBy' = IF lockedBy = s THEN NoServer ELSE lockedBy

Forgets(s) == listed' = [listed EXCEPT ![s] = NoVersions]
-----------------------------------------------------------------------------
(* Up: a Server of some build starts and asks for the lock ...             *)
StartServer(s, b) ==
  /\ server[s] = "down"
  /\ build' = [build EXCEPT ![s] = b]
  /\ Becomes(s, "connected")
  /\ UNCHANGED <<applied, versions, lockedBy, listed>>

(* Mutant of Known: only the names are compared. *)
KnownByName(s, vs) == \A n \in DOMAIN vs : n \in DOMAIN build[s]

(* check: what is recorded is a migration this build ships, as it was.     *)
Known(s, vs) == \A n \in DOMAIN vs : n \in DOMAIN build[s] /\ build[s][n] = vs[n]

(* ... reads what was applied once it has the lock, and is refused if it   *)
(* does not know it ...                                                    *)
ListVersions(s) ==
  /\ server[s] = "connected" /\ lockedBy = NoServer
  /\ IF Known(s, versions)
     THEN Becomes(s, "listed") /\ lockedBy' = s /\ listed' = [listed EXCEPT ![s] = versions]
     ELSE Becomes(s, "refused") /\ UNCHANGED <<lockedBy, listed>>
  /\ UNCHANGED <<applied, versions, build>>

(* The first migration it has not found among those it read.               *)
Missing(s) == DOMAIN build[s] \ DOMAIN listed[s]
Next1(s) == CHOOSE n \in Missing(s) : \A k \in Missing(s) : n <= k

(* ... applies what is missing, each with its record in one transaction,   *)
(* which a name recorded before fails ...                                  *)
ApplyNext(s) ==
  /\ server[s] = "listed" /\ lockedBy = s /\ Missing(s) # {}
  /\ LET n == Next1(s) IN
     IF n \in DOMAIN versions
     THEN Becomes(s, "refused") /\ Unlocks(s) /\ Forgets(s) /\ UNCHANGED <<applied, versions>>
     ELSE /\ applied' = Append(applied, [name |-> n, sum |-> build[s][n]])
          /\ versions' = [k \in DOMAIN versions \cup {n} |-> IF k = n THEN build[s][n] ELSE versions[k]]
          /\ listed' = [listed EXCEPT ![s] = versions']
          /\ UNCHANGED <<server, lockedBy>>
  /\ UNCHANGED build

(* ... and serves. *)
Serves(s) ==
  /\ server[s] = "listed" /\ Missing(s) = {}
  /\ Becomes(s, "serving") /\ Unlocks(s) /\ Forgets(s)
  /\ UNCHANGED <<applied, versions, build>>

(* The connection breaks: the lock is gone, and so is the start.           *)
LosesConnection(s) ==
  /\ server[s] \in {"connected", "listed"}
  /\ Becomes(s, "refused") /\ Unlocks(s) /\ Forgets(s)
  /\ UNCHANGED <<applied, versions, build>>

(* It dies or is stopped. *)
ServerDies(s) ==
  /\ server[s] # "down"
  /\ Becomes(s, "down") /\ Unlocks(s) /\ Forgets(s)
  /\ UNCHANGED <<applied, versions, build>>

UpStep(s) == ListVersions(s) \/ ApplyNext(s) \/ Serves(s)

MigrateNext ==
  \E s \in Servers : \/ \E b \in Builds : StartServer(s, b)
                     \/ UpStep(s) \/ LosesConnection(s) \/ ServerDies(s)

(* The database gives the lock to those that wait in the order they asked. *)
MigrateFairness ==
  \A s \in Servers : SF_migrateVars(ListVersions(s)) /\ WF_migrateVars(ApplyNext(s) \/ Serves(s))

MigrateSpec == MigrateInit /\ [][MigrateNext]_migrateVars /\ MigrateFairness
-----------------------------------------------------------------------------
MigrateTypeOK ==
  /\ \A i \in DOMAIN applied : applied[i].name \in Nat
  /\ lockedBy \in Servers \cup {NoServer}
  /\ server \in [Servers -> {"down", "connected", "listed", "serving", "refused"}]
  /\ build \in [Servers -> Builds]

Sums(entries) == [i \in 1..Len(entries) |-> entries[i].sum]

(* The database's schema is one that a build makes from nothing: each      *)
(* migration went through once and in order, whoever started or died       *)
(* meanwhile; and a Server that serves finds in it all it was built for,   *)
(* however far later builds have moved it on (migrate.go Up, check).       *)
SchemaIsOfABuild ==
  /\ \E b \in Builds : IsPrefix(Sums(applied), b) \/ Sums(applied) = <<>>
  /\ \A i \in DOMAIN applied : applied[i].name = i
  /\ \A s \in Servers : server[s] = "serving" => IsPrefix(build[s], Sums(applied))

(* A Server that starts serves or is refused, though others hold the lock  *)
(* when it asks, and some die with it (migrate.go Up).                     *)
StartsEnd == \A s \in Servers : server[s] = "connected" ~> server[s] \notin {"connected", "listed"}
=============================================================================
