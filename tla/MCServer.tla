-------------------------------- MODULE MCServer --------------------------------
(***************************************************************************)
(* Parts of the Server on small instances: Routines, files, direct         *)
(* messages, migrations, Presence, the threads of Tasks, Members and       *)
(* Decisions.  They share no variable, so one of them moves in a behaviour *)
(* and the others rest where they start, where none of them has a step it  *)
(* must take: what holds here of one holds of it in any company.           *)
(***************************************************************************)
EXTENDS Routines, Attachments, Conversation, Migrate, Presence, Thread, Membership,
        Questions

VARIABLE focus      \* the part that moves

Parts == {"routines", "files", "dm", "migrate", "presence", "thread", "members", "questions"}
serverParts == <<focus, routineVars, fileVars, dmVars, migrateVars, presenceVars, threadVars, memberVars,
                 questionVars>>

(* Builds of one history, and one that changed a migration after others    *)
(* had shipped it.                                                         *)
Releases == {<<"a">>, <<"a", "b">>, <<"a", "b", "c">>, <<"a", "B">>}

(* A name people see whole, one they see cut and one they see without the  *)
(* blank before it; and people answer in words of their own.               *)
Offered == << [id |-> <<"once">>,   name |-> <<"Allow">>],
              [id |-> <<"always">>, name |-> <<"Always allow what", "this tool does">>],
              [id |-> <<"never">>,  name |-> <<" ", "Never">>] >>
Said == {<<"once">>, <<"later">>}

ServerInit ==
  /\ focus \in Parts
  /\ RoutinesInit /\ FilesInit /\ DMInit /\ MigrateInit /\ PresenceInit /\ ThreadInit /\ MembersInit
  /\ QuestionsInit
  /\ focus # "routines" => row.enabled

ServerNext ==
  /\ UNCHANGED focus
  /\ \/ focus = "routines" /\ RoutinesNext
        /\ UNCHANGED <<fileVars, dmVars, migrateVars, presenceVars, threadVars, memberVars, questionVars>>
     \/ focus = "files" /\ FilesNext
        /\ UNCHANGED <<routineVars, dmVars, migrateVars, presenceVars, threadVars, memberVars, questionVars>>
     \/ focus = "dm" /\ DMNext
        /\ UNCHANGED <<routineVars, fileVars, migrateVars, presenceVars, threadVars, memberVars, questionVars>>
     \/ focus = "migrate" /\ MigrateNext
        /\ UNCHANGED <<routineVars, fileVars, dmVars, presenceVars, threadVars, memberVars, questionVars>>
     \/ focus = "presence" /\ PresenceNext
        /\ UNCHANGED <<routineVars, fileVars, dmVars, migrateVars, threadVars, memberVars, questionVars>>
     \/ focus = "thread" /\ ThreadNext
        /\ UNCHANGED <<routineVars, fileVars, dmVars, migrateVars, presenceVars, memberVars, questionVars>>
     \/ focus = "members" /\ MembersNext
        /\ UNCHANGED <<routineVars, fileVars, dmVars, migrateVars, presenceVars, threadVars, questionVars>>
     \/ focus = "questions" /\ QuestionsNext
        /\ UNCHANGED <<routineVars, fileVars, dmVars, migrateVars, presenceVars, threadVars, memberVars>>

ServerSpec ==
  ServerInit /\ [][ServerNext]_serverParts /\ MigrateFairness /\ ThreadFairness

(* Every part's variables have their types. *)
ServerTypeOK ==
  RoutinesTypeOK /\ FilesTypeOK /\ DMTypeOK /\ MigrateTypeOK /\ PresenceTypeOK /\ ThreadTypeOK
  /\ MembersTypeOK /\ QuestionsTypeOK
=============================================================================
