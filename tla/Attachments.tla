----------------------------- MODULE Attachments -----------------------------
(***************************************************************************)
(* Files people attach to their messages in a direct message: a row in the *)
(* database and bytes in the blob store, which share no transaction.       *)
(* Messages are sent and deleted, the conversation is deleted, uploads     *)
(* nobody posted are swept, and a Server may die between any two steps.    *)
(***************************************************************************)
EXTENDS Naturals, FiniteSets

CONSTANTS
  Files,       \* uploads, each of the same Person to the same Channel
  Posts,       \* the Person's messages
  MaxPerPost   \* files of one message at most (20)

ASSUME AttachmentAssumption == IsFiniteSet(Files) /\ MaxPerPost \in Nat

NoPost == "no post"
ASSUME NoPostAssumption == NoPost \notin Posts

VARIABLES
  blobs,     \* files whose bytes are stored
  upload,    \* of each file: "none"; "stored", its row inserted next;
             \* "inserted"; "over", answered with its id; "unsure", failed,
             \* its insert perhaps still to come; "failed"
  rows,      \* files with a row
  post,      \* the message a file's row names
  old,       \* uploads of more than a day ago
  message,   \* each message: "none", "sending", "posted", "deleted", "gone"
  wants,     \* the files a message is sent with
  took,      \* the files its transaction has attached
  channel,   \* "open", "deleting", "deleted"
  keys,      \* blobs the deletion of the Channel has listed
  doomed,    \* blobs to delete, their rows' deletion committed
  orphans    \* blobs a crash or an error has left behind, or a file that
             \* came while the Channel was deleted

fileVars == <<blobs, upload, rows, post, old, message, wants, took, channel, keys, doomed, orphans>>

FilesInit ==
  /\ blobs = {} /\ upload = [f \in Files |-> "none"]
  /\ rows = {} /\ post = [f \in Files |-> NoPost] /\ old = {}
  /\ message = [p \in Posts |-> "none"]
  /\ wants = [p \in Posts |-> {}] /\ took = [p \in Posts |-> {}]
  /\ channel = "open" /\ keys = {}
  /\ doomed = {} /\ orphans = {}

UploadIs(f, s) == upload' = [upload EXCEPT ![f] = s]

(* A row that an uncommitted transaction has written waits for its end.    *)
Locked(f) == \E p \in Posts : message[p] = "sending" /\ f \in took[p]
-----------------------------------------------------------------------------
(* UploadFile: the bytes first; failing, it may have stored them ...       *)
Put(f) ==
  /\ upload[f] = "none" /\ channel # "deleted"
  /\ blobs' \in {blobs, blobs \cup {f}}
  /\ \/ f \in blobs' /\ UploadIs(f, "stored") /\ UNCHANGED orphans
     \/ UploadIs(f, "failed") /\ orphans' = orphans \cup (blobs' \ blobs)
  /\ UNCHANGED <<rows, post, old, message, wants, took, channel, keys, doomed>>

(* ... then the row: the database commits the insert, be it after the      *)
(* Server has given up waiting or has died ...                             *)
InsertFile(f) ==
  /\ upload[f] \in {"stored", "unsure"} /\ channel # "deleted"
  /\ rows' = rows \cup {f}
  /\ UploadIs(f, IF upload[f] = "stored" THEN "inserted" ELSE "failed")
  /\ orphans' = IF channel = "deleting" THEN orphans \cup {f} ELSE orphans
  /\ UNCHANGED <<blobs, post, old, message, wants, took, channel, keys, doomed>>

(* ... and the uploader is told the file's id; *)
UploadOver(f) ==
  /\ upload[f] = "inserted" /\ UploadIs(f, "over")
  /\ UNCHANGED <<blobs, rows, post, old, message, wants, took, channel, keys, doomed, orphans>>

(* No answer comes to the insert: it was refused, or it has committed or   *)
(* will.                                                                   *)
GivesUp(f) ==
  /\ upload[f] \in {"stored", "inserted"}
  /\ UploadIs(f, IF upload[f] = "stored" THEN "unsure" ELSE "failed")

(* Mutant of UploadFails: the bytes stay. *)
UploadFailsOnly(f) ==
  /\ GivesUp(f)
  /\ UNCHANGED <<blobs, rows, post, old, message, wants, took, channel, keys, doomed, orphans>>

(* The insert failed, or so it seems: the bytes go again. *)
UploadFails(f) ==
  /\ GivesUp(f) /\ doomed' = doomed \cup {f}
  /\ UNCHANGED <<blobs, rows, post, old, message, wants, took, channel, keys, orphans>>

Ages(f) ==
  /\ f \in rows \ old /\ old' = old \cup {f}
  /\ UNCHANGED <<blobs, upload, rows, post, message, wants, took, channel, keys, doomed, orphans>>

(* dropBlobs, after the commit: an error leaves an orphan. *)
DropBlob(f) ==
  /\ f \in doomed /\ doomed' = doomed \ {f}
  /\ \/ blobs' = blobs \ {f} /\ UNCHANGED orphans
     \/ UNCHANGED blobs /\ orphans' = orphans \cup {f}
  /\ UNCHANGED <<upload, rows, post, old, message, wants, took, channel, keys>>

MessageIs(p, s) == message' = [message EXCEPT ![p] = s]

(* Mutant of Qualifies: a file of another message is taken as well.        *)
AnyRow(f) == f \in rows

(* send: the message is written and its files, of whose ids the Person     *)
(* was told, attached, all of them, or the transaction is undone.          *)
Qualifies(f) == f \in rows /\ post[f] = NoPost

Send(p, files) ==
  /\ message[p] = "none" /\ channel # "deleted"
  /\ Cardinality(files) <= MaxPerPost
  /\ \A f \in files : upload[f] = "over" /\ ~Locked(f)
  /\ wants' = [wants EXCEPT ![p] = files]
  /\ took' = [took EXCEPT ![p] = {f \in files : Qualifies(f)}]
  /\ MessageIs(p, "sending")
  /\ UNCHANGED <<blobs, upload, rows, post, old, channel, keys, doomed, orphans>>

SendOver(p) ==
  /\ message[p] = "sending"
  /\ \/ /\ Cardinality(took[p]) = Cardinality(wants[p])
        /\ post' = [f \in Files |-> IF f \in took[p] THEN p ELSE post[f]]
        /\ MessageIs(p, "posted")
     \/ MessageIs(p, "gone") /\ UNCHANGED post
  /\ took' = [took EXCEPT ![p] = {}]
  /\ UNCHANGED <<blobs, upload, rows, old, wants, channel, keys, doomed, orphans>>

(* The rows of these files go with a commit, and then their bytes.         *)
Forget(files) ==
  /\ rows' = rows \ files
  /\ post' = [f \in Files |-> IF f \in files THEN NoPost ELSE post[f]]
  /\ old' = old \ files

(* dropBlobs is for what a commit answered for: without the answer the     *)
(* bytes stay.                                                             *)
Drops(files) ==
  \/ doomed' = doomed \cup files /\ UNCHANGED orphans
  \/ orphans' = orphans \cup files /\ UNCHANGED doomed

(* DeleteMessage, by its author. *)
DeleteMessage(p) ==
  /\ message[p] = "posted" /\ MessageIs(p, "deleted")
  /\ LET files == {f \in rows : post[f] = p} IN
     Forget(files) /\ Drops(files)
  /\ UNCHANGED <<blobs, upload, wants, took, channel, keys>>

(* SweepUploads. *)
SweepUploads ==
  /\ LET files == {f \in rows \cap old : post[f] = NoPost} IN
     /\ files # {} /\ \A f \in files : ~Locked(f)
     /\ Forget(files) /\ Drops(files)
  /\ UNCHANGED <<blobs, upload, message, wants, took, channel, keys>>

(* DeleteDM lists the blobs of the Channel ...                             *)
ListKeys ==
  /\ channel = "open" /\ channel' = "deleting"
  /\ keys' = rows
  /\ UNCHANGED <<blobs, upload, rows, post, old, message, wants, took, doomed, orphans>>

(* ... and deletes it with all that refers to it, when no transaction that *)
(* wrote to it is under way.                                               *)
DeleteChannel ==
  /\ channel = "deleting" /\ \A p \in Posts : message[p] # "sending"
  /\ channel' = "deleted"
  /\ Forget(Files)
  /\ message' = [p \in Posts |-> IF message[p] = "none" THEN "none" ELSE "gone"]
  /\ Drops(keys) /\ keys' = {}
  /\ UNCHANGED <<blobs, upload, wants, took>>

(* A Server dies: uploads that were under way, blobs that were to be       *)
(* deleted and transactions are forgotten.                                 *)
Crash ==
  /\ \/ doomed # {} \/ channel = "deleting" \/ \E f \in Files : upload[f] \in {"stored", "inserted"}
     \/ \E p \in Posts : message[p] = "sending"
  /\ orphans' = orphans \cup doomed \cup {f \in Files : upload[f] = "stored"}
  /\ upload' = [f \in Files |-> IF upload[f] = "stored" THEN "unsure"
                                ELSE IF upload[f] = "inserted" THEN "failed" ELSE upload[f]]
  /\ doomed' = {} /\ keys' = {}
  /\ channel' = IF channel = "deleting" THEN "open" ELSE channel
  /\ message' = [p \in Posts |-> IF message[p] = "sending" THEN "gone" ELSE message[p]]
  /\ took' = [p \in Posts |-> {}]
  /\ UNCHANGED <<blobs, rows, post, old, wants>>

FilesNext ==
  \/ \E f \in Files : \/ Put(f) \/ InsertFile(f) \/ UploadOver(f) \/ UploadFails(f)
                      \/ Ages(f) \/ DropBlob(f)
  \/ \E p \in Posts : \/ \E files \in SUBSET Files : Send(p, files)
                      \/ SendOver(p) \/ DeleteMessage(p)
  \/ SweepUploads \/ ListKeys \/ DeleteChannel \/ Crash

FilesSpec == FilesInit /\ [][FilesNext]_fileVars
-----------------------------------------------------------------------------
FilesTypeOK ==
  /\ blobs \subseteq Files /\ rows \subseteq Files /\ old \subseteq rows
  /\ upload \in [Files -> {"none", "stored", "inserted", "over", "unsure", "failed"}]
  /\ post \in [Files -> Posts \cup {NoPost}]
  /\ message \in [Posts -> {"none", "sending", "posted", "deleted", "gone"}]
  /\ wants \in [Posts -> SUBSET Files] /\ took \in [Posts -> SUBSET Files]
  /\ channel \in {"open", "deleting", "deleted"}
  /\ keys \subseteq Files /\ doomed \subseteq Files /\ orphans \subseteq Files

(* A file people see can be opened, however the steps of its upload, of    *)
(* sweeps and of deletions interleave, and whatever dies, fails or is not  *)
(* answered: a row's bytes are stored, and nobody is about to delete them, *)
(* but for a row whose insert seemed to fail, and no message takes such a  *)
(* row.  A posted message has every file it was sent with, though other    *)
(* messages and the sweep want them as well (files.go UploadFile,          *)
(* SweepUploads, dropBlobs; store/files.go AttachFiles; core.go tx).       *)
SeenFilesOpen ==
  /\ \A f \in rows : upload[f] # "failed" \/ post[f] # NoPost => f \in blobs \ doomed
  /\ \A p \in Posts : message[p] = "posted" =>
       \A f \in wants[p] : f \in rows /\ post[f] = p

(* Bytes without a row are under way, about to be deleted, or left behind  *)
(* by a crash, an error, a lost answer or an upload to a Channel that was  *)
(* being deleted (files.go UploadFile; chat.go DeleteDM).                  *)
BytesAreAccountedFor ==
  blobs \ rows \subseteq {f \in Files : upload[f] = "stored"} \cup doomed \cup orphans

(* Both: neither a row people know without its bytes, nor bytes nobody     *)
(* knows of.                                                               *)
FilesKeepTheirBytes == SeenFilesOpen /\ BytesAreAccountedFor
=============================================================================
