------------------------------ MODULE ChatProofs ------------------------------
(***************************************************************************)
(* Theorems about what people write: the files they attach, the direct     *)
(* messages they read and the replies they send to agents, for any number  *)
(* of messages, files and requests.                                        *)
(***************************************************************************)
EXTENDS Attachments, Conversation, Thread, FiniteSetTheorems, WellFoundedInduction, TLAPS

(***************************************************************************)
(* Files.                                                                  *)
(***************************************************************************)
(* What FilesKeepTheirBytes needs: bytes that are to be deleted are of no  *)
(* upload whose row comes next; a row is of an upload that had it inserted *)
(* or that failed; messages take and have only files whose upload has been *)
(* answered; a transaction has taken files that nobody else has or takes;  *)
(* and a deletion of the Channel has listed the rows but for those that    *)
(* came since.                                                             *)
BytesSound ==
  /\ \A f \in doomed : upload[f] \notin {"none", "stored"}
  /\ \A f \in keys \cup rows : upload[f] \in {"inserted", "over", "failed"}
  /\ \A f \in Files : upload[f] = "stored" => f \in blobs
  /\ channel = "deleting" => rows \subseteq keys \cup orphans

TakenSound ==
  /\ \A f \in Files : post[f] # NoPost => upload[f] = "over"
  /\ \A p \in Posts : message[p] = "sending" => \A f \in wants[p] : upload[f] = "over"
  /\ \A p \in Posts : message[p] = "sending" =>
       /\ took[p] \subseteq wants[p] /\ took[p] \subseteq rows
       /\ \A f \in took[p] : post[f] = NoPost
       /\ \A q \in Posts \ {p} : message[q] = "sending" => took[p] \cap took[q] = {}

FilesInv == FilesTypeOK /\ BytesSound /\ TakenSound /\ FilesKeepTheirBytes

(* A message whose files were all taken has taken each of them.            *)
LEMMA AllTaken ==
  ASSUME NEW p \in Posts, wants[p] \subseteq Files, took[p] \subseteq wants[p],
         Cardinality(took[p]) = Cardinality(wants[p])
  PROVE  took[p] = wants[p]
<1>1. IsFiniteSet(wants[p])
  BY AttachmentAssumption, FS_Subset
<1> QED BY <1>1, FS_Subset

(* No file and no message. *)
LEMMA FilesStart == FilesInit => FilesInv
BY DEF FilesInit, FilesInv, FilesTypeOK, BytesSound, TakenSound, FilesKeepTheirBytes, SeenFilesOpen,
       BytesAreAccountedFor

(* Uploads. *)
LEMMA UploadsKeep ==
  ASSUME FilesInv, NEW f \in Files,
         Put(f) \/ InsertFile(f) \/ UploadOver(f) \/ UploadFails(f) \/ Ages(f) \/ DropBlob(f)
  PROVE  FilesInv'
<1> USE DEF FilesInv, FilesTypeOK, BytesSound, TakenSound, FilesKeepTheirBytes, SeenFilesOpen, BytesAreAccountedFor
<1>1. CASE Put(f)
  BY <1>1 DEF Put, UploadIs
<1>2. CASE InsertFile(f)
  BY <1>2 DEF InsertFile, UploadIs
<1>3. CASE UploadFails(f)
  BY <1>3 DEF UploadFails, GivesUp, UploadIs
<1>4. CASE Ages(f)
  BY <1>4 DEF Ages
<1>5. CASE DropBlob(f)
  BY <1>5 DEF DropBlob
<1>6. CASE UploadOver(f)
  BY <1>6 DEF UploadOver, UploadIs
<1> QED BY <1>1, <1>2, <1>3, <1>4, <1>5, <1>6

(* Messages. *)
LEMMA MessagesKeep ==
  ASSUME FilesInv, NEW p \in Posts
  PROVE  /\ \A files \in SUBSET Files : Send(p, files) => FilesInv'
         /\ SendOver(p) \/ DeleteMessage(p) => FilesInv'
<1> USE NoPostAssumption DEF FilesInv, FilesTypeOK, BytesSound, TakenSound, FilesKeepTheirBytes, SeenFilesOpen, BytesAreAccountedFor
<1>1. ASSUME NEW files \in SUBSET Files, Send(p, files)
      PROVE  FilesInv'
  BY <1>1 DEF Send, MessageIs, Qualifies, Locked
<1>2. CASE SendOver(p)
  BY <1>2, AllTaken DEF SendOver, MessageIs
<1>3. CASE DeleteMessage(p)
  BY <1>3 DEF DeleteMessage, MessageIs, Forget, Drops
<1> QED BY <1>1, <1>2, <1>3

(* Sweeps, the deletion of the Channel, and crashes. *)
LEMMA DeletionsKeep ==
  ASSUME FilesInv, SweepUploads \/ ListKeys \/ DeleteChannel \/ Crash
  PROVE  FilesInv'
<1> USE NoPostAssumption DEF FilesInv, FilesTypeOK, BytesSound, TakenSound, FilesKeepTheirBytes, SeenFilesOpen, BytesAreAccountedFor
<1>1. CASE SweepUploads
  BY <1>1 DEF SweepUploads, Forget, Drops, Locked
<1>2. CASE ListKeys
  BY <1>2 DEF ListKeys
<1>3. CASE DeleteChannel
  BY <1>3 DEF DeleteChannel, Forget, Drops
<1>4. CASE Crash
  BY <1>4 DEF Crash
<1> QED BY <1>1, <1>2, <1>3, <1>4

(* Every step keeps the invariant of files. *)
LEMMA FilesKept == FilesInv /\ [FilesNext]_fileVars => FilesInv'
<1>1. FilesInv /\ UNCHANGED fileVars => FilesInv'
  BY DEF fileVars, FilesInv, FilesTypeOK, BytesSound, TakenSound, FilesKeepTheirBytes, SeenFilesOpen,
         BytesAreAccountedFor
<1> QED BY <1>1, UploadsKeep, MessagesKeep, DeletionsKeep DEF FilesNext

(* A file people see can be opened and a posted message has every file it  *)
(* was sent with; and no bytes are left that nobody knows of: however the  *)
(* steps of uploads, messages, sweeps and deletions interleave, and        *)
(* whatever dies, fails, or fails though it was done (files.go,            *)
(* store/files.go, chat.go DeleteDM).                                      *)
THEOREM SeenFilesHaveTheirBytes == FilesSpec => []FilesKeepTheirBytes
<1>1. FilesInv => FilesKeepTheirBytes
  BY DEF FilesInv
<1> QED BY FilesKept, <1>1, FilesStart, PTL DEF FilesSpec

(***************************************************************************)
(* Direct messages.                                                        *)
(***************************************************************************)
LetterRow == [at : {"none", "writing", "posted", "undone"}, seq : Nat, text : Texts, deleted : BOOLEAN]
ChangeRow == [at : {"idle", "read", "over"}, of : SUBSET Letters, kind : {"edit", "delete"}]

DMTyped ==
  /\ drawn \in Nat /\ letter \in [Letters -> LetterRow] /\ change \in [Changes -> ChangeRow]
  /\ closedDM \in [is : BOOLEAN, seq : Nat] /\ marker \in Nat /\ looked \in Nat
  /\ sinceClose \subseteq Letters /\ sinceRead \subseteq Letters

(* What NewMessagesShow needs: numbers are drawn in order, and all that    *)
(* people have seen, read and closed is of numbers drawn before.           *)
DMSound ==
  /\ \A l \in Letters : letter[l].seq <= drawn
  /\ closedDM.seq <= drawn /\ marker <= drawn /\ looked <= drawn
  /\ closedDM.is => \A l \in sinceClose : letter[l].seq > closedDM.seq
  /\ \A l \in sinceRead : letter[l].seq > marker

DMInv == DMTyped /\ DMSound /\ DeletedStaysEmpty

(* A set of numbers under a bound has a largest, if it has any. *)
LEMMA MaxOfBounded ==
  ASSUME NEW n \in Nat, NEW S \in SUBSET (0..n), S # {}
  PROVE  Max(S) \in S /\ \A y \in S : Max(S) >= y
<1> DEFINE Left == {n - y : y \in S}
<1>1. Left \subseteq Nat /\ Left # {}
  <2>1. \A y \in S : n - y \in Nat
    OBVIOUS
  <2> QED BY <2>1
<1>2. PICK x \in Left : \A y \in Left : <<y, x>> \notin OpToRel(<, Nat)
  <2> HIDE DEF Left
  <2> QED BY <1>1, NatLessThanWellFounded, WFMin
<1>3. \A y \in Left : x <= y
  <2> HIDE DEF Left
  <2>1. \A y \in Left : ~ (y < x)
    BY <1>1, <1>2, Zenon DEF OpToRel
  <2> QED BY <1>1, <2>1
<1>4. PICK i \in S : x = n - i
  OBVIOUS
<1>5. \A j \in S : i >= j
  BY <1>3, <1>4
<1> QED BY <1>5 DEF Max

(* The last message's number was drawn, and no posted one has a later. *)
LEMMA LastSeqIs ==
  ASSUME DMTyped, DMSound
  PROVE  LastSeq \in Nat /\ LastSeq <= drawn /\ \A l \in Posted : letter[l].seq <= LastSeq
<1> DEFINE S == {letter[l].seq : l \in Posted} \cup {0}
<1>1. S \in SUBSET (0..drawn) /\ S # {}
  <2>1. ASSUME NEW l \in Posted PROVE letter[l].seq \in 0..drawn
    <3>1. l \in Letters /\ letter[l] \in LetterRow /\ drawn \in Nat
      BY DEF DMTyped, Posted
    <3>2. letter[l].seq \in Nat
      BY <3>1 DEF LetterRow
    <3>3. letter[l].seq <= drawn
      BY <3>1 DEF DMSound
    <3> QED BY <3>1, <3>2, <3>3
  <2>2. drawn \in Nat
    BY DEF DMTyped
  <2> QED BY <2>1, <2>2
<1>2. drawn \in Nat /\ LastSeq = Max(S)
  BY DEF DMTyped, LastSeq
<1> HIDE DEF S
<1>3. LastSeq \in S /\ \A y \in S : LastSeq >= y
  BY <1>1, <1>2, MaxOfBounded
<1>4. \A l \in Posted : letter[l].seq \in S
  BY DEF S
<1>5. LastSeq \in 0..drawn
  BY <1>1, <1>2, <1>3
<1>6. \A l \in Posted : LastSeq >= letter[l].seq
  BY <1>2, <1>3, <1>4
<1>7. \A l \in Posted : letter[l].seq \in 0..drawn
  BY <1>1, <1>4
<1> QED BY <1>2, <1>5, <1>6, <1>7

(* The rows of messages and of requests, and their fields. *)
LEMMA LetterIs ==
  ASSUME NEW at \in {"none", "writing", "posted", "undone"}, NEW seq \in Nat, NEW text \in Texts,
         NEW deleted \in BOOLEAN
  PROVE  [at |-> at, seq |-> seq, text |-> text, deleted |-> deleted] \in LetterRow
BY DEF LetterRow

(* A change of a message is a record of the model, ... *)
LEMMA ChangeIs ==
  ASSUME NEW at \in {"idle", "read", "over"}, NEW of \in SUBSET Letters, NEW kind \in {"edit", "delete"}
  PROVE  [at |-> at, of |-> of, kind |-> kind] \in ChangeRow
BY DEF ChangeRow

(* ... and so is one that is over. *)
LEMMA ChangeOverIs ==
  ASSUME NEW r \in ChangeRow
  PROVE  [r EXCEPT !.at = "over", !.of = {}] \in ChangeRow
BY DEF ChangeRow

(* The DM has no messages, and nothing has been read in it. *)
LEMMA DMStart == DMInit => DMInv
<1> SUFFICES ASSUME DMInit PROVE DMInv
  OBVIOUS
<1>1. PICK r : r = [at |-> "none", seq |-> 0, text |-> "", deleted |-> FALSE]
  OBVIOUS
<1>2. r \in LetterRow /\ r.seq = 0 /\ r.deleted = FALSE
  <2>1. 0 \in Nat /\ "" \in Texts
    BY DEF Texts
  <2>2. r \in LetterRow
    BY <1>1, <2>1, LetterIs
  <2> QED BY <1>1, <2>2
<1>3. letter = [l \in Letters |-> r]
  BY <1>1 DEF DMInit
<1>4. change \in [Changes -> ChangeRow]
  BY ChangeIs DEF DMInit
<1>5. drawn = 0 /\ closedDM = NotClosed /\ marker = 0 /\ looked = 0 /\ sinceClose = {} /\ sinceRead = {}
  BY DEF DMInit
<1>6. letter \in [Letters -> LetterRow] /\ \A l \in Letters : letter[l] = r
  BY <1>2, <1>3
<1>7. DMTyped
  BY <1>4, <1>5, <1>6 DEF DMTyped, NotClosed
<1>8. DMSound
  BY <1>2, <1>5, <1>6 DEF DMSound, NotClosed
<1> QED BY <1>2, <1>6, <1>7, <1>8 DEF DMInv, DeletedStaysEmpty

(* Messages are written. *)
LEMMA LettersKeep ==
  ASSUME DMInv, NEW l \in Letters, InsertLetter(l) \/ CommitLetter(l)
  PROVE  DMInv'
<1>0. /\ drawn \in Nat /\ marker \in Nat /\ closedDM.seq \in Nat
      /\ marker <= drawn /\ closedDM.seq <= drawn
      /\ \A k \in Letters : letter[k] \in LetterRow /\ letter[k].seq \in Nat /\ letter[k].seq <= drawn
  BY DEF DMInv, DMTyped, DMSound, LetterRow
<1>1. CASE InsertLetter(l)
  <2>1. PICK r : r = [at |-> "writing", seq |-> drawn + 1, text |-> "as written", deleted |-> FALSE]
    OBVIOUS
  <2>2. r \in LetterRow /\ r.seq = drawn + 1 /\ ~r.deleted
    <3>1. drawn + 1 \in Nat
      BY <1>0
    <3>2. "as written" \in Texts
      BY DEF Texts
    <3>3. r \in LetterRow
      BY <2>1, <3>1, <3>2, LetterIs
    <3> QED BY <2>1, <3>3
  <2>3. letter \in [Letters -> LetterRow] /\ letter' = [letter EXCEPT ![l] = r] /\ drawn' = drawn + 1
    BY <1>1, <2>1 DEF InsertLetter, DMInv, DMTyped
  <2>4. /\ letter' \in [Letters -> LetterRow]
        /\ letter'[l] = r /\ \A k \in Letters \ {l} : letter'[k] = letter[k]
    BY <2>2, <2>3
  <2>5. /\ sinceClose' = sinceClose \cup {l} /\ sinceRead' = sinceRead \cup {l}
        /\ UNCHANGED <<change, closedDM, marker, looked>>
    BY <1>1 DEF InsertLetter, mineVars
  <2>6. DMTyped'
    BY <1>0, <2>3, <2>4, <2>5 DEF DMInv, DMTyped
  <2>7. DMSound'
    <3>1. \A k \in Letters : letter'[k].seq <= drawn'
      BY <1>0, <2>2, <2>3, <2>4
    <3>2. letter'[l].seq > closedDM.seq /\ letter'[l].seq > marker
      BY <1>0, <2>2, <2>4
    <3> QED BY <1>0, <3>1, <3>2, <2>3, <2>4, <2>5 DEF DMInv, DMTyped, DMSound
  <2> QED BY <2>2, <2>4, <2>6, <2>7 DEF DMInv, DeletedStaysEmpty
<1>2. CASE CommitLetter(l)
  <2>1. PICK at \in {"posted", "undone"} : letter' = [letter EXCEPT ![l].at = at]
    BY <1>2 DEF CommitLetter
  <2>2. letter' \in [Letters -> LetterRow]
    BY <2>1 DEF DMInv, DMTyped, LetterRow
  <2>3. \A k \in Letters : /\ letter'[k].seq = letter[k].seq /\ letter'[k].deleted = letter[k].deleted
                           /\ letter'[k].text = letter[k].text
    BY <2>1 DEF DMInv, DMTyped, LetterRow
  <2>4. UNCHANGED <<drawn, change, closedDM, marker, looked, sinceClose, sinceRead>>
    BY <1>2 DEF CommitLetter, mineVars
  <2>5. DMTyped'
    BY <2>2, <2>4 DEF DMInv, DMTyped
  <2>6. DMSound'
    BY <2>3, <2>4 DEF DMInv, DMTyped, DMSound
  <2> QED BY <2>3, <2>5, <2>6 DEF DMInv, DeletedStaysEmpty
<1> QED BY <1>1, <1>2

(* Messages are edited and deleted. *)
LEMMA ChangesKeep ==
  ASSUME DMInv, NEW c \in Changes
  PROVE  /\ \A l \in Letters, k \in {"edit", "delete"} : OwnMessage(c, l, k) => DMInv'
         /\ ChangeMessage(c) => DMInv'
<1> USE DEF DMInv, DMTyped, DMSound, DeletedStaysEmpty
<1>1. ASSUME NEW l \in Letters, NEW k \in {"edit", "delete"}, OwnMessage(c, l, k)
      PROVE  DMInv'
  <2>1. [at |-> "read", of |-> {l}, kind |-> k] \in ChangeRow
    BY ChangeIs
  <2>2. change' \in [Changes -> ChangeRow]
    BY <1>1, <2>1 DEF OwnMessage
  <2> QED BY <1>1, <2>2 DEF OwnMessage, mineVars
<1>2. ASSUME ChangeMessage(c)
      PROVE  DMInv'
  <2>1. PICK l \in change[c].of : letter' = [letter EXCEPT ![l] = Changed(l, change[c].kind)]
    BY <1>2 DEF ChangeMessage
  <2>2. l \in Letters
    BY DEF ChangeRow
  <2>3. PICK r : r = Changed(l, change[c].kind)
    OBVIOUS
  <2>4. /\ r \in LetterRow /\ r.seq = letter[l].seq
        /\ r.deleted => r.text = ""
    BY <2>2, <2>3 DEF Changed, LetterRow, Texts
  <2>5. letter'[l] = r /\ (\A k \in Letters \ {l} : letter'[k] = letter[k]) /\ letter' \in [Letters -> LetterRow]
    BY <2>1, <2>2, <2>3, <2>4
  <2>6. change' \in [Changes -> ChangeRow]
    <3>1. PICK r2 : r2 = [change[c] EXCEPT !.at = "over", !.of = {}]
      OBVIOUS
    <3>2. r2 \in ChangeRow
      BY <3>1, ChangeOverIs
    <3>3. change' = [change EXCEPT ![c] = r2]
      BY <1>2, <3>1 DEF ChangeMessage
    <3> QED BY <3>2, <3>3
  <2>7. UNCHANGED <<drawn, mineVars, sinceClose, sinceRead>>
    BY <1>2 DEF ChangeMessage
  <2> QED BY <2>2, <2>4, <2>5, <2>6, <2>7 DEF mineVars
<1> QED BY <1>1, <1>2

(* The person looks, reads, closes the DM and opens it again. *)
LEMMA ReaderKeeps ==
  ASSUME DMInv, ListMessages \/ (\E s \in 1..Cardinality(Letters) : MarkRead(s)) \/ CloseDM \/ ReopenDM
  PROVE  DMInv'
<1>1. LastSeq \in Nat /\ LastSeq <= drawn
  BY LastSeqIs DEF DMInv
<1>2. CASE ListMessages
  <2> USE DEF DMInv, DMTyped, DMSound, DeletedStaysEmpty
  <2> QED BY <1>1, <1>2 DEF ListMessages
<1>3. ASSUME NEW s, MarkRead(s)
      PROVE  DMInv'
  <2>1. s \in 1..looked /\ looked \in Nat /\ looked <= drawn /\ drawn \in Nat /\ marker \in Nat /\ marker <= drawn
    BY <1>3 DEF MarkRead, DMInv, DMTyped, DMSound
  <2>2. {marker, s} \in SUBSET (0..drawn) /\ {marker, s} # {}
    BY <2>1
  <2>3. marker' \in {marker, s}
    <3>1. marker' = Max({marker, s})
      BY <1>3 DEF MarkRead
    <3> QED BY <2>1, <2>2, <3>1, MaxOfBounded
  <2>4. marker' \in Nat /\ marker' <= drawn
    BY <2>1, <2>3
  <2>5. sinceRead' = {} /\ UNCHANGED <<drawn, letter, change, closedDM, looked, sinceClose>>
    BY <1>3 DEF MarkRead
  <2> QED BY <2>4, <2>5 DEF DMInv, DMTyped, DMSound, DeletedStaysEmpty
<1>4. CASE CloseDM
  <2>1. PICK m : m = LastSeq
    OBVIOUS
  <2>2. closedDM' = [is |-> TRUE, seq |-> m]
    BY <1>4, <2>1 DEF CloseDM
  <2>3. closedDM' \in [is : BOOLEAN, seq : Nat] /\ closedDM'.seq <= drawn
    BY <1>1, <2>1, <2>2
  <2>4. sinceClose' = {} /\ UNCHANGED <<drawn, letter, change, marker, looked, sinceRead>>
    BY <1>4 DEF CloseDM
  <2> QED BY <2>3, <2>4 DEF DMInv, DMTyped, DMSound, DeletedStaysEmpty
<1>5. CASE ReopenDM
  <2>1. closedDM' = [is |-> FALSE, seq |-> 0]
    BY <1>5 DEF ReopenDM, NotClosed
  <2>2. closedDM' \in [is : BOOLEAN, seq : Nat] /\ closedDM'.seq <= drawn /\ ~closedDM'.is
    BY <1>1, <2>1 DEF DMInv, DMTyped
  <2> QED BY <1>5, <2>2 DEF ReopenDM, DMInv, DMTyped, DMSound, DeletedStaysEmpty
<1> QED BY <1>2, <1>3, <1>4, <1>5

(* Every step keeps the invariant of direct messages. *)
LEMMA DMKept == DMInv /\ [DMNext]_dmVars => DMInv'
<1>1. DMInv /\ UNCHANGED dmVars => DMInv'
  BY DEF dmVars, DMInv, DMTyped, DMSound, DeletedStaysEmpty
<1> QED BY <1>1, LettersKeep, ChangesKeep, ReaderKeeps DEF DMNext

(* No message that came is out of sight, and none that was deleted is in   *)
(* it: whatever the order in which messages are begun and committed,       *)
(* edited, deleted, read and closed (chat.go; store CloseDM, PersonDMs).   *)
THEOREM DMsStayTrue == DMSpec => []DMsShowWhatIsThere
<1>1. DMInv => DMsShowWhatIsThere
  <2> SUFFICES ASSUME DMInv PROVE NewMessagesShow
    BY DEF DMInv, DMsShowWhatIsThere
  <2> USE DEF DMInv
  <2>1. ASSUME NEW l \in Posted \cap sinceClose PROVE ~Hidden
    <3>1. closedDM.seq \in Nat /\ letter[l].seq \in Nat
      BY DEF DMTyped, LetterRow, Posted
    <3> QED BY <2>1, <3>1, LastSeqIs DEF DMSound, Hidden
  <2>2. ASSUME NEW l \in Posted \cap sinceRead PROVE l \in Unread
    BY <2>2 DEF DMSound, Unread
  <2> QED BY <2>1, <2>2 DEF NewMessagesShow
<1> QED BY DMKept, <1>1, DMStart, PTL DEF DMSpec

(***************************************************************************)
(* Threads.                                                                *)
(***************************************************************************)
StepNames == {"idle", "wrote", "locked", "listed", "read", "posted", "refused", "reporting", "canceling", "noting"}

ThreadTyped ==
  /\ holder \in [Rows -> Tx \cup {None}] /\ step \in [Tx -> StepNames]
  /\ inThread \subseteq Writers
  /\ status \in [Runs -> {"none", "pending", "running", "over"}]
  /\ prompt \in [Runs -> SUBSET (Writers \cup Steers)] /\ passed \in [Runs -> SUBSET (Writers \cup Steers)]
  /\ handed \subseteq Runs
  /\ read \in [Requests -> SUBSET (Writers \cup Steers)]
  /\ target \in [Replies -> Runs \cup {None}] /\ sawQueued \in [Replies -> BOOLEAN]
  /\ steered \subseteq (Replies \cup Steers) \X Runs

(* What RepliesReachAgents needs: a reply that looks for a Run, or found   *)
(* one, has the Task locked; so what it read of that Run's prompt has all  *)
(* the replies there are in it; and no Run has messages or a thread before *)
(* it is made.                                                             *)
TaskLocked == \A p \in Writers : step[p] \in {"locked", "listed"} => holder["task"] = p
PromptRead ==
  \A p \in Replies : step[p] = "listed" =>
    target[p] \in Runs /\ status[target[p]] # "none" /\ prompt[target[p]] \cap Writers \subseteq read[p]
OnlyOfMadeRuns ==
  /\ \A r \in handed : status[r] # "none"
  /\ \A m \in steered : status[m[2]] # "none"

ThreadInv == ThreadTyped /\ TaskLocked /\ PromptRead /\ OnlyOfMadeRuns /\ RepliesReachAgents

(* An empty thread, and no Run. *)
LEMMA ThreadStarts == ThreadInit => ThreadInv
<1> SUFFICES ASSUME ThreadInit PROVE ThreadInv
  OBVIOUS
<1>1. ThreadTyped
  BY DEF ThreadInit, ThreadTyped, StepNames
<1>2. \A p \in Writers : step[p] = "idle"
  BY DEF ThreadInit, Writers, Requests, Tx
<1>3. TaskLocked /\ PromptRead
  BY <1>2 DEF TaskLocked, PromptRead, Writers
<1>4. OnlyOfMadeRuns /\ RepliesReachAgents
  BY DEF ThreadInit, OnlyOfMadeRuns, RepliesReachAgents
<1> QED BY <1>1, <1>3, <1>4 DEF ThreadInv

(* A request that ends, or a step of one that changes no Run. *)
LEMMA LocksStay ==
  ASSUME ThreadTyped, TaskLocked, NEW t \in Tx, NEW s \in StepNames
  PROVE  /\ Ends(t, s) => /\ holder' \in [Rows -> Tx \cup {None}] /\ step' \in [Tx -> StepNames]
                          /\ \A p \in Tx \ {t} : step'[p] = step[p]
                          /\ step'[t] = s
                          /\ s \notin {"locked", "listed"} => TaskLocked'
         /\ \A row \in Rows : Locks(t, row) /\ Moves(t, s) =>
              /\ holder' \in [Rows -> Tx \cup {None}] /\ step' \in [Tx -> StepNames]
              /\ \A p \in Tx \ {t} : step'[p] = step[p]
              /\ step'[t] = s
              /\ s \notin {"locked", "listed"} => TaskLocked'
              /\ row = "task" => TaskLocked'
<1> USE ThreadAssumption DEF ThreadTyped, TaskLocked, Moves
<1>1. Writers \subseteq Tx /\ "task" \in Rows /\ None \notin Tx
  BY NoneAssumption DEF Writers, Requests, Tx, Rows
<1>2. ASSUME Ends(t, s)
      PROVE  /\ holder' \in [Rows -> Tx \cup {None}] /\ step' \in [Tx -> StepNames]
             /\ \A p \in Tx \ {t} : step'[p] = step[p]
             /\ step'[t] = s
             /\ s \notin {"locked", "listed"} => TaskLocked'
  BY <1>1, <1>2 DEF Ends
<1>3. ASSUME NEW row \in Rows, Locks(t, row), Moves(t, s)
      PROVE  /\ holder' \in [Rows -> Tx \cup {None}] /\ step' \in [Tx -> StepNames]
             /\ \A p \in Tx \ {t} : step'[p] = step[p]
             /\ step'[t] = s
             /\ s \notin {"locked", "listed"} => TaskLocked'
             /\ row = "task" => TaskLocked'
  BY <1>1, <1>3 DEF Locks
<1> QED BY <1>2, <1>3

(* A step that changes no prompt and sends nothing. *)
LEMMA QuietKeeps ==
  ASSUME ThreadInv, TaskLocked',
         holder' \in [Rows -> Tx \cup {None}], step' \in [Tx -> StepNames],
         UNCHANGED <<prompt, passed, handed, steered, sawQueued>>,
         status' \in [Runs -> {"none", "pending", "running", "over"}],
         \A r \in Runs : status'[r] = "none" => status[r] = "none",
         Active' \subseteq Active,
         inThread' \subseteq Writers,
         inThread' \cap Replies \subseteq inThread \/ Active = {},
         read' \in [Requests -> SUBSET (Writers \cup Steers)],
         target' \in [Replies -> Runs \cup {None}],
         \A p \in Replies : step'[p] = "listed" => step[p] = "listed" /\ target'[p] = target[p] /\ read'[p] = read[p]
  PROVE  ThreadInv'
<1>1. ThreadTyped'
  BY DEF ThreadInv, ThreadTyped
<1>2. PromptRead'
  BY DEF ThreadInv, PromptRead
<1>3. OnlyOfMadeRuns'
  <2>1. handed \subseteq Runs /\ \A m \in steered : m[2] \in Runs
    BY DEF ThreadInv, ThreadTyped
  <2> QED BY <2>1 DEF ThreadInv, OnlyOfMadeRuns
<1>4. RepliesReachAgents'
  <2>1. ASSUME NEW r \in handed' \cap Active', NEW p \in inThread' \cap Replies
        PROVE  p \in prompt'[r] \/ \E q \in Runs : <<p, q>> \in steered'
    <3>1. r \in handed \cap Active /\ p \in inThread \cap Replies
      BY <2>1
    <3> QED BY <3>1 DEF ThreadInv, RepliesReachAgents
  <2>2. (\A m \in steered :
       \/ m[1] \in prompt[m[2]] \cup passed[m[2]]
       \/ m[1] \in Steers /\ \E p \in Replies \cap prompt[m[2]] : <<p, m[2]>> \in steered)'
    BY DEF ThreadInv, RepliesReachAgents
  <2> QED BY <2>1, <2>2 DEF RepliesReachAgents
<1> QED BY <1>1, <1>2, <1>3, <1>4 DEF ThreadInv

(* Who may do what: requests are of different kinds. *)
LEMMA Kinds ==
  /\ Replies \subseteq Writers /\ Asks \subseteq Writers /\ Writers \subseteq Requests /\ Requests \subseteq Tx
  /\ Runs \subseteq Tx /\ Starts \subseteq Requests
  /\ Writers \cap Steers = {} /\ Writers \cap Runs = {} /\ Starts \cap Writers = {} /\ Asks \cap Replies = {}
  /\ Runs \subseteq Rows /\ "task" \in Rows /\ "root" \in Rows
BY ThreadAssumption DEF Writers, Requests, Tx, Rows

(* Replies and those who hand on, up to the lock on the Task. *)
LEMMA WritersKeep ==
  ASSUME ThreadInv, NEW p \in Writers, WriteReply(p) \/ LockTask(p) \/ (p \in Asks /\ HandOnOnly(p))
  PROVE  ThreadInv'
<1> USE Kinds
<1>1. CASE WriteReply(p)
  <2>1. Locks(p, "root") /\ Moves(p, "wrote") /\ "wrote" \in StepNames
    BY <1>1 DEF WriteReply, StepNames
  <2>2. /\ holder' \in [Rows -> Tx \cup {None}] /\ step' \in [Tx -> StepNames]
        /\ \A q \in Tx \ {p} : step'[q] = step[q]
        /\ step'[p] = "wrote" /\ TaskLocked'
    BY <2>1, LocksStay DEF ThreadInv
  <2>3. UNCHANGED <<inThread, runsVars, replyVars, steered, reporting>>
    BY <1>1 DEF WriteReply
  <2> QED BY <2>2, <2>3, QuietKeeps DEF runsVars, replyVars, ThreadInv, ThreadTyped, Active
<1>2. CASE LockTask(p)
  <2>1. Locks(p, "task") /\ Moves(p, "locked") /\ "locked" \in StepNames
    BY <1>2 DEF LockTask, StepNames
  <2>2. /\ holder' \in [Rows -> Tx \cup {None}] /\ step' \in [Tx -> StepNames]
        /\ \A q \in Tx \ {p} : step'[q] = step[q]
        /\ step'[p] = "locked" /\ TaskLocked'
    BY <2>1, LocksStay DEF ThreadInv
  <2>3. UNCHANGED <<inThread, runsVars, replyVars, steered, reporting>>
    BY <1>2 DEF LockTask
  <2> QED BY <2>2, <2>3, QuietKeeps DEF runsVars, replyVars, ThreadInv, ThreadTyped, Active
<1>3. CASE p \in Asks /\ HandOnOnly(p)
  <2>1. Ends(p, "posted") /\ "posted" \in StepNames
    BY <1>3 DEF HandOnOnly, StepNames
  <2>2. /\ holder' \in [Rows -> Tx \cup {None}] /\ step' \in [Tx -> StepNames]
        /\ \A q \in Tx \ {p} : step'[q] = step[q]
        /\ step'[p] = "posted" /\ TaskLocked'
    BY <2>1, LocksStay DEF ThreadInv
  <2>3. inThread' = inThread \cup {p} /\ UNCHANGED <<runsVars, replyVars, steered, reporting>>
    BY <1>3 DEF HandOnOnly
  <2>4. inThread' \cap Replies \subseteq inThread /\ inThread' \subseteq Writers
    BY <1>3, <2>3 DEF ThreadInv, ThreadTyped
  <2> QED BY <2>2, <2>3, <2>4, QuietKeeps DEF runsVars, replyVars, ThreadInv, ThreadTyped, Active
<1> QED BY <1>1, <1>2, <1>3

(* Requests that end a Run. *)
LEMMA EndersKeep ==
  ASSUME ThreadInv, NEW r \in Runs,
         Report(r) \/ Cancel(r) \/ Advance(r) \/ EndCanceled(r) \/ Note(r)
  PROVE  ThreadInv'
<1> USE Kinds
<1>1. CASE Report(r) \/ Cancel(r) \/ Advance(r)
  <2>1. PICK s \in {"reporting", "canceling", "noting"}, row \in Rows : Locks(r, row) /\ Moves(r, s)
    BY <1>1 DEF Report, Cancel, Advance
  <2>2. s \in StepNames
    BY DEF StepNames
  <2>3. /\ holder' \in [Rows -> Tx \cup {None}] /\ step' \in [Tx -> StepNames]
        /\ \A q \in Tx \ {r} : step'[q] = step[q]
        /\ step'[r] = s /\ TaskLocked'
    BY <2>1, <2>2, LocksStay DEF ThreadInv
  <2>4. UNCHANGED <<inThread, runsVars, replyVars, steered, reporting>>
    BY <1>1 DEF Report, Cancel, Advance
  <2> QED BY <2>3, <2>4, QuietKeeps DEF runsVars, replyVars, ThreadInv, ThreadTyped, Active
<1>2. CASE EndCanceled(r) \/ Note(r)
  <2>1. Ends(r, "idle") /\ status' = [status EXCEPT ![r] = "over"] /\ "idle" \in StepNames
    BY <1>2 DEF EndCanceled, Note, Over, StepNames
  <2>2. /\ holder' \in [Rows -> Tx \cup {None}] /\ step' \in [Tx -> StepNames]
        /\ \A q \in Tx \ {r} : step'[q] = step[q]
        /\ step'[r] = "idle" /\ TaskLocked'
    BY <2>1, LocksStay DEF ThreadInv
  <2>3. UNCHANGED <<inThread, prompt, passed, handed, replyVars, steered, reporting>>
    BY <1>2 DEF EndCanceled, Note
  <2>4. /\ status' \in [Runs -> {"none", "pending", "running", "over"}] /\ Active' \subseteq Active
        /\ \A q \in Runs : status'[q] = "none" => status[q] = "none"
    BY <2>1 DEF ThreadInv, ThreadTyped, Active
  <2> QED BY <2>2, <2>3, <2>4, QuietKeeps DEF replyVars, ThreadInv, ThreadTyped, Active
<1> QED BY <1>1, <1>2

(* A Run is claimed, and its agent has an outcome; a thread is read; and   *)
(* the database aborts a request.                                          *)
LEMMA OthersKeep ==
  ASSUME ThreadInv
  PROVE  /\ \A r \in Runs : ClaimOne(r) \/ HasOutcome(r) => ThreadInv'
         /\ \A h \in Starts : ReadThread(h) => ThreadInv'
         /\ \A t \in Tx : Abort(t) => ThreadInv'
<1> USE Kinds
<1>1. ASSUME NEW r \in Runs, ClaimOne(r) \/ HasOutcome(r)
      PROVE  ThreadInv'
  <2>1. /\ UNCHANGED <<holder, step, inThread, prompt, passed, handed, replyVars, steered>>
        /\ \/ status' = status
           \/ status[r] = "pending" /\ status' = [status EXCEPT ![r] = "running"]
    BY <1>1 DEF ClaimOne, HasOutcome, runsVars
  <2>2. TaskLocked'
    BY <2>1 DEF ThreadInv, TaskLocked
  <2>3. status' \in [Runs -> {"none", "pending", "running", "over"}] /\ Active' \subseteq Active
    BY <2>1 DEF ThreadInv, ThreadTyped, Active
  <2> QED BY <2>1, <2>2, <2>3, QuietKeeps DEF replyVars, ThreadInv, ThreadTyped
<1>2. ASSUME NEW h \in Starts, ReadThread(h)
      PROVE  ThreadInv'
  <2>1. /\ read' = [read EXCEPT ![h] = inThread] /\ step' = [step EXCEPT ![h] = "read"] /\ "read" \in StepNames
        /\ UNCHANGED <<holder, inThread, runsVars, target, sawQueued, steered, reporting>>
    BY <1>2 DEF ReadThread, Moves, StepNames
  <2>2. h \in Tx \ Writers /\ h \in Requests
    OBVIOUS
  <2>3. /\ read' \in [Requests -> SUBSET (Writers \cup Steers)] /\ step' \in [Tx -> StepNames]
        /\ \A p \in Writers : step'[p] = step[p] /\ read'[p] = read[p]
    BY <2>1, <2>2 DEF ThreadInv, ThreadTyped
  <2>4. TaskLocked'
    BY <2>1, <2>3 DEF ThreadInv, TaskLocked
  <2> QED BY <2>1, <2>3, <2>4, QuietKeeps DEF runsVars, ThreadInv, ThreadTyped, Active
<1>3. ASSUME NEW t \in Tx, Abort(t)
      PROVE  ThreadInv'
  <2>1. PICK s \in {"idle", "refused"} : Ends(t, s)
    BY <1>3 DEF Abort
  <2>2. s \in StepNames
    BY DEF StepNames
  <2>3. /\ holder' \in [Rows -> Tx \cup {None}] /\ step' \in [Tx -> StepNames]
        /\ \A q \in Tx \ {t} : step'[q] = step[q]
        /\ step'[t] = s /\ TaskLocked'
    BY <2>1, <2>2, LocksStay DEF ThreadInv
  <2>4. /\ UNCHANGED <<inThread, runsVars, sawQueued, steered, reporting>>
        /\ IF t \in Replies
           THEN target' = [target EXCEPT ![t] = None] /\ read' = [read EXCEPT ![t] = {}]
           ELSE UNCHANGED <<target, read>>
    BY <1>3 DEF Abort
  <2>5. /\ target' \in [Replies -> Runs \cup {None}] /\ read' \in [Requests -> SUBSET (Writers \cup Steers)]
        /\ \A p \in Replies \ {t} : target'[p] = target[p] /\ read'[p] = read[p]
    BY <2>4 DEF ThreadInv, ThreadTyped
  <2> QED BY <2>3, <2>4, <2>5, QuietKeeps DEF runsVars, ThreadInv, ThreadTyped, Active
<1> QED BY <1>1, <1>2, <1>3

(* A reply finds a Run, or none is under way. *)
LEMMA ListRunsKeeps ==
  ASSUME ThreadInv, NEW p \in Replies, ListRuns(p)
  PROVE  ThreadInv'
<1> USE Kinds
<1>1. UNCHANGED <<runsVars, steered, reporting>> /\ step[p] = "locked"
  BY DEF ListRuns
<1>2. ASSUME Active = {}, Ends(p, "posted"), inThread' = inThread \cup {p}, UNCHANGED <<target, sawQueued, read>>
      PROVE  ThreadInv'
  <2>1. "posted" \in StepNames
    BY DEF StepNames
  <2>2. /\ holder' \in [Rows -> Tx \cup {None}] /\ step' \in [Tx -> StepNames]
        /\ \A q \in Tx \ {p} : step'[q] = step[q]
        /\ step'[p] = "posted" /\ TaskLocked'
    BY <1>2, <2>1, LocksStay DEF ThreadInv
  <2>3. inThread' \subseteq Writers
    BY <1>2 DEF ThreadInv, ThreadTyped
  <2> QED BY <1>1, <1>2, <2>2, <2>3, QuietKeeps DEF runsVars, ThreadInv, ThreadTyped, Active
<1>3. ASSUME NEW r \in Active, target' = [target EXCEPT ![p] = r],
             sawQueued' = [sawQueued EXCEPT ![p] = status[r] = "pending"],
             read' = [read EXCEPT ![p] = prompt[r]],
             Moves(p, "listed"), UNCHANGED <<holder, inThread>>
      PROVE  ThreadInv'
  <2>1. r \in Runs /\ status[r] # "none" /\ p \in Requests /\ p \in Tx
    BY DEF Active
  <2>2. /\ step' = [step EXCEPT ![p] = "listed"] /\ step' \in [Tx -> StepNames] /\ step'[p] = "listed"
        /\ \A q \in Tx \ {p} : step'[q] = step[q]
    BY <1>3 DEF Moves, StepNames, ThreadInv, ThreadTyped
  <2>3. /\ target' \in [Replies -> Runs \cup {None}] /\ target'[p] = r
        /\ \A q \in Replies \ {p} : target'[q] = target[q]
    BY <1>3, <2>1 DEF ThreadInv, ThreadTyped
  <2>4. sawQueued' \in [Replies -> BOOLEAN]
    BY <1>3 DEF ThreadInv, ThreadTyped
  <2>5. /\ read' \in [Requests -> SUBSET (Writers \cup Steers)] /\ read'[p] = prompt[r]
        /\ \A q \in Requests \ {p} : read'[q] = read[q]
    BY <1>3, <2>1 DEF ThreadInv, ThreadTyped
  <2>6. ThreadTyped'
    BY <1>1, <1>3, <2>2, <2>3, <2>4, <2>5 DEF ThreadInv, ThreadTyped, runsVars
  <2>7. TaskLocked'
    BY <1>1, <1>3, <2>2 DEF ThreadInv, TaskLocked
  <2>8. PromptRead'
    BY <1>1, <2>1, <2>2, <2>3, <2>5 DEF ThreadInv, PromptRead, runsVars
  <2>9. OnlyOfMadeRuns' /\ RepliesReachAgents'
    BY <1>1, <1>3 DEF ThreadInv, OnlyOfMadeRuns, RepliesReachAgents, runsVars, Active
  <2> QED BY <2>6, <2>7, <2>8, <2>9 DEF ThreadInv
<1> QED BY <1>2, <1>3 DEF ListRuns

(* A reply reaches the Run it found, or that was claimed meanwhile. *)
LEMMA SteerTaskKeeps ==
  ASSUME ThreadInv, NEW p \in Replies, SteerTask(p)
  PROVE  ThreadInv'
<1> USE Kinds
<1>1. PICK r : r = target[p]
  OBVIOUS
<1>2. r \in Runs /\ status[r] \in {"pending", "running", "over"} /\ prompt[r] \cap Writers \subseteq read[p]
  BY <1>1 DEF SteerTask, ThreadInv, PromptRead, ThreadTyped
<1>3. /\ read' = [read EXCEPT ![p] = {}] /\ UNCHANGED <<sawQueued, reporting>>
      /\ step[p] = "listed" /\ p \in Writers /\ p \in Requests /\ p \in Tx
      /\ sawQueued[p] \in BOOLEAN /\ read[p] \subseteq Writers \cup Steers
  BY DEF SteerTask, ThreadInv, ThreadTyped
<1>4. /\ read' \in [Requests -> SUBSET (Writers \cup Steers)]
      /\ \A q \in Requests \ {p} : read'[q] = read[q]
  BY <1>3 DEF ThreadInv, ThreadTyped
<1>5. \A q \in Replies \ {p} : step[q] # "listed"
  BY <1>3, NoneAssumption DEF ThreadInv, TaskLocked
<1>6. ASSUME TakenMeanwhile(p)
      PROVE  ThreadInv'
  <2>1. /\ Ends(p, "refused") /\ target' = [target EXCEPT ![p] = None]
        /\ UNCHANGED <<inThread, runsVars, steered>> /\ "refused" \in StepNames
    BY <1>6 DEF SteerTask, StepNames
  <2>2. /\ holder' \in [Rows -> Tx \cup {None}] /\ step' \in [Tx -> StepNames]
        /\ \A q \in Tx \ {p} : step'[q] = step[q]
        /\ step'[p] = "refused" /\ TaskLocked'
    BY <1>3, <2>1, LocksStay DEF ThreadInv
  <2>3. target' \in [Replies -> Runs \cup {None}]
    BY <2>1 DEF ThreadInv, ThreadTyped
  <2> QED BY <1>3, <1>4, <1>5, <2>1, <2>2, <2>3, QuietKeeps DEF runsVars, ThreadInv, ThreadTyped, Active
<1>7. ASSUME ~TakenMeanwhile(p)
      PROVE  ThreadInv'
  <2>1. /\ Ends(p, "posted") /\ inThread' = inThread \cup {p} /\ steered' = steered \cup {<<p, r>>}
        /\ UNCHANGED <<status, handed, target>> /\ "posted" \in StepNames
    BY <1>1, <1>7 DEF SteerTask, StepNames
  <2>2. \/ /\ prompt' = [prompt EXCEPT ![r] = read[p] \cup {p}] /\ UNCHANGED passed
        \/ /\ passed' = [passed EXCEPT ![r] = @ \cup {p}] /\ UNCHANGED prompt
    <3>1. CASE sawQueued[p]
      BY <1>1, <1>2, <1>7, <3>1 DEF SteerTask, UpdateRunPrompt, TakenMeanwhile
    <3>2. CASE ~sawQueued[p]
      BY <1>1, <1>7, <3>2 DEF SteerTask
    <3> QED BY <3>1, <3>2
  <2>3. /\ holder' \in [Rows -> Tx \cup {None}] /\ step' \in [Tx -> StepNames]
        /\ \A q \in Tx \ {p} : step'[q] = step[q]
        /\ step'[p] = "posted" /\ TaskLocked'
    BY <1>3, <2>1, LocksStay DEF ThreadInv
  <2>4. prompt \in [Runs -> SUBSET (Writers \cup Steers)] /\ passed \in [Runs -> SUBSET (Writers \cup Steers)]
    BY DEF ThreadInv, ThreadTyped
  <2>5. /\ prompt' \in [Runs -> SUBSET (Writers \cup Steers)] /\ passed' \in [Runs -> SUBSET (Writers \cup Steers)]
        /\ \A q \in Runs : prompt[q] \cap Writers \subseteq prompt'[q] /\ passed[q] \subseteq passed'[q]
        /\ \A q \in Runs \ {r} : prompt'[q] = prompt[q]
        /\ prompt'[r] = prompt[r] \/ p \in prompt'[r]
        /\ p \in prompt'[r] \cup passed'[r]
    BY <1>2, <1>3, <2>2, <2>4
  <2>6. ThreadTyped'
    BY <1>2, <1>3, <1>4, <2>1, <2>3, <2>5 DEF ThreadInv, ThreadTyped
  <2>7. PromptRead'
    BY <1>5, <2>3 DEF PromptRead
  <2>8. OnlyOfMadeRuns'
    BY <1>2, <2>1 DEF ThreadInv, OnlyOfMadeRuns
  <2>9. ASSUME NEW q \in handed' \cap Active', NEW w \in inThread' \cap Replies
        PROVE  w \in prompt'[q] \/ \E x \in Runs : <<w, x>> \in steered'
    <3>1. q \in handed \cap Active
      BY <2>1, <2>9 DEF Active
    <3>2. CASE w = p
      BY <1>2, <2>1, <3>2
    <3>3. CASE w \in inThread /\ w \in prompt[q]
      BY <2>5, <2>9, <3>1, <3>3 DEF Active
    <3>4. CASE w \in inThread /\ w \notin prompt[q]
      BY <2>1, <2>9, <3>1, <3>4 DEF ThreadInv, RepliesReachAgents
    <3> QED BY <2>1, <2>9, <3>2, <3>3, <3>4
  <2>10. ASSUME NEW m \in steered'
         PROVE  \/ m[1] \in prompt'[m[2]] \cup passed'[m[2]]
                \/ m[1] \in Steers /\ \E w \in Replies \cap prompt'[m[2]] : <<w, m[2]>> \in steered'
    <3>1. CASE m = <<p, r>>
      BY <2>5, <3>1
    <3>2. CASE m \in steered
      <4>1. m[1] \in Replies \cup Steers /\ m[2] \in Runs
        BY <3>2 DEF ThreadInv, ThreadTyped
      <4>2. \/ m[1] \in prompt[m[2]] \cup passed[m[2]]
            \/ m[1] \in Steers /\ \E w \in Replies \cap prompt[m[2]] : <<w, m[2]>> \in steered
        BY <3>2 DEF ThreadInv, RepliesReachAgents
      <4>3. CASE m[1] \in Replies
        BY <2>5, <4>1, <4>2, <4>3
      <4>4. CASE m[1] \in Steers /\ prompt'[m[2]] = prompt[m[2]]
        BY <2>1, <2>5, <4>1, <4>2, <4>4
      <4>5. CASE m[1] \in Steers /\ m[2] = r /\ p \in prompt'[r]
        BY <2>1, <4>5
      <4> QED BY <2>5, <4>1, <4>3, <4>4, <4>5
    <3> QED BY <2>1, <2>10, <3>1, <3>2
  <2>11. RepliesReachAgents'
    BY <2>9, <2>10 DEF RepliesReachAgents
  <2> QED BY <2>3, <2>6, <2>7, <2>8, <2>11 DEF ThreadInv
<1> QED BY <1>6, <1>7

(* A Run is made, from what is in the thread or, by hand, from what was.   *)
LEMMA CreatesKeeps ==
  ASSUME ThreadInv, NEW r \in Runs, NEW replies \in SUBSET (Writers \cup Steers), NEW isHanded \in BOOLEAN,
         Creates(r, replies, isHanded), isHanded => inThread' \subseteq replies,
         TaskLocked', holder' \in [Rows -> Tx \cup {None}], step' \in [Tx -> StepNames],
         read' \in [Requests -> SUBSET (Writers \cup Steers)], UNCHANGED <<target, sawQueued, steered>>,
         inThread' \subseteq Writers, inThread' \cap Replies \subseteq inThread,
         \A p \in Replies : step'[p] = "listed" => step[p] = "listed" /\ read'[p] = read[p]
  PROVE  ThreadInv'
<1> USE Kinds
<1>1. /\ status[r] = "none" /\ status' = [status EXCEPT ![r] = "pending"]
      /\ prompt' = [prompt EXCEPT ![r] = replies] /\ passed' = passed
      /\ handed' = IF isHanded THEN handed \cup {r} ELSE handed
  BY DEF Creates
<1>2. /\ status' \in [Runs -> {"none", "pending", "running", "over"}]
      /\ prompt' \in [Runs -> SUBSET (Writers \cup Steers)]
      /\ \A q \in Runs \ {r} : status'[q] = status[q] /\ prompt'[q] = prompt[q]
      /\ prompt'[r] = replies /\ status'[r] # "none"
      /\ r \notin handed /\ \A m \in steered : m[2] # r /\ m[2] \in Runs
  BY <1>1 DEF ThreadInv, ThreadTyped, OnlyOfMadeRuns
<1>3. ThreadTyped'
  BY <1>1, <1>2 DEF ThreadInv, ThreadTyped
<1>4. PromptRead'
  BY <1>1, <1>2 DEF ThreadInv, PromptRead
<1>5. OnlyOfMadeRuns'
  BY <1>1, <1>2 DEF ThreadInv, ThreadTyped, OnlyOfMadeRuns
<1>6. ASSUME NEW q \in handed' \cap Active', NEW w \in inThread' \cap Replies
      PROVE  w \in prompt'[q] \/ \E x \in Runs : <<w, x>> \in steered'
  <2>1. CASE q = r
    BY <1>1, <1>2, <1>6, <2>1
  <2>2. CASE q # r
    <3>1. q \in handed \cap Active /\ q \in Runs /\ w \in inThread
      BY <1>1, <1>2, <1>6, <2>2 DEF Active
    <3> QED BY <1>2, <1>6, <2>2, <3>1 DEF ThreadInv, RepliesReachAgents
  <2> QED BY <2>1, <2>2
<1>7. ASSUME NEW m \in steered'
      PROVE  \/ m[1] \in prompt'[m[2]] \cup passed'[m[2]]
             \/ m[1] \in Steers /\ \E w \in Replies \cap prompt'[m[2]] : <<w, m[2]>> \in steered'
  <2>1. prompt'[m[2]] = prompt[m[2]] /\ m \in steered
    BY <1>2, <1>7
  <2> QED BY <1>1, <2>1 DEF ThreadInv, RepliesReachAgents
<1>8. RepliesReachAgents'
  BY <1>6, <1>7 DEF RepliesReachAgents
<1> QED BY <1>3, <1>4, <1>5, <1>8 DEF ThreadInv

(* Runs are made, and steered by hand. *)
LEMMA RunsKeep ==
  ASSUME ThreadInv, NEW r \in Runs
  PROVE  /\ \A p \in Asks : HandOn(p, r) => ThreadInv'
         /\ \A h \in Starts : StartRun(h, r) => ThreadInv'
         /\ \A s \in Steers : SteerOne(s, r) => ThreadInv'
<1> USE Kinds
<1>1. ASSUME NEW p \in Asks, HandOn(p, r)
      PROVE  ThreadInv'
  <2>1. /\ Ends(p, "posted") /\ inThread' = inThread \cup {p} /\ UNCHANGED <<replyVars, steered, reporting>>
        /\ Creates(r, inThread \cup {p}, TRUE) /\ "posted" \in StepNames /\ p \in Tx \ Replies /\ p \in Writers
    BY <1>1 DEF HandOn, StepNames
  <2>2. /\ holder' \in [Rows -> Tx \cup {None}] /\ step' \in [Tx -> StepNames]
        /\ \A q \in Tx \ {p} : step'[q] = step[q]
        /\ TaskLocked'
    BY <2>1, LocksStay DEF ThreadInv
  <2>3. inThread' \subseteq Writers /\ inThread' \cap Replies \subseteq inThread /\ inThread \cup {p} \in SUBSET Writers
    BY <2>1 DEF ThreadInv, ThreadTyped
  <2>4. /\ read' = read /\ target' = target /\ sawQueued' = sawQueued /\ steered' = steered
        /\ \A q \in Replies : step'[q] = "listed" => step[q] = "listed" /\ read'[q] = read[q]
    BY <2>1, <2>2 DEF replyVars
  <2>5. read' \in [Requests -> SUBSET (Writers \cup Steers)]
    BY <2>4 DEF ThreadInv, ThreadTyped
  <2>6. PICK replies \in SUBSET Writers : replies = inThread \cup {p}
    BY <2>3
  <2>7. Creates(r, replies, TRUE) /\ inThread' \subseteq replies
    BY <2>1, <2>6
  <2> QED BY <2>2, <2>3, <2>4, <2>5, <2>7, CreatesKeeps
<1>2. ASSUME NEW h \in Starts, StartRun(h, r)
      PROVE  ThreadInv'
  <2>1. /\ step' = [step EXCEPT ![h] = "posted"] /\ read' = [read EXCEPT ![h] = {}]
        /\ UNCHANGED <<holder, inThread, target, sawQueued, steered, reporting>>
        /\ Creates(r, read[h], FALSE) /\ "posted" \in StepNames
    BY <1>2 DEF StartRun, Moves, StepNames
  <2>2. h \in Tx \ Writers /\ h \in Requests
    OBVIOUS
  <2>3. /\ read' \in [Requests -> SUBSET (Writers \cup Steers)] /\ step' \in [Tx -> StepNames]
        /\ \A p \in Writers : step'[p] = step[p] /\ read'[p] = read[p]
    BY <2>1, <2>2 DEF ThreadInv, ThreadTyped
  <2>4. TaskLocked'
    BY <2>1, <2>3 DEF ThreadInv, TaskLocked
  <2>5. /\ holder' \in [Rows -> Tx \cup {None}] /\ inThread' \subseteq Writers /\ inThread' \cap Replies \subseteq inThread
        /\ target' = target /\ sawQueued' = sawQueued /\ steered' = steered
    BY <2>1 DEF ThreadInv, ThreadTyped
  <2>6. \A q \in Replies : step'[q] = "listed" => step[q] = "listed" /\ read'[q] = read[q]
    BY <2>3
  <2>7. PICK replies \in SUBSET (Writers \cup Steers) : Creates(r, replies, FALSE)
    <3>1. read[h] \in SUBSET (Writers \cup Steers)
      BY <2>2 DEF ThreadInv, ThreadTyped
    <3> QED BY <2>1, <3>1
  <2> QED BY <2>3, <2>4, <2>5, <2>6, <2>7, CreatesKeeps
<1>3. ASSUME NEW s \in Steers, SteerOne(s, r)
      PROVE  ThreadInv'
  <2>1. /\ steered' = steered \cup {<<s, r>>} /\ r \in Active
        /\ UNCHANGED <<holder, step, inThread, status, handed, replyVars, reporting>>
    BY <1>3 DEF SteerOne
  <2>2. \/ /\ prompt' = [prompt EXCEPT ![r] = @ \cup {s}] /\ UNCHANGED passed
        \/ /\ passed' = [passed EXCEPT ![r] = @ \cup {s}] /\ UNCHANGED prompt
    BY <1>3 DEF SteerOne, UpdateRunPrompt
  <2>3. prompt \in [Runs -> SUBSET (Writers \cup Steers)] /\ passed \in [Runs -> SUBSET (Writers \cup Steers)]
    BY DEF ThreadInv, ThreadTyped
  <2>4. /\ prompt' \in [Runs -> SUBSET (Writers \cup Steers)] /\ passed' \in [Runs -> SUBSET (Writers \cup Steers)]
        /\ \A q \in Runs : prompt[q] \subseteq prompt'[q] /\ passed[q] \subseteq passed'[q]
        /\ \A q \in Runs : prompt'[q] \cap Writers = prompt[q] \cap Writers
        /\ s \in prompt'[r] \cup passed'[r]
    BY <2>2, <2>3
  <2>5. ThreadTyped'
    BY <2>1, <2>4 DEF ThreadInv, ThreadTyped, replyVars
  <2>6. TaskLocked'
    BY <2>1 DEF ThreadInv, TaskLocked
  <2>7. PromptRead'
    BY <2>1, <2>4 DEF ThreadInv, PromptRead, replyVars
  <2>8. OnlyOfMadeRuns'
    BY <2>1 DEF ThreadInv, OnlyOfMadeRuns, Active
  <2>9. ASSUME NEW q \in handed' \cap Active', NEW w \in inThread' \cap Replies
        PROVE  w \in prompt'[q] \/ \E x \in Runs : <<w, x>> \in steered'
    <3>1. q \in handed \cap Active /\ q \in Runs /\ w \in inThread
      BY <2>1, <2>9 DEF Active
    <3> QED BY <2>1, <2>4, <2>9, <3>1 DEF ThreadInv, RepliesReachAgents
  <2>10. ASSUME NEW m \in steered'
         PROVE  \/ m[1] \in prompt'[m[2]] \cup passed'[m[2]]
                \/ m[1] \in Steers /\ \E w \in Replies \cap prompt'[m[2]] : <<w, m[2]>> \in steered'
    <3>1. CASE m = <<s, r>>
      BY <2>4, <3>1
    <3>2. CASE m \in steered
      <4>1. m[2] \in Runs
        BY <3>2 DEF ThreadInv, ThreadTyped
      <4>2. \/ m[1] \in prompt[m[2]] \cup passed[m[2]]
            \/ m[1] \in Steers /\ \E w \in Replies \cap prompt[m[2]] : <<w, m[2]>> \in steered
        BY <3>2 DEF ThreadInv, RepliesReachAgents
      <4> QED BY <2>1, <2>4, <4>1, <4>2
    <3> QED BY <2>1, <2>10, <3>1, <3>2
  <2>11. RepliesReachAgents'
    BY <2>9, <2>10 DEF RepliesReachAgents
  <2> QED BY <2>5, <2>6, <2>7, <2>8, <2>11 DEF ThreadInv
<1> QED BY <1>1, <1>2, <1>3

(* Every step keeps the invariant of threads. *)
LEMMA ThreadKept == ThreadInv /\ [ThreadNext]_threadVars => ThreadInv'
<1>1. ThreadInv /\ UNCHANGED threadVars => ThreadInv'
  BY DEF threadVars, ThreadInv, ThreadTyped, TaskLocked, PromptRead, OnlyOfMadeRuns, RepliesReachAgents, Active
<1>2. ASSUME ThreadInv, NEW t \in Tx, RequestStep(t)
      PROVE  ThreadInv'
  <2>1. CASE t \in Writers /\ LockTask(t)
    BY <1>2, <2>1, WritersKeep
  <2>2. CASE t \in Replies /\ (ListRuns(t) \/ SteerTask(t))
    BY <1>2, <2>2, ListRunsKeeps, SteerTaskKeeps
  <2>3. CASE t \in Asks /\ HandOnOnly(t)
    BY <1>2, <2>3, WritersKeep, Kinds
  <2>4. CASE t \in Asks /\ \E r \in Runs : HandOn(t, r)
    BY <1>2, <2>4, RunsKeep
  <2>5. CASE t \in Runs /\ (EndCanceled(t) \/ Advance(t) \/ Note(t))
    BY <1>2, <2>5, EndersKeep
  <2>6. CASE Abort(t)
    BY <1>2, <2>6, OthersKeep
  <2> QED BY <1>2, <2>1, <2>2, <2>3, <2>4, <2>5, <2>6 DEF RequestStep
<1>3. ASSUME ThreadInv, NEW p \in Writers, WriteReply(p)
      PROVE  ThreadInv'
  BY <1>3, WritersKeep
<1>4. ASSUME ThreadInv, NEW h \in Starts, ReadThread(h) \/ \E r \in Runs : StartRun(h, r)
      PROVE  ThreadInv'
  BY <1>4, OthersKeep, RunsKeep
<1>5. ASSUME ThreadInv, NEW s \in Steers, NEW r \in Runs, SteerOne(s, r)
      PROVE  ThreadInv'
  BY <1>5, RunsKeep
<1>6. ASSUME ThreadInv, NEW r \in Runs, ClaimOne(r) \/ HasOutcome(r) \/ Report(r) \/ Cancel(r)
      PROVE  ThreadInv'
  BY <1>6, OthersKeep, EndersKeep
<1> QED BY <1>1, <1>2, <1>3, <1>4, <1>5, <1>6 DEF ThreadNext

(* No reply falls between the prompt of a Run that the Task was handed on  *)
(* for and its agent's ear, and what was sent to a Run reaches it:         *)
(* whatever the order in which people reply, hand on, start, steer and     *)
(* cancel, agents claim and report, and the database aborts (chat.go post, *)
(* steerTask; runs.go createRun, steer, ReportRun).                        *)
THEOREM NoReplyIsMissed == ThreadSpec => []RepliesReachAgents
<1>1. ThreadInv => RepliesReachAgents
  BY DEF ThreadInv
<1> QED BY ThreadKept, <1>1, ThreadStarts, PTL DEF ThreadSpec
=============================================================================
