---------------------------- MODULE Conversation ----------------------------
(***************************************************************************)
(* A direct message as one of its people has it: others write in it, in    *)
(* transactions that draw their number before they commit; the person      *)
(* reads, closes and opens it again; and authors edit and delete what they *)
(* wrote, from several devices.                                            *)
(***************************************************************************)
EXTENDS Naturals, FiniteSets, FiniteSetsExt

CONSTANTS
  Letters,    \* messages others write
  Changes     \* requests to edit or delete one

ASSUME ConversationAssumption == IsFiniteSet(Letters)

Texts == {"", "as written", "edited"}
NotClosed == [is |-> FALSE, seq |-> 0]

VARIABLES
  drawn,      \* the last number drawn from the table's sequence
  letter,     \* each message: [at, seq, text, deleted], at "none", "writing",
              \* "posted" or "undone"
  change,     \* each change: [at, of, kind]
  closedDM,   \* the closed_dms row: [is, seq]
  marker,     \* the read marker
  looked,     \* the last number the person's app has seen
  sinceClose, sinceRead   \* messages begun after the DM was closed, and
                          \* after it was last marked read

dmVars == <<drawn, letter, change, closedDM, marker, looked, sinceClose, sinceRead>>
mineVars == <<closedDM, marker, looked>>

DMInit ==
  /\ drawn = 0
  /\ letter = [l \in Letters |-> [at |-> "none", seq |-> 0, text |-> "", deleted |-> FALSE]]
  /\ change = [c \in Changes |-> [at |-> "idle", of |-> {}, kind |-> "edit"]]
  /\ closedDM = NotClosed /\ marker = 0 /\ looked = 0
  /\ sinceClose = {} /\ sinceRead = {}

Posted == {l \in Letters : letter[l].at = "posted"}
LastSeq == Max({letter[l].seq : l \in Posted} \cup {0})
-----------------------------------------------------------------------------
(* send: the row is inserted with the next number ...                      *)
InsertLetter(l) ==
  /\ letter[l].at = "none"
  /\ drawn' = drawn + 1
  /\ letter' = [letter EXCEPT ![l] = [at |-> "writing", seq |-> drawn', text |-> "as written", deleted |-> FALSE]]
  /\ sinceClose' = sinceClose \cup {l} /\ sinceRead' = sinceRead \cup {l}
  /\ UNCHANGED <<change, mineVars>>

(* ... and committed later, or not. *)
CommitLetter(l) ==
  /\ letter[l].at = "writing"
  /\ letter' \in {[letter EXCEPT ![l].at = s] : s \in {"posted", "undone"}}
  /\ UNCHANGED <<drawn, change, mineVars, sinceClose, sinceRead>>

(* EditMessage and DeleteMessage: ownMessage reads a message that is not   *)
(* deleted ...                                                             *)
OwnMessage(c, l, kind) ==
  /\ change[c].at = "idle" /\ l \in Posted /\ ~letter[l].deleted
  /\ change' = [change EXCEPT ![c] = [at |-> "read", of |-> {l}, kind |-> kind]]
  /\ UNCHANGED <<drawn, letter, mineVars, sinceClose, sinceRead>>

(* Mutant of Changed: the row is not looked at again. *)
ChangedAnyway(l, kind) ==
  IF kind = "edit" THEN [letter[l] EXCEPT !.text = "edited"]
                   ELSE [letter[l] EXCEPT !.text = "", !.deleted = TRUE]

(* ... and the row is changed if it still is not.                          *)
Changed(l, kind) ==
  IF letter[l].deleted THEN letter[l]
  ELSE IF kind = "edit" THEN [letter[l] EXCEPT !.text = "edited"]
                        ELSE [letter[l] EXCEPT !.text = "", !.deleted = TRUE]

ChangeMessage(c) ==
  /\ change[c].at = "read"
  /\ \E l \in change[c].of : letter' = [letter EXCEPT ![l] = Changed(l, change[c].kind)]
  /\ change' = [change EXCEPT ![c].at = "over", ![c].of = {}]
  /\ UNCHANGED <<drawn, mineVars, sinceClose, sinceRead>>
-----------------------------------------------------------------------------
(* The person's app lists the messages ...                                 *)
ListMessages ==
  /\ looked' = LastSeq /\ looked' # looked
  /\ UNCHANGED <<drawn, letter, change, closedDM, marker, sinceClose, sinceRead>>

(* ... and marks them read, from one device or another.                    *)
MarkRead(seq) ==
  /\ seq \in 1..looked
  /\ marker' = Max({marker, seq})
  /\ sinceRead' = {}
  /\ UNCHANGED <<drawn, letter, change, closedDM, looked, sinceClose>>

CloseDM ==
  /\ closedDM' = [is |-> TRUE, seq |-> LastSeq]
  /\ sinceClose' = {}
  /\ UNCHANGED <<drawn, letter, change, marker, looked, sinceRead>>

(* OpenDirect. *)
ReopenDM ==
  /\ closedDM.is /\ closedDM' = NotClosed
  /\ UNCHANGED <<drawn, letter, change, marker, looked, sinceClose, sinceRead>>

(* Mutant of Hidden: the first message after the close does not count. *)
HiddenOneMore == closedDM.is /\ closedDM.seq + 1 >= LastSeq

(* PersonDMs: what the list leaves out, and what it counts as unread.      *)
Hidden == closedDM.is /\ closedDM.seq >= LastSeq

Unread == {l \in Posted : letter[l].seq > marker}

DMNext ==
  \/ \E l \in Letters : InsertLetter(l) \/ CommitLetter(l)
  \/ \E c \in Changes : \/ \E l \in Letters, k \in {"edit", "delete"} : OwnMessage(c, l, k)
                        \/ ChangeMessage(c)
  \/ ListMessages \/ (\E s \in 1..Cardinality(Letters) : MarkRead(s)) \/ CloseDM \/ ReopenDM

DMSpec == DMInit /\ [][DMNext]_dmVars
-----------------------------------------------------------------------------
DMTypeOK ==
  /\ drawn \in 0..Cardinality(Letters)
  /\ letter \in [Letters -> [at : {"none", "writing", "posted", "undone"}, seq : 0..drawn,
                             text : Texts, deleted : BOOLEAN]]
  /\ change \in [Changes -> [at : {"idle", "read", "over"}, of : SUBSET Letters, kind : {"edit", "delete"}]]
  /\ closedDM \in [is : BOOLEAN, seq : 0..drawn]
  /\ marker \in 0..drawn /\ looked \in 0..drawn
  /\ sinceClose \subseteq Letters /\ sinceRead \subseteq Letters

(* What was deleted stays empty, though an edit read it before and writes  *)
(* it after (chat.go EditMessage, DeleteMessage, ownMessage).              *)
DeletedStaysEmpty == \A l \in Letters : letter[l].deleted => letter[l].text = ""

(* A message begun after the person closed the DM brings it back, and one  *)
(* begun after it was marked read counts as unread, whatever the order of  *)
(* commits (store CloseDM, PersonDMs, MarkRead).  One that was begun       *)
(* before and committed after may do neither.                              *)
NewMessagesShow ==
  /\ Posted \cap sinceClose # {} => ~Hidden
  /\ Posted \cap sinceRead \subseteq Unread

(* What the person's app shows of a DM is what is there: no message that   *)
(* came is out of sight, and none that was deleted is in it.               *)
DMsShowWhatIsThere == DeletedStaysEmpty /\ NewMessagesShow
=============================================================================
