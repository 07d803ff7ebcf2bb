------------------------------ MODULE EventPipe ------------------------------
(***************************************************************************)
(* What an agent's session promises about output: every piece it accepts   *)
(* is shown once and in the order of acceptance, until the receiver        *)
(* refuses one, after which nothing is shown; the stream is reported       *)
(* complete only when nothing accepted is owed any more.                   *)
(***************************************************************************)
EXTENDS Sequences, Naturals

CONSTANT Pieces    \* the pieces of output a session may accept

VARIABLES
  owed,      \* accepted, neither shown nor given up
  shown,     \* shown by the receiver
  refused,   \* the receiver failed
  finished   \* the stream was reported complete

pipeVars == <<owed, shown, refused, finished>>

PipeInit ==
  /\ owed = <<>> /\ shown = <<>>
  /\ refused = FALSE /\ finished = FALSE

Accept(p) ==
  /\ ~finished
  /\ owed' = Append(owed, p)
  /\ UNCHANGED <<shown, refused, finished>>

(* The next n pieces leave; the receiver shows the first k and refuses the *)
(* others, or has failed before.                                           *)
Settle(k, n) ==
  /\ refused => k = 0
  /\ shown' = shown \o SubSeq(owed, 1, k)
  /\ owed' = SubSeq(owed, n + 1, Len(owed))
  /\ refused' = (refused \/ k < n)

Finish ==
  /\ \E k \in 0..Len(owed) : Settle(k, Len(owed))
  /\ finished' = TRUE

PipeNext ==
  \/ \E p \in Pieces : Accept(p)
  \/ \E n \in 1..Len(owed), k \in 0..Len(owed) : k <= n /\ Settle(k, n) /\ UNCHANGED finished
  \/ Finish

PipeSpec == PipeInit /\ [][PipeNext]_pipeVars
=============================================================================
