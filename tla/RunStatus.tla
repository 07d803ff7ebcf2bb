------------------------------ MODULE RunStatus ------------------------------
(***************************************************************************)
(* The statuses of a Run and which may follow which: RunStatus of          *)
(* internal/models.  "unborn" is a Run nobody has asked for yet; the       *)
(* other values are the strings the database stores.                       *)
(***************************************************************************)

Finished == {"succeeded", "failed", "canceled"}
Live     == {"pending", "running"}
Status   == {"unborn"} \cup Live \cup Finished

(* The transitions of the lifecycle; a finished Run has none. *)
CanBecome(s, next) ==
  \/ s = "pending" /\ next \in {"running", "failed", "canceled"}
  \/ s = "running" /\ next \in Finished
=============================================================================
