-------------------------------- MODULE MCAgent --------------------------------
(***************************************************************************)
(* The parts of an agent process on small instances: the sink of its       *)
(* output, its session with the AI, its checkouts and its machine's home.  *)
(* They share no variable, so one of them moves in a behaviour and the     *)
(* others rest where they start, where none of them has a step it must     *)
(* take: what holds here of one holds of it in any company.                *)
(***************************************************************************)
EXTENDS EventSink, Session, Workspace, AgentHome

VARIABLE focus      \* the part that moves

Parts == {"sink", "session", "workspace", "home"}
agentParts == <<focus, sinkVars, sessionVars, workspaceVars, homeVars>>

(* A model that thinks and writes while it uses a tool, and its log.       *)
Chatter ==
  [reader |-> <<[update |-> "agent_message_chunk", text |-> "t1"],
                [update |-> "agent_message_chunk", text |-> "t2"],
                [update |-> "agent_message_chunk", text |-> ""],
                [update |-> "agent_thought_chunk", text |-> "h1"],
                [update |-> "current_mode_update", text |-> ""],
                [update |-> "tool_call", text |-> "c1"]>>,
   stderr |-> <<[update |-> "stderr", text |-> "l1"], [update |-> "stderr", text |-> "l2"]>>]

AgentInit ==
  /\ focus \in Parts
  /\ SinkInit /\ SessionInit /\ WorkspaceInit /\ HomeInit
  /\ focus # "session" => asks

AgentNext ==
  /\ UNCHANGED focus
  /\ \/ focus = "sink" /\ SinkNext /\ UNCHANGED <<sessionVars, workspaceVars, homeVars>>
     \/ focus = "session" /\ SessionNext /\ UNCHANGED <<sinkVars, workspaceVars, homeVars>>
     \/ focus = "workspace" /\ WorkspaceNext /\ UNCHANGED <<sinkVars, sessionVars, homeVars>>
     \/ focus = "home" /\ HomeNext /\ UNCHANGED <<sinkVars, sessionVars, workspaceVars>>

AgentSpec == AgentInit /\ [][AgentNext]_agentParts /\ SinkFairness /\ SessionFairness

(* Every part's variables have their types. *)
AgentTypeOK == SinkTypeOK /\ SessionTypeOK /\ WorkspaceTypeOK /\ HomeTypeOK
=============================================================================
