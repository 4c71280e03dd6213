------------------------------ MODULE MCServices ------------------------------
(* What serves the agents of one process: approvals, clarify prompts,          *)
(* slash-command confirmations, the file tools and the session of an MCP       *)
(* server.  These components share no variable, so a behaviour of all of them  *)
(* is one of each, interleaved; the steps of one at a time reach every state   *)
(* of that one, and each property is about one.                                *)
EXTENDS ApprovalQueue, ClarifyPrompts, SlashConfirm, FileState, MCPSession, TLC

CONSTANTS a1, a2, kp, kt, q1, q2, k1, c1, c2, r1, u1, u2, g1, g2, f1, f2, outside, m1

\* Two checks of one command with two findings.
SameCommand == [c \in Check |-> "m"]
TwoFindings == "m" :> {kp, kt}

InOneChat == [p \in Prompt |-> k1]
InOneRoom == [c \in Confirm |-> r1]

TwoFiles     == [f \in File |-> IF f = f1 THEN 1 ELSE 2]
WindowsOfOne == {f1} \X BOOLEAN
OneOrBoth    == {{f1}, {f1, f2}}

VARIABLE focus   \* the component whose steps are taken

servicesVars == <<focus, approvalVars, clarifyVars, slashVars, fileVars, mcpVars>>

ServicesInit ==
  /\ focus \in {"approval", "clarify", "slash", "files", "mcp"}
  /\ ApprovalInit /\ ClarifyInit /\ SlashInit /\ FileInit /\ McpInit
  /\ focus # "mcp" => kind = "stdio"

ServicesNext ==
  /\ UNCHANGED focus
  /\ \/ /\ focus = "approval" /\ ApprovalNext
        /\ UNCHANGED <<clarifyVars, slashVars, fileVars, mcpVars>>
     \/ /\ focus = "clarify" /\ ClarifyNext
        /\ UNCHANGED <<approvalVars, slashVars, fileVars, mcpVars>>
     \/ /\ focus = "slash" /\ SlashNext
        /\ UNCHANGED <<approvalVars, clarifyVars, fileVars, mcpVars>>
     \/ /\ focus = "files" /\ FileNext
        /\ UNCHANGED <<approvalVars, clarifyVars, slashVars, mcpVars>>
     \/ /\ focus = "mcp" /\ McpNext
        /\ UNCHANGED <<approvalVars, clarifyVars, slashVars, fileVars>>

\* ApprovalFairness; where approvals are not looked at, nothing is due.
ServicesFairness ==
  /\ \A c \in Check : WF_approvalVars(focus = "approval" /\ CheckStep(c))
  /\ \A h \in Hand : WF_approvalVars(focus = "approval" /\ Answer(h))

ServicesSpec == ServicesInit /\ [][ServicesNext]_servicesVars /\ ServicesFairness

\* The variables of every component are of their types; see each module.
ServicesTypeOK ==
  ApprovalTypeOK /\ ClarifyTypeOK /\ SlashTypeOK /\ FileTypeOK /\ McpTypeOK

=============================================================================
