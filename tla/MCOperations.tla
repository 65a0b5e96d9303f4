---------------------------- MODULE MCOperations ----------------------------
(* Instances of what operators, clients and agents ask for: the ledger of    *)
(* operations with its keys, budgets and confirmations (OperationLedger), the *)
(* permission and scope checks of the MCP tools (McpTools), the gates on a    *)
(* phase's specification (PhaseSpec) and the commands on agents' workspaces   *)
(* (AgentWorkspaces).  They share no variable: part says which of them moves. *)
EXTENDS OperationLedger, McpTools, PhaseSpec, AgentWorkspaces

VARIABLE part

-----------------------------------------------------------------------------
\* The ledger: one client with two server processes, or one of them, a request
\* to confirm and an operator.
OneClient == [x \in Callers \cup Requests |-> "mcp:agent"]
KeyOfRequest == [r \in Requests |-> "merge"]
MCCasts == {Callers, {CHOOSE c \in Callers : TRUE} \cup Operators}

-----------------------------------------------------------------------------
\* The tools: rows of two projects and of none, and four clients.
Nullable == {"run", "backlog", "knowledge", "operation", "hitch", "finding",
             "candidate", "course", "phase"}
RowSet ==
    ({"project", "snapshot"} \X {"p1", "p2"})
      \cup (Nullable \X {"p1", "p2", "none"})
      \cup ({"doctor"} \X {"p1", "p2", "both", "none"})
      \cup ({"ops"} \X {"p2", "none"})
      \cup {<<"workspace", "p1">>}
RowClass == [r \in RowSet |-> r[1]]
RowHome == [r \in RowSet |-> CASE r[2] = "none" -> {}
                               [] r[2] = "both" -> {"p1", "p2"}
                               [] OTHER -> {r[2]}]
RowLink == [r \in {<<"workspace", "p1">>} |-> <<"hitch", r[2]>>]
NoRowAtAll == <<"none", "none">>
ModeOfClient == [c \in Clients |-> CASE c = "reader" -> "read-only"
                                     [] c = "pair" -> "dry-run"
                                     [] OTHER -> "guarded-mutation"]
ProjectsOf == [c \in Clients |-> CASE c = "open" -> {}
                                   [] c = "pair" -> {"p1", "p3"}
                                   [] OTHER -> {"p1"}]
WritingTools ==
    {t.name : t \in {u \in McpToolDefinitions : u.kind \in {"mutation", "dangerous"}}}
AllowedOf == [c \in Clients |-> (WritingTools \ {"phase.update", "workspace.checkpoint"})
                                  \cup (IF c = "scoped" THEN {"workspace.checkpoint"} ELSE {})]
DeniedOf == [c \in Clients |-> {"phase.ratify", "run.timeline"}]
ConfirmedOf == [c \in Clients |-> {"phase.update", "rerun.start", "run.get", "review.consensus"}
                                    \cup (IF c = "open" THEN {"workspace.checkpoint"} ELSE {})]

-----------------------------------------------------------------------------
\* The phase: a spec without a gate and one with a file pattern.
TwoSpecs ==
    {[scope |-> [files |-> {}, operations |-> {}, excluded |-> Undefined], condition |-> "c1"],
     [scope |-> [files |-> {"f1"}, operations |-> {}, excluded |-> {}], condition |-> "c1"]}

-----------------------------------------------------------------------------
\* The workspaces: two agents, each with a path of its own.
TwoAgents == <<"a1", "a2">>
TwoPaths == <<"p1", "p2">>
PathOfAgent == [a \in {"a1", "a2"} |-> IF a = "a1" THEN "p1" ELSE "p2"]
OneNeedsFix == [h \in LinkedHitches |-> "needs_fix"]

-----------------------------------------------------------------------------
OperationsInit ==
    /\ part \in {"ledger", "tools", "phase", "workspaces"}
    /\ LedgerInit /\ McpInit /\ PhaseInit /\ WorkspacesInit
    /\ part # "ledger" => \A p \in Callers : proc[p] = Idle
    /\ part # "phase" => spec.scope.excluded = Undefined
    /\ part # "workspaces" => baseFound

OperationsNext ==
    \/ part = "ledger" /\ LedgerNext
       /\ UNCHANGED <<part, mcpVars, specVars, workspaceVars>>
    \/ part = "tools" /\ McpNext
       /\ UNCHANGED <<part, ledgerVars, specVars, workspaceVars>>
    \/ part = "phase" /\ PhaseNext
       /\ UNCHANGED <<part, ledgerVars, mcpVars, workspaceVars>>
    \/ part = "workspaces" /\ WorkspacesNext
       /\ UNCHANGED <<part, ledgerVars, mcpVars, specVars>>

OperationsSpec ==
    OperationsInit
      /\ [][OperationsNext]_<<part, ledgerVars, mcpVars, specVars, workspaceVars>>
=============================================================================
