------------------------------- MODULE ToolPolicy -------------------------------
(***************************************************************************)
(* The tool registry and DefaultToolPolicy of application/tool_policy.py.  *)
(* A requested call keeps the data the policy tells apart: its tool name,  *)
(* the risk the caller claims, the "workspace" argument and what kind of   *)
(* "path" argument it carries.                                             *)
(***************************************************************************)
EXTENDS AgentDomain

CONSTANTS
    Tools,              \* names in the StaticToolRegistry
    RegisteredRisk,     \* the risk of each registered definition
    UnknownTool         \* any name the registry does not hold

ASSUME ToolsAssumption ==
    /\ RegisteredRisk \in [Tools -> ToolRisk]
    /\ UnknownTool \notin Tools

\* "absent": no path argument; "escaping": contains "..", is absolute or has
\* a drive letter; "not_string": any other JSON value.
PathKind == {"absent", "relative", "escaping", "not_string"}

ToolCall == [name      : Tools \cup {UnknownTool},
             risk      : ToolRisk,
             workspace : Workspaces,    \* "" when the argument is absent
             path      : PathKind]

\* Seeded defect: the claimed risk is not compared with the registered one.
EvaluateUnclaimed(call, workspace) ==
    IF \/ call.name \notin Tools
       \/ ~IsAuthorized(workspace)
       \/ call.workspace # "" /\ call.workspace # workspace
       \/ RegisteredRisk[call.name] \in {"destructive", "privileged"}
       \/ RegisteredRisk[call.name] = "write" /\ call.path \in {"escaping", "not_string"}
    THEN "deny"
    ELSE IF RegisteredRisk[call.name] = "write" THEN "require_approval" ELSE "allow"

\* DefaultToolPolicy.evaluate; workspace is the run's workspace.  The order
\* of the alternatives is the order of the early returns.
Evaluate(call, workspace) ==
    IF \/ call.name \notin Tools
       \/ ~IsAuthorized(workspace)
       \/ call.workspace # "" /\ call.workspace # workspace
       \/ call.risk # RegisteredRisk[call.name]
       \/ RegisteredRisk[call.name] \in {"destructive", "privileged"}
       \/ RegisteredRisk[call.name] = "write" /\ call.path \in {"escaping", "not_string"}
    THEN "deny"
    ELSE IF RegisteredRisk[call.name] = "write" THEN "require_approval" ELSE "allow"

================================================================================
