----------------------------- MODULE EnterpriseCall -----------------------------
(***************************************************************************)
(* The way of one write from a tool of the action gateway to the           *)
(* enterprise system and back: MCP client, MCP server, HTTP client.  Each  *)
(* hop turns what it gets into a result or an exception of its own, and    *)
(* the exception decides whether the gateway calls the write refused or    *)
(* its result unknown.                                                     *)
(***************************************************************************)
EXTENDS Naturals

\* The service answers, does not know the resource, refuses with another HTTP
\* error, answers something unreadable, or is not heard of.
Replies == {"ok", "404", "4xx", "5xx", "malformed", "nothing"}

\* EnterpriseOpsHttpClient: a result or the name of its exception.
HttpResult(reply) ==
    CASE reply = "ok"             -> "result"
      [] reply = "404"            -> "ResourceNotFoundError"
      [] reply \in {"4xx", "5xx"} -> "RejectedError"
      [] reply = "malformed"      -> "ProtocolError"
      [] reply = "nothing"        -> "UnavailableError"

WriteMethods ==
    {"create_procurement_request_and_reserve_budget", "create_pending_employee",
     "create_disabled_corporate_account", "assign_baseline_access_package",
     "create_asset_assignment_task", "activate_employee_and_account",
     "update_employee_assignment", "revoke_obsolete_baseline_access",
     "grant_target_baseline_access", "create_asset_adjustment_task",
     "verify_employee_transfer_consistency", "disable_corporate_account",
     "revoke_all_employee_access", "create_asset_return_task", "mark_employee_inactive",
     "verify_employee_offboarding_consistency", "create_access_request",
     "grant_application_access", "create_maintenance_work_order"}

Tokens == {"read", "action_gateway"}
TokenScopes(token) == IF token = "read" THEN {"mcp.read"} ELSE {"mcp.read", "bizorch.action_gateway"}
MayCall(token, method) == method \in WriteMethods => "bizorch.action_gateway" \in TokenScopes(token)

\* FastMCP answers an exception of its tool with an error.
ServerAnswer(token, method, reply) ==
    IF MayCall(token, method) /\ HttpResult(reply) = "result" THEN "content" ELSE "error"

\* StreamableHttpMcpToolCaller: any error, and an answer that does not arrive
\* in time, are one exception, whatever the enterprise system has said.
CallTool(answer) == IF answer = "content" THEN "result" ELSE "McpToolInvocationError"

\* The answer of the server reaches the client or is lost.
Seen(token, method) ==
    {CallTool(answer) : answer \in {ServerAnswer(token, method, r) : r \in Replies} \cup {"lost"}}

Rejected == {"ResourceNotFoundError", "RejectedError"}

\* EmployeeLifecycleWriteTool, and the gateway's handling of its exceptions.
LifecycleToolStatus(seen) ==
    CASE seen = "result"     -> "SUCCEEDED"
      [] seen \in Rejected   -> "FAILED"
      [] OTHER               -> "UNKNOWN"

\* ProcurementWriteTool reads the purchase back when the service was not heard
\* of; found: the request and its reservation are there as proposed.
ProcurementToolStatus(seen, found) ==
    CASE seen = "result"                         -> "SUCCEEDED"
      [] seen \in Rejected                       -> "FAILED"
      [] seen = "UnavailableError" /\ found      -> "SUCCEEDED"
      [] OTHER                                   -> "UNKNOWN"

MaintenanceToolStatus(seen) == IF seen = "result" THEN "SUCCEEDED" ELSE "UNKNOWN"

\* The outcome of the gateway for a status of the tool; a write that succeeded
\* is verified.
GatewayOutcomes(status) ==
    CASE status = "SUCCEEDED" -> {"SUCCEEDED", "VERIFICATION_FAILED"}
      [] status = "FAILED"    -> {"TOOL_FAILED"}
      [] status = "UNKNOWN"   -> {"RESULT_UNKNOWN"}
===============================================================================
