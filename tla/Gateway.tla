------------------------------- MODULE Gateway -------------------------------
(***************************************************************************)
(* P5 Tool-Routed Gateway (patterns/p5_gateway.py): one routing model      *)
(* call, then the tool calls one by one, each guarded by itself.           *)
(***************************************************************************)
EXTENDS Pattern

CONSTANT Tools   \* the configured tools, a sequence of distinct names

ASSUME ToolsAssumption ==
    /\ Tools \in Seq(STRING \ {NoUnit})
    /\ Len(Tools) > 0 /\ IsInjective(Tools)

VARIABLES
    toolCalls,      \* tool calls made by this request
    tool_results,   \* tools with at least one result
    failures        \* tools with at least one failure

gateway == <<toolCalls, tool_results, failures>>

P5Init == toolCalls = 0 /\ tool_results = {} /\ failures = {}

P5Begin(i, start, inFlight) ==
    /\ run(i, start, inFlight, "P5.route")
    /\ toolCalls' = 0
    /\ tool_results' = {}
    /\ failures' = {}

\* One pass over the tools, extended round-robin to the item's steps.
n_calls == Max({Len(Tools), work_steps})

calls(j) == Tools[((j - 1) % Len(Tools)) + 1]

Route ==
    /\ pc = "P5.route"
    /\ UNCHANGED gateway
    /\ \E r \in invoke_agent(armed, Scaled(ctx, work_steps)) :
         \/ r.ok /\ Goto(Unscaled(r.ctx), "P5.call")
         \/ Raise(r)

ToolCall(tool) ==
    IF OnBedrock THEN gateway_call(armed, ctx, tool)
    ELSE run_agent_script(armed, ctx, <<tool>>)

\* Mutant: the first failing tool ends the request.
afterFailureStop(c) == Return(c, "error")

\* The loop goes on with the remaining tools.
AfterFailure(c) == Goto(c, "P5.call")

CallTool ==
    /\ pc = "P5.call"
    /\ toolCalls < n_calls
    /\ LET tool == calls(toolCalls + 1) IN
       \E r \in ToolCall(tool) :
         /\ toolCalls' = toolCalls + 1
         /\ \/ /\ r.ok
               /\ tool_results' = tool_results \cup {tool}
               /\ Goto(r.ctx, "P5.call")
               /\ UNCHANGED failures
            \/ /\ ~r.ok
               /\ failures' = failures \cup {tool}
               /\ AfterFailure(r.ctx)
               /\ UNCHANGED tool_results

\* len(failures) == len(set(calls)); a full pass calls every tool.
all_failed == failures = ToSet(Tools)

FinishTools ==
    /\ pc = "P5.call"
    /\ toolCalls = n_calls
    /\ Return([ctx EXCEPT !.degraded = @ \/ (failures # {} /\ ~all_failed)],
              IF all_failed THEN "error" ELSE "ok")
    /\ UNCHANGED gateway

P5Next == Route \/ CallTool \/ FinishTools
=============================================================================
