--------------------------- MODULE McpRefinement ---------------------------
(***************************************************************************)
(* http-mcp and the wrapper keep the promise of ToolCalls.                 *)
(***************************************************************************)
EXTENDS McpInvariants

\* Entitled to an action is a call for whose tool and arguments it was
\* configured, and whose token was good for it since.
AllowedSoFar(c) == IF phase[c] = "new" THEN {} ELSE {a \in Actions : Granted(c, a)}

Told(c) ==
    CASE answer[c] = "none" -> "nothing"
      [] answer[c] = "success" -> "output"
      [] answer[c] \in {"empty", "error result"} -> "no output"
      [] answer[c] = "failed" -> "unsure"
      [] OTHER -> "not run"

Attempts == {c \in Calls : wire[c] # "none"}

Underway == {<<c, found[c]>> : c \in {d \in Calls : wire[d] \in {"sent", "running"}}}

\* What came of a run is what the wrapper answered to the call.
Outcome(c) == IF response[c] = "output" THEN "output" ELSE "no output"

RunsMade == [i \in 1..Len(executed) |->
    <<executed[i].call, executed[i].action, Outcome(executed[i].call)>>]

Promise ==
    INSTANCE ToolCalls WITH
        allowed <- [c \in Calls |-> AllowedSoFar(c)],
        attempted <- Attempts,
        underway <- Underway,
        runs <- RunsMade,
        told <- [c \in Calls |-> Told(c)]

\* Through changes of the configuration, timeouts and answers that come late, a
\* call makes one attempt at most, at an action it was entitled to, and what its
\* caller is told of it is true and final (handle_call_tool,
\* execute_mapped_action, run_action).
PromiseKept == Promise!Spec
=============================================================================
