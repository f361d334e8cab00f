-------------------------------- MODULE Mcp ---------------------------------
(***************************************************************************)
(* The way of a call through components/http-mcp, which checks it, and     *)
(* components/http-wrapper, which runs the action.  The calls run side by  *)
(* side, each in component instances of its own.  The configuration in the *)
(* runtime's store can change while they run, the clock goes on, and on    *)
(* the way between the two components requests and answers are delayed.    *)
(***************************************************************************)
EXTENDS Auth, Sequences, FiniteSets

CONSTANTS
    Calls,      \* the calls, each made once
    Servers,    \* ids of MCP servers
    Tools,      \* names of tools
    Actions,    \* ids of actions
    Stores,     \* configurations the runtime's store may hold
    Requests,   \* what the calls may ask for
    MaxDeploys, \* bound of the model: changes of the configuration
    MaxTime     \* bound of the model: ticks of the clock

(***************************************************************************)
(* A store has "servers": per server and tool the action, or Unlisted; a   *)
(* server without a tool is itself not configured.  "demanding" has the    *)
(* tools whose schema requires a property, and "auth" is read by Auth.  A  *)
(* request has                                                             *)
(*   http       "ok", or what is wrong with its method, path or headers    *)
(*   body       "ok", "large", "unreadable" or "not rpc"                   *)
(*   method     the JSON-RPC method, "other" for any that is unknown       *)
(*   server, tool, token                                                   *)
(*   arguments  "absent", "empty" {}, "good", "bad" against the schema,    *)
(*              or "long": good, and escaped beyond what the wrapper reads *)
(*              "no params" or "garbled" where the params do not parse     *)
(***************************************************************************)
Methods == {"notification", "initialize", "tools/list", "tools/call", "other"}
Arguments == {"absent", "empty", "good", "bad", "long", "no params", "garbled"}

ASSUME McpAssumption ==
    /\ MaxDeploys \in Nat /\ MaxTime \in Nat
    /\ \A s \in Stores :
        /\ s.servers \in [Servers -> [Tools -> Actions \union {Unlisted}]]
        /\ s.demanding \subseteq Tools
        /\ s.auth.actions.of \in [Actions -> Accesses]
        /\ s.auth.mcps.of \in [Servers -> Accesses]
        /\ s.auth.profiles.of \in [Profiles -> Secrets \union {Unlisted}]
    /\ \A r \in Requests :
        /\ r.http \in {"ok", "refused"}
        /\ r.body \in {"ok", "large", "unreadable", "not rpc"}
        /\ r.method \in Methods /\ r.arguments \in Arguments
        /\ r.server \in Servers /\ r.tool \in Tools
        /\ r.token \in Credentials

VARIABLES
    stores,     \* external: the configurations so far, the last in force
    now,        \* external: the clock
    phase,      \* per call how far http-mcp is with it
    request,    \* per call what it asks for
    found,      \* per call the action its tool is mapped to
    access,     \* per call what auth has read that its resource demands
    wire,       \* per call how far its request to the wrapper is
    response,   \* per call what the wrapper answered
    answer,     \* per call what its caller got
    executed,   \* external: the runs of actions, in order
    began       \* history: per call the configuration and the time it came in

gateway == <<phase, request, found, access, began>>
vars == <<stores, now, phase, request, found, access, began, wire, response, answer, executed>>

Phases == {"new", "reading", "loading", "listing", "calling", "checking", "sent",
           "answered"}
Wires == {"none", "sent", "running", "done"}
Responses == {"none", "output", "bare", "text", "large", "failed", "forbidden", "too large", "body failed"}
Answers == {"none", "http error", "no content", "rejected", "list", "success", "empty", "error result",
            "failed"}

Store == stores[Len(stores)]

Init ==
    /\ \E s \in Stores : stores = <<s>>
    /\ now = 0
    /\ phase = [c \in Calls |-> "new"]
    /\ request \in [Calls -> Requests]
    /\ found = [c \in Calls |-> Unlisted]
    /\ access = [c \in Calls |-> Unlisted]
    /\ wire = [c \in Calls |-> "none"]
    /\ response = [c \in Calls |-> "none"]
    /\ answer = [c \in Calls |-> "none"]
    /\ executed = <<>>
    /\ began = [c \in Calls |-> [version |-> 1, at |-> 0]]

\* The environment: the configuration changes, time passes.
Deploy(s) ==
    /\ Len(stores) <= MaxDeploys
    /\ s # Store
    /\ stores' = Append(stores, s)
    /\ UNCHANGED <<now, gateway, wire, response, answer, executed>>

Tick ==
    /\ now < MaxTime
    /\ now' = now + 1
    /\ UNCHANGED <<stores, gateway, wire, response, answer, executed>>

-----------------------------------------------------------------------------
(***************************************************************************)
(* http-mcp, one action per stretch between two calls out of it.  Whoever  *)
(* is "rejected" gets a JSON-RPC error before anything was sent on; a call *)
(* has "failed" if the error came after.                                   *)
(***************************************************************************)
Goes(c, p) == phase' = [phase EXCEPT ![c] = p] /\ UNCHANGED answer
Returns(c, a) == /\ phase' = [phase EXCEPT ![c] = "answered"]
                  /\ answer' = [answer EXCEPT ![c] = a]
outside == <<stores, now, request, response, executed>>

\* Method, path, content type, environment and the content-length header.
HandleMcpRequest(c) ==
    /\ phase[c] = "new"
    /\ IF request[c].http = "ok" THEN Goes(c, "reading") ELSE Returns(c, "http error")
    /\ began' = [began EXCEPT ![c] = [version |-> Len(stores), at |-> now]]
    /\ UNCHANGED <<outside, found, access, wire>>

\* The body has been read: notifications need no more than a method.
ProcessRpc(c) ==
    /\ phase[c] = "reading"
    /\ CASE request[c].body \in {"large", "unreadable"} -> Returns(c, "http error")
         [] request[c].body = "not rpc" -> Returns(c, "rejected")
         [] request[c].body = "ok" /\ request[c].method = "notification" -> Returns(c, "no content")
         [] OTHER -> Goes(c, "loading")
    /\ UNCHANGED <<outside, began, found, access, wire>>

IsConfigured(server) == \E t \in Tools : Store.servers[server][t] # Unlisted

\* Mutant: only what is there is checked.
ValidatePresent(r) == r.arguments \in {"absent", "good", "long"} \/ r.tool \notin Store.demanding

\* Absent arguments are checked as if they were {}.
ValidateArguments(r) ==
    \/ r.arguments \in {"good", "long"}
    \/ r.arguments \in {"absent", "empty"} /\ r.tool \notin Store.demanding

\* Mutant: the tool is not looked for.
ToolAssumed(action) == TRUE

ToolFound(action) == action # Unlisted

\* The server's configuration is loaded; of a call, the tool is found and the
\* arguments are validated.
LoadServerConfig(c) ==
    LET r == request[c]
        action == Store.servers[r.server][r.tool]
    IN  /\ phase[c] = "loading"
        /\ CASE ~IsConfigured(r.server) \/ r.method = "other" -> Returns(c, "rejected") /\ UNCHANGED found
             [] IsConfigured(r.server) /\ r.method \in {"initialize", "tools/list"} ->
                    Goes(c, "listing") /\ UNCHANGED found
             [] OTHER ->
                    IF /\ r.arguments \notin {"no params", "garbled"}
                       /\ ToolFound(action)
                       /\ ValidateArguments(r)
                    THEN Goes(c, "calling") /\ found' = [found EXCEPT ![c] = action]
                    ELSE Returns(c, "rejected") /\ UNCHANGED found
        /\ UNCHANGED <<outside, began, access, wire>>

Refuses(c) == Returns(c, "rejected") /\ UNCHANGED wire

\* A list is answered from the configuration loaded before, a call goes out to
\* the wrapper.
Passes(c) ==
    IF request[c].method = "tools/call"
    THEN Goes(c, "sent") /\ wire' = [wire EXCEPT ![c] = "sent"]
    ELSE Returns(c, "list") /\ UNCHANGED wire

\* The first read of auth: what is public passes without a token.
LoadAccess(c, demanded) ==
    CASE demanded = Public -> Passes(c) /\ UNCHANGED access
      [] NeedsProfile(demanded, request[c].token) ->
            Goes(c, "checking") /\ access' = [access EXCEPT ![c] = demanded] /\ UNCHANGED wire
      [] OTHER -> Refuses(c) /\ UNCHANGED access

\* allowed_to_list
HandleList(c) ==
    /\ phase[c] = "listing"
    /\ LoadAccess(c, Demanded(Store.auth.mcps, request[c].server))
    /\ UNCHANGED <<outside, began, found>>

\* Mutant: the request is on its way before the check.
CallThenCheck(c) ==
    LET demanded == Demanded(Store.auth.actions, found[c])
    IN  /\ phase[c] = "calling"
        /\ wire' = [wire EXCEPT ![c] = "sent"]
        /\ access' = [access EXCEPT ![c] = demanded]
        /\ CASE demanded = Public -> Goes(c, "sent")
             [] NeedsProfile(demanded, request[c].token) -> Goes(c, "checking")
             [] OTHER -> Returns(c, "rejected")
        /\ UNCHANGED <<outside, began, found>>

\* allowed_to_call
HandleCallTool(c) ==
    /\ phase[c] = "calling"
    /\ LoadAccess(c, Demanded(Store.auth.actions, found[c]))
    /\ UNCHANGED <<outside, began, found>>

\* The second read of auth: the profiles as they are now.
CheckProfile(c) ==
    /\ phase[c] = "checking"
    /\ IF CheckProfileAuthorization(request[c].token, access[c], Store.auth.profiles, now)
       THEN Passes(c)
       ELSE Refuses(c)
    /\ UNCHANGED <<outside, began, found, access>>

-----------------------------------------------------------------------------
(***************************************************************************)
(* http-wrapper                                                            *)
(***************************************************************************)
\* What is forwarded: absent arguments become null.
Input(c) == IF request[c].arguments = "absent" THEN "null" ELSE request[c].arguments

Responds(c, r) ==
    /\ wire' = [wire EXCEPT ![c] = "done"]
    /\ response' = [response EXCEPT ![c] = r]

\* At most MAX_READ bytes of the body are read; what ends early, cut there or
\* by the connection, is answered as too large.
InnerHandle(c) ==
    /\ wire[c] = "sent"
    /\ \/ request[c].arguments # "long" /\ wire' = [wire EXCEPT ![c] = "running"] /\ UNCHANGED response
       \/ Responds(c, "too large")
       \/ Responds(c, "body failed")
    /\ UNCHANGED <<stores, now, gateway, answer, executed>>

\* The action runs: to JSON with an output, to bare JSON without one (or null),
\* to text that is no JSON, to more than http-mcp reads, or it fails; or the
\* runtime forbids it.
RunAction(c) ==
    /\ wire[c] = "running"
    /\ \/ /\ \E r \in {"output", "bare", "text", "large", "failed"} : Responds(c, r)
          /\ executed' = Append(executed, [call |-> c, action |-> found[c], input |-> Input(c)])
       \/ Responds(c, "forbidden") /\ UNCHANGED executed
    /\ UNCHANGED <<stores, now, gateway, answer>>

-----------------------------------------------------------------------------
\* Mutant: what is no output is taken for one.
AnyAnswerIsOutput(c) ==
    /\ phase[c] = "sent" /\ wire[c] = "done"
    /\ Returns(c, CASE response[c] = "text" -> "error result"
                     [] response[c] = "bare" -> "empty"
                     [] OTHER -> "success")
    /\ UNCHANGED <<outside, began, found, access, wire>>

\* execute_mapped_action has the wrapper's answer.  JSON that has no output is
\* told as a success too, with no content.
ReceiveResponse(c) ==
    /\ phase[c] = "sent" /\ wire[c] = "done"
    /\ Returns(c, CASE response[c] = "output" -> "success"
                     [] response[c] = "bare" -> "empty"
                     [] response[c] = "text" -> "error result"
                     [] OTHER -> "failed")
    /\ UNCHANGED <<outside, began, found, access, wire>>

\* Mutant: after a timeout the request is sent again.
SendAgain(c) ==
    /\ phase[c] = "sent"
    /\ wire[c] = "done"
    /\ wire' = [wire EXCEPT ![c] = "sent"]
    /\ UNCHANGED <<outside, began, phase, answer, found, access>>

\* Mutant: an answer that is late is waited for.
WaitOn(c) ==
    /\ phase[c] = "sent"
    /\ wire[c] = "done"
    /\ UNCHANGED vars

\* No connection, no first byte or no next byte within ten minutes: the call
\* is answered, the request may still be on its way and the action run later.
SendTimesOut(c) ==
    /\ phase[c] = "sent"
    /\ Returns(c, "failed")
    /\ UNCHANGED <<outside, began, found, access, wire>>

Gateway(c) ==
    HandleMcpRequest(c) \/ ProcessRpc(c) \/ LoadServerConfig(c) \/ HandleList(c) \/ HandleCallTool(c)
        \/ CheckProfile(c) \/ ReceiveResponse(c) \/ SendTimesOut(c)

Wrapper(c) == InnerHandle(c) \/ RunAction(c)

Next ==
    \/ \E s \in Stores : Deploy(s)
    \/ Tick
    \/ \E c \in Calls : Gateway(c) \/ Wrapper(c)

Spec == Init /\ [][Next]_vars

\* The calls out of http-mcp return, the one to the wrapper at its timeouts;
\* nothing obliges the wrapper or the action.
FairSpec == Spec /\ \A c \in Calls : WF_vars(Gateway(c))
=============================================================================
