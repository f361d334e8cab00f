--------------------------- MODULE McpProperties ----------------------------
(***************************************************************************)
(* What the checks of http-mcp are for.                                    *)
(***************************************************************************)
EXTENDS Mcp

TypeOK ==
    /\ stores \in Seq(Stores) /\ Len(stores) \in 1..(MaxDeploys + 1)
    /\ now \in 0..MaxTime
    /\ phase \in [Calls -> Phases]
    /\ request \in [Calls -> Requests]
    /\ found \in [Calls -> Actions \union {Unlisted}]
    /\ \A c \in Calls :
        /\ phase[c] = "listing" => request[c].method # "tools/call"
        /\ \/ phase[c] \in {"calling", "sent"}
           \/ phase[c] = "checking" /\ request[c].method = "tools/call"
           => found[c] \in Actions
    /\ access \in [Calls -> Accesses]
    /\ wire \in [Calls -> Wires]
    /\ response \in [Calls -> Responses]
    /\ answer \in [Calls -> Answers]
    /\ executed \in Seq([call : Calls, action : Actions, input : Arguments \union {"null"}])
    /\ began \in [Calls -> [version : 1..(MaxDeploys + 1), at : 0..MaxTime]]

Runs(c) == {i \in DOMAIN executed : executed[i].call = c}

(***************************************************************************)
(* What the code of auth asks of a call of an action, in so many words,    *)
(* with what it read of the action (asked) and of the profiles (read): the *)
(* action is public, or the token names the profile the action demands, is *)
(* signed with HS256 and that profile's secret (as base64 where it is),    *)
(* names no audience, and is neither expired nor early by more than the    *)
(* leeway.  auth's README:3,8,48 says otherwise: RS256 and HS512 only, and *)
(* iss and aud verified against the environment.                           *)
(***************************************************************************)
Entitled(asked, read, action, token, t) ==
    /\ asked.actions.readable
    /\ \/ asked.actions.of[action] = Public
       \/ /\ token.well_formed
          /\ read.profiles.readable
          /\ token.profile = asked.actions.of[action]
          /\ token.alg = "HS256" /\ ~token.aud
          /\ token.key.text = read.profiles.of[token.profile]
          /\ token.key.decoded <=> token.key.text \in Encoded
          /\ t \in (token.nbf - Leeway)..(token.exp + Leeway)

\* An action only ever runs for a call that asked for a tool which some
\* configuration in force since it came in maps to this action, and whose
\* token entitled it to the action at some moment since, as the same or a later
\* configuration demands of the action, with the secrets of the same or a later
\* one still, whatever was deployed while the call was under way, between the
\* two reads of auth too (handle_call_tool, allowed_to_call).
ExecutedOnlyIfAllowed ==
    \A i \in DOMAIN executed :
        LET c == executed[i].call
            r == request[c]
        IN  /\ r.method = "tools/call"
            /\ \E v \in began[c].version..Len(stores) :
                /\ stores[v].servers[r.server][r.tool] = executed[i].action
                /\ \E w \in v..Len(stores), t \in began[c].at..now : \E x \in w..Len(stores) :
                    Entitled(stores[w].auth, stores[x].auth, executed[i].action, r.token, t)

\* The schemas of tools are of type object: no schema accepts null.
Conforms(store, tool, input) ==
    \/ input \in {"good", "long"}
    \/ input = "empty" /\ tool \notin store.demanding

\* An action is given the arguments of its call, and some one configuration in
\* force since the call came in maps its tool to the action and has a schema of
\* the tool they conform to, whatever was deployed between the validation and
\* the run.  Where a call has no arguments the code keeps less than http-mcp's
\* README:3,22 promises ("validated against the tool's input schema"): {} was
\* validated, and the action is given null, which no schema accepts
\* (handle_call_tool, validate_arguments).
InputValidated ==
    \A i \in DOMAIN executed :
        LET c == executed[i].call
            r == request[c]
            validated == IF r.arguments = "absent" THEN "empty" ELSE r.arguments
        IN  /\ executed[i].input = IF r.arguments = "absent" THEN "null" ELSE validated
            /\ \E v \in began[c].version..Len(stores) :
                /\ stores[v].servers[r.server][r.tool] = executed[i].action
                /\ Conforms(stores[v], r.tool, validated)

\* A call that was rejected, answered from the configuration or refused has
\* not run anything and never will, however late the wire delivers.
RejectedNeverRuns ==
    \A c \in Calls :
        answer[c] \in {"http error", "no content", "rejected", "list"} =>
            Runs(c) = {} /\ wire[c] = "none"

\* A call runs its action at most once, through timeouts and late answers.
RunsAtMostOnce == \A c \in Calls : Cardinality(Runs(c)) <= 1

\* Who is told of success has had its action run: to an output, or, where the
\* content is empty, to JSON without one (execute_mapped_action).
SuccessMeansRan ==
    \A c \in Calls :
        /\ answer[c] \in {"success", "empty"} => Runs(c) # {}
        /\ answer[c] = "success" => response[c] = "output"
        /\ answer[c] = "empty" => response[c] = "bare"

\* Every call is answered, whether or not the wrapper ever does
\* (send_http_request).
CallsAreAnswered == \A c \in Calls : phase[c] # "answered" ~> phase[c] = "answered"

=============================================================================
