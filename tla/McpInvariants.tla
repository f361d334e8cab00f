--------------------------- MODULE McpInvariants ----------------------------
(***************************************************************************)
(* The inductive invariant behind the theorems of McpProofs.               *)
(***************************************************************************)
EXTENDS McpProperties

Ran(c) == \E i \in DOMAIN executed : executed[i].call = c

\* The request of a call, the run of its action and its answer come in order.
InOrder(c) ==
    /\ phase[c] \notin {"sent", "answered"} => wire[c] = "none"
    /\ phase[c] = "sent" => wire[c] # "none"
    /\ phase[c] = "answered" <=> answer[c] # "none"
    /\ answer[c] \in {"http error", "no content", "rejected", "list"} => wire[c] = "none"
    /\ wire[c] # "done" => ~Ran(c)
    /\ response[c] \in {"output", "bare", "text"} => Ran(c)
    /\ answer[c] = "success" => wire[c] = "done" /\ response[c] = "output"
    /\ answer[c] = "empty" => wire[c] = "done" /\ response[c] = "bare"

Ordered ==
    /\ \A c \in Calls : InOrder(c)
    /\ \A i, j \in DOMAIN executed : executed[i].call = executed[j].call => i = j

-----------------------------------------------------------------------------
\* What is validated of a call's arguments, and what its action is given.
Validated(c) == IF request[c].arguments = "absent" THEN "empty" ELSE request[c].arguments

\* Version v of the configuration, in force since the call came in, maps its
\* tool to the action and accepts its arguments.
Mapped(c, action, v) ==
    /\ v \in began[c].version..Len(stores)
    /\ stores[v].servers[request[c].server][request[c].tool] = action
    /\ Conforms(stores[v], request[c].tool, Validated(c))

\* And version w, no older, demands a profile of who calls it.
DemandedBy(c, action, v, w) ==
    /\ w \in v..Len(stores)
    /\ stores[w].auth.actions.readable
    /\ stores[w].auth.actions.of[action] = access[c]

\* And since then its token entitled it to the action.
Granted(c, action) ==
    /\ request[c].method = "tools/call"
    /\ \E v \in began[c].version..Len(stores) :
        /\ stores[v].servers[request[c].server][request[c].tool] = action
        /\ Conforms(stores[v], request[c].tool, Validated(c))
        /\ \E w \in v..Len(stores), t \in began[c].at..now : \E x \in w..Len(stores) :
            Entitled(stores[w].auth, stores[x].auth, action, request[c].token, t)

Checked(c) ==
    /\ began[c].version <= Len(stores) /\ began[c].at <= now
    /\ phase[c] = "loading" => request[c].method # "notification"
    /\ phase[c] = "calling" =>
        request[c].method = "tools/call" /\ \E v \in 1..Len(stores) : Mapped(c, found[c], v)
    /\ phase[c] = "checking" =>
        /\ access[c] \in Profiles /\ request[c].token.well_formed
        /\ request[c].method = "tools/call" =>
            \E v \in 1..Len(stores) :
                Mapped(c, found[c], v) /\ \E w \in 1..Len(stores) : DemandedBy(c, found[c], v, w)
    /\ wire[c] # "none" => Granted(c, found[c])

\* Nothing is on its way, and nothing has run, that was not granted.
GrantedFirst ==
    /\ \A c \in Calls : Checked(c)
    /\ \A i \in DOMAIN executed :
        /\ executed[i].input = Input(executed[i].call)
        /\ Granted(executed[i].call, executed[i].action)
=============================================================================
