----------------------------- MODULE ToolCalls -----------------------------
(***************************************************************************)
(* What http-mcp promises of the calls of tools.  A call leads to at most  *)
(* one attempt to run one action, an action the call had become entitled   *)
(* to before; the attempt may be lost, or lead to a run long after, with   *)
(* an output or without.  The caller is told once: that nothing was and    *)
(* will be run, that the action ran and had an output or none, or nothing  *)
(* certain of an attempt that was made.                                    *)
(***************************************************************************)
EXTENDS Integers, Sequences

CONSTANTS Calls, Actions

VARIABLES
    allowed,    \* per call the actions it has been entitled to so far
    attempted,  \* the calls an attempt was made for
    underway,   \* <<call, action>> of the attempts that may still lead to a run
    runs,       \* <<call, action, "output" or "no output">> of the runs, in order
    told        \* per call "nothing", "not run", "output", "no output" or "unsure"

vars == <<allowed, attempted, underway, runs, told>>

Init ==
    /\ allowed = [c \in Calls |-> {}]
    /\ attempted = {}
    /\ underway = {}
    /\ runs = <<>>
    /\ told = [c \in Calls |-> "nothing"]

Attempt(c, a) ==
    /\ c \notin attempted /\ told[c] = "nothing" /\ a \in allowed[c]
    /\ attempted' = attempted \union {c}
    /\ underway' = underway \union {<<c, a>>}
    /\ UNCHANGED <<runs, told>>

Run(c, a) ==
    /\ <<c, a>> \in underway
    /\ underway' = underway \ {<<c, a>>}
    /\ \E outcome \in {"output", "no output"} : runs' = Append(runs, <<c, a, outcome>>)
    /\ UNCHANGED <<attempted, told>>

Lose(c, a) ==
    /\ <<c, a>> \in underway
    /\ underway' = underway \ {<<c, a>>}
    /\ UNCHANGED <<attempted, runs, told>>

Tell(c) ==
    /\ told[c] = "nothing"
    /\ \E t \in {"not run", "output", "no output", "unsure"} :
        /\ told' = [told EXCEPT ![c] = t]
        /\ t = "not run" <=> c \notin attempted
        /\ t \in {"output", "no output"} => \E i \in DOMAIN runs : runs[i][1] = c /\ runs[i][3] = t
    /\ UNCHANGED <<attempted, underway, runs>>

\* What a call was once entitled to is kept; more may come at any time.
Grows == \A c \in Calls : allowed[c] \subseteq allowed'[c]

Next ==
    /\ Grows
    /\ \/ \E c \in Calls : Tell(c) \/ \E a \in Actions : Attempt(c, a) \/ Run(c, a) \/ Lose(c, a)
       \/ UNCHANGED <<attempted, underway, runs, told>>

Spec == Init /\ [][Next]_vars
=============================================================================
