------------------------------ MODULE LocalIds ------------------------------
(***************************************************************************)
(* What the capture api promises about local ids, whatever captures are    *)
(* opened, discarded and applied: the k-th create that is captured is      *)
(* known as -k until numbering restarts, which it does only when no        *)
(* capture is open, or when the resource was lost with all of them.        *)
(* Before that, -k stands for one real id at most, an id of the model of   *)
(* the create and of no other local id; an apply reads the real ids of all *)
(* local ids numbered so far.                                              *)
(***************************************************************************)
EXTENDS Integers, Sequences

CONSTANT Models

VARIABLES
    open,       \* number of captures that are open
    numbered,   \* numbered[k] is the model of the create known as -k
    bound,      \* bound[k] is the real id of -k; not all need have one yet
    owner,      \* the service's ids: owner[id] is the model id was reserved for
    spare,      \* ids that were reserved and are not bound
    view,       \* what the apply that runs, if any, reads for -1, -2, ...
    lost        \* is the resource lost?

vars == <<open, numbered, bound, owner, spare, view, lost>>

Init ==
    /\ open = 0
    /\ numbered = <<>>
    /\ bound = <<>>
    /\ owner = <<>>
    /\ spare = {}
    /\ view = <<>>
    /\ lost = FALSE

OpenOrClose ==
    /\ open' \in {open + 1, open - 1}
    /\ UNCHANGED <<numbered, bound, owner, spare, view, lost>>

Number ==
    /\ open > 0
    /\ \E m \in Models : numbered' = Append(numbered, m)
    /\ UNCHANGED <<open, bound, owner, spare, view, lost>>

\* The service hands out ids nobody had before; the resource may fail to get
\* them, and is lost when it cannot read the answer.
Reserve ==
    /\ Len(owner') > Len(owner)
    /\ SubSeq(owner', 1, Len(owner)) = owner
    /\ spare' \in {spare, spare \union (Len(owner) + 1)..Len(owner')}
    /\ lost' \in BOOLEAN
    /\ UNCHANGED <<open, numbered, bound, view>>

\* v extends the bindings to all local ids.
Completes(v) ==
    /\ Len(v) = Len(numbered)
    /\ SubSeq(v, 1, Len(bound)) = bound
    /\ \A k \in (Len(bound) + 1)..Len(v) : v[k] \in spare /\ owner[v[k]] = numbered[k]
    /\ \A j, k \in DOMAIN v : v[j] = v[k] => j = k

Bind ==
    /\ Completes(view')
    /\ spare' = {}
    /\ \/ /\ bound' = view'
          /\ UNCHANGED numbered
       \/ /\ open = 0
          /\ bound' = <<>>
          /\ numbered' = <<>>
    /\ UNCHANGED <<open, owner, lost>>

ApplyEnds ==
    /\ view' = <<>>
    /\ UNCHANGED <<open, numbered, bound, owner, spare, lost>>

Lose ==
    /\ lost' = TRUE
    /\ UNCHANGED <<open, numbered, bound, owner, spare, view>>

\* A lost resource does nothing any more; the next one starts anew.
Restart ==
    /\ lost
    /\ lost' = FALSE
    /\ open' = 0
    /\ numbered' = <<>>
    /\ bound' = <<>>
    /\ spare' = {}
    /\ view' = <<>>
    /\ UNCHANGED owner

Next ==
    \/ ~lost /\ (OpenOrClose \/ Number \/ Reserve \/ Bind \/ ApplyEnds \/ Lose)
    \/ Restart

Spec == Init /\ [][Next]_vars
=============================================================================
