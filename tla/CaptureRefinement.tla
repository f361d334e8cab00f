------------------------- MODULE CaptureRefinement -------------------------
(***************************************************************************)
(* While reservations are answered (ReserveFaults \subseteq {"status"}),   *)
(* the vectors and the map of CaptureData implement the numbering and      *)
(* binding of LocalIds, whichever requests with mutations fail.            *)
(***************************************************************************)
EXTENDS CaptureInvariants

\* The models of the local ids: those with a reserved id, then the names.
Numbered == [k \in 1..Len(reserved) |-> granted[reserved[k] - Existing]] \o names

\* The service's ids count from 1 here.
FromOne(s) == [k \in 1..Len(s) |-> s[k] - Existing]

Spare == UNION {ToSet(FromOne(got[m])) : m \in Models}

Numbering ==
    INSTANCE LocalIds WITH
        open <- Len(stack),
        numbered <- Numbered,
        bound <- FromOne(reserved),
        owner <- granted,
        spare <- Spare,
        view <- FromOne(ids),
        lost <- Trapped

\* Each local id means one real id of its model for as long as a capture is
\* open, across nested captures, applies and discards (CaptureData, reserve_ids).
NumberingRefined == Numbering!Spec
=============================================================================
