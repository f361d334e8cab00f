----------------------------- MODULE MCCapture -----------------------------
(***************************************************************************)
(* Instances of Capture for TLC, and what Capture refines.                 *)
(***************************************************************************)
EXTENDS CaptureRefinement

\* Models are interchangeable.
ModelSymmetry == Permutations(Models)

=============================================================================
