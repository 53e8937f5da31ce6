-------------------------- MODULE MCReviewLifecycle --------------------------
(* Small instances of ReviewLifecycle. *)
EXTENDS ReviewLifecycle

CONSTANTS a, b, draft

OnePlan    == { a, draft }
OneDraft   == { draft }
Contents   == [s \in { a, b, draft } |-> s]
==============================================================================
