----------------------- MODULE MCOperationController -----------------------
(* Instances of the controller for TLC. *)
EXTENDS OperationController, TLC

CONSTANTS h1, tab1, tab2, read, shell, k1

OneThread  == { h1 }
Tabs       == { tab1, tab2 }
Read       == { read }
Shell      == { shell }
OneKey     == { k1 }

AllAdapters == { "planning", "review", "fulfilment", "execution" }
AllKinds    == { "task", "prepared_plan", "fix" }

(* Tabs are interchangeable. *)
Symmetry == Permutations(Tabs)
============================================================================
