---------------------------- MODULE MCCodexLaunch ----------------------------
(* Small instances of CodexLaunch. *)
EXTENDS CodexLaunch

CONSTANTS c1, c2, p1

TwoCallers  == { c1, c2 }
OneProcess  == { p1 }
OneHome     == [c \in Callers |-> p1]
TwoContents == { "a", "b" }
==============================================================================
