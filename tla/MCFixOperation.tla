---------------------------- MODULE MCFixOperation ----------------------------
(* Small instances of FixOperation. *)
EXTENDS FixOperation

CONSTANTS c1, c2, p1, a, b

TwoCallers   == { c1, c2 }
OneProcess   == { p1 }
OneHome      == [c \in Callers |-> p1]
TwoContents  == { a, b }
Modes        == [s \in { a, b } |-> IF s = a THEN "fix" ELSE "build"]
TwoStamps    == 1 .. 2
==============================================================================
