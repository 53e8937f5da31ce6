--------------------------- MODULE MCMutationGate ---------------------------
(* Small instances of MutationGate: openai_project/ with a and b, and doc. *)
EXTENDS MutationGate

CONSTANTS r1, r2, h1, l1, t1, t2

TwoReviews == { r1, r2 }
OneHook    == { h1 }
OneLaunch  == { l1 }

Src == << "openai_project" >>
A   == << "openai_project", "a" >>
B   == << "openai_project", "b" >>
C   == << "openai_project", "c" >>
Doc == << "doc" >>

Plan(decision, blocking, targets, prohibited, covered, kinds, runnable) ==
  [decision |-> decision, blocking |-> blocking, findings |-> { "finding" },
   targets |-> targets, staged |-> targets, allowed |-> { Src }, prohibited |-> prohibited,
   requirements |-> { "q" },
   covers |-> [actions |-> { "q" }, validations |-> { "q" }, evidence |-> covered],
   kinds |-> kinds, runnable |-> runnable]

(* good: edits a; wide: renames anything, cannot be validated; gap:  *)
(* has a material gap; prohibited: targets what it prohibits; untraced: a  *)
(* requirement without evidence.                                           *)
Contents == [
  good       |-> Plan("no_material_gap", FALSE, { A }, { B }, { "q" }, { "modified", "mode" }, TRUE),
  wide       |-> Plan("no_material_gap", FALSE, { Src }, {}, { "q" }, { "renamed" }, FALSE),
  gap        |-> Plan("material_gap_found", FALSE, { A }, {}, { "q" }, {}, TRUE),
  prohibited |-> Plan("no_material_gap", FALSE, { A, B }, { B }, { "q" }, { "modified" }, TRUE),
  untraced   |-> Plan("no_material_gap", FALSE, { A }, {}, {}, { "modified" }, TRUE)]

FewPlans == { "good", "gap", "prohibited" }
Call(tool, listed, headers, words) ==
  [tool |-> tool, listed |-> listed, headers |-> headers, words |-> words]

(* A patch of a that moves it to doc; a command that names c and doc; a    *)
(* list with a path that does not normalize.                               *)
FewCalls == { Call("malformed", {}, {}, {}), Call("read", { Doc }, {}, {}),
              Call("edit", {}, { A }, { Doc }), Call("unknown", { A, C }, {}, {}),
              Call("shell_write", {}, {}, { C, Doc }), Call("edit", { A, Bad }, {}, {}) }

(* A version 2 file with a slice that is locked and one that is not.       *)
OneSliceFile == { [op |-> "x", slices |-> << [locked |-> FALSE, allowed |-> { A }],
                                            [locked |-> TRUE, allowed |-> { Src }] >>] }

TwoTrees == { t1, t2 }
TreesAreAlike == Permutations(TwoTrees)

Tree     == { A, B, Doc }
Old      == [content |-> "old", mode |-> "rw"]
New      == [content |-> "new", mode |-> "rw"]
Locked   == [content |-> "new", mode |-> "ro"]
TreeBefore == (A :> Old) @@ (B :> Absent) @@ (Doc :> New)
TreesAfter == { (A :> New) @@ (B :> Absent) @@ (Doc :> New),     \* a modified
                (A :> Absent) @@ (B :> Old) @@ (Doc :> Locked) } \* renamed to b, doc locked

TwoOps == { "x", "y" }
==============================================================================
