-------------------------- MODULE MCFixVerification --------------------------
(* Small instances of FixVerification. *)
EXTENDS FixVerification

TwoRunners == { 1, 2 }
OnePath    == { "a.py" }
TwoPaths   == { "a.py", "b.py" }
Suite      == { "pytest" }
OneCommand == << "pytest" >>

Import    == [kind |-> "unresolved_import", file |-> "a.py", line |-> 1]
Syntax    == [kind |-> "syntax_error", file |-> "a.py", line |-> 1]
FewDefects == { Import, Syntax }

Found(id, repro, command) == [id |-> id, repro |-> repro, command |-> command]
PlanStep(id, target, criterion) == [finding |-> id, target |-> target, criterion |-> criterion]

Operation(findings, steps) ==
  [findings |-> findings, files |-> TwoPaths, closure |-> TwoPaths \cup Suite, steps |-> steps,
   allowed |-> TwoPaths]

SmallOperations ==
  { Operation({ Found(Import, TRUE, None) }, << PlanStep(Import, "a.py", FALSE) >>),
    Operation({ Found(Import, FALSE, None) }, << PlanStep(Import, "b.py", TRUE) >>),
    Operation({ Found(Import, FALSE, "pytest") }, << PlanStep(Import, "a.py", FALSE) >>),
    Operation({ Found(Import, FALSE, "empty") }, << PlanStep(Import, "a.py", FALSE) >>) }

Texts(id) == { << "scanner_clear", id >>, << "file", "a.py" >>, << "file", "c.py" >>,
               << "recorded", id >>, << "configured", 1 >> }

Check(id, text) == [finding |-> id, text |-> text, expected |-> "exit code 0"]
Val(text) == [id |-> 1, text |-> text, expected |-> "exit code 0"]

Answered(accepted, steps, checks, vals, rule) ==
  [accepted |-> accepted, steps |-> steps, checks |-> checks, vals |-> vals, rule |-> rule]

AnswersFor(id) ==
  LET plan == << PlanStep(id, "a.py", FALSE) >> IN
    { Answered(TRUE, plan, << Check(id, t) >>, << >>, Rule) : t \in Texts(id) }
    \cup { Answered(TRUE, plan, << Check(id, << "prose", "" >>) >>, << Val(t) >>, Rule)
           : t \in { << "file", "a.py" >>, << "configured", 1 >> } }
    \cup { Answered(FALSE, plan, << Check(id, << "file", "a.py" >>) >>, << >>, Rule),
           Answered(TRUE, << >>, << Check(id, << "file", "a.py" >>) >>, << >>, Rule),
           Answered(TRUE, plan, << >>, << Val(<< "configured", 1 >>) >>, Rule),
           Answered(TRUE, plan, << Check(id, << "file", "a.py" >>) >>, << >>, "any") }

SmallAnswers == AnswersFor(Import)
==============================================================================
