---------------------------- MODULE MCDispatcher ----------------------------
(***************************************************************************)
(* A service with one analyzer of each kind and one that may panic, and    *)
(* two calls on two repositories.                                          *)
(***************************************************************************)
EXTENDS Dispatcher

MCRegistered == <<"PostMessage", "WordCount", "CodeAlert", "PyLint", "JSHint", "go vet", "AndroidLint">>
MCExt        == [main |-> "go", tool |-> "py", page |-> "js"]
\* Only r1 has projects, one within the other.
MCProjectsAbove ==
  [dir \in Dirs |-> [f \in Files |-> IF dir = "r1" /\ f = "tool" THEN <<"app", "suite">> ELSE << >>]]

Ask(root, files, categories) == [root |-> root, files |-> files, categories |-> categories]

MCWorkload ==
  {Ask("r1", {"main", "tool"}, {"PostMessage", "WordCount", "AndroidLint"}),
   Ask("r2", {"main"}, {"CodeAlert", "go vet", "Checkstyle"}),
   Ask("r2", {"tool", "page"}, {"PyLint", "JSHint"}),
   Ask("gone", {"main"}, {"go vet"})}
=============================================================================
