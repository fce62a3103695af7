---------------------------- MODULE TaskRunnerMC ----------------------------
(* Instances of TaskRunner for TLC. *)
EXTENDS TaskRunner

Task(w, loops, items, reg, cw, fw, ign) ==
  [when |-> w, loops |-> loops, items |-> items, register |-> reg,
   changedWhen |-> cw, failedWhen |-> fw, ignoreErrors |-> ign]

(* Registering tasks with every pair of overrides, loops of two items,       *)
(* conditional tasks and loops, an empty loop, and a task that registers     *)
(* under the name of the loop variable.                                      *)
MCTasks ==
  {Task(<<>>, FALSE, 0, "r", cw, fw, ign) :
     cw \in {"none", "true", "false"}, fw \in {"none", "true", "r.failed"},
     ign \in BOOLEAN}
  \union
  {Task(<<>>, TRUE, 2, "r", cw, fw, ign) :
     cw \in {"none", "false"}, fw \in {"none", "raises"}, ign \in BOOLEAN}
  \union
  {Task(w, loops, 1, "r", "none", "none", FALSE) :
     w \in {<<"false">>, <<"raises", "true">>, <<"true", "r.failed">>},
     loops \in BOOLEAN}
  \union
  {Task(<<>>, TRUE, 0, "none", "none", "none", FALSE),
   Task(<<>>, FALSE, 0, "item", "none", "none", FALSE)}
=============================================================================
