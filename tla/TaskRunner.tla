----------------------------- MODULE TaskRunner -----------------------------
(* TaskExecutor (ansiblers-executor/src/task.rs): one host runs task after   *)
(* task against one ExecutionContext.  A task may carry `when`, a loop,      *)
(* `register`, `changed_when`, `failed_when` and `ignore_errors`.  Modules   *)
(* and templates are external: a module returns any result or an Err, a      *)
(* condition is one of the kinds of Conds.                                   *)
EXTENDS Naturals, Sequences

CONSTANTS Tasks,   \* task records that may be run
          Facts,   \* sets of names that may be facts of the host
          MaxRuns, \* bound: tasks run by one behaviour
          Absent   \* no such variable

(* Names a task can use: a registered variable and the default loop_var. *)
Names == {"r", "item"}

(* A condition renders to a true or a false text, fails to render, or reads  *)
(* the registered variable r; `none` is an absent changed_when/failed_when.  *)
Conds == {"true", "false", "raises", "r.failed"}

ASSUME TaskRunnerAssumption ==
  /\ Tasks # {}
  /\ \A t \in Tasks :
       /\ t.when \in Seq(Conds)
       /\ t.loops \in BOOLEAN
       /\ t.items \in Nat
       /\ t.register \in Names \union {"none"}
       /\ t.changedWhen \in Conds \union {"none"}
       /\ t.failedWhen \in Conds \union {"none"}
       /\ t.ignoreErrors \in BOOLEAN
  /\ Facts \subseteq SUBSET Names
  /\ MaxRuns \in Nat

VARIABLES pc,      \* "idle", "single", "loop" or "err"
          task,    \* the task being run, or run last
          facts,   \* names that are facts of the host
          regs,    \* ctx.registered_vars
          snap,    \* the merged variables the current step works with
          next,    \* items of the loop already done
          last,    \* last_result of run_loop
          calls,   \* the module calls of this task: variables, result, verdict
          ret,     \* the result run() returned last
          runs     \* tasks started

vars == <<pc, task, facts, regs, snap, next, last, calls, ret, runs>>

-----------------------------------------------------------------------------
Result(status, changed) == [status |-> status, changed |-> changed]
OkResult == Result("ok", FALSE)
SkippedResult == Result("skipped", FALSE)
IsOk(r) == r.status \in {"ok", "changed"}
IsFailed(r) == r.status = "failed"

(* Results a module hands back. *)
ModuleResults == {OkResult, Result("changed", TRUE), Result("ok", TRUE),
                  Result("failed", FALSE), Result("failed", TRUE), SkippedResult}

Item(i) == [item |-> i]
FactValue == [fact |-> TRUE]

(* VariableResolver::merged: a fact of the host hides a registered variable. *)
Merged(reg) == [n \in Names |-> IF n \in facts THEN FactValue ELSE reg[n]]

(* render_when and evaluate_bool: a condition that cannot be rendered falls  *)
(* back to its own text, which is a non-empty text and so true.  What an     *)
(* attribute of something that is no result renders to is the engine's.      *)
Holds(c, v) ==
  CASE c = "true"   -> {TRUE}
    [] c = "false"  -> {FALSE}
    [] c = "raises" -> {TRUE}
    [] c = "r.failed" -> IF v["r"] # Absent /\ "status" \in DOMAIN v["r"]
                         THEN {IsFailed(v["r"])} ELSE BOOLEAN

(* run_single after the module has returned m: changed_when, then            *)
(* failed_when, then ignore_errors.                                          *)
Overridden(m, t, cw, fw) ==
  LET c == IF t.changedWhen = "none" THEN m
           ELSE IF cw THEN Result(IF IsOk(m) THEN "changed" ELSE m.status, TRUE)
                      ELSE OkResult
      f == IF t.failedWhen # "none" /\ fw THEN [c EXCEPT !.status = "failed"] ELSE c
  IN IF IsFailed(f) /\ t.ignoreErrors THEN [f EXCEPT !.status = "ok"] ELSE f

Values(c, v) == IF c = "none" THEN {FALSE} ELSE Holds(c, v)

(* The results run_single can turn m into with the variables v. *)
Singles(m, t, v) ==
  {Overridden(m, t, cw, fw) : cw \in Values(t.changedWhen, v),
                              fw \in Values(t.failedWhen, v)}

(* A call of the module: the variables it and the overrides were given, what *)
(* it returned, and what run_single made of that.                            *)
Call(v, m, r) == [saw |-> v, module |-> m, result |-> r]

-----------------------------------------------------------------------------
Init ==
  /\ pc = "idle"
  /\ task = CHOOSE t \in Tasks : TRUE
  /\ facts \in Facts
  /\ regs = [n \in Names |-> Absent]
  /\ snap = Merged(regs)
  /\ next = 0
  /\ last = OkResult
  /\ calls = <<>>
  /\ ret = OkResult
  /\ runs = 0

Begin(t) ==
  /\ pc = "idle"
  /\ runs < MaxRuns
  /\ runs' = runs + 1
  /\ task' = t
  /\ snap' = Merged(regs)
  /\ calls' = <<>>

(* A condition of `when` is false: skipped, and nothing is registered. *)
Skip(t) ==
  /\ Begin(t)
  /\ \E i \in DOMAIN t.when : FALSE \in Holds(t.when[i], Merged(regs))
  /\ ret' = SkippedResult
  /\ UNCHANGED <<pc, facts, regs, next, last>>

(* Every condition holds. *)
Start(t) ==
  /\ Begin(t)
  /\ \A i \in DOMAIN t.when : TRUE \in Holds(t.when[i], Merged(regs))
  /\ pc' = IF t.loops THEN "loop" ELSE "single"
  /\ next' = 0
  /\ last' = OkResult
  /\ UNCHANGED <<facts, regs, ret>>

(* Mutant: the module's own result is registered, before the overrides. *)
RunSingleRegistersRaw ==
  /\ pc = "single"
  /\ \E m \in ModuleResults : \E r \in Singles(m, task, snap) :
       /\ calls' = Append(calls, Call(snap, m, r))
       /\ ret' = r
       /\ regs' = IF task.register = "none" THEN regs
                  ELSE [regs EXCEPT ![task.register] = m]
  /\ pc' = "idle"
  /\ UNCHANGED <<task, facts, snap, next, last, runs>>

(* run_single and post_task of a task without a loop. *)
RunSingle ==
  /\ pc = "single"
  /\ \E m \in ModuleResults : \E r \in Singles(m, task, snap) :
       /\ calls' = Append(calls, Call(snap, m, r))
       /\ ret' = r
       /\ regs' = IF task.register = "none" THEN regs
                  ELSE [regs EXCEPT ![task.register] = r]
  /\ pc' = "idle"
  /\ UNCHANGED <<task, facts, snap, next, last, runs>>

(* Mutant: the loop makes one turn too many. *)
LoopTurnOneMore ==
  /\ pc = "loop"
  /\ next <= task.items
  /\ regs' = [regs EXCEPT !["item"] = Item(next + 1)]
  /\ snap' = Merged(regs')
  /\ next' = next + 1
  /\ \E m \in ModuleResults : \E r \in Singles(m, task, snap') :
       /\ calls' = Append(calls, Call(snap', m, r))
       /\ IF IsFailed(r) /\ ~task.ignoreErrors
          THEN pc' = "idle" /\ ret' = r /\ UNCHANGED last
          ELSE last' = r /\ UNCHANGED <<pc, ret>>
  /\ UNCHANGED <<task, facts, runs>>

(* Mutant: a failure does not end the loop, and later turns cover it up. *)
LoopTurnGoesOn ==
  /\ pc = "loop"
  /\ next < task.items
  /\ regs' = [regs EXCEPT !["item"] = Item(next + 1)]
  /\ snap' = Merged(regs')
  /\ next' = next + 1
  /\ \E m \in ModuleResults : \E r \in Singles(m, task, snap') :
       /\ calls' = Append(calls, Call(snap', m, r))
       /\ last' = r
  /\ UNCHANGED <<pc, task, facts, ret, runs>>

(* One turn of the loop; a failure that is not ignored returns from inside   *)
(* it.  ignore_errors has been applied by run_single already.                *)
LoopTurn ==
  /\ pc = "loop"
  /\ next < task.items
  /\ regs' = [regs EXCEPT !["item"] = Item(next + 1)]
  /\ snap' = Merged(regs')
  /\ next' = next + 1
  /\ \E m \in ModuleResults : \E r \in Singles(m, task, snap') :
       /\ calls' = Append(calls, Call(snap', m, r))
       /\ IF IsFailed(r) /\ ~task.ignoreErrors
          THEN pc' = "idle" /\ ret' = r /\ UNCHANGED last
          ELSE last' = r /\ UNCHANGED <<pc, ret>>
  /\ UNCHANGED <<task, facts, runs>>

(* Mutant: the loop variable is not cleaned up. *)
LoopEndKeepsItem ==
  /\ pc = "loop" /\ next = task.items
  /\ ret' = last
  /\ pc' = "idle"
  /\ UNCHANGED <<task, facts, regs, snap, next, last, calls, runs>>

(* "Clean up loop variable", and return the result of the last turn. *)
LoopEnd ==
  /\ pc = "loop"
  /\ next = task.items
  /\ regs' = [regs EXCEPT !["item"] = Absent]
  /\ ret' = last
  /\ pc' = "idle"
  /\ UNCHANGED <<task, facts, snap, next, last, calls, runs>>

(* build_module_args or the module returned Err, in a loop after the loop    *)
(* variable of the turn was injected.                                        *)
InvokeErr ==
  /\ \/ pc = "single" /\ UNCHANGED regs
     \/ pc = "loop" /\ next < task.items
        /\ regs' = [regs EXCEPT !["item"] = Item(next + 1)]
  /\ pc' = "err"
  /\ UNCHANGED <<task, facts, snap, next, last, calls, ret, runs>>

Next ==
  \/ \E t \in Tasks : Skip(t) \/ Start(t)
  \/ RunSingle
  \/ LoopTurn
  \/ LoopEnd
  \/ InvokeErr

Spec == Init /\ [][Next]_vars

-----------------------------------------------------------------------------
Results == [status : {"ok", "changed", "failed", "skipped"}, changed : BOOLEAN]
RegValues ==
  Results \union {Item(i) : i \in UNION {1..t.items : t \in Tasks}} \union {Absent}

Variables == [Names -> RegValues \union {FactValue}]
Calls == [saw : Variables, module : Results, result : Results]

(* Every variable keeps its type. *)
TypeOK ==
  /\ pc \in {"idle", "single", "loop", "err"}
  /\ task \in Tasks
  /\ facts \in Facts
  /\ regs \in [Names -> RegValues]
  /\ snap \in Variables
  /\ next \in Nat
  /\ {last, ret} \subseteq Results
  /\ calls \in Seq(Calls)
  /\ runs \in 0..MaxRuns

Ended == pc = "idle" /\ calls # <<>>

(* What the overrides may do to a call: lose a failure of the module to      *)
(* ignore_errors or to a changed_when that is false, and fail it by a        *)
(* failed_when that can hold of the variables merged before the call.        *)
Settled(c) ==
  /\ IsFailed(c.module) /\ ~IsFailed(c.result) =>
       task.ignoreErrors \/ (task.changedWhen # "none" /\ ~c.result.changed)
  /\ IsFailed(c.result) =>
       /\ ~task.ignoreErrors
       /\ \/ IsFailed(c.module)
          \/ task.failedWhen # "none" /\ TRUE \in Holds(task.failedWhen, c.saw)

(* No failure is lost but where the task says so, and none is invented, at   *)
(* whatever turn of a loop: a call that counts as failed is the last one of  *)
(* its task, and run() returns what its last call came to.                   *)
FailureReported ==
  Ended =>
    /\ \A i \in DOMAIN calls :
         Settled(calls[i]) /\ (IsFailed(calls[i].result) => i = Len(calls))
    /\ ret = calls[Len(calls)].result

(* A loop that does not report a failure has called the module once for each *)
(* item, in order, and each call saw its own item -- unless a fact of that   *)
(* name hides the loop variable; and it leaves no loop variable behind.      *)
LoopCoversItems ==
  Ended /\ task.loops =>
    /\ ~IsFailed(ret) => Len(calls) = task.items /\ regs["item"] = Absent
    /\ "item" \notin facts => \A i \in DOMAIN calls : calls[i].saw["item"] = Item(i)

(* A registered variable changes only when a task that registers it has run  *)
(* its module, and then holds the very result run() returns, overrides       *)
(* included; skipped tasks and loops leave the old value standing.           *)
RegisterHoldsResult ==
  [][regs'["r"] # regs["r"] =>
       /\ pc = "single" /\ pc' = "idle"
       /\ task.register = "r"
       /\ regs'["r"] = ret']_vars
=============================================================================
