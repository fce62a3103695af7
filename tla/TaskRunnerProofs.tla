-------------------------- MODULE TaskRunnerProofs --------------------------
(* Proofs about TaskRunner, for every set of tasks with any conditions and   *)
(* loops of any length, and every number of runs.                            *)
EXTENDS TaskRunner, TLAPS

(* What is true in the middle of a task: a loop has called its module once   *)
(* for each item so far, none of the calls counts as failed, and last is     *)
(* what the last of them came to; a task without a loop has called nothing.  *)
LoopInv ==
  pc = "loop" =>
    /\ task.loops
    /\ next <= task.items
    /\ Len(calls) = next
    /\ "item" \notin facts => \A i \in DOMAIN calls : calls[i].saw["item"] = Item(i)
    /\ \A i \in DOMAIN calls : Settled(calls[i]) /\ ~IsFailed(calls[i].result)
    /\ IF next = 0 THEN ~IsFailed(last) ELSE last = calls[next].result
SingleInv == pc = "single" => ~task.loops /\ calls = <<>>

IInv == TypeOK /\ LoopInv /\ SingleInv /\ FailureReported /\ LoopCoversItems

-----------------------------------------------------------------------------
LEMMA TaskType ==
  ASSUME NEW t \in Tasks
  PROVE  /\ t.loops \in BOOLEAN /\ t.items \in Nat /\ t.ignoreErrors \in BOOLEAN
         /\ t.register \in Names \union {"none"}
  BY TaskRunnerAssumption

LEMMA ModuleResultType == ModuleResults \subseteq Results
  BY DEF ModuleResults, Results, Result, OkResult, SkippedResult

(* What the overrides make of a result is a result, and settled.             *)
LEMMA OverridesSettle ==
  ASSUME NEW m \in Results, task \in Tasks, NEW v \in Variables,
         NEW r \in Singles(m, task, v)
  PROVE  Call(v, m, r) \in Calls /\ r \in Results /\ Settled(Call(v, m, r))
<1> DEFINE t == task
<1>1. PICK cw \in Values(t.changedWhen, v), fw \in Values(t.failedWhen, v) :
        r = Overridden(m, t, cw, fw)
  BY DEF Singles
<1> DEFINE c == IF t.changedWhen = "none" THEN m
                ELSE IF cw THEN Result(IF IsOk(m) THEN "changed" ELSE m.status, TRUE)
                           ELSE OkResult
           f == IF t.failedWhen # "none" /\ fw THEN [c EXCEPT !.status = "failed"] ELSE c
<1>2. r = IF IsFailed(f) /\ t.ignoreErrors THEN [f EXCEPT !.status = "ok"] ELSE f
  BY <1>1 DEF Overridden
<1>3. /\ c \in Results
      /\ IsFailed(m) => IsFailed(c) \/ (t.changedWhen # "none" /\ ~c.changed)
      /\ IsFailed(c) => IsFailed(m)
  BY DEF Results, Result, OkResult, IsFailed, IsOk
<1>w. t.failedWhen # "none" /\ fw => TRUE \in Holds(t.failedWhen, v)
  <2> SUFFICES ASSUME t.failedWhen # "none", fw PROVE TRUE \in Holds(t.failedWhen, v)
    OBVIOUS
  <2>1. fw \in Holds(t.failedWhen, v)
    BY DEF Values
  <2>2. Holds(t.failedWhen, v) \subseteq BOOLEAN
    <3>1. t.failedWhen \in Conds
      BY TaskRunnerAssumption
    <3>2. IsFailed(v["r"]) \in BOOLEAN
      BY DEF IsFailed
    <3> QED
      BY <3>1, <3>2, Zenon DEF Holds, Conds
  <2>3. fw = TRUE
    BY <2>1, <2>2
  <2> QED
    BY <2>1, <2>3
<1> HIDE DEF c
<1>4. /\ f \in Results /\ f.changed = c.changed
      /\ IsFailed(c) => IsFailed(f)
      /\ IsFailed(f) => IsFailed(c) \/ (t.failedWhen # "none" /\ TRUE \in Holds(t.failedWhen, v))
  BY <1>3, <1>w DEF Results, IsFailed
<1> HIDE DEF f
<1>5. /\ r \in Results /\ r.changed = f.changed
      /\ IsFailed(r) => ~t.ignoreErrors /\ IsFailed(f)
      /\ ~t.ignoreErrors => r = f
  BY <1>2, <1>4, TaskType DEF Results, IsFailed
<1>6. /\ IsFailed(m) /\ ~IsFailed(r) => t.ignoreErrors \/ (t.changedWhen # "none" /\ ~r.changed)
      /\ IsFailed(r) => /\ ~t.ignoreErrors
                       /\ (IsFailed(m) \/ (t.failedWhen # "none" /\ TRUE \in Holds(t.failedWhen, v)))
  BY <1>3, <1>4, <1>5
<1>7. Call(v, m, r) \in Calls
  BY <1>5 DEF Call, Calls
<1>8. Call(v, m, r).saw = v /\ Call(v, m, r).module = m /\ Call(v, m, r).result = r
  BY DEF Call
<1> QED
  BY <1>5, <1>6, <1>7, <1>8 DEF Settled

(* The merged variables are values, and the loop variable shows through      *)
(* unless a fact hides it.                                                   *)
LEMMA MergedType ==
  ASSUME NEW reg \in [Names -> RegValues]
  PROVE  /\ Merged(reg) \in Variables
         /\ "item" \notin facts => Merged(reg)["item"] = reg["item"]
  BY DEF Merged, Names, Variables

-----------------------------------------------------------------------------
(* The initial states satisfy the invariant. *)
LEMMA InitIInv == Init => IInv
<1> SUFFICES ASSUME Init PROVE IInv
  OBVIOUS
<1>1. regs \in [Names -> RegValues]
  BY DEF Init, RegValues
<1>2. snap \in Variables
  BY <1>1, MergedType DEF Init
<1>3. OkResult \in Results
  BY DEF OkResult, Result, Results
<1>4. task \in Tasks
  BY TaskRunnerAssumption DEF Init
<1>5. TypeOK
  BY <1>1, <1>2, <1>3, <1>4, TaskRunnerAssumption DEF Init, TypeOK
<1>6. LoopInv /\ SingleInv /\ FailureReported /\ LoopCoversItems
  BY DEF Init, LoopInv, SingleInv, FailureReported, LoopCoversItems, Ended
<1> QED
  BY <1>5, <1>6 DEF IInv

(* A skipped task calls nothing, a started one has called nothing yet.       *)
LEMMA BeginStep == \A t \in Tasks : IInv /\ (Skip(t) \/ Start(t)) => IInv'
<1> SUFFICES ASSUME NEW t \in Tasks, IInv, Skip(t) \/ Start(t) PROVE IInv'
  OBVIOUS
<1>1. /\ Begin(t) /\ UNCHANGED <<facts, regs>>
      /\ pc' = pc \/ pc' = (IF t.loops THEN "loop" ELSE "single")
      /\ pc' = "loop" => next' = 0 /\ last' = OkResult /\ t.loops
      /\ pc' = "single" => ~t.loops
      /\ next' \in {next, 0} /\ last' \in {last, OkResult}
      /\ ret' \in {ret, SkippedResult}
  BY TaskType DEF Skip, Start, Begin
<1>2. /\ pc = "idle" /\ runs < MaxRuns /\ runs' = runs + 1
      /\ task' = t /\ snap' = Merged(regs) /\ calls' = <<>>
  BY <1>1 DEF Begin
<1>3. OkResult \in Results /\ SkippedResult \in Results /\ ~IsFailed(OkResult)
  BY DEF OkResult, SkippedResult, Result, Results, IsFailed
<1>4. TypeOK'
  <2>1. snap' \in Variables
    BY <1>2, MergedType DEF IInv, TypeOK
  <2>2. runs' \in 0..MaxRuns
    BY <1>2, TaskRunnerAssumption DEF IInv, TypeOK
  <2>3. {last', ret'} \subseteq Results
    BY <1>1, <1>2, <1>3 DEF IInv, TypeOK
  <2> QED
    BY <1>1, <1>2, <2>1, <2>2, <2>3 DEF IInv, TypeOK
<1>5. LoopInv'
  BY <1>1, <1>2, <1>3, TaskType DEF LoopInv
<1>6. SingleInv' /\ FailureReported' /\ LoopCoversItems'
  BY <1>1, <1>2 DEF SingleInv, FailureReported, LoopCoversItems, Ended
<1> QED
  BY <1>4, <1>5, <1>6 DEF IInv

(* A task without a loop returns what the overrides make of its module.      *)
LEMMA RunSingleStep == IInv /\ RunSingle => IInv'
<1> SUFFICES ASSUME IInv, RunSingle PROVE IInv'
  OBVIOUS
<1>m. PICK m \in ModuleResults : \E r \in Singles(m, task, snap) :
        /\ calls' = Append(calls, Call(snap, m, r)) /\ ret' = r
        /\ regs' = IF task.register = "none" THEN regs
                   ELSE [regs EXCEPT ![task.register] = r]
  BY DEF RunSingle
<1>1. PICK r \in Singles(m, task, snap) :
        /\ calls' = Append(calls, Call(snap, m, r)) /\ ret' = r
        /\ regs' = IF task.register = "none" THEN regs
                   ELSE [regs EXCEPT ![task.register] = r]
  BY <1>m
<1>2. /\ pc = "single" /\ pc' = "idle"
      /\ UNCHANGED <<task, facts, snap, next, last, runs>>
  BY DEF RunSingle
<1>3. PICK c : c = Call(snap, m, r)
  OBVIOUS
<1>4. c \in Calls /\ r \in Results /\ Settled(c) /\ c.result = r /\ task \in Tasks
  <2>1. m \in Results /\ task \in Tasks /\ snap \in Variables
    BY ModuleResultType DEF IInv, TypeOK
  <2>2. Call(snap, m, r) \in Calls /\ r \in Results /\ Settled(Call(snap, m, r))
    BY <2>1, OverridesSettle
  <2> QED
    BY <1>3, <2>1, <2>2 DEF Call
<1>5. calls' \in Seq(Calls) /\ Len(calls') = 1 /\ DOMAIN calls' = 1..1 /\ calls'[1] = c
  <2>1. calls = <<>>
    BY <1>2 DEF IInv, SingleInv
  <2> QED
    BY <1>1, <1>3, <1>4, <2>1
<1>6. TypeOK'
  <2>1. regs' \in [Names -> RegValues]
    BY <1>1, <1>4, TaskType DEF IInv, TypeOK, RegValues
  <2> QED
    BY <1>1, <1>2, <1>4, <1>5, <2>1 DEF IInv, TypeOK
<1>7. LoopInv' /\ SingleInv' /\ LoopCoversItems'
  BY <1>2 DEF IInv, LoopInv, SingleInv, LoopCoversItems, Ended
<1>8. FailureReported'
  <2>1. Settled(c)'
    BY <1>2, <1>4 DEF Settled
  <2> QED
    BY <1>1, <1>4, <1>5, <2>1 DEF FailureReported
<1> QED
  BY <1>6, <1>7, <1>8 DEF IInv

(* A turn of the loop goes on, or returns the failure it came to.            *)
LEMMA LoopTurnStep == IInv /\ LoopTurn => IInv'
<1> SUFFICES ASSUME IInv, LoopTurn PROVE IInv'
  OBVIOUS
<1>m. PICK m \in ModuleResults : \E r \in Singles(m, task, snap') :
        /\ calls' = Append(calls, Call(snap', m, r))
        /\ IF IsFailed(r) /\ ~task.ignoreErrors
           THEN pc' = "idle" /\ ret' = r /\ UNCHANGED last
           ELSE last' = r /\ UNCHANGED <<pc, ret>>
  BY DEF LoopTurn
<1>1. PICK r \in Singles(m, task, snap') :
        /\ calls' = Append(calls, Call(snap', m, r))
        /\ IF IsFailed(r) /\ ~task.ignoreErrors
           THEN pc' = "idle" /\ ret' = r /\ UNCHANGED last
           ELSE last' = r /\ UNCHANGED <<pc, ret>>
  BY <1>m
<1>2. /\ pc = "loop" /\ next < task.items /\ next' = next + 1
      /\ regs' = [regs EXCEPT !["item"] = Item(next + 1)]
      /\ snap' = Merged(regs')
      /\ UNCHANGED <<task, facts, runs>>
  BY DEF LoopTurn
<1>3. m \in Results /\ task \in Tasks /\ next \in Nat /\ task.items \in Nat
  BY ModuleResultType, TaskType DEF IInv, TypeOK
<1>4. regs' \in [Names -> RegValues]
  <2>1. Item(next + 1) \in RegValues
    BY <1>2, <1>3 DEF RegValues
  <2> QED
    BY <1>2, <2>1 DEF IInv, TypeOK
<1>5. PICK v \in Variables :
        v = snap' /\ ("item" \notin facts => v["item"] = Item(next + 1))
  BY <1>2, <1>4, MergedType DEF IInv, TypeOK, Names
<1>6. PICK c : c = Call(v, m, r)
  OBVIOUS
<1>7. /\ c \in Calls /\ r \in Results /\ Settled(c)
      /\ c.result = r /\ c.saw = v
      /\ IsFailed(r) => ~task.ignoreErrors
  <2>1. Call(v, m, r) \in Calls /\ r \in Results /\ Settled(Call(v, m, r))
    BY <1>3, <1>5, OverridesSettle
  <2> QED
    BY <1>6, <2>1 DEF Call, Settled
<1>8. calls \in Seq(Calls) /\ Len(calls) = next
  BY <1>2 DEF IInv, TypeOK, LoopInv
<1>9. /\ calls' \in Seq(Calls) /\ Len(calls') = next + 1 /\ DOMAIN calls' = 1..(next + 1)
      /\ calls'[next + 1] = c
      /\ DOMAIN calls = 1..next /\ \A i \in 1..next : calls'[i] = calls[i]
  BY <1>1, <1>3, <1>5, <1>6, <1>7, <1>8
<1>10. "item" \notin facts => \A i \in DOMAIN calls' : calls'[i].saw["item"] = Item(i)
  <2> SUFFICES ASSUME "item" \notin facts, NEW i \in 1..(next + 1)
               PROVE  calls'[i].saw["item"] = Item(i)
    BY <1>9
  <2>1. CASE i = next + 1
    BY <1>5, <1>7, <1>9, <2>1
  <2>2. CASE i # next + 1
    <3>1. i \in 1..next
      BY <1>3, <2>2
    <3>2. calls[i].saw["item"] = Item(i)
      BY <1>2, <1>9, <3>1 DEF IInv, LoopInv
    <3> QED
      BY <1>9, <3>1, <3>2
  <2> QED
    BY <2>1, <2>2
<1>11. /\ \A i \in 1..(next + 1) : Settled(calls'[i])
       /\ \A i \in 1..next : ~IsFailed(calls'[i].result)
  BY <1>2, <1>7, <1>9 DEF IInv, LoopInv
<1>12. \A i \in DOMAIN calls' : Settled(calls[i])'
  BY <1>2, <1>9, <1>11 DEF Settled
<1>13. TypeOK'
  <2>1. {last', ret'} \subseteq Results /\ pc' \in {"idle", "loop"}
    BY <1>1, <1>2, <1>7 DEF IInv, TypeOK
  <2>2. next' \in Nat /\ task' \in Tasks /\ facts' \in Facts /\ runs' \in 0..MaxRuns
    BY <1>2, <1>3 DEF IInv, TypeOK
  <2> QED
    BY <1>4, <1>5, <1>9, <2>1, <2>2 DEF TypeOK
<1>14. LoopInv'
  <2> SUFFICES ASSUME pc' = "loop" PROVE LoopInv'
    BY DEF LoopInv
  <2>1. last' = r /\ ~IsFailed(r)
    BY <1>1, <1>7
  <2>2. task.loops /\ next + 1 <= task.items
    BY <1>2, <1>3 DEF IInv, LoopInv
  <2>3. \A i \in DOMAIN calls' : ~IsFailed(calls'[i].result)
    BY <1>3, <1>7, <1>9, <1>11, <2>1
  <2>4. next' # 0 /\ last' = calls'[next'].result
    BY <1>2, <1>3, <1>7, <1>9, <2>1
  <2>5. next' <= task'.items /\ Len(calls') = next' /\ task'.loops
    BY <1>2, <1>9, <2>2
  <2>6. "item" \notin facts' => \A i \in DOMAIN calls' : calls'[i].saw["item"] = Item(i)
    BY <1>2, <1>10
  <2> QED
    BY <1>12, <2>3, <2>4, <2>5, <2>6, Zenon DEF LoopInv, IsFailed
<1>15. FailureReported' /\ SingleInv'
  <2>1. pc' = "idle" => ret' = r
    BY <1>1, <1>2
  <2>2. pc' = "idle" => ret' = calls'[Len(calls')].result
    BY <1>7, <1>9, <2>1
  <2>3. \A i \in DOMAIN calls' : IsFailed(calls'[i].result) => i = Len(calls')
    BY <1>3, <1>9, <1>11
  <2>4. pc' # "single"
    BY <1>1, <1>2
  <2> QED
    BY <1>12, <2>2, <2>3, <2>4 DEF FailureReported, SingleInv, Ended, IsFailed
<1>16. LoopCoversItems'
  <2>1. pc' = "idle" => IsFailed(ret')
    BY <1>1, <1>2
  <2> QED
    BY <1>2, <1>10, <2>1 DEF LoopCoversItems, Ended, IsFailed
<1> QED
  BY <1>13, <1>14, <1>15, <1>16 DEF IInv

(* The loop is over: every item had its turn and the variable is gone.       *)
LEMMA LoopEndStep == IInv /\ LoopEnd => IInv'
<1> SUFFICES ASSUME IInv, LoopEnd PROVE IInv'
  OBVIOUS
<1>1. /\ pc = "loop" /\ next = task.items /\ pc' = "idle" /\ ret' = last
      /\ regs' = [regs EXCEPT !["item"] = Absent]
      /\ UNCHANGED <<task, facts, snap, next, last, calls, runs>>
  BY DEF LoopEnd
<1>2. TypeOK'
  BY <1>1 DEF IInv, TypeOK, RegValues
<1>3. regs'["item"] = Absent
  BY <1>1 DEF IInv, TypeOK, Names
<1>4. LoopInv' /\ SingleInv' /\ LoopCoversItems'
  BY <1>1, <1>3 DEF IInv, LoopInv, SingleInv, LoopCoversItems, Ended
<1>5. FailureReported'
  <2>1. /\ calls \in Seq(Calls) /\ Len(calls) = next /\ next \in Nat
        /\ \A i \in DOMAIN calls : Settled(calls[i]) /\ ~IsFailed(calls[i].result)
        /\ next # 0 => last = calls[next].result
    BY <1>1 DEF IInv, TypeOK, LoopInv
  <2>2. \A i \in DOMAIN calls : Settled(calls[i])'
    BY <1>1, <2>1 DEF Settled
  <2>3. calls # <<>> => next # 0
    BY <2>1
  <2> QED
    BY <1>1, <2>1, <2>2, <2>3 DEF FailureReported, Ended
<1> QED
  BY <1>2, <1>4, <1>5 DEF IInv

LEMMA InvokeErrStep == IInv /\ InvokeErr => IInv'
<1> SUFFICES ASSUME IInv, InvokeErr PROVE IInv'
  OBVIOUS
<1>1. /\ pc' = "err"
      /\ regs' = regs \/ (next < task.items /\ regs' = [regs EXCEPT !["item"] = Item(next + 1)])
      /\ UNCHANGED <<task, facts, snap, next, last, calls, ret, runs>>
  BY DEF InvokeErr
<1>2. regs' \in [Names -> RegValues]
  <2>1. next < task.items => Item(next + 1) \in RegValues
    BY TaskType DEF IInv, TypeOK, RegValues
  <2> QED
    BY <1>1, <2>1 DEF IInv, TypeOK
<1> QED
  BY <1>1, <1>2 DEF IInv, TypeOK, Variables, LoopInv, SingleInv, FailureReported, LoopCoversItems, Ended

(* Every step keeps the invariant. *)
LEMMA StepIInv == IInv /\ [Next]_vars => IInv'
<1>1. IInv /\ UNCHANGED vars => IInv'
  BY DEF vars, IInv, TypeOK, LoopInv, SingleInv, FailureReported, LoopCoversItems, Ended, Settled
<1> QED
  BY <1>1, BeginStep, RunSingleStep, LoopTurnStep, LoopEndStep, InvokeErrStep DEF Next

-----------------------------------------------------------------------------
(* The invariant holds in every reachable state. *)
THEOREM Invariance == Spec => []IInv
  BY InitIInv, StepIInv, PTL DEF Spec

(* Every variable of the task executor keeps its type. *)
THEOREM TypeCorrect == Spec => []TypeOK
<1>1. IInv => TypeOK
  BY DEF IInv
<1> QED
  BY <1>1, Invariance, PTL

(* No failure is lost but to ignore_errors and a false changed_when, and     *)
(* none invented but by failed_when, at any turn of a loop (run_loop,        *)
(* run_single): the first failed call ends the task and is what run returns. *)
THEOREM FailuresReported == Spec => []FailureReported
<1>1. IInv => FailureReported
  BY DEF IInv
<1> QED
  BY <1>1, Invariance, PTL

(* A loop of any length calls its module for every item in order and leaves  *)
(* no loop variable behind.                                                  *)
THEOREM LoopsCoverItems == Spec => []LoopCoversItems
<1>1. IInv => LoopCoversItems
  BY DEF IInv
<1> QED
  BY <1>1, Invariance, PTL

(* A registered variable holds the very result run() returns; no loop and no *)
(* skipped task touches it.                                                  *)
THEOREM RegistersHoldResults == Spec => RegisterHoldsResult
<1> DEFINE Held == regs'["r"] # regs["r"] =>
                     /\ pc = "single" /\ pc' = "idle"
                     /\ task.register = "r"
                     /\ regs'["r"] = ret'
<1>1. ASSUME TypeOK, Next PROVE Held
  <2>1. regs \in [Names -> RegValues] /\ "r" \in Names /\ task.register \in Names \union {"none"}
    BY <1>1, TaskType DEF TypeOK, Names
  <2>2. CASE RunSingle
    <3>1. regs' = regs \/ regs' = [regs EXCEPT ![task.register] = ret']
      BY <2>2 DEF RunSingle
    <3> QED
      BY <2>1, <2>2, <3>1 DEF RunSingle
  <2>3. CASE \E t \in Tasks : Skip(t) \/ Start(t)
    BY <2>3 DEF Skip, Start
  <2>4. CASE LoopTurn \/ LoopEnd \/ InvokeErr
    BY <2>1, <2>4 DEF LoopTurn, LoopEnd, InvokeErr
  <2> QED
    BY <1>1, <2>2, <2>3, <2>4 DEF Next
<1>2. UNCHANGED vars => Held
  BY DEF vars
<1>3. TypeOK /\ [Next]_vars => [Held]_vars
  BY <1>1, <1>2
<1> QED
  BY <1>3, TypeCorrect, PTL DEF Spec, RegisterHoldsResult
=============================================================================
