----------------------------- MODULE BlockWalk ------------------------------
(* How one host walks a task list with nested block/rescue/always sections.  *)
(* The executor has two walkers for it:                                      *)
(*   play      PlayExecutor::run_task_list and run_block (play.rs), used     *)
(*             when a play has one host                                      *)
(*   strategy  the host loops of strategy.rs with execute_block_single_host, *)
(*             used when it has several                                      *)
(* The recursion of the code is an explicit stack of frames, one per list    *)
(* being walked; what the task executor returns is chosen freely.            *)
EXTENDS Naturals, Sequences

CONSTANTS Lists,   \* task lists to walk; a node is a task or a block record
          Walkers  \* subset of {"play", "strategy"}

ASSUME WalkersAssumption == Walkers \subseteq {"play", "strategy"}

VARIABLES walker, \* which of the two walkers runs
          list,   \* the list it was given
          stack,  \* frames, innermost last
          failed, \* HostState.failed
          status, \* "run", then "done" or "err"
          log     \* the results, and the blocks entered, in order, each with
                  \* the frames around it

vars == <<walker, list, stack, failed, status, log>>

(* All that a walk looks at in a task's result is status.is_failed().        *)
(* changed_count and ok_count are not modelled here: the walkers write them  *)
(* and nothing reads them.                                                   *)
Outcomes == {"passed", "failed"}

IsBlock(n) == n.kind = "block"

(* A list being walked: the section it is, the nodes left, the block and the *)
(* entry of the log that entered it (0 for the whole list), block_failed of  *)
(* the strategies, and the failed flag put aside before always.              *)
Frame(sec, todo, blk, since) ==
  [sec |-> sec, todo |-> todo, blk |-> blk, since |-> since,
   blockFailed |-> FALSE, saved |-> FALSE]

Init ==
  /\ walker \in Walkers
  /\ list \in Lists
  /\ stack = <<Frame("top", list, [kind |-> "none"], 0)>>
  /\ failed = FALSE
  /\ status = "run"
  /\ log = <<>>

Top == stack[Len(stack)]
Rest == SubSeq(stack, 1, Len(stack) - 1)
WithTop(f) == Rest \o <<f>>

(* Mutant: rescue and always are never left early, under either walker. *)
BreaksInBlockOnly(f) == failed /\ f.sec \in {"top", "block"}

(* run_task_list breaks on an inactive host in every section;                *)
(* execute_block_single_host does not look in rescue and always.             *)
Breaks(f) == failed /\ (walker = "play" \/ f.sec \in {"top", "block"})
HasNode == status = "run" /\ Top.todo # <<>> /\ ~Breaks(Top)

Entry(out) == [node |-> Head(Top.todo), out |-> out, at |-> stack]

(* In its rescue and always sections the strategy walker records the result  *)
(* of a task and does not look at its status.                                *)
Notices(sec) == walker = "play" \/ sec \in {"top", "block"}

RunTask ==
  /\ HasNode
  /\ ~IsBlock(Head(Top.todo))
  /\ \E o \in Outcomes :
       LET fails == o = "failed" /\ Notices(Top.sec)
       IN /\ log' = Append(log, Entry(o))
          /\ failed' = (failed \/ fails)
          /\ stack' = WithTop([Top EXCEPT !.todo = Tail(@),
                                          !.blockFailed = @ \/ fails])
  /\ UNCHANGED <<walker, list, status>>

(* `?` on executor.run unwinds the whole walk: no always section runs. *)
TaskErr ==
  /\ HasNode
  /\ ~IsBlock(Head(Top.todo))
  /\ status' = "err"
  /\ UNCHANGED <<walker, list, stack, failed, log>>

EnterBlock ==
  /\ HasNode
  /\ IsBlock(Head(Top.todo))
  /\ LET b == Head(Top.todo)
     IN /\ stack' = WithTop([Top EXCEPT !.todo = Tail(@)])
                      \o <<Frame("block", b.block, b, Len(log) + 1)>>
        /\ log' = Append(log, Entry("entered"))
  /\ UNCHANGED <<walker, list, failed, status>>

-----------------------------------------------------------------------------
(* The end of a section. *)

SectionOver == status = "run" /\ (Top.todo = <<>> \/ Breaks(Top))

(* Play reads the host's failed flag, the strategies a flag of the block. *)
MainFailed == IF walker = "play" THEN failed ELSE Top.blockFailed
GoesToRescue == Top.sec = "block" /\ MainFailed /\ Top.blk.rescue # <<>>
(* Mutant: a failed block skips its always section. *)
GoesToAlwaysIfPassed ==
  ~GoesToRescue /\ Top.sec # "always" /\ Top.blk.always # <<>> /\ ~failed

GoesToAlways == ~GoesToRescue /\ Top.sec # "always" /\ Top.blk.always # <<>>

StartRescue ==
  /\ SectionOver /\ Top.sec # "top"
  /\ GoesToRescue
  /\ failed' = FALSE
  /\ stack' = WithTop([Top EXCEPT !.sec = "rescue", !.todo = Top.blk.rescue])
  /\ UNCHANGED <<walker, list, status, log>>

StartAlways ==
  /\ SectionOver /\ Top.sec # "top"
  /\ GoesToAlways
  /\ failed' = FALSE
  /\ stack' = WithTop([Top EXCEPT !.sec = "always", !.todo = Top.blk.always,
                                  !.saved = failed])
  /\ UNCHANGED <<walker, list, status, log>>

(* Mutant: the failed flag of before always is not restored. *)
LeaveBlockForgets ==
  /\ SectionOver /\ Top.sec # "top"
  /\ ~GoesToRescue /\ ~GoesToAlways
  /\ LET outer == Rest[Len(Rest)]
         f == IF outer.sec = "block" THEN [outer EXCEPT !.blockFailed = failed]
                                     ELSE outer
     IN stack' = [Rest EXCEPT ![Len(Rest)] = f]
  /\ UNCHANGED <<walker, list, failed, status, log>>

(* Mutant: leaving a block returns from the enclosing list as well. *)
LeaveBlockTwice ==
  /\ SectionOver /\ Top.sec # "top"
  /\ ~GoesToRescue /\ ~GoesToAlways
  /\ stack' = SubSeq(stack, 1, Len(stack) - 2)
  /\ UNCHANGED <<walker, list, failed, status, log>>

(* After always the failed flag of before is restored unless always failed.  *)
(* A strategy block whose inner block returns takes over the host's flag.    *)
LeaveBlock ==
  /\ SectionOver /\ Top.sec # "top"
  /\ ~GoesToRescue /\ ~GoesToAlways
  /\ failed' = IF Top.sec = "always" THEN failed \/ Top.saved ELSE failed
  /\ LET outer == Rest[Len(Rest)]
         f == IF outer.sec = "block" THEN [outer EXCEPT !.blockFailed = failed']
                                     ELSE outer
     IN stack' = [Rest EXCEPT ![Len(Rest)] = f]
  /\ UNCHANGED <<walker, list, status, log>>

(* Mutant: a list that was left early is not finished. *)
FinishIfEmpty ==
  /\ SectionOver /\ Top.sec = "top" /\ Top.todo = <<>>
  /\ status' = "done"
  /\ UNCHANGED <<walker, list, stack, failed, log>>

Finish ==
  /\ SectionOver /\ Top.sec = "top"
  /\ status' = "done"
  /\ UNCHANGED <<walker, list, stack, failed, log>>

Next ==
  \/ RunTask
  \/ TaskErr
  \/ EnterBlock
  \/ StartRescue
  \/ StartAlways
  \/ LeaveBlock
  \/ Finish

Spec == Init /\ [][Next]_vars
FairSpec == Spec /\ WF_vars(Next)

-----------------------------------------------------------------------------
(* Every variable keeps its type, and the stack is a list with blocks in it. *)
TypeOK ==
  /\ walker \in Walkers
  /\ list \in Lists
  /\ failed \in BOOLEAN
  /\ status \in {"run", "done", "err"}
  /\ Len(stack) > 0
  /\ \A i \in 1..Len(stack) :
       /\ stack[i].sec \in {"top", "block", "rescue", "always"}
       /\ stack[i].sec = "top" <=> i = 1
       /\ stack[i].since \in 0..Len(log)
       /\ stack[i].blockFailed \in BOOLEAN
       /\ stack[i].saved \in BOOLEAN
  /\ \A i \in 1..Len(log) : log[i].out \in Outcomes \union {"entered"}

-----------------------------------------------------------------------------
(* What the log says of failures.  A frame rescues what fails in its block   *)
(* section; a failure counts unless the walker does not look at it.          *)
Within(e) == e.at[Len(e.at)]
Rescues(f) == f.sec = "block" /\ f.blk.rescue # <<>>
Counts(e) == e.out = "failed" /\ Notices(Within(e).sec)

(* Entry i is a failure in the section `sec` of the frame begun at `since`,  *)
(* and nothing inside that section rescues it.                               *)
Escapes(i, since, sec) ==
  /\ Counts(log[i])
  /\ \E p \in 1..Len(log[i].at) :
       log[i].at[p].since = since /\ log[i].at[p].sec = sec
  /\ \A p \in 1..Len(log[i].at) :
       log[i].at[p].since > since => ~Rescues(log[i].at[p])
Fails(since, sec) == \E i \in 1..Len(log) : Escapes(i, since, sec)

(* A host is left failed exactly when a failure was not rescued: rescue,     *)
(* always, the saved flag and nested blocks lose no failure and invent none, *)
(* except that the strategy walker forgives the tasks of rescue and always.  *)
FailedFlagExact == status = "done" => (failed <=> Fails(0, "top"))

(* "Always block runs regardless": under both walkers every block that was   *)
(* entered goes on to the first node of its always section, unless a task    *)
(* returned Err.                                                             *)
AlwaysRuns ==
  status = "done" =>
    \A i \in 1..Len(log) :
      log[i].out = "entered" /\ log[i].node.always # <<>> =>
        \E j \in i + 1..Len(log) :
          /\ Within(log[j]).since = i /\ Within(log[j]).sec = "always"
          /\ log[j].node = Head(log[i].node.always)

-----------------------------------------------------------------------------
(* What the log says of the order of a walk: the sections the entries were   *)
(* made in, and what was left of their lists then.                           *)
InSection(i, since, sec) ==
  Within(log[i]).since = since /\ Within(log[i]).sec = sec
SameSection(i, j) == InSection(i, Within(log[j]).since, Within(log[j]).sec)
Runs(since, sec) == \E i \in 1..Len(log) : InSection(i, since, sec)
Left(i) == Within(log[i]).todo
Contents(since, sec) ==
  CASE sec = "top" -> list
    [] sec = "block" -> log[since].node.block
    [] sec = "rescue" -> log[since].node.rescue
    [] OTHER -> log[since].node.always

(* A task failed, or a block that no rescue section of its own has saved. *)
NodeFailed(i) ==
  IF log[i].out = "entered"
  THEN \/ Fails(i, "block") /\ log[i].node.rescue = <<>>
       \/ Fails(i, "rescue")
       \/ Fails(i, "always")
  ELSE log[i].out = "failed"

(* A section begins at the head of its list, goes on to the next node after  *)
(* one that has not failed, and ends with its list or at a failure.          *)
StartsRight(j) ==
  (\A i \in 1..j - 1 : ~SameSection(i, j)) =>
    Left(j) = Contents(Within(log[j]).since, Within(log[j]).sec)
GoesOnRight(i, j) ==
  SameSection(i, j) /\ (\A h \in i + 1..j - 1 : ~SameSection(h, j)) =>
    ~NodeFailed(i) /\ Left(j) = Tail(Left(i))
EndsRight(i) ==
  (\A j \in i + 1..Len(log) : ~SameSection(j, i)) =>
    NodeFailed(i) \/ Tail(Left(i)) = <<>>

(* run_block runs exactly the nodes that block/rescue/always call for: each  *)
(* list up to its first failure, rescue only after a failure, and always.    *)
PlayRunsAsWritten ==
  status = "done" /\ walker = "play" =>
    /\ \A j \in 1..Len(log) :
         /\ StartsRight(j) /\ EndsRight(j)
         /\ \A i \in 1..j - 1 : GoesOnRight(i, j)
    /\ list # <<>> => Runs(0, "top")
    /\ \A i \in 1..Len(log) :
         log[i].out = "entered" =>
           LET b == log[i].node
           IN /\ b.block # <<>> => Runs(i, "block")
              /\ Runs(i, "rescue") <=> Fails(i, "block") /\ b.rescue # <<>>
              /\ b.always # <<>> => Runs(i, "always")

(* The walk ends, with Ok or with the Err of a task. *)
WalkEnds == <>(status # "run")
=============================================================================
