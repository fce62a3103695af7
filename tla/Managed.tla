------------------------------ MODULE Managed ------------------------------
(* One machine, and the module invocations the threads of a fan-out run on   *)
(* it.  All hosts' modules run on the controller, so two hosts of one task   *)
(* are two invocations on the same machine, at the same time.                *)
(*                                                                           *)
(* `disk` is what the commands act on, `booted` what questions are answered  *)
(* from: the same, but for the staged modules, whose commands prepare the    *)
(* next boot.                                                                *)
EXTENDS Registry

CONSTANTS Threads, Pkgs, Orphan,
          Modules,      \* the modules a behaviour may be about
          Tasks(_),     \* the tasks of a module
          Cost(_),      \* what a call of a task takes of MaxCost
          MaxCost,      \* bound: on the calls of a behaviour
          Idle          \* the task of a thread that has not been given one

VARIABLES module, disk, booted, call, spent
vars == <<module, disk, booted, call, spent>>

FileItems == {"content", "mode"}
Items(m)  == IF m \in FileModules THEN FileItems ELSE Pkgs \union {Orphan}

(* What the tasks of a play are to a module: it looks at the names it is     *)
(* given, and a module of one file is given that file.                       *)
ASSUME ManagedAssumption ==
  /\ MaxCost \in Nat
  /\ \A m \in Modules : \A task \in Tasks(m) :
       /\ task.module = m /\ task # Idle
       /\ task.names \subseteq Items(m)
       /\ m \in FileModules => "content" \in task.names
       /\ Cost(task) \in Nat

Verdicts == {"running", "ok", "changed", "failed", "err"}

(* One invocation.  From `asked` on the fields are for the properties: it    *)
(* has asked; an answer was missing; it read another deployment than its     *)
(* commands act on; it moved an item; it moved one it was not told to; of    *)
(* other calls: one moved an item of this one, moved it to where this one    *)
(* does not want it, was running.                                            *)
Started(task, todo, shared) ==
  [task |-> task, todo |-> todo, needs |-> {}, listing |-> <<>>, verdict |-> "running",
   did |-> FALSE, met |-> FALSE, succeeded |-> FALSE,
   asked |-> FALSE, blind |-> FALSE, stale |-> FALSE, moved |-> FALSE, trampled |-> FALSE,
   overtaken |-> FALSE, undone |-> FALSE, shared |-> shared]
Between == Started(Idle, <<>>, FALSE)

Running(t) == call[t].todo # <<>>
At(t, ops) == Running(t) /\ Head(call[t].todo).op \in ops
Step(t)    == Head(call[t].todo)
GoOn(c)    == [c EXCEPT !.todo = Tail(@)]

Init ==
  /\ module \in Modules
  /\ disk \in {d \in [Items(module) -> Versions] :
                 CASE module \in FileModules  -> d["mode"] # "none"
                   [] module = "lineinfile"  -> d[Orphan] = "old" \/ \A i \in DOMAIN d : d[i] = "none"
                   [] OTHER                  -> d[Orphan] = "old"}
  /\ booted = disk
  /\ call = [t \in Threads |-> Between]
  /\ spent = 0

Begin(t, task) ==
  /\ ~Running(t)
  /\ spent + Cost(task) <= MaxCost
  /\ spent' = spent + Cost(task)
  /\ call' = [u \in Threads |->
                IF u = t THEN Started(task, Invoke(task), \E v \in Threads \ {t} : Running(v))
                ELSE [call[u] EXCEPT !.shared = @ \/ Running(u)]]
  /\ UNCHANGED <<module, disk, booted>>

-----------------------------------------------------------------------------
(* Steps that change nothing but the call. *)
Local(t, c) ==
  /\ call' = [call EXCEPT ![t] = c]
  /\ UNCHANGED <<module, disk, booted, spent>>

(* Mutant: an Err is not kept as the result. *)
EndWithoutErr(c, verdict) ==
  [c EXCEPT !.needs = {}, !.listing = <<>>,
            !.verdict = IF @ = "running" /\ verdict # "err" THEN verdict ELSE @,
            !.todo = IF verdict = "err" THEN <<>> ELSE AfterReturn(@)]

(* A result, and what runs after it. *)
End(c, verdict) ==
  [c EXCEPT !.needs = {}, !.listing = <<>>,
            !.verdict = IF @ = "running" \/ verdict = "err" THEN verdict ELSE @,
            !.todo = IF verdict = "err" THEN <<>> ELSE AfterReturn(@)]

Holds(if, c) ==
  CASE if = "always"         -> {TRUE}
    [] if = "maybe"          -> BOOLEAN
    [] if = "none needed"    -> {c.needs = {}}
    [] if = "some needed"    -> {c.needs # {}}
    [] if = "nothing done"   -> {~c.did}
    [] if = "something met"  -> {c.met}
    [] if = "none succeeded" -> {~c.succeeded}

StopOrGoOn(t) ==
  /\ At(t, {"stop"})
  /\ \E holds \in Holds(Step(t).if, call[t]) :
       Local(t, IF holds THEN End(call[t], Step(t).verdict) ELSE GoOn(call[t]))

Answer(t, i, yes, blind) ==
  LET s == Step(t)
      others == s.of \ {i}
  IN  Local(t, [call[t] EXCEPT !.needs = IF yes THEN @ \union {i} ELSE @,
                               !.asked = TRUE, !.blind = @ \/ blind,
                               !.todo = IF others = {} THEN Tail(@)
                                        ELSE <<[s EXCEPT !.of = others]>> \o Tail(@)])

AskNext(t) ==
  /\ At(t, {"ask"})
  /\ \E i \in Step(t).of :
       \/ \E yes \in Answers(Step(t).q, booted[i]) : Answer(t, i, yes, FALSE)
       \/ \E yes \in FailedAnswers(Step(t).q)      : Answer(t, i, yes, TRUE)

Picked(s, listing) ==
  {i \in s.of : IF i \in DOMAIN listing THEN TRUE \in Answers(s.q, listing[i])
                                        ELSE TRUE \in FailedAnswers(s.q)}

Select(t) ==
  \/ /\ At(t, {"take"})
     /\ Local(t, [GoOn(call[t]) EXCEPT !.needs = Step(t).of])
  \/ /\ At(t, {"pick"})
     /\ Local(t, [GoOn(call[t]) EXCEPT !.needs = Picked(Step(t), call[t].listing), !.asked = TRUE])
  \/ /\ At(t, {"branch"})
     /\ Local(t, [GoOn(call[t]) EXCEPT
                    !.todo = IF call[t].needs = {} THEN @ ELSE Step(t).then \o @])
  \/ /\ At(t, {"some", "each"}) /\ call[t].needs = {}
     /\ Local(t, GoOn(call[t]))

-----------------------------------------------------------------------------
(* Commands.  What a command does to item i when it is pointed at `targets`. *)
Rewrites == {"rewrite", "rewrite without"}
PartOf(c, i, targets) ==
  CASE c = "rollback"           -> IF disk = booted THEN "anything" ELSE "unstage"
    [] c \in Everywhere         -> c
    [] c = "autoremove"         -> IF i = Orphan THEN c ELSE "show"
    [] c = "sysupgrade+install" -> IF i \in targets THEN "installLatest" ELSE "sysupgrade"
    [] OTHER                    -> IF i \in targets THEN c
                                   ELSE IF c \in Rewrites THEN "reread" ELSE "show"

(* lineinfile writes back the lines it has read. *)
Before(t, c) == IF c \in Rewrites THEN call[t].listing ELSE disk

Succeeding(t, targets) ==
  {f \in [DOMAIN disk -> Versions] :
     \A i \in DOMAIN disk :
       LET part == PartOf(Step(t).cmd, i, targets)
       IN  Possible(part, disk[i]) /\ f[i] \in After(part, Before(t, Step(t).cmd)[i], booted[i])}
Failing(t, targets) ==
  {f \in [DOMAIN disk -> Versions] :
     \A i \in DOMAIN disk :
       f[i] = disk[i] \/
       f[i] \in AfterFailed(PartOf(Step(t).cmd, i, targets), Before(t, Step(t).cmd)[i], booted[i])}

(* Whether a command changes what no item stands for.  A file is only        *)
(* created where there are no lines.                                         *)
Made(c) ==
  IF c \notin Unseen \/ (c = "create file" /\ \E i \in DOMAIN disk : disk[i] # "none")
  THEN {FALSE} ELSE BOOLEAN

(* Thread t makes the machine f, its own call c, and changes what no item    *)
(* stands for or does not.                                                   *)
Move(t, f, made, c) ==
  LET moved(task) == {i \in DOMAIN disk : f[i] # disk[i]} \cap task.names
      own == call[t].task
  IN  /\ disk' = f
      /\ booted' = IF module \in Staged THEN booted ELSE f
      /\ call' = [u \in Threads |->
           IF u = t
           THEN [c EXCEPT !.moved = @ \/ made \/ f # disk,
                          !.trampled = @ \/ \E i \in DOMAIN disk \ own.names : f[i] # disk[i]]
           ELSE IF call[u].task = Idle THEN call[u]
           ELSE LET task == call[u].task
                IN  [call[u] EXCEPT
                       !.overtaken = @ \/ moved(task) # {},
                       !.undone = @ \/ \E i \in moved(task) : f[i] \notin Promise(task, "changed", i)]]
      /\ UNCHANGED <<module, spent>>

(* `each` goes through the items one by one. *)
Targets(t) ==
  IF Step(t).op = "each" THEN {{i} : i \in call[t].needs}
  ELSE IF Step(t).op = "some" /\ call[t].needs = {} THEN {} ELSE {call[t].needs}
Past(t, targets) ==
  IF Step(t).op # "each" THEN GoOn(call[t])
  ELSE [call[t] EXCEPT !.needs = @ \ targets]

Success(t) ==
  /\ At(t, {"run", "some", "each", "list"})
  /\ \E targets \in Targets(t) : \E f \in Succeeding(t, targets) :
     \E says \in IF Step(t).cmd \in Elsewhere THEN {TRUE, f # disk} ELSE {f # disk} :
     \E made \in Made(Step(t).cmd) :
       Move(t, f, made, [Past(t, targets) EXCEPT
                           !.did = @ \/ says, !.succeeded = TRUE,
                           !.met = @ \/ \E i \in targets : f[i] = disk[i],
                           !.listing = IF Step(t).op = "list" THEN booted ELSE @,
                           !.stale = @ \/ (Step(t).op = "list" /\ booted # disk)])

(* An exit status other than 0, or no exit status: the command is not there. *)
Consequence(t, targets, leads) ==
  CASE leads = "next" -> [Past(t, targets) EXCEPT !.blind = @ \/ Step(t).op = "list"]
    [] leads = "else" -> [GoOn(call[t]) EXCEPT !.todo = Step(t).else \o @]
    [] OTHER          -> End(call[t], leads)

Failure(t) ==
  /\ At(t, {"run", "some", "each", "list"})
  /\ \E targets \in Targets(t) :
       \/ \E f \in Failing(t, targets) : \E made \in Made(Step(t).cmd) :
            Move(t, f, made, Consequence(t, targets, Step(t).bad))
       \/ Move(t, disk, FALSE, Consequence(t, targets, Step(t).lost))

(* The process is killed between two steps, or the machine is rebooted.      *)
Crash(reboot) ==
  /\ \/ \E t \in Threads : Running(t)
     \/ reboot /\ booted # disk
  /\ call' = [t \in Threads |-> Between]
  /\ booted' = IF reboot THEN disk ELSE booted
  /\ UNCHANGED <<module, disk, spent>>

Next ==
  \/ \E t \in Threads : \/ \E task \in Tasks(module) : Begin(t, task)
                        \/ StopOrGoOn(t) \/ AskNext(t) \/ Select(t) \/ Success(t) \/ Failure(t)
  \/ \E reboot \in BOOLEAN : Crash(reboot)

Spec == Init /\ [][Next]_vars

-----------------------------------------------------------------------------
Done(t, verdict) == call[t].task # Idle /\ ~Running(t) /\ call[t].verdict = verdict

(* A call is about items of the machine and has a result exactly when it has *)
(* no step left, but for what apt does after its result.                     *)
TypeOK ==
  /\ module \in Modules /\ spent \in 0..MaxCost
  /\ disk \in [Items(module) -> Versions] /\ booted \in [Items(module) -> Versions]
  /\ \A t \in Threads :
       LET c == call[t]
       IN  /\ c.task \in Tasks(module) \union {Idle}
           /\ c.needs \subseteq Items(module) /\ c.verdict \in Verdicts
           /\ c.listing \in [Items(module) -> Versions] \union {<<>>}
           /\ (c.verdict = "running" /\ c.task # Idle => Running(t))

(* GoalReached: when a module says ok or changed, every item it was given is *)
(* in the state the task asks for (on the next boot, for a staged module),   *)
(* whatever happened in earlier, failed or killed, calls; unless a question  *)
(* could not be answered, another call took it away again, or the module     *)
(* judged by a deployment its commands do not act on; and but for an orphan  *)
(* that is asked for, which apt's autoremove sweeps away after its result.   *)
GoalReached ==
  \A t \in Threads : \A verdict \in {"ok", "changed"} :
    Done(t, verdict) /\ ~call[t].blind /\ ~call[t].undone /\ ~call[t].stale =>
      \A i \in call[t].task.names :
        disk[i] \in Promise(call[t].task, verdict, i) \/ (i = Orphan /\ Sweeps(call[t].task))

(* OkHidesNothing: a call that reports ok has not moved an item, nor what no *)
(* item stands for (Unseen), so no handler misses a notification; MayHide    *)
(* names the modules that do.                                                *)
OkHidesNothing ==
  \A t \in Threads : Done(t, "ok") /\ ~MayHide(call[t].task) => ~call[t].moved

(* ChangedIsReal: a call that has asked before it acts reports changed only  *)
(* if it moved something; a second run of a play is then ok.                 *)
ChangedIsReal ==
  \A t \in Threads :
    LET c == call[t]
    IN  Done(t, "changed") /\ c.asked /\ ~c.blind /\ ~c.stale /\ ~c.overtaken
        /\ ~MayInvent(c.task) => c.moved

(* MovesOnlyItsOwn: a call leaves the items it was not given alone, even     *)
(* when it fails; lineinfile, which writes back all it has read, keeps to    *)
(* this while no other call runs and unless the write fails half way.        *)
MovesOnlyItsOwn ==
  \A t \in Threads :
    call[t].trampled =>
      WholeSystem(call[t].task) \/ (module = "lineinfile" /\ (call[t].shared \/ Done(t, "err")))
=============================================================================
