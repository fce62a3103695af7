------------------------------ MODULE Molecule ------------------------------
(* The molecule runner: ScenarioRunner::run_sequence and its phases          *)
(* (ansiblers-molecule/src/lifecycle.rs), Scenario (scenario.rs), the        *)
(* drivers (driver.rs) and the commands of the tool (main.rs).  One command  *)
(* after the other runs as a process of its own; what a process believes of  *)
(* its instances dies with it, the containers stay.  A process may be killed *)
(* at any moment.  The container engine and the playbooks are external: a    *)
(* call fails or succeeds, a playbook passes, fails or returns Err.          *)
EXTENDS Naturals, Sequences, FiniteSets

CONSTANTS Platforms,  \* Platforms[i]: name of the i-th platform
          NameOrder,  \* the platform names and "localhost", in sort() order
          Drivers,    \* subset of {"container", "none"}
          Patterns,   \* `hosts:` of the playbooks
          Optional,   \* sets of optional playbooks that are present
          MaxCommands \* bound: commands of one behaviour

Names == {Platforms[i] : i \in DOMAIN Platforms}

ASSUME MoleculeAssumption ==
  /\ Platforms \in Seq(Names)
  /\ \A i, j \in DOMAIN Platforms : Platforms[i] = Platforms[j] => i = j
  /\ "localhost" \notin Names
  /\ Drivers \subseteq {"container", "none"}
  /\ \A o \in Optional : o \subseteq {"prepare", "verify", "cleanup"}
  /\ MaxCommands \in Nat

(* A scenario has a platform; NameOrder is the order sort() puts names in. *)
ASSUME TargetsAssumption ==
  /\ Platforms # <<>>
  /\ Patterns \subseteq {"all", "molecule"}
  /\ NameOrder \in Seq(Names \union {"localhost"})
  /\ \A i, j \in DOMAIN NameOrder : NameOrder[i] = NameOrder[j] => i = j
  /\ \A h \in Names \union {"localhost"} : \E i \in DOMAIN NameOrder : h = NameOrder[i]

VARIABLES driver, pattern, optional, \* the scenario's configuration
          command,   \* the command of the process, or of the last one
          phases,    \* the phases it has still to run, the current one first
          mode,      \* "idle", "run" or "cleanup"
          next,      \* instance the current create or destroy is at
          running,   \* instances whose state is Running, as the process has it
          exists,    \* instances that have a container
          stuck,     \* of these, those the last `rm -f` failed to remove
          results,   \* ScenarioResult.phases
          exit,      \* how the last process ended
          targets,   \* playbook phases run by the process and their hosts
          commands   \* commands started

config == <<driver, pattern, optional>>
world == <<running, exists, stuck>>
vars == <<config, command, phases, mode, next, world, results, exit, targets,
          commands>>

DefaultSequence == <<"create", "prepare", "converge", "idempotence", "verify",
                     "cleanup", "destroy">>

(* `create` and `destroy` call the scenario directly: a sequence of that one *)
(* phase, whose only way to fail is an Err.                                  *)
SequenceOf(c) ==
  CASE c = "test"     -> DefaultSequence
    [] c = "converge" -> <<"create", "converge">>
    [] OTHER          -> <<c>>
Commands == {"test", "converge", "verify", "create", "destroy"}

(* build_molecule_inventory: the instances that are Running, in the groups   *)
(* `all` and `molecule`.                                                     *)
Inv == INSTANCE Inventory WITH
         HostOrder <- NameOrder,
         InvHosts  <- running,
         Groups    <- [g \in {"all", "molecule"} |->
                         [hosts |-> running, children |-> {}]]
Targets == LET order == CHOOSE s \in Inv!MatchingHosts(pattern) : TRUE
           IN {order[i] : i \in DOMAIN order}

Init ==
  /\ driver \in Drivers /\ pattern \in Patterns /\ optional \in Optional
  /\ command = "none"
  /\ phases = <<>>
  /\ mode = "idle"
  /\ next = 1
  /\ running = {} /\ exists = {} /\ stuck = {}
  /\ results = <<>>
  /\ exit = "none"
  /\ targets = {}
  /\ commands = 0

(* A new process: Scenario::from_config has every instance Absent. *)
StartCommand ==
  /\ mode = "idle"
  /\ commands < MaxCommands
  /\ \E c \in Commands : command' = c /\ phases' = SequenceOf(c)
  /\ mode' = "run"
  /\ next' = 1
  /\ running' = {}
  /\ results' = <<>>
  /\ targets' = {}
  /\ exit' = "none"
  /\ commands' = commands + 1
  /\ UNCHANGED <<config, exists, stuck>>

AtPhase(ph) == mode = "run" /\ phases # <<>> /\ Head(phases) = ph
PhaseResult(ok) == [phase |-> Head(phases), success |-> ok]

(* The phase is over and succeeded. *)
PhaseOk ==
  /\ results' = Append(results, PhaseResult(TRUE))
  /\ phases' = Tail(phases)
  /\ next' = 1
  /\ UNCHANGED <<mode, exit>>

(* Mutant: Destroy is queued as one more phase. *)
PhaseFailedQueues ==
  /\ results' = Append(results, PhaseResult(FALSE))
  /\ phases' = <<"destroy">>
  /\ next' = 1
  /\ UNCHANGED <<mode, exit>>

(* Mutant: run_sequence returns without Destroy. *)
PhaseFailedReturns ==
  /\ results' = Append(results, PhaseResult(FALSE))
  /\ mode' = "idle"
  /\ exit' = "exit2"
  /\ UNCHANGED <<phases, next>>

(* The phase failed: Destroy is run before run_sequence returns.  It is no   *)
(* phase of the result.                                                      *)
PhaseFailed ==
  /\ results' = Append(results, PhaseResult(FALSE))
  /\ mode' = "cleanup"
  /\ next' = 1
  /\ UNCHANGED <<phases, exit>>

(* `?` on run_phase: the Err leaves run_sequence at once. *)
PhaseErr ==
  /\ mode' = "idle"
  /\ exit' = "exit1"
  /\ UNCHANGED <<phases, results, next>>

-----------------------------------------------------------------------------
(* Mutant: the Err of one instance does not stop the others. *)
CreateInstanceGoesOn ==
  /\ AtPhase("create")
  /\ next <= Len(Platforms)
  /\ LET i == Platforms[next]
     IN \/ /\ driver = "none" \/ i \notin exists
           /\ running' = running \union {i}
           /\ exists' = IF driver = "none" THEN exists ELSE exists \union {i}
        \/ /\ driver = "container"
           /\ exists' \in {exists, exists \union {i}}
           /\ UNCHANGED running
  /\ next' = next + 1
  /\ UNCHANGED <<config, command, phases, mode, stuck, results, exit, targets,
                 commands>>

(* `docker run`: the container is there and runs, or the call fails and may  *)
(* have left one behind; a name in use makes it fail.  The None driver only  *)
(* changes its own state.                                                    *)
CreateInstance ==
  /\ AtPhase("create")
  /\ next <= Len(Platforms)
  /\ LET i == Platforms[next]
     IN \/ /\ driver = "none" \/ i \notin exists
           /\ running' = running \union {i}
           /\ exists' = IF driver = "none" THEN exists ELSE exists \union {i}
           /\ next' = next + 1
           /\ UNCHANGED <<stuck, phases, mode, results, exit>>
        \/ /\ driver = "container"
           /\ exists' \in {exists, exists \union {i}}
           /\ PhaseErr
           /\ UNCHANGED <<running, stuck>>
  /\ UNCHANGED <<config, command, targets, commands>>

(* `docker rm -f`, whose outcome nobody looks at. *)
DestroyInstance ==
  /\ AtPhase("destroy") \/ mode = "cleanup"
  /\ next <= Len(Platforms)
  /\ LET i == Platforms[next]
     IN /\ running' = running \ {i}
        /\ \/ exists' = exists \ {i} /\ stuck' = stuck \ {i}
           \/ i \in exists /\ stuck' = stuck \union {i} /\ UNCHANGED exists
  /\ next' = next + 1
  /\ UNCHANGED <<config, command, phases, mode, results, exit, targets, commands>>

(* Mutant: the loop waits for every instance to be Running, also in destroy. *)
InstancesDoneIfRunning ==
  /\ AtPhase("create") \/ AtPhase("destroy")
  /\ next > Len(Platforms)
  /\ running = Names
  /\ PhaseOk
  /\ UNCHANGED <<config, command, world, targets, commands>>

(* The loop over the instances is done. *)
InstancesDone ==
  /\ AtPhase("create") \/ AtPhase("destroy")
  /\ next > Len(Platforms)
  /\ PhaseOk
  /\ UNCHANGED <<config, command, world, targets, commands>>

CleanupDone ==
  /\ mode = "cleanup"
  /\ next > Len(Platforms)
  /\ mode' = "idle"
  /\ exit' = "exit2"
  /\ UNCHANGED <<config, command, phases, next, world, results, targets, commands>>

PlaybookPhases == {"prepare", "converge", "idempotence", "verify", "cleanup"}
AtPlaybook == \E ph \in PlaybookPhases : AtPhase(ph)
Absent == Head(phases) \in {"prepare", "verify", "cleanup"} \ optional

SkipPhase ==
  /\ AtPlaybook
  /\ Absent
  /\ PhaseOk
  /\ UNCHANGED <<config, command, world, targets, commands>>

(* run_playbook_phase on the inventory of the moment.  Idempotence runs      *)
(* converge once more and passes whatever its tasks changed.                 *)
RunPlaybook ==
  /\ AtPlaybook
  /\ ~Absent
  /\ targets' = targets \union {[phase |-> Head(phases), hosts |-> Targets]}
  /\ PhaseOk \/ PhaseFailed \/ PhaseErr
  /\ UNCHANGED <<config, command, world, commands>>

Finish ==
  /\ mode = "run"
  /\ phases = <<>>
  /\ mode' = "idle"
  /\ exit' = "exit0"
  /\ UNCHANGED <<config, command, phases, next, world, results, targets, commands>>

(* The process is killed; nothing is cleaned up. *)
Kill ==
  /\ mode # "idle"
  /\ mode' = "idle"
  /\ exit' = "killed"
  /\ UNCHANGED <<config, command, phases, next, world, results, targets, commands>>

Work ==
  \/ CreateInstance
  \/ DestroyInstance
  \/ InstancesDone
  \/ CleanupDone
  \/ SkipPhase
  \/ RunPlaybook
  \/ Finish

Next == StartCommand \/ Work \/ Kill

Spec == Init /\ [][Next]_vars

(* A process that is not killed runs on, and every external call returns. *)
FairSpec == Spec /\ WF_vars(Work)

-----------------------------------------------------------------------------
(* Every variable keeps its type. *)
TypeOK ==
  /\ command \in Commands \union {"none"}
  /\ phases = SubSeq(SequenceOf(command), Len(SequenceOf(command)) - Len(phases) + 1,
                     Len(SequenceOf(command)))
  /\ mode \in {"idle", "run", "cleanup"}
  /\ next \in 1..(Len(Platforms) + 1)
  /\ running \subseteq Names
  /\ stuck \subseteq exists /\ exists \subseteq Names
  /\ exit \in {"none", "exit0", "exit1", "exit2", "killed"}
  /\ commands \in 0..MaxCommands

(* A playbook never runs against an instance that has no container, nor      *)
(* against some of the instances only: a process that has created them runs  *)
(* it on every one.  A process that has not -- `verify` on its own -- has no *)
(* instance to run it on, and runs it on localhost or on nothing.            *)
TargetsAreTheInstances ==
  /\ driver = "container" => running \subseteq exists
  /\ \A t \in targets :
       IF \E i \in DOMAIN results : results[i].phase = "create"
       THEN t.hosts = Names
       ELSE t.hosts = IF pattern = "all" THEN {"localhost"} ELSE {}

(* exit 0 means that every phase of the sequence ran, in order, and passed;  *)
(* exit 2 that one failed after the others had passed, and that Destroy has  *)
(* been run for every instance since.  A container survives a `test` that    *)
(* exits 0, and any command that exits 2, only if `rm -f` failed on it.      *)
ExitTellsThePhases ==
  LET passed(n) == \A i \in 1..n : results[i] = [phase |-> SequenceOf(command)[i],
                                                success |-> TRUE]
      n == Len(results)
  IN mode = "idle" =>
       /\ exit = "exit0" => n = Len(SequenceOf(command)) /\ passed(n)
       /\ exit = "exit2" => n > 0 /\ passed(n - 1) /\ ~results[n].success
       /\ exit = "exit2" \/ (exit = "exit0" /\ command = "test") =>
            running = {} /\ exists \subseteq stuck

(* lifecycle.rs, "When any phase fails, ScenarioRunner automatically runs    *)
(* Destroy as a best-effort cleanup": a sequence that was given up leaves no *)
(* instance that this process had brought to Running.                        *)
FailureDestroys ==
  mode = "idle" /\ exit \in {"exit1", "exit2"} => running = {}

(* A command that is not killed comes to its end. *)
CommandEnds == mode # "idle" ~> mode = "idle"
=============================================================================
