------------------------------ MODULE Playbook ------------------------------
(* One run of the command line tool: the files of the command line, their    *)
(* plays, and in each play the task list, then the handlers, host by host    *)
(* (run in ansiblers-playbook/src/main.rs; run_playbook and run_play in      *)
(* ansiblers-executor/src/play.rs).  One ExecutionContext lives through the  *)
(* whole run.  What it does to variables is followed for one name, `v`: the  *)
(* -e option, a play's vars, `register: v` and `set_fact: v` may all set it. *)
EXTENDS Inventory

CONSTANTS CommandLines, \* lists of files; a file is [parses, plays]
          Extra         \* values of "-e v=..." given (TRUE) or not (FALSE)

Kinds == {"task", "block", "register", "set_fact"}

ASSUME PlaybookAssumption ==
  \A files \in CommandLines :
    /\ files \in Seq({files[i] : i \in DOMAIN files})
    /\ \A i \in DOMAIN files :
         LET plays == files[i].plays
         IN  /\ plays \in Seq({plays[j] : j \in DOMAIN plays})
             /\ \A j \in DOMAIN plays :
                  plays[j].tasks \in Seq(Kinds) /\ plays[j].handlers \in Seq(Kinds)

VARIABLES argv, extra,      \* the command line
          file, play,       \* cursors; play is in argv[file].plays
          phase,            \* "load", "play", "tasks" or "handlers"
          hosts,            \* hosts of the current play, in order
          item, pos,        \* node or handler, and position in hosts
          failed,           \* failed[h]: HostState.failed in this play
          playVar, regVar,  \* who set v in playbook_vars, registered_vars
          factVar,          \* factVar[h]: who set v in facts[h]
          success,          \* overall_success so far
          status,           \* "run", then how the process ends
          log               \* every task and handler run, in order

cursors == <<file, play, phase, hosts, item, pos>>
ctx == <<playVar, regVar, factVar>>
vars == <<argv, extra, cursors, failed, ctx, success, status, log>>

Unset == <<"unset">>
Play == argv[file].plays[play]

(* What a node or handler can come to.  A block leaves its host active or    *)
(* failed (BlockWalk).                                                       *)
OutcomesOf(kind) ==
  IF kind \in {"register", "set_fact"} THEN {"ok", "failed", "skipped"} ELSE {"ok", "failed"}

(* Which layers it may leave v in.  A task registers whatever it comes to,   *)
(* but for one that is skipped; failed_when fails a set_fact that has set    *)
(* its fact; the tasks of a block may do either, both or nothing.            *)
WritesOf(kind, out) ==
  CASE kind = "register" /\ out # "skipped" -> {{"register"}}
    [] kind = "set_fact" /\ out # "skipped" -> {{"fact"}}
    [] kind = "block"                       -> SUBSET {"register", "fact"}
    [] OTHER                                -> {{}}

Init ==
  /\ argv \in CommandLines
  /\ extra \in Extra
  /\ file = 1 /\ play = 1
  /\ phase = "load"
  /\ hosts = <<>>
  /\ item = 1 /\ pos = 1
  /\ failed = [h \in HostNames |-> FALSE]
  /\ playVar = IF extra THEN <<"extra">> ELSE Unset
  /\ regVar = Unset
  /\ factVar = [h \in HostNames |-> Unset]
  /\ success = TRUE
  /\ status = "run"
  /\ log = <<>>

At(p) == status = "run" /\ phase = p

-----------------------------------------------------------------------------
(* Files and plays. *)

(* An inventory or an extra variable that cannot be read (`?`) ends the      *)
(* process before it looks at a playbook.                                    *)
BadArguments ==
  /\ At("load")
  /\ file = 1
  /\ status' = "exit1"
  /\ UNCHANGED <<argv, extra, cursors, failed, ctx, success, log>>

(* parse_playbook; a file that does not parse ends the process, after the    *)
(* files before it have run.                                                 *)
LoadFile ==
  /\ At("load")
  /\ file <= Len(argv)
  /\ IF argv[file].parses
     THEN phase' = "play" /\ play' = 1 /\ UNCHANGED status
     ELSE status' = "exit1" /\ UNCHANGED <<phase, play>>
  /\ UNCHANGED <<argv, extra, file, hosts, item, pos, failed, ctx, success, log>>

Exit ==
  /\ At("load")
  /\ file > Len(argv)
  /\ status' = IF success THEN "exit0" ELSE "exit2"
  /\ UNCHANGED <<argv, extra, cursors, failed, ctx, success, log>>

(* Mutant: the vars of the play before are taken back. *)
StartPlayResetsVars ==
  /\ At("play")
  /\ play <= Len(argv[file].plays)
  /\ playVar' = IF Play.setsVar THEN <<"play", file, play>>
                ELSE IF extra THEN <<"extra">> ELSE Unset
  /\ hosts' \in MatchingHosts(Play.pattern)
  /\ failed' = [h \in HostNames |-> FALSE]
  /\ phase' = "tasks"
  /\ item' = 1 /\ pos' = 1
  /\ UNCHANGED <<argv, extra, file, play, regVar, factVar, success, status, log>>

(* Mutant: a host keeps its HostState from play to play. *)
StartPlayKeepsFailed ==
  /\ At("play")
  /\ play <= Len(argv[file].plays)
  /\ playVar' = IF Play.setsVar THEN <<"play", file, play>> ELSE playVar
  /\ hosts' \in MatchingHosts(Play.pattern)
  /\ phase' = "tasks"
  /\ item' = 1 /\ pos' = 1
  /\ UNCHANGED <<argv, extra, file, play, failed, regVar, factVar, success,
                 status, log>>

(* The play's vars go into the context and stay there; every matching host   *)
(* starts with a fresh HostState, whatever it did in earlier plays.          *)
StartPlay ==
  /\ At("play")
  /\ play <= Len(argv[file].plays)
  /\ playVar' = IF Play.setsVar THEN <<"play", file, play>> ELSE playVar
  /\ hosts' \in MatchingHosts(Play.pattern)
  /\ failed' = [h \in HostNames |-> FALSE]
  /\ phase' = "tasks"
  /\ item' = 1 /\ pos' = 1
  /\ UNCHANGED <<argv, extra, file, play, regVar, factVar, success, status, log>>

EndFile ==
  /\ At("play")
  /\ play > Len(argv[file].plays)
  /\ file' = file + 1
  /\ phase' = "load"
  /\ UNCHANGED <<argv, extra, play, hosts, item, pos, failed, ctx, success,
                 status, log>>

(* Mutant: the success of the run is that of its last play. *)
EndPlayForgets ==
  /\ At("handlers")
  /\ pos > Len(hosts)
  /\ success' = (\A i \in DOMAIN hosts : ~failed[hosts[i]])
  /\ play' = play + 1
  /\ phase' = "play"
  /\ UNCHANGED <<argv, extra, file, hosts, item, pos, failed, ctx, status, log>>

EndPlay ==
  /\ At("handlers")
  /\ pos > Len(hosts)
  /\ success' = (success /\ \A i \in DOMAIN hosts : ~failed[hosts[i]])
  /\ play' = play + 1
  /\ phase' = "play"
  /\ UNCHANGED <<argv, extra, file, hosts, item, pos, failed, ctx, status, log>>

-----------------------------------------------------------------------------
(* One task, block or handler on one host. *)

Host == hosts[pos]

(* VariableResolver::merged: play vars, then registered, then the facts of   *)
(* the host, each hiding what comes before.                                  *)
Seen(h) ==
  IF factVar[h] # Unset THEN factVar[h]
  ELSE IF regVar # Unset THEN regVar ELSE playVar

Execute(kind, out) == \E wrote \in WritesOf(kind, out) :
  /\ log' = Append(log, [at |-> <<file, play>>, part |-> phase, host |-> Host,
                         item |-> item, out |-> out, wrote |-> wrote, saw |-> Seen(Host)])
  /\ regVar' = IF "register" \in wrote THEN <<"register", Len(log')>> ELSE regVar
  /\ factVar' = IF "fact" \in wrote
                THEN [factVar EXCEPT ![Host] = <<"fact", Len(log')>>] ELSE factVar

AtNode == At("tasks") /\ item <= Len(Play.tasks) /\ pos <= Len(hosts)

(* A turn of execute_linear's inner loop, or of run_task_list when the play  *)
(* has one host.                                                             *)
RunNode ==
  /\ AtNode
  /\ ~failed[Host]
  /\ \E o \in OutcomesOf(Play.tasks[item]) :
       /\ Execute(Play.tasks[item], o)
       /\ failed' = [failed EXCEPT ![Host] = o = "failed"]
  /\ pos' = pos + 1
  /\ UNCHANGED <<argv, extra, file, play, phase, hosts, item, playVar, success,
                 status>>

SkipHost ==
  /\ AtNode
  /\ failed[Host]
  /\ pos' = pos + 1
  /\ UNCHANGED <<argv, extra, file, play, phase, hosts, item, failed, ctx,
                 success, status, log>>

(* Mutant: the host loop starts before the first host. *)
NextNodeOffByOne ==
  /\ At("tasks")
  /\ item <= Len(Play.tasks) /\ pos > Len(hosts)
  /\ item' = item + 1
  /\ pos' = 0
  /\ UNCHANGED <<argv, extra, file, play, phase, hosts, failed, ctx, success,
                 status, log>>

NextNode ==
  /\ At("tasks")
  /\ item <= Len(Play.tasks) /\ pos > Len(hosts)
  /\ item' = item + 1
  /\ pos' = 1
  /\ UNCHANGED <<argv, extra, file, play, phase, hosts, failed, ctx, success,
                 status, log>>

(* Mutant: a play whose pattern matches no host is not left. *)
TasksDoneIfHosts ==
  /\ At("tasks")
  /\ hosts # <<>>
  /\ item > Len(Play.tasks)
  /\ phase' = "handlers"
  /\ item' = 1 /\ pos' = 1
  /\ UNCHANGED <<argv, extra, file, play, hosts, failed, ctx, success, status,
                 log>>

TasksDone ==
  /\ At("tasks")
  /\ item > Len(Play.tasks)
  /\ phase' = "handlers"
  /\ item' = 1 /\ pos' = 1
  /\ UNCHANGED <<argv, extra, file, play, hosts, failed, ctx, success, status,
                 log>>

AtHandler == At("handlers") /\ pos <= Len(hosts)
HandlerDue == AtHandler /\ ~failed[Host] /\ item <= Len(Play.handlers)

(* Every handler runs on every active host, notified or not; its failure is  *)
(* recorded in the results and nowhere else.                                 *)
RunHandler ==
  /\ HandlerDue
  /\ \E o \in OutcomesOf(Play.handlers[item]) : Execute(Play.handlers[item], o)
  /\ item' = item + 1
  /\ UNCHANGED <<argv, extra, file, play, phase, hosts, pos, failed, playVar,
                 success, status>>

NextHandlerHost ==
  /\ AtHandler
  /\ ~HandlerDue
  /\ pos' = pos + 1
  /\ item' = 1
  /\ UNCHANGED <<argv, extra, file, play, phase, hosts, failed, ctx, success,
                 status, log>>

(* `?`: an Err of the executor ends the process; the results of this file    *)
(* are dropped and no other host, play or file runs.                         *)
TaskErr ==
  /\ \/ AtNode /\ ~failed[Host]
     \/ HandlerDue
  /\ status' = "exit1"
  /\ UNCHANGED <<argv, extra, cursors, failed, ctx, success, log>>

Next ==
  \/ BadArguments
  \/ LoadFile
  \/ Exit
  \/ StartPlay
  \/ EndFile
  \/ EndPlay
  \/ RunNode
  \/ SkipHost
  \/ NextNode
  \/ TasksDone
  \/ RunHandler
  \/ NextHandlerHost
  \/ TaskErr

Spec == Init /\ [][Next]_vars

(* The only thread runs, and every module returns. *)
FairSpec == Spec /\ WF_vars(Next)

-----------------------------------------------------------------------------
(* What a log entry and a source of v can be. *)
Sources == {Unset, <<"extra">>} \union ({"register", "fact"} \X Nat) \union ({"play"} \X Nat \X Nat)
Entries == [at : Nat \X Nat, part : {"tasks", "handlers"}, host : HostNames, item : Nat,
            out : {"ok", "failed", "skipped"}, wrote : SUBSET {"register", "fact"},
            saw : Sources]

(* Every variable keeps its type. *)
TypeOK ==
  /\ argv \in CommandLines
  /\ file \in 1..(Len(argv) + 1)
  /\ phase # "load" => play \in 1..(Len(argv[file].plays) + 1)
  /\ phase \in {"load", "play", "tasks", "handlers"}
  /\ phase \in {"tasks", "handlers"} =>
       hosts \in MatchingHosts(Play.pattern) /\ pos \in 1..(Len(hosts) + 1)
  /\ phase = "tasks" => item \in 1..(Len(Play.tasks) + 1)
  /\ phase = "handlers" => item \in 1..(Len(Play.handlers) + 1)
  /\ failed \in [HostNames -> BOOLEAN]
  /\ {playVar, regVar} \subseteq Sources
  /\ factVar \in [HostNames -> Sources]
  /\ log \in Seq(Entries)
  /\ success \in BOOLEAN
  /\ status \in {"run", "exit0", "exit1", "exit2"}

(* Where the value of v that entry i saw must have come from when -e does    *)
(* not give v, told from what has run before it: the last that set its own   *)
(* host's fact, else the last that registered it on any host in any play,    *)
(* else the last play so far whose vars set it.                              *)
Before(a, b) == a[1] < b[1] \/ (a[1] = b[1] /\ a[2] <= b[2])
FactsBefore(i, h) == {j \in 1..(i - 1) : "fact" \in log[j].wrote /\ log[j].host = h}
RegsBefore(i) == {j \in 1..(i - 1) : "register" \in log[j].wrote}
Setters == {a \in UNION {{<<f, p>> : p \in DOMAIN argv[f].plays} : f \in DOMAIN argv} :
              argv[a[1]].plays[a[2]].setsVar}
LastOf(plays) == CHOOSE a \in plays : \A b \in plays : Before(b, a)
PlaySource(plays) ==
  IF plays # {} THEN <<"play", LastOf(plays)[1], LastOf(plays)[2]>> ELSE Unset
ExpectedSource(i) ==
  LET facts == FactsBefore(i, log[i].host)
      regs  == RegsBefore(i)
  IN IF facts # {} THEN <<"fact", Max(facts)>>
     ELSE IF regs # {} THEN <<"register", Max(regs)>>
     ELSE PlaySource({a \in Setters : Before(a, log[i].at)})

(* resolver.rs, "play_vars < registered < facts": without -e every task and  *)
(* handler of every play sees v as the strongest of these layers left it.    *)
(* One context lives through the whole run: a play's vars stay for the plays *)
(* after it, registered variables cross hosts and plays, facts stay with     *)
(* their host.  What becomes of -e is ExtraVarsWin.                          *)
VariableSource ==
  ~extra => \A i \in DOMAIN log : log[i].saw = ExpectedSource(i)

(* resolver.rs, "Extra vars (-e flag), highest precedence": a variable given *)
(* with -e is what every task and handler sees, whatever sets it besides.    *)
ExtraVarsWin ==
  extra => \A i \in DOMAIN log : log[i].saw = <<"extra">>

(* What host h has run of a part of the current play, as positions in the    *)
(* log; whether these are the items 1 to n, each once and in order; and      *)
(* whether a task has failed.                                                *)
Mine(h, part) ==
  {j \in DOMAIN log : log[j].at = <<file, play>> /\ log[j].host = h /\ log[j].part = part}
InOrder(J, n) ==
  /\ {log[j].item : j \in J} = 1..n
  /\ \A j, k \in J : j < k => log[j].item < log[k].item
Fell(h) == \E j \in Mine(h, "tasks") : log[j].out = "failed"

(* At the end of a play every host of it has run the task list up to its     *)
(* first failure, whatever it did in earlier plays; and every handler, once  *)
(* and in order, if and only if no task left it failed.                      *)
PlayCovers ==
  At("handlers") /\ pos > Len(hosts) => \A i \in DOMAIN hosts :
    LET h == hosts[i]
    IN \E n \in 0..Len(Play.tasks) :
         /\ InOrder(Mine(h, "tasks"), n)
         /\ \A j \in Mine(h, "tasks") : log[j].out = "failed" => log[j].item = n
         /\ n = Len(Play.tasks) \/ Fell(h)
         /\ InOrder(Mine(h, "handlers"), IF Fell(h) THEN 0 ELSE Len(Play.handlers))

(* "All plays succeeded" / "One or more tasks failed": a run that comes to   *)
(* its end exits 2 exactly when some task of some play left a host failed,   *)
(* however many plays succeeded after it.                                    *)
TaskFailures == {i \in DOMAIN log : log[i].part = "tasks" /\ log[i].out = "failed"}
ExitCodeOfTasks ==
  /\ status = "exit0" => TaskFailures = {}
  /\ status = "exit2" => TaskFailures # {}

(* main.rs, "2 | One or more tasks failed": a run that exits 0 has had no    *)
(* failed task; a handler is a task (ast.rs, "structurally identical").      *)
ExitZeroMeansNoneFailed ==
  status = "exit0" => \A i \in DOMAIN log : log[i].out # "failed"

(* The process ends. *)
RunEnds == <>(status # "run")
=============================================================================
