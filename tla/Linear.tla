------------------------------- MODULE Linear -------------------------------
(* Strategy::Linear, execute_linear in ansiblers-executor/src/strategy.rs:   *)
(* the strategy every play with more than one host runs under.  One thread   *)
(* walks the nodes in order and, for each node, the hosts in order, with one *)
(* ExecutionContext that all hosts share.                                    *)
EXTENDS Nodes

VARIABLES targets,    \* the `hosts` argument
          given,      \* host_states as the caller passed it
          main,       \* "run" until the call returns
          node, host, \* the cursors of the two loops
          hostStates, \* the caller's map, updated in place
          results,    \* all_results
          reg         \* who wrote the registered variable of the context

vars == <<targets, given, main, node, host, hostStates, results, reg>>

Init ==
  /\ targets \in SUBSET Hosts
  /\ given \in [Hosts -> {Fresh, FailedBefore}]
  /\ main = "run"
  /\ node = 1 /\ host = 1
  /\ hostStates = given
  /\ results = [h \in Hosts |-> <<>>]
  /\ reg = 0

AtVisit == main = "run" /\ node <= NNodes /\ host <= NHosts
(* Mutant: an inactive host is not skipped. *)
HasTurnAlways == host \in targets

HasTurn == host \in targets /\ IsActive(hostStates[host])

(* Not in the host list, or `continue` on an inactive host. *)
SkipHost ==
  /\ AtVisit
  /\ ~HasTurn
  /\ host' = host + 1
  /\ UNCHANGED <<targets, given, main, node, hostStates, results, reg>>

(* Mutant: the walk stays with a host until its list is done. *)
RunNodeHostFirst ==
  /\ AtVisit /\ HasTurn
  /\ \E o \in OutcomesOf(node) :
       /\ results' = [results EXCEPT ![host] = Append(@, [out |-> o, saw |-> reg])]
       /\ hostStates' = [hostStates EXCEPT ![host] = Count(@, o)]
       /\ reg' = Writer(node, o, host, reg)
  /\ IF node < NNodes THEN node' = node + 1 /\ UNCHANGED host
                      ELSE node' = 1 /\ host' = host + 1
  /\ UNCHANGED <<targets, given, main>>

(* Mutant: the counters of a failed task's host are not updated. *)
RunNodeUncounted ==
  /\ AtVisit /\ HasTurn
  /\ \E o \in OutcomesOf(node) :
       /\ results' = [results EXCEPT ![host] = Append(@, [out |-> o, saw |-> reg])]
       /\ hostStates' = IF o = "failed" THEN hostStates
                        ELSE [hostStates EXCEPT ![host] = Count(@, o)]
       /\ reg' = Writer(node, o, host, reg)
  /\ host' = host + 1
  /\ UNCHANGED <<targets, given, main, node>>

RunNode ==
  /\ AtVisit
  /\ HasTurn
  /\ \E o \in OutcomesOf(node) :
       /\ results' = [results EXCEPT ![host] = Append(@, [out |-> o, saw |-> reg])]
       /\ hostStates' = [hostStates EXCEPT ![host] = Count(@, o)]
       /\ reg' = Writer(node, o, host, reg)
  /\ host' = host + 1
  /\ UNCHANGED <<targets, given, main, node>>

(* `?` on executor.run: the call returns Err, all_results is dropped and     *)
(* host_states keeps what was counted so far.                                *)
NodeErr ==
  /\ AtVisit
  /\ HasTurn
  /\ main' = "err"
  /\ UNCHANGED <<targets, given, node, host, hostStates, results, reg>>

(* Mutant: the inner loop starts over before its first host. *)
NextNodeOffByOne ==
  /\ main = "run" /\ node <= NNodes /\ host > NHosts
  /\ node' = node + 1
  /\ host' = 0
  /\ UNCHANGED <<targets, given, main, hostStates, results, reg>>

NextNode ==
  /\ main = "run" /\ node <= NNodes /\ host > NHosts
  /\ node' = node + 1
  /\ host' = 1
  /\ UNCHANGED <<targets, given, main, hostStates, results, reg>>

(* Mutant: the walk waits for a host that is still active. *)
ReturnOkIfActive ==
  /\ main = "run" /\ node > NNodes
  /\ \E h \in targets : IsActive(hostStates[h])
  /\ main' = "ok"
  /\ UNCHANGED <<targets, given, node, host, hostStates, results, reg>>

ReturnOk ==
  /\ main = "run" /\ node > NNodes
  /\ main' = "ok"
  /\ UNCHANGED <<targets, given, node, host, hostStates, results, reg>>

Next ==
  \/ SkipHost
  \/ RunNode
  \/ NodeErr
  \/ NextNode
  \/ ReturnOk

Spec == Init /\ [][Next]_vars

(* The calling thread runs, and every module invocation returns. *)
FairSpec == Spec /\ WF_vars(Next)

-----------------------------------------------------------------------------
(* Every variable keeps its type. *)
TypeOK ==
  /\ targets \subseteq Hosts
  /\ given \in [Hosts -> HostStates]
  /\ main \in {"run", "ok", "err"}
  /\ node \in 1..(NNodes + 1)
  /\ host \in 1..(NHosts + 1)
  /\ hostStates \in [Hosts -> HostStates]
  /\ results \in [Hosts -> Seq(Entries)]
  /\ reg \in 0..NHosts

(* "tasks run on all hosts before advancing to the next task": no host is    *)
(* ahead of a host that can still run by more than the current node, nor     *)
(* ahead at all of an active host that comes before it in the list.          *)
Lockstep ==
  \A g, h \in targets : IsActive(hostStates[g]) =>
    /\ Len(results[g]) + 1 >= Len(results[h])
    /\ g < h => Len(results[g]) >= Len(results[h])

(* host_states is never behind or ahead of the results: at every moment, so  *)
(* also when an Err drops the results, flag and counters of a host are those *)
(* of the nodes it has run since the call began.                             *)
StatesMatchResults ==
  \A h \in Hosts :
    /\ hostStates[h].failed <=> given[h].failed \/ Times(results[h], Fatal) = 1
    /\ hostStates[h].changed = Times(results[h], {"changed"})
    /\ hostStates[h].ok = Times(results[h], {"ok", "skipped"})

(* PHASES.md, "Register variable isolation per-host": a node of host h only  *)
(* sees a registered variable that h itself wrote, or that was there before. *)
RegisterIsolation ==
  \A h \in Hosts : \A i \in DOMAIN results[h] : results[h][i].saw \in {0, h}

(* The call returns. *)
CallReturns == <>(main # "run")

(* The linear walk implements HostRuns.  A host the walk gave up on is the   *)
(* one the cursor stands at.                                                 *)
HR == INSTANCE HostRuns WITH
        down    <- {h \in Hosts : h \notin targets \/ given[h].failed},
        runs    <- [h \in Hosts |-> Outs(results[h])],
        broken  <- IF main = "err" THEN {host} ELSE {},
        verdict <- IF main = "run" THEN "none" ELSE main,
        report  <- [h \in Hosts |-> IF main = "ok" THEN Outs(results[h])
                                                  ELSE NoEntry]

ImplementsHostRuns == HR!Spec
=============================================================================
