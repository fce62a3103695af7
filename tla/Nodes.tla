------------------------------- MODULE Nodes --------------------------------
(* The node list of a play and the HostState a strategy keeps for each host  *)
(* while it runs it.  What the executor does to a node (see TaskRunner for a *)
(* task, BlockWalk for a block) is summed up in one outcome.                 *)
EXTENDS Naturals, Sequences, FiniteSets

CONSTANTS NHosts,    \* hosts.len()
          NNodes,    \* tasks.len()
          Kind,      \* Kind[n]: "task" or "block"
          Registers, \* tasks that carry `register:` and no loop
          NoEntry    \* absence of a key in a HashMap

Hosts == 1..NHosts
NodeIds == 1..NNodes

ASSUME NodesAssumption ==
  /\ NHosts \in Nat
  /\ NNodes \in Nat
  /\ Kind \in [NodeIds -> {"task", "block"}]
  /\ Registers \subseteq {n \in NodeIds : Kind[n] = "task"}

(* HostState::new and is_active: nothing in the executor ever sets           *)
(* `unreachable`, so a host is active until it has failed.                   *)
HostStates == [failed : BOOLEAN, changed : Nat, ok : Nat]
Fresh == [failed |-> FALSE, changed |-> 0, ok |-> 0]
FailedBefore == [failed |-> TRUE, changed |-> 0, ok |-> 0]
IsActive(s) == ~s.failed

(* What one visit of a node can leave: a task is skipped, ok, changed or     *)
(* failed; a block leaves the host active or failed and touches no counter.  *)
TaskOutcomes  == {"skipped", "ok", "changed", "failed"}
BlockOutcomes == {"blockOk", "blockFailed"}
Outcomes == TaskOutcomes \union BlockOutcomes
Fatal == {"failed", "blockFailed"}
OutcomesOf(n) == IF Kind[n] = "task" THEN TaskOutcomes ELSE BlockOutcomes

(* A skipped task is not `changed`, so it is counted as ok. *)
Count(s, o) ==
  [failed  |-> s.failed \/ o \in Fatal,
   changed |-> s.changed + (IF o = "changed" THEN 1 ELSE 0),
   ok      |-> s.ok + (IF o \in {"ok", "skipped"} THEN 1 ELSE 0)]

(* One entry of a host's results: the outcome of a node and the writer of    *)
(* the registered variable that the node could see (0: it was there before   *)
(* the call, or nobody has written it).                                      *)
Entries == [out : Outcomes, saw : 0..NHosts]

(* post_task: a task that was not skipped stores its result under the name   *)
(* it registers, whether it failed or not.                                   *)
Writer(n, o, h, old) == IF n \in Registers /\ o # "skipped" THEN h ELSE old

(* How often an outcome of O occurs in a host's results. *)
Times(r, O) == Cardinality({i \in DOMAIN r : r[i].out \in O})

(* The outcomes alone, for the refinement to HostRuns. *)
Outs(r) == [i \in DOMAIN r |-> r[i].out]
=============================================================================
