------------------------------ MODULE HostRuns ------------------------------
(* What a strategy promises, whatever its threads do: every host runs the    *)
(* node list of the play in order and alone, stops after the node that left  *)
(* it failed, and the call returns once.  Ok means every host finished and   *)
(* the report holds each of its runs; Err means some host's executor gave    *)
(* up.  Hosts of a call that returned Err may still be running.              *)
EXTENDS Naturals, Sequences

CONSTANTS NHosts,   \* length of the `hosts` argument
          NNodes,   \* length of the `tasks` argument
          Outcomes, \* what one node can leave behind
          Fatal,    \* the outcomes that leave the host failed
          NoEntry   \* absence of a key in a map

VARIABLES down,     \* hosts that were failed when the call was made
          runs,     \* runs[h]: outcomes of the nodes h has run, in order
          broken,   \* hosts whose executor returned Err or panicked
          verdict,  \* "none" while the call runs, then how it returned
          report    \* the map returned with Ok

vars == <<down, runs, broken, verdict, report>>

Hosts == 1..NHosts

(* A host has nothing left to run. *)
Complete(h) ==
  \/ h \in down
  \/ Len(runs[h]) = NNodes
  \/ Len(runs[h]) > 0 /\ runs[h][Len(runs[h])] \in Fatal

Init ==
  /\ down \in SUBSET Hosts
  /\ runs = [h \in Hosts |-> <<>>]
  /\ broken = {}
  /\ verdict = "none"
  /\ report = [h \in Hosts |-> NoEntry]

RunNode(h) ==
  /\ h \notin broken
  /\ ~Complete(h)
  /\ \E o \in Outcomes : runs' = [runs EXCEPT ![h] = Append(@, o)]
  /\ UNCHANGED <<down, broken, verdict, report>>

(* The executor gives up on h; a caller that runs h itself returns at once. *)
Break(h) ==
  /\ h \notin broken
  /\ ~Complete(h)
  /\ broken' = broken \union {h}
  /\ \/ UNCHANGED verdict
     \/ verdict = "none" /\ verdict' = "err"
  /\ UNCHANGED <<down, runs, report>>

ReturnOk ==
  /\ verdict = "none"
  /\ broken = {}
  /\ \A h \in Hosts : Complete(h)
  /\ verdict' = "ok"
  /\ report' = runs
  /\ UNCHANGED <<down, runs, broken>>

ReturnErr ==
  /\ verdict = "none"
  /\ broken # {}
  /\ verdict' = "err"
  /\ UNCHANGED <<down, runs, broken, report>>

(* The call is refused before any host has been touched. *)
Refuse ==
  /\ verdict = "none"
  /\ broken = {}
  /\ \A h \in Hosts : runs[h] = <<>>
  /\ verdict' = "panic"
  /\ UNCHANGED <<down, runs, broken, report>>

Next ==
  \/ \E h \in Hosts : RunNode(h) \/ Break(h)
  \/ ReturnOk
  \/ ReturnErr
  \/ Refuse

Spec == Init /\ [][Next]_vars
=============================================================================
