---------------------------- MODULE LinearProofs ----------------------------
(* Proofs about Linear, for every number of hosts and nodes.                 *)
EXTENDS Linear, FiniteSetTheorems, TLAPS

(* The inductive invariant.  Progress(h) is how many nodes the walk has      *)
(* taken past host h: an active host has run them all, another one at most   *)
(* as many; TypeOK alone says nothing of how far the hosts are apart.        *)
Progress(h) == node - 1 + (IF h < host THEN 1 ELSE 0)

LenInv ==
  /\ node > NNodes => host = 1
  /\ \A h \in Hosts :
       /\ Len(results[h]) <= Progress(h)
       /\ h \notin targets => results[h] = <<>>
       /\ h \in targets /\ IsActive(hostStates[h]) => Len(results[h]) = Progress(h)

(* A host is failed for a reason one can see: the caller said so, or the     *)
(* last node it ran left it failed.                                          *)
LastFatal(h) == Len(results[h]) > 0 /\ results[h][Len(results[h])].out \in Fatal
FailInv ==
  \A h \in Hosts : IsActive(hostStates[h]) <=> ~given[h].failed /\ ~LastFatal(h)

(* Who returns Ok has visited every node, who returns Err stopped at a host  *)
(* that had a turn.                                                          *)
ReturnInv ==
  /\ main = "ok" => node > NNodes
  /\ main = "err" => node <= NNodes /\ host <= NHosts /\ HasTurn

IInv == TypeOK /\ LenInv /\ FailInv /\ ReturnInv

-----------------------------------------------------------------------------
(* What a node adds to a host's results and to its HostState.                *)

LEMMA CountType ==
  ASSUME NEW s \in HostStates, NEW o
  PROVE  /\ Count(s, o) \in HostStates
         /\ Count(s, o).failed = (s.failed \/ o \in Fatal)
<1>1. (s.failed \/ o \in Fatal) \in BOOLEAN /\ s.changed \in Nat /\ s.ok \in Nat
  BY DEF HostStates
<1> QED
  BY <1>1 DEF Count, HostStates

(* The outcomes of a run are as many as its entries, and those of a longer   *)
(* run are those of the run and the new one.                                 *)
LEMMA OutsAppend ==
  ASSUME NEW r \in Seq(Entries)
  PROVE  /\ Len(Outs(r)) = Len(r)
         /\ \A i \in 1..Len(r) : r[i].out \in Outcomes /\ Outs(r)[i] = r[i].out
         /\ \A e \in Entries : Outs(Append(r, e)) = Append(Outs(r), e.out)
<1>1. DOMAIN r = 1..Len(r) /\ Len(r) \in Nat /\ \A i \in 1..Len(r) : r[i] \in Entries
  OBVIOUS
<1>2. \A e \in Entries : e.out \in Outcomes
  BY Zenon DEF Entries
<1>3. Outs(r) = [i \in 1..Len(r) |-> r[i].out]
  BY <1>1 DEF Outs
<1>4. Outs(r) \in Seq(Outcomes) /\ Len(Outs(r)) = Len(r)
  BY <1>1, <1>2, <1>3
<1>5. ASSUME NEW e \in Entries PROVE Outs(Append(r, e)) = Append(Outs(r), e.out)
  <2>1. DOMAIN Append(r, e) = 1..(Len(r) + 1)
    BY <1>1
  <2>2. Outs(Append(r, e)) = [i \in 1..(Len(r) + 1) |-> Append(r, e)[i].out]
    BY <2>1 DEF Outs
  <2> QED
    BY <1>1, <1>2, <1>3, <1>4, <2>2
<1> QED
  BY <1>1, <1>2, <1>3, <1>4, <1>5

(* One entry more counts once more if its outcome is one of O. *)
LEMMA TimesAppend ==
  ASSUME NEW r \in Seq(Entries), NEW e \in Entries, NEW O
  PROVE  Times(Append(r, e), O) = Times(r, O) + (IF e.out \in O THEN 1 ELSE 0)
<1> DEFINE n == Len(r)
           At(s) == {i \in DOMAIN s : s[i].out \in O}
<1>1. n \in Nat /\ At(r) \subseteq 1..n /\ n + 1 \notin At(r)
  OBVIOUS
<1>2. IsFiniteSet(At(r)) /\ Cardinality(At(r)) \in Nat
  <2>1. IsFiniteSet(1..n)
    BY <1>1, FS_Interval
  <2> QED
    BY <1>1, <2>1, FS_Subset, FS_CardinalityType
<1>3. At(Append(r, e)) = IF e.out \in O THEN At(r) \union {n + 1} ELSE At(r)
  OBVIOUS
<1>4. Cardinality(At(r) \union {n + 1}) = Cardinality(At(r)) + 1
  BY <1>1, <1>2, FS_AddElement
<1>5. Times(r, O) = Cardinality(At(r)) /\ Times(Append(r, e), O) = Cardinality(At(Append(r, e)))
  BY Zenon DEF Times
<1> HIDE DEF At
<1> QED
  BY <1>2, <1>3, <1>4, <1>5

(* A HostState tells of the results beside it: its counters are theirs, and  *)
(* its flag one fatal outcome among them, but for a host that was `down`     *)
(* from the start.                                                           *)
Tallied(s, r, down) ==
  /\ s.changed = Times(r, {"changed"})
  /\ s.ok = Times(r, {"ok", "skipped"})
  /\ Times(r, Fatal) = IF s.failed /\ ~down THEN 1 ELSE 0

(* Those a call may start with tell of no results, and counting an outcome   *)
(* and adding its entry keeps state and results together.                    *)
LEMMA TalliedStart ==
  ASSUME NEW s \in {Fresh, FailedBefore}
  PROVE  s \in HostStates /\ Tallied(s, <<>>, s.failed)
<1>1. \A O : Times(<<>>, O) = 0
  BY FS_EmptySet DEF Times
<1>2. s \in HostStates /\ s.changed = 0 /\ s.ok = 0
  <2>1. CASE s = Fresh
    BY <2>1 DEF Fresh, HostStates
  <2>2. CASE s = FailedBefore
    BY <2>2 DEF FailedBefore, HostStates
  <2> QED
    BY <2>1, <2>2
<1>3. (IF s.failed /\ ~s.failed THEN 1 ELSE 0) = 0
  OBVIOUS
<1> QED
  BY <1>1, <1>2, <1>3, Zenon DEF Tallied

LEMMA TalliedCount ==
  ASSUME NEW s \in HostStates, NEW r \in Seq(Entries), NEW e \in Entries,
         ~s.failed, Tallied(s, r, FALSE)
  PROVE  Tallied(Count(s, e.out), Append(r, e), FALSE)
<1> DEFINE c == Count(s, e.out)
           By(O) == IF e.out \in O THEN 1 ELSE 0
<1>1. c.failed <=> e.out \in Fatal
  BY CountType
<1>2. c.changed = s.changed + By({"changed"}) /\ c.ok = s.ok + By({"ok", "skipped"})
  BY DEF Count
<1>3. \A O : Times(Append(r, e), O) = Times(r, O) + By(O)
  BY TimesAppend
<1>4. Times(r, Fatal) = 0
  BY DEF Tallied
<1> HIDE DEF c
<1> QED
  BY <1>1, <1>2, <1>3, <1>4 DEF Tallied, c

-----------------------------------------------------------------------------
(* The initial states satisfy the invariant. *)
LEMMA InitIInv == Init => IInv
<1> SUFFICES ASSUME Init PROVE IInv
  OBVIOUS
<1> USE DEF Init
<1>1. NHosts \in Nat /\ NNodes \in Nat
  BY NodesAssumption
<1>2. given \in [Hosts -> HostStates]
  BY TalliedStart
<1>3. TypeOK
  BY <1>1, <1>2 DEF TypeOK, Hosts
<1>4. \A h \in Hosts : Progress(h) = 0
  BY <1>1 DEF Progress, Hosts
<1>5. LenInv
  BY <1>1, <1>4 DEF LenInv, Hosts
<1>6. FailInv
  BY DEF FailInv, LastFatal, IsActive
<1> QED
  BY <1>3, <1>5, <1>6 DEF IInv, ReturnInv

(* The cursors are numbers. *)
LEMMA Cursors ==
  ASSUME TypeOK
  PROVE  /\ NHosts \in Nat /\ NNodes \in Nat /\ node \in Nat /\ host \in Nat
         /\ node >= 1 /\ host >= 1 /\ host <= NHosts + 1
         /\ \A h \in Hosts : Len(results[h]) \in Nat /\ h \in Nat /\ h <= NHosts /\ h >= 1
  BY NodesAssumption DEF TypeOK, Hosts

(* A host that is passed over had no turn. *)
LEMMA SkipStep == IInv /\ SkipHost => IInv'
<1> SUFFICES ASSUME IInv, SkipHost PROVE IInv'
  OBVIOUS
<1> USE DEF SkipHost, AtVisit
<1>1. TypeOK' /\ FailInv' /\ ReturnInv'
  BY Cursors DEF IInv, TypeOK, FailInv, LastFatal, ReturnInv
<1>2. LenInv'
  <2> SUFFICES ASSUME NEW h \in Hosts
               PROVE  /\ Len(results[h]) <= Progress(h)'
                      /\ h \in targets /\ IsActive(hostStates[h]) => Len(results[h]) = Progress(h)'
    BY Cursors DEF IInv, LenInv
  <2>1. CASE h = host
    BY <2>1, Cursors DEF IInv, LenInv, Progress, HasTurn
  <2>2. CASE h # host
    BY <2>2, Cursors DEF IInv, LenInv, Progress
  <2> QED
    BY <2>1, <2>2
<1> QED
  BY <1>1, <1>2 DEF IInv

(* A visit, said without the choice of its outcome: the entry it appends and *)
(* what it makes of the host's state.                                        *)
LEMMA Visit ==
  ASSUME IInv, RunNode
  PROVE  /\ host \in Hosts /\ results \in [Hosts -> Seq(Entries)]
         /\ \E o \in Outcomes :
              LET e == [out |-> o, saw |-> reg]
              IN  /\ e \in Entries
                  /\ results' = [results EXCEPT ![host] = Append(@, e)]
                  /\ hostStates' = [hostStates EXCEPT ![host] = Count(@, o)]
                  /\ reg' = Writer(node, o, host, reg)
<1>1. host \in Hosts
  BY Cursors DEF IInv, RunNode, AtVisit, Hosts
<1>2. PICK o \in OutcomesOf(node) :
        /\ results' = [results EXCEPT ![host] = Append(@, [out |-> o, saw |-> reg])]
        /\ hostStates' = [hostStates EXCEPT ![host] = Count(@, o)]
        /\ reg' = Writer(node, o, host, reg)
  BY DEF RunNode
<1>3. o \in Outcomes
  BY DEF OutcomesOf, Outcomes
<1>4. reg \in 0..NHosts
  BY DEF IInv, TypeOK
<1>5. [out |-> o, saw |-> reg] \in Entries
  BY <1>3, <1>4, Zenon DEF Entries
<1> QED
  BY <1>1, <1>2, <1>3, <1>5 DEF IInv, TypeOK

(* A node run for the host the cursor stands at keeps the invariant. *)
LEMMA RunNodeStep == IInv /\ RunNode => IInv'
<1> SUFFICES ASSUME IInv, RunNode PROVE IInv'
  OBVIOUS
<1>1. host \in Hosts /\ results \in [Hosts -> Seq(Entries)]
  BY Visit
<1>2. PICK o \in Outcomes :
        /\ [out |-> o, saw |-> reg] \in Entries
        /\ results' = [results EXCEPT ![host] = Append(@, [out |-> o, saw |-> reg])]
        /\ hostStates' = [hostStates EXCEPT ![host] = Count(@, o)]
        /\ reg' = Writer(node, o, host, reg)
  BY Visit, Zenon
<1> DEFINE e == [out |-> o, saw |-> reg]
<1>3. /\ host' = host + 1 /\ targets' = targets /\ given' = given /\ main' = main /\ node' = node
      /\ main = "run" /\ node <= NNodes /\ host <= NHosts
      /\ host \in targets /\ IsActive(hostStates[host])
  BY DEF RunNode, AtVisit, HasTurn
<1>4. \A h \in Hosts : h # host => results'[h] = results[h] /\ hostStates'[h] = hostStates[h]
  BY <1>2 DEF IInv, TypeOK
<1>5. results'[host] = Append(results[host], e) /\ hostStates'[host] = Count(hostStates[host], o)
  BY <1>1, <1>2 DEF IInv, TypeOK
<1>6. Len(results'[host]) = Len(results[host]) + 1 /\ results'[host][Len(results[host]) + 1] = e
  BY <1>1, <1>2, <1>5
<1>7. TypeOK'
  <2>1. results' \in [Hosts -> Seq(Entries)]
    BY <1>1, <1>2
  <2>2. hostStates' \in [Hosts -> HostStates]
    BY <1>1, <1>2, CountType DEF IInv, TypeOK
  <2>3. reg' \in 0..NHosts
    BY <1>1, <1>2, NodesAssumption DEF Writer, IInv, TypeOK, Hosts
  <2>4. host' \in 1..(NHosts + 1)
    BY <1>3, Cursors DEF IInv
  <2> QED
    BY <1>3, <2>1, <2>2, <2>3, <2>4 DEF IInv, TypeOK
<1>8. LenInv'
  <2> SUFFICES ASSUME NEW h \in Hosts
               PROVE  /\ Len(results'[h]) <= Progress(h)'
                      /\ h \notin targets => results'[h] = <<>>
                      /\ h \in targets /\ IsActive(hostStates'[h]) =>
                           Len(results'[h]) = Progress(h)'
    BY <1>3, Cursors DEF IInv, LenInv
  <2>1. CASE h = host
    <3>1. Len(results[h]) = node - 1 /\ Progress(h)' = node
      BY <2>1, <1>3, Cursors DEF IInv, LenInv, Progress
    <3> QED
      BY <2>1, <3>1, <1>3, <1>6, Cursors DEF IInv
  <2>2. CASE h # host
    BY <2>2, <1>3, <1>4, Cursors DEF IInv, LenInv, Progress
  <2> QED
    BY <2>1, <2>2
<1>9. FailInv'
  <2> SUFFICES ASSUME NEW h \in Hosts
               PROVE  IsActive(hostStates'[h]) <=> ~given[h].failed /\ ~LastFatal(h)'
    BY <1>3 DEF FailInv
  <2>1. CASE h = host
    <3>1. LastFatal(h)' <=> o \in Fatal
      BY <2>1, <1>6, Cursors DEF LastFatal, IInv
    <3>2. Count(hostStates[h], o).failed = (hostStates[h].failed \/ o \in Fatal)
      BY Zenon DEF Count
    <3>3. IsActive(hostStates[h]) /\ ~given[h].failed
      BY <2>1, <1>3 DEF IInv, FailInv
    <3> QED
      BY <2>1, <1>5, <3>1, <3>2, <3>3, Zenon DEF IsActive
  <2>2. CASE h # host
    BY <2>2, <1>4 DEF IInv, FailInv, LastFatal
  <2> QED
    BY <2>1, <2>2
<1> QED
  BY <1>3, <1>7, <1>8, <1>9 DEF IInv, ReturnInv

(* Going on to the next node keeps the invariant. *)
LEMMA NextNodeStep == IInv /\ NextNode => IInv'
<1> SUFFICES ASSUME IInv, NextNode PROVE IInv'
  OBVIOUS
<1> USE DEF NextNode
<1>1. TypeOK' /\ FailInv' /\ ReturnInv'
  BY Cursors DEF IInv, TypeOK, FailInv, LastFatal, ReturnInv
<1>2. \A h \in Hosts : Progress(h)' = Progress(h)
  BY Cursors DEF Progress, IInv
<1>3. LenInv'
  BY <1>2 DEF IInv, LenInv
<1> QED
  BY <1>1, <1>3 DEF IInv

(* Returning keeps the invariant. *)
LEMMA ReturnStep == IInv /\ (NodeErr \/ ReturnOk) => IInv'
<1> SUFFICES ASSUME IInv, NodeErr \/ ReturnOk PROVE IInv'
  OBVIOUS
<1> USE DEF NodeErr, ReturnOk, AtVisit
<1>1. TypeOK' /\ FailInv'
  BY DEF IInv, TypeOK, FailInv, LastFatal
<1>2. LenInv'
  BY DEF IInv, LenInv, Progress
<1>3. ReturnInv'
  BY DEF ReturnInv, HasTurn
<1> QED
  BY <1>1, <1>2, <1>3 DEF IInv

(* Every step keeps the invariant. *)
LEMMA StepIInv == IInv /\ [Next]_vars => IInv'
<1>1. IInv /\ UNCHANGED vars => IInv'
  BY DEF vars, IInv, TypeOK, LenInv, Progress, FailInv, LastFatal, ReturnInv, HasTurn
<1> QED
  BY <1>1, SkipStep, RunNodeStep, NextNodeStep, ReturnStep DEF Next

(* The invariant holds in every reachable state. *)
THEOREM Invariance == Spec => []IInv
  BY InitIInv, StepIInv, PTL DEF Spec

(* Every variable of the linear walk keeps its type. *)
THEOREM TypeCorrect == Spec => []TypeOK
<1>1. IInv => TypeOK
  BY DEF IInv
<1> QED
  BY <1>1, Invariance, PTL

(* Hosts advance through the nodes together, for every number of hosts.      *)
THEOREM HostsInLockstep == Spec => []Lockstep
<1>1. IInv => Lockstep
  <2> SUFFICES ASSUME IInv, NEW g \in targets, NEW h \in targets, IsActive(hostStates[g])
               PROVE  /\ Len(results[g]) + 1 >= Len(results[h])
                      /\ g < h => Len(results[g]) >= Len(results[h])
    BY DEF Lockstep
  <2>1. g \in Hosts /\ h \in Hosts
    BY DEF IInv, TypeOK
  <2>2. Len(results[g]) = Progress(g) /\ Len(results[h]) <= Progress(h)
    BY <2>1 DEF IInv, LenInv
  <2>3. node \in Nat /\ host \in Nat /\ g \in Nat /\ h \in Nat
    BY <2>1, Cursors DEF IInv
  <2> QED
    BY <2>2, <2>3 DEF Progress
<1> QED
  BY <1>1, Invariance, PTL

-----------------------------------------------------------------------------
(* What a host's state says of its results.  A host that was down when the   *)
(* call was made has none; one that is active has had no fatal outcome, so   *)
(* the next one is the first.                                                *)
TallyInv ==
  /\ given \in [Hosts -> {Fresh, FailedBefore}]
  /\ \A h \in Hosts : Tallied(hostStates[h], results[h], given[h].failed)

LEMMA InitTally == Init => TallyInv
  BY TalliedStart DEF Init, TallyInv

LEMMA StepTally == IInv /\ TallyInv /\ [Next]_vars => TallyInv'
<1> SUFFICES ASSUME IInv, TallyInv, [Next]_vars PROVE TallyInv'
  OBVIOUS
<1>1. CASE RunNode
  <2>1. host \in Hosts /\ results \in [Hosts -> Seq(Entries)]
    BY <1>1, Visit
  <2>2. PICK o \in Outcomes :
          /\ [out |-> o, saw |-> reg] \in Entries
          /\ results' = [results EXCEPT ![host] = Append(@, [out |-> o, saw |-> reg])]
          /\ hostStates' = [hostStates EXCEPT ![host] = Count(@, o)]
    BY <1>1, Visit, Zenon
  <2> DEFINE e == [out |-> o, saw |-> reg]
  <2>3. given' = given /\ IsActive(hostStates[host])
    BY <1>1 DEF RunNode, HasTurn
  <2>4. SUFFICES ASSUME NEW h \in Hosts
                 PROVE  Tallied(hostStates'[h], results'[h], given[h].failed)
    BY <2>3 DEF TallyInv
  <2>5. CASE h # host
    <3>1. hostStates'[h] = hostStates[h] /\ results'[h] = results[h]
      BY <2>1, <2>2, <2>5 DEF IInv, TypeOK
    <3> QED
      BY <3>1 DEF TallyInv
  <2>6. CASE h = host
    <3>1. hostStates[h] \in HostStates /\ ~hostStates[h].failed /\ given[h].failed = FALSE
      <4>1. given[h].failed \in BOOLEAN
        BY DEF IInv, TypeOK, HostStates
      <4> QED
        BY <2>3, <2>6, <4>1 DEF IInv, TypeOK, FailInv, IsActive
    <3>2. Tallied(hostStates[h], results[h], FALSE)
      BY <3>1 DEF TallyInv
    <3>3. e \in Entries /\ results[h] \in Seq(Entries) /\ e.out = o
      BY <2>1, <2>2
    <3>4. Tallied(Count(hostStates[h], o), Append(results[h], e), FALSE)
      BY <3>1, <3>2, <3>3, TalliedCount
    <3>5. hostStates'[h] = Count(hostStates[h], o) /\ results'[h] = Append(results[h], e)
      BY <2>1, <2>2, <2>6 DEF IInv, TypeOK
    <3> QED
      BY <3>1, <3>4, <3>5
  <2> QED
    BY <2>5, <2>6
<1>2. CASE SkipHost \/ NextNode \/ NodeErr \/ ReturnOk \/ UNCHANGED vars
  BY <1>2 DEF TallyInv, SkipHost, NextNode, NodeErr, ReturnOk, vars
<1> QED
  BY <1>1, <1>2 DEF Next

(* Flag and counters of a host are those of the nodes it has run since the   *)
(* call began, for any number of hosts and nodes, also when an Err drops the *)
(* results.                                                                  *)
THEOREM StatesTellResults == Spec => []StatesMatchResults
<1>1. IInv /\ TallyInv => StatesMatchResults
  <2> SUFFICES ASSUME IInv, TallyInv, NEW h \in Hosts
               PROVE  /\ hostStates[h].failed <=> given[h].failed \/ Times(results[h], Fatal) = 1
                      /\ hostStates[h].changed = Times(results[h], {"changed"})
                      /\ hostStates[h].ok = Times(results[h], {"ok", "skipped"})
    BY DEF StatesMatchResults
  <2>1. Tallied(hostStates[h], results[h], given[h].failed)
    BY DEF TallyInv
  <2>2. given[h].failed => hostStates[h].failed
    BY DEF IInv, FailInv, IsActive
  <2> QED
    BY <2>1, <2>2 DEF Tallied
<1> QED
  BY <1>1, InitTally, StepTally, Invariance, PTL DEF Spec

-----------------------------------------------------------------------------
(* The refinement.  The abstract variables, under the refinement mapping.    *)
DownBar    == {h \in Hosts : h \notin targets \/ given[h].failed}
RunsBar    == [h \in Hosts |-> Outs(results[h])]
BrokenBar  == IF main = "err" THEN {host} ELSE {}
VerdictBar == IF main = "run" THEN "none" ELSE main
ReportBar  == [h \in Hosts |-> IF main = "ok" THEN Outs(results[h]) ELSE NoEntry]
bars == <<DownBar, RunsBar, BrokenBar, VerdictBar, ReportBar>>

(* The walk passes a host over exactly when the abstract one has nothing     *)
(* left for it, until it has taken the last node past it.                    *)
LEMMA TurnMeansIncomplete ==
  ASSUME IInv, NEW h \in Hosts
  PROVE  HR!Complete(h) <=> \/ h \notin targets \/ ~IsActive(hostStates[h])
                            \/ Len(results[h]) = NNodes
<1>1. results[h] \in Seq(Entries)
  BY DEF IInv, TypeOK
<1>2. Outs(results[h]) = RunsBar[h]
  BY DEF RunsBar
<1>3. HR!Complete(h) <=> \/ h \notin targets \/ given[h].failed
                         \/ Len(Outs(results[h])) = NNodes
                         \/ /\ Len(Outs(results[h])) > 0
                            /\ Outs(results[h])[Len(Outs(results[h]))] \in Fatal
  BY DEF HR!Complete
<1>4. /\ Len(Outs(results[h])) = Len(results[h])
      /\ Len(results[h]) > 0 =>
           Outs(results[h])[Len(results[h])] = results[h][Len(results[h])].out
  BY <1>1, OutsAppend
<1>5. HR!Complete(h) <=> \/ h \notin targets \/ given[h].failed
                         \/ Len(results[h]) = NNodes \/ LastFatal(h)
  BY <1>3, <1>4 DEF LastFatal
<1> QED
  BY <1>5 DEF IInv, FailInv

(* Initial states map to initial states. *)
LEMMA InitMaps == Init => HR!Init
<1> SUFFICES ASSUME Init PROVE HR!Init
  OBVIOUS
<1> USE DEF Init
<1>1. Outs(<<>>) = <<>>
  BY DEF Outs
<1>2. HR!Hosts = Hosts
  BY DEF HR!Hosts, Hosts
<1>3. DownBar \in SUBSET Hosts
  BY DEF DownBar
<1>4. RunsBar = [h \in Hosts |-> <<>>]
  BY <1>1 DEF RunsBar
<1>5. BrokenBar = {} /\ VerdictBar = "none" /\ ReportBar = [h \in Hosts |-> NoEntry]
  BY DEF BrokenBar, VerdictBar, ReportBar
<1> QED
  BY <1>2, <1>3, <1>4, <1>5
     DEF HR!Init, DownBar, RunsBar, BrokenBar, VerdictBar, ReportBar

(* A visit is one abstract node of its host. *)
LEMMA RunNodeMaps ==
  ASSUME IInv, RunNode
  PROVE  host \in Hosts /\ HR!RunNode(host)
<1>1. host \in Hosts /\ results \in [Hosts -> Seq(Entries)]
  BY Visit
<1>2. PICK o \in Outcomes :
        /\ [out |-> o, saw |-> reg] \in Entries
        /\ results' = [results EXCEPT ![host] = Append(@, [out |-> o, saw |-> reg])]
  BY Visit, Zenon
<1>3. /\ main = "run" /\ main' = main /\ targets' = targets /\ given' = given
      /\ node <= NNodes /\ host \in targets /\ IsActive(hostStates[host])
  BY DEF RunNode, AtVisit, HasTurn
<1>4. UNCHANGED <<DownBar, BrokenBar, VerdictBar, ReportBar>> /\ BrokenBar = {}
  BY <1>3 DEF DownBar, BrokenBar, VerdictBar, ReportBar
<1>5. ~HR!Complete(host)
  <2>1. Len(results[host]) = node - 1
    BY <1>1, <1>3, Cursors DEF IInv, LenInv, Progress
  <2> QED
    BY <1>1, <1>3, <2>1, TurnMeansIncomplete, Cursors DEF IInv
<1>6. Outs(Append(results[host], [out |-> o, saw |-> reg])) = Append(Outs(results[host]), o)
  BY <1>1, <1>2, OutsAppend
<1>7. RunsBar' = [RunsBar EXCEPT ![host] = Append(@, o)]
  <2>1. ASSUME NEW h \in Hosts
        PROVE  Outs(results'[h]) = IF h = host THEN Append(Outs(results[h]), o)
                                               ELSE Outs(results[h])
    BY <1>1, <1>2, <1>6
  <2> QED
    BY <2>1 DEF RunsBar
<1> QED
  BY <1>1, <1>4, <1>5, <1>7
     DEF HR!RunNode, DownBar, RunsBar, BrokenBar, VerdictBar, ReportBar

(* An Err breaks the host at the cursor and is the verdict at once. *)
LEMMA NodeErrMaps ==
  ASSUME IInv, NodeErr
  PROVE  host \in Hosts /\ HR!Break(host)
<1>1. /\ main = "run" /\ main' = "err" /\ node <= NNodes /\ host <= NHosts
      /\ host \in targets /\ IsActive(hostStates[host])
      /\ UNCHANGED <<targets, given, host, results>>
  BY DEF NodeErr, AtVisit, HasTurn
<1>2. host \in Hosts
  BY <1>1, Cursors DEF IInv, Hosts
<1>3. UNCHANGED <<DownBar, RunsBar, ReportBar>>
  BY <1>1 DEF DownBar, RunsBar, ReportBar
<1>4. /\ BrokenBar = {} /\ BrokenBar' = {host}
      /\ VerdictBar = "none" /\ VerdictBar' = "err"
  BY <1>1 DEF BrokenBar, VerdictBar
<1>5. Len(results[host]) = node - 1
  BY <1>1, <1>2, Cursors DEF IInv, LenInv, Progress
<1>6. ~HR!Complete(host)
  BY <1>1, <1>2, <1>5, TurnMeansIncomplete, Cursors DEF IInv
<1> QED
  BY <1>2, <1>3, <1>4, <1>6
     DEF HR!Break, DownBar, RunsBar, BrokenBar, VerdictBar, ReportBar

(* Ok is returned when the walk is past the last node, so when every host is *)
(* done, and what is reported is what the hosts have run.                    *)
LEMMA ReturnOkMaps ==
  ASSUME IInv, ReturnOk
  PROVE  HR!ReturnOk
<1>1. /\ main = "run" /\ main' = "ok" /\ node > NNodes
      /\ UNCHANGED <<targets, given, host, results>>
  BY DEF ReturnOk
<1>2. UNCHANGED <<DownBar, RunsBar>>
  BY <1>1 DEF DownBar, RunsBar
<1>3. /\ BrokenBar = {} /\ BrokenBar' = {}
      /\ VerdictBar = "none" /\ VerdictBar' = "ok" /\ ReportBar' = RunsBar
  BY <1>1 DEF BrokenBar, VerdictBar, ReportBar, RunsBar
<1>4. HR!Hosts = Hosts
  BY DEF HR!Hosts, Hosts
<1>5. node = NNodes + 1 /\ host = 1
  BY <1>1, NodesAssumption DEF IInv, TypeOK, LenInv
<1>6. ASSUME NEW h \in Hosts
      PROVE  HR!Complete(h)
  <2>1. Progress(h) = NNodes
    BY <1>5, Cursors DEF IInv, Progress
  <2>2. h \in targets /\ IsActive(hostStates[h]) => Len(results[h]) = NNodes
    BY <2>1 DEF IInv, LenInv
  <2> QED
    BY <2>2, TurnMeansIncomplete
<1> QED
  BY <1>2, <1>3, <1>4, <1>6
     DEF HR!ReturnOk, DownBar, RunsBar, BrokenBar, VerdictBar, ReportBar

(* Moving the cursors is invisible. *)
LEMMA CursorStutters ==
  ASSUME SkipHost \/ NextNode \/ UNCHANGED vars
  PROVE  UNCHANGED HR!vars
<1>1. /\ UNCHANGED <<targets, given, main, results>>
      /\ host' # host => main = "run"
  BY DEF SkipHost, AtVisit, NextNode, vars
<1>2. UNCHANGED <<DownBar, RunsBar, BrokenBar, VerdictBar, ReportBar>>
  BY <1>1 DEF DownBar, RunsBar, BrokenBar, VerdictBar, ReportBar
<1> QED
  BY <1>2 DEF HR!vars, DownBar, RunsBar, BrokenBar, VerdictBar, ReportBar

(* Every step of the walk is a step of HostRuns or leaves it unchanged. *)
LEMMA StepMaps == IInv /\ [Next]_vars => [HR!Next]_(HR!vars)
<1> SUFFICES ASSUME IInv, [Next]_vars
             PROVE  HR!Next \/ UNCHANGED HR!vars
  OBVIOUS
<1>1. HR!Hosts = Hosts
  BY DEF HR!Hosts, Hosts
<1>2. CASE SkipHost \/ NextNode \/ UNCHANGED vars
  BY <1>2, CursorStutters
<1>3. CASE RunNode
  BY <1>1, <1>3, RunNodeMaps DEF HR!Next
<1>4. CASE NodeErr
  BY <1>1, <1>4, NodeErrMaps DEF HR!Next
<1>5. CASE ReturnOk
  BY <1>5, ReturnOkMaps DEF HR!Next
<1> QED
  BY <1>2, <1>3, <1>4, <1>5 DEF Next

(* Every behaviour of the linear strategy is one of HostRuns: walking the    *)
(* hosts node by node in one thread is a schedule of their runs.             *)
THEOREM Refinement == Spec => ImplementsHostRuns
<1>1. Spec => HR!Init /\ [][HR!Next]_(HR!vars)
  BY InitMaps, StepMaps, Invariance, PTL DEF Spec
<1> QED
  BY <1>1 DEF ImplementsHostRuns, HR!Spec
=============================================================================
