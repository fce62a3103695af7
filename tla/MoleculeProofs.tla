--------------------------- MODULE MoleculeProofs ---------------------------
(* Proofs about Molecule, for any platforms, any playbooks and any number of *)
(* commands: what the exit status of a command tells, and which hosts a      *)
(* playbook phase runs against.                                              *)
EXTENDS Molecule, SequenceTheorems, FiniteSetTheorems, TLAPS

Sequence == SequenceOf(command)
PhaseNames == {"create", "prepare", "converge", "idempotence", "verify", "cleanup", "destroy",
               "test", "none"}
PhaseResults == [phase : PhaseNames, success : BOOLEAN]

(* The phases still to run are the end of the sequence. *)
PhasesInv ==
  /\ phases \in Seq(PhaseNames) /\ Len(phases) <= Len(Sequence)
  /\ \A i \in 1..Len(phases) : phases[i] = Sequence[Len(Sequence) - Len(phases) + i]

Passed(n) == \A i \in 1..n : results[i] = [phase |-> Sequence[i], success |-> TRUE]

(* The phases that are over have passed, but for the one whose failure is    *)
(* being cleaned up after.                                                   *)
ResultsInv ==
  /\ results \in Seq(PhaseResults)
  /\ mode = "run" => Len(results) = Len(Sequence) - Len(phases) /\ Passed(Len(results))
  /\ mode = "cleanup" =>
       Len(results) > 0 /\ Passed(Len(results) - 1) /\ ~results[Len(results)].success

(* The instances a Destroy under way has passed, or all after it, are gone   *)
(* but for those `rm -f` failed on.                                          *)
Gone(i) == Platforms[i] \notin running /\ (Platforms[i] \in exists => Platforms[i] \in stuck)
DestroyInv ==
  /\ mode = "cleanup" \/ AtPhase("destroy") => \A i \in 1..(next - 1) : Gone(i)
  /\ mode = "run" /\ phases = <<>> /\ command = "test" => running = {} /\ exists \subseteq stuck

Bounds ==
  /\ command \in Commands \union {"none"}
  /\ mode \in {"idle", "run", "cleanup"}
  /\ next \in 1..(Len(Platforms) + 1)
  /\ running \subseteq Names
  /\ stuck \subseteq exists /\ exists \subseteq Names
  /\ exit \in {"none", "exit0", "exit1", "exit2", "killed"}
  /\ commands \in 0..MaxCommands

IInv == Bounds /\ PhasesInv /\ ResultsInv /\ DestroyInv /\ ExitTellsThePhases

-----------------------------------------------------------------------------
(* Every sequence has a phase, and `test` ends with destroy. *)
LEMMA SequenceFacts ==
  ASSUME NEW c
  PROVE  /\ c \in Commands \union {"none"} => SequenceOf(c) \in Seq(PhaseNames)
         /\ Len(SequenceOf(c)) \in Nat /\ Len(SequenceOf(c)) > 0
         /\ c = "test" => Len(SequenceOf(c)) = 7 /\ SequenceOf(c)[7] = "destroy"
<1>1. CASE c = "test"
  <2>1. SequenceOf(c) = DefaultSequence
    BY <1>1, Zenon DEF SequenceOf
  <2>2. /\ DefaultSequence \in Seq(PhaseNames) /\ Len(DefaultSequence) = 7
        /\ DefaultSequence[7] = "destroy"
    BY DEF DefaultSequence, PhaseNames
  <2>3. /\ SequenceOf(c) \in Seq(PhaseNames) /\ Len(SequenceOf(c)) = 7
        /\ SequenceOf(c)[7] = "destroy"
    BY <2>1, <2>2, Zenon
  <2> QED
    BY <2>3
<1>2. CASE c = "converge"
  <2>1. SequenceOf(c) = <<"create", "converge">>
    BY <1>2, Zenon DEF SequenceOf
  <2>2. <<"create", "converge">> \in Seq(PhaseNames) /\ Len(<<"create", "converge">>) = 2
    BY DEF PhaseNames
  <2>3. SequenceOf(c) \in Seq(PhaseNames) /\ Len(SequenceOf(c)) = 2
    BY <2>1, <2>2, Zenon
  <2> QED
    BY <1>2, <2>3
<1>3. CASE c \notin {"test", "converge"}
  <2>1. c # "test" /\ c # "converge"
    BY <1>3
  <2>2. SequenceOf(c) = <<c>>
    BY <2>1, Zenon DEF SequenceOf
  <2>3. c \in Commands \union {"none"} => <<c>> \in Seq(PhaseNames)
    BY DEF Commands, PhaseNames
  <2>4. Len(<<c>>) = 1
    OBVIOUS
  <2> QED
    BY <2>1, <2>2, <2>3, <2>4
<1> QED
  BY <1>1, <1>2, <1>3

LEMMA PlatformFacts ==
  /\ Len(Platforms) \in Nat
  /\ \A i \in 1..Len(Platforms) : Platforms[i] \in Names
  /\ \A p \in Names : \E i \in 1..Len(Platforms) : p = Platforms[i]
  BY MoleculeAssumption DEF Names

(* The pointwise form of PhasesInv is the one of TypeOK. *)
LEMMA SuffixType == Bounds /\ PhasesInv => TypeOK
<1> SUFFICES ASSUME Bounds, PhasesInv PROVE TypeOK
  OBVIOUS
<1> DEFINE n == Len(Sequence)
           m == n - Len(phases) + 1
<1>1. Sequence \in Seq(PhaseNames) /\ n \in Nat
  BY SequenceFacts DEF Bounds, Sequence
<1>2. m \in 1..(n + 1)
  BY <1>1 DEF PhasesInv
<1>3. /\ SubSeq(Sequence, m, n) \in Seq(PhaseNames)
      /\ Len(SubSeq(Sequence, m, n)) = Len(phases)
      /\ \A i \in 1..Len(phases) : SubSeq(Sequence, m, n)[i] = Sequence[m + i - 1]
  BY <1>1, <1>2 DEF PhasesInv
<1>4. phases = SubSeq(Sequence, m, n)
  <2>1. \A i \in 1..Len(phases) : phases[i] = SubSeq(Sequence, m, n)[i]
    BY <1>1, <1>3 DEF PhasesInv
  <2> QED
    BY <1>3, <2>1, SeqEqual DEF PhasesInv
<1> QED
  BY <1>4 DEF TypeOK, Bounds, Sequence

-----------------------------------------------------------------------------
(* The initial states satisfy the invariant. *)
LEMMA InitIInv == Init => IInv
<1> SUFFICES ASSUME Init PROVE IInv
  OBVIOUS
<1> USE DEF Init
<1>1. Bounds
  BY PlatformFacts, MoleculeAssumption DEF Bounds
<1>2. PhasesInv /\ ResultsInv
  BY SequenceFacts DEF PhasesInv, ResultsInv, Sequence
<1>3. DestroyInv /\ ExitTellsThePhases
  BY DEF DestroyInv, AtPhase, ExitTellsThePhases
<1> QED
  BY <1>1, <1>2, <1>3 DEF IInv

LEMMA StartStep == IInv /\ StartCommand => IInv'
<1> SUFFICES ASSUME IInv, StartCommand PROVE IInv'
  OBVIOUS
<1>1. /\ command' \in Commands /\ phases' = SequenceOf(command') /\ mode' = "run"
      /\ next' = 1 /\ running' = {} /\ results' = <<>> /\ exit' = "none"
      /\ commands < MaxCommands /\ commands' = commands + 1 /\ UNCHANGED <<exists, stuck>>
  BY DEF StartCommand
<1>2. Bounds'
  BY <1>1, PlatformFacts, MoleculeAssumption DEF IInv, Bounds
<1>3. PhasesInv' /\ ResultsInv'
  BY <1>1, SequenceFacts DEF PhasesInv, ResultsInv, Sequence, Passed
<1>4. DestroyInv' /\ ExitTellsThePhases'
  BY <1>1, SequenceFacts DEF DestroyInv, ExitTellsThePhases
<1> QED
  BY <1>2, <1>3, <1>4 DEF IInv

(* A phase that is over leaves the sequence by its head and enters the       *)
(* results; only the last phase of `test`, destroy, leaves nothing behind it.*)
LEMMA PhaseOkKeeps ==
  ASSUME IInv, mode = "run", phases # <<>>, PhaseOk, UNCHANGED command
  PROVE  /\ PhasesInv' /\ ResultsInv' /\ mode' = "run" /\ next' = 1 /\ exit' = exit
         /\ phases' = <<>> /\ command = "test" => Head(phases) = "destroy"
<1> DEFINE S == Sequence
           n == Len(S)
<1>1. /\ results' = Append(results, [phase |-> Head(phases), success |-> TRUE])
      /\ phases' = Tail(phases) /\ next' = 1 /\ UNCHANGED <<mode, exit>>
  BY DEF PhaseOk, PhaseResult
<1>2. S' = S /\ n \in Nat /\ phases \in Seq(PhaseNames) /\ Len(phases) <= n /\ Len(phases) > 0
  BY SequenceFacts DEF Sequence, IInv, PhasesInv
<1>3. \A i \in 1..Len(phases) : phases[i] = S[n - Len(phases) + i]
  BY DEF IInv, PhasesInv
<1>4. /\ Head(phases) = S[n - Len(phases) + 1] /\ Head(phases) \in PhaseNames
      /\ phases' \in Seq(PhaseNames) /\ Len(phases') = Len(phases) - 1
      /\ \A i \in 1..Len(phases') : phases'[i] = phases[i + 1]
  <2>1. /\ Head(phases) = phases[1] /\ 1 \in 1..Len(phases) /\ phases[1] \in PhaseNames
        /\ phases' \in Seq(PhaseNames) /\ Len(phases') = Len(phases) - 1
        /\ \A i \in 1..Len(phases') : phases'[i] = phases[i + 1]
    BY <1>1, <1>2
  <2> QED
    BY <2>1, <1>3
<1>5. PhasesInv'
  BY <1>2, <1>3, <1>4 DEF PhasesInv
<1>6. /\ results \in Seq(PhaseResults)
      /\ Len(results) = n - Len(phases) /\ Passed(Len(results))
  BY DEF IInv, ResultsInv
<1> DEFINE r == [phase |-> Head(phases), success |-> TRUE]
<1>7. r \in PhaseResults /\ results' = Append(results, r)
      /\ r = [phase |-> S[n - Len(phases) + 1], success |-> TRUE]
  BY <1>1, <1>4 DEF PhaseResults
<1> HIDE DEF r
<1>8. /\ results' \in Seq(PhaseResults)
      /\ Len(results') = Len(results) + 1 /\ results'[Len(results) + 1] = r
      /\ \A i \in 1..Len(results) : results'[i] = results[i]
  <2>1. results \in Seq(PhaseResults) /\ r \in PhaseResults /\ results' = Append(results, r)
    BY <1>6, <1>7
  <2> QED
    BY <2>1
<1>9. ResultsInv'
  <2>1. Len(results') = Len(S') - Len(phases')
    BY <1>2, <1>4, <1>6, <1>8
  <2>2. ASSUME NEW i \in 1..Len(results')
        PROVE  results'[i] = [phase |-> S[i], success |-> TRUE]
    <3>1. CASE i = Len(results) + 1
      BY <3>1, <1>6, <1>7, <1>8
    <3>2. CASE i # Len(results) + 1
      <4>1. i \in 1..Len(results)
        <5>1. Len(results) \in Nat /\ Len(results') = Len(results) + 1
          BY <1>6, <1>8
        <5> QED
          BY <3>2, <5>1
      <4> QED
        BY <4>1, <1>6, <1>8 DEF Passed
    <3> QED
      BY <3>1, <3>2
  <2> QED
    BY <1>1, <1>2, <1>8, <2>1, <2>2 DEF ResultsInv, Passed
<1>10. phases' = <<>> /\ command = "test" => Head(phases) = "destroy"
  <2>1. phases' = <<>> => Len(phases) = 1
    BY <1>2, <1>4
  <2>2. command = "test" => n = 7 /\ S[7] = "destroy"
    BY SequenceFacts DEF Sequence
  <2>3. ASSUME phases' = <<>>, command = "test"
        PROVE  n - Len(phases) + 1 = 7
    <3>1. Len(phases) = 1 /\ n = 7
      BY <2>1, <2>2, <2>3, Zenon
    <3> QED
      BY <3>1
  <2> QED
    BY <1>4, <2>2, <2>3
<1> QED
  BY <1>1, <1>5, <1>9, <1>10

(* A failed phase enters the results after those that have passed.           *)
LEMMA PhaseFailedKeeps ==
  ASSUME IInv, mode = "run", phases # <<>>, PhaseFailed, UNCHANGED command
  PROVE  PhasesInv' /\ ResultsInv' /\ mode' = "cleanup" /\ next' = 1 /\ exit' = exit
<1> DEFINE r == [phase |-> Head(phases), success |-> FALSE]
<1>1. /\ results' = Append(results, r) /\ mode' = "cleanup" /\ next' = 1
      /\ UNCHANGED <<phases, exit>>
  BY DEF PhaseFailed, PhaseResult
<1>2. r \in PhaseResults /\ ~r.success
  BY DEF IInv, PhasesInv, PhaseResults
<1>3. results \in Seq(PhaseResults) /\ Passed(Len(results))
  BY DEF IInv, ResultsInv
<1>4. /\ results' \in Seq(PhaseResults)
      /\ Len(results') = Len(results) + 1 /\ results'[Len(results) + 1] = r
      /\ \A i \in 1..Len(results) : results'[i] = results[i]
  BY <1>1, <1>2, <1>3
<1> HIDE DEF r
<1>5. PhasesInv'
  BY <1>1 DEF IInv, PhasesInv, Sequence
<1>6. ResultsInv'
  BY <1>1, <1>2, <1>3, <1>4 DEF ResultsInv, Passed, Sequence
<1> QED
  BY <1>1, <1>5, <1>6

-----------------------------------------------------------------------------
LEMMA CreateStep == IInv /\ CreateInstance => IInv'
<1> SUFFICES ASSUME IInv, CreateInstance PROVE IInv'
  OBVIOUS
<1> DEFINE i == Platforms[next]
<1>1. /\ mode = "run" /\ phases # <<>> /\ Head(phases) = "create" /\ next <= Len(Platforms)
      /\ UNCHANGED <<command, commands, phases, results, stuck>>
      /\ exists' \in {exists, exists \union {i}} /\ running' \in {running, running \union {i}}
      /\ \/ next' = next + 1 /\ UNCHANGED <<mode, exit>>
         \/ next' = next /\ mode' = "idle" /\ exit' = "exit1"
  BY DEF CreateInstance, AtPhase, PhaseErr
<1>2. i \in Names /\ Len(Platforms) \in Nat
  BY <1>1, PlatformFacts DEF IInv, Bounds
<1>3. Bounds'
  BY <1>1, <1>2 DEF IInv, Bounds
<1>4. PhasesInv'
  BY <1>1 DEF IInv, PhasesInv, Sequence
<1>5. ResultsInv'
  BY <1>1 DEF IInv, ResultsInv, Passed, Sequence
<1>6. DestroyInv' /\ ExitTellsThePhases'
  BY <1>1 DEF IInv, DestroyInv, ExitTellsThePhases, AtPhase
<1> QED
  BY <1>3, <1>4, <1>5, <1>6 DEF IInv

LEMMA DestroyStep == IInv /\ DestroyInstance => IInv'
<1> SUFFICES ASSUME IInv, DestroyInstance PROVE IInv'
  OBVIOUS
<1> DEFINE p == Platforms[next]
<1>1. /\ mode = "cleanup" \/ AtPhase("destroy")
      /\ next <= Len(Platforms) /\ next' = next + 1
      /\ running' = running \ {p}
      /\ \/ exists' = exists \ {p} /\ stuck' = stuck \ {p}
         \/ p \in exists /\ stuck' = stuck \union {p} /\ exists' = exists
      /\ UNCHANGED <<command, commands, phases, mode, results, exit>>
  BY DEF DestroyInstance
<1>2. p \in Names /\ Len(Platforms) \in Nat
  BY <1>1, PlatformFacts DEF IInv, Bounds
<1>3. Bounds'
  BY <1>1, <1>2 DEF IInv, Bounds
<1>4. PhasesInv'
  BY <1>1 DEF IInv, PhasesInv, Sequence
<1>5. ResultsInv'
  BY <1>1 DEF IInv, ResultsInv, Passed, Sequence
<1>6. DestroyInv'
  <2>1. ASSUME NEW k \in 1..(next' - 1)
        PROVE  Gone(k)'
    <3>1. CASE k = next
      BY <3>1, <1>1 DEF Gone
    <3>2. CASE k # next
      <4>1. Gone(k)
        BY <3>2, <1>1 DEF IInv, DestroyInv, Bounds
      <4> QED
        BY <4>1, <1>1 DEF Gone
    <3> QED
      BY <3>1, <3>2
  <2>2. mode' = "run" => phases' # <<>>
    BY <1>1 DEF AtPhase
  <2> QED
    BY <2>1, <2>2 DEF DestroyInv
<1>7. ExitTellsThePhases'
  BY <1>1 DEF ExitTellsThePhases, AtPhase
<1> QED
  BY <1>3, <1>4, <1>5, <1>6, <1>7 DEF IInv

(* When the cursor is past the last instance all are gone. *)
LEMMA AllGone ==
  ASSUME IInv, next > Len(Platforms), mode = "cleanup" \/ AtPhase("destroy")
  PROVE  running = {} /\ exists \subseteq stuck
<1>1. \A i \in 1..Len(Platforms) : Gone(i)
  BY PlatformFacts DEF IInv, DestroyInv, Bounds
<1> QED
  BY <1>1, PlatformFacts DEF IInv, Bounds, Gone

LEMMA InstancesDoneStep == IInv /\ InstancesDone => IInv'
<1> SUFFICES ASSUME IInv, InstancesDone PROVE IInv'
  OBVIOUS
<1>1. /\ mode = "run" /\ phases # <<>> /\ PhaseOk /\ next > Len(Platforms)
      /\ AtPhase("create") \/ AtPhase("destroy")
      /\ UNCHANGED <<command, commands, running, exists, stuck>>
  BY DEF InstancesDone, AtPhase, world
<1>2. /\ PhasesInv' /\ ResultsInv' /\ mode' = "run" /\ next' = 1 /\ exit' = exit
      /\ phases' = <<>> /\ command = "test" => Head(phases) = "destroy"
  BY <1>1, PhaseOkKeeps
<1>3. Bounds' /\ ExitTellsThePhases'
  BY <1>1, <1>2, PlatformFacts DEF IInv, Bounds, ExitTellsThePhases
<1>4. phases' = <<>> /\ command = "test" => running = {} /\ exists \subseteq stuck
  BY <1>1, <1>2, AllGone DEF AtPhase
<1>5. DestroyInv'
  BY <1>1, <1>2, <1>4 DEF DestroyInv
<1> QED
  BY <1>2, <1>3, <1>5 DEF IInv

LEMMA CleanupDoneStep == IInv /\ CleanupDone => IInv'
<1> SUFFICES ASSUME IInv, CleanupDone PROVE IInv'
  OBVIOUS
<1>1. /\ mode = "cleanup" /\ next > Len(Platforms) /\ mode' = "idle" /\ exit' = "exit2"
      /\ UNCHANGED <<command, commands, phases, next, running, exists, stuck, results>>
  BY DEF CleanupDone, world
<1>2. Bounds' /\ PhasesInv'
  BY <1>1 DEF IInv, Bounds, PhasesInv, Sequence
<1>3. ResultsInv' /\ DestroyInv'
  BY <1>1 DEF IInv, ResultsInv, DestroyInv, AtPhase
<1>4. running = {} /\ exists \subseteq stuck
  BY <1>1, AllGone
<1>5. ExitTellsThePhases'
  BY <1>1, <1>4 DEF IInv, ResultsInv, Passed, Sequence, ExitTellsThePhases
<1> QED
  BY <1>2, <1>3, <1>5 DEF IInv

(* A playbook phase that is skipped, passes, fails or is an Err. *)
LEMMA PlaybookStep == IInv /\ (SkipPhase \/ RunPlaybook) => IInv'
<1> SUFFICES ASSUME IInv, SkipPhase \/ RunPlaybook PROVE IInv'
  OBVIOUS
<1>1. /\ mode = "run" /\ phases # <<>> /\ Head(phases) # "destroy"
      /\ UNCHANGED <<command, commands, running, exists, stuck>>
      /\ PhaseOk \/ PhaseFailed \/ PhaseErr
  BY DEF SkipPhase, RunPlaybook, AtPlaybook, PlaybookPhases, AtPhase, world
<1>2. CASE PhaseOk
  <2>1. /\ PhasesInv' /\ ResultsInv' /\ mode' = "run" /\ next' = 1 /\ exit' = exit
        /\ phases' = <<>> => command # "test"
    BY <1>1, <1>2, PhaseOkKeeps
  <2>2. Bounds' /\ ExitTellsThePhases' /\ DestroyInv'
    BY <1>1, <2>1, PlatformFacts DEF IInv, Bounds, ExitTellsThePhases, DestroyInv
  <2> QED
    BY <2>1, <2>2 DEF IInv
<1>3. CASE PhaseFailed
  <2>1. PhasesInv' /\ ResultsInv' /\ mode' = "cleanup" /\ next' = 1 /\ exit' = exit
    BY <1>1, <1>3, PhaseFailedKeeps
  <2>2. Bounds' /\ ExitTellsThePhases' /\ DestroyInv'
    BY <1>1, <2>1, PlatformFacts DEF IInv, Bounds, ExitTellsThePhases, DestroyInv
  <2> QED
    BY <2>1, <2>2 DEF IInv
<1>4. CASE PhaseErr
  <2>1. mode' = "idle" /\ exit' = "exit1" /\ UNCHANGED <<phases, results, next>>
    BY <1>4 DEF PhaseErr
  <2>2. Bounds' /\ PhasesInv' /\ ResultsInv'
    BY <1>1, <2>1 DEF IInv, Bounds, PhasesInv, ResultsInv, Sequence
  <2>3. DestroyInv' /\ ExitTellsThePhases'
    BY <2>1 DEF DestroyInv, AtPhase, ExitTellsThePhases
  <2> QED
    BY <2>2, <2>3 DEF IInv
<1> QED
  BY <1>1, <1>2, <1>3, <1>4

LEMMA EndStep == IInv /\ (Finish \/ Kill) => IInv'
<1> SUFFICES ASSUME IInv, Finish \/ Kill PROVE IInv'
  OBVIOUS
<1>1. /\ mode' = "idle"
      /\ exit' = "killed" \/ (exit' = "exit0" /\ mode = "run" /\ phases = <<>>)
      /\ UNCHANGED <<command, commands, phases, next, running, exists, stuck, results>>
  BY DEF Finish, Kill, world
<1>2. Bounds' /\ PhasesInv' /\ ResultsInv' /\ DestroyInv'
  BY <1>1 DEF IInv, Bounds, PhasesInv, ResultsInv, Sequence, DestroyInv, AtPhase
<1>3. ExitTellsThePhases'
  BY <1>1, SequenceFacts
     DEF IInv, ResultsInv, DestroyInv, Passed, Sequence, ExitTellsThePhases
<1> QED
  BY <1>2, <1>3 DEF IInv

(* Every step keeps the invariant. *)
LEMMA StepIInv == IInv /\ [Next]_vars => IInv'
<1>1. IInv /\ UNCHANGED vars => IInv'
  BY DEF vars, world, IInv, Bounds, PhasesInv, ResultsInv, Passed, Sequence, DestroyInv, Gone,
         AtPhase, ExitTellsThePhases
<1> QED
  BY <1>1, StartStep, CreateStep, DestroyStep, InstancesDoneStep, CleanupDoneStep,
     PlaybookStep, EndStep DEF Next, Work

-----------------------------------------------------------------------------
(* The invariant holds in every reachable state. *)
THEOREM Invariance == Spec => []IInv
  BY InitIInv, StepIInv, PTL DEF Spec

(* Every variable of the runner keeps its type. *)
THEOREM TypeCorrect == Spec => []TypeOK
<1>1. IInv => TypeOK
  BY SuffixType DEF IInv
<1> QED
  BY <1>1, Invariance, PTL

(* What the exit status of a command says of its phases and its containers   *)
(* is true, for any platforms and after any other commands.                  *)
THEOREM ExitsTellThePhases == Spec => []ExitTellsThePhases
<1>1. IInv => ExitTellsThePhases
  BY DEF IInv
<1> QED
  BY <1>1, Invariance, PTL

-----------------------------------------------------------------------------
(* What the patterns stand for, from the definitions of Inventory. *)

(* The operator of the instance is that of FiniteSets. *)
LEMMA SameCardinality == \A S : Inv!Cardinality(S) = Cardinality(S)
  BY Zenon DEF Inv!Cardinality, Cardinality

(* A list of every name once is one of all names. *)
LEMMA NamesCount ==
  /\ IsFiniteSet(Names) /\ Cardinality(Names) = Len(Platforms) /\ Len(Platforms) \in Nat
  /\ Platforms \in Inv!SetToSeqs(Names)
<1> DEFINE n == Len(Platforms)
<1>1. n \in Nat /\ DOMAIN Platforms = 1..n /\ Platforms \in [1..n -> Names]
  BY MoleculeAssumption
<1>2. Platforms \in Bijection(1..n, Names)
  BY <1>1, PlatformFacts, MoleculeAssumption DEF Bijection, Injection, Surjection, IsInjective
<1>3. IsFiniteSet(1..n) /\ Cardinality(1..n) = n
  BY <1>1, FS_Interval
<1>4. ExistsBijection(1..n, Names)
  BY <1>2 DEF ExistsBijection
<1>5. IsFiniteSet(Names) /\ Cardinality(Names) = n
  BY <1>3, <1>4, FS_Bijection
<1>6. Platforms \in Inv!SetToSeqs(Names)
  BY <1>1, <1>5, SameCardinality, MoleculeAssumption DEF Inv!SetToSeqs
<1> QED
  BY <1>1, <1>5, <1>6

(* So any list of as many entries without repetition has them all. *)
LEMMA ListsCover ==
  ASSUME NEW s \in Inv!SetToSeqs(Names)
  PROVE  {s[i] : i \in DOMAIN s} = Names
<1> DEFINE n == Len(Platforms)
<1>1. s \in [1..n -> Names] /\ \A i, j \in 1..n : i # j => s[i] # s[j]
  BY NamesCount, SameCardinality DEF Inv!SetToSeqs
<1>2. s \in Injection(1..n, Names)
  BY <1>1 DEF Injection, IsInjective
<1>3. IsFiniteSet(1..n) /\ Cardinality(1..n) = n
  <2>1. n \in Nat
    BY NamesCount
  <2> HIDE DEF n
  <2>2. 1 \in Int /\ n \in Int
    BY <2>1
  <2>3. IsFiniteSet(1..n) /\ Cardinality(1..n) = IF 1 > n THEN 0 ELSE n - 1 + 1
    BY <2>2, FS_Interval
  <2> QED
    BY <2>1, <2>3
<1>4. s \in Surjection(1..n, Names)
  BY <1>2, <1>3, NamesCount, FS_Injection
<1> QED
  BY <1>1, <1>4 DEF Surjection

(* sort() of all names: their order without localhost. *)
LEMMA SortedList == \E s \in Inv!Sorted(Names) : TRUE
<1> DEFINE N == NameOrder
           n == Len(Platforms)
<1>1. Len(N) \in Nat /\ DOMAIN N = 1..Len(N) /\ \A i \in 1..Len(N) : N[i] \in Names \union {"localhost"}
  BY TargetsAssumption
<1>2. PICK k \in 1..Len(N) : N[k] = "localhost"
  BY <1>1, TargetsAssumption
<1>3. \A i, j \in 1..Len(N) : N[i] = N[j] => i = j
  BY <1>1, TargetsAssumption
<1> DEFINE s == [i \in 1..(Len(N) - 1) |-> IF i < k THEN N[i] ELSE N[i + 1]]
<1>4. \A i \in 1..(Len(N) - 1) : s[i] \in Names
  <2> SUFFICES ASSUME NEW i \in 1..(Len(N) - 1) PROVE s[i] \in Names
    OBVIOUS
  <2>1. PICK j \in 1..Len(N) : s[i] = N[j] /\ j # k
    BY <1>1, <1>2
  <2> QED
    BY <1>1, <1>2, <1>3, <2>1
<1>5. \A i, j \in 1..(Len(N) - 1) : i # j => s[i] # s[j]
  BY <1>1, <1>2, <1>3
<1>6. \A h \in Names : \E i \in 1..(Len(N) - 1) : h = s[i]
  <2> SUFFICES ASSUME NEW h \in Names PROVE \E i \in 1..(Len(N) - 1) : h = s[i]
    OBVIOUS
  <2>1. PICK j \in 1..Len(N) : h = N[j]
    BY <1>1, TargetsAssumption
  <2>2. j # k
    BY <1>2, <2>1, MoleculeAssumption
  <2>3. CASE j < k
    BY <1>1, <1>2, <2>1, <2>3
  <2>4. CASE j > k
    <3>1. j - 1 \in 1..(Len(N) - 1) /\ s[j - 1] = N[j]
      BY <1>1, <1>2, <2>4
    <3> QED
      BY <2>1, <3>1
  <2> QED
    BY <1>1, <2>2, <2>3, <2>4
<1>7. Cardinality(Names) = Len(N) - 1
  <2>1. Len(N) - 1 \in Nat
    BY <1>1, <1>2
  <2>2. s \in Bijection(1..(Len(N) - 1), Names)
    BY <1>4, <1>5, <1>6 DEF Bijection, Injection, Surjection, IsInjective
  <2>3. ExistsBijection(1..(Len(N) - 1), Names)
    BY <2>2 DEF ExistsBijection
  <2>4. IsFiniteSet(1..(Len(N) - 1)) /\ Cardinality(1..(Len(N) - 1)) = Len(N) - 1
    BY <2>1, FS_Interval
  <2> QED
    BY <2>3, <2>4, FS_Bijection
<1>8. s \in Inv!SetToSeqs(Names)
  BY <1>4, <1>5, <1>7, SameCardinality DEF Inv!SetToSeqs
<1>9. \A j \in 1..Len(N) : Inv!Place(N[j]) = j
  BY <1>1, <1>3 DEF Inv!Place
<1>10. \A i, j \in DOMAIN s : i < j => Inv!Place(s[i]) < Inv!Place(s[j])
  <2> SUFFICES ASSUME NEW i \in 1..(Len(N) - 1), NEW j \in 1..(Len(N) - 1), i < j
               PROVE  Inv!Place(s[i]) < Inv!Place(s[j])
    OBVIOUS
  <2>1. Inv!Place(s[i]) = IF i < k THEN i ELSE i + 1
    BY <1>1, <1>2, <1>9
  <2>2. Inv!Place(s[j]) = IF j < k THEN j ELSE j + 1
    BY <1>1, <1>2, <1>9
  <2> QED
    BY <1>1, <1>2, <2>1, <2>2
<1>11. Names \intersect Inv!HostNames = Names
  BY TargetsAssumption DEF Inv!HostNames
<1>12. s \in Inv!Sorted(Names)
  BY <1>8, <1>10, <1>11, Zenon DEF Inv!Sorted
<1> QED
  BY <1>12

(* The group `molecule` has no children: its members are its hosts. *)
LEMMA MembersAre == Inv!Members["molecule"] = running
<1> DEFINE G == [g \in {"all", "molecule"} |-> [hosts |-> running, children |-> {}]]
           f == [g \in DOMAIN G |-> running]
<1>1. f = [g \in DOMAIN G |-> G[g].hosts \union UNION {f[c] : c \in G[g].children \intersect DOMAIN G}]
  OBVIOUS
<1>2. Inv!Members = [g \in DOMAIN G |-> G[g].hosts \union UNION {Inv!Members[c] : c \in G[g].children \intersect DOMAIN G}]
  BY <1>1 DEF Inv!Members
<1> QED
  BY <1>2

(* The branches of matching_hosts for the two patterns. *)
LEMMA Matching ==
  /\ Inv!MatchingHosts("all") = IF running = {} THEN {<<"localhost">>} ELSE Inv!SetToSeqs(running)
  /\ Inv!MatchingHosts("molecule") = Inv!Sorted(running)
<1>1. /\ "all" \in {"all", "*"} /\ "molecule" \notin {"all", "*"} /\ "molecule" # "localhost"
  OBVIOUS
<1>2. DOMAIN [g \in {"all", "molecule"} |-> [hosts |-> running, children |-> {}]] = {"all", "molecule"}
  OBVIOUS
<1>3. "molecule" \in {"all", "molecule"} \ {"all", "*", "localhost"}
  OBVIOUS
<1> QED
  BY <1>1, <1>2, <1>3, MembersAre, Zenon DEF Inv!MatchingHosts

(* What the patterns stand for when all instances run, and when none does. *)
LEMMA TargetsAre ==
  ASSUME pattern \in Patterns
  PROVE  /\ running = Names => Targets = Names
         /\ running = {} => Targets = IF pattern = "all" THEN {"localhost"} ELSE {}
<1> DEFINE order == CHOOSE s \in Inv!MatchingHosts(pattern) : TRUE
<1>1. pattern \in {"all", "molecule"}
  BY TargetsAssumption
<1>2. ASSUME running = Names PROVE Targets = Names
  <2>1. Names # {}
    BY PlatformFacts, TargetsAssumption, MoleculeAssumption DEF Names
  <2>2. (\E s \in Inv!MatchingHosts(pattern) : TRUE) /\ Inv!MatchingHosts(pattern) \subseteq Inv!SetToSeqs(Names)
    <3>1. CASE pattern = "all"
      BY <1>2, <2>1, <3>1, Matching, NamesCount
    <3>2. CASE pattern = "molecule"
      <4>1. Names \intersect Inv!HostNames = Names
        BY TargetsAssumption DEF Inv!HostNames
      <4>2. Inv!Sorted(Names) \subseteq Inv!SetToSeqs(Names)
        BY <4>1, Zenon DEF Inv!Sorted
      <4> QED
        BY <1>2, <3>2, <4>2, Matching, SortedList
    <3> QED
      BY <1>1, <3>1, <3>2
  <2>3. order \in Inv!SetToSeqs(Names)
    BY <2>2
  <2> QED
    BY <2>3, ListsCover DEF Targets
<1>3. ASSUME running = {} PROVE Targets = IF pattern = "all" THEN {"localhost"} ELSE {}
  <2>1. CASE pattern = "all"
    <3>1. Inv!MatchingHosts(pattern) = {<<"localhost">>}
      BY <1>3, <2>1, Matching
    <3>2. order = <<"localhost">>
      BY <3>1
    <3>3. Targets = {order[i] : i \in DOMAIN order}
      BY DEF Targets
    <3> HIDE DEF order
    <3>4. {order[i] : i \in DOMAIN order} = {"localhost"}
      BY <3>2
    <3> QED
      BY <2>1, <3>3, <3>4
  <2>2. CASE pattern = "molecule"
    <3>1. Inv!MatchingHosts(pattern) = Inv!Sorted({})
      BY <1>3, <2>2, Matching
    <3>2. \A s \in Inv!SetToSeqs({}) : DOMAIN s = {}
      BY FS_EmptySet, SameCardinality DEF Inv!SetToSeqs
    <3>3. {} \intersect Inv!HostNames = {}
      OBVIOUS
    <3>4. \A s \in Inv!Sorted({}) : DOMAIN s = {}
      BY <3>2, <3>3, Zenon DEF Inv!Sorted
    <3>5. <<>> \in Inv!Sorted({})
      <4>1. <<>> \in Inv!SetToSeqs({}) /\ DOMAIN <<>> = {}
        BY FS_EmptySet, SameCardinality DEF Inv!SetToSeqs
      <4> QED
        BY <4>1, <3>3 DEF Inv!Sorted
    <3>6. DOMAIN order = {}
      BY <3>1, <3>4, <3>5
    <3> QED
      BY <2>2, <3>6 DEF Targets
  <2> QED
    BY <1>1, <2>1, <2>2
<1> QED
  BY <1>2, <1>3

-----------------------------------------------------------------------------
(* The inductive invariant, beside IInv: a process that is creating has run  *)
(* nothing yet and has the instances before its cursor; when it comes to a   *)
(* playbook it has all of them or, having had no create phase, none.         *)
Created == \E i \in DOMAIN results : results[i].phase = "create"
TargetInv ==
  /\ pattern \in Patterns
  /\ TargetsAreTheInstances
  /\ AtPhase("create") =>
       results = <<>> /\ targets = {} /\ running = {Platforms[i] : i \in 1..(next - 1)}
  /\ AtPlaybook => running = IF Created THEN Names ELSE {}

(* `create` only comes first and `destroy` only last. *)
LEMMA SequenceOrder ==
  ASSUME NEW c, NEW i \in 1..Len(SequenceOf(c))
  PROVE  /\ SequenceOf(c)[i] = "create" => i = 1
         /\ SequenceOf(c)[i] = "destroy" => i = Len(SequenceOf(c))
<1>1. CASE c = "test"
  <2>1. SequenceOf(c) = DefaultSequence
    BY <1>1, Zenon DEF SequenceOf
  <2> QED
    BY <2>1 DEF DefaultSequence
<1>2. CASE c = "converge"
  <2>1. SequenceOf(c) = <<"create", "converge">>
    BY <1>2, Zenon DEF SequenceOf
  <2> QED
    BY <2>1
<1>3. CASE c \notin {"test", "converge"}
  <2>1. c # "test" /\ c # "converge"
    BY <1>3
  <2>2. SequenceOf(c) = <<c>>
    BY <2>1, Zenon DEF SequenceOf
  <2> QED
    BY <2>2
<1> QED
  BY <1>1, <1>2, <1>3

(* What one more result says of the phases that have passed. *)
LEMMA Appended ==
  ASSUME IInv, mode = "run", phases # <<>>, NEW ok \in BOOLEAN,
         results' = Append(results, [phase |-> Head(phases), success |-> ok])
  PROVE  Created' <=> Created \/ Head(phases) = "create"
<1> DEFINE r == [phase |-> Head(phases), success |-> ok]
<1>1. results \in Seq(PhaseResults) /\ r \in PhaseResults /\ r.phase = Head(phases)
  BY DEF IInv, ResultsInv, PhasesInv, PhaseResults
<1> HIDE DEF r
<1>2. /\ DOMAIN results = 1..Len(results) /\ DOMAIN results' = 1..(Len(results) + 1)
      /\ Len(results) \in Nat /\ results'[Len(results) + 1] = r
      /\ \A i \in 1..Len(results) : results'[i] = results[i]
  <2>1. results' = Append(results, r)
    BY DEF r
  <2> QED
    BY <1>1, <2>1
<1> QED
  BY <1>1, <1>2 DEF Created

(* So a phase that is over is followed by no create, and destroy by nothing; *)
(* only the create phase makes the process one that has created.             *)
LEMMA PhaseOver ==
  ASSUME IInv, mode = "run", phases # <<>>, PhaseOk
  PROVE  /\ phases' # <<>> => Head(phases') # "create" /\ Head(phases) # "destroy"
         /\ Created' <=> Created \/ Head(phases) = "create"
<1> DEFINE n == Len(Sequence)
           m == Len(phases)
<1>1. /\ phases \in Seq(PhaseNames) /\ n \in Nat /\ m \in Nat /\ m > 0 /\ m <= n
      /\ \A i \in 1..m : phases[i] = Sequence[n - m + i]
      /\ phases' = Tail(phases)
  BY SequenceFacts DEF IInv, PhasesInv, Sequence, PhaseOk
<1>2. ASSUME phases' # <<>>
      PROVE  Head(phases') # "create" /\ Head(phases) # "destroy"
  <2>1. /\ m >= 2 /\ Head(phases) = phases[1] /\ Head(phases') = phases[2]
    BY <1>1, <1>2
  <2>2. /\ n - m + 1 \in 1..n /\ n - m + 1 # n /\ n - m + 2 \in 1..n /\ n - m + 2 # 1
        /\ phases[1] = Sequence[n - m + 1] /\ phases[2] = Sequence[n - m + 2]
    BY <1>1, <2>1
  <2> QED
    BY <2>1, <2>2, SequenceOrder DEF Sequence
<1>3. Created' <=> Created \/ Head(phases) = "create"
  BY Appended DEF PhaseOk, PhaseResult
<1> QED
  BY <1>2, <1>3

(* One lemma for each action or family of actions. *)
LEMMA InitTargets == Init => TargetInv
  BY DEF Init, TargetInv, TargetsAreTheInstances, AtPlaybook, AtPhase

LEMMA StartTargets == IInv /\ TargetInv /\ StartCommand => TargetInv'
<1> SUFFICES ASSUME StartCommand, pattern \in Patterns PROVE TargetInv'
  BY DEF TargetInv
<1>1. /\ results' = <<>> /\ targets' = {} /\ running' = {} /\ next' = 1
      /\ UNCHANGED <<pattern, driver>>
  BY DEF StartCommand, config
<1>2. ~Created' /\ {Platforms[i] : i \in 1..(next' - 1)} = {}
  BY <1>1 DEF Created
<1> QED
  BY <1>1, <1>2 DEF TargetInv, TargetsAreTheInstances

LEMMA CreateTargets == IInv /\ TargetInv /\ CreateInstance => TargetInv'
<1> SUFFICES ASSUME IInv, TargetInv, CreateInstance PROVE TargetInv'
  OBVIOUS
<1> DEFINE p == Platforms[next]
<1>1. /\ AtPhase("create") /\ next <= Len(Platforms) /\ UNCHANGED <<pattern, driver, targets>>
      /\ \/ /\ running' = running \union {p} /\ next' = next + 1
            /\ driver = "container" => exists' = exists \union {p}
            /\ UNCHANGED <<phases, mode, results>>
         \/ /\ exists' \in {exists, exists \union {p}} /\ running' = running
            /\ mode' = "idle" /\ UNCHANGED results
  BY DEF CreateInstance, PhaseErr, config
<1>2. results = <<>> /\ targets = {} /\ running = {Platforms[i] : i \in 1..(next - 1)}
  BY <1>1 DEF TargetInv
<1>3. driver = "container" => running' \subseteq exists'
  BY <1>1 DEF TargetInv, TargetsAreTheInstances
<1>4. TargetsAreTheInstances'
  BY <1>1, <1>2, <1>3 DEF TargetsAreTheInstances
<1>5. mode' = "run" => running' = {Platforms[i] : i \in 1..(next' - 1)}
  BY <1>1, <1>2 DEF IInv, Bounds
<1>6. ~AtPlaybook'
  BY <1>1 DEF AtPlaybook, AtPhase, PlaybookPhases
<1> QED
  BY <1>1, <1>2, <1>4, <1>5, <1>6 DEF TargetInv, AtPhase

LEMMA DestroyTargets == IInv /\ TargetInv /\ DestroyInstance => TargetInv'
<1> SUFFICES ASSUME TargetInv, DestroyInstance PROVE TargetInv'
  OBVIOUS
<1>1. /\ AtPhase("destroy") \/ mode = "cleanup"
      /\ running' = running \ {Platforms[next]}
      /\ exists' = exists \ {Platforms[next]} \/ exists' = exists
      /\ UNCHANGED <<pattern, driver, phases, mode, results, targets>>
  BY DEF DestroyInstance, config
<1>2. ~AtPhase("create")' /\ ~AtPlaybook'
  BY <1>1 DEF AtPhase, AtPlaybook, PlaybookPhases
<1>3. TargetsAreTheInstances'
  BY <1>1 DEF TargetInv, TargetsAreTheInstances
<1> QED
  BY <1>1, <1>2, <1>3 DEF TargetInv

LEMMA InstancesDoneTargets == IInv /\ TargetInv /\ InstancesDone => TargetInv'
<1> SUFFICES ASSUME IInv, TargetInv, InstancesDone PROVE TargetInv'
  OBVIOUS
<1>1. /\ mode = "run" /\ phases # <<>> /\ PhaseOk /\ next > Len(Platforms)
      /\ AtPhase("create") \/ AtPhase("destroy")
      /\ UNCHANGED <<pattern, driver, running, exists, targets>>
  BY DEF InstancesDone, AtPhase, world, config
<1>2. /\ phases' # <<>> => Head(phases') # "create" /\ Head(phases) # "destroy"
      /\ Created' <=> Created \/ Head(phases) = "create"
  BY <1>1, PhaseOver
<1>3. ~AtPhase("create")'
  BY <1>2 DEF AtPhase
<1>4. CASE AtPhase("create")
  <2>1. Created' /\ targets = {} /\ running = {Platforms[i] : i \in 1..(next - 1)}
    BY <1>2, <1>4 DEF TargetInv, AtPhase
  <2>2. running = Names
    BY <1>1, <2>1, PlatformFacts DEF IInv, Bounds
  <2> QED
    BY <1>1, <1>3, <2>1, <2>2 DEF TargetInv, TargetsAreTheInstances
<1>5. CASE AtPhase("destroy")
  <2>1. ~AtPlaybook'
    BY <1>2, <1>5 DEF AtPlaybook, AtPhase
  <2>2. Created' <=> Created
    BY <1>2, <1>5 DEF AtPhase
  <2> QED
    BY <1>1, <1>3, <2>1, <2>2 DEF TargetInv, TargetsAreTheInstances, Created
<1> QED
  BY <1>1, <1>4, <1>5

LEMMA PlaybookTargets == IInv /\ TargetInv /\ (SkipPhase \/ RunPlaybook) => TargetInv'
<1> SUFFICES ASSUME IInv, TargetInv, SkipPhase \/ RunPlaybook PROVE TargetInv'
  OBVIOUS
<1>1. /\ mode = "run" /\ phases # <<>> /\ Head(phases) # "create" /\ AtPlaybook
      /\ UNCHANGED <<pattern, driver, running, exists>>
      /\ \A t \in targets' : t \in targets \/ t.hosts = Targets
      /\ PhaseOk \/ PhaseFailed \/ PhaseErr
  BY DEF SkipPhase, RunPlaybook, AtPlaybook, PlaybookPhases, AtPhase, world, config
<1>2. running = IF Created THEN Names ELSE {}
  BY <1>1 DEF TargetInv
<1>3. Targets = IF Created THEN Names ELSE IF pattern = "all" THEN {"localhost"} ELSE {}
  BY <1>2, TargetsAre DEF TargetInv
<1>4. Created' <=> Created
  <2>1. CASE PhaseOk
    BY <1>1, <2>1, PhaseOver
  <2>2. CASE PhaseFailed
    BY <1>1, <2>2, Appended DEF PhaseFailed, PhaseResult
  <2>3. CASE PhaseErr
    BY <2>3 DEF PhaseErr, Created
  <2> QED
    BY <1>1, <2>1, <2>2, <2>3
<1>5. TargetsAreTheInstances'
  <2>1. driver' = "container" => running' \subseteq exists'
    BY <1>1 DEF TargetInv, TargetsAreTheInstances
  <2>2. ASSUME NEW t \in targets'
        PROVE  t.hosts = IF Created THEN Names ELSE IF pattern = "all" THEN {"localhost"} ELSE {}
    BY <1>1, <1>3, <2>2 DEF TargetInv, TargetsAreTheInstances, Created
  <2> QED
    BY <1>1, <1>4, <2>1, <2>2 DEF TargetsAreTheInstances, Created
<1>6. ~AtPhase("create")' /\ (AtPlaybook' => mode' = "run")
  BY <1>1, PhaseOver DEF PhaseFailed, PhaseErr, AtPhase, AtPlaybook
<1> QED
  BY <1>1, <1>2, <1>4, <1>5, <1>6 DEF TargetInv

(* Steps that end the command, and stutters. *)
LEMMA QuietTargets ==
  ASSUME TargetInv, UNCHANGED <<pattern, driver, running, exists, results, targets>>,
         mode' # "run" \/ UNCHANGED <<phases, mode, next>>
  PROVE  TargetInv'
<1>1. TargetsAreTheInstances' /\ pattern' \in Patterns
  BY DEF TargetInv, TargetsAreTheInstances
<1>2. CASE mode' # "run"
  BY <1>1, <1>2 DEF TargetInv, AtPhase, AtPlaybook
<1>3. CASE UNCHANGED <<phases, mode, next>>
  BY <1>1, <1>3 DEF TargetInv, AtPhase, AtPlaybook, Created
<1> QED
  BY <1>2, <1>3

LEMMA StepTargets == IInv /\ TargetInv /\ [Next]_vars => TargetInv'
<1> SUFFICES ASSUME IInv, TargetInv, [Next]_vars PROVE TargetInv'
  OBVIOUS
<1>1. CASE CleanupDone \/ Finish \/ Kill
  <2>1. UNCHANGED <<pattern, driver, running, exists, results, targets>> /\ mode' = "idle"
    BY <1>1 DEF CleanupDone, Finish, Kill, config, world
  <2> QED
    BY <2>1, QuietTargets
<1>2. CASE UNCHANGED vars
  BY <1>2, QuietTargets DEF vars, config, world
<1> QED
  BY <1>1, <1>2, StartTargets, CreateTargets, DestroyTargets, InstancesDoneTargets,
     PlaybookTargets DEF Next, Work

(* A playbook runs against every instance of a process that created them and *)
(* against none otherwise, for any platforms and after any other commands.   *)
THEOREM TargetsAreInstances == Spec => []TargetsAreTheInstances
<1>1. IInv /\ TargetInv /\ [Next]_vars => TargetInv'
  BY StepTargets
<1>2. TargetInv => TargetsAreTheInstances
  BY DEF TargetInv
<1> QED
  BY <1>1, <1>2, InitTargets, Invariance, PTL DEF Spec
=============================================================================
