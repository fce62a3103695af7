--------------------------- MODULE PlaybookProofs ---------------------------
(* Proofs about Playbook, for every inventory and every command line: where  *)
(* the value a task sees comes from, what a play covers, and what the exit   *)
(* code says.                                                                *)
EXTENDS Playbook, FiniteSetTheorems, TLAPS

InPlay == phase \in {"tasks", "handlers"}

Bounds ==
  /\ phase # "load" => file <= Len(argv)
  /\ InPlay => play <= Len(argv[file].plays)

(* A failed task has been counted, or a host of the play under way is failed *)
(* and will be.                                                              *)
FailInv ==
  /\ TaskFailures = {} <=> success /\ ~(InPlay /\ \E i \in DOMAIN hosts : failed[hosts[i]])
  /\ status = "exit0" => success /\ phase = "load"
  /\ status = "exit2" => ~success /\ phase = "load"

(* What the context holds of v, told from the log and the cursors alone.     *)
FactSource(h) ==
  IF FactsBefore(Len(log) + 1, h) # {} THEN <<"fact", Max(FactsBefore(Len(log) + 1, h))>>
  ELSE Unset
RegSource ==
  IF RegsBefore(Len(log) + 1) # {} THEN <<"register", Max(RegsBefore(Len(log) + 1))>>
  ELSE Unset
Reached(a) ==
  \/ a[1] < file
  \/ phase # "load" /\ a[1] = file /\ (a[2] < play \/ (InPlay /\ a[2] = play))
VarsSource(plays) ==
  IF plays = {} /\ extra THEN <<"extra">> ELSE PlaySource(plays)
CtxInv ==
  /\ \A h \in HostNames : factVar[h] = FactSource(h)
  /\ regVar = RegSource
  /\ playVar = VarsSource({a \in Setters : Reached(a)})

(* What an entry has seen, with and without -e: the layers in the order of   *)
(* the code.                                                                 *)
LayeredSource(i) ==
  LET facts == FactsBefore(i, log[i].host)
      regs  == RegsBefore(i)
  IN IF facts # {} THEN <<"fact", Max(facts)>>
     ELSE IF regs # {} THEN <<"register", Max(regs)>>
     ELSE VarsSource({a \in Setters : Before(a, log[i].at)})
SourceInv == \A i \in DOMAIN log : log[i].saw = LayeredSource(i)

IInv == TypeOK /\ Bounds /\ FailInv /\ CtxInv /\ SourceInv

-----------------------------------------------------------------------------
(* Facts about the constants. *)

LEMMA ArgvFacts ==
  ASSUME argv \in CommandLines
  PROVE  /\ Len(argv) \in Nat /\ DOMAIN argv = 1..Len(argv)
         /\ \A f \in 1..Len(argv) :
              /\ Len(argv[f].plays) \in Nat /\ DOMAIN argv[f].plays = 1..Len(argv[f].plays)
              /\ \A p \in 1..Len(argv[f].plays) :
                   /\ argv[f].plays[p].tasks \in Seq(Kinds)
                   /\ argv[f].plays[p].handlers \in Seq(Kinds)
<1>1. argv \in Seq({argv[i] : i \in DOMAIN argv})
  BY PlaybookAssumption
<1>2. Len(argv) \in Nat /\ DOMAIN argv = 1..Len(argv)
  BY <1>1
<1>3. ASSUME NEW f \in 1..Len(argv)
      PROVE  /\ Len(argv[f].plays) \in Nat /\ DOMAIN argv[f].plays = 1..Len(argv[f].plays)
             /\ \A p \in 1..Len(argv[f].plays) :
                  /\ argv[f].plays[p].tasks \in Seq(Kinds)
                  /\ argv[f].plays[p].handlers \in Seq(Kinds)
  <2> DEFINE plays == argv[f].plays
  <2>1. /\ plays \in Seq({plays[j] : j \in DOMAIN plays})
        /\ \A j \in DOMAIN plays :
             plays[j].tasks \in Seq(Kinds) /\ plays[j].handlers \in Seq(Kinds)
    BY <1>2, PlaybookAssumption
  <2>2. Len(plays) \in Nat /\ DOMAIN plays = 1..Len(plays)
    BY <2>1
  <2> QED
    BY <2>1, <2>2
<1> QED
  BY <1>2, <1>3

(* Whatever a pattern stands for is a list of host names. *)
LEMMA HostsType == \A p : MatchingHosts(p) \subseteq Seq(HostNames)
<1>1. IsFiniteSet(HostNames)
  <2>1. DOMAIN HostOrder = 1..Len(HostOrder) /\ Len(HostOrder) \in Nat
    BY InventoryAssumption
  <2>2. IsFiniteSet(DOMAIN HostOrder)
    BY <2>1, FS_Interval
  <2>3. HostOrder \in Surjection(DOMAIN HostOrder, HostNames)
    BY InventoryAssumption DEF Surjection, HostNames
  <2> QED
    BY <2>2, <2>3, FS_Surjection
<1>2. ASSUME NEW S \in SUBSET HostNames
      PROVE  SetToSeqs(S) \subseteq Seq(HostNames)
  <2>1. Cardinality(S) \in Nat
    BY <1>1, FS_Subset, FS_CardinalityType
  <2>2. SetToSeqs(S) \subseteq [1..Cardinality(S) -> S]
    BY DEF SetToSeqs
  <2>3. [1..Cardinality(S) -> S] \subseteq Seq(HostNames)
    BY <2>1
  <2> QED
    BY <2>2, <2>3
<1>3. \A S : Sorted(S) \subseteq Seq(HostNames)
  BY <1>2 DEF Sorted
<1>4. SetToSeqs(InvHosts) \subseteq Seq(HostNames)
  BY <1>2, InventoryAssumption
<1>5. {<<"localhost">>} \subseteq Seq(HostNames) /\ {<<>>} \subseteq Seq(HostNames)
  BY InventoryAssumption
<1>6. ASSUME NEW p \in InvHosts
      PROVE  {<<p>>} \subseteq Seq(HostNames)
  BY InventoryAssumption
<1> QED
  BY <1>3, <1>4, <1>5, <1>6, Zenon DEF MatchingHosts

LEMMA OutcomeType == \A kind : OutcomesOf(kind) \subseteq {"ok", "failed", "skipped"}
  BY DEF OutcomesOf

LEMMA WriteType ==
  \A kind, out : WritesOf(kind, out) \subseteq SUBSET {"register", "fact"}
<1>1. /\ {{"register"}} \subseteq SUBSET {"register", "fact"}
      /\ {{"fact"}} \subseteq SUBSET {"register", "fact"}
      /\ {{}} \subseteq SUBSET {"register", "fact"}
  OBVIOUS
<1> QED
  BY <1>1, Zenon DEF WritesOf

(* The plays that set v are pairs of cursors. *)
LEMMA SetterType ==
  ASSUME argv \in CommandLines
  PROVE  \A a : a \in Setters <=>
           \E f \in 1..Len(argv) : \E p \in 1..Len(argv[f].plays) :
             a = <<f, p>> /\ argv[f].plays[p].setsVar
  BY ArgvFacts DEF Setters

(* The last of a set of cursors, and the greatest of a set of positions.     *)
LEMMA LastIs ==
  ASSUME NEW P, NEW f \in Nat, NEW p \in Nat, <<f, p>> \in P,
         \A b \in P : \E g, q \in Nat : b = <<g, q>> /\ Before(b, <<f, p>>)
  PROVE  LastOf(P) = <<f, p>>
<1>1. LastOf(P) \in P /\ \A b \in P : Before(b, LastOf(P))
  BY DEF LastOf
<1>2. PICK g, q \in Nat : LastOf(P) = <<g, q>>
  BY <1>1
<1>3. Before(<<f, p>>, <<g, q>>) /\ Before(<<g, q>>, <<f, p>>)
  BY <1>1, <1>2
<1> QED
  BY <1>2, <1>3 DEF Before

LEMMA MaxIs ==
  ASSUME NEW n \in Nat, NEW F \in SUBSET (1..n)
  PROVE  Max(F \union {n + 1}) = n + 1
<1> DEFINE T == F \union {n + 1}
<1>1. n + 1 \in T /\ \A y \in T : y \in Nat /\ n + 1 >= y
  OBVIOUS
<1> HIDE DEF T
<1>2. Max(T) \in T /\ \A y \in T : Max(T) >= y
  BY <1>1 DEF Max
<1>3. Max(T) = n + 1
  BY <1>1, <1>2
<1> QED
  BY <1>3 DEF T

-----------------------------------------------------------------------------
(* Steps that run nothing. *)

(* What has been seen and where it came from stays as it was. *)
LEMMA QuietLog ==
  ASSUME IInv, UNCHANGED <<argv, extra, log>>
  PROVE  /\ SourceInv' /\ TaskFailures' = TaskFailures /\ Setters' = Setters
         /\ \A h \in HostNames : FactSource(h)' = FactSource(h)
         /\ RegSource' = RegSource
         /\ \A P : VarsSource(P)' = VarsSource(P)
<1>1. /\ \A i, h : FactsBefore(i, h)' = FactsBefore(i, h)
      /\ \A i : RegsBefore(i)' = RegsBefore(i)
      /\ Setters' = Setters /\ TaskFailures' = TaskFailures
  BY DEF FactsBefore, RegsBefore, Setters, TaskFailures
<1>2. \A P : VarsSource(P)' = VarsSource(P)
  BY DEF VarsSource, PlaySource
<1>3. \A i : LayeredSource(i)' = LayeredSource(i)
  BY <1>1, <1>2 DEF LayeredSource
<1> QED
  BY <1>1, <1>2, <1>3 DEF IInv, SourceInv, FactSource, RegSource

(* So a step that leaves the context alone and passes no play that sets v    *)
(* keeps what is known of the context.                                       *)
LEMMA QuietContext ==
  ASSUME IInv, UNCHANGED <<argv, extra, log, ctx>>, \A a \in Setters : Reached(a)' = Reached(a)
  PROVE  CtxInv'
<1>1. {a \in Setters : Reached(a)}' = {a \in Setters : Reached(a)}
  BY QuietLog
<1>2. UNCHANGED <<playVar, regVar, factVar>>
  BY DEF ctx
<1> QED
  BY <1>1, <1>2, QuietLog DEF IInv, CtxInv

LEMMA InitIInv == Init => IInv
<1> SUFFICES ASSUME Init PROVE IInv
  OBVIOUS
<1> USE DEF Init
<1>1. TypeOK
  BY ArgvFacts DEF TypeOK, Sources
<1>2. Bounds /\ FailInv /\ SourceInv
  BY DEF Bounds, FailInv, TaskFailures, InPlay, SourceInv
<1>3. Len(log) + 1 = 1 /\ \A h \in HostNames : FactsBefore(1, h) = {} /\ RegsBefore(1) = {}
  BY DEF FactsBefore, RegsBefore
<1>4. {a \in Setters : Reached(a)} = {}
  BY SetterType, ArgvFacts DEF Reached
<1>5. CtxInv
  <2>1. \A h \in HostNames : factVar[h] = FactSource(h)
    BY <1>3 DEF FactSource
  <2>2. RegsBefore(1) = {}
    BY DEF RegsBefore
  <2>3. regVar = RegSource
    BY <1>3, <2>2 DEF RegSource
  <2>4. playVar = VarsSource({a \in Setters : Reached(a)})
    BY <1>4 DEF VarsSource, PlaySource
  <2> QED
    BY <2>1, <2>3, <2>4 DEF CtxInv
<1> QED
  BY <1>1, <1>2, <1>5 DEF IInv

LEMMA LoadFileStep == IInv /\ LoadFile => IInv'
<1> SUFFICES ASSUME IInv, LoadFile PROVE IInv'
  OBVIOUS
<1>1. /\ status = "run" /\ phase = "load" /\ file <= Len(argv)
      /\ \/ phase' = "play" /\ play' = 1 /\ status' = status
         \/ phase' = phase /\ play' = play /\ status' = "exit1"
      /\ UNCHANGED <<argv, extra, file, hosts, item, pos, failed, playVar, regVar, factVar,
                     success, log>>
  BY DEF LoadFile, At, ctx
<1>2. TypeOK'
  BY <1>1, ArgvFacts DEF IInv, TypeOK
<1>3. Bounds' /\ FailInv'
  BY <1>1, QuietLog DEF IInv, Bounds, FailInv, InPlay
<1>4. \A a \in Setters : Reached(a)' = Reached(a)
  BY <1>1, SetterType DEF Reached, InPlay, IInv, TypeOK
<1>5. CtxInv'
  BY <1>1, <1>4, QuietContext DEF ctx
<1> QED
  BY <1>1, <1>2, <1>3, <1>5, QuietLog DEF IInv

(* The next play: its hosts start afresh, and its vars are the last set.     *)
LEMMA StartPlayStep == IInv /\ StartPlay => IInv'
<1> SUFFICES ASSUME IInv, StartPlay PROVE IInv'
  OBVIOUS
<1>1. /\ status = "run" /\ phase = "play" /\ play <= Len(argv[file].plays)
      /\ playVar' = IF Play.setsVar THEN <<"play", file, play>> ELSE playVar
      /\ hosts' \in MatchingHosts(Play.pattern)
      /\ failed' = [h \in HostNames |-> FALSE]
      /\ phase' = "tasks" /\ item' = 1 /\ pos' = 1
      /\ UNCHANGED <<argv, extra, file, play, regVar, factVar, success, status, log>>
  BY DEF StartPlay, At
<1>2. file \in 1..Len(argv) /\ play \in 1..Len(argv[file].plays) /\ file \in Nat /\ play \in Nat
  BY <1>1, ArgvFacts DEF IInv, TypeOK, Bounds
<1>3. hosts' \in Seq(HostNames)
  BY <1>1, HostsType
<1>4. playVar' \in Sources
  BY <1>1, <1>2 DEF IInv, TypeOK, Sources
<1>5. TypeOK'
  <2>1. /\ Play' = Play /\ pos' \in 1..(Len(hosts') + 1)
        /\ item' \in 1..(Len(Play.tasks) + 1)
    <3>1. Play' = Play
      BY <1>1 DEF Play
    <3>2. Play.tasks \in Seq(Kinds)
      BY <1>2, ArgvFacts DEF Play, IInv, TypeOK
    <3>3. Len(Play.tasks) \in Nat /\ Len(hosts') \in Nat
      BY <1>3, <3>2
    <3> QED
      BY <1>1, <3>1, <3>3
  <2> QED
    BY <1>1, <1>2, <1>4, <2>1 DEF IInv, TypeOK
<1>6. Bounds'
  BY <1>1, <1>2 DEF Bounds
<1>7. FailInv'
  <2>1. \A i \in DOMAIN hosts' : ~failed'[hosts'[i]]
    BY <1>1, <1>3
  <2> QED
    BY <1>1, <2>1, QuietLog DEF IInv, FailInv, InPlay
<1>8. playVar' = VarsSource({a \in Setters : Reached(a)'})
  <2> DEFINE P == {a \in Setters : Reached(a)}
             Q == {a \in Setters : Reached(a)'}
  <2>1. \A a \in Setters : \E f, p \in Nat : a = <<f, p>>
    BY SetterType, ArgvFacts DEF IInv, TypeOK
  <2>2. \A a \in Setters : Reached(a)' <=> Reached(a) \/ a = <<file, play>>
    BY <1>1, <1>2, <2>1 DEF Reached, InPlay
  <2>3. <<file, play>> \in Setters <=> Play.setsVar
    BY <1>2, SetterType DEF Play, IInv, TypeOK
  <2>4. CASE Play.setsVar
    <3>1. <<file, play>> \in Q
      BY <2>2, <2>3, <2>4
    <3>2. \A b \in Q : \E g, q \in Nat : b = <<g, q>> /\ Before(b, <<file, play>>)
      BY <1>1, <1>2, <2>1, <2>2 DEF Reached, Before, InPlay
    <3>3. LastOf(Q) = <<file, play>>
      BY <1>2, <3>1, <3>2, LastIs
    <3> QED
      BY <1>1, <2>4, <3>1, <3>3 DEF VarsSource, PlaySource
  <2>5. CASE ~Play.setsVar
    <3>1. Q = P
      BY <2>2, <2>3, <2>5
    <3> QED
      BY <1>1, <2>5, <3>1 DEF IInv, CtxInv
  <2> QED
    BY <2>4, <2>5
<1>9. CtxInv'
  BY <1>1, <1>8, QuietLog DEF IInv, CtxInv
<1> QED
  BY <1>1, <1>5, <1>6, <1>7, <1>9, QuietLog DEF IInv

(* Leaving a play counts its failed hosts; leaving a file counts nothing.    *)
LEMMA EndStep == IInv /\ (EndPlay \/ EndFile) => IInv'
<1> SUFFICES ASSUME IInv, EndPlay \/ EndFile PROVE IInv'
  OBVIOUS
<1>1. \/ /\ phase = "handlers" /\ phase' = "play" /\ play' = play + 1 /\ file' = file
         /\ success' = (success /\ \A i \in DOMAIN hosts : ~failed[hosts[i]])
      \/ /\ phase = "play" /\ phase' = "load" /\ play' = play /\ file' = file + 1
         /\ play > Len(argv[file].plays) /\ success' = success
  BY DEF EndPlay, EndFile, At
<1>2. /\ status = "run"
      /\ UNCHANGED <<argv, extra, hosts, item, pos, failed, playVar, regVar, factVar, status, log>>
  BY DEF EndPlay, EndFile, At, ctx
<1>3. file \in 1..Len(argv) /\ play \in Nat /\ play >= 1 /\ Len(argv) \in Nat
  BY <1>1, ArgvFacts DEF IInv, TypeOK, Bounds
<1>4. TypeOK'
  <2>1. file' \in 1..(Len(argv) + 1)
    BY <1>1, <1>3
  <2>3. success' \in BOOLEAN
    <3>1. success \in BOOLEAN
      BY DEF IInv, TypeOK
    <3> QED
      BY <1>1, <3>1, Zenon
  <2>2. phase' # "load" => play' \in 1..(Len(argv[file].plays) + 1)
    BY <1>1, <1>3, ArgvFacts DEF IInv, TypeOK, Bounds, InPlay
  <2> QED
    BY <1>1, <1>2, <2>1, <2>2, <2>3 DEF IInv, TypeOK
<1>5. Bounds'
  BY <1>1, <1>2, <1>3 DEF IInv, TypeOK, Bounds, InPlay
<1>8. FailInv'
  <2> DEFINE fell == \E i \in DOMAIN hosts : failed[hosts[i]]
  <2>1. /\ TaskFailures = {} <=> success /\ ~(InPlay /\ fell)
        /\ status' = "run" /\ ~InPlay' /\ TaskFailures' = TaskFailures
    BY <1>1, <1>2, QuietLog DEF IInv, FailInv, InPlay
  <2>2. success' <=> success /\ ~(InPlay /\ fell)
    <3> HIDE DEF fell
    <3>1. phase = "handlers" => (success' <=> success /\ ~fell)
      BY <1>1 DEF fell
    <3> QED
      BY <1>1, <3>1 DEF InPlay
  <2> HIDE DEF fell
  <2>3. TaskFailures' = {} <=> success' /\ ~InPlay'
    BY <2>1, <2>2
  <2> QED
    BY <2>1, <2>3 DEF FailInv
<1>6. \A a \in Setters : Reached(a)' = Reached(a)
  <2>1. \A a \in Setters : \E f \in 1..Len(argv) : \E p \in 1..Len(argv[f].plays) : a = <<f, p>>
    BY SetterType DEF IInv, TypeOK
  <2>2. \A f \in 1..Len(argv) : Len(argv[f].plays) \in Nat
    BY ArgvFacts DEF IInv, TypeOK
  <2>3. ASSUME NEW a \in Setters PROVE Reached(a)' = Reached(a)
    <3>1. PICK f \in 1..Len(argv) : \E p \in 1..Len(argv[f].plays) : a = <<f, p>>
      BY <2>1
    <3>2. PICK p \in 1..Len(argv[f].plays) : a = <<f, p>>
      BY <3>1
    <3>3. f \in Nat /\ p \in Nat /\ p <= Len(argv[f].plays) /\ Len(argv[f].plays) \in Nat
      BY <1>3, <2>2
    <3>4. Reached(a) <=>
            \/ f < file
            \/ phase # "load" /\ f = file /\ (p < play \/ (InPlay /\ p = play))
      BY <3>2 DEF Reached
    <3>5. Reached(a)' <=>
            \/ f < file'
            \/ phase' # "load" /\ f = file' /\ (p < play' \/ (InPlay' /\ p = play'))
      BY <3>2 DEF Reached
    <3>6. Reached(a)' <=> Reached(a)
      <4>1. CASE phase = "handlers"
        <5>1. phase' = "play" /\ play' = play + 1 /\ file' = file /\ InPlay /\ ~InPlay'
          BY <1>1, <4>1 DEF InPlay
        <5> QED
          BY <1>3, <3>3, <3>4, <3>5, <4>1, <5>1
      <4>2. CASE phase # "handlers"
        <5>1. /\ phase = "play" /\ phase' = "load" /\ file' = file + 1
              /\ play > Len(argv[file].plays) /\ ~InPlay
          BY <1>1, <4>2 DEF InPlay
        <5>2. f = file => p < play
          BY <1>3, <3>3, <5>1
        <5> QED
          BY <1>3, <3>3, <3>4, <3>5, <5>1, <5>2
      <4> QED
        BY <4>1, <4>2
    <3>7. Reached(a) \in BOOLEAN /\ Reached(a)' \in BOOLEAN
      BY DEF Reached
    <3> QED
      BY <3>6, <3>7
  <2> QED
    BY <2>3
<1>7. CtxInv'
  BY <1>2, <1>6, QuietContext DEF ctx
<1> QED
  BY <1>2, <1>4, <1>5, <1>7, <1>8, QuietLog DEF IInv

(* A step within a play, or one that ends the process.                       *)
LEMMA SameCursors ==
  ASSUME IInv, TypeOK',
         UNCHANGED <<argv, extra, file, play, hosts, failed, ctx, success, log>>,
         InPlay' <=> InPlay, phase' = "load" <=> phase = "load",
         status' = "exit0" => success /\ phase = "load",
         status' = "exit2" => ~success /\ phase = "load"
  PROVE  IInv'
<1>1. Bounds'
  BY DEF IInv, Bounds
<1>2. FailInv'
  <2>1. /\ TaskFailures' = TaskFailures
        /\ TaskFailures = {} <=> success /\ ~(InPlay /\ \E i \in DOMAIN hosts : failed[hosts[i]])
    BY QuietLog DEF IInv, FailInv
  <2> QED
    BY <2>1 DEF FailInv
<1>3. \A a \in Setters : Reached(a)' = Reached(a)
  BY DEF Reached
<1>4. CtxInv'
  BY <1>3, QuietContext
<1> QED
  BY <1>1, <1>2, <1>4, QuietLog DEF IInv

LEMMA CursorTypes ==
  ASSUME TypeOK, Bounds, InPlay
  PROVE  /\ file \in Nat /\ play \in Nat /\ item \in Nat /\ pos \in 1..(Len(hosts) + 1)
         /\ hosts \in Seq(HostNames) /\ Len(hosts) \in Nat
         /\ Play.tasks \in Seq(Kinds) /\ Play.handlers \in Seq(Kinds)
         /\ Len(Play.tasks) \in Nat /\ Len(Play.handlers) \in Nat
<1>1. file \in 1..Len(argv) /\ play \in 1..Len(argv[file].plays)
  BY ArgvFacts DEF TypeOK, Bounds, InPlay
<1>2. /\ file \in Nat /\ play \in Nat
      /\ Play.tasks \in Seq(Kinds) /\ Play.handlers \in Seq(Kinds)
  BY <1>1, ArgvFacts DEF TypeOK, Play
<1>3. Len(Play.tasks) \in Nat /\ Len(Play.handlers) \in Nat
  BY <1>2
<1>4. hosts \in Seq(HostNames) /\ Len(hosts) \in Nat /\ pos \in 1..(Len(hosts) + 1)
  BY HostsType DEF TypeOK, InPlay
<1>5. item \in Nat
  BY <1>3 DEF TypeOK, InPlay
<1> QED
  BY <1>2, <1>3, <1>4, <1>5

(* The node or the handler the cursors are at. *)
LEMMA DueTypes ==
  ASSUME TypeOK, Bounds, InPlay
  PROVE  /\ phase = "tasks" /\ item <= Len(Play.tasks) =>
              item \in 1..Len(Play.tasks) /\ Play.tasks[item] \in Kinds
         /\ phase = "handlers" /\ item <= Len(Play.handlers) =>
              item \in 1..Len(Play.handlers) /\ Play.handlers[item] \in Kinds
         /\ pos <= Len(hosts) => pos \in 1..Len(hosts) /\ Host \in HostNames
<1>1. /\ Play.tasks \in Seq(Kinds) /\ Len(Play.tasks) \in Nat
      /\ Play.handlers \in Seq(Kinds) /\ Len(Play.handlers) \in Nat
      /\ hosts \in Seq(HostNames) /\ Len(hosts) \in Nat
      /\ item \in Nat /\ pos \in 1..(Len(hosts) + 1)
  BY CursorTypes
<1>2. 1 <= item
  <2>1. /\ phase = "tasks" => item \in 1..(Len(Play.tasks) + 1)
        /\ phase = "handlers" => item \in 1..(Len(Play.handlers) + 1)
        /\ phase = "tasks" \/ phase = "handlers"
    BY DEF TypeOK, InPlay
  <2> QED
    BY <1>1, <2>1
<1>3. pos <= Len(hosts) => pos \in 1..Len(hosts)
  BY <1>1
<1>4. pos <= Len(hosts) => Host \in HostNames
  BY <1>1, <1>3 DEF Host
<1> QED
  BY <1>1, <1>2, <1>3, <1>4

LEMMA EndingStep == IInv /\ (BadArguments \/ Exit \/ TaskErr) => IInv'
<1> SUFFICES ASSUME IInv, BadArguments \/ Exit \/ TaskErr PROVE IInv'
  OBVIOUS
<1>1. UNCHANGED <<argv, extra, file, play, phase, hosts, item, pos, failed, playVar, regVar,
                  factVar, success, log>>
  BY DEF BadArguments, Exit, TaskErr, ctx, cursors
<1>2. \/ phase = "load" /\ status' = IF success THEN "exit0" ELSE "exit2"
      \/ status' = "exit1"
  BY DEF BadArguments, Exit, TaskErr, At
<1>3. /\ status' \in {"exit0", "exit1", "exit2"}
      /\ status' = "exit0" => success /\ phase = "load"
      /\ status' = "exit2" => ~success /\ phase = "load"
  BY <1>2
<1>4. TypeOK'
  BY <1>1, <1>3 DEF IInv, TypeOK, Play
<1> QED
  BY <1>1, <1>3, <1>4, SameCursors DEF ctx, InPlay

LEMMA MovingStep == IInv /\ (SkipHost \/ NextNode \/ TasksDone \/ NextHandlerHost) => IInv'
<1> SUFFICES ASSUME IInv, SkipHost \/ NextNode \/ TasksDone \/ NextHandlerHost PROVE IInv'
  OBVIOUS
<1>1. /\ UNCHANGED <<argv, extra, file, play, hosts, failed, playVar, regVar, factVar, success,
                     status, log>>
      /\ status = "run" /\ phase \in {"tasks", "handlers"}
  BY DEF SkipHost, NextNode, TasksDone, NextHandlerHost, AtNode, AtHandler, At, ctx
<1>2. \/ phase' = phase /\ pos <= Len(hosts) /\ pos' = pos + 1 /\ item' = item
      \/ phase' = phase /\ pos <= Len(hosts) /\ pos' = pos + 1 /\ item' = 1
      \/ phase' = "tasks" /\ phase = "tasks" /\ item <= Len(Play.tasks) /\ item' = item + 1 /\ pos' = 1
      \/ phase' = "handlers" /\ item' = 1 /\ pos' = 1
  BY DEF SkipHost, NextNode, TasksDone, NextHandlerHost, AtNode, AtHandler, At
<1>3. /\ phase' \in {"tasks", "handlers"}
      /\ pos' \in 1..(Len(hosts) + 1)
      /\ phase' = "tasks" => item' \in 1..(Len(Play.tasks) + 1)
      /\ phase' = "handlers" => item' \in 1..(Len(Play.handlers) + 1)
  <2>1. /\ pos \in 1..(Len(hosts) + 1) /\ Len(hosts) \in Nat
        /\ Len(Play.tasks) \in Nat /\ Len(Play.handlers) \in Nat
    BY <1>1, CursorTypes DEF IInv, InPlay
  <2>2. /\ phase = "tasks" => item \in 1..(Len(Play.tasks) + 1)
        /\ phase = "handlers" => item \in 1..(Len(Play.handlers) + 1)
    BY <1>1 DEF IInv, TypeOK
  <2> QED
    BY <1>1, <1>2, <2>1, <2>2
<1>4. TypeOK'
  BY <1>1, <1>3 DEF IInv, TypeOK, Play
<1> QED
  BY <1>1, <1>3, <1>4, SameCursors DEF ctx, InPlay, IInv, FailInv

-----------------------------------------------------------------------------
(* The steps that run something. *)

LEMMA SourceKinds ==
  \A n : <<"fact", n>> # Unset /\ <<"register", n>> # Unset
  BY DEF Unset

(* What running a task, block or handler does to the log and the context.    *)
LEMMA ExecuteStep ==
  ASSUME IInv, InPlay, pos <= Len(hosts), NEW kind \in Kinds, NEW out \in OutcomesOf(kind),
         Execute(kind, out), UNCHANGED <<argv, extra, file, play, phase, playVar>>
  PROVE  /\ log' \in Seq(Entries) /\ regVar' \in Sources
         /\ factVar' \in [HostNames -> Sources]
         /\ SourceInv' /\ CtxInv'
         /\ TaskFailures' = IF phase = "tasks" /\ out = "failed"
                            THEN TaskFailures \union {Len(log) + 1} ELSE TaskFailures
<1>n. PICK n \in Nat : n = Len(log)
  BY DEF IInv, TypeOK
<1>h. PICK host \in HostNames : host = Host
  BY CursorTypes DEF Host, IInv, TypeOK
<1>w. PICK wrote \in WritesOf(kind, out) :
        /\ log' = Append(log, [at |-> <<file, play>>, part |-> phase, host |-> Host,
                               item |-> item, out |-> out, wrote |-> wrote, saw |-> Seen(Host)])
        /\ regVar' = IF "register" \in wrote THEN <<"register", Len(log')>> ELSE regVar
        /\ factVar' = IF "fact" \in wrote
                      THEN [factVar EXCEPT ![Host] = <<"fact", Len(log')>>] ELSE factVar
  BY DEF Execute
<1> DEFINE e == [at |-> <<file, play>>, part |-> phase, host |-> host, item |-> item,
                 out |-> out, wrote |-> wrote, saw |-> Seen(host)]
<1>1. host \in HostNames /\ n \in Nat
  OBVIOUS
<1>2. Seen(host) \in Sources
  BY <1>1 DEF Seen, IInv, TypeOK
<1>3. e \in Entries
  <2>1. out \in {"ok", "failed", "skipped"} /\ wrote \in SUBSET {"register", "fact"}
    BY OutcomeType, WriteType, Zenon
  <2> QED
    BY <1>1, <1>2, <2>1, CursorTypes DEF Entries, IInv, InPlay
<1>4. /\ log' \in Seq(Entries) /\ Len(log') = n + 1 /\ DOMAIN log' = 1..(n + 1)
      /\ \A i \in 1..n : log'[i] = log[i]
      /\ log'[n + 1] = e
  <2> HIDE DEF e
  <2>1. log' = Append(log, e) /\ log \in Seq(Entries)
    BY <1>h, <1>w DEF e, IInv, TypeOK
  <2> QED
    BY <1>n, <1>3, <2>1
<1>5. /\ e.wrote = wrote /\ e.out = out /\ e.host = host /\ e.part = phase
      /\ e.at = <<file, play>> /\ e.saw = Seen(host)
  OBVIOUS
<1> HIDE DEF e
<1>6. /\ regVar' = IF "register" \in wrote THEN <<"register", n + 1>> ELSE regVar
      /\ factVar' = IF "fact" \in wrote
                    THEN [factVar EXCEPT ![host] = <<"fact", n + 1>>] ELSE factVar
  BY <1>4, <1>h, <1>w
<1>7. <<"register", n + 1>> \in Sources /\ <<"fact", n + 1>> \in Sources
  BY <1>1 DEF Sources
<1>8. regVar' \in Sources /\ factVar' \in [HostNames -> Sources]
  BY <1>1, <1>6, <1>7 DEF IInv, TypeOK
<1>9. /\ \A i \in 1..(n + 1), h \in HostNames : FactsBefore(i, h)' = FactsBefore(i, h)
      /\ \A i \in 1..(n + 1) : RegsBefore(i)' = RegsBefore(i)
  BY <1>n, <1>4 DEF FactsBefore, RegsBefore
<1>10. /\ \A h \in HostNames :
             FactsBefore(n + 2, h)' = IF "fact" \in wrote /\ h = host
                                      THEN FactsBefore(n + 1, h) \union {n + 1}
                                      ELSE FactsBefore(n + 1, h)
       /\ RegsBefore(n + 2)' = IF "register" \in wrote
                               THEN RegsBefore(n + 1) \union {n + 1} ELSE RegsBefore(n + 1)
  BY <1>n, <1>4, <1>5 DEF FactsBefore, RegsBefore
<1>11. /\ \A h \in HostNames : FactsBefore(n + 1, h) \in SUBSET (1..n)
       /\ RegsBefore(n + 1) \in SUBSET (1..n)
  BY <1>1 DEF FactsBefore, RegsBefore
<1>12. /\ Setters' = Setters
       /\ \A P : VarsSource(P)' = VarsSource(P)
       /\ {a \in Setters : Reached(a)}' = {a \in Setters : Reached(a)}
  BY DEF Setters, VarsSource, PlaySource, Reached, InPlay
<1>13. SourceInv'
  <2>1. ASSUME NEW i \in 1..n
        PROVE  log'[i].saw = LayeredSource(i)'
    <3>1. log'[i] = log[i] /\ log[i].host \in HostNames /\ log[i].saw = LayeredSource(i)
      <4>1. i \in DOMAIN log /\ log[i] \in Entries
        BY <1>n DEF IInv, TypeOK
      <4>2. log[i].host \in HostNames
        BY <4>1 DEF Entries
      <4> QED
        BY <1>4, <4>1, <4>2 DEF IInv, SourceInv
    <3>2. PICK own \in HostNames : own = log[i].host /\ own = log'[i].host
      BY <3>1
    <3>3. FactsBefore(i, own)' = FactsBefore(i, own) /\ RegsBefore(i)' = RegsBefore(i)
      BY <1>9
    <3>4. {a \in Setters : Before(a, log[i].at)}' = {a \in Setters : Before(a, log[i].at)}
      BY <1>12, <3>1 DEF Before
    <3> QED
      BY <1>12, <3>1, <3>2, <3>3, <3>4 DEF LayeredSource
  <2>2. log'[n + 1].saw = LayeredSource(n + 1)'
    <3> DEFINE F == FactsBefore(n + 1, host)
               R == RegsBefore(n + 1)
               P == {a \in Setters : Before(a, <<file, play>>)}
    <3>1. /\ factVar[host] = (IF F # {} THEN <<"fact", Max(F)>> ELSE Unset)
          /\ regVar = (IF R # {} THEN <<"register", Max(R)>> ELSE Unset)
      BY <1>n DEF IInv, CtxInv, FactSource, RegSource
    <3>2. P = {a \in Setters : Reached(a)}
      <4>1. \A a \in Setters : \E f, p \in Nat : a = <<f, p>>
        BY SetterType, ArgvFacts DEF IInv, TypeOK
      <4>2. \A a \in Setters : Before(a, <<file, play>>) <=> Reached(a)
        BY <4>1, CursorTypes DEF Before, Reached, InPlay, IInv
      <4> QED
        BY <4>2
    <3>3. playVar = VarsSource(P)
      BY <3>2 DEF IInv, CtxInv
    <3>4. LayeredSource(n + 1)' = IF F # {} THEN <<"fact", Max(F)>>
                                   ELSE IF R # {} THEN <<"register", Max(R)>> ELSE VarsSource(P)
      <4>1. n + 1 \in 1..(n + 1) /\ log'[n + 1].host = host /\ log'[n + 1].at = <<file, play>>
        BY <1>1, <1>4, <1>5
      <4>2. FactsBefore(n + 1, host)' = F /\ RegsBefore(n + 1)' = R
        BY <1>9, <4>1
      <4>3. {a \in Setters : Before(a, log[n + 1].at)}' = P
        BY <1>12, <4>1 DEF Before
      <4> QED
        BY <1>12, <4>1, <4>2, <4>3 DEF LayeredSource
    <3> HIDE DEF F, R, P
    <3> QED
      BY <1>4, <1>5, <3>1, <3>3, <3>4, SourceKinds DEF Seen
  <2> QED
    BY <1>n, <1>4, <2>1, <2>2 DEF SourceInv
<1>14. CtxInv'
  <2>1. Len(log') + 1 = n + 2
    BY <1>1, <1>4
  <2>2. ASSUME NEW h \in HostNames
        PROVE  factVar'[h] = FactSource(h)'
    <3>1. FactSource(h)' = IF FactsBefore(n + 2, h)' # {} THEN <<"fact", Max(FactsBefore(n + 2, h)')>>
                           ELSE Unset
      BY <2>1, Zenon DEF FactSource
    <3>2. factVar[h] = FactSource(h)
      BY DEF IInv, CtxInv
    <3>3. CASE "fact" \in wrote /\ h = host
      <4>1. factVar'[h] = <<"fact", n + 1>>
        BY <1>1, <1>6, <3>3 DEF IInv, TypeOK
      <4>2. Max(FactsBefore(n + 2, h)') = n + 1 /\ FactsBefore(n + 2, h)' # {}
        BY <1>1, <1>10, <1>11, <3>3, MaxIs
      <4> QED
        BY <3>1, <4>1, <4>2
    <3>4. CASE ~("fact" \in wrote /\ h = host)
      <4>1. factVar'[h] = factVar[h]
        BY <1>1, <1>6, <3>4 DEF IInv, TypeOK
      <4>2. FactsBefore(n + 2, h)' = FactsBefore(n + 1, h)
        BY <1>10, <3>4
      <4> QED
        BY <3>1, <3>2, <4>1, <4>2, <1>n DEF FactSource
    <3> QED
      BY <3>3, <3>4
  <2>3. regVar' = RegSource'
    <3>1. RegSource' = IF RegsBefore(n + 2)' # {} THEN <<"register", Max(RegsBefore(n + 2)')>>
                       ELSE Unset
      BY <2>1, Zenon DEF RegSource
    <3>2. regVar = RegSource
      BY DEF IInv, CtxInv
    <3>3. CASE "register" \in wrote
      <4>1. Max(RegsBefore(n + 2)') = n + 1 /\ RegsBefore(n + 2)' # {}
        BY <1>1, <1>10, <1>11, <3>3, MaxIs
      <4> QED
        BY <1>6, <3>1, <3>3, <4>1
    <3>4. CASE ~("register" \in wrote)
      BY <1>n, <1>6, <1>10, <3>1, <3>2, <3>4 DEF RegSource
    <3> QED
      BY <3>3, <3>4
  <2>4. playVar' = VarsSource({a \in Setters : Reached(a)})'
    BY <1>12 DEF IInv, CtxInv
  <2> QED
    BY <2>2, <2>3, <2>4 DEF CtxInv
<1>15. TaskFailures' = IF phase = "tasks" /\ out = "failed"
                       THEN TaskFailures \union {n + 1} ELSE TaskFailures
  <2>1. DOMAIN log = 1..n
    BY <1>n DEF IInv, TypeOK
  <2> QED
    BY <1>n, <1>4, <1>5, <2>1 DEF TaskFailures
<1> QED
  BY <1>n, <1>4, <1>8, <1>13, <1>14, <1>15

LEMMA RunNodeStep == IInv /\ RunNode => IInv'
<1> SUFFICES ASSUME IInv, RunNode PROVE IInv'
  OBVIOUS
<1>1. /\ status = "run" /\ phase = "tasks" /\ item <= Len(Play.tasks) /\ pos <= Len(hosts)
      /\ ~failed[Host] /\ pos' = pos + 1
      /\ UNCHANGED <<argv, extra, file, play, phase, hosts, item, playVar, success, status>>
  BY DEF RunNode, AtNode, At
<1>2. InPlay
  BY <1>1 DEF InPlay
<1>3. PICK o \in OutcomesOf(Play.tasks[item]) :
        /\ Execute(Play.tasks[item], o)
        /\ failed' = [failed EXCEPT ![Host] = o = "failed"]
  BY DEF RunNode
<1>4. Play.tasks[item] \in Kinds /\ pos \in 1..Len(hosts) /\ Host \in HostNames
  BY <1>1, <1>2, DueTypes DEF IInv
<1>5. /\ log' \in Seq(Entries) /\ regVar' \in Sources /\ factVar' \in [HostNames -> Sources]
      /\ SourceInv' /\ CtxInv'
      /\ TaskFailures' = IF o = "failed" THEN TaskFailures \union {Len(log) + 1} ELSE TaskFailures
  BY <1>1, <1>2, <1>3, <1>4, ExecuteStep
<1>6. /\ failed \in [HostNames -> BOOLEAN] /\ failed' \in [HostNames -> BOOLEAN]
      /\ failed'[Host] = (o = "failed")
      /\ \A h \in HostNames : h # Host => failed'[h] = failed[h]
  BY <1>3, <1>4 DEF IInv, TypeOK
<1>7. TypeOK'
  <2>1. pos' \in 1..(Len(hosts) + 1)
    BY <1>1, <1>2, CursorTypes DEF IInv
  <2> QED
    BY <1>1, <1>5, <1>6, <2>1 DEF IInv, TypeOK, Play
<1>8. Bounds'
  BY <1>1 DEF IInv, Bounds, InPlay
<1>9. FailInv'
  <2>1. \A i \in DOMAIN hosts : hosts[i] \in HostNames
    BY <1>2, CursorTypes DEF IInv
  <2>2. TaskFailures = {} <=> success /\ ~\E i \in DOMAIN hosts : failed[hosts[i]]
    BY <1>2 DEF IInv, FailInv
  <2>3. CASE o = "failed"
    <3>1. pos \in DOMAIN hosts /\ hosts[pos] = Host
      BY <1>2, <1>4, CursorTypes DEF Host, IInv
    <3>2. \E i \in DOMAIN hosts : failed'[hosts[i]]
      BY <1>6, <2>3, <3>1
    <3> QED
      BY <1>1, <1>2, <1>5, <2>3, <3>2 DEF FailInv, InPlay
  <2>4. CASE o # "failed"
    <3>1. (\E i \in DOMAIN hosts : failed'[hosts[i]]) <=> \E i \in DOMAIN hosts : failed[hosts[i]]
      BY <1>1, <1>6, <2>1, <2>4
    <3> QED
      BY <1>1, <1>2, <1>5, <2>2, <2>4, <3>1 DEF FailInv, InPlay
  <2> QED
    BY <2>3, <2>4
<1> QED
  BY <1>5, <1>7, <1>8, <1>9 DEF IInv

LEMMA RunHandlerStep == IInv /\ RunHandler => IInv'
<1> SUFFICES ASSUME IInv, RunHandler PROVE IInv'
  OBVIOUS
<1>1. /\ status = "run" /\ phase = "handlers" /\ item <= Len(Play.handlers) /\ pos <= Len(hosts)
      /\ item' = item + 1
      /\ UNCHANGED <<argv, extra, file, play, phase, hosts, pos, failed, playVar, success, status>>
  BY DEF RunHandler, HandlerDue, AtHandler, At
<1>2. InPlay
  BY <1>1 DEF InPlay
<1>3. PICK o \in OutcomesOf(Play.handlers[item]) : Execute(Play.handlers[item], o)
  BY DEF RunHandler
<1>4. Play.handlers[item] \in Kinds /\ item \in 1..Len(Play.handlers)
  BY <1>1, <1>2, DueTypes DEF IInv
<1>5. /\ log' \in Seq(Entries) /\ regVar' \in Sources /\ factVar' \in [HostNames -> Sources]
      /\ SourceInv' /\ CtxInv' /\ TaskFailures' = TaskFailures
  BY <1>1, <1>2, <1>3, <1>4, ExecuteStep
<1>6. TypeOK'
  <2>1. item' \in 1..(Len(Play.handlers) + 1)
    <3>1. Len(Play.handlers) \in Nat
      BY <1>2, CursorTypes DEF IInv
    <3> QED
      BY <1>1, <1>4, <3>1
  <2> QED
    BY <1>1, <1>5, <2>1 DEF IInv, TypeOK, Play
<1>7. Bounds'
  BY <1>1 DEF IInv, Bounds, InPlay
<1>8. FailInv'
  <2>1. /\ TaskFailures = {} <=> success /\ ~\E i \in DOMAIN hosts : failed[hosts[i]]
    BY <1>2 DEF IInv, FailInv
  <2> QED
    BY <1>1, <1>2, <1>5, <2>1 DEF FailInv, InPlay
<1> QED
  BY <1>5, <1>6, <1>7, <1>8 DEF IInv

LEMMA StepIInv == IInv /\ [Next]_vars => IInv'
<1> SUFFICES ASSUME IInv, [Next]_vars PROVE IInv'
  OBVIOUS
<1>1. CASE UNCHANGED vars
  <2>1. UNCHANGED <<argv, extra, file, play, phase, hosts, item, pos, failed, playVar, regVar,
                    factVar, success, status, log>>
    BY <1>1 DEF vars, cursors, ctx
  <2>2. TypeOK'
    BY <2>1 DEF IInv, TypeOK, Play
  <2> QED
    BY <2>1, <2>2, SameCursors DEF ctx, InPlay, IInv, FailInv
<1> QED
  BY <1>1, LoadFileStep, StartPlayStep, EndStep, EndingStep, MovingStep, RunNodeStep, RunHandlerStep
  DEF Next

-----------------------------------------------------------------------------
(* What a play covers.  How far the task list and the handlers have come on  *)
(* the i-th host, when no task has left it failed.                           *)
TasksDue(i) ==
  IF phase = "handlers" THEN Len(Play.tasks) ELSE IF i < pos THEN item ELSE item - 1
HandlersDue(i) ==
  IF phase = "tasks" \/ failed[hosts[i]] \/ i > pos THEN 0
  ELSE IF i < pos THEN Len(Play.handlers) ELSE item - 1

(* A host has run that much, or a part of it that ends with a failed task.   *)
TasksRun(h, n) ==
  /\ InOrder(Mine(h, "tasks"), n)
  /\ \A j \in Mine(h, "tasks") : log[j].out = "failed" => log[j].item = n
Covered(i) ==
  /\ \E n \in 0..Len(Play.tasks) :
       /\ TasksRun(hosts[i], n)
       /\ n <= TasksDue(i)
       /\ ~failed[hosts[i]] => n = TasksDue(i)
  /\ failed[hosts[i]] <=> Fell(hosts[i])
  /\ InOrder(Mine(hosts[i], "handlers"), HandlersDue(i))

(* A play is the first to log anything under its cursors, goes to each host  *)
(* once, and the task list ends before a host is passed.                     *)
CoverInv ==
  /\ \A j \in DOMAIN log : Reached(log[j].at)
  /\ \A i, j \in DOMAIN hosts : hosts[i] = hosts[j] => i = j
  /\ InPlay => \A i \in DOMAIN hosts : Covered(i)
  /\ phase = "tasks" /\ item > Len(Play.tasks) => pos = 1

(* No pattern stands for a list with a host in it twice. *)
LEMMA HostsOnce ==
  \A p : \A s \in MatchingHosts(p) : \A i, j \in DOMAIN s : s[i] = s[j] => i = j
<1>1. \A S : \A s \in SetToSeqs(S) : \A i, j \in DOMAIN s : s[i] = s[j] => i = j
  BY DEF SetToSeqs
<1>2. \A S : \A s \in Sorted(S) : \A i, j \in DOMAIN s : s[i] = s[j] => i = j
  BY <1>1, Zenon DEF Sorted
<1>3. \A x : \A i, j \in DOMAIN <<x>> : <<x>>[i] = <<x>>[j] => i = j
  OBVIOUS
<1>4. \A i, j \in DOMAIN <<>> : <<>>[i] = <<>>[j] => i = j
  OBVIOUS
<1>5. SUFFICES ASSUME NEW p, NEW s \in MatchingHosts(p)
               PROVE  \A i, j \in DOMAIN s : s[i] = s[j] => i = j
  OBVIOUS
<1>6. \/ s \in SetToSeqs(InvHosts) \/ s = <<"localhost">> \/ s \in Sorted(Members[p])
      \/ s = <<p>> \/ s = <<>>
  BY Zenon DEF MatchingHosts
<1> QED
  BY <1>1, <1>2, <1>3, <1>4, <1>6, Zenon

(* The log alone says what has been run. *)
LEMMA SameRuns ==
  ASSUME UNCHANGED <<argv, file, play, log>>
  PROVE  /\ Play' = Play
         /\ \A J, n : InOrder(J, n)' <=> InOrder(J, n)
         /\ \A h, part : Mine(h, part)' = Mine(h, part)
         /\ \A h : Fell(h)' <=> Fell(h)
         /\ \A h, n : TasksRun(h, n)' <=> TasksRun(h, n)
<1>1. Play' = Play
  BY DEF Play
<1>2. \A J, n : InOrder(J, n)' <=> InOrder(J, n)
  BY DEF InOrder
<1>3. \A h, part : Mine(h, part)' = Mine(h, part)
  BY DEF Mine
<1>4. \A h : Fell(h)' <=> Fell(h)
  BY <1>3 DEF Fell
<1>5. \A h, n : TasksRun(h, n)' <=> TasksRun(h, n)
  BY <1>2, <1>3 DEF TasksRun
<1> QED
  BY <1>1, <1>2, <1>3, <1>4, <1>5

(* A step that runs nothing on a host may only pass a failed host over.      *)
LEMMA CoveredKeeps ==
  ASSUME UNCHANGED <<argv, file, play, log, hosts, failed>>, NEW i, Covered(i),
         Len(Play.tasks) \in Nat, TasksDue(i) \in Int, TasksDue(i)' \in Int,
         TasksDue(i) <= TasksDue(i)', ~failed[hosts[i]] => TasksDue(i)' = TasksDue(i),
         HandlersDue(i)' = HandlersDue(i)
  PROVE  Covered(i)'
<1>1. PICK n \in 0..Len(Play.tasks) :
        TasksRun(hosts[i], n) /\ n <= TasksDue(i) /\ (~failed[hosts[i]] => n = TasksDue(i))
  BY DEF Covered
<1>2. \E m \in 0..Len(Play.tasks) :
        /\ TasksRun(hosts[i], m)
        /\ m <= TasksDue(i)'
        /\ ~failed[hosts[i]] => m = TasksDue(i)'
  <2>1. n \in Nat /\ n <= TasksDue(i)'
    BY <1>1
  <2> QED
    BY <1>1, <2>1
<1>3. /\ failed[hosts[i]] <=> Fell(hosts[i])
      /\ InOrder(Mine(hosts[i], "handlers"), HandlersDue(i))
  BY DEF Covered
<1> QED
  BY <1>2, <1>3, SameRuns DEF Covered

(* So do steps between two plays. *)
LEMMA BetweenPlays ==
  ASSUME IInv, CoverInv, UNCHANGED <<argv, log, hosts>>, ~InPlay',
         \A f, p \in Nat : Reached(<<f, p>>) => Reached(<<f, p>>)'
  PROVE  CoverInv'
<1>1. ASSUME NEW j \in DOMAIN log
      PROVE  Reached(log[j].at)'
  <2>1. log[j].at \in Nat \X Nat
    <3>1. log[j] \in Entries
      BY DEF IInv, TypeOK
    <3> QED
      BY <3>1, Zenon DEF Entries
  <2>2. PICK f, p \in Nat : log[j].at = <<f, p>>
    BY <2>1
  <2>3. Reached(<<f, p>>)
    BY <2>2 DEF CoverInv
  <2>4. Reached(<<f, p>>)'
    BY <2>3
  <2> QED
    BY <2>2, <2>4 DEF Reached
<1> QED
  BY <1>1 DEF CoverInv, InPlay

LEMMA InitCovers == Init => CoverInv
  BY DEF Init, CoverInv, InPlay

LEMMA LoadFileCovers == IInv /\ CoverInv /\ LoadFile => CoverInv'
<1> SUFFICES ASSUME IInv, CoverInv, LoadFile PROVE CoverInv'
  OBVIOUS
<1>1. /\ phase = "load" /\ phase' \in {"load", "play"}
      /\ UNCHANGED <<argv, file, hosts, log>>
  BY DEF LoadFile, At
<1>2. \A f, p \in Nat : Reached(<<f, p>>) => Reached(<<f, p>>)'
  BY <1>1 DEF Reached, InPlay
<1> QED
  BY <1>1, <1>2, BetweenPlays DEF InPlay

LEMMA EndCovers == IInv /\ CoverInv /\ (EndPlay \/ EndFile) => CoverInv'
<1> SUFFICES ASSUME IInv, CoverInv, EndPlay \/ EndFile PROVE CoverInv'
  OBVIOUS
<1>1. /\ \/ phase = "handlers" /\ phase' = "play" /\ play' = play + 1 /\ file' = file
         \/ phase = "play" /\ phase' = "load" /\ play' = play /\ file' = file + 1
      /\ UNCHANGED <<argv, hosts, log>>
  BY DEF EndPlay, EndFile, At
<1>2. file \in Nat /\ play \in Nat
  BY <1>1, ArgvFacts DEF IInv, TypeOK
<1>3. \A f, p \in Nat : Reached(<<f, p>>) => Reached(<<f, p>>)'
  BY <1>1, <1>2 DEF Reached, InPlay
<1> QED
  BY <1>1, <1>3, BetweenPlays DEF InPlay

(* A new play has run nothing yet, and goes to each of its hosts once.       *)
LEMMA StartPlayCovers == IInv /\ CoverInv /\ StartPlay => CoverInv'
<1> SUFFICES ASSUME IInv, CoverInv, StartPlay PROVE CoverInv'
  OBVIOUS
<1>1. /\ phase = "play" /\ play <= Len(argv[file].plays)
      /\ hosts' \in MatchingHosts(Play.pattern)
      /\ failed' = [h \in HostNames |-> FALSE]
      /\ phase' = "tasks" /\ item' = 1 /\ pos' = 1
      /\ UNCHANGED <<argv, file, play, log>>
  BY DEF StartPlay, At
<1>2. file \in Nat /\ play \in Nat
  BY <1>1, ArgvFacts DEF IInv, TypeOK
<1>3. \A j \in DOMAIN log : log[j].at # <<file, play>> /\ Reached(log[j].at)'
  BY <1>1, <1>2 DEF CoverInv, Reached, InPlay
<1>4. \A h, part : Mine(h, part) = {}
  BY <1>3 DEF Mine
<1>5. ASSUME NEW i \in DOMAIN hosts'
      PROVE  Covered(i)'
  <2>1. PICK h \in HostNames : h = hosts'[i]
    <3>1. hosts' \in Seq(HostNames)
      BY <1>1, HostsType
    <3> QED
      BY <3>1
  <2>2. i \in Nat /\ i >= 1
    <3>1. hosts' \in Seq(HostNames)
      BY <1>1, HostsType
    <3> QED
      BY <3>1
  <2>3. ~failed'[h] /\ TasksDue(i)' = 0 /\ HandlersDue(i)' = 0
    BY <1>1, <2>1, <2>2 DEF TasksDue, HandlersDue
  <2>4. InOrder({}, 0) /\ ~Fell(h) /\ TasksRun(h, 0)
    <3>1. InOrder({}, 0)
      BY DEF InOrder
    <3> QED
      BY <1>4, <3>1 DEF Fell, TasksRun
  <2>5. 0 \in 0..Len(Play.tasks)
    <3>1. file \in 1..Len(argv) /\ play \in 1..Len(argv[file].plays)
      BY <1>1, ArgvFacts DEF IInv, TypeOK, Bounds
    <3>2. Play.tasks \in Seq(Kinds)
      BY <3>1, ArgvFacts DEF IInv, TypeOK, Play
    <3> QED
      BY <3>2
  <2>6. /\ Play' = Play /\ InOrder({}, 0)' /\ ~Fell(h)' /\ TasksRun(h, 0)'
        /\ Mine(h, "handlers")' = {}
    BY <1>1, <1>4, <2>4, SameRuns
  <2>7. \E n \in 0..Len(Play'.tasks) :
          /\ TasksRun(h, n)'
          /\ n <= TasksDue(i)'
          /\ ~failed'[h] => n = TasksDue(i)'
    BY <2>3, <2>5, <2>6
  <2> QED
    BY <2>1, <2>3, <2>6, <2>7 DEF Covered
<1>6. \A i, j \in DOMAIN hosts' : hosts'[i] = hosts'[j] => i = j
  BY <1>1, HostsOnce
<1>7. phase' = "tasks" /\ item' > Len(Play'.tasks) => pos' = 1
  BY <1>1
<1> QED
  BY <1>1, <1>3, <1>5, <1>6, <1>7 DEF CoverInv

(* Passing a host, a node or the task list runs nothing.                     *)
LEMMA MovingCovers ==
  IInv /\ CoverInv /\ (SkipHost \/ NextNode \/ TasksDone \/ NextHandlerHost) => CoverInv'
<1> SUFFICES ASSUME IInv, CoverInv, SkipHost \/ NextNode \/ TasksDone \/ NextHandlerHost
             PROVE  CoverInv'
  OBVIOUS
<1>1. /\ UNCHANGED <<argv, file, play, hosts, failed, log>> /\ InPlay /\ InPlay'
  BY DEF SkipHost, NextNode, TasksDone, NextHandlerHost, AtNode, AtHandler, At, ctx, InPlay
<1>2. \/ /\ phase = "tasks" /\ phase' = "tasks" /\ item <= Len(Play.tasks) /\ item' = item
         /\ pos <= Len(hosts) /\ pos' = pos + 1 /\ failed[hosts[pos]]
      \/ /\ phase = "tasks" /\ phase' = "tasks" /\ item <= Len(Play.tasks) /\ item' = item + 1
         /\ pos > Len(hosts) /\ pos' = 1
      \/ /\ phase = "tasks" /\ phase' = "handlers" /\ item > Len(Play.tasks) /\ pos = 1
         /\ pos' = 1 /\ item' = 1
      \/ /\ phase = "handlers" /\ phase' = "handlers" /\ pos <= Len(hosts)
         /\ failed[hosts[pos]] \/ ~(item <= Len(Play.handlers))
         /\ pos' = pos + 1 /\ item' = 1
  <2>1. CASE SkipHost
    BY <2>1 DEF SkipHost, AtNode, At, Host
  <2>2. CASE NextNode
    BY <2>2 DEF NextNode, At
  <2>3. CASE TasksDone
    BY <2>3 DEF TasksDone, At, CoverInv
  <2>4. CASE NextHandlerHost
    <3>1. /\ phase = "handlers" /\ phase' = "handlers" /\ pos <= Len(hosts) /\ ~HandlerDue
          /\ pos' = pos + 1 /\ item' = 1
      BY <2>4 DEF NextHandlerHost, AtHandler, At
    <3>2. failed[hosts[pos]] \/ ~(item <= Len(Play.handlers))
      BY <2>4, <3>1 DEF HandlerDue, Host, NextHandlerHost
    <3> QED
      BY <3>1, <3>2
  <2> QED
    BY <2>1, <2>2, <2>3, <2>4
<1>3. /\ item \in Nat /\ pos \in 1..(Len(hosts) + 1) /\ hosts \in Seq(HostNames)
      /\ Len(hosts) \in Nat /\ Len(Play.tasks) \in Nat /\ Len(Play.handlers) \in Nat
      /\ phase = "tasks" => item \in 1..(Len(Play.tasks) + 1)
      /\ phase = "handlers" => item \in 1..(Len(Play.handlers) + 1)
  <2>1. TypeOK /\ Bounds
    BY DEF IInv
  <2>2. /\ phase = "tasks" => item \in 1..(Len(Play.tasks) + 1)
        /\ phase = "handlers" => item \in 1..(Len(Play.handlers) + 1)
    BY <1>1, <2>1 DEF TypeOK
  <2> QED
    BY <1>1, <2>1, <2>2, CursorTypes
<1>4. Play' = Play
  BY <1>1, SameRuns
<1>5. ASSUME NEW i \in DOMAIN hosts
      PROVE  Covered(i)'
  <2>1. i \in 1..Len(hosts) /\ Covered(i)
    BY <1>1, <1>3 DEF CoverInv
  <2>2. /\ TasksDue(i) \in Int /\ TasksDue(i)' \in Int
        /\ TasksDue(i) <= TasksDue(i)'
        /\ ~failed[hosts[i]] => TasksDue(i)' = TasksDue(i)
    <3>1. i \in Nat /\ hosts' = hosts /\ failed' = failed /\ Play'.tasks = Play.tasks
      BY <1>1, <1>3, <1>4, <2>1
    <3>2. CASE /\ phase = "tasks" /\ phase' = "tasks" /\ item <= Len(Play.tasks) /\ item' = item
               /\ pos <= Len(hosts) /\ pos' = pos + 1 /\ failed[hosts[pos]]
      BY <1>3, <2>1, <3>1, <3>2 DEF TasksDue
    <3>3. CASE /\ phase = "tasks" /\ phase' = "tasks" /\ item <= Len(Play.tasks) /\ item' = item + 1
               /\ pos > Len(hosts) /\ pos' = 1
      BY <1>3, <2>1, <3>1, <3>3 DEF TasksDue
    <3>4. CASE /\ phase = "tasks" /\ phase' = "handlers" /\ item > Len(Play.tasks) /\ pos = 1
               /\ pos' = 1 /\ item' = 1
      BY <1>3, <2>1, <3>1, <3>4 DEF TasksDue
    <3>5. CASE phase = "handlers" /\ phase' = "handlers"
      BY <1>3, <2>1, <3>1, <3>5 DEF TasksDue
    <3> QED
      BY <1>2, <3>2, <3>3, <3>4, <3>5
  <2>3. HandlersDue(i)' = HandlersDue(i)
    BY <1>1, <1>2, <1>3, <1>4, <2>1 DEF HandlersDue
  <2> QED
    BY <1>1, <1>3, <2>1, <2>2, <2>3, CoveredKeeps
<1>6. \A j \in DOMAIN log : Reached(log[j].at)'
  BY <1>1 DEF CoverInv, Reached, InPlay
<1>7. phase' = "tasks" /\ item' > Len(Play.tasks) => pos' = 1
  BY <1>2, <1>3
<1> QED
  BY <1>1, <1>4, <1>5, <1>6, <1>7 DEF CoverInv

(* What running a task, block or handler adds to the log. *)
Added(n) ==
  /\ n \in Nat /\ n = Len(log) /\ DOMAIN log = 1..n /\ DOMAIN log' = 1..(n + 1)
  /\ \A j \in 1..n : log'[j] = log[j]
LEMMA ExecuteAdds ==
  ASSUME IInv, InPlay, pos <= Len(hosts), NEW kind \in Kinds, NEW out \in OutcomesOf(kind),
         Execute(kind, out)
  PROVE  \E n \in Nat :
           /\ Added(n)
           /\ log'[n + 1].at = <<file, play>> /\ log'[n + 1].host = Host
           /\ log'[n + 1].part = phase /\ log'[n + 1].item = item /\ log'[n + 1].out = out
<1>w. PICK wrote \in WritesOf(kind, out) :
        log' = Append(log, [at |-> <<file, play>>, part |-> phase, host |-> Host,
                            item |-> item, out |-> out, wrote |-> wrote, saw |-> Seen(Host)])
  BY DEF Execute
<1> DEFINE e == [at |-> <<file, play>>, part |-> phase, host |-> Host, item |-> item,
                 out |-> out, wrote |-> wrote, saw |-> Seen(Host)]
           n == Len(log)
<1>1. e.at = <<file, play>> /\ e.host = Host /\ e.part = phase /\ e.item = item /\ e.out = out
  OBVIOUS
<1>2. log' = Append(log, e) /\ log \in Seq(Entries)
  BY <1>w DEF IInv, TypeOK
<1> HIDE DEF e
<1>3. /\ n \in Nat /\ DOMAIN log = 1..n /\ DOMAIN log' = 1..(n + 1)
      /\ \A j \in 1..n : log'[j] = log[j]
      /\ log'[n + 1] = e
  BY <1>2
<1> QED
  BY <1>1, <1>3 DEF Added

(* It is one more of its own part on its own host, *)
LEMMA MineGrows ==
  ASSUME NEW n \in Nat, Added(n), UNCHANGED <<file, play>>,
         log'[n + 1].at = <<file, play>>, NEW h, NEW part
  PROVE  /\ Mine(h, part) \in SUBSET (1..n)
         /\ Mine(h, part)' = IF log'[n + 1].host = h /\ log'[n + 1].part = part
                             THEN Mine(h, part) \union {n + 1} ELSE Mine(h, part)
  BY DEF Added, Mine

(* and if it is the next item of that part, the part is still in order.      *)
LEMMA InOrderGrows ==
  ASSUME NEW n \in Nat, Added(n), NEW J \in SUBSET (1..n), NEW m \in Nat, InOrder(J, m)
  PROVE  /\ InOrder(J, m)'
         /\ log'[n + 1].item = m + 1 => InOrder(J \union {n + 1}, m + 1)'
<1>1. \A j \in J : log'[j] = log[j] /\ j \in 1..n
  BY DEF Added
<1>2. \A j \in J : log'[j].item \in 1..m
  BY <1>1 DEF InOrder
<1>3. InOrder(J, m)'
  BY <1>1 DEF InOrder
<1>4. ASSUME log'[n + 1].item = m + 1
      PROVE  InOrder(J \union {n + 1}, m + 1)'
  <2>1. {log'[j].item : j \in J \union {n + 1}} = {log'[j].item : j \in J} \union {m + 1}
    BY <1>4
  <2>2. {log'[j].item : j \in J} = 1..m
    BY <1>3 DEF InOrder
  <2>3. {log'[j].item : j \in J \union {n + 1}} = 1..(m + 1)
    BY <2>1, <2>2
  <2>4. ASSUME NEW j \in J \union {n + 1}, NEW k \in J \union {n + 1}, j < k
        PROVE  log'[j].item < log'[k].item
    <3>1. j \in J
      BY <1>1, <2>4
    <3>2. CASE k = n + 1
      BY <1>2, <1>4, <3>1, <3>2
    <3>3. CASE k \in J
      BY <1>3, <2>4, <3>1, <3>3 DEF InOrder
    <3> QED
      BY <3>2, <3>3
  <2> QED
    BY <2>3, <2>4 DEF InOrder
<1> QED
  BY <1>3, <1>4

(* It is logged under the cursors of a play that has been reached.           *)
LEMMA AddedReached ==
  ASSUME CoverInv, UNCHANGED <<file, play, phase>>, InPlay, NEW n \in Nat, Added(n),
         log'[n + 1].at = <<file, play>>
  PROVE  \A j \in DOMAIN log' : Reached(log[j].at)'
<1>1. \A a : Reached(a)' <=> Reached(a)
  BY DEF Reached, InPlay
<1>2. ASSUME NEW j \in 1..n PROVE Reached(log[j].at)'
  <2>1. PICK a : a = log[j].at /\ a = log'[j].at
    BY <1>2 DEF Added
  <2>2. Reached(a)'
    BY <1>1, <1>2, <2>1 DEF CoverInv, Added
  <2> QED
    BY <2>1, <2>2
<1>3. Reached(log[n + 1].at)'
  <2>1. PICK a : a = <<file, play>>
    OBVIOUS
  <2>2. Reached(a)'
    BY <1>1, <2>1 DEF Reached, InPlay
  <2> QED
    BY <2>1, <2>2
<1> QED
  BY <1>2, <1>3 DEF Added

(* The other hosts stay where they were. *)
LEMMA CoveredElsewhere ==
  ASSUME UNCHANGED <<argv, file, play, hosts>>, NEW n \in Nat, Added(n),
         log'[n + 1].at = <<file, play>>, NEW i, Covered(i),
         log'[n + 1].host # hosts[i], failed'[hosts[i]] = failed[hosts[i]],
         Len(Play.tasks) \in Nat, HandlersDue(i) \in Nat,
         TasksDue(i)' = TasksDue(i), HandlersDue(i)' = HandlersDue(i)
  PROVE  Covered(i)'
<1> DEFINE h == hosts[i]
<1>1. Play' = Play
  BY DEF Play
<1>2. \A part : Mine(h, part) \in SUBSET (1..n) /\ Mine(h, part)' = Mine(h, part)
  BY MineGrows
<1>3. \A j \in 1..n : log'[j] = log[j]
  BY DEF Added
<1>4. Fell(h)' <=> Fell(h)
  BY <1>2, <1>3 DEF Fell
<1>5. ASSUME NEW m \in Nat, TasksRun(h, m)
      PROVE  TasksRun(h, m)'
  <2>1. PICK J \in SUBSET (1..n) : J = Mine(h, "tasks") /\ Mine(h, "tasks")' = J
    BY <1>2
  <2>2. InOrder(J, m)'
    BY <1>5, <2>1, InOrderGrows DEF TasksRun
  <2>3. \A j \in J : log'[j].out = "failed" => log'[j].item = m
    BY <1>3, <1>5, <2>1 DEF TasksRun
  <2> QED
    BY <2>1, <2>2, <2>3 DEF TasksRun
<1>6. InOrder(Mine(h, "handlers"), HandlersDue(i))'
  <2>1. PICK d \in Nat : d = HandlersDue(i)
    OBVIOUS
  <2>2. PICK J \in SUBSET (1..n) : J = Mine(h, "handlers")
    BY <1>2
  <2>3. InOrder(J, d)'
    BY <2>1, <2>2, InOrderGrows DEF Covered
  <2> QED
    BY <1>2, <2>1, <2>2, <2>3
<1>7. PICK m \in 0..Len(Play.tasks) :
        TasksRun(h, m) /\ m <= TasksDue(i) /\ (~failed[h] => m = TasksDue(i))
  BY DEF Covered
<1>8. \E k \in 0..Len(Play'.tasks) :
        TasksRun(h, k)' /\ k <= TasksDue(i)' /\ (~failed'[h] => k = TasksDue(i)')
  BY <1>1, <1>5, <1>7
<1>9. failed'[h] <=> Fell(h)'
  BY <1>4 DEF Covered
<1> QED
  BY <1>6, <1>8, <1>9 DEF Covered

(* A node is run by a host no task has left failed, as the next item of it.  *)
LEMMA RunNodeCovers == IInv /\ CoverInv /\ RunNode => CoverInv'
<1> SUFFICES ASSUME IInv, CoverInv, RunNode PROVE CoverInv'
  OBVIOUS
<1>1. /\ phase = "tasks" /\ item <= Len(Play.tasks) /\ pos <= Len(hosts)
      /\ ~failed[Host] /\ pos' = pos + 1 /\ InPlay /\ InPlay'
      /\ UNCHANGED <<argv, file, play, phase, hosts, item>>
  BY DEF RunNode, AtNode, At, InPlay
<1>2. PICK o \in OutcomesOf(Play.tasks[item]) :
        /\ Execute(Play.tasks[item], o)
        /\ failed' = [failed EXCEPT ![Host] = o = "failed"]
  BY DEF RunNode
<1>3. /\ item \in 1..Len(Play.tasks) /\ pos \in 1..Len(hosts) /\ hosts \in Seq(HostNames)
      /\ Len(hosts) \in Nat /\ Len(Play.tasks) \in Nat
      /\ Play.tasks[item] \in Kinds /\ Host \in HostNames
  <2>1. TypeOK /\ Bounds
    BY DEF IInv
  <2> QED
    BY <1>1, <2>1, CursorTypes, DueTypes
<1>4. PICK n \in Nat :
        /\ Added(n)
        /\ log'[n + 1].at = <<file, play>> /\ log'[n + 1].host = Host
        /\ log'[n + 1].part = "tasks" /\ log'[n + 1].item = item /\ log'[n + 1].out = o
  BY <1>1, <1>2, <1>3, ExecuteAdds
<1>5. /\ failed'[Host] = (o = "failed")
      /\ \A h \in HostNames : h # Host => failed'[h] = failed[h]
  BY <1>2, <1>3 DEF IInv, TypeOK
<1>6. Play' = Play
  BY <1>1 DEF Play
<1>7. ASSUME NEW i \in DOMAIN hosts
      PROVE  Covered(i)'
  <2>1. i \in 1..Len(hosts) /\ Covered(i) /\ hosts[i] \in HostNames
    BY <1>1, <1>3 DEF CoverInv
  <2>2. HandlersDue(i) = 0 /\ HandlersDue(i)' = 0
    BY <1>1 DEF HandlersDue
  <2>3. CASE i # pos
    <3>1. hosts[i] # Host
      BY <1>3, <2>3 DEF CoverInv, Host
    <3>2. TasksDue(i)' = TasksDue(i)
      BY <1>1, <1>3, <1>6, <2>1, <2>3 DEF TasksDue
    <3>3. failed'[hosts[i]] = failed[hosts[i]]
      BY <1>5, <2>1, <3>1
    <3>4. /\ UNCHANGED <<argv, file, play, hosts>> /\ Len(Play.tasks) \in Nat
          /\ HandlersDue(i) \in Nat /\ HandlersDue(i)' = HandlersDue(i)
      BY <1>1, <1>3, <2>2
    <3>5. log'[n + 1].host # hosts[i]
      BY <1>4, <3>1
    <3> QED
      BY <1>4, <2>1, <3>2, <3>3, <3>4, <3>5, CoveredElsewhere, Zenon
  <2>4. CASE i = pos
    <3>h. PICK h \in HostNames : h = Host /\ h = hosts[i]
      BY <1>3, <2>4 DEF Host
    <3>m. PICK m \in Nat : m + 1 = item
      <4>1. item \in Nat /\ 1 <= item
        BY <1>3
      <4>2. item - 1 \in Nat /\ (item - 1) + 1 = item
        BY <4>1
      <4> QED
        BY <4>2
    <3>1. /\ TasksDue(i) = m /\ TasksDue(i)' = m + 1
          /\ ~failed[h] /\ failed'[h] = (o = "failed")
      BY <1>1, <1>3, <1>5, <1>6, <2>4, <3>h, <3>m DEF TasksDue
    <3>2. TasksRun(h, m) /\ ~Fell(h) /\ InOrder(Mine(h, "handlers"), 0)
      BY <2>1, <2>2, <3>h, <3>1 DEF Covered
    <3>3. PICK T \in SUBSET (1..n) :
            T = Mine(h, "tasks") /\ Mine(h, "tasks")' = T \union {n + 1}
      BY <1>1, <1>4, <3>h, MineGrows
    <3>4. PICK H \in SUBSET (1..n) : H = Mine(h, "handlers") /\ Mine(h, "handlers")' = H
      BY <1>1, <1>4, <3>h, MineGrows
    <3>5. \A j \in T : log'[j].out # "failed"
      BY <1>4, <3>2, <3>3 DEF Fell, Added
    <3>6. InOrder(T \union {n + 1}, m + 1)' /\ InOrder(H, 0)'
      BY <1>4, <3>m, <3>2, <3>3, <3>4, InOrderGrows DEF TasksRun
    <3>7. TasksRun(h, m + 1)' /\ (Fell(h)' <=> o = "failed")
      BY <1>4, <3>m, <3>3, <3>5, <3>6 DEF TasksRun, Fell
    <3>8. \E k \in 0..Len(Play'.tasks) :
            TasksRun(h, k)' /\ k <= TasksDue(i)' /\ (~failed'[h] => k = TasksDue(i)')
      BY <1>3, <1>6, <3>m, <3>1, <3>7
    <3> QED
      BY <1>1, <2>2, <3>h, <3>1, <3>4, <3>6, <3>7, <3>8 DEF Covered
  <2> QED
    BY <2>3, <2>4
<1>8. \A j \in DOMAIN log' : Reached(log[j].at)'
  BY <1>1, <1>4, AddedReached
<1>9. phase' = "tasks" /\ item' > Len(Play'.tasks) => pos' = 1
  BY <1>1, <1>3, <1>6
<1> QED
  BY <1>1, <1>7, <1>8, <1>9 DEF CoverInv

(* A handler is run by such a host, in the same order. *)
LEMMA RunHandlerCovers == IInv /\ CoverInv /\ RunHandler => CoverInv'
<1> SUFFICES ASSUME IInv, CoverInv, RunHandler PROVE CoverInv'
  OBVIOUS
<1>1. /\ phase = "handlers" /\ item <= Len(Play.handlers) /\ pos <= Len(hosts)
      /\ ~failed[Host] /\ item' = item + 1 /\ InPlay /\ InPlay'
      /\ UNCHANGED <<argv, file, play, phase, hosts, pos, failed>>
  BY DEF RunHandler, HandlerDue, AtHandler, At, InPlay
<1>2. PICK o \in OutcomesOf(Play.handlers[item]) : Execute(Play.handlers[item], o)
  BY DEF RunHandler
<1>3. /\ item \in 1..Len(Play.handlers) /\ pos \in 1..Len(hosts) /\ hosts \in Seq(HostNames)
      /\ Len(hosts) \in Nat /\ Len(Play.tasks) \in Nat /\ Len(Play.handlers) \in Nat
      /\ Play.handlers[item] \in Kinds
  <2>1. TypeOK /\ Bounds
    BY DEF IInv
  <2> QED
    BY <1>1, <2>1, CursorTypes, DueTypes
<1>4. PICK n \in Nat :
        /\ Added(n)
        /\ log'[n + 1].at = <<file, play>> /\ log'[n + 1].host = Host
        /\ log'[n + 1].part = "handlers" /\ log'[n + 1].item = item
  BY <1>1, <1>2, <1>3, ExecuteAdds
<1>5. Play' = Play
  BY <1>1 DEF Play
<1>6. ASSUME NEW i \in DOMAIN hosts
      PROVE  Covered(i)'
  <2>1. i \in 1..Len(hosts) /\ Covered(i) /\ hosts[i] \in HostNames
    BY <1>1, <1>3 DEF CoverInv
  <2>2. TasksDue(i)' = TasksDue(i)
    BY <1>1, <1>5 DEF TasksDue
  <2>3. CASE i # pos
    <3>1. hosts[i] # Host
      BY <1>3, <2>3 DEF CoverInv, Host
    <3>2. HandlersDue(i) \in Nat /\ HandlersDue(i)' = HandlersDue(i)
      BY <1>1, <1>3, <1>5, <2>1, <2>3 DEF HandlersDue
    <3>3. /\ UNCHANGED <<argv, file, play, hosts>> /\ Len(Play.tasks) \in Nat
          /\ failed'[hosts[i]] = failed[hosts[i]]
      BY <1>1, <1>3
    <3>4. log'[n + 1].host # hosts[i]
      BY <1>4, <3>1
    <3> QED
      BY <1>4, <2>1, <2>2, <3>2, <3>3, <3>4, CoveredElsewhere, Zenon
  <2>4. CASE i = pos
    <3>h. PICK h \in HostNames : h = Host /\ h = hosts[i]
      BY <2>1, <2>4 DEF Host
    <3>m. PICK m \in Nat : m + 1 = item
      <4>1. item \in Nat /\ 1 <= item
        BY <1>3
      <4>2. item - 1 \in Nat /\ (item - 1) + 1 = item
        BY <4>1
      <4> QED
        BY <4>2
    <3>a. i \in Nat /\ ~(i > pos) /\ ~(i < pos) /\ pos' = pos /\ item' - 1 = m + 1 /\ item - 1 = m
      <4>1. i \in Nat /\ i = pos
        BY <1>3, <2>4
      <4>2. item' = item + 1 /\ pos' = pos
        BY <1>1
      <4> QED
        BY <3>m, <4>1, <4>2
    <3>b. ~failed[h] /\ hosts[i] = h /\ hosts' = hosts /\ failed' = failed
      BY <1>1, <3>h
    <3>c. phase # "tasks" /\ phase' # "tasks"
      BY <1>1
    <3>d. HandlersDue(i) = item - 1
      BY <3>a, <3>b, <3>c, Zenon DEF HandlersDue
    <3>f. ~failed'[hosts'[i]] /\ ~(i > pos') /\ ~(i < pos')
      BY <3>a, <3>b, Zenon
    <3>e. HandlersDue(i)' = item' - 1
      BY <3>c, <3>f, Zenon DEF HandlersDue
    <3>1. HandlersDue(i) = m /\ HandlersDue(i)' = m + 1 /\ ~failed[h]
      BY <3>a, <3>b, <3>d, <3>e
    <3>2. PICK t \in 0..Len(Play.tasks) :
            TasksRun(h, t) /\ t <= TasksDue(i) /\ (~failed[h] => t = TasksDue(i))
      BY <2>1, <3>h DEF Covered
    <3>3. PICK T \in SUBSET (1..n) : T = Mine(h, "tasks") /\ Mine(h, "tasks")' = T
      BY <1>1, <1>4, <3>h, MineGrows
    <3>4. PICK H \in SUBSET (1..n) :
            H = Mine(h, "handlers") /\ Mine(h, "handlers")' = H \union {n + 1}
      BY <1>1, <1>4, <3>h, MineGrows
    <3>5. \A j \in T : log'[j] = log[j]
      BY <1>4, <3>3 DEF Added
    <3>6. InOrder(H \union {n + 1}, m + 1)' /\ InOrder(T, t)'
      <4>1. InOrder(H, m) /\ InOrder(T, t) /\ t \in Nat
        BY <2>1, <3>h, <3>1, <3>2, <3>3, <3>4 DEF Covered, TasksRun
      <4> QED
        BY <1>4, <3>m, <4>1, InOrderGrows
    <3>7. TasksRun(h, t)' /\ (Fell(h)' <=> Fell(h))
      BY <3>2, <3>3, <3>5, <3>6 DEF TasksRun, Fell
    <3>8. \E k \in 0..Len(Play'.tasks) :
            TasksRun(h, k)' /\ k <= TasksDue(i)' /\ (~failed'[h] => k = TasksDue(i)')
      BY <1>1, <1>5, <2>2, <3>2, <3>7
    <3>9. failed'[h] <=> Fell(h)'
      BY <1>1, <2>1, <3>h, <3>7 DEF Covered
    <3> QED
      BY <1>1, <3>h, <3>1, <3>4, <3>6, <3>8, <3>9 DEF Covered
  <2> QED
    BY <2>3, <2>4
<1>7. \A j \in DOMAIN log' : Reached(log[j].at)'
  BY <1>1, <1>4, AddedReached
<1> QED
  BY <1>1, <1>6, <1>7 DEF CoverInv

LEMMA StepCovers == IInv /\ CoverInv /\ [Next]_vars => CoverInv'
<1> SUFFICES ASSUME IInv, CoverInv, [Next]_vars PROVE CoverInv'
  OBVIOUS
<1>1. CASE BadArguments \/ Exit \/ TaskErr \/ UNCHANGED vars
  <2>1. UNCHANGED <<argv, file, play, phase, hosts, item, pos, failed, log>>
    BY <1>1 DEF BadArguments, Exit, TaskErr, vars, cursors
  <2>2. Play' = Play
    BY <2>1 DEF Play
  <2>3. \A i : Covered(i)' <=> Covered(i)
    <3>1. \A i : TasksDue(i)' = TasksDue(i) /\ HandlersDue(i)' = HandlersDue(i)
      BY <2>1, <2>2 DEF TasksDue, HandlersDue
    <3> QED
      BY <2>1, <2>2, <3>1, SameRuns DEF Covered
  <2>4. (\A a : Reached(a)' <=> Reached(a)) /\ (InPlay' <=> InPlay)
    BY <2>1 DEF Reached, InPlay
  <2>5. \A j \in DOMAIN log : Reached(log[j].at)'
    BY <2>1, <2>4 DEF CoverInv, Reached
  <2> QED
    BY <2>1, <2>2, <2>3, <2>4, <2>5 DEF CoverInv
<1> QED
  BY <1>1, LoadFileCovers, StartPlayCovers, EndCovers, MovingCovers, RunNodeCovers,
     RunHandlerCovers DEF Next

-----------------------------------------------------------------------------
(* The theorems. *)

THEOREM Invariance == Spec => []IInv
  BY InitIInv, StepIInv, PTL DEF Spec

(* Every variable keeps its type.                                            *)
THEOREM TypeCorrect == Spec => []TypeOK
<1>1. IInv => TypeOK
  BY DEF IInv
<1> QED
  BY <1>1, Invariance, PTL

(* Without -e the value of v a task, block or handler sees is the one the    *)
(* strongest layer holds among all that was set before it, in this play or   *)
(* an earlier one (run_play, post_task, VariableResolver::merged).           *)
THEOREM VariablesHaveTheirSource == Spec => []VariableSource
<1>1. IInv => VariableSource
  <2> SUFFICES ASSUME IInv, ~extra PROVE \A i \in DOMAIN log : log[i].saw = ExpectedSource(i)
    BY DEF VariableSource
  <2>1. \A plays : VarsSource(plays) = PlaySource(plays)
    BY DEF VarsSource
  <2>2. \A i : LayeredSource(i) = ExpectedSource(i)
    BY <2>1 DEF LayeredSource, ExpectedSource
  <2> QED
    BY <2>2 DEF IInv, SourceInv
<1> QED
  BY <1>1, Invariance, PTL

(* A run that comes to its end exits 0 when no task left a host failed and 2 *)
(* when one did, in whatever play (overall_success in main.rs).              *)
THEOREM ExitCodesTellFailures == Spec => []ExitCodeOfTasks
<1>1. IInv => ExitCodeOfTasks
  BY DEF IInv, FailInv, InPlay, ExitCodeOfTasks
<1> QED
  BY <1>1, Invariance, PTL

(* At the end of a play every host of it has run the tasks up to its first   *)
(* failure, and every handler if there was none: each once, in order, and in *)
(* this play, whatever came before (run_play, execute_linear).               *)
THEOREM PlaysCover == Spec => []PlayCovers
<1>1. IInv /\ CoverInv => PlayCovers
  <2> SUFFICES ASSUME IInv, CoverInv, At("handlers"), pos > Len(hosts), NEW i \in DOMAIN hosts
               PROVE  \E n \in 0..Len(Play.tasks) :
                        /\ TasksRun(hosts[i], n)
                        /\ n = Len(Play.tasks) \/ Fell(hosts[i])
                        /\ InOrder(Mine(hosts[i], "handlers"),
                                   IF Fell(hosts[i]) THEN 0 ELSE Len(Play.handlers))
    BY DEF PlayCovers, TasksRun
  <2>1. InPlay /\ phase = "handlers" /\ Covered(i)
    BY DEF At, InPlay, CoverInv
  <2>2. i \in 1..Len(hosts) /\ Len(hosts) \in Nat /\ pos \in Nat
    BY <2>1, CursorTypes DEF IInv
  <2>3. /\ TasksDue(i) = Len(Play.tasks)
        /\ HandlersDue(i) = IF failed[hosts[i]] THEN 0 ELSE Len(Play.handlers)
    BY <2>1, <2>2 DEF TasksDue, HandlersDue
  <2> QED
    BY <2>1, <2>3 DEF Covered
<1>2. Init => IInv /\ CoverInv
  BY InitIInv, InitCovers
<1>3. IInv /\ CoverInv /\ [Next]_vars => (IInv /\ CoverInv)'
  BY StepIInv, StepCovers
<1> QED
  BY <1>1, <1>2, <1>3, PTL DEF Spec
=============================================================================
