---------------------------- MODULE FanOutProofs ----------------------------
(* Proofs about FanOut, for every number of hosts and nodes and every batch  *)
(* size.                                                                     *)
EXTENDS FanOut, FiniteSetTheorems, TLAPS

(* A chunk never reaches past the last host nor holds more than a batch.     *)
LEMMA ChunkBounds ==
  ASSUME mode \in Modes, batchArg \in BatchArgs \union {0}, lo \in 0..NHosts
  PROVE  /\ BatchSize \in Nat
         /\ ChunkLen \in Nat
         /\ ChunkLen <= BatchSize
         /\ lo + ChunkLen <= NHosts
<1>1. NHosts \in Nat /\ batchArg \in Nat
  BY FanOutAssumption, NodesAssumption
<1>3. BatchSize \in Nat
  BY <1>1 DEF BatchSize
<1> QED
  BY <1>1, <1>3 DEF ChunkLen

-----------------------------------------------------------------------------
(* The inductive invariant.  TypeOK alone is not inductive: that the cursors *)
(* stay in the chunk, and that what is merged is a HostState, depends on     *)
(* main joining every thread of a chunk and on what the threads have         *)
(* published when they end.                                                  *)
Cursor ==
  /\ main = "join" => spawned = ChunkLen
  /\ main = "spawn" => joined = 0
  /\ main = "ok" => lo = NHosts /\ spawned = 0
  /\ main = "err" => lo + joined + 1 \in Hosts /\ pc[lo + joined + 1] = "error"
  /\ mode = "free" => lo \in {0, NHosts}

(* A thread exists exactly for the hosts spawned so far; joined ones ended   *)
(* well; what a thread has published is what it holds.                       *)
ThreadInv ==
  \A h \in Hosts :
    /\ pc[h] = "none" <=> h > lo + spawned
    /\ h <= lo + joined => pc[h] = "done"
    /\ pc[h] = "none" => results[h] = <<>>
    /\ pc[h] \in {"publish", "done"} => sharedResults[h] = results[h] /\ ~HasNode(h)
    /\ pc[h] = "done" => sharedStates[h] = state[h]

(* What main has merged is what the threads of the merged chunks hold, and   *)
(* nothing else has been touched.                                            *)
MergeInv ==
  \A h \in Hosts :
    /\ mode # "async" /\ h <= lo =>
         allResults[h] = results[h] /\ hostStates[h] = state[h]
    /\ main = "ok" => allResults[h] = results[h] /\ hostStates[h] = state[h]
    /\ main # "ok" /\ (mode = "async" \/ h > lo) => hostStates[h] = given[h]

(* A host's context holds no other host's registered variable. *)
RegInv ==
  /\ \A h \in Hosts : reg[h] \in {0, h}
  /\ RegisterIsolation

(* A host is failed for a reason one can see: the caller said so, or the     *)
(* last node it ran left it failed.                                          *)
LastFatal(h) == Len(results[h]) > 0 /\ results[h][Len(results[h])].out \in Fatal
GivenUp(h) == mode # "free" /\ given[h].failed
FailInv ==
  \A h \in Hosts : pc[h] # "none" =>
    (IsActive(state[h]) <=> ~GivenUp(h) /\ ~LastFatal(h))

IInv == TypeOK /\ Cursor /\ ThreadInv /\ MergeInv /\ RegInv /\ FailInv

-----------------------------------------------------------------------------
(* What a node adds to a host's results and to its HostState.                *)

LEMMA CountType ==
  ASSUME NEW s \in HostStates, NEW o
  PROVE  /\ Count(s, o) \in HostStates
         /\ Count(s, o).failed = (s.failed \/ o \in Fatal)
<1>1. (s.failed \/ o \in Fatal) \in BOOLEAN /\ s.changed \in Nat /\ s.ok \in Nat
  BY DEF HostStates
<1> QED
  BY <1>1 DEF Count, HostStates

(* The outcomes of a run are as many as its entries, and those of a longer   *)
(* run are those of the run and the new one.                                 *)
LEMMA OutsAppend ==
  ASSUME NEW r \in Seq(Entries)
  PROVE  /\ Len(Outs(r)) = Len(r)
         /\ \A i \in 1..Len(r) : r[i].out \in Outcomes /\ Outs(r)[i] = r[i].out
         /\ \A e \in Entries : Outs(Append(r, e)) = Append(Outs(r), e.out)
<1>1. DOMAIN r = 1..Len(r) /\ Len(r) \in Nat /\ \A i \in 1..Len(r) : r[i] \in Entries
  OBVIOUS
<1>2. \A e \in Entries : e.out \in Outcomes
  BY Zenon DEF Entries
<1>3. Outs(r) = [i \in 1..Len(r) |-> r[i].out]
  BY <1>1 DEF Outs
<1>4. Outs(r) \in Seq(Outcomes) /\ Len(Outs(r)) = Len(r)
  BY <1>1, <1>2, <1>3
<1>5. ASSUME NEW e \in Entries PROVE Outs(Append(r, e)) = Append(Outs(r), e.out)
  <2>1. DOMAIN Append(r, e) = 1..(Len(r) + 1)
    BY <1>1
  <2>2. Outs(Append(r, e)) = [i \in 1..(Len(r) + 1) |-> Append(r, e)[i].out]
    BY <2>1 DEF Outs
  <2> QED
    BY <1>1, <1>2, <1>3, <1>4, <2>2
<1> QED
  BY <1>1, <1>2, <1>3, <1>4, <1>5

(* One entry more counts once more if its outcome is one of O. *)
LEMMA TimesAppend ==
  ASSUME NEW r \in Seq(Entries), NEW e \in Entries, NEW O
  PROVE  Times(Append(r, e), O) = Times(r, O) + (IF e.out \in O THEN 1 ELSE 0)
<1> DEFINE n == Len(r)
           At(s) == {i \in DOMAIN s : s[i].out \in O}
<1>1. n \in Nat /\ At(r) \subseteq 1..n /\ n + 1 \notin At(r)
  OBVIOUS
<1>2. IsFiniteSet(At(r)) /\ Cardinality(At(r)) \in Nat
  <2>1. IsFiniteSet(1..n)
    BY <1>1, FS_Interval
  <2> QED
    BY <1>1, <2>1, FS_Subset, FS_CardinalityType
<1>3. At(Append(r, e)) = IF e.out \in O THEN At(r) \union {n + 1} ELSE At(r)
  OBVIOUS
<1>4. Cardinality(At(r) \union {n + 1}) = Cardinality(At(r)) + 1
  BY <1>1, <1>2, FS_AddElement
<1>5. Times(r, O) = Cardinality(At(r)) /\ Times(Append(r, e), O) = Cardinality(At(Append(r, e)))
  BY Zenon DEF Times
<1> HIDE DEF At
<1> QED
  BY <1>2, <1>3, <1>4, <1>5

(* A HostState tells of the results beside it: its counters are theirs, and  *)
(* its flag one fatal outcome among them, but for a host that was `down`     *)
(* from the start.                                                           *)
Tallied(s, r, down) ==
  /\ s.changed = Times(r, {"changed"})
  /\ s.ok = Times(r, {"ok", "skipped"})
  /\ Times(r, Fatal) = IF s.failed /\ ~down THEN 1 ELSE 0

(* Those a call may start with tell of no results, and counting an outcome   *)
(* and adding its entry keeps state and results together.                    *)
LEMMA TalliedStart ==
  ASSUME NEW s \in {Fresh, FailedBefore}
  PROVE  s \in HostStates /\ Tallied(s, <<>>, s.failed)
<1>1. \A O : Times(<<>>, O) = 0
  BY FS_EmptySet DEF Times
<1>2. s \in HostStates /\ s.changed = 0 /\ s.ok = 0
  <2>1. CASE s = Fresh
    BY <2>1 DEF Fresh, HostStates
  <2>2. CASE s = FailedBefore
    BY <2>2 DEF FailedBefore, HostStates
  <2> QED
    BY <2>1, <2>2
<1>3. (IF s.failed /\ ~s.failed THEN 1 ELSE 0) = 0
  OBVIOUS
<1> QED
  BY <1>1, <1>2, <1>3, Zenon DEF Tallied

LEMMA TalliedCount ==
  ASSUME NEW s \in HostStates, NEW r \in Seq(Entries), NEW e \in Entries,
         ~s.failed, Tallied(s, r, FALSE)
  PROVE  Tallied(Count(s, e.out), Append(r, e), FALSE)
<1> DEFINE c == Count(s, e.out)
           By(O) == IF e.out \in O THEN 1 ELSE 0
<1>1. c.failed <=> e.out \in Fatal
  BY CountType
<1>2. c.changed = s.changed + By({"changed"}) /\ c.ok = s.ok + By({"ok", "skipped"})
  BY DEF Count
<1>3. \A O : Times(Append(r, e), O) = Times(r, O) + By(O)
  BY TimesAppend
<1>4. Times(r, Fatal) = 0
  BY DEF Tallied
<1> HIDE DEF c
<1> QED
  BY <1>1, <1>2, <1>3, <1>4 DEF Tallied, c

-----------------------------------------------------------------------------
(* The initial states satisfy the invariant. *)
LEMMA InitIInv == Init => IInv
<1> SUFFICES ASSUME Init PROVE IInv
  OBVIOUS
<1> USE DEF Init
<1>1. NHosts \in Nat
  BY NodesAssumption
<1>2. /\ mode \in Modes
      /\ batchArg \in BatchArgs \union {0}
      /\ lo \in 0..NHosts
  BY <1>1
<1>3. ChunkLen \in Nat
  BY <1>2, ChunkBounds
<1>4. given \in [Hosts -> HostStates]
  BY TalliedStart
<1>5. sharedStates \in [Hosts -> HostStates \union {NoEntry}]
  BY <1>4
<1>6. state \in [Hosts -> HostStates]
  BY TalliedStart
<1>7. TypeOK
  BY <1>1, <1>2, <1>3, <1>4, <1>5, <1>6 DEF TypeOK, Hosts, Returned
<1>8. ThreadInv
  BY <1>1 DEF ThreadInv, Hosts
<1>9. MergeInv
  BY <1>1 DEF MergeInv, Hosts
<1>10. RegInv
  BY DEF RegInv, RegisterIsolation
<1>11. FailInv
  BY DEF FailInv
<1> QED
  BY <1>7, <1>8, <1>9, <1>10, <1>11 DEF IInv, Cursor

-----------------------------------------------------------------------------
(* Facts about the constants and the cursors that every step uses. *)
LEMMA Basics ==
  ASSUME TypeOK
  PROVE  /\ NHosts \in Nat /\ NNodes \in Nat /\ batchArg \in Nat
         /\ lo \in 0..NHosts /\ spawned \in Nat /\ joined \in Nat
         /\ spawned <= ChunkLen /\ joined <= spawned
         /\ BatchSize \in Nat /\ ChunkLen \in Nat /\ ChunkLen <= BatchSize
         /\ lo + ChunkLen <= NHosts
<1>1. /\ BatchSize \in Nat /\ ChunkLen \in Nat /\ ChunkLen <= BatchSize
      /\ lo + ChunkLen <= NHosts
  BY ChunkBounds DEF TypeOK
<1>2. batchArg \in Nat
  BY FanOutAssumption DEF TypeOK
<1> QED
  BY <1>1, <1>2, NodesAssumption DEF TypeOK

(* The panic on a zero chunk size keeps the invariant. *)
LEMMA PanicStep ==
  ASSUME IInv, PanicOnZeroChunk
  PROVE  IInv'
<1> USE DEF PanicOnZeroChunk, callVars, outVars, threadVars, sharedVars, IInv
<1>1. TypeOK'
  BY DEF TypeOK, ChunkLen, BatchSize, Returned
<1>2. ThreadInv'
  BY DEF ThreadInv, HasNode
<1>3. MergeInv'
  BY DEF MergeInv
<1>4. RegInv'
  BY DEF RegInv, RegisterIsolation
<1>5. FailInv'
  BY DEF FailInv, GivenUp, LastFatal
<1> QED
  BY <1>1, <1>2, <1>3, <1>4, <1>5 DEF Cursor

(* Starting a thread keeps the invariant: its HostState is one not run yet. *)
LEMMA SpawnStep ==
  ASSUME IInv, Spawn
  PROVE  IInv'
<1> DEFINE h0 == lo + spawned + 1
<1> USE DEF Spawn, callVars, outVars, sharedVars, IInv
<1>b. /\ NHosts \in Nat /\ lo \in 0..NHosts /\ spawned \in Nat
      /\ ChunkLen \in Nat /\ lo + ChunkLen <= NHosts
  BY Basics
<1>1. h0 \in Hosts
  BY <1>b DEF Hosts
<1>2. ChunkLen' = ChunkLen
  BY DEF ChunkLen, BatchSize
<1>3. StartState(h0) \in HostStates
  BY <1>1, TalliedStart DEF StartState, TypeOK
<1>4. TypeOK'
  <2>1. spawned' \in 0..ChunkLen' /\ joined' \in 0..spawned'
    BY <1>b, <1>2 DEF TypeOK, Cursor
  <2>2. /\ pc' \in [Hosts -> {"none", "run", "publish", "done", "error"}]
        /\ state' \in [Hosts -> HostStates]
    BY <1>3 DEF TypeOK
  <2> QED
    BY <2>1, <2>2 DEF TypeOK
<1>5. Cursor'
  BY <1>2 DEF Cursor
<1>6. ThreadInv'
  <2> SUFFICES ASSUME NEW h \in Hosts
               PROVE  /\ pc'[h] = "none" <=> h > lo' + spawned'
                      /\ h <= lo' + joined' => pc'[h] = "done"
                      /\ pc'[h] = "none" => results'[h] = <<>>
                      /\ pc'[h] \in {"publish", "done"} =>
                           sharedResults'[h] = results'[h] /\ ~HasNode(h)'
                      /\ pc'[h] = "done" => sharedStates'[h] = state'[h]
    BY DEF ThreadInv
  <2>1. CASE h = h0
    <3>1. pc'[h] = "run"
      BY <2>1 DEF TypeOK
    <3>2. h = lo' + spawned' /\ joined' = 0
      BY <2>1, <1>b DEF Cursor
    <3> QED
      BY <3>1, <3>2, <1>b
  <2>2. CASE h # h0
    <3>1. pc'[h] = pc[h] /\ state'[h] = state[h] /\ results'[h] = results[h]
      BY <2>2 DEF TypeOK
    <3>2. h > lo + spawned <=> h > lo' + spawned'
      BY <2>2, <1>b DEF Hosts
    <3> QED
      BY <3>1, <3>2 DEF ThreadInv, HasNode
  <2> QED
    BY <2>1, <2>2
<1>7. MergeInv'
  <2> SUFFICES ASSUME NEW h \in Hosts, mode # "async", h <= lo
               PROVE  state'[h] = state[h]
    BY DEF MergeInv
  <2>1. h # h0
    BY <1>b DEF Hosts
  <2> QED
    BY <2>1 DEF TypeOK
<1>8. RegInv'
  BY DEF RegInv, RegisterIsolation
<1>9. FailInv'
  <2> SUFFICES ASSUME NEW h \in Hosts, pc'[h] # "none"
               PROVE  IsActive(state'[h]) <=> ~GivenUp(h)' /\ ~LastFatal(h)'
    BY DEF FailInv
  <2>1. GivenUp(h)' = GivenUp(h) /\ LastFatal(h)' = LastFatal(h)
    BY DEF GivenUp, LastFatal
  <2>2. CASE h = h0
    <3>1. h0 > lo + spawned /\ h0 > lo /\ main # "ok"
      BY <1>b
    <3>2. pc[h0] = "none" /\ results[h0] = <<>>
      BY <3>1, <1>1 DEF ThreadInv
    <3>3. ~LastFatal(h)
      BY <2>2, <3>2 DEF LastFatal
    <3>4. hostStates[h0] = given[h0]
      BY <3>1, <1>1 DEF MergeInv
    <3>5. state'[h0] = StartState(h0)
      BY <1>1 DEF TypeOK
    <3> QED
      BY <2>1, <2>2, <3>3, <3>4, <3>5 DEF StartState, Fresh, GivenUp, IsActive
  <2>3. CASE h # h0
    <3>1. pc'[h] = pc[h] /\ state'[h] = state[h]
      BY <2>3 DEF TypeOK
    <3> QED
      BY <2>1, <3>1 DEF FailInv
  <2> QED
    BY <2>2, <2>3
<1> QED
  BY <1>4, <1>5, <1>6, <1>7, <1>8, <1>9

(* Joining a finished thread keeps the invariant. *)
LEMMA JoinOkStep ==
  ASSUME IInv, JoinOk
  PROVE  IInv'
<1> USE DEF JoinOk, callVars, outVars, threadVars, sharedVars, IInv
<1>b. /\ NHosts \in Nat /\ lo \in 0..NHosts /\ spawned \in Nat /\ joined \in Nat
      /\ ChunkLen \in Nat /\ lo + ChunkLen <= NHosts
  BY Basics
<1>1. ChunkLen' = ChunkLen
  BY DEF ChunkLen, BatchSize
<1>2. TypeOK'
  BY <1>b, <1>1 DEF TypeOK, Cursor
<1>3. Cursor'
  BY <1>1 DEF Cursor
<1>4. ThreadInv'
  <2> SUFFICES ASSUME NEW h \in Hosts, h <= lo' + joined'
               PROVE  pc[h] = "done"
    BY DEF ThreadInv, HasNode
  <2>1. h <= lo + joined \/ h = lo + joined + 1
    BY <1>b DEF Hosts
  <2> QED
    BY <2>1 DEF ThreadInv
<1>5. MergeInv'
  BY DEF MergeInv
<1>6. RegInv'
  BY DEF RegInv, RegisterIsolation
<1>7. FailInv'
  BY DEF FailInv, GivenUp, LastFatal, TypeOK, callVars
<1> QED
  BY <1>2, <1>3, <1>4, <1>5, <1>6, <1>7

(* Returning on a thread's Err keeps the invariant: nothing is merged. *)
LEMMA JoinErrStep ==
  ASSUME IInv, JoinErr
  PROVE  IInv'
<1> USE DEF JoinErr, callVars, outVars, threadVars, sharedVars, IInv
<1>b. /\ NHosts \in Nat /\ lo \in 0..NHosts /\ spawned \in Nat /\ joined \in Nat
      /\ ChunkLen \in Nat /\ lo + ChunkLen <= NHosts
  BY Basics
<1>1. ChunkLen' = ChunkLen
  BY DEF ChunkLen, BatchSize
<1>2. TypeOK'
  BY <1>1 DEF TypeOK, Returned
<1>3. Cursor'
  <2>1. lo + joined + 1 \in Hosts
    BY <1>b DEF Hosts
  <2> QED
    BY <2>1 DEF Cursor
<1>4. ThreadInv'
  BY DEF ThreadInv, HasNode
<1>5. MergeInv'
  BY DEF MergeInv
<1>6. RegInv'
  BY DEF RegInv, RegisterIsolation
<1>7. FailInv'
  BY DEF FailInv, GivenUp, LastFatal, TypeOK, callVars
<1> QED
  BY <1>2, <1>3, <1>4, <1>5, <1>6, <1>7

(* When the last handle is joined, every thread of the chunk has published.  *)
LEMMA ChunkPublished ==
  ASSUME IInv, main = "join", joined = ChunkLen
  PROVE  \A h \in Hosts : h <= lo + ChunkLen =>
           /\ pc[h] = "done"
           /\ sharedResults[h] = results[h]
           /\ sharedStates[h] = state[h]
  BY DEF IInv, ThreadInv

(* Merging a joined chunk keeps the invariant: every thread has published. *)
LEMMA MergeStep ==
  ASSUME IInv, MergeChunk
  PROVE  IInv'
<1> USE DEF MergeChunk, callVars, threadVars, sharedVars, IInv
<1>b. /\ NHosts \in Nat /\ lo \in 0..NHosts /\ spawned \in Nat /\ joined \in Nat
      /\ ChunkLen \in Nat /\ lo + ChunkLen <= NHosts
      /\ spawned = ChunkLen
  BY Basics DEF Cursor
<1>c. \A h \in Hosts : h <= lo + ChunkLen =>
           /\ sharedResults[h] = results[h]
           /\ sharedStates[h] = state[h]
  BY ChunkPublished
<1>1. lo' \in 0..NHosts
  BY <1>b
<1>2. ChunkLen' \in Nat
  <2>1. mode' \in Modes /\ batchArg' \in BatchArgs \union {0} /\ lo' \in 0..NHosts
    BY <1>1 DEF TypeOK
  <2>2. NHosts \in Nat /\ batchArg' \in Nat
    BY Basics
  <2>3. BatchSize' \in Nat
    BY <2>2 DEF BatchSize
  <2> QED
    BY <2>1, <2>2, <2>3 DEF ChunkLen
<1>3. /\ allResults' \in [Hosts -> Seq(Entries) \union {NoEntry}]
      /\ hostStates' \in [Hosts -> HostStates]
  <2>1. CASE mode = "async"
    BY <2>1 DEF TypeOK, outVars
  <2>2. CASE mode # "async"
    <3>1. \A h \in Hosts : h \in Chunk => sharedStates[h] \in HostStates
      BY <1>b, <1>c DEF Chunk, TypeOK
    <3> QED
      BY <2>2, <3>1 DEF TypeOK
  <2> QED
    BY <2>1, <2>2
<1>4. TypeOK'
  BY <1>1, <1>2, <1>3 DEF TypeOK
<1>5. ThreadInv'
  <2>1. lo' + spawned' = lo + spawned /\ lo' + joined' = lo + joined
    BY <1>b
  <2> QED
    BY <2>1 DEF ThreadInv, HasNode
<1>6. MergeInv'
  <2> SUFFICES ASSUME NEW h \in Hosts
               PROVE  /\ mode # "async" /\ h <= lo + ChunkLen =>
                           allResults'[h] = results[h] /\ hostStates'[h] = state[h]
                      /\ mode = "async" \/ h > lo + ChunkLen =>
                           hostStates'[h] = given[h]
    BY DEF MergeInv
  <2>1. CASE mode = "async"
    BY <2>1 DEF MergeInv, outVars
  <2>2. CASE mode # "async"
    <3>1. h \in Chunk <=> h > lo /\ h <= lo + ChunkLen
      BY <1>b DEF Chunk, Hosts
    <3>2. allResults'[h] = IF h \in Chunk THEN sharedResults[h] ELSE allResults[h]
      BY <2>2
    <3>3. hostStates'[h] = IF h \in Chunk THEN sharedStates[h] ELSE hostStates[h]
      BY <2>2
    <3>4. h > lo + ChunkLen => h > lo
      BY <1>b DEF Hosts
    <3>5. h > lo \/ h <= lo
      BY <1>b DEF Hosts
    <3>6. h <= lo + ChunkLen =>
            allResults'[h] = results[h] /\ hostStates'[h] = state[h]
      BY <2>2, <3>1, <3>2, <3>3, <3>5, <1>c DEF MergeInv
    <3>7. h > lo + ChunkLen => hostStates'[h] = given[h]
      BY <3>1, <3>3, <3>4, <1>b DEF MergeInv, Hosts
    <3> QED
      BY <2>2, <3>6, <3>7
  <2> QED
    BY <2>1, <2>2
<1>7. RegInv'
  BY DEF RegInv, RegisterIsolation
<1>8. FailInv'
  BY DEF FailInv, GivenUp, LastFatal
<1>9. mode = "free" => lo' = NHosts
  BY <1>b DEF ChunkLen, BatchSize, Cursor
<1> QED
  BY <1>4, <1>5, <1>6, <1>7, <1>8, <1>9 DEF Cursor

(* Returning Ok keeps the invariant. *)
LEMMA ReturnOkStep ==
  ASSUME IInv, ReturnOk
  PROVE  IInv'
<1> USE DEF ReturnOk, callVars, threadVars, sharedVars, IInv
<1>b. /\ NHosts \in Nat /\ lo = NHosts /\ spawned \in Nat /\ joined = 0
      /\ spawned <= ChunkLen /\ lo + ChunkLen <= NHosts /\ ChunkLen \in Nat
  BY Basics DEF Cursor
<1>1. spawned = 0
  BY <1>b
<1>2. ChunkLen' = ChunkLen
  BY DEF ChunkLen, BatchSize
<1>3. \A h \in Hosts : /\ pc[h] = "done"
                       /\ sharedResults[h] = results[h]
                       /\ sharedStates[h] = state[h]
  BY <1>b DEF ThreadInv, Hosts
<1>4. \A h \in Hosts : allResults'[h] = results[h] /\ hostStates'[h] = state[h]
  <2>1. CASE mode = "async"
    BY <1>3, <2>1
  <2>2. CASE mode # "async"
    BY <1>b, <2>2 DEF MergeInv, Hosts, outVars
  <2> QED
    BY <2>1, <2>2
<1>5. TypeOK'
  <2>1. hostStates' \in [Hosts -> HostStates]
    <3>1. CASE mode = "async"
      BY <3>1, <1>3 DEF TypeOK
    <3>2. CASE mode # "async"
      BY <3>2 DEF TypeOK, outVars
    <3> QED
      BY <3>1, <3>2
  <2>2. allResults' \in [Hosts -> Seq(Entries) \union {NoEntry}]
    BY DEF TypeOK, outVars
  <2> QED
    BY <1>2, <2>1, <2>2 DEF TypeOK, Returned
<1>6. ThreadInv'
  BY DEF ThreadInv, HasNode
<1>7. MergeInv'
  <2>1. \A h \in Hosts : ~(h > lo)
    BY <1>b DEF Hosts
  <2> QED
    BY <1>4, <2>1 DEF MergeInv
<1>8. RegInv'
  BY DEF RegInv, RegisterIsolation
<1>9. FailInv'
  BY DEF FailInv, GivenUp, LastFatal
<1> QED
  BY <1>b, <1>1, <1>5, <1>6, <1>7, <1>8, <1>9 DEF Cursor

-----------------------------------------------------------------------------
(* Steps of a thread leave the cursors alone. *)
LEMMA ThreadCursors ==
  ASSUME IInv, UNCHANGED <<mainVars, callVars>>
  PROVE  /\ ChunkLen' = ChunkLen
         /\ lo' = lo /\ spawned' = spawned /\ joined' = joined /\ main' = main
         /\ mode' = mode /\ batchArg' = batchArg /\ given' = given
  BY DEF mainVars, callVars, ChunkLen, BatchSize

(* A running thread's host has been spawned, is not joined and not merged.   *)
LEMMA RunningThread ==
  ASSUME IInv, NEW h \in Hosts, pc[h] \in {"run", "publish"}
  PROVE  /\ h > lo + joined /\ h > lo /\ h <= lo + spawned
         /\ main # "ok"
<1>b. /\ NHosts \in Nat /\ lo \in 0..NHosts /\ spawned \in Nat /\ joined \in Nat
  BY Basics DEF IInv
<1>1. ~(h <= lo + joined) /\ ~(h > lo + spawned)
  BY DEF IInv, ThreadInv
<1>2. h > lo + joined /\ h > lo /\ h <= lo + spawned
  BY <1>b, <1>1 DEF Hosts
<1> QED
  BY <1>b, <1>2 DEF IInv, Cursor, Hosts

(* A node run by a thread keeps the invariant. *)
LEMMA RunNodeStep ==
  ASSUME IInv, NEW h0 \in Hosts, RunNode(h0)
  PROVE  IInv'
<1> USE DEF RunNode, IInv
<1>a. /\ ChunkLen' = ChunkLen
      /\ lo' = lo /\ spawned' = spawned /\ joined' = joined /\ main' = main
      /\ mode' = mode /\ batchArg' = batchArg /\ given' = given
  BY ThreadCursors
<1>c. h0 > lo + joined /\ h0 > lo /\ main # "ok"
  BY RunningThread
<1> DEFINE n == Len(results[h0]) + 1
<1>1. PICK o \in OutcomesOf(n) :
         /\ results' = [results EXCEPT ![h0] = Append(@, [out |-> o, saw |-> reg[h0]])]
         /\ state' = [state EXCEPT ![h0] = Count(@, o)]
         /\ reg' = [reg EXCEPT ![h0] = Writer(n, o, h0, @)]
  OBVIOUS
<1>2. /\ pc' = pc /\ sharedResults' = sharedResults /\ sharedStates' = sharedStates
      /\ allResults' = allResults /\ hostStates' = hostStates
  BY DEF outVars, sharedVars
<1>3. o \in Outcomes
  BY DEF OutcomesOf, Outcomes
<1>4. [out |-> o, saw |-> reg[h0]] \in Entries
  BY <1>3 DEF Entries, TypeOK
<1>5. results' \in [Hosts -> Seq(Entries)]
  BY <1>1, <1>4 DEF TypeOK
<1>6. state' \in [Hosts -> HostStates]
  BY <1>1, CountType DEF TypeOK
<1>7. reg' \in [Hosts -> 0..NHosts]
  <2>1. Writer(n, o, h0, reg[h0]) \in 0..NHosts
    BY NodesAssumption DEF Writer, TypeOK, Hosts
  <2> QED
    BY <1>1, <2>1 DEF TypeOK
<1>8. TypeOK'
  BY <1>a, <1>2, <1>5, <1>6, <1>7 DEF TypeOK
<1>9. ThreadInv'
  <2> SUFFICES ASSUME NEW h \in Hosts
               PROVE  /\ pc'[h] = "none" <=> h > lo' + spawned'
                      /\ h <= lo' + joined' => pc'[h] = "done"
                      /\ pc'[h] = "none" => results'[h] = <<>>
                      /\ pc'[h] \in {"publish", "done"} =>
                           sharedResults'[h] = results'[h] /\ ~HasNode(h)'
                      /\ pc'[h] = "done" => sharedStates'[h] = state'[h]
    BY DEF ThreadInv
  <2>1. CASE h = h0
    BY <2>1, <1>a, <1>2 DEF ThreadInv
  <2>2. CASE h # h0
    <3>1. results'[h] = results[h] /\ state'[h] = state[h]
      BY <2>2, <1>1 DEF TypeOK
    <3> QED
      BY <3>1, <1>a, <1>2 DEF ThreadInv, HasNode
  <2> QED
    BY <2>1, <2>2
<1>10. MergeInv'
  <2> SUFFICES ASSUME NEW h \in Hosts, mode # "async", h <= lo
               PROVE  results'[h] = results[h] /\ state'[h] = state[h]
    BY <1>a, <1>2, <1>c DEF MergeInv
  <2>1. h # h0
    BY <1>c, Basics DEF Hosts
  <2> QED
    BY <2>1, <1>1 DEF TypeOK
<1>11. RegInv'
  <2>1. \A h \in Hosts : reg'[h] \in {0, h}
    BY <1>1 DEF RegInv, Writer, TypeOK
  <2>2. \A h \in Hosts : \A i \in DOMAIN results'[h] : results'[h][i].saw \in {0, h}
    <3> SUFFICES ASSUME NEW h \in Hosts, NEW i \in DOMAIN results'[h]
                 PROVE  results'[h][i].saw \in {0, h}
      OBVIOUS
    <3>1. CASE h = h0
      <4> DEFINE r == results[h0]
                 e == [out |-> o, saw |-> reg[h0]]
      <4>1. results'[h] = Append(r, e) /\ r \in Seq(Entries)
        BY <3>1, <1>1 DEF TypeOK
      <4>2. i \in 1..(Len(r) + 1)
        BY <4>1, <1>4
      <4>3. CASE i = Len(r) + 1
        BY <4>1, <4>3, <3>1 DEF RegInv
      <4>4. CASE i \in 1..Len(r)
        <5>1. Append(r, e)[i] = r[i]
          BY <4>1, <4>4, <1>4
        <5>2. r[i].saw \in {0, h0}
          BY <4>1, <4>4 DEF RegInv, RegisterIsolation
        <5> QED
          BY <5>1, <5>2, <4>1, <3>1
      <4> QED
        BY <4>1, <4>2, <4>3, <4>4
    <3>2. CASE h # h0
      BY <3>2, <1>1 DEF RegInv, RegisterIsolation, TypeOK
    <3> QED
      BY <3>1, <3>2
  <2> QED
    BY <2>1, <2>2 DEF RegInv, RegisterIsolation
<1>12. Cursor'
  BY <1>a, <1>2 DEF Cursor
<1>13. FailInv'
  <2> SUFFICES ASSUME NEW h \in Hosts, pc'[h] # "none"
               PROVE  IsActive(state'[h]) <=> ~GivenUp(h)' /\ ~LastFatal(h)'
    BY DEF FailInv
  <2>1. GivenUp(h)' = GivenUp(h)
    BY <1>a DEF GivenUp
  <2>2. CASE h = h0
    <3> DEFINE r == results[h0]
               e == [out |-> o, saw |-> reg[h0]]
    <3>1. results'[h] = Append(r, e) /\ r \in Seq(Entries)
      BY <2>2, <1>1 DEF TypeOK
    <3>2. Len(results'[h]) = Len(r) + 1 /\ results'[h][Len(r) + 1] = e
      BY <3>1, <1>4
    <3>3. LastFatal(h)' <=> o \in Fatal
      BY <3>1, <3>2 DEF LastFatal
    <3>4. IsActive(state[h]) /\ ~GivenUp(h)
      BY <2>2 DEF FailInv, HasNode
    <3>5. state'[h] = Count(state[h], o)
      BY <2>2, <1>1 DEF TypeOK
    <3>6. Count(state[h], o).failed = (state[h].failed \/ o \in Fatal)
      BY Zenon DEF Count
    <3>7. IsActive(state'[h]) = ~Count(state[h], o).failed
      BY <3>5 DEF IsActive
    <3> QED
      BY <2>1, <3>3, <3>4, <3>6, <3>7, Zenon DEF IsActive
  <2>3. CASE h # h0
    <3>1. results'[h] = results[h] /\ state'[h] = state[h]
      BY <2>3, <1>1 DEF TypeOK
    <3> QED
      BY <2>1, <3>1, <1>2 DEF FailInv, LastFatal
  <2> QED
    BY <2>2, <2>3
<1> QED
  BY <1>8, <1>9, <1>10, <1>11, <1>12, <1>13

(* An Err inside a thread keeps the invariant. *)
LEMMA NodeErrStep ==
  ASSUME IInv, NEW h0 \in Hosts, NodeErr(h0)
  PROVE  IInv'
<1> USE DEF NodeErr, IInv
<1>a. /\ ChunkLen' = ChunkLen
      /\ lo' = lo /\ spawned' = spawned /\ joined' = joined /\ main' = main
      /\ mode' = mode /\ batchArg' = batchArg /\ given' = given
  BY ThreadCursors
<1>b. h0 > lo + joined
  BY RunningThread
<1>c. ~(h0 <= lo + joined)
  BY <1>b, Basics DEF Hosts
<1>2. TypeOK'
  BY <1>a DEF TypeOK, outVars, sharedVars
<1>3. Cursor'
  BY <1>a DEF Cursor, TypeOK
<1>4. ThreadInv'
  BY <1>a, <1>c DEF ThreadInv, HasNode, sharedVars, TypeOK
<1>5. MergeInv'
  BY <1>a DEF MergeInv, outVars
<1>6. RegInv'
  BY DEF RegInv, RegisterIsolation
<1>7. FailInv'
  BY DEF FailInv, GivenUp, LastFatal, TypeOK, callVars
<1> QED
  BY <1>2, <1>3, <1>4, <1>5, <1>6, <1>7

(* Publishing the results keeps the invariant. *)
LEMMA PublishResultsStep ==
  ASSUME IInv, NEW h0 \in Hosts, PublishResults(h0)
  PROVE  IInv'
<1> USE DEF PublishResults, IInv
<1>a. /\ ChunkLen' = ChunkLen
      /\ lo' = lo /\ spawned' = spawned /\ joined' = joined /\ main' = main
      /\ mode' = mode /\ batchArg' = batchArg /\ given' = given
  BY ThreadCursors
<1>b. h0 > lo + joined
  BY RunningThread
<1>c. ~(h0 <= lo + joined)
  BY <1>b, Basics DEF Hosts
<1>2. TypeOK'
  BY <1>a DEF TypeOK, outVars
<1>3. Cursor'
  BY <1>a DEF Cursor, TypeOK
<1>4. ThreadInv'
  BY <1>a, <1>c DEF ThreadInv, HasNode, TypeOK
<1>5. MergeInv'
  BY <1>a DEF MergeInv, outVars
<1>6. RegInv'
  BY DEF RegInv, RegisterIsolation
<1>7. FailInv'
  BY DEF FailInv, GivenUp, LastFatal, TypeOK, callVars
<1> QED
  BY <1>2, <1>3, <1>4, <1>5, <1>6, <1>7

(* Publishing the HostState keeps the invariant. *)
LEMMA PublishStateStep ==
  ASSUME IInv, NEW h0 \in Hosts, PublishState(h0)
  PROVE  IInv'
<1> USE DEF PublishState, IInv
<1>a. /\ ChunkLen' = ChunkLen
      /\ lo' = lo /\ spawned' = spawned /\ joined' = joined /\ main' = main
      /\ mode' = mode /\ batchArg' = batchArg /\ given' = given
  BY ThreadCursors
<1>2. TypeOK'
  BY <1>a DEF TypeOK, outVars
<1>3. Cursor'
  BY <1>a DEF Cursor, TypeOK
<1>4. ThreadInv'
  BY <1>a DEF ThreadInv, HasNode, TypeOK
<1>5. MergeInv'
  BY <1>a DEF MergeInv, outVars
<1>6. RegInv'
  BY DEF RegInv, RegisterIsolation
<1>7. FailInv'
  BY DEF FailInv, GivenUp, LastFatal, TypeOK, callVars
<1> QED
  BY <1>2, <1>3, <1>4, <1>5, <1>6, <1>7

(* Every step keeps the invariant. *)
LEMMA StepIInv == IInv /\ [Next]_vars => IInv'
<1> SUFFICES ASSUME IInv, [Next]_vars PROVE IInv'
  OBVIOUS
<1>1. CASE Main
  BY <1>1, PanicStep, SpawnStep, JoinOkStep, JoinErrStep, MergeStep, ReturnOkStep
     DEF Main
<1>2. CASE \E h \in Hosts : Thread(h)
  BY <1>2, RunNodeStep, NodeErrStep, PublishResultsStep, PublishStateStep DEF Thread
<1>3. CASE UNCHANGED vars
  <2> USE <1>3 DEF vars, mainVars, callVars, outVars, threadVars, sharedVars
  <2>1. TypeOK' /\ Cursor'
    BY DEF IInv, TypeOK, Cursor, ChunkLen, BatchSize
  <2>2. ThreadInv' /\ MergeInv'
    BY DEF IInv, ThreadInv, MergeInv, HasNode
  <2>3. RegInv' /\ FailInv'
    BY DEF IInv, RegInv, RegisterIsolation, FailInv, GivenUp, LastFatal
  <2> QED
    BY <2>1, <2>2, <2>3 DEF IInv
<1> QED
  BY <1>1, <1>2, <1>3 DEF Next

(* The invariant holds throughout. *)
THEOREM Invariance == Spec => []IInv
  BY InitIInv, StepIInv, PTL DEF Spec

-----------------------------------------------------------------------------
(* Type correctness. *)
THEOREM TypeCorrect == Spec => []TypeOK
<1>1. IInv => TypeOK
  BY DEF IInv
<1> QED
  BY <1>1, Invariance, PTL

(* Batch(n) never has more than n hosts in flight: the live threads are      *)
(* among the spawned ones of the current chunk, also after an Err.           *)
THEOREM BatchBound == Spec => []ConcurrencyBound
<1>1. IInv => ConcurrencyBound
  <2> SUFFICES ASSUME IInv PROVE ConcurrencyBound
    OBVIOUS
  <2> DEFINE L == {h \in Hosts : pc[h] \in Live}
             S == (lo + 1)..(lo + spawned)
  <2>1. /\ lo \in Nat /\ spawned \in Nat /\ NHosts \in Nat
        /\ spawned <= BatchSize /\ BatchSize \in Nat
    BY Basics DEF IInv
  <2>2. L \subseteq S
    <3> SUFFICES ASSUME NEW h \in L PROVE h \in S
      OBVIOUS
    <3>1. h > lo /\ h <= lo + spawned
      BY RunningThread DEF Live
    <3> QED
      BY <2>1, <3>1 DEF Hosts
  <2>3. IsFiniteSet(S) /\ Cardinality(S) = spawned
    BY <2>1, FS_Interval
  <2>4. Cardinality(L) \in Nat /\ Cardinality(L) <= Cardinality(S)
    <3> HIDE DEF L, S
    <3> QED
      BY <2>2, <2>3, FS_Subset, FS_CardinalityType
  <2> QED
    BY <2>1, <2>3, <2>4 DEF ConcurrencyBound
<1> QED
  BY <1>1, Invariance, PTL

(* Arc::try_unwrap never fails, and what it yields is complete. *)
THEOREM UnwrapIsSafe == Spec => []UnwrapSucceeds
<1>1. IInv => UnwrapSucceeds
  <2> SUFFICES ASSUME IInv PROVE UnwrapSucceeds
    OBVIOUS
  <2>1. lo \in 0..NHosts /\ NHosts \in Nat /\ ChunkLen \in Nat /\ lo + ChunkLen <= NHosts
    BY Basics DEF IInv
  <2>2. ASSUME main = "join", joined = ChunkLen, NEW h \in Chunk
        PROVE  h \in Hosts /\ h <= lo + ChunkLen
    BY <2>1, <2>2 DEF Chunk, Hosts
  <2>3. ASSUME main = "spawn", NEW h \in 1..lo
        PROVE  h \in Hosts /\ h <= lo + joined
    BY <2>1, <2>3 DEF IInv, Cursor, Hosts
  <2>4. ASSUME NEW h \in Hosts, pc[h] = "done"
        PROVE  sharedResults[h] = results[h] /\ sharedStates[h] = state[h]
    BY <2>4 DEF IInv, ThreadInv
  <2>5. ASSUME NEW h \in Hosts, h <= lo + joined
        PROVE  pc[h] = "done"
    BY <2>5 DEF IInv, ThreadInv
  <2> QED
    BY <2>2, <2>3, <2>4, <2>5 DEF UnwrapSucceeds
<1> QED
  BY <1>1, Invariance, PTL

(* An Err leaves host_states at the last merged chunk, and only hosts of the *)
(* broken chunk may still be running.                                        *)
THEOREM ErrIsAtChunkBoundary == Spec => []ErrKeepsMergedChunks
<1>1. IInv => ErrKeepsMergedChunks
  <2> SUFFICES ASSUME IInv, main = "err" PROVE ErrKeepsMergedChunks
    BY DEF ErrKeepsMergedChunks
  <2>1. /\ NHosts \in Nat /\ lo \in 0..NHosts /\ spawned \in Nat /\ joined \in Nat
        /\ spawned <= ChunkLen /\ joined <= spawned
        /\ ChunkLen \in Nat /\ lo + ChunkLen <= NHosts
    BY Basics DEF IInv
  <2>2. lo + joined + 1 \in Hosts /\ pc[lo + joined + 1] = "error"
    BY DEF IInv, Cursor
  <2>3. mode = "free" => lo = 0
    <3>1. lo # NHosts
      BY <2>1, <2>2 DEF Hosts
    <3> QED
      BY <3>1 DEF IInv, Cursor
  <2>4. ASSUME NEW h \in Hosts
        PROVE  hostStates[h] = IF mode = "batch" /\ h <= lo THEN state[h] ELSE given[h]
    <3>1. h \in Nat /\ h > 0
      BY <2>1 DEF Hosts
    <3>2. mode \in {"free", "batch", "async"}
      BY FanOutAssumption DEF IInv, TypeOK
    <3>3. mode = "free" => h > lo
      BY <2>3, <3>1
    <3>4. h > lo \/ h <= lo
      BY <2>1, <3>1
    <3> QED
      BY <3>2, <3>3, <3>4 DEF IInv, MergeInv
  <2>5. lo + joined + 1 \in Chunk
    <3>1. pc[lo + joined + 1] # "none"
      BY <2>2
    <3>2. ~(lo + joined + 1 > lo + spawned)
      BY <2>2, <3>1 DEF IInv, ThreadInv
    <3> QED
      BY <2>1, <3>2 DEF Chunk
  <2>6. ASSUME NEW h \in Hosts, pc[h] \in Live
        PROVE  h \in Chunk
    <3>1. h > lo /\ h <= lo + spawned
      BY <2>6, RunningThread DEF Live
    <3> QED
      BY <2>1, <3>1 DEF Chunk, Hosts
  <2> QED
    BY <2>2, <2>4, <2>5, <2>6 DEF ErrKeepsMergedChunks
<1> QED
  BY <1>1, Invariance, PTL

(* Registered variables are isolated per host in every threaded strategy. *)
THEOREM RegistersIsolated == Spec => []RegisterIsolation
<1>1. IInv => RegisterIsolation
  BY DEF IInv, RegInv
<1> QED
  BY <1>1, Invariance, PTL

-----------------------------------------------------------------------------
(* The refinement. *)

(* No host runs more nodes than the play has. *)
LengthInv == \A h \in Hosts : Len(results[h]) <= NNodes

(* No step makes a host run more nodes than the play has. *)
LEMMA StepLength == IInv /\ LengthInv /\ [Next]_vars => LengthInv'
<1> SUFFICES ASSUME IInv, LengthInv, [Next]_vars PROVE LengthInv'
  OBVIOUS
<1>1. CASE UNCHANGED results
  BY <1>1 DEF LengthInv
<1>2. ASSUME NEW h0 \in Hosts, RunNode(h0)
      PROVE  LengthInv'
  <2> SUFFICES ASSUME NEW h \in Hosts PROVE Len(results'[h]) <= NNodes
    BY DEF LengthInv
  <2>1. results[h0] \in Seq(Entries) /\ results \in [Hosts -> Seq(Entries)]
    BY DEF IInv, TypeOK
  <2>2. PICK e : results' = [results EXCEPT ![h0] = Append(@, e)]
    BY <1>2 DEF RunNode
  <2>3. CASE h = h0
    <3>1. Len(results[h0]) < NNodes /\ NNodes \in Nat /\ Len(results[h0]) \in Nat
      BY <1>2, <2>1, NodesAssumption DEF RunNode, HasNode
    <3>2. results'[h0] = Append(results[h0], e)
      BY <2>1, <2>2
    <3>3. Len(results'[h0]) = Len(results[h0]) + 1
      BY <2>1, <3>2
    <3> QED
      BY <2>3, <3>1, <3>3
  <2>4. CASE h # h0
    BY <2>1, <2>2, <2>4 DEF LengthInv
  <2> QED
    BY <2>3, <2>4
<1>3. Main => UNCHANGED results
  BY DEF Main, PanicOnZeroChunk, Spawn, JoinOk, JoinErr, MergeChunk, ReturnOk, threadVars
<1>4. ASSUME NEW h \in Hosts, NodeErr(h) \/ PublishResults(h) \/ PublishState(h)
      PROVE  UNCHANGED results
  BY <1>4 DEF NodeErr, PublishResults, PublishState
<1>5. UNCHANGED vars => UNCHANGED results
  BY DEF vars, threadVars
<1> QED
  BY <1>1, <1>2, <1>3, <1>4, <1>5 DEF Next, Thread

(* No host ever runs more nodes than the play has. *)
LEMMA LengthBound == Spec => []LengthInv
<1>1. Init => LengthInv
  BY NodesAssumption DEF Init, LengthInv
<1> QED
  BY <1>1, StepLength, Invariance, PTL DEF Spec

-----------------------------------------------------------------------------
(* What a thread's HostState says of its results.  A host that was down when *)
(* its thread started runs nothing.                                          *)
TallyInv ==
  /\ given \in [Hosts -> {Fresh, FailedBefore}]
  /\ \A h \in Hosts : pc[h] # "none" => Tallied(state[h], results[h], GivenUp(h))

LEMMA InitTally == Init => TallyInv
  BY DEF Init, TallyInv

(* A new thread has no results and a HostState no thread has touched. *)
LEMMA SpawnTally ==
  ASSUME IInv, TallyInv, Spawn
  PROVE  TallyInv'
<1> DEFINE h0 == lo + spawned + 1
<1>1. /\ NHosts \in Nat /\ lo \in 0..NHosts /\ spawned \in Nat
      /\ ChunkLen \in Nat /\ lo + ChunkLen <= NHosts /\ spawned < ChunkLen
  BY Basics DEF IInv, Spawn
<1>2. h0 \in Hosts /\ h0 > lo /\ h0 > lo + spawned
  BY <1>1 DEF Hosts
<1>3. /\ pc' = [pc EXCEPT ![h0] = "run"] /\ state' = [state EXCEPT ![h0] = StartState(h0)]
      /\ UNCHANGED <<given, mode, results>> /\ main = "spawn"
  BY DEF Spawn, callVars
<1>4. SUFFICES ASSUME NEW h \in Hosts, pc'[h] # "none"
               PROVE  Tallied(state'[h], results[h], GivenUp(h))
  BY <1>3 DEF TallyInv, GivenUp
<1>5. CASE h # h0
  <2>1. pc'[h] = pc[h] /\ state'[h] = state[h]
    BY <1>3, <1>5 DEF IInv, TypeOK
  <2> QED
    BY <1>4, <2>1 DEF TallyInv
<1>6. CASE h = h0
  <2>1. results[h] = <<>>
    BY <1>2, <1>6 DEF IInv, ThreadInv
  <2>2. state'[h] = StartState(h)
    BY <1>3, <1>6 DEF IInv, TypeOK
  <2>3. hostStates[h] = given[h]
    BY <1>2, <1>3, <1>6 DEF IInv, MergeInv
  <2>4. given[h] = Fresh \/ given[h] = FailedBefore
    BY Zenon DEF TallyInv
  <2>a. Fresh.failed = FALSE /\ FailedBefore.failed = TRUE
    BY DEF Fresh, FailedBefore
  <2>b. given[h].failed \in BOOLEAN
    BY <2>4, <2>a
  <2>5. StartState(h) \in {Fresh, FailedBefore} /\ StartState(h).failed = GivenUp(h)
    BY <2>3, <2>4, <2>a, <2>b DEF StartState, GivenUp
  <2> QED
    BY <2>1, <2>2, <2>5, TalliedStart
<1> QED
  BY <1>5, <1>6

(* A node is run by an active host, so its fatal outcome is the first. *)
LEMMA RunNodeTally ==
  ASSUME IInv, TallyInv, NEW g \in Hosts, RunNode(g)
  PROVE  TallyInv'
<1>1. /\ pc[g] = "run" /\ IsActive(state[g])
      /\ UNCHANGED <<pc, given, mode>>
  BY DEF RunNode, HasNode, callVars
<1>2. PICK o \in OutcomesOf(Len(results[g]) + 1) :
        /\ results' = [results EXCEPT ![g] = Append(@, [out |-> o, saw |-> reg[g]])]
        /\ state' = [state EXCEPT ![g] = Count(@, o)]
  BY DEF RunNode
<1> DEFINE e == [out |-> o, saw |-> reg[g]]
<1>3. e \in Entries /\ e.out = o
  <2>1. o \in Outcomes
    BY DEF OutcomesOf, Outcomes
  <2>2. reg[g] \in 0..NHosts
    BY DEF IInv, TypeOK
  <2> QED
    BY <2>1, <2>2, Zenon DEF Entries
<1>4. SUFFICES ASSUME NEW h \in Hosts, pc[h] # "none"
               PROVE  Tallied(state'[h], results'[h], GivenUp(h))
  BY <1>1 DEF TallyInv, GivenUp
<1>5. CASE h # g
  <2>1. state'[h] = state[h] /\ results'[h] = results[h]
    BY <1>2, <1>5 DEF IInv, TypeOK
  <2> QED
    BY <1>4, <2>1 DEF TallyInv
<1>6. CASE h = g
  <2>1. state[h] \in HostStates /\ results[h] \in Seq(Entries) /\ ~state[h].failed
    BY <1>1, <1>6 DEF IInv, TypeOK, IsActive
  <2>2. GivenUp(h) = FALSE
    <3>1. ~GivenUp(h)
      BY <1>1, <1>4, <1>6 DEF IInv, FailInv
    <3>2. GivenUp(h) \in BOOLEAN
      BY DEF GivenUp
    <3> QED
      BY <3>1, <3>2
  <2>3. Tallied(state[h], results[h], FALSE)
    BY <1>4, <2>2 DEF TallyInv
  <2>4. Tallied(Count(state[h], o), Append(results[h], e), FALSE)
    BY <1>3, <2>1, <2>3, TalliedCount
  <2>5. state'[h] = Count(state[h], o) /\ results'[h] = Append(results[h], e)
    BY <1>2, <1>6 DEF IInv, TypeOK
  <2> QED
    BY <2>2, <2>4, <2>5
<1> QED
  BY <1>5, <1>6

LEMMA StepTally == IInv /\ TallyInv /\ [Next]_vars => TallyInv'
<1> SUFFICES ASSUME IInv, TallyInv, [Next]_vars PROVE TallyInv'
  OBVIOUS
<1>1. CASE Spawn
  BY <1>1, SpawnTally
<1>2. CASE PanicOnZeroChunk \/ JoinOk \/ JoinErr \/ MergeChunk \/ ReturnOk \/ UNCHANGED vars
  <2>1. UNCHANGED <<given, mode, pc, state, results>>
    BY <1>2 DEF PanicOnZeroChunk, JoinOk, JoinErr, MergeChunk, ReturnOk, vars, callVars, threadVars
  <2> QED
    BY <2>1 DEF TallyInv, GivenUp
<1>3. ASSUME NEW g \in Hosts, Thread(g) PROVE TallyInv'
  <2>1. CASE RunNode(g)
    BY <2>1, RunNodeTally
  <2>2. CASE NodeErr(g) \/ PublishResults(g) \/ PublishState(g)
    <3>1. UNCHANGED <<given, mode, state, results>> /\ pc[g] # "none"
          /\ \A h \in Hosts \ {g} : pc'[h] = pc[h]
      BY <2>2 DEF NodeErr, PublishResults, PublishState, callVars, IInv, TypeOK
    <3> QED
      BY <3>1 DEF TallyInv, GivenUp
  <2> QED
    BY <1>3, <2>1, <2>2 DEF Thread
<1> QED
  BY <1>1, <1>2, <1>3 DEF Next, Main

(* Ok means that every host ran to its last node or to the one that left it  *)
(* failed, and that flag and counters of every HostState are those of the    *)
(* results reported beside it, for any number of hosts, nodes and chunks.    *)
THEOREM OkTellsTheRun == Spec => []OkReportsTheRun
<1>1. IInv /\ LengthInv /\ TallyInv => OkReportsTheRun
  <2> SUFFICES ASSUME IInv, LengthInv, TallyInv, main = "ok", NEW h \in Hosts
               PROVE  /\ allResults[h] = results[h]
                      /\ Len(results[h]) = NNodes \/ hostStates[h].failed
                      /\ hostStates[h].failed <=>
                           \/ Times(results[h], Fatal) = 1
                           \/ given[h].failed /\ mode # "free"
                      /\ hostStates[h].changed = Times(results[h], {"changed"})
                      /\ hostStates[h].ok = Times(results[h], {"ok", "skipped"})
    BY DEF OkReportsTheRun
  <2>1. allResults[h] = results[h] /\ hostStates[h] = state[h]
    BY DEF IInv, MergeInv
  <2>2. h <= lo + joined /\ h <= lo + spawned
    BY Basics DEF IInv, Cursor, Hosts
  <2>3. pc[h] = "done" /\ ~HasNode(h)
    BY <2>2 DEF IInv, ThreadInv
  <2>4. Len(results[h]) = NNodes \/ state[h].failed
    BY <2>3, NodesAssumption DEF HasNode, IsActive, LengthInv, IInv, TypeOK
  <2>5. Tallied(state[h], results[h], GivenUp(h))
    BY <2>3 DEF TallyInv
  <2>6. GivenUp(h) => state[h].failed
    BY <2>3 DEF IInv, FailInv, IsActive
  <2> QED
    BY <2>1, <2>4, <2>5, <2>6 DEF Tallied, GivenUp
<1> QED
  BY <1>1, InitTally, StepTally, Invariance, LengthBound, PTL DEF Spec

(* A thread has a node to run exactly when the abstract host is incomplete.  *)
LEMMA HasNodeMeansIncomplete ==
  ASSUME IInv, LengthInv, NEW h \in Hosts, pc[h] # "none"
  PROVE  HasNode(h) <=> ~HR!Complete(h)
<1>1. results[h] \in Seq(Entries)
  BY DEF IInv, TypeOK
<1>2. IsActive(state[h]) <=> ~GivenUp(h) /\ ~LastFatal(h)
  BY DEF IInv, FailInv
<1>3. HR!Complete(h) <=> \/ GivenUp(h)
                         \/ Len(Outs(results[h])) = NNodes
                         \/ /\ Len(Outs(results[h])) > 0
                            /\ Outs(results[h])[Len(Outs(results[h]))] \in Fatal
  BY DEF HR!Complete, GivenUp
<1>4. /\ Len(Outs(results[h])) = Len(results[h])
      /\ Len(results[h]) > 0 =>
           Outs(results[h])[Len(results[h])] = results[h][Len(results[h])].out
  BY <1>1, OutsAppend
<1>5. HR!Complete(h) <=> GivenUp(h) \/ Len(results[h]) = NNodes \/ LastFatal(h)
  BY <1>3, <1>4 DEF LastFatal
<1>6. Len(results[h]) <= NNodes /\ Len(results[h]) \in Nat /\ NNodes \in Nat
  BY <1>1, NodesAssumption DEF LengthInv
<1> QED
  BY <1>2, <1>5, <1>6 DEF HasNode

(* The abstract variables, under the refinement mapping. *)
DownBar    == {h \in Hosts : mode # "free" /\ given[h].failed}
RunsBar    == [h \in Hosts |-> Outs(results[h])]
BrokenBar  == {h \in Hosts : pc[h] = "error"}
VerdictBar == IF main \in Returned THEN main ELSE "none"
ReportBar  == [h \in Hosts |-> IF main = "ok" THEN Outs(allResults[h]) ELSE NoEntry]
bars == <<DownBar, RunsBar, BrokenBar, VerdictBar, ReportBar>>

(* The refinement mapping, with a name for each abstract variable. *)
LEMMA HRVars == HR!vars = bars
  BY DEF HR!vars, bars, DownBar, RunsBar, BrokenBar, VerdictBar, ReportBar

(* Initial states map to initial states. *)
LEMMA InitMaps == Init => HR!Init
<1> SUFFICES ASSUME Init PROVE HR!Init
  OBVIOUS
<1> USE DEF Init
<1>1. Outs(<<>>) = <<>>
  BY DEF Outs
<1>2. HR!Hosts = Hosts
  BY DEF HR!Hosts, Hosts
<1>3. DownBar \in SUBSET Hosts
  BY DEF DownBar
<1>4. RunsBar = [h \in Hosts |-> <<>>]
  BY <1>1 DEF RunsBar
<1>5. BrokenBar = {}
  BY DEF BrokenBar
<1>6. VerdictBar = "none"
  BY DEF VerdictBar, Returned
<1>7. ReportBar = [h \in Hosts |-> NoEntry]
  BY DEF ReportBar
<1> QED
  BY <1>2, <1>3, <1>4, <1>5, <1>6, <1>7
     DEF HR!Init, DownBar, RunsBar, BrokenBar, VerdictBar, ReportBar

(* Spawning, joining and merging are invisible, and so is publishing. *)
LEMMA MainStutters ==
  ASSUME IInv, Spawn \/ JoinOk \/ MergeChunk
  PROVE  UNCHANGED bars
<1>1. given' = given /\ mode' = mode /\ results' = results
  BY DEF Spawn, JoinOk, MergeChunk, callVars, threadVars
<1>2. main \notin Returned /\ main' \notin Returned
  BY DEF Spawn, JoinOk, MergeChunk, Returned
<1>3. UNCHANGED <<DownBar, RunsBar>>
  BY <1>1 DEF DownBar, RunsBar
<1>4. ASSUME NEW h \in Hosts
      PROVE  pc'[h] = "error" <=> pc[h] = "error"
  <2>1. CASE Spawn
    <3>1. pc' = [pc EXCEPT ![lo + spawned + 1] = "run"] /\ spawned < ChunkLen
      BY <2>1 DEF Spawn
    <3>2. /\ lo \in Nat /\ spawned \in Nat /\ ChunkLen \in Nat
          /\ lo + ChunkLen <= NHosts /\ NHosts \in Nat
      BY Basics DEF IInv
    <3>3. lo + spawned + 1 \in Hosts /\ lo + spawned + 1 > lo + spawned
      BY <3>1, <3>2 DEF Hosts
    <3>4. pc[lo + spawned + 1] = "none"
      BY <3>3 DEF IInv, ThreadInv
    <3> QED
      BY <3>1, <3>4 DEF IInv, TypeOK
  <2>2. CASE JoinOk \/ MergeChunk
    BY <2>2 DEF JoinOk, MergeChunk, threadVars
  <2> QED
    BY <2>1, <2>2
<1>5. UNCHANGED BrokenBar
  BY <1>4 DEF BrokenBar
<1>6. UNCHANGED <<VerdictBar, ReportBar>>
  BY <1>2 DEF VerdictBar, ReportBar, Returned
<1> QED
  BY <1>3, <1>5, <1>6 DEF bars

(* Publishing is invisible. *)
LEMMA PublishStutters ==
  ASSUME IInv, NEW h0 \in Hosts, PublishResults(h0) \/ PublishState(h0)
  PROVE  UNCHANGED bars
<1>1. /\ given' = given /\ mode' = mode /\ results' = results
      /\ main' = main /\ allResults' = allResults
  BY DEF PublishResults, PublishState, mainVars, callVars, outVars
<1>2. UNCHANGED <<DownBar, RunsBar, VerdictBar, ReportBar>>
  BY <1>1 DEF DownBar, RunsBar, VerdictBar, ReportBar
<1>3. ASSUME NEW h \in Hosts
      PROVE  pc'[h] = "error" <=> pc[h] = "error"
  BY DEF PublishResults, PublishState, IInv, TypeOK
<1>4. UNCHANGED BrokenBar
  BY <1>3 DEF BrokenBar
<1> QED
  BY <1>2, <1>4 DEF bars

(* The panic on a zero chunk size is the abstract refusal: nothing has run.  *)
LEMMA PanicMaps ==
  ASSUME IInv, PanicOnZeroChunk
  PROVE  HR!Refuse
<1> USE DEF PanicOnZeroChunk
<1>1. UNCHANGED <<DownBar, RunsBar, BrokenBar>>
  BY DEF DownBar, RunsBar, BrokenBar, callVars, threadVars
<1>2. VerdictBar = "none" /\ VerdictBar' = "panic" /\ UNCHANGED ReportBar
  BY DEF VerdictBar, ReportBar, Returned
<1>3. \A h \in Hosts : pc[h] = "none" /\ results[h] = <<>>
  BY NodesAssumption DEF IInv, ThreadInv, Hosts
<1>4. BrokenBar = {}
  BY <1>3 DEF BrokenBar
<1>5. \A h \in Hosts : RunsBar[h] = <<>>
  BY <1>3 DEF RunsBar, Outs
<1>6. HR!Hosts = Hosts
  BY DEF HR!Hosts, Hosts
<1> QED
  BY <1>1, <1>2, <1>4, <1>5, <1>6
     DEF HR!Refuse, DownBar, RunsBar, BrokenBar, VerdictBar, ReportBar

(* Joining a thread that ended with an Err is the abstract ReturnErr. *)
LEMMA JoinErrMaps ==
  ASSUME IInv, JoinErr
  PROVE  HR!ReturnErr
<1> USE DEF JoinErr
<1>1. UNCHANGED <<DownBar, RunsBar, BrokenBar>>
  BY DEF DownBar, RunsBar, BrokenBar, callVars, threadVars
<1>2. VerdictBar = "none" /\ VerdictBar' = "err" /\ UNCHANGED ReportBar
  BY DEF VerdictBar, ReportBar, Returned
<1>3. lo + joined + 1 \in Hosts
  BY Basics DEF IInv, Hosts
<1>4. BrokenBar # {}
  BY <1>3 DEF BrokenBar
<1> QED
  BY <1>1, <1>2, <1>4
     DEF HR!ReturnErr, DownBar, RunsBar, BrokenBar, VerdictBar, ReportBar

(* Ok is returned when every thread was joined, so when every host is done,  *)
(* and what is reported is what the hosts have run.                          *)
LEMMA ReturnOkMaps ==
  ASSUME IInv, LengthInv, ReturnOk
  PROVE  HR!ReturnOk
<1>1. main = "spawn" /\ lo = NHosts /\ main' = "ok" /\ results' = results
  BY DEF ReturnOk, threadVars
<1>2. UNCHANGED <<DownBar, RunsBar, BrokenBar>>
  BY DEF ReturnOk, DownBar, RunsBar, BrokenBar, callVars, threadVars
<1>3. VerdictBar = "none" /\ VerdictBar' = "ok"
  BY <1>1 DEF VerdictBar, Returned
<1>4. ASSUME NEW h \in Hosts
      PROVE  pc[h] = "done" /\ h <= lo
  <2>1. h <= lo + joined /\ h <= lo
    BY <1>1, NodesAssumption DEF IInv, Cursor, Hosts
  <2> QED
    BY <2>1 DEF IInv, ThreadInv
<1>5. BrokenBar = {}
  BY <1>4 DEF BrokenBar
<1>6. \A h \in Hosts : HR!Complete(h)
  <2> SUFFICES ASSUME NEW h \in Hosts PROVE HR!Complete(h)
    OBVIOUS
  <2>1. ~HasNode(h)
    BY <1>4 DEF IInv, ThreadInv
  <2> QED
    BY <1>4, <2>1, HasNodeMeansIncomplete
<1>7. ASSUME NEW h \in Hosts
      PROVE  allResults'[h] = results[h]
  BY <1>4 DEF ReturnOk, IInv, ThreadInv, MergeInv, outVars
<1>8. ReportBar' = RunsBar
  BY <1>1, <1>7 DEF ReportBar, RunsBar
<1>9. HR!Hosts = Hosts
  BY DEF HR!Hosts, Hosts
<1> QED
  BY <1>2, <1>3, <1>5, <1>6, <1>8, <1>9
     DEF HR!ReturnOk, DownBar, RunsBar, BrokenBar, VerdictBar, ReportBar

(* A turn of a thread's loop is one abstract node of its host. *)
LEMMA RunNodeMaps ==
  ASSUME IInv, LengthInv, NEW h0 \in Hosts, RunNode(h0)
  PROVE  HR!RunNode(h0)
<1>1. pc[h0] = "run" /\ HasNode(h0)
  BY DEF RunNode
<1>2. UNCHANGED <<DownBar, BrokenBar, VerdictBar, ReportBar>>
  BY DEF RunNode, DownBar, BrokenBar, VerdictBar, ReportBar, mainVars, callVars, outVars
<1>3. h0 \notin BrokenBar
  BY <1>1 DEF BrokenBar
<1>4. ~HR!Complete(h0)
  BY <1>1, HasNodeMeansIncomplete
<1>5. results[h0] \in Seq(Entries) /\ results \in [Hosts -> Seq(Entries)]
  BY DEF IInv, TypeOK
<1>6. PICK o \in Outcomes :
        results' = [results EXCEPT ![h0] = Append(@, [out |-> o, saw |-> reg[h0]])]
  BY DEF RunNode, OutcomesOf, Outcomes
<1>7. [out |-> o, saw |-> reg[h0]] \in Entries
  <2>1. reg[h0] \in 0..NHosts
    BY DEF IInv, TypeOK
  <2> QED
    BY <2>1, Zenon DEF Entries
<1>8. Outs(Append(results[h0], [out |-> o, saw |-> reg[h0]]))
        = Append(Outs(results[h0]), o)
  BY <1>5, <1>7, OutsAppend
<1>9. RunsBar' = [RunsBar EXCEPT ![h0] = Append(@, o)]
  <2>1. ASSUME NEW h \in Hosts
        PROVE  Outs(results'[h]) = IF h = h0 THEN Append(Outs(results[h]), o)
                                             ELSE Outs(results[h])
    BY <1>5, <1>6, <1>8
  <2> QED
    BY <2>1 DEF RunsBar
<1> QED
  BY <1>2, <1>3, <1>4, <1>9
     DEF HR!RunNode, DownBar, RunsBar, BrokenBar, VerdictBar, ReportBar

(* An Err inside a thread breaks its host; the verdict comes with the join.  *)
LEMMA NodeErrMaps ==
  ASSUME IInv, LengthInv, NEW h0 \in Hosts, NodeErr(h0)
  PROVE  HR!Break(h0)
<1>1. pc[h0] = "run" /\ HasNode(h0)
  BY DEF NodeErr
<1>2. UNCHANGED <<DownBar, RunsBar, VerdictBar, ReportBar>>
  BY DEF NodeErr, DownBar, RunsBar, VerdictBar, ReportBar, mainVars, callVars, outVars
<1>3. h0 \notin BrokenBar
  BY <1>1 DEF BrokenBar
<1>4. ~HR!Complete(h0)
  BY <1>1, HasNodeMeansIncomplete
<1>5. BrokenBar' = BrokenBar \union {h0}
  BY DEF NodeErr, BrokenBar, IInv, TypeOK
<1> QED
  BY <1>2, <1>3, <1>4, <1>5
     DEF HR!Break, DownBar, RunsBar, BrokenBar, VerdictBar, ReportBar

(* Every step of the fan-out is a step of HostRuns or leaves it unchanged. *)
LEMMA StepMaps == IInv /\ LengthInv /\ [Next]_vars => [HR!Next]_(HR!vars)
<1> SUFFICES ASSUME IInv, LengthInv, [Next]_vars
             PROVE  HR!Next \/ UNCHANGED HR!vars
  OBVIOUS
<1>1. CASE Spawn \/ JoinOk \/ MergeChunk
  BY <1>1, MainStutters, HRVars DEF bars, HR!vars, DownBar, RunsBar, BrokenBar,
     VerdictBar, ReportBar
<1>2. ASSUME NEW h \in Hosts, PublishResults(h) \/ PublishState(h)
      PROVE  UNCHANGED HR!vars
  BY <1>2, PublishStutters DEF bars, HR!vars, DownBar, RunsBar, BrokenBar,
     VerdictBar, ReportBar
<1>3. CASE PanicOnZeroChunk
  BY <1>3, PanicMaps DEF HR!Next
<1>4. CASE JoinErr
  BY <1>4, JoinErrMaps DEF HR!Next
<1>5. CASE ReturnOk
  BY <1>5, ReturnOkMaps DEF HR!Next
<1>6. ASSUME NEW h \in Hosts, RunNode(h) \/ NodeErr(h)
      PROVE  HR!Next
  <2>1. HR!Hosts = Hosts
    BY DEF HR!Hosts, Hosts
  <2> QED
    BY <1>6, <2>1, RunNodeMaps, NodeErrMaps DEF HR!Next
<1>7. CASE UNCHANGED vars
  BY <1>7 DEF vars, mainVars, callVars, outVars, threadVars, HR!vars
<1> QED
  BY <1>1, <1>2, <1>3, <1>4, <1>5, <1>6, <1>7 DEF Next, Main, Thread

(* Every behaviour of the threaded strategies is one of HostRuns: chunks,    *)
(* threads, joins and shared maps change nothing a caller can tell.          *)
THEOREM Refinement == Spec => ImplementsHostRuns
<1>1. Spec => HR!Init /\ [][HR!Next]_(HR!vars)
  BY InitMaps, StepMaps, Invariance, LengthBound, PTL DEF Spec
<1> QED
  BY <1>1 DEF ImplementsHostRuns, HR!Spec
=============================================================================
