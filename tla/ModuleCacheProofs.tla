------------------------- MODULE ModuleCacheProofs -------------------------
(* Proofs about ModuleCache, for every set of threads, hosts and modules and *)
(* every bound.                                                              *)
EXTENDS ModuleCache, FiniteSetTheorems, TLAPS

(* The inductive invariant.  What each control state of a thread stands for: *)
(* a thread that is not idle has a call, one in the cached path its key, one *)
(* with a result the result of that very call.                               *)
InPath == {"get", "hit", "run", "put"}
CallInv ==
  \A t \in Threads :
    /\ pc[t] # "idle" => call[t] \in Calls /\ began[t] <= inval[call[t].host]
    /\ pc[t] \in InPath =>
         /\ key[t] \in Keys /\ call[t].module \in Cacheable
         /\ \E text \in Orders[call[t].args] : key[t] = KeyOf(call[t], text)

(* r answers the call of thread t. *)
Answers(r, t) ==
  /\ r \in Results
  /\ r.call = call[t]
  /\ backend = "memory" => r.process = process
  /\ r.stored >= began[t]
ResultInv == \A t \in Threads : pc[t] \in {"hit", "put", "returned"} => Answers(result[t], t)

(* An entry is the result of a call its key was computed from; it was stored *)
(* since the last invalidation of its host and, unless the store is a file,  *)
(* by this process.                                                          *)
EntryInv ==
  \A k \in Keys : store[k] # NoEntry =>
    /\ store[k].call.module = k.module /\ store[k].call.host = k.host
    /\ k.text \in Orders[store[k].call.args]
    /\ backend = "memory" => store[k].process = process
    /\ store[k].stored = inval[k.host]

(* In memory, a thread that ran the module for a key has stored its result   *)
(* or is about to.                                                           *)
RanInv ==
  backend = "memory" =>
    \A t \in Threads, k \in Keys :
      <<t, k>> \in ran => store[k] # NoEntry \/ (pc[t] = "put" /\ key[t] = k)

(* The in-memory store never makes a thread run the module for a key twice.  *)
OneRunPerKey ==
  backend = "memory" =>
    \A t \in Threads : pc[t] = "run" => <<t, key[t]>> \notin ran

Pending == {t \in Threads : pc[t] \in {"get", "hit", "run"}}

IInv == /\ TypeOK /\ CallInv /\ ResultInv /\ EntryInv
        /\ RanInv /\ OneRunPerKey /\ CountersAgree

-----------------------------------------------------------------------------
(* Facts about calls, keys and the number of pending lookups.                *)

LEMMA KeyType ==
  ASSUME NEW c \in Calls, c.module \in Cacheable, NEW text \in Orders[c.args]
  PROVE  /\ KeyOf(c, text) \in Keys
         /\ KeyOf(c, text).module = c.module /\ KeyOf(c, text).host = c.host
         /\ KeyOf(c, text).text = text
<1>1. c.args \in DOMAIN Orders
  BY DEF Calls
<1>2. text \in UNION {Orders[a] : a \in DOMAIN Orders}
  BY <1>1
<1> QED
  BY <1>2 DEF Keys, KeyOf

LEMMA KeyHost == \A k \in Keys : k.host \in Hosts
  BY DEF Keys, KeyOf, Calls

LEMMA CallHost == \A c \in Calls : c.host \in Hosts /\ c.args \in DOMAIN Orders
  BY DEF Calls

(* Two calls with a key in common are the same call: no two arguments have a *)
(* text in common.                                                           *)
LEMMA KeyDetermines ==
  ASSUME NEW c \in Calls, NEW d \in Calls, NEW text \in Orders[c.args],
         d.module = c.module, d.host = c.host, text \in Orders[d.args]
  PROVE  c = d
<1>1. c.args = d.args
  BY CallHost, ModuleCacheAssumption
<1> QED
  BY <1>1 DEF Calls

LEMMA PendingFinite ==
  /\ IsFiniteSet(Pending) /\ Cardinality(Pending) \in Nat
  /\ (CountersAgree <=> lookups = hits + misses + Cardinality(Pending))
<1>1. IsFiniteSet(Pending)
  BY ModuleCacheAssumption, FS_Subset DEF Pending
<1>2. Cardinality(Pending) \in Nat
  BY <1>1, FS_CardinalityType
<1> QED
  BY <1>1, <1>2 DEF CountersAgree, Pending

(* A thread that starts a lookup is one more, one that ends it one less.     *)
LEMMA PendingEnters ==
  ASSUME NEW t \in Threads, t \notin Pending, pc'[t] \in {"get", "hit", "run"},
         \A u \in Threads : u # t => pc'[u] = pc[u]
  PROVE  Cardinality(Pending') = Cardinality(Pending) + 1
<1>1. Pending' = Pending \union {t}
  BY DEF Pending
<1> QED
  BY <1>1, PendingFinite, FS_AddElement

LEMMA PendingLeaves ==
  ASSUME NEW t \in Threads, t \in Pending, pc'[t] \notin {"get", "hit", "run"},
         \A u \in Threads : u # t => pc'[u] = pc[u]
  PROVE  Cardinality(Pending') = Cardinality(Pending) - 1 /\ Cardinality(Pending) >= 1
<1>1. Pending' = Pending \ {t}
  BY DEF Pending
<1>2. Cardinality(Pending') = Cardinality(Pending) - 1 /\ IsFiniteSet(Pending')
  BY <1>1, PendingFinite, FS_RemoveElement
<1>3. Cardinality(Pending') \in Nat
  BY <1>2, FS_CardinalityType
<1> QED
  BY <1>2, <1>3, PendingFinite

LEMMA PendingStays ==
  ASSUME NEW t \in Threads, t \in Pending <=> pc'[t] \in {"get", "hit", "run"},
         \A u \in Threads : u # t => pc'[u] = pc[u]
  PROVE  Cardinality(Pending') = Cardinality(Pending)
<1>1. Pending' = Pending
  BY DEF Pending
<1> QED
  BY <1>1

-----------------------------------------------------------------------------
(* The initial states satisfy the invariant. *)
LEMMA InitIInv == Init => IInv
<1> SUFFICES ASSUME Init PROVE IInv
  OBVIOUS
<1> USE DEF Init
<1>1. TypeOK
  BY ModuleCacheAssumption DEF TypeOK
<1>2. CallInv /\ ResultInv /\ EntryInv /\ RanInv /\ OneRunPerKey
  BY DEF CallInv, ResultInv, EntryInv, RanInv, OneRunPerKey, InPath
<1>3. Pending = {}
  BY DEF Pending
<1>4. CountersAgree
  BY <1>3, PendingFinite, FS_EmptySet
<1> QED
  BY <1>1, <1>2, <1>4 DEF IInv

(* What a step of one thread leaves to the others. *)
LEMMA OtherThreads ==
  ASSUME IInv, NEW t \in Threads,
         UNCHANGED <<backend, process, inval>>,
         \A u \in Threads : u # t =>
           /\ pc'[u] = pc[u] /\ call'[u] = call[u] /\ key'[u] = key[u]
           /\ result'[u] = result[u] /\ began'[u] = began[u]
  PROVE  \A u \in Threads : u # t =>
           /\ pc'[u] # "idle" => call'[u] \in Calls /\ began'[u] <= inval'[call'[u].host]
           /\ pc'[u] \in InPath =>
                /\ key'[u] \in Keys /\ call'[u].module \in Cacheable
                /\ \E text \in Orders[call'[u].args] : key'[u] = KeyOf(call'[u], text)
           /\ pc'[u] \in {"hit", "put", "returned"} => Answers(result[u], u)'
  BY DEF IInv, CallInv, ResultInv, Answers

(* A call begins: a call that is not cached, or one that counts a lookup.    *)
LEMMA BeginKeeps ==
  ASSUME IInv, NEW t \in Threads, NEW c \in Calls, Begin(t, c)
  PROVE  /\ t \notin Pending /\ pc[t] # "put"
         /\ call' \in [Threads -> Calls \union {NoEntry}] /\ call'[t] = c
         /\ result' \in [Threads -> Results \union {NoEntry}]
         /\ began' \in [Threads -> 0..MaxInvalidations] /\ began'[t] = inval[c.host]
         /\ inval[c.host] \in Nat
         /\ \A u \in Threads : u # t =>
              call'[u] = call[u] /\ result'[u] = result[u] /\ began'[u] = began[u]
  BY CallHost, ModuleCacheAssumption DEF IInv, TypeOK, Begin, Pending

LEMMA BypassStep == \A t \in Threads : IInv /\ Bypass(t) => IInv'
<1> SUFFICES ASSUME NEW t \in Threads, IInv, Bypass(t) PROVE IInv'
  OBVIOUS
<1>1. PICK c \in Calls : /\ c.module \notin Cacheable /\ Begin(t, c)
                         /\ pc' = [pc EXCEPT ![t] = "bypass"]
                         /\ key' = [key EXCEPT ![t] = NoEntry]
                         /\ UNCHANGED lookups
  BY DEF Bypass
<1>2. UNCHANGED <<backend, store, hits, process, inval, ran, misses>>
  BY <1>1 DEF Begin
<1>3. TypeOK'
  BY <1>1, <1>2, BeginKeeps DEF IInv, TypeOK
<1>4. \A u \in Threads : pc'[u] = (IF u = t THEN "bypass" ELSE pc[u])
                        /\ (u # t => key'[u] = key[u])
  BY <1>1 DEF IInv, TypeOK
<1>5. CallInv' /\ ResultInv'
  BY <1>1, <1>2, <1>4, BeginKeeps, OtherThreads DEF CallInv, ResultInv, InPath
<1>6. EntryInv' /\ RanInv' /\ OneRunPerKey'
  BY <1>1, <1>2, <1>4, BeginKeeps DEF IInv, EntryInv, RanInv, OneRunPerKey
<1>7. CountersAgree'
  <2>1. Cardinality(Pending') = Cardinality(Pending)
    BY <1>1, <1>4, BeginKeeps, PendingStays
  <2>2. CountersAgree' <=> lookups' = hits' + misses' + Cardinality(Pending')
    BY DEF CountersAgree, Pending
  <2> QED
    BY <1>1, <1>2, <2>1, <2>2, PendingFinite DEF IInv
<1> QED
  BY <1>3, <1>5, <1>6, <1>7 DEF IInv

LEMMA CountStep == \A t \in Threads : IInv /\ Count(t) => IInv'
<1> SUFFICES ASSUME NEW t \in Threads, IInv, Count(t) PROVE IInv'
  OBVIOUS
<1>1. PICK c \in Calls : \E text \in Orders[c.args] :
        /\ c.module \in Cacheable /\ Begin(t, c)
        /\ pc' = [pc EXCEPT ![t] = "get"]
        /\ key' = [key EXCEPT ![t] = KeyOf(c, text)]
        /\ lookups' = lookups + 1
  BY DEF Count
<1>2. PICK text \in Orders[c.args] :
        /\ c.module \in Cacheable /\ Begin(t, c)
        /\ pc' = [pc EXCEPT ![t] = "get"]
        /\ key' = [key EXCEPT ![t] = KeyOf(c, text)]
        /\ lookups' = lookups + 1
  BY <1>1
<1>3. UNCHANGED <<backend, store, hits, process, inval, ran, misses>>
  BY <1>2 DEF Begin
<1>4. KeyOf(c, text) \in Keys
  BY <1>2, KeyType
<1>5. TypeOK'
  BY <1>2, <1>3, <1>4, BeginKeeps DEF IInv, TypeOK
<1>6. \A u \in Threads : /\ pc'[u] = (IF u = t THEN "get" ELSE pc[u])
                         /\ key'[u] = (IF u = t THEN KeyOf(c, text) ELSE key[u])
  BY <1>2 DEF IInv, TypeOK
<1>7. CallInv' /\ ResultInv'
  BY <1>2, <1>3, <1>4, <1>6, BeginKeeps, OtherThreads DEF CallInv, ResultInv, InPath
<1>8. EntryInv' /\ RanInv' /\ OneRunPerKey'
  BY <1>2, <1>3, <1>6, BeginKeeps DEF IInv, EntryInv, RanInv, OneRunPerKey
<1>9. CountersAgree'
  <2>1. Cardinality(Pending') = Cardinality(Pending) + 1
    BY <1>2, <1>6, BeginKeeps, PendingEnters
  <2>2. CountersAgree' <=> lookups' = hits' + misses' + Cardinality(Pending')
    BY DEF CountersAgree, Pending
  <2> QED
    BY <1>2, <1>3, <2>1, <2>2, PendingFinite DEF IInv, TypeOK
<1> QED
  BY <1>5, <1>7, <1>8, <1>9 DEF IInv

(* What is found under a key answers every call with that key. *)
LEMMA HitStep == \A t \in Threads : IInv /\ Hit(t) => IInv'
<1> SUFFICES ASSUME NEW t \in Threads, IInv, Hit(t) PROVE IInv'
  OBVIOUS
<1>1. /\ pc[t] = "get" /\ store[key[t]] # NoEntry
      /\ result' = [result EXCEPT ![t] = store[key[t]]]
      /\ pc' = [pc EXCEPT ![t] = "hit"]
      /\ UNCHANGED <<backend, store, lookups, hits, call, key, began, process, inval, ran,
                     misses, calls>>
  BY DEF Hit, history
<1>2. PICK text \in Orders[call[t].args] :
        /\ key[t] = KeyOf(call[t], text)
        /\ key[t] \in Keys /\ call[t] \in Calls /\ call[t].module \in Cacheable
        /\ began[t] <= inval[call[t].host]
  BY <1>1 DEF IInv, CallInv, InPath
<1>3. store[key[t]] \in Results
  BY <1>1, <1>2 DEF IInv, TypeOK
<1>4. Answers(store[key[t]], t)
  <2>1. /\ store[key[t]].call.module = call[t].module /\ store[key[t]].call.host = call[t].host
        /\ text \in Orders[store[key[t]].call.args]
        /\ backend = "memory" => store[key[t]].process = process
        /\ store[key[t]].stored = inval[call[t].host]
    BY <1>1, <1>2, KeyType DEF IInv, EntryInv
  <2>2. store[key[t]].call \in Calls
    BY <1>3 DEF Results
  <2>3. store[key[t]].call = call[t]
    BY <1>2, <2>1, <2>2, KeyDetermines
  <2> QED
    BY <1>2, <1>3, <2>1, <2>3 DEF Answers
<1>5. \A u \in Threads : /\ pc'[u] = (IF u = t THEN "hit" ELSE pc[u])
                         /\ result'[u] = (IF u = t THEN store[key[t]] ELSE result[u])
  BY <1>1 DEF IInv, TypeOK
<1>6. TypeOK'
  BY <1>1, <1>3 DEF IInv, TypeOK
<1>7. CallInv'
  BY <1>1, <1>2, <1>5, OtherThreads DEF CallInv, InPath
<1>8. ResultInv'
  BY <1>1, <1>4, <1>5, OtherThreads DEF ResultInv, Answers
<1>9. EntryInv' /\ RanInv' /\ OneRunPerKey'
  BY <1>1, <1>5 DEF IInv, EntryInv, RanInv, OneRunPerKey
<1>10. CountersAgree'
  <2>1. t \in Pending
    BY <1>1 DEF Pending
  <2>2. Cardinality(Pending') = Cardinality(Pending)
    BY <1>1, <1>5, <2>1, PendingStays
  <2>3. CountersAgree' <=> lookups' = hits' + misses' + Cardinality(Pending')
    BY DEF CountersAgree, Pending
  <2> QED
    BY <1>1, <2>2, <2>3, PendingFinite DEF IInv
<1> QED
  BY <1>6, <1>7, <1>8, <1>9, <1>10 DEF IInv

(* In memory a thread misses only what it has not run since the entry went.  *)
LEMMA MissStep == \A t \in Threads : IInv /\ Miss(t) => IInv'
<1> SUFFICES ASSUME NEW t \in Threads, IInv, Miss(t) PROVE IInv'
  OBVIOUS
<1>1. /\ pc[t] = "get" /\ (store[key[t]] = NoEntry \/ backend = "sqlite")
      /\ pc' = [pc EXCEPT ![t] = "run"]
      /\ UNCHANGED <<backend, store, lookups, hits, call, key, result, began, process, inval,
                     ran, misses, calls>>
  BY DEF Miss, history
<1>2. \A u \in Threads : pc'[u] = (IF u = t THEN "run" ELSE pc[u])
  BY <1>1 DEF IInv, TypeOK
<1>3. TypeOK' /\ EntryInv'
  BY <1>1 DEF IInv, TypeOK, EntryInv
<1>4. CallInv' /\ ResultInv'
  BY <1>1, <1>2, OtherThreads DEF IInv, CallInv, ResultInv, InPath
<1>5. RanInv'
  BY <1>1, <1>2 DEF IInv, RanInv
<1>6. OneRunPerKey'
  BY <1>1, <1>2 DEF IInv, RanInv, OneRunPerKey, CallInv, InPath
<1>7. CountersAgree'
  <2>1. t \in Pending
    BY <1>1 DEF Pending
  <2>2. Cardinality(Pending') = Cardinality(Pending)
    BY <1>1, <1>2, <2>1, PendingStays
  <2>3. CountersAgree' <=> lookups' = hits' + misses' + Cardinality(Pending')
    BY DEF CountersAgree, Pending
  <2> QED
    BY <1>1, <2>2, <2>3, PendingFinite DEF IInv
<1> QED
  BY <1>3, <1>4, <1>5, <1>6, <1>7 DEF IInv

LEMMA CountHitStep == \A t \in Threads : IInv /\ CountHit(t) => IInv'
<1> SUFFICES ASSUME NEW t \in Threads, IInv, CountHit(t) PROVE IInv'
  OBVIOUS
<1>1. /\ pc[t] = "hit" /\ hits' = hits + 1
      /\ pc' = [pc EXCEPT ![t] = "returned"]
      /\ UNCHANGED <<backend, store, lookups, call, key, result, began, process, inval,
                     ran, misses, calls>>
  BY DEF CountHit, history
<1>2. \A u \in Threads : pc'[u] = (IF u = t THEN "returned" ELSE pc[u])
  BY <1>1 DEF IInv, TypeOK
<1>3. CallInv'
  BY <1>1, <1>2, OtherThreads DEF IInv, CallInv, InPath
<1>4. ResultInv'
  BY <1>1, <1>2, OtherThreads DEF IInv, ResultInv, Answers
<1>5. EntryInv' /\ RanInv' /\ OneRunPerKey'
  BY <1>1, <1>2 DEF IInv, EntryInv, RanInv, OneRunPerKey
<1>6. Cardinality(Pending') = Cardinality(Pending) - 1 /\ Cardinality(Pending) >= 1
  <2>1. t \in Pending
    BY <1>1 DEF Pending
  <2> QED
    BY <1>1, <1>2, <2>1, PendingLeaves
<1>7. CountersAgree' <=> lookups' = hits' + misses' + Cardinality(Pending')
  BY DEF CountersAgree, Pending
<1>8. CountersAgree'
  BY <1>1, <1>6, <1>7, PendingFinite DEF IInv, TypeOK
<1>9. TypeOK'
  BY <1>1, <1>6, PendingFinite DEF IInv, TypeOK
<1> QED
  BY <1>3, <1>4, <1>5, <1>8, <1>9 DEF IInv

(* The module runs: only in the cached path is it remembered and counted.    *)
LEMMA RunStep == \A t \in Threads : IInv /\ Run(t) => IInv'
<1> SUFFICES ASSUME NEW t \in Threads, IInv, Run(t) PROVE IInv'
  OBVIOUS
<1>1. PICK f \in BOOLEAN :
        result' = [result EXCEPT ![t] = [call |-> call[t], failed |-> f, process |-> process,
                                         stored |-> inval[call[t].host]]]
  BY DEF Run
<1>2. /\ pc[t] \in {"run", "bypass"}
      /\ pc' = [pc EXCEPT ![t] = IF pc[t] = "run" THEN "put" ELSE "returned"]
      /\ IF pc[t] = "run" THEN ran' = ran \union {<<t, key[t]>>} /\ misses' = misses + 1
                          ELSE UNCHANGED <<ran, misses>>
      /\ UNCHANGED <<backend, store, lookups, hits, call, key, began, process, inval>>
  BY DEF Run
<1> DEFINE r == [call |-> call[t], failed |-> f, process |-> process,
                 stored |-> inval[call[t].host]]
<1>3. /\ call[t] \in Calls /\ began[t] <= inval[call[t].host]
      /\ pc[t] = "run" => key[t] \in Keys
  BY <1>2 DEF IInv, CallInv, InPath
<1>4. r \in Results
  BY <1>3, CallHost DEF Results, IInv, TypeOK
<1>5. \A u \in Threads :
        /\ pc'[u] = IF u = t THEN (IF pc[t] = "run" THEN "put" ELSE "returned") ELSE pc[u]
        /\ result'[u] = IF u = t THEN r ELSE result[u]
  BY <1>1, <1>2 DEF IInv, TypeOK
<1>6. CallInv'
  BY <1>2, <1>5, OtherThreads DEF IInv, CallInv, InPath
<1>7. ResultInv'
  <2>1. Answers(r, t)'
    BY <1>2, <1>3, <1>4 DEF Answers
  <2> QED
    BY <2>1, <1>2, <1>5, OtherThreads DEF ResultInv, Answers
<1>8. EntryInv'
  BY <1>2 DEF IInv, EntryInv
<1>9. RanInv' /\ OneRunPerKey'
  BY <1>2, <1>5 DEF IInv, RanInv, OneRunPerKey
<1>10. CountersAgree' /\ misses' \in 0..lookups' /\ hits' \in 0..lookups'
  <2>1. CountersAgree' <=> lookups' = hits' + misses' + Cardinality(Pending')
    BY DEF CountersAgree, Pending
  <2>2. CASE pc[t] = "run"
    <3>1. t \in Pending
      BY <2>2 DEF Pending
    <3>2. Cardinality(Pending') = Cardinality(Pending) - 1 /\ Cardinality(Pending) >= 1
      BY <1>2, <1>5, <2>2, <3>1, PendingLeaves
    <3> QED
      BY <1>2, <2>1, <2>2, <3>2, PendingFinite DEF IInv, TypeOK
  <2>3. CASE pc[t] = "bypass"
    <3>1. t \notin Pending
      BY <2>3 DEF Pending
    <3>2. Cardinality(Pending') = Cardinality(Pending)
      BY <1>2, <1>5, <2>3, <3>1, PendingStays
    <3> QED
      BY <1>2, <2>1, <2>3, <3>2, PendingFinite DEF IInv, TypeOK
  <2> QED
    BY <1>2, <2>2, <2>3
<1>11. TypeOK'
  <2>1. /\ pc' \in [Threads -> {"idle", "get", "hit", "run", "bypass", "put", "returned"}]
        /\ result' \in [Threads -> Results \union {NoEntry}]
    BY <1>1, <1>2, <1>4 DEF IInv, TypeOK
  <2>2. ran' \subseteq Threads \X Keys
    BY <1>2, <1>3 DEF IInv, TypeOK
  <2> QED
    BY <1>2, <1>10, <2>1, <2>2 DEF IInv, TypeOK
<1> QED
  BY <1>6, <1>7, <1>8, <1>9, <1>10, <1>11 DEF IInv

LEMMA RunErrStep == \A t \in Threads : IInv /\ RunErr(t) => IInv'
<1> SUFFICES ASSUME NEW t \in Threads, IInv, RunErr(t) PROVE IInv'
  OBVIOUS
<1>1. /\ pc[t] \in {"run", "bypass"}
      /\ pc' = [pc EXCEPT ![t] = "idle"]
      /\ call' = [call EXCEPT ![t] = NoEntry]
      /\ key' = [key EXCEPT ![t] = NoEntry]
      /\ began' = [began EXCEPT ![t] = 0]
      /\ misses' = IF pc[t] = "run" THEN misses + 1 ELSE misses
      /\ UNCHANGED <<backend, store, lookups, hits, result, process, inval, ran>>
  BY DEF RunErr
<1>2. \A u \in Threads : /\ pc'[u] = (IF u = t THEN "idle" ELSE pc[u])
                         /\ u # t => call'[u] = call[u] /\ key'[u] = key[u] /\ began'[u] = began[u]
  BY <1>1 DEF IInv, TypeOK
<1>3. CallInv'
  BY <1>1, <1>2, OtherThreads DEF CallInv, InPath
<1>4. ResultInv'
  BY <1>1, <1>2, OtherThreads DEF ResultInv, Answers
<1>5. EntryInv'
  BY <1>1 DEF IInv, EntryInv
<1>8. RanInv'
  BY <1>1, <1>2 DEF IInv, RanInv
<1>9. OneRunPerKey'
  BY <1>1, <1>2 DEF IInv, OneRunPerKey
<1>6. CountersAgree' /\ misses' \in 0..lookups'
  <2>1. CountersAgree' <=> lookups' = hits' + misses' + Cardinality(Pending')
    BY DEF CountersAgree, Pending
  <2>2. CASE pc[t] = "run"
    <3>1. t \in Pending
      BY <2>2 DEF Pending
    <3>2. Cardinality(Pending') = Cardinality(Pending) - 1 /\ Cardinality(Pending) >= 1
      BY <1>1, <1>2, <3>1, PendingLeaves
    <3> QED
      BY <1>1, <2>1, <2>2, <3>2, PendingFinite DEF IInv, TypeOK
  <2>3. CASE pc[t] = "bypass"
    <3>1. t \notin Pending
      BY <2>3 DEF Pending
    <3>2. Cardinality(Pending') = Cardinality(Pending)
      BY <1>1, <1>2, <3>1, PendingStays
    <3> QED
      BY <1>1, <2>1, <2>3, <3>2, PendingFinite DEF IInv, TypeOK
  <2> QED
    BY <1>1, <2>2, <2>3
<1>7. TypeOK'
  BY <1>1, <1>6, ModuleCacheAssumption DEF IInv, TypeOK
<1> QED
  BY <1>3, <1>4, <1>5, <1>6, <1>7, <1>8, <1>9 DEF IInv

(* The result is stored over whatever is there, or an INSERT is lost.        *)
LEMMA PutStep == \A t \in Threads : IInv /\ Put(t) => IInv'
<1> SUFFICES ASSUME NEW t \in Threads, IInv, Put(t) PROVE IInv'
  OBVIOUS
<1> DEFINE r == [result[t] EXCEPT !.stored = inval[call[t].host]]
<1>1. /\ pc[t] = "put" /\ pc' = [pc EXCEPT ![t] = "returned"]
      /\ \/ store' = [store EXCEPT ![key[t]] = r]
         \/ backend = "sqlite" /\ store' = store
      /\ UNCHANGED <<backend, lookups, hits, call, key, result, began, process, inval, ran,
                     misses, calls>>
  BY DEF Put, history
<1>2. PICK text \in Orders[call[t].args] :
        /\ key[t] = KeyOf(call[t], text)
        /\ key[t] \in Keys /\ call[t] \in Calls /\ call[t].module \in Cacheable
  BY <1>1 DEF IInv, CallInv, InPath
<1>3. Answers(result[t], t)
  BY <1>1 DEF IInv, ResultInv
<1>4. /\ r \in Results /\ r # NoEntry
      /\ r.call = call[t] /\ r.process = result[t].process /\ r.stored = inval[call[t].host]
  BY <1>2, <1>3, CallHost, NoEntryAssumption DEF Answers, Results, IInv, TypeOK
<1>5. \A u \in Threads : pc'[u] = (IF u = t THEN "returned" ELSE pc[u])
  BY <1>1 DEF IInv, TypeOK
<1>6. TypeOK'
  <2>1. store' \in [Keys -> Results \union {NoEntry}]
    BY <1>1, <1>2, <1>4 DEF IInv, TypeOK
  <2> QED
    BY <1>1, <2>1 DEF IInv, TypeOK
<1>7. \A k \in Keys : store'[k] = store[k] \/ (k = key[t] /\ store'[k] = r)
  BY <1>1, <1>2 DEF IInv, TypeOK
<1>8. CallInv'
  BY <1>1, <1>5, OtherThreads DEF IInv, CallInv, InPath
<1>9. ResultInv'
  BY <1>1, <1>3, <1>5, OtherThreads DEF ResultInv, Answers
<1>10. EntryInv'
  <2> SUFFICES ASSUME NEW k \in Keys, store'[k] # NoEntry
               PROVE  /\ store'[k].call.module = k.module /\ store'[k].call.host = k.host
                      /\ k.text \in Orders[store'[k].call.args]
                      /\ backend = "memory" => store'[k].process = process
                      /\ store'[k].stored = inval[k.host]
    BY <1>1 DEF EntryInv
  <2>1. CASE store'[k] = store[k]
    BY <2>1 DEF IInv, EntryInv
  <2>2. CASE k = key[t] /\ store'[k] = r
    BY <2>2, <1>2, <1>3, <1>4, KeyType DEF Answers
  <2> QED
    BY <2>1, <2>2, <1>7
<1>11. RanInv' /\ OneRunPerKey'
  <2>1. backend = "memory" => store'[key[t]] = r /\ \A k \in Keys : store[k] # NoEntry => store'[k] # NoEntry
    BY <1>1, <1>2, <1>4 DEF IInv, TypeOK
  <2> QED
    BY <1>1, <1>4, <1>5, <2>1 DEF IInv, RanInv, OneRunPerKey
<1>12. CountersAgree'
  <2>1. t \notin Pending
    BY <1>1 DEF Pending
  <2>2. Cardinality(Pending') = Cardinality(Pending)
    BY <1>1, <1>5, <2>1, PendingStays
  <2>3. CountersAgree' <=> lookups' = hits' + misses' + Cardinality(Pending')
    BY DEF CountersAgree, Pending
  <2> QED
    BY <1>1, <2>2, <2>3, PendingFinite DEF IInv
<1> QED
  BY <1>6, <1>8, <1>9, <1>10, <1>11, <1>12 DEF IInv

(* An invalidation drops the entries of its hosts and with them what was     *)
(* said of them; what threads hold is as old as it was.                      *)
LEMMA DropStep == \A H \in SUBSET Hosts : IInv /\ Drop(H) => IInv'
<1> SUFFICES ASSUME NEW H \in SUBSET Hosts, IInv, Drop(H) PROVE IInv'
  OBVIOUS
<1>1. /\ \A h \in H : inval[h] < MaxInvalidations
      /\ store' = [k \in Keys |-> IF k.host \in H THEN NoEntry ELSE store[k]]
      /\ inval' = [h \in Hosts |-> IF h \in H THEN inval[h] + 1 ELSE inval[h]]
      /\ ran' = {q \in ran : q[2].host \notin H}
      /\ UNCHANGED <<backend, lookups, hits, pc, call, key, result, began, process, misses,
                     calls>>
  BY DEF Drop, threadVars
<1>2. \A h \in Hosts : /\ inval[h] \in 0..MaxInvalidations
                       /\ inval'[h] \in 0..MaxInvalidations /\ inval'[h] >= inval[h]
  BY <1>1, ModuleCacheAssumption DEF IInv, TypeOK
<1>3. TypeOK'
  BY <1>1, <1>2 DEF IInv, TypeOK
<1>4. CallInv'
  BY <1>1, <1>2, CallHost, ModuleCacheAssumption DEF IInv, CallInv, TypeOK
<1>5. ResultInv'
  BY <1>1 DEF IInv, ResultInv, Answers
<1>6. EntryInv'
  BY <1>1, KeyHost DEF IInv, EntryInv
<1>7. RanInv' /\ OneRunPerKey'
  BY <1>1 DEF IInv, RanInv, OneRunPerKey
<1>8. CountersAgree'
  BY <1>1 DEF IInv, CountersAgree
<1> QED
  BY <1>3, <1>4, <1>5, <1>6, <1>7, <1>8 DEF IInv

(* A restart forgets every thread, and the entries unless they are a file.   *)
LEMMA RestartStep == IInv /\ Restart => IInv'
<1> SUFFICES ASSUME IInv, Restart PROVE IInv'
  OBVIOUS
<1> USE DEF Restart
<1>1. TypeOK'
  BY ModuleCacheAssumption DEF IInv, TypeOK
<1>2. CallInv' /\ ResultInv' /\ RanInv' /\ OneRunPerKey'
  BY DEF CallInv, ResultInv, RanInv, OneRunPerKey, InPath
<1>3. EntryInv'
  <2>1. CASE backend = "memory"
    BY <2>1 DEF EntryInv
  <2>2. CASE backend # "memory"
    BY <2>2 DEF IInv, EntryInv
  <2> QED
    BY <2>1, <2>2
<1>4. CountersAgree'
  <2>1. {t \in Threads : pc'[t] \in {"get", "hit", "run"}} = {}
    OBVIOUS
  <2> QED
    BY <2>1, FS_EmptySet DEF CountersAgree
<1> QED
  BY <1>1, <1>2, <1>3, <1>4 DEF IInv

(* Every step keeps the invariant. *)
LEMMA StepIInv == IInv /\ [Next]_vars => IInv'
<1> SUFFICES ASSUME IInv, [Next]_vars PROVE IInv'
  OBVIOUS
<1>1. CASE \E t \in Threads : Invoke(t)
  BY <1>1, BypassStep, CountStep, HitStep, MissStep, CountHitStep, RunStep, RunErrStep,
     PutStep DEF Invoke
<1>2. CASE InvalidateHost \/ ClearCache
  BY <1>2, DropStep DEF InvalidateHost, ClearCache
<1>3. CASE Restart
  BY <1>3, RestartStep
<1>4. CASE UNCHANGED vars
  BY <1>4 DEF vars, threadVars, history, IInv, TypeOK, CallInv, ResultInv, Answers, EntryInv,
              RanInv, OneRunPerKey, CountersAgree
<1> QED
  BY <1>1, <1>2, <1>3, <1>4 DEF Next

-----------------------------------------------------------------------------
(* The invariant holds in every reachable state. *)
THEOREM Invariance == Spec => []IInv
  BY InitIInv, StepIInv, PTL DEF Spec

(* Every variable of the cache keeps its type, and there are never more hits *)
(* than lookups.                                                             *)
THEOREM TypeCorrect == Spec => []TypeOK
<1>1. IInv => TypeOK
  BY DEF IInv
<1> QED
  BY <1>1, Invariance, PTL

(* What invoke returns belongs to the call and is not older than the last    *)
(* invalidation before it, for any number of threads.                        *)
THEOREM ResultsBelong == Spec => []ResultBelongs
<1>1. IInv => ResultBelongs
  BY DEF IInv, ResultInv, Answers, ResultBelongs
<1> QED
  BY <1>1, Invariance, PTL

(* In memory, between two invalidations of the host, a thread runs the       *)
(* module once for each text its arguments serialise to, and once for the    *)
(* arguments if they have a single text: a key is not run twice, and a       *)
(* thread that runs the module holds the key of one of its call's texts.     *)
THEOREM RunsOnce == Spec => []OneRunPerThread
<1>1. ASSUME IInv, backend = "memory", NEW t \in Threads, pc[t] = "run"
      PROVE  /\ key[t].text \notin RunBefore(t)
             /\ Orders[call[t].args] = {key[t].text} => RunBefore(t) = {}
  <2>1. PICK text \in Orders[call[t].args] : key[t] = KeyOf(call[t], text)
    BY <1>1 DEF IInv, CallInv, InPath
  <2>2. key[t].text = text
    BY <2>1 DEF KeyOf
  <2>3. <<t, KeyOf(call[t], text)>> \notin ran
    BY <1>1, <2>1 DEF IInv, OneRunPerKey
  <2> QED
    BY <2>2, <2>3 DEF RunBefore
<1>2. IInv => OneRunPerThread
  BY <1>1 DEF OneRunPerThread
<1> QED
  BY <1>2, Invariance, PTL

(* Lookups are hits, misses and calls under way, for any number of threads.  *)
THEOREM CountersCorrect == Spec => []CountersAgree
<1>1. IInv => CountersAgree
  BY DEF IInv
<1> QED
  BY <1>1, Invariance, PTL
=============================================================================
