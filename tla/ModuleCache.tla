---------------------------- MODULE ModuleCache -----------------------------
(* CachingModuleRegistry (ansiblers-modules/src/module_cache.rs): threads    *)
(* invoke modules through one registry that keeps the results of read-only   *)
(* modules.  Counting, looking up, running the module and storing its result *)
(* are separate steps under separate locks.  The store is a HashMap or an    *)
(* SQLite table, whose errors are ignored and which survives the process.    *)
(* The context of the caller, which only a module that runs writes, is left   *)
(* out.                                                                      *)
EXTENDS Naturals, FiniteSets

CONSTANTS Threads,
          Hosts,
          Cacheable, \* CACHEABLE_MODULES that are called
          Others,    \* modules called that are not cacheable
          Orders,    \* Orders[a]: the texts the arguments a may serialise to
          Backends,  \* subset of {"memory", "sqlite"}
          NoEntry,   \* absence of a key
          MaxCalls, MaxInvalidations, MaxProcesses \* bounds of one behaviour

ASSUME ModuleCacheAssumption ==
  /\ IsFiniteSet(Threads)
  /\ Cacheable \intersect Others = {}
  /\ \A a, b \in DOMAIN Orders : a # b => Orders[a] \intersect Orders[b] = {}
  /\ Backends \subseteq {"memory", "sqlite"}
  /\ {MaxCalls, MaxInvalidations} \subseteq Nat
  /\ MaxProcesses \in Nat \ {0}

VARIABLES backend,
          store,         \* the entries, by key
          lookups, hits, \* the two counters
          pc,            \* pc[t]: control state of thread t in invoke
          call,          \* call[t]: what t asked for
          key,           \* key[t]: the CacheKey it computed for that
          result,        \* result[t]: the TaskResult it holds
          process,       \* the process that is running
          inval,         \* inval[h]: invalidations of h that took effect
          began,         \* began[t]: inval of its host when t's call began
          ran,           \* <<t, k>>: t ran the module for k since k's host was
                         \* invalidated last
          misses,        \* cacheable modules run by this process
          calls          \* calls made so far

threadVars == <<pc, call, key, result, began>>
history == <<process, inval, ran, misses, calls>>
vars == <<backend, store, lookups, hits, threadVars, history>>

-----------------------------------------------------------------------------
Calls == [module : Cacheable \union Others, host : Hosts, args : DOMAIN Orders]

(* Mutant: the host is not part of the key. *)
KeyWithoutHost(c, text) ==
  [module |-> c.module, host |-> CHOOSE h \in Hosts : TRUE, text |-> text]

(* The arguments are a HashMap: equal maps may serialise in different orders *)
(* and then hash differently.  Two texts are taken never to collide.         *)
KeyOf(c, text) == [module |-> c.module, host |-> c.host, text |-> text]

Keys == {KeyOf(c, text) : c \in {c \in Calls : c.module \in Cacheable},
                          text \in UNION {Orders[a] : a \in DOMAIN Orders}}

(* A result, with the call and the process it was computed in, and the       *)
(* number of invalidations of the host when it was stored.                   *)
Results == [call : Calls, failed : BOOLEAN, process : 1..MaxProcesses,
            stored : 0..MaxInvalidations]

ASSUME NoEntryAssumption == NoEntry \notin Results

Init ==
  /\ backend \in Backends
  /\ store = [k \in Keys |-> NoEntry]
  /\ lookups = 0 /\ hits = 0
  /\ pc = [t \in Threads |-> "idle"]
  /\ call = [t \in Threads |-> NoEntry]
  /\ key = [t \in Threads |-> NoEntry]
  /\ result = [t \in Threads |-> NoEntry]
  /\ process = 1
  /\ inval = [h \in Hosts |-> 0]
  /\ began = [t \in Threads |-> 0]
  /\ ran = {}
  /\ misses = 0
  /\ calls = 0

-----------------------------------------------------------------------------
(* invoke, step by step. *)

Begin(t, c) ==
  /\ pc[t] \in {"idle", "returned"}
  /\ calls < MaxCalls
  /\ calls' = calls + 1
  /\ call' = [call EXCEPT ![t] = c]
  /\ result' = [result EXCEPT ![t] = NoEntry]
  /\ began' = [began EXCEPT ![t] = inval[c.host]]
  /\ UNCHANGED <<backend, store, hits, process, inval, ran, misses>>

(* Mutant: a call that is not cached is counted as a lookup. *)
BypassCounted(t) ==
  \E c \in Calls :
    /\ c.module \notin Cacheable
    /\ Begin(t, c)
    /\ pc' = [pc EXCEPT ![t] = "bypass"]
    /\ key' = [key EXCEPT ![t] = NoEntry]
    /\ lookups' = lookups + 1

(* A module that is not cacheable goes to the inner registry. *)
Bypass(t) ==
  \E c \in Calls :
    /\ c.module \notin Cacheable
    /\ Begin(t, c)
    /\ pc' = [pc EXCEPT ![t] = "bypass"]
    /\ key' = [key EXCEPT ![t] = NoEntry]
    /\ UNCHANGED lookups

(* Compute the key and count the lookup. *)
Count(t) ==
  \E c \in Calls : \E text \in Orders[c.args] :
    /\ c.module \in Cacheable
    /\ Begin(t, c)
    /\ pc' = [pc EXCEPT ![t] = "get"]
    /\ key' = [key EXCEPT ![t] = KeyOf(c, text)]
    /\ lookups' = lookups + 1

Hit(t) ==
  /\ pc[t] = "get"
  /\ store[key[t]] # NoEntry
  /\ result' = [result EXCEPT ![t] = store[key[t]]]
  /\ pc' = [pc EXCEPT ![t] = "hit"]
  /\ UNCHANGED <<backend, store, lookups, hits, call, key, began, history>>

(* No entry, or a row SQLite did not read. *)
Miss(t) ==
  /\ pc[t] = "get"
  /\ store[key[t]] = NoEntry \/ backend = "sqlite"
  /\ pc' = [pc EXCEPT ![t] = "run"]
  /\ UNCHANGED <<backend, store, lookups, hits, call, key, result, began, history>>

(* Mutant: the hit is counted where it is found and where it is returned. *)
CountHitTwice(t) ==
  /\ pc[t] = "hit"
  /\ hits' = hits + 2
  /\ pc' = [pc EXCEPT ![t] = "returned"]
  /\ UNCHANGED <<backend, store, lookups, call, key, result, began, history>>

(* Count the hit and return the cached result. *)
CountHit(t) ==
  /\ pc[t] = "hit"
  /\ hits' = hits + 1
  /\ pc' = [pc EXCEPT ![t] = "returned"]
  /\ UNCHANGED <<backend, store, lookups, call, key, result, began, history>>

(* The module returns a result, failed or not. *)
Run(t) ==
  /\ pc[t] \in {"run", "bypass"}
  /\ \E f \in BOOLEAN :
       result' = [result EXCEPT ![t] =
                    [call |-> call[t], failed |-> f, process |-> process,
                     stored |-> inval[call[t].host]]]
  /\ pc' = [pc EXCEPT ![t] = IF pc[t] = "run" THEN "put" ELSE "returned"]
  /\ IF pc[t] = "run" THEN ran' = ran \union {<<t, key[t]>>} /\ misses' = misses + 1
                      ELSE UNCHANGED <<ran, misses>>
  /\ UNCHANGED <<backend, store, lookups, hits, call, key, began, process, inval,
                 calls>>

(* `?`: an Err of the module is not stored. *)
RunErr(t) ==
  /\ pc[t] \in {"run", "bypass"}
  /\ pc' = [pc EXCEPT ![t] = "idle"]
  /\ call' = [call EXCEPT ![t] = NoEntry]
  /\ key' = [key EXCEPT ![t] = NoEntry]
  /\ began' = [began EXCEPT ![t] = 0]
  /\ misses' = IF pc[t] = "run" THEN misses + 1 ELSE misses
  /\ UNCHANGED <<backend, store, lookups, hits, result, process, inval, ran, calls>>

(* Mutant: only a result that did not fail is stored. *)
PutUnlessFailed(t) ==
  /\ pc[t] = "put"
  /\ LET r == [result[t] EXCEPT !.stored = inval[call[t].host]]
     IN \/ r.failed /\ UNCHANGED store
        \/ ~r.failed /\ store' = [store EXCEPT ![key[t]] = r]
        \/ backend = "sqlite" /\ UNCHANGED store
  /\ pc' = [pc EXCEPT ![t] = "returned"]
  /\ UNCHANGED <<backend, lookups, hits, call, key, result, began, history>>

(* Store the result over whatever another thread has stored, and return it.  *)
(* An INSERT that fails goes unnoticed.                                      *)
Put(t) ==
  /\ pc[t] = "put"
  /\ LET r == [result[t] EXCEPT !.stored = inval[call[t].host]]
     IN \/ store' = [store EXCEPT ![key[t]] = r]
        \/ backend = "sqlite" /\ UNCHANGED store
  /\ pc' = [pc EXCEPT ![t] = "returned"]
  /\ UNCHANGED <<backend, lookups, hits, call, key, result, began, history>>

Invoke(t) ==
  \/ Bypass(t)
  \/ Count(t)
  \/ Hit(t)
  \/ Miss(t)
  \/ CountHit(t)
  \/ Run(t)
  \/ RunErr(t)
  \/ Put(t)

-----------------------------------------------------------------------------
(* invalidate_host for one host, clear_cache for all of them, at any moment  *)
(* of the threads' calls; a DELETE that fails has no effect.                 *)
Drop(H) ==
  /\ \A h \in H : inval[h] < MaxInvalidations
  /\ store' = [k \in Keys |-> IF k.host \in H THEN NoEntry ELSE store[k]]
  /\ inval' = [h \in Hosts |-> IF h \in H THEN inval[h] + 1 ELSE inval[h]]
  /\ ran' = {r \in ran : r[2].host \notin H}
  /\ UNCHANGED <<backend, lookups, hits, threadVars, process, misses, calls>>

InvalidateHost == \E h \in Hosts : Drop({h})
ClearCache == Drop(Hosts)

(* The process ends, at any moment, and another one opens the same cache.    *)
Restart ==
  /\ process < MaxProcesses
  /\ process' = process + 1
  /\ IF backend = "memory" THEN store' = [k \in Keys |-> NoEntry]
                           ELSE UNCHANGED store
  /\ lookups' = 0 /\ hits' = 0 /\ misses' = 0
  /\ ran' = {}
  /\ pc' = [t \in Threads |-> "idle"]
  /\ call' = [t \in Threads |-> NoEntry]
  /\ key' = [t \in Threads |-> NoEntry]
  /\ result' = [t \in Threads |-> NoEntry]
  /\ began' = [t \in Threads |-> 0]
  /\ UNCHANGED <<backend, inval, calls>>

Next ==
  \/ \E t \in Threads : Invoke(t)
  \/ InvalidateHost
  \/ ClearCache
  \/ Restart

Spec == Init /\ [][Next]_vars

-----------------------------------------------------------------------------
(* Every variable keeps its type; no more hits than lookups. *)
TypeOK ==
  /\ backend \in Backends
  /\ store \in [Keys -> Results \union {NoEntry}]
  /\ lookups \in Nat
  /\ hits \in 0..lookups
  /\ pc \in [Threads -> {"idle", "get", "hit", "run", "bypass", "put",
                         "returned"}]
  /\ call \in [Threads -> Calls \union {NoEntry}]
  /\ key \in [Threads -> Keys \union {NoEntry}]
  /\ result \in [Threads -> Results \union {NoEntry}]
  /\ began \in [Threads -> 0..MaxInvalidations]
  /\ process \in 1..MaxProcesses
  /\ inval \in [Hosts -> 0..MaxInvalidations]
  /\ ran \subseteq Threads \X Keys
  /\ misses \in 0..lookups

(* What invoke returns was computed by the same module for the same host and *)
(* arguments; by this process, unless the store is a file; and it was stored *)
(* after every invalidation of the host that was over when the call began.   *)
(* It may have been computed before: a call that was running its module      *)
(* while the host was invalidated stores its result afterwards.              *)
ResultBelongs ==
  \A t \in Threads : pc[t] = "returned" =>
    /\ result[t].call = call[t]
    /\ backend = "memory" => result[t].process = process
    /\ result[t].stored >= began[t]

(* The texts of thread t's call for which it ran the module since the host   *)
(* was invalidated last.                                                     *)
RunBefore(t) ==
  {text \in Orders[call[t].args] : <<t, KeyOf(call[t], text)>> \in ran}

(* "Two tasks calling the same module with the same arguments on the same    *)
(* host receive the same result without re-executing" (module_cache.rs:16)   *)
(* is more than the code does: equal arguments may have several texts, as    *)
(* many keys, and one thread then runs the module again.  What it keeps, up  *)
(* to the race of threads that miss together: until the host is invalidated  *)
(* a thread runs the module, failed or not, once for each text of the        *)
(* arguments; once altogether, as promised, for arguments with one text.     *)
OneRunPerThread ==
  backend = "memory" =>
    \A t \in Threads : pc[t] = "run" =>
      /\ key[t].text \notin RunBefore(t)
      /\ Orders[call[t].args] = {key[t].text} => RunBefore(t) = {}

(* Every lookup is a hit, a run of the module, or a call still under way;    *)
(* no interleaving loses or invents one.                                     *)
CountersAgree ==
  lookups = hits + misses + Cardinality({t \in Threads : pc[t] \in {"get", "hit", "run"}})
=============================================================================
