------------------------------- MODULE FanOut -------------------------------
(* The threaded strategies of ansiblers-executor/src/strategy.rs:            *)
(*   free   execute_free                    one OS thread per host           *)
(*   batch  execute_batched                 chunks of `batch_size` threads   *)
(*   async  execute_tasks_multi_host_async  chunks of blocking Tokio tasks   *)
(* One main process (the caller's thread) spawns the threads of a chunk,     *)
(* joins them in host order and merges what they published; the threads      *)
(* interleave freely with it and with each other.  A host is its position in *)
(* the `hosts` argument, a node is a task or a block of the play, and what   *)
(* the executor does to a node is a nondeterministic outcome (see TaskRunner *)
(* and BlockWalk).                                                           *)
EXTENDS Nodes, FiniteSets

CONSTANTS Modes,     \* strategies to start from
          BatchArgs  \* values of the batch size argument

ASSUME FanOutAssumption ==
  /\ Modes \subseteq {"free", "batch", "async"}
  /\ BatchArgs \subseteq Nat

VARIABLES mode,       \* strategy of this call
          batchArg,   \* its batch size argument (0 for free, which has none)
          main,       \* control state of the calling thread
          lo,         \* hosts of the chunks already merged
          spawned,    \* threads of the current chunk spawned so far
          joined,     \* threads of the current chunk joined so far
          given,      \* host_states as the caller passed it
          hostStates, \* host_states as the caller sees it now
          allResults, \* the results main has collected
          pc,         \* pc[h]: control state of the thread of h
          state,      \* state[h]: the thread's own HostState
          results,    \* results[h]: the thread's own host_results
          reg,        \* reg[h]: who wrote the registered variable of h's ctx
          sharedResults, \* the map behind results_ref
          sharedStates   \* the map behind states_ref

mainVars   == <<main, lo, spawned, joined>>
callVars   == <<mode, batchArg, given>>
outVars    == <<hostStates, allResults>>
threadVars == <<pc, state, results, reg>>
sharedVars == <<sharedResults, sharedStates>>
vars == <<mainVars, callVars, outVars, threadVars, sharedVars>>

-----------------------------------------------------------------------------
(* `free` is one chunk of all hosts; `batch` clamps its argument to 1; the   *)
(* async path hands its argument to chunks() as it is.                       *)
BatchSize == IF mode = "free" THEN NHosts
             ELSE IF mode = "batch" /\ batchArg = 0 THEN 1
             ELSE batchArg

(* Mutant: the hosts are not split into chunks. *)
ChunkLenUnsplit == NHosts - lo

ChunkLen == IF lo + BatchSize <= NHosts THEN BatchSize ELSE NHosts - lo
Chunk == (lo + 1)..(lo + ChunkLen)

(* Mutant: every strategy starts its threads as `free` does. *)
StartStateFresh(h) == Fresh

(* The HostState a new thread starts from: `free` ignores the caller's. *)
StartState(h) == IF mode = "free" THEN Fresh ELSE hostStates[h]

Init ==
  /\ mode \in Modes
  /\ batchArg \in IF mode = "free" THEN {0} ELSE BatchArgs
  /\ main = "spawn"
  /\ lo = 0 /\ spawned = 0 /\ joined = 0
  /\ given \in [Hosts -> {Fresh, FailedBefore}]
  /\ hostStates = given
  /\ allResults = [h \in Hosts |-> NoEntry]
  /\ pc = [h \in Hosts |-> "none"]
  /\ state = [h \in Hosts |-> Fresh]
  /\ results = [h \in Hosts |-> <<>>]
  /\ reg = [h \in Hosts |-> 0]
  /\ sharedResults = [h \in Hosts |-> NoEntry]
  /\ sharedStates = [h \in Hosts |-> IF mode = "free" THEN given[h] ELSE NoEntry]

-----------------------------------------------------------------------------
(* The calling thread. *)

(* slice::chunks panics when the chunk size is zero. *)
PanicOnZeroChunk ==
  /\ main = "spawn" /\ lo = 0 /\ spawned = 0
  /\ mode = "async" /\ batchArg = 0
  /\ main' = "panic"
  /\ UNCHANGED <<lo, spawned, joined, callVars, outVars, threadVars, sharedVars>>

(* Clone the context, the node list and the HostState, and start the thread. *)
Spawn ==
  /\ main = "spawn"
  /\ spawned < ChunkLen
  /\ LET h == lo + spawned + 1
     IN /\ pc' = [pc EXCEPT ![h] = "run"]
        /\ state' = [state EXCEPT ![h] = StartState(h)]
  /\ spawned' = spawned + 1
  /\ main' = IF spawned' = ChunkLen THEN "join" ELSE "spawn"
  /\ UNCHANGED <<lo, joined, callVars, outVars, results, reg, sharedVars>>

(* Mutant: a thread is taken for joined once its results are published. *)
JoinOkEarly ==
  /\ main = "join" /\ joined < ChunkLen
  /\ pc[lo + joined + 1] \in {"publish", "done"}
  /\ joined' = joined + 1
  /\ UNCHANGED <<main, lo, spawned, callVars, outVars, threadVars, sharedVars>>

JoinOk ==
  /\ main = "join"
  /\ joined < ChunkLen
  /\ pc[lo + joined + 1] = "done"
  /\ joined' = joined + 1
  /\ UNCHANGED <<main, lo, spawned, callVars, outVars, threadVars, sharedVars>>

(* Mutant: what the hosts of the broken chunk have published is merged.      *)
JoinErrMerges ==
  /\ main = "join" /\ joined < ChunkLen
  /\ pc[lo + joined + 1] = "error"
  /\ main' = "err"
  /\ hostStates' = [h \in Hosts |-> IF h \in Chunk /\ sharedStates[h] # NoEntry
                                    THEN sharedStates[h] ELSE hostStates[h]]
  /\ UNCHANGED <<lo, spawned, joined, callVars, allResults, threadVars, sharedVars>>

(* Mutant: the Err is swallowed and the handle is not counted as joined.     *)
JoinErrSwallowed ==
  /\ main = "join" /\ joined < ChunkLen
  /\ pc[lo + joined + 1] = "error"
  /\ UNCHANGED vars

(* `?` on a thread's Err (or panic): return at once.  The other threads of   *)
(* the chunk are detached and what they have published is dropped.           *)
JoinErr ==
  /\ main = "join"
  /\ joined < ChunkLen
  /\ pc[lo + joined + 1] = "error"
  /\ main' = "err"
  /\ UNCHANGED <<lo, spawned, joined, callVars, outVars, threadVars, sharedVars>>

(* Mutant: the handles of the chunk are not forgotten. *)
MergeChunkKeepsHandles ==
  /\ main = "join" /\ joined = ChunkLen
  /\ lo' = lo + ChunkLen
  /\ spawned' = 0
  /\ main' = "spawn"
  /\ UNCHANGED <<joined, callVars, outVars, threadVars, sharedVars>>

(* Every handle of the chunk is joined.  `free` and `batch` unwrap the maps  *)
(* of the chunk and merge them; `async` keeps filling the same two maps.     *)
MergeChunk ==
  /\ main = "join"
  /\ joined = ChunkLen
  /\ IF mode = "async"
     THEN UNCHANGED outVars
     ELSE /\ allResults' = [h \in Hosts |-> IF h \in Chunk THEN sharedResults[h]
                                                           ELSE allResults[h]]
          /\ hostStates' = [h \in Hosts |-> IF h \in Chunk THEN sharedStates[h]
                                                           ELSE hostStates[h]]
  /\ lo' = lo + ChunkLen
  /\ spawned' = 0 /\ joined' = 0
  /\ main' = "spawn"
  /\ UNCHANGED <<callVars, threadVars, sharedVars>>

(* No chunk is left: return Ok. *)
ReturnOk ==
  /\ main = "spawn"
  /\ lo = NHosts
  /\ ~(mode = "async" /\ batchArg = 0)
  /\ main' = "ok"
  /\ IF mode = "async"
     THEN allResults' = sharedResults /\ hostStates' = sharedStates
     ELSE UNCHANGED outVars
  /\ UNCHANGED <<lo, spawned, joined, callVars, threadVars, sharedVars>>

Main ==
  \/ PanicOnZeroChunk
  \/ Spawn
  \/ JoinOk
  \/ JoinErr
  \/ MergeChunk
  \/ ReturnOk

-----------------------------------------------------------------------------
(* The thread of host h. *)

(* Mutant: the loop does not break on a failed host. *)
HasNodeAlways(h) == Len(results[h]) < NNodes

HasNode(h) == IsActive(state[h]) /\ Len(results[h]) < NNodes

(* Mutant: the threads share one context. *)
RunNodeSharedContext(h) ==
  /\ pc[h] = "run" /\ HasNode(h)
  /\ LET n == Len(results[h]) + 1
     IN \E o \in OutcomesOf(n) :
          /\ results' = [results EXCEPT ![h] = Append(@, [out |-> o, saw |-> reg[h]])]
          /\ state' = [state EXCEPT ![h] = Count(@, o)]
          /\ reg' = [g \in Hosts |-> Writer(n, o, h, reg[g])]
  /\ UNCHANGED <<pc, mainVars, callVars, outVars, sharedVars>>

(* One turn of `for task_node in &tasks`. *)
RunNode(h) ==
  /\ pc[h] = "run"
  /\ HasNode(h)
  /\ LET n == Len(results[h]) + 1
     IN \E o \in OutcomesOf(n) :
          /\ results' = [results EXCEPT ![h] = Append(@, [out |-> o, saw |-> reg[h]])]
          /\ state' = [state EXCEPT ![h] = Count(@, o)]
          /\ reg' = [reg EXCEPT ![h] = Writer(n, o, h, @)]
  /\ UNCHANGED <<pc, mainVars, callVars, outVars, sharedVars>>

(* executor.run returned Err, or panicked: nothing is published. *)
NodeErr(h) ==
  /\ pc[h] = "run"
  /\ HasNode(h)
  /\ pc' = [pc EXCEPT ![h] = "error"]
  /\ UNCHANGED <<state, results, reg, mainVars, callVars, outVars, sharedVars>>

PublishResults(h) ==
  /\ pc[h] = "run"
  /\ ~HasNode(h)
  /\ sharedResults' = [sharedResults EXCEPT ![h] = results[h]]
  /\ pc' = [pc EXCEPT ![h] = "publish"]
  /\ UNCHANGED <<state, results, reg, mainVars, callVars, outVars, sharedStates>>

(* The second map has its own lock; the closure ends and drops its Arcs. *)
PublishState(h) ==
  /\ pc[h] = "publish"
  /\ sharedStates' = [sharedStates EXCEPT ![h] = state[h]]
  /\ pc' = [pc EXCEPT ![h] = "done"]
  /\ UNCHANGED <<state, results, reg, mainVars, callVars, outVars, sharedResults>>

Thread(h) ==
  \/ RunNode(h)
  \/ NodeErr(h)
  \/ PublishResults(h)
  \/ PublishState(h)

Next == Main \/ \E h \in Hosts : Thread(h)

Spec == Init /\ [][Next]_vars

(* The operating system runs every runnable thread, and every module         *)
(* invocation returns.                                                       *)
Fairness == WF_vars(Main) /\ \A h \in Hosts : WF_vars(Thread(h))
FairSpec == Spec /\ Fairness
-----------------------------------------------------------------------------
(* Properties. *)

Returned == {"ok", "err", "panic"}
Live == {"run", "publish"}


(* Every variable keeps its type; the cursor of main stays inside the chunk. *)
TypeOK ==
  /\ mode \in Modes
  /\ batchArg \in BatchArgs \union {0}
  /\ main \in {"spawn", "join"} \union Returned
  /\ lo \in 0..NHosts
  /\ spawned \in 0..ChunkLen
  /\ joined \in 0..spawned
  /\ given \in [Hosts -> HostStates]
  /\ hostStates \in [Hosts -> HostStates]
  /\ allResults \in [Hosts -> Seq(Entries) \union {NoEntry}]
  /\ pc \in [Hosts -> {"none", "run", "publish", "done", "error"}]
  /\ state \in [Hosts -> HostStates]
  /\ results \in [Hosts -> Seq(Entries)]
  /\ reg \in [Hosts -> 0..NHosts]
  /\ sharedResults \in [Hosts -> Seq(Entries) \union {NoEntry}]
  /\ sharedStates \in [Hosts -> HostStates \union {NoEntry}]

(* "Batch(n): like Free but at most n hosts run concurrently": the threads   *)
(* alive at one time never exceed the batch size, not even after the call    *)
(* has given up on a chunk and returned.                                     *)
ConcurrencyBound ==
  Cardinality({h \in Hosts : pc[h] \in Live}) <= BatchSize

(* Arc::try_unwrap never fails: when main takes the shared maps apart, every *)
(* thread that holds a clone of them has ended, and each of those threads    *)
(* has published both its results and its HostState.                         *)
UnwrapSucceeds ==
  LET Settled(H) == \A h \in H : /\ pc[h] = "done"
                                 /\ sharedResults[h] = results[h]
                                 /\ sharedStates[h] = state[h]
  IN /\ main = "join" /\ joined = ChunkLen => Settled(Chunk)
     /\ main = "spawn" => Settled(1..lo)

(* Ok is returned only with the whole story of every host: its results up to *)
(* the last node or to the node that left it failed, and a HostState whose   *)
(* flag and counters are those of the results reported beside it.            *)
OkReportsTheRun ==
  main = "ok" => \A h \in Hosts :
       /\ allResults[h] = results[h]
       /\ \/ Len(results[h]) = NNodes
          \/ hostStates[h].failed
       /\ hostStates[h].failed <=>
            \/ Times(results[h], Fatal) = 1
            \/ given[h].failed /\ mode # "free"
       /\ hostStates[h].changed = Times(results[h], {"changed"})
       /\ hostStates[h].ok = Times(results[h], {"ok", "skipped"})

(* An Err leaves the caller's host_states exactly at the last chunk that was *)
(* merged (`batch`), or untouched (`free`, `async`), although the hosts of   *)
(* the broken chunk have run; and only hosts of that chunk may still be      *)
(* running when the call has returned.                                       *)
ErrKeepsMergedChunks ==
  main = "err" =>
    /\ \A h \in Hosts : hostStates[h] = IF mode = "batch" /\ h <= lo
                                         THEN state[h] ELSE given[h]
    /\ \E h \in Chunk : pc[h] = "error"
    /\ {h \in Hosts : pc[h] \in Live} \subseteq Chunk

(* PHASES.md, "Register variable isolation per-host": a node of host h only  *)
(* ever sees a registered variable that h itself wrote, or that was there    *)
(* before the call.                                                          *)
RegisterIsolation ==
  \A h \in Hosts : \A i \in DOMAIN results[h] : results[h][i].saw \in {0, h}

(* The call returns, and every thread it started ends, even the detached     *)
(* ones of a call that returned Err.                                         *)
CallReturns ==
  /\ <>(main \in Returned)
  /\ <>[](\A h \in Hosts : pc[h] \notin Live)

(* The fan-out implements HostRuns: what main does with chunks, joins and    *)
(* maps is invisible, except that Ok comes with every host's complete run.   *)
HR == INSTANCE HostRuns WITH
        down    <- {h \in Hosts : mode # "free" /\ given[h].failed},
        runs    <- [h \in Hosts |-> Outs(results[h])],
        broken  <- {h \in Hosts : pc[h] = "error"},
        verdict <- IF main \in Returned THEN main ELSE "none",
        report  <- [h \in Hosts |-> IF main = "ok" THEN Outs(allResults[h])
                                                  ELSE NoEntry]

ImplementsHostRuns == HR!Spec
=============================================================================
