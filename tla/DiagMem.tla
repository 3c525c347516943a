------------------------------ MODULE DiagMem ------------------------------
(***************************************************************************)
(* diagmem.c: the memory pools of the diag driver.  Each has a counter of  *)
(* the buffers out.  Only the allocation from the copy pool takes the      *)
(* mutex; tests and updates of the counters are otherwise apart.           *)
(***************************************************************************)
EXTENDS Integers, FiniteSets

CONSTANTS Threads,      \* clients of the driver, and what completes their writes
          NoThread,
          PoolSize      \* poolsize, poolsize_hdlc and poolsize_write_struct
ASSUME ThreadsFinite == IsFiniteSet(Threads) /\ NoThread \notin Threads
ASSUME PoolSizePositive == PoolSize \in Nat \ {0}

Pools == {"copy", "hdlc", "struct"}

VARIABLES
  pool,         \* pool[p]: the pool exists
  count,        \* count[p]: count, count_hdlc_pool, count_write_struct_pool
  out,          \* out[p]: buffers out
  open,         \* the threads that have the device open: ref_count of them
  mutex,        \* holder of diagmem_mutex
  chr,          \* holder of diagchar_mutex, under which the device opens and closes
  at, arg,      \* at[t], arg[t]: where thread t is, and in which pool
  raced         \* history: the device was opened between a test and its destruction

vars == <<pool, count, out, open, mutex, chr, at, arg, raced>>

TypeOK ==
  /\ pool \in [Pools -> BOOLEAN] /\ count \in [Pools -> Nat] /\ out \in [Pools -> Nat]
  /\ open \in SUBSET Threads
  /\ mutex \in Threads \cup {NoThread} /\ chr \in Threads \cup {NoThread}
  /\ at \in [Threads -> {"idle", "count", "take", "drop", "exit", "destroy"}]
  /\ arg \in [Threads -> Pools] /\ raced \in BOOLEAN

Init ==
  /\ pool = [p \in Pools |-> FALSE]
  /\ count = [p \in Pools |-> 0] /\ out = [p \in Pools |-> 0]
  /\ open = {} /\ mutex = NoThread /\ chr = NoThread
  /\ at = [t \in Threads |-> "idle"] /\ arg = [t \in Threads |-> "copy"]
  /\ raced = FALSE

Goes(t, step, p) == at' = [at EXCEPT ![t] = step] /\ arg' = [arg EXCEPT ![t] = p]

RacesExit == raced' = (raced \/ \E u \in Threads : at[u] = "destroy")

\* Mutant: the first opening resets the counters.
OpenResets(t) ==
  /\ RacesExit
  /\ at[t] = "idle" /\ t \notin open /\ chr = NoThread
  /\ open' = open \cup {t}
  /\ pool' = IF open = {} THEN [p \in Pools |-> TRUE] ELSE pool
  /\ count' = IF open = {} THEN [p \in Pools |-> 0] ELSE count
  /\ UNCHANGED <<out, mutex, chr, at, arg>>

\* Opening the device: the first one runs diagmem_init, which makes the pools of
\* which no buffer is counted.
Open(t) ==
  /\ RacesExit
  /\ at[t] = "idle" /\ t \notin open /\ chr = NoThread
  /\ open' = open \cup {t}
  /\ pool' = IF open = {} THEN [p \in Pools |-> pool[p] \/ count[p] = 0] ELSE pool
  /\ UNCHANGED <<count, out, mutex, chr, at, arg>>

\* Closing it: diagmem_exit.
Close(t) ==
  /\ at[t] = "idle" /\ t \in open /\ chr = NoThread
  /\ open' = open \ {t} /\ chr' = t
  /\ Goes(t, "exit", "copy")
  /\ UNCHANGED <<pool, count, out, mutex, raced>>

-----------------------------------------------------------------------------
\* Mutant: no pool takes the mutex.
LocksNothing(p) == FALSE

Locks(p) == p = "copy"

\* Mutant: one buffer too many.
RoomAtEnd(p) == count[p] <= PoolSize

Room(p) == count[p] < PoolSize

\* diagmem_alloc: the test of the counter, its increment, and mempool_alloc, which
\* may find no memory and leaves the buffer counted.
AllocTest(t, p) ==
  /\ at[t] = "idle" /\ t \in open /\ pool[p]
  /\ Room(p)
  /\ IF Locks(p) THEN mutex = NoThread /\ mutex' = t ELSE UNCHANGED mutex
  /\ Goes(t, "count", p)
  /\ UNCHANGED <<pool, count, out, open, chr, raced>>

AllocCount(t) ==
  /\ at[t] = "count"
  /\ count' = [count EXCEPT ![arg[t]] = @ + 1]
  /\ Goes(t, "take", arg[t])
  /\ UNCHANGED <<pool, out, open, mutex, chr, raced>>

AllocTake(t) ==
  /\ at[t] = "take"
  /\ \/ out' = [out EXCEPT ![arg[t]] = @ + 1]
     \/ UNCHANGED out
  /\ mutex' = IF mutex = t THEN NoThread ELSE mutex
  /\ Goes(t, "idle", arg[t])
  /\ UNCHANGED <<pool, count, open, chr, raced>>

Frees(p) == pool[p] /\ count[p] > 0

\* diagmem_free, by whoever got the buffer: the buffer goes, then the counter,
\* then diagmem_exit.
FreeBuffer(t, p) ==
  /\ at[t] = "idle" /\ out[p] > 0
  /\ IF Frees(p)
     THEN Goes(t, "drop", p) /\ out' = [out EXCEPT ![p] = @ - 1]
     ELSE Goes(t, "exit", "copy") /\ UNCHANGED out
  /\ UNCHANGED <<pool, count, open, mutex, chr, raced>>

FreeCount(t) ==
  /\ at[t] = "drop"
  /\ count' = [count EXCEPT ![arg[t]] = @ - 1]
  /\ Goes(t, "exit", "copy")
  /\ UNCHANGED <<pool, out, open, mutex, chr, raced>>

-----------------------------------------------------------------------------
\* Mutant: the struct pool goes without regard to the HDLC buffers.
UnusedAlone(p) == count[p] = 0 /\ open = {}

\* "Free up struct pool ONLY if there are no outstanding transactions".
Unused(p) == count[p] = 0 /\ (p = "struct" => count["hdlc"] = 0) /\ open = {}

\* diagmem_exit: each pool in turn is tested, and destroyed.
NextPool(t, p) ==
  /\ CASE p = "copy" -> Goes(t, "exit", "hdlc")
       [] p = "hdlc" -> Goes(t, "exit", "struct")
       [] p = "struct" -> Goes(t, "idle", "copy")
  /\ chr' = IF p = "struct" /\ chr = t THEN NoThread ELSE chr

ExitTest(t) ==
  /\ at[t] = "exit"
  /\ IF pool[arg[t]] /\ Unused(arg[t])
     THEN Goes(t, "destroy", arg[t]) /\ UNCHANGED chr
     ELSE NextPool(t, arg[t])
  /\ UNCHANGED <<pool, count, out, open, mutex, raced>>

ExitDestroy(t) ==
  /\ at[t] = "destroy"
  /\ pool' = [pool EXCEPT ![arg[t]] = FALSE]
  /\ NextPool(t, arg[t])
  /\ UNCHANGED <<count, out, open, mutex, raced>>

Next == \E t \in Threads :
  \/ Open(t) \/ Close(t) \/ AllocCount(t) \/ AllocTake(t) \/ FreeCount(t)
  \/ ExitTest(t) \/ ExitDestroy(t)
  \/ \E p \in Pools : AllocTest(t, p) \/ FreeBuffer(t, p)

Spec == Init /\ [][Next]_vars

-----------------------------------------------------------------------------
\* The copy pool, whose allocation holds the mutex from the test to the buffer, is
\* never overdrawn, though buffers are freed without the mutex.
CopyWithinPool == count["copy"] <= PoolSize

\* The other pools are overdrawn by no more than the threads that tested at once.
OvershootBounded ==
  \A p \in Pools : count[p] <= PoolSize + Cardinality(Threads) - 1

\* A counter never falls below the buffers out: a pool with a counter of zero has
\* none, and diagmem_exit may rely on it.
CountCoversBuffers == \A p \in Pools : count[p] >= out[p]

\* "Free up struct pool ONLY if there are no outstanding transactions
\* (aggregation buffer) with USB", HDLC buffers and write structs; not so once the
\* device was opened between the test of the counters and the destruction.
OutstandingKeepsPool ==
  out["struct"] > 0 \/ out["hdlc"] > 0 => pool["struct"] \/ raced
=============================================================================
