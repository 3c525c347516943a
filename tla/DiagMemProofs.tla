--------------------------- MODULE DiagMemProofs ---------------------------
(***************************************************************************)
(* Theorems about DiagMem, for every number of threads and every pool size. *)
(***************************************************************************)
EXTENDS DiagMem, FiniteSetTheorems, TLAPS

\* The threads that counted a buffer they have not got yet, or that freed one and
\* count it still; and those that passed the test of the counter.
Owed(p) == {t \in Threads : at[t] \in {"take", "drop"} /\ arg[t] = p}
Counting(p) == {t \in Threads : at[t] = "count" /\ arg[t] = p}

\* Whoever allocates from the copy pool holds the mutex, and until it counts the
\* test it made still holds.
CopyHeld ==
  /\ \A t \in Threads : at[t] \in {"count", "take"} /\ arg[t] = "copy" => mutex = t
  /\ \A t \in Threads : at[t] = "count" /\ arg[t] = "copy" => count["copy"] < PoolSize

Covered == \A p \in Pools : count[p] >= out[p] + Cardinality(Owed(p))
Reserved ==
  \A p \in Pools : count[p] + Cardinality(Counting(p)) <= PoolSize + Cardinality(Threads) - 1

Inv == TypeOK /\ CopyHeld /\ CopyWithinPool /\ Covered /\ Reserved

One(b) == IF b THEN 1 ELSE 0

LEMMA Resized ==
  ASSUME NEW S \in SUBSET Threads, NEW t \in Threads, NEW b \in BOOLEAN,
         NEW T, T = IF b THEN S \cup {t} ELSE S \ {t}
  PROVE  /\ Cardinality(S) \in Nat /\ Cardinality(T) \in Nat
         /\ Cardinality(Threads) \in Nat /\ Cardinality(T) <= Cardinality(Threads)
         /\ Cardinality(T) = Cardinality(S) + One(b) - One(t \in S)
<1>1. IsFiniteSet(S) /\ IsFiniteSet(Threads) /\ T \in SUBSET Threads
  BY ThreadsFinite, FS_Subset
<1>2. /\ Cardinality(S) \in Nat /\ Cardinality(T) \in Nat
      /\ Cardinality(Threads) \in Nat /\ Cardinality(T) <= Cardinality(Threads)
  BY <1>1, FS_Subset, FS_CardinalityType
<1>3. CASE b /\ t \in S
  <2>1. T = S
    BY <1>3
  <2> QED BY <2>1, <1>2, <1>3 DEF One
<1>4. CASE b /\ t \notin S
  <2>1. Cardinality(T) = Cardinality(S) + 1
    BY <1>1, <1>4, FS_AddElement
  <2> QED BY <2>1, <1>2, <1>4 DEF One
<1>5. CASE ~b /\ t \in S
  <2>1. Cardinality(T) = Cardinality(S) - 1
    BY <1>1, <1>5, FS_RemoveElement
  <2> QED BY <2>1, <1>2, <1>5 DEF One
<1>6. CASE ~b /\ t \notin S
  <2>1. T = S
    BY <1>6
  <2> QED BY <2>1, <1>2, <1>6 DEF One
<1> QED BY <1>3, <1>4, <1>5, <1>6

\* What a step of thread t does to the two sets of a pool.
LEMMA Moved ==
  ASSUME Inv, NEW t \in Threads, NEW s, NEW p \in Pools, Goes(t, s, p), NEW q \in Pools
  PROVE  /\ Cardinality(Owed(q)') = Cardinality(Owed(q))
              + One(s \in {"take", "drop"} /\ p = q)
              - One(at[t] \in {"take", "drop"} /\ arg[t] = q)
         /\ Cardinality(Counting(q)') = Cardinality(Counting(q))
              + One(s = "count" /\ p = q) - One(at[t] = "count" /\ arg[t] = q)
         /\ Cardinality(Counting(q)') <= Cardinality(Threads)
         /\ {Cardinality(Owed(q)), Cardinality(Owed(q)'), Cardinality(Counting(q)),
             Cardinality(Counting(q)'), Cardinality(Threads)} \subseteq Nat
<1> DEFINE b == s \in {"take", "drop"} /\ p = q
           c == s = "count" /\ p = q
<1>1. /\ Owed(q)' = IF b THEN Owed(q) \cup {t} ELSE Owed(q) \ {t}
      /\ Counting(q)' = IF c THEN Counting(q) \cup {t} ELSE Counting(q) \ {t}
  BY DEF Inv, TypeOK, Goes, Owed, Counting
<1>2. /\ t \in Owed(q) <=> at[t] \in {"take", "drop"} /\ arg[t] = q
      /\ t \in Counting(q) <=> at[t] = "count" /\ arg[t] = q
      /\ Owed(q) \in SUBSET Threads /\ Counting(q) \in SUBSET Threads
      /\ b \in BOOLEAN /\ c \in BOOLEAN
  BY DEF Owed, Counting
<1> HIDE DEF b, c
<1>3. /\ Cardinality(Owed(q)) \in Nat /\ Cardinality(Owed(q)') \in Nat
      /\ Cardinality(Threads) \in Nat
      /\ Cardinality(Owed(q)') = Cardinality(Owed(q)) + One(b) - One(t \in Owed(q))
  BY <1>1, <1>2, Resized
<1>4. /\ Cardinality(Counting(q)) \in Nat /\ Cardinality(Counting(q)') \in Nat
      /\ Cardinality(Counting(q)') <= Cardinality(Threads)
      /\ Cardinality(Counting(q)')
           = Cardinality(Counting(q)) + One(c) - One(t \in Counting(q))
  BY <1>1, <1>2, Resized
<1> QED BY <1>2, <1>3, <1>4 DEF b, c, One

LEMMA TypeStep ==
  ASSUME Inv, [Next]_vars
  PROVE  TypeOK'
<1> USE DEF TypeOK, Inv
<1>1. CASE UNCHANGED vars
  BY <1>1 DEF vars
<1>2. ASSUME NEW t \in Threads, Open(t) \/ Close(t) PROVE TypeOK'
  BY <1>2 DEF Open, Close, Goes, Pools, RacesExit
<1>3. ASSUME NEW t \in Threads, NEW p \in Pools, AllocTest(t, p) PROVE TypeOK'
  BY <1>3 DEF AllocTest, Goes
<1>4. ASSUME NEW t \in Threads, AllocCount(t) \/ AllocTake(t) PROVE TypeOK'
  BY <1>4 DEF AllocCount, AllocTake, Goes
<1>5. ASSUME NEW t \in Threads, NEW p \in Pools, FreeBuffer(t, p) PROVE TypeOK'
  BY <1>5 DEF FreeBuffer, Goes, Pools
<1>6. ASSUME NEW t \in Threads, FreeCount(t) PROVE TypeOK'
  <2>1. /\ Goes(t, "exit", "copy") /\ at[t] = "drop" /\ arg[t] \in Pools
        /\ count[arg[t]] \in Nat /\ out[arg[t]] \in Nat
        /\ count[arg[t]] >= out[arg[t]] + Cardinality(Owed(arg[t]))
    BY <1>6 DEF FreeCount, Covered
  <2>2. Cardinality(Owed(arg[t])) >= 1 /\ Cardinality(Owed(arg[t])) \in Nat
    BY <2>1, Moved DEF Pools, One
  <2>3. count[arg[t]] - 1 \in Nat
    BY <2>1, <2>2
  <2> QED BY <1>6, <2>3 DEF FreeCount, Goes, Pools
<1>7. ASSUME NEW t \in Threads, ExitTest(t) PROVE TypeOK'
  BY <1>7 DEF ExitTest, NextPool, Goes, Pools
<1>8. ASSUME NEW t \in Threads, ExitDestroy(t) PROVE TypeOK'
  BY <1>8 DEF ExitDestroy, NextPool, Goes, Pools
<1> QED BY <1>1, <1>2, <1>3, <1>4, <1>5, <1>6, <1>7, <1>8 DEF Next

\* diagmem_exit goes on with the next pool, or is done; or it is about to destroy
\* this one.
LEMMA NextGoes ==
  ASSUME TypeOK, NEW t \in Threads, NextPool(t, arg[t])
  PROVE  \E s \in {"exit", "idle"}, p \in Pools : Goes(t, s, p)
<1>1. arg[t] \in {"copy", "hdlc", "struct"}
  BY DEF TypeOK, Pools
<1>2. CASE arg[t] = "copy"
  BY <1>2 DEF NextPool, Pools
<1>3. CASE arg[t] = "hdlc"
  BY <1>3 DEF NextPool, Pools
<1>4. CASE arg[t] = "struct"
  BY <1>4 DEF NextPool, Pools
<1> QED BY <1>1, <1>2, <1>3, <1>4

LEMMA ExitGoes ==
  ASSUME TypeOK, NEW t \in Threads, ExitTest(t) \/ ExitDestroy(t)
  PROVE  \E s \in {"exit", "destroy", "idle"}, p \in Pools : Goes(t, s, p)
<1>1. CASE NextPool(t, arg[t])
  BY <1>1, NextGoes
<1>2. CASE Goes(t, "destroy", arg[t])
  BY <1>2 DEF TypeOK
<1> QED BY <1>1, <1>2 DEF ExitTest, ExitDestroy

LEMMA CopyStep ==
  ASSUME Inv, [Next]_vars
  PROVE  CopyHeld' /\ CopyWithinPool'
<1> USE PoolSizePositive DEF TypeOK, Inv, CopyHeld, CopyWithinPool, Pools
<1>1. CASE UNCHANGED vars
  BY <1>1 DEF vars
<1>2. ASSUME NEW t \in Threads, Open(t) \/ Close(t) PROVE CopyHeld' /\ CopyWithinPool'
  BY <1>2 DEF Open, Close, Goes
<1>3. ASSUME NEW t \in Threads, NEW p \in Pools, AllocTest(t, p)
      PROVE CopyHeld' /\ CopyWithinPool'
  BY <1>3, ThreadsFinite DEF AllocTest, Goes, Locks, Room
<1>4. ASSUME NEW t \in Threads, AllocCount(t) PROVE CopyHeld' /\ CopyWithinPool'
  BY <1>4 DEF AllocCount, Goes
<1>5. ASSUME NEW t \in Threads, AllocTake(t) PROVE CopyHeld' /\ CopyWithinPool'
  BY <1>5, ThreadsFinite DEF AllocTake, Goes
<1>6. ASSUME NEW t \in Threads, NEW p \in Pools, FreeBuffer(t, p)
      PROVE CopyHeld' /\ CopyWithinPool'
  BY <1>6 DEF FreeBuffer, Goes
<1>7. ASSUME NEW t \in Threads, FreeCount(t) PROVE CopyHeld' /\ CopyWithinPool'
  BY <1>7 DEF FreeCount, Goes
<1>8. ASSUME NEW t \in Threads, ExitTest(t) \/ ExitDestroy(t)
      PROVE CopyHeld' /\ CopyWithinPool'
  <2>1. UNCHANGED <<count, mutex>> /\ at[t] \in {"exit", "destroy"}
    BY <1>8 DEF ExitTest, ExitDestroy
  <2>2. PICK s \in {"exit", "destroy", "idle"}, p \in Pools : Goes(t, s, p)
    BY <1>8, ExitGoes DEF Inv
  <2> QED BY <2>1, <2>2 DEF Goes
<1> QED BY <1>1, <1>2, <1>3, <1>4, <1>5, <1>6, <1>7, <1>8 DEF Next

\* How a step of thread t moves the counter and the buffers out of one pool.
LEMMA Settled ==
  ASSUME Inv, NEW t \in Threads, NEW s, NEW p \in Pools, Goes(t, s, p), NEW q \in Pools,
         count'[q] \in Int, out'[q] \in Int,
         count'[q] - count[q] >= out'[q] - out[q]
           + One(s \in {"take", "drop"} /\ p = q)
           - One(at[t] \in {"take", "drop"} /\ arg[t] = q),
         \/ count'[q] - count[q] + One(s = "count" /\ p = q)
              - One(at[t] = "count" /\ arg[t] = q) <= 0
         \/ count'[q] < PoolSize
  PROVE  /\ count'[q] >= out'[q] + Cardinality(Owed(q)')
         /\ count'[q] + Cardinality(Counting(q)') <= PoolSize + Cardinality(Threads) - 1
<1> DEFINE b == One(s \in {"take", "drop"} /\ p = q)
           c == One(s = "count" /\ p = q)
           d == One(at[t] \in {"take", "drop"} /\ arg[t] = q)
           e == One(at[t] = "count" /\ arg[t] = q)
<1>1. b \in Int /\ c \in Int /\ d \in Int /\ e \in Int
  BY DEF One
<1>2. count'[q] - count[q] >= out'[q] - out[q] + b - d
  OBVIOUS
<1>3. count'[q] - count[q] + c - e <= 0 \/ count'[q] < PoolSize
  OBVIOUS
<1>4. /\ Cardinality(Owed(q)') = Cardinality(Owed(q)) + b - d
      /\ Cardinality(Counting(q)') = Cardinality(Counting(q)) + c - e
      /\ Cardinality(Counting(q)') <= Cardinality(Threads)
      /\ {Cardinality(Owed(q)), Cardinality(Owed(q)'), Cardinality(Counting(q)),
          Cardinality(Counting(q)'), Cardinality(Threads)} \subseteq Nat
  BY Moved
<1>5. /\ count[q] \in Int /\ out[q] \in Int
      /\ count[q] >= out[q] + Cardinality(Owed(q))
      /\ count[q] + Cardinality(Counting(q)) <= PoolSize + Cardinality(Threads) - 1
  BY DEF Inv, TypeOK, Covered, Reserved
<1> HIDE DEF b, c, d, e
<1> QED BY <1>1, <1>2, <1>3, <1>4, <1>5, PoolSizePositive

LEMMA CountStep ==
  ASSUME Inv, [Next]_vars
  PROVE  Covered' /\ Reserved'
<1>1. CASE UNCHANGED <<count, out, at, arg>>
  BY <1>1 DEF Inv, Covered, Reserved, Owed, Counting
<1> SUFFICES ASSUME NEW t \in Threads,
                    \/ Close(t) \/ AllocCount(t) \/ AllocTake(t) \/ FreeCount(t)
                    \/ ExitTest(t) \/ ExitDestroy(t)
                    \/ \E p \in Pools : AllocTest(t, p) \/ FreeBuffer(t, p),
                    NEW q \in Pools
             PROVE  /\ count'[q] >= out'[q] + Cardinality(Owed(q)')
                    /\ count'[q] + Cardinality(Counting(q)')
                         <= PoolSize + Cardinality(Threads) - 1
  BY <1>1 DEF Next, vars, Open, Covered, Reserved
<1> DEFINE Goal == /\ count'[q] >= out'[q] + Cardinality(Owed(q)')
                   /\ count'[q] + Cardinality(Counting(q)')
                        <= PoolSize + Cardinality(Threads) - 1
<1>0. /\ count \in [Pools -> Nat] /\ out \in [Pools -> Nat] /\ arg[t] \in Pools
      /\ "copy" \in Pools /\ PoolSize \in Int
  BY PoolSizePositive DEF Inv, TypeOK, Pools
<1>2. ASSUME NEW p \in Pools, NEW s \in {"idle", "exit", "destroy"}, Goes(t, s, p),
             at[t] \in {"idle", "exit", "destroy"}, UNCHANGED <<count, out>>
      PROVE Goal
  BY <1>0, <1>2, Settled DEF One
<1>3. CASE Close(t)
  BY <1>0, <1>2, <1>3 DEF Close
<1>4. CASE ExitTest(t)
  <2>1. PICK p \in Pools, s \in {"idle", "exit", "destroy"} : Goes(t, s, p)
    BY <1>4, <1>0 DEF ExitTest, NextPool, Pools
  <2> QED BY <1>2, <1>4, <2>1 DEF ExitTest
<1>5. CASE ExitDestroy(t)
  <2>1. PICK p \in Pools, s \in {"idle", "exit", "destroy"} : Goes(t, s, p)
    BY <1>5, <1>0 DEF ExitDestroy, NextPool, Pools
  <2> QED BY <1>2, <1>5, <2>1 DEF ExitDestroy
<1>6. CASE AllocCount(t)
  BY <1>0, <1>6, Settled DEF AllocCount, One
<1>7. CASE AllocTake(t)
  BY <1>0, <1>7, Settled DEF AllocTake, One
<1>8. CASE FreeCount(t)
  BY <1>0, <1>8, Settled DEF FreeCount, One
<1>9. ASSUME NEW p \in Pools, AllocTest(t, p) PROVE Goal
  BY <1>0, <1>9, Settled DEF AllocTest, Room, One
<1>10. ASSUME NEW p \in Pools, FreeBuffer(t, p) PROVE Goal
  <2>1. CASE Frees(p)
    BY <1>0, <1>10, <2>1, Settled DEF FreeBuffer, One
  <2>2. CASE ~Frees(p)
    BY <1>0, <1>2, <1>10, <2>2 DEF FreeBuffer
  <2> QED BY <2>1, <2>2
<1> QED
  BY <1>3, <1>4, <1>5, <1>6, <1>7, <1>8, <1>9, <1>10

LEMMA Inductive == Spec => []Inv
<1>1. Init => Inv
  <2> SUFFICES ASSUME Init PROVE Inv
    OBVIOUS
  <2>0. TypeOK
    BY DEF Init, TypeOK, Pools
  <2>1. CopyHeld /\ CopyWithinPool
    BY PoolSizePositive DEF Init, CopyHeld, CopyWithinPool, Pools
  <2>2. ASSUME NEW p \in Pools
        PROVE  /\ Cardinality(Owed(p)) = 0 /\ Cardinality(Counting(p)) = 0
               /\ count[p] = 0 /\ out[p] = 0
    <3>1. Owed(p) = {} /\ Counting(p) = {}
      BY DEF Init, Owed, Counting
    <3> QED BY <3>1, FS_EmptySet DEF Init
  <2>3. Cardinality(Threads) \in Nat
    BY ThreadsFinite, FS_CardinalityType
  <2>4. Covered
    BY <2>2 DEF Covered
  <2>5. Reserved
    BY <2>2, <2>3, PoolSizePositive DEF Reserved
  <2> QED BY <2>0, <2>1, <2>4, <2>5 DEF Inv
<1>2. Inv /\ [Next]_vars => Inv'
  BY TypeStep, CopyStep, CountStep DEF Inv
<1> QED BY <1>1, <1>2, PTL DEF Spec

\* The counters, tested and updated without the mutex, never fall below zero.
THEOREM Typed == Spec => []TypeOK
<1>1. Inv => TypeOK
  BY DEF Inv
<1> QED BY <1>1, Inductive, PTL

\* The copy pool is never overdrawn.
THEOREM WithinPool == Spec => []CopyWithinPool
<1>1. Inv => CopyWithinPool
  BY DEF Inv
<1> QED BY <1>1, Inductive, PTL

\* No counter hides a buffer that is out.
THEOREM Covers == Spec => []CountCoversBuffers
<1>1. Inv => CountCoversBuffers
  <2> SUFFICES ASSUME Inv, NEW p \in Pools PROVE count[p] >= out[p]
    BY DEF CountCoversBuffers
  <2>1. Cardinality(Owed(p)) \in Nat
    BY ThreadsFinite, FS_Subset, FS_CardinalityType DEF Owed
  <2> QED BY <2>1 DEF Inv, TypeOK, Covered
<1> QED BY <1>1, Inductive, PTL

\* A pool is overdrawn by no more than the threads that tested at once.
THEOREM Overshoot == Spec => []OvershootBounded
<1>1. Inv => OvershootBounded
  <2> SUFFICES ASSUME Inv, NEW p \in Pools
               PROVE count[p] <= PoolSize + Cardinality(Threads) - 1
    BY DEF OvershootBounded
  <2>1. Cardinality(Counting(p)) \in Nat /\ Cardinality(Threads) \in Nat
    BY ThreadsFinite, FS_Subset, FS_CardinalityType DEF Counting
  <2> QED BY <2>1, PoolSizePositive DEF Inv, TypeOK, Reserved
<1> QED BY <1>1, Inductive, PTL

-----------------------------------------------------------------------------
(***************************************************************************)
(* diagmem_exit.  Only a thread that has the device open allocates; so what*)
(* diagmem_exit found unused while it is closed stays unused until it is   *)
(* opened again.                                                           *)
(***************************************************************************)
AllocatesOpen == \A t \in Threads : at[t] \in {"count", "take"} => t \in open

\* A pool about to be destroyed is unused, unless the device was opened meanwhile.
FoundUnused ==
  \A t \in Threads : at[t] = "destroy" /\ ~raced =>
    open = {} /\ (arg[t] = "struct" => count["struct"] = 0 /\ count["hdlc"] = 0)

\* The structs are there while the device is open or something is counted.
StructsKept ==
  open # {} \/ count["struct"] > 0 \/ count["hdlc"] > 0 => pool["struct"] \/ raced

KeepInv == AllocatesOpen /\ FoundUnused /\ StructsKept

LEMMA KeepStep ==
  ASSUME Inv, Inv', KeepInv, [Next]_vars
  PROVE  KeepInv'
<1> USE DEF Inv, TypeOK, KeepInv, AllocatesOpen, FoundUnused, StructsKept
<1>1. CASE UNCHANGED vars
  BY <1>1 DEF vars
<1>2. ASSUME NEW t \in Threads, Open(t) PROVE KeepInv'
  <2>1. UNCHANGED <<count, out, at, arg>> /\ open' = open \cup {t}
    BY <1>2 DEF Open
  <2>2. FoundUnused' /\ AllocatesOpen'
    <3>1. AllocatesOpen'
      BY <2>1
    <3>2. raced' <=> raced \/ \E u \in Threads : at[u] = "destroy"
      BY <1>2 DEF Open, RacesExit
    <3>3. FoundUnused'
      BY <2>1, <3>2
    <3> QED BY <3>1, <3>3
  <2>3. CASE open = {}
    <3>1. pool' = [p \in Pools |-> pool[p] \/ count[p] = 0]
      BY <1>2, <2>3 DEF Open
    <3>2. pool'["struct"] = (pool["struct"] \/ count["struct"] = 0)
      BY <3>1 DEF Pools
    <3>3. raced => raced'
      BY <1>2 DEF Open, RacesExit
    <3> QED BY <2>1, <2>2, <3>2, <3>3 DEF Pools
  <2>4. CASE open # {}
    BY <1>2, <2>1, <2>2, <2>4 DEF Open, RacesExit
  <2> QED BY <2>3, <2>4
<1>3. ASSUME NEW t \in Threads, Close(t) PROVE KeepInv'
  BY <1>3 DEF Close, Goes
<1>4. ASSUME NEW t \in Threads, NEW p \in Pools, AllocTest(t, p) PROVE KeepInv'
  BY <1>4 DEF AllocTest, Goes
<1>5. ASSUME NEW t \in Threads, AllocCount(t) PROVE KeepInv'
  BY <1>5 DEF AllocCount, Goes
<1>6. ASSUME NEW t \in Threads, AllocTake(t) PROVE KeepInv'
  BY <1>6 DEF AllocTake, Goes
<1>7. ASSUME NEW t \in Threads, NEW p \in Pools, FreeBuffer(t, p) PROVE KeepInv'
  BY <1>7 DEF FreeBuffer, Goes
<1>8. ASSUME NEW t \in Threads, FreeCount(t) PROVE KeepInv'
  <2>1. /\ UNCHANGED <<pool, open, raced>> /\ at[t] = "drop"
        /\ at' = [at EXCEPT ![t] = "exit"] /\ arg' = [arg EXCEPT ![t] = "copy"]
        /\ count' = [count EXCEPT ![arg[t]] = @ - 1]
    BY <1>8 DEF FreeCount, Goes
  <2>2. \A p \in Pools : count'[p] \in Nat /\ count'[p] <= count[p]
    BY <2>1
  <2>3. AllocatesOpen'
    BY <2>1
  <2>4. FoundUnused'
    BY <2>1, <2>2 DEF Pools
  <2>5. StructsKept'
    BY <2>1, <2>2 DEF Pools
  <2> QED BY <2>3, <2>4, <2>5
<1>9. ASSUME NEW t \in Threads, ExitTest(t) PROVE KeepInv'
  <2>1. UNCHANGED <<pool, count, open, raced>>
    BY <1>9 DEF ExitTest
  <2>2. PICK s \in {"exit", "destroy", "idle"}, p \in Pools : Goes(t, s, p)
    BY <1>9, ExitGoes
  <2>3. s = "destroy" => Unused(p)
    <3>1. CASE pool[arg[t]] /\ Unused(arg[t])
      <4>1. arg[t] \in Pools /\ Goes(t, "destroy", arg[t])
        BY <1>9, <3>1 DEF ExitTest
      <4>2. arg'[t] = arg[t] /\ arg'[t] = p
        BY <2>2, <4>1 DEF Goes
      <4> QED BY <3>1, <4>2
    <3>2. CASE ~(pool[arg[t]] /\ Unused(arg[t]))
      <4>1. PICK r \in {"exit", "idle"}, q \in Pools : Goes(t, r, q)
        BY <1>9, <3>2, NextGoes DEF ExitTest
      <4>2. at'[t] = r /\ at'[t] = s
        BY <2>2, <4>1 DEF Goes
      <4> QED BY <4>2
    <3> QED BY <3>1, <3>2
  <2>4. AllocatesOpen'
    BY <2>1, <2>2 DEF Goes
  <2>5. FoundUnused'
    <3> SUFFICES ASSUME NEW u \in Threads, at'[u] = "destroy", ~raced'
                 PROVE  /\ open' = {}
                        /\ arg'[u] = "struct" => count'["struct"] = 0 /\ count'["hdlc"] = 0
      OBVIOUS
    <3>1. CASE u = t
      <4>1. at'[t] = s /\ arg'[t] = p
        BY <2>2 DEF Goes
      <4> QED BY <2>1, <2>3, <3>1, <4>1 DEF Unused
    <3>2. CASE u # t
      <4>1. at'[u] = at[u] /\ arg'[u] = arg[u]
        BY <2>2, <3>2 DEF Goes
      <4> QED BY <2>1, <4>1
    <3> QED BY <3>1, <3>2
  <2>6. StructsKept'
    BY <2>1
  <2> QED BY <2>4, <2>5, <2>6
<1>10. ASSUME NEW t \in Threads, ExitDestroy(t) PROVE KeepInv'
  <2>1. /\ UNCHANGED <<count, open, raced>> /\ at[t] = "destroy"
        /\ pool' = [pool EXCEPT ![arg[t]] = FALSE]
    BY <1>10 DEF ExitDestroy
  <2>2. PICK s \in {"exit", "idle"}, p \in Pools : Goes(t, s, p)
    BY <1>10, NextGoes DEF ExitDestroy
  <2>3. AllocatesOpen' /\ FoundUnused'
    BY <2>1, <2>2 DEF Goes
  <2>4. StructsKept'
    BY <2>1 DEF Pools
  <2> QED BY <2>3, <2>4
<1> QED
  BY <1>1, <1>2, <1>3, <1>4, <1>5, <1>6, <1>7, <1>8, <1>9, <1>10 DEF Next

\* No pool of write structs is destroyed under a buffer USB still has, although
\* diagmem_exit runs without the mutex, unless the device was opened under it.
THEOREM StructsStay == Spec => []OutstandingKeepsPool
<1>1. Init => KeepInv
  BY DEF Init, KeepInv, AllocatesOpen, FoundUnused, StructsKept, Pools
<1>2. Spec => []KeepInv
  BY <1>1, KeepStep, Inductive, PTL DEF Spec
<1>3. KeepInv /\ Inv /\ CountCoversBuffers => OutstandingKeepsPool
  BY DEF KeepInv, StructsKept, CountCoversBuffers, OutstandingKeepsPool, Inv, TypeOK, Pools
<1> QED BY <1>2, <1>3, Inductive, Covers, PTL
=============================================================================
