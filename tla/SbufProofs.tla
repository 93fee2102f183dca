----------------------------- MODULE SbufProofs -----------------------------
(***************************************************************************)
(* The bounded buffer of mt_server/sbuf.c is correct for every number of   *)
(* workers, every buffer size and every number of connections that front   *)
(* and rear can count (MaxConns =< IntMax).                                *)
(***************************************************************************)
EXTENDS Sbuf, FiniteSetTheorems, TLAPS

\* front and rear never wrap while fewer than INT_MAX connections arrive.
NoWrap == MaxConns \in 0..IntMax

Counters ==
  /\ mutex \in 0..1
  /\ slots \in Nat
  /\ items \in Nat
  /\ front \in Nat
  /\ rear \in Nat
  /\ accepted \in 0..MaxConns
  /\ buf \in [0..(n - 1) -> Conn \cup {NoConn}]
  /\ conn_fd \in [Thread -> Conn \cup {NoConn}]

Locations ==
  /\ pc \in [Thread -> InsertPc \cup RemovePc]
  /\ pc[Main] \in InsertPc
  /\ \A w \in Worker : pc[w] \in RemovePc

\* Connection number c is the c-th one stored: the place rear + 1 is for the
\* connection main holds, and the place i holds connection i.
InOrder ==
  /\ conn_fd[Main] = accepted
  /\ accepted = rear + (IF pc[Main] \in {"ins_P_slots", "ins_P_mutex", "ins_store"}
                        THEN 1 ELSE 0)
  /\ \A i \in (front + 1)..rear : buf[i % n] = i

\* A worker holds a connection from its fetch to its close, one that has left
\* the buffer, and no two workers hold the same one.
Owned ==
  /\ \A w \in Worker : IF pc[w] \in {"rem_P_items", "rem_P_mutex", "rem_fetch"}
                       THEN conn_fd[w] = NoConn
                       ELSE conn_fd[w] \in 1..front
  /\ \A v, w \in Worker : conn_fd[v] = conn_fd[w] /\ conn_fd[v] # NoConn => v = w

SbufInv ==
  /\ Counters
  /\ Locations
  /\ MutexProtectsBuf
  /\ PlacesAccounted
  /\ InOrder
  /\ Owned
-----------------------------------------------------------------------------
\* What C's % yields on the values front and rear take.
LEMMA ModRange ==
  ASSUME NEW i \in Nat
  PROVE  i % n \in 0..(n - 1)
BY SbufAssumption

\* Two places less than n apart are different places of the array.
LEMMA ModDistinct ==
  ASSUME NEW i \in Nat, NEW j \in Nat, i < j, j < i + n
  PROVE  i % n # j % n
<1> DEFINE p == i \div n
           q == j \div n
<1>1. /\ p \in Int /\ q \in Int
      /\ i = n * p + (i % n)
      /\ j = n * q + (j % n)
  BY SbufAssumption
<1>2. SUFFICES ASSUME i % n = j % n PROVE FALSE
  OBVIOUS
<1>3. i % n \in Int
  BY ModRange
<1> HIDE DEF p, q
<1>4. j - i = n * q - n * p
  BY <1>1, <1>2, <1>3, SbufAssumption
<1>5. CASE q =< p
  <2>1. n * q =< n * p
    BY <1>1, <1>5, SbufAssumption
  <2> QED BY <2>1, <1>4, <1>1, SbufAssumption
<1>6. CASE q >= p + 1
  <2>1. n * q >= n * (p + 1)
    BY <1>1, <1>6, SbufAssumption
  <2>2. n * (p + 1) = n * p + n
    BY <1>1, SbufAssumption
  <2> QED BY <2>1, <2>2, <1>4, <1>1, SbufAssumption
<1> QED BY <1>1, <1>5, <1>6
-----------------------------------------------------------------------------
\* sbuf_init establishes the invariant.
LEMMA SbufInvInit ==
  ASSUME SbufInit
  PROVE  SbufInv
<1> USE SbufAssumption DEF SbufInit, Thread, NoConn, InsertPc, RemovePc
<1>1. Counters /\ Locations /\ MutexProtectsBuf /\ InOrder /\ Owned
  BY DEF Counters, Locations, MutexProtectsBuf, InCritical, InOrder, Owned
<1>2. Claiming = {} /\ Returning = {}
  BY DEF Claiming, Returning
<1>3. PlacesAccounted
  BY <1>2, FS_EmptySet DEF PlacesAccounted, Length, Filling, Announcing
<1> QED BY <1>1, <1>3 DEF SbufInv

\* The two sets of workers PlacesAccounted counts are finite.
LEMMA FiniteCounts ==
  /\ IsFiniteSet(Claiming) /\ Cardinality(Claiming) \in Nat
  /\ IsFiniteSet(Returning) /\ Cardinality(Returning) \in Nat
<1>1. Claiming \subseteq Worker /\ Returning \subseteq Worker
  BY DEF Claiming, Returning
<1> QED BY <1>1, SbufAssumption, FS_Subset, FS_CardinalityType

\* A step of main leaves the counted workers alone.
LEMMA MainCounts ==
  ASSUME Locations, NEW to, pc' = [pc EXCEPT ![Main] = to]
  PROVE  Claiming' = Claiming /\ Returning' = Returning
BY SbufAssumption DEF Locations, Thread, Claiming, Returning

\* A thread that enters the critical section through P(mutex), leaves it
\* through V(mutex) or stays on its side of it keeps the exclusion.
LEMMA MutexHandover ==
  ASSUME Locations, MutexProtectsBuf, mutex \in 0..1,
         NEW t \in Thread, NEW to, pc' = [pc EXCEPT ![t] = to],
         \/ mutex > 0 /\ mutex' = mutex - 1 /\ ~InCritical(t) /\ InCritical(t)'
         \/ mutex' = mutex + 1 /\ InCritical(t) /\ ~InCritical(t)'
         \/ mutex' = mutex /\ (InCritical(t)' <=> InCritical(t))
  PROVE  mutex' \in 0..1 /\ MutexProtectsBuf'
<1>1. \A u \in Thread : u # t => (InCritical(u)' <=> InCritical(u))
  BY DEF Locations, InCritical
<1>2. CASE mutex' = mutex + 1 /\ InCritical(t) /\ ~InCritical(t)'
  <2>1. mutex = 0 /\ \A u \in Thread : ~InCritical(u)'
    BY <1>1, <1>2 DEF MutexProtectsBuf
  <2> QED BY <2>1, <1>2 DEF MutexProtectsBuf
<1>3. CASE mutex > 0 /\ mutex' = mutex - 1 /\ ~InCritical(t) /\ InCritical(t)'
  <2>1. mutex = 1 /\ mutex' = 0 /\ \A u \in Thread : InCritical(u)' => u = t
    BY <1>1, <1>3 DEF MutexProtectsBuf
  <2> QED BY <2>1, <1>3 DEF MutexProtectsBuf
<1>4. CASE mutex' = mutex /\ (InCritical(t)' <=> InCritical(t))
  <2>1. \A u \in Thread : InCritical(u)' <=> InCritical(u)
    BY <1>1, <1>4
  <2> QED BY <2>1, <1>4 DEF MutexProtectsBuf
<1> QED BY <1>2, <1>3, <1>4

\* What each step of sbuf_insert keeps.
LEMMA MainStepInv ==
  ASSUME NoWrap, SbufInv, MainStep
  PROVE  SbufInv'
<1> USE SbufAssumption DEF Thread, NoConn
<1>1. Locations' /\ Claiming' = Claiming /\ Returning' = Returning
  BY MainCounts DEF SbufInv, Locations, MainStep, Accept, InsertPSlots,
     InsertPMutex, InsertStore, InsertVMutex, InsertVItems, Goto, InsertPc
<1>2. /\ rear \in 0..MaxConns /\ front =< rear
      /\ pc[Main] = "ins_store" => /\ Increment(rear) = rear + 1
                                   /\ Remainder(Increment(rear)) = (rear + 1) % n
                                   /\ (rear + 1) % n \in 0..(n - 1)
                                   /\ rear + 1 - front =< n
                                   /\ rear + 1 = accepted
  <2>1. rear \in 0..MaxConns /\ front =< rear
    BY FiniteCounts DEF SbufInv, Counters, InOrder, PlacesAccounted, Announcing, Length
  <2>2. ASSUME pc[Main] = "ins_store"
        PROVE  rear + 1 = accepted /\ Increment(rear) = rear + 1 /\ rear + 1 - front =< n
    BY <2>1, <2>2, FiniteCounts DEF SbufInv, Counters, InOrder, PlacesAccounted,
       Filling, Length, Increment, NoWrap
  <2>3. (rear + 1) % n \in 0..(n - 1)
    BY <2>1, ModRange
  <2> QED BY <2>1, <2>2, <2>3 DEF Remainder
<1>3. mutex' \in 0..1 /\ MutexProtectsBuf'
  <2>1. CASE InsertPMutex
    BY <2>1, MutexHandover, Zenon
       DEF SbufInv, Counters, Locations, InsertPMutex, Goto, P, InCritical
  <2>2. CASE InsertVMutex
    BY <2>2, MutexHandover, Zenon
       DEF SbufInv, Counters, Locations, InsertVMutex, Goto, V, InCritical
  <2>3. CASE Accept \/ InsertPSlots \/ InsertStore \/ InsertVItems
    BY <2>3, MutexHandover, Zenon
       DEF SbufInv, Counters, Locations, Accept, InsertPSlots, InsertStore,
       InsertVItems, Goto, InCritical
  <2> QED BY <2>1, <2>2, <2>3 DEF MainStep
<1>4. Counters'
  <2>1. CASE Accept
    BY <2>1, <1>2, <1>3
       DEF SbufInv, Counters, Conn, InBounds, Accept, Goto, P, V
  <2>2. CASE InsertPSlots
    BY <2>2, <1>2, <1>3
       DEF SbufInv, Counters, Conn, InBounds, InsertPSlots, Goto, P, V
  <2>3. CASE InsertPMutex
    BY <2>3, <1>2, <1>3
       DEF SbufInv, Counters, Conn, InBounds, InsertPMutex, Goto, P, V
  <2>4. CASE InsertStore
    BY <2>4, <1>2, <1>3
       DEF SbufInv, Counters, Conn, InBounds, InsertStore, Goto, P, V
  <2>5. CASE InsertVMutex
    BY <2>5, <1>2, <1>3
       DEF SbufInv, Counters, Conn, InBounds, InsertVMutex, Goto, P, V
  <2>6. CASE InsertVItems
    BY <2>6, <1>2, <1>3
       DEF SbufInv, Counters, Conn, InBounds, InsertVItems, Goto, P, V
  <2> QED BY <2>1, <2>2, <2>3, <2>4, <2>5, <2>6 DEF MainStep
<1>5. PlacesAccounted'
  <2>1. CASE Accept
    BY <2>1, <1>1, <1>2, FiniteCounts
       DEF SbufInv, Counters, Locations, PlacesAccounted, Length, Filling, Announcing,
           Accept, Goto, P, V
  <2>2. CASE InsertPSlots
    BY <2>2, <1>1, <1>2, FiniteCounts
       DEF SbufInv, Counters, Locations, PlacesAccounted, Length, Filling, Announcing,
           InsertPSlots, Goto, P, V
  <2>3. CASE InsertPMutex
    BY <2>3, <1>1, <1>2, FiniteCounts
       DEF SbufInv, Counters, Locations, PlacesAccounted, Length, Filling, Announcing,
           InsertPMutex, Goto, P, V
  <2>4. CASE InsertStore
    BY <2>4, <1>1, <1>2, FiniteCounts
       DEF SbufInv, Counters, Locations, PlacesAccounted, Length, Filling, Announcing,
           InsertStore, Goto, P, V
  <2>5. CASE InsertVMutex
    BY <2>5, <1>1, <1>2, FiniteCounts
       DEF SbufInv, Counters, Locations, PlacesAccounted, Length, Filling, Announcing,
           InsertVMutex, Goto, P, V
  <2>6. CASE InsertVItems
    BY <2>6, <1>1, <1>2, FiniteCounts
       DEF SbufInv, Counters, Locations, PlacesAccounted, Length, Filling, Announcing,
           InsertVItems, Goto, P, V
  <2> QED BY <2>1, <2>2, <2>3, <2>4, <2>5, <2>6 DEF MainStep
<1>6. InOrder'
  <2>1. CASE InsertStore
    <3>1. SUFFICES ASSUME NEW i \in (front + 1)..(rear + 1)
                   PROVE  buf'[i % n] = i
      BY <2>1, <1>2 DEF SbufInv, Counters, Locations, InOrder, InsertStore, Goto
    <3>2. buf' = [buf EXCEPT ![(rear + 1) % n] = rear + 1]
      BY <2>1, <1>2, Zenon DEF SbufInv, InOrder, InsertStore, Goto, InBounds
    <3>3. i \in Nat /\ rear + 1 \in Nat
      BY DEF SbufInv, Counters
    <3>4. CASE i = rear + 1
      BY <3>2, <3>4, <1>2, <2>1 DEF SbufInv, Counters, InsertStore, Goto
    <3>5. CASE i # rear + 1
      <4>1. i % n # (rear + 1) % n
        <5>1. front \in Nat /\ rear \in Nat /\ n \in Nat /\ rear + 1 - front =< n
          BY <1>2, <2>1 DEF SbufInv, Counters, InsertStore, Goto
        <5>2. i < rear + 1 /\ rear + 1 < i + n
          BY <3>5, <5>1
        <5> QED BY <5>2, <3>3, ModDistinct
      <4>2. buf[i % n] = i /\ i % n \in 0..(n - 1)
        <5>1. i \in (front + 1)..rear
          BY <3>5 DEF SbufInv, Counters
        <5> QED BY <5>1, <3>3, ModRange DEF SbufInv, InOrder
      <4> QED BY <4>1, <4>2, <3>2 DEF SbufInv, Counters
    <3> QED BY <3>4, <3>5
  <2>2. CASE ~InsertStore
    BY <2>2 DEF SbufInv, Counters, Locations, InOrder, MainStep, Accept, InsertPSlots,
       InsertPMutex, InsertVMutex, InsertVItems, Goto
  <2> QED BY <2>1, <2>2
<1>7. Owned'
  BY DEF SbufInv, Counters, Locations, Owned, MainStep, Accept, InsertPSlots,
     InsertPMutex, InsertStore, InsertVMutex, InsertVItems, Goto
<1> QED BY <1>1, <1>3, <1>4, <1>5, <1>6, <1>7 DEF SbufInv

\* A step of worker w moves w, and only w, into or out of the counted sets.
LEMMA WorkerCounts ==
  ASSUME Locations, NEW w \in Worker, pc' = [pc EXCEPT ![w] = pc'[w]]
  PROVE  /\ Cardinality(Claiming)' = Cardinality(Claiming)
              + (IF pc[w] \in {"rem_P_mutex", "rem_fetch"} THEN 0 ELSE 1)
              - (IF pc'[w] \in {"rem_P_mutex", "rem_fetch"} THEN 0 ELSE 1)
         /\ Cardinality(Returning)' = Cardinality(Returning)
              + (IF pc[w] \in {"rem_V_mutex", "rem_V_slots"} THEN 0 ELSE 1)
              - (IF pc'[w] \in {"rem_V_mutex", "rem_V_slots"} THEN 0 ELSE 1)
<1> DEFINE C == Claiming \cup {w}
           R == Returning \cup {w}
<1>1. /\ Claiming' = IF pc'[w] \in {"rem_P_mutex", "rem_fetch"} THEN C ELSE C \ {w}
      /\ Returning' = IF pc'[w] \in {"rem_V_mutex", "rem_V_slots"} THEN R ELSE R \ {w}
  BY DEF Locations, Thread, Claiming, Returning
<1>2. /\ IsFiniteSet(C) /\ Cardinality(C) = Cardinality(Claiming) + (IF w \in Claiming THEN 0 ELSE 1)
      /\ IsFiniteSet(R) /\ Cardinality(R) = Cardinality(Returning) + (IF w \in Returning THEN 0 ELSE 1)
  BY FiniteCounts, FS_AddElement
<1>3. Cardinality(C \ {w}) = Cardinality(C) - 1 /\ Cardinality(R \ {w}) = Cardinality(R) - 1
  BY <1>2, FS_RemoveElement
<1>4. /\ w \in Claiming <=> pc[w] \in {"rem_P_mutex", "rem_fetch"}
      /\ w \in Returning <=> pc[w] \in {"rem_V_mutex", "rem_V_slots"}
  BY DEF Claiming, Returning
<1> QED BY <1>1, <1>2, <1>3, <1>4, FiniteCounts

\* What each step of sbuf_remove and of the worker loop keeps.
LEMMA WorkerStepInv ==
  ASSUME NoWrap, SbufInv, NEW w \in Worker, WorkerStep(w)
  PROVE  SbufInv'
<1> USE SbufAssumption DEF Thread, NoConn
<1>1. Locations' /\ pc'[Main] = pc[Main]
  BY DEF SbufInv, Locations, WorkerStep, RemoveStep, RemovePItems, RemovePMutex,
     RemoveFetch, RemoveVMutex, RemoveVSlots, Release, Goto, RemovePc
<1>2. /\ front =< rear /\ rear \in 0..MaxConns
      /\ pc[w] = "rem_fetch" => /\ front + 1 =< rear
                                /\ Increment(front) = front + 1
                                /\ Remainder(Increment(front)) = (front + 1) % n
                                /\ (front + 1) % n \in 0..(n - 1)
                                /\ buf[(front + 1) % n] = front + 1
  <2>1. front =< rear /\ rear \in 0..MaxConns
    BY FiniteCounts DEF SbufInv, Counters, InOrder, PlacesAccounted, Announcing, Length
  <2>2. ASSUME pc[w] = "rem_fetch"
        PROVE  /\ front + 1 =< rear /\ Increment(front) = front + 1
               /\ buf[(front + 1) % n] = front + 1
    <3>1. Cardinality(Claiming) # 0
      BY <2>2, FiniteCounts, FS_EmptySet DEF Claiming
    <3>2. front + 1 =< rear /\ Increment(front) = front + 1
      BY <3>1, <2>1, FiniteCounts DEF SbufInv, Counters, PlacesAccounted, Announcing, Length,
         Increment, NoWrap
    <3>3. front + 1 \in (front + 1)..rear
      BY <3>2, <2>1 DEF SbufInv, Counters
    <3> QED BY <3>2, <3>3 DEF SbufInv, InOrder
  <2>3. (front + 1) % n \in 0..(n - 1)
    <3>1. front + 1 \in Nat
      BY DEF SbufInv, Counters
    <3> QED BY <3>1, ModRange
  <2>4. front + 1 >= 0
    BY DEF SbufInv, Counters
  <2> QED BY <2>1, <2>2, <2>3, <2>4 DEF Remainder
<1>3. mutex' \in 0..1 /\ MutexProtectsBuf'
  <2>1. CASE RemovePMutex(w)
    BY <2>1, MutexHandover, Zenon
       DEF SbufInv, Counters, Locations, RemovePMutex, Goto, P, InCritical
  <2>2. CASE RemoveVMutex(w)
    BY <2>2, MutexHandover, Zenon
       DEF SbufInv, Counters, Locations, RemoveVMutex, Goto, V, InCritical
  <2>3. CASE RemovePItems(w) \/ RemoveFetch(w) \/ RemoveVSlots(w) \/ Release(w)
    BY <2>3, MutexHandover, Zenon DEF SbufInv, Counters, Locations, RemovePItems, RemoveFetch,
       RemoveVSlots, Release, Goto, InCritical
  <2> QED BY <2>1, <2>2, <2>3 DEF WorkerStep, RemoveStep
\* A fetch takes connection front + 1, which leaves the buffer.
<1>4. RemoveFetch(w) => /\ conn_fd' = [conn_fd EXCEPT ![w] = front + 1]
                        /\ front' = front + 1
  BY <1>2, Zenon DEF RemoveFetch, Goto, InBounds
<1>5. Counters'
  <2>1. CASE RemovePItems(w)
    BY <2>1, <1>2, <1>3, <1>4
       DEF SbufInv, Counters, Conn, RemovePItems, Goto, P, V
  <2>2. CASE RemovePMutex(w)
    BY <2>2, <1>2, <1>3, <1>4
       DEF SbufInv, Counters, Conn, RemovePMutex, Goto, P, V
  <2>3. CASE RemoveFetch(w)
    BY <2>3, <1>2, <1>3, <1>4
       DEF SbufInv, Counters, Conn, RemoveFetch, Goto, P, V
  <2>4. CASE RemoveVMutex(w)
    BY <2>4, <1>2, <1>3, <1>4
       DEF SbufInv, Counters, Conn, RemoveVMutex, Goto, P, V
  <2>5. CASE RemoveVSlots(w)
    BY <2>5, <1>2, <1>3, <1>4
       DEF SbufInv, Counters, Conn, RemoveVSlots, Goto, P, V
  <2>6. CASE Release(w)
    BY <2>6, <1>2, <1>3, <1>4
       DEF SbufInv, Counters, Conn, Release, Goto, P, V
  <2> QED BY <2>1, <2>2, <2>3, <2>4, <2>5, <2>6 DEF WorkerStep, RemoveStep
<1>6. PlacesAccounted'
  <2>a. /\ Filling' = Filling /\ Filling \in Nat
        /\ Announcing' = Announcing /\ Announcing \in Nat
    BY <1>1 DEF Filling, Announcing
  <2>b. pc' = [pc EXCEPT ![w] = pc'[w]]
    BY DEF SbufInv, Locations, WorkerStep, RemoveStep, RemovePItems, RemovePMutex,
       RemoveFetch, RemoveVMutex, RemoveVSlots, Release, Goto
  <2>c. /\ Cardinality(Claiming)' = Cardinality(Claiming)
              + (IF pc[w] \in {"rem_P_mutex", "rem_fetch"} THEN 0 ELSE 1)
              - (IF pc'[w] \in {"rem_P_mutex", "rem_fetch"} THEN 0 ELSE 1)
        /\ Cardinality(Returning)' = Cardinality(Returning)
              + (IF pc[w] \in {"rem_V_mutex", "rem_V_slots"} THEN 0 ELSE 1)
              - (IF pc'[w] \in {"rem_V_mutex", "rem_V_slots"} THEN 0 ELSE 1)
    BY <2>b, WorkerCounts DEF SbufInv
  <2>1. CASE RemovePItems(w)
    <3>1. /\ Cardinality(Claiming)' = Cardinality(Claiming) + 1
          /\ Cardinality(Returning)' = Cardinality(Returning)
      BY <2>1, <2>c, FiniteCounts DEF SbufInv, Locations, RemovePItems, Goto
    <3> QED BY <3>1, <2>a, <2>1, <1>4, FiniteCounts
       DEF SbufInv, Counters, PlacesAccounted, Length, RemovePItems, P, V
  <2>2. CASE RemovePMutex(w)
    <3>1. /\ Cardinality(Claiming)' = Cardinality(Claiming)
          /\ Cardinality(Returning)' = Cardinality(Returning)
      BY <2>2, <2>c, FiniteCounts DEF SbufInv, Locations, RemovePMutex, Goto
    <3> QED BY <3>1, <2>a, <2>2, <1>4, FiniteCounts
       DEF SbufInv, Counters, PlacesAccounted, Length, RemovePMutex, P, V
  <2>3. CASE RemoveFetch(w)
    <3>1. /\ Cardinality(Claiming)' = Cardinality(Claiming) - 1
          /\ Cardinality(Returning)' = Cardinality(Returning) + 1
      BY <2>3, <2>c, FiniteCounts DEF SbufInv, Locations, RemoveFetch, Goto
    <3>2. front' = front + 1 /\ UNCHANGED <<slots, items, rear>>
      BY <2>3, <1>4, Zenon DEF RemoveFetch
    <3> QED BY <3>1, <3>2, <2>a, FiniteCounts DEF SbufInv, Counters, PlacesAccounted, Length
  <2>4. CASE RemoveVMutex(w)
    <3>1. /\ Cardinality(Claiming)' = Cardinality(Claiming)
          /\ Cardinality(Returning)' = Cardinality(Returning)
      BY <2>4, <2>c, FiniteCounts DEF SbufInv, Locations, RemoveVMutex, Goto
    <3> QED BY <3>1, <2>a, <2>4, <1>4, FiniteCounts
       DEF SbufInv, Counters, PlacesAccounted, Length, RemoveVMutex, P, V
  <2>5. CASE RemoveVSlots(w)
    <3>1. /\ Cardinality(Claiming)' = Cardinality(Claiming)
          /\ Cardinality(Returning)' = Cardinality(Returning) - 1
      BY <2>5, <2>c, FiniteCounts DEF SbufInv, Locations, RemoveVSlots, Goto
    <3> QED BY <3>1, <2>a, <2>5, <1>4, FiniteCounts
       DEF SbufInv, Counters, PlacesAccounted, Length, RemoveVSlots, P, V
  <2>6. CASE Release(w)
    <3>1. /\ Cardinality(Claiming)' = Cardinality(Claiming)
          /\ Cardinality(Returning)' = Cardinality(Returning)
      BY <2>6, <2>c, FiniteCounts DEF SbufInv, Locations, Release, Goto
    <3> QED BY <3>1, <2>a, <2>6, <1>4, FiniteCounts
       DEF SbufInv, Counters, PlacesAccounted, Length, Release, P, V
  <2> QED BY <2>1, <2>2, <2>3, <2>4, <2>5, <2>6 DEF WorkerStep, RemoveStep
<1>7. InOrder'
  <2>1. UNCHANGED <<buf, rear, accepted>> /\ front' \in {front, front + 1}
    BY <1>4 DEF WorkerStep, RemoveStep, RemovePItems, RemovePMutex,
       RemoveFetch, RemoveVMutex, RemoveVSlots, Release
  <2>2. conn_fd'[Main] = conn_fd[Main]
    <3>1. CASE RemoveFetch(w)
      BY <3>1, <1>4 DEF SbufInv, Counters
    <3>2. CASE ~RemoveFetch(w)
      BY <3>2 DEF SbufInv, Counters, WorkerStep, RemoveStep, RemovePItems, RemovePMutex,
         RemoveVMutex, RemoveVSlots, Release
    <3> QED BY <3>1, <3>2
  <2>3. (front' + 1)..rear' \subseteq (front + 1)..rear
    <3>1. front \in Nat /\ rear \in Nat /\ rear' = rear /\ (front' = front \/ front' = front + 1)
      BY <2>1 DEF SbufInv, Counters
    <3> QED BY <3>1
  <2> QED BY <2>1, <2>2, <2>3, <1>1 DEF SbufInv, InOrder
<1>8. Owned'
  <2>1. CASE RemoveFetch(w)
    <3>1. \A v \in Worker : v # w => conn_fd'[v] = conn_fd[v] /\ pc'[v] = pc[v]
      BY <2>1, <1>4 DEF SbufInv, Counters, Locations, RemoveFetch, Goto
    <3>2. conn_fd'[w] = front + 1 /\ pc'[w] = "rem_V_mutex" /\ front' = front + 1
      BY <2>1, <1>4, Zenon DEF SbufInv, Counters, Locations, RemoveFetch, Goto
    <3>3. \A v \in Worker : conn_fd[v] # front + 1 /\ (conn_fd[v] \in 1..front => conn_fd[v] \in 1..front')
      BY <3>2 DEF SbufInv, Counters, Owned
    <3>4. front + 1 \in 1..front' /\ front + 1 # NoConn
      BY <3>2 DEF SbufInv, Counters
    <3> QED BY <3>1, <3>2, <3>3, <3>4 DEF SbufInv, Owned
  <2>2. CASE RemovePItems(w) \/ RemovePMutex(w) \/ RemoveVMutex(w) \/ RemoveVSlots(w)
    BY <2>2 DEF SbufInv, Counters, Locations, Owned, RemovePItems, RemovePMutex,
       RemoveVMutex, RemoveVSlots, Goto
  <2>3. CASE Release(w)
    BY <2>3 DEF SbufInv, Counters, Locations, Owned, Release, Goto
  <2> QED BY <2>1, <2>2, <2>3 DEF WorkerStep, RemoveStep
<1> QED BY <1>1, <1>3, <1>5, <1>6, <1>7, <1>8 DEF SbufInv

\* The invariant holds of the buffer as long as the int indices do not wrap.
THEOREM SbufInvariant ==
  ASSUME NoWrap
  PROVE  SbufSpec => []SbufInv
<1>1. SbufInit => SbufInv
  BY SbufInvInit
<1>2. SbufInv /\ [SbufNext]_svars => SbufInv'
  <2> SUFFICES ASSUME SbufInv, [SbufNext]_svars
               PROVE  SbufInv'
    OBVIOUS
  <2>1. CASE MainStep
    BY <2>1, MainStepInv
  <2>2. CASE \E w \in Worker : WorkerStep(w)
    BY <2>2, WorkerStepInv
  <2>3. CASE UNCHANGED svars
    BY <2>3 DEF svars, SbufInv, Counters, Locations, MutexProtectsBuf, InCritical,
       PlacesAccounted, Length, Filling, Announcing, Claiming, Returning, InOrder, Owned
  <2> QED BY <2>1, <2>2, <2>3 DEF SbufNext, SbufIdle
<1> QED BY <1>1, <1>2, PTL DEF SbufSpec

\* "Protects accesses to buf" (sbuf.h): at most one thread is between P(mutex)
\* and V(mutex).  Unlike the rest this does not depend on how many connections
\* are accepted: it holds also after front and rear have wrapped at INT_MAX.
THEOREM SbufMutualExclusion == SbufSpec => []MutexProtectsBuf
<1> DEFINE MInv == Locations /\ mutex \in 0..1 /\ MutexProtectsBuf
<1> USE SbufAssumption DEF Thread
<1>1. SbufInit => MInv
  BY DEF SbufInit, Locations, MutexProtectsBuf, InCritical, InsertPc, RemovePc
<1>2. MInv /\ [SbufNext]_svars => MInv'
  <2> SUFFICES ASSUME MInv, [SbufNext]_svars
               PROVE  MInv'
    OBVIOUS
  <2>1. CASE MainStep
    <3>1. Locations'
      BY <2>1 DEF Locations, MainStep, Accept, InsertPSlots, InsertPMutex, InsertStore,
         InsertVMutex, InsertVItems, Goto, InsertPc
    <3>2. CASE InsertPMutex
      BY <3>1, <3>2, MutexHandover, Zenon DEF Locations, InsertPMutex, Goto, P, InCritical
    <3>3. CASE InsertVMutex
      BY <3>1, <3>3, MutexHandover, Zenon DEF Locations, InsertVMutex, Goto, V, InCritical
    <3>4. CASE Accept \/ InsertPSlots \/ InsertStore \/ InsertVItems
      BY <3>1, <3>4, MutexHandover DEF Locations, Accept, InsertPSlots, InsertStore,
         InsertVItems, Goto, InCritical
    <3> QED BY <2>1, <3>2, <3>3, <3>4 DEF MainStep
  <2>2. ASSUME NEW w \in Worker, WorkerStep(w)
        PROVE  MInv'
    <3>1. Locations'
      BY <2>2 DEF Locations, WorkerStep, RemoveStep, RemovePItems, RemovePMutex,
         RemoveFetch, RemoveVMutex, RemoveVSlots, Release, Goto, RemovePc
    <3>2. CASE RemovePMutex(w)
      BY <3>1, <3>2, MutexHandover, Zenon DEF Locations, RemovePMutex, Goto, P, InCritical
    <3>3. CASE RemoveVMutex(w)
      BY <3>1, <3>3, MutexHandover, Zenon DEF Locations, RemoveVMutex, Goto, V, InCritical
    <3>4. CASE RemovePItems(w) \/ RemoveFetch(w) \/ RemoveVSlots(w) \/ Release(w)
      BY <3>1, <3>4, MutexHandover DEF Locations, RemovePItems, RemoveFetch,
         RemoveVSlots, Release, Goto, InCritical
    <3> QED BY <2>2, <3>2, <3>3, <3>4 DEF WorkerStep, RemoveStep
  <2>3. CASE UNCHANGED svars
    BY <2>3 DEF svars, Locations, MutexProtectsBuf, InCritical
  <2> QED BY <2>1, <2>2, <2>3 DEF SbufNext, SbufIdle
<1>3. MInv => MutexProtectsBuf
  OBVIOUS
<1> HIDE DEF MInv
<1> QED BY <1>1, <1>2, <1>3, PTL DEF SbufSpec

\* Type correctness: the semaphores never exceed the size sbuf_init gave them,
\* and the indices stay in the range of an int.
THEOREM SbufTypeCorrect ==
  ASSUME NoWrap
  PROVE  SbufSpec => []SbufTypeOK
<1>1. SbufInv => SbufTypeOK
  <2> SUFFICES ASSUME SbufInv PROVE SbufTypeOK
    OBVIOUS
  <2>1. Filling \in Nat /\ Announcing \in Nat
    BY DEF Filling, Announcing
  <2>2. front =< rear /\ rear =< accepted /\ slots =< n /\ items =< n
    BY <2>1, FiniteCounts, SbufAssumption
       DEF SbufInv, Counters, PlacesAccounted, Length, InOrder
  <2>3. accepted =< IntMax
    BY SbufAssumption DEF SbufInv, Counters, NoWrap
  <2>4. /\ slots \in 0..n /\ items \in 0..n
        /\ front \in (-IntMax - 1)..IntMax /\ rear \in (-IntMax - 1)..IntMax
    <3>1. /\ front \in Nat /\ rear \in Nat /\ slots \in Nat /\ items \in Nat
          /\ accepted \in Nat /\ IntMax \in Nat /\ n \in Nat
      BY SbufAssumption DEF SbufInv, Counters
    <3> QED BY <3>1, <2>2, <2>3
  <2> QED BY <2>4 DEF SbufInv, Counters, Locations, SbufTypeOK
<1> QED BY <1>1, SbufInvariant, PTL

\* At most one thread is between P(mutex) and V(mutex), the semaphores account
\* for every place of the buffer, and every access falls inside the array.
THEOREM SbufSafe ==
  ASSUME NoWrap
  PROVE  SbufSpec => [](MutexProtectsBuf /\ PlacesAccounted /\ IndexInArray)
<1>1. SbufInv => MutexProtectsBuf /\ PlacesAccounted /\ IndexInArray
  <2> SUFFICES ASSUME SbufInv PROVE IndexInArray
    BY DEF SbufInv
  <2>1. ASSUME NEW i \in Nat, i < IntMax
        PROVE  InBounds(Remainder(Increment(i)))
    <3>1. Increment(i) = i + 1 /\ i + 1 \in Nat /\ i + 1 >= 0
      BY <2>1, SbufAssumption DEF Increment
    <3> QED BY <3>1, ModRange DEF Remainder, InBounds
  <2>2. front \in Nat /\ rear \in Nat /\ IntMax \in Nat /\ accepted \in Nat /\ accepted =< IntMax
    BY SbufAssumption DEF SbufInv, Counters, NoWrap
  <2>3. front =< rear /\ rear =< accepted
    BY FiniteCounts, SbufAssumption
       DEF SbufInv, Counters, PlacesAccounted, Length, Announcing, InOrder
  <2>4. ASSUME pc[Main] = "ins_store"
        PROVE  rear < IntMax
    <3>1. accepted = rear + 1
      BY <2>4 DEF SbufInv, InOrder
    <3> QED BY <3>1, <2>2
  <2>5. ASSUME NEW w \in Worker, pc[w] = "rem_fetch"
        PROVE  front < IntMax
    <3>1. Claiming # {}
      BY <2>5 DEF Claiming
    <3>2. Cardinality(Claiming) >= 1
      BY <3>1, FiniteCounts, FS_EmptySet
    <3>3. front < rear
      BY <3>2, <2>2, FiniteCounts DEF SbufInv, Counters, PlacesAccounted, Length, Announcing
    <3> QED BY <3>3, <2>2, <2>3
  <2> QED BY <2>1, <2>2, <2>4, <2>5 DEF IndexInArray
<1> QED BY <1>1, SbufInvariant, PTL
-----------------------------------------------------------------------------
(* sbuf implements WorkQueue.                                              *)

\* What waits in the buffer are the connections front + 1 to rear, in order.
LEMMA QueueIs ==
  SbufInv => /\ Length \in Nat /\ rear = front + Length /\ front \in Nat
             /\ Queue = [i \in 1..Length |-> front + i]
<1> SUFFICES ASSUME SbufInv
             PROVE  /\ Length \in Nat /\ rear = front + Length /\ front \in Nat
                    /\ Queue = [i \in 1..Length |-> front + i]
  OBVIOUS
<1>1. Length \in Nat /\ rear = front + Length /\ front \in Nat
  BY FiniteCounts DEF SbufInv, Counters, PlacesAccounted, Announcing, Length
<1>2. \A i \in 1..Length : front + i \in (front + 1)..rear
  BY <1>1
<1>3. \A i \in 1..Length : buf[(front + i) % n] = front + i
  BY <1>2 DEF SbufInv, InOrder
<1> QED BY <1>1, <1>3 DEF Queue

\* The same, after a step that keeps the invariant.
LEMMA QueueIsNext ==
  SbufInv' => Queue' = [i \in 1..Length' |-> front' + i]
<1>1. (SbufInv => Queue = [i \in 1..Length |-> front + i])'
  BY QueueIs, PTL
<1> QED BY <1>1

\* sbuf_insert stores the connection at the end of the queue.
LEMMA StoreSubmits ==
  ASSUME SbufInv, SbufInv', InsertStore,
         rear' = rear + 1, accepted = rear + 1, Length < n
  PROVE  Handoff!Submit(rear + 1) /\ rear + 1 \in Conn
<1> DEFINE L == Length
           q == [i \in 1..L |-> front + i]
<1>1. L \in Nat /\ rear = front + L /\ front \in Nat /\ Queue = q
  BY QueueIs
<1>2. front' = front /\ Length' = L + 1
  BY <1>1 DEF InsertStore, Length
<1>3. Queue' = [i \in 1..(L + 1) |-> front + i]
  BY QueueIsNext, <1>2
<1> HIDE DEF L
<1>4. q \in Seq(Nat) /\ Len(q) = L
  BY <1>1
<1>5. Append(q, rear + 1) = [i \in 1..(L + 1) |-> front + i]
  BY <1>1, <1>4
<1>6. Holding' = Holding
  BY SbufAssumption DEF Holding, InsertStore
<1>7. rear + 1 \notin {q[i] : i \in 1..Len(q)}
  BY <1>1, <1>4
<1>8. rear + 1 \notin {Holding[w] : w \in Worker}
  BY <1>1 DEF Holding, SbufInv, Owned, NoConn
<1>9. L < n
  BY DEF L
<1>10. rear + 1 \in Conn
  BY <1>1, SbufAssumption DEF SbufInv, Counters, Conn
<1> QED
  BY <1>1, <1>3, <1>4, <1>5, <1>6, <1>7, <1>8, <1>9, <1>10
     DEF Handoff!Submit, Handoff!Waiting, Handoff!Serving

\* sbuf_remove hands the first connection of the queue to the worker.
LEMMA FetchStarts ==
  ASSUME SbufInv, SbufInv', NEW w \in Worker, pc[w] = "rem_fetch",
         front' = front + 1, rear' = rear, front < rear,
         conn_fd' = [conn_fd EXCEPT ![w] = front + 1]
  PROVE  Handoff!Start(w)
<1> DEFINE L == Length
           q == [i \in 1..L |-> front + i]
<1>1. L \in Nat /\ rear = front + L /\ front \in Nat /\ Queue = q
  BY QueueIs
<1>2. L >= 1 /\ Length' = L - 1
  BY <1>1 DEF Length
<1>3. Queue' = [i \in 1..(L - 1) |-> (front + 1) + i]
  BY QueueIsNext, <1>2
<1> HIDE DEF L
<1>4. q \in Seq(Nat) /\ Len(q) = L
  BY <1>1
<1>5. Tail(q) = [i \in 1..(L - 1) |-> front + (i + 1)]
  BY <1>1, <1>2, <1>4
<1>6. Queue' = Tail(q)
  BY <1>1, <1>2, <1>3, <1>5
<1>7. q # << >> /\ Head(q) = front + 1
  <2>1. Len(q) # 0 /\ q[1] = front + 1
    BY <1>1, <1>2, <1>4
  <2> HIDE DEF q
  <2>2. q # << >> /\ Head(q) = q[1]
    BY <2>1, <1>4
  <2> QED BY <2>1, <2>2
<1>8. Holding[w] = NoConn /\ Holding' = [Holding EXCEPT ![w] = front + 1]
  BY SbufAssumption, Zenon DEF SbufInv, Owned, Counters, Holding, Thread
<1> QED BY <1>1, <1>6, <1>7, <1>8, Zenon DEF Handoff!Start

\* The buffer hands every connection to one worker, in order of acceptance,
\* whatever the number of threads, places and connections.
THEOREM SbufImplementsWorkQueue ==
  ASSUME NoWrap
  PROVE  SbufSpec => HandoffSpec
<1>1. SbufInit => Handoff!Init
  <2> SUFFICES ASSUME SbufInit PROVE Handoff!Init
    OBVIOUS
  <2>1. Queue = << >>
    BY DEF SbufInit, Queue, Length
  <2> QED BY <2>1 DEF SbufInit, Handoff!Init, Holding, Thread, NoConn
<1>2. SbufInv /\ SbufInv' /\ [SbufNext]_svars => [Handoff!Next]_(Handoff!qvars)
  <2> SUFFICES ASSUME SbufInv, SbufInv', [SbufNext]_svars
               PROVE  [Handoff!Next]_(Handoff!qvars)
    OBVIOUS
  <2> USE DEF Handoff!qvars
  <2>1. CASE InsertStore
    <3>1. accepted = rear + 1 /\ rear \in Nat /\ accepted =< IntMax /\ IntMax \in Nat
      BY <2>1, SbufAssumption DEF SbufInv, Counters, InOrder, InsertStore, Goto, NoWrap
    <3>2. rear' = rear + 1
      BY <2>1, <3>1 DEF InsertStore, Increment
    <3>3. Length < n
      BY <2>1, FiniteCounts, SbufAssumption
         DEF SbufInv, Counters, PlacesAccounted, Filling, Length, InsertStore, Goto
    <3> QED BY <2>1, <3>1, <3>2, <3>3, StoreSubmits DEF Handoff!Next
  <2>2. ASSUME NEW w \in Worker, RemoveFetch(w)
        PROVE  Handoff!Start(w)
    <3>1. pc[w] = "rem_fetch" /\ rear' = rear
      BY <2>2 DEF RemoveFetch, Goto
    <3>2. front < rear
      <4>1. Claiming # {}
        BY <3>1 DEF Claiming
      <4>2. Cardinality(Claiming) >= 1
        BY <4>1, FiniteCounts, FS_EmptySet
      <4>3. Announcing \in Nat /\ items \in Nat /\ front \in Nat /\ rear \in Nat
        BY DEF Announcing, SbufInv, Counters
      <4>4. items + Cardinality(Claiming) + Announcing = rear - front
        BY DEF SbufInv, PlacesAccounted, Length
      <4> QED BY <4>2, <4>3, <4>4, FiniteCounts
    <3>3. front \in Nat /\ front + 1 \in Nat /\ Increment(front) = front + 1
      BY <3>2, SbufAssumption DEF SbufInv, Counters, InOrder, NoWrap, Increment
    <3>4. InBounds((front + 1) % n) /\ Remainder(front + 1) = (front + 1) % n
      BY <3>3, ModRange DEF InBounds, Remainder
    <3>5. buf[(front + 1) % n] = front + 1
      <4>1. front + 1 \in (front + 1)..rear
        BY <3>2, <3>3 DEF SbufInv, Counters
      <4> QED BY <4>1 DEF SbufInv, InOrder
    <3>6. front' = front + 1 /\ conn_fd' = [conn_fd EXCEPT ![w] = front + 1]
      BY <2>2, <3>3, <3>4, <3>5, Zenon DEF RemoveFetch
    <3> QED BY <3>1, <3>2, <3>6, FetchStarts, Zenon
  <2>3. ASSUME NEW w \in Worker, Release(w)
        PROVE  Handoff!Finish(w)
    <3>1. Queue' = Queue
      BY <2>3 DEF Release, Queue, Length
    <3>2. Holding[w] # NoConn
      BY <2>3 DEF SbufInv, Counters, Owned, Release, Goto, Holding, NoConn
    <3>3. Holding' = [Holding EXCEPT ![w] = NoConn]
      BY <2>3, Zenon DEF SbufInv, Counters, Release, Holding, Thread
    <3> QED BY <3>1, <3>2, <3>3 DEF Handoff!Finish
  <2>4. ASSUME UNCHANGED <<front, rear, buf>>, \A w \in Worker : conn_fd'[w] = conn_fd[w]
        PROVE  UNCHANGED <<Queue, Holding>>
    BY <2>4 DEF Queue, Length, Holding
  <2>5. CASE \/ Accept \/ InsertPSlots \/ InsertPMutex \/ InsertVMutex \/ InsertVItems
             \/ SbufIdle \/ UNCHANGED svars
             \/ \E w \in Worker : \/ RemovePItems(w) \/ RemovePMutex(w)
                                  \/ RemoveVMutex(w) \/ RemoveVSlots(w)
    <3>1. UNCHANGED <<front, rear, buf>> /\ \A w \in Worker : conn_fd'[w] = conn_fd[w]
      BY <2>5, SbufAssumption
         DEF SbufInv, Counters, Thread, svars, Accept, InsertPSlots, InsertPMutex, InsertVMutex,
             InsertVItems, SbufIdle, RemovePItems, RemovePMutex, RemoveVMutex, RemoveVSlots
    <3> QED BY <3>1, <2>4
  <2> QED BY <2>1, <2>2, <2>3, <2>5
        DEF SbufNext, MainStep, WorkerStep, RemoveStep, Handoff!Next
<1> QED BY <1>1, <1>2, SbufInvariant, PTL DEF SbufSpec, HandoffSpec, Handoff!Spec
=============================================================================
