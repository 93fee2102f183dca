-------------------------- MODULE FastCgiWakeProofs -------------------------
(***************************************************************************)
(* Counting threads and connections of fastcgi_server.c: whenever requests *)
(* wait, enough threads are awake to take them, and a client is turned     *)
(* away only when a whole ring of connections waits.                       *)
(***************************************************************************)
EXTENDS FastCgiRingProofs, FiniteSetTheorems

\* The ring, and who is awake.
WakeInv == MutexInv /\ FullWhenMet /\ NoIdleSleeper

ReadyPc == {"lock", "relock", "check"}

\* The threads that are awake for an application can be counted.
LEMMA ReadyFinite ==
  ASSUME NEW a \in App
  PROVE  /\ IsFiniteSet(Ready(a)) /\ Cardinality(Ready(a)) \in Nat
         /\ IsFiniteSet(Ready(a)') /\ Cardinality(Ready(a)') \in Nat
<1>1. Ready(a) \subseteq Thread /\ Ready(a)' \subseteq Thread
  BY DEF Ready, ThreadsOf
<1>2. IsFiniteSet(Ready(a)) /\ IsFiniteSet(Ready(a)')
  BY <1>1, FastCgiAssumption, FS_Subset
<1>. QED  BY <1>2, FS_CardinalityType

\* When one thread moves, the threads on their way to a ring change by that one.
LEMMA ReadyMoves ==
  ASSUME NEW t \in Thread, \A u \in Thread \ {t} : pc'[u] = pc[u],
         NEW a \in App, a = AppOf[t]
  PROVE  /\ pc[t] \notin ReadyPc /\ pc'[t] \in ReadyPc
              => Cardinality(Ready(a)') = Cardinality(Ready(a)) + 1
         /\ pc[t] \in ReadyPc /\ pc'[t] \notin ReadyPc
              => Cardinality(Ready(a)') = Cardinality(Ready(a)) - 1
         /\ (pc[t] \in ReadyPc <=> pc'[t] \in ReadyPc) => Ready(a)' = Ready(a)
         /\ \A b \in App \ {a} : Ready(b)' = Ready(b)
<1>1. ASSUME pc[t] \notin ReadyPc, pc'[t] \in ReadyPc
      PROVE  Cardinality(Ready(a)') = Cardinality(Ready(a)) + 1
  <2>1. t \notin Ready(a) /\ Ready(a)' = Ready(a) \cup {t}
    BY <1>1 DEF Ready, ReadyPc, ThreadsOf
  <2>. QED  BY <2>1, ReadyFinite, FS_AddElement, Zenon
<1>2. ASSUME pc[t] \in ReadyPc, pc'[t] \notin ReadyPc
      PROVE  Cardinality(Ready(a)') = Cardinality(Ready(a)) - 1
  <2>1. t \in Ready(a) /\ Ready(a)' = Ready(a) \ {t}
    BY <1>2 DEF Ready, ReadyPc, ThreadsOf
  <2>. QED  BY <2>1, ReadyFinite, FS_RemoveElement, Zenon
<1>3. (pc[t] \in ReadyPc <=> pc'[t] \in ReadyPc) => Ready(a)' = Ready(a)
  BY DEF Ready, ReadyPc, ThreadsOf
<1>4. \A b \in App \ {a} : Ready(b)' = Ready(b)
  BY DEF Ready, ThreadsOf
<1>. QED  BY <1>1, <1>2, <1>3, <1>4

\* At the start no request waits.
LEMMA InitWake == FastCgiInit => WakeInv
BY InitMutex DEF FastCgiInit, WakeInv, FullWhenMet, NoIdleSleeper

\* The accept loop adds a request and wakes a sleeper, if there is one.
LEMMA EnqueueWakes ==
  ASSUME WakeInv, FastCgiTypeOK', Enqueue
  PROVE  NoIdleSleeper'
<1>a. FastCgiTypeOK /\ LocalsSet /\ FullWhenMet /\ NoIdleSleeper /\ SleepersWait
      /\ pc \in [Thread -> ThreadPc] /\ requests_cond \in [App -> SUBSET Thread]
  BY MutexTypes DEF WakeInv, MutexInv
<1>b. app_index \in App /\ fd \in Conn
  BY <1>a, EnqueueLocals DEF Enqueue, Found
<1>1. PICK a \in App : a = app_index
  BY <1>b
<1>2. PICK c \in Conn : c = fd
  BY <1>b
<1>3. /\ QueueLen(a)' = QueueLen(a) + 1
      /\ \A b \in App \ {a} : QueueLen(b)' = QueueLen(b)
  BY <1>a, <1>1, <1>2, EnqueueAppends, Zenon
<1>4. CASE requests_cond[a] = {} /\ UNCHANGED <<requests_cond, pc>>
  <2>1. \A b \in App : Ready(b)' = Ready(b)
    BY <1>4 DEF Ready
  <2>. QED  BY <1>a, <1>3, <1>4, <2>1 DEF NoIdleSleeper
<1>5. ASSUME NEW t \in requests_cond[a],
             requests_cond' = [requests_cond EXCEPT ![a] = @ \ {t}],
             pc' = [pc EXCEPT ![t] = "relock"]
      PROVE  NoIdleSleeper'
  <2>1. t \in Thread /\ AppOf[t] = a /\ pc[t] = "waiting"
    BY <1>a, <1>5 DEF SleepersWait
  <2>a. pc'[t] = "relock" /\ \A u \in Thread \ {t} : pc'[u] = pc[u]
    BY <1>a, <1>5, <2>1, PcSet, Zenon
  <2>b. pc[t] \notin ReadyPc /\ pc'[t] \in ReadyPc
    BY <2>1, <2>a DEF ReadyPc
  <2>2. /\ Cardinality(Ready(a)') = Cardinality(Ready(a)) + 1
        /\ \A b \in App \ {a} : Ready(b)' = Ready(b)
    BY <2>1, <2>a, <2>b, ReadyMoves, Zenon
  <2>3. QueueLen(a) =< Cardinality(Ready(a))
    BY <1>a, <1>5 DEF NoIdleSleeper
  <2>4. QueueLen(a)' =< Cardinality(Ready(a)')
    BY <1>a, <1>3, <2>2, <2>3, QueueType, ReadyFinite, FastCgiAssumption
  <2>5. \A b \in App \ {a} : requests_cond'[b] = requests_cond[b]
    BY <1>a, <1>5
  <2>. QED  BY <1>a, <1>3, <2>2, <2>4, <2>5 DEF NoIdleSleeper
<1>. QED  BY <1>1, <1>4, <1>5 DEF Enqueue, Signal

\* A thread goes to sleep only when its ring is empty, and leaves the ring for
\* its plugin only with one of the requests.
LEMMA ThreadWakes ==
  ASSUME WakeInv, FastCgiTypeOK', NEW t \in Thread, ThreadStep(t) \/ SpuriousWakeup(t)
  PROVE  NoIdleSleeper'
<1>a. FastCgiTypeOK /\ FullWhenMet /\ NoIdleSleeper
      /\ pc \in [Thread -> ThreadPc] /\ requests_cond \in [App -> SUBSET Thread]
  BY MutexTypes DEF WakeInv, MutexInv
<1>b. AppOf[t] \in App
  BY FastCgiAssumption
<1>c. PICK a \in App : a = AppOf[t]
  BY <1>b
<1>1. CASE Load(t) \/ LockQueue(t) \/ UnlockQueue(t) \/ Serve(t) \/ SpuriousWakeup(t)
  <2>1. UNCHANGED ring
    BY <1>1 DEF Load, LockQueue, UnlockQueue, Serve, SpuriousWakeup
  <2>2. \A b \in App : QueueLen(b)' = QueueLen(b)
    BY <2>1, QueuesKept
  <2>3. \A b \in App : requests_cond'[b] \subseteq requests_cond[b]
    BY <1>1, <1>a, <1>b DEF Load, LockQueue, UnlockQueue, Serve, SpuriousWakeup
  <2>4. /\ \A u \in Thread \ {t} : pc'[u] = pc[u]
        /\ pc[t] \in ReadyPc => pc'[t] \in ReadyPc
    BY <1>1, <1>a DEF Load, LockQueue, UnlockQueue, Serve, SpuriousWakeup, ReadyPc
  <2>5. /\ \/ Cardinality(Ready(a)') = Cardinality(Ready(a)) + 1
           \/ Ready(a)' = Ready(a)
        /\ \A b \in App \ {a} : Ready(b)' = Ready(b)
    BY <1>c, <2>4, ReadyMoves, Zenon
  <2>6. ASSUME NEW b \in App, requests_cond'[b] # {}
        PROVE  QueueLen(b)' =< Cardinality(Ready(b)')
    <3>1. QueueLen(b) =< Cardinality(Ready(b))
      BY <1>a, <2>3, <2>6 DEF NoIdleSleeper
    <3>2. \/ Cardinality(Ready(b)') = Cardinality(Ready(b)) + 1
          \/ Cardinality(Ready(b)') = Cardinality(Ready(b))
      BY <2>5
    <3>. QED  BY <1>a, <2>2, <3>1, <3>2, QueueType, ReadyFinite, FastCgiAssumption
  <2>. QED  BY <2>6 DEF NoIdleSleeper
<1>2. CASE Wait(t)
  <2>1. UNCHANGED ring /\ pc' = [pc EXCEPT ![t] = "waiting"] /\ Empty(a)
    BY <1>2, <1>c DEF Wait
  <2>2. \A b \in App : QueueLen(b)' = QueueLen(b)
    BY <2>1, QueuesKept
  <2>3. QueueLen(a)' = 0
    BY <1>a, <2>1, <2>2, RingTypes DEF Empty, QueueLen
  <2>4. \A u \in Thread \ {t} : pc'[u] = pc[u]
    BY <1>a, <2>1, PcSet, Zenon
  <2>5. \A b \in App \ {a} : Ready(b)' = Ready(b)
    BY <1>c, <2>4, ReadyMoves, Zenon
  <2>6. \A b \in App \ {a} : requests_cond'[b] = requests_cond[b]
    BY <1>2, <1>a, <1>c DEF Wait
  <2>7. QueueLen(a)' =< Cardinality(Ready(a)')
    BY <2>3, ReadyFinite
  <2>. QED  BY <1>a, <2>2, <2>5, <2>6, <2>7 DEF NoIdleSleeper
<1>3. CASE Take(t)
  <2>1. /\ QueueLen(a) >= 1 /\ QueueLen(a)' = QueueLen(a) - 1
        /\ \A b \in App \ {a} : QueueLen(b)' = QueueLen(b)
    BY <1>3, <1>a, <1>c, TakeRemoves, Zenon
  <2>2. pc[t] = "check" /\ pc' = [pc EXCEPT ![t] = "unlock"] /\ UNCHANGED requests_cond
    BY <1>3 DEF Take
  <2>a. pc'[t] = "unlock" /\ \A u \in Thread \ {t} : pc'[u] = pc[u]
    BY <1>a, <2>2, PcSet, Zenon
  <2>b. pc[t] \in ReadyPc /\ pc'[t] \notin ReadyPc
    BY <2>2, <2>a DEF ReadyPc
  <2>3. /\ Cardinality(Ready(a)') = Cardinality(Ready(a)) - 1
        /\ \A b \in App \ {a} : Ready(b)' = Ready(b)
    BY <1>c, <2>a, <2>b, ReadyMoves, Zenon
  <2>c. requests_cond[a] # {} => QueueLen(a) =< Cardinality(Ready(a))
    BY <1>a DEF NoIdleSleeper
  <2>d. QueueLen(a) \in Nat /\ Cardinality(Ready(a)) \in Nat
    BY <1>a, QueueType, ReadyFinite, FastCgiAssumption
  <2>4. requests_cond[a] # {} => QueueLen(a)' =< Cardinality(Ready(a)')
    BY <2>1, <2>3, <2>c, <2>d
  <2>. QED  BY <1>a, <2>1, <2>2, <2>3, <2>4 DEF NoIdleSleeper
<1>. QED  BY <1>1, <1>2, <1>3 DEF ThreadStep, QueueStep

\* No step of the server leaves a request to a sleeper.
LEMMA NextWake == WakeInv /\ [FastCgiNext]_fvars => WakeInv'
<1> SUFFICES ASSUME WakeInv, [FastCgiNext]_fvars PROVE NoIdleSleeper'
  BY NextMutex, NextFull DEF WakeInv, MutexInv
<1>1. FastCgiTypeOK'
  BY NextType DEF WakeInv, MutexInv
<1>2. CASE UNCHANGED <<ring, requests_cond, pc>>
  <2>1. \A b \in App : QueueLen(b)' = QueueLen(b) /\ Ready(b)' = Ready(b)
    BY <1>2, QueuesKept DEF Ready
  <2>. QED  BY <1>2, <2>1 DEF WakeInv, NoIdleSleeper
<1>3. CASE ClientStep \/ (AcceptorStep /\ ~Enqueue) \/ FastCgiIdle \/ UNCHANGED fvars
  BY <1>2, <1>3 DEF ClientStep, Connect, Send, AcceptorStep, Accept, ReadName, Lock, QueueFull,
       Unlock, AnswerError, FastCgiIdle, fvars
<1>. QED  BY <1>1, <1>3, EnqueueWakes, ThreadWakes DEF FastCgiNext

\* "It'll awake one of sleeping Thread to server this Request": with any number
\* of applications, threads and clients, spurious wakeups included, no request
\* waits in a ring for a busy thread while an idle one sleeps on requests_cond.
THEOREM SleepersWoken == FastCgiSpec => []NoIdleSleeper
<1>1. WakeInv => NoIdleSleeper
  BY DEF WakeInv
<1>. QED  BY <1>1, InitWake, NextWake, PTL DEF FastCgiSpec
-----------------------------------------------------------------------------
\* The accept loop turns a client away with 500 only if MAX_REQUESTS accepted
\* requests for the application are neither answered nor taken by a thread, and
\* still are when it gives the mutex up: is_queue_full never lags behind.
THEOREM RejectedWhenFull == FastCgiSpec => []RejectedOnlyWhenFull
<1>1. HandInv => RejectedOnlyWhenFull
  <2> SUFFICES ASSUME HandInv, apc = "unlock_full"
               PROVE  Cardinality(Unserved(app_index)) = MAX_REQUESTS
    BY DEF RejectedOnlyWhenFull
  <2>1. PICK a \in App : a = app_index
    BY HandTypes DEF LocalsSet, Found
  <2>2. Pending /\ QueueLen(a) = MAX_REQUESTS /\ MAX_REQUESTS \in Nat
    BY <2>1, FastCgiAssumption DEF HandInv, FullSeen, Pending, QueueLen
  <2>3. ASSUME NEW c \in Unserved(a)  PROVE c \in InRing(a)
    <3>1. /\ c \in 1..fd /\ Passed(c) /\ \A t \in Thread : sockfd[t] # c
          /\ \A b \in App \ {a} : \A i \in 1..QueueLen(b) : Queue(b)[i] # c
      BY <2>2 DEF Unserved, Passed
    <3>2. PICK b \in App : c \in InRing(b)
      BY <3>1 DEF HandInv, NoneLost
    <3>3. PICK i \in 1..QueueLen(b) : c = Queue(b)[i]
      BY <3>2 DEF InRing
    <3>4. b = a
      BY <3>1, <3>3
    <3>. QED  BY <3>2, <3>4
  <2>4. ASSUME NEW c \in InRing(a)  PROVE c \in Unserved(a)
    <3>1. PICK i \in 1..QueueLen(a) : c = Queue(a)[i]
      BY DEF InRing
    <3>2. Passed(c) /\ \A t \in Thread : sockfd[t] # c
      BY <3>1 DEF HandInv, RingHeld
    <3>3. \A b \in App \ {a} : \A j \in 1..QueueLen(b) : Queue(b)[j] # c
      BY <3>1, OnePlace, Zenon
    <3>. QED  BY <2>2, <3>2, <3>3 DEF Unserved, Passed
  <2>5. Unserved(a) = InRing(a)
    BY <2>3, <2>4
  <2> DEFINE f == [i \in 1..MAX_REQUESTS |-> Queue(a)[i]]
  <2>6. f \in Bijection(1..MAX_REQUESTS, InRing(a))
    <3>1. f \in [1..MAX_REQUESTS -> InRing(a)]
      BY <2>2 DEF InRing
    <3>2. \A i, j \in 1..MAX_REQUESTS : f[i] = f[j] => i = j
      <4> SUFFICES ASSUME NEW i \in 1..QueueLen(a), NEW j \in 1..QueueLen(a),
                          Queue(a)[i] = Queue(a)[j]
                   PROVE  i = j
        BY <2>2
      <4>. QED  BY OnePlace, Zenon
    <3>3. \A c \in InRing(a) : \E i \in 1..MAX_REQUESTS : f[i] = c
      BY <2>2 DEF InRing
    <3>4. DOMAIN f = 1..MAX_REQUESTS
      OBVIOUS
    <3> HIDE DEF f
    <3>. QED  BY <3>1, <3>2, <3>3, <3>4 DEF Bijection, Injection, IsInjective, Surjection
  <2>7. /\ IsFiniteSet(1..MAX_REQUESTS)
        /\ Cardinality(1..MAX_REQUESTS) = MAX_REQUESTS
    BY <2>2, FS_Interval
  <2>8. Cardinality(InRing(a)) = MAX_REQUESTS
    <3> HIDE DEF f
    <3>1. ExistsBijection(1..MAX_REQUESTS, InRing(a))
      BY <2>6 DEF ExistsBijection
    <3>. QED  BY <2>7, <3>1, FS_Bijection
  <2>. QED  BY <2>1, <2>5, <2>8
<1>. QED  BY <1>1, OneOwner, PTL
=============================================================================
