-------------------------- MODULE FastCgiRingProofs -------------------------
(***************************************************************************)
(* The rings of fastcgi_server.c hand their connections over in order and  *)
(* each to one thread: for any applications, threads, ring size and number *)
(* of clients.                                                             *)
(***************************************************************************)
EXTENDS FastCgiProofs, SequenceTheorems

\* is_queue_full tells a full ring from an empty one.
FullWhenMet == \A a \in App : is_queue_full[a] = 1 => get_index[a] = put_index[a]

InRing(a) == {Queue(a)[i] : i \in 1..QueueLen(a)}

\* The accept loop has yet to pass on the connection it accepted last.
Pending == apc \notin {"accept", "unlock"}

\* Connection c was accepted, passed on, and not answered.
Passed(c) == c \in 1..fd /\ (Pending => c # fd) /\ answer[c] = None

\* What waits in a ring was passed on, and waits at one place only.
RingHeld ==
  \A a \in App : \A i \in 1..QueueLen(a) :
    Passed(Queue(a)[i]) /\ \A t \in Thread : sockfd[t] # Queue(a)[i]

RingDistinct ==
  \A a, b \in App : \A i \in 1..QueueLen(a), j \in 1..QueueLen(b) :
    Queue(a)[i] = Queue(b)[j] => a = b /\ i = j

\* A thread holds a connection from Take to Serve, and no other thread does.
ThreadHeld ==
  \A t \in Thread : IF pc[t] \in {"unlock", "serve"} THEN Passed(sockfd[t])
                                                     ELSE sockfd[t] = NoConn

ThreadDistinct ==
  \A t, u \in Thread : sockfd[t] = sockfd[u] /\ sockfd[t] # NoConn => t = u

\* Nobody is answered before the accept loop has passed the connection on.
Fresh == \A c \in Conn : c > fd \/ (Pending /\ c = fd) => answer[c] = None

\* No connection is lost: one that was passed on and is not answered waits in a
\* ring or is held by a thread.
NoneLost ==
  \A c \in 1..fd : Passed(c) => \/ \E t \in Thread : sockfd[t] = c
                                \/ \E a \in App : c \in InRing(a)

FullSeen == apc = "unlock_full" => is_queue_full[app_index] = 1

HandInv ==
  /\ MutexInv /\ FullWhenMet
  /\ RingHeld /\ RingDistinct /\ ThreadHeld /\ ThreadDistinct
  /\ Fresh /\ NoneLost /\ FullSeen
-----------------------------------------------------------------------------
(* The ring as a queue.                                                    *)

\* The indices and the flag of a ring, as numbers.
LEMMA RingTypes ==
  ASSUME FastCgiTypeOK, NEW a \in App
  PROVE  /\ MAX_REQUESTS \in Nat \ {0}
         /\ get_index[a] \in 0..(MAX_REQUESTS - 1) /\ put_index[a] \in 0..(MAX_REQUESTS - 1)
         /\ is_queue_full[a] \in 0..1
         /\ accepted_requests[a] \in [0..(MAX_REQUESTS - 1) -> Conn \cup {NoConn}]
BY FastCgiAssumption DEF FastCgiTypeOK

\* What lies between get_index and put_index is a sequence of connections.
LEMMA QueueType ==
  ASSUME FastCgiTypeOK, NEW a \in App
  PROVE  /\ QueueLen(a) \in 0..MAX_REQUESTS
         /\ \A i \in 1..QueueLen(a) : /\ Place(a, i - 1) \in 0..(MAX_REQUESTS - 1)
                                       /\ Queue(a)[i] = accepted_requests[a][Place(a, i - 1)]
         /\ Queue(a) \in Seq(Conn \cup {NoConn}) /\ Len(Queue(a)) = QueueLen(a)
<1>1. QueueLen(a) \in 0..MAX_REQUESTS
  BY RingTypes DEF QueueLen
<1>2. \A i \in 1..QueueLen(a) : Place(a, i - 1) \in 0..(MAX_REQUESTS - 1)
  BY <1>1, RingTypes DEF Place
<1>3. \A i \in 1..QueueLen(a) : accepted_requests[a][Place(a, i - 1)] \in Conn \cup {NoConn}
  BY <1>2, RingTypes
<1>4. Queue(a) \in Seq(Conn \cup {NoConn}) /\ Len(Queue(a)) = QueueLen(a)
  <2> DEFINE m == QueueLen(a)
             q == [i \in 1..m |-> accepted_requests[a][Place(a, i - 1)]]
  <2>1. m \in Nat /\ q \in [1..m -> Conn \cup {NoConn}]
    BY <1>1, <1>3, RingTypes
  <2> HIDE DEF m
  <2>2. q \in Seq(Conn \cup {NoConn}) /\ Len(q) = m
    BY <2>1
  <2>. QED  BY <2>2, Zenon DEF Queue, m
<1>. QED  BY <1>1, <1>2, <1>4 DEF Queue

\* A ring whose fields a step does not touch.
LEMMA SameQueue ==
  ASSUME NEW a \in App,
         accepted_requests'[a] = accepted_requests[a], get_index'[a] = get_index[a],
         put_index'[a] = put_index[a], is_queue_full'[a] = is_queue_full[a]
  PROVE  QueueLen(a)' = QueueLen(a) /\ Queue(a)' = Queue(a)
BY DEF QueueLen, Queue, Place

\* accepted_requests[put_index] = fd; ++put_index; is_queue_full if they meet.
LEMMA Appended ==
  ASSUME FastCgiTypeOK, FullWhenMet, FastCgiTypeOK', NEW a \in App, NEW c \in Conn,
         is_queue_full[a] = 0,
         accepted_requests'[a] = [accepted_requests[a] EXCEPT ![put_index[a]] = c],
         get_index'[a] = get_index[a],
         put_index'[a] = Advance(put_index[a]),
         is_queue_full'[a] = IF get_index[a] = put_index'[a] THEN 1 ELSE 0
  PROVE  /\ QueueLen(a) < MAX_REQUESTS
         /\ QueueLen(a)' = QueueLen(a) + 1
         /\ \A i \in 1..QueueLen(a) : Queue(a)'[i] = Queue(a)[i]
         /\ Queue(a)'[QueueLen(a) + 1] = c
         /\ Queue(a)' = Append(Queue(a), c)
<1> DEFINE g == get_index[a]
           p == put_index[a]
           N == MAX_REQUESTS
<1>1. N \in Nat \ {0} /\ g \in 0..(N - 1) /\ p \in 0..(N - 1)
  BY RingTypes
<1>2. QueueLen(a) = IF p >= g THEN p - g ELSE p - g + N
  BY DEF QueueLen
<1>3. QueueLen(a) \in 0..(N - 1)
  BY <1>1, <1>2
<1>4. QueueLen(a)' = QueueLen(a) + 1
  BY <1>1, <1>2 DEF QueueLen, Advance
<1>5. \A i \in 1..(QueueLen(a) + 1) : Place(a, i - 1)' = Place(a, i - 1)
  BY DEF Place
<1>6. Place(a, QueueLen(a)) = p
  BY <1>1, <1>2 DEF Place
<1>7. \A i \in 1..QueueLen(a) : Place(a, i - 1) # p /\ Place(a, i - 1) \in 0..(N - 1)
  BY <1>1, <1>2, <1>3 DEF Place
<1>8. \A i \in 1..QueueLen(a) : Queue(a)'[i] = Queue(a)[i]
  <2> TAKE i \in 1..QueueLen(a)
  <2>1. i \in 1..(QueueLen(a) + 1)
    BY <1>3
  <2>2. Queue(a)'[i] = accepted_requests'[a][Place(a, i - 1)]
    BY <2>1, <1>4, <1>5 DEF Queue
  <2>3. accepted_requests'[a][Place(a, i - 1)] = accepted_requests[a][Place(a, i - 1)]
    BY <1>7, RingTypes
  <2>. QED  BY <2>2, <2>3 DEF Queue
<1>9. Queue(a)'[QueueLen(a) + 1] = c
  <2>1. QueueLen(a) + 1 \in 1..(QueueLen(a) + 1)
    BY <1>3
  <2>2. Queue(a)'[QueueLen(a) + 1] = accepted_requests'[a][Place(a, (QueueLen(a) + 1) - 1)]
    BY <2>1, <1>4, <1>5 DEF Queue
  <2>3. (QueueLen(a) + 1) - 1 = QueueLen(a)
    BY <1>3
  <2>. QED  BY <2>2, <2>3, <1>1, <1>6, RingTypes
<1>10. Queue(a)' = Append(Queue(a), c)
  <2> DEFINE L == QueueLen(a)
             q == Queue(a)
             r == Queue(a)'
  <2>1. q \in Seq(Conn \cup {NoConn}) /\ Len(q) = L /\ L \in Nat
    BY QueueType, <1>3
  <2>2. r \in Seq(Conn \cup {NoConn}) /\ Len(r) = L + 1
    <3>1. (FastCgiTypeOK => Queue(a) \in Seq(Conn \cup {NoConn}) /\ Len(Queue(a)) = QueueLen(a))'
      BY QueueType, PTL
    <3>. QED  BY <3>1, <1>4
  <2>3. (\A i \in 1..L : r[i] = q[i]) /\ r[L + 1] = c
    BY <1>8, <1>9
  <2> HIDE DEF q, r, L
  <2>4. /\ Append(q, c) \in Seq(Conn \cup {NoConn}) /\ Len(Append(q, c)) = L + 1
        /\ \A i \in 1..L : Append(q, c)[i] = q[i]
        /\ Append(q, c)[L + 1] = c
    BY <2>1, AppendProperties
  <2>5. \A i \in 1..Len(r) : r[i] = Append(q, c)[i]
    BY <2>1, <2>2, <2>3, <2>4
  <2>6. r = Append(q, c)
    BY <2>2, <2>4, <2>5, SeqEqual
  <2>. QED  BY <2>6 DEF q, r
<1>11. QueueLen(a) < MAX_REQUESTS
  BY <1>1, <1>3
<1>. QED  BY <1>4, <1>8, <1>9, <1>10, <1>11, Zenon

\* *sockfd = accepted_requests[get_index]; ++get_index; is_queue_full = 0.
LEMMA Removed ==
  ASSUME FastCgiTypeOK, FullWhenMet, FastCgiTypeOK', NEW a \in App,
         ~Empty(a),
         accepted_requests'[a] = accepted_requests[a],
         get_index'[a] = Advance(get_index[a]),
         put_index'[a] = put_index[a],
         is_queue_full'[a] = 0
  PROVE  /\ QueueLen(a) >= 1
         /\ QueueLen(a)' = QueueLen(a) - 1
         /\ \A i \in 1..(QueueLen(a) - 1) : Queue(a)'[i] = Queue(a)[i + 1]
         /\ Queue(a)[1] = accepted_requests[a][get_index[a]]
         /\ Queue(a) # << >>
         /\ Head(Queue(a)) = Queue(a)[1]
         /\ Queue(a)' = Tail(Queue(a))
<1> DEFINE g == get_index[a]
           p == put_index[a]
           N == MAX_REQUESTS
<1>1. N \in Nat \ {0} /\ g \in 0..(N - 1) /\ p \in 0..(N - 1) /\ is_queue_full[a] \in 0..1
  BY RingTypes
<1>2. QueueLen(a) \in 1..N
  BY <1>1 DEF QueueLen, Empty
<1>3. QueueLen(a)' = QueueLen(a) - 1
  BY <1>1 DEF QueueLen, Empty, FullWhenMet, Advance
<1>4. \A i \in 1..(QueueLen(a) - 1) : Place(a, i - 1)' = Place(a, i)
  BY <1>1, <1>2 DEF Place, Advance
<1>5. \A i \in 1..(QueueLen(a) - 1) : Queue(a)'[i] = Queue(a)[i + 1]
  <2> TAKE i \in 1..(QueueLen(a) - 1)
  <2>1. i + 1 \in 1..QueueLen(a) /\ (i + 1) - 1 = i
    BY <1>2
  <2>2. Queue(a)'[i] = accepted_requests[a][Place(a, i)]
    BY <1>3, <1>4 DEF Queue
  <2>3. Queue(a)[i + 1] = accepted_requests[a][Place(a, (i + 1) - 1)]
    BY <2>1 DEF Queue
  <2>. QED  BY <2>1, <2>2, <2>3
<1>6. Queue(a)[1] = accepted_requests[a][g]
  <2>1. Place(a, 1 - 1) = g
    BY <1>1 DEF Place
  <2>2. 1 \in 1..QueueLen(a)
    BY <1>2
  <2>. QED  BY <2>1, <2>2 DEF Queue
<1>7. Queue(a) # << >> /\ Head(Queue(a)) = Queue(a)[1] /\ Queue(a)' = Tail(Queue(a))
  <2> DEFINE L == QueueLen(a)
             q == Queue(a)
             r == Queue(a)'
  <2>1. q \in Seq(Conn \cup {NoConn}) /\ Len(q) = L /\ L \in Nat /\ L >= 1
    BY QueueType, <1>2
  <2>2. r \in Seq(Conn \cup {NoConn}) /\ Len(r) = L - 1
    <3>1. (FastCgiTypeOK => Queue(a) \in Seq(Conn \cup {NoConn}) /\ Len(Queue(a)) = QueueLen(a))'
      BY QueueType, PTL
    <3>. QED  BY <3>1, <1>3
  <2>3. \A i \in 1..(L - 1) : r[i] = q[i + 1]
    BY <1>5
  <2> HIDE DEF q, r, L
  <2>4. q # << >> /\ Head(q) = q[1]
    BY <2>1
  <2>5. /\ Tail(q) \in Seq(Conn \cup {NoConn}) /\ Len(Tail(q)) = L - 1
        /\ \A i \in 1..(L - 1) : Tail(q)[i] = q[i + 1]
    BY <2>1, <2>4, HeadTailProperties
  <2>6. \A i \in 1..Len(r) : r[i] = Tail(q)[i]
    BY <2>2, <2>3, <2>5
  <2>7. r = Tail(q)
    BY <2>2, <2>5, <2>6, SeqEqual
  <2>. QED  BY <2>4, <2>7 DEF q, r
<1>8. QueueLen(a) >= 1
  BY <1>2
<1>. QED  BY <1>3, <1>5, <1>6, <1>7, <1>8, Zenon
-----------------------------------------------------------------------------
(* Which fields of struct apps_info a step touches.                        *)

\* The steps that leave every ring alone.
RingStep == Enqueue \/ \E t \in Thread : Take(t)

\* Only the put of the accept loop and the take of a thread touch a ring.
LEMMA RingUntouched ==
  ASSUME [FastCgiNext]_fvars, ~RingStep
  PROVE  UNCHANGED ring
<1>1. CASE ClientStep
  BY <1>1 DEF ClientStep, Connect, Send
<1>2. CASE AcceptorStep
  BY <1>2 DEF AcceptorStep, Accept, ReadName, Lock, QueueFull, Unlock, AnswerError, RingStep
<1>3. ASSUME NEW t \in Thread, ThreadStep(t) \/ SpuriousWakeup(t)  PROVE UNCHANGED ring
  BY <1>3 DEF ThreadStep, QueueStep, Load, LockQueue, Wait, UnlockQueue, Serve, SpuriousWakeup,
       RingStep
<1>4. CASE FastCgiIdle \/ UNCHANGED fvars
  BY <1>4 DEF FastCgiIdle, fvars
<1>. QED  BY <1>1, <1>2, <1>3, <1>4 DEF FastCgiNext

\* The accept loop puts its connection at the end of one ring.
LEMMA EnqueueAppends ==
  ASSUME FastCgiTypeOK, LocalsSet, FullWhenMet, FastCgiTypeOK', Enqueue,
         NEW a \in App, a = app_index, NEW c \in Conn, c = fd
  PROVE  /\ QueueLen(a) < MAX_REQUESTS
         /\ QueueLen(a)' = QueueLen(a) + 1
         /\ \A i \in 1..QueueLen(a) : Queue(a)'[i] = Queue(a)[i]
         /\ Queue(a)'[QueueLen(a) + 1] = c
         /\ Queue(a)' = Append(Queue(a), c)
         /\ \A b \in App \ {a} : QueueLen(b)' = QueueLen(b) /\ Queue(b)' = Queue(b)
<1>1. /\ is_queue_full[a] = 0
      /\ accepted_requests'[a] = [accepted_requests[a] EXCEPT ![put_index[a]] = c]
      /\ get_index'[a] = get_index[a]
      /\ put_index'[a] = Advance(put_index[a])
      /\ is_queue_full'[a] = IF get_index[a] = put_index'[a] THEN 1 ELSE 0
  BY DEF Enqueue, FastCgiTypeOK
<1>2. ASSUME NEW b \in App \ {a}
      PROVE  QueueLen(b)' = QueueLen(b) /\ Queue(b)' = Queue(b)
  <2>1. /\ accepted_requests'[b] = accepted_requests[b] /\ get_index'[b] = get_index[b]
        /\ put_index'[b] = put_index[b] /\ is_queue_full'[b] = is_queue_full[b]
    BY DEF Enqueue, FastCgiTypeOK
  <2>. QED  BY <2>1, SameQueue
<1>3. /\ QueueLen(a) < MAX_REQUESTS
      /\ QueueLen(a)' = QueueLen(a) + 1
      /\ \A i \in 1..QueueLen(a) : Queue(a)'[i] = Queue(a)[i]
      /\ Queue(a)'[QueueLen(a) + 1] = c
      /\ Queue(a)' = Append(Queue(a), c)
  BY <1>1, Appended, Zenon
<1>. QED  BY <1>2, <1>3, Zenon

\* The accept loop then has a connection and an application.
LEMMA EnqueueLocals ==
  ASSUME FastCgiTypeOK, LocalsSet, apc \in Found
  PROVE  app_index \in App /\ fd \in Conn
BY FastCgiAssumption DEF FastCgiTypeOK, LocalsSet, Found, Conn, NoConn

\* A thread takes the first connection out of the ring of its application.
LEMMA TakeRemoves ==
  ASSUME FastCgiTypeOK, FullWhenMet, FastCgiTypeOK', NEW t \in Thread, Take(t),
         NEW a \in App, a = AppOf[t]
  PROVE  /\ QueueLen(a) >= 1
         /\ QueueLen(a)' = QueueLen(a) - 1
         /\ \A i \in 1..(QueueLen(a) - 1) : Queue(a)'[i] = Queue(a)[i + 1]
         /\ sockfd' = [sockfd EXCEPT ![t] = Queue(a)[1]]
         /\ Queue(a) # << >>
         /\ Head(Queue(a)) = Queue(a)[1]
         /\ Queue(a)' = Tail(Queue(a))
         /\ \A b \in App \ {a} : QueueLen(b)' = QueueLen(b) /\ Queue(b)' = Queue(b)
<1>1. /\ ~Empty(a)
      /\ accepted_requests'[a] = accepted_requests[a]
      /\ get_index'[a] = Advance(get_index[a])
      /\ put_index'[a] = put_index[a]
      /\ is_queue_full'[a] = 0
  BY DEF Take, FastCgiTypeOK
<1>2. /\ QueueLen(a) >= 1
      /\ QueueLen(a)' = QueueLen(a) - 1
      /\ \A i \in 1..(QueueLen(a) - 1) : Queue(a)'[i] = Queue(a)[i + 1]
      /\ Queue(a)[1] = accepted_requests[a][get_index[a]]
      /\ Queue(a) # << >>
      /\ Head(Queue(a)) = Queue(a)[1]
      /\ Queue(a)' = Tail(Queue(a))
  BY <1>1, Removed, Zenon
<1>3. sockfd' = [sockfd EXCEPT ![t] = accepted_requests[a][get_index[a]]]
  BY DEF Take
<1>4. ASSUME NEW b \in App \ {a}
      PROVE  QueueLen(b)' = QueueLen(b) /\ Queue(b)' = Queue(b)
  <2>1. /\ accepted_requests'[b] = accepted_requests[b] /\ get_index'[b] = get_index[b]
        /\ put_index'[b] = put_index[b] /\ is_queue_full'[b] = is_queue_full[b]
    BY DEF Take, FastCgiTypeOK
  <2>. QED  BY <2>1, SameQueue, Zenon
<1>. QED  BY <1>2, <1>3, <1>4, Zenon

\* Every other step leaves every queue as it is.
LEMMA QueuesKept ==
  ASSUME UNCHANGED ring, NEW a \in App
  PROVE  QueueLen(a)' = QueueLen(a) /\ Queue(a)' = Queue(a)
BY SameQueue DEF ring

\* is_queue_full is set only where put_index meets get_index, and cleared by a take.
LEMMA NextFull == FastCgiTypeOK /\ FullWhenMet /\ [FastCgiNext]_fvars => FullWhenMet'
<1> SUFFICES ASSUME FastCgiTypeOK, FullWhenMet, [FastCgiNext]_fvars PROVE FullWhenMet'
  OBVIOUS
<1>1. CASE Enqueue
  BY <1>1 DEF Enqueue, FastCgiTypeOK, FullWhenMet
<1>2. ASSUME NEW t \in Thread, Take(t)  PROVE FullWhenMet'
  BY <1>2, FastCgiAssumption DEF Take, FastCgiTypeOK, FullWhenMet
<1>3. CASE ~RingStep
  BY <1>3, RingUntouched DEF ring, FullWhenMet
<1>. QED  BY <1>1, <1>2, <1>3 DEF RingStep
-----------------------------------------------------------------------------
(* Every connection has one owner.                                         *)

\* At the start every ring is empty and nobody has a connection.
LEMMA InitHand == FastCgiInit => HandInv
<1> SUFFICES ASSUME FastCgiInit
             PROVE  /\ FullWhenMet /\ RingHeld /\ RingDistinct /\ ThreadHeld /\ ThreadDistinct
                    /\ Fresh /\ NoneLost /\ FullSeen
  BY InitMutex DEF HandInv
<1>1. \A a \in App : QueueLen(a) = 0
  BY DEF FastCgiInit, QueueLen
<1>2. RingHeld /\ RingDistinct
  BY <1>1 DEF RingHeld, RingDistinct
<1>3. ThreadHeld /\ ThreadDistinct /\ FullWhenMet
  BY DEF FastCgiInit, ThreadHeld, ThreadDistinct, FullWhenMet
<1>4. Fresh /\ NoneLost /\ FullSeen
  BY DEF FastCgiInit, Fresh, NoneLost, FullSeen, Conn, NoConn
<1>. QED  BY <1>2, <1>3, <1>4

\* The part of HandInv that types the rings and the connections.
LEMMA HandTypes ==
  ASSUME HandInv
  PROVE  /\ FastCgiTypeOK /\ LocalsSet /\ FullWhenMet /\ MutexInv
         /\ fd \in Nat /\ fd =< MaxConns /\ MaxConns \in Nat
         /\ sockfd \in [Thread -> Conn \cup {NoConn}]
         /\ answer \in [Conn -> App \cup {None, 404, 500}]
         /\ pc \in [Thread -> ThreadPc]
BY FastCgiAssumption DEF HandInv, MutexInv, FastCgiTypeOK

\* No entry of a queue is NoConn.
LEMMA QueueConn ==
  ASSUME HandInv, NEW a \in App, NEW i \in 1..QueueLen(a)
  PROVE  Queue(a)[i] \in Conn /\ Queue(a)[i] # NoConn
<1>1. Queue(a)[i] \in 1..fd
  BY DEF HandInv, RingHeld, Passed
<1>. QED  BY <1>1, HandTypes DEF Conn, NoConn

\* A connection lies at one place of one ring.
LEMMA OnePlace ==
  ASSUME HandInv, NEW a \in App, NEW b \in App, NEW i \in 1..QueueLen(a),
         NEW j \in 1..QueueLen(b), Queue(a)[i] = Queue(b)[j]
  PROVE  a = b /\ i = j
BY Zenon DEF HandInv, RingDistinct

\* Steps that move no connection.
LEMMA HandKept ==
  ASSUME HandInv, UNCHANGED <<ring, sockfd>>,
         \A c \in Int : Passed(c)' <=> Passed(c),
         \A t \in Thread : pc'[t] \in {"unlock", "serve"} <=> pc[t] \in {"unlock", "serve"}
  PROVE  RingHeld' /\ RingDistinct' /\ ThreadHeld' /\ ThreadDistinct' /\ NoneLost'
<1>1. \A a \in App : QueueLen(a)' = QueueLen(a) /\ Queue(a)' = Queue(a)
  BY QueuesKept
<1>2. RingHeld'
  <2> SUFFICES ASSUME NEW a \in App, NEW i \in 1..QueueLen(a)
               PROVE  Passed(Queue(a)[i])' /\ \A t \in Thread : sockfd[t] # Queue(a)[i]
    BY <1>1 DEF RingHeld
  <2>1. Passed(Queue(a)[i]) /\ \A t \in Thread : sockfd[t] # Queue(a)[i]
    BY DEF HandInv, RingHeld
  <2>2. PICK c \in Int : c = Queue(a)[i]
    BY QueueConn DEF Conn
  <2>3. Passed(c)'
    BY <2>1, <2>2
  <2>4. c = Queue(a)'[i]
    BY <1>1, <2>2
  <2>. QED  BY <2>1, <2>3, <2>4 DEF Passed
<1>3. RingDistinct'
  BY <1>1 DEF HandInv, RingDistinct
<1>4. ThreadHeld'
  BY HandTypes DEF HandInv, ThreadHeld, Conn, NoConn, Passed
<1>5. ThreadDistinct'
  BY DEF HandInv, ThreadDistinct
<1>6. NoneLost'
  <2> SUFFICES ASSUME NEW c \in 1..fd', Passed(c)'
               PROVE  \/ \E t \in Thread : sockfd[t] = c
                      \/ \E a \in App : c \in InRing(a)'
    BY DEF NoneLost
  <2>1. Passed(c)
    OBVIOUS
  <2>2. c \in 1..fd
    BY <2>1 DEF Passed
  <2>3. \A a \in App : InRing(a)' = InRing(a)
    BY <1>1 DEF InRing
  <2>. QED  BY <2>1, <2>2, <2>3 DEF HandInv, NoneLost
<1>. QED  BY <1>2, <1>3, <1>4, <1>5, <1>6

\* The accept loop: a connection it accepts is fresh, one it answers itself was
\* never passed on.
LEMMA AcceptorHand ==
  ASSUME HandInv, AcceptorStep, ~Enqueue
  PROVE  RingHeld' /\ RingDistinct' /\ ThreadHeld' /\ ThreadDistinct' /\ NoneLost' /\ Fresh'
<1>1. UNCHANGED <<ring, sockfd, pc>>
  BY DEF AcceptorStep, Accept, ReadName, Lock, QueueFull, Unlock, AnswerError
<1>2. (\A c \in Int : Passed(c)' <=> Passed(c)) /\ Fresh'
  <2>1. CASE Accept
    <3>1. fd' = fd + 1 /\ Pending' /\ ~Pending /\ answer' = answer
      BY <2>1 DEF Accept, Pending
    <3>. QED  BY <3>1, HandTypes DEF Passed, HandInv, Fresh, Conn
  <2>2. CASE ReadName \/ Lock \/ QueueFull \/ Unlock
    <3>1. fd' = fd /\ answer' = answer /\ (Pending' <=> Pending)
      BY <2>2 DEF ReadName, Lock, QueueFull, Unlock, Pending
    <3>. QED  BY <3>1 DEF Passed, HandInv, Fresh
  <2>3. CASE AnswerError
    <3>1. fd' = fd /\ Pending /\ ~Pending'
      BY <2>3 DEF AnswerError, Pending
    <3>2. fd \in Conn
      BY <2>3, HandTypes DEF AnswerError, LocalsSet, Conn, NoConn
    <3>3. \A c \in Conn : answer'[c] = IF c = fd THEN IF apc = "reject" THEN 500 ELSE 404
                                                  ELSE answer[c]
      BY <2>3, HandTypes, AnswerSet DEF AnswerError
    <3>4. None # 500 /\ None # 404
      BY FastCgiAssumption
    <3>5. 1..fd \subseteq Conn
      BY HandTypes DEF Conn
    <3>6. \A c \in Int : Passed(c)' <=> Passed(c)
      BY <3>1, <3>2, <3>3, <3>4, <3>5 DEF Passed
    <3>7. Fresh'
      BY <3>1, <3>2, <3>3, HandTypes DEF HandInv, Fresh, Conn
    <3>. QED  BY <3>6, <3>7
  <2>. QED  BY <2>1, <2>2, <2>3 DEF AcceptorStep
<1>. QED  BY <1>1, <1>2, HandKept

\* The connection that the accept loop puts into a ring was in none before.
LEMMA EnqueueHand ==
  ASSUME HandInv, FastCgiTypeOK', Enqueue
  PROVE  RingHeld' /\ RingDistinct' /\ ThreadHeld' /\ ThreadDistinct' /\ NoneLost' /\ Fresh'
<1>a. FastCgiTypeOK /\ LocalsSet /\ FullWhenMet
  BY HandTypes
<1>b. app_index \in App /\ fd \in Conn
  BY <1>a, EnqueueLocals DEF Enqueue, Found
<1>1. PICK a \in App : a = app_index
  BY <1>b
<1>2. PICK c \in Conn : c = fd
  BY <1>b
<1>3. /\ QueueLen(a)' = QueueLen(a) + 1
      /\ \A i \in 1..QueueLen(a) : Queue(a)'[i] = Queue(a)[i]
      /\ Queue(a)'[QueueLen(a) + 1] = c
      /\ \A b \in App \ {a} : QueueLen(b)' = QueueLen(b) /\ Queue(b)' = Queue(b)
  BY <1>a, <1>1, <1>2, EnqueueAppends, Zenon
<1>4. QueueLen(a) \in Nat
  BY <1>a, QueueType, FastCgiAssumption
<1>5. \A i \in 1..(QueueLen(a) + 1) : i \in 1..QueueLen(a) \/ i = QueueLen(a) + 1
  BY <1>4
<1>6. fd' = fd /\ sockfd' = sockfd /\ answer' = answer /\ Pending /\ ~Pending'
  BY DEF Enqueue, Pending
<1>7. answer[c] = None /\ ~Passed(c) /\ c \in 1..fd
  BY <1>2, <1>6, HandTypes DEF HandInv, Fresh, Passed, Conn
<1>8. \A d \in Int : Passed(d)' <=> Passed(d) \/ d = c
  BY <1>2, <1>6, <1>7 DEF Passed
<1>9. \A t \in Thread : /\ sockfd[t] # c
                        /\ pc'[t] \in {"unlock", "serve"} <=> pc[t] \in {"unlock", "serve"}
  <2>1. \A t \in Thread : sockfd[t] # c
    BY <1>7 DEF HandInv, ThreadHeld, Conn, NoConn
  <2>2. SleepersWait /\ requests_cond \in [App -> SUBSET Thread] /\ pc \in [Thread -> ThreadPc]
    BY MutexTypes, HandTypes DEF MutexInv
  <2>3. \A t \in Thread : pc'[t] \in {"unlock", "serve"} <=> pc[t] \in {"unlock", "serve"}
    BY <1>b, <2>2 DEF Enqueue, Signal, SleepersWait
  <2>. QED  BY <2>1, <2>3
<1>10. ASSUME NEW b \in App, NEW i \in 1..QueueLen(b)'
       PROVE  \/ i \in 1..QueueLen(b) /\ Queue(b)'[i] = Queue(b)[i]
              \/ b = a /\ i = QueueLen(a) + 1 /\ Queue(b)'[i] = c
  <2>1. CASE b = a
    BY <2>1, <1>3, <1>5
  <2>2. CASE b # a
    BY <2>2, <1>3
  <2>. QED  BY <2>1, <2>2
<1>11. ASSUME NEW b \in App, NEW i \in 1..QueueLen(b)
       PROVE  Passed(Queue(b)[i]) /\ Queue(b)[i] # c
  BY <1>7 DEF HandInv, RingHeld
<1>12. RingHeld'
  <2> SUFFICES ASSUME NEW b \in App, NEW i \in 1..QueueLen(b)'
               PROVE  Passed(Queue(b)[i])' /\ \A t \in Thread : sockfd[t] # Queue(b)'[i]
    BY <1>6 DEF RingHeld
  <2>1. CASE i \in 1..QueueLen(b) /\ Queue(b)'[i] = Queue(b)[i]
    <3>1. PICK d \in Int : d = Queue(b)[i]
      BY <2>1, QueueConn DEF Conn
    <3>2. Passed(d)' /\ \A t \in Thread : sockfd[t] # d
      BY <2>1, <3>1, <1>8 DEF HandInv, RingHeld
    <3>3. d = Queue(b)'[i]
      BY <2>1, <3>1
    <3>. QED  BY <3>2, <3>3 DEF Passed
  <2>2. CASE Queue(b)'[i] = c
    <3>1. Passed(c)'
      BY <1>8 DEF Conn
    <3>. QED  BY <2>2, <3>1, <1>9 DEF Passed
  <2>. QED  BY <2>1, <2>2, <1>10
<1>13. RingDistinct'
  <2> SUFFICES ASSUME NEW b \in App, NEW e \in App, NEW i \in 1..QueueLen(b)',
                      NEW j \in 1..QueueLen(e)', Queue(b)'[i] = Queue(e)'[j]
               PROVE  b = e /\ i = j
    BY DEF RingDistinct
  <2>1. CASE /\ i \in 1..QueueLen(b) /\ Queue(b)'[i] = Queue(b)[i]
             /\ j \in 1..QueueLen(e) /\ Queue(e)'[j] = Queue(e)[j]
    <3>1. PICK k \in 1..QueueLen(b), l \in 1..QueueLen(e) :
               k = i /\ l = j /\ Queue(b)[k] = Queue(e)[l]
      BY <2>1, Zenon
    <3>2. RingDistinct
      BY DEF HandInv
    <3>3. b = e /\ k = l
      BY <3>1, <3>2, Zenon DEF RingDistinct
    <3>. QED  BY <3>1, <3>3, Zenon
  <2>2. CASE i \in 1..QueueLen(b) /\ Queue(b)'[i] = Queue(b)[i] /\ Queue(e)'[j] = c
    BY <2>2, <1>11, Zenon
  <2>3. CASE Queue(b)'[i] = c /\ j \in 1..QueueLen(e) /\ Queue(e)'[j] = Queue(e)[j]
    BY <2>3, <1>11, Zenon
  <2>. QED  BY <2>1, <2>2, <2>3, <1>10
<1>14. ThreadHeld'
  <2> SUFFICES ASSUME NEW t \in Thread
               PROVE  IF pc'[t] \in {"unlock", "serve"} THEN Passed(sockfd[t])'
                                                         ELSE sockfd[t] = NoConn
    BY <1>6 DEF ThreadHeld
  <2>1. PICK d \in Int : d = sockfd[t]
    BY HandTypes DEF Conn, NoConn
  <2>2. IF pc'[t] \in {"unlock", "serve"} THEN Passed(d) ELSE d = NoConn
    BY <1>9, <2>1 DEF HandInv, ThreadHeld
  <2>3. IF pc'[t] \in {"unlock", "serve"} THEN Passed(d)' ELSE d = NoConn
    BY <1>8, <2>2
  <2>. QED  BY <1>6, <2>1, <2>3 DEF Passed
<1>15. ThreadDistinct'
  BY <1>6 DEF HandInv, ThreadDistinct
<1>16. NoneLost'
  <2> SUFFICES ASSUME NEW d \in 1..fd, Passed(d)'
               PROVE  \/ \E t \in Thread : sockfd[t] = d
                      \/ \E b \in App : d \in InRing(b)'
    BY <1>6 DEF NoneLost
  <2>1. CASE d = c
    <3>1. QueueLen(a) + 1 \in 1..QueueLen(a)' /\ Queue(a)'[QueueLen(a) + 1] = d
      BY <1>3, <1>4, <2>1
    <3>. QED  BY <3>1 DEF InRing
  <2>2. CASE d # c
    <3>1. Passed(d)
      BY <1>8, <2>2
    <3>2. ASSUME NEW b \in App, d \in InRing(b)  PROVE d \in InRing(b)'
      <4>1. PICK i \in 1..QueueLen(b) : d = Queue(b)[i]
        BY <3>2 DEF InRing
      <4>2. i \in 1..QueueLen(b)' /\ Queue(b)'[i] = d
        BY <4>1, <1>3, <1>4
      <4>. QED  BY <4>2 DEF InRing
    <3>. QED  BY <3>1, <3>2 DEF HandInv, NoneLost
  <2>. QED  BY <2>1, <2>2
<1>17. Fresh'
  BY <1>6 DEF HandInv, Fresh
<1>. QED  BY <1>12, <1>13, <1>14, <1>15, <1>16, <1>17

\* A thread that takes a connection out of its ring is its only owner.
LEMMA TakeHand ==
  ASSUME HandInv, FastCgiTypeOK', NEW t \in Thread, Take(t)
  PROVE  RingHeld' /\ RingDistinct' /\ ThreadHeld' /\ ThreadDistinct' /\ NoneLost' /\ Fresh'
<1>a. FastCgiTypeOK /\ FullWhenMet /\ pc \in [Thread -> ThreadPc]
  BY HandTypes
<1>1. PICK a \in App : a = AppOf[t]
  BY FastCgiAssumption
<1>2. /\ QueueLen(a) >= 1 /\ QueueLen(a)' = QueueLen(a) - 1
      /\ \A i \in 1..(QueueLen(a) - 1) : Queue(a)'[i] = Queue(a)[i + 1]
      /\ sockfd' = [sockfd EXCEPT ![t] = Queue(a)[1]]
      /\ \A b \in App \ {a} : QueueLen(b)' = QueueLen(b) /\ Queue(b)' = Queue(b)
  BY <1>a, <1>1, TakeRemoves, Zenon
<1>3. QueueLen(a) \in Nat /\ 1 \in 1..QueueLen(a)
  BY <1>a, <1>2, QueueType, FastCgiAssumption
<1>4. PICK c \in Int : c = Queue(a)[1]
  BY <1>3, QueueConn DEF Conn
<1>5. c # NoConn /\ Passed(c) /\ \A u \in Thread : sockfd[u] # c
  BY <1>3, <1>4, QueueConn DEF HandInv, RingHeld
<1>6. sockfd'[t] = c /\ \A u \in Thread \ {t} : sockfd'[u] = sockfd[u]
  BY <1>2, <1>4, HandTypes, SockfdSet, Zenon
<1>7. pc[t] = "check" /\ pc'[t] = "unlock" /\ \A u \in Thread \ {t} : pc'[u] = pc[u]
  BY <1>a, PcSet, Zenon DEF Take
<1>8. \A d \in Int : Passed(d)' <=> Passed(d)
  BY DEF Take, acceptor, Passed, Pending
<1>9. ASSUME NEW b \in App, NEW i \in 1..QueueLen(b)'
      PROVE  \E j \in 1..QueueLen(b) :
               /\ Queue(b)'[i] = Queue(b)[j]
               /\ j = IF b = a THEN i + 1 ELSE i
               /\ Queue(b)[j] # c
  <2>1. CASE b = a
    <3>1. i \in 1..(QueueLen(a) - 1) /\ i + 1 \in 1..QueueLen(a) /\ i + 1 # 1
      BY <2>1, <1>2, <1>3
    <3>2. Queue(a)[i + 1] # c
      BY <3>1, <1>3, <1>4, OnePlace, Zenon
    <3>. QED  BY <2>1, <3>1, <3>2, <1>2
  <2>2. CASE b # a
    <3>1. i \in 1..QueueLen(b) /\ Queue(b)'[i] = Queue(b)[i]
      BY <2>2, <1>2
    <3>2. Queue(b)[i] # c
      BY <2>2, <3>1, <1>3, <1>4, OnePlace, Zenon
    <3>. QED  BY <2>2, <3>1, <3>2
  <2>. QED  BY <2>1, <2>2
<1>10. RingHeld'
  <2> SUFFICES ASSUME NEW b \in App, NEW i \in 1..QueueLen(b)'
               PROVE  Passed(Queue(b)[i])' /\ \A u \in Thread : sockfd'[u] # Queue(b)'[i]
    BY DEF RingHeld
  <2>1. PICK j \in 1..QueueLen(b) : Queue(b)'[i] = Queue(b)[j] /\ Queue(b)[j] # c
    BY <1>9
  <2>2. PICK d \in Int : d = Queue(b)[j]
    BY <2>1, QueueConn DEF Conn
  <2>3. Passed(d) /\ \A u \in Thread : sockfd[u] # d
    BY <2>2 DEF HandInv, RingHeld
  <2>4. Passed(d)' /\ d = Queue(b)'[i]
    BY <1>8, <2>1, <2>2, <2>3
  <2>5. \A u \in Thread : sockfd'[u] # d
    BY <1>6, <2>1, <2>2, <2>3
  <2>. QED  BY <2>4, <2>5 DEF Passed
<1>11. RingDistinct'
  <2> SUFFICES ASSUME NEW b \in App, NEW e \in App, NEW i \in 1..QueueLen(b)',
                      NEW j \in 1..QueueLen(e)', Queue(b)'[i] = Queue(e)'[j]
               PROVE  b = e /\ i = j
    BY DEF RingDistinct
  <2>1. PICK k \in 1..QueueLen(b) : Queue(b)'[i] = Queue(b)[k] /\ k = IF b = a THEN i + 1 ELSE i
    BY <1>9
  <2>2. PICK l \in 1..QueueLen(e) : Queue(e)'[j] = Queue(e)[l] /\ l = IF e = a THEN j + 1 ELSE j
    BY <1>9
  <2>3. Queue(b)[k] = Queue(e)[l]
    BY <2>1, <2>2, Zenon
  <2>a. RingDistinct
    BY DEF HandInv
  <2>4. b = e /\ k = l
    BY <2>3, <2>a, Zenon DEF RingDistinct
  <2>5. i \in Int /\ j \in Int
    BY <1>2, <1>3
  <2>. QED  BY <2>1, <2>2, <2>4, <2>5
<1>12. ThreadHeld'
  <2> SUFFICES ASSUME NEW u \in Thread
               PROVE  IF pc'[u] \in {"unlock", "serve"} THEN Passed(sockfd[u])'
                                                         ELSE sockfd'[u] = NoConn
    BY DEF ThreadHeld
  <2>1. CASE u = t
    BY <2>1, <1>5, <1>6, <1>7, <1>8 DEF Passed
  <2>2. CASE u # t
    <3>1. PICK d \in Int : d = sockfd[u]
      BY HandTypes DEF Conn, NoConn
    <3>2. IF pc'[u] \in {"unlock", "serve"} THEN Passed(d) ELSE d = NoConn
      BY <2>2, <1>7, <3>1 DEF HandInv, ThreadHeld
    <3>3. IF pc'[u] \in {"unlock", "serve"} THEN Passed(d)' ELSE d = NoConn
      BY <1>8, <3>2
    <3>. QED  BY <2>2, <1>6, <3>1, <3>3 DEF Passed
  <2>. QED  BY <2>1, <2>2
<1>13. ThreadDistinct'
  BY <1>5, <1>6 DEF HandInv, ThreadDistinct
<1>14. NoneLost'
  <2> SUFFICES ASSUME NEW d \in 1..fd', Passed(d)'
               PROVE  \/ \E u \in Thread : sockfd'[u] = d
                      \/ \E b \in App : d \in InRing(b)'
    BY DEF NoneLost
  <2>1. Passed(d) /\ d \in 1..fd
    BY <1>8 DEF Take, acceptor
  <2>2. ASSUME NEW u \in Thread, sockfd[u] = d  PROVE sockfd'[u] = d
    <3>1. u # t
      BY <2>1, <2>2, <1>7 DEF HandInv, ThreadHeld, NoConn, Passed
    <3>. QED  BY <2>2, <3>1, <1>6
  <2>3. ASSUME NEW b \in App, d \in InRing(b)  PROVE d = c \/ d \in InRing(b)'
    <3>1. PICK i \in 1..QueueLen(b) : d = Queue(b)[i]
      BY <2>3 DEF InRing
    <3>2. CASE b # a
      BY <3>1, <3>2, <1>2 DEF InRing
    <3>3. CASE b = a /\ i = 1
      BY <3>1, <3>3, <1>4, Zenon
    <3>4. CASE b = a /\ i # 1
      <4>1. PICK j \in Int : j = i - 1
        BY <3>1, <3>4, <1>3
      <4>2. j \in 1..(QueueLen(a) - 1) /\ j + 1 = i
        BY <4>1, <3>4, <1>3
      <4>3. j \in 1..QueueLen(a)' /\ Queue(a)'[j] = d
        BY <4>2, <3>1, <3>4, <1>2, Zenon
      <4>. QED  BY <3>4, <4>3 DEF InRing
    <3>. QED  BY <3>2, <3>3, <3>4
  <2>. QED  BY <2>1, <2>2, <2>3, <1>6 DEF HandInv, NoneLost
<1>15. Fresh'
  BY DEF Take, acceptor, HandInv, Fresh, Pending
<1>. QED  BY <1>10, <1>11, <1>12, <1>13, <1>14, <1>15

\* The end of call_plugin_function answers the connection the thread holds.
LEMMA ServeHand ==
  ASSUME HandInv, NEW t \in Thread, Serve(t)
  PROVE  RingHeld' /\ RingDistinct' /\ ThreadHeld' /\ ThreadDistinct' /\ NoneLost' /\ Fresh'
<1>1. PICK c \in Int : c = sockfd[t]
  BY HandTypes DEF Conn, NoConn
<1>2. Passed(c) /\ c # NoConn /\ c \in Conn
  BY <1>1, HandTypes DEF Serve, HandInv, ThreadHeld, Passed, Conn, NoConn
<1>3. sockfd'[t] = NoConn /\ \A u \in Thread \ {t} : sockfd'[u] = sockfd[u]
  BY HandTypes, SockfdSet DEF Serve
<1>4. pc[t] = "serve" /\ pc'[t] = "lock" /\ \A u \in Thread \ {t} : pc'[u] = pc[u]
  BY HandTypes, PcSet DEF Serve
<1>5. \A d \in Conn : answer'[d] = IF d = c THEN AppOf[t] ELSE answer[d]
  BY <1>1, HandTypes, AnswerSet DEF Serve
<1>6. AppOf[t] # None
  BY FastCgiAssumption
<1>7. fd' = fd /\ (Pending' <=> Pending) /\ 1..fd \subseteq Conn
  BY HandTypes DEF Serve, acceptor, Pending, Conn
<1>8. \A d \in Int : Passed(d)' <=> Passed(d) /\ d # c
  BY <1>2, <1>5, <1>6, <1>7, Zenon DEF Passed
<1>9. \A b \in App : QueueLen(b)' = QueueLen(b) /\ Queue(b)' = Queue(b)
  BY QueuesKept DEF Serve
<1>10. RingHeld'
  <2> SUFFICES ASSUME NEW b \in App, NEW i \in 1..QueueLen(b)
               PROVE  Passed(Queue(b)[i])' /\ \A u \in Thread : sockfd'[u] # Queue(b)[i]
    BY <1>9 DEF RingHeld
  <2>1. PICK d \in Int : d = Queue(b)[i]
    BY QueueConn DEF Conn
  <2>2. Passed(d) /\ d # NoConn /\ \A u \in Thread : sockfd[u] # d
    BY <2>1, QueueConn, Zenon DEF HandInv, RingHeld
  <2>3. Passed(d)' /\ \A u \in Thread : sockfd'[u] # d
    BY <1>1, <1>3, <1>8, <2>2
  <2>4. d = Queue(b)'[i]
    BY <1>9, <2>1
  <2>. QED  BY <2>1, <2>3, <2>4 DEF Passed
<1>11. RingDistinct'
  BY <1>9 DEF HandInv, RingDistinct
<1>12. ThreadHeld'
  <2> SUFFICES ASSUME NEW u \in Thread
               PROVE  IF pc'[u] \in {"unlock", "serve"} THEN Passed(sockfd[u])'
                                                         ELSE sockfd'[u] = NoConn
    BY DEF ThreadHeld
  <2>1. CASE u = t
    BY <2>1, <1>3, <1>4
  <2>2. CASE u # t
    <3>1. PICK d \in Int : d = sockfd[u]
      BY HandTypes DEF Conn, NoConn
    <3>2. IF pc'[u] \in {"unlock", "serve"} THEN Passed(d) ELSE d = NoConn
      BY <2>2, <1>4, <3>1 DEF HandInv, ThreadHeld
    <3>3. d # c \/ d = NoConn
      BY <2>2, <3>1, <1>1, Zenon DEF HandInv, ThreadDistinct
    <3>4. IF pc'[u] \in {"unlock", "serve"} THEN Passed(d)' ELSE d = NoConn
      BY <1>2, <1>8, <3>2, <3>3 DEF Passed, NoConn
    <3>. QED  BY <2>2, <1>3, <3>1, <3>4 DEF Passed
  <2>. QED  BY <2>1, <2>2
<1>13. ThreadDistinct'
  <2>1. ThreadDistinct
    BY Zenon DEF HandInv
  <2>. QED  BY <1>3, <2>1 DEF ThreadDistinct
<1>14. NoneLost'
  <2> SUFFICES ASSUME NEW d \in 1..fd, Passed(d)'
               PROVE  \/ \E u \in Thread : sockfd'[u] = d
                      \/ \E b \in App : d \in InRing(b)'
    BY <1>7 DEF NoneLost
  <2>1. Passed(d) /\ d # c
    BY <1>8
  <2>2. \A b \in App : InRing(b)' = InRing(b)
    BY <1>9 DEF InRing
  <2>. QED  BY <2>1, <2>2, <1>1, <1>3 DEF HandInv, NoneLost
<1>15. Fresh'
  BY <1>2, <1>5, <1>7, HandTypes DEF HandInv, Fresh, Passed, Conn
<1>. QED  BY <1>10, <1>11, <1>12, <1>13, <1>14, <1>15

\* A thread's other steps move no connection.
LEMMA ThreadHand ==
  ASSUME HandInv, NEW t \in Thread,
         Load(t) \/ LockQueue(t) \/ Wait(t) \/ UnlockQueue(t) \/ SpuriousWakeup(t)
  PROVE  RingHeld' /\ RingDistinct' /\ ThreadHeld' /\ ThreadDistinct' /\ NoneLost' /\ Fresh'
<1>1. UNCHANGED <<ring, sockfd, answer, acceptor>>
  BY Zenon DEF Load, LockQueue, Wait, UnlockQueue, SpuriousWakeup
<1>2. /\ pc'[t] \in {"unlock", "serve"} <=> pc[t] \in {"unlock", "serve"}
      /\ \A u \in Thread \ {t} : pc'[u] = pc[u]
  BY HandTypes DEF Load, LockQueue, Wait, UnlockQueue, SpuriousWakeup
<1>3. \A u \in Thread : pc'[u] \in {"unlock", "serve"} <=> pc[u] \in {"unlock", "serve"}
  BY <1>2
<1>4. \A c \in Int : Passed(c)' <=> Passed(c)
  BY <1>1 DEF Passed, Pending, acceptor
<1>5. Fresh'
  BY <1>1 DEF HandInv, Fresh, Pending, acceptor
<1>. QED  BY <1>1, <1>3, <1>4, <1>5, HandKept, Zenon

\* While the accept loop holds the mutex no thread of the application makes room.
LEMMA NextFullSeen ==
  ASSUME HandInv, [FastCgiNext]_fvars
  PROVE  FullSeen'
<1> SUFFICES ASSUME apc' = "unlock_full" PROVE is_queue_full'[app_index'] = 1
  BY DEF FullSeen
<1>1. CASE QueueFull
  BY <1>1 DEF QueueFull, ring
<1>2. CASE apc = "unlock_full" /\ app_index' = app_index /\ UNCHANGED is_queue_full
  BY <1>2 DEF HandInv, FullSeen
<1>3. ASSUME NEW t \in Thread, Take(t)
      PROVE  is_queue_full'[app_index'] = 1
  <2>1. apc = "unlock_full" /\ app_index' = app_index
    BY <1>3, Zenon DEF Take, acceptor
  <2>2. AcceptorAtRing(app_index) /\ app_index \in App
    BY <2>1, HandTypes DEF AcceptorAtRing, LocalsSet, Found
  <2>3. requests_mutex[app_index] = Acceptor
    BY <2>2, HandTypes DEF MutexInv, HeldByAcceptor
  <2>4. requests_mutex[AppOf[t]] = t
    BY <1>3, HandTypes, Zenon DEF MutexInv, HeldByThread, AtRing, Take
  <2>5. AppOf[t] # app_index
    <3>1. t # Acceptor
      BY FastCgiAssumption
    <3>. QED  BY <2>3, <2>4, <3>1, Zenon
  <2>6. is_queue_full'[app_index] = is_queue_full[app_index]
    BY <1>3, <2>2, <2>5, HandTypes DEF Take, FastCgiTypeOK
  <2>. QED  BY <2>1, <2>6 DEF HandInv, FullSeen
<1>4. ASSUME NEW t \in Thread, ThreadStep(t) \/ SpuriousWakeup(t), ~Take(t)
      PROVE  apc = "unlock_full" /\ app_index' = app_index /\ UNCHANGED is_queue_full
  BY <1>4, Zenon DEF ThreadStep, QueueStep, SpuriousWakeup, Load, LockQueue, Wait, UnlockQueue,
       Serve, acceptor, ring
<1>5. CASE ClientStep \/ FastCgiIdle \/ UNCHANGED fvars
  BY <1>5, <1>2, Zenon DEF ClientStep, Connect, Send, FastCgiIdle, fvars, acceptor, ring
<1>6. CASE AcceptorStep
  BY <1>6, <1>1 DEF AcceptorStep, Accept, ReadName, Lock, Enqueue, Unlock, AnswerError
<1>. QED  BY <1>2, <1>3, <1>4, <1>5, <1>6 DEF FastCgiNext

\* No step of the server breaks HandInv.
LEMMA NextHand == HandInv /\ [FastCgiNext]_fvars => HandInv'
<1> SUFFICES ASSUME HandInv, [FastCgiNext]_fvars
             PROVE  RingHeld' /\ RingDistinct' /\ ThreadHeld' /\ ThreadDistinct' /\ NoneLost'
                    /\ Fresh'
  BY NextMutex, NextFull, NextFullSeen, HandTypes DEF HandInv
<1>1. FastCgiTypeOK'
  BY NextType, HandTypes
<1>2. CASE ClientStep \/ FastCgiIdle \/ UNCHANGED fvars
  <2>1. UNCHANGED <<ring, sockfd, answer, acceptor, pc>>
    BY <1>2 DEF ClientStep, Connect, Send, FastCgiIdle, fvars
  <2>2. \A c \in Int : Passed(c)' <=> Passed(c)
    BY <2>1 DEF Passed, Pending, acceptor
  <2>3. Fresh'
    BY <2>1 DEF HandInv, Fresh, Pending, acceptor
  <2>. QED  BY <2>1, <2>2, <2>3, HandKept
<1>3. CASE AcceptorStep
  BY <1>1, <1>3, AcceptorHand, EnqueueHand
<1>4. ASSUME NEW t \in Thread, ThreadStep(t) \/ SpuriousWakeup(t)
      PROVE  RingHeld' /\ RingDistinct' /\ ThreadHeld' /\ ThreadDistinct' /\ NoneLost'
             /\ Fresh'
  BY <1>1, <1>4, ThreadHand, TakeHand, ServeHand DEF ThreadStep, QueueStep
<1>. QED  BY <1>2, <1>3, <1>4 DEF FastCgiNext

\* Every accepted connection has exactly one owner until it is answered: the
\* accept loop, one place of one ring, or one thread.
THEOREM OneOwner == FastCgiSpec => []HandInv
BY InitHand, NextHand, PTL DEF FastCgiSpec
-----------------------------------------------------------------------------
(* The ring implements the hand-off queue of WorkQueue.                    *)

\* The abstract queue sees no change while the threads keep their sockfd.
LEMMA HoldingKept ==
  ASSUME sockfd \in [Thread -> Conn \cup {NoConn}], NEW a \in App,
         \A t \in ThreadsOf(a) : sockfd'[t] = sockfd[t]
  PROVE  Holding(a)' = Holding(a)
BY DEF Holding

\* The abstract queue sees the connection that one thread takes or gives up.
LEMMA HoldingSet ==
  ASSUME NEW a \in App, NEW t \in ThreadsOf(a),
         \A u \in Thread \ {t} : sockfd'[u] = sockfd[u]
  PROVE  Holding(a)' = [Holding(a) EXCEPT ![t] = sockfd'[t]]
BY Zenon DEF Holding, ThreadsOf

\* The put side of accept_fastcgi_requests submits to the queue of its application.
LEMMA EnqueueHandsOff ==
  ASSUME HandInv, FastCgiTypeOK', Enqueue, NEW b \in App
  PROVE  Handoff(b)!Next \/ UNCHANGED <<Queue(b), Holding(b)>>
<1>a. FastCgiTypeOK /\ LocalsSet /\ FullWhenMet
  BY HandTypes
<1>b. app_index \in App /\ fd \in Conn
  BY <1>a, EnqueueLocals DEF Enqueue, Found
<1>1. PICK a \in App : a = app_index
  BY <1>b
<1>2. PICK c \in Conn : c = fd
  BY <1>b
<1>3. /\ QueueLen(a) < MAX_REQUESTS
      /\ Queue(a)' = Append(Queue(a), c)
      /\ \A e \in App \ {a} : Queue(e)' = Queue(e)
  BY <1>a, <1>1, <1>2, EnqueueAppends, Zenon
<1>4. Holding(b)' = Holding(b)
  BY HoldingKept, HandTypes DEF Enqueue
<1>5. ~Passed(c) /\ c # NoConn
  BY <1>2 DEF Enqueue, Passed, Pending, Conn, NoConn
<1>6. CASE b = a
  <2>1. Len(Queue(b)) = QueueLen(b)
    BY <1>a, QueueType
  <2>2. c \notin Handoff(b)!Waiting
    BY <2>1, <1>5 DEF HandInv, RingHeld, Handoff!Waiting
  <2>3. c \notin Handoff(b)!Serving
    <3>1. \A t \in Thread : sockfd[t] # c
      BY <1>5 DEF HandInv, ThreadHeld
    <3>. QED  BY <3>1, Zenon DEF Handoff!Serving, Holding, ThreadsOf
  <2>4. Handoff(b)!Submit(c)
    BY <1>3, <1>4, <1>6, <2>1, <2>2, <2>3 DEF Handoff!Submit
  <2>. QED  BY <2>4 DEF Handoff!Next
<1>7. CASE b # a
  BY <1>3, <1>4, <1>7
<1>. QED  BY <1>6, <1>7

\* A take by a thread starts the job at the head of its queue.
LEMMA TakeHandsOff ==
  ASSUME HandInv, FastCgiTypeOK', NEW t \in Thread, Take(t), NEW b \in App
  PROVE  Handoff(b)!Next \/ UNCHANGED <<Queue(b), Holding(b)>>
<1>a. FastCgiTypeOK /\ FullWhenMet
  BY HandTypes
<1>1. PICK a \in App : a = AppOf[t]
  BY FastCgiAssumption
<1>2. /\ Queue(a) # << >>
      /\ Head(Queue(a)) = Queue(a)[1]
      /\ Queue(a)' = Tail(Queue(a))
      /\ sockfd' = [sockfd EXCEPT ![t] = Queue(a)[1]]
      /\ \A e \in App \ {a} : Queue(e)' = Queue(e)
  BY <1>a, <1>1, TakeRemoves, Zenon
<1>3. sockfd'[t] = Queue(a)[1] /\ \A u \in Thread \ {t} : sockfd'[u] = sockfd[u]
  BY <1>2, HandTypes, SockfdSet, Zenon
<1>4. sockfd[t] = NoConn
  BY DEF Take, HandInv, ThreadHeld
<1>5. CASE b = a
  <2>1. t \in ThreadsOf(b)
    BY <1>1, <1>5 DEF ThreadsOf
  <2>2. Holding(b)' = [Holding(b) EXCEPT ![t] = Head(Queue(b))]
    <3>1. Holding(b)' = [Holding(b) EXCEPT ![t] = sockfd'[t]]
      BY <1>3, <2>1, HoldingSet, Zenon
    <3>2. sockfd'[t] = Head(Queue(b))
      BY <1>2, <1>3, <1>5, Zenon
    <3>. QED  BY <3>1, <3>2, Zenon
  <2>3. Holding(b)[t] = NoConn
    BY <1>4, <2>1 DEF Holding
  <2>4. Handoff(b)!Start(t)
    BY <1>2, <1>5, <2>2, <2>3 DEF Handoff!Start
  <2>. QED  BY <2>1, <2>4 DEF Handoff!Next
<1>6. CASE b # a
  <2>1. \A u \in ThreadsOf(b) : sockfd'[u] = sockfd[u]
    BY <1>1, <1>3, <1>6 DEF ThreadsOf
  <2>2. Holding(b)' = Holding(b)
    BY <2>1, HandTypes, HoldingKept
  <2>. QED  BY <1>2, <1>6, <2>2
<1>. QED  BY <1>5, <1>6

\* The end of a request ends the job of the thread.
LEMMA ServeHandsOff ==
  ASSUME HandInv, NEW t \in Thread, Serve(t), NEW b \in App
  PROVE  Handoff(b)!Next \/ UNCHANGED <<Queue(b), Holding(b)>>
<1>1. Queue(b)' = Queue(b)
  BY QueuesKept DEF Serve
<1>2. sockfd'[t] = NoConn /\ \A u \in Thread \ {t} : sockfd'[u] = sockfd[u]
  BY HandTypes, SockfdSet DEF Serve
<1>3. sockfd[t] # NoConn
  <2>1. pc[t] = "serve" /\ ThreadHeld
    BY Zenon DEF Serve, HandInv
  <2>2. Passed(sockfd[t])
    BY <2>1 DEF ThreadHeld
  <2>. QED  BY <2>2 DEF Passed, NoConn
<1>4. CASE AppOf[t] = b
  <2>1. t \in ThreadsOf(b)
    BY <1>4 DEF ThreadsOf
  <2>2. Holding(b)' = [Holding(b) EXCEPT ![t] = NoConn]
    <3>1. Holding(b)' = [Holding(b) EXCEPT ![t] = sockfd'[t]]
      BY <1>2, <2>1, HoldingSet, Zenon
    <3>. QED  BY <1>2, <3>1, Zenon
  <2>3. Holding(b)[t] # NoConn
    BY <1>3, <2>1 DEF Holding
  <2>4. Handoff(b)!Finish(t)
    BY <1>1, <2>2, <2>3 DEF Handoff!Finish
  <2>. QED  BY <2>1, <2>4 DEF Handoff!Next
<1>5. CASE AppOf[t] # b
  <2>1. \A u \in ThreadsOf(b) : sockfd'[u] = sockfd[u]
    BY <1>2, <1>5 DEF ThreadsOf
  <2>2. Holding(b)' = Holding(b)
    BY <2>1, HandTypes, HoldingKept
  <2>. QED  BY <1>1, <2>2
<1>. QED  BY <1>4, <1>5

\* The put side of accept_fastcgi_requests and the get side of run_app_by_thread
\* implement the hand-off queue WorkQueue, ring by ring: every connection leaves
\* in order of arrival, to exactly one thread of its application.
THEOREM RingImplementsQueue == FastCgiSpec => RingHandoff
<1>1. ASSUME FastCgiInit, NEW a \in App  PROVE Handoff(a)!Init
  <2>1. QueueLen(a) = 0
    BY <1>1 DEF FastCgiInit, QueueLen
  <2>2. Queue(a) = << >>
    BY <2>1, <1>1, InitType, QueueType
  <2>3. Holding(a) = [t \in ThreadsOf(a) |-> NoConn]
    BY <1>1 DEF FastCgiInit, Holding, ThreadsOf
  <2>. QED  BY <2>2, <2>3 DEF Handoff!Init
<1>2. ASSUME HandInv, [FastCgiNext]_fvars
      PROVE  \A a \in App : Handoff(a)!Next \/ UNCHANGED <<Queue(a), Holding(a)>>
  <2> SUFFICES ASSUME NEW a \in App
               PROVE  Handoff(a)!Next \/ UNCHANGED <<Queue(a), Holding(a)>>
    OBVIOUS
  <2>1. FastCgiTypeOK'
    BY <1>2, NextType, HandTypes
  <2>2. CASE UNCHANGED <<ring, sockfd>>
    BY <1>2, <2>2, QueuesKept, HoldingKept, HandTypes
  <2>3. CASE ClientStep \/ (AcceptorStep /\ ~Enqueue) \/ FastCgiIdle \/ UNCHANGED fvars
    BY <2>2, <2>3, Zenon DEF ClientStep, Connect, Send, AcceptorStep, Accept, ReadName, Lock,
         QueueFull, Unlock, AnswerError, FastCgiIdle, fvars
  <2>4. ASSUME NEW t \in Thread, ThreadStep(t) \/ SpuriousWakeup(t)
        PROVE  Handoff(a)!Next \/ UNCHANGED <<Queue(a), Holding(a)>>
    <3>1. CASE Take(t)
      BY <1>2, <2>1, <3>1, TakeHandsOff
    <3>2. CASE Serve(t)
      BY <1>2, <3>2, ServeHandsOff
    <3>3. CASE ~Take(t) /\ ~Serve(t)
      BY <2>2, <2>4, <3>3, Zenon DEF ThreadStep, QueueStep, Load, LockQueue, Wait, UnlockQueue,
           SpuriousWakeup
    <3>. QED  BY <3>1, <3>2, <3>3
  <2>5. CASE Enqueue
    BY <1>2, <2>1, <2>5, EnqueueHandsOff
  <2>. QED  BY <1>2, <2>3, <2>4, <2>5 DEF FastCgiNext
<1>3. FastCgiInit => \A a \in App : Handoff(a)!Init
  BY <1>1
<1>. QED  BY <1>2, <1>3, OneOwner, PTL DEF FastCgiSpec, RingHandoff
=============================================================================
