---------------------------- MODULE FastCgiProofs ---------------------------
(***************************************************************************)
(* Proofs about the queueing of fastcgi_server.c, for any applications,    *)
(* threads, ring size and number of clients.                               *)
(***************************************************************************)
EXTENDS FastCgiQueue, TLAPS

\* The statements of the accept loop that use app_index.
Found == {"lock", "enqueue", "unlock", "unlock_full", "reject"}

\* The accept loop has a connection outside accept(), and an application once
\* the name is looked up.
LocalsSet ==
  /\ apc # "accept" => fd # NoConn
  /\ apc \in Found => app_index \in App

\* A mutex is held by exactly those that are between lock and unlock.
HeldByThread ==
  \A t \in Thread : AtRing(t) <=> requests_mutex[AppOf[t]] = t

HeldByAcceptor ==
  \A a \in App : AcceptorAtRing(a) <=> requests_mutex[a] = Acceptor

\* Only threads of the application sleep on its condition variable.
SleepersWait ==
  \A a \in App : \A t \in requests_cond[a] : AppOf[t] = a /\ pc[t] = "waiting"

\* A connection in a ring, in a thread's hands or in the accept loop is one whose
\* client asked for that application or for none.
RingRouted ==
  \A a \in App : \A i \in 0..(MAX_REQUESTS - 1) :
    accepted_requests[a][i] \in Conn => request[accepted_requests[a][i]] \in {a, Other}

ThreadRouted ==
  \A t \in Thread : sockfd[t] \in Conn => request[sockfd[t]] \in {AppOf[t], Other}

AcceptorRouted ==
  /\ apc \in Found => request[fd] \in {app_index, Other}
  /\ apc = "not_found" => request[fd] = Other

\* Nobody is answered before the request is sent.
AnsweredAfterSent == \A c \in Conn : request[c] = None => answer[c] = None

MutexInv ==
  FastCgiTypeOK /\ LocalsSet /\ HeldByThread /\ HeldByAcceptor /\ SleepersWait

RouteInv ==
  /\ FastCgiTypeOK /\ LocalsSet
  /\ RingRouted /\ ThreadRouted /\ AcceptorRouted
  /\ AnsweredAfterSent /\ KnownScriptRoutedByName
-----------------------------------------------------------------------------
\* The index of a ring stays inside the array (++index == MAX_REQUESTS).
LEMMA AdvanceType ==
  ASSUME NEW i \in 0..(MAX_REQUESTS - 1)
  PROVE  Advance(i) \in 0..(MAX_REQUESTS - 1)
BY FastCgiAssumption DEF Advance

\* A signal wakes a thread of its application, if any.
LEMMA SignalType ==
  ASSUME requests_cond \in [App -> SUBSET Thread], pc \in [Thread -> ThreadPc],
         NEW a \in App, Signal(a)
  PROVE  /\ requests_cond' \in [App -> SUBSET Thread]
         /\ pc' \in [Thread -> ThreadPc]
BY DEF Signal, ThreadPc

\* The locals of main and the rings are typed when the threads start.
LEMMA InitType == FastCgiInit => FastCgiTypeOK /\ LocalsSet
BY FastCgiAssumption
   DEF FastCgiInit, FastCgiTypeOK, LocalsSet, Found, AcceptorPc, ThreadPc, Conn, NoConn

\* The accept loop keeps the types of the shared structures and of its locals.
LEMMA AcceptorType ==
  ASSUME FastCgiTypeOK, LocalsSet, AcceptorStep
  PROVE  FastCgiTypeOK' /\ LocalsSet'
<1> USE FastCgiAssumption DEF FastCgiTypeOK, LocalsSet, Found, AcceptorPc, Conn, NoConn,
          client, ring
<1>1. CASE Accept
  BY <1>1 DEF Accept
<1>2. CASE ReadName
  BY <1>2 DEF ReadName, LookUp
<1>3. CASE Lock
  BY <1>3 DEF Lock
<1>4. CASE Enqueue
  <2>1. /\ app_index \in App /\ fd \in Conn
        /\ put_index[app_index] \in 0..(MAX_REQUESTS - 1)
    BY <1>4 DEF Enqueue
  <2>2. put_index' \in [App -> 0..(MAX_REQUESTS - 1)]
    BY <1>4, <2>1, AdvanceType DEF Enqueue
  <2>3. accepted_requests' \in [App -> [0..(MAX_REQUESTS - 1) -> Conn \cup {NoConn}]]
    BY <1>4, <2>1 DEF Enqueue
  <2>4. is_queue_full' \in [App -> 0..1]
    BY <1>4, <2>1 DEF Enqueue
  <2>5. requests_cond' \in [App -> SUBSET Thread] /\ pc' \in [Thread -> ThreadPc]
    BY <1>4, <2>1, SignalType DEF Enqueue
  <2>. QED  BY <1>4, <2>1, <2>2, <2>3, <2>4, <2>5 DEF Enqueue
<1>5. CASE QueueFull
  BY <1>5 DEF QueueFull
<1>6. CASE Unlock
  BY <1>6 DEF Unlock
<1>7. CASE AnswerError
  BY <1>7 DEF AnswerError
<1> HIDE DEF FastCgiTypeOK, LocalsSet
<1>. QED  BY <1>1, <1>2, <1>3, <1>4, <1>5, <1>6, <1>7 DEF AcceptorStep

\* So do the threads of the applications.
LEMMA ThreadType ==
  ASSUME FastCgiTypeOK, LocalsSet, NEW t \in Thread, ThreadStep(t) \/ SpuriousWakeup(t)
  PROVE  FastCgiTypeOK' /\ LocalsSet'
<1> USE FastCgiAssumption DEF FastCgiTypeOK, LocalsSet, ThreadPc, client, acceptor, ring
<1>a. AppOf[t] \in App
  OBVIOUS
<1>1. CASE Load(t)
  BY <1>1 DEF Load
<1>2. CASE LockQueue(t)
  BY <1>2, <1>a DEF LockQueue
<1>3. CASE Wait(t)
  BY <1>3, <1>a DEF Wait
<1>4. CASE Take(t)
  <2>1. get_index[AppOf[t]] \in 0..(MAX_REQUESTS - 1)
    BY <1>a
  <2>2. get_index' \in [App -> 0..(MAX_REQUESTS - 1)]
    BY <1>4, <1>a, <2>1, AdvanceType DEF Take
  <2>3. sockfd' \in [Thread -> Conn \cup {NoConn}]
    BY <1>4, <1>a, <2>1 DEF Take
  <2>. QED  BY <1>4, <1>a, <2>2, <2>3 DEF Take
<1>5. CASE UnlockQueue(t)
  BY <1>5, <1>a DEF UnlockQueue
<1>6. CASE Serve(t)
  <2>1. answer' \in [Conn -> App \cup {None, 404, 500}]
    <3>1. answer' = [answer EXCEPT ![sockfd[t]] = AppOf[t]]
      BY <1>6 DEF Serve
    <3>2. answer \in [Conn -> App \cup {None, 404, 500}]
      BY DEF FastCgiTypeOK
    <3>3. \A c \in Conn : answer[c] \in App \cup {None, 404, 500}
      BY <3>2
    <3>4. AppOf[t] \in App \cup {None, 404, 500}
      BY <1>a
    <3> DEFINE new == [c \in Conn |-> IF c = sockfd[t] THEN AppOf[t] ELSE answer[c]]
    <3>5. answer' = new
      <4> HIDE FastCgiAssumption DEF FastCgiTypeOK, LocalsSet, ThreadPc
      <4>. QED  BY <3>1, <3>2, Zenon
    <3>6. new \in [Conn -> App \cup {None, 404, 500}]
      BY <3>3, <3>4
    <3>. QED  BY <3>5, <3>6
  <2>2. pc' \in [Thread -> ThreadPc]
    BY <1>6 DEF Serve
  <2>3. sockfd' \in [Thread -> Conn \cup {NoConn}]
    BY <1>6 DEF Serve
  <2>. QED  BY <1>6, <2>1, <2>2, <2>3 DEF Serve
<1>7. CASE SpuriousWakeup(t)
  BY <1>7, <1>a DEF SpuriousWakeup
<1> HIDE DEF FastCgiTypeOK, LocalsSet
<1>. QED  BY <1>1, <1>2, <1>3, <1>4, <1>5, <1>6, <1>7 DEF ThreadStep, QueueStep

\* What the clients do touches no ring and no thread.
LEMMA ClientType ==
  ASSUME FastCgiTypeOK, LocalsSet, ClientStep
  PROVE  FastCgiTypeOK' /\ LocalsSet'
<1> USE FastCgiAssumption DEF FastCgiTypeOK, LocalsSet, client, acceptor, ring
<1>1. CASE Connect
  BY <1>1 DEF Connect
<1>2. ASSUME NEW c \in Conn, Send(c)  PROVE FastCgiTypeOK' /\ LocalsSet'
  BY <1>2 DEF Send
<1> HIDE DEF FastCgiTypeOK, LocalsSet
<1>. QED  BY <1>1, <1>2 DEF ClientStep

\* No step of the server breaks the types.
LEMMA NextType ==
  FastCgiTypeOK /\ LocalsSet /\ [FastCgiNext]_fvars => (FastCgiTypeOK /\ LocalsSet)'
<1> SUFFICES ASSUME FastCgiTypeOK, LocalsSet, [FastCgiNext]_fvars
             PROVE  FastCgiTypeOK' /\ LocalsSet'
  OBVIOUS
<1>1. CASE FastCgiIdle \/ UNCHANGED fvars
  BY <1>1 DEF FastCgiIdle, fvars, client, acceptor, ring, FastCgiTypeOK, LocalsSet
<1>. QED  BY <1>1, AcceptorType, ThreadType, ClientType DEF FastCgiNext

\* struct apps_info and the locals of the threads keep their types: no index
\* leaves its array, whatever the threads and the accept loop do.
THEOREM FastCgiTyped == FastCgiSpec => []FastCgiTypeOK
BY InitType, NextType, PTL DEF FastCgiSpec
-----------------------------------------------------------------------------
\* At the start nobody holds a mutex and nobody sleeps.
LEMMA InitMutex == FastCgiInit => MutexInv
<1> SUFFICES ASSUME FastCgiInit PROVE HeldByThread /\ HeldByAcceptor /\ SleepersWait
  BY InitType DEF MutexInv
<1>. QED
  BY FastCgiAssumption DEF FastCgiInit, HeldByThread, HeldByAcceptor, AtRing, AcceptorAtRing,
         SleepersWait

\* A step of the accept loop takes a mutex only when it is free, and gives up
\* only the one it holds; the thread it signals holds none.
LEMMA AcceptorMutex ==
  ASSUME MutexInv, AcceptorStep
  PROVE  HeldByThread' /\ HeldByAcceptor' /\ SleepersWait'
<1> USE FastCgiAssumption DEF MutexInv, FastCgiTypeOK, LocalsSet, Found, HeldByThread,
          HeldByAcceptor, AtRing, AcceptorAtRing, SleepersWait, ring, client
<1>1. CASE Accept
  BY <1>1 DEF Accept
<1>2. CASE ReadName
  BY <1>2 DEF ReadName
<1>3. CASE Lock
  BY <1>3 DEF Lock
<1>4. CASE Enqueue
  <2>1. \A t \in Thread : AtRing(t)' <=> AtRing(t)
    BY <1>4 DEF Enqueue, Signal
  <2>2. HeldByThread' /\ HeldByAcceptor'
    BY <1>4, <2>1 DEF Enqueue
  <2>3. SleepersWait'
    <3>1. CASE UNCHANGED <<requests_cond, pc>>
      BY <3>1
    <3>2. ASSUME NEW t \in requests_cond[app_index],
                 requests_cond' = [requests_cond EXCEPT ![app_index] = @ \ {t}],
                 pc' = [pc EXCEPT ![t] = "relock"]
          PROVE  SleepersWait'
      <4>1. app_index \in App /\ AppOf[t] = app_index
        BY <1>4 DEF Enqueue
      <4>2. SUFFICES ASSUME NEW b \in App, NEW u \in requests_cond'[b]
                     PROVE  AppOf[u] = b /\ pc'[u] = "waiting"
        OBVIOUS
      <4>3. u \in requests_cond[b] /\ u # t
        BY <3>2, <4>1
      <4>. QED  BY <3>2, <4>3
    <3> HIDE DEF MutexInv, FastCgiTypeOK, LocalsSet, HeldByThread, HeldByAcceptor, SleepersWait
    <3>. QED  BY <1>4, <3>1, <3>2 DEF Enqueue, Signal
  <2>. QED  BY <2>2, <2>3
<1>5. CASE QueueFull
  BY <1>5 DEF QueueFull
<1>6. CASE Unlock
  BY <1>6 DEF Unlock
<1>7. CASE AnswerError
  BY <1>7 DEF AnswerError
<1> HIDE DEF MutexInv, FastCgiTypeOK, LocalsSet, HeldByThread, HeldByAcceptor, SleepersWait
<1>. QED  BY <1>1, <1>2, <1>3, <1>4, <1>5, <1>6, <1>7 DEF AcceptorStep

\* The types that the arguments about the mutexes need.
LEMMA MutexTypes ==
  ASSUME MutexInv
  PROVE  /\ pc \in [Thread -> ThreadPc]
         /\ requests_mutex \in [App -> Thread \cup {Acceptor, None}]
         /\ requests_cond \in [App -> SUBSET Thread]
BY DEF MutexInv, FastCgiTypeOK

\* What setting pc, the mutex or the sleepers of one index does to the others.
LEMMA PcSet ==
  ASSUME pc \in [Thread -> ThreadPc], NEW t \in Thread, NEW v, pc' = [pc EXCEPT ![t] = v]
  PROVE  pc'[t] = v /\ \A u \in Thread \ {t} : pc'[u] = pc[u]
OBVIOUS

\* Locking or unlocking the mutex of one application leaves those of the others.
LEMMA MutexSet ==
  ASSUME requests_mutex \in [App -> Thread \cup {Acceptor, None}], NEW a \in App, NEW v,
         requests_mutex' = [requests_mutex EXCEPT ![a] = v]
  PROVE  requests_mutex'[a] = v /\ \A b \in App \ {a} : requests_mutex'[b] = requests_mutex[b]
OBVIOUS

\* Waiting or signalling on the condition of one application leaves the others.
LEMMA CondSet ==
  ASSUME requests_cond \in [App -> SUBSET Thread], NEW a \in App, NEW v,
         requests_cond' = [requests_cond EXCEPT ![a] = v]
  PROVE  requests_cond'[a] = v /\ \A b \in App \ {a} : requests_cond'[b] = requests_cond[b]
OBVIOUS

\* A thread that was not asleep and stays at or off its ring.
LEMMA MutexKept ==
  ASSUME MutexInv, NEW t \in Thread, pc[t] # "waiting",
         UNCHANGED <<apc, app_index, requests_mutex, requests_cond>>,
         \A u \in Thread \ {t} : pc'[u] = pc[u],
         AtRing(t)' <=> AtRing(t)
  PROVE  HeldByThread' /\ HeldByAcceptor' /\ SleepersWait'
<1>1. HeldByThread'
  BY DEF MutexInv, HeldByThread, AtRing
<1>2. HeldByAcceptor'
  BY DEF MutexInv, HeldByAcceptor, AcceptorAtRing
<1>3. SleepersWait'
  BY MutexTypes DEF MutexInv, SleepersWait
<1>. QED  BY <1>1, <1>2, <1>3

\* The threads of run_app_by_thread lock, wait and unlock as MutexInv says.
LEMMA ThreadMutex ==
  ASSUME MutexInv, NEW t \in Thread, ThreadStep(t) \/ SpuriousWakeup(t)
  PROVE  HeldByThread' /\ HeldByAcceptor' /\ SleepersWait'
<1>a. /\ AppOf \in [Thread -> App] /\ AppOf[t] \in App
      /\ Acceptor \notin Thread /\ None \notin Thread /\ None # Acceptor
  BY FastCgiAssumption
<1>1. CASE Load(t) \/ Take(t) \/ Serve(t)
  <2>1. /\ pc[t] # "waiting"
        /\ UNCHANGED <<apc, app_index, requests_mutex, requests_cond>>
    BY <1>1 DEF Load, Take, Serve, acceptor
  <2>2. \A u \in Thread \ {t} : pc'[u] = pc[u]
    BY <1>1, MutexTypes, PcSet DEF Load, Take, Serve
  <2>3. AtRing(t)' <=> AtRing(t)
    BY <1>1, MutexTypes, PcSet DEF Load, Take, Serve, AtRing
  <2>. QED  BY <2>1, <2>2, <2>3, MutexKept
<1>2. CASE LockQueue(t)
  <2>1. /\ pc[t] \in {"lock", "relock"} /\ pc'[t] = "check"
        /\ \A u \in Thread \ {t} : pc'[u] = pc[u]
    BY <1>2, MutexTypes, PcSet DEF LockQueue
  <2>2. /\ requests_mutex[AppOf[t]] = None /\ requests_mutex'[AppOf[t]] = t
        /\ \A b \in App \ {AppOf[t]} : requests_mutex'[b] = requests_mutex[b]
    BY <1>2, <1>a, MutexTypes, MutexSet DEF LockQueue
  <2>3. UNCHANGED <<apc, app_index, requests_cond>>
    BY <1>2 DEF LockQueue, acceptor
  <2>4. HeldByThread'
    BY <1>a, <2>1, <2>2 DEF MutexInv, HeldByThread, AtRing
  <2>5. HeldByAcceptor'
    BY <1>a, <2>2, <2>3 DEF MutexInv, HeldByAcceptor, AcceptorAtRing
  <2>6. SleepersWait'
    BY <2>1, <2>3, MutexTypes DEF MutexInv, SleepersWait
  <2>. QED  BY <2>4, <2>5, <2>6
<1>3. CASE Wait(t)
  <2>1. /\ pc[t] = "check" /\ pc'[t] = "waiting"
        /\ \A u \in Thread \ {t} : pc'[u] = pc[u]
    BY <1>3, MutexTypes, PcSet DEF Wait
  <2>2. /\ requests_mutex'[AppOf[t]] = None
        /\ \A b \in App \ {AppOf[t]} : requests_mutex'[b] = requests_mutex[b]
    BY <1>3, <1>a, MutexTypes, MutexSet DEF Wait
  <2>3. /\ requests_cond'[AppOf[t]] = requests_cond[AppOf[t]] \cup {t}
        /\ \A b \in App \ {AppOf[t]} : requests_cond'[b] = requests_cond[b]
    BY <1>3, <1>a, MutexTypes, CondSet DEF Wait
  <2>4. UNCHANGED <<apc, app_index>>
    BY <1>3 DEF Wait, acceptor
  <2>5. requests_mutex[AppOf[t]] = t
    BY <2>1 DEF MutexInv, HeldByThread, AtRing
  <2>6. HeldByThread'
    BY <1>a, <2>1, <2>2, <2>5 DEF MutexInv, HeldByThread, AtRing
  <2>7. HeldByAcceptor'
    BY <1>a, <2>2, <2>4, <2>5 DEF MutexInv, HeldByAcceptor, AcceptorAtRing
  <2>8. SleepersWait'
    BY <1>a, <2>1, <2>3, MutexTypes DEF MutexInv, SleepersWait
  <2>. QED  BY <2>6, <2>7, <2>8
<1>4. CASE UnlockQueue(t)
  <2>1. /\ pc[t] = "unlock" /\ pc'[t] = "serve"
        /\ \A u \in Thread \ {t} : pc'[u] = pc[u]
    BY <1>4, MutexTypes, PcSet DEF UnlockQueue
  <2>2. /\ requests_mutex'[AppOf[t]] = None
        /\ \A b \in App \ {AppOf[t]} : requests_mutex'[b] = requests_mutex[b]
    BY <1>4, <1>a, MutexTypes, MutexSet DEF UnlockQueue
  <2>3. UNCHANGED <<apc, app_index, requests_cond>>
    BY <1>4 DEF UnlockQueue, acceptor
  <2>4. requests_mutex[AppOf[t]] = t
    BY <2>1 DEF MutexInv, HeldByThread, AtRing
  <2>5. HeldByThread'
    BY <1>a, <2>1, <2>2, <2>4 DEF MutexInv, HeldByThread, AtRing
  <2>6. HeldByAcceptor'
    BY <1>a, <2>2, <2>3, <2>4 DEF MutexInv, HeldByAcceptor, AcceptorAtRing
  <2>7. SleepersWait'
    BY <2>1, <2>3, MutexTypes DEF MutexInv, SleepersWait
  <2>. QED  BY <2>5, <2>6, <2>7
<1>5. CASE SpuriousWakeup(t)
  <2>1. /\ pc[t] = "waiting" /\ pc'[t] = "relock"
        /\ \A u \in Thread \ {t} : pc'[u] = pc[u]
    BY <1>5, MutexTypes, PcSet DEF SpuriousWakeup
  <2>2. /\ requests_cond'[AppOf[t]] = requests_cond[AppOf[t]] \ {t}
        /\ \A b \in App \ {AppOf[t]} : requests_cond'[b] = requests_cond[b]
    BY <1>5, <1>a, MutexTypes, CondSet DEF SpuriousWakeup
  <2>3. UNCHANGED <<apc, app_index, requests_mutex>>
    BY <1>5 DEF SpuriousWakeup, acceptor
  <2>4. HeldByThread'
    BY <2>1, <2>3 DEF MutexInv, HeldByThread, AtRing
  <2>5. HeldByAcceptor'
    BY <2>3 DEF MutexInv, HeldByAcceptor, AcceptorAtRing
  <2>6. SleepersWait'
    BY <1>a, <2>1, <2>2, MutexTypes DEF MutexInv, SleepersWait
  <2>. QED  BY <2>4, <2>5, <2>6
<1>. QED  BY <1>1, <1>2, <1>3, <1>4, <1>5 DEF ThreadStep, QueueStep

\* No step of the server breaks MutexInv.
LEMMA NextMutex == MutexInv /\ [FastCgiNext]_fvars => MutexInv'
<1> SUFFICES ASSUME MutexInv, [FastCgiNext]_fvars
             PROVE  HeldByThread' /\ HeldByAcceptor' /\ SleepersWait'
  BY NextType DEF MutexInv
<1>1. CASE ClientStep
  BY <1>1 DEF ClientStep, Connect, Send, acceptor, MutexInv, HeldByThread, HeldByAcceptor,
         AtRing, AcceptorAtRing, SleepersWait
<1>2. CASE FastCgiIdle \/ UNCHANGED fvars
  BY <1>2 DEF FastCgiIdle, fvars, acceptor, MutexInv, HeldByThread, HeldByAcceptor,
         AtRing, AcceptorAtRing, SleepersWait
<1>. QED  BY <1>1, <1>2, AcceptorMutex, ThreadMutex DEF FastCgiNext

\* The lock and unlock calls of accept_fastcgi_requests and run_app_by_thread,
\* pthread_cond_wait among them, keep all others off a ring while one is at it.
THEOREM RingsExclusive == FastCgiSpec => []RingExclusive
<1>1. MutexInv => RingExclusive
  BY FastCgiAssumption DEF MutexInv, FastCgiTypeOK, HeldByThread, HeldByAcceptor, RingExclusive,
         AtRing, AcceptorAtRing, ThreadsOf
<1>. QED  BY <1>1, InitMutex, NextMutex, PTL DEF FastCgiSpec
-----------------------------------------------------------------------------
\* At the start no connection is anywhere.
LEMMA InitRoute == FastCgiInit => RouteInv
<1> SUFFICES ASSUME FastCgiInit
             PROVE  RingRouted /\ ThreadRouted /\ AcceptorRouted /\ AnsweredAfterSent
                    /\ KnownScriptRoutedByName
  BY InitType DEF RouteInv
<1>. QED
  BY FastCgiAssumption DEF FastCgiInit, RingRouted, ThreadRouted, AcceptorRouted, Found,
       AnsweredAfterSent, KnownScriptRoutedByName, Conn, NoConn

\* The types that the arguments about the routing need.
LEMMA RouteTypes ==
  ASSUME RouteInv
  PROVE  /\ request \in [Conn -> App \cup {Other, None}]
         /\ sockfd \in [Thread -> Conn \cup {NoConn}]
         /\ answer \in [Conn -> App \cup {None, 404, 500}]
         /\ get_index \in [App -> 0..(MAX_REQUESTS - 1)]
BY DEF RouteInv, FastCgiTypeOK

\* A thread that takes a connection changes its own sockfd only.
LEMMA SockfdSet ==
  ASSUME sockfd \in [Thread -> Conn \cup {NoConn}], NEW t \in Thread, NEW v,
         sockfd' = [sockfd EXCEPT ![t] = v]
  PROVE  sockfd'[t] = v /\ \A u \in Thread \ {t} : sockfd'[u] = sockfd[u]
OBVIOUS

\* An answer goes to one client.
LEMMA AnswerSet ==
  ASSUME answer \in [Conn -> App \cup {None, 404, 500}], NEW c, NEW v,
         answer' = [answer EXCEPT ![c] = v]
  PROVE  \A d \in Conn : answer'[d] = IF d = c THEN v ELSE answer[d]
OBVIOUS

\* What a step that moves no connection keeps.
LEMMA RingKept ==
  ASSUME RouteInv, UNCHANGED <<request, accepted_requests>>
  PROVE  RingRouted'
BY DEF RouteInv, RingRouted

\* The connections of the threads stay routed while sockfd and the requests stay.
LEMMA ThreadKept ==
  ASSUME RouteInv, UNCHANGED <<request, sockfd>>
  PROVE  ThreadRouted'
BY DEF RouteInv, ThreadRouted

\* The connection of the accept loop stays routed while its locals stay.
LEMMA AcceptorKept ==
  ASSUME RouteInv, UNCHANGED <<request, apc, fd, app_index>>
  PROVE  AcceptorRouted'
BY DEF RouteInv, AcceptorRouted

\* Answers stay where they were given while no client is answered.
LEMMA AnswersKept ==
  ASSUME RouteInv, UNCHANGED <<request, answer>>
  PROVE  AnsweredAfterSent' /\ KnownScriptRoutedByName'
BY DEF RouteInv, AnsweredAfterSent, KnownScriptRoutedByName

\* A step that moves no connection and answers nobody keeps RouteInv.
LEMMA RouteKept ==
  ASSUME RouteInv, UNCHANGED <<request, apc, fd, app_index, accepted_requests, sockfd, answer>>
  PROVE  RingRouted' /\ ThreadRouted' /\ AcceptorRouted' /\ AnsweredAfterSent'
         /\ KnownScriptRoutedByName'
BY RingKept, ThreadKept, AcceptorKept, AnswersKept

\* A name is looked up after the client sent it, and the connection then goes
\* into the ring of that application only.
LEMMA AcceptorRoute ==
  ASSUME RouteInv, AcceptorStep
  PROVE  RingRouted' /\ ThreadRouted' /\ AcceptorRouted' /\ AnsweredAfterSent'
         /\ KnownScriptRoutedByName'
<1>1. CASE Accept \/ ReadName \/ Lock \/ QueueFull \/ Unlock
  <2>1. UNCHANGED <<request, accepted_requests, sockfd, answer>>
    BY <1>1 DEF Accept, ReadName, Lock, QueueFull, Unlock, client, ring
  <2>2. AcceptorRouted'
    <3>1. CASE Accept
      BY <3>1 DEF Accept, AcceptorRouted, Found
    <3>2. CASE ReadName
      <4>1. request[fd] \in App \cup {Other}
        BY <3>2, FastCgiAssumption DEF ReadName, RouteInv, FastCgiTypeOK, LocalsSet, Conn, NoConn
      <4>. QED  BY <3>2, <4>1, FastCgiAssumption
                DEF ReadName, LookUp, AcceptorRouted, Found, client
    <3>3. CASE Lock \/ QueueFull \/ Unlock
      BY <3>3 DEF Lock, QueueFull, Unlock, RouteInv, AcceptorRouted, Found, client
    <3>. QED  BY <1>1, <3>1, <3>2, <3>3
  <2>. QED  BY <2>1, <2>2, RingKept, ThreadKept, AnswersKept
<1>2. CASE Enqueue
  <2>1. app_index \in App /\ request[fd] \in {app_index, Other}
    BY <1>2 DEF Enqueue, RouteInv, LocalsSet, AcceptorRouted, Found
  <2>2. RingRouted'
    <3>1. SUFFICES ASSUME NEW a \in App, NEW i \in 0..(MAX_REQUESTS - 1),
                          accepted_requests'[a][i] \in Conn
                   PROVE  request[accepted_requests'[a][i]] \in {a, Other}
      BY <1>2 DEF RingRouted, Enqueue, client
    <3>2. \/ accepted_requests'[a][i] = accepted_requests[a][i]
          \/ a = app_index /\ accepted_requests'[a][i] = fd
      BY <1>2 DEF Enqueue, RouteInv, FastCgiTypeOK
    <3>. QED  BY <2>1, <3>1, <3>2 DEF RouteInv, RingRouted
  <2>3. AcceptorRouted'
    BY <1>2, <2>1 DEF Enqueue, AcceptorRouted, Found, client
  <2>4. UNCHANGED <<request, sockfd, answer>>
    BY <1>2 DEF Enqueue, client
  <2>. QED  BY <2>2, <2>3, <2>4, ThreadKept, AnswersKept
<1>3. CASE AnswerError
  <2>1. UNCHANGED <<request, accepted_requests, sockfd>>
    BY <1>3 DEF AnswerError, client, ring
  <2>2. AcceptorRouted'
    BY <1>3 DEF AnswerError, AcceptorRouted, Found
  <2>3. fd \in Conn /\ answer' = [answer EXCEPT ![fd] = IF apc = "reject" THEN 500 ELSE 404]
    BY <1>3, FastCgiAssumption DEF AnswerError, RouteInv, FastCgiTypeOK, LocalsSet, Conn, NoConn
  <2>4. /\ request[fd] # None
        /\ apc # "reject" => request[fd] = Other
    BY <1>3, FastCgiAssumption
    DEF AnswerError, RouteInv, LocalsSet, AcceptorRouted, Found
  <2>a. \A d \in Conn : answer'[d] = IF d = fd THEN IF apc = "reject" THEN 500 ELSE 404
                                                ELSE answer[d]
    BY <2>3, RouteTypes, AnswerSet
  <2>5. AnsweredAfterSent'
    BY <2>1, <2>4, <2>a DEF RouteInv, AnsweredAfterSent
  <2>6. KnownScriptRoutedByName'
    BY <2>1, <2>4, <2>a, FastCgiAssumption DEF RouteInv, KnownScriptRoutedByName
  <2>. QED  BY <2>1, <2>2, <2>5, <2>6, RingKept, ThreadKept
<1>. QED  BY <1>1, <1>2, <1>3 DEF AcceptorStep

\* A thread takes a connection from the ring of its own application and answers it.
LEMMA ThreadRoute ==
  ASSUME RouteInv, NEW t \in Thread, ThreadStep(t) \/ SpuriousWakeup(t)
  PROVE  RingRouted' /\ ThreadRouted' /\ AcceptorRouted' /\ AnsweredAfterSent'
         /\ KnownScriptRoutedByName'
<1>a. AppOf[t] \in App
  BY FastCgiAssumption
<1>1. CASE Load(t) \/ LockQueue(t) \/ Wait(t) \/ UnlockQueue(t) \/ SpuriousWakeup(t)
  <2>1. UNCHANGED <<request, apc, fd, app_index, accepted_requests, sockfd, answer>>
    BY <1>1 DEF Load, LockQueue, Wait, UnlockQueue, SpuriousWakeup, ring, client, acceptor
  <2>. QED  BY <2>1, RouteKept
<1>2. CASE Take(t)
  <2>1. UNCHANGED <<request, apc, fd, app_index, accepted_requests, answer>>
    BY <1>2 DEF Take, client, acceptor
  <2>2. get_index[AppOf[t]] \in 0..(MAX_REQUESTS - 1)
    BY <1>a, RouteTypes, Zenon
  <2>3. /\ sockfd'[t] = accepted_requests[AppOf[t]][get_index[AppOf[t]]]
        /\ \A u \in Thread \ {t} : sockfd'[u] = sockfd[u]
    BY <1>2, RouteTypes, SockfdSet DEF Take
  <2>a. sockfd'[t] \in Conn => request[sockfd'[t]] \in {AppOf[t], Other}
    BY <1>a, <2>2, <2>3 DEF RouteInv, RingRouted
  <2>4. ThreadRouted'
    BY <2>1, <2>3, <2>a DEF RouteInv, ThreadRouted
  <2>. QED  BY <2>1, <2>4, RingKept, AcceptorKept, AnswersKept, Zenon
<1>3. CASE Serve(t)
  <2>1. UNCHANGED <<request, apc, fd, app_index, accepted_requests>>
    BY <1>3 DEF Serve, client, acceptor, ring
  <2>2. /\ sockfd'[t] = NoConn
        /\ \A u \in Thread \ {t} : sockfd'[u] = sockfd[u]
    BY <1>3, RouteTypes, SockfdSet DEF Serve
  <2>3. sockfd[t] \in Conn => request[sockfd[t]] \in {AppOf[t], Other}
    BY DEF RouteInv, ThreadRouted
  <2>a. \A d \in Conn : answer'[d] = IF d = sockfd[t] THEN AppOf[t] ELSE answer[d]
    BY <1>3, RouteTypes, AnswerSet DEF Serve
  <2>b. NoConn \notin Conn
    BY DEF Conn, NoConn
  <2>4. ThreadRouted'
    BY <2>1, <2>2, <2>b DEF RouteInv, ThreadRouted
  <2>5. AnsweredAfterSent'
    BY <1>a, <2>1, <2>3, <2>a, FastCgiAssumption DEF RouteInv, AnsweredAfterSent
  <2>6. KnownScriptRoutedByName'
    BY <1>a, <2>1, <2>3, <2>a, FastCgiAssumption DEF RouteInv, KnownScriptRoutedByName
  <2>. QED  BY <2>1, <2>4, <2>5, <2>6, RingKept, AcceptorKept
<1>. QED  BY <1>1, <1>2, <1>3 DEF ThreadStep, QueueStep

\* What a client has sent does not change, and nothing that has not been sent
\* is on its way to an application.
LEMMA ClientRoute ==
  ASSUME RouteInv, ClientStep
  PROVE  RingRouted' /\ ThreadRouted' /\ AcceptorRouted' /\ AnsweredAfterSent'
         /\ KnownScriptRoutedByName'
<1>1. CASE Connect
  <2>1. UNCHANGED <<request, apc, fd, app_index, accepted_requests, sockfd, answer>>
    BY <1>1 DEF Connect, acceptor, ring
  <2>. QED  BY <2>1, RouteKept
<1>2. ASSUME NEW c \in Conn, Send(c)
      PROVE  RingRouted' /\ ThreadRouted' /\ AcceptorRouted' /\ AnsweredAfterSent'
             /\ KnownScriptRoutedByName'
  <2>1. UNCHANGED <<apc, fd, app_index, accepted_requests, sockfd, answer>>
    BY <1>2 DEF Send, acceptor, ring
  <2>2. request[c] = None /\ answer[c] = None
    BY <1>2 DEF Send, RouteInv, AnsweredAfterSent
  <2>3. \A d \in Conn : d # c => request'[d] = request[d]
    BY <1>2, RouteTypes DEF Send
  <2>a. None # Other /\ None \notin App /\ AppOf \in [Thread -> App]
    BY FastCgiAssumption
  <2>4. RingRouted'
    <3>1. SUFFICES ASSUME NEW a \in App, NEW i \in 0..(MAX_REQUESTS - 1),
                          accepted_requests[a][i] \in Conn
                   PROVE  request'[accepted_requests[a][i]] \in {a, Other}
      BY <2>1 DEF RingRouted
    <3>2. request[accepted_requests[a][i]] \in {a, Other}
      BY <3>1 DEF RouteInv, RingRouted
    <3>. QED  BY <2>2, <2>3, <2>a, <3>1, <3>2
  <2>5. ThreadRouted'
    <3>1. SUFFICES ASSUME NEW t \in Thread, sockfd[t] \in Conn
                   PROVE  request'[sockfd[t]] \in {AppOf[t], Other}
      BY <2>1 DEF ThreadRouted
    <3>2. request[sockfd[t]] \in {AppOf[t], Other}
      BY <3>1 DEF RouteInv, ThreadRouted
    <3>. QED  BY <2>2, <2>3, <2>a, <3>1, <3>2
  <2>6. apc \in Found \cup {"not_found"} => fd # c /\ fd \in Conn
    <3>1. apc \in Found \cup {"not_found"} => fd \in Conn
      BY FastCgiAssumption DEF RouteInv, FastCgiTypeOK, LocalsSet, Found, Conn, NoConn
    <3>2. apc \in Found => app_index \in App
      BY DEF RouteInv, LocalsSet
    <3>. QED  BY <2>2, <2>a, <3>1, <3>2 DEF RouteInv, AcceptorRouted
  <2>7. AcceptorRouted'
    BY <2>1, <2>3, <2>6 DEF RouteInv, AcceptorRouted
  <2>8. AnsweredAfterSent'
    BY <2>1, <2>2, <2>3 DEF RouteInv, AnsweredAfterSent
  <2>9. KnownScriptRoutedByName'
    BY <2>1, <2>2, <2>3 DEF RouteInv, KnownScriptRoutedByName
  <2>. QED  BY <2>4, <2>5, <2>7, <2>8, <2>9
<1>. QED  BY <1>1, <1>2 DEF ClientStep

\* No step of the server breaks RouteInv.
LEMMA NextRoute == RouteInv /\ [FastCgiNext]_fvars => RouteInv'
<1> SUFFICES ASSUME RouteInv, [FastCgiNext]_fvars
             PROVE  RingRouted' /\ ThreadRouted' /\ AcceptorRouted' /\ AnsweredAfterSent'
                    /\ KnownScriptRoutedByName'
  BY NextType DEF RouteInv
<1>1. CASE FastCgiIdle \/ UNCHANGED fvars
  <2>1. UNCHANGED <<request, apc, fd, app_index, accepted_requests, sockfd, answer>>
    BY <1>1 DEF FastCgiIdle, fvars, client, acceptor, ring
  <2>. QED  BY <2>1, RouteKept
<1>. QED  BY <1>1, AcceptorRoute, ThreadRoute, ClientRoute DEF FastCgiNext

\* A client that asks for the script of an application is never answered by
\* another application nor with 404, although app_index keeps the value of the
\* last request that matched a name.
THEOREM KnownScriptsRouted == FastCgiSpec => []KnownScriptRoutedByName
<1>1. RouteInv => KnownScriptRoutedByName
  BY DEF RouteInv
<1>. QED  BY <1>1, InitRoute, NextRoute, PTL DEF FastCgiSpec
=============================================================================
