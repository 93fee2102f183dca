-------------------------------- MODULE Sbuf --------------------------------
(***************************************************************************)
(* The bounded buffer of mt_server/sbuf.c between the accept loop of       *)
(* mt_server/ed_server.c and its pool of worker threads.  Three counting   *)
(* semaphores guard it: `slots' counts the free places, `items' the filled *)
(* ones, `mutex' protects front, rear and the array.  Every semaphore      *)
(* operation and every access to the array is a step of its own, so the    *)
(* threads interleave as the kernel may schedule them.                     *)
(*                                                                         *)
(* A connection is named by its number in order of acceptance; it stands   *)
(* for the descriptor accept() returned, which is unique among the open    *)
(* ones.  handle_request() is one step here; MtServer opens it up.         *)
(***************************************************************************)
EXTENDS Integers, Sequences, FiniteSets

CONSTANTS
  Worker,    \* the NTHREADS worker threads
  Main,      \* the thread that runs main()
  n,         \* SBUFSIZE, the number of places of the buffer
  IntMax,    \* INT_MAX: the largest value of front and rear
  MaxConns   \* bound: how many connections the run accepts

ASSUME SbufAssumption ==
  /\ Main \notin Worker
  /\ IsFiniteSet(Worker)
  /\ n \in Nat \ {0}
  /\ IntMax \in Nat \ {0}
  /\ MaxConns \in Nat

VARIABLES
  mutex,     \* sp->mutex
  slots,     \* sp->slots
  items,     \* sp->items
  front,     \* sp->front: buf[(front+1)%n] is the first item
  rear,      \* sp->rear: buf[rear%n] is the last item
  buf,       \* sp->buf
  pc,        \* the next statement of each thread
  conn_fd,   \* each thread's local variable conn_fd
  accepted   \* how many connections accept() has returned

svars == <<mutex, slots, items, front, rear, buf, pc, conn_fd, accepted>>

Thread == Worker \cup {Main}

NoConn == 0

Conn == 1..MaxConns

\* The statements of the accept loop and of sbuf_insert, then of the worker
\* loop and of sbuf_remove.
InsertPc == {"accept", "ins_P_slots", "ins_P_mutex", "ins_store",
             "ins_V_mutex", "ins_V_items"}

RemovePc == {"rem_P_items", "rem_P_mutex", "rem_fetch", "rem_V_mutex",
             "rem_V_slots", "handle"}
-----------------------------------------------------------------------------
(* C arithmetic on int: ++ wraps at INT_MAX (no -O flag in the Makefile),  *)
(* and % truncates towards zero.                                           *)

Increment(i) == IF i = IntMax THEN -IntMax - 1 ELSE i + 1

Remainder(i) == IF i >= 0 THEN i % n ELSE -((-i) % n)

InBounds(i) == i \in 0..(n - 1)

Goto(t, from, to) ==
  /\ pc[t] = from
  /\ pc' = [pc EXCEPT ![t] = to]
-----------------------------------------------------------------------------
\* sem_wait and sem_post.
P(sem) == sem > 0 /\ sem' = sem - 1

V(sem) == sem' = sem + 1

Accept ==
  /\ accepted < MaxConns
  /\ Goto(Main, "accept", "ins_P_slots")
  /\ accepted' = accepted + 1
  /\ conn_fd' = [conn_fd EXCEPT ![Main] = accepted + 1]
  /\ UNCHANGED <<mutex, slots, items, front, rear, buf>>

InsertPSlots ==
  /\ Goto(Main, "ins_P_slots", "ins_P_mutex")
  /\ P(slots)
  /\ UNCHANGED <<mutex, items, front, rear, buf, conn_fd, accepted>>

\* Mutant: the mutex is not taken.
InsertPMutex_Skipped ==
  /\ Goto(Main, "ins_P_mutex", "ins_store")
  /\ UNCHANGED <<mutex, slots, items, front, rear, buf, conn_fd, accepted>>

InsertPMutex ==
  /\ Goto(Main, "ins_P_mutex", "ins_store")
  /\ P(mutex)
  /\ UNCHANGED <<slots, items, front, rear, buf, conn_fd, accepted>>

\* sp->buf[(++sp->rear) % (sp->n)] = item.  A store outside the array leaves
\* its elements as they are.
InsertStore ==
  /\ Goto(Main, "ins_store", "ins_V_mutex")
  /\ rear' = Increment(rear)
  /\ buf' = IF InBounds(Remainder(Increment(rear)))
            THEN [buf EXCEPT ![Remainder(Increment(rear))] = conn_fd[Main]]
            ELSE buf
  /\ UNCHANGED <<mutex, slots, items, front, conn_fd, accepted>>

InsertVMutex ==
  /\ Goto(Main, "ins_V_mutex", "ins_V_items")
  /\ V(mutex)
  /\ UNCHANGED <<slots, items, front, rear, buf, conn_fd, accepted>>

\* Mutant: the item is not announced.
InsertVItems_Skipped ==
  /\ Goto(Main, "ins_V_items", "accept")
  /\ UNCHANGED <<mutex, slots, items, front, rear, buf, conn_fd, accepted>>

InsertVItems ==
  /\ Goto(Main, "ins_V_items", "accept")
  /\ V(items)
  /\ UNCHANGED <<mutex, slots, front, rear, buf, conn_fd, accepted>>

\* The accept loop: accept() and sbuf_insert().
MainStep ==
  \/ Accept
  \/ InsertPSlots \/ InsertPMutex \/ InsertStore \/ InsertVMutex \/ InsertVItems
-----------------------------------------------------------------------------
RemovePItems(w) ==
  /\ Goto(w, "rem_P_items", "rem_P_mutex")
  /\ P(items)
  /\ UNCHANGED <<mutex, slots, front, rear, buf, conn_fd, accepted>>

RemovePMutex(w) ==
  /\ Goto(w, "rem_P_mutex", "rem_fetch")
  /\ P(mutex)
  /\ UNCHANGED <<slots, items, front, rear, buf, conn_fd, accepted>>

\* Mutant: sp->front++ for ++sp->front.
RemoveFetch_PostIncrement(w) ==
  /\ Goto(w, "rem_fetch", "rem_V_mutex")
  /\ front' = Increment(front)
  /\ conn_fd' = [conn_fd EXCEPT ![w] = buf[Remainder(front)]]
  /\ UNCHANGED <<mutex, slots, items, rear, buf, accepted>>

\* item = sp->buf[(++sp->front) % (sp->n)].  A load outside the array returns
\* whatever lies there.
RemoveFetch(w) ==
  /\ Goto(w, "rem_fetch", "rem_V_mutex")
  /\ front' = Increment(front)
  /\ \E item \in IF InBounds(Remainder(Increment(front)))
                 THEN {buf[Remainder(Increment(front))]}
                 ELSE Conn \cup {NoConn} :
        conn_fd' = [conn_fd EXCEPT ![w] = item]
  /\ UNCHANGED <<mutex, slots, items, rear, buf, accepted>>

RemoveVMutex(w) ==
  /\ Goto(w, "rem_V_mutex", "rem_V_slots")
  /\ V(mutex)
  /\ UNCHANGED <<slots, items, front, rear, buf, conn_fd, accepted>>

\* Mutant: V(&sp->items) for V(&sp->slots).
RemoveVSlots_Items(w) ==
  /\ Goto(w, "rem_V_slots", "handle")
  /\ V(items)
  /\ UNCHANGED <<mutex, slots, front, rear, buf, conn_fd, accepted>>

RemoveVSlots(w) ==
  /\ Goto(w, "rem_V_slots", "handle")
  /\ V(slots)
  /\ UNCHANGED <<mutex, items, front, rear, buf, conn_fd, accepted>>

\* handle_request(conn_fd) and close(conn_fd), then around the worker loop;
\* conn_fd no longer names a connection.
Release(w) ==
  /\ Goto(w, "handle", "rem_P_items")
  /\ conn_fd' = [conn_fd EXCEPT ![w] = NoConn]
  /\ UNCHANGED <<mutex, slots, items, front, rear, buf, accepted>>

RemoveStep(w) ==
  \/ RemovePItems(w) \/ RemovePMutex(w) \/ RemoveFetch(w)
  \/ RemoveVMutex(w) \/ RemoveVSlots(w)

WorkerStep(w) == RemoveStep(w) \/ Release(w)
-----------------------------------------------------------------------------
\* sbuf_init, and every thread at the top of its loop.
SbufInit ==
  /\ mutex = 1
  /\ slots = n
  /\ items = 0
  /\ front = 0
  /\ rear = 0
  /\ buf = [i \in 0..(n - 1) |-> NoConn]
  /\ pc = [t \in Thread |-> IF t = Main THEN "accept" ELSE "rem_P_items"]
  /\ conn_fd = [t \in Thread |-> NoConn]
  /\ accepted = 0

\* The bound is reached and all connections are served: every worker sleeps
\* in P(items) and main in accept().
SbufIdle ==
  /\ accepted = MaxConns
  /\ pc[Main] = "accept"
  /\ \A w \in Worker : pc[w] = "rem_P_items"
  /\ items = 0
  /\ UNCHANGED svars

SbufNext ==
  \/ MainStep
  \/ \E w \in Worker : WorkerStep(w)
  \/ SbufIdle

SbufSpec == SbufInit /\ [][SbufNext]_svars

\* A thread that can take its next step is scheduled eventually.
SbufFairSpec ==
  /\ SbufSpec
  /\ WF_svars(MainStep)
  /\ \A w \in Worker : WF_svars(WorkerStep(w))
-----------------------------------------------------------------------------
(* The connections that wait in the buffer, in order, and the one each     *)
(* worker has taken out.                                                   *)

Length == rear - front

Queue == [i \in 1..Length |-> buf[(front + i) % n]]

Holding == [w \in Worker |-> conn_fd[w]]

Handoff == INSTANCE WorkQueue
             WITH Job <- Conn, Capacity <- n, NoJob <- NoConn,
                  waiting <- Queue, serving <- Holding
-----------------------------------------------------------------------------
\* Typing of the shared buffer and of the threads' locals (sbuf_t, sbuf.h).
SbufTypeOK ==
  /\ mutex \in 0..1
  /\ slots \in 0..n
  /\ items \in 0..n
  /\ front \in (-IntMax - 1)..IntMax
  /\ rear \in (-IntMax - 1)..IntMax
  /\ buf \in [0..(n - 1) -> Conn \cup {NoConn}]
  /\ pc \in [Thread -> InsertPc \cup RemovePc]
  /\ conn_fd \in [Thread -> Conn \cup {NoConn}]
  /\ accepted \in 0..MaxConns

\* "Protects accesses to buf" (sbuf.h): at most one thread is between P(mutex)
\* and V(mutex), and the semaphore says whether there is one.
InCritical(t) == pc[t] \in {"ins_store", "ins_V_mutex", "rem_fetch", "rem_V_mutex"}

MutexProtectsBuf ==
  /\ \A t, u \in Thread : InCritical(t) /\ InCritical(u) => t = u
  /\ mutex = 1 <=> \A t \in Thread : ~InCritical(t)

\* The comments of sbuf_t: a thread about to touch the array addresses one of
\* its places, so that buf[(front+1)%n] is the first item and buf[rear%n] the
\* last one.
IndexInArray ==
  /\ pc[Main] = "ins_store" => InBounds(Remainder(Increment(rear)))
  /\ \A w \in Worker : pc[w] = "rem_fetch" => InBounds(Remainder(Increment(front)))

\* Between P(slots)..V(items) and P(items)..V(slots) the two counting
\* semaphores and the indices always account for every place of the buffer:
\* a place is free, filled, being filled, or being emptied.
Claiming == {w \in Worker : pc[w] \in {"rem_P_mutex", "rem_fetch"}}

Returning == {w \in Worker : pc[w] \in {"rem_V_mutex", "rem_V_slots"}}

Filling == IF pc[Main] \in {"ins_P_mutex", "ins_store"} THEN 1 ELSE 0

Announcing == IF pc[Main] \in {"ins_V_mutex", "ins_V_items"} THEN 1 ELSE 0

PlacesAccounted ==
  /\ slots + Filling + Length + Cardinality(Returning) = n
  /\ items + Cardinality(Claiming) + Announcing = Length

\* sbuf_insert and sbuf_remove hand every connection to exactly one worker,
\* in the order accept() returned them, and never hold more than n.
HandoffSpec == Handoff!Spec

\* Every accepted connection reaches a worker (accept loop, conn_handler).
EveryConnectionServed ==
  \A c \in Conn :
    (pc[Main] = "ins_P_slots" /\ conn_fd[Main] = c) ~> (\E w \in Worker : conn_fd[w] = c)
=============================================================================
