----------------------------- MODULE WorkQueue -----------------------------
(***************************************************************************)
(* What a hand-off queue between an accepting thread and a pool of worker  *)
(* threads promises: a submitted job waits in order of submission, never   *)
(* more than Capacity of them wait, and each job is started by exactly one *)
(* worker.  Both hand-off queues of the repository, the semaphore buffer   *)
(* of mt_server/sbuf.c and the mutex-and-condition ring of                 *)
(* fastcgi_server.c, are shown to implement this specification.            *)
(***************************************************************************)
EXTENDS Naturals, Sequences

CONSTANTS
  Job,       \* what is handed off: accepted connections
  Worker,    \* the threads of the pool
  Capacity,  \* how many jobs may wait
  NoJob      \* a worker that serves nothing

VARIABLES
  waiting,   \* the jobs that wait, in order of submission
  serving    \* the job each worker serves, or NoJob

qvars == <<waiting, serving>>

Waiting == {waiting[i] : i \in 1..Len(waiting)}

Serving == {serving[w] : w \in Worker}

Init ==
  /\ waiting = << >>
  /\ serving = [w \in Worker |-> NoJob]

\* A job enters once: it neither waits nor is served already.
Submit(j) ==
  /\ Len(waiting) < Capacity
  /\ j \notin Waiting \cup Serving
  /\ waiting' = Append(waiting, j)
  /\ UNCHANGED serving

Start(w) ==
  /\ serving[w] = NoJob
  /\ waiting # << >>
  /\ serving' = [serving EXCEPT ![w] = Head(waiting)]
  /\ waiting' = Tail(waiting)

Finish(w) ==
  /\ serving[w] # NoJob
  /\ serving' = [serving EXCEPT ![w] = NoJob]
  /\ UNCHANGED waiting

Next ==
  \/ \E j \in Job : Submit(j)
  \/ \E w \in Worker : Start(w) \/ Finish(w)

Spec == Init /\ [][Next]_qvars
=============================================================================
