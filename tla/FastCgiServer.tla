---------------------------- MODULE FastCgiServer ---------------------------
(***************************************************************************)
(* The FastCGI server with call_plugin_function in steps: a plugin writes  *)
(* its response with printf, so the thread points descriptor 1 at the      *)
(* client's socket while the plugin runs.  Descriptor 1 and the stdio      *)
(* buffer of stdout belong to the process, hence to all threads at once.   *)
(*                                                                         *)
(* A descriptor is modelled by what it refers to: a client's connection or *)
(* the terminal the server was started on.  A client sees the end of its   *)
(* response when no descriptor refers to its connection any more.          *)
(***************************************************************************)
EXTENDS FastCgiQueue

CONSTANTS
  Terminal,  \* what descriptor 1 refers to when the server starts
  Pieces     \* bound: printf calls of a plugin

ASSUME ServerAssumption ==
  /\ Terminal \notin Conn \cup {NoConn}
  /\ Pieces \in Nat \ {0}

VARIABLES
  stdout,     \* what descriptor 1 refers to
  stdio,      \* the pieces in stdout's buffer, each named by the connection
              \* the plugin that printed it runs for
  stdout_bkp, \* each thread's local stdout_bkp
  printed,    \* how many pieces each thread's plugin has printed
  delivered,  \* the pieces written to each connection and to the terminal
  open        \* the connections whose accepted descriptor is open

cvars == <<stdout, stdio, stdout_bkp, printed, delivered, open>>

vars == <<fvars, cvars>>

Sink == Conn \cup {Terminal}

queueVars == <<client, acceptor, ring, requests_mutex, requests_cond>>
-----------------------------------------------------------------------------
Goto(t, from, to) ==
  /\ pc[t] = from
  /\ pc' = [pc EXCEPT ![t] = to]

\* stdio writes what it has buffered, then the pieces out, to descriptor 1.
Write(out) ==
  /\ delivered' = [delivered EXCEPT ![stdout] = @ \o stdio \o out]
  /\ stdio' = << >>

\* The query is read (the request came in one piece), then fflush(stdout).
FlushBefore(t) ==
  /\ Goto(t, "serve", "dup")
  /\ Write(<< >>)
  /\ UNCHANGED <<queueVars, sockfd, answer, stdout, stdout_bkp, printed, open>>

Dup(t) ==
  /\ Goto(t, "dup", "dup2")
  /\ stdout_bkp' = [stdout_bkp EXCEPT ![t] = stdout]
  /\ UNCHANGED <<queueVars, sockfd, answer, stdout, stdio, printed, delivered, open>>

Dup2(t) ==
  /\ Goto(t, "dup2", "plugin")
  /\ stdout' = sockfd[t]
  /\ UNCHANGED <<queueVars, sockfd, answer, stdio, stdout_bkp, printed, delivered, open>>

\* printf in the plugin: the piece stays in the buffer, or the buffer is
\* written because it is full, a line ends or the plugin itself flushes.
Printf(t) ==
  /\ pc[t] = "plugin" /\ printed[t] < Pieces
  /\ printed' = [printed EXCEPT ![t] = @ + 1]
  /\ \/ stdio' = Append(stdio, sockfd[t]) /\ UNCHANGED delivered
     \/ Write(<<sockfd[t]>>)
  /\ UNCHANGED <<queueVars, pc, sockfd, answer, stdout, stdout_bkp, open>>

\* Mutant: no fflush after the plugin.
FlushAfter_Skipped(t) ==
  /\ printed[t] = Pieces
  /\ Goto(t, "plugin", "restore")
  /\ UNCHANGED <<queueVars, sockfd, answer, cvars>>

\* "VERY NECESSARY: flush standard output before duping it back"
FlushAfter(t) ==
  /\ printed[t] = Pieces
  /\ Goto(t, "plugin", "restore")
  /\ Write(<< >>)
  /\ UNCHANGED <<queueVars, sockfd, answer, stdout, stdout_bkp, printed, open>>

\* Mutant: descriptor 1 is not duped back.
Restore_Skipped(t) ==
  /\ Goto(t, "restore", "close")
  /\ UNCHANGED <<queueVars, sockfd, answer, cvars>>

Restore(t) ==
  /\ Goto(t, "restore", "close")
  /\ stdout' = stdout_bkp[t]
  /\ UNCHANGED <<queueVars, sockfd, answer, stdio, stdout_bkp, printed, delivered, open>>

\* Mutant: the thread goes back to the ring without its mutex.
CloseSocket_NoLock(t) ==
  /\ Goto(t, "close", "check")
  /\ open' = open \ {sockfd[t]}
  /\ answer' = [answer EXCEPT ![sockfd[t]] = AppOf[t]]
  /\ sockfd' = [sockfd EXCEPT ![t] = NoConn]
  /\ stdout_bkp' = [stdout_bkp EXCEPT ![t] = NoConn]
  /\ printed' = [printed EXCEPT ![t] = 0]
  /\ UNCHANGED <<queueVars, stdout, stdio, delivered>>

\* close_socket(sockfd) and close_socket(stdout_bkp).
CloseSocket(t) ==
  /\ Goto(t, "close", "lock")
  /\ open' = open \ {sockfd[t]}
  /\ answer' = [answer EXCEPT ![sockfd[t]] = AppOf[t]]
  /\ sockfd' = [sockfd EXCEPT ![t] = NoConn]
  /\ stdout_bkp' = [stdout_bkp EXCEPT ![t] = NoConn]
  /\ printed' = [printed EXCEPT ![t] = 0]
  /\ UNCHANGED <<queueVars, stdout, stdio, delivered>>

CallStep(t) ==
  \/ FlushBefore(t) \/ Dup(t) \/ Dup2(t) \/ Printf(t) \/ FlushAfter(t)
  \/ Restore(t) \/ CloseSocket(t)
-----------------------------------------------------------------------------
Init ==
  /\ FastCgiInit
  /\ stdout = Terminal
  /\ stdio = << >>
  /\ stdout_bkp = [t \in Thread |-> NoConn]
  /\ printed = [t \in Thread |-> 0]
  /\ delivered = [s \in Sink |-> << >>]
  /\ open = {}

\* accept() opens the connection's descriptor; a 404 or 500 closes it.
AcceptLoop ==
  \/ /\ Accept /\ open' = open \cup {fd'}
     /\ UNCHANGED <<stdout, stdio, stdout_bkp, printed, delivered>>
  \/ /\ AnswerError /\ open' = open \ {fd}
     /\ UNCHANGED <<stdout, stdio, stdout_bkp, printed, delivered>>
  \/ (ReadName \/ Lock \/ Enqueue \/ QueueFull \/ Unlock) /\ UNCHANGED cvars

AppThread(t) ==
  \/ QueueStep(t) /\ UNCHANGED cvars
  \/ CallStep(t)

Next ==
  \/ ClientStep /\ UNCHANGED cvars
  \/ AcceptLoop
  \/ \E t \in Thread : AppThread(t)
  \/ (\E t \in Thread : SpuriousWakeup(t)) /\ UNCHANGED cvars
  \/ FastCgiIdle /\ UNCHANGED cvars

Spec == Init /\ [][Next]_vars

FairSpec ==
  /\ Spec
  /\ WF_vars(AcceptLoop) /\ SF_vars(Lock /\ UNCHANGED cvars)
  /\ \A t \in Thread : WF_vars(AppThread(t))
  /\ \A c \in Conn : WF_vars(Send(c) /\ UNCHANGED cvars)
-----------------------------------------------------------------------------
CallPc == {"dup", "dup2", "plugin", "restore", "close"}

\* The detailed threads with call_plugin_function as the one step Serve.
Queueing == INSTANCE FastCgiQueue
              WITH pc <- [t \in Thread |-> IF pc[t] \in CallPc THEN "serve" ELSE pc[t]]
-----------------------------------------------------------------------------
\* Redirecting descriptor 1 disturbs neither the rings nor the accept loop:
\* call_plugin_function is one step of the queueing server.
CallImplementsServe == Queueing!FastCgiSpec

\* "recieve reponse over that": what a plugin prints for a client goes to that
\* client's connection and nowhere else (dup2 in call_plugin_function).
OwnOutputOnly ==
  \A s \in Sink : \A i \in 1..Len(delivered[s]) : delivered[s][i] = s

\* A client that sees its connection end after its plugin ran has got all the
\* plugin printed (the fflush before descriptor 1 is duped back).
Released(c) ==
  /\ c \notin open
  /\ stdout # c
  /\ \A t \in Thread : stdout_bkp[t] # c

CompleteWhenReleased ==
  \A c \in Conn : answer[c] \in App /\ Released(c) => Len(delivered[c]) = Pieces

\* The connection of every request that a thread took is released in the end:
\* neither descriptor 1 nor a backup of it keeps it open, so the client's read
\* loop ends (close_socket at the end of call_plugin_function).
TakenIsReleased ==
  \A c \in Conn : (\E t \in Thread : sockfd[t] = c) ~> Released(c)

\* No two threads are between dup and the dup2 that undoes the other one.
RedirectionsApart ==
  \A t, u \in Thread :
    pc[t] \in {"dup2", "plugin", "restore"} /\ pc[u] \in {"dup2", "plugin", "restore"} => t = u

\* Nothing but overlapping redirections can send output to another client: while
\* there are none, the fflush of one thread and the close_socket of another, which
\* may come in the middle of a redirection, do no harm.
OwnOutputWhenApart == []RedirectionsApart => []OwnOutputOnly

\* Nothing else can end a connection before the client has all of the output.
CompleteWhenApart == []RedirectionsApart => []CompleteWhenReleased

\* Nothing else can keep the connection of a served client open.
ReleasedWhenApart == []RedirectionsApart => TakenIsReleased
=============================================================================
