------------------------- MODULE FastCgiServerProofs ------------------------
(***************************************************************************)
(* Proof that fastcgi_server.c with call_plugin_function in steps          *)
(* implements the queueing server that takes it as one, for any            *)
(* applications, threads, ring size, clients and printf calls; and that it *)
(* sends every client all of its own output, and nobody else's, as long as *)
(* no two threads redirect descriptor 1 at the same time.                  *)
(***************************************************************************)
EXTENDS FastCgiServer, SequenceTheorems, TLAPS

PcOK == pc \in [Thread -> ThreadPc \cup CallPc]

\* What Queueing puts for pc.
pcbar == [t \in Thread |-> IF pc[t] \in CallPc THEN "serve" ELSE pc[t]]
-----------------------------------------------------------------------------
\* The threads start outside call_plugin_function.
LEMMA InitPc == Init => PcOK
BY DEF Init, FastCgiInit, PcOK, ThreadPc

\* A thread is at a statement of run_app_by_thread or of call_plugin_function.
LEMMA NextPc == PcOK /\ [Next]_vars => PcOK'
<1> SUFFICES ASSUME PcOK, [Next]_vars PROVE PcOK'
  OBVIOUS
<1> USE DEF PcOK, ThreadPc, CallPc
<1>1. CASE ClientStep
  BY <1>1 DEF ClientStep, Connect, Send
<1>2. CASE AcceptLoop
  BY <1>2 DEF AcceptLoop, Accept, AnswerError, ReadName, Lock, Enqueue, Signal, QueueFull, Unlock
<1>3. ASSUME NEW t \in Thread, QueueStep(t) \/ SpuriousWakeup(t)  PROVE PcOK'
  BY <1>3 DEF QueueStep, Load, LockQueue, Wait, Take, UnlockQueue, SpuriousWakeup
<1>4. ASSUME NEW t \in Thread, CallStep(t)  PROVE PcOK'
  BY <1>4 DEF CallStep, Goto, FlushBefore, Dup, Dup2, Printf, FlushAfter, Restore, CloseSocket
<1>5. CASE FastCgiIdle \/ UNCHANGED vars
  BY <1>5 DEF FastCgiIdle, fvars, vars
<1>. QED  BY <1>1, <1>2, <1>3, <1>4, <1>5 DEF Next, AppThread

\* Where pc changes outside call_plugin_function, pcbar changes alike.
LEMMA GotoBar ==
  ASSUME PcOK, NEW t, NEW to, to \notin CallPc, pc' = [pc EXCEPT ![t] = to]
  PROVE  pcbar' = [pcbar EXCEPT ![t] = to]
BY Zenon DEF PcOK, pcbar

\* A step that keeps pc keeps what the queueing server sees of it.
LEMMA SameBar ==
  ASSUME pc' = pc
  PROVE  pcbar' = pcbar
BY DEF pcbar

\* Outside call_plugin_function pcbar is pc.
LEMMA OutsideCall ==
  ASSUME PcOK, NEW t \in Thread, NEW l, l \notin CallPc \cup {"serve"}
  PROVE  pcbar[t] = l <=> pc[t] = l
BY DEF PcOK, pcbar

\* The server starts as the queueing server does.
LEMMA InitImplements == Init => Queueing!FastCgiInit
<1> SUFFICES ASSUME Init PROVE pcbar = [t \in Thread |-> "load"]
  BY DEF Init, FastCgiInit, Queueing!FastCgiInit, Queueing!Conn, Queueing!NoConn, Conn, NoConn, pcbar
<1>. QED  BY DEF Init, FastCgiInit, pcbar, CallPc

\* A step of a client is the same step of the queueing server.
LEMMA ClientImplements ==
  ASSUME ClientStep
  PROVE  Queueing!ClientStep
<1>1. CASE Connect
  BY <1>1
     DEF Connect, Queueing!ClientStep, Queueing!Connect, Queueing!acceptor, Queueing!ring, acceptor, ring
<1>2. ASSUME NEW c \in Conn, Send(c)  PROVE Queueing!ClientStep
  BY <1>2, Zenon
     DEF Send, Queueing!ClientStep, Queueing!Send, Queueing!acceptor, Queueing!ring, acceptor,
       ring, Conn, Queueing!Conn
<1>. QED  BY <1>1, <1>2 DEF ClientStep

\* The accept loop runs as in the queueing server; the thread it wakes was in
\* pthread_cond_wait.
LEMMA AcceptorImplements ==
  ASSUME PcOK, AcceptLoop
  PROVE  Queueing!AcceptorStep
<1> USE DEF Queueing!AcceptorStep, Queueing!client, Queueing!ring, client, ring
<1>1. CASE Accept
  BY <1>1 DEF Accept, Queueing!Accept
<1>2. CASE AnswerError
  BY <1>2 DEF AnswerError, Queueing!AnswerError
<1>3. CASE ReadName
  BY <1>3 DEF ReadName, LookUp, Queueing!ReadName, Queueing!LookUp
<1>4. CASE Lock
  BY <1>4 DEF Lock, Queueing!Lock
<1>5. CASE Enqueue
  <2>1. Queueing!Signal(app_index)
    <3>1. CASE UNCHANGED <<requests_cond, pc>> /\ requests_cond[app_index] = {}
      BY <3>1 DEF Queueing!Signal
    <3>2. ASSUME NEW t \in requests_cond[app_index],
                 requests_cond' = [requests_cond EXCEPT ![app_index] = @ \ {t}],
                 pc' = [pc EXCEPT ![t] = "relock"]
          PROVE  Queueing!Signal(app_index)
      <4>1. pcbar' = [pcbar EXCEPT ![t] = "relock"]
        BY <3>2, GotoBar, Zenon DEF CallPc
      <4>. QED  BY <3>2, <4>1, Zenon DEF Queueing!Signal, pcbar
    <3>. QED  BY <1>5, <3>1, <3>2 DEF Enqueue, Signal
  <2>. QED  BY <1>5, <2>1 DEF Enqueue, Queueing!Enqueue, Advance, Queueing!Advance
<1>6. CASE QueueFull
  BY <1>6 DEF QueueFull, Queueing!QueueFull
<1>7. CASE Unlock
  BY <1>7 DEF Unlock, Queueing!Unlock
<1>. QED  BY <1>1, <1>2, <1>3, <1>4, <1>5, <1>6, <1>7 DEF AcceptLoop

\* So does a thread at its ring.
LEMMA QueueImplements ==
  ASSUME PcOK, NEW t \in Thread, QueueStep(t) \/ SpuriousWakeup(t)
  PROVE  Queueing!ThreadStep(t) \/ Queueing!SpuriousWakeup(t)
<1> USE DEF Queueing!ThreadStep, Queueing!QueueStep, Queueing!client, Queueing!acceptor,
          Queueing!ring, client, acceptor, ring
<1>1. CASE Load(t)
  <2>1. pcbar[t] = "load" /\ pcbar' = [pcbar EXCEPT ![t] =
                               IF AppOf[t] \in Loadable THEN "lock" ELSE "exited"]
    BY <1>1, GotoBar, OutsideCall, Zenon DEF Load, CallPc
  <2>. QED  BY <1>1, <2>1 DEF Load, Queueing!Load, pcbar
<1>2. CASE LockQueue(t)
  <2>1. pcbar[t] \in {"lock", "relock"} /\ pcbar' = [pcbar EXCEPT ![t] = "check"]
    BY <1>2, GotoBar, OutsideCall, Zenon DEF LockQueue, CallPc
  <2>. QED  BY <1>2, <2>1 DEF LockQueue, Queueing!LockQueue, pcbar
<1>3. CASE Wait(t)
  <2>1. pcbar[t] = "check" /\ pcbar' = [pcbar EXCEPT ![t] = "waiting"]
    BY <1>3, GotoBar, OutsideCall, Zenon DEF Wait, CallPc
  <2>. QED  BY <1>3, <2>1 DEF Wait, Queueing!Wait, Empty, Queueing!Empty, pcbar
<1>4. CASE Take(t)
  <2>1. pcbar[t] = "check" /\ pcbar' = [pcbar EXCEPT ![t] = "unlock"]
    BY <1>4, GotoBar, OutsideCall, Zenon DEF Take, CallPc
  <2>. QED  BY <1>4, <2>1 DEF Take, Queueing!Take, Empty, Queueing!Empty, Advance,
              Queueing!Advance, pcbar
<1>5. CASE UnlockQueue(t)
  <2>1. pcbar[t] = "unlock" /\ pcbar' = [pcbar EXCEPT ![t] = "serve"]
    BY <1>5, GotoBar, OutsideCall, Zenon DEF UnlockQueue, CallPc
  <2>. QED  BY <1>5, <2>1 DEF UnlockQueue, Queueing!UnlockQueue, pcbar
<1>6. CASE SpuriousWakeup(t)
  <2>1. pcbar[t] = "waiting" /\ pcbar' = [pcbar EXCEPT ![t] = "relock"]
    BY <1>6, GotoBar, OutsideCall, Zenon DEF SpuriousWakeup, CallPc
  <2>. QED  BY <1>6, <2>1 DEF SpuriousWakeup, Queueing!SpuriousWakeup, pcbar
<1>. QED  BY <1>1, <1>2, <1>3, <1>4, <1>5, <1>6 DEF QueueStep

\* The steps of call_plugin_function leave the queueing server as it is, but
\* for the last, which is its Serve.
LEMMA CallImplements ==
  ASSUME PcOK, NEW t \in Thread, CallStep(t)
  PROVE  Queueing!ThreadStep(t) \/ UNCHANGED Queueing!fvars
<1> USE DEF Goto, queueVars, client, acceptor, ring
<1>1. ASSUME FlushBefore(t) \/ Dup(t) \/ Dup2(t) \/ FlushAfter(t) \/ Restore(t)
      PROVE  UNCHANGED Queueing!fvars
  <2>1. pcbar' = pcbar
    BY <1>1 DEF FlushBefore, Dup, Dup2, FlushAfter, Restore, PcOK, CallPc, pcbar
  <2>2. UNCHANGED <<queueVars, sockfd, answer>>
    BY <1>1 DEF FlushBefore, Dup, Dup2, FlushAfter, Restore
  <2>. QED  BY <2>1, <2>2
               DEF Queueing!fvars, Queueing!client, Queueing!acceptor, Queueing!ring, pcbar
<1>2. ASSUME Printf(t)  PROVE UNCHANGED Queueing!fvars
  BY <1>2 DEF Printf, Queueing!fvars, Queueing!client, Queueing!acceptor, Queueing!ring
<1>3. ASSUME CloseSocket(t)  PROVE Queueing!Serve(t)
  <2>1. pcbar[t] = "serve"
    BY <1>3 DEF CloseSocket, CallPc, pcbar
  <2>2. pcbar' = [pcbar EXCEPT ![t] = "lock"]
    BY <1>3, GotoBar, Zenon DEF CloseSocket, CallPc
  <2>. QED  BY <1>3, <2>1, <2>2 DEF CloseSocket, Queueing!Serve, Queueing!client,
              Queueing!acceptor, Queueing!ring, Queueing!NoConn, NoConn, pcbar
<1>. QED  BY <1>1, <1>2, <1>3 DEF CallStep, Queueing!ThreadStep

\* Every step is a step of the queueing server or none.
LEMMA NextImplements == PcOK /\ [Next]_vars => [Queueing!FastCgiNext]_(Queueing!fvars)
<1> SUFFICES ASSUME PcOK, [Next]_vars PROVE Queueing!FastCgiNext \/ UNCHANGED Queueing!fvars
  OBVIOUS
<1>1. CASE UNCHANGED fvars
  BY <1>1 DEF fvars, client, acceptor, ring, Queueing!fvars, Queueing!client, Queueing!acceptor,
       Queueing!ring
<1>2. CASE FastCgiIdle \/ UNCHANGED vars
  BY <1>1, <1>2 DEF FastCgiIdle, vars
<1>3. CASE \E t \in Thread : AppThread(t) \/ SpuriousWakeup(t)
  BY <1>3, QueueImplements, CallImplements DEF AppThread, Queueing!FastCgiNext
<1>. QED
  BY <1>2, <1>3, ClientImplements, AcceptorImplements DEF Next, Queueing!FastCgiNext

\* call_plugin_function, whatever it does to descriptor 1, is one step of the
\* queueing server: what is proved of the rings, the mutexes and the routing
\* there holds of the server with its plugins.
THEOREM CallRefinesServe == Spec => CallImplementsServe
BY InitPc, NextPc, InitImplements, NextImplements, PTL
   DEF Spec, CallImplementsServe, Queueing!FastCgiSpec
-----------------------------------------------------------------------------
(* The output of a server in which the redirections do not overlap.        *)

\* The steps of a thread during which the plugin runs for its client or has run.
Running == {"plugin", "restore", "close"}

CallTypeOK ==
  /\ PcOK
  /\ stdio \in Seq(Conn)
  /\ stdout_bkp \in [Thread -> Sink \cup {NoConn}]
  /\ printed \in [Thread -> 0..Pieces]
  /\ delivered \in [Sink -> Seq(Conn)]

\* Descriptor 1 is the client's connection from dup2 to the dup2 that restores it.
Redirected ==
  /\ \A t \in Thread : pc[t] \in {"plugin", "restore"} => stdout = sockfd[t]
  /\ (\A t \in Thread : pc[t] \notin {"plugin", "restore"}) => stdout = Terminal
  /\ \A t \in Thread : pc[t] \in {"dup2", "plugin", "restore"} => stdout_bkp[t] = Terminal

\* Only what a running plugin printed is in stdio's buffer.
Buffered ==
  /\ \A i \in 1..Len(stdio) : stdio[i] = stdout
  /\ (\A t \in Thread : pc[t] # "plugin") => Len(stdio) = 0

\* What a plugin has printed is in the buffer or with its client.
Counted ==
  \A t \in Thread :
    /\ pc[t] \notin Running => printed[t] = 0
    /\ pc[t] = "plugin" => Len(delivered[sockfd[t]]) + Len(stdio) = printed[t]
    /\ pc[t] \in {"restore", "close"} => Len(delivered[sockfd[t]]) = Pieces

\* A client has got all of its response when it is answered, nothing before its
\* plugin runs.
AllOrNothing ==
  \A c \in Conn :
    /\ answer[c] \in App => Len(delivered[c]) = Pieces
    /\ answer[c] = None /\ (\A t \in Thread : pc[t] \in Running => sockfd[t] # c)
         => Len(delivered[c]) = 0

CallInv == CallTypeOK /\ OwnOutputOnly /\ Redirected /\ Buffered /\ Counted /\ AllOrNothing

\* What the queueing server leaves to call_plugin_function: a thread in it has a
\* connection, which nobody has answered and no other thread has; and the accept
\* loop wakes only threads that sleep.
Handed ==
  /\ sockfd \in [Thread -> Conn \cup {NoConn}]
  /\ answer \in [Conn -> App \cup {None, 404, 500}]
  /\ \A t \in Thread : pc[t] \in CallPc \cup {"serve"} =>
                         sockfd[t] \in Conn /\ answer[sockfd[t]] = None
  /\ \A t, u \in Thread : sockfd[t] = sockfd[u] /\ sockfd[t] # NoConn => t = u
  /\ apc = "enqueue" =>
       \A t \in requests_cond[app_index] : t \in Thread /\ pc[t] = "waiting"

AllOf(seq, v) == \A i \in 1..Len(seq) : seq[i] = v

\* Output that is appended to output of the same client is output of that client.
LEMMA Joined ==
  ASSUME NEW s1 \in Seq(Conn), NEW s2 \in Seq(Conn), NEW v
  PROVE  /\ s1 \o s2 \in Seq(Conn) /\ Len(s1 \o s2) = Len(s1) + Len(s2)
         /\ AllOf(s1, v) /\ AllOf(s2, v) => AllOf(s1 \o s2, v)
<1>1. /\ s1 \o s2 \in Seq(Conn) /\ Len(s1 \o s2) = Len(s1) + Len(s2)
      /\ \A i \in 1..(Len(s1) + Len(s2)) :
           (s1 \o s2)[i] = IF i =< Len(s1) THEN s1[i] ELSE s2[i - Len(s1)]
  BY ConcatProperties
<1>2. Len(s1) \in Nat /\ Len(s2) \in Nat
  BY LenProperties
<1> DEFINE s == s1 \o s2
<1> HIDE DEF s
<1>3. Len(s) = Len(s1) + Len(s2)
  BY <1>1 DEF s
<1>4. ASSUME AllOf(s1, v), AllOf(s2, v), NEW i \in 1..Len(s)  PROVE s[i] = v
  <2>1. s[i] = IF i =< Len(s1) THEN s1[i] ELSE s2[i - Len(s1)]
    BY <1>1, <1>3 DEF s
  <2>2. IF i =< Len(s1) THEN i \in 1..Len(s1) ELSE i - Len(s1) \in 1..Len(s2)
    BY <1>2, <1>3
  <2>. QED  BY <1>4, <2>1, <2>2 DEF AllOf
<1>. QED  BY <1>1, <1>4 DEF AllOf, s

\* stdio writes its buffer and the new pieces to descriptor 1, in order.
LEMMA Written ==
  ASSUME CallTypeOK, stdout \in Sink, NEW out \in Seq(Conn), Write(out)
  PROVE  /\ stdio' = << >>
         /\ delivered' \in [Sink -> Seq(Conn)]
         /\ \A s \in Sink \ {stdout} : delivered'[s] = delivered[s]
         /\ Len(delivered'[stdout]) = Len(delivered[stdout]) + Len(stdio) + Len(out)
         /\ AllOf(delivered[stdout], stdout) /\ AllOf(stdio, stdout) /\ AllOf(out, stdout)
            => AllOf(delivered'[stdout], stdout)
<1>1. delivered[stdout] \in Seq(Conn) /\ stdio \in Seq(Conn)
  BY DEF CallTypeOK
<1> DEFINE first == delivered[stdout] \o stdio
           all == first \o out
<1>2. /\ first \in Seq(Conn) /\ Len(first) = Len(delivered[stdout]) + Len(stdio)
      /\ AllOf(delivered[stdout], stdout) /\ AllOf(stdio, stdout) => AllOf(first, stdout)
  BY <1>1, Joined
<1>3. /\ all \in Seq(Conn) /\ Len(all) = Len(first) + Len(out)
      /\ AllOf(first, stdout) /\ AllOf(out, stdout) => AllOf(all, stdout)
  BY <1>2, Joined, Zenon
<1>4. delivered' = [delivered EXCEPT ![stdout] = all] /\ stdio' = << >>
  BY DEF Write
<1> HIDE DEF all
<1>7. /\ delivered' \in [Sink -> Seq(Conn)] /\ delivered'[stdout] = all
      /\ \A s \in Sink \ {stdout} : delivered'[s] = delivered[s]
  BY <1>3, <1>4 DEF CallTypeOK
<1>8. Len(all) = Len(delivered[stdout]) + Len(stdio) + Len(out)
  BY <1>2, <1>3
<1>. QED  BY <1>2, <1>3, <1>4, <1>7, <1>8

\* At the start nothing is printed and descriptor 1 is the terminal.
LEMMA InitCall == Init => CallInv
<1> SUFFICES ASSUME Init PROVE CallInv
  OBVIOUS
<1>1. CallTypeOK
  BY InitPc, ServerAssumption, EmptySeq DEF Init, CallTypeOK
<1>2. stdio = << >> /\ Len(stdio) = 0 /\ \A s \in Sink : Len(delivered[s]) = 0
  BY EmptySeq DEF Init
<1>3. \A t \in Thread : pc[t] = "load" /\ printed[t] = 0
  BY DEF Init, FastCgiInit
<1>4. \A c \in Conn : answer[c] \notin App /\ c \in Sink
  BY FastCgiAssumption DEF Init, FastCgiInit, Sink
<1>5. OwnOutputOnly /\ Buffered
  BY <1>2 DEF OwnOutputOnly, Buffered
<1>6. Redirected
  BY <1>3 DEF Init, Redirected
<1>7. Counted
  BY <1>3 DEF Counted, Running
<1>8. AllOrNothing
  BY <1>2, <1>4 DEF AllOrNothing
<1>. QED  BY <1>1, <1>5, <1>6, <1>7, <1>8 DEF CallInv

\* Outside call_plugin_function nobody prints, and the accept loop answers no
\* client in the name of an application.
LEMMA OutsideKeeps ==
  ASSUME CallInv, PcOK', UNCHANGED <<stdout, stdio, stdout_bkp, printed, delivered>>,
         \A t \in Thread : pc[t] \in CallPc \/ pc'[t] \in CallPc =>
                             pc'[t] = pc[t] /\ sockfd'[t] = sockfd[t],
         \A c \in Conn : answer'[c] = answer[c] \/ answer'[c] \notin App \cup {None}
  PROVE  CallInv'
<1> USE DEF CallInv
<1>1. CallTypeOK' /\ OwnOutputOnly'
  BY DEF CallTypeOK, OwnOutputOnly
<1>2. Redirected'
  BY DEF Redirected, CallPc
<1>3. Buffered'
  BY DEF Buffered, CallPc
<1>4. Counted'
  <2> SUFFICES ASSUME NEW t \in Thread
               PROVE  /\ pc'[t] \notin Running => printed[t] = 0
                      /\ pc'[t] = "plugin" => Len(delivered[sockfd'[t]]) + Len(stdio) = printed[t]
                      /\ pc'[t] \in {"restore", "close"} => Len(delivered[sockfd'[t]]) = Pieces
    BY DEF Counted
  <2>1. CASE pc'[t] \in CallPc
    BY <2>1 DEF Counted
  <2>2. CASE pc'[t] \notin CallPc
    BY <2>2 DEF Counted, Running, CallPc
  <2>. QED  BY <2>1, <2>2
<1>5. AllOrNothing'
  <2> SUFFICES ASSUME NEW c \in Conn
               PROVE  /\ answer'[c] \in App => Len(delivered[c]) = Pieces
                      /\ answer'[c] = None /\ (\A t \in Thread : pc'[t] \in Running => sockfd'[t] # c)
                           => Len(delivered[c]) = 0
    BY DEF AllOrNothing
  <2>1. ASSUME \A t \in Thread : pc'[t] \in Running => sockfd'[t] # c
        PROVE  \A t \in Thread : pc[t] \in Running => sockfd[t] # c
    BY <2>1 DEF Running, CallPc
  <2>. QED  BY <2>1 DEF AllOrNothing
<1>. QED  BY <1>1, <1>2, <1>3, <1>4, <1>5

\* A step at a ring touches neither descriptor 1 nor the buffer of stdout.
LEMMA QueueKeepsCall ==
  ASSUME Handed, CallInv, PcOK', NEW t \in Thread, QueueStep(t) \/ SpuriousWakeup(t),
         UNCHANGED cvars
  PROVE  CallInv'
<1>1. pc[t] \notin CallPc /\ pc'[t] \notin CallPc
  BY Zenon DEF CallInv, CallTypeOK, PcOK, QueueStep, Load, LockQueue, Wait, Take, UnlockQueue,
       SpuriousWakeup, CallPc
<1>2. \A u \in Thread \ {t} : pc'[u] = pc[u] /\ sockfd'[u] = sockfd[u]
  BY DEF Handed, CallInv, CallTypeOK, PcOK, QueueStep, Load, LockQueue, Wait, Take, UnlockQueue,
       SpuriousWakeup
<1>3. answer' = answer
  BY Zenon DEF QueueStep, Load, LockQueue, Wait, Take, UnlockQueue, SpuriousWakeup
<1>. QED  BY <1>1, <1>2, <1>3, OutsideKeeps, Zenon DEF cvars

\* The accept loop, its 404 and 500 included, leaves descriptor 1 and stdio alone.
LEMMA AcceptKeepsCall ==
  ASSUME Handed, CallInv, PcOK', AcceptLoop
  PROVE  CallInv'
<1>1. sockfd' = sockfd /\ UNCHANGED <<stdout, stdio, stdout_bkp, printed, delivered>>
  BY DEF AcceptLoop, Accept, AnswerError, ReadName, Lock, Enqueue, QueueFull, Unlock, cvars
<1>2. \A c \in Conn : answer'[c] = answer[c] \/ answer'[c] \notin App \cup {None}
  <2>1. CASE AnswerError
    <3>1. answer \in [Conn -> App \cup {None, 404, 500}]
      BY DEF Handed, CallInv, CallTypeOK
    <3>2. {404, 500} \cap (App \cup {None}) = {}
      BY FastCgiAssumption
    <3>. QED  BY <2>1, <3>1, <3>2 DEF AnswerError
  <2>2. CASE ~AnswerError
    BY <2>2, Zenon DEF AcceptLoop, Accept, ReadName, Lock, Enqueue, QueueFull, Unlock
  <2>. QED  BY <2>1, <2>2
<1>3. \A t \in Thread : pc[t] \in CallPc \/ pc'[t] \in CallPc => pc'[t] = pc[t]
  <2>1. CASE pc' = pc
    BY <2>1
  <2>2. CASE Enqueue
    <3>2. ASSUME NEW t \in requests_cond[app_index], pc' = [pc EXCEPT ![t] = "relock"]
          PROVE  \A u \in Thread : pc[u] \in CallPc \/ pc'[u] \in CallPc => pc'[u] = pc[u]
      <4>1. t \in Thread /\ pc[t] = "waiting"
        BY <2>2, <3>2 DEF Enqueue, Handed
      <4>. QED  BY <3>2, <4>1 DEF CallInv, CallTypeOK, PcOK, CallPc
    <3>. QED  BY <2>1, <2>2, <3>2 DEF Enqueue, Signal
  <2>. QED  BY <2>1, <2>2 DEF AcceptLoop, Accept, AnswerError, ReadName, Lock, QueueFull, Unlock
<1>. QED  BY <1>1, <1>2, <1>3, OutsideKeeps, Zenon

\* What the invariant says of descriptor 1, the buffer and what was written.
LEMMA SinkFacts ==
  ASSUME Handed, CallInv
  PROVE  /\ Terminal \notin Conn /\ Conn \subseteq Sink /\ Terminal \in Sink /\ stdout \in Sink
         /\ stdio \in Seq(Conn) /\ Len(stdio) \in Nat /\ AllOf(stdio, stdout)
         /\ delivered \in [Sink -> Seq(Conn)]
         /\ \A s \in Sink : Len(delivered[s]) \in Nat /\ AllOf(delivered[s], s)
<1>1. Terminal \notin Conn /\ Conn \subseteq Sink /\ Terminal \in Sink
  BY ServerAssumption DEF Sink
<1>2. stdout \in Sink
  <2>1. ASSUME NEW t \in Thread, pc[t] \in {"plugin", "restore"}  PROVE stdout \in Sink
    BY <1>1, <2>1 DEF CallInv, Redirected, Handed, CallPc
  <2>. QED  BY <1>1, <2>1 DEF CallInv, Redirected
<1>3. stdio \in Seq(Conn) /\ delivered \in [Sink -> Seq(Conn)]
  BY DEF CallInv, CallTypeOK
<1>4. Len(stdio) \in Nat /\ \A s \in Sink : Len(delivered[s]) \in Nat
  BY <1>3, LenProperties
<1>5. AllOf(stdio, stdout) /\ \A s \in Sink : AllOf(delivered[s], s)
  BY DEF CallInv, Buffered, OwnOutputOnly, AllOf
<1>. QED  BY <1>1, <1>2, <1>3, <1>4, <1>5

\* What it says of a thread in the call.
LEMMA CallFacts ==
  ASSUME Handed, CallInv, NEW t \in Thread, pc[t] \in CallPc \cup {"serve"}
  PROVE  /\ sockfd[t] \in Conn /\ answer[sockfd[t]] = None
         /\ printed[t] \in 0..Pieces /\ Pieces \in Nat
         /\ \A u \in Thread \ {t} : sockfd[u] # sockfd[t]
<1>1. sockfd[t] \in Conn /\ answer[sockfd[t]] = None
  BY DEF Handed
<1>2. sockfd[t] # NoConn
  BY <1>1, FastCgiAssumption DEF Conn, NoConn
<1>3. \A u \in Thread \ {t} : sockfd[u] # sockfd[t]
  BY <1>2 DEF Handed
<1>4. printed[t] \in 0..Pieces /\ Pieces \in Nat
  BY ServerAssumption DEF CallInv, CallTypeOK
<1>. QED  BY <1>1, <1>3, <1>4

\* Where the threads are before and after a statement of the call.
LEMMA GotoFacts ==
  ASSUME CallInv, NEW t \in Thread, NEW from, NEW to, Goto(t, from, to)
  PROVE  pc[t] = from /\ pc'[t] = to /\ \A u \in Thread \ {t} : pc'[u] = pc[u]
BY DEF CallInv, CallTypeOK, PcOK, Goto

\* fflush, by whichever thread, sends the buffer to the client whose plugin runs.
LEMMA Flushed ==
  ASSUME Handed, CallInv, Write(<< >>)
  PROVE  /\ stdio' \in Seq(Conn) /\ Len(stdio') = 0
         /\ delivered' \in [Sink -> Seq(Conn)]
         /\ \A s \in Sink : AllOf(delivered'[s], s)
         /\ \A t \in Thread : pc[t] = "plugin" =>
              Len(delivered'[sockfd[t]]) = Len(delivered[sockfd[t]]) + Len(stdio)
         /\ \A c \in Conn : (\A t \in Thread : pc[t] = "plugin" => sockfd[t] # c) =>
              Len(delivered'[c]) = Len(delivered[c])
<1>1. << >> \in Seq(Conn) /\ Len(<< >>) = 0 /\ \A v : AllOf(<< >>, v)
  BY EmptySeq DEF AllOf
<1>2. /\ stdio' = << >>
      /\ delivered' \in [Sink -> Seq(Conn)]
      /\ \A s \in Sink \ {stdout} : delivered'[s] = delivered[s]
      /\ Len(delivered'[stdout]) = Len(delivered[stdout]) + Len(stdio) + 0
      /\ AllOf(delivered[stdout], stdout) /\ AllOf(stdio, stdout) => AllOf(delivered'[stdout], stdout)
  <2>1. CallTypeOK /\ stdout \in Sink
    BY SinkFacts DEF CallInv
  <2>. QED  BY <1>1, <2>1, Written, Zenon
<1>3. Len(delivered'[stdout]) = Len(delivered[stdout]) + Len(stdio)
  BY <1>2, SinkFacts
<1>4. \A s \in Sink : AllOf(delivered'[s], s)
  BY <1>2, SinkFacts, Zenon
<1>5. \A t \in Thread : pc[t] = "plugin" => stdout = sockfd[t]
  BY DEF CallInv, Redirected
<1>6. ASSUME NEW c \in Conn, \A t \in Thread : pc[t] = "plugin" => sockfd[t] # c
      PROVE  Len(delivered'[c]) = Len(delivered[c])
  <2>1. CASE c = stdout
    <3>1. Len(stdio) = 0
      BY <1>5, <1>6, <2>1 DEF CallInv, Buffered
    <3>. QED  BY <1>3, <2>1, <3>1, SinkFacts
  <2>2. CASE c # stdout
    BY <1>2, <2>2, SinkFacts
  <2>. QED  BY <2>1, <2>2
<1>. QED  BY <1>1, <1>2, <1>3, <1>4, <1>5, <1>6

\* A client whose plugin runs is not answered yet.
LEMMA RunningUnanswered ==
  ASSUME Handed, NEW t \in Thread, pc[t] \in CallPc
  PROVE  answer[sockfd[t]] \notin App
BY FastCgiAssumption DEF Handed

\* fflush before dup finds the buffer empty or sends it to the client, of another
\* thread, whose plugin printed it.
LEMMA FlushBeforeKeeps ==
  ASSUME Handed, RedirectionsApart, CallInv, PcOK', NEW t \in Thread, FlushBefore(t)
  PROVE  CallInv'
<1>1. pc[t] = "serve" /\ pc'[t] = "dup" /\ \A u \in Thread \ {t} : pc'[u] = pc[u]
  BY GotoFacts DEF FlushBefore
<1>2. UNCHANGED <<sockfd, answer, stdout, stdout_bkp, printed>> /\ Write(<< >>)
  BY Zenon DEF FlushBefore
<1>3. \A u \in Thread : \A l \in {"dup2", "plugin", "restore", "close"} : pc'[u] = l <=> pc[u] = l
  BY <1>1
<1>4. CallTypeOK'
  BY <1>2, Flushed DEF CallInv, CallTypeOK
<1>5. OwnOutputOnly'
  BY <1>2, Flushed, Zenon DEF OwnOutputOnly, AllOf
<1>6. Redirected'
  BY <1>2, <1>3 DEF CallInv, Redirected
<1>7. Buffered'
  BY <1>2, Flushed DEF Buffered
<1>8. Counted'
  <2> SUFFICES ASSUME NEW u \in Thread
               PROVE  /\ pc'[u] \notin Running => printed[u] = 0
                      /\ pc'[u] = "plugin" => Len(delivered'[sockfd[u]]) + Len(stdio') = printed[u]
                      /\ pc'[u] \in {"restore", "close"} => Len(delivered'[sockfd[u]]) = Pieces
    BY <1>2 DEF Counted
  <2>1. pc'[u] \notin Running => printed[u] = 0
    BY <1>3 DEF CallInv, Counted, Running
  <2>2. ASSUME pc[u] = "plugin"  PROVE Len(delivered'[sockfd[u]]) + Len(stdio') = printed[u]
    <3>1. /\ Len(delivered'[sockfd[u]]) = Len(delivered[sockfd[u]]) + Len(stdio)
          /\ Len(stdio') = 0
      BY <1>2, <2>2, Flushed, Zenon
    <3>2. Len(delivered[sockfd[u]]) + Len(stdio) = printed[u] /\ printed[u] \in Nat
      BY <2>2, ServerAssumption DEF CallInv, CallTypeOK, Counted
    <3>. QED  BY <3>1, <3>2
  <2>3. ASSUME pc[u] \in {"restore", "close"}  PROVE Len(delivered'[sockfd[u]]) = Pieces
    <3>1. sockfd[u] \in Conn /\ \A v \in Thread : pc[v] = "plugin" => sockfd[v] # sockfd[u]
      BY <2>3, CallFacts DEF CallPc
    <3>2. Len(delivered'[sockfd[u]]) = Len(delivered[sockfd[u]])
      BY <1>2, <3>1, Flushed, Zenon
    <3>. QED  BY <2>3, <3>2 DEF CallInv, Counted
  <2>. QED  BY <1>3, <2>1, <2>2, <2>3
<1>9. AllOrNothing'
  <2> SUFFICES ASSUME NEW c \in Conn
               PROVE  /\ answer[c] \in App => Len(delivered'[c]) = Pieces
                      /\ answer[c] = None /\ (\A u \in Thread : pc'[u] \in Running => sockfd[u] # c)
                           => Len(delivered'[c]) = 0
    BY <1>2 DEF AllOrNothing
  <2>1. \A u \in Thread : pc'[u] \in Running <=> pc[u] \in Running
    BY <1>3 DEF Running
  <2>2. answer[c] \in App => \A u \in Thread : pc[u] = "plugin" => sockfd[u] # c
    BY RunningUnanswered DEF CallPc
  <2>3. (\A u \in Thread : pc[u] = "plugin" => sockfd[u] # c) => Len(delivered'[c]) = Len(delivered[c])
    BY <1>2, Flushed, Zenon
  <2>. QED  BY <2>1, <2>2, <2>3 DEF CallInv, AllOrNothing, Running
<1>. QED  BY <1>4, <1>5, <1>6, <1>7, <1>8, <1>9 DEF CallInv

\* dup saves the terminal, as nobody else redirects.
LEMMA DupKeeps ==
  ASSUME Handed, RedirectionsApart', CallInv, PcOK', NEW t \in Thread, Dup(t)
  PROVE  CallInv'
<1>1. pc[t] = "dup" /\ pc'[t] = "dup2" /\ \A u \in Thread \ {t} : pc'[u] = pc[u]
  BY GotoFacts DEF Dup
<1>2. /\ UNCHANGED <<sockfd, answer, stdout, stdio, printed, delivered>>
      /\ stdout_bkp' = [stdout_bkp EXCEPT ![t] = stdout]
  BY Zenon DEF Dup
<1>3. \A u \in Thread : pc[u] \notin {"dup2", "plugin", "restore"}
  BY <1>1 DEF RedirectionsApart
<1>4. stdout = Terminal
  BY <1>3 DEF CallInv, Redirected
<1>5. stdout_bkp' \in [Thread -> Sink \cup {NoConn}] /\ stdout_bkp'[t] = Terminal
  BY <1>2, <1>4, SinkFacts DEF CallInv, CallTypeOK
<1>6. CallTypeOK' /\ OwnOutputOnly'
  BY <1>2, <1>5 DEF CallInv, CallTypeOK, OwnOutputOnly
<1>7. Redirected' /\ Buffered'
  BY <1>1, <1>2, <1>3, <1>4, <1>5 DEF CallInv, Redirected, Buffered
<1>8. Counted' /\ AllOrNothing'
  <2>1. \A u \in Thread : \A l \in Running : pc'[u] = l <=> pc[u] = l
    BY <1>1 DEF Running
  <2>. QED  BY <1>2, <2>1 DEF CallInv, Counted, AllOrNothing, Running
<1>. QED  BY <1>6, <1>7, <1>8 DEF CallInv

\* dup2 makes the connection descriptor 1; nothing was printed for it before.
LEMMA Dup2Keeps ==
  ASSUME Handed, RedirectionsApart, CallInv, PcOK', NEW t \in Thread, Dup2(t)
  PROVE  CallInv'
<1>1. pc[t] = "dup2" /\ pc'[t] = "plugin" /\ \A u \in Thread \ {t} : pc'[u] = pc[u]
  BY GotoFacts DEF Dup2
<1>2. stdout' = sockfd[t] /\ UNCHANGED <<sockfd, answer, stdio, stdout_bkp, printed, delivered>>
  BY Zenon DEF Dup2
<1>3. \A u \in Thread \ {t} : pc[u] \notin {"dup2", "plugin", "restore"}
  BY <1>1 DEF RedirectionsApart
<1>4. Len(stdio) = 0
  BY <1>1, <1>3 DEF CallInv, Buffered
<1>5. CallTypeOK' /\ OwnOutputOnly'
  BY <1>2 DEF CallInv, CallTypeOK, OwnOutputOnly
<1>6. Redirected' /\ Buffered'
  <2>1. stdout_bkp[t] = Terminal
    BY <1>1 DEF CallInv, Redirected
  <2>. QED  BY <1>1, <1>2, <1>3, <1>4, <2>1 DEF Redirected, Buffered
<1>7. Len(delivered[sockfd[t]]) = 0 /\ printed[t] = 0
  <2>1. /\ sockfd[t] \in Conn /\ answer[sockfd[t]] = None
        /\ \A u \in Thread \ {t} : sockfd[u] # sockfd[t]
    BY <1>1, CallFacts DEF CallPc
  <2>. QED  BY <1>1, <2>1 DEF CallInv, AllOrNothing, Counted, Running
<1>8. Counted'
  BY <1>1, <1>2, <1>3, <1>4, <1>7 DEF CallInv, Counted, Running
<1>9. AllOrNothing'
  <2>1. \A u \in Thread : pc[u] \in Running => pc'[u] \in Running
    BY <1>1 DEF Running
  <2>. QED  BY <1>2, <2>1 DEF CallInv, AllOrNothing
<1>. QED  BY <1>5, <1>6, <1>8, <1>9 DEF CallInv

\* printf leaves the piece in the buffer or sends it, with the buffer, to the
\* client: descriptor 1 is its connection.
LEMMA PrintfKeeps ==
  ASSUME Handed, RedirectionsApart, CallInv, PcOK', NEW t \in Thread, Printf(t)
  PROVE  CallInv'
<1>1. pc[t] = "plugin" /\ pc' = pc /\ printed[t] < Pieces
  BY Zenon DEF Printf
<1>2. UNCHANGED <<sockfd, answer, stdout, stdout_bkp>>
  BY Zenon DEF Printf
<1>3. /\ stdout = sockfd[t] /\ sockfd[t] \in Conn /\ answer[sockfd[t]] = None
      /\ \A u \in Thread \ {t} : sockfd[u] # sockfd[t]
  BY <1>1, CallFacts DEF CallInv, Redirected, CallPc
<1>4. /\ printed' \in [Thread -> 0..Pieces] /\ printed'[t] = printed[t] + 1
      /\ \A u \in Thread \ {t} : printed'[u] = printed[u]
  <2>1. printed \in [Thread -> 0..Pieces] /\ Pieces \in Nat
    BY ServerAssumption DEF CallInv, CallTypeOK
  <2>. QED  BY <1>1, <2>1 DEF Printf
<1>5. Len(delivered[sockfd[t]]) + Len(stdio) = printed[t]
  BY <1>1 DEF CallInv, Counted
<1>6. <<sockfd[t]>> \in Seq(Conn) /\ Len(<<sockfd[t]>>) = 1 /\ AllOf(<<sockfd[t]>>, stdout)
  BY <1>3 DEF AllOf
<1>7. /\ stdio' \in Seq(Conn) /\ AllOf(stdio', sockfd[t])
      /\ delivered' \in [Sink -> Seq(Conn)]
      /\ \A s \in Sink : AllOf(delivered'[s], s)
      /\ \A c \in Conn \ {sockfd[t]} : delivered'[c] = delivered[c]
      /\ Len(delivered'[sockfd[t]]) + Len(stdio') = printed'[t]
  <2>1. CASE stdio' = Append(stdio, sockfd[t]) /\ UNCHANGED delivered
    <3>1. /\ stdio \in Seq(Conn) /\ Len(stdio) \in Nat /\ AllOf(stdio, sockfd[t])
          /\ Len(delivered[sockfd[t]]) \in Nat /\ delivered \in [Sink -> Seq(Conn)]
          /\ \A s \in Sink : AllOf(delivered[s], s)
      BY <1>3, SinkFacts
    <3>2. /\ stdio' \in Seq(Conn) /\ Len(stdio') = Len(stdio) + 1
          /\ \A i \in 1..Len(stdio) : stdio'[i] = stdio[i]
          /\ stdio'[Len(stdio) + 1] = sockfd[t]
      BY <1>3, <2>1, <3>1, AppendProperties
    <3>3. AllOf(stdio', sockfd[t])
      BY <3>1, <3>2 DEF AllOf
    <3>4. Len(delivered[sockfd[t]]) + Len(stdio') = printed'[t]
      <4>1. Len(stdio') = Len(stdio) + 1 /\ printed'[t] = printed[t] + 1
        BY <1>4, <3>2
      <4>2. \A l, m \in Nat : l + (m + 1) = (l + m) + 1
        OBVIOUS
      <4>. QED  BY <1>5, <3>1, <4>1, <4>2, Zenon
    <3>. QED  BY <2>1, <3>1, <3>2, <3>3, <3>4, Zenon
  <2>2. CASE Write(<<sockfd[t]>>)
    <3>1. /\ stdio' = << >>
          /\ delivered' \in [Sink -> Seq(Conn)]
          /\ \A s \in Sink \ {stdout} : delivered'[s] = delivered[s]
          /\ Len(delivered'[stdout]) = Len(delivered[stdout]) + Len(stdio) + Len(<<sockfd[t]>>)
          /\ AllOf(delivered[stdout], stdout) /\ AllOf(stdio, stdout) /\ AllOf(<<sockfd[t]>>, stdout)
             => AllOf(delivered'[stdout], stdout)
      <4>1. PICK c \in Conn : c = sockfd[t]
        BY <1>3, Zenon
      <4>2. CallTypeOK /\ stdout \in Sink /\ <<c>> \in Seq(Conn) /\ Write(<<c>>)
        BY <2>2, <4>1, SinkFacts DEF CallInv
      <4>. QED  BY <4>1, <4>2, Written, Zenon
    <3>2. \A s \in Sink : AllOf(delivered'[s], s)
      BY <1>6, <3>1, SinkFacts, Zenon
    <3>3. << >> \in Seq(Conn) /\ Len(<< >>) = 0 /\ AllOf(<< >>, sockfd[t])
      BY EmptySeq DEF AllOf
    <3>4. \A c \in Conn \ {sockfd[t]} : delivered'[c] = delivered[c]
      BY <1>3, <3>1, SinkFacts, Zenon
    <3>5. Len(delivered'[sockfd[t]]) + 0 = printed'[t]
      <4>1. Len(delivered[sockfd[t]]) \in Nat /\ Len(stdio) \in Nat
        BY <1>3, SinkFacts
      <4>. QED  BY <1>3, <1>4, <1>5, <1>6, <3>1, <4>1
    <3>. QED  BY <3>1, <3>2, <3>3, <3>4, <3>5
  <2>. QED  BY <2>1, <2>2 DEF Printf
<1>8. CallTypeOK'
  BY <1>2, <1>4, <1>7 DEF CallInv, CallTypeOK
<1>9. OwnOutputOnly'
  BY <1>7, Zenon DEF OwnOutputOnly, AllOf
<1>10. Redirected'
  BY <1>1, <1>2 DEF CallInv, Redirected
<1>11. Buffered'
  BY <1>1, <1>2, <1>3, <1>7 DEF Buffered, AllOf
<1>12. Counted'
  <2>1. ASSUME NEW u \in Thread \ {t}
        PROVE  /\ pc[u] \notin Running => printed'[u] = 0
               /\ pc[u] # "plugin"
               /\ pc[u] \in {"restore", "close"} => Len(delivered'[sockfd[u]]) = Pieces
    <3>1. pc[u] # "plugin"
      BY <1>1 DEF RedirectionsApart
    <3>2. pc[u] \notin Running => printed'[u] = 0
      BY <1>4 DEF CallInv, Counted
    <3>3. ASSUME pc[u] \in {"restore", "close"}  PROVE Len(delivered'[sockfd[u]]) = Pieces
      <4>1. sockfd[u] \in Conn
        BY <3>3, CallFacts DEF CallPc
      <4>. QED  BY <1>3, <1>7, <3>3, <4>1 DEF CallInv, Counted
    <3>. QED  BY <3>1, <3>2, <3>3
  <2>. QED  BY <1>1, <1>2, <1>7, <2>1 DEF Counted, Running
<1>13. AllOrNothing'
  <2>1. \A c \in Conn : (answer[c] \in App \/ \A u \in Thread : pc[u] \in Running => sockfd[u] # c)
                        => c # sockfd[t]
    BY <1>1, RunningUnanswered DEF Running, CallPc
  <2>. QED  BY <1>1, <1>2, <1>7, <2>1, Zenon DEF CallInv, AllOrNothing
<1>. QED  BY <1>8, <1>9, <1>10, <1>11, <1>12, <1>13 DEF CallInv

\* fflush after the plugin sends the client what is left in the buffer.
LEMMA FlushAfterKeeps ==
  ASSUME Handed, RedirectionsApart, CallInv, PcOK', NEW t \in Thread, FlushAfter(t)
  PROVE  CallInv'
<1>1. /\ pc[t] = "plugin" /\ pc'[t] = "restore" /\ printed[t] = Pieces
      /\ \A u \in Thread \ {t} : pc'[u] = pc[u]
  BY GotoFacts DEF FlushAfter
<1>2. UNCHANGED <<sockfd, answer, stdout, stdout_bkp, printed>> /\ Write(<< >>)
  BY Zenon DEF FlushAfter
<1>3. \A u \in Thread \ {t} : pc[u] \notin {"dup2", "plugin", "restore"}
  BY <1>1 DEF RedirectionsApart
<1>4. CallTypeOK'
  BY <1>2, Flushed DEF CallInv, CallTypeOK
<1>5. OwnOutputOnly'
  BY <1>2, Flushed, Zenon DEF OwnOutputOnly, AllOf
<1>6. Redirected'
  BY <1>1, <1>2, <1>3 DEF CallInv, Redirected
<1>7. Buffered'
  BY <1>2, Flushed DEF Buffered
<1>8. Len(delivered'[sockfd[t]]) = Pieces
  <2>1. Len(delivered'[sockfd[t]]) = Len(delivered[sockfd[t]]) + Len(stdio)
    BY <1>1, <1>2, Flushed, Zenon
  <2>. QED  BY <1>1, <2>1 DEF CallInv, Counted
<1>9. Counted'
  <2>1. ASSUME NEW u \in Thread \ {t}, pc[u] = "close"  PROVE Len(delivered'[sockfd[u]]) = Pieces
    <3>1. sockfd[u] \in Conn /\ \A v \in Thread : pc[v] = "plugin" => sockfd[v] # sockfd[u]
      BY <2>1, CallFacts DEF CallPc
    <3>2. Len(delivered'[sockfd[u]]) = Len(delivered[sockfd[u]])
      BY <1>2, <3>1, Flushed, Zenon
    <3>. QED  BY <2>1, <3>2 DEF CallInv, Counted
  <2>. QED  BY <1>1, <1>2, <1>3, <1>8, <2>1 DEF CallInv, Counted, Running
<1>10. AllOrNothing'
  <2> SUFFICES ASSUME NEW c \in Conn
               PROVE  /\ answer[c] \in App => Len(delivered'[c]) = Pieces
                      /\ answer[c] = None /\ (\A u \in Thread : pc'[u] \in Running => sockfd[u] # c)
                           => Len(delivered'[c]) = 0
    BY <1>2 DEF AllOrNothing
  <2>1. \A u \in Thread : pc'[u] \in Running <=> pc[u] \in Running
    BY <1>1 DEF Running
  <2>2. answer[c] \in App => \A u \in Thread : pc[u] = "plugin" => sockfd[u] # c
    BY RunningUnanswered DEF CallPc
  <2>3. (\A u \in Thread : pc[u] = "plugin" => sockfd[u] # c) => Len(delivered'[c]) = Len(delivered[c])
    BY <1>2, Flushed, Zenon
  <2>. QED  BY <2>1, <2>2, <2>3 DEF CallInv, AllOrNothing, Running
<1>. QED  BY <1>4, <1>5, <1>6, <1>7, <1>9, <1>10 DEF CallInv

\* Descriptor 1 is the terminal again before the connection is closed; by then
\* the client has all of its response.
LEMMA RestoreKeeps ==
  ASSUME Handed, RedirectionsApart, CallInv, PcOK', NEW t \in Thread, Restore(t)
  PROVE  CallInv'
<1>1. /\ pc[t] = "restore" /\ pc'[t] = "close" /\ stdout' = stdout_bkp[t]
      /\ \A u \in Thread \ {t} : pc'[u] = pc[u]
  BY GotoFacts DEF Restore
<1>2. UNCHANGED <<sockfd, answer, stdio, stdout_bkp, printed, delivered>>
  BY Zenon DEF Restore
<1>3. \A u \in Thread \ {t} : pc[u] \notin {"dup2", "plugin", "restore"}
  BY <1>1 DEF RedirectionsApart
<1>4. stdout_bkp[t] = Terminal /\ Len(stdio) = 0
  BY <1>1, <1>3 DEF CallInv, Redirected, Buffered
<1>5. CallTypeOK' /\ OwnOutputOnly'
  BY <1>2 DEF CallInv, CallTypeOK, OwnOutputOnly
<1>6. Redirected' /\ Buffered'
  BY <1>1, <1>2, <1>3, <1>4 DEF Redirected, Buffered
<1>7. Counted'
  BY <1>1, <1>2, <1>3 DEF CallInv, Counted, Running
<1>8. AllOrNothing'
  <2>1. \A u \in Thread : pc'[u] \in Running <=> pc[u] \in Running
    BY <1>1 DEF Running
  <2>. QED  BY <1>2, <2>1 DEF CallInv, AllOrNothing
<1>. QED  BY <1>5, <1>6, <1>7, <1>8 DEF CallInv

\* close() of the connection, which may come while another thread redirects: by
\* then all output is flushed.
LEMMA CloseSocketKeeps ==
  ASSUME Handed, CallInv, PcOK', NEW t \in Thread, CloseSocket(t)
  PROVE  CallInv'
<1>1. pc[t] = "close" /\ pc'[t] = "lock" /\ \A u \in Thread \ {t} : pc'[u] = pc[u]
  BY GotoFacts DEF CloseSocket
<1>2. UNCHANGED <<stdout, stdio, delivered>>
  BY Zenon DEF CloseSocket
<1>3. /\ stdout_bkp' \in [Thread -> Sink \cup {NoConn}]
      /\ printed' \in [Thread -> 0..Pieces] /\ printed'[t] = 0
      /\ \A u \in Thread \ {t} : /\ stdout_bkp'[u] = stdout_bkp[u] /\ printed'[u] = printed[u]
                                 /\ sockfd'[u] = sockfd[u]
  BY ServerAssumption DEF CloseSocket, CallInv, CallTypeOK, Handed
<1>4. \A c \in Conn : answer'[c] = IF c = sockfd[t] THEN AppOf[t] ELSE answer[c]
  BY DEF Handed, CloseSocket
<1>5. Len(delivered[sockfd[t]]) = Pieces
  BY <1>1 DEF CallInv, Counted
<1>6. AppOf[t] # None
  BY FastCgiAssumption
<1>7. CallTypeOK' /\ OwnOutputOnly'
  BY <1>2, <1>3 DEF CallInv, CallTypeOK, OwnOutputOnly
<1>8. Redirected' /\ Buffered'
  BY <1>1, <1>2, <1>3 DEF CallInv, Redirected, Buffered
<1>9. Counted'
  BY <1>1, <1>2, <1>3 DEF CallInv, Counted, Running
<1>10. AllOrNothing'
  <2> SUFFICES ASSUME NEW c \in Conn
               PROVE  /\ answer'[c] \in App => Len(delivered[c]) = Pieces
                      /\ answer'[c] = None /\ (\A u \in Thread : pc'[u] \in Running => sockfd'[u] # c)
                           => Len(delivered[c]) = 0
    BY <1>2 DEF AllOrNothing
  <2>1. CASE c = sockfd[t]
    BY <1>4, <1>5, <1>6, <2>1
  <2>2. CASE c # sockfd[t]
    <3>1. ASSUME \A u \in Thread : pc'[u] \in Running => sockfd'[u] # c
          PROVE  \A u \in Thread : pc[u] \in Running => sockfd[u] # c
      BY <1>1, <1>3, <2>2, <3>1
    <3>. QED  BY <1>4, <2>2, <3>1 DEF CallInv, AllOrNothing
  <2>. QED  BY <2>1, <2>2
<1>. QED  BY <1>7, <1>8, <1>9, <1>10 DEF CallInv

\* No step breaks CallInv unless it makes two redirections overlap.
LEMMA NextCall ==
  Handed /\ RedirectionsApart /\ RedirectionsApart' /\ CallInv /\ [Next]_vars => CallInv'
<1> SUFFICES ASSUME Handed, RedirectionsApart, RedirectionsApart', CallInv, [Next]_vars
             PROVE  CallInv'
  OBVIOUS
<1>1. PcOK'
  BY NextPc DEF CallInv, CallTypeOK
<1>2. CASE (ClientStep /\ UNCHANGED cvars) \/ (FastCgiIdle /\ UNCHANGED cvars) \/ UNCHANGED vars
  <2>1. UNCHANGED <<pc, sockfd, answer, stdout, stdio, stdout_bkp, printed, delivered>>
    BY <1>2 DEF ClientStep, Connect, Send, FastCgiIdle, fvars, cvars, vars
  <2>. QED  BY <1>1, <2>1, OutsideKeeps, Zenon
<1>3. CASE AcceptLoop
  BY <1>1, <1>3, AcceptKeepsCall
<1>4. ASSUME NEW t \in Thread, QueueStep(t) \/ SpuriousWakeup(t), UNCHANGED cvars
      PROVE  CallInv'
  BY <1>1, <1>4, QueueKeepsCall
<1>5. ASSUME NEW t \in Thread, CallStep(t)  PROVE CallInv'
  BY <1>1, <1>5, FlushBeforeKeeps, DupKeeps, Dup2Keeps, PrintfKeeps, FlushAfterKeeps, RestoreKeeps,
     CloseSocketKeeps, Zenon DEF CallStep
<1>. QED  BY <1>2, <1>3, <1>4, <1>5 DEF Next, AppThread
-----------------------------------------------------------------------------
(* What is proved of the queueing server holds here.                       *)

Ring == INSTANCE FastCgiRingProofs
          WITH pc <- [t \in Thread |-> IF pc[t] \in CallPc THEN "serve" ELSE pc[t]]

\* Each accepted connection has one owner in the server with its plugins, too.
THEOREM OneOwnerWithPlugins == Spec => []Ring!HandInv
<1>1. Ring!FastCgiSpec => []Ring!HandInv
  <2>1. IsFiniteSet(Thread) <=> Ring!IsFiniteSet(Thread)
    BY Zenon DEF IsFiniteSet, Ring!IsFiniteSet
  <2>. QED  BY <2>1, Ring!OneOwner, FastCgiAssumption
<1>2. Queueing!FastCgiInit => Ring!FastCgiInit
  BY Zenon DEF Queueing!FastCgiInit, Ring!FastCgiInit, Queueing!Conn, Ring!Conn, Queueing!NoConn,
       Ring!NoConn
<1>3. [Queueing!FastCgiNext]_(Queueing!fvars) => [Ring!FastCgiNext]_(Ring!fvars)
  BY Zenon DEF Queueing!fvars, Ring!fvars, Queueing!client, Ring!client,
       Queueing!acceptor, Ring!acceptor, Queueing!ring, Ring!ring, Queueing!ClientStep,
       Ring!ClientStep, Queueing!Connect, Ring!Connect, Queueing!Send, Ring!Send,
       Queueing!Conn, Ring!Conn, Queueing!AcceptorStep, Ring!AcceptorStep,
       Queueing!Accept, Ring!Accept, Queueing!ReadName, Ring!ReadName, Queueing!LookUp,
       Ring!LookUp, Queueing!Lock, Ring!Lock, Queueing!Enqueue, Ring!Enqueue,
       Queueing!Signal, Ring!Signal, Queueing!Advance, Ring!Advance, Queueing!QueueFull,
       Ring!QueueFull, Queueing!Unlock, Ring!Unlock, Queueing!AnswerError,
       Ring!AnswerError, Queueing!ThreadStep, Ring!ThreadStep, Queueing!QueueStep,
       Ring!QueueStep, Queueing!Load, Ring!Load, Queueing!LockQueue, Ring!LockQueue,
       Queueing!Empty, Ring!Empty, Queueing!Wait, Ring!Wait, Queueing!Take, Ring!Take,
       Queueing!UnlockQueue, Ring!UnlockQueue, Queueing!Serve, Ring!Serve,
       Queueing!NoConn, Ring!NoConn, Queueing!SpuriousWakeup, Ring!SpuriousWakeup,
       Queueing!FastCgiIdle, Ring!FastCgiIdle, Queueing!FastCgiNext, Ring!FastCgiNext
<1>4. Queueing!FastCgiSpec => Ring!FastCgiSpec
  BY <1>2, <1>3, PTL DEF Queueing!FastCgiSpec, Ring!FastCgiSpec
<1>. QED  BY <1>1, <1>4, CallRefinesServe, PTL DEF CallImplementsServe

\* What HandInv says of a thread at "serve" holds within the call.
LEMMA HeldInCall == Ring!HandInv /\ PcOK => Handed
<1> SUFFICES ASSUME Ring!HandInv, PcOK PROVE Handed
  BY Zenon
<1>1. /\ sockfd \in [Thread -> Conn \cup {NoConn}]
      /\ answer \in [Conn -> App \cup {None, 404, 500}]
      /\ connected \in 0..MaxConns /\ fd \in 0..connected
      /\ requests_cond \in [App -> SUBSET Thread]
  BY Zenon DEF Ring!HandInv, Ring!MutexInv, Ring!FastCgiTypeOK, Ring!Conn, Ring!NoConn, Conn, NoConn
<1>2. ASSUME NEW t \in Thread, pc[t] \in CallPc \cup {"serve"}
      PROVE  sockfd[t] \in Conn /\ answer[sockfd[t]] = None
  <2>1. pcbar[t] = "serve"
    BY <1>2, Zenon DEF pcbar
  <2>2. Ring!Passed(sockfd[t])
    BY <2>1, Zenon DEF Ring!HandInv, Ring!ThreadHeld, pcbar
  <2>. QED  BY <1>1, <2>2, FastCgiAssumption DEF Ring!Passed, Conn
<1>3. ASSUME apc = "enqueue", NEW t \in requests_cond[app_index]
      PROVE  t \in Thread /\ pc[t] = "waiting"
  <2>1. app_index \in App
    BY <1>3 DEF Ring!HandInv, Ring!MutexInv, Ring!LocalsSet, Ring!Found
  <2>2. t \in Thread /\ pcbar[t] = "waiting"
    BY <1>1, <1>3, <2>1, Zenon DEF Ring!HandInv, Ring!MutexInv, Ring!SleepersWait, pcbar
  <2>. QED  BY <2>2, OutsideCall, Zenon DEF CallPc
<1>4. \A t, u \in Thread : sockfd[t] = sockfd[u] /\ sockfd[t] # NoConn => t = u
  BY Zenon DEF Ring!HandInv, Ring!ThreadDistinct, Ring!NoConn, NoConn
<1>. QED  BY <1>1, <1>2, <1>3, <1>4 DEF Handed

\* The queueing server hands call_plugin_function what it relies on, always.
LEMMA HandedAlways == Spec => []Handed
BY InitPc, NextPc, HeldInCall, OneOwnerWithPlugins, PTL DEF Spec

\* While no two threads redirect descriptor 1 at the same time, whatever a plugin
\* prints for a client reaches that client and nobody else, however many threads
\* and applications there are and wherever else in the call they meet: the fflush
\* before dup and the close_socket at the end need not be kept apart.  (When two
\* redirections overlap this is false: the run fastcgi_crossed.)
THEOREM OwnOutput == Spec => OwnOutputWhenApart
<1>1. CallInv => OwnOutputOnly
  BY Zenon DEF CallInv
<1>. QED  BY <1>1, InitCall, NextCall, HandedAlways, PTL DEF Spec, OwnOutputWhenApart

\* Nor does a client then see the end of its connection before it has all that the
\* plugin printed.
THEOREM CompleteOutput == Spec => CompleteWhenApart
<1>1. CallInv => CompleteWhenReleased
  BY DEF CallInv, AllOrNothing, CompleteWhenReleased
<1>. QED  BY <1>1, InitCall, NextCall, HandedAlways, PTL DEF Spec, CompleteWhenApart
=============================================================================
