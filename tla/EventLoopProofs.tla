-------------------------- MODULE EventLoopProofs ---------------------------
(***************************************************************************)
(* What the event loop of web_server and amped_server keeps true whatever  *)
(* the stages of a response do: an event that is still to dispatch is      *)
(* about the connection its descriptor has now, and the record of a client *)
(* is in step with what epoll watches for.  For any numbers of clients,    *)
(* descriptors and pages, and any sizes.  Lemmas on sequences of units and *)
(* on what clients and send() do to the network come first.                *)
(***************************************************************************)
EXTENDS EventLoop, SequenceTheorems, TLAPS

Unit == ({"404", "500", "200", NoPage} \cup Page) \X Nat

\* A run of units of a page, as a sequence.
LEMMA UnitsSeq ==
  ASSUME NEW p \in Page, NEW from \in Nat, NEW n \in Nat
  PROVE  /\ Units(p, from, n) \in Seq(Unit) /\ Len(Units(p, from, n)) = n
         /\ \A i \in 1..n : Units(p, from, n)[i] = <<p, from + i>>
<1>1. \A i \in 1..n : <<p, from + i>> \in Unit
  BY DEF Unit
<1>2. Units(p, from, n) \in [1..n -> Unit]
  BY <1>1 DEF Units
<1>3. Units(p, from, n) \in Seq(Unit)
  BY <1>2, SeqDef
<1>4. Len(Units(p, from, n)) = n
  <2>1. Len(Units(p, from, n)) \in Nat /\ DOMAIN Units(p, from, n) = 1..Len(Units(p, from, n))
    BY <1>3, LenProperties
  <2>2. DOMAIN Units(p, from, n) = 1..n
    BY <1>2
  <2>3. ASSUME NEW a \in Nat, NEW b \in Nat, 1..a = 1..b PROVE a = b
    <3>1. a > b => a \in 1..a /\ a \notin 1..b
      OBVIOUS
    <3>2. b > a => b \in 1..b /\ b \notin 1..a
      OBVIOUS
    <3> QED BY <2>3, <3>1, <3>2
  <2> QED BY <2>1, <2>2, <2>3, Zenon
<1> QED BY <1>3, <1>4 DEF Units

\* A run of no units is the empty sequence; two runs that meet are one.
LEMMA UnitsConcat ==
  ASSUME NEW p \in Page, NEW a \in Nat, NEW n \in Nat
  PROVE  /\ Units(p, 0, 0) = << >>
         /\ Units(p, 0, a) \o Units(p, a, n) = Units(p, 0, a + n)
<1>1. Units(p, 0, 0) = << >>
  <2>1. Units(p, 0, 0) \in Seq(Unit) /\ Len(Units(p, 0, 0)) = 0
    BY UnitsSeq
  <2> QED BY <2>1, EmptySeq
<1>2. PICK s \in Seq(Unit) : /\ s = Units(p, 0, a) /\ Len(s) = a
                             /\ \A i \in 1..a : s[i] = <<p, 0 + i>>
  BY UnitsSeq, Zenon
<1>3. PICK t \in Seq(Unit) : /\ t = Units(p, a, n) /\ Len(t) = n
                             /\ \A i \in 1..n : t[i] = <<p, a + i>>
  BY UnitsSeq, Zenon
<1>4. PICK u \in Seq(Unit) : /\ u = Units(p, 0, a + n) /\ Len(u) = a + n
                             /\ \A i \in 1..(a + n) : u[i] = <<p, 0 + i>>
  <2>1. a + n \in Nat
    OBVIOUS
  <2> QED BY <2>1, UnitsSeq, Zenon
<1>5. /\ s \o t \in Seq(Unit) /\ Len(s \o t) = a + n
      /\ \A i \in 1..(a + n) : (s \o t)[i] = IF i <= a THEN s[i] ELSE t[i - a]
  <2>1. /\ s \o t \in Seq(Unit) /\ Len(s \o t) = Len(s) + Len(t)
        /\ \A i \in 1..(Len(s) + Len(t)) :
             (s \o t)[i] = IF i <= Len(s) THEN s[i] ELSE t[i - Len(s)]
    BY ConcatProperties, Zenon
  <2> QED BY <1>2, <1>3, <2>1, Zenon
<1>6. ASSUME NEW i \in 1..(a + n) PROVE (s \o t)[i] = u[i]
  <2>1. CASE i <= a
    <3>1. i \in 1..a
      BY <2>1
    <3> QED BY <1>2, <1>4, <1>5, <2>1, <3>1, Zenon
  <2>2. CASE i > a
    <3>1. i - a \in 1..n /\ a + (i - a) = 0 + i /\ ~(i <= a)
      BY <2>2
    <3>2. (s \o t)[i] = t[i - a]
      BY <1>5, <3>1, Zenon
    <3>3. t[i - a] = <<p, a + (i - a)>>
      BY <1>3, <3>1, Zenon
    <3>4. u[i] = <<p, 0 + i>>
      BY <1>4, Zenon
    <3> QED BY <3>1, <3>2, <3>3, <3>4, Zenon
  <2>3. i <= a \/ i > a
    OBVIOUS
  <2> QED BY <2>1, <2>2, <2>3, Zenon
<1>7. s \o t = u
  BY <1>4, <1>5, <1>6, SeqEqual, Zenon
<1> QED BY <1>1, <1>2, <1>3, <1>4, <1>7

\* Reading s, the first part of r = s \o t, moves it from what is left to read to
\* what has been read.  (Named, so that the provers match the two sides as one.)
Associate(s, t, u) == (s \o t) \o u = s \o (t \o u)

Moved(b, s, t, u, r) == (b \o s) \o (t \o u) = b \o (r \o u)

\* Appending is associative: what read() adds to a buffer in parts is what it adds at once.
LEMMA AllAssociate ==
  ASSUME NEW S, NEW s \in Seq(S), NEW t \in Seq(S), NEW u \in Seq(S)
  PROVE  Associate(s, t, u)
BY ConcatAssociative DEF Associate

\* Pieces that read() takes from a socket move, in order, to the end of the buffer.
LEMMA MoveBetween ==
  ASSUME NEW S, NEW b \in Seq(S), NEW s \in Seq(S), NEW t \in Seq(S), NEW u \in Seq(S),
         NEW r \in Seq(S), s \o t = r
  PROVE  Moved(b, s, t, u, r)
<1>1. PICK v \in Seq(S) : v = t \o u
  BY ConcatProperties, Zenon
<1>2. Associate(b, s, v) /\ Associate(s, t, u)
  BY AllAssociate, Zenon
<1> QED BY <1>1, <1>2, Zenon DEF Associate, Moved

\* A prefix is what something can be appended to.
LEMMA PrefixIff ==
  ASSUME NEW S, NEW s \in Seq(S), NEW t \in Seq(S)
  PROVE  IsPrefix(s, t) <=> \E u \in Seq(S) : t = s \o u
<1>1. Len(s) \in Nat /\ Len(t) \in Nat /\ SubSeq(s, 1, Len(s)) = s /\ SubSeq(t, 1, Len(t)) = t
  BY LenProperties, SubSeqFull
<1>2. ASSUME IsPrefix(s, t) PROVE \E u \in Seq(S) : t = s \o u
  <2>1. Len(s) =< Len(t) /\ s = SubSeq(t, 1, Len(s))
    BY <1>1, <1>2 DEF IsPrefix
  <2>2. SubSeq(t, 1, Len(s)) \o SubSeq(t, Len(s) + 1, Len(t)) = SubSeq(t, 1, Len(t))
    <3>1. 1 \in 1..Len(t) + 1 /\ Len(s) \in (1 - 1)..Len(t) /\ Len(t) \in Len(s)..Len(t)
      BY <1>1, <2>1
    <3> QED BY <3>1, ConcatAdjacentSubSeq, Zenon
  <2>3. SubSeq(t, Len(s) + 1, Len(t)) \in Seq(S)
    <3>1. \A i \in (Len(s) + 1)..Len(t) : t[i] \in S
      BY <1>1, ElementOfSeq
    <3> QED BY <1>1, <3>1, SubSeqProperties
  <2> QED BY <1>1, <2>1, <2>2, <2>3, Zenon
<1>3. ASSUME NEW u \in Seq(S), t = s \o u PROVE IsPrefix(s, t)
  <2>1. Len(s) =< Len(t)
    BY <1>1, <1>3, ConcatProperties, LenProperties
  <2>2. SubSeq(t, 1, Len(s)) = SubSeq(s, 1, Len(s))
    <3>1. CASE Len(s) = 0
      BY <3>1, SubSeqEmpty
    <3>2. CASE Len(s) > 0
      <4>1. 1 \in 1..Len(s) /\ Len(s) \in 1..Len(s)
        BY <1>1, <3>2
      <4> QED BY <1>3, <4>1, SubSeqOfConcat1
    <3> QED BY <1>1, <3>1, <3>2
  <2> QED BY <2>1, <2>2 DEF IsPrefix
<1> QED BY <1>2, <1>3, Zenon

\* What has been sent stays a prefix when more is sent.
LEMMA PrefixConcat ==
  ASSUME NEW S, NEW s \in Seq(S), NEW t \in Seq(S)
  PROVE  IsPrefix(s, s \o t)
<1>1. s \o t \in Seq(S)
  BY ConcatProperties
<1> QED BY <1>1, PrefixIff, Zenon

\* Prefixes of prefixes, of a sequence itself and of no length.
LEMMA PrefixFacts ==
  ASSUME NEW S, NEW s \in Seq(S), NEW t \in Seq(S), NEW u \in Seq(S)
  PROVE  /\ IsPrefix(<< >>, s) /\ IsPrefix(s, s) /\ IsPrefix(s, s \o t)
         /\ IsPrefix(s, << >>) => s = << >>
         /\ IsPrefix(s, t) /\ IsPrefix(t, u) => IsPrefix(s, u)
<1>1. << >> \in Seq(S) /\ << >> \o s = s /\ s \o << >> = s /\ s \o t \in Seq(S)
  BY EmptySeq, ConcatEmptySeq, ConcatProperties
<1>2. IsPrefix(<< >>, s) /\ IsPrefix(s, s) /\ IsPrefix(s, s \o t)
  BY <1>1, PrefixIff, Zenon
<1>3. IsPrefix(s, << >>) => s = << >>
  <2>1. ASSUME NEW v \in Seq(S), << >> = s \o v PROVE s = << >>
    <3>1. Len(s) \in Nat /\ Len(v) \in Nat /\ Len(s \o v) = Len(s) + Len(v) /\ Len(s \o v) = 0
      BY <2>1, LenProperties, ConcatProperties, EmptySeq, Zenon
    <3>2. Len(s) = 0
      BY <3>1
    <3> QED BY <3>2, EmptySeq
  <2> QED BY <1>1, <2>1, PrefixIff, Zenon
<1>4. ASSUME IsPrefix(s, t), IsPrefix(t, u) PROVE IsPrefix(s, u)
  <2>1. PICK v \in Seq(S) : t = s \o v
    BY <1>4, PrefixIff, Zenon
  <2>2. PICK w \in Seq(S) : u = t \o w
    BY <1>4, PrefixIff, Zenon
  <2>3. u = s \o (v \o w) /\ v \o w \in Seq(S)
    BY <2>1, <2>2, ConcatAssociative, ConcatProperties
  <2> QED BY <2>3, PrefixIff, Zenon
<1> QED BY <1>2, <1>3, <1>4
-----------------------------------------------------------------------------
Peers == {"none", "open", "closed", "reset", "dead"}

Request ==
  {[page |-> NoPage, form |-> << >>]} \cup UNION {p.request[c] : p \in Plan, c \in Conn}

\* The clients that have connected are there or gone, and asked for a page of theirs.
NetworkOK ==
  /\ plan \in Plan
  /\ arrived \in 0..MaxConns
  /\ want \in [Conn -> Request]
  /\ peer \in [Conn -> Peers]
  /\ inflight \in [Conn -> 0..SNDBUF]
  /\ \A c \in 1..arrived : want[c] \in plan.request[c] /\ peer[c] # "none"
  /\ \A c \in Conn : c > arrived => peer[c] = "none"

\* What a step may do to the network while an event waits: a client that is gone
\* does not return, and only the socket that the step writes to gets fuller.
Moves(written) ==
  /\ NetworkOK'
  /\ arrived =< arrived'
  /\ \A c \in Conn : Gone(c) => Gone(c)'
  /\ \A c \in 1..arrived : want'[c] = want[c]
  /\ \A c \in Conn \ {written} : inflight'[c] =< inflight[c]

\* A step that sends nothing, or reads: nothing an event is about has changed.
LEMMA QuietMoves ==
  ASSUME NetworkOK, UNCHANGED <<plan, want, peer, inflight, arrived>>, NEW c
  PROVE  Moves(c)
BY ClientsAssumption DEF NetworkOK, Moves, Conn, Gone, Peers

\* The clients' own steps: connecting, sending, reading and leaving.
LEMMA ClientMoves ==
  ASSUME NetworkOK, Connect \/ \E c \in Conn : \/ ClientSend(c) \/ ClientRead(c)
                                            \/ \E part : ClientClose(c, part)
  PROVE  Moves(NoConn)
<1> USE ClientsAssumption
<1>1. CASE Connect
  <2>1. PICK r \in plan.request[arrived + 1] : want' = [want EXCEPT ![arrived + 1] = r]
    BY <1>1, Zenon DEF Connect
  <2>2. arrived + 1 \in Conn /\ r \in Request
    BY <1>1 DEF Connect, NetworkOK, Request, Conn
  <2>3. /\ arrived' = arrived + 1 /\ peer' = [peer EXCEPT ![arrived + 1] = "open"]
        /\ UNCHANGED <<plan, inflight>>
    BY <1>1 DEF Connect
  <2>4. /\ want' \in [Conn -> Request] /\ peer' \in [Conn -> Peers]
        /\ arrived' \in 0..MaxConns /\ arrived =< arrived'
    BY <1>1, <2>1, <2>2, <2>3 DEF NetworkOK, Peers, Connect
  <2>5. \A c \in Conn \ {arrived + 1} : want'[c] = want[c] /\ peer'[c] = peer[c]
    BY <2>1, <2>3 DEF NetworkOK
  <2>6. want'[arrived + 1] = r /\ peer'[arrived + 1] = "open"
    BY <2>1, <2>2, <2>3 DEF NetworkOK
  <2>7. \A c \in 1..arrived : c \in Conn \ {arrived + 1}
    BY DEF NetworkOK, Conn
  <2>8. \A c \in 1..arrived' : c = arrived + 1 \/ c \in 1..arrived
    BY <2>3 DEF NetworkOK
  <2>9. \A c \in 1..arrived' : want'[c] \in plan'.request[c] /\ peer'[c] # "none"
    BY <2>3, <2>5, <2>6, <2>7, <2>8 DEF NetworkOK
  <2>0. \A c \in Conn : c > arrived' => peer'[c] = "none"
    BY <2>3, <2>5 DEF NetworkOK, Conn
  <2>10. NetworkOK'
    BY <2>0, <2>3, <2>4, <2>9 DEF NetworkOK
  <2>11. \A c \in Conn : Gone(c) => Gone(c)'
    <3>1. peer[arrived + 1] = "none"
      BY <2>2 DEF NetworkOK, Conn
    <3> QED BY <3>1, <2>5 DEF Gone
  <2>12. \A c \in Conn : inflight'[c] =< inflight[c]
    BY <2>3 DEF NetworkOK
  <2> QED BY <2>4, <2>5, <2>7, <2>10, <2>11, <2>12 DEF Moves
<1>2. CASE \E c \in Conn : ClientSend(c)
  <2>1. UNCHANGED <<plan, want, peer, inflight, arrived>>
    BY <1>2 DEF ClientSend
  <2> QED BY <2>1, QuietMoves
<1>3. CASE \E c \in Conn : ClientRead(c)
  BY <1>3 DEF NetworkOK, Moves, ClientRead, Conn, Gone, Peers
<1>4. CASE \E c \in Conn : \E part : ClientClose(c, part)
  <2>0. PICK c \in Conn : peer[c] = "open" /\ \E part : ClientClose(c, part)
    BY <1>4, Zenon DEF ClientClose
  <2>1. PICK how \in {"reset", "closed"} :
          peer' = [peer EXCEPT ![c] = how] /\ UNCHANGED <<plan, want, inflight, arrived>>
    BY <2>0, Zenon DEF ClientClose
  <2>2. peer' \in [Conn -> Peers] /\ peer'[c] = how /\ how # "none"
    BY <2>1 DEF NetworkOK, Peers
  <2>3. \A d \in Conn \ {c} : peer'[d] = peer[d]
    BY <2>1 DEF NetworkOK
  <2>4. peer[c] = "open" /\ c =< arrived
    BY <2>0 DEF NetworkOK, Conn
  <2>5. NetworkOK'
    BY <2>1, <2>2, <2>3, <2>4 DEF NetworkOK, Conn
  <2>6. \A d \in Conn : inflight'[d] =< inflight[d]
    BY <2>1 DEF NetworkOK
  <2> QED BY <2>1, <2>2, <2>3, <2>5, <2>6 DEF Moves, Gone, NetworkOK
<1> QED BY <1>1, <1>2, <1>3, <1>4

\* send() to a client that has connected.
LEMMA TransmitMoves ==
  ASSUME NetworkOK, NEW c \in Conn, peer[c] # "none", NEW units, Len(units) \in Nat,
         Transmit(c, units)
  PROVE  Moves(c)
<1> USE ClientsAssumption DEF NetworkOK, Conn, Gone, Peers
<1> DEFINE n == Least(Len(units), Room(c))
<1>1. inflight[c] \in 0..SNDBUF /\ n \in 0..(SNDBUF - inflight[c])
  BY DEF Least, Room
<1>2. UNCHANGED <<plan, want, arrived>>
  BY DEF Transmit
<1>3. CASE UNCHANGED <<sent, inflight, peer>>
  BY <1>2, <1>3 DEF Moves
<1>4. CASE inflight' = [inflight EXCEPT ![c] = @ + n] /\ UNCHANGED peer
  BY <1>1, <1>2, <1>4 DEF Moves
<1>5. CASE /\ peer[c] # "open"
           /\ peer' = [peer EXCEPT ![c] = IF @ = "closed" THEN "reset" ELSE "dead"]
           /\ UNCHANGED inflight
  <2>1. /\ peer' \in [Conn -> Peers] /\ peer'[c] \in {"reset", "dead"}
        /\ \A d \in Conn \ {c} : peer'[d] = peer[d]
    BY <1>5
  <2>2. c =< arrived
    OBVIOUS
  <2>3. NetworkOK'
    BY <1>2, <1>5, <2>1, <2>2
  <2> QED BY <1>2, <1>5, <2>1, <2>3 DEF Moves
<1> QED BY <1>3, <1>4, <1>5 DEF Transmit
-----------------------------------------------------------------------------
(* The invariant of the loop.                                              *)

Failures == {"ERR", "HUP", "RDHUP"}

\* The pieces of a request, and the answer of a helper.
Fragment == {"get", "eol", "text", "lf", "done"}

\* FINISH is the status of a request that is being closed, never of a record.
Status ==
  {"START", "FILE_FOUND", "HEADER_WRITTEN", "DATA_WRITING", "WAITLISTED", "MAP_REQUESTED",
   "CGI_FILE_FOUND", "CGI_PROC_RUNNING", "CGI_RESPONSE_WRITING"}

ClientRecord ==
  [callback : BOOLEAN, data : BOOLEAN, buffer : Seq(Fragment), page : Page \cup {NoPage},
   status : Status, fp : Nat \cup {NULL}]

LoopTypeOK ==
  /\ accepted \in 0..arrived
  /\ sock \in [Fd -> 0..accepted]
  /\ interest \in [Fd -> SUBSET {"IN", "OUT"}]
  /\ ed_clients \in [Fd -> ClientRecord]
  /\ fds_used \in Int /\ leaked \in Nat

\* What the clients have yet to send, and the sockets hold.
PiecesOK ==
  unsent \in [Conn -> Seq(Fragment)] /\ rcv \in [Conn -> Seq(Fragment)]

\* No two descriptors are one connection.
SockDistinct ==
  \A f, g \in Fd : sock[f] = sock[g] /\ sock[f] # NoConn => f = g

\* The record of a descriptor: wiped unless epoll watches it; once the request is
\* parsed it names the page the client asked for, and before that no response has
\* begun.
RecordOK(f) ==
  /\ interest[f] = {} => ed_clients[f] = Cleared
  /\ interest[f] # {} => ed_clients[f].callback /\ sock[f] # NoConn
  /\ ed_clients[f].data => /\ interest[f] = {"OUT"}
                           /\ ed_clients[f].page = want[sock[f]].page
  /\ ~ed_clients[f].data => /\ ed_clients[f].fp = NULL /\ ed_clients[f].status = "START"
                            /\ Len(ed_clients[f].buffer) =< REQUEST_SIZE

Relaying == running \in {"relay", "mapped"}

\* An event that is still to dispatch: about the connection that the descriptor
\* has now; a client that hung up is still gone, and a socket that could be
\* written to still can, unless the loop itself is writing to it.
EventOK(f) ==
  /\ batch[f].conn = sock[f] /\ interest[f] # {}
  /\ batch[f].mask # {} /\ batch[f].mask \subseteq Failures \cup interest[f]
  /\ batch[f].mask \cap Failures # {} => Gone(sock[f])
  /\ "OUT" \in batch[f].mask /\ ~(Relaying /\ relay.fd = f)
       => Gone(sock[f]) \/ Room(sock[f]) >= LOWAT

RelayOK ==
  /\ relay \in [fd : Fd \cup {NoConn}, done : Nat]
  /\ Relaying => /\ relay.fd \in Fd /\ relay.fd \in DOMAIN batch
                 /\ ed_clients[relay.fd].data
                 /\ relay.done =< Size[ed_clients[relay.fd].page]

LoopInv ==
  /\ NetworkOK /\ PiecesOK /\ LoopTypeOK /\ SockDistinct
  /\ \A f \in Fd : RecordOK(f)
  /\ \A f \in DOMAIN batch \cap Fd : EventOK(f)
  /\ RelayOK
-----------------------------------------------------------------------------
\* What the loop's invariant says of descriptors and connections: accept() gave each
\* connection its number, and a descriptor has one that was accepted.
LEMMA LoopFacts ==
  ASSUME LoopInv
  PROVE  /\ accepted \in Nat /\ arrived \in Nat /\ MaxConns \in Nat
         /\ accepted \in 0..arrived /\ arrived \in 0..MaxConns
         /\ sock \in [Fd -> 0..accepted] /\ interest \in [Fd -> SUBSET {"IN", "OUT"}]
         /\ ed_clients \in [Fd -> ClientRecord]
         /\ SockDistinct /\ \A f \in Fd : RecordOK(f)
         /\ \A c \in 1..accepted : c \in Conn /\ c \in 1..arrived /\ c \in 0..accepted /\ c # NoConn
<1>1. /\ accepted \in 0..arrived /\ arrived \in 0..MaxConns /\ sock \in [Fd -> 0..accepted]
      /\ interest \in [Fd -> SUBSET {"IN", "OUT"}] /\ ed_clients \in [Fd -> ClientRecord]
      /\ SockDistinct /\ \A f \in Fd : RecordOK(f)
  BY Zenon DEF LoopInv, LoopTypeOK, NetworkOK
<1>2. MaxConns \in Nat /\ arrived \in Nat /\ accepted \in Nat
  BY <1>1, ClientsAssumption
<1>3. \A c \in 1..accepted : c \in Conn /\ c \in 1..arrived /\ c \in 0..accepted /\ c # NoConn
  BY <1>1, <1>2 DEF Conn, NoConn
<1> QED BY <1>1, <1>2, <1>3, Zenon

\* Pieces move from the client to the socket and from there to the loop.
LEMMA ClientPieces ==
  ASSUME NetworkOK, PiecesOK, ClientStep
  PROVE  PiecesOK'
<1> USE DEF PiecesOK
<1>1. CASE Connect
  <2>1. PICK r \in plan.request[arrived + 1] :
          unsent' = [unsent EXCEPT ![arrived + 1] = r.form] /\ rcv' = rcv
    BY <1>1, Zenon DEF Connect
  <2>2. r.form \in Seq({"get", "eol", "text", "lf"})
    BY <1>1, LoopAssumption, ClientsAssumption DEF Connect, NetworkOK, Conn
  <2>3. r.form \in Seq(Fragment)
    BY <2>2 DEF Fragment
  <2> QED BY <2>1, <2>3, Zenon
<1>2. ASSUME NEW c \in Conn, ClientSend(c) PROVE PiecesOK'
  <2>1. unsent[c] \in Seq(Fragment) /\ unsent[c] # << >> /\ rcv[c] \in Seq(Fragment)
    BY <1>2 DEF ClientSend
  <2>2. Tail(unsent[c]) \in Seq(Fragment) /\ Head(unsent[c]) \in Fragment
    BY <2>1, HeadTailProperties
  <2>3. Append(rcv[c], Head(unsent[c])) \in Seq(Fragment)
    BY <2>1, <2>2, AppendProperties
  <2> QED BY <1>2, <2>2, <2>3 DEF ClientSend
<1>3. CASE UNCHANGED <<unsent, rcv>>
  BY <1>3
<1>4. ASSUME NEW c \in Conn, ClientClose(c, {}) PROVE PiecesOK'
  <2>1. rcv' = [rcv EXCEPT ![c] = @ \o << >>] /\ unsent' = unsent
    BY <1>4 DEF ClientClose
  <2>2. rcv[c] \o << >> = rcv[c]
    BY ConcatEmptySeq
  <2> QED BY <2>1, <2>2
<1> QED BY <1>1, <1>2, <1>3, <1>4 DEF ClientStep, ClientRead

\* The descriptors that a step leaves alone, and whose socket it does not write to,
\* keep a sound record and a sound event.
LEMMA OthersKept ==
  ASSUME LoopInv, NEW written, Moves(written), NEW f \in Fd,
         sock[f] # written \/ sock[f] = NoConn,
         sock'[f] = sock[f] /\ interest'[f] = interest[f] /\ ed_clients'[f] = ed_clients[f]
  PROVE  /\ RecordOK(f)'
         /\ f \in DOMAIN batch /\ batch'[f] = batch[f]
              /\ (Relaying /\ relay.fd = f => Relaying' /\ relay'.fd = f) => EventOK(f)'
<1> USE ClientsAssumption DEF LoopInv
<1>1. sock[f] \in Nat /\ (sock[f] # NoConn => sock[f] \in 1..arrived /\ sock[f] \in Conn)
  BY DEF LoopTypeOK, NetworkOK, NoConn, Conn
<1>2. RecordOK(f)'
  BY <1>1 DEF RecordOK, Moves
<1>3. ASSUME f \in DOMAIN batch, batch'[f] = batch[f],
             Relaying /\ relay.fd = f => Relaying' /\ relay'.fd = f
      PROVE  EventOK(f)'
  <2>1. EventOK(f) /\ sock[f] # NoConn
    BY <1>3 DEF RecordOK, EventOK
  <2>2. Gone(sock[f]) => Gone(sock[f])'
    BY <1>1, <2>1 DEF Moves, Gone
  <2>3. Room(sock[f]) >= LOWAT => Room(sock[f])' >= LOWAT
    <3>1. inflight'[sock[f]] =< inflight[sock[f]]
      BY <1>1, <2>1 DEF Moves
    <3>2. inflight[sock[f]] \in Int /\ inflight'[sock[f]] \in Int /\ LOWAT \in Int
      BY <1>1, <2>1, LoopAssumption DEF Moves, NetworkOK
    <3> QED BY <3>1, <3>2 DEF Room
  <2> QED BY <1>3, <2>1, <2>2, <2>3 DEF EventOK
<1> QED BY <1>2, <1>3

\* The clients move while the loop stands still.
LEMMA ClientStepKeeps ==
  ASSUME LoopInv, ClientStep
  PROVE  LoopInv'
<1>1. Moves(NoConn)
  BY ClientMoves DEF LoopInv, ClientStep
<1>2. /\ UNCHANGED <<accepted, sock, leaked, batch, running, relay>>
      /\ UNCHANGED <<interest, ed_clients, fds_used>>
  BY Zenon DEF ClientStep, loop, epoll
<1>3. LoopTypeOK' /\ SockDistinct' /\ NetworkOK' /\ RelayOK'
  BY <1>1, <1>2, ClientsAssumption
     DEF LoopInv, LoopTypeOK, NetworkOK, SockDistinct, RelayOK, Relaying, Moves
<1>4. \A f \in Fd : RecordOK(f)' /\ (f \in DOMAIN batch => EventOK(f)')
  BY <1>1, <1>2, OthersKept DEF Relaying
<1>5. PiecesOK'
  BY ClientPieces, Zenon DEF LoopInv
<1> QED BY <1>2, <1>3, <1>4, <1>5 DEF LoopInv

\* The record that ed_epoll_del wipes is one of the table, and sound.
LEMMA ClearedTyped == Cleared \in ClientRecord
<1>1. << >> \in Seq(Fragment)
  BY EmptySeq
<1>2. NoPage \in Page \cup {NoPage} /\ NULL \in Nat \cup {NULL}
  OBVIOUS
<1>3. FALSE \in BOOLEAN /\ "START" \in Status
  BY DEF Status
<1> QED BY <1>1, <1>2, <1>3 DEF Cleared, ClientRecord

\* Once ed_epoll_del has wiped it, the record of a descriptor is sound.
LEMMA ClearedSound ==
  ASSUME NEW fd, interest'[fd] = {}, ed_clients'[fd] = Cleared
  PROVE  RecordOK(fd)'
<1>1. /\ Cleared.data = FALSE /\ Cleared.fp = NULL /\ Cleared.status = "START"
      /\ Len(Cleared.buffer) =< REQUEST_SIZE
  BY LoopAssumption DEF Cleared
<1> QED BY <1>1, Zenon DEF RecordOK

\* A step that accepts nobody leaves the accepted connections among those that arrived.
LEMMA AcceptedArrived ==
  ASSUME LoopInv, NEW c, Moves(c), accepted' = accepted
  PROVE  accepted' \in 0..arrived'
<1>1. arrived' \in 0..MaxConns /\ arrived =< arrived'
  BY Zenon DEF Moves, NetworkOK
<1> QED BY <1>1, LoopFacts

\* A callback returns: its descriptor has a sound record, and its event is gone.
LEMMA CallbackDone ==
  ASSUME LoopInv, NEW fd \in Fd, fd \in DOMAIN batch, Next_event(fd),
         Relaying => relay.fd = fd,
         Moves(sock[fd]), PiecesOK', accepted' = accepted, LoopTypeOK',
         relay' \in [fd : Fd \cup {NoConn}, done : Nat],
         \A f \in Fd \ {fd} : /\ sock'[f] = sock[f] /\ interest'[f] = interest[f]
                              /\ ed_clients'[f] = ed_clients[f],
         sock'[fd] \in {sock[fd], NoConn}, RecordOK(fd)'
  PROVE  LoopInv'
<1>1. DOMAIN batch' = DOMAIN batch \ {fd} /\ \A f \in DOMAIN batch' : batch'[f] = batch[f]
  BY DEF Next_event
<1>2. ~Relaying'
  BY DEF Next_event, Relaying
<1>3. SockDistinct'
  <2>1. ASSUME NEW f \in Fd PROVE sock'[f] \in {sock[f], NoConn}
    <3>1. CASE f = fd
      BY <3>1, Zenon
    <3>2. CASE f \in Fd \ {fd}
      BY <3>2, Zenon
    <3> QED BY <3>1, <3>2, Zenon
  <2> QED BY <2>1, LoopFacts, Zenon DEF SockDistinct
<1>4. ASSUME NEW f \in Fd \ {fd} PROVE RecordOK(f)' /\ (f \in DOMAIN batch' => EventOK(f)')
  <2>1. sock[f] # sock[fd] \/ sock[f] = NoConn
    BY LoopFacts, Zenon DEF SockDistinct
  <2> QED BY <1>1, <2>1, OthersKept
<1> QED BY <1>1, <1>2, <1>3, <1>4, Zenon DEF LoopInv, Moves, RelayOK

\* ed_epoll_del and close_socket at the end of a callback.
LEMMA DelKeeps ==
  ASSUME LoopInv, NEW fd \in Fd, fd \in DOMAIN batch, Next_event(fd),
         Relaying => relay.fd = fd,
         Moves(sock[fd]), PiecesOK', accepted' = accepted,
         relay' \in [fd : Fd \cup {NoConn}, done : Nat],
         NEW lost \in BOOLEAN, ed_epoll_del(fd, lost)
  PROVE  LoopInv'
<1>1. /\ sock'[fd] = NoConn /\ interest'[fd] = {} /\ ed_clients'[fd] = Cleared
      /\ \A f \in Fd \ {fd} : /\ sock'[f] = sock[f] /\ interest'[f] = interest[f]
                              /\ ed_clients'[f] = ed_clients[f]
  BY DEF ed_epoll_del, LoopInv, LoopTypeOK
<1>2. Cleared \in ClientRecord
  BY ClearedTyped, Zenon
<1>3. accepted' \in 0..arrived'
  BY AcceptedArrived, Zenon
<1>4. NoConn \in 0..accepted
  BY LoopFacts DEF NoConn
<1>5. LoopTypeOK'
  BY <1>1, <1>2, <1>3, <1>4 DEF LoopInv, LoopTypeOK, ed_epoll_del
<1>6. RecordOK(fd)'
  BY <1>1, ClearedSound, Zenon
<1> QED BY <1>1, <1>5, <1>6, CallbackDone

\* A callback that leaves the connection open, with another record or interest.
LEMMA RecordKeeps ==
  ASSUME LoopInv, NEW fd \in Fd, fd \in DOMAIN batch, Next_event(fd),
         Relaying => relay.fd = fd,
         Moves(sock[fd]), PiecesOK', UNCHANGED <<accepted, sock, fds_used, leaked, relay>>,
         interest' \in [Fd -> SUBSET {"IN", "OUT"}],
         ed_clients' \in [Fd -> ClientRecord],
         \A f \in Fd \ {fd} : interest'[f] = interest[f] /\ ed_clients'[f] = ed_clients[f],
         RecordOK(fd)'
  PROVE  LoopInv'
<1>1. accepted' \in 0..arrived'
  BY AcceptedArrived, Zenon
<1>2. LoopTypeOK'
  BY <1>1, Zenon DEF LoopInv, LoopTypeOK
<1>3. relay' \in [fd : Fd \cup {NoConn}, done : Nat]
  BY Zenon DEF LoopInv, RelayOK
<1> QED BY <1>2, <1>3, CallbackDone
-----------------------------------------------------------------------------
(* The steps of the loop.                                                  *)

\* The state in which ed_epoll_init leaves the table.
LEMMA LoopInitOK ==
  ASSUME NEW others \in Nat, LoopInit(others)
  PROVE  LoopInv
<1> USE ClientsAssumption DEF LoopInit, NetworkInit
<1>1. NetworkOK
  BY DEF NetworkOK, Conn, Peers, Request
<1>2. PiecesOK
  BY EmptySeq DEF PiecesOK
<1>3. Cleared \in ClientRecord
  BY ClearedTyped, Zenon
<1>4. LoopTypeOK
  BY <1>3 DEF LoopTypeOK, NoConn
<1>5. SockDistinct /\ RelayOK /\ \A f \in Fd : RecordOK(f)
  BY LoopAssumption DEF SockDistinct, RelayOK, Relaying, RecordOK, Cleared
<1>6. DOMAIN batch = {}
  OBVIOUS
<1> QED BY <1>1, <1>2, <1>4, <1>5, <1>6 DEF LoopInv

\* What the event that ed_socket_callback picks from a mask says of the mask.
LEMMA FirstOf ==
  ASSUME NEW mask, NEW watched \in SUBSET {"IN", "OUT"}, mask # {},
         mask \subseteq Failures \cup watched
  PROVE  /\ First(mask) \in {"ERR", "HUP"} => mask \cap Failures # {}
         /\ First(mask) = "OUT" => "OUT" \in mask
         /\ First(mask) = "IN" => "IN" \in watched /\ "IN" \in mask
<1>1. CASE "ERR" \in mask
  BY <1>1 DEF First, Failures
<1>2. CASE "ERR" \notin mask /\ mask \cap {"HUP", "RDHUP"} # {}
  BY <1>2 DEF First, Failures
<1>3. CASE "ERR" \notin mask /\ mask \cap {"HUP", "RDHUP"} = {} /\ "OUT" \in mask
  <2>1. mask \subseteq {"OUT", "IN"}
    BY <1>3 DEF Failures
  <2> QED BY <1>3, <2>1 DEF First
<1>4. CASE "ERR" \notin mask /\ mask \cap {"HUP", "RDHUP"} = {} /\ "OUT" \notin mask
  <2>1. First(mask) = "IN"
    BY <1>4 DEF First
  <2> QED BY <1>4, <2>1, Zenon DEF Failures
<1> QED BY <1>1, <1>2, <1>3, <1>4

\* epoll_wait reports what is true of the sockets at that moment.
LEMMA EpollWaitKeeps ==
  ASSUME LoopInv, NEW others, DOMAIN others \cap Fd = {}, EpollWait(others)
  PROVE  /\ LoopInv'
         /\ DOMAIN batch' \subseteq Fd \cup {Listener} \cup DOMAIN others
<1> DEFINE ready == {fd \in Fd : Events(fd) # {}}
           accepts == IF accepted < arrived THEN {Listener} ELSE {}
<1>1. DOMAIN batch' = ready \cup accepts \cup DOMAIN others /\ running' = "dispatch"
  BY DEF EpollWait
<1>2. UNCHANGED <<network, accepted, sock, interest, ed_clients, fds_used, leaked, relay>>
  BY DEF EpollWait, epoll
<1>3. accepts \subseteq {Listener} /\ Listener \notin Fd
  BY LoopAssumption DEF Listener
<1>4. \A f \in DOMAIN batch' \cap Fd : f \in ready
  BY <1>1, <1>3, Zenon
<1>5. ASSUME NEW f \in ready PROVE batch'[f].mask = Events(f) /\ batch'[f].conn = sock[f]
  <2>1. batch'[f] = [mask |-> Events(f), conn |-> sock[f]]
    BY <1>3 DEF EpollWait
  <2> QED BY <2>1
<1>6. Moves(NoConn)
  BY <1>2, QuietMoves DEF LoopInv, network
<1>7. ASSUME NEW f \in ready PROVE EventOK(f)'
  <2> DEFINE c == sock[f]
  <2>1. interest[f] # {} /\ interest[f] \subseteq {"IN", "OUT"} /\ c # NoConn
    BY Zenon DEF Events, LoopInv, LoopTypeOK, RecordOK
  <2>2. c \in 1..arrived /\ peer[c] \in Peers /\ peer[c] # "none"
    <3>1. c \in 0..accepted /\ peer \in [Conn -> Peers]
      BY LoopFacts, Zenon DEF LoopInv, NetworkOK
    <3>2. c \in 1..accepted
      BY <2>1, <3>1, LoopFacts DEF NoConn
    <3>3. c \in 1..arrived /\ c \in Conn
      BY <3>2, LoopFacts, Zenon
    <3> QED BY <3>1, <3>3, Zenon DEF LoopInv, NetworkOK
  <2>3. /\ Events(f) # {} /\ Events(f) \subseteq Failures \cup interest[f]
        /\ Events(f) \cap Failures # {} => Gone(c)
        /\ "OUT" \in Events(f) => Gone(c) \/ Room(c) >= LOWAT
    BY <2>1, <2>2 DEF Events, Failures, Gone, Peers
  <2>7. batch'[f].mask = Events(f) /\ batch'[f].conn = sock[f]
    BY <1>5, Zenon
  <2>8. sock' = sock /\ interest' = interest
    BY <1>2
  <2>4. /\ batch'[f].mask = Events(f) /\ batch'[f].conn = sock'[f] /\ sock'[f] = c
        /\ interest'[f] = interest[f]
    BY <2>7, <2>8, Zenon
  <2>5. Gone(c) => Gone(sock[f])'
    BY <1>2 DEF Gone, network
  <2>6. Room(c) >= LOWAT => Room(sock[f])' >= LOWAT
    BY <1>2 DEF Room, network
  <2> HIDE DEF c
  <2> QED BY <2>1, <2>3, <2>4, <2>5, <2>6, Zenon DEF EventOK
<1>8. \A f \in DOMAIN batch' \cap Fd : EventOK(f)'
  BY <1>4, <1>7, Zenon
<1>9. \A f \in Fd : RecordOK(f)'
  BY <1>2, Zenon DEF LoopInv, RecordOK, network
<1>10. NetworkOK' /\ PiecesOK' /\ LoopTypeOK' /\ SockDistinct' /\ RelayOK'
  BY <1>1, <1>2, <1>6, Zenon
     DEF LoopInv, PiecesOK, LoopTypeOK, SockDistinct, RelayOK, Relaying, Moves, network
<1> HIDE DEF ready, accepts
<1> QED BY <1>1, <1>3, <1>8, <1>9, <1>10 DEF LoopInv, ready

\* A connection is accepted on a free descriptor, which no event is about.
LEMMA AcceptOneKeeps ==
  ASSUME LoopInv, AcceptOne
  PROVE  LoopInv'
<1> USE DEF LoopInv
<1>1. PICK fd \in Fd : /\ sock[fd] = NoConn
                       /\ sock' = [sock EXCEPT ![fd] = accepted + 1]
                       /\ ed_epoll_add(fd)
  BY Zenon DEF AcceptOne
<1>2. /\ accepted' = accepted + 1 /\ running = "accept" /\ accepted < arrived
      /\ UNCHANGED <<network, leaked, batch, running, relay>>
  BY DEF AcceptOne
<1>3. Moves(NoConn)
  BY <1>2, QuietMoves, Zenon DEF network
<1>4. interest[fd] = {} /\ ed_clients[fd] = Cleared /\ fd \notin DOMAIN batch
  BY <1>1, Zenon DEF RecordOK, EventOK
<1>5. /\ ed_clients'[fd] \in ClientRecord /\ interest'[fd] \subseteq {"IN", "OUT"}
      /\ sock'[fd] = accepted + 1 /\ accepted + 1 # NoConn
      /\ interest'[fd] = {} => ed_clients'[fd] = Cleared
      /\ interest'[fd] # {} => ed_clients'[fd].callback
      /\ ~ed_clients'[fd].data /\ ed_clients'[fd].fp = NULL /\ ed_clients'[fd].status = "START"
      /\ ed_clients'[fd].buffer = << >>
  <2>1. sock'[fd] = accepted + 1 /\ accepted + 1 # NoConn
    BY <1>1 DEF LoopTypeOK, NetworkOK, NoConn
  <2>2. CASE fd < maxfds
    <3>1. /\ ed_clients'[fd] = [Cleared EXCEPT !.callback = TRUE, !.data = FALSE]
          /\ interest'[fd] = {"IN", "OUT"}
      BY <1>1, <1>4, <2>2, Zenon DEF ed_epoll_add, LoopTypeOK
    <3>2. Cleared \in ClientRecord
      BY <1>4 DEF LoopTypeOK
    <3>3. [Cleared EXCEPT !.callback = TRUE, !.data = FALSE] \in ClientRecord
      BY <3>2, Zenon DEF ClientRecord
    <3> QED BY <2>1, <3>1, <3>3 DEF Cleared
  <2>3. CASE ~(fd < maxfds)
    <3>1. ed_clients'[fd] = Cleared /\ interest'[fd] = {}
      BY <1>1, <1>4, <2>3 DEF ed_epoll_add, epoll
    <3>2. Cleared \in ClientRecord
      BY <1>4 DEF LoopTypeOK
    <3> QED BY <2>1, <3>1, <3>2 DEF Cleared
  <2> QED BY <2>2, <2>3, Zenon
<1>6. /\ \A f \in Fd \ {fd} : /\ sock'[f] = sock[f] /\ interest'[f] = interest[f]
                              /\ ed_clients'[f] = ed_clients[f]
      /\ fds_used' \in Int
      /\ DOMAIN interest' = Fd /\ DOMAIN ed_clients' = Fd
      /\ interest' = [f \in Fd |-> interest'[f]] /\ ed_clients' = [f \in Fd |-> ed_clients'[f]]
  BY <1>1 DEF ed_epoll_add, epoll, LoopTypeOK
<1>7. LoopTypeOK'
  <2>1. accepted' \in 0..arrived' /\ \A f \in Fd : sock'[f] \in 0..accepted'
    BY <1>2, <1>5, <1>6, ClientsAssumption DEF LoopTypeOK, NetworkOK, network
  <2>2. sock' \in [Fd -> 0..accepted']
    BY <1>1, <2>1 DEF LoopTypeOK
  <2>3. interest' \in [Fd -> SUBSET {"IN", "OUT"}]
    BY <1>5, <1>6, Zenon DEF LoopTypeOK
  <2>4. ed_clients' \in [Fd -> ClientRecord]
    BY <1>5, <1>6 DEF LoopTypeOK
  <2> QED BY <1>2, <1>6, <2>1, <2>2, <2>3, <2>4, Zenon DEF LoopTypeOK
<1>8. SockDistinct'
  <2>1. ASSUME NEW f \in Fd PROVE sock[f] # accepted + 1
    <3>1. sock[f] \in 0..accepted /\ accepted \in Nat
      BY LoopFacts, Zenon
    <3> QED BY <3>1
  <2> QED BY <1>5, <1>6, <2>1 DEF SockDistinct
<1>9. RecordOK(fd)'
  BY <1>5, LoopAssumption DEF RecordOK
<1>10. ASSUME NEW f \in Fd \ {fd} PROVE RecordOK(f)' /\ (f \in DOMAIN batch' => EventOK(f)')
  BY <1>2, <1>3, <1>6, OthersKept DEF Relaying
<1>11. PiecesOK' /\ RelayOK'
  BY <1>2, Zenon DEF PiecesOK, RelayOK, Relaying, network
<1> QED BY <1>2, <1>3, <1>4, <1>7, <1>8, <1>9, <1>10, <1>11, Zenon DEF Moves

\* The accept loop is entered and left; the listening socket has no record.
LEMMA AcceptCallbackKeeps ==
  ASSUME LoopInv, AcceptCallback
  PROVE  LoopInv'
<1> USE DEF LoopInv
<1>1. CASE StartAccepting \/ StopAccepting
  <2>1. UNCHANGED <<network, accepted, sock, interest, ed_clients, fds_used, leaked, relay>>
    BY <1>1 DEF StartAccepting, StopAccepting, epoll
  <2>2. /\ DOMAIN batch' \subseteq DOMAIN batch /\ \A f \in DOMAIN batch' : batch'[f] = batch[f]
        /\ ~Relaying /\ ~Relaying'
    BY <1>1 DEF StartAccepting, StopAccepting, Next_event, Relaying
  <2>3. Moves(NoConn)
    BY <2>1, QuietMoves, Zenon DEF network
  <2>4. NetworkOK' /\ PiecesOK' /\ LoopTypeOK' /\ SockDistinct' /\ RelayOK'
    BY <2>1, <2>2, <2>3, Zenon DEF PiecesOK, LoopTypeOK, SockDistinct, RelayOK, Moves, network
  <2>5. ASSUME NEW f \in Fd PROVE RecordOK(f)' /\ (f \in DOMAIN batch' => EventOK(f)')
    BY <2>1, <2>2, <2>3, OthersKept
  <2> QED BY <2>4, <2>5
<1>2. CASE AcceptOne
  BY <1>2, AcceptOneKeeps, Zenon
<1> QED BY <1>1, <1>2, Zenon DEF AcceptCallback

\* What a callback of a client's socket may rely on.
LEMMA CallbackFacts ==
  ASSUME LoopInv, NEW fd \in Fd, NEW event, Callback(fd, event)
  PROVE  /\ fd \in DOMAIN batch /\ EventOK(fd) /\ ~Relaying
         /\ sock[fd] \in 1..accepted /\ sock[fd] \in 1..arrived /\ sock[fd] \in Conn
         /\ peer[sock[fd]] # "none"
         /\ interest[fd] # {} /\ ed_clients[fd].callback
         /\ event \in {"ERR", "HUP"} => Gone(sock[fd])
         /\ event = "OUT" => Gone(sock[fd]) \/ Room(sock[fd]) >= LOWAT
         /\ event = "IN" => "IN" \in interest[fd] /\ ~ed_clients[fd].data
<1>1. fd \in DOMAIN batch /\ ~Relaying /\ First(batch[fd].mask) = event
  BY DEF Callback, Relaying
<1>2. EventOK(fd) /\ RecordOK(fd)
  BY <1>1, Zenon DEF LoopInv
<1>3. interest[fd] # {} /\ sock[fd] # NoConn /\ ed_clients[fd].callback
  BY <1>2, Zenon DEF EventOK, RecordOK
<1>4. sock[fd] \in 1..accepted /\ sock[fd] \in 1..arrived /\ sock[fd] \in Conn
  <2>1. sock[fd] \in 0..accepted /\ accepted \in 0..arrived /\ arrived \in 0..MaxConns
    BY Zenon DEF LoopInv, LoopTypeOK, NetworkOK
  <2> QED BY <1>3, <2>1, ClientsAssumption DEF NoConn, Conn
<1>5. peer[sock[fd]] # "none"
  BY <1>4 DEF LoopInv, NetworkOK
<1>6. interest[fd] \in SUBSET {"IN", "OUT"}
  BY DEF LoopInv, LoopTypeOK
<1>7. PICK m, w : m = batch[fd].mask /\ w = interest[fd]
  BY Zenon
<1>8. m # {} /\ m \subseteq Failures \cup w /\ w \in SUBSET {"IN", "OUT"} /\ First(m) = event
  BY <1>1, <1>2, <1>6, <1>7 DEF EventOK
<1>9. /\ First(m) \in {"ERR", "HUP"} => m \cap Failures # {}
      /\ First(m) = "OUT" => "OUT" \in m
      /\ First(m) = "IN" => "IN" \in w /\ "IN" \in m
  BY <1>8, FirstOf, Zenon
<1>10. event \in {"ERR", "HUP"} => Gone(sock[fd])
  BY <1>2, <1>7, <1>8, <1>9, Zenon DEF EventOK
<1>11. event = "OUT" => Gone(sock[fd]) \/ Room(sock[fd]) >= LOWAT
  BY <1>1, <1>2, <1>7, <1>8, <1>9, Zenon DEF EventOK
<1>12. event = "IN" => "IN" \in interest[fd] /\ ~ed_clients[fd].data
  BY <1>2, <1>7, <1>8, <1>9 DEF RecordOK
<1> QED BY <1>1, <1>2, <1>3, <1>4, <1>5, <1>10, <1>11, <1>12

\* A stage of a response sends what it sends and leaves a sound record, or closes.
LEMMA RespondKeeps ==
  ASSUME LoopInv, NEW fd \in Fd, Callback(fd, "OUT"), ed_clients[fd].data,
         NEW stage, Respond(fd, stage), PiecesOK', Len(stage.out) \in Nat,
         stage.client.status # "FINISH" =>
           /\ stage.client \in ClientRecord /\ stage.client.callback /\ stage.client.data
           /\ stage.client.page = ed_clients[fd].page
  PROVE  LoopInv'
<1>1. PICK c \in Conn : c = sock[fd] /\ peer[c] # "none" /\ c \in 1..arrived
  BY CallbackFacts, Zenon
<1>2. Transmit(c, stage.out)
  BY <1>1, Zenon DEF Respond
<1>3. Moves(c)
  BY <1>1, <1>2, TransmitMoves DEF LoopInv
<1>4. /\ fd \in DOMAIN batch /\ ~Relaying /\ Next_event(fd) /\ UNCHANGED <<accepted, relay>>
      /\ relay' \in [fd : Fd \cup {NoConn}, done : Nat]
  BY CallbackFacts, Zenon DEF Respond, LoopInv, RelayOK
<1>5. CASE stage.client.status = "FINISH"
  <2>1. ed_epoll_del(fd, stage.client.fp # NULL)
    BY <1>5 DEF Respond
  <2>2. PICK lost \in BOOLEAN : lost = (stage.client.fp # NULL)
    BY Zenon
  <2> QED BY <1>1, <1>3, <1>4, <2>1, <2>2, DelKeeps, Zenon
<1>6. CASE stage.client.status # "FINISH"
  <2>1. /\ ed_clients' = [ed_clients EXCEPT ![fd] = stage.client]
        /\ UNCHANGED <<interest, fds_used, sock, leaked>>
    BY <1>6, Zenon DEF Respond
  <2>2. /\ ed_clients' \in [Fd -> ClientRecord] /\ ed_clients'[fd] = stage.client
        /\ \A f \in Fd \ {fd} : ed_clients'[f] = ed_clients[f]
        /\ interest' \in [Fd -> SUBSET {"IN", "OUT"}]
    BY <1>6, <2>1 DEF LoopInv, LoopTypeOK
  <2>3. RecordOK(fd)'
    <3>1. RecordOK(fd) /\ interest[fd] # {}
      BY CallbackFacts, Zenon DEF LoopInv
    <3>2. want'[c] = want[c]
      BY <1>1, <1>3, Zenon DEF Moves
    <3> QED BY <1>1, <1>6, <2>1, <2>2, <3>1, <3>2, Zenon DEF RecordOK
  <2> QED BY <1>1, <1>3, <1>4, <2>1, <2>2, <2>3, RecordKeeps, Zenon
<1> QED BY <1>5, <1>6

\* The least of what may be read, of the room in the buffer and of what is there.
LEMMA LeastFits ==
  ASSUME NEW most \in Nat, NEW size \in Nat, NEW l \in Nat, NEW m \in Nat, m =< size
  PROVE  /\ Least(Least(most, size - m), l) \in 0..l
         /\ m + Least(Least(most, size - m), l) =< size
<1>1. \A i, j \in Nat : Least(i, j) \in Nat /\ Least(i, j) =< i /\ Least(i, j) =< j
  BY DEF Least
<1>2. PICK j \in Nat : j = size - m
  OBVIOUS
<1>3. PICK k \in Nat : k = Least(most, j) /\ k =< j
  BY <1>1
<1>4. PICK n \in Nat : n = Least(k, l) /\ n =< k /\ n =< l
  BY <1>1
<1>5. n \in 0..l /\ m + n =< size
  BY <1>2, <1>3, <1>4
<1> QED BY <1>2, <1>3, <1>4, <1>5

\* What read() takes from a socket and what it leaves there are pieces.
LEMMA FirstPieces ==
  ASSUME NEW S, NEW r \in Seq(S), NEW n \in 0..Len(r)
  PROVE  /\ SubSeq(r, 1, n) \in Seq(S) /\ Len(SubSeq(r, 1, n)) = n
         /\ SubSeq(r, n + 1, Len(r)) \in Seq(S)
<1>1. Len(r) \in Nat /\ \A i \in 1..Len(r) : r[i] \in S
  BY LenProperties, ElementOfSeq
<1>2. \A i \in 1..n : r[i] \in S
  BY <1>1
<1>3. SubSeq(r, 1, n) \in Seq(S) /\ Len(SubSeq(r, 1, n)) = IF 1 =< n THEN n - 1 + 1 ELSE 0
  BY <1>1, <1>2, SubSeqProperties
<1>4. Len(SubSeq(r, 1, n)) = n
  BY <1>1, <1>3
<1>5. \A i \in (n + 1)..Len(r) : r[i] \in S
  BY <1>1
<1>6. SubSeq(r, n + 1, Len(r)) \in Seq(S)
  BY <1>1, <1>5, SubSeqProperties
<1> QED BY <1>3, <1>4, <1>6

\* A read takes some first pieces of what the socket holds, and they fit.
LEMMA ReadFits ==
  ASSUME LoopInv, NEW fd \in Fd, Callback(fd, "IN"), NEW n,
         n = Least(Max_read(ed_clients[fd]), Len(rcv[sock[fd]]))
  PROVE  /\ rcv[sock[fd]] \in Seq(Fragment) /\ ed_clients[fd].buffer \in Seq(Fragment)
         /\ n \in 0..Len(rcv[sock[fd]])
         /\ SubSeq(rcv[sock[fd]], 1, n) \in Seq(Fragment)
         /\ SubSeq(rcv[sock[fd]], n + 1, Len(rcv[sock[fd]])) \in Seq(Fragment)
         /\ ed_clients[fd].buffer \o SubSeq(rcv[sock[fd]], 1, n) \in Seq(Fragment)
         /\ Len(ed_clients[fd].buffer \o SubSeq(rcv[sock[fd]], 1, n)) =< REQUEST_SIZE
<1>1. PICK c \in Conn : c = sock[fd]
  BY CallbackFacts, Zenon
<1>2. PICK r \in Seq(Fragment) : r = rcv[c]
  BY DEF LoopInv, PiecesOK
<1>3. PICK b \in Seq(Fragment) : b = ed_clients[fd].buffer /\ Len(b) =< REQUEST_SIZE
  BY CallbackFacts, Zenon DEF LoopInv, LoopTypeOK, ClientRecord, RecordOK
<1>4. Len(r) \in Nat /\ Len(b) \in Nat
  BY LenProperties
<1>5. n = Least(Least(MAX_READ, REQUEST_SIZE - Len(b)), Len(r))
  BY <1>1, <1>2, <1>3 DEF Max_read
<1>6. n \in 0..Len(r) /\ Len(b) + n =< REQUEST_SIZE
  <2>1. PICK l \in Nat, m \in Nat : l = Len(r) /\ m = Len(b)
    BY <1>4
  <2>2. n = Least(Least(MAX_READ, REQUEST_SIZE - m), l) /\ m =< REQUEST_SIZE
    BY <1>3, <1>5, <2>1
  <2>3. MAX_READ \in Nat /\ REQUEST_SIZE \in Nat
    BY LoopAssumption
  <2>4. n \in 0..l /\ m + n =< REQUEST_SIZE
    BY <2>2, <2>3, LeastFits, Zenon
  <2> QED BY <2>1, <2>4
<1>7. SubSeq(r, 1, n) \in Seq(Fragment) /\ Len(SubSeq(r, 1, n)) = n
  BY <1>6, FirstPieces, Zenon
<1>8. SubSeq(r, n + 1, Len(r)) \in Seq(Fragment)
  BY <1>6, FirstPieces, Zenon
<1>9. /\ b \o SubSeq(r, 1, n) \in Seq(Fragment)
      /\ Len(b \o SubSeq(r, 1, n)) = Len(b) + n
  <2>1. PICK q \in Seq(Fragment) : q = SubSeq(r, 1, n) /\ Len(q) = n
    BY <1>7, Zenon
  <2>2. b \o q \in Seq(Fragment) /\ Len(b \o q) = Len(b) + Len(q)
    BY ConcatProperties, Zenon
  <2> QED BY <2>1, <2>2, Zenon
<1> QED BY <1>1, <1>2, <1>3, <1>6, <1>7, <1>8, <1>9

\* EPOLLIN: one read, then the parser.
LEMMA OnReadableKeeps ==
  ASSUME LoopInv, NEW fd \in Fd, OnReadable(fd)
  PROVE  LoopInv'
<1>1. PICK c \in Conn : c = sock[fd] /\ c \in 1..arrived
  BY CallbackFacts, Zenon DEF OnReadable
<1>2. PICK n : n = Least(Max_read(ed_clients[fd]), Len(rcv[sock[fd]]))
  OBVIOUS
<1>3. PICK buffer : buffer = ed_clients[fd].buffer \o SubSeq(rcv[sock[fd]], 1, n)
  BY Zenon
<1>4. PICK client \in ClientRecord : client = ed_clients[fd]
  BY DEF LoopInv, LoopTypeOK
<1>5. PICK read : read = [client EXCEPT !.buffer = buffer]
  BY Zenon
<1>6. /\ Callback(fd, "IN") /\ Receive(c, n) /\ Next_event(fd) /\ UNCHANGED <<accepted, relay>>
      /\ relay' \in [fd : Fd \cup {NoConn}, done : Nat]
  BY <1>1, <1>2, Zenon DEF OnReadable, LoopInv, RelayOK
<1>7. \/ /\ ed_epoll_set(fd, "OUT", [read EXCEPT !.page = want[c].page], TRUE)
         /\ UNCHANGED <<sock, leaked>>
      \/ ed_epoll_del(fd, client.fp # NULL)
      \/ /\ ed_clients' = [ed_clients EXCEPT ![fd] = read]
         /\ UNCHANGED <<interest, fds_used, sock, leaked>>
  BY <1>1, <1>2, <1>3, <1>4, <1>5, Zenon DEF OnReadable
<1>8. /\ rcv[c] \in Seq(Fragment) /\ buffer \in Seq(Fragment) /\ Len(buffer) =< REQUEST_SIZE
      /\ SubSeq(rcv[c], n + 1, Len(rcv[c])) \in Seq(Fragment)
  BY <1>1, <1>2, <1>3, <1>6, ReadFits
<1>9. PiecesOK' /\ Moves(c)
  <2>1. rcv' = [rcv EXCEPT ![c] = SubSeq(rcv[c], n + 1, Len(rcv[c]))] /\ unsent' = unsent
    BY <1>6 DEF Receive
  <2>2. PiecesOK'
    BY <1>8, <2>1 DEF LoopInv, PiecesOK
  <2>3. UNCHANGED <<plan, want, peer, inflight, arrived>>
    BY <1>6 DEF Receive
  <2> QED BY <2>2, <2>3, QuietMoves DEF LoopInv
<1>10. /\ fd \in DOMAIN batch /\ ~Relaying /\ ~client.data /\ RecordOK(fd)
       /\ interest[fd] # {} /\ client.callback /\ sock[fd] # NoConn /\ want'[c] = want[c]
  BY <1>1, <1>4, <1>6, <1>9, CallbackFacts, Zenon DEF LoopInv, RecordOK, Moves
<1>11. /\ read \in ClientRecord /\ read.fp = NULL /\ read.status = "START" /\ ~read.data
       /\ read.callback /\ Len(read.buffer) =< REQUEST_SIZE
  BY <1>4, <1>5, <1>8, <1>10 DEF ClientRecord, RecordOK
<1>12. CASE ed_epoll_set(fd, "OUT", [read EXCEPT !.page = want[c].page], TRUE)
             /\ UNCHANGED <<sock, leaked>>
  <2>1. want[c].page \in Page
    BY <1>1, ClientsAssumption DEF LoopInv, NetworkOK
  <2>2. PICK parsed : parsed = [read EXCEPT !.page = want[c].page, !.data = TRUE]
    OBVIOUS
  <2>3. parsed \in ClientRecord /\ parsed.callback /\ parsed.page = want[c].page /\ parsed.data
    BY <1>11, <2>1, <2>2, Zenon DEF ClientRecord
  <2>4. /\ ed_clients' = [ed_clients EXCEPT ![fd] = parsed] /\ UNCHANGED fds_used
        /\ interest' = [interest EXCEPT ![fd] = {"OUT"}]
    BY <1>12, <1>11, <2>2 DEF ed_epoll_set, ClientRecord
  <2>5. /\ ed_clients' \in [Fd -> ClientRecord] /\ ed_clients'[fd] = parsed
        /\ interest' \in [Fd -> SUBSET {"IN", "OUT"}] /\ interest'[fd] = {"OUT"}
        /\ \A f \in Fd \ {fd} : interest'[f] = interest[f] /\ ed_clients'[f] = ed_clients[f]
    BY <2>3, <2>4, Zenon DEF LoopInv, LoopTypeOK
  <2>6. RecordOK(fd)'
    BY <1>1, <1>10, <1>12, <2>3, <2>5 DEF RecordOK
  <2> QED BY <1>1, <1>6, <1>9, <1>10, <1>12, <2>4, <2>5, <2>6, RecordKeeps, Zenon
<1>13. CASE ed_epoll_del(fd, client.fp # NULL)
  <2>1. PICK lost \in BOOLEAN : lost = (client.fp # NULL)
    BY Zenon
  <2> QED BY <1>1, <1>6, <1>9, <1>10, <1>13, <2>1, DelKeeps, Zenon
<1>14. CASE ed_clients' = [ed_clients EXCEPT ![fd] = read]
            /\ UNCHANGED <<interest, fds_used, sock, leaked>>
  <2>1. /\ ed_clients' \in [Fd -> ClientRecord] /\ ed_clients'[fd] = read
        /\ interest' \in [Fd -> SUBSET {"IN", "OUT"}]
        /\ \A f \in Fd \ {fd} : interest'[f] = interest[f] /\ ed_clients'[f] = ed_clients[f]
    BY <1>11, <1>14 DEF LoopInv, LoopTypeOK
  <2>2. RecordOK(fd)'
    BY <1>1, <1>10, <1>11, <1>14, <2>1, Zenon DEF RecordOK
  <2> QED BY <1>1, <1>6, <1>9, <1>10, <1>14, <2>1, <2>2, RecordKeeps, Zenon
<1> QED BY <1>7, <1>12, <1>13, <1>14, Zenon

\* ed_socket_callback, up to the stages of a response.
LEMMA SocketCallbackKeeps ==
  ASSUME LoopInv, NEW fd \in Fd, SocketCallback(fd)
  PROVE  LoopInv'
<1>0. relay \in [fd : Fd \cup {NoConn}, done : Nat]
  BY DEF LoopInv, RelayOK
<1>1. CASE OnError(fd) \/ OnHangup(fd) \/ OnWritableIdle(fd)
  <2>1. PICK event : Callback(fd, event)
    BY <1>1, Zenon DEF OnError, OnHangup, OnWritableIdle
  <2>2. fd \in DOMAIN batch /\ ~Relaying /\ interest[fd] # {} /\ ed_clients[fd].callback
    BY <2>1, CallbackFacts
  <2>3. Next_event(fd) /\ UNCHANGED <<network, accepted, relay>>
    BY <1>1, Zenon DEF OnError, OnHangup, OnWritableIdle
  <2>4. PICK c : c = sock[fd]
    OBVIOUS
  <2>5. Moves(c) /\ PiecesOK' /\ want' = want
    BY <2>3, QuietMoves DEF network, LoopInv, PiecesOK
  <2>6. CASE OnError(fd)
    <3>1. UNCHANGED <<sock, interest, ed_clients, fds_used, leaked>>
      BY <2>6 DEF OnError, epoll
    <3>2. /\ interest' \in [Fd -> SUBSET {"IN", "OUT"}] /\ ed_clients' \in [Fd -> ClientRecord]
          /\ RecordOK(fd)'
      BY <2>5, <3>1, Zenon DEF LoopInv, LoopTypeOK, RecordOK
    <3> QED BY <2>2, <2>3, <2>4, <2>5, <3>1, <3>2, RecordKeeps, Zenon
  <2>7. CASE OnHangup(fd)
    <3>1. PICK lost \in BOOLEAN : lost = (ed_clients[fd].fp # NULL)
      BY Zenon
    <3>2. ed_epoll_del(fd, lost)
      BY <2>7, <3>1 DEF OnHangup
    <3> QED BY <1>0, <2>2, <2>3, <2>4, <2>5, <3>2, DelKeeps
  <2>8. CASE OnWritableIdle(fd)
    <3>1. PICK client \in ClientRecord : client = ed_clients[fd]
      BY DEF LoopInv, LoopTypeOK
    <3>2. ~client.data /\ UNCHANGED <<sock, leaked>> /\ ed_epoll_set(fd, "IN", client, FALSE)
      BY <2>8, <3>1, Zenon DEF OnWritableIdle
    <3>3. /\ interest' = [interest EXCEPT ![fd] = {"IN"}] /\ UNCHANGED fds_used
          /\ ed_clients' = [ed_clients EXCEPT ![fd] = [client EXCEPT !.data = FALSE]]
      BY <3>2 DEF ed_epoll_set
    <3>4. [client EXCEPT !.data = FALSE] = client
      BY <3>2 DEF ClientRecord
    <3>5. /\ interest' \in [Fd -> SUBSET {"IN", "OUT"}] /\ ed_clients' \in [Fd -> ClientRecord]
          /\ interest'[fd] = {"IN"} /\ ed_clients'[fd] = client
          /\ \A f \in Fd \ {fd} : interest'[f] = interest[f] /\ ed_clients'[f] = ed_clients[f]
      BY <3>3, <3>4, Zenon DEF LoopInv, LoopTypeOK
    <3>6. RecordOK(fd)
      BY Zenon DEF LoopInv
    <3>7. /\ client.callback /\ client.fp = NULL /\ client.status = "START"
          /\ Len(client.buffer) =< REQUEST_SIZE /\ sock[fd] # NoConn
      BY <2>2, <3>1, <3>2, <3>6, Zenon DEF RecordOK
    <3>8. RecordOK(fd)'
      BY <3>2, <3>5, <3>6, <3>7, Zenon DEF RecordOK
    <3> QED BY <2>2, <2>3, <2>4, <2>5, <3>2, <3>3, <3>5, <3>8, RecordKeeps, Zenon
  <2> QED BY <1>1, <2>6, <2>7, <2>8
<1>2. CASE OnReadable(fd)
  BY <1>2, OnReadableKeeps
<1> QED BY <1>1, <1>2, Zenon DEF SocketCallback
-----------------------------------------------------------------------------
(* The loops that send chunk after chunk within one callback.              *)

\* A loop that has sent nothing has not sent too much.
LEMMA ZeroLeast ==
  ASSUME NEW n \in Nat
  PROVE  0 =< n
OBVIOUS

\* Such a loop is entered from the callback of its descriptor.
LEMMA StartRelayKeeps ==
  ASSUME LoopInv, NEW fd \in Fd, Callback(fd, "OUT"), ed_clients[fd].data,
         running' \in {"relay", "mapped"}, relay' = [fd |-> fd, done |-> 0],
         UNCHANGED <<network, accepted, sock, epoll, leaked, batch>>
  PROVE  LoopInv'
<1> USE DEF LoopInv
<1>1. fd \in DOMAIN batch /\ ~Relaying /\ EventOK(fd)
  BY CallbackFacts, Zenon
<1>2. UNCHANGED <<interest, ed_clients, fds_used>>
  BY Zenon DEF epoll
<1>3. Moves(NoConn) /\ PiecesOK'
  BY QuietMoves, Zenon DEF network, PiecesOK
<1>4. LoopTypeOK' /\ SockDistinct'
  BY <1>2 DEF LoopTypeOK, SockDistinct, network
<1>5. Relaying' /\ relay'.fd = fd
  BY Zenon DEF Relaying
<1>6. EventOK(fd)'
  <2>1. Gone(sock[fd]) => Gone(sock[fd])'
    BY Zenon DEF Gone, network
  <2> QED BY <1>1, <1>2, <1>5, <2>1, Zenon DEF EventOK
<1>7. ASSUME NEW f \in Fd PROVE RecordOK(f)' /\ (f # fd /\ f \in DOMAIN batch' => EventOK(f)')
  BY <1>1, <1>2, <1>3, OthersKept, Zenon
<1>8. RelayOK'
  <2>1. ed_clients'[fd].data /\ ed_clients'[fd].page = want[sock[fd]].page
    BY <1>2, Zenon DEF RecordOK
  <2>2. want[sock[fd]].page \in Page
    BY CallbackFacts, ClientsAssumption, Zenon DEF NetworkOK
  <2>3. Size[ed_clients'[fd].page] \in Nat
    BY <2>1, <2>2, PagesAssumption, Zenon
  <2>4. relay'.done = 0 /\ relay' \in [fd : Fd \cup {NoConn}, done : Nat]
    BY Zenon
  <2>5. PICK n \in Nat : n = Size[ed_clients'[fd].page]
    BY <2>3, Zenon
  <2>6. relay'.done =< Size[ed_clients'[fd].page]
    BY <2>4, <2>5, ZeroLeast, Zenon
  <2>7. fd \in DOMAIN batch'
    BY <1>1, Zenon
  <2> QED BY <1>5, <2>1, <2>4, <2>6, <2>7, Zenon DEF RelayOK
<1> QED BY <1>3, <1>4, <1>6, <1>7, <1>8, Zenon DEF Moves

\* It sends n more units to the client, or fewer if they do not fit.
LEMMA RelayChunkKeeps ==
  ASSUME LoopInv, Relaying, NEW units, Len(units) \in Nat, Transmit(sock[relay.fd], units),
         NEW n \in Nat, n =< Size[ed_clients[relay.fd].page] - relay.done,
         relay' = [relay EXCEPT !.done = @ + n],
         UNCHANGED <<accepted, sock, epoll, leaked, batch, running>>
  PROVE  LoopInv'
<1> USE DEF LoopInv
<1>1. PICK fd \in Fd : fd = relay.fd /\ fd \in DOMAIN batch /\ ed_clients[fd].data
  BY DEF RelayOK
<1>2. EventOK(fd) /\ RecordOK(fd)
  BY <1>1
<1>3. PICK c \in Conn : c = sock[fd] /\ c \in 1..arrived /\ peer[c] # "none"
  BY <1>2, ClientsAssumption DEF EventOK, RecordOK, LoopTypeOK, NetworkOK, NoConn, Conn
<1>4. Transmit(c, units)
  BY <1>1, <1>3
<1>5. Moves(c) /\ PiecesOK'
  <2>1. PiecesOK'
    BY <1>4, Zenon DEF Transmit, PiecesOK
  <2> QED BY <1>3, <1>4, <2>1, TransmitMoves
<1>6. UNCHANGED <<interest, ed_clients, fds_used>>
  BY DEF epoll
<1>7. LoopTypeOK' /\ SockDistinct'
  BY <1>5, <1>6, ClientsAssumption DEF LoopTypeOK, SockDistinct, Moves, NetworkOK
<1>8. Relaying' /\ relay'.fd = fd /\ relay'.done = relay.done + n
  BY <1>1 DEF Relaying, RelayOK
<1>9. EventOK(fd)' /\ RecordOK(fd)'
  <2>1. Gone(sock[fd]) => Gone(sock[fd])'
    BY <1>3, <1>5 DEF Gone, Moves
  <2>2. EventOK(fd)'
    BY <1>2, <1>6, <1>8, <2>1 DEF EventOK
  <2>3. want'[c] = want[c]
    BY <1>3, <1>5 DEF Moves
  <2> QED BY <1>2, <1>3, <1>6, <2>2, <2>3 DEF RecordOK
<1>10. ASSUME NEW f \in Fd \ {fd} PROVE RecordOK(f)' /\ (f \in DOMAIN batch' => EventOK(f)')
  <2>1. sock[f] # c \/ sock[f] = NoConn
    BY <1>3 DEF SockDistinct
  <2> QED BY <1>1, <1>5, <1>6, <2>1, OthersKept
<1>11. RelayOK'
  <2>1. ed_clients[fd].page = want[c].page /\ want[c].page \in Page
    BY <1>1, <1>2, <1>3, ClientsAssumption, Zenon DEF RecordOK, NetworkOK
  <2>2. Size[ed_clients[fd].page] \in Nat
    BY <2>1, PagesAssumption
  <2>3. relay.done \in Nat
    BY DEF RelayOK
  <2>4. relay.done + n =< Size[ed_clients[fd].page]
    BY <1>1, <2>2, <2>3
  <2>5. relay' \in [fd : Fd \cup {NoConn}, done : Nat]
    BY DEF RelayOK
  <2> QED BY <1>1, <1>6, <1>8, <2>4, <2>5 DEF RelayOK
<1> QED BY <1>5, <1>7, <1>9, <1>10, <1>11 DEF Moves

\* It ends: the connection of its descriptor is closed.
LEMMA RelayEndKeeps ==
  ASSUME LoopInv, Relaying, ed_epoll_del(relay.fd, FALSE), Next_event(relay.fd),
         relay' = [fd |-> NoConn, done |-> 0], UNCHANGED <<network, accepted>>
  PROVE  LoopInv'
<1>1. PICK fd \in Fd : fd = relay.fd /\ fd \in DOMAIN batch
  BY Zenon DEF LoopInv, RelayOK
<1>2. PICK c : c = sock[fd]
  BY Zenon
<1>3. Moves(c) /\ PiecesOK'
  BY QuietMoves DEF LoopInv, network, PiecesOK
<1>4. ed_epoll_del(fd, FALSE) /\ Next_event(fd)
  BY <1>1, Zenon
<1>5. relay' \in [fd : Fd \cup {NoConn}, done : Nat]
  OBVIOUS
<1> QED BY <1>1, <1>2, <1>3, <1>4, <1>5, DelKeeps, Zenon

\* The descriptor of such a loop is that of a client, which asked for the page.
LEMMA RelayClient ==
  ASSUME LoopInv, Relaying
  PROVE  \E fd \in Fd, c \in Conn, p \in Page, d \in Nat :
           /\ fd = relay.fd /\ c = sock[fd] /\ c \in 1..accepted /\ peer[c] # "none"
           /\ fd \in DOMAIN batch /\ interest[fd] # {}
           /\ p = ed_clients[fd].page /\ p = want[c].page
           /\ d = relay.done /\ d =< Size[p] /\ Size[p] \in Nat
<1>0. RelayOK
  BY Zenon DEF LoopInv
<1>1. PICK fd \in Fd : /\ fd = relay.fd /\ fd \in DOMAIN batch /\ ed_clients[fd].data
                       /\ relay.done =< Size[ed_clients[fd].page]
  BY <1>0 DEF RelayOK
<1>2. EventOK(fd) /\ RecordOK(fd)
  BY <1>1, Zenon DEF LoopInv
<1>3. PICK c \in Conn : c = sock[fd] /\ c \in 1..accepted /\ c \in 1..arrived
  <2>1. sock[fd] # NoConn
    BY <1>2, Zenon DEF EventOK, RecordOK
  <2>2. sock[fd] \in 0..accepted /\ accepted \in 0..arrived
    BY Zenon DEF LoopInv, LoopTypeOK
  <2>3. arrived \in 0..MaxConns
    BY Zenon DEF LoopInv, NetworkOK
  <2> QED BY <2>1, <2>2, <2>3, ClientsAssumption DEF NoConn, Conn
<1>4. PICK p \in Page : p = want[c].page /\ p = ed_clients[fd].page
  <2>1. want[c].page \in Page
    BY <1>3, ClientsAssumption, Zenon DEF LoopInv, NetworkOK
  <2>2. ed_clients[fd].page = want[c].page
    BY <1>1, <1>2, <1>3, Zenon DEF RecordOK
  <2> QED BY <2>1, <2>2
<1>5. PICK d \in Nat : d = relay.done
  BY <1>0, Zenon DEF RelayOK
<1>6. peer[c] # "none" /\ Size[p] \in Nat /\ interest[fd] # {}
  BY <1>2, <1>3, PagesAssumption, Zenon DEF LoopInv, NetworkOK, EventOK
<1>7. d =< Size[p] /\ ed_clients[fd].page = p /\ sock[fd] = c
  BY <1>1, <1>3, <1>4, <1>5
<1> QED BY <1>1, <1>3, <1>4, <1>5, <1>6, <1>7, Zenon

\* What a round of the FastCGI loop sends, and to whom.
LEMMA RelayUnits ==
  ASSUME LoopInv, FastCgiRelay
  PROVE  \E c \in Conn, n \in Nat, units \in Seq(Unit) :
           /\ c = sock[relay.fd] /\ peer[c] # "none"
           /\ Len(units) \in Nat /\ Transmit(c, units)
           /\ n =< Size[ed_clients[relay.fd].page] - relay.done
           /\ relay' = [relay EXCEPT !.done = @ + n]
<1>1. Relaying
  BY Zenon DEF FastCgiRelay, Relaying
<1>2. PICK fd \in Fd, c \in Conn, p \in Page, d \in Nat :
        /\ fd = relay.fd /\ c = sock[fd] /\ peer[c] # "none"
        /\ p = ed_clients[fd].page /\ d = relay.done /\ d =< Size[p] /\ Size[p] \in Nat
  BY <1>1, RelayClient
<1>3. PICK n : n = Least(CHUNK, Size[p] - d)
  BY Zenon
<1>4. n \in Nat /\ n =< Size[p] - d
  BY <1>2, <1>3, PagesAssumption DEF Least
<1>5. PICK units \in Seq(Unit) : units = Units(p, d, n) /\ Len(units) \in Nat
  BY <1>4, UnitsSeq, Zenon
<1>6. Transmit(c, units) /\ relay' = [relay EXCEPT !.done = @ + n]
  BY <1>2, <1>3, <1>5 DEF FastCgiRelay
<1>7. n =< Size[ed_clients[relay.fd].page] - relay.done /\ c = sock[relay.fd]
  BY <1>2, <1>4
<1> QED BY <1>2, <1>4, <1>5, <1>6, <1>7, Zenon

\* write_http_fastcgi_response.
LEMMA FastCgiKeeps ==
  ASSUME LoopInv, FastCgiRelay \/ FastCgiEnd
                    \/ \E fd \in Fd : FastCgiStart(fd) \/ FastCgiFails(fd)
  PROVE  LoopInv'
<1>1. ASSUME NEW fd \in Fd, FastCgiStart(fd) PROVE LoopInv'
  BY <1>1, StartRelayKeeps, Zenon DEF FastCgiStart
<1>2. ASSUME NEW fd \in Fd, FastCgiFails(fd) PROVE LoopInv'
  <2>1. PICK c \in Conn : c = sock[fd] /\ peer[c] # "none"
    BY <1>2, CallbackFacts, Zenon DEF FastCgiFails
  <2>2. Transmit(c, <<ServerError>>) /\ Len(<<ServerError>>) \in Nat
    BY <1>2, <2>1, Zenon DEF FastCgiFails
  <2>3. Moves(c) /\ PiecesOK'
    <3>1. PiecesOK'
      BY <2>2 DEF Transmit, LoopInv, PiecesOK
    <3> QED BY <2>1, <2>2, <3>1, TransmitMoves, Zenon DEF LoopInv
  <2>4. fd \in DOMAIN batch /\ ~Relaying
    BY <1>2, CallbackFacts, Zenon DEF FastCgiFails
  <2>5. PICK lost \in BOOLEAN : lost <=> DescriptorsLeft(1)
    <3>1. CASE DescriptorsLeft(1)
      BY <3>1, Zenon
    <3>2. CASE ~DescriptorsLeft(1)
      BY <3>2, Zenon
    <3> QED BY <3>1, <3>2
  <2>6. ed_epoll_del(fd, lost) /\ Next_event(fd) /\ UNCHANGED <<accepted, relay>>
    BY <1>2, <2>5, Zenon DEF FastCgiFails, ed_epoll_del
  <2>7. relay' \in [fd : Fd \cup {NoConn}, done : Nat]
    BY <2>6, Zenon DEF LoopInv, RelayOK
  <2> QED BY <2>1, <2>3, <2>4, <2>6, <2>7, DelKeeps, Zenon
<1>3. ASSUME FastCgiRelay PROVE LoopInv'
  <2>1. Relaying
    BY <1>3 DEF FastCgiRelay, Relaying
  <2>2. PICK c \in Conn, n \in Nat, units \in Seq(Unit) :
          /\ c = sock[relay.fd] /\ Len(units) \in Nat /\ Transmit(c, units)
          /\ n =< Size[ed_clients[relay.fd].page] - relay.done
          /\ relay' = [relay EXCEPT !.done = @ + n]
    BY <1>3, RelayUnits
  <2>3. UNCHANGED <<accepted, sock, epoll, leaked, batch, running>>
    BY <1>3 DEF FastCgiRelay
  <2>4. Transmit(sock[relay.fd], units)
    BY <2>2
  <2> QED BY <2>1, <2>2, <2>3, <2>4, RelayChunkKeeps
<1>4. ASSUME FastCgiEnd PROVE LoopInv'
  <2>1. Relaying
    BY <1>4, Zenon DEF FastCgiEnd, Relaying
  <2> QED BY <1>4, <2>1, RelayEndKeeps, Zenon DEF FastCgiEnd
<1> QED BY <1>1, <1>2, <1>3, <1>4

\* What all of them do to the network, in one statement.
LEMMA LoopMoves ==
  ASSUME LoopInv,
         \/ ClientStep \/ AcceptCallback \/ FastCgiRelay \/ FastCgiEnd
         \/ \E others : EpollWait(others)
         \/ \E fd \in Fd : SocketCallback(fd) \/ FastCgiStart(fd) \/ FastCgiFails(fd)
  PROVE  \E c : Moves(c)
<1> USE DEF LoopInv
<1>1. CASE UNCHANGED network
  BY <1>1, QuietMoves, Zenon DEF network
<1>2. CASE ClientStep
  BY <1>2, ClientMoves DEF ClientStep
<1>3. CASE AcceptCallback \/ FastCgiEnd \/ \E others : EpollWait(others)
  BY <1>1, <1>3, Zenon
     DEF AcceptCallback, StartAccepting, AcceptOne, StopAccepting, FastCgiEnd, EpollWait
<1>4. ASSUME NEW fd \in Fd, SocketCallback(fd) PROVE \E c : Moves(c)
  <2>1. CASE OnReadable(fd)
    <3>1. PICK c, n : Receive(c, n)
      BY <2>1, Zenon DEF OnReadable
    <3>2. UNCHANGED <<plan, want, peer, inflight, arrived>>
      BY <3>1 DEF Receive
    <3> QED BY <3>2, QuietMoves
  <2>2. CASE ~OnReadable(fd)
    BY <1>1, <1>4, <2>2, Zenon DEF SocketCallback, OnError, OnHangup, OnWritableIdle
  <2> QED BY <2>1, <2>2
<1>5. ASSUME NEW fd \in Fd, FastCgiStart(fd) PROVE \E c : Moves(c)
  BY <1>1, <1>5, Zenon DEF FastCgiStart
<1>6. ASSUME NEW fd \in Fd, FastCgiFails(fd) PROVE \E c : Moves(c)
  <2>1. PICK c \in Conn : c = sock[fd] /\ peer[c] # "none"
    BY <1>6, CallbackFacts, Zenon DEF FastCgiFails
  <2>2. Transmit(c, <<ServerError>>) /\ Len(<<ServerError>>) \in Nat
    BY <1>6, <2>1, Zenon DEF FastCgiFails
  <2> QED BY <2>1, <2>2, TransmitMoves, Zenon
<1>7. CASE FastCgiRelay
  BY <1>7, RelayUnits, TransmitMoves
<1> QED BY <1>2, <1>3, <1>4, <1>5, <1>6, <1>7

\* The descriptor that a failed pipe() closes at random takes the loop out of what is
\* followed, with nothing left to dispatch.
LEMMA StrayPipeKeeps ==
  ASSUME LoopInv, NEW fd, StrayPipe(fd)
  PROVE  LoopInv' /\ \E c : Moves(c)
<1>1. /\ UNCHANGED <<plan, want, unsent, rcv, peer, sent, inflight, arrived>>
      /\ UNCHANGED <<accepted, sock, interest, ed_clients, fds_used, leaked, relay>>
      /\ running' = "stray" /\ DOMAIN batch' = {}
  BY DEF StrayPipe, network, epoll
<1>2. Moves(NoConn)
  BY <1>1, QuietMoves, Zenon DEF LoopInv
<1>3. NetworkOK' /\ PiecesOK' /\ LoopTypeOK' /\ SockDistinct'
  BY <1>1, <1>2, Zenon DEF LoopInv, PiecesOK, LoopTypeOK, SockDistinct, Moves
<1>4. RelayOK'
  BY <1>1 DEF LoopInv, RelayOK, Relaying
<1>5. (\A f \in Fd : RecordOK(f))' /\ (\A f \in DOMAIN batch \cap Fd : EventOK(f))'
  BY <1>1 DEF LoopInv, RecordOK
<1> QED BY <1>2, <1>3, <1>4, <1>5 DEF LoopInv
=============================================================================
