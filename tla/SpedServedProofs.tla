------------------------- MODULE SpedServedProofs ---------------------------
(***************************************************************************)
(* What the clients of web_server are sent and what it costs, for any      *)
(* numbers of clients, descriptors and pages, any sizes of chunks, pages   *)
(* and buffers and any requests, however they are cut: every client is     *)
(* sent the page it asked for, fds_used is the number of descriptors that  *)
(* epoll watches, and only hang-ups and failed FastCGI requests lose one.  *)
(***************************************************************************)
EXTENDS SpedProofs, FiniteSetTheorems

\* What a connection that the server has open, or has closed, has been sent.
OpenSent(f) ==
  \/ sent[sock[f]] = Written(ed_clients[f])
  \/ Gone(sock[f]) /\ IsPrefix(sent[sock[f]], Written(ed_clients[f]))

ClosedSent(c) ==
  /\ IsPrefix(sent[c], Response(want[c].page)) \/ sent[c] \in Errors
  /\ WellFormed(want[c].form) /\ peer[c] = "open"
       => sent[c] = Response(want[c].page) \/ sent[c] \in Errors

SentOK ==
  /\ sent \in [Conn -> Seq(Unit)]
  /\ \A c \in Conn : c > accepted => sent[c] = << >>
  /\ \A f \in Fd : sock[f] # NoConn /\ Staged(sock[f]) => OpenSent(f)
  /\ \A c \in 1..accepted : Staged(c) /\ Closed(c) => ClosedSent(c)

ServedInv == SpedInv /\ Whole_request /\ SentOK
-----------------------------------------------------------------------------
(* The responses: what a client has been sent.                             *)

\* A client whose request is not parsed yet has been sent nothing.
LEMMA NothingWritten ==
  ASSUME NEW client, client.status = "START"
  PROVE  Written(client) = << >>
BY Zenon DEF Written

\* What has been sent on an open connection of a file or CGI page is a part of the
\* response.
LEMMA OpenPrefix ==
  ASSUME SpedInv, SentOK, NEW f \in Fd, sock[f] # NoConn, Staged(sock[f])
  PROVE  /\ sent[sock[f]] \in Seq(Unit)
         /\ IsPrefix(sent[sock[f]], Response(want[sock[f]].page))
         /\ ~ed_clients[f].data => sent[sock[f]] = << >>
<1>1. PICK c \in Conn : c = sock[f] /\ Staged(c)
  <2>1. sock[f] \in 0..accepted /\ accepted \in 0..arrived /\ arrived \in 0..MaxConns
    BY Zenon DEF SpedInv, LoopInv, LoopTypeOK, NetworkOK
  <2> QED BY <2>1, ClientsAssumption DEF Conn, NoConn
<1>2. PICK p \in FilePage \cup CgiPage : p = want[c].page
  BY <1>1 DEF Staged
<1>3. PICK client : client = ed_clients[f]
  OBVIOUS
<1>4. PICK s \in Seq(Unit) : s = sent[c]
  BY DEF SentOK
<1>5. s = Written(client) \/ IsPrefix(s, Written(client))
  BY <1>1, <1>3, <1>4 DEF SentOK, OpenSent
<1>6. Response(p) \in Seq(Unit) /\ << >> \in Seq(Unit)
  BY ResponseSeq, EmptySeq
<1>7. RecordOK(f)
  BY Zenon DEF SpedInv, LoopInv
<1>8. CASE ~client.data
  <2>1. Written(client) = << >>
    BY <1>3, <1>7, <1>8, NothingWritten DEF RecordOK
  <2>2. s = << >>
    BY <1>5, <2>1, PrefixFacts
  <2> QED BY <1>1, <1>2, <1>4, <1>6, <2>2, PrefixFacts
<1>9. CASE client.data
  <2>1. StageOK(client) /\ client.page = p
    BY <1>1, <1>2, <1>3, <1>7, <1>9 DEF SpedInv, StagesOK, RecordOK
  <2>2. PICK t \in Seq(Unit) : t = Written(client) /\ IsPrefix(t, Response(p))
    BY <2>1, WrittenPrefix
  <2>3. IsPrefix(s, Response(p))
    <3>1. CASE s = t
      BY <2>2, <3>1
    <3>2. CASE IsPrefix(s, t)
      BY <1>6, <2>2, <3>2, PrefixFacts
    <3> QED BY <1>5, <2>2, <3>1, <3>2
  <2> QED BY <1>1, <1>2, <1>3, <1>4, <1>9, <2>3
<1> QED BY <1>8, <1>9

\* A step sends to, opens or closes one connection, d, at most.
LEMMA SentKept ==
  ASSUME LoopInv, LoopInv', SentOK, NEW w, Moves(w), NEW d, d \in 0..accepted',
         accepted =< accepted', sent' \in [Conn -> Seq(Unit)],
         \A c \in Conn : c # d => sent'[c] = sent[c],
         \A c \in 1..accepted' : c # d => c =< accepted,
         \A f \in Fd : sock'[f] # d /\ sock'[f] # NoConn =>
           sock'[f] = sock[f] /\ Written(ed_clients'[f]) = Written(ed_clients[f]),
         \A f \in Fd : sock[f] # d /\ sock[f] # NoConn => sock'[f] = sock[f],
         d # NoConn /\ Staged(d)' => /\ \A f \in Fd : sock'[f] = d => OpenSent(f)'
                                     /\ Closed(d)' => ClosedSent(d)'
  PROVE  SentOK'
<1>1. /\ accepted \in 0..arrived /\ arrived \in 0..MaxConns /\ MaxConns \in Nat
      /\ sock \in [Fd -> 0..accepted] /\ accepted' \in 0..arrived' /\ arrived' \in 0..MaxConns
      /\ sock' \in [Fd -> 0..accepted'] /\ peer \in [Conn -> Peers]
      /\ \A c \in 1..arrived : peer[c] # "none"
  BY ClientsAssumption, Zenon DEF LoopInv, LoopTypeOK, NetworkOK
<1>2. ASSUME NEW c \in Conn, c > accepted' PROVE sent'[c] = << >>
  <2>1. c > accepted /\ c # d
    BY <1>1, <1>2 DEF Conn
  <2> QED BY <2>1, Zenon DEF SentOK
<1>3. ASSUME NEW c \in 1..accepted', c # d
      PROVE  /\ c \in Conn /\ c \in 1..accepted /\ want'[c] = want[c] /\ sent'[c] = sent[c]
             /\ Gone(c) => Gone(c)'
             /\ peer'[c] = "open" => peer[c] = "open"
  <2>1. c \in Conn /\ c \in 1..accepted /\ c \in 1..arrived
    BY <1>1, <1>3 DEF Conn
  <2>2. /\ want'[c] = want[c] /\ sent'[c] = sent[c] /\ (Gone(c) => Gone(c)')
    BY <1>3, <2>1, Zenon DEF Moves
  <2>3. peer[c] \in Peers \ {"none"}
    BY <1>1, <2>1
  <2> QED BY <2>1, <2>2, <2>3 DEF Gone, Peers
<1>4. ASSUME NEW f \in Fd, sock'[f] # NoConn, Staged(sock[f])' PROVE OpenSent(f)'
  <2>1. CASE sock'[f] = d
    BY <1>4, <2>1 DEF Staged
  <2>2. CASE sock'[f] # d
    <3>1. PICK c \in 1..accepted' : c = sock'[f]
      BY <1>1, <1>4 DEF NoConn
    <3>2. c = sock[f] /\ Written(ed_clients'[f]) = Written(ed_clients[f])
      BY <1>4, <2>2, <3>1
    <3>3. Staged(c)
      BY <1>3, <1>4, <2>2, <3>1 DEF Staged
    <3>4. OpenSent(f)
      BY <1>4, <3>1, <3>2, <3>3 DEF SentOK
    <3>5. /\ want'[c] = want[c] /\ sent'[c] = sent[c]
          /\ (Gone(c) => Gone(c)') /\ (peer'[c] = "open" => peer[c] = "open")
      BY <1>3, <2>2, <3>1, Zenon
    <3> QED BY <3>1, <3>2, <3>4, <3>5, Zenon DEF OpenSent
  <2> QED BY <2>1, <2>2
<1>5. ASSUME NEW c \in 1..accepted', Staged(c)', Closed(c)' PROVE ClosedSent(c)'
  <2>1. CASE c = d
    BY <1>1, <1>5, <2>1 DEF NoConn
  <2>2. CASE c # d
    <3>1. Staged(c) /\ c \in 1..accepted
      BY <1>3, <1>5, <2>2 DEF Staged
    <3>2. Closed(c)
      BY <1>1, <1>5, <2>2, <3>1 DEF Closed, NoConn
    <3>3. ClosedSent(c)
      BY <3>1, <3>2, Zenon DEF SentOK
    <3> QED BY <1>3, <2>2, <3>3, Zenon DEF ClosedSent
  <2> QED BY <2>1, <2>2
<1> QED BY <1>2, <1>4, <1>5 DEF SentOK

\* send() appends to what one client has been sent, or appends nothing.
LEMMA TransmitSent ==
  ASSUME SentOK, NetworkOK, NEW c \in Conn, peer[c] # "none", NEW out \in Seq(Unit),
         Transmit(c, out)
  PROVE  /\ sent' \in [Conn -> Seq(Unit)] /\ \A e \in Conn : e # c => sent'[e] = sent[e]
         /\ Gone(c) => sent'[c] = sent[c]
         /\ peer[c] = "open" /\ Room(c) >= Len(out) => sent'[c] = sent[c] \o out
<1>1. PICK s \in Seq(Unit) : s = sent[c]
  BY DEF SentOK
<1>2. PICK n : n = Least(Len(out), Room(c))
  OBVIOUS
<1>3. /\ sent \in [Conn -> Seq(Unit)] /\ inflight[c] \in 0..SNDBUF /\ SNDBUF \in Nat
      /\ Len(out) \in Nat
  BY LenProperties, ClientsAssumption DEF SentOK, NetworkOK
<1>4. n \in 0..Len(out) /\ (Room(c) >= Len(out) => n = Len(out))
  BY <1>2, <1>3 DEF Least, Room
<1>5. PICK u \in Seq(Unit) : u = SubSeq(out, 1, n) /\ (n = Len(out) => u = out)
  <2>1. SubSeq(out, 1, n) \in Seq(Unit)
    <3>1. \A i \in 1..n : out[i] \in Unit
      BY <1>3, <1>4, ElementOfSeq
    <3> QED BY <1>3, <1>4, <3>1, SubSeqProperties
  <2>2. SubSeq(out, 1, Len(out)) = out
    BY SubSeqFull
  <2> QED BY <2>1, <2>2, Zenon
<1>6. s \o u \in Seq(Unit) /\ s \o << >> = s
  BY ConcatProperties, ConcatEmptySeq
<1>7. CASE out = << >> /\ sent' = sent
  BY <1>1, <1>3, <1>6, <1>7
<1>8. CASE peer[c] = "open" /\ sent' = [sent EXCEPT ![c] = s \o u]
  <2>1. /\ sent' \in [Conn -> Seq(Unit)] /\ sent'[c] = s \o u
        /\ \A e \in Conn : e # c => sent'[e] = sent[e]
    BY <1>3, <1>6, <1>8
  <2>2. ~Gone(c)
    BY <1>8 DEF Gone
  <2> QED BY <1>1, <1>4, <1>5, <2>1, <2>2, Zenon
<1>9. CASE peer[c] # "open" /\ sent' = sent
  BY <1>3, <1>9
<1>10. \/ out = << >> /\ sent' = sent
       \/ peer[c] = "open" /\ sent' = [sent EXCEPT ![c] = s \o u]
       \/ peer[c] # "open" /\ sent' = sent
  <2>1. [sent EXCEPT ![c] = @ \o SubSeq(out, 1, n)] = [sent EXCEPT ![c] = s \o u]
    BY <1>1, <1>5
  <2> QED BY <1>2, <2>1, Zenon DEF Transmit
<1> QED BY <1>7, <1>8, <1>9, <1>10

\* A part of an error is nothing or the error.
LEMMA ErrorPrefix ==
  ASSUME NEW s \in Seq(Unit), NEW t \in Errors, IsPrefix(s, t)
  PROVE  s = << >> \/ s = t
<1>1. t \in Seq(Unit) /\ Len(t) = 1 /\ SubSeq(t, 1, 1) = t
  <2>1. t \in Seq(Unit)
    BY OneUnit, Zenon DEF Errors
  <2>2. Len(t) = 1
    BY DEF Errors
  <2> QED BY <2>1, <2>2, SubSeqFull
<1>2. Len(s) \in Nat /\ SubSeq(s, 1, Len(s)) = s
  BY LenProperties, SubSeqFull
<1>3. Len(s) =< 1 /\ SubSeq(s, 1, Len(s)) = SubSeq(t, 1, Len(s))
  BY <1>1 DEF IsPrefix
<1>4. CASE Len(s) = 0
  BY <1>4, EmptySeq
<1>5. CASE Len(s) = 1
  BY <1>1, <1>2, <1>3, <1>5
<1> QED BY <1>2, <1>3, <1>4, <1>5

\* The kernel reports EPOLLOUT only when a chunk fits.
LEMMA ChunkFits ==
  ASSUME NEW n \in Nat, n =< CHUNK, NEW room \in Int, room >= LOWAT
  PROVE  room >= n
BY LoopAssumption, PagesAssumption

\* After a stage the client has been sent all that the stages so far wrote, or it is
\* gone: EPOLLOUT was reported, so there is room for a chunk.
LEMMA StageSent ==
  ASSUME SpedInv, SentOK, NEW fd \in Fd, NEW out \in Seq(Unit), Len(out) =< CHUNK,
         Callback(fd, "OUT"), Staged(sock[fd]), Transmit(sock[fd], out),
         NEW t \in Seq(Unit), t = Written(ed_clients[fd])
  PROVE  /\ sent' \in [Conn -> Seq(Unit)] /\ \A e \in Conn : e # sock[fd] => sent'[e] = sent[e]
         /\ \/ sent'[sock[fd]] = t \o out
            \/ Gone(sock[fd]) /\ IsPrefix(sent'[sock[fd]], t \o out)
<1>1. PICK c \in Conn : c = sock[fd] /\ c \in 1..accepted /\ peer[c] # "none" /\ c # NoConn
  <2>1. sock[fd] \in 1..accepted /\ sock[fd] \in Conn /\ peer[sock[fd]] # "none"
    BY CallbackFacts DEF SpedInv
  <2> QED BY <2>1 DEF NoConn, Conn
<1>2. Gone(c) \/ Room(c) >= LOWAT
  BY <1>1, CallbackFacts, Zenon DEF SpedInv
<1>3. PICK s \in Seq(Unit) : s = sent[c]
  BY DEF SentOK
<1>4. s = t \/ (Gone(c) /\ IsPrefix(s, t))
  BY <1>1, <1>3, Zenon DEF SentOK, OpenSent
<1>5. /\ sent' \in [Conn -> Seq(Unit)] /\ \A e \in Conn : e # c => sent'[e] = sent[e]
      /\ Gone(c) => sent'[c] = sent[c]
      /\ peer[c] = "open" /\ Room(c) >= Len(out) => sent'[c] = sent[c] \o out
  BY <1>1, TransmitSent, Zenon DEF SpedInv, LoopInv
<1>6. t \o out \in Seq(Unit) /\ IsPrefix(t, t \o out)
  BY ConcatProperties, PrefixFacts, Zenon
<1>7. CASE Gone(c)
  <2>1. IsPrefix(s, t)
    BY <1>4, PrefixFacts
  <2>2. IsPrefix(s, t \o out)
    BY <1>6, <2>1, PrefixFacts, Zenon
  <2> QED BY <1>1, <1>3, <1>5, <1>7, <2>2
<1>8. CASE ~Gone(c)
  <2>1. peer[c] \in Peers
    BY Zenon DEF SpedInv, LoopInv, NetworkOK
  <2>2. peer[c] = "open"
    BY <1>1, <1>8, <2>1 DEF Gone, Peers
  <2>3. Room(c) >= Len(out)
    <3>1. inflight[c] \in 0..SNDBUF
      BY DEF SpedInv, LoopInv, NetworkOK
    <3>2. Len(out) \in Nat
      BY LenProperties
    <3>3. Room(c) \in Int
      BY <3>1, ClientsAssumption DEF Room
    <3> QED BY <1>2, <1>8, <3>2, <3>3, ChunkFits
  <2> QED BY <1>1, <1>3, <1>4, <1>5, <1>8, <2>2, <2>3, Zenon
<1> QED BY <1>7, <1>8, Zenon

\* A stage of a response: the client has been sent what the stage that is reached
\* says, and the whole response or an error when it is the last one.
LEMMA WritableSent ==
  ASSUME SpedInv, SpedInv', SentOK, NEW w, Moves(w), NEW fd \in Fd, OnWritable(fd)
  PROVE  SentOK'
<1>1. PICK stage :
        /\ Respond(fd, stage) /\ StageDone(ed_clients[fd], stage) /\ Callback(fd, "OUT")
        /\ StageOK(ed_clients[fd]) /\ ed_clients[fd].page \in FilePage \cup CgiPage
        /\ ed_clients[fd].page = want[sock[fd]].page
  BY OnWritableStage, Zenon
<1>2. PICK c \in Conn : c = sock[fd] /\ c \in 1..accepted /\ c \in 1..arrived /\ c # NoConn
  <2>1. sock[fd] \in 1..accepted /\ sock[fd] \in Conn /\ sock[fd] \in 1..arrived
    BY <1>1, CallbackFacts, Zenon DEF SpedInv
  <2> QED BY <2>1 DEF NoConn, Conn
<1>3. PICK out \in Seq(Unit) : out = stage.out /\ Len(out) =< CHUNK
  BY <1>1, Zenon DEF StageDone
<1>4. PICK t \in Seq(Unit) : t = Written(ed_clients[fd])
  BY <1>1, WrittenPrefix, Zenon
<1>5. Staged(c) /\ Transmit(sock[fd], out)
  BY <1>1, <1>2, <1>3, Zenon DEF Staged, Respond
<1>6. PICK s \in Seq(Unit) :
        /\ s = sent'[c]
        /\ s = t \o out \/ (Gone(c) /\ IsPrefix(s, t \o out))
        /\ sent' \in [Conn -> Seq(Unit)] /\ \A e \in Conn : e # c => sent'[e] = sent[e]
  <2>1. /\ sent' \in [Conn -> Seq(Unit)] /\ \A e \in Conn : e # c => sent'[e] = sent[e]
        /\ sent'[c] = t \o out \/ (Gone(c) /\ IsPrefix(sent'[c], t \o out))
    BY <1>1, <1>2, <1>3, <1>4, <1>5, StageSent, Zenon
  <2> QED BY <2>1
<1>7. want'[c] = want[c] /\ (Gone(c) => Gone(c)')
  BY <1>2 DEF Moves
<1>8. /\ SockDistinct /\ sock \in [Fd -> 0..accepted] /\ accepted \in Nat
      /\ ed_clients \in [Fd -> ClientRecord]
  BY LoopFacts, Zenon DEF SpedInv
<1>9. /\ accepted' = accepted /\ c \in 0..accepted' /\ accepted =< accepted'
      /\ \A e \in 1..accepted' : e =< accepted
  <2>1. accepted' = accepted
    BY <1>1, Zenon DEF Respond
  <2> QED BY <1>2, <1>8, <2>1
<1>10. \A f \in Fd \ {fd} : sock[f] # c
  BY <1>2, <1>8, Zenon DEF SockDistinct
<1>11. CASE stage.client.status # "FINISH"
  <2>1. /\ sock' = sock /\ ed_clients' = [ed_clients EXCEPT ![fd] = stage.client]
        /\ Written(stage.client) = t \o out
    BY <1>1, <1>3, <1>4, <1>11, Zenon DEF Respond, StageDone
  <2>2. ed_clients'[fd] = stage.client /\ \A f \in Fd \ {fd} : ed_clients'[f] = ed_clients[f]
    BY <1>8, <2>1
  <2>3. OpenSent(fd)'
    BY <1>2, <1>6, <1>7, <2>1, <2>2, Zenon DEF OpenSent, Gone
  <2>4. ~Closed(c)' /\ \A f \in Fd : sock'[f] = c => f = fd
    BY <1>2, <1>10, <2>1 DEF Closed
  <2>5. \A f \in Fd : sock'[f] # c /\ sock'[f] # NoConn =>
          sock'[f] = sock[f] /\ Written(ed_clients'[f]) = Written(ed_clients[f])
    BY <1>2, <2>1, <2>2
  <2> QED BY <1>6, <1>8, <1>9, <2>1, <2>3, <2>4, <2>5, SentKept, Zenon DEF SpedInv
<1>12. CASE stage.client.status = "FINISH"
  <2>1. /\ sock' = [sock EXCEPT ![fd] = NoConn] /\ ed_clients' = [ed_clients EXCEPT ![fd] = Cleared]
        /\ t \o out = Response(want[c].page) \/ t \o out \in Errors
    BY <1>1, <1>2, <1>3, <1>4, <1>12, Zenon DEF Respond, StageDone, ed_epoll_del
  <2>2. /\ sock'[fd] = NoConn
        /\ \A f \in Fd \ {fd} : sock'[f] = sock[f] /\ ed_clients'[f] = ed_clients[f]
    BY <1>8, <2>1
  <2>3. \A f \in Fd : sock'[f] # c
    BY <1>2, <1>10, <2>2, Zenon
  <2>4. \A f \in Fd : /\ sock'[f] # c /\ sock'[f] # NoConn =>
                          sock'[f] = sock[f] /\ Written(ed_clients'[f]) = Written(ed_clients[f])
                      /\ sock[f] # c => sock'[f] = sock[f]
    BY <1>2, <2>2
  <2>5. PICK p \in FilePage \cup CgiPage : p = want[c].page
    BY <1>5 DEF Staged
  <2>6. s = Response(p) \/ s \in Errors \/ (Gone(c) /\ IsPrefix(s, Response(p)))
    <3>1. CASE s = t \o out
      BY <2>1, <2>5, <3>1
    <3>2. CASE Gone(c) /\ IsPrefix(s, t \o out) /\ t \o out \in Errors
      <4>1. s = << >> \/ s = t \o out
        BY <3>2, ErrorPrefix, Zenon
      <4>2. IsPrefix(<< >>, Response(p))
        BY ResponseSeq, PrefixFacts
      <4> QED BY <3>2, <4>1, <4>2, Zenon
    <3>3. CASE Gone(c) /\ IsPrefix(s, t \o out) /\ t \o out = Response(p)
      BY <3>3
    <3> QED BY <1>6, <2>1, <2>5, <3>1, <3>2, <3>3, Zenon
  <2>7. IsPrefix(Response(p), Response(p))
    BY ResponseSeq, PrefixFacts
  <2>8. ClosedSent(c)'
    <3>1. want'[c].page = p /\ sent'[c] = s
      BY <1>6, <1>7, <2>5
    <3>2. CASE s = Response(p) \/ s \in Errors
      BY <2>7, <3>1, <3>2 DEF ClosedSent
    <3>3. CASE Gone(c) /\ IsPrefix(s, Response(p))
      BY <1>7, <3>1, <3>3 DEF ClosedSent, Gone
    <3> QED BY <2>6, <3>2, <3>3, Zenon
  <2> QED BY <1>6, <1>8, <1>9, <2>3, <2>4, <2>8, SentKept, Zenon DEF SpedInv
<1> QED BY <1>11, <1>12

\* A step that sends to d, or closes it, when d is no client of a file or CGI page, or
\* closes it with the response that ClosedSent allows.
LEMMA CloseSent ==
  ASSUME SpedInv, SpedInv', SentOK, NEW w, Moves(w), NEW fd \in Fd, NEW d \in 1..accepted,
         d = sock[fd], UNCHANGED accepted, sent' \in [Conn -> Seq(Unit)],
         \A c \in Conn : c # d => sent'[c] = sent[c],
         \/ \E lost : ed_epoll_del(fd, lost)
         \/ UNCHANGED <<sock, ed_clients>> /\ ~Staged(d),
         Staged(d) => ClosedSent(d)'
  PROVE  SentOK'
<1>1. /\ SockDistinct /\ sock \in [Fd -> 0..accepted] /\ accepted \in 0..arrived
      /\ arrived \in 0..MaxConns /\ ed_clients \in [Fd -> ClientRecord]
  BY Zenon DEF SpedInv, LoopInv, LoopTypeOK, NetworkOK
<1>2. d # NoConn /\ d \in 1..arrived /\ d \in 0..accepted' /\ accepted =< accepted'
      /\ \A e \in 1..accepted' : e =< accepted
  <2>1. d # NoConn /\ d \in 1..arrived /\ d \in 0..accepted /\ accepted \in Nat
    BY LoopFacts, Zenon DEF SpedInv
  <2> QED BY <2>1
<1>3. Staged(d)' <=> Staged(d)
  BY <1>2, Zenon DEF Moves, Staged
<1>4. \A f \in Fd \ {fd} : sock[f] # d
  BY <1>1, <1>2, Zenon DEF SockDistinct
<1>5. /\ sock'[fd] \in {d, NoConn} /\ (sock'[fd] = d => ~Staged(d))
      /\ \A f \in Fd \ {fd} : sock'[f] = sock[f] /\ ed_clients'[f] = ed_clients[f]
  BY <1>1, <1>2 DEF ed_epoll_del
<1>6. \A f \in Fd : /\ sock'[f] # d /\ sock'[f] # NoConn =>
                        sock'[f] = sock[f] /\ Written(ed_clients'[f]) = Written(ed_clients[f])
                    /\ sock[f] # d => sock'[f] = sock[f]
  BY <1>5
<1>7. Staged(d)' => \A f \in Fd : sock'[f] # d
  BY <1>2, <1>3, <1>4, <1>5
<1> QED BY <1>2, <1>3, <1>6, <1>7, SentKept, Zenon DEF SpedInv

\* A connection that its client gave up, or whose request is illegal.
LEMMA HangupSent ==
  ASSUME SpedInv, SpedInv', SentOK, NEW w, Moves(w), NEW fd \in Fd, NEW c \in 1..accepted,
         c = sock[fd], UNCHANGED <<accepted, sent>>, NEW lost, ed_epoll_del(fd, lost),
         Gone(c) \/ ~WellFormed(want[c].form)
  PROVE  SentOK'
<1>1. /\ accepted \in 0..arrived /\ arrived \in 0..MaxConns
      /\ sent' \in [Conn -> Seq(Unit)] /\ \A e \in Conn : sent'[e] = sent[e]
  BY Zenon DEF SpedInv, LoopInv, LoopTypeOK, NetworkOK, SentOK
<1>2. c # NoConn /\ c \in 1..arrived /\ c \in Conn
  BY <1>1, ClientsAssumption DEF NoConn, Conn
<1>3. want'[c] = want[c] /\ (Gone(c) => Gone(c)') /\ sent'[c] = sent[c]
  BY <1>1, <1>2, Zenon DEF Moves
<1>4. ASSUME Staged(c) PROVE ClosedSent(c)'
  <2>1. IsPrefix(sent[c], Response(want[c].page))
    BY <1>2, <1>4, OpenPrefix
  <2> QED BY <1>3, <2>1, Zenon DEF ClosedSent, Gone
<1> QED BY <1>1, <1>4, CloseSent

\* SentOK after every step.
LEMMA SentStep ==
  ASSUME SpedInv, SpedInv', Whole_request, SentOK, [Next]_vars
  PROVE  SentOK'
<1>0. /\ accepted \in 0..arrived /\ arrived \in 0..MaxConns /\ MaxConns \in Nat
      /\ accepted \in Nat /\ sock \in [Fd -> 0..accepted] /\ ed_clients \in [Fd -> ClientRecord]
      /\ sent \in [Conn -> Seq(Unit)] /\ \A f \in Fd : RecordOK(f)
  BY LoopFacts, Zenon DEF SpedInv, SentOK
<1>1. PICK w : Moves(w)
  BY SpedMoves DEF SpedInv
<1>2. ASSUME UNCHANGED <<accepted, sock, sent>>,
             \A f \in Fd : Written(ed_clients'[f]) = Written(ed_clients[f])
      PROVE  SentOK'
  <2>1. /\ NoConn \in 0..accepted' /\ accepted =< accepted' /\ sent' \in [Conn -> Seq(Unit)]
        /\ \A c \in 1..accepted' : c =< accepted
    BY <1>0, <1>2 DEF NoConn
  <2> QED BY <1>1, <1>2, <2>1, SentKept, Zenon DEF SpedInv
<1>3. CASE \/ UNCHANGED vars \/ ClientStep \/ EpollWait(<< >>) \/ StartAccepting \/ StopAccepting
           \/ \E fd \in Fd : OnError(fd) \/ FastCgiStart(fd) \/ StrayPipe(fd)
  <2>1. CASE ClientStep
    <3>1. UNCHANGED loop /\ UNCHANGED sent
      BY <2>1 DEF ClientStep, Connect, ClientSend, ClientRead, ClientClose
    <3> QED BY <1>2, <3>1, Zenon DEF loop, epoll
  <2>2. CASE \/ UNCHANGED vars \/ EpollWait(<< >>) \/ StartAccepting \/ StopAccepting
             \/ \E fd \in Fd : OnError(fd) \/ FastCgiStart(fd) \/ StrayPipe(fd)
    <3>1. UNCHANGED <<accepted, sock, ed_clients, sent>>
      BY <2>2 DEF vars, network, loop, epoll, EpollWait, StartAccepting, StopAccepting,
                  OnError, FastCgiStart, StrayPipe
    <3> QED BY <1>2, <3>1, Zenon
  <2> QED BY <1>3, <2>1, <2>2
<1>4. ASSUME NEW fd \in Fd, OnWritableIdle(fd) PROVE SentOK'
  <2>1. /\ ed_clients' = [ed_clients EXCEPT ![fd] = [ed_clients[fd] EXCEPT !.data = FALSE]]
        /\ UNCHANGED <<accepted, sock, sent>>
    BY <1>4 DEF OnWritableIdle, ed_epoll_set, network
  <2>2. ed_clients'[fd].status = "START" /\ ed_clients[fd].status = "START"
    BY <1>0, <1>4, <2>1 DEF ClientRecord, RecordOK, OnWritableIdle
  <2>3. \A f \in Fd \ {fd} : ed_clients'[f] = ed_clients[f]
    BY <1>0, <2>1
  <2>4. \A f \in Fd : Written(ed_clients'[f]) = Written(ed_clients[f])
    BY <2>2, <2>3, NothingWritten, Zenon
  <2> QED BY <1>2, <2>1, <2>4, Zenon
<1>5. CASE AcceptOne
  <2>1. PICK fd \in Fd : /\ sock[fd] = NoConn /\ sock' = [sock EXCEPT ![fd] = accepted + 1]
                         /\ ed_epoll_add(fd)
    BY <1>5, Zenon DEF AcceptOne
  <2>2. accepted' = accepted + 1 /\ sent' = sent
    BY <1>5 DEF AcceptOne, network
  <2>3. PICK d \in Conn : d = accepted + 1 /\ d # NoConn
    BY <1>0, <1>5 DEF AcceptOne, Conn, NoConn
  <2>4. \A f \in Fd : sock[f] # d
    BY <1>0, <2>3
  <2>5. /\ \A f \in Fd \ {fd} : ed_clients'[f] = ed_clients[f] /\ sock'[f] = sock[f]
        /\ sock'[fd] = d
    BY <1>0, <2>1, <2>3 DEF ed_epoll_add, epoll
  <2>6. ed_clients'[fd].status = "START"
    <3>1. ed_clients[fd] = Cleared
      BY <1>0, <2>1, Zenon DEF RecordOK
    <3> QED BY <1>0, <2>1, <3>1 DEF ed_epoll_add, epoll, Cleared, ClientRecord
  <2>7. OpenSent(fd)'
    <3>1. sent[d] = << >>
      BY <1>0, <2>3 DEF SentOK
    <3> QED BY <2>2, <2>5, <2>6, <3>1, NothingWritten, Zenon DEF OpenSent
  <2>8. ~Closed(d)'
    BY <2>5 DEF Closed
  <2>9. /\ d \in 0..accepted' /\ accepted =< accepted' /\ sent' \in [Conn -> Seq(Unit)]
        /\ \A c \in 1..accepted' : c # d => c =< accepted
    BY <1>0, <2>2, <2>3 DEF Conn
  <2>10. \A f \in Fd : /\ sock'[f] # d =>
                            sock'[f] = sock[f] /\ Written(ed_clients'[f]) = Written(ed_clients[f])
                       /\ sock[f] # NoConn => sock'[f] = sock[f]
                       /\ sock'[f] = d => f = fd
    BY <2>1, <2>4, <2>5
  <2> QED BY <1>1, <2>2, <2>7, <2>8, <2>9, <2>10, SentKept DEF SpedInv
<1>6. ASSUME NEW fd \in Fd, OnHangup(fd) PROVE SentOK'
  <2>1. PICK c \in 1..accepted : c = sock[fd] /\ Gone(c)
    BY <1>6, CallbackFacts, Zenon DEF SpedInv, OnHangup
  <2>2. UNCHANGED <<accepted, sent>> /\ \E lost : ed_epoll_del(fd, lost)
    BY <1>6 DEF OnHangup, network
  <2> QED BY <1>1, <2>1, <2>2, HangupSent
<1>7. ASSUME NEW fd \in Fd, OnReadable(fd) PROVE SentOK'
  <2>1. PICK c \in Conn, buffer \in Seq(Fragment) :
          /\ c = sock[fd] /\ c \in 1..accepted
          /\ buffer = ed_clients[fd].buffer \o SubSeq(rcv[c], 1,
                        Least(Max_read(ed_clients[fd]), Len(rcv[c])))
          /\ buffer \o Pieces(c)' = want[c].form /\ Pieces(c)' \in Seq(Fragment)
          /\ sent' = sent
    BY <1>7, ReadPieces, Zenon DEF SpedInv
  <2>2. UNCHANGED accepted
    BY <1>7, Zenon DEF OnReadable
  <2>3. PICK client \in ClientRecord : client = ed_clients[fd] /\ client.status = "START"
    <3>1. ~ed_clients[fd].data
      BY <1>7, CallbackFacts, Zenon DEF SpedInv, OnReadable
    <3> QED BY <1>0, <3>1 DEF RecordOK
  <2>4. PICK read : read = [client EXCEPT !.buffer = buffer]
    BY Zenon
  <2>5. ASSUME NEW next, next.status = "START",
               ed_clients' = [ed_clients EXCEPT ![fd] = next], sock' = sock
        PROVE  SentOK'
    <3>1. ed_clients'[fd] = next /\ \A f \in Fd \ {fd} : ed_clients'[f] = ed_clients[f]
      BY <1>0, <2>5
    <3>2. \A f \in Fd : Written(ed_clients'[f]) = Written(ed_clients[f])
      BY <2>3, <2>5, <3>1, NothingWritten
    <3> QED BY <1>2, <2>1, <2>2, <2>5, <3>2, Zenon
  <2>6. CASE /\ ed_epoll_set(fd, "OUT", [read EXCEPT !.page = want[sock[fd]].page], TRUE)
             /\ UNCHANGED <<sock, leaked>>
    <3>1. PICK next : next = [[read EXCEPT !.page = want[sock[fd]].page] EXCEPT !.data = TRUE]
      OBVIOUS
    <3>2. next.status = "START"
      BY <2>3, <2>4, <3>1 DEF ClientRecord
    <3> QED BY <2>5, <2>6, <3>1, <3>2, Zenon DEF ed_epoll_set
  <2>7. CASE /\ ~process_http_request(buffer) /\ buffer # << >> /\ Last(buffer) \in {"eol", "lf"}
             /\ ed_epoll_del(fd, client.fp # NULL)
    <3>1. PICK rest \in Seq(Fragment) : rest = Pieces(c)'
      BY <2>1, Zenon
    <3>2. ~WellFormed(buffer \o rest)
      BY <2>7, NeverIllegal
    <3>3. ~WellFormed(want[c].form)
      BY <2>1, <3>1, <3>2, Zenon
    <3>4. PICK lost : ed_epoll_del(fd, lost)
      BY <2>7
    <3> QED BY <1>1, <2>1, <2>2, <3>3, <3>4, HangupSent, Zenon
  <2>8. CASE /\ ed_clients' = [ed_clients EXCEPT ![fd] = read]
             /\ UNCHANGED <<interest, fds_used, sock, leaked>>
    <3>1. read.status = "START"
      BY <2>3, <2>4, Zenon DEF ClientRecord
    <3> QED BY <2>5, <2>8, <3>1, Zenon
  <2> QED BY <1>7, <2>1, <2>3, <2>4, <2>6, <2>7, <2>8, Zenon DEF OnReadable
<1>8. ASSUME NEW fd \in Fd, FastCgiFails(fd) PROVE SentOK'
  <2>1. /\ Callback(fd, "OUT") /\ ed_clients[fd].data /\ ed_clients[fd].page \in FastCgiPage
        /\ Transmit(sock[fd], <<ServerError>>) /\ UNCHANGED accepted
        /\ \E lost : ed_epoll_del(fd, lost)
    BY <1>8, Zenon DEF FastCgiFails, FastCgiRequested
  <2>2. PICK c \in Conn : c = sock[fd] /\ c \in 1..accepted /\ peer[c] # "none"
    BY <2>1, CallbackFacts, Zenon DEF SpedInv
  <2>3. ~Staged(c)
    BY <1>0, <2>1, <2>2, PagesAssumption, Zenon DEF RecordOK, Staged
  <2>4. sent' \in [Conn -> Seq(Unit)] /\ \A e \in Conn : e # c => sent'[e] = sent[e]
    BY <2>1, <2>2, OneUnit, TransmitSent, Zenon DEF SpedInv, LoopInv
  <2> QED BY <1>1, <2>1, <2>2, <2>3, <2>4, CloseSent
<1>9. CASE FastCgiRelay \/ FastCgiEnd
  <2>1. Relaying
    BY <1>9, Zenon DEF FastCgiRelay, FastCgiEnd, Relaying
  <2>2. PICK fd \in Fd, c \in Conn, p \in Page, k \in Nat :
          /\ fd = relay.fd /\ c = sock[fd] /\ c \in 1..accepted /\ peer[c] # "none"
          /\ p = ed_clients[fd].page /\ p = want[c].page
          /\ k = relay.done /\ k =< Size[p] /\ Size[p] \in Nat
    BY <2>1, RelayClient, Zenon DEF SpedInv
  <2>3. ~Staged(c)
    BY <2>1, <2>2, PagesAssumption DEF SpedInv, StagesOK, Staged
  <2>4. CASE FastCgiRelay
    <3>1. PICK n : n = Least(CHUNK, Size[p] - k)
      BY Zenon
    <3>2. n \in Nat
      <4>1. Size[p] - k \in Nat
        BY <2>2
      <4> QED BY <3>1, <4>1, PagesAssumption, Zenon DEF Least
    <3>3. PICK out \in Seq(Unit) : out = Units(p, k, n)
      BY <3>2, UnitsSeq
    <3>4. Transmit(c, out) /\ UNCHANGED <<accepted, sock, ed_clients>>
      BY <2>2, <2>4, <3>1, <3>3, Zenon DEF FastCgiRelay, epoll
    <3>5. sent' \in [Conn -> Seq(Unit)] /\ \A e \in Conn : e # c => sent'[e] = sent[e]
      BY <2>2, <3>4, TransmitSent DEF SpedInv, LoopInv
    <3> QED BY <1>1, <2>2, <2>3, <3>4, <3>5, CloseSent, Zenon
  <2>5. CASE FastCgiEnd
    <3>1. UNCHANGED <<accepted, sent>> /\ ed_epoll_del(fd, FALSE)
      BY <2>2, <2>5, Zenon DEF FastCgiEnd, network
    <3> QED BY <1>0, <1>1, <2>2, <2>3, <3>1, CloseSent, Zenon
  <2> QED BY <1>9, <2>4, <2>5
<1>10. ASSUME NEW fd \in Fd, OnWritable(fd) PROVE SentOK'
  BY <1>1, <1>10, WritableSent
<1> QED
  BY <1>3, <1>4, <1>5, <1>6, <1>7, <1>8, <1>9, <1>10
     DEF Next, ServerStep, Timeout, AcceptCallback, SocketCallback

\* ServedInv holds at the start and after every step.
LEMMA ServedInvariant == Spec => []ServedInv
<1>1. Init => ServedInv
  <2> SUFFICES ASSUME Init PROVE ServedInv
    OBVIOUS
  <2>1. /\ sock = [fd \in Fd |-> NoConn] /\ interest = [fd \in Fd |-> {}] /\ accepted = 0
        /\ arrived = 0 /\ rcv = [c \in Conn |-> << >>] /\ sent = [c \in Conn |-> << >>]
    BY DEF Init, LoopInit, NetworkInit
  <2>2. Whole_request
    BY <2>1 DEF Whole_request, Conn
  <2>3. SentOK
    BY <2>1, EmptySeq DEF SentOK
  <2> QED BY <2>2, <2>3, SpedInitOK DEF ServedInv
<1>2. ServedInv /\ [Next]_vars => ServedInv'
  <2> SUFFICES ASSUME ServedInv, [Next]_vars PROVE ServedInv'
    OBVIOUS
  <2>1. SpedInv'
    BY SpedNextOK DEF ServedInv
  <2>2. Whole_request'
    BY <2>1, RequestStep DEF ServedInv
  <2>3. SentOK'
    BY <2>1, SentStep DEF ServedInv
  <2> QED BY <2>1, <2>2, <2>3 DEF ServedInv
<1> QED BY <1>1, <1>2, PTL DEF Spec

\* Whatever the order of connections, fragments, callbacks and hang-ups, and however
\* often a descriptor and its record are used again: a client of a file or CGI page
\* is sent units of that page, in order and without a gap, or one error, and the
\* whole of it if it stays and its request is well-formed.
THEOREM SpedPagesWhole == Spec => []PagesSentWhole
<1>1. ServedInv => PagesSentWhole
  <2> SUFFICES ASSUME ServedInv, NEW c \in Conn, Staged(c)
               PROVE  /\ IsPrefix(sent[c], Response(want[c].page)) \/ sent[c] \in Errors
                      /\ WellFormed(want[c].form) /\ Closed(c) /\ peer[c] = "open"
                           => sent[c] = Response(want[c].page) \/ sent[c] \in Errors
    BY DEF PagesSentWhole
  <2>1. SpedInv /\ SentOK
    BY Zenon DEF ServedInv
  <2>2. accepted \in 0..arrived /\ arrived \in 0..MaxConns /\ MaxConns \in Nat
    BY <2>1, ClientsAssumption, Zenon DEF SpedInv, LoopInv, LoopTypeOK, NetworkOK
  <2>3. CASE c > accepted
    <3>1. sent[c] = << >> /\ ~Closed(c)
      BY <2>1, <2>2, <2>3 DEF SentOK, Closed, Conn
    <3>2. IsPrefix(<< >>, Response(want[c].page))
      BY ResponseSeq, PrefixFacts DEF Staged
    <3> QED BY <3>1, <3>2
  <2>4. CASE c =< accepted /\ Closed(c)
    <3>1. c \in 1..accepted
      BY <2>2, <2>4 DEF Conn
    <3>2. ClosedSent(c)
      BY <2>1, <2>4, <3>1 DEF SentOK
    <3> QED BY <3>2, Zenon DEF ClosedSent
  <2>5. CASE c =< accepted /\ ~Closed(c)
    <3>1. PICK f \in Fd : sock[f] = c
      BY <2>5 DEF Closed
    <3>2. c # NoConn
      BY DEF Conn, NoConn
    <3> QED BY <2>1, <2>5, <3>1, <3>2, OpenPrefix, Zenon
  <2> QED BY <2>2, <2>3, <2>4, <2>5 DEF Conn
<1> QED BY <1>1, ServedInvariant, PTL
-----------------------------------------------------------------------------
(* The descriptors, counted.                                               *)

\* The connections that may each have cost a descriptor.
Costly == {c \in 1..accepted : Closed(c) /\ (Gone(c) \/ want[c].page \in FastCgiPage)}

Counted == leaked =< Cardinality(Costly)

CountInv == SpedInv /\ FdsUsedCounted /\ Counted

\* A connection that has cost a descriptor stays one that has.
LEMMA CostlyKept ==
  ASSUME LoopInv, LoopInv', NEW w, Moves(w), accepted =< accepted',
         \A f \in Fd : sock'[f] \in {sock[f], NoConn} \/ sock'[f] = accepted + 1
  PROVE  /\ Costly \subseteq Costly'
         /\ IsFiniteSet(Costly) /\ IsFiniteSet(Costly')
         /\ Cardinality(Costly) \in Nat /\ Cardinality(Costly') \in Nat
         /\ Cardinality(Costly) =< Cardinality(Costly')
<1>1. accepted \in 0..arrived /\ arrived \in 0..MaxConns /\ accepted' \in Nat
  <2>1. accepted' \in 0..arrived' /\ arrived' \in 0..MaxConns /\ MaxConns \in Nat
    BY ClientsAssumption, Zenon DEF LoopInv, LoopTypeOK, NetworkOK
  <2> QED BY <2>1, LoopFacts
<1>2. ASSUME NEW c \in Costly PROVE c \in Costly'
  <2>1. c \in 1..accepted /\ c \in 1..arrived /\ c \in Conn /\ c \in 1..accepted'
    BY <1>1, ClientsAssumption DEF Costly, Conn
  <2>2. (\A f \in Fd : sock[f] # c) /\ (Gone(c) \/ want[c].page \in FastCgiPage)
    BY DEF Costly, Closed
  <2>3. \A f \in Fd : sock'[f] # c
    BY <1>1, <2>1, <2>2 DEF NoConn
  <2>4. Gone(c)' \/ want'[c].page \in FastCgiPage
    BY <2>1, <2>2 DEF Moves
  <2>5. Closed(c)'
    BY <1>1, <2>1, <2>3 DEF Closed
  <2> QED BY <2>1, <2>4, <2>5 DEF Costly
<1>3. Costly \subseteq Costly'
  BY <1>2
<1>4. IsFiniteSet(1..accepted) /\ IsFiniteSet(1..accepted')
  BY <1>1, FS_Interval
<1>5. Costly \in SUBSET (1..accepted) /\ Costly' \in SUBSET (1..accepted')
  BY DEF Costly
<1>6. IsFiniteSet(Costly) /\ IsFiniteSet(Costly')
  BY <1>4, <1>5, FS_Subset, Zenon
<1> QED BY <1>3, <1>6, FS_Subset, FS_CardinalityType, Zenon

\* The descriptors that epoll watches.
Watched == {fd \in Fd : interest[fd] # {}}

\* What the invariant says of the counts, and of the sets they count.
LEMMA CountFacts ==
  ASSUME CountInv
  PROVE  /\ LoopInv /\ leaked \in Nat /\ leaked =< Cardinality(Costly)
         /\ IsFiniteSet(Watched) /\ Cardinality(Watched) \in Nat
         /\ fds_used = 1 + Cardinality(Watched)
<1>1. IsFiniteSet(Fd) /\ Watched \in SUBSET Fd
  BY LoopAssumption DEF Watched
<1>2. IsFiniteSet(Watched) /\ Cardinality(Watched) \in Nat
  BY <1>1, FS_Subset, FS_CardinalityType, Zenon
<1>3. LoopInv /\ leaked \in Nat
  BY Zenon DEF CountInv, SpedInv, LoopInv, LoopTypeOK
<1> QED BY <1>2, <1>3, Zenon DEF CountInv, FdsUsedCounted, Counted, Watched

\* A step that opens and closes nothing leaves the counts as they are.
LEMMA CountsStay ==
  ASSUME CountInv, LoopInv', NEW w, Moves(w), Stays
  PROVE  FdsUsedCounted' /\ Counted'
<1>1. UNCHANGED <<accepted, sock, leaked, fds_used>> /\ Watched' = Watched
  BY Zenon DEF Stays, Watched
<1>2. FdsUsedCounted'
  BY <1>1, Zenon DEF CountInv, FdsUsedCounted, Watched
<1>3. accepted =< accepted'
  BY <1>1, CountFacts, LoopFacts
<1>4. /\ Cardinality(Costly) =< Cardinality(Costly')
      /\ Cardinality(Costly) \in Nat /\ Cardinality(Costly') \in Nat
  <2>1. \A f \in Fd : sock'[f] \in {sock[f], NoConn} \/ sock'[f] = accepted + 1
    BY <1>1, Zenon
  <2> QED BY <1>3, <2>1, CountFacts, CostlyKept, Zenon
<1>5. PICK l \in Nat, m \in Nat, n \in Nat :
        l = leaked /\ m = Cardinality(Costly) /\ n = Cardinality(Costly') /\ l =< m /\ m =< n
  BY <1>4, CountFacts, Zenon
<1>6. l =< n
  BY <1>5
<1> QED BY <1>1, <1>2, <1>5, <1>6, Zenon DEF Counted

\* accept() adds a descriptor to the table, or finds the table full.
LEMMA CountsAccept ==
  ASSUME CountInv, LoopInv', NEW w, Moves(w), AcceptOne
  PROVE  FdsUsedCounted' /\ Counted'
<1>1. PICK fd \in Fd : /\ sock[fd] = NoConn /\ sock' = [sock EXCEPT ![fd] = accepted + 1]
                       /\ ed_epoll_add(fd)
  BY Zenon DEF AcceptOne
<1>2. accepted' = accepted + 1 /\ leaked' = leaked
  BY DEF AcceptOne
<1>3. /\ accepted \in Nat /\ sock \in [Fd -> 0..accepted] /\ interest[fd] = {}
      /\ interest \in [Fd -> SUBSET {"IN", "OUT"}]
  BY <1>1, CountFacts, LoopFacts, Zenon DEF RecordOK
<1>4. PICK n \in Nat : n = Cardinality(Watched) /\ fds_used = 1 + n
  BY CountFacts, Zenon
<1>5. FdsUsedCounted'
  <2>1. CASE fd < maxfds
    <3>1. interest' = [interest EXCEPT ![fd] = {"IN", "OUT"}] /\ fds_used' = fds_used + 1
      BY <1>1, <2>1, Zenon DEF ed_epoll_add
    <3>2. Watched' = Watched \cup {fd} /\ fd \notin Watched
      BY <1>3, <3>1 DEF Watched
    <3>3. Cardinality(Watched') = n + 1
      BY <1>4, <3>2, CountFacts, FS_AddElement, Zenon
    <3>4. (1 + n) + 1 = 1 + (n + 1)
      OBVIOUS
    <3> QED BY <1>4, <3>1, <3>3, <3>4, Zenon DEF FdsUsedCounted, Watched
  <2>2. CASE ~(fd < maxfds)
    <3>1. UNCHANGED <<interest, fds_used>>
      BY <1>1, <2>2, Zenon DEF ed_epoll_add, epoll
    <3> QED BY <3>1, Zenon DEF CountInv, FdsUsedCounted
  <2> QED BY <2>1, <2>2, Zenon
<1>6. accepted =< accepted'
  BY <1>2, <1>3
<1>7. /\ Cardinality(Costly) =< Cardinality(Costly')
      /\ Cardinality(Costly) \in Nat /\ Cardinality(Costly') \in Nat
  <2>1. \A f \in Fd : sock'[f] \in {sock[f], NoConn} \/ sock'[f] = accepted + 1
    BY <1>1, <1>3, Zenon
  <2> QED BY <1>6, <2>1, CountFacts, CostlyKept, Zenon
<1>8. PICK l \in Nat, m \in Nat, k \in Nat :
        l = leaked /\ m = Cardinality(Costly) /\ k = Cardinality(Costly') /\ l =< m /\ m =< k
  BY <1>7, CountFacts, Zenon
<1>9. l =< k
  BY <1>8
<1> QED BY <1>2, <1>5, <1>8, <1>9, Zenon DEF Counted

\* ed_epoll_del gives one descriptor back, and loses at most the one of a pipe.
LEMMA CountsClose ==
  ASSUME CountInv, LoopInv', NEW w, Moves(w), NEW fd \in Fd, NEW lost \in BOOLEAN,
         Closes(fd, lost)
  PROVE  FdsUsedCounted' /\ Counted'
<1>1. /\ interest[fd] # {} /\ interest' = [interest EXCEPT ![fd] = {}]
      /\ fds_used' = fds_used - 1 /\ sock' = [sock EXCEPT ![fd] = NoConn]
      /\ leaked' = (IF lost THEN leaked + 1 ELSE leaked) /\ accepted' = accepted
  BY Zenon DEF Closes, ed_epoll_del
<1>2. /\ accepted \in Nat /\ sock \in [Fd -> 0..accepted]
      /\ interest \in [Fd -> SUBSET {"IN", "OUT"}]
  BY CountFacts, LoopFacts, Zenon
<1>3. PICK n \in Nat : n = Cardinality(Watched) /\ fds_used = 1 + n
  BY CountFacts, Zenon
<1>4. FdsUsedCounted'
  <2>1. Watched' = Watched \ {fd} /\ fd \in Watched
    BY <1>1, <1>2 DEF Watched
  <2>2. Cardinality(Watched') = n - 1
    BY <1>3, <2>1, CountFacts, FS_RemoveElement, Zenon
  <2>3. (1 + n) - 1 = 1 + (n - 1)
    OBVIOUS
  <2> QED BY <1>1, <1>3, <2>2, <2>3, Zenon DEF FdsUsedCounted, Watched
<1>5. \A f \in Fd : sock'[f] = IF f = fd THEN NoConn ELSE sock[f]
  BY <1>1, <1>2, Zenon
<1>6. /\ Costly \subseteq Costly' /\ IsFiniteSet(Costly) /\ IsFiniteSet(Costly')
      /\ Cardinality(Costly) =< Cardinality(Costly')
      /\ Cardinality(Costly) \in Nat /\ Cardinality(Costly') \in Nat
  <2>1. accepted =< accepted'
    BY <1>1, <1>2
  <2>2. \A f \in Fd : sock'[f] \in {sock[f], NoConn} \/ sock'[f] = accepted + 1
    BY <1>5, Zenon
  <2> QED BY <2>1, <2>2, CountFacts, CostlyKept, Zenon
<1>7. PICK l \in Nat, m \in Nat, k \in Nat :
        l = leaked /\ m = Cardinality(Costly) /\ k = Cardinality(Costly') /\ l =< m /\ m =< k
  BY <1>6, CountFacts, Zenon
<1>8. CASE ~lost
  <2>1. l =< k
    BY <1>7
  <2> QED BY <1>1, <1>4, <1>7, <1>8, <2>1, Zenon DEF Counted
<1>9. CASE lost
  <2>1. PICK c \in 1..accepted : c = sock[fd] /\ (Gone(c) \/ want[c].page \in FastCgiPage)
    BY <1>9, Zenon DEF Closes
  <2>2. c \notin Costly
    BY <2>1, Zenon DEF Costly, Closed
  <2>3. c \in 1..arrived /\ c \in Conn /\ c # NoConn
    BY CountFacts, LoopFacts, Zenon
  <2>4. \A f \in Fd : sock'[f] # c
    BY <1>5, <2>1, <2>3, CountFacts, LoopFacts, Zenon DEF SockDistinct
  <2>5. Closed(c)'
    BY <1>1, <1>2, <2>1, <2>4 DEF Closed
  <2>6. Gone(c)' \/ want'[c].page \in FastCgiPage
    BY <2>1, <2>3, Zenon DEF Moves
  <2>7. c \in Costly'
    BY <1>1, <2>1, <2>5, <2>6, Zenon DEF Costly
  <2>8. Cardinality(Costly \cup {c}) = m + 1
    BY <1>6, <1>7, <2>2, FS_AddElement, Zenon
  <2>9. Costly \cup {c} \in SUBSET Costly'
    BY <1>6, <2>7, Zenon
  <2>10. Cardinality(Costly \cup {c}) =< Cardinality(Costly')
    BY <1>6, <2>9, FS_Subset, Zenon
  <2>11. m + 1 =< k
    BY <1>7, <2>8, <2>10, Zenon
  <2>12. l + 1 =< k
    BY <1>7, <2>11
  <2> QED BY <1>1, <1>4, <1>7, <1>9, <2>12, Zenon DEF Counted
<1> QED BY <1>8, <1>9, Zenon

\* ed_epoll_add and ed_epoll_del count, and a close costs at most a descriptor.
LEMMA CountsKept ==
  ASSUME CountInv, LoopInv', NEW w, Moves(w),
         \/ Stays \/ AcceptOne \/ \E fd \in Fd, lost \in BOOLEAN : Closes(fd, lost)
  PROVE  FdsUsedCounted' /\ Counted'
BY CountsStay, CountsAccept, CountsClose, Zenon

\* CountInv holds at the start and after every step.
LEMMA CountInitOK == Init => CountInv
<1> SUFFICES ASSUME Init PROVE CountInv
  OBVIOUS
<1>1. interest = [fd \in Fd |-> {}] /\ fds_used = 1 /\ leaked = 0 /\ accepted = 0
  BY DEF Init, LoopInit
<1>2. {fd \in Fd : interest[fd] # {}} = {} /\ Costly = {}
  BY <1>1 DEF Costly
<1>3. FdsUsedCounted /\ Counted
  BY <1>1, <1>2, FS_EmptySet DEF FdsUsedCounted, Counted
<1> QED BY <1>3, SpedInitOK, Zenon DEF CountInv

\* No step of the server breaks CountInv.
LEMMA CountNextOK == CountInv /\ [Next]_vars => CountInv'
<1> SUFFICES ASSUME CountInv, [Next]_vars PROVE CountInv'
  OBVIOUS
<1>1. SpedInv /\ SpedInv'
  BY SpedNextOK DEF CountInv
<1>2. PICK w : Moves(w)
  BY <1>1, SpedMoves, Zenon
<1>3. \/ Stays \/ AcceptOne
      \/ \E fd \in Fd, lost \in BOOLEAN : Closes(fd, lost)
  BY <1>1, SpedEffect
<1>4. LoopInv'
  BY <1>1 DEF SpedInv
<1> QED BY <1>1, <1>2, <1>3, <1>4, CountsKept DEF CountInv

\* The counts of descriptors are right always.
LEMMA CountInvariant == Spec => []CountInv
BY CountInitOK, CountNextOK, PTL DEF Spec

\* ed_epoll_add and ed_epoll_del keep fds_used the number of descriptors that
\* epoll watches, the refused ones and the hangups included.
THEOREM SpedFdsUsed == Spec => []FdsUsedCounted
<1>1. CountInv => FdsUsedCounted
  BY DEF CountInv
<1> QED BY <1>1, CountInvariant, PTL

\* Every way out of ed_http.c closes the file or pipe of the response, except a
\* hangup and a failed FastCGI request.
THEOREM SpedLeaks == Spec => []LeakedOnlyByHangup
<1>1. CountInv => LeakedOnlyByHangup
  <2> SUFFICES ASSUME CountInv PROVE LeakedOnlyByHangup
    BY Zenon
  <2> DEFINE Excused == {c \in Conn : Gone(c) \/ want[c].page \in FastCgiPage}
  <2>1. accepted \in Nat /\ accepted =< MaxConns /\ MaxConns \in Nat
    BY ClientsAssumption DEF CountInv, SpedInv, LoopInv, LoopTypeOK, NetworkOK
  <2>2. Costly \in SUBSET Excused
    BY <2>1 DEF Costly, Conn
  <2>3. IsFiniteSet(Excused)
    <3>1. IsFiniteSet(Conn) /\ Excused \in SUBSET Conn
      BY <2>1, FS_Interval DEF Conn
    <3> QED BY <3>1, FS_Subset
  <2>4. /\ Cardinality(Costly) =< Cardinality(Excused) /\ Cardinality(Excused) \in Nat
        /\ Cardinality(Costly) \in Nat
    BY <2>2, <2>3, FS_Subset, FS_CardinalityType
  <2>5. leaked \in Nat /\ leaked =< Cardinality(Costly)
    BY Zenon DEF CountInv, SpedInv, LoopInv, LoopTypeOK, Counted
  <2>6. leaked =< Cardinality(Excused)
    BY <2>4, <2>5
  <2> QED BY <2>6 DEF LeakedOnlyByHangup
<1> QED BY <1>1, CountInvariant, PTL
=============================================================================
