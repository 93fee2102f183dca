----------------------------- MODULE TcpClients -----------------------------
(***************************************************************************)
(* The clients of a web server and the sockets between them, as the code   *)
(* of the three servers sees them through read(), send() and epoll.  A     *)
(* client connects, sends its request piece by piece, reads what it is     *)
(* sent, and may close its socket at any time.  The actions say nothing    *)
(* of the server; a server's module conjoins what its own state does.      *)
(*                                                                         *)
(* "reset" is a connection with a pending error, "dead" one whose error a  *)
(* read or a send has returned.                                            *)
(***************************************************************************)
EXTENDS HttpPages, FiniteSets

CONSTANTS
  SNDBUF,      \* units a socket's send buffer holds
  MaxConns,    \* bound: how many clients connect
  Plan         \* the cases of a run: what each client may ask for, and who may leave

Conn == 1..MaxConns

NoConn == 0

ASSUME ClientsAssumption ==
  /\ SNDBUF \in Nat \ {0} /\ MaxConns \in Nat
  /\ \A p \in Plan : /\ p.leavers \subseteq Conn
                    /\ \A c \in Conn : \A r \in p.request[c] : r.page \in Page

VARIABLES
  plan,      \* the case of this behaviour: a request is a page and its pieces
  want,      \* the request of each client
  unsent,    \* pieces of the request the client has yet to send
  rcv,       \* pieces in the socket's receive buffer
  peer,      \* each client: not connected, "open", "closed", "reset", "dead"
  sent,      \* the units the kernel took for each client
  inflight,  \* how many of them the client has not read yet
  arrived    \* how many clients have connected

network == <<plan, want, unsent, rcv, peer, sent, inflight, arrived>>
-----------------------------------------------------------------------------
Connect ==
  /\ arrived < MaxConns
  /\ arrived' = arrived + 1
  /\ \E r \in plan.request[arrived + 1] :
       /\ want' = [want EXCEPT ![arrived + 1] = r]
       /\ unsent' = [unsent EXCEPT ![arrived + 1] = r.form]
  /\ peer' = [peer EXCEPT ![arrived + 1] = "open"]
  /\ UNCHANGED <<plan, rcv, sent, inflight>>

ClientSend(c) ==
  /\ peer[c] = "open" /\ unsent[c] # << >>
  /\ rcv' = [rcv EXCEPT ![c] = Append(@, Head(unsent[c]))]
  /\ unsent' = [unsent EXCEPT ![c] = Tail(@)]
  /\ UNCHANGED <<plan, want, peer, sent, inflight, arrived>>

ClientRead(c) ==
  /\ peer[c] = "open" /\ inflight[c] > 0
  /\ inflight' = [inflight EXCEPT ![c] = 0]
  /\ UNCHANGED <<plan, want, unsent, rcv, peer, sent, arrived>>

Gone(c) == peer[c] \in {"closed", "reset", "dead"}

\* A client closes its socket before the server does, perhaps after a part of a
\* piece: an orderly end, or a reset, which it always is when response data lies
\* unread.
ClientClose(c, part) ==
  /\ peer[c] = "open"
  /\ c \in plan.leavers
  /\ \E how \in {"reset", "closed"} :
       /\ how = "closed" => inflight[c] = 0
       /\ peer' = [peer EXCEPT ![c] = how]
  /\ \E cut \in {<< >>} \cup part :
       /\ unsent[c] = << >> => cut = << >>
       /\ rcv' = [rcv EXCEPT ![c] = @ \o cut]
  /\ UNCHANGED <<plan, want, unsent, sent, inflight, arrived>>
-----------------------------------------------------------------------------
\* read() of the first n pieces; read() that returns the pending error.
Receive(c, n) ==
  /\ rcv' = [rcv EXCEPT ![c] = SubSeq(@, n + 1, Len(@))]
  /\ UNCHANGED <<plan, want, unsent, peer, sent, inflight, arrived>>

ReceiveError(c) ==
  /\ peer' = [peer EXCEPT ![c] = "dead"]
  /\ UNCHANGED <<plan, want, unsent, rcv, sent, inflight, arrived>>

Room(c) == SNDBUF - inflight[c]

\* send() takes what fits.  Data for a client that has closed is answered by a
\* reset; on a reset connection send() returns the pending error.
Transmit(c, units) ==
  LET n == Least(Len(units), Room(c)) IN
  /\ \/ /\ units = << >>
        /\ UNCHANGED <<sent, inflight, peer>>
     \/ /\ units # << >> /\ peer[c] = "open"
        /\ sent' = [sent EXCEPT ![c] = @ \o SubSeq(units, 1, n)]
        /\ inflight' = [inflight EXCEPT ![c] = @ + n]
        /\ UNCHANGED peer
     \/ /\ units # << >> /\ peer[c] # "open"
        /\ peer' = [peer EXCEPT ![c] = IF @ = "closed" THEN "reset" ELSE "dead"]
        /\ UNCHANGED <<sent, inflight>>
  /\ UNCHANGED <<plan, want, unsent, rcv, arrived>>

NetworkInit ==
  /\ plan \in Plan
  /\ want = [c \in Conn |-> [page |-> NoPage, form |-> << >>]]
  /\ unsent = [c \in Conn |-> << >>]
  /\ rcv = [c \in Conn |-> << >>]
  /\ peer = [c \in Conn |-> "none"]
  /\ sent = [c \in Conn |-> << >>]
  /\ inflight = [c \in Conn |-> 0]
  /\ arrived = 0
=============================================================================
