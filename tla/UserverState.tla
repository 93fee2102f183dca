---------------------------- MODULE UserverState ----------------------------
(***************************************************************************)
(* The state of the userver (src/userver-0.9.0), its interest set and the  *)
(* kernel under it.  The userver is one process without threads: as in     *)
(* FlashState, a C function is an operator from a state w to the next,     *)
(* named for the function, and an event that the loop handles is one       *)
(* action of UserverServer.                                                *)
(*                                                                         *)
(* A descriptor is a number: Listener, then the connection to each         *)
(* application server, then those of the clients, of which accept() gives  *)
(* the lowest that is free.  A failed assert() or an exit() ends the       *)
(* server: Fail records why in w.exit.                                     *)
(*                                                                         *)
(* A scenario chooses the loop (select or epoll), caching_on with the size *)
(* of the cache, maxconns, app_req_queue_size, the number of dynamic       *)
(* buffers and no_exit_on_no_buffers; all other options have their         *)
(* defaults.  Sizes are in units: a header, or a unit of content.          *)
(***************************************************************************)
EXTENDS Integers, Sequences, FiniteSets, SequencesExt

CONSTANTS
  Site,          \* the files: a path to its kind and size
  AppOf,         \* the applications: a path to the application that answers it
  Content,       \* an application to the units of content in its reply
  REPBUF,        \* reply_buffer_size
  SNDBUF,        \* the send buffer of a client's socket
  MaxFile,       \* cache_max_file_size
  MaxServers,    \* bound: application servers of any scenario
  MaxClients,    \* bound: clients of any scenario
  Scenario       \* the scenarios: see UserverAssumption

Client == 1..MaxClients

Listener == 0

Server == 1..MaxServers

ClientSd == (MaxServers + 1)..(MaxServers + MaxClients)

AppName == Range(AppOf)

\* A scenario gives the options, the application of each application server, for each
\* client the sequences of requests it may send, and how many clients hang up.  A request
\* is the sequence of the pieces in which it is sent.
ASSUME UserverAssumption ==
  /\ {REPBUF, SNDBUF} \subseteq Nat \ {0} /\ Content \in [AppName -> Nat \ {0}]
  /\ REPBUF \notin {1, 2, 4}  \* there is room for the header of a record with the body
  /\ \A s \in Scenario :
       /\ s.loop \in {"select", "epoll"} /\ {s.caching, s.noexit, s.slow} \subseteq BOOLEAN
       /\ {s.maxconns, s.table, s.bytes, s.queue, s.bufs} \subseteq Nat \ {0}
       /\ s.maxconns <= MaxClients /\ Len(s.servers) <= MaxServers
       /\ Len(s.requests) \in Client /\ s.hangups \in Nat
       /\ \A k \in DOMAIN s.requests : \A rs \in s.requests[k] : rs # << >>

NONE == -1

\* The descriptor that open() gives.
FILE == 1000

Fail(w, why) == IF w.exit = "" THEN [w EXCEPT !.exit = why] ELSE w

Least(m, n) == IF m < n THEN m ELSE n

Without(s, x) == SelectSeq(s, LAMBDA y : y # x)

NoReq == [st |-> "METHOD", type |-> "INVALID", method |-> "NONE", close |-> FALSE,
          uri |-> << >>, app |-> "", clen |-> 0, ims |-> "no", hdr |-> "", buf |-> << >>]

\* struct rep of a client: out lies between cur and end, and end is the room of the
\* buffer taken up to there; cached is the element of the cache in use; dyn is TRUE when
\* the buffer is one of the dynamic buffers.
NoRep == [fd |-> NONE, out |-> << >>, end |-> 0, off |-> 0, nwritten |-> 0, total |-> 0,
          cached |-> NONE, dyn |-> FALSE, done |-> FALSE]

\* struct info of a client: st is its fsm_state, j the client at the other end.
NoInfo == [live |-> FALSE, st |-> "INITIAL", j |-> 0, hup |-> FALSE, req |-> NoReq,
           rep |-> NoRep]

\* struct info of the connection to an application server: fd is rep.fd, the client it
\* serves, and data what it has read of the reply, with clen units to come in the record.
NoServer == [app |-> "", fd |-> NONE, out |-> << >>, st |-> "HEADER", clen |-> 0,
             data |-> << >>]

SetState(w, c, st) == [w EXCEPT !.info[c].st = st]
-----------------------------------------------------------------------------
(* The interest set.  epoll_ctl() fails, and the server exits, when a descriptor is    *)
(* registered twice, or changed or removed while it is not registered; an fd_set knows *)
(* no registration.                                                                    *)
EventChange(w, sd, on, off, op) ==
  [w EXCEPT !.watch[sd] = IF op = "done" THEN {} ELSE (@ \cup on) \ off,
            !.reg = CASE op = "init" -> @ \cup {sd}
                      [] op = "done" -> @ \ {sd}
                      [] op = "change" -> @]

InterestSetChange(w, sd, on, off, op) ==
  IF w.opt.loop = "epoll" /\ (op = "init") = (sd \in w.reg) THEN Fail(w, "epoll_ctl")
  ELSE EventChange(w, sd, on, off, op)

Watch(w, sd, on, off) == InterestSetChange(w, sd, on, off, "change")

SocketNewConnOn(w) == Watch([w EXCEPT !.on = TRUE], Listener, {"r"}, {})

SocketNewConnOff(w) == Watch([w EXCEPT !.on = FALSE], Listener, {}, {"r"})

\* Mutant: one connection more has to be idle.
ShouldEnableNewConnsLate(w) == ~w.on /\ w.num_idle > 1

ShouldEnableNewConns(w) == ~w.on /\ w.num_idle > 0
-----------------------------------------------------------------------------
(* What is written, in units that are told apart by what they belong to. *)
Unit(what, uri, j, n, k) == [what |-> what, uri |-> uri, j |-> j, n |-> n, k |-> k]

Header(uri) == Unit("200", uri, 0, 0, 0)

Page(status) == Unit(status, << >>, 0, 0, 0)

FileUnits(uri, from, n) == [i \in 1..n |-> Unit("file", uri, 0, 0, from + i)]

\* The reply of an application to request n of client j that came with a body of size
\* body: its own header, then content.
Reply(app, j, n, body) == <<Unit("type", << >>, j, n, body)>>
                          \o [i \in 1..Content[app] |-> Unit("app", << >>, j, n, i)]

\* write() and writev() to a client take what fits.  One that has closed takes all, and
\* resets the connection; on one that is reset they fail.
Taken(w, j, us) ==
  CASE w.tcp[j].peer = "reset" -> NONE
    [] w.tcp[j].peer = "closed" -> Len(us)
    [] w.tcp[j].peer = "open" -> Least(Len(us), SNDBUF - w.tcp[j].inflight)

Write(w, j, us) ==
  CASE w.tcp[j].peer = "reset" -> w
    [] w.tcp[j].peer = "closed" ->
         IF us = << >> THEN w ELSE [w EXCEPT !.tcp[j].peer = "reset", !.tcp[j].rcv = << >>]
    [] w.tcp[j].peer = "open" ->
         [w EXCEPT !.tcp[j].inflight = @ + Taken(w, j, us),
                   !.tcp[j].sent = @ \o SubSeq(us, 1, Taken(w, j, us))]
=============================================================================
