----------------------------- MODULE FlashState -----------------------------
(***************************************************************************)
(* The state of the Flash server (src/flash_server) and the operations     *)
(* every part of it calls.  Flash is one process: its functions run one    *)
(* after the other, so each is an operator from a state w of the server    *)
(* and of the kernel objects it holds to the next, named for the C         *)
(* function, and a handler that MainLoop calls is one action of            *)
(* FlashServer.  A connection, an entry of a cache or a helper is named    *)
(* by its index; 0 is NULL.  Sizes are in units of a page of memory.       *)
(*                                                                         *)
(* exit(), and what the C language leaves undefined, ends the server: Fail *)
(* records why in w.exit.                                                  *)
(*                                                                         *)
(* Time is not counted.  A timer that is set may expire at any later turn  *)
(* of the loop, a cached name or a cached file may be out of date at any   *)
(* later lookup, and o, an element of Oracle, says for one handler what    *)
(* the clock would: o.late, the waiting list is older than slaveDelayTime; *)
(* o.same, the second in which a timer was set is not over; o.sweep, the   *)
(* bin of names has not been swept for NAMECACHELIFETIME.                  *)
(***************************************************************************)
EXTENDS Integers, Sequences, FiniteSets, SequencesExt

CONSTANTS
  Kind,          \* what each URL names: "file", "redirect", "ls", "nols", "cgi", "missing", ...
  Size,          \* units of the file, the listing or the answer behind a URL
  READBLOCK,     \* READBLOCKSIZE
  SNDBUF,        \* defaultSendBufSize
  STAGEBUF,      \* STAGE_BUF_SIZE
  maxConnects, maxNameCacheSize, maxLRUCacheSize,
  Scenario,      \* bounds: see FlashAssumption
  MaxClients,    \* bound: clients of any scenario
  MaxHelp,       \* bound: helpers of one kind of any scenario
  MaxEntries,    \* bound: entries alive in each cache
  MaxApps        \* bound: CGI processes forked

Url == DOMAIN Kind

Slot == 1..maxConnects

Client == 1..MaxClients

Pool == {"convert", "read", "dir"}

NULL == 0

\* A scenario is a setting of the limit on helpers (maxReadHelp, maxConvHelp and
\* maxDirHelp) and a bound on what the outside does: the clients that connect and, for
\* each, the sequences of requests it may send, and how often a client hangs up early
\* (hangup), a timer expires (timeout), a helper or a CGI process gives up waiting (idle),
\* a name or a file goes out of date (aging), and a file can no longer be opened (loss).
Fault == {"hangup", "timeout", "idle", "aging", "loss"}

ASSUME FlashAssumption ==
  /\ Size \in [Url -> Nat]
  /\ READBLOCK \in Nat \ {0} /\ SNDBUF \in Nat \ {0, 1} /\ STAGEBUF \in Nat \ {0}
  /\ maxConnects \in Nat \ {0}
  /\ \A s \in Scenario :
       /\ s.maxHelp \in 1..MaxHelp /\ s.faults \in [Fault -> Nat]
       /\ Len(s.requests) \in Client
       /\ \A k \in DOMAIN s.requests : \A rs \in s.requests[k] :
            rs # << >> /\ \A i \in DOMAIN rs : rs[i].url \in Url

Oracle == [late : BOOLEAN, same : BOOLEAN, sweep : BOOLEAN]

Least(m, n) == IF m < n THEN m ELSE n

\* The first position of s whose element satisfies P, or 0.
First(s, P(_)) ==
  LET at == {i \in DOMAIN s : P(s[i])} IN
  IF at = {} THEN 0 ELSE CHOOSE i \in at : \A j \in at : i <= j

Without(s, x) == SelectSeq(s, LAMBDA y : y # x)

\* A fault of the outside, against the scenario's bound.
Allowed(w, f) == w.left[f] > 0

Suffer(w, f) == [w EXCEPT !.left[f] = @ - 1, !.faults = @ \cup {f}]

Fail(w, why) == IF w.exit = "" THEN [w EXCEPT !.exit = why] ELSE w
-----------------------------------------------------------------------------
(* httpd_conn.  client is the socket hc_fd, h the handler of that socket and   *)
(* got how many lines and units of the request ProcessRequestReading has seen. *)
NoCgi == [st |-> "none", app |-> 0, body |-> 0, ret |-> << >>]

NoStage == [left |-> 0, valid |-> << >>]

\* query: the URL goes on after the name of a program, with '?' or '/'.
NoRequest == [url |-> "", method |-> "ERROR", keep |-> FALSE, ims |-> FALSE,
              body |-> 0, mime |-> FALSE, query |-> FALSE]

NoConn == [client |-> NULL, h |-> "none", timer |-> "none", pid |-> NULL,
           got |-> 0, req |-> NoRequest, keep |-> FALSE, hne |-> NULL,
           ent |-> NULL, locks |-> 0, sent |-> 0, stripped |-> FALSE,
           cgi |-> NoCgi, dsb |-> NoStage]

PrepareConnForNextRequest(hc) ==
  [hc EXCEPT !.got = 0, !.req = NoRequest, !.keep = FALSE, !.locks = 0,
             !.sent = 0, !.stripped = FALSE, !.dsb = NoStage]

\* A handler and the socket to select on: NOTHING, DoConnReading, DoSingleWrite,
\* WriteStreamToClient, WriteToClient.  A connection without a socket is a
\* negative descriptor.
SetSelectHandler(w, c, h) ==
  IF w.conn[c].client = NULL THEN Fail(w, "negative fd in ssh")
  ELSE [w EXCEPT !.conn[c].h = h]

\* IDLEC_TIMELIMIT and CGI_TIMELIMIT are both 500: a timer set twice in one second
\* expires at the same time and keeps the function it was first given.
SetTimer(w, c, f, o) ==
  LET old == w.conn[c].timer IN
  IF old \in {"idle", "cgi"} /\ f \in {"idle", "cgi"} /\ o.same THEN w
  ELSE [w EXCEPT !.conn[c].timer = f]

ClearTimer(w, c) == [w EXCEPT !.conn[c].timer = "none"]
-----------------------------------------------------------------------------
(* The sockets of the clients. *)
NoSocket == [peer |-> "none", reqs |-> << >>, req |-> 0, unsent |-> 0, rcv |-> 0,
             inflight |-> 0, sent |-> << >>]

Room(w, k) == SNDBUF - w.tcp[k].inflight

\* write() and writev() on the socket of client k take what fits of us; the result
\* is -1 when nothing does or the client has gone.
Written(w, k, us) ==
  IF w.tcp[k].peer # "open" \/ Room(w, k) = 0 THEN -1
  ELSE Least(Len(us), Room(w, k))

Write(w, k, us) ==
  LET n == Written(w, k, us) IN
  IF n < 1 THEN w
  ELSE [w EXCEPT !.tcp[k].inflight = @ + n,
                 !.tcp[k].sent = @ \o SubSeq(us, 1, n)]

\* What the clients, the helpers and the CGI processes write and are written: units of
\* data, and messages.
Unit(what, url, i) == <<what, url, i>>

Msg(what) == Unit(what, "", 0)

BodyOf(url, from, n) == [i \in 1..n |-> Unit("body", url, from + i)]

\* A header of its own, and a page that reports an error: nothing looks at whether
\* they were written.
SendMime(w, c, status) ==
  LET hc == w.conn[c] IN
  IF hc.req.mime THEN Write(w, hc.client, <<Unit(status, hc.req.url, 0)>>) ELSE w

HttpdSendErr(w, c, status) ==
  Write(w, w.conn[c].client, <<Unit(status, w.conn[c].req.url, 0)>>)

\* realloc_str of the header returns the new string, which is taken for a failure.
SendDirRedirect(w, c) == HttpdSendErr(w, c, "500")
=============================================================================
