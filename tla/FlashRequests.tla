---------------------------- MODULE FlashRequests ---------------------------
(***************************************************************************)
(* From a readable connection to its answer: readreq.c, DoConnReading and  *)
(* its callees in loop.c, cold.c, hotfile.c, and the handlers of           *)
(* dir_master.c that stream a listing.  The results of functions that also *)
(* change the state are records of both.                                   *)
(***************************************************************************)
EXTENDS FlashCgi

\* The lines and units of a request: the first line alone in HTTP/0.9; otherwise the
\* first line, the header fields, the empty line and the content.
Pieces(r) == IF r.mime THEN 3 + r.body ELSE 1

\* One read() takes all that has arrived.  The first line gives the method and the
\* URL, the fields the rest.
ProcessRequestReading(w, c) ==
  LET k == w.conn[c].client
      sock == w.tcp[k]
      r == sock.reqs[sock.req]
      got == w.conn[c].got + sock.rcv
      v == [w EXCEPT !.tcp[k].rcv = 0, !.conn[c].got = got,
                     !.conn[c].keep = r.keep /\ got > 1,
                     !.conn[c].req = [r EXCEPT !.ims = @ /\ got > 1,
                                               !.body = IF got > 1 THEN @ ELSE 0]]
  IN IF sock.peer = "reset" THEN [w |-> w, prr |-> "ERROR"]
     ELSE IF sock.rcv = 0
          THEN [w |-> w, prr |-> IF sock.peer = "open" THEN "READMORE" ELSE "CLOSED"]
     ELSE [w |-> v, prr |-> IF got >= Pieces(r) THEN "DONE" ELSE "READMORE"]
-----------------------------------------------------------------------------
WriteNext(read, c, o) ==
  IF read.failed THEN DoneWithConnection(read.w, c, TRUE, o)
  ELSE SetSelectHandler(read.w, c, "write")

ResumeAfterFileReading(w, c, o) ==
  IF w.conn[c].client = NULL THEN Fail(w, "answer for a closed connection")
  ELSE WriteNext(ReadChunkIfNeeded(w, w.conn[c].ent, w.conn[c].sent), c, o)

\* The chunk lock moves with the position.
MoveLock(w, c, sz) ==
  LET hc == w.conn[c]
      gain == IF Locks(w, hc.ent, hc.sent + sz) THEN 1 ELSE 0
  IN [DecChunkLock(IncChunkLock(w, hc.ent, hc.sent + sz), hc.ent, hc.sent) EXCEPT
        !.conn[c].locks = @ + gain - 1, !.conn[c].sent = @ + sz]

Advance(w, c, sz, o) ==
  IF w.conn[c].req.method = "HEAD" THEN DoneWithConnection(w, c, FALSE, o)
  ELSE IF sz < 0 THEN DoneWithConnection(w, c, TRUE, o)
  ELSE IF w.conn[c].locks = 0 THEN Fail(w, "trying to move a conn without a lock")
  ELSE IF w.conn[c].sent + sz >= Size[w.ent[w.conn[c].ent].url]
       THEN DoneWithConnection(MoveLock(w, c, sz), c, FALSE, o)
  ELSE SetTimer(MoveLock(w, c, sz), c, "idle", o)

\* One writev of the header, before the first byte, and of n units of mapped data.
WriteData(w, c, n, testing, o) ==
  LET hc == w.conn[c]
      file == w.ent[hc.ent].url
      header == IF hc.sent = 0 THEN <<Unit("200", file, 0)>> ELSE << >>
      data == IF hc.req.method = "GET" THEN BodyOf(file, hc.sent, n) ELSE << >>
      ret == Written(w, hc.client, header \o data)
  IN IF ret <= 0 /\ testing THEN w
     ELSE Advance(Write(w, hc.client, header \o data), c,
                  IF ret > 0 THEN ret - Len(header) ELSE ret, o)

SendOrRead(w, c, data, testing, o) ==
  IF data.n # 0 /\ ~data.mapped THEN ScheduleAsyncRead(w, c, o)
  ELSE IF data.n = 0 /\ Size[w.ent[w.conn[c].ent].url] # 0 THEN DoneWithConnection(w, c, TRUE, o)
  ELSE WriteData(w, c, data.n, testing, o)

DoSingleWriteBackend(w, c, testing, o) ==
  LET hc == w.conn[c]
      maxBufSize == IF hc.sent = 0 /\ hc.req.mime THEN SNDBUF - 1 ELSE SNDBUF
  IN SendOrRead(w, c, GetDataToSend(w, hc.ent, hc.sent, maxBufSize), testing, o)

Refuse(w, c, status) == [w |-> HttpdSendErr(w, c, status), sr |-> "ERROR"]

\* 304 when the client's copy is of the same time.
Compare(w, c) ==
  IF w.conn[c].req.ims /\ w.ent[w.conn[c].ent].mod = 0
  THEN [w |-> SendMime(w, c, "304"), sr |-> "DONOTHING"]
  ELSE [w |-> w, sr |-> "READY"]

LockFirst(w, c) == [IncChunkLock(w, w.conn[c].ent, 0) EXCEPT !.conn[c].locks = @ + 1]

SendFile(w, c, addToHNE) ==
  Compare(IF addToHNE THEN EnterIntoHotNameCache(LockFirst(w, c), c, "file")
          ELSE LockFirst(w, c), c)

\* The file behind a name, from the cache or opened anew (ColdFileStuff).
OpenFile(hit, c, addToHNE) ==
  LET url == hit.w.conn[c].req.url IN
  IF hit.ent # NULL THEN SendFile([hit.w EXCEPT !.conn[c].ent = hit.ent], c, addToHNE)
  ELSE IF ~CanOpen(hit.w, url) THEN Refuse(hit.w, c, hit.w.disk[url].open)
  ELSE SendFile(AddEntryToDataCache(hit.w, c, url), c, addToHNE)

RegularFileStuff(w, c, addToHNE) ==
  OpenFile(CheckCache(w, w.conn[c].req.url), c, addToHNE)

CGIStuff(w, c, addEntry, o) == [w |-> cgi(w, c, addEntry, o), sr |-> "CGI"]

Redirect(w, c) == [w |-> SendDirRedirect(w, c), sr |-> "ERROR"]

List(w, c, o) == [w |-> ScheduleDirHelp(w, c, o), sr |-> "CGI"]

\* The name does not expand to the whole of it, for the file is gone, or stat() says that
\* it is not for everybody to read.
ColdFile(w, c) ==
  LET open == w.disk[w.conn[c].req.url].open IN
  IF open \in {"404", "403"} THEN Refuse(w, c, open) ELSE RegularFileStuff(w, c, TRUE)

\* The translated name is looked up on the disk.
ColdName(w, c, o) ==
  LET kind == Kind[w.conn[c].req.url] IN
  CASE kind = "missing" -> Refuse(w, c, "404")
    [] kind = "forbidden" -> Refuse(w, c, "403")
    [] kind = "redirect" -> Redirect(EnterIntoHotNameCache(w, c, "redirect"), c)
    [] kind \in {"ls", "nols"} -> List(EnterIntoHotNameCache(w, c, "ls"), c, o)
    [] kind = "cgi" -> CGIStuff(w, c, TRUE, o)
    [] kind = "file" -> ColdFile(w, c)

\* A name in neither cache.  The first call has a helper translate it, so that the
\* second, made when the helper has answered, does not block.
Translate(w, c, o) ==
  IF w.conn[c].stripped THEN ColdName([w EXCEPT !.conn[c].stripped = FALSE], c, o)
  ELSE [w |-> ScheduleNameConversion([w EXCEPT !.conn[c].stripped = TRUE], c, o), sr |-> "CGI"]

ColdRequest(hit, c, o) ==
  IF hit.hne # NULL THEN CGIStuff([hit.w EXCEPT !.conn[c].hne = hit.hne], c, FALSE, o)
  ELSE Translate(GetEmptyHNE(hit.w), c, o)

ProcessColdRequest(w, c, o) ==
  ColdRequest(FindMatchInHotCGICache(w, w.conn[c].req, o), c, o)

HotRequest(w, c, type, o) ==
  CASE type = "none" -> ProcessColdRequest(w, c, o)
    [] type = "file" -> RegularFileStuff(w, c, FALSE)
    [] type = "redirect" -> Redirect(w, c)
    [] type = "ls" -> List(w, c, o)

NameFound(hit, c, o) ==
  HotRequest([hit.w EXCEPT !.conn[c].hne = hit.hne], c,
             IF hit.hne = NULL THEN "none" ELSE hit.w.hne[hit.hne].type, o)

StartRequest(w, c, o) ==
  IF w.conn[c].req.method = "ERROR" THEN Refuse(w, c, "501")
  ELSE NameFound(FindMatchInHotNameCache(w, w.conn[c].req.url, o), c, o)

\* DoConnReadingBackend after the request has been read.
Started(start, c, o) ==
  CASE start.sr \in {"ERROR", "DONOTHING"} ->
         [w |-> DoneWithConnection(start.w, c, start.sr = "ERROR", o), dcr |-> "CLOSED"]
    [] start.sr = "CGI" ->
         [w |-> IF start.w.conn[c].client = NULL THEN start.w
                ELSE SetSelectHandler(start.w, c, "none"),
          dcr |-> "PRIVATE"]
    [] start.sr = "READY" ->
         [w |-> SetTimer(start.w, c, "idle", o), dcr |-> "READYFORWRITE"]

Dispatch(w, c, o) == Started(StartRequest(SetSelectHandler(w, c, "write"), c, o), c, o)

Read(read, c, o) ==
  CASE read.prr = "DONE" -> Dispatch(read.w, c, o)
    [] read.prr = "READMORE" ->
         [w |-> SetTimer(read.w, c, "idle", o), dcr |-> "READMORE"]
    [] read.prr \in {"CLOSED", "ERROR"} ->
         [w |-> DoneWithConnection(read.w, c, TRUE, o), dcr |-> "CLOSED"]

DoConnReadingBackend(w, c, o) == Read(ProcessRequestReading(w, c), c, o)

OptimisticWrite(r, c, o) ==
  IF r.dcr = "READYFORWRITE" /\ r.w.exit = "" THEN DoSingleWriteBackend(r.w, c, TRUE, o)
  ELSE r.w

DoConnReading(w, c, o) == OptimisticWrite(DoConnReadingBackend(w, c, o), c, o)

ResumeAfterConnReading(w, c, o) ==
  IF w.conn[c].client = NULL THEN Fail(w, "answer for a closed connection")
  ELSE OptimisticWrite(Dispatch(w, c, o), c, o)
-----------------------------------------------------------------------------
(* dir_master.c.  The listing passes through a buffer of the connection; the  *)
(* helper and the client are waited for in turn.                              *)
HelperOf(w, c) == First(w.pool["dir"].helper, LAMBDA x : x.hc = <<c>>)

WriteStreamToClient(w, c, o) ==
  LET hc == w.conn[c]
      us == hc.dsb.valid
      n == Written(w, hc.client, us)
      i == HelperOf(w, c)
      v == [Write(w, hc.client, us) EXCEPT !.conn[c].dsb.valid = SubSeq(@, n + 1, Len(@))]
      kill == IF hc.dsb.left = 0 THEN w ELSE KillHelperConn(w, "dir", i)
      more == [SetSelectHandler(v, c, "none") EXCEPT !.pool["dir"].helper[i].h = "consume"]
  IN IF hc.dsb.left # 0 /\ i = 0 THEN Fail(w, "weird call in MatchHelperToPos")
     ELSE IF n < 1 THEN DoneWithConnection(kill, c, TRUE, o)
     ELSE IF n < Len(us) THEN v
     ELSE IF hc.dsb.left # 0 THEN more
     ELSE DoneWithConnection(v, c, FALSE, o)

ConsumeHelperStream(w, i) ==
  LET h == w.pool["dir"].helper[i]
      c == Head(h.hc)
      n == Least(Least(w.conn[c].dsb.left, STAGEBUF), Len(h.out))
      v == [w EXCEPT !.pool["dir"].helper[i].out = SubSeq(@, n + 1, Len(@)),
                     !.pool["dir"].helper[i].h = "none",
                     !.conn[c].dsb.left = @ - n, !.conn[c].dsb.valid = SubSeq(h.out, 1, n)]
      u == SetSelectHandler(v, c, "stream")
  IN IF w.conn[c].client = NULL THEN Fail(w, "listing for a closed connection")
     ELSE IF u.conn[c].dsb.left = 0 THEN ScheduleNextWaiter(u, "dir", i) ELSE u

DirReaderDone(w, i, o) ==
  LET h == w.pool["dir"].helper[i]
      c == Head(h.hc)
      v == [w EXCEPT !.pool["dir"].helper[i].out = Tail(@)]
      next(u) == ScheduleNextWaiter(u, "dir", i)
      reply == Head(h.out)
  IN IF w.conn[c].client = NULL
     THEN IF reply = Msg("none") THEN next(v) ELSE Fail(w, "answer for a closed connection")
     ELSE CASE reply = Msg("idle") -> AddCurrentReader(v, "dir", i, h.hc)
       [] reply = Msg("none") ->
            next(DoneWithConnection(HttpdSendErr(v, c, "404"), c, TRUE, o))
       [] reply[1] = "list" /\ w.conn[c].req.method = "HEAD" ->
            next(DoneWithConnection(SendMime(v, c, "200"), c, TRUE, o))
       [] reply[1] = "list" /\ w.conn[c].req.method # "HEAD" ->
            [SendMime(v, c, "200") EXCEPT
               !.conn[c].dsb = [left |-> reply[3], valid |-> << >>],
               !.pool["dir"].helper[i].h = "consume"]

\* CurrentReaderDone of read_master.c and convert_master.c.  All that the slave has
\* written is read at once; "idle" alone means that it wrote that before it saw the
\* request.  "idle" and an answer together overwrite the index of the helper.
Resume(w, p, c, o) ==
  IF w.exit # "" THEN w
  ELSE IF p = "convert" THEN ResumeAfterConnReading(w, c, o)
  ELSE ResumeAfterFileReading(w, c, o)

NextReader(w, p, i, clipped) ==
  IF w.exit # "" THEN w
  ELSE IF clipped /\ w.pool[p].waiting # << >> THEN Fail(w, "helper index out of range")
  ELSE TakeWaiter(w, p, i)

CurrentReaderDone(w, p, i, o) ==
  LET h == w.pool[p].helper[i]
      free == [w EXCEPT !.pool[p].helper[i] = [@ EXCEPT !.out = << >>, !.hc = << >>,
                                                        !.h = "idle"]]
  IN IF h.out = <<Msg("idle")>> THEN AddCurrentReader(free, p, i, h.hc)
     ELSE NextReader(FoldLeft(LAMBDA v, c : Resume(v, p, c, o), free, h.hc),
                     p, i, h.out[1] = Msg("idle"))
=============================================================================
