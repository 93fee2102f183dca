----------------------------- MODULE SpedProofs -----------------------------
(***************************************************************************)
(* web_server, for any numbers of clients, descriptors and pages, any      *)
(* sizes of chunks, pages and buffers and any request: no callback runs    *)
(* for a stale event, and every client is sent the page it asked for.      *)
(***************************************************************************)
EXTENDS SpedServer, EventLoopProofs

\* A record that is past its request, by the stage of the response: which calls
\* have not failed, and how far the file or pipe has been read.
StageOK(client) ==
  /\ client.status \in {"START", "FILE_FOUND", "HEADER_WRITTEN", "DATA_WRITING",
                        "CGI_FILE_FOUND", "CGI_PROC_RUNNING", "CGI_RESPONSE_WRITING"}
  /\ client.status \in {"START", "CGI_FILE_FOUND"} => client.fp = NULL
  /\ client.status \in {"FILE_FOUND", "HEADER_WRITTEN", "CGI_PROC_RUNNING"} => client.fp = 0
  /\ client.status \in {"DATA_WRITING", "CGI_RESPONSE_WRITING"}
       => client.fp \in 0..Size[client.page]
  /\ client.status \in {"FILE_FOUND", "HEADER_WRITTEN", "DATA_WRITING"}
       => /\ client.page \in FilePage /\ FailsAt[client.page] # "open"
          /\ client.status # "FILE_FOUND" => FailsAt[client.page] # "seek"
          /\ client.status = "DATA_WRITING" => FailsAt[client.page] # "read"
  /\ client.status \in {"CGI_FILE_FOUND", "CGI_PROC_RUNNING", "CGI_RESPONSE_WRITING"}
       => /\ client.page \in CgiPage /\ FailsAt[client.page] # "open"
          /\ client.status = "CGI_RESPONSE_WRITING" => FailsAt[client.page] # "read"

\* What a client has been sent by the time its record has this status.
Written(client) ==
  CASE client.status = "HEADER_WRITTEN" -> <<Header>>
    [] client.status = "DATA_WRITING" -> <<Header>> \o Units(client.page, 0, client.fp)
    [] client.status \in {"CGI_PROC_RUNNING", "CGI_RESPONSE_WRITING"}
         -> Units(client.page, 0, client.fp)
    [] OTHER -> << >>

StagesOK ==
  /\ \A f \in Fd : ed_clients[f].data => StageOK(ed_clients[f])
  /\ running # "mapped"
  /\ Relaying => ed_clients[relay.fd].page \in FastCgiPage

SpedInv ==
  /\ LoopInv /\ DOMAIN batch \subseteq Fd \cup {Listener}
  /\ StagesOK
-----------------------------------------------------------------------------
(* The stages of a response, as what they make of a record and send.       *)

\* The header and the error pages, as sequences of one unit.
LEMMA OneUnit ==
  /\ <<Header>> \in Seq(Unit) /\ <<NotFound>> \in Seq(Unit) /\ <<ServerError>> \in Seq(Unit)
  /\ << >> \in Seq(Unit)
  /\ Len(<<Header>>) = 1 /\ Len(<<NotFound>>) = 1 /\ Len(<<ServerError>>) = 1 /\ Len(<< >>) = 0
  /\ <<Header, ServerError>> = <<Header>> \o <<ServerError>>
<1>1. Header \in Unit /\ NotFound \in Unit /\ ServerError \in Unit
  BY DEF Header, NotFound, ServerError, Unit
<1>2. <<Header, ServerError>> = <<Header>> \o <<ServerError>>
  OBVIOUS
<1>3. /\ <<Header>> \in Seq(Unit) /\ <<NotFound>> \in Seq(Unit) /\ <<ServerError>> \in Seq(Unit)
      /\ << >> \in Seq(Unit)
      /\ Len(<<Header>>) = 1 /\ Len(<<NotFound>>) = 1 /\ Len(<<ServerError>>) = 1 /\ Len(<< >>) = 0
  BY <1>1, EmptySeq
<1> QED BY <1>2, <1>3, Zenon

\* Response, case by case.
LEMMA ResponseIs ==
  ASSUME NEW p \in FilePage \cup CgiPage
  PROVE  /\ FailsAt[p] \in {"open", "seek", "read", "never"} /\ Size[p] \in Nat /\ p \in Page
         /\ Whole(p) = Units(p, 0, Size[p]) /\ Whole(p) \in Seq(Unit)
         /\ FailsAt[p] = "open" => Response(p) = <<NotFound>>
         /\ p \in FilePage /\ FailsAt[p] = "seek" => Response(p) = <<ServerError>>
         /\ p \in FilePage /\ FailsAt[p] = "read" => Response(p) = <<Header, ServerError>>
         /\ p \in FilePage /\ FailsAt[p] = "never" => Response(p) = <<Header>> \o Whole(p)
         /\ p \in CgiPage /\ FailsAt[p] = "read" => Response(p) = << >>
         /\ p \in CgiPage /\ FailsAt[p] \in {"seek", "never"} => Response(p) = Whole(p)
<1>1. p \in Page /\ (p \in FilePage => p \notin CgiPage /\ p \notin FastCgiPage)
      /\ (p \in CgiPage => p \notin FilePage /\ p \notin FastCgiPage)
  BY PagesAssumption DEF Page
<1>2. FailsAt[p] \in {"open", "seek", "read", "never"} /\ Size[p] \in Nat
  BY <1>1, PagesAssumption
<1>3. Whole(p) = Units(p, 0, Size[p]) /\ Whole(p) \in Seq(Unit)
  BY <1>1, <1>2, UnitsSeq, Zenon DEF Whole
<1>4. CASE p \in FilePage
  BY <1>1, <1>2, <1>3, <1>4, Zenon DEF Response
<1>5. CASE p \in CgiPage
  BY <1>1, <1>2, <1>3, <1>5 DEF Response
<1> QED BY <1>1, <1>2, <1>3, <1>4, <1>5

\* A chunk continues what was read, and only the end of the page makes it short.
LEMMA ChunkFacts ==
  ASSUME NEW client, client.page \in Page, client.fp \in 0..Size[client.page]
  PROVE  /\ Chunk(client).out \in Seq(Unit) /\ Len(Chunk(client).out) =< CHUNK
         /\ Len(Chunk(client).out) \in Nat
         /\ Chunk(client).to \in 0..Size[client.page] /\ Chunk(client).to \in Nat
         /\ Units(client.page, 0, client.fp) \o Chunk(client).out
              = Units(client.page, 0, Chunk(client).to)
         /\ Chunk(client).eof => Chunk(client).to = Size[client.page]
<1>1. PICK p \in Page, a \in 0..Size[client.page] : p = client.page /\ a = client.fp
  OBVIOUS
<1>2. PICK z \in Nat : z = Size[p]
  BY PagesAssumption
<1>3. a \in 0..z /\ CHUNK \in Nat \ {0}
  BY <1>1, <1>2, PagesAssumption
<1>4. PICK n : n = Least(CHUNK, z - a)
  OBVIOUS
<1>5. /\ n \in Nat /\ n =< CHUNK /\ a + n \in 0..z /\ a + n \in Nat
      /\ (n < CHUNK => a + n = z) /\ a \in Nat
  BY <1>2, <1>3, <1>4 DEF Least
<1>6. PICK u, e, m : u = Units(p, a, n) /\ e = (n < CHUNK) /\ m = a + n
  OBVIOUS
<1>7. Units(p, a, n) \in Seq(Unit) /\ Len(Units(p, a, n)) = n
  BY <1>5, UnitsSeq, Zenon
<1>8. Units(p, 0, a) \o Units(p, a, n) = Units(p, 0, a + n)
  BY <1>5, UnitsConcat, Zenon
<1>9. Chunk(client) = [out |-> u, eof |-> e, to |-> m]
  BY <1>1, <1>2, <1>4, <1>6 DEF Chunk
<1>10. Chunk(client).out = u /\ Chunk(client).to = m /\ Chunk(client).eof = e
  BY <1>9
<1> QED BY <1>1, <1>2, <1>5, <1>6, <1>7, <1>8, <1>10, Zenon

\* A response is a sequence of units.
LEMMA ResponseSeq ==
  ASSUME NEW p \in FilePage \cup CgiPage
  PROVE  Response(p) \in Seq(Unit)
<1>1. <<Header, ServerError>> \in Seq(Unit)
  <2>1. Header \in Unit /\ ServerError \in Unit
    BY DEF Header, ServerError, Unit
  <2> QED BY <2>1
<1>2. <<Header>> \o Whole(p) \in Seq(Unit)
  BY ResponseIs, OneUnit, ConcatProperties
<1>3. p \in FilePage \/ p \in CgiPage
  OBVIOUS
<1> QED BY <1>1, <1>2, <1>3, ResponseIs, OneUnit, Zenon

\* At every stage a client of a file or CGI page has been sent a part of the response.
LEMMA WrittenPrefix ==
  ASSUME NEW client, client.page \in FilePage \cup CgiPage, StageOK(client)
  PROVE  Written(client) \in Seq(Unit) /\ IsPrefix(Written(client), Response(client.page))
<1>1. PICK p \in FilePage \cup CgiPage : p = client.page
  OBVIOUS
<1>2. /\ Size[p] \in Nat /\ p \in Page /\ FailsAt[p] \in {"open", "seek", "read", "never"}
      /\ Response(p) \in Seq(Unit)
  BY ResponseIs, ResponseSeq
<1>3. CASE client.status \in {"START", "FILE_FOUND", "CGI_FILE_FOUND"}
  <2>1. Written(client) = << >>
    BY <1>3 DEF Written
  <2> QED BY <1>1, <1>2, <2>1, PrefixFacts, OneUnit
<1>4. CASE client.status = "HEADER_WRITTEN"
  <2>1. Written(client) = <<Header>>
    BY <1>4 DEF Written
  <2>2. p \in FilePage /\ FailsAt[p] \in {"read", "never"}
    BY <1>1, <1>2, <1>4 DEF StageOK
  <2>3. CASE FailsAt[p] = "never"
    <3>1. Response(p) = <<Header>> \o Whole(p) /\ Whole(p) \in Seq(Unit)
      BY <2>2, <2>3, ResponseIs
    <3>2. IsPrefix(<<Header>>, <<Header>> \o Whole(p))
      BY <3>1, OneUnit, PrefixConcat, Zenon
    <3> QED BY <1>1, <2>1, <3>1, <3>2, OneUnit, Zenon
  <2>4. CASE FailsAt[p] = "read"
    <3>1. Response(p) = <<Header, ServerError>>
      BY <2>2, <2>4, ResponseIs
    <3>2. <<Header, ServerError>> = <<Header>> \o <<ServerError>>
      OBVIOUS
    <3>3. IsPrefix(<<Header>>, <<Header>> \o <<ServerError>>)
      BY OneUnit, PrefixConcat, Zenon
    <3> QED BY <1>1, <2>1, <3>1, <3>2, <3>3, OneUnit, Zenon
  <2> QED BY <2>2, <2>3, <2>4
<1>5. ASSUME client.fp \in 0..Size[p]
      PROVE  /\ Units(p, 0, client.fp) \in Seq(Unit)
             /\ \E u \in Seq(Unit) : Whole(p) = Units(p, 0, client.fp) \o u
  <2>1. PICK a \in Nat, n \in Nat : a = client.fp /\ a + n = Size[p]
    <3>1. Size[p] - client.fp \in Nat /\ client.fp \in Nat
          /\ client.fp + (Size[p] - client.fp) = Size[p]
      BY <1>2, <1>5
    <3> QED BY <3>1
  <2>2. Units(p, 0, a) \o Units(p, a, n) = Units(p, 0, a + n)
    BY <1>2, UnitsConcat, Zenon
  <2>3. Units(p, a, n) \in Seq(Unit) /\ Units(p, 0, a) \in Seq(Unit)
    BY <1>2, UnitsSeq, Zenon
  <2> QED BY <2>1, <2>2, <2>3 DEF Whole
<1>6. CASE client.status = "DATA_WRITING"
  <2>1. Written(client) = <<Header>> \o Units(p, 0, client.fp)
    BY <1>1, <1>6 DEF Written
  <2>2. p \in FilePage /\ FailsAt[p] = "never" /\ client.fp \in 0..Size[p]
    BY <1>1, <1>2, <1>6 DEF StageOK
  <2>3. PICK s \in Seq(Unit), u \in Seq(Unit) : s = Units(p, 0, client.fp) /\ Whole(p) = s \o u
    BY <1>5, <2>2
  <2>4. Response(p) = <<Header>> \o (s \o u)
    BY <2>2, <2>3, ResponseIs, Zenon
  <2>5. <<Header>> \o (s \o u) = (<<Header>> \o s) \o u /\ <<Header>> \o s \in Seq(Unit)
    BY OneUnit, ConcatAssociative, ConcatProperties
  <2>6. IsPrefix(<<Header>> \o s, (<<Header>> \o s) \o u)
    BY <2>5, PrefixConcat, Zenon
  <2> QED BY <1>1, <2>1, <2>3, <2>4, <2>5, <2>6, Zenon
<1>7. CASE client.status \in {"CGI_PROC_RUNNING", "CGI_RESPONSE_WRITING"}
  <2>1. Written(client) = Units(p, 0, client.fp)
    BY <1>1, <1>7 DEF Written
  <2>2. p \in CgiPage /\ FailsAt[p] # "open" /\ client.fp \in 0..Size[p]
    BY <1>1, <1>2, <1>7 DEF StageOK
  <2>3. PICK s \in Seq(Unit), u \in Seq(Unit) : s = Units(p, 0, client.fp) /\ Whole(p) = s \o u
    BY <1>5, <2>2, Zenon
  <2>4. CASE FailsAt[p] = "read"
    <3>1. client.fp = 0
      BY <1>1, <1>7, <2>4 DEF StageOK
    <3>2. s = << >>
      BY <1>2, <2>3, <3>1, UnitsConcat
    <3> QED BY <1>1, <1>2, <2>1, <2>3, <3>2, PrefixFacts
  <2>5. CASE FailsAt[p] # "read"
    <3>1. Response(p) = s \o u
      BY <1>2, <2>2, <2>3, <2>5, ResponseIs
    <3>2. IsPrefix(s, s \o u)
      BY PrefixConcat, Zenon
    <3> QED BY <1>1, <2>1, <2>3, <3>1, <3>2, Zenon
  <2> QED BY <2>4, <2>5
<1> QED BY <1>3, <1>4, <1>6, <1>7 DEF StageOK

\* A stage either goes on, having sent what its new status says, or finishes the
\* request with its file closed and the response, or an error, sent.
StageDone(client, stage) ==
  /\ stage.out \in Seq(Unit) /\ Len(stage.out) \in Nat /\ Len(stage.out) =< CHUNK
  /\ stage.client.status # "FINISH" =>
       /\ stage.client \in ClientRecord /\ stage.client.page = client.page
       /\ stage.client.callback = client.callback /\ stage.client.data = client.data
       /\ StageOK(stage.client)
       /\ Written(stage.client) = Written(client) \o stage.out
  /\ stage.client.status = "FINISH" =>
       /\ stage.client.fp = NULL
       /\ \/ Written(client) \o stage.out = Response(client.page)
          \/ Written(client) \o stage.out \in Errors

\* A stage that ends the response has sent the rest, or an error, and closed its file.
LEMMA FinishDone ==
  ASSUME NEW client \in ClientRecord, NEW out \in Seq(Unit), Len(out) =< CHUNK,
         \/ Written(client) \o out = Response(client.page)
         \/ Written(client) \o out \in Errors
  PROVE  StageDone(client, Finish(client, out))
<1>1. PICK st : st = Finish(client, out)
  OBVIOUS
<1>2. st.out = out /\ st.client.status = "FINISH" /\ st.client.fp = NULL
  BY <1>1, Zenon DEF Finish, Stage, ClientRecord
<1>3. Len(out) \in Nat
  BY LenProperties
<1> QED BY <1>1, <1>2, <1>3 DEF StageDone

\* A stage that goes on leaves a record that says what has been written so far.
LEMMA GoesOn ==
  ASSUME NEW client \in ClientRecord, NEW next \in ClientRecord, NEW out \in Seq(Unit),
         Len(out) =< CHUNK, next.page = client.page, next.callback = client.callback,
         next.data = client.data, StageOK(next), Written(next) = Written(client) \o out
  PROVE  StageDone(client, Stage(next, out))
<1>1. PICK st : st = Stage(next, out)
  OBVIOUS
<1>2. st.out = out /\ st.client = next
  BY <1>1 DEF Stage
<1>3. next.status # "FINISH" /\ Len(out) \in Nat
  BY LenProperties DEF ClientRecord, Status
<1> QED BY <1>1, <1>2, <1>3 DEF StageDone

\* FindCgi, RunCgi and FindFile: the stages before anything is sent.
LEMMA FirstStages ==
  ASSUME NEW client \in ClientRecord, StageOK(client), client.page \in Page
  PROVE  /\ client.status = "START" /\ client.page \in CgiPage => StageDone(client, FindCgi(client))
         /\ client.status = "START" /\ client.page \in FilePage => StageDone(client, FindFile(client))
         /\ client.status = "CGI_FILE_FOUND" => StageDone(client, RunCgi(client))
<1>1. 1 =< CHUNK /\ 0 =< CHUNK
  BY PagesAssumption
<1>2. /\ <<NotFound>> \in Errors /\ << >> \o <<NotFound>> = <<NotFound>>
      /\ <<ServerError>> \in Errors /\ << >> \o <<ServerError>> = <<ServerError>>
      /\ << >> \o << >> = << >>
  BY OneUnit, ConcatEmptySeq DEF Errors
<1>3. client.status \in {"START", "CGI_FILE_FOUND"} => Written(client) = << >>
  BY DEF Written
<1>4. ASSUME client.status \in {"START", "CGI_FILE_FOUND"}
      PROVE  /\ StageDone(client, Finish(client, <<NotFound>>))
             /\ StageDone(client, Finish(client, <<ServerError>>))
  <2>1. Written(client) \o <<NotFound>> \in Errors /\ Written(client) \o <<ServerError>> \in Errors
    BY <1>2, <1>3, <1>4, Zenon
  <2> QED BY <1>1, <2>1, OneUnit, FinishDone, Zenon
<1>5. ASSUME client.status = "START", client.page \in CgiPage
      PROVE  StageDone(client, FindCgi(client))
  <2>1. CASE FailsAt[client.page] # "open" /\ DescriptorsLeft(1)
    <3>1. PICK next : next = [client EXCEPT !.status = "CGI_FILE_FOUND"]
      BY Zenon
    <3>2. /\ next \in ClientRecord /\ next.status = "CGI_FILE_FOUND" /\ next.page = client.page
          /\ next.callback = client.callback /\ next.data = client.data /\ next.fp = client.fp
      BY <3>1 DEF ClientRecord, Status
    <3>3. StageOK(next) /\ Written(next) = << >>
      BY <1>5, <2>1, <3>2 DEF StageOK, Written
    <3>4. Written(next) = Written(client) \o << >>
      BY <1>2, <1>3, <1>5, <3>3
    <3>5. StageDone(client, Stage(next, << >>))
      BY <1>1, <3>2, <3>3, <3>4, OneUnit, GoesOn, Zenon
    <3> QED BY <2>1, <3>1, <3>5 DEF FindCgi, Reach
  <2>2. CASE ~(FailsAt[client.page] # "open" /\ DescriptorsLeft(1))
    BY <1>4, <1>5, <2>2 DEF FindCgi
  <2> QED BY <2>1, <2>2
<1>6. ASSUME client.status = "START", client.page \in FilePage
      PROVE  StageDone(client, FindFile(client))
  <2>1. CASE FailsAt[client.page] # "open" /\ DescriptorsLeft(1)
    <3>1. PICK next : next = [client EXCEPT !.status = "FILE_FOUND", !.fp = 0]
      OBVIOUS
    <3>2. /\ next \in ClientRecord /\ next.status = "FILE_FOUND" /\ next.page = client.page
          /\ next.callback = client.callback /\ next.data = client.data /\ next.fp = 0
      BY <3>1, Zenon DEF ClientRecord, Status
    <3>3. StageOK(next) /\ Written(next) = << >>
      BY <1>6, <2>1, <3>2 DEF StageOK, Written
    <3>4. Written(next) = Written(client) \o << >>
      BY <1>2, <1>3, <1>6, <3>3
    <3>5. StageDone(client, Stage(next, << >>))
      BY <1>1, <3>2, <3>3, <3>4, OneUnit, GoesOn, Zenon
    <3> QED BY <2>1, <3>1, <3>5 DEF FindFile
  <2>2. CASE ~(FailsAt[client.page] # "open" /\ DescriptorsLeft(1))
    BY <1>4, <1>6, <2>2 DEF FindFile
  <2> QED BY <2>1, <2>2
<1>7. ASSUME client.status = "CGI_FILE_FOUND" PROVE StageDone(client, RunCgi(client))
  <2>1. CASE DescriptorsLeft(2)
    <3>1. PICK next : next = [client EXCEPT !.status = "CGI_PROC_RUNNING", !.fp = 0]
      OBVIOUS
    <3>2. /\ next \in ClientRecord /\ next.status = "CGI_PROC_RUNNING" /\ next.page = client.page
          /\ next.callback = client.callback /\ next.data = client.data /\ next.fp = 0
      BY <3>1, Zenon DEF ClientRecord, Status
    <3>3. StageOK(next)
      BY <1>7, <2>1, <3>2 DEF StageOK
    <3>4. Written(next) = Units(client.page, 0, 0)
      BY <3>2 DEF Written
    <3>5. Units(client.page, 0, 0) = << >>
      BY UnitsConcat
    <3>6. Written(next) = Written(client) \o << >>
      BY <1>2, <1>3, <1>7, <3>4, <3>5
    <3>7. StageDone(client, Stage(next, << >>))
      BY <1>1, <3>2, <3>3, <3>6, OneUnit, GoesOn, Zenon
    <3> QED BY <2>1, <3>1, <3>7 DEF RunCgi
  <2>2. CASE ~DescriptorsLeft(2)
    BY <1>4, <1>7, <2>2 DEF RunCgi
  <2> QED BY <2>1, <2>2
<1> QED BY <1>5, <1>6, <1>7

\* WriteHeader: the size is known, or the file cannot be sought.
LEMMA HeaderStage ==
  ASSUME NEW client \in ClientRecord, StageOK(client), client.status = "FILE_FOUND"
  PROVE  StageDone(client, WriteHeader(client))
<1>1. 1 =< CHUNK /\ << >> \o <<ServerError>> = <<ServerError>> /\ << >> \o <<Header>> = <<Header>>
  BY PagesAssumption, OneUnit, ConcatEmptySeq
<1>2. Written(client) = << >> /\ client.page \in FilePage
  BY DEF Written, StageOK
<1>3. CASE FailsAt[client.page] = "seek"
  <2>1. Written(client) \o <<ServerError>> \in Errors
    BY <1>1, <1>2 DEF Errors
  <2>2. StageDone(client, Finish(client, <<ServerError>>))
    BY <1>1, <2>1, OneUnit, FinishDone
  <2> QED BY <1>3, <2>2 DEF WriteHeader
<1>4. CASE FailsAt[client.page] # "seek"
  <2>1. PICK next : next = [client EXCEPT !.status = "HEADER_WRITTEN"]
    BY Zenon
  <2>2. /\ next \in ClientRecord /\ next.status = "HEADER_WRITTEN" /\ next.page = client.page
        /\ next.callback = client.callback /\ next.data = client.data /\ next.fp = client.fp
    BY <2>1 DEF ClientRecord, Status
  <2>3. StageOK(next) /\ Written(next) = <<Header>>
    BY <1>4, <2>2 DEF StageOK, Written
  <2>4. Written(next) = Written(client) \o <<Header>>
    BY <1>1, <1>2, <2>3
  <2>5. StageDone(client, Stage(next, <<Header>>))
    BY <1>1, <2>2, <2>3, <2>4, OneUnit, GoesOn, Zenon
  <2> QED BY <1>4, <2>1, <2>5 DEF WriteHeader, Reach
<1> QED BY <1>3, <1>4

\* WriteChunk: a chunk of a file, after the header.
LEMMA ChunkStage ==
  ASSUME NEW client \in ClientRecord, StageOK(client),
         client.status \in {"HEADER_WRITTEN", "DATA_WRITING"}
  PROVE  StageDone(client, WriteChunk(client))
<1>1. PICK p \in FilePage : p = client.page
  BY DEF StageOK
<1>2. p \in Page /\ Size[p] \in Nat /\ FailsAt[p] \in {"open", "seek", "read", "never"}
  BY ResponseIs
<1>3. client.fp \in 0..Size[p] /\ FailsAt[p] \in {"read", "never"}
  BY <1>1, <1>2 DEF StageOK
<1>4. PICK s \in Seq(Unit) : s = Units(p, 0, client.fp)
  <2>1. client.fp \in Nat
    BY <1>2, <1>3
  <2> QED BY <1>2, <2>1, UnitsSeq, Zenon
<1>5. Written(client) = <<Header>> \o s
  <2>1. CASE client.status = "DATA_WRITING"
    BY <1>1, <1>4, <2>1 DEF Written
  <2>2. CASE client.status = "HEADER_WRITTEN"
    <3>1. client.fp = 0 /\ Written(client) = <<Header>>
      BY <2>2 DEF StageOK, Written
    <3>2. s = << >>
      BY <1>2, <1>4, <3>1, UnitsConcat
    <3> QED BY <3>1, <3>2, OneUnit, ConcatEmptySeq
  <2> QED BY <2>1, <2>2
<1>6. CASE FailsAt[p] = "read"
  <2>1. client.status = "HEADER_WRITTEN"
    BY <1>1, <1>6 DEF StageOK
  <2>2. Written(client) = <<Header>> /\ <<Header, ServerError>> = <<Header>> \o <<ServerError>>
    <3>1. Written(client) = <<Header>>
      BY <2>1 DEF Written
    <3> QED BY <3>1, OneUnit, Zenon
  <2>3. Written(client) \o <<ServerError>> = Response(client.page)
    BY <1>1, <1>6, <2>2, ResponseIs, Zenon
  <2>4. StageDone(client, Finish(client, <<ServerError>>))
    <3>1. 1 =< CHUNK
      BY PagesAssumption
    <3> QED BY <2>3, <3>1, OneUnit, FinishDone, Zenon
  <2> QED BY <1>1, <1>6, <2>4 DEF WriteChunk
<1>7. CASE FailsAt[p] = "never"
  <2>1. PICK out \in Seq(Unit), to \in Nat :
          /\ out = Chunk(client).out /\ to = Chunk(client).to /\ Len(out) =< CHUNK
          /\ to \in 0..Size[p] /\ s \o out = Units(p, 0, to)
          /\ Chunk(client).eof => to = Size[p]
    BY <1>1, <1>2, <1>3, <1>4, ChunkFacts, Zenon
  <2>2. Written(client) \o out = <<Header>> \o Units(p, 0, to)
    <3>1. PICK h \in Seq(Unit) : h = <<Header>>
      BY OneUnit, Zenon
    <3>2. (h \o s) \o out = h \o (s \o out)
      <4>1. s \in Seq(Unit) /\ out \in Seq(Unit) /\ h \in Seq(Unit)
        BY <1>4, <2>1, <3>1
      <4> QED BY <4>1, ConcatAssociative
    <3> QED BY <1>5, <2>1, <3>1, <3>2, Zenon
  <2>3. CASE Chunk(client).eof
    <3>1. Written(client) \o out = Response(client.page)
      BY <1>1, <1>7, <2>1, <2>2, <2>3, ResponseIs
    <3>2. StageDone(client, Finish(client, out))
      BY <2>1, <3>1, FinishDone, Zenon
    <3> QED BY <1>1, <1>7, <2>1, <2>3, <3>2 DEF WriteChunk
  <2>4. CASE ~Chunk(client).eof
    <3>1. PICK next : next = [client EXCEPT !.status = "DATA_WRITING", !.fp = to]
      OBVIOUS
    <3>2. /\ next \in ClientRecord /\ next.status = "DATA_WRITING" /\ next.page = client.page
          /\ next.callback = client.callback /\ next.data = client.data /\ next.fp = to
      BY <3>1, Zenon DEF ClientRecord, Status
    <3>3. StageOK(next)
      BY <1>1, <1>7, <2>1, <3>2 DEF StageOK
    <3>4. Written(next) = Written(client) \o out
      BY <1>1, <2>2, <3>2, Zenon DEF Written
    <3>5. StageDone(client, Stage(next, out))
      BY <2>1, <3>2, <3>3, <3>4, GoesOn, Zenon
    <3> QED BY <1>1, <1>7, <2>1, <2>4, <3>1, <3>5 DEF WriteChunk
  <2> QED BY <2>3, <2>4
<1> QED BY <1>3, <1>6, <1>7

\* WriteCgiChunk: a chunk of the output of a CGI process.
LEMMA CgiChunkStage ==
  ASSUME NEW client \in ClientRecord, StageOK(client),
         client.status \in {"CGI_PROC_RUNNING", "CGI_RESPONSE_WRITING"}
  PROVE  StageDone(client, WriteCgiChunk(client))
<1>1. PICK p \in CgiPage : p = client.page
  BY DEF StageOK
<1>2. p \in Page /\ Size[p] \in Nat /\ FailsAt[p] \in {"open", "seek", "read", "never"}
  BY ResponseIs
<1>3. client.fp \in 0..Size[p] /\ FailsAt[p] # "open"
  BY <1>1, <1>2 DEF StageOK
<1>4. PICK s \in Seq(Unit) : s = Units(p, 0, client.fp)
  <2>1. client.fp \in Nat
    BY <1>2, <1>3
  <2> QED BY <1>2, <2>1, UnitsSeq, Zenon
<1>5. Written(client) = s
  BY <1>1, <1>4 DEF Written
<1>6. CASE FailsAt[p] = "read"
  <2>1. client.fp = 0
    BY <1>1, <1>6 DEF StageOK
  <2>2. s = << >> /\ << >> \o << >> = << >>
    BY <1>2, <1>4, <2>1, UnitsConcat, OneUnit, ConcatEmptySeq
  <2>3. Written(client) \o << >> = Response(client.page)
    BY <1>1, <1>5, <1>6, <2>2, ResponseIs
  <2>4. StageDone(client, Finish(client, << >>))
    <3>1. 0 =< CHUNK
      BY PagesAssumption
    <3> QED BY <2>3, <3>1, OneUnit, FinishDone, Zenon
  <2> QED BY <1>1, <1>6, <2>4 DEF WriteCgiChunk
<1>7. CASE FailsAt[p] # "read"
  <2>1. PICK out \in Seq(Unit), to \in Nat :
          /\ out = Chunk(client).out /\ to = Chunk(client).to /\ Len(out) =< CHUNK
          /\ to \in 0..Size[p] /\ s \o out = Units(p, 0, to)
          /\ Chunk(client).eof => to = Size[p]
    BY <1>1, <1>2, <1>3, <1>4, ChunkFacts, Zenon
  <2>2. CASE Chunk(client).eof
    <3>1. Response(p) = Whole(p) /\ Whole(p) = Units(p, 0, Size[p])
      BY <1>2, <1>3, <1>7, ResponseIs
    <3>2. Written(client) \o out = Response(client.page)
      BY <1>1, <1>5, <2>1, <2>2, <3>1
    <3>3. StageDone(client, Finish(client, out))
      BY <2>1, <3>2, FinishDone, Zenon
    <3> QED BY <1>1, <1>7, <2>1, <2>2, <3>3 DEF WriteCgiChunk
  <2>3. CASE ~Chunk(client).eof
    <3>1. PICK next : next = [client EXCEPT !.status = "CGI_RESPONSE_WRITING", !.fp = to]
      OBVIOUS
    <3>2. /\ next \in ClientRecord /\ next.status = "CGI_RESPONSE_WRITING"
          /\ next.page = client.page /\ next.fp = to
          /\ next.callback = client.callback /\ next.data = client.data
      BY <3>1, Zenon DEF ClientRecord, Status
    <3>3. StageOK(next)
      BY <1>1, <1>3, <1>7, <2>1, <3>2 DEF StageOK
    <3>4. Written(next) = Written(client) \o out
      BY <1>1, <1>5, <2>1, <3>2, Zenon DEF Written
    <3>5. StageDone(client, Stage(next, out))
      BY <2>1, <3>2, <3>3, <3>4, GoesOn, Zenon
    <3> QED BY <1>1, <1>7, <2>1, <2>3, <3>1, <3>5 DEF WriteCgiChunk
  <2> QED BY <2>2, <2>3
<1> QED BY <1>6, <1>7

\* write_http_response, whatever the status.
LEMMA EveryStage ==
  ASSUME NEW client \in ClientRecord, StageOK(client), client.page \in Page,
         ~FastCgiRequested(client)
  PROVE  StageDone(client, write_http_response(client))
<1>1. CASE client.status = "START"
  <2>1. client.page \in CgiPage \/ client.page \in FilePage
    BY <1>1 DEF FastCgiRequested, Page
  <2>2. CASE client.page \in CgiPage
    <3>1. write_http_response(client) = FindCgi(client)
      BY <1>1, <2>2, PagesAssumption DEF write_http_response
    <3> QED BY <1>1, <2>2, <3>1, FirstStages
  <2>3. CASE client.page \in FilePage
    <3>1. write_http_response(client) = FindFile(client)
      BY <1>1, <2>3, PagesAssumption DEF write_http_response
    <3> QED BY <1>1, <2>3, <3>1, FirstStages
  <2> QED BY <2>1, <2>2, <2>3
<1>2. CASE client.status = "FILE_FOUND"
  <2>1. write_http_response(client) = WriteHeader(client)
    BY <1>2 DEF write_http_response
  <2> QED BY <1>2, <2>1, HeaderStage
<1>3. CASE client.status \in {"HEADER_WRITTEN", "DATA_WRITING"}
  <2>1. write_http_response(client) = WriteChunk(client)
    BY <1>3 DEF write_http_response
  <2> QED BY <1>3, <2>1, ChunkStage
<1>4. CASE client.status = "CGI_FILE_FOUND"
  <2>1. write_http_response(client) = RunCgi(client)
    BY <1>4 DEF write_http_response
  <2> QED BY <1>4, <2>1, FirstStages
<1>5. CASE client.status \in {"CGI_PROC_RUNNING", "CGI_RESPONSE_WRITING"}
  <2>1. write_http_response(client) = WriteCgiChunk(client)
    BY <1>5 DEF write_http_response
  <2> QED BY <1>5, <2>1, CgiChunkStage
<1> QED BY <1>1, <1>2, <1>3, <1>4, <1>5 DEF StageOK
-----------------------------------------------------------------------------
(* The invariant of the loop, the counts and the stages.                   *)

\* A stage of a response, from the state of the loop.
LEMMA OnWritableStage ==
  ASSUME SpedInv, NEW fd \in Fd, OnWritable(fd)
  PROVE  \E stage :
           /\ stage = write_http_response(ed_clients[fd]) /\ Respond(fd, stage)
           /\ StageDone(ed_clients[fd], stage)
           /\ Callback(fd, "OUT") /\ ed_clients[fd].data /\ ed_clients[fd].callback
           /\ StageOK(ed_clients[fd])
           /\ ed_clients[fd].page \in FilePage \cup CgiPage
           /\ ed_clients[fd].page = want[sock[fd]].page
<1>1. PICK client \in ClientRecord : client = ed_clients[fd]
  BY DEF SpedInv, LoopInv, LoopTypeOK
<1>2. Callback(fd, "OUT") /\ client.data /\ ~FastCgiRequested(client)
  BY <1>1, Zenon DEF OnWritable
<1>3. client.callback /\ StageOK(client) /\ client.page = want[sock[fd]].page
  BY <1>1, <1>2, CallbackFacts, Zenon DEF SpedInv, StagesOK, LoopInv, RecordOK
<1>4. client.page \in Page
  BY <1>2, <1>3, CallbackFacts, ClientsAssumption, Zenon DEF SpedInv, LoopInv, NetworkOK
<1>5. client.page \in FilePage \cup CgiPage
  BY <1>2, <1>3, <1>4 DEF FastCgiRequested, StageOK, Page
<1>6. StageDone(client, write_http_response(client))
  BY <1>2, <1>3, <1>4, EveryStage
<1>7. PICK stage : stage = write_http_response(client)
  OBVIOUS
<1>8. Respond(fd, stage)
  BY <1>1, <1>7 DEF OnWritable
<1> QED BY <1>1, <1>2, <1>3, <1>5, <1>6, <1>7, <1>8

\* A step of the server or of a client keeps the loop's invariant and never takes
\* back what the clients did.
LEMMA SpedMoves ==
  ASSUME SpedInv, [Next]_vars
  PROVE  LoopInv' /\ \E c : Moves(c)
<1> USE DEF SpedInv
<1>1. CASE UNCHANGED vars
  <2>1. /\ UNCHANGED <<plan, want, unsent, rcv, peer, sent, inflight, arrived>>
        /\ UNCHANGED <<accepted, sock, interest, ed_clients, fds_used, leaked, batch, running, relay>>
    BY <1>1 DEF vars, network, loop, epoll
  <2>2. \E c : Moves(c)
    BY <2>1, QuietMoves, Zenon DEF LoopInv
  <2>3. NetworkOK' /\ PiecesOK' /\ LoopTypeOK' /\ SockDistinct' /\ RelayOK'
    BY <2>1, <2>2, Zenon DEF LoopInv, PiecesOK, LoopTypeOK, SockDistinct, RelayOK, Relaying, Moves
  <2>4. (\A f \in Fd : RecordOK(f))' /\ (\A f \in DOMAIN batch \cap Fd : EventOK(f))'
    BY <2>1 DEF LoopInv, RecordOK, EventOK, Relaying, Gone, Room
  <2> QED BY <2>2, <2>3, <2>4 DEF LoopInv
<1>2. CASE ClientStep
  BY <1>2, ClientStepKeeps, LoopMoves, Zenon
<1>3. CASE EpollWait(<< >>)
  <2>1. DOMAIN << >> \cap Fd = {}
    OBVIOUS
  <2> QED BY <1>3, <2>1, EpollWaitKeeps, LoopMoves
<1>4. CASE AcceptCallback
  BY <1>4, AcceptCallbackKeeps, LoopMoves
<1>5. ASSUME NEW fd \in Fd, SocketCallback(fd) PROVE LoopInv' /\ \E c : Moves(c)
  BY <1>5, SocketCallbackKeeps, LoopMoves
<1>6. ASSUME NEW fd \in Fd, OnWritable(fd) PROVE LoopInv' /\ \E c : Moves(c)
  <2>1. PICK stage : /\ Respond(fd, stage) /\ StageDone(ed_clients[fd], stage)
                     /\ Callback(fd, "OUT") /\ ed_clients[fd].data /\ ed_clients[fd].callback
    BY <1>6, OnWritableStage
  <2>2. PICK c \in Conn : c = sock[fd] /\ peer[c] # "none"
    BY <2>1, CallbackFacts, Zenon
  <2>3. Transmit(c, stage.out) /\ Len(stage.out) \in Nat
    BY <2>1, <2>2 DEF Respond, StageDone
  <2>4. Moves(c)
    BY <2>2, <2>3, TransmitMoves, Zenon DEF LoopInv
  <2>5. PiecesOK'
    BY <2>3 DEF Transmit, LoopInv, PiecesOK
  <2>6. LoopInv'
    BY <2>1, <2>3, <2>5, RespondKeeps, Zenon DEF StageDone
  <2> QED BY <2>4, <2>6
<1>7. CASE FastCgiRelay \/ FastCgiEnd \/ \E fd \in Fd : FastCgiStart(fd) \/ FastCgiFails(fd)
  BY <1>7, FastCgiKeeps, LoopMoves
<1>8. ASSUME NEW fd \in Fd, StrayPipe(fd) PROVE LoopInv' /\ \E c : Moves(c)
  BY <1>8, StrayPipeKeeps
<1> QED BY <1>1, <1>2, <1>3, <1>4, <1>5, <1>6, <1>7, <1>8 DEF Next, ServerStep, Timeout

\* What a step does to descriptors and records: no descriptor is opened or closed
\* and a record that changes is at a sound stage; or one is closed, which costs a
\* descriptor only as LeakedOnlyByHangup says.
Stays ==
  /\ UNCHANGED <<accepted, sock, fds_used, leaked>>
  /\ \A f \in Fd : interest'[f] = {} <=> interest[f] = {}
  /\ \A f \in Fd : ed_clients'[f] = ed_clients[f]
                     \/ (ed_clients'[f].data => StageOK(ed_clients'[f]))

Closes(fd, lost) ==
  /\ interest[fd] # {} /\ sock[fd] \in 1..accepted /\ ed_epoll_del(fd, lost)
  /\ lost => Gone(sock[fd]) \/ want[sock[fd]].page \in FastCgiPage
  /\ UNCHANGED accepted

\* What is left of a batch once an event is dispatched.
LEMMA NextEventLess ==
  ASSUME NEW f, Next_event(f)
  PROVE  DOMAIN batch' \subseteq DOMAIN batch /\ running' \in {"wait", "dispatch"}
BY DEF Next_event

\* A client's descriptor is closed, or its record changes, by a callback.
LEMMA SocketEffect ==
  ASSUME SpedInv, NEW fd \in Fd, SocketCallback(fd)
  PROVE  /\ Next_event(fd)
         /\ Stays \/ \E lost \in BOOLEAN : Closes(fd, lost)
<1> USE DEF SpedInv
<1>0. /\ interest \in [Fd -> SUBSET {"IN", "OUT"}] /\ ed_clients \in [Fd -> ClientRecord]
      /\ RecordOK(fd)
  BY DEF LoopInv, LoopTypeOK
<1>1. CASE OnError(fd)
  BY <1>1 DEF OnError, Stays, epoll
<1>2. CASE OnHangup(fd)
  <2>1. interest[fd] # {} /\ sock[fd] \in 1..accepted /\ Gone(sock[fd])
    BY <1>2, CallbackFacts DEF OnHangup
  <2>2. PICK lost \in BOOLEAN : lost <=> ed_clients[fd].fp # NULL
    BY Zenon
  <2>3. ed_epoll_del(fd, lost) /\ UNCHANGED accepted /\ Next_event(fd)
    BY <1>2, <2>2 DEF OnHangup, ed_epoll_del
  <2> QED BY <2>1, <2>3, Zenon DEF Closes
<1>3. CASE OnWritableIdle(fd)
  <2>1. interest[fd] # {} /\ ~ed_clients[fd].data
    BY <1>3, CallbackFacts DEF OnWritableIdle
  <2>2. /\ interest' = [interest EXCEPT ![fd] = {"IN"}]
        /\ ed_clients' = [ed_clients EXCEPT ![fd] = [ed_clients[fd] EXCEPT !.data = FALSE]]
        /\ UNCHANGED <<accepted, sock, fds_used, leaked>> /\ Next_event(fd)
    BY <1>3 DEF OnWritableIdle, ed_epoll_set
  <2>3. ~ed_clients'[fd].data /\ \A f \in Fd \ {fd} : ed_clients'[f] = ed_clients[f]
    BY <1>0, <2>2 DEF ClientRecord
  <2>4. \A f \in Fd : interest'[f] = {} <=> interest[f] = {}
    BY <1>0, <2>1, <2>2
  <2> QED BY <2>2, <2>3, <2>4, Zenon DEF Stays
<1>4. CASE OnReadable(fd)
  <2>1. /\ interest[fd] # {} /\ ~ed_clients[fd].data /\ sock[fd] \in 1..accepted
        /\ ed_clients[fd].fp = NULL /\ ed_clients[fd].status = "START"
    BY <1>0, <1>4, CallbackFacts, Zenon DEF OnReadable, RecordOK
  <2>2. Next_event(fd) /\ UNCHANGED accepted
    BY <1>4, Zenon DEF OnReadable
  <2>3. PICK buffer : buffer = ed_clients[fd].buffer \o SubSeq(rcv[sock[fd]], 1,
                         Least(Max_read(ed_clients[fd]), Len(rcv[sock[fd]])))
    BY Zenon
  <2>4. PICK client \in ClientRecord : client = ed_clients[fd]
    BY <1>0
  <2>5. PICK read : read = [client EXCEPT !.buffer = buffer]
    BY Zenon
  <2>6. ~read.data /\ read.status = "START" /\ read.fp = NULL
    BY <2>1, <2>4, <2>5 DEF ClientRecord
  <2>7. CASE /\ ed_epoll_set(fd, "OUT", [read EXCEPT !.page = want[sock[fd]].page], TRUE)
             /\ UNCHANGED <<sock, leaked>>
    <3>1. PICK parsed : parsed = [[read EXCEPT !.page = want[sock[fd]].page] EXCEPT !.data = TRUE]
      OBVIOUS
    <3>2. parsed.status = "START" /\ parsed.fp = NULL
      BY <2>4, <2>5, <2>6, <3>1 DEF ClientRecord
    <3>3. StageOK(parsed)
      BY <3>2 DEF StageOK
    <3>4. /\ interest' = [interest EXCEPT ![fd] = {"OUT"}]
          /\ ed_clients' = [ed_clients EXCEPT ![fd] = parsed] /\ UNCHANGED fds_used
      BY <2>7, <3>1 DEF ed_epoll_set
    <3>5. \A f \in Fd : interest'[f] = {} <=> interest[f] = {}
      BY <1>0, <2>1, <3>4
    <3>6. \A f \in Fd : ed_clients'[f] = ed_clients[f] \/ StageOK(ed_clients'[f])
      BY <1>0, <3>3, <3>4
    <3> QED BY <2>2, <2>7, <3>4, <3>5, <3>6 DEF Stays
  <2>8. CASE ed_epoll_del(fd, client.fp # NULL)
    <3>1. Closes(fd, FALSE)
      BY <2>1, <2>2, <2>4, <2>8, Zenon DEF Closes, ed_epoll_del
    <3> QED BY <2>2, <3>1, Zenon
  <2>9. CASE /\ ed_clients' = [ed_clients EXCEPT ![fd] = read]
             /\ UNCHANGED <<interest, fds_used, sock, leaked>>
    <3>1. \A f \in Fd : ed_clients'[f] = ed_clients[f] \/ ~ed_clients'[f].data
      BY <1>0, <2>6, <2>9
    <3> QED BY <2>2, <2>9, <3>1 DEF Stays
  <2> QED BY <1>4, <2>3, <2>4, <2>5, <2>7, <2>8, <2>9, Zenon DEF OnReadable
<1> QED BY <1>1, <1>2, <1>3, <1>4 DEF SocketCallback

\* Every step of web_server, by its effect.
LEMMA SpedEffect ==
  ASSUME SpedInv, [Next]_vars
  PROVE  /\ DOMAIN batch' \subseteq Fd \cup {Listener} /\ running' # "mapped"
         /\ Relaying' => /\ ed_clients' = ed_clients
                         /\ ed_clients[relay'.fd].page \in FastCgiPage
         /\ \/ Stays \/ AcceptOne
            \/ \E fd \in Fd, lost \in BOOLEAN : Closes(fd, lost)
<1> USE DEF SpedInv
<1> DEFINE Quiet == UNCHANGED <<accepted, sock, epoll, leaked>>
<1>0. ASSUME Quiet PROVE Stays
  BY <1>0 DEF Stays, epoll
<1>1. CASE UNCHANGED vars \/ ClientStep
  <2>1. UNCHANGED <<accepted, sock, epoll, leaked, batch, running, relay>>
    BY <1>1 DEF vars, ClientStep, loop
  <2> QED BY <1>0, <2>1 DEF StagesOK, Relaying, epoll
<1>2. CASE EpollWait(<< >>)
  <2>1. DOMAIN << >> = {}
    OBVIOUS
  <2>2. DOMAIN batch' \subseteq Fd \cup {Listener}
    BY <1>2, <2>1, EpollWaitKeeps
  <2>3. running' = "dispatch" /\ Quiet
    BY <1>2 DEF EpollWait
  <2> QED BY <1>0, <2>2, <2>3 DEF Relaying
<1>3. CASE StartAccepting \/ StopAccepting
  <2>1. Quiet /\ DOMAIN batch' \subseteq DOMAIN batch /\ running' \in {"wait", "dispatch", "accept"}
    BY <1>3, NextEventLess DEF StartAccepting, StopAccepting
  <2> QED BY <1>0, <2>1 DEF Relaying
<1>4. CASE AcceptOne
  <2>1. running' = "accept" /\ UNCHANGED batch
    BY <1>4 DEF AcceptOne
  <2> QED BY <1>4, <2>1 DEF Relaying
<1>5. ASSUME NEW fd \in Fd, SocketCallback(fd)
      PROVE  /\ DOMAIN batch' \subseteq Fd \cup {Listener} /\ running' \notin {"relay", "mapped"}
             /\ Stays \/ \E lost \in BOOLEAN : Closes(fd, lost)
  BY <1>5, SocketEffect, NextEventLess
<1>6. ASSUME NEW fd \in Fd, OnWritable(fd)
      PROVE  /\ DOMAIN batch' \subseteq Fd \cup {Listener} /\ running' \notin {"relay", "mapped"}
             /\ Stays \/ \E lost \in BOOLEAN : Closes(fd, lost)
  <2>1. PICK stage : Respond(fd, stage) /\ StageDone(ed_clients[fd], stage) /\ Callback(fd, "OUT")
    BY <1>6, OnWritableStage, Zenon
  <2>2. interest[fd] # {} /\ sock[fd] \in 1..accepted
    BY <2>1, CallbackFacts
  <2>3. DOMAIN batch' \subseteq DOMAIN batch /\ running' \in {"wait", "dispatch"} /\ UNCHANGED accepted
    BY <2>1, NextEventLess DEF Respond
  <2>4. CASE stage.client.status = "FINISH"
    <3>1. ed_epoll_del(fd, FALSE)
      BY <2>1, <2>4 DEF Respond, StageDone, ed_epoll_del
    <3>2. Closes(fd, FALSE)
      BY <2>2, <2>3, <3>1, Zenon DEF Closes
    <3> QED BY <2>3, <3>2, Zenon
  <2>5. CASE stage.client.status # "FINISH"
    <3>1. /\ ed_clients' = [ed_clients EXCEPT ![fd] = stage.client] /\ StageOK(stage.client)
          /\ UNCHANGED <<interest, fds_used, sock, leaked>>
      BY <2>1, <2>5, Zenon DEF Respond, StageDone
    <3>2. \A f \in Fd : ed_clients'[f] = ed_clients[f] \/ StageOK(ed_clients'[f])
      BY <3>1 DEF LoopInv, LoopTypeOK
    <3> QED BY <2>3, <3>1, <3>2, Zenon DEF Stays
  <2> QED BY <2>4, <2>5
<1>7. ASSUME NEW fd \in Fd, FastCgiStart(fd)
      PROVE  /\ UNCHANGED <<accepted, sock, epoll, leaked, batch>> /\ running' = "relay"
             /\ ed_clients[relay'.fd].page \in FastCgiPage
  BY <1>7 DEF FastCgiStart, FastCgiRequested
<1>8. ASSUME NEW fd \in Fd, FastCgiFails(fd)
      PROVE  /\ DOMAIN batch' \subseteq Fd \cup {Listener} /\ running' \notin {"relay", "mapped"}
             /\ \E lost \in BOOLEAN : Closes(fd, lost)
  <2>1. Callback(fd, "OUT") /\ ed_clients[fd].data /\ ed_clients[fd].page \in FastCgiPage
    BY <1>8, Zenon DEF FastCgiFails, FastCgiRequested
  <2>2. interest[fd] # {} /\ sock[fd] \in 1..accepted /\ want[sock[fd]].page \in FastCgiPage
    BY <2>1, CallbackFacts DEF LoopInv, RecordOK
  <2>3. PICK lost \in BOOLEAN : lost <=> DescriptorsLeft(1)
    <3>1. CASE DescriptorsLeft(1)
      BY <3>1, Zenon
    <3>2. CASE ~DescriptorsLeft(1)
      BY <3>2, Zenon
    <3> QED BY <3>1, <3>2
  <2>4. ed_epoll_del(fd, lost)
    BY <1>8, <2>3, Zenon DEF FastCgiFails, ed_epoll_del
  <2>5. Next_event(fd) /\ UNCHANGED accepted
    BY <1>8, Zenon DEF FastCgiFails
  <2>6. Closes(fd, lost)
    BY <2>2, <2>4, <2>5 DEF Closes
  <2> QED BY <2>5, <2>6, NextEventLess, Zenon
<1>9. CASE FastCgiRelay
  <2>1. UNCHANGED <<accepted, sock, epoll, leaked, batch, running>> /\ Relaying /\ running = "relay"
    BY <1>9 DEF FastCgiRelay, Relaying
  <2>2. relay'.fd = relay.fd
    BY <1>9 DEF FastCgiRelay, LoopInv, RelayOK
  <2> QED BY <1>0, <2>1, <2>2 DEF StagesOK, epoll
<1>10. CASE FastCgiEnd
  <2>1. Relaying
    BY <1>10 DEF FastCgiEnd, Relaying
  <2>2. PICK fd \in Fd : fd = relay.fd /\ interest[fd] # {} /\ sock[fd] \in 1..accepted
    BY <2>1, RelayClient
  <2>3. ed_epoll_del(fd, FALSE) /\ Next_event(fd) /\ UNCHANGED accepted
    BY <1>10, <2>2, Zenon DEF FastCgiEnd
  <2>4. Closes(fd, FALSE)
    BY <2>2, <2>3, Zenon DEF Closes
  <2> QED BY <2>3, <2>4, NextEventLess, Zenon DEF Relaying
<1>11. CASE \E fd \in Fd : FastCgiStart(fd)
  BY <1>0, <1>7, <1>11 DEF epoll
<1>12. CASE \E fd \in Fd : SocketCallback(fd) \/ OnWritable(fd) \/ FastCgiFails(fd)
  BY <1>5, <1>6, <1>8, <1>12 DEF Relaying
<1>13. CASE \E fd \in Fd : StrayPipe(fd)
  <2>1. Quiet /\ DOMAIN batch' = {} /\ running' = "stray"
    BY <1>13 DEF StrayPipe
  <2> QED BY <1>0, <2>1 DEF Relaying
<1> QED
  BY <1>1, <1>2, <1>3, <1>4, <1>9, <1>10, <1>11, <1>12, <1>13, Zenon
     DEF Next, ServerStep, Timeout, AcceptCallback

\* SpedInv holds at the start and after every step.
LEMMA SpedInitOK == Init => SpedInv
<1> SUFFICES ASSUME Init PROVE SpedInv
  OBVIOUS
<1>1. LoopInv
  BY LoopInitOK DEF Init
<1>2. /\ interest = [fd \in Fd |-> {}] /\ ed_clients = [fd \in Fd |-> Cleared]
      /\ fds_used = 1 /\ leaked = 0 /\ batch = << >> /\ running = "wait" /\ accepted = 0
  BY DEF Init, LoopInit
<1>3. StagesOK
  BY <1>2, Zenon DEF StagesOK, Cleared, Relaying
<1> QED BY <1>1, <1>2, <1>3 DEF SpedInv

\* No step of the server breaks SpedInv.
LEMMA SpedNextOK == SpedInv /\ [Next]_vars => SpedInv'
<1> SUFFICES ASSUME SpedInv, [Next]_vars PROVE SpedInv'
  OBVIOUS
<1>1. LoopInv' /\ \E w : Moves(w)
  BY SpedMoves
<1>2. /\ DOMAIN batch' \subseteq Fd \cup {Listener} /\ running' # "mapped"
      /\ Relaying' => /\ ed_clients' = ed_clients
                      /\ ed_clients[relay'.fd].page \in FastCgiPage
      /\ \/ Stays \/ AcceptOne
         \/ \E fd \in Fd, lost \in BOOLEAN : Closes(fd, lost)
  BY SpedEffect
<1>4. \A f \in Fd : ed_clients'[f].data => StageOK(ed_clients'[f])
  <2>0. ed_clients \in [Fd -> ClientRecord] /\ \A f \in Fd : ed_clients[f].data => StageOK(ed_clients[f])
    BY DEF SpedInv, LoopInv, LoopTypeOK, StagesOK
  <2>1. CASE Stays
    BY <2>0, <2>1 DEF Stays
  <2>2. CASE AcceptOne
    <3>1. PICK fd \in Fd : ed_epoll_add(fd)
      BY <2>2 DEF AcceptOne
    <3>2. \A f \in Fd : ed_clients'[f] = ed_clients[f] \/ ~ed_clients'[f].data
      BY <2>0, <3>1 DEF ed_epoll_add, epoll, ClientRecord
    <3> QED BY <2>0, <3>2
  <2>3. CASE \E fd \in Fd, lost \in BOOLEAN : Closes(fd, lost)
    <3>1. PICK fd \in Fd : ed_clients' = [ed_clients EXCEPT ![fd] = Cleared]
      BY <2>3, Zenon DEF Closes, ed_epoll_del
    <3>2. ~Cleared.data
      BY DEF Cleared
    <3>3. \A f \in Fd : ed_clients'[f] = ed_clients[f] \/ ~ed_clients'[f].data
      BY <2>0, <3>1, <3>2
    <3> QED BY <2>0, <3>3
  <2> QED BY <1>2, <2>1, <2>2, <2>3, Zenon
<1>5. StagesOK'
  BY <1>2, <1>4 DEF StagesOK
<1> QED BY <1>1, <1>2, <1>5 DEF SpedInv

\* The invariant of the stages and of the loop holds always.
LEMMA SpedInvariant == Spec => []SpedInv
BY SpedInitOK, SpedNextOK, PTL DEF Spec

\* ed_epoll_dispatch_events never runs the callback of an event whose descriptor
\* has been closed, or closed and accepted again, by a callback before it.
THEOREM SpedDispatchesLive == Spec => []DispatchesLiveClient
<1>1. SpedInv => DispatchesLiveClient
  <2> SUFFICES ASSUME SpedInv, NEW fd \in DOMAIN batch \ {Listener}
               PROVE  ed_clients[fd].callback /\ sock[fd] = batch[fd].conn
    BY DEF DispatchesLiveClient
  <2>1. fd \in Fd /\ fd \in DOMAIN batch \cap Fd
    BY DEF SpedInv
  <2> QED BY <2>1 DEF SpedInv, LoopInv, EventOK, RecordOK
<1> QED BY <1>1, SpedInvariant, PTL
-----------------------------------------------------------------------------
(* The requests: no piece is lost between a client and the parser.         *)

\* The pieces of a request that the loop has not read.
Pieces(c) == rcv[c] \o unsent[c]

\* With the parser's buffer they are the request.
Whole_request ==
  /\ \A c \in Conn : c > arrived => rcv[c] = << >>
  /\ \A c \in Conn : accepted < c /\ c =< arrived => Pieces(c) = want[c].form
  /\ \A f \in Fd : interest[f] # {} /\ ~ed_clients[f].data =>
       ed_clients[f].buffer \o Pieces(sock[f]) = want[sock[f]].form

\* What a step does to the pieces of the clients other than d, and to the buffers: one
\* whose request is still to parse is left alone, or is that of a new connection, or
\* is that of d.
Unread(f) ==
  interest'[f] # {} /\ ~ed_clients'[f].data =>
    /\ interest[f] # {} /\ ~ed_clients[f].data /\ sock'[f] = sock[f]
    /\ ed_clients'[f].buffer = ed_clients[f].buffer

Fresh(f) ==
  /\ sock'[f] \in Conn /\ accepted < sock'[f] /\ sock'[f] =< arrived
  /\ ed_clients'[f].buffer = << >>

PiecesKept(d) ==
  /\ \A c \in Conn : c # d /\ c =< arrived => Pieces(c)' = Pieces(c)
  /\ \A c \in Conn : c > arrived' => rcv'[c] = << >>
  /\ \A c \in Conn : arrived < c /\ c =< arrived' => Pieces(c)' = want'[c].form

BuffersKept(d) ==
  /\ \A f \in Fd : sock'[f] # d \/ d = NoConn => Unread(f) \/ Fresh(f)
  /\ d # NoConn => \A f \in Fd :
       sock'[f] = d /\ interest'[f] # {} /\ ~ed_clients'[f].data =>
         ed_clients'[f].buffer \o Pieces(d)' = want'[d].form

\* The loop reads from one connection, d, at most.
LEMMA RequestKept ==
  ASSUME LoopInv, LoopInv', Whole_request, NEW w, Moves(w), NEW d, d \in 0..accepted,
         accepted =< accepted', accepted' \in Nat, PiecesKept(d), BuffersKept(d)
  PROVE  Whole_request'
<1>1. /\ accepted \in 0..arrived /\ arrived \in 0..MaxConns /\ arrived \in Nat /\ MaxConns \in Nat
      /\ accepted \in Nat /\ sock \in [Fd -> 0..accepted] /\ \A f \in Fd : RecordOK(f)
  BY LoopFacts, Zenon
<1>2. ASSUME NEW c \in Conn, accepted' < c, c =< arrived' PROVE Pieces(c)' = want'[c].form
  <2>1. CASE c > arrived
    BY <1>2, <2>1 DEF PiecesKept
  <2>2. CASE c =< arrived
    <3>1. c \in 1..arrived /\ accepted < c /\ c # d
      BY <1>1, <1>2, <2>2 DEF Conn
    <3>2. want'[c] = want[c]
      BY <3>1, Zenon DEF Moves
    <3>3. Pieces(c)' = Pieces(c)
      BY <2>2, <3>1, Zenon DEF PiecesKept
    <3>4. Pieces(c) = want[c].form
      BY <2>2, <3>1, Zenon DEF Whole_request
    <3> QED BY <3>2, <3>3, <3>4, Zenon
  <2> QED BY <1>1, <2>1, <2>2 DEF Conn
<1>3. ASSUME NEW f \in Fd, interest'[f] # {}, ~ed_clients'[f].data
      PROVE  ed_clients'[f].buffer \o Pieces(sock[f])' = want'[sock'[f]].form
  <2>1. CASE sock'[f] = d /\ d # NoConn
    BY <1>3, <2>1, Zenon DEF BuffersKept
  <2>2. CASE Unread(f) /\ (sock'[f] # d \/ d = NoConn)
    <3>1. /\ interest[f] # {} /\ ~ed_clients[f].data /\ sock'[f] = sock[f]
          /\ ed_clients'[f].buffer = ed_clients[f].buffer
      BY <1>3, <2>2, Zenon DEF Unread
    <3>2. PICK c \in 0..accepted : c = sock[f]
      BY <1>1
    <3>3. c # NoConn /\ c # d
      BY <1>1, <2>2, <3>1, <3>2, Zenon DEF RecordOK
    <3>4. c \in Conn /\ c \in 1..arrived /\ c =< arrived
      BY <1>1, <3>2, <3>3 DEF Conn, NoConn
    <3>5. want'[c] = want[c]
      BY <3>4, Zenon DEF Moves
    <3>6. Pieces(c)' = Pieces(c)
      BY <3>3, <3>4, Zenon DEF PiecesKept
    <3>7. ed_clients[f].buffer \o Pieces(c) = want[c].form
      BY <3>1, <3>2, Zenon DEF Whole_request
    <3>8. Pieces(sock[f])' = Pieces(c)'
      BY <3>1, <3>2, Zenon DEF Pieces
    <3> QED BY <3>1, <3>2, <3>5, <3>6, <3>7, <3>8, Zenon
  <2>3. CASE Fresh(f) /\ (sock'[f] # d \/ d = NoConn)
    <3>1. PICK c \in Conn : /\ c = sock'[f] /\ accepted < c /\ c =< arrived
                            /\ ed_clients'[f].buffer = << >>
      BY <2>3, Zenon DEF Fresh
    <3>2. c \in 1..arrived /\ c # d
      BY <1>1, <3>1 DEF Conn
    <3>3. want'[c] = want[c]
      BY <3>2, Zenon DEF Moves
    <3>4. Pieces(c)' = Pieces(c)
      BY <3>1, <3>2, Zenon DEF PiecesKept
    <3>5. Pieces(c) = want[c].form
      BY <3>1, Zenon DEF Whole_request
    <3>6. Pieces(c) \in Seq(Fragment)
      BY ConcatProperties DEF Pieces, LoopInv, PiecesOK
    <3>7. << >> \o Pieces(c) = Pieces(c)
      BY <3>6, ConcatEmptySeq
    <3>8. Pieces(sock[f])' = Pieces(c)'
      BY <3>1, Zenon DEF Pieces
    <3> QED BY <3>1, <3>3, <3>4, <3>5, <3>7, <3>8, Zenon
  <2> QED BY <2>1, <2>2, <2>3, Zenon DEF BuffersKept
<1>4. \A c \in Conn : c > arrived' => rcv'[c] = << >>
  BY Zenon DEF PiecesKept
<1> QED BY <1>2, <1>3, <1>4, Zenon DEF Whole_request

\* A piece goes from the client to the socket.
LEMMA ClientPiecesKept ==
  ASSUME LoopInv, Whole_request, ClientStep
  PROVE  PiecesKept(NoConn)
<1> USE DEF PiecesKept
<1>0. /\ rcv \in [Conn -> Seq(Fragment)] /\ unsent \in [Conn -> Seq(Fragment)]
      /\ want \in [Conn -> Request] /\ arrived \in Nat
  BY LoopFacts, Zenon DEF LoopInv, PiecesOK, NetworkOK
<1>1. CASE Connect
  <2>1. PICK r \in plan.request[arrived + 1] :
          /\ want' = [want EXCEPT ![arrived + 1] = r]
          /\ unsent' = [unsent EXCEPT ![arrived + 1] = r.form]
          /\ rcv' = rcv /\ arrived' = arrived + 1 /\ arrived < MaxConns
    BY <1>1, Zenon DEF Connect
  <2>2. arrived + 1 \in Conn
    BY <1>0, <2>1, ClientsAssumption DEF Conn
  <2>3. want'[arrived + 1] = r /\ unsent'[arrived + 1] = r.form
    BY <1>0, <2>1, <2>2
  <2>4. r.form \in Seq(Fragment)
    <3>1. r.form \in Seq({"get", "eol", "text", "lf"})
      BY <2>2, LoopAssumption DEF LoopInv, NetworkOK
    <3>2. {"get", "eol", "text", "lf"} \subseteq Fragment
      BY DEF Fragment
    <3> QED BY <3>1, <3>2
  <2>5. \A c \in Conn : c =< arrived => unsent'[c] = unsent[c]
    BY <1>0, <2>1
  <2>6. rcv[arrived + 1] = << >>
    BY <1>0, <2>2 DEF Whole_request
  <2>7. << >> \o r.form = r.form
    BY <2>4, ConcatEmptySeq
  <2>9. ASSUME NEW c \in Conn, arrived < c, c =< arrived' PROVE Pieces(c)' = want'[c].form
    <3>1. PICK k \in Conn : k = arrived + 1
      BY <2>2
    <3>2. rcv'[k] = << >> /\ unsent'[k] = r.form /\ want'[k] = r
      BY <2>1, <2>3, <2>6, <3>1, Zenon
    <3>3. Pieces(k)' = want'[k].form
      BY <2>7, <3>2 DEF Pieces
    <3>4. c = k
      BY <1>0, <2>1, <2>9, <3>1 DEF Conn
    <3> QED BY <3>3, <3>4
  <2>10. \A c \in Conn : c =< arrived => Pieces(c)' = Pieces(c)
    BY <2>1, <2>5, Zenon DEF Pieces
  <2>11. \A c \in Conn : c > arrived' => rcv'[c] = << >>
    BY <1>0, <2>1 DEF Whole_request, Conn
  <2> QED BY <2>9, <2>10, <2>11
<1>2. ASSUME NEW c \in Conn, ClientSend(c)
      PROVE  /\ \A e \in Conn : Pieces(e)' = Pieces(e)
             /\ \A e \in Conn : e > arrived => rcv'[e] = << >>
             /\ arrived' = arrived
  <2>1. /\ unsent[c] # << >> /\ peer[c] = "open" /\ arrived' = arrived
        /\ rcv' = [rcv EXCEPT ![c] = Append(@, Head(unsent[c]))]
        /\ unsent' = [unsent EXCEPT ![c] = Tail(@)]
    BY <1>2 DEF ClientSend
  <2>2. PICK r \in Seq(Fragment), u \in Seq(Fragment) : r = rcv[c] /\ u = unsent[c] /\ u # << >>
    BY <1>0, <2>1
  <2>3. rcv'[c] = Append(r, Head(u)) /\ unsent'[c] = Tail(u)
    BY <1>0, <2>1, <2>2
  <2>4. \A e \in Conn \ {c} : rcv'[e] = rcv[e] /\ unsent'[e] = unsent[e]
    BY <1>0, <2>1
  <2>5. Append(r, Head(u)) \o Tail(u) = r \o u
    <3>1. Head(u) \in Fragment /\ Tail(u) \in Seq(Fragment) /\ <<Head(u)>> \in Seq(Fragment)
      BY <2>2, HeadTailProperties
    <3>2. Append(r, Head(u)) = r \o <<Head(u)>>
      BY <3>1, AppendIsConcat
    <3>3. (r \o <<Head(u)>>) \o Tail(u) = r \o (<<Head(u)>> \o Tail(u))
      BY <3>1, ConcatAssociative
    <3>4. u = <<Head(u)>> \o Tail(u)
      BY <2>2
    <3> QED BY <3>2, <3>3, <3>4, Zenon
  <2>6. \A e \in Conn : Pieces(e)' = Pieces(e)
    BY <2>2, <2>3, <2>4, <2>5, Zenon DEF Pieces
  <2>7. c =< arrived
    BY <2>1 DEF LoopInv, NetworkOK, Conn
  <2>8. \A e \in Conn : e > arrived => rcv'[e] = << >>
    BY <1>0, <2>4, <2>7 DEF Whole_request, Conn
  <2> QED BY <2>1, <2>6, <2>8
<1>3. ASSUME NEW c \in Conn, ClientRead(c) \/ ClientClose(c, {})
      PROVE  UNCHANGED <<rcv, unsent, arrived>>
  <2>1. CASE ClientRead(c)
    BY <2>1 DEF ClientRead
  <2>2. CASE ClientClose(c, {})
    <3>1. rcv' = [rcv EXCEPT ![c] = rcv[c] \o << >>] /\ UNCHANGED <<unsent, arrived>>
      BY <2>2 DEF ClientClose
    <3>2. rcv[c] \o << >> = rcv[c]
      BY <1>0, ConcatEmptySeq
    <3>3. rcv' = rcv
      BY <1>0, <3>1, <3>2, Zenon
    <3> QED BY <3>1, <3>3
  <2> QED BY <1>3, <2>1, <2>2
<1>4. CASE UNCHANGED <<rcv, unsent, arrived>>
  <2>1. \A c \in Conn : Pieces(c)' = Pieces(c)
    BY <1>4 DEF Pieces
  <2>2. \A c \in Conn : ~(arrived < c /\ c =< arrived')
    BY <1>0, <1>4 DEF Conn
  <2> QED BY <1>4, <2>1, <2>2 DEF Whole_request
<1>5. CASE \E c \in Conn : ClientSend(c)
  <2>1. arrived' = arrived /\ \A c \in Conn : ~(arrived < c /\ c =< arrived')
    BY <1>0, <1>2, <1>5 DEF Conn
  <2> QED BY <1>2, <1>5, <2>1
<1> QED BY <1>1, <1>3, <1>4, <1>5 DEF ClientStep

\* What one read() takes is added to the buffer.
LEMMA ReadPieces ==
  ASSUME LoopInv, Whole_request, NEW fd \in Fd, OnReadable(fd)
  PROVE  \E c \in Conn, buffer \in Seq(Fragment) :
           /\ c = sock[fd] /\ c \in 1..accepted /\ c \in 1..arrived
           /\ buffer = ed_clients[fd].buffer \o SubSeq(rcv[c], 1,
                         Least(Max_read(ed_clients[fd]), Len(rcv[c])))
           /\ buffer \o Pieces(c)' = want[c].form /\ Pieces(c)' \in Seq(Fragment)
           /\ \A e \in Conn \ {c} : rcv'[e] = rcv[e]
           /\ UNCHANGED <<plan, want, unsent, peer, sent, inflight, arrived>>
<1>1. Callback(fd, "IN")
  BY Zenon DEF OnReadable
<1>2. PICK c \in Conn : c = sock[fd] /\ c \in 1..accepted /\ c \in 1..arrived
  BY <1>1, CallbackFacts
<1>3. interest[fd] # {} /\ ~ed_clients[fd].data
  BY <1>1, CallbackFacts
<1>4. PICK n : n = Least(Max_read(ed_clients[fd]), Len(rcv[sock[fd]]))
  OBVIOUS
<1>5. PICK r \in Seq(Fragment), b \in Seq(Fragment) :
        /\ r = rcv[c] /\ b = ed_clients[fd].buffer /\ n \in 0..Len(r)
        /\ SubSeq(r, 1, n) \in Seq(Fragment) /\ SubSeq(r, n + 1, Len(r)) \in Seq(Fragment)
        /\ b \o SubSeq(r, 1, n) \in Seq(Fragment)
  BY <1>1, <1>2, <1>4, ReadFits, Zenon
<1>6. PICK u \in Seq(Fragment) : u = unsent[c]
  BY DEF LoopInv, PiecesOK
<1>7. Receive(c, n)
  BY <1>2, <1>4, Zenon DEF OnReadable
<1>8. /\ rcv' = [rcv EXCEPT ![c] = SubSeq(rcv[c], n + 1, Len(rcv[c]))]
      /\ UNCHANGED <<plan, want, unsent, peer, sent, inflight, arrived>>
  BY <1>7 DEF Receive
<1>9. rcv'[c] = SubSeq(r, n + 1, Len(r)) /\ \A e \in Conn \ {c} : rcv'[e] = rcv[e]
  BY <1>5, <1>8, Zenon DEF LoopInv, PiecesOK
<1>10. PICK s \in Seq(Fragment), t \in Seq(Fragment) :
         s = SubSeq(r, 1, n) /\ t = SubSeq(r, n + 1, Len(r))
  BY <1>5, Zenon
<1>11. s \o t = r
  <2>1. 1 \in 1..Len(r) + 1 /\ n \in (1 - 1)..Len(r) /\ Len(r) \in n..Len(r)
    BY <1>5, LenProperties
  <2>2. SubSeq(r, 1, n) \o SubSeq(r, n + 1, Len(r)) = SubSeq(r, 1, Len(r))
    BY <2>1, ConcatAdjacentSubSeq, Zenon
  <2> QED BY <1>10, <2>2, SubSeqFull, Zenon
<1>12. Pieces(c)' = t \o u /\ t \o u \in Seq(Fragment)
  BY <1>6, <1>8, <1>9, <1>10, ConcatProperties, Zenon DEF Pieces
<1>13. b \o (r \o u) = want[c].form
  BY <1>2, <1>3, <1>5, <1>6, Zenon DEF Whole_request, Pieces
<1>14. (b \o s) \o (t \o u) = b \o (r \o u)
  <2>1. Moved(b, s, t, u, r)
    BY <1>11, MoveBetween, Zenon
  <2> QED BY <2>1 DEF Moved
<1>15. PICK buffer \in Seq(Fragment) : buffer = b \o s
  BY <1>5, <1>10, Zenon
<1>16. buffer \o Pieces(c)' = want[c].form
  BY <1>12, <1>13, <1>14, <1>15, Zenon
<1>17. buffer = ed_clients[fd].buffer \o SubSeq(rcv[c], 1,
                  Least(Max_read(ed_clients[fd]), Len(rcv[c])))
  BY <1>2, <1>4, <1>5, <1>10, <1>15, Zenon
<1> QED BY <1>2, <1>8, <1>9, <1>12, <1>16, <1>17, Zenon

\* process_http_request, given the first pieces of a well-formed request up to the
\* end of a line, matches: however the request is cut, it is not called illegal.
LEMMA NeverIllegal ==
  ASSUME NEW b \in Seq(Fragment), NEW r \in Seq(Fragment), WellFormed(b \o r),
         b # << >>, Last(b) \in {"eol", "lf"}
  PROVE  process_http_request(b)
<1>1. PICK l \in Nat, m \in Nat : l = Len(b) /\ m = Len(r)
  BY LenProperties
<1>2. PICK f \in Seq(Fragment) : f = b \o r
  BY ConcatProperties, Zenon
<1>3. Len(f) = l + m /\ \A i \in 1..(l + m) : i =< l => f[i] = b[i]
  <2>1. Len(b \o r) = Len(b) + Len(r)
        /\ \A i \in 1..(Len(b) + Len(r)) :
             (b \o r)[i] = IF i <= Len(b) THEN b[i] ELSE r[i - Len(b)]
    BY ConcatProperties
  <2> QED BY <1>1, <1>2, <2>1
<1>4. l >= 1
  <2>1. Len(b) # 0
    BY EmptySeq
  <2> QED BY <1>1, <2>1
<1>5. b[l] \in {"eol", "lf"}
  BY <1>1 DEF Last
<1>6. f[1] = "get" /\ f[2] = "eol" /\ \A i \in 1..(l + m) : f[i] # "lf"
  BY <1>2, <1>3 DEF WellFormed
<1>7. \A i \in 1..l : f[i] = b[i] /\ i \in 1..(l + m)
  BY <1>3
<1>8. b[l] = "eol" /\ b[1] = "get"
  BY <1>4, <1>5, <1>6, <1>7
<1>9. l >= 2
  BY <1>4, <1>8
<1>10. b[2] = "eol"
  BY <1>6, <1>7, <1>9
<1> QED BY <1>1, <1>8, <1>9, <1>10 DEF process_http_request, Last

\* Only ed_socket_callback's read() takes pieces; no other step of the loop changes
\* a buffer whose request is still to parse.
LEMMA RequestStep ==
  ASSUME SpedInv, SpedInv', Whole_request, [Next]_vars
  PROVE  Whole_request'
<1>0. /\ LoopInv /\ LoopInv' /\ accepted \in Nat /\ arrived \in Nat /\ accepted \in 0..arrived
      /\ arrived \in 0..MaxConns /\ MaxConns \in Nat
      /\ sock \in [Fd -> 0..accepted] /\ interest \in [Fd -> SUBSET {"IN", "OUT"}]
      /\ ed_clients \in [Fd -> ClientRecord] /\ SockDistinct /\ \A f \in Fd : RecordOK(f)
  BY LoopFacts, Zenon DEF SpedInv
<1>1. PICK w : Moves(w)
  BY SpedMoves
<1>2. NoConn \in 0..accepted
  BY <1>0 DEF NoConn
<1>3. ASSUME UNCHANGED <<rcv, unsent, arrived>>, accepted' \in {accepted, accepted + 1},
             \A f \in Fd : Unread(f) \/ Fresh(f)
      PROVE  Whole_request'
  <2>1. \A c \in Conn : Pieces(c)' = Pieces(c)
    BY <1>3, Zenon DEF Pieces
  <2>2. \A c \in Conn : ~(arrived < c /\ c =< arrived')
    BY <1>0, <1>3 DEF Conn
  <2>3. \A c \in Conn : c > arrived' => rcv'[c] = << >>
    BY <1>3, Zenon DEF Whole_request
  <2>4. PiecesKept(NoConn) /\ BuffersKept(NoConn)
    BY <1>3, <2>1, <2>2, <2>3, Zenon DEF PiecesKept, BuffersKept
  <2>5. accepted =< accepted' /\ accepted' \in Nat
    BY <1>0, <1>3
  <2> QED BY <1>0, <1>1, <1>2, <2>4, <2>5, RequestKept, Zenon
<1>4. ASSUME UNCHANGED <<sock, interest, ed_clients>> PROVE \A f \in Fd : Unread(f)
  BY <1>4, Zenon DEF Unread
<1>5. CASE ClientStep
  <2>1. UNCHANGED <<accepted, sock, interest, ed_clients>>
    BY <1>5, Zenon DEF ClientStep, loop, epoll
  <2>2. BuffersKept(NoConn)
    BY <1>4, <2>1, Zenon DEF BuffersKept
  <2>3. PiecesKept(NoConn)
    BY <1>0, <1>5, ClientPiecesKept, Zenon
  <2>4. accepted =< accepted' /\ accepted' \in Nat
    BY <1>0, <2>1
  <2> QED BY <1>0, <1>1, <1>2, <2>2, <2>3, <2>4, RequestKept, Zenon
<1>6. CASE \/ UNCHANGED vars \/ EpollWait(<< >>) \/ StartAccepting \/ StopAccepting
           \/ FastCgiRelay \/ \E fd \in Fd : OnError(fd) \/ FastCgiStart(fd) \/ StrayPipe(fd)
  <2>1. UNCHANGED <<accepted, sock, interest, ed_clients, rcv, unsent, arrived>>
    BY <1>6, Zenon DEF vars, network, loop, epoll, EpollWait, StartAccepting, StopAccepting,
                FastCgiRelay, Transmit, OnError, FastCgiStart, StrayPipe
  <2> QED BY <1>3, <1>4, <2>1, Zenon
<1>7. ASSUME NEW fd \in Fd, NEW lost, ed_epoll_del(fd, lost),
             UNCHANGED <<rcv, unsent, arrived, accepted>>
      PROVE  Whole_request'
  <2>1. \A f \in Fd : Unread(f)
    BY <1>0, <1>7 DEF ed_epoll_del, Unread
  <2> QED BY <1>3, <1>7, <2>1, Zenon
<1>8. ASSUME NEW fd \in Fd, OnHangup(fd) \/ FastCgiFails(fd) PROVE Whole_request'
  <2>1. UNCHANGED <<rcv, unsent, arrived, accepted>> /\ \E lost : ed_epoll_del(fd, lost)
    BY <1>8, Zenon DEF OnHangup, FastCgiFails, network, Transmit
  <2> QED BY <1>7, <2>1, Zenon
<1>9. CASE FastCgiEnd
  <2>1. PICK fd \in Fd : fd = relay.fd
    BY <1>0, <1>9, Zenon DEF FastCgiEnd, LoopInv, RelayOK, Relaying
  <2>2. UNCHANGED <<rcv, unsent, arrived, accepted>> /\ ed_epoll_del(fd, FALSE)
    BY <1>9, <2>1, Zenon DEF FastCgiEnd, network
  <2> QED BY <1>7, <2>2, Zenon
<1>10. ASSUME NEW fd \in Fd, OnWritable(fd) PROVE Whole_request'
  <2>1. PICK stage : Respond(fd, stage) /\ StageDone(ed_clients[fd], stage) /\ ed_clients[fd].data
    BY <1>10, OnWritableStage, Zenon
  <2>2. UNCHANGED <<rcv, unsent, arrived, accepted>>
    BY <2>1, Zenon DEF Respond, Transmit
  <2>3. CASE stage.client.status = "FINISH"
    BY <1>7, <2>1, <2>2, <2>3, Zenon DEF Respond
  <2>4. CASE stage.client.status # "FINISH"
    <3>1. /\ ed_clients' = [ed_clients EXCEPT ![fd] = stage.client] /\ stage.client.data
          /\ UNCHANGED <<interest, sock>>
      BY <2>1, <2>4, Zenon DEF Respond, StageDone
    <3>2. \A f \in Fd : Unread(f)
      BY <1>0, <3>1 DEF Unread
    <3> QED BY <1>3, <2>2, <3>2, Zenon
  <2> QED BY <2>3, <2>4
<1>11. ASSUME NEW fd \in Fd, OnWritableIdle(fd) PROVE Whole_request'
  <2>1. /\ interest[fd] # {} /\ ~ed_clients[fd].data
    BY <1>0, <1>11, CallbackFacts, Zenon DEF OnWritableIdle
  <2>2. /\ interest' = [interest EXCEPT ![fd] = {"IN"}]
        /\ ed_clients' = [ed_clients EXCEPT ![fd] = [ed_clients[fd] EXCEPT !.data = FALSE]]
        /\ UNCHANGED <<accepted, sock, rcv, unsent, arrived>>
    BY <1>11 DEF OnWritableIdle, ed_epoll_set, network
  <2>3. ed_clients'[fd].buffer = ed_clients[fd].buffer
    BY <1>0, <2>2 DEF ClientRecord
  <2>4. \A f \in Fd : Unread(f)
    BY <1>0, <2>1, <2>2, <2>3 DEF Unread
  <2> QED BY <1>3, <2>2, <2>4, Zenon
<1>12. CASE AcceptOne
  <2>1. PICK fd \in Fd : /\ sock[fd] = NoConn /\ sock' = [sock EXCEPT ![fd] = accepted + 1]
                         /\ ed_epoll_add(fd)
    BY <1>12, Zenon DEF AcceptOne
  <2>2. accepted' = accepted + 1 /\ UNCHANGED <<rcv, unsent, arrived>> /\ accepted < arrived
    BY <1>12 DEF AcceptOne, network
  <2>3. ed_clients[fd] = Cleared
    BY <1>0, <2>1, Zenon DEF RecordOK
  <2>4. /\ \A f \in Fd \ {fd} : /\ interest'[f] = interest[f] /\ ed_clients'[f] = ed_clients[f]
                                 /\ sock'[f] = sock[f]
        /\ sock'[fd] = accepted + 1
    BY <1>0, <2>1 DEF ed_epoll_add, epoll
  <2>5. ed_clients'[fd].buffer = << >>
    BY <1>0, <2>1, <2>3 DEF ed_epoll_add, epoll, Cleared, ClientRecord
  <2>6. Fresh(fd)
    <3>1. accepted + 1 \in Conn /\ accepted < accepted + 1 /\ accepted + 1 =< arrived
      BY <1>0, <2>2 DEF Conn
    <3> QED BY <2>4, <2>5, <3>1, Zenon DEF Fresh
  <2>7. \A f \in Fd : Unread(f) \/ Fresh(f)
    BY <2>4, <2>6, Zenon DEF Unread
  <2> QED BY <1>3, <2>2, <2>7, Zenon
<1>13. ASSUME NEW fd \in Fd, OnReadable(fd) PROVE Whole_request'
  <2>1. PICK c \in Conn, buffer \in Seq(Fragment) :
           /\ c = sock[fd] /\ c \in 1..accepted /\ c \in 1..arrived
           /\ buffer = ed_clients[fd].buffer \o SubSeq(rcv[c], 1,
                         Least(Max_read(ed_clients[fd]), Len(rcv[c])))
           /\ buffer \o Pieces(c)' = want[c].form
           /\ \A e \in Conn \ {c} : rcv'[e] = rcv[e]
           /\ UNCHANGED <<want, unsent, arrived>>
    BY <1>0, <1>13, ReadPieces, Zenon
  <2>2. /\ c # NoConn /\ c \in 0..accepted /\ c =< arrived
        /\ accepted =< accepted' /\ accepted' \in Nat /\ accepted' = accepted
    <3>1. accepted' = accepted
      BY <1>13, Zenon DEF OnReadable
    <3> QED BY <1>0, <2>1, <3>1 DEF NoConn
  <2>3. interest[fd] # {} /\ ~ed_clients[fd].data
    BY <1>0, <1>13, CallbackFacts, Zenon DEF OnReadable
  <2>4. PICK client \in ClientRecord : client = ed_clients[fd]
    BY <1>0
  <2>5. PICK read : read = [client EXCEPT !.buffer = buffer]
    BY Zenon
  <2>6. read.buffer = buffer
    BY <2>4, <2>5 DEF ClientRecord
  <2>7. /\ \A f \in Fd \ {fd} : interest'[f] = interest[f] /\ ed_clients'[f] = ed_clients[f]
                                /\ sock'[f] = sock[f]
        /\ interest'[fd] # {} /\ ~ed_clients'[fd].data =>
             ed_clients'[fd].buffer = buffer /\ sock'[fd] = c
    <3>1. CASE /\ ed_epoll_set(fd, "OUT", [read EXCEPT !.page = want[sock[fd]].page], TRUE)
               /\ UNCHANGED <<sock, leaked>>
      <4>1. [[read EXCEPT !.page = want[sock[fd]].page] EXCEPT !.data = TRUE].data = TRUE
        BY <2>4, <2>5 DEF ClientRecord
      <4>2. ed_clients'[fd].data
        BY <1>0, <3>1, <4>1, Zenon DEF ed_epoll_set
      <4> QED BY <1>0, <3>1, <4>2 DEF ed_epoll_set
    <3>2. CASE ed_epoll_del(fd, client.fp # NULL)
      BY <1>0, <3>2 DEF ed_epoll_del
    <3>3. CASE ed_clients' = [ed_clients EXCEPT ![fd] = read] /\ UNCHANGED <<interest, sock>>
      BY <1>0, <2>1, <2>6, <3>3, Zenon
    <3> QED BY <1>13, <2>1, <2>4, <2>5, <3>1, <3>2, <3>3, Zenon DEF OnReadable
  <2>8. \A f \in Fd \ {fd} : sock[f] # c
    BY <1>0, <2>1, <2>2, Zenon DEF SockDistinct
  <2>9. PiecesKept(c)
    <3>1. \A e \in Conn : e # c => Pieces(e)' = Pieces(e)
      BY <2>1, Zenon DEF Pieces
    <3>2. \A e \in Conn : e > arrived => e # c
      BY <1>0, <2>2 DEF Conn
    <3>3. \A e \in Conn : e > arrived' => rcv'[e] = << >>
      BY <2>1, <3>2, Zenon DEF Whole_request
    <3>4. \A e \in Conn : ~(arrived < e /\ e =< arrived')
      BY <1>0, <2>1 DEF Conn
    <3> QED BY <3>1, <3>3, <3>4, Zenon DEF PiecesKept
  <2>10. BuffersKept(c)
    <3>1. \A f \in Fd : sock'[f] # c \/ c = NoConn => Unread(f)
      BY <2>2, <2>7, Zenon DEF Unread
    <3>2. \A f \in Fd : sock'[f] = c /\ interest'[f] # {} /\ ~ed_clients'[f].data =>
            ed_clients'[f].buffer \o Pieces(c)' = want'[c].form
      BY <2>1, <2>7, <2>8, Zenon
    <3> QED BY <3>1, <3>2, Zenon DEF BuffersKept
  <2> QED BY <1>0, <1>1, <2>2, <2>9, <2>10, RequestKept, Zenon
<1> QED
  BY <1>5, <1>6, <1>8, <1>9, <1>10, <1>11, <1>12, <1>13, Zenon
     DEF Next, ServerStep, Timeout, AcceptCallback, SocketCallback
=============================================================================
