------------------------------- MODULE MCFlash ------------------------------
(* Instances of FlashServer for TLC. *)
EXTENDS FlashServer

MCKind == [two |-> "file", one |-> "file", empty |-> "file", dir |-> "ls", dir2 |-> "ls",
           bare |-> "nols", prog |-> "cgi", gone |-> "missing", moved |-> "redirect",
           secret |-> "forbidden"]

\* READBLOCK is 2: two is a whole chunk and a part of one.
MCSize == [two |-> 3, one |-> 1, empty |-> 0, dir |-> 2, dir2 |-> 1, bare |-> 0, prog |-> 2,
           gone |-> 0, moved |-> 0, secret |-> 0]

Get(u) == [url |-> u, method |-> "GET", keep |-> FALSE, ims |-> FALSE, body |-> 0, mime |-> TRUE,
           query |-> FALSE]

Simple(u) == [Get(u) EXCEPT !.mime = FALSE]

Keep(r) == [r EXCEPT !.keep = TRUE]

IfModified(r) == [r EXCEPT !.ims = TRUE]

Query(r) == [r EXCEPT !.query = TRUE]

Because(h, t, i, a) == [hangup |-> h, timeout |-> t, idle |-> i, aging |-> a, loss |-> 0]

Case(help, requests, faults) == [maxHelp |-> help, requests |-> requests, faults |-> faults]

Two(S) == <<S, S>>

Three(S) == <<S, S, S>>

\* Two chunks, a cache with room for one, and a file that changes.
Files == Case(2, Two({<<Simple("two")>>}), Because(0, 0, 0, 2))

\* A connection that is kept for a second request.
Kept == Case(1, Two({<<Keep(Get("one")), Simple("two")>>}), Because(0, 0, 0, 0))

\* A connection is closed while a helper works for it.
Late == Case(2, Two({<<Simple("two")>>, <<Simple("one")>>}), Because(0, 1, 0, 0))

Left == Case(1, Two({<<Simple("two")>>}), Because(2, 0, 0, 0))

\* A helper reports that it is idle while a request is on its way to it.
Crossed == Case(1, Two({<<Simple("one")>>, <<Simple("two")>>}), Because(0, 0, 1, 0))

CrossedListings ==
  Case(1, <<{<<Simple("dir2")>>}, {<<Simple("dir2")>>}, {<<Simple("dir")>>}>>,
       Because(0, 0, 1, 0))

\* More clients than connections.
Crowd == Case(2, Three({<<Simple("one")>>}), Because(0, 0, 0, 0))

\* A client leaves, or is timed out, in the middle of a listing.
Listings == Case(2, Two({<<Simple("dir")>>}), Because(1, 1, 0, 0))

\* A CGI process that is used again, and times out or exits.
Programs == Case(1, Two({<<Keep(Query(Get("prog"))), Query(Simple("prog"))>>}),
                 Because(0, 1, 0, 0))

Posts == Case(1, Two({<<[Get("prog") EXCEPT !.method = "POST", !.body = 1]>>}),
              Because(0, 0, 1, 0))

\* What is not a page: 404, 403, 501, a redirect, HEAD and If-Modified-Since.
Others == Case(1, <<{<<Simple("bare")>>, <<Simple("gone")>>, <<Simple("moved")>>,
                     <<Simple("secret")>>,
                     <<[Simple("one") EXCEPT !.method = "ERROR"]>>,
                     <<[Get("dir") EXCEPT !.method = "HEAD"]>>,
                     <<Keep([Get("one") EXCEPT !.method = "HEAD"]),
                       Keep(IfModified(Get("one")))>>}>>,
               Because(0, 0, 0, 2))

\* A file that is answered without its data, and changes.
Unread == Case(1, <<{<<Keep(IfModified(Get("one"))), Simple("one")>>,
                     <<Keep(Get("empty")), Simple("empty")>>,
                     <<Keep(Get("two")), Keep(IfModified(Get("two"))), Simple("one")>>}>>,
               Because(0, 0, 0, 2))

\* A file that goes away between two requests, or while it is read.
Lost == Case(1, <<{<<Keep(Get("two")), Keep(Get("two")), Simple("one")>>,
                   <<Simple("two")>>}>>,
             [Because(0, 0, 0, 2) EXCEPT !.loss = 1])

MCScenario ==
  {Files, Kept, Late, Left, Crossed, CrossedListings, Crowd, Listings, Programs, Posts, Others,
   Unread, Lost}
=============================================================================
