---------------------------- MODULE MCAmpedServer ---------------------------
EXTENDS AmpedServer

\* "odd" is a chunk of two units and a remainder, "big" does not fit the send buffer
\* with its header, "empty" cannot be mapped; the output of "report" is a whole chunk.
MCSize == [p \in Page |-> CASE p = "empty" -> 0 [] p = "odd" -> 3 [] p = "big" -> 5
                            [] p \in {"even", "report"} -> 2 [] OTHER -> 1]

MCFailsAt == [p \in Page |-> CASE p \in {"missing", "unreachable"} -> "open"
                               [] p = "fifo" -> "seek" [] p = "broken" -> "read" [] OTHER -> "never"]

RequestLine == <<"get", "eol">>

\* Two clients compete for one helper, nobody leaves, and one asks for any page.
OneHelper ==
  [open : {3}, helpers : {1}, leavers : {{}},
   request : {<<[page : Page, form : {RequestLine}], [page : {"odd"}, form : {RequestLine}]>>}]

\* There is a helper for each of two clients.  One may leave while a helper works
\* for it, and its descriptor is taken again by the next.
TwoHelpers ==
  [open : {2}, helpers : {2}, leavers : {{1}},
   request : {[c \in Conn |-> [page : {"short"}, form : {RequestLine}]]}]

Everything == OneHelper \cup TwoHelpers

\* Files of different sizes.
TwoFiles ==
  [open : {4}, helpers : {2}, leavers : {{}},
   request : {[c \in Conn |-> [page : FilePage, form : {RequestLine}]]}]
=============================================================================
