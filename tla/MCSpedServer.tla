---------------------------- MODULE MCSpedServer ----------------------------
EXTENDS SpedServer

\* Sizes around a chunk of two units: empty, one short read, an exact chunk, a
\* chunk and a short read, more than a send buffer holds.
MCSize == [p \in Page |-> CASE p = "empty" -> 0 [] p = "short" -> 1 [] p = "even" -> 2
                            [] p = "odd" -> 3 [] p = "long" -> 6 [] OTHER -> 2]

MCFailsAt == [p \in Page |-> CASE p \in {"missing", "unreachable"} -> "open"
                               [] p = "fifo" -> "seek" [] p \in {"directory", "broken"} -> "read"
                               [] OTHER -> "never"]

RequestLine == <<"get", "eol">>

BlankLine == <<"get", "eol", "eol">>

Illegal == <<"text", "lf">>

Overlong == <<"get", "text", "text", "text", "eol">>

\* Descriptors are used again, refused or run out, and a client may hang up.
Pages ==
  [open : {3}, leavers : {{1}, {2}},
   request : {<<[page : Page, form : {RequestLine}], [page : {"odd"}, form : {RequestLine}]>>,
              [c \in Conn |-> [page : {"script"}, form : {RequestLine}]]}]

\* Nobody hangs up, and requests come in fragments that do not all fit or parse.
Fragments ==
  [open : {4}, leavers : {{}},
   request : {<<[page : {"even", "app"}, form : {BlankLine, Illegal, Overlong}],
                [page : {"even"}, form : {BlankLine, Illegal}]>>}]

Everything == Pages \cup Fragments

\* A FastCGI answer that is longer than a send buffer.
Relay ==
  [open : {2}, leavers : {{}},
   request : {[c \in Conn |-> [page : {"long"}, form : {RequestLine}]]}]
=============================================================================
