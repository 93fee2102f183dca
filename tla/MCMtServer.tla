----------------------------- MODULE MCMtServer -----------------------------
EXTENDS MtServer

\* Sizes around a chunk of two units.
MCSize == [p \in Page |-> CASE p = "odd" -> 3 [] OTHER -> 2]

MCFailsAt == [p \in Page |-> CASE p \in {"missing", "unreachable"} -> "open"
                               [] p = "fifo" -> "seek" [] p \in {"directory", "broken"} -> "read"
                               [] OTHER -> "never"]

Plain == <<"get", "crlf">>

WithField == <<"get", "field", "crlf">>

Illegal == <<"bad", "crlf">>

\* One client asks for any page or sends a line that does not parse, the other
\* for a file that takes several rounds; or both run a script, or both an
\* application.  Either may leave.
MCPlan ==
  [leavers : {{l} : l \in Conn},
   request : {<<[page : Page, form : {Plain}] \cup [page : {"odd"}, form : {Illegal}],
                [page : {"odd"}, form : {Plain}]>>}
             \cup {[c \in Conn |-> [page : {p}, form : {Plain}]] : p \in {"script", "app"}}]

FieldPlan ==
  {[leavers |-> {l}, request |-> [c \in Conn |-> [page : Page, form : {WithField}]]] :
     l \in Conn}
=============================================================================
