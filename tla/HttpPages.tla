------------------------------ MODULE HttpPages -----------------------------
(***************************************************************************)
(* The pages that the web servers of the repository serve, and what a      *)
(* client of a page is to be sent.  Sizes are in units: READ_CHUNK_SIZE,   *)
(* the size of a page and a socket's send buffer keep their order, not     *)
(* their values.  What is sent is a sequence of units: NotFound,           *)
(* ServerError, Header, or a page and an offset in it.                     *)
(***************************************************************************)
EXTENDS Integers, Sequences

CONSTANTS
  FilePage, CgiPage, FastCgiPage,  \* what the clients ask for, by kind
  FailsAt,       \* the call that fails for a page: "open", "seek", "read", "never"
  Size,          \* units of each page
  CHUNK          \* READ_CHUNK_SIZE

Page == FilePage \cup CgiPage \cup FastCgiPage

ASSUME PagesAssumption ==
  /\ Size \in [Page -> Nat] /\ FailsAt \in [Page -> {"open", "seek", "read", "never"}]
  /\ CHUNK \in Nat \ {0}
  /\ FilePage \cap CgiPage = {} /\ (FilePage \cup CgiPage) \cap FastCgiPage = {}

NoPage == "no page"

NULL == -1

NotFound == <<"404", 0>>

ServerError == <<"500", 0>>

Header == <<"200", 0>>

Errors == {<<NotFound>>, <<ServerError>>}

Least(m, n) == IF m < n THEN m ELSE n

\* As in SequencesExt, which the modules with proofs leave out: every obligation
\* would carry it along.
Last(s) == s[Len(s)]

IsPrefix(s, t) == Len(s) =< Len(t) /\ SubSeq(s, 1, Len(s)) = SubSeq(t, 1, Len(s))

Units(p, from, n) == [i \in 1..n |-> <<p, from + i>>]

Whole(p) == Units(p, 0, Size[p])

\* The connection to the FastCGI server breaks while it answers for page p.
Broken(p) == p \in FastCgiPage /\ FailsAt[p] = "read"

\* What a client of page p is sent when no descriptor is short; of a broken answer
\* it is sent the part that came.
Response(p) ==
  CASE p \in FilePage -> (CASE FailsAt[p] = "open"  -> <<NotFound>>
                            [] FailsAt[p] = "seek"  -> <<ServerError>>
                            [] FailsAt[p] = "read"  -> <<Header, ServerError>>
                            [] FailsAt[p] = "never" -> <<Header>> \o Whole(p))
    [] p \in CgiPage  -> (CASE FailsAt[p] = "open"  -> <<NotFound>>
                            [] FailsAt[p] = "read"  -> << >>
                            [] OTHER -> Whole(p))
    [] p \in FastCgiPage -> IF FailsAt[p] = "open" THEN <<ServerError>> ELSE Whole(p)
=============================================================================
