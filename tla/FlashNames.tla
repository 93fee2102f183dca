----------------------------- MODULE FlashNames -----------------------------
(***************************************************************************)
(* hotname.c: the cache of translated names.  An entry is in a chain of    *)
(* its table, counts the connections that use it, and is on the MRU list   *)
(* while none does, from whose tail GetEmptyHNE takes a victim.  Two       *)
(* connections that miss the same name at the same time both enter it.     *)
(*                                                                         *)
(* One bin stands for the table of names and one for the table of CGI      *)
(* programs.  The entry a cold request fills in (newNameSpace) is counted  *)
(* once it is entered; spare says that it has been allocated.              *)
(***************************************************************************)
EXTENDS FlashState

Name == 1..MaxEntries

NoName == [url |-> "", type |-> "none", ref |-> 0, old |-> FALSE]

NamesInit ==
  [hne |-> [n \in Name |-> NoName], names |-> << >>, cgis |-> << >>,
   mru |-> << >>, total |-> 0, spare |-> FALSE]

RemoveFromMRU(w, n) ==
  IF w.hne[n].ref # 0 THEN Fail(w, "hne shouldn't be on MRU")
  ELSE [w EXCEPT !.mru = Without(@, n)]

AddToMRU(w, n) ==
  IF w.hne[n].ref # 0 THEN Fail(w, "hne shouldn't be added to MRU")
  ELSE [w EXCEPT !.mru = <<n>> \o @]

RemoveHotNameEntry(w, n) ==
  [w EXCEPT !.total = @ - 1, !.names = Without(@, n), !.cgis = Without(@, n),
            !.hne[n] = NoName]

Discard(w, n) ==
  IF w.hne[n].ref = 0 THEN RemoveHotNameEntry(RemoveFromMRU(w, n), n) ELSE w

\* Also called for the bin of a CGI program: it sweeps the bin of names of that number.
RemoveOldEntriesInBin(w) ==
  FoldLeft(LAMBDA v, n : IF v.hne[n].old THEN Discard(v, n) ELSE v, w, w.names)

\* Mutant: an entry in use stays on the MRU list.
ReferenceListed(w, n) == [w EXCEPT !.hne[n].ref = @ + 1]

Reference(w, n) ==
  [IF w.hne[n].ref = 0 THEN RemoveFromMRU(w, n) ELSE w EXCEPT !.hne[n].ref = @ + 1]

\* The entry found, referenced and moved to the front, or 0.  An entry that is out
\* of date ends the search.
LookUpName(w, url) ==
  LET i == First(w.names, LAMBDA n : w.hne[n].url = url)
      n == w.names[i]
  IN IF i = 0 THEN [w |-> w, hne |-> NULL]
     ELSE IF w.hne[n].old THEN [w |-> Discard(w, n), hne |-> NULL]
     ELSE [w |-> [Reference(w, n) EXCEPT !.names = <<n>> \o Without(@, n)], hne |-> n]

FindMatchInHotNameCache(w, url, o) ==
  LookUpName(IF o.sweep /\ w.names # << >> THEN RemoveOldEntriesInBin(w) ELSE w, url)

LookUpCGI(w, url) ==
  LET i == First(w.cgis, LAMBDA n : w.hne[n].url = url)
      n == w.cgis[i]
  IN IF i = 0 \/ w.hne[n].old THEN [w |-> w, hne |-> NULL]
     ELSE [w |-> Reference(w, n), hne |-> n]

\* The name is tested at each '/' and '?' of the URL, but not at its end, where the loop
\* stops: a URL that ends with the name of the program is not found.
FindMatchInHotCGICache(w, r, o) ==
  LET v == IF o.sweep /\ w.cgis # << >> THEN RemoveOldEntriesInBin(w) ELSE w
  IN IF r.query THEN LookUpCGI(v, r.url) ELSE [w |-> v, hne |-> NULL]

GetEmptyHNE(w) ==
  IF w.spare THEN w
  ELSE [IF w.mru # << >> /\ w.total >= maxNameCacheSize THEN Discard(w, Last(w.mru)) ELSE w
          EXCEPT !.spare = TRUE]

\* Connection c enters newNameSpace as an entry for its URL and holds it.
EnterIntoHotNameCache(w, c, type) ==
  LET n == CHOOSE m \in Name : w.hne[m] = NoName IN
  [w EXCEPT !.hne[n] = [url |-> w.conn[c].req.url, type |-> type, ref |-> 1,
                        old |-> FALSE],
            !.names = <<n>> \o @, !.total = @ + 1, !.spare = FALSE,
            !.conn[c].hne = n]

EnterIntoHotCGICache(w, c) ==
  LET n == CHOOSE m \in Name : w.hne[m] = NoName IN
  [w EXCEPT !.hne[n] = [url |-> w.conn[c].req.url, type |-> "cgi", ref |-> 1,
                        old |-> FALSE],
            !.cgis = <<n>> \o @, !.total = @ + 1, !.spare = FALSE,
            !.conn[c].hne = n]

\* Mutant: an entry that one connection still uses is taken for unused.
UnusedButOne(w, n) ==
  IF w.hne[n].ref > 1 THEN w
  ELSE IF w.hne[n].old THEN RemoveHotNameEntry(w, n) ELSE AddToMRU(w, n)

Unused(w, n) ==
  IF w.hne[n].ref # 0 THEN w
  ELSE IF w.hne[n].old THEN RemoveHotNameEntry(w, n) ELSE AddToMRU(w, n)

ReleaseHNE(w, c) ==
  LET n == w.conn[c].hne IN
  IF n = NULL THEN w
  ELSE Unused([w EXCEPT !.conn[c].hne = NULL, !.hne[n].ref = @ - 1], n)
=============================================================================
