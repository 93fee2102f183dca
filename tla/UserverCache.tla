---------------------------- MODULE UserverCache ----------------------------
(***************************************************************************)
(* The cache of mapped files (cache_mapped_new.c): a table of elements of  *)
(* which the free ones are on a list and the others in order of their last *)
(* use, with the number of replies that use each.  A name finds its        *)
(* element; the chains of the hash table are left out.                     *)
(***************************************************************************)
EXTENDS UserverParse

NoElement == [uri |-> << >>, ref |-> 0, size |-> 0]

InitCache(s) == [el |-> [i \in 1..s.table |-> NoElement], free |-> Reverse([i \in 1..s.table |-> i]),
                 lru |-> << >>, bytes |-> 0]

\* The element that holds uri, and otherwise the next free one.
Holding(w, uri) == {i \in Range(w.cache.lru) : w.cache.el[i].uri = uri}

CacheGetElement(w) == IF w.cache.free = << >> THEN NONE ELSE Head(w.cache.free)

\* Mutant: a reply that finds its file in the cache is not counted.
CacheIncRefCountNot(w, i) == w

CacheIncRefCount(w, i) == [w EXCEPT !.cache.el[i].ref = @ + 1]

CacheDecRefCount(w, i) ==
  IF w.cache.el[i].ref = 0 THEN Fail(w, "ref_count below 0")
  ELSE [w EXCEPT !.cache.el[i].ref = @ - 1]

CacheLruAccess(w, i) == [w EXCEPT !.cache.lru = <<i>> \o Without(@, i)]

\* The least recently used element that no reply uses.
CacheVictim(w) ==
  LET k == SelectLastInSeq(w.cache.lru, LAMBDA i : w.cache.el[i].ref = 0) IN
  IF k = 0 THEN NONE ELSE w.cache.lru[k]

\* The element leaves the table and the order of use, and is the first free one.
Evict(w, i) ==
  [w EXCEPT !.cache.bytes = @ - w.cache.el[i].size, !.cache.el[i].uri = << >>,
            !.cache.el[i].size = 0, !.cache.lru = Without(@, i), !.cache.free = <<i>> \o @]

EvictVictim(w) ==
  IF CacheVictim(w) = NONE THEN Fail(w, "no victim in the cache") ELSE Evict(w, CacheVictim(w))

RECURSIVE MakeRoom(_, _)
MakeRoom(w, size) ==
  IF w.opt.bytes - w.cache.bytes >= size \/ w.exit # "" THEN w
  ELSE MakeRoom(EvictVictim(w), size)

\* i is the element that cache_lookup took from the free list, or NONE: then a further
\* victim gives its own, whatever MakeRoom has freed meanwhile.
Insert(w, uri, i) ==
  LET v == IF i = NONE THEN EvictVictim(w) ELSE [w EXCEPT !.cache.free = <<i>> \o @]
      k == CacheGetElement(v)
      size == Site[uri].size
  IN IF v.exit # "" THEN v
     ELSE [v EXCEPT !.cache.el[k] = [uri |-> uri, ref |-> 1, size |-> size],
                    !.cache.free = Tail(@), !.cache.lru = <<k>> \o @,
                    !.cache.bytes = @ + size]

Cacheable(w, uri) ==
  /\ uri \in DOMAIN Site /\ Site[uri].kind = "file"
  /\ Site[uri].size <= MaxFile /\ Site[uri].size <= w.opt.bytes

\* The element is taken before the file is looked at and given back if it is not cached;
\* when there was none to take, giving it back fails.
CacheMiss(w, uri) ==
  LET i == CacheGetElement(w)
      v == IF i = NONE THEN w ELSE [w EXCEPT !.cache.free = Tail(@)]
  IN IF Cacheable(w, uri) THEN Insert(MakeRoom(v, Site[uri].size), uri, i)
     ELSE IF i = NONE THEN Fail(w, "cache_free_element") ELSE w

\* Afterwards the element that holds uri, if there is one, counts one more reply.
CacheAdd(w, uri) ==
  IF Holding(w, uri) = {} THEN CacheMiss(w, uri)
  ELSE LET i == CHOOSE i \in Holding(w, uri) : TRUE IN CacheIncRefCount(CacheLruAccess(w, i), i)

\* A time is told apart by how it compares with the file's and with that of the last
\* look at the file, which is the time at which it was cached; the descriptor is closed
\* by then, and a further look at it fails.
CheckIfModifiedSince(w, since) == IF since = "now" THEN Fail(w, "fstat of a cached file") ELSE w

ModifiedSince(since) == since \in {"no", "old"}
=============================================================================
