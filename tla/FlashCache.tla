----------------------------- MODULE FlashCache -----------------------------
(***************************************************************************)
(* datacache.c: the cache of files, mapped chunk by chunk.  An entry       *)
(* counts the connections that use it; a chunk counts the connections      *)
(* whose next byte lies in it.  A chunk nobody holds is on the list of     *)
(* free chunks, from whose tail ReduceCacheIfNeeded unmaps until the       *)
(* mapped total is within maxLRUCacheSizeBytes.                            *)
(***************************************************************************)
EXTENDS FlashNames

Entry == 1..MaxEntries

NoEntry == [url |-> "", mod |-> 0, refs |-> 0, invalid |-> FALSE, stale |-> FALSE,
            open |-> FALSE, inMem |-> 0, chunk |-> << >>]

CacheInit ==
  [ent |-> [e \in Entry |-> NoEntry], bin |-> << >>, lru |-> << >>,
   all |-> 0, free |-> 0]

NumChunks(url) ==
  LET n == (Size[url] + READBLOCK - 1) \div READBLOCK IN IF n = 0 THEN 1 ELSE n

\* Chunks count from 0 in the code and here; ent.chunk counts from 1.
Chunk(w, e, k) == w.ent[e].chunk[k + 1]

GetRoundedChunkSize(w, e, k) ==
  LET size == Size[w.ent[e].url] IN
  IF k < Len(w.ent[e].chunk) - 1 THEN READBLOCK
  ELSE IF k = 0 THEN size ELSE size % READBLOCK

RemoveFromChunkLRUList(w, e, k) ==
  IF ~Chunk(w, e, k).mru THEN w
  ELSE [w EXCEPT !.lru = Without(@, <<e, k>>),
                 !.free = @ - GetRoundedChunkSize(w, e, k),
                 !.ent[e].chunk[k + 1].mru = FALSE]

TryFreeChunk(w, e, k) ==
  IF Chunk(w, e, k).refs # 0 THEN Fail(w, "tried freeing chunk with refs")
  ELSE IF ~Chunk(w, e, k).data THEN w
  ELSE IF w.ent[e].inMem = 0 THEN Fail(w, "negative chunks in mem")
  ELSE [RemoveFromChunkLRUList(w, e, k) EXCEPT
          !.ent[e].chunk[k + 1].data = FALSE, !.ent[e].inMem = @ - 1,
          !.all = @ - GetRoundedChunkSize(w, e, k)]

\* A chunk without data stays on the list of free chunks while its entry is freed:
\* the list then runs through freed memory.
FreeEntry(w, e) ==
  IF \E i \in DOMAIN w.lru : w.lru[i][1] = e THEN Fail(w, "freed chunk on list")
  ELSE [w EXCEPT !.bin = Without(@, e), !.ent[e] = NoEntry]

KillEntry(w, e) ==
  FreeEntry(FoldLeft(LAMBDA v, i : TryFreeChunk(v, e, i - 1), w,
                     [i \in 1..Len(w.ent[e].chunk) |-> i]), e)

KillIfUnmapped(w, e) ==
  IF w.ent[e].inMem = 0 /\ w.ent[e].refs = 0 THEN KillEntry(w, e) ELSE w

Unmap(w, e, k) ==
  KillIfUnmapped(TryFreeChunk(RemoveFromChunkLRUList(w, e, k), e, k), e)

RECURSIVE ReduceCacheIfNeeded(_)
ReduceCacheIfNeeded(w) ==
  IF maxLRUCacheSize = 0 \/ w.all <= maxLRUCacheSize \/ w.free <= 0 \/ w.exit # "" THEN w
  ELSE IF w.lru = << >> THEN Fail(w, "no rir in chunk overflow")
  ELSE ReduceCacheIfNeeded(Unmap(w, Last(w.lru)[1], Last(w.lru)[2]))

AddToChunkLRUList(w, e, k) ==
  IF Chunk(w, e, k).mru THEN w
  ELSE ReduceCacheIfNeeded(
         [w EXCEPT !.ent[e].chunk[k + 1].mru = TRUE, !.lru = <<<<e, k>>>> \o @,
                   !.free = @ + GetRoundedChunkSize(w, e, k)])

\* Whether a position is in the file's chunks: past the last one no lock is taken.
Locks(w, e, bytes) == bytes \div READBLOCK < Len(w.ent[e].chunk)

\* Mutant: a chunk in use stays on the list of free chunks.
IncChunkLockListed(w, e, bytes) ==
  IF Locks(w, e, bytes) THEN [w EXCEPT !.ent[e].chunk[bytes \div READBLOCK + 1].refs = @ + 1]
  ELSE w

IncChunkLock(w, e, bytes) ==
  LET k == bytes \div READBLOCK IN
  IF e = NULL THEN Fail(w, "trying to inc null chunks")
  ELSE IF ~Locks(w, e, bytes) THEN w
  ELSE [IF Chunk(w, e, k).refs = 0 THEN RemoveFromChunkLRUList(w, e, k) ELSE w
          EXCEPT !.ent[e].chunk[k + 1].refs = @ + 1]

FreeIfUnlocked(w, e, k) ==
  IF Chunk(w, e, k).refs < 1 THEN AddToChunkLRUList(w, e, k) ELSE w

DecChunkLock(w, e, bytes) ==
  LET k == bytes \div READBLOCK IN
  IF e = NULL THEN Fail(w, "trying to dec null chunks")
  ELSE IF ~Locks(w, e, bytes) THEN w
  ELSE IF Chunk(w, e, k).refs < 1 THEN Fail(w, "got neg chunk lock count")
  ELSE [FreeIfUnlocked([w EXCEPT !.ent[e].chunk[k + 1].refs = @ - 1], e, k)
          EXCEPT !.ent[e].open = @ /\ k # Len(w.ent[e].chunk) - 1]

\* What open() of a file returns: "ok", or the error as the status it is answered with.
CanOpen(w, url) == w.disk[url].open = "ok"

\* The file may have been closed since, and is then opened again.
DoChunkRead(w, e, k) ==
  IF ~w.ent[e].open /\ ~CanOpen(w, w.ent[e].url) THEN [w |-> w, failed |-> TRUE]
  ELSE [w |-> ReduceCacheIfNeeded(
                [w EXCEPT !.ent[e].open = TRUE, !.ent[e].chunk[k + 1].data = TRUE,
                          !.ent[e].inMem = @ + 1, !.all = @ + GetRoundedChunkSize(w, e, k)]),
        failed |-> FALSE]

ReadChunkIfNeeded(w, e, position) ==
  LET k == position \div READBLOCK IN
  IF Size[w.ent[e].url] = 0 \/ Chunk(w, e, k).data THEN [w |-> w, failed |-> FALSE]
  ELSE DoChunkRead(w, e, k)

\* How much of the chunk at a position is to be sent, and whether it is mapped.  What
\* does not fit the send buffer is cut to the power of two below its size.
PowerOf2LessThanEqual(x) ==
  CHOOSE y \in {2^i : i \in 0..x} : y <= x /\ 2 * y > x

RECURSIVE HalveTo(_, _)
HalveTo(n, desired) == IF n > desired THEN HalveTo(n \div 2, desired) ELSE n

GetDataToSend(w, e, position, maxSize) ==
  LET size == Size[w.ent[e].url]
      k == position \div READBLOCK
      left == IF k = Len(w.ent[e].chunk) - 1 THEN size - position
              ELSE READBLOCK - (position % READBLOCK)
      desired == PowerOf2LessThanEqual(maxSize)
      cut == IF left <= maxSize THEN left
             ELSE IF left >= 2 * desired THEN desired ELSE HalveTo(left, desired)
  IN IF size = 0 THEN [n |-> 0, mapped |-> FALSE]
     ELSE IF Chunk(w, e, k).data THEN [n |-> cut, mapped |-> TRUE]
     ELSE [n |-> left, mapped |-> FALSE]
-----------------------------------------------------------------------------
AddEntryToDataCache(w, c, url) ==
  LET e == CHOOSE f \in Entry : w.ent[f] = NoEntry IN
  [w EXCEPT !.ent[e] = [NoEntry EXCEPT
              !.url = url, !.mod = w.disk[url].mod, !.refs = 1, !.open = TRUE,
              !.chunk = [i \in 1..NumChunks(url) |->
                           [refs |-> 0, data |-> FALSE, mru |-> FALSE]]],
            !.bin = <<e>> \o @, !.conn[c].ent = e]

MakeEntryInvalid(w, e) ==
  IF w.ent[e].refs = 0 THEN KillEntry(w, e)
  ELSE [w EXCEPT !.bin = Without(@, e), !.ent[e].invalid = TRUE]

\* Mutant: the first entry of the bin is taken for the file.
CheckBin(w, url) ==
  IF w.bin = << >> THEN [w |-> w, ent |-> NULL]
  ELSE [w |-> [w EXCEPT !.ent[Head(w.bin)].refs = @ + 1], ent |-> Head(w.bin)]

\* stat() of a cached file fails, or shows another time.
Changed(w, e) ==
  w.disk[w.ent[e].url].open = "404" \/ w.disk[w.ent[e].url].mod # w.ent[e].mod

\* The entry of a file, referenced and moved to the front of its bin, or 0; one whose
\* file has changed since it was last looked at is dropped.
CheckCache(w, url) ==
  LET i == First(w.bin, LAMBDA f : w.ent[f].url = url)
      e == w.bin[i]
  IN IF i = 0 THEN [w |-> w, ent |-> NULL]
     ELSE IF w.ent[e].stale /\ Changed(w, e)
          THEN [w |-> MakeEntryInvalid(w, e), ent |-> NULL]
          ELSE [w |-> [w EXCEPT !.ent[e].stale = FALSE, !.ent[e].refs = @ + 1,
                                !.bin = <<e>> \o Without(@, e)],
                ent |-> e]

CloseIfUnused(w, e) ==
  IF w.ent[e].refs >= 1 THEN w
  ELSE IF w.ent[e].invalid THEN KillEntry(w, e)
  ELSE [w EXCEPT !.ent[e].open = FALSE]

ReleaseCacheEntry(w, c) ==
  LET e == w.conn[c].ent IN
  IF e = NULL THEN w
  ELSE CloseIfUnused([w EXCEPT !.conn[c].ent = NULL, !.ent[e].refs = @ - 1], e)
=============================================================================
