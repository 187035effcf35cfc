---------------------------- MODULE ExpertCache ----------------------------
(***************************************************************************)
(* The cache of compressed expert matrices (src/src/gguf.rs), as a record  *)
(* and the operations its lock makes atomic.  A key names one expert of    *)
(* one tensor of one layer, or of the gate and up tensors as a pair; a     *)
(* matrix is the sequence of the tensors whose rows it holds, in order.    *)
(***************************************************************************)
EXTENDS Integers, Sequences, FiniteSets, FiniteSetsExt, SequencesExt

CONSTANTS
  Size,     \* bytes of one expert's matrix in each tensor: "gate", "up", "down"
  Slack     \* stale records the recency queue may hold on an empty cache

ASSUME CacheAssumption ==
  /\ Size \in [{"gate", "up", "down"} -> Nat \ {0}]
  /\ Slack \in Nat

Key(layer, part, expert) == [layer |-> layer, part |-> part, expert |-> expert]

\* What the file holds for a key, read in the order it is read.
Contents(key) ==
  IF key.part = "pair"
  THEN <<Key(key.layer, "gate", key.expert), Key(key.layer, "up", key.expert)>>
  ELSE <<key>>

StorageBytes(matrix) ==
  MapThenSumSet(LAMBDA i : Size[matrix[i].part], DOMAIN matrix)

ConcatenateRows(first, second) == first \o second

Configured(capacity) ==
  [capacity |-> capacity, resident |-> 0, clock |-> 0,
   entries |-> [key \in {} |-> 0], lru |-> <<>>, full |-> FALSE]

Entry(matrix, access) == [matrix |-> matrix, access |-> access]

Holds(cache, key) == key \in DOMAIN cache.entries

Dropped(entries, keys) == [k \in DOMAIN entries \ keys |-> entries[k]]
WithEntry(entries, key, entry) ==
  [k \in DOMAIN entries \union {key} |-> IF k = key THEN entry ELSE entries[k]]

\* The members of a set by a rank that no two of them share, the lowest first.
InOrder(set, rank) ==
  [n \in 1..Cardinality(set) |->
     CHOOSE x \in set : Cardinality({y \in set : rank[y] <= rank[x]}) = n]

\* One record for every entry, the oldest access first.
ByAccess(entries) ==
  LET records == {[key |-> k, access |-> entries[k].access] : k \in DOMAIN entries}
  IN  InOrder(records, [r \in records |-> r.access])

CompactLruIfNeeded(cache) ==
  IF Len(cache.lru) <= 4 * Cardinality(DOMAIN cache.entries) + Slack THEN cache
  ELSE [cache EXCEPT !.lru = ByAccess(cache.entries)]

Hit(cache, key) == cache.capacity > 0 /\ Holds(cache, key)

\* Mutant: a hit refreshes the entry and leaves the queue as it was.
AfterGetWithoutRecord(cache, key) ==
  IF cache.capacity = 0 \/ cache.full \/ ~Holds(cache, key) THEN cache
  ELSE [cache EXCEPT !.clock = @ + 1, !.entries[key].access = cache.clock + 1]

\* The cache after a lookup, found or not.
AfterGet(cache, key) ==
  LET now == cache.clock + 1 IN
  IF cache.capacity = 0 \/ cache.full THEN cache
  ELSE IF ~Holds(cache, key) THEN [cache EXCEPT !.clock = now]
  ELSE CompactLruIfNeeded(
         [cache EXCEPT !.clock = now, !.entries[key].access = now,
                       !.lru = Append(@, [key |-> key, access |-> now])])

\* A record of the queue is current while its entry has not been used since.
IsCurrent(cache, i) ==
  /\ Holds(cache, cache.lru[i].key)
  /\ cache.entries[cache.lru[i].key].access = cache.lru[i].access

EntryBytes(cache, keys) ==
  MapThenSumSet(LAMBDA k : StorageBytes(cache.entries[k].matrix), keys)

\* Records are popped, the current ones evicting their entry, until the new
\* matrix fits or no record is left.
Evicted(cache, bytes) ==
  LET victims(n) == {cache.lru[i].key : i \in {j \in 1..n : IsCurrent(cache, j)}}
      fits(n) == cache.resident - EntryBytes(cache, victims(n)) + bytes <= cache.capacity
      popped == Min({n \in 0..Len(cache.lru) : fits(n)} \union {Len(cache.lru)})
  IN  [cache EXCEPT !.entries = Dropped(@, victims(popped)),
                    !.resident = @ - EntryBytes(cache, victims(popped)),
                    !.lru = SubSeq(@, popped + 1, Len(@))]

\* A miss on a resident model goes back to keeping the queue.
Tracked(cache) ==
  IF cache.full THEN [cache EXCEPT !.full = FALSE, !.lru = ByAccess(cache.entries)]
  ELSE cache

RecordReadAndInsert(cache, key, matrix) ==
  LET tracked == Tracked(cache)
      bytes == StorageBytes(matrix)
      room == Evicted(tracked, bytes)
      now == room.clock + 1
      previous == IF Holds(room, key) THEN EntryBytes(room, {key}) ELSE 0
  IN  IF bytes > tracked.capacity THEN tracked
      ELSE CompactLruIfNeeded(
             [room EXCEPT !.entries = WithEntry(@, key, Entry(matrix, now)),
                          !.resident = @ - previous + bytes,
                          !.clock = now,
                          !.lru = Append(@, [key |-> key, access |-> now])])

\* Both members of an expert's pair are there to be combined, or the pair is.
CanFuse(cache, layer, experts) ==
  \A e \in experts :
    \/ Holds(cache, Key(layer, "pair", e))
    \/ Holds(cache, Key(layer, "gate", e)) /\ Holds(cache, Key(layer, "up", e))

FusePair(cache, layer, experts) ==
  LET split == {e \in experts : ~Holds(cache, Key(layer, "pair", e))}
      members == {Key(layer, part, e) : part \in {"gate", "up"}, e \in split}
      rank(e) == Cardinality({d \in split : d <= e})
      pairs == {Key(layer, "pair", e) : e \in split}
      fused(e) == Entry(ConcatenateRows(cache.entries[Key(layer, "gate", e)].matrix,
                                        cache.entries[Key(layer, "up", e)].matrix),
                        cache.clock + rank(e))
      entries == [k \in pairs \union (DOMAIN cache.entries \ members) |->
                    IF k \in pairs THEN fused(k.expert) ELSE cache.entries[k]]
  IN  [cache EXCEPT !.entries = entries, !.clock = @ + Cardinality(split),
                    !.resident = @ - EntryBytes(cache, members)
                                   + EntryBytes([entries |-> entries], pairs)]

MarkFullyResident(cache) == [cache EXCEPT !.full = TRUE, !.lru = <<>>]
=============================================================================
