-------------------------- MODULE QuantizedMoeProps -------------------------
(***************************************************************************)
(* What the routed experts and their cache have to get right.              *)
(***************************************************************************)
EXTENDS QuantizedMoe

\* The readable reference: each row, for each expert it chose, in that order, the
\* row itself through that expert's own gate, up and down matrices.
Reference ==
  [row \in DOMAIN routes |->
     [i \in 1..ExpertsPerToken |->
        [value |-> [input |-> row,
                    gateUp |-> Contents(Key(layer, "pair", routes[row][i])),
                    down |-> Contents(Key(layer, "down", routes[row][i]))],
         weight |-> <<row, i>>]]]

\* A layer that ends with a result returns what the token-major reference does:
\* the same terms in the same order, whichever workers ran in whatever order,
\* whatever was cached, fused or evicted on the way (quantized_moe.rs:345).
MatchesTokenMajor == result # NoResult => result = Reference

\* Every matrix the cache holds is the one its key names, byte for byte.
EntriesFaithful ==
  \A k \in DOMAIN cache.entries : cache.entries[k].matrix = Contents(k)

\* The byte count is the sum of the entries and never over the capacity.
BytesFit ==
  /\ cache.resident = EntryBytes(cache, DOMAIN cache.entries)
  /\ cache.resident <= cache.capacity

\* Each entry can be evicted: it has its current record in the queue, once, and
\* the records stand in the order of their accesses.
QueueCoversEntries ==
  phase # "fuse" /\ ~cache.full =>
    /\ \A k \in DOMAIN cache.entries :
         Cardinality({i \in DOMAIN cache.lru :
                        IsCurrent(cache, i) /\ cache.lru[i].key = k}) = 1
    /\ \A i, j \in DOMAIN cache.lru : i < j => cache.lru[i].access < cache.lru[j].access

\* The queue is kept lazily and still stays in proportion to the entries.
QueueIsBounded == Len(cache.lru) <= 4 * Cardinality(DOMAIN cache.entries) + Slack

\* The cache stays exact under parallel lookups and insertions, evictions, lazy
\* compaction and fusion (gguf.rs:826).
CacheExact == EntriesFaithful /\ BytesFit /\ QueueCoversEntries /\ QueueIsBounded

\* A start that pins every expert either stops on a failed read or on a cache too
\* small for them, and is otherwise final: the cache holds each pair and each down
\* matrix, and no forward ever reads the file or moves an entry (residency.rs:101).
PinnedStaysResident ==
  pinning =>
    /\ phase = "fuse" /\ plan # <<>> => CanFuse(cache, Head(plan), Experts)
    /\ phase \in {"serve", "experts"} =>
         /\ cache.full
         /\ DOMAIN cache.entries = {Key(l, part, e) : l \in MoeLayers,
                                                      part \in {"pair", "down"}, e \in Experts}
         /\ \A g \in DOMAIN worker : worker[g].at \notin {"read", "insert", "failed"}
=============================================================================
