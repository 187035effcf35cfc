-------------------------- MODULE PromptCacheProps --------------------------
(* What the cache promises a request, and what its bookkeeping must keep. *)
EXTENDS PromptCache

\* A file under its final name is a whole image of the tokens its name is made
\* of, wherever the process was killed: no reader meets half an entry.
EntriesAreWhole ==
  \A i \in Complete : files[i].tokens # NoImage /\ files[i].key = KeyOf(files[i].tokens)

\* No two prefixes of prompts share a key: fnv1a does not collide on them.
HashIsExact == \A s, t \in Cacheable : KeyOf(s) = KeyOf(t) => s = t

\* A hit is an image of a prefix of the request's own tokens, short enough to
\* leave a token to evaluate, however the directory changes while it is read
\* (docs/prompt-cache.md: "a collision therefore costs one header read, not a
\* wrong answer").
HitIsAPrefix ==
  (reader = "answered" /\ found # NoImage) =>
    IsPrefix(found, prompt) /\ Len(found) < Len(prompt)

\* Nothing is evicted under a lookup, and nothing a lookup reads is discarded.
Undisturbed ==
  Faults \subseteq {"write"} /\ IsFiniteSet(Keys) /\ Budget >= TotalSize(SetToSeq(Keys))

\* While nothing is being published or discarded, the entries are the files:
\* a file that is not indexed would never be evicted, an entry without a file
\* would be counted for nothing.  Where entries do disappear under a lookup it
\* fails, as DirectoryStaysBounded shows.
IndexIsDirectory ==
  (Undisturbed /\ writer # "insert" /\ reader # "forget") =>
    {files[i].key : i \in Complete} = Range(index)

\* Once an eviction is over in which no removal failed, the directory as the index
\* knows it fits its budget but for the entry that was just written.  An entry whose
\* file a lookup removed from under it is spared by the eviction, for there is
\* nothing to remove: it may leave the index over its budget, and no file.
FitsBudget ==
  (writer \in {"idle", "write", "fill", "publish", "land"} /\ Faults \subseteq {"write"}) =>
    \/ bytes <= Budget
    \/ /\ foreign = 0
       /\ \A k, l \in Range(index) \cap {files[i].key : i \in Complete} : k = l

\* The two counters the rest trusts.  What the index believes the directory
\* holds is what its entries add up to: eviction compares nothing else with the
\* budget.  And every image handed over is counted from before it is sent until
\* it is on disk or its write failed, and not longer: a shutdown that sees zero
\* leaves no write behind, and one that waits waits for something.
CountersAreExact ==
  /\ bytes = foreign + TotalSize(index)
  /\ outstanding = Len(channel) + (IF image = NoImage THEN 0 ELSE 1)
                   + (IF reader \in {"send", "skip"} THEN 1 ELSE 0)

\* A lookup ends, and so does every accepted write, whatever the other thread
\* does meanwhile.
LookupsAndWritesEnd ==
  /\ (reader # "idle") ~> (reader = "idle")
  /\ (channel # << >>) ~> (channel = << >>)
-----------------------------------------------------------------------------
TotalOnDisk == foreign + TotalSize([i \in DOMAIN files |-> files[i].key])

\* "The directory stays bounded" (scan, docs/prompt-cache.md): between writes
\* the files on disk fit the budget or are a single entry.
DirectoryStaysBounded ==
  writer = "idle" => TotalOnDisk <= Budget \/ Len(files) <= 1
=============================================================================
