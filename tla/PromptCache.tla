---------------------------- MODULE PromptCache ----------------------------
(***************************************************************************)
(* The on-disk prompt cache (src/src/prompt_cache): the engine's worker    *)
(* looks prefixes up and hands images over, a writer thread publishes      *)
(* them and evicts, and the process may be killed between any two steps.   *)
(*                                                                         *)
(* An image is named by the tokens it describes.  The directory is a       *)
(* sequence of files in order of their modification times, the index a     *)
(* sequence of keys in order of their last use; an entry's size is its     *)
(* length in tokens.  Files another checkpoint left behind are counted,    *)
(* each of size one, and are never read.                                   *)
(***************************************************************************)
EXTENDS Naturals, FiniteSets, Sequences, SequencesExt

CONSTANTS
  Prompt,      \* prompts requests arrive with
  Hash(_),     \* fnv1a over a prefix
  BlockTokens, \* boundaries are multiples of it
  MinTokens,   \* the shortest boundary
  Settings,    \* [budget, foreign, faults]: the directory's budget, how many files of
               \* another checkpoint it may hold at the start (a bound), and the file
               \* system calls that may fail: "write", "evict", "read"
  NoImage      \* no image, no key, no prompt

ASSUME CacheAssumption ==
  /\ Prompt \subseteq Seq(Nat) /\ << >> \notin Prompt
  /\ BlockTokens \in Nat \ {0} /\ MinTokens \in Nat /\ BlockTokens <= MinTokens
  /\ \A s \in Settings : /\ s.budget \in Nat /\ s.foreign \in Nat
                        /\ s.faults \subseteq {"write", "evict", "read"}

VARIABLES
  setting,     \* the setting it runs in
  files,       \* the directory: [key, tokens, temporary], oldest first
  index,       \* keys of the entries, least recently used first
  foreign,     \* files of another checkpoint, as the index lists them
  bytes,       \* what the index believes the directory holds
  outstanding, \* writes queued or in flight, as a shutdown counts them
  channel,     \* images handed over and not taken yet: at most one
  writer,      \* where the writer thread is
  image,       \* the image it writes
  spared,      \* eviction candidates whose removal failed
  reader,      \* where the engine's worker is
  prompt,      \* its request's prompt
  left,        \* boundaries its lookup has still to try
  probe,       \* the prefix it is trying
  found        \* the image it read, or the one it is about to store

directory == <<files, index, foreign, bytes>>
writing == <<writer, image, spared>>
request == <<reader, prompt, left, probe, found>>
vars == <<setting, files, index, foreign, bytes, outstanding, channel, writer, image, spared,
          reader, prompt, left, probe, found>>

Budget == setting.budget
Faults == setting.faults

KeyOf(tokens) == [tokens |-> Len(tokens), hash |-> Hash(tokens)]
Size(key) == key.tokens

Prefix(tokens, n) == SubSeq(tokens, 1, n)

\* Mutant: a prompt may be restored whole.
BoundariesUpTo(len) ==
  {b \in 1..len : b % BlockTokens = 0 /\ b >= MinTokens}

\* A restored session still has a token to evaluate.
Boundaries(len) ==
  {b \in 1..(len - 1) : b % BlockTokens = 0 /\ b >= MinTokens}

\* The boundary to leave an entry at: the longest inside the stable prefix, if
\* that is beyond what was reused.
StoreBoundaries(len, reused, stable) ==
  LET inside == {b \in Boundaries(len) : b <= stable}
  IN IF inside = {} THEN {} ELSE {Max(inside)} \cap (reused + 1)..len

\* What an entry can be an image of, and the keys of the entries.
Cacheable == UNION {{Prefix(tokens, b) : b \in Boundaries(Len(tokens))} : tokens \in Prompt}
Keys == {KeyOf(tokens) : tokens \in Cacheable}

ASSUME NoImageAssumption == NoImage \notin Cacheable /\ NoImage \notin Keys

\* The elements of a sequence at some of its positions, in order.
ElementsAt(seq, positions) ==
  LET kept[n \in 0..Len(seq)] ==
        IF n = 0 THEN << >>
        ELSE IF n \in positions THEN Append(kept[n - 1], seq[n]) ELSE kept[n - 1]
  IN kept[Len(seq)]

TotalSize(keys) ==
  LET total[n \in 0..Len(keys)] == IF n = 0 THEN 0 ELSE total[n - 1] + Size(keys[n])
  IN total[Len(keys)]

\* Where the complete files are, that of a key, and what a failed or unfinished
\* write of the key left.
Complete == {i \in DOMAIN files : ~files[i].temporary}
FileOf(key) == {i \in Complete : files[i].key = key}
TemporaryOf(key) == {i \in DOMAIN files \ Complete : files[i].key = key}
Stored(key) == IF FileOf(key) = {} THEN NoImage ELSE files[Min(FileOf(key))].tokens
Without(positions) == ElementsAt(files, DOMAIN files \ positions)

\* What opening a key's file gives: its tokens, or nothing where it is gone, cannot
\* be read, or fails a check on its format, its checkpoint or its shapes.
Readings(key) == {Stored(key)} \cup IF "read" \in Faults THEN {NoImage} ELSE {}
Headers(key) == Readings(key)
Images(key) == Readings(key)

\* The writer holds the index's lock while it evicts.
Unlocked == writer # "evict"

Init ==
  /\ setting \in Settings
  /\ files = << >> /\ index = << >>
  /\ foreign \in 0..setting.foreign /\ bytes = foreign
  /\ outstanding = 0 /\ channel = << >>
  /\ writer = "evict" /\ image = NoImage /\ spared = {}
  /\ reader = "idle" /\ prompt = NoImage /\ left = {} /\ probe = NoImage /\ found = NoImage
-----------------------------------------------------------------------------
(***************************************************************************)
(* The engine's worker looks a prompt up, longest boundary first.          *)
(***************************************************************************)
\* above: what the live session already covers.
StartLookup(tokens, above) ==
  /\ reader = "idle"
  /\ reader' = "probe" /\ prompt' = tokens
  /\ left' = {b \in Boundaries(Len(tokens)) : b > above}
  /\ probe' = NoImage /\ found' = NoImage
  /\ UNCHANGED <<setting, directory, outstanding, channel, writing>>

\* entry_path: the next boundary whose key the index has.
Probe ==
  /\ reader = "probe" /\ Unlocked
  /\ IF left = {}
     THEN reader' = "answered" /\ UNCHANGED <<left, probe>>
     ELSE LET prefix == Prefix(prompt, Max(left))
          IN /\ left' = left \ {Max(left)}
             /\ IF KeyOf(prefix) \in Range(index)
                THEN reader' = "header" /\ probe' = prefix
                ELSE UNCHANGED <<reader, probe>>
  /\ UNCHANGED <<setting, directory, outstanding, channel, writing, prompt, found>>

\* The stored tokens are compared with the prefix before any state is read.
ReadHeader ==
  /\ reader = "header"
  /\ \E tokens \in Headers(KeyOf(probe)) :
       reader' = IF tokens = probe THEN "state" ELSE "discard"
  /\ UNCHANGED <<setting, directory, outstanding, channel, writing, prompt, left, probe, found>>

\* The file is opened again, and whatever it holds by then is the image.
ReadState ==
  /\ reader = "state"
  /\ \E tokens \in Images(KeyOf(probe)) :
       IF tokens # NoImage THEN found' = tokens /\ reader' = "touch"
       ELSE reader' = "discard" /\ UNCHANGED found
  /\ UNCHANGED <<setting, directory, outstanding, channel, writing, prompt, left, probe>>

\* Discard: the file first, ...
RemoveFile ==
  /\ reader = "discard"
  /\ files' = Without(FileOf(KeyOf(probe)))
  /\ reader' = "forget"
  /\ UNCHANGED <<setting, index, foreign, bytes, outstanding, channel, writing, prompt, left, probe, found>>

\* ... then its entry, if the index still has one.
Forget ==
  /\ reader = "forget" /\ Unlocked
  /\ IF KeyOf(probe) \in Range(index)
     THEN /\ index' = RemoveFirst(index, KeyOf(probe))
          /\ bytes' = bytes - Size(KeyOf(probe))
     ELSE UNCHANGED <<index, bytes>>
  /\ reader' = "probe"
  /\ UNCHANGED <<setting, files, foreign, outstanding, channel, writing, prompt, left, probe, found>>

\* The use is recorded in the index, ...
Touch ==
  /\ reader = "touch" /\ Unlocked
  /\ index' = IF KeyOf(probe) \in Range(index)
              THEN Append(RemoveFirst(index, KeyOf(probe)), KeyOf(probe)) ELSE index
  /\ reader' = "stamp"
  /\ UNCHANGED <<setting, files, foreign, bytes, outstanding, channel, writing, prompt, left, probe, found>>

\* ... and in the file's modification time.
Stamp ==
  /\ reader = "stamp"
  /\ files' = Without(FileOf(KeyOf(probe))) \o ElementsAt(files, FileOf(KeyOf(probe)))
  /\ reader' = "answered"
  /\ UNCHANGED <<setting, index, foreign, bytes, outstanding, channel, writing, prompt, left, probe, found>>
-----------------------------------------------------------------------------
(***************************************************************************)
(* It leaves an entry behind, at most one per request.                     *)
(***************************************************************************)
Finish ==
  /\ reader' = "idle" /\ prompt' = NoImage
  /\ left' = {} /\ probe' = NoImage /\ found' = NoImage

\* The request reuses what it found, unless that cannot serve its mode, or
\* what the live session covers; stable is how much of its prompt is expected
\* to recur.  A session that cannot supply the predictor's state stores nothing.
ChooseBoundary(reused, stable) ==
  /\ reader = "answered" /\ Unlocked
  /\ found # NoImage => reused \in {0, Len(found)}
  /\ \/ \E b \in StoreBoundaries(Len(prompt), reused, stable) :
          /\ KeyOf(Prefix(prompt, b)) \notin Range(index)
          /\ found' = Prefix(prompt, b) /\ reader' = "store"
          /\ UNCHANGED <<prompt, left, probe>>
     \/ Finish
  /\ UNCHANGED <<setting, directory, outstanding, channel, writing>>

Store ==
  /\ reader = "store"
  /\ outstanding' = outstanding + 1
  /\ reader' = "send"
  /\ UNCHANGED <<setting, directory, channel, writing, prompt, left, probe, found>>

\* try_send: the image is queued, or dropped when one is queued already.
TrySend ==
  /\ reader = "send"
  /\ IF channel = << >>
     THEN channel' = <<found>> /\ Finish
     ELSE reader' = "skip" /\ UNCHANGED <<channel, prompt, left, probe, found>>
  /\ UNCHANGED <<setting, directory, outstanding, writing>>

Skip ==
  /\ reader = "skip"
  /\ outstanding' = outstanding - 1
  /\ Finish
  /\ UNCHANGED <<setting, directory, channel, writing>>
-----------------------------------------------------------------------------
(***************************************************************************)
(* The writer thread.                                                      *)
(***************************************************************************)
Take ==
  /\ writer = "idle" /\ channel # << >>
  /\ image' = Head(channel) /\ channel' = Tail(channel)
  /\ writer' = "write"
  /\ UNCHANGED <<setting, directory, outstanding, spared, request>>

\* The image goes to a temporary name, over what a failed write left there.
BeginTemporary ==
  /\ writer = "write"
  /\ files' = Append(Without(TemporaryOf(KeyOf(image))),
                     [key |-> KeyOf(image), tokens |-> NoImage, temporary |-> TRUE])
  /\ writer' = "fill"
  /\ UNCHANGED <<setting, index, foreign, bytes, outstanding, channel, image, spared, request>>

FillTemporary ==
  /\ writer = "fill"
  /\ files' = Append(Without(TemporaryOf(KeyOf(image))),
                     [key |-> KeyOf(image), tokens |-> image, temporary |-> TRUE])
  /\ writer' = "publish"
  /\ UNCHANGED <<setting, index, foreign, bytes, outstanding, channel, image, spared, request>>

\* Mutant: the entry is indexed although writing it failed.
WriteFailsUnnoticed ==
  /\ writer \in {"write", "fill", "publish"} /\ "write" \in Faults
  /\ writer' = "insert"
  /\ UNCHANGED <<setting, directory, outstanding, channel, image, spared, request>>

\* Serialising or renaming fails; what was written stays under its temporary name.
WriteFails ==
  /\ writer \in {"write", "fill", "publish"} /\ "write" \in Faults
  /\ writer' = "land"
  /\ UNCHANGED <<setting, directory, outstanding, channel, image, spared, request>>

\* The rename replaces a complete file of that name.
Publish ==
  /\ writer = "publish"
  /\ LET others == Without(FileOf(KeyOf(image)))
     IN files' = [i \in DOMAIN others |->
                    IF others[i].key = KeyOf(image) THEN [others[i] EXCEPT !.temporary = FALSE]
                    ELSE others[i]]
  /\ writer' = "insert"
  /\ UNCHANGED <<setting, index, foreign, bytes, outstanding, channel, image, spared, request>>

\* Mutant: an entry that is written again is counted again.
InsertCountingTwice ==
  /\ writer = "insert"
  /\ index' = Append(RemoveFirst(index, KeyOf(image)), KeyOf(image))
  /\ bytes' = bytes + Size(KeyOf(image))
  /\ writer' = "inserted"
  /\ UNCHANGED <<setting, files, foreign, outstanding, channel, image, spared, request>>

Insert ==
  /\ writer = "insert"
  /\ IF KeyOf(image) \in Range(index)
     THEN index' = Append(RemoveFirst(index, KeyOf(image)), KeyOf(image)) /\ UNCHANGED bytes
     ELSE index' = Append(index, KeyOf(image)) /\ bytes' = bytes + Size(KeyOf(image))
  /\ writer' = "inserted"
  /\ UNCHANGED <<setting, files, foreign, outstanding, channel, image, spared, request>>

LockForEviction ==
  /\ writer = "inserted"
  /\ writer' = "evict" /\ spared' = {}
  /\ UNCHANGED <<setting, directory, outstanding, channel, image, request>>

\* Evicting what was just written would discard what it cost.
Kept == IF image = NoImage THEN {} ELSE {KeyOf(image)}

\* Entries that may be evicted; the least recently used goes first.
Candidates == {i \in DOMAIN index : index[i] \notin Kept \cup spared}
Victim == index[Min(Candidates)]

\* No foreign file is left, or those left could not be removed.
ForeignDone == foreign = 0 \/ NoImage \in spared

\* Foreign files cost the same and can never be read: they go first.
EvictForeign ==
  /\ writer = "evict" /\ bytes > Budget
  /\ ~ForeignDone
  /\ foreign' = foreign - 1 /\ bytes' = bytes - 1
  /\ UNCHANGED <<setting, files, index, outstanding, channel, writing, request>>

SpareForeign ==
  /\ writer = "evict" /\ bytes > Budget
  /\ ~ForeignDone /\ "evict" \in Faults
  /\ spared' = spared \cup {NoImage}
  /\ UNCHANGED <<setting, directory, outstanding, channel, writer, image, request>>

EvictEntry ==
  /\ writer = "evict" /\ bytes > Budget
  /\ ForeignDone /\ Candidates # {}
  /\ FileOf(Victim) # {}
  /\ files' = Without(FileOf(Victim))
  /\ index' = RemoveFirst(index, Victim)
  /\ bytes' = bytes - Size(Victim)
  /\ UNCHANGED <<setting, foreign, outstanding, channel, writing, request>>

\* A file that cannot be removed, or is not there, keeps its entry.
SpareEntry ==
  /\ writer = "evict" /\ bytes > Budget
  /\ ForeignDone /\ Candidates # {}
  /\ FileOf(Victim) = {} \/ "evict" \in Faults
  /\ spared' = spared \cup {Victim}
  /\ UNCHANGED <<setting, directory, outstanding, channel, writer, image, request>>

\* Mutant: eviction goes on until the directory fits.
EndEvictionWhenItFits ==
  /\ writer = "evict"
  /\ bytes <= Budget
  /\ writer' = IF image = NoImage THEN "idle" ELSE "land"
  /\ spared' = {}
  /\ UNCHANGED <<setting, directory, outstanding, channel, image, request>>

\* Mutant: one removal is taken to be enough.
EndEvictionEarly ==
  /\ writer = "evict"
  /\ writer' = IF image = NoImage THEN "idle" ELSE "land"
  /\ spared' = {}
  /\ UNCHANGED <<setting, directory, outstanding, channel, image, request>>

\* The directory fits, or nothing is left to remove.  An eviction at the start
\* has no write to complete.
EndEviction ==
  /\ writer = "evict"
  /\ bytes <= Budget \/ (ForeignDone /\ Candidates = {})
  /\ writer' = IF image = NoImage THEN "idle" ELSE "land"
  /\ spared' = {}
  /\ UNCHANGED <<setting, directory, outstanding, channel, image, request>>

Land ==
  /\ writer = "land"
  /\ outstanding' = outstanding - 1
  /\ writer' = "idle" /\ image' = NoImage
  /\ UNCHANGED <<setting, directory, channel, spared, request>>
-----------------------------------------------------------------------------
\* Mutant: files that were being written are taken for entries.
ScanTakingTemporaries == [i \in DOMAIN files |-> [files[i] EXCEPT !.temporary = FALSE]]

\* Files that were being written are removed, complete ones are entries.
Scanned == ElementsAt(files, Complete)

\* The process is killed, and started again on the same directory.
Restart ==
  /\ files' = Scanned
  /\ index' = [i \in DOMAIN Scanned |-> Scanned[i].key]
  /\ bytes' = foreign + TotalSize(index')
  /\ outstanding' = 0 /\ channel' = << >>
  /\ writer' = "evict" /\ image' = NoImage /\ spared' = {}
  /\ Finish
  /\ UNCHANGED <<setting, foreign>>

Lookup ==
  \/ Probe \/ ReadHeader \/ ReadState \/ RemoveFile \/ Forget \/ Touch \/ Stamp

Respond ==
  \/ Lookup
  \/ /\ reader = "answered"
     /\ \E reused, stable \in 0..Len(prompt) : ChooseBoundary(reused, stable)
  \/ Store \/ TrySend \/ Skip

Write ==
  \/ Take \/ BeginTemporary \/ FillTemporary \/ WriteFails \/ Publish \/ Insert \/ LockForEviction
  \/ EvictForeign \/ SpareForeign \/ EvictEntry \/ SpareEntry \/ EndEviction \/ Land

Next ==
  \/ \E tokens \in Prompt : \E above \in 0..(Len(tokens) - 1) : StartLookup(tokens, above)
  \/ Respond
  \/ Write
  \/ Restart

Spec == Init /\ [][Next]_vars

\* Both threads run whenever they can; nothing obliges requests to come.
FairSpec == Spec /\ WF_vars(Respond) /\ WF_vars(Write)
=============================================================================
