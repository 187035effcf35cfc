-------------------------- MODULE InferenceEngine --------------------------
(***************************************************************************)
(* The engine's worker (src/src/server/engine.rs), which composes the      *)
(* session, the prompt cache and the queue: it takes one request at a      *)
(* time, puts the session into the longest state that is a prefix of the   *)
(* prompt - the live session's own or an image of the cache - leaves an    *)
(* image behind at a block boundary, and decodes.                          *)
(*                                                                         *)
(* The session is what Session.tla shows of it: the text its state         *)
(* represents, whether its MTP predictor can draft from there, and whether *)
(* a failed pass has left it anywhere.  The cache is what PromptCache.tla  *)
(* shows of it: images that hold the tokens they are keyed by, written     *)
(* later or never, and evicted at any time.                                *)
(***************************************************************************)
EXTENDS Naturals, Sequences, FiniteSets, SequencesExt

CONSTANTS
  Token, StopTokens, Choice(_),
  Requests,     \* [prompt, mode, sampled, maxNew, stable]
  HasMtp,       \* whether the checkpoint has an MTP predictor: the cases to consider
  PrefixReuse,  \* the engine's switch for reusing sessions
  BlockTokens,  \* cache boundaries are multiples of it
  NoRequest,
  NoHistory     \* nothing is known of the session

ASSUME EngineAssumption ==
  /\ HasMtp \subseteq BOOLEAN /\ PrefixReuse \in BOOLEAN
  /\ BlockTokens \in Nat \ {0}
  /\ NoRequest \notin Requests /\ NoHistory \notin Seq(Token)
  /\ \A r \in Requests :
       /\ r.prompt \in Seq(Token) /\ r.prompt # << >>
       /\ r.mode \in {"Off", "Ngram", "Auto", "Mtp"}
       /\ r.sampled \in BOOLEAN
       /\ r.sampled => r.mode = "Off"
       /\ r.maxNew \in Nat \ {0} /\ r.stable \in Nat

VARIABLES
  session,     \* [text, ready, sound], and mtp: the checkpoint has a predictor
  live,        \* the tokens the worker takes the session to represent
  cache,       \* images on disk: [tokens, state, mtp], keyed by their tokens
  pending,     \* images handed to the writer and not indexed yet
  stage,       \* where the worker is
  request,     \* the request it serves
  prefilled,   \* tokens of its prompt the session already represents
  reply        \* tokens generated for it

vars == <<session, live, cache, pending, stage, request, prefilled, reply>>
images == <<cache, pending>>

Fresh(mtp) == [text |-> << >>, ready |-> TRUE, sound |-> TRUE, mtp |-> mtp]

\* A failed pass leaves the session anywhere.
Broken == [session EXCEPT !.sound = FALSE]

WantsMtp(r) == r.mode \in {"Auto", "Mtp"} /\ session.mtp

\* Mutant: whatever the session is, it serves the request.
ServesAnyArms(r, s) == TRUE

\* Generation in the single-arm MTP mode needs a predictor that has kept up.
ServesRequestedArms(r, s) == r.mode # "Mtp" \/ s.ready

Accepted(r, s) == r.mode # "Mtp" \/ (s.mtp /\ s.ready)

ImageKeys == {image.tokens : image \in cache}

\* The image of a boundary, and the session restored from it.
Restored(image) ==
  [session EXCEPT !.text = image.state, !.ready = image.mtp /\ session.mtp, !.sound = TRUE]

\* Mutant: the prompt shares its beginning with what the session holds.
LiveTokensOverlapping(r) ==
  IF live # NoHistory /\ live # << >> /\ Len(r.prompt) > Len(live) /\ live[1] = r.prompt[1]
  THEN Len(live) ELSE 0

\* How much of the prompt the live session covers: all of its own history or nothing.
LiveTokens(r) ==
  IF live # NoHistory /\ live # << >> /\ Len(r.prompt) > Len(live) /\ IsPrefix(live, r.prompt)
  THEN Len(live) ELSE 0

\* Images of longer prefixes than the live session covers.
Candidates(r) ==
  {image \in cache : /\ IsStrictPrefix(image.tokens, r.prompt)
                     /\ Len(image.tokens) > LiveTokens(r)}

\* The longest boundary inside the stable prefix, if it is beyond what was
\* reused and its key is free.
StoreBoundaries(r, reused) ==
  LET inside == {b \in 1..(Len(r.prompt) - 1) : b % BlockTokens = 0 /\ b <= r.stable}
  IN {b \in inside : /\ \A other \in inside : other <= b
                     /\ b > reused
                     /\ SubSeq(r.prompt, 1, b) \notin ImageKeys}

\* Evaluating tokens keeps the predictor in step only when the pass retains
\* its hidden rows.
Prefilled(tokens, track) ==
  [session EXCEPT !.text = @ \o tokens, !.ready = @ /\ track]

Init ==
  /\ session \in {Fresh(mtp) : mtp \in HasMtp} /\ live = NoHistory
  /\ cache = {} /\ pending = {}
  /\ stage = "idle" /\ request = NoRequest /\ prefilled = 0 /\ reply = << >>

Finish == stage' = "idle" /\ request' = NoRequest /\ prefilled' = 0 /\ reply' = << >>

\* The client is told of an error, and the next request rebuilds the session.
Fail ==
  /\ Finish
  /\ live' = NoHistory
  /\ UNCHANGED images
-----------------------------------------------------------------------------
\* The worker takes a job whose client is still there.
TakeJob(r) ==
  /\ stage = "idle"
  /\ stage' = "prepare" /\ request' = r
  /\ UNCHANGED <<session, live, images, prefilled, reply>>

\* The prompt does not encode: nothing has been touched.
EncodeFails ==
  /\ stage = "prepare"
  /\ Finish
  /\ UNCHANGED <<session, live, images>>

Proceed(tokens) == stage' = "store" /\ prefilled' = tokens /\ UNCHANGED <<request, reply>>

StartOver ==
  /\ session' = Fresh(session.mtp) /\ live' = NoHistory
  /\ Proceed(0)

\* Entries that cannot be read are discarded on the way to the one that can.
LookUp(found) ==
  /\ found \in Candidates(request)
  /\ cache' = {image \in cache :
                 image \in Candidates(request) => Len(image.tokens) <= Len(found.tokens)}

\* Mutant: the history is not replaced with the state.
RestoreKeepingHistory(image) ==
  /\ stage = "prepare" /\ PrefixReuse
  /\ LookUp(image)
  /\ IF ServesRequestedArms(request, Restored(image))
     THEN /\ session' = Restored(image) /\ UNCHANGED live
          /\ Proceed(Len(image.tokens))
     ELSE StartOver
  /\ UNCHANGED pending

Restore(image) ==
  /\ stage = "prepare" /\ PrefixReuse
  /\ LookUp(image)
  /\ IF ServesRequestedArms(request, Restored(image))
     THEN /\ session' = Restored(image) /\ live' = image.tokens
          /\ Proceed(Len(image.tokens))
     ELSE StartOver
  /\ UNCHANGED pending

RestoreFails(image) ==
  /\ stage = "prepare" /\ PrefixReuse
  /\ LookUp(image)
  /\ session' = Broken /\ live' = NoHistory
  /\ Finish
  /\ UNCHANGED pending

\* No image can be read: the live session goes on, or the prompt starts over.
ContinueOrReset ==
  /\ stage = "prepare"
  /\ cache' = IF PrefixReuse THEN cache \ Candidates(request) ELSE cache
  /\ IF PrefixReuse /\ LiveTokens(request) > 0 /\ ServesRequestedArms(request, session)
     THEN /\ Proceed(LiveTokens(request))
          /\ UNCHANGED <<session, live>>
     ELSE StartOver
  /\ UNCHANGED pending
-----------------------------------------------------------------------------
Boundaries == IF PrefixReuse THEN StoreBoundaries(request, prefilled) ELSE {}

NoBoundary ==
  /\ stage = "store" /\ Boundaries = {}
  /\ stage' = "decode"
  /\ UNCHANGED <<session, live, images, request, prefilled, reply>>

\* The tokens an image is tagged with are the prompt's, its state is the session's.
ImageAt(b, s) == [tokens |-> SubSeq(request.prompt, 1, b), state |-> s.text, mtp |-> s.ready]

\* A request that drafts with the predictor stores no image without its state.
KeepsImage(s) == WantsMtp(request) => s.ready

\* Evaluate up to the boundary and hand an image of it to the writer, which
\* may be busy and drop it.
PrefillToBoundary(b) ==
  /\ stage = "store" /\ b \in Boundaries
  /\ session' = Prefilled(SubSeq(request.prompt, prefilled + 1, b), WantsMtp(request))
  /\ \/ /\ KeepsImage(session')
        /\ pending' = pending \cup {ImageAt(b, session')}
     \/ UNCHANGED pending
  /\ live' = SubSeq(request.prompt, 1, b)
  /\ stage' = "decode" /\ prefilled' = b
  /\ UNCHANGED <<cache, request, reply>>

BoundaryFails(b) ==
  /\ stage = "store" /\ b \in Boundaries
  /\ session' = Broken
  /\ Fail
-----------------------------------------------------------------------------
\* The client is gone before the turn starts: the session stays at the boundary.
Disconnected ==
  /\ stage = "decode"
  /\ Finish
  /\ UNCHANGED <<session, live, images>>

\* Generation rejects a session whose predictor is behind, before it touches it.
Rejects ==
  /\ stage = "decode" /\ ~Accepted(request, session)
  /\ UNCHANGED session
  /\ Fail

\* The rest of the prompt; the turn keeps the predictor in step only if it
\* was, and if the turn's mode has its arm.
Prefill ==
  /\ stage = "decode" /\ Accepted(request, session)
  /\ session' = Prefilled(SubSeq(request.prompt, prefilled + 1, Len(request.prompt)),
                          WantsMtp(request))
  /\ stage' = "turn"
  /\ UNCHANGED <<live, images, request, prefilled, reply>>

Allowed(context) == {token \in Token : request.sampled \/ token = Choice(context)}

Stopped == reply # << >> /\ Last(reply) \in StopTokens

Emit ==
  /\ stage = "turn"
  /\ Len(reply) < request.maxNew /\ ~Stopped
  /\ \E token \in Allowed(session.text) :
       /\ reply' = Append(reply, token)
       /\ session' = [session EXCEPT !.text = Append(@, token)]
  /\ UNCHANGED <<live, images, stage, request, prefilled>>

\* Mutant: the token a turn was halted on is left out.
EndTurnForgettingLast ==
  /\ stage = "turn" /\ reply # << >>
  /\ live' = request.prompt \o Front(reply)
  /\ Finish
  /\ UNCHANGED <<session, images>>

\* The turn ends by itself, at a stop string or a closed tool call, or because
\* the client has gone: each way what was emitted is what the session holds.
EndTurn ==
  /\ stage = "turn" /\ reply # << >>
  /\ live' = request.prompt \o reply
  /\ Finish
  /\ UNCHANGED <<session, images>>

\* Mutant: the history is recorded although the pass failed.
TurnFailsUnnoticed ==
  /\ stage \in {"decode", "turn"}
  /\ session' = Broken
  /\ live' = request.prompt \o reply
  /\ Finish
  /\ UNCHANGED images

\* A pass fails, or the callback's decoding of a token does.
TurnFails ==
  /\ stage \in {"decode", "turn"}
  /\ session' = Broken
  /\ Fail
-----------------------------------------------------------------------------
\* A write lands, replacing an image of that key.
Land(image) ==
  /\ image \in pending
  /\ pending' = pending \ {image}
  /\ cache' = {other \in cache : other.tokens # image.tokens} \cup {image}
  /\ UNCHANGED <<session, live, stage, request, prefilled, reply>>

Evict(image) ==
  /\ image \in cache
  /\ cache' = cache \ {image}
  /\ UNCHANGED <<session, live, pending, stage, request, prefilled, reply>>

\* The process is killed and started again on the same directory.
Restart ==
  /\ session' = Fresh(session.mtp) /\ live' = NoHistory /\ pending' = {}
  /\ Finish
  /\ UNCHANGED cache

Serve ==
  \/ EncodeFails \/ ContinueOrReset
  \/ \E image \in cache : Restore(image) \/ RestoreFails(image)
  \/ NoBoundary
  \/ \E b \in Boundaries : PrefillToBoundary(b) \/ BoundaryFails(b)
  \/ Disconnected \/ Rejects \/ Prefill \/ Emit \/ EndTurn \/ TurnFails

Next ==
  \/ \E r \in Requests : TakeJob(r)
  \/ request # NoRequest /\ Serve
  \/ \E image \in pending : Land(image)
  \/ \E image \in cache : Evict(image)
  \/ Restart

Spec == Init /\ [][Next]_vars
=============================================================================
