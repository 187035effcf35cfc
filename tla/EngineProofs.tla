---------------------------- MODULE EngineProofs ----------------------------
(***************************************************************************)
(* The engine's history is its session, whatever happens to a request, and *)
(* replies show nothing of the requests before: for every set of requests, *)
(* every target and every block size.                                      *)
(***************************************************************************)
EXTENDS InferenceEngineProps, SeqLemmas, TLAPS

\* Outside a turn nothing has been generated, and an image's key is some text.
IInv ==
  /\ TypeOK
  /\ LiveIsSession
  /\ DecodesOwnPrompt
  /\ ImagesFaithful
  /\ stage # "turn" => reply = << >>

LEMMA StrictPrefixCut ==
  ASSUME NEW S, NEW s \in Seq(S), NEW t \in Seq(S), IsStrictPrefix(s, t)
  PROVE  Len(s) < Len(t) /\ s = SubSeq(t, 1, Len(s))
<1>1. Len(s) <= Len(t) /\ SubSeq(s, 1, Len(s)) = SubSeq(t, 1, Len(s)) /\ s # t
  BY DEF IsStrictPrefix, IsPrefix
<1>2. SubSeq(s, 1, Len(s)) = s /\ SubSeq(t, 1, Len(t)) = t
  OBVIOUS
<1>3. Len(s) # Len(t)
  BY <1>1, <1>2
<1>4. Len(s) \in Nat /\ Len(t) \in Nat
  OBVIOUS
<1>5. Len(s) < Len(t)
  BY <1>1, <1>3, <1>4
<1> QED
  BY <1>1, <1>2, <1>5

LEMMA PrefixCut ==
  ASSUME NEW S, NEW s \in Seq(S), NEW t \in Seq(S), IsPrefix(s, t)
  PROVE  s = SubSeq(t, 1, Len(s))
BY DEF IsPrefix

\* A prefix and the piece after it are a longer prefix.
LEMMA JoinPieces ==
  ASSUME NEW S, NEW t \in Seq(S), NEW n \in 0..Len(t), NEW m \in 0..n
  PROVE  /\ SubSeq(t, m + 1, n) \in Seq(S)
         /\ SubSeq(t, 1, m) \o SubSeq(t, m + 1, n) = SubSeq(t, 1, n)
OBVIOUS

LEMMA WholePrefix ==
  ASSUME NEW S, NEW t \in Seq(S)
  PROVE  SubSeq(t, 1, Len(t)) = t /\ SubSeq(t, 1, 0) = << >> /\ << >> \in Seq(S)
OBVIOUS

LEMMA RequestType ==
  ASSUME NEW r \in Requests
  PROVE  r.prompt \in Seq(Token) /\ r.prompt # << >> /\ r # NoRequest /\ Len(r.prompt) > 0
BY EngineAssumption

LEMMA InitHolds == Init => IInv
<1> SUFFICES ASSUME Init PROVE IInv
  OBVIOUS
<1>1. session \in [text : Seq(Token), ready : BOOLEAN, sound : BOOLEAN, mtp : HasMtp]
  <2>1. PICK mtp \in HasMtp : session = Fresh(mtp)
    BY DEF Init
  <2>2. << >> \in Seq(Token)
    OBVIOUS
  <2> QED
    BY <2>1, <2>2 DEF Fresh
<1>2. TypeOK
  BY <1>1 DEF Init, TypeOK
<1> QED
  BY <1>2 DEF Init, IInv, LiveIsSession, DecodesOwnPrompt, ImagesFaithful

\* What a boundary is for the request being prepared.
LEMMA BoundaryType ==
  ASSUME IInv, request # NoRequest, stage = "store", NEW b \in Boundaries
  PROVE  /\ b \in 1..(Len(request.prompt) - 1) /\ b > prefilled
         /\ request \in Requests
<1>1. request \in Requests
  BY DEF IInv, TypeOK
<1> QED
  BY <1>1 DEF Boundaries, StoreBoundaries

\* Preparing: whatever the session is put into spells a proper prefix of the prompt.
LEMMA StartOverKeeps ==
  ASSUME IInv, stage = "prepare", request # NoRequest, StartOver,
         cache' \subseteq cache, pending' = pending
  PROVE  IInv'
<1>1. request \in Requests /\ request' = request /\ reply' = reply /\ stage' = "store"
      /\ prefilled' = 0 /\ live' = NoHistory /\ session' = Fresh(session.mtp)
  BY DEF StartOver, Proceed, IInv, TypeOK
<1>2. session' \in [text : Seq(Token), ready : BOOLEAN, sound : BOOLEAN, mtp : HasMtp]
      /\ session'.text = << >> /\ session'.sound
  BY <1>1 DEF Fresh, IInv, TypeOK
<1>3. Len(request.prompt) > 0 /\ SubSeq(request.prompt, 1, 0) = << >>
  BY <1>1, RequestType, WholePrefix
<1>4. TypeOK'
  BY <1>1, <1>2 DEF IInv, TypeOK
<1> QED
  BY <1>1, <1>2, <1>3, <1>4 DEF IInv, LiveIsSession, DecodesOwnPrompt, ImagesFaithful

LEMMA RestoreKeeps ==
  ASSUME IInv, request # NoRequest, NEW image \in cache, Restore(image)
  PROVE  IInv'
<1>1. /\ stage = "prepare" /\ pending' = pending /\ cache' \subseteq cache
      /\ image \in Candidates(request)
  BY DEF Restore, LookUp
<1>2. CASE ~ServesRequestedArms(request, Restored(image))
  BY <1>1, <1>2, StartOverKeeps DEF Restore
<1>3. CASE ServesRequestedArms(request, Restored(image))
  <2>1. /\ session' = Restored(image) /\ live' = image.tokens /\ stage' = "store"
        /\ prefilled' = Len(image.tokens) /\ request' = request /\ reply' = reply
    BY <1>3 DEF Restore, Proceed
  <2>2. image \in Image /\ image.state = image.tokens /\ image.tokens \in Seq(Token)
    BY DEF IInv, TypeOK, ImagesFaithful, Image
  <2>3. /\ session' \in [text : Seq(Token), ready : BOOLEAN, sound : BOOLEAN, mtp : HasMtp]
        /\ session'.text = image.tokens /\ session'.sound
    BY <2>1, <2>2 DEF Restored, IInv, TypeOK, Image
  <2>4. request \in Requests /\ request.prompt \in Seq(Token)
    BY RequestType DEF IInv, TypeOK
  <2>5. IsStrictPrefix(image.tokens, request.prompt)
    BY <1>1 DEF Candidates
  <2>6. Len(image.tokens) < Len(request.prompt)
        /\ image.tokens = SubSeq(request.prompt, 1, Len(image.tokens))
    BY <2>2, <2>4, <2>5, StrictPrefixCut
  <2>7. TypeOK'
    BY <1>1, <2>1, <2>2, <2>3, <2>4 DEF IInv, TypeOK
  <2> QED
    BY <1>1, <2>1, <2>2, <2>3, <2>6, <2>7
    DEF IInv, LiveIsSession, DecodesOwnPrompt, ImagesFaithful
<1> QED
  BY <1>2, <1>3

LEMMA ContinueKeeps ==
  ASSUME IInv, request # NoRequest, ContinueOrReset
  PROVE  IInv'
<1>1. stage = "prepare" /\ pending' = pending /\ cache' \subseteq cache
  BY DEF ContinueOrReset
<1>2. CASE StartOver
  BY <1>1, <1>2, StartOverKeeps
<1>3. CASE /\ LiveTokens(request) > 0
           /\ Proceed(LiveTokens(request)) /\ session' = session /\ live' = live
  <2>1. /\ live # NoHistory /\ IsPrefix(live, request.prompt)
        /\ Len(request.prompt) > Len(live) /\ LiveTokens(request) = Len(live)
    BY <1>3 DEF LiveTokens
  <2>2. /\ live \in Seq(Token) /\ request \in Requests /\ request.prompt \in Seq(Token)
        /\ session.sound /\ session.text = live /\ session.text \in Seq(Token)
    BY <1>1, <2>1, RequestType DEF IInv, TypeOK, LiveIsSession
  <2>3. live = SubSeq(request.prompt, 1, Len(live))
    BY <2>1, <2>2, PrefixCut
  <2>4. stage' = "store" /\ prefilled' = Len(live) /\ request' = request /\ reply' = reply
    BY <1>3, <2>1 DEF Proceed
  <2>5. TypeOK'
    BY <1>1, <1>3, <2>2, <2>4 DEF IInv, TypeOK
  <2> QED
    BY <1>1, <1>3, <2>1, <2>2, <2>3, <2>4, <2>5
    DEF IInv, LiveIsSession, DecodesOwnPrompt, ImagesFaithful
<1> QED
  BY <1>2, <1>3 DEF ContinueOrReset

\* Evaluating a piece of the prompt after what the session holds of it.
LEMMA PrefilledText ==
  ASSUME IInv, request # NoRequest, stage \in {"store", "decode"},
         NEW n \in 0..Len(request.prompt), prefilled <= n, NEW track \in BOOLEAN,
         session' = Prefilled(SubSeq(request.prompt, prefilled + 1, n), track)
  PROVE  /\ session' \in [text : Seq(Token), ready : BOOLEAN, sound : BOOLEAN, mtp : HasMtp]
         /\ session'.text = SubSeq(request.prompt, 1, n) /\ session'.sound
<1>1. /\ request.prompt \in Seq(Token) /\ prefilled \in 0..n
      /\ session.text = SubSeq(request.prompt, 1, prefilled) /\ session.sound
  BY RequestType DEF IInv, TypeOK, DecodesOwnPrompt
<1> DEFINE piece == SubSeq(request.prompt, prefilled + 1, n)
<1>2. piece \in Seq(Token) /\ session.text \o piece = SubSeq(request.prompt, 1, n)
  BY <1>1, JoinPieces
<1>3. SubSeq(request.prompt, 1, n) \in Seq(Token)
  BY <1>1, PrefixType
<1> HIDE DEF piece
<1>4. session' = [session EXCEPT !.text = @ \o piece, !.ready = @ /\ track]
  BY DEF Prefilled, piece
<1>5. session \in [text : Seq(Token), ready : BOOLEAN, sound : BOOLEAN, mtp : HasMtp]
  BY DEF IInv, TypeOK
<1>6. session'.text = session.text \o piece /\ session'.sound = session.sound
      /\ session'.mtp = session.mtp /\ session'.ready = (session.ready /\ track)
  BY <1>4, <1>5
<1>7. session' \in [text : Seq(Token), ready : BOOLEAN, sound : BOOLEAN, mtp : HasMtp]
  BY <1>2, <1>3, <1>4, <1>5
<1> QED
  BY <1>1, <1>2, <1>6, <1>7

LEMMA WantsType == ASSUME IInv PROVE WantsMtp(request) \in BOOLEAN
BY DEF WantsMtp

LEMMA BoundaryKeeps ==
  ASSUME IInv, request # NoRequest, NEW b \in Boundaries, PrefillToBoundary(b)
  PROVE  IInv'
<1>1. /\ stage = "store" /\ stage' = "decode" /\ prefilled' = b /\ cache' = cache
      /\ request' = request /\ reply' = reply /\ live' = SubSeq(request.prompt, 1, b)
      /\ session' = Prefilled(SubSeq(request.prompt, prefilled + 1, b), WantsMtp(request))
  BY DEF PrefillToBoundary
<1>2. b \in 1..(Len(request.prompt) - 1) /\ b > prefilled /\ request \in Requests
  BY <1>1, BoundaryType
<1>3. request.prompt \in Seq(Token) /\ prefilled \in Nat
  BY <1>2, RequestType DEF IInv, TypeOK
<1>4. b \in 0..Len(request.prompt) /\ prefilled <= b /\ b < Len(request.prompt) /\ b \in Nat
  BY <1>2, <1>3
<1>5. /\ session' \in [text : Seq(Token), ready : BOOLEAN, sound : BOOLEAN, mtp : HasMtp]
      /\ session'.text = SubSeq(request.prompt, 1, b) /\ session'.sound
  BY <1>1, <1>4, WantsType, PrefilledText
<1>6. live' \in Seq(Token)
  BY <1>1, <1>3, <1>4, PrefixType
<1>7. ImageAt(b, session') \in Image /\ ImageAt(b, session').state = ImageAt(b, session').tokens
  BY <1>1, <1>5, <1>6 DEF ImageAt, Image
<1>8. pending' \subseteq pending \cup {ImageAt(b, session')}
  BY DEF PrefillToBoundary
<1>9. TypeOK'
  BY <1>1, <1>2, <1>4, <1>5, <1>6, <1>7, <1>8 DEF IInv, TypeOK
<1>10. ImagesFaithful'
  BY <1>1, <1>7, <1>8 DEF IInv, ImagesFaithful
<1> QED
  BY <1>1, <1>4, <1>5, <1>9, <1>10 DEF IInv, LiveIsSession, DecodesOwnPrompt

LEMMA PrefillKeeps ==
  ASSUME IInv, request # NoRequest, Prefill
  PROVE  IInv'
<1>1. /\ stage = "decode" /\ stage' = "turn" /\ live' = live /\ cache' = cache
      /\ pending' = pending /\ request' = request /\ prefilled' = prefilled /\ reply' = reply
      /\ session' = Prefilled(SubSeq(request.prompt, prefilled + 1, Len(request.prompt)),
                              WantsMtp(request))
  BY DEF Prefill, images
<1>2. request.prompt \in Seq(Token) /\ request \in Requests
      /\ Len(request.prompt) \in 0..Len(request.prompt) /\ prefilled <= Len(request.prompt)
  BY <1>1, RequestType DEF IInv, TypeOK, DecodesOwnPrompt
<1>3. /\ session' \in [text : Seq(Token), ready : BOOLEAN, sound : BOOLEAN, mtp : HasMtp]
      /\ session'.text = SubSeq(request.prompt, 1, Len(request.prompt)) /\ session'.sound
  BY <1>1, <1>2, WantsType, PrefilledText
<1>4. session'.text = request.prompt \o reply /\ reply = << >>
  BY <1>1, <1>2, <1>3, WholePrefix, ConcatEmpty DEF IInv
<1>5. TypeOK'
  BY <1>1, <1>2, <1>3 DEF IInv, TypeOK
<1> QED
  BY <1>1, <1>3, <1>4, <1>5 DEF IInv, LiveIsSession, DecodesOwnPrompt, ImagesFaithful

LEMMA EmitKeeps ==
  ASSUME IInv, request # NoRequest, Emit
  PROVE  IInv'
<1>1. PICK token \in Token : reply' = Append(reply, token)
        /\ session' = [session EXCEPT !.text = Append(@, token)]
  BY DEF Emit, Allowed
<1>2. /\ stage = "turn" /\ stage' = "turn" /\ live' = live /\ cache' = cache
      /\ pending' = pending /\ request' = request /\ prefilled' = prefilled
  BY DEF Emit, images
<1>3. /\ request.prompt \in Seq(Token) /\ reply \in Seq(Token) /\ request \in Requests
      /\ session.text = request.prompt \o reply /\ session.sound
      /\ session \in [text : Seq(Token), ready : BOOLEAN, sound : BOOLEAN, mtp : HasMtp]
  BY <1>2, RequestType DEF IInv, TypeOK, DecodesOwnPrompt
<1>4. session'.text = Append(session.text, token) /\ session'.sound = session.sound
  BY <1>1, <1>3
<1>5. Append(session.text, token) \in Seq(Token) /\ reply' \in Seq(Token)
  BY <1>1, <1>3, AppendType
<1>6. session' \in [text : Seq(Token), ready : BOOLEAN, sound : BOOLEAN, mtp : HasMtp]
  BY <1>1, <1>3, <1>5
<1>7. Append(request.prompt \o reply, token) = request.prompt \o Append(reply, token)
  <2> DEFINE p == request.prompt
             one == <<token>>
  <2>1. p \in Seq(Token) /\ reply \in Seq(Token) /\ p \o reply \in Seq(Token)
    BY <1>3, ConcatType
  <2>2. one \in Seq(Token) /\ Append(p \o reply, token) = (p \o reply) \o one
        /\ Append(reply, token) = reply \o one
    BY <2>1, AppendAsConcat
  <2> HIDE DEF p, one
  <2>3. (p \o reply) \o one = p \o (reply \o one)
    BY <2>1, <2>2, ConcatAssoc
  <2> QED
    BY <2>2, <2>3 DEF p
<1>8. TypeOK'
  BY <1>2, <1>3, <1>5, <1>6 DEF IInv, TypeOK
<1> QED
  BY <1>1, <1>2, <1>3, <1>4, <1>7, <1>8
  DEF IInv, LiveIsSession, DecodesOwnPrompt, ImagesFaithful

\* However a request ends, the history is unknown or what the session holds.
LEMMA FinishKeeps ==
  ASSUME IInv, Finish,
         session' \in [text : Seq(Token), ready : BOOLEAN, sound : BOOLEAN, mtp : HasMtp],
         live' \in Seq(Token) \cup {NoHistory},
         live' # NoHistory => session'.sound /\ session'.text = live',
         cache' \subseteq cache, pending' \subseteq pending
  PROVE  IInv'
<1>1. TypeOK'
  BY DEF IInv, TypeOK, Finish
<1> QED
  BY <1>1 DEF IInv, Finish, LiveIsSession, DecodesOwnPrompt, ImagesFaithful

LEMMA BrokenType ==
  ASSUME IInv
  PROVE  Broken \in [text : Seq(Token), ready : BOOLEAN, sound : BOOLEAN, mtp : HasMtp]
BY DEF Broken, IInv, TypeOK

LEMMA FreshType ==
  ASSUME IInv
  PROVE  Fresh(session.mtp) \in [text : Seq(Token), ready : BOOLEAN, sound : BOOLEAN, mtp : HasMtp]
BY DEF Fresh, IInv, TypeOK

LEMMA EndTurnKeeps ==
  ASSUME IInv, request # NoRequest, EndTurn
  PROVE  IInv'
<1>1. /\ stage = "turn" /\ live' = request.prompt \o reply /\ session' = session
      /\ cache' = cache /\ pending' = pending /\ Finish
  BY DEF EndTurn, images
<1>2. request.prompt \in Seq(Token) /\ reply \in Seq(Token)
      /\ session.sound /\ session.text = request.prompt \o reply
  BY <1>1, RequestType DEF IInv, TypeOK, DecodesOwnPrompt
<1>3. live' \in Seq(Token)
  BY <1>1, <1>2, ConcatType
<1> QED
  BY <1>1, <1>2, <1>3, FinishKeeps DEF IInv, TypeOK

\* Each step of serving a request.
LEMMA ServeKeeps ==
  ASSUME IInv, request # NoRequest, Serve
  PROVE  IInv'
<1>1. CASE EncodeFails
  BY <1>1, FinishKeeps DEF EncodeFails, images, IInv, TypeOK, LiveIsSession
<1>2. CASE ContinueOrReset
  BY <1>2, ContinueKeeps
<1>3. ASSUME NEW image \in cache, Restore(image) PROVE IInv'
  BY <1>3, RestoreKeeps
<1>4. ASSUME NEW image \in cache, RestoreFails(image) PROVE IInv'
  BY <1>4, FinishKeeps, BrokenType DEF RestoreFails, LookUp
<1>5. CASE NoBoundary
  <2>1. TypeOK'
    BY <1>5 DEF NoBoundary, images, IInv, TypeOK
  <2> QED
    BY <1>5, <2>1
    DEF NoBoundary, images, IInv, LiveIsSession, DecodesOwnPrompt, ImagesFaithful
<1>6. ASSUME NEW b \in Boundaries, PrefillToBoundary(b) PROVE IInv'
  BY <1>6, BoundaryKeeps
<1>7. ASSUME NEW b \in Boundaries, BoundaryFails(b) PROVE IInv'
  BY <1>7, FinishKeeps, BrokenType DEF BoundaryFails, Fail, images
<1>8. CASE Disconnected
  BY <1>8, FinishKeeps DEF Disconnected, images, IInv, TypeOK, LiveIsSession
<1>9. CASE Rejects
  BY <1>9, FinishKeeps DEF Rejects, Fail, images, IInv, TypeOK
<1>10. CASE Prefill
  BY <1>10, PrefillKeeps
<1>11. CASE Emit
  BY <1>11, EmitKeeps
<1>12. CASE EndTurn
  BY <1>12, EndTurnKeeps
<1>13. CASE TurnFails
  BY <1>13, FinishKeeps, BrokenType DEF TurnFails, Fail, images
<1> QED
  BY <1>1, <1>2, <1>3, <1>4, <1>5, <1>6, <1>7, <1>8, <1>9, <1>10, <1>11, <1>12, <1>13
  DEF Serve

LEMMA NextKeeps == IInv /\ [Next]_vars => IInv'
<1> SUFFICES ASSUME IInv, [Next]_vars PROVE IInv'
  OBVIOUS
<1>1. ASSUME NEW r \in Requests, TakeJob(r) PROVE IInv'
  <2>1. /\ stage = "idle" /\ stage' = "prepare" /\ request' = r /\ session' = session
        /\ live' = live /\ cache' = cache /\ pending' = pending /\ prefilled' = prefilled
        /\ reply' = reply
    BY <1>1 DEF TakeJob, images
  <2>2. r # NoRequest
    BY RequestType
  <2>3. TypeOK'
    BY <2>1, <2>2 DEF IInv, TypeOK
  <2> QED
    BY <2>1, <2>3 DEF IInv, LiveIsSession, DecodesOwnPrompt, ImagesFaithful
<1>2. CASE request # NoRequest /\ Serve
  BY <1>2, ServeKeeps
<1>3. ASSUME NEW image \in pending, Land(image) PROVE IInv'
  <2>1. /\ pending' \subseteq pending /\ cache' \subseteq cache \cup {image}
        /\ session' = session /\ live' = live /\ stage' = stage /\ request' = request
        /\ prefilled' = prefilled /\ reply' = reply
    BY <1>3 DEF Land
  <2>2. TypeOK' /\ ImagesFaithful'
    BY <2>1 DEF IInv, TypeOK, ImagesFaithful
  <2> QED
    BY <2>1, <2>2 DEF IInv, LiveIsSession, DecodesOwnPrompt
<1>4. ASSUME NEW image \in cache, Evict(image) PROVE IInv'
  <2>1. /\ pending' = pending /\ cache' \subseteq cache
        /\ session' = session /\ live' = live /\ stage' = stage /\ request' = request
        /\ prefilled' = prefilled /\ reply' = reply
    BY <1>4 DEF Evict
  <2>2. TypeOK' /\ ImagesFaithful'
    BY <2>1 DEF IInv, TypeOK, ImagesFaithful
  <2> QED
    BY <2>1, <2>2 DEF IInv, LiveIsSession, DecodesOwnPrompt
<1>5. CASE Restart
  BY <1>5, FinishKeeps, FreshType DEF Restart
<1>6. CASE UNCHANGED vars
  BY <1>6 DEF vars, IInv, TypeOK, LiveIsSession, DecodesOwnPrompt, ImagesFaithful
<1> QED
  BY <1>1, <1>2, <1>3, <1>4, <1>5, <1>6 DEF Next

THEOREM InvHolds == Spec => []IInv
BY InitHolds, NextKeeps, PTL DEF Spec

\* Every variable keeps its type.
THEOREM TypeCorrect == Spec => []TypeOK
BY InvHolds, PTL DEF IInv

\* The recorded history is what the session represents (engine.rs:462).
THEOREM HistoryIsSession == Spec => []LiveIsSession
BY InvHolds, PTL DEF IInv

\* A request decodes from its own prompt, whatever it reused.
THEOREM OwnPrompt == Spec => []DecodesOwnPrompt
BY InvHolds, PTL DEF IInv

\* No session that spells something else is ever stored (store_boundary_entry).
THEOREM FaithfulImages == Spec => []ImagesFaithful
BY InvHolds, PTL DEF IInv
-----------------------------------------------------------------------------
\* From the moment a request has its session, its arm can draft from it; the
\* boundary prefill keeps that, since the request's mode has the arm.
ArmReady ==
  session.mtp /\ stage \in {"store", "decode"} /\ request.mode = "Mtp" => session.ready

LEMMA ArmStep ==
  ASSUME IInv, ArmReady, request # NoRequest, Serve
  PROVE  ArmReady'
<1> USE DEF ArmReady
<1>1. session \in [text : Seq(Token), ready : BOOLEAN, sound : BOOLEAN, mtp : HasMtp]
  BY DEF IInv, TypeOK
<1>2. CASE Finish
  BY <1>2 DEF Finish
<1>3. CASE StartOver
  BY <1>3 DEF StartOver, Fresh
<1>4. CASE stage' = "turn"
  BY <1>4
<1>5. CASE NoBoundary
  BY <1>5 DEF NoBoundary
<1>6. ASSUME NEW b \in Boundaries, PrefillToBoundary(b) PROVE ArmReady'
  <2>1. /\ stage = "store" /\ request' = request
        /\ session' = Prefilled(SubSeq(request.prompt, prefilled + 1, b), WantsMtp(request))
    BY <1>6 DEF PrefillToBoundary
  <2>2. session'.mtp = session.mtp /\ session'.ready = (session.ready /\ WantsMtp(request))
    BY <1>1, <2>1 DEF Prefilled
  <2> QED
    BY <2>1, <2>2 DEF WantsMtp
<1>7. ASSUME NEW image \in cache, Restore(image), ~StartOver PROVE ArmReady'
  <2>1. session' = Restored(image) /\ request' = request
        /\ ServesRequestedArms(request, Restored(image))
    BY <1>7 DEF Restore, Proceed
  <2> QED
    BY <2>1 DEF ServesRequestedArms
<1>8. CASE ContinueOrReset /\ ~StartOver
  BY <1>8 DEF ContinueOrReset, ServesRequestedArms, Proceed
<1> QED
  BY <1>2, <1>3, <1>4, <1>5, <1>6, <1>7, <1>8
  DEF Serve, EncodeFails, RestoreFails, BoundaryFails, Disconnected, Rejects, Prefill,
      Emit, EndTurn, TurnFails, Fail

LEMMA ArmNext == IInv /\ ArmReady /\ [Next]_vars => ArmReady'
<1> SUFFICES ASSUME IInv, ArmReady, [Next]_vars PROVE ArmReady'
  OBVIOUS
<1>1. CASE request # NoRequest /\ Serve
  BY <1>1, ArmStep
<1>2. CASE ~(request # NoRequest /\ Serve)
  BY <1>2 DEF Next, TakeJob, Land, Evict, Restart, Finish, vars, ArmReady
<1> QED
  BY <1>1, <1>2

\* A request for the single-arm MTP mode is never rejected for its session.
THEOREM ArmIsServed == Spec => []SingleArmServed
<1>1. Init => ArmReady
  BY DEF Init, ArmReady
<1>2. ArmReady => SingleArmServed
  BY DEF ArmReady, SingleArmServed
<1> QED
  BY <1>1, <1>2, ArmNext, InvHolds, PTL DEF Spec
-----------------------------------------------------------------------------
(***************************************************************************)
(* The refinement: a reply begins when the rest of its prompt has been     *)
(* evaluated.                                                              *)
(***************************************************************************)
LEMMA RefineInit == Init => Stateless!Init
BY DEF Init, Stateless!Init

\* Outside a turn, before and after a step, the client sees nothing.
LEMMA QuietStep ==
  ASSUME IInv, stage # "turn", stage' # "turn", reply' = reply
  PROVE  UNCHANGED Stateless!vars
BY DEF Stateless!vars

\* A turn's end is the reply's.
LEMMA FinishRefines ==
  ASSUME IInv, request # NoRequest, Finish
  PROVE  Stateless!End \/ UNCHANGED Stateless!vars
<1>1. stage' = "idle" /\ reply' = << >>
  BY DEF Finish
<1>2. CASE stage = "turn"
  BY <1>1, <1>2 DEF Stateless!End
<1>3. CASE stage # "turn"
  BY <1>1, <1>3, QuietStep DEF IInv
<1> QED
  BY <1>2, <1>3

LEMMA PrefillRefines ==
  ASSUME IInv, request # NoRequest, Prefill
  PROVE  Stateless!Ask(request)
<1>1. stage = "decode" /\ stage' = "turn" /\ request' = request /\ reply' = reply
  BY DEF Prefill
<1> QED
  BY <1>1 DEF Stateless!Ask, IInv

LEMMA EmitRefines ==
  ASSUME IInv, request # NoRequest, Emit
  PROVE  Stateless!Extend
<1>1. /\ stage = "turn" /\ stage' = "turn" /\ request' = request
      /\ Len(reply) < request.maxNew /\ ~Stopped
      /\ session.text = request.prompt \o reply
  BY DEF Emit, IInv, DecodesOwnPrompt
<1>2. PICK token \in Token : /\ request.sampled \/ token = Choice(request.prompt \o reply)
                             /\ reply' = Append(reply, token)
  BY <1>1 DEF Emit, Allowed
<1>3. token \in Stateless!Allowed(request, request.prompt \o reply)
  BY <1>2 DEF Stateless!Allowed
<1>4. ~Stateless!Stopped
  BY <1>1 DEF Stateless!Stopped, Stopped, Last
<1> QED
  BY <1>1, <1>2, <1>3, <1>4 DEF Stateless!Extend

LEMMA ServeRefines ==
  ASSUME IInv, request # NoRequest, Serve
  PROVE  Stateless!Next \/ UNCHANGED Stateless!vars
<1>1. CASE Finish
  BY <1>1, FinishRefines DEF Stateless!Next
<1>2. CASE stage \in {"prepare", "store"} /\ stage' \in {"store", "decode"} /\ reply' = reply
  BY <1>2, QuietStep
<1>3. CASE Prefill
  BY <1>3, PrefillRefines DEF Stateless!Next, IInv, TypeOK
<1>4. CASE Emit
  BY <1>4, EmitRefines DEF Stateless!Next
<1>5. Finish \/ Prefill \/ Emit
      \/ (stage \in {"prepare", "store"} /\ stage' \in {"store", "decode"} /\ reply' = reply)
  BY DEF Serve, EncodeFails, ContinueOrReset, Restore, RestoreFails, NoBoundary,
         PrefillToBoundary, BoundaryFails, Disconnected, Rejects, EndTurn, TurnFails,
         Fail, StartOver, Proceed
<1> QED
  BY <1>1, <1>2, <1>3, <1>4, <1>5

LEMMA RefineNext == IInv /\ [Next]_vars => [Stateless!Next]_(Stateless!vars)
<1> SUFFICES ASSUME IInv, [Next]_vars
             PROVE  Stateless!Next \/ UNCHANGED Stateless!vars
  OBVIOUS
<1>1. ASSUME NEW r \in Requests, TakeJob(r) PROVE UNCHANGED Stateless!vars
  BY <1>1, QuietStep DEF TakeJob
<1>2. CASE request # NoRequest /\ Serve
  BY <1>2, ServeRefines
<1>3. ASSUME NEW image \in pending, Land(image) PROVE UNCHANGED Stateless!vars
  BY <1>3 DEF Land, Stateless!vars
<1>4. ASSUME NEW image \in cache, Evict(image) PROVE UNCHANGED Stateless!vars
  BY <1>4 DEF Evict, Stateless!vars
<1>5. CASE Restart
  <2>1. Finish
    BY <1>5 DEF Restart
  <2>2. CASE request # NoRequest
    BY <2>1, <2>2, FinishRefines DEF Stateless!Next
  <2>3. CASE request = NoRequest
    BY <2>1, <2>3, QuietStep DEF Finish, IInv, TypeOK
  <2> QED
    BY <2>2, <2>3
<1>6. CASE UNCHANGED vars
  BY <1>6 DEF vars, Stateless!vars
<1> QED
  BY <1>1, <1>2, <1>3, <1>4, <1>5, <1>6 DEF Next

\* Every reply continues its own prompt as a target starting from nothing would.
THEOREM RepliesStateless == Spec => RepliesAreStateless
BY InvHolds, RefineInit, RefineNext, PTL DEF Spec, RepliesAreStateless, Stateless!Spec
=============================================================================
