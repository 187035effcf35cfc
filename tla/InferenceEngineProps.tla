------------------------ MODULE InferenceEngineProps ------------------------
(***************************************************************************)
(* What the engine must keep true while one session is passed on from      *)
(* request to request and its images outlive the process.                  *)
(***************************************************************************)
EXTENDS InferenceEngine

Image == [tokens : Seq(Token), state : Seq(Token), mtp : BOOLEAN]

\* Every variable has its type, and a request is there exactly while it is served.
TypeOK ==
  /\ session \in [text : Seq(Token), ready : BOOLEAN, sound : BOOLEAN, mtp : HasMtp]
  /\ live \in Seq(Token) \cup {NoHistory}
  /\ cache \subseteq Image /\ pending \subseteq Image
  /\ stage \in {"idle", "prepare", "store", "decode", "turn"}
  /\ request \in Requests \cup {NoRequest}
  /\ (stage = "idle") <=> (request = NoRequest)
  /\ prefilled \in Nat /\ reply \in Seq(Token)

\* Between requests, and until a request's own tokens are evaluated, the
\* history the worker recorded is what the session's state represents: after
\* a completed, halted, cancelled, rejected or failed request, a restored
\* image or one that could not be used (`live`, engine.rs:462).
LiveIsSession ==
  live # NoHistory /\ stage # "turn" => session.sound /\ session.text = live

\* A request decodes from the tokens of its own prompt it counts as prefilled,
\* whatever it reused, and one at least is left to evaluate (prepare_session).
DecodesOwnPrompt ==
  /\ stage \in {"store", "decode"} =>
       /\ session.sound
       /\ prefilled < Len(request.prompt)
       /\ session.text = SubSeq(request.prompt, 1, prefilled)
  /\ stage = "turn" => session.sound /\ session.text = request.prompt \o reply

\* An image on disk, or on its way there, holds the state of the tokens it is
\* keyed by: a session that spelled something else would poison every later
\* request with that prefix (store_boundary_entry).
ImagesFaithful == \A image \in cache \cup pending : image.state = image.tokens

\* A request for the single-arm MTP mode is never rejected for a session it
\* was handed: reuse that cannot serve it is dropped (serves_requested_arms).
SingleArmServed ==
  session.mtp /\ stage = "decode" /\ request.mode = "Mtp" => session.ready

\* Every reply is the target's own continuation of its prompt (StatelessDecode).
Stateless == INSTANCE StatelessDecode
               WITH request <- IF stage = "turn" THEN request ELSE NoRequest
RepliesAreStateless == Stateless!Spec
=============================================================================
