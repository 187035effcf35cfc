-------------------------- MODULE AdmissionControl --------------------------
(***************************************************************************)
(* What the engine promises whoever submits a request: at most MaxQueue    *)
(* requests hold a place at a time, and a request is told "busy" only at a *)
(* moment when every place is taken.                                       *)
(***************************************************************************)
EXTENDS Naturals, FiniteSets

CONSTANTS Request, MaxQueue

VARIABLES
  held,    \* requests that hold a place
  refused  \* requests that were told the queue is full

vars == <<held, refused>>

Init == held = {} /\ refused = {}

Admit(r) ==
  /\ Cardinality(held) < MaxQueue
  /\ held' = held \cup {r}
  /\ UNCHANGED refused

Refuse(r) ==
  /\ Cardinality(held) >= MaxQueue
  /\ refused' = refused \cup {r}
  /\ UNCHANGED held

Free(r) ==
  /\ held' = held \ {r}
  /\ UNCHANGED refused

Next ==
  \/ \E r \in Request \ (held \cup refused) : Admit(r) \/ Refuse(r)
  \/ \E r \in held : Free(r)

Spec == Init /\ [][Next]_vars
=============================================================================
