--------------------------- MODULE EvaluatedText ---------------------------
(***************************************************************************)
(* What the session relies on of the target model's state: it is the text  *)
(* evaluated so far.  A pass appends tokens or leaves no trace, whatever    *)
(* happens in between; only a plain pass or a restore that failed may      *)
(* leave nothing usable, and then the state is started over or restored.   *)
(***************************************************************************)
EXTENDS Naturals, Sequences

CONSTANTS
  Token, MaxPosition, Passes,
  Lost,     \* no text: the state cannot be used
  NoImage

VARIABLES
  text,     \* the tokens evaluated, or Lost
  saved     \* the text of the image on disk, or NoImage

vars == <<text, saved>>

Init == text = << >> /\ saved = NoImage

\* A pass of several rows keeps one of them at least, or none.
Commit ==
  /\ text # Lost
  /\ \E tokens \in Passes : \E rows \in 1..Len(tokens) :
       /\ Len(text) + Len(tokens) <= MaxPosition
       /\ text' = text \o SubSeq(tokens, 1, rows)
  /\ UNCHANGED saved

Lose == text' = Lost /\ UNCHANGED saved

Reset == text' = << >> /\ UNCHANGED saved

Save == text # Lost /\ saved' = text /\ UNCHANGED text

Load == saved # NoImage /\ text' = saved /\ UNCHANGED saved

Next == Commit \/ Lose \/ Reset \/ Save \/ Load

Spec == Init /\ [][Next]_vars
=============================================================================
