------------------------------ MODULE MCLineServer ------------------------------
(* A client that sends two lines, the first with both kinds of escaped byte, and*)
(* one that sends two escaped bytes followed closely by the next cut.           *)
EXTENDS LineServer

BothEscapes == <<"/", "\\", "nl", "a", "nl">>
TwoEscapes == <<"/", "/", "b", "nl">>

\* "x" and an unescaped "/", at the end of what has been read.
MCNoise == {[count |-> 2, payload |-> <<"x", "/">>]}
NoNoise == {}

(* The proofs about what is read suppose a stream like the first; the second is *)
(* cut where a part seems to reach beyond the next cut.                         *)
ASSUME StreamAssumption ==
  /\ Stream = BothEscapes => Readable
  /\ Stream = TwoEscapes => ~ CutsApart
================================================================================
