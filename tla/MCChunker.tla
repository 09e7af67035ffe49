----------------------------- MODULE MCChunker -----------------------------
(* Instances of Chunker for TLC. *)
EXTENDS Chunker

CONSTANT MaxLength       \* bound: characters of a text

AllTexts == UNION {{t \in [1..n -> {Visible, Blank}] : t[1] = Visible /\ t[n] = Visible} :
                     n \in 1..MaxLength}
SizesToTry == -1..4
OverlapsToTry == -1..4
============================================================================
