------------------------------ MODULE MC_MsgSeq ------------------------------
(* Model-checking instance of MsgSeq: the random buffers are every buffer  *)
(* of one repeated byte (all 256 values, so every nibble reaches every     *)
(* text position) and, for each position, buffers that differ from a fixed *)
(* background in that position only.                                      *)
EXTENDS MsgSeq

MCRandBuffers ==
    {[i \in 1..16 |-> b] : b \in 0..255}
    \cup {[i \in 1..16 |-> IF i = p THEN b ELSE (7 * p + 13 * i) % 256] :
            p \in 1..16, b \in {0, 15, 90, 165, 240, 255}}
=============================================================================
