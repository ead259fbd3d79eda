------------------------------ MODULE MCHawkStream ------------------------------
EXTENDS HawkStream

(* Pages by the lines that are not zero.                                   *)
PageOf(lines) ==
  [i \in 1 .. PageLen |-> IF i - 1 \in lines THEN 16 * i ELSE 0]

(* No line, the whole first chunk, a line of each of two chunks.           *)
FirstChunk ==
  {PageOf({}), PageOf(0 .. ChunkLen - 1), PageOf({0, ChunkLen + 1})}

(* The third chunk whole.                                                  *)
LaterChunk == {PageOf((2 * ChunkLen) .. (3 * ChunkLen - 1))}
=============================================================================
