---------------------------- MODULE MCPipeline ----------------------------
(* Model-checking instance of Pipeline: the cfg files give the constants. *)
EXTENDS Pipeline, TLC

MCWriters == 1..2
MCOneWriter == 1..1
MCChunks == {Cap - 1, Cap}

(* Buffers, connections and descriptors are interchangeable model values. *)
MCSymmetry == Permutations(Buffers) \cup Permutations(Conns)
              \cup Permutations(Fds)
=============================================================================
