---------------------------- MODULE MCChunkLoop -----------------------------
(* Every call on sources of up to three chunks.                            *)
EXTENDS ChunkLoop

MCMaxLen == 3

MCJobs ==
  [length : 0 .. 3, broken : BOOLEAN, bad : SUBSET {0, 1, 2},
   unfoldable : {{}, {0}, {1}, {2}}, limit : {1, 2, 9}, failFast : BOOLEAN,
   lookahead : BOOLEAN, threads : {FALSE}]
=============================================================================
