---------------------------- MODULE MCWorkerPool ----------------------------
(* Two workers, three jobs, one of them of a type with no handler at first. *)
EXTENDS WorkerPool

CONSTANTS w1, w2, j1, j2, j3, xp, video

MCTypeOf     == [j \in Job |-> IF j = j3 THEN video ELSE xp]
MCMaxRetries == [j \in Job |-> IF j = j1 THEN 2 ELSE 1]
=============================================================================
