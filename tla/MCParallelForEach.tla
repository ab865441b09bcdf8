-------------------------- MODULE MCParallelForEach --------------------------
(* Three workers with queues of two, and more inputs than the queues hold:    *)
(* the caller has to wait, and some worker gets fewer inputs than another.   *)
EXTENDS ParallelForEach
=============================================================================
