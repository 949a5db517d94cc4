------------------------- MODULE MCParallelSampling -------------------------
(***************************************************************************)
(* Two threads and three jobs, so that a thread that is through takes the  *)
(* next while the other is still at its first.                             *)
(***************************************************************************)
EXTENDS ParallelSampling

MCJob == 0 .. 2

Program(writer, samples, interval, warmup, overwrite, again) ==
  [writer |-> writer, samples |-> samples, interval |-> interval, warmup |-> warmup,
   overwrite |-> overwrite, restarts |-> again]

MCQuery ==
  {Program("observations", p[1], p[2], p[3], TRUE, 0) : p \in {<<1, 1, 1>>, <<1, 2, 1>>, <<2, 2, 0>>}} \cup
  {Program("choice set", p[1], p[2], p[3], o, 1) : p \in {<<1, 1, 1>>, <<1, 2, 0>>}, o \in BOOLEAN}

\* A choice set of one sample, to follow the node insertion probabilities.
MCShared == {Program("choice set", 1, 1, 0, TRUE, 0)}
=============================================================================
