------------------------------- MODULE Floats -------------------------------
(***************************************************************************)
(* The numbers of the experiments.  What matters of them is their order,   *)
(* so that they are integers here, and that a metric of too few scores or  *)
(* a loss that overflows is no number: it is NaN, which the code compares  *)
(* with nothing before it has asked for it.                                *)
(***************************************************************************)
EXTENDS Integers

\* compute_eer_threshold, where there are not two classes to tell apart.
NaN == -1
=============================================================================
