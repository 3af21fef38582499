------------------------------ MODULE MCSuite ------------------------------
(***************************************************************************)
(* Small instances of Suite: nine of its 27 experiments, two suites, and   *)
(* roots in which the first dataset is whole, half-built or not begun.     *)
(***************************************************************************)
EXTENDS Reporting

Dir(mode, feature, split) == [mode |-> mode, feature |-> feature, split |-> split]

MCRoots ==
  {<<Dir("ui_sensor", TRUE, TRUE)>>,
   <<Dir("ui_sensor", TRUE, FALSE), Dir("ui_sensor_no_package", TRUE, TRUE)>>,
   <<Dir("ui_sensor", FALSE, FALSE), Dir("ui_sensor_no_package", TRUE, TRUE)>>}

Rate(eer, u1, u2, u3, u4, u5, u6) ==
  [eer |-> eer, users |-> [u \in {x \in 1 .. 6 : <<u1, u2, u3, u4, u5, u6>>[x] # NaN} |->
                             <<u1, u2, u3, u4, u5, u6>>[u]]]

\* k = 2 is the best.  k = 1 is worse for each of five or of six users, or for
\* most; it did not score; nothing did; there are ties.
MCSweeps ==
  {<<Rate(30, 11, 22, 33, 44, 55, NaN), Rate(10, 10, 20, 30, 40, 50, NaN)>>,
   <<Rate(30, 11, 22, 33, 44, 55, 66), Rate(10, 10, 20, 30, 40, 50, 60)>>,
   <<Rate(12, 11, 22, 33, 44, 55, 66), Rate(10, 10, 20, 30, 40, 50, 60)>>,
   <<Rate(30, 9, 22, 33, 44, 55, 66), Rate(10, 10, 20, 30, 40, 50, 60)>>,
   <<Rate(NaN, 11, 22, 33, 44, 55, 66), Rate(10, 10, 20, 30, 40, 50, 60)>>,
   <<Rate(NaN, NaN, NaN, NaN, NaN, NaN, NaN), Rate(NaN, NaN, NaN, NaN, NaN, NaN, NaN)>>,
   <<Rate(30, 11, 21, 30, 40, 50, 60), Rate(10, 10, 20, 30, 40, 50, 60)>>,
   <<Rate(30, 11, 21, 31, 41, 51, 61), Rate(10, 10, 20, 30, 40, 50, 60)>>}

MCKept ==
  {"m0", "m3", "m7", "m8", "no_ui", "no_tree_diff",
   "privacy_coarse_bounds", "thr_0.0", "no_accel"}
=============================================================================
