----------------------------- MODULE MCTraining -----------------------------
(***************************************************************************)
(* Small instances of Training: five windows of two sessions, with or       *)
(* without a gap where a window was dropped, or of three, or none at all.  *)
(***************************************************************************)
EXTENDS Training

Window(session, start, confidence) ==
  [session |-> session, start |-> start, confidence |-> confidence]

MCTables ==
  {<<>>,
   <<Window(1, 0, 2), Window(1, 1, 0), Window(1, 2, 1), Window(2, 0, 2), Window(2, 1, 1)>>,
   <<Window(1, 0, 2), Window(2, 0, 1), Window(2, 1, 2), Window(2, 3, 2), Window(3, 0, 0)>>}

Config(kind, router, topk, columns, package, scene, smooth, threshold) ==
  [kind |-> kind, router |-> router, topk |-> topk, columns |-> columns,
   package |-> package, scene |-> scene, smooth |-> smooth, threshold |-> threshold]

MCConfigs ==
  {Config("dense", "none", 0, 3, TRUE, TRUE, TRUE, 0),
   Config("moe", "learned", 2, 3, TRUE, TRUE, TRUE, 0),
   Config("moe", "package_only", 2, 2, FALSE, TRUE, FALSE, 2),
   Config("moe", "learned", 8, 3, TRUE, TRUE, TRUE, 0),
   Config("dense", "none", 0, 0, FALSE, TRUE, TRUE, 0)}
==============================================================================
