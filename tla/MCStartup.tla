----------------------------- MODULE MCStartup -----------------------------
(***************************************************************************)
(* A small instance of Startup: two threads, as many tokens as they can    *)
(* draw between two crashes, one rule set an operator writes.              *)
(***************************************************************************)
EXTENDS Startup

CONSTANTS t1, t2, tok1, tok2, tok3, envSalt, defaultSalt, seed, ours
=============================================================================
