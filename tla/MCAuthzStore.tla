---------------------------- MODULE MCAuthzStore ----------------------------
(* Two tokens: one whose revocation is in question and one that keeps the  *)
(* store changing around it.  Every state the module reaches is explored.  *)
EXTENDS AuthzStore
CONSTANTS t1, t2
MCToken == {t1, t2}
=============================================================================
