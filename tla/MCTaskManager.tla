--------------------------- MODULE MCTaskManager ---------------------------
(* Two Start calls, and a restart between them.  Task ids are                *)
(* interchangeable.                                                          *)
EXTENDS TaskManager, TLC

CONSTANTS t1, t2

MCTask == {t1, t2}
Symmetry == Permutations(MCTask)
=============================================================================
