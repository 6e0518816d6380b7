---------------------------- MODULE MCReconcile ----------------------------
(***************************************************************************)
(* Bounds for ReconcileTable. The unit's process is 1, a stranger is 2.    *)
(* Every ActiveState and Result= the adapter distinguishes occurs, one it  *)
(* does not know of each, every ExecMainCode class, and the statuses that  *)
(* the clean-stop branches single out (0, 15, 143) beside two others.      *)
(* The start attempt is unknown or stamped at 5; the clock is before it,   *)
(* at it, at the last instant of the window, and one past it.              *)
(***************************************************************************)
EXTENDS ReconcileTable

MCRaws == [active  : {"inactive", "activating", "active", "deactivating", "failed", "reloading"},
           mainPid : {0, 1},
           result  : {"success", "exit-code", "signal", "timeout", "core-dump",
                      "exec-condition", "oom-kill"},
           code    : {0, 1, 2, 4},
           status  : {0, 1, 9, 15, 143},
           start   : {0, 5}]

MCListeners == {1, 2}

MCInstants == {4, 5, 10005, 10006}

=============================================================================
