----------------------------- MODULE Lifecycle -----------------------------
(***************************************************************************)
(* The life of a work node: packages/runtime/src/lifecycle.ts.             *)
(***************************************************************************)

NodeStatus == {"pending", "ready", "running", "blocked", "failed",
               "completed", "cancelled"}

(* The moves the table of lifecycle.ts allows out of a status.             *)
Allowed(from) ==
  CASE from = "pending" -> {"ready", "cancelled"}
    [] from = "ready"   -> {"running", "blocked", "cancelled"}
    [] from = "running" -> {"completed", "failed", "blocked", "cancelled"}
    [] from = "blocked" -> {"ready", "cancelled"}
    [] from = "failed"  -> {"ready", "cancelled"}
    [] OTHER            -> {}

(* assertTransition: staying is always legal.                              *)
MayMove(from, to) == to = from \/ to \in Allowed(from)
=============================================================================
