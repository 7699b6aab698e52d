----------------------------- MODULE MCLifecycle -----------------------------
(* One application process with one child, and a pipe of one order. *)
EXTENDS Lifecycle
=============================================================================
