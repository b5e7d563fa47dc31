---------------------------- MODULE MCLifecycle ----------------------------
(* Two requests at a time and a service that is connected to a node.       *)
EXTENDS Lifecycle

CONSTANTS r1, r2
=============================================================================
