-------------------------- MODULE MCNamespaceLock --------------------------
(* Four calls on two namespaces: one more than the three that a mutex that *)
(* is unregistered and made anew needs to go wrong.                        *)
EXTENDS NamespaceLock
=============================================================================
