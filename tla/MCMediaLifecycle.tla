-------------------------- MODULE MCMediaLifecycle --------------------------
(* Instance of MediaLifecycle for TLC. *)
EXTENDS MediaLifecycle
=============================================================================
