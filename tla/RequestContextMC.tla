-------------------------- MODULE RequestContextMC --------------------------
(* Instances of RequestContext for TLC. *)
EXTENDS RequestContext
=============================================================================
