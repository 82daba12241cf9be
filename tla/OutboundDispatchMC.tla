------------------------- MODULE OutboundDispatchMC -------------------------
(* Instance of OutboundDispatch for TLC: a session with a chat of its own. *)
EXTENDS OutboundDispatch, TLC

CONSTANTS s1, c1, hello, bye

OneHome == s1 :> c1
=============================================================================
