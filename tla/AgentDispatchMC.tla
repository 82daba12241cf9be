-------------------------- MODULE AgentDispatchMC --------------------------
(* Instances of AgentDispatch for TLC. *)
EXTENDS AgentDispatch, TLC

CONSTANTS s1, s2, u1, u2, u3, v1, a1, a2, st, rs, d1, c1, ac1

MCKind == [m \in Msg |-> CASE m \in {a1, a2} -> "auto" [] m = st -> "stop" [] m = rs -> "reset"
                           [] m = d1 -> "direct" [] m = c1 -> "cont" [] m = ac1 -> "autocont" [] OTHER -> "user"]
MCKey == [m \in Msg |-> IF m = v1 THEN s2 ELSE s1]
============================================================================
