---------------------------- MODULE MCFixGateway ----------------------------
(* Sessions of one client, and limits that the second message of a tick meets: *)
(* on the same session the session's limit, on another one the user's weight.  *)
EXTENDS FixGateway
CONSTANT NumSessions
MCSessions == 1 .. NumSessions
MCWeight == [k \in Kinds |-> 2]
MCGlobalLimits == {LimiterConfig(3, 2)}
MCSessionLimits == {LimiterConfig(1, 1), LimiterConfig(3, 2)}
MCUserLimits == {LimiterConfig(2, 1), LimiterConfig(4, 2)}
================================================================================
