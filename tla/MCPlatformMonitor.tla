-------------------------- MODULE MCPlatformMonitor --------------------------
(* Instances of PlatformMonitor for TLC. *)
EXTENDS PlatformMonitor

CONSTANTS p1, c1

OnePlatform == {p1}
OneClient == {c1}
=============================================================================
