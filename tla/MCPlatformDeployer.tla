--------------------------- MODULE MCPlatformDeployer ---------------------------
(* Instances of PlatformDeployer for TLC. *)
EXTENDS PlatformDeployer

CONSTANTS d1, d2

TwoDeployments == {d1, d2}
=============================================================================
