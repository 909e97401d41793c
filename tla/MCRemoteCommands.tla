--------------------------- MODULE MCRemoteCommands ---------------------------
(* Instances of RemoteCommands for TLC: requests and supervisors are model *)
(* values.                                                                 *)
EXTENDS RemoteCommandsClaims

CONSTANTS r1, r2, a1
=============================================================================
