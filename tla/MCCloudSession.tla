--------------------------- MODULE MCCloudSession ---------------------------
(* Three nonces: the one of the session, one whose reply is still on its   *)
(* way, and a fresh one.                                                   *)
EXTENDS CloudSession
MCNonces == {"n1", "n2", "n3"}
=============================================================================
