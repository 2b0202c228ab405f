--------------------------- MODULE MCProvisioning ---------------------------
(***************************************************************************)
(* Small instances of Provisioning: w1 and w2 are two WorkOS accounts of   *)
(* one GitHub user, w3 is somebody else's.  Every assignment of caller and *)
(* path to the calls, and every legal set of existing users, is an initial *)
(* state.                                                                  *)
(***************************************************************************)
EXTENDS Provisioning, TLC

CONSTANTS w1, w2, w3, g1, g2, c1, c2, c3

SharedGithub == [w \in Workos |-> IF w = w3 THEN g2 ELSE g1]
=============================================================================
