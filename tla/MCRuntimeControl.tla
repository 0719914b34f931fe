--------------------------- MODULE MCRuntimeControl ---------------------------
(* Instances of RuntimeControl for TLC; the constants are in the .cfg files. *)
EXTENDS RuntimeControl
=============================================================================
