---------------------------- MODULE MCLiveStream ----------------------------
(* An instance of LiveStream for TLC; the constants are in LiveStream.cfg. *)
EXTENDS LiveStream
=============================================================================
