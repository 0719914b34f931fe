---------------------------- MODULE MCSupervisor ----------------------------
(* An instance of Supervisor for TLC; the constants are in Supervisor.cfg. *)
EXTENDS Supervisor
=============================================================================
