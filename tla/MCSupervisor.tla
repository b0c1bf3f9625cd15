---------------------------- MODULE MCSupervisor ----------------------------
(* Small instances of Supervisor.                                          *)
EXTENDS Supervisor, TLC
=============================================================================
