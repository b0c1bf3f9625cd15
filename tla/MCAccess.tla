------------------------------ MODULE MCAccess ------------------------------
(* Small instances of Access.                                              *)
EXTENDS Access, TLC

\* Connections are interchangeable; sound for the safety runs.
ConnSymmetry == Permutations(Conn)
=============================================================================
