------------------------------ MODULE MCStreams ------------------------------
(* Small instances of Streams.                                             *)
EXTENDS Streams
=============================================================================
