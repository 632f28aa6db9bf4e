------------------------------- MODULE MCSpool -------------------------------
(* Small instances of Spool for TLC; the constants get their values in the
   configurations. *)
EXTENDS Spool
=============================================================================
