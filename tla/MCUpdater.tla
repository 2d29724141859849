----------------------------- MODULE MCUpdater -----------------------------
(* Updater for TLC. *)
EXTENDS Updater
=============================================================================
