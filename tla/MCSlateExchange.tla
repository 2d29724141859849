--------------------------- MODULE MCSlateExchange ---------------------------
(* Instances of SlateExchange for TLC. *)
EXTENDS SlateExchange

=============================================================================
