--------------------------- MODULE MCQuoteCycle ---------------------------
(* QuoteCycle for TLC. *)
EXTENDS QuoteCycle
=============================================================================
