--------------------------- MODULE MCDnsResolver ---------------------------
(***************************************************************************)
(* The resolver with a few callers and questions.                          *)
(***************************************************************************)
EXTENDS DnsResolver, TLC

=============================================================================
