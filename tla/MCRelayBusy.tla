---------------------------- MODULE MCRelayBusy -----------------------------
(***************************************************************************)
(* Constants of RelayBusy for TLC.                                         *)
(***************************************************************************)
EXTENDS RelayBusy, MCRelay

=============================================================================
