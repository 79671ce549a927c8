----------------------------- MODULE MCBleScanner -----------------------------
(***************************************************************************)
(* Two sockets (so that a repeated init happens) and three HCI events.     *)
(***************************************************************************)
EXTENDS BleScanner

=============================================================================
