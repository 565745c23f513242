------------------------------- MODULE MCUsbTx -------------------------------
(* The instance of UsbTx for TLC.                                          *)
EXTENDS UsbTx
=============================================================================
