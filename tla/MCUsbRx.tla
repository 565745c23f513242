------------------------------- MODULE MCUsbRx -------------------------------
(* The instance of UsbRx for TLC.                                          *)
EXTENDS UsbRx
=============================================================================
