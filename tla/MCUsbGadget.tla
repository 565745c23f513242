---------------------------- MODULE MCUsbGadget ----------------------------
(* The instance of UsbGadget for TLC.                                      *)
EXTENDS UsbGadget
=============================================================================
