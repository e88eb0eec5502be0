---------------------------- MODULE MCDeviceSync ----------------------------
(* DeviceSync for TLC.                                                     *)
EXTENDS DeviceSync, TLC
=============================================================================
