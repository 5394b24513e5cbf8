---------------------------- MODULE MCDeviceLife ----------------------------
(* A finite instance of DeviceLife for TLC. *)
EXTENDS DeviceLife

=============================================================================
