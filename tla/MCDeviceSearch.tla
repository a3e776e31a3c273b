--------------------------- MODULE MCDeviceSearch ---------------------------
(* Instances of DeviceSearch for model checking. *)
EXTENDS DeviceSearch
=============================================================================
