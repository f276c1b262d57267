------------------------ MODULE MCDeviceFsShutdown --------------------------
(* Two handles, one of which may be opened again while DeviceFs waits.     *)
EXTENDS DeviceFsShutdown

=============================================================================
