------------------------------ MODULE MCViewer ------------------------------
(* Small instances of Viewer, and of the DeviceLifecycle in it, for TLC. *)
EXTENDS Viewer

CONSTANTS d1, d2, c1, c2
=============================================================================
