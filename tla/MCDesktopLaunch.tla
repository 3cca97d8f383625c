---------------------------- MODULE MCDesktopLaunch ----------------------------
(* DesktopLaunch with small constants; Registrar.cfg gives the values. *)
EXTENDS DesktopLaunch
=============================================================================
