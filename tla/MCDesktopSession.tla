-------------------------- MODULE MCDesktopSession --------------------------
(***************************************************************************)
(* Small instances of DesktopSession: two or three sessions, one window.   *)
(***************************************************************************)
EXTENDS DesktopSession
=============================================================================
