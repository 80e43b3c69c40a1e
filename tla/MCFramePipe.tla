---------------------------- MODULE MCFramePipe ----------------------------
(* Small instances of FramePipe for TLC, with either kind of pipe.         *)
EXTENDS FramePipe
=============================================================================
