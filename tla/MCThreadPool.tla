---------------------------- MODULE MCThreadPool ----------------------------
(***************************************************************************)
(* Small instances of ThreadPool: two or four thread ids.                *)
(***************************************************************************)
EXTENDS ThreadPool
=============================================================================
