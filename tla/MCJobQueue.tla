----------------------------- MODULE MCJobQueue -----------------------------
(***************************************************************************)
(* A small instance of JobQueue: two calling threads, three tasks.         *)
(***************************************************************************)
EXTENDS JobQueue
=============================================================================
