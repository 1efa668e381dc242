---------------------------- MODULE MCSessionLock ----------------------------
(***************************************************************************)
(* SessionLock with the jobs and numbers of its .cfg.  They are alike, but *)
(* symmetry is not sound for the liveness properties of the run.           *)
(***************************************************************************)
EXTENDS SessionLock
=============================================================================
