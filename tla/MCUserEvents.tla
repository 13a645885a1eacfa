----------------------------- MODULE MCUserEvents -----------------------------
(* One deck of one user and the page of one browser: two jobs, or one and    *)
(* breaks of its connections, or breaks only.                                *)
EXTENDS UserEvents, TLC

CONSTANT a
=============================================================================
