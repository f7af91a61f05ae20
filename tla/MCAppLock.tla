----------------------------- MODULE MCAppLock -----------------------------
(* AppLock on two sign-ins and calls that overlap. *)
EXTENDS AppLock
=============================================================================
