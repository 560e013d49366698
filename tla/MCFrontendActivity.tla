-------------------------- MODULE MCFrontendActivity --------------------------
(***************************************************************************)
(* TLC instances of FrontendActivity.                                      *)
(***************************************************************************)
EXTENDS FrontendActivity
=============================================================================
