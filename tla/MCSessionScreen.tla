---------------------------- MODULE MCSessionScreen ----------------------------
(* SessionScreen on a small instance.                                      *)
EXTENDS SessionScreen
================================================================================
