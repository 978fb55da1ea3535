---------------------------- MODULE MCScreenLock ----------------------------
(***************************************************************************)
(* A small instance of ScreenLock: a backoff table of two steps after one  *)
(* free attempt.                                                           *)
(***************************************************************************)
EXTENDS ScreenLock

MCBackoff == <<1, 2>>

=============================================================================
