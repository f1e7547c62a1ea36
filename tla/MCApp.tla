------------------------------- MODULE MCApp -------------------------------
(* The instance of App that TLC checks.                                    *)
EXTENDS App
=============================================================================
