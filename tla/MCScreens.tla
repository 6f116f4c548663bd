------------------------------ MODULE MCScreens ------------------------------
(* A small instance of Screens for TLC. *)
EXTENDS Screens, TLC

\* As the program has them, with eight pages cut to three.
MCPages == (0 :> 4) @@ (1 :> 3) @@ (2 :> 2)
=============================================================================
