------------------------------- MODULE Asking -------------------------------
(***************************************************************************)
(* An input of one of the families of inputs that the checks of the tools   *)
(* and of the requests look at.                                             *)
(***************************************************************************)
VARIABLES
    part,   \* the family of the input, "<family>?" while only its seed is known
    ask     \* the seed, then the input
=============================================================================
