------------------------------ MODULE MCServer ------------------------------
(***************************************************************************)
(* Small instances of Server: four connections that want two places, and   *)
(* two without a limit.                                                    *)
(***************************************************************************)
EXTENDS Server

Four == 1 .. 4
Two == 1 .. 2

=============================================================================
