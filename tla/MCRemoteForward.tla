-------------------------- MODULE MCRemoteForward --------------------------
(***************************************************************************)
(* Three rules for two ports: the third asks for the port of the first.    *)
(***************************************************************************)
EXTENDS RemoteForward

MC_Source == <<"p", "q", "p">>
=============================================================================
