--------------------------- MODULE MCPluginInvoke ---------------------------
(***************************************************************************)
(* A session short enough for TLC.                                         *)
(***************************************************************************)
EXTENDS PluginInvoke
=============================================================================
