-------------------------- MODULE MCPluginExecutor --------------------------
(***************************************************************************)
(* A small executor for TLC: requests for two plugins, one of each kind    *)
(* that submit tells apart.                                                *)
(***************************************************************************)
EXTENDS PluginExecutor

CONSTANTS p1, p2, perm

Ask(plugin, source, bounded, required, service) ==
  [plugin |-> plugin, source |-> source, bounded |-> bounded,
   required |-> required, serviceRequires |-> service]

MCRequests ==
  {Ask(p1, "core_background", TRUE, {}, {}),
   Ask(p2, "trusted_user_action", TRUE, {}, {perm}),
   Ask(p1, "core_background", TRUE, {}, {perm}),
   Ask(p1, "tsf_input", TRUE, {}, {}),
   Ask(p1, "plugin_service", FALSE, {}, {})}
=============================================================================
