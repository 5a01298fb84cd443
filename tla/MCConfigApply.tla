--------------------------- MODULE MCConfigApply ---------------------------
(***************************************************************************)
(* ConfigApply with the provider of the command plugin: one required field *)
(* that reloads the plugins.                                               *)
(***************************************************************************)
EXTENDS ConfigApply

MCFields == {"prefixes"}
MCProviderFields == [command |-> MCFields]
MCPolicy == [f \in MCFields |-> "PluginReload"]
MCSink == [f \in MCFields |-> "replace"]
=============================================================================
