----------------------------- MODULE WebConsole -----------------------------
(***************************************************************************)
(* What the extensions of the web console front, side by side: clients     *)
(* that change one provider of the configuration service at once           *)
(* (ConfigApply), the forms of a session over another provider             *)
(* (ConfigForms), and the upgrade of a module (CatalogUpgrade).  They      *)
(* share no state, so a behaviour shows one of them.                       *)
(***************************************************************************)
EXTENDS ConfigApply, ConfigForms, CatalogUpgrade

VARIABLE served   \* which one a behaviour shows

consoleVars == <<configVars, formVars, catalogVars, served>>

\* What a behaviour does not show starts in one state of those it could.
ConsoleInit ==
  /\ served \in {"clients", "forms", "upgrades"}
  /\ ConfigInit /\ FormsInit /\ CatalogInit
  /\ served # "clients" =>
       /\ provider = (CHOOSE p \in DOMAIN ProviderFields : TRUE)
       /\ file = (CHOOSE config \in Complete(provider) : TRUE)
  /\ served # "forms" => caps = {}
  /\ served # "upgrades" => repo = (CHOOSE r \in Repositories : TRUE) /\ checkout = (CHOOSE c \in Checkouts : TRUE)

ConsoleNext ==
  /\ UNCHANGED served
  /\ \/ served = "clients" /\ ConfigNext /\ UNCHANGED <<formVars, catalogVars>>
     \/ served = "forms" /\ FormsNext /\ UNCHANGED <<configVars, catalogVars>>
     \/ served = "upgrades" /\ CatalogNext /\ UNCHANGED <<configVars, formVars>>

ConsoleSpec == ConsoleInit /\ [][ConsoleNext]_consoleVars
=============================================================================
