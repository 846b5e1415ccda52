--------------------------- MODULE MCKitchenRoute ---------------------------
(***************************************************************************)
(* An instance each of PrinterSettings, PrinterHealth and PrinterDiscovery *)
(* for TLC.  Each models what it needs of the others (health sees printers *)
(* saved and deleted, discovery sees the active printer change), they      *)
(* share no variable, and a behaviour takes steps of one of them only.     *)
(***************************************************************************)
EXTENDS PrinterSettings, PrinterHealth, PrinterDiscovery, TLC

CONSTANTS a, b, c, x, y, r1, r2

ThreePrinters == {a, b, c}
TwoThings == {x, y}
TwoCalls == {r1, r2}
Offline == {"offline"}

SettingsRests == SettingsInit /\ file = NoEntry
HealthRests == HealthInit
DiscoveryRests == DiscoveryInit /\ current = None

(* There are three printers until two requests overlap or something        *)
(* fails; two of them take part in an overlap, without faults, where one   *)
(* keeps its configuration, and two in a fault.                            *)
MCSettingsNext ==
  /\ SettingsNext
  /\ overlapped' =>
       /\ settingsFaultsLeft' = MaxSettingsFaults
       /\ given'[c] = {} /\ \E i \in {a, b} : given'[i] # Values
  /\ settingsFaultsLeft' # MaxSettingsFaults => given'[c] = {}

Known(i) == stored[i] # 0 \/ health[i] # NoPrinter \/ disk[i] # NoPrinter

(* One printer at a time is saved again; where there is a fault, there is  *)
(* one printer at a time.                                                  *)
MCHealthNext ==
  /\ HealthNext
  /\ \E i \in Printers : stored'[i] < MaxEdits
  /\ healthFaultsLeft' # MaxHealthFaults => \E i \in Printers : \A j \in Printers \ {i} : ~Known(j)'

(* A change of the settings comes with a second search or a second test,   *)
(* not with both.                                                          *)
MCDiscoveryNext ==
  /\ DiscoveryNext
  /\ left'.changes # MaxChanges => left'.searches + left'.tests > 0

RouteInit == SettingsInit /\ HealthInit /\ DiscoveryInit

RouteNext ==
  \/ /\ HealthRests /\ DiscoveryRests
     /\ MCSettingsNext
     /\ UNCHANGED <<healthVars, discoveryVars>>
  \/ /\ SettingsRests /\ DiscoveryRests
     /\ MCHealthNext
     /\ UNCHANGED <<settingsVars, discoveryVars>>
  \/ /\ SettingsRests /\ HealthRests
     /\ MCDiscoveryNext
     /\ UNCHANGED <<settingsVars, healthVars>>

RouteSpec == RouteInit /\ [][RouteNext]_<<settingsVars, healthVars, discoveryVars>>

RouteSymmetry == Permutations(TwoThings) \cup Permutations(TwoCalls)

(* The variables of all three have their types. *)
RouteTypeOK == SettingsTypeOK /\ HealthTypeOK /\ DiscoveryTypeOK
=============================================================================
