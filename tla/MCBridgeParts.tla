--------------------------- MODULE MCBridgeParts ---------------------------
(***************************************************************************)
(* An instance for TLC of each part of the bridge that knows nothing of    *)
(* the others: the bon (KitchenBon, TextWrap), its way to the printer      *)
(* (SocketPrint, SpoolerPrint), the search for printers (PrinterScan), the *)
(* log (DiagnosticLog) and the updates (UpdateService).  They share no     *)
(* variable; a behaviour takes steps of one of them, while the others are  *)
(* at rest, where nothing obliges them to go on.                           *)
(***************************************************************************)
EXTENDS MCKitchenBon, TextWrap, SocketPrint, SpoolerPrint, PrinterScan, ScanTargets,
        DiagnosticLog, UpdateService

CONSTANTS MaxLength,   \* bound: letters of a word
          bon, page, c1, c2, i1, i2

TwoPrints == {bon, page}
TwoChecks == {c1, c2}
TwoInstalls == {i1, i2}

Own(network, interface, private) ==
  [network |-> network, interface |-> interface, private |-> private]

(* Cable and wireless in one network, a tunnel and a public address *)
Targets ==
  discoverPrivateIpv4Hosts(<< Own(3, "tunnel", TRUE), Own(1, "lan", TRUE), Own(4, "lan", FALSE),
                              Own(1, "lan", TRUE) >>)

WordNext == \E n \in 0..MaxLength : Take(n)

AnyJob == CHOOSE j \in Jobs : TRUE

Rests(part) ==
  CASE part = "bon" -> at = "parse" /\ job = AnyJob /\ layout = "compact"
    [] part = "wrap" -> WrapInit
    [] part = "socket" -> SocketInit
    [] part = "spooler" -> SpoolerInit
    [] part = "scan" -> ScanInit
    [] part = "log" -> LogInit
    [] part = "update" -> UpdateInit

Parts == {"bon", "wrap", "socket", "spooler", "scan", "log", "update"}

OthersRest(part) == \A other \in Parts \ {part} : Rests(other)

PartsInit ==
  /\ BonInit /\ WrapInit /\ SocketInit /\ SpoolerInit /\ ScanInit /\ LogInit /\ UpdateInit

partsVars ==
  <<bonVars, wrapVars, socketVars, spoolerVars, scanVars, logVars, updateVars>>

PartsNext ==
  \/ /\ OthersRest("bon") /\ BonNext
     /\ UNCHANGED <<wrapVars, socketVars, spoolerVars, scanVars, logVars, updateVars>>
  \/ /\ OthersRest("wrap") /\ WordNext
     /\ UNCHANGED <<bonVars, socketVars, spoolerVars, scanVars, logVars, updateVars>>
  \/ /\ OthersRest("socket") /\ SocketNext
     /\ UNCHANGED <<bonVars, wrapVars, spoolerVars, scanVars, logVars, updateVars>>
  \/ /\ OthersRest("spooler") /\ SpoolerNext
     /\ UNCHANGED <<bonVars, wrapVars, socketVars, scanVars, logVars, updateVars>>
  \/ /\ OthersRest("scan") /\ ScanNext
     /\ UNCHANGED <<bonVars, wrapVars, socketVars, spoolerVars, logVars, updateVars>>
  \/ /\ OthersRest("log") /\ LogNext
     /\ UNCHANGED <<bonVars, wrapVars, socketVars, spoolerVars, scanVars, updateVars>>
  \/ /\ OthersRest("update") /\ UpdateNext
     /\ UNCHANGED <<bonVars, wrapVars, socketVars, spoolerVars, scanVars, logVars>>

PartsSpec ==
  /\ PartsInit /\ [][PartsNext]_partsVars
  /\ SocketFairness /\ SpoolerFairness /\ ScanFairness /\ LogFairness /\ UpdateFairness

(* The variables of all parts have their types. *)
PartsTypeOK ==
  /\ BonTypeOK /\ WrapTypeOK /\ SocketTypeOK /\ SpoolerTypeOK /\ ScanTypeOK /\ LogTypeOK
  /\ UpdateTypeOK

(* Whoever waits for a print, a search or the log is answered, whatever    *)
(* sockets, processes and disks do.                                        *)
CallsEnd == PrintEnds /\ PrintsEnd /\ ScanEnds /\ AppendsEnd
=============================================================================
