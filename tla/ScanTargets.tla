---------------------------- MODULE ScanTargets ----------------------------
(***************************************************************************)
(* The addresses a search for printers asks: discoverPrivateIpv4Hosts of   *)
(* star-tsp1000-lan.ts.  An address of this computer is a record with the  *)
(* network it is in, the kind of its interface and whether it is private;  *)
(* a host is a pair of a network and a number.                             *)
(***************************************************************************)
EXTENDS Naturals, Sequences

CONSTANTS HostsPerNetwork,  \* 254
          MaxHosts          \* MAX_DISCOVERY_HOSTS

ASSUME TargetsAssumption == {HostsPerNetwork, MaxHosts} \subseteq Nat \ {0}

isDiscoverable(address) == address.interface = "lan" /\ address.private

(* The networks of this computer that a printer may be in. *)
NetworksOf(addresses) ==
  LET own == SelectSeq(addresses, isDiscoverable) IN {own[i].network : i \in DOMAIN own}

HostsOf(network) == [h \in 1..HostsPerNetwork |-> <<network, h>>]

Capped(hosts) == IF Len(hosts) <= MaxHosts THEN hosts ELSE SubSeq(hosts, 1, MaxHosts)

(* All hosts of one network after the other, each network once, until      *)
(* there are MaxHosts.                                                     *)
discoverPrivateIpv4Hosts(addresses) ==
  LET own == SelectSeq(addresses, isDiscoverable)
      targets[n \in 0..Len(own)] ==
        IF n = 0 THEN <<>>
        ELSE IF \E i \in 1..(n - 1) : own[i].network = own[n].network THEN targets[n - 1]
        ELSE Capped(targets[n - 1] \o HostsOf(own[n].network))
  IN targets[Len(own)]
=============================================================================
