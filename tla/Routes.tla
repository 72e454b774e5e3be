------------------------------- MODULE Routes -------------------------------
(***************************************************************************)
(* Routing: the routes of the stack configuration are parsed and become    *)
(* masks (protocol.rs, Ipv4Addr::from_str and Route::new, called from      *)
(* config.rs), Ipv4Sender::init copies them into its table, and            *)
(* Ipv4Sender::process looks for the interface of a packet, one route      *)
(* after the other (modules/ipv4.rs).                                      *)
(*                                                                         *)
(* The text of an address is the list of its parts between the dots, with  *)
(* NoOctet for a part that is no number of eight bits.  An address is its  *)
(* four octets; as the u32 the code computes with it is the set of its one *)
(* bits, bit 0 the least significant one.                                  *)
(***************************************************************************)
EXTENDS Integers, Sequences, FiniteSets

CONSTANTS
  Tables,          \* the lists of routes that may be configured
  MaxRoutes,       \* capacity of Ipv4Sender::route_table
  OverflowChecks   \* a build that panics on overflow (the debug profile)

Octet == 0 .. 255
NoOctet == 256

U8 == 256
U16 == 65536

(* A number in the file is a u32; one that is not makes                    *)
(* json_require_number panic before there is a route.                      *)
RouteConfigs == [ipv4 : Seq(Octet \cup {NoOctet}), cidr : Nat, nic : Nat]

ASSUME RoutesAssumption ==
  /\ Tables \subseteq Seq(RouteConfigs)
  /\ MaxRoutes \in Nat
  /\ OverflowChecks \in BOOLEAN

Word == 32

Dst == <<192, 168, 10, 2>>     \* Ipv4Sender::process DST

VARIABLES
  pc,        \* "load", "init", "lookup", "done" or "panic"
  config,    \* the routes in the stack's configuration file
  routes,    \* StackConfig::routes, in the order of the file
  table,     \* Ipv4Sender::route_table
  at,        \* routes of the table the lookup has looked at
  maxCidr,   \* max_cidr
  dstNic,    \* dst_nic: the interface found, or None, as a set
  nic        \* Packet::nic

vars == <<pc, config, routes, table, at, maxCidr, dstNic, nic>>

Route == [ip : SUBSET (0 .. Word - 1), mask : SUBSET (0 .. Word - 1),
          cidr : 0 .. Word, nic : 0 .. U16 - 1]

TypeOK ==
  /\ pc \in {"load", "init", "lookup", "done", "panic"}
  /\ config \in Tables
  /\ routes \in Seq(Route)
  /\ table \in Seq(Route) /\ Len(table) <= MaxRoutes
  /\ at \in 0 .. Len(table)
  /\ maxCidr \in 0 .. Word
  /\ dstNic \in SUBSET (0 .. U16 - 1) /\ Cardinality(dstNic) <= 1
  /\ nic \in 0 .. U16 - 1

Init ==
  /\ pc = "load"
  /\ config \in Tables
  /\ routes = <<>>
  /\ table = <<>>
  /\ at = 0
  /\ maxCidr = 0
  /\ dstNic = {}
  /\ nic = 0

(* Ipv4Addr::from_str writes the octets at the beginning of the text into  *)
(* an array of four and stops at the first part that is none.  It returns  *)
(* an error when there are fewer than four, and panics on the fifth.       *)
Leading(text) ==
  Cardinality({k \in 1 .. Len(text) : \A i \in 1 .. k : text[i] \in Octet})

FromStr(text) == SubSeq(text, 1, 4)

(* Ipv4Addr::to_u32_be: u32::from_le_bytes of the octets. *)
ToU32(octets) == {b \in 0 .. Word - 1 : (octets[b \div 8 + 1] \div 2 ^ (b % 8)) % 2 = 1}

(* (1 << cidr) - 1; without overflow checks the shift is by cidr modulo 32 *)
CidrMask(cidr) == 0 .. (cidr % Word) - 1

(* Route::matches: no bit of the mask differs. *)
Matches(r, ip) == r.mask \cap ((r.ip \ ip) \cup (ip \ r.ip)) = {}

-----------------------------------------------------------------------------

(* Mutation of Accepts: the length of the prefix is not checked. *)
AcceptsAnyLength(r) == Leading(r.ipv4) = 4

(* The length of a configured route, cut to eight bits by Route::from. *)
Cidr(r) == r.cidr % U8

(* No panic in from_str, in the unwrap of its result, or in Route::new. *)
Accepts(r) ==
  /\ Leading(r.ipv4) = 4
  /\ Cidr(r) < Word \/ (Cidr(r) = Word /\ ~ OverflowChecks)

(* Route::from and Route::new for the next route of the file; the number   *)
(* of its interface is cut to sixteen bits.                                *)
LoadRoute ==
  /\ pc = "load"
  /\ Len(routes) < Len(config)
  /\ LET r == config[Len(routes) + 1]
     IN  \/ /\ Accepts(r)
            /\ routes' = Append(routes, [ip |-> ToU32(FromStr(r.ipv4)),
                                         mask |-> CidrMask(Cidr(r)),
                                         cidr |-> Cidr(r),
                                         nic |-> r.nic % U16])
            /\ UNCHANGED pc
         \/ /\ ~ Accepts(r)
            /\ pc' = "panic"
            /\ UNCHANGED routes
  /\ UNCHANGED <<config, table, at, maxCidr, dstNic, nic>>

LoadDone ==
  /\ pc = "load"
  /\ Len(routes) = Len(config)
  /\ pc' = "init"
  /\ UNCHANGED <<config, routes, table, at, maxCidr, dstNic, nic>>

(* Ipv4Sender::init: try_extend_from_slice takes all of the routes or none. *)
SenderInit ==
  /\ pc = "init"
  /\ \/ /\ Len(routes) <= MaxRoutes
        /\ table' = routes
        /\ pc' = "lookup"
     \/ /\ Len(routes) > MaxRoutes
        /\ pc' = "panic"
        /\ UNCHANGED table
  /\ UNCHANGED <<config, routes, at, maxCidr, dstNic, nic>>

(* Mutation of LookAt: a later route of the same length wins. *)
LookAtLast ==
  /\ pc = "lookup"
  /\ at < Len(table)
  /\ at' = at + 1
  /\ LET r == table[at + 1]
     IN  \/ /\ Matches(r, ToU32(Dst)) /\ r.cidr >= maxCidr
            /\ maxCidr' = r.cidr
            /\ dstNic' = {r.nic}
         \/ /\ ~ (Matches(r, ToU32(Dst)) /\ r.cidr >= maxCidr)
            /\ UNCHANGED <<maxCidr, dstNic>>
  /\ UNCHANGED <<pc, config, routes, table, nic>>

(* A turn of the loop of Ipv4Sender::process. *)
LookAt ==
  /\ pc = "lookup"
  /\ at < Len(table)
  /\ at' = at + 1
  /\ LET r == table[at + 1]
     IN  \/ /\ Matches(r, ToU32(Dst)) /\ r.cidr > maxCidr
            /\ maxCidr' = r.cidr
            /\ dstNic' = {r.nic}
         \/ /\ ~ (Matches(r, ToU32(Dst)) /\ r.cidr > maxCidr)
            /\ UNCHANGED <<maxCidr, dstNic>>
  /\ UNCHANGED <<pc, config, routes, table, nic>>

(* packet.nic = dst_nic.unwrap_or(0) *)
LookupDone ==
  /\ pc = "lookup"
  /\ at = Len(table)
  /\ pc' = "done"
  /\ nic' = IF dstNic = {} THEN 0 ELSE CHOOSE n \in dstNic : TRUE
  /\ UNCHANGED <<config, routes, table, at, maxCidr, dstNic>>

(* The packet has its interface, or the process has ended. *)
Finished ==
  /\ pc \in {"done", "panic"}
  /\ UNCHANGED vars

Next == LoadRoute \/ LoadDone \/ SenderInit \/ LookAt \/ LookupDone \/ Finished

Spec == Init /\ [][Next]_vars

-----------------------------------------------------------------------------
(* Properties.                                                             *)

(* Bit i of an address in the order of CIDR, the first bit of the first    *)
(* octet being bit 0.                                                      *)
CidrBit(octets, i) == (octets[i \div 8 + 1] \div 2 ^ (7 - (i % 8))) % 2

InPrefix(octets, r, length) ==
  \A i \in 0 .. length - 1 : CidrBit(octets, i) = CidrBit(r.ipv4, i)

(* The configured routes for Dst, a default route (of length 0) included,  *)
(* and among them the longest prefixes.                                    *)
Candidates == {i \in 1 .. Len(config) : InPrefix(Dst, config[i], Cidr(config[i]))}

Longest ==
  {i \in Candidates : \A j \in Candidates : Cidr(config[j]) <= Cidr(config[i])}

(* The lookup of Ipv4Sender::process, which starts from max_cidr 0 and     *)
(* asks for more, is a longest prefix match without default routes: the    *)
(* packet goes out of the interface of the first of the longest prefixes   *)
(* that contain the destination, in whatever order the routes are          *)
(* configured; but when none is longer than 0 it goes out of interface 0,  *)
(* whatever interface a default route names.  (Route lengths are multiples *)
(* of eight here; for the others see AcceptedRouteMatchesPrefix.)          *)
LongestPrefixElseNicZero ==
  pc = "done" =>
    nic = IF \A i \in Candidates : Cidr(config[i]) = 0 THEN 0
          ELSE LET first == CHOOSE i \in Longest : \A j \in Longest : i <= j
               IN  config[first].nic % U16

(* protocol.rs asserts "cidr <= u32::BITS" of a route and accepts it then: *)
(* a route that was accepted matches only addresses of its prefix.         *)
AcceptedRouteMatchesPrefix ==
  \A i \in 1 .. Len(routes) :
    Matches(routes[i], ToU32(Dst)) => InPrefix(Dst, config[i], routes[i].cidr)
=============================================================================
