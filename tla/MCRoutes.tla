----------------------------- MODULE MCRoutes -----------------------------
(***************************************************************************)
(* Route tables of up to three routes, with prefixes that contain the      *)
(* destination, prefixes that differ from it in their first or last bit,   *)
(* default routes before and after others, numbers that the casts of       *)
(* Route::from cut, lengths that Route::new refuses, and addresses with a  *)
(* part missing, one too many, or a part that is no number.                *)
(***************************************************************************)
EXTENDS Routes

OctetRoutes ==
  {[ipv4 |-> a, cidr |-> c, nic |-> n] :
     a \in {<<192, 168, 10, 2>>, <<192, 168, 11, 2>>, <<64, 168, 10, 2>>},
     c \in {8, 16, 24}, n \in {1, 2}}

(* Of length 0, as written and after the cast. *)
DefaultRoutes ==
  {[ipv4 |-> a, cidr |-> c, nic |-> 3] :
     a \in {<<0, 0, 0, 0>>, <<192, 168, 10, 2>>}, c \in {0, U8}}

(* Cut to a /16 route to interface 2. *)
CutRoutes ==
  {[ipv4 |-> <<192, 168, 10, 2>>, cidr |-> U8 + 16, nic |-> U16 + 2]}

RefusedLengths ==
  {[ipv4 |-> <<192, 168, 10, 2>>, cidr |-> c, nic |-> 3] : c \in {32, 33, 255}}

BadAddresses ==
  {[ipv4 |-> a, cidr |-> 24, nic |-> 3] :
     a \in {<<192, 168, 10>>, <<192, 168, 10, 2, 1>>, <<192, NoOctet, 168, 10, 2>>,
           <<192, 168, 10, 2, NoOctet>>}}

TablesOf(rs, most) == UNION {[1 .. k -> rs] : k \in 0 .. most}

Refused == RefusedLengths \cup BadAddresses

Mixed == DefaultRoutes \cup CutRoutes

(* Tables of good routes, a refused one after a good one, and more than    *)
(* fit.                                                                    *)
OctetTables ==
  TablesOf(OctetRoutes, 3) \cup TablesOf(Mixed, 2) \cup TablesOf(Refused, 1)
    \cup {<<r, m>> : r \in OctetRoutes, m \in Mixed \cup Refused}
    \cup {<<m, r>> : r \in OctetRoutes, m \in Mixed}
    \cup {<<r, r, r, r>> : r \in OctetRoutes}

(* A host route to an address that is not the destination. *)
HostTables ==
  TablesOf({[ipv4 |-> <<192, 168, 10, 9>>, cidr |-> 32, nic |-> 1]}, 1)
=============================================================================
