---------------------------- MODULE RoutesProofs ----------------------------
(***************************************************************************)
(* Proofs for module Routes, for every set of configured route tables, of  *)
(* any length: the fields have their types, and the lookup of              *)
(* Ipv4Sender::process is a longest prefix match that knows no default     *)
(* route, when the lengths of the accepted routes are whole octets (for    *)
(* the others it is not: see AcceptedRouteMatchesPrefix).                  *)
(*                                                                         *)
(* Two arguments meet here.  The loop keeps the first of the longest       *)
(* routes it has found to match.  And to match is to have the prefix: mask *)
(* and address are compared with the bits of an octet in the order of the  *)
(* number, a prefix with the first bit of an octet first, and over whole   *)
(* octets the two compare the same bits.                                   *)
(***************************************************************************)
EXTENDS Routes, FiniteSetTheorems, SequenceTheorems, TLAPS

(* The route that Route::from and Route::new make of a configured one. *)
RouteOf(r) == [ip |-> ToU32(FromStr(r.ipv4)), mask |-> CidrMask(Cidr(r)),
               cidr |-> Cidr(r), nic |-> r.nic % U16]

(* Route i of the table matches the destination. *)
Hits(i) == Matches(table[i], ToU32(Dst))

(* The routes made so far are those of the file, and the table has them.   *)
LoadInv ==
  /\ Len(routes) <= Len(config)
  /\ \A i \in 1 .. Len(routes) : Accepts(config[i]) /\ routes[i] = RouteOf(config[i])
  /\ pc \in {"init", "lookup", "done"} => Len(routes) = Len(config)
  /\ pc \in {"load", "init"} => table = <<>> /\ at = 0 /\ maxCidr = 0 /\ dstNic = {}
  /\ pc \in {"lookup", "done"} => table = routes

(* Of the routes the loop has looked at, dst_nic is that of the first of   *)
(* the longest that match, if one of them matches at all.                  *)
NoneFound ==
  /\ dstNic = {} /\ maxCidr = 0
  /\ \A i \in 1 .. at : Hits(i) => table[i].cidr = 0

FirstFound(k) ==
  /\ dstNic = {table[k].nic} /\ maxCidr = table[k].cidr /\ maxCidr > 0
  /\ Hits(k)
  /\ \A i \in 1 .. at : Hits(i) => table[i].cidr <= table[k].cidr
  /\ \A i \in 1 .. k - 1 : Hits(i) => table[i].cidr < table[k].cidr

LoopInv ==
  pc \in {"lookup", "done"} => NoneFound \/ \E k \in 1 .. at : FirstFound(k)

DoneInv ==
  pc = "done" =>
    /\ at = Len(table)
    /\ (dstNic = {} /\ nic = 0) \/ dstNic = {nic}

IInv == TypeOK /\ LoadInv /\ LoopInv /\ DoneInv

(* The lengths of the accepted routes are whole octets, or none. *)
WholeOctets ==
  \A t \in Tables : \A i \in 1 .. Len(t) : Accepts(t[i]) => Cidr(t[i]) \in {0, 8, 16, 24}

-----------------------------------------------------------------------------
(* Addresses.                                                              *)

(* from_str reads four octets from the text of an accepted route. *)
LEMMA FourOctets ==
  ASSUME NEW text \in Seq(Octet \cup {NoOctet}), Leading(text) = 4
  PROVE  4 <= Len(text) /\ \A j \in 1 .. 4 : text[j] \in Octet /\ FromStr(text)[j] = text[j]
<1> DEFINE S == {k \in 1 .. Len(text) : \A i \in 1 .. k : text[i] \in Octet}
<1>1. Cardinality(S) = 4
  BY DEF Leading
<1>2. 4 \in S
  <2> SUFFICES ASSUME 4 \notin S PROVE FALSE
    OBVIOUS
  <2>1. \A k \in S : k \in 1 .. 3
    <3> SUFFICES ASSUME NEW k \in S, k > 3 PROVE FALSE
      OBVIOUS
    <3>1. 4 \in 1 .. Len(text) /\ \A i \in 1 .. 4 : i \in 1 .. k
      OBVIOUS
    <3> QED
      BY <3>1
  <2>2. IsFiniteSet(1 .. 3) /\ Cardinality(1 .. 3) = 3
    <3>1. 1 \in Int /\ 3 \in Int /\ (IF 1 > 3 THEN 0 ELSE 3 - 1 + 1) = 3
      OBVIOUS
    <3> QED
      BY ONLY <3>1, FS_Interval
  <2>3. Cardinality(S) <= 3
    BY <2>1, <2>2, FS_Subset
  <2> QED
    BY <1>1, <2>3
<1>3. \A j \in 1 .. 4 : FromStr(text)[j] = text[j]
  BY <1>2 DEF FromStr
<1> QED
  BY <1>2, <1>3

(* A power of two with an exponent below eight. *)
LEMMA Powers ==
  ASSUME NEW k \in 0 .. 7
  PROVE  2 ^ k \in Nat \ {0}
<1>1. k = 0 \/ k = 1 \/ k = 2 \/ k = 3 \/ k = 4 \/ k = 5 \/ k = 6 \/ k = 7
  OBVIOUS
<1>2. /\ 2 ^ 0 = 1 /\ 2 ^ 1 = 2 /\ 2 ^ 2 = 4 /\ 2 ^ 3 = 8
      /\ 2 ^ 4 = 16 /\ 2 ^ 5 = 32 /\ 2 ^ 6 = 64 /\ 2 ^ 7 = 128
  OBVIOUS
<1>3. /\ 2 ^ 0 \in Nat \ {0} /\ 2 ^ 1 \in Nat \ {0} /\ 2 ^ 2 \in Nat \ {0} /\ 2 ^ 3 \in Nat \ {0}
      /\ 2 ^ 4 \in Nat \ {0} /\ 2 ^ 5 \in Nat \ {0} /\ 2 ^ 6 \in Nat \ {0} /\ 2 ^ 7 \in Nat \ {0}
  BY <1>2
<1> QED
  BY ONLY <1>1, <1>3, Zenon

(* Bit k of an octet. *)
Bit(o, k) == (o \div 2 ^ k) % 2

(* A bit is zero or one. *)
LEMMA BitType ==
  ASSUME NEW o \in Octet, NEW k \in 0 .. 7
  PROVE  Bit(o, k) \in {0, 1}
<1>1. PICK d \in Nat \ {0} : d = 2 ^ k
  BY Powers
<1>2. o \div d \in Int
  BY <1>1 DEF Octet
<1> QED
  BY <1>1, <1>2 DEF Bit

(* The first c bits of two addresses agree, in the order of the number and *)
(* in the order of a prefix.                                               *)
SameBits(x, y, c) ==
  \A b \in 0 .. c - 1 : Bit(x[b \div 8 + 1], b % 8) = Bit(y[b \div 8 + 1], b % 8)

SamePrefix(x, y, c) ==
  \A i \in 0 .. c - 1 : Bit(x[i \div 8 + 1], 7 - (i % 8)) = Bit(y[i \div 8 + 1], 7 - (i % 8))

(* Two addresses have the same bits in the order of the number exactly     *)
(* when they have the same bits in the order of a prefix, over whole       *)
(* octets.                                                                 *)
LEMMA WholeOctetsAgree ==
  ASSUME NEW x, NEW y, NEW c \in {8, 16, 24},
         \A j \in 1 .. 4 : x[j] \in Octet /\ y[j] \in Octet
  PROVE  SameBits(x, y, c) <=> SamePrefix(x, y, c)
<1> DEFINE Mirror(i) == 8 * (i \div 8) + (7 - (i % 8))
<1>1. ASSUME NEW i \in 0 .. c - 1
      PROVE  /\ Mirror(i) \in 0 .. c - 1
             /\ Mirror(i) \div 8 = i \div 8 /\ Mirror(i) % 8 = 7 - (i % 8) /\ i % 8 = 7 - (Mirror(i) % 8)
  OBVIOUS
<1>2. ASSUME SameBits(x, y, c), NEW i \in 0 .. c - 1
      PROVE  Bit(x[i \div 8 + 1], 7 - (i % 8)) = Bit(y[i \div 8 + 1], 7 - (i % 8))
  <2>1. PICK b \in 0 .. c - 1 : b \div 8 = i \div 8 /\ b % 8 = 7 - (i % 8)
    BY <1>1
  <2>2. Bit(x[b \div 8 + 1], b % 8) = Bit(y[b \div 8 + 1], b % 8)
    BY <1>2 DEF SameBits
  <2> QED
    BY <2>1, <2>2
<1>3. ASSUME SamePrefix(x, y, c), NEW b \in 0 .. c - 1
      PROVE  Bit(x[b \div 8 + 1], b % 8) = Bit(y[b \div 8 + 1], b % 8)
  <2>1. PICK i \in 0 .. c - 1 : i \div 8 = b \div 8 /\ 7 - (i % 8) = b % 8
    BY <1>1
  <2>2. Bit(x[i \div 8 + 1], 7 - (i % 8)) = Bit(y[i \div 8 + 1], 7 - (i % 8))
    BY <1>3 DEF SamePrefix
  <2> QED
    BY <2>1, <2>2
<1> QED
  BY <1>2, <1>3 DEF SameBits, SamePrefix

(* What a cast leaves of a number. *)
LEMMA CutBelow ==
  ASSUME NEW x \in Nat, NEW m \in Nat \ {0}
  PROVE  x % m \in 0 .. m - 1
  OBVIOUS

(* An accepted route becomes a Route. *)
LEMMA RouteType ==
  ASSUME NEW r \in RouteConfigs, Accepts(r)
  PROVE  RouteOf(r) \in Route
<1>1. PICK c : c = Cidr(r)
  OBVIOUS
<1>2. r.cidr \in Nat /\ r.nic % U16 \in 0 .. U16 - 1
  <2>1. PICK x \in Nat : x = r.nic
    BY DEF RouteConfigs
  <2>2. U16 \in Nat \ {0}
    BY DEF U16
  <2>3. x % U16 \in 0 .. U16 - 1
    BY <2>1, <2>2, CutBelow, Zenon
  <2>4. r.cidr \in Nat
    BY DEF RouteConfigs
  <2> QED
    BY <2>1, <2>3, <2>4, Zenon
<1>3. c \in 0 .. 32
  BY <1>1, <1>2 DEF Accepts, Cidr, U8, Word
<1>4. c % 32 \in 0 .. 31
  BY <1>3
<1>5. CidrMask(c) \subseteq 0 .. 31
  BY <1>4 DEF CidrMask, Word
<1>6. ToU32(FromStr(r.ipv4)) \subseteq 0 .. 31
  BY DEF ToU32, Word
<1>7. 32 - 1 = 31
  OBVIOUS
<1> QED
  BY <1>1, <1>2, <1>3, <1>5, <1>6, <1>7 DEF RouteOf, Route, Word

(* To match is to be in the prefix. *)
LEMMA MatchIsPrefix ==
  ASSUME NEW r \in RouteConfigs, Accepts(r), Cidr(r) \in {8, 16, 24}
  PROVE  Matches(RouteOf(r), ToU32(Dst)) <=> InPrefix(Dst, r, Cidr(r))
<1>1. PICK c \in {8, 16, 24} : c = Cidr(r)
  OBVIOUS
<1>2. PICK x : x = FromStr(r.ipv4)
  OBVIOUS
<1>3. r.ipv4 \in Seq(Octet \cup {NoOctet}) /\ Leading(r.ipv4) = 4
  BY DEF RouteConfigs, Accepts
<1>4. \A j \in 1 .. 4 : x[j] \in Octet /\ r.ipv4[j] = x[j]
  BY <1>2, <1>3, FourOctets
<1>5. \A j \in 1 .. 4 : Dst[j] \in Octet
  <2>1. Dst[1] = 192 /\ Dst[2] = 168 /\ Dst[3] = 10 /\ Dst[4] = 2
    BY DEF Dst
  <2>2. \A j \in 1 .. 4 : j = 1 \/ j = 2 \/ j = 3 \/ j = 4
    OBVIOUS
  <2> QED
    BY <2>1, <2>2 DEF Octet
<1>6. RouteOf(r).ip = ToU32(x) /\ RouteOf(r).mask = 0 .. c - 1
  <2>1. c % 32 = c
    OBVIOUS
  <2> QED
    BY <1>1, <1>2, <2>1 DEF RouteOf, CidrMask, Word
<1>7. ASSUME NEW b \in 0 .. c - 1
      PROVE  /\ b \in 0 .. 31 /\ b \div 8 + 1 \in 1 .. 4 /\ b % 8 \in 0 .. 7 /\ 7 - (b % 8) \in 0 .. 7
  OBVIOUS
<1>8. ASSUME NEW b \in 0 .. c - 1
      PROVE  /\ b \in ToU32(x) <=> Bit(x[b \div 8 + 1], b % 8) = 1
             /\ b \in ToU32(Dst) <=> Bit(Dst[b \div 8 + 1], b % 8) = 1
  BY <1>7 DEF ToU32, Word, Bit
<1>9. Matches(RouteOf(r), ToU32(Dst))
        <=> \A b \in 0 .. c - 1 : b \in ToU32(x) <=> b \in ToU32(Dst)
  BY <1>6 DEF Matches
<1>10. ASSUME NEW b \in 0 .. c - 1
       PROVE  (b \in ToU32(x) <=> b \in ToU32(Dst))
                <=> Bit(x[b \div 8 + 1], b % 8) = Bit(Dst[b \div 8 + 1], b % 8)
  <2>1. Bit(x[b \div 8 + 1], b % 8) \in {0, 1} /\ Bit(Dst[b \div 8 + 1], b % 8) \in {0, 1}
    BY <1>4, <1>5, <1>7, BitType
  <2> QED
    BY <1>8, <2>1
<1>11. ASSUME NEW i \in 0 .. c - 1
       PROVE  /\ CidrBit(Dst, i) = Bit(Dst[i \div 8 + 1], 7 - (i % 8))
              /\ CidrBit(r.ipv4, i) = Bit(x[i \div 8 + 1], 7 - (i % 8))
  BY <1>4, <1>7 DEF CidrBit, Bit
<1>12. InPrefix(Dst, r, Cidr(r))
         <=> SamePrefix(x, Dst, c)
  BY <1>1, <1>11 DEF InPrefix, SamePrefix
<1>13. Matches(RouteOf(r), ToU32(Dst))
         <=> SameBits(x, Dst, c)
  BY <1>9, <1>10 DEF SameBits
<1>14. SameBits(x, Dst, c) <=> SamePrefix(x, Dst, c)
  BY <1>4, <1>5, WholeOctetsAgree
<1> QED
  BY <1>12, <1>13, <1>14

-----------------------------------------------------------------------------
(* The invariant.                                                          *)

(* The next route is read from the file. *)
LEMMA LoadStep ==
  ASSUME IInv, LoadRoute
  PROVE  IInv'
<1> USE DEF IInv
<1>1. PICK n : n = Len(routes) + 1
  OBVIOUS
<1>2. config \in Seq(RouteConfigs) /\ routes \in Seq(Route) /\ Len(config) \in Nat /\ Len(routes) \in Nat
  BY RoutesAssumption DEF TypeOK
<1>3. n \in 1 .. Len(config) /\ config[n] \in RouteConfigs
  BY <1>1, <1>2 DEF LoadRoute
<1>4. pc = "load" /\ UNCHANGED <<config, table, at, maxCidr, dstNic, nic>>
  BY DEF LoadRoute
<1>5. CASE Accepts(config[n]) /\ routes' = Append(routes, RouteOf(config[n])) /\ pc' = pc
  <2>1. RouteOf(config[n]) \in Route
    BY <1>3, <1>5, RouteType
  <2>2. /\ routes' \in Seq(Route) /\ Len(routes') = n
        /\ \A i \in 1 .. Len(routes) : routes'[i] = routes[i]
        /\ routes'[n] = RouteOf(config[n])
    BY <1>1, <1>2, <1>5, <2>1, AppendProperties
  <2>3. TypeOK'
    BY <1>4, <1>5, <2>2 DEF TypeOK
  <2>4. ASSUME NEW i \in 1 .. Len(routes')
        PROVE  Accepts(config[i]) /\ routes'[i] = RouteOf(config[i])
    <3>1. i \in 1 .. Len(routes) \/ i = n
      BY <1>1, <1>2, <2>2
    <3> QED
      BY <1>5, <2>2, <3>1 DEF LoadInv
  <2>5. LoadInv'
    BY <1>3, <1>4, <1>5, <2>2, <2>4 DEF LoadInv
  <2> QED
    BY <1>4, <1>5, <2>3, <2>5 DEF LoopInv, DoneInv
<1>6. CASE pc' = "panic" /\ routes' = routes
  BY <1>4, <1>6 DEF TypeOK, LoadInv, LoopInv, DoneInv
<1> QED
  BY <1>1, <1>5, <1>6 DEF LoadRoute, RouteOf

(* The fields of a route of the table. *)
LEMMA TableType ==
  ASSUME TypeOK, NEW i \in 1 .. Len(table)
  PROVE  table[i].cidr \in 0 .. 32 /\ table[i].nic \in 0 .. U16 - 1
<1>1. PICK r : r = table[i]
  OBVIOUS
<1>2. r \in Route
  BY <1>1 DEF TypeOK
<1> QED
  BY <1>1, <1>2 DEF Route, Word

(* A turn of the loop. *)
LEMMA LookStep ==
  ASSUME IInv, LookAt
  PROVE  IInv'
<1> USE DEF IInv
<1>1. PICK n : n = at + 1
  OBVIOUS
<1>2. /\ pc = "lookup" /\ at \in Nat /\ table \in Seq(Route) /\ Len(table) \in Nat
      /\ n \in 1 .. Len(table) /\ at' = n /\ UNCHANGED <<pc, config, routes, table, nic>>
  BY <1>1 DEF LookAt, TypeOK
<1>3. table[n].cidr \in 0 .. 32 /\ table[n].nic \in 0 .. U16 - 1 /\ maxCidr \in 0 .. 32
  BY <1>2, TableType DEF Word, TypeOK
<1>4. \A i \in 1 .. n : i \in 1 .. at \/ i = n
  BY <1>1, <1>2
<1>5. \A i : Hits(i)' <=> Hits(i)
  BY <1>2 DEF Hits
<1>6. CASE Hits(n) /\ table[n].cidr > maxCidr /\ maxCidr' = table[n].cidr /\ dstNic' = {table[n].nic}
  <2>1. \A i \in 1 .. at : Hits(i) => table[i].cidr <= maxCidr
    BY <1>2, <1>3 DEF LoopInv, NoneFound, FirstFound
  <2>2. \A i \in 1 .. at : table[i].cidr \in 0 .. 32
    BY <1>1, <1>2, TableType
  <2>3. \A i \in 1 .. at : Hits(i) => table[i].cidr < table[n].cidr
    BY <1>3, <1>6, <2>1, <2>2
  <2>4. \A i \in 1 .. n - 1 : i \in 1 .. at
    BY <1>1, <1>2
  <2>5. FirstFound(n)'
    <3>1. \A i \in 1 .. n : Hits(i) => table[i].cidr <= table[n].cidr
      BY <1>3, <1>4, <2>2, <2>3
    <3>2. dstNic' = {table'[n].nic} /\ maxCidr' = table'[n].cidr /\ maxCidr' > 0
      <4>1. table' = table
        BY <1>2
      <4>2. dstNic' = {table'[n].nic} /\ maxCidr' = table'[n].cidr
        BY <1>6, <4>1, Zenon
      <4>3. maxCidr' > 0
        BY <1>3, <1>6
      <4> QED
        BY <4>2, <4>3
    <3>3. \A i \in 1 .. n - 1 : Hits(i) => table[i].cidr < table[n].cidr
      BY <2>3, <2>4
    <3> QED
      BY <1>2, <1>5, <1>6, <3>1, <3>2, <3>3 DEF FirstFound
  <2>6. Cardinality(dstNic') <= 1
    <3>1. PICK x : dstNic' = {x}
      BY <1>6
    <3>2. Cardinality({x}) = 1
      BY FS_Singleton
    <3> QED
      BY <3>1, <3>2
  <2>7. TypeOK'
    BY <1>2, <1>3, <1>6, <2>6 DEF TypeOK, Word
  <2>8. n \in 1 .. at'
    BY <1>2
  <2> QED
    BY <1>2, <2>5, <2>7, <2>8 DEF LoadInv, LoopInv, DoneInv
<1>7. CASE ~ (Hits(n) /\ table[n].cidr > maxCidr) /\ UNCHANGED <<maxCidr, dstNic>>
  <2>1. TypeOK'
    BY <1>2, <1>7 DEF TypeOK
  <2>2. CASE NoneFound
    <3>1. Hits(n) => table[n].cidr = 0
      BY <1>3, <1>7, <2>2 DEF NoneFound
    <3>2. NoneFound'
      BY <1>2, <1>4, <1>5, <1>7, <2>2, <3>1 DEF NoneFound
    <3> QED
      BY <1>2, <2>1, <3>2 DEF LoadInv, LoopInv, DoneInv
  <2>3. ASSUME NEW k \in 1 .. at, FirstFound(k)
        PROVE  IInv'
    <3>1. Hits(n) => table[n].cidr <= table[k].cidr
      BY <1>3, <1>7, <2>3 DEF FirstFound
    <3>2. FirstFound(k)'
      BY <1>2, <1>4, <1>5, <1>7, <2>3, <3>1 DEF FirstFound
    <3>3. k \in 1 .. at'
      BY <1>1, <1>2
    <3> QED
      BY <1>2, <2>1, <3>2, <3>3 DEF LoadInv, LoopInv, DoneInv
  <2> QED
    BY <1>2, <2>2, <2>3 DEF LoopInv
<1> QED
  BY <1>1, <1>6, <1>7 DEF LookAt, Hits

(* Every step keeps the invariant. *)
LEMMA Inductive ==
  ASSUME IInv, [Next]_vars
  PROVE  IInv'
<1> USE DEF IInv
<1>1. CASE LoadRoute
  BY <1>1, LoadStep
<1>2. CASE LoadDone
  BY <1>2 DEF LoadDone, TypeOK, LoadInv, LoopInv, DoneInv
<1>3. CASE SenderInit
  <2>1. /\ pc = "init" /\ at = 0 /\ maxCidr = 0 /\ dstNic = {} /\ routes \in Seq(Route) /\ Len(routes) \in Nat
        /\ UNCHANGED <<config, routes, at, maxCidr, dstNic, nic>>
    BY <1>3 DEF SenderInit, LoadInv, TypeOK
  <2>2. CASE Len(routes) <= MaxRoutes /\ table' = routes /\ pc' = "lookup"
    <3>1. NoneFound'
      BY <2>1 DEF NoneFound
    <3>2. TypeOK'
      BY <2>1, <2>2 DEF TypeOK
    <3> QED
      BY <2>1, <2>2, <3>1, <3>2 DEF LoadInv, LoopInv, DoneInv
  <2>3. CASE pc' = "panic" /\ table' = table
    BY <2>1, <2>3 DEF TypeOK, LoadInv, LoopInv, DoneInv
  <2> QED
    BY <1>3, <2>2, <2>3 DEF SenderInit
<1>4. CASE LookAt
  BY <1>4, LookStep
<1>5. CASE LookupDone
  <2>1. /\ pc = "lookup" /\ at = Len(table) /\ pc' = "done"
        /\ UNCHANGED <<config, routes, table, at, maxCidr, dstNic>>
        /\ nic' = IF dstNic = {} THEN 0 ELSE CHOOSE n \in dstNic : TRUE
    BY <1>5 DEF LookupDone
  <2>2. dstNic = {} \/ \E n \in 0 .. U16 - 1 : dstNic = {n}
    <3>1. ASSUME NEW k \in 1 .. at, FirstFound(k)
          PROVE  table[k].nic \in 0 .. U16 - 1 /\ dstNic = {table[k].nic}
      <4>1. k \in 1 .. Len(table)
        BY <2>1
      <4> QED
        BY <3>1, <4>1, TableType DEF FirstFound
    <3> QED
      BY <2>1, <3>1 DEF LoopInv, NoneFound
  <2>3. nic' \in 0 .. U16 - 1 /\ ((dstNic = {} /\ nic' = 0) \/ dstNic = {nic'})
    <3>1. 0 \in 0 .. U16 - 1
      BY DEF U16
    <3> QED
      BY <2>1, <2>2, <3>1
  <2>4. TypeOK'
    BY <2>1, <2>3 DEF TypeOK
  <2>5. LoopInv'
    BY <2>1 DEF LoopInv, NoneFound, FirstFound, Hits
  <2> QED
    BY <2>1, <2>3, <2>4, <2>5 DEF LoadInv, DoneInv
<1>6. CASE Finished \/ UNCHANGED vars
  <2>1. UNCHANGED vars
    BY <1>6 DEF Finished
  <2> QED
    BY <2>1 DEF vars, TypeOK, LoadInv, LoopInv, DoneInv, NoneFound, FirstFound, Hits
<1> QED
  BY <1>1, <1>2, <1>3, <1>4, <1>5, <1>6 DEF Next

(* Of the routes looked at so far, dst_nic is that of the first of the     *)
(* longest that match.                                                     *)
THEOREM Invariance == Spec => []IInv
<1>1. Init => IInv
  <2> SUFFICES ASSUME Init PROVE IInv
    OBVIOUS
  <2>1. Cardinality(dstNic) <= 1
    BY FS_EmptySet DEF Init
  <2>2. routes = <<>> /\ table = <<>> /\ Len(routes) = 0 /\ Len(table) = 0
        /\ routes \in Seq(Route) /\ table \in Seq(Route) /\ Len(config) \in Nat
    BY RoutesAssumption DEF Init
  <2>3. TypeOK
    BY <2>1, <2>2, RoutesAssumption DEF Init, TypeOK, Word, U16
  <2> QED
    BY <2>2, <2>3 DEF Init, IInv, LoadInv, LoopInv, DoneInv
<1> QED
  BY <1>1, Inductive, PTL DEF Spec

(* Every field has its type: a route that is accepted has a prefix of at   *)
(* most 32 bits, and the lookup finds one interface or none.               *)
THEOREM TypeCorrect == Spec => []TypeOK
  BY Invariance, PTL DEF IInv

(* When the lookup has ended, the interface is that of the first of the    *)
(* longest prefixes.                                                       *)
LEMMA DoneIsLongest ==
  ASSUME IInv, WholeOctets
  PROVE  LongestPrefixElseNicZero
<1> DEFINE first == CHOOSE i \in Longest : \A j \in Longest : i <= j
           none == \A i \in Candidates : Cidr(config[i]) = 0
<1> SUFFICES ASSUME pc = "done"
    PROVE  nic = IF none THEN 0 ELSE config[first].nic % U16
  BY DEF LongestPrefixElseNicZero
<1>0. /\ first = CHOOSE i \in Longest : \A j \in Longest : i <= j
      /\ none <=> \A i \in Candidates : Cidr(config[i]) = 0
  OBVIOUS
<1> HIDE DEF first, none
<1>1. /\ table = routes /\ Len(table) = Len(config) /\ at = Len(config) /\ Len(config) \in Nat
      /\ config \in Tables /\ config \in Seq(RouteConfigs)
  BY RoutesAssumption DEF IInv, TypeOK, LoadInv, DoneInv
<1>2. ASSUME NEW i \in 1 .. Len(config)
      PROVE  /\ config[i] \in RouteConfigs /\ Accepts(config[i]) /\ table[i] = RouteOf(config[i])
             /\ Cidr(config[i]) \in {0, 8, 16, 24} /\ table[i].cidr = Cidr(config[i])
             /\ table[i].nic = config[i].nic % U16
  <2>1. config[i] \in RouteConfigs /\ Accepts(config[i]) /\ table[i] = RouteOf(config[i])
    BY <1>1 DEF IInv, LoadInv
  <2>2. Cidr(config[i]) \in {0, 8, 16, 24}
    BY <1>1, <2>1 DEF WholeOctets
  <2> QED
    BY <2>1, <2>2 DEF RouteOf
<1>3. ASSUME NEW i \in 1 .. Len(config)
      PROVE  i \in Candidates <=> Hits(i)
  <2>1. CASE Cidr(config[i]) = 0
    <3>1. 0 .. 0 - 1 = {} /\ CidrMask(0) = {}
      BY DEF CidrMask, Word
    <3>2. InPrefix(Dst, config[i], Cidr(config[i]))
      BY <2>1, <3>1 DEF InPrefix
    <3>3. table[i].mask = {}
      <4>1. RouteOf(config[i]).mask = CidrMask(Cidr(config[i]))
        BY DEF RouteOf
      <4>2. table[i] = RouteOf(config[i])
        BY <1>2
      <4> QED
        BY <2>1, <3>1, <4>1, <4>2
    <3>4. Hits(i)
      BY <3>3 DEF Hits, Matches
    <3> QED
      BY <3>2, <3>4 DEF Candidates
  <2>2. CASE Cidr(config[i]) \in {8, 16, 24}
    <3>1. Hits(i) <=> InPrefix(Dst, config[i], Cidr(config[i]))
      BY <1>2, <2>2, MatchIsPrefix DEF Hits
    <3> QED
      BY <3>1 DEF Candidates
  <2> QED
    BY <1>2, <2>1, <2>2
<1>4. \A i \in Candidates : i \in 1 .. Len(config)
  BY DEF Candidates
<1>5. CASE NoneFound
  <2>1. none
    BY <1>0, <1>1, <1>2, <1>3, <1>4, <1>5 DEF NoneFound
  <2>2. nic = 0
    BY <1>5 DEF NoneFound, IInv, DoneInv
  <2> QED
    BY <2>1, <2>2
<1>6. ASSUME NEW k \in 1 .. at, FirstFound(k)
      PROVE  nic = IF none THEN 0 ELSE config[first].nic % U16
  <2>1. k \in 1 .. Len(config) /\ table[k].cidr > 0 /\ Hits(k)
    BY <1>1, <1>6 DEF FirstFound
  <2>2. k \in Candidates /\ Cidr(config[k]) > 0
    BY <1>2, <1>3, <2>1
  <2>3. \A j \in Candidates : Cidr(config[j]) <= Cidr(config[k])
    BY <1>1, <1>2, <1>3, <1>4, <1>6, <2>1 DEF FirstFound
  <2>4. k \in Longest
    BY <2>2, <2>3 DEF Longest
  <2>5. ASSUME NEW j \in Longest PROVE j \in 1 .. Len(config) /\ k <= j
    <3>1. j \in 1 .. Len(config) /\ Hits(j) /\ Cidr(config[k]) <= Cidr(config[j])
      BY <1>3, <1>4, <2>2 DEF Longest
    <3>2. ASSUME j < k PROVE FALSE
      <4>1. j \in 1 .. k - 1
        BY <2>1, <3>1, <3>2
      <4>2. table[j].cidr < table[k].cidr
        BY <1>6, <3>1, <4>1 DEF FirstFound
      <4>3. Cidr(config[j]) < Cidr(config[k]) /\ Cidr(config[j]) \in Nat /\ Cidr(config[k]) \in Nat
        BY <1>2, <2>1, <3>1, <4>2
      <4> QED
        BY <3>1, <4>3
    <3> QED
      BY <2>1, <3>1, <3>2
  <2>6. first = k
    <3>1. first \in Longest /\ \A j \in Longest : first <= j
      BY <1>0, <2>4, <2>5
    <3>2. first <= k /\ k <= first /\ first \in 1 .. Len(config)
      BY <2>4, <2>5, <3>1
    <3> QED
      BY <1>1, <2>1, <3>2
  <2>7. nic = table[k].nic
    BY <1>6 DEF FirstFound, IInv, DoneInv
  <2>8. nic = config[k].nic % U16
    BY <1>2, <2>1, <2>7
  <2>9. ~ none
    <3>1. Cidr(config[k]) # 0
      BY <1>2, <2>1, <2>2
    <3> QED
      BY <1>0, <2>2, <3>1
  <2> QED
    BY <2>6, <2>8, <2>9
<1> QED
  BY <1>5, <1>6 DEF IInv, LoopInv

(* LongestPrefixElseNicZero, for every set of route tables in which the    *)
(* accepted routes have lengths of whole octets, default routes included:  *)
(* the packet goes out of the interface of the first of the longest        *)
(* prefixes that contain the destination, and out of interface 0 when none *)
(* is longer than 0.                                                       *)
THEOREM LookupIsLongest == WholeOctets => (Spec => []LongestPrefixElseNicZero)
<1> SUFFICES ASSUME WholeOctets PROVE Spec => []LongestPrefixElseNicZero
  OBVIOUS
<1>1. IInv => LongestPrefixElseNicZero
  BY DoneIsLongest
<1> QED
  BY <1>1, Invariance, PTL
=============================================================================
