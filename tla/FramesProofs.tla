---------------------------- MODULE FramesProofs ----------------------------
(***************************************************************************)
(* Proofs for module Frames, for every set of payload sizes, header        *)
(* lengths and times to live that frames may have: the headers a sender    *)
(* puts in front of the data lie one behind the other, and what a receiver *)
(* delivers is the payload.                                                *)
(*                                                                         *)
(* The invariant says of every module on the way which offset and length   *)
(* the packet has once that module has handled it.                         *)
(***************************************************************************)
EXTENDS Frames, TLAPS

(* The first byte of an IPv4 header: as Ipv4Sender leaves it, whatever its *)
(* buffer held, and as another host writes it.                             *)
OwnByte == {2, 4, 6}
PeerByte(h) == {i + 4 : i \in Bits(4)} \cup Bits(h)

(* On the way to the adapter. *)
SendInv ==
  /\ verIhl \subseteq OwnByte
  /\ at = "user" => offset = 64 /\ len = 100 /\ size = 36
  /\ at = "udp" => /\ offset = 56 /\ len = 100 /\ size = 36 /\ udpLen = 44
                   /\ l4 = [offset |-> 56, length |-> 8]
  /\ at = "ipv4" => /\ offset = 36 /\ len = 100 /\ size = 36 /\ udpLen = 44
                    /\ l4 = [offset |-> 56, length |-> 8]
                    /\ l3 = [offset |-> 36, length |-> 20]
                    /\ frame.totLen = 64 /\ verIhl = OwnByte
  /\ at = "eth" => /\ offset = 22 /\ len = 100 /\ size = 36 /\ udpLen = 44
                   /\ l4 = [offset |-> 56, length |-> 8]
                   /\ l3 = [offset |-> 36, length |-> 20]
                   /\ l2 = [offset |-> 22, length |-> 14]
                   /\ frame.totLen = 64 /\ verIhl = OwnByte
  /\ at = "wire" => frame.verIhl = OwnByte

(* A frame that has arrived is of this stack or of another host. *)
FrameFrom ==
  \/ frame.verIhl = OwnByte
  \/ \E h \in 0 .. 15 : frame.verIhl = PeerByte(h) /\ frame.totLen = 4 * h + UdpSize + size

(* On the way to the user.  No frame of this stack comes past Ipv4Receiver, *)
(* which reads from it a header of four words.                              *)
RecvInv ==
  /\ at = "peer" => FrameFrom
  /\ at = "received" => offset = 128 /\ FrameFrom
  /\ at = "ethIn" => offset = 142 /\ FrameFrom
  /\ at = "ipv4In" => \E h \in 5 .. 15 :
       /\ Ihl(frame.verIhl) = h
       /\ offset = 142 + 4 * h
       /\ len = 142 + 4 * h + UdpSize + size
  /\ at = "delivered" => \E h \in 5 .. 15 :
       /\ Ihl(frame.verIhl) = h
       /\ offset = 150 + 4 * h
       /\ len = 150 + 4 * h + size

IInv == TypeOK /\ SendInv /\ RecvInv

-----------------------------------------------------------------------------
(* The bits of a byte.                                                     *)

(* A number below 16 is known from its bits. *)
LEMMA BitsInjective ==
  ASSUME NEW u \in 0 .. 15, NEW v \in 0 .. 15, Bits(u) = Bits(v)
  PROVE  u = v
<1>1. \A i \in 0 .. 3 : (u \div 2 ^ i) % 2 = 1 <=> (v \div 2 ^ i) % 2 = 1
  BY DEF Bits
<1>2. /\ u % 2 = 1 <=> v % 2 = 1
      /\ (u \div 2) % 2 = 1 <=> (v \div 2) % 2 = 1
      /\ (u \div 4) % 2 = 1 <=> (v \div 4) % 2 = 1
      /\ (u \div 8) % 2 = 1 <=> (v \div 8) % 2 = 1
  <2>1. 2 ^ 0 = 1 /\ 2 ^ 1 = 2 /\ 2 ^ 2 = 4 /\ 2 ^ 3 = 8 /\ u \div 1 = u /\ v \div 1 = v
    OBVIOUS
  <2>2. 0 \in 0 .. 3 /\ 1 \in 0 .. 3 /\ 2 \in 0 .. 3 /\ 3 \in 0 .. 3
    OBVIOUS
  <2> QED
    BY <1>1, <2>1, <2>2
<1> QED
  BY <1>2

(* Number is the inverse of Bits. *)
LEMMA NumberOfBits ==
  ASSUME NEW v \in 0 .. 15
  PROVE  Number(Bits(v)) = v
<1>1. PICK b : b = Bits(v)
  OBVIOUS
<1>2. \E u \in 0 .. 15 : Bits(u) = b
  BY <1>1
<1>3. Number(b) \in 0 .. 15 /\ Bits(Number(b)) = b
  BY <1>2 DEF Number
<1> QED
  BY <1>1, <1>3, BitsInjective

(* What Bits(4) and Bits(5) are, the version and the length of a header. *)
LEMMA BitsOf45 == Bits(4) = {2} /\ Bits(5) = {0, 2}
<1>1. \A i \in 0 .. 3 : i = 0 \/ i = 1 \/ i = 2 \/ i = 3
  OBVIOUS
<1>2. 2 ^ 0 = 1 /\ 2 ^ 1 = 2 /\ 2 ^ 2 = 4 /\ 2 ^ 3 = 8
  OBVIOUS
<1>3. /\ (4 \div 1) % 2 = 0 /\ (4 \div 2) % 2 = 0 /\ (4 \div 4) % 2 = 1 /\ (4 \div 8) % 2 = 0
      /\ (5 \div 1) % 2 = 1 /\ (5 \div 2) % 2 = 0 /\ (5 \div 4) % 2 = 1 /\ (5 \div 8) % 2 = 0
  OBVIOUS
<1>4. ASSUME NEW i \in 0 .. 3
      PROVE  /\ (4 \div 2 ^ i) % 2 = 1 <=> i = 2
             /\ (5 \div 2 ^ i) % 2 = 1 <=> i = 0 \/ i = 2
  <2>1. CASE i = 0
    BY <1>2, <1>3, <2>1
  <2>2. CASE i = 1
    BY <1>2, <1>3, <2>2
  <2>3. CASE i = 2
    BY <1>2, <1>3, <2>3
  <2>4. CASE i = 3
    BY <1>2, <1>3, <2>4
  <2> QED
    BY <1>1, <2>1, <2>2, <2>3, <2>4
<1>5. 0 \in 0 .. 3 /\ 2 \in 0 .. 3
  OBVIOUS
<1>6. \A i : i \in Bits(4) <=> i = 2
  BY <1>4, <1>5 DEF Bits
<1>7. \A i : i \in Bits(5) <=> i = 0 \/ i = 2
  BY <1>4, <1>5 DEF Bits
<1> QED
  BY <1>6, <1>7

(* Ipv4Sender sets bits of both halves, and never clears one. *)
LEMMA OwnByteSet ==
  ASSUME NEW b, b \subseteq OwnByte
  PROVE  SetIhl(SetVersion(b, 4), Ipv4Size \div 4) = OwnByte
<1>1. Ipv4Size \div 4 = 5
  BY DEF Ipv4Size
<1>2. {i + 4 : i \in Bits(5)} = {4, 6}
  BY BitsOf45
<1> QED
  BY <1>1, <1>2, BitsOf45 DEF SetIhl, SetVersion, OwnByte

(* The header length that is read from a frame of this stack ...           *)
LEMMA IhlOwn == Ihl(OwnByte) = 4
<1>1. OwnByte \cap (0 .. 3) = Bits(4)
  BY BitsOf45 DEF OwnByte
<1> QED
  BY <1>1, NumberOfBits DEF Ihl

(* ... and from a frame of another host. *)
LEMMA IhlPeer ==
  ASSUME NEW h \in 0 .. 15
  PROVE  Ihl(PeerByte(h)) = h
<1>1. {i + 4 : i \in Bits(4)} = {6}
  BY BitsOf45
<1>2. PeerByte(h) \cap (0 .. 3) = Bits(h)
  BY <1>1 DEF PeerByte, Bits
<1> QED
  BY <1>2, NumberOfBits DEF Ihl

(* A frame that has arrived has a header length, and the total length that *)
(* goes with it unless the length is too short to be accepted.             *)
LEMMA FrameIhl ==
  ASSUME FrameFrom
  PROVE  /\ Ihl(frame.verIhl) \in 0 .. 15
         /\ Ihl(frame.verIhl) >= 5 => frame.totLen = 4 * Ihl(frame.verIhl) + UdpSize + size
<1>1. CASE frame.verIhl = OwnByte
  BY <1>1, IhlOwn
<1>2. ASSUME NEW h \in 0 .. 15, frame.verIhl = PeerByte(h), frame.totLen = 4 * h + UdpSize + size
      PROVE  Ihl(frame.verIhl) = h
  BY <1>2, IhlPeer
<1> QED
  BY <1>1, <1>2 DEF FrameFrom

-----------------------------------------------------------------------------
(* The invariant.                                                          *)

(* Each module leaves the packet with the offset and length the next one   *)
(* expects.                                                                *)
LEMMA Inductive ==
  ASSUME IInv, [Next]_vars
  PROVE  IInv'
<1> USE FramesAssumption DEF IInv
<1>1. CASE UserPoll
  BY <1>1 DEF UserPoll, TypeOK, SendInv, RecvInv, UserSize, DefaultOffset
<1>2. CASE UdpSender
  BY <1>2 DEF UdpSender, TypeOK, SendInv, RecvInv, UdpSize, Headers
<1>3. CASE Ipv4Sender
  <2>1. verIhl' = OwnByte /\ verIhl' \in Byte
    <3>1. verIhl' = OwnByte
      BY <1>3, OwnByteSet DEF Ipv4Sender, SendInv
    <3> QED
      BY <3>1 DEF OwnByte, Byte
  <2>2. offset' = 36 /\ len = 100 /\ size = 36 /\ udpLen = 44 /\ l4 = [offset |-> 56, length |-> 8]
        /\ l3' = [offset |-> 36, length |-> 20]
    BY <1>3 DEF Ipv4Sender, SendInv, Ipv4Size
  <2>3. frame' \in FrameType /\ frame'.totLen = 64
    BY <1>3, <2>2 DEF Ipv4Sender, TypeOK, FrameType
  <2>4. TypeOK'
    BY <1>3, <2>1, <2>2, <2>3 DEF Ipv4Sender, TypeOK, Headers
  <2> QED
    BY <1>3, <2>1, <2>2, <2>3, <2>4 DEF Ipv4Sender, SendInv, RecvInv
<1>4. CASE EthSender
  BY <1>4 DEF EthSender, TypeOK, SendInv, RecvInv, EthSize, Headers
<1>5. CASE Wire
  <2>1. PacketLen = 78 /\ verIhl = OwnByte
    BY <1>5 DEF Wire, SendInv, PacketLen
  <2>2. frame' \in FrameType /\ frame'.verIhl = OwnByte
    BY <1>5, <2>1 DEF Wire, TypeOK, FrameType, MinFrame
  <2> QED
    BY <1>5, <2>1, <2>2 DEF Wire, TypeOK, SendInv, RecvInv
<1>6. CASE PeerFrame
  <2>1. PICK s \in Sizes, h \in PeerIhl, t \in Ttls :
          LET total == 4 * h + UdpSize + s
          IN  /\ total <= MTU
              /\ size' = s
              /\ frame' = [bytes |-> IF EthSize + total < MinFrame
                                     THEN MinFrame ELSE EthSize + total,
                           verIhl |-> {i + 4 : i \in Bits(4)} \cup Bits(h),
                           totLen |-> total,
                           ttl |-> t]
    BY <1>6, Zenon DEF PeerFrame
  <2>2. s \in Nat /\ h \in 0 .. 15 /\ t \in Nat
    OBVIOUS
  <2>3. PeerByte(h) \in Byte
    <3>1. Bits(4) \subseteq 0 .. 3 /\ Bits(h) \subseteq 0 .. 3
      BY DEF Bits
    <3> QED
      BY <3>1 DEF PeerByte, Byte
  <2>4. frame' \in FrameType
    BY <2>1, <2>2, <2>3 DEF FrameType, PeerByte, EthSize, UdpSize, MinFrame
  <2>5. frame'.verIhl = PeerByte(h) /\ frame'.totLen = 4 * h + UdpSize + size'
    BY <2>1 DEF PeerByte
  <2>6. FrameFrom'
    BY <2>2, <2>5 DEF FrameFrom
  <2>7. TypeOK'
    BY <1>6, <2>1, <2>2, <2>4 DEF PeerFrame, TypeOK
  <2> QED
    BY <1>6, <2>6, <2>7 DEF PeerFrame, SendInv, RecvInv
<1>7. CASE Recv
  <2>1. FrameFrom'
    BY <1>7 DEF Recv, SendInv, RecvInv, FrameFrom
  <2>2. TypeOK'
    BY <1>7 DEF Recv, TypeOK, FrameType, Headroom
  <2> QED
    BY <1>7, <2>1, <2>2 DEF Recv, SendInv, RecvInv, Headroom
<1>8. CASE EthReceiver
  <2>1. FrameFrom'
    BY <1>8 DEF EthReceiver, RecvInv, FrameFrom
  <2>2. TypeOK' /\ offset' = 142
    BY <1>8 DEF EthReceiver, TypeOK, Headers, RecvInv, EthSize
  <2> QED
    BY <1>8, <2>1, <2>2 DEF EthReceiver, SendInv, RecvInv
<1>9. CASE Ipv4Receiver
  <2>1. PICK h : h = Ihl(frame.verIhl)
    OBVIOUS
  <2>2. h \in 0 .. 15 /\ (h >= 5 => frame.totLen = 4 * h + UdpSize + size)
    BY <1>9, <2>1, FrameIhl DEF Ipv4Receiver, RecvInv
  <2>3. /\ offset' = 142 + 4 * h /\ len' = frame.totLen + 142
        /\ l3' = [offset |-> 142, length |-> 4 * h]
        /\ at' = IF h < 5 \/ frame.ttl = 0 THEN "dropped" ELSE "ipv4In"
    BY <1>9, <2>1 DEF Ipv4Receiver, RecvInv
  <2>4. TypeOK'
    BY <1>9, <2>2, <2>3 DEF Ipv4Receiver, TypeOK, Headers, FrameType
  <2>5. CASE at' = "dropped"
    BY <1>9, <2>4, <2>5 DEF Ipv4Receiver, SendInv, RecvInv
  <2>6. CASE at' = "ipv4In"
    <3>1. h \in 5 .. 15
      BY <2>2, <2>3, <2>6
    <3>2. size \in Nat /\ len' = 142 + 4 * h + UdpSize + size
      BY <2>2, <2>3, <3>1 DEF TypeOK, UdpSize
    <3> QED
      BY <1>9, <2>1, <2>3, <2>4, <2>6, <3>1, <3>2 DEF Ipv4Receiver, SendInv, RecvInv
  <2> QED
    BY <2>3, <2>5, <2>6
<1>10. CASE UdpReceiver
  <2>1. PICK h \in 5 .. 15 : /\ Ihl(frame.verIhl) = h
                             /\ offset = 142 + 4 * h
                             /\ len = 142 + 4 * h + UdpSize + size
    BY <1>10 DEF UdpReceiver, RecvInv
  <2>2. offset' = 150 + 4 * h /\ len' = 150 + 4 * h + size' /\ offset' \in Nat
    BY <1>10, <2>1 DEF UdpReceiver, UdpSize, TypeOK
  <2>3. TypeOK'
    BY <1>10, <2>2 DEF UdpReceiver, TypeOK, Headers, UdpSize
  <2> QED
    BY <1>10, <2>1, <2>2, <2>3 DEF UdpReceiver, SendInv, RecvInv
<1>11. CASE UNCHANGED vars
  BY <1>11 DEF vars, TypeOK, SendInv, RecvInv, FrameFrom
<1> QED
  BY <1>1, <1>2, <1>3, <1>4, <1>5, <1>6, <1>7, <1>8, <1>9, <1>10, <1>11 DEF Next

(* Every packet has, at every module, the offset and the length that the   *)
(* modules before it have computed.                                        *)
THEOREM Invariance == Spec => []IInv
<1>1. Init => IInv
  BY DEF Init, IInv, TypeOK, SendInv, RecvInv, NoHeader, Headers, Byte, FrameType
<1> QED
  BY <1>1, Inductive, PTL DEF Spec

(* An offset never goes below the beginning of the buffer, and every field *)
(* has its type.                                                           *)
THEOREM TypeCorrect == Spec => []TypeOK
  BY Invariance, PTL DEF IInv

(* HeadersContiguous, for frames of every size and header length: the      *)
(* headers that UdpSender, Ipv4Sender and EthSender record lie one behind  *)
(* the other up to the data, and their length fields count what follows,   *)
(* whatever the buffer was used for before.                                *)
THEOREM HeadersInFront == Spec => []HeadersContiguous
<1>1. IInv => HeadersContiguous
  BY DEF IInv, SendInv, HeadersContiguous, PacketLen, DefaultOffset, UdpSize, Ipv4Size, EthSize
<1> QED
  BY <1>1, Invariance, PTL

(* PayloadIntact, for frames of every size, header length and time to live *)
(* that are what their headers say: what UdpReceiver delivers is the       *)
(* payload, without the padding of a short frame and without the options   *)
(* of the IPv4 header.                                                     *)
THEOREM PayloadDelivered == Spec => []PayloadIntact
<1>1. IInv => PayloadIntact
  BY DEF IInv, TypeOK, RecvInv, PayloadIntact, PacketLen, Headroom, EthSize, UdpSize
<1> QED
  BY <1>1, Invariance, PTL
=============================================================================
