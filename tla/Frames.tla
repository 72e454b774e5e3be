------------------------------- MODULE Frames -------------------------------
(***************************************************************************)
(* A packet on its way through the UDP graph: the offsets and lengths that *)
(* UserNode, UdpSender, Ipv4Sender and EthSender compute when they put     *)
(* their headers in front of the data, and that EthReceiver, Ipv4Receiver  *)
(* and UdpReceiver compute when they take the headers off (user.rs,        *)
(* packet.rs, protocol.rs and the modules udp, ipv4, eth and dpdk).        *)
(*                                                                         *)
(* Of a header only the fields that others depend on are kept; a byte that *)
(* is set bit by bit is the set of its bits.                               *)
(***************************************************************************)
EXTENDS Integers, FiniteSets

CONSTANTS
  Sizes,       \* payload sizes of frames that arrive
  PeerIhl,     \* header lengths, in words, that other hosts send
  Ttls         \* times to live of frames that arrive

DefaultOffset == 64      \* packet.rs DEFAULT_OFFSET
EthSize == 14            \* size_of::<EthHeader>()
Ipv4Size == 20           \* size_of::<Ipv4Header>()
UdpSize == 8             \* size_of::<UdpHeader>()
Headroom == 128          \* RTE_PKTMBUF_HEADROOM, data_off of a received mbuf
MinFrame == 60           \* the least an Ethernet port sends
MTU == 1500              \* packet.rs MTU
UserSize == 36           \* what UserNode::poll makes: 64 - 28

ASSUME FramesAssumption ==
  /\ Sizes \subseteq 0 .. 1472
  /\ PeerIhl \subseteq 0 .. 15
  /\ Ttls \subseteq 0 .. 255

VARIABLES
  at,        \* the module that has just handled the packet
  offset,    \* Packet::offset
  len,       \* Packet::len
  l2, l3, l4,   \* Packet::l2_header, l3_header, l4_header
  verIhl,    \* version_ihl of the IPv4 header in the packet's buffer
  udpLen,    \* len of the UDP header
  frame,     \* the frame on the wire
  size       \* the payload the packet was made for

vars == <<at, offset, len, l2, l3, l4, verIhl, udpLen, frame, size>>

Byte == SUBSET (0 .. 7)
Headers == [offset : Nat, length : Nat]

(* What a frame carries: its length with padding, and its IPv4 header. *)
FrameType == [bytes : Nat, verIhl : Byte, totLen : Nat, ttl : Nat]

TypeOK ==
  /\ at \in {"free", "user", "udp", "ipv4", "eth", "wire", "peer", "received",
             "ethIn", "ipv4In", "dropped", "delivered"}
  /\ offset \in Nat /\ len \in Nat /\ size \in Nat /\ udpLen \in Nat
  /\ l2 \in Headers /\ l3 \in Headers /\ l4 \in Headers
  /\ verIhl \in Byte
  /\ frame \in FrameType

NoHeader == [offset |-> 0, length |-> 0]

Init ==
  /\ at = "free"
  /\ offset = 0 /\ len = 0 /\ size = 0 /\ udpLen = 0
  /\ l2 = NoHeader /\ l3 = NoHeader /\ l4 = NoHeader
  /\ verIhl = {}
  /\ frame = [bytes |-> 0, verIhl |-> {}, totLen |-> 0, ttl |-> 0]

(* The bits of a number below 16, and the number some bits stand for. *)
Bits(v) == {i \in 0 .. 3 : (v \div 2 ^ i) % 2 = 1}
Number(b) == CHOOSE v \in 0 .. 15 : Bits(v) = b

(* Ipv4Header::version, ihl, set_version, set_ihl *)
Version(byte) == Number({i \in 0 .. 3 : i + 4 \in byte})
Ihl(byte) == Number(byte \cap (0 .. 3))
SetVersion(byte, v) == byte \cup Bits(v)
SetIhl(byte, v) == byte \cup {i + 4 : i \in Bits(v)}

(* Packet::len(): what is left from the offset on. *)
PacketLen == len - offset

-----------------------------------------------------------------------------
(* Sending.                                                                *)

(* UserNode::poll; the buffer keeps what an earlier packet left in it. *)
UserPoll ==
  /\ at \in {"free", "wire", "dropped", "delivered"}
  /\ size' = UserSize
  /\ offset' = DefaultOffset
  /\ len' = UserSize + DefaultOffset      \* set_len
  /\ at' = "user"
  /\ UNCHANGED <<l2, l3, l4, verIhl, udpLen, frame>>

UdpSender ==
  /\ at = "user"
  /\ at' = "udp"
  /\ offset' = offset - UdpSize
  /\ l4' = [offset |-> offset', length |-> UdpSize]
  /\ udpLen' = len - offset'
  /\ UNCHANGED <<len, l2, l3, verIhl, frame, size>>

(* Mutation of Ipv4Sender: the header is recorded before the offset moves. *)
Ipv4SenderLate ==
  /\ at = "udp"
  /\ at' = "ipv4"
  /\ offset' = offset - Ipv4Size
  /\ l3' = [offset |-> offset, length |-> Ipv4Size]
  /\ verIhl' = SetIhl(SetVersion(verIhl, 4), Ipv4Size \div 4)
  /\ frame' = [bytes |-> frame.bytes, verIhl |-> frame.verIhl,
               totLen |-> len - offset', ttl |-> 255]
  /\ UNCHANGED <<len, l2, l4, udpLen, size>>

Ipv4Sender ==
  /\ at = "udp"
  /\ at' = "ipv4"
  /\ offset' = offset - Ipv4Size
  /\ l3' = [offset |-> offset', length |-> Ipv4Size]
  /\ verIhl' = SetIhl(SetVersion(verIhl, 4), Ipv4Size \div 4)
  /\ frame' = [bytes |-> frame.bytes, verIhl |-> frame.verIhl,
               totLen |-> len - offset', ttl |-> 255]
  /\ UNCHANGED <<len, l2, l4, udpLen, size>>

EthSender ==
  /\ at = "ipv4"
  /\ at' = "eth"
  /\ offset' = offset - EthSize
  /\ l2' = [offset |-> offset', length |-> EthSize]
  /\ UNCHANGED <<len, l3, l4, verIhl, udpLen, frame, size>>

(* Dpdk::send: the frame is the packet from its offset on; the port pads.  *)
Wire ==
  /\ at = "eth"
  /\ at' = "wire"
  /\ frame' = [bytes |-> IF PacketLen < MinFrame THEN MinFrame ELSE PacketLen,
               verIhl |-> verIhl, totLen |-> frame.totLen, ttl |-> frame.ttl]
  /\ UNCHANGED <<offset, len, l2, l3, l4, verIhl, udpLen, size>>

-----------------------------------------------------------------------------
(* Receiving.                                                              *)

(* A frame of another host arrives at the port.  Its IPv4 header may be    *)
(* too short or expired, but tot_len is what the frame carries: frames in  *)
(* which it is not are left out.  (Ipv4Receiver believes tot_len, so that  *)
(* of such a frame it makes a packet of that length.)                      *)
PeerFrame ==
  /\ at \in {"free", "wire", "dropped", "delivered"}
  /\ \E s \in Sizes, h \in PeerIhl, t \in Ttls :
       LET total == 4 * h + UdpSize + s
       IN  /\ total <= MTU
           /\ size' = s
           /\ frame' = [bytes |-> IF EthSize + total < MinFrame
                                  THEN MinFrame ELSE EthSize + total,
                        verIhl |-> {i + 4 : i \in Bits(4)} \cup Bits(h),
                        totLen |-> total,
                        ttl |-> t]
  /\ at' = "peer"
  /\ UNCHANGED <<offset, len, l2, l3, l4, verIhl, udpLen>>

(* Dpdk::recv, of the frame of another host or of another stack like this. *)
Recv ==
  /\ at \in {"wire", "peer"}
  /\ at' = "received"
  /\ offset' = Headroom
  /\ len' = frame.bytes + Headroom      \* set_len
  /\ UNCHANGED <<l2, l3, l4, verIhl, udpLen, frame, size>>

EthReceiver ==
  /\ at = "received"
  /\ at' = "ethIn"
  /\ l2' = [offset |-> offset, length |-> EthSize]
  /\ offset' = offset + EthSize
  /\ UNCHANGED <<len, l3, l4, verIhl, udpLen, frame, size>>

(* Mutation of Ipv4Receiver: set_len after the offset has moved. *)
Ipv4ReceiverLate ==
  /\ at = "ethIn"
  /\ l3' = [offset |-> offset, length |-> 4 * Ihl(frame.verIhl)]
  /\ offset' = offset + l3'.length
  /\ len' = frame.totLen + offset'
  /\ at' = IF Ihl(frame.verIhl) < 5 \/ frame.ttl = 0 THEN "dropped" ELSE "ipv4In"
  /\ UNCHANGED <<l2, l4, verIhl, udpLen, frame, size>>

Ipv4Receiver ==
  /\ at = "ethIn"
  /\ l3' = [offset |-> offset, length |-> 4 * Ihl(frame.verIhl)]
  /\ len' = frame.totLen + offset       \* set_len, before the offset moves
  /\ offset' = offset + l3'.length
  /\ at' = IF Ihl(frame.verIhl) < 5 \/ frame.ttl = 0 THEN "dropped" ELSE "ipv4In"
  /\ UNCHANGED <<l2, l4, verIhl, udpLen, frame, size>>

UdpReceiver ==
  /\ at = "ipv4In"
  /\ at' = "delivered"
  /\ l4' = [offset |-> offset, length |-> UdpSize]
  /\ offset' = offset + UdpSize
  /\ UNCHANGED <<len, l2, l3, verIhl, udpLen, frame, size>>

Next ==
  \/ UserPoll \/ UdpSender \/ Ipv4Sender \/ EthSender \/ Wire
  \/ PeerFrame \/ Recv \/ EthReceiver \/ Ipv4Receiver \/ UdpReceiver

Spec == Init /\ [][Next]_vars

-----------------------------------------------------------------------------
(* Properties.                                                             *)

(* The headers of a packet that goes to the adapter lie one behind the     *)
(* other, inside the room in front of the data, and their length fields    *)
(* count what follows them.                                                *)
HeadersContiguous ==
  at = "eth" =>
    /\ offset = l2.offset
    /\ l2.offset + l2.length = l3.offset
    /\ l3.offset + l3.length = l4.offset
    /\ l4.offset + l4.length = DefaultOffset
    /\ udpLen = UdpSize + size
    /\ frame.totLen = Ipv4Size + UdpSize + size
    /\ PacketLen = EthSize + Ipv4Size + UdpSize + size

(* What is delivered of a frame that is what its header says is the        *)
(* payload: the padding of a short frame is gone, and so are the options   *)
(* of the IPv4 header.                                                     *)
PayloadIntact ==
  at = "delivered" =>
    /\ PacketLen = size
    /\ offset = Headroom + EthSize + 4 * Ihl(frame.verIhl) + UdpSize

(* protocol.rs: "version:4 | ihl:4".  The version is read back as it was   *)
(* set, and so is the header length.                                       *)
VersionReadBack ==
  at = "wire" => Version(frame.verIhl) = 4 /\ Ihl(frame.verIhl) = Ipv4Size \div 4
=============================================================================
