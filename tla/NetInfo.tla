------------------------------ MODULE NetInfo ------------------------------
(***************************************************************************)
(* What a captured frame is taken to be: dissect_net_layer234 of           *)
(* dissect_engine/dissect_engine.c fills a net_info_t from the headers,    *)
(* and proto_identify/proto_identify.c decides by it, and by the first     *)
(* bytes of the payload, which protocol the payload is and which way it    *)
(* goes.                                                                   *)
(*                                                                         *)
(* A frame is what this code reads of it: the number of 802.1Q tags, the   *)
(* type after the last tag, the IP protocol, the ports and the TCP data    *)
(* offset found 20 bytes into the IP header's place, the captured length,  *)
(* and the word found where the payload is taken to begin, which is        *)
(* whatever lies there when the frame ends before it.                      *)
(***************************************************************************)
EXTENDS Integers

(* The request methods identify_http knows, and the response word. *)
Methods == {"get", "post", "head", "put", "delete", "connect", "options", "trace", "patch"}
Words == Methods \cup {"http", "other"}

Transports == {"udp", "tcp"}
Directions == {"request", "response"}

(* The fields of a net_info_t that are read again after it is filled.      *)
(* `trans` is that of any other byte value too: "other".                   *)
NetInfos(ports) == [dir : Directions, sport : ports, dport : ports,
                    trans : Transports \cup {"other"}]

-----------------------------------------------------------------------------
(* dissect_net_layer234 *)

EthHeader == 14
VlanTag == 4
IpHeader == 20   (* sizeof(struct iphdr), whatever the header's own length *)
UdpHeader == 8

(* The frame has the headers the code goes by. *)
IsIp(f) == f.type = "ip"
HasTransport(f) == IsIp(f) /\ f.proto \in Transports

TransportHeader(f) == CASE f.proto = "udp" -> UdpHeader
                        [] f.proto = "tcp" -> 4 * f.doff
                        [] OTHER           -> 0

(* The return value: the offset of the payload, or -1. *)
Layer234Offset(f) ==
  IF IsIp(f) THEN EthHeader + VlanTag * f.tags + IpHeader + TransportHeader(f)
             ELSE -1

(* Mutant: the TCP branch does not set trans_proto. *)
Layer234InfoUdpOnly(f, stale) ==
  IF IsIp(f)
  THEN [stale EXCEPT !.sport = f.sport,
                     !.dport = f.dport,
                     !.trans = IF f.proto = "udp" THEN "udp" ELSE @]
  ELSE stale

(* What net_info holds afterwards, from what the stack held before: the    *)
(* direction is not touched, the transport only by UDP and TCP, nothing    *)
(* that is read again for a frame that is not IP.                          *)
Layer234Info(f, stale) ==
  IF IsIp(f)
  THEN [stale EXCEPT !.sport = f.sport,
                     !.dport = f.dport,
                     !.trans = IF f.proto \in Transports THEN f.proto ELSE @]
  ELSE stale

-----------------------------------------------------------------------------
(* dissect_proto_identify *)

OicqPort == 8000
HttpPort == 80
FtpPorts == {20, 21}

(* Towards one of these ports it is a request, else a response. *)
Towards(info, ports) == IF info.dport \in ports THEN "request" ELSE "response"

Uses(info, ports) == info.dport \in ports \/ info.sport \in ports

(* The words identify_http acts on: the tests for "connect" and "options"  *)
(* ask two different letters of data[5], which no payload has.             *)
RequestWords == Methods \ {"connect", "options"}

IsOicq(info) == info.trans = "udp" /\ Uses(info, {OicqPort})
IsHttpPort(info) == info.trans = "tcp" /\ Uses(info, {HttpPort})
IsHttpWord(info, w) == info.trans = "tcp" /\ w \in RequestWords \cup {"http"}
IsHttp(info, w) == IsHttpPort(info) \/ IsHttpWord(info, w)
IsFtp(info) == info.trans = "tcp" /\ Uses(info, FtpPorts)

NoProto == "none"

(* Mutant: a protocol is identified that proto_map does not name. *)
IdentifyUnnamed(info, w) == IF IsOicq(info) THEN "oicq"
                            ELSE IF IsHttp(info, w) THEN "http"
                            ELSE IF IsFtp(info) THEN "ftp"
                            ELSE "dns"

(* The tests overlap: the first that succeeds decides. *)
Identify(info, w) == IF IsOicq(info) THEN "oicq"
                     ELSE IF IsHttp(info, w) THEN "http"
                     ELSE IF IsFtp(info) THEN "ftp"
                     ELSE NoProto

(* The direction identification leaves in net_info. *)
IdentifyDir(info, w) ==
  IF IsOicq(info) THEN Towards(info, {OicqPort})
  ELSE IF IsHttpPort(info) THEN Towards(info, {HttpPort})
  ELSE IF IsHttpWord(info, w) THEN IF w \in RequestWords THEN "request" ELSE "response"
  ELSE IF IsFtp(info) THEN Towards(info, FtpPorts)
  ELSE info.dir
=============================================================================
