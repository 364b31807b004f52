----------------------------- MODULE PacketPath -----------------------------
(***************************************************************************)
(* The way of a frame, once main is in its loop (MonStart):                *)
(* pcap_loop_data_handler of main.c, which has the headers read and the    *)
(* protocol identified (NetInfo), and dissect_net_layerapp_frame of        *)
(* dissect_engine/dissect_engine.c, which drives the library registered    *)
(* for the protocol (Registry) through init, data, s2j and fini.           *)
(*                                                                         *)
(* A library keeps its memory pool behind a global pointer of its own,     *)
(* which init sets and fini destroys without resetting it.  net_info lives *)
(* on the handler's stack and is not cleared: it holds what Stale allows.  *)
(***************************************************************************)
EXTENDS MonStart, NetInfo

CONSTANTS
  Frames,   (* the frames that can be captured               *)
  Stale,    (* what the stack may hold where net_info goes   *)
  MaxFrames (* how many frames are captured: bounds the model *)

ASSUME PathAssumption ==
  /\ MaxFrames \in Nat
  /\ Stale \subseteq NetInfos(Nat)
  /\ \A f \in Frames : /\ f.type \in {"ip", "other"}
                       /\ f.proto \in Transports \cup {"other"}
                       /\ f.sport \in Nat /\ f.dport \in Nat
                       /\ f.tags \in Nat /\ f.doff \in Nat /\ f.caplen \in Nat
                       /\ f.word \in Words

(***************************************************************************)
(* A library that creates a pool also destroys it, as the two of the       *)
(* repository do: the engine relies on it and does not check it.           *)
(***************************************************************************)
ASSUME InitFiniPaired ==
  \A l \in DOMAIN Exports, p \in Protos :
    <<p, "dissect_init">> \in Exports[l] <=> <<p, "dissect_fini">> \in Exports[l]

VARIABLES
  stage,   (* where the handler is; "idle" between two frames, "crashed"  *)
           (* when the process died of one                                *)
  seen,    (* how many frames were captured                               *)
  frame,   (* the frame in hand, or NULL                                  *)
  info,    (* net_info of that frame                                      *)
  proto,   (* proto_id of that frame                                      *)
  pool,    (* pool[p]: what the pool pointer of p's library points to     *)
  object,  (* whether proto_data points to an object of the pool          *)
  json,    (* whether json_str holds a string not yet freed               *)
  reports  (* the dissect results logged: frame number, protocol, way     *)

pathVars == <<stage, seen, frame, info, proto, pool, object, json, reports>>

-----------------------------------------------------------------------------
Has(s) == s \in registered[proto].flags

Payload == frame.caplen - Layer234Offset(frame)

PathInit ==
  /\ stage = "idle"
  /\ seen = 0
  /\ frame = NULL
  /\ info = NULL
  /\ proto = NoProto
  /\ pool = [p \in Protos |-> "null"]
  /\ object = FALSE
  /\ json = FALSE
  /\ reports = <<>>

(* The handler returns, and its stack is gone. *)
Return == stage' = "idle" /\ frame' = NULL /\ info' = NULL /\ proto' = NoProto /\ object' = FALSE

(* pcap_loop_data_handler up to its call of the engine: a frame that       *)
(* dissect_net_layer234 gives up on goes on like any other.                *)
Receive(f, stale) ==
  /\ main = "loop"
  /\ stage = "idle"
  /\ seen < MaxFrames
  /\ seen' = seen + 1
  /\ frame' = f
  /\ LET filled == Layer234Info(f, stale)
     IN  /\ proto' = Identify(filled, f.word)
         /\ info' = [filled EXCEPT !.dir = IdentifyDir(filled, f.word)]
  /\ stage' = "identified"
  /\ UNCHANGED <<pool, object, json, reports>>

(* proto_id <= 0, or no library in lib_info_map: the handler returns. *)
PassOver ==
  /\ stage = "identified"
  /\ proto = NoProto \/ (proto # NoProto /\ registered[proto] = NULL)
  /\ Return
  /\ UNCHANGED <<seen, pool, json, reports>>

Served == stage = "identified" /\ proto # NoProto /\ registered[proto] # NULL

(* proto_dissect_init: the pool and, in it, the object of the dissection,  *)
(* which a new block has room for.                                         *)
InitLib ==
  /\ Served
  /\ Has("dissect_init")
  /\ pool' = [pool EXCEPT ![proto] = "live"]
  /\ object' = TRUE
  /\ stage' = "data"
  /\ UNCHANGED <<seen, frame, info, proto, json, reports>>

(* Mutant: the pool that init returns is not tested. *)
InitLibUntested ==
  /\ Served
  /\ Has("dissect_init")
  /\ pool' = [pool EXCEPT ![proto] = "null"]
  /\ object' = TRUE
  /\ stage' = "data"
  /\ UNCHANGED <<seen, frame, info, proto, json, reports>>

(* malloc refuses the pool: the pointer is NULL and the frame is dropped.  *)
InitLibRefused ==
  /\ Served
  /\ Has("dissect_init")
  /\ pool' = [pool EXCEPT ![proto] = "null"]
  /\ Return
  /\ UNCHANGED <<seen, json, reports>>

NoInitLib ==
  /\ Served
  /\ ~Has("dissect_init")
  /\ stage' = "data"
  /\ UNCHANGED <<seen, frame, info, proto, pool, object, json, reports>>

(* Mutant: the dissectors do not look at the length first. *)
DataReturnsAnyLength == IF object THEN {0, -1} ELSE {-1}

(* oicq_dissect_data wants 11 bytes; http_dissect_data some, of its liking. *)
DataReturns == IF ~object \/ Payload <= 0 THEN {-1}
               ELSE CASE proto = "oicq" -> IF Payload >= 11 THEN {0} ELSE {-1}
                      [] OTHER          -> {0, -1}

(* Mutant: a failed dissection returns at once. *)
DissectDataBail ==
  /\ stage = "data"
  /\ stage' \in {IF ret = 0 THEN IF Has("s2j") THEN "s2j" ELSE "fini" ELSE "idle" :
                   ret \in IF Has("dissect_data") THEN DataReturns ELSE {-1}}
  /\ UNCHANGED <<seen, frame, info, proto, pool, object, json, reports>>

(* proto_dissect_data, and the branch on its result. *)
DissectData ==
  /\ stage = "data"
  /\ stage' \in {IF ret = 0 /\ Has("s2j") THEN "s2j" ELSE "fini" :
                   ret \in IF Has("dissect_data") THEN DataReturns ELSE {-1}}
  /\ UNCHANGED <<seen, frame, info, proto, pool, object, json, reports>>

(* Mutant: without a JSON string the handler returns at once. *)
S2jBail ==
  /\ stage = "s2j"
  /\ \/ json' = TRUE /\ stage' = "log"
     \/ json' = FALSE /\ stage' = "idle"
     \/ json' = FALSE /\ stage' = "crashed"
  /\ UNCHANGED <<seen, frame, info, proto, pool, object, reports>>

(* proto_s2j makes a JSON string, or has no memory for it, or dies of     *)
(* memory that was refused before (OicqDissect and HttpDissect say how).   *)
S2j ==
  /\ stage = "s2j"
  /\ \/ json' = TRUE /\ stage' = "log"
     \/ json' = FALSE /\ stage' = "fini"
     \/ json' = FALSE /\ stage' = "crashed"
  /\ UNCHANGED <<seen, frame, info, proto, pool, object, reports>>

(* Mutant: after a result the dissection starts over. *)
LogResultAgain ==
  /\ stage = "log"
  /\ reports' = Append(reports, [frame |-> seen, proto |-> proto, dir |-> info.dir])
  /\ json' = FALSE
  /\ stage' = "data"
  /\ UNCHANGED <<seen, frame, info, proto, pool, object>>

(* The dissect result is logged and freed. *)
LogResult ==
  /\ stage = "log"
  /\ reports' = Append(reports, [frame |-> seen, proto |-> proto, dir |-> info.dir])
  /\ json' = FALSE
  /\ stage' = "fini"
  /\ UNCHANGED <<seen, frame, info, proto, pool, object>>

(* proto_dissect_fini, whatever came before; the handler returns. *)
Fini ==
  /\ stage = "fini"
  /\ pool' = IF Has("dissect_fini") THEN [pool EXCEPT ![proto] = "freed"] ELSE pool
  /\ Return
  /\ UNCHANGED <<seen, json, reports>>

HandlerStep ==
  \/ PassOver \/ InitLib \/ NoInitLib \/ DissectData \/ S2j \/ LogResult \/ Fini

-----------------------------------------------------------------------------
vars == <<regVars, startVars, pathVars>>

Init == RegInit /\ StartInit /\ PathInit

Boot == StartUp /\ UNCHANGED pathVars

(* pcap_loop calls the handler with a frame, or, between two, returns.     *)
Arrival == /\ \E f \in Frames, stale \in Stale : Receive(f, stale)
           /\ UNCHANGED <<regVars, startVars>>

CaptureEnds == stage = "idle" /\ LoopEnds /\ UNCHANGED <<regVars, pathVars>>

Handle ==
  /\ UNCHANGED startVars
  /\ \/ HandlerStep /\ UNCHANGED regVars
     \/ /\ InitLibRefused
        /\ Refuse
        /\ UNCHANGED <<boot, config, entry, symbol, found, dlError, registered>>

Next == Boot \/ Arrival \/ CaptureEnds \/ Handle

(* The handler is sequential code and each library function returns, or    *)
(* the process dies of it: it keeps going.  Nothing makes another frame    *)
(* arrive.                                                                 *)
Spec == Init /\ [][Next]_vars /\ WF_vars(Boot) /\ WF_vars(Handle)

-----------------------------------------------------------------------------
Stages == {"idle", "identified", "data", "s2j", "log", "fini", "crashed"}

(* The shape of the variables: the protocol is one proto_map knows, there  *)
(* are no more reports than frames.                                        *)
PathTypeOK ==
  /\ stage \in Stages
  /\ seen \in 0..MaxFrames
  /\ frame \in Frames \cup {NULL}
  /\ info \in NetInfos(Nat) \cup {NULL}
  /\ proto \in Protos \cup {NoProto}
  /\ pool \in [Protos -> {"null", "live", "freed"}]
  /\ object \in BOOLEAN
  /\ json \in BOOLEAN
  /\ reports \in Seq([frame : 1..seen, proto : Protos, dir : Directions])

(* Between two frames nothing is held: whatever became of the last frame,  *)
(* the pool its library made has been destroyed, before init makes the     *)
(* next one and drops the pointer to it, and the JSON string is freed.     *)
NothingHeldBetweenFrames ==
  stage \in {"idle", "identified"} =>
    /\ \A p \in Protos : pool[p] # "live"
    /\ ~object /\ ~json

(* The pool is live wherever it is used: while data and s2j work on the    *)
(* object, and when fini destroys it, which therefore never destroys a     *)
(* pool twice, through the pointer an earlier frame left behind, nor       *)
(* through NULL.                                                           *)
PoolLiveInUse ==
  stage \in {"data", "s2j", "log", "fini"} =>
    /\ object => pool[proto] = "live"
    /\ Has("dissect_fini") => pool[proto] = "live"

(* Of a frame with a UDP or TCP header, what the dissector is told is this *)
(* frame's: nothing the stack held before shows in the ports, in the       *)
(* transport, in the direction or in the protocol they lead to.            *)
InfoFresh ==
  stage # "idle" /\ HasTransport(frame) =>
    /\ info.trans = frame.proto
    /\ info.sport = frame.sport /\ info.dport = frame.dport
    /\ proto # NoProto => \A s \in Stale :
         /\ proto = Identify(Layer234Info(frame, s), frame.word)
         /\ info.dir = IdentifyDir(Layer234Info(frame, s), frame.word)

(* An IP frame whose payload was not captured is never reported, although  *)
(* identification goes by bytes it does not have.                          *)
EmptyPayloadUnreported == json /\ IsIp(frame) => Payload > 0

(* A pool once made is given back: dissect_net_layerapp_frame comes to     *)
(* fini by every way that data, s2j and the log take, unless the process   *)
(* dies.                                                                   *)
PoolGivenBack == \A p \in Protos : pool[p] = "live" ~> pool[p] = "freed" \/ stage = "crashed"

(* The monitor keeps the promise of FrameService. *)
Service == INSTANCE FrameService
             WITH inHand  <- (stage # "idle"),
                  taken   <- seen,
                  numbers <- [n \in DOMAIN reports |-> reports[n].frame]

KeepsService == Service!ServiceSpec

(* A TCP payload that begins with one of the methods http_dissect.h lists  *)
(* is identified as HTTP on any port.                                      *)
MethodsIdentified ==
  stage = "identified" /\ HasTransport(frame) /\ frame.proto = "tcp" /\ frame.word \in Methods
    => proto = "http"
=============================================================================
