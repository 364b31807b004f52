----------------------------- MODULE PathProofs -----------------------------
(***************************************************************************)
(* Proofs about PacketPath for any frames, any configuration and           *)
(* libraries, any leftovers on the stack and any number of refusals.       *)
(***************************************************************************)
EXTENDS PacketPath, RegistryProofs, SequenceTheorems

-----------------------------------------------------------------------------
(* The headers: the operators of NetInfo, for frames as PathAssumption has *)
(* them.                                                                   *)
LEMMA OffsetTyped ==
  ASSUME PathAssumption, NEW f \in Frames
  PROVE  Layer234Offset(f) \in Int
<1>1. f.tags \in Nat /\ f.doff \in Nat
  BY DEF PathAssumption
<1>2. TransportHeader(f) \in Nat
  <2>1. CASE f.proto = "udp"
    <3>1. TransportHeader(f) = UdpHeader
      BY <2>1 DEF TransportHeader
    <3> QED
      BY <3>1 DEF UdpHeader
  <2>2. CASE f.proto = "tcp"
    <3>1. TransportHeader(f) = 4 * f.doff
      BY <2>2 DEF TransportHeader
    <3> QED
      BY <1>1, <3>1
  <2>3. CASE f.proto \notin {"udp", "tcp"}
    <3>1. TransportHeader(f) = 0
      BY <2>3 DEF TransportHeader
    <3> QED
      BY <3>1
  <2> QED
    BY <2>1, <2>2, <2>3
<1> QED
  BY <1>1, <1>2 DEF Layer234Offset, EthHeader, VlanTag, IpHeader

LEMMA InfoTyped ==
  ASSUME NEW f, f.type \in {"ip", "other"}, f.sport \in Nat, f.dport \in Nat,
         f.proto \in Transports \cup {"other"}, NEW s \in NetInfos(Nat)
  PROVE  Layer234Info(f, s) \in NetInfos(Nat)
BY DEF Layer234Info, NetInfos, IsIp

LEMMA IdentifyTyped ==
  ASSUME NEW i \in NetInfos(Nat), NEW w
  PROVE  /\ Identify(i, w) \in Protos \cup {NoProto}
         /\ IdentifyDir(i, w) \in Directions
         /\ [i EXCEPT !.dir = IdentifyDir(i, w)] \in NetInfos(Nat)
<1>1. Identify(i, w) \in Protos \cup {NoProto}
  BY DEF Identify, Protos, NoProto
<1>2. IdentifyDir(i, w) \in Directions
  <2>1. i.dir \in Directions
    BY DEF NetInfos
  <2>2. \A P : Towards(i, P) \in Directions
    BY DEF Towards, Directions
  <2>3. "request" \in Directions /\ "response" \in Directions
    BY DEF Directions
  <2> QED
    BY <2>1, <2>2, <2>3 DEF IdentifyDir
<1>3. [i EXCEPT !.dir = IdentifyDir(i, w)] \in NetInfos(Nat)
  BY <1>2 DEF NetInfos
<1> QED
  BY <1>1, <1>2, <1>3

(* What is identified depends on the ports, the transport and the word     *)
(* alone, and so does the direction of what is identified.                 *)
LEMMA IdentifyDetermined ==
  ASSUME NEW i, NEW j, NEW w, i.sport = j.sport, i.dport = j.dport, i.trans = j.trans
  PROVE  /\ Identify(i, w) = Identify(j, w)
         /\ Identify(i, w) # NoProto => IdentifyDir(i, w) = IdentifyDir(j, w)
<1>1. /\ IsOicq(i) <=> IsOicq(j)
      /\ IsHttpPort(i) <=> IsHttpPort(j)
      /\ IsHttpWord(i, w) <=> IsHttpWord(j, w)
      /\ IsFtp(i) <=> IsFtp(j)
  BY DEF IsOicq, IsHttpPort, IsHttpWord, IsFtp, Uses
<1>2. \A P : Towards(i, P) = Towards(j, P)
  BY DEF Towards
<1>3. Identify(i, w) = Identify(j, w)
  BY <1>1 DEF Identify, IsHttp
<1>4. ASSUME Identify(i, w) # NoProto
      PROVE  IsOicq(i) \/ IsHttpPort(i) \/ IsHttpWord(i, w) \/ IsFtp(i)
  BY <1>4 DEF Identify, IsHttp
<1>5. ASSUME Identify(i, w) # NoProto
      PROVE  IdentifyDir(i, w) = IdentifyDir(j, w)
  BY <1>1, <1>2, <1>4, <1>5 DEF IdentifyDir
<1> QED
  BY <1>3, <1>5

-----------------------------------------------------------------------------
(* A library that an entry names for a protocol has both init and fini, or *)
(* neither.                                                                *)
LEMMA Paired ==
  ASSUME InitFiniPaired, RegisteredSound, NEW p \in Protos, registered[p] # NULL
  PROVE  "dissect_init" \in registered[p].flags <=> "dissect_fini" \in registered[p].flags
<1> DEFINE e == registered[p].entry
<1>1. /\ config.entries[e].func = p
      /\ registered[p].flags = SymbolsOf(e)
      /\ "s2j" \in registered[p].flags
  BY DEF RegisteredSound
<1> HIDE DEF e
<1>2. config.entries[e].lib \in DOMAIN Exports
  BY <1>1 DEF SymbolsOf
<1>3. <<p, "dissect_init">> \in Exports[config.entries[e].lib]
        <=> <<p, "dissect_fini">> \in Exports[config.entries[e].lib]
  BY <1>2 DEF InitFiniPaired
<1>4. "dissect_init" \in Symbols /\ "dissect_fini" \in Symbols
  <2>1. FuncInfoList[2] \in Symbols /\ FuncInfoList[4] \in Symbols
    BY SymbolTable
  <2> QED
    BY <2>1 DEF FuncInfoList
<1> QED
  BY <1>1, <1>2, <1>3, <1>4 DEF SymbolsOf

(* A refusal by malloc after the engine's start changes nothing there. *)
LEMMA RefusalKeepsRegistry ==
  ASSUME RegistryAssumption, RegInv, Refuse,
         UNCHANGED <<boot, config, entry, symbol, found, dlError, registered>>
  PROVE  RegInv'
<1>1. /\ boot' = boot /\ config' = config /\ entry' = entry /\ symbol' = symbol /\ found' = found
      /\ dlError' = dlError /\ registered' = registered
  OBVIOUS
<1>2. refusals' \in 0..MaxRefusals /\ refusals' > 0
  BY RefuseCounts DEF RegInv
<1>3. RegTypeOK' /\ config' \in Configs
  BY <1>1, <1>2 DEF RegTypeOK, RegInv
<1>4. RegisteredSound'
  BY <1>1, RegisteredStays DEF RegInv
<1>5. CrashExplained'
  BY <1>2 DEF CrashExplained
<1>6. LookUpSound'
  BY <1>1 DEF LookUpSound, RegInv, Current, FoundBefore, SymbolsOf
<1>7. Passed'
  <2>1. refusals' # 0
    BY <1>2
  <2> QED
    BY <1>1, <2>1 DEF Passed, RegInv
<1> QED
  BY <1>3, <1>4, <1>5, <1>6, <1>7 DEF RegInv

-----------------------------------------------------------------------------
(* Where the library is at work on the frame, or died of it. *)
AtWork == {"data", "s2j", "log", "fini", "crashed"}

(* Where the frame has not been reported yet. *)
BeforeReport == {"identified", "data", "s2j", "log"}

(* The frame in hand is one of those captured by a main in its loop. *)
FrameInHand ==
  stage # "idle" =>
    main = "loop" /\ frame \in Frames /\ info \in NetInfos(Nat) /\ seen > 0

(* A pool is live only while a library that makes one is at work, and it   *)
(* is that library's.                                                      *)
PoolAtWork ==
  /\ stage \notin AtWork => ~object /\ \A p \in Protos : pool[p] # "live"
  /\ stage \in AtWork =>
       /\ proto \in Protos /\ registered[proto] # NULL
       /\ object <=> Has("dissect_init")
       /\ Has("dissect_init") <=> pool[proto] = "live"
       /\ \A p \in Protos \ {proto} : pool[p] # "live"

(* A string exists only between s2j and the log, and only of some payload. *)
JsonOfPayload ==
  /\ json => stage = "log"
  /\ stage \in {"s2j", "log"} => Payload > 0

(* Reports are of the frames up to the one in hand, which itself has none  *)
(* before fini.                                                            *)
ReportsOfSeen ==
  \A n \in DOMAIN reports :
    /\ reports[n].frame \in Nat /\ reports[n].frame <= seen
    /\ stage \in BeforeReport => reports[n].frame < seen

(* The part of the inductive invariant that is about the handler. *)
PathInv == PathTypeOK /\ FrameInHand /\ InfoFresh /\ PoolAtWork /\ JsonOfPayload /\ ReportsOfSeen

LEMMA PathInvInit ==
  ASSUME PathAssumption, PathInit
  PROVE  PathInv
<1>1. /\ stage = "idle" /\ seen = 0 /\ frame = NULL /\ info = NULL /\ proto = NoProto
      /\ pool = [p \in Protos |-> "null"] /\ object = FALSE /\ json = FALSE /\ reports = <<>>
  BY DEF PathInit
<1>2. PathTypeOK
  <2>1. reports \in Seq([frame : 1..seen, proto : Protos, dir : Directions])
    BY <1>1, EmptySeq
  <2>2. pool \in [Protos -> {"null", "live", "freed"}]
    BY <1>1
  <2>3. seen \in 0..MaxFrames /\ stage \in Stages
    BY <1>1 DEF Stages, PathAssumption
  <2>4. object \in BOOLEAN /\ json \in BOOLEAN
    BY <1>1, Zenon
  <2> QED
    BY <1>1, <2>1, <2>2, <2>3, <2>4 DEF PathTypeOK
<1>3. FrameInHand /\ InfoFresh /\ JsonOfPayload /\ ReportsOfSeen
  BY <1>1 DEF FrameInHand, InfoFresh, JsonOfPayload, ReportsOfSeen
<1>4. PoolAtWork
  BY <1>1 DEF PoolAtWork, AtWork
<1> QED
  BY <1>2, <1>3, <1>4 DEF PathInv

(* Nothing of it is touched by main and the engine's start. *)
LEMMA PathInvStays ==
  ASSUME PathInv, UNCHANGED pathVars, UNCHANGED registered, UNCHANGED main
  PROVE  PathInv'
<1>1. /\ stage' = stage /\ seen' = seen /\ frame' = frame /\ info' = info /\ proto' = proto
      /\ pool' = pool /\ object' = object /\ json' = json /\ reports' = reports
      /\ registered' = registered
  BY DEF pathVars
<1>2. PathTypeOK' /\ InfoFresh' /\ JsonOfPayload' /\ ReportsOfSeen'
  BY <1>1 DEF PathInv, PathTypeOK, InfoFresh, JsonOfPayload, ReportsOfSeen, Payload
<1>3. FrameInHand'
  BY <1>1 DEF PathInv, FrameInHand
<1>4. PoolAtWork'
  BY <1>1 DEF PathInv, PoolAtWork, Has
<1> QED
  BY <1>2, <1>3, <1>4 DEF PathInv

LEMMA IdleStays ==
  ASSUME PathInv, UNCHANGED pathVars, stage = "idle"
  PROVE  PathInv'
<1>1. /\ stage' = "idle" /\ seen' = seen /\ frame' = frame /\ info' = info /\ proto' = proto
      /\ pool' = pool /\ object' = object /\ json' = json /\ reports' = reports
  BY DEF pathVars
<1>2. PathTypeOK' /\ ReportsOfSeen'
  BY <1>1 DEF PathInv, PathTypeOK, ReportsOfSeen, BeforeReport
<1>3. FrameInHand' /\ InfoFresh' /\ JsonOfPayload'
  BY <1>1 DEF PathInv, FrameInHand, InfoFresh, JsonOfPayload
<1>4. PoolAtWork'
  BY <1>1 DEF PathInv, PoolAtWork, AtWork
<1> QED
  BY <1>2, <1>3, <1>4 DEF PathInv

LEMMA ReceiveKeeps ==
  ASSUME PathAssumption, PathInv, NEW f \in Frames, NEW stale \in Stale, Receive(f, stale),
         UNCHANGED <<regVars, startVars>>
  PROVE  PathInv'
<1> DEFINE filled == Layer234Info(f, stale)
<1>1. /\ main = "loop" /\ main' = main /\ stage = "idle" /\ stage' = "identified"
      /\ seen < MaxFrames /\ seen' = seen + 1 /\ frame' = f
      /\ proto' = Identify(filled, f.word)
      /\ info' = [filled EXCEPT !.dir = IdentifyDir(filled, f.word)]
      /\ pool' = pool /\ object' = object /\ json' = json /\ reports' = reports
      /\ registered' = registered
  BY DEF Receive, regVars, startVars
<1>2. /\ stale \in NetInfos(Nat) /\ \A s \in Stale : s \in NetInfos(Nat)
      /\ f.type \in {"ip", "other"} /\ f.sport \in Nat /\ f.dport \in Nat
      /\ f.proto \in Transports \cup {"other"}
  BY DEF PathAssumption
<1>3. filled \in NetInfos(Nat)
  BY <1>2, InfoTyped
<1>4. /\ proto' \in Protos \cup {NoProto} /\ info' \in NetInfos(Nat)
      /\ IdentifyDir(filled, f.word) \in Directions
  <2> HIDE DEF filled
  <2> QED
    BY <1>1, <1>3, IdentifyTyped
<1>5. seen \in 0..MaxFrames /\ MaxFrames \in Nat /\ seen' \in 0..MaxFrames /\ seen \in Nat
  BY <1>1 DEF PathAssumption, PathInv, PathTypeOK
<1>6. PathTypeOK'
  <2>1. reports \in Seq([frame : 1..seen, proto : Protos, dir : Directions])
    BY DEF PathInv, PathTypeOK
  <2>2. [frame : 1..seen, proto : Protos, dir : Directions]
          \subseteq [frame : 1..(seen + 1), proto : Protos, dir : Directions]
    <3>1. 1..seen \subseteq 1..(seen + 1)
      BY <1>5
    <3> QED
      BY <3>1
  <2>3. reports' \in Seq([frame : 1..seen', proto : Protos, dir : Directions])
    <3>1. reports \in Seq([frame : 1..(seen + 1), proto : Protos, dir : Directions])
      BY <2>1, <2>2, SeqMonotonic, Zenon
    <3> QED
      BY <1>1, <3>1
  <2>4. stage' \in Stages /\ frame' \in Frames \cup {NULL} /\ info' \in NetInfos(Nat) \cup {NULL}
    BY <1>1, <1>4 DEF Stages
  <2> HIDE DEF filled
  <2> QED
    BY <1>1, <1>4, <1>5, <2>3, <2>4 DEF PathTypeOK, PathInv
<1>7. FrameInHand'
  <2> HIDE DEF filled
  <2> QED
    BY <1>1, <1>4, <1>5 DEF FrameInHand
<1>8. InfoFresh'
  <2> SUFFICES ASSUME HasTransport(f)
               PROVE  /\ info'.trans = f.proto /\ info'.sport = f.sport /\ info'.dport = f.dport
                      /\ proto' # NoProto => \A s \in Stale :
                           /\ proto' = Identify(Layer234Info(f, s), f.word)
                           /\ info'.dir = IdentifyDir(Layer234Info(f, s), f.word)
    BY <1>1 DEF InfoFresh
  <2>1. ASSUME NEW s \in NetInfos(Nat)
        PROVE  LET i == Layer234Info(f, s)
               IN  i.trans = f.proto /\ i.sport = f.sport /\ i.dport = f.dport
    BY <1>2 DEF Layer234Info, NetInfos, HasTransport, IsIp
  <2>2. /\ info'.trans = filled.trans /\ info'.sport = filled.sport /\ info'.dport = filled.dport
        /\ info'.dir = IdentifyDir(filled, f.word)
    <3> HIDE DEF filled
    <3> QED
      BY <1>1, <1>3 DEF NetInfos
  <2>3. filled.trans = f.proto /\ filled.sport = f.sport /\ filled.dport = f.dport
    BY <1>2, <2>1
  <2>4. ASSUME NEW s \in Stale
        PROVE  /\ Identify(filled, f.word) = Identify(Layer234Info(f, s), f.word)
               /\ Identify(filled, f.word) # NoProto =>
                    IdentifyDir(filled, f.word) = IdentifyDir(Layer234Info(f, s), f.word)
    <3> DEFINE i == Layer234Info(f, s)
    <3>1. filled.sport = i.sport /\ filled.dport = i.dport /\ filled.trans = i.trans
      BY <1>2, <2>1, <2>3
    <3> HIDE DEF filled, i
    <3>2. /\ Identify(filled, f.word) = Identify(i, f.word)
          /\ Identify(filled, f.word) # NoProto => IdentifyDir(filled, f.word) = IdentifyDir(i, f.word)
      BY <3>1, IdentifyDetermined
    <3> QED
      BY <3>2 DEF i
  <2> HIDE DEF filled
  <2> QED
    BY <1>1, <2>2, <2>3, <2>4
<1>9. PoolAtWork' /\ JsonOfPayload'
  <2> HIDE DEF filled
  <2> QED
    BY <1>1 DEF PoolAtWork, JsonOfPayload, AtWork, PathInv
<1>10. ReportsOfSeen'
  <2> HIDE DEF filled
  <2> QED
    BY <1>1, <1>5 DEF ReportsOfSeen, PathInv
<1> QED
  BY <1>6, <1>7, <1>8, <1>9, <1>10 DEF PathInv

(* The handler returns, the pool destroyed or never made. *)
LEMMA ReturnKeeps ==
  ASSUME PathInv, Return, UNCHANGED <<seen, json, reports>>, ~json,
         pool' \in [Protos -> {"null", "live", "freed"}],
         \A p \in Protos : pool'[p] # "live"
  PROVE  PathInv'
<1>1. /\ stage' = "idle" /\ frame' = NULL /\ info' = NULL /\ proto' = NoProto /\ object' = FALSE
      /\ seen' = seen /\ json' = json /\ reports' = reports
  BY DEF Return
<1>2. PathTypeOK'
  BY <1>1 DEF PathTypeOK, PathInv, Stages
<1>3. FrameInHand' /\ InfoFresh' /\ PoolAtWork' /\ JsonOfPayload'
  BY <1>1 DEF FrameInHand, InfoFresh, PoolAtWork, AtWork, JsonOfPayload
<1>4. ReportsOfSeen'
  BY <1>1 DEF ReportsOfSeen, PathInv, BeforeReport
<1> QED
  BY <1>2, <1>3, <1>4 DEF PathInv

(* A step from one place of the handler to one where the library is at     *)
(* work leaves the frame, and what is known of it, alone.                  *)
LEMMA AtWorkKeeps ==
  ASSUME PathInv, stage # "idle", stage' \in AtWork,
         UNCHANGED <<seen, frame, info, proto>>, UNCHANGED <<regVars, startVars>>
  PROVE  /\ FrameInHand' /\ InfoFresh'
         /\ stage' \in Stages /\ seen' \in 0..MaxFrames /\ frame' \in Frames \cup {NULL}
         /\ info' \in NetInfos(Nat) \cup {NULL} /\ proto' \in Protos \cup {NoProto}
         /\ registered' = registered
<1>1. /\ seen' = seen /\ frame' = frame /\ info' = info /\ proto' = proto
      /\ main' = main /\ registered' = registered /\ stage' # "idle" /\ stage' \in Stages
  BY DEF regVars, startVars, AtWork, Stages
<1> QED
  BY <1>1 DEF PathInv, PathTypeOK, FrameInHand, InfoFresh

LEMMA PassOverKeeps ==
  ASSUME PathInv, PassOver
  PROVE  PathInv'
<1>1. /\ stage = "identified" /\ Return /\ pool' = pool /\ UNCHANGED <<seen, json, reports>>
  BY DEF PassOver
<1>2. /\ ~json /\ pool \in [Protos -> {"null", "live", "freed"}]
      /\ \A p \in Protos : pool[p] # "live"
  BY <1>1 DEF PathInv, PathTypeOK, JsonOfPayload, PoolAtWork, AtWork
<1> QED
  BY <1>1, <1>2, ReturnKeeps

LEMMA RefusedKeeps ==
  ASSUME PathInv, InitLibRefused
  PROVE  PathInv'
<1>1. /\ stage = "identified" /\ Return /\ pool' = [pool EXCEPT ![proto] = "null"]
      /\ UNCHANGED <<seen, json, reports>>
  BY DEF InitLibRefused, Served
<1>2. /\ ~json /\ pool \in [Protos -> {"null", "live", "freed"}]
      /\ \A p \in Protos : pool[p] # "live"
  BY <1>1 DEF PathInv, PathTypeOK, JsonOfPayload, PoolAtWork, AtWork
<1>3. /\ pool' \in [Protos -> {"null", "live", "freed"}]
      /\ \A p \in Protos : pool'[p] # "live"
  BY <1>1, <1>2
<1> QED
  BY <1>1, <1>2, <1>3, ReturnKeeps

LEMMA InitKeeps ==
  ASSUME PathInv, InitLib \/ NoInitLib, UNCHANGED <<regVars, startVars>>
  PROVE  PathInv'
<1>1. /\ stage = "identified" /\ stage' = "data" /\ proto # NoProto /\ registered[proto] # NULL
      /\ UNCHANGED <<seen, frame, info, proto>> /\ json' = json /\ reports' = reports
  BY DEF InitLib, NoInitLib, Served
<1>2. /\ FrameInHand' /\ InfoFresh'
      /\ stage' \in Stages /\ seen' \in 0..MaxFrames /\ frame' \in Frames \cup {NULL}
      /\ info' \in NetInfos(Nat) \cup {NULL} /\ proto' \in Protos \cup {NoProto}
      /\ registered' = registered
  <2>1. stage # "idle" /\ stage' \in AtWork
    BY <1>1 DEF AtWork
  <2> QED
    BY <1>1, <2>1, AtWorkKeeps
<1>3. /\ proto \in Protos /\ ~json /\ ~object /\ pool \in [Protos -> {"null", "live", "freed"}]
      /\ \A p \in Protos : pool[p] # "live"
  BY <1>1 DEF PathInv, PathTypeOK, JsonOfPayload, PoolAtWork, AtWork
<1>4. Has("dissect_init")' <=> Has("dissect_init")
  BY <1>1, <1>2 DEF Has
<1>5. /\ pool' \in [Protos -> {"null", "live", "freed"}] /\ object' \in BOOLEAN
      /\ object' <=> Has("dissect_init")
      /\ Has("dissect_init") <=> pool'[proto] = "live"
      /\ \A p \in Protos \ {proto} : pool'[p] # "live"
  <2>1. CASE InitLib
    <3>1. Has("dissect_init") /\ pool' = [pool EXCEPT ![proto] = "live"] /\ object' = TRUE
      BY <2>1 DEF InitLib
    <3>2. /\ pool' \in [Protos -> {"null", "live", "freed"}] /\ pool'[proto] = "live"
          /\ \A p \in Protos \ {proto} : pool'[p] = pool[p]
      BY <1>3, <3>1
    <3>3. object' \in BOOLEAN /\ (object' <=> Has("dissect_init"))
      BY <3>1, Zenon
    <3> QED
      BY <1>3, <3>1, <3>2, <3>3
  <2>2. CASE NoInitLib
    <3>1. ~Has("dissect_init") /\ pool' = pool /\ object' = object
      BY <2>2 DEF NoInitLib
    <3>2. object \in BOOLEAN
      BY DEF PathInv, PathTypeOK
    <3>3. object' \in BOOLEAN /\ (object' <=> Has("dissect_init"))
      BY <1>3, <3>1, <3>2, Zenon
    <3> QED
      BY <1>3, <3>1, <3>3
  <2> QED
    BY <2>1, <2>2
<1>6. PathTypeOK'
  BY <1>1, <1>2, <1>5 DEF PathTypeOK, PathInv
<1>7. PoolAtWork'
  BY <1>1, <1>2, <1>3, <1>4, <1>5 DEF PoolAtWork, AtWork
<1>8. JsonOfPayload' /\ ReportsOfSeen'
  BY <1>1, <1>3 DEF JsonOfPayload, ReportsOfSeen, PathInv, BeforeReport
<1> QED
  BY <1>2, <1>6, <1>7, <1>8 DEF PathInv

(* A step of the library leaves its pool alone, too. *)
LEMMA LibraryKeeps ==
  ASSUME PathInv, stage \in AtWork, stage' \in AtWork, registered' = registered,
         UNCHANGED <<proto, pool, object>>
  PROVE  PoolAtWork'
<1>1. proto' = proto /\ pool' = pool /\ object' = object /\ registered' = registered
  OBVIOUS
<1> QED
  BY <1>1 DEF PathInv, PoolAtWork, Has

LEMMA DataKeeps ==
  ASSUME PathAssumption, PathInv, DissectData, UNCHANGED <<regVars, startVars>>
  PROVE  PathInv'
<1>1. /\ stage = "data" /\ stage' \in {"s2j", "fini"}
      /\ UNCHANGED <<seen, frame, info, proto, pool, object, json, reports>>
  BY DEF DissectData
<1>2. stage \in AtWork /\ stage' \in AtWork /\ stage # "idle"
  BY <1>1 DEF AtWork
<1>3. /\ FrameInHand' /\ InfoFresh'
      /\ stage' \in Stages /\ seen' \in 0..MaxFrames /\ frame' \in Frames \cup {NULL}
      /\ info' \in NetInfos(Nat) \cup {NULL} /\ proto' \in Protos \cup {NoProto}
      /\ registered' = registered
  BY <1>1, <1>2, AtWorkKeeps
<1>4. PoolAtWork'
  BY <1>1, <1>2, <1>3, LibraryKeeps
<1>5. PathTypeOK'
  BY <1>1, <1>3 DEF PathTypeOK, PathInv
<1>6. ASSUME stage' = "s2j"
      PROVE  Payload > 0
  <2>1. \E ret \in DataReturns : ret = 0
    BY <1>6 DEF DissectData
  <2>2. ~(Payload <= 0)
    BY <2>1 DEF DataReturns
  <2>3. frame \in Frames
    BY <1>2 DEF PathInv, FrameInHand
  <2>4. frame.caplen \in Nat /\ Layer234Offset(frame) \in Int
    BY <2>3, OffsetTyped DEF PathAssumption
  <2> QED
    BY <2>2, <2>4 DEF Payload
<1>7. JsonOfPayload'
  BY <1>1, <1>6 DEF JsonOfPayload, PathInv, Payload
<1>8. ReportsOfSeen'
  BY <1>1 DEF ReportsOfSeen, PathInv, BeforeReport
<1> QED
  BY <1>3, <1>4, <1>5, <1>7, <1>8 DEF PathInv

LEMMA S2jKeeps ==
  ASSUME PathInv, S2j, UNCHANGED <<regVars, startVars>>
  PROVE  PathInv'
<1>1. /\ stage = "s2j"
      /\ \/ json' = TRUE /\ stage' = "log"
         \/ json' = FALSE /\ stage' \in {"fini", "crashed"}
      /\ UNCHANGED <<seen, frame, info, proto, pool, object, reports>>
  BY DEF S2j
<1>2. stage \in AtWork /\ stage' \in AtWork /\ stage # "idle"
  BY <1>1 DEF AtWork
<1>3. /\ FrameInHand' /\ InfoFresh'
      /\ stage' \in Stages /\ seen' \in 0..MaxFrames /\ frame' \in Frames \cup {NULL}
      /\ info' \in NetInfos(Nat) \cup {NULL} /\ proto' \in Protos \cup {NoProto}
      /\ registered' = registered
  BY <1>1, <1>2, AtWorkKeeps
<1>4. PoolAtWork'
  BY <1>1, <1>2, <1>3, LibraryKeeps
<1>5. PathTypeOK'
  BY <1>1, <1>3 DEF PathTypeOK, PathInv
<1>6. JsonOfPayload'
  BY <1>1 DEF JsonOfPayload, PathInv, Payload
<1>7. ReportsOfSeen'
  BY <1>1 DEF ReportsOfSeen, PathInv, BeforeReport
<1> QED
  BY <1>3, <1>4, <1>5, <1>6, <1>7 DEF PathInv

(* The report that LogResult adds. *)
LEMMA ReportAdded ==
  ASSUME PathAssumption, PathInv, LogResult
  PROVE  /\ reports' \in Seq([frame : 1..seen, proto : Protos, dir : Directions])
         /\ reports' = Append(reports, [frame |-> seen, proto |-> proto, dir |-> info.dir])
         /\ seen \in 1..MaxFrames
         /\ \A n \in DOMAIN reports : reports[n].frame < seen
<1> DEFINE r == [frame |-> seen, proto |-> proto, dir |-> info.dir]
           Rs == [frame : 1..seen, proto : Protos, dir : Directions]
<1>1. stage = "log" /\ reports' = Append(reports, r)
  BY DEF LogResult
<1>2. proto \in Protos /\ info \in NetInfos(Nat) /\ reports \in Seq(Rs)
  BY <1>1 DEF PathInv, PathTypeOK, FrameInHand, PoolAtWork, AtWork
<1>3. info.dir \in Directions
  BY <1>2 DEF NetInfos
<1>4. seen \in 1..MaxFrames
  BY <1>1 DEF PathInv, PathTypeOK, FrameInHand, PathAssumption
<1>5. r \in Rs
  BY <1>2, <1>3, <1>4
<1>6. \A n \in DOMAIN reports : reports[n].frame < seen
  BY <1>1 DEF PathInv, ReportsOfSeen, BeforeReport
<1> HIDE DEF r, Rs
<1>7. Append(reports, r) \in Seq(Rs)
  BY <1>2, <1>5
<1> QED
  BY <1>1, <1>4, <1>6, <1>7 DEF r, Rs

LEMMA LogKeeps ==
  ASSUME PathAssumption, PathInv, LogResult, UNCHANGED <<regVars, startVars>>
  PROVE  PathInv'
<1>1. /\ stage = "log" /\ stage' = "fini" /\ json' = FALSE
      /\ UNCHANGED <<seen, frame, info, proto, pool, object>>
  BY DEF LogResult
<1>2. stage \in AtWork /\ stage' \in AtWork /\ stage # "idle"
  BY <1>1 DEF AtWork
<1>3. /\ FrameInHand' /\ InfoFresh'
      /\ stage' \in Stages /\ seen' \in 0..MaxFrames /\ frame' \in Frames \cup {NULL}
      /\ info' \in NetInfos(Nat) \cup {NULL} /\ proto' \in Protos \cup {NoProto}
      /\ registered' = registered
  BY <1>1, <1>2, AtWorkKeeps
<1>4. PoolAtWork'
  BY <1>1, <1>2, <1>3, LibraryKeeps
<1>5. PathTypeOK'
  <2>1. reports' \in Seq([frame : 1..seen', proto : Protos, dir : Directions])
    <3>1. reports' \in Seq([frame : 1..seen, proto : Protos, dir : Directions])
      BY ReportAdded
    <3>2. seen' = seen
      BY <1>1
    <3> QED
      BY <3>1, <3>2
  <2>2. json' \in BOOLEAN
    BY <1>1, Zenon
  <2> QED
    BY <1>1, <1>3, <2>1, <2>2 DEF PathTypeOK, PathInv
<1>6. JsonOfPayload'
  BY <1>1 DEF JsonOfPayload
<1>7. ReportsOfSeen'
  <2> SUFFICES ASSUME NEW n \in DOMAIN reports'
               PROVE  reports'[n].frame \in Nat /\ reports'[n].frame <= seen
    BY <1>1 DEF ReportsOfSeen, BeforeReport
  <2>1. /\ reports' \in Seq([frame : 1..seen, proto : Protos, dir : Directions])
        /\ seen \in 1..MaxFrames
    BY ReportAdded
  <2>2. DOMAIN reports' = 1..Len(reports')
    BY <2>1, LenProperties
  <2>3. reports'[n] \in [frame : 1..seen, proto : Protos, dir : Directions]
    BY <2>1, <2>2, ElementOfSeq
  <2>4. reports'[n].frame \in 1..seen
    BY <2>3
  <2> QED
    BY <2>1, <2>4
<1> QED
  BY <1>3, <1>4, <1>5, <1>6, <1>7 DEF PathInv

LEMMA FiniKeeps ==
  ASSUME InitFiniPaired, RegInv, PathInv, Fini
  PROVE  PathInv'
<1>1. /\ stage = "fini" /\ Return /\ UNCHANGED <<seen, json, reports>>
      /\ pool' = IF Has("dissect_fini") THEN [pool EXCEPT ![proto] = "freed"] ELSE pool
  BY DEF Fini
<1>2. /\ ~json /\ pool \in [Protos -> {"null", "live", "freed"}]
      /\ proto \in Protos /\ registered[proto] # NULL
      /\ object <=> Has("dissect_init")
      /\ \A p \in Protos \ {proto} : pool[p] # "live"
  BY <1>1 DEF PathInv, PathTypeOK, JsonOfPayload, PoolAtWork, AtWork
<1>3. Has("dissect_init") <=> Has("dissect_fini")
  BY <1>2, Paired DEF RegInv, Has
<1>4. ~Has("dissect_fini") => pool[proto] # "live"
  BY <1>1, <1>3 DEF PathInv, PoolAtWork, AtWork
<1>5. /\ pool' \in [Protos -> {"null", "live", "freed"}]
      /\ \A p \in Protos : pool'[p] # "live"
  <2>1. CASE Has("dissect_fini")
    <3>1. pool' = [pool EXCEPT ![proto] = "freed"]
      BY <1>1, <2>1
    <3> QED
      BY <1>2, <3>1
  <2>2. CASE ~Has("dissect_fini")
    BY <1>1, <1>2, <1>4, <2>2
  <2> QED
    BY <2>1, <2>2
<1> QED
  BY <1>1, <1>2, <1>5, ReturnKeeps

-----------------------------------------------------------------------------
Assumptions == RegistryAssumption /\ PathAssumption /\ InitFiniPaired

(* The inductive invariant. *)
IInv == RegInv /\ PathInv

(* main and the engine are done with before a frame is in hand. *)
LEMMA BootKeeps ==
  ASSUME Assumptions, IInv, Boot
  PROVE  IInv'
<1>1. main # "loop"
  BY DEF Boot, StartUp, MainStep, EngineStep, TakeOption, StopAtOption, OptionsRead, OpenLive,
     OpenFile, NoCapture, StartEngine, EngineStarted, NoFilter, InstallFilter, FilterFails
<1>2. stage = "idle" /\ UNCHANGED pathVars
  BY <1>1 DEF IInv, PathInv, FrameInHand, Boot
<1>3. RegInv'
  <2>1. [RegNext]_regVars
    BY DEF Boot, StartUp, EngineStep
  <2> QED
    BY <2>1, RegInvNext DEF IInv, Assumptions
<1>4. PathInv'
  BY <1>2, IdleStays DEF IInv
<1> QED
  BY <1>3, <1>4 DEF IInv

LEMMA IInvNext ==
  ASSUME Assumptions, IInv, [Next]_vars
  PROVE  IInv'
<1>1. ASSUME UNCHANGED regVars
      PROVE  RegInv' /\ registered' = registered
  <2>1. RegInv'
    BY <1>1, RegInvNext DEF IInv, Assumptions
  <2> QED
    BY <1>1, <2>1 DEF regVars
<1>2. CASE Boot
  BY <1>2, BootKeeps
<1>3. CASE Arrival
  <2>1. PathInv'
    BY <1>3, ReceiveKeeps DEF Arrival, IInv, Assumptions
  <2> QED
    BY <1>1, <1>3, <2>1 DEF Arrival, IInv
<1>4. CASE CaptureEnds
  <2>1. stage = "idle" /\ UNCHANGED pathVars /\ UNCHANGED regVars
    BY <1>4 DEF CaptureEnds
  <2> QED
    BY <1>1, <2>1, IdleStays DEF IInv
<1>5. CASE Handle
  <2>1. CASE HandlerStep /\ UNCHANGED regVars
    <3>1. UNCHANGED <<regVars, startVars>>
      BY <1>5, <2>1 DEF Handle
    <3>2. PathInv'
      BY <2>1, <3>1, PassOverKeeps, InitKeeps, DataKeeps, S2jKeeps, LogKeeps, FiniKeeps
         DEF HandlerStep, IInv, Assumptions
    <3> QED
      BY <1>1, <2>1, <3>2 DEF IInv
  <2>2. CASE /\ InitLibRefused
             /\ Refuse
             /\ UNCHANGED <<boot, config, entry, symbol, found, dlError, registered>>
    BY <2>2, RefusedKeeps, RefusalKeepsRegistry DEF IInv, Assumptions
  <2> QED
    BY <1>5, <2>1, <2>2 DEF Handle
<1>6. CASE UNCHANGED vars
  <2>1. UNCHANGED regVars /\ UNCHANGED startVars /\ UNCHANGED pathVars
    BY <1>6 DEF vars
  <2>2. main' = main
    BY <2>1 DEF startVars
  <2> QED
    BY <1>1, <2>1, <2>2, PathInvStays DEF IInv
<1> QED
  BY <1>2, <1>3, <1>4, <1>5, <1>6 DEF Next

LEMMA IInvAlways == Spec => []IInv
<1>1. Assumptions
  BY RegistryAssumption, PathAssumption, InitFiniPaired DEF Assumptions
<1>2. Init => IInv
  BY <1>1, RegInvInit, PathInvInit DEF Init, IInv, Assumptions
<1>3. IInv /\ [Next]_vars => IInv'
  BY <1>1, IInvNext
<1> QED
  BY <1>2, <1>3, PTL DEF Spec

-----------------------------------------------------------------------------
(* The frames reported, in order, as the refinement reads them. *)
Numbers == [n \in DOMAIN reports |-> reports[n].frame]

(* A result logged is one more number. *)
LEMMA NumberAdded ==
  ASSUME PathAssumption, PathInv, LogResult
  PROVE  Numbers' = Append(Numbers, seen)
<1> DEFINE r == [frame |-> seen, proto |-> proto, dir |-> info.dir]
           Rs == [frame : 1..seen, proto : Protos, dir : Directions]
<1>1. /\ reports \in Seq(Rs) /\ reports' \in Seq(Rs) /\ reports' = Append(reports, r)
      /\ seen \in Nat
  BY ReportAdded DEF PathInv, PathTypeOK
<1>2. \A n \in DOMAIN reports : reports[n].frame \in Nat
  BY DEF PathInv, ReportsOfSeen
<1>3. r.frame = seen
  OBVIOUS
<1> HIDE DEF r, Rs
<1>4. /\ Len(reports) \in Nat /\ DOMAIN reports = 1..Len(reports)
      /\ Len(reports') = Len(reports) + 1 /\ DOMAIN reports' = 1..(Len(reports) + 1)
      /\ \A n \in 1..Len(reports) : reports'[n] = reports[n]
      /\ reports'[Len(reports) + 1] = r
  BY <1>1
<1>5. Numbers \in Seq(Nat) /\ Len(Numbers) = Len(reports)
      /\ \A n \in 1..Len(reports) : Numbers[n] = reports[n].frame
  BY <1>2, <1>4 DEF Numbers
<1>6. Numbers' \in Seq(Nat) /\ Len(Numbers') = Len(reports) + 1
      /\ \A n \in 1..(Len(reports) + 1) : Numbers'[n] = reports'[n].frame
  <2>1. \A n \in 1..(Len(reports) + 1) : reports'[n].frame \in Nat
    BY <1>1, <1>2, <1>3, <1>4
  <2> QED
    BY <1>4, <2>1 DEF Numbers
<1>7. /\ Append(Numbers, seen) \in Seq(Nat) /\ Len(Append(Numbers, seen)) = Len(reports) + 1
      /\ \A n \in 1..Len(reports) : Append(Numbers, seen)[n] = Numbers[n]
      /\ Append(Numbers, seen)[Len(reports) + 1] = seen
  BY <1>1, <1>5
<1> DEFINE A == Append(Numbers, seen)
           l == Len(reports)
<1>8. ASSUME NEW n \in 1..(l + 1)
      PROVE  Numbers'[n] = A[n]
  <2>1. /\ \A k \in 1..l : reports'[k] = reports[k] /\ Numbers[k] = reports[k].frame /\ A[k] = Numbers[k]
        /\ reports'[l + 1].frame = seen /\ A[l + 1] = seen
        /\ Numbers'[n] = reports'[n].frame
        /\ l \in Nat
    BY <1>3, <1>4, <1>5, <1>6, <1>7
  <2> HIDE DEF A, l
  <2>2. n \in 1..l \/ n = l + 1
    BY <2>1
  <2>3. CASE n \in 1..l
    BY <2>1, <2>3
  <2>4. CASE n = l + 1
    BY <2>1, <2>4
  <2> QED
    BY <2>2, <2>3, <2>4
<1> QED
  BY <1>6, <1>7, <1>8, SeqEqual

(* Every step of the monitor is one of the service, or none. *)
LEMMA StepServes ==
  ASSUME Assumptions, IInv, [Next]_vars
  PROVE  [Service!ServiceNext]_(Service!serviceVars)
<1>1. ASSUME stage' = stage, seen' = seen, reports' = reports
      PROVE  UNCHANGED Service!serviceVars
  BY <1>1 DEF Service!serviceVars
<1>2. ASSUME stage # "idle", stage' # "idle", seen' = seen, reports' = reports
      PROVE  UNCHANGED Service!serviceVars
  BY <1>2 DEF Service!serviceVars
<1>3. CASE Boot \/ CaptureEnds \/ UNCHANGED vars
  BY <1>1, <1>3 DEF Boot, CaptureEnds, vars, pathVars
<1>4. CASE Arrival
  <2>1. stage = "idle" /\ stage' = "identified" /\ seen' = seen + 1 /\ reports' = reports
    BY <1>4 DEF Arrival, Receive
  <2> QED
    BY <2>1 DEF Service!ServiceNext, Service!Take
<1>5. ASSUME stage # "idle", Return, seen' = seen, reports' = reports
      PROVE  Service!ServiceNext
  BY <1>5 DEF Return, Service!ServiceNext, Service!LetGo
<1>6. CASE Handle
  <2>1. CASE PassOver \/ Fini \/ InitLibRefused
    BY <1>5, <2>1 DEF PassOver, Fini, InitLibRefused, Served
  <2>2. CASE InitLib \/ NoInitLib \/ DissectData \/ S2j
    BY <1>2, <2>2 DEF InitLib, NoInitLib, Served, DissectData, S2j
  <2>3. CASE LogResult
    <3>1. stage # "idle" /\ stage' # "idle" /\ seen' = seen
      BY <2>3 DEF LogResult
    <3>2. Numbers' = Append(Numbers, seen)
      BY <2>3, NumberAdded DEF IInv, Assumptions
    <3>3. \A n \in DOMAIN Numbers : Numbers[n] < seen
      BY <2>3, ReportAdded DEF Numbers, IInv, Assumptions
    <3> QED
      BY <3>1, <3>2, <3>3 DEF Service!ServiceNext, Service!Report, Numbers
  <2> QED
    BY <1>6, <2>1, <2>2, <2>3 DEF Handle, HandlerStep
<1> QED
  BY <1>3, <1>4, <1>6 DEF Next

-----------------------------------------------------------------------------
(* The shape of the handler's state. *)
THEOREM PathTypeCorrect == Spec => []PathTypeOK
<1>1. IInv => PathTypeOK
  BY DEF IInv, PathInv
<1> QED
  BY <1>1, IInvAlways, PTL

(* Between two frames no pool is live, no object and no string is held.    *)
THEOREM PathHoldsNothing == Spec => []NothingHeldBetweenFrames
<1>1. IInv => NothingHeldBetweenFrames
  BY DEF IInv, PathInv, PoolAtWork, JsonOfPayload, AtWork, NothingHeldBetweenFrames
<1> QED
  BY <1>1, IInvAlways, PTL

(* The pool is live wherever a library works on it or destroys it.         *)
THEOREM PathPoolLive == Spec => []PoolLiveInUse
<1>1. IInv => PoolLiveInUse
  <2> SUFFICES ASSUME IInv, stage \in AtWork
               PROVE  (object => pool[proto] = "live") /\ (Has("dissect_fini") => pool[proto] = "live")
    BY DEF PoolLiveInUse, AtWork
  <2>1. /\ proto \in Protos /\ registered[proto] # NULL
        /\ object <=> Has("dissect_init")
        /\ Has("dissect_init") <=> pool[proto] = "live"
    BY DEF IInv, PathInv, PoolAtWork
  <2>2. Has("dissect_init") <=> Has("dissect_fini")
    BY <2>1, Paired, InitFiniPaired DEF IInv, RegInv, Has
  <2> QED
    BY <2>1, <2>2
<1> QED
  BY <1>1, IInvAlways, PTL

(* Of a frame with a transport header nothing the stack held shows.        *)
THEOREM PathInfoFresh == Spec => []InfoFresh
<1>1. IInv => InfoFresh
  BY DEF IInv, PathInv
<1> QED
  BY <1>1, IInvAlways, PTL

(* No IP frame is reported whose payload was not captured.                 *)
THEOREM PathEmptyUnreported == Spec => []EmptyPayloadUnreported
<1>1. IInv => EmptyPayloadUnreported
  BY DEF IInv, PathInv, JsonOfPayload, EmptyPayloadUnreported
<1> QED
  BY <1>1, IInvAlways, PTL

(* The monitor implements FrameService, whatever it is started with.       *)
THEOREM PathKeepsService == Spec => KeepsService
<1>1. Init => Service!ServiceInit
  BY DEF Init, PathInit, Service!ServiceInit
<1>2. IInv /\ [Next]_vars => [Service!ServiceNext]_(Service!serviceVars)
  BY StepServes, RegistryAssumption, PathAssumption, InitFiniPaired DEF Assumptions
<1> QED
  BY <1>1, <1>2, IInvAlways, PTL DEF Spec, KeepsService, Service!ServiceSpec
=============================================================================
