--------------------------- MODULE MC_PacketPath ---------------------------
(* Two frames, of every transport, on the ports identification looks at and  *)
(* on others, with and without a payload; the libraries of the release, one  *)
(* that has nothing but s2j, and a file that leaves http out.                *)
EXTENDS PacketPath, TLC

All(f) == {<<f, s>> : s \in Symbols}

MCExports == "liboicq" :> All("oicq") @@ "libhttp" :> All("http")
          @@ "libbare" :> {<<"oicq", "s2j">>}

Entry(f, l) == [func |-> f, lib |-> l]
Json(e) == [present |-> TRUE, size |-> 9, mark |-> 9, close |-> 9, entries |-> e]

MaxBytes == 10

MCConfigs == {[Json(<<>>) EXCEPT !.present = FALSE],
              Json(<<Entry("oicq", "liboicq"), Entry("http", "libhttp")>>),
              Json(<<Entry("oicq", "libbare")>>)}

PortPairs == {<<5000, 8000>>, <<8000, 5000>>, <<5000, 80>>, <<80, 5000>>,
              <<5000, 21>>, <<5000, 5001>>}

(* caplen 42 ends a UDP frame, 54 a TCP frame, at its header; 64 is the      *)
(* shortest frame of all that has 10 or 22 bytes of payload, 66 one of 12.   *)
IpFrames == {[tags |-> t, type |-> "ip", proto |-> p, sport |-> pp[1], dport |-> pp[2],
              doff |-> 5, caplen |-> c, word |-> w] :
               t \in {0, 1}, p \in Transports \cup {"other"}, pp \in PortPairs,
               c \in {42, 54, 66}, w \in {"get", "connect", "http", "other"}}

OtherFrames == {[tags |-> 0, type |-> "other", proto |-> "other", sport |-> 0, dport |-> 0,
                 doff |-> 0, caplen |-> 60, word |-> w] : w \in {"get", "other"}}

(* main started with a file and a filter, from a clear stack. *)
MCCommandLines == {<<[opt |-> "pcap", fits |-> TRUE], [opt |-> "bpf", fits |-> TRUE]>>}

ClearStack == {{}}

MCFrames == IpFrames \cup OtherFrames

MCStale == {[dir |-> d, sport |-> 8000, dport |-> 80, trans |-> t] :
              d \in Directions, t \in Transports \cup {"other"}}
=============================================================================
