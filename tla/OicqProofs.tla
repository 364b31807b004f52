----------------------------- MODULE OicqProofs -----------------------------
(***************************************************************************)
(* Proofs about OicqDissect for payloads of any length and any bytes.      *)
(***************************************************************************)
EXTENDS OicqDissect, TLAPS

(* Where each field begins, and where the last one ends. *)
Starts == <<0, 1, 3, 5, 7, 11>>

(* What the stated properties rest on: the reader is at the place where    *)
(* the next field begins; the fields before it hold what lies at theirs;   *)
(* the result says why the reader stopped.                                 *)
ReadSoFar ==
  /\ offset = Starts[field]
  /\ \A k \in 1..5 : k < field => value[FieldNames[k]] = BigEndian(Starts[k], Sizes[k])
  /\ result = "short" => field <= 5 /\ len < Sizes[field]
  /\ result \in {"ok", "reported", "failed", "crashed"} => field = 6
  /\ result = "reported" => report \subseteq Present /\ (report # Present => refused)
  /\ result \in {"failed", "crashed"} => refused

(* The inductive invariant. *)
IInv == OicqTypeOK /\ CountersAgree /\ ReadSoFar

-----------------------------------------------------------------------------
(* The tables: a field ends where the next begins. *)
LEMMA Tables ==
  /\ \A k \in 1..5 : /\ Sizes[k] \in {1, 2, 4} /\ Starts[k] \in Nat
                     /\ Starts[k] + Sizes[k] = Starts[k + 1]
                     /\ Starts[k + 1] <= 11
  /\ Starts[1] = 0 /\ Starts[6] = 11
  /\ \A k \in 1..5 : FieldNames[k] \in Fields
  /\ \A j, k \in 1..5 : FieldNames[j] = FieldNames[k] => j = k
<1>1. \A k \in 1..5 : k = 1 \/ k = 2 \/ k = 3 \/ k = 4 \/ k = 5
  OBVIOUS
<1>2. /\ \A k \in 1..5 : /\ Sizes[k] \in {1, 2, 4} /\ Starts[k] \in Nat
                         /\ Starts[k] + Sizes[k] = Starts[k + 1]
                         /\ Starts[k + 1] <= 11
      /\ Starts[1] = 0 /\ Starts[6] = 11
  BY <1>1 DEF Sizes, Starts
<1>3. \A k \in 1..5 : FieldNames[k] \in Fields
  BY DEF Fields
<1>4. \A j, k \in 1..5 : FieldNames[j] = FieldNames[k] => j = k
  BY <1>1 DEF FieldNames
<1>5. QED
  BY <1>2, <1>3, <1>4

LEMMA ElementTyped ==
  ASSUME NEW S, NEW p \in Seq(S), NEW k \in 1..Len(p)
  PROVE  p[k] \in S
OBVIOUS

LEMMA ExceptTyped ==
  ASSUME NEW D, NEW S, NEW f \in [D -> S], NEW x, NEW v \in S
  PROVE  [f EXCEPT ![x] = v] \in [D -> S]
OBVIOUS

(* A field that lies inside the payload has a value. *)
LEMMA FieldValued ==
  ASSUME packet \in Seq(0..255),
         NEW o \in Nat, NEW n \in {1, 2, 4}, o + n <= Len(packet)
  PROVE  BigEndian(o, n) \in Nat
<1>1. Len(packet) \in Nat /\ \A k \in 1..Len(packet) : packet[k] \in Nat
  <2>1. \A k \in 1..Len(packet) : packet[k] \in 0..255
    BY ElementTyped
  <2>2. Len(packet) \in Nat
    OBVIOUS
  <2>3. 0..255 \subseteq Nat
    OBVIOUS
  <2>4. QED
    BY <2>1, <2>2, <2>3
<1>2. packet[o + 1] \in Nat
  BY <1>1
<1>3. n \in {2, 4} => packet[o + 2] \in Nat
  BY <1>1
<1>4. n = 4 => packet[(o + 2) + 1] \in Nat /\ packet[(o + 2) + 2] \in Nat
  BY <1>1
<1>5. n \in {2, 4} => Pair(o) \in Nat
  BY <1>2, <1>3 DEF Pair
<1>6. n = 4 => Pair(o + 2) \in Nat
  BY <1>4 DEF Pair
<1>7. QED
  BY <1>2, <1>5, <1>6 DEF BigEndian

-----------------------------------------------------------------------------
LEMMA InitInv == Init => IInv
<1> SUFFICES ASSUME Init PROVE IInv
  OBVIOUS
<1>1. packet \in Seq(0..255) /\ Len(packet) \in Nat
  BY OicqAssumption DEF Init
<1>2. OicqTypeOK
  <2>1. offset \in 0..Len(packet) /\ len \in 0..Len(packet)
    BY <1>1 DEF Init
  <2>2. value \in [Fields -> Nat \cup {NoValue}]
    BY DEF Init
  <2>3. field \in 1..6 /\ report \in SUBSET Fields
    BY DEF Init
  <2>4. /\ result \in {"running", "short", "ok", "reported", "failed", "crashed"}
        /\ packet \in Packets /\ refused \in BOOLEAN
    BY DEF Init
  <2>5. QED
    BY <2>1, <2>2, <2>3, <2>4 DEF OicqTypeOK
<1>3. CountersAgree
  BY <1>1 DEF Init, CountersAgree
<1>4. ReadSoFar
  BY Tables DEF Init, ReadSoFar
<1>5. QED
  BY <1>2, <1>3, <1>4 DEF IInv

(* The heart of it: a field is read inside the payload, and the counters   *)
(* move together to the next.                                              *)
LEMMA ReadFieldInv == IInv /\ ReadField => IInv'
<1> SUFFICES ASSUME IInv, ReadField PROVE IInv'
  OBVIOUS
<1> DEFINE n == Sizes[field]
<1>1. /\ field \in 1..5 /\ n \in {1, 2, 4} /\ len >= n /\ result = "running"
      /\ offset \in Nat /\ len \in Nat /\ offset + len = Len(packet)
      /\ packet \in Seq(0..255) /\ packet \in Packets /\ Len(packet) \in Nat
  <2>1. OicqTypeOK /\ CountersAgree
    BY DEF IInv
  <2>2. packet \in Packets /\ field \in 1..6 /\ offset \in 0..Len(packet) /\ len \in 0..Len(packet)
    BY <2>1 DEF OicqTypeOK
  <2>3. packet \in Seq(0..255)
    BY <2>2, OicqAssumption
  <2>4. Len(packet) \in Nat
    BY <2>3
  <2>5. result = "running" /\ field <= 5 /\ len >= n
    BY DEF ReadField
  <2>6. field \in 1..5
    BY <2>2, <2>5
  <2>7. n \in {1, 2, 4}
    BY <2>6, Tables
  <2>8. offset \in Nat /\ len \in Nat /\ offset + len = Len(packet)
    BY <2>1, <2>2, <2>4 DEF CountersAgree
  <2>9. QED
    BY <2>2, <2>3, <2>4, <2>5, <2>6, <2>7, <2>8
<1>2. /\ offset' = offset + n /\ len' = len - n /\ field' = field + 1
      /\ value' = [value EXCEPT ![FieldNames[field]] = BigEndian(offset, n)]
      /\ packet' = packet /\ result' = result /\ report' = report /\ refused' = refused
  BY DEF ReadField
<1>3. BigEndian(offset, n) \in Nat
  BY <1>1, FieldValued
<1>4. OicqTypeOK'
  <2>1. field' \in 1..6 /\ offset' \in 0..Len(packet') /\ len' \in 0..Len(packet')
    <3> HIDE DEF n
    <3>1. field' \in 1..6
      BY <1>1, <1>2
    <3>2. offset + n \in 0..Len(packet) /\ len - n \in 0..Len(packet)
      BY <1>1
    <3>3. QED
      BY <1>2, <3>1, <3>2
  <2>2. value' \in [Fields -> Nat \cup {NoValue}]
    <3> HIDE DEF n
    <3>1. value \in [Fields -> Nat \cup {NoValue}]
      BY DEF IInv, OicqTypeOK
    <3>2. BigEndian(offset, n) \in Nat \cup {NoValue}
      BY <1>3
    <3>3. QED
      BY <1>2, <3>1, <3>2, ExceptTyped
  <2>3. QED
    BY <1>1, <1>2, <2>1, <2>2 DEF IInv, OicqTypeOK
<1>5. CountersAgree'
  <2> HIDE DEF n
  <2>1. (offset + n) + (len - n) = Len(packet)
    BY <1>1
  <2>2. QED
    BY <1>2, <2>1 DEF CountersAgree
<1>6. ReadSoFar'
  <2>1. offset' = Starts[field']
    <3>1. offset = Starts[field]
      BY DEF IInv, ReadSoFar
    <3>2. Starts[field] + Sizes[field] = Starts[field + 1]
      BY <1>1, Tables
    <3>3. QED
      BY <1>2, <3>1, <3>2
  <2>2. ASSUME NEW k \in 1..5, k < field'
        PROVE  value'[FieldNames[k]] = BigEndian(Starts[k], Sizes[k])'
    <3>1. /\ value \in [Fields -> Nat \cup {NoValue}] /\ FieldNames[k] \in Fields
          /\ FieldNames[field] \in Fields
      BY <1>1, Tables DEF IInv, OicqTypeOK
    <3>2. CASE k = field
      BY <1>1, <1>2, <3>1, <3>2 DEF IInv, ReadSoFar, BigEndian, Pair
    <3>3. CASE k # field
      <4>1. k < field
        BY <1>1, <1>2, <2>2, <3>3
      <4>2. FieldNames[k] # FieldNames[field]
        BY <1>1, <3>3, Tables
      <4>3. value'[FieldNames[k]] = value[FieldNames[k]]
        BY <1>2, <3>1, <4>2
      <4>4. QED
        BY <1>2, <4>1, <4>3 DEF IInv, ReadSoFar, BigEndian, Pair
    <3>4. QED
      BY <3>2, <3>3
  <2>3. QED
    BY <1>1, <1>2, <2>1, <2>2 DEF ReadSoFar
<1>7. QED
  BY <1>4, <1>5, <1>6 DEF IInv

Stop == TooShort \/ EndFields \/ S2j \/ S2jFails \/ S2jCrashes \/ UNCHANGED vars

(* What does not read leaves the payload and the values as they are; how   *)
(* the reader stopped and what oicq_s2j made of it fit them.               *)
LEMMA StopInv == IInv /\ Stop => IInv'
<1> SUFFICES ASSUME IInv, Stop PROVE IInv'
  OBVIOUS
<1>1. /\ packet' = packet /\ field' = field /\ offset' = offset /\ len' = len
      /\ value' = value
  BY DEF Stop, TooShort, EndFields, S2j, S2jFails, S2jCrashes, Refuse, vars
<1>2. OicqTypeOK'
  <2>1. report' \in SUBSET Fields /\ refused' \in BOOLEAN
    BY DEF IInv, OicqTypeOK, Stop, TooShort, EndFields, S2j, S2jFails, S2jCrashes, Refuse,
           vars, Present
  <2>2. result' \in {"running", "short", "ok", "reported", "failed", "crashed"}
    BY DEF IInv, OicqTypeOK, Stop, TooShort, EndFields, S2j, S2jFails, S2jCrashes, vars
  <2>3. QED
    BY <1>1, <2>1, <2>2 DEF IInv, OicqTypeOK
<1>3. CountersAgree'
  BY <1>1 DEF IInv, CountersAgree
<1>4. /\ offset' = Starts[field']
      /\ \A k \in 1..5 : k < field' =>
           value'[FieldNames[k]] = BigEndian(Starts[k], Sizes[k])'
  BY <1>1 DEF IInv, ReadSoFar, BigEndian, Pair
<1>5. Present' = Present
  BY <1>1 DEF Present, Named
<1>6. /\ result' = "short" => field' <= 5 /\ len' < Sizes[field']
      /\ result' \in {"ok", "reported", "failed", "crashed"} => field' = 6
  BY <1>1 DEF IInv, ReadSoFar, OicqTypeOK, Stop, TooShort, EndFields, S2j, S2jFails,
              S2jCrashes, vars
<1>7. /\ result' = "reported" => report' \subseteq Present' /\ (report' # Present' => refused')
      /\ result' \in {"failed", "crashed"} => refused'
  <2>1. CASE S2j
    BY <1>5, <2>1 DEF S2j
  <2>2. CASE S2jFails \/ S2jCrashes
    BY <2>2 DEF S2jFails, S2jCrashes, Refuse
  <2>3. CASE TooShort \/ EndFields
    BY <2>3 DEF TooShort, EndFields
  <2>4. CASE UNCHANGED vars
    BY <1>5, <2>4 DEF IInv, ReadSoFar, vars
  <2>5. QED
    BY <2>1, <2>2, <2>3, <2>4 DEF Stop
<1>8. QED
  BY <1>2, <1>3, <1>4, <1>6, <1>7 DEF IInv, ReadSoFar

(* The reader's invariant holds whatever the payload. *)
THEOREM OicqInvariant == Spec => []IInv
<1>1. Init => IInv
  BY InitInv
<1>2. IInv /\ [Next]_vars => IInv'
  BY ReadFieldInv, StopInv DEF Next, Stop
<1>3. QED
  BY <1>1, <1>2, PTL DEF Spec

(* The types; neither counter leaves the payload's length.                 *)
THEOREM OicqTypeCorrect == Spec => []OicqTypeOK
<1>1. IInv => OicqTypeOK
  BY DEF IInv
<1>2. QED
  BY <1>1, OicqInvariant, PTL

(* The two counters of common.h's macros agree for any payload: no field   *)
(* is read outside of it.                                                  *)
THEOREM OicqCountersAgree == Spec => []CountersAgree
<1>1. IInv => CountersAgree
  BY DEF IInv
<1>2. QED
  BY <1>1, OicqInvariant, PTL

(* A payload is accepted exactly when it has the eleven bytes of the five  *)
(* fields, whatever its bytes are.                                         *)
THEOREM OicqAcceptedByLength == Spec => []AcceptedByLength
<1>1. IInv => AcceptedByLength
  <2> SUFFICES ASSUME IInv PROVE AcceptedByLength
    OBVIOUS
  <2>1. /\ field \in 1..6 /\ offset \in Nat /\ len \in Nat /\ offset + len = Len(packet)
        /\ offset = Starts[field]
    BY OicqAssumption DEF IInv, OicqTypeOK, CountersAgree, ReadSoFar
  <2>2. ASSUME result = "short" PROVE Len(packet) < 11
    <3>1. field \in 1..5 /\ len < Sizes[field]
      BY <2>1, <2>2 DEF IInv, ReadSoFar
    <3>2. /\ Sizes[field] \in Nat /\ Starts[field] + Sizes[field] <= 11
      BY <3>1, Tables
    <3>3. QED
      BY <2>1, <3>1, <3>2
  <2>3. result \in {"ok", "reported", "failed", "crashed"} => Len(packet) >= 11
    BY <2>1, Tables DEF IInv, ReadSoFar
  <2>4. QED
    BY <2>2, <2>3 DEF AcceptedByLength
<1>2. QED
  BY <1>1, OicqInvariant, PTL

(* What oicq_s2j reports is what lies in the payload: each value byte for  *)
(* byte, the flag and the command only with a name; and unless malloc      *)
(* refused, nothing is missing and oicq_s2j neither fails nor crashes.     *)
THEOREM OicqReportFaithful == Spec => []ReportFaithful
<1>1. IInv => ReportFaithful
  <2> SUFFICES ASSUME IInv PROVE ReportFaithful
    OBVIOUS
  <2>1. result \in {"failed", "crashed"} => refused
    BY DEF IInv, ReadSoFar
  <2>2. ASSUME result = "reported"
        PROVE  /\ "flag" \in report => packet[1] = 2
               /\ "command" \in report => 256 * packet[4] + packet[5] \in Commands
               /\ ~refused =>
                    /\ {"version", "sequence", "oicq_number"} \subseteq report
                    /\ packet[1] = 2 => "flag" \in report
                    /\ 256 * packet[4] + packet[5] \in Commands => "command" \in report
               /\ value["flag"] = packet[1]
               /\ value["version"] = 256 * packet[2] + packet[3]
               /\ value["command"] = 256 * packet[4] + packet[5]
               /\ value["sequence"] = 256 * packet[6] + packet[7]
               /\ value["oicq_number"] =
                    256 * 256 * (256 * packet[8] + packet[9]) + (256 * packet[10] + packet[11])
    <3>1. /\ field = 6 /\ Len(packet) \in Nat /\ 11 <= Len(packet)
          /\ packet \in Seq(0..255)
          /\ report \subseteq Present /\ (~refused => report = Present)
      <4>1. OicqTypeOK /\ CountersAgree /\ ReadSoFar
        BY DEF IInv
      <4>2. /\ packet \in Packets /\ offset \in 0..Len(packet) /\ len \in 0..Len(packet)
            /\ offset + len = Len(packet)
        BY <4>1 DEF OicqTypeOK, CountersAgree
      <4>3. packet \in Seq(0..255)
        BY <4>2, OicqAssumption
      <4>4. Len(packet) \in Nat
        BY <4>3
      <4>5. field = 6 /\ report \subseteq Present /\ (~refused => report = Present)
        BY <2>2, <4>1 DEF ReadSoFar
      <4>6. offset = 11
        BY <4>1, <4>5, Tables DEF ReadSoFar
      <4>7. 11 <= Len(packet)
        BY <4>2, <4>4, <4>6
      <4>8. QED
        BY <4>3, <4>4, <4>5, <4>7
    <3>2. \A k \in 1..5 : value[FieldNames[k]] = BigEndian(Starts[k], Sizes[k])
      BY <3>1 DEF IInv, ReadSoFar
    <3>3. /\ value["flag"] = packet[1]
          /\ value["version"] = 256 * packet[2] + packet[3]
          /\ value["command"] = 256 * packet[4] + packet[5]
          /\ value["sequence"] = 256 * packet[6] + packet[7]
      BY <3>2 DEF FieldNames, Starts, Sizes, BigEndian, Pair
    <3>4. value["oicq_number"] =
            256 * 256 * (256 * packet[8] + packet[9]) + (256 * packet[10] + packet[11])
      BY <3>2 DEF FieldNames, Starts, Sizes, BigEndian, Pair
    <3>5. \A f \in Fields : value[f] # NoValue
      <4>1. \A k \in 1..5 : BigEndian(Starts[k], Sizes[k]) \in Nat
        <5> TAKE k \in 1..5
        <5>1. /\ Starts[k] \in Nat /\ Sizes[k] \in {1, 2, 4}
              /\ Starts[k] + Sizes[k] <= 11
          BY Tables
        <5>2. Starts[k] + Sizes[k] <= Len(packet)
          BY <3>1, <5>1
        <5>3. QED
          BY <3>1, <5>1, <5>2, FieldValued
      <4>2. QED
        BY <3>2, <4>1, OicqAssumption DEF Fields
    <3>6. Fields = {"flag", "version", "command", "sequence", "oicq_number"}
      BY DEF Fields, FieldNames
    <3>7. Present = {f \in Fields : Named(f)}
      BY <3>5 DEF Present
    <3>8. /\ Named("version") /\ Named("sequence") /\ Named("oicq_number")
          /\ Named("flag") <=> packet[1] = 2
          /\ Named("command") <=> 256 * packet[4] + packet[5] \in Commands
      BY <3>3 DEF Named
    <3>9. /\ "flag" \in report => packet[1] = 2
          /\ "command" \in report => 256 * packet[4] + packet[5] \in Commands
      BY <3>1, <3>7, <3>8
    <3>10. ASSUME ~refused
           PROVE  /\ {"version", "sequence", "oicq_number"} \subseteq report
                  /\ packet[1] = 2 => "flag" \in report
                  /\ 256 * packet[4] + packet[5] \in Commands => "command" \in report
      BY <3>1, <3>6, <3>7, <3>8, <3>10
    <3>11. QED
      BY <3>3, <3>4, <3>9, <3>10
  <2>3. QED
    BY <2>1, <2>2 DEF ReportFaithful
<1>2. QED
  BY <1>1, OicqInvariant, PTL
=============================================================================
