---------------------------- MODULE OicqDissect ----------------------------
(***************************************************************************)
(* oicq_dissect_data of proto_dissect/oicq/oicq_dissect.c, field by field, *)
(* and the oicq_s2j that follows a success.  malloc may refuse any of the  *)
(* requests oicq_s2j makes through cJSON.                                  *)
(***************************************************************************)
EXTENDS Integers, Sequences

CONSTANTS
  Packets,  (* the payloads, sequences of bytes                     *)
  Commands, (* the values oicq_command_vals has a name for          *)
  NoValue

ASSUME OicqAssumption ==
  /\ Packets \subseteq Seq(0..255)
  /\ Commands \subseteq Nat
  /\ NoValue \notin Nat

(* The fields in the order they are read, and their sizes. *)
FieldNames == <<"flag", "version", "command", "sequence", "oicq_number">>
Sizes == <<1, 2, 2, 2, 4>>
Fields == {FieldNames[k] : k \in 1..5}

VARIABLES
  packet, (* the payload                                   *)
  field,  (* which field comes next                        *)
  offset, (* the local `offset`                            *)
  len,    (* the local `len`, what is left of the payload  *)
  value,  (* the fields of oicq_data whose flag_ is set    *)
  result, (* "running", "short" (-1), "ok" (0); of oicq_s2j "reported" (0), "failed" (-1), "crashed" *)
  report, (* the names in the JSON object                  *)
  refused (* whether malloc refused oicq_s2j something     *)

vars == <<packet, field, offset, len, value, result, report, refused>>

-----------------------------------------------------------------------------
(* Mutant: the low byte first, as getdata16_ntoh has it. *)
PairSwapped(o) == 256 * packet[o + 2] + packet[o + 1]

(* getdata16 *)
Pair(o) == 256 * packet[o + 1] + packet[o + 2]

(* A field of one, two or four bytes; the last is getdata32. *)
BigEndian(o, n) == IF n = 1 THEN packet[o + 1]
                   ELSE IF n = 2 THEN Pair(o) ELSE 256 * 256 * Pair(o) + Pair(o + 2)

Init ==
  /\ packet \in Packets
  /\ field = 1
  /\ offset = 0
  /\ len = Len(packet)
  /\ value = [f \in Fields |-> NoValue]
  /\ result = "running"
  /\ report = {}
  /\ refused = FALSE

(* Mutants: what is left is not updated; the counters are updated twice.   *)
ReadFieldStale ==
  /\ result = "running" /\ field <= 5 /\ len >= Sizes[field]
  /\ value' = [value EXCEPT ![FieldNames[field]] = BigEndian(offset, Sizes[field])]
  /\ offset' = offset + Sizes[field]
  /\ field' = field + 1
  /\ UNCHANGED <<packet, len, result, report, refused>>
ReadFieldTwice ==
  /\ result = "running" /\ field <= 5 /\ len >= Sizes[field]
  /\ value' = [value EXCEPT ![FieldNames[field]] = BigEndian(offset, Sizes[field])]
  /\ offset' = offset + 2 * Sizes[field]
  /\ len' = len - 2 * Sizes[field]
  /\ field' = field + 1
  /\ UNCHANGED <<packet, result, report, refused>>

(* check_data_len, the field, update_offset_len. *)
ReadField ==
  /\ result = "running"
  /\ field <= 5
  /\ len >= Sizes[field]
  /\ value' = [value EXCEPT ![FieldNames[field]] = BigEndian(offset, Sizes[field])]
  /\ offset' = offset + Sizes[field]
  /\ len' = len - Sizes[field]
  /\ field' = field + 1
  /\ UNCHANGED <<packet, result, report, refused>>

(* Mutant: one more byte is asked for. *)
TooShortGreedy ==
  /\ result = "running" /\ field <= 5 /\ len <= Sizes[field]
  /\ result' = "short"
  /\ UNCHANGED <<packet, field, offset, len, value, report, refused>>

(* The payload is too short, or empty: -1, with the flags set so far. *)
TooShort ==
  /\ result = "running"
  /\ field <= 5
  /\ len < Sizes[field]
  /\ result' = "short"
  /\ UNCHANGED <<packet, field, offset, len, value, report, refused>>

EndFields ==
  /\ result = "running"
  /\ field > 5
  /\ result' = "ok"
  /\ UNCHANGED <<packet, field, offset, len, value, report, refused>>

(* A flag other than 0x02, and a command the table has not, are left out.  *)
Named(f) == /\ f = "flag" => value[f] = 2
            /\ f = "command" => value[f] \in Commands

(* What oicq_s2j adds to the object. *)
Present == {f \in Fields : value[f] # NoValue /\ Named(f)}

(* oicq_s2j prints the object.  An item that cJSON had no memory for is    *)
(* NULL, and cJSON_AddItemToObject passes over it without a word.          *)
S2j ==
  /\ result = "ok"
  /\ report' \in SUBSET Present
  /\ refused' = (report' # Present)
  /\ result' = "reported"
  /\ UNCHANGED <<packet, field, offset, len, value>>

Refuse == refused' = TRUE /\ UNCHANGED <<packet, field, offset, len, value, report>>

(* No object, or no memory to print it: -1. *)
S2jFails == result = "ok" /\ result' = "failed" /\ Refuse

(* An item whose name or text cJSON_strdup had no memory for is printed:   *)
(* print_string_ptr reads through the NULL.                                *)
S2jCrashes == result = "ok" /\ Present # {} /\ result' = "crashed" /\ Refuse

Next == ReadField \/ TooShort \/ EndFields \/ S2j \/ S2jFails \/ S2jCrashes

Spec == Init /\ [][Next]_vars /\ WF_vars(Next)

-----------------------------------------------------------------------------
(* The shape of the variables: the reader stays inside the payload.        *)
OicqTypeOK ==
  /\ packet \in Packets
  /\ field \in 1..6
  /\ offset \in 0..Len(packet)
  /\ len \in 0..Len(packet)
  /\ value \in [Fields -> Nat \cup {NoValue}]
  /\ result \in {"running", "short", "ok", "reported", "failed", "crashed"}
  /\ report \in SUBSET Fields
  /\ refused \in BOOLEAN

(* The two counters the macros of common.h keep agree at every field: what *)
(* is left is what was not read, so a field is read inside the payload.    *)
CountersAgree == offset + len = Len(packet)

(* The five fields take eleven bytes: this and no other is the length that *)
(* decides whether a payload is accepted.                                  *)
AcceptedByLength ==
  /\ result = "short" => Len(packet) < 11
  /\ result \in {"ok", "reported", "failed", "crashed"} => Len(packet) >= 11

(* What is reported is what lies in the payload, every byte of it, and     *)
(* flag and command only when they have names.  Unless malloc refused, the *)
(* report is there, with all the rest and with flag and command whenever   *)
(* they have names; with a refusal any of it may be missing from a report  *)
(* that looks like any other.                                              *)
ReportFaithful ==
  /\ result \in {"failed", "crashed"} => refused
  /\ result = "reported" =>
       /\ "flag" \in report => packet[1] = 2
       /\ "command" \in report => 256 * packet[4] + packet[5] \in Commands
       /\ ~refused =>
            /\ {"version", "sequence", "oicq_number"} \subseteq report
            /\ packet[1] = 2 => "flag" \in report
            /\ 256 * packet[4] + packet[5] \in Commands => "command" \in report
       /\ value["flag"] = packet[1]
       /\ value["version"] = 256 * packet[2] + packet[3]
       /\ value["command"] = 256 * packet[4] + packet[5]
       /\ value["sequence"] = 256 * packet[6] + packet[7]
       /\ value["oicq_number"] =
            256 * 256 * (256 * packet[8] + packet[9]) + (256 * packet[10] + packet[11])
=============================================================================
