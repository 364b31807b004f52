------------------------------ MODULE HttpScan ------------------------------
(***************************************************************************)
(* The scans of proto_dissect/http/http_dissect.c, over the bytes of a     *)
(* payload: http_segment_check, which says where a message ends, and what  *)
(* dissect_http_response finds in the same payload.  The library exports   *)
(* the first for payloads that grow as segments arrive; here one grows     *)
(* chunk by chunk and is asked about each time.                            *)
(*                                                                         *)
(* A byte is "cr", "lf", "nul" or a text without any of these; a text in   *)
(* Lengths stands for a whole "Content-length:" and its number.            *)
(***************************************************************************)
EXTENDS Integers, Sequences, FiniteSets

CONSTANTS
  Chunks,     (* what a segment may bring: sequences of bytes  *)
  MaxChunks,  (* bound: how many chunks come                   *)
  Lengths,    (* Lengths[t]: what atoi makes of a Content-length *)
  Word,       (* 2^w, w the width of int and of uint32_t       *)
  HeadMaxNum  (* HTTP_HEAD_MAX_NUM                             *)

ASSUME ScanAssumption ==
  /\ MaxChunks \in Nat /\ HeadMaxNum \in Nat \ {0}
  /\ \A c \in Chunks : c \in Seq(STRING) /\ c # <<>>
  /\ {"cr", "lf", "nul"} \cap DOMAIN Lengths = {}
  /\ Word \in Nat \ {0}
  /\ \A t \in DOMAIN Lengths : /\ Lengths[t] \in Int
                               /\ -Word <= 2 * Lengths[t] /\ 2 * Lengths[t] < Word

VARIABLES
  data,   (* the payload so far                       *)
  chunks, (* how many chunks came                     *)
  answer  (* what http_segment_check last returned    *)

vars == <<data, chunks, answer>>

-----------------------------------------------------------------------------
Least(S) == CHOOSE i \in S : \A j \in S : i <= j
Greatest(S) == CHOOSE i \in S : \A j \in S : i >= j

(* data[i], counted from 0 as in the code *)
Byte(i) == data[i + 1]
LineBreak(i) == Byte(i) = "cr" /\ Byte(i + 1) = "lf"

FirstOf(S) == IF S = {} THEN -1 ELSE Least(S)

(* find_http_line and find_http_head: the first place from start on.       *)
FindLine(start, end) == FirstOf({i \in start..(end - 2) : LineBreak(i)})
FindHead(start, end) == FirstOf({i \in start..(end - 4) : LineBreak(i) /\ LineBreak(i + 2)})

(* split, of a copy of the bytes between two places: strtok ends at a zero *)
(* and knows no empty line; where its lines begin, limited to the first n. *)
Lines(from, to) ==
  {i \in from..(to - 1) :
     /\ \A j \in from..i : Byte(j) # "nul"
     /\ Byte(i) \notin {"cr", "lf"}
     /\ i = from \/ Byte(i - 1) \in {"cr", "lf"}}

Split(from, to) == {i \in Lines(from, to) :
                      Cardinality({j \in Lines(from, to) : j <= i}) <= HeadMaxNum}

LengthLines(from, to) == {i \in Split(from, to) : Byte(i) \in DOMAIN Lengths}

(* Mutant: the last byte of the head is not copied. *)
ContentLengthShort(index) ==
  LET found == LengthLines(0, index - 1)
  IN  IF found = {} THEN 0 ELSE Lengths[Byte(Least(found))]

(* get_content_length: the first such line before the head's end. *)
ContentLength(index) ==
  LET found == LengthLines(0, index)
  IN  IF found = {} THEN 0 ELSE Lengths[Byte(Least(found))]

SegmentHead == FindHead(0, Len(data))

(* A sum of ints is an int: past the largest it comes out negative.        *)
AsInt(n) == ((n + Word \div 2) % Word) - Word \div 2

(* Mutant: the last head found counts. *)
SegmentCheckLast ==
  LET heads == {i \in 0..(Len(data) - 4) : LineBreak(i) /\ LineBreak(i + 2)}
  IN  IF heads = {} \/ ContentLength(Greatest(heads)) < 0 THEN -1
      ELSE AsInt(Greatest(heads) + 4 + ContentLength(Greatest(heads)))

(* http_segment_check *)
SegmentCheck ==
  IF SegmentHead = -1 \/ ContentLength(SegmentHead) < 0 THEN -1
  ELSE AsInt(SegmentHead + 4 + ContentLength(SegmentHead))

-----------------------------------------------------------------------------
(* What dissect_http_response makes of the same bytes: the first line, the *)
(* head after it, and the last Content-length of it.                       *)
LineEnd == FindLine(0, Len(data))

(* Mutant: the line's end is not skipped. *)
HeadStartEarly == LineEnd

HeadStart == LineEnd + 2

HeadEnd == FindHead(HeadStart, Len(data))

(* The parts of the line and the pool are HttpDissect's matter. *)
Dissected == LineEnd > 0 /\ HeadEnd # -1

(* resp_content_len is a uint32_t: a negative number becomes a huge one.   *)
RespContentLen ==
  LET found == LengthLines(HeadStart, HeadEnd)
  IN  IF found = {} THEN 0 ELSE Lengths[Byte(Greatest(found))] % Word

-----------------------------------------------------------------------------
Init == data = <<>> /\ chunks = 0 /\ answer = -1

(* A segment brings a chunk, and http_segment_check is called; it says -1  *)
(* also when malloc refuses get_content_length its copy.                   *)
Grow(c) ==
  /\ chunks < MaxChunks
  /\ chunks' = chunks + 1
  /\ data' = data \o c
  /\ answer' \in {SegmentCheck', -1}

Next == \E c \in Chunks : Grow(c)

Spec == Init /\ [][Next]_vars

-----------------------------------------------------------------------------
(* A message's end, once found, does not move with what comes after it.    *)
EndStable == [][answer # -1 => answer' \in {answer, -1}]_vars

(* http_segment_check and the dissection agree on where the head ends, for *)
(* all that one looks for it from the first byte and the other after the   *)
(* first line; except for a head without lines, whose end the dissection   *)
(* has skipped: what it then takes for the head lies in the body.          *)
HeadsAgree ==
  Dissected => /\ SegmentHead # -1
               /\ SegmentHead = HeadEnd <=> SegmentHead # LineEnd
               /\ SegmentHead = LineEnd => HeadEnd >= SegmentHead + 2

(* They agree on the length of the body, for all that one takes the first  *)
(* Content-length, counting the first line of the message among the lines, *)
(* and the other the last, when there is but one and it is not the last    *)
(* line that the dissection looks at, nor in the first line itself.  A     *)
(* negative length parts them: http_segment_check knows no such message,   *)
(* the dissection reports half of the uint32_t's range or more.            *)
OneLine(from, to) == /\ \A i \in from..(to - 1) : Byte(i) \notin {"cr", "lf", "nul"}
                     /\ Byte(from) \notin DOMAIN Lengths

LengthsAgree ==
  Dissected /\ SegmentHead = HeadEnd /\ OneLine(0, LineEnd) =>
    LET before == {i \in Lines(HeadStart, HeadEnd) :
                     Cardinality({j \in Lines(HeadStart, HeadEnd) : j <= i}) < HeadMaxNum}
        found == {i \in Lines(HeadStart, HeadEnd) : Byte(i) \in DOMAIN Lengths}
    IN  Cardinality(found) = 1 /\ found \subseteq before =>
          IF ContentLength(SegmentHead) >= 0
          THEN RespContentLen = ContentLength(SegmentHead)
          ELSE SegmentCheck = -1 /\ 2 * RespContentLen >= Word
=============================================================================
