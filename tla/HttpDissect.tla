---------------------------- MODULE HttpDissect ----------------------------
(***************************************************************************)
(* One call of http_dissect_data of proto_dissect/http/http_dissect.c, and *)
(* the http_s2j that follows a success: how a message becomes the fields   *)
(* of a report.                                                            *)
(*                                                                         *)
(* A message is what the scans of this code find in it: where the first    *)
(* line and the head end (-1: nowhere), the parts that the first two       *)
(* blanks cut the line into, and the lines of the head.  Texts are lengths *)
(* and the line they come from.  The pool is the environment: it refuses a *)
(* request MaxRefusals times, and any of a size that wrapped; what it      *)
(* grants lies right behind the object before it, or elsewhere.  malloc    *)
(* may refuse http_s2j, through cJSON, as much as it likes.                *)
(***************************************************************************)
EXTENDS Integers, Sequences, FiniteSets

CONSTANTS
  Messages,    (* the messages that may come                            *)
  HeadMaxNum,  (* HTTP_HEAD_MAX_NUM                                     *)
  Word,        (* 2^w, w the width of size_t                            *)
  MaxRefusals, (* how often memory is refused: bounds the model         *)
  NULL

RequestHeads == {"host", "user_agent", "referer"}
ResponseHeads == {"server", "content_len", "content_type"}
HeadFields(d) == IF d = "request" THEN RequestHeads ELSE ResponseHeads
LineFields(d) == IF d = "request" THEN {"method", "uri", "version"}
                                  ELSE {"resp_version", "status_code", "status_string"}
Fields == UNION {HeadFields(d) \cup LineFields(d) : d \in {"request", "response"}}

(* The fields whose text is an object of the pool of its own. *)
PoolTexts == {"uri", "host", "user_agent", "referer", "status_string", "server", "content_type"}

(* A length within a message is an int, and so below the upper half of     *)
(* size_t; two more bytes, as the code adds to it, do not change that.     *)
Representable(n) == 2 * (n + 2) <= Word

ASSUME HttpAssumption ==
  /\ HeadMaxNum \in Nat \ {0} /\ Word \in Nat \ {0} /\ MaxRefusals \in Nat
  /\ NULL \notin Nat \cup PoolTexts
  /\ \A m \in Messages :
       /\ m.len \in Int /\ m.lineEnd \in Nat \cup {-1} /\ m.headEnd \in Nat \cup {-1}
       /\ m.parts \in Seq([word : STRING, len : Nat])
       /\ m.heads \in Seq([name : STRING, len : Nat])
       /\ m.headEnd >= 0 => m.headEnd >= m.lineEnd + 2
       /\ Representable(m.lineEnd) /\ \A n \in DOMAIN m.heads : Representable(m.heads[n].len)

VARIABLES
  pc,       (* how far the call has come                              *)
  msg,      (* the message                                            *)
  dir,      (* net_info->dir, then http_data->dir                     *)
  offset,   (* the local `offset` of dissect_http_request / _response *)
  line,     (* the head line that is looked at                        *)
  have,     (* the have_ flags set                                    *)
  text,     (* text[f]: the line f's text was copied from, or NULL    *)
  exact,    (* the text that fills the last object to its end, if any *)
  runOn,    (* the texts whose terminating zero was overwritten       *)
  report,   (* the fields in http_s2j's JSON object                   *)
  refusals  (* how often the pool has refused, http_s2j counting once *)

vars == <<pc, msg, dir, offset, line, have, text, exact, runOn, report, refusals>>

-----------------------------------------------------------------------------
Init ==
  /\ pc = "copy"
  /\ msg \in Messages
  /\ dir \in {"request", "response"}
  /\ offset = 0
  /\ line = 0
  /\ have = {}
  /\ text = [f \in PoolTexts |-> NULL]
  /\ exact = NULL
  /\ runOn = {}
  /\ report = {}
  /\ refusals = 0

(* Mutant: a size that came out negative is not a huge one. *)
GrantableSigned(size) == TRUE

(* malloc has nothing for a size_t in the upper half of its range. *)
Grantable(size) == size % Word < Word \div 2

(* The pool grants an object of the given size for a text of length n: a   *)
(* text with no room for its terminating zero, whose object the alignment  *)
(* does not pad either, loses the zero to an object right behind it.       *)
Grant(f, n, size) ==
  /\ Grantable(size)
  /\ runOn' \in IF exact = NULL THEN {runOn} ELSE {runOn, runOn \cup {exact}}
  /\ exact' = IF size <= n /\ size % 8 = 0 THEN f ELSE NULL
  /\ UNCHANGED refusals

Refused(size) ==
  /\ \/ ~Grantable(size) /\ UNCHANGED refusals
     \/ Grantable(size) /\ refusals < MaxRefusals /\ refusals' = refusals + 1
  /\ UNCHANGED <<exact, runOn>>

Fail == pc' = "failed"

-----------------------------------------------------------------------------
(* http_dissect_data copies the message; it wants one that is not empty. *)
Copy ==
  /\ pc = "copy"
  /\ msg.len > 0
  /\ Grant(NULL, 0, msg.len)
  /\ pc' = "line"
  /\ UNCHANGED <<msg, dir, report, offset, line, have, text>>

CopyFails ==
  /\ pc = "copy"
  /\ \/ msg.len <= 0 /\ UNCHANGED <<exact, runOn, refusals>>
     \/ msg.len > 0 /\ Refused(msg.len)
  /\ Fail
  /\ UNCHANGED <<msg, dir, report, offset, line, have, text>>

(* find_http_line: a first line that ends, and is not empty, is copied. *)
FindLine ==
  /\ pc = "line"
  /\ msg.lineEnd > 0
  /\ Grant(NULL, 0, msg.lineEnd + 1)
  /\ pc' = "parts"
  /\ UNCHANGED <<msg, dir, report, offset, line, have, text>>

FindLineFails ==
  /\ pc = "line"
  /\ \/ msg.lineEnd <= 0 /\ UNCHANGED <<exact, runOn, refusals>>
     \/ msg.lineEnd > 0 /\ Refused(msg.lineEnd + 1)
  /\ Fail
  /\ UNCHANGED <<msg, dir, report, offset, line, have, text>>

Part(n) == msg.parts[n]
HasPart(n) == n \in DOMAIN msg.parts

(* check_method and check_version *)
FirstPartFits == Part(1).word = IF dir = "request" THEN "method" ELSE "http"

(* Mutant: the uri, too, is copied without room for its zero. *)
LineTextBare == IF dir = "request"
                THEN [field |-> "uri", n |-> Part(2).len, size |-> Part(2).len]
                ELSE [field |-> "status_string", n |-> Part(3).len, size |-> Part(3).len]

(* The parts of the line that are copied to the pool: the uri with its     *)
(* zero, the status string without.                                        *)
LineText == IF dir = "request"
            THEN [field |-> "uri", n |-> Part(2).len, size |-> Part(2).len + 1]
            ELSE [field |-> "status_string", n |-> Part(3).len, size |-> Part(3).len]

AfterLine == offset + msg.lineEnd + 2

(* dissect_http_request_line and dissect_http_response_line: three parts,  *)
(* the first a method or a version.                                        *)
ParseLine ==
  /\ pc = "parts"
  /\ HasPart(3)
  /\ FirstPartFits
  /\ Grant(LineText.field, LineText.n, LineText.size)
  /\ have' = have \cup LineFields(dir)
  /\ text' = [text EXCEPT ![LineText.field] = 1]
  /\ offset' = AfterLine
  /\ pc' = "head"
  /\ UNCHANGED <<msg, dir, report, line>>

(* Mutant: a line of two parts will do, what is missing is not reported. *)
ParseLineFailsNever ==
  /\ pc = "parts"
  /\ FirstPartFits
  /\ ~HasPart(3)
  /\ have' = have \cup {IF dir = "request" THEN "method" ELSE "resp_version"}
  /\ offset' = AfterLine
  /\ pc' = "head"
  /\ UNCHANGED <<msg, dir, report, line, text, exact, runOn, refusals>>

(* The flags of the parts read before the one that fails stay set. *)
ParseLineFails ==
  /\ pc = "parts"
  /\ Fail
  /\ \/ /\ ~HasPart(2) \/ ~FirstPartFits
        /\ UNCHANGED <<have, text, exact, runOn, refusals>>
     \/ /\ HasPart(2) /\ ~HasPart(3) /\ FirstPartFits
        /\ have' = have \cup {IF dir = "request" THEN "method" ELSE "resp_version"}
        /\ UNCHANGED <<text, exact, runOn, refusals>>
     \/ /\ HasPart(3) /\ FirstPartFits
        /\ Refused(LineText.size)
        /\ have' = have \cup (LineFields(dir) \ {"uri", "version", "status_string"})
        /\ UNCHANGED text
  /\ UNCHANGED <<msg, dir, report, offset, line>>

-----------------------------------------------------------------------------
(* find_http_head: the head is copied up to its end.  When it has none the *)
(* length comes out negative, and the size of the request for it wraps.    *)
HeadSize == msg.headEnd - offset + 1

FindHead ==
  /\ pc = "head"
  /\ Grant(NULL, 0, HeadSize)
  /\ offset' = offset + msg.headEnd + 4
  /\ line' = 1
  /\ pc' = "fields"
  /\ UNCHANGED <<msg, dir, report, have, text>>

FindHeadFails ==
  /\ pc = "head"
  /\ Refused(HeadSize)
  /\ Fail
  /\ UNCHANGED <<msg, dir, report, offset, line, have, text>>

(* Mutant: split has no limit. *)
SplitAll == Len(msg.heads)

(* split: no more than HTTP_HEAD_MAX_NUM lines of the head are looked at.  *)
Split == IF Len(msg.heads) > HeadMaxNum THEN HeadMaxNum ELSE Len(msg.heads)

More == pc = "fields" /\ line <= Split
HeadLine == msg.heads[line]
Known == HeadLine.name \in HeadFields(dir)

Advance == line' = line + 1 /\ UNCHANGED <<pc, msg, dir, report, offset>>

(* dissect_request_head and dissect_response_head, of one line.  The last  *)
(* line of a name is the one whose text is kept.                           *)
FieldText ==
  /\ More /\ Known
  /\ HeadLine.name \in PoolTexts
  /\ Grant(HeadLine.name, HeadLine.len, HeadLine.len + 1)
  /\ have' = have \cup {HeadLine.name}
  /\ text' = [text EXCEPT ![HeadLine.name] = line]
  /\ Advance

(* Mutant: the flag is set before the pointer is tested. *)
FieldRefusedFlagged ==
  /\ More /\ Known
  /\ HeadLine.name \in PoolTexts
  /\ Refused(HeadLine.len + 1)
  /\ text' = [text EXCEPT ![HeadLine.name] = NULL]
  /\ have' = have \cup {HeadLine.name}
  /\ Advance

(* The result is not looked at: the pointer is NULL, the flag as it was.   *)
FieldRefused ==
  /\ More /\ Known
  /\ HeadLine.name \in PoolTexts
  /\ Refused(HeadLine.len + 1)
  /\ text' = [text EXCEPT ![HeadLine.name] = NULL]
  /\ UNCHANGED have
  /\ Advance

FieldNumber ==
  /\ More /\ Known
  /\ HeadLine.name \notin PoolTexts
  /\ have' = have \cup {HeadLine.name}
  /\ UNCHANGED <<text, exact, runOn, refusals>>
  /\ Advance

(* Mutant: a line of another name ends the loop. *)
FieldOtherEnds ==
  /\ More /\ ~Known
  /\ line' = Split + 1
  /\ UNCHANGED <<pc, msg, dir, report, offset, have, text, exact, runOn, refusals>>

(* A line of another name: -1, which is not looked at. *)
FieldOther ==
  /\ More /\ ~Known
  /\ UNCHANGED <<have, text, exact, runOn, refusals>>
  /\ Advance

(* http_dissect_data returns 0. *)
EndFields ==
  /\ pc = "fields"
  /\ line > Split
  /\ pc' = "dissected"
  /\ UNCHANGED <<msg, dir, report, offset, line, have, text, exact, runOn, refusals>>

S2jRefused == refusals < MaxRefusals /\ refusals' = refusals + 1

(* http_s2j adds to an object what the flags of the direction say there    *)
(* is, and prints it.  An item cJSON has no memory for is NULL, which      *)
(* cJSON_AddItemToObject passes over without a word.                       *)
S2j ==
  /\ pc = "dissected"
  /\ report' \in SUBSET have
  /\ \A f \in report' \cap PoolTexts : text[f] # NULL
  /\ IF report' = have THEN UNCHANGED refusals ELSE S2jRefused
  /\ pc' = "reported"
  /\ UNCHANGED <<msg, dir, offset, line, have, text, exact, runOn>>

(* No memory for the object, or to print it: -1. *)
S2jFails ==
  /\ pc = "dissected"
  /\ S2jRefused
  /\ Fail
  /\ UNCHANGED <<msg, dir, offset, line, have, text, exact, runOn, report>>

(* cJSON_strdup takes the length of a text that is NULL; a name or a text  *)
(* it has no memory for is NULL when print_string_ptr reads through it.    *)
S2jCrashes ==
  /\ pc = "dissected"
  /\ \/ (\E f \in have \cap PoolTexts : text[f] = NULL) /\ UNCHANGED refusals
     \/ have # {} /\ S2jRefused
  /\ pc' = "crashed"
  /\ UNCHANGED <<msg, dir, offset, line, have, text, exact, runOn, report>>

Next ==
  \/ Copy \/ CopyFails \/ FindLine \/ FindLineFails
  \/ ParseLine \/ ParseLineFails \/ FindHead \/ FindHeadFails
  \/ FieldText \/ FieldRefused \/ FieldNumber \/ FieldOther \/ EndFields
  \/ S2j \/ S2jFails \/ S2jCrashes

Spec == Init /\ [][Next]_vars /\ WF_vars(Next)

-----------------------------------------------------------------------------
(* The shape of the variables: the loop over the head's lines stays within *)
(* the array split fills.                                                  *)
HttpTypeOK ==
  /\ pc \in {"copy", "line", "parts", "head", "fields", "dissected",
             "failed", "crashed", "reported"}
  /\ msg \in Messages
  /\ dir \in {"request", "response"}
  /\ offset \in Nat
  /\ line \in 0..(HeadMaxNum + 1)
  /\ have \in SUBSET Fields
  /\ text \in [PoolTexts -> Nat \cup {NULL}]
  /\ exact \in PoolTexts \cup {NULL}
  /\ runOn \in SUBSET PoolTexts
  /\ report \in SUBSET Fields
  /\ refusals \in 0..MaxRefusals

Through == pc \in {"dissected", "reported"}

(* What the flags say there is, or, once it is made, the report. *)
Told == IF pc = "reported" THEN report ELSE have

(* Whatever failed on the way, a message that http_dissect_data accepts    *)
(* has its whole first line; a report lacks a part of it only when memory  *)
(* was refused to http_s2j, which nobody is told.                          *)
StartLineComplete ==
  Through => /\ LineFields(dir) \subseteq have
             /\ LineFields(dir) \subseteq Told \/ (pc = "reported" /\ refusals > 0)

(* A message whose head does not end in what was captured is not accepted, *)
(* for all that the code does not look at find_http_head's -1: the length  *)
(* it makes of it is refused.                                              *)
UnendedHeadRejected == Through => msg.headEnd >= 0 /\ msg.lineEnd > 0

(* When the pool refused nothing, a field of the head is reported exactly  *)
(* when one of the lines looked at has its name, and its text is that of   *)
(* the last such line; lines of other names change nothing.                *)
LinesOf(f) == {n \in 1..HeadMaxNum : n <= Len(msg.heads) /\ msg.heads[n].name = f}

FieldsFromHead ==
  Through /\ refusals = 0 =>
    \A f \in HeadFields(dir) :
      /\ f \in Told <=> LinesOf(f) # {}
      /\ f \in Told \cap PoolTexts =>
           text[f] \in LinesOf(f) /\ \A n \in LinesOf(f) : n <= text[f]

(* A flag without a text, of which cJSON_strdup would take the length,     *)
(* takes two lines of one name and a refusal at the second; a report never *)
(* has such a field, and http_s2j crashes only after a refusal.            *)
FlagHasText ==
  /\ Through \/ pc = "crashed" =>
       \A f \in have \cap PoolTexts :
         text[f] = NULL => /\ refusals > 0 /\ Cardinality(LinesOf(f)) > 1
                           /\ f \notin report
  /\ pc = "crashed" => refusals > 0

(* The text reported of a field is the field's: nothing that was put in    *)
(* the pool later touches its end.  The status string is not covered.      *)
TextsEnd == runOn \subseteq {"status_string"}

(* The status string, too, is reported as it came: http_dissect.c:418      *)
(* clears status_string_len + 1 bytes for it.                              *)
StatusStringEnds == "status_string" \in report => "status_string" \notin runOn

(* `offset` skips the head and the blank line after it, as the comments at *)
(* http_dissect.c:319 and 495 say: it is where the body begins.            *)
OffsetAtBody == Through => offset = msg.headEnd + 4
=============================================================================
