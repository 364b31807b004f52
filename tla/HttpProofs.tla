----------------------------- MODULE HttpProofs -----------------------------
(***************************************************************************)
(* Proofs about HttpDissect for any messages, heads of any length, any     *)
(* limit on their lines and any number of refusals.                        *)
(***************************************************************************)
EXTENDS HttpDissect, FiniteSetTheorems, TLAPS

(* The first line has been read, and then the head's end found. *)
PastLine == pc \in {"head", "fields", "dissected", "crashed", "reported"}
PastHead == pc \in {"fields", "dissected", "crashed", "reported"}
PastFields == pc \in {"dissected", "crashed", "reported"}

(* Once the first line is read its flags are set, and its text is there;   *)
(* the other flags set are of the head of this direction.                  *)
LineRead ==
  /\ pc = "parts" => have = {} /\ offset = 0 /\ msg.lineEnd > 0
  /\ pc \in {"copy", "line"} => have = {} /\ offset = 0
  /\ PastLine =>
       /\ msg.lineEnd > 0
       /\ LineFields(dir) \subseteq have /\ have \subseteq LineFields(dir) \cup HeadFields(dir)
       /\ text[IF dir = "request" THEN "uri" ELSE "status_string"] # NULL

(* The head's lines are read one by one, from an end that was found. *)
HeadRead ==
  /\ pc = "head" => offset = msg.lineEnd + 2 /\ have = LineFields(dir)
  /\ PastHead => msg.headEnd >= 0 /\ line \in 1..(Split + 1)
  /\ PastFields => line = Split + 1

(* Of the lines seen so far: a flag has a line of its name; a line without *)
(* its flag was refused; a flag's text is that of a line, the last if none *)
(* was refused, or was lost to the refusal at a second line.               *)
Seen(f) == {n \in LinesOf(f) : n < line}

FieldRead(f) ==
  /\ f \in have => Seen(f) # {}
  /\ f \notin have => Seen(f) = {} \/ refusals > 0
  /\ f \in have /\ f \in PoolTexts =>
       \/ text[f] \in Seen(f) /\ (refusals = 0 => \A n \in Seen(f) : n <= text[f])
       \/ text[f] = NULL /\ refusals > 0 /\ \E a, b \in Seen(f) : a # b

FieldsRead == PastHead => \A f \in HeadFields(dir) : FieldRead(f)

(* The types of what the call changes itself. *)
Shape ==
  /\ pc \in {"copy", "line", "parts", "head", "fields", "dissected",
             "failed", "crashed", "reported"}
  /\ msg \in Messages /\ dir \in {"request", "response"}
  /\ offset \in Nat /\ line \in 0..(HeadMaxNum + 1)
  /\ have \in SUBSET Fields /\ text \in [PoolTexts -> Nat \cup {NULL}]

(* Of what the pool granted, only the status string is ever left without   *)
(* its zero.                                                               *)
PoolSound ==
  /\ exact \in {NULL, "status_string"}
  /\ runOn \in SUBSET {"status_string"}
  /\ refusals \in 0..MaxRefusals

(* The inductive invariant. *)
IInv == Shape /\ PoolSound /\ LineRead /\ HeadRead /\ FieldsRead

(* What http_s2j adds to it: a report has only what flags and texts there  *)
(* are; what it lacks, and a crash, were preceded by a refusal.            *)
ReportSound ==
  /\ pc # "reported" => report = {}
  /\ pc = "reported" =>
       /\ report \subseteq have
       /\ report # have => refusals > 0
       /\ \A f \in report \cap PoolTexts : text[f] # NULL
  /\ pc = "crashed" => refusals > 0

-----------------------------------------------------------------------------
(* The sizes of texts are granted, the negative ones are not. *)
LEMMA TextsFit ==
  ASSUME NEW n \in Nat, Representable(n)
  PROVE  Grantable(n + 1)
<1>1. Word \in Nat /\ Word > 0 /\ 2 * (n + 2) <= Word
  BY HttpAssumption DEF Representable
<1>2. (n + 1) % Word = n + 1
  BY <1>1
<1>3. n + 1 < Word \div 2
  BY <1>1
<1>4. QED
  BY <1>2, <1>3 DEF Grantable

LEMMA NegativeWraps ==
  ASSUME NEW n \in Nat, n > 0, 2 * n <= Word
  PROVE  ~Grantable(-n)
<1>1. Word \in Nat /\ Word > 0
  BY HttpAssumption
<1>2. (-n) % Word = Word - n
  BY <1>1
<1>3. Word - n >= Word \div 2
  BY <1>1
<1>4. QED
  BY <1>1, <1>2, <1>3 DEF Grantable

LEMMA ElementTyped ==
  ASSUME NEW S, NEW p \in Seq(S), NEW k \in 1..Len(p)
  PROVE  p[k] \in S
OBVIOUS

(* What a message is. *)
LEMMA MessageTyped ==
  ASSUME Shape
  PROVE  /\ msg.len \in Int /\ msg.lineEnd \in Nat \cup {-1} /\ msg.headEnd \in Nat \cup {-1}
         /\ msg.parts \in Seq([word : STRING, len : Nat])
         /\ Len(msg.heads) \in Nat /\ DOMAIN msg.heads = 1..Len(msg.heads)
         /\ \A n \in 1..Len(msg.heads) : msg.heads[n].len \in Nat /\ Representable(msg.heads[n].len)
         /\ msg.headEnd >= 0 => msg.headEnd >= msg.lineEnd + 2
         /\ Representable(msg.lineEnd)
         /\ Split \in 0..HeadMaxNum /\ Split <= Len(msg.heads)
<1>1. msg \in Messages
  BY DEF Shape
<1>2. msg.heads \in Seq([name : STRING, len : Nat])
  BY <1>1, HttpAssumption
<1>3. Len(msg.heads) \in Nat /\ DOMAIN msg.heads = 1..Len(msg.heads)
  BY <1>2
<1>4. \A n \in 1..Len(msg.heads) : msg.heads[n] \in [name : STRING, len : Nat]
  BY <1>2, ElementTyped
<1>5. \A n \in 1..Len(msg.heads) : msg.heads[n].len \in Nat
  BY <1>4
<1>6. Split \in 0..HeadMaxNum /\ Split <= Len(msg.heads)
  BY <1>3, HttpAssumption DEF Split
<1>7. QED
  BY <1>1, <1>3, <1>5, <1>6, HttpAssumption

(* An answer of the pool keeps its part of the invariant: what is granted  *)
(* has room for a zero, or is the status string, or no text at all.        *)
LEMMA GrantSound ==
  ASSUME PoolSound, NEW f, NEW n, NEW size, Grant(f, n, size),
         f \in {NULL, "status_string"} \/ ~(size <= n)
  PROVE  PoolSound' /\ refusals' = refusals /\ Grantable(size)
<1>1. exact' \in {NULL, "status_string"}
  BY DEF Grant
<1>2. runOn' \in SUBSET {"status_string"}
  BY DEF Grant, PoolSound
<1>3. QED
  BY <1>1, <1>2 DEF Grant, PoolSound

LEMMA RefusedSound ==
  ASSUME PoolSound, NEW size, Refused(size)
  PROVE  /\ PoolSound'
         /\ refusals' = refusals \/ refusals' = refusals + 1
         /\ Grantable(size) => refusals' > 0
  BY HttpAssumption DEF Refused, PoolSound

LEMMA AloneSound ==
  ASSUME PoolSound, UNCHANGED <<exact, runOn, refusals>>
  PROVE  PoolSound'
BY DEF PoolSound

LEMMA S2jSound ==
  ASSUME PoolSound, UNCHANGED <<exact, runOn>>, S2jRefused \/ UNCHANGED refusals
  PROVE  PoolSound' /\ refusals \in Nat /\ refusals' \in Nat /\ refusals' >= refusals
BY HttpAssumption DEF S2jRefused, PoolSound

(* The steps that give up have only the types left to keep. *)
LEMMA FailKeeps ==
  ASSUME IInv, PoolSound', pc' = "failed", UNCHANGED <<msg, dir, offset, line>>,
         have' \in SUBSET Fields, text' \in [PoolTexts -> Nat \cup {NULL}]
  PROVE  IInv'
<1>1. Shape'
  BY DEF IInv, Shape
<1>2. LineRead' /\ HeadRead' /\ FieldsRead'
  BY DEF LineRead, HeadRead, FieldsRead, PastLine, PastHead, PastFields
<1>3. QED
  BY <1>1, <1>2 DEF IInv

-----------------------------------------------------------------------------
LEMMA InitInv == Init => IInv
<1> SUFFICES ASSUME Init PROVE IInv
  OBVIOUS
<1>1. Shape
  BY HttpAssumption DEF Init, Shape
<1>2. PoolSound
  BY HttpAssumption DEF Init, PoolSound
<1>3. LineRead /\ HeadRead /\ FieldsRead
  BY DEF Init, LineRead, HeadRead, FieldsRead, PastLine, PastHead, PastFields
<1>4. QED
  BY <1>1, <1>2, <1>3 DEF IInv

(* The copies of the message and of its first line. *)
LEMMA CopyInv == IInv /\ Copy => IInv'
<1> SUFFICES ASSUME IInv, Copy PROVE IInv'
  OBVIOUS
<1>1. Shape'
  BY DEF Copy, IInv, Shape
<1>2. PoolSound'
  BY GrantSound, MessageTyped DEF Copy, IInv
<1>3. LineRead' /\ HeadRead' /\ FieldsRead'
  BY DEF Copy, IInv, LineRead, HeadRead, FieldsRead, PastLine, PastHead, PastFields
<1>4. QED
  BY <1>1, <1>2, <1>3 DEF IInv

LEMMA FindLineInv == IInv /\ FindLine => IInv'
<1> SUFFICES ASSUME IInv, FindLine PROVE IInv'
  OBVIOUS
<1>1. Shape'
  BY DEF FindLine, IInv, Shape
<1>2. PoolSound'
  BY GrantSound, MessageTyped DEF FindLine, IInv
<1>3. LineRead' /\ HeadRead' /\ FieldsRead'
  BY DEF FindLine, IInv, LineRead, HeadRead, FieldsRead, PastLine, PastHead, PastFields
<1>4. QED
  BY <1>1, <1>2, <1>3 DEF IInv

(* What the flags may be, by direction. *)
LEMMA FieldSets ==
  ASSUME dir \in {"request", "response"}
  PROVE  /\ LineFields(dir) \subseteq Fields /\ HeadFields(dir) \subseteq Fields
         /\ LineText.field = IF dir = "request" THEN "uri" ELSE "status_string"
         /\ LineText.field \in PoolTexts
         /\ \A f \in HeadFields(dir) : f \notin LineFields(dir) /\ f # LineText.field
         /\ LineFields(dir) \cap PoolTexts = {LineText.field}
<1>1. LineFields(dir) \subseteq Fields /\ HeadFields(dir) \subseteq Fields
  BY DEF Fields
<1>2. CASE dir = "request"
  BY <1>1, <1>2 DEF LineFields, HeadFields, RequestHeads, LineText, PoolTexts
<1>3. CASE dir = "response"
  BY <1>1, <1>3 DEF LineFields, HeadFields, ResponseHeads, LineText, PoolTexts
<1>4. QED
  BY <1>2, <1>3

LEMMA ParseLineInv == IInv /\ ParseLine => IInv'
<1> SUFFICES ASSUME IInv, ParseLine PROVE IInv'
  OBVIOUS
<1> DEFINE l == LineText.field
<1>1. /\ pc = "parts" /\ have = {} /\ offset = 0 /\ msg.lineEnd > 0 /\ msg.lineEnd \in Nat
      /\ dir \in {"request", "response"} /\ text \in [PoolTexts -> Nat \cup {NULL}]
  BY MessageTyped DEF ParseLine, IInv, Shape, LineRead
<1>2. /\ pc' = "head" /\ have' = LineFields(dir) /\ text' = [text EXCEPT ![l] = 1]
      /\ offset' = msg.lineEnd + 2 /\ msg' = msg /\ dir' = dir /\ line' = line
  BY <1>1 DEF ParseLine, AfterLine
<1>3. /\ l \in PoolTexts /\ LineFields(dir) \subseteq Fields
      /\ l = IF dir = "request" THEN "uri" ELSE "status_string"
  BY <1>1, FieldSets
<1> HIDE DEF l
<1>4. text' \in [PoolTexts -> Nat \cup {NULL}] /\ text'[l] = 1 /\ 1 # NULL
  BY <1>1, <1>2, <1>3, HttpAssumption
<1>5. Shape'
  BY <1>1, <1>2, <1>3, <1>4 DEF IInv, Shape
<1>6. PoolSound'
  <2>1. Grant(l, LineText.n, LineText.size) /\ PoolSound /\ HasPart(3)
    BY DEF ParseLine, IInv, l
  <2>2. dir = "request" => LineText.n \in Nat /\ LineText.size = LineText.n + 1
    <3>1. 2 \in 1..Len(msg.parts) /\ msg.parts \in Seq([word : STRING, len : Nat])
      BY <2>1, MessageTyped DEF HasPart, IInv
    <3>2. msg.parts[2] \in [word : STRING, len : Nat]
      BY <3>1, ElementTyped
    <3>3. QED
      BY <3>2 DEF LineText, Part
  <2>3. l = "status_string" \/ ~(LineText.size <= LineText.n)
    BY <1>1, <1>3, <2>2
  <2>4. QED
    BY <2>1, <2>3, GrantSound
<1>7. LineRead'
  <2>1. text'[IF dir' = "request" THEN "uri" ELSE "status_string"] # NULL
    BY <1>2, <1>3, <1>4
  <2>2. QED
    BY <1>1, <1>2, <2>1 DEF LineRead, PastLine
<1>8. HeadRead' /\ FieldsRead'
  BY <1>2 DEF HeadRead, FieldsRead, PastHead, PastFields
<1>9. QED
  BY <1>5, <1>6, <1>7, <1>8 DEF IInv

(* A head that does not end: the length made of it is negative. *)
LEMMA FindHeadInv == IInv /\ FindHead => IInv'
<1> SUFFICES ASSUME IInv, FindHead PROVE IInv'
  OBVIOUS
<1>1. /\ pc = "head" /\ offset = msg.lineEnd + 2 /\ have = LineFields(dir)
      /\ msg.lineEnd \in Nat /\ msg.headEnd \in Nat \cup {-1} /\ Representable(msg.lineEnd)
      /\ Split \in Nat
  BY MessageTyped DEF FindHead, IInv, Shape, LineRead, HeadRead, PastLine
<1>2. /\ pc' = "fields" /\ line' = 1 /\ offset' = offset + msg.headEnd + 4
      /\ msg' = msg /\ dir' = dir /\ have' = have /\ text' = text
  BY DEF FindHead
<1>3. Grant(NULL, 0, HeadSize) /\ PoolSound
  BY DEF FindHead, IInv
<1>4. PoolSound' /\ Grantable(HeadSize)
  BY <1>3, GrantSound
<1>5. msg.headEnd >= 0
  <2> SUFFICES ASSUME msg.headEnd = -1 PROVE FALSE
    BY <1>1
  <2>1. HeadSize = -(msg.lineEnd + 2)
    BY <1>1 DEF HeadSize
  <2>2. ~Grantable(-(msg.lineEnd + 2))
    BY <1>1, NegativeWraps DEF Representable
  <2>3. QED
    BY <1>4, <2>1, <2>2
<1>6. Shape'
  <2>1. offset' = (msg.lineEnd + 2) + msg.headEnd + 4
    BY <1>1, <1>2
  <2>2. (msg.lineEnd + 2) + msg.headEnd + 4 \in Nat
    BY <1>1, <1>5
  <2>3. 1 \in 0..(HeadMaxNum + 1)
    BY HttpAssumption
  <2>4. offset' \in Nat /\ line' \in 0..(HeadMaxNum + 1)
    BY <1>2, <2>1, <2>2, <2>3, Zenon
  <2>5. QED
    BY <1>2, <2>4 DEF IInv, Shape
<1>7. LineRead'
  BY <1>1, <1>2 DEF IInv, LineRead, PastLine
<1>8. HeadRead'
  BY <1>1, <1>2, <1>5 DEF HeadRead, PastHead, PastFields, Split
<1>9. FieldsRead'
  <2>1. \A f : Seen(f)' = {}
    BY <1>2 DEF Seen, LinesOf
  <2>2. \A f \in HeadFields(dir) : f \notin have'
    BY <1>1, <1>2, FieldSets DEF IInv, Shape
  <2>3. QED
    BY <1>2, <2>1, <2>2 DEF FieldsRead, FieldRead
<1>10. QED
  BY <1>4, <1>6, <1>7, <1>8, <1>9 DEF IInv

(* The steps that give up before the head's lines. *)
LEMMA EarlyFailInv == IInv /\ (CopyFails \/ FindLineFails \/ FindHeadFails \/ S2jFails) => IInv'
<1> SUFFICES ASSUME IInv, CopyFails \/ FindLineFails \/ FindHeadFails \/ S2jFails PROVE IInv'
  OBVIOUS
<1>1. PoolSound
  BY DEF IInv
<1>2. PoolSound'
  BY <1>1, RefusedSound, AloneSound, S2jSound DEF CopyFails, FindLineFails, FindHeadFails, S2jFails
<1>3. pc' = "failed" /\ UNCHANGED <<msg, dir, offset, line, have, text>>
  BY DEF CopyFails, FindLineFails, FindHeadFails, S2jFails, Fail
<1>4. have' \in SUBSET Fields /\ text' \in [PoolTexts -> Nat \cup {NULL}]
  BY <1>3 DEF IInv, Shape
<1>5. QED
  BY <1>2, <1>3, <1>4, FailKeeps

LEMMA ParseLineFailsInv == IInv /\ ParseLineFails => IInv'
<1> SUFFICES ASSUME IInv, ParseLineFails PROVE IInv'
  OBVIOUS
<1>1. PoolSound /\ have \in SUBSET Fields /\ dir \in {"request", "response"}
  BY DEF IInv, Shape
<1>2. PoolSound'
  BY <1>1, RefusedSound, AloneSound DEF ParseLineFails
<1>3. pc' = "failed" /\ UNCHANGED <<msg, dir, offset, line, text>>
  BY DEF ParseLineFails, Fail
<1>4. have' \in SUBSET Fields
  <2>1. (IF dir = "request" THEN "method" ELSE "resp_version") \in LineFields(dir)
    BY <1>1 DEF LineFields
  <2>2. LineFields(dir) \subseteq Fields
    BY <1>1, FieldSets
  <2>3. QED
    BY <1>1, <2>1, <2>2 DEF ParseLineFails
<1>5. text' \in [PoolTexts -> Nat \cup {NULL}]
  BY <1>3 DEF IInv, Shape
<1>6. QED
  BY <1>2, <1>3, <1>4, <1>5, FailKeeps

-----------------------------------------------------------------------------
(* The line looked at is one of the head, and adds itself to the lines     *)
(* seen of its own name, to no others.                                     *)
LEMMA LineAtHand ==
  ASSUME IInv, More
  PROVE  /\ line \in 1..Split /\ Split \in Nat /\ Split \in 0..HeadMaxNum
         /\ line \in 1..HeadMaxNum /\ line <= Len(msg.heads)
         /\ HeadLine.len \in Nat /\ Grantable(HeadLine.len + 1)
         /\ line \in LinesOf(HeadLine.name)
<1>1. /\ line \in 1..(Split + 1) /\ line <= Split
      /\ Split \in 0..HeadMaxNum /\ Split <= Len(msg.heads) /\ Len(msg.heads) \in Nat
      /\ \A n \in 1..Len(msg.heads) : msg.heads[n].len \in Nat /\ Representable(msg.heads[n].len)
  BY MessageTyped DEF More, IInv, HeadRead, PastHead
<1>2. line \in 1..HeadMaxNum /\ line \in 1..Len(msg.heads) /\ line \in 1..Split
  BY <1>1, HttpAssumption
<1>3. HeadLine.len \in Nat /\ Grantable(HeadLine.len + 1)
  BY <1>1, <1>2, TextsFit DEF HeadLine
<1>4. line \in LinesOf(HeadLine.name)
  BY <1>2 DEF LinesOf, HeadLine
<1>5. QED
  BY <1>1, <1>2, <1>3, <1>4

LEMMA SeenGrows ==
  ASSUME IInv, More, Advance, NEW f
  PROVE  /\ Seen(f)' = IF HeadLine.name = f THEN Seen(f) \cup {line} ELSE Seen(f)
         /\ \A n \in Seen(f) : n \in Nat /\ n < line
         /\ line \in Nat
<1>1. line \in 1..HeadMaxNum /\ line <= Len(msg.heads) /\ line \in LinesOf(HeadLine.name)
  BY LineAtHand
<1>2. line' = line + 1 /\ msg' = msg
  BY DEF Advance
<1>3. LinesOf(f) \subseteq Nat /\ (line \in LinesOf(f) <=> HeadLine.name = f)
  BY <1>1, HttpAssumption DEF LinesOf, HeadLine
<1>4. LinesOf(f)' = LinesOf(f)
  BY <1>2 DEF LinesOf
<1>5. Seen(f)' = {n \in LinesOf(f) : n < line + 1}
  BY <1>2, <1>4 DEF Seen
<1>6. \A n \in LinesOf(f) : n < line + 1 <=> n < line \/ n = line
  BY <1>1, <1>3
<1>7. {n \in LinesOf(f) : n < line + 1} = IF HeadLine.name = f THEN Seen(f) \cup {line} ELSE Seen(f)
  BY <1>3, <1>6 DEF Seen
<1>8. QED
  BY <1>1, <1>3, <1>5, <1>7 DEF Seen

(* What the steps over the head's lines have in common: they keep all but  *)
(* what is read of the line at hand.                                       *)
LEMMA LineKeeps ==
  ASSUME IInv, More, Advance, PoolSound',
         have' \in SUBSET Fields, text' \in [PoolTexts -> Nat \cup {NULL}],
         have \subseteq have', have' \subseteq have \cup HeadFields(dir),
         \A f \in PoolTexts \ HeadFields(dir) : text'[f] = text[f],
         \A f \in HeadFields(dir) : FieldRead(f)'
  PROVE  IInv'
<1>1. /\ pc = "fields" /\ pc' = pc /\ msg' = msg /\ dir' = dir /\ offset' = offset
      /\ line' = line + 1
  BY DEF More, Advance
<1>2. line \in 1..Split /\ Split \in 0..HeadMaxNum
  BY LineAtHand
<1>3. Shape'
  BY <1>1, <1>2, HttpAssumption DEF IInv, Shape
<1>4. LineRead'
  <2> DEFINE l == IF dir = "request" THEN "uri" ELSE "status_string"
  <2>1. l \in PoolTexts /\ l \notin HeadFields(dir)
    BY FieldSets DEF IInv, Shape
  <2>2. text[l] # NULL /\ LineFields(dir) \subseteq have
        /\ have \subseteq LineFields(dir) \cup HeadFields(dir) /\ msg.lineEnd > 0
    BY <1>1 DEF IInv, LineRead, PastLine
  <2> HIDE DEF l
  <2>3. text'[l] # NULL
    BY <2>1, <2>2
  <2>4. QED
    BY <1>1, <2>2, <2>3 DEF LineRead, PastLine, l
<1>5. HeadRead'
  <2>1. Split' = Split
    BY <1>1 DEF Split
  <2>2. QED
    BY <1>1, <1>2, <2>1 DEF IInv, HeadRead, PastHead, PastFields
<1>6. FieldsRead'
  BY <1>1 DEF FieldsRead
<1>7. QED
  BY <1>3, <1>4, <1>5, <1>6 DEF IInv

(* A line that is not the field's leaves it as it was. *)
LEMMA OtherFieldKeeps ==
  ASSUME IInv, More, Advance, NEW f \in HeadFields(dir), HeadLine.name # f,
         f \in have' <=> f \in have, f \in PoolTexts => text'[f] = text[f],
         refusals' >= refusals,
         refusals' \in Nat, refusals \in Nat
  PROVE  FieldRead(f)'
<1>1. FieldRead(f)
  BY DEF IInv, FieldsRead, PastHead, More
<1>2. Seen(f)' = Seen(f)
  BY SeenGrows
<1>3. refusals' = 0 => refusals = 0
  OBVIOUS
<1>4. refusals > 0 => refusals' > 0
  OBVIOUS
<1>5. QED
  BY <1>1, <1>2, <1>3, <1>4 DEF FieldRead

LEMMA FieldTextInv == IInv /\ FieldText => IInv'
<1> SUFFICES ASSUME IInv, FieldText PROVE IInv'
  OBVIOUS
<1> DEFINE name == HeadLine.name
<1>1. /\ More /\ Advance /\ name \in HeadFields(dir) /\ name \in PoolTexts
      /\ Grant(name, HeadLine.len, HeadLine.len + 1)
      /\ have' = have \cup {name} /\ text' = [text EXCEPT ![name] = line]
  BY DEF FieldText, Known
<1>2. /\ have \in SUBSET Fields /\ text \in [PoolTexts -> Nat \cup {NULL}] /\ PoolSound
      /\ HeadFields(dir) \subseteq Fields
  BY FieldSets DEF IInv, Shape
<1>3. line \in Nat /\ HeadLine.len \in Nat
  BY <1>1, LineAtHand
<1>4. PoolSound' /\ refusals' = refusals
  BY <1>1, <1>2, <1>3, GrantSound
<1>5. refusals \in Nat
  BY <1>2, HttpAssumption DEF PoolSound
<1> HIDE DEF name
<1>6. text' \in [PoolTexts -> Nat \cup {NULL}] /\ text'[name] = line
      /\ \A f \in PoolTexts : f # name => text'[f] = text[f]
  BY <1>1, <1>2, <1>3
<1>7. ASSUME NEW f \in HeadFields(dir) PROVE FieldRead(f)'
  <2>1. CASE f = name
    <3>1. Seen(f)' = Seen(f) \cup {line} /\ \A n \in Seen(f) : n \in Nat /\ n < line
      BY <1>1, <2>1, SeenGrows DEF name
    <3>2. f \in have' /\ text'[f] = line
      BY <1>1, <1>6, <2>1
    <3>3. \A n \in Seen(f)' : n <= line
      BY <1>3, <3>1
    <3>4. QED
      BY <3>1, <3>2, <3>3 DEF FieldRead
  <2>2. CASE f # name
    <3>1. f \in have' <=> f \in have
      BY <1>1, <2>2
    <3>2. QED
      BY <1>1, <1>4, <1>5, <1>6, <2>2, <3>1, OtherFieldKeeps DEF name
  <2>3. QED
    BY <2>1, <2>2
<1>8. have' \in SUBSET Fields /\ have \subseteq have' /\ have' \subseteq have \cup HeadFields(dir)
  BY <1>1, <1>2
<1>9. \A f \in PoolTexts \ HeadFields(dir) : text'[f] = text[f]
  BY <1>1, <1>6
<1>10. QED
  BY <1>1, <1>4, <1>6, <1>7, <1>8, <1>9, LineKeeps

(* A refusal: at the first line of a name the flag is not set and stays    *)
(* so; at a second, the flag loses its text.                               *)
LEMMA FieldRefusedInv == IInv /\ FieldRefused => IInv'
<1> SUFFICES ASSUME IInv, FieldRefused PROVE IInv'
  OBVIOUS
<1> DEFINE name == HeadLine.name
<1>1. /\ More /\ Advance /\ name \in HeadFields(dir) /\ name \in PoolTexts
      /\ Refused(HeadLine.len + 1)
      /\ have' = have /\ text' = [text EXCEPT ![name] = NULL]
  BY DEF FieldRefused, Known
<1>2. /\ have \in SUBSET Fields /\ text \in [PoolTexts -> Nat \cup {NULL}] /\ PoolSound
  BY DEF IInv, Shape
<1>3. line \in Nat /\ Grantable(HeadLine.len + 1)
  BY <1>1, LineAtHand
<1>4. PoolSound' /\ refusals' > 0 /\ refusals' >= refusals /\ refusals \in Nat /\ refusals' \in Nat
  <2>1. /\ PoolSound' /\ refusals' > 0 /\ (refusals' = refusals \/ refusals' = refusals + 1)
    BY <1>1, <1>2, <1>3, RefusedSound
  <2>2. refusals \in Nat
    BY <1>2, HttpAssumption DEF PoolSound
  <2>3. QED
    BY <2>1, <2>2
<1> HIDE DEF name
<1>5. text' \in [PoolTexts -> Nat \cup {NULL}] /\ text'[name] = NULL
      /\ \A f \in PoolTexts : f # name => text'[f] = text[f]
  BY <1>1, <1>2
<1>6. ASSUME NEW f \in HeadFields(dir) PROVE FieldRead(f)'
  <2>1. CASE f = name
    <3>1. /\ Seen(f)' = Seen(f) \cup {line}
          /\ \A n \in Seen(f) : n \in Nat /\ n < line
      BY <1>1, <2>1, SeenGrows DEF name
    <3>2. f \in have => Seen(f) # {}
      BY <1>1 DEF IInv, FieldsRead, FieldRead, PastHead, More
    <3>3. f \in have => \E a, b \in Seen(f)' : a # b
      <4> SUFFICES ASSUME f \in have PROVE \E a, b \in Seen(f)' : a # b
        OBVIOUS
      <4>1. PICK a \in Seen(f) : TRUE
        BY <3>2
      <4>2. a \in Seen(f)' /\ line \in Seen(f)' /\ a # line
        BY <1>3, <3>1
      <4>3. QED
        BY <4>2
    <3>4. text'[f] = NULL /\ (f \in have' <=> f \in have)
      BY <1>1, <1>5, <2>1
    <3>5. QED
      BY <1>4, <3>1, <3>3, <3>4 DEF FieldRead
  <2>2. CASE f # name
    BY <1>1, <1>4, <1>5, <2>2, OtherFieldKeeps DEF name
  <2>3. QED
    BY <2>1, <2>2
<1>7. have' \in SUBSET Fields /\ have \subseteq have' /\ have' \subseteq have \cup HeadFields(dir)
  BY <1>1, <1>2
<1>8. \A f \in PoolTexts \ HeadFields(dir) : text'[f] = text[f]
  BY <1>1, <1>5
<1>9. QED
  BY <1>1, <1>4, <1>5, <1>6, <1>7, <1>8, LineKeeps

LEMMA FieldNumberInv == IInv /\ FieldNumber => IInv'
<1> SUFFICES ASSUME IInv, FieldNumber PROVE IInv'
  OBVIOUS
<1> DEFINE name == HeadLine.name
<1>1. /\ More /\ Advance /\ name \in HeadFields(dir) /\ name \notin PoolTexts
      /\ have' = have \cup {name} /\ text' = text /\ UNCHANGED <<exact, runOn, refusals>>
  BY DEF FieldNumber, Known
<1>2. /\ have \in SUBSET Fields /\ text \in [PoolTexts -> Nat \cup {NULL}] /\ PoolSound
      /\ HeadFields(dir) \subseteq Fields
  BY FieldSets DEF IInv, Shape
<1>3. PoolSound' /\ refusals \in Nat
  BY <1>1, <1>2, AloneSound, HttpAssumption DEF PoolSound
<1> HIDE DEF name
<1>4. ASSUME NEW f \in HeadFields(dir) PROVE FieldRead(f)'
  <2>1. CASE f = name
    <3>1. line \in Seen(f)'
      BY <1>1, <2>1, SeenGrows DEF name
    <3>2. f \in have' /\ f \notin PoolTexts
      BY <1>1, <2>1
    <3>3. QED
      BY <3>1, <3>2 DEF FieldRead
  <2>2. CASE f # name
    <3>1. f \in have' <=> f \in have
      BY <1>1, <2>2
    <3>2. QED
      BY <1>1, <1>3, <2>2, <3>1, OtherFieldKeeps DEF name
  <2>3. QED
    BY <2>1, <2>2
<1>5. /\ have' \in SUBSET Fields /\ have \subseteq have' /\ have' \subseteq have \cup HeadFields(dir)
      /\ text' \in [PoolTexts -> Nat \cup {NULL}]
      /\ \A f \in PoolTexts \ HeadFields(dir) : text'[f] = text[f]
  BY <1>1, <1>2
<1>6. QED
  BY <1>1, <1>3, <1>4, <1>5, LineKeeps

LEMMA FieldOtherInv == IInv /\ FieldOther => IInv'
<1> SUFFICES ASSUME IInv, FieldOther PROVE IInv'
  OBVIOUS
<1>1. /\ More /\ Advance /\ HeadLine.name \notin HeadFields(dir)
      /\ have' = have /\ text' = text /\ UNCHANGED <<exact, runOn, refusals>>
  BY DEF FieldOther, Known
<1>2. have \in SUBSET Fields /\ text \in [PoolTexts -> Nat \cup {NULL}] /\ PoolSound
  BY DEF IInv, Shape
<1>3. PoolSound' /\ refusals \in Nat
  BY <1>1, <1>2, AloneSound, HttpAssumption DEF PoolSound
<1>4. ASSUME NEW f \in HeadFields(dir) PROVE FieldRead(f)'
  BY <1>1, <1>3, OtherFieldKeeps
<1>5. QED
  BY <1>1, <1>2, <1>3, <1>4, LineKeeps

(* The end of the loop, and what http_s2j comes to. *)
LEMMA EndInv == IInv /\ (EndFields \/ S2j \/ S2jCrashes) => IInv'
<1> SUFFICES ASSUME IInv, EndFields \/ S2j \/ S2jCrashes PROVE IInv'
  OBVIOUS
<1>1. /\ pc' \in {"dissected", "crashed", "reported"} /\ PastHead /\ PastLine /\ pc # "parts"
      /\ UNCHANGED <<msg, dir, offset, line, have, text, exact, runOn>>
      /\ S2jRefused \/ UNCHANGED refusals
  BY DEF EndFields, S2j, S2jCrashes, PastHead, PastLine
<1>2. line = Split + 1
  <2>1. line \in 1..(Split + 1) /\ Split \in Nat
    BY <1>1, MessageTyped DEF IInv, HeadRead
  <2>2. CASE EndFields
    BY <2>1, <2>2 DEF EndFields
  <2>3. CASE S2j \/ S2jCrashes
    BY <2>3 DEF S2j, S2jCrashes, IInv, HeadRead, PastFields
  <2>4. QED
    BY <2>2, <2>3
<1>3. PoolSound' /\ refusals \in Nat /\ refusals' \in Nat /\ refusals' >= refusals
  BY <1>1, S2jSound DEF IInv
<1>4. Shape'
  BY <1>1 DEF IInv, Shape
<1>5. LineRead'
  BY <1>1 DEF IInv, LineRead, PastLine
<1>6. HeadRead'
  BY <1>1, <1>2 DEF IInv, HeadRead, PastHead, PastFields, Split
<1>7. FieldsRead'
  <2>1. (refusals' = 0 => refusals = 0) /\ (refusals > 0 => refusals' > 0)
    BY <1>3
  <2>2. ASSUME NEW f \in HeadFields(dir) PROVE FieldRead(f)'
    <3>1. FieldRead(f) /\ Seen(f)' = Seen(f)
      BY <1>1 DEF IInv, FieldsRead, Seen, LinesOf
    <3>2. QED
      BY <1>1, <2>1, <3>1 DEF FieldRead
  <2>3. QED
    BY <1>1, <2>2 DEF FieldsRead
<1>8. QED
  BY <1>3, <1>4, <1>5, <1>6, <1>7 DEF IInv

LEMMA StutterInv == IInv /\ UNCHANGED vars => IInv'
<1> SUFFICES ASSUME IInv, UNCHANGED vars PROVE IInv'
  OBVIOUS
<1>1. Shape' /\ PoolSound'
  BY AloneSound DEF vars, IInv, Shape
<1>2. LineRead' /\ HeadRead'
  BY DEF vars, IInv, LineRead, HeadRead, PastLine, PastHead, PastFields, Split
<1>3. FieldsRead'
  BY DEF vars, IInv, FieldsRead, FieldRead, Seen, LinesOf, PastHead
<1>4. QED
  BY <1>1, <1>2, <1>3 DEF IInv

-----------------------------------------------------------------------------
(* What holds of every call: the invariant is inductive. *)
THEOREM HttpInvariant == Spec => []IInv
<1>1. Init => IInv
  BY InitInv
<1>2. IInv /\ [Next]_vars => IInv'
  BY CopyInv, FindLineInv, ParseLineInv, ParseLineFailsInv, FindHeadInv, EarlyFailInv,
     FieldTextInv, FieldRefusedInv, FieldNumberInv, FieldOtherInv, EndInv, StutterInv
     DEF Next
<1>3. QED
  BY <1>1, <1>2, PTL DEF Spec

(* A head that does not end is refused, though find_http_head's -1 is not  *)
(* looked at.                                                              *)
THEOREM HttpUnendedHeadRejected == Spec => []UnendedHeadRejected
<1>1. IInv => UnendedHeadRejected
  BY DEF IInv, LineRead, HeadRead, PastLine, PastHead, UnendedHeadRejected, Through
<1>2. QED
  BY <1>1, HttpInvariant, PTL

(* After the loop every line that counts was seen. *)
LEMMA AllSeen ==
  ASSUME IInv, PastFields, NEW f
  PROVE  LinesOf(f) = Seen(f) /\ LinesOf(f) \subseteq 1..HeadMaxNum
<1>1. line = Split + 1 /\ Len(msg.heads) \in Nat /\ HeadMaxNum \in Nat
  BY MessageTyped, HttpAssumption DEF IInv, HeadRead
<1>2. \A n \in LinesOf(f) : n < line
  BY <1>1 DEF LinesOf, Split
<1>3. QED
  BY <1>2 DEF Seen, LinesOf

LEMMA TwoElements ==
  ASSUME NEW S, IsFiniteSet(S), NEW a \in S, NEW b \in S, a # b
  PROVE  Cardinality(S) > 1
<1>1. Cardinality({a}) = 1 /\ IsFiniteSet({a})
  BY FS_Singleton
<1>2. Cardinality({a} \cup {b}) = 2
  BY <1>1, FS_AddElement
<1>3. Cardinality({a} \cup {b}) <= Cardinality(S) /\ Cardinality(S) \in Nat
  BY FS_Subset, FS_CardinalityType
<1>4. QED
  BY <1>2, <1>3

(* A flag without a text was refused the one of the second line. *)
LEMMA FlagRefused ==
  ASSUME IInv, PastFields, NEW f \in have \cap PoolTexts, text[f] = NULL
  PROVE  refusals > 0 /\ Cardinality(LinesOf(f)) > 1
<1>1. PastHead /\ PastLine
  BY DEF PastFields, PastHead, PastLine
<1>2. f \in HeadFields(dir)
  <2>1. f \in LineFields(dir) \cup HeadFields(dir)
    BY <1>1 DEF IInv, LineRead
  <2>2. f \in LineFields(dir) => f = LineText.field
    BY FieldSets DEF IInv, Shape
  <2>3. text[LineText.field] # NULL
    BY <1>1, FieldSets DEF IInv, Shape, LineRead
  <2>4. QED
    BY <2>1, <2>2, <2>3
<1>3. FieldRead(f)
  BY <1>1, <1>2 DEF IInv, FieldsRead
<1>4. LinesOf(f) = Seen(f) /\ LinesOf(f) \subseteq 1..HeadMaxNum
  BY AllSeen
<1>5. IsFiniteSet(LinesOf(f)) /\ NULL \notin LinesOf(f)
  <2>1. IsFiniteSet(1..HeadMaxNum) /\ NULL \notin 1..HeadMaxNum
    BY FS_Interval, HttpAssumption
  <2>2. QED
    BY <1>4, <2>1, FS_Subset
<1>6. refusals > 0 /\ \E a, b \in LinesOf(f) : a # b
  BY <1>3, <1>4, <1>5 DEF FieldRead
<1>7. QED
  BY <1>5, <1>6, TwoElements

(* The steps of http_dissect_data make no report. *)
LEMMA EarlierKeeps ==
  ASSUME ReportSound, [Next]_vars, ~S2j, ~S2jFails, ~S2jCrashes
  PROVE  ReportSound'
<1>1. CASE UNCHANGED vars
  BY <1>1 DEF ReportSound, vars
<1>2. CASE ~(UNCHANGED vars)
  <2>1. pc # "reported" /\ pc' \notin {"reported", "crashed"} /\ report' = report
    BY <1>2 DEF Next, Copy, CopyFails, FindLine, FindLineFails, ParseLine, ParseLineFails,
                FindHead, FindHeadFails, FieldText, FieldRefused, FieldNumber, FieldOther,
                EndFields, Fail, Advance, More
  <2>2. QED
    BY <2>1 DEF ReportSound
<1>3. QED
  BY <1>1, <1>2

LEMMA ReportInv == IInv /\ ReportSound /\ [Next]_vars => ReportSound'
<1> SUFFICES ASSUME IInv, ReportSound, [Next]_vars PROVE ReportSound'
  OBVIOUS
<1>1. refusals \in Nat /\ (S2jRefused => refusals' > 0)
  BY HttpAssumption DEF IInv, PoolSound, S2jRefused
<1>2. CASE S2j
  <2>1. /\ pc' = "reported" /\ report' \in SUBSET have /\ have' = have /\ text' = text
        /\ report' # have => refusals' > 0
        /\ \A f \in report' \cap PoolTexts : text[f] # NULL
    BY <1>1, <1>2 DEF S2j
  <2>2. QED
    BY <2>1 DEF ReportSound
<1>3. CASE S2jFails
  BY <1>3 DEF S2jFails, Fail, ReportSound
<1>4. CASE S2jCrashes
  <2>1. pc = "dissected" /\ pc' = "crashed" /\ report' = report
    BY <1>4 DEF S2jCrashes
  <2>2. refusals' > 0
    <3>1. CASE S2jRefused
      BY <1>1, <3>1
    <3>2. CASE ~S2jRefused
      <4>1. (\E f \in have \cap PoolTexts : text[f] = NULL) /\ refusals' = refusals
        BY <1>4, <3>2 DEF S2jCrashes
      <4>2. refusals > 0
        BY <2>1, <4>1, FlagRefused DEF PastFields
      <4>3. QED
        BY <4>1, <4>2
    <3>3. QED
      BY <3>1, <3>2
  <2>3. QED
    BY <2>1, <2>2 DEF ReportSound
<1>5. QED
  BY <1>2, <1>3, <1>4, EarlierKeeps

(* Whatever malloc refuses it, http_s2j reports only what has a flag and a *)
(* text; a report lacks something, and http_s2j crashes, only after a      *)
(* refusal.                                                                *)
THEOREM HttpReportSound == Spec => []ReportSound
<1>1. Init => ReportSound
  BY DEF Init, ReportSound
<1>2. IInv /\ ReportSound /\ [Next]_vars => ReportSound'
  BY ReportInv
<1>3. QED
  BY <1>1, <1>2, HttpInvariant, PTL DEF Spec

(* The types; the loop over the head's lines stays in the array of split.  *)
THEOREM HttpTypeCorrect == Spec => []HttpTypeOK
<1>1. IInv /\ ReportSound => HttpTypeOK
  <2>1. "status_string" \in PoolTexts
    BY DEF PoolTexts
  <2>2. ASSUME IInv, ReportSound PROVE report \in SUBSET Fields
    BY <2>2 DEF IInv, Shape, ReportSound
  <2>3. QED
    BY <2>1, <2>2 DEF IInv, Shape, PoolSound, HttpTypeOK
<1>2. QED
  BY <1>1, HttpInvariant, HttpReportSound, PTL

(* http_dissect_data accepts nothing whose first line it has not read to   *)
(* its end, whatever the pool refuses; a report that lacks a part of it    *)
(* was refused memory.                                                     *)
THEOREM HttpStartLineComplete == Spec => []StartLineComplete
<1>1. IInv /\ ReportSound => StartLineComplete
  <2> SUFFICES ASSUME IInv, ReportSound, Through PROVE
          /\ LineFields(dir) \subseteq have
          /\ LineFields(dir) \subseteq Told \/ (pc = "reported" /\ refusals > 0)
    BY DEF StartLineComplete
  <2>1. LineFields(dir) \subseteq have
    BY DEF IInv, LineRead, PastLine, Through
  <2>2. Told = have \/ (pc = "reported" /\ refusals > 0)
    BY DEF Told, ReportSound
  <2>3. QED
    BY <2>1, <2>2
<1>2. QED
  BY <1>1, HttpInvariant, HttpReportSound, PTL

(* When nothing is refused, the report has the fields of the head that the *)
(* lines looked at have, and of each the last line's text.                 *)
THEOREM HttpFieldsFromHead == Spec => []FieldsFromHead
<1>1. IInv /\ ReportSound => FieldsFromHead
  <2> SUFFICES ASSUME IInv, ReportSound, Through, refusals = 0, NEW f \in HeadFields(dir)
               PROVE  /\ f \in Told <=> LinesOf(f) # {}
                      /\ f \in Told \cap PoolTexts =>
                           text[f] \in LinesOf(f) /\ \A n \in LinesOf(f) : n <= text[f]
    BY DEF FieldsFromHead
  <2>1. PastFields /\ PastHead
    BY DEF Through, PastFields, PastHead
  <2>2. FieldRead(f) /\ LinesOf(f) = Seen(f)
    BY <2>1, AllSeen DEF IInv, FieldsRead
  <2>3. Told = have
    BY DEF Told, ReportSound
  <2>4. QED
    BY <2>2, <2>3 DEF FieldRead
<1>2. QED
  BY <1>1, HttpInvariant, HttpReportSound, PTL

(* http_s2j meets a flag without a text only after a refusal at the second *)
(* line of one name, and reports none; without a refusal it does not       *)
(* crash.                                                                  *)
THEOREM HttpFlagHasText == Spec => []FlagHasText
<1>1. IInv /\ ReportSound => FlagHasText
  <2> SUFFICES ASSUME IInv, ReportSound, Through \/ pc = "crashed",
                      NEW f \in have \cap PoolTexts, text[f] = NULL
               PROVE  refusals > 0 /\ Cardinality(LinesOf(f)) > 1 /\ f \notin report
    BY DEF FlagHasText, ReportSound
  <2>1. PastFields
    BY DEF Through, PastFields
  <2>2. f \notin report
    BY DEF ReportSound
  <2>3. QED
    BY <2>1, <2>2, FlagRefused
<1>2. QED
  BY <1>1, HttpInvariant, HttpReportSound, PTL

(* The end of every text but the status string's survives whatever the     *)
(* pool grants next to it.                                                 *)
THEOREM HttpTextsEnd == Spec => []TextsEnd
<1>1. IInv => TextsEnd
  BY DEF IInv, PoolSound, TextsEnd
<1>2. QED
  BY <1>1, HttpInvariant, PTL
=============================================================================
