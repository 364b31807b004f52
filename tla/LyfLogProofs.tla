---------------------------- MODULE LyfLogProofs ----------------------------
(***************************************************************************)
(* Proofs about LyfLog for any number of monitors, any limit, lines of any *)
(* number of pieces and any bounds.                                        *)
(***************************************************************************)
EXTENDS LyfLog, FiniteSetTheorems, TLAPS

(* A call that has not come to the file yet. *)
Asking == {"error", "info", "debug", "decide"}

(* The answer of a level file is known: it turned its levels on, or it was *)
(* missing at some time of the call.                                       *)
Known(c, f) == TurnsOn[f] \subseteq c.check \/ f \in c.off

(* While a call asks, its history has the level files of now; what it has  *)
(* turned on, a file did; and of each file it has asked it knows.          *)
Honest(c, files) ==
  /\ c.pc \in Asking => files \subseteq c.on /\ Levels \ files \subseteq c.off
  /\ c.pc \in Asking => \A l \in c.check : Enabling[l] \cap c.on # {}
  /\ c.pc \in {"info", "debug", "decide"} => Known(c, "error")
  /\ c.pc \in {"debug", "decide"} => Known(c, "info")
  /\ c.pc = "decide" => Known(c, "debug")

(* LevelsHonoured, of one call. *)
Honoured(c) ==
  /\ c.pc = "stat" => Enabling[c.level] \cap c.on # {}
  /\ c.pc = "skip" => Enabling[c.level] \subseteq c.off /\ c.on # {}
  /\ c.pc = "print" => c.off = Levels

LevelsInv == \A m \in Monitors : Honest(call[m], flags) /\ Honoured(call[m])

-----------------------------------------------------------------------------
(* The tables: a file turns a level on if the level names it. *)
LEMMA LevelTables ==
  /\ Levels = {"error", "info", "debug"}
  /\ \A f \in Levels : TurnsOn[f] \in SUBSET Levels /\ f \in TurnsOn[f]
  /\ \A f, l \in Levels : l \in TurnsOn[f] <=> f \in Enabling[l]
  /\ \A l \in Levels : Enabling[l] \in SUBSET Levels
  /\ After["error"] = "info" /\ After["info"] = "debug" /\ After["debug"] = "decide"
<1>1. Levels = {"error", "info", "debug"}
  BY DEF Levels
<1>2. TurnsOn["error"] = {"error"} /\ TurnsOn["info"] = {"error", "info"} /\ TurnsOn["debug"] = Levels
  BY DEF TurnsOn
<1>3. Enabling["error"] = Levels /\ Enabling["info"] = {"info", "debug"} /\ Enabling["debug"] = {"debug"}
  BY DEF Enabling
<1>4. After["error"] = "info" /\ After["info"] = "debug" /\ After["debug"] = "decide"
  BY DEF After
<1>5. \A f \in Levels : TurnsOn[f] \in SUBSET Levels /\ f \in TurnsOn[f]
  BY <1>1, <1>2
<1>6. \A f, l \in Levels : l \in TurnsOn[f] <=> f \in Enabling[l]
  BY <1>1, <1>2, <1>3
<1>7. \A l \in Levels : Enabling[l] \in SUBSET Levels
  BY <1>1, <1>3
<1>8. QED
  BY <1>1, <1>4, <1>5, <1>6, <1>7

(* A call that moves leaves the others alone. *)
LEMMA MovesOne ==
  ASSUME LogTypeOK, NEW m \in Monitors, NEW c \in Calls, Moves(m, c)
  PROVE  /\ call' \in [Monitors -> Calls]
         /\ call'[m] = c
         /\ \A n \in Monitors : n # m => call'[n] = call[n]
BY DEF LogTypeOK, Moves

LEMMA NoCallTyped ==
  ASSUME LogAssumption
  PROVE  /\ NoCall \in Calls
         /\ NoCall.pc = "idle" /\ NoCall.mode = "a" /\ NoCall.part = 0
         /\ NoCall.check = {} /\ NoCall.level = "error" /\ NoCall.parts = 1
BY DEF LogAssumption, NoCall, Calls, Places, Levels

(* The numbers of a call. *)
LEMMA CallNumbers ==
  ASSUME LogAssumption, LogTypeOK, NEW m \in Monitors
  PROVE  /\ call[m] \in Calls /\ call[m].mode \in {"a", "w"}
         /\ call[m].line \in 0..MaxLines /\ call[m].line \in Nat
         /\ call[m].part \in 0..MaxParts /\ call[m].part \in Nat
         /\ call[m].parts \in 1..MaxParts /\ call[m].parts \in Nat
<1>1. call[m] \in Calls
  BY DEF LogTypeOK
<1>2. /\ call[m].mode \in {"a", "w"} /\ call[m].line \in 0..MaxLines
      /\ call[m].part \in 0..MaxParts /\ call[m].parts \in 1..MaxParts
  BY <1>1 DEF Calls
<1>3. MaxLines \in Nat /\ MaxParts \in Nat
  BY DEF LogAssumption
<1> QED
  BY <1>1, <1>2, <1>3

(* A change of the text keeps its type. *)
LEMMA WrittenTyped ==
  ASSUME text \in Seq(Pieces), Old \in Pieces, NEW p \in Nat \ {0}, NEW d \in Pieces
  PROVE  /\ Written(p, d) \in Seq(Pieces)
         /\ Len(Written(p, d)) = IF p <= Len(text) THEN Len(text) ELSE p
         /\ \A i \in 1..Len(Written(p, d)) :
              Written(p, d)[i] = IF i = p THEN d ELSE IF i <= Len(text) THEN text[i] ELSE Old
<1> DEFINE n == IF p <= Len(text) THEN Len(text) ELSE p
           v(i) == IF i = p THEN d ELSE IF i <= Len(text) THEN text[i] ELSE Old
<1>1. n \in Nat /\ Len(text) \in Nat
  OBVIOUS
<1>2. \A i \in 1..n : v(i) \in Pieces
  <2> SUFFICES ASSUME NEW i \in 1..n PROVE v(i) \in Pieces
    OBVIOUS
  <2>1. i <= Len(text) => i \in 1..Len(text)
    BY <1>1
  <2> QED
    BY <2>1
<1>3. Written(p, d) = [i \in 1..n |-> v(i)]
  BY DEF Written
<1>4. Written(p, d) \in [1..n -> Pieces]
  BY <1>2, <1>3
<1>5. Written(p, d) \in Seq(Pieces) /\ Len(Written(p, d)) = n
  BY <1>1, <1>4
<1>6. \A i \in 1..n : Written(p, d)[i] = v(i)
  BY <1>3
<1> QED
  BY <1>5, <1>6

LEMMA OldTyped ==
  ASSUME LogAssumption
  PROVE  Old \in Pieces /\ Old.by = Nobody
BY DEF LogAssumption, Old, Piece, Pieces

-----------------------------------------------------------------------------
(* Where each step of a call leads, and that it keeps the types. *)
LEMMA CallTyped ==
  ASSUME LogAssumption, LogTypeOK, NEW m \in Monitors, Call(m)
  PROVE  /\ call'[m] \in Calls /\ call'[m].pc = "error"
         /\ call'[m].line = lines + 1 /\ call'[m].part = 0
         /\ call'[m].on = flags /\ call'[m].off = Levels \ flags /\ call'[m].check = {}
         /\ Moves(m, call'[m])
         /\ lines' \in 0..MaxLines
<1>1. PICK l \in Levels, n \in 1..MaxParts :
        Moves(m, [NoCall EXCEPT !.pc = "error", !.line = lines + 1, !.level = l,
                                !.parts = n, !.on = flags, !.off = Levels \ flags])
  BY DEF Call
<1> DEFINE c == [NoCall EXCEPT !.pc = "error", !.line = lines + 1, !.level = l,
                               !.parts = n, !.on = flags, !.off = Levels \ flags]
<1>2. lines \in Nat /\ lines < MaxLines /\ lines' = lines + 1 /\ MaxLines \in Nat /\ MaxParts \in Nat
  BY DEF Call, LogTypeOK, LogAssumption
<1>3. c \in Calls /\ c.pc = "error" /\ c.line = lines + 1 /\ c.part = 0
      /\ c.on = flags /\ c.off = Levels \ flags /\ c.check = {}
  <2>1. NoCall \in Calls /\ NoCall.part = 0 /\ NoCall.check = {}
    BY NoCallTyped
  <2>2. "error" \in Places /\ lines + 1 \in 0..MaxLines /\ flags \in SUBSET Levels
        /\ Levels \ flags \in SUBSET Levels
    BY <1>2, LevelTables DEF LogTypeOK, Places
  <2> QED
    BY <2>1, <2>2 DEF Calls
<1>4. call'[m] = c
  BY <1>1, <1>3, MovesOne
<1> QED
  BY <1>1, <1>2, <1>3, <1>4

LEMMA AccessTyped ==
  ASSUME LogAssumption, LogTypeOK, NEW m \in Monitors, Access(m)
  PROVE  /\ call[m].pc \in Levels
         /\ call'[m] \in Calls /\ Moves(m, call'[m])
         /\ call'[m].pc = After[call[m].pc]
         /\ call'[m].check = IF call[m].pc \in flags THEN call[m].check \cup TurnsOn[call[m].pc]
                             ELSE call[m].check
         /\ call'[m].on = call[m].on /\ call'[m].off = call[m].off
         /\ call'[m].line = call[m].line /\ call'[m].part = call[m].part
         /\ call'[m].level = call[m].level
<1> DEFINE f == call[m].pc
           k == IF f \in flags THEN call[m].check \cup TurnsOn[f] ELSE call[m].check
           c == [call[m] EXCEPT !.pc = After[f], !.check = k]
<1>1. f \in Levels /\ call[m] \in Calls
  BY DEF Access, LogTypeOK
<1>2. k \in SUBSET Levels
  BY <1>1, LevelTables DEF Calls
<1>3. After[f] \in Places
  BY <1>1, LevelTables DEF Places, Levels
<1>4. c \in Calls /\ c.pc = After[f] /\ c.check = k /\ c.on = call[m].on /\ c.off = call[m].off
      /\ c.line = call[m].line /\ c.part = call[m].part /\ c.level = call[m].level
  BY <1>1, <1>2, <1>3 DEF Calls
<1>5. Moves(m, c)
  BY DEF Access
<1>6. call'[m] = c
  BY <1>4, <1>5, MovesOne
<1> QED
  BY <1>1, <1>4, <1>5, <1>6

LEMMA DecideTyped ==
  ASSUME LogAssumption, LogTypeOK, NEW m \in Monitors, Decide(m)
  PROVE  /\ call[m].pc = "decide"
         /\ call'[m] \in Calls /\ Moves(m, call'[m])
         /\ call'[m].pc = IF call[m].level \in call[m].check THEN "stat"
                          ELSE IF call[m].check = {} THEN "print" ELSE "skip"
         /\ call'[m].on = call[m].on /\ call'[m].off = call[m].off
         /\ call'[m].line = call[m].line /\ call'[m].part = call[m].part
         /\ call'[m].level = call[m].level
<1> DEFINE p == IF call[m].level \in call[m].check THEN "stat"
                ELSE IF call[m].check = {} THEN "print" ELSE "skip"
           c == [call[m] EXCEPT !.pc = p]
<1>1. call[m] \in Calls /\ p \in Places
  BY DEF LogTypeOK, Places
<1>2. c \in Calls /\ c.pc = p /\ c.on = call[m].on /\ c.off = call[m].off
      /\ c.line = call[m].line /\ c.part = call[m].part /\ c.level = call[m].level
  BY <1>1 DEF Calls
<1>3. Moves(m, c)
  BY DEF Decide
<1>4. call'[m] = c
  BY <1>2, <1>3, MovesOne
<1> QED
  BY <1>2, <1>3, <1>4 DEF Decide

LEMMA StatTyped ==
  ASSUME LogAssumption, LogTypeOK, NEW m \in Monitors, Stat(m)
  PROVE  /\ call[m].pc = "stat"
         /\ call'[m] \in Calls /\ Moves(m, call'[m])
         /\ call'[m].pc = "open" /\ call'[m].mode = Mode
         /\ call'[m].line = call[m].line /\ call'[m].part = 0
         /\ overlapped' \in BOOLEAN
<1> DEFINE c == [NoCall EXCEPT !.pc = "open", !.line = call[m].line,
                               !.mode = Mode, !.parts = call[m].parts]
<1>1. call[m] \in Calls /\ Mode \in {"a", "w"} /\ NoCall \in Calls /\ "open" \in Places
  BY NoCallTyped DEF LogTypeOK, Mode, Places
<1>2. c \in Calls /\ c.pc = "open" /\ c.mode = Mode /\ c.line = call[m].line /\ c.part = 0
  BY <1>1, NoCallTyped DEF Calls
<1>3. Moves(m, c) /\ overlapped' \in BOOLEAN
  BY DEF Stat, LogTypeOK
<1>4. call'[m] = c
  BY <1>2, <1>3, MovesOne
<1> QED
  BY <1>2, <1>3, <1>4 DEF Stat

LEMMA OpenTyped ==
  ASSUME LogAssumption, LogTypeOK, NEW m \in Monitors, Open(m)
  PROVE  /\ call[m].pc = "open"
         /\ call'[m] = [call[m] EXCEPT !.pc = "write"]
         /\ call'[m] \in Calls /\ Moves(m, call'[m])
         /\ call'[m].pc = "write" /\ call'[m].mode = call[m].mode /\ call'[m].line = call[m].line
         /\ call'[m].part = call[m].part /\ call'[m].parts = call[m].parts
         /\ text' \in Seq(Pieces)
<1> DEFINE c == [call[m] EXCEPT !.pc = "write"]
<1>1. call[m] \in Calls /\ "write" \in Places
  BY DEF LogTypeOK, Places
<1>2. c \in Calls /\ c.pc = "write" /\ c.mode = call[m].mode /\ c.line = call[m].line
      /\ c.part = call[m].part /\ c.parts = call[m].parts
  BY <1>1 DEF Calls
<1>3. Moves(m, c)
  BY DEF Open
<1>4. call'[m] = c
  BY <1>2, <1>3, MovesOne
<1>5. text' \in Seq(Pieces)
  BY DEF Open, LogTypeOK
<1> QED
  BY <1>2, <1>3, <1>4, <1>5 DEF Open

(* Where a call writes its next piece. *)
Target(m) == IF call[m].mode = "a" THEN Len(text) + 1 ELSE call[m].part + 1
NextPiece(m) == Piece(m, call[m].line, call[m].part + 1)

LEMMA WriteTyped ==
  ASSUME LogAssumption, LogTypeOK, NEW m \in Monitors, Write(m)
  PROVE  /\ call[m].pc = "write" /\ call[m].part < call[m].parts
         /\ call'[m] \in Calls /\ Moves(m, call'[m])
         /\ call'[m].pc = "write" /\ call'[m].mode = call[m].mode /\ call'[m].line = call[m].line
         /\ call'[m].part = call[m].part + 1
         /\ call'[m].parts = call[m].parts
         /\ Target(m) \in Nat \ {0} /\ NextPiece(m) \in Pieces
         /\ text' = Written(Target(m), NextPiece(m)) /\ text' \in Seq(Pieces)
<1> DEFINE c == [call[m] EXCEPT !.part = @ + 1]
<1>1. call[m] \in Calls /\ MaxParts \in Nat /\ text \in Seq(Pieces)
  BY DEF LogTypeOK, LogAssumption
<1>2. call[m].pc = "write" /\ call[m].part < call[m].parts /\ Moves(m, c)
      /\ text' = Written(Target(m), NextPiece(m))
  BY DEF Write, Target, NextPiece
<1>3. Target(m) \in Nat \ {0} /\ NextPiece(m) \in Pieces
  <2>1. Target(m) \in Nat \ {0}
    BY <1>1, CallNumbers DEF Target
  <2>2. call[m].part + 1 \in 0..MaxParts /\ call[m].line \in 0..MaxLines
    BY <1>1, <1>2, CallNumbers, SMTT(30)
  <2>3. NextPiece(m) \in Pieces
    BY <2>2 DEF NextPiece, Piece, Pieces
  <2> QED
    BY <2>1, <2>3
<1>4. c \in Calls /\ c.pc = "write" /\ c.mode = call[m].mode /\ c.line = call[m].line
      /\ c.part = call[m].part + 1 /\ c.parts = call[m].parts
  <2>1. call[m].part \in 0..MaxParts /\ call[m].parts \in 1..MaxParts
    BY CallNumbers
  <2>2. call[m].part + 1 \in 0..MaxParts
    BY <1>1, <1>2, <2>1
  <2> QED
    BY <1>1, <1>2, <2>2 DEF Calls
<1>5. call'[m] = c
  BY <1>2, <1>4, MovesOne
<1>6. text' \in Seq(Pieces)
  BY <1>1, <1>2, <1>3, OldTyped, WrittenTyped
<1> QED
  BY <1>2, <1>3, <1>4, <1>5, <1>6

LEMMA LeaveTyped ==
  ASSUME LogAssumption, LogTypeOK, NEW m \in Monitors, Return(m) \/ Kill(m)
  PROVE  /\ call'[m] = NoCall /\ NoCall \in Calls /\ Moves(m, NoCall)
         /\ UNCHANGED <<flags, present, text, lines, overlapped, switches>>
<1>1. Moves(m, NoCall) /\ UNCHANGED <<flags, present, text, lines, overlapped, switches>>
  BY DEF Return, Kill
<1> QED
  BY <1>1, NoCallTyped, MovesOne

(* The operator's step moves no call. *)
LEMMA SwitchTyped ==
  ASSUME LogAssumption, LogTypeOK, Switch
  PROVE  /\ flags' \in SUBSET Levels /\ switches' \in 0..MaxSwitches
         /\ call' \in [Monitors -> Calls]
         /\ \A m \in Monitors :
              /\ call'[m].pc = call[m].pc
              /\ call'[m].check = call[m].check /\ call'[m].level = call[m].level
              /\ call'[m].line = call[m].line /\ call'[m].mode = call[m].mode
              /\ call'[m].part = call[m].part /\ call'[m].parts = call[m].parts
              /\ call[m].pc \in Asking \cup {"stat", "print", "skip"} =>
                   /\ call'[m].on = call[m].on \cup flags'
                   /\ call'[m].off = call[m].off \cup (Levels \ flags')
<1> DEFINE Busy == Levels \cup {"decide", "stat", "print", "skip"}
           c(m) == IF call[m].pc \in Busy
                   THEN [call[m] EXCEPT !.on = @ \cup flags', !.off = @ \cup (Levels \ flags')]
                   ELSE call[m]
<1>1. flags' \in SUBSET Levels /\ switches' \in 0..MaxSwitches
  <2>1. switches < MaxSwitches /\ switches' = switches + 1 /\ flags' \in SUBSET Levels
    BY DEF Switch
  <2>2. switches \in Nat /\ MaxSwitches \in Nat
    BY DEF LogTypeOK, LogAssumption
  <2> QED
    BY <2>1, <2>2
<1>2. call' = [m \in Monitors |-> c(m)]
  BY DEF Switch
<1>3. ASSUME NEW m \in Monitors
      PROVE  /\ c(m) \in Calls /\ c(m).pc = call[m].pc
             /\ c(m).check = call[m].check /\ c(m).level = call[m].level
             /\ c(m).line = call[m].line /\ c(m).mode = call[m].mode
             /\ c(m).part = call[m].part /\ c(m).parts = call[m].parts
             /\ call[m].pc \in Busy => /\ c(m).on = call[m].on \cup flags'
                                       /\ c(m).off = call[m].off \cup (Levels \ flags')
  <2>1. call[m] \in Calls
    BY DEF LogTypeOK
  <2> QED
    BY <1>1, <2>1 DEF Calls
<1>4. Busy = Asking \cup {"stat", "print", "skip"}
  BY LevelTables DEF Asking
<1>5. \A m \in Monitors : call'[m] = c(m)
  BY <1>2
<1>6. call' \in [Monitors -> Calls]
  BY <1>2, <1>3
<1> HIDE DEF c, Busy
<1> QED
  BY <1>1, <1>3, <1>4, <1>5, <1>6

-----------------------------------------------------------------------------
(* The initial state has the types. *)
LEMMA TypesInit ==
  ASSUME LogAssumption, Init
  PROVE  LogTypeOK
<1>1. PICK n \in 0..(Limit + 1) : text = [i \in 1..n |-> Old]
  BY DEF Init
<1>2. n \in Nat
  BY DEF LogAssumption
<1>3. text \in Seq(Pieces)
  BY <1>1, <1>2, OldTyped
<1>4. call \in [Monitors -> Calls]
  BY NoCallTyped DEF Init
<1>5. flags \in SUBSET Levels /\ present \in BOOLEAN /\ overlapped \in BOOLEAN
      /\ lines = 0 /\ switches = 0
  BY DEF Init
<1>6. 0 \in 0..MaxLines /\ 0 \in 0..MaxSwitches
  BY DEF LogAssumption
<1> QED
  BY <1>3, <1>4, <1>5, <1>6 DEF LogTypeOK

(* Every step keeps the types. *)
LEMMA TypesNext ==
  ASSUME LogAssumption, LogTypeOK, [Next]_vars
  PROVE  LogTypeOK'
<1>1. ASSUME NEW m \in Monitors, Step(m)
      PROVE  LogTypeOK'
  <2>1. CASE Call(m)
    BY <2>1, CallTyped, MovesOne DEF LogTypeOK, Call
  <2>2. CASE Access(m)
    BY <2>2, AccessTyped, MovesOne DEF LogTypeOK, Access
  <2>3. CASE Decide(m)
    BY <2>3, DecideTyped, MovesOne DEF LogTypeOK, Decide
  <2>4. CASE Stat(m)
    BY <2>4, StatTyped, MovesOne DEF LogTypeOK, Stat
  <2>5. CASE Open(m)
    BY <2>5, OpenTyped, MovesOne DEF LogTypeOK, Open
  <2>6. CASE Write(m)
    BY <2>6, WriteTyped, MovesOne DEF LogTypeOK, Write
  <2>7. CASE Return(m) \/ Kill(m)
    BY <2>7, LeaveTyped, MovesOne DEF LogTypeOK
  <2> QED
    BY <1>1, <2>1, <2>2, <2>3, <2>4, <2>5, <2>6, <2>7 DEF Step
<1>2. CASE Switch
  BY <1>2, SwitchTyped DEF LogTypeOK, Switch
<1>3. CASE UNCHANGED vars
  BY <1>3 DEF LogTypeOK, vars
<1> QED
  BY <1>1, <1>2, <1>3 DEF Next

(* The file, its level files and the calls' locals have their types. *)
THEOREM LogTypeCorrect == Spec => []LogTypeOK
<1>1. Init => LogTypeOK
  BY LogAssumption, TypesInit
<1>2. LogTypeOK /\ [Next]_vars => LogTypeOK'
  BY LogAssumption, TypesNext
<1> QED
  BY <1>1, <1>2, PTL DEF Spec

-----------------------------------------------------------------------------
(* What a call has asked. *)
LEMMA HonestInit ==
  ASSUME Init
  PROVE  LevelsInv
<1>1. \A m \in Monitors : call[m].pc = "idle"
  BY DEF Init, NoCall
<1> QED
  BY <1>1 DEF LevelsInv, Honest, Honoured, Asking

(* One call's move decides for the others, when the level files stay. *)
LEMMA HonestMove ==
  ASSUME LogTypeOK, LevelsInv, NEW m \in Monitors, call'[m] \in Calls, Moves(m, call'[m]),
         UNCHANGED flags, Honest(call'[m], flags), Honoured(call'[m])
  PROVE  LevelsInv'
<1>1. \A n \in Monitors : n # m => call'[n] = call[n]
  BY MovesOne
<1>2. ASSUME NEW n \in Monitors
      PROVE  Honest(call'[n], flags) /\ Honoured(call'[n])
  <2>1. CASE n = m
    BY <2>1
  <2>2. CASE n # m
    BY <1>1, <2>2 DEF LevelsInv
  <2> QED
    BY <2>1, <2>2
<1>3. flags' = flags
  OBVIOUS
<1> QED
  BY <1>2, <1>3 DEF LevelsInv, Honest, Honoured, Known

(* A question asked is a question answered: the file is there now, and    *)
(* turns its levels on, or is missing now.                                *)
LEMMA HonestAccess ==
  ASSUME LogAssumption, LogTypeOK, LevelsInv, NEW m \in Monitors, Access(m)
  PROVE  LevelsInv'
<1> DEFINE c == call[m]
           d == call'[m]
           f == c.pc
<1>1. /\ f \in Levels /\ d \in Calls /\ Moves(m, d) /\ d.pc = After[f]
      /\ d.check = (IF f \in flags THEN c.check \cup TurnsOn[f] ELSE c.check)
      /\ d.on = c.on /\ d.off = c.off
  BY AccessTyped
<1>2. c \in Calls /\ flags \in SUBSET Levels /\ Honest(c, flags) /\ UNCHANGED flags
  BY DEF LogTypeOK, LevelsInv, Access
<1>3. f \in Asking /\ flags \subseteq c.on /\ Levels \ flags \subseteq c.off
  BY <1>1, <1>2, LevelTables DEF Honest, Asking
<1>4. Known(d, f)
  BY <1>1, <1>3 DEF Known
<1>5. \A g \in Levels : Known(c, g) => Known(d, g)
  BY <1>1 DEF Known
<1>6. ASSUME NEW l \in d.check
      PROVE  Enabling[l] \cap d.on # {}
  <2>1. CASE l \in c.check
    BY <1>1, <1>2, <1>3, <2>1 DEF Honest
  <2>2. CASE l \notin c.check
    <3>1. f \in flags /\ l \in TurnsOn[f]
      BY <1>1, <1>6, <2>2
    <3>2. l \in Levels /\ f \in Enabling[l]
      BY <1>1, <3>1, LevelTables
    <3> QED
      BY <1>1, <1>3, <3>1, <3>2
  <2> QED
    BY <2>1, <2>2
<1>7. \/ f = "error" /\ d.pc = "info"
      \/ f = "info" /\ d.pc = "debug"
      \/ f = "debug" /\ d.pc = "decide"
  BY <1>1, LevelTables
<1>8. /\ d.pc \in {"info", "debug", "decide"} => Known(d, "error")
      /\ d.pc \in {"debug", "decide"} => Known(d, "info")
      /\ d.pc = "decide" => Known(d, "debug")
  <2>1. "error" \in Levels /\ "info" \in Levels
    BY LevelTables
  <2>2. f = "info" => Known(c, "error")
    BY <1>2 DEF Honest
  <2>3. f = "debug" => Known(c, "error") /\ Known(c, "info")
    BY <1>2 DEF Honest
  <2> HIDE DEF c, d, f
  <2> QED
    BY <1>4, <1>5, <1>7, <2>1, <2>2, <2>3
<1>9. Honest(d, flags)
  BY <1>1, <1>3, <1>6, <1>8 DEF Honest
<1>10. Honoured(d)
  BY <1>7 DEF Honoured
<1> QED
  BY <1>1, <1>2, <1>9, <1>10, HonestMove

(* The decision rests on what is known of all three. *)
LEMMA HonestDecide ==
  ASSUME LogAssumption, LogTypeOK, LevelsInv, NEW m \in Monitors, Decide(m)
  PROVE  LevelsInv'
<1> DEFINE c == call[m]
           d == call'[m]
<1>1. /\ c.pc = "decide" /\ d \in Calls /\ Moves(m, d)
      /\ d.pc = (IF c.level \in c.check THEN "stat" ELSE IF c.check = {} THEN "print" ELSE "skip")
      /\ d.on = c.on /\ d.off = c.off /\ d.level = c.level
  BY DecideTyped
<1>2. c \in Calls /\ Honest(c, flags) /\ UNCHANGED flags
  BY DEF LogTypeOK, LevelsInv, Decide
<1>3. c.level \in Levels /\ c.check \in SUBSET Levels /\ c.off \in SUBSET Levels
  BY <1>2 DEF Calls
<1>4. \A f \in Levels : Known(c, f)
  BY <1>1, <1>2, LevelTables DEF Honest
<1>5. \A l \in c.check : Enabling[l] \cap c.on # {}
  BY <1>1, <1>2 DEF Honest, Asking
<1>6. ASSUME d.pc = "stat"
      PROVE  Enabling[d.level] \cap d.on # {}
  BY <1>1, <1>5, <1>6
<1>7. ASSUME d.pc = "skip"
      PROVE  Enabling[d.level] \subseteq d.off /\ d.on # {}
  <2>1. c.level \notin c.check /\ c.check # {}
    BY <1>1, <1>7
  <2>2. ASSUME NEW f \in Enabling[c.level]
        PROVE  f \in c.off
    <3>1. f \in Levels /\ c.level \in TurnsOn[f]
      BY <1>3, LevelTables
    <3> QED
      BY <1>4, <2>1, <3>1 DEF Known
  <2> QED
    BY <1>1, <1>5, <2>1, <2>2
<1>8. ASSUME d.pc = "print"
      PROVE  d.off = Levels
  <2>1. c.check = {}
    BY <1>1, <1>8
  <2>2. \A f \in Levels : f \in c.off
    BY <1>4, <2>1, LevelTables DEF Known
  <2> QED
    BY <1>1, <1>3, <2>2
<1>9. Honoured(d)
  BY <1>6, <1>7, <1>8 DEF Honoured
<1>10. Honest(d, flags)
  BY <1>1 DEF Honest, Asking
<1> QED
  BY <1>1, <1>2, <1>9, <1>10, HonestMove

(* Files that come and go are added to the history of every call. *)
LEMMA HonestSwitch ==
  ASSUME LogAssumption, LogTypeOK, LevelsInv, Switch
  PROVE  LevelsInv'
<1> SUFFICES ASSUME NEW m \in Monitors
             PROVE  Honest(call'[m], flags') /\ Honoured(call'[m])
  BY DEF LevelsInv, Honest, Honoured, Known
<1> DEFINE c == call[m]
           d == call'[m]
<1>1. /\ d.pc = c.pc /\ d.check = c.check /\ d.level = c.level
      /\ c.pc \in Asking \cup {"stat", "print", "skip"} =>
           d.on = c.on \cup flags' /\ d.off = c.off \cup (Levels \ flags')
      /\ flags' \in SUBSET Levels /\ d \in Calls
  BY SwitchTyped
<1>2. Honest(c, flags) /\ Honoured(c)
  BY DEF LevelsInv
<1>3. Honest(d, flags')
  <2>1. CASE c.pc \in Asking
    <3>1. d.on = c.on \cup flags' /\ d.off = c.off \cup (Levels \ flags')
      BY <1>1, <2>1
    <3>2. \A g : Known(c, g) => Known(d, g)
      BY <1>1, <3>1 DEF Known
    <3> QED
      BY <1>1, <1>2, <2>1, <3>1, <3>2 DEF Honest
  <2>2. CASE c.pc \notin Asking
    BY <1>1, <2>2 DEF Honest, Asking
  <2> QED
    BY <2>1, <2>2
<1>4. Honoured(d)
  <2>1. CASE c.pc \in {"stat", "print", "skip"}
    <3>1. d.on = c.on \cup flags' /\ d.off = c.off \cup (Levels \ flags') /\ d.off \in SUBSET Levels
      BY <1>1, <2>1 DEF Calls
    <3> QED
      BY <1>1, <1>2, <3>1 DEF Honoured
  <2>2. CASE c.pc \notin {"stat", "print", "skip"}
    BY <1>1, <2>2 DEF Honoured
  <2> QED
    BY <2>1, <2>2
<1> QED
  BY <1>3, <1>4

LEMMA HonestNext ==
  ASSUME LogAssumption, LogTypeOK, LevelsInv, [Next]_vars
  PROVE  LevelsInv'
<1>1. ASSUME NEW m \in Monitors, Step(m)
      PROVE  LevelsInv'
  <2>1. CASE Call(m)
    <3>1. Honest(call'[m], flags) /\ Honoured(call'[m])
      BY <2>1, CallTyped DEF Honest, Honoured, Asking
    <3> QED
      BY <2>1, <3>1, CallTyped, HonestMove DEF Call
  <2>2. CASE Access(m)
    BY <2>2, HonestAccess
  <2>3. CASE Decide(m)
    BY <2>3, HonestDecide
  <2>4. CASE Stat(m)
    <3>1. Honest(call'[m], flags) /\ Honoured(call'[m])
      BY <2>4, StatTyped DEF Honest, Honoured, Asking
    <3> QED
      BY <2>4, <3>1, StatTyped, HonestMove DEF Stat
  <2>5. CASE Open(m)
    <3>1. Honest(call'[m], flags) /\ Honoured(call'[m])
      BY <2>5, OpenTyped DEF Honest, Honoured, Asking
    <3> QED
      BY <2>5, <3>1, OpenTyped, HonestMove DEF Open
  <2>6. CASE Write(m)
    <3>1. Honest(call'[m], flags) /\ Honoured(call'[m])
      BY <2>6, WriteTyped DEF Honest, Honoured, Asking
    <3> QED
      BY <2>6, <3>1, WriteTyped, HonestMove DEF Write
  <2>7. CASE Return(m) \/ Kill(m)
    <3>1. call'[m] = NoCall /\ call'[m] \in Calls /\ Moves(m, call'[m]) /\ UNCHANGED flags
          /\ call'[m].pc = "idle"
      BY <2>7, LeaveTyped, NoCallTyped
    <3>2. Honest(call'[m], flags) /\ Honoured(call'[m])
      BY <3>1 DEF Honest, Honoured, Asking
    <3> QED
      BY <3>1, <3>2, HonestMove
  <2> QED
    BY <1>1, <2>1, <2>2, <2>3, <2>4, <2>5, <2>6, <2>7 DEF Step
<1>2. CASE Switch
  BY <1>2, HonestSwitch
<1>3. CASE UNCHANGED vars
  BY <1>3 DEF LevelsInv, Honest, Honoured, Known, vars
<1> QED
  BY <1>1, <1>2, <1>3 DEF Next

(* Whatever the operator does between the three questions of a call: a     *)
(* line goes to the file, to stdout or nowhere only as the level files of  *)
(* some moments of the call allow.                                         *)
THEOREM LogHonoursLevels == Spec => []LevelsHonoured
<1>1. Init => LogTypeOK /\ LevelsInv
  BY LogAssumption, TypesInit, HonestInit
<1>2. LogTypeOK /\ LevelsInv /\ [Next]_vars => (LogTypeOK /\ LevelsInv)'
  BY LogAssumption, TypesNext, HonestNext
<1>3. LevelsInv => LevelsHonoured
  BY DEF LevelsInv, Honoured, LevelsHonoured
<1> QED
  BY <1>1, <1>2, <1>3, PTL DEF Spec

-----------------------------------------------------------------------------
(* The pieces of every monitor's longest line, and those of them that may  *)
(* still come to the file as it is: a call that is about to empty the file *)
(* counts from then on.                                                    *)
AllPieces == Monitors \X (1..MaxParts)

Committed(c) == c.pc = "write" \/ (c.pc = "open" /\ c.mode = "a")

Owed == {x \in AllPieces : /\ Committed(call[x[1]])
                           /\ call[x[1]].part < x[2] /\ x[2] <= call[x[1]].parts}

(* The file has room for all that is owed to it. *)
SizeInv == Len(text) + Cardinality(Owed) <= Limit + Cardinality(AllPieces)

LEMMA PiecesFinite ==
  ASSUME LogAssumption
  PROVE  /\ IsFiniteSet(AllPieces) /\ Cardinality(AllPieces) \in Nat \ {0}
         /\ Cardinality(AllPieces) = MaxParts * Cardinality(Monitors)
<1>1. MaxParts \in Nat \ {0} /\ IsFiniteSet(Monitors) /\ Monitors # {}
  BY DEF LogAssumption
<1>2. IsFiniteSet(1..MaxParts) /\ Cardinality(1..MaxParts) = MaxParts
  BY <1>1, FS_Interval
<1>3. /\ IsFiniteSet(AllPieces)
      /\ Cardinality(AllPieces) = Cardinality(Monitors) * MaxParts
  BY <1>1, <1>2, FS_Product DEF AllPieces
<1>4. Cardinality(Monitors) \in Nat /\ Cardinality(AllPieces) \in Nat
  BY <1>1, <1>3, FS_CardinalityType
<1>5. Cardinality(Monitors) * MaxParts = MaxParts * Cardinality(Monitors)
  BY <1>1, <1>4
<1>6. PICK m \in Monitors : TRUE
  BY <1>1
<1>7. <<m, 1>> \in AllPieces
  BY <1>1 DEF AllPieces
<1>8. Cardinality(AllPieces) # 0
  BY <1>3, <1>7, FS_EmptySet
<1> QED
  BY <1>3, <1>4, <1>5, <1>8

LEMMA PartOfPieces ==
  ASSUME LogAssumption, NEW S \in SUBSET AllPieces
  PROVE  /\ IsFiniteSet(S) /\ Cardinality(S) \in Nat
         /\ Cardinality(S) <= Cardinality(AllPieces)
         /\ \A T \in SUBSET S : IsFiniteSet(T) /\ Cardinality(T) \in Nat /\ Cardinality(T) <= Cardinality(S)
<1>1. IsFiniteSet(AllPieces)
  BY PiecesFinite
<1>2. IsFiniteSet(S) /\ Cardinality(S) <= Cardinality(AllPieces)
  BY <1>1, FS_Subset
<1>3. \A T \in SUBSET S : IsFiniteSet(T) /\ Cardinality(T) <= Cardinality(S)
  BY <1>2, FS_Subset
<1> QED
  BY <1>2, <1>3, FS_CardinalityType

LEMMA OwedTyped ==
  /\ Owed \in SUBSET AllPieces
  /\ Owed' \in SUBSET AllPieces
BY DEF Owed

(* Nothing more is owed and nothing written. *)
LEMMA SizeShrinks ==
  ASSUME LogAssumption, LogTypeOK, LogTypeOK', SizeInv, Owed' \subseteq Owed, Len(text') <= Len(text)
  PROVE  SizeInv'
<1>1. Cardinality(Owed) \in Nat /\ Cardinality(Owed') \in Nat /\ Cardinality(Owed') <= Cardinality(Owed)
  BY OwedTyped, PartOfPieces
<1>2. Len(text) \in Nat /\ Len(text') \in Nat /\ Cardinality(AllPieces) \in Nat /\ Limit \in Nat
  BY PiecesFinite DEF LogTypeOK, LogAssumption
<1>3. Len(text) + Cardinality(Owed) <= Limit + Cardinality(AllPieces)
  BY DEF SizeInv
<1>4. Len(text') + Cardinality(Owed') <= Limit + Cardinality(AllPieces)
  BY <1>1, <1>2, <1>3
<1>5. Limit' = Limit /\ AllPieces' = AllPieces
  BY DEF AllPieces
<1> QED
  BY <1>4, <1>5 DEF SizeInv

(* A file no larger than the limit has room for whatever is owed. *)
LEMMA SizeSmall ==
  ASSUME LogAssumption, LogTypeOK', Len(text') <= Limit
  PROVE  SizeInv'
<1>1. Cardinality(Owed') \in Nat /\ Cardinality(Owed') <= Cardinality(AllPieces)
  BY OwedTyped, PartOfPieces
<1>2. Len(text') \in Nat /\ Cardinality(AllPieces) \in Nat /\ Limit \in Nat
  BY PiecesFinite DEF LogTypeOK, LogAssumption
<1>3. Len(text') + Cardinality(Owed') <= Limit + Cardinality(AllPieces)
  BY <1>1, <1>2
<1>4. AllPieces' = AllPieces
  BY DEF AllPieces
<1> QED
  BY <1>3, <1>4 DEF SizeInv

(* What is owed changes with the call that moves only. *)
LEMMA OwedMove ==
  ASSUME LogAssumption, LogTypeOK, NEW m \in Monitors, call'[m] \in Calls, Moves(m, call'[m]),
         Committed(call'[m]) => Committed(call[m]) /\ call'[m].parts = call[m].parts
                                /\ call'[m].part >= call[m].part
  PROVE  Owed' \subseteq Owed
<1>1. \A n \in Monitors : n # m => call'[n] = call[n]
  BY MovesOne
<1>2. call[m].part \in Nat /\ call'[m].part \in Nat
  BY CallNumbers DEF Calls
<1>3. ASSUME NEW x \in AllPieces, Committed(call'[x[1]]),
             call'[x[1]].part < x[2], x[2] <= call'[x[1]].parts
      PROVE  Committed(call[x[1]]) /\ call[x[1]].part < x[2] /\ x[2] <= call[x[1]].parts
  <2>1. x[1] \in Monitors /\ x[2] \in Int
    BY DEF AllPieces
  <2>2. CASE x[1] = m
    BY <1>2, <1>3, <2>1, <2>2
  <2>3. CASE x[1] # m
    BY <1>1, <1>3, <2>1, <2>3
  <2> QED
    BY <2>2, <2>3
<1>4. \A x \in Owed' : /\ x \in AllPieces /\ Committed(call'[x[1]])
                       /\ call'[x[1]].part < x[2] /\ x[2] <= call'[x[1]].parts
  BY DEF Owed, AllPieces, Committed
<1> QED
  BY <1>3, <1>4 DEF Owed

(* A piece written is owed no longer; those before it in its line are not  *)
(* owed either.                                                            *)
LEMMA OwedWrite ==
  ASSUME LogAssumption, LogTypeOK, NEW m \in Monitors, Write(m)
  PROVE  /\ <<m, call[m].part + 1>> \in Owed
         /\ Owed' \subseteq Owed \ {<<m, call[m].part + 1>>}
         /\ Owed' \subseteq AllPieces \ ({m} \X (1..(call[m].part + 1)))
<1> DEFINE p == call[m].part
<1>1. /\ call[m].pc = "write" /\ p < call[m].parts
      /\ call'[m] \in Calls /\ Moves(m, call'[m])
      /\ call'[m].pc = "write" /\ call'[m].part = p + 1 /\ call'[m].parts = call[m].parts
  BY WriteTyped
<1>2. p \in Nat /\ call[m].parts \in 1..MaxParts /\ MaxParts \in Nat
  BY CallNumbers DEF LogAssumption
<1>3. <<m, p + 1>> \in Owed
  BY <1>1, <1>2 DEF Owed, AllPieces, Committed
<1>4. Owed' \subseteq Owed
  BY <1>1, <1>2, OwedMove DEF Committed
<1>5. \A x \in Owed' : x \in AllPieces /\ call'[x[1]].part < x[2]
  BY DEF Owed, AllPieces
<1>6. \A x \in Owed' : x \notin {m} \X (1..(p + 1))
  BY <1>1, <1>2, <1>5
<1>7. <<m, p + 1>> \in {m} \X (1..(p + 1))
  BY <1>2
<1> QED
  BY <1>3, <1>4, <1>5, <1>6, <1>7

LEMMA OneLess ==
  ASSUME NEW S, IsFiniteSet(S), NEW x \in S, NEW T \in SUBSET (S \ {x})
  PROVE  Cardinality(S) \in Nat /\ Cardinality(T) \in Nat /\ Cardinality(T) <= Cardinality(S) - 1
<1>1. IsFiniteSet(S \ {x}) /\ Cardinality(S \ {x}) = Cardinality(S) - 1
  BY FS_RemoveElement
<1>2. IsFiniteSet(T) /\ Cardinality(T) <= Cardinality(S \ {x})
  BY <1>1, FS_Subset
<1>3. Cardinality(S) \in Nat /\ Cardinality(T) \in Nat
  BY <1>2, FS_CardinalityType
<1> QED
  BY <1>1, <1>2, <1>3

LEMMA RowLess ==
  ASSUME LogAssumption, NEW m \in Monitors, NEW k \in 1..MaxParts,
         NEW T \in SUBSET (AllPieces \ ({m} \X (1..k)))
  PROVE  Cardinality(T) <= Cardinality(AllPieces) - k
<1> DEFINE Row == {m} \X (1..k)
           Rest == AllPieces \ Row
<1>1. IsFiniteSet(AllPieces) /\ Cardinality(AllPieces) \in Nat
  BY PiecesFinite
<1>2. k \in Nat \ {0} /\ MaxParts \in Nat
  BY DEF LogAssumption
<1>3. IsFiniteSet({m}) /\ Cardinality({m}) = 1
  BY FS_Singleton
<1>4. 1 \in Int /\ k \in Int
  BY <1>2
<1>5. IsFiniteSet(1..k) /\ Cardinality(1..k) = IF 1 > k THEN 0 ELSE k - 1 + 1
  BY <1>4, FS_Interval
<1>6. Cardinality(1..k) = k
  BY <1>2, <1>5
<1>7. Cardinality(Row) = Cardinality({m}) * Cardinality(1..k)
  BY <1>3, <1>5, FS_Product
<1>8. Cardinality(Row) = k
  BY <1>2, <1>3, <1>6, <1>7
<1>9. AllPieces \cap Row = Row
  BY <1>2 DEF AllPieces
<1>10. IsFiniteSet(Rest) /\ Cardinality(Rest) = Cardinality(AllPieces) - Cardinality(AllPieces \cap Row)
  <2> HIDE DEF Row
  <2> QED
    BY <1>1, FS_Difference
<1>11. Cardinality(T) <= Cardinality(Rest)
  <2>1. T \in SUBSET Rest
    OBVIOUS
  <2> HIDE DEF Rest
  <2> QED
    BY <1>10, <2>1, FS_Subset
<1> HIDE DEF Row, Rest
<1> QED
  BY <1>8, <1>9, <1>10, <1>11

LEMMA SizeWrite ==
  ASSUME LogAssumption, LogTypeOK, LogTypeOK', SizeInv, NEW m \in Monitors, Write(m)
  PROVE  SizeInv'
<1> DEFINE p == call[m].part
           x == <<m, p + 1>>
           Done == {m} \X (1..(p + 1))
<1>1. x \in Owed /\ Owed' \subseteq Owed \ {x} /\ Owed' \subseteq AllPieces \ Done
  BY OwedWrite
<1>2. /\ p \in Nat /\ p + 1 \in 1..MaxParts /\ MaxParts \in Nat /\ Limit \in Nat
      /\ text \in Seq(Pieces) /\ Len(text) \in Nat /\ Len(text') \in Nat
  <2>1. text \in Seq(Pieces) /\ text' \in Seq(Pieces) /\ Limit \in Nat /\ MaxParts \in Nat
    BY DEF LogTypeOK, LogAssumption
  <2>2. p \in Nat /\ call[m].parts \in 1..MaxParts
    BY CallNumbers
  <2>3. p < call[m].parts
    BY WriteTyped
  <2> QED
    BY <2>1, <2>2, <2>3, SMTT(30)
<1>3. /\ Target(m) \in Nat \ {0}
      /\ Len(text') = IF Target(m) <= Len(text) THEN Len(text) ELSE Target(m)
  <2>1. Target(m) \in Nat \ {0} /\ NextPiece(m) \in Pieces
        /\ text' = Written(Target(m), NextPiece(m))
    BY WriteTyped
  <2>2. Len(Written(Target(m), NextPiece(m))) = IF Target(m) <= Len(text) THEN Len(text) ELSE Target(m)
    BY <1>2, <2>1, OldTyped, WrittenTyped
  <2> QED
    BY <2>1, <2>2
<1>4. /\ Cardinality(Owed) \in Nat /\ Cardinality(Owed') \in Nat
      /\ Cardinality(Owed') <= Cardinality(Owed) - 1
  <2>1. IsFiniteSet(Owed)
    BY OwedTyped, PartOfPieces
  <2> QED
    BY <1>1, <2>1, OneLess
<1>5. Cardinality(AllPieces) \in Nat /\ Cardinality(Owed') <= Cardinality(AllPieces) - (p + 1)
  BY <1>1, <1>2, PiecesFinite, RowLess
<1>6. Len(text) + Cardinality(Owed) <= Limit + Cardinality(AllPieces)
  BY DEF SizeInv
<1>7. Target(m) = Len(text) + 1 \/ Target(m) = p + 1
  BY DEF Target
<1>8. Len(text') + Cardinality(Owed') <= Limit + Cardinality(AllPieces)
  <2> HIDE DEF p, x, Done
  <2>1. CASE Len(text') = Len(text) \/ Len(text') = Len(text) + 1
    BY <1>2, <1>4, <1>5, <1>6, <2>1, SMTT(30)
  <2>2. CASE Len(text') = p + 1
    BY <1>2, <1>4, <1>5, <2>2
  <2>3. \/ Len(text') = Len(text) \/ Len(text') = Len(text) + 1
        \/ Len(text') = p + 1
    BY <1>3, <1>7
  <2> QED
    BY <2>1, <2>2, <2>3
<1>9. AllPieces' = AllPieces
  BY DEF AllPieces
<1> QED
  BY <1>8, <1>9 DEF SizeInv

LEMMA SizeInit ==
  ASSUME LogAssumption, Init
  PROVE  SizeInv
<1>1. PICK n \in 0..(Limit + 1) : text = [i \in 1..n |-> Old]
  BY DEF Init
<1>2. Limit \in Nat
  BY DEF LogAssumption
<1>3. Len(text) = n
  BY <1>1, <1>2
<1>4. \A m \in Monitors : call[m].pc = "idle"
  BY DEF Init, NoCall
<1>5. Owed = {}
  BY <1>4 DEF Owed, AllPieces, Committed
<1>6. Cardinality(Owed) = 0
  BY <1>5, FS_EmptySet
<1> QED
  BY <1>1, <1>2, <1>3, <1>6, PiecesFinite DEF SizeInv

LEMMA SizeNext ==
  ASSUME LogAssumption, LogTypeOK, LogTypeOK', SizeInv, [Next]_vars
  PROVE  SizeInv'
<1>1. ASSUME NEW m \in Monitors, Step(m)
      PROVE  SizeInv'
  <2>1. CASE Call(m)
    <3>1. Owed' \subseteq Owed
      BY <2>1, CallTyped, OwedMove DEF Committed
    <3> QED
      BY <2>1, <3>1, SizeShrinks DEF Call, LogTypeOK
  <2>2. CASE Access(m)
    <3>1. call[m].pc \in Levels /\ call'[m].pc = After[call[m].pc]
      BY <2>2, AccessTyped
    <3>2. call'[m].pc \in {"info", "debug", "decide"}
      BY <3>1, LevelTables
    <3>3. Owed' \subseteq Owed
      BY <2>2, <3>2, AccessTyped, OwedMove DEF Committed
    <3> QED
      BY <2>2, <3>3, SizeShrinks DEF Access, LogTypeOK
  <2>3. CASE Decide(m)
    <3>1. call'[m].pc \in {"stat", "print", "skip"}
      BY <2>3, DecideTyped
    <3>2. Owed' \subseteq Owed
      BY <2>3, <3>1, DecideTyped, OwedMove DEF Committed
    <3> QED
      BY <2>3, <3>2, SizeShrinks DEF Decide, LogTypeOK
  <2>4. CASE Stat(m)
    <3>1. CASE Mode = "a"
      <4>1. Len(text) <= Limit /\ text' = text
        BY <2>4, <3>1 DEF Mode, Stat
      <4> QED
        BY <4>1, SizeSmall
    <3>2. CASE Mode # "a"
      <4>1. Owed' \subseteq Owed
        BY <2>4, <3>2, StatTyped, OwedMove DEF Committed
      <4> QED
        BY <2>4, <4>1, SizeShrinks DEF Stat, LogTypeOK
    <3> QED
      BY <3>1, <3>2
  <2>5. CASE Open(m)
    <3>1. CASE call[m].mode = "w"
      <4>1. text' = <<>>
        BY <2>5, <3>1 DEF Open
      <4>2. Len(text') <= Limit
        BY <4>1 DEF LogAssumption
      <4> QED
        BY <4>2, SizeSmall
    <3>2. CASE call[m].mode # "w"
      <4>1. call[m].mode = "a" /\ text' = text /\ call[m].part \in Nat
        <5>1. call[m].mode \in {"a", "w"} /\ call[m].part \in Nat
          BY CallNumbers
        <5>2. text' = IF call[m].mode = "w" THEN <<>> ELSE text
          BY <2>5 DEF Open
        <5> QED
          BY <3>2, <5>1, <5>2
      <4>2. /\ call'[m] \in Calls /\ Moves(m, call'[m]) /\ call[m].pc = "open"
            /\ call'[m].part = call[m].part /\ call'[m].parts = call[m].parts
        BY <2>5, OpenTyped
      <4>3. Owed' \subseteq Owed
        BY <4>1, <4>2, OwedMove DEF Committed
      <4> QED
        BY <4>1, <4>3, SizeShrinks DEF LogTypeOK
    <3> QED
      BY <3>1, <3>2
  <2>6. CASE Write(m)
    BY <2>6, SizeWrite
  <2>7. CASE Return(m) \/ Kill(m)
    <3>1. call'[m] \in Calls /\ Moves(m, call'[m]) /\ call'[m].pc = "idle" /\ text' = text
      BY <2>7, LeaveTyped, NoCallTyped
    <3>2. Owed' \subseteq Owed
      BY <3>1, OwedMove DEF Committed
    <3> QED
      BY <3>1, <3>2, SizeShrinks DEF LogTypeOK
  <2> QED
    BY <1>1, <2>1, <2>2, <2>3, <2>4, <2>5, <2>6, <2>7 DEF Step
<1>2. CASE Switch
  <2>1. \A n \in Monitors : /\ call'[n].pc = call[n].pc /\ call'[n].mode = call[n].mode
                            /\ call'[n].part = call[n].part /\ call'[n].parts = call[n].parts
    BY <1>2, SwitchTyped
  <2>2. Owed' \subseteq Owed
    BY <2>1 DEF Owed, AllPieces, Committed
  <2>3. text' = text
    BY <1>2 DEF Switch
  <2>4. Len(text') <= Len(text)
    BY <2>3 DEF LogTypeOK
  <2> QED
    BY <2>2, <2>4, SizeShrinks
<1>3. CASE UNCHANGED vars
  <2>1. Owed' \subseteq Owed /\ text' = text
    BY <1>3 DEF Owed, AllPieces, Committed, vars
  <2> QED
    BY <2>1, SizeShrinks DEF LogTypeOK
<1> QED
  BY <1>1, <1>2, <1>3 DEF Next

(* The log outgrows its limit by no more than a line of each monitor.      *)
THEOREM LogSizeBounded == Spec => []SizeBounded
<1>1. Init => LogTypeOK /\ SizeInv
  BY LogAssumption, TypesInit, SizeInit
<1>2. LogTypeOK /\ SizeInv /\ [Next]_vars => (LogTypeOK /\ SizeInv)'
  BY LogAssumption, TypesNext, SizeNext
<1>3. LogTypeOK /\ SizeInv => SizeBounded
  <2>1. SUFFICES ASSUME LogTypeOK, SizeInv
                 PROVE  SizeBounded
    OBVIOUS
  <2>2. Cardinality(Owed) \in Nat
    BY LogAssumption, OwedTyped, PartOfPieces
  <2>3. Len(text) \in Nat /\ Limit \in Nat
    BY LogAssumption DEF LogTypeOK, LogAssumption
  <2>4. Cardinality(AllPieces) \in Nat
    BY LogAssumption, PiecesFinite
  <2>5. Len(text) <= Limit + Cardinality(AllPieces)
    BY <2>1, <2>2, <2>3, <2>4 DEF SizeInv
  <2> QED
    BY <2>5, PiecesFinite, LogAssumption DEF SizeBounded
<1> QED
  BY <1>1, <1>2, <1>3, PTL DEF Spec

-----------------------------------------------------------------------------
(* A piece of the text is not after what a call has written. *)
NotAfter(d, c) == d.line < c.line \/ (d.line = c.line /\ d.part <= c.part)

(* Of what monitor m wrote, given its call, the text and the lines begun:  *)
(* nothing is ahead of the call, and after it emptied the file none of it  *)
(* lies behind the place it writes next.                                   *)
Own(m, c, t, n) ==
  /\ c.line <= n
  /\ c.pc # "write" => c.part = 0
  /\ \A i \in DOMAIN t : t[i].by = m =>
       /\ t[i].line <= n
       /\ c.pc # "idle" => NotAfter(t[i], c)
       /\ c.pc = "write" /\ c.mode = "w" => i <= c.part

OrderInv == OrderKept /\ \A m \in Monitors : Own(m, call[m], text, lines)

LEMMA TextTyped ==
  ASSUME LogAssumption, NEW t \in Seq(Pieces), NEW i \in DOMAIN t
  PROVE  /\ i \in 1..Len(t) /\ i \in Nat
         /\ t[i].line \in Nat /\ t[i].part \in Nat
<1>1. i \in 1..Len(t) /\ t[i] \in Pieces
  OBVIOUS
<1>2. MaxLines \in Nat /\ MaxParts \in Nat
  BY DEF LogAssumption
<1>3. t[i].line \in Nat /\ t[i].part \in Nat
  BY <1>1, <1>2 DEF Pieces
<1> QED
  BY <1>1, <1>3

LEMMA OrderInit ==
  ASSUME LogAssumption, Init
  PROVE  OrderInv
<1>1. PICK n \in 0..(Limit + 1) : text = [i \in 1..n |-> Old]
  BY DEF Init
<1>2. \A i \in DOMAIN text : text[i].by = Nobody
  BY <1>1, OldTyped
<1>3. \A m \in Monitors : m # Nobody
  BY DEF LogAssumption
<1>4. \A m \in Monitors : call[m].pc = "idle" /\ call[m].line = 0 /\ call[m].part = 0
  BY DEF Init, NoCall
<1>5. lines = 0
  BY DEF Init
<1>6. ASSUME NEW m \in Monitors
      PROVE  Own(m, call[m], text, lines)
  BY <1>2, <1>3, <1>4, <1>5 DEF Own
<1>7. OrderKept
  BY <1>2 DEF OrderKept
<1> QED
  BY <1>6, <1>7 DEF OrderInv

(* A call moves and nothing is written: what matters is the call itself. *)
LEMMA OrderMove ==
  ASSUME LogTypeOK, OrderInv, NEW m \in Monitors, call'[m] \in Calls, Moves(m, call'[m]),
         UNCHANGED <<text, lines>>, Own(m, call'[m], text, lines)
  PROVE  OrderInv'
<1>1. \A n \in Monitors : n # m => call'[n] = call[n]
  BY MovesOne
<1>2. \A n \in Monitors : Own(n, call'[n], text, lines)
  BY <1>1 DEF OrderInv
<1>3. text' = text /\ lines' = lines
  OBVIOUS
<1>4. \A n \in Monitors : Own(n, call'[n], text', lines')
  BY <1>2, <1>3
<1>5. OrderKept'
  BY <1>3 DEF OrderInv, OrderKept, Before
<1> QED
  BY <1>4, <1>5 DEF OrderInv, Own, NotAfter

(* A call that goes on, without writing, with its line and part. *)
LEMMA OwnKept ==
  ASSUME NEW m, NEW c, NEW d, NEW t, NEW n, Own(m, c, t, n),
         d.line = c.line, d.part = 0, c.part = 0, c.pc # "idle", d.pc = "write" => d.mode = c.mode /\ c.mode # "w"
  PROVE  Own(m, d, t, n)
BY DEF Own, NotAfter

LEMMA OrderCall ==
  ASSUME LogAssumption, LogTypeOK, OrderInv, NEW m \in Monitors, Call(m)
  PROVE  OrderInv'
<1>1. /\ call'[m] \in Calls /\ call'[m].pc = "error" /\ call'[m].line = lines + 1
      /\ call'[m].part = 0 /\ Moves(m, call'[m])
  BY CallTyped
<1>2. lines' = lines + 1 /\ text' = text /\ lines \in Nat /\ text \in Seq(Pieces)
  BY DEF Call, LogTypeOK, LogAssumption
<1>3. \A n \in Monitors : n # m => call'[n] = call[n]
  BY <1>1, MovesOne
<1>4. \A n \in Monitors : call[n].line \in Nat
  BY CallNumbers
<1>5. \A i \in DOMAIN text : text[i].line \in Nat
  BY <1>2, TextTyped
<1>6. ASSUME NEW n \in Monitors
      PROVE  Own(n, call'[n], text', lines')
  <2>1. Own(n, call[n], text, lines)
    BY DEF OrderInv
  <2>2. CASE n = m
    BY <1>1, <1>2, <1>5, <2>1, <2>2 DEF Own, NotAfter
  <2>3. CASE n # m
    BY <1>2, <1>3, <1>4, <1>5, <2>1, <2>3 DEF Own
  <2> QED
    BY <2>2, <2>3
<1>7. OrderKept'
  BY <1>2 DEF OrderInv, OrderKept, Before
<1> QED
  BY <1>6, <1>7 DEF OrderInv, Own, NotAfter

LEMMA OrderOpen ==
  ASSUME LogAssumption, LogTypeOK, OrderInv, NEW m \in Monitors, Open(m)
  PROVE  OrderInv'
<1>1. /\ call[m].pc = "open" /\ call'[m] \in Calls /\ Moves(m, call'[m])
      /\ call'[m].pc = "write" /\ call'[m].mode = call[m].mode /\ call'[m].line = call[m].line
      /\ call'[m].part = call[m].part
  BY OpenTyped
<1>2. lines' = lines /\ text' = IF call[m].mode = "w" THEN <<>> ELSE text
  BY DEF Open
<1>3. \A n \in Monitors : n # m => call'[n] = call[n]
  BY <1>1, MovesOne
<1>4. \A n \in Monitors : Own(n, call[n], text, lines)
  BY DEF OrderInv
<1>5. call[m].part = 0
  BY <1>1, <1>4 DEF Own
<1>6. CASE call[m].mode # "w"
  <2>1. Own(m, call'[m], text, lines)
    BY <1>1, <1>4, <1>5, <1>6, OwnKept
  <2> QED
    BY <1>1, <1>2, <1>6, <2>1, OrderMove
<1>7. CASE call[m].mode = "w"
  <2>1. text' = <<>> /\ DOMAIN <<>> = {}
    BY <1>2, <1>7
  <2>2. \A n \in Monitors : Own(n, call'[n], text', lines')
    BY <1>1, <1>2, <1>3, <1>4, <1>5, <2>1 DEF Own
  <2>3. OrderKept'
    BY <2>1 DEF OrderKept
  <2> QED
    BY <2>2, <2>3 DEF OrderInv, Own, NotAfter
<1> QED
  BY <1>6, <1>7

(* A piece is written after everything of its monitor, in time and place. *)
LEMMA OrderWrite ==
  ASSUME LogAssumption, LogTypeOK, LogTypeOK', OrderInv, NEW m \in Monitors, Write(m)
  PROVE  OrderInv'
<1> DEFINE c == call[m]
           d == call'[m]
           p == Target(m)
           x == NextPiece(m)
<1>1. /\ c.pc = "write" /\ d \in Calls /\ Moves(m, d)
      /\ d.pc = "write" /\ d.mode = c.mode /\ d.line = c.line /\ d.part = c.part + 1
      /\ p \in Nat \ {0} /\ x \in Pieces /\ text' = Written(p, x)
  BY WriteTyped
<1>2. /\ text \in Seq(Pieces) /\ text' \in Seq(Pieces) /\ lines' = lines /\ lines \in Nat
      /\ c.part \in Nat /\ c.line \in Nat
  <2>1. text \in Seq(Pieces) /\ text' \in Seq(Pieces) /\ lines \in Nat
    BY DEF LogTypeOK, LogAssumption
  <2>2. lines' = lines
    BY DEF Write
  <2> QED
    BY <2>1, <2>2, CallNumbers
<1>3. x.by = m /\ x.line = c.line /\ x.part = c.part + 1
  BY DEF NextPiece, Piece
<1>4. /\ Len(text') = IF p <= Len(text) THEN Len(text) ELSE p
      /\ \A i \in 1..Len(text') :
           text'[i] = IF i = p THEN x ELSE IF i <= Len(text) THEN text[i] ELSE Old
  <2> HIDE DEF p, x
  <2>1. Old \in Pieces /\ text \in Seq(Pieces) /\ p \in Nat \ {0} /\ x \in Pieces
    BY <1>1, <1>2, OldTyped
  <2>2. /\ Len(Written(p, x)) = IF p <= Len(text) THEN Len(text) ELSE p
        /\ \A i \in 1..Len(Written(p, x)) :
             Written(p, x)[i] = IF i = p THEN x ELSE IF i <= Len(text) THEN text[i] ELSE Old
    BY <2>1, WrittenTyped
  <2>3. text' = Written(p, x)
    BY <1>1
  <2> QED
    BY <2>2, <2>3, Zenon
<1>5. Old.by = Nobody /\ m # Nobody /\ \A n \in Monitors : n # Nobody
  BY OldTyped DEF LogAssumption
<1>6. \A n \in Monitors : Own(n, call[n], text, lines)
  BY DEF OrderInv
<1>7. \A n \in Monitors : n # m => call'[n] = call[n]
  BY <1>1, MovesOne
<1>8. ASSUME NEW i \in DOMAIN text', text'[i].by # Nobody, i # p
      PROVE  i \in DOMAIN text /\ text'[i] = text[i]
  <2>1. i \in 1..Len(text')
    BY <1>2
  <2>2. i <= Len(text)
    BY <1>4, <1>5, <1>8, <2>1
  <2> QED
    BY <1>2, <1>4, <1>8, <2>1, <2>2
<1>9. ASSUME NEW i \in DOMAIN text, text[i].by = m
      PROVE  i < p /\ Before(text[i], x) /\ text[i].line <= lines /\ NotAfter(text[i], c)
  <2>1. i \in 1..Len(text) /\ text[i].line \in Nat /\ text[i].part \in Nat
    BY <1>2, TextTyped
  <2>2. /\ text[i].line <= lines /\ NotAfter(text[i], c)
        /\ c.mode = "w" => i <= c.part
    BY <1>1, <1>6, <1>9 DEF Own
  <2>3. i < p
    <3>1. c.mode = "a" \/ c.mode = "w"
      BY CallNumbers
    <3> QED
      BY <1>2, <2>1, <2>2, <3>1 DEF Target
  <2>4. Before(text[i], x)
    BY <1>2, <1>3, <2>1, <2>2 DEF Before, NotAfter
  <2> QED
    BY <2>2, <2>3, <2>4
<1>10. p \in DOMAIN text' /\ text'[p] = x
  BY <1>1, <1>2, <1>4
<1>11. OrderKept'
  <2>1. ASSUME NEW i \in DOMAIN text', NEW j \in DOMAIN text',
               i < j, text'[i].by = text'[j].by, text'[i].by # Nobody
        PROVE  Before(text'[i], text'[j])
    <3>1. CASE i # p /\ j # p
      <4>1. i \in DOMAIN text /\ text'[i] = text[i] /\ j \in DOMAIN text /\ text'[j] = text[j]
        BY <1>8, <2>1, <3>1
      <4> QED
        BY <2>1, <4>1 DEF OrderInv, OrderKept
    <3>2. CASE j = p
      <4>1. i # p /\ text'[j] = x /\ text'[i].by = m
        BY <1>1, <1>3, <1>10, <2>1, <3>2
      <4>2. i \in DOMAIN text /\ text'[i] = text[i]
        BY <1>8, <2>1, <4>1
      <4> QED
        BY <1>9, <4>1, <4>2
    <3>3. CASE i = p
      <4>1. j # p /\ text'[j].by = m /\ j > p
        BY <1>1, <1>3, <1>10, <2>1, <3>3
      <4>2. j \in DOMAIN text /\ text'[j] = text[j]
        BY <1>8, <2>1, <4>1
      <4>3. j < p /\ j \in Nat
        BY <1>2, <1>9, <4>1, <4>2
      <4> QED
        BY <1>1, <4>1, <4>3
    <3> QED
      BY <3>1, <3>2, <3>3
  <2> QED
    BY <2>1 DEF OrderKept, Before
<1>12. ASSUME NEW n \in Monitors
       PROVE  Own(n, call'[n], text', lines')
  <2>1. CASE n # m
    <3>1. ASSUME NEW i \in DOMAIN text', text'[i].by = n
          PROVE  i \in DOMAIN text /\ text'[i] = text[i]
      BY <1>3, <1>5, <1>8, <1>10, <2>1, <3>1
    <3> QED
      BY <1>2, <1>6, <1>7, <2>1, <3>1 DEF Own
  <2>2. CASE n = m
    <3>1. ASSUME NEW i \in DOMAIN text', text'[i].by = m
          PROVE  text'[i].line <= lines /\ NotAfter(text'[i], d)
                 /\ (d.mode = "w" => i <= d.part)
      <4>1. CASE i = p
        <5>1. c.line <= lines
          BY <1>6 DEF Own
        <5>2. NotAfter(x, d)
          BY <1>1, <1>2, <1>3 DEF NotAfter
        <5>3. d.mode = "w" => p <= d.part
          BY <1>1, <1>2 DEF Target
        <5> QED
          BY <1>3, <1>10, <4>1, <5>1, <5>2, <5>3
      <4>2. CASE i # p
        <5>1. i \in DOMAIN text /\ text'[i] = text[i]
          BY <1>5, <1>8, <3>1, <4>2
        <5>2. text[i].line \in Nat /\ text[i].part \in Nat /\ i \in Nat
          BY <1>2, <5>1, TextTyped
        <5>3. NotAfter(text[i], c) /\ text[i].line <= lines /\ (c.mode = "w" => i <= c.part)
          BY <1>1, <1>6, <3>1, <5>1 DEF Own
        <5>4. NotAfter(text[i], d)
          BY <1>1, <1>2, <5>2, <5>3 DEF NotAfter
        <5> QED
          BY <1>1, <1>2, <5>1, <5>2, <5>3, <5>4
      <4> QED
        BY <4>1, <4>2
    <3>2. d.line <= lines
      BY <1>1, <1>6 DEF Own
    <3> QED
      BY <1>1, <1>2, <2>2, <3>1, <3>2 DEF Own
  <2> QED
    BY <2>1, <2>2
<1> QED
  BY <1>11, <1>12 DEF OrderInv, Own, NotAfter

LEMMA OrderNext ==
  ASSUME LogAssumption, LogTypeOK, LogTypeOK', OrderInv, [Next]_vars
  PROVE  OrderInv'
<1>1. ASSUME NEW m \in Monitors, Step(m)
      PROVE  OrderInv'
  <2> DEFINE c == call[m]
             d == call'[m]
  <2>0. Own(m, c, text, lines)
    BY DEF OrderInv
  <2>1. CASE Call(m)
    BY <2>1, OrderCall
  <2>2. CASE Access(m)
    <3>1. /\ c.pc \in Levels /\ d \in Calls /\ Moves(m, d) /\ d.pc = After[c.pc]
          /\ d.line = c.line /\ d.part = c.part
      BY <2>2, AccessTyped
    <3>2. c.pc \notin {"idle", "write"} /\ d.pc \notin {"write"}
      BY <3>1, LevelTables
    <3>3. c.part = 0
      BY <2>0, <3>2 DEF Own
    <3>4. Own(m, d, text, lines)
      <4> HIDE DEF c, d
      <4> QED
        BY <2>0, <3>1, <3>2, <3>3, OwnKept
    <3> QED
      BY <2>2, <3>1, <3>4, OrderMove DEF Access
  <2>3. CASE Decide(m)
    <3>1. /\ c.pc = "decide" /\ d \in Calls /\ Moves(m, d) /\ d.pc \in {"stat", "print", "skip"}
          /\ d.line = c.line /\ d.part = c.part
      BY <2>3, DecideTyped
    <3>2. c.part = 0
      BY <2>0, <3>1 DEF Own
    <3>3. Own(m, d, text, lines)
      <4> HIDE DEF c, d
      <4> QED
        BY <2>0, <3>1, <3>2, OwnKept
    <3> QED
      BY <2>3, <3>1, <3>3, OrderMove DEF Decide
  <2>4. CASE Stat(m)
    <3>1. /\ c.pc = "stat" /\ d \in Calls /\ Moves(m, d) /\ d.pc = "open"
          /\ d.line = c.line /\ d.part = 0
      BY <2>4, StatTyped
    <3>2. c.part = 0
      BY <2>0, <3>1 DEF Own
    <3>3. Own(m, d, text, lines)
      <4> HIDE DEF c, d
      <4> QED
        BY <2>0, <3>1, <3>2, OwnKept
    <3> QED
      BY <2>4, <3>1, <3>3, OrderMove DEF Stat
  <2>5. CASE Open(m)
    BY <2>5, OrderOpen
  <2>6. CASE Write(m)
    BY <2>6, OrderWrite
  <2>7. CASE Return(m) \/ Kill(m)
    <3>1. d \in Calls /\ Moves(m, d) /\ d = NoCall /\ UNCHANGED <<text, lines>>
      BY <2>7, LeaveTyped
    <3>2. d.pc = "idle" /\ d.line = 0 /\ d.part = 0
      BY <3>1 DEF NoCall
    <3>3. lines \in Nat
      BY DEF LogTypeOK, LogAssumption
    <3>4. Own(m, d, text, lines)
      BY <2>0, <3>2, <3>3 DEF Own
    <3> QED
      BY <3>1, <3>4, OrderMove
  <2> QED
    BY <1>1, <2>1, <2>2, <2>3, <2>4, <2>5, <2>6, <2>7 DEF Step
<1>2. CASE Switch
  <2>1. \A n \in Monitors : /\ call'[n].pc = call[n].pc /\ call'[n].mode = call[n].mode
                            /\ call'[n].part = call[n].part /\ call'[n].line = call[n].line
    BY <1>2, SwitchTyped
  <2>2. text' = text /\ lines' = lines
    BY <1>2 DEF Switch
  <2>3. \A n \in Monitors : Own(n, call'[n], text', lines')
    BY <2>1, <2>2 DEF OrderInv, Own, NotAfter
  <2>4. OrderKept'
    BY <2>2 DEF OrderInv, OrderKept, Before
  <2> QED
    BY <2>3, <2>4 DEF OrderInv, Own, NotAfter
<1>3. CASE UNCHANGED vars
  BY <1>3 DEF OrderInv, OrderKept, Before, Own, NotAfter, vars
<1> QED
  BY <1>1, <1>2, <1>3 DEF Next

(* No line of a monitor comes back in the file before an older one of it,  *)
(* whatever others write and empty.                                        *)
THEOREM LogKeepsOrder == Spec => []OrderKept
<1>1. Init => LogTypeOK /\ OrderInv
  BY LogAssumption, TypesInit, OrderInit
<1>2. LogTypeOK /\ OrderInv /\ [Next]_vars => (LogTypeOK /\ OrderInv)'
  BY LogAssumption, TypesNext, OrderNext
<1>3. OrderInv => OrderKept
  BY DEF OrderInv
<1> QED
  BY <1>1, <1>2, <1>3, PTL DEF Spec

-----------------------------------------------------------------------------
(* The call has the file in hand. *)
Holding(c) == c.pc \in {"open", "write"}

(* No file, no text. As long as no two calls had the file in hand at once: *)
(* one has at most; one that is about to empty the file finds it too large *)
(* or empty; and one that has emptied it wrote all that is in it.          *)
ShareInv ==
  /\ ~present => text = <<>> /\ \A m \in Monitors : call[m].pc # "write"
  /\ ~overlapped =>
       /\ \A m, n \in Monitors : Holding(call[m]) /\ Holding(call[n]) => m = n
       /\ \A m \in Monitors : call[m].pc = "open" /\ call[m].mode = "w" =>
            text = <<>> \/ Len(text) > Limit
       /\ \A m \in Monitors : call[m].pc = "write" /\ call[m].mode = "w" =>
            Len(text) = call[m].part

LEMMA WrittenAtEnd ==
  ASSUME LogAssumption, text \in Seq(Pieces), NEW d \in Pieces
  PROVE  /\ Len(Written(Len(text) + 1, d)) = Len(text) + 1
         /\ SubSeq(Written(Len(text) + 1, d), 1, Len(text)) = text
<1> DEFINE n == Len(text)
           w == Written(n + 1, d)
<1>1. n \in Nat /\ n + 1 \in Nat \ {0} /\ Old \in Pieces
  BY OldTyped
<1>2. /\ w \in Seq(Pieces) /\ Len(w) = n + 1
      /\ \A i \in 1..(n + 1) : w[i] = IF i = n + 1 THEN d ELSE IF i <= n THEN text[i] ELSE Old
  <2>1. /\ w \in Seq(Pieces) /\ Len(w) = IF n + 1 <= n THEN n ELSE n + 1
        /\ \A i \in 1..Len(w) : w[i] = IF i = n + 1 THEN d ELSE IF i <= n THEN text[i] ELSE Old
    BY <1>1, WrittenTyped
  <2>2. Len(w) = n + 1
    BY <1>1, <2>1
  <2> QED
    BY <2>1, <2>2
<1> HIDE DEF w
<1>3. \A i \in 1..n : w[i] = text[i]
  BY <1>1, <1>2
<1>4. SubSeq(w, 1, n) = [i \in 1..n |-> w[i]]
  BY <1>1, <1>2
<1>5. text = [i \in 1..n |-> text[i]]
  OBVIOUS
<1>6. SubSeq(w, 1, n) = text
  BY <1>3, <1>4, <1>5
<1> QED
  BY <1>2, <1>6 DEF w

LEMMA ShareInit ==
  ASSUME LogAssumption, Init
  PROVE  ShareInv /\ Contract!Init
<1>1. PICK n \in 0..(Limit + 1) : text = [i \in 1..n |-> Old] /\ (~present => n = 0)
  BY DEF Init
<1>2. ~present => text = <<>>
  BY <1>1
<1>3. \A m \in Monitors : call[m].pc = "idle"
  BY DEF Init, NoCall
<1>4. overlapped = FALSE
  BY DEF Init
<1> QED
  BY <1>2, <1>3, <1>4 DEF ShareInv, Holding, Contract!Init

(* A step that leaves the file alone and brings no call to it. *)
LEMMA ShareQuiet ==
  ASSUME ShareInv, UNCHANGED <<present, text, overlapped>>,
         \A m \in Monitors :
           \/ ~Holding(call'[m])
           \/ /\ call'[m].pc = call[m].pc /\ call'[m].mode = call[m].mode
              /\ call'[m].part = call[m].part
  PROVE  ShareInv'
<1>1. present' = present /\ text' = text /\ overlapped' = overlapped
  OBVIOUS
<1> QED
  BY <1>1 DEF ShareInv, Holding

LEMMA ShareStat ==
  ASSUME LogAssumption, LogTypeOK, ShareInv, NEW m \in Monitors, Stat(m)
  PROVE  ShareInv' /\ [Contract!Next]_<<text, overlapped>>
<1>1. /\ call[m].pc = "stat" /\ call'[m] \in Calls /\ Moves(m, call'[m])
      /\ call'[m].pc = "open" /\ call'[m].mode = Mode /\ overlapped' \in BOOLEAN
  BY StatTyped
<1>2. \A n \in Monitors : n # m => call'[n] = call[n]
  BY <1>1, MovesOne
<1>3. present' = present /\ text' = text
  BY DEF Stat
<1>4. overlapped' = (overlapped \/ \E o \in Monitors : call[o].pc \in {"open", "write"})
  BY DEF Stat
<1>5. (~present' => text' = <<>> /\ \A n \in Monitors : call'[n].pc # "write")
  BY <1>1, <1>2, <1>3 DEF ShareInv
<1>6. ASSUME ~overlapped'
      PROVE  /\ \A n, o \in Monitors : Holding(call'[n]) /\ Holding(call'[o]) => n = o
             /\ \A n \in Monitors : call'[n].pc = "open" /\ call'[n].mode = "w" =>
                  text' = <<>> \/ Len(text') > Limit
             /\ \A n \in Monitors : call'[n].pc = "write" /\ call'[n].mode = "w" =>
                  Len(text') = call'[n].part
  <2>1. \A o \in Monitors : o # m => ~Holding(call'[o])
    BY <1>2, <1>4, <1>6 DEF Holding
  <2>2. Mode = "w" => text = <<>> \/ Len(text) > Limit
    <3>1. Len(text) \in Nat /\ Limit \in Nat
      BY DEF LogTypeOK, LogAssumption
    <3> QED
      BY <3>1 DEF Mode, ShareInv
  <2> QED
    BY <1>1, <1>3, <2>1, <2>2 DEF Holding
<1>7. ShareInv'
  BY <1>5, <1>6 DEF ShareInv, Holding
<1>8. CASE overlapped' = TRUE
  BY <1>7, <1>8 DEF Contract!Next, Contract!Shared
<1>9. CASE overlapped' # TRUE
  BY <1>1, <1>3, <1>4, <1>7, <1>9 DEF LogTypeOK
<1> QED
  BY <1>8, <1>9

LEMMA ShareOpen ==
  ASSUME LogAssumption, LogTypeOK, OrderInv, ShareInv, NEW m \in Monitors, Open(m)
  PROVE  ShareInv' /\ [Contract!Next]_<<text, overlapped>>
<1>1. /\ call[m].pc = "open" /\ call'[m] \in Calls /\ Moves(m, call'[m])
      /\ call'[m].pc = "write" /\ call'[m].mode = call[m].mode /\ call'[m].part = call[m].part
  BY OpenTyped
<1>2. \A n \in Monitors : n # m => call'[n] = call[n]
  BY <1>1, MovesOne
<1>3. /\ present' = TRUE /\ overlapped' = overlapped
      /\ text' = IF call[m].mode = "w" THEN <<>> ELSE text
  BY DEF Open
<1>4. call[m].part = 0
  BY <1>1 DEF OrderInv, Own
<1>5. ASSUME ~overlapped
      PROVE  /\ \A n \in Monitors : n # m => ~Holding(call[n])
             /\ call[m].mode = "w" => text = <<>> \/ Len(text) > Limit
  BY <1>1, <1>5 DEF ShareInv, Holding
<1>6. ASSUME ~overlapped
      PROVE  /\ \A n, o \in Monitors : Holding(call'[n]) /\ Holding(call'[o]) => n = o
             /\ \A n \in Monitors : call'[n].pc = "open" /\ call'[n].mode = "w" =>
                  text' = <<>> \/ Len(text') > Limit
             /\ \A n \in Monitors : call'[n].pc = "write" /\ call'[n].mode = "w" =>
                  Len(text') = call'[n].part
  <2>1. \A n \in Monitors : n # m => ~Holding(call'[n])
    BY <1>2, <1>5, <1>6
  <2>2. call'[m].mode = "w" => Len(text') = call'[m].part
    BY <1>1, <1>3, <1>4
  <2> QED
    BY <1>1, <2>1, <2>2 DEF Holding
<1>7. ShareInv'
  BY <1>3, <1>6 DEF ShareInv, Holding
<1>8. CASE overlapped
  BY <1>3, <1>7, <1>8 DEF Contract!Next, Contract!Shared, LogTypeOK
<1>9. CASE ~overlapped
  <2>1. overlapped = FALSE
    BY <1>9 DEF LogTypeOK
  <2>2. CASE text' = text
    BY <1>3, <1>7, <2>2
  <2>3. CASE text' # text
    <3>1. text' = <<>> /\ Len(text) > Limit
      BY <1>3, <1>5, <1>9, <2>3
    <3>2. Contract!StartAgain
      BY <1>3, <2>1, <3>1 DEF Contract!StartAgain
    <3> QED
      BY <1>7, <3>2 DEF Contract!Next
  <2> QED
    BY <2>2, <2>3
<1> QED
  BY <1>8, <1>9

LEMMA ShareWrite ==
  ASSUME LogAssumption, LogTypeOK, ShareInv, NEW m \in Monitors, Write(m)
  PROVE  ShareInv' /\ [Contract!Next]_<<text, overlapped>>
<1>1. /\ call[m].pc = "write" /\ call'[m] \in Calls /\ Moves(m, call'[m])
      /\ call'[m].pc = "write" /\ call'[m].mode = call[m].mode
      /\ call'[m].part = call[m].part + 1
  BY WriteTyped
<1>2. NextPiece(m) \in Pieces /\ text' = Written(Target(m), NextPiece(m))
  BY WriteTyped
<1>3. \A n \in Monitors : n # m => call'[n] = call[n]
  BY <1>1, MovesOne
<1>4. present' = present /\ overlapped' = overlapped
  BY DEF Write
<1>5. present = TRUE
  BY <1>1 DEF ShareInv, LogTypeOK
<1>6. /\ text \in Seq(Pieces) /\ call[m].part \in Nat /\ call[m].mode \in {"a", "w"}
  BY CallNumbers DEF LogTypeOK
<1>7. CASE overlapped
  <2>1. ShareInv'
    BY <1>4, <1>5, <1>7 DEF ShareInv
  <2> QED
    BY <1>4, <1>7, <2>1 DEF Contract!Next, Contract!Shared, LogTypeOK
<1>8. CASE ~overlapped
  <2>1. Target(m) = Len(text) + 1
    BY <1>1, <1>6, <1>8 DEF ShareInv, Target
  <2>2. Len(text') = Len(text) + 1 /\ SubSeq(text', 1, Len(text)) = text
    BY <1>2, <1>6, <2>1, WrittenAtEnd
  <2>3. \A n \in Monitors : n # m => ~Holding(call'[n])
    BY <1>1, <1>3, <1>8 DEF ShareInv, Holding
  <2>4. call'[m].mode = "w" => Len(text') = call'[m].part
    BY <1>1, <1>8, <2>2 DEF ShareInv
  <2>5. ShareInv'
    BY <1>1, <1>4, <1>5, <2>3, <2>4 DEF ShareInv, Holding
  <2>6. overlapped = FALSE
    BY <1>8 DEF LogTypeOK
  <2>7. Contract!Grow
    BY <1>4, <2>2, <2>6 DEF Contract!Grow
  <2> QED
    BY <2>5, <2>7 DEF Contract!Next
<1> QED
  BY <1>7, <1>8

LEMMA ShareNext ==
  ASSUME LogAssumption, LogTypeOK, OrderInv, ShareInv, [Next]_vars
  PROVE  ShareInv' /\ [Contract!Next]_<<text, overlapped>>
<1>1. ASSUME NEW m \in Monitors, Step(m)
      PROVE  ShareInv' /\ [Contract!Next]_<<text, overlapped>>
  <2>1. CASE Stat(m)
    BY <2>1, ShareStat
  <2>2. CASE Open(m)
    BY <2>2, ShareOpen
  <2>3. CASE Write(m)
    BY <2>3, ShareWrite
  <2>4. CASE Call(m) \/ Access(m) \/ Decide(m) \/ Return(m) \/ Kill(m)
    <3>1. UNCHANGED <<present, text, overlapped>>
      BY <2>4 DEF Call, Access, Decide, Return, Kill
    <3>2. call'[m] \in Calls /\ Moves(m, call'[m]) /\ ~Holding(call'[m])
      <4>1. CASE Call(m)
        BY <4>1, CallTyped DEF Holding
      <4>2. CASE Access(m)
        <5>1. call[m].pc \in Levels /\ call'[m].pc = After[call[m].pc]
          BY <4>2, AccessTyped
        <5>2. call'[m].pc \in {"info", "debug", "decide"}
          BY <5>1, LevelTables
        <5> QED
          BY <4>2, <5>2, AccessTyped DEF Holding
      <4>3. CASE Decide(m)
        <5>1. call'[m].pc \in {"stat", "print", "skip"}
          BY <4>3, DecideTyped
        <5> QED
          BY <4>3, <5>1, DecideTyped DEF Holding
      <4>4. CASE Return(m) \/ Kill(m)
        BY <4>4, LeaveTyped, NoCallTyped DEF Holding
      <4> QED
        BY <2>4, <4>1, <4>2, <4>3, <4>4
    <3>3. \A n \in Monitors : n # m => call'[n] = call[n]
      BY <3>2, MovesOne
    <3>4. ShareInv'
      BY <3>1, <3>2, <3>3, ShareQuiet
    <3> QED
      BY <3>1, <3>4
  <2> QED
    BY <1>1, <2>1, <2>2, <2>3, <2>4 DEF Step
<1>2. CASE Switch
  <2>1. \A n \in Monitors : /\ call'[n].pc = call[n].pc /\ call'[n].mode = call[n].mode
                            /\ call'[n].part = call[n].part
    BY <1>2, SwitchTyped
  <2>2. UNCHANGED <<present, text, overlapped>>
    BY <1>2 DEF Switch
  <2>3. ShareInv'
    BY <2>1, <2>2, ShareQuiet
  <2> QED
    BY <2>2, <2>3
<1>3. CASE UNCHANGED vars
  <2>1. UNCHANGED <<present, text, overlapped, call>>
    BY <1>3 DEF vars
  <2>2. ShareInv'
    BY <2>1, ShareQuiet
  <2> QED
    BY <2>1, <2>2
<1> QED
  BY <1>1, <1>2, <1>3 DEF Next

(* LyfLog implements LogContract: calls that do not overlap only add to    *)
(* the log, and start it again only past its limit.                        *)
THEOREM LogKeepsContract == Spec => KeepsLog
<1>1. Init => LogTypeOK /\ OrderInv /\ ShareInv /\ Contract!Init
  BY LogAssumption, TypesInit, OrderInit, ShareInit
<1>2. LogTypeOK /\ OrderInv /\ ShareInv /\ [Next]_vars
      => (LogTypeOK /\ OrderInv /\ ShareInv)' /\ [Contract!Next]_<<text, overlapped>>
  BY LogAssumption, TypesNext, OrderNext, ShareNext
<1> QED
  BY <1>1, <1>2, PTL DEF Spec, KeepsLog, Contract!Spec
=============================================================================
