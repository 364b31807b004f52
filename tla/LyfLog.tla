------------------------------ MODULE LyfLog -------------------------------
(***************************************************************************)
(* lyf_log of common/log.h: monitors running side by side in one directory *)
(* log into the same file, while an operator creates and removes the files *)
(* that say which levels are on. Every question a call asks the file       *)
(* system is a step of its own, and anything may happen between two.       *)
(***************************************************************************)
EXTENDS Naturals, Sequences, FiniteSets

CONSTANTS
  Monitors,   (* the running programs                                       *)
  Limit,      (* 2 * 1024 * 1024 of the code, in pieces                     *)
  MaxParts,   (* bound: the pieces of a line; stdio writes one when its     *)
              (* buffer is full and one at fclose                           *)
  MaxLines,   (* bound: the lines logged                                    *)
  MaxSwitches,(* bound: how often the operator changes the level files      *)
  Nobody

ASSUME LogAssumption ==
  /\ Limit \in Nat /\ MaxParts \in Nat \ {0}
  /\ MaxLines \in Nat /\ MaxSwitches \in Nat
  /\ IsFiniteSet(Monitors) /\ Monitors # {} /\ Nobody \notin Monitors

Levels == {"error", "info", "debug"}

(* A line, or part of one: whose, which of its lines, which piece of it.   *)
(* Text of an earlier run and the zeros of a hole are nobody's.            *)
Piece(m, l, k) == [by |-> m, line |-> l, part |-> k]
Old == Piece(Nobody, 0, 0)

VARIABLES
  flags,    (* the level files that exist                                   *)
  present,  (* whether log_file exists                                      *)
  text,     (* what log_file holds                                          *)
  call,     (* for each monitor, where its call is and the call's locals    *)
  lines,    (* history: the lines begun                                     *)
  overlapped, (* history: two calls had the file in hand at once            *)
  switches  (* counted for its bound                                        *)

vars == <<flags, present, text, call, lines, overlapped, switches>>

(* A call's locals: the parameter `flag`; check_flag, as a set of levels;  *)
(* the mode of its fopen; how many pieces its line has and how many it     *)
(* wrote, which is where a stream opened with "w" stands. History: the line's *)
(* number; the level files that existed, and that were missing, at some    *)
(* time of the call.                                                       *)
NoCall == [pc |-> "idle", line |-> 0, level |-> "error", check |-> {}, mode |-> "a",
           parts |-> 1, part |-> 0, on |-> {}, off |-> {}]

(* A monitor's call moves on. *)
Moves(m, c) == call' = [call EXCEPT ![m] = c]

Init ==
  /\ flags \in SUBSET Levels
  /\ present \in BOOLEAN
  /\ \E n \in 0..(Limit + 1) : text = [i \in 1..n |-> Old] /\ (~present => n = 0)
  /\ call = [m \in Monitors |-> NoCall]
  /\ lines = 0
  /\ overlapped = FALSE
  /\ switches = 0

(* LYF_LOG(flag, ...): the call begins. *)
Call(m) ==
  /\ call[m].pc = "idle" /\ lines < MaxLines
  /\ \E l \in Levels, n \in 1..MaxParts :
       Moves(m, [NoCall EXCEPT !.pc = "error", !.line = lines + 1, !.level = l,
                               !.parts = n, !.on = flags, !.off = Levels \ flags])
  /\ lines' = lines + 1
  /\ UNCHANGED <<flags, present, text, overlapped, switches>>

-----------------------------------------------------------------------------
(* Mutant: a level file turns on its own level and the milder ones. *)
TurnsOnMilder == [error |-> Levels, info |-> {"info", "debug"}, debug |-> {"debug"}]

(* What a level file turns on: its own level and the graver ones. *)
TurnsOn == [error |-> {"error"}, info |-> {"error", "info"}, debug |-> Levels]

(* The order of the questions. *)
After == [error |-> "info", info |-> "debug", debug |-> "decide"]

(* access(".../log_<level>_flag", F_OK), one after the other. *)
Access(m) ==
  LET c == call[m] IN
  /\ c.pc \in Levels
  /\ Moves(m, [c EXCEPT !.pc = After[c.pc],
                        !.check = IF c.pc \in flags THEN @ \cup TurnsOn[c.pc] ELSE @])
  /\ UNCHANGED <<flags, present, text, lines, overlapped, switches>>

(* flag & check_flag: to the file; 0 == check_flag: to stdout; else the    *)
(* line is left out.                                                       *)
Decide(m) ==
  LET c == call[m] IN
  /\ c.pc = "decide"
  /\ Moves(m, [c EXCEPT !.pc = IF c.level \in c.check THEN "stat"
                               ELSE IF c.check = {} THEN "print" ELSE "skip"])
  /\ UNCHANGED <<flags, present, text, lines, overlapped, switches>>

(* Mutants: the size is not looked at; a file of just the limit is full.   *)
ModeAnySize == IF present THEN "a" ELSE "w"
ModeEarly == IF present /\ Len(text) < Limit THEN "a" ELSE "w"

(* The mode the file's state asks for; "w+" works like "w" here. *)
Mode == IF present /\ Len(text) <= Limit THEN "a" ELSE "w"

(* stat: the mode is settled here, the file opened in a later step. The    *)
(* level is only wording from now on.                                      *)
Stat(m) ==
  /\ call[m].pc = "stat"
  /\ Moves(m, [NoCall EXCEPT !.pc = "open", !.line = call[m].line,
                               !.mode = Mode, !.parts = call[m].parts])
  /\ overlapped' = (overlapped \/ \E o \in Monitors : call[o].pc \in {"open", "write"})
  /\ UNCHANGED <<flags, present, text, lines, switches>>

(* Mutant: the file is written from its start, but not emptied. *)
OpenKeeps(m) ==
  /\ call[m].pc = "open"
  /\ Moves(m, [call[m] EXCEPT !.pc = "write"])
  /\ present' = TRUE
  /\ UNCHANGED <<flags, text, lines, overlapped, switches>>

(* fopen: "w" and "w+" empty the file at once. *)
Open(m) ==
  /\ call[m].pc = "open"
  /\ Moves(m, [call[m] EXCEPT !.pc = "write"])
  /\ present' = TRUE
  /\ text' = IF call[m].mode = "w" THEN <<>> ELSE text
  /\ UNCHANGED <<flags, lines, overlapped, switches>>

(* A write at position p of the file: over what is there, at its end, or   *)
(* past a hole.                                                            *)
Written(p, d) == [i \in 1..(IF p <= Len(text) THEN Len(text) ELSE p) |->
                    IF i = p THEN d ELSE IF i <= Len(text) THEN text[i] ELSE Old]

(* A full buffer, or the rest at fclose, goes to the file: at its end when *)
(* it was opened with "a", else where this stream left off.                *)
Write(m) ==
  LET c == call[m] IN
  /\ c.pc = "write" /\ c.part < c.parts
  /\ Moves(m, [c EXCEPT !.part = @ + 1])
  /\ text' = Written(IF c.mode = "a" THEN Len(text) + 1 ELSE c.part + 1,
                     Piece(m, c.line, c.part + 1))
  /\ UNCHANGED <<flags, present, lines, overlapped, switches>>

(* The line is written, printed on stdout or left out, or fopen fails: the *)
(* call returns.                                                           *)
Return(m) ==
  LET c == call[m] IN
  /\ c.pc \in {"print", "skip", "open"} \/ (c.pc = "write" /\ c.part = c.parts)
  /\ Moves(m, NoCall)
  /\ UNCHANGED <<flags, present, text, lines, overlapped, switches>>

-----------------------------------------------------------------------------
(* The operator creates, removes or renames level files. *)
Switch ==
  /\ switches < MaxSwitches
  /\ switches' = switches + 1
  /\ flags' \in SUBSET Levels
  /\ call' = [m \in Monitors |->
                IF call[m].pc \in Levels \cup {"decide", "stat", "print", "skip"}
                THEN [call[m] EXCEPT !.on = @ \cup flags', !.off = @ \cup (Levels \ flags')]
                ELSE call[m]]
  /\ UNCHANGED <<present, text, lines, overlapped>>

(* main has no end but a signal: a monitor is killed wherever it is, what  *)
(* it had not written is lost, and it is started again.                    *)
Kill(m) ==
  /\ call[m].pc # "idle"
  /\ Moves(m, NoCall)
  /\ UNCHANGED <<flags, present, text, lines, overlapped, switches>>

Step(m) == \/ Call(m) \/ Access(m) \/ Decide(m) \/ Stat(m) \/ Open(m)
           \/ Write(m) \/ Return(m) \/ Kill(m)

Next == Switch \/ \E m \in Monitors : Step(m)

Spec == Init /\ [][Next]_vars

-----------------------------------------------------------------------------
Places == Levels \cup {"idle", "decide", "stat", "open", "write", "print", "skip"}

Pieces == [by : Monitors \cup {Nobody}, line : 0..MaxLines, part : 0..MaxParts]

Calls == [pc : Places, line : 0..MaxLines, level : Levels, check : SUBSET Levels,
          mode : {"a", "w"}, parts : 1..MaxParts, part : 0..MaxParts,
          on : SUBSET Levels, off : SUBSET Levels]

(* The shape of the variables: a file, its levels, and the calls' locals.  *)
LogTypeOK ==
  /\ flags \in SUBSET Levels
  /\ present \in BOOLEAN /\ overlapped \in BOOLEAN
  /\ text \in Seq(Pieces)
  /\ call \in [Monitors -> Calls]
  /\ lines \in 0..MaxLines
  /\ switches \in 0..MaxSwitches

(* The level files that turn a level on, as log.h has it. *)
Enabling == [error |-> Levels, info |-> {"info", "debug"}, debug |-> {"debug"}]

(* The three questions are not one: whatever the operator does between     *)
(* them, a line goes to the file only if a file that turns its level on    *)
(* was there at some time of the call; it is left out only if each such    *)
(* file was missing at some time of it and some level was on; and it goes  *)
(* to stdout only if every level file was missing at some time of it.      *)
LevelsHonoured ==
  \A m \in Monitors : LET c == call[m] IN
    /\ c.pc = "stat" => Enabling[c.level] \cap c.on # {}
    /\ c.pc = "skip" => Enabling[c.level] \subseteq c.off /\ c.on # {}
    /\ c.pc = "print" => c.off = Levels

(* The size is looked at before the file is opened, by each monitor for    *)
(* itself: the file outgrows the limit by at most one line of each.        *)
SizeBounded == Len(text) <= Limit + MaxParts * Cardinality(Monitors)

(* Whatever monitors truncate and overwrite, what is left of a monitor's   *)
(* text stands in the order it was written: no line comes back before an   *)
(* older one.                                                              *)
Before(c, d) == c.line < d.line \/ (c.line = d.line /\ c.part < d.part)
OrderKept ==
  \A i, j \in DOMAIN text :
    i < j /\ text[i].by = text[j].by /\ text[i].by # Nobody => Before(text[i], text[j])

(* What a reader of the file is promised: see LogContract. *)
Contract == INSTANCE LogContract
KeepsLog == Contract!Spec
=============================================================================
