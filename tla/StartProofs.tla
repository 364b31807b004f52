---------------------------- MODULE StartProofs ----------------------------
(***************************************************************************)
(* Proofs about MonStart for any command line, any flags on the stack and  *)
(* any configuration and libraries.                                        *)
(***************************************************************************)
EXTENDS MonStart, RegistryProofs, SequenceTheorems

(* The flags that the options before the n-th have set. *)
SetBefore(n) == {o \in Flags : \E k \in DOMAIN cmd : k < n /\ cmd[k].opt = o}

(* While options are read, the flags are the stack's and those of the      *)
(* options read; afterwards all options have been.                         *)
FlagsRead ==
  /\ main = "options" => argFlag = stack \cup SetBefore(next)
  /\ main \notin {"options", "ended"} => argFlag = stack \cup {o \in Flags : Asked(o)}

(* Which capture is open as main goes on: none before OpenLive, at most    *)
(* the live one before OpenFile, then the one asked for, if it opened; a   *)
(* live one is lost only to a file.                                        *)
CaptureOpen ==
  /\ main \in {"options", "live"} => handle = NULL /\ opened = {}
  /\ main = "file" =>
       \/ handle = NULL /\ opened = {}
       \/ handle = "live" /\ opened = {"live"} /\ "interface" \in argFlag
  /\ main \in {"opened", "engine", "filter", "loop"} =>
       /\ handle = "live" => "interface" \in argFlag /\ "pcap" \notin argFlag
       /\ handle = "file" => "pcap" \in argFlag
       /\ handle # NULL => handle \in opened
       /\ \/ handle = NULL /\ opened = {}
          \/ handle # NULL /\ opened = {handle}
          \/ {"interface", "pcap"} \subseteq argFlag
  /\ main \in {"engine", "filter", "loop"} => handle # NULL
  /\ main = "ended" /\ code = -1 => opened = {} \/ {"interface", "pcap"} \subseteq argFlag

(* The filter is installed last, just when it is asked for. *)
FilterLast ==
  /\ main \notin {"loop", "ended"} => ~filtered
  /\ main = "loop" => (filtered <=> "bpf" \in argFlag)

(* The inductive invariant; MainInv is the part about main. *)
MainInv == /\ main \in {"options", "live", "file", "opened", "engine", "filter", "loop", "ended"}
           /\ cmd \in CommandLines
           /\ stack \in SUBSET Flags
           /\ next \in 1..(Len(cmd) + 1)
           /\ argFlag \in SUBSET Flags
           /\ handle \in {NULL, "live", "file"}
           /\ opened \in SUBSET {"live", "file"}
           /\ filtered \in BOOLEAN
           /\ code \in {NULL, 0, -1}
           /\ FlagsRead /\ CaptureOpen /\ FilterLast

StartInv == RegInv /\ MainInv

-----------------------------------------------------------------------------
(* What is assumed of a command line. *)
LEMMA CommandTyped ==
  ASSUME StartAssumption, cmd \in CommandLines
  PROVE  /\ Len(cmd) \in Nat /\ DOMAIN cmd = 1..Len(cmd)
         /\ \A n \in DOMAIN cmd : cmd[n].opt \in Flags \cup {"version", "help", "unknown"}
<1>1. cmd \in Seq([opt : Flags \cup {"version", "help", "unknown"}, fits : BOOLEAN])
  BY DEF StartAssumption
<1>2. Len(cmd) \in Nat /\ DOMAIN cmd = 1..Len(cmd)
  BY <1>1, LenProperties
<1>3. \A n \in 1..Len(cmd) : cmd[n] \in [opt : Flags \cup {"version", "help", "unknown"}, fits : BOOLEAN]
  BY <1>1, ElementOfSeq
<1> QED
  BY <1>2, <1>3

LEMMA MainInvInit ==
  ASSUME StartAssumption, StartInit
  PROVE  MainInv
<1>1. /\ main = "options" /\ cmd \in CommandLines /\ stack \in SUBSET Flags /\ next = 1
      /\ argFlag = stack /\ handle = NULL /\ opened = {} /\ filtered = FALSE /\ code = NULL
  BY DEF StartInit, StartAssumption
<1>2. next \in 1..(Len(cmd) + 1) /\ DOMAIN cmd = 1..Len(cmd)
  BY <1>1, CommandTyped
<1>3. filtered \in BOOLEAN /\ FilterLast
  BY <1>1, Zenon DEF FilterLast
<1>4. SetBefore(1) = {}
  BY <1>2 DEF SetBefore
<1>5. FlagsRead /\ CaptureOpen
  BY <1>1, <1>4 DEF FlagsRead, CaptureOpen
<1> QED
  BY <1>1, <1>2, <1>3, <1>5 DEF MainInv

(* Nothing of it is touched by the engine's start. *)
LEMMA MainInvStays ==
  ASSUME MainInv, UNCHANGED startVars
  PROVE  MainInv'
<1>1. /\ main' = main /\ cmd' = cmd /\ stack' = stack /\ next' = next /\ argFlag' = argFlag
      /\ handle' = handle /\ opened' = opened /\ filtered' = filtered /\ code' = code
  BY DEF startVars
<1>2. FlagsRead' /\ CaptureOpen'
  BY <1>1 DEF MainInv, FlagsRead, SetBefore, Asked, CaptureOpen
<1>3. FilterLast'
  BY <1>1 DEF MainInv, FilterLast
<1> QED
  BY <1>1, <1>2, <1>3 DEF MainInv

LEMMA OptionKeeps ==
  ASSUME StartAssumption, MainInv, TakeOption
  PROVE  MainInv'
<1> DEFINE o == cmd[next].opt
<1>1. /\ main = "options" /\ main' = main /\ next \in DOMAIN cmd /\ o \in Flags
      /\ argFlag' = argFlag \cup {o} /\ next' = next + 1
      /\ cmd' = cmd /\ stack' = stack /\ handle' = handle /\ opened' = opened
      /\ filtered' = filtered /\ code' = code
  BY DEF TakeOption
<1>2. /\ next \in 1..Len(cmd) /\ Len(cmd) \in Nat /\ DOMAIN cmd = 1..Len(cmd)
      /\ next' \in 1..(Len(cmd) + 1)
  BY <1>1, CommandTyped DEF MainInv
<1>3. SetBefore(next + 1) = SetBefore(next) \cup {o}
  <2>1. \A k \in DOMAIN cmd : k < next + 1 <=> k < next \/ k = next
    BY <1>2
  <2> QED
    BY <1>1, <2>1 DEF SetBefore
<1>4. argFlag' = stack' \cup SetBefore(next)' /\ argFlag' \in SUBSET Flags
  <2>1. argFlag = stack \cup SetBefore(next) /\ argFlag \in SUBSET Flags
    BY <1>1 DEF MainInv, FlagsRead
  <2>2. SetBefore(next)' = SetBefore(next + 1)
    BY <1>1 DEF SetBefore
  <2> HIDE DEF o
  <2> QED
    BY <1>1, <1>3, <2>1, <2>2
<1>5. FlagsRead'
  BY <1>1, <1>4 DEF FlagsRead
<1>6. CaptureOpen'
  BY <1>1 DEF CaptureOpen, MainInv
<1>7. FilterLast'
  BY <1>1 DEF FilterLast, MainInv
<1> QED
  BY <1>1, <1>2, <1>4, <1>5, <1>6, <1>7 DEF MainInv

LEMMA StopKeeps ==
  ASSUME MainInv, StopAtOption
  PROVE  MainInv'
<1>1. /\ main = "options" /\ main' = "ended" /\ code' \in {0, -1}
      /\ UNCHANGED <<cmd, stack, next, argFlag, handle, opened, filtered>>
  BY DEF StopAtOption, Exit
<1>2. FlagsRead' /\ FilterLast'
  BY <1>1 DEF FlagsRead, FilterLast
<1>3. CaptureOpen'
  BY <1>1 DEF CaptureOpen, MainInv
<1> QED
  BY <1>1, <1>2, <1>3 DEF MainInv

LEMMA OptionsReadKeeps ==
  ASSUME StartAssumption, MainInv, OptionsRead
  PROVE  MainInv'
<1>1. /\ main = "options" /\ main' = "live" /\ next \notin DOMAIN cmd
      /\ UNCHANGED <<cmd, stack, next, argFlag, handle, opened, filtered, code>>
  BY DEF OptionsRead
<1>2. \A k \in DOMAIN cmd : k < next
  BY <1>1, CommandTyped DEF MainInv
<1>3. SetBefore(next) = {o \in Flags : Asked(o)}
  BY <1>2 DEF SetBefore, Asked
<1>4. FlagsRead'
  BY <1>1, <1>3 DEF FlagsRead, MainInv, Asked
<1>5. CaptureOpen'
  BY <1>1 DEF CaptureOpen, MainInv
<1>6. FilterLast'
  BY <1>1 DEF FilterLast, MainInv
<1> QED
  BY <1>1, <1>4, <1>5, <1>6 DEF MainInv

(* After the options, the flags stay what they are. *)
LEMMA FlagsStay ==
  ASSUME MainInv, main \notin {"options", "ended"}, main' # "options",
         UNCHANGED <<cmd, stack, argFlag>>
  PROVE  FlagsRead'
BY DEF MainInv, FlagsRead, Asked

LEMMA OpensKeep ==
  ASSUME StartAssumption, MainInv, OpenLive \/ OpenFile
  PROVE  MainInv'
<1>1. /\ UNCHANGED <<cmd, stack, next, argFlag, code>> /\ filtered' = filtered
      /\ main \in {"live", "file"} /\ main' \in {"file", "opened"}
  BY DEF OpenLive, OpenFile
<1>2. FlagsRead'
  BY <1>1, FlagsStay
<1>3. FilterLast'
  BY <1>1 DEF FilterLast, MainInv
<1>4. handle' \in {NULL, "live", "file"} /\ opened' \in SUBSET {"live", "file"}
  BY DEF MainInv, OpenLive, OpenFile, OpenAs
<1>5. CaptureOpen'
  <2>1. CASE OpenLive
    <3>1. /\ main' = "file" /\ handle = NULL /\ opened = {} /\ argFlag' = argFlag
          /\ IF "interface" \in argFlag THEN OpenAs("live") ELSE UNCHANGED <<handle, opened>>
      BY <2>1 DEF OpenLive, MainInv, CaptureOpen
    <3>2. \/ handle' = NULL /\ opened' = {}
          \/ handle' = "live" /\ opened' = {"live"} /\ "interface" \in argFlag'
      BY <3>1 DEF OpenAs
    <3> QED
      BY <3>1, <3>2 DEF CaptureOpen
  <2>2. CASE OpenFile
    <3>1. /\ main' = "opened" /\ argFlag' = argFlag
          /\ \/ handle = NULL /\ opened = {}
             \/ handle = "live" /\ opened = {"live"} /\ "interface" \in argFlag
          /\ IF "pcap" \in argFlag THEN OpenAs("file") ELSE UNCHANGED <<handle, opened>>
      BY <2>2 DEF OpenFile, MainInv, CaptureOpen
    <3>2. /\ handle' = "live" => "interface" \in argFlag /\ "pcap" \notin argFlag
          /\ handle' = "file" => "pcap" \in argFlag
          /\ handle' # NULL => handle' \in opened'
          /\ \/ handle' = NULL /\ opened' = {}
             \/ handle' # NULL /\ opened' = {handle'}
             \/ {"interface", "pcap"} \subseteq argFlag
      <4>1. NULL # "live" /\ NULL # "file"
        BY DEF StartAssumption
      <4>2. CASE "pcap" \in argFlag
        <5>1. \/ handle' = "file" /\ opened' = opened \cup {"file"}
              \/ handle' = NULL /\ opened' = opened
          BY <3>1, <4>2 DEF OpenAs
        <5> QED
          BY <3>1, <4>1, <4>2, <5>1
      <4>3. CASE "pcap" \notin argFlag
        BY <3>1, <4>1, <4>3
      <4> QED
        BY <4>2, <4>3
    <3> QED
      BY <3>1, <3>2 DEF CaptureOpen
  <2> QED
    BY <2>1, <2>2
<1> QED
  BY <1>1, <1>2, <1>3, <1>4, <1>5 DEF MainInv

LEMMA EngineKeeps ==
  ASSUME MainInv, StartEngine \/ EngineStarted
  PROVE  MainInv'
<1>1. /\ UNCHANGED <<cmd, stack, next, argFlag, code>> /\ filtered' = filtered
      /\ handle' = handle /\ opened' = opened /\ handle # NULL
      /\ main \in {"opened", "engine"} /\ main' \in {"engine", "filter"}
  BY DEF StartEngine, EngineStarted, MainInv, CaptureOpen
<1>2. FlagsRead'
  BY <1>1, FlagsStay
<1>3. FilterLast'
  BY <1>1 DEF FilterLast, MainInv
<1>4. CaptureOpen'
  BY <1>1 DEF CaptureOpen, MainInv
<1> QED
  BY <1>1, <1>2, <1>3, <1>4 DEF MainInv

LEMMA FilterKeeps ==
  ASSUME MainInv, NoFilter \/ InstallFilter
  PROVE  MainInv'
<1>1. /\ UNCHANGED <<cmd, stack, next, argFlag, handle, opened, code>>
      /\ main = "filter" /\ main' = "loop"
  BY DEF NoFilter, InstallFilter
<1>2. FlagsRead'
  BY <1>1, FlagsStay
<1>3. filtered' \in BOOLEAN /\ (filtered' <=> "bpf" \in argFlag')
  <2>1. CASE NoFilter
    <3>1. filtered' = filtered /\ "bpf" \notin argFlag /\ argFlag' = argFlag /\ main = "filter"
      BY <2>1 DEF NoFilter
    <3>2. filtered \in BOOLEAN /\ ~filtered
      BY <3>1 DEF MainInv, FilterLast
    <3> QED
      BY <3>1, <3>2, Zenon
  <2>2. CASE InstallFilter
    <3>1. filtered' = TRUE /\ "bpf" \in argFlag /\ argFlag' = argFlag
      BY <2>2 DEF InstallFilter
    <3> QED
      BY <3>1, Zenon
  <2> QED
    BY <2>1, <2>2
<1>4. FilterLast'
  BY <1>1, <1>3 DEF FilterLast
<1>5. CaptureOpen'
  BY <1>1 DEF CaptureOpen, MainInv
<1> QED
  BY <1>1, <1>2, <1>3, <1>4, <1>5 DEF MainInv

LEMMA EndsKeep ==
  ASSUME MainInv, NoCapture \/ FilterFails \/ LoopEnds
  PROVE  MainInv'
<1>1. /\ UNCHANGED <<cmd, stack, next, argFlag, handle, filtered>>
      /\ main \in {"opened", "filter", "loop"} /\ main' = "ended" /\ code' \in {0, -1}
      /\ opened' \in SUBSET {"live", "file"}
  BY DEF NoCapture, FilterFails, LoopEnds, Exit, MainInv
<1>2. FlagsRead' /\ FilterLast'
  BY <1>1 DEF FlagsRead, FilterLast
<1>3. code' = -1 => opened' = {} \/ {"interface", "pcap"} \subseteq argFlag
  <2>1. CASE NoCapture
    BY <2>1 DEF NoCapture, MainInv, CaptureOpen
  <2>2. CASE FilterFails
    <3>1. opened' = opened \ {handle} /\ main = "filter"
      BY <2>2 DEF FilterFails
    <3>2. opened = {handle} \/ {"interface", "pcap"} \subseteq argFlag
      BY <3>1 DEF MainInv, CaptureOpen
    <3> QED
      BY <3>1, <3>2
  <2>3. CASE LoopEnds
    BY <2>3 DEF LoopEnds, Exit
  <2> QED
    BY <2>1, <2>2, <2>3
<1>4. CaptureOpen'
  BY <1>1, <1>3 DEF CaptureOpen
<1> QED
  BY <1>1, <1>2, <1>4 DEF MainInv

LEMMA StartInvNext ==
  ASSUME RegistryAssumption, StartAssumption, StartInv, [StartNext]_<<startVars, regVars>>
  PROVE  StartInv'
<1>1. RegInv'
  <2>1. [RegNext]_regVars
    BY DEF StartNext, StartUp, EngineStep
  <2> QED
    BY <2>1, RegInvNext DEF StartInv
<1>2. MainInv'
  <2>1. CASE MainStep
    BY <2>1, OptionKeeps, StopKeeps, OptionsReadKeeps, OpensKeep, EngineKeeps, FilterKeeps, EndsKeep
       DEF MainStep, StartInv
  <2>2. CASE UNCHANGED startVars
    BY <2>2, MainInvStays DEF StartInv
  <2>3. CASE LoopEnds
    BY <2>3, EndsKeep DEF StartInv
  <2> QED
    BY <2>1, <2>2, <2>3 DEF StartNext, StartUp
<1> QED
  BY <1>1, <1>2 DEF StartInv

LEMMA StartInvAlways == StartSpec => []StartInv
<1>1. MonInit => StartInv
  BY RegistryAssumption, StartAssumption, RegInvInit, MainInvInit DEF MonInit, StartInv
<1>2. StartInv /\ [StartNext]_<<startVars, regVars>> => StartInv'
  BY RegistryAssumption, StartAssumption, StartInvNext
<1> QED
  BY <1>1, <1>2, PTL DEF StartSpec

-----------------------------------------------------------------------------
(* The shape of main's state and of the registry's. *)
THEOREM StartTypeCorrect == StartSpec => []StartTypeOK
<1>1. StartInv => StartTypeOK
  BY DEF StartInv, MainInv, RegInv, StartTypeOK
<1> QED
  BY <1>1, StartInvAlways, PTL

(* With a clear stack, the loop captures from what the command line asks   *)
(* for, and through a filter exactly when -b asks for one.                 *)
THEOREM StartCapturesAsAsked == StartSpec => []CapturesAsAsked
<1>1. StartInv => CapturesAsAsked
  <2> SUFFICES ASSUME StartInv, main = "loop", stack = {}
               PROVE  /\ handle = "live" => Asked("interface") /\ ~Asked("pcap")
                      /\ handle = "file" => Asked("pcap")
                      /\ handle # NULL /\ handle \in opened
                      /\ filtered <=> Asked("bpf")
    BY DEF CapturesAsAsked
  <2>1. \A o \in Flags : o \in argFlag <=> Asked(o)
    BY DEF StartInv, MainInv, FlagsRead
  <2>2. "interface" \in Flags /\ "pcap" \in Flags /\ "bpf" \in Flags
    BY DEF Flags
  <2>3. /\ handle = "live" => "interface" \in argFlag /\ "pcap" \notin argFlag
        /\ handle = "file" => "pcap" \in argFlag
        /\ handle # NULL /\ handle \in opened
    BY DEF StartInv, MainInv, CaptureOpen
  <2>4. filtered <=> "bpf" \in argFlag
    BY DEF StartInv, MainInv, FilterLast
  <2> QED
    BY <2>1, <2>2, <2>3, <2>4
<1> QED
  BY <1>1, StartInvAlways, PTL

(* main gives up with nothing open and captures with one capture open, but *)
(* for the live one it loses to a file.                                    *)
THEOREM StartCapturesAccounted == StartSpec => []CapturesAccounted
<1>1. StartInv => CapturesAccounted
  BY DEF StartInv, MainInv, CaptureOpen, CapturesAccounted
<1> QED
  BY <1>1, StartInvAlways, PTL
-----------------------------------------------------------------------------
(* How much main still has before it, up to its loop or its end.           *)
MainLeft ==
  CASE main = "options" -> 6 + Len(cmd) + 1 - next
    [] main = "live"    -> 5
    [] main = "file"    -> 4
    [] main = "opened"  -> 3
    [] main = "engine"  -> 2
    [] main = "filter"  -> 1
    [] OTHER            -> 0

LEMMA MainDescends ==
  ASSUME StartAssumption, MainInv, MainStep
  PROVE  MainLeft \in Nat /\ MainLeft' \in Nat /\ MainLeft' < MainLeft
<1>1. Len(cmd) \in Nat /\ DOMAIN cmd = 1..Len(cmd) /\ next \in 1..(Len(cmd) + 1)
  BY CommandTyped DEF MainInv
<1>2. MainLeft \in Nat
  BY <1>1 DEF MainLeft
<1>3. main \notin {"loop", "ended"} => MainLeft > 0
  BY <1>1 DEF MainLeft, MainInv
<1>4. main' \in {"loop", "ended"} => MainLeft' = 0
  BY DEF MainLeft
<1>5. CASE TakeOption
  <2>1. main = "options" /\ main' = "options" /\ next' = next + 1 /\ cmd' = cmd
        /\ next \in 1..Len(cmd)
    BY <1>1, <1>5 DEF TakeOption
  <2> QED
    BY <1>1, <2>1 DEF MainLeft
<1>6. CASE StopAtOption \/ NoCapture \/ FilterFails
  BY <1>2, <1>3, <1>4, <1>6 DEF StopAtOption, NoCapture, FilterFails, Exit
<1>7. CASE NoFilter \/ InstallFilter
  BY <1>2, <1>3, <1>4, <1>7 DEF NoFilter, InstallFilter
<1>8. CASE OptionsRead
  BY <1>1, <1>8 DEF OptionsRead, MainLeft
<1>9. CASE OpenLive \/ OpenFile \/ StartEngine \/ EngineStarted
  BY <1>9 DEF OpenLive, OpenFile, StartEngine, EngineStarted, MainLeft
<1> QED
  BY <1>5, <1>6, <1>7, <1>8, <1>9 DEF MainStep

StartLeft == MainLeft + EngineLeft

LEMMA SumDescends ==
  ASSUME NEW a \in Nat, NEW b \in Nat, NEW c \in Nat, c < a
  PROVE  /\ a + b \in Nat /\ c + b \in Nat /\ c + b < a + b
         /\ b + a \in Nat /\ b + c \in Nat /\ b + c < b + a
  OBVIOUS

(* Each step of main before its loop, the engine's start included, brings  *)
(* it nearer to its loop or its end, a natural number of steps away, for   *)
(* command lines and configurations of any length and whatever fails: none *)
(* of its loops, and no failure, sends it back.                            *)
THEOREM StartDescends ==
  StartSpec =>
    [][StartUp => StartLeft \in Nat /\ StartLeft' \in Nat
                    /\ StartLeft' < StartLeft]_<<startVars, regVars>>
<1> DEFINE Descends == StartLeft \in Nat /\ StartLeft' \in Nat /\ StartLeft' < StartLeft
<1>1. ASSUME StartInv, StartUp
      PROVE  Descends
  <2>1. RegistryAssumption /\ StartAssumption
    BY RegistryAssumption, StartAssumption
  <2>2. EngineLeft \in Nat
    BY <1>1, <2>1, EngineLeftNatural DEF StartInv
  <2>3. CASE MainStep /\ UNCHANGED regVars
    <3>1. EngineLeft' = EngineLeft
      BY <2>3 DEF regVars, EngineLeft
    <3>2. MainLeft \in Nat /\ MainLeft' \in Nat /\ MainLeft' < MainLeft
      BY <1>1, <2>1, <2>3, MainDescends DEF StartInv
    <3>3. StartLeft = MainLeft + EngineLeft /\ StartLeft' = MainLeft' + EngineLeft
      BY <3>1 DEF StartLeft
    <3> QED
      BY <2>2, <3>2, <3>3, SumDescends, Zenon
  <2>4. CASE EngineStep /\ UNCHANGED startVars
    <3>1. MainLeft' = MainLeft /\ MainLeft = 2
      BY <2>4 DEF startVars, EngineStep, MainLeft
    <3>2. EngineLeft' \in Nat /\ EngineLeft' < EngineLeft
      BY <1>1, <2>1, <2>4, EngineDescends DEF EngineStep, StartInv
    <3>3. StartLeft = 2 + EngineLeft /\ StartLeft' = 2 + EngineLeft' /\ 2 \in Nat
      BY <3>1 DEF StartLeft
    <3> QED
      BY <2>2, <3>2, <3>3, SumDescends, Zenon
  <2> QED
    BY <1>1, <2>3, <2>4 DEF StartUp
<1>2. StartInv /\ [StartNext]_<<startVars, regVars>>
        => [StartUp => Descends]_<<startVars, regVars>>
  BY <1>1
<1> QED
  BY <1>2, StartInvAlways, PTL DEF StartSpec
=============================================================================
