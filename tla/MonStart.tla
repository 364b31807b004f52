------------------------------ MODULE MonStart ------------------------------
(***************************************************************************)
(* main of main.c: the options, the capture they ask for, the engine's     *)
(* start (Registry) in the middle, the filter, the capture loop.           *)
(*                                                                         *)
(* The option flags live on the stack and are not cleared: before the      *)
(* first option they are what StackFlags allows.  A flag set by no option  *)
(* has a text that is not set either; opening or compiling it succeeds or  *)
(* fails like any other.                                                   *)
(***************************************************************************)
EXTENDS Registry

CONSTANTS
  CommandLines, (* the options main may be started with: sequences of      *)
                (* [opt |-> a name, fits |-> whether its text fits]        *)
  StackFlags    (* the flags the stack may have set                        *)

Flags == {"pcap", "interface", "filter", "bpf"}

ASSUME StartAssumption ==
  /\ CommandLines \subseteq Seq([opt : Flags \cup {"version", "help", "unknown"}, fits : BOOLEAN])
  /\ StackFlags \subseteq SUBSET Flags
  /\ NULL \notin {"live", "file"}

VARIABLES
  main,     (* where main is                                               *)
  cmd,      (* the command line                                            *)
  stack,    (* history: the flags the stack had set                        *)
  next,     (* the option getopt_long_only comes to next                   *)
  argFlag,  (* cmd_arg.arg_flag                                            *)
  handle,   (* pcap_hander: NULL, "live" or "file"                         *)
  opened,   (* the captures opened and not closed                          *)
  filtered, (* whether a filter is installed on the handle                 *)
  code      (* what main returned                                          *)

startVars == <<main, cmd, stack, next, argFlag, handle, opened, filtered, code>>

StartInit ==
  /\ main = "options"
  /\ cmd \in CommandLines
  /\ stack \in StackFlags
  /\ next = 1
  /\ argFlag = stack
  /\ handle = NULL
  /\ opened = {}
  /\ filtered = FALSE
  /\ code = NULL

Exit(c) == main' = "ended" /\ code' = c

-----------------------------------------------------------------------------
(* An option with a text is remembered. *)
TakeOption ==
  /\ main = "options"
  /\ next \in DOMAIN cmd /\ cmd[next].opt \in Flags /\ cmd[next].fits
  /\ argFlag' = argFlag \cup {cmd[next].opt}
  /\ next' = next + 1
  /\ UNCHANGED <<main, cmd, stack, handle, opened, filtered, code>>

(* A text that is too long, an option that only prints, one unknown.       *)
StopAtOption ==
  /\ main = "options"
  /\ next \in DOMAIN cmd
  /\ \/ cmd[next].opt \in Flags /\ ~cmd[next].fits /\ Exit(-1)
     \/ cmd[next].opt \notin Flags /\ Exit(0)
  /\ UNCHANGED <<cmd, stack, next, argFlag, handle, opened, filtered>>

OptionsRead ==
  /\ main = "options"
  /\ next \notin DOMAIN cmd
  /\ main' = "live"
  /\ UNCHANGED <<cmd, stack, next, argFlag, handle, opened, filtered, code>>

(* A capture opens, or the handle is NULL. *)
OpenAs(source) ==
  \/ handle' = source /\ opened' = opened \cup {source}
  \/ handle' = NULL /\ UNCHANGED opened

(* pcap_open_live; an interface without a netmask is no obstacle. *)
OpenLive ==
  /\ main = "live"
  /\ main' = "file"
  /\ IF "interface" \in argFlag THEN OpenAs("live") ELSE UNCHANGED <<handle, opened>>
  /\ UNCHANGED <<cmd, stack, next, argFlag, filtered, code>>

(* Mutant: a file is opened, or tried, asked for or not. *)
OpenFileAlways ==
  /\ main = "file"
  /\ main' = "opened"
  /\ OpenAs("file")
  /\ UNCHANGED <<cmd, stack, next, argFlag, filtered, code>>

(* pcap_open_offline; a live capture opened before is lost, not closed. *)
OpenFile ==
  /\ main = "file"
  /\ main' = "opened"
  /\ IF "pcap" \in argFlag THEN OpenAs("file") ELSE UNCHANGED <<handle, opened>>
  /\ UNCHANGED <<cmd, stack, next, argFlag, filtered, code>>

NoCapture ==
  /\ main = "opened"
  /\ handle = NULL
  /\ Exit(-1)
  /\ UNCHANGED <<cmd, stack, next, argFlag, handle, opened, filtered>>

StartEngine ==
  /\ main = "opened"
  /\ handle # NULL
  /\ main' = "engine"
  /\ UNCHANGED <<cmd, stack, next, argFlag, handle, opened, filtered, code>>

(* dissect_engine_init has returned; what it returned is not looked at. *)
EngineStarted ==
  /\ main = "engine"
  /\ boot = "done"
  /\ main' = "filter"
  /\ UNCHANGED <<cmd, stack, next, argFlag, handle, opened, filtered, code>>

NoFilter ==
  /\ main = "filter"
  /\ "bpf" \notin argFlag
  /\ main' = "loop"
  /\ UNCHANGED <<cmd, stack, next, argFlag, handle, opened, filtered, code>>

InstallFilter ==
  /\ main = "filter"
  /\ "bpf" \in argFlag
  /\ filtered' = TRUE
  /\ main' = "loop"
  /\ UNCHANGED <<cmd, stack, next, argFlag, handle, opened, code>>

(* Mutants: the loop begins all the same; the capture is not closed; main  *)
(* tries again.                                                            *)
FilterFailsUnseen ==
  /\ main = "filter"
  /\ "bpf" \in argFlag
  /\ main' = "loop"
  /\ UNCHANGED <<cmd, stack, next, argFlag, handle, opened, filtered, code>>
FilterFailsOpen ==
  /\ main = "filter"
  /\ "bpf" \in argFlag
  /\ Exit(-1)
  /\ UNCHANGED <<cmd, stack, next, argFlag, handle, opened, filtered>>
FilterFailsAgain ==
  /\ main = "filter"
  /\ "bpf" \in argFlag
  /\ main' = "opened"
  /\ UNCHANGED <<cmd, stack, next, argFlag, handle, opened, filtered, code>>

(* pcap_compile or pcap_setfilter fails: the capture is closed. *)
FilterFails ==
  /\ main = "filter"
  /\ "bpf" \in argFlag
  /\ opened' = opened \ {handle}
  /\ Exit(-1)
  /\ UNCHANGED <<cmd, stack, next, argFlag, handle, filtered>>

(* pcap_loop returns, at the end of a file or on an error. *)
LoopEnds ==
  /\ main = "loop"
  /\ Exit(0)
  /\ UNCHANGED <<cmd, stack, next, argFlag, handle, opened, filtered>>

MainStep ==
  \/ TakeOption \/ StopAtOption \/ OptionsRead \/ OpenLive \/ OpenFile
  \/ NoCapture \/ StartEngine \/ EngineStarted
  \/ NoFilter \/ InstallFilter \/ FilterFails

(* dissect_engine_init runs while main waits for it. *)
EngineStep == main = "engine" /\ RegNext

StartUp == \/ MainStep /\ UNCHANGED regVars
           \/ EngineStep /\ UNCHANGED startVars

StartNext == StartUp \/ (LoopEnds /\ UNCHANGED regVars)

MonInit == StartInit /\ RegInit

(* main is sequential code; nothing says that a capture ever ends. *)
StartSpec == MonInit /\ [][StartNext]_<<startVars, regVars>>
             /\ WF_<<startVars, regVars>>(StartUp)

-----------------------------------------------------------------------------
(* The shape of main's variables, and of the registry's in the middle.     *)
StartTypeOK ==
  /\ RegTypeOK
  /\ main \in {"options", "live", "file", "opened", "engine", "filter", "loop", "ended"}
  /\ next \in 1..(Len(cmd) + 1)
  /\ argFlag \in SUBSET Flags
  /\ handle \in {NULL, "live", "file"}
  /\ opened \in SUBSET {"live", "file"}
  /\ filtered \in BOOLEAN
  /\ code \in {NULL, 0, -1}

Asked(o) == \E n \in DOMAIN cmd : cmd[n].opt = o

(* When the stack was clear, the loop captures from a source the command   *)
(* line asks for, through a filter if it asks for one with -b and through  *)
(* none otherwise: a capture or a filter that fails is never passed over.  *)
CapturesAsAsked ==
  main = "loop" /\ stack = {} =>
    /\ handle = "live" => Asked("interface") /\ ~Asked("pcap")
    /\ handle = "file" => Asked("pcap")
    /\ handle # NULL /\ handle \in opened
    /\ filtered <=> Asked("bpf")

(* main gives up with nothing open, and captures with one capture open,    *)
(* except that it loses a live one when a file is asked for, too.          *)
CapturesAccounted ==
  /\ main = "ended" /\ code = -1 => opened = {} \/ {"interface", "pcap"} \subseteq argFlag
  /\ main = "loop" => opened = {handle} \/ {"interface", "pcap"} \subseteq argFlag

(* Whatever it is started with and whatever fails, main gets to its loop   *)
(* or ends, unless the engine's start takes the process down.              *)
StartDecides == <>(main \in {"loop", "ended"} \/ boot = "crashed")

(* A filter given with -f is installed before frames are captured, like    *)
(* one given with -b: main.c:45 lists it as "filter expression".           *)
FilterInstalled == main = "loop" /\ Asked("filter") => filtered
=============================================================================
