------------------------------ MODULE Registry ------------------------------
(***************************************************************************)
(* dissect_engine_init of dissect_engine/dissect_engine.c: the engine's    *)
(* pool, the configuration file, and one dissector library looked up,      *)
(* symbol by symbol, for each entry of the file.                           *)
(*                                                                         *)
(* A configuration is a file that is there or not, with as many bytes      *)
(* (size), the first byte 0xFF after so many (mark, or size if there is    *)
(* none), a JSON array that ends after so many (close, beyond size if it   *)
(* does not), and the array's entries; an entry names a library and a      *)
(* function prefix.  A library is what dlsym finds in it.                  *)
(* malloc may refuse the pool, or a new block of it, MaxRefusals times:    *)
(* the code survives some refusals, and writes through a null pointer      *)
(* after others, which ends the process.                                   *)
(***************************************************************************)
EXTENDS Integers, Sequences, FiniteSets

CONSTANTS
  Configs,     (* the configurations the program may be started with       *)
  MaxConfig,   (* MAX_CONFIG_STR_LEN, the bytes of config_buf              *)
  Exports,     (* Exports[l]: the <<function, symbol>> pairs library l has *)
  MaxRefusals, (* how often malloc refuses: bounds the model               *)
  NULL

(* func_info_list, in its order. *)
FuncInfoList == <<"segment_check", "dissect_init", "dissect_data", "dissect_fini", "s2j">>
Symbols == {FuncInfoList[n] : n \in 1..5}

(* The names of proto_map, whose indices lib_info_map is indexed by. *)
Protos == {"oicq", "http", "ftp"}

ASSUME RegistryAssumption ==
  /\ MaxRefusals \in Nat /\ MaxConfig \in Nat
  /\ \A c \in Configs : /\ c.present \in BOOLEAN
                         /\ c.size \in Nat /\ c.mark \in 0..c.size /\ c.close \in Nat
                         /\ DOMAIN c.entries = 1..Len(c.entries)
  /\ NULL \notin Protos
  /\ NULL \notin [entry : Nat, flags : SUBSET Symbols]
  /\ \A l \in DOMAIN Exports : \A x \in Exports[l] : x[2] \in Symbols

VARIABLES
  boot,       (* where dissect_engine_init is; "crashed" ends the process  *)
  config,     (* the configuration file                                    *)
  entry,      (* the entry load_config's loop is at                        *)
  symbol,     (* the position in func_info_list load_lib's loop is at      *)
  found,      (* lib_func_flag: the symbols registered for the entry       *)
  dlError,    (* whether dlerror would report an error                     *)
  registered, (* lib_info_map: for each protocol NULL, or entry and flags  *)
  refusals    (* how often malloc has refused                              *)

regVars == <<boot, config, entry, symbol, found, dlError, registered, refusals>>

-----------------------------------------------------------------------------
RegInit ==
  /\ boot = "start"
  /\ config \in Configs
  /\ entry = 0
  /\ symbol = 0
  /\ found = {}
  /\ dlError = FALSE
  /\ registered = [p \in Protos |-> NULL]
  /\ refusals = 0

Refuse == refusals < MaxRefusals /\ refusals' = refusals + 1

Crash == boot' = "crashed" /\ UNCHANGED <<config, entry, symbol, found, dlError, registered>>

(* dissect_engine_init without a pool returns -1, which main ignores. *)
CreateEnginePool ==
  /\ boot = "start"
  /\ \/ boot' = "read" /\ UNCHANGED refusals
     \/ boot' = "done" /\ Refuse
  /\ UNCHANGED <<config, entry, symbol, found, dlError, registered>>

(* Mutant: room is kept for a terminating zero. *)
TooLongStrict == config.mark >= MaxConfig

(* read_config ends at fgetc's EOF, which a byte 0xFF kept in a char (a    *)
(* signed one here) is taken for; the bytes before it must fit the buffer. *)
TooLong == config.mark > MaxConfig

(* Mutant: the result of read_config is not looked at. *)
ReadConfigUnchecked ==
  /\ boot = "read"
  /\ ~config.present \/ TooLong
  /\ Crash
  /\ UNCHANGED refusals

(* read_config fails: load_config and dissect_engine_init return -1. *)
ReadConfigFails ==
  /\ boot = "read"
  /\ ~config.present \/ TooLong
  /\ boot' = "done"
  /\ UNCHANGED <<config, entry, symbol, found, dlError, registered, refusals>>

(* The array lies before what was taken for the end of the file. *)
Closed == config.close <= config.mark

(* The buffer is full to its last byte: what follows it on the stack is    *)
(* read as text, too, when the array did not end before.                   *)
Unterminated == config.mark = MaxConfig

(* cJSON_Parse returns NULL, for a text without an end or for an item that *)
(* malloc refuses, and cJSON_GetArraySize reads a member of it.            *)
ParseFails ==
  /\ boot = "read"
  /\ config.present /\ ~TooLong
  /\ \/ ~Closed /\ UNCHANGED refusals
     \/ Refuse
  /\ Crash

(* cJSON_Parse stops at the end of the array, which the file has, or which *)
(* the bytes after a full buffer happen to bring.                          *)
ParseConfig ==
  /\ boot = "read"
  /\ config.present /\ ~TooLong
  /\ Closed \/ Unterminated
  /\ boot' = "entry"
  /\ entry' = 1
  /\ UNCHANGED <<config, symbol, found, dlError, registered, refusals>>

-----------------------------------------------------------------------------
Current == config.entries[entry]

More == entry \in DOMAIN config.entries

(* Mutant: the entry after a failed one is skipped. *)
NextEntryTwice == /\ boot' = "entry"
                  /\ entry' = entry + 2
                  /\ UNCHANGED <<config, symbol, found, dlError, registered>>

NextEntry == /\ boot' = "entry"
             /\ entry' = entry + 1
             /\ UNCHANGED <<config, symbol, found, dlError, registered>>

(* strlen of an absent lib_name, or no memory for the library's path. *)
PathFails ==
  /\ boot = "entry"
  /\ More
  /\ \/ Current.lib = NULL /\ UNCHANGED refusals
     \/ Current.lib # NULL /\ Refuse
  /\ Crash

(* load_lib gives up on an entry: no memory for lib_info, or dlopen fails. *)
EntryFails ==
  /\ boot = "entry"
  /\ More
  /\ Current.lib # NULL
  /\ \/ Refuse
     \/ Current.lib \notin DOMAIN Exports /\ UNCHANGED refusals
  /\ NextEntry

(* load_lib opens the library and clears dlerror. *)
OpenLib ==
  /\ boot = "entry"
  /\ More
  /\ Current.lib \in DOMAIN Exports
  /\ boot' = "lookup"
  /\ symbol' = 1
  /\ found' = {}
  /\ dlError' = FALSE
  /\ UNCHANGED <<config, entry, registered, refusals>>

(* strlen of an absent func_name, or no memory for the symbol's name. *)
NameFails ==
  /\ boot = "lookup"
  /\ symbol <= 5
  /\ \/ Current.func = NULL /\ UNCHANGED refusals
     \/ Current.func # NULL /\ Refuse
  /\ Crash

(* dlsym of one name.  A failure sets dlerror; a success leaves an earlier *)
(* error to be reported or clears it, as the C library pleases.            *)
LookUp ==
  /\ boot = "lookup"
  /\ symbol <= 5
  /\ Current.func # NULL
  /\ LET s == FuncInfoList[symbol]
     IN  IF <<Current.func, s>> \in Exports[Current.lib]
         THEN /\ found' = found \cup {s}
              /\ dlError' \in {dlError, FALSE}
         ELSE /\ found' = found
              /\ dlError' = TRUE
  /\ symbol' = symbol + 1
  /\ UNCHANGED <<boot, config, entry, registered, refusals>>

(* load_lib returns NULL after all when dlerror has something to report. *)
LoadFails ==
  /\ boot = "lookup"
  /\ symbol > 5
  /\ dlError
  /\ NextEntry
  /\ UNCHANGED refusals

Slot == [entry |-> entry, flags |-> found]

(* Mutant: dlerror is not asked. *)
RegisterUnasked ==
  /\ boot = "lookup" /\ symbol > 5 /\ Current.func \in Protos
  /\ boot' = "entry" /\ entry' = entry + 1
  /\ registered' = [registered EXCEPT ![Current.func] = Slot]
  /\ UNCHANGED <<config, symbol, found, dlError, refusals>>

(* lib_info_map[get_lib_info_index(func_name)] = lib_info *)
Register ==
  /\ boot = "lookup"
  /\ symbol > 5
  /\ ~dlError
  /\ Current.func \in Protos
  /\ registered' = [registered EXCEPT ![Current.func] = Slot]
  /\ boot' = "entry"
  /\ entry' = entry + 1
  /\ UNCHANGED <<config, symbol, found, dlError, refusals>>

(* get_lib_info_index compares a name it does not have with the NULL that  *)
(* ends proto_map: its loop runs to PROTO_MAX, not to the table's end.     *)
IndexFails ==
  /\ boot = "lookup"
  /\ symbol > 5
  /\ ~dlError
  /\ Current.func \notin Protos
  /\ Crash
  /\ UNCHANGED refusals

(* The loop ends, cJSON_Delete frees the parsed file. *)
EndConfig ==
  /\ boot = "entry"
  /\ ~More
  /\ boot' = "done"
  /\ UNCHANGED <<config, entry, symbol, found, dlError, registered, refusals>>

RegNext ==
  \/ CreateEnginePool \/ ReadConfigFails \/ ParseFails \/ ParseConfig
  \/ PathFails \/ EntryFails \/ OpenLib
  \/ NameFails \/ LookUp \/ LoadFails \/ Register \/ IndexFails
  \/ EndConfig

(* dissect_engine_init is sequential code: it keeps going. *)
RegSpec == RegInit /\ [][RegNext]_regVars /\ WF_regVars(RegNext)

-----------------------------------------------------------------------------
(* What dlsym would find for an entry. *)
SymbolsOf(e) == IF config.entries[e].lib \in DOMAIN Exports
                THEN {s \in Symbols : <<config.entries[e].func, s>> \in Exports[config.entries[e].lib]}
                ELSE {}

(* The shape of the variables: the loops stay within the file's entries    *)
(* and the table of symbols.                                               *)
RegTypeOK ==
  /\ boot \in {"start", "read", "entry", "lookup", "done", "crashed"}
  /\ entry \in 0..(Len(config.entries) + 1)
  /\ symbol \in 0..6
  /\ found \in SUBSET Symbols
  /\ dlError \in BOOLEAN
  /\ registered \in [Protos -> {NULL} \cup [entry : Nat, flags : SUBSET Symbols]]
  /\ refusals \in 0..MaxRefusals

(* A registered library is one an entry names for that very protocol; its  *)
(* flags are exactly the functions it has, and s2j, the last one looked    *)
(* up, is always among them: it is the one whose absence dlerror reports.  *)
RegisteredSound ==
  \A p \in Protos : registered[p] # NULL =>
    LET e == registered[p].entry
    IN  /\ e \in DOMAIN config.entries
        /\ config.entries[e].func = p
        /\ registered[p].flags = SymbolsOf(e)
        /\ "s2j" \in registered[p].flags

(* When dissect_engine_init is through, and unless malloc refused, each    *)
(* entry whose library has all five functions is registered or has been    *)
(* replaced by a later one: neither an entry that failed, nor its place in *)
(* the file, nor a file that just fits the buffer, costs a protocol its    *)
(* library.                                                                *)
CompleteEntriesRegistered ==
  boot = "done" /\ refusals = 0
    /\ config.present /\ config.mark <= MaxConfig /\ config.close <= config.mark =>
    \A e \in DOMAIN config.entries :
      SymbolsOf(e) = Symbols /\ config.entries[e].func \in Protos =>
        LET p == config.entries[e].func
        IN  registered[p] # NULL /\ registered[p].entry >= e

(* The process dies in dissect_engine_init only when malloc refused, when  *)
(* the array does not end in the file or not before a byte 0xFF, or when   *)
(* an entry lacks a name or names a function prefix proto_map lacks.       *)
CrashExplained ==
  boot = "crashed" =>
    \/ refusals > 0
    \/ config.close > config.mark
    \/ \E e \in DOMAIN config.entries :
         config.entries[e].lib = NULL \/ config.entries[e].func \notin Protos
=============================================================================
