--------------------------- MODULE RegistryProofs ---------------------------
(***************************************************************************)
(* Proofs about Registry for any configuration, any libraries and any      *)
(* number of refusals by malloc.                                           *)
(***************************************************************************)
EXTENDS Registry, TLAPS

Slots == [entry : Nat, flags : SUBSET Symbols]

(* The symbols before the n-th that the current entry's library has. *)
FoundBefore(n) == {s \in SymbolsOf(entry) : \E k \in 1..5 : k < n /\ s = FuncInfoList[k]}

(* While a library is looked up: an entry of the file names it; what was   *)
(* found is what it has of the symbols asked for; an error to be reported  *)
(* is of a symbol it lacks, and the lack of the last is reported.          *)
LookUpSound ==
  boot = "lookup" =>
    /\ entry \in DOMAIN config.entries
    /\ Current.lib \in DOMAIN Exports
    /\ symbol \in 1..6
    /\ found = FoundBefore(symbol)
    /\ dlError => SymbolsOf(entry) # Symbols
    /\ symbol = 6 /\ ~dlError => "s2j" \in found

(* The loop is in the file, and each entry that it has passed and whose    *)
(* library is complete is registered, or its place taken by a later one.   *)
Passed ==
  /\ boot \in {"entry", "lookup"} => entry \in 1..(Len(config.entries) + 1)
  /\ boot \in {"start", "read"} => \A p \in Protos : registered[p] = NULL
  /\ \A p \in Protos : registered[p] # NULL => registered[p].entry < entry
  /\ boot \in {"entry", "lookup", "done"} /\ refusals = 0
       /\ config.present /\ ~TooLong /\ Closed =>
     \A e \in DOMAIN config.entries :
       e < entry /\ SymbolsOf(e) = Symbols /\ config.entries[e].func \in Protos =>
         /\ registered[config.entries[e].func] # NULL
         /\ registered[config.entries[e].func].entry >= e
  /\ boot = "done" /\ refusals = 0 /\ config.present /\ ~TooLong /\ Closed =>
       entry = Len(config.entries) + 1

(* The inductive invariant. *)
RegInv == /\ config \in Configs
          /\ RegTypeOK /\ RegisteredSound /\ CrashExplained
          /\ LookUpSound /\ Passed

-----------------------------------------------------------------------------
(* The table of the five symbols. *)
LEMMA SymbolTable ==
  /\ \A k \in 1..5 : FuncInfoList[k] \in Symbols
  /\ \A s \in Symbols : \E k \in 1..5 : s = FuncInfoList[k]
  /\ \A j, k \in 1..5 : FuncInfoList[j] = FuncInfoList[k] => j = k
  /\ FuncInfoList[5] = "s2j"
<1>1. \A k \in 1..5 : k = 1 \/ k = 2 \/ k = 3 \/ k = 4 \/ k = 5
  OBVIOUS
<1>2. \A j, k \in 1..5 : FuncInfoList[j] = FuncInfoList[k] => j = k
  BY <1>1 DEF FuncInfoList
<1>3. FuncInfoList[5] = "s2j"
  BY DEF FuncInfoList
<1>4. /\ \A k \in 1..5 : FuncInfoList[k] \in Symbols
      /\ \A s \in Symbols : \E k \in 1..5 : s = FuncInfoList[k]
  BY DEF Symbols
<1> QED
  BY <1>2, <1>3, <1>4

(* What is assumed of the file in hand. *)
LEMMA FileTyped ==
  ASSUME RegistryAssumption, config \in Configs
  PROVE  /\ config.present \in BOOLEAN
         /\ config.mark \in Nat /\ config.close \in Nat /\ MaxConfig \in Nat
         /\ Len(config.entries) \in Nat
         /\ DOMAIN config.entries = 1..Len(config.entries)
<1>1. /\ config.present \in BOOLEAN /\ config.size \in Nat /\ config.mark \in 0..config.size
      /\ config.close \in Nat /\ DOMAIN config.entries = 1..Len(config.entries)
      /\ MaxConfig \in Nat
  BY DEF RegistryAssumption
<1> QED
  BY <1>1

LEMMA RegInvInit ==
  ASSUME RegistryAssumption, RegInit
  PROVE  RegInv
<1>1. /\ boot = "start" /\ config \in Configs /\ entry = 0 /\ symbol = 0 /\ found = {}
      /\ dlError = FALSE /\ refusals = 0 /\ registered = [p \in Protos |-> NULL]
  BY DEF RegInit
<1>2. Len(config.entries) \in Nat /\ MaxRefusals \in Nat
  BY <1>1, FileTyped DEF RegistryAssumption
<1>3. RegTypeOK
  <2>1. registered \in [Protos -> {NULL} \cup Slots]
    BY <1>1
  <2>2. 0 \in 0..(Len(config.entries) + 1) /\ 0 \in 0..MaxRefusals /\ 0 \in 0..6
    BY <1>2
  <2> QED
    BY <1>1, <2>1, <2>2 DEF RegTypeOK, Slots
<1>4. \A p \in Protos : registered[p] = NULL
  BY <1>1
<1>5. RegisteredSound /\ CrashExplained
  BY <1>1, <1>4 DEF RegisteredSound, CrashExplained
<1>6. LookUpSound /\ Passed
  BY <1>1, <1>4 DEF LookUpSound, Passed
<1> QED
  BY <1>1, <1>3, <1>5, <1>6 DEF RegInv

(* What was registered stays sound as long as it is left alone. *)
LEMMA RegisteredStays ==
  ASSUME RegisteredSound, UNCHANGED <<config, registered>>
  PROVE  RegisteredSound'
<1>1. config' = config /\ registered' = registered
  OBVIOUS
<1> QED
  BY <1>1 DEF RegisteredSound, SymbolsOf

LEMMA RefuseCounts ==
  ASSUME RegistryAssumption, RegTypeOK, Refuse
  PROVE  refusals' \in 0..MaxRefusals /\ refusals' > 0
<1>1. refusals \in 0..MaxRefusals /\ MaxRefusals \in Nat
  BY DEF RegTypeOK, RegistryAssumption
<1> QED
  BY <1>1 DEF Refuse

(* A crash that has its reason keeps everything else. *)
LEMMA CrashKeeps ==
  ASSUME RegistryAssumption, RegInv, Crash, refusals' \in 0..MaxRefusals,
         \/ refusals' > 0
         \/ config.close > config.mark
         \/ \E e \in DOMAIN config.entries :
              config.entries[e].lib = NULL \/ config.entries[e].func \notin Protos
  PROVE  RegInv'
<1>1. boot' = "crashed" /\ UNCHANGED <<config, entry, symbol, found, dlError, registered>>
  BY DEF Crash
<1>2. RegTypeOK' /\ config' \in Configs
  BY <1>1 DEF RegTypeOK, RegInv
<1>3. RegisteredSound'
  BY <1>1, RegisteredStays DEF RegInv
<1>4. CrashExplained'
  BY <1>1 DEF CrashExplained
<1>5. LookUpSound'
  BY <1>1 DEF LookUpSound
<1>6. Passed'
  BY <1>1 DEF Passed, RegInv
<1> QED
  BY <1>2, <1>3, <1>4, <1>5, <1>6 DEF RegInv

(* The steps before and after the loop. *)
LEMMA CreateKeeps ==
  ASSUME RegistryAssumption, RegInv, CreateEnginePool
  PROVE  RegInv'
<1>1. boot = "start" /\ UNCHANGED <<config, entry, symbol, found, dlError, registered>>
  BY DEF CreateEnginePool
<1>2. \/ boot' = "read" /\ refusals' = refusals
      \/ boot' = "done" /\ refusals' \in 0..MaxRefusals /\ refusals' > 0
  BY RefuseCounts DEF CreateEnginePool, RegInv
<1>3. RegTypeOK' /\ config' \in Configs
  BY <1>1, <1>2 DEF RegTypeOK, RegInv
<1>4. RegisteredSound'
  BY <1>1, RegisteredStays DEF RegInv
<1>5. CrashExplained' /\ LookUpSound'
  BY <1>2 DEF CrashExplained, LookUpSound
<1>6. Passed'
  BY <1>1, <1>2, <1>3 DEF Passed, RegInv, RegTypeOK
<1> QED
  BY <1>3, <1>4, <1>5, <1>6 DEF RegInv

LEMMA ReadFailsKeeps ==
  ASSUME RegistryAssumption, RegInv, ReadConfigFails
  PROVE  RegInv'
<1>1. boot' = "done" /\ UNCHANGED <<config, entry, symbol, found, dlError, registered, refusals>>
  BY DEF ReadConfigFails
<1>2. ~config.present \/ TooLong
  BY DEF ReadConfigFails
<1>3. RegTypeOK' /\ config' \in Configs
  BY <1>1 DEF RegTypeOK, RegInv
<1>4. RegisteredSound'
  BY <1>1, RegisteredStays DEF RegInv
<1>5. CrashExplained' /\ LookUpSound'
  BY <1>1 DEF CrashExplained, LookUpSound
<1>6. Passed'
  BY <1>1, <1>2 DEF Passed, RegInv, TooLong
<1> QED
  BY <1>3, <1>4, <1>5, <1>6 DEF RegInv

LEMMA ParseKeeps ==
  ASSUME RegistryAssumption, RegInv, ParseConfig
  PROVE  RegInv'
<1>1. /\ boot = "read" /\ boot' = "entry" /\ entry' = 1
      /\ UNCHANGED <<config, symbol, found, dlError, registered, refusals>>
  BY DEF ParseConfig
<1>2. Len(config.entries) \in Nat /\ DOMAIN config.entries = 1..Len(config.entries)
  BY FileTyped DEF RegInv
<1>3. RegTypeOK' /\ config' \in Configs
  BY <1>1, <1>2 DEF RegTypeOK, RegInv
<1>4. RegisteredSound'
  BY <1>1, RegisteredStays DEF RegInv
<1>5. CrashExplained' /\ LookUpSound'
  BY <1>1 DEF CrashExplained, LookUpSound
<1>6. \A p \in Protos : registered'[p] = NULL
  BY <1>1 DEF Passed, RegInv
<1>7. Passed'
  BY <1>1, <1>2, <1>6 DEF Passed
<1> QED
  BY <1>3, <1>4, <1>5, <1>7 DEF RegInv

LEMMA EndKeeps ==
  ASSUME RegistryAssumption, RegInv, EndConfig
  PROVE  RegInv'
<1>1. /\ boot = "entry" /\ boot' = "done" /\ ~More
      /\ UNCHANGED <<config, entry, symbol, found, dlError, registered, refusals>>
  BY DEF EndConfig
<1>2. Len(config.entries) \in Nat /\ DOMAIN config.entries = 1..Len(config.entries)
  BY FileTyped DEF RegInv
<1>3. RegTypeOK' /\ config' \in Configs
  BY <1>1 DEF RegTypeOK, RegInv
<1>4. RegisteredSound'
  BY <1>1, RegisteredStays DEF RegInv
<1>5. CrashExplained' /\ LookUpSound'
  BY <1>1 DEF CrashExplained, LookUpSound
<1>6. entry = Len(config.entries) + 1
  BY <1>1, <1>2 DEF More, Passed, RegInv
<1>7. Passed'
  BY <1>1, <1>6 DEF Passed, RegInv, TooLong, Closed, SymbolsOf
<1> QED
  BY <1>3, <1>4, <1>5, <1>7 DEF RegInv

(* The loop goes on to the next entry, and this one needs no library. *)
LEMMA SkipKeeps ==
  ASSUME RegistryAssumption, RegInv, NextEntry, boot \in {"entry", "lookup"},
         entry \in DOMAIN config.entries, refusals' \in 0..MaxRefusals, refusals' >= refusals,
         refusals' = 0 => SymbolsOf(entry) # Symbols
  PROVE  RegInv'
<1>1. boot' = "entry" /\ entry' = entry + 1 /\ UNCHANGED <<config, symbol, found, dlError, registered>>
  BY DEF NextEntry
<1>2. Len(config.entries) \in Nat /\ DOMAIN config.entries = 1..Len(config.entries)
  BY FileTyped DEF RegInv
<1>3. refusals \in Nat /\ refusals' \in Nat
  BY DEF RegTypeOK, RegInv, RegistryAssumption
<1>4. RegTypeOK' /\ config' \in Configs
  BY <1>1, <1>2 DEF RegTypeOK, RegInv
<1>5. RegisteredSound'
  BY <1>1, RegisteredStays DEF RegInv
<1>6. CrashExplained' /\ LookUpSound'
  BY <1>1 DEF CrashExplained, LookUpSound
<1>7. Passed'
  <2>1. ASSUME NEW p \in Protos, registered'[p] # NULL
        PROVE  registered'[p].entry < entry'
    <3>1. registered[p].entry < entry /\ registered[p].entry \in DOMAIN config.entries
      BY <1>1, <2>1 DEF Passed, RegisteredSound, RegInv
    <3> QED
      BY <1>1, <1>2, <3>1
  <2>2. ASSUME refusals' = 0, config.present, ~TooLong, Closed, NEW e \in DOMAIN config.entries,
               e < entry', SymbolsOf(e) = Symbols, config.entries[e].func \in Protos
        PROVE  /\ registered[config.entries[e].func] # NULL
               /\ registered[config.entries[e].func].entry >= e
    <3>1. e < entry /\ refusals = 0
      BY <1>1, <1>2, <1>3, <2>2
    <3> QED
      BY <2>2, <3>1 DEF Passed, RegInv
  <2>3. entry' \in 1..(Len(config.entries) + 1)
    BY <1>1, <1>2
  <2> QED
    BY <1>1, <2>1, <2>2, <2>3 DEF Passed, TooLong, Closed, SymbolsOf
<1> QED
  BY <1>4, <1>5, <1>6, <1>7 DEF RegInv

LEMMA EntryFailsKeeps ==
  ASSUME RegistryAssumption, RegInv, EntryFails
  PROVE  RegInv'
<1>1. boot = "entry" /\ entry \in DOMAIN config.entries /\ NextEntry
  BY DEF EntryFails, More
<1>2. refusals \in 0..MaxRefusals /\ MaxRefusals \in Nat
  BY DEF RegTypeOK, RegInv, RegistryAssumption
<1>3. CASE Refuse
  BY <1>1, <1>2, <1>3, RefuseCounts, SkipKeeps DEF Refuse, RegInv
<1>4. CASE Current.lib \notin DOMAIN Exports /\ UNCHANGED refusals
  <2>1. SymbolsOf(entry) = {}
    BY <1>4 DEF SymbolsOf, Current
  <2>2. SymbolsOf(entry) # Symbols
    BY <2>1, SymbolTable
  <2> QED
    BY <1>1, <1>2, <1>4, <2>2, SkipKeeps
<1> QED
  BY <1>3, <1>4 DEF EntryFails

(* The lookup of a library's symbols. *)
LEMMA OpenKeeps ==
  ASSUME RegistryAssumption, RegInv, OpenLib
  PROVE  RegInv'
<1>1. /\ boot = "entry" /\ entry \in DOMAIN config.entries /\ Current.lib \in DOMAIN Exports
      /\ boot' = "lookup" /\ symbol' = 1 /\ found' = {} /\ dlError' = FALSE
      /\ config' = config /\ entry' = entry /\ registered' = registered /\ refusals' = refusals
  BY DEF OpenLib, More
<1>2. RegTypeOK' /\ config' \in Configs
  <2>1. boot' \in {"start", "read", "entry", "lookup", "done", "crashed"} /\ symbol' \in 0..6
        /\ found' \in SUBSET Symbols
    BY <1>1
  <2>2. dlError' \in BOOLEAN
    BY <1>1, Zenon
  <2> QED
    BY <1>1, <2>1, <2>2 DEF RegTypeOK, RegInv
<1>3. RegisteredSound'
  BY <1>1, RegisteredStays DEF RegInv
<1>4. CrashExplained'
  BY <1>1 DEF CrashExplained
<1>6. LookUpSound'
  <2>1. found' = FoundBefore(symbol)'
    BY <1>1 DEF FoundBefore
  <2> QED
    BY <1>1, <2>1 DEF LookUpSound, Current
<1>7. Passed'
  BY <1>1 DEF Passed, RegInv, TooLong, Closed, SymbolsOf
<1> QED
  BY <1>2, <1>3, <1>4, <1>6, <1>7 DEF RegInv

LEMMA FoundNext ==
  ASSUME NEW n \in 1..5
  PROVE  FoundBefore(n + 1) = FoundBefore(n) \cup (SymbolsOf(entry) \cap {FuncInfoList[n]})
<1>1. \A k \in 1..5 : k < n + 1 <=> k < n \/ k = n
  OBVIOUS
<1> QED
  BY <1>1 DEF FoundBefore

LEMMA LookUpKeeps ==
  ASSUME RegistryAssumption, RegInv, LookUp
  PROVE  RegInv'
<1> DEFINE s == FuncInfoList[symbol]
           has == <<Current.func, s>> \in Exports[Current.lib]
<1>1. /\ boot = "lookup" /\ symbol <= 5 /\ symbol' = symbol + 1
      /\ boot' = boot /\ config' = config /\ entry' = entry
      /\ registered' = registered /\ refusals' = refusals
  BY DEF LookUp
<1>2. /\ has => found' = found \cup {s} /\ dlError' \in {dlError, FALSE}
      /\ ~has => found' = found /\ dlError' = TRUE
  BY DEF LookUp
<1>3. /\ entry \in DOMAIN config.entries /\ Current.lib \in DOMAIN Exports
      /\ symbol \in 1..5 /\ found = FoundBefore(symbol)
      /\ dlError => SymbolsOf(entry) # Symbols
  BY <1>1 DEF LookUpSound, RegInv
<1>4. s \in Symbols
  BY <1>3, SymbolTable
<1>5. has <=> s \in SymbolsOf(entry)
  BY <1>3, <1>4 DEF SymbolsOf, Current
<1>6. found' = FoundBefore(symbol + 1)
  <2>1. FoundBefore(symbol + 1) = found \cup (SymbolsOf(entry) \cap {s})
    BY <1>3, FoundNext
  <2> QED
    BY <1>2, <1>5, <2>1
<1>7. dlError' \in BOOLEAN /\ (dlError' => SymbolsOf(entry) # Symbols)
  <2>1. dlError \in BOOLEAN
    BY DEF RegInv, RegTypeOK
  <2>2. CASE has
    <3>1. dlError' = dlError \/ dlError' = FALSE
      BY <1>2, <2>2
    <3>2. dlError => SymbolsOf(entry) # Symbols
      BY <1>3
    <3>3. CASE dlError' = dlError
      BY <2>1, <3>2, <3>3, Zenon
    <3>4. CASE dlError' = FALSE
      BY <3>4, Zenon
    <3> QED
      BY <3>1, <3>3, <3>4
  <2>3. CASE ~has
    <3>1. dlError' = TRUE /\ SymbolsOf(entry) # Symbols
      BY <1>2, <1>4, <1>5, <2>3
    <3> QED
      BY <3>1, Zenon
  <2> QED
    BY <2>2, <2>3
<1>8. symbol' = 6 /\ ~dlError' => "s2j" \in found'
  <2>1. symbol' = 6 => s = "s2j"
    BY <1>1, <1>3, SymbolTable
  <2> QED
    BY <1>2, <2>1
<1>9. found' \in SUBSET Symbols /\ symbol' \in 1..6
  <2>1. found \in SUBSET Symbols
    BY DEF RegInv, RegTypeOK
  <2>2. found' \in SUBSET Symbols
    <3>1. found' = found \/ found' = found \cup {s}
      BY <1>2
    <3> HIDE DEF s, has
    <3> QED
      BY <1>4, <2>1, <3>1
  <2>3. symbol' \in 1..6
    BY <1>1, <1>3
  <2> QED
    BY <2>2, <2>3
<1>10. RegTypeOK' /\ config' \in Configs
  BY <1>1, <1>7, <1>9 DEF RegTypeOK, RegInv
<1>11. RegisteredSound'
  BY <1>1, RegisteredStays DEF RegInv
<1>12. CrashExplained'
  BY <1>1 DEF CrashExplained
<1>13. LookUpSound'
  <2>1. SymbolsOf(entry)' = SymbolsOf(entry) /\ Current' = Current
    BY <1>1 DEF SymbolsOf, Current
  <2>2. found' = FoundBefore(symbol)'
    BY <1>1, <1>6, <2>1 DEF FoundBefore
  <2> QED
    BY <1>1, <1>3, <1>7, <1>8, <1>9, <2>1, <2>2 DEF LookUpSound
<1>14. Passed'
  BY <1>1 DEF Passed, RegInv, TooLong, Closed, SymbolsOf
<1> QED
  BY <1>10, <1>11, <1>12, <1>13, <1>14 DEF RegInv

LEMMA LoadFailsKeeps ==
  ASSUME RegistryAssumption, RegInv, LoadFails
  PROVE  RegInv'
<1>1. boot = "lookup" /\ dlError /\ NextEntry /\ refusals' = refusals
  BY DEF LoadFails
<1>2. entry \in DOMAIN config.entries /\ SymbolsOf(entry) # Symbols
  BY <1>1 DEF LookUpSound, RegInv
<1>3. refusals \in 0..MaxRefusals /\ MaxRefusals \in Nat
  BY DEF RegTypeOK, RegInv, RegistryAssumption
<1> QED
  BY <1>1, <1>2, <1>3, SkipKeeps

LEMMA RegisterKeeps ==
  ASSUME RegistryAssumption, RegInv, Register
  PROVE  RegInv'
<1> DEFINE p == Current.func
<1>1. /\ boot = "lookup" /\ symbol > 5 /\ ~dlError /\ p \in Protos
      /\ registered' = [registered EXCEPT ![p] = Slot]
      /\ boot' = "entry" /\ entry' = entry + 1 /\ config' = config /\ symbol' = symbol
      /\ found' = found /\ dlError' = dlError /\ refusals' = refusals
  BY DEF Register
<1>2. /\ entry \in DOMAIN config.entries /\ Current.lib \in DOMAIN Exports
      /\ symbol = 6 /\ found = FoundBefore(6) /\ "s2j" \in found
  BY <1>1 DEF LookUpSound, RegInv
<1>3. Len(config.entries) \in Nat /\ DOMAIN config.entries = 1..Len(config.entries) /\ entry \in Nat
  BY <1>2, FileTyped DEF RegInv
<1>4. found = SymbolsOf(entry)
  <2>1. \A s \in SymbolsOf(entry) : \E k \in 1..5 : k < 6 /\ s = FuncInfoList[k]
    BY SymbolTable DEF SymbolsOf
  <2> QED
    BY <1>2, <2>1 DEF FoundBefore
<1>5. found \in SUBSET Symbols /\ registered \in [Protos -> {NULL} \cup Slots]
  BY DEF RegInv, RegTypeOK, Slots
<1>6. Slot \in Slots /\ Slot # NULL /\ Slot.entry = entry /\ Slot.flags = found
  BY <1>3, <1>5 DEF Slot, Slots, RegistryAssumption
<1>7. /\ registered' \in [Protos -> {NULL} \cup Slots]
      /\ registered'[p] = Slot
      /\ \A q \in Protos : q # p => registered'[q] = registered[q]
  <2> HIDE DEF p
  <2> QED
    BY <1>1, <1>5, <1>6
<1>8. RegTypeOK' /\ config' \in Configs
  <2>1. entry' \in 0..(Len(config.entries) + 1)
    BY <1>1, <1>2, <1>3
  <2> QED
    BY <1>1, <1>7, <2>1 DEF RegTypeOK, RegInv, Slots
<1>9. RegisteredSound'
  <2>1. ASSUME NEW q \in Protos, registered'[q] # NULL
        PROVE  /\ registered'[q].entry \in DOMAIN config.entries
               /\ config.entries[registered'[q].entry].func = q
               /\ registered'[q].flags = SymbolsOf(registered'[q].entry)
               /\ "s2j" \in registered'[q].flags
    <3>1. CASE q = p
      BY <1>2, <1>4, <1>6, <1>7, <3>1 DEF Current
    <3>2. CASE q # p
      BY <1>7, <2>1, <3>2 DEF RegisteredSound, RegInv
    <3> QED
      BY <3>1, <3>2
  <2>2. config' = config
    BY <1>1
  <2> HIDE DEF p
  <2> QED
    BY <2>1, <2>2 DEF RegisteredSound, SymbolsOf
<1>10. CrashExplained' /\ LookUpSound'
  BY <1>1 DEF CrashExplained, LookUpSound
<1>11. Passed'
  <2>1. ASSUME NEW q \in Protos, registered'[q] # NULL
        PROVE  registered'[q].entry < entry'
    <3>1. CASE q = p
      BY <1>1, <1>3, <1>6, <1>7, <3>1
    <3>2. CASE q # p
      <4>1. registered[q].entry < entry /\ registered[q].entry \in DOMAIN config.entries
        BY <1>7, <2>1, <3>2 DEF Passed, RegisteredSound, RegInv
      <4> QED
        BY <1>1, <1>3, <1>7, <3>2, <4>1
    <3> QED
      BY <3>1, <3>2
  <2>2. ASSUME refusals = 0, config.present, ~TooLong, Closed, NEW e \in DOMAIN config.entries,
               e < entry', SymbolsOf(e) = Symbols, config.entries[e].func \in Protos
        PROVE  /\ registered'[config.entries[e].func] # NULL
               /\ registered'[config.entries[e].func].entry >= e
    <3>1. e \in Nat /\ e <= entry
      BY <1>1, <1>3, <2>2
    <3>2. CASE config.entries[e].func = p
      BY <1>3, <1>6, <1>7, <3>1, <3>2
    <3>3. CASE config.entries[e].func # p
      <4>1. e # entry
        BY <3>3 DEF Current
      <4>2. e < entry
        BY <1>3, <3>1, <4>1
      <4>3. /\ registered[config.entries[e].func] # NULL
            /\ registered[config.entries[e].func].entry >= e
        BY <1>1, <2>2, <4>2 DEF Passed, RegInv
      <4> QED
        BY <1>7, <2>2, <3>3, <4>3
    <3> QED
      BY <3>2, <3>3
  <2>3. entry' \in 1..(Len(config.entries) + 1)
    BY <1>1, <1>2, <1>3
  <2> HIDE DEF p
  <2> QED
    BY <1>1, <2>1, <2>2, <2>3 DEF Passed, TooLong, Closed, SymbolsOf
<1> QED
  BY <1>8, <1>9, <1>10, <1>11 DEF RegInv

LEMMA CrashesKeep ==
  ASSUME RegistryAssumption, RegInv, ParseFails \/ PathFails \/ NameFails \/ IndexFails
  PROVE  RegInv'
<1>0. refusals \in 0..MaxRefusals
  BY DEF RegInv, RegTypeOK
<1>1. CASE ParseFails
  <2>1. Crash
    BY <1>1 DEF ParseFails
  <2>2. CASE ~Closed /\ UNCHANGED refusals
    <3>1. config.close > config.mark
      BY <2>2, FileTyped DEF Closed, RegInv
    <3> QED
      BY <1>0, <2>1, <2>2, <3>1, CrashKeeps
  <2>3. CASE Refuse
    BY <2>1, <2>3, RefuseCounts, CrashKeeps DEF RegInv
  <2> QED
    BY <1>1, <2>2, <2>3 DEF ParseFails
<1>2. CASE PathFails
  <2>1. Crash /\ entry \in DOMAIN config.entries
    BY <1>2 DEF PathFails, More
  <2>2. CASE Current.lib = NULL /\ UNCHANGED refusals
    <3>1. \E e \in DOMAIN config.entries : config.entries[e].lib = NULL
      BY <2>1, <2>2 DEF Current
    <3> QED
      BY <1>0, <2>1, <2>2, <3>1, CrashKeeps
  <2>3. CASE Refuse
    BY <2>1, <2>3, RefuseCounts, CrashKeeps DEF RegInv
  <2> QED
    BY <1>2, <2>2, <2>3 DEF PathFails
<1>3. CASE NameFails
  <2>1. Crash /\ entry \in DOMAIN config.entries
    BY <1>3 DEF NameFails, LookUpSound, RegInv
  <2>2. CASE Current.func = NULL /\ UNCHANGED refusals
    <3>1. \E e \in DOMAIN config.entries : config.entries[e].func \notin Protos
      BY <2>1, <2>2 DEF Current, RegistryAssumption
    <3> QED
      BY <1>0, <2>1, <2>2, <3>1, CrashKeeps
  <2>3. CASE Refuse
    BY <2>1, <2>3, RefuseCounts, CrashKeeps DEF RegInv
  <2> QED
    BY <1>3, <2>2, <2>3 DEF NameFails
<1>4. CASE IndexFails
  <2>1. Crash /\ entry \in DOMAIN config.entries /\ refusals' = refusals /\ Current.func \notin Protos
    BY <1>4 DEF IndexFails, LookUpSound, RegInv
  <2>2. \E e \in DOMAIN config.entries : config.entries[e].func \notin Protos
    BY <2>1 DEF Current
  <2> QED
    BY <1>0, <2>1, <2>2, CrashKeeps
<1> QED
  BY <1>1, <1>2, <1>3, <1>4

LEMMA RegInvNext ==
  ASSUME RegistryAssumption, RegInv, [RegNext]_regVars
  PROVE  RegInv'
<1>1. CASE RegNext
  BY <1>1, CreateKeeps, ReadFailsKeeps, ParseKeeps, EndKeeps, EntryFailsKeeps, OpenKeeps,
     LookUpKeeps, LoadFailsKeeps, RegisterKeeps, CrashesKeep DEF RegNext
<1>2. CASE UNCHANGED regVars
  <2>1. /\ boot' = boot /\ config' = config /\ entry' = entry /\ symbol' = symbol /\ found' = found
        /\ dlError' = dlError /\ registered' = registered /\ refusals' = refusals
    BY <1>2 DEF regVars
  <2>2. RegTypeOK' /\ config' \in Configs
    BY <2>1 DEF RegTypeOK, RegInv
  <2>3. RegisteredSound'
    BY <2>1, RegisteredStays DEF RegInv
  <2>4. CrashExplained'
    BY <2>1 DEF CrashExplained, RegInv
  <2>5. LookUpSound'
    BY <2>1 DEF LookUpSound, RegInv, Current, FoundBefore, SymbolsOf
  <2>6. Passed'
    BY <2>1 DEF Passed, RegInv, TooLong, Closed, SymbolsOf
  <2> QED
    BY <2>2, <2>3, <2>4, <2>5, <2>6 DEF RegInv
<1> QED
  BY <1>1, <1>2

-----------------------------------------------------------------------------
LEMMA RegInvAlways == RegSpec => []RegInv
<1>1. RegInit => RegInv
  BY RegistryAssumption, RegInvInit
<1>2. RegInv /\ [RegNext]_regVars => RegInv'
  BY RegistryAssumption, RegInvNext
<1> QED
  BY <1>1, <1>2, PTL DEF RegSpec

(* A protocol's library is one that an entry names for it, its flags are   *)
(* the functions the library has, and s2j is one of them.                  *)
THEOREM RegistrySound == RegSpec => []RegisteredSound
<1>1. RegInv => RegisteredSound
  BY DEF RegInv
<1> QED
  BY <1>1, RegInvAlways, PTL

(* Without a refusal by malloc, every complete library of a readable file  *)
(* is registered, or a later one for the same protocol.                    *)
THEOREM RegistryComplete == RegSpec => []CompleteEntriesRegistered
<1>1. RegInv => CompleteEntriesRegistered
  <2> SUFFICES ASSUME RegInv, boot = "done", refusals = 0, config.present,
                      config.mark <= MaxConfig, config.close <= config.mark,
                      NEW e \in DOMAIN config.entries,
                      SymbolsOf(e) = Symbols, config.entries[e].func \in Protos
               PROVE  /\ registered[config.entries[e].func] # NULL
                      /\ registered[config.entries[e].func].entry >= e
    BY DEF CompleteEntriesRegistered
  <2>1. ~TooLong /\ Closed
    BY FileTyped, RegistryAssumption DEF TooLong, Closed, RegInv
  <2>2. e < entry
    BY <2>1, FileTyped, RegistryAssumption DEF Passed, RegInv
  <2> QED
    BY <2>1, <2>2 DEF Passed, RegInv
<1> QED
  BY <1>1, RegInvAlways, PTL

(* Nothing takes the process down in dissect_engine_init but a refusal by  *)
(* malloc, a file without its end, or an entry without a name it needs.    *)
THEOREM RegistryCrashes == RegSpec => []CrashExplained
<1>1. RegInv => CrashExplained
  BY DEF RegInv
<1> QED
  BY <1>1, RegInvAlways, PTL
-----------------------------------------------------------------------------
(* How much dissect_engine_init still has before it: eight for each entry  *)
(* the loop has not finished with, less what it has done of the current    *)
(* one.                                                                    *)
EngineLeft ==
  CASE boot = "start"  -> 8 * Len(config.entries) + 3
    [] boot = "read"   -> 8 * Len(config.entries) + 2
    [] boot = "entry"  -> 8 * (Len(config.entries) + 1 - entry) + 1
    [] boot = "lookup" -> 8 * (Len(config.entries) + 1 - entry) - symbol
    [] OTHER           -> 0

LEMMA EngineLeftValues ==
  /\ boot = "start" => EngineLeft = 8 * Len(config.entries) + 3
  /\ boot = "read" => EngineLeft = 8 * Len(config.entries) + 2
  /\ boot = "entry" => EngineLeft = 8 * (Len(config.entries) + 1 - entry) + 1
  /\ boot = "lookup" => EngineLeft = 8 * (Len(config.entries) + 1 - entry) - symbol
  /\ boot \in {"done", "crashed"} => EngineLeft = 0
  BY DEF EngineLeft

LEMMA EightsLeft ==
  ASSUME NEW n \in Nat, NEW e \in 1..n
  PROVE  /\ 8 * (n + 1 - e) \in Nat /\ 8 * (n + 1 - e) >= 8
         /\ 8 * (n + 1 - (e + 1)) = 8 * (n + 1 - e) - 8
  OBVIOUS

LEMMA SymbolsLeft ==
  ASSUME NEW r \in Nat, r >= 8, NEW k \in 1..5
  PROVE  r - (k + 1) \in Nat /\ r - (k + 1) < r - k
  OBVIOUS

LEMMA EngineLeftNatural ==
  ASSUME RegistryAssumption, RegInv
  PROVE  /\ EngineLeft \in Nat
         /\ boot \notin {"done", "crashed"} => EngineLeft > 0
<1>1. Len(config.entries) \in Nat /\ DOMAIN config.entries = 1..Len(config.entries)
  BY FileTyped DEF RegInv
<1>2. /\ boot \in {"start", "read", "entry", "lookup", "done", "crashed"}
      /\ boot \in {"entry", "lookup"} => entry \in 1..(Len(config.entries) + 1)
      /\ boot = "lookup" => entry \in 1..Len(config.entries) /\ symbol \in 1..6
  BY <1>1 DEF RegInv, RegTypeOK, Passed, LookUpSound
<1>3. CASE boot = "entry"
  BY <1>1, <1>2, <1>3, EngineLeftValues
<1>4. CASE boot = "lookup"
  <2> DEFINE r == 8 * (Len(config.entries) + 1 - entry)
  <2>1. r \in Nat /\ r >= 8 /\ symbol \in 1..6
    BY <1>1, <1>2, <1>4, EightsLeft
  <2>2. EngineLeft = r - symbol
    BY <1>4, EngineLeftValues
  <2> HIDE DEF r
  <2> QED
    BY <2>1, <2>2
<1>5. CASE boot \in {"start", "read", "done", "crashed"}
  BY <1>1, <1>5, EngineLeftValues
<1> QED
  BY <1>2, <1>3, <1>4, <1>5

(* Each step of dissect_engine_init brings it nearer to its end, be it     *)
(* that an entry fails, or the process dies.                               *)
LEMMA EngineDescends ==
  ASSUME RegistryAssumption, RegInv, RegNext
  PROVE  EngineLeft' \in Nat /\ EngineLeft' < EngineLeft
<1> DEFINE n == Len(config.entries)
<1>1. n \in Nat /\ DOMAIN config.entries = 1..n
  BY FileTyped DEF RegInv
<1>2. EngineLeft \in Nat /\ (boot \notin {"done", "crashed"} => EngineLeft > 0)
  BY EngineLeftNatural
<1>3. boot' \in {"done", "crashed"} => EngineLeft' = 0
  BY DEF EngineLeft
<1>4. /\ boot' = "read" => EngineLeft' = 8 * Len(config'.entries) + 2
      /\ boot' = "entry" => EngineLeft' = 8 * (Len(config'.entries) + 1 - entry') + 1
      /\ boot' = "lookup" => EngineLeft' = 8 * (Len(config'.entries) + 1 - entry') - symbol'
  BY DEF EngineLeft
<1> DEFINE Rest(e) == 8 * (n + 1 - e)
<1>0. \A e \in 1..n : Rest(e) \in Nat /\ Rest(e) >= 8 /\ Rest(e + 1) = Rest(e) - 8
  BY <1>1, EightsLeft
<1>5. CASE CreateEnginePool
  BY <1>1, <1>2, <1>3, <1>4, <1>5, EngineLeftValues DEF CreateEnginePool
<1>6. CASE ReadConfigFails \/ EndConfig
  BY <1>2, <1>3, <1>6 DEF ReadConfigFails, EndConfig
<1>7. CASE ParseFails \/ PathFails \/ NameFails \/ IndexFails
  BY <1>2, <1>3, <1>7 DEF ParseFails, PathFails, NameFails, IndexFails, Crash
<1>8. CASE ParseConfig
  BY <1>1, <1>4, <1>8, EngineLeftValues DEF ParseConfig
<1>9. CASE EntryFails
  <2>1. boot = "entry" /\ boot' = "entry" /\ entry' = entry + 1 /\ config' = config
        /\ entry \in 1..n
    BY <1>1, <1>9 DEF EntryFails, NextEntry, More
  <2>2. EngineLeft = Rest(entry) + 1
    BY <2>1, EngineLeftValues
  <2>3. EngineLeft' = Rest(entry + 1) + 1
    BY <1>4, <2>1
  <2> HIDE DEF Rest
  <2> QED
    BY <1>0, <2>1, <2>2, <2>3
<1>10. CASE OpenLib
  <2>1. boot = "entry" /\ boot' = "lookup" /\ symbol' = 1 /\ UNCHANGED <<config, entry>>
        /\ entry \in 1..n
    BY <1>1, <1>10 DEF OpenLib, More
  <2>2. EngineLeft = Rest(entry) + 1
    BY <2>1, EngineLeftValues
  <2>3. EngineLeft' = Rest(entry) - 1
    BY <1>4, <2>1
  <2> HIDE DEF Rest
  <2> QED
    BY <1>0, <2>1, <2>2, <2>3
<1>11. CASE LookUp
  <2>1. boot = "lookup" /\ boot' = "lookup" /\ symbol' = symbol + 1 /\ UNCHANGED <<config, entry>>
    BY <1>11 DEF LookUp
  <2>2. entry \in 1..n /\ symbol \in 1..5
    BY <1>1, <1>11, <2>1 DEF LookUp, RegInv, LookUpSound
  <2>3. EngineLeft = Rest(entry) - symbol
    BY <2>1, EngineLeftValues
  <2>4. EngineLeft' = Rest(entry) - (symbol + 1)
    BY <1>4, <2>1
  <2>5. Rest(entry) \in Nat /\ Rest(entry) >= 8
    BY <1>0, <2>2
  <2> HIDE DEF Rest
  <2> QED
    BY <2>2, <2>3, <2>4, <2>5, SymbolsLeft, Zenon
<1>12. CASE LoadFails \/ Register
  <2>1. boot = "lookup" /\ boot' = "entry" /\ entry' = entry + 1 /\ config' = config
    BY <1>12 DEF LoadFails, NextEntry, Register
  <2>2. entry \in 1..n /\ symbol \in 1..6
    BY <1>1, <2>1 DEF RegInv, LookUpSound
  <2>3. EngineLeft = Rest(entry) - symbol
    BY <2>1, EngineLeftValues
  <2>4. EngineLeft' = Rest(entry + 1) + 1
    BY <1>4, <2>1
  <2> HIDE DEF Rest
  <2> QED
    BY <1>0, <2>2, <2>3, <2>4
<1> QED
  BY <1>5, <1>6, <1>7, <1>8, <1>9, <1>10, <1>11, <1>12 DEF RegNext
=============================================================================
