---------------------------- MODULE MemPoolProofs ----------------------------
(***************************************************************************)
(* Proofs about MemPool for every pool size, page size, word size, set of  *)
(* request sizes and number of blocks that PoolAssumption admits.          *)
(***************************************************************************)
EXTENDS MemPool, TLAPS

-----------------------------------------------------------------------------
(* Arithmetic and sequences. *)

(* mem_align moves a pointer up to a multiple of the alignment, and not    *)
(* past any multiple that was ahead of it.                                 *)
LEMMA AlignUpBounds ==
  ASSUME NEW x \in Nat
  PROVE  /\ AlignUp(x) \in Nat
         /\ x <= AlignUp(x)
         /\ AlignUp(x) % Align = 0
         /\ \A p \in Nat : x <= p /\ p % Align = 0 => AlignUp(x) <= p
BY DEF AlignUp, Align

(* The size_t subtraction of mem_palloc does not wrap when the aligned     *)
(* pointer has not passed the end of the block.                            *)
LEMMA NoWrap ==
  ASSUME NEW m \in Nat, m <= PoolSize
  PROVE  (PoolSize - m) % Word = PoolSize - m
BY PoolAssumption

LEMMA AppendFacts ==
  ASSUME NEW S, NEW s \in Seq(S), NEW e \in S
  PROVE  /\ Append(s, e) \in Seq(S)
         /\ Len(Append(s, e)) = Len(s) + 1
         /\ Len(s) \in Nat
         /\ Len(s) + 1 \notin DOMAIN s
         /\ DOMAIN s = 1..Len(s)
         /\ DOMAIN Append(s, e) = DOMAIN s \cup {Len(s) + 1}
         /\ \A i \in DOMAIN s : Append(s, e)[i] = s[i]
         /\ Append(s, e)[Len(s) + 1] = e
OBVIOUS

LEMMA ExceptFacts ==
  ASSUME NEW S, NEW s \in Seq(S), NEW i \in DOMAIN s, NEW e \in S
  PROVE  /\ [s EXCEPT ![i] = e] \in Seq(S)
         /\ Len([s EXCEPT ![i] = e]) = Len(s)
         /\ DOMAIN [s EXCEPT ![i] = e] = DOMAIN s
         /\ \A j \in DOMAIN s : [s EXCEPT ![i] = e][j] = IF j = i THEN e ELSE s[j]
OBVIOUS

LEMMA ElementTyped ==
  ASSUME NEW S, NEW s \in Seq(S), NEW i \in DOMAIN s
  PROVE  s[i] \in S
OBVIOUS

(* Every entry of the large list has a region for a header, and a chunk or *)
(* NULL.                                                                   *)
LEMMA EntryTyped ==
  ASSUME TypeOK, NEW i \in DOMAIN large
  PROVE  large[i].hdr \in Regions /\ large[i].chunk \in Chunks \cup {NULL}
<1>1. large[i] \in [hdr : Regions, chunk : Chunks \cup {NULL}]
  <2>1. large \in Seq([hdr : Regions, chunk : Chunks \cup {NULL}])
    BY DEF TypeOK
  <2>2. QED
    BY <2>1, ElementTyped
<1>2. QED
  BY <1>1

-----------------------------------------------------------------------------
(* The walk of the chain. *)

(* What a region carved by mem_palloc is like, for a size that fits an     *)
(* empty block: in bounds, aligned, and above every object already in its  *)
(* block; the blocks only fill up, and stay live.                          *)
LEMMA CarveSound ==
  ASSUME TypeOK, ChainSound, NoReadAfterFree, status = "open",
         NEW size \in Nat, size <= PoolSize - HeaderSize,
         NEW r \in Slots(size), Obtainable(r), Carve(r)
  PROVE  /\ r \in Regions
         /\ HeaderSize <= r.lo /\ r.hi = r.lo + size /\ r.hi <= PoolSize
         /\ r.lo % Align = 0
         /\ r.blk \in DOMAIN last => last[r.blk] <= r.lo
         /\ last' \in Seq(Nat)
         /\ Len(last) <= Len(last')
         /\ DOMAIN last' = DOMAIN last \cup {r.blk}
         /\ last'[r.blk] = r.hi
         /\ \A i \in DOMAIN last : i # r.blk => last'[i] = last[i]
         /\ liveBlocks' = DOMAIN last'
         /\ liveBlocks' \in SUBSET (1..MaxBlocks)
<1> USE PoolAssumption DEF TypeOK
<1>1. /\ last \in Seq(Nat) /\ DOMAIN last = 1..Len(last) /\ Len(last) \in Nat
  BY DEF ChainSound
<1>2. CASE r.blk \in DOMAIN last
  <2>1. PICK i \in DOMAIN last : Fits(i, size) /\ r = Region(i, AlignUp(last[i]), size)
    <3>1. Len(last) + 1 \notin DOMAIN last
      BY <1>1
    <3>2. QED
      BY SMTT(30), <1>2, <3>1 DEF Slots, Region
  <2>2. /\ last[i] \in Nat /\ HeaderSize <= last[i] /\ last[i] <= PoolSize
    BY <1>1, <2>1 DEF ChainSound
  <2>3. /\ AlignUp(last[i]) \in Nat
        /\ last[i] <= AlignUp(last[i]) /\ AlignUp(last[i]) <= PoolSize
        /\ AlignUp(last[i]) % Align = 0
    BY <2>2, AlignUpBounds
  <2>4. size <= PoolSize - AlignUp(last[i])
    BY <2>1, <2>3, NoWrap DEF Fits
  <2>5. /\ r.blk = i /\ r.lo = AlignUp(last[i]) /\ r.hi = r.lo + size /\ r.hi \in Nat
        /\ r \in Regions /\ r.hi <= PoolSize
    BY <2>1, <2>3, <2>4, <1>1 DEF Region, Regions
  <2>6. last' = [last EXCEPT ![i] = r.hi] /\ liveBlocks' = liveBlocks
    BY <2>5 DEF Carve, Carved
  <2>7. /\ last' \in Seq(Nat) /\ Len(last') = Len(last) /\ DOMAIN last' = DOMAIN last
        /\ \A j \in DOMAIN last : last'[j] = IF j = i THEN r.hi ELSE last[j]
    BY <2>5, <2>6, <1>1, ExceptFacts
  <2>8. liveBlocks = DOMAIN last /\ liveBlocks \in SUBSET (1..MaxBlocks)
    BY DEF NoReadAfterFree
  <2>9. /\ r.lo % Align = 0 /\ HeaderSize <= r.lo /\ last[r.blk] <= r.lo
        /\ DOMAIN last' = DOMAIN last \cup {r.blk} /\ last'[r.blk] = r.hi
    <3>1. last[i] \in Nat /\ AlignUp(last[i]) \in Nat /\ HeaderSize \in Nat
      BY <2>2, <2>3
    <3>2. HeaderSize <= AlignUp(last[i])
      BY <2>2, <2>3, <3>1
    <3>3. QED
      BY <2>1, <2>3, <2>5, <2>7, <3>2
  <2>10. \A j \in DOMAIN last : j # r.blk => last'[j] = last[j]
    BY <2>5, <2>7
  <2>11. Len(last) <= Len(last')
    BY <1>1, <2>7
  <2>12. QED
    BY <2>5, <2>6, <2>7, <2>8, <2>9, <2>10, <2>11
<1>3. CASE r.blk \notin DOMAIN last
  <2>1. r = Region(Len(last) + 1, HeaderSize, size)
    BY <1>3 DEF Slots, Region
  <2>2. /\ r.blk = Len(last) + 1 /\ r.lo = HeaderSize /\ r.hi = HeaderSize + size
        /\ r.hi \in Nat /\ r \in Regions /\ r.hi <= PoolSize
    BY <1>1, <2>1 DEF Region, Regions
  <2>3. last' = Append(last, r.hi) /\ liveBlocks' = liveBlocks \cup {r.blk}
    BY <1>3 DEF Carve, Carved
  <2>4. /\ last' \in Seq(Nat) /\ Len(last') = Len(last) + 1
        /\ DOMAIN last' = DOMAIN last \cup {r.blk}
        /\ \A j \in DOMAIN last : last'[j] = last[j]
        /\ last'[r.blk] = r.hi
    BY <1>1, <2>2, <2>3, AppendFacts
  <2>5. QED
    BY <1>1, <1>3, <2>2, <2>3, <2>4 DEF NoReadAfterFree, Obtainable
<1>4. QED
  BY <1>2, <1>3

(* The same, seen from the objects of the pool: they stay in bounds, and   *)
(* the new region shares no byte with any of them.                         *)
LEMMA CarveApart ==
  ASSUME IInv, status = "open",
         NEW size \in Nat, size <= PoolSize - HeaderSize,
         NEW r \in Slots(size), Obtainable(r), Carve(r)
  PROVE  \A s \in Objects :
           /\ s \in Regions /\ s.blk \in DOMAIN last'
           /\ s.hi <= last'[s.blk] /\ Apart(r, s) /\ Apart(s, r)
           /\ size > 0 => s # r
           /\ s.lo < s.hi => s # r
<1> SUFFICES ASSUME NEW s \in Objects
             PROVE  /\ s \in Regions /\ s.blk \in DOMAIN last'
                    /\ s.hi <= last'[s.blk] /\ Apart(r, s) /\ Apart(s, r)
                    /\ size > 0 => s # r
                    /\ s.lo < s.hi => s # r
  OBVIOUS
<1>1. s \in Regions
  BY EntryTyped DEF IInv, TypeOK, Objects, Headers
<1>2. /\ s.blk \in DOMAIN last /\ s.lo <= s.hi /\ s.hi <= last[s.blk]
      /\ s.lo \in Nat /\ s.hi \in Nat /\ last[s.blk] \in Nat
  BY <1>1 DEF IInv, InBounds, Regions, TypeOK
<1>3. /\ r \in Regions /\ r.hi = r.lo + size
      /\ r.blk \in DOMAIN last => last[r.blk] <= r.lo
      /\ DOMAIN last' = DOMAIN last \cup {r.blk}
      /\ last'[r.blk] = r.hi
      /\ \A i \in DOMAIN last : i # r.blk => last'[i] = last[i]
  BY CarveSound DEF IInv
<1>4. r.lo \in Nat /\ r.hi \in Nat
  BY <1>3 DEF Regions
<1>5. CASE s.blk = r.blk
  BY <1>1, <1>2, <1>3, <1>4, <1>5 DEF Apart
<1>6. CASE s.blk # r.blk
  BY <1>1, <1>2, <1>3, <1>4, <1>6 DEF Apart
<1>7. QED
  BY <1>5, <1>6

-----------------------------------------------------------------------------
(* One lemma per action: it preserves the inductive invariant. *)

LEMMA CreatePoolInv == IInv /\ CreatePool => IInv'
<1> SUFFICES ASSUME IInv, CreatePool PROVE IInv'
  OBVIOUS
<1> USE PoolAssumption DEF IInv, CreatePool
<1>1. /\ last' = <<HeaderSize>> /\ large' = <<>> /\ given' = {} /\ orphans' = {}
      /\ liveBlocks' = {1} /\ liveChunks' = {} /\ status' = "open" /\ cursor' \in Nat /\ ahead' \in Nat
  BY DEF ChainSound, NothingLeaked, TypeOK
<1>2. /\ last' \in Seq(Nat) /\ Len(last') = 1 /\ DOMAIN last' = {1} /\ last'[1] = HeaderSize
      /\ DOMAIN large' = {} /\ large' \in Seq([hdr : Regions, chunk : Chunks \cup {NULL}])
  BY <1>1
<1>3. Objects' = {} /\ Headers' = {}
  BY <1>1, <1>2 DEF Objects, Headers
<1>4. TypeOK'
  BY <1>1, <1>2 DEF TypeOK
<1>5. InBounds' /\ Disjoint' /\ ChunksAccounted'
  BY <1>1, <1>2, <1>3 DEF InBounds, Disjoint, ChunksAccounted
<1>6. NoReadAfterFree' /\ NothingLeaked' /\ ChainSound' /\ WalkSound'
  BY <1>1, <1>2, <1>3 DEF NoReadAfterFree, NothingLeaked, ChainSound, WalkSound
<1>7. QED
  BY <1>4, <1>5, <1>6

LEMMA PallocSmallInv ==
  ASSUME NEW size \in Sizes
  PROVE  IInv /\ PallocSmall(size) => IInv'
<1> SUFFICES ASSUME IInv, PallocSmall(size) PROVE IInv'
  OBVIOUS
<1> USE PoolAssumption
<1>1. /\ status = "open" /\ size \in Nat /\ size <= PoolSize - HeaderSize
      /\ UNCHANGED <<status, large, orphans, liveChunks, cursor, ahead>>
  BY DEF PallocSmall, IsSmall
<1>2. PICK r \in Slots(size) : Obtainable(r) /\ Carve(r) /\ given' = given \cup {r}
  BY DEF PallocSmall
<1>3. /\ r \in Regions
      /\ HeaderSize <= r.lo /\ r.hi = r.lo + size /\ r.hi <= PoolSize
      /\ r.lo % Align = 0
      /\ last' \in Seq(Nat)
      /\ Len(last) <= Len(last')
      /\ DOMAIN last' = DOMAIN last \cup {r.blk}
      /\ last'[r.blk] = r.hi
      /\ \A i \in DOMAIN last : i # r.blk => last'[i] = last[i]
      /\ liveBlocks' = DOMAIN last'
      /\ liveBlocks' \in SUBSET (1..MaxBlocks)
  BY <1>1, <1>2, CarveSound DEF IInv
<1>4. \A s \in Objects :
         /\ s \in Regions /\ s.blk \in DOMAIN last'
         /\ s.hi <= last'[s.blk] /\ Apart(r, s) /\ Apart(s, r)
         /\ s.lo < s.hi => s # r
  BY <1>1, <1>2, CarveApart
<1>5. Headers' = Headers /\ Objects' = Objects \cup {r}
  BY <1>1, <1>2 DEF Objects, Headers
<1>6. r.lo \in Nat /\ r.hi \in Nat
  BY <1>3 DEF Regions
<1>7. TypeOK'
  BY <1>1, <1>2, <1>3 DEF IInv, TypeOK
<1>8. \A i \in DOMAIN last' : HeaderSize <= last'[i] /\ last'[i] <= PoolSize
  BY SMTT(30), <1>1, <1>3, <1>6 DEF IInv, ChainSound
<1>9. InBounds'
  BY SMTT(30), <1>3, <1>4, <1>5, <1>6, <1>8 DEF IInv, InBounds
<1>10. Disjoint'
  <2>1. r \notin Headers
    BY <1>4 DEF IInv, ChainSound, Objects
  <2>2. QED
    BY <1>1, <1>2, <1>4, <1>5, <2>1 DEF IInv, Disjoint
<1>11. ChunksAccounted' /\ NoReadAfterFree' /\ NothingLeaked' /\ WalkSound'
  BY <1>1, <1>3 DEF IInv, ChunksAccounted, NoReadAfterFree, NothingLeaked, WalkSound
<1>12. ChainSound'
  BY <1>1, <1>3, <1>5, <1>8 DEF IInv, ChainSound, TypeOK
<1>13. QED
  BY <1>7, <1>9, <1>10, <1>11, <1>12 DEF IInv

(* Changing the chunk of one list entry leaves the headers where they are. *)
LEMMA SetChunk ==
  ASSUME TypeOK, NEW i \in DOMAIN large, NEW c \in Chunks \cup {NULL},
         large' = [large EXCEPT ![i].chunk = c]
  PROVE  /\ large' \in Seq([hdr : Regions, chunk : Chunks \cup {NULL}])
         /\ DOMAIN large' = DOMAIN large
         /\ \A j \in DOMAIN large : large'[j].hdr = large[j].hdr
         /\ \A j \in DOMAIN large :
              large'[j].chunk = IF j = i THEN c ELSE large[j].chunk
<1> DEFINE Entry == [hdr : Regions, chunk : Chunks \cup {NULL}]
           e == [large[i] EXCEPT !.chunk = c]
<1>1. large \in Seq(Entry)
  BY DEF TypeOK
<1>2. large[i] \in Entry
  BY <1>1, ElementTyped
<1>3. e \in Entry /\ e.hdr = large[i].hdr /\ e.chunk = c
  BY <1>2
<1>4. large' = [large EXCEPT ![i] = e]
  OBVIOUS
<1> HIDE DEF Entry, e
<1>5. /\ large' \in Seq(Entry) /\ DOMAIN large' = DOMAIN large
      /\ \A j \in DOMAIN large : large'[j] = IF j = i THEN e ELSE large[j]
  BY SMTT(30), <1>1, <1>3, <1>4, ExceptFacts
<1>6. QED
  BY <1>3, <1>5 DEF Entry

LEMMA PallocLargeReuseInv ==
  ASSUME NEW size \in Sizes
  PROVE  IInv /\ PallocLargeReuse(size) => IInv'
<1> SUFFICES ASSUME IInv, PallocLargeReuse(size) PROVE IInv'
  OBVIOUS
<1> USE PoolAssumption
<1>1. /\ status = "open"
      /\ UNCHANGED <<status, last, given, orphans, liveBlocks, cursor, ahead>>
  BY DEF PallocLargeReuse
<1>2. PICK i \in DOMAIN large, c \in Chunks \ liveChunks :
        /\ large[i].chunk = NULL
        /\ large' = [large EXCEPT ![i].chunk = c]
        /\ liveChunks' = liveChunks \cup {c}
  BY DEF PallocLargeReuse, Vacant
<1>3. /\ large' \in Seq([hdr : Regions, chunk : Chunks \cup {NULL}])
      /\ DOMAIN large' = DOMAIN large
      /\ \A j \in DOMAIN large : large'[j].hdr = large[j].hdr
      /\ \A j \in DOMAIN large :
           large'[j].chunk = IF j = i THEN c ELSE large[j].chunk
  BY <1>2, SetChunk DEF IInv
<1>4. Headers' = Headers /\ Objects' = Objects
  BY <1>1, <1>3 DEF Objects, Headers
<1>5. TypeOK'
  BY <1>1, <1>2, <1>3 DEF IInv, TypeOK
<1>6. InBounds' /\ Disjoint'
  BY <1>1, <1>3, <1>4 DEF IInv, InBounds, Disjoint
<1>7. ChunksAccounted'
  <2>1. /\ liveChunks = {large[j].chunk : j \in DOMAIN large} \ {NULL}
        /\ \A j, k \in DOMAIN large :
             large[j].chunk = large[k].chunk => j = k \/ large[j].chunk = NULL
    BY DEF IInv, ChunksAccounted
  <2>2. c # NULL /\ \A j \in DOMAIN large : large[j].chunk # c
    BY <1>2, <2>1
  <2>3. \A x : x \in liveChunks' <=> x # NULL /\ \E j \in DOMAIN large' : large'[j].chunk = x
    <3>1. \A x : x \in liveChunks <=> x # NULL /\ \E j \in DOMAIN large : large[j].chunk = x
      BY <2>1
    <3>2. ASSUME NEW x \in liveChunks'
          PROVE  x # NULL /\ \E j \in DOMAIN large' : large'[j].chunk = x
      BY <1>2, <1>3, <2>2, <3>1
    <3>3. ASSUME NEW j \in DOMAIN large', large'[j].chunk # NULL
          PROVE  large'[j].chunk \in liveChunks'
      BY <1>2, <1>3, <3>1, <3>3
    <3> QED
      BY <3>2, <3>3
  <2>4. \A j, k \in DOMAIN large' :
          large'[j].chunk = large'[k].chunk => j = k \/ large'[j].chunk = NULL
    BY <1>3, <2>1, <2>2
  <2>5. liveChunks' = {large'[j].chunk : j \in DOMAIN large'} \ {NULL}
    BY <2>3
  <2> QED
    BY <2>4, <2>5 DEF ChunksAccounted
<1>8. NoReadAfterFree' /\ NothingLeaked' /\ ChainSound' /\ WalkSound'
  BY <1>1, <1>4 DEF IInv, NoReadAfterFree, NothingLeaked, ChainSound, WalkSound
<1>9. QED
  BY <1>5, <1>6, <1>7, <1>8 DEF IInv

LEMMA PallocLargeLinkInv ==
  ASSUME NEW size \in Sizes
  PROVE  IInv /\ PallocLargeLink(size) => IInv'
<1> SUFFICES ASSUME IInv, PallocLargeLink(size) PROVE IInv'
  OBVIOUS
<1> USE PoolAssumption
<1>1. /\ status = "open" /\ NoVacancy
      /\ LargeHdrSize \in Nat /\ LargeHdrSize > 0 /\ LargeHdrSize <= PoolSize - HeaderSize
      /\ UNCHANGED <<status, given, orphans, cursor, ahead>>
  BY DEF PallocLargeLink
<1>2. PICK r \in Slots(LargeHdrSize), c \in Chunks \ liveChunks :
        /\ Obtainable(r) /\ Carve(r)
        /\ large' = Append(large, [hdr |-> r, chunk |-> c])
        /\ liveChunks' = liveChunks \cup {c}
  BY DEF PallocLargeLink
<1>3. /\ r \in Regions
      /\ HeaderSize <= r.lo /\ r.hi = r.lo + LargeHdrSize /\ r.hi <= PoolSize
      /\ r.lo % Align = 0
      /\ last' \in Seq(Nat)
      /\ Len(last) <= Len(last')
      /\ DOMAIN last' = DOMAIN last \cup {r.blk}
      /\ last'[r.blk] = r.hi
      /\ \A i \in DOMAIN last : i # r.blk => last'[i] = last[i]
      /\ liveBlocks' = DOMAIN last'
      /\ liveBlocks' \in SUBSET (1..MaxBlocks)
  BY <1>1, <1>2, CarveSound DEF IInv
<1>4. \A s \in Objects :
         /\ s \in Regions /\ s.blk \in DOMAIN last'
         /\ s.hi <= last'[s.blk] /\ Apart(r, s) /\ Apart(s, r) /\ s # r
  BY <1>1, <1>2, CarveApart
<1>5. /\ large' \in Seq([hdr : Regions, chunk : Chunks \cup {NULL}])
      /\ Len(large) + 1 \notin DOMAIN large
      /\ DOMAIN large' = DOMAIN large \cup {Len(large) + 1}
      /\ \A i \in DOMAIN large : large'[i] = large[i]
      /\ large'[Len(large) + 1] = [hdr |-> r, chunk |-> c]
  <2> DEFINE Entry == [hdr : Regions, chunk : Chunks \cup {NULL}]
  <2>1. large \in Seq(Entry) /\ [hdr |-> r, chunk |-> c] \in Entry
    BY <1>3 DEF IInv, TypeOK
  <2> HIDE DEF Entry
  <2>2. QED
    BY <1>2, <2>1, AppendFacts DEF Entry
<1>6. Headers' = Headers \cup {r} /\ Objects' = Objects \cup {r}
  BY <1>1, <1>5 DEF Objects, Headers
<1>7. r.lo \in Nat /\ r.hi \in Nat
  BY <1>3 DEF Regions
<1>8. TypeOK'
  <2>1. TypeOK
    BY DEF IInv
  <2>2. liveChunks' \subseteq Chunks
    BY <1>2, <2>1 DEF TypeOK
  <2>3. QED
    BY <1>1, <1>3, <1>5, <2>1, <2>2 DEF TypeOK
<1>9. \A i \in DOMAIN last' : HeaderSize <= last'[i] /\ last'[i] <= PoolSize
  <2>1. \A i \in DOMAIN last : HeaderSize <= last[i] /\ last[i] <= PoolSize
    BY DEF IInv, ChainSound
  <2>2. HeaderSize <= r.hi /\ r.hi <= PoolSize
    BY <1>1, <1>3, <1>7
  <2>3. TAKE i \in DOMAIN last'
  <2>4. CASE i = r.blk
    BY <1>3, <2>2, <2>4
  <2>5. CASE i # r.blk
    BY <1>3, <2>1, <2>5
  <2>6. QED
    BY <2>4, <2>5
<1>10. InBounds'
  BY SMTT(30), <1>1, <1>3, <1>4, <1>6, <1>7, <1>9 DEF IInv, InBounds
<1>11. Disjoint'
  <2>1. \A i \in DOMAIN large : large[i].hdr \in Objects
    BY DEF Objects, Headers
  <2>2. r \notin orphans /\ r \notin given
    BY <1>4 DEF Objects, Headers
  <2>3. \A s, t \in Objects' : s # t => Apart(s, t)
    BY <1>4, <1>6 DEF IInv, Disjoint
  <2>4. (given \cap Headers = {})'
    BY <1>1, <1>6, <2>2 DEF IInv, Disjoint
  <2>5. ASSUME NEW i \in DOMAIN large'
        PROVE  /\ large'[i].hdr \notin orphans'
               /\ \A j \in DOMAIN large' : i # j => Apart(large'[i].hdr, large'[j].hdr)
    <3> DEFINE new == Len(large) + 1
    <3>1. /\ \A j \in DOMAIN large : large[j].hdr \notin orphans
          /\ \A j, k \in DOMAIN large : j # k => Apart(large[j].hdr, large[k].hdr)
      BY DEF IInv, Disjoint
    <3>2. \A j \in DOMAIN large : Apart(large[j].hdr, r) /\ Apart(r, large[j].hdr)
      BY <1>4, <2>1
    <3>3. /\ DOMAIN large' = DOMAIN large \cup {new}
          /\ large'[new].hdr = r
          /\ \A j \in DOMAIN large : large'[j].hdr = large[j].hdr
      BY <1>5
    <3>4. orphans' = orphans
      BY <1>1
    <3> HIDE DEF new
    <3>5. CASE i = new
      BY <2>2, <3>2, <3>3, <3>4, <3>5
    <3>6. CASE i # new
      <4>1. i \in DOMAIN large
        BY <2>5, <3>3, <3>6
      <4>2. QED
        BY <3>1, <3>2, <3>3, <3>4, <4>1
    <3>7. QED
      BY <3>5, <3>6
  <2>6. QED
    BY <2>3, <2>4, <2>5 DEF Disjoint
<1>12. ChunksAccounted'
  <2>1. c # NULL /\ c \notin liveChunks /\ liveChunks' = liveChunks \cup {c}
    BY <1>2
  <2>2. \A i \in DOMAIN large : large[i].chunk # c
    BY <2>1 DEF IInv, ChunksAccounted
  <2>3. {large'[i].chunk : i \in DOMAIN large'} = {large[i].chunk : i \in DOMAIN large} \cup {c}
    BY <1>5
  <2>4. QED
    BY <1>5, <2>1, <2>2, <2>3 DEF IInv, ChunksAccounted
<1>13. NoReadAfterFree' /\ NothingLeaked' /\ WalkSound'
  BY <1>1, <1>3 DEF NoReadAfterFree, NothingLeaked, WalkSound
<1>14. ChainSound'
  <2>1. \A h \in Headers : h.lo < h.hi
    BY DEF IInv, ChainSound
  <2>2. r.lo < r.hi
    BY <1>1, <1>3, <1>7
  <2>3. \A h \in Headers' : h.lo < h.hi
    BY <1>6, <2>1, <2>2
  <2>4. Len(last') > 0 /\ status' = "open"
    <3>1. Len(last) > 0 /\ last \in Seq(Nat)
      BY <1>1 DEF IInv, ChainSound, TypeOK
    <3>2. Len(last) \in Nat /\ Len(last') \in Nat
      BY <1>3, <3>1
    <3>3. QED
      BY <1>1, <1>3, <3>1, <3>2
  <2>5. QED
    BY <1>9, <2>3, <2>4 DEF ChainSound
<1>15. QED
  BY <1>8, <1>10, <1>11, <1>12, <1>13, <1>14 DEF IInv

LEMMA PallocLargeRefusedInv ==
  ASSUME NEW size \in Sizes
  PROVE  IInv /\ PallocLargeRefused(size) => IInv'
<1> SUFFICES ASSUME IInv, PallocLargeRefused(size) PROVE IInv'
  OBVIOUS
<1> USE PoolAssumption
<1>1. /\ status = "open"
      /\ LargeHdrSize \in Nat /\ LargeHdrSize > 0 /\ LargeHdrSize <= PoolSize - HeaderSize
      /\ UNCHANGED <<status, large, given, liveChunks, cursor, ahead>>
  BY DEF PallocLargeRefused
<1>2. PICK r \in Slots(LargeHdrSize) : Obtainable(r) /\ Carve(r) /\ orphans' = orphans \cup {r}
  BY DEF PallocLargeRefused
<1>3. /\ r \in Regions
      /\ HeaderSize <= r.lo /\ r.hi = r.lo + LargeHdrSize /\ r.hi <= PoolSize
      /\ r.lo % Align = 0
      /\ last' \in Seq(Nat)
      /\ Len(last) <= Len(last')
      /\ DOMAIN last' = DOMAIN last \cup {r.blk}
      /\ last'[r.blk] = r.hi
      /\ \A i \in DOMAIN last : i # r.blk => last'[i] = last[i]
      /\ liveBlocks' = DOMAIN last'
      /\ liveBlocks' \in SUBSET (1..MaxBlocks)
  BY <1>1, <1>2, CarveSound DEF IInv
<1>4. \A s \in Objects :
         /\ s \in Regions /\ s.blk \in DOMAIN last'
         /\ s.hi <= last'[s.blk] /\ Apart(r, s) /\ Apart(s, r) /\ s # r
  BY <1>1, <1>2, CarveApart
<1>5. Headers' = Headers \cup {r} /\ Objects' = Objects \cup {r}
  BY <1>1, <1>2 DEF Objects, Headers
<1>6. r.lo \in Nat /\ r.hi \in Nat
  BY <1>3 DEF Regions
<1>7. TypeOK'
  BY <1>1, <1>2, <1>3 DEF IInv, TypeOK
<1>8. \A i \in DOMAIN last' : HeaderSize <= last'[i] /\ last'[i] <= PoolSize
  BY SMTT(30), <1>1, <1>3, <1>6 DEF IInv, ChainSound
<1>9. InBounds'
  BY SMTT(30), <1>3, <1>4, <1>5, <1>6, <1>8 DEF IInv, InBounds
<1>10. Disjoint'
  <2>1. r \notin given /\ \A i \in DOMAIN large : large[i].hdr # r
    BY <1>4 DEF Objects, Headers
  <2>2. QED
    BY <1>1, <1>2, <1>4, <1>5, <2>1 DEF IInv, Disjoint
<1>11. ChunksAccounted' /\ NoReadAfterFree' /\ NothingLeaked' /\ WalkSound'
  BY <1>1, <1>3 DEF IInv, ChunksAccounted, NoReadAfterFree, NothingLeaked, WalkSound
<1>12. ChainSound'
  <2>1. r.lo < r.hi
    BY <1>1, <1>3, <1>6
  <2>2. \A h \in Headers' : h.lo < h.hi
    BY <1>5, <2>1 DEF IInv, ChainSound
  <2>3. Len(last') > 0
    BY <1>1, <1>3 DEF IInv, ChainSound, TypeOK
  <2>4. QED
    BY <1>1, <1>8, <2>2, <2>3 DEF ChainSound
<1>13. QED
  BY <1>7, <1>9, <1>10, <1>11, <1>12 DEF IInv

(* Freeing the chunk of entry i: the entry stays, its chunk is accounted   *)
(* for by no entry and is no longer live.                                  *)
LEMMA DropChunk ==
  ASSUME IInv, NEW i \in DOMAIN large,
         large' = [large EXCEPT ![i].chunk = NULL],
         liveChunks' = liveChunks \ {large[i].chunk},
         UNCHANGED <<last, given, orphans>>
  PROVE  /\ large' \in Seq([hdr : Regions, chunk : Chunks \cup {NULL}])
         /\ liveChunks' \in SUBSET Chunks
         /\ InBounds' /\ Disjoint' /\ ChunksAccounted'
         /\ Headers' = Headers
         /\ DOMAIN large' = DOMAIN large
         /\ large'[i].chunk = NULL
         /\ \A j \in DOMAIN large : j # i => large'[j].chunk = large[j].chunk
<1>1. /\ large' \in Seq([hdr : Regions, chunk : Chunks \cup {NULL}])
      /\ DOMAIN large' = DOMAIN large
      /\ \A j \in DOMAIN large : large'[j].hdr = large[j].hdr
      /\ \A j \in DOMAIN large :
           large'[j].chunk = IF j = i THEN NULL ELSE large[j].chunk
  BY SetChunk DEF IInv
<1>2. Headers' = Headers /\ Objects' = Objects
  BY <1>1 DEF Objects, Headers
<1>3. InBounds' /\ Disjoint'
  BY <1>1, <1>2 DEF IInv, InBounds, Disjoint
<1>4. ChunksAccounted'
  <2>1. {large'[j].chunk : j \in DOMAIN large'} \ {NULL}
          = ({large[j].chunk : j \in DOMAIN large} \ {NULL}) \ {large[i].chunk}
    BY <1>1 DEF IInv, ChunksAccounted
  <2>2. QED
    BY <1>1, <2>1 DEF IInv, ChunksAccounted
<1>5. QED
  BY <1>1, <1>2, <1>3, <1>4 DEF IInv, TypeOK

LEMMA PfreeLargeInv ==
  ASSUME NEW c \in Chunks
  PROVE  IInv /\ PfreeLarge(c) => IInv'
<1> SUFFICES ASSUME IInv, PfreeLarge(c) PROVE IInv'
  OBVIOUS
<1>1. /\ status = "open" /\ liveChunks' = liveChunks \ {c}
      /\ UNCHANGED <<status, last, given, orphans, liveBlocks, cursor, ahead>>
  BY DEF PfreeLarge
<1>2. PICK i \in DOMAIN large :
        large[i].chunk = c /\ large' = [large EXCEPT ![i].chunk = NULL]
  BY DEF PfreeLarge
<1>3. /\ large' \in Seq([hdr : Regions, chunk : Chunks \cup {NULL}])
      /\ liveChunks' \in SUBSET Chunks
      /\ InBounds' /\ Disjoint' /\ ChunksAccounted' /\ Headers' = Headers
  BY <1>1, <1>2, DropChunk
<1>4. TypeOK' /\ NoReadAfterFree' /\ NothingLeaked' /\ ChainSound' /\ WalkSound'
  BY <1>1, <1>3 DEF IInv, TypeOK, NoReadAfterFree, NothingLeaked, ChainSound, WalkSound
<1>5. QED
  BY <1>3, <1>4 DEF IInv

(* A step that leaves the objects alone keeps what is said of them.         *)
LEMMA ObjectsKept ==
  ASSUME IInv, UNCHANGED <<last, large, given, orphans, liveChunks>>
  PROVE  /\ Headers' = Headers /\ Objects' = Objects
         /\ InBounds' /\ Disjoint' /\ ChunksAccounted'
<1>1. Headers' = Headers /\ Objects' = Objects
  BY DEF Objects, Headers
<1>2. InBounds'
  BY <1>1 DEF IInv, InBounds
<1>3. Disjoint'
  BY <1>1 DEF IInv, Disjoint
<1>4. ChunksAccounted'
  BY DEF IInv, ChunksAccounted
<1>5. QED
  BY <1>1, <1>2, <1>3, <1>4

LEMMA DestroyBeginInv == IInv /\ DestroyBegin => IInv'
<1> SUFFICES ASSUME IInv, DestroyBegin PROVE IInv'
  OBVIOUS
<1>1. /\ status = "open" /\ status' = "freeLarge" /\ cursor' = 1
      /\ UNCHANGED <<last, large, given, orphans, liveBlocks, liveChunks, ahead>>
  BY DEF DestroyBegin
<1>2. Headers' = Headers /\ Objects' = Objects /\ DOMAIN large \subseteq Nat \ {0}
  BY <1>1 DEF Objects, Headers, IInv, TypeOK
<1>3. TypeOK' /\ InBounds' /\ Disjoint' /\ ChunksAccounted'
  <2>1. TypeOK'
    BY <1>1 DEF IInv, TypeOK
  <2>2. QED
    BY <1>1, <2>1, ObjectsKept
<1>4. NoReadAfterFree' /\ NothingLeaked' /\ ChainSound' /\ WalkSound'
  BY <1>1, <1>2 DEF IInv, NoReadAfterFree, NothingLeaked, ChainSound, WalkSound
<1>5. QED
  BY <1>3, <1>4 DEF IInv

LEMMA DestroyLargeInv == IInv /\ DestroyLarge => IInv'
<1> SUFFICES ASSUME IInv, DestroyLarge PROVE IInv'
  OBVIOUS
<1>1. /\ status = "freeLarge" /\ cursor \in DOMAIN large /\ cursor \in Nat
      /\ large' = [large EXCEPT ![cursor].chunk = NULL]
      /\ liveChunks' = liveChunks \ {large[cursor].chunk}
      /\ cursor' = cursor + 1
      /\ UNCHANGED <<status, last, given, orphans, liveBlocks, ahead>>
  BY DEF DestroyLarge, IInv, TypeOK
<1>2. /\ large' \in Seq([hdr : Regions, chunk : Chunks \cup {NULL}])
      /\ liveChunks' \in SUBSET Chunks
      /\ InBounds' /\ Disjoint' /\ ChunksAccounted' /\ Headers' = Headers
      /\ DOMAIN large' = DOMAIN large /\ large'[cursor].chunk = NULL
      /\ \A j \in DOMAIN large : j # cursor => large'[j].chunk = large[j].chunk
  BY <1>1, DropChunk
<1>3. TypeOK' /\ NoReadAfterFree' /\ NothingLeaked' /\ ChainSound'
  BY <1>1, <1>2 DEF IInv, TypeOK, NoReadAfterFree, NothingLeaked, ChainSound
<1>4. WalkSound'
  <2>1. DOMAIN large \subseteq Nat
    BY DEF IInv, TypeOK
  <2>2. \A i \in DOMAIN large' : i < cursor' => large'[i].chunk = NULL
    BY <1>1, <1>2, <2>1 DEF IInv, WalkSound
  <2>3. QED
    BY <1>1, <2>2 DEF WalkSound
<1>5. QED
  BY <1>2, <1>3, <1>4 DEF IInv

(* What the walk finds at the end of a block it has not freed: the next    *)
(* block of the chain, or NULL in the last.                                *)
LEMMA NextIsNext ==
  ASSUME NEW b \in DOMAIN last, last \in Seq(Nat), b \in liveBlocks, NEW n \in NextOf(b)
  PROVE  /\ n = IF b < Len(last) THEN b + 1 ELSE 0
         /\ n \in Nat
<1>1. b \in Nat
  OBVIOUS
<1>2. QED
  BY <1>1 DEF NextOf

LEMMA DestroyTurnInv == IInv /\ DestroyTurn => IInv'
<1> SUFFICES ASSUME IInv, DestroyTurn PROVE IInv'
  OBVIOUS
<1>1. /\ status = "freeLarge" /\ cursor \notin DOMAIN large
      /\ status' = "freeBlocks" /\ cursor' = 1 /\ ahead' \in NextOf(1)
      /\ UNCHANGED <<last, large, given, orphans, liveBlocks, liveChunks>>
  BY DEF DestroyTurn
<1>2. Headers' = Headers /\ Objects' = Objects
  BY <1>1, ObjectsKept
<1>3. /\ last \in Seq(Nat) /\ Len(last) > 0 /\ Len(last) \in Nat
      /\ DOMAIN last = 1..Len(last) /\ DOMAIN large = 1..Len(large) /\ Len(large) \in Nat
      /\ liveBlocks = DOMAIN last
  BY <1>1 DEF IInv, TypeOK, ChainSound, NoReadAfterFree
<1>4. ahead' \in Nat /\ ahead' = IF 1 < Len(last) THEN 1 + 1 ELSE 0
  <2>1. 1 \in DOMAIN last
    BY <1>3
  <2>2. QED
    BY <1>1, <1>3, <2>1, NextIsNext
<1>5. TypeOK' /\ InBounds' /\ Disjoint' /\ ChunksAccounted'
  <2>1. TypeOK'
    BY <1>1, <1>4 DEF IInv, TypeOK
  <2>2. QED
    BY <1>1, <2>1, ObjectsKept
<1>6. NoReadAfterFree' /\ NothingLeaked' /\ ChainSound'
  BY <1>1, <1>2, <1>3 DEF IInv, NoReadAfterFree, NothingLeaked, ChainSound
<1>7. WalkSound'
  <2>1. \A i \in DOMAIN large : i < cursor
    BY <1>1, <1>3 DEF IInv, WalkSound, TypeOK
  <2>2. QED
    BY <1>1, <1>3, <1>4, <2>1 DEF IInv, WalkSound
<1>8. QED
  BY <1>5, <1>6, <1>7 DEF IInv

LEMMA DestroyBlockInv == IInv /\ DestroyBlock => IInv'
<1> SUFFICES ASSUME IInv, DestroyBlock PROVE IInv'
  OBVIOUS
<1>1. /\ status = "freeBlocks" /\ ahead # 0 /\ cursor \in Nat /\ ahead \in Nat
      /\ status' = "nextBlock" /\ liveBlocks' = liveBlocks \ {cursor}
      /\ UNCHANGED <<last, large, given, orphans, liveChunks, cursor, ahead>>
  BY DEF DestroyBlock, IInv, TypeOK
<1>2. Headers' = Headers /\ Objects' = Objects
  BY <1>1, ObjectsKept
<1>3. Len(last) \in Nat /\ DOMAIN last = 1..Len(last)
  BY DEF IInv, TypeOK
<1>4. cursor > 0 /\ ahead = cursor + 1 /\ cursor < Len(last) /\ liveBlocks = cursor..Len(last)
  BY <1>1, <1>3 DEF IInv, WalkSound, NoReadAfterFree
<1>5. TypeOK' /\ InBounds' /\ Disjoint' /\ ChunksAccounted'
  <2>1. TypeOK'
    BY <1>1, <1>3 DEF IInv, TypeOK
  <2>2. QED
    BY <1>1, <2>1, ObjectsKept
<1>6. NoReadAfterFree' /\ NothingLeaked' /\ ChainSound'
  BY <1>1, <1>2, <1>3, <1>4 DEF IInv, NoReadAfterFree, NothingLeaked, ChainSound
<1>7. WalkSound'
  BY <1>1, <1>4 DEF IInv, WalkSound
<1>8. QED
  BY <1>5, <1>6, <1>7 DEF IInv

LEMMA NextBlockInv == IInv /\ NextBlock => IInv'
<1> SUFFICES ASSUME IInv, NextBlock PROVE IInv'
  OBVIOUS
<1>1. /\ status = "nextBlock" /\ status' = "freeBlocks"
      /\ cursor' = ahead /\ ahead' \in NextOf(ahead) /\ ahead \in Nat
      /\ UNCHANGED <<last, large, given, orphans, liveBlocks, liveChunks>>
  BY DEF NextBlock, IInv, TypeOK
<1>2. Headers' = Headers /\ Objects' = Objects
  BY <1>1, ObjectsKept
<1>3. /\ last \in Seq(Nat) /\ Len(last) \in Nat /\ DOMAIN last = 1..Len(last)
      /\ cursor \in Nat
  BY DEF IInv, TypeOK
<1>4. /\ cursor > 0 /\ ahead = cursor + 1
      /\ ahead \in liveBlocks /\ liveBlocks = ahead..Len(last)
  BY <1>1 DEF IInv, WalkSound, NoReadAfterFree
<1>5. /\ ahead \in DOMAIN last
      /\ ahead' \in Nat /\ ahead' = IF ahead < Len(last) THEN ahead + 1 ELSE 0
  <2>1. ahead \in DOMAIN last
    BY <1>3, <1>4
  <2>2. QED
    BY <1>1, <1>3, <1>4, <2>1, NextIsNext
<1>6. TypeOK' /\ InBounds' /\ Disjoint' /\ ChunksAccounted'
  <2>1. TypeOK'
    BY <1>1, <1>5 DEF IInv, TypeOK
  <2>2. QED
    BY <1>1, <2>1, ObjectsKept
<1>7. NoReadAfterFree' /\ NothingLeaked' /\ ChainSound'
  BY <1>1, <1>2, <1>4 DEF IInv, NoReadAfterFree, NothingLeaked, ChainSound
<1>8. WalkSound'
  BY <1>1, <1>5 DEF IInv, WalkSound
<1>9. QED
  BY <1>6, <1>7, <1>8 DEF IInv

LEMMA DestroyEndInv == IInv /\ DestroyEnd => IInv'
<1> SUFFICES ASSUME IInv, DestroyEnd PROVE IInv'
  OBVIOUS
<1>0. status = "freeBlocks" /\ ahead = 0 /\ cursor \in Nat /\ ahead' = 0
  BY DEF DestroyEnd, IInv, TypeOK
<1>1. /\ status = "freeBlocks" /\ cursor = Len(last) /\ cursor \in Nat
      /\ liveBlocks' = liveBlocks \ {cursor} /\ status' = "none"
      /\ last' = <<>> /\ large' = <<>> /\ given' = {} /\ orphans' = {} /\ cursor' = 0
      /\ liveChunks' = liveChunks
  <2>1. cursor = Len(last)
    BY <1>0 DEF IInv, WalkSound, TypeOK
  <2>2. QED
    BY <1>0, <2>1 DEF DestroyEnd
<1>2. liveBlocks' = {}
  BY <1>1 DEF IInv, NoReadAfterFree
<1>3. liveChunks' = {}
  BY <1>1 DEF IInv, WalkSound, ChunksAccounted
<1>4. /\ DOMAIN last' = {} /\ DOMAIN large' = {} /\ last' \in Seq(Nat)
      /\ large' \in Seq([hdr : Regions, chunk : Chunks \cup {NULL}])
  BY <1>1
<1>5. Headers' = {} /\ Objects' = {}
  BY <1>1, <1>4 DEF Objects, Headers
<1>6. TypeOK'
  BY <1>0, <1>1, <1>2, <1>3, <1>4 DEF TypeOK
<1>7. InBounds' /\ Disjoint' /\ ChunksAccounted'
  BY <1>1, <1>3, <1>4, <1>5 DEF InBounds, Disjoint, ChunksAccounted
<1>8. NoReadAfterFree' /\ NothingLeaked' /\ ChainSound' /\ WalkSound'
  BY <1>1, <1>2, <1>3, <1>4, <1>5 DEF NoReadAfterFree, NothingLeaked, ChainSound, WalkSound
<1>9. QED
  BY <1>6, <1>7, <1>8 DEF IInv

-----------------------------------------------------------------------------
(* The theorems. *)

LEMMA InitInv == Init => IInv
<1> SUFFICES ASSUME Init PROVE IInv
  OBVIOUS
<1>1. /\ DOMAIN last = {} /\ DOMAIN large = {} /\ last \in Seq(Nat)
      /\ large \in Seq([hdr : Regions, chunk : Chunks \cup {NULL}])
  BY DEF Init
<1>2. Headers = {} /\ Objects = {}
  BY <1>1 DEF Init, Objects, Headers
<1>3. TypeOK
  BY <1>1 DEF Init, TypeOK
<1>4. InBounds /\ Disjoint /\ ChunksAccounted
  BY <1>1, <1>2 DEF Init, InBounds, Disjoint, ChunksAccounted
<1>5. NoReadAfterFree /\ NothingLeaked /\ ChainSound /\ WalkSound
  BY <1>1, <1>2 DEF Init, NoReadAfterFree, NothingLeaked, ChainSound, WalkSound
<1>6. QED
  BY <1>3, <1>4, <1>5 DEF IInv

LEMMA StutterInv == IInv /\ UNCHANGED vars => IInv'
<1> SUFFICES ASSUME IInv, UNCHANGED vars PROVE IInv'
  OBVIOUS
<1>1. /\ status' = status /\ last' = last /\ large' = large /\ given' = given
      /\ orphans' = orphans /\ liveBlocks' = liveBlocks
      /\ liveChunks' = liveChunks /\ cursor' = cursor /\ ahead' = ahead
  BY DEF vars
<1>2. Headers' = Headers /\ Objects' = Objects
  BY <1>1, ObjectsKept
<1>3. TypeOK' /\ InBounds' /\ Disjoint' /\ ChunksAccounted'
  <2>1. TypeOK'
    BY <1>1 DEF IInv, TypeOK
  <2>2. QED
    BY <1>1, <2>1, ObjectsKept
<1>4. NoReadAfterFree' /\ NothingLeaked' /\ ChainSound' /\ WalkSound'
  BY <1>1, <1>2 DEF IInv, NoReadAfterFree, NothingLeaked, ChainSound, WalkSound
<1>5. QED
  BY <1>3, <1>4 DEF IInv

LEMMA NextInv == IInv /\ [Next]_vars => IInv'
<1> SUFFICES ASSUME IInv, [Next]_vars PROVE IInv'
  OBVIOUS
<1>1. CASE CreatePool
  BY <1>1, CreatePoolInv
<1>2. ASSUME NEW size \in Sizes,
             \/ PallocSmall(size) \/ PallocLargeReuse(size)
             \/ PallocLargeLink(size) \/ PallocLargeRefused(size)
      PROVE  IInv'
  BY <1>2, PallocSmallInv, PallocLargeReuseInv, PallocLargeLinkInv, PallocLargeRefusedInv
<1>3. ASSUME NEW c \in Chunks, PfreeLarge(c)
      PROVE  IInv'
  BY <1>3, PfreeLargeInv
<1>4. CASE DestroyBegin
  BY <1>4, DestroyBeginInv
<1>5. CASE DestroyStep
  BY <1>5, DestroyLargeInv, DestroyTurnInv, DestroyBlockInv, NextBlockInv, DestroyEndInv
  DEF DestroyStep
<1>6. CASE UNCHANGED vars
  BY <1>6, StutterInv
<1>7. QED
  BY <1>1, <1>2, <1>3, <1>4, <1>5, <1>6 DEF Next

(* The inductive invariant holds of every state of the pool. *)
THEOREM PoolInvariant == Spec => []IInv
<1>1. Init => IInv
  BY InitInv
<1>2. IInv /\ [Next]_vars => IInv'
  BY NextInv
<1>3. QED
  BY <1>1, <1>2, PTL DEF Spec

(* Type correctness of the pool's variables. *)
THEOREM PoolTypeCorrect == Spec => []TypeOK
<1>1. IInv => TypeOK
  BY DEF IInv
<1>2. QED
  BY <1>1, PoolInvariant, PTL

(* Every object mem_palloc returns from a block, and every header of the   *)
(* large list, is aligned and lies inside its block.                       *)
THEOREM PoolInBounds == Spec => []InBounds
<1>1. IInv => InBounds
  BY DEF IInv
<1>2. QED
  BY <1>1, PoolInvariant, PTL

(* No two objects of the pool overlap, for any sequence of requests. *)
THEOREM PoolDisjoint == Spec => []Disjoint
<1>1. IInv => Disjoint
  BY DEF IInv
<1>2. QED
  BY <1>1, PoolInvariant, PTL

(* The live large chunks are exactly those of the large list. *)
THEOREM PoolChunksAccounted == Spec => []ChunksAccounted
<1>1. IInv => ChunksAccounted
  BY DEF IInv
<1>2. QED
  BY <1>1, PoolInvariant, PTL

(* mem_destroy_pool reads no block it has freed. *)
THEOREM PoolDestroySafe == Spec => []NoReadAfterFree
<1>1. IInv => NoReadAfterFree
  BY DEF IInv
<1>2. QED
  BY <1>1, PoolInvariant, PTL

(* When mem_destroy_pool returns, each block and chunk has been freed.     *)
THEOREM PoolLeaksNothing == Spec => []NothingLeaked
<1>1. IInv => NothingLeaked
  BY DEF IInv
<1>2. QED
  BY <1>1, PoolInvariant, PTL

-----------------------------------------------------------------------------
(* Objects stay where they are. *)

(* Carving fills one block further, or adds one, and moves no other.       *)
LEMMA CarveStable ==
  ASSUME IInv, status = "open",
         NEW size \in Nat, size <= PoolSize - HeaderSize,
         NEW r \in Slots(size), Obtainable(r), Carve(r)
  PROVE  Len(last) <= Len(last') /\ \A i \in DOMAIN last : last[i] <= last'[i]
<1>1. /\ r \in Regions /\ r.hi = r.lo + size
      /\ r.blk \in DOMAIN last => last[r.blk] <= r.lo
      /\ Len(last) <= Len(last') /\ last'[r.blk] = r.hi
      /\ \A i \in DOMAIN last : i # r.blk => last'[i] = last[i]
  BY CarveSound DEF IInv
<1>2. /\ r.lo \in Nat /\ r.hi \in Nat /\ \A i \in DOMAIN last : last[i] \in Nat
  BY <1>1 DEF Regions, IInv, TypeOK
<1>3. ASSUME NEW i \in DOMAIN last PROVE last[i] <= last'[i]
  BY <1>1, <1>2, <1>3
<1>4. QED
  BY <1>1, <1>3

LEMMA NextStable == IInv /\ [Next]_vars => StableStep
<1> SUFFICES ASSUME IInv, [Next]_vars, status = "open", status' = "open"
             PROVE  /\ given \subseteq given' /\ Len(last) <= Len(last')
                    /\ \A i \in DOMAIN last : last[i] <= last'[i]
  BY DEF StableStep
<1> USE PoolAssumption
<1>1. Len(last) \in Nat /\ \A i \in DOMAIN last : last[i] \in Nat
  BY DEF IInv, TypeOK
<1>2. ASSUME given' = given, last' = last
      PROVE  /\ given \subseteq given' /\ Len(last) <= Len(last')
             /\ \A i \in DOMAIN last : last[i] <= last'[i]
  BY <1>1, <1>2
<1>3. ASSUME NEW size \in Sizes, PallocSmall(size)
      PROVE  /\ given \subseteq given' /\ Len(last) <= Len(last')
             /\ \A i \in DOMAIN last : last[i] <= last'[i]
  <2>1. size \in Nat /\ size <= PoolSize - HeaderSize
    BY <1>3 DEF PallocSmall, IsSmall
  <2>2. PICK r \in Slots(size) : Obtainable(r) /\ Carve(r) /\ given' = given \cup {r}
    BY <1>3 DEF PallocSmall
  <2>3. QED
    BY <2>1, <2>2, CarveStable
<1>4. ASSUME NEW size \in Sizes, PallocLargeLink(size) \/ PallocLargeRefused(size)
      PROVE  /\ given \subseteq given' /\ Len(last) <= Len(last')
             /\ \A i \in DOMAIN last : last[i] <= last'[i]
  <2>1. LargeHdrSize \in Nat /\ LargeHdrSize <= PoolSize - HeaderSize
    OBVIOUS
  <2>2. PICK r \in Slots(LargeHdrSize) : Obtainable(r) /\ Carve(r)
    BY <1>4 DEF PallocLargeLink, PallocLargeRefused
  <2>3. given' = given
    BY <1>4 DEF PallocLargeLink, PallocLargeRefused
  <2>4. QED
    BY <2>1, <2>2, <2>3, CarveStable
<1>5. ASSUME NEW size \in Sizes, PallocLargeReuse(size)
      PROVE  given' = given /\ last' = last
  BY <1>5 DEF PallocLargeReuse
<1>6. ASSUME NEW c \in Chunks, PfreeLarge(c)
      PROVE  given' = given /\ last' = last
  BY <1>6 DEF PfreeLarge
<1>7. ~CreatePool /\ ~DestroyBegin /\ ~DestroyStep
  BY DEF CreatePool, DestroyBegin, DestroyStep, DestroyLarge, DestroyTurn,
         DestroyBlock, NextBlock, DestroyEnd
<1>8. CASE UNCHANGED vars
  BY <1>2, <1>8 DEF vars
<1>9. QED
  BY <1>2, <1>3, <1>4, <1>5, <1>6, <1>7, <1>8 DEF Next

(* While a pool is open no object leaves it, and no block gives back what  *)
(* it has given: ObjectsStable for any sequence of requests.               *)
THEOREM PoolObjectsStable == Spec => ObjectsStable
<1>1. IInv /\ [Next]_vars => [StableStep]_vars
  BY NextStable
<1>2. QED
  BY <1>1, PoolInvariant, PTL DEF Spec, ObjectsStable

-----------------------------------------------------------------------------
(* The contract. *)

(* What PoolContract calls separate: a chunk from everything else, and two *)
(* regions that share no byte.                                             *)
LEMMA ChunkSeparate ==
  ASSUME NEW c \in Chunks \ liveChunks, NEW p \in HeldObjects
  PROVE  Contract!Separate(ChunkObject(c), p)
<1>1. CASE p \in {BlockObject(s) : s \in given}
  BY <1>1 DEF Contract!Separate, ChunkObject, BlockObject
<1>2. CASE p \in {ChunkObject(d) : d \in liveChunks}
  BY <1>2 DEF Contract!Separate, ChunkObject
<1>3. QED
  BY <1>1, <1>2 DEF HeldObjects

LEMMA RegionSeparate ==
  ASSUME NEW r \in Regions, \A s \in given : Apart(r, s), NEW p \in HeldObjects
  PROVE  Contract!Separate(BlockObject(r), p)
<1>1. CASE p \in {BlockObject(s) : s \in given}
  BY <1>1 DEF Contract!Separate, BlockObject, Apart
<1>2. CASE p \in {ChunkObject(d) : d \in liveChunks}
  BY <1>2 DEF Contract!Separate, ChunkObject, BlockObject
<1>3. QED
  BY <1>1, <1>2 DEF HeldObjects

(* The variables of the contract, as MemPool's state gives them. *)
OpenBar == status = "open"
HeldBar == IF status = "open" THEN HeldObjects ELSE {}

LEMMA ContractInitially == Init => Contract!ContractInit
BY DEF Init, Contract!ContractInit

LEMMA CreateOpens ==
  ASSUME IInv, CreatePool
  PROVE  Contract!Open
<1>1. given = {} /\ liveChunks = {}
  BY DEF CreatePool, IInv, ChainSound, NothingLeaked
<1>2. HeldObjects' = {}
  BY <1>1 DEF CreatePool, HeldObjects
<1>3. QED
  BY <1>2 DEF CreatePool, Contract!Open

LEMMA SmallGrants ==
  ASSUME IInv, NEW size \in Sizes, PallocSmall(size)
  PROVE  Contract!Grant
<1> USE PoolAssumption
<1>1. /\ status = "open" /\ status' = "open" /\ liveChunks' = liveChunks
      /\ size \in Nat /\ size <= PoolSize - HeaderSize
  BY DEF PallocSmall, IsSmall
<1>2. PICK r \in Slots(size) : Obtainable(r) /\ Carve(r) /\ given' = given \cup {r}
  BY DEF PallocSmall
<1>3. r \in Regions
  BY <1>1, <1>2, CarveSound DEF IInv
<1>4. \A s \in given : Apart(r, s)
  BY <1>1, <1>2, CarveApart DEF Objects
<1>5. HeldObjects' = HeldObjects \cup {BlockObject(r)}
  BY <1>1, <1>2 DEF HeldObjects
<1>6. \A p \in HeldObjects : Contract!Separate(BlockObject(r), p)
  BY <1>3, <1>4, RegionSeparate
<1>7. QED
  BY <1>1, <1>5, <1>6 DEF Contract!Grant

LEMMA LargeGrants ==
  ASSUME IInv, NEW size \in Sizes, PallocLargeReuse(size) \/ PallocLargeLink(size)
  PROVE  Contract!Grant
<1>1. status = "open" /\ status' = "open" /\ given' = given
  BY DEF PallocLargeReuse, PallocLargeLink
<1>2. PICK c \in Chunks \ liveChunks : liveChunks' = liveChunks \cup {c}
  BY DEF PallocLargeReuse, PallocLargeLink
<1>3. HeldObjects' = HeldObjects \cup {ChunkObject(c)}
  BY <1>1, <1>2 DEF HeldObjects
<1>4. \A p \in HeldObjects : Contract!Separate(ChunkObject(c), p)
  BY ChunkSeparate
<1>5. QED
  BY <1>1, <1>3, <1>4 DEF Contract!Grant

LEMMA FreeReleases ==
  ASSUME IInv, NEW c \in Chunks, PfreeLarge(c)
  PROVE  Contract!Release
<1>1. /\ status = "open" /\ status' = "open" /\ given' = given
      /\ liveChunks' = liveChunks \ {c}
  BY DEF PfreeLarge
<1>2. c \in liveChunks
  <2>1. PICK i \in DOMAIN large : large[i].chunk = c
    BY DEF PfreeLarge
  <2>2. c # NULL
    BY PoolAssumption
  <2>3. QED
    BY <2>1, <2>2 DEF IInv, ChunksAccounted
<1>3. \A s \in given : BlockObject(s) # ChunkObject(c)
  BY DEF BlockObject, ChunkObject
<1>4. \A d \in liveChunks : ChunkObject(d) = ChunkObject(c) => d = c
  BY DEF ChunkObject
<1>5. HeldObjects' = HeldObjects \ {ChunkObject(c)}
  BY <1>1, <1>3, <1>4 DEF HeldObjects
<1>6. ChunkObject(c) \in HeldObjects
  BY <1>2 DEF HeldObjects
<1>7. QED
  BY <1>1, <1>5, <1>6 DEF Contract!Release

LEMMA NextKeepsContract ==
  IInv /\ [Next]_vars => [Contract!ContractNext]_<<OpenBar, HeldBar>>
<1> SUFFICES ASSUME IInv, [Next]_vars
             PROVE  \/ Contract!ContractNext
                    \/ OpenBar' = OpenBar /\ HeldBar' = HeldBar
  OBVIOUS
<1>1. CASE CreatePool
  BY <1>1, CreateOpens DEF Contract!ContractNext
<1>2. ASSUME NEW size \in Sizes,
             PallocSmall(size) \/ PallocLargeReuse(size) \/ PallocLargeLink(size)
      PROVE  Contract!ContractNext
  BY <1>2, SmallGrants, LargeGrants DEF Contract!ContractNext
<1>3. ASSUME NEW size \in Sizes, PallocLargeRefused(size)
      PROVE  OpenBar' = OpenBar /\ HeldBar' = HeldBar
  BY <1>3 DEF PallocLargeRefused, OpenBar, HeldBar, HeldObjects
<1>4. ASSUME NEW c \in Chunks, PfreeLarge(c)
      PROVE  Contract!ContractNext
  BY <1>4, FreeReleases DEF Contract!ContractNext
<1>5. CASE DestroyBegin
  BY <1>5 DEF DestroyBegin, Contract!ContractNext, Contract!Close
<1>6. CASE DestroyStep
  <2>1. status # "open" /\ status' # "open"
    BY <1>6 DEF DestroyStep, DestroyLarge, DestroyTurn, DestroyBlock, NextBlock, DestroyEnd
  <2>2. QED
    BY <2>1 DEF OpenBar, HeldBar
<1>7. CASE UNCHANGED vars
  BY <1>7 DEF vars, OpenBar, HeldBar, HeldObjects
<1>8. QED
  BY <1>1, <1>2, <1>3, <1>4, <1>5, <1>6, <1>7 DEF Next

(* The pool of mem_pool.c implements PoolContract: what it hands out is    *)
(* separate from everything still held, and closing takes all of it back.  *)
THEOREM PoolKeepsContract == Spec => KeepsContract
<1>1. Init => Contract!ContractInit
  BY ContractInitially
<1>2. IInv /\ [Next]_vars => [Contract!ContractNext]_(Contract!contractVars)
  BY NextKeepsContract DEF Contract!contractVars, OpenBar, HeldBar
<1>3. QED
  BY <1>1, <1>2, PoolInvariant, PTL DEF Spec, KeepsContract, Contract!ContractSpec
-----------------------------------------------------------------------------
(* The entries of the large list that mem_destroy_pool has not passed.     *)
ListLeft == IF cursor \in DOMAIN large THEN Len(large) + 1 - cursor ELSE 0

(* How much mem_destroy_pool still has before it: entries of the list, the *)
(* turn to the chain, and two steps for every block but the last.          *)
BlocksLeft == 2 * (Len(last) + 1 - cursor)

WalkLeft ==
  CASE status = "freeLarge"  -> ListLeft + 2 * Len(last) + 1
    [] status = "freeBlocks" -> BlocksLeft
    [] status = "nextBlock"  -> BlocksLeft - 1
    [] OTHER                 -> 0

(* Each step of mem_destroy_pool brings it nearer to its end, a natural    *)
(* number of steps away: its loops are finite for a list and a chain of    *)
(* any length.                                                             *)
THEOREM PoolDestroyDescends ==
  Spec => [][DestroyStep => WalkLeft \in Nat /\ WalkLeft' \in Nat /\ WalkLeft' < WalkLeft]_vars
<1> DEFINE Descends == WalkLeft \in Nat /\ WalkLeft' \in Nat /\ WalkLeft' < WalkLeft
<1>1. ASSUME IInv, DestroyStep
      PROVE  Descends
  <2>1. /\ Len(large) \in Nat /\ DOMAIN large = 1..Len(large)
        /\ Len(last) \in Nat /\ DOMAIN last = 1..Len(last)
        /\ cursor \in Nat
    BY <1>1 DEF IInv, TypeOK
  <2>2. CASE DestroyLarge
    <3>1. Len(large') = Len(large)
      BY <2>2, <1>1 DEF DestroyLarge, IInv, TypeOK
    <3>2. /\ DOMAIN large' = DOMAIN large /\ Len(large') \in Nat
          /\ ListLeft = Len(large) + 1 - cursor
      BY <2>1, <2>2 DEF DestroyLarge, ListLeft
    <3>3. ListLeft' \in Nat /\ ListLeft' < ListLeft /\ ListLeft \in Nat
      BY <2>1, <2>2, <3>1, <3>2 DEF DestroyLarge, ListLeft
    <3>4. /\ WalkLeft = ListLeft + 2 * Len(last) + 1
          /\ WalkLeft' = ListLeft' + 2 * Len(last) + 1
      BY <2>2 DEF DestroyLarge, WalkLeft
    <3> QED
      BY <2>1, <3>3, <3>4
  <2>3. CASE DestroyTurn
    <3>1. WalkLeft = 2 * Len(last) + 1
      BY <2>1, <2>3 DEF DestroyTurn, WalkLeft, ListLeft
    <3>2. WalkLeft' = 2 * Len(last)
      BY <2>1, <2>3 DEF DestroyTurn, WalkLeft, BlocksLeft
    <3> QED
      BY <2>1, <3>1, <3>2
  <2>4. CASE DestroyBlock
    <3>1. cursor \in 1..Len(last)
      BY <1>1, <2>1, <2>4 DEF DestroyBlock, IInv, WalkSound
    <3>2. WalkLeft = BlocksLeft /\ WalkLeft' = BlocksLeft - 1
      BY <2>4 DEF DestroyBlock, WalkLeft, BlocksLeft
    <3> QED
      BY <2>1, <3>1, <3>2 DEF BlocksLeft
  <2>5. CASE NextBlock
    <3>1. cursor \in Nat /\ cursor + 1 <= Len(last) /\ cursor' = cursor + 1
      <4>1. ahead = cursor + 1 /\ ahead \in ahead..Len(last)
        BY <1>1, <2>5 DEF NextBlock, IInv, WalkSound, NoReadAfterFree
      <4> QED
        BY <2>1, <2>5, <4>1 DEF NextBlock
    <3>2. WalkLeft = BlocksLeft - 1 /\ WalkLeft' = 2 * (Len(last) + 1 - (cursor + 1))
      BY <2>5, <3>1 DEF NextBlock, WalkLeft, BlocksLeft
    <3> QED
      BY <2>1, <3>1, <3>2 DEF BlocksLeft
  <2>6. CASE DestroyEnd
    <3>1. cursor \in 1..Len(last)
      BY <1>1, <2>1, <2>6 DEF DestroyEnd, IInv, WalkSound
    <3>2. WalkLeft = BlocksLeft /\ WalkLeft' = 0
      BY <2>6 DEF DestroyEnd, WalkLeft
    <3> QED
      BY <2>1, <3>1, <3>2 DEF BlocksLeft
  <2> QED
    BY <1>1, <2>2, <2>3, <2>4, <2>5, <2>6 DEF DestroyStep
<1>2. IInv /\ [Next]_vars => [DestroyStep => Descends]_vars
  BY <1>1
<1> QED
  BY <1>2, PoolInvariant, PTL DEF Spec
=============================================================================
