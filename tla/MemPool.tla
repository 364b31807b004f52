------------------------------- MODULE MemPool -------------------------------
(***************************************************************************)
(* The memory pool of memory_pool/mem_pool.c.                              *)
(*                                                                         *)
(* A pool is a chain of equally sized malloc'd blocks, each beginning with *)
(* a header and filled upwards from `last`, and a list of large chunks     *)
(* obtained from malloc one by one, whose list headers are themselves      *)
(* small objects of the pool.  The block chain and the large list are      *)
(* sequences here, in link order; an address is a block and an offset.     *)
(* malloc is the environment: it may refuse any request, it never returns  *)
(* a chunk that is still live, and it aligns what it returns.              *)
(*                                                                         *)
(* A call that returns NULL and changes nothing is a stuttering step.      *)
(***************************************************************************)
EXTENDS Integers, Sequences, FiniteSets

CONSTANTS
  PoolSize,     (* size passed to mem_create_pool                          *)
  HeaderSize,   (* sizeof(mem_pool_t)                                      *)
  LargeHdrSize, (* sizeof(mem_pool_large_t)                                *)
  PageSize,     (* mem_pagesize                                            *)
  Word,         (* 2^w, w the width of size_t                              *)
  Sizes,        (* the sizes callers ask mem_palloc for                    *)
  Chunks,       (* the large chunks malloc can hand out                    *)
  MaxBlocks,    (* how many blocks malloc can hand out: bounds the model   *)
  NULL

Align == 8      (* sizeof(unsigned long) *)

(***************************************************************************)
(* Every caller passes MEM_DEFAULT_POOL_SIZE, a multiple of the alignment  *)
(* with room for a header and a large list header.                         *)
(***************************************************************************)
ASSUME PoolAssumption ==
  /\ PoolSize \in Nat /\ PoolSize % Align = 0
  /\ HeaderSize \in Nat /\ HeaderSize % Align = 0
  /\ LargeHdrSize \in Nat \ {0} /\ HeaderSize + LargeHdrSize <= PoolSize
  /\ PageSize \in Nat /\ LargeHdrSize < PageSize
  /\ Word \in Nat /\ PoolSize < Word
  /\ Sizes \subseteq Nat
  /\ MaxBlocks \in Nat \ {0}
  /\ NULL \notin Chunks

VARIABLES
  status,     (* "none", "open", or where mem_destroy_pool is              *)
  last,       (* last[i]: the `last` offset of the i-th block of the chain *)
  large,      (* the large list: header region and chunk of each entry     *)
  given,      (* regions of the blocks returned to callers                 *)
  orphans,    (* list headers carved from a block but never linked         *)
  liveBlocks, (* the blocks malloc'd and not yet freed                     *)
  liveChunks, (* the large chunks malloc'd and not yet freed               *)
  cursor,     (* the position of mem_destroy_pool's loop                   *)
  ahead       (* its n: the position of the block after it, 0 for NULL     *)

vars == <<status, last, large, given, orphans, liveBlocks, liveChunks, cursor, ahead>>

-----------------------------------------------------------------------------
(* mem_align: the next multiple of the alignment. *)
AlignUp(x) == ((x + (Align - 1)) \div Align) * Align

Region(b, lo, size) == [blk |-> b, lo |-> lo, hi |-> lo + size]

(* Mutant: the room is measured from `last` before it is aligned. *)
FitsUnaligned(i, size) == (PoolSize - last[i]) % Word >= size

(* (size_t)(p->end - m) >= size: the difference is taken modulo Word. *)
Fits(i, size) == (PoolSize - AlignUp(last[i])) % Word >= size

(* The test that sends a request to the blocks and not to malloc. *)
IsSmall(size) == size <= PageSize - 1 /\ size <= PoolSize - HeaderSize

(***************************************************************************)
(* The walk of the chain: the region lies in the first block with room, or *)
(* at the start of a new block after the last one.  The set is a           *)
(* singleton.                                                              *)
(***************************************************************************)
Slots(size) ==
  LET fitting == {i \in DOMAIN last : Fits(i, size)}
  IN  IF fitting # {}
      THEN {Region(i, AlignUp(last[i]), size) :
              i \in {j \in fitting : \A k \in fitting : j <= k}}
      ELSE {Region(Len(last) + 1, HeaderSize, size)}

(* Mutant: the result of mem_create_pool is not tested. *)
ObtainableUntested(r) == TRUE

(* A region beyond the chain needs a block that malloc may refuse. *)
Obtainable(r) == r.blk <= MaxBlocks

(* Mutants: a new block's `last` is not moved past the object; a new block *)
(* replaces the chain; `last` is set to the object's start.                *)
CarvedUnmoved(r) == IF r.blk \in DOMAIN last
                    THEN [last EXCEPT ![r.blk] = r.hi]
                    ELSE Append(last, HeaderSize)
CarvedUnlinked(r) == IF r.blk \in DOMAIN last
                     THEN [last EXCEPT ![r.blk] = r.hi]
                     ELSE <<r.hi>>
CarvedAtStart(r) == IF r.blk \in DOMAIN last
                    THEN [last EXCEPT ![r.blk] = r.lo]
                    ELSE Append(last, r.hi)

(* `last` of the chain once r is carved out of it. *)
Carved(r) == IF r.blk \in DOMAIN last
             THEN [last EXCEPT ![r.blk] = r.hi]
             ELSE Append(last, r.hi)

Carve(r) == /\ last' = Carved(r)
            /\ liveBlocks' = IF r.blk \in DOMAIN last
                             THEN liveBlocks
                             ELSE liveBlocks \cup {r.blk}

-----------------------------------------------------------------------------
Init ==
  /\ status = "none"
  /\ last = <<>>
  /\ large = <<>>
  /\ given = {}
  /\ orphans = {}
  /\ liveBlocks = {}
  /\ liveChunks = {}
  /\ cursor = 0
  /\ ahead = 0

(* mem_create_pool: one block, holding nothing but its header. *)
CreatePool ==
  /\ status = "none"
  /\ status' = "open"
  /\ last' = <<HeaderSize>>
  /\ liveBlocks' = liveBlocks \cup {1}
  /\ UNCHANGED <<large, given, orphans, liveChunks, cursor, ahead>>

(* mem_palloc of a size that a block can hold. *)
PallocSmall(size) ==
  /\ status = "open"
  /\ IsSmall(size)
  /\ \E r \in Slots(size) :
       /\ Obtainable(r)
       /\ Carve(r)
       /\ given' = given \cup {r}
  /\ UNCHANGED <<status, large, orphans, liveChunks, cursor, ahead>>

(* Mutant: the first entry is taken whether or not its chunk was freed. *)
VacantOrNot(i) == i = 1

(* The first entry of the large list whose chunk was freed. *)
Vacant(i) == /\ large[i].chunk = NULL
             /\ \A j \in 1..(i - 1) : large[j].chunk # NULL

NoVacancy == \A i \in DOMAIN large : large[i].chunk # NULL

(* mem_palloc of a larger size, reusing the list entry of a freed chunk. *)
PallocLargeReuse(size) ==
  /\ status = "open"
  /\ ~IsSmall(size)
  /\ \E i \in DOMAIN large, c \in Chunks \ liveChunks :
       /\ Vacant(i)
       /\ large' = [large EXCEPT ![i].chunk = c]
       /\ liveChunks' = liveChunks \cup {c}
  /\ UNCHANGED <<status, last, given, orphans, liveBlocks, cursor, ahead>>

(* mem_palloc of a larger size, with a new list entry carved from a block. *)
PallocLargeLink(size) ==
  /\ status = "open"
  /\ ~IsSmall(size)
  /\ NoVacancy
  /\ \E r \in Slots(LargeHdrSize), c \in Chunks \ liveChunks :
       /\ Obtainable(r)
       /\ Carve(r)
       /\ large' = Append(large, [hdr |-> r, chunk |-> c])
       /\ liveChunks' = liveChunks \cup {c}
  /\ UNCHANGED <<status, given, orphans, cursor, ahead>>

(* The same call when malloc refuses the chunk: the new list entry has     *)
(* been carved, is not linked, and stays in its block until the end.       *)
PallocLargeRefused(size) ==
  /\ status = "open"
  /\ ~IsSmall(size)
  /\ NoVacancy
  /\ \E r \in Slots(LargeHdrSize) :
       /\ Obtainable(r)
       /\ Carve(r)
       /\ orphans' = orphans \cup {r}
  /\ UNCHANGED <<status, large, given, liveChunks, cursor, ahead>>

(* mem_pfree_large: frees the chunk, keeps the entry for a later request. *)
PfreeLarge(c) ==
  /\ status = "open"
  /\ \E i \in DOMAIN large :
       /\ large[i].chunk = c
       /\ \A j \in 1..(i - 1) : large[j].chunk # c
       /\ large' = [large EXCEPT ![i].chunk = NULL]
  /\ liveChunks' = liveChunks \ {c}
  /\ UNCHANGED <<status, last, given, orphans, liveBlocks, cursor, ahead>>

-----------------------------------------------------------------------------
(* mem_destroy_pool walks the large list, then the block chain, and frees  *)
(* as it goes; each iteration reads list and block headers.                *)

(* The `next` of a block, which may be anything once the block is freed.   *)
NextOf(b) == IF b \in liveBlocks
             THEN {IF b < Len(last) THEN b + 1 ELSE 0}
             ELSE 0..Len(last)

(* Mutants: the walk of the large list starts at its second entry, does    *)
(* not advance; the walk of the blocks looks for the next one in the block *)
(* it has just freed.                                                      *)
DestroyBeginLate ==
  /\ status = "open"
  /\ status' = "freeLarge"
  /\ cursor' = 2
  /\ UNCHANGED <<last, large, given, orphans, liveBlocks, liveChunks, ahead>>

DestroyLargeStuck ==
  /\ status = "freeLarge"
  /\ cursor \in DOMAIN large
  /\ large' = [large EXCEPT ![cursor].chunk = NULL]
  /\ liveChunks' = liveChunks \ {large[cursor].chunk}
  /\ UNCHANGED <<status, last, given, orphans, liveBlocks, cursor, ahead>>

NextBlockLate ==
  /\ status = "nextBlock"
  /\ status' = "freeBlocks"
  /\ \E b \in NextOf(cursor) \ {0} : cursor' = b /\ ahead' \in NextOf(b)
  /\ UNCHANGED <<last, large, given, orphans, liveBlocks, liveChunks>>

DestroyBegin ==
  /\ status = "open"
  /\ status' = "freeLarge"
  /\ cursor' = 1
  /\ UNCHANGED <<last, large, given, orphans, liveBlocks, liveChunks, ahead>>

DestroyLarge ==
  /\ status = "freeLarge"
  /\ cursor \in DOMAIN large
  /\ large' = [large EXCEPT ![cursor].chunk = NULL]
  /\ liveChunks' = liveChunks \ {large[cursor].chunk}
  /\ cursor' = cursor + 1
  /\ UNCHANGED <<status, last, given, orphans, liveBlocks, ahead>>

(* p = pool, n = pool->next *)
DestroyTurn ==
  /\ status = "freeLarge"
  /\ cursor \notin DOMAIN large
  /\ status' = "freeBlocks"
  /\ cursor' = 1
  /\ ahead' \in NextOf(1)
  /\ UNCHANGED <<last, large, given, orphans, liveBlocks, liveChunks>>

(* free(p), with a block after it. *)
DestroyBlock ==
  /\ status = "freeBlocks"
  /\ ahead # 0
  /\ status' = "nextBlock"
  /\ liveBlocks' = liveBlocks \ {cursor}
  /\ UNCHANGED <<last, large, given, orphans, liveChunks, cursor, ahead>>

(* p = n, n = n->next *)
NextBlock ==
  /\ status = "nextBlock"
  /\ status' = "freeBlocks"
  /\ cursor' = ahead
  /\ ahead' \in NextOf(ahead)
  /\ UNCHANGED <<last, large, given, orphans, liveBlocks, liveChunks>>

(* free(p) and no block after it: the loop ends and with it every pointer  *)
(* into the pool is dead.                                                  *)
DestroyEnd ==
  /\ status = "freeBlocks"
  /\ ahead = 0
  /\ liveBlocks' = liveBlocks \ {cursor}
  /\ status' = "none"
  /\ last' = <<>>
  /\ large' = <<>>
  /\ given' = {}
  /\ orphans' = {}
  /\ cursor' = 0
  /\ UNCHANGED <<liveChunks, ahead>>

DestroyStep ==
  DestroyLarge \/ DestroyTurn \/ DestroyBlock \/ NextBlock \/ DestroyEnd

Next ==
  \/ CreatePool
  \/ \E size \in Sizes : \/ PallocSmall(size)
                         \/ PallocLargeReuse(size)
                         \/ PallocLargeLink(size)
                         \/ PallocLargeRefused(size)
  \/ \E c \in Chunks : PfreeLarge(c)
  \/ DestroyBegin
  \/ DestroyStep

(* mem_destroy_pool is called and returns: its loops are fair. *)
Spec == Init /\ [][Next]_vars /\ WF_vars(DestroyStep)

-----------------------------------------------------------------------------
Regions == [blk : Nat, lo : Nat, hi : Nat]

(* The shape of every variable: the chain and the list are sequences, the  *)
(* regions have natural bounds and a list entry holds a chunk or NULL.     *)
TypeOK ==
  /\ status \in {"none", "open", "freeLarge", "freeBlocks", "nextBlock"}
  /\ last \in Seq(Nat)
  /\ large \in Seq([hdr : Regions, chunk : Chunks \cup {NULL}])
  /\ given \in SUBSET Regions
  /\ orphans \in SUBSET Regions
  /\ liveBlocks \in SUBSET (1..MaxBlocks)
  /\ liveChunks \in SUBSET Chunks
  /\ cursor \in Nat /\ ahead \in Nat

Headers == {large[i].hdr : i \in DOMAIN large} \cup orphans
Objects == given \cup Headers

(* Every object mem_palloc carves from a block, list headers included, is  *)
(* aligned and lies after the block's header and before `last`, which      *)
(* itself never passes the block's end.                                    *)
InBounds ==
  \A r \in Objects :
    /\ r.blk \in DOMAIN last
    /\ HeaderSize <= r.lo /\ r.lo <= r.hi
    /\ r.hi <= last[r.blk] /\ last[r.blk] <= PoolSize
    /\ r.lo % Align = 0

Apart(r, s) == r.blk # s.blk \/ r.hi <= s.lo \/ s.hi <= r.lo

(* No two objects of the pool share a byte: neither two objects of callers *)
(* nor an object and a header of the large list.                           *)
Disjoint ==
  /\ \A r, s \in Objects : r # s => Apart(r, s)
  /\ given \cap Headers = {}
  /\ \A i \in DOMAIN large :
       /\ large[i].hdr \notin orphans
       /\ \A j \in DOMAIN large : i # j => Apart(large[i].hdr, large[j].hdr)

(* Exactly the chunks the large list reaches are live, each through one    *)
(* entry: none is lost on a failed or reused allocation, none is freed     *)
(* while it is still in use.                                               *)
ChunksAccounted ==
  /\ liveChunks = {large[i].chunk : i \in DOMAIN large} \ {NULL}
  /\ \A i, j \in DOMAIN large :
       large[i].chunk = large[j].chunk => i = j \/ large[i].chunk = NULL

(* The blocks mem_destroy_pool will still read are not yet freed: the      *)
(* whole chain while the large list (which lives in it) is in use, the     *)
(* rest of the chain from the loop's position on, and between the free of  *)
(* a block and the step to the next the rest of the chain from that one.   *)
NoReadAfterFree ==
  /\ status \in {"open", "freeLarge"} => liveBlocks = DOMAIN last
  /\ status = "freeBlocks" => liveBlocks = cursor..Len(last)
  /\ status = "nextBlock" => ahead \in liveBlocks /\ liveBlocks = ahead..Len(last)

(* Once mem_destroy_pool has returned, malloc has got everything back.     *)
NothingLeaked == status = "none" => liveBlocks = {} /\ liveChunks = {}

(* mem_palloc and mem_pfree_large never move, shrink or drop an object     *)
(* handed out earlier, nor give memory back to a block.                    *)
StableStep ==
  status = "open" /\ status' = "open" =>
    /\ given \subseteq given'
    /\ Len(last) <= Len(last')
    /\ \A i \in DOMAIN last : last[i] <= last'[i]

(* Every step is a stable one: what is in use stays as it is. *)
ObjectsStable == [][StableStep]_vars

(* mem_destroy_pool terminates. *)
DestroyReturns == status = "freeLarge" ~> status = "none"

-----------------------------------------------------------------------------
(* What the invariants above rest on: every block is filled to a point     *)
(* between its header and its end, a list header is not empty, a pool in   *)
(* use has a block and no pool has nothing; mem_destroy_pool's loop has    *)
(* dealt with what it has passed.                                          *)
ChainSound ==
  /\ \A i \in DOMAIN last : HeaderSize <= last[i] /\ last[i] <= PoolSize
  /\ \A h \in Headers : h.lo < h.hi
  /\ status # "none" => Len(last) > 0
  /\ status = "none" => last = <<>> /\ large = <<>> /\ given = {} /\ orphans = {}

WalkSound ==
  /\ status = "freeLarge" =>
       cursor > 0 /\ \A i \in DOMAIN large : i < cursor => large[i].chunk = NULL
  /\ status = "freeBlocks" =>
       cursor \in DOMAIN last /\ ahead = IF cursor < Len(last) THEN cursor + 1 ELSE 0
  /\ status = "nextBlock" => cursor > 0 /\ ahead = cursor + 1
  /\ status \in {"freeBlocks", "nextBlock"} => \A i \in DOMAIN large : large[i].chunk = NULL

(* The inductive invariant. *)
IInv == /\ TypeOK /\ InBounds /\ Disjoint /\ ChunksAccounted
        /\ NoReadAfterFree /\ NothingLeaked /\ ChainSound /\ WalkSound

-----------------------------------------------------------------------------
(* The objects callers hold: what lies in the blocks, less the headers of  *)
(* the large list, and the live large chunks, each of which has an address *)
(* range of its own.                                                       *)
BlockObject(r) == [base |-> <<"block", r.blk>>, lo |-> r.lo, hi |-> r.hi]
ChunkObject(c) == [base |-> <<"chunk", c>>, lo |-> 0, hi |-> 1]

HeldObjects == {BlockObject(r) : r \in given} \cup {ChunkObject(c) : c \in liveChunks}

(* The moment mem_destroy_pool is entered the caller holds nothing.        *)
Contract == INSTANCE PoolContract
              WITH open <- (status = "open"),
                   held <- (IF status = "open" THEN HeldObjects ELSE {})

(* The pool of mem_pool.c keeps the contract, through reuse of list        *)
(* entries, refusals by malloc and the walk of mem_destroy_pool.           *)
KeepsContract == Contract!ContractSpec
=============================================================================
