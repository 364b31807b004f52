---------------------------- MODULE PoolContract ----------------------------
(***************************************************************************)
(* What a memory pool promises its callers (the dissectors and the         *)
(* engine), whatever its insides: while the pool is open every object it   *)
(* returns shares no byte with an object still held; an object is held     *)
(* until its holder releases it or the pool is closed; closing takes       *)
(* everything back at once.  An object is a half-open byte range lo..hi-1  *)
(* of a base address.                                                      *)
(***************************************************************************)
EXTENDS Integers

VARIABLES
  open,   (* whether the pool may be used          *)
  held    (* the objects callers may read or write *)

contractVars == <<open, held>>

Separate(o, p) == o.base # p.base \/ o.hi <= p.lo \/ p.hi <= o.lo

ContractInit == open = FALSE /\ held = {}

Open == ~open /\ open' = TRUE /\ held' = {}

Grant ==
  /\ open /\ open' = TRUE
  /\ \E o \in held' : /\ held' = held \cup {o}
                      /\ \A p \in held : Separate(o, p)

Release ==
  /\ open /\ open' = TRUE
  /\ \E o \in held : held' = held \ {o}

Close == open /\ open' = FALSE /\ held' = {}

ContractNext == Open \/ Grant \/ Release \/ Close

ContractSpec == ContractInit /\ [][ContractNext]_contractVars
=============================================================================
