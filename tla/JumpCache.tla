------------------------------ MODULE JumpCache ------------------------------
(***************************************************************************)
(* The memory a statement must not lose when a signal leaves it with a     *)
(* long jump: sjb_cache in sqlerr.c and those who use it, the buffers of   *)
(* SELECT, LOAD and UNLOAD (MALLOC, jb_register, ..., jb_unregister, FREE) *)
(* and the growing blocks of memory.c (jb_unregister, REALLOC,             *)
(* jb_register).  A jump loses the local variables that hold the addresses;*)
(* sql_interactive, or sql_exit, then frees what is in the cache.          *)
(*                                                                         *)
(* A call that moves entries of the cache takes several steps, and so do   *)
(* the pairs of an allocation and its registration.  SignalInCache says    *)
(* whether a signal may also come between the steps of jb_register and     *)
(* jb_unregister themselves.                                               *)
(* The names differ from those of Session: Session_proofs has both.        *)
(***************************************************************************)
EXTENDS Integers, FiniteSets

CONSTANTS Blocks,         \* addresses malloc can return
          Null,           \* what an unused cell of the static array holds
          Junk,           \* the word past the end of sjb_cache
          CacheSize,      \* CACHESIZE
          MaxSignals,     \* bound: signals
          SignalInCache

ASSUME JumpCacheAssumption ==
  /\ CacheSize \in Nat \ {0}
  /\ MaxSignals \in Nat
  /\ Null \notin Blocks /\ Junk \notin Blocks /\ Null # Junk
  /\ SignalInCache \in BOOLEAN

VARIABLES cache,    \* sjb_cache[0..CACHESIZE-1] and the word after it
          sp,       \* sjb_sp
          heap,     \* blocks malloc has given out
          held,     \* blocks whose address a local variable holds
          doing,    \* what the program is doing
          block,    \* the argument of the call it is in
          pos,      \* i of jb_unregister
          then,     \* what follows jb_unregister: FREE or REALLOC
          faults,   \* history: blocks freed that were not allocated
          signals   \* signals so far

cacheVars == <<cache, sp, heap, held, doing, block, pos, then, faults, signals>>

Addresses == Blocks \cup {Null, Junk}
Registered == {cache[i] : i \in 0..sp-1}

CacheInit ==
  /\ cache = [i \in 0..CacheSize |-> IF i < CacheSize THEN Null ELSE Junk] /\ sp = 0
  /\ heap = {} /\ held = {}
  /\ doing = "idle" /\ block = Null /\ pos = 0 /\ then = "free"
  /\ faults = {} /\ signals = 0

(* MALLOC, by outbyte, sql_select, reload or mem_new. *)
Allocate(b) ==
  /\ doing = "idle" /\ b \notin heap
  /\ heap' = heap \cup {b} /\ block' = b /\ doing' = "register"
  /\ UNCHANGED <<cache, sp, held, pos, then, faults, signals>>

(* jb_register: the entry is stored and the count increased, in either order. *)
StoreEntry ==
  /\ doing = "register" /\ sp < CacheSize
  /\ cache' = [cache EXCEPT ![sp] = block] /\ doing' = "count"
  /\ UNCHANGED <<sp, heap, held, block, pos, then, faults, signals>>

CountEntry ==
  /\ doing = "count"
  /\ sp' = sp + 1 /\ held' = held \cup {block} /\ doing' = "idle"
  /\ UNCHANGED <<cache, heap, block, pos, then, faults, signals>>

CountFirst ==
  /\ doing = "register" /\ sp < CacheSize
  /\ sp' = sp + 1 /\ doing' = "store"
  /\ UNCHANGED <<cache, heap, held, block, pos, then, faults, signals>>

StoreCounted ==
  /\ doing = "store"
  /\ cache' = [cache EXCEPT ![sp - 1] = block]
  /\ held' = held \cup {block} /\ doing' = "idle"
  /\ UNCHANGED <<sp, heap, block, pos, then, faults, signals>>

(* A full cache is an internal error, and SQLCMD aborts. *)
Overflow ==
  /\ doing = "register" /\ sp >= CacheSize /\ doing' = "aborted"
  /\ UNCHANGED <<cache, sp, heap, held, block, pos, then, faults, signals>>

(* Mutant: the block that is released stays in the cache. *)
ReleaseKept(b, next) ==
  /\ doing = "idle" /\ b \in held
  /\ held' = held \ {b} /\ block' = b /\ then' = next /\ doing' = next
  /\ UNCHANGED <<cache, sp, heap, pos, faults, signals>>

(* The call of jb_unregister in mem_add, mem_del, free_blobs, outbyte...: the search. *)
Release(b, next) ==
  /\ doing = "idle" /\ b \in held
  /\ held' = held \ {b} /\ block' = b /\ then' = next
  /\ IF b \in Registered
     THEN /\ pos' = CHOOSE i \in 0..sp-1 :
                      cache[i] = b /\ \A j \in 0..i-1 : cache[j] # b
          /\ doing' = "shift"
     ELSE doing' = "aborted" /\ UNCHANGED pos
  /\ UNCHANGED <<cache, sp, heap, faults, signals>>

(* Mutant: the entries above are not moved down. *)
NoShift ==
  /\ doing = "shift" /\ pos < sp
  /\ pos' = sp
  /\ UNCHANGED <<cache, sp, heap, held, doing, block, then, faults, signals>>

(* The inner loop of jb_unregister: cell sp - 1 is given the word after the  *)
(* last entry, which for a full cache is the word after the array.           *)
Shift ==
  /\ doing = "shift" /\ pos < sp
  /\ cache' = [cache EXCEPT ![pos] = cache[pos + 1]] /\ pos' = pos + 1
  /\ UNCHANGED <<sp, heap, held, doing, block, then, faults, signals>>

Uncount ==
  /\ doing = "shift" /\ pos = sp
  /\ sp' = sp - 1 /\ doing' = then
  /\ UNCHANGED <<cache, heap, held, block, pos, then, faults, signals>>

(* efree ignores a null pointer; any other address must be a block in use. *)
Freed ==
  /\ heap' = heap \ {block}
  /\ faults' = IF block \in heap \cup {Null} THEN faults ELSE faults \cup {block}

(* FREE after jb_unregister. *)
Free ==
  /\ doing = "free" /\ Freed /\ doing' = "idle"
  /\ UNCHANGED <<cache, sp, held, block, pos, then, signals>>

(* REALLOC in mem_add and mem_addstr: the block may move, and is registered. *)
Grow(b) ==
  /\ doing = "grow" /\ b \in (Blocks \ heap) \cup {block}
  /\ faults' = IF block \in heap THEN faults ELSE faults \cup {block}
  /\ heap' = (heap \ {block}) \cup {b} /\ block' = b /\ doing' = "register"
  /\ UNCHANGED <<cache, sp, held, pos, then, signals>>

InCache == doing \in {"count", "store", "shift"}

(* SIGINT: sig_continue jumps, and jb_release starts; local variables are lost. *)
Signal ==
  /\ doing # "aborted" /\ signals < MaxSignals
  /\ InCache => SignalInCache
  /\ signals' = signals + 1 /\ held' = {} /\ doing' = "release"
  /\ UNCHANGED <<cache, sp, heap, block, pos, then, faults>>

(* Mutant: the entry stays counted until its memory has been freed. *)
ReleaseUncounted ==
  /\ doing = "release" /\ sp > 0
  /\ block' = cache[sp - 1] /\ doing' = "drop"
  /\ UNCHANGED <<cache, sp, heap, held, pos, then, faults, signals>>

(* jb_release: FREE(sjb_cache[--sp]), the count first. *)
ReleaseNext ==
  /\ doing = "release" /\ sp > 0
  /\ sp' = sp - 1 /\ block' = cache[sp - 1] /\ doing' = "drop"
  /\ UNCHANGED <<cache, heap, held, pos, then, faults, signals>>

Drop ==
  /\ doing = "drop" /\ Freed /\ doing' = "release"
  /\ UNCHANGED <<cache, sp, held, block, pos, then, signals>>

ReleaseDone ==
  /\ doing = "release" /\ sp = 0 /\ doing' = "idle"
  /\ UNCHANGED <<cache, sp, heap, held, block, pos, then, faults, signals>>

(* abort() ends the process. *)
Aborted == doing = "aborted" /\ UNCHANGED cacheVars

Cleanup == ReleaseNext \/ Drop \/ ReleaseDone
CacheNext ==
  \/ \E b \in Blocks : Allocate(b) \/ Release(b, "free") \/ Release(b, "grow") \/ Grow(b)
  \/ StoreEntry \/ CountEntry \/ CountFirst \/ StoreCounted \/ Overflow
  \/ Shift \/ Uncount \/ Free \/ Signal \/ Cleanup \/ Aborted

CacheSpec == CacheInit /\ [][CacheNext]_cacheVars
CacheFairSpec == CacheSpec /\ WF_cacheVars(Cleanup)

(* The address in the hand of the call the program is in. *)
InHand == IF doing \in {"idle", "release"} THEN {} ELSE {block}

CacheTypeOK ==
  /\ cache \in [0..CacheSize -> Addresses] /\ sp \in 0..CacheSize
  /\ heap \in SUBSET Blocks /\ held \in SUBSET Blocks /\ faults \in SUBSET Addresses
  /\ doing \in {"idle", "register", "count", "store", "shift", "free", "grow",
             "release", "drop", "aborted"}
  /\ then \in {"free", "grow"} /\ block \in Addresses
  /\ pos \in 0..CacheSize /\ signals \in 0..MaxSignals

(* jb_release and FREE after jb_unregister never free a block twice, nor a   *)
(* word that is not a block, in any order of calls and jumps: an entry of    *)
(* the cache is removed before its memory is freed or moved.                 *)
NoDoubleFree == faults = {}

(* A jump loses at most the one block between its allocation and its         *)
(* registration, or between its removal from the cache and FREE.             *)
OneLossPerSignal == Cardinality(heap \ (Registered \cup InHand)) <= signals

(* A block whose address a statement still holds is in the cache, so a jump  *)
(* gives it back, and jb_unregister never aborts because it is missing.      *)
HeldIsRegistered == held \subseteq Registered

(* What survives a jump: all that is held, and all else but one block for    *)
(* each signal.                                                              *)
SurvivesJump == HeldIsRegistered /\ OneLossPerSignal

(* Unless another signal comes, what was registered when the program jumped  *)
(* is given back: jb_release ends with an empty cache.                       *)
CacheEmptied == doing = "release" ~> sp = 0
=============================================================================
