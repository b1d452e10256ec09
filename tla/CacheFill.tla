----------------------------- MODULE CacheFill -----------------------------
(***************************************************************************)
(* A caller of cache_mng.h that stores blocks in the caches itself, in the *)
(* order of the ways, while commands go on reading and writing.  A history *)
(* variable, which no guard reads, keeps which blocks a write has changed  *)
(* since a cache was flushed: cache_write looks at no copy of them.        *)
(***************************************************************************)
EXTENDS Cache

\* What cache_hit answers cannot be taken for no answer.
ASSUME FillAssumption == None \notin [hit_way : Nat, hit_index : Nat, p_line : Line]

VARIABLE changed   \* <<c, b>>: memory block b changed since c was flushed

fillVars == <<cache, mem, errno, call, code, out, changed>>

FillInit == Init /\ changed = {}

FirstFree(c, a, w) ==
  /\ w \in Way(c) => cache[c][LineIndex(c, a)][w].v = 0
  /\ \A x \in 0..w-1 : cache[c][LineIndex(c, a)][x].v = 1

FillStep ==
  \/ Next
  \/ \E c \in CACHES : CacheFlush(c)
  \/ \E c \in CACHES, a \in ADDRS : CacheHit(c, a)
  \/ \E c \in CACHES, a \in ADDRS : \E w \in 0..WAYS[c] :
       FirstFree(c, a, w) /\ CacheInsert(c, a, w)

Remember ==
  changed' = {p \in changed : ~(call'.op = "flush" /\ call'.cache = p[1])}
             \cup CACHES \X {b \in Block : mem'[b] # mem[b]}

FillNext == FillStep /\ Remember

FillSpec == FillInit /\ [][FillNext]_fillVars

-----------------------------------------------------------------------------
(***************************************************************************)
(* A line that cache_hit finds is the line memory holds at the address,    *)
(* unless a write has changed that line of memory since the cache was      *)
(* flushed (cache_write updates memory and leaves every copy as it is).    *)
(***************************************************************************)
HitCoherent ==
  call.op = "hit" /\ out # None =>
    \/ out.p_line = mem[BlockOf(call.addr)]
    \/ <<call.cache, BlockOf(call.addr)>> \in changed

=============================================================================
