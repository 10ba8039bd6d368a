------------------------------ MODULE GStackPool ------------------------------
(***************************************************************************)
(* The growable build of the stack pool (stack_pool.h, USE_GSTACK, the     *)
(* build the lexa driver always asks for): stacks are libmprompt gstacks,  *)
(* each with its mp_gstack_t header in the gap at its base; free ones are  *)
(* kept in a list threaded through the headers' `next' fields, of at most  *)
(* CACHE_MAX_SIZE, and the rest go back to libmprompt.                     *)
(*                                                                         *)
(* libmprompt is external.  It is modelled by what stack_pool.h relies on: *)
(* a gstack freed with `delay' stays mapped until the next allocation,     *)
(* which moves the delayed ones to its own cache or unmaps them; an        *)
(* allocation that finds its cache empty may fail, which get_stack passes  *)
(* on and dup_stack does not notice.                                       *)
(***************************************************************************)
EXTENDS Naturals, FiniteSets

CONSTANTS
  GStacks,          \* the gstacks there is address space for
  NULL,
  CACHE_MAX_SIZE,   \* of the free list of stack_pool.h
  MpCacheMax        \* os_gstack_cache_max_count

ASSUME GAssumption ==
  /\ IsFiniteSet(GStacks)
  /\ NULL \notin GStacks
  /\ CACHE_MAX_SIZE \in Nat \ {0}
  /\ MpCacheMax \in Nat

VARIABLES
  cache,        \* head of the free list
  cache_size,
  next,         \* the `next' field of each header
  result,       \* what get_stack returned last
  faulted,      \* the program was stopped by a memory fault
  inUse,        \* client: the stacks the runtime holds
  delayed,      \* libmprompt: freed, to be dealt with at the next allocation
  mpCache,      \* libmprompt: its cache of mapped gstacks
  mapped        \* libmprompt: the gstacks whose memory is mapped

mpVars == <<delayed, mpCache, mapped>>
vars == <<cache, cache_size, next, result, faulted, inUse, mpVars>>

Init ==
  /\ cache = NULL
  /\ cache_size = 0
  /\ next = [g \in GStacks |-> NULL]
  /\ result = NULL
  /\ faulted = FALSE
  /\ inUse = {}
  /\ delayed = {} /\ mpCache = {} /\ mapped = {}

-----------------------------------------------------------------------------
(***************************************************************************)
(* libmprompt                                                              *)
(***************************************************************************)
\* mp_gstack_alloc: the delayed gstacks fill the cache (`kept') or are unmapped;
\* then g comes from the cache or, when that is empty, is mapped afresh, or there
\* is no memory for it and g is NULL.
mp_gstack_alloc(g) ==
  \E kept \in SUBSET delayed :
    LET cached == mpCache \cup kept
        still == mapped \ (delayed \ kept)
    IN /\ Cardinality(cached) <= MpCacheMax
       /\ kept = delayed \/ Cardinality(cached) = MpCacheMax
       /\ delayed' = {}
       /\ \/ /\ g \in IF cached # {} THEN cached ELSE GStacks \ still
             /\ mpCache' = cached \ {g}
             /\ mapped' = still \cup {g}
             /\ next' = [next EXCEPT ![g] = NULL]
          \/ /\ g = NULL /\ cached = {}
             /\ mpCache' = {} /\ mapped' = still
             /\ UNCHANGED next

\* Mutant of mp_gstack_free: not delayed, so cached or unmapped at once.
mp_gstack_free_now(g) ==
  IF Cardinality(mpCache) < MpCacheMax
  THEN mpCache' = mpCache \cup {g} /\ UNCHANGED <<delayed, mapped>>
  ELSE mapped' = mapped \ {g} /\ UNCHANGED <<delayed, mpCache>>

\* mp_gstack_free with `delay' set, as free_stack calls it.
mp_gstack_free(g) == delayed' = delayed \cup {g} /\ UNCHANGED <<mpCache, mapped>>

-----------------------------------------------------------------------------
(***************************************************************************)
(* stack_pool.h                                                            *)
(***************************************************************************)
\* Mutants of TakeFrom: the list is not advanced; the count is not decremented.
TakeFromStay(g) ==
  IF cache # NULL
  THEN /\ g = cache
       /\ cache' = cache
       /\ cache_size' = cache_size - 1
       /\ UNCHANGED <<next, mpVars>>
  ELSE mp_gstack_alloc(g) /\ UNCHANGED <<cache, cache_size>>
TakeFromNoCount(g) ==
  IF cache # NULL
  THEN /\ g = cache
       /\ cache' = next[cache]
       /\ UNCHANGED <<cache_size, next, mpVars>>
  ELSE mp_gstack_alloc(g) /\ UNCHANGED <<cache, cache_size>>

\* The body of get_stack: pop the free list, else ask libmprompt, which may
\* have none to give.
TakeFrom(g) ==
  IF cache # NULL
  THEN /\ g = cache
       /\ cache' = next[cache]
       /\ cache_size' = cache_size - 1
       /\ UNCHANGED <<next, mpVars>>
  ELSE mp_gstack_alloc(g) /\ UNCHANGED <<cache, cache_size>>

get_stack(g) ==
  /\ TakeFrom(g)
  /\ result' = g
  /\ inUse' = inUse \cup ({g} \ {NULL})

\* Mutants of Release: the full list is not noticed; the link is not written.
ReleaseUnbounded(g) ==
  /\ next' = [next EXCEPT ![g] = cache]
  /\ cache' = g
  /\ cache_size' = cache_size + 1
  /\ UNCHANGED mpVars
ReleaseNoLink(g) ==
  IF cache_size < CACHE_MAX_SIZE
  THEN cache' = g /\ cache_size' = cache_size + 1 /\ UNCHANGED <<next, mpVars>>
  ELSE mp_gstack_free(g) /\ UNCHANGED <<cache, cache_size, next>>

\* free_stack: push on the free list, or give back to libmprompt.
Release(g) ==
  IF cache_size < CACHE_MAX_SIZE
  THEN /\ next' = [next EXCEPT ![g] = cache]
       /\ cache' = g
       /\ cache_size' = cache_size + 1
       /\ UNCHANGED mpVars
  ELSE mp_gstack_free(g) /\ UNCHANGED <<cache, cache_size, next>>

free_stack(g) ==
  /\ g \in inUse
  /\ Release(g)
  /\ inUse' = inUse \ {g}
  /\ UNCHANGED result

\* Mutant of ReleaseOnAbort: the stack is freed although the handler is on it.
ReleaseOnAbortAlways(curr, target) ==
  IF curr = NULL THEN UNCHANGED <<cache, cache_size, next, mpVars>> ELSE Release(curr)

\* free_stack_on_abort: nothing is freed on the system stack (NULL here), nor
\* when the handler waits on the stack being left.
ReleaseOnAbort(curr, target) ==
  IF curr = NULL \/ curr = target
  THEN UNCHANGED <<cache, cache_size, next, mpVars>>
  ELSE Release(curr)

free_stack_on_abort(curr, target) ==
  /\ curr \in inUse \cup {NULL}
  /\ target \in inUse \cup {NULL}
  /\ ReleaseOnAbort(curr, target)
  /\ inUse' = IF curr = target THEN inUse ELSE inUse \ {curr}
  /\ UNCHANGED result

\* dup_stack takes a stack as get_stack does; what is copied on it is the
\* runtime's business (StackTrek).  It does not ask whether there was one: then
\* it writes the frames of g below address 0.
dup_stack(g, copy) ==
  /\ g \in inUse
  /\ get_stack(copy)
  /\ faulted' = (copy = NULL)

Next ==
  /\ ~faulted
  /\ \/ /\ UNCHANGED faulted
        /\ \/ \E g \in GStacks \cup {NULL} : get_stack(g)
           \/ \E g \in GStacks : free_stack(g)
           \/ \E g, h \in GStacks \cup {NULL} : free_stack_on_abort(g, h)
     \/ \E g \in GStacks, copy \in GStacks \cup {NULL} : dup_stack(g, copy)

Spec == Init /\ [][Next]_vars

-----------------------------------------------------------------------------
(***************************************************************************)
(* Properties                                                              *)
(***************************************************************************)
TypeOK ==
  /\ cache \in GStacks \cup {NULL}
  /\ cache_size \in 0 .. CACHE_MAX_SIZE
  /\ next \in [GStacks -> GStacks \cup {NULL}]
  /\ result \in GStacks \cup {NULL}
  /\ faulted \in BOOLEAN
  /\ inUse \subseteq GStacks
  /\ delayed \subseteq GStacks /\ mpCache \subseteq GStacks /\ mapped \subseteq GStacks

\* The headers reached from `cache' in n steps or fewer.
FreeList ==
  LET reach[n \in 0 .. CACHE_MAX_SIZE] ==
        IF n = 0 THEN {cache} \ {NULL}
        ELSE reach[n - 1] \cup ({next[g] : g \in reach[n - 1]} \ {NULL})
  IN reach[CACHE_MAX_SIZE]

\* The list and its count agree: following `next' from `cache' meets cache_size
\* headers and then NULL (a stack freed twice would close a cycle), so that
\* the bound of CACHE_MAX_SIZE is what it seems.
FreeListMatchesCount == Cardinality(FreeList) = cache_size

\* Where a gstack is, is unambiguous: a stack on the free list is neither in
\* use nor libmprompt's to hand out again.
OneOwner ==
  /\ FreeList \cap inUse = {}
  /\ (FreeList \cup inUse) \cap (delayed \cup mpCache) = {}

\* No mapped gstack is lost, whatever the order of frees, aborts and failures.
NoLostGStack == mapped = FreeList \cup inUse \cup delayed \cup mpCache

\* ENTER pops the parent's stack pointer off the stack it has just freed
\* (stacktrek.h:202-205): freeing must leave the memory mapped.
FreedStackStillMapped == [][inUse \ inUse' \subseteq mapped']_vars

\* The pool implements the allocator the runtime relies on: a stack handed out
\* is nobody's, and when there is none to hand out nobody's stack is touched.
Allocator == INSTANCE StackAllocator WITH Stacks <- GStacks, NoStack <- NULL
ImplementsAllocator == Allocator!Spec
=============================================================================
