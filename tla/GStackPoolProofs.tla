--------------------------- MODULE GStackPoolProofs ---------------------------
(***************************************************************************)
(* GStackPool is safe for every number of gstacks and every cache size.    *)
(***************************************************************************)
EXTENDS GStackPool, FiniteSetTheorems, WellFoundedInduction, TLAPS

\* q lists the headers of the free list, in order, each once.
IsFreeList(q) ==
  /\ q \in [1 .. cache_size -> GStacks]
  /\ \A i, j \in 1 .. cache_size : q[i] = q[j] => i = j
  /\ cache = IF cache_size = 0 THEN NULL ELSE q[1]
  /\ \A i \in 1 .. cache_size :
       /\ next[q[i]] = IF i = cache_size THEN NULL ELSE q[i + 1]
       /\ q[i] \in mapped \ (inUse \cup delayed \cup mpCache)

Listed(q) == {q[i] : i \in 1 .. cache_size}

\* No mapped gstack is lost if q is the free list.
Kept(q) == mapped = Listed(q) \cup inUse \cup delayed \cup mpCache

\* The inductive invariant: the free list is a list of cache_size distinct
\* headers, apart from the stacks in use and from libmprompt's, and the stacks
\* in use are mapped and not libmprompt's either; every mapped gstack is in one
\* of these places.
IInv ==
  /\ TypeOK
  /\ inUse \subseteq mapped
  /\ inUse \cap (delayed \cup mpCache) = {}
  /\ delayed \cap mpCache = {}
  /\ \E q : IsFreeList(q) /\ Kept(q)

LEMMA InitInv == Init => IInv
<1>1. Init => IsFreeList([i \in 1 .. 0 |-> NULL]) /\ Kept([i \in 1 .. 0 |-> NULL])
  BY DEF Init, IsFreeList, Kept, Listed
<1>2. Init => faulted \in BOOLEAN
  BY Zenon DEF Init
<1>. QED  BY <1>1, <1>2, GAssumption DEF Init, IInv, TypeOK

\* Popping the free list, or asking libmprompt, yields a stack nobody uses.
LEMMA TakeInv ==
  ASSUME IInv, NEW g \in GStacks, get_stack(g), faulted' \in BOOLEAN
  PROVE  IInv' /\ g \notin inUse
<1>1. PICK q : IsFreeList(q) /\ Kept(q)
  BY DEF IInv
<1>2. inUse' = inUse \cup {g} /\ result' = g
  BY GAssumption DEF get_stack
<1>3. cache_size \in Nat /\ NULL \notin GStacks /\ CACHE_MAX_SIZE \in Nat
  BY GAssumption DEF IInv, TypeOK
<1>4. CASE cache # NULL
  <2>1. g = cache /\ cache' = next[cache] /\ cache_size' = cache_size - 1
        /\ UNCHANGED <<next, mpVars>>
    BY <1>4 DEF get_stack, TakeFrom
  <2>2. cache_size \in 1 .. CACHE_MAX_SIZE /\ g = q[1]
    BY <1>1, <1>3, <1>4, <2>1 DEF IsFreeList, IInv, TypeOK
  <2>3. g \in mapped \ (inUse \cup delayed \cup mpCache)
    BY <1>1, <2>2 DEF IsFreeList
  <2>r. PICK r : r = [i \in 1 .. cache_size - 1 |-> q[i + 1]]
    OBVIOUS
  <2>4. IsFreeList(r)'
    <3>1. r \in [1 .. cache_size' -> GStacks]
      BY <1>1, <1>3, <2>1, <2>2, <2>r DEF IsFreeList
    <3>2. \A i, j \in 1 .. cache_size' : r[i] = r[j] => i = j
      BY <1>1, <1>3, <2>1, <2>2, <2>r DEF IsFreeList
    <3>3. cache' = IF cache_size' = 0 THEN NULL ELSE r[1]
      BY <1>1, <1>3, <2>1, <2>2, <2>r DEF IsFreeList
    <3>4. ASSUME NEW i \in 1 .. cache_size'
          PROVE  /\ next'[r[i]] = IF i = cache_size' THEN NULL ELSE r[i + 1]
                 /\ r[i] \in mapped' \ (inUse' \cup delayed' \cup mpCache')
      <4>1. r[i] = q[i + 1] /\ i + 1 \in 1 .. cache_size /\ 1 \in 1 .. cache_size
        BY <1>3, <2>1, <2>2, <2>r
      <4>2. r[i] # g
        BY <1>1, <1>3, <2>2, <4>1 DEF IsFreeList
      <4>. QED
        BY <1>1, <1>2, <1>3, <2>1, <2>2, <2>r, <4>1, <4>2 DEF IsFreeList, mpVars
    <3>. QED  BY <3>1, <3>2, <3>3, <3>4 DEF IsFreeList
  <2>5. TypeOK'
    BY <1>2, <1>3, <2>1, <2>2 DEF IInv, TypeOK, mpVars
  <2>6. Listed(q) = Listed(r)' \cup {g}
    <3>1. ASSUME NEW i \in 1 .. cache_size PROVE q[i] \in Listed(r)' \cup {g}
      <4>1. i # 1 => i - 1 \in 1 .. cache_size' /\ r[i - 1] = q[i]
        BY <1>3, <2>1, <2>r
      <4>. QED  BY <2>2, <4>1 DEF Listed
    <3>2. ASSUME NEW i \in 1 .. cache_size' PROVE r[i] \in Listed(q)
      <4>1. i + 1 \in 1 .. cache_size /\ r[i] = q[i + 1]
        BY <1>3, <2>1, <2>r
      <4>. QED  BY <4>1 DEF Listed
    <3>3. g \in Listed(q)
      BY <2>2 DEF Listed
    <3>. QED  BY <3>1, <3>2, <3>3 DEF Listed
  <2>7. Kept(r)'
    BY <1>1, <1>2, <2>1, <2>6 DEF Kept, mpVars
  <2>. QED  BY <1>2, <2>1, <2>3, <2>4, <2>5, <2>7 DEF IInv, mpVars
<1>5. CASE cache = NULL
  <2>1. mp_gstack_alloc(g) /\ UNCHANGED <<cache, cache_size>>
    BY <1>5 DEF get_stack, TakeFrom
  <2>2. cache_size = 0
    BY <1>1, <1>3, <1>5 DEF IsFreeList, IInv, TypeOK
  <2>3. PICK kept \in SUBSET delayed :
          LET cached == mpCache \cup kept
              still == mapped \ (delayed \ kept)
          IN /\ g \in IF cached # {} THEN cached ELSE GStacks \ still
             /\ delayed' = {}
             /\ mpCache' = cached \ {g}
             /\ mapped' = still \cup {g}
             /\ next' = [next EXCEPT ![g] = NULL]
    BY <1>3, <2>1 DEF mp_gstack_alloc
  <2>4. g \notin inUse
    BY <2>3 DEF IInv
  <2>5. TypeOK'
    BY <1>2, <2>1, <2>3 DEF IInv, TypeOK
  <2>6. IsFreeList(q)'
    BY <1>1, <1>5, <2>1, <2>2 DEF IsFreeList
  <2>7. Kept(q)'
    <3>1. Listed(q) = {} /\ Listed(q)' = {}
      BY <2>1, <2>2 DEF Listed
    <3>2. mapped = inUse \cup delayed \cup mpCache
      BY <1>1, <3>1 DEF Kept
    <3>. QED  BY <1>2, <2>3, <3>1, <3>2 DEF Kept, IInv
  <2>. QED  BY <1>2, <2>3, <2>4, <2>5, <2>6, <2>7 DEF IInv
<1>. QED  BY <1>4, <1>5

\* When libmprompt has no stack to give, nothing changes hands: the delayed
\* gstacks were unmapped, and no other is anywhere but in use.
LEMMA NoneInv ==
  ASSUME IInv, get_stack(NULL), faulted' \in BOOLEAN
  PROVE  IInv' /\ result' = NULL /\ UNCHANGED inUse
<1>1. PICK q : IsFreeList(q) /\ Kept(q)
  BY DEF IInv
<1>2. result' = NULL /\ inUse' = inUse
  BY DEF get_stack
<1>3. cache_size \in Nat /\ NULL \notin GStacks
  BY GAssumption DEF IInv, TypeOK
<1>4. cache = NULL /\ mp_gstack_alloc(NULL) /\ UNCHANGED <<cache, cache_size>>
  BY DEF get_stack, TakeFrom
<1>5. cache_size = 0
  BY <1>1, <1>3, <1>4 DEF IsFreeList
<1>6. PICK kept \in SUBSET delayed :
        LET cached == mpCache \cup kept
            still == mapped \ (delayed \ kept)
        IN /\ delayed' = {}
           /\ \/ NULL \in IF cached # {} THEN cached ELSE GStacks \ still
              \/ cached = {} /\ mpCache' = {} /\ mapped' = still /\ UNCHANGED next
  BY <1>4 DEF mp_gstack_alloc
<1>7. mpCache = {} /\ kept = {}
  BY <1>3, <1>6 DEF IInv, TypeOK
<1>8. mpCache' = {} /\ delayed' = {} /\ mapped' = mapped \ delayed /\ UNCHANGED next
  BY <1>3, <1>6, <1>7
<1>9. TypeOK'
  BY <1>2, <1>4, <1>8 DEF IInv, TypeOK
<1>10. IsFreeList(q)'
  BY <1>1, <1>4, <1>5, <1>8 DEF IsFreeList
<1>11. Kept(q)'
  <2>1. Listed(q) = {} /\ Listed(q)' = {}
    BY <1>4, <1>5 DEF Listed
  <2>. QED  BY <1>1, <1>2, <1>7, <1>8, <2>1 DEF Kept, IInv
<1>. QED  BY <1>2, <1>8, <1>9, <1>10, <1>11 DEF IInv

\* Pushing on the free list, or giving back to libmprompt, keeps the stack's
\* memory mapped.
LEMMA ReleaseInv ==
  ASSUME IInv, NEW g \in inUse, Release(g), inUse' = inUse \ {g},
         UNCHANGED <<result, faulted>>
  PROVE  IInv' /\ g \in mapped'
<1>1. PICK q : IsFreeList(q) /\ Kept(q)
  BY DEF IInv
<1>2. g \in GStacks /\ g \in mapped /\ g \notin delayed \cup mpCache
  BY DEF IInv, TypeOK
<1>3. cache_size \in 0 .. CACHE_MAX_SIZE /\ NULL \notin GStacks /\ CACHE_MAX_SIZE \in Nat
  BY GAssumption DEF IInv, TypeOK
<1>4. CASE cache_size < CACHE_MAX_SIZE
  <2>1. /\ next' = [next EXCEPT ![g] = cache]
        /\ cache' = g
        /\ cache_size' = cache_size + 1
        /\ UNCHANGED mpVars
    BY <1>4 DEF Release
  <2>2. PICK r : r = [i \in 1 .. cache_size + 1 |-> IF i = 1 THEN g ELSE q[i - 1]]
    OBVIOUS
  <2>3. \A i \in 1 .. cache_size : q[i] \in GStacks /\ q[i] # g
    BY <1>1 DEF IsFreeList
  <2>4. IsFreeList(r)'
    <3>1. r \in [1 .. cache_size' -> GStacks]
      BY <1>2, <1>3, <2>1, <2>2, <2>3
    <3>2. \A i, j \in 1 .. cache_size' : r[i] = r[j] => i = j
      BY <1>1, <1>3, <2>1, <2>2, <2>3 DEF IsFreeList
    <3>3. cache' = IF cache_size' = 0 THEN NULL ELSE r[1]
      BY <1>3, <2>1, <2>2
    <3>4. ASSUME NEW i \in 1 .. cache_size'
          PROVE  /\ next'[r[i]] = IF i = cache_size' THEN NULL ELSE r[i + 1]
                 /\ r[i] \in mapped' \ (inUse' \cup delayed' \cup mpCache')
      <4>1. CASE i = 1
        <5>1. r[i] = g /\ next'[g] = cache
          BY <1>2, <1>3, <2>1, <2>2, <4>1 DEF IInv, TypeOK
        <5>2. cache = IF cache_size = 0 THEN NULL ELSE q[1]
          BY <1>1 DEF IsFreeList
        <5>3. cache_size # 0 => r[2] = q[1]
          BY <1>3, <2>2
        <5>. QED  BY <1>2, <1>3, <2>1, <4>1, <5>1, <5>2, <5>3 DEF mpVars
      <4>2. CASE i # 1
        <5>1. i - 1 \in 1 .. cache_size /\ r[i] = q[i - 1]
          BY <1>3, <2>1, <2>2, <4>2
        <5>2. next'[q[i - 1]] = next[q[i - 1]]
          BY <2>1, <2>3, <5>1 DEF IInv, TypeOK
        <5>3. next[q[i - 1]] = IF i - 1 = cache_size THEN NULL ELSE q[i]
          BY <1>1, <1>3, <5>1 DEF IsFreeList
        <5>4. i # cache_size' => r[i + 1] = q[i]
          BY <1>3, <2>1, <2>2, <4>2
        <5>5. q[i - 1] \in mapped \ (inUse \cup delayed \cup mpCache)
          BY <1>1, <5>1 DEF IsFreeList
        <5>. QED  BY <1>3, <2>1, <5>1, <5>2, <5>3, <5>4, <5>5 DEF mpVars
      <4>. QED  BY <4>1, <4>2
    <3>. QED  BY <3>1, <3>2, <3>3, <3>4 DEF IsFreeList
  <2>5. TypeOK'
    BY <1>2, <1>3, <1>4, <2>1 DEF IInv, TypeOK, mpVars
  <2>6. Listed(r)' = Listed(q) \cup {g}
    <3>1. ASSUME NEW i \in 1 .. cache_size' PROVE r[i] \in Listed(q) \cup {g}
      <4>1. i # 1 => i - 1 \in 1 .. cache_size /\ r[i] = q[i - 1]
        BY <1>3, <2>1, <2>2
      <4>2. i = 1 => r[i] = g
        BY <1>3, <2>1, <2>2
      <4>. QED  BY <4>1, <4>2 DEF Listed
    <3>2. ASSUME NEW i \in 1 .. cache_size PROVE q[i] \in Listed(r)'
      <4>1. i + 1 \in 1 .. cache_size' /\ r[i + 1] = q[i]
        BY <1>3, <2>1, <2>2
      <4>. QED  BY <4>1 DEF Listed
    <3>3. g \in Listed(r)'
      <4>1. 1 \in 1 .. cache_size' /\ r[1] = g
        BY <1>3, <2>1, <2>2
      <4>. QED  BY <4>1 DEF Listed
    <3>. QED  BY <3>1, <3>2, <3>3 DEF Listed
  <2>7. Kept(r)'
    BY <1>1, <1>2, <2>1, <2>6 DEF Kept, mpVars
  <2>. QED  BY <1>2, <2>1, <2>4, <2>5, <2>7 DEF IInv, mpVars
<1>5. CASE ~(cache_size < CACHE_MAX_SIZE)
  <2>1. /\ delayed' = delayed \cup {g}
        /\ UNCHANGED <<mpCache, mapped, cache, cache_size, next>>
    BY <1>5 DEF Release, mp_gstack_free
  <2>2. TypeOK'
    BY <1>2, <2>1 DEF IInv, TypeOK
  <2>3. IsFreeList(q)'
    BY <1>1, <2>1 DEF IsFreeList
  <2>4. Listed(q)' = Listed(q)
    BY <2>1 DEF Listed
  <2>5. Kept(q)'
    BY <1>1, <1>2, <2>1, <2>4 DEF Kept
  <2>. QED  BY <1>2, <2>1, <2>2, <2>3, <2>5 DEF IInv
<1>. QED  BY <1>4, <1>5

\* Every operation preserves the invariant, is a step of the abstract
\* allocator, and unmaps no stack it frees.
LEMMA NextInv ==
  ASSUME IInv, [Next]_vars
  PROVE  IInv' /\ [Allocator!Next]_<<inUse, result>> /\ [inUse \ inUse' \subseteq mapped']_vars
<1>1. ASSUME NEW g \in GStacks \cup {NULL}, get_stack(g), faulted' \in BOOLEAN
      PROVE  IInv' /\ [Allocator!Next]_<<inUse, result>> /\ inUse \ inUse' \subseteq mapped'
  <2>1. CASE g = NULL
    BY <1>1, <2>1, NoneInv DEF Allocator!Next, Allocator!GetNone
  <2>2. CASE g # NULL
    <3>1. g \in GStacks /\ IInv' /\ g \notin inUse
      BY <1>1, <2>2, TakeInv
    <3>2. inUse' = inUse \cup {g} /\ result' = g
      BY <1>1, <2>2 DEF get_stack
    <3>. QED  BY <3>1, <3>2 DEF Allocator!Next, Allocator!Get
  <2>. QED  BY <2>1, <2>2
<1>2. ASSUME NEW g \in inUse, Release(g), inUse' = inUse \ {g}, UNCHANGED <<result, faulted>>
      PROVE  IInv' /\ [Allocator!Next]_<<inUse, result>> /\ inUse \ inUse' \subseteq mapped'
  BY <1>2, ReleaseInv DEF Allocator!Next, Allocator!Free, IInv, TypeOK
<1>3. CASE UNCHANGED vars
  BY <1>3 DEF vars, mpVars, IInv, TypeOK, IsFreeList, Kept, Listed
<1>4. ASSUME NEW g \in GStacks \cup {NULL}, NEW h \in GStacks \cup {NULL},
             free_stack_on_abort(g, h), UNCHANGED faulted
      PROVE  IInv' /\ [Allocator!Next]_<<inUse, result>> /\ [inUse \ inUse' \subseteq mapped']_vars
  <2>1. CASE g = NULL \/ g = h
    <3>1. NULL \notin inUse
      BY GAssumption DEF IInv, TypeOK
    <3>2. UNCHANGED vars
      BY <1>4, <2>1, <3>1 DEF free_stack_on_abort, ReleaseOnAbort, vars
    <3>. QED  BY <1>3, <3>2
  <2>2. CASE g # NULL /\ g # h
    BY <1>2, <1>4, <2>2 DEF free_stack_on_abort, ReleaseOnAbort
  <2>. QED  BY <2>1, <2>2
<1>5. ASSUME NEW g \in GStacks, free_stack(g), UNCHANGED faulted
      PROVE  IInv' /\ [Allocator!Next]_<<inUse, result>> /\ inUse \ inUse' \subseteq mapped'
  BY <1>2, <1>5 DEF free_stack
<1>6. ASSUME NEW g \in GStacks, NEW copy \in GStacks \cup {NULL}, dup_stack(g, copy)
      PROVE  IInv' /\ [Allocator!Next]_<<inUse, result>> /\ inUse \ inUse' \subseteq mapped'
  BY <1>1, <1>6 DEF dup_stack
<1>7. UNCHANGED faulted => faulted' \in BOOLEAN
  BY DEF IInv, TypeOK
<1>. QED
  BY <1>1, <1>3, <1>4, <1>5, <1>6, <1>7 DEF Next

-----------------------------------------------------------------------------
\* The natural numbers are well-ordered; with it, induction on them for a set.
Less == {s \in Nat \X Nat : s[1] < s[2]}
LEMMA LeastNatural ==
  ASSUME NEW T \in SUBSET Nat, T # {}
  PROVE  \E n \in T : \A m \in T : n <= m
<1>1. Less = OpToRel(<, Nat)
  BY DEF Less, OpToRel
<1>2. PICK x \in T : \A y \in T : ~ (<<y, x>> \in Less)
  BY <1>1, NatLessThanWellFounded, WFMin
<1>3. \A y \in T : x \in Nat /\ y \in Nat /\ <<y, x>> \in Nat \X Nat
  OBVIOUS
<1>4. \A y \in T : ~(<<y, x>>[1] < <<y, x>>[2])
  BY <1>2, <1>3 DEF Less
<1>5. \A y \in T : ~(y < x)
  BY <1>4
<1>. QED  BY <1>3, <1>5

LEMMA NatSetInduction ==
  ASSUME NEW S, 0 \in S, \A n \in Nat : n \in S => n + 1 \in S
  PROVE  \A n \in Nat : n \in S
<1>1. SUFFICES ASSUME Nat \ S # {} PROVE FALSE
  OBVIOUS
<1>2. PICK n \in Nat \ S : \A m \in Nat \ S : n <= m
  BY <1>1, LeastNatural
<1>3. n # 0 /\ n - 1 \in Nat /\ n - 1 < n /\ n = (n - 1) + 1
  BY <1>2
<1>4. n - 1 \in S
  BY <1>2, <1>3
<1>. QED  BY <1>2, <1>3, <1>4

\* Following `next' from `cache' meets the headers of the list, and no others.
LEMMA FreeListIsListed ==
  ASSUME TypeOK, NEW q, IsFreeList(q)
  PROVE  FreeList = Listed(q)
<1> DEFINE M == CACHE_MAX_SIZE
           Round(f, n) ==
             IF n = 0 THEN {cache} \ {NULL}
             ELSE f[n - 1] \cup ({next[g] : g \in f[n - 1]} \ {NULL})
           reach == CHOOSE f : f = [n \in 0 .. M |-> Round(f, n)]
           upTo(n) == {q[i] : i \in {j \in 1 .. cache_size : j <= n + 1}}
           w == [n \in 0 .. M |-> upTo(n)]
<1>1. M \in Nat /\ cache_size \in 0 .. M /\ NULL \notin GStacks
  BY GAssumption DEF TypeOK
<1>2. upTo(0) = {cache} \ {NULL}
  <2>1. CASE cache_size = 0
    BY <1>1, <2>1 DEF IsFreeList
  <2>2. CASE cache_size # 0
    <3>1. 1 \in 1 .. cache_size /\ cache = q[1] /\ q[1] \in GStacks
      BY <1>1, <2>2 DEF IsFreeList
    <3>2. {j \in 1 .. cache_size : j <= 0 + 1} = {1}
      BY <1>1, <2>2
    <3>. QED  BY <1>1, <3>1, <3>2
  <2>. QED  BY <2>1, <2>2
<1>3. ASSUME NEW n \in 1 .. M
      PROVE  upTo(n) = upTo(n - 1) \cup ({next[g] : g \in upTo(n - 1)} \ {NULL})
  <2>1. ASSUME NEW i \in 1 .. cache_size, i <= n + 1
        PROVE  q[i] \in upTo(n - 1) \cup ({next[g] : g \in upTo(n - 1)} \ {NULL})
    <3>1. CASE i <= n
      BY <1>1, <3>1
    <3>2. CASE i = n + 1
      <4>1. n \in 1 .. cache_size /\ next[q[n]] = q[n + 1] /\ q[n + 1] \in GStacks
        BY <1>1, <3>2 DEF IsFreeList
      <4>2. q[n] \in upTo(n - 1)
        BY <1>1, <4>1
      <4>. QED  BY <1>1, <3>2, <4>1, <4>2
    <3>. QED  BY <1>1, <2>1, <3>1, <3>2
  <2>2. ASSUME NEW i \in 1 .. cache_size, i <= n, next[q[i]] # NULL
        PROVE  next[q[i]] \in upTo(n)
    <3>1. i + 1 \in 1 .. cache_size /\ next[q[i]] = q[i + 1] /\ i + 1 <= n + 1
      BY <1>1, <2>2 DEF IsFreeList
    <3>. QED  BY <3>1
  <2>3. upTo(n - 1) \subseteq upTo(n)
    BY <1>1
  <2>4. upTo(n) \subseteq upTo(n - 1) \cup ({next[g] : g \in upTo(n - 1)} \ {NULL})
    BY <2>1
  <2>5. ASSUME NEW g \in upTo(n - 1), next[g] # NULL PROVE next[g] \in upTo(n)
    <3>1. PICK i \in 1 .. cache_size : i <= (n - 1) + 1 /\ g = q[i]
      BY <2>5
    <3>. QED  BY <1>1, <2>2, <2>5, <3>1
  <2>. QED  BY <2>3, <2>4, <2>5
<1> HIDE DEF upTo
<1>4. w = [n \in 0 .. M |-> Round(w, n)]
  <2>1. ASSUME NEW n \in 0 .. M PROVE w[n] = Round(w, n)
    <3>1. CASE n = 0
      BY <1>1, <1>2, <3>1
    <3>2. CASE n # 0
      <4>1. n \in 1 .. M /\ n - 1 \in 0 .. M
        BY <1>1, <3>2
      <4>2. w[n] = upTo(n) /\ w[n - 1] = upTo(n - 1)
        BY <4>1
      <4>. QED  BY <1>3, <3>2, <4>1, <4>2
    <3>. QED  BY <3>1, <3>2
  <2>. QED  BY <2>1
<1>5. reach = [n \in 0 .. M |-> Round(reach, n)]
  BY <1>4
<1> HIDE DEF reach, w
<1>6. \A n \in Nat : n \in {m \in Nat : m <= M => reach[m] = w[m]}
  <2> DEFINE S == {m \in Nat : m <= M => reach[m] = w[m]}
  <2>1. 0 \in S
    BY <1>1, <1>4, <1>5
  <2>2. ASSUME NEW n \in Nat, n \in S PROVE n + 1 \in S
    <3>1. CASE n + 1 <= M
      <4>1. n + 1 \in 0 .. M /\ n + 1 # 0 /\ (n + 1) - 1 = n /\ reach[n] = w[n]
        BY <1>1, <2>2, <3>1
      <4>2. reach[n + 1] = Round(reach, n + 1) /\ w[n + 1] = Round(w, n + 1)
        BY <1>4, <1>5, <4>1
      <4>3. Round(reach, n + 1) = Round(w, n + 1)
        BY <4>1
      <4>. QED  BY <4>2, <4>3
    <3>. QED  BY <3>1
  <2> HIDE DEF S
  <2>3. \A n \in Nat : n \in S
    BY <2>1, <2>2, NatSetInduction
  <2>. QED  BY <2>3 DEF S
<1>7. reach[M] = w[M]
  BY <1>1, <1>6
<1>8. w[M] = Listed(q)
  <2>1. {j \in 1 .. cache_size : j <= M + 1} = 1 .. cache_size
    BY <1>1
  <2>. QED  BY <1>1, <2>1 DEF w, upTo, Listed
<1>9. FreeList = reach[M]
  BY DEF FreeList, reach
<1>. QED  BY <1>7, <1>8, <1>9

\* The free list and its count stay consistent (the list is real: distinct
\* headers, ended by NULL), apart from the stacks in use.
THEOREM FreeListSafety == Spec => [](TypeOK /\ \E q : IsFreeList(q))
<1>1. IInv => TypeOK /\ \E q : IsFreeList(q)
  BY DEF IInv
<1>. QED  BY <1>1, InitInv, NextInv, PTL DEF Spec

\* The headers, the count, the stacks and libmprompt's sets stay well-typed: the
\* count of the free list is never above its bound.
THEOREM GStackPoolTyping == Spec => []TypeOK
BY FreeListSafety, PTL

\* The count of the free list is the length of the list.
THEOREM CountIsLength == Spec => []FreeListMatchesCount
<1>1. ASSUME TypeOK, NEW q, IsFreeList(q) PROVE FreeListMatchesCount
  <2>1. FreeList = Listed(q)
    BY <1>1, FreeListIsListed
  <2>2. cache_size \in Nat /\ cache_size \in Int
    BY <1>1, GAssumption DEF TypeOK
  <2>3. IsFiniteSet(1 .. cache_size) /\ Cardinality(1 .. cache_size) = cache_size
    BY <2>2, FS_Interval
  <2>4. q \in [1 .. cache_size -> Listed(q)]
    BY <1>1 DEF IsFreeList, Listed
  <2>5. q \in Surjection(1 .. cache_size, Listed(q))
    BY <2>4 DEF Surjection, Listed
  <2>6. q \in Injection(1 .. cache_size, Listed(q))
    BY <1>1, <2>4 DEF Injection, IsInjective, IsFreeList
  <2>7. Cardinality(Listed(q)) = cache_size
    BY <2>3, <2>5, <2>6, FS_Surjection
  <2>. QED  BY <2>1, <2>7 DEF FreeListMatchesCount
<1>2. TypeOK /\ (\E q : IsFreeList(q)) => FreeListMatchesCount
  BY <1>1
<1>. QED  BY <1>2, FreeListSafety, PTL

\* A gstack is in one place at a time.
THEOREM GStackHasOneOwner == Spec => []OneOwner
<1>1. ASSUME IInv PROVE OneOwner
  <2>1. PICK q : IsFreeList(q)
    BY <1>1 DEF IInv
  <2>2. FreeList = Listed(q)
    BY <1>1, <2>1, FreeListIsListed DEF IInv
  <2>3. Listed(q) \cap (inUse \cup delayed \cup mpCache) = {}
    BY <2>1 DEF IsFreeList, Listed
  <2>. QED  BY <1>1, <2>2, <2>3 DEF OneOwner, IInv
<1>. QED  BY <1>1, InitInv, NextInv, PTL DEF Spec

\* No mapped gstack is lost.
THEOREM NoGStackIsLost == Spec => []NoLostGStack
<1>1. ASSUME IInv PROVE NoLostGStack
  <2>1. PICK q : IsFreeList(q) /\ Kept(q)
    BY <1>1 DEF IInv
  <2>2. FreeList = Listed(q)
    BY <1>1, <2>1, FreeListIsListed DEF IInv
  <2>. QED  BY <2>1, <2>2 DEF NoLostGStack, Kept
<1>. QED  BY <1>1, InitInv, NextInv, PTL DEF Spec

\* Freeing a stack never unmaps it, so ENTER may still pop from it.
THEOREM EpilogueReadsMappedMemory == Spec => FreedStackStillMapped
BY InitInv, NextInv, PTL DEF Spec, FreedStackStillMapped

\* The free-list pool implements the abstract allocator.
THEOREM GStackPoolImplementsAllocator == Spec => ImplementsAllocator
<1>1. Init => Allocator!Init
  BY DEF Init, Allocator!Init
<1>. QED  BY <1>1, InitInv, NextInv, PTL DEF Spec, ImplementsAllocator, Allocator!Spec, Allocator!vars
=============================================================================
