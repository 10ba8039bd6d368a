# Lexa: stack switching, modelled, checked and proved

Lexa compiles lexically scoped effect handlers to C that switches stacks. The
compiler (OCaml, `src/lib`, `src/sl`) emits calls of a small runtime
(`src/stacktrek`); an LLVM build and a post-link tool (`passes`,
`src/stackwalk`) add tables for a stackwalker that finds handlers of
"zero-cost" effects. This directory holds TLA+ models of that system: of the
runtime, where a wrong order of pointer updates corrupts memory and no test
looks; of the stackwalker with the tables it goes by, where a wrong entry picks a
wrong handler; of the raise's dispatch through a handler's header; and of the
data structures. Paths below are relative to the repository.

## 1. Inventory

| component | state | operations | talks to | what makes it correct |
|---|---|---|---|---|
| Stack switching (`src/stacktrek/stacktrek.h`, `common.h`) | stack pointer; return addresses on each stack; an exchanger per handler header; resumptions | `HANDLE`/`HANDLEZ` in modes general, abort, tail; `RAISE`, `RAISE_M`, `RAISE_ABORT`; `ENTER` and its epilogue; `THROW`, `FINAL_THROW` (`RESUME`) | pool (get, free, dup), collector (recorded stack pointer) | implements delimited control; nobody waits at an address that is not a return address; no stack shared, lost or freed while pointed to |
| Stack pool, fixed build (`stack_pool.h`, no `USE_GSTACK`) | buffer, 64-bit bitmap | `init_stack_pool`, `get_stack`, `free_stack`, `free_stack_on_abort`, `dup_stack` | runtime, allocator | an allocator: no stack handed out twice, none lost |
| Stack pool, gstack build (`USE_GSTACK`, what the `lexa` driver asks for) | free list, its count | the same | libmprompt | the same, list and count agree, freed memory stays mapped for `ENTER` |
| System stack and collector (`stack_pool.h:13-57`, `nix/bdwgc.patch`) | bounds, recorded main stack pointer | `GC_set_main_stack_sp`, `GC_get_main_stack_sp` | runtime | the collector scans all of the system stack that is in use |
| Handler headers (`common.h`, `stacktrek.h`) | modes and code of operations, environment, exchanger | the layout by `HANDLE`/`HANDLEZ`, the dispatch by `RAISE`/`RAISEZ` | code generator | the operation raised runs, in its mode, with its arguments |
| Stackwalker (`src/stackwalk/stackwalk.c`) | clue, stack of clues, place in the stack | `stackwalk` | headers, clue table | finds the handler lexical scoping means |
| Hopper and clue table (`codegen/hopper.ml`, `stackwalk/*.py`) | tables per return address | `hopper`, embedding | compiler, walker | a table entry says how a label is named one frame out |
| Closure conversion (`codegen/closure.ml`) | - | `free_var`, `convert_expr`, `open_env` | codegen | preserves evaluation; environments hold every free variable |
| Code generation (`codegen/codegen.ml`) | environments of signatures and handlers | `gen_expr` ... | runtime macros | every operation raised in its declared mode with its arguments |
| Type checker, translation (`src/sl/translation`) | contexts | `type_expr`, `translate` | hopper | captured sets, instantiations |
| Data structures, standard library (`datastructure.h`, `stdlib`) | lists, queues, arrays, strings, pairs; a queue in Lexa | make, append, set, enqueue, dequeue, push, pop, substring ... | programs, which may alias nodes | each behaves as the sequence, queue or text it stands for |
| Parsers, LLVM passes, driver, Racket formalisation | - | - | - | not modelled, see section 7 |

What is hard. Nothing runs in parallel; the difficulty is that control leaves a
stack in the middle and comes back in an order the program chooses. Raises,
resumes, returns and aborts of nested handlers interleave arbitrarily; a
stack can be copied while pointers to it exist; a stack is freed while
something waits on it, shares its header or pops from it; the collector is told
the position of one stack by operations that run on another; bounded caches
overflow. The stackwalker has one more difficulty: what is on the stack when it
walks was put together by calls, handlers, operations and resumptions of code
that never knew of each other, each of which names a label its own way. PROJECT.json lists each hazard at its line.

## 2. Modules

| module | is |
|---|---|
| `StackAllocator` | what a pool promises: `Get` a stack not in use, or none (`GetNone`), `Free` one that is |
| `StackPool` | fixed-size build; addresses as integers, so that the boundary arithmetic is real |
| `GStackPool` | gstack build; the free list threaded through headers, libmprompt external |
| `DelimitedControl` | what the runtime promises a program: a context of segments, captured and reinstated as values |
| `StackTrek` | the runtime |
| `RaiseDispatch` | the header: its layout by `HANDLE` and `HANDLEZ`, the operation found in it by `RAISE` and `RAISEZ` |
| `StackWalk` | zero-cost effects: instantiations, the clue table, the stack and the walk over it |
| `Fifo`, `Vector`, `Text` | what queues, arrays and strings promise |
| `LinkedLists`, `Arrays`, `Strings`, `Pairs` | `datastructure.h` |
| `LexaQueue` | the standard library's queue (`stdlib/queue.lx`) |
| `MCStackPool`, `MCGStackPool`, `MCStackTrek`, `MCRaiseDispatch`, `MCStackWalk`, `MCStructures` | values of the constants that a `.cfg` cannot write, symmetry; `MCStructures` puts the five structures side by side |
| `StackPoolProofs`, `GStackPoolProofs`, `StackTrekProofs`, `StackTrekRefinement`, `RaiseDispatchProofs`, `StackWalkProofs`, `ListsProofs`, `StructuresProofs` | theorems |

`StackTrek` uses the pool through the set `inUse`: it takes any stack outside
it, which is what `StackAllocator` allows and both pools are proved to
implement.

When memory runs out. `mp_gstack_alloc` may fail whenever it has to map a fresh
gstack. `get_stack` then returns NULL (`stack_pool.h:89`): `get_stack(NULL)` of
`GStackPool`, a `GetNone` of the allocator. No caller tests for it. `dup_stack`
copies the frames below address 0, which stops the program (`faulted`); `HANDLE`
(`stacktrek.h:299`, `:381`) writes its header there. `StackTrek` is what happens
until then: its actions are enabled only while there is a stack. The fixed build
has no such path: `aligned_alloc`'s result is used untested (`stack_pool.h:159`),
and `StackPool` takes it to succeed while overflow blocks are left.

### StackTrek and the code

A stack's memory is its sequence of return addresses, each with the one datum
that decides where control goes: nothing for a call; for the base frame that
`ENTER` builds, the exchanger address it pushes (`stacktrek.h:196`); for an
abort handler, the stack its stub is on. An address is a stack and a height and
is never relocated, so `dup_stack` copies base and abort frames as they are.
`cur` is the stack `rsp` is in; what is above a stack pointer is forgotten.

| action | code |
|---|---|
| `Call`, `Return` | ordinary calls; a tail handler's body and operations (`_HANDLE` mode TAIL) |
| `HANDLE_ABORT` | `_HANDLE`, mode ABORT: the stub's exchanger is the slot of the body's return address |
| `HANDLE` | `_HANDLE`, general: `get_stack`, header, `GC_set_main_stack_sp`, `ENTER` up to the call of the body |
| `ENTER_return` | `ENTER` after the body returns: `free_stack`, the exchanger popped from the stack, return |
| `RAISE`, `RAISE_M` | the exchange of stack pointer and exchanger; the resumption is the header, or a new `resumption_t` |
| `RAISE_ABORT` | `free_stack_on_abort` on the current stack, jump to what the exchanger holds |
| `THROW` | `dup_stack` of the top stack, header included, `GC_set_main_stack_sp`, `RESUME` |
| `FINAL_THROW` | `GC_set_main_stack_sp`, `RESUME` of the resumption itself |

`RAISE_2`, `RAISE_3`, `RAISE_0` and their kin differ in the registers that carry
arguments and are the same actions. `HANDLEZ` differs from `HANDLE` only in
what is passed to the body.

The client contract. The compiled program may call these in any order its
types allow; the model lets it, except for what the runtime silently assumes:
a label is raised to in its scope; a single-shot resumption is used once
and a handler's operations do not mix both kinds (`SameMode`); nothing is resumed
through an exchanger that is in use (`ExchangerIdle`); only resumptions of one
stack without abort handlers are resumed repeatedly (`Copyable`); a handler's
own stack ends after its copies and resumptions (`Discardable`); an abort
leaves one stack (`NearAbort`). The type checker enforces none of the last five
(`typecheck.ml:300-320` checks the captured set and the argument's type). The
constant `Allow` drops a part: `multi_stack` (the first half of `Copyable`),
`escape` (`Discardable`), `abort_across` (`NearAbort`).

### RaiseDispatch and the code

A header is a function from words to contents: the words are those of
`header_t` (`common.h:67`), so that what lies over what is real. `HANDLE`
copies the definitions and the free variables into it the way each mode of
`_HANDLE` does (an initialiser in the installer's frame drops what is too
many, `memcpy` on a fresh stack does not); `RAISE` reads mode and code from
it and builds the argument registers, the doubled argument of
`stacktrek.h:536` included. The contract, by name in `Allow`:
`three_operations` (with four the program stops), `free_variables` (at most `NENV`), `three_arguments` (none for
a zero-cost tail operation).

### StackWalk and the code

A function knows a handler as a label parameter, as part of a capability
parameter, or as captured. An environment `env` says which handler each of
these is: the running code never reads it; it is what lexical scoping means, and
the reference for the walker. A frame is a return address with what the clue
table has for it, and, where it is a handler's or a raise's, what the walker reads
there.

| definition or action | code |
|---|---|
| `LabelNames`, `Written`, `Capturable`, `Callee` | what a call may pass and how it names it (`translation.ml`, `check_capture_set_as_unamb`) |
| `Cells`, `hopper`, `hopper_is_const`, `Empty` | `hopper.ml`: the cells of each effect, constant tables, calls without an entry |
| `HandlerEntry`, `CallSite` | which rows `analyze_binary.py` keeps |
| `UPDATE_CLUE` | the macro: the row's cell for a clue; a row is filled up with zeros |
| `CallFn`, `Return` | calls of functions, returns, through `ENTER` too |
| `HANDLE_in_stack`, `HANDLE_general` | `HANDLE`/`HANDLEZ` in the modes TAIL and ABORT (walked over alike), and on a stack of its own |
| `RAISE`, `FINAL_THROW` | labels passed at run time, and resuming: what puts frames under other callers |
| `StartWalk`; `WalkFound`, `WalkOverHandler`, `WalkOutOfOperation`, `WalkOverCall`; `RAISEZ` | the call of `stackwalk`; one round of its loop each; the operation run once it returned |

The contract: operations of tail-resumptive handlers pass no label and no
capability on (`tail_insts`), install no handler in their own stack that captures
(`tail_handler`), and raise nothing zero-cost if their own effect is not
(`stock_tail`). Nothing in the compiler enforces these; the first is finding 5.
What a resumption captured is what the code that resumes it passes (the guard of
`FINAL_THROW`); the capture sets of the type checker are there for that. The
program holds one resumption at a time. Copies of stacks are left out: finding 4
says what is wrong there.

### The structures

Nodes of `LinkedLists` are in a shared heap and the program's variables alias them
freely; loops over `next` are followed for as many rounds as there are nodes, and
`ListsEnd` says none needs more. `listSetTail` closes no list into a cycle (contract
`cycle`). Arrays, strings and pairs are modelled with their blocks: capacity and
size, the terminator's byte, two halves of a word. `pairMake` gets any two integers:
its second is sign-extended, and a negative one overwrites the first, so that
`PairGivesBack` says what does come back and what is lost.

## 3. Runs

| run | asks | result |
|---|---|---|
| `pool_fixed` | three preallocated blocks, two overflow blocks, one of them just below the buffer, stacks of three bytes | all hold |
| `pool_fixed_empty` | the same with empty stacks freed and copied | `NoLostStack` fails: see findings |
| `pool_gstack` | five gstacks, free list of two, libmprompt cache of one, allocations that fail at any time; deadlock is not checked, a fault stops the program | all hold |
| `trek` | three stacks, two resumptions, two call sites, two frames per stack, `Allow = {}` | all hold, the refinement of `DelimitedControl` and `ResumptionsIntact` included |
| `trek_abort` | two stacks, three frames per stack, aborts across handlers allowed | all hold; `NoLeakedStack` is not asked: the stacks in between do leak |
| `trek_escape` | `Allow = {"escape"}` | `SharedExchangerAlive` fails |
| `trek_multi_stack` | `Allow = {"multi_stack"}` | `ResumptionsIntact` fails |
| `trek_walker` | `Allow = {}` | `WalkerFollowsReturns` fails |
| `walk` | two zero-cost effects and one that is not, two names of handlers, five frames, calls that pass a capability and a label and name one label or capability, `Allow = {}` | all hold, and every walk ends |
| `walk_tail` | `Allow = {"tail_insts"}` | `WalkFindsLexicalHandler` fails |
| `dispatch` | up to four operations, three free variables and four arguments, `NENV` of two, `Allow = {"three_operations"}` | `OperationGetsItsArguments` fails |
| `structures` | two values, two variables that hold lists, four nodes; arrays up to a capacity of seven; strings up to four characters; halves of four; five cells of the standard queue | all hold |

Bounds. Three stacks are an outer handler, an inner one, and a copy or a third
handler: every property relates at most two stacks and a third that one of them
points to. Two resumptions let one be resumed while the other is live, and a
copy raise again. Frames are bounded because only a stack's top is ever
touched: with two, a handler's stack has its base and one call; with three
(`trek_abort`), an abort handler and a call inside it. Five gstacks over caches of two and one
overflow both. Stacks of three bytes have an interior, an empty position
and an address shared with the neighbour.

`walk`: five frames hold a handler, a second one inside it, a call between, a
raise out of an operation and the call of `stackwalk`: a walk meets all three
kinds of return address, in both orders, sets a clue aside and takes it back, and
a resumption is put under another caller. Two effects make the row of the wrong
effect visible. Longer chains (several clues aside, calls that pass several labels)
are what the theorem of section 5 adds. `structures`: a list of two nodes shared by
another, and a copy of it; growth of an array from 0 and from 1 and 3; substrings
empty, inner and whole. `dispatch` has no passing twin: what holds under the
contract is `DispatchIsFaithful`, for every size.

Symmetry: gstacks, stacks, resumptions, call sites, the program's list
variables are interchangeable and no property distinguishes them.

### What the properties say

* `EveryoneWaits`: following the exchangers from the running code leads to
  main; every stack on the way, and every stack of every live resumption, is
  suspended exactly at its top, at a return address. This is what an exchange in
  the wrong order, or a forgotten save, breaks several switches later.
* `NoSharedStack`, `SharedExchangerAlive`, `NoLeakedStack`: no stack is running and
  captured at once, or captured twice; what a base frame or a resumption
  points to is not in a freed stack; every stack not freed is reachable.
* `NoUseAfterFree`: the stack that runs, those below it, and those of every live
  resumption have not been freed. With `SharedExchangerAlive` nothing is reached in a
  freed stack; with `NoLeakedStack` the stacks in use are exactly those reached.
* `GCScansMainStack`: off the system stack, the recorded pointer is exactly where
  the system stack was left. The TODO at `stacktrek.h:265` and `:344` says this does not work
  with nested general handlers; in the model, where handlers nest, are
  captured and resumed from other stacks, it does: only `HANDLE`,
  `THROW` and `FINAL_THROW` can leave the system stack, and all record.
* `ImplementsDelimitedControl`: the segments read off the stacks by following the
  exchangers behave as `DelimitedControl`; so a copy resumes with the frames
  the original had, and returns to its own resumer.
* `ResumptionsIntact`: while a resumption is live, the frames it will return to do not
  change, whatever the running code and copies of it do meanwhile.
* Pools: `NoAliasing`, `NoLostStack`, `PointersInBounds`, `OverflowOnlyWhenFull`;
  `FreeListMatchesCount`, `OneOwner`, `NoLostGStack`, `FreedStackStillMapped`; and
  that each implements `StackAllocator`. In the gstack build they hold through failed
  allocations too: none loses a stack or changes whose it is.

* `WalkFindsLexicalHandler`: the handler found is the one the raise names, and
  the walk is never past it, through any nesting of calls, handlers, operations
  and resumed stacks. `WalkerKnowsEverySite`: no return address the walker reaches is
  missing in the table, and pushed clues are where it looks for them.
  `WalkEnds`: every walk ends. The two are related: at a site the walker knows one of
  the steps of `WalkStep` can be taken, and each finds the handler or goes one frame
  outwards.
* `OperationGetsItsArguments`: code, mode, registers, environment and exchanger of
  the operation that runs are the declared ones.
* `PairGivesBack`: the second integer always comes back; the first does unless the
  second is negative, and then reads as -1.
* `QueueIsFifo`, `ArrayIsVector`, `StringIsText`, `StdQueueIsFifo`: refinements of the
  abstract queue, sequence and text; a new array has the length asked for. `OnlySettersChangeLists`: under any aliasing, no
  operation but the two setters changes a list that another variable holds.

Fairness and liveness. `StackWalk` states weak fairness of `WalkStep`, the rounds of
`stackwalk`'s loop: it is sequential code that nothing interrupts, so while a
round is possible it is taken. Nothing else is fair: whether the program raises,
returns or calls is the program's. `WalkEnds` is the one liveness property; the rest
of the runtime never waits, so there is nothing else it must eventually do.

## 4. Findings

1. `stack_pool.h:169`: the last preallocated stack, freed empty, is lost. The
   comment below the test explains the `- 1` by that very case. The runtime
   never frees an empty stack (the header is below every frame), so this is
   the function's contract, not a crash.
2. `stacktrek.h:202`: a handler's stack is freed while copies, and
   resumptions captured in copies, use the exchanger in it. The shortest run: a
   multi-shot operation stores its resumption k1; a copy of k1 performs the
   operation again and stores k2; k1 is resumed for good and its body returns;
   k2's exchanger is in a free stack.
3. `stacktrek.h:579`: resuming a copy of a resumption that crosses an inner
   general handler copies the inner stack only. When the copy returns, the
   outer stack runs on and is freed, and the second resume finds it gone.
4. `stackwalk.c:170`: in a copy, the walker reads the copied, stale
   exchanger and walks the suspended original before the parent. The run
   shows the pointer. `StackWalk` leaves copies out.
5. `stackwalk.c:174`: at a call made by a tail-resumptive operation the clue is
   set aside untranslated. If the operation passes a label on, its callee's name for
   it is read as if it were the operation's, and the walk passes the handler.
6. `stacktrek.h:247`: the guard lets three operations pass, the header has room
   for two; a raise of the third calls what lies over it, or nothing.

Three more, without a run of their own, since no text of the repository says what
the code should do instead:

* `datastructure.h:449`: a pair made with a negative second integer has lost its
  first (`PairGivesBack`). The primitive is declared for any two integers
  (`codegen/primitive.ml:82`); nothing under `test` makes a pair this way.
* `stack_pool.h:120`, `stacktrek.h:299` and `:381`: the NULL of `get_stack` is used
  as a stack (above, "When memory runs out").
* `stacktrek.h:131`: an abort that crosses a general handler leaks the stacks in
  between (`trek_abort`).

## 5. Proofs

Checked by TLAPS for every value of the constants, from the named assumptions
in the modules (finite sets, positive sizes, main not a pool stack).

* `StackPoolProofs`. `NoAliasing` is not inductive alone: freeing finds the
  block from the pointer, so the bitmap is right only while pointers stay in
  their blocks, and that is arithmetic on `BlockOf`. The invariant `IInv` adds
  those bounds, that `malloced` remembers every overflow stack in use, and that
  an uninitialised pool holds nothing. `PoolComplete` adds `NoLostStack` under
  `~EmptyStacks`, the hypothesis whose necessity `pool_fixed_empty` shows.
  `PoolImplementsAllocator` maps every step to a `Get`, a `Free` or a stutter;
  `result`, the stack handed out last, makes handing out a stack twice visible.
* `GStackPoolProofs`. `FreeListMatchesCount` follows links and is
  recursive, so the invariant says instead that some injective sequence of
  `cache_size` headers is the list (`IsFreeList`), apart from the stacks in
  use and from libmprompt's. Pop drops its first element, push adds one. `NoneInv` is
  the failed allocation: the delayed stacks are unmapped, nothing else changes.
* `StackTrekProofs`, first half. `Typing`: every stored address is an address, whatever
  the client does. One step per action; `ENTER_return` needs that a base frame names a
  stack, `RAISE_ABORT` that exchangers and stubs hold addresses.
* `StackTrekProofs`, second half: `WaitingHolds`, `SharingHolds`, `ExchangersAliveHolds`, `ScanHolds`,
  `IntactHolds`, `FreedIsUnused`, `NoDoubleFree`, and `NoLeakHolds` when `Allow = {}`. They assume `Contract`,
  that at most `abort_across` is allowed: the runs `trek_escape` and
  `trek_multi_stack` show what happens otherwise. Stacks are placed in chains: `D` is
  the set of stacks in some chain, `H` says whose chain (none's for the running
  one, a resumption's otherwise) and `d` how deep. `EveryoneWaits` alone is not
  inductive. A step must not disturb another chain, so each exchanger has at most
  one stack that returns through it; a single-shot resumption must be the only user of
  the header it shares; a stack has one base frame, at its bottom, and stubs of its own
  only; and no two stacks have the same place. Chains change in four
  ways, with one lemma each: the running one is cut (a return, an abort), it grows
  (`HANDLE`, `THROW`), its upper part becomes a resumption's (raises), a
  resumption's is put on top of it (`FINAL_THROW`). `NoDoubleFree` is the
  runtime's side of the bargain with the pools: `Free` of `StackAllocator` asks that the stack be in
  use, and `ENTER_return` and `RAISE_ABORT`, the only actions that free, free the stack
  they leave.
* `StackTrekRefinement`: `TrekImplementsDelimitedControl`. A line is a chain
  written as a sequence, its segment i + 1 read off the stack at place i. `Segments`, which
  the abstract state is defined by, is a recursive function over rounds of
  following; that it yields the line of the chain is shown by set induction on rounds,
  and a chain has only one line. The rest says what is done to
  lines (push or pop on the top segment, cut, append, take a tail, concatenate) and maps
  each action: `Call` and `HANDLE_ABORT` to `Enter`, `Return` to `Return`, `ENTER_return` to
  `Leave`, `HANDLE` to `Handle`, `RAISE` and `RAISE_M` to `Raise`, `RAISE_ABORT` to `Abort` or
  `AbortInline`, `THROW` to `ResumeCopy`, `FINAL_THROW` to `Resume`. That the resumptions
  which take no part keep their lines (`OthersStay`) is `ResumptionsIntact` again.
* `RaiseDispatchProofs`. `DispatchIsFaithful`: for any values, code, arities and
  room in `env`, under the contract, `OperationGetsItsArguments`. The invariant
  says word by word what the header of the installed handler holds.
* `ListsProofs`: `ListsTyped`, `ListsComeToAnEnd`, `ListsKeepTheirNodes`,
  `QueueImplementsFifo`, when `"cycle" \notin Allow`. `ListsEnd` is not inductive: it says nothing
  of nodes no variable points to, which `listTail` may reach next, nor of a
  `queue.rear` that `queueDeq` left behind. The invariant `LInv` gives every
  node a rank that falls along `next` (`Ranked`); a set `Q` of the nodes the queue was
  ever made of, entered from `Q` only and by no list variable (`Apart`); and the
  queue's last node is its rear unless it is empty (`Ends`). `listSetTail(x, y)` needs a
  new rank: what reaches x's node X is raised above all that y's node Y reaches, to
  d[a] + d[Y] + 1, and `StaysOpen` says that nothing is both. `Following` is a recursive function;
  it is replaced by paths, sequences of nodes, of which a list has exactly
  one (`PathFollowed`, by set induction), and each operation conses, drops,
  copies or appends a path.
* `StructuresProofs`. Arrays: `ArrayInItsBlock`, `ArrayImplementsVector`, for any element type and any
  number of growths. Pairs: `PairsGiveBack`, for any two integers at every width. Strings:
  `StringImplementsText`: a block `Holds` a text if the text, free of `NUL`, is followed by one;
  the first `NUL` is then at its end, and every operation yields a block that
  holds the text promised. The standard queue: `StdQueueImplementsFifo`: links lead
  to cells made later (`Forward`), so there is no cycle, and the cells from `fs` form a path that
  ends at `ls` and has `len` cells (`Whole`). `StructuresHold` puts these and `ListsProofs`
  together for the specification that the run `structures` checks; `Parts` shows that
  a behaviour of it is one of each component. Assumed: `StructuresAssumption`
  (`NUL` is no character, the half word is not empty).
* `StackWalkProofs`. `WalkIsLexical`, `WalkerNeverLost`, `WalkNeverSticks` and `WalkTyping` for any
  numbers of effects, handlers, frames, capabilities and labels. Three steps:
  1. `RowTranslatesClue`: the row `hopper.ml` writes for a call takes each clue of
     the callee to the caller's clue for the same handler; in particular a row
     treated as constant, or left out as empty, loses nothing.
  2. `Stack`, the invariant of the frames. `Scoped` (what code names is installed
     below it) is not inductive, for a resumption is put on other frames than it was taken from.
     So `Within` says what the code of a captured stack can name: handlers on that
     stack, and what is reached from the captures of the handler at its base. The
     reaching is written as membership of every closed set, since recursion
     and induction are out of reach. `Resumable` says that the frames from which a
     resumption was taken are still there as far as it can name them, and that
     no handler installed since has a name that it uses; `Join` then puts it back. Frames are pushed by
     `PushOne` and popped by `PopTo`.
  3. `Chain`, the invariant of the walk: the clue means the handler at one position,
     and each clue set aside means, to that handler's captures, the handler
     at a lower one; the last is the one the raise names. One lemma per way
     outwards (`StepOn`, `StepAside`, `StepBack`).

The theorems in the pools about lists (`CountIsLength`, `NoGStackIsLost`) and others that need
induction over the naturals use it in the form of well-founded sets
(`LeastNatural`, `NatSetInduction`): a nonempty set of naturals has a least element.

Only model-checked: `WalkEnds`, since liveness is out of the prover's reach. Its safety
half is proved, `WalkNeverSticks`: a round of the loop is possible until the handler is
found, and each leaves fewer frames to go over; what TLC adds is that a possible round is
taken, from the fairness of `WalkStep`.

## 6. What is left

1. `StackWalk` with several resumptions and with copies: finding 4 carried to the
   wrong handler. Dropping the abort half of `Copyable` needs the contents of memory
   above a stack pointer.
2. Closure conversion, against an evaluator on bounded terms.

## 7. Not modelled

* Parsers and lexers (grammar files), the driver (runs the tools in order), the Racket
  formalisation (a formal model itself).
* LLVM passes: rewrites of IR and assembler, whose specification is LLVM's. What
  they achieve, that a call carries its metadata, is the assumption under which
  the rows of `StackWalk` belong to their calls.
* Closure conversion and the text that code generation writes: pure functions, whose
  correctness needs a semantics of the source language and of C.
* Of the tables: reading DWARF and stack maps, packing cells into words, and with it
  that an index fits a hexadecimal digit and a row its 34 words (`hopper.ml:18`,
  `stackwalk.c:13`; nothing checks the first).
* Of the data structures: trees, floats, printing, and readers that change no state.
* libmprompt, the collector and the C allocator beyond what the runtime uses of
  them; contents of registers other than arguments; alignment of stack pointers; the
  memory above a stack pointer.
