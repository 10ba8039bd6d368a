--------------------------- MODULE RaiseDispatch ---------------------------
(***************************************************************************)
(* The header of a handler: how HANDLE and HANDLEZ lay it out, and how     *)
(* RAISE and RAISEZ find an operation in it and pass its arguments, word   *)
(* by word.  Which stack the operation runs on is StackTrek's subject; how *)
(* RAISEZ finds the header, StackWalk's.                                   *)
(***************************************************************************)
EXTENDS Integers, Sequences

CONSTANTS
  NENV,         \* words of a header's env (10 in common.h)
  Funs,        \* the code of operations
  Vals,        \* values of the program
  MaxDefs, MaxEnv, MaxArgs,  \* bounds: operations, free variables, arguments
  Allow        \* parts of the client contract that are not assumed

Modes == {"ABORT", "SINGLESHOT", "MULTISHOT", "TAIL"}

\* Words besides functions, values and modes.
Zero == "zero"                 \* of an initialiser that names no value
Junk == "junk"                 \* of a fresh stack
Env  == "env"                  \* the address of env in the header
Exchanger == "exchanger"       \* the address of exchanger in the header
Saved == "saved_sp"            \* the installer's stack pointer
Resumption == "resumption"     \* the resumption_t that RAISE_M allocates

\* header_t, by word.
NDEFS == 2
At_mode == 0
At_def_mode(index) == 1 + 2 * index
At_def_func(index) == 2 + 2 * index
At_env  == 1 + 2 * NDEFS
At_exchanger == At_env + NENV
At_exchanger_ptr == At_exchanger + 1
header_t == 0 .. At_exchanger_ptr

VARIABLES
  defs, free,  \* what the handler installed declares: operations, free variables
  zero_cost,   \* it was installed by HANDLEZ
  header,      \* its header
  raised,      \* the last operation raised: index and arguments
  call,        \* what the raise calls: the code, the registers, the exchanger
  exited       \* the program was stopped

vars == <<defs, free, zero_cost, header, raised, call, exited>>

NoHeader == [word \in {} |-> Zero]
NoRaise  == [index |-> 0, args |-> <<>>]
NoCall   == [mode |-> Zero, func |-> Zero, regs |-> <<>>, exc |-> Zero]

Init ==
  /\ defs = <<>> /\ free = <<>> /\ zero_cost = FALSE
  /\ header = NoHeader
  /\ raised = NoRaise /\ call = NoCall
  /\ exited = FALSE

-----------------------------------------------------------------------------
(***************************************************************************)
(* HANDLE and HANDLEZ                                                      *)
(***************************************************************************)
\* Words written into memory m from word at on; what does not fit is not in the
\* header.
memcpy(m, at, words) ==
  [w \in DOMAIN m |-> IF w - at + 1 \in DOMAIN words THEN words[w - at + 1] ELSE m[w]]

DefWords(ds) ==
  [w \in 1 .. 2 * Len(ds) |-> IF w % 2 = 1 THEN ds[(w + 1) \div 2].mode ELSE ds[w \div 2].func]

\* An initialiser drops what is too many for the array.
Fitting(s, n) == SubSeq(s, 1, IF Len(s) < n THEN Len(s) ELSE n)

handler_mode(ds) ==
  IF \A i \in DOMAIN ds : ds[i].mode = "TAIL" THEN "TAIL"
  ELSE IF \E i \in DOMAIN ds : ds[i].mode \in {"SINGLESHOT", "MULTISHOT"} THEN "MULTISHOT"
  ELSE "ABORT"

\* A stub in the installer's frame; with the exchanger if an operation may abort.
InStack(ds, fv) ==
  LET stub == memcpy(memcpy([w \in header_t |-> Zero],
                            At_def_mode(0), Fitting(DefWords(ds), 2 * NDEFS)),
                     At_env, Fitting(fv, NENV))
  IN IF handler_mode(ds) = "TAIL" THEN [stub EXCEPT ![At_mode] = "TAIL"]
     ELSE [stub EXCEPT ![At_mode] = "ABORT",
                       ![At_exchanger] = Saved, ![At_exchanger_ptr] = Exchanger]

\* A stub on a stack of its own; ENTER saves the stack pointer before the body.
OnOwnStack(ds, fv) ==
  LET stub == memcpy(memcpy([w \in header_t |-> Junk], At_def_mode(0), DefWords(ds)), At_env, fv)
  IN [stub EXCEPT ![At_mode] = "MULTISHOT",
                  ![At_exchanger_ptr] = Exchanger, ![At_exchanger] = Saved]

(***************************************************************************)
(* Client contract: the code generator relies on it, and checks none of it *)
(***************************************************************************)
NotThreeOperations(ds) == Len(ds) # 3 \/ "three_operations" \in Allow
FreeVariablesFit(fv) == Len(fv) <= NENV \/ "free_variables" \in Allow
ArgumentsTwoIfTail(z, ds, i, args) ==
  z /\ ds[i].mode = "TAIL" => Len(args) <= 2 \/ "three_arguments" \in Allow

HANDLE(z, ds, fv) ==
  /\ ~exited /\ header = NoHeader
  /\ NotThreeOperations(ds) /\ FreeVariablesFit(fv)
  /\ \/ /\ Len(ds) > 3
        /\ exited' = TRUE
        /\ UNCHANGED <<defs, free, zero_cost, header, raised, call>>
     \/ /\ Len(ds) <= 3
        /\ defs' = ds /\ free' = fv /\ zero_cost' = z
        /\ header' = IF handler_mode(ds) = "MULTISHOT" THEN OnOwnStack(ds, fv) ELSE InStack(ds, fv)
        /\ UNCHANGED <<raised, call, exited>>

\* The body has returned.
Return ==
  /\ ~exited /\ header # NoHeader
  /\ defs' = <<>> /\ free' = <<>> /\ zero_cost' = FALSE
  /\ header' = NoHeader
  /\ raised' = NoRaise /\ call' = NoCall
  /\ UNCHANGED exited

-----------------------------------------------------------------------------
(***************************************************************************)
(* RAISE and RAISEZ                                                        *)
(***************************************************************************)
\* RAISEZ's call of a tail operation with three arguments loads the second twice.
TailArgs(args) == IF zero_cost /\ Len(args) = 3 THEN <<args[1], args[2], args[2]>> ELSE args

\* The operation as the header has it: a plain call, or raise_table's entry of
\* its mode.  rdi has env; rsi, rdx, rcx the arguments; the next one what the
\* operation gets as its resumption.
Dispatch(mode, func, args) ==
  [mode |-> mode, func |-> func,
   regs |-> CASE mode = "TAIL"       -> <<Env>> \o TailArgs(args)
              [] mode = "ABORT"      -> <<Env>> \o args
              [] mode = "SINGLESHOT" -> <<Env>> \o args \o <<header[At_exchanger_ptr]>>
              [] mode = "MULTISHOT"  -> <<Env>> \o args \o <<Resumption>>
              [] OTHER               -> <<>>,
   exc  |-> IF mode = "TAIL" THEN Zero ELSE header[At_exchanger_ptr]]

RAISE(index, args) ==
  /\ ~exited /\ header # NoHeader
  /\ ArgumentsTwoIfTail(zero_cost, defs, index + 1, args)
  /\ \/ /\ Len(args) > 3
        /\ exited' = TRUE
        /\ UNCHANGED <<raised, call>>
     \/ /\ Len(args) <= 3
        /\ raised' = [index |-> index, args |-> args]
        /\ call' = Dispatch(header[At_def_mode(index)], header[At_def_func(index)], args)
        /\ UNCHANGED exited
  /\ UNCHANGED <<defs, free, zero_cost, header>>

Def == [mode : Modes, func : Funs]

Next ==
  \/ \E z \in BOOLEAN, n \in 1 .. MaxDefs, m \in 0 .. MaxEnv :
       \E ds \in [1 .. n -> Def], fv \in [1 .. m -> Vals] : HANDLE(z, ds, fv)
  \/ Return
  \/ \E index \in 0 .. Len(defs) - 1, n \in 0 .. MaxArgs :
       \E args \in [1 .. n -> Vals] : RAISE(index, args)

Spec == Init /\ [][Next]_vars

-----------------------------------------------------------------------------
(***************************************************************************)
(* Properties                                                              *)
(***************************************************************************)
\* What the operation is declared to get for its resumption.
ResumptionOf(mode) ==
  CASE mode = "SINGLESHOT" -> <<Exchanger>>
    [] mode = "MULTISHOT"  -> <<Resumption>>
    [] OTHER -> <<>>

\* The operation that runs is the declared one, in its mode, with the arguments
\* of the raise in their order, a resumption where its mode has one, the
\* handler's free variables in env, and the installer's stack in the exchanger.
OperationGetsItsArguments ==
  call # NoCall =>
    LET d == defs[raised.index + 1] IN
    /\ call.mode = d.mode /\ call.func = d.func
    /\ call.regs = <<Env>> \o raised.args \o ResumptionOf(d.mode)
    /\ \A i \in DOMAIN free : header[At_env + i - 1] = free[i]
    /\ d.mode # "TAIL" => call.exc = Exchanger /\ header[At_exchanger] = Saved
=============================================================================
