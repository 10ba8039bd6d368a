------------------------ MODULE RaiseDispatchProofs ------------------------
(***************************************************************************)
(* For headers of any size, any operations, arguments and free variables:  *)
(* under the client contract a raise runs the declared operation with its  *)
(* arguments.                                                              *)
(***************************************************************************)
EXTENDS RaiseDispatch, TLAPS

Fit(ds, fv) ==
  /\ ds \in Seq(Def) /\ Len(ds) \in 1 .. NDEFS
  /\ fv \in Seq(Vals) /\ Len(fv) <= NENV

\* What is laid out for operations ds and free variables fv.
LaidOut(h, ds, fv) ==
  /\ DOMAIN h = header_t
  /\ \A i \in 1 .. Len(ds) : h[At_def_mode(i - 1)] = ds[i].mode /\ h[At_def_func(i - 1)] = ds[i].func
  /\ \A i \in 1 .. Len(fv) : h[At_env + i - 1] = fv[i]
  /\ (\E i \in 1 .. Len(ds) : ds[i].mode # "TAIL") =>
        h[At_exchanger] = Saved /\ h[At_exchanger_ptr] = Exchanger

LEMMA DefWordsFacts ==
  ASSUME NEW ds \in Seq(Def), Len(ds) \in 1 .. NDEFS
  PROVE  /\ DefWords(ds) \in Seq(Modes \cup Funs)
         /\ Len(DefWords(ds)) = 2 * Len(ds)
         /\ \A i \in 1 .. Len(ds) : /\ DefWords(ds)[2 * i - 1] = ds[i].mode
                                    /\ DefWords(ds)[2 * i] = ds[i].func
<1>1. \A w \in 1 .. 2 * Len(ds) :
        /\ w % 2 = 1 => (w + 1) \div 2 \in 1 .. Len(ds)
        /\ w % 2 # 1 => w \div 2 \in 1 .. Len(ds)
  BY DEF NDEFS
<1>2. \A i \in 1 .. Len(ds) : ds[i].mode \in Modes /\ ds[i].func \in Funs
  <2>1. \A i \in 1 .. Len(ds) : ds[i] \in Def
    OBVIOUS
  <2> QED BY <2>1 DEF Def
<1>3. \A w \in 1 .. 2 * Len(ds) : DefWords(ds)[w] \in Modes \cup Funs
  BY <1>1, <1>2 DEF DefWords
<1>4. Len(ds) \in Nat /\ DefWords(ds) = [w \in 1 .. 2 * Len(ds) |-> DefWords(ds)[w]]
  BY DEF DefWords
<1>5. DefWords(ds) \in [1 .. 2 * Len(ds) -> Modes \cup Funs]
  BY <1>3, <1>4
<1>6. DefWords(ds) \in Seq(Modes \cup Funs) /\ Len(DefWords(ds)) = 2 * Len(ds)
  BY <1>4, <1>5
<1>7. ASSUME NEW i \in 1 .. Len(ds)
      PROVE  DefWords(ds)[2 * i - 1] = ds[i].mode /\ DefWords(ds)[2 * i] = ds[i].func
  <2>1. /\ 2 * i - 1 \in 1 .. 2 * Len(ds) /\ (2 * i - 1) % 2 = 1 /\ (2 * i - 1 + 1) \div 2 = i
        /\ 2 * i \in 1 .. 2 * Len(ds) /\ (2 * i) % 2 # 1 /\ (2 * i) \div 2 = i
    OBVIOUS
  <2> QED BY <2>1 DEF DefWords
<1> QED BY <1>6, <1>7

\* The places there are for two operations.
LEMMA OneOrTwo ==
  ASSUME NEW n \in 1 .. 2, NEW i \in 1 .. n
  PROVE  n \in {1, 2} /\ i \in {1, 2} /\ i <= n
OBVIOUS

\* What fits is not cut.
LEMMA FittingAll ==
  ASSUME NEW S, NEW s \in Seq(S), NEW n \in Nat, Len(s) <= n
  PROVE  Fitting(s, n) = s
<1>1. Fitting(s, n) = SubSeq(s, 1, Len(s))
  BY DEF Fitting
<1> QED BY <1>1

\* A header with both parts written, of either kind.
LEMMA Written ==
  ASSUME NENV \in Nat,
         NEW ds, NEW fv, Fit(ds, fv),
         NEW m, DOMAIN m = header_t
  PROVE  LET h == memcpy(memcpy(m, At_def_mode(0), DefWords(ds)), At_env, fv) IN
         /\ DOMAIN h = header_t
         /\ \A i \in 1 .. Len(ds) : /\ h[At_def_mode(i - 1)] = ds[i].mode
                                    /\ h[At_def_func(i - 1)] = ds[i].func
         /\ \A i \in 1 .. Len(fv) : h[At_env + i - 1] = fv[i]
<1> USE DEF At_def_mode, At_def_func, At_env, At_exchanger, At_exchanger_ptr, NDEFS
<1> DEFINE g == memcpy(m, At_def_mode(0), DefWords(ds))
           h == memcpy(g, At_env, fv)
<1>1. /\ ds \in Seq(Def) /\ Len(ds) \in 1 .. 2
      /\ fv \in Seq(Vals) /\ Len(fv) \in 0 .. NENV
  BY DEF Fit
<1>2. /\ Len(DefWords(ds)) = 2 * Len(ds) /\ DOMAIN DefWords(ds) = 1 .. 2 * Len(ds)
      /\ \A i \in 1 .. Len(ds) : /\ DefWords(ds)[2 * i - 1] = ds[i].mode
                                 /\ DefWords(ds)[2 * i] = ds[i].func
  BY <1>1, DefWordsFacts
<1>3. DOMAIN g = header_t /\ DOMAIN h = header_t
  BY DEF memcpy
<1>4. \A w \in header_t : g[w] = IF w \in 1 .. 2 * Len(ds) THEN DefWords(ds)[w] ELSE m[w]
  BY <1>2 DEF memcpy, header_t
<1>5. \A w \in header_t : h[w] = IF w - 4 \in 1 .. Len(fv) THEN fv[w - 4] ELSE g[w]
  BY <1>1, <1>3 DEF memcpy, header_t
<1>6. ASSUME NEW i \in 1 .. Len(ds)
      PROVE  h[At_def_mode(i - 1)] = ds[i].mode /\ h[At_def_func(i - 1)] = ds[i].func
  <2>1. i \in {1, 2} /\ i <= Len(ds) /\ Len(ds) \in {1, 2}
    BY <1>1, OneOrTwo
  <2>2. header_t = 0 .. 6 + NENV /\ 6 + NENV >= 6
    BY DEF header_t
  <2>3. /\ 2 * i - 1 \in header_t /\ 2 * i \in header_t
        /\ 2 * i - 1 \in 1 .. 2 * Len(ds) /\ 2 * i \in 1 .. 2 * Len(ds)
    BY <2>1, <2>2
  <2>4. 2 * i - 1 - 4 \notin 1 .. Len(fv) /\ 2 * i - 4 \notin 1 .. Len(fv)
    BY <2>1
  <2>5. At_def_mode(i - 1) = 2 * i - 1 /\ At_def_func(i - 1) = 2 * i
    BY <2>1
  <2> QED BY <2>3, <2>4, <2>5, <1>2, <1>4, <1>5
<1>7. ASSUME NEW i \in 1 .. Len(fv)
      PROVE  h[At_env + i - 1] = fv[i]
  <2>1. At_env + i - 1 = i + 4 /\ i + 4 \in header_t /\ i + 4 - 4 = i
    BY <1>1 DEF header_t
  <2> QED BY <2>1, <1>5
<1> QED BY <1>3, <1>6, <1>7

LEMMA HeaderLaidOut ==
  ASSUME NENV \in Nat, NEW ds, NEW fv, Fit(ds, fv)
  PROVE  LaidOut(IF handler_mode(ds) = "MULTISHOT" THEN OnOwnStack(ds, fv) ELSE InStack(ds, fv), ds, fv)
<1> USE DEF At_mode, At_def_mode, At_def_func, At_env, At_exchanger, At_exchanger_ptr, NDEFS
<1>1. /\ ds \in Seq(Def) /\ Len(ds) \in 1 .. 2
      /\ fv \in Seq(Vals) /\ Len(fv) \in 0 .. NENV
  BY DEF Fit
<1>2. /\ 0 \in header_t /\ At_exchanger \in header_t /\ At_exchanger_ptr \in header_t
      /\ \A i \in 1 .. Len(ds) : /\ At_def_mode(i - 1) \in header_t \ {0, At_exchanger, At_exchanger_ptr}
                                 /\ At_def_func(i - 1) \in header_t \ {0, At_exchanger, At_exchanger_ptr}
      /\ \A i \in 1 .. Len(fv) : At_env + i - 1 \in header_t \ {0, At_exchanger, At_exchanger_ptr}
      /\ At_exchanger # 0 /\ At_exchanger_ptr # 0 /\ At_exchanger # At_exchanger_ptr
  <2>1. header_t = 0 .. 6 + NENV /\ At_exchanger = 5 + NENV /\ At_exchanger_ptr = 6 + NENV /\ At_env = 5
    BY DEF header_t
  <2>2. \A i \in 1 .. Len(ds) : i \in {1, 2}
    BY <1>1, OneOrTwo
  <2>3. \A i \in {1, 2} : /\ At_def_mode(i - 1) \in {1, 3} /\ At_def_func(i - 1) \in {2, 4}
    OBVIOUS
  <2>4. {1, 2, 3, 4} \subseteq header_t \ {0, At_exchanger, At_exchanger_ptr}
    BY <2>1
  <2>5. \A i \in 1 .. Len(fv) : At_env + i - 1 \in header_t \ {0, At_exchanger, At_exchanger_ptr}
    BY <1>1, <2>1
  <2> HIDE DEF At_mode, At_def_mode, At_def_func
  <2>6. \A i \in 1 .. Len(ds) : /\ At_def_mode(i - 1) \in header_t \ {0, At_exchanger, At_exchanger_ptr}
                                 /\ At_def_func(i - 1) \in header_t \ {0, At_exchanger, At_exchanger_ptr}
    <3> HIDE DEF At_exchanger, At_exchanger_ptr
    <3> QED BY <2>2, <2>3, <2>4
  <2>7. /\ 0 \in header_t /\ At_exchanger \in header_t /\ At_exchanger_ptr \in header_t
        /\ At_exchanger # 0 /\ At_exchanger_ptr # 0 /\ At_exchanger # At_exchanger_ptr
    BY <2>1
  <2> QED BY <2>5, <2>6, <2>7
<1>3. CASE handler_mode(ds) = "MULTISHOT"
  <2> DEFINE stub == memcpy(memcpy([w \in header_t |-> Junk], At_def_mode(0), DefWords(ds)), At_env, fv)
  <2>1. /\ DOMAIN stub = header_t
        /\ \A i \in 1 .. Len(ds) : /\ stub[At_def_mode(i - 1)] = ds[i].mode
                                   /\ stub[At_def_func(i - 1)] = ds[i].func
        /\ \A i \in 1 .. Len(fv) : stub[At_env + i - 1] = fv[i]
    BY Written
  <2>2. OnOwnStack(ds, fv) = [stub EXCEPT ![At_mode] = "MULTISHOT",
                                ![At_exchanger_ptr] = Exchanger, ![At_exchanger] = Saved]
    BY DEF OnOwnStack
  <2> HIDE DEF stub
  <2>3. LaidOut(OnOwnStack(ds, fv), ds, fv)
    BY <1>2, <2>1, <2>2 DEF LaidOut
  <2> QED BY <1>3, <2>3
<1>4. CASE handler_mode(ds) # "MULTISHOT"
  <2> DEFINE stub == memcpy(memcpy([w \in header_t |-> Zero], At_def_mode(0), DefWords(ds)), At_env, fv)
  <2>1. /\ DOMAIN stub = header_t
        /\ \A i \in 1 .. Len(ds) : /\ stub[At_def_mode(i - 1)] = ds[i].mode
                                   /\ stub[At_def_func(i - 1)] = ds[i].func
        /\ \A i \in 1 .. Len(fv) : stub[At_env + i - 1] = fv[i]
    BY Written
  <2>2. Fitting(DefWords(ds), 2 * NDEFS) = DefWords(ds) /\ Fitting(fv, NENV) = fv
    BY <1>1, DefWordsFacts, FittingAll, SMTT(20)
  <2>3. InStack(ds, fv) =
          IF handler_mode(ds) = "TAIL" THEN [stub EXCEPT ![At_mode] = "TAIL"]
          ELSE [stub EXCEPT ![At_mode] = "ABORT",
                            ![At_exchanger] = Saved, ![At_exchanger_ptr] = Exchanger]
    BY <2>2 DEF InStack
  <2>4. handler_mode(ds) = "TAIL" => \A i \in 1 .. Len(ds) : ds[i].mode = "TAIL"
    BY <1>1 DEF handler_mode
  <2> HIDE DEF stub
  <2>5. LaidOut(InStack(ds, fv), ds, fv)
    BY <1>2, <2>1, <2>3, <2>4 DEF LaidOut
  <2> QED BY <1>4, <2>5
<1> QED BY <1>3, <1>4

-----------------------------------------------------------------------------
Inv ==
  /\ header = NoHeader => call = NoCall
  /\ header # NoHeader => Fit(defs, free) /\ LaidOut(header, defs, free)
  /\ call # NoCall => raised.index + 1 \in 1 .. Len(defs)
  /\ OperationGetsItsArguments

\* Every raise runs the operation that was declared, with its arguments, its
\* resumption, its free variables and the way back, whatever is in the header of
\* a handler that keeps to the contract (HANDLE and RAISE of stacktrek.h).
THEOREM DispatchIsFaithful ==
  ASSUME NENV \in Nat, Allow = {}
  PROVE  Spec => []OperationGetsItsArguments
<1>1. Init => Inv
  BY DEF Init, Inv, OperationGetsItsArguments
<1>2. Inv /\ [Next]_vars => Inv'
  <2> SUFFICES ASSUME Inv, [Next]_vars
               PROVE  Inv'
    OBVIOUS
  <2>1. ASSUME NEW z \in BOOLEAN, NEW n \in 1 .. MaxDefs, NEW m \in 0 .. MaxEnv,
               NEW ds \in [1 .. n -> Def], NEW fv \in [1 .. m -> Vals],
               HANDLE(z, ds, fv)
        PROVE  Inv'
    <3>1. CASE UNCHANGED <<defs, free, zero_cost, header, raised, call>>
      BY <3>1 DEF Inv, OperationGetsItsArguments, LaidOut, Fit, ResumptionOf
    <3>2. CASE /\ Len(ds) <= 3
               /\ header' = IF handler_mode(ds) = "MULTISHOT" THEN OnOwnStack(ds, fv) ELSE InStack(ds, fv)
               /\ defs' = ds /\ free' = fv
               /\ UNCHANGED call
      <4>1. ds \in Seq(Def) /\ Len(ds) = n /\ fv \in Seq(Vals) /\ Len(fv) = m
        OBVIOUS
      <4>2. Fit(ds, fv)
        BY <4>1, <2>1, <3>2 DEF Fit, HANDLE, NotThreeOperations, FreeVariablesFit, NDEFS
      <4>3. LaidOut(header', defs', free')
        BY <3>2, <4>2, HeaderLaidOut
      <4>4. call' = NoCall
        BY <2>1, <3>2 DEF Inv, HANDLE
      <4>5. Fit(defs, free)'
        BY <3>2, <4>2 DEF Fit
      <4>6. LaidOut(header, defs, free)'
        BY <4>3 DEF LaidOut
      <4> QED BY <4>4, <4>5, <4>6 DEF Inv, OperationGetsItsArguments
    <3> QED BY <2>1, <3>1, <3>2 DEF HANDLE
  <2>2. CASE Return
    BY <2>2 DEF Return, Inv, OperationGetsItsArguments
  <2>3. ASSUME NEW index \in 0 .. Len(defs) - 1, NEW n \in 0 .. MaxArgs,
               NEW args \in [1 .. n -> Vals],
               RAISE(index, args)
        PROVE  Inv'
    <3>1. UNCHANGED <<defs, free, zero_cost, header>> /\ header # NoHeader
      BY <2>3 DEF RAISE
    <3>2. Fit(defs, free) /\ LaidOut(header, defs, free)
      BY <3>1 DEF Inv
    <3>3. CASE UNCHANGED <<raised, call>>
      BY <3>1, <3>3 DEF Inv, OperationGetsItsArguments, LaidOut, Fit, ResumptionOf
    <3>4. CASE /\ Len(args) <= 3
               /\ raised' = [index |-> index, args |-> args]
               /\ call' = Dispatch(header[At_def_mode(index)], header[At_def_func(index)], args)
      <4> DEFINE i == index + 1
                 d == defs[i]
      <4>1. i \in 1 .. Len(defs) /\ d \in Def /\ i - 1 = index
        BY <3>2 DEF Fit
      <4>2. header[At_def_mode(index)] = d.mode /\ header[At_def_func(index)] = d.func
        BY <3>2, <4>1 DEF LaidOut
      <4>3. d.mode # "TAIL" => header[At_exchanger] = Saved /\ header[At_exchanger_ptr] = Exchanger
        BY <3>2, <4>1 DEF LaidOut
      <4>4. call' = Dispatch(d.mode, d.func, args)
        BY <3>4, <4>2
      <4>5. d.mode = "TAIL" => TailArgs(args) = args
        <5>1. Len(args) = n
          OBVIOUS
        <5>2. zero_cost /\ d.mode = "TAIL" => Len(args) <= 2
          BY <2>3 DEF RAISE, ArgumentsTwoIfTail
        <5> QED BY <5>1, <5>2 DEF TailArgs
      <4>6. args \in Seq(Vals)
        OBVIOUS
      <4>7. call'.mode = d.mode /\ call'.func = d.func
        BY <4>4 DEF Dispatch
      <4>8. call'.regs = <<Env>> \o args \o ResumptionOf(d.mode)
        <5>1. d.mode \in Modes
          BY <4>1 DEF Def
        <5>2. (<<Env>> \o args) \o << >> = <<Env>> \o args
          BY <4>6
        <5>3. CASE d.mode = "TAIL"
          BY <4>4, <4>5, <5>2, <5>3 DEF Dispatch, ResumptionOf
        <5>4. CASE d.mode = "ABORT"
          BY <4>4, <5>2, <5>4 DEF Dispatch, ResumptionOf
        <5>5. CASE d.mode = "SINGLESHOT"
          BY <4>3, <4>4, <5>5 DEF Dispatch, ResumptionOf
        <5>6. CASE d.mode = "MULTISHOT"
          BY <4>4, <5>6 DEF Dispatch, ResumptionOf
        <5> QED BY <5>1, <5>3, <5>4, <5>5, <5>6 DEF Modes
      <4>9. d.mode # "TAIL" => call'.exc = Exchanger
        BY <4>3, <4>4 DEF Dispatch
      <4>10. raised'.index + 1 = i /\ raised'.args = args
        BY <3>4
      <4>11. OperationGetsItsArguments'
        <5>1. \A j \in DOMAIN free : header[At_env + j - 1] = free[j]
          <6>1. free \in Seq(Vals)
            BY <3>2 DEF Fit
          <6>2. DOMAIN free = 1 .. Len(free)
            BY <6>1
          <6>3. \A j \in 1 .. Len(free) : header[At_env + j - 1] = free[j]
            BY <3>2 DEF LaidOut
          <6> QED BY <6>2, <6>3
        <5>2. defs'[raised'.index + 1] = d /\ free' = free /\ header' = header
          BY <3>1, <4>10
        <5>3. call'.regs = <<Env>> \o raised'.args \o ResumptionOf(d.mode)
          BY <4>8, <4>10
        <5>4. d.mode # "TAIL" => call'.exc = Exchanger /\ header'[At_exchanger] = Saved
          BY <4>3, <4>9, <5>2
        <5>5. \A j \in DOMAIN free' : header'[At_env + j - 1] = free'[j]
          BY <5>1, <5>2
        <5> HIDE DEF d
        <5> QED
          BY <4>7, <5>2, <5>3, <5>4, <5>5 DEF OperationGetsItsArguments, ResumptionOf
      <4> QED BY <3>1, <3>2, <4>1, <4>10, <4>11 DEF Inv, Fit, LaidOut
    <3> QED BY <2>3, <3>3, <3>4 DEF RAISE
  <2>4. CASE UNCHANGED vars
    BY <2>4 DEF vars, Inv, OperationGetsItsArguments, LaidOut, Fit, ResumptionOf
  <2> QED BY <2>1, <2>2, <2>3, <2>4 DEF Next
<1>3. Inv => OperationGetsItsArguments
  BY DEF Inv
<1> QED BY <1>1, <1>2, <1>3, PTL DEF Spec
=============================================================================
