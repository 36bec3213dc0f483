----------------------------- MODULE MlisjProofs -----------------------------
(***************************************************************************)
(* For every size of the tables that holds the registrations, a call of    *)
(* mlisj_eval frees every block once, leaves none behind and reports a     *)
(* malloc that failed.                                                     *)
(*                                                                         *)
(* The argument: what end_lispenv would free is all there is on the heap,  *)
(* but for the blocks of the component being made.  That needs to know     *)
(* that no registration fails, hence how full the tables are.              *)
(***************************************************************************)
EXTENDS Mlisj, TLAPS

\* The stages in which init_lispenv has returned an environment.
Served == {"register", "read", "evaluate", "exit"}

PlaceOK ==
    /\ pc \in {"idle", "env", "init"} \cup Served
    /\ init \in [component : 0 .. Len(Components), block : 0 .. 5]
    /\ pc = "init" => init.component > 0 /\ init.block \in 1 .. Len(TheseBlocks)

\* end_lispenv would leave exactly the blocks of the unfinished component.
HeapIsReachable ==
    /\ fields \subseteq ElementsOf(Components)
    /\ pc \in {"idle", "env"} => heap = {}
    /\ pc = "init" => heap = EndLispenv \cup OwnBlocks
    /\ pc \in Served => heap = EndLispenv

\* How many of the first r registrations are of variables.
VariablesAmong(r) == IF r <= 11 THEN 0 ELSE IF r <= 15 THEN r - 11 ELSE IF r <= 23 THEN 4 ELSE 5

TablesCount ==
    /\ registered \in 0 .. 24
    /\ used = [symbol |-> 2 + registered,
               function |-> registered - VariablesAmong(registered),
               variable |-> VariablesAmong(registered)]

ReplyOK ==
    /\ reply \in [code : {"OK", "EVALUATION", "RUNTIME"}, written : BOOLEAN]
    /\ reply.written <=> reply.code = "OK"
    /\ failed \in BOOLEAN
    /\ failed => pc = "idle" /\ reply = Reply("RUNTIME", FALSE)

IInv == PlaceOK /\ HeapIsReachable /\ TablesCount /\ ReplyOK /\ misused = FALSE
-----------------------------------------------------------------------------
(* The sequences of the source. *)

\* init_lispenv makes four components.
LEMMA ComponentFacts ==
    /\ Len(Components) = 4 /\ DOMAIN Components = 1 .. 4
    /\ \A k \in 1 .. 4 : Components[k] \in ElementsOf(Components)
  BY DEF Components, ElementsOf

\* Every component has one to five blocks, and Blocks are all of them.
LEMMA BlockFacts ==
    ASSUME NEW c \in ElementsOf(Components)
    PROVE  /\ Len(BlocksOf(c)) \in 1 .. 5
           /\ DOMAIN BlocksOf(c) = 1 .. Len(BlocksOf(c))
           /\ ElementsOf(BlocksOf(c)) \subseteq Blocks
<1>1. c \in {"mempool", "symbol_pool", "variable_pool", "func_pool"}
  BY DEF Components, ElementsOf
<1>2. Len(BlocksOf(c)) \in 1 .. 5 /\ DOMAIN BlocksOf(c) = 1 .. Len(BlocksOf(c))
  <2>1. CASE c = "mempool"
    BY <2>1 DEF BlocksOf
  <2>2. CASE c = "symbol_pool"
    BY <2>2 DEF BlocksOf
  <2>3. CASE c = "variable_pool"
    BY <2>3 DEF BlocksOf
  <2>4. CASE c = "func_pool"
    BY <2>4 DEF BlocksOf
  <2> QED
    BY <1>1, <2>1, <2>2, <2>3, <2>4
<1>3. ElementsOf(BlocksOf(c)) \subseteq Blocks
  BY DEF Blocks
<1> QED
  BY <1>2, <1>3

\* Counting the functions and variables among the registrations.
LEMMA RegistrationFacts ==
    /\ Len(Registrations) = 24
    /\ \A r \in 0 .. 23 :
          Registrations[r + 1] = IF VariablesAmong(r + 1) = VariablesAmong(r) THEN "function"
                                 ELSE "variable"
    /\ \A r \in 0 .. 23 : VariablesAmong(r + 1) \in {VariablesAmong(r), VariablesAmong(r) + 1}
    /\ \A r \in 0 .. 24 : VariablesAmong(r) \in 0 .. 5 /\ r - VariablesAmong(r) \in 0 .. 19
<1>1. /\ Len(Registrations) = 24
      /\ \A i \in 1 .. 24 : Registrations[i] = IF i \in 12 .. 15 \cup {24} THEN "variable"
                                              ELSE "function"
  BY DEF Registrations, FunctionNames, VariableNames
<1>2. \A r \in 0 .. 23 : VariablesAmong(r + 1) =
          IF r + 1 \in 12 .. 15 \cup {24} THEN VariablesAmong(r) + 1 ELSE VariablesAmong(r)
  BY DEF VariablesAmong
<1>3. \A r \in 0 .. 24 : VariablesAmong(r) \in 0 .. 5 /\ r - VariablesAmong(r) \in 0 .. 19
  BY DEF VariablesAmong
<1> QED
  BY <1>1, <1>2, <1>3

\* No registration ever fails: the tables have room for the next one.
LEMMA RegistrationsSucceed ==
    ASSUME TablesCount, registered < 24
    PROVE  CanRegister(Registrations[registered + 1])
<1>1. registered \in 0 .. 23
  BY DEF TablesCount
<1>2. registered + 1 <= 24 /\ VariablesAmong(registered + 1) <= 5
      /\ registered + 1 - VariablesAmong(registered + 1) <= 19
  BY <1>1, RegistrationFacts
<1>3. used.symbol # SYMBOL_TABLE_SIZE
  BY <1>1, TablesSuffice DEF TablesCount, ReservedSymbols, FunctionNames, VariableNames
<1>4. CASE VariablesAmong(registered + 1) = VariablesAmong(registered)
  <2>1. Registrations[registered + 1] = "function"
    BY <1>1, <1>4, RegistrationFacts
  <2>2. used.function < FUNC_TABLE_SIZE
    BY <1>1, <1>2, <1>4, RegistrationFacts, TablesSuffice DEF TablesCount, FunctionNames
  <2> QED
    BY <1>3, <2>1, <2>2 DEF CanRegister
<1>5. CASE VariablesAmong(registered + 1) # VariablesAmong(registered)
  <2>1. Registrations[registered + 1] = "variable"
    BY <1>1, <1>5, RegistrationFacts
  <2>2. VariablesAmong(registered + 1) = VariablesAmong(registered) + 1
    BY <1>1, <1>5, RegistrationFacts
  <2>3. used.variable < VARIABLE_STACK_SIZE
    BY <1>1, <1>2, <2>2, RegistrationFacts, TablesSuffice DEF TablesCount, VariableNames
  <2> QED
    BY <1>3, <2>1, <2>3 DEF CanRegister
<1> QED
  BY <1>4, <1>5
-----------------------------------------------------------------------------
\* Before the first call the invariant holds.
THEOREM InitEstablishes == Init => IInv
<1> SUFFICES ASSUME Init PROVE IInv
  OBVIOUS
<1>1. PlaceOK
  BY ComponentFacts DEF Init, PlaceOK
<1>2. HeapIsReachable
  BY DEF Init, HeapIsReachable, Served
<1>3. TablesCount
  BY DEF Init, TablesCount, VariablesAmong, NothingUsed, ReservedSymbols
<1>4. ReplyOK
  BY DEF Init, ReplyOK, Reply
<1> QED
  BY <1>1, <1>2, <1>3, <1>4 DEF Init, IInv
-----------------------------------------------------------------------------
(* The steps of mlisj_eval, one lemma each. *)

\* Entering mlisj_eval keeps the invariant.
LEMMA CallStep == ASSUME IInv, Call PROVE IInv'
<1> USE DEF IInv, Call
<1>1. PlaceOK'
  BY DEF PlaceOK
<1>2. HeapIsReachable'
  BY DEF HeapIsReachable, Served
<1>3. TablesCount'
  BY DEF TablesCount
<1>4. ReplyOK'
  BY DEF ReplyOK
<1> QED
  BY <1>1, <1>2, <1>3, <1>4

\* The malloc of lispenv_t keeps the invariant, whether or not it succeeds.
LEMMA MallocEnvStep == ASSUME IInv, MallocEnv PROVE IInv'
<1> USE DEF IInv
<1>1. CASE pc' = "init"
  <2> USE <1>1 DEF MallocEnv, NoEnvironment
  <2>1. init' = [component |-> 1, block |-> 1] /\ heap' = heap \cup {"env"} /\ fields' = {}
        /\ UNCHANGED <<registered, used, misused, failed, reply>>
    OBVIOUS
  <2>2. PlaceOK'
    <3>1. Components[1] \in ElementsOf(Components)
      BY ComponentFacts
    <3>2. Len(TheseBlocks') \in 1 .. 5
      BY <2>1, <3>1, BlockFacts DEF TheseBlocks, ThisComponent
    <3>3. init' \in [component : 0 .. Len(Components), block : 0 .. 5]
          /\ init'.component > 0 /\ init'.block = 1
      BY <2>1, ComponentFacts
    <3>4. init'.block \in 1 .. Len(TheseBlocks')
      <4>1. \A n \in 1 .. 5 : 1 \in 1 .. n
        OBVIOUS
      <4> QED
        BY <3>2, <3>3, <4>1, Zenon
    <3> QED
      BY <1>1, <3>3, <3>4 DEF PlaceOK
  <2>3. HeapIsReachable'
    <3>1. OwnBlocks' = {}
      BY <2>1 DEF OwnBlocks
    <3>2. EndLispenv' = {"env"}
      BY <2>1 DEF EndLispenv
    <3>3. heap = {}
      BY DEF HeapIsReachable
    <3> QED
      BY <2>1, <3>1, <3>2, <3>3 DEF HeapIsReachable, Served
  <2>4. TablesCount'
    BY <2>1 DEF TablesCount
  <2>5. ReplyOK'
    BY <2>1 DEF ReplyOK
  <2> QED
    BY <2>1, <2>2, <2>3, <2>4, <2>5
<1>2. CASE pc' # "init"
  <2>1. NoEnvironment /\ pc = "env" /\ UNCHANGED <<heap, fields, misused>>
    BY <1>2 DEF MallocEnv
  <2>2. PlaceOK'
    BY <2>1 DEF PlaceOK, NoEnvironment
  <2>3. HeapIsReachable'
    BY <2>1 DEF HeapIsReachable, NoEnvironment, Served
  <2>4. TablesCount'
    BY <2>1 DEF TablesCount, NoEnvironment
  <2>5. ReplyOK'
    BY <2>1 DEF ReplyOK, NoEnvironment, Reply
  <2> QED
    BY <2>1, <2>2, <2>3, <2>4, <2>5
<1> QED
  BY <1>1, <1>2

\* When a later malloc fails, all blocks are freed, each once.
LEMMA MallocFailsStep == ASSUME IInv, MallocFails PROVE IInv' /\ heap' = {}
<1> USE DEF IInv
<1>1. heap' = {} /\ misused' = FALSE
  BY DEF MallocFails, Free, HeapIsReachable
<1>2. PlaceOK'
  BY DEF PlaceOK, MallocFails, NoEnvironment
<1>3. HeapIsReachable'
  BY <1>1 DEF HeapIsReachable, MallocFails, NoEnvironment, Served
<1>4. TablesCount'
  BY DEF TablesCount, MallocFails, NoEnvironment
<1>5. ReplyOK'
  BY DEF ReplyOK, MallocFails, NoEnvironment, Reply
<1> QED
  BY <1>1, <1>2, <1>3, <1>4, <1>5

\* A malloc that succeeds keeps the heap equal to what cleanup would free.
LEMMA MallocBlockStep == ASSUME IInv, MallocBlock PROVE IInv'
<1> USE DEF IInv
<1>1. /\ init.component \in 1 .. 4
      /\ ThisComponent \in ElementsOf(Components)
      /\ Len(TheseBlocks) \in 1 .. 5 /\ DOMAIN TheseBlocks = 1 .. Len(TheseBlocks)
      /\ init.block \in 1 .. Len(TheseBlocks)
      /\ heap = EndLispenv \cup OwnBlocks
  <2>1. init.component \in 1 .. 4
    BY ComponentFacts DEF PlaceOK, MallocBlock
  <2>2. ThisComponent \in ElementsOf(Components)
    BY <2>1, ComponentFacts DEF ThisComponent
  <2> QED
    BY <2>1, <2>2, BlockFacts DEF TheseBlocks, PlaceOK, HeapIsReachable, MallocBlock
<1>2. ReplyOK' /\ misused' = FALSE
  <2>1. failed = FALSE
    BY DEF ReplyOK, MallocBlock
  <2> QED
    BY <2>1 DEF ReplyOK, MallocBlock
<1>3. CASE init.block # Len(TheseBlocks)
  <2>1. /\ init' = [init EXCEPT !.block = init.block + 1]
        /\ UNCHANGED <<pc, registered, used, fields>>
        /\ heap' = heap \cup {TheseBlocks[init.block]}
    BY <1>3 DEF MallocBlock
  <2>2. init'.component = init.component /\ init'.block = init.block + 1
        /\ init' \in [component : 0 .. Len(Components), block : 0 .. 5]
    <3>1. init \in [component : 0 .. Len(Components), block : 0 .. 5]
      BY DEF PlaceOK
    <3>2. init.block + 1 \in 0 .. 5
      BY <1>1, <1>3, SMTT(30)
    <3> QED
      BY <2>1, <3>1, <3>2
  <2>3. TheseBlocks' = TheseBlocks
    BY <2>2 DEF TheseBlocks, ThisComponent
  <2>4. PlaceOK'
    BY <1>1, <1>3, <2>1, <2>2, <2>3 DEF PlaceOK
  <2>5. OwnBlocks' = OwnBlocks \cup {TheseBlocks[init.block]}
    <3>1. 1 .. init'.block - 1 = (1 .. init.block - 1) \cup {init.block}
      BY <1>1, <2>2
    <3> QED
      BY <2>3, <3>1 DEF OwnBlocks
  <2>6. EndLispenv' = EndLispenv
    BY <2>1 DEF EndLispenv
  <2>7. HeapIsReachable'
    BY <1>1, <2>1, <2>5, <2>6 DEF HeapIsReachable, Served, MallocBlock
  <2>8. TablesCount'
    BY <2>1 DEF TablesCount
  <2> QED
    BY <1>2, <2>4, <2>7, <2>8
<1>4. CASE init.block = Len(TheseBlocks)
  <2>1. Attach /\ heap' = heap \cup {TheseBlocks[init.block]}
    BY <1>4 DEF MallocBlock
  <2>2. EndLispenv' = EndLispenv \cup ElementsOf(TheseBlocks)
    BY <2>1 DEF Attach, EndLispenv, TheseBlocks
  <2>3. ElementsOf(TheseBlocks) = OwnBlocks \cup {TheseBlocks[init.block]}
    <3>1. 1 .. Len(TheseBlocks) = (1 .. init.block - 1) \cup {init.block}
      BY <1>1, <1>4
    <3> QED
      BY <1>1, <3>1 DEF ElementsOf, OwnBlocks
  <2>4. heap' = EndLispenv'
    BY <1>1, <2>1, <2>2, <2>3
  <2>5. fields' \subseteq ElementsOf(Components)
    BY <1>1, <2>1 DEF Attach, HeapIsReachable
  <2>6. CASE init.component = Len(Components)
    <3>1. /\ pc' = "register" /\ registered' = 0 /\ used' = NothingUsed /\ init' = init
      BY <2>1, <2>6 DEF Attach
    <3>2. PlaceOK'
      BY <3>1 DEF PlaceOK, Served
    <3>3. HeapIsReachable'
      BY <2>4, <2>5, <3>1 DEF HeapIsReachable, Served
    <3>4. TablesCount'
      BY <3>1 DEF TablesCount, NothingUsed, ReservedSymbols, VariablesAmong
    <3> QED
      BY <1>2, <3>2, <3>3, <3>4
  <2>7. CASE init.component # Len(Components)
    <3>1. /\ init' = [component |-> init.component + 1, block |-> 1]
          /\ UNCHANGED <<pc, registered, used>>
      BY <2>1, <2>7 DEF Attach
    <3>2. init.component + 1 \in 1 .. 4
      BY <1>1, <2>7, ComponentFacts
    <3>3. PlaceOK'
      <4>1. Components[init.component + 1] \in ElementsOf(Components)
        BY <3>2, ComponentFacts
      <4>2. Len(TheseBlocks') \in 1 .. 5
        BY <3>1, <4>1, BlockFacts DEF TheseBlocks, ThisComponent
      <4>3. init' \in [component : 0 .. Len(Components), block : 0 .. 5]
            /\ init'.component > 0 /\ init'.block = 1
        BY <3>1, <3>2, ComponentFacts
      <4>4. init'.block \in 1 .. Len(TheseBlocks')
        <5>1. \A n \in 1 .. 5 : 1 \in 1 .. n
          OBVIOUS
        <5> QED
          BY <4>2, <4>3, <5>1, Zenon
      <4> QED
        BY <3>1, <4>3, <4>4 DEF PlaceOK
    <3>4. OwnBlocks' = {}
      BY <3>1 DEF OwnBlocks
    <3>5. HeapIsReachable'
      BY <2>4, <2>5, <3>1, <3>4 DEF HeapIsReachable, Served, MallocBlock
    <3>6. TablesCount'
      BY <3>1 DEF TablesCount
    <3> QED
      BY <1>2, <3>3, <3>5, <3>6
  <2> QED
    BY <2>6, <2>7
<1> QED
  BY <1>3, <1>4

\* A registration succeeds, and counts.
LEMMA RegisterStep == ASSUME IInv, Register PROVE IInv' /\ UNCHANGED <<heap, reply>> /\ pc' = pc
<1> USE DEF IInv
<1>1. registered \in 0 .. 23 /\ CanRegister(Registrations[registered + 1])
  BY RegistrationsSucceed, RegistrationFacts DEF Register, TablesCount
<1>2. /\ registered' = registered + 1
      /\ used' = [used EXCEPT !.symbol = @ + 1, ![Registrations[registered + 1]] = @ + 1]
      /\ UNCHANGED <<pc, heap, misused, reply, init, fields, failed>>
  BY <1>1 DEF Register
<1>3. PlaceOK'
  <2>1. TheseBlocks' = TheseBlocks
    BY <1>2 DEF TheseBlocks, ThisComponent
  <2> QED
    BY <1>2, <2>1 DEF PlaceOK
<1>4. HeapIsReachable'
  <2>1. EndLispenv' = EndLispenv /\ OwnBlocks' = OwnBlocks
    BY <1>2 DEF EndLispenv, OwnBlocks, TheseBlocks, ThisComponent
  <2> QED
    BY <1>2, <2>1 DEF HeapIsReachable
<1>5. TablesCount'
  <2>1. PICK v, w \in Nat : /\ v = VariablesAmong(registered)
                            /\ w = VariablesAmong(registered + 1)
                            /\ w \in {v, v + 1}
                            /\ Registrations[registered + 1] =
                                  IF w = v THEN "function" ELSE "variable"
    BY <1>1, RegistrationFacts
  <2>2. used = [symbol |-> 2 + registered, function |-> registered - v, variable |-> v]
    BY <2>1 DEF TablesCount
  <2>3. used' = [symbol |-> 2 + (registered + 1), function |-> (registered + 1) - w, variable |-> w]
    <3>1. CASE w = v
      <4>1. used' = [used EXCEPT !.symbol = @ + 1, !["function"] = @ + 1]
        BY <1>2, <2>1, <3>1
      <4>2. used' = [symbol |-> (2 + registered) + 1, function |-> (registered - v) + 1,
                     variable |-> v]
        BY <2>2, <4>1
      <4> QED
        BY <1>1, <3>1, <4>2
    <3>2. CASE w = v + 1
      <4>0. Registrations[registered + 1] = "variable"
        BY <2>1, <3>2
      <4>1. used' = [used EXCEPT !.symbol = @ + 1, !["variable"] = @ + 1]
        BY <1>2, <4>0
      <4>2. used' = [symbol |-> (2 + registered) + 1, function |-> registered - v,
                     variable |-> v + 1]
        BY <2>2, <4>1
      <4> QED
        BY <1>1, <3>2, <4>2
    <3> QED
      BY <2>1, <3>1, <3>2
  <2>4. registered' \in 0 .. 24 /\ w = VariablesAmong(registered')
    BY <1>1, <1>2, <2>1
  <2>5. used' = [symbol |-> 2 + registered', function |-> registered' - w, variable |-> w]
    BY <1>2, <2>3
  <2> QED
    BY <2>4, <2>5 DEF TablesCount
<1>6. ReplyOK'
  BY <1>2 DEF ReplyOK
<1> QED
  BY <1>2, <1>3, <1>4, <1>5, <1>6

\* A step among the stages after init_lispenv that leaves the environment alone.
LEMMA StageStep ==
    ASSUME IInv, pc \in Served, pc' \in Served, ReplyOK',
           UNCHANGED <<init, registered, used, heap, fields, misused>>
    PROVE  IInv'
<1> USE DEF IInv
<1>1. PlaceOK'
  BY DEF PlaceOK, Served
<1>2. HeapIsReachable'
  <2>1. EndLispenv' = EndLispenv
    BY DEF EndLispenv
  <2> QED
    BY <2>1 DEF HeapIsReachable, Served
<1>3. TablesCount'
  BY DEF TablesCount
<1> QED
  BY <1>1, <1>2, <1>3

\* Going on to the reader keeps the invariant.
LEMMA RegisteredStep == ASSUME IInv, Registered PROVE IInv'
<1>1. ReplyOK'
  BY DEF IInv, ReplyOK, Registered
<1> QED
  BY <1>1, StageStep DEF Registered, Served

\* Setting the exit code keeps the invariant.
LEMMA LeaveStep ==
    ASSUME IInv, pc \in {"read", "evaluate"},
           NEW code \in {"OK", "EVALUATION", "RUNTIME"}, NEW written \in BOOLEAN,
           written <=> code = "OK",
           Leave(code, written)
    PROVE  IInv'
<1>1. failed = FALSE
  BY DEF IInv, ReplyOK
<1>2. reply' = [code |-> code, written |-> written] /\ failed' = failed
  BY DEF Leave, Reply
<1>3. ReplyOK'
  BY <1>1, <1>2 DEF ReplyOK
<1> QED
  BY <1>3, StageStep DEF Leave, Served

\* The reader's outcome keeps the invariant.
LEMMA ReadStep == ASSUME IInv, Read PROVE IInv'
<1>1. CASE /\ pc' = "evaluate"
           /\ UNCHANGED <<init, registered, used, heap, fields, misused, failed, reply>>
  <2>1. ReplyOK'
    BY <1>1 DEF IInv, ReplyOK, Read
  <2> QED
    BY <1>1, <2>1, StageStep DEF Read, Served
<1>2. CASE Leave("EVALUATION", FALSE) \/ Leave("RUNTIME", FALSE)
  BY <1>2, LeaveStep DEF Read
<1> QED
  BY <1>1, <1>2 DEF Read

\* The evaluator's outcome keeps the invariant.
LEMMA EvaluateStep == ASSUME IInv, Evaluate PROVE IInv'
<1>1. Leave("OK", TRUE) \/ Leave("EVALUATION", FALSE) \/ Leave("RUNTIME", FALSE)
  BY DEF Evaluate
<1>2. CASE Leave("OK", TRUE)
  BY <1>2, LeaveStep DEF Evaluate
<1>3. CASE Leave("EVALUATION", FALSE)
  BY <1>3, LeaveStep DEF Evaluate
<1>4. CASE Leave("RUNTIME", FALSE)
  BY <1>4, LeaveStep DEF Evaluate
<1> QED
  BY <1>1, <1>2, <1>3, <1>4

\* The exit of mlisj_eval frees every block, each once.
LEMMA ExitStep == ASSUME IInv, Exit PROVE IInv' /\ heap' = {}
<1> USE DEF IInv
<1>1. heap' = {} /\ misused' = FALSE
  BY DEF Exit, Free, HeapIsReachable, Served
<1>2. PlaceOK'
  BY DEF PlaceOK, Exit
<1>3. HeapIsReachable'
  BY <1>1 DEF HeapIsReachable, Exit, Served
<1>4. TablesCount'
  BY DEF TablesCount, Exit
<1>5. ReplyOK'
  BY DEF ReplyOK, Exit
<1> QED
  BY <1>1, <1>2, <1>3, <1>4, <1>5

\* A step of somebody else keeps the invariant.
LEMMA StutterStep == ASSUME IInv, UNCHANGED vars PROVE IInv'
  BY DEF IInv, PlaceOK, HeapIsReachable, TablesCount, ReplyOK, EndLispenv, OwnBlocks,
         TheseBlocks, ThisComponent, vars

\* Every step of mlisj_eval (mlisj.c, lispenv.c) keeps the invariant.
THEOREM StepKeepsInvariant == IInv /\ [Next]_vars => IInv'
<1> SUFFICES ASSUME IInv, [Next]_vars PROVE IInv'
  OBVIOUS
<1> QED
  BY CallStep, MallocEnvStep, MallocBlockStep, MallocFailsStep, RegisterStep, RegisteredStep,
     ReadStep, EvaluateStep, ExitStep, StutterStep DEF Next, Running

\* The invariant says what type every variable has.
LEMMA TypesFollow == IInv => TypeOK
<1> SUFFICES ASSUME IInv PROVE TypeOK
  OBVIOUS
<1>1. heap \subseteq Blocks
  <2>1. EndLispenv \subseteq Blocks
    BY BlockFacts DEF IInv, HeapIsReachable, EndLispenv, Blocks
  <2>2. ASSUME pc = "init" PROVE OwnBlocks \subseteq Blocks
    <3>1. ThisComponent \in ElementsOf(Components)
      BY <2>2, ComponentFacts DEF IInv, PlaceOK, ThisComponent
    <3>2. OwnBlocks \subseteq ElementsOf(TheseBlocks)
      BY <2>2, <3>1, BlockFacts DEF OwnBlocks, ElementsOf, TheseBlocks, IInv, PlaceOK
    <3> QED
      BY <3>1, <3>2, BlockFacts DEF TheseBlocks
  <2> QED
    BY <2>1, <2>2 DEF IInv, HeapIsReachable, PlaceOK
<1>2. used \in [symbol : 0 .. SYMBOL_TABLE_SIZE, function : 0 .. FUNC_TABLE_SIZE,
                variable : 0 .. VARIABLE_STACK_SIZE]
  BY RegistrationFacts, TablesSuffice
     DEF IInv, TablesCount, ReservedSymbols, FunctionNames, VariableNames
<1> QED
  BY <1>1, <1>2, RegistrationFacts
     DEF TypeOK, IInv, PlaceOK, HeapIsReachable, TablesCount, ReplyOK, Served

\* Every reachable state satisfies the inductive invariant.
THEOREM InvariantHolds == Spec => []IInv
  BY InitEstablishes, StepKeepsInvariant, PTL DEF Spec

\* No table overflows while the functions and variables are registered, and
\* all variables keep their types.
THEOREM TypeCorrect == Spec => []TypeOK
  BY TypesFollow, InvariantHolds, PTL

\* No block is freed twice or used after it was freed.
THEOREM EveryBlockIsFreedOnce == Spec => []NoMisuse
<1>1. IInv => NoMisuse
  BY DEF IInv, NoMisuse
<1> QED
  BY <1>1, InvariantHolds, PTL

\* A malloc that fails is reported as a runtime error, with nothing left behind.
THEOREM FailuresAreReported == Spec => []FailureIsReported
<1>1. IInv => FailureIsReported
  BY DEF IInv, ReplyOK, HeapIsReachable, FailureIsReported, Reply
<1> QED
  BY <1>1, InvariantHolds, PTL
-----------------------------------------------------------------------------
(* mlisj_eval implements LispService. *)

\* The program starts in an initial state of the service.
LEMMA ServiceInit == IInv /\ Init => Service!Init
  BY DEF Init, Service!Init, Service!Replies, Reply

\* Every step is a call, a change of the heap or a return of the service.
LEMMA ServiceStep == IInv /\ IInv' /\ TypeOK' /\ [Next]_vars => [Service!Next]_(Service!vars)
<1> SUFFICES ASSUME IInv, IInv', TypeOK', [Next]_vars
             PROVE  Service!Next \/ UNCHANGED Service!vars
  BY DEF Service!vars
<1>1. heap' \subseteq Blocks
  BY DEF TypeOK
<1>2. CASE Call
  BY <1>2 DEF Call, Service!Next, Service!Call
<1>3. ASSUME pc # "idle", pc' # "idle" PROVE Service!Next
  BY <1>1, <1>3 DEF Service!Next, Service!Allocate
<1>4. ASSUME pc # "idle", pc' = "idle", heap' = {} PROVE Service!Next
  <2>1. reply' \in Service!Replies
    BY DEF IInv, ReplyOK, Service!Replies
  <2> QED
    BY <1>4, <2>1 DEF Service!Next, Service!Return
<1>5. CASE MallocEnv
  <2>1. heap = {} /\ pc = "env"
    BY <1>5 DEF MallocEnv, IInv, HeapIsReachable
  <2> QED
    BY <1>3, <1>4, <1>5, <2>1 DEF MallocEnv, NoEnvironment
<1>6. CASE MallocBlock
  BY <1>3, <1>6 DEF MallocBlock, Attach
<1>7. CASE MallocFails
  BY <1>4, <1>7, MallocFailsStep DEF MallocFails, NoEnvironment
<1>8. CASE Register
  BY <1>3, <1>8, RegisterStep DEF Register
<1>9. CASE Registered \/ Read \/ Evaluate
  BY <1>3, <1>9 DEF Registered, Read, Evaluate, Leave
<1>10. CASE Exit
  BY <1>4, <1>10, ExitStep DEF Exit
<1>11. CASE UNCHANGED vars
  BY <1>11 DEF vars, Service!vars
<1> QED
  BY <1>2, <1>5, <1>6, <1>7, <1>8, <1>9, <1>10, <1>11 DEF Next, Running

\* Seen from the caller, every call gives back all the memory it took and
\* writes to dest exactly when it succeeds.
THEOREM MlisjImplementsService == Spec => ImplementsService
<1>1. Init => Service!Init
  BY InitEstablishes, ServiceInit
<1> QED
  BY <1>1, InvariantHolds, TypeCorrect, ServiceStep, PTL DEF Spec, ImplementsService, Service!Spec
=============================================================================
