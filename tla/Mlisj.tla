-------------------------------- MODULE Mlisj --------------------------------
(***************************************************************************)
(* One call of mlisj_eval after the other (mlisj.c), with the construction *)
(* and destruction of the environment (lispenv.c and the init_ and end_    *)
(* functions of mempool.c, symbol.c, variable.c and functable.c).          *)
(*                                                                         *)
(* Any malloc may fail.  What the reader and the evaluator do in between   *)
(* is module Evaluator's concern; here they return one of their results.   *)
(***************************************************************************)
EXTENDS Integers, Sequences

CONSTANTS SYMBOL_TABLE_SIZE, FUNC_TABLE_SIZE, VARIABLE_STACK_SIZE

\* The components of lispenv_t in the order init_lispenv makes them, and the
\* blocks of each in the order its init function asks malloc for them.
Components == <<"mempool", "symbol_pool", "variable_pool", "func_pool">>

BlocksOf(c) ==
    CASE c = "mempool" -> <<"mempool", "lispobject_pool", "string_pool", "float_pool",
                            "narray_node_pool">>
      [] c = "symbol_pool" -> <<"symbol_pool", "symbol_table">>
      [] c = "variable_pool" -> <<"variable_pool", "variable_stack">>
      [] c = "func_pool" -> <<"func_pool", "func_table">>

ElementsOf(s) == {s[i] : i \in DOMAIN s}

Blocks == {"env"} \cup UNION {ElementsOf(BlocksOf(c)) : c \in ElementsOf(Components)}

\* register_func_simple, then register_func_skk_gadgets.  All names differ.
FunctionNames == 19
VariableNames == 5
Registrations ==
    [i \in 1 .. FunctionNames + VariableNames |->
        IF i \in 12 .. 15 \cup {24} THEN "variable" ELSE "function"]

\* quote and lambda are symbols before the first registration.
ReservedSymbols == 2

NothingUsed == [symbol |-> ReservedSymbols, function |-> 0, variable |-> 0]

ASSUME TablesSuffice ==
    /\ {SYMBOL_TABLE_SIZE, FUNC_TABLE_SIZE, VARIABLE_STACK_SIZE} \subseteq Nat
    /\ ReservedSymbols + FunctionNames + VariableNames <= SYMBOL_TABLE_SIZE
    /\ FunctionNames <= FUNC_TABLE_SIZE
    /\ VariableNames <= VARIABLE_STACK_SIZE

VARIABLES
    pc,          \* where mlisj_eval is
    init,        \* the next malloc of init_lispenv: component and block
    registered,  \* how many registrations are done
    used,        \* symbol_table_used, func_table_used, variable_stack_used
    heap,        \* the blocks allocated
    fields,      \* the components whose pointer in lispenv_t is set
    misused,     \* ghost: a block was freed twice or used after free
    failed,      \* ghost: a malloc of this call failed
    reply        \* exitcode, and whether dest was written

vars == <<pc, init, registered, used, heap, fields, misused, failed, reply>>

Reply(code, written) == [code |-> code, written |-> written]
-----------------------------------------------------------------------------
(* Memory *)

Free(blocks) ==
    /\ heap' = heap \ blocks
    /\ misused' = (misused \/ ~ (blocks \subseteq heap))

\* Mutant: forgets the function table.
EndLispenvLeaking ==
    {"env"} \cup UNION {ElementsOf(BlocksOf(c)) : c \in fields \ {"func_pool"}}

\* end_lispenv frees what the fields of env point to, then env; when env is
\* gone it reads stale fields.
EndLispenv ==
    {"env"} \cup UNION {ElementsOf(BlocksOf(c)) : c \in fields}

Init ==
    /\ pc = "idle"
    /\ init = [component |-> 0, block |-> 0]
    /\ registered = 0
    /\ used = NothingUsed
    /\ heap = {} /\ fields = {}
    /\ misused = FALSE /\ failed = FALSE
    /\ reply = Reply("OK", TRUE)
-----------------------------------------------------------------------------
(* mlisj_eval *)

Call ==
    /\ pc = "idle"
    /\ pc' = "env"
    /\ failed' = FALSE
    /\ UNCHANGED <<init, registered, used, heap, fields, misused, reply>>

\* Mutant: the exit code keeps its old value.
NoEnvironmentUnreported ==
    /\ pc' = "idle"
    /\ failed' = TRUE
    /\ UNCHANGED <<init, registered, used, reply>>

\* mlisj_eval returns when init_lispenv does not give it an environment.
NoEnvironment ==
    /\ pc' = "idle"
    /\ failed' = TRUE
    /\ reply' = Reply("RUNTIME", FALSE)
    /\ UNCHANGED <<init, registered, used>>

MallocEnv ==
    /\ pc = "env"
    /\ \/ /\ heap' = heap \cup {"env"}
          /\ fields' = {}
          /\ pc' = "init"
          /\ init' = [component |-> 1, block |-> 1]
          /\ UNCHANGED <<registered, used, misused, failed, reply>>
       \/ NoEnvironment /\ UNCHANGED <<heap, fields, misused>>

ThisComponent == Components[init.component]
TheseBlocks == BlocksOf(ThisComponent)

\* Mutant: one component too many.
AttachTooFar ==
    /\ fields' = fields \cup {ThisComponent}
    /\ IF init.component > Len(Components)
       THEN pc' = "register" /\ registered' = 0 /\ used' = NothingUsed /\ UNCHANGED init
       ELSE /\ init' = [component |-> init.component + 1, block |-> 1]
            /\ UNCHANGED <<pc, registered, used>>

\* env points to a component only after its last block was allocated.
Attach ==
    /\ fields' = fields \cup {ThisComponent}
    /\ IF init.component = Len(Components)
       THEN pc' = "register" /\ registered' = 0 /\ used' = NothingUsed /\ UNCHANGED init
       ELSE /\ init' = [component |-> init.component + 1, block |-> 1]
            /\ UNCHANGED <<pc, registered, used>>

MallocBlock ==
    /\ pc = "init"
    /\ heap' = heap \cup {TheseBlocks[init.block]}
    /\ IF init.block = Len(TheseBlocks) THEN Attach
       ELSE init' = [init EXCEPT !.block = @ + 1] /\ UNCHANGED <<pc, registered, used, fields>>
    /\ UNCHANGED <<misused, failed, reply>>

\* Mutant: frees the block it did not get, too.
OwnBlocksAndFailed == {TheseBlocks[i] : i \in 1 .. init.block}

\* The init function frees its own blocks so far, init_lispenv the rest.
OwnBlocks == {TheseBlocks[i] : i \in 1 .. init.block - 1}

MallocFails ==
    /\ pc = "init"
    /\ Free(OwnBlocks \cup EndLispenv)
    /\ fields' = {}
    /\ NoEnvironment

\* str2symbol, then add_func or set_variable
CanRegister(kind) ==
    /\ used.symbol # SYMBOL_TABLE_SIZE
    /\ kind = "function" => used.function < FUNC_TABLE_SIZE
    /\ kind = "variable" => used.variable < VARIABLE_STACK_SIZE

Register ==
    /\ pc = "register"
    /\ registered < Len(Registrations)
    /\ LET kind == Registrations[registered + 1]
       IN  IF CanRegister(kind)
           THEN /\ registered' = registered + 1
                /\ used' = [used EXCEPT !.symbol = @ + 1, ![kind] = @ + 1]
                /\ UNCHANGED <<pc, heap, misused, reply>>
           ELSE \* mlisj_init ends the environment, and the exit will once more
                /\ Free(EndLispenv)
                /\ pc' = "exit"
                /\ reply' = Reply("RUNTIME", FALSE)
                /\ UNCHANGED <<registered, used>>
    /\ UNCHANGED <<init, fields, failed>>

\* Mutant: waits for one registration more than there are.
RegisteredNever ==
    /\ pc = "register"
    /\ registered > Len(Registrations)
    /\ pc' = "read"
    /\ UNCHANGED <<init, registered, used, heap, fields, misused, failed, reply>>

Registered ==
    /\ pc = "register"
    /\ registered = Len(Registrations)
    /\ pc' = "read"
    /\ UNCHANGED <<init, registered, used, heap, fields, misused, failed, reply>>

Leave(code, written) ==
    /\ pc' = "exit"
    /\ reply' = Reply(code, written)
    /\ UNCHANGED <<init, registered, used, heap, fields, misused, failed>>

Read ==
    /\ pc = "read"
    /\ \/ /\ pc' = "evaluate"
          /\ UNCHANGED <<init, registered, used, heap, fields, misused, failed, reply>>
       \/ \E error \in {"Reader_Error", "Memory_Error"} :
             Leave(IF error = "Reader_Error" THEN "EVALUATION" ELSE "RUNTIME", FALSE)

Evaluate ==
    /\ pc = "evaluate"
    /\ \/ \E fits \in BOOLEAN : Leave(IF fits THEN "OK" ELSE "RUNTIME", fits)   \* a string
       \/ \E error \in {"Memory_Error", "Variable_Error", "Evaluation_Error"} :
             Leave(IF error = "Evaluation_Error" THEN "EVALUATION" ELSE "RUNTIME", FALSE)
       \/ Leave("EVALUATION", FALSE)                                            \* no string

Exit ==
    /\ pc = "exit"
    /\ Free(EndLispenv)
    /\ fields' = {}
    /\ pc' = "idle"
    /\ UNCHANGED <<init, registered, used, failed, reply>>

Running ==
    \/ MallocEnv \/ MallocBlock \/ MallocFails \/ Register \/ Registered
    \/ Read \/ Evaluate \/ Exit

Next == Call \/ Running

\* The caller need not call again; a call once begun goes on.
Spec == Init /\ [][Next]_vars /\ WF_vars(Running)
-----------------------------------------------------------------------------
(* Correctness *)

TypeOK ==
    /\ pc \in {"idle", "env", "init", "register", "read", "evaluate", "exit"}
    /\ init \in [component : 0 .. Len(Components), block : 0 .. 5]
    /\ registered \in 0 .. Len(Registrations)
    /\ used \in [symbol : 0 .. SYMBOL_TABLE_SIZE, function : 0 .. FUNC_TABLE_SIZE,
                 variable : 0 .. VARIABLE_STACK_SIZE]
    /\ heap \subseteq Blocks
    /\ fields \subseteq ElementsOf(Components)
    /\ misused \in BOOLEAN /\ failed \in BOOLEAN
    /\ reply \in [code : {"OK", "EVALUATION", "RUNTIME"}, written : BOOLEAN]

\* No block is freed twice or used after free, whichever malloc fails: not in
\* the init functions' own cleanup, not in end_lispenv, and not at the exit of
\* mlisj_eval, which ends the environment mlisj_init may have ended before.
NoMisuse == ~ misused

\* Whichever malloc fails, the caller is told so, with the code the README
\* gives for it, and the memory the call had taken is released.
FailureIsReported ==
    (pc = "idle" /\ failed) => reply.code = "RUNTIME" /\ ~ reply.written /\ heap = {}

\* README "Create and clear the environment each time": the call keeps the
\* promise of LispService, in particular it leaves no block behind on any path.
Service == INSTANCE LispService WITH
    Codes <- {"OK", "EVALUATION", "RUNTIME"}, OK <- "OK",
    Pending <- "pending",
    busy <- pc # "idle",
    reply <- IF pc = "idle" THEN reply ELSE "pending"

ImplementsService == Service!Spec

\* A call of mlisj_eval returns.
CallsReturn == (pc # "idle") ~> (pc = "idle")
=============================================================================
