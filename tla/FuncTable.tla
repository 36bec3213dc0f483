------------------------------ MODULE FuncTable ------------------------------
(***************************************************************************)
(* The table of built-in functions (functable.c) on top of the symbol      *)
(* table.  Functions are registered under the symbol of their name before  *)
(* anything is read; eval_list looks a function up by the address of the   *)
(* symbol the reader made of the same name.                                *)
(***************************************************************************)
EXTENDS SymbolTable

CONSTANTS
    FUNC_TABLE_SIZE,
    Functions,         \* the C functions
    AddressHash        \* address of a symbol -> slot, the address modulo the size

ASSUME FuncAssumption ==
    /\ FUNC_TABLE_SIZE \in Nat \ {0}
    /\ AddressHash \in [Addresses -> 0 .. (FUNC_TABLE_SIZE - 1)]
    /\ Vacant \notin [key : Addresses, val : Functions]

VARIABLES
    func_table,        \* slot -> [key |-> symbol, val |-> function] or Vacant
    func_table_used,
    registered         \* ghost: the [name, function] pairs add_func accepted

vars == <<symbolVars, func_table, func_table_used, registered>>

NoFunction == "null"

FuncSlots == 0 .. (FUNC_TABLE_SIZE - 1)

Init ==
    /\ SymbolInit
    /\ func_table = [i \in FuncSlots |-> Vacant]
    /\ func_table_used = 0
    /\ registered = {}

FindFunc(sym) == Search(FUNC_TABLE_SIZE, func_table, AddressHash[sym], sym)

\* get_func
GetFunc(sym) ==
    LET i == FindFunc(sym)
    IN  IF i = NotFound \/ func_table[i] = Vacant THEN NoFunction ELSE func_table[i].val

\* Mutant: replaces the function the symbol has.
CanAddFuncAgain(sym) == func_table_used < FUNC_TABLE_SIZE /\ FindFunc(sym) # NotFound

\* add_func returns 0: there is room and the symbol has no function yet.
CanAddFunc(sym) ==
    /\ func_table_used < FUNC_TABLE_SIZE
    /\ FindFunc(sym) # NotFound
    /\ func_table[FindFunc(sym)] = Vacant

\* Mutant: registers under the literal instead of the symbol.
AddFuncUnderLiteral(s, f, copy_p) ==
    LET sym == LiteralAt(s)
    IN  /\ Str2Symbol(s, copy_p)
        /\ IF CanIntern(s, copy_p) /\ CanAddFunc(sym)
           THEN /\ func_table' = [func_table EXCEPT ![FindFunc(sym)] = [key |-> sym, val |-> f]]
                /\ func_table_used' = func_table_used + 1
                /\ registered' = registered \cup {[name |-> s, function |-> f]}
           ELSE UNCHANGED <<func_table, func_table_used, registered>>

\* add_func_from_cstr: the name is interned also when add_func then refuses it.
AddFuncFromCstr(s, f, copy_p) ==
    LET sym == InternedAt(s, copy_p)
    IN  /\ Str2Symbol(s, copy_p)
        /\ IF CanIntern(s, copy_p) /\ CanAddFunc(sym)
           THEN /\ func_table' = [func_table EXCEPT ![FindFunc(sym)] = [key |-> sym, val |-> f]]
                /\ func_table_used' = func_table_used + 1
                /\ registered' = registered \cup {[name |-> s, function |-> f]}
           ELSE UNCHANGED <<func_table, func_table_used, registered>>

\* The reader and the variable stack intern a name.
InternOnly(s, copy_p) ==
    Str2Symbol(s, copy_p) /\ UNCHANGED <<func_table, func_table_used, registered>>

\* Anybody takes a byte of the string pool.
OtherString ==
    NewStringArea(1) /\ UNCHANGED <<func_table, func_table_used, registered>>

Next ==
    \/ OtherString
    \/ \E s \in Names, copy_p \in BOOLEAN : InternOnly(s, copy_p)
    \/ \E s \in Names, f \in Functions, copy_p \in BOOLEAN : AddFuncFromCstr(s, f, copy_p)

Spec == Init /\ [][Next]_vars
-----------------------------------------------------------------------------
(* Correctness *)

\* The symbol table is well formed, and so is the function table.
TypeOK ==
    /\ SymbolTypeOK
    /\ func_table \in [FuncSlots -> [key : Addresses, val : Functions] \cup {Vacant}]
    /\ func_table_used \in 0 .. FUNC_TABLE_SIZE
    /\ registered \subseteq [name : Names, function : Functions]

\* eval_list calls the function registered under the name it reads, whoever
\* interned the name first and wherever its characters lie, and calls nothing
\* for a name that was never registered.
DispatchByName ==
    \A x \in symbols :
        LET fs == {r.function : r \in {q \in registered : q.name = x.name}}
        IN  IF fs = {} THEN GetFunc(x.address) = NoFunction
            ELSE fs = {GetFunc(x.address)}

\* A registration is final: neither a later one nor a later symbol changes what
\* a symbol in somebody's hands calls.
RegistrationIsFinal ==
    [][\A x \in symbols : GetFunc(x.address) # NoFunction =>
          GetFunc(x.address)' = GetFunc(x.address)]_vars
=============================================================================
