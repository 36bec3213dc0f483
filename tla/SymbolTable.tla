----------------------------- MODULE SymbolTable -----------------------------
(***************************************************************************)
(* Symbol interning (symbol.c).  A symbol is the address of its name, and  *)
(* the evaluator, the function table and the variable stack compare those  *)
(* addresses only.  A name is stored either where the caller has it (the   *)
(* string literals of the built-ins) or as a copy in the string pool.      *)
(***************************************************************************)
EXTENDS OpenTable, FiniteSets

CONSTANTS
    SYMBOL_TABLE_SIZE,
    STRING_POOL_SIZE,
    Names,             \* the names of symbols
    NameLength,        \* Names -> strlen of the name
    NameHash           \* Names -> the slot str_hash_dbj2 gives it

ASSUME SymbolAssumption ==
    /\ SYMBOL_TABLE_SIZE \in Nat \ {0}
    /\ STRING_POOL_SIZE \in Nat
    /\ NameLength \in [Names -> Nat]
    /\ NameHash \in [Names -> 0 .. (SYMBOL_TABLE_SIZE - 1)]

VARIABLES
    symbol_table,      \* slot -> [key |-> name, val |-> address] or Vacant
    symbol_table_used,
    string_pool_used,
    symbols            \* ghost: the [name, address] pairs str2symbol has returned

symbolVars == <<symbol_table, symbol_table_used, string_pool_used, symbols>>

\* Where a name can lie: a literal of the program, or a place in the pool.
LiteralAt(s) == <<"literal", s>>
PoolAt(a) == <<"pool", a>>
Addresses == {LiteralAt(s) : s \in Names} \cup {PoolAt(a) : a \in 0 .. (STRING_POOL_SIZE - 1)}

\* The NULL key is no entry.
ASSUME SymbolEntryAssumption == Vacant \notin [key : Names, val : Addresses]

NoSymbol == <<"null">>

SymbolSlots == 0 .. (SYMBOL_TABLE_SIZE - 1)

SymbolInit ==
    /\ symbol_table = [i \in SymbolSlots |-> Vacant]
    /\ symbol_table_used = 0
    /\ string_pool_used = 0
    /\ symbols = {}

FindName(s) == Search(SYMBOL_TABLE_SIZE, symbol_table, NameHash[s], s)

\* symbol_table_lookup
SymbolTableLookup(s) ==
    LET i == FindName(s)
    IN  IF i = NotFound \/ symbol_table[i] = Vacant THEN NoSymbol ELSE symbol_table[i].val

\* Mutant: forgets the NUL.
CanCopyWithoutNul(s) == string_pool_used + NameLength[s] <= STRING_POOL_SIZE

\* copy_to_string_area finds room for the name and its NUL.
CanCopy(s) == string_pool_used + NameLength[s] + 1 <= STRING_POOL_SIZE

\* str2symbol gives a symbol for s.  A full table refuses names it knows, too.
CanIntern(s, copy_p) ==
    /\ symbol_table_used # SYMBOL_TABLE_SIZE
    /\ FindName(s) # NotFound
    /\ symbol_table[FindName(s)] = Vacant /\ copy_p => CanCopy(s)

\* Mutant: a new address although the name has a symbol.
InternedAnew(s, copy_p) == IF copy_p THEN PoolAt(string_pool_used) ELSE LiteralAt(s)

\* The symbol str2symbol returns when it can.
InternedAt(s, copy_p) ==
    IF symbol_table[FindName(s)] # Vacant THEN symbol_table[FindName(s)].val
    ELSE IF copy_p THEN PoolAt(string_pool_used) ELSE LiteralAt(s)

\* Mutant: stores the entry at its home slot.
Str2SymbolAtHome(s, copy_p) ==
    IF CanIntern(s, copy_p)
    THEN LET i == NameHash[s]
             isNew == symbol_table[FindName(s)] = Vacant
             sym == InternedAt(s, copy_p)
         IN  /\ symbol_table' = [symbol_table EXCEPT ![i] = [key |-> s, val |-> sym]]
             /\ symbol_table_used' = symbol_table_used + (IF isNew THEN 1 ELSE 0)
             /\ string_pool_used' =
                    string_pool_used + (IF isNew /\ copy_p THEN NameLength[s] + 1 ELSE 0)
             /\ symbols' = symbols \cup {[name |-> s, address |-> sym]}
    ELSE UNCHANGED symbolVars

\* str2symbol(sp, s, copy_p)
Str2Symbol(s, copy_p) ==
    IF CanIntern(s, copy_p)
    THEN LET i == FindName(s)
             isNew == symbol_table[i] = Vacant
             sym == InternedAt(s, copy_p)
         IN  /\ symbol_table' = [symbol_table EXCEPT ![i] = [key |-> s, val |-> sym]]
             /\ symbol_table_used' = symbol_table_used + (IF isNew THEN 1 ELSE 0)
             /\ string_pool_used' =
                    string_pool_used + (IF isNew /\ copy_p THEN NameLength[s] + 1 ELSE 0)
             /\ symbols' = symbols \cup {[name |-> s, address |-> sym]}
    ELSE UNCHANGED symbolVars

\* Strings that are no names take bytes of the pool, too.
NewStringArea(n) ==
    /\ string_pool_used + n <= STRING_POOL_SIZE
    /\ string_pool_used' = string_pool_used + n
    /\ UNCHANGED <<symbol_table, symbol_table_used, symbols>>
-----------------------------------------------------------------------------
(* Correctness *)

\* The symbol table is well formed: the pool and the table hold what their
\* counters say, so "table is full" means full.
SymbolTypeOK ==
    /\ symbol_table \in [SymbolSlots -> [key : Names, val : Addresses] \cup {Vacant}]
    /\ symbol_table_used = Cardinality(Taken(SYMBOL_TABLE_SIZE, symbol_table))
    /\ string_pool_used \in 0 .. STRING_POOL_SIZE
    /\ symbols \subseteq [name : Names, address : Addresses]

\* Comparing addresses is comparing names: two symbols anybody ever got are the
\* same address exactly when they have the same name, whether the name was
\* copied from the source, registered as a literal, or both.
SymbolIdentity ==
    \A x, y \in symbols : x.name = y.name <=> x.address = y.address

\* A symbol that was handed out is found again, in every later table: probing
\* never meets a vacant slot before it.
SymbolsStayFindable ==
    \A x \in symbols : SymbolTableLookup(x.name) = x.address
=============================================================================
