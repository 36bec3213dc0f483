--------------------------- MODULE FuncTableProofs ---------------------------
(***************************************************************************)
(* For all names, hashes and sizes of the tables: comparing addresses of   *)
(* symbols is comparing names, a symbol handed out is found again, and a   *)
(* call reaches the function registered under its name for ever.           *)
(*                                                                         *)
(* The argument is the one for open addressing without deletion: no vacant *)
(* slot ever lies between the home of an entry and the entry (PathsFull),  *)
(* so a search cannot stop before it, and no key is entered twice          *)
(* (KeysUnique), so it cannot stop at another one.                         *)
(***************************************************************************)
EXTENDS FuncTable, Lemmas

-----------------------------------------------------------------------------
(* Probing                                                                   *)

\* Probing from h reaches every slot once: d probes lead to the slot at distance d.
LEMMA SlotFacts ==
    ASSUME NEW n \in Nat \ {0}, NEW h \in 0 .. (n - 1)
    PROVE  /\ \A d \in 0 .. (n - 1) : Slot(n, h, d) \in 0 .. (n - 1) /\ Distance(n, h, Slot(n, h, d)) = d
           /\ \A i \in 0 .. (n - 1) : Distance(n, h, i) \in 0 .. (n - 1) /\ Slot(n, h, Distance(n, h, i)) = i
  BY DEF Slot, Distance

\* A search stops at the first slot that is vacant or holds the key.
LEMMA SearchStops ==
    ASSUME NEW n \in Nat \ {0}, NEW h \in 0 .. (n - 1), NEW table, NEW key,
           Stops(n, table, h, key) # {}
    PROVE  \E d \in 0 .. (n - 1) :
               /\ Search(n, table, h, key) = Slot(n, h, d)
               /\ table[Slot(n, h, d)] = Vacant \/ Matches(table, Slot(n, h, d), key)
               /\ \A e \in 0 .. (n - 1) : e < d =>
                      table[Slot(n, h, e)] # Vacant /\ ~ Matches(table, Slot(n, h, e), key)
<1>. DEFINE stops == Stops(n, table, h, key)
            d == CHOOSE d \in stops : \A e \in stops : d <= e
<1>1. stops \in SUBSET Nat /\ stops \subseteq 0 .. (n - 1)
  BY DEF Stops
<1>2. d \in stops /\ \A e \in stops : d <= e
  <2>1. \E x \in stops : \A e \in stops : x <= e
    BY <1>1, Least
  <2>. QED
    BY <2>1
<1>3. Search(n, table, h, key) = Slot(n, h, d)
  BY DEF Search
<1>4. table[Slot(n, h, d)] = Vacant \/ Matches(table, Slot(n, h, d), key)
  BY <1>2 DEF Stops
<1>5. ASSUME NEW e \in 0 .. (n - 1), e < d
      PROVE  table[Slot(n, h, e)] # Vacant /\ ~ Matches(table, Slot(n, h, e), key)
  <2>1. e \notin stops
    BY <1>1, <1>2, <1>5
  <2>. QED
    BY <2>1 DEF Stops
<1>. HIDE DEF d
<1>. QED
  BY <1>1, <1>2, <1>3, <1>4, <1>5

\* A search that finds something gives a slot of the table.
LEMMA SearchInTable ==
    ASSUME NEW n \in Nat \ {0}, NEW h \in 0 .. (n - 1), NEW table, NEW key,
           Search(n, table, h, key) # NotFound
    PROVE  LET i == Search(n, table, h, key)
           IN  i \in 0 .. (n - 1) /\ (table[i] = Vacant \/ table[i].key = key)
<1>1. Stops(n, table, h, key) # {}
  BY DEF Search
<1>2. PICK d \in 0 .. (n - 1) :
          /\ Search(n, table, h, key) = Slot(n, h, d)
          /\ table[Slot(n, h, d)] = Vacant \/ Matches(table, Slot(n, h, d), key)
  BY <1>1, SearchStops
<1>. QED
  BY <1>2, SlotFacts DEF Matches

\* What the two tables keep true; hash is defined on the keys.
WellProbed(n, table, hash) ==
    /\ \A i \in Taken(n, table) : hash[table[i].key] \in 0 .. (n - 1)
    /\ PathsFull(n, table, hash)
    /\ KeysUnique(n, table)

\* Every entry is found.
LEMMA SearchFinds ==
    ASSUME NEW n \in Nat \ {0}, NEW table, NEW hash, WellProbed(n, table, hash),
           NEW i \in Taken(n, table)
    PROVE  Search(n, table, hash[table[i].key], table[i].key) = i
<1>. DEFINE h == hash[table[i].key]
            key == table[i].key
            D == Distance(n, h, i)
<1>1. i \in 0 .. (n - 1) /\ table[i] # Vacant /\ h \in 0 .. (n - 1)
  BY DEF Taken, WellProbed
<1>2. D \in 0 .. (n - 1) /\ Slot(n, h, D) = i
  BY <1>1, SlotFacts
<1>3. Stops(n, table, h, key) # {}
  <2>1. D \in Stops(n, table, h, key)
    BY <1>1, <1>2 DEF Stops, Matches
  <2>. QED
    BY <2>1
<1>4. PICK d \in 0 .. (n - 1) :
          /\ Search(n, table, h, key) = Slot(n, h, d)
          /\ table[Slot(n, h, d)] = Vacant \/ Matches(table, Slot(n, h, d), key)
          /\ \A e \in 0 .. (n - 1) : e < d =>
                 table[Slot(n, h, e)] # Vacant /\ ~ Matches(table, Slot(n, h, e), key)
  BY <1>1, <1>3, SearchStops
<1>5. d \in 0 .. D
  <2>1. Matches(table, Slot(n, h, D), key)
    BY <1>1, <1>2 DEF Matches
  <2>2. ~ (D < d)
    BY <1>2, <1>4, <2>1
  <2>. QED
    BY <1>2, <2>2
<1>6. table[Slot(n, h, d)] # Vacant
  BY <1>5 DEF WellProbed, PathsFull
<1>7. Slot(n, h, d) \in Taken(n, table) /\ table[Slot(n, h, d)].key = key
  BY <1>1, <1>4, <1>6, SlotFacts DEF Taken, Matches
<1>8. Slot(n, h, d) = i
  BY <1>7 DEF WellProbed, KeysUnique
<1>. QED
  BY <1>4, <1>8

\* A new entry goes where the search for it stopped; all entries stay findable.
LEMMA InsertKeepsProbing ==
    ASSUME NEW n \in Nat \ {0}, NEW table, NEW hash, WellProbed(n, table, hash),
           NEW entry, entry # Vacant, hash[entry.key] \in 0 .. (n - 1),
           NEW i, i = Search(n, table, hash[entry.key], entry.key),
           i # NotFound, table[i] = Vacant,
           NEW new, \A j \in 0 .. (n - 1) : new[j] = IF j = i THEN entry ELSE table[j]
    PROVE  /\ WellProbed(n, new, hash)
           /\ Taken(n, new) = Taken(n, table) \cup {i}
           /\ i \in 0 .. (n - 1)
<1>. DEFINE key == entry.key
            h == hash[key]
<1>1. i \in 0 .. (n - 1)
  BY SearchInTable
<1>2. \A j \in 0 .. (n - 1) : new[j] = IF j = i THEN entry ELSE table[j]
  OBVIOUS
<1>3. \A j \in 0 .. (n - 1) : table[j] # Vacant => new[j] = table[j]
  BY <1>2
<1>4. Taken(n, new) = Taken(n, table) \cup {i}
  BY <1>1, <1>2 DEF Taken
<1>5. \A j \in Taken(n, table) : table[j].key # key
  <2>. SUFFICES ASSUME NEW j \in Taken(n, table), table[j].key = key
                PROVE  FALSE
    OBVIOUS
  <2>1. Search(n, table, hash[table[j].key], table[j].key) = j
    BY SearchFinds
  <2>. QED
    BY <2>1 DEF Taken
<1>6. \A j \in Taken(n, new) : hash[new[j].key] \in 0 .. (n - 1)
  BY <1>2, <1>4 DEF Taken, WellProbed
<1>7. KeysUnique(n, new)
  <2>1. \A j \in Taken(n, table) : j \in 0 .. (n - 1) /\ j # i /\ new[j] = table[j]
    BY <1>2 DEF Taken
  <2>2. new[i].key = key
    BY <1>1, <1>2
  <2>. QED
    BY <1>4, <1>5, <2>1, <2>2 DEF KeysUnique, WellProbed
<1>8. ASSUME NEW j \in Taken(n, new), NEW d \in 0 .. Distance(n, hash[new[j].key], j)
      PROVE  new[Slot(n, hash[new[j].key], d)] # Vacant
  <2>. DEFINE hj == hash[new[j].key]
  <2>1. j \in 0 .. (n - 1) /\ hj \in 0 .. (n - 1)
    BY <1>6 DEF Taken
  <2>2. Distance(n, hj, j) \in 0 .. (n - 1) /\ d \in 0 .. (n - 1) /\ Slot(n, hj, d) \in 0 .. (n - 1)
    <3>1. d \in 0 .. Distance(n, hj, j)
      OBVIOUS
    <3>. HIDE DEF hj
    <3>2. Distance(n, hj, j) \in 0 .. (n - 1)
      BY <2>1, SlotFacts
    <3>3. d \in 0 .. (n - 1)
      BY <3>1, <3>2
    <3>. QED
      BY <2>1, <3>2, <3>3, SlotFacts
  <2>3. CASE j # i
    <3>1. j \in Taken(n, table) /\ new[j] = table[j]
      BY <2>3, <1>2, <1>4, <2>1
    <3>2. table[Slot(n, hj, d)] # Vacant
      BY <3>1 DEF WellProbed, PathsFull
    <3>. QED
      BY <3>2, <2>2, <1>3
  <2>4. CASE j = i
    <3>1. hj = h
      BY <2>4, <1>1, <1>2
    <3>2. Stops(n, table, h, key) # {}
      BY DEF Search
    <3>3. PICK e \in 0 .. (n - 1) :
              /\ i = Slot(n, h, e)
              /\ \A f \in 0 .. (n - 1) : f < e => table[Slot(n, h, f)] # Vacant
      BY <3>2, SearchStops
    <3>4. Distance(n, h, i) = e
      <4>1. h \in 0 .. (n - 1)
        OBVIOUS
      <4>. HIDE DEF h
      <4>2. Distance(n, h, Slot(n, h, e)) = e
        BY <4>1, SlotFacts
      <4>. QED
        BY <3>3, <4>2
    <3>5. d \in 0 .. e
      BY <3>1, <3>4, <2>4
    <3>6. CASE d < e
      BY <3>6, <3>1, <3>3, <2>2, <1>3
    <3>7. CASE d = e
      BY <3>7, <3>1, <3>3, <1>1, <1>2
    <3>. QED
      BY <3>5, <3>6, <3>7
  <2>. QED
    BY <2>3, <2>4
<1>9. PathsFull(n, new, hash)
  BY <1>8 DEF PathsFull
<1>. QED
  BY <1>1, <1>4, <1>6, <1>7, <1>9 DEF WellProbed
-----------------------------------------------------------------------------
(* Symbols                                                                   *)

\* Where an entry's name lies: at the literal, or in the used part of the pool.
NamesPlaced ==
    \A i \in Taken(SYMBOL_TABLE_SIZE, symbol_table) :
        \/ symbol_table[i].val = LiteralAt(symbol_table[i].key)
        \/ \E a \in 0 .. (string_pool_used - 1) : symbol_table[i].val = PoolAt(a)

AddressesUnique ==
    \A i, j \in Taken(SYMBOL_TABLE_SIZE, symbol_table) :
        symbol_table[i].val = symbol_table[j].val => i = j

\* A symbol in somebody's hands is an entry.
SymbolsAreEntries ==
    \A x \in symbols : \E i \in Taken(SYMBOL_TABLE_SIZE, symbol_table) :
        symbol_table[i].key = x.name /\ symbol_table[i].val = x.address

SymbolIInv ==
    /\ SymbolTypeOK
    /\ WellProbed(SYMBOL_TABLE_SIZE, symbol_table, NameHash)
    /\ NamesPlaced
    /\ AddressesUnique
    /\ SymbolsAreEntries

\* The entries of a typed table.
LEMMA SymbolEntries ==
    ASSUME SymbolTypeOK
    PROVE  /\ DOMAIN symbol_table = SymbolSlots
           /\ \A i \in SymbolSlots : symbol_table[i] # Vacant =>
                  /\ symbol_table[i] \in [key : Names, val : Addresses]
                  /\ symbol_table[i] = [key |-> symbol_table[i].key, val |-> symbol_table[i].val]
           /\ \A i \in Taken(SYMBOL_TABLE_SIZE, symbol_table) :
                  /\ i \in SymbolSlots /\ symbol_table[i] # Vacant
                  /\ symbol_table[i].key \in Names /\ symbol_table[i].val \in Addresses
  BY DEF SymbolTypeOK, SymbolSlots, Taken

\* What a table has taken can be counted.
LEMMA TakenFinite ==
    ASSUME NEW n \in Nat, NEW table
    PROVE  IsFiniteSet(Taken(n, table)) /\ Cardinality(Taken(n, table)) \in Nat
<1>1. IsFiniteSet(0 .. (n - 1))
  BY FS_Interval
<1>2. IsFiniteSet(Taken(n, table))
  BY <1>1, FS_Subset DEF Taken
<1>. QED
  BY <1>2, FS_CardinalityType

\* A literal is no place in the pool, and each has one address.
LEMMA AddressFacts ==
    /\ \A s, a : LiteralAt(s) # PoolAt(a)
    /\ \A s, r : LiteralAt(s) = LiteralAt(r) => s = r
    /\ \A a, b : PoolAt(a) = PoolAt(b) => a = b
    /\ \A s \in Names : LiteralAt(s) \in Addresses
    /\ \A a \in 0 .. (STRING_POOL_SIZE - 1) : PoolAt(a) \in Addresses
  BY DEF LiteralAt, PoolAt, Addresses

\* The table is empty at first.
LEMMA SymbolInitOK == SymbolInit => SymbolIInv
<1>. SUFFICES ASSUME SymbolInit PROVE SymbolIInv
  OBVIOUS
<1>1. Taken(SYMBOL_TABLE_SIZE, symbol_table) = {}
  BY DEF SymbolInit, SymbolSlots, Taken
<1>2. SymbolTypeOK
  BY <1>1, FS_EmptySet, SymbolAssumption DEF SymbolInit, SymbolTypeOK
<1>. QED
  BY <1>1, <1>2 DEF SymbolIInv, WellProbed, PathsFull, KeysUnique, NamesPlaced, AddressesUnique,
                    SymbolsAreEntries, SymbolInit

\* str2symbol of a name the table has gives its symbol and changes nothing else.
LEMMA InternKnown ==
    ASSUME SymbolIInv, NEW s \in Names, NEW copy_p \in BOOLEAN,
           CanIntern(s, copy_p), Str2Symbol(s, copy_p), symbol_table[FindName(s)] # Vacant
    PROVE  /\ SymbolIInv'
           /\ InternedAt(s, copy_p) \in Addresses
           /\ [name |-> s, address |-> InternedAt(s, copy_p)] \in symbols'
           /\ symbols \subseteq symbols'
<1>. PICK i : i = FindName(s)
  OBVIOUS
<1>1. i \in SymbolSlots /\ symbol_table[i].key = s /\ symbol_table[i] # Vacant
  BY SearchInTable, SymbolAssumption DEF FindName, CanIntern, SymbolSlots
<1>2. InternedAt(s, copy_p) = symbol_table[i].val
  BY DEF InternedAt
<1>3. /\ symbol_table[i] = [key |-> s, val |-> symbol_table[i].val]
      /\ symbol_table[i].val \in Addresses
  BY <1>1, SymbolEntries DEF SymbolIInv
<1>4. symbol_table' = symbol_table
  <2>1. symbol_table' = [symbol_table EXCEPT ![i] = [key |-> s, val |-> symbol_table[i].val]]
    BY <1>2 DEF Str2Symbol
  <2>2. symbol_table' = [symbol_table EXCEPT ![i] = symbol_table[i]]
    BY <2>1, <1>3
  <2>. QED
    BY <2>2, <1>1 DEF SymbolIInv, SymbolTypeOK
<1>5. /\ symbol_table_used' = symbol_table_used /\ string_pool_used' = string_pool_used
      /\ symbols' = symbols \cup {[name |-> s, address |-> symbol_table[i].val]}
  <2>1. symbol_table_used \in Nat /\ string_pool_used \in Nat
    BY TakenFinite, SymbolAssumption DEF SymbolIInv, SymbolTypeOK
  <2>. QED
    BY <2>1, <1>1, <1>2 DEF Str2Symbol
<1>6. SymbolTypeOK'
  BY <1>3, <1>4, <1>5 DEF SymbolIInv, SymbolTypeOK
<1>7. i \in Taken(SYMBOL_TABLE_SIZE, symbol_table)
  BY <1>1 DEF Taken, SymbolSlots
<1>8. SymbolsAreEntries'
  BY <1>1, <1>4, <1>5, <1>7 DEF SymbolIInv, SymbolsAreEntries
<1>. QED
  BY <1>2, <1>3, <1>4, <1>5, <1>6, <1>8 DEF SymbolIInv, NamesPlaced, AddressesUnique

\* str2symbol of a new name enters it, with an address nothing else has.
LEMMA InternNew ==
    ASSUME SymbolIInv, NEW s \in Names, NEW copy_p \in BOOLEAN,
           CanIntern(s, copy_p), Str2Symbol(s, copy_p), symbol_table[FindName(s)] = Vacant
    PROVE  /\ SymbolIInv'
           /\ InternedAt(s, copy_p) \in Addresses
           /\ [name |-> s, address |-> InternedAt(s, copy_p)] \in symbols'
           /\ symbols \subseteq symbols'
<1>. DEFINE n == SYMBOL_TABLE_SIZE
<1>1. PICK sym : sym = InternedAt(s, copy_p)
  OBVIOUS
<1>2. PICK i : i = FindName(s)
  OBVIOUS
<1>3. PICK used : used = string_pool_used + (IF copy_p THEN NameLength[s] + 1 ELSE 0)
  OBVIOUS
<1>4. sym = (IF copy_p THEN PoolAt(string_pool_used) ELSE LiteralAt(s))
  BY <1>1 DEF InternedAt
<1>5. /\ string_pool_used \in Nat /\ NameLength[s] \in Nat /\ STRING_POOL_SIZE \in Nat
      /\ used \in 0 .. STRING_POOL_SIZE /\ string_pool_used <= used
      /\ copy_p => string_pool_used < used
  BY <1>3, SymbolAssumption DEF CanIntern, CanCopy, SymbolIInv, SymbolTypeOK
<1>6. sym \in Addresses
  BY <1>4, <1>5, AddressFacts
<1>7. PICK entry : entry = [key |-> s, val |-> sym]
  OBVIOUS
<1>8. entry \in [key : Names, val : Addresses] /\ entry # Vacant /\ entry.key = s /\ entry.val = sym
  BY <1>6, <1>7, SymbolEntryAssumption
<1>9. /\ symbol_table' = [symbol_table EXCEPT ![i] = entry]
      /\ symbol_table_used' = symbol_table_used + 1
      /\ string_pool_used' = used
      /\ symbols' = symbols \cup {[name |-> s, address |-> sym]}
  BY <1>1, <1>2, <1>3, <1>7 DEF Str2Symbol
<1>10. /\ WellProbed(n, symbol_table', NameHash)
       /\ Taken(n, symbol_table') = Taken(n, symbol_table) \cup {i}
       /\ i \in SymbolSlots
  <2>1. n \in Nat \ {0} /\ NameHash[entry.key] \in 0 .. (n - 1)
    BY <1>8, SymbolAssumption
  <2>2. i # NotFound /\ symbol_table[i] = Vacant /\ i = Search(n, symbol_table, NameHash[entry.key], entry.key)
    BY <1>2, <1>8 DEF CanIntern, FindName
  <2>3. WellProbed(n, symbol_table, NameHash) /\ entry # Vacant
    BY <1>8 DEF SymbolIInv
  <2>4. \A j \in 0 .. (n - 1) : symbol_table'[j] = IF j = i THEN entry ELSE symbol_table[j]
    BY <1>9 DEF SymbolIInv, SymbolTypeOK, SymbolSlots
  <2>. QED
    BY <2>1, <2>2, <2>3, <2>4, InsertKeepsProbing DEF SymbolSlots
<1>11. \A j \in SymbolSlots : symbol_table'[j] = IF j = i THEN entry ELSE symbol_table[j]
  BY <1>9 DEF SymbolIInv, SymbolTypeOK
<1>12. \A j \in Taken(n, symbol_table) : j \in SymbolSlots /\ j # i /\ symbol_table'[j] = symbol_table[j]
  BY <1>2, <1>11 DEF Taken, SymbolSlots
<1>13. symbol_table'[i] = entry
  BY <1>10, <1>11
<1>14. SymbolTypeOK'
  <2>1. symbol_table' \in [SymbolSlots -> [key : Names, val : Addresses] \cup {Vacant}]
    BY <1>8, <1>9 DEF SymbolIInv, SymbolTypeOK
  <2>2. symbol_table_used' = Cardinality(Taken(n, symbol_table'))
    <3>1. IsFiniteSet(Taken(n, symbol_table))
      BY TakenFinite, SymbolAssumption
    <3>2. i \notin Taken(n, symbol_table)
      BY <1>12
    <3>3. Cardinality(Taken(n, symbol_table) \cup {i}) = Cardinality(Taken(n, symbol_table)) + 1
      BY <3>1, <3>2, FS_AddElement
    <3>. QED
      BY <1>9, <1>10, <3>3 DEF SymbolIInv, SymbolTypeOK
  <2>3. symbols' \subseteq [name : Names, address : Addresses]
    BY <1>6, <1>9 DEF SymbolIInv, SymbolTypeOK
  <2>. QED
    BY <1>5, <1>9, <2>1, <2>2, <2>3 DEF SymbolTypeOK
<1>15. NamesPlaced'
  <2>1. ASSUME NEW j \in Taken(n, symbol_table)
        PROVE  \/ symbol_table[j].val = LiteralAt(symbol_table[j].key)
               \/ \E a \in 0 .. (used - 1) : symbol_table[j].val = PoolAt(a)
    BY <1>5 DEF SymbolIInv, NamesPlaced
  <2>2. \/ sym = LiteralAt(s)
        \/ \E a \in 0 .. (used - 1) : sym = PoolAt(a)
    BY <1>4, <1>5
  <2>. QED
    BY <1>8, <1>9, <1>10, <1>12, <1>13, <2>1, <2>2 DEF NamesPlaced
<1>16. \A j \in Taken(n, symbol_table) : symbol_table[j].val # sym
  <2>. SUFFICES ASSUME NEW j \in Taken(n, symbol_table), symbol_table[j].val = sym
                PROVE  FALSE
    OBVIOUS
  <2>1. CASE symbol_table[j].val = LiteralAt(symbol_table[j].key)
    <3>1. symbol_table[j].key = s
      BY <2>1, <1>4, AddressFacts
    <3>2. i = j
      BY <3>1, <1>2, SymbolAssumption, SearchFinds DEF SymbolIInv, FindName
    <3>. QED
      BY <3>2, <1>12
  <2>2. CASE \E a \in 0 .. (string_pool_used - 1) : symbol_table[j].val = PoolAt(a)
    <3>1. PICK a \in 0 .. (string_pool_used - 1) : symbol_table[j].val = PoolAt(a)
      BY <2>2
    <3>2. sym = PoolAt(string_pool_used)
      BY <3>1, <1>4, AddressFacts
    <3>3. a = string_pool_used
      BY <3>1, <3>2, AddressFacts
    <3>. QED
      BY <3>1, <3>3, <1>5
  <2>. QED
    BY <2>1, <2>2 DEF SymbolIInv, NamesPlaced
<1>17. AddressesUnique'
  BY <1>8, <1>10, <1>12, <1>13, <1>16 DEF SymbolIInv, AddressesUnique
<1>18. SymbolsAreEntries'
  <2>. SUFFICES ASSUME NEW x \in symbols'
                PROVE  \E j \in Taken(n, symbol_table') :
                           symbol_table'[j].key = x.name /\ symbol_table'[j].val = x.address
    BY DEF SymbolsAreEntries
  <2>1. CASE x \in symbols
    BY <2>1, <1>10, <1>12 DEF SymbolIInv, SymbolsAreEntries
  <2>2. CASE x = [name |-> s, address |-> sym]
    BY <2>2, <1>8, <1>10, <1>13
  <2>. QED
    BY <2>1, <2>2, <1>9
<1>. QED
  BY <1>1, <1>6, <1>9, <1>10, <1>14, <1>15, <1>17, <1>18 DEF SymbolIInv

\* Whatever str2symbol does.
LEMMA InternStep ==
    ASSUME SymbolIInv, NEW s \in Names, NEW copy_p \in BOOLEAN, Str2Symbol(s, copy_p)
    PROVE  /\ SymbolIInv' /\ symbols \subseteq symbols'
           /\ CanIntern(s, copy_p) =>
                  /\ InternedAt(s, copy_p) \in Addresses
                  /\ [name |-> s, address |-> InternedAt(s, copy_p)] \in symbols'
<1>1. CASE CanIntern(s, copy_p)
  BY <1>1, InternKnown, InternNew
<1>2. CASE ~ CanIntern(s, copy_p)
  <2>1. UNCHANGED symbolVars
    BY <1>2 DEF Str2Symbol
  <2>. QED
    BY <2>1, <1>2 DEF symbolVars, SymbolIInv, SymbolTypeOK, NamesPlaced, AddressesUnique, SymbolsAreEntries
<1>. QED
  BY <1>1, <1>2

\* Other strings only push the end of the used part of the pool on.
LEMMA OtherStringStep ==
    ASSUME SymbolIInv, OtherString
    PROVE  SymbolIInv' /\ symbols' = symbols
<1>1. /\ string_pool_used' = string_pool_used + 1 /\ string_pool_used + 1 <= STRING_POOL_SIZE
      /\ UNCHANGED <<symbol_table, symbol_table_used, symbols>>
  BY DEF OtherString, NewStringArea
<1>2. string_pool_used \in Nat /\ STRING_POOL_SIZE \in Nat
  BY SymbolAssumption DEF SymbolIInv, SymbolTypeOK
<1>3. SymbolTypeOK'
  BY <1>1, <1>2 DEF SymbolIInv, SymbolTypeOK
<1>4. NamesPlaced'
  BY <1>1, <1>2 DEF SymbolIInv, NamesPlaced
<1>. QED
  BY <1>1, <1>3, <1>4 DEF SymbolIInv, AddressesUnique, SymbolsAreEntries

\* Two symbols with one name have one address, and the other way round.
LEMMA IdentityFromEntries == SymbolIInv => SymbolIdentity
<1>. SUFFICES ASSUME SymbolIInv, NEW x \in symbols, NEW y \in symbols
              PROVE  x.name = y.name <=> x.address = y.address
  BY DEF SymbolIdentity
<1>1. PICK i \in Taken(SYMBOL_TABLE_SIZE, symbol_table) :
          symbol_table[i].key = x.name /\ symbol_table[i].val = x.address
  BY DEF SymbolIInv, SymbolsAreEntries
<1>2. PICK j \in Taken(SYMBOL_TABLE_SIZE, symbol_table) :
          symbol_table[j].key = y.name /\ symbol_table[j].val = y.address
  BY DEF SymbolIInv, SymbolsAreEntries
<1>. QED
  BY <1>1, <1>2 DEF SymbolIInv, WellProbed, KeysUnique, AddressesUnique

\* The search for the name of a symbol ends at its entry.
LEMMA FoundFromEntries == SymbolIInv => SymbolsStayFindable
<1>. SUFFICES ASSUME SymbolIInv, NEW x \in symbols
              PROVE  SymbolTableLookup(x.name) = x.address
  BY DEF SymbolsStayFindable
<1>1. PICK i \in Taken(SYMBOL_TABLE_SIZE, symbol_table) :
          symbol_table[i].key = x.name /\ symbol_table[i].val = x.address
  BY DEF SymbolIInv, SymbolsAreEntries
<1>2. FindName(x.name) = i
  BY <1>1, SearchFinds, SymbolAssumption DEF SymbolIInv, FindName
<1>3. i # NotFound /\ symbol_table[i] # Vacant
  BY SymbolAssumption DEF Taken, NotFound
<1>. QED
  BY <1>1, <1>2, <1>3 DEF SymbolTableLookup
-----------------------------------------------------------------------------
(* Functions                                                                 *)

\* A function is entered under a symbol whose name it was registered for.
EntriesAreRegistered ==
    \A i \in Taken(FUNC_TABLE_SIZE, func_table) : \E x \in symbols :
        /\ x.address = func_table[i].key
        /\ [name |-> x.name, function |-> func_table[i].val] \in registered

RegisteredAreEntries ==
    \A r \in registered : \E i \in Taken(FUNC_TABLE_SIZE, func_table) : \E x \in symbols :
        x.name = r.name /\ x.address = func_table[i].key /\ func_table[i].val = r.function

IInv ==
    /\ SymbolIInv
    /\ TypeOK
    /\ WellProbed(FUNC_TABLE_SIZE, func_table, AddressHash)
    /\ EntriesAreRegistered
    /\ RegisteredAreEntries

\* The tables are empty at first.
LEMMA InitEstablishes == Init => IInv
<1>. SUFFICES ASSUME Init PROVE IInv
  OBVIOUS
<1>1. SymbolIInv
  BY SymbolInitOK DEF Init
<1>2. Taken(FUNC_TABLE_SIZE, func_table) = {}
  BY DEF Init, FuncSlots, Taken
<1>3. TypeOK
  BY <1>1, FuncAssumption DEF Init, TypeOK, SymbolIInv
<1>. QED
  BY <1>1, <1>2, <1>3 DEF IInv, WellProbed, PathsFull, KeysUnique, EntriesAreRegistered,
                          RegisteredAreEntries, Init

\* More symbols leave the function table as it should be.
LEMMA SymbolsOnly ==
    ASSUME IInv, SymbolIInv', symbols \subseteq symbols',
           UNCHANGED <<func_table, func_table_used, registered>>
    PROVE  IInv'
<1>1. TypeOK'
  BY DEF IInv, TypeOK, SymbolIInv
<1>2. EntriesAreRegistered' /\ RegisteredAreEntries'
  BY DEF IInv, EntriesAreRegistered, RegisteredAreEntries
<1>. QED
  BY <1>1, <1>2 DEF IInv

\* What add_func does when it accepts a function.
Registers(s, f, copy_p) ==
    LET sym == InternedAt(s, copy_p)
    IN  /\ CanIntern(s, copy_p) /\ CanAddFunc(sym)
        /\ func_table' = [func_table EXCEPT ![FindFunc(sym)] = [key |-> sym, val |-> f]]
        /\ func_table_used' = func_table_used + 1
        /\ registered' = registered \cup {[name |-> s, function |-> f]}

\* The function goes to a vacant slot and every other entry stays.
LEMMA RegistersEntry ==
    ASSUME IInv, NEW s \in Names, NEW f \in Functions, NEW copy_p \in BOOLEAN,
           InternedAt(s, copy_p) \in Addresses, Registers(s, f, copy_p)
    PROVE  \E i \in FuncSlots :
               /\ func_table[i] = Vacant
               /\ func_table'[i] = [key |-> InternedAt(s, copy_p), val |-> f]
               /\ \A j \in FuncSlots : j # i => func_table'[j] = func_table[j]
               /\ func_table' \in [FuncSlots -> [key : Addresses, val : Functions] \cup {Vacant}]
               /\ WellProbed(FUNC_TABLE_SIZE, func_table', AddressHash)
               /\ Taken(FUNC_TABLE_SIZE, func_table') = Taken(FUNC_TABLE_SIZE, func_table) \cup {i}
<1>. DEFINE n == FUNC_TABLE_SIZE
<1>1. PICK sym : sym = InternedAt(s, copy_p)
  OBVIOUS
<1>2. PICK i : i = FindFunc(sym)
  OBVIOUS
<1>3. PICK entry : entry = [key |-> sym, val |-> f]
  OBVIOUS
<1>4. entry \in [key : Addresses, val : Functions] /\ entry # Vacant /\ entry.key = sym
  BY <1>1, <1>3, FuncAssumption
<1>5. n \in Nat \ {0} /\ AddressHash[entry.key] \in 0 .. (n - 1)
  BY <1>4, FuncAssumption
<1>6. i # NotFound /\ func_table[i] = Vacant /\ i = Search(n, func_table, AddressHash[entry.key], entry.key)
  BY <1>1, <1>2, <1>4 DEF Registers, CanAddFunc, FindFunc
<1>7. func_table' = [func_table EXCEPT ![i] = entry]
  BY <1>1, <1>2, <1>3 DEF Registers
<1>8. \A j \in 0 .. (n - 1) : func_table'[j] = IF j = i THEN entry ELSE func_table[j]
  BY <1>7 DEF IInv, TypeOK, FuncSlots
<1>9. WellProbed(n, func_table, AddressHash) /\ entry # Vacant
  BY <1>4 DEF IInv
<1>10. /\ WellProbed(n, func_table', AddressHash)
       /\ Taken(n, func_table') = Taken(n, func_table) \cup {i}
       /\ i \in 0 .. (n - 1)
  BY <1>5, <1>6, <1>8, <1>9, InsertKeepsProbing
<1>11. func_table' \in [FuncSlots -> [key : Addresses, val : Functions] \cup {Vacant}]
  BY <1>4, <1>7 DEF IInv, TypeOK
<1>12. func_table'[i] = entry /\ \A j \in FuncSlots : j # i => func_table'[j] = func_table[j]
  BY <1>8, <1>10 DEF FuncSlots
<1>. QED
  BY <1>1, <1>3, <1>6, <1>10, <1>11, <1>12 DEF FuncSlots

\* A registration keeps the invariant.
LEMMA RegistersOK ==
    ASSUME IInv, NEW s \in Names, NEW f \in Functions, NEW copy_p \in BOOLEAN,
           SymbolIInv', symbols \subseteq symbols',
           InternedAt(s, copy_p) \in Addresses,
           [name |-> s, address |-> InternedAt(s, copy_p)] \in symbols',
           Registers(s, f, copy_p)
    PROVE  IInv'
<1>1. PICK i \in FuncSlots :
          /\ func_table[i] = Vacant
          /\ func_table'[i] = [key |-> InternedAt(s, copy_p), val |-> f]
          /\ \A j \in FuncSlots : j # i => func_table'[j] = func_table[j]
          /\ func_table' \in [FuncSlots -> [key : Addresses, val : Functions] \cup {Vacant}]
          /\ WellProbed(FUNC_TABLE_SIZE, func_table', AddressHash)
          /\ Taken(FUNC_TABLE_SIZE, func_table') = Taken(FUNC_TABLE_SIZE, func_table) \cup {i}
  BY RegistersEntry
<1>2. \A j \in Taken(FUNC_TABLE_SIZE, func_table) :
          j \in Taken(FUNC_TABLE_SIZE, func_table') /\ func_table'[j] = func_table[j]
  BY <1>1 DEF Taken, FuncSlots
<1>3. PICK sym : sym = InternedAt(s, copy_p)
  OBVIOUS
<1>4. /\ i \in Taken(FUNC_TABLE_SIZE, func_table')
      /\ func_table'[i].key = sym /\ func_table'[i].val = f
  BY <1>1, <1>3
<1>5. /\ [name |-> s, address |-> sym] \in symbols'
      /\ registered' = registered \cup {[name |-> s, function |-> f]}
  BY <1>3 DEF Registers
<1>6. PICK x \in symbols' : x.name = s /\ x.address = sym
  BY <1>5
<1>7. TypeOK'
  <2>1. func_table_used' \in 0 .. FUNC_TABLE_SIZE
    BY FuncAssumption DEF IInv, TypeOK, Registers, CanAddFunc
  <2>2. registered' \subseteq [name : Names, function : Functions]
    BY <1>5 DEF IInv, TypeOK
  <2>. QED
    BY <1>1, <2>1, <2>2 DEF TypeOK, SymbolIInv
<1>8. EntriesAreRegistered'
  <2>. SUFFICES ASSUME NEW j \in Taken(FUNC_TABLE_SIZE, func_table')
                PROVE  \E y \in symbols' : /\ y.address = func_table'[j].key
                                           /\ [name |-> y.name, function |-> func_table'[j].val] \in registered'
    BY DEF EntriesAreRegistered
  <2>1. CASE j = i
    BY <2>1, <1>4, <1>5, <1>6
  <2>2. CASE j \in Taken(FUNC_TABLE_SIZE, func_table)
    BY <2>2, <1>2, <1>5 DEF IInv, EntriesAreRegistered
  <2>. QED
    BY <2>1, <2>2, <1>1
<1>9. RegisteredAreEntries'
  <2>. SUFFICES ASSUME NEW r \in registered'
                PROVE  \E j \in Taken(FUNC_TABLE_SIZE, func_table') : \E y \in symbols' :
                           y.name = r.name /\ y.address = func_table'[j].key /\ func_table'[j].val = r.function
    BY DEF RegisteredAreEntries
  <2>1. CASE r = [name |-> s, function |-> f]
    BY <2>1, <1>4, <1>6
  <2>2. CASE r \in registered
    <3>1. PICK j \in Taken(FUNC_TABLE_SIZE, func_table) : \E y \in symbols :
              y.name = r.name /\ y.address = func_table[j].key /\ func_table[j].val = r.function
      BY <2>2 DEF IInv, RegisteredAreEntries
    <3>. QED
      BY <3>1, <1>2
  <2>. QED
    BY <2>1, <2>2, <1>5
<1>. QED
  BY <1>1, <1>7, <1>8, <1>9 DEF IInv

\* add_func_from_cstr registers, or leaves the function table as it is.
LEMMA AddFuncCases ==
    ASSUME NEW s \in Names, NEW f \in Functions, NEW copy_p \in BOOLEAN, AddFuncFromCstr(s, f, copy_p)
    PROVE  /\ Str2Symbol(s, copy_p)
           /\ Registers(s, f, copy_p) \/ UNCHANGED <<func_table, func_table_used, registered>>
  BY DEF AddFuncFromCstr, Registers

\* Every step keeps the invariant, and no symbol is forgotten.
LEMMA StepKeeps == IInv /\ [Next]_vars => IInv' /\ symbols \subseteq symbols'
<1>. SUFFICES ASSUME IInv, [Next]_vars PROVE IInv' /\ symbols \subseteq symbols'
  OBVIOUS
<1>. USE DEF IInv
<1>1. CASE OtherString
  <2>1. SymbolIInv' /\ symbols' = symbols
    BY <1>1, OtherStringStep
  <2>. QED
    BY <1>1, <2>1, SymbolsOnly DEF OtherString
<1>2. ASSUME NEW s \in Names, NEW copy_p \in BOOLEAN, InternOnly(s, copy_p)
      PROVE  IInv' /\ symbols \subseteq symbols'
  BY <1>2, InternStep, SymbolsOnly DEF InternOnly
<1>3. ASSUME NEW s \in Names, NEW f \in Functions, NEW copy_p \in BOOLEAN, AddFuncFromCstr(s, f, copy_p)
      PROVE  IInv' /\ symbols \subseteq symbols'
  <2>1. /\ Str2Symbol(s, copy_p)
        /\ Registers(s, f, copy_p) \/ UNCHANGED <<func_table, func_table_used, registered>>
    BY <1>3, AddFuncCases
  <2>2. /\ SymbolIInv' /\ symbols \subseteq symbols'
        /\ CanIntern(s, copy_p) =>
               /\ InternedAt(s, copy_p) \in Addresses
               /\ [name |-> s, address |-> InternedAt(s, copy_p)] \in symbols'
    BY <2>1, InternStep
  <2>3. CASE Registers(s, f, copy_p)
    <3>1. CanIntern(s, copy_p)
      BY <2>3 DEF Registers
    <3>. QED
      BY <2>2, <2>3, <3>1, RegistersOK
  <2>4. CASE UNCHANGED <<func_table, func_table_used, registered>>
    BY <2>2, <2>4, SymbolsOnly
  <2>. QED
    BY <2>1, <2>3, <2>4
<1>4. CASE UNCHANGED vars
  <2>1. SymbolIInv' /\ symbols' = symbols
    BY <1>4 DEF vars, symbolVars, SymbolIInv, SymbolTypeOK, NamesPlaced, AddressesUnique, SymbolsAreEntries
  <2>. QED
    BY <1>4, <2>1, SymbolsOnly DEF vars
<1>. QED
  BY <1>1, <1>2, <1>3, <1>4 DEF Next
-----------------------------------------------------------------------------
(* Calls                                                                     *)

\* Each entry of the function table is what its symbol calls.
LEMMA EntryIsCalled ==
    ASSUME IInv, NEW i \in Taken(FUNC_TABLE_SIZE, func_table)
    PROVE  GetFunc(func_table[i].key) = func_table[i].val
<1>1. FindFunc(func_table[i].key) = i
  BY SearchFinds, FuncAssumption DEF IInv, FindFunc
<1>2. i # NotFound /\ func_table[i] # Vacant
  BY FuncAssumption DEF Taken, NotFound
<1>. QED
  BY <1>1, <1>2 DEF GetFunc

\* A symbol calls nothing unless it has an entry.
LEMMA CalledIsEntry ==
    ASSUME IInv, NEW sym \in Addresses, GetFunc(sym) # NoFunction
    PROVE  \E i \in Taken(FUNC_TABLE_SIZE, func_table) :
               func_table[i].key = sym /\ func_table[i].val = GetFunc(sym)
<1>1. PICK i : i = FindFunc(sym)
  OBVIOUS
<1>2. i # NotFound /\ func_table[i] # Vacant /\ GetFunc(sym) = func_table[i].val
  BY <1>1 DEF GetFunc
<1>3. i \in 0 .. (FUNC_TABLE_SIZE - 1) /\ func_table[i].key = sym
  BY <1>1, <1>2, SearchInTable, FuncAssumption DEF FindFunc
<1>. QED
  BY <1>2, <1>3 DEF Taken

\* A symbol in somebody's hands calls what was registered under its name.
LEMMA DispatchFromEntries == IInv => DispatchByName
<1>. SUFFICES ASSUME IInv, NEW x \in symbols
              PROVE  LET fs == {r.function : r \in {q \in registered : q.name = x.name}}
                     IN  IF fs = {} THEN GetFunc(x.address) = NoFunction
                         ELSE fs = {GetFunc(x.address)}
  BY DEF DispatchByName
<1>1. SymbolIdentity
  BY IdentityFromEntries DEF IInv
<1>2. x.address \in Addresses
  BY DEF IInv, TypeOK, SymbolTypeOK
<1>3. ASSUME NEW r \in registered, r.name = x.name
      PROVE  r.function = GetFunc(x.address)
  <2>1. PICK i \in Taken(FUNC_TABLE_SIZE, func_table), y \in symbols :
            y.name = r.name /\ y.address = func_table[i].key /\ func_table[i].val = r.function
    BY DEF IInv, RegisteredAreEntries
  <2>2. y.address = x.address
    BY <1>1, <1>3, <2>1 DEF SymbolIdentity
  <2>. QED
    BY <2>1, <2>2, EntryIsCalled
<1>4. ASSUME GetFunc(x.address) # NoFunction
      PROVE  \E r \in registered : r.name = x.name
  <2>1. PICK i \in Taken(FUNC_TABLE_SIZE, func_table) : func_table[i].key = x.address
    BY <1>2, <1>4, CalledIsEntry
  <2>2. PICK y \in symbols : /\ y.address = func_table[i].key
                             /\ [name |-> y.name, function |-> func_table[i].val] \in registered
    BY DEF IInv, EntriesAreRegistered
  <2>3. y.name = x.name
    BY <1>1, <2>1, <2>2 DEF SymbolIdentity
  <2>. QED
    BY <2>2, <2>3
<1>. QED
  BY <1>3, <1>4

\* A step leaves the entries of the function table where they are.
LEMMA EntriesStay ==
    ASSUME IInv, [Next]_vars, NEW i \in Taken(FUNC_TABLE_SIZE, func_table)
    PROVE  i \in Taken(FUNC_TABLE_SIZE, func_table') /\ func_table'[i] = func_table[i]
<1>1. CASE func_table' = func_table
  BY <1>1
<1>2. ASSUME NEW s \in Names, NEW f \in Functions, NEW copy_p \in BOOLEAN, AddFuncFromCstr(s, f, copy_p)
      PROVE  i \in Taken(FUNC_TABLE_SIZE, func_table') /\ func_table'[i] = func_table[i]
  <2>1. /\ Str2Symbol(s, copy_p)
        /\ Registers(s, f, copy_p) \/ UNCHANGED <<func_table, func_table_used, registered>>
    BY <1>2, AddFuncCases
  <2>2. CASE Registers(s, f, copy_p)
    <3>1. InternedAt(s, copy_p) \in Addresses
      BY <2>1, <2>2, InternStep DEF Registers, IInv
    <3>2. PICK j \in FuncSlots :
              /\ func_table[j] = Vacant
              /\ \A k \in FuncSlots : k # j => func_table'[k] = func_table[k]
              /\ Taken(FUNC_TABLE_SIZE, func_table') = Taken(FUNC_TABLE_SIZE, func_table) \cup {j}
      BY <2>2, <3>1, RegistersEntry
    <3>. QED
      BY <3>2 DEF Taken, FuncSlots
  <2>. QED
    BY <2>1, <2>2, <1>1
<1>. QED
  BY <1>1, <1>2 DEF Next, OtherString, InternOnly, vars

\* What a symbol calls, it calls after every step.
LEMMA CallStays ==
    ASSUME IInv, IInv', [Next]_vars, NEW x \in symbols, GetFunc(x.address) # NoFunction
    PROVE  GetFunc(x.address)' = GetFunc(x.address)
<1>1. x.address \in Addresses
  BY DEF IInv, TypeOK, SymbolTypeOK
<1>2. PICK i \in Taken(FUNC_TABLE_SIZE, func_table) :
          func_table[i].key = x.address /\ func_table[i].val = GetFunc(x.address)
  BY <1>1, CalledIsEntry
<1>3. i \in Taken(FUNC_TABLE_SIZE, func_table') /\ func_table'[i] = func_table[i]
  BY EntriesStay
<1>4. PICK key, val : key = func_table[i].key /\ val = func_table[i].val
  OBVIOUS
<1>5. GetFunc(key)' = val
  <2>1. WellProbed(FUNC_TABLE_SIZE, func_table', AddressHash)
    BY DEF IInv
  <2>2. Search(FUNC_TABLE_SIZE, func_table', AddressHash[key], key) = i
    BY <1>3, <1>4, <2>1, SearchFinds, FuncAssumption
  <2>3. i # NotFound /\ func_table'[i] # Vacant
    BY <1>3, FuncAssumption DEF Taken, NotFound
  <2>. QED
    BY <1>3, <1>4, <2>2, <2>3 DEF GetFunc, FindFunc
<1>. QED
  BY <1>2, <1>4, <1>5
-----------------------------------------------------------------------------
(* The theorems                                                              *)

\* The inductive invariant: entries are findable, unique and what was asked for.
THEOREM InvariantHolds == Spec => []IInv
<1>1. IInv /\ [Next]_vars => IInv'
  BY StepKeeps
<1>. QED
  BY <1>1, InitEstablishes, PTL DEF Spec

\* The counters of the tables count their entries and none overflows.
THEOREM TypeCorrect == Spec => []TypeOK
<1>1. IInv => TypeOK
  BY DEF IInv
<1>. QED
  BY <1>1, InvariantHolds, PTL

\* Comparing the addresses of symbols is comparing their names.
THEOREM AddressesAreNames == Spec => []SymbolIdentity
<1>1. IInv => SymbolIdentity
  BY IdentityFromEntries DEF IInv
<1>. QED
  BY <1>1, InvariantHolds, PTL

\* A symbol that was handed out is found under its name ever after.
THEOREM SymbolsAreFound == Spec => []SymbolsStayFindable
<1>1. IInv => SymbolsStayFindable
  BY FoundFromEntries DEF IInv
<1>. QED
  BY <1>1, InvariantHolds, PTL

\* A call reaches the function registered under the name, and only that.
THEOREM CallsReachTheirFunction == Spec => []DispatchByName
<1>1. IInv => DispatchByName
  BY DispatchFromEntries
<1>. QED
  BY <1>1, InvariantHolds, PTL

\* What a symbol calls never changes.
THEOREM RegistrationsAreFinal == Spec => RegistrationIsFinal
<1>1. ASSUME IInv, IInv', [Next]_vars
      PROVE  [\A x \in symbols : GetFunc(x.address) # NoFunction =>
                  GetFunc(x.address)' = GetFunc(x.address)]_vars
  BY <1>1, CallStays
<1>. QED
  BY <1>1, InvariantHolds, PTL DEF Spec, RegistrationIsFinal
=============================================================================
