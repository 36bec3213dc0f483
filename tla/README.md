# A TLA+ verification of mlisj

mlisj is a C library that evaluates one Lisp expression of an SKK dictionary
entry and gives back a string. Its single entry point is `mlisj_eval`. Each call
builds an environment (memory pools, symbol table, variable stack, function
table), reads the expression, evaluates it, copies the result into the caller's
buffer and destroys the environment. Paths below are relative to `src/src/`
unless they begin with `src/`.

## 1. Inventory

| Component | State | Operations | Who uses it |
|---|---|---|---|
| Memory pools (`mempool.c`) | four arrays, a "used" counter each | `new_lispobject_array`, `new_string_area`, `copy_to_string_area`, `cdouble2float`, `new_narray`, `cdr_narray` | reader, evaluator, built-ins, symbol table |
| Symbol table (`symbol.c`) | open hash table, count | `str2symbol`, `symbol_table_lookup` | reader, registration, `skk-relative-date` |
| Function table (`functable.c`) | open hash table keyed by address, count | `add_func`, `add_func_from_cstr`, `get_func` | registration, evaluator |
| Variable stack (`variable.c`) | bindings, count | `set_variable`, `get_variable`, `save_`/`restore_variable_status` | registration, evaluator |
| Evaluator (`eval.c`) | the C stack | `eval_expr`, `eval_list`, `eval_args`, `eval_symbol`, `call_lambda` | driver, date functions |
| Simple functions (`func-simple.c`) | none | 11 functions, 2 dynamic variables | evaluator |
| SKK gadgets (`func-skk-gadgets.c`) | none | 8 functions, 1 dynamic variable; two of them call back into `call_lambda` | evaluator |
| Reader (`reader.c`) | source pointer, nesting level | `reader` | driver |
| Numbers (`util.c`) | none | `check_num_str`, `skk_num_exp` | reader, functions |
| Environment (`lispenv.c`) | pointers to the four components | `init_lispenv`, `end_lispenv` | driver |
| Driver (`mlisj.c`) | exit code | `mlisj_eval` | the caller |

The program is sequential, keeps no state between calls and has no mutable
globals. What is hard about it is not concurrency but

* **exhaustion**: every pool and table is small and fixed, so every step of an
  evaluation can be refused memory, after part of the step has been done;
* **sharing**: `cdr_narray` shares bodies, `concat` returns its argument,
  symbols are compared by address although a name may be a copy or a literal;
* **nesting**: arrays are filled between nested evaluations that fill theirs,
  and dynamic bindings are dropped by resetting a counter;
* **cleanup**: ten `malloc`s in five functions, freed by two kinds of code;
* **boundaries**: off-by-one tests in the reader, the numerals and the eras.

`PROJECT.json` lists these hazards one by one with the lines where they bite.
What makes each component correct:

* pools: a cell belongs to one datum, a refused request has no effect, a
  finished list never changes;
* symbol and function tables: equal addresses mean equal names; whatever was
  entered is found; a call reaches the function registered under its name;
* evaluator: it computes the meaning of the expression or returns an error at
  once; bindings nest; it ends; exhaustion never looks like a value;
* environment and driver: each block is freed exactly once; each call replies;
* reader: the text is read as what it denotes or refused with the right error; the
  cursor stays inside it; the C stack is bounded; it ends;
* numerals and eras: a numeral read aloud is the number it was written for, the
  buffer is not overrun, no index leaves its table; every day has its era and the
  conversion has a way back.

## 2. Modules

| Module | Models | Notes |
|---|---|---|
| `Arena` | what the pools promise | abstract; areas are handed out whole or not at all, never overlap, never return |
| `Mempool` | `mempool.c` | one action per allocator, plus the clients' filling of a new array |
| `OpenTable` | the probing loop shared by both hash tables | operators only |
| `SymbolTable`, `FuncTable` | `symbol.c`, `functable.c` | `FuncTable` extends `SymbolTable`: `add_func_from_cstr` and the reader intern, then register |
| `LispData` | `lispobject.h`, cost of each allocation | objects as values, a string is its bytes |
| `Numerals` | `util.c` | operators only: `check_num_str`, `skk_num_exp`, and `strtol` as the code uses it |
| `NumberCalls` | a program that calls one of the two | a state machine around `Numerals`, with the properties of numbers and numerals |
| `Eras` | `ad_to_gengo_1`, `gengo_to_ad_1` | operators only |
| `Calendar` | a program that asks for the era day by day | a state machine around `Eras` |
| `Builtins` | `func-simple.c`, `func-skk-gadgets.c` | arguments and memory to value and memory |
| `Evaluator` | `eval.c`, `variable.c`, the end of `mlisj.c` | the C stack is a sequence of frames |
| `LispMeaning` | nothing: the reference definition of evaluation | `Meaning` is a constant operator; `MeaningByParts` says what it is of an expression, given what it is of the parts |
| `Reader` | `reader.c` | the C stack is a sequence of frames; works on the chars of the text |
| `Grammar` | nothing: the reference definition of reading | works on tokens; `Parse` and `ParseItems` are constant operators; `ParseByParts` and `ParseItemsByParts` say what they are of tokens, given what they are of the rest |
| `ReaderMeaning` | | properties that compare `Reader` with `Grammar`; `TokensStand`, what the chars of a text say of its tokens one by one |
| `Interpreter` | `mlisj_eval` from text to reply | composes `Reader` and `Evaluator` on one memory; the reader is an INSTANCE of `ReaderProofs`, so that the theorems about it can be cited |
| `InterpreterMeaning` | | the property that compares `Interpreter` with `Grammar` and `Meaning`, and what both assume of the texts |
| `LispService` | what the caller sees | abstract |
| `Mlisj` | `mlisj.c`, `lispenv.c`, all `init_`/`end_` functions | composes the lifecycles of the four components |
| `MempoolProofs`, `FuncTableProofs`, `EvaluatorProofs`, `ErasProofs`, `ReaderProofs`, `NumeralsProofs`, `MlisjProofs` | | theorems |
| `Lemmas` | | induction over the numbers, iteration, stacks of frames; used by four of them |
| `MC...` | | values for TLC |

How state corresponds to code:

* `Mempool.used[p]` is `<p>_pool_used`; a node's `size` and `data` are those of
  `NArray`, with cell numbers for pointers. `areas`, `outcome`, `filled` and
  `tailOf` are ghosts. The contents of strings and floats are left out: nobody
  writes them after their creation. `lispobject_pool` keeps its contents because
  arrays are filled later than they are allocated, and `Garbage` is what
  `malloc` left there.
* `SymbolTable.symbol_table` maps a slot to a name and the address of its
  characters: a literal of the program or a place in the string pool. The hash
  functions are constants, so every collision pattern is allowed. `FuncTable`
  compares addresses only, as the code does.
* `Evaluator.frames` has a frame for each `eval_args` that waits for an argument
  (`fn`, the forms to do, the values done) and one for each `call_lambda` that
  waits for a body form (the forms to do, the saved stack height). An action is
  the code between two calls or returns of `eval_expr`. `mem` keeps only how
  many cells are free in each pool: that objects may be treated as values is
  exactly what `DatumImmutable` and `FinishedListsReadable` of `Mempool` say.
  Registered variables are the bottom of `variable_stack`.
* `Reader.cursor` is the index of `reader_context`'s `src` in a memory that holds
  the text, its NUL and what lies behind it; `open` has a frame for each
  `reader_list` (with its buffer) and each `reader_quoted` that waits. An action is
  the code between two calls or returns of `reader_sexp`. An atom is read in one
  action, with the number of bytes the buffer would take.
* `Interpreter` starts `Evaluator` with the object `Reader` returned and the memory
  it left; `Reader.mem` and `Evaluator.mem` are the same variable.
* `Mlisj.pc` is the place in `mlisj_eval`, `heap` the allocated blocks,
  `fields` the components whose pointer in `lispenv_t` is set. Reading and
  evaluating are one step each with all the results the code tells apart;
  `Evaluator` is the detail of the second.

Definitions next to a comment "Mutant" are deliberately wrong versions of the
definition below them. Nothing uses them; they show that the properties notice
a plausible mistake in the code (`PROJECT.json`, "mutants").

## 3. Runs

Run a configuration with `tlc -config X.cfg M`.

**mempool** (`MCMempool`). Pools of 4 objects, 2 bytes, 1 float and 3 nodes with
arrays of up to 3 items: the node pool and the object pool each run out while the
other has room, a tail of a tail exists, and one string request is the size
that `make-string` computes for `INT_MAX` (as a `size_t`). The two items are
interchangeable, hence the symmetry. Checked: cells are given out once and none
is lost (`AreasTilePools`); a finished list is readable (`FinishedListsReadable`)
and never changes (`DatumImmutable`, the README's "Datum are immutable");
`cdr_narray` makes the tail (`CdrIsTail`); the pools implement `Arena`.

**functable** (`MCFuncTable`). Four names for three slots, three of them with the
same home at the end of the table so that probing wraps; a function table of two
slots; a string pool that runs out, also through strings that are no names. Names
come as copies and as literals in every order. Two names and the two functions
behave alike, hence the symmetry. Checked: `SymbolIdentity`,
`SymbolsStayFindable`, `DispatchByName`, `RegistrationIsFinal`, and, in `TypeOK`, that
`used` counts the occupied slots.

**evaluator** (`MCEvaluator`). Fifty-two programs that between them use all nineteen
functions, every kind of error, shadowing, nested lambdas, one lambda more than
the variable stack holds, and a lambda that calls itself for ever. Each runs with plenty of memory and with every amount of
every single pool and of the symbol table below what it needs. The variable stack
has 15 entries: five globals and room for two lambdas. Checked: `ResultIsMeaning`
compares the machine with `Meaning`, which the run gives its recursive definition; `LambdaBindingsNest`,
`CallsArePaidFor` (two nodes for every waiting call, of a function or of a lambda, so
the node pool bounds the C stack),
`ExhaustionIsAnError`, `ErrorsReturnImmediately`, `Terminates`. Deadlock checking
is off because the machine stops when `mlisj_eval` has returned. The clock stands
still during one evaluation, which makes `Meaning` a function.

**exhaustion** (`MCEvaluator`, expected to fail). The README (`src/README.md:43`)
gives `MLISJ_ERROR_RUNTIME` for used up memory. The built-ins keep to it, but
`eval.c` returns `Evaluation_Error` when it gets no node or array itself
(lines 64 and 101) and when the variable stack is full (line 30), which the driver
reports as `MLISJ_ERROR_EVALUATION`.

**undefined** (`MCEvaluator`, expected to fail). `f_skk_default_current_date`
tests `args->size == 7 || args->size <= 8`, which every size up to eight passes,
and reads seven arguments: with fewer it reads cells behind its argument list.

**numerals** (`NumberCalls` with `MCNumerals`). `check_num_str` on every text of up to five chars from
a class of signs, digits, points and others, in both modes, against a definition
of number that looks at the whole text at once (`ScansNumbers`); `skk_num_exp` on
numbers of up to 28 digits, all types in and out of the table, and buffers around
the size of the text. `KanjiReadsBack` reads the numeral aloud and gets the number
back, `OnesAndZeros` says which ones are written, `TextsFit` that a buffer is never
overrun by more than the NUL that `util.c:177` forgets, and `TablesSuffice` that
within twenty digits and the types SKK uses no index leaves its table.

**calendar** (`Calendar`). Every day from October 1868 to the end of 2030, one
state each, so every era begins and ends once: `DayHasItsEra`, `RoundTrip` through
`gengo_to_ad_1`, `UnspecifiedIsTheEnd` (a month or day left out), `ErasSucceed`.

**reader** (`MCReader`). Limits of six chars, three items and two levels; every
text of up to two tokens out of thirty-odd, of up to five of the structural ones,
lists of two, and texts that break off in a token: nearly four thousand, each with
six budgets that let each pool run out. The tokens reach each limit and the size
next to it. `ReadsAsGrammar` compares with `Grammar`; `MemoryErrorIsShortage` says
when the caller may believe `Memory_Error`; `CursorStaysInText` and
`RecursionConsumesText` bound the cursor and the C stack; `Terminates`. The run gives
`Parse` its recursive definition, and TLC evaluates that the tokens stand in the text
(`AtomsStand`), a hypothesis of two theorems.

**reader_end** (expected to fail). A backslash as the last character of the text
makes `reader_string` step over the NUL (`reader.c:196`); with a double quote
further on in the memory the broken text is read as a string.

**reader_nesting** (expected to fail). `nesting_level` is never decremented
(`reader.c:219`), so a flat expression with too many lists is refused as nested.
`ReadsAsGrammar` holds because `Grammar` counts the way the code does; this run
shows that this is not what the limit is said to be.

**call** (`MCInterpreter`). More than fifteen hundred texts, four budgets, two sizes
of the caller's buffer. `ReplyIsMeaning`: the caller gets the string the text
denotes, by `Grammar` and `Meaning` together, or the exit code of its error;
`ShortageIsNoReply`; `CallReturns`. The interesting part is what the reader leaves
for the evaluator: nodes, string bytes and symbols it used up before.

**lifecycle** (`Mlisj` with `MCMlisj.cfg`). The shipped table sizes, any `malloc`
failing, any number of calls one after the other. Checked: `NoMisuse` (no block
is freed twice or used after it was freed), `FailureIsReported`,
`ImplementsService` (no call leaves a block behind; `dest` is written exactly when
the code is 0), `CallsReturn`.

Fairness. `Evaluator`, `Reader` and `Interpreter` assume weak fairness of their
whole next-state relation and `Mlisj` of `Running`:
the library is straight-line sequential code that waits for nobody, so once
called it keeps running. Nothing is assumed about the caller, who need not call
again.

## 4. Proofs

For every value of the constants TLAPS proves, in `MempoolProofs`,

* `TypeCorrect`, `AreasNeverOverlap`, `FinishedListsAreReadable`, `CdrStaysTail`,
  `DatumsAreImmutable`: the invariants and `DatumImmutable` of the run `mempool`;
* `MempoolImplementsArena`: `Spec => ImplementsArena`;

under `SizeAssumption`: pool sizes are positive and no request the callers can make
lets `used + n` leave `size_t`. The properties are not inductive. `IInv` adds that
the areas of a pool tile its used cells; that every node's body lies inside one
object area below the counter; that the filled part of a body holds objects; that a
tail's node and its source describe the same cells; and that the body of an
unfinished array is shared with no other list (`UnfinishedAlone`). The last is the
heart of it: `cdr_narray` is applied to finished lists only, so a fill never
touches a cell that somebody else can read.

In `FuncTableProofs`, for all names, functions, hash functions and table sizes,

* `TypeCorrect`, `AddressesAreNames`, `SymbolsAreFound`, `CallsReachTheirFunction`,
  `RegistrationsAreFinal`: the five properties of the run `functable`.

The assumptions are those of `SymbolTable` and `FuncTable`: sizes are positive,
a hash is a slot, and `NULL` is no entry. The argument is the one for open
addressing without deletion (`WellProbed`): no vacant slot lies between the home
of an entry and the entry (`PathsFull`), so a search cannot stop before it, and no
key is entered twice (`KeysUnique`), so it cannot stop at another one. `IInv` says
this of both tables and adds that a literal lies at its own address and a copied name
at an address no other entry has, that the symbols handed out are
the entries, and that the function table holds exactly the pairs registered.

In `EvaluatorProofs`, for every set of programs, budgets, keywords and sizes, and
whatever the clock, `strtod` and `%g` give,

* `EveryCallIsPaidFor`, `RefusalsAreErrors`, `ErrorsFallThrough`, `BindingsNestAlways`,
  `TypeCorrect`: `CallsArePaidFor`, `ExhaustionIsAnError`, `ErrorsReturnImmediately`,
  `LambdaBindingsNest` and `TypeOK`;
* `ResultsAreMeanings`: `ResultIsMeaning`, an evaluation that was refused nothing
  returns what its expression means;
* `ShortagesAreReported`: `ShortageIsNoReply` of the run `call`, for every source text;
* `RepliesAreMeanings`: `ReplyIsMeaning` of the run `call`, if `GrammarIsByParts`,
  `MeaningIsByParts` and `TokensStand(source)`: from the text to the exit code and the
  caller's buffer.

The assumptions (`BudgetAssumption`, `GlobalsFit`, `NumListAssumption`):
a budget is a number of free cells for each pool, the built-in variables fit the
variable stack, and the caller's `skk-num-list` is a list of texts or none; for
`ResultsAreMeanings` also `ObjectsAssumption` and `SizesAreInts`, and for
`RepliesAreMeanings` `TextsAssumption`, see below. First every built-in function is shown to be
`Honest`: from a memory in which nothing was refused it leaves no more nodes
than there were, and if something was refused its value is an error. Most
functions are chains of allocations (`Then`), so this is the proof that no
`CHECK_ALLOC` or test for `NULL` is missing in `func-simple.c` and
`func-skk-gadgets.c`, for arguments of any type. `IInv` then adds that the frames are
of the two kinds, that the functions called are the registered ones, that a
refused memory goes with an error in `control`, and that there is no frame left when
the reply is given. `CallsArePaidFor` is not inductive: `call_lambda` pushes a frame for
which the `eval_args` before it has paid. `CallsPaid` counts the call about to be made
with those that wait. `BindingsOK` counts: while no error is on its way out, the variable
stack is as high as five built-in variables and four bindings for each body frame.
`TypeCorrect` needs the stack during errors as well, when a `call_lambda` that failed
has left some of its bindings: `StackOK` says that no height that
`restore_variable_status` may go back to lies outside the array.

`ResultsAreMeanings` compares the machine with a recursion over expressions. `Meaning` is
declared, not defined: the theorem's hypothesis `MeaningIsByParts` is the equation that the
recursion satisfies, for every object of the programs and everything that is no list, in
every environment; the runs take the equation as the definition (`MCMeaning`). It fixes the
meaning of every expression whose evaluation has an end. There are others: `format` may be
a lambda that its own body calls again (`func-skk-gadgets.c:539`). An error is a solution of
the equation for these, and the machine never contradicts it, since it always runs out of
variable stack. `ObjectsAssumption` says that the programs and their
parts are the objects meant and none of them an error, `SizesAreInts` that a pool's size is
an int. The argument has three parts. (1) A
function that is refused nothing returns what it returns with unlimited memory
(`Agree`, one lemma for every built-in, along the same chains as `Honest`): running out is
the only influence memory has. (2) Values are `Fine`: lists are made of the objects of
programs and of plain values, so evaluation never meets a list that some function made
as an expression. (3) `MeaningInv`: there is a sequence of results, one for each frame, such
that the outermost is the answer, each frame turns the next one into its own (`Waits`), on
the part of the variable stack that will be left when it gets it, and the innermost is the
meaning of what the machine is about to compute (`Chain`). A push lengthens the chain, a
pop shortens it, an error runs through it (`ErrorsEscape`), and binding four parameters on
the stack is extending the environment (`BoundEnv`), which is how shadowing, two
parameters with one name and the restoring of bindings come in.

For the whole call, `CallInv` is the evaluator's invariant once the evaluator runs, and
before that `ReaderInv`: what the reader was refused is an error about to be returned. The
step between them is the point: the evaluator starts from a memory in which nothing was
refused, however little of it is left.

`RepliesAreMeanings` puts the two theorems about meaning together. `TextsAssumption` says
of the texts what `ReaderProofs` assumes, and that what they denote is an error or one of
the objects `MeaningIsByParts` is about. The instance `R` of `ReaderProofs` in `Interpreter`
makes the lemmas about the reader facts about this reader (`ReaderAssumptions` gives them
what they assume). `ReplyInv` is the reader's invariants while it reads (`ReadingInv`) and
the evaluator's afterwards (`EvaluatingInv`), with the answer being that of the text. Three
things have to be right between them: that the memory left is covered by unlimited memory
(`Fits`: no counter of the reader goes up), that the reader returns no other errors than its
two (`ErrorsInv`), which the driver tells apart by their address (`mlisj.c:47`), and that the
evaluator ends in no other errors than those the driver knows (`Known`), of which it reports
all but `Evaluation_Error` as a want of resources.

In `ErasProofs`, for every last year whose numbers are ints,

* `EveryDayHasItsEra`, `EveryDateRoundTrips`, `UnspecifiedPartsAreTheEnd`,
  `ErasSucceedAlways`: the four properties of the run `calendar`.

`YearAssumption` says that the last year is 1868 or later and that month 13, day 32 of
it does not overflow an int. The invariant is simple: what is asked for is a date and
what is shown is the answer. The work is in the lemmas: the number
`10000 * y + 100 * m + d` orders dates as the calendar does (`BeforeIsLess`), the list of eras
is ascending, so the loop's first later era fixes the answer (`EraOfNumber`); the ten
names differ (`NamesDiffer`); an era begins on a day of the calendar, so it is the
second of the two days it begins between (`NextDayStartsEra`).

In `ReaderProofs`, for every text, budget and limit and every memory,

* `TheEndIsRespected`: `CursorStaysInText`, every scan of the reader stops at the NUL,
  unless the text ends in a backslash (the run `reader_end` shows what happens then);
* `RecursionIsBounded`: `RecursionConsumesText`;
* `TextsAreRead`: `ReadsAsGrammar`, if `GrammarIsByParts` and `TokensStand(source)`;
* `ShortageIsReported`: `MemoryErrorIsShortage`, under the same hypotheses.

`NestingAssumption` says the limit is a natural number, `SourceAssumption` that a source
is a sequence of chars with its NUL inside the memory. There are two invariants. `IInv`
bounds the lists: `nesting_level` is not the depth, but it is never less than the number
of lists that wait, and a list waits only if the counter passed the test when it began.
`CursorInv` bounds everything else: the cursor is in the text, and it has gone past one
char for every frame that waits. It rests on lemmas that say of each scan (blanks and
comments, tokens, digits, escapes, strings) that it goes forward and not past the NUL.
`Skip` and `StringBytes` are recursive functions over the text; that they are defined,
and go forward, is proved from the end of the text to its beginning.

`GrammarIsByParts` says that `Parse` and `ParseItems` satisfy their equations wherever in
a source they begin; the definitions the runs give them are these equations.
`TokensStand(source)` is about the lexical part alone: at the place of each token the
scanner finds this token, with no list, quote or shortage around it. It is a hypothesis
because a char of a text is not a thing the provers compute with; TLC evaluates it
(`AtomsStand` in `MCReader` for texts of two atoms or marks, `TextsStand` in
`MCInterpreter` for every text of the run `call`). It is false of a text that breaks off
in a backslash with a quote behind its NUL, as it must be. What the theorems add is
everything that has a state: for texts of any length and nesting, any limits and any
free memory at the start, the cursor, the stack of waiting calls, the counter of levels
and the buffers put the tokens together as the grammar does, and the only other result
is `Memory_Error` after a refusal.

The invariant for this, `MeaningInv`, looks ahead: there are values, one for each frame
that waits, such that each frame makes of the value it is given the value of the frame
below it (`Passes`), the outermost is what the whole text means, and the innermost is
what the grammar says of the tokens from where the cursor stands (`Leads`, `StandsAt`).
Blanks before the next token change neither side (`FirstToken`); a call pushed or
returned from adds or takes one value (`LeadsPushed`, `LeadsPopped`). The counter
enters as a difference: `nesting_level` is the number of parentheses opened before the
cursor, so what is left of the limit for the rest of a list is the same whether the
grammar counts the levels its items took or the code never takes one back. `MemoryInv`
ties a refusal to the result; `AtomFixed` says that which object an atom is and where it
ends does not depend on the memory.

In `NumeralsProofs`, for every text, number, type and buffer,

* `NumbersAreRecognised`: `ScansNumbers`, the automaton of `check_num_str` agrees with the
  definition of a number;
* `BuffersSuffice`, `TablesAreLongEnough`: `TextsFit` and `TablesSuffice`;
* `KanjiIsReadBack`: `KanjiReadsBack`, the numeral of a number says that number;
* `OnesAreSpoken`: `OnesAndZeros`, the ones and zeros of a numeral.

`AsciiAssumption` gives the codes of five chars, which TLC evaluates; the provers do not
know a string as a sequence. `LongAssumption` orders the two integer types,
`TextAssumption` says that texts are sequences of bytes, and `BufferAssumption` that the
buffer is larger than three numerals of five groups of thirty bytes. The invariant says
that the answer is that of the function; the
work is in the functions. After n chars the automaton's state says which of digit and
point occurred in the longest beginning that can still become a number (`Scanned`, kept by
`ScanStepScans`). The bound on the text of type 3 is the sum of those on its pieces: three
bytes a digit, three a unit, thirty a group of four with its myriad.

A numeral is reasoned about by its letters, numbered from 11 to 28 (`Spells`), and by
the states of who reads it (`Reads`): the digit that waits, the sum of the group, the
groups read. From the left, every digit of a group adds what it counts (`UnitReads`,
`OnesRead`, `GroupReads`), every group that is not empty puts its value at its myriad and
one that is empty would put 0 there (`GroupTextReads`, `GroupJoined`), and the groups of
`Groups` are the four digits of each myriad (`GroupValue`), so at the end every myriad has
its digits (`GroupsRead`). The same induction carries the shape of the text, `Numeral`:
a group ends with its myriad, and a one stands at the end of the digits of a group or
before a thousand that is all of them; joining a group keeps it (`NumeralJoined`).

In `MlisjProofs`, under `TablesSuffice` (quote, lambda and the 24 registrations
fit into the tables, true of 199, 31 and 32):

* `TypeCorrect`, `EveryBlockIsFreedOnce`, `FailuresAreReported`;
* `MlisjImplementsService`: `Spec => ImplementsService`.

Here the invariant says that at each stage `heap` is exactly what the cleanup of
that stage would free (`HeapIsReachable`), and that the tables hold what was
registered so far (`TablesCount`), which is why the path where `mlisj_init` ends
the environment and `mlisj_eval` ends it again (`mlisj.c:20`, `mlisj.c:77`) is never
taken. Without the assumption that path is a double free.

Induction over data is written out in first-order form: `Induction` of `Lemmas` is about
a set of numbers, so each use names the set of those a fact is true of, and a recursive
function (`FoldStep`, `FlattenSeq`, `Skip`, `StringBytes`) is first shown to exist, because its
definition is a CHOOSE.

Only model-checked: `Terminates`, `CallReturns` and `CallsReturn` (liveness is
outside the prover's reach); `TokensStand` and the equations of `Meaning` and `Parse`, which
are hypotheses of the theorems that use them.

## 5. Abstractions and limits

* A string is the sequence of its bytes. Source texts consist of ASCII chars
  without the vertical tab; the Japanese characters the library itself writes are three
  bytes each, of which the first says which one it is.
* A double is the integer it holds; `strtod` and `%g` are constants, functions on
  the few texts and numbers a run meets. The clock, the user's name and mail
  address and `SKK_HENKAN_KEY` are constants, too.
* `strtol` is written out for base ten, from the leading blanks to the overflow. `long`
  is wider than `int`, both much narrower than in the build; where a run's `INT_MAX`
  is far above its numbers, it is the widest TLC computes with.
* A text with other chars than digits is undefined for type three, since the code
  indexes its numerals with them (`util.c:131`), even where the size test refuses an
  earlier group first; the callers' buffers are too large for that.
* `snprintf` with a format from the program knows `%s` and `%%`; what other
  directives do with the arguments is undefined in the model, as it is in C.
* The default build is modelled: `DOUBLE_IMMEDIATE` and `AMD64_TAGGEDPTR` are 0,
  `char` is signed, int overflow wraps.
* What the code leaves undefined is the value `Undefined`, behind which the
  machine goes no further. The programs of the passing runs do not meet it,
  `undefined` does. Three more places are undefined in the model and reached by no
  run: `gengo_index` as an index of any size (`func-skk-gadgets.c:401`), a
  henkan key without a digit in its first 512 bytes (`:45`) and an empty
  `skk-num-list` (`:240`).
* `Mlisj` does not model the results of `Symbol_quote` and `Symbol_lambda` being
  unchecked (`lispenv.c:48`): `TablesSuffice` makes a failure impossible.

Not modelled: the example programs, which do I/O around one call; the test suite
and its printer (`src/test/`), read as documentation; and the two object
representations that are compiled out.

## 6. Plan

Done: pools, tables, evaluator with all functions, lifecycle, reader, numerals,
eras, the composed call, and every invariant and action property the passing runs check
as a theorem. Left: `TokensStand` for every text, which needs chars the provers can compute
with, say numbers.
