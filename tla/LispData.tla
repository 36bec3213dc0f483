------------------------------ MODULE LispData ------------------------------
(***************************************************************************)
(* Lisp objects (lispobject.h) and what allocating one costs (mempool.h,   *)
(* symbol.h).                                                              *)
(*                                                                         *)
(* Data is immutable and no cell is handed out twice (module Mempool), so  *)
(* an object is a value here and all that is left of a pool is how much of *)
(* it is free.  A string is the sequence of its bytes, without NUL.        *)
(***************************************************************************)
EXTENDS Integers, Sequences, TLC

CONSTANT INT_MAX             \* an int is in -(INT_MAX + 1) .. INT_MAX

ASSUME IntAssumption == INT_MAX \in Nat \ {0}
-----------------------------------------------------------------------------
(* Bytes.  A byte is the int a char converts to: its ASCII code, or a number *)
(* below zero inside a multibyte character.                                  *)

Codes(from, s) == [c \in {SubSeq(s, i, i) : i \in 1 .. Len(s)} |->
                      CHOOSE n \in from .. from + Len(s) - 1 : SubSeq(s, n - from + 1, n - from + 1) = c]

Code == Codes(9, "\t\n") @@ Codes(12, "\f\r")
        @@ Codes(32, " !\"#$%&'()*+,-./0123456789:;<=>?@ABCDEFGHIJKLMNOPQRSTUVWXYZ[\\]^_")
        @@ Codes(97, "abcdefghijklmnopqrstuvwxyz{|}~")

\* ASCII: the codes of a number's characters.
ASSUME AsciiAssumption ==
    /\ Code["0"] = 48 /\ Code["9"] = 57
    /\ Code["+"] = 43 /\ Code["-"] = 45 /\ Code["."] = 46

\* The bytes of a literal.
Chars(s) == [i \in 1 .. Len(s) |-> Code[SubSeq(s, i, i)]]

\* The three bytes of the n-th Japanese character; only which one it is counts.
Utf8(n) == <<-n, -128, -128>>

IsDigit(c) == c \in Code["0"] .. Code["9"]
-----------------------------------------------------------------------------
(* Objects.  A double is modelled by the integer it holds exactly.           *)

LispInt(n) == [type |-> "int", int |-> n]
LispFloat(x) == [type |-> "float", float |-> x]
LispString(s) == [type |-> "string", chars |-> s]
LispSymbol(s) == [type |-> "symbol", name |-> s]
LispCList(xs) == [type |-> "list", items |-> xs]
LispNil == [type |-> "nil"]
DynamicVal(f) == [type |-> "dynamic", fn |-> f]
LispError(e) == [type |-> "error", error |-> e]

MemoryError == LispError("Memory_Error")
VariableError == LispError("Variable_Error")
ReaderError == LispError("Reader_Error")
EvaluationError == LispError("Evaluation_Error")

\* Not an object of the code: what the C code does here is not defined.
Undefined == LispError("undefined")

IsError(x) == x.type = "error"

\* Two's complement wrap-around, what the builds do on int overflow.
ToInt(n) == ((n + INT_MAX + 1) % (2 * (INT_MAX + 1))) - (INT_MAX + 1)

\* The conversion of an int to a char, signed here.
ToChar(n) == ((n + 128) % 256) - 128
-----------------------------------------------------------------------------
(* Memory: the free cells of the pools, the free entries of the symbol       *)
(* table, the symbols interned, and a ghost: was any request refused?        *)

MemPools == {"lispobject", "string", "float", "narray", "symbol"}

Memory(free, symbols) == [free |-> free, symbols |-> symbols, refused |-> FALSE]

Result(val, mem) == [val |-> val, mem |-> mem]

Refused(err, mem) == Result(err, [mem EXCEPT !.refused = TRUE])

\* n is a size_t.
HasFree(mem, pool, n) == n \in 0 .. mem.free[pool]

Spend(mem, pool, n) == [mem EXCEPT !.free[pool] = @ - n]

\* Op(value), written so that TLC evaluates value once.
With(value, Op(_)) == CHOOSE x \in {Op(v) : v \in {value}} : TRUE

\* An allocation follows another one only if that one succeeded.
Then(result, Op(_, _)) ==
    With(result, LAMBDA r : IF IsError(r.val) THEN r ELSE Op(r.val, r.mem))

\* Mutant: what was refused is an empty string.
NewStringAreaUnchecked(mem, s, n) ==
    IF HasFree(mem, "string", n + 1) THEN Result(LispString(s), Spend(mem, "string", n + 1))
    ELSE Refused(LispString(<<>>), mem)

\* copy_to_string_area or new_string_area for n characters, CHECK_ALLOC
NewStringArea(mem, s, n) ==
    IF HasFree(mem, "string", n + 1) THEN Result(LispString(s), Spend(mem, "string", n + 1))
    ELSE Refused(MemoryError, mem)

NewString(mem, s) == With(s, LAMBDA text : NewStringArea(mem, text, Len(text)))

NewFloat(mem, x) ==
    IF HasFree(mem, "float", 1) THEN Result(LispFloat(x), Spend(mem, "float", 1))
    ELSE Refused(MemoryError, mem)

\* new_narray(n), filled with xs; err is what the caller makes of NULL.
NewList(mem, xs, err) ==
    IF HasFree(mem, "narray", 1) /\ HasFree(mem, "lispobject", Len(xs))
    THEN Result(LispCList(xs), Spend(Spend(mem, "narray", 1), "lispobject", Len(xs)))
    ELSE Refused(err, mem)

\* str2symbol of a literal; a full table refuses the symbols it has, too.
InternLiteral(mem, s) ==
    IF mem.free["symbol"] = 0 THEN Refused(MemoryError, mem)
    ELSE Result(LispSymbol(s),
                IF s \in mem.symbols THEN mem
                ELSE [Spend(mem, "symbol", 1) EXCEPT !.symbols = @ \cup {s}])
=============================================================================
