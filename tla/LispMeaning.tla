----------------------------- MODULE LispMeaning -----------------------------
(***************************************************************************)
(* What an expression means, without pools, stacks or frames: the function *)
(* eval_expr would compute if memory were unlimited.  An environment is a  *)
(* function from variable names to values; a lambda extends it for its     *)
(* body, whatever the body calls included (dynamic scoping).               *)
(***************************************************************************)
EXTENDS Evaluator

\* Meaning(x, env) is what x means where the variables have the values of env.
\* It is the operator that is the meaning of the parts of an expression put
\* together as MeaningByParts says.
CONSTANTS
    Meaning(_, _),
    Objects                      \* the programs and all that stands in them

ASSUME ObjectsAssumption ==
    /\ Programs \subseteq Objects
    /\ \A x \in Objects :
           /\ x.type # "error"
           /\ x.type = "nil" => x = LispNil
           /\ x.type = "list" => x.items \in Seq(Objects) /\ x = LispCList(x.items)

\* More than any expression of the programs can ask for, and every symbol that
\* a function interns.
Unlimited == Memory([p \in MemPools |-> INT_MAX], {":yy", ":mm", ":dd"})

\* The sizes of the pools and of the symbol table are ints.
ASSUME SizesAreInts == \A budget \in Budgets, p \in MemPools : budget[p] <= INT_MAX

Lookup(env, s) ==
    IF s \notin DOMAIN env THEN VariableError
    ELSE IF env[s].type = "dynamic" THEN DynamicValue(env[s].fn, Unlimited).val
    ELSE env[s]

GlobalEnv == [s \in {Globals[i].symbol : i \in DOMAIN Globals} |->
                 (CHOOSE b \in ToSet(Globals) : b.symbol = s).value]

MeaningOfAll(xs, env) == [i \in DOMAIN xs |-> Meaning(xs[i], env)]

Fails(vals) == \E i \in DOMAIN vals : IsError(vals[i])
FirstError(vals) == vals[CHOOSE i \in DOMAIN vals : IsError(vals[i]) /\ \A j \in 1 .. i - 1 : ~ IsError(vals[j])]

\* The values of the forms of a lambda, of which the last one counts.
MeaningOfBody(vals) == IF Fails(vals) THEN FirstError(vals) ELSE Last(vals)

\* The date functions look for a lambda and give it four arguments.
CallsLambda(lambda, given) ==
    IsLambda(lambda, given) /\ \A i \in 1 .. 4 : lambda.items[2].items[i].type = "symbol"

Params(lambda) == [i \in 1 .. 4 |-> lambda.items[2].items[i].name]

\* Of two parameters with one name, the later one is meant.
Bind(env, params, given) ==
    [s \in DOMAIN env \cup ToSet(params) |->
        IF s \in ToSet(params)
        THEN given[CHOOSE i \in 1 .. 4 : params[i] = s /\ \A j \in i + 1 .. 4 : params[j] # s]
        ELSE env[s]]

MeaningOfLambda(lambda, given, env) ==
    IF ~ CallsLambda(lambda, given) THEN EvaluationError
    ELSE IF Len(lambda.items) = 2 THEN LispNil
    ELSE MeaningOfBody(MeaningOfAll(SubSeq(lambda.items, 3, Len(lambda.items)), Bind(env, Params(lambda), given)))

MeaningOfDate(f, args, env) ==
    LET date == DateList(f, args, Unlimited).val
    IN  IF IsError(date) THEN date
        ELSE IF OptionalArg(args, 1) = LispNil THEN DefaultDate(date, Unlimited).val
        ELSE MeaningOfLambda(args[1], LambdaArgs(f, args, date, Unlimited).val.items, env)

MeaningOfCall(f, args, env) ==
    IF Fails(args) THEN FirstError(args)
    ELSE IF f \in DateFunctions THEN MeaningOfDate(f, args, env)
    ELSE IF f # "symbol-value" THEN CallSimple(f, args, <<>>, Unlimited).val
    ELSE IF Len(args) = 1 /\ args[1].type = "symbol" THEN Lookup(env, args[1].name)
    ELSE EvaluationError

MeaningOfList(x, env) ==
    LET head == Head(x.items)
    IN  IF x.items = <<>> \/ head = LispSymbol("lambda") THEN x
        ELSE IF head = LispSymbol("quote")
        THEN IF Len(x.items) = 2 THEN x.items[2] ELSE EvaluationError
        ELSE IF \E f \in Functions : head = LispSymbol(f)
        THEN MeaningOfCall(head.name, MeaningOfAll(Tail(x.items), env), env)
        ELSE EvaluationError

MeaningByParts(x, env) ==
    CASE x.type = "symbol" -> IF x.name \in Keywords THEN x ELSE Lookup(env, x.name)
      [] x.type = "list" -> MeaningOfList(x, env)
      [] OTHER -> x

\* What makes Meaning the meaning: of the objects, and of what is no list.
MeaningIsByParts ==
    \A x, env : x \in Objects \/ x.type # "list" => Meaning(x, env) = MeaningByParts(x, env)
-----------------------------------------------------------------------------
\* Whatever the memory left by the reader, an evaluation that was refused
\* nothing computes the meaning of its expression: calls, bindings, shadowing
\* and errors included.
ResultIsMeaning ==
    (control.step = "return" /\ frames = <<>> /\ ~ mem.refused) =>
        control.obj = Meaning(call.expr, GlobalEnv)
=============================================================================
