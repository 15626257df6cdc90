------------------------------- MODULE Expressions -------------------------------
(***************************************************************************)
(* The expression language of pipeline variables and node settings, as the *)
(* editor implements it (lib/expressions), mirroring the backend's: the    *)
(* parser, the static type checker, the variables an expression reads and  *)
(* the evaluator.  The source is typed token by token; numbers are exact   *)
(* fractions.                                                              *)
(***************************************************************************)
EXTENDS Integers, Sequences, FiniteSets

CONSTANTS
    Tokens,        \* the tokens typed
    Stored,        \* what the field may hold to begin with
    MaxTokens,     \* bound: tokens typed
    Types,         \* the type environment: variable name -> type
    Values         \* a value for each variable

VARIABLES
    source,        \* the tokens of the expression
    typed          \* how many were typed

vars == <<source, typed>>

Additive == {"+", "-"}
Multiplicative == {"*", "//", "/", "%"}
Functions == {"min", "max", "clamp", "floor", "ceil", "round"}
ModelMembers == {"connection_id", "model_name"}
Literal == [zero |-> <<0, 1>>, two |-> <<2, 1>>, half |-> <<1, 2>>]   \* "half" is a float literal
Identifier(t) == t \in DOMAIN Types \cup Functions \cup ModelMembers

Init == source \in Stored /\ typed = 0

Type(t) ==
    /\ typed < MaxTokens /\ typed' = typed + 1
    /\ source' = Append(source, t)

Next == \E t \in Tokens : Type(t)

Spec == Init /\ [][Next]_vars

-------------------------------------------------------------------------------
(* The parser: each production returns the tree and the index after it.    *)

SyntaxError == [tree |-> [kind |-> "error"], at |-> 0]
Failed(r) == r.tree.kind = "error"
At(ts, i) == IF i <= Len(ts) THEN ts[i] ELSE "eof"

RECURSIVE Unary(_, _), MultiplicativeFrom(_, _), AdditiveFrom(_, _), ParseAdditive(_, _),
          PostfixFrom(_, _), Arguments(_, _, _), Primary(_, _)

Binary(op, l, r) == [tree |-> [kind |-> "binary", op |-> op, left |-> l.tree, right |-> r.tree], at |-> r.at]

MultiplicativeFrom(ts, l) ==
    IF Failed(l) \/ At(ts, l.at) \notin Multiplicative THEN l
    ELSE LET r == Unary(ts, l.at + 1) IN
         IF Failed(r) THEN r ELSE MultiplicativeFrom(ts, Binary(ts[l.at], l, r))

AdditiveFrom(ts, l) ==
    IF Failed(l) \/ At(ts, l.at) \notin Additive THEN l
    ELSE LET r == MultiplicativeFrom(ts, Unary(ts, l.at + 1)) IN
         IF Failed(r) THEN r ELSE AdditiveFrom(ts, Binary(ts[l.at], l, r))

ParseAdditive(ts, i) == AdditiveFrom(ts, MultiplicativeFrom(ts, Unary(ts, i)))

Unary(ts, i) ==
    IF At(ts, i) = "-"
    THEN LET r == Unary(ts, i + 1) IN
         IF Failed(r) THEN r ELSE [r EXCEPT !.tree = [kind |-> "unary", operand |-> r.tree]]
    ELSE PostfixFrom(ts, Primary(ts, i))

PostfixFrom(ts, b) ==
    IF Failed(b) \/ At(ts, b.at) # "." THEN b
    ELSE IF ~Identifier(At(ts, b.at + 1)) THEN SyntaxError
    ELSE PostfixFrom(ts, [tree |-> [kind |-> "member", base |-> b.tree, attribute |-> ts[b.at + 1]],
                          at |-> b.at + 2])

Primary(ts, i) ==
    LET t == At(ts, i) IN
    IF t \in DOMAIN Literal
    THEN [tree |-> [kind |-> IF t = "half" THEN "float" ELSE "int", value |-> Literal[t]], at |-> i + 1]
    ELSE IF Identifier(t) /\ At(ts, i + 1) = "("
    THEN IF At(ts, i + 2) = ")" THEN [tree |-> [kind |-> "call", name |-> t, args |-> <<>>], at |-> i + 3]
         ELSE Arguments(ts, t, [tree |-> <<>>, at |-> i + 1])
    ELSE IF Identifier(t) THEN [tree |-> [kind |-> "name", name |-> t], at |-> i + 1]
    ELSE IF t = "("
    THEN LET e == ParseAdditive(ts, i + 1) IN
         IF Failed(e) \/ At(ts, e.at) # ")" THEN SyntaxError ELSE [e EXCEPT !.at = @ + 1]
    ELSE SyntaxError

\* call: the arguments after "(" or ",", up to the closing parenthesis.
Arguments(ts, name, done) ==
    LET e == ParseAdditive(ts, done.at + 1) IN
    IF Failed(e) THEN SyntaxError
    ELSE LET more == [tree |-> Append(done.tree, e.tree), at |-> e.at] IN
         CASE At(ts, e.at) = "," -> Arguments(ts, name, more)
           [] At(ts, e.at) = ")" -> [tree |-> [kind |-> "call", name |-> name, args |-> more.tree], at |-> e.at + 1]
           [] OTHER -> SyntaxError

Parse(ts) ==
    LET e == ParseAdditive(ts, 1) IN
    IF ts = <<>> \/ Failed(e) \/ e.at # Len(ts) + 1 THEN SyntaxError.tree ELSE e.tree

-------------------------------------------------------------------------------
(* The type checker: a type, or "error".                                   *)

Numeric(t) == t \in {"integer", "number"}
Joined(ts) == IF \A i \in DOMAIN ts : ts[i] = "integer" THEN "integer" ELSE "number"
Arity(f, n) == CASE f \in {"min", "max"} -> n >= 2 [] f = "clamp" -> n = 3 [] OTHER -> n = 1

RECURSIVE CheckType(_)

CheckMember(e) ==
    IF CheckType(e.base) = "model" /\ e.attribute \in ModelMembers THEN "string" ELSE "error"

\* Mutant: floor division of numbers is typed.
CheckBinaryLoose(e) ==
    LET l == CheckType(e.left)
        r == CheckType(e.right)
    IN CASE e.op = "+" /\ l = "string" /\ r = "string" -> "string"
         [] ~(Numeric(l) /\ Numeric(r)) -> "error"
         [] e.op = "/" -> "number"
         [] OTHER -> Joined(<<l, r>>)

CheckBinary(e) ==
    LET l == CheckType(e.left)
        r == CheckType(e.right)
    IN CASE e.op = "+" /\ l = "string" /\ r = "string" -> "string"
         [] e.op \in {"//", "%"} -> IF l = "integer" /\ r = "integer" THEN "integer" ELSE "error"
         [] ~(Numeric(l) /\ Numeric(r)) -> "error"
         [] e.op = "/" -> "number"
         [] OTHER -> Joined(<<l, r>>)

CheckCall(e) ==
    LET types == [i \in DOMAIN e.args |-> CheckType(e.args[i])] IN
    IF e.name \notin Functions \/ ~Arity(e.name, Len(e.args)) \/ \E i \in DOMAIN types : ~Numeric(types[i])
    THEN "error"
    ELSE IF e.name \in {"floor", "ceil", "round"} THEN "integer" ELSE Joined(types)

CheckType(e) ==
    CASE e.kind = "int" -> "integer"
      [] e.kind = "float" -> "number"
      [] e.kind = "name" -> IF e.name \in DOMAIN Types THEN Types[e.name] ELSE "error"
      [] e.kind = "member" -> CheckMember(e)
      [] e.kind = "unary" -> LET t == CheckType(e.operand) IN IF Numeric(t) THEN t ELSE "error"
      [] e.kind = "binary" -> CheckBinary(e)
      [] e.kind = "call" -> CheckCall(e)
      [] OTHER -> "error"

\* references: every variable the expression reads.
RECURSIVE References(_)
References(e) ==
    CASE e.kind = "name" -> {e.name}
      [] e.kind = "member" -> References(e.base)
      [] e.kind = "unary" -> References(e.operand)
      [] e.kind = "binary" -> References(e.left) \cup References(e.right)
      [] e.kind = "call" -> UNION {References(e.args[i]) : i \in DOMAIN e.args}
      [] OTHER -> {}

-------------------------------------------------------------------------------
(* The evaluator: a value, or an error of kind "eval" or "type".           *)

Number(p, q) == [type |-> "number", p |-> p, q |-> q]
Text(s) == [type |-> "string", s |-> s]
EvalError == [type |-> "eval"]
TypeError == [type |-> "type"]
Wrong(v) == v.type \in {"eval", "type"}

\* A fraction in lowest terms with a positive denominator.
Abs(a) == IF a < 0 THEN -a ELSE a
Gcd(a, b) == CHOOSE d \in 1..(a + b) : /\ a % d = 0 /\ b % d = 0
                                       /\ \A k \in (d + 1)..(a + b) : ~(a % k = 0 /\ b % k = 0)
Fraction(p, q) ==
    LET n == IF q < 0 THEN -p ELSE p
        d == Abs(q)
        g == Gcd(Abs(n), d)
    IN Number(IF n < 0 THEN -(Abs(n) \div g) ELSE n \div g, d \div g)

Floor(v) == v.p \div v.q
Less(a, b) == a.p * b.q < b.p * a.q

\* The builtins; round goes half away from zero.
RoundHalfAway(v) ==
    IF v.p >= 0 THEN (2 * v.p + v.q) \div (2 * v.q) ELSE -((2 * (-v.p) + v.q) \div (2 * v.q))

Least(vs) == CHOOSE v \in vs : \A w \in vs : ~Less(w, v)
Greatest(vs) == CHOOSE v \in vs : \A w \in vs : ~Less(v, w)

Apply(f, a) ==
    CASE f = "min" -> Least({a[i] : i \in DOMAIN a})
      [] f = "max" -> Greatest({a[i] : i \in DOMAIN a})
      [] f = "clamp" -> IF Less(a[3], a[2]) THEN EvalError ELSE Least({Greatest({a[1], a[2]}), a[3]})
      [] f = "floor" -> Number(Floor(a[1]), 1)
      [] f = "ceil" -> Number(-((-a[1].p) \div a[1].q), 1)
      [] f = "round" -> Number(RoundHalfAway(a[1]), 1)

RECURSIVE Evaluate(_, _)

EvaluateMember(e, env) ==
    LET b == Evaluate(e.base, env) IN
    CASE Wrong(b) -> b
      [] b.type # "model" \/ e.attribute \notin ModelMembers -> TypeError
      [] OTHER -> Text(b[e.attribute])

\* Division and modulo round towards minus infinity, like Python's.
IntegerOp(op, a, b) ==
    LET quotient == Floor(Fraction(a, b)) IN IF op = "//" THEN quotient ELSE a - quotient * b

EvaluateBinary(e, env) ==
    LET l == Evaluate(e.left, env)
        r == Evaluate(e.right, env)
        numbers == l.type = "number" /\ r.type = "number"
    IN CASE Wrong(l) -> l
         [] Wrong(r) -> r
         [] e.op = "+" /\ l.type = "string" /\ r.type = "string" -> Text(l.s \o r.s)
         [] ~numbers \/ (e.op \in {"//", "%"} /\ ~(l.q = 1 /\ r.q = 1)) -> TypeError
         [] e.op \in {"//", "%", "/"} /\ r.p = 0 -> EvalError
         [] e.op \in {"//", "%"} -> Number(IntegerOp(e.op, l.p, r.p), 1)
         [] e.op = "+" -> Fraction(l.p * r.q + r.p * l.q, l.q * r.q)
         [] e.op = "-" -> Fraction(l.p * r.q - r.p * l.q, l.q * r.q)
         [] e.op = "*" -> Fraction(l.p * r.p, l.q * r.q)
         [] OTHER -> Fraction(l.p * r.q, l.q * r.p)

EvaluateCall(e, env) ==
    LET args == [i \in DOMAIN e.args |-> Evaluate(e.args[i], env)] IN
    CASE e.name \notin Functions \/ ~Arity(e.name, Len(e.args)) -> TypeError
      [] \E i \in DOMAIN args : Wrong(args[i]) ->
           args[CHOOSE i \in DOMAIN args : Wrong(args[i]) /\ \A j \in 1..(i - 1) : ~Wrong(args[j])]
      [] \E i \in DOMAIN args : args[i].type # "number" -> TypeError
      [] OTHER -> Apply(e.name, args)

Evaluate(e, env) ==
    CASE e.kind \in {"int", "float"} -> Number(e.value[1], e.value[2])
      [] e.kind = "name" -> IF e.name \in DOMAIN env THEN env[e.name] ELSE TypeError
      [] e.kind = "member" -> EvaluateMember(e, env)
      [] e.kind = "unary" ->
           LET v == Evaluate(e.operand, env) IN
           IF Wrong(v) THEN v ELSE IF v.type = "number" THEN Number(-v.p, v.q) ELSE TypeError
      [] e.kind = "binary" -> EvaluateBinary(e, env)
      [] e.kind = "call" -> EvaluateCall(e, env)

-------------------------------------------------------------------------------
\* The expression is what was stored and what was typed after it.
TypeOK == \E s \in Stored : Len(s) + typed = Len(source) /\ SubSeq(source, 1, Len(s)) = s

(* The grammar, stated by where an expression splits.                      *)

Depth(ts, i) == Cardinality({j \in 1..(i - 1) : ts[j] = "("}) - Cardinality({j \in 1..(i - 1) : ts[j] = ")"})

\* The last operator of the set that stands outside parentheses after an operand.
Splits(ts, ops) ==
    {i \in 2..(Len(ts) - 1) : ts[i] \in ops /\ Depth(ts, i) = 0
                              /\ (ts[i - 1] = ")" \/ ts[i - 1] \in DOMAIN Literal \/ Identifier(ts[i - 1]))}
Last(S) == CHOOSE i \in S : \A j \in S : j <= i
Balanced(ts) == Depth(ts, Len(ts) + 1) = 0 /\ \A i \in 1..Len(ts) : Depth(ts, i + 1) >= 0
Error == [kind |-> "error"]

RECURSIVE Grammar(_)
Grammar(ts) ==
    LET n == Len(ts)
        Split(i) ==
            LET l == Grammar(SubSeq(ts, 1, i - 1))
                r == Grammar(SubSeq(ts, i + 1, n))
            IN IF Error \in {l, r} THEN Error ELSE [kind |-> "binary", op |-> ts[i], left |-> l, right |-> r]
        Commas == {i \in 3..(n - 1) : ts[i] = "," /\ Depth(ts, i) = 1}
        Bounds == Commas \cup {2, n}
        After(i) == CHOOSE j \in Bounds : j > i /\ \A k \in Bounds : k > i => j <= k
        Args == [k \in 1..(Cardinality(Commas) + 1) |->
                   LET i == CHOOSE i \in Bounds \ {n} : Cardinality({j \in Bounds : j < i}) = k - 1
                   IN Grammar(SubSeq(ts, i + 1, After(i) - 1))]
    IN CASE n = 0 \/ ~Balanced(ts) -> Error
         [] Splits(ts, Additive) # {} -> Split(Last(Splits(ts, Additive)))
         [] Splits(ts, Multiplicative) # {} -> Split(Last(Splits(ts, Multiplicative)))
         [] ts[1] = "-" ->
              LET e == Grammar(Tail(ts)) IN IF e = Error THEN Error ELSE [kind |-> "unary", operand |-> e]
         [] n >= 3 /\ ts[n - 1] = "." /\ Identifier(ts[n]) ->
              LET e == Grammar(SubSeq(ts, 1, n - 2)) IN
              IF e = Error THEN Error ELSE [kind |-> "member", base |-> e, attribute |-> ts[n]]
         [] n = 1 -> IF ts[1] \in DOMAIN Literal
                     THEN [kind |-> IF ts[1] = "half" THEN "float" ELSE "int", value |-> Literal[ts[1]]]
                     ELSE IF Identifier(ts[1]) THEN [kind |-> "name", name |-> ts[1]] ELSE Error
         [] ts[1] = "(" /\ ts[n] = ")" /\ (\A i \in 2..n : Depth(ts, i) > 0) -> Grammar(SubSeq(ts, 2, n - 1))
         [] n >= 3 /\ Identifier(ts[1]) /\ ts[2] = "(" /\ ts[n] = ")" /\ (\A i \in 3..n : Depth(ts, i) > 0) ->
              IF n = 3 THEN [kind |-> "call", name |-> ts[1], args |-> <<>>]
              ELSE IF \E k \in DOMAIN Args : Args[k] = Error THEN Error
              ELSE [kind |-> "call", name |-> ts[1], args |-> Args]
         [] OTHER -> Error

\* The recursive-descent parser accepts exactly the expressions of the grammar,
\* and builds their tree: operators of one level associate to the left, products
\* bind closer than sums, negation closer than products, members closest.
ParsesTheGrammar == Parse(source) = Grammar(source)

\* What the checker types evaluates to a value of that type, or fails on its
\* values (a division by zero, an inverted clamp), never on their types.
TypeSound ==
    LET e == Parse(source) IN
    e.kind # "error" /\ CheckType(e) # "error" =>
        LET v == Evaluate(e, Values) IN
        CASE CheckType(e) = "integer" -> v = EvalError \/ (v.type = "number" /\ v.q = 1)
          [] OTHER -> v = EvalError \/ v.type = CheckType(e)

\* An expression's value depends on the variables it references and on no
\* other: what the taint rule and the evaluation order rest on.
ReadsItsReferences ==
    LET e == Parse(source) IN
    e.kind # "error" =>
        \A x \in DOMAIN Values \ References(e) :
            Evaluate(e, [y \in DOMAIN Values \ {x} |-> Values[y]]) = Evaluate(e, Values)
==================================================================================
