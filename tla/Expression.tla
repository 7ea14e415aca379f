----------------------------- MODULE Expression ------------------------------
(***************************************************************************)
(* The expression language of assertExpr, from tokens on: a recursive       *)
(* descent parser and an evaluator that never converts a value unasked.     *)
(* A position is the index of a token in the source.                        *)
(***************************************************************************)
EXTENDS Integers, Sequences, FiniteSets

\* Tokens: <<"number", numeral>>, <<"string", s>>, <<"id", name>>, <<"punct", p>>.
Casts == {"number", "string", "bool"}
\* The numerals there are, with their value.
Numerals == [s \in {"0", "1", "2"} |-> CASE s = "0" -> 0 [] s = "1" -> 1 [] s = "2" -> 2]

\* The text of a number; one that no other text is compared with stays unnamed.
NumeralText(n) == IF \E s \in DOMAIN Numerals : Numerals[s] = n THEN CHOOSE s \in DOMAIN Numerals : Numerals[s] = n ELSE "numeral"

Node(op, at, val, args) == [op |-> op, at |-> at, val |-> val, args |-> args]
Failed(at) == [ok |-> FALSE, at |-> at]
Parsed(node, next) == [ok |-> TRUE, node |-> node, next |-> next]

\* Binary operators by level, loosest first; "not" is a level of its own.
Operators(level) ==
    CASE level = 1 -> {<<"id", "or">>}
      [] level = 2 -> {<<"id", "and">>}
      [] level = 4 -> {<<"punct", "==">>, <<"punct", "!=">>}
      [] level = 5 -> {<<"punct", p>> : p \in {"<", "<=", ">", ">="}}
      [] level = 6 -> {<<"punct", "+">>, <<"punct", "-">>}
      [] level = 7 -> {<<"punct", "*">>, <<"punct", "/">>, <<"punct", "%">>}
NotLevel == 3
UnaryLevel == 8
PrimaryLevel == 9

Is(t, i, token) == i <= Len(t) /\ t[i] = token

RECURSIVE ParseLevel(_, _, _)

\* parsePrimary without its parentheses and calls.
ParseLiteral(t, i) ==
    CASE t[i][1] \in {"number", "string"} -> Parsed(Node(t[i][1], i, t[i][2], <<>>), i + 1)
      [] t[i] \in {<<"id", "true">>, <<"id", "false">>} ->
             Parsed(Node("bool", i, t[i][2], <<>>), i + 1)
      [] OTHER -> Parsed(Node("var", i, t[i][2], <<>>), i + 1)

ExpectClosing(t, r, wrap(_)) ==
    CASE ~r.ok -> r
      [] Is(t, r.next, <<"punct", ")">>) -> Parsed(wrap(r.node), r.next + 1)
      [] OTHER -> Failed(r.next)

\* parsePrimary and parseIdentifierLike.
ParsePrimary(t, i) ==
    LET called == i <= Len(t) /\ t[i][1] = "id" /\ t[i][2] \notin {"true", "false"}
                    /\ Is(t, i + 1, <<"punct", "(">>)
        Same(n) == n
        Cast(n) == Node("cast", i, t[i][2], <<n>>)
    IN  CASE i > Len(t) -> Failed(i)
          [] Is(t, i, <<"punct", "(">>) -> ExpectClosing(t, ParseLevel(t, 1, i + 1), Same)
          [] called /\ t[i][2] \in Casts -> ExpectClosing(t, ParseLevel(t, 1, i + 2), Cast)
          [] called -> Failed(i)
          [] t[i][1] = "punct" -> Failed(i)
          [] OTHER -> ParseLiteral(t, i)

\* parseNot and parseUnary: a prefix operator, stacked from the right.
ParsePrefix(t, i, level, token, op) ==
    IF Is(t, i, token)
    THEN LET r == ParseLevel(t, level, i + 1)
         IN  IF r.ok THEN Parsed(Node(op, i, op, <<r.node>>), r.next) ELSE r
    ELSE ParseLevel(t, level + 1, i)

\* Mutant: the operands of a chain are paired from the right.
BinaryRight(op, left, right) ==
    IF left.op = "binary" /\ left.val = op
    THEN Node("binary", left.at, op, <<left.args[1], Node("binary", left.args[2].at, op, <<left.args[2], right>>)>>)
    ELSE Node("binary", left.at, op, <<left, right>>)
Binary(op, left, right) == Node("binary", left.at, op, <<left, right>>)

\* The loop of parseOr, parseAnd, parseEquality, parseComparison, parseAdditive
\* and parseMultiplicative.
RECURSIVE ParseRest(_, _, _)
ParseRest(t, level, r) ==
    IF r.ok /\ r.next <= Len(t) /\ t[r.next] \in Operators(level)
    THEN LET right == ParseLevel(t, level + 1, r.next + 1)
         IN  IF right.ok
             THEN ParseRest(t, level, Parsed(Binary(t[r.next][2], r.node, right.node), right.next))
             ELSE right
    ELSE r

ParseLevel(t, level, i) ==
    CASE level = NotLevel -> ParsePrefix(t, i, level, <<"id", "not">>, "not")
      [] level = UnaryLevel -> ParsePrefix(t, i, level, <<"punct", "-">>, "minus")
      [] level = PrimaryLevel -> ParsePrimary(t, i)
      [] OTHER -> ParseRest(t, level, ParseLevel(t, level + 1, i))

\* Parse: one expression, and nothing after it.
Parse(t) ==
    LET r == ParseLevel(t, 1, 1)
    IN  CASE t = <<>> -> Failed(1)
          [] r.ok /\ r.next <= Len(t) -> Failed(r.next)
          [] OTHER -> r

-----------------------------------------------------------------------------
Value(kind, v) == [ok |-> TRUE, kind |-> kind, v |-> v]
Truth(b) == Value("bool", b)

\* Different kinds are unequal, whatever they hold.
Equal(l, r) == l.kind = r.kind /\ l.v = r.v

Compare(op, l, r) ==
    CASE op = "<" -> l < r [] op = "<=" -> l <= r [] op = ">" -> l > r [] op = ">=" -> l >= r

\* Division and remainder truncate here, as the numbers are integers.
Sign(n) == IF n < 0 THEN -1 ELSE 1
Abs(n) == Sign(n) * n
Quotient(l, r) == Sign(l) * Sign(r) * (Abs(l) \div Abs(r))

Arithmetic(op, l, r) ==
    CASE op = "+" -> l + r [] op = "-" -> l - r [] op = "*" -> l * r
      [] op = "/" -> Quotient(l, r) [] op = "%" -> l - r * Quotient(l, r)

\* evalComparison and evalArithmetic: where a rejected operand is reported.
EvalNumbers(n, l, r) ==
    LET compares == n.val \in {"<", "<=", ">", ">="}
    IN  CASE compares /\ {l.kind, r.kind} # {"number"} -> Failed(n.at)
          [] ~compares /\ l.kind # "number" -> Failed(n.args[1].at)
          [] ~compares /\ r.kind # "number" -> Failed(n.args[2].at)
          [] n.val \in {"/", "%"} /\ r.v = 0 -> Failed(n.args[2].at)
          [] compares -> Truth(Compare(n.val, l.v, r.v))
          [] OTHER -> Value("number", Arithmetic(n.val, l.v, r.v))

\* castToNumber, castToString, castToBool.
EvalCast(n, arg) ==
    LET Refused == Failed(n.args[1].at)
        Named(b) == IF b THEN "true" ELSE "false"
    IN  CASE ~arg.ok -> arg
          [] arg.kind = n.val -> arg
          [] n.val = "number" /\ arg.kind = "string" /\ arg.v \in DOMAIN Numerals -> Value("number", Numerals[arg.v])
          [] n.val = "string" /\ arg.kind = "bool" -> Value("string", Named(arg.v))
          [] n.val = "string" /\ arg.kind = "number" -> Value("string", NumeralText(arg.v))
          [] n.val = "bool" /\ arg.kind = "string" /\ arg.v \in {"true", "false"} -> Truth(arg.v = "true")
          [] OTHER -> Refused

\* evalUnary.
EvalUnary(n, arg) ==
    CASE ~arg.ok -> arg
      [] n.op = "minus" /\ arg.kind = "number" -> Value("number", -arg.v)
      [] n.op = "not" /\ arg.kind = "bool" -> Truth(~arg.v)
      [] OTHER -> Failed(n.at)

RECURSIVE Eval(_, _)

\* Mutant: both sides of "and" and "or" are evaluated before one is looked at.
EvalLogicalStrict(n, env) ==
    LET l == Eval(n.args[1], env)
        r == Eval(n.args[2], env)
    IN  CASE ~l.ok -> l
          [] l.kind # "bool" -> Failed(n.args[1].at)
          [] ~r.ok -> r
          [] r.kind # "bool" -> Failed(n.args[2].at)
          [] OTHER -> Truth(IF n.val = "and" THEN l.v /\ r.v ELSE l.v \/ r.v)

\* evalLogical.
EvalLogical(n, env) ==
    LET l == Eval(n.args[1], env)
        r == Eval(n.args[2], env)
    IN  CASE ~l.ok -> l
          [] l.kind # "bool" -> Failed(n.args[1].at)
          [] l.v = (n.val = "or") -> l
          [] ~r.ok -> r
          [] r.kind # "bool" -> Failed(n.args[2].at)
          [] OTHER -> r

\* Eval, over a Lookup that knows the names in the domain of env.
Eval(n, env) ==
    CASE n.op = "number" -> Value("number", Numerals[n.val])
      [] n.op = "string" -> Value("string", n.val)
      [] n.op = "bool" -> Truth(n.val = "true")
      [] n.op = "var" -> IF n.val \in DOMAIN env THEN env[n.val] ELSE Failed(n.at)
      [] n.op \in {"minus", "not"} -> EvalUnary(n, Eval(n.args[1], env))
      [] n.op = "cast" -> EvalCast(n, Eval(n.args[1], env))
      [] n.val \in {"and", "or"} -> EvalLogical(n, env)
      [] OTHER ->
             LET l == Eval(n.args[1], env)
                 r == Eval(n.args[2], env)
             IN  CASE ~l.ok -> l
                   [] ~r.ok -> r
                   [] n.val \in {"==", "!="} -> Truth(Equal(l, r) = (n.val = "=="))
                   [] OTHER -> EvalNumbers(n, l, r)

-----------------------------------------------------------------------------
(* What the two promise, stated without a parser: the trees the grammar      *)
(* derives for a piece of the source, and what a strict reader would find.   *)

Reserved == {<<"id", w>> : w \in {"and", "or", "not"}}

RECURSIVE Derived(_, _, _, _)
\* The trees of level `level` whose tokens are exactly t[i..j].
Derived(t, level, i, j) ==
    LET Below == Derived(t, level + 1, i, j)
        Prefixed(token, op) ==
            IF i < j /\ t[i] = token THEN {Node(op, i, op, <<n>>) : n \in Derived(t, level, i + 1, j)} ELSE {}
        Split(k) == {Node("binary", l.at, t[k][2], <<l, r>>) :
                        l \in Derived(t, level, i, k - 1), r \in Derived(t, level + 1, k + 1, j)}
        Closed == i < j /\ t[j] = <<"punct", ")">>
    IN  CASE i > j -> {}
          [] level = NotLevel -> Below \cup Prefixed(<<"id", "not">>, "not")
          [] level = UnaryLevel -> Below \cup Prefixed(<<"punct", "-">>, "minus")
          [] level = PrimaryLevel ->
                 IF i = j /\ t[i][1] # "punct" /\ t[i] \notin Reserved THEN {ParseLiteral(t, i).node}
                 ELSE IF Closed /\ t[i] = <<"punct", "(">> THEN Derived(t, 1, i + 1, j - 1)
                 ELSE IF Closed /\ i + 1 < j /\ t[i] \in {<<"id", c>> : c \in Casts} /\ t[i + 1] = <<"punct", "(">>
                 THEN {Node("cast", i, t[i][2], <<n>>) : n \in Derived(t, 1, i + 2, j - 1)}
                 ELSE {}
          [] OTHER -> Below \cup UNION {Split(k) : k \in {k \in (i + 1)..(j - 1) : t[k] \in Operators(level)}}

\* The tree with every operand that an evaluation must not look at made undefined:
\* those behind a failed one, and the right side of a decided "and" or "or".
RECURSIVE Needed(_, _)
Needed(n, env) ==
    LET left == Eval(n.args[1], env)
        decided == n.val \in {"and", "or"} /\ left.kind = "bool" /\ left.v = (n.val = "or")
    IN  CASE n.args = <<>> -> n
          [] Len(n.args) = 2 /\ (~left.ok \/ decided) ->
                 [n EXCEPT !.args = <<Needed(n.args[1], env), Node("var", 0, "nowhere", <<>>)>>]
          [] OTHER -> [n EXCEPT !.args = [k \in DOMAIN n.args |-> Needed(n.args[k], env)]]
=============================================================================
