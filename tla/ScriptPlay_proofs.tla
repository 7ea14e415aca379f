-------------------------- MODULE ScriptPlay_proofs --------------------------
(***************************************************************************)
(* What is asked of a response and of a hierarchy, for every response,      *)
(* hierarchy and selector; and what a played gesture keeps of its step, for *)
(* every playable definition, driver and limit.                             *)
(***************************************************************************)
EXTENDS ScriptPlay, FiniteSetTheorems, SequenceTheorems, WellFoundedInduction, TLAPS

-----------------------------------------------------------------------------
(* Mappings of one and of two entries.                                      *)

LEMMA GetEntry ==
    ASSUME NEW v, NEW e \in ToSet(Entries(v)),
           \A d \in ToSet(Entries(v)) : d[1] = e[1] => d = e
    PROVE  e[1] \in Keys(v) /\ Get(v, e[1]) = e[2]
<1> DEFINE key == e[1]
           d == CHOOSE d \in ToSet(Entries(v)) : d[1] = key
<1>1. key \in Keys(v)
  BY DEF Keys
<1>2. Get(v, key) = d[2]
  BY <1>1 DEF Get
<1>3. d \in ToSet(Entries(v)) /\ d[1] = key
  OBVIOUS
<1> HIDE DEF d
<1> QED BY <1>1, <1>2, <1>3

LEMMA OneEntry ==
    ASSUME NEW k, NEW v
    PROVE  LET m == Map(<<<<k, v>>>>)
           IN  /\ ToSet(Entries(m)) = {<<k, v>>} /\ Entries(m) = <<<<k, v>>>>
               /\ Keys(m) = {k} /\ Get(m, k) = v /\ \A l : l # k => Get(m, l) = Nil
<1> DEFINE m == Map(<<<<k, v>>>>)
<1>1. Entries(m) = <<<<k, v>>>>
  BY DEF Entries, IsA, Map
<1>2. ToSet(Entries(m)) = {<<k, v>>}
  BY <1>1 DEF ToSet
<1> HIDE DEF m
<1>3. Keys(m) = {k}
  BY <1>2 DEF Keys
<1>4. Get(m, <<k, v>>[1]) = <<k, v>>[2]
  BY <1>2, GetEntry
<1>5. \A l : l # k => Get(m, l) = Nil
  BY <1>3 DEF Get
<1> QED BY <1>1, <1>2, <1>3, <1>4, <1>5 DEF m

LEMMA TwoEntries ==
    ASSUME NEW k, NEW v, NEW l, NEW w, k # l
    PROVE  LET m == Map(<<<<k, v>>, <<l, w>>>>)
           IN  /\ Keys(m) = {k, l} /\ Get(m, k) = v /\ Get(m, l) = w
               /\ \A x : x \notin {k, l} => Get(m, x) = Nil
<1> DEFINE m == Map(<<<<k, v>>, <<l, w>>>>)
<1>1. Entries(m) = <<<<k, v>>, <<l, w>>>>
  BY DEF Entries, IsA, Map
<1>2. ToSet(Entries(m)) = {<<k, v>>, <<l, w>>}
  BY <1>1 DEF ToSet
<1> HIDE DEF m
<1>3. Keys(m) = {k, l}
  BY <1>2 DEF Keys
<1>4. Get(m, <<k, v>>[1]) = <<k, v>>[2]
  <2>1. \A d \in ToSet(Entries(m)) : d[1] = <<k, v>>[1] => d = <<k, v>>
    BY <1>2
  <2> QED BY <1>2, <2>1, GetEntry
<1>5. Get(m, <<l, w>>[1]) = <<l, w>>[2]
  <2>1. \A d \in ToSet(Entries(m)) : d[1] = <<l, w>>[1] => d = <<l, w>>
    BY <1>2
  <2> QED BY <1>2, <2>1, GetEntry
<1>6. \A x : x \notin {k, l} => Get(m, x) = Nil
  BY <1>3 DEF Get
<1> QED BY <1>3, <1>4, <1>5, <1>6 DEF m

-----------------------------------------------------------------------------
(* Paths of up to three segments.                                           *)

Visits(c, v, s) == c = [i \in 0..Len(s) |-> IF i = 0 THEN v ELSE Field(c[i - 1], s[i])]

LEMMA PathSteps ==
    ASSUME NEW v, NEW s, NEW w, Visits(w, v, s)
    PROVE  \E c : Visits(c, v, s) /\ ResolveDotPath(v, s) = c[Len(s)]
<1> DEFINE c == CHOOSE c : Visits(c, v, s)
<1>1. Visits(c, v, s)
  OBVIOUS
<1>2. ResolveDotPath(v, s) = c[Len(s)]
  BY DEF ResolveDotPath, Visits
<1> HIDE DEF c
<1> QED BY <1>1, <1>2

LEMMA NoStep ==
    ASSUME NEW v
    PROVE  ResolveDotPath(v, <<>>) = v
<1> DEFINE s == <<>>
           w == [i \in 0..Len(s) |-> v]
<1>1. Visits(w, v, s)
  BY DEF Visits
<1>2. PICK c : Visits(c, v, s) /\ ResolveDotPath(v, s) = c[Len(s)]
  BY <1>1, PathSteps
<1> QED BY <1>2 DEF Visits

LEMMA OneStep ==
    ASSUME NEW v, NEW a
    PROVE  ResolveDotPath(v, <<a>>) = Field(v, a)
<1> DEFINE s == <<a>>
           w == [i \in 0..Len(s) |-> IF i = 0 THEN v ELSE Field(v, a)]
<1>1. Visits(w, v, s)
  <2>1. \A i \in 0..Len(s) : w[i] = IF i = 0 THEN v ELSE Field(w[i - 1], s[i])
    OBVIOUS
  <2> QED BY <2>1 DEF Visits
<1>2. PICK c : Visits(c, v, s) /\ ResolveDotPath(v, s) = c[Len(s)]
  BY <1>1, PathSteps
<1>3. c[0] = v /\ c[1] = Field(c[0], a)
  BY <1>2 DEF Visits
<1> QED BY <1>2, <1>3

LEMMA TwoSteps ==
    ASSUME NEW v, NEW a, NEW b
    PROVE  ResolveDotPath(v, <<a, b>>) = Field(Field(v, a), b)
<1> DEFINE s == <<a, b>>
           x == Field(v, a)
           w == [i \in 0..Len(s) |-> IF i = 0 THEN v ELSE IF i = 1 THEN x ELSE Field(x, b)]
<1>1. Visits(w, v, s)
  <2>1. \A i \in 0..Len(s) : w[i] = IF i = 0 THEN v ELSE Field(w[i - 1], s[i])
    OBVIOUS
  <2> QED BY <2>1 DEF Visits
<1>2. PICK c : Visits(c, v, s) /\ ResolveDotPath(v, s) = c[Len(s)]
  BY <1>1, PathSteps
<1>3. c[0] = v /\ c[1] = Field(c[0], a) /\ c[2] = Field(c[1], b)
  BY <1>2 DEF Visits
<1> QED BY <1>2, <1>3

LEMMA ThreeSteps ==
    ASSUME NEW v, NEW a, NEW b, NEW d
    PROVE  ResolveDotPath(v, <<a, b, d>>) = Field(Field(Field(v, a), b), d)
<1> DEFINE s == <<a, b, d>>
           x == Field(v, a)
           y == Field(x, b)
           w == [i \in 0..Len(s) |-> IF i = 0 THEN v ELSE IF i = 1 THEN x ELSE IF i = 2 THEN y ELSE Field(y, d)]
<1>1. Visits(w, v, s)
  <2>1. \A i \in 0..Len(s) : w[i] = IF i = 0 THEN v ELSE Field(w[i - 1], s[i])
    OBVIOUS
  <2> QED BY <2>1 DEF Visits
<1>2. PICK c : Visits(c, v, s) /\ ResolveDotPath(v, s) = c[Len(s)]
  BY <1>1, PathSteps
<1>3. c[0] = v /\ c[1] = Field(c[0], a) /\ c[2] = Field(c[1], b) /\ c[3] = Field(c[2], d)
  BY <1>2 DEF Visits
<1> QED BY <1>2, <1>3

-----------------------------------------------------------------------------
(* Responses.                                                               *)

LEMMA OneMore ==
    ASSUME NEW x, NEW y
    PROVE  <<x>> \o <<y>> = <<x, y>>
<1> DEFINE s == <<x>>
           t == <<y>>
           u == <<x, y>>
<1>1. s \in Seq({x, y}) /\ t \in Seq({x, y}) /\ u \in Seq({x, y})
  OBVIOUS
<1>2. Len(s) = 1 /\ Len(t) = 1 /\ Len(u) = 2
  OBVIOUS
<1>3. /\ s \o t \in Seq({x, y}) /\ Len(s \o t) = 2
      /\ \A i \in 1..2 : (s \o t)[i] = IF i <= 1 THEN s[i] ELSE t[i - 1]
  BY <1>1, <1>2, ConcatProperties
<1>4. \A i \in 1..2 : u[i] = IF i <= 1 THEN s[i] ELSE t[i - 1]
  OBVIOUS
<1> HIDE DEF s, t, u
<1>5. s \o t = u
  BY <1>1, <1>2, <1>3, <1>4, SeqEqual
<1> QED BY <1>5 DEF s, t, u

LEMMA TwoMore ==
    ASSUME NEW x, NEW y, NEW z
    PROVE  <<x>> \o <<y, z>> = <<x, y, z>>
<1> DEFINE s == <<x>>
           t == <<y, z>>
           u == <<x, y, z>>
<1>1. s \in Seq({x, y, z}) /\ t \in Seq({x, y, z}) /\ u \in Seq({x, y, z})
  OBVIOUS
<1>2. Len(s) = 1 /\ Len(t) = 2 /\ Len(u) = 3
  OBVIOUS
<1>3. /\ s \o t \in Seq({x, y, z}) /\ Len(s \o t) = 3
      /\ \A i \in 1..3 : (s \o t)[i] = IF i <= 1 THEN s[i] ELSE t[i - 1]
  BY <1>1, <1>2, ConcatProperties
<1>4. \A i \in 1..3 : u[i] = IF i <= 1 THEN s[i] ELSE t[i - 1]
  OBVIOUS
<1> HIDE DEF s, t, u
<1>5. s \o t = u
  BY <1>1, <1>2, <1>3, <1>4, SeqEqual
<1> QED BY <1>5 DEF s, t, u

\* A path of extract starts at the request, and behind its body finds what the same
\* path of an assertion finds.
LEMMA BehindBody ==
    ASSUME NEW captured, NEW path \in Paths
    PROVE  ResolveDotPath(Captured(captured), BodySegments(path))
             = ResolveDotPath(captured.body, Segments(path))
<1> DEFINE r == Captured(captured)
           b == captured.body
<1>1. Field(r, "body") = b
  <2>1. "body" \in Keys(r) /\ Get(r, "body") = b
    BY TwoEntries DEF Captured
  <2>2. IsA(r, "map") /\ ~IsA(r, "list")
    BY DEF IsA, Captured, Map
  <2> QED BY <2>1, <2>2 DEF Field
<1> HIDE DEF r, b
<1>2. CASE path = "$"
  <2>1. Segments(path) = <<>>
    BY <1>2 DEF Segments
  <2>2. BodySegments(path) = <<"body">>
    BY <2>1 DEF BodySegments
  <2> QED BY <1>1, <2>1, <2>2, NoStep, OneStep DEF r, b
<1>3. ASSUME NEW a, Segments(path) = <<a>>
      PROVE  ResolveDotPath(r, BodySegments(path)) = ResolveDotPath(b, Segments(path))
  <2>1. BodySegments(path) = <<"body", a>>
    BY <1>3, OneMore DEF BodySegments
  <2> QED BY <1>1, <1>3, <2>1, OneStep, TwoSteps
<1>4. ASSUME NEW a, NEW d, Segments(path) = <<a, d>>
      PROVE  ResolveDotPath(r, BodySegments(path)) = ResolveDotPath(b, Segments(path))
  <2>1. BodySegments(path) = <<"body", a, d>>
    BY <1>4, TwoMore DEF BodySegments
  <2> QED BY <1>1, <1>4, <2>1, TwoSteps, ThreeSteps
<1>5. CASE path \in {"a", "$.a"}
  <2>1. Segments(path) = <<"a">>
    BY <1>5 DEF Segments
  <2> QED BY <1>3, <2>1, Zenon DEF r, b
<1>6. CASE path = "[0]"
  <2>1. Segments(path) = <<"[0]">>
    BY <1>6 DEF Segments
  <2> QED BY <1>3, <2>1, Zenon DEF r, b
<1>7. CASE path = "a.b"
  <2>1. Segments(path) = <<"a", "b">>
    BY <1>7 DEF Segments
  <2> QED BY <1>4, <2>1, Zenon DEF r, b
<1>8. CASE path \in {"a[0]", "$.a[0]", "a.0"}
  <2>1. Segments(path) = <<"a", "0">>
    BY <1>8 DEF Segments
  <2> QED BY <1>4, <2>1, Zenon DEF r, b
<1> QED BY <1>2, <1>5, <1>6, <1>7, <1>8 DEF Paths

\* extract of one value succeeds when the value is there.
LEMMA ExtractsOne ==
    ASSUME NEW captured, NEW path
    PROVE  ExtractCommand(captured, Map(<<<<"values", Map(<<<<"v", Str(path)>>>>)>>>>), <<>>).ok
             = (ResolveDotPath(Captured(captured), BodySegments(path)) # Absent)
<1> DEFINE s == Map(<<<<"values", Map(<<<<"v", Str(path)>>>>)>>>>)
           values == Entries(Get(s, "values"))
           v == ResolveDotPath(Captured(captured), BodySegments(path))
           Bound(r, e) ==
               CASE ~r.ok \/ ResolveDotPath(Captured(captured), BodySegments(e[2][2])) = Absent -> [r EXCEPT !.ok = FALSE]
                 [] OTHER -> [r EXCEPT !.variables = Bind(captured, @, e[1], BodySegments(e[2][2]))]
           first == [ok |-> TRUE, variables |-> <<>>]
           Def(x) == x = [i \in 0..Len(values) |-> IF i = 0 THEN first ELSE Bound(x[i - 1], values[i])]
           x == CHOOSE x : Def(x)
           w == [i \in 0..1 |-> IF i = 0 THEN first ELSE Bound(first, <<"v", Str(path)>>)]
<1>1. values = <<<<"v", Str(path)>>>>
  BY OneEntry
<1>2. ExtractCommand(captured, s, <<>>) = x[Len(values)]
  BY DEF ExtractCommand
<1> HIDE DEF s, values
<1>3. Len(values) = 1 /\ values[1] = <<"v", Str(path)>>
  BY <1>1
<1>4. <<"v", Str(path)>>[2][2] = path
  BY DEF Str
<1>5. Bound(first, <<"v", Str(path)>>).ok = (v # Absent)
  BY <1>4
<1> HIDE DEF Bound, first, v
<1>6. Def(w)
  <2>1. \A i \in 0..1 : w[i] = IF i = 0 THEN first ELSE Bound(w[i - 1], values[i])
    BY <1>3
  <2> QED BY <1>3, <2>1
<1>7. Def(x)
  BY <1>6
<1> HIDE DEF x
<1>8. x[1] = Bound(first, <<"v", Str(path)>>)
  <2>1. x[0] = first /\ x[1] = Bound(x[0], values[1])
    BY <1>3, <1>7
  <2> QED BY <1>3, <2>1
<1> QED BY <1>2, <1>3, <1>5, <1>8 DEF s, v

\* What a step expects of one path is what it expects of the value there.
LEMMA ExpectsOne ==
    ASSUME NEW captured, NEW path, NEW text
    PROVE  AssertApiCommand(captured, Map(<<<<"body", Map(<<<<path, Str(text)>>>>)>>>>))
             <=> AssertValue(ResolveDotPath(captured.body, Segments(path)), Str(text))
<1> DEFINE b == Map(<<<<path, Str(text)>>>>)
           s == Map(<<<<"body", b>>>>)
<1>1. ~Given(s, "status") /\ Get(s, "body") = b
  BY OneEntry DEF Given
<1>2. ToSet(Entries(b)) = {<<path, Str(text)>>}
  BY OneEntry
<1> HIDE DEF b, s
<1>3. AssertApiCommand(captured, s) <=> AssertValue(ResolveDotPath(captured.body, Segments(path)), Str(text))
  <2>1. AssertApiCommand(captured, s) <=>
            \A e \in ToSet(Entries(b)) : AssertValue(ResolveDotPath(captured.body, Segments(e[1])), e[2])
    BY <1>1 DEF AssertApiCommand
  <2>2. \A e \in ToSet(Entries(b)) : e = <<path, Str(text)>> /\ e[1] = path /\ e[2] = Str(text)
    BY <1>2
  <2>3. <<path, Str(text)>> \in ToSet(Entries(b))
    BY <1>2
  <2> QED BY <2>1, <2>2, <2>3
<1> QED BY <1>3 DEF b, s

\* A value is compared as an integer, as NaN if it is that text, or not at all.
LEMMA NumberFound ==
    ASSUME NEW v, IsA(v, "int") => v[2] \in Int
    PROVE  /\ ToNumber(v) \notin {Error, NaN} => ToNumber(v)[2] \in Int
           /\ ToNumber(v) = NaN <=> v = Str("NaN")
           /\ NaN # Error
<1>1. Numeral("250") = 250 /\ Numeral(" 7 ") = 7 /\ Numeral("-1") = -1
  BY Zenon DEF Numeral
<1>2. /\ NaN # Error /\ Str("NaN") # Str("") /\ \A k : Num(k) # NaN /\ Num(k)[2] = k
      /\ v = NaN => ~IsA(v, "int")
  BY DEF NaN, Num, Error, Str, IsA
<1> DEFINE int == IsA(v, "int")
           empty == v = Str("")
           nan == v = Str("NaN")
           numeral == IsA(v, "str") /\ v[2] \in Numerals
           bool == IsA(v, "bool")
<1>3. ToNumber(v) = CASE int -> v [] empty -> Num(0) [] nan -> NaN [] numeral -> Num(Numeral(v[2]))
                      [] bool -> Num(IF v[2] THEN 1 ELSE 0) [] OTHER -> Error
  BY Zenon DEF ToNumber
<1>4. /\ int => ~empty /\ ~nan /\ ~numeral /\ ~bool
      /\ empty => ~nan /\ ~numeral /\ ~bool
      /\ nan => ~numeral /\ ~bool
      /\ numeral => ~bool
  <2>1. "" \notin Numerals /\ "NaN" \notin Numerals
    BY DEF Numerals
  <2>2. ~(IsA(v, "int") /\ IsA(v, "str")) /\ ~(IsA(v, "int") /\ IsA(v, "bool")) /\ ~(IsA(v, "str") /\ IsA(v, "bool"))
    BY DEF IsA
  <2>3. \A s : IsA(Str(s), "str") /\ Str(s)[2] = s
    BY DEF IsA, Str
  <2>4. empty => IsA(v, "str") /\ v[2] = ""
    BY <2>3
  <2>5. nan => IsA(v, "str") /\ v[2] = "NaN"
    BY <2>3
  <2>6. empty => ~nan
    BY <1>2
  <2> QED BY <2>1, <2>2, <2>4, <2>5, <2>6
<1>5. ASSUME numeral
      PROVE  Numeral(v[2]) \in Int
  <2>1. v[2] = "250" \/ v[2] = " 7 " \/ v[2] = "-1"
    BY <1>5 DEF Numerals
  <2>2. Numeral(v[2]) = 250 \/ Numeral(v[2]) = 7 \/ Numeral(v[2]) = -1
    BY <1>1, <2>1, Zenon
  <2> QED BY <2>2
<1>6. int => v # NaN /\ v[2] \in Int /\ v # Error
  BY DEF IsA, NaN, Error
<1>7. bool => Num(IF v[2] THEN 1 ELSE 0) \in {Num(0), Num(1)}
  BY Zenon
<1>8. \A k \in Int : Num(k) # NaN /\ Num(k)[2] \in Int
  BY <1>2
<1>9. Num(0) # NaN /\ Num(0)[2] \in Int /\ Num(1) # NaN /\ Num(1)[2] \in Int
  BY DEF Num, NaN
<1> HIDE DEF int, empty, numeral, bool
<1>10. CASE int
  <2>1. ToNumber(v) = v
    BY <1>3, <1>4, <1>10, Zenon
  <2> QED BY <1>2, <1>4, <1>6, <1>10, <2>1
<1>11. CASE empty
  <2>1. ToNumber(v) = Num(0)
    BY <1>3, <1>4, <1>11, Zenon
  <2> QED BY <1>2, <1>4, <1>9, <1>11, <2>1
<1>12. CASE nan
  <2>1. ToNumber(v) = NaN
    BY <1>3, <1>4, <1>12, Zenon
  <2> QED BY <1>2, <1>12, <2>1
<1>13. CASE numeral
  <2>1. ToNumber(v) = Num(Numeral(v[2]))
    BY <1>3, <1>4, <1>13, Zenon
  <2> QED BY <1>2, <1>4, <1>5, <1>8, <1>13, <2>1
<1>14. CASE bool
  <2>1. ToNumber(v) \in {Num(0), Num(1)}
    BY <1>3, <1>4, <1>7, <1>14, Zenon
  <2> QED BY <1>2, <1>4, <1>9, <1>14, <2>1
<1>15. CASE ~int /\ ~empty /\ ~nan /\ ~numeral /\ ~bool
  <2>1. ToNumber(v) = Error
    BY <1>3, <1>15, Zenon
  <2> QED BY <1>2, <1>15, <2>1
<1> QED BY <1>10, <1>11, <1>12, <1>13, <1>14, <1>15

\* The expectations, of the value they are about.
LEMMA Expectations ==
    ASSUME NEW v
    PROVE  LET n == ToNumber(v)
           IN  /\ AssertValue(v, Str("$exists")) <=> v # Absent
               /\ AssertValue(v, Str("$not_exists")) <=> v = Absent
               /\ AssertValue(v, Str("$not_empty")) => v # Absent
               /\ AssertValue(v, Str("$gte:1")) <=> n # Error /\ n # NaN /\ 1 <= n[2]
               /\ AssertValue(v, Str("$lte:2")) <=> n # Error /\ n # NaN /\ n[2] <= 2
               /\ AssertValue(v, Str("$lt:2")) <=> n # Error /\ n # NaN /\ n[2] < 2
               /\ AssertValue(v, Str("$between:1,2")) <=> n # Error /\ (n = NaN \/ ~(n[2] < 1 \/ 2 < n[2]))
<1> DEFINE n == ToNumber(v)
<1>1. \A t \in DOMAIN Spelled : IsA(Str(t), "str") /\ Str(t)[2] = t
  BY DEF IsA, Str
<1>2. DOMAIN Spelled = {"$exists", "$not_exists", "$not_empty", "$gte:1", "$lte:2", "$lt:2", "$between:1,2"}
  BY DEF Spelled
<1>3. AssertValue(v, Str("$exists")) <=> v # Absent
  <2>1. Spelled["$exists"][1] = "exists"
    BY DEF Spelled
  <2> QED BY <1>1, <1>2, <2>1 DEF AssertValue
<1>4. AssertValue(v, Str("$not_exists")) <=> v = Absent
  <2>1. Spelled["$not_exists"][1] = "not_exists"
    BY DEF Spelled
  <2> QED BY <1>1, <1>2, <2>1 DEF AssertValue
<1>5. AssertValue(v, Str("$not_empty")) => v # Absent
  <2>1. Spelled["$not_empty"][1] = "not_empty"
    BY DEF Spelled
  <2> QED BY <1>1, <1>2, <2>1 DEF AssertValue
<1>6. \A k : Num(k) # NaN /\ Num(k)[2] = k
  BY DEF Num, NaN
<1>7. AssertValue(v, Str("$gte:1")) <=> n # Error /\ n # NaN /\ 1 <= n[2]
  <2>1. Spelled["$gte:1"][1] = "gte" /\ Spelled["$gte:1"][2] = Num(1)
    BY DEF Spelled
  <2>2. AssertValue(v, Str("$gte:1")) <=> n # Error /\ NoMore(Num(1), n)
    BY <1>1, <1>2, <2>1 DEF AssertValue, Compares
  <2> QED BY <1>6, <2>2 DEF NoMore
<1>8. AssertValue(v, Str("$lte:2")) <=> n # Error /\ n # NaN /\ n[2] <= 2
  <2>1. Spelled["$lte:2"][1] = "lte" /\ Spelled["$lte:2"][2] = Num(2)
    BY DEF Spelled
  <2>2. AssertValue(v, Str("$lte:2")) <=> n # Error /\ NoMore(n, Num(2))
    BY <1>1, <1>2, <2>1 DEF AssertValue, Compares
  <2> QED BY <1>6, <2>2 DEF NoMore
<1>9. AssertValue(v, Str("$lt:2")) <=> n # Error /\ n # NaN /\ n[2] < 2
  <2>1. Spelled["$lt:2"][1] = "lt" /\ Spelled["$lt:2"][2] = Num(2)
    BY DEF Spelled
  <2>2. AssertValue(v, Str("$lt:2")) <=> n # Error /\ Less(n, Num(2))
    BY <1>1, <1>2, <2>1 DEF AssertValue, Compares
  <2> QED BY <1>6, <2>2 DEF Less
<1>10. AssertValue(v, Str("$between:1,2")) <=> n # Error /\ (n = NaN \/ ~(n[2] < 1 \/ 2 < n[2]))
  <2>1. /\ Spelled["$between:1,2"][1] = "between"
        /\ Spelled["$between:1,2"][2] = Num(1) /\ Spelled["$between:1,2"][3] = Num(2)
    BY DEF Spelled
  <2>2. AssertValue(v, Str("$between:1,2")) <=> n # Error /\ ~Less(n, Num(1)) /\ ~Less(Num(2), n)
    BY <1>1, <1>2, <2>1 DEF AssertValue, Compares
  <2> QED BY <1>6, <2>2 DEF Less
<1> QED BY <1>3, <1>4, <1>5, <1>7, <1>8, <1>9, <1>10

-----------------------------------------------------------------------------
(* The answers.                                                             *)

\* What is answered to a question about a response.
Asserted(r) ==
    [holds |-> {text \in DOMAIN Spelled :
                   AssertApiCommand(r.captured, Map(<<<<"body", Map(<<<<r.path, Str(text)>>>>)>>>>))},
     extracted |-> ExtractCommand(r.captured, Map(<<<<"values", Map(<<<<"v", Str(r.path)>>>>)>>>>), <<>>).ok]

ResponseAnswered ==
    kind = "response" => source \in Responses /\ (stage = "asserted" => result = Asserted(source))

LEMMA ResponsesAnswered == QuerySpec => []ResponseAnswered
<1>1. QueryInit => ResponseAnswered
  BY DEF QueryInit, ResponseAnswered
<1>2. ResponseAnswered /\ [QueryNext]_queryVars => ResponseAnswered'
  <2> SUFFICES ASSUME ResponseAnswered, [QueryNext]_queryVars
               PROVE  ResponseAnswered'
    OBVIOUS
  <2>1. CASE AssertResponse
    BY <2>1 DEF AssertResponse, Question, Answer, ResponseAnswered, Asserted, Expecting, Extracting
  <2>2. CASE LookUp \/ LookUpByTool
    BY <2>2 DEF LookUp, LookUpByTool, Question, Answer, ResponseAnswered
  <2>3. CASE UNCHANGED queryVars
    BY <2>3 DEF queryVars, ResponseAnswered
  <2> QED BY <2>1, <2>2, <2>3 DEF QueryNext
<1> QED BY <1>1, <1>2, PTL DEF QuerySpec

\* The expectations a step can have of one value never contradict each other but for
\* the text "NaN", which is in a range and at neither of its bounds, and extract finds
\* exactly what $exists holds of (assertValue, toJSNumber, resolveDotPath).
THEOREM ExpectationsAgree == QuerySpec => []AssertionsAgree
<1>1. ResponseAnswered => AssertionsAgree
  <2> SUFFICES ASSUME ResponseAnswered, kind = "response", stage = "asserted"
               PROVE  AssertionsAgree
    BY DEF AssertionsAgree
  <2> DEFINE r == source
             v == ResolveDotPath(r.captured.body, Segments(r.path))
             n == ToNumber(v)
             holds == result.holds
  <2>1. r \in Responses /\ result = Asserted(r)
    BY DEF ResponseAnswered
  <2>2. r.path \in Paths /\ (IsA(v, "int") => v[2] \in Int)
    BY <2>1, ResponseShape
  <2>3. (n \notin {Error, NaN} => n[2] \in Int) /\ (n = NaN <=> v = Str("NaN")) /\ NaN # Error
    BY <2>2, NumberFound
  <2>4. \A text \in DOMAIN Spelled : text \in holds <=> AssertValue(v, Str(text))
    BY <2>1, ExpectsOne DEF Asserted
  <2>5. result.extracted = (v # Absent)
    <3>1. ResolveDotPath(Captured(r.captured), BodySegments(r.path)) = v
      BY <2>2, BehindBody
    <3>2. result.extracted = (ResolveDotPath(Captured(r.captured), BodySegments(r.path)) # Absent)
      BY <2>1, ExtractsOne DEF Asserted
    <3> QED BY <3>1, <3>2
  <2>6. DOMAIN Spelled = {"$exists", "$not_exists", "$not_empty", "$gte:1", "$lte:2", "$lt:2", "$between:1,2"}
    BY DEF Spelled
  <2> HIDE DEF r, v, n, holds
  <2>7. /\ "$exists" \in holds <=> v # Absent
        /\ "$not_exists" \in holds <=> v = Absent
        /\ "$not_empty" \in holds => v # Absent
        /\ "$gte:1" \in holds <=> n # Error /\ n # NaN /\ 1 <= n[2]
        /\ "$lte:2" \in holds <=> n # Error /\ n # NaN /\ n[2] <= 2
        /\ "$lt:2" \in holds <=> n # Error /\ n # NaN /\ n[2] < 2
        /\ "$between:1,2" \in holds <=> n # Error /\ (n = NaN \/ ~(n[2] < 1 \/ 2 < n[2]))
    <3>1. /\ AssertValue(v, Str("$exists")) <=> v # Absent
          /\ AssertValue(v, Str("$not_exists")) <=> v = Absent
          /\ AssertValue(v, Str("$not_empty")) => v # Absent
          /\ AssertValue(v, Str("$gte:1")) <=> n # Error /\ n # NaN /\ 1 <= n[2]
          /\ AssertValue(v, Str("$lte:2")) <=> n # Error /\ n # NaN /\ n[2] <= 2
          /\ AssertValue(v, Str("$lt:2")) <=> n # Error /\ n # NaN /\ n[2] < 2
          /\ AssertValue(v, Str("$between:1,2")) <=> n # Error /\ (n = NaN \/ ~(n[2] < 1 \/ 2 < n[2]))
      BY Expectations DEF n
    <3> HIDE DEF v
    <3>2. \A text \in {"$exists", "$not_exists", "$not_empty", "$gte:1", "$lte:2", "$lt:2", "$between:1,2"} :
              text \in holds <=> AssertValue(v, Str(text))
      BY <2>4, <2>6
    <3> QED BY <3>1, <3>2
  <2>8. result.extracted = ("$exists" \in holds)
    <3>1. "$exists" \in holds <=> v # Absent
      BY <2>7
    <3> HIDE <2>7
    <3>2. CASE v # Absent
      <4>1. result.extracted = TRUE
        BY <2>5, <3>2
      <4>2. ("$exists" \in holds) = TRUE
        BY <3>1, <3>2
      <4> QED BY <4>1, <4>2
    <3>3. CASE ~(v # Absent)
      <4>1. result.extracted = FALSE
        BY <2>5, <3>3
      <4>2. ("$exists" \in holds) = FALSE
        BY <3>1, <3>3
      <4> QED BY <4>1, <4>2
    <3> QED BY <3>2, <3>3
  <2>9. ASSUME v = Str("NaN")
        PROVE  holds \cap Numeric = {"$between:1,2"}
    <3>1. n = NaN /\ n # Error
      BY <2>3, <2>9
    <3>2. "$between:1,2" \in holds /\ "$gte:1" \notin holds /\ "$lte:2" \notin holds /\ "$lt:2" \notin holds
      BY <2>7, <3>1
    <3> QED BY <3>2 DEF Numeric
  <2>10. ASSUME v # Str("NaN")
         PROVE  ("$between:1,2" \in holds) = ({"$gte:1", "$lte:2"} \subseteq holds)
    <3> DEFINE both == {"$gte:1", "$lte:2"} \subseteq holds
    <3>1. both <=> "$gte:1" \in holds /\ "$lte:2" \in holds
      OBVIOUS
    <3>2. n \notin {Error, NaN} => (~(n[2] < 1) <=> 1 <= n[2]) /\ (~(2 < n[2]) <=> n[2] <= 2)
      BY <2>3
    <3>3. "$between:1,2" \in holds <=> both
      BY <2>3, <2>7, <2>10, <3>1, <3>2
    <3>4. both \in BOOLEAN
      OBVIOUS
    <3> HIDE DEF both
    <3>5. ("$between:1,2" \in holds) = both
      BY <3>3, <3>4
    <3> QED BY <3>5 DEF both
  <2>11. "$lt:2" \in holds => "$lte:2" \in holds
    <3>1. n \notin {Error, NaN} => (n[2] < 2 => n[2] <= 2)
      BY <2>3
    <3> QED BY <2>7, <3>1
  <2>12. ("$exists" \in holds) # ("$not_exists" \in holds)
    BY <2>7
  <2>13. "$not_empty" \in holds => "$exists" \in holds
    BY <2>7
  <2>14. IF v = Str("NaN") THEN holds \cap Numeric = {"$between:1,2"}
         ELSE ("$between:1,2" \in holds) = ({"$gte:1", "$lte:2"} \subseteq holds)
    BY <2>9, <2>10
  <2>15. /\ ("$exists" \in result.holds) # ("$not_exists" \in result.holds)
         /\ result.extracted = ("$exists" \in result.holds)
         /\ "$not_empty" \in result.holds => "$exists" \in result.holds
         /\ IF ResolveDotPath(source.captured.body, Segments(source.path)) = Str("NaN")
            THEN result.holds \cap Numeric = {"$between:1,2"}
            ELSE ("$between:1,2" \in result.holds) = ({"$gte:1", "$lte:2"} \subseteq result.holds)
         /\ "$lt:2" \in result.holds => "$lte:2" \in result.holds
    BY <2>8, <2>11, <2>12, <2>13, <2>14, Zenon DEF holds, v, r
  <2> QED BY <2>15, Zenon DEF AssertionsAgree
<1> QED BY <1>1, ResponsesAnswered, PTL

-----------------------------------------------------------------------------
(* A part of a sequence, in its order.                                      *)

LEMMA LeastOf ==
    ASSUME NEW S \in SUBSET Nat, S # {}
    PROVE  \E m \in S : \A k \in S : m <= k
<1>1. IsWellFoundedOn(OpToRel(<, Nat), Nat)
  BY NatLessThanWellFounded
<1>2. PICK m \in S : \A k \in S : ~(<<k, m>> \in OpToRel(<, Nat))
  BY <1>1, WFMin
<1>3. ASSUME NEW k \in S
      PROVE  m <= k
  <2>1. <<k, m>> \in Nat \X Nat
    OBVIOUS
  <2>2. ~(k < m)
    BY <1>2, <2>1 DEF OpToRel
  <2> QED BY <2>2
<1> QED BY <1>3

\* How many of the numbers are not above m.
Rank(K, m) == Cardinality({l \in K : l <= m})

LEMMA RankSteps ==
    ASSUME NEW L \in Nat, NEW K \in SUBSET (1..L)
    PROVE  /\ IsFiniteSet(K) /\ Cardinality(K) \in Nat
           /\ Rank(K, 0) = 0 /\ Rank(K, L) = Cardinality(K)
           /\ \A m \in Nat : Rank(K, m) \in Nat /\ Rank(K, m) <= Cardinality(K)
           /\ \A m \in Nat :
                  Rank(K, m + 1) = IF m + 1 \in K THEN Rank(K, m) + 1 ELSE Rank(K, m)
           /\ \A m, n \in Nat : m <= n => Rank(K, m) <= Rank(K, n)
<1>0. \A l \in K : l \in Nat /\ 1 <= l /\ l <= L
  OBVIOUS
<1>1. IsFiniteSet(K) /\ Cardinality(K) \in Nat
  <2>1. IsFiniteSet(1..L)
    BY FS_Interval
  <2> QED BY <2>1, FS_Subset, FS_CardinalityType
<1>2. Rank(K, 0) = 0
  <2>0. \A l \in K : ~(l <= 0)
    BY <1>0
  <2>1. {l \in K : l <= 0} = {}
    BY <2>0
  <2> QED BY <2>1, FS_EmptySet DEF Rank
<1>3. Rank(K, L) = Cardinality(K)
  <2>1. {l \in K : l <= L} = K
    BY <1>0
  <2> QED BY <2>1 DEF Rank
<1>4. ASSUME NEW m \in Nat
      PROVE  /\ IsFiniteSet({l \in K : l <= m})
             /\ Rank(K, m) \in Nat /\ Rank(K, m) <= Cardinality(K)
  <2>1. {l \in K : l <= m} \in SUBSET K
    OBVIOUS
  <2> QED BY <1>1, <2>1, FS_Subset, FS_CardinalityType DEF Rank
<1>5. ASSUME NEW m \in Nat
      PROVE  Rank(K, m + 1) = IF m + 1 \in K THEN Rank(K, m) + 1 ELSE Rank(K, m)
  <2>0. /\ \A l \in K : l <= m + 1 <=> (l <= m \/ l = m + 1)
        /\ ~(m + 1 <= m)
    BY <1>0
  <2>1. CASE m + 1 \in K
    <3>1. {l \in K : l <= m + 1} = {l \in K : l <= m} \cup {m + 1} /\ m + 1 \notin {l \in K : l <= m}
      BY <2>0, <2>1
    <3>2. Cardinality({l \in K : l <= m} \cup {m + 1}) = Cardinality({l \in K : l <= m}) + 1
      BY <1>4, <3>1, FS_AddElement
    <3> QED BY <2>1, <3>1, <3>2 DEF Rank
  <2>2. CASE m + 1 \notin K
    <3>1. {l \in K : l <= m + 1} = {l \in K : l <= m}
      BY <2>0, <2>2
    <3> QED BY <2>2, <3>1 DEF Rank
  <2> QED BY <2>1, <2>2
<1>6. ASSUME NEW m \in Nat, NEW n \in Nat, m <= n
      PROVE  Rank(K, m) <= Rank(K, n)
  <2>0. \A l \in K : l <= m => l <= n
    BY <1>0, <1>6
  <2>1. {l \in K : l <= m} \in SUBSET {l \in K : l <= n}
    BY <2>0
  <2>2. IsFiniteSet({l \in K : l <= n})
    BY <1>4
  <2> QED BY <2>1, <2>2, FS_Subset DEF Rank
<1> QED BY <1>1, <1>2, <1>3, <1>4, <1>5, <1>6

\* The numbers are ranked from one to how many there are, without ties.
LEMMA RankedOnce ==
    ASSUME NEW L \in Nat, NEW K \in SUBSET (1..L)
    PROVE  /\ \A k \in K : Rank(K, k) \in 1..Cardinality(K)
           /\ \A k, l \in K : Rank(K, k) = Rank(K, l) => k = l
           /\ \A n \in 1..Cardinality(K) : \E k \in K : Rank(K, k) = n
<1>1. /\ IsFiniteSet(K) /\ Cardinality(K) \in Nat
      /\ Rank(K, 0) = 0 /\ Rank(K, L) = Cardinality(K)
      /\ \A m \in Nat : Rank(K, m) \in Nat /\ Rank(K, m) <= Cardinality(K)
      /\ \A m \in Nat :
             Rank(K, m + 1) = IF m + 1 \in K THEN Rank(K, m) + 1 ELSE Rank(K, m)
      /\ \A m, n \in Nat : m <= n => Rank(K, m) <= Rank(K, n)
  BY RankSteps
<1>2. ASSUME NEW k \in K
      PROVE  k - 1 \in Nat /\ k \in Nat /\ Rank(K, k) = Rank(K, k - 1) + 1
  <2>1. PICK m \in Nat : m = k - 1
    OBVIOUS
  <2>2. m + 1 = k
    BY <2>1
  <2>3. Rank(K, m + 1) = Rank(K, m) + 1
    BY <1>1, <2>2
  <2> QED BY <2>1, <2>2, <2>3
<1>3. ASSUME NEW k \in K
      PROVE  Rank(K, k) \in 1..Cardinality(K)
  <2>1. Rank(K, k - 1) \in Nat /\ Rank(K, k) <= Cardinality(K)
    BY <1>1, <1>2
  <2> QED BY <1>1, <1>2, <2>1
<1>4. ASSUME NEW k \in K, NEW l \in K, k < l
      PROVE  Rank(K, k) # Rank(K, l)
  <2>1. k <= l - 1 /\ l - 1 \in Nat /\ k \in Nat
    BY <1>4
  <2>2. Rank(K, k) <= Rank(K, l - 1)
    BY <1>1, <2>1
  <2>3. Rank(K, l) = Rank(K, l - 1) + 1 /\ Rank(K, l - 1) \in Nat /\ Rank(K, k) \in Nat
    BY <1>1, <1>2, <2>1
  <2> QED BY <2>2, <2>3
<1>5. ASSUME NEW n \in 1..Cardinality(K)
      PROVE  \E k \in K : Rank(K, k) = n
  <2> DEFINE S == {m \in Nat : n <= Rank(K, m)}
  <2>1. L \in S
    BY <1>1
  <2>2. PICK m \in S : \A k \in S : m <= k
    <3>1. S \in SUBSET Nat /\ S # {}
      BY <2>1
    <3> QED BY <3>1, LeastOf
  <2>3. m # 0
    BY <1>1, <2>2
  <2>4. PICK j \in Nat : j + 1 = m
    <3>1. m - 1 \in Nat /\ (m - 1) + 1 = m
      BY <2>2, <2>3
    <3> QED BY <3>1
  <2>5. ~(n <= Rank(K, j)) /\ Rank(K, j) \in Nat /\ n <= Rank(K, j + 1)
    <3>1. j < m
      BY <2>4
    <3>2. j \notin S
      BY <2>2, <2>4, <3>1
    <3> QED BY <1>1, <2>2, <2>4, <3>2
  <2>6. Rank(K, j + 1) = IF j + 1 \in K THEN Rank(K, j) + 1 ELSE Rank(K, j)
    BY <1>1
  <2>7. n \in Nat
    BY <1>1
  <2>8. j + 1 \in K
    BY <2>5, <2>6
  <2>9. Rank(K, j + 1) = n
    BY <2>5, <2>6, <2>7, <2>8
  <2> QED BY <2>8, <2>9
<1>6. \A k, l \in K : Rank(K, k) = Rank(K, l) => k = l
  <2>1. \A k, l \in K : k < l \/ l < k \/ k = l
    OBVIOUS
  <2> QED BY <1>4, <2>1
<1> QED BY <1>3, <1>5, <1>6

\* The elements at the given places.
Picked(N, K) == LET kept == Numbered(K) IN [k \in DOMAIN kept |-> N[kept[k]]]

LEMMA PickedOnce ==
    ASSUME NEW N, N \in Seq(ToSet(N)), NEW K \in SUBSET DOMAIN N
    PROVE  /\ Picked(N, K) \in Seq(ToSet(N))
           /\ Cardinality(K) \in Nat /\ DOMAIN Picked(N, K) = 1..Cardinality(K)
           /\ Len(Picked(N, K)) = Cardinality(K)
           /\ Picked(N, K) = <<>> <=> K = {}
           /\ \A i \in K : Rank(K, i) \in DOMAIN Picked(N, K) /\ Picked(N, K)[Rank(K, i)] = N[i]
           /\ \A k \in DOMAIN Picked(N, K) : \E i \in K : Rank(K, i) = k
           /\ \A i, j \in K : i < j <=> Rank(K, i) < Rank(K, j)
<1> DEFINE P == Picked(N, K)
           Place(k) == CHOOSE i \in K : Rank(K, i) = k
           n == Cardinality(K)
           L == Len(N)
<1>1. L \in Nat /\ DOMAIN N = 1..L /\ K \in SUBSET (1..L)
  OBVIOUS
<1> HIDE DEF L
<1>2. P = [k \in 1..n |-> N[Place(k)]]
  BY DEF Picked, Numbered, Rank
<1>3. /\ IsFiniteSet(K) /\ n \in Nat
      /\ \A i \in K : Rank(K, i) \in 1..n
      /\ \A i, j \in K : Rank(K, i) = Rank(K, j) => i = j
      /\ \A k \in 1..n : \E i \in K : Rank(K, i) = k
      /\ \A i, j \in Nat : i <= j => Rank(K, i) <= Rank(K, j)
  BY <1>1, RankSteps, RankedOnce
<1>4. \A k \in 1..n : Place(k) \in K /\ Rank(K, Place(k)) = k
  BY <1>3
<1>5. \A i \in K : Place(Rank(K, i)) = i
  BY <1>3, <1>4
<1>6. n = 0 <=> K = {}
  BY <1>3, FS_EmptySet
<1> HIDE DEF P, Place, n
<1>7. P \in Seq(ToSet(N)) /\ DOMAIN P = 1..n /\ Len(P) = n
  <2>1. \A k \in 1..n : N[Place(k)] \in ToSet(N)
    BY <1>1, <1>4 DEF ToSet
  <2>2. n \in Nat
    BY <1>3
  <2> QED BY <1>2, <2>1, <2>2
<1>8. P = <<>> <=> K = {}
  BY <1>3, <1>6, <1>7
<1>9. \A i \in K : Rank(K, i) \in DOMAIN P /\ P[Rank(K, i)] = N[i]
  BY <1>2, <1>3, <1>5, <1>7
<1>10. \A k \in DOMAIN P : \E i \in K : Rank(K, i) = k
  BY <1>3, <1>7
<1>11. \A i, j \in K : i < j <=> Rank(K, i) < Rank(K, j)
  <2> SUFFICES ASSUME NEW i \in K, NEW j \in K
               PROVE  i < j <=> Rank(K, i) < Rank(K, j)
    OBVIOUS
  <2>1. i \in Nat /\ j \in Nat /\ Rank(K, i) \in Nat /\ Rank(K, j) \in Nat
    BY <1>1, <1>3
  <2>2. i <= j => Rank(K, i) <= Rank(K, j)
    BY <1>3, <2>1
  <2>3. j <= i => Rank(K, j) <= Rank(K, i)
    BY <1>3, <2>1
  <2>4. Rank(K, i) = Rank(K, j) => i = j
    BY <1>3
  <2> QED BY <2>1, <2>2, <2>3, <2>4
<1> QED BY <1>3, <1>7, <1>8, <1>9, <1>10, <1>11 DEF P, n

\* A filter keeps what it is true of, in place.
LEMMA KeepsPicked ==
    ASSUME NEW N, NEW those, NEW K, K = {i \in DOMAIN N : N[i] \in those}
    PROVE  Keep(N, those) = Picked(N, K)
  BY DEF Keep, Picked

LEMMA Below ==
    ASSUME NEW L \in Nat, NEW K \in SUBSET (1..L), NEW i \in K
    PROVE  /\ Cardinality({j \in K : j < i}) \in Nat
           /\ Rank(K, i) = Cardinality({j \in K : j < i}) + 1
<1> DEFINE B == {j \in K : j < i}
<1>1. IsFiniteSet(K)
  BY RankSteps
<1>2. IsFiniteSet(B) /\ Cardinality(B) \in Nat
  BY <1>1, FS_Subset, FS_CardinalityType
<1>3. {j \in K : j <= i} = B \cup {i} /\ i \notin B
  <2>1. \A j \in K : j <= i <=> j < i \/ j = i
    OBVIOUS
  <2>2. ~(i < i)
    OBVIOUS
  <2> QED BY <2>1, <2>2
<1> HIDE DEF B
<1>4. Cardinality(B \cup {i}) = Cardinality(B) + 1
  BY <1>2, <1>3, FS_AddElement
<1> QED BY <1>2, <1>3, <1>4 DEF Rank, B

\* The element behind m others is the one at the place m + 1.
LEMMA PickedAt ==
    ASSUME NEW N, N \in Seq(ToSet(N)), NEW K \in SUBSET DOMAIN N, NEW m \in Int
    PROVE  LET those == {N[i] : i \in {i \in K : Cardinality({j \in K : j < i}) = m}}
           IN  IF m + 1 \in DOMAIN Picked(N, K) THEN those = {Picked(N, K)[m + 1]} ELSE those = {}
<1> DEFINE P == Picked(N, K)
           I == {i \in K : Cardinality({j \in K : j < i}) = m}
<1>1. /\ \A i \in K : Rank(K, i) \in DOMAIN P /\ P[Rank(K, i)] = N[i]
      /\ \A k \in DOMAIN P : \E i \in K : Rank(K, i) = k
  BY PickedOnce
<1>2. \A i \in K : i \in I <=> Rank(K, i) = m + 1
  <2>1. Len(N) \in Nat /\ K \in SUBSET (1..Len(N))
    OBVIOUS
  <2>2. ASSUME NEW i \in K
        PROVE  i \in I <=> Rank(K, i) = m + 1
    <3>1. /\ Cardinality({j \in K : j < i}) \in Nat
          /\ Rank(K, i) = Cardinality({j \in K : j < i}) + 1
      BY <2>1, Below
    <3> QED BY <3>1
  <2> QED BY <2>2
<1>3. I \subseteq K
  OBVIOUS
<1> HIDE DEF P, I
<1>4. CASE m + 1 \in DOMAIN P
  <2>1. PICK i \in K : Rank(K, i) = m + 1
    BY <1>1, <1>4
  <2>2. N[i] = P[m + 1] /\ i \in I
    BY <1>1, <1>2, <2>1
  <2>3. \A j \in I : N[j] = P[m + 1]
    BY <1>1, <1>2, <1>3
  <2>4. {N[j] : j \in I} = {P[m + 1]}
    BY <2>2, <2>3
  <2> QED BY <1>4, <2>4 DEF P, I
<1>5. CASE m + 1 \notin DOMAIN P
  <2>1. I = {}
    BY <1>1, <1>2, <1>3, <1>5
  <2> QED BY <1>5, <2>1 DEF P, I
<1> QED BY <1>4, <1>5

-----------------------------------------------------------------------------
(* The order of the matches.                                                *)

LEMMA Scores ==
    ASSUME NEW node
    PROVE  Score(node) \in {0, 1, 2}
<1> DEFINE S == {"clickable", "focused"}
<1>1. IsFiniteSet(S) /\ Cardinality(S) = 2
  <2>1. IsFiniteSet({"clickable"}) /\ Cardinality({"clickable"}) = 1
    BY FS_Singleton
  <2>2. S = {"clickable"} \cup {"focused"} /\ "focused" \notin {"clickable"}
    OBVIOUS
  <2> QED BY <2>1, <2>2, FS_AddElement
<1>2. S \cap node.is \in SUBSET S
  OBVIOUS
<1> HIDE DEF S
<1>3. Cardinality(S \cap node.is) \in Nat /\ Cardinality(S \cap node.is) <= 2
  BY <1>1, <1>2, FS_Subset, FS_CardinalityType
<1> QED BY <1>3 DEF Score, S

\* The first of those with a score is the first one that has it.
LEMMA FirstScored ==
    ASSUME NEW P, P \in Seq(ToSet(P)), NEW n
    PROVE  LET F == Keep(P, {node \in ToSet(P) : Score(node) = n})
           IN  /\ F \in Seq(ToSet(P))
               /\ F = <<>> <=> \A q \in DOMAIN P : Score(P[q]) # n
               /\ F # <<>> => \E p \in DOMAIN P :
                      /\ F[1] = P[p] /\ Score(P[p]) = n
                      /\ \A q \in DOMAIN P : Score(P[q]) = n => p <= q
<1> DEFINE those == {node \in ToSet(P) : Score(node) = n}
           K == {q \in DOMAIN P : Score(P[q]) = n}
           F == Picked(P, K)
<1>1. Keep(P, those) = F
  <2>1. K = {q \in DOMAIN P : P[q] \in those}
    BY DEF ToSet
  <2> HIDE DEF those, K
  <2> QED BY <2>1, KeepsPicked
<1>2. K \in SUBSET DOMAIN P /\ DOMAIN P \subseteq Nat
  OBVIOUS
<1>3. /\ F \in Seq(ToSet(P)) /\ Cardinality(K) \in Nat /\ DOMAIN F = 1..Cardinality(K)
      /\ F = <<>> <=> K = {}
      /\ \A i \in K : Rank(K, i) \in DOMAIN F /\ F[Rank(K, i)] = P[i]
      /\ \A k \in DOMAIN F : \E i \in K : Rank(K, i) = k
      /\ \A i, j \in K : i < j <=> Rank(K, i) < Rank(K, j)
  BY <1>2, PickedOnce
<1>4. \A q \in DOMAIN P : q \in K <=> Score(P[q]) = n
  OBVIOUS
<1> HIDE DEF K, F, those
<1>5. ASSUME F # <<>>
      PROVE  \E p \in K : F[1] = P[p] /\ \A q \in K : p <= q
  <2>1. 1 \in DOMAIN F
    <3>1. K # {} BY <1>3, <1>5
    <3>2. PICK i \in K : TRUE BY <3>1
    <3>3. Rank(K, i) \in 1..Cardinality(K) BY <1>3
    <3> QED BY <1>3, <3>3
  <2>2. PICK p \in K : Rank(K, p) = 1
    BY <1>3, <2>1
  <2>3. ASSUME NEW q \in K
        PROVE  p <= q
    <3>1. Rank(K, q) \in 1..Cardinality(K)
      BY <1>3
    <3>2. ~(Rank(K, q) < Rank(K, p))
      BY <2>2, <3>1
    <3>3. ~(q < p) /\ p \in Nat /\ q \in Nat
      BY <1>2, <1>3, <3>2
    <3> QED BY <3>3
  <2>4. F[1] = P[p]
    BY <1>3, <2>2
  <2> QED BY <2>3, <2>4
<1>6. F = <<>> <=> \A q \in DOMAIN P : Score(P[q]) # n
  BY <1>2, <1>3, <1>4
<1>7. F # <<>> => \E p \in DOMAIN P :
          F[1] = P[p] /\ Score(P[p]) = n /\ \A q \in DOMAIN P : Score(P[q]) = n => p <= q
  BY <1>2, <1>4, <1>5
<1> QED BY <1>1, <1>3, <1>6, <1>7 DEF those

LEMMA FirstOfTwo ==
    ASSUME NEW S, NEW a \in Seq(S), NEW b \in Seq(S)
    PROVE  /\ a = <<>> => a \o b = b
           /\ a # <<>> => a \o b # <<>> /\ (a \o b)[1] = a[1]
<1>1. a = <<>> => a \o b = b
  BY ConcatEmptySeq
<1>2. ASSUME a # <<>>
      PROVE  a \o b # <<>> /\ (a \o b)[1] = a[1]
  <2>1. Len(a) \in Nat /\ Len(b) \in Nat /\ 1 <= Len(a)
    BY <1>2
  <2>2. 1 \in 1..Len(a) + Len(b)
    BY <2>1
  <2>3. (a \o b)[1] = a[1] /\ Len(a \o b) = Len(a) + Len(b)
    BY <2>1, <2>2, ConcatProperties
  <2> QED BY <2>1, <2>3
<1> QED BY <1>1, <1>2

\* None reacts better than the one at the place p, and none as well before it.
Best(P, p) ==
    \A q \in DOMAIN P : Score(P[q]) < Score(P[p]) \/ (Score(P[q]) = Score(P[p]) /\ p <= q)

\* Nodes that react best come first, of those with one score the first.
LEMMA RankedFirst ==
    ASSUME NEW P, P \in Seq(ToSet(P))
    PROVE  /\ Ranked(P) = <<>> <=> P = <<>>
           /\ P # <<>> => \E p \in DOMAIN P : Ranked(P)[1] = P[p] /\ Best(P, p)
<1> DEFINE F(n) == Keep(P, {node \in ToSet(P) : Score(node) = n})
           R == Ranked(P)
           S == ToSet(P)
<1>1. ASSUME NEW n
      PROVE  /\ F(n) \in Seq(S)
             /\ F(n) = <<>> <=> \A q \in DOMAIN P : Score(P[q]) # n
             /\ F(n) # <<>> => \E p \in DOMAIN P :
                    /\ F(n)[1] = P[p] /\ Score(P[p]) = n
                    /\ \A q \in DOMAIN P : Score(P[q]) = n => p <= q
  BY FirstScored
<1>2. R = F(2) \o F(1) \o F(0)
  BY DEF Ranked
<1>3. P = <<>> <=> DOMAIN P = {}
  OBVIOUS
<1>4. \A q \in DOMAIN P : Score(P[q]) \in {0, 1, 2}
  BY Scores
<1> HIDE DEF F, R, S
<1>5. PICK f2 \in Seq(S), f1 \in Seq(S), f0 \in Seq(S) : f2 = F(2) /\ f1 = F(1) /\ f0 = F(0)
  BY <1>1
<1>6. R = <<>> <=> f2 = <<>> /\ f1 = <<>> /\ f0 = <<>>
  BY <1>2, <1>5
<1>7. R = <<>> <=> P = <<>>
  BY <1>1, <1>3, <1>4, <1>5, <1>6
<1>8. /\ f2 # <<>> => R[1] = f2[1]
      /\ f2 = <<>> /\ f1 # <<>> => R[1] = f1[1]
      /\ f2 = <<>> /\ f1 = <<>> => R[1] = f0[1]
  <2>1. R = (f2 \o f1) \o f0
    BY <1>2, <1>5
  <2>2. f2 \o f1 \in Seq(S)
    OBVIOUS
  <2>3. f2 # <<>> => R[1] = f2[1]
    <3>1. f2 # <<>> => f2 \o f1 # <<>> /\ (f2 \o f1)[1] = f2[1]
      BY FirstOfTwo
    <3> QED BY <2>1, <2>2, <3>1, FirstOfTwo
  <2>4. f2 = <<>> => R = f1 \o f0
    <3>1. f2 = <<>> => f2 \o f1 = f1
      BY FirstOfTwo
    <3> QED BY <2>1, <3>1
  <2> QED BY <2>3, <2>4, FirstOfTwo
<1>9. ASSUME P # <<>>
      PROVE  \E p \in DOMAIN P : R[1] = P[p] /\ Best(P, p)
  <2>1. CASE f2 # <<>>
    <3>1. PICK p \in DOMAIN P :
              /\ f2[1] = P[p] /\ Score(P[p]) = 2
              /\ \A q \in DOMAIN P : Score(P[q]) = 2 => p <= q
      BY <1>1, <1>5, <2>1
    <3>2. Best(P, p)
      <4> SUFFICES ASSUME NEW q \in DOMAIN P
                   PROVE  Score(P[q]) < Score(P[p]) \/ (Score(P[q]) = Score(P[p]) /\ p <= q)
        BY DEF Best
      <4>1. Score(P[q]) \in {0, 1, 2}
        BY <1>4
      <4> QED BY <3>1, <4>1
    <3> QED BY <1>8, <2>1, <3>1, <3>2
  <2>2. CASE f2 = <<>> /\ f1 # <<>>
    <3>1. PICK p \in DOMAIN P :
              /\ f1[1] = P[p] /\ Score(P[p]) = 1
              /\ \A q \in DOMAIN P : Score(P[q]) = 1 => p <= q
      BY <1>1, <1>5, <2>2
    <3>2. \A q \in DOMAIN P : Score(P[q]) # 2
      BY <1>1, <1>5, <2>2
    <3>3. Best(P, p)
      <4> SUFFICES ASSUME NEW q \in DOMAIN P
                   PROVE  Score(P[q]) < Score(P[p]) \/ (Score(P[q]) = Score(P[p]) /\ p <= q)
        BY DEF Best
      <4>1. Score(P[q]) \in {0, 1}
        BY <1>4, <3>2
      <4> QED BY <3>1, <4>1
    <3> QED BY <1>8, <2>2, <3>1, <3>3
  <2>3. CASE f2 = <<>> /\ f1 = <<>>
    <3>1. f0 # <<>>
      BY <1>6, <1>7, <1>9, <2>3
    <3>2. PICK p \in DOMAIN P :
              /\ f0[1] = P[p] /\ Score(P[p]) = 0
              /\ \A q \in DOMAIN P : Score(P[q]) = 0 => p <= q
      BY <1>1, <1>5, <3>1
    <3>3. \A q \in DOMAIN P : Score(P[q]) # 2 /\ Score(P[q]) # 1
      BY <1>1, <1>5, <2>3
    <3>4. Best(P, p)
      BY <1>4, <3>2, <3>3 DEF Best
    <3> QED BY <1>8, <2>3, <3>2, <3>4
  <2> QED BY <2>1, <2>2, <2>3
<1> QED BY <1>7, <1>9 DEF R

-----------------------------------------------------------------------------
(* The tries, in their order.                                               *)

\* What one try finds, and what the first successful of several finds.
Match(N, s, try) == Keep(N, {n \in ToSet(N) : HasMatch(n, try[1], try[2]) /\ Constrained(n, s)})
Tried(N, s, tries) == FirstFound([k \in DOMAIN tries |-> Match(N, s, tries[k])])

LEMMA FirstHit ==
    ASSUME NEW n \in Nat, NEW f, DOMAIN f = 1..n
    PROVE  \/ FirstFound(f) = <<>> /\ \A k \in 1..n : f[k] = <<>>
           \/ \E k \in 1..n :
                  f[k] # <<>> /\ FirstFound(f) = f[k] /\ \A j \in 1..n : j < k => f[j] = <<>>
<1> DEFINE hits == {k \in DOMAIN f : f[k] # <<>>}
<1>1. CASE hits = {}
  BY <1>1 DEF FirstFound
<1>2. CASE hits # {}
  <2>1. hits \in SUBSET Nat
    OBVIOUS
  <2>2. \E m \in hits : \A k \in hits : m <= k
    BY <1>2, <2>1, LeastOf
  <2>3. Min(hits) \in hits /\ \A k \in hits : Min(hits) <= k
    BY <2>2 DEF Min
  <2>4. FirstFound(f) = f[Min(hits)]
    BY <1>2 DEF FirstFound
  <2>5. PICK m \in 1..n : m = Min(hits)
    BY <2>3
  <2>6. ASSUME NEW j \in 1..n, j < m
        PROVE  f[j] = <<>>
    <3>1. j \notin hits
      BY <2>3, <2>5, <2>6
    <3> QED BY <3>1
  <2>7. f[m] # <<>> /\ FirstFound(f) = f[m]
    BY <2>3, <2>4, <2>5
  <2> QED BY <2>6, <2>7
<1> QED BY <1>1, <1>2

LEMMA OneMoreFound ==
    ASSUME NEW n \in Nat, NEW f, DOMAIN f = 1..n, NEW g, DOMAIN g = 1..n + 1,
           \A k \in 1..n : g[k] = f[k]
    PROVE  FirstFound(g) = IF FirstFound(f) # <<>> THEN FirstFound(f) ELSE g[n + 1]
<1>1. n + 1 \in Nat /\ \A k \in 1..n + 1 : k \in 1..n \/ k = n + 1
  OBVIOUS
<1>2. CASE FirstFound(f) # <<>>
  <2>1. PICK k \in 1..n :
            f[k] # <<>> /\ FirstFound(f) = f[k] /\ \A j \in 1..n : j < k => f[j] = <<>>
    BY <1>2, FirstHit
  <2>2. PICK l \in 1..n + 1 :
            g[l] # <<>> /\ FirstFound(g) = g[l] /\ \A j \in 1..n + 1 : j < l => g[j] = <<>>
    BY <1>1, <2>1, FirstHit
  <2>3. ~(k < l)
    BY <1>1, <2>1, <2>2
  <2>4. l \in 1..n
    BY <1>1, <2>3
  <2>5. ~(l < k)
    BY <2>1, <2>2, <2>4
  <2>6. l = k
    BY <2>3, <2>5
  <2> QED BY <1>2, <2>1, <2>2, <2>6
<1>3. CASE FirstFound(f) = <<>>
  <2>1. \A k \in 1..n : f[k] = <<>>
    BY <1>3, FirstHit
  <2>2. \A k \in 1..n : g[k] = <<>>
    BY <2>1
  <2>3. \/ FirstFound(g) = <<>> /\ \A k \in 1..n + 1 : g[k] = <<>>
        \/ \E k \in 1..n + 1 : g[k] # <<>> /\ FirstFound(g) = g[k]
    BY <1>1, FirstHit
  <2>4. n + 1 \in 1..n + 1
    OBVIOUS
  <2> QED BY <1>1, <1>3, <2>2, <2>3, <2>4
<1> QED BY <1>2, <1>3

LEMMA OneMoreTry ==
    ASSUME NEW N, NEW s, NEW S, NEW tries \in Seq(S), NEW t \in S
    PROVE  Tried(N, s, tries \o <<t>>)
             = IF Tried(N, s, tries) # <<>> THEN Tried(N, s, tries) ELSE Match(N, s, t)
<1> DEFINE n == Len(tries)
           more == tries \o <<t>>
           f == [k \in DOMAIN tries |-> Match(N, s, tries[k])]
           g == [k \in DOMAIN more |-> Match(N, s, more[k])]
<1>1. n \in Nat /\ DOMAIN tries = 1..n
  OBVIOUS
<1>2. /\ more \in Seq(S) /\ Len(more) = n + 1
      /\ \A k \in 1..n + 1 : more[k] = IF k <= n THEN tries[k] ELSE <<t>>[k - n]
  <2>1. <<t>> \in Seq(S) /\ Len(<<t>>) = 1
    OBVIOUS
  <2> QED BY <2>1, ConcatProperties
<1> HIDE DEF more, n
<1>3. DOMAIN more = 1..n + 1 /\ more[n + 1] = t /\ \A k \in 1..n : more[k] = tries[k]
  <2>1. DOMAIN more = 1..n + 1
    BY <1>2
  <2>2. ~(n + 1 <= n) /\ (n + 1) - n = 1 /\ n + 1 \in 1..n + 1
    BY <1>1
  <2>3. more[n + 1] = t
    BY <1>2, <2>2
  <2>4. \A k \in 1..n : k \in 1..n + 1 /\ k <= n
    BY <1>1
  <2> QED BY <1>2, <2>1, <2>3, <2>4
<1>4. DOMAIN f = 1..n /\ DOMAIN g = 1..n + 1
  BY <1>1, <1>3
<1>5. \A k \in 1..n : g[k] = f[k]
  <2>1. \A k \in 1..n : k \in DOMAIN more /\ k \in DOMAIN tries
    BY <1>1, <1>3
  <2> QED BY <1>3, <2>1
<1>6. g[n + 1] = Match(N, s, t)
  <2>1. n + 1 \in DOMAIN more
    BY <1>1, <1>3
  <2> QED BY <1>3, <2>1
<1>7. Tried(N, s, tries) = FirstFound(f) /\ Tried(N, s, more) = FirstFound(g)
  BY DEF Tried
<1> HIDE DEF f, g
<1> QED BY <1>1, <1>4, <1>5, <1>6, <1>7, OneMoreFound DEF more

\* The first of the sets that is not empty, or the last.
Either(A, B) == IF A # {} THEN A ELSE B

\* The tries find what is at the places J; and a try that is made only when its field
\* is given, for the places K.
Reached(N, s, S, tries, J) ==
    tries \in Seq(S) /\ J \in SUBSET DOMAIN N /\ Tried(N, s, tries) = Picked(N, J)
Optionally(N, s, S, t, K) ==
    /\ t \in Seq(S) /\ K \in SUBSET DOMAIN N
    /\ \/ t = <<>> /\ K = {}
       \/ \E e \in S : t = <<e>> /\ Match(N, s, e) = Picked(N, K)

LEMMA TriedNext ==
    ASSUME NEW N, N \in Seq(ToSet(N)), NEW s, NEW S, NEW front, NEW J, Reached(N, s, S, front, J),
           NEW t, NEW K, Optionally(N, s, S, t, K)
    PROVE  Reached(N, s, S, front \o t, Either(J, K))
<1> USE DEF Reached, Optionally
<1>1. Picked(N, J) = <<>> <=> J = {}
  BY PickedOnce
<1>2. front \o t \in Seq(S) /\ Either(J, K) \in SUBSET DOMAIN N
  BY DEF Either
<1>3. CASE t = <<>> /\ K = {}
  <2>1. front \o t = front
    BY <1>3, ConcatEmptySeq
  <2>2. Either(J, K) = J
    BY <1>3 DEF Either
  <2> QED BY <1>2, <2>1, <2>2
<1>4. ASSUME NEW e \in S, t = <<e>>, Match(N, s, e) = Picked(N, K)
      PROVE  Tried(N, s, front \o t) = Picked(N, Either(J, K))
  BY <1>1, <1>4, OneMoreTry DEF Either
<1> QED BY <1>2, <1>3, <1>4

-----------------------------------------------------------------------------
(* What a selector means and what it finds.                                 *)

\* The places that the most specific field with a match finds.
Choice(N, s) ==
    LET E(key, field) == Eligible(N, s, key, field)
        byLabel == IF Given(s, "label") THEN {} ELSE E("label", "text")
    IN  Either(Either(Either(Either(Either(E("id", "id"), E("label", "label")), E("text", "text")), byLabel),
                      E("value", "value")), E("hint", "hint"))

Asked(s) == \E field \in {"id", "label", "text", "value", "hint"} : Given(s, field)

LEMMA EligibleMatch ==
    ASSUME NEW N, NEW s, NEW key, NEW field
    PROVE  /\ Eligible(N, s, key, field) \in SUBSET DOMAIN N
           /\ ~Given(s, field) => Eligible(N, s, key, field) = {}
           /\ Given(s, field) => Match(N, s, <<key, Get(s, field)>>) = Picked(N, Eligible(N, s, key, field))
<1> DEFINE e == <<key, Get(s, field)>>
           those == {n \in ToSet(N) : HasMatch(n, e[1], e[2]) /\ Constrained(n, s)}
           K == Eligible(N, s, key, field)
<1>1. K \in SUBSET DOMAIN N /\ (~Given(s, field) => K = {})
  BY DEF Eligible
<1>2. ASSUME Given(s, field)
      PROVE  Match(N, s, e) = Picked(N, K)
  <2>1. Match(N, s, e) = Keep(N, those)
    BY DEF Match
  <2>2. K = {i \in DOMAIN N : N[i] \in those}
    BY <1>2 DEF Eligible, ToSet
  <2> HIDE DEF K, those
  <2> QED BY <2>1, <2>2, KeepsPicked
<1> QED BY <1>1, <1>2

LEMMA OneField ==
    ASSUME NEW N, NEW s, NEW S, NEW key, NEW field, <<key, Get(s, field)>> \in S
    PROVE  LET t == IF Given(s, field) THEN <<<<key, Get(s, field)>>>> ELSE <<>>
           IN  /\ Optionally(N, s, S, t, Eligible(N, s, key, field))
               /\ t = <<>> <=> ~Given(s, field)
<1> DEFINE t == IF Given(s, field) THEN <<<<key, Get(s, field)>>>> ELSE <<>>
           K == Eligible(N, s, key, field)
           e == <<key, Get(s, field)>>
<1>1. K \in SUBSET DOMAIN N
  BY EligibleMatch
<1>2. CASE ~Given(s, field)
  <2>1. t = <<>> /\ K = {}
    BY <1>2, EligibleMatch
  <2> QED BY <1>1, <1>2, <2>1 DEF Optionally
<1>3. CASE Given(s, field)
  <2>1. Match(N, s, e) = Picked(N, K)
    BY <1>3, EligibleMatch
  <2>2. t = <<e>>
    BY <1>3
  <2> HIDE DEF t, K, e
  <2>3. t \in Seq(S) /\ t # <<>>
    BY <2>2 DEF e
  <2>4. \E d \in S : t = <<d>> /\ Match(N, s, d) = Picked(N, K)
    BY <2>1, <2>2 DEF e
  <2>5. Optionally(N, s, S, t, K)
    BY <1>1, <2>3, <2>4 DEF Optionally
  <2> QED BY <1>3, <2>3, <2>5 DEF t, K
<1> QED BY <1>2, <1>3

LEMMA Chain ==
    ASSUME NEW N, N \in Seq(ToSet(N)), NEW s
    PROVE  /\ Broadened(N, s) = Picked(N, Choice(N, s)) /\ Choice(N, s) \in SUBSET DOMAIN N
           /\ Tries(s) = <<>> <=> ~Asked(s)
<1> DEFINE Try(key, field) == IF Given(s, field) THEN <<<<key, Get(s, field)>>>> ELSE <<>>
           E(key, field) == Eligible(N, s, key, field)
           F == {"id", "label", "text", "value", "hint"}
           S == {<<key, Get(s, field)>> : key \in F, field \in F}
           t1 == Try("id", "id")
           t2 == Try("label", "label")
           t3 == Try("text", "text")
           t4 == IF Given(s, "label") THEN <<>> ELSE Try("label", "text")
           t5 == Try("value", "value")
           t6 == Try("hint", "hint")
           byLabel == IF Given(s, "label") THEN {} ELSE E("label", "text")
           K1 == Either({}, E("id", "id"))
           K2 == Either(K1, E("label", "label"))
           K3 == Either(K2, E("text", "text"))
           K4 == Either(K3, byLabel)
           K5 == Either(K4, E("value", "value"))
           K6 == Either(K5, E("hint", "hint"))
<1> HIDE DEF S, Try, E
<1>1. \A key, field \in F :
          /\ Optionally(N, s, S, Try(key, field), E(key, field))
          /\ Try(key, field) = <<>> <=> ~Given(s, field)
  <2> SUFFICES ASSUME NEW key \in F, NEW field \in F
               PROVE  /\ Optionally(N, s, S, Try(key, field), E(key, field))
                      /\ Try(key, field) = <<>> <=> ~Given(s, field)
    OBVIOUS
  <2>1. <<key, Get(s, field)>> \in S
    BY DEF S
  <2> QED BY <2>1, OneField DEF Try, E
<1> USE DEF Try, E
<1>2. Tries(s) = t1 \o t2 \o t3 \o t4 \o t5 \o t6
  BY DEF Tries
<1>3. Choice(N, s) = K6
  BY DEF Choice, Either
<1> HIDE DEF Try, E, S
<1>4. /\ Optionally(N, s, S, t4, byLabel)
      /\ t4 = <<>> <=> Given(s, "label") \/ ~Given(s, "text")
  <2>1. CASE Given(s, "label")
    <3>1. t4 = <<>> /\ byLabel = {} /\ <<>> \in Seq(S) /\ {} \in SUBSET DOMAIN N
      BY <2>1
    <3> QED BY <2>1, <3>1 DEF Optionally
  <2>2. CASE ~Given(s, "label")
    <3>1. t4 = Try("label", "text") /\ byLabel = E("label", "text")
      BY <2>2
    <3> HIDE DEF t4, byLabel
    <3> QED BY <1>1, <2>2, <3>1
  <2> QED BY <2>1, <2>2
<1> HIDE DEF t4, byLabel
<1>5. Reached(N, s, S, <<>>, {})
  <2>1. {i \in DOMAIN <<>> : [k \in DOMAIN <<>> |-> Match(N, s, <<>>[k])][i] # <<>>} = {}
    OBVIOUS
  <2>2. Tried(N, s, <<>>) = <<>>
    BY <2>1 DEF Tried, FirstFound
  <2>3. Picked(N, {}) = <<>>
    BY PickedOnce
  <2> QED BY <2>2, <2>3 DEF Reached
<1>6. /\ Optionally(N, s, S, t1, E("id", "id")) /\ Optionally(N, s, S, t2, E("label", "label"))
      /\ Optionally(N, s, S, t3, E("text", "text")) /\ Optionally(N, s, S, t5, E("value", "value"))
      /\ Optionally(N, s, S, t6, E("hint", "hint"))
      /\ t1 = <<>> <=> ~Given(s, "id")
      /\ t2 = <<>> <=> ~Given(s, "label")
      /\ t3 = <<>> <=> ~Given(s, "text")
      /\ t5 = <<>> <=> ~Given(s, "value")
      /\ t6 = <<>> <=> ~Given(s, "hint")
  BY <1>1
<1> HIDE DEF t1, t2, t3, t5, t6
<1>7. Reached(N, s, S, <<>> \o t1, K1)
  BY <1>5, <1>6, TriedNext
<1>8. Reached(N, s, S, t1, K1)
  <2>1. t1 \in Seq(S)
    BY <1>6 DEF Optionally
  <2>2. <<>> \o t1 = t1
    BY <2>1, ConcatEmptySeq
  <2> QED BY <1>7, <2>2
<1> HIDE DEF K1
<1>9. Reached(N, s, S, t1 \o t2, K2)
  BY <1>6, <1>8, TriedNext
<1> HIDE DEF K2
<1>10. Reached(N, s, S, t1 \o t2 \o t3, K3)
  BY <1>6, <1>9, TriedNext
<1> HIDE DEF K3
<1>11. Reached(N, s, S, t1 \o t2 \o t3 \o t4, K4)
  BY <1>4, <1>10, TriedNext
<1> HIDE DEF K4
<1>12. Reached(N, s, S, t1 \o t2 \o t3 \o t4 \o t5, K5)
  BY <1>6, <1>11, TriedNext
<1> HIDE DEF K5
<1>13. Reached(N, s, S, Tries(s), K6)
  BY <1>2, <1>6, <1>12, TriedNext
<1>14. Broadened(N, s) = Tried(N, s, Tries(s))
  BY DEF Broadened, Tried, Match
<1>15. Tries(s) = <<>> <=>
           t1 = <<>> /\ t2 = <<>> /\ t3 = <<>> /\ t4 = <<>> /\ t5 = <<>> /\ t6 = <<>>
  <2>1. /\ t1 \in Seq(S) /\ t2 \in Seq(S) /\ t3 \in Seq(S)
        /\ t4 \in Seq(S) /\ t5 \in Seq(S) /\ t6 \in Seq(S)
    BY <1>4, <1>6 DEF Optionally
  <2> QED BY <1>2, <2>1
<1>16. Tries(s) = <<>> <=> ~Asked(s)
  BY <1>4, <1>6, <1>15 DEF Asked
<1> QED BY <1>3, <1>13, <1>14, <1>16 DEF Reached

\* The places that a selector's fields and constraints leave, the place it asks for
\* among them, and which of two comes first.
Chosen(N, s) == IF Asked(s) THEN Choice(N, s) ELSE {j \in DOMAIN N : Constrained(N[j], s)}
Place(s) == IF Given(s, "nth") THEN Get(s, "nth")[2] ELSE 0
InDocumentOrder(s) == Given(s, "nth") \/ ~Asked(s)
Precedes(N, s, j, i) ==
    IF InDocumentOrder(s) THEN j < i
    ELSE Score(N[j]) > Score(N[i]) \/ (Score(N[j]) = Score(N[i]) /\ j < i)

\* The definition of what is meant names the same places.
LEMMA MeaningOf ==
    ASSUME NEW N, NEW s, NEW i
    PROVE  Meant(N, s, i) <=>
               /\ i \in Chosen(N, s)
               /\ Cardinality({j \in Chosen(N, s) : Precedes(N, s, j, i)}) = Place(s)
<1> DEFINE fields == <<"id", "label", "text", "value", "hint">>
           E(key, field) == Eligible(N, s, key, field)
           Of(k) == IF fields[k] = "text" /\ ~Given(s, "label") /\ E("text", "text") = {}
                    THEN E("label", "text") ELSE E(fields[k], fields[k])
           asked == \E k \in DOMAIN fields : Given(s, fields[k])
           first == {k \in DOMAIN fields : Of(k) # {} /\ \A l \in 1..(k - 1) : Of(l) = {}}
           Set == IF ~asked THEN {j \in DOMAIN N : Constrained(N[j], s)} ELSE UNION {Of(k) : k \in first}
           Before(j) == IF Given(s, "nth") \/ ~asked THEN j < i
                        ELSE Score(N[j]) > Score(N[i]) \/ (Score(N[j]) = Score(N[i]) /\ j < i)
<1>1. Meant(N, s, i) <=> i \in Set /\ Cardinality({j \in Set : Before(j)}) = Place(s)
  BY DEF Meant, Place
<1>2. DOMAIN fields = {1, 2, 3, 4, 5}
  OBVIOUS
<1>3. fields[1] = "id" /\ fields[2] = "label" /\ fields[3] = "text" /\ fields[4] = "value" /\ fields[5] = "hint"
  OBVIOUS
<1> HIDE DEF fields
<1>4. asked <=> Asked(s)
  BY <1>2, <1>3 DEF Asked
<1> HIDE DEF E
<1>5. /\ Of(1) = E("id", "id") /\ Of(2) = E("label", "label")
      /\ Of(3) = IF ~Given(s, "label") /\ E("text", "text") = {} THEN E("label", "text") ELSE E("text", "text")
      /\ Of(4) = E("value", "value") /\ Of(5) = E("hint", "hint")
  BY <1>3
<1> HIDE DEF Of
<1>6. UNION {Of(k) : k \in first} = Choice(N, s)
  <2>1. Choice(N, s) = Either(Either(Either(Either(Of(1), Of(2)), Of(3)), Of(4)), Of(5))
    BY <1>5 DEF Choice, Either, E
  <2>2. /\ 1 \in first <=> Of(1) # {}
        /\ 2 \in first <=> Of(2) # {} /\ Of(1) = {}
        /\ 3 \in first <=> Of(3) # {} /\ Of(1) = {} /\ Of(2) = {}
        /\ 4 \in first <=> Of(4) # {} /\ Of(1) = {} /\ Of(2) = {} /\ Of(3) = {}
        /\ 5 \in first <=> Of(5) # {} /\ Of(1) = {} /\ Of(2) = {} /\ Of(3) = {} /\ Of(4) = {}
    <3>1. /\ 1..(1 - 1) = {} /\ 1..(2 - 1) = {1} /\ 1..(3 - 1) = {1, 2}
          /\ 1..(4 - 1) = {1, 2, 3} /\ 1..(5 - 1) = {1, 2, 3, 4}
      OBVIOUS
    <3>2. \A k \in {1, 2, 3, 4, 5} : k \in first <=> Of(k) # {} /\ \A l \in 1..(k - 1) : Of(l) = {}
      BY <1>2
    <3> HIDE DEF first
    <3> QED BY <3>1, <3>2
  <2>3. first \subseteq {1, 2, 3, 4, 5}
    BY <1>2
  <2> HIDE DEF first
  <2>4. ASSUME NEW k \in {1, 2, 3, 4, 5}, first = {k}, Choice(N, s) = Of(k)
        PROVE  UNION {Of(l) : l \in first} = Choice(N, s)
    BY <2>4
  <2>5. CASE Of(1) # {}
    <3>1. first = {1}
      BY <2>2, <2>3, <2>5
    <3>2. Choice(N, s) = Of(1)
      BY <2>1, <2>5 DEF Either
    <3> QED BY <2>4, <3>1, <3>2
  <2>6. CASE Of(1) = {} /\ Of(2) # {}
    <3>1. first = {2}
      BY <2>2, <2>3, <2>6
    <3>2. Choice(N, s) = Of(2)
      BY <2>1, <2>6 DEF Either
    <3> QED BY <2>4, <3>1, <3>2
  <2>7. CASE Of(1) = {} /\ Of(2) = {} /\ Of(3) # {}
    <3>1. first = {3}
      BY <2>2, <2>3, <2>7
    <3>2. Choice(N, s) = Of(3)
      BY <2>1, <2>7 DEF Either
    <3> QED BY <2>4, <3>1, <3>2
  <2>8. CASE Of(1) = {} /\ Of(2) = {} /\ Of(3) = {} /\ Of(4) # {}
    <3>1. first = {4}
      BY <2>2, <2>3, <2>8
    <3>2. Choice(N, s) = Of(4)
      BY <2>1, <2>8 DEF Either
    <3> QED BY <2>4, <3>1, <3>2
  <2>9. CASE Of(1) = {} /\ Of(2) = {} /\ Of(3) = {} /\ Of(4) = {} /\ Of(5) # {}
    <3>1. first = {5}
      BY <2>2, <2>3, <2>9
    <3>2. Choice(N, s) = Of(5)
      BY <2>1, <2>9 DEF Either
    <3> QED BY <2>4, <3>1, <3>2
  <2>10. CASE Of(1) = {} /\ Of(2) = {} /\ Of(3) = {} /\ Of(4) = {} /\ Of(5) = {}
    <3>1. first = {}
      BY <2>2, <2>3, <2>10
    <3>2. Choice(N, s) = {}
      BY <2>1, <2>10 DEF Either
    <3>3. UNION {Of(l) : l \in first} = {}
      BY <3>1
    <3> QED BY <3>2, <3>3
  <2> QED BY <2>5, <2>6, <2>7, <2>8, <2>9, <2>10
<1>7. Set = Chosen(N, s)
  BY <1>4, <1>6 DEF Chosen
<1>8. \A j : Before(j) <=> Precedes(N, s, j, i)
  BY <1>4 DEF Precedes, InDocumentOrder
<1> HIDE DEF Set, Before
<1>9. {j \in Set : Before(j)} = {j \in Chosen(N, s) : Precedes(N, s, j, i)}
  BY <1>7, <1>8
<1> QED BY <1>1, <1>7, <1>9

\* What FindOne returns of a hierarchy's nodes.
FindIn(N, s) == LET found == CompileSelector(N, s) IN IF found = <<>> THEN <<>> ELSE <<found[1]>>
MeantNodes(N, s) == {N[i] : i \in {i \in DOMAIN N : Meant(N, s, i)}}

LEMMA ChosenPlaces ==
    ASSUME NEW N, N \in Seq(ToSet(N)), NEW s
    PROVE  /\ Chosen(N, s) \in SUBSET DOMAIN N
           /\ CompileSelector(N, s) = IF InDocumentOrder(s) THEN Positioned(Picked(N, Chosen(N, s)), s)
                                      ELSE Ranked(Picked(N, Chosen(N, s)))
<1>1. Broadened(N, s) = Picked(N, Choice(N, s)) /\ Choice(N, s) \in SUBSET DOMAIN N
  BY Chain
<1>2. Tries(s) = <<>> <=> ~Asked(s)
  BY Chain
<1>3. Admitted(N, s) = Picked(N, {j \in DOMAIN N : Constrained(N[j], s)})
  <2> DEFINE those == {n \in ToSet(N) : Constrained(n, s)}
             K == {j \in DOMAIN N : Constrained(N[j], s)}
  <2>1. K = {i \in DOMAIN N : N[i] \in those}
    BY DEF ToSet
  <2>2. Admitted(N, s) = Keep(N, those)
    BY DEF Admitted
  <2> HIDE DEF those, K
  <2>3. Admitted(N, s) = Picked(N, K)
    BY <2>1, <2>2, KeepsPicked
  <2> QED BY <2>3 DEF K
<1>4. CASE ~Asked(s)
  BY <1>2, <1>3, <1>4 DEF CompileSelector, Chosen, InDocumentOrder
<1>5. CASE Asked(s)
  BY <1>1, <1>2, <1>5 DEF CompileSelector, Chosen, InDocumentOrder
<1> QED BY <1>4, <1>5

\* The element found by its place among the matches.
LEMMA ExactInPlace ==
    ASSUME NEW N, N \in Seq(ToSet(N)), NEW s, Place(s) \in Int, InDocumentOrder(s)
    PROVE  /\ ToSet(FindIn(N, s)) = MeantNodes(N, s)
           /\ ~Given(s, "nth") => (FindIn(N, s) = <<>> <=> Chosen(N, s) = {})
<1> DEFINE C == Chosen(N, s)
           P == Picked(N, C)
           m == Place(s)
           those == {N[i] : i \in {i \in C : Cardinality({j \in C : j < i}) = m}}
<1>1. C \in SUBSET DOMAIN N /\ CompileSelector(N, s) = Positioned(P, s)
  BY ChosenPlaces
<1>2. IF m + 1 \in DOMAIN P THEN those = {P[m + 1]} ELSE those = {}
  <2> HIDE DEF C, m
  <2> QED BY <1>1, PickedAt DEF m
<1>3. /\ Cardinality(C) \in Nat /\ DOMAIN P = 1..Cardinality(C) /\ (P = <<>> <=> C = {})
      /\ P \in Seq(ToSet(N)) /\ Len(P) = Cardinality(C)
  <2> HIDE DEF C
  <2> QED BY <1>1, PickedOnce
<1>4. MeantNodes(N, s) = those
  <2>1. ASSUME NEW i
        PROVE  Meant(N, s, i) <=> i \in C /\ Cardinality({j \in C : j < i}) = m
    <3>1. {j \in C : Precedes(N, s, j, i)} = {j \in C : j < i}
      BY DEF Precedes
    <3> QED BY <3>1, MeaningOf
  <2> HIDE DEF C, m
  <2>2. {i \in DOMAIN N : Meant(N, s, i)} = {i \in C : Cardinality({j \in C : j < i}) = m}
    BY <1>1, <2>1
  <2> QED BY <2>2 DEF MeantNodes
<1> HIDE DEF C, P, those, m
<1>5. CASE Given(s, "nth")
  <2>1. CompileSelector(N, s) = IF m + 1 \in DOMAIN P THEN <<P[m + 1]>> ELSE <<>>
    BY <1>1, <1>5 DEF Positioned, Nth, Place, m
  <2>2. FindIn(N, s) = IF m + 1 \in DOMAIN P THEN <<P[m + 1]>> ELSE <<>>
    BY <2>1 DEF FindIn
  <2>3. \A x : ToSet(<<x>>) = {x}
    BY DEF ToSet
  <2>4. ToSet(<<>>) = {}
    BY DEF ToSet
  <2> QED BY <1>2, <1>4, <1>5, <2>2, <2>3, <2>4
<1>6. CASE ~Given(s, "nth")
  <2>1. CompileSelector(N, s) = P /\ m = 0
    BY <1>1, <1>6 DEF Positioned, Place, m
  <2>2. 1 \in DOMAIN P <=> P # <<>>
    BY <1>3
  <2>3. FindIn(N, s) = IF P = <<>> THEN <<>> ELSE <<P[1]>>
    BY <2>1 DEF FindIn
  <2>4. \A x : ToSet(<<x>>) = {x} /\ <<x>> # <<>>
    BY DEF ToSet
  <2>5. ToSet(<<>>) = {}
    BY DEF ToSet
  <2>6. m + 1 = 1
    BY <2>1
  <2> QED BY <1>2, <1>3, <1>4, <2>2, <2>3, <2>4, <2>5, <2>6 DEF C
<1> QED BY <1>5, <1>6

\* The element found as the one that reacts best.
LEMMA ExactByRank ==
    ASSUME NEW N, N \in Seq(ToSet(N)), NEW s, ~InDocumentOrder(s)
    PROVE  /\ ToSet(FindIn(N, s)) = MeantNodes(N, s)
           /\ FindIn(N, s) = <<>> <=> Chosen(N, s) = {}
<1> DEFINE C == Chosen(N, s)
           P == Picked(N, C)
           Ahead(i) == {j \in C : Precedes(N, s, j, i)}
<1>1. C \in SUBSET DOMAIN N /\ CompileSelector(N, s) = Ranked(P)
  BY ChosenPlaces
<1>2. \A i, j : Precedes(N, s, j, i) <=>
                Score(N[j]) > Score(N[i]) \/ (Score(N[j]) = Score(N[i]) /\ j < i)
  BY DEF Precedes
<1>3. \A i : Meant(N, s, i) <=> i \in C /\ Cardinality(Ahead(i)) = 0
  BY MeaningOf DEF Place, InDocumentOrder
<1> HIDE DEF C
<1>4. /\ P \in Seq(ToSet(N)) /\ (P = <<>> <=> C = {})
      /\ \A i \in C : Rank(C, i) \in DOMAIN P /\ P[Rank(C, i)] = N[i]
      /\ \A k \in DOMAIN P : \E i \in C : Rank(C, i) = k
      /\ \A i, j \in C : i < j <=> Rank(C, i) < Rank(C, j)
  BY <1>1, PickedOnce
<1>5. \A i : Cardinality(Ahead(i)) = 0 <=> Ahead(i) = {}
  <2>1. IsFiniteSet(C)
    <3>1. Len(N) \in Nat /\ C \in SUBSET (1..Len(N))
      BY <1>1
    <3> QED BY <3>1, RankSteps
  <2>2. \A i : IsFiniteSet(Ahead(i))
    BY <2>1, FS_Subset
  <2> HIDE DEF Ahead
  <2> QED BY <2>2, FS_EmptySet
<1>6. \A i : i \in C => i \in DOMAIN N /\ i \in Nat
  BY <1>1
<1>7. \A node : Score(node) \in Nat
  BY Scores
<1>8. P \in Seq(ToSet(P))
  <2>1. \A k \in DOMAIN P : P[k] \in ToSet(P)
    BY DEF ToSet
  <2> QED BY <1>4, <2>1
<1> HIDE DEF P
<1>9. CASE C = {}
  <2>1. FindIn(N, s) = <<>>
    BY <1>1, <1>4, <1>8, <1>9, RankedFirst DEF FindIn
  <2>2. ToSet(<<>>) = {}
    BY DEF ToSet
  <2>3. MeantNodes(N, s) = {}
    BY <1>3, <1>9 DEF MeantNodes
  <2> QED BY <1>9, <2>1, <2>2, <2>3 DEF C
<1>10. CASE C # {}
  <2>1. PICK p \in DOMAIN P : Ranked(P)[1] = P[p] /\ Best(P, p)
    BY <1>4, <1>8, <1>10, RankedFirst
  <2>2. FindIn(N, s) = <<P[p]>>
    BY <1>1, <1>4, <1>8, <1>10, <2>1, RankedFirst DEF FindIn
  <2>3. PICK i \in C : Rank(C, i) = p /\ N[i] = P[p]
    BY <1>4, <2>1
  <2>4. ASSUME NEW j \in C
        PROVE  Score(N[j]) < Score(N[i]) \/ (Score(N[j]) = Score(N[i]) /\ i <= j)
    <3>1. PICK q \in DOMAIN P : q = Rank(C, j) /\ P[q] = N[j]
      BY <1>4
    <3>2. Score(P[q]) < Score(P[p]) \/ (Score(P[q]) = Score(P[p]) /\ p <= q)
      BY <2>1 DEF Best
    <3>3. p <= q => i <= j
      <4>1. i \in Nat /\ j \in Nat
        BY <1>6
      <4>2. DOMAIN P \subseteq Nat
        BY <1>8
      <4>3. p \in Nat /\ q \in Nat
        BY <4>2
      <4>4. j < i <=> q < p
        BY <1>4, <2>3, <3>1
      <4> QED BY <4>1, <4>3, <4>4
    <3> QED BY <2>3, <3>1, <3>2, <3>3
  <2>5. Ahead(i) = {}
    <3>1. ASSUME NEW j \in C
          PROVE  ~Precedes(N, s, j, i)
      <4>1. i \in Nat /\ j \in Nat /\ Score(N[i]) \in Nat /\ Score(N[j]) \in Nat
        BY <1>6, <1>7
      <4> QED BY <1>2, <2>4, <4>1
    <3> QED BY <3>1
  <2>6. Meant(N, s, i) /\ i \in DOMAIN N
    BY <1>3, <1>5, <1>6, <2>5
  <2>7. ASSUME NEW j, Meant(N, s, j)
        PROVE  N[j] = N[i]
    <3>1. j \in C /\ Ahead(j) = {}
      BY <1>3, <1>5, <2>7
    <3>2. ~Precedes(N, s, i, j)
      BY <3>1
    <3>3. i \in Nat /\ j \in Nat /\ Score(N[i]) \in Nat /\ Score(N[j]) \in Nat
      BY <1>6, <1>7, <3>1
    <3>4. j = i
      BY <1>2, <2>4, <3>1, <3>2, <3>3
    <3> QED BY <3>4
  <2>8. MeantNodes(N, s) = {N[i]}
    BY <2>6, <2>7 DEF MeantNodes
  <2>9. ToSet(<<P[p]>>) = {P[p]} /\ <<P[p]>> # <<>>
    BY DEF ToSet
  <2> QED BY <1>10, <2>2, <2>3, <2>8, <2>9 DEF C
<1> QED BY <1>9, <1>10

LEMMA Exact ==
    ASSUME NEW N, N \in Seq(ToSet(N)), NEW s, Given(s, "nth") => Get(s, "nth")[2] \in Int
    PROVE  /\ ToSet(FindIn(N, s)) = MeantNodes(N, s)
           /\ ~Given(s, "nth") => (FindIn(N, s) = <<>> <=> Chosen(N, s) = {})
<1>1. Place(s) \in Int
  BY DEF Place
<1> QED BY <1>1, ExactInPlace, ExactByRank

-----------------------------------------------------------------------------
(* The three ways of writing a selector.                                    *)

\* The text stands in for a label that is not given.
Mirrored(s, t) ==
    /\ \A key : key # "label" => Get(t, key) = Get(s, key)
    /\ Get(s, "label") = Nil /\ Get(t, "label") = Get(s, "text")

LEMMA MirroredFindsAlike ==
    ASSUME NEW N, NEW s, NEW t, Mirrored(s, t)
    PROVE  Chosen(N, s) = {} <=> Chosen(N, t) = {}
<1> DEFINE F == {"id", "text", "value", "hint"}
<1>1. /\ \A field : field # "label" => (Given(s, field) <=> Given(t, field))
      /\ ~Given(s, "label") /\ (Given(t, "label") <=> Given(s, "text"))
  BY DEF Mirrored, Given
<1>2. \A n : Constrained(n, s) <=> Constrained(n, t)
  BY <1>1 DEF Mirrored, Constrained, States
<1>3. \A key : \A field \in F : Eligible(N, s, key, field) = Eligible(N, t, key, field)
  BY <1>1, <1>2 DEF Mirrored, Eligible
<1>4. Eligible(N, s, "label", "label") = {}
  BY <1>1, EligibleMatch
<1>5. Eligible(N, t, "label", "label") = Eligible(N, s, "label", "text")
  BY <1>1, <1>2 DEF Mirrored, Eligible
<1>6. Asked(s) <=> Asked(t)
  BY <1>1 DEF Asked
<1>7. CASE ~Asked(s)
  BY <1>2, <1>6, <1>7 DEF Chosen
<1>8. CASE Asked(s)
  <2> DEFINE id == Eligible(N, s, "id", "id")
             text == Eligible(N, s, "text", "text")
             byLabel == Eligible(N, s, "label", "text")
             value == Eligible(N, s, "value", "value")
             hint == Eligible(N, s, "hint", "hint")
  <2>1. Chosen(N, s) = Either(Either(Either(Either(Either(id, {}), text), byLabel), value), hint)
    BY <1>1, <1>4, <1>8 DEF Chosen, Choice
  <2>2. ~Given(s, "text") => byLabel = {}
    BY EligibleMatch
  <2>3. Chosen(N, t) = Either(Either(Either(Either(Either(id, byLabel), text),
                           IF Given(t, "label") THEN {} ELSE byLabel), value), hint)
    BY <1>3, <1>5, <1>6, <1>8 DEF Chosen, Choice
  <2> HIDE DEF id, text, byLabel, value, hint
  <2> QED BY <1>1, <2>1, <2>2, <2>3 DEF Either
<1> QED BY <1>7, <1>8

\* expandSelectorShorthand keeps a mapping or mirrors its text.
LEMMA SelectorOfMap ==
    ASSUME NEW v, IsA(v, "map"), v[2] \in Seq(ToSet(v[2])), KeysOnce(v), Selector(v) # Error,
           ~IsA(Get(v, "nth"), "inf")
    PROVE  Selector(v) = v \/ Mirrored(v, Selector(v))
<1> DEFINE new == <<"label", Get(v, "text")>>
           t == Map(Append(v[2], new))
<1>1. SelectorFields(v) \in {v, Error}
  BY DEF SelectorFields
<1>2. Selector(v) = IF SelectorFields(v) # Error /\ "text" \in Keys(v) /\ "label" \notin Keys(v)
                    THEN t ELSE SelectorFields(v)
  <2>1. ~IsA(v, "str")
    BY DEF IsA
  <2>2. Selector(v) = IF SelectorFields(v) # Error /\ "text" \in Keys(v) /\ "label" \notin Keys(v)
                      THEN Map(Append(SelectorFields(v)[2], new)) ELSE SelectorFields(v)
    BY <2>1, Zenon DEF Selector
  <2> QED BY <1>1, <2>2
<1>3. Entries(v) = v[2] /\ Entries(t) = Append(v[2], new)
  BY DEF Entries, IsA, Map
<1> HIDE DEF t
<1>4. ToSet(Entries(t)) = ToSet(Entries(v)) \cup {new}
  <2> DEFINE e == v[2]
             n == Len(e)
  <2>1. n \in Nat /\ DOMAIN e = 1..n
    OBVIOUS
  <2> HIDE DEF new
  <2>2. DOMAIN Append(e, new) = 1..n + 1
    OBVIOUS
  <2>3. \A i \in 1..n : Append(e, new)[i] = e[i]
    OBVIOUS
  <2>4. Append(e, new)[n + 1] = new
    OBVIOUS
  <2>5. \A i \in 1..n + 1 : i \in 1..n \/ i = n + 1
    BY <2>1
  <2>6. n + 1 \in 1..n + 1 /\ \A i \in 1..n : i \in 1..n + 1
    BY <2>1
  <2> HIDE DEF e, n
  <2> QED BY <1>3, <2>1, <2>2, <2>3, <2>4, <2>5, <2>6 DEF ToSet, e
<1>5. ASSUME "label" \notin Keys(v)
      PROVE  Mirrored(v, t)
  <2>1. \A d \in ToSet(Entries(v)) : d[1] # "label"
    BY <1>5 DEF Keys
  <2>2. new[1] = "label" /\ new[2] = Get(v, "text")
    OBVIOUS
  <2> HIDE DEF new
  <2>3. Get(t, "label") = Get(v, "text")
    <3>1. \A d \in ToSet(Entries(t)) : d[1] = new[1] => d = new
      BY <1>4, <2>1, <2>2
    <3>2. new \in ToSet(Entries(t))
      BY <1>4
    <3> QED BY <2>2, <3>1, <3>2, GetEntry
  <2>4. Get(v, "label") = Nil
    BY <1>5 DEF Get
  <2>5. ASSUME NEW key, key # "label"
        PROVE  Get(t, key) = Get(v, key)
    <3>1. CASE key \in Keys(v)
      <4>1. PICK e \in ToSet(Entries(v)) : e[1] = key
        BY <3>1 DEF Keys
      <4>2. \A d \in ToSet(Entries(v)) : d[1] = e[1] => d = e
        BY DEF KeysOnce
      <4>3. \A d \in ToSet(Entries(t)) : d[1] = e[1] => d = e
        BY <1>4, <2>2, <2>5, <4>1, <4>2
      <4>4. e \in ToSet(Entries(t))
        BY <1>4
      <4>5. Get(v, e[1]) = e[2]
        BY <4>2, GetEntry
      <4>6. Get(t, e[1]) = e[2]
        BY <4>3, <4>4, GetEntry
      <4> QED BY <4>1, <4>5, <4>6
    <3>2. CASE key \notin Keys(v)
      <4>1. key \notin Keys(t)
        BY <1>4, <2>2, <2>5, <3>2 DEF Keys
      <4> QED BY <3>2, <4>1 DEF Get
    <3> QED BY <3>1, <3>2
  <2> QED BY <2>3, <2>4, <2>5 DEF Mirrored
<1> QED BY <1>1, <1>2, <1>5

LookupAnswered ==
    kind = "lookup"
      => /\ source \in Lookups
         /\ stage \in {"found", "foundByTool"} => result.tool = Found(AsTool)
         /\ stage = "found" => AsStep # Error /\ result.step = Found(AsStep)
         /\ stage = "found" => result.condition = Found(ConditionSelector(source.selector))

LEMMA LookupsAnswered == QuerySpec => []LookupAnswered
<1>1. QueryInit => LookupAnswered
  BY DEF QueryInit, LookupAnswered
<1>2. LookupAnswered /\ [QueryNext]_queryVars => LookupAnswered'
  <2> SUFFICES ASSUME LookupAnswered, [QueryNext]_queryVars
               PROVE  LookupAnswered'
    OBVIOUS
  <2>1. CASE AssertResponse
    BY <2>1 DEF AssertResponse, Question, Answer, LookupAnswered
  <2>2. CASE LookUp
    BY <2>2 DEF LookUp, Question, Answer, LookupAnswered, Found, AsTool, AsStep
  <2>3. CASE LookUpByTool
    BY <2>3 DEF LookUpByTool, Question, Answer, LookupAnswered, Found, AsTool, AsStep
  <2>4. CASE UNCHANGED queryVars
    BY <2>4 DEF queryVars, LookupAnswered, Found, AsTool, AsStep
  <2> QED BY <2>1, <2>2, <2>3, <2>4 DEF QueryNext
<1> QED BY <1>1, <1>2, PTL DEF QuerySpec

\* Every lookup returns what its selector means, and the three ways of writing a
\* selector find something or nothing together (CompileSelector, FindOne,
\* expandSelectorShorthand, toScriptSelector).
THEOREM LookupsExact == QuerySpec => []LookupExact
<1>1. LookupAnswered => LookupExact
  <2> SUFFICES ASSUME LookupAnswered, kind = "lookup", stage \in {"found", "foundByTool"}
               PROVE  LookupExact
    BY DEF LookupExact
  <2> DEFINE N == Walk(source.tree)
             v == source.selector
             c == ConditionSelector(v)
  <2>1. source \in Lookups
    BY DEF LookupAnswered
  <2>2. N \in Seq(ToSet(N))
    BY <2>1, LookupShape
  <2>3. \A s : Found(s) = FindIn(N, s)
    BY DEF Found, FindOne, FindIn
  <2>4. result.tool = FindIn(N, AsTool)
    BY <2>3 DEF LookupAnswered
  <2>5. stage = "found" => AsStep # Error /\ result.step = FindIn(N, AsStep) /\ result.condition = FindIn(N, c)
    BY <2>3 DEF LookupAnswered
  <2>6. ASSUME ToSet(result.tool) = MeantNodes(N, AsTool),
               stage = "found" => ToSet(result.step) = MeantNodes(N, AsStep),
               stage = "found" /\ ~Given(AsTool, "nth") =>
                   (result.step = <<>> <=> result.condition = <<>>) /\ (result.step = <<>> <=> result.tool = <<>>)
        PROVE  LookupExact
    BY <2>6 DEF LookupExact, MeantNodes
  <2> HIDE DEF N
  <2>7. CASE IsA(v, "str")
    <3> DEFINE s == Map(<<<<"text", v>>, <<"label", v>>>>)
    <3>1. AsTool = s /\ AsStep = s /\ c = s
      BY <2>7, Zenon DEF AsTool, AsStep, ConditionSelector, Selector, IsA
    <3>2. Get(s, "nth") = Nil
      BY TwoEntries
    <3> HIDE DEF s, c
    <3>3. ~Given(s, "nth")
      BY <3>2 DEF Given
    <3>4. ToSet(FindIn(N, s)) = MeantNodes(N, s)
      BY <2>2, <3>3, Exact
    <3> QED BY <2>4, <2>5, <2>6, <3>1, <3>4
  <2>8. CASE /\ IsA(v, "map") /\ v[2] \in Seq(ToSet(v[2])) /\ KeysOnce(v)
             /\ LET nth == Get(v, "nth") IN nth # Nil => IsA(nth, "int") /\ nth[2] \in Int
    <3>1. ~IsA(v, "str") /\ ~IsA(Get(v, "nth"), "inf") /\ (Given(v, "nth") => Get(v, "nth")[2] \in Int)
      BY <2>8 DEF IsA, Nil, Given
    <3>2. AsTool = v /\ c = v /\ AsStep = Selector(v)
      BY <3>1 DEF AsTool, AsStep, ConditionSelector
    <3> DEFINE t == Selector(v)
    <3> HIDE DEF c
    <3>3. /\ ToSet(FindIn(N, v)) = MeantNodes(N, v)
          /\ ~Given(v, "nth") => (FindIn(N, v) = <<>> <=> Chosen(N, v) = {})
      BY <2>2, <3>1, Exact
    <3>4. CASE stage # "found"
      BY <2>4, <2>6, <3>2, <3>3, <3>4
    <3>5. CASE stage = "found"
      <4>1. t = v \/ Mirrored(v, t)
        BY <2>5, <2>8, <3>1, <3>2, <3>5, SelectorOfMap
      <4> HIDE DEF t
      <4>2. Get(t, "nth") = Get(v, "nth")
        BY <4>1 DEF Mirrored
      <4>3. /\ ToSet(FindIn(N, t)) = MeantNodes(N, t)
            /\ ~Given(v, "nth") => (FindIn(N, t) = <<>> <=> Chosen(N, t) = {})
        BY <2>2, <3>1, <4>2, Exact DEF Given
      <4>4. Chosen(N, v) = {} <=> Chosen(N, t) = {}
        BY <4>1, MirroredFindsAlike
      <4> QED BY <2>4, <2>5, <2>6, <3>2, <3>3, <3>5, <4>3, <4>4 DEF t
    <3> QED BY <3>4, <3>5
  <2> QED BY <2>1, <2>7, <2>8, LookupShape
<1> QED BY <1>1, LookupsAnswered, PTL

-----------------------------------------------------------------------------
(* Loops.                                                                   *)

\* What holds at 0, and at i + 1 where it holds at i, holds up to n.
LEMMA Upwards ==
    ASSUME NEW n \in Nat, NEW S, 0 \in S,
           \A i \in 0..n : i \in S /\ i + 1 <= n => i + 1 \in S
    PROVE  \A i \in 0..n : i \in S
<1> DEFINE Missing == {i \in Nat : i <= n /\ i \notin S}
<1> SUFFICES ASSUME Missing # {}
             PROVE  FALSE
  OBVIOUS
<1>1. PICK m \in Missing : \A k \in Missing : m <= k
  <2>1. Missing \in SUBSET Nat
    OBVIOUS
  <2> HIDE DEF Missing
  <2> QED BY <2>1, LeastOf
<1>2. m \in Nat /\ m <= n /\ m \notin S /\ m # 0
  BY <1>1
<1>3. PICK j \in Nat : j + 1 = m
  <2>1. m - 1 \in Nat /\ (m - 1) + 1 = m
    BY <1>2
  <2> QED BY <2>1
<1>4. j \in 0..n /\ ~(m <= j)
  BY <1>2, <1>3
<1>5. j \in S
  BY <1>1, <1>4
<1> QED BY <1>2, <1>3, <1>4, <1>5

\* A loop over 1..n whose every step is a function from S to S has its states.
LEMMA Loop ==
    ASSUME NEW S, NEW b \in S, NEW n \in Nat, NEW step \in [1..n -> [S -> S]]
    PROVE  \E f \in [0..n -> S] : f[0] = b /\ \A i \in 1..n : f[i] = step[i][f[i - 1]]
<1> DEFINE Starts(f, m) == f[0] = b /\ \A i \in 1..m : f[i] = step[i][f[i - 1]]
           T == {m \in 0..n : \E f \in [0..m -> S] : Starts(f, m)}
<1>1. 0 \in T
  <2> DEFINE g == [i \in 0..0 |-> b]
  <2>1. g \in [0..0 -> S] /\ g[0] = b /\ 0 \in 0..n /\ 1..0 = {}
    OBVIOUS
  <2> HIDE DEF g
  <2>2. Starts(g, 0)
    BY <2>1
  <2> HIDE DEF Starts
  <2> QED BY <2>1, <2>2
<1>2. ASSUME NEW m \in 0..n, m \in T, m + 1 <= n
      PROVE  m + 1 \in T
  <2>1. PICK f \in [0..m -> S] : Starts(f, m)
    BY <1>2
  <2> DEFINE g == [i \in 0..(m + 1) |-> IF i = m + 1 THEN step[m + 1][f[m]] ELSE f[i]]
  <2>2. step[m + 1][f[m]] \in S
    BY <1>2
  <2>3. g \in [0..(m + 1) -> S]
    BY <2>2
  <2>4. g[0] = b
    BY <2>1
  <2>5. ASSUME NEW i \in 1..(m + 1)
        PROVE  g[i] = step[i][g[i - 1]]
    <3>1. CASE i = m + 1
      <4>1. i - 1 = m /\ g[i - 1] = f[m]
        BY <3>1
      <4> QED BY <3>1, <4>1
    <3>2. CASE i # m + 1
      <4>1. i \in 1..m /\ i - 1 \in 0..m
        BY <3>2
      <4>2. g[i] = f[i] /\ g[i - 1] = f[i - 1]
        BY <4>1
      <4> QED BY <2>1, <4>1, <4>2
    <3> QED BY <3>1, <3>2
  <2> HIDE DEF g
  <2>6. Starts(g, m + 1)
    BY <2>4, <2>5
  <2>7. m + 1 \in 0..n
    BY <1>2
  <2> HIDE DEF Starts
  <2> QED BY <2>3, <2>6, <2>7
<1> HIDE DEF T
<1>3. n \in T
  <2>1. \A i \in 0..n : i \in T
    BY <1>1, <1>2, Upwards
  <2> QED BY <2>1
<1> QED BY <1>3 DEF T

-----------------------------------------------------------------------------
(* Traces.                                                                  *)

IsTrace(trace, P) ==
    trace \in Seq([to : {<<>>} \cup {<<p>> : p \in P}, ms : Int])
Fingers(P) == [places : Seq(P), rest : Int]
Start == [places |-> <<>>, rest |-> 0]

\* A finger has its places among those of its trace, and rests for a natural time.
LEMMA OnwardType ==
    ASSUME NEW P, NEW f \in Fingers(P), NEW e \in [to : {<<>>} \cup {<<p>> : p \in P}, ms : Int]
    PROVE  Onward(f, e) \in Fingers(P)
<1> DEFINE places == IF e.to = <<>> \/ (f.places # <<>> /\ Last(f.places) = e.to[1]) THEN f.places
                     ELSE Append(f.places, e.to[1])
<1>1. places \in Seq(P)
  <2>1. CASE e.to = <<>>
    BY <2>1 DEF Fingers
  <2>2. CASE e.to # <<>>
    <3>1. PICK p \in P : e.to = <<p>>
      BY <2>2
    <3>2. e.to[1] = p
      BY <3>1
    <3> QED BY <3>2 DEF Fingers
  <2> QED BY <2>1, <2>2
<1>2. Onward(f, e) = [places |-> places, rest |-> IF Len(places) > 1 THEN f.rest ELSE f.rest + e.ms]
  BY DEF Onward
<1> HIDE DEF places
<1> QED BY <1>1, <1>2 DEF Fingers

\* Followed takes the events of a trace one after the other.
LEMMA FollowedSteps ==
    ASSUME NEW P, NEW trace, IsTrace(trace, P)
    PROVE  \E f \in [0..Len(trace) -> Fingers(P)] :
             /\ f[0] = Start
             /\ \A i \in 1..Len(trace) : f[i] = Onward(f[i - 1], trace[i])
             /\ Followed(trace) = f[Len(trace)]
<1> DEFINE n == Len(trace)
           S == Fingers(P)
           step == [i \in 1..n |-> [x \in S |-> Onward(x, trace[i])]]
           Is(f) == f = [i \in 0..n |-> IF i = 0 THEN Start ELSE Onward(f[i - 1], trace[i])]
<1>1. n \in Nat /\ \A i \in 1..n : trace[i] \in [to : {<<>>} \cup {<<p>> : p \in P}, ms : Int]
  <2> DEFINE E == [to : {<<>>} \cup {<<p>> : p \in P}, ms : Int]
  <2>1. trace \in Seq(E)
    BY DEF IsTrace
  <2> HIDE DEF E
  <2>2. Len(trace) \in Nat /\ \A i \in 1..Len(trace) : trace[i] \in E
    BY <2>1
  <2> QED BY <2>2 DEF E
<1>2. Start \in S
  BY DEF Start, Fingers
<1>3. step \in [1..n -> [S -> S]]
  <2>1. \A i \in 1..n, x \in S : Onward(x, trace[i]) \in S
    BY <1>1, OnwardType
  <2> QED BY <2>1
<1>4. PICK g \in [0..n -> S] : g[0] = Start /\ \A i \in 1..n : g[i] = step[i][g[i - 1]]
  <2>1. n \in Nat
    BY <1>1
  <2> HIDE DEF n, S, step
  <2> QED BY <1>2, <1>3, <2>1, Loop
<1>5. \A i \in 1..n : g[i] = Onward(g[i - 1], trace[i])
  <2>1. \A i \in 1..n : i - 1 \in 0..n /\ g[i - 1] \in S
    BY <1>1, <1>4
  <2> HIDE DEF n, S
  <2> QED BY <1>4, <2>1
<1>6. Is(g)
  <2>1. \A i \in 0..n : i = 0 \/ i \in 1..n
    BY <1>1
  <2> HIDE DEF n, step
  <2>2. \A i \in 0..n : g[i] = IF i = 0 THEN Start ELSE Onward(g[i - 1], trace[i])
    BY <1>4, <1>5, <2>1
  <2> QED BY <1>4, <2>2
<1> DEFINE f == CHOOSE f : Is(f)
<1>7. Is(f)
  BY <1>6
<1>8. Followed(trace) = f[n]
  BY DEF Followed, Start
<1> HIDE DEF f
<1>9. f[0] = Start /\ \A i \in 1..n : f[i] = Onward(f[i - 1], trace[i])
  <2>1. 0 \in 0..n /\ \A i \in 1..n : i \in 0..n /\ i # 0
    BY <1>1
  <2> HIDE DEF n
  <2> QED BY <1>7, <2>1
<1>10. f = g
  <2> DEFINE A == {i \in 0..n : f[i] = g[i]}
  <2>1. 0 \in A
    BY <1>1, <1>4, <1>9
  <2>2. ASSUME NEW i \in 0..n, i \in A, i + 1 <= n
        PROVE  i + 1 \in A
    <3>1. i + 1 \in 1..n /\ (i + 1) - 1 = i
      BY <1>1, <2>2
    <3> HIDE DEF n
    <3>2. f[i + 1] = Onward(f[i], trace[i + 1]) /\ g[i + 1] = Onward(g[i], trace[i + 1])
      BY <1>5, <1>9, <3>1
    <3> QED BY <2>2, <3>1, <3>2
  <2>3. \A i \in 0..n : i \in A
    <3> HIDE DEF A, n
    <3> QED BY <1>1, <2>1, <2>2, Upwards
  <2> HIDE DEF n
  <2> QED BY <1>4, <1>7, <2>3
<1> QED BY <1>4, <1>5, <1>8, <1>10

\* A finger that goes to a place ends there; to go where it is, is to stay.
LEMMA OnwardTo ==
    ASSUME NEW P, NEW f \in Fingers(P), NEW p \in P, NEW ms \in Int
    PROVE  /\ Onward(f, GoTo(p, ms)) \in Fingers(P) /\ Onward(f, Stay(ms)) \in Fingers(P)
           /\ Onward(f, GoTo(p, ms)).places # <<>> /\ Last(Onward(f, GoTo(p, ms)).places) = p
           /\ Onward(f, Stay(ms)).places = f.places
           /\ f.places # <<>> /\ Last(f.places) = p => Onward(f, GoTo(p, ms)) = Onward(f, Stay(ms))
<1>1. GoTo(p, ms) \in [to : {<<>>} \cup {<<q>> : q \in P}, ms : Int] /\ GoTo(p, ms).to = <<p>>
      /\ GoTo(p, ms).to # <<>> /\ GoTo(p, ms).to[1] = p /\ GoTo(p, ms).ms = ms
  BY DEF GoTo
<1>2. Stay(ms) \in [to : {<<>>} \cup {<<q>> : q \in P}, ms : Int] /\ Stay(ms).to = <<>> /\ Stay(ms).ms = ms
  BY DEF Stay
<1>3. Onward(f, GoTo(p, ms)) \in Fingers(P) /\ Onward(f, Stay(ms)) \in Fingers(P)
  <2> DEFINE E == [to : {<<>>} \cup {<<q>> : q \in P}, ms : Int]
  <2>1. GoTo(p, ms) \in E /\ Stay(ms) \in E
    BY <1>1, <1>2
  <2>2. \A e \in E : Onward(f, e) \in Fingers(P)
    BY OnwardType
  <2> HIDE DEF E
  <2> QED BY <2>1, <2>2
<1> DEFINE here == f.places # <<>> /\ Last(f.places) = p
           places == IF here THEN f.places ELSE Append(f.places, p)
<1>4. Onward(f, GoTo(p, ms)) = [places |-> places, rest |-> IF Len(places) > 1 THEN f.rest ELSE f.rest + ms]
  BY <1>1 DEF Onward
<1>5. Onward(f, Stay(ms)) = [places |-> f.places, rest |-> IF Len(f.places) > 1 THEN f.rest ELSE f.rest + ms]
  BY <1>2 DEF Onward
<1>6. f.places \in Seq(P)
  BY DEF Fingers
<1>7. places # <<>> /\ Last(places) = p
  <2>1. CASE here
    BY <2>1
  <2>2. CASE ~here
    <3>1. Append(f.places, p) # <<>> /\ Len(Append(f.places, p)) = Len(f.places) + 1
          /\ Append(f.places, p)[Len(f.places) + 1] = p
      BY <1>6
    <3> HIDE DEF here
    <3> QED BY <2>2, <3>1 DEF Last
  <2> QED BY <2>1, <2>2
<1>8. here => places = f.places
  OBVIOUS
<1>9. Onward(f, GoTo(p, ms)).places = places /\ Onward(f, Stay(ms)).places = f.places
  BY <1>4, <1>5
<1>10. here => Onward(f, GoTo(p, ms)) = Onward(f, Stay(ms))
  <2> HIDE DEF here, places
  <2> QED BY <1>4, <1>5, <1>8
<1> HIDE DEF places
<1> QED BY <1>3, <1>7, <1>9, <1>10

\* A finger that goes where it is.
LEMMA StayInPlace ==
    ASSUME NEW P, NEW f \in Fingers(P), NEW p \in P, NEW ms \in Int, f.places # <<>>, Last(f.places) = p
    PROVE  Onward(f, GoTo(p, ms)) = Onward(f, Stay(ms)) /\ Onward(f, Stay(ms)).places = f.places
<1> QED BY OnwardTo

\* More time makes the rest longer and leaves the places alone.
LEMMA OnwardLater ==
    ASSUME NEW P, NEW f \in Fingers(P), NEW g \in Fingers(P), f.places = g.places, f.rest <= g.rest,
           NEW to \in {<<>>} \cup {<<q>> : q \in P}, NEW m \in Int, NEW n \in Int, m <= n
    PROVE  LET x == Onward(f, [to |-> to, ms |-> m])
               y == Onward(g, [to |-> to, ms |-> n])
           IN  x.places = y.places /\ x.rest <= y.rest
<1> DEFINE places == IF to = <<>> \/ (f.places # <<>> /\ Last(f.places) = to[1]) THEN f.places
                     ELSE Append(f.places, to[1])
<1>1. Onward(f, [to |-> to, ms |-> m]) = [places |-> places, rest |-> IF Len(places) > 1 THEN f.rest ELSE f.rest + m]
  BY DEF Onward
<1>2. Onward(g, [to |-> to, ms |-> n]) = [places |-> places, rest |-> IF Len(places) > 1 THEN g.rest ELSE g.rest + n]
  BY DEF Onward
<1>3. f.rest \in Int /\ g.rest \in Int
  BY DEF Fingers
<1> HIDE DEF places
<1>4. f.rest + m <= g.rest + n
  BY <1>3
<1>5. (IF Len(places) > 1 THEN f.rest ELSE f.rest + m) <= (IF Len(places) > 1 THEN g.rest ELSE g.rest + n)
  BY <1>4
<1> QED BY <1>1, <1>2, <1>5

\* Traces of up to four.
LEMMA FollowedFew ==
    ASSUME NEW P, NEW trace, IsTrace(trace, P)
    PROVE  /\ Followed(trace) \in Fingers(P)
           /\ Len(trace) = 1 => Followed(trace) = Onward(Start, trace[1])
           /\ Len(trace) = 2 => Followed(trace) = Onward(Onward(Start, trace[1]), trace[2])
           /\ Len(trace) = 3 => Followed(trace) = Onward(Onward(Onward(Start, trace[1]), trace[2]), trace[3])
           /\ Len(trace) = 4 => Followed(trace) = Onward(Onward(Onward(Onward(Start, trace[1]), trace[2]), trace[3]), trace[4])
<1> DEFINE n == Len(trace)
           S == Fingers(P)
<1>1. n \in Nat
  BY DEF IsTrace
<1>2. PICK f \in [0..n -> S] : f[0] = Start /\ (\A i \in 1..n : f[i] = Onward(f[i - 1], trace[i])) /\ Followed(trace) = f[n]
  BY FollowedSteps
<1> HIDE DEF n, S
<1>3. n \in 0..n
  BY <1>1
<1>4. \A i \in Nat : i + 1 <= n => f[i + 1] = Onward(f[i], trace[i + 1])
  <2> SUFFICES ASSUME NEW i \in Nat, i + 1 <= n
               PROVE  f[i + 1] = Onward(f[i], trace[i + 1])
    OBVIOUS
  <2>1. i + 1 \in 1..n /\ (i + 1) - 1 = i
    BY <1>1
  <2> QED BY <1>2, <2>1
<1>5. /\ 1 <= n => f[1] = Onward(f[0], trace[1])
      /\ 2 <= n => f[2] = Onward(f[1], trace[2])
      /\ 3 <= n => f[3] = Onward(f[2], trace[3])
      /\ 4 <= n => f[4] = Onward(f[3], trace[4])
  <2>1. 0 + 1 = 1 /\ 1 + 1 = 2 /\ 2 + 1 = 3 /\ 3 + 1 = 4 /\ 0 \in Nat /\ 1 \in Nat /\ 2 \in Nat /\ 3 \in Nat
    OBVIOUS
  <2> QED BY <1>4, <2>1
<1>6. /\ n = 1 => f[n] = Onward(Start, trace[1])
      /\ n = 2 => f[n] = Onward(Onward(Start, trace[1]), trace[2])
      /\ n = 3 => f[n] = Onward(Onward(Onward(Start, trace[1]), trace[2]), trace[3])
      /\ n = 4 => f[n] = Onward(Onward(Onward(Onward(Start, trace[1]), trace[2]), trace[3]), trace[4])
  BY <1>2, <1>5
<1> QED BY <1>2, <1>3, <1>6 DEF n, S

-----------------------------------------------------------------------------
(* What a sequence of actions says of its finger.                           *)

\* As the rules of a definition leave them.
Shaped(actions) ==
    /\ actions \in Seq(ToSet(actions))
    /\ \A a \in ToSet(actions) : Given(a, "target") = (Kind(a) \in {"down", "move"})
Aimed(a) == PointOf(Get(a, "target"))
PlacesOf(actions) == {Aimed(actions[i]) : i \in DOMAIN actions}
ToldTrace(actions, m) ==
    [i \in DOMAIN actions |-> IF Given(actions[i], "target") THEN GoTo(Aimed(actions[i]), Cost(actions[i], m))
                              ELSE Stay(Cost(actions[i], m))]

\* Well-formed actions begin with a down and end with an up, and only a down and the moves have targets.
LEMMA ShapeOf ==
    ASSUME NEW actions, Shaped(actions), WellFormed(actions)
    PROVE  /\ Len(actions) \in Nat /\ 1 <= Len(actions) /\ DOMAIN actions = 1..Len(actions)
           /\ Given(actions[1], "target") /\ Kind(actions[1]) = "down"
           /\ Kind(actions[Len(actions)]) = "up"
           /\ \A i \in 1..Len(actions) :
                /\ Given(actions[i], "target") <=> Kind(actions[i]) \in {"down", "move"}
                /\ Kind(actions[i]) = "wait" => Ms(actions[i]) \in 0..MaxWaitMs
<1>1. Len(actions) \in Nat /\ DOMAIN actions = 1..Len(actions) /\ actions # <<>>
  BY DEF Shaped, WellFormed
<1>2. 1 <= Len(actions)
  BY <1>1 DEF Shaped
<1>3. \A i \in 1..Len(actions) : actions[i] \in ToSet(actions)
  BY <1>1 DEF ToSet
<1>4. \A i \in 1..Len(actions) : Given(actions[i], "target") <=> Kind(actions[i]) \in {"down", "move"}
  BY <1>3 DEF Shaped
<1>5. Kind(actions[1]) = "down" /\ Kind(actions[Len(actions)]) = "up"
  BY DEF WellFormed, Last
<1>6. \A i \in 1..Len(actions) : Kind(actions[i]) = "wait" => Ms(actions[i]) \in 0..MaxWaitMs
  BY <1>1 DEF WellFormed
<1>7. 1 \in 1..Len(actions)
  BY <1>1, <1>2
<1> QED BY <1>1, <1>2, <1>4, <1>5, <1>6, <1>7

\* No action takes a negative time, and only a move takes longer if moves do.
LEMMA Costs ==
    ASSUME NEW actions, Shaped(actions), WellFormed(actions), NEW m \in Nat, NEW i \in 1..Len(actions)
    PROVE  /\ Cost(actions[i], m) \in Nat
           /\ Cost(actions[i], 0) \in Nat /\ Cost(actions[i], 0) <= Cost(actions[i], m)
           /\ Kind(actions[i]) \in {"down", "up", "capture"} => Cost(actions[i], m) = 0
           /\ Kind(actions[i]) = "wait" => Cost(actions[i], m) = Ms(actions[i])
           /\ Kind(actions[i]) = "move" => Cost(actions[i], m) = m
<1>1. Kind(actions[i]) = "wait" => Ms(actions[i]) \in Nat
  <2>1. Kind(actions[i]) = "wait" => Ms(actions[i]) \in 0..MaxWaitMs
    BY ShapeOf
  <2>2. MaxWaitMs \in Nat
    BY GestureLimits
  <2> QED BY <2>1, <2>2
<1> QED BY <1>1 DEF Cost

\* What a step says of a finger is a trace.
LEMMA ToldTraces ==
    ASSUME NEW actions, Shaped(actions), WellFormed(actions), NEW m \in Nat
    PROVE  /\ IsTrace(ToldTrace(actions, m), PlacesOf(actions))
           /\ Len(ToldTrace(actions, m)) = Len(actions)
           /\ Told(actions, m) = Followed(ToldTrace(actions, m))
<1> DEFINE n == Len(actions)
           P == PlacesOf(actions)
           E == [to : {<<>>} \cup {<<p>> : p \in P}, ms : Int]
           t == ToldTrace(actions, m)
<1>1. n \in Nat /\ DOMAIN actions = 1..n
  BY ShapeOf
<1>2. ASSUME NEW i \in 1..n
      PROVE  t[i] \in E
  <2>1. Cost(actions[i], m) \in Int
    BY Costs
  <2>3. Aimed(actions[i]) \in P
    BY <1>1 DEF PlacesOf
  <2>2. t[i] = IF Given(actions[i], "target") THEN GoTo(Aimed(actions[i]), Cost(actions[i], m))
               ELSE Stay(Cost(actions[i], m))
    BY <1>1 DEF ToldTrace
  <2> HIDE DEF t, P
  <2> QED BY <2>1, <2>2, <2>3 DEF GoTo, Stay
<1>3. DOMAIN t = 1..n
  BY <1>1 DEF ToldTrace
<1>4. t = [i \in 1..n |-> t[i]]
  BY <1>1 DEF ToldTrace
<1>5. Told(actions, m) = Followed(t)
  BY DEF Told, ToldTrace, Aimed
<1>6. t \in Seq(E) /\ Len(t) = n
  <2> HIDE DEF t, E, n
  <2> QED BY <1>1, <1>2, <1>3, <1>4
<1>7. IsTrace(t, P)
  <2> HIDE DEF t
  <2> QED BY <1>6 DEF IsTrace
<1>8. Len(t) = n
  <2> HIDE DEF t, E, n
  <2> QED BY <1>6
<1> QED BY <1>5, <1>7, <1>8

\* The places do not depend on how long a move takes; the rest may.
LEMMA TravelTime ==
    ASSUME NEW actions, Shaped(actions), WellFormed(actions), NEW m \in Nat
    PROVE  /\ Told(actions, m) \in Fingers(PlacesOf(actions)) /\ Told(actions, 0) \in Fingers(PlacesOf(actions))
           /\ Told(actions, m).places = Told(actions, 0).places
           /\ Told(actions, 0).rest <= Told(actions, m).rest
<1> DEFINE n == Len(actions)
           S == Fingers(PlacesOf(actions))
           s == ToldTrace(actions, 0)
           t == ToldTrace(actions, m)
<1>1. n \in Nat /\ DOMAIN actions = 1..n
  BY ShapeOf
<1>2. Len(s) = n /\ Len(t) = n /\ Told(actions, 0) = Followed(s) /\ Told(actions, m) = Followed(t)
  BY ToldTraces
<1>3. PICK f \in [0..n -> S] : f[0] = Start /\ (\A i \in 1..n : f[i] = Onward(f[i - 1], s[i])) /\ Followed(s) = f[n]
  <2>1. IsTrace(s, PlacesOf(actions))
    BY ToldTraces
  <2> HIDE DEF s, n
  <2> QED BY <1>2, <2>1, FollowedSteps DEF S
<1>4. PICK g \in [0..n -> S] : g[0] = Start /\ (\A i \in 1..n : g[i] = Onward(g[i - 1], t[i])) /\ Followed(t) = g[n]
  <2>1. IsTrace(t, PlacesOf(actions))
    BY ToldTraces
  <2> HIDE DEF t, n
  <2> QED BY <1>2, <2>1, FollowedSteps DEF S
<1> DEFINE A == {i \in 0..n : f[i].places = g[i].places /\ f[i].rest <= g[i].rest}
<1>5. 0 \in A
  <2>1. 0 \in 0..n /\ Start.rest <= Start.rest
    BY <1>1 DEF Start
  <2> HIDE DEF n, S
  <2> QED BY <1>3, <1>4, <2>1
<1>6. ASSUME NEW i \in 0..n, i \in A, i + 1 <= n
      PROVE  i + 1 \in A
  <2>1. i + 1 \in 1..n /\ i + 1 \in 0..n /\ (i + 1) - 1 = i
    BY <1>1, <1>6
  <2> DEFINE j == i + 1
             to == IF Given(actions[j], "target") THEN <<Aimed(actions[j])>> ELSE <<>>
  <2>2. Cost(actions[j], 0) \in Int /\ Cost(actions[j], m) \in Int /\ Cost(actions[j], 0) <= Cost(actions[j], m)
    <3>1. j \in 1..Len(actions)
      BY <2>1
    <3> HIDE DEF j, n, s, t, S, A
    <3>2. Cost(actions[j], 0) \in Nat /\ Cost(actions[j], m) \in Nat /\ Cost(actions[j], 0) <= Cost(actions[j], m)
      BY <3>1, Costs
    <3> QED BY <3>2
  <2>3. s[j] = [to |-> to, ms |-> Cost(actions[j], 0)] /\ t[j] = [to |-> to, ms |-> Cost(actions[j], m)]
    BY <1>1, <2>1 DEF ToldTrace, GoTo, Stay
  <2>4. to \in {<<>>} \cup {<<q>> : q \in PlacesOf(actions)}
    BY <1>1, <2>1 DEF PlacesOf
  <2>5. f[j] = Onward(f[i], s[j]) /\ g[j] = Onward(g[i], t[j])
    <3> HIDE DEF s, t, n, S
    <3> QED BY <1>3, <1>4, <2>1
  <2>6. f[i] \in S /\ g[i] \in S /\ f[i].places = g[i].places /\ f[i].rest <= g[i].rest
    <3> HIDE DEF S, n
    <3> QED BY <1>6
  <2> HIDE DEF to, s, t, n, j
  <2>7. f[j].places = g[j].places /\ f[j].rest <= g[j].rest
    BY <2>2, <2>3, <2>4, <2>5, <2>6, OnwardLater DEF S
  <2> HIDE DEF S
  <2> QED BY <2>1, <2>7 DEF j
<1>7. n \in A
  <2> HIDE DEF A, n
  <2>1. \A i \in 0..n : i \in A
    BY <1>1, <1>5, <1>6, Upwards
  <2> QED BY <1>1, <2>1
<1>8. f[n] \in S /\ g[n] \in S
  <2> HIDE DEF S, n
  <2> QED BY <1>1, <1>3, <1>4
<1> HIDE DEF n, S, s, t
<1>9. f[n].places = g[n].places /\ f[n].rest <= g[n].rest
  BY <1>7
<1> QED BY <1>2, <1>3, <1>4, <1>8, <1>9 DEF S

\* The loop over the actions, as compilePointerWaypoints runs it.
Before == [at |-> 0, point |-> Error]
LiveStep(l, a, m) ==
    [at |-> l.at + Cost(a, m), point |-> IF Given(a, "target") THEN Aimed(a) ELSE l.point]
PathTrace(path) ==
    [i \in DOMAIN path |-> GoTo(path[i].point, path[i].at - (IF i = 1 THEN 0 ELSE path[i - 1].at))]

\* The waypoints, one after the other: each is at the time of the one before it and its own cost.
LEMMA LivePoints ==
    ASSUME NEW actions, Shaped(actions), WellFormed(actions), NEW m \in Nat
    PROVE  LET n == Len(actions)
               path == Waypoints(actions, m)
           IN  /\ DOMAIN path = 1..n
               /\ \A i \in 1..n : path[i].at \in Int /\ path[i].point \in PlacesOf(actions)
               /\ path[1].at = 0 /\ path[1].point = Aimed(actions[1])
               /\ \A i \in 1..n : i + 1 <= n =>
                    /\ path[i + 1].at = path[i].at + Cost(actions[i + 1], m)
                    /\ path[i + 1].point = IF Given(actions[i + 1], "target") THEN Aimed(actions[i + 1])
                                           ELSE path[i].point
<1> DEFINE n == Len(actions)
           P == PlacesOf(actions)
           S == [at : Int, point : P \cup {Error}]
           path == Waypoints(actions, m)
           step == [i \in 1..n |-> [l \in S |-> LiveStep(l, actions[i], m)]]
           Is(f) == f = [i \in 0..n |-> IF i = 0 THEN Before ELSE LiveStep(f[i - 1], actions[i], m)]
           live == CHOOSE f : Is(f)
<1>1. n \in Nat /\ 1 <= n /\ DOMAIN actions = 1..n /\ Given(actions[1], "target") /\ Kind(actions[1]) = "down"
  BY ShapeOf
<1>2. \A i \in 1..n : Cost(actions[i], m) \in Int
  <2>1. \A i \in 1..n : Cost(actions[i], m) \in Nat
    BY Costs
  <2> QED BY <2>1
<1>3. \A i \in 1..n : Aimed(actions[i]) \in P
  BY <1>1 DEF PlacesOf
<1>4. path = [i \in DOMAIN actions |->
                [phase |-> IF Kind(actions[i]) = "wait" THEN "move" ELSE Kind(actions[i]),
                 point |-> live[i].point, at |-> live[i].at, pressure |-> Get(actions[i], "pressure")]]
  BY DEF Waypoints, LiveStep, Before, Aimed
<1>5. step \in [1..n -> [S -> S]]
  <2>1. ASSUME NEW i \in 1..n, NEW l \in S
        PROVE  LiveStep(l, actions[i], m) \in S
    <3>1. Cost(actions[i], m) \in Int /\ Aimed(actions[i]) \in P
      BY <1>2, <1>3
    <3> HIDE DEF P, n
    <3> QED BY <3>1 DEF LiveStep
  <2> HIDE DEF S
  <2> QED BY <2>1
<1>6. \E f : Is(f)
  <2>1. Before \in S
    BY DEF Before
  <2>2. PICK g \in [0..n -> S] : g[0] = Before /\ \A i \in 1..n : g[i] = step[i][g[i - 1]]
    <3>1. n \in Nat
      BY <1>1
    <3> HIDE DEF n, S, step
    <3> QED BY <1>5, <2>1, <3>1, Loop
  <2>3. \A i \in 1..n : i - 1 \in 0..n /\ g[i - 1] \in S
    BY <1>1, <2>2
  <2>4. \A i \in 1..n : g[i] = LiveStep(g[i - 1], actions[i], m)
    <3> HIDE DEF n, S
    <3> QED BY <2>2, <2>3
  <2>5. \A i \in 0..n : i = 0 \/ i \in 1..n
    BY <1>1
  <2>6. Is(g)
    <3> HIDE DEF n, step
    <3>1. \A i \in 0..n : g[i] = IF i = 0 THEN Before ELSE LiveStep(g[i - 1], actions[i], m)
      BY <2>2, <2>4, <2>5
    <3>2. g = [i \in 0..n |-> g[i]]
      BY <2>2
    <3> QED BY <3>1, <3>2
  <2> HIDE DEF Is
  <2> QED BY <2>6
<1>7. Is(live)
  <2> HIDE DEF Is
  <2> QED BY <1>6
<1>8. live[0] = Before /\ \A i \in 0..n : i + 1 <= n => live[i + 1] = LiveStep(live[i], actions[i + 1], m)
  <2> HIDE DEF live
  <2>1. 0 \in 0..n /\ \A i \in 0..n : i + 1 <= n => i + 1 \in 0..n /\ i + 1 # 0 /\ (i + 1) - 1 = i
    BY <1>1
  <2> HIDE DEF n
  <2> QED BY <1>7, <2>1
<1> DEFINE A == {i \in 0..n : live[i] \in S /\ (i # 0 => live[i].point \in P)}
<1>9. \A i \in 0..n : i \in A
  <2> HIDE DEF live
  <2>1. 0 \in A
    <3>1. 0 \in 0..n /\ Before \in S
      BY <1>1 DEF Before
    <3> HIDE DEF n, S
    <3> QED BY <1>8, <3>1
  <2>2. ASSUME NEW i \in 0..n, i \in A, i + 1 <= n
        PROVE  i + 1 \in A
    <3>1. i + 1 \in 1..n /\ i + 1 \in 0..n /\ i + 1 # 0 /\ (i = 0 => i + 1 = 1)
      BY <1>1, <2>2
    <3>2. Cost(actions[i + 1], m) \in Int /\ Aimed(actions[i + 1]) \in P
      BY <1>2, <1>3, <3>1
    <3>3. live[i] \in S /\ (i # 0 => live[i].point \in P)
      BY <2>2
    <3>4. live[i + 1] = LiveStep(live[i], actions[i + 1], m)
      BY <1>8, <2>2
    <3>5. i = 0 => Given(actions[i + 1], "target")
      BY <1>1, <3>1
    <3> HIDE DEF P, n
    <3>6. LiveStep(live[i], actions[i + 1], m) \in S /\ LiveStep(live[i], actions[i + 1], m).point \in P
      BY <3>2, <3>3, <3>5 DEF LiveStep
    <3> HIDE DEF S
    <3> QED BY <3>1, <3>4, <3>6
  <2> HIDE DEF A, n
  <2> QED BY <1>1, <2>1, <2>2, Upwards
<1>10. DOMAIN path = 1..n /\ \A i \in 1..n : path[i].at = live[i].at /\ path[i].point = live[i].point
  <2> HIDE DEF live, path
  <2> QED BY <1>1, <1>4
<1>11. \A i \in 1..n : path[i].at \in Int /\ path[i].point \in P
  <2>1. \A i \in 1..n : i \in 0..n /\ i # 0
    BY <1>1
  <2>2. \A i \in 1..n : live[i] \in S /\ live[i].point \in P
    <3> HIDE DEF live, n, S
    <3> QED BY <1>9, <2>1
  <2>3. \A l \in S : l.at \in Int
    OBVIOUS
  <2> HIDE DEF live, path, n, S
  <2> QED BY <1>10, <2>2, <2>3
<1>12. path[1].at = 0 /\ path[1].point = Aimed(actions[1])
  <2>1. live[1] = LiveStep(Before, actions[1], m)
    <3>1. 0 \in 0..n /\ 0 + 1 <= n /\ 0 + 1 = 1
      BY <1>1
    <3> HIDE DEF live, n
    <3> QED BY <1>8, <3>1
  <2>2. Cost(actions[1], m) = 0 /\ 1 \in 1..n
    BY <1>1 DEF Cost
  <2>3. live[1].at = 0 /\ live[1].point = Aimed(actions[1])
    <3> HIDE DEF live, n
    <3> QED BY <1>1, <2>1, <2>2 DEF LiveStep, Before
  <2> HIDE DEF live, path, n
  <2> QED BY <1>10, <2>2, <2>3
<1>13. ASSUME NEW i \in 1..n, i + 1 <= n
       PROVE  /\ path[i + 1].at = path[i].at + Cost(actions[i + 1], m)
              /\ path[i + 1].point = IF Given(actions[i + 1], "target") THEN Aimed(actions[i + 1]) ELSE path[i].point
  <2>1. i \in 0..n /\ i + 1 \in 1..n
    BY <1>1, <1>13
  <2> HIDE DEF live, path, n
  <2>2. live[i + 1] = LiveStep(live[i], actions[i + 1], m)
    BY <1>8, <1>13, <2>1
  <2>3. /\ path[i].at = live[i].at /\ path[i].point = live[i].point
        /\ path[i + 1].at = live[i + 1].at /\ path[i + 1].point = live[i + 1].point
    BY <1>10, <2>1
  <2> QED BY <2>2, <2>3 DEF LiveStep
<1> HIDE DEF n, P, path
<1>14. \A i \in 1..n : i + 1 <= n =>
          /\ path[i + 1].at = path[i].at + Cost(actions[i + 1], m)
          /\ path[i + 1].point = IF Given(actions[i + 1], "target") THEN Aimed(actions[i + 1]) ELSE path[i].point
  BY <1>13
<1>15. DOMAIN path = 1..n
  BY <1>10
<1> QED BY <1>11, <1>12, <1>14, <1>15 DEF n, P, path

\* The waypoints of a gesture say of the finger what its actions say.
LEMMA PathKept ==
    ASSUME NEW actions, Shaped(actions), WellFormed(actions), NEW m \in Nat
    PROVE  Followed(PathTrace(Waypoints(actions, m))) = Told(actions, m)
<1> DEFINE n == Len(actions)
           P == PlacesOf(actions)
           S == Fingers(P)
           E == [to : {<<>>} \cup {<<p>> : p \in P}, ms : Int]
           path == Waypoints(actions, m)
           s == ToldTrace(actions, m)
           t == PathTrace(path)
<1>1. n \in Nat /\ 1 <= n /\ DOMAIN actions = 1..n /\ Given(actions[1], "target") /\ Kind(actions[1]) = "down"
  BY ShapeOf
<1>2. /\ DOMAIN path = 1..n
      /\ \A i \in 1..n : path[i].at \in Int /\ path[i].point \in P
      /\ path[1].at = 0 /\ path[1].point = Aimed(actions[1])
      /\ \A i \in 1..n : i + 1 <= n =>
            /\ path[i + 1].at = path[i].at + Cost(actions[i + 1], m)
            /\ path[i + 1].point = IF Given(actions[i + 1], "target") THEN Aimed(actions[i + 1]) ELSE path[i].point
  BY LivePoints
<1>3. \A i \in 1..n : Cost(actions[i], m) \in Int
  <2>1. \A i \in 1..n : Cost(actions[i], m) \in Nat
    BY Costs
  <2> QED BY <2>1
<1>4. DOMAIN t = 1..n /\ t = [i \in 1..n |-> t[i]]
  <2> HIDE DEF path, n
  <2> QED BY <1>2 DEF PathTrace
<1>5. t[1] = GoTo(Aimed(actions[1]), 0)
  <2>1. 1 \in 1..n
    BY <1>1
  <2> HIDE DEF path, n
  <2> QED BY <1>2, <2>1 DEF PathTrace
<1>6. ASSUME NEW i \in 1..n, i + 1 <= n
      PROVE  t[i + 1] = GoTo(path[i + 1].point, Cost(actions[i + 1], m))
  <2>1. i + 1 \in 1..n /\ i + 1 # 1 /\ (i + 1) - 1 = i
    BY <1>1, <1>6
  <2>2. path[i + 1].at - path[i].at = Cost(actions[i + 1], m)
    <3>1. path[i].at \in Int /\ Cost(actions[i + 1], m) \in Int /\ path[i + 1].at = path[i].at + Cost(actions[i + 1], m)
      BY <1>2, <1>3, <1>6, <2>1
    <3> HIDE DEF path
    <3> QED BY <3>1
  <2> HIDE DEF path, n
  <2>3. t[i + 1] = GoTo(path[i + 1].point, path[i + 1].at - path[i].at)
    BY <1>2, <2>1 DEF PathTrace
  <2> HIDE DEF t
  <2> QED BY <2>2, <2>3
<1>7. t \in Seq(E) /\ Len(t) = n
  <2>1. ASSUME NEW i \in 1..n
        PROVE  t[i] \in E
    <3>1. CASE i = 1
      <4>1. t[i] = GoTo(path[1].point, 0) /\ path[1].point \in P
        BY <1>1, <1>2, <1>5, <3>1
      <4> HIDE DEF t, path, P
      <4> QED BY <4>1 DEF GoTo
    <3>2. CASE i # 1
      <4>1. PICK j \in 1..n : j + 1 = i
        <5>1. i - 1 \in 1..n /\ (i - 1) + 1 = i
          BY <1>1, <3>2
        <5> QED BY <5>1
      <4>2. j + 1 <= n
        BY <1>1, <4>1
      <4>3. t[i] = GoTo(path[i].point, Cost(actions[i], m)) /\ path[i].point \in P /\ Cost(actions[i], m) \in Int
        BY <1>2, <1>3, <1>6, <4>1, <4>2
      <4> HIDE DEF t, path, P
      <4> QED BY <4>3 DEF GoTo
    <3> QED BY <3>1, <3>2
  <2> HIDE DEF t, E, n
  <2> QED BY <1>1, <1>4, <2>1
<1>8. IsTrace(t, P)
  <2> HIDE DEF t
  <2> QED BY <1>7 DEF IsTrace
<1>9. IsTrace(s, P) /\ Len(s) = n /\ Told(actions, m) = Followed(s)
  BY ToldTraces
<1>10. PICK f \in [0..n -> S] : f[0] = Start /\ (\A i \in 1..n : f[i] = Onward(f[i - 1], s[i])) /\ Followed(s) = f[n]
  <2> HIDE DEF s, n
  <2> QED BY <1>9, FollowedSteps DEF S
<1>11. PICK g \in [0..n -> S] : g[0] = Start /\ (\A i \in 1..n : g[i] = Onward(g[i - 1], t[i])) /\ Followed(t) = g[n]
  <2>1. Len(t) = n
    <3> HIDE DEF t, n, E
    <3> QED BY <1>7
  <2> HIDE DEF t, n
  <2> QED BY <1>8, <2>1, FollowedSteps DEF S
<1> DEFINE A == {i \in 0..n : f[i] = g[i] /\ (i # 0 => f[i].places # <<>> /\ Last(f[i].places) = path[i].point)}
<1>12. 0 \in A
  <2>1. 0 \in 0..n
    BY <1>1
  <2> HIDE DEF n, S, s, t
  <2> QED BY <1>10, <1>11, <2>1
<1>13. ASSUME NEW i \in 0..n, i \in A, i + 1 <= n
       PROVE  i + 1 \in A
  <2>1. i + 1 \in 1..n /\ i + 1 \in 0..n /\ (i + 1) - 1 = i /\ (i # 0 => i \in 1..n)
    BY <1>1, <1>13
  <2> DEFINE j == i + 1
             c == Cost(actions[j], m)
  <2>2. f[j] = Onward(f[i], s[j]) /\ g[j] = Onward(g[i], t[j])
    <3> HIDE DEF s, t, n, S
    <3> QED BY <1>10, <1>11, <2>1
  <2>3. f[i] \in S /\ f[i] = g[i] /\ (i # 0 => f[i].places # <<>> /\ Last(f[i].places) = path[i].point)
    <3> HIDE DEF S, n, path, s, t
    <3> QED BY <1>13
  <2>4. s[j] = IF Given(actions[j], "target") THEN GoTo(Aimed(actions[j]), c) ELSE Stay(c)
    BY <1>1, <2>1 DEF ToldTrace
  <2>5. c \in Int
    BY <1>3, <2>1
  <2>6. CASE Given(actions[j], "target")
    <3>1. t[j] = GoTo(Aimed(actions[j]), c) /\ path[j].point = Aimed(actions[j])
      <4>1. CASE i = 0
        <5>1. j = 1 /\ c = 0
          BY <1>1, <4>1 DEF Cost
        <5> HIDE DEF j, c, t, path
        <5> QED BY <1>2, <1>5, <5>1
      <4>2. CASE i # 0
        <5> HIDE DEF t, path, n
        <5> QED BY <1>2, <1>6, <1>13, <2>1, <2>6, <4>2
      <4> QED BY <4>1, <4>2
    <3>2. Aimed(actions[j]) \in P
      BY <1>1, <2>1 DEF PlacesOf
    <3> HIDE DEF s, t, n, path, P, j, c
    <3>3. /\ Onward(f[i], GoTo(Aimed(actions[j]), c)).places # <<>>
          /\ Last(Onward(f[i], GoTo(Aimed(actions[j]), c)).places) = Aimed(actions[j])
      BY <2>3, <2>5, <3>2, OnwardTo DEF S
    <3> HIDE DEF S
    <3>4. s[j] = GoTo(Aimed(actions[j]), c)
      BY <2>4, <2>6
    <3>5. f[j] = g[j] /\ f[j].places # <<>> /\ Last(f[j].places) = path[j].point
      BY <2>2, <2>3, <3>1, <3>3, <3>4
    <3> QED BY <2>1, <3>5 DEF j
  <2>7. CASE ~Given(actions[j], "target")
    <3>1. i # 0
      <4>1. i = 0 => j = 1
        OBVIOUS
      <4> QED BY <1>1, <2>7, <4>1
    <3>2. t[j] = GoTo(path[i].point, c) /\ path[j].point = path[i].point /\ path[i].point \in P
      <4> HIDE DEF t, path, n, P
      <4> QED BY <1>2, <1>6, <1>13, <2>1, <2>7, <3>1
    <3> HIDE DEF s, t, n, path, P, j, c
    <3>3. f[i].places # <<>> /\ Last(f[i].places) = path[i].point
      BY <2>3, <3>1
    <3>4. /\ Onward(f[i], GoTo(path[i].point, c)) = Onward(f[i], Stay(c))
          /\ Onward(f[i], Stay(c)).places = f[i].places
      <4> DEFINE fi == f[i]
                 q == path[i].point
      <4>1. fi \in Fingers(P) /\ q \in P /\ c \in Int /\ fi.places # <<>> /\ Last(fi.places) = q
        BY <2>3, <2>5, <3>2, <3>3 DEF S
      <4> HIDE DEF fi, q
      <4>2. Onward(fi, GoTo(q, c)) = Onward(fi, Stay(c)) /\ Onward(fi, Stay(c)).places = fi.places
        BY <4>1, StayInPlace
      <4> QED BY <4>2 DEF fi, q
    <3> HIDE DEF S
    <3>5. s[j] = Stay(c)
      BY <2>4, <2>7
    <3>6. f[j] = g[j] /\ f[j].places # <<>> /\ Last(f[j].places) = path[j].point
      BY <2>2, <2>3, <3>2, <3>3, <3>4, <3>5
    <3> QED BY <2>1, <3>6 DEF j
  <2> QED BY <2>6, <2>7
<1>14. n \in A
  <2> HIDE DEF A, n
  <2>1. \A i \in 0..n : i \in A
    BY <1>1, <1>12, <1>13, Upwards
  <2> QED BY <1>1, <2>1
<1>15. f[n] = g[n]
  BY <1>14
<1> HIDE DEF n, s, t
<1>16. Followed(t) = Told(actions, m)
  BY <1>9, <1>10, <1>11, <1>15
<1> QED BY <1>16 DEF t

-----------------------------------------------------------------------------
(* One touch.                                                               *)

\* What was dispatched says of a finger what it was told, moves in place aside.
Within(d, actions, m) ==
    /\ d.places = Told(actions, 0).places
    /\ Told(actions, 0).rest <= d.rest /\ d.rest <= Told(actions, m).rest

\* A gesture keeps what each of its fingers is told.
LEMMA GestureWithin ==
    ASSUME NEW actions, Shaped(actions), WellFormed(actions), NEW m \in Nat,
           NEW touches, NEW t \in DOMAIN touches, touches[t] = actions, NEW step
    PROVE  Within(Dispatched(Gesture(touches, m, step).call, t), actions, m)
<1> DEFINE paths == [u \in DOMAIN touches |-> Waypoints(touches[u], m)]
           call == <<"gesture", paths>>
<1>1. Gesture(touches, m, step).call = call
  BY DEF Gesture, Ok, Performed
<1>2. call[1] = "gesture" /\ call[2][t] = Waypoints(actions, m)
  OBVIOUS
<1> HIDE DEF call
<1>3. Dispatched(call, t) = Followed(PathTrace(Waypoints(actions, m)))
  BY <1>2 DEF Dispatched, PathTrace
<1>4. Dispatched(call, t) = Told(actions, m)
  BY <1>3, PathKept
<1>5. Told(actions, 0).rest \in Int /\ Told(actions, m).rest \in Int
  BY TravelTime DEF Fingers
<1> QED BY <1>1, <1>4, <1>5, TravelTime DEF Within

\* Moves that take no time are within the time they may take.
LEMMA EarliestWithin ==
    ASSUME NEW actions, Shaped(actions), WellFormed(actions), NEW m \in Nat
    PROVE  Within(Told(actions, 0), actions, m)
<1>1. Told(actions, 0).rest \in Int
  BY TravelTime DEF Fingers
<1> QED BY <1>1, TravelTime DEF Within

\* The trace of a pattern's actions.
LEMMA ToldFew ==
    ASSUME NEW actions, Shaped(actions), WellFormed(actions)
    PROVE  LET e == ToldTrace(actions, 0)
           IN  /\ Told(actions, 0) \in Fingers(PlacesOf(actions))
               /\ Len(actions) = 2 => Told(actions, 0) = Onward(Onward(Start, e[1]), e[2])
               /\ Len(actions) = 3 => Told(actions, 0) = Onward(Onward(Onward(Start, e[1]), e[2]), e[3])
               /\ Len(actions) = 4 => Told(actions, 0) = Onward(Onward(Onward(Onward(Start, e[1]), e[2]), e[3]), e[4])
<1> DEFINE e == ToldTrace(actions, 0)
<1>1. IsTrace(e, PlacesOf(actions)) /\ Len(e) = Len(actions) /\ Told(actions, 0) = Followed(e)
  BY ToldTraces
<1> HIDE DEF e
<1>2. /\ Followed(e) \in Fingers(PlacesOf(actions))
      /\ Len(e) = 2 => Followed(e) = Onward(Onward(Start, e[1]), e[2])
      /\ Len(e) = 3 => Followed(e) = Onward(Onward(Onward(Start, e[1]), e[2]), e[3])
      /\ Len(e) = 4 => Followed(e) = Onward(Onward(Onward(Onward(Start, e[1]), e[2]), e[3]), e[4])
  BY <1>1, FollowedFew
<1> QED BY <1>1, <1>2 DEF e

\* Nothing changes in no time without a place to go to.
LEMMA StayNothing ==
    ASSUME NEW P, NEW f \in Fingers(P)
    PROVE  Onward(f, Stay(0)) = f
<1>1. f = [places |-> f.places, rest |-> f.rest] /\ f.rest \in Int
  BY DEF Fingers
<1>2. Stay(0).to = <<>> /\ Stay(0).ms = 0
  BY DEF Stay
<1>3. f.rest + 0 = f.rest
  BY <1>1
<1>4. Onward(f, Stay(0)) = [places |-> f.places, rest |-> IF Len(f.places) > 1 THEN f.rest ELSE f.rest + 0]
  BY <1>2 DEF Onward
<1> QED BY <1>1, <1>3, <1>4

\* The first place of a finger.
LEMMA StartHere ==
    ASSUME NEW P, NEW p \in P, NEW ms \in Int
    PROVE  /\ Start \in Fingers(P)
           /\ Onward(Start, GoTo(p, ms)) = [places |-> <<p>>, rest |-> ms]
           /\ Onward(Onward(Start, GoTo(p, 0)), Stay(ms)) = Onward(Start, GoTo(p, ms))
<1>1. Start \in Fingers(P) /\ Start.places = <<>> /\ Start.rest = 0
  BY DEF Start, Fingers
<1>2. ASSUME NEW n \in Int
      PROVE  Onward(Start, GoTo(p, n)) = [places |-> <<p>>, rest |-> n]
  <2>1. GoTo(p, n).to = <<p>> /\ GoTo(p, n).to # <<>> /\ GoTo(p, n).to[1] = p /\ GoTo(p, n).ms = n
    BY DEF GoTo
  <2>2. Append(<<>>, p) = <<p>> /\ ~(Len(<<p>>) > 1)
    OBVIOUS
  <2>3. 0 + n = n
    OBVIOUS
  <2> QED BY <1>1, <2>1, <2>2, <2>3 DEF Onward
<1>3. Onward(Start, GoTo(p, 0)) = [places |-> <<p>>, rest |-> 0]
  BY <1>2
<1>4. Onward([places |-> <<p>>, rest |-> 0], Stay(ms)) = [places |-> <<p>>, rest |-> ms]
  <2>1. Stay(ms).to = <<>> /\ Stay(ms).ms = ms /\ ~(Len(<<p>>) > 1) /\ 0 + ms = ms
    BY DEF Stay
  <2> QED BY <2>1 DEF Onward
<1> QED BY <1>1, <1>2, <1>3, <1>4

KindsOf(actions) == [i \in 1..(Len(actions) - 1) |-> Kind(actions[i])]

\* The actions of a pattern, by the kinds before the last.
LEMMA KindsAre ==
    ASSUME NEW actions, Shaped(actions), WellFormed(actions), NEW n \in Nat, DOMAIN KindsOf(actions) = 1..n
    PROVE  Len(actions) = n + 1 /\ \A i \in 1..n : Kind(actions[i]) = KindsOf(actions)[i]
<1>1. Len(actions) \in Nat /\ 1 <= Len(actions)
  BY ShapeOf
<1> DEFINE m == Len(actions) - 1
<1>2. m \in Nat
  BY <1>1
<1> HIDE DEF m
<1>3. DOMAIN KindsOf(actions) = 1..m
  BY DEF KindsOf, m
<1>4. m = n
  BY <1>2, <1>3
<1>5. \A i \in 1..m : KindsOf(actions)[i] = Kind(actions[i])
  BY DEF KindsOf, m
<1>6. Len(actions) = n + 1
  BY <1>1, <1>4 DEF m
<1> QED BY <1>4, <1>5, <1>6

PatternKinds == {<<"down">>, <<"down", "wait">>, <<"down", "move">>, <<"down", "wait", "move">>}

\* classifyPointerPattern knows four patterns.
LEMMA PatternOf ==
    ASSUME NEW actions
    PROVE  LET kinds == KindsOf(actions)
               Goal(i) == Aimed(actions[i])
           IN  /\ kinds = <<"down">> => Pattern(actions) = Ok(<<"tap", Goal(1)>>, <<>>)
               /\ kinds = <<"down", "wait">> => Pattern(actions) = Ok(<<"longPress", Goal(1), Ms(actions[2])>>, <<>>)
               /\ kinds = <<"down", "move">> => Pattern(actions) = Ok(<<"swipe", Goal(1), Goal(2), DragMinPressMs>>, <<>>)
               /\ kinds = <<"down", "wait", "move">> => Pattern(actions) = Ok(<<"swipe", Goal(1), Goal(3), Ms(actions[2])>>, <<>>)
               /\ kinds \notin PatternKinds => Pattern(actions) = Refused
<1> DEFINE kinds == KindsOf(actions)
           Goal(i) == Aimed(actions[i])
           a == <<"down">>
           b == <<"down", "wait">>
           c == <<"down", "move">>
           d == <<"down", "wait", "move">>
           v == Ok(<<"tap", Goal(1)>>, <<>>)
           w == Ok(<<"longPress", Goal(1), Ms(actions[2])>>, <<>>)
           x == Ok(<<"swipe", Goal(1), Goal(2), DragMinPressMs>>, <<>>)
           y == Ok(<<"swipe", Goal(1), Goal(3), Ms(actions[2])>>, <<>>)
<1>1. a # b /\ a # c /\ a # d /\ b # c /\ b # d /\ c # d
  <2>1. Len(a) = 1 /\ Len(b) = 2 /\ Len(c) = 2 /\ Len(d) = 3 /\ b[2] # c[2]
    OBVIOUS
  <2> HIDE DEF a, b, c, d
  <2> QED BY <2>1
<1>2. Pattern(actions) = CASE kinds = a -> v [] kinds = b -> w [] kinds = c -> x [] kinds = d -> y [] OTHER -> Refused
  BY DEF Pattern, KindsOf, Aimed
<1>3. PatternKinds = {a, b, c, d}
  BY DEF PatternKinds
<1> HIDE DEF kinds, a, b, c, d, v, w, x, y
<1>4. /\ kinds = a => Pattern(actions) = v
      /\ kinds = b => Pattern(actions) = w
      /\ kinds = c => Pattern(actions) = x
      /\ kinds = d => Pattern(actions) = y
      /\ kinds \notin {a, b, c, d} => Pattern(actions) = Refused
  BY <1>1, <1>2
<1> QED BY <1>3, <1>4 DEF kinds, a, b, c, d, v, w, x, y

\* A pattern is dispatched with no more rest than the actions have: what is swiped has no hold.
LEMMA PatternWithin ==
    ASSUME NEW actions, Shaped(actions), WellFormed(actions), ~HasHoldThenDrag(actions), Pattern(actions).ok
    PROVE  Dispatched(Pattern(actions).call, 1) = Told(actions, 0) /\ Pattern(actions).shots = <<>>
<1> DEFINE kinds == KindsOf(actions)
           P == PlacesOf(actions)
           e == ToldTrace(actions, 0)
           n == Len(actions)
           Goal(i) == Aimed(actions[i])
<1>1. n \in Nat /\ 1 <= n /\ DOMAIN actions = 1..n /\ Kind(actions[n]) = "up"
      /\ \A i \in 1..n : /\ Given(actions[i], "target") <=> Kind(actions[i]) \in {"down", "move"}
                         /\ Kind(actions[i]) = "wait" => Ms(actions[i]) \in 0..MaxWaitMs
  BY ShapeOf
<1>2. ASSUME NEW i \in 1..n
      PROVE  /\ Kind(actions[i]) \in {"down", "move"} => e[i] = GoTo(Goal(i), 0) /\ Goal(i) \in P
             /\ Kind(actions[i]) = "wait" => e[i] = Stay(Ms(actions[i])) /\ Ms(actions[i]) \in Int /\ 0 <= Ms(actions[i])
             /\ Kind(actions[i]) = "up" => e[i] = Stay(0)
  <2>1. e[i] = IF Given(actions[i], "target") THEN GoTo(Goal(i), Cost(actions[i], 0)) ELSE Stay(Cost(actions[i], 0))
    BY <1>1 DEF ToldTrace
  <2>2. /\ Kind(actions[i]) \in {"down", "up", "capture"} => Cost(actions[i], 0) = 0
        /\ Kind(actions[i]) = "wait" => Cost(actions[i], 0) = Ms(actions[i])
        /\ Kind(actions[i]) = "move" => Cost(actions[i], 0) = 0
    BY Costs
  <2>3. Goal(i) \in P
    BY <1>1 DEF PlacesOf
  <2>4. Kind(actions[i]) = "wait" => Ms(actions[i]) \in Int /\ 0 <= Ms(actions[i])
    <3>1. \A x \in 0..MaxWaitMs : x \in Int /\ 0 <= x
      OBVIOUS
    <3> QED BY <1>1, <3>1
  <2>5. Given(actions[i], "target") <=> Kind(actions[i]) \in {"down", "move"}
    BY <1>1
  <2> HIDE DEF e, P
  <2> QED BY <2>1, <2>2, <2>3, <2>4, <2>5
<1>3. kinds \in PatternKinds
  <2>1. ~Refused.ok
    BY DEF Refused, Performed
  <2> QED BY <2>1, PatternOf
<1>4. \A call : Ok(call, <<>>).call = call /\ Ok(call, <<>>).shots = <<>>
  BY DEF Ok, Performed
<1>5. Told(actions, 0) \in Fingers(P)
  BY TravelTime
<1> HIDE DEF e, P
<1>6. CASE kinds = <<"down">>
  <2>1. n = 2 /\ Kind(actions[1]) = "down"
    <3>1. n = 1 + 1 /\ \A i \in 1..1 : Kind(actions[i]) = <<"down">>[i]
      <4>1. DOMAIN kinds = 1..1 /\ 1 \in Nat
        BY <1>6
      <4>2. n = 1 + 1 /\ \A i \in 1..1 : Kind(actions[i]) = kinds[i]
        BY <4>1, KindsAre
      <4> QED BY <1>6, <4>2
    <3> QED BY <3>1
  <2>2. e[1] = GoTo(Goal(1), 0) /\ Goal(1) \in P /\ e[2] = Stay(0)
    BY <1>1, <1>2, <2>1
  <2>3. Told(actions, 0) = Onward(Onward(Start, GoTo(Goal(1), 0)), Stay(0))
    BY <2>1, <2>2, ToldFew DEF e
  <2>4. Told(actions, 0) = Onward(Start, GoTo(Goal(1), 0))
    BY <2>2, <2>3, StartHere
  <2>5. Pattern(actions) = Ok(<<"tap", Goal(1)>>, <<>>)
    BY <1>6, PatternOf
  <2>6. Dispatched(<<"tap", Goal(1)>>, 1) = Followed(<<GoTo(Goal(1), 0)>>)
    BY DEF Dispatched
  <2>7. IsTrace(<<GoTo(Goal(1), 0)>>, P) /\ Len(<<GoTo(Goal(1), 0)>>) = 1 /\ <<GoTo(Goal(1), 0)>>[1] = GoTo(Goal(1), 0)
    BY <2>2 DEF IsTrace, GoTo
  <2>8. Followed(<<GoTo(Goal(1), 0)>>) = Onward(Start, GoTo(Goal(1), 0))
    BY <2>7, FollowedFew
  <2> QED BY <1>4, <2>4, <2>5, <2>6, <2>8
<1>7. CASE kinds = <<"down", "wait">>
  <2> DEFINE w == Ms(actions[2])
  <2>1. n = 3 /\ Kind(actions[1]) = "down" /\ Kind(actions[2]) = "wait"
    <3>1. n = 2 + 1 /\ \A i \in 1..2 : Kind(actions[i]) = <<"down", "wait">>[i]
      <4>1. DOMAIN kinds = 1..2 /\ 2 \in Nat
        BY <1>7
      <4>2. n = 2 + 1 /\ \A i \in 1..2 : Kind(actions[i]) = kinds[i]
        BY <4>1, KindsAre
      <4> QED BY <1>7, <4>2
    <3> QED BY <3>1
  <2>2. e[1] = GoTo(Goal(1), 0) /\ Goal(1) \in P /\ e[2] = Stay(w) /\ w \in Int /\ e[3] = Stay(0)
    BY <1>1, <1>2, <2>1
  <2> HIDE DEF w
  <2>3. Told(actions, 0) = Onward(Onward(Onward(Start, GoTo(Goal(1), 0)), Stay(w)), Stay(0))
    BY <2>1, <2>2, ToldFew DEF e
  <2>4. Told(actions, 0) = Onward(Start, GoTo(Goal(1), w))
    <3>1. Onward(Onward(Start, GoTo(Goal(1), 0)), Stay(w)) = Onward(Start, GoTo(Goal(1), w)) /\ Start \in Fingers(P)
      BY <2>2, StartHere
    <3>2. Onward(Start, GoTo(Goal(1), w)) \in Fingers(P)
      BY <2>2, <3>1, OnwardTo
    <3> QED BY <2>3, <3>1, <3>2, StayNothing
  <2>5. Pattern(actions) = Ok(<<"longPress", Goal(1), w>>, <<>>)
    BY <1>7, PatternOf DEF w
  <2>6. Dispatched(<<"longPress", Goal(1), w>>, 1) = Followed(<<GoTo(Goal(1), w)>>)
    BY DEF Dispatched
  <2>7. IsTrace(<<GoTo(Goal(1), w)>>, P) /\ Len(<<GoTo(Goal(1), w)>>) = 1 /\ <<GoTo(Goal(1), w)>>[1] = GoTo(Goal(1), w)
    BY <2>2 DEF IsTrace, GoTo
  <2>8. Followed(<<GoTo(Goal(1), w)>>) = Onward(Start, GoTo(Goal(1), w))
    BY <2>7, FollowedFew
  <2> QED BY <1>4, <2>4, <2>5, <2>6, <2>8
<1>9. ASSUME NEW p \in P, NEW q \in P, NEW ms
      PROVE  /\ Dispatched(<<"swipe", p, q, ms>>, 1) = Onward(Onward(Start, GoTo(p, 0)), GoTo(q, 0))
             /\ Onward(Onward(Start, GoTo(p, 0)), GoTo(q, 0)) \in Fingers(P)
  <2> DEFINE t == <<GoTo(p, 0), GoTo(q, 0)>>
  <2>1. Dispatched(<<"swipe", p, q, ms>>, 1) = Followed(t)
    BY DEF Dispatched
  <2>2. IsTrace(t, P) /\ Len(t) = 2 /\ t[1] = GoTo(p, 0) /\ t[2] = GoTo(q, 0)
    BY DEF IsTrace, GoTo
  <2> HIDE DEF t
  <2>3. Followed(t) = Onward(Onward(Start, GoTo(p, 0)), GoTo(q, 0)) /\ Followed(t) \in Fingers(P)
    BY <2>2, FollowedFew
  <2> QED BY <2>1, <2>3
<1>10. CASE kinds = <<"down", "move">>
  <2>1. n = 3 /\ Kind(actions[1]) = "down" /\ Kind(actions[2]) = "move"
    <3>1. n = 2 + 1 /\ \A i \in 1..2 : Kind(actions[i]) = <<"down", "move">>[i]
      <4>1. DOMAIN kinds = 1..2 /\ 2 \in Nat
        BY <1>10
      <4>2. n = 2 + 1 /\ \A i \in 1..2 : Kind(actions[i]) = kinds[i]
        BY <4>1, KindsAre
      <4> QED BY <1>10, <4>2
    <3> QED BY <3>1
  <2>2. e[1] = GoTo(Goal(1), 0) /\ Goal(1) \in P /\ e[2] = GoTo(Goal(2), 0) /\ Goal(2) \in P /\ e[3] = Stay(0)
    BY <1>1, <1>2, <2>1
  <2>3. Told(actions, 0) = Onward(Onward(Onward(Start, GoTo(Goal(1), 0)), GoTo(Goal(2), 0)), Stay(0))
    BY <2>1, <2>2, ToldFew DEF e
  <2>4. Told(actions, 0) = Onward(Onward(Start, GoTo(Goal(1), 0)), GoTo(Goal(2), 0))
    <3> DEFINE f == Onward(Onward(Start, GoTo(Goal(1), 0)), GoTo(Goal(2), 0))
    <3>1. f \in Fingers(P)
      BY <1>9, <2>2
    <3>2. Told(actions, 0) = Onward(f, Stay(0))
      BY <2>3
    <3> HIDE DEF f
    <3>3. Onward(f, Stay(0)) = f
      BY <3>1, StayNothing
    <3> QED BY <3>2, <3>3 DEF f
  <2>5. Pattern(actions) = Ok(<<"swipe", Goal(1), Goal(2), DragMinPressMs>>, <<>>)
    BY <1>10, PatternOf
  <2> QED BY <1>4, <1>9, <2>2, <2>4, <2>5
<1>11. CASE kinds = <<"down", "wait", "move">>
  <2> DEFINE w == Ms(actions[2])
  <2>1. n = 4 /\ Kind(actions[1]) = "down" /\ Kind(actions[2]) = "wait" /\ Kind(actions[3]) = "move"
    <3>1. n = 3 + 1 /\ \A i \in 1..3 : Kind(actions[i]) = <<"down", "wait", "move">>[i]
      <4>1. DOMAIN kinds = 1..3 /\ 3 \in Nat
        BY <1>11
      <4>2. n = 3 + 1 /\ \A i \in 1..3 : Kind(actions[i]) = kinds[i]
        BY <4>1, KindsAre
      <4> QED BY <1>11, <4>2
    <3> QED BY <3>1
  <2>2. e[1] = GoTo(Goal(1), 0) /\ Goal(1) \in P /\ e[2] = Stay(w) /\ w \in Int /\ 0 <= w
        /\ e[3] = GoTo(Goal(3), 0) /\ Goal(3) \in P /\ e[4] = Stay(0)
    BY <1>1, <1>2, <2>1
  <2>3. ~(w > 0)
    BY <1>1, <2>1 DEF HasHoldThenDrag
  <2> HIDE DEF w
  <2>4. w = 0
    BY <2>2, <2>3
  <2>5. Told(actions, 0) = Onward(Onward(Onward(Onward(Start, GoTo(Goal(1), 0)), Stay(0)), GoTo(Goal(3), 0)), Stay(0))
    BY <2>1, <2>2, <2>4, ToldFew DEF e
  <2>6. Onward(Onward(Start, GoTo(Goal(1), 0)), Stay(0)) = Onward(Start, GoTo(Goal(1), 0))
    BY <2>2, StartHere
  <2>7. Told(actions, 0) = Onward(Onward(Start, GoTo(Goal(1), 0)), GoTo(Goal(3), 0))
    <3> DEFINE f == Onward(Onward(Start, GoTo(Goal(1), 0)), GoTo(Goal(3), 0))
    <3>1. f \in Fingers(P)
      BY <1>9, <2>2
    <3>2. Told(actions, 0) = Onward(f, Stay(0))
      BY <2>5, <2>6
    <3> HIDE DEF f
    <3>3. Onward(f, Stay(0)) = f
      BY <3>1, StayNothing
    <3> QED BY <3>2, <3>3 DEF f
  <2>8. Pattern(actions) = Ok(<<"swipe", Goal(1), Goal(3), w>>, <<>>)
    BY <1>11, PatternOf DEF w
  <2> QED BY <1>4, <1>9, <2>2, <2>7, <2>8
<1> QED BY <1>3, <1>6, <1>7, <1>10, <1>11 DEF PatternKinds

\* An accepted single touch is a gesture, or a pattern without a hold before a drag.
LEMMA SingleCases ==
    ASSUME NEW actions, NEW m, NEW can, NEW step, SingleTouch(actions, m, can, step).ok
    PROVE  /\ WellFormed(actions)
           /\ \/ SingleTouch(actions, m, can, step) = Gesture(<<actions>>, m, step)
              \/ /\ SingleTouch(actions, m, can, step) = Pattern(actions)
                 /\ ~HasCapture(actions) /\ ~HasHoldThenDrag(actions)
<1>1. ~Refused.ok
  BY DEF Refused, Performed
<1> QED BY <1>1 DEF SingleTouch

\* A single touch keeps what its finger is told.
LEMMA SingleWithin ==
    ASSUME NEW actions, Shaped(actions), NEW m \in Nat, NEW can, NEW step, SingleTouch(actions, m, can, step).ok
    PROVE  WellFormed(actions) /\ Within(Dispatched(SingleTouch(actions, m, can, step).call, 1), actions, m)
<1>1. WellFormed(actions)
  BY SingleCases
<1>2. CASE SingleTouch(actions, m, can, step) = Gesture(<<actions>>, m, step)
  <2> DEFINE touches == <<actions>>
  <2>1. 1 \in DOMAIN touches /\ touches[1] = actions
    OBVIOUS
  <2> HIDE DEF touches
  <2>2. Within(Dispatched(Gesture(touches, m, step).call, 1), actions, m)
    BY <1>1, <2>1, GestureWithin
  <2> QED BY <1>1, <1>2, <2>2 DEF touches
<1>3. CASE SingleTouch(actions, m, can, step) = Pattern(actions) /\ ~HasHoldThenDrag(actions)
  <2>1. Dispatched(Pattern(actions).call, 1) = Told(actions, 0)
    BY <1>1, <1>3, PatternWithin
  <2> QED BY <1>1, <1>3, <2>1, EarliestWithin
<1> QED BY <1>2, <1>3, SingleCases

\* An accepted multi-touch is a gesture.
LEMMA MultiCases ==
    ASSUME NEW touches, NEW m, NEW can, NEW step, MultiTouch(touches, m, can, step).ok
    PROVE  /\ \A t \in DOMAIN touches : WellFormed(touches[t].actions)
           /\ MultiTouch(touches, m, can, step) = Gesture([t \in DOMAIN touches |-> touches[t].actions], m, step)
<1> DEFINE paths == [t \in DOMAIN touches |-> touches[t].actions]
<1>1. ~Refused.ok
  BY DEF Refused, Performed
<1>2. (\A t \in DOMAIN paths : WellFormed(paths[t])) /\ MultiTouch(touches, m, can, step) = Gesture(paths, m, step)
  BY <1>1 DEF MultiTouch
<1> QED BY <1>2

-----------------------------------------------------------------------------
(* The pointer step.                                                        *)

TouchesOf(s) == Get(s, "touches")[2]
ActionsOf(s, t) == Get(TouchesOf(s)[t], "actions")[2]
PathsOf(s) == [t \in DOMAIN TouchesOf(s) |-> ActionsOf(s, t)]
MoveMsOf(s) == AmountOr(s, "moveDurationMs", DefaultMoveMs)

\* What ScriptPlay's definitions see to.
PointerShaped(s) ==
    /\ TouchesOf(s) \in Seq(ToSet(TouchesOf(s)))
    /\ \A t \in DOMAIN TouchesOf(s) : Shaped(ActionsOf(s, t))

\* An accepted pointer step is one gesture, or the pattern of its only touch.
LEMMA PointerCases ==
    ASSUME NEW s, PointerShaped(s), NEW can, NEW step, ExecutePointer(s, can, step).ok
    PROVE  /\ MoveMsOf(s) \in Nat
           /\ Len(TouchesOf(s)) \in Nat \ {0} /\ DOMAIN TouchesOf(s) = 1..Len(TouchesOf(s))
           /\ \A t \in DOMAIN TouchesOf(s) : WellFormed(ActionsOf(s, t))
           /\ \/ ExecutePointer(s, can, step) = Gesture(PathsOf(s), MoveMsOf(s), step)
              \/ /\ Len(TouchesOf(s)) = 1
                 /\ ExecutePointer(s, can, step) = Pattern(ActionsOf(s, 1))
                 /\ ~HasCapture(ActionsOf(s, 1)) /\ ~HasHoldThenDrag(ActionsOf(s, 1))
<1> DEFINE touches == TouchesOf(s)
           Touch(t) == [id |-> Get(t, "id"), actions |-> Get(t, "actions")[2]]
           m == MoveMsOf(s)
           multi == [t \in DOMAIN touches |-> Touch(touches[t])]
<1>1. ~Refused.ok
  BY DEF Refused, Performed
<1>2. ExecutePointer(s, can, step) =
        IF m \notin 0..MaxMoveMs \/ touches = <<>> THEN Refused
        ELSE IF Len(touches) > 1 THEN MultiTouch(multi, m, can, step)
        ELSE SingleTouch(Touch(touches[1]).actions, m, can, step)
  BY DEF ExecutePointer, TouchesOf, MoveMsOf
<1>3. m \in 0..MaxMoveMs /\ touches # <<>>
  BY <1>1, <1>2
<1>4. m \in Nat
  <2>1. \A x \in 0..MaxMoveMs : x \in Nat
    OBVIOUS
  <2> HIDE DEF m
  <2> QED BY <1>3, <2>1
<1>5. Len(touches) \in Nat /\ Len(touches) # 0 /\ DOMAIN touches = 1..Len(touches)
  <2>1. touches \in Seq(ToSet(touches))
    BY DEF PointerShaped
  <2> HIDE DEF touches
  <2> QED BY <1>3, <2>1
<1>6. CASE Len(touches) > 1
  <2>1. ExecutePointer(s, can, step) = MultiTouch(multi, m, can, step)
    BY <1>2, <1>3, <1>6
  <2>2. [t \in DOMAIN multi |-> multi[t].actions] = PathsOf(s)
    BY DEF PathsOf, ActionsOf
  <2>3. DOMAIN multi = DOMAIN touches /\ \A t \in DOMAIN touches : multi[t].actions = ActionsOf(s, t)
    BY DEF ActionsOf
  <2> HIDE DEF multi, m
  <2>4. /\ \A t \in DOMAIN multi : WellFormed(multi[t].actions)
        /\ MultiTouch(multi, m, can, step) = Gesture([t \in DOMAIN multi |-> multi[t].actions], m, step)
    BY <2>1, MultiCases
  <2>5. ExecutePointer(s, can, step) = Gesture(PathsOf(s), m, step)
    BY <2>1, <2>2, <2>4
  <2>6. \A t \in DOMAIN touches : WellFormed(ActionsOf(s, t))
    BY <2>3, <2>4
  <2> QED BY <1>4, <1>5, <2>5, <2>6 DEF m
<1>7. CASE ~(Len(touches) > 1)
  <2>1. ExecutePointer(s, can, step) = SingleTouch(ActionsOf(s, 1), m, can, step)
    BY <1>2, <1>3, <1>7 DEF ActionsOf
  <2>2. Len(touches) = 1 /\ DOMAIN touches = 1..1
    BY <1>5, <1>7
  <2>3. <<ActionsOf(s, 1)>> = PathsOf(s)
    <3> HIDE DEF touches
    <3> QED BY <2>2 DEF PathsOf, touches
  <2>4. /\ WellFormed(ActionsOf(s, 1))
        /\ \/ SingleTouch(ActionsOf(s, 1), m, can, step) = Gesture(<<ActionsOf(s, 1)>>, m, step)
           \/ /\ SingleTouch(ActionsOf(s, 1), m, can, step) = Pattern(ActionsOf(s, 1))
              /\ ~HasCapture(ActionsOf(s, 1)) /\ ~HasHoldThenDrag(ActionsOf(s, 1))
    BY <2>1, SingleCases
  <2>5. \A t \in DOMAIN touches : t = 1
    BY <2>2
  <2> HIDE DEF m
  <2> QED BY <1>4, <1>5, <2>1, <2>2, <2>3, <2>4, <2>5 DEF m
<1> QED BY <1>6, <1>7

\* A pointer step keeps what its fingers are told.
LEMMA PointerWithin ==
    ASSUME NEW s, PointerShaped(s), NEW can, NEW step, ExecutePointer(s, can, step).ok,
           NEW t \in DOMAIN TouchesOf(s)
    PROVE  Within(Dispatched(ExecutePointer(s, can, step).call, t), ActionsOf(s, t), MoveMsOf(s))
<1> DEFINE m == MoveMsOf(s)
<1>1. m \in Nat /\ Shaped(ActionsOf(s, t)) /\ WellFormed(ActionsOf(s, t))
  BY PointerCases DEF PointerShaped
<1> HIDE DEF m
<1>2. CASE ExecutePointer(s, can, step) = Gesture(PathsOf(s), m, step)
  <2>1. t \in DOMAIN PathsOf(s) /\ PathsOf(s)[t] = ActionsOf(s, t)
    BY DEF PathsOf
  <2>2. Within(Dispatched(Gesture(PathsOf(s), m, step).call, t), ActionsOf(s, t), m)
    BY <1>1, <2>1, GestureWithin
  <2> QED BY <1>2, <2>2 DEF m
<1>3. CASE /\ Len(TouchesOf(s)) = 1
           /\ ExecutePointer(s, can, step) = Pattern(ActionsOf(s, 1))
           /\ ~HasHoldThenDrag(ActionsOf(s, 1))
  <2>1. t = 1
    <3>1. DOMAIN TouchesOf(s) = 1..Len(TouchesOf(s))
      BY PointerCases
    <3>2. t \in 1..1
      BY <1>3, <3>1
    <3> QED BY <3>2
  <2>2. Dispatched(Pattern(ActionsOf(s, 1)).call, 1) = Told(ActionsOf(s, 1), 0)
    BY <1>1, <1>3, <2>1, PatternWithin
  <2>3. Within(Told(ActionsOf(s, 1), 0), ActionsOf(s, 1), m)
    BY <1>1, <2>1, EarliestWithin
  <2> QED BY <1>3, <2>1, <2>2, <2>3 DEF m
<1> QED BY <1>2, <1>3, PointerCases DEF m

-----------------------------------------------------------------------------
(* The long press.                                                          *)

\* The actions that executeLongPress writes read as it wrote them.
LEMMA ActionsWritten ==
    /\ \A type, target : Kind(To(type, target)) = type /\ Get(To(type, target), "target") = target
    /\ Kind(Up) = "up" /\ ~Given(Up, "target")
    /\ \A h : LET hold == TouchAction("wait", <<<<"ms", Num(h)>>>>)
              IN  Kind(hold) = "wait" /\ ~Given(hold, "target") /\ Ms(hold) = h
<1>1. ASSUME NEW type, NEW target
      PROVE  Kind(To(type, target)) = type /\ Get(To(type, target), "target") = target
  <2> DEFINE x == <<"type", Str(type)>>
             y == <<"target", target>>
             a == Map(<<x, y>>)
  <2>1. To(type, target) = a
    <3>1. <<x>> \o <<y>> = <<x, y>>
      <4> HIDE DEF x, y
      <4> QED BY OneMore
    <3> QED BY <3>1 DEF To, TouchAction
  <2>2. Get(a, "type") = Str(type) /\ Get(a, "target") = target
    BY TwoEntries
  <2> HIDE DEF a
  <2> QED BY <2>1, <2>2 DEF Kind, Str
<1>2. Kind(Up) = "up" /\ ~Given(Up, "target")
  <2> DEFINE x == <<"type", Str("up")>>
             a == Map(<<x>>)
  <2>1. Up = a
    <3>1. <<x>> \o <<>> = <<x>>
      OBVIOUS
    <3> QED BY <3>1 DEF Up, TouchAction
  <2>2. Get(a, "type") = Str("up") /\ Get(a, "target") = Nil
    BY OneEntry
  <2> HIDE DEF a
  <2> QED BY <2>1, <2>2 DEF Kind, Str, Given
<1>3. ASSUME NEW h
      PROVE  LET hold == TouchAction("wait", <<<<"ms", Num(h)>>>>)
             IN  Kind(hold) = "wait" /\ ~Given(hold, "target") /\ Ms(hold) = h
  <2> DEFINE x == <<"type", Str("wait")>>
             y == <<"ms", Num(h)>>
             a == Map(<<x, y>>)
  <2>1. TouchAction("wait", <<<<"ms", Num(h)>>>>) = a
    <3>1. <<x>> \o <<y>> = <<x, y>>
      <4> HIDE DEF x, y
      <4> QED BY OneMore
    <3> QED BY <3>1 DEF TouchAction
  <2>2. Get(a, "type") = Str("wait") /\ Get(a, "ms") = Num(h) /\ Get(a, "target") = Nil
    BY TwoEntries
  <2>3. Num(h) # Nil /\ Num(h)[2] = h
    <3>1. Len(Num(h)) = 2 /\ Len(Nil) = 1
      BY DEF Num, Nil
    <3> QED BY <3>1 DEF Num
  <2> HIDE DEF a
  <2>4. Kind(a) = "wait" /\ ~Given(a, "target")
    BY <2>2 DEF Kind, Str, Given
  <2>5. Ms(a) = h
    BY <2>2, <2>3 DEF Ms, AmountOr, Amount, Given
  <2> QED BY <2>1, <2>4, <2>5
<1> QED BY <1>1, <1>2, <1>3

HoldOf(s) == AmountOr(s, "holdMs", LongPressMs)
LongPressActions(s) ==
    LET down == To("down", Get(s, "at"))
        hold == TouchAction("wait", <<<<"ms", Num(HoldOf(s))>>>>)
        drag == To("move", Get(s, "thenSwipeTo"))
    IN  IF Given(s, "thenSwipeTo") THEN <<down, hold, drag, Up>> ELSE <<down, hold, Up>>

\* What the actions of a long press say is what the step says.
LEMMA LongPressTold ==
    ASSUME NEW s, Given(s, "at"), WellFormed(LongPressActions(s)), NEW m \in Nat
    PROVE  Shaped(LongPressActions(s)) /\ Told(LongPressActions(s), m) = ToldLongPress(s, m)
<1> DEFINE down == To("down", Get(s, "at"))
           hold == TouchAction("wait", <<<<"ms", Num(HoldOf(s))>>>>)
           drag == To("move", Get(s, "thenSwipeTo"))
           actions == LongPressActions(s)
           h == HoldOf(s)
           p == PointOf(Get(s, "at"))
           q == PointOf(Get(s, "thenSwipeTo"))
           P == PlacesOf(actions)
           e == ToldTrace(actions, m)
<1>1. /\ Kind(down) = "down" /\ Given(down, "target") /\ Aimed(down) = p
      /\ Kind(hold) = "wait" /\ ~Given(hold, "target") /\ Ms(hold) = h
      /\ Kind(drag) = "move" /\ (Given(s, "thenSwipeTo") => Given(drag, "target")) /\ Aimed(drag) = q
      /\ Kind(Up) = "up" /\ ~Given(Up, "target")
  <2>1. Get(down, "target") = Get(s, "at") /\ Get(drag, "target") = Get(s, "thenSwipeTo")
    BY ActionsWritten
  <2>2. Given(down, "target") /\ (Given(s, "thenSwipeTo") => Given(drag, "target"))
    BY <2>1 DEF Given
  <2>3. Aimed(down) = p /\ Aimed(drag) = q
    BY <2>1 DEF Aimed
  <2> QED BY <2>2, <2>3, ActionsWritten
<1>2. actions = IF Given(s, "thenSwipeTo") THEN <<down, hold, drag, Up>> ELSE <<down, hold, Up>>
  BY DEF LongPressActions
<1> HIDE DEF down, hold, drag, h, p, q, actions
<1>3. Shaped(actions)
  <2>0. /\ \A a \in {down, hold, Up} : Given(a, "target") = (Kind(a) \in {"down", "move"})
        /\ Given(s, "thenSwipeTo") => Given(drag, "target") = (Kind(drag) \in {"down", "move"})
    BY <1>1 DEF Given
  <2>1. CASE Given(s, "thenSwipeTo")
    <3>1. actions \in Seq(ToSet(actions)) /\ ToSet(actions) = {down, hold, drag, Up}
      BY <1>2, <2>1 DEF ToSet
    <3> QED BY <2>0, <2>1, <3>1 DEF Shaped
  <2>2. CASE ~Given(s, "thenSwipeTo")
    <3>1. actions \in Seq(ToSet(actions)) /\ ToSet(actions) = {down, hold, Up}
      BY <1>2, <2>2 DEF ToSet
    <3> QED BY <2>0, <2>2, <3>1 DEF Shaped
  <2> QED BY <2>1, <2>2
<1>4. WellFormed(actions)
  BY DEF actions
<1>5. IsTrace(e, P) /\ Len(e) = Len(actions) /\ Told(actions, m) = Followed(e)
  BY <1>3, <1>4, ToldTraces
<1>6. DOMAIN actions = 1..Len(actions) /\ 1 \in DOMAIN actions /\ Len(actions) \in Nat
  BY <1>3, <1>4, ShapeOf
<1>7. ASSUME NEW i \in 1..Len(actions)
      PROVE  /\ e[i] = IF Given(actions[i], "target") THEN GoTo(Aimed(actions[i]), Cost(actions[i], m))
                       ELSE Stay(Cost(actions[i], m))
             /\ Aimed(actions[i]) \in P
             /\ Kind(actions[i]) \in {"down", "up", "capture"} => Cost(actions[i], m) = 0
             /\ Kind(actions[i]) = "wait" => Cost(actions[i], m) = Ms(actions[i]) /\ Ms(actions[i]) \in Int
             /\ Kind(actions[i]) = "move" => Cost(actions[i], m) = m
  <2>1. Cost(actions[i], m) \in Nat
    BY <1>3, <1>4, Costs
  <2>2. /\ Kind(actions[i]) \in {"down", "up", "capture"} => Cost(actions[i], m) = 0
        /\ Kind(actions[i]) = "wait" => Cost(actions[i], m) = Ms(actions[i])
        /\ Kind(actions[i]) = "move" => Cost(actions[i], m) = m
    BY <1>3, <1>4, Costs
  <2>3. e[i] = IF Given(actions[i], "target") THEN GoTo(Aimed(actions[i]), Cost(actions[i], m))
               ELSE Stay(Cost(actions[i], m))
    BY <1>6 DEF ToldTrace
  <2>4. Aimed(actions[i]) \in P
    BY <1>6 DEF PlacesOf
  <2> HIDE DEF e, P
  <2> QED BY <2>1, <2>2, <2>3, <2>4
<1>8. ToldLongPress(s, m) = Followed(IF Given(s, "thenSwipeTo") THEN <<GoTo(p, 0), Stay(h), GoTo(q, m)>>
                                     ELSE <<GoTo(p, 0), Stay(h)>>)
  BY DEF ToldLongPress, p, q, h, HoldOf
<1> HIDE DEF e, P
<1>9. CASE Given(s, "thenSwipeTo")
  <2>1. Len(actions) = 4 /\ actions[1] = down /\ actions[2] = hold /\ actions[3] = drag /\ actions[4] = Up
    BY <1>2, <1>9
  <2>2. /\ e[1] = GoTo(p, 0) /\ e[2] = Stay(h) /\ e[3] = GoTo(q, m) /\ e[4] = Stay(0)
        /\ p \in P /\ q \in P /\ h \in Int
    <3>1. 1 \in 1..Len(actions) /\ 2 \in 1..Len(actions) /\ 3 \in 1..Len(actions) /\ 4 \in 1..Len(actions)
      BY <2>1
    <3>2. e[1] = GoTo(p, 0) /\ p \in P
      BY <1>1, <1>7, <2>1, <3>1
    <3>3. e[2] = Stay(h) /\ h \in Int
      BY <1>1, <1>7, <2>1, <3>1
    <3>4. e[3] = GoTo(q, m) /\ q \in P
      BY <1>1, <1>7, <1>9, <2>1, <3>1
    <3>5. e[4] = Stay(0)
      BY <1>1, <1>7, <2>1, <3>1
    <3> QED BY <3>2, <3>3, <3>4, <3>5
  <2> DEFINE t == <<GoTo(p, 0), Stay(h), GoTo(q, m)>>
  <2>3. IsTrace(t, P) /\ Len(t) = 3 /\ t[1] = GoTo(p, 0) /\ t[2] = Stay(h) /\ t[3] = GoTo(q, m)
    <3>1. /\ GoTo(p, 0) \in [to : {<<>>} \cup {<<x>> : x \in P}, ms : Int]
          /\ GoTo(q, m) \in [to : {<<>>} \cup {<<x>> : x \in P}, ms : Int]
          /\ Stay(h) \in [to : {<<>>} \cup {<<x>> : x \in P}, ms : Int]
      BY <2>2 DEF GoTo, Stay
    <3> DEFINE E == [to : {<<>>} \cup {<<x>> : x \in P}, ms : Int]
    <3> HIDE DEF E
    <3>2. t \in Seq(E)
      BY <3>1 DEF E
    <3> QED BY <3>2 DEF IsTrace, E
  <2> HIDE DEF t
  <2>4. Followed(t) = Onward(Onward(Onward(Start, t[1]), t[2]), t[3]) /\ Followed(t) \in Fingers(P)
    BY <2>3, FollowedFew
  <2>5. Followed(e) = Onward(Onward(Onward(Onward(Start, e[1]), e[2]), e[3]), e[4])
    BY <1>5, <2>1, FollowedFew
  <2>6. Followed(e) = Onward(Followed(t), Stay(0))
    BY <2>2, <2>3, <2>4, <2>5
  <2>7. Followed(e) = Followed(t)
    BY <2>4, <2>6, StayNothing
  <2> QED BY <1>3, <1>5, <1>8, <1>9, <2>7 DEF t, actions
<1>10. CASE ~Given(s, "thenSwipeTo")
  <2>1. Len(actions) = 3 /\ actions[1] = down /\ actions[2] = hold /\ actions[3] = Up
    BY <1>2, <1>10
  <2>2. /\ e[1] = GoTo(p, 0) /\ e[2] = Stay(h) /\ e[3] = Stay(0)
        /\ p \in P /\ h \in Int
    <3>1. 1 \in 1..Len(actions) /\ 2 \in 1..Len(actions) /\ 3 \in 1..Len(actions)
      BY <2>1
    <3>2. e[1] = GoTo(p, 0) /\ p \in P
      BY <1>1, <1>7, <2>1, <3>1
    <3>3. e[2] = Stay(h) /\ h \in Int
      BY <1>1, <1>7, <2>1, <3>1
    <3>4. e[3] = Stay(0)
      BY <1>1, <1>7, <2>1, <3>1
    <3> QED BY <3>2, <3>3, <3>4
  <2> DEFINE t == <<GoTo(p, 0), Stay(h)>>
  <2>3. IsTrace(t, P) /\ Len(t) = 2 /\ t[1] = GoTo(p, 0) /\ t[2] = Stay(h)
    <3>1. /\ GoTo(p, 0) \in [to : {<<>>} \cup {<<x>> : x \in P}, ms : Int]
          /\ Stay(h) \in [to : {<<>>} \cup {<<x>> : x \in P}, ms : Int]
      BY <2>2 DEF GoTo, Stay
    <3> DEFINE E == [to : {<<>>} \cup {<<x>> : x \in P}, ms : Int]
    <3> HIDE DEF E
    <3>2. t \in Seq(E)
      BY <3>1 DEF E
    <3> QED BY <3>2 DEF IsTrace, E
  <2> HIDE DEF t
  <2>4. Followed(t) = Onward(Onward(Start, t[1]), t[2]) /\ Followed(t) \in Fingers(P)
    BY <2>3, FollowedFew
  <2>5. Followed(e) = Onward(Onward(Onward(Start, e[1]), e[2]), e[3])
    BY <1>5, <2>1, FollowedFew
  <2>6. Followed(e) = Onward(Followed(t), Stay(0))
    BY <2>2, <2>3, <2>4, <2>5
  <2>7. Followed(e) = Followed(t)
    BY <2>4, <2>6, StayNothing
  <2> QED BY <1>3, <1>5, <1>8, <1>10, <2>7 DEF t, actions
<1> QED BY <1>9, <1>10

\* A long press keeps what its step says.
LEMMA LongPressWithin ==
    ASSUME NEW s, Given(s, "at"), NEW can, NEW step, ExecuteLongPress(s, can, step).ok
    PROVE  LET d == Dispatched(ExecuteLongPress(s, can, step).call, 1)
           IN  /\ d.places = ToldLongPress(s, 0).places
               /\ ToldLongPress(s, 0).rest <= d.rest /\ d.rest <= ToldLongPress(s, DefaultMoveMs).rest
<1> DEFINE actions == LongPressActions(s)
<1>1. ExecuteLongPress(s, can, step) = SingleTouch(actions, DefaultMoveMs, can, step)
  BY DEF ExecuteLongPress, LongPressActions, HoldOf
<1>2. DefaultMoveMs \in Nat /\ 0 \in Nat
  BY GestureLimits
<1> HIDE DEF actions
<1>3. WellFormed(actions)
  BY <1>1, SingleCases
<1>4. /\ Shaped(actions)
      /\ Told(actions, 0) = ToldLongPress(s, 0) /\ Told(actions, DefaultMoveMs) = ToldLongPress(s, DefaultMoveMs)
  BY <1>2, <1>3, LongPressTold DEF actions
<1>5. Within(Dispatched(SingleTouch(actions, DefaultMoveMs, can, step).call, 1), actions, DefaultMoveMs)
  BY <1>1, <1>2, <1>4, SingleWithin
<1> QED BY <1>1, <1>4, <1>5 DEF Within

-----------------------------------------------------------------------------
(* The script being played.                                                 *)

\* The last gesture is a step of the definition, performed by one of the drivers.
GesturePlayed ==
    /\ Playable(result)
    /\ run.gesture # <<>> => /\ run.gesture.step \in ToSet(Steps)
                             /\ \E can \in Drivers : \E n : run.gesture.played = Perform(run.gesture.step, can, n)

\* Playing keeps the last gesture a step of the definition, performed.
LEMMA GesturesPlayed == PlaySpec => []GesturePlayed
<1>1. PlayInit => GesturePlayed
  BY DEF PlayInit, GesturePlayed, Idle
<1>2. GesturePlayed /\ [PlayNext]_playVars => GesturePlayed'
  <2> SUFFICES ASSUME GesturePlayed, [PlayNext]_playVars
               PROVE  GesturePlayed'
    OBVIOUS
  <2>1. CASE UNCHANGED playVars
    BY <2>1 DEF GesturePlayed, playVars, Steps
  <2>2. CASE StartRun
    <3>1. run'.gesture = <<>> /\ result' = result
      BY <2>2 DEF StartRun, Idle
    <3> QED BY <3>1 DEF GesturePlayed
  <2>3. CASE PlayGesture
    <3>1. PICK can \in Drivers :
             run'.gesture = [played |-> Perform(NextStep, can, run.next), step |-> NextStep]
      BY <2>3 DEF PlayGesture, Passed
    <3>2. result' = result /\ NextStep \in ToSet(Steps)
      BY <2>3 DEF PlayGesture, Plays, NextStep, ToSet
    <3>3. Steps' = Steps
      BY <3>2 DEF Steps
    <3>4. run'.gesture.played = Perform(NextStep, can, run.next) /\ run'.gesture.step = NextStep
      BY <3>1
    <3>5. Playable(result)'
      BY <3>2 DEF GesturePlayed
    <3>6. run'.gesture.step \in ToSet(Steps')
      BY <3>2, <3>3, <3>4
    <3>7. \E c \in Drivers : \E n : run'.gesture.played = Perform(run'.gesture.step, c, n)
      BY <3>4
    <3> QED BY <3>5, <3>6, <3>7 DEF GesturePlayed
  <2>4. CASE PlayExtract \/ PlayAssertApi \/ PlayAssertVisible
    <3>1. run'.gesture = <<>> /\ result' = result
      BY <2>4 DEF PlayExtract, PlayAssertApi, PlayAssertVisible, Plays, Passed
    <3> QED BY <3>1 DEF GesturePlayed
  <2> QED BY <2>1, <2>2, <2>3, <2>4 DEF PlayNext
<1> QED BY <1>1, <1>2, PTL DEF PlaySpec

\* A pointer step of a playable definition, and how it was performed.
LEMMA PointerPlayed ==
    ASSUME GesturePlayed, Played, Get(run.gesture.step, "command") = Str("pointer")
    PROVE  /\ PointerShaped(run.gesture.step)
           /\ \E can \in Drivers : \E n :
                /\ run.gesture.played = ExecutePointer(run.gesture.step, can, n)
                /\ ExecutePointer(run.gesture.step, can, n).ok
<1> DEFINE s == run.gesture.step
<1>1. s \in ToSet(Steps) /\ run.gesture.played.ok
  BY DEF GesturePlayed, Played
<1>2. PICK can, n : can \in Drivers /\ run.gesture.played = Perform(s, can, n)
  BY DEF GesturePlayed, Played
<1>3. Get(s, "command")[2] = "pointer"
  BY DEF Str
<1> HIDE DEF s
<1>4. Perform(s, can, n) = ExecutePointer(s, can, n)
  BY <1>3 DEF Perform
<1>5. /\ TouchesOf(s) \in Seq(ToSet(TouchesOf(s)))
      /\ \A touch \in ToSet(TouchesOf(s)) : Shaped(Get(touch, "actions")[2])
  <2>1. Playable(result) /\ Get(s, "command") = Str("pointer")
    BY DEF GesturePlayed, s
  <2>2. /\ TouchesOf(s) \in Seq(ToSet(TouchesOf(s)))
        /\ \A touch \in ToSet(TouchesOf(s)) :
              LET actions == Get(touch, "actions")[2]
              IN /\ actions \in Seq(ToSet(actions))
                 /\ \A a \in ToSet(actions) : Given(a, "target") = (Kind(a) \in {"down", "move"})
    BY <1>1, <2>1 DEF Playable, Steps, TouchesOf
  <2> QED BY <2>2 DEF Shaped
<1>6. \A t \in DOMAIN TouchesOf(s) : TouchesOf(s)[t] \in ToSet(TouchesOf(s))
  BY DEF ToSet
<1>7. PointerShaped(s)
  BY <1>5, <1>6 DEF PointerShaped, ActionsOf
<1> QED BY <1>1, <1>2, <1>4, <1>7 DEF s

\* Every gesture that is played is the one that was written.
THEOREM GesturesKept == PlaySpec => []GestureKept
<1>1. GesturePlayed => GestureKept
  <2> SUFFICES ASSUME GesturePlayed, Played
               PROVE  GestureKept
    BY DEF GestureKept
  <2> DEFINE s == run.gesture.step
             call == run.gesture.played.call
  <2>1. ASSUME Get(s, "command") = Str("pointer"), NEW t \in DOMAIN TouchesOf(s)
        PROVE  /\ Dispatched(call, t).places = Told(ActionsOf(s, t), 0).places
               /\ Told(ActionsOf(s, t), 0).rest <= Dispatched(call, t).rest
               /\ Dispatched(call, t).rest <= Told(ActionsOf(s, t), MoveMsOf(s)).rest
    <3>1. PointerShaped(s)
      BY <2>1, PointerPlayed
    <3>2. PICK can, n : can \in Drivers /\ run.gesture.played = ExecutePointer(s, can, n) /\ ExecutePointer(s, can, n).ok
      BY <2>1, PointerPlayed
    <3>3. call = ExecutePointer(s, can, n).call
      BY <3>2
    <3> HIDE DEF s, call
    <3>4. Within(Dispatched(ExecutePointer(s, can, n).call, t), ActionsOf(s, t), MoveMsOf(s))
      BY <2>1, <3>1, <3>2, PointerWithin
    <3> QED BY <3>3, <3>4 DEF Within
  <2>2. ASSUME Get(s, "command") = Str("longPress")
        PROVE  /\ Dispatched(call, 1).places = ToldLongPress(s, 0).places
               /\ ToldLongPress(s, 0).rest <= Dispatched(call, 1).rest
               /\ Dispatched(call, 1).rest <= ToldLongPress(s, DefaultMoveMs).rest
    <3>1. s \in ToSet(Steps) /\ run.gesture.played.ok /\ Playable(result)
      BY DEF GesturePlayed, Played
    <3>2. PICK can, n : can \in Drivers /\ run.gesture.played = Perform(s, can, n)
      BY DEF GesturePlayed, Played
    <3>3. Get(s, "command")[2] = "longPress"
      BY <2>2 DEF Str
    <3>4. call = Perform(s, can, n).call /\ Perform(s, can, n).ok
      BY <3>1, <3>2
    <3> HIDE DEF s, call
    <3>5. Perform(s, can, n) = ExecuteLongPress(s, can, n)
      BY <3>3 DEF Perform
    <3>6. Given(s, "at")
      BY <2>2, <3>1 DEF Playable, Steps
    <3> QED BY <3>4, <3>5, <3>6, LongPressWithin
  <2> HIDE DEF s, call
  <2>3. Get(s, "command") = Str("pointer")
           => \A t \in DOMAIN Get(s, "touches")[2] :
                Keeps(Dispatched(call, t), LAMBDA ms : Told(Get(Get(s, "touches")[2][t], "actions")[2], ms),
                      AmountOr(s, "moveDurationMs", DefaultMoveMs))
    BY <2>1 DEF Keeps, TouchesOf, ActionsOf, MoveMsOf
  <2>4. Get(s, "command") = Str("longPress")
           => Keeps(Dispatched(call, 1), LAMBDA ms : ToldLongPress(s, ms), DefaultMoveMs)
    BY <2>2 DEF Keeps
  <2> QED BY <2>3, <2>4 DEF GestureKept, s, call
<1> QED BY <1>1, GesturesPlayed, PTL

-----------------------------------------------------------------------------
(* Counting captures.                                                       *)

\* Numbered lists the members of a finite set by their ranks.
LEMMA NumberedOnce ==
    ASSUME NEW L \in Nat, NEW K \in SUBSET (1..L)
    PROVE  /\ IsFiniteSet(K) /\ Cardinality(K) \in Nat /\ DOMAIN Numbered(K) = 1..Cardinality(K)
           /\ \A k \in 1..Cardinality(K) : Numbered(K)[k] \in K /\ Rank(K, Numbered(K)[k]) = k
           /\ \A i \in K : Rank(K, i) \in 1..Cardinality(K) /\ Numbered(K)[Rank(K, i)] = i
<1> DEFINE n == Cardinality(K)
           Pick(k) == CHOOSE i \in K : Rank(K, i) = k
<1>1. Numbered(K) = [k \in 1..n |-> Pick(k)]
  BY DEF Numbered, Rank
<1>2. /\ IsFiniteSet(K) /\ n \in Nat
      /\ \A i \in K : Rank(K, i) \in 1..n
      /\ \A i, j \in K : Rank(K, i) = Rank(K, j) => i = j
      /\ \A k \in 1..n : \E i \in K : Rank(K, i) = k
  BY RankSteps, RankedOnce
<1>3. \A k \in 1..n : Pick(k) \in K /\ Rank(K, Pick(k)) = k
  BY <1>2
<1>4. \A i \in K : Pick(Rank(K, i)) = i
  BY <1>2, <1>3
<1> HIDE DEF Pick, n
<1>5. DOMAIN Numbered(K) = 1..n /\ \A k \in 1..n : Numbered(K)[k] = Pick(k)
  BY <1>1
<1> QED BY <1>2, <1>3, <1>4, <1>5 DEF n

\* A member of the first set has the rank it had, one of the second follows them all.
LEMMA NumberedRanks ==
    ASSUME NEW L \in Nat, NEW K \in SUBSET (1..L)
    PROVE  /\ Rank(K, 0) = 0 /\ Rank(K, L) = Cardinality(K) /\ Cardinality(K) \in Nat
           /\ \A m \in Nat : Rank(K, m) \in Nat
           /\ \A m \in Nat : Rank(K, m + 1) = IF m + 1 \in K THEN Rank(K, m) + 1 ELSE Rank(K, m)
           /\ \A k \in 1..Cardinality(K) : Numbered(K)[k] \in K /\ Rank(K, Numbered(K)[k]) = k
           /\ \A i \in K : Numbered(K)[Rank(K, i)] = i
<1>1. /\ Rank(K, 0) = 0 /\ Rank(K, L) = Cardinality(K) /\ Cardinality(K) \in Nat
      /\ \A m \in Nat : Rank(K, m) \in Nat /\ Rank(K, m) <= Cardinality(K)
      /\ \A m \in Nat :
             Rank(K, m + 1) = IF m + 1 \in K THEN Rank(K, m) + 1 ELSE Rank(K, m)
      /\ \A m, n \in Nat : m <= n => Rank(K, m) <= Rank(K, n)
  BY RankSteps
<1>2. /\ \A k \in 1..Cardinality(K) : Numbered(K)[k] \in K /\ Rank(K, Numbered(K)[k]) = k
      /\ \A i \in K : Numbered(K)[Rank(K, i)] = i
  BY NumberedOnce
<1> QED BY <1>1, <1>2

\* The numbers of two sets, the second of which begins where the first has ended.
Joined(L, M, K, J, U) ==
    /\ L \in Nat /\ M \in Nat
    /\ K \in SUBSET (1..L) /\ J \in SUBSET (1..M) /\ U \in SUBSET (1..(L + M))
    /\ \A i \in 1..L : i \in U <=> i \in K
    /\ \A j \in 1..M : L + j \in U <=> j \in J

\* The numbering of both sets is that of the first and then that of the second.
LEMMA NumberedTwo ==
    ASSUME NEW L, NEW M, NEW K, NEW J, NEW U, Joined(L, M, K, J, U)
    PROVE  LET c == Cardinality(K)
               d == Cardinality(J)
           IN  /\ c \in Nat /\ d \in Nat /\ Cardinality(U) = c + d
               /\ \A n \in 1..c : Numbered(U)[n] = Numbered(K)[n]
               /\ \A n \in 1..d : Numbered(U)[c + n] = L + Numbered(J)[n]
<1> DEFINE c == Cardinality(K)
           d == Cardinality(J)
           N == L + M
<1>0. /\ L \in Nat /\ M \in Nat /\ N \in Nat /\ N = L + M
      /\ K \in SUBSET (1..L) /\ J \in SUBSET (1..M) /\ U \in SUBSET (1..N)
      /\ \A i \in 1..L : i \in U <=> i \in K
      /\ \A j \in 1..M : L + j \in U <=> j \in J
  BY DEF Joined
<1> USE <1>0
<1> HIDE DEF N
<1>1. \A i \in 1..L : Rank(U, i) = Rank(K, i)
  <2> SUFFICES ASSUME NEW i \in 1..L
               PROVE  Rank(U, i) = Rank(K, i)
    OBVIOUS
  <2>1. \A l \in 1..N : l <= i => l \in 1..L
    OBVIOUS
  <2>2. \A l \in K : l \in 1..L
    OBVIOUS
  <2>3. {l \in U : l <= i} = {l \in K : l <= i}
    BY <2>1, <2>2
  <2> QED BY <2>3 DEF Rank
<1>2. Rank(U, L) = c
  <2>1. \A l \in 1..N : l <= L <=> l \in 1..L
    OBVIOUS
  <2>2. \A l \in 1..L : l \in 1..N /\ l <= L
    OBVIOUS
  <2>3. {l \in U : l <= L} = K
    BY <2>1, <2>2
  <2> QED BY <2>3 DEF Rank
<1>3. /\ Rank(J, 0) = 0 /\ Rank(J, M) = d /\ d \in Nat /\ c \in Nat
      /\ \A m \in Nat : Rank(J, m) \in Nat
      /\ \A m \in Nat : Rank(J, m + 1) = IF m + 1 \in J THEN Rank(J, m) + 1 ELSE Rank(J, m)
      /\ \A m \in Nat : Rank(U, m + 1) = IF m + 1 \in U THEN Rank(U, m) + 1 ELSE Rank(U, m)
      /\ Rank(U, N) = Cardinality(U)
      /\ \A k \in 1..c : Numbered(K)[k] \in K /\ Rank(K, Numbered(K)[k]) = k
      /\ \A k \in 1..d : Numbered(J)[k] \in J /\ Rank(J, Numbered(J)[k]) = k
      /\ \A i \in U : Numbered(U)[Rank(U, i)] = i
  <2>1. /\ c \in Nat
        /\ \A k \in 1..c : Numbered(K)[k] \in K /\ Rank(K, Numbered(K)[k]) = k
    BY NumberedRanks
  <2>2. /\ Rank(J, 0) = 0 /\ Rank(J, M) = d /\ d \in Nat
        /\ \A m \in Nat : Rank(J, m) \in Nat
        /\ \A m \in Nat : Rank(J, m + 1) = IF m + 1 \in J THEN Rank(J, m) + 1 ELSE Rank(J, m)
        /\ \A k \in 1..d : Numbered(J)[k] \in J /\ Rank(J, Numbered(J)[k]) = k
    BY NumberedRanks, Zenon
  <2>3. /\ Rank(U, N) = Cardinality(U)
        /\ \A m \in Nat : Rank(U, m + 1) = IF m + 1 \in U THEN Rank(U, m) + 1 ELSE Rank(U, m)
        /\ \A i \in U : Numbered(U)[Rank(U, i)] = i
    BY NumberedRanks, Zenon
  <2> HIDE DEF c, d
  <2> QED BY <2>1, <2>2, <2>3
<1> DEFINE A == {j \in 0..M : Rank(U, L + j) = c + Rank(J, j)}
<1> HIDE DEF c, d
<1>4. \A j \in 0..M : j \in A
  <2>1. 0 \in A
    BY <1>2, <1>3
  <2>2. ASSUME NEW j \in 0..M, j \in A, j + 1 <= M
        PROVE  j + 1 \in A
    <3>1. j \in Nat /\ j + 1 \in 0..M /\ j + 1 \in 1..M /\ L + j \in Nat /\ L + (j + 1) = (L + j) + 1
      BY <2>2
    <3>2. Rank(U, (L + j) + 1) = IF (L + j) + 1 \in U THEN Rank(U, L + j) + 1 ELSE Rank(U, L + j)
      BY <1>3, <3>1
    <3>3. Rank(J, j + 1) = IF j + 1 \in J THEN Rank(J, j) + 1 ELSE Rank(J, j)
      BY <1>3, <3>1
    <3>4. (L + j) + 1 \in U <=> j + 1 \in J
      BY <3>1
    <3>5. Rank(U, L + j) = c + Rank(J, j) /\ Rank(J, j) \in Nat
      BY <1>3, <2>2, <3>1
    <3>6. Rank(U, (L + j) + 1) = c + Rank(J, j + 1)
      <4>1. c \in Nat /\ (c + Rank(J, j)) + 1 = c + (Rank(J, j) + 1)
        BY <1>3, <3>5
      <4>2. CASE j + 1 \in J
        BY <3>2, <3>3, <3>4, <3>5, <4>1, <4>2
      <4>3. CASE j + 1 \notin J
        BY <3>2, <3>3, <3>4, <3>5, <4>3
      <4> QED BY <4>2, <4>3
    <3> QED BY <3>1, <3>6
  <2> HIDE DEF A
  <2> QED BY <2>1, <2>2, Upwards
<1>5. Cardinality(U) = c + d
  <2>1. M \in 0..M
    OBVIOUS
  <2> QED BY <1>3, <1>4, <2>1
<1>6. ASSUME NEW n \in 1..c
      PROVE  Numbered(U)[n] = Numbered(K)[n]
  <2>1. Numbered(K)[n] \in K /\ Rank(K, Numbered(K)[n]) = n
    BY <1>3
  <2>2. Numbered(K)[n] \in 1..L /\ Numbered(K)[n] \in U
    BY <2>1
  <2>3. Rank(U, Numbered(K)[n]) = n
    BY <1>1, <2>1, <2>2
  <2> QED BY <1>3, <2>2, <2>3
<1>7. ASSUME NEW n \in 1..d
      PROVE  Numbered(U)[c + n] = L + Numbered(J)[n]
  <2>1. Numbered(J)[n] \in J /\ Rank(J, Numbered(J)[n]) = n
    BY <1>3
  <2>2. Numbered(J)[n] \in 1..M
    BY <2>1
  <2>3. L + Numbered(J)[n] \in U /\ Numbered(J)[n] \in 0..M
    BY <2>1, <2>2
  <2>4. Rank(U, L + Numbered(J)[n]) = c + n
    BY <1>4, <2>1, <2>3
  <2> QED BY <1>3, <2>3, <2>4
<1> QED BY <1>3, <1>5, <1>6, <1>7 DEF c, d

CapturesIn(actions) == {i \in DOMAIN actions : Kind(actions[i]) = "capture"}

\* Captures lists the captures of a sequence, each once.
LEMMA CapturesAre ==
    ASSUME NEW S, NEW a \in Seq(S)
    PROVE  /\ CapturesIn(a) \in SUBSET (1..Len(a)) /\ IsFiniteSet(CapturesIn(a))
           /\ Cardinality(CapturesIn(a)) \in Nat
           /\ DOMAIN Captures(a) = 1..Cardinality(CapturesIn(a))
           /\ \A n \in 1..Cardinality(CapturesIn(a)) : Captures(a)[n] \in CapturesIn(a)
           /\ \A i \in CapturesIn(a) : \E n \in 1..Cardinality(CapturesIn(a)) : Captures(a)[n] = i
           /\ \A m, n \in 1..Cardinality(CapturesIn(a)) : Captures(a)[m] = Captures(a)[n] => m = n
<1> DEFINE K == CapturesIn(a)
<1>1. Len(a) \in Nat /\ DOMAIN a = 1..Len(a) /\ K \in SUBSET (1..Len(a))
  BY DEF CapturesIn
<1>2. Captures(a) = Numbered(K)
  BY DEF Captures, CapturesIn
<1> HIDE DEF K
<1>3. /\ IsFiniteSet(K) /\ Cardinality(K) \in Nat /\ DOMAIN Numbered(K) = 1..Cardinality(K)
      /\ \A k \in 1..Cardinality(K) : Numbered(K)[k] \in K /\ Rank(K, Numbered(K)[k]) = k
      /\ \A i \in K : Rank(K, i) \in 1..Cardinality(K) /\ Numbered(K)[Rank(K, i)] = i
  BY <1>1, NumberedOnce
<1>4. \A i \in K : \E n \in 1..Cardinality(K) : Numbered(K)[n] = i
  BY <1>3
<1>5. \A m, n \in 1..Cardinality(K) : Numbered(K)[m] = Numbered(K)[n] => m = n
  BY <1>3
<1> QED BY <1>1, <1>2, <1>3, <1>4, <1>5 DEF K

\* The captures of two sequences, one after the other.
LEMMA CapturesTwo ==
    ASSUME NEW S, NEW a \in Seq(S), NEW b \in Seq(S)
    PROVE  LET c == Cardinality(CapturesIn(a))
               d == Cardinality(CapturesIn(b))
           IN  /\ Cardinality(CapturesIn(a \o b)) = c + d
               /\ \A n \in 1..c : Captures(a \o b)[n] = Captures(a)[n]
               /\ \A n \in 1..d : Captures(a \o b)[c + n] = Len(a) + Captures(b)[n]
<1> DEFINE ab == a \o b
           L == Len(a)
           M == Len(b)
           N == L + M
           K == CapturesIn(a)
           J == CapturesIn(b)
           U == CapturesIn(ab)
<1>1. /\ L \in Nat /\ M \in Nat /\ DOMAIN ab = 1..N
      /\ \A i \in 1..N : ab[i] = IF i <= L THEN a[i] ELSE b[i - L]
      /\ DOMAIN a = 1..L /\ DOMAIN b = 1..M
  OBVIOUS
<1>2. Captures(a) = Numbered(K) /\ Captures(b) = Numbered(J) /\ Captures(ab) = Numbered(U)
  BY DEF Captures, CapturesIn
<1> HIDE DEF ab, L, M
<1>3. K \in SUBSET (1..L) /\ J \in SUBSET (1..M) /\ U \in SUBSET (1..N) /\ N \in Nat
  BY <1>1 DEF CapturesIn
<1>4. ASSUME NEW i \in 1..L
      PROVE  i \in U <=> i \in K
  <2>1. i \in 1..N /\ i <= L
    BY <1>1
  <2>2. ab[i] = a[i]
    BY <1>1, <2>1
  <2> QED BY <1>1, <2>1, <2>2 DEF CapturesIn
<1>5. ASSUME NEW j \in 1..M
      PROVE  L + j \in U <=> j \in J
  <2>1. L + j \in 1..N /\ ~(L + j <= L) /\ (L + j) - L = j
    BY <1>1
  <2>2. ab[L + j] = b[j]
    BY <1>1, <2>1
  <2> QED BY <1>1, <2>1, <2>2 DEF CapturesIn
<1>6. N = L + M
  OBVIOUS
<1> HIDE DEF N, K, J, U
<1>7. Joined(L, M, K, J, U)
  <2>1. /\ \A i \in 1..L : i \in U <=> i \in K
        /\ \A j \in 1..M : L + j \in U <=> j \in J
    BY <1>4, <1>5
  <2> QED BY <1>1, <1>3, <1>6, <2>1 DEF Joined
<1>8. /\ Cardinality(U) = Cardinality(K) + Cardinality(J)
      /\ \A n \in 1..Cardinality(K) : Numbered(U)[n] = Numbered(K)[n]
      /\ \A n \in 1..Cardinality(J) : Numbered(U)[Cardinality(K) + n] = L + Numbered(J)[n]
  BY <1>7, NumberedTwo
<1> QED BY <1>2, <1>8 DEF K, J, U, L, ab

\* A sequence after another.
LEMMA JoinedAt ==
    ASSUME NEW S, NEW a \in Seq(S), NEW b \in Seq(S)
    PROVE  /\ a \o b \in Seq(S) /\ Len(a \o b) = Len(a) + Len(b) /\ Len(a) \in Nat /\ Len(b) \in Nat
           /\ \A n \in 1..Len(a) : (a \o b)[n] = a[n]
           /\ \A n \in 1..Len(b) : (a \o b)[Len(a) + n] = b[n]
<1>1. a \o b \in Seq(S) /\ Len(a \o b) = Len(a) + Len(b) /\ Len(a) \in Nat /\ Len(b) \in Nat
      /\ \A n \in 1..(Len(a) + Len(b)) : (a \o b)[n] = IF n <= Len(a) THEN a[n] ELSE b[n - Len(a)]
  OBVIOUS
<1>2. \A n \in 1..Len(a) : n \in 1..(Len(a) + Len(b)) /\ n <= Len(a)
  BY <1>1
<1>3. \A n \in 1..Len(b) : Len(a) + n \in 1..(Len(a) + Len(b)) /\ ~(Len(a) + n <= Len(a)) /\ (Len(a) + n) - Len(a) = n
  BY <1>1
<1> DEFINE ab == a \o b
<1> HIDE DEF ab
<1>4. /\ \A n \in 1..Len(a) : ab[n] = a[n]
      /\ \A n \in 1..Len(b) : ab[Len(a) + n] = b[n]
  BY <1>1, <1>2, <1>3 DEF ab
<1> QED BY <1>1, <1>4 DEF ab

\* A sequence after the empty one.
LEMMA EmptyFirst ==
    ASSUME NEW S, NEW s \in Seq(S)
    PROVE  <<>> \o s = s
  OBVIOUS

ClosedByJoining(Q) == \A x, y \in Q : x \o y \in Q

Turns(S, b, n, step) == b \in S /\ n \in Nat /\ step \in [1..n -> [S -> S]]

\* Loop, for a step that is known to be one.
LEMMA LoopOf ==
    ASSUME NEW S, NEW b, NEW n, NEW step, Turns(S, b, n, step)
    PROVE  \E f \in [0..n -> S] : f[0] = b /\ \A i \in 1..n : f[i] = step[i][f[i - 1]]
<1>1. b \in S /\ n \in Nat /\ step \in [1..n -> [S -> S]]
  BY DEF Turns
<1> QED BY <1>1, Loop, SMT

Joinable(Q, none, n, ss) ==
    none \in Q /\ n \in Nat /\ ClosedByJoining(Q) /\ \A i \in 1..n : ss[i] \in Q

Joining(Q, none, n, ss) ==
    \E f \in [0..n -> Q] : f[0] = none /\ \A i \in 1..n : f[i] = f[i - 1] \o ss[i]

\* Joining sequences one after the other has its intermediate results.
LEMMA JoinLoop ==
    ASSUME NEW Q, NEW none, NEW n, NEW ss, Joinable(Q, none, n, ss)
    PROVE  Joining(Q, none, n, ss)
<1> DEFINE step == [i \in 1..n |-> [x \in Q |-> x \o ss[i]]]
<1>0. none \in Q /\ n \in Nat /\ ClosedByJoining(Q) /\ \A i \in 1..n : ss[i] \in Q
  BY DEF Joinable
<1>1. step \in [1..n -> [Q -> Q]]
  BY <1>0 DEF ClosedByJoining
<1>2. \A i \in 1..n, x \in Q : step[i][x] = x \o ss[i]
  OBVIOUS
<1> HIDE DEF step
<1>30. \E f \in [0..n -> Q] : f[0] = none /\ \A i \in 1..n : f[i] = step[i][f[i - 1]]
  <2>1. Turns(Q, none, n, step)
    BY <1>0, <1>1 DEF Turns
  <2> QED BY <2>1, LoopOf
<1>3. PICK f \in [0..n -> Q] : f[0] = none /\ \A i \in 1..n : f[i] = step[i][f[i - 1]]
  BY <1>30
<1>4. \A i \in 1..n : i - 1 \in 0..n
  BY <1>0
<1>5. \A i \in 1..n : f[i] = f[i - 1] \o ss[i]
  BY <1>2, <1>3, <1>4
<1> QED BY <1>3, <1>5 DEF Joining

\* FlattenSeq joins its sequences one after the other, from the empty one.
LEMMA Flattened ==
    ASSUME NEW S, NEW ss \in Seq(Seq(S)), Len(ss) # 0
    PROVE  \E f \in [0..Len(ss) -> Seq(S)] :
             /\ f[0] = <<>> /\ FlattenSeq(ss) = f[Len(ss)]
             /\ \A i \in 0..Len(ss) : i + 1 <= Len(ss) => f[i + 1] = f[i] \o ss[i + 1]
<1> DEFINE n == Len(ss)
           Q == Seq(S)
           Is(h) == h = [i \in 1..n |-> IF i = 1 THEN ss[i] ELSE h[i - 1] \o ss[i]]
           h == CHOOSE h : Is(h)
<1>1. n \in Nat /\ 1 <= n /\ \A i \in 1..n : ss[i] \in Q
  OBVIOUS
<1>2. FlattenSeq(ss) = h[n]
  BY DEF FlattenSeq
<1>3. PICK f \in [0..n -> Q] : f[0] = <<>> /\ \A i \in 1..n : f[i] = f[i - 1] \o ss[i]
  <2> DEFINE none == <<>>
  <2>1. none \in Q /\ ClosedByJoining(Q)
    BY DEF ClosedByJoining
  <2>2. n \in Nat /\ \A i \in 1..n : ss[i] \in Q
    BY <1>1
  <2> HIDE DEF n, Q, none, h, Is
  <2>3. \E f \in [0..n -> Q] : f[0] = none /\ \A i \in 1..n : f[i] = f[i - 1] \o ss[i]
    <3>1. Joinable(Q, none, n, ss)
      BY <2>1, <2>2 DEF Joinable
    <3>2. Joining(Q, none, n, ss)
      BY <3>1, JoinLoop
    <3> QED BY <3>2 DEF Joining
  <2> QED BY <2>3 DEF none
<1> HIDE DEF h, Q
<1>4. \A i \in 1..n : f[i] = f[i - 1] \o ss[i] /\ i - 1 \in 0..n
  <2>1. \A i \in 1..n : i - 1 \in 0..n
    BY <1>1
  <2> QED BY <1>3, <2>1
<1>5. f[1] = ss[1]
  <2>1. 1 \in 1..n /\ 1 - 1 = 0 /\ ss[1] \in Q
    BY <1>1
  <2>2. f[1] = <<>> \o ss[1]
    <3> HIDE DEF n
    <3> QED BY <1>3, <1>4, <2>1
  <2> QED BY <2>1, <2>2, EmptyFirst DEF Q
<1>6. Is([i \in 1..n |-> f[i]])
  <2> DEFINE g == [i \in 1..n |-> f[i]]
  <2>1. ASSUME NEW i \in 1..n
        PROVE  g[i] = IF i = 1 THEN ss[i] ELSE g[i - 1] \o ss[i]
    <3>1. i # 1 => i - 1 \in 1..n
      BY <1>1
    <3> HIDE DEF n
    <3> QED BY <1>4, <1>5, <3>1
  <2>2. g = [i \in 1..n |-> g[i]]
    OBVIOUS
  <2> HIDE DEF g, n
  <2>3. Is(g)
    BY <2>1, <2>2
  <2> QED BY <2>3 DEF g, n
<1>7. Is(h)
  <2> HIDE DEF Is
  <2> QED BY <1>6 DEF h
<1>8. /\ h[1] = ss[1]
      /\ \A i \in 1..n : i + 1 <= n => h[i + 1] = h[i] \o ss[i + 1]
  <2>1. 1 \in 1..n /\ \A i \in 1..n : i + 1 <= n => i + 1 \in 1..n /\ i + 1 # 1 /\ (i + 1) - 1 = i
    BY <1>1
  <2> HIDE DEF n
  <2> QED BY <1>7, <2>1
<1> DEFINE A == {i \in 0..n : i # 0 => h[i] = f[i]}
<1>9. \A i \in 0..n : i \in A
  <2>1. 0 \in A
    BY <1>1
  <2>2. ASSUME NEW i \in 0..n, i \in A, i + 1 <= n
        PROVE  i + 1 \in A
    <3>1. i + 1 \in 1..n /\ i + 1 \in 0..n /\ (i + 1) - 1 = i /\ (i # 0 => i \in 1..n) /\ (i = 0 => i + 1 = 1)
      BY <1>1, <2>2
    <3>2. h[i + 1] = f[i + 1]
      <4>1. CASE i = 0
        <5> HIDE DEF n
        <5> QED BY <1>5, <1>8, <3>1, <4>1
      <4>2. CASE i # 0
        <5> HIDE DEF n
        <5>1. h[i + 1] = h[i] \o ss[i + 1] /\ f[i + 1] = f[i] \o ss[i + 1] /\ h[i] = f[i]
          BY <1>4, <1>8, <2>2, <3>1, <4>2
        <5> QED BY <5>1
      <4> QED BY <4>1, <4>2
    <3> HIDE DEF n
    <3> QED BY <3>1, <3>2
  <2>3. n \in Nat
    BY <1>1
  <2> HIDE DEF A, n
  <2> QED BY <2>1, <2>2, <2>3, Upwards
<1>10. h[n] = f[n]
  <2>1. n \in 0..n /\ n # 0
    BY <1>1
  <2> HIDE DEF n
  <2> QED BY <1>9, <2>1
<1>11. \A i \in 0..n : i + 1 <= n => f[i + 1] = f[i] \o ss[i + 1]
  <2>1. \A i \in 0..n : i + 1 <= n => i + 1 \in 1..n /\ (i + 1) - 1 = i
    BY <1>1
  <2> HIDE DEF n
  <2> QED BY <1>4, <2>1
<1> QED BY <1>2, <1>3, <1>10, <1>11 DEF Q

\* The images of a touch, in the order of its captures.
ImagesOf(t, actions) == [n \in DOMAIN Captures(actions) |-> <<t, Captures(actions)[n]>>]

\* Flattening the actions and the images of the first t touches alike: the nth image
\* is of the nth capture.
Counted(F, I, paths, t) ==
    /\ Len(I) = Cardinality(CapturesIn(F))
    /\ \A n \in 1..Len(I) : \E u \in 1..t : \E i \in CapturesIn(paths[u]) :
         I[n] = <<u, i>> /\ F[Captures(F)[n]] = paths[u][i]
    /\ \A u \in 1..t : \A i \in CapturesIn(paths[u]) : \E n \in 1..Len(I) : I[n] = <<u, i>>
    /\ \A m, n \in 1..Len(I) : I[m] = I[n] => m = n

\* Without touches there is nothing to count.
LEMMA CountedNone ==
    ASSUME NEW paths
    PROVE  Counted(<<>>, <<>>, paths, 0)
<1>1. CapturesIn(<<>>) = {}
  BY DEF CapturesIn
<1>2. Cardinality(CapturesIn(<<>>)) = 0
  BY <1>1, FS_EmptySet
<1> QED BY <1>2 DEF Counted

\* The next touch adds its captures and their images in the same order.
LEMMA CountedNext ==
    ASSUME NEW S, NEW paths \in Seq(Seq(S)), NEW t \in Nat, t + 1 <= Len(paths),
           NEW F \in Seq(S), NEW I \in Seq(Nat \X Nat), Counted(F, I, paths, t)
    PROVE  /\ ImagesOf(t + 1, paths[t + 1]) \in Seq(Nat \X Nat)
           /\ Counted(F \o paths[t + 1], I \o ImagesOf(t + 1, paths[t + 1]), paths, t + 1)
<1> DEFINE b == paths[t + 1]
           J == ImagesOf(t + 1, b)
           c == Cardinality(CapturesIn(F))
           d == Cardinality(CapturesIn(b))
           L == Len(F)
           G == F \o b
           H == I \o J
<1>1. t + 1 \in 1..Len(paths) /\ b \in Seq(S) /\ L \in Nat
  OBVIOUS
<1>2. /\ c \in Nat /\ DOMAIN Captures(F) = 1..c
      /\ \A n \in 1..c : Captures(F)[n] \in 1..L
  <2>1. /\ c \in Nat /\ DOMAIN Captures(F) = 1..c
        /\ \A n \in 1..c : Captures(F)[n] \in CapturesIn(F)
        /\ CapturesIn(F) \in SUBSET (1..L)
    BY CapturesAre
  <2> HIDE DEF c, L
  <2> QED BY <2>1
<1>3. /\ d \in Nat /\ DOMAIN Captures(b) = 1..d /\ CapturesIn(b) \in SUBSET (1..Len(b))
      /\ \A n \in 1..d : Captures(b)[n] \in CapturesIn(b)
      /\ \A i \in CapturesIn(b) : \E n \in 1..d : Captures(b)[n] = i
      /\ \A m, n \in 1..d : Captures(b)[m] = Captures(b)[n] => m = n
  <2> HIDE DEF b
  <2> QED BY <1>1, CapturesAre
<1>4. /\ Cardinality(CapturesIn(G)) = c + d
      /\ \A n \in 1..c : Captures(G)[n] = Captures(F)[n]
      /\ \A n \in 1..d : Captures(G)[c + n] = L + Captures(b)[n]
  <2> HIDE DEF b
  <2> QED BY <1>1, CapturesTwo
<1>5. J = [n \in 1..d |-> <<t + 1, Captures(b)[n]>>]
  BY <1>3 DEF ImagesOf
<1>6. J \in Seq(Nat \X Nat) /\ Len(J) = d /\ \A n \in 1..d : J[n] = <<t + 1, Captures(b)[n]>>
  <2>1. \A n \in 1..d : <<t + 1, Captures(b)[n]>> \in Nat \X Nat
    <3>1. \A i \in CapturesIn(b) : i \in Nat
      BY <1>3
    <3> HIDE DEF b, d
    <3> QED BY <1>3, <3>1
  <2> HIDE DEF J, b, d
  <2> QED BY <1>3, <1>5, <2>1
<1>7. /\ Len(I) = c
      /\ \A n \in 1..c : \E u \in 1..t : \E i \in CapturesIn(paths[u]) :
           I[n] = <<u, i>> /\ F[Captures(F)[n]] = paths[u][i]
      /\ \A u \in 1..t : \A i \in CapturesIn(paths[u]) : \E n \in 1..c : I[n] = <<u, i>>
      /\ \A m, n \in 1..c : I[m] = I[n] => m = n
  BY DEF Counted
<1> HIDE DEF J, c, d
<1>8. Len(H) = c + d /\ (\A n \in 1..c : H[n] = I[n]) /\ (\A n \in 1..d : H[c + n] = J[n])
  <2> DEFINE Q == Nat \X Nat
  <2>1. I \in Seq(Q) /\ J \in Seq(Q)
    BY <1>6
  <2> HIDE DEF Q
  <2>2. /\ Len(H) = Len(I) + Len(J)
        /\ \A n \in 1..Len(I) : H[n] = I[n]
        /\ \A n \in 1..Len(J) : H[Len(I) + n] = J[n]
    BY <2>1, JoinedAt
  <2> HIDE DEF H
  <2> QED BY <1>6, <1>7, <2>2
<1>9. (\A i \in 1..L : G[i] = F[i]) /\ (\A i \in 1..Len(b) : G[L + i] = b[i])
  <2> HIDE DEF b
  <2> QED BY <1>1, JoinedAt
<1>10. \A n \in 1..(c + d) : n \in 1..c \/ \E k \in 1..d : n = c + k
  <2> SUFFICES ASSUME NEW n \in 1..(c + d), n \notin 1..c
               PROVE  \E k \in 1..d : n = c + k
    OBVIOUS
  <2>1. n - c \in 1..d /\ n = c + (n - c)
    BY <1>2, <1>3
  <2> QED BY <2>1
<1>11. \A u \in 1..(t + 1) : u \in 1..t \/ u = t + 1
  OBVIOUS
<1>12. (\A u \in 1..t : u \in 1..(t + 1) /\ u # t + 1) /\ t + 1 \in 1..(t + 1)
  OBVIOUS
<1>13. (\A n \in 1..c : n \in 1..(c + d)) /\ (\A n \in 1..d : c + n \in 1..(c + d))
  BY <1>2, <1>3
<1> HIDE DEF G, H, L
<1>14. ASSUME NEW n \in 1..(c + d)
       PROVE  \E u \in 1..(t + 1) : \E i \in CapturesIn(paths[u]) : H[n] = <<u, i>> /\ G[Captures(G)[n]] = paths[u][i]
  <2>1. CASE n \in 1..c
    <3>1. PICK u \in 1..t : \E i \in CapturesIn(paths[u]) : I[n] = <<u, i>> /\ F[Captures(F)[n]] = paths[u][i]
      BY <1>7, <2>1
    <3>2. PICK i \in CapturesIn(paths[u]) : I[n] = <<u, i>> /\ F[Captures(F)[n]] = paths[u][i]
      BY <3>1
    <3>3. G[Captures(G)[n]] = F[Captures(F)[n]]
      BY <1>2, <1>4, <1>9, <2>1
    <3>4. H[n] = <<u, i>> /\ G[Captures(G)[n]] = paths[u][i]
      BY <1>8, <2>1, <3>2, <3>3
    <3>5. u \in 1..(t + 1)
      BY <1>12
    <3> QED BY <3>4, <3>5
  <2>2. ASSUME NEW k \in 1..d, n = c + k
        PROVE  \E u \in 1..(t + 1) : \E i \in CapturesIn(paths[u]) : H[n] = <<u, i>> /\ G[Captures(G)[n]] = paths[u][i]
    <3>1. Captures(b)[k] \in CapturesIn(b) /\ Captures(b)[k] \in 1..Len(b)
      BY <1>3
    <3>2. G[Captures(G)[n]] = b[Captures(b)[k]]
      BY <1>4, <1>9, <2>2, <3>1
    <3>3. H[n] = <<t + 1, Captures(b)[k]>>
      BY <1>6, <1>8, <2>2
    <3> QED BY <1>12, <3>1, <3>2, <3>3
  <2> QED BY <1>10, <2>1, <2>2
<1>15. ASSUME NEW u \in 1..(t + 1), NEW i \in CapturesIn(paths[u])
       PROVE  \E n \in 1..(c + d) : H[n] = <<u, i>>
  <2>1. CASE u \in 1..t
    <3>1. PICK n \in 1..c : I[n] = <<u, i>>
      BY <1>7, <2>1
    <3> QED BY <1>8, <1>13, <3>1
  <2>2. CASE u = t + 1
    <3>1. PICK n \in 1..d : Captures(b)[n] = i
      BY <1>3, <2>2
    <3>2. H[c + n] = <<u, i>>
      BY <1>6, <1>8, <2>2, <3>1
    <3> QED BY <1>13, <3>2
  <2> QED BY <1>11, <2>1, <2>2
<1>16. ASSUME NEW m \in 1..(c + d), NEW n \in 1..(c + d), H[m] = H[n]
       PROVE  m = n
  <2>1. ASSUME NEW k \in 1..d, NEW l \in 1..c
        PROVE  H[c + k] # H[l]
    <3>1. PICK u \in 1..t : \E i \in CapturesIn(paths[u]) : I[l] = <<u, i>>
      BY <1>7
    <3>2. PICK i : I[l] = <<u, i>>
      BY <3>1
    <3>3. H[l] = <<u, i>> /\ u # t + 1
      BY <1>8, <1>12, <3>2
    <3>4. H[c + k] = <<t + 1, Captures(b)[k]>>
      BY <1>6, <1>8
    <3> QED BY <3>3, <3>4
  <2>2. ASSUME NEW k \in 1..d, NEW l \in 1..d, H[c + k] = H[c + l]
        PROVE  k = l
    <3>1. H[c + k] = <<t + 1, Captures(b)[k]>> /\ H[c + l] = <<t + 1, Captures(b)[l]>>
      BY <1>6, <1>8
    <3>2. Captures(b)[k] = Captures(b)[l]
      <4> DEFINE x == Captures(b)[k]
                 y == Captures(b)[l]
      <4>1. <<t + 1, x>> = <<t + 1, y>>
        BY <2>2, <3>1
      <4> HIDE DEF x, y
      <4>2. x = y
        BY <4>1
      <4> QED BY <4>2 DEF x, y
    <3> QED BY <1>3, <3>2
  <2>3. CASE m \in 1..c /\ n \in 1..c
    BY <1>7, <1>8, <1>16, <2>3
  <2>4. CASE m \notin 1..c \/ n \notin 1..c
    BY <1>10, <1>16, <2>1, <2>2, <2>4
  <2> QED BY <2>3, <2>4
<1>17. Counted(G, H, paths, t + 1)
  <2>1. Len(H) = c + d /\ Len(H) = Cardinality(CapturesIn(G))
    BY <1>4, <1>8
  <2> DEFINE n == Len(H)
  <2>2. /\ \A k \in 1..n : \E u \in 1..(t + 1) : \E i \in CapturesIn(paths[u]) :
             H[k] = <<u, i>> /\ G[Captures(G)[k]] = paths[u][i]
        /\ \A u \in 1..(t + 1) : \A i \in CapturesIn(paths[u]) : \E k \in 1..n : H[k] = <<u, i>>
        /\ \A k, l \in 1..n : H[k] = H[l] => k = l
    <3>1. n = c + d
      BY <2>1
    <3> HIDE DEF n, b
    <3> QED BY <1>14, <1>15, <1>16, <3>1
  <2> HIDE DEF b
  <2> QED BY <2>1, <2>2 DEF Counted
<1> QED BY <1>6, <1>17 DEF J, G, H

\* The images of a touch are pairs of numbers.
LEMMA ImagesAre ==
    ASSUME NEW S, NEW a \in Seq(S), NEW t \in Nat
    PROVE  ImagesOf(t, a) \in Seq(Nat \X Nat)
<1> DEFINE d == Cardinality(CapturesIn(a))
<1>1. /\ d \in Nat /\ DOMAIN Captures(a) = 1..d /\ CapturesIn(a) \in SUBSET (1..Len(a))
      /\ \A n \in 1..d : Captures(a)[n] \in CapturesIn(a)
  BY CapturesAre
<1>2. \A i \in CapturesIn(a) : i \in Nat
  BY <1>1
<1> HIDE DEF d
<1>3. \A n \in 1..d : <<t, Captures(a)[n]>> \in Nat \X Nat
  BY <1>1, <1>2
<1>4. ImagesOf(t, a) = [n \in 1..d |-> <<t, Captures(a)[n]>>]
  BY <1>1 DEF ImagesOf
<1> QED BY <1>1, <1>3, <1>4

\* The images of all touches are counted like the captures of all actions.
LEMMA ImagesCounted ==
    ASSUME NEW S, NEW paths \in Seq(Seq(S)), Len(paths) # 0
    PROVE  /\ FlattenSeq(paths) \in Seq(S) /\ Images(paths) \in Seq(Nat \X Nat)
           /\ Counted(FlattenSeq(paths), Images(paths), paths, Len(paths))
<1> DEFINE n == Len(paths)
           Q == Nat \X Nat
           images == [t \in 1..n |-> ImagesOf(t, paths[t])]
<1>1. n \in Nat /\ n # 0 /\ DOMAIN paths = 1..n /\ \A t \in 1..n : t \in Nat /\ paths[t] \in Seq(S)
  OBVIOUS
<1>2. \A t \in 1..n : ImagesOf(t, paths[t]) \in Seq(Q)
  <2> HIDE DEF n
  <2> QED BY <1>1, ImagesAre
<1>3. images \in Seq(Seq(Q)) /\ Len(images) = n /\ \A t \in 1..n : images[t] = ImagesOf(t, paths[t])
  <2> HIDE DEF n, Q
  <2> QED BY <1>1, <1>2
<1>4. Images(paths) = FlattenSeq(images)
  BY <1>1 DEF Images, ImagesOf
<1>5. PICK f \in [0..n -> Seq(S)] :
        /\ f[0] = <<>> /\ FlattenSeq(paths) = f[n]
        /\ \A i \in 0..n : i + 1 <= n => f[i + 1] = f[i] \o paths[i + 1]
  BY <1>1, Flattened
<1> HIDE DEF images, n, Q
<1>6. PICK g \in [0..n -> Seq(Q)] :
        /\ g[0] = <<>> /\ FlattenSeq(images) = g[n]
        /\ \A i \in 0..n : i + 1 <= n => g[i + 1] = g[i] \o images[i + 1]
  <2>1. \E g \in [0..Len(images) -> Seq(Q)] :
             /\ g[0] = <<>> /\ FlattenSeq(images) = g[Len(images)]
             /\ \A i \in 0..Len(images) : i + 1 <= Len(images) => g[i + 1] = g[i] \o images[i + 1]
    BY <1>1, <1>3, Flattened
  <2> QED BY <1>3, <2>1
<1> DEFINE A == {t \in 0..n : Counted(f[t], g[t], paths, t)}
<1>7. \A t \in 0..n : t \in A
  <2>1. 0 \in A
    BY <1>1, <1>5, <1>6, CountedNone
  <2>2. ASSUME NEW t \in 0..n, t \in A, t + 1 <= n
        PROVE  t + 1 \in A
    <3>1. t \in Nat /\ t + 1 \in 1..n /\ t + 1 \in 0..n /\ t + 1 <= Len(paths)
      BY <1>1, <2>2 DEF n
    <3>2. f[t] \in Seq(S) /\ g[t] \in Seq(Nat \X Nat) /\ Counted(f[t], g[t], paths, t)
      BY <1>5, <1>6, <2>2 DEF Q
    <3>3. Counted(f[t] \o paths[t + 1], g[t] \o ImagesOf(t + 1, paths[t + 1]), paths, t + 1)
      <4> DEFINE F == f[t]
                 I == g[t]
      <4> HIDE DEF F, I
      <4>1. F \in Seq(S) /\ I \in Seq(Nat \X Nat) /\ Counted(F, I, paths, t)
        BY <3>2 DEF F, I
      <4>2. Counted(F \o paths[t + 1], I \o ImagesOf(t + 1, paths[t + 1]), paths, t + 1)
        BY <3>1, <4>1, CountedNext
      <4> QED BY <4>2 DEF F, I
    <3>4. f[t + 1] = f[t] \o paths[t + 1] /\ g[t + 1] = g[t] \o ImagesOf(t + 1, paths[t + 1])
      BY <1>3, <1>5, <1>6, <2>2, <3>1
    <3> QED BY <3>1, <3>3, <3>4
  <2> HIDE DEF A
  <2> QED BY <1>1, <2>1, <2>2, Upwards
<1>8. n \in 0..n
  BY <1>1
<1>9. Counted(f[n], g[n], paths, n)
  BY <1>7, <1>8
<1>10. f[n] \in Seq(S) /\ g[n] \in Seq(Q)
  BY <1>5, <1>6, <1>8
<1> QED BY <1>4, <1>5, <1>6, <1>9, <1>10 DEF n, Q

\* The captures of all touches, and the screenshots of them.
Marks(paths) == UNION {{<<t, i>> : i \in CapturesIn(paths[t])} : t \in DOMAIN paths}

\* There is one screenshot per capture, labelled as its capture or by its own number.
LEMMA ScreenshotsLabelled ==
    ASSUME NEW S, NEW paths \in Seq(Seq(S)), Len(paths) # 0, NEW step
    PROVE  LET shots == Screenshots(paths, step)
           IN  /\ {x.image : x \in ToSet(shots)} = Marks(paths)
               /\ Len(shots) = Cardinality(Marks(paths))
               /\ \A m \in DOMAIN shots : \E u \in DOMAIN paths : \E i \in CapturesIn(paths[u]) :
                    /\ shots[m].image = <<u, i>>
                    /\ shots[m].label = Label(paths[u][i], step, m)
<1> DEFINE F == FlattenSeq(paths)
           I == Images(paths)
           M == Marks(paths)
           n == Len(I)
           shots == Screenshots(paths, step)
<1>1. F \in Seq(S) /\ I \in Seq(Nat \X Nat) /\ Counted(F, I, paths, Len(paths)) /\ DOMAIN paths = 1..Len(paths)
  BY ImagesCounted
<1> HIDE DEF F, I, M
<1>2. n = Cardinality(CapturesIn(F)) /\ \A k, l \in 1..n : I[k] = I[l] => k = l
  BY <1>1 DEF Counted
<1>3. \A k \in 1..n : \E u \in 1..Len(paths) : \E i \in CapturesIn(paths[u]) :
         I[k] = <<u, i>> /\ F[Captures(F)[k]] = paths[u][i]
  BY <1>1 DEF Counted
<1>4. \A u \in 1..Len(paths) : \A i \in CapturesIn(paths[u]) : \E k \in 1..n : I[k] = <<u, i>>
  BY <1>1 DEF Counted
<1>5. n \in Nat /\ DOMAIN I = 1..n /\ DOMAIN Captures(F) = 1..n
  <2>1. DOMAIN Captures(F) = 1..Cardinality(CapturesIn(F))
    BY <1>1, CapturesAre
  <2>2. n \in Nat /\ DOMAIN I = 1..n
    BY <1>1
  <2> QED BY <1>2, <2>1, <2>2
<1> DEFINE labels == Labels(F, step)
<1>6. /\ DOMAIN labels = 1..n
      /\ \A k \in 1..n : labels[k] = Label(F[Captures(F)[k]], step, k)
  <2> HIDE DEF n
  <2> QED BY <1>5 DEF Labels
<1>7. shots = [k \in 1..n |-> [label |-> labels[k], image |-> I[k]]]
  <2>1. shots = [k \in DOMAIN I |-> [label |-> labels[k], image |-> I[k]]]
    BY DEF Screenshots, I, F
  <2> QED BY <1>5, <2>1
<1> HIDE DEF n, labels, shots
<1>8. /\ DOMAIN shots = 1..n /\ Len(shots) = n
      /\ \A k \in 1..n : shots[k].label = labels[k] /\ shots[k].image = I[k]
  BY <1>5, <1>7
<1>9. ASSUME NEW k \in 1..n
      PROVE  \E u \in DOMAIN paths : \E i \in CapturesIn(paths[u]) :
               shots[k].image = <<u, i>> /\ shots[k].label = Label(paths[u][i], step, k)
  <2>1. PICK u \in 1..Len(paths) : \E i \in CapturesIn(paths[u]) :
          I[k] = <<u, i>> /\ F[Captures(F)[k]] = paths[u][i]
    BY <1>3
  <2>2. PICK i \in CapturesIn(paths[u]) : I[k] = <<u, i>> /\ F[Captures(F)[k]] = paths[u][i]
    BY <2>1
  <2>3. shots[k].image = <<u, i>>
    BY <1>8, <2>2
  <2>4. shots[k].label = Label(paths[u][i], step, k)
    BY <1>6, <1>8, <2>2
  <2> QED BY <1>1, <2>2, <2>3, <2>4
<1>10. M = UNION {{<<t, i>> : i \in CapturesIn(paths[t])} : t \in 1..Len(paths)}
  BY <1>1 DEF M, Marks
<1>11. ASSUME NEW k \in 1..n
      PROVE  I[k] \in M
  <2>1. PICK u \in 1..Len(paths) : \E i \in CapturesIn(paths[u]) : I[k] = <<u, i>>
    <3>1. \E u \in 1..Len(paths) : \E i \in CapturesIn(paths[u]) :
            I[k] = <<u, i>> /\ F[Captures(F)[k]] = paths[u][i]
      BY <1>3
    <3> QED BY <3>1
  <2>2. I[k] \in {<<u, i>> : i \in CapturesIn(paths[u])}
    BY <2>1
  <2> QED BY <1>10, <2>2
<1>12. ASSUME NEW x \in M
      PROVE  \E k \in 1..n : I[k] = x
  <2>1. PICK u \in 1..Len(paths) : x \in {<<u, i>> : i \in CapturesIn(paths[u])}
    BY <1>10
  <2>2. PICK i \in CapturesIn(paths[u]) : x = <<u, i>>
    BY <2>1
  <2> QED BY <1>4, <2>2
<1>13. Cardinality(M) = n
  <2>1. I = [k \in 1..n |-> I[k]]
    BY <1>1, <1>5
  <2>2. I \in [1..n -> M]
    BY <1>11, <2>1
  <2>3. IsInjective(I)
    BY <1>2, <1>5 DEF IsInjective
  <2>4. I \in Bijection(1..n, M)
    BY <1>12, <2>2, <2>3 DEF Bijection, Injection, Surjection
  <2>5. ExistsBijection(1..n, M)
    BY <2>4 DEF ExistsBijection
  <2> QED BY <1>5, <2>5, FS_CountingElements
<1>14. {x.image : x \in ToSet(shots)} = M
  <2>1. \A x \in ToSet(shots) : \E k \in 1..n : x = shots[k]
    BY <1>8 DEF ToSet
  <2>2. \A k \in 1..n : shots[k] \in ToSet(shots)
    BY <1>8 DEF ToSet
  <2>3. ASSUME NEW x \in ToSet(shots)
        PROVE  x.image \in M
    BY <1>8, <1>11, <2>1
  <2>4. ASSUME NEW y \in M
        PROVE  \E x \in ToSet(shots) : x.image = y
    <3>1. PICK k \in 1..n : I[k] = y
      BY <1>12
    <3> QED BY <1>8, <2>2, <3>1
  <2> QED BY <2>3, <2>4
<1> QED BY <1>8, <1>9, <1>13, <1>14 DEF shots, M

LabelledAs(s, shots) ==
    LET Taken(x) == ActionsOf(s, x.image[1])[x.image[2]]
    IN  /\ {x.image : x \in ToSet(shots)} = Marks(PathsOf(s)) /\ Len(shots) = Cardinality(Marks(PathsOf(s)))
        /\ \A x \in ToSet(shots) : Given(Taken(x), "label") => x.label = <<Get(Taken(x), "label")[2]>>
        /\ \A x, y \in ToSet(shots) : x.label = y.label /\ x # y => Given(Taken(x), "label")

\* The touches of a step, as sequences of actions.
LEMMA PathsAre ==
    ASSUME NEW s, PointerShaped(s)
    PROVE  /\ \E S : PathsOf(s) \in Seq(Seq(S))
           /\ Len(PathsOf(s)) = Len(TouchesOf(s)) /\ DOMAIN PathsOf(s) = 1..Len(TouchesOf(s))
           /\ \A t \in 1..Len(TouchesOf(s)) : PathsOf(s)[t] = ActionsOf(s, t)
<1> DEFINE n == Len(TouchesOf(s))
           A(t) == ActionsOf(s, t)
           S == UNION {ToSet(A(t)) : t \in 1..n}
<1>1. n \in Nat /\ DOMAIN TouchesOf(s) = 1..n
  <2> DEFINE T == TouchesOf(s)
             R == ToSet(T)
  <2>1. T \in Seq(R)
    BY DEF PointerShaped
  <2> HIDE DEF T, R
  <2>2. Len(T) \in Nat /\ DOMAIN T = 1..Len(T)
    BY <2>1
  <2> QED BY <2>2 DEF T
<1>2. PathsOf(s) = [t \in 1..n |-> A(t)]
  BY <1>1 DEF PathsOf
<1> HIDE DEF n
<1>3. ASSUME NEW t \in 1..n
      PROVE  A(t) \in Seq(S)
  <2> DEFINE a == A(t)
             R == ToSet(a)
  <2>1. a \in Seq(R)
    BY <1>1 DEF PointerShaped, Shaped
  <2>2. \A x \in R : x \in S
    OBVIOUS
  <2> HIDE DEF a, R, S
  <2>3. a \in Seq(S)
    BY <2>1, <2>2
  <2> QED BY <2>3 DEF a
<1> HIDE DEF S
<1>4. PathsOf(s) \in Seq(Seq(S))
  <2> HIDE DEF A
  <2> QED BY <1>1, <1>2, <1>3
<1>5. Len(PathsOf(s)) = n /\ DOMAIN PathsOf(s) = 1..n /\ \A t \in 1..n : PathsOf(s)[t] = A(t)
  <2> HIDE DEF A
  <2> QED BY <1>1, <1>2
<1> QED BY <1>4, <1>5 DEF n

\* The screenshots of an accepted pointer step are those of its captures, as labelled.
LEMMA ShotsLabelled ==
    ASSUME NEW s, PointerShaped(s), NEW can, NEW step, ExecutePointer(s, can, step).ok
    PROVE  LabelledAs(s, ExecutePointer(s, can, step).shots)
<1> DEFINE P == PathsOf(s)
           n == Len(TouchesOf(s))
           Taken(x) == ActionsOf(s, x.image[1])[x.image[2]]
<1>1. /\ n \in Nat \ {0}
      /\ \/ ExecutePointer(s, can, step) = Gesture(P, MoveMsOf(s), step)
         \/ /\ n = 1 /\ ExecutePointer(s, can, step) = Pattern(ActionsOf(s, 1))
            /\ ~HasCapture(ActionsOf(s, 1)) /\ ~HasHoldThenDrag(ActionsOf(s, 1))
            /\ WellFormed(ActionsOf(s, 1)) /\ Shaped(ActionsOf(s, 1))
  <2>1. n \in Nat \ {0} /\ DOMAIN TouchesOf(s) = 1..n
    BY PointerCases
  <2>2. n = 1 => WellFormed(ActionsOf(s, 1)) /\ Shaped(ActionsOf(s, 1))
    <3>1. n = 1 => 1 \in DOMAIN TouchesOf(s)
      BY <2>1
    <3> HIDE DEF n
    <3> QED BY <3>1, PointerCases DEF PointerShaped
  <2> QED BY <2>1, <2>2, PointerCases
<1>2. Len(P) = n /\ DOMAIN P = 1..n /\ \A t \in 1..n : P[t] = ActionsOf(s, t)
  BY PathsAre
<1>3. PICK S : P \in Seq(Seq(S))
  BY PathsAre
<1> HIDE DEF P, n
<1>4. CASE ExecutePointer(s, can, step) = Gesture(P, MoveMsOf(s), step)
  <2> DEFINE shots == Screenshots(P, step)
  <2>1. ExecutePointer(s, can, step).shots = shots
    BY <1>4 DEF Gesture, Ok, Performed
  <2>2. /\ {x.image : x \in ToSet(shots)} = Marks(P) /\ Len(shots) = Cardinality(Marks(P))
        /\ \A m \in DOMAIN shots : \E u \in DOMAIN P : \E i \in CapturesIn(P[u]) :
             shots[m].image = <<u, i>> /\ shots[m].label = Label(P[u][i], step, m)
    <3>1. Len(P) # 0
      BY <1>1, <1>2
    <3> QED BY <1>3, <3>1, ScreenshotsLabelled
  <2> HIDE DEF shots
  <2>3. ASSUME NEW m \in DOMAIN shots
        PROVE  shots[m].label = Label(Taken(shots[m]), step, m)
    <3>1. PICK u \in DOMAIN P : \E i \in CapturesIn(P[u]) :
            shots[m].image = <<u, i>> /\ shots[m].label = Label(P[u][i], step, m)
      BY <2>2
    <3>2. PICK i : shots[m].image = <<u, i>> /\ shots[m].label = Label(P[u][i], step, m)
      BY <3>1
    <3>3. Taken(shots[m]) = P[u][i]
      BY <1>2, <3>2
    <3> QED BY <3>2, <3>3
  <2>4. ASSUME NEW x \in ToSet(shots)
        PROVE  \E m \in DOMAIN shots : x = shots[m]
    BY DEF ToSet
  <2>5. ASSUME NEW x \in ToSet(shots), Given(Taken(x), "label")
        PROVE  x.label = <<Get(Taken(x), "label")[2]>>
    <3>1. PICK m \in DOMAIN shots : x = shots[m]
      BY <2>4
    <3> QED BY <2>3, <2>5, <3>1 DEF Label
  <2>6. ASSUME NEW x \in ToSet(shots), NEW y \in ToSet(shots), x.label = y.label, x # y
        PROVE  Given(Taken(x), "label")
    <3> SUFFICES ASSUME ~Given(Taken(x), "label")
                 PROVE  FALSE
      OBVIOUS
    <3>1. PICK m \in DOMAIN shots : x = shots[m]
      BY <2>4
    <3>2. PICK k \in DOMAIN shots : y = shots[k]
      BY <2>4
    <3>3. m # k
      BY <2>6, <3>1, <3>2
    <3>4. x.label = <<step, m>>
      BY <2>3, <3>1 DEF Label
    <3>5. y.label = <<step, k>> \/ \E l : y.label = <<l>>
      BY <2>3, <3>2 DEF Label
    <3>6. \A l : <<step, m>> # <<l>>
      OBVIOUS
    <3>7. <<step, m>> # <<step, k>>
      BY <3>3
    <3> QED BY <2>6, <3>4, <3>5, <3>6, <3>7
  <2> QED BY <2>1, <2>2, <2>5, <2>6 DEF LabelledAs, P
<1>5. CASE /\ n = 1 /\ ExecutePointer(s, can, step) = Pattern(ActionsOf(s, 1))
           /\ ~HasCapture(ActionsOf(s, 1)) /\ ~HasHoldThenDrag(ActionsOf(s, 1))
           /\ WellFormed(ActionsOf(s, 1)) /\ Shaped(ActionsOf(s, 1))
  <2>1. ExecutePointer(s, can, step).shots = <<>>
    BY <1>5, PatternWithin
  <2>2. CapturesIn(ActionsOf(s, 1)) = {}
    BY <1>5 DEF CapturesIn, HasCapture, ToSet
  <2>3. Marks(P) = {}
    <3>1. \A t \in DOMAIN P : CapturesIn(P[t]) = {}
      BY <1>2, <1>5, <2>2
    <3> QED BY <3>1 DEF Marks
  <2>4. Cardinality(Marks(P)) = 0
    BY <2>3, FS_EmptySet
  <2>5. ToSet(<<>>) = {} /\ Len(<<>>) = 0
    BY DEF ToSet
  <2>6. {x.image : x \in ToSet(<<>>)} = {}
    BY <2>5
  <2> QED BY <2>1, <2>3, <2>4, <2>5, <2>6 DEF LabelledAs, P
<1> QED BY <1>1, <1>4, <1>5

\* Whatever is in a definition that the rules accept, and whatever a driver can do:
\* pointerCaptureLabels counts the captures of all touches, and routePointerCaptures
\* takes the images of the driver in the same order, so every capture has one
\* screenshot, with its own label or with the number of its step and its own number.
THEOREM CapturesKeepLabels == PlaySpec => []CapturesLabelled
<1>1. GesturePlayed => CapturesLabelled
  <2> SUFFICES ASSUME GesturePlayed, Played, Get(run.gesture.step, "command") = Str("pointer")
               PROVE  CapturesLabelled
    BY DEF CapturesLabelled
  <2> DEFINE s == run.gesture.step
             shots == run.gesture.played.shots
  <2>1. PointerShaped(s)
    BY PointerPlayed
  <2>2. PICK can, n : can \in Drivers /\ run.gesture.played = ExecutePointer(s, can, n) /\ ExecutePointer(s, can, n).ok
    BY PointerPlayed
  <2>3. shots = ExecutePointer(s, can, n).shots
    BY <2>2
  <2> HIDE DEF s, shots
  <2>4. LabelledAs(s, shots)
    BY <2>1, <2>2, <2>3, ShotsLabelled
  <2>5. Marks(PathsOf(s))
          = UNION {{<<t, i>> : i \in {i \in DOMAIN ActionsOf(s, t) : Kind(ActionsOf(s, t)[i]) = "capture"}} : t \in DOMAIN TouchesOf(s)}
    BY DEF Marks, PathsOf, CapturesIn
  <2> QED BY <2>4, <2>5 DEF CapturesLabelled, LabelledAs, ActionsOf, TouchesOf, s, shots
<1> QED BY <1>1, GesturesPlayed, PTL
=============================================================================
