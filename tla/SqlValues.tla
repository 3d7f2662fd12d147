------------------------------ MODULE SqlValues ------------------------------
(***************************************************************************)
(* The values of the SQL engine: Value (sql/parser/value.cpp), the         *)
(* comparison, arithmetic, LIKE and functions of expression.cpp, and the   *)
(* coercion of an assigned value (update_executor.cpp).                    *)
(*                                                                         *)
(* A number is a fraction <<numerator, denominator>> in lowest terms, a    *)
(* string a sequence of character codes: 0 .. 9 the digits, 10 .. 35 the   *)
(* capitals, 110 .. 135 the small letters and the signs below.  Numbers    *)
(* stay small: neither the width of int nor the rounding of float matters. *)
(***************************************************************************)
EXTENDS Integers, Sequences, FiniteSets, SequencesExt

Percent == 100
Underscore == 101
Dot == 102
Minus == 103
Space == 104

\* A result: a return code and, when it is SUCCESS, a value.
Ok(v) == [rc |-> "SUCCESS", v |-> v]

-----------------------------------------------------------------------------
(* Numbers. *)

Abs(i) == IF i < 0 THEN -i ELSE i
Gcd(a, b) == CHOOSE d \in 1 .. b : /\ a % d = 0 /\ b % d = 0
                                   /\ \A x \in (d + 1) .. b : ~(a % x = 0 /\ b % x = 0)
Sign(i) == IF i < 0 THEN -1 ELSE IF i > 0 THEN 1 ELSE 0
Divided(x, g) == <<Sign(x[2]) * (x[1] \div g), Sign(x[2]) * (x[2] \div g)>>
Lowest(x) == Divided(x, Gcd(Abs(x[1]), Abs(x[2])))
Frac(a, b) == Lowest(<<a, b>>)
FracCompare(x, y) == Sign(x[1] * y[2] - y[1] * x[2])
\* (int) of a float: towards zero.
Truncate(x) == Sign(x[1]) * (Abs(x[1]) \div x[2])

Null == [type |-> "NULLS", n |-> <<0, 1>>, s |-> <<>>]
Number(type, x) == [type |-> type, n |-> x, s |-> <<>>]
IntV(i) == Number("INTS", <<i, 1>>)
FloatV(a, b) == Number("FLOATS", Frac(a, b))
DateV(i) == Number("DATES", <<i, 1>>)
BoolV(b) == Number("BOOLEANS", <<IF b THEN 1 ELSE 0, 1>>)
StrV(s) == [type |-> "CHARS", n |-> <<0, 1>>, s |-> s]
Undefined == [type |-> "UNDEFINED", n |-> <<0, 1>>, s |-> <<>>]

IsNull(v) == v.type = "NULLS"
IsText(v) == v.type \in {"CHARS", "TEXTS"}

-----------------------------------------------------------------------------
(* Conversions. *)

\* std::stod and std::stol: the number a string starts with; none is an exception.
NumeralLength(s) == CHOOSE k \in 0 .. Len(s) : /\ \A i \in 1 .. k : s[i] \in 0 .. 9
                                               /\ k = Len(s) \/ s[k + 1] \notin 0 .. 9
ParseDigits(s) == LET Value[k \in 0 .. Len(s)] == IF k = 0 THEN 0 ELSE 10 * Value[k - 1] + s[k]
                  IN Value[Len(s)]
HasNumber(s) == NumeralLength(s) > 0
ToNumber(s) == ParseDigits(SubSeq(s, 1, NumeralLength(s)))

Digits(i) == LET D[x \in 0 .. i] == IF x < 10 THEN <<x>> ELSE Append(D[x \div 10], x % 10)
             IN D[i]
Signed(i) == IF i < 0 THEN <<Minus>> \o Digits(-i) ELSE Digits(i)
TwoDigits(i) == <<i \div 10, i % 10>>
NullText == <<23, 30, 21, 21>>

\* snprintf("%.2f"), the zeros at the end cut off.
CentsToString(cents) == Digits(cents \div 100) \o CASE cents % 100 = 0 -> <<>>
                                                    [] cents % 10 = 0 -> <<Dot, (cents \div 10) % 10>>
                                                    [] OTHER -> <<Dot>> \o TwoDigits(cents % 100)
FloatToString(x) == (IF x[1] < 0 THEN <<Minus>> ELSE <<>>)
                    \o CentsToString((2 * Abs(x[1]) * 100 + x[2]) \div (2 * x[2]))

DateToString(d) == LET y == d \div 10000
                   IN TwoDigits(y \div 100) \o TwoDigits(y % 100) \o <<Minus>>
                      \o TwoDigits((d % 10000) \div 100) \o <<Minus>> \o TwoDigits(d % 100)

ValueToString(v) == CASE IsNull(v) -> NullText
                 [] v.type \in {"INTS", "BOOLEANS"} -> Signed(v.n[1])
                 [] v.type = "FLOATS" -> FloatToString(v.n)
                 [] IsText(v) -> v.s
                 [] v.type = "DATES" -> DateToString(v.n[1])
                 [] OTHER -> <<>>

\* get_int: a date is not a number here.
GetInt(v) == CASE IsText(v) -> IF HasNumber(v.s) THEN ToNumber(v.s) ELSE 0
               [] v.type \in {"INTS", "FLOATS", "BOOLEANS"} -> Truncate(v.n)
               [] OTHER -> 0
GetDouble(v) == CASE IsText(v) -> IF HasNumber(v.s) THEN <<ToNumber(v.s), 1>> ELSE <<0, 1>>
                  [] OTHER -> v.n
GetFloat(v) == GetDouble(v)

\* get_boolean: any string that is not empty is true, "0" too; a date is false.
GetBoolean(v) == CASE IsText(v) -> v.s # <<>>
                   [] v.type \in {"INTS", "FLOATS", "BOOLEANS"} -> v.n[1] # 0
                   [] OTHER -> FALSE

\* Value::set_value copies a value; a TEXTS value becomes CHARS.
SetValue(v) == IF IsText(v) THEN StrV(v.s) ELSE v

-----------------------------------------------------------------------------
(* Comparison. *)

\* common::compare_string: the first difference, then the length.
StringCompare(s, t) ==
  LET Differ == {i \in DOMAIN s \cap DOMAIN t : s[i] # t[i]}
      At(i) == Sign(s[i] - t[i])
  IN IF Differ = {} THEN Sign(Len(s) - Len(t)) ELSE At(Min(Differ))

\* A string against a number: the number in it, and "less" when there is none.
TextCompare(s, x) == IF HasNumber(s) THEN FracCompare(<<ToNumber(s), 1>>, x) ELSE -1
Numeric == {"INTS", "FLOATS"}

Compare(a, b) ==
  CASE IsNull(a) \/ IsNull(b) -> -2
    [] a.type = b.type /\ IsText(a) -> StringCompare(a.s, b.s)
    [] a.type = b.type /\ a.type # "UNDEFINED" -> FracCompare(a.n, b.n)
    [] {a.type, b.type} = Numeric -> FracCompare(a.n, b.n)
    [] IsText(a) /\ b.type \in Numeric -> TextCompare(a.s, b.n)
    [] a.type \in Numeric /\ IsText(b) -> IF HasNumber(b.s) THEN -TextCompare(b.s, a.n) ELSE -1
    [] OTHER -> -1

\* match_like: one pass with one place to come back to, the last '%' met.  A '_'
\* is tried before the same character, and that before '%'.
RECURSIVE LikeFrom(_, _, _, _, _, _)
LikeFrom(str, pat, si, pi, star, back) ==
  LET At(set) == pi <= Len(pat) /\ pat[pi] \in set
  IN IF si > Len(str) THEN \A k \in pi .. Len(pat) : pat[k] = Percent
     ELSE IF At({Underscore, str[si]}) THEN LikeFrom(str, pat, si + 1, pi + 1, star, back)
     ELSE IF At({Percent}) THEN LikeFrom(str, pat, si, pi + 1, pi, si)
     ELSE star # 0 /\ LikeFrom(str, pat, back + 1, star + 1, star, back + 1)
MatchLike(str, pat) == LikeFrom(str, pat, 1, 1, 0, 0)

\* compare_value: only IS NULL and IS NOT NULL are true of a NULL.
SignHolds(op, c) == CASE op = "=" -> c = 0
                      [] op = "<>" -> c # 0
                      [] op = "<" -> c < 0
                      [] op = "<=" -> c <= 0
                      [] op = ">" -> c > 0
                      [] op = ">=" -> c >= 0
CompareValue(op, a, b) ==
  LET known == ~IsNull(a) /\ ~IsNull(b)
  IN CASE op = "IS_NULL" -> Ok(IsNull(a))
       [] op = "IS_NOT_NULL" -> Ok(~IsNull(a))
       [] op \in {"=", "<>", "<", "<=", ">", ">="} -> Ok(known /\ SignHolds(op, Compare(a, b)))
       [] op \in {"LIKE", "NOT LIKE"} -> Ok(known /\ MatchLike(ValueToString(a), ValueToString(b)) = (op = "LIKE"))
       [] OTHER -> IF known THEN [rc |-> "INTERNAL", v |-> FALSE] ELSE Ok(FALSE)

-----------------------------------------------------------------------------
(* Arithmetic and functions. *)

\* ArithmeticExpr::value_type from the types of the operands.
ArithType(op, types) == CASE Len(types) = 1 -> types[1]
                          [] op # "/" /\ \A i \in DOMAIN types : types[i] = "INTS" -> "INTS"
                          [] OTHER -> "FLOATS"

\* calc_value: NULL if an operand is, or the divisor is zero.
Operand(type, v) == IF type = "INTS" THEN <<GetInt(v), 1>> ELSE GetDouble(v)
CalcNumbers(op, type, x, y) ==
  IF op = "/" /\ y[1] = 0 THEN Null
  ELSE Number(type, Lowest(CASE op = "NEG" -> <<-x[1], x[2]>>
                             [] op = "+" -> <<x[1] * y[2] + y[1] * x[2], x[2] * y[2]>>
                             [] op = "-" -> <<x[1] * y[2] - y[1] * x[2], x[2] * y[2]>>
                             [] op = "*" -> <<x[1] * y[1], x[2] * y[2]>>
                             [] OTHER -> <<x[1] * y[2], x[2] * y[1]>>))
CalcValue(op, type, a, b) == IF IsNull(a) \/ (op # "NEG" /\ IsNull(b)) THEN Null
                             ELSE CalcNumbers(op, type, Operand(type, a), Operand(type, b))

\* Spaces at the end do not count.
TrimmedLength(s) == CHOOSE k \in 0 .. Len(s) : /\ \A i \in (k + 1) .. Len(s) : s[i] = Space
                                               /\ k = 0 \/ s[k] # Space

Small(s) == [i \in DOMAIN s |-> s[i] + 100]
DaySuffix(d) == CASE d \in 11 .. 13 -> Small(<<29, 17>>)       \* th
                  [] d \notin 11 .. 13 /\ d % 10 = 1 -> Small(<<28, 29>>)   \* st
                  [] d \notin 11 .. 13 /\ d % 10 = 2 -> Small(<<23, 13>>)   \* nd
                  [] d \notin 11 .. 13 /\ d % 10 = 3 -> Small(<<27, 13>>)   \* rd
                  [] OTHER -> Small(<<29, 17>>)

\* DATE_FORMAT: one specifier after the other is replaced in the whole format; a
\* month is the one letter here that its name starts with; a '%' left over goes.
MonthName(m) == <<(<<19, 15, 22, 10, 22, 19, 19, 10, 28, 24, 23, 13>>)[m]>>
Replaced(s, c, new) == FlattenSeq([i \in DOMAIN s |->
  CASE s[i] = Percent /\ i < Len(s) /\ s[i + 1] = c -> new
    [] s[i] = c /\ i > 1 /\ s[i - 1] = Percent -> <<>>
    [] OTHER -> <<s[i]>>])
DateFormat(d, fmt) ==
  LET y == d \div 10000
      m == (d % 10000) \div 100
      day == d % 100
      steps == << <<34, TwoDigits(y \div 100) \o TwoDigits(y % 100)>>, <<134, TwoDigits(y % 100)>>,
                  <<22, MonthName(m)>>, <<122, TwoDigits(m)>>,
                  <<13, Digits(day) \o DaySuffix(day)>>, <<113, TwoDigits(day)>> >>
      Done[k \in 0 .. 6] == IF k = 0 THEN fmt
                            ELSE Replaced(Done[k - 1], steps[k][1], steps[k][2])
  IN SelectSeq(Done[6], LAMBDA c : c # Percent)

Round(x, digits) == LET f == IF digits = 0 THEN 1 ELSE IF digits = 1 THEN 10 ELSE 100
                        up == (2 * Abs(x[1]) * f + x[2]) \div (2 * x[2])
                    IN Frac(Sign(x[1]) * up, f)

BadArgument == [rc |-> "INVALID_ARGUMENT", v |-> Null]
EvalFunction(name, args) ==
  LET types == [i \in DOMAIN args |-> args[i].type]
  IN CASE name = "length" -> IF types \in {<<"CHARS">>, <<"TEXTS">>}
                             THEN Ok(IntV(TrimmedLength(args[1].s))) ELSE BadArgument
       [] name = "round" -> CASE types = <<"FLOATS">> -> Ok(IntV(Truncate(Round(args[1].n, 0))))
                              [] types = <<"FLOATS", "INTS">> ->
                                   Ok(Number("FLOATS", Round(args[1].n, args[2].n[1])))
                              [] OTHER -> BadArgument
       [] name = "date_format" -> IF types = <<"DATES", "CHARS">>
                                  THEN Ok(StrV(DateFormat(args[1].n[1], args[2].s))) ELSE BadArgument
       [] OTHER -> [rc |-> "UNIMPLENMENT", v |-> Null]

FunctionType(name, args) == CASE name = "length" -> "INTS"
                              [] name = "round" -> IF Len(args) >= 2 THEN "FLOATS" ELSE "INTS"
                              [] name = "date_format" -> "CHARS"
                              [] OTHER -> "UNDEFINED"
=============================================================================
