----------------------------- MODULE MapperValue -----------------------------
(***************************************************************************)
(* The value algebra of MapperScript (backend/src/foundation/mapper.rs):   *)
(* the EvalResult variants, number parsing and formatting, the epsilon     *)
(* comparison, Matches / Compare, concat_args and the captures of the      *)
(* regular expressions a script may use.                                   *)
(*                                                                         *)
(* Data abstraction.  A string is a sequence of characters over a small    *)
(* ASCII alphabet, compared by code point as Rust's String::cmp does.  An  *)
(* f64 is a fixed-point integer in units of 1/Scale: every number the      *)
(* model produces has at most four decimals, so the epsilon of 1e-3 used   *)
(* by compare_number and format_number is exact.  A regular expression is *)
(* one of a few named patterns whose captures_iter is written out below.   *)
(***************************************************************************)
EXTENDS Integers, Sequences, SequencesExt, TLC

\* Digit characters, indexed by their value plus one.
DigitChars == <<"0", "1", "2", "3", "4", "5", "6", "7", "8", "9">>

\* ASCII code points of the alphabet; Rust compares strings byte-wise.
Code == [d \in Range(DigitChars) |-> 48 + SelectInSeq(DigitChars, LAMBDA c : c = d) - 1]
        @@ (" " :> 32) @@ ("," :> 44) @@ ("-" :> 45) @@ ("." :> 46)
        @@ (":" :> 58) @@ ("A" :> 65) @@ ("a" :> 97)

Chars == DOMAIN Code

IsDigit(c) == c \in Range(DigitChars)

DigitVal(c) == Code[c] - 48

Str(s) == s \in Seq(Chars)

-----------------------------------------------------------------------------
(* Strings                                                                 *)

\* String::cmp: lexicographic by code point, a proper prefix is smaller.
RECURSIVE StrCmp(_, _)
StrCmp(s, t) ==
  CASE s = <<>> /\ t = <<>>      -> "Equal"
    [] s = <<>>                  -> "Less"
    [] t = <<>>                  -> "Greater"
    [] Code[s[1]] < Code[t[1]]   -> "Less"
    [] Code[s[1]] > Code[t[1]]   -> "Greater"
    [] OTHER                     -> StrCmp(Tail(s), Tail(t))

\* to_uppercase / to_lowercase on the alphabet (only letters change).
ToUpper(s) == [i \in DOMAIN s |-> IF s[i] = "a" THEN "A" ELSE s[i]]
ToLower(s) == [i \in DOMAIN s |-> IF s[i] = "A" THEN "a" ELSE s[i]]

\* str::trim: drop leading and trailing whitespace.
Trim(s) ==
  LET first == SelectInSeq(s, LAMBDA c : c # " ")
      last  == SelectLastInSeq(s, LAMBDA c : c # " ")
  IN IF first = 0 THEN <<>> ELSE SubSeq(s, first, last)

\* shared::utils::Capitalize: first character upper-cased, rest unchanged.
Capitalize(s) == IF s = <<>> THEN s ELSE <<ToUpper(<<s[1]>>)[1]>> \o Tail(s)

\* [String]::join(sep)
Join(pieces, sep) ==
  IF pieces = <<>> THEN <<>>
  ELSE FoldLeft(LAMBDA acc, p : acc \o sep \o p, pieces[1], Tail(pieces))

-----------------------------------------------------------------------------
(* Numbers: f64 as fixed point in units of 1/Scale                         *)

Scale == 10000
Epsilon == 10            \* 1e-3 in units of 1/Scale

Abs(x) == IF x < 0 THEN -x ELSE x

\* f64::trunc, in whole units, and f64::fract, in units of 1/Scale.
Trunc(x) == IF x >= 0 THEN x \div Scale ELSE -((-x) \div Scale)
Fract(x) == x - Trunc(x) * Scale

RECURSIVE NatStr(_)
NatStr(n) == IF n < 10 THEN <<DigitChars[n + 1]>>
             ELSE NatStr(n \div 10) \o <<DigitChars[(n % 10) + 1]>>

\* Display of i64.
IntStr(n) == IF n < 0 THEN <<"-">> \o NatStr(-n) ELSE NatStr(n)

\* Display of a non-integral f64: shortest decimal, no trailing zeros.
DecStr(x) ==
  LET f      == Abs(x) % Scale
      padded == [i \in 1..4 |-> DigitChars[((f \div (10 ^ (4 - i))) % 10) + 1]]
      digits == SubSeq(padded, 1, SelectLastInSeq(padded, LAMBDA c : c # "0"))
  IN (IF x < 0 THEN <<"-">> ELSE <<>>) \o NatStr(Abs(x) \div Scale) \o <<".">> \o digits

FormatNumberLe(x) == IF Abs(Fract(x)) <= Epsilon THEN IntStr(Trunc(x)) ELSE DecStr(x)

\* format_number: integral when |fract| < epsilon (printed via `as i64`).
FormatNumber(x) == IF Abs(Fract(x)) < Epsilon THEN IntStr(Trunc(x)) ELSE DecStr(x)

CompareNumberLe(a, b) ==
  IF Abs(a - b) <= Epsilon THEN "Equal" ELSE IF a < b THEN "Less" ELSE "Greater"

\* compare_number: equal within epsilon, otherwise the numeric order.
CompareNumber(a, b) ==
  IF Abs(a - b) < Epsilon THEN "Equal" ELSE IF a < b THEN "Less" ELSE "Greater"

\* str::parse::<f64> restricted to the alphabet: optional "-", digits with
\* at most one ".", at least one digit ("1." and ".5" are accepted, as in
\* Rust).  Decimals beyond the fourth are rounded to the grid.
DigitsVal(ds) == FoldLeft(LAMBDA acc, c : acc * 10 + DigitVal(c), 0, ds)
ParseF64(s) ==
  LET body  == IF s # <<>> /\ s[1] = "-" THEN Tail(s) ELSE s
      dot   == SelectInSeq(body, LAMBDA c : c = ".")
      ip    == IF dot = 0 THEN body ELSE SubSeq(body, 1, dot - 1)
      fp    == IF dot = 0 THEN <<>> ELSE SubSeq(body, dot + 1, Len(body))
      fp5   == [i \in 1..5 |-> IF i <= Len(fp) THEN fp[i] ELSE "0"]
      frac  == (DigitsVal(SubSeq(fp5, 1, 4)) * 10 + DigitVal(fp5[5]) + 5) \div 10
      mag   == DigitsVal(ip) * Scale + frac
      ok    == /\ \A i \in DOMAIN ip : IsDigit(ip[i])
               /\ \A i \in DOMAIN fp : IsDigit(fp[i])
               /\ Len(ip) + Len(fp) > 0
  IN IF ok THEN [ok |-> TRUE, n |-> IF s # <<>> /\ s[1] = "-" THEN -mag ELSE mag]
     ELSE [ok |-> FALSE]

-----------------------------------------------------------------------------
(* EvalResult                                                              *)

Undefined   == [k |-> "Undefined"]
Value(s)    == [k |-> "Value", s |-> s]
Number(n)   == [k |-> "Number", n |-> n]
Named(p)    == [k |-> "Named", pairs |-> p]
AnyValue    == [k |-> "AnyValue"]
\* A Failure keeps its root cause; the message text is not modelled.
Failure(c)  == [k |-> "Failure", cause |-> c]

IsError(r) == r.k = "Failure"

\* to_number
ToNumber(s) == LET p == ParseF64(s) IN IF p.ok THEN Number(p.n) ELSE Failure("InvalidNumber")

\* compare_tuple_vec: both pair lists collected into maps (a later pair
\* overwrites an earlier one with the same key) and compared as maps.
PairsToMap(p) ==
  [key \in {p[i][1] : i \in DOMAIN p} |->
     p[SelectLastInSeq(p, LAMBDA q : q[1] = key)][2]]
CompareTupleVec(a, b) == PairsToMap(a) = PairsToMap(b)

\* match_number / cmp_number: parse the string, compare numerically.
CmpNumber(num, s) ==
  LET p == ParseF64(s) IN IF p.ok THEN CompareNumber(num, p.n) ELSE "None"

Invert(o) == CASE o = "Less" -> "Greater" [] o = "Greater" -> "Less" [] OTHER -> o

\* EvalResult::matches
Matches(a, b) ==
  CASE a.k = "AnyValue" \/ b.k = "AnyValue"  -> TRUE
    [] a.k = "Value"  /\ b.k = "Value"       -> a.s = b.s
    [] a.k = "Number" /\ b.k = "Value"       -> CmpNumber(a.n, b.s) = "Equal"
    [] a.k = "Value"  /\ b.k = "Number"      -> CmpNumber(b.n, a.s) = "Equal"
    [] a.k = "Number" /\ b.k = "Number"      -> CompareNumber(a.n, b.n) = "Equal"
    [] a.k = "Named"  /\ b.k = "Named"       -> CompareTupleVec(a.pairs, b.pairs)
    [] OTHER                                 -> FALSE

CompareNoInvert(a, b) ==
  CASE a.k = "AnyValue" \/ b.k = "AnyValue"  -> "Equal"
    [] a.k = "Value"  /\ b.k = "Value"       -> StrCmp(a.s, b.s)
    [] a.k = "Number" /\ b.k = "Value"       -> CmpNumber(a.n, b.s)
    [] a.k = "Value"  /\ b.k = "Number"      -> CmpNumber(b.n, a.s)
    [] a.k = "Number" /\ b.k = "Number"      -> CompareNumber(a.n, b.n)
    [] a.k = "Named"  /\ b.k = "Named"       -> IF CompareTupleVec(a.pairs, b.pairs)
                                                THEN "Equal" ELSE "None"
    [] OTHER                                 -> "None"

\* EvalResult::compare; "None" is the incomparable outcome.
Compare(a, b) ==
  CASE a.k = "AnyValue" \/ b.k = "AnyValue"  -> "Equal"
    [] a.k = "Value"  /\ b.k = "Value"       -> StrCmp(a.s, b.s)
    [] a.k = "Number" /\ b.k = "Value"       -> CmpNumber(a.n, b.s)
    [] a.k = "Value"  /\ b.k = "Number"      -> Invert(CmpNumber(b.n, a.s))
    [] a.k = "Number" /\ b.k = "Number"      -> CompareNumber(a.n, b.n)
    [] a.k = "Named"  /\ b.k = "Named"       -> IF CompareTupleVec(a.pairs, b.pairs)
                                                THEN "Equal" ELSE "None"
    [] OTHER                                 -> "None"

\* Whether a map case key matches the key value (mapper.rs 1114-1160).
MapCaseKeyMatches(kv, key) ==
  CASE key.k = "Text" -> Matches(kv, Value(key.s))
    [] key.k = "Any"  -> TRUE
    [] key.k = "From" -> Compare(kv, Number(key.from)) \in {"Equal", "Greater"}
    [] key.k = "To"   -> Compare(kv, Number(key.to)) \in {"Less", "Equal"}
    [] key.k = "Full" -> /\ Compare(kv, Number(key.from)) \in {"Equal", "Greater"}
                         /\ Compare(kv, Number(key.to)) \in {"Less", "Equal"}
    [] key.k = "Eq"   -> Compare(kv, Number(key.n)) = "Equal"

\* The pieces of a Named value: key, ": ", value, and ", " between pairs.
NamedPieces(p) ==
  FlattenSeq([i \in DOMAIN p |->
     <<p[i][1], <<":", " ">>, p[i][2]>> \o (IF i < Len(p) THEN <<<<",", " ">>>> ELSE <<>>)])

\* concat_args: the string pieces of the arguments, in order; Undefined,
\* AnyValue and Failure contribute nothing.
ConcatArgs(args) ==
  FlattenSeq([i \in DOMAIN args |->
     CASE args[i].k = "Value"  -> <<args[i].s>>
       [] args[i].k = "Number" -> <<FormatNumber(args[i].n)>>
       [] args[i].k = "Named"  -> NamedPieces(args[i].pairs)
       [] OTHER                -> <<>>])

-----------------------------------------------------------------------------
(* Regular expressions: captures_iter of the patterns scripts use, and the *)
(* pair list the RegexExpr evaluation builds from it.                      *)
(*   "Digits"      (\d+)                    group 1 = each run of digits   *)
(*   "UpperDigit"  (?<a>[A-Z])(?<aa>\d)     groups 1, 2, a, aa per match   *)
(*   "NoGroup"     \d                       matches, but has no groups     *)

Patterns == {"Digits", "UpperDigit", "NoGroup"}

\* One non-overlapping left-to-right scan; Step(s, i) is the length of the
\* match starting at i (0 = none) for a pattern without empty matches.
RECURSIVE Scan(_, _, _)
Scan(pat, s, i) ==
  IF i > Len(s) THEN <<>>
  ELSE LET len ==
         CASE pat = "Digits" ->
                IF IsDigit(s[i])
                THEN LET stop == SelectInSubSeq(s, i, Len(s), LAMBDA c : ~IsDigit(c))
                     IN IF stop = 0 THEN Len(s) - i + 1 ELSE stop - i
                ELSE 0
           [] pat = "UpperDigit" ->
                IF i < Len(s) /\ s[i] = "A" /\ IsDigit(s[i + 1]) THEN 2 ELSE 0
           [] pat = "NoGroup" -> IF IsDigit(s[i]) THEN 1 ELSE 0
       IN IF len = 0 THEN Scan(pat, s, i + 1)
          ELSE <<SubSeq(s, i, i + len - 1)>> \o Scan(pat, s, i + len)

\* For each match: positional groups 1.. in order, then the named groups.
GroupPairs(pat, m) ==
  CASE pat = "Digits"     -> <<<<<<"1">>, m>>>>
    [] pat = "UpperDigit" -> <<<<<<"1">>, <<m[1]>>>>, <<<<"2">>, <<m[2]>>>>,
                               <<<<"a">>, <<m[1]>>>>, <<<<"a", "a">>, <<m[2]>>>>>>
    [] pat = "NoGroup"    -> <<>>

RegexCaptures(pat, s) ==
  LET ms == Scan(pat, s, 1) IN FlattenSeq([i \in DOMAIN ms |-> GroupPairs(pat, ms[i])])

\* A RegexExpr that keeps a single capture as a Named value.
RegexResultOffByOne(pat, s) ==
  LET values == RegexCaptures(pat, s)
  IN IF values = <<>> THEN Undefined ELSE Named(values)

\* The result of a RegexExpr on a present source string (mapper.rs 912-935).
RegexResult(pat, s) ==
  LET values == RegexCaptures(pat, s)
  IN CASE values = <<>>   -> Undefined
       [] Len(values) = 1 -> Value(values[1][2])
       [] OTHER           -> Named(values)
=============================================================================
