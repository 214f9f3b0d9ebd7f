------------------------------ MODULE ClpText ------------------------------
(***************************************************************************)
(* How CLP takes a log message apart and puts it together again: variable  *)
(* parsing (clp/ir/parsing), the encodings of integers and floats in four  *)
(* and in eight bytes (clp/ffi/encoding_methods for IR streams,            *)
(* EncodedVariableInterpreter for archives), logtypes with their escapes,  *)
(* and the wildcard matching of string_utils.  Text is a sequence of       *)
(* characters; the widths of the encodings are parameters, so that a       *)
(* number that does not fit is a short one.                                *)
(***************************************************************************)
EXTENDS Integers, FiniteSets, Functions, SequencesExt

CONSTANTS MaxInt,       \* [four, eight]: the largest representable integer
          FloatDigits,  \* [four, eight]: the digits a float may have
          DigitsField   \* [four, eight]: the values the digits field holds

Digits == {"0", "1", "2", "3", "4", "5", "6", "7", "8", "9"}
HexLetters == {"a", "b", "c", "d", "e", "f", "A", "B"}
Letters == HexLetters \cup {"x", "y", "z", "X"}
Integer == "<i>"
Dictionary == "<d>"
Float == "<f>"
Escape == "\\"
Placeholders == {Integer, Dictionary, Float}
Star == "*"
AnyChar == "?"
Wildcards == {Star, AnyChar}

(***************************************************************************)
(* clp/ir/parsing                                                          *)
(***************************************************************************)
IsDelim(c) == c \notin Digits \cup Letters \cup {"+", "-", ".", "_", Escape}

CouldBeMultiDigitHexValue(v) == Len(v) >= 2 /\ Range(v) \subseteq HexLetters \cup Digits

IsVariable(s, b, e) ==
  LET v == SubSeq(s, b, e)
  IN \/ Range(v) \cap Digits # {}
     \/ b > 1 /\ s[b - 1] = "=" /\ Range(v) \cap Letters # {}
     \/ CouldBeMultiDigitHexValue(v)

\* The maximal runs of non-delimiters.
Tokens(s) ==
  {t \in {<<b, e>> : b \in DOMAIN s, e \in DOMAIN s} :
     /\ t[1] <= t[2]
     /\ \A i \in t[1] .. t[2] : ~IsDelim(s[i])
     /\ t[1] > 1 => IsDelim(s[t[1] - 1])
     /\ t[2] < Len(s) => IsDelim(s[t[2] + 1])}

\* The bounds of every variable of a text, in order.
Variables(s) == SetToSortSeq({t \in Tokens(s) : IsVariable(s, t[1], t[2])}, LAMBDA t, u : t[1] < u[1])

IsVar(s) == Variables(s) = <<<<1, Len(s)>>>>

NeedsEscape(c) == c \in Placeholders \cup {Escape}

EscapeAndAppend(constant) ==
  FlattenSeq([i \in DOMAIN constant |-> IF NeedsEscape(constant[i]) THEN <<Escape, constant[i]>> ELSE <<constant[i]>>])

(***************************************************************************)
(* Integers and floats.  An encoding is a number, or <<>> when the text    *)
(* has none.                                                               *)
(***************************************************************************)
DigitValue == [c \in Digits |-> CHOOSE n \in 0 .. 9 : ToString(n) = c]
\* The number that digits spell; a decimal point among them is passed over.
ValueOf(ds) == FoldLeft(LAMBDA n, c : IF c = "." THEN n ELSE 10 * n + DigitValue[c], 0, ds)
NatText[n \in Nat] == IF n < 10 THEN <<ToString(n)>> ELSE Append(NatText[n \div 10], ToString(n % 10))
IntText(n) == IF n < 0 THEN <<"-">> \o NatText[-n] ELSE NatText[n]

IsNegative(s) == s # <<>> /\ s[1] = "-"
Unsigned(s) == IF IsNegative(s) THEN Tail(s) ELSE s

SpellsInteger(body, len) ==
  body # <<>> /\ Range(body) \subseteq Digits /\ (body[1] = "0" => len = 1)

EncodeInteger(s, w) ==
  LET checked(n) == IF n \in -(MaxInt[w] + 1) .. MaxInt[w] THEN <<n>> ELSE <<>>
  IN IF SpellsInteger(Unsigned(s), Len(s))
     THEN checked((IF IsNegative(s) THEN -1 ELSE 1) * ValueOf(Unsigned(s))) ELSE <<>>

EncodeFloatProperties(w, neg, digits, num, point) ==
  (((IF neg THEN DigitsField[w] ELSE 0) + (digits % DigitsField[w])) * FloatDigits[w] + (num - 1)) * FloatDigits[w]
    + (point - 1)

\* The float of digits with one point among them, which is not the last.
EncodeFloatBody(body, neg, w) ==
  LET points == {i \in DOMAIN body : body[i] = "."}
      at == CHOOSE i \in points : TRUE
      encoded(digits) ==
        IF w = "four" => digits < DigitsField[w]
        THEN <<EncodeFloatProperties(w, neg, digits, Len(body) - 1, Len(body) - at)>> ELSE <<>>
  IN IF /\ Len(body) <= FloatDigits[w] + 1
        /\ Range(body) \subseteq Digits \cup {"."}
        /\ Cardinality(points) = 1
        /\ at < Len(body)
     THEN encoded(ValueOf(body)) ELSE <<>>

EncodeFloat(s, w) == EncodeFloatBody(Unsigned(s), IsNegative(s), w)

DecodeFloatProperties(e, w) ==
  LET high == e \div (FloatDigits[w] * FloatDigits[w])
  IN [point |-> (e % FloatDigits[w]) + 1, num |-> ((e \div FloatDigits[w]) % FloatDigits[w]) + 1,
      digits |-> high % DigitsField[w], neg |-> high \div DigitsField[w] > 0]

\* Digits with the point put in and the zeros in front that the number lost.
WithPoint(p, digits) ==
  (IF p.neg THEN <<"-">> ELSE <<>>)
    \o SubSeq(digits, 1, p.num - p.point) \o <<".">> \o SubSeq(digits, p.num - p.point + 1, p.num)
WithZeros(digits, num) == [i \in 1 .. num - Len(digits) |-> "0"] \o digits
DecodeFloat(e, w) ==
  LET text(p) == WithPoint(p, WithZeros(NatText[p.digits], p.num)) IN text(DecodeFloatProperties(e, w))

EncodeFourByteFloatAsEightByte(e) ==
  LET p == DecodeFloatProperties(e, "four")
  IN EncodeFloatProperties("eight", p.neg, p.digits, p.num, p.point)

(***************************************************************************)
(* Messages.  The encoded variables and the dictionary variables of a      *)
(* message are two sequences; the logtype says which comes next.           *)
(***************************************************************************)
\* encode_message_generically: the float is tried first.
EncodeVariable(v, w) ==
  LET either(f, n) ==
        [placeholder |-> IF f # <<>> THEN Float ELSE IF n # <<>> THEN Integer ELSE Dictionary,
         encoded |-> IF f # <<>> THEN f ELSE n]
  IN either(EncodeFloat(v, w), EncodeInteger(v, w))

EncodeMessage(s, w) ==
  LET add(m, t, v, x) ==
        [end |-> t[2], encoded |-> m.encoded \o x.encoded,
         logtype |-> Append(m.logtype \o EscapeAndAppend(SubSeq(s, m.end + 1, t[1] - 1)), x.placeholder),
         dict |-> IF x.placeholder = Dictionary THEN Append(m.dict, v) ELSE m.dict]
      step(m, t) == add(m, t, SubSeq(s, t[1], t[2]), EncodeVariable(SubSeq(s, t[1], t[2]), w))
      ended(m) == [logtype |-> m.logtype \o EscapeAndAppend(SubSeq(s, m.end + 1, Len(s))),
                   encoded |-> m.encoded, dict |-> m.dict]
  IN ended(FoldLeft(step, [end |-> 0, logtype |-> <<>>, encoded |-> <<>>, dict |-> <<>>], Variables(s)))

\* The parts a logtype and its variables decode to, or a failure: too few
\* variables, or an escape character at the end.
Decode(ast, unescape) ==
  LET part(kind, text, e) == [kind |-> kind, text |-> text, encoded |-> e]
      add(r, p) == [r EXCEPT !.parts = Append(@, p), !.escaped = FALSE]
      missing(r) == [r EXCEPT !.fail = TRUE]
      constant(r, c) == add(r, part("constant", <<c>>, 0))
      escape(r, c) == [(IF unescape THEN r ELSE constant(r, c)) EXCEPT !.escaped = TRUE]
      encoded(r, c) == IF r.e < Len(ast.encoded) THEN add([r EXCEPT !.e = @ + 1], part(c, <<>>, ast.encoded[r.e + 1])) ELSE missing(r)
      dict(r, c) == IF r.d < Len(ast.dict) THEN add([r EXCEPT !.d = @ + 1], part(c, ast.dict[r.d + 1], 0)) ELSE missing(r)
      step(r, c) == IF r.fail THEN r
                    ELSE IF r.escaped \/ ~NeedsEscape(c) THEN constant(r, c)
                    ELSE IF c = Escape THEN escape(r, c)
                    ELSE IF c = Dictionary THEN dict(r, c) ELSE encoded(r, c)
      ended(r) == [parts |-> r.parts, fail |-> r.fail \/ r.escaped]
  IN ended(FoldLeft(step, [parts |-> <<>>, escaped |-> FALSE, e |-> 0, d |-> 0, fail |-> FALSE], ast.logtype))

PartText(p, w) ==
  CASE p.kind = Integer -> IntText(p.encoded)
    [] p.kind = Float -> DecodeFloat(p.encoded, w)
    [] OTHER -> p.text

\* decode_and_unparse and EncodedTextAst::to_string.
Unparse(ast, w) ==
  LET joined(d) == [fail |-> d.fail, text |-> FlattenSeq([i \in DOMAIN d.parts |-> PartText(d.parts[i], w)])]
  IN joined(Decode(ast, TRUE))

(***************************************************************************)
(* Archives.  A variable of a message is an integer, a float or an entry   *)
(* of the variable dictionary; a dictionary entry is known by its text     *)
(* (ClpArchive models the ids).                                            *)
(***************************************************************************)
\* EncodedVariableInterpreter::encode_var: the integer is tried first.
EncodeVar(v) ==
  LET either(n, f) == IF n # <<>> THEN [kind |-> Integer, encoded |-> n[1], text |-> <<>>]
                      ELSE IF f # <<>> THEN [kind |-> Float, encoded |-> f[1], text |-> <<>>]
                      ELSE [kind |-> Dictionary, encoded |-> 0, text |-> v]
  IN either(EncodeInteger(v, "eight"), EncodeFloat(v, "eight"))

\* A message given as text.
EntryOfText(s) ==
  LET add(m, t, v) ==
        [end |-> t[2], vars |-> Append(m.vars, v),
         logtype |-> Append(m.logtype \o EscapeAndAppend(SubSeq(s, m.end + 1, t[1] - 1)), v.kind)]
      step(m, t) == add(m, t, EncodeVar(SubSeq(s, t[1], t[2])))
      ended(m) == [logtype |-> m.logtype \o EscapeAndAppend(SubSeq(s, m.end + 1, Len(s))), vars |-> m.vars]
  IN ended(FoldLeft(step, [end |-> 0, logtype |-> <<>>, vars |-> <<>>], Variables(s)))

\* One variable of an IR event, in the encoding of the archive.
ReencodeVar(p, w) ==
  CASE p.kind = Float /\ w = "four" -> [p EXCEPT !.encoded = EncodeFourByteFloatAsEightByte(@)]
    [] p.kind = Dictionary /\ w = "four" -> EncodeVar(p.text)
    [] OTHER -> p

\* A message given as an event of an IR stream.
EntryOfAst(ast, w) ==
  LET add(m, v) == [logtype |-> Append(m.logtype, v.kind), vars |-> Append(m.vars, v)]
      step(m, p) == IF p.kind = "constant" THEN [m EXCEPT !.logtype = @ \o p.text] ELSE add(m, ReencodeVar(p, w))
  IN FoldLeft(step, [logtype |-> <<>>, vars |-> <<>>], Decode(ast, FALSE).parts)

\* LogTypeDictionaryEntry::try_read_from_file: where the placeholders are,
\* the escape characters among them.
PlaceholderPositions(logtype) ==
  LET step(r, i) ==
        IF r.escaped THEN [r EXCEPT !.escaped = FALSE]
        ELSE [at |-> IF NeedsEscape(logtype[i]) THEN Append(r.at, i) ELSE r.at, escaped |-> logtype[i] = Escape]
  IN FoldLeft(step, [at |-> <<>>, escaped |-> FALSE], [i \in DOMAIN logtype |-> i]).at

VarText(v) == PartText(v, "eight")

\* decode_variables_into_message.
DecodeEntry(entry) ==
  LET upTo(m, i) == m.text \o SubSeq(entry.logtype, m.end + 1, i - 1)
      step(m, i) == IF entry.logtype[i] = Escape THEN [m EXCEPT !.text = upTo(m, i), !.end = i]
                    ELSE [text |-> upTo(m, i) \o VarText(entry.vars[m.v]), end |-> i, v |-> m.v + 1]
      ended(m) == m.text \o SubSeq(entry.logtype, m.end + 1, Len(entry.logtype))
      decoded(at) ==
        IF Cardinality({k \in DOMAIN at : entry.logtype[at[k]] # Escape}) # Len(entry.vars)
        THEN [fail |-> TRUE, text |-> <<>>]
        ELSE [fail |-> FALSE, text |-> ended(FoldLeft(step, [text |-> <<>>, end |-> 0, v |-> 1], at))]
  IN decoded(PlaceholderPositions(entry.logtype))

(***************************************************************************)
(* string_utils: wildcard strings and wildcard matching                    *)
(***************************************************************************)
Lower(s) == [i \in DOMAIN s |-> CASE s[i] = "A" -> "a" [] s[i] = "B" -> "b" [] s[i] = "X" -> "x" [] OTHER -> s[i]]

\* Folds f(c, escaped) over a wildcard string, escape by escape.
Rewrite(s, f(_, _)) ==
  LET step(r, c) == [out |-> r.out \o f(c, r.escaped), escaped |-> ~r.escaped /\ c = Escape]
  IN FoldLeft(step, [out |-> <<>>, escaped |-> FALSE], s).out

ReplaceUnescaped(s, from, to) == Rewrite(s, LAMBDA c, escaped : IF ~escaped /\ c = from THEN <<to>> ELSE <<c>>)

Unescape(s) == Rewrite(s, LAMBDA c, escaped : IF ~escaped /\ c = Escape THEN <<>> ELSE <<c>>)

\* Repeated stars become one and an escape that escapes nothing goes.
CleanUp(s) ==
  LET step(r, c) ==
        IF r.escaped
        THEN [out |-> r.out \o (IF c \in Wildcards \cup {Escape} THEN <<Escape, c>> ELSE <<c>>), escaped |-> FALSE, star |-> FALSE]
        ELSE IF c = Star THEN [r EXCEPT !.out = IF r.star THEN @ ELSE Append(@, c), !.star = TRUE]
        ELSE IF c = Escape THEN [r EXCEPT !.escaped = TRUE, !.star = FALSE]
        ELSE [out |-> Append(r.out, c), escaped |-> FALSE, star |-> FALSE]
  IN FoldLeft(step, [out |-> <<>>, escaped |-> FALSE, star |-> FALSE], s).out

\* What a wildcard string matches, by its definition.
RECURSIVE Matches(_, _)
Matches(tame, wild) ==
  IF wild = <<>> THEN tame = <<>>
  ELSE IF Head(wild) = Star THEN \E i \in 1 .. Len(tame) + 1 : Matches(SubSeq(tame, i, Len(tame)), Tail(wild))
  ELSE IF Head(wild) = Escape /\ Len(wild) > 1
       THEN tame # <<>> /\ tame[1] = wild[2] /\ Matches(Tail(tame), Tail(Tail(wild)))
  ELSE tame # <<>> /\ Head(wild) \in {AnyChar, Head(tame)} /\ Matches(Tail(tame), Tail(wild))

\* A read one past the end of a wildcard string gets its terminator.
WildAt(wild, w) == IF w <= Len(wild) THEN wild[w] ELSE "end"

\* advance_tame_to_next_match: the new positions, or <<>>.
Advance(tame, t, wild, w) ==
  LET v == IF wild[w] = Escape THEN w + 1 ELSE w
      hits == {i \in t .. Len(tame) : tame[i] = wild[v]}
  IN IF wild[w] = AnyChar THEN <<t, w>>
     ELSE IF hits = {} THEN <<>> ELSE <<CHOOSE i \in hits : \A j \in hits : i <= j, v>>

\* One round of the loop of wildcard_match_unsafe_case_sensitive, from the
\* positions t and w and the bookmarks tb and wb (0: none).
RECURSIVE MatchFrom(_, _, _, _, _, _), Matched(_, _, _, _, _)
MatchFrom(tame, t, tb, wild, w, wb) ==
  LET c == WildAt(wild, w)
      v == IF c = Escape THEN w + 1 ELSE w
      bookmark(a, b) == a # <<>> /\ Matched(tame, a, a[1], wild, b)
  IN IF c = Star THEN w = Len(wild) \/ bookmark(Advance(tame, t, wild, w + 1), w + 1)
     ELSE IF c = AnyChar \/ tame[t] = WildAt(wild, v) THEN Matched(tame, <<t, v>>, tb, wild, wb)
     ELSE wb # 0 /\ bookmark(Advance(tame, tb + 1, wild, wb), wb)

\* The end of the round: both at their ends, one of them, or neither.
Matched(tame, at, tb, wild, wb) ==
  LET retry(a) == a # <<>> /\ MatchFrom(tame, a[1], a[1], wild, a[2], wb)
  IN IF at[1] = Len(tame) THEN at[2] = Len(wild) \/ (at[2] + 1 = Len(wild) /\ wild[Len(wild)] = Star)
     ELSE IF at[2] # Len(wild) THEN MatchFrom(tame, at[1] + 1, tb, wild, at[2] + 1, wb)
     ELSE wb # 0 /\ retry(Advance(tame, tb + 1, wild, wb))

WildcardMatchUnsafe(tame, wild, caseSensitive) ==
  LET match(t, w) == IF w = <<>> THEN t = <<>>
                     ELSE IF t = <<>> THEN w = <<Star>>
                     ELSE MatchFrom(t, 1, 0, w, 1, 0)
  IN IF caseSensitive THEN match(tame, wild) ELSE match(Lower(tame), Lower(wild))

(***************************************************************************)
(* The words of a wildcard string                                          *)
(***************************************************************************)
\* The next wildcard or non-delimiter, with the escape before it.
RECURSIVE BeginOf(_, _, _)
BeginOf(v, i, escaped) ==
  IF i > Len(v) THEN i
  ELSE IF escaped THEN IF IsDelim(v[i]) THEN BeginOf(v, i + 1, FALSE) ELSE i - 1
  ELSE IF v[i] = Escape THEN BeginOf(v, i + 1, TRUE)
  ELSE IF v[i] \in Wildcards \/ ~IsDelim(v[i]) THEN i
  ELSE BeginOf(v, i + 1, FALSE)

\* The next delimiter that is no wildcard, with the escape before it.
RECURSIVE EndOf(_, _, _)
EndOf(v, i, escaped) ==
  IF i > Len(v) THEN i
  ELSE IF escaped THEN IF IsDelim(v[i]) THEN i - 1 ELSE EndOf(v, i + 1, FALSE)
  ELSE IF v[i] = Escape THEN EndOf(v, i + 1, TRUE)
  ELSE IF v[i] \notin Wildcards /\ IsDelim(v[i]) THEN i
  ELSE EndOf(v, i + 1, FALSE)

\* Positions of the wildcards of a string; an escaped one is none.
Unescaped(v) ==
  LET step(r, i) == IF r.escaped THEN [r EXCEPT !.escaped = FALSE]
                    ELSE [escaped |-> v[i] = Escape, at |-> IF v[i] \in Wildcards THEN r.at \cup {i} ELSE r.at]
  IN FoldLeft(step, [escaped |-> FALSE, at |-> {}], [i \in DOMAIN v |-> i]).at

\* GrepCore::get_bounds_of_next_potential_var.
IsDefiniteVar(v, b, e) ==
  LET s == SubSeq(v, b, e - 1)
      letters == {i \in DOMAIN s : s[i] \in Letters}
  IN \/ Range(s) \cap Digits # {}
     \/ CouldBeMultiDigitHexValue(s)
     \/ b > 1 /\ v[b - 1] = "=" /\ letters # {} /\ Unescaped(s) = {}

\* The tokens of a search string that are variables or hold wildcards.
RECURSIVE PotentialVars(_, _)
PotentialVars(v, from) ==
  LET token(b, e, isVar) ==
        IF isVar \/ Unescaped(SubSeq(v, b, e - 1)) # {} THEN <<[b |-> b, e |-> e, isVar |-> isVar]>> ELSE <<>>
      next(b, e) == token(b, e, IsDefiniteVar(v, b, e)) \o PotentialVars(v, e)
      at(b) == IF b > Len(v) THEN <<>> ELSE next(b, EndOf(v, b, FALSE))
  IN IF from > Len(v) THEN <<>> ELSE at(BeginOf(v, from, FALSE))

\* A token without the stars at its ends.
Inner(v) == LET w == IF v[1] = Star THEN Tail(v) ELSE v IN IF w # <<>> /\ v[Len(v)] = Star THEN Front(w) ELSE w
Converts(v) == EncodeInteger(v, "eight") # <<>> \/ EncodeFloat(v, "eight") # <<>>

\* append_constant_to_logtype with the escape handler of
\* generate_logtypes_and_vars_for_subquery.
AppendConstant(c) ==
  FlattenSeq([i \in DOMAIN c |->
    IF ~NeedsEscape(c[i]) THEN <<c[i]>>
    ELSE IF i < Len(c) /\ c[Min({i + 1, Len(c)})] \notin Wildcards THEN <<Escape, c[i]>>
    ELSE IF c[i] \in Placeholders THEN <<Escape, Escape, c[i]>>
    ELSE <<c[i]>>])
=============================================================================
