-------------------------- MODULE TimestampParser --------------------------
(***************************************************************************)
(* clp-s's timestamp parser and the timestamp dictionary of an archive: a  *)
(* timestamp is parsed by a pattern into an instant and a pattern without  *)
(* capture-and-transform sequences, which is stored under an id; the text  *)
(* is rebuilt from the instant and the stored pattern.  A text is a        *)
(* sequence of symbols; a name (a month, AM, EST) is one symbol.           *)
(***************************************************************************)
EXTENDS Calendar, FiniteSets, SequencesExt

CONSTANTS Half,        \* hours of half a day (12)
          Minutes,     \* minutes of an hour (60)
          Seconds,     \* seconds of a minute (60)
          Milli, Micro, Nano,   \* digits of the precisions (3, 6, 9)
          IntMax,      \* largest epochtime_t
          Inputs,      \* what is ingested: [how, text, json, n]
          MaxIngests   \* bound: timestamps per archive

VARIABLES td,    \* the dictionary being written, and what was ingested
          arch   \* the archive just closed
tpVars == <<td, arch>>

(***************************************************************************)
(* Numbers                                                                 *)
(***************************************************************************)
Wrap(n) == IF n \in -IntMax - 1 .. IntMax THEN n ELSE ((n + IntMax + 1) % (2 * (IntMax + 1))) - IntMax - 1
Quot(n, d) == IF n < 0 THEN -((-n) \div d) ELSE n \div d
Unit(digits) == Pow10[Nano - digits]
Bad == [ok |-> FALSE, n |-> 0, len |-> 0]

\* from_chars on the whole string.
ToInt(s) ==
  LET body == IF s # <<>> /\ s[1] = "-" THEN Tail(s) ELSE s
  IN IF body = <<>> \/ (\E i \in DOMAIN body : ~IsDigit(body[i])) THEN Bad
     ELSE [ok |-> TRUE, n |-> IF body = s THEN Number(body) ELSE -Number(body), len |-> Len(s)]

Padded(s, pad) ==
  LET first == CHOOSE i \in 1 .. Len(s) : /\ i = Len(s) \/ s[i] # pad
                                          /\ \A j \in 1 .. i - 1 : s[j] = pad
      stripped == SubSeq(s, first, Len(s))
  IN IF Len(stripped) > 1 /\ stripped[1] = "0" THEN Bad ELSE ToInt(stripped)

DigitsAt(s, from, most) ==
  CHOOSE k \in 0 .. Len(s) : /\ from + k - 1 <= Len(s) /\ k <= most
                             /\ \A j \in from .. from + k - 1 : IsDigit(s[j])
                             /\ k = most \/ from + k > Len(s) \/ ~IsDigit(s[from + k])

\* A fraction: up to so many digits.
BoundedPrefix(s, most) ==
  LET of(k) == IF k = 0 THEN Bad ELSE [ok |-> TRUE, n |-> Number(SubSeq(s, 1, k)), len |-> k]
  IN of(DigitsAt(s, 1, most))

\* An integer without leading zeroes.
IntPrefix(s) ==
  LET of(from, k, v) == IF k = 0 \/ (s[from] = "0" /\ from + k - 1 > 1) THEN Bad
                        ELSE [ok |-> TRUE, n |-> IF from = 2 THEN -v ELSE v, len |-> from + k - 1]
      digits(from, k) == of(from, k, Number(SubSeq(s, from, from + k - 1)))
      at(from) == digits(from, IF from > Len(s) THEN 0 ELSE DigitsAt(s, from, Len(s)))
  IN at(IF s # <<>> /\ s[1] = "-" THEN 2 ELSE 1)

(***************************************************************************)
(* Patterns: sequences of elements, a literal symbol or a specifier with   *)
(* the content of its braces and, for a time zone, the offset.             *)
(***************************************************************************)
El(k, a, off) == [k |-> k, a |-> a, off |-> off]
L(c) == El("lit", <<<<c>>>>, 0)
S(k) == El(k, <<>>, 0)
O(c, d) == El("O", <<<<c>>, <<d>>>>, 0)
Quote == L("\"")
Cat == {"Z", "?", "P", "O", "s"}
DateSpecs == {"y", "Y", "B", "m", "d", "e", "A", "p", "H", "k", "I", "l", "M", "S", "J", "z", "o", "Z", "s"}
EpochSpecs == {"E", "L", "C", "N", "P"}
Names(k) == IF k = "B" THEN 12 ELSE 7

IsQuoted(els) == Len(els) >= 2 /\ els[1] = Quote /\ els[Len(els)] = Quote
Inside(els) == IF IsQuoted(els) THEN SubSeq(els, 2, Len(els) - 1) ELSE els
Has(els, ks) == \E i \in DOMAIN els : els[i].k \in ks

\* TimestampPattern::create.
Creatable(els) ==
  LET in == Inside(els)
  IN /\ \A i, j \in DOMAIN in : i < j /\ in[i].k = in[j].k => in[i].k \in {"lit", "O", "bs"}
     /\ \A i \in DOMAIN in : in[i] # Quote
     /\ \A i \in DOMAIN in : in[i].k \in {"B", "A"} => Len(in[i].a) = Names(in[i].k)
     /\ ~(Has(in, {"z"}) /\ Has(in, {"o"}))
     /\ ~(Has(in, DateSpecs) /\ Has(in, EpochSpecs))
     /\ Has(in, {"I", "l"}) = Has(in, {"p"})

(***************************************************************************)
(* Parsing: the state is the place in the text, the fields and the pattern *)
(* without capture-and-transform sequences.                                *)
(***************************************************************************)
NoTz == 9999
NoFields == [y |-> 1970, mo |-> 1, d |-> 1, h |-> 0, mi |-> 0, s |-> 0, sub |-> 0, dow |-> -1, pod |-> 0, tz |-> NoTz, epoch |-> <<0, 1>>]
Start == [ok |-> TRUE, at |-> 0, f |-> NoFields, out |-> <<>>]
Fail(a) == [a EXCEPT !.ok = FALSE]
Rest(text, a) == SubSeq(text, a.at + 1, Len(text))
StartsWith(s, p) == Len(p) <= Len(s) /\ SubSeq(s, 1, Len(p)) = p
FirstPrefix(s, names) == LET first(is) == IF is = {} THEN 0 ELSE CHOOSE i \in is : \A j \in is : i <= j
                         IN first({i \in DOMAIN names : StartsWith(s, names[i])})
Step(a, len, field, v, els) == [a EXCEPT !.at = @ + len, !.f[field] = v, !.out = @ \o els]

\* The fields with a fixed length: length, padding, smallest and largest value.
DateField(k) == CASE k = "Y" -> <<4, "0", 0, 9999, "y">> [] k = "m" -> <<2, "0", 1, 12, "mo">>
                  [] k = "d" -> <<2, "0", 1, 31, "d">> [] k = "e" -> <<2, " ", 1, 31, "d">>
                  [] k = "y" -> <<2, "0", -100, 100, "y">>
HourField(k) == CASE k = "H" -> <<2, "0", 0, 2 * Half - 1, "h">> [] k = "k" -> <<2, " ", 0, 2 * Half - 1, "h">>
                  [] k = "I" -> <<2, "0", 1, Half, "h">> [] k = "l" -> <<2, " ", 1, Half, "h">>
MinuteField(k) == CASE k = "M" -> <<2, "0", 0, Minutes - 1, "mi">> [] k = "S" -> <<2, "0", 0, Seconds - 1, "s">>
                    [] k = "J" -> <<2, "0", Seconds, Seconds, "s">> [] k = "s" -> <<2, "0", 0, Seconds, "s">>
FieldOf(k) == IF k \in {"Y", "y", "m", "d", "e"} THEN DateField(k) ELSE IF k \in {"H", "k", "I", "l"} THEN HourField(k) ELSE MinuteField(k)

Century(two) == IF two >= 69 THEN 1900 + two ELSE 2000 + two

TakeField(text, a, el) ==
  LET stored(leap) == IF el.k = "s" THEN S(IF leap THEN "J" ELSE "S") ELSE el
      value(v, leap) == IF el.k = "y" THEN Century(v) ELSE IF leap THEN Seconds - 1 ELSE v
      taken(fd, v, leap) == Step(a, fd[1], fd[5], value(v, leap), <<stored(leap)>>)
      checked(fd, v) == IF ~v.ok \/ v.n < fd[3] \/ v.n > fd[4] THEN Fail(a) ELSE taken(fd, v.n, fd[5] = "s" /\ v.n = Seconds)
      of(fd) == IF a.at + fd[1] > Len(text) THEN Fail(a) ELSE checked(fd, Padded(SubSeq(text, a.at + 1, a.at + fd[1]), fd[2]))
  IN of(FieldOf(el.k))

\* \3, \6 and \9.
TakeFraction(text, a, el) ==
  LET taken(len, v) == IF ~v.ok \/ v.n < 0 THEN Fail(a) ELSE Step(a, len, "sub", v.n * Unit(len), <<el>>)
      of(len) == IF a.at + len > Len(text) THEN Fail(a) ELSE taken(len, ToInt(SubSeq(text, a.at + 1, a.at + len)))
  IN of(CASE el.k = "3" -> Milli [] el.k = "6" -> Micro [] el.k = "9" -> Nano)

\* \T, and \? that resolves to one of the four.
TakeVariableFraction(text, a, el) ==
  LET kind(len) == IF el.k = "T" THEN "T" ELSE CASE len = Nano -> "9" [] len = Micro -> "6" [] len = Milli -> "3" [] OTHER -> "T"
      taken(v, k) == IF k = "T" /\ text[a.at + v.len] = "0" THEN Fail(a) ELSE Step(a, v.len, "sub", v.n * Unit(v.len), <<S(k)>>)
      of(v) == IF ~v.ok THEN Fail(a) ELSE taken(v, kind(v.len))
  IN of(BoundedPrefix(Rest(text, a), Nano))

\* estimate_timestamp_precision: the number against one year after the epoch.
Year == 365 * 2 * Half * Minutes * Seconds
Precision(n) ==
  LET abs == IF n < 0 THEN -n ELSE n
  IN CASE abs > Year * Pow10[Nano] -> "N" [] abs > Year * Pow10[Micro] -> "C" [] abs > Year * Pow10[Milli] -> "L" [] OTHER -> "E"
Factor(k) == CASE k = "E" -> Unit(0) [] k = "L" -> Unit(Milli) [] k = "C" -> Unit(Micro) [] k = "N" -> 1

TakeEpoch(text, a, el) ==
  LET taken(v, k) == Step(a, v.len, "epoch", <<v.n, Factor(k)>>, <<S(k)>>)
      of(v) == IF ~v.ok THEN Fail(a) ELSE taken(v, IF el.k = "P" THEN Precision(v.n) ELSE el.k)
  IN of(IntPrefix(Rest(text, a)))

TakeName(text, a, el) ==
  LET taken(i, names, v) == IF i = 0 THEN Fail(a) ELSE Step(a, Len(names[i]), v[1], v[2], <<el>>)
      found(i, names) == taken(i, names, CASE el.k = "B" -> <<"mo", i>> [] el.k = "A" -> <<"dow", i - 1>> [] el.k = "p" -> <<"pod", i - 1>>)
      of(names) == found(FirstPrefix(Rest(text, a), names), names)
  IN of(IF el.k = "p" THEN <<<<"AM">>, <<"PM">>>> ELSE el.a)

\* extract_timezone_offset_in_minutes.
ZoneOffset(s) ==
  LET colon == IF Len(s) > 3 /\ s[4] = ":" THEN 1 ELSE 0
      of(sign, hours, mins) ==
        IF sign = 0 \/ ~hours.ok \/ hours.n < 0 \/ hours.n > 2 * Half - 1 THEN Bad
        ELSE IF ~mins.ok \/ mins.n < 0 \/ mins.n > Minutes - 1 THEN [ok |-> TRUE, n |-> sign * hours.n * Minutes, len |-> 3]
        ELSE [ok |-> TRUE, n |-> sign * (hours.n * Minutes + mins.n), len |-> 5 + colon]
  IN of(IF s = <<>> THEN 0 ELSE CASE s[1] = "+" -> 1 [] s[1] \in {"-", "minus"} -> -1 [] OTHER -> 0,
        IF Len(s) < 3 THEN Bad ELSE Padded(SubSeq(s, 2, 3), "0"),
        IF Len(s) < 5 + colon THEN Bad ELSE Padded(SubSeq(s, 4 + colon, 5 + colon), "0"))

TakeZoneText(text, a, el) ==
  IF StartsWith(Rest(text, a), el.a[1]) THEN Step(a, Len(el.a[1]), "tz", el.off, <<el>>) ELSE Fail(a)

Literals(s) == [i \in DOMAIN s |-> L(s[i])]
NamedZones == <<<<"EDT", -Minutes>>, <<"EST", -2 * Minutes>>>>

\* \Z: a space, UTC, UT, GMT or a named zone, an offset, a Z.
TakeLetterZ(text, d) ==
  IF StartsWith(Rest(text, d), <<"Z">>) THEN Step(d, 1, "tz", IF d.f.tz = NoTz THEN 0 ELSE d.f.tz, <<L("Z")>>)
  ELSE IF d.f.tz = NoTz THEN Fail(d) ELSE d
TakeOffset(text, c) ==
  LET taken(z) == IF z.ok THEN Step(c, z.len, "tz", z.n, <<El("z", <<SubSeq(text, c.at + 1, c.at + z.len)>>, z.n)>>) ELSE c
  IN TakeLetterZ(text, taken(ZoneOffset(Rest(text, c))))
TakeNamedZone(text, b, r) ==
  LET taken(z) == Step(b, 1, "tz", z[2], <<El("o", <<<<z[1]>>>>, z[2])>>)
      of(named) == IF named # 0 THEN taken(NamedZones[named]) ELSE TakeOffset(text, b)
  IN of(FirstPrefix(r, [i \in DOMAIN NamedZones |-> <<NamedZones[i][1]>>]))
TakeZone(text, a) ==
  LET of(b, r) ==
        CASE StartsWith(r, <<"U", "T", "C">>) -> TakeOffset(text, Step(b, 3, "tz", 0, Literals(<<"U", "T", "C">>)))
          [] StartsWith(r, <<"U", "T">>) /\ ~StartsWith(r, <<"U", "T", "C">>) -> Step(b, 2, "tz", b.f.tz, Literals(<<"U", "T">>))
          [] StartsWith(r, <<"G", "M", "T">>) -> Step(b, 3, "tz", b.f.tz, Literals(<<"G", "M", "T">>))
          [] OTHER -> TakeNamedZone(text, b, r)
      spaced(b) == of(b, Rest(text, b))
  IN spaced(IF StartsWith(Rest(text, a), <<" ">>) THEN Step(a, 1, "tz", a.f.tz, <<L(" ")>>) ELSE a)

TakeLiteral(text, a, el, json) ==
  LET c == text[a.at + 1]
      bs == IF json THEN <<"\\", "\\">> ELSE <<"\\">>
  IN CASE el.k = "lit" -> IF c = el.a[1][1] THEN Step(a, 1, "tz", a.f.tz, <<el>>) ELSE Fail(a)
       [] el.k = "O" -> IF \E i \in DOMAIN el.a : el.a[i] = <<c>> THEN Step(a, 1, "tz", a.f.tz, <<L(c)>>) ELSE Fail(a)
       [] el.k = "bs" -> IF StartsWith(Rest(text, a), bs) THEN Step(a, Len(bs), "tz", a.f.tz, <<el>>) ELSE Fail(a)

Take(text, a, el, json) ==
  IF ~a.ok THEN a ELSE IF a.at >= Len(text) THEN Fail(a)
  ELSE CASE el.k \in {"lit", "O", "bs"} -> TakeLiteral(text, a, el, json)
         [] el.k \in {"3", "6", "9"} -> TakeFraction(text, a, el)
         [] el.k \in {"T", "?"} -> TakeVariableFraction(text, a, el)
         [] el.k \in EpochSpecs -> TakeEpoch(text, a, el)
         [] el.k \in {"B", "A", "p"} -> TakeName(text, a, el)
         [] el.k \in {"z", "o"} -> TakeZoneText(text, a, el)
         [] el.k = "Z" -> TakeZone(text, a)
         [] OTHER -> TakeField(text, a, el)

\* The instant of the fields.
Instant(f, els) ==
  LET hour == IF Has(els, {"I", "l"}) THEN (f.h % Half) + f.pod * Half ELSE f.h
      days == DaysFromCivil(f.y, f.mo, f.d)
      secs == ((days * 2 * Half + hour) * Minutes + f.mi - (IF f.tz = NoTz THEN 0 ELSE f.tz)) * Seconds + f.s
      epoch == Wrap(f.epoch[1] * f.epoch[2])
  IN IF Has(els, DateSpecs) THEN Wrap(secs * Unit(0) + f.sub)
     ELSE Wrap(IF epoch < 0 THEN epoch - f.sub ELSE epoch + f.sub)
DateOk(f, els) ==
  Has(els, DateSpecs) => /\ f.d <= MonthDays(f.y, f.mo)
                         /\ f.dow = -1 \/ f.dow = Weekday(DaysFromCivil(f.y, f.mo, f.d))

\* parse_timestamp.
Parse(text, els, json) ==
  LET skip == IsQuoted(els) /\ ~json
      of(a) == IF ~a.ok \/ a.at # Len(text) \/ ~DateOk(a.f, els) THEN [ok |-> FALSE, ts |-> 0, pat |-> <<>>]
               ELSE [ok |-> TRUE, ts |-> Instant(a.f, els), pat |-> IF skip THEN <<Quote>> \o a.out \o <<Quote>> ELSE a.out]
  IN of(FoldLeft(LAMBDA b, el : Take(text, b, el, json), Start, IF skip THEN Inside(els) ELSE els))

(***************************************************************************)
(* Marshalling: the JSON literal of an instant, or a failure.              *)
(***************************************************************************)
Oops == <<"error">>
FractionText(k, sub) ==
  LET trimmed(all, last) == IF last = {} THEN Oops ELSE SubSeq(all, 1, CHOOSE i \in last : \A j \in last : j <= i)
      of(all) == IF k = "9" THEN all ELSE trimmed(all, {i \in 1 .. Nano : all[i] # "0"})
  IN CASE k = "3" -> PadTo(sub \div Unit(Milli), Milli, "0") [] k = "6" -> PadTo(sub \div Unit(Micro), Micro, "0")
       [] k \in {"9", "T"} -> of(PadTo(sub, Nano, "0"))

TwelveHour(h) == IF h % Half = 0 THEN Half ELSE h % Half

DatePart(el, c, days, h, day) ==
  LET number(n, width, pad) == IF n < 0 THEN Oops ELSE PadTo(n, width, pad)
  IN CASE el.k = "B" -> el.a[c.mo] [] el.k = "A" -> el.a[Weekday(days) + 1]
       [] el.k = "p" -> IF h >= Half THEN <<"PM">> ELSE <<"AM">>
       [] el.k \in {"z", "o"} -> el.a[1]
       [] el.k \in {"e", "k", "l"} -> number(CASE el.k = "e" -> c.d [] el.k = "k" -> h [] el.k = "l" -> TwelveHour(h), 2, " ")
       [] el.k \in {"y", "Y", "m", "d", "H", "I", "M", "S", "J"} ->
            number(CASE el.k = "y" -> IF c.y >= 2000 THEN c.y - 2000 ELSE c.y - 1900
                     [] el.k = "Y" -> c.y [] el.k = "m" -> c.mo [] el.k = "d" -> c.d [] el.k = "H" -> h [] el.k = "I" -> TwelveHour(h)
                     [] el.k = "M" -> (day \div Seconds) % Minutes [] el.k = "S" -> day % Seconds [] el.k = "J" -> Seconds,
                   IF el.k = "Y" THEN 4 ELSE 2, "0")
       [] OTHER -> Oops
MarshalDate(ts, el, tz) ==
  LET at(days, day) == DatePart(el, CivilFromDays(days), days, day \div (Minutes * Seconds), day)
      of(secs, perDay) == at(secs \div perDay, secs % perDay)
  IN of((ts \div Unit(0)) + tz * Seconds, 2 * Half * Minutes * Seconds)

SignedText(n) == IF n < 0 THEN <<"-">> \o PadTo(-n, 1, "0") ELSE PadTo(n, 1, "0")
MarshalEpoch(ts, el) == SignedText(Quot(ts, Factor(el.k)))

\* marshal_timestamp: a fraction is that of the day or of the absolute value.
Marshal(ts, els) ==
  LET date == Has(els, DateSpecs)
      zones == {i \in DOMAIN els : els[i].k \in {"z", "o"}}
      tz == IF zones = {} THEN 0 ELSE els[CHOOSE i \in zones : TRUE].off
      sub == IF date \/ ts >= 0 THEN ts % Unit(0) ELSE (-ts) % Unit(0)
      part(el) == CASE el.k = "lit" -> el.a[1] [] el.k = "bs" -> <<"\\", "\\">>
                    [] el.k \in {"3", "6", "9", "T"} -> FractionText(el.k, sub)
                    [] date -> MarshalDate(ts, el, tz)
                    [] el.k \in {"E", "L", "C", "N"} -> MarshalEpoch(ts, el)
                    [] OTHER -> Oops
  IN FlattenSeq([i \in DOMAIN els |-> part(els[i])])

(***************************************************************************)
(* The default patterns                                                    *)
(***************************************************************************)
Sym(s) == [i \in DOMAIN s |-> <<s[i]>>]
Mon == El("B", Sym(<<"Jan", "Feb", "Mar", "Apr", "May", "Jun", "Jul", "Aug", "Sep", "Oct", "Nov", "Dec">>), 0)
Month == El("B", Sym(<<"January", "February", "March", "April", "May", "June", "July", "August", "September", "October", "November", "December">>), 0)
Wday == El("A", Sym(<<"Sun", "Mon", "Tue", "Wed", "Thu", "Fri", "Sat">>), 0)
Hm(h) == <<S(h), L(":"), S("M")>>
Hms(h) == Hm(h) \o <<L(":"), S("s")>>
Iso(y) == <<S(y), O("-", "/"), S("m"), O("-", "/"), S("d"), O("T", " ")>> \o Hms("H")
Fraction == <<O(",", "."), S("?")>>
Day(k) == <<S(k), L(" "), Mon, L(" ")>>
Rfc(y, time) ==
  <<<<Wday, L(","), L(" ")>> \o Day("d") \o <<S(y), L(" ")>> \o time \o <<S("Z")>>, Day("d") \o <<S(y), L(" ")>> \o time \o <<S("Z")>>,
    <<Wday, L(","), L(" ")>> \o Day("e") \o <<S(y), L(" ")>> \o time \o <<S("Z")>>, Day("e") \o <<S(y), L(" ")>> \o time \o <<S("Z")>>>>

DefaultDateTime ==
  <<Iso("Y") \o Fraction \o <<S("Z")>>, Iso("Y") \o <<S("Z")>>, Iso("Y") \o Fraction, Iso("Y"),
    <<L("[")>> \o Iso("Y") \o Fraction \o <<L("]")>>, <<L("[")>> \o Iso("Y") \o <<L("]")>>, <<L("[")>> \o Iso("Y"),
    <<L("<"), L("<"), L("<")>> \o Iso("Y") \o <<L(":"), S("?")>>,
    Day("d") \o <<S("Y"), L(" ")>> \o Hms("H") \o Fraction,
    <<L("["), S("Y"), S("m"), S("d"), L("-")>> \o Hms("H") \o <<L("]")>>,
    Iso("y"), <<S("y"), S("m"), S("d"), O("T", " ")>> \o Hms("k"),
    <<Mon, L(" "), S("d"), L(","), L(" "), S("Y"), L(" ")>> \o Hms("l") \o <<L(" "), S("p")>>,
    <<Mon, L(" "), S("d"), L(","), L(" "), S("Y"), L(" ")>> \o Hms("I") \o <<L(" "), S("p")>>,
    <<Month, L(" "), S("d"), L(","), L(" "), S("Y"), L(" ")>> \o Hm("H"),
    <<L("["), S("d"), O("-", "/"), Mon, O("-", "/"), S("Y"), L(":")>> \o Hms("H"),
    <<Wday, L(" "), Mon, L(" "), S("e"), L(" ")>> \o Hms("H") \o <<L(" "), S("Y")>>,
    <<Mon, L(" "), S("d"), L(" ")>> \o Hms("H"), <<Mon, L(" "), S("d"), L(" ")>> \o Hms("H") \o <<S("Z")>>,
    <<S("m"), O("-", " "), S("d"), L(" ")>> \o Hms("H") \o Fraction>>
  \o Rfc("Y", Hms("H")) \o Rfc("y", Hms("H")) \o Rfc("Y", Hm("H")) \o Rfc("y", Hm("H"))
DefaultNumeric == <<<<S("P")>>, <<S("E"), L("."), S("?")>>>>
DefaultQuoted == LET quoted(all) == [i \in DOMAIN all |-> <<Quote>> \o all[i] \o <<Quote>>] IN quoted(DefaultDateTime \o DefaultNumeric)

\* search_known_timestamp_patterns.
SearchKnown(text, patterns, json) ==
  LET first(found) == IF found = {} THEN [ok |-> FALSE, ts |-> 0, pat |-> <<>>, at |-> 0]
                      ELSE CHOOSE x \in found : \A y \in found : x.at <= y.at
      found(r, i) == [ok |-> r.ok, ts |-> r.ts, pat |-> r.pat, at |-> i]
  IN first({x \in {found(Parse(text, patterns[i], json), i) : i \in DOMAIN patterns} : x.ok})

(***************************************************************************)
(* The timestamp dictionary                                                *)
(***************************************************************************)
Empty == [strs |-> <<>>, nums |-> {}, next |-> 0, log |-> <<>>, failed |-> FALSE]
NoArchive == [pats |-> {}, log |-> <<>>]
TPInit == td = Empty /\ arch = NoArchive

\* What the default patterns make of an input.
ByDefault == [i \in Inputs |-> SearchKnown(i.text, IF i.how = "numeric" THEN DefaultNumeric ELSE DefaultQuoted, i.how = "numeric" \/ i.json)]

Ready == ~td.failed /\ arch = NoArchive /\ Len(td.log) < MaxIngests
Record(i, ts, id) == [in |-> i, ts |-> ts, id |-> id]
Known(d, i, ts, id) == [d EXCEPT !.log = Append(@, Record(i, ts, id))]
Entry(pat, id) == [pat |-> pat, id |-> id]

\* ingest_string_timestamp: the patterns in use in their order, then the defaults.
IngestString ==
  /\ Ready
  /\ \E i \in {x \in Inputs : x.how = "string"} :
       LET new(r) == IF ~r.ok \/ ~Creatable(r.pat) THEN [td EXCEPT !.failed = TRUE]
                     ELSE [Known(td, i, r.ts, td.next) EXCEPT !.strs = Append(@, Entry(r.pat, td.next)), !.next = @ + 1]
           after(used, default) == IF used.ok THEN Known(td, i, used.ts, td.strs[used.at].id) ELSE new(default)
       IN td' = after(SearchKnown(i.text, [j \in DOMAIN td.strs |-> td.strs[j].pat], i.json), ByDefault[i])
  /\ UNCHANGED arch

\* ingest_numeric_json_timestamp: a hash table of patterns, in any order.
IngestNumeric ==
  /\ Ready
  /\ \E i \in {x \in Inputs : x.how = "numeric"} :
       LET new(r) == IF ~r.ok \/ ~Creatable(r.pat) THEN [td EXCEPT !.failed = TRUE]
                     ELSE [Known(td, i, r.ts, td.next) EXCEPT !.nums = @ \cup {Entry(r.pat, td.next)}, !.next = @ + 1]
           after(used, default) == IF used = {} THEN td' = new(default) ELSE \E r \in used : td' = Known(td, i, r.ts, r.id)
           by(e, r) == [ok |-> r.ok, ts |-> r.ts, id |-> e.id]
       IN after({r \in {by(e, Parse(i.text, e.pat, TRUE)) : e \in td.nums} : r.ok}, ByDefault[i])
  /\ UNCHANGED arch

\* ingest_unknown_precision_epoch_timestamp.
IngestEpoch ==
  /\ Ready
  /\ \E i \in {x \in Inputs : x.how = "epoch"} :
       LET k == Precision(i.n)
           ts == Wrap(i.n * Factor(k))
           used == {e \in td.nums : e.pat = <<S(k)>>}
       IN td' = IF used # {} THEN Known(td, i, ts, (CHOOSE e \in used : TRUE).id)
                ELSE [Known(td, i, ts, td.next) EXCEPT !.nums = @ \cup {Entry(<<S(k)>>, td.next)}, !.next = @ + 1]
  /\ UNCHANGED arch

\* The archive is closed: write and clear; the reader creates the patterns.
Written(d) == Range(d.strs) \cup d.nums

CloseDictionary ==
  /\ ~td.failed /\ td.log # <<>>
  /\ arch' = [pats |-> Written(td), log |-> td.log]
  /\ td' = Empty

OpenDictionary == arch # NoArchive /\ arch' = NoArchive /\ UNCHANGED td

TPNext == OpenDictionary \/ IngestString \/ IngestNumeric \/ IngestEpoch \/ CloseDictionary
TPSpec == TPInit /\ [][TPNext]_tpVars

(***************************************************************************)
(* Properties                                                              *)
(***************************************************************************)
\* The ids of the patterns of a dictionary are different and the next is free;
\* a stored pattern is one that the reader accepts, with nothing to resolve.
TPTypeOK ==
  \A d \in {Written(td), arch.pats} :
    /\ \A e, f \in d : e.id = f.id => e = f
    /\ \A e \in d : Creatable(e.pat) /\ ~Has(e.pat, Cat)
    /\ \A e \in Written(td) : e.id < td.next

Literal(i) ==
  CASE i.how = "epoch" -> SignedText(i.n)
    [] i.json -> i.text
    [] OTHER -> <<"\"">> \o FlattenSeq([k \in DOMAIN i.text |-> IF i.text[k] = "\\" THEN <<"\\", "\\">> ELSE <<i.text[k]>>]) \o <<"\"">>

\* Every timestamp of a closed archive is restored as it was written, whatever
\* other timestamps made the patterns.
TimestampsRestored ==
  \A k \in DOMAIN arch.log :
    LET r == arch.log[k]
    IN \E e \in arch.pats : e.id = r.id /\ Marshal(r.ts, e.pat) = Literal(r.in)

IsNumber(i) == i.how = "string" /\ (\A k \in DOMAIN i.text : IsDigit(i.text[k]) \/ i.text[k] \in {"-", "\""})

\* The instant of a timestamp does not depend on the timestamps before it (the
\* exception, numbers in strings, is a known limit).
InstantsAlike ==
  \A k \in DOMAIN td.log :
    LET r == td.log[k]
    IN r.in.how # "epoch" /\ ~IsNumber(r.in) => r.ts = ByDefault[r.in].ts
=============================================================================
