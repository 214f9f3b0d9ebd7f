-------------------------- MODULE TimestampPattern --------------------------
(***************************************************************************)
(* clp's timestamp patterns and the message parser that uses them: a log   *)
(* file is cut into messages, the timestamp of a message is taken out of   *)
(* its text and kept as a number and a pattern, and the decompressor puts  *)
(* it back.  Also the patterns of clp-s archives written before its new    *)
(* timestamp parser, which the reader still formats.  A text is a sequence *)
(* of symbols; a name (a month, AM) is one symbol.                         *)
(***************************************************************************)
EXTENDS Calendar

CONSTANTS Half,       \* hours of half a day (12)
          Minutes,    \* minutes of an hour (60)
          Seconds,    \* seconds of a minute (60)
          Milli,      \* digits of a millisecond (3)
          Nano,       \* digits of a nanosecond (9)
          Ticks,      \* microseconds of a millisecond, nanoseconds of a microsecond (1000)
          IntMax,     \* largest int
          PointMax,   \* largest number of nanoseconds of a time point
          Lines,      \* the lines a log file is made of
          MaxLines,   \* bound: lines of a file
          OldTexts    \* timestamps of older clp-s archives: [text, fmt]

VARIABLES mp,    \* the message parser and the messages it made
          old    \* an older clp-s archive: the text and what is restored
tsVars == <<mp, old>>

NewLine == "\n"
Within(n, max) == IF n \in -max - 1 .. max THEN n ELSE ((n + max + 1) % (2 * (max + 1))) - max - 1
Toward0(n, d) == IF n < 0 THEN -((-n) \div d) ELSE n \div d

(***************************************************************************)
(* Parsing.  The state: the place in the line, the fields, and whether the *)
(* text has a form that formatting does not give back (a history of the    *)
(* parse that no step reads).                                              *)
(***************************************************************************)
NoFields == [y |-> 1970, mo |-> 1, d |-> 1, h |-> 0, mi |-> 0, s |-> 0, ms |-> 0, us |-> 0, ns |-> 0, wd |-> -1, pm |-> FALSE, twelve |-> FALSE, odd |-> FALSE]
Failed(a) == [a EXCEPT !.ok = FALSE]
Consume(a, len, field, v) == [a EXCEPT !.at = @ + len, !.f[field] = v]

\* convert_string_to_number: padding, then digits, in an int.
ToNumber(s, pad) ==
  LET number(ds, n) == IF \E i \in DOMAIN ds : ~IsDigit(ds[i]) THEN [ok |-> FALSE, n |-> 0, wrapped |-> FALSE]
                       ELSE [ok |-> TRUE, n |-> Within(n, IntMax), wrapped |-> n > IntMax]
      of(ds) == number(ds, Number(ds))
      first == CHOOSE i \in 1 .. Len(s) + 1 : /\ i = Len(s) + 1 \/ s[i] # pad
                                              /\ \A j \in 1 .. i - 1 : s[j] = pad
  IN of(SubSeq(s, first, Len(s)))

\* Length, padding, smallest and largest value and field of a directive.
DateFields == ("%y" :> <<2, "0", 0, 99, "y">>) @@ ("%Y" :> <<4, "0", 0, 9999, "y">>) @@ ("%m" :> <<2, "0", 1, 12, "mo">>)
              @@ ("%d" :> <<2, "0", 1, 31, "d">>) @@ ("%e" :> <<2, " ", 1, 31, "d">>)
HourFields == ("%H" :> <<2, "0", 0, 2 * Half - 1, "h">>) @@ ("%k" :> <<2, " ", 0, 2 * Half - 1, "h">>)
              @@ ("%I" :> <<2, "0", 1, Half, "h">>) @@ ("%l" :> <<2, " ", 1, Half, "h">>)
TimeFields == ("%M" :> <<2, "0", 0, Minutes - 1, "mi">>) @@ ("%S" :> <<2, "0", 0, Seconds, "s">>) @@ ("%3" :> <<Milli, "0", 0, Pow10[Milli] - 1, "ms">>)
Fields == DateFields @@ HourFields @@ TimeFields

FieldTaken(line, a, dir, fd, text, v) ==
  LET taken(b) == [b EXCEPT !.f.twelve = @ \/ dir \in {"%I", "%l"},
                            !.f.odd = @ \/ text # PadTo(v.n, fd[1], fd[2]) \/ (fd[5] = "s" /\ v.n = Seconds)]
  IN IF a.at + fd[1] > Len(line) \/ ~v.ok \/ v.n < fd[3] \/ v.n > fd[4] THEN Failed(a)
     ELSE taken(Consume(a, fd[1], fd[5], IF dir # "%y" THEN v.n ELSE IF v.n >= 69 THEN 1900 + v.n ELSE 2000 + v.n))
TakeField(line, a, dir) ==
  LET of(fd, text) == FieldTaken(line, a, dir, fd, text, ToNumber(text, fd[2]))
      at(fd) == of(fd, SubSeq(line, a.at + 1, a.at + fd[1]))
  IN at(Fields[dir])

Months == <<"January", "February", "March", "April", "May", "June", "July", "August", "September", "October", "November", "December">>
AbbrevMonths == <<"Jan", "Feb", "Mar", "Apr", "May", "Jun", "Jul", "Aug", "Sep", "Oct", "Nov", "Dec">>
AbbrevDays == <<"Sun", "Mon", "Tue", "Wed", "Thu", "Fri", "Sat">>
NameOf == ("%B" :> Months) @@ ("%b" :> AbbrevMonths) @@ ("%a" :> AbbrevDays) @@ ("%p" :> <<"AM", "PM">>)

TakeName(line, a, dir) ==
  LET is == {i \in DOMAIN NameOf[dir] : NameOf[dir][i] = line[a.at + 1]}
      i == CHOOSE j \in is : TRUE
  IN IF is = {} THEN Failed(a)
     ELSE CASE dir = "%p" -> Consume(a, 1, "pm", i = 2) [] dir = "%a" -> Consume(a, 1, "wd", i - 1) [] OTHER -> Consume(a, 1, "mo", i)

\* A relative timestamp: digits without a leading zero.
RelativeTaken(line, a, dir, len, v) ==
  LET taken(b) == [b EXCEPT !.f.odd = @ \/ v.wrapped]
  IN IF len = 0 \/ line[a.at + 1] = "0" \/ ~v.ok \/ v.n < 0 THEN Failed(a)
     ELSE taken(Consume(a, len, CASE dir = "%#3" -> "ms" [] dir = "%#6" -> "us" [] dir = "%#9" -> "ns", v.n))
TakeRelative(line, a, dir) ==
  LET of(len) == RelativeTaken(line, a, dir, len, ToNumber(SubSeq(line, a.at + 1, a.at + len), "0"))
  IN of(CHOOSE k \in 0 .. Len(line) - a.at :
          /\ \A j \in 1 .. k : IsDigit(line[a.at + j])
          /\ a.at + k = Len(line) \/ ~IsDigit(line[a.at + k + 1]))

Take(line, a, dir) ==
  IF ~a.ok THEN a ELSE IF a.at >= Len(line) THEN Failed(a)
  ELSE IF dir \in DOMAIN Fields THEN TakeField(line, a, dir)
  ELSE IF dir \in DOMAIN NameOf THEN TakeName(line, a, dir)
  ELSE IF dir \in {"%#3", "%#6", "%#9"} THEN TakeRelative(line, a, dir)
  ELSE IF dir = line[a.at + 1] THEN [a EXCEPT !.at = @ + 1] ELSE Failed(a)

\* Where the timestamp begins: after so many spaces.
AfterSpaces(line, n) ==
  LET at == {i \in 0 .. Len(line) : /\ Cardinality({j \in 1 .. i : line[j] = " "}) = n
                                    /\ i = 0 \/ line[i] = " "}
  IN IF n = 0 THEN 0 ELSE IF at = {} THEN -1 ELSE CHOOSE i \in at : TRUE

Hour(f) == IF f.twelve THEN (IF f.h = Half THEN 0 ELSE f.h) + (IF f.pm THEN Half ELSE 0) ELSE f.h
TimeOfDay(f) == ((Hour(f) * Minutes + f.mi) * Seconds + f.s) * Pow10[Milli] + f.ms
Epoch(f) == DaysFromCivil(f.y, f.mo, f.d) * 2 * Half * Minutes * Seconds * Pow10[Milli] + TimeOfDay(f)

\* parse_timestamp: the sum is a time point in nanoseconds.
OddFields(f) == f.odd \/ (f.twelve /\ Hour(f) = Half + 1) \/ f.wd \notin {-1, Weekday(DaysFromCivil(f.y, f.mo, f.d))}
ParsedTime(from, a) ==
  LET time(point, kept) == [ok |-> TRUE, ts |-> Toward0(kept, Ticks * Ticks), from |-> from, to |-> a.at,
                            odd |-> OddFields(a.f) \/ kept # point]
      of(point) == time(point, Within(point, PointMax))
  IN IF ~a.ok \/ a.f.d > MonthDays(a.f.y, a.f.mo) THEN [ok |-> FALSE, ts |-> 0, from |-> 0, to |-> 0, odd |-> FALSE]
     ELSE of((Epoch(a.f) * Ticks + a.f.us) * Ticks + a.f.ns)
Parse(line, p) ==
  LET of(from) == ParsedTime(from, FoldLeft(LAMBDA b, dir : Take(line, b, dir), [ok |-> from # -1, at |-> from, f |-> NoFields], p.fmt))
  IN of(AfterSpaces(line, p.spaces))

(***************************************************************************)
(* Formatting                                                              *)
(***************************************************************************)

TwelveHour(h) == IF h = 0 THEN Half ELSE IF h > Half + 1 THEN h - Half ELSE h

NumberOf(dir, c, h, tod) ==
  CASE dir = "%y" -> IF c.y >= 2000 THEN c.y - 2000 ELSE c.y - 1900
    [] dir = "%Y" -> c.y [] dir = "%m" -> c.mo [] dir \in {"%d", "%e"} -> c.d
    [] dir \in {"%H", "%k"} -> h [] dir \in {"%I", "%l"} -> TwelveHour(h)
    [] dir = "%M" -> (tod \div (Seconds * Pow10[Milli])) % Minutes [] dir = "%S" -> (tod \div Pow10[Milli]) % Seconds
    [] dir = "%3" -> tod % Pow10[Milli]
FormatAt(ts, dir, days, c, h, tod) ==
  LET padded(fd) == PadTo(NumberOf(dir, c, h, tod), fd[1], fd[2])
  IN CASE dir \in DOMAIN Fields -> padded(Fields[dir])
       [] dir = "%a" -> <<AbbrevDays[Weekday(days) + 1]>> [] dir = "%B" -> <<Months[c.mo]>> [] dir = "%b" -> <<AbbrevMonths[c.mo]>>
       [] dir = "%p" -> IF h >= Half THEN <<"PM">> ELSE <<"AM">>
       [] dir = "%#3" -> PadTo(ts, 1, "0") [] dir = "%#6" -> PadTo(ts * Ticks, 1, "0") [] dir = "%#9" -> PadTo(ts * Ticks * Ticks, 1, "0")
       [] OTHER -> <<dir>>
Format(ts, dir) ==
  LET at(days, tod) == FormatAt(ts, dir, days, CivilFromDays(days), tod \div (Minutes * Seconds * Pow10[Milli]), tod)
      of(perDay) == at(ts \div perDay, ts % perDay)
  IN of(2 * Half * Minutes * Seconds * Pow10[Milli])

\* insert_formatted_timestamp.
Insert(ts, p, content) ==
  LET at == AfterSpaces(content, p.spaces)
  IN SubSeq(content, 1, at) \o FlattenSeq([i \in DOMAIN p.fmt |-> Format(ts, p.fmt[i])]) \o SubSeq(content, at + 1, Len(content))

(***************************************************************************)
(* The known patterns                                                      *)
(***************************************************************************)
P(n, fmt) == [spaces |-> n, fmt |-> fmt]
Ymd(s) == <<"%Y", s, "%m", s, "%d">>
Hm(h) == <<h, ":", "%M">>
Hms(h) == Hm(h) \o <<":", "%S">>
Ymdhms(s, t) == Ymd(s) \o t \o Hms("%H")
Dmy(s, m, t) == <<"%d", s, m, s, "%Y", t>> \o Hms("%H")
Asc == <<"%a", " ", "%b", " ", "%e", " ">> \o Hms("%H") \o <<" ", "%Y">>

\* TimestampPattern::init, in its order.
KnownPatterns ==
  <<P(0, Ymdhms("-", <<"T">>) \o <<".", "%3">>), P(0, Ymdhms("-", <<"T">>) \o <<",", "%3">>),
    P(0, Ymdhms("-", <<" ">>) \o <<".", "%3">>), P(0, Ymdhms("-", <<" ">>) \o <<",", "%3">>),
    P(0, Ymdhms("/", <<"T">>) \o <<".", "%3">>), P(0, Ymdhms("/", <<"T">>) \o <<",", "%3">>),
    P(0, Ymdhms("/", <<" ">>) \o <<".", "%3">>), P(0, Ymdhms("/", <<" ">>) \o <<",", "%3">>),
    P(0, <<"[">> \o Ymdhms("-", <<" ">>) \o <<",", "%3", "]">>), P(2, Ymdhms("-", <<" ">>) \o <<",", "%3">>),
    P(0, <<"<", "<", "<">> \o Ymdhms("-", <<" ">>) \o <<":", "%3">>), P(0, Dmy(" ", "%b", " ") \o <<",", "%3">>),
    P(0, Ymdhms("-", <<"T">>)), P(0, Ymdhms("-", <<" ">>)), P(0, Ymdhms("/", <<"T">>)), P(0, Ymdhms("/", <<" ">>)),
    P(0, <<"[">> \o Ymdhms("-", <<"T">>)), P(0, <<"[", "%Y", "%m", "%d", "-">> \o Hms("%H") \o <<"]">>),
    P(1, Ymdhms("-", <<" ", " ">>)), P(0, <<"%y", "/", "%m", "/", "%d", " ">> \o Hms("%H")),
    P(0, <<"%y", "%m", "%d", " ">> \o Hms("%k")), P(0, <<"%b", " ", "%d", ",", " ", "%Y", " ">> \o Hms("%l") \o <<" ", "%p">>),
    P(0, <<"%B", " ", "%d", ",", " ", "%Y", " ">> \o Hm("%H")), P(1, <<"[">> \o Dmy("/", "%b", ":")), P(3, <<"[">> \o Dmy("/", "%b", ":")),
    P(3, <<"[">> \o Dmy("/", "%m", ":")), P(6, Ymdhms("-", <<" ">>)), P(1, Ymdhms("-", <<" ">>)), P(4, Asc), P(0, Asc),
    P(0, <<"%b", " ", "%d", " ">> \o Hms("%H")), P(0, <<"%m", "-", "%d", " ">> \o Hms("%H") \o <<".", "%3">>), P(0, <<"%#3">>)>>

\* search_known_ts_patterns.
Parses == [l \in Lines |-> [i \in DOMAIN KnownPatterns |-> Parse(l, KnownPatterns[i])]]
Search(results) == LET first(ok) == IF ok = {} THEN 0 ELSE CHOOSE i \in ok : \A j \in ok : i <= j
                   IN first({i \in DOMAIN results : results[i].ok})

(***************************************************************************)
(* The message parser                                                      *)
(***************************************************************************)
NoMsg == [patt |-> 0, ts |-> 0, content |-> <<>>, set |-> FALSE]
\* ParsedMessage::set.
Message(i, line, results) ==
  LET without(r) == [patt |-> i, ts |-> r.ts, content |-> SubSeq(line, 1, r.from) \o SubSeq(line, r.to + 1, Len(line)), set |-> TRUE]
  IN IF i = 0 THEN [NoMsg EXCEPT !.content = line, !.set = TRUE] ELSE without(results[i])

\* The pattern of the last message is tried first.
PatternFor(results) == IF mp.patt # 0 /\ results[mp.patt].ok THEN mp.patt ELSE Search(results)

Completed(m, msg) == [m EXCEPT !.out = Append(@, msg), !.patt = msg.patt]

\* Mutant: the new message has the pattern of the one it completes.
KeepsBuffer(i, msg, line) ==
  CASE i # 0 /\ ~mp.buf.set -> [mp EXCEPT !.buf = msg]
    [] i # 0 /\ mp.buf.set -> [Completed(mp, mp.buf) EXCEPT !.buf = [msg EXCEPT !.patt = mp.buf.patt]]
    [] i = 0 /\ ~mp.buf.set -> Completed(mp, msg)
    [] OTHER -> [mp EXCEPT !.buf.content = @ \o line]

\* parse_line, with the pattern of the line and the message made of it.
ParseLine(i, msg, line) ==
  CASE i # 0 /\ ~mp.buf.set -> [mp EXCEPT !.buf = msg]
    [] i # 0 /\ mp.buf.set -> [Completed(mp, mp.buf) EXCEPT !.buf = msg]
    [] i = 0 /\ ~mp.buf.set -> Completed(mp, msg)
    [] OTHER -> [mp EXCEPT !.buf.content = @ \o line]

\* parse_next_message: a line of the reader, whole or the last of the file.
ReadLine ==
  /\ ~mp.done /\ Len(mp.lines) < MaxLines /\ old.text = <<>>
  /\ \E line \in Lines :
       LET read(m) == [m EXCEPT !.lines = Append(@, line), !.done = line[Len(line)] # NewLine]
           with(i, results) == read(ParseLine(i, Message(i, line, results), line))
           of(results) == with(PatternFor(results), results)
       IN mp' = of(Parses[line])
  /\ UNCHANGED old

\* The end of the file: the message in the buffer is the last.
EndOfFile ==
  /\ mp.lines # <<>> /\ mp.buf.set
  /\ mp' = [Completed(mp, mp.buf) EXCEPT !.buf = NoMsg, !.done = TRUE]
  /\ UNCHANGED old

(***************************************************************************)
(* The timestamps of older clp-s archives                                  *)
(***************************************************************************)
\* convert_string_to_number_notz: up to so many digits, the last not zero.
NoTrailingZero(s) ==
  LET of(k) == [ok |-> ~(k > 1 /\ s[k] = "0"), n |-> Number(SubSeq(s, 1, k)) * Pow10[Milli - k], len |-> k]
  IN of(CHOOSE m \in 0 .. Milli :
          /\ m <= Len(s) /\ \A j \in 1 .. m : IsDigit(s[j])
          /\ m = Milli \/ m = Len(s) \/ ~IsDigit(s[m + 1]))

\* append_padded_value_notz.
WithoutZeros(n) ==
  LET upTo(all) == SubSeq(all, 1, CHOOSE i \in 1 .. Milli : all[i] # "0" /\ \A j \in i + 1 .. Milli : all[j] = "0")
  IN IF n = 0 THEN <<"0">> ELSE upTo(PadTo(n, Milli, "0"))

\* %E and %F: the whole text is a number.
WholeNumber(s) ==
  LET body == IF s # <<>> /\ s[1] = "-" THEN Tail(s) ELSE s
  IN IF body = <<>> \/ (\E i \in DOMAIN body : ~IsDigit(body[i])) THEN [ok |-> FALSE, n |-> 0] ELSE [ok |-> TRUE, n |-> IF body = s THEN Number(body) ELSE -Number(body)]
OldEpoch(text) == WholeNumber(text)
OldFloat(text) ==
  LET dots == {i \in DOMAIN text : text[i] = "."}
      dot == CHOOSE i \in dots : \A j \in dots : i <= j
      secs == WholeNumber(SubSeq(text, 1, dot - 1))
      nanos == WholeNumber(SubSeq(text, dot + 1, Len(text)))
  IN IF dots = {} \/ Len(text) # dot + Nano \/ dot = 1 \/ ~secs.ok \/ ~nanos.ok THEN [ok |-> FALSE, n |-> 0]
     ELSE [ok |-> TRUE, n |-> secs.n * Pow10[Nano] + nanos.n]

OldTake(text, a, dir) ==
  LET taken(v) == IF ~v.ok THEN Failed(a) ELSE Consume(a, v.len, "ms", v.n)
  IN IF dir # "%T" THEN Take(text, a, dir)
     ELSE IF ~a.ok \/ a.at >= Len(text) THEN Failed(a) ELSE taken(NoTrailingZero(SubSeq(text, a.at + 1, Len(text))))

\* parse_timestamp of clp-s: the sum is in milliseconds.
OldParse(text, fmt) ==
  LET number(v) == [ok |-> v.ok, ts |-> v.n, odd |-> FALSE]
      time(a) == [ok |-> a.ok /\ a.f.d <= MonthDays(a.f.y, a.f.mo) /\ a.at = Len(text), ts |-> Epoch(a.f), odd |-> OddFields(a.f)]
  IN CASE fmt = <<"%E">> -> number(OldEpoch(text)) [] fmt = <<"%F">> -> number(OldFloat(text))
       [] OTHER -> time(FoldLeft(LAMBDA b, dir : OldTake(text, b, dir), [ok |-> TRUE, at |-> 0, f |-> NoFields], fmt))

Signed(n) == IF n < 0 THEN <<"-">> \o PadTo(-n, 1, "0") ELSE PadTo(n, 1, "0")
\* insert_formatted_timestamp of clp-s, into an empty text.
OldFormat(ts, fmt) ==
  LET pointed(all, at) == SubSeq(all, 1, at) \o <<".">> \o SubSeq(all, at + 1, Len(all))
      float(all) == pointed(all, Len(all) - Nano)
  IN CASE fmt = <<"%E">> -> Signed(ts) [] fmt = <<"%F">> -> float(Signed(ts))
       [] OTHER -> FlattenSeq([i \in DOMAIN fmt |-> IF fmt[i] = "%T" THEN WithoutZeros(ts % Pow10[Milli]) ELSE Format(ts, fmt[i])])

\* TimestampDictionaryReader::append_timestamp_to_buffer, of a timestamp that
\* the older writer stored (clp-s is a program of its own).
ReadOldTimestamp ==
  /\ mp.lines = <<>>
  /\ \E t \in OldTexts : LET read(r) == r.ok /\ old' = [text |-> t.text, restored |-> OldFormat(r.ts, t.fmt), odd |-> r.odd]
                         IN read(OldParse(t.text, t.fmt))
  /\ UNCHANGED mp

TSInit == mp = [patt |-> 0, buf |-> NoMsg, out |-> <<>>, lines |-> <<>>, done |-> FALSE] /\ old = [text |-> <<>>, restored |-> <<>>, odd |-> FALSE]
TSNext == ReadLine \/ EndOfFile \/ ReadOldTimestamp
TSSpec == TSInit /\ [][TSNext]_tsVars

(***************************************************************************)
(* Properties                                                              *)
(***************************************************************************)
\* A message in the parser's buffer has a timestamp, so that a line without one
\* goes on with it; a message without a timestamp is one line.
TSTypeOK ==
  /\ mp.buf.set => mp.buf.patt \in DOMAIN KnownPatterns
  /\ \A i \in DOMAIN mp.out : mp.out[i].set /\ (mp.out[i].patt = 0 => mp.out[i].content \in Lines)

Restore(m) == IF m.patt = 0 THEN m.content ELSE Insert(m.ts, KnownPatterns[m.patt], m.content)
Restored == FlattenSeq([i \in DOMAIN mp.out |-> Restore(mp.out[i])]) \o Restore(mp.buf)

\* The text of a line that no pattern reproduces is a known limit.
Odd(line) == \E r \in Range(Parses[line]) : r.ok /\ r.odd
\* What the decompressor makes of the messages is the file, symbol for symbol,
\* whatever pattern was in use before, if no line has such a timestamp.
LinesRestored == (\A i \in DOMAIN mp.lines : ~Odd(mp.lines[i])) => Restored = FlattenSeq(mp.lines)

\* The reader restores the timestamps of older clp-s archives.
OldTimestampsRestored == ~old.odd => old.restored = old.text
=============================================================================
