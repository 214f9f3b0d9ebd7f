------------------------------- MODULE MCClp -------------------------------
(* Small instances of the models of clp, clg, clo, glt and their libraries:   *)
(* one behaviour runs one of the Parts, the variables of the others are idle. *)
EXTENDS ClpGrep, TimestampPattern, TLC

CONSTANT Parts   \* "extract", "grep", "ffi", "ir", "tables", "pattern", "glt"

VARIABLES which, job, todo, arc, ok, status, ex, fs, fq, ft, ses, iwr, ist, ird,
          db, mwr, mrd, gj, gw, gd, gs

extractVars == <<job, todo, arc, ok, status, ex, fs>>
ffiVars == <<fq, ft>>
irVars == <<ses, iwr, ist, ird>>
tableVars == <<db, mwr, mrd>>
gltVars == <<gj, gw, gd, gs>>
vars == <<which, extractVars, cgVars, ffiVars, irVars, tableVars, tsVars, gltVars>>

\* The widths of the encoded variables, scaled: "four" holds the integers up to 9
\* and floats of two digits.
Width(f, e) == [four |-> f, eight |-> e]
MCMaxInt == Width(9, 99)
MCFloatDigits == Width(2, 3)
MCDigitsField == Width(20, 2000)

UpTo(S, n) == UNION {[1 .. k -> S] : k \in 1 .. n}

-----------------------------------------------------------------------------
(* ClpArchive, ClpExtract: files with and without timestamps, tarballs with
   IR members that are corrupt or throw, sizes that cut files, segments and
   archives, and every kind of decompression. *)

Line(p, t, l, v) == [pats |-> p, ts |-> t, lt |-> l, vars |-> v]
Dated == <<Line({1}, 1, "a", <<"x">>), Line({2}, 7, "b", <<"y">>)>>
TextFile(p, ls) ==
  [path |-> p, content |-> "text", lines |-> ls, members |-> <<>>, badHeader |-> FALSE]
Member(t, p, c, ls, e) == [type |-> t, path |-> p, content |-> c, lines |-> ls, pat |-> 1, end |-> e]
Tar(ms, b) ==
  [path |-> <<"d", "t">>, content |-> "archive", lines |-> <<>>, members |-> ms, badHeader |-> b]

Plans ==
  LET Mixed == TextFile(<<"p">>, <<Line({}, 0, "a", <<>>), Line({}, 0, "b", <<"x">>),
                                   Line({1}, 3, "a", <<"y">>), Line({}, 0, "c", <<>>),
                                   Line({1, 2}, 2, "b", <<"x">>), Line({2}, 5, "d", <<"z">>)>>)
      Unknown == TextFile(<<"p">>, <<Line({1}, 1, "a", <<>>), Line({0}, 1, "b", <<>>)>>)
      Junk == [TextFile(<<"j">>, <<>>) EXCEPT !.content = "junk"]
      Thrown == Member("reg", <<"f">>, "ir", Dated, "throws")
      Tar1 == Tar(<<Member("dir", <<"e">>, "text", <<>>, "ok"),
                    Member("dir", <<"e", "g">>, "text", <<>>, "ok"),
                    Member("reg", <<"h", "f">>, "ir", Dated, "corrupt"),
                    Member("other", <<"o">>, "text", <<>>, "ok"),
                    Member("reg", <<"u">>, "unreadable", <<>>, "ok"),
                    Member("reg", <<"k">>, "text", Dated, "ok")>>, FALSE)
      Tar2 == Tar(<<Thrown, Member("reg", <<"g">>, "ir", Dated, "ok")>>, TRUE)
      Tar3 == Tar(<<Thrown, Member("reg", <<"g">>, "text", Dated, "ok")>>, TRUE)
  IN {<<Mixed, TextFile(<<"p">>, Dated)>>, <<TextFile(<<"q">>, Dated), Mixed, Junk>>,
      <<Tar1, Mixed>>, <<Tar2>>, <<Tar3>>, <<Tar2, TextFile(<<"p">>, Dated)>>, <<Unknown>>, <<>>}
ClpJobs ==
  {[heuristic |-> h, inputs |-> p, empties |-> {<<"v">>}, dict |-> z[1], file |-> z[2], seg |-> z[3]] :
     h \in BOOLEAN, p \in Plans,
     z \in {<<9, 99, 99>>, <<4, 99, 99>>, <<9, 4, 99>>, <<9, 99, 4>>, <<4, 4, 4>>}}
ClpRequests ==
  LET Req(m, ps, o, i, g) == [mode |-> m, paths |-> ps, orig |-> o, ix |-> i, target |-> g]
  IN {Req("all", {}, 0, 0, 0), Req("paths", {<<"p">>}, 0, 0, 0),
      Req("paths", {<<"p">>, <<"d", "k">>, <<"z">>}, 0, 0, 0),
      Req("ir", {}, 1, 0, 2), Req("ir", {}, 1, 3, 99), Req("ir", {}, 2, 1, 1)}

Extract == INSTANCE ClpExtract
  WITH Jobs <- ClpJobs, Requests <- ClpRequests, GoneArchives <- {{}, {0}}, MaxAttempts <- 2

-----------------------------------------------------------------------------
(* ClpGrep: every text up to three characters, searched for every short
   wildcard string, and several strings over several archives. *)

GrepArchives ==
  LET Texts(al, len) ==   \* the texts of a length over an alphabet
        [n \in 1 .. Len(al) ^ len |->
           [j \in 1 .. len |-> al[(((n - 1) \div (Len(al) ^ (j - 1))) % Len(al)) + 1]]]
      Big == <<"a", "1", "0", ".", "-", "=", " ", "*", "\\">>
      Small == <<"a", "1", ".", "=", " ">>
      File(seg, ts, texts) ==
        [seg |-> seg, msgs |-> [i \in DOMAIN texts |-> [text |-> texts[i], ts |-> ts]]]
      Arch(schema, files) == [gone |-> FALSE, schema |-> schema, files |-> files]
  IN [heuristic |-> Arch(FALSE, <<File(1, 1, Texts(Big, 1) \o Texts(Big, 2)),
                                  File(2, 2, Texts(Small, 3))>>),
      schema |-> Arch(TRUE, <<File(1, 1, Texts(Small, 1) \o Texts(Small, 2)
                                           \o Texts(<<"a", "1", " ">>, 3))>>),
      few |-> Arch(FALSE, <<File(1, 1, <<<<"A", "1">>, <<"a", "1">>, <<"x">>>>),
                            File(2, 3, <<<<"a", " ", "1">>, <<"B", "x">>,
                                         <<"1", " ", "9", " ", "a">>>>),
                            File(1, 5, <<<<"b", "a", "1">>, <<"x", " ", "a", "1">>,
                                         <<"1", " ", "a", "1", " ", "9", "9", "9">>>>)>>),
      more |-> Arch(FALSE, <<File(1, 2, <<<<"x">>, <<"b", "1">>>>)>>),
      lost |-> [gone |-> TRUE, schema |-> FALSE, files |-> <<>>]]
GrepCases ==
  LET Case(as, ss, ic, w) == [archives |-> as, strings |-> ss, ignoreCase |-> ic, window |-> w]
      Words == {<<"a", "1">>, <<"x">>, <<"9", "9", "9">>, <<"b">>, <<"x", "*", "a">>,
                <<"1", " ", "a", "1">>, <<"*">>, <<"z">>, <<" ", "1", " ", "a">>}
  IN {Case(<<"heuristic">>, <<s>>, FALSE, <<0, 9>>) :
        s \in UpTo({"a", "1", ".", "=", " ", "*", "?"}, 3) \cup UpTo({"a", "1", "*", "\\"}, 3)}
     \cup {Case(<<"schema">>, <<s>>, FALSE, <<0, 9>>) : s \in UpTo({"a", "1", ".", " ", "*"}, 2)}
     \cup {Case(<<"lost", "few", "more">>, <<s, t>>, ic, w) :
             s \in Words, t \in Words, ic \in BOOLEAN, w \in {<<0, 9>>, <<2, 3>>}}
GrepSchemaVars ==
  LET texts == UNION {{f.msgs[i].text : i \in DOMAIN f.msgs} : f \in Range(GrepArchives["schema"].files)}
  IN UNION {{SubSeq(t, v[1], v[2]) : v \in Range(Variables(t))} : t \in texts}

-----------------------------------------------------------------------------
(* FfiSearch: every query up to four characters, and pairs of words. *)

Spaced(A, B) == {x \o <<" ">> \o y : x \in A, y \in B}
FfiQueries ==
  LET Texts == UpTo({"1", ".", "a", "=", " ", "*", "?"}, 4) \cup UpTo({"1", "a", "<i>", "\\", "*", "?"}, 3)
      W1 == {<<"*", "1">>, <<"a", "*">>, <<"1", "*">>, <<"?", "1">>, <<"1", "?", "a">>, <<"*", "1", "*">>}
      W2 == {<<"a", "?", "a">>, <<"1", "*", "a">>, <<"1", "?", "1">>, <<"?", "a">>, <<"1">>}
  IN [text : {q \in Texts : CleanUp(q) = q} \cup Spaced(W1, W2), width : {"four", "eight"}]
FfiMsgs ==
  LET Parts1 == {<<"1">>, <<"a">>, <<"1", "a">>, <<"1", " ", "1">>, <<"a", " ", "a">>, <<"1", ".", "1">>,
                 <<"1", "=", "a">>, <<"1", "1", "a">>, <<"a", "1", "a">>}
  IN UpTo({"1", ".", "a", "=", " ", "b"}, 3)
       \cup {m \in UpTo({"1", "a", "\\", "<i>", " "}, 3) :
               Cardinality({i \in DOMAIN m : NeedsEscape(m[i])}) <= 1}
       \cup Spaced(Parts1, Parts1)

Ffi == INSTANCE FfiSearch WITH Queries <- FfiQueries, Msgs <- FfiMsgs

-----------------------------------------------------------------------------
(* IrText: every text up to three characters, deltas and offsets of every
   width, preambles of every version. *)

IrSessions ==
  LET Ev(ts, utc, t) == [ts |-> ts, utc |-> utc, text |-> t]
      Ses(w, api, es, ref, meta, v) ==
        [w |-> w, api |-> api, events |-> es, ref |-> ref, meta |-> meta, version |-> v]
      Texts == {<<>>} \cup UpTo({"a", "1", "0", ".", "-", "=", "z", " ", "\\", "<i>", "<f>"}, 3)
      T1 == <<"1", ".", "0", " ", "a", "b", "1", "a", " ", "1", "1">>
      T2 == <<"=", "a", " ", "-", "1", "\\", "<d>", "1", "2", ".", "5">>
      T3 == <<"1", "1", "1", " ", "a", "1", "a", "1", "a">>
      Times == {<<0, 1>>, <<5, 2>>, <<9, 9>>, <<-2, 30>>, <<3, -5>>}
      Widths == {"four", "eight"}
  IN {Ses("four", "log", <<Ev(1, 0, t)>>, 0, 1, "0.0.2") : t \in Texts}
     \cup {Ses("eight", "log", <<Ev(1, 0, t)>>, 0, 1, "0.0.2") : t \in {u \in Texts : Len(u) < 3}}
     \cup {Ses(w, a, <<Ev(d[1], 0, T1), Ev(d[2], u, T2)>>, 3, 3, "0.0.1") :
             w \in Widths, a \in {"log", "unit"}, d \in Times, u \in {0, 2}}
     \cup {Ses("four", "log", <<>>, 0, m, v) : m \in {1, 9}, v \in {"none", "0.1.0", "v0.0.0"}}
     \cup {Ses(w, "log", <<Ev(1, 0, <<"a">>), Ev(2, 0, T3), Ev(3, 0, <<"b">>)>>, 0, 1, "0.0.2") :
             w \in Widths}

Ir == INSTANCE IrText
  WITH Sessions <- IrSessions, UByteMax <- 2, UShortMax <- 4, LenMax <- 12,
       DeltaMax <- <<1, 3, 7>>, wr <- iwr, st <- ist, rd <- ird

-----------------------------------------------------------------------------
(* MetadataTables: two compressions that overlap in time and share a path, an
   update in place, and every lookup. *)

Archived(id, b, e, cr, ix) ==
  [id |-> id, begin_timestamp |-> b, end_timestamp |-> e, uncompressed_size |-> 8, size |-> 7,
   creator_id |-> cr, creation_ix |-> ix]
FilePart(id, orig, path, b, e, bm, n, a) ==
  [id |-> id, orig_file_id |-> orig, path |-> path, begin_timestamp |-> b, end_timestamp |-> e,
   num_uncompressed_bytes |-> 50 + id, begin_message_ix |-> bm, num_messages |-> n, archive_id |-> a]
LocalFile(id, path, b, e, seg, pos) ==
  [id |-> id, orig_file_id |-> 30 + id, path |-> path, begin_timestamp |-> b, end_timestamp |-> e,
   timestamp_patterns |-> 40 + id, num_uncompressed_bytes |-> 60, begin_message_ix |-> 0,
   num_messages |-> 2, num_variables |-> 60, is_split |-> 0, split_ix |-> 0, segment_id |-> seg,
   segment_timestamps_position |-> pos, segment_logtypes_position |-> 60,
   segment_variables_position |-> 60]
TableScripts ==
  LET NewArchive(row) == [op |-> "archive", row |-> row]
      Files(rows) == [op |-> "files", rows |-> rows]
      Local(rows) == [op |-> "local", rows |-> rows]
      A1 == Archived(1, 2, 5, 0, 1)
      F1 == FilePart(11, 21, 31, 2, 4, 0, 3, 1)
      F1Longer == FilePart(11, 21, 31, 2, 5, 0, 4, 1)
      F3 == FilePart(13, 22, 32, 3, 3, 0, 1, 1)
      L1 == LocalFile(11, 31, 2, 4, 1, 5)
  IN {<<NewArchive(Archived(2, 4, 9, 0, 0)), Files(<<FilePart(12, 21, 31, 5, 9, 4, 2, 2)>>),
        NewArchive(A1), Files(<<F1, F3>>), Files(<<F1Longer>>)>>,
      <<NewArchive(A1), Files(<<F1, F3>>),
        [op |-> "update", row |-> [A1 EXCEPT !["end_timestamp"] = 9, !["size"] = 77]],
        NewArchive(Archived(3, 1, 3, 1, 0)), Files(<<FilePart(14, 23, 32, 1, 3, 0, 2, 3), F1Longer>>)>>,
      <<[op |-> "dirs", dirs |-> <<1, 2, 1>>],
        Local(<<L1, LocalFile(12, 31, 5, 9, 0, 0), LocalFile(13, 32, 3, 9, 1, 0)>>),
        Local(<<LocalFile(14, 32, 1, 3, 0, 6), L1>>), NewArchive(A1), NewArchive(A1)>>}
TableLookups ==   \* -1 and 99: no bound in time; -2: no such condition
  [kind : {"all", "dirs"}] \cup [kind : {"window"}, begin : {0, 4}, end : {3, 6}]
    \cup [kind : {"path"}, path : {31, 32}]
    \cup [kind : {"split"}, orig : {21, 22}, message : {0, 3, 4}]
    \cup [kind : {"files"}, begin : {-1, 4}, end : {99, 3}, path : {-2, 31}, id : {-2, 13},
          seg : {-2, 0, 1}, byEnd : BOOLEAN]

Tables == INSTANCE MetadataTables
  WITH Scripts <- TableScripts, Lookups <- TableLookups, MaxRows <- 4, wr <- mwr, rd <- mrd

-----------------------------------------------------------------------------
(* TimestampPattern: lines of every known pattern, in a day of six hours of two
   minutes of two seconds; leap days, the era, noon, padding. *)

PatternLines ==
  LET N2(n) == PadTo(n, 2, "0")
      N4(n) == PadTo(n, 4, "0")
      Sp2(n) == PadTo(n, 2, " ")
      Day(y, m, d) == N4(y) \o <<"-">> \o N2(m) \o <<"-">> \o N2(d)
      Clock(h, m, s) == N2(h) \o <<":">> \o N2(m) \o <<":">> \o N2(s)
      NL(t) == t \o <<"\n">>
  IN {NL(Day(1972, 2, 29) \o <<t>> \o Clock(5, 1, 1) \o f) :
        t \in {"T", " "}, f \in {<<".", "7">>, <<",", "7">>, <<>>, <<" ", "x">>}}
     \cup {NL(<<"x", " ">> \o Day(1972, 2, 28) \o sp \o Clock(0, 0, 0)) : sp \in {<<" ">>, <<" ", " ">>}}
     \cup {NL(Day(1971, 2, 29) \o <<"T">> \o Clock(5, 1, 1)), NL(<<"x">>), <<"x">>, NL(<<>>),
           NL(<<"1">>), NL(<<"0">>), <<"9", "9", " ", "x">>, NL(<<"2", "5", "0", "0", "0">>),
           NL(<<"1", "2", "0", "0", "0">>),
           NL(Day(1972, 1, 1) \o <<" ">> \o Day(1973, 1, 1) \o <<" ">> \o Clock(1, 1, 1))}
     \cup {NL(N2(71) \o N2(3) \o N2(1) \o <<" ">> \o Sp2(h) \o <<":">> \o N2(1) \o <<":">> \o N2(0)) :
             h \in {0, 5}}
     \cup {NL(<<"Feb", " ">> \o N2(28) \o <<",", " ">> \o N4(1971) \o <<" ">> \o Sp2(h) \o <<":">>
               \o N2(0) \o <<":">> \o N2(0) \o <<" ", q>>) : h \in 1 .. 3, q \in {"AM", "PM"}}
     \cup {NL(<<w, " ", "Mar", " ">> \o Sp2(1) \o <<" ">> \o Clock(1, 1, 0) \o <<" ">> \o N4(1970)) :
             w \in {"Sun", "Mon"}}
     \cup {NL(<<"March", " ">> \o N2(1) \o <<",", " ">> \o N4(1970) \o <<" ">> \o N2(3) \o <<":">> \o N2(1)),
           NL(<<"-", " ", "-", " ", "-", " ", "[">> \o N2(1) \o <<"/", "Jan", "/">> \o N4(1969)
              \o <<":">> \o Clock(5, 1, 1)),
           NL(Day(3000, 1, 1) \o <<"T">> \o Clock(0, 0, 0)), NL(Day(1970, 1, 1) \o <<"T">> \o Clock(0, 0, 2)),
           NL(N2(3) \o <<"-">> \o N2(1) \o <<" ">> \o Clock(1, 1, 1) \o <<".", "2">>)}
PatternOld ==
  LET O(t, f) == [text |-> t, fmt |-> f]
      N2(n) == PadTo(n, 2, "0")
      Clock(h, m, s) == N2(h) \o <<":">> \o N2(m) \o <<":">> \o N2(s)
  IN {O(PadTo(n, 1, "0"), <<"%E">>) : n \in {0, 7, 120}} \cup {O(<<"-", "7">>, <<"%E">>)}
     \cup {O(<<s, ".">> \o N2(n), <<"%F">>) : s \in {"1", "9"}, n \in {0, 5, 70}}
     \cup {O(Clock(5, 1, 1) \o <<".">> \o f, <<"%H", ":", "%M", ":", "%S", ".", "%T">>) :
             f \in {<<"0">>, <<"5">>, <<"0", "5">>, <<"5", "0">>}}
     \cup {O(PadTo(h, 2, " ") \o <<":">> \o N2(0) \o <<q>>, <<"%l", ":", "%M", "%p">>) :
             h \in 1 .. 3, q \in {"AM", "PM"}}

-----------------------------------------------------------------------------
(* GltArchive, GltSearch: files whose messages fall into single and combined
   tables, sizes that cut files, segments and archives, and every kind of
   search string. *)

GltJobs ==
  LET File(p, texts) ==
        [path |-> p, msgs |-> [i \in DOMAIN texts |->
           [text |-> texts[i], ts |-> IF i % 3 = 1 THEN 0 ELSE i + 6,
            pat |-> IF i % 3 = 1 THEN 0 ELSE 1 + (i % 2)]]]
      T1 == <<"a">>
      T2 == <<"b", " ", "1">>
      T3 == <<"a", "1", " ", "2">>
      T4 == <<"b", " ", "2">>
      T5 == <<"A", "1", " ", "2">>
      T6 == <<"a", " ", "1", ".", "2">>
      T7 == <<"b", " ", "2", " ", "b", " ", "1">>
      Sets == {<<<<T1, T2, T3, T4, T2>>, <<T4, T7, T1>>, <<T2, T1>>>>,
               <<<<T3, T5, T6, T3, T1>>, <<T5, T2>>, <<T6, T2, T2>>>>,
               <<<<T2, T2, T2, T4>>, <<T3, T3>>, <<T1, T6>>>>,
               <<<<>>, <<T6, T5, T4, T3, T2, T1>>, <<T1, T2, T3>>>>}
      Sizes == {<<99, 99, 99>>, <<6, 99, 99>>, <<99, 12, 99>>, <<6, 12, 99>>, <<99, 99, 3>>, <<6, 99, 4>>}
  IN {[files |-> <<File("p", s[1]), File("q", s[2]), File("r", s[3])>>, threshold |-> th,
       fileTarget |-> z[1], segmentTarget |-> z[2], dictionaryTarget |-> z[3],
       request |-> IF th # 40 THEN {} ELSE IF z[1] = 6 THEN {"q"} ELSE {"p", "r"}] :
        s \in Sets, th \in {0, 20, 40, 100}, z \in Sizes}
GltCases ==
  LET Case(ss, w, ic, f) == [strings |-> ss, window |-> w, ignoreCase |-> ic, file |-> f]
      All == <<0, 99>>
      Strings == {<<"1">>, <<"a">>, <<"a", "1">>, <<"b", " ", "*">>, <<"?">>, <<"*">>, <<"a", "*">>,
                  <<"b", " ", "2">>, <<"1", " ", "2">>, <<"1", ".", "2">>, <<"?", "1">>,
                  <<"a", "1", " ", "2">>, <<"x">>, <<"A", "?">>, <<"*", "2">>,
                  <<"b", " ", "1", " ", "b">>, <<"b", " ", "2", " ", "b">>}
  IN {Case(<<s>>, All, ic, "") : s \in Strings, ic \in BOOLEAN}
     \cup {Case(<<s>>, <<8, 9>>, FALSE, "") : s \in Strings}
     \cup {Case(<<<<"a">>, <<"2">>>>, All, FALSE, ""), Case(<<<<"x">>, <<"1">>>>, All, FALSE, ""),
           Case(<<<<"1">>, <<"?">>, <<"2">>>>, <<7, 99>>, FALSE, ""), Case(<<<<"1">>>>, All, FALSE, "q")}

Glt == INSTANCE GltSearch

-----------------------------------------------------------------------------
Idle == "idle"
ExtractIdle == job = Idle /\ todo = Idle /\ arc = Idle /\ ok = Idle /\ status = Idle /\ ex = Idle /\ fs = Idle
GrepIdle == cs = Idle /\ gp = Idle
FfiIdle == fq = Idle /\ ft = Idle
IrIdle == ses = Idle /\ iwr = Idle /\ ist = Idle /\ ird = Idle
TablesIdle == db = Idle /\ mwr = Idle /\ mrd = Idle
PatternIdle == mp = Idle /\ old = Idle
GltIdle == gj = Idle /\ gw = Idle /\ gd = Idle /\ gs = Idle

Init ==
  \/ /\ which = "extract" /\ which \in Parts /\ Extract!CEInit
     /\ GrepIdle /\ FfiIdle /\ IrIdle /\ TablesIdle /\ PatternIdle /\ GltIdle
  \/ /\ which = "grep" /\ which \in Parts /\ CGInit
     /\ ExtractIdle /\ FfiIdle /\ IrIdle /\ TablesIdle /\ PatternIdle /\ GltIdle
  \/ /\ which = "ffi" /\ which \in Parts /\ Ffi!FSInit
     /\ ExtractIdle /\ GrepIdle /\ IrIdle /\ TablesIdle /\ PatternIdle /\ GltIdle
  \/ /\ which = "ir" /\ which \in Parts /\ Ir!IRInit
     /\ ExtractIdle /\ GrepIdle /\ FfiIdle /\ TablesIdle /\ PatternIdle /\ GltIdle
  \/ /\ which = "tables" /\ which \in Parts /\ Tables!MTInit
     /\ ExtractIdle /\ GrepIdle /\ FfiIdle /\ IrIdle /\ PatternIdle /\ GltIdle
  \/ /\ which = "pattern" /\ which \in Parts /\ TSInit
     /\ ExtractIdle /\ GrepIdle /\ FfiIdle /\ IrIdle /\ TablesIdle /\ GltIdle
  \/ /\ which = "glt" /\ which \in Parts /\ Glt!GAInit /\ Glt!GSInit
     /\ ExtractIdle /\ GrepIdle /\ FfiIdle /\ IrIdle /\ TablesIdle /\ PatternIdle

Next ==
  \/ /\ which = "extract" /\ Extract!CENext
     /\ UNCHANGED <<which, cgVars, ffiVars, irVars, tableVars, tsVars, gltVars>>
  \/ /\ which = "grep" /\ CGNext
     /\ UNCHANGED <<which, extractVars, ffiVars, irVars, tableVars, tsVars, gltVars>>
  \/ /\ which = "ffi" /\ Ffi!FSNext
     /\ UNCHANGED <<which, extractVars, cgVars, irVars, tableVars, tsVars, gltVars>>
  \/ /\ which = "ir" /\ Ir!IRNext
     /\ UNCHANGED <<which, extractVars, cgVars, ffiVars, tableVars, tsVars, gltVars>>
  \/ /\ which = "tables" /\ Tables!MTNext
     /\ UNCHANGED <<which, extractVars, cgVars, ffiVars, irVars, tsVars, gltVars>>
  \/ /\ which = "pattern" /\ TSNext
     /\ UNCHANGED <<which, extractVars, cgVars, ffiVars, irVars, tableVars, gltVars>>
  \/ /\ which = "glt" /\ Glt!GSNext
     /\ UNCHANGED <<which, extractVars, cgVars, ffiVars, irVars, tableVars, tsVars>>

Spec == Init /\ [][Next]_vars

-----------------------------------------------------------------------------
(* What clp compresses comes back symbol for symbol: files through archives,  *)
(* whatever is split over segments, files and archives, and events through    *)
(* text IR streams, alone or compressed again.                                *)
FilesRestored ==
  /\ which = "extract" =>
       /\ Extract!CATypeOK /\ Extract!CETypeOK /\ Extract!ListedFilesAreIndexed
       /\ Extract!GlobalMetadataIsPrefix /\ Extract!TimeRangeCovers /\ Extract!RestoresFile
       /\ Extract!RestoresRequested /\ Extract!ChunksCoverSplit
  /\ which = "ir" =>
       Ir!IRTypeOK /\ Ir!EventsAreRestored /\ Ir!EndIsTheEnd /\ Ir!ArchivedAlike

(* clg and clo print the messages that match the wildcard query and no others; *)
(* the subqueries of ffi/search find every message that matches.               *)
GrepAnswers ==
  /\ which = "grep" => CGTypeOK /\ FindsAllMatches /\ PrintsOnlyMatches
  /\ which = "ffi" => Ffi!FSTypeOK /\ Ffi!SubqueriesFindAll

(* The metadata tables give back the rows they were given, every file a query  *)
(* asks for and the splits of a file in order.                                 *)
RowsFound ==
  which = "tables" =>
    Tables!MTTypeOK /\ Tables!RowsAsGiven /\ Tables!NothingOverlooked /\ Tables!PartsInOrder

(* The timestamps that TimestampPattern takes out of the messages are put back *)
(* as they were, line by line, in new archives and in old ones.                *)
TimesRestored == which = "pattern" => TSTypeOK /\ LinesRestored /\ OldTimestampsRestored

(* glt restores its files from tables of columns, and its searches, which      *)
(* visit the tables in another order, print exactly the matches.               *)
GltAnswers ==
  which = "glt" =>
    /\ Glt!GATypeOK /\ Glt!GSTypeOK
    /\ Glt!RestoresFiles /\ Glt!GltFindsAll /\ Glt!GltPrintsOnlyMatches
=============================================================================
