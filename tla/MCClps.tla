------------------------------- MODULE MCClps -------------------------------
(* Small instances of the models of clp-s and of the key-value IR library:    *)
(* one behaviour runs one of the Parts, the variables of the others are idle. *)
EXTENDS TimestampParser, TLC

CONSTANT Parts   \* "extract", "ast", "search", "stream", "kvquery", "times", "output",
                 \* "buffered", "libarchive", "input", "converter"

VARIABLES which,
          eopt, files, pos, aw, irMap, archives, estatus, taken, ex, eout, chunks,
          query, ids, expr, pass, sarch, sopt, junk, sm, strs, todo, sout, proj, sstatus,
          tree, partial, resolved, verdict,
          ser, irBuf, stream, calls, sent, des, got,
          job, so, dest,
          src, br, call, ret, strayed,
          ar, la,
          ijob, st,
          cmd, lc

extractVars == <<eopt, files, pos, aw, irMap, archives, estatus, taken, ex, eout, chunks>>
astVars == <<query, ids, expr, pass>>
searchVars == <<sarch, sopt, junk, sm, strs, todo, sout, proj, sstatus>>
kvQueryVars == <<tree, partial, resolved, verdict>>
streamVars == <<ser, irBuf, stream, calls, sent, des, got>>
outputVars == <<job, so, dest>>
readerVars == <<src, br, call, ret, strayed, ar, la, ijob, st, cmd, lc>>
coreVars == <<tpVars, extractVars, astVars, searchVars, kvQueryVars, streamVars, outputVars>>
vars == <<which, coreVars, readerVars>>

-----------------------------------------------------------------------------
(* ClpsArchive, ClpsExtract: records whose fields change type, structured and
   unstructured arrays, timestamps, floats, malformed and mixed inputs, under
   every combination of options. *)

Tagged(t, n, x, kv) == [t |-> t, n |-> n, x |-> x, kv |-> kv]
IntV(n, x) == Tagged("int", n, x, <<>>)
StrV(x) == Tagged("str", 0, x, <<>>)
FltV(x) == Tagged("flt", 0, x, <<>>)
NullV == Tagged("null", 0, "", <<>>)
KV(k, v) == [k |-> k, v |-> v]
ObjV(kv) == Tagged("obj", 0, "", kv)
ArrV(els) == Tagged("arr", 0, "", [i \in 1 .. Len(els) |-> KV("", els[i])])

ExtractInputs ==
  LET Doc(kv) == [u |-> "doc", v |-> ObjV(kv)]
      Malformed == [u |-> "bad"]
      J(units) == [kind |-> "json", units |-> units, metadata |-> "m"]
      Node(p, k, t) == [parent |-> p, key |-> k, type |-> t]
      UserTree == <<Node(-1, "", "Obj"), Node(0, "a", "Obj"), Node(1, "t", "Int"), Node(0, "s", "Str"),
                    Node(1, "t", "Str"), Node(0, "l", "Array")>>
      AutoTree == <<Node(-1, "", "Obj"), Node(0, "h", "Str")>>
      P(n, v) == [node |-> n, v |-> v]
      Ev(a, u) == [u |-> "doc", auto |-> a, user |-> u]
      K(units) == [kind |-> "kvir", units |-> units, metadata |-> "k",
                   autoTree |-> AutoTree, userTree |-> UserTree]
      D1 == Doc(<<KV("a", ObjV(<<KV("t", IntV(5, "5"))>>)), KV("b", StrV("x y"))>>)
      D2 == Doc(<<KV("b", StrV("x")), KV("a", ObjV(<<KV("t", StrV("25n")), KV("u", ObjV(<<>>))>>))>>)
      D3 == Doc(<<KV("a", ObjV(<<KV("t", FltV("-0.5"))>>)), KV("c", IntV(9, "9"))>>)
      D4 == Doc(<<>>)
      D5 == Doc(<<KV("d", NullV), KV("c", FltV("1e3"))>>)
      D6 == Doc(<<KV("l", ArrV(<<IntV(1, "1"),
                                 ObjV(<<KV("k", ObjV(<<KV("m", IntV(2, "2"))>>)), KV("j", StrV("x"))>>),
                                 ArrV(<<>>), ArrV(<<NullV, ObjV(<<>>)>>)>>)),
                  KV("c", IntV(3, "3"))>>)
      D7 == Doc(<<KV("l", ArrV(<<ObjV(<<KV("k", ArrV(<<StrV("x"), IntV(4, "4")>>)),
                                        KV("o", ObjV(<<KV("p", ArrV(<<>>)), KV("q", ObjV(<<>>))>>))>>)>>)),
                  KV("e", ArrV(<<>>)), KV("t", IntV(1, "1"))>>)
      E1 == Ev(<<P(1, StrV("host"))>>, <<P(2, IntV(5, "5")), P(3, StrV("x y"))>>)
      E2 == Ev(<<>>, <<P(3, StrV("x")), P(4, StrV("25n"))>>)
      E3 == Ev(<<P(1, StrV("x y"))>>, <<P(1, NullV), P(5, ArrV(<<IntV(1, "1")>>))>>)
      E4 == Ev(<<>>, <<P(1, ObjV(<<>>)), P(3, StrV("y"))>>)
  IN {<<J(<<D1, D2, D3>>)>>, <<J(<<D3, D5>>), J(<<D1, D1>>)>>, <<J(<<D6, D7, D6>>)>>,
      <<J(<<D4>>), J(<<D5, Malformed, D1>>)>>, <<K(<<E1, E2, E3>>), J(<<D1>>)>>,
      <<K(<<E2, E1, Malformed>>), K(<<E3, E4, E2>>)>>,
      <<J(<<D2>>), [kind |-> "other", units |-> <<Malformed>>, metadata |-> ""]>>}
ExtractOptions ==
  [order : BOOLEAN, arrays : BOOLEAN, floats : BOOLEAN, ts : {<<>>, <<"a", "t">>}, ns : {""}]
ExtractParses == ("int" :> ("5" :> 10 @@ "-0.5" :> -1 @@ "1" :> 2)) @@ ("iso" :> ("25n" :> 25))
ExtractFloats ==
  "-0.5" :> "-0.500000" @@ "1e3" :> "1000.000000" @@ "-0.500000" :> "-0.500000"
    @@ "1000.000000" :> "1000.000000"

Extract == INSTANCE ClpsExtract
  WITH Inputs <- ExtractInputs, Options <- ExtractOptions, IntMax <- 7, Spaced <- {"x y"},
       ExactFloats <- {"-0.5"}, Patterns <- <<"int", "iso">>, Parses <- ExtractParses,
       NsPerMs <- 4, MinTableSize <- 3, FloatText <- ExtractFloats,
       opt <- eopt, status <- estatus, out <- eout

-----------------------------------------------------------------------------
(* The queries of SearchAst, ClpsSearch and KvIrQuery. *)

Lit(t, str) == [text |-> t, any |-> FALSE, null |-> FALSE, str |-> str, bounds |-> <<>>, num |-> 0,
                bool |-> "none", ts |-> FALSE]
VarX == Lit("x", {"var"})
ClpXY == Lit("x y", {"clp"})
WildX == Lit("x*", {"clp", "var"})
Three == [Lit("3", {"var"}) EXCEPT !.bounds = <<6, 6>>, !.num = 6, !.ts = TRUE]
Five == [Lit("5", {"var"}) EXCEPT !.bounds = <<10, 10>>, !.num = 10, !.ts = TRUE]
TwoHalf == [Lit("2.5", {"var"}) EXCEPT !.bounds = <<4, 6>>, !.num = 5, !.ts = TRUE]
Star == [Lit("*", {"clp", "var"}) EXCEPT !.any = TRUE]
NullL == [Lit("null", {"var"}) EXCEPT !.null = TRUE]
TrueL == [Lit("true", {"var"}) EXCEPT !.bool = "true"]

Query(k) == [k |-> k, q |-> <<>>, path |-> <<>>, ns |-> "", op |-> "EQ", lits |-> <<>>, cond |-> "or"]
Filter(path, op, l) == [Query("filter") EXCEPT !.path = path, !.op = op, !.lits = <<l>>]
Range1(op, l) == Filter(<<"t">>, op, l)
Meta(key, l) == [Filter(<<key>>, "EQ", l) EXCEPT !.ns = "$"]
Not(t) == [Query("not") EXCEPT !.q = <<t>>]
Both(k, l, r) == [Query(k) EXCEPT !.q = <<l, r>>]
ValueQ(l) == [Query("value") EXCEPT !.lits = <<l>>]
A == <<"a">>
B == <<"b">>
Val(t, x) == [t |-> t, x |-> x]

\* SearchAst: every pair of filters under and, or and not, deeper trees over
\* three of them, and every event of up to two leaves.
AstQueries ==
  LET Lits == {VarX, ClpXY, WildX, [Three EXCEPT !.ts = FALSE], [TwoHalf EXCEPT !.ts = FALSE], Star,
               NullL, TrueL}
      Base == {Filter(A, "EQ", l) : l \in Lits}
                \cup {Filter(A, "LT", l) : l \in {Three, TwoHalf, VarX}}
                \cup {Filter(A, "GTE", l) : l \in {Three, TwoHalf}}
                \cup {Filter(<<"*", "b">>, "EQ", l) : l \in {VarX, Star}}
      Signed(qs) == qs \cup {Not(t) : t \in qs}
      Pairs(qs) == {Both(k, l, r) : k \in {"and", "or"}, l \in qs, r \in qs}
      Few == {Filter(A, "EQ", VarX), Not(Filter(A, "EQ", ClpXY)), Filter(B, "EQ", NullL)}
      Lists == {[Query("list") EXCEPT !.path = A, !.lits = <<VarX, Three>>, !.cond = c] :
                  c \in {"and", "or", "not"}}
      Nested == {[Query("nested") EXCEPT !.path = A,
                    !.q = <<Both("or", Filter(B, "EQ", VarX), [Filter(<<"c">>, "EQ", Three) EXCEPT !.ns = n])>>] :
                   n \in {"", "@"}}
  IN Signed(Base) \cup Signed(Pairs(Signed(Base))) \cup Pairs(Signed(Pairs(Few))) \cup Signed(Lists)
       \cup Nested \cup {ValueQ(l) : l \in Lits}
AstValues == {Val("int", 4), Val("int", 6), Val("float", 5), Val("bool", "true"), Val("bool", "false"),
              Val("var", "x"), Val("var", "3"), Val("var", "null"), Val("clp", "x y"), Val("clp", "p q"),
              Val("null", 0), Val("array", 0)}
AstEvents ==
  LET Leaf(p, v) == [path |-> p, ns |-> "", v |-> v]
  IN {{}} \cup {{Leaf(A, v)} : v \in AstValues} \cup {{Leaf(<<"a", "b">>, v)} : v \in AstValues}
     \cup {{Leaf(A, v), Leaf(B, w)} :
             v \in AstValues, w \in {Val("var", "x"), Val("null", 0), Val("clp", "x y")}}
AstMatches ==
  {<<"x", "x">>, <<"x y", "x y">>, <<"x*", "x">>, <<"x*", "x y">>, <<"3", "3">>, <<"null", "null">>,
   <<"true", "true">>} \cup {<<"*", v.x>> : v \in {u \in AstValues : u.t \in {"var", "clp"}}}

Ast == INSTANCE SearchAst
  WITH StrMatches <- AstMatches, Queries <- AstQueries, Events <- AstEvents, MIds <- {FALSE}

\* ClpsSearch: archives with object, polymorphic, array and timestamp columns and
\* range metadata, asked every filter, its negation, and pairs of them.
SearchQueries ==
  LET Base == {Filter(A, "EQ", l) : l \in {VarX, ClpXY, WildX, Three, TwoHalf, NullL, Star, TrueL}}
                \cup {Filter(B, "EQ", l) : l \in {VarX, WildX, Three, Star}}
                \cup {Filter(<<"a", "*">>, "EQ", WildX), Filter(<<"*", "b">>, "EQ", VarX),
                      Filter(<<"a", "b">>, "EQ", Three), Filter(<<"a", "b">>, "EQ", Star)}
                \cup {Range1(op, Three) : op \in {"EQ", "LT", "GTE", "GT", "LTE"}}
                \cup {Range1(op, Five) : op \in {"EQ", "GTE", "GT"}}
                \cup {Meta("f", VarX), Meta("*", WildX), ValueQ(WildX), ValueQ(Three), ValueQ(VarX)}
                \cup {Filter(A, op, TwoHalf) : op \in {"LT", "GTE"}}
      Signed == Base \cup {Not(t) : t \in Base}
  IN Signed \cup {Both(k, l, r) : k \in {"and", "or"}, l \in Signed,
                    r \in {Filter(A, "EQ", WildX), Not(Filter(B, "EQ", Star)), Range1("GT", Three),
                           Not(Meta("f", VarX)), Filter(<<"a", "*">>, "EQ", Three), ValueQ(VarX)}}
SearchArchives ==
  LET N(p, k, t, ns) == [parent |-> p, key |-> k, type |-> t, ns |-> ns]
      Index == N(0, "log_event_idx", "int", "meta")
      Tab(cols, rows) == [cols |-> cols, rows |-> rows]
      I(n) == Val("int", n)
      Str(x) == Val("var", x)
      T(n) == Val("ts", n)
      R(f, t, v) == [from |-> f, to |-> t, fields |-> {[path |-> <<"f">>, v |-> v]}]
      Arch(nodes, tables, vs, logs) ==
        [nodes |-> nodes, tables |-> tables,
         ranges |-> <<R(0, 2, Str("x")), R(2, 4, Str("q")), R(4, 5, Str("q"))>>,
         tsPath |-> <<"t">>, tsRange |-> <<6, 10>>, logOrder |-> TRUE, vars |-> vs, logs |-> logs]
      Lf(p, v) == [path |-> p, v |-> v]
      Arch1 == Arch(<<Index, N(0, "a", "var", ""), N(0, "a", "clp", ""), N(0, "b", "var", ""),
                      N(0, "t", "ts", ""), N(0, "a", "obj", ""), N(6, "b", "int", ""), N(6, "c", "var", "")>>,
                    <<Tab(<<1, 2, 4>>, <<<<I(0), Str("x"), Str("p")>>, <<I(4), Str("p"), Str("x")>>>>),
                      Tab(<<1, 3, 5>>, <<<<I(1), Val("clp", "x y"), T(6)>>, <<I(2), Val("clp", "p q"), T(10)>>>>),
                      Tab(<<1, 7, 8, 5>>, <<<<I(3), I(6), Str("x"), T(8)>>>>)>>, {"x", "p"}, {"x y", "p q"})
      Arch2 == Arch(<<Index, N(0, "a", "array", ""), N(0, "b", "bool", ""), N(0, "a", "int", ""),
                      N(0, "a", "float", ""), N(0, "t", "ts", ""), N(0, "a", "null", "")>>,
                    <<Tab(<<1, 2, 3>>, <<<<I(0), Val("array", {Lf(<<>>, I(6)), Lf(B, I(6)), Lf(<<>>, Str("x"))}),
                                           Val("bool", "true")>>,
                                         <<I(1), Val("array", {}), Val("bool", "false")>>>>),
                      Tab(<<1, 4, 6>>, <<<<I(2), I(6), T(6)>>, <<I(3), I(4), T(10)>>>>),
                      Tab(<<1, 5>>, <<<<I(4), Val("float", 5)>>>>),
                      Tab(<<1, 7>>, <<<<I(3), Val("null", 0)>>>>)>>, {}, {})
      Arch3 == Arch(<<Index, N(0, "a", "sarr", ""), N(2, "", "var", ""), N(2, "", "obj", ""),
                      N(4, "b", "int", ""), N(0, "b", "var", "")>>,
                    <<Tab(<<1, 3, 3>>, <<<<I(0), Str("p"), Str("x")>>, <<I(4), Str("x"), Str("p")>>, <<I(3), Str("p"), Str("p")>>>>),
                      Tab(<<1, 5>>, <<<<I(1), I(6)>>>>), Tab(<<1, 6>>, <<<<I(2), Str("x")>>>>)>>, {"x", "p"}, {})
  IN {Arch1, Arch2, [Arch3 EXCEPT !.tsPath = <<>>, !.tsRange = <<>>]}
SearchOptions == {[tge |-> <<>>, tle |-> <<>>, proj |-> {A}],
                  [tge |-> <<6>>, tle |-> <<8>>, proj |-> {<<"a", "b">>, B}]}
SearchMatches == {<<"x", "x">>, <<"x y", "x y">>, <<"x*", "x">>, <<"x*", "x y">>}
                   \cup {<<"*", v>> : v \in {"x", "p", "x y", "p q", "q"}}

Search == INSTANCE ClpsSearch
  WITH StrMatches <- SearchMatches, Queries <- SearchQueries, Events <- {}, MIds <- {FALSE},
       Archives <- SearchArchives, Options <- SearchOptions,
       Candidates <- SearchMatches \cup {<<"x*", "p q">>}, Junk <- {6},
       arch <- sarch, opt <- sopt, out <- sout, status <- sstatus

\* KvIrQuery: wildcards in keys, and every tree of up to three nodes.
KvQueries ==
  {Both("and", Filter(A, "EQ", VarX), Not(Filter(B, "LT", Three))),
   Both("or", Not(Filter(<<"*", "b">>, "EQ", VarX)), Filter(<<"a", "*">>, "EQ", NullL)),
   Both("and", Filter(<<"a", "*", "b">>, "EQ", Star), ValueQ(Three)),
   Not([Query("nested") EXCEPT !.path = A, !.ns = "@", !.q = <<Filter(<<"*", "b">>, "GTE", Three)>>]),
   Filter(<<"*", "*">>, "EQ", VarX), Filter(A, "LT", NullL)}
KvValues == {Val("int", 4), Val("int", 6), Val("var", "x"), Val("clp", "p q"), Val("null", 0), Val("unknown", 0)}

KvQuery == INSTANCE KvIrQuery
  WITH StrMatches <- {<<"x", "x">>, <<"*", "x">>, <<"*", "p q">>}, Queries <- KvQueries, Events <- {},
       MIds <- {FALSE}, Keys <- {"a", "b"}, NodeTypes <- {"Obj", "Str", "Int"}, LeafValues <- KvValues,
       MaxNodes <- 3

-----------------------------------------------------------------------------
(* KvIrStream: nested, empty, duplicate-keyed and unserialisable maps. *)

KvMaps ==
  LET V(t, x) == [t |-> t, n |-> 0, x |-> x, kv |-> <<>>]
      N(t, n) == [t |-> t, n |-> n, x |-> "", kv |-> <<>>]
      M(kv) == [t |-> "map", n |-> 0, x |-> "", kv |-> kv]
      Pair(a, u) == [auto |-> a, user |-> u]
  IN {Pair(<<>>, <<>>),
      Pair(<<KV("t", N("int", 1))>>,
           <<KV("a", N("int", 2)), KV("b", M(<<KV("a", V("str", "x")), KV("c", N("nil", 0))>>))>>),
      Pair(<<>>, <<KV("a", V("str", "x y")), KV("b", M(<<>>))>>),
      Pair(<<KV("t", N("int", 5))>>, <<KV("c", N("bool", 1)), KV("b", N("nil", 0)), KV("n", N("int", 99))>>),
      Pair(<<KV("s", N("float", 1))>>,
           <<KV("d", V("arr", "holdsBinaryInMap")), KV("c", M(<<KV("z", N("int", 1))>>))>>),
      Pair(<<>>, <<KV("a", N("int", 1)), KV("a", N("int", 2))>>),
      Pair(<<KV("u", N("bool", 1))>>, <<KV("e", V("arr", "ok")), KV("<not a string>", N("int", 1))>>)}

Stream == INSTANCE KvIrStream
  WITH Maps <- KvMaps, Offsets <- {1}, Metadata <- {"none", "object", "other"}, IdMax <- <<1, 2, 4>>,
       IntMax <- <<1, 3, 7, 9>>, ClpStrings <- {"x y"}, TooLong <- {"long"}, MaxUnits <- 4

-----------------------------------------------------------------------------
(* TimestampParser: timestamps of every quoted pattern, with time zones,
   fractions, epochs of every precision, leap days and the era, in a day of
   four hours of two minutes of two seconds. *)

TimeInputs ==
  LET N2(n) == PadTo(n, 2, "0")
      N4(n) == PadTo(n, 4, "0")
      Date(y, m, d, s) == N4(y) \o <<s>> \o N2(m) \o <<s>> \o N2(d)
      Clock(h, m, s) == N2(h) \o <<":">> \o N2(m) \o <<":">> \o N2(s)
      In(how, text, json, n) == [how |-> how, text |-> text, json |-> json, n |-> n]
      J(t) == In("string", <<"\"">> \o t \o <<"\"">>, TRUE, 0)
      R(t) == In("string", t, FALSE, 0)
      Num(t) == In("numeric", t, TRUE, 0)
      Sp == <<" ">>
      Leap29 == Date(1972, 2, 29, "-") \o <<"T">> \o Clock(3, 1, 1)
      Zones == {<<"Z">>, <<" ", "U", "T", "C">>, <<" ", "U", "T">>, <<"G", "M", "T">>, <<" ", "EST">>,
                <<"+", "0", "1">>, <<"-", "0", "1", ":", "0", "1">>,
                <<" ", "U", "T", "C", "minus", "0", "2", "0", "1">>, <<"U", "T", "C", "+", "0", "1", "Z">>,
                <<"+", "0", "1", "0", "5">>}
      Fracs == {<<"5">>, <<"0">>, <<"0", "5">>, <<"1", "2", "3">>, <<"1", "2", "0">>, <<"0", "0", "1", "0">>,
                <<"0", "0", "0", "0">>}
  IN {J(Leap29 \o z) : z \in Zones} \cup {R(Leap29 \o <<".">> \o f) : f \in Fracs}
     \cup {J(Leap29 \o <<",", "1">> \o z) : z \in {<<"Z">>, <<"+", "0", "2">>}}
     \cup {R(Date(y, 1, d, "/") \o Sp \o Clock(0, 0, s)) : y \in {1969, 1970}, d \in {1, 31}, s \in {0, 2}}
     \cup {J(N2(y) \o <<"-">> \o N2(12) \o <<"/">> \o N2(31) \o <<"T">> \o Clock(0, 1, 0)) : y \in {69, 99, 0}}
     \cup {J(N2(71) \o N2(3) \o N2(1) \o <<"T">> \o PadTo(h, 2, " ") \o <<":">> \o N2(1) \o <<":">> \o N2(0)) :
             h \in {0, 3}}
     \cup {J(<<"Feb", " ">> \o N2(28) \o <<",", " ">> \o N4(1971) \o Sp \o PadTo(h, 2, p) \o <<":">> \o N2(0)
             \o <<":">> \o N2(0) \o <<" ", q>>) : h \in 1 .. 2, p \in {"0", " "}, q \in {"AM", "PM"}}
     \cup {J(<<w, " ", "Mar", " ">> \o PadTo(d, 2, " ") \o Sp \o Clock(1, 1, 0) \o Sp \o N4(1970)) :
             w \in {"Sun", "Mon"}, d \in {1, 9}}
     \cup {J(<<"Sun", ",", " ">> \o PadTo(1, 2, p) \o <<" ", "Mar", " ">> \o y \o Sp \o t \o <<" ", "EDT">>) :
             p \in {"0", " "}, y \in {N4(1970), N2(70)}, t \in {Clock(1, 0, 0), N2(1) \o <<":">> \o N2(1)}}
     \cup {J(N2(3) \o <<"-">> \o N2(1) \o Sp \o Clock(1, 1, 1) \o <<".", "2">>),
           J(<<"Dec", " ">> \o N2(31) \o Sp \o Clock(3, 1, 2)),
           R(<<"March", " ">> \o N2(1) \o <<",", " ">> \o N4(1970) \o Sp \o N2(3) \o <<":">> \o N2(1)),
           J(Date(1971, 2, 29, "-") \o <<"T">> \o Clock(0, 0, 0)), J(<<"x">>),
           J(N4(1970) \o <<"-">> \o N2(13) \o <<"-">> \o N2(1) \o <<"T">> \o Clock(0, 0, 0))}
     \cup {Num(PadTo(n, 1, "0") \o <<".">> \o f) : n \in {0, 7, 5840}, f \in Fracs}
     \cup {Num(<<"-", "7", ".">> \o f) : f \in {<<"5">>, <<"1", "2", "3">>}}
     \cup {In("epoch", <<>>, TRUE, n) : n \in {0, -7, 5840, 58400, 58401, -58401, 584001, 58400001}}
     \cup {J(PadTo(n, 1, "0")) : n \in {7, 58401}}

-----------------------------------------------------------------------------
(* SearchOutput: searches with every output handler, of several archives and
   streams, some pruned, refused or stopped late; failing calls, crashes and
   retries on the same collection. *)

Searches ==
  LET R(i, ts, k, n, h) == [idx |-> i, ts |-> ts, val |-> [kind |-> k, n |-> n], hit |-> h]
      Tab(f, live, opens, rs) == [file |-> f, live |-> live, opens |-> opens, recs |-> rs]
      In(kind, id, order, stage, ts) == [kind |-> kind, id |-> id, order |-> order, stage |-> stage, tables |-> ts]
      Run(tool, out, agg, batch, max, bucket, ins) ==
        [tool |-> tool, out |-> out, agg |-> agg, batch |-> batch, max |-> max, bucket |-> bucket, inputs |-> ins]
      TA == Tab("f1", TRUE, TRUE, <<R(1, 5, "int", 4, TRUE), R(2, 3, "float", 3, FALSE), R(3, 4, "float", 3, TRUE)>>)
      TB == Tab("f2", TRUE, TRUE, <<R(4, 4, "str", 7, TRUE), R(6, 2, "int", 2, TRUE)>>)
      TC == Tab("f3", FALSE, TRUE, <<R(7, 9, "int", 9, FALSE)>>)
      TD == Tab("f4", TRUE, TRUE, <<R(5, 1, "other", 0, TRUE), R(8, 9, "int", 8, FALSE)>>)
      TE == Tab("f5", TRUE, TRUE, <<R(9, 1, "bool", 1, TRUE)>>)
      TF == Tab("f6", TRUE, FALSE, <<R(10, 8, "int", 1, FALSE)>>)
      TG == Tab("f1", TRUE, TRUE, <<R(1, 5, "int", 4, TRUE), R(2, 3, "int", 3, TRUE), R(3, 4, "int", 3, TRUE)>>)
      Arch(id, stage, ts) == In("archive", id, TRUE, stage, ts)
      A1 == Arch("a1", "scan", <<TA, TC, TB>>)
      A2 == Arch("a2", "scan", <<TD, TE>>)
      A4 == Arch("a4", "late", <<TC>>)
      Lists == {<<A1, A2>>, <<Arch("a3", "pruned", <<TC>>), A1>>, <<A4, A2, Arch("a5", "refused", <<TC>>)>>}
      Splits == {Arch("a1", "scan", <<TA, TB, TE, TC, TF>>), Arch("a1", "scan", <<TB, TA, TD>>)}
      Aggs == {"count", "count-by-time", "min", "max", "unique"}
  IN {Run("clp-s", "results-cache", "none", b, m, 0, i) : b \in {1, 2, 3}, m \in {0, 1, 2}, i \in Lists}
     \cup {Run("clp-s", "results-cache", a, b, 0, 3, i) : a \in Aggs, b \in {1, 2}, i \in Lists}
     \cup {Run("clp-s", o, a, 1, 0, 2, i) :
             o \in {"stdout", "reducer", "network", "file"}, a \in Aggs \cup {"none"}, i \in {<<A1>>, <<A2>>, <<A4>>}}
     \cup {Run("clp-s", o, a, 1, 0, 2, i) :
             o \in {"stdout", "reducer", "network"}, a \in {"none", "count", "count-by-time"},
             i \in {<<A2, A1>>, <<In("ir", "s1", TRUE, "scan", <<TA>>), A1>>}}
     \cup {Run("clo", o, "none", b, m, 0, <<i>>) :
             o \in {"results-cache", "network"}, b \in {1, 2}, m \in {0, 1, 2}, i \in Splits}
     \cup {Run("clo", "reducer", a, 1, 0, 2, <<i>>) : a \in {"count", "count-by-time"}, i \in Splits}
     \cup {Run("extract", "results-cache", "none", 1, 0, 0, <<Arch("a1", "scan", <<t>>)>>) : t \in {TE, TG}}

Output == INSTANCE SearchOutput WITH MaxFaults <- 2, MaxAttempts <- 3

-----------------------------------------------------------------------------
(* The readers below clp-s and log-converter, and what they take as input. *)

\* BufferedReader: a source of five bytes, buffers of two.
Buffered == INSTANCE BufferedReader WITH SrcLen <- 5, Base <- 2, Delims <- {2, 3}, MaxWant <- 3

\* The reader over libarchive: pairs of members that are empty, in one or several blocks,
\* sparse, corrupt, or no files.
LibArchives ==
  LET Block(p, d) == [pos |-> p, data |-> d, bad |-> FALSE]
      Corrupt == [pos |-> 9, data |-> <<>>, bad |-> TRUE]
      File(bs) == [regular |-> TRUE, blocks |-> bs]
      Members == {File(<<>>), File(<<Block(0, <<"a", "n", "b">>)>>),
                  File(<<Block(2, <<"a", "n">>), Block(6, <<"b", "0", "n">>)>>),
                  File(<<Block(0, <<"n">>), Block(1, <<"a", "b">>), Block(4, <<"c">>)>>),
                  File(<<Block(0, <<"a", "b">>), Corrupt>>), [regular |-> FALSE, blocks |-> <<>>]}
  IN {<<a, b>> : a \in Members, b \in Members}

\* ClpsInput: files, directories and paths that do not exist, with every content
\* up to two layers of compression.
Content(is, w, h, ms) == [is |-> is, wraps |-> w, head |-> h, members |-> ms]
InputJobs ==
  LET M(reg, n, is, w, h) == [regular |-> reg, name |-> n, is |-> is, wraps |-> w, head |-> h]
      Json == <<"space", "brace">>
      Kv == <<"kvir">>
      Texts == {<<"ascii">>, <<"h3", "cont", "cont", "h4", "cont", "cont", "cont", "h4", "cont", "cont">>,
                <<"h4", "cont", "cont", "cont", "h4", "cont", "cont">>, <<"ascii", "h2">>,
                <<"h2", "cont", "space", "ascii">>}
      PkZip == <<"ascii", "bad", "ascii">>
      MJson == M(TRUE, "x", "json", 0, Json)
      Contents ==
        {Content("json", w, Json, <<>>) : w \in {0, 1, 2}} \cup {Content("kvir", w, Kv, <<>>) : w \in {0, 1}}
          \cup {Content("text", w, t, <<>>) : w \in {0, 1}, t \in Texts}
          \cup {Content("empty", 0, <<>>, <<>>), Content("other", 0, PkZip, <<>>)}
          \cup {Content("archive", w, PkZip, ms) : w \in {0, 1}, ms \in
                 {<<MJson, M(TRUE, "y", "kvir", 1, Kv)>>, <<M(FALSE, "d", "other", 0, <<>>), MJson>>,
                  <<M(TRUE, "t", "text", 0, <<"ascii">>), M(TRUE, "e", "empty", 0, <<>>)>>,
                  <<M(TRUE, "z", "archive", 0, PkZip)>>}}
          \cup {Content("archive", 0, <<"ascii", "ascii">>, <<MJson>>)}
      FileEntry(n, d, r, c) == [path |-> <<"/", "in", n>>, dir |-> d, readable |-> r, content |-> c]
      Raw(e, d, l, es) == [exists |-> e, dir |-> d, listable |-> l, entries |-> es]
      File(e, r, c, n) == Raw(e, FALSE, TRUE, <<FileEntry(n, FALSE, r, c)>>)
      Dir(a, b) == Raw(TRUE, TRUE, TRUE, <<FileEntry("a", FALSE, TRUE, a), FileEntry("d", TRUE, TRUE, a),
                                           FileEntry("b", FALSE, TRUE, b)>>)
      J(tool, raw, hp, p) == [tool |-> tool, raw |-> raw, hasPrefix |-> hp, prefix |-> p]
      Plain == {Content("json", 0, Json, <<>>), Content("text", 0, <<"ascii">>, <<>>)}
      Tools == {"clp-s", "log-converter"}
  IN {J(t, <<File(e, r, c, "a")>>, FALSE, <<>>) : t \in Tools, e \in BOOLEAN, r \in BOOLEAN, c \in Contents}
     \cup {J(t, <<File(FALSE, TRUE, a, "a"), File(TRUE, TRUE, b, "b")>>, FALSE, <<>>) :
             t \in Tools, a \in Contents, b \in Plain}
     \cup {J(t, <<Dir(a, b)>>, h, p) : t \in Tools, a \in Contents, b \in Plain, h \in BOOLEAN,
             p \in {<<"/">>, <<"/", "in", "">>, <<"/", "out">>}}
     \cup {J(t, <<Raw(TRUE, TRUE, l, <<>>)>>, FALSE, <<>>) : t \in Tools, l \in BOOLEAN}
\* The converter: files of up to three events, some longer than the buffer.
Commands ==
  LET Event(s, t, l) == [size |-> s, stamp |-> t, look |-> l]
      E(stamps) == {Event(s, t, l) : s \in {1, 2, 3, 5}, t \in stamps, l \in {1, 2}}
      Files == {<<>>} \cup {<<a>> : a \in E({0, 1})} \cup {<<a, b>> : a \in E({0, 1}), b \in E({1})}
      Fixed == {<<Event(2, 1, 1), Event(1, 0, 1), Event(3, 1, 2)>>, <<Event(6, 1, 1)>>}
  IN {<<f, g>> : f \in Files, g \in Fixed} \cup {<<g, f>> : f \in Files, g \in Fixed}

Input == INSTANCE ClpsInput
  WITH Jobs <- InputJobs, MaxDepth <- 2, MaxRetries <- 2, job <- ijob,
       ReadSizes <- {1, 2, 4}, Delims <- {"n", "0"},
       DefaultBufferSize <- 2, MaxBufferSizes <- {1, 2, 3, 6, 8}, MaxIrBufSize <- 1

-----------------------------------------------------------------------------
Idle == "idle"
ExtractIdle ==
  /\ eopt = Idle /\ files = Idle /\ pos = Idle /\ aw = Idle /\ irMap = Idle /\ archives = Idle
  /\ estatus = Idle /\ taken = Idle /\ ex = Idle /\ eout = Idle /\ chunks = Idle
AstIdle == query = Idle /\ ids = Idle /\ expr = Idle /\ pass = Idle
SearchIdle ==
  /\ sarch = Idle /\ sopt = Idle /\ junk = Idle /\ sm = Idle /\ strs = Idle /\ todo = Idle
  /\ sout = Idle /\ proj = Idle /\ sstatus = Idle
KvQueryIdle == tree = Idle /\ partial = Idle /\ resolved = Idle /\ verdict = Idle
StreamIdle ==
  /\ ser = Idle /\ irBuf = Idle /\ stream = Idle /\ calls = Idle /\ sent = Idle /\ des = Idle
  /\ got = Idle
TimesIdle == td = Idle /\ arch = Idle
OutputIdle == job = Idle /\ so = Idle /\ dest = Idle

BufferedIdle == src = Idle /\ br = Idle /\ call = Idle /\ ret = Idle /\ strayed = Idle
LibIdle == ar = Idle /\ la = Idle
InputIdle == ijob = Idle /\ st = Idle
ConverterIdle == cmd = Idle /\ lc = Idle
CoreIdle == /\ ExtractIdle /\ AstIdle /\ SearchIdle /\ KvQueryIdle /\ StreamIdle /\ TimesIdle
            /\ OutputIdle
ReadersIdle == BufferedIdle /\ LibIdle /\ InputIdle /\ ConverterIdle

Init ==
  /\ which \in Parts
  /\ \/ /\ which = "extract" /\ Extract!CEInit /\ ReadersIdle
        /\ AstIdle /\ SearchIdle /\ KvQueryIdle /\ StreamIdle /\ TimesIdle /\ OutputIdle
     \/ /\ which = "ast" /\ Ast!SAInit /\ ReadersIdle
        /\ ExtractIdle /\ SearchIdle /\ KvQueryIdle /\ StreamIdle /\ TimesIdle /\ OutputIdle
     \/ /\ which = "search" /\ Search!CSInit /\ ReadersIdle
        /\ ExtractIdle /\ KvQueryIdle /\ StreamIdle /\ TimesIdle /\ OutputIdle
     \/ /\ which = "kvquery" /\ KvQuery!KQInit /\ ReadersIdle
        /\ ExtractIdle /\ SearchIdle /\ StreamIdle /\ TimesIdle /\ OutputIdle
     \/ /\ which = "stream" /\ Stream!KvInit /\ ReadersIdle
        /\ ExtractIdle /\ AstIdle /\ SearchIdle /\ KvQueryIdle /\ TimesIdle /\ OutputIdle
     \/ /\ which = "times" /\ TPInit /\ ReadersIdle
        /\ ExtractIdle /\ AstIdle /\ SearchIdle /\ KvQueryIdle /\ StreamIdle /\ OutputIdle
     \/ /\ which = "output" /\ Output!SOInit /\ ReadersIdle
        /\ ExtractIdle /\ AstIdle /\ SearchIdle /\ KvQueryIdle /\ StreamIdle /\ TimesIdle
     \/ /\ which = "buffered" /\ Buffered!BRInit /\ CoreIdle
        /\ LibIdle /\ InputIdle /\ ConverterIdle
     \/ /\ which = "libarchive" /\ Input!LFInit /\ CoreIdle
        /\ BufferedIdle /\ InputIdle /\ ConverterIdle
     \/ /\ which = "input" /\ Input!CIInit /\ CoreIdle
        /\ BufferedIdle /\ LibIdle /\ ConverterIdle
     \/ /\ which = "converter" /\ Input!LVInit /\ CoreIdle
        /\ BufferedIdle /\ LibIdle /\ InputIdle

Next ==
  /\ UNCHANGED which
  /\ \/ /\ which = "extract" /\ Extract!CENext
        /\ UNCHANGED <<astVars, searchVars, kvQueryVars, streamVars, tpVars, outputVars, readerVars>>
     \/ /\ which = "ast" /\ Ast!SANext
        /\ UNCHANGED <<extractVars, searchVars, kvQueryVars, streamVars, tpVars, outputVars, readerVars>>
     \/ /\ which = "search" /\ Search!CSNext
        /\ UNCHANGED <<extractVars, kvQueryVars, streamVars, tpVars, outputVars, readerVars>>
     \/ /\ which = "kvquery" /\ KvQuery!KQNext
        /\ UNCHANGED <<extractVars, searchVars, streamVars, tpVars, outputVars, readerVars>>
     \/ /\ which = "stream" /\ Stream!KvNext
        /\ UNCHANGED <<extractVars, astVars, searchVars, kvQueryVars, tpVars, outputVars, readerVars>>
     \/ /\ which = "times" /\ TPNext
        /\ UNCHANGED <<extractVars, astVars, searchVars, kvQueryVars, streamVars, outputVars, readerVars>>
     \/ /\ which = "output" /\ Output!SONext
        /\ UNCHANGED <<extractVars, astVars, searchVars, kvQueryVars, streamVars, tpVars, readerVars>>
     \/ /\ which = "buffered" /\ Buffered!BRNext
        /\ UNCHANGED <<coreVars, ar, la, ijob, st, cmd, lc>>
     \/ /\ which = "libarchive" /\ Input!LFNext
        /\ UNCHANGED <<coreVars, src, br, call, ret, strayed, ijob, st, cmd, lc>>
     \/ /\ which = "input" /\ Input!CINext
        /\ UNCHANGED <<coreVars, src, br, call, ret, strayed, ar, la, cmd, lc>>
     \/ /\ which = "converter" /\ Input!LVNext
        /\ UNCHANGED <<coreVars, src, br, call, ret, strayed, ar, la, ijob, st>>

Spec == Init /\ [][Next]_vars

-----------------------------------------------------------------------------
(* What clp-s and the key-value IR serialiser are given comes back: records    *)
(* from archives, events from streams, timestamps from their encodings,        *)
(* whatever the options, the mixed types and the malformed inputs.             *)
RecordsRestored ==
  /\ which = "extract" =>
       /\ Extract!RoundTrip /\ Extract!ChunksTile /\ Extract!ThrowsOnlyIfEmpty
       /\ Extract!MetadataOfEvents /\ Extract!TranslationsAreCurrent
       /\ Extract!TimestampRangesCover
  /\ which = "stream" =>
       /\ Stream!TreesWellFormed /\ Stream!TreesAgree /\ Stream!EventsRoundTrip
       /\ Stream!ReadsToTheEnd
  /\ which = "times" => TPTypeOK /\ TimestampsRestored /\ InstantsAlike

(* A search, through every rewriting pass, index and scan, returns the records *)
(* its query means: in archives and in key-value IR streams.                   *)
SearchAnswers ==
  /\ which = "ast" =>
       Ast!NormalForm /\ Ast!NormalizingKeepsTruth /\ Ast!PreprocessPreservesMatches
  /\ which = "search" =>
       /\ Search!ResultsAreMeaning /\ Search!ScanIsRowEvaluation /\ Search!ProjectionIsPaths
       /\ Search!ThrowsOnlyIfKnown
  /\ which = "kvquery" =>
       /\ KvQuery!ResolutionIsPathMatching /\ KvQuery!VerdictIsMeaning
       /\ KvQuery!EvaluationSucceeds

(* A search that reports success has put all of its results, once and in      *)
(* order, where the output handler writes, after every failed call and retry.  *)
OutputComplete ==
  which = "output" =>
    /\ Output!SOTypeOK /\ Output!CompleteOnSuccess /\ Output!LatestKept
    /\ Output!MatchesInOrder /\ Output!AggregatesExact /\ Output!ChunksOnDisk

(* The readers hand over the bytes of their source in order through every      *)
(* refill, checkpoint, seek and sparse block, and an input is converted whole  *)
(* or refused with the reason.                                                 *)
InputsTakenWhole ==
  /\ which = "buffered" =>
       /\ Buffered!BRTypeOK /\ Buffered!WindowIsSource /\ Buffered!ReadsFollowPosition
       /\ Buffered!RefillFitsCapacity /\ Buffered!CheckpointIsKept /\ Buffered!ClearSucceeds
  /\ which = "libarchive" => Input!MemberReadInOrder /\ Input!EndIsEnd /\ Input!PeekShowsStart
  /\ which = "input" => Input!CITypeOK /\ Input!AcceptedIsWhole /\ Input!RefusedWithReason
  /\ which = "converter" =>
       Input!BufferIsWindow /\ Input!EventsConverted /\ Input!FailsOnlyIfLarge
=============================================================================
