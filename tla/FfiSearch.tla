----------------------------- MODULE FfiSearch -----------------------------
(***************************************************************************)
(* clp/ffi/search: generate_subqueries turns a wildcard query into the     *)
(* sub-queries with which a client searches encoded messages (a logtype    *)
(* query and a sequence of variables).  A word with wildcards is read in   *)
(* all ways: each wildcard may hold delimiters or not, each piece may be a *)
(* number, static text or a dictionary variable; the words step through    *)
(* these together like the wheels of an odometer.                          *)
(***************************************************************************)
EXTENDS ClpText

CONSTANTS Queries,      \* wildcard queries, with the width of the encoding
          Msgs          \* the messages that are searched

VARIABLES fq,   \* the query
          ft    \* generate_subqueries: its tokens and the sub-queries so far
fsVars == <<fq, ft>>

(***************************************************************************)
(* Tokens.  Positions run from b to e - 1.                                 *)
(***************************************************************************)
Star1(q, w) == q[w] = Star

\* QueryWildcard: a star at the end of a word only holds delimiters.
NumReadings(q, t, w) == IF Star1(q, w) /\ w \in {t.b, t.e - 1} THEN 1 ELSE 2

MaxDigits(w) == Len(NatText[MaxInt[w]])
CountOf(v, S) == Cardinality({i \in DOMAIN v : v[i] \in S})

CouldBeIntVar(v, w) == /\ Range(v) \subseteq Digits \cup Wildcards \cup {"-"}
                       /\ CountOf(v, {"-"}) <= 1 /\ CountOf(v, Digits) <= MaxDigits(w)
CouldBeFloatVar(v, w) == /\ Range(v) \subseteq Digits \cup Wildcards \cup {"-", "."}
                         /\ CountOf(v, {"-"}) <= 1 /\ CountOf(v, {"."}) <= 1 /\ CountOf(v, Digits) <= FloatDigits[w]

\* The characters that are not escaped.
Plain(v) == Rewrite(v, LAMBDA c, escaped : IF escaped \/ c = Escape THEN <<>> ELSE <<c>>)

CouldBeStaticText(q, b, e) ==
  LET v == Plain(SubSeq(q, b, e - 1))
  IN /\ Range(v) \cap Digits = {}
     /\ b > 1 => ~(q[b - 1] = "=" /\ q[b] = AnyChar /\ Range(v) \cap Letters # {})

\* WildcardToken: what the piece may be, in the order in which it is tried.
PossibleVariableTypes(q, b, e, w) ==
  LET v == SubSeq(q, b, e - 1)
  IN (IF CouldBeIntVar(v, w) THEN <<Integer>> ELSE <<>>) \o (IF CouldBeFloatVar(v, w) THEN <<Float>> ELSE <<>>)
       \o (IF CouldBeStaticText(q, b, e) THEN <<"static">> ELSE <<>>) \o <<Dictionary>>

WildVar(q, b, e, w) == [kind |-> "wild", b |-> b, e |-> e, types |-> PossibleVariableTypes(q, b, e, w), at |-> 1]
ExactVar(q, b, e, w) == [kind |-> "exact", b |-> b, e |-> e, types |-> <<EncodeVariable(SubSeq(q, b, e - 1), w).placeholder>>, at |-> 1]

\* try_add_wildcard_variable.
TryAdd(q, b, e, wild, w) ==
  IF wild THEN <<WildVar(q, b, e, w)>> ELSE IF IsVar(SubSeq(q, b, e - 1)) THEN <<ExactVar(q, b, e, w)>> ELSE <<>>

\* The piece of the word t that follows its last cut and ends before e.
AddPiece(q, t, r, e, star, w) ==
  LET begin == IF r.last = 0 THEN t.b ELSE IF Star1(q, r.last) THEN r.last ELSE r.last + 1
      afterStar == IF r.last = 0 THEN FALSE ELSE Star1(q, r.last)
  IN r.vars \o TryAdd(q, begin, e, r.wild \/ afterStar \/ star, w)

\* tokenize_into_wildcard_variable_tokens: the word is cut at the wildcards
\* that hold delimiters; a star belongs to the pieces on both its sides.
CutAt(q, t, r, p, w) ==
  IF p = t.b THEN [r EXCEPT !.last = p]
  ELSE [last |-> p, wild |-> FALSE, vars |-> AddPiece(q, t, r, IF Star1(q, p) THEN p + 1 ELSE p, Star1(q, p), w)]
LastPiece(q, t, r, w) ==
  IF r.last = 0 THEN <<WildVar(q, t.b, t.e, w)>>
  ELSE IF r.last < t.e - 1 THEN AddPiece(q, t, r, t.e, FALSE, w)
  ELSE r.vars
TokenizeWord(q, t, w) ==
  LastPiece(q, t, FoldLeft(LAMBDA r, i : IF t.readings[i] = 2 THEN [r EXCEPT !.wild = TRUE] ELSE CutAt(q, t, r, t.wilds[i], w),
                           [last |-> 0, wild |-> FALSE, vars |-> <<>>], [i \in DOMAIN t.wilds |-> i]), w)

Tokenized(q, t, w) == [t EXCEPT !.vars = TokenizeWord(q, t, w)]
CompositeToken(q, b, e, w) ==
  LET token(wilds) == [b |-> b, e |-> e, composite |-> TRUE, wilds |-> wilds, readings |-> [i \in DOMAIN wilds |-> 1], vars |-> <<>>]
  IN Tokenized(q, token(SetToSortSeq({i + b - 1 : i \in Unescaped(SubSeq(q, b, e - 1))}, <)), w)

ExactToken(q, b, e, w) ==
  [b |-> b, e |-> e, composite |-> FALSE, wilds |-> <<>>, readings |-> <<>>, vars |-> <<ExactVar(q, b, e, w)>>]

\* tokenize_query: a word, and the rest.
QueryWord(q, b, e, w) ==
  IF Unescaped(SubSeq(q, b, e - 1)) # {} THEN IF e - b > 1 THEN <<CompositeToken(q, b, e, w)>> ELSE <<>>
  ELSE IF IsVariable(q, b, e - 1) THEN <<ExactToken(q, b, e, w)>> ELSE <<>>
RECURSIVE TokenizeQuery(_, _, _), TokenizeFrom(_, _, _, _)
TokenizeQuery(q, from, w) ==
  LET at(b) == IF b > Len(q) THEN <<>> ELSE TokenizeFrom(q, b, EndOf(q, b, FALSE), w) IN at(BeginOf(q, from, FALSE))
TokenizeFrom(q, b, e, w) == QueryWord(q, b, e, w) \o TokenizeQuery(q, e, w)

(***************************************************************************)
(* Sub-queries                                                             *)
(***************************************************************************)
\* The escapes that generate_subqueries adds to the text between the words.
AppendConstantToLogtype(s) ==
  FlattenSeq([i \in DOMAIN s |->
    IF s[i] \in Placeholders \/ (s[i] = Escape /\ i < Len(s) /\ s[Min({i + 1, Len(s)})] \notin Wildcards)
    THEN <<Escape, s[i]>> ELSE <<s[i]>>])

TypeNow(v) == v.types[v.at]
PrefixStar(q, v) == v.kind = "wild" /\ q[v.b] = Star
SuffixStar(q, v) == v.kind = "wild" /\ q[v.e - 1] = Star

\* add_to_logtype_query: a star at the end is left to the next piece.
PieceLogtype(q, v) ==
  IF TypeNow(v) = "static" THEN SubSeq(q, v.b, IF SuffixStar(q, v) THEN v.e - 2 ELSE v.e - 1)
  ELSE (IF PrefixStar(q, v) THEN <<Star>> ELSE <<>>) \o <<TypeNow(v)>>

\* CompositeWildcardToken::add_to_query (an exact token is one piece).
WordLogtype(q, t) ==
  LET step(r, v) == [end |-> v.e, logtype |-> r.logtype \o SubSeq(q, r.end, v.b - 1) \o PieceLogtype(q, v)]
      r == FoldLeft(step, [end |-> t.b, logtype |-> <<>>], t.vars)
      suffix == IF t.vars # <<>> /\ SuffixStar(q, Last(t.vars)) THEN <<Star>> ELSE <<>>
  IN r.logtype \o suffix \o SubSeq(q, r.end, t.e - 1)

QueryVars(q, t) ==
  LET vs == SelectSeq(t.vars, LAMBDA v : TypeNow(v) # "static")
  IN [i \in DOMAIN vs |-> [type |-> TypeNow(vs[i]), text |-> SubSeq(q, vs[i].b, vs[i].e - 1)]]

\* Subquery: in a wildcard string an escaped placeholder is escaped again.
DoubleEscaped(logtype) ==
  IF Unescaped(logtype) = {} THEN logtype
  ELSE Rewrite(logtype, LAMBDA c, escaped : IF escaped /\ c \in Placeholders THEN <<Escape, c>> ELSE <<c>>)

SubqueryOf(q, tokens) ==
  LET step(r, t) == [end |-> t.e, vars |-> r.vars \o QueryVars(q, t),
                     logtype |-> r.logtype \o AppendConstantToLogtype(SubSeq(q, r.end, t.b - 1)) \o WordLogtype(q, t)]
      r == FoldLeft(step, [end |-> 1, logtype |-> <<>>, vars |-> <<>>], tokens)
  IN [logtype |-> DoubleEscaped(r.logtype \o AppendConstantToLogtype(SubSeq(q, r.end, Len(q)))), vars |-> r.vars]

(***************************************************************************)
(* The odometer                                                            *)
(***************************************************************************)
\* One wheel of a set of wheels moves on; the wheels before it start over.
\* The set is empty when all of them start over.
Movable(at, size) == {i \in DOMAIN at : at[i] < size[i]}
FirstOf(S) == CHOOSE i \in S : \A j \in S : i <= j

Turn(at, size) ==
  [i \in DOMAIN at |-> IF Movable(at, size) = {} THEN 1
                       ELSE IF i < FirstOf(Movable(at, size)) THEN 1
                       ELSE IF i = FirstOf(Movable(at, size)) THEN at[i] + 1 ELSE at[i]]

\* CompositeWildcardToken::generate_next_interpretation.
NextInterpretation(q, t, w) ==
  LET at == [i \in DOMAIN t.vars |-> t.vars[i].at]
      size == [i \in DOMAIN t.vars |-> Len(t.vars[i].types)]
      turned == [i \in DOMAIN t.vars |-> [t.vars[i] EXCEPT !.at = Turn(at, size)[i]]]
      wilds == [i \in DOMAIN t.wilds |-> NumReadings(q, t, t.wilds[i])]
  IN IF Movable(at, size) # {} THEN [more |-> TRUE, t |-> [t EXCEPT !.vars = turned]]
     ELSE IF Movable(t.readings, wilds) # {}
          THEN [more |-> TRUE, t |-> Tokenized(q, [t EXCEPT !.readings = Turn(t.readings, wilds)], w)]
     ELSE [more |-> FALSE, t |-> [t EXCEPT !.readings = Turn(t.readings, wilds), !.vars = turned]]

NextInterpretations(q, tokens, w) ==
  LET add(r, n) == [more |-> n.more, tokens |-> Append(r.tokens, n.t)]
      step(r, t) == IF r.more \/ ~t.composite THEN [r EXCEPT !.tokens = Append(@, t)] ELSE add(r, NextInterpretation(q, t, w))
  IN FoldLeft(step, [more |-> FALSE, tokens |-> <<>>], tokens)

(***************************************************************************)
(* The operations                                                          *)
(***************************************************************************)
FSInit == fq \in Queries /\ ft = [pc |-> "tokenize", tokens |-> <<>>, subs |-> {}]

Tokenize == ft.pc = "tokenize" /\ ft' = [ft EXCEPT !.pc = "generate", !.tokens = TokenizeQuery(fq.text, 1, fq.width)] /\ UNCHANGED fq

GenerateSubquery ==
  /\ ft.pc = "generate"
  /\ LET after(n) == [pc |-> IF n.more THEN "generate" ELSE "done", tokens |-> n.tokens,
                      subs |-> ft.subs \cup {SubqueryOf(fq.text, ft.tokens)}]
     IN ft' = after(NextInterpretations(fq.text, ft.tokens, fq.width))
  /\ UNCHANGED fq

FSNext == Tokenize \/ GenerateSubquery
FSSpec == FSInit /\ [][FSNext]_fsVars

(***************************************************************************)
(* The client: a message is found by a sub-query if its logtype matches,   *)
(* and its variables do, in order.                                         *)
(***************************************************************************)
\* wildcard_match_encoded_vars; escapes in the logtype are not looked at, and
\* it throws if it meets more placeholders than there are variables.
WildcardMatchEncodedVars(m, vars, w) ==
  LET at == SelectSeq(m.logtype, LAMBDA c : c \in {Integer, Float})
      step(k, i) ==
        IF k > Len(vars) \/ i > Len(m.encoded) THEN k
        ELSE IF vars[k].type = at[i] /\ WildcardMatchUnsafe(PartText([kind |-> at[i], encoded |-> m.encoded[i]], w), vars[k].text, TRUE)
        THEN k + 1 ELSE k
  IN vars # <<>> => FoldLeft(step, 1, [i \in DOMAIN at |-> i]) > Len(vars)

MatchDictVars(dict, vars) ==
  LET step(k, v) == IF k > Len(vars) THEN k ELSE IF WildcardMatchUnsafe(v, vars[k].text, TRUE) THEN k + 1 ELSE k
  IN FoldLeft(step, 1, dict) > Len(vars)

Encoded == [w \in {"four", "eight"} |-> [m \in Msgs |-> EncodeMessage(m, w)]]

MatchesSubquery(m, sub, w) ==
  /\ IF Unescaped(sub.logtype) # {} THEN WildcardMatchUnsafe(m.logtype, sub.logtype, TRUE) ELSE m.logtype = sub.logtype
  /\ WildcardMatchEncodedVars(m, SelectSeq(sub.vars, LAMBDA v : v.type # Dictionary), w)
  /\ MatchDictVars(m.dict, SelectSeq(sub.vars, LAMBDA v : v.type = Dictionary))

(***************************************************************************)
(* Properties                                                              *)
(***************************************************************************)
\* State of the generator.
FSTypeOK ==
  /\ fq \in Queries /\ ft.pc \in {"tokenize", "generate", "done"}
  /\ \A i \in DOMAIN ft.tokens : \A j \in DOMAIN ft.tokens[i].vars : ft.tokens[i].vars[j].at \in DOMAIN ft.tokens[i].vars[j].types

FoundBySome(m) == \E s \in ft.subs : MatchesSubquery(Encoded[fq.width][m], s, fq.width)

\* What the readings cover (the README lists what they miss).  A star before
\* a single-character wildcard is lost, an escape is only kept before a
\* wildcard of a query that has another, and of the words with wildcards only the
\* last is read in all ways together with the others.
SettledQuery(q) ==
  /\ \A i, j \in DOMAIN ft.tokens : i < j /\ ft.tokens[j].composite =>
       \A k \in DOMAIN ft.tokens[i].wilds : NumReadings(q, ft.tokens[i], ft.tokens[i].wilds[k]) = 1
  /\ \A i \in 1 .. Len(q) - 1 : ~(q[i] = Star /\ q[i + 1] = AnyChar)
  /\ \A i \in DOMAIN q : q[i] = Escape => i < Len(q) /\ q[i + 1] \in Wildcards /\ Unescaped(q) # {}

\* A single-character wildcard stands for no equals sign before a name and
\* for no character that a logtype escapes, and an escaped placeholder is
\* taken for a variable.
SettledMessage(q, m) ==
  /\ AnyChar \in Range(q) => Range(m) \cap {"=", Escape, Integer} = {}
  /\ Integer \in Range(m) => \A s \in ft.subs : s.vars = <<>>

\* The sub-queries find every message that the wildcard query matches.
SubqueriesFindAll ==
  ft.pc = "done" /\ SettledQuery(fq.text) =>
    \A m \in Msgs : SettledMessage(fq.text, m) /\ Matches(m, fq.text) => FoundBySome(m)
=============================================================================
