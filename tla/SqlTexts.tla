------------------------------ MODULE SqlTexts ------------------------------
(***************************************************************************)
(* Texts whose meaning is known because of how they were written, for the  *)
(* scanners of SqlScanners to read.  A writer puts one segment after the   *)
(* other: code, a quoted value or name, or a comment, each with what is in *)
(* it; or, for Safe Mode, one phrase of a statement after the other.       *)
(***************************************************************************)
EXTENDS SqlScanners

CONSTANTS
  MaxSegments, MaxPhrases,   \* bounds: the segments and phrases of a text
  CodeSymbols,               \* what a segment of code may be
  InValues, InComments       \* what a value and a comment may have in them

\* What the scanners look for is written as quotes and comments only; a value
\* has no backslash in it, and a comment no delimiter of a comment.
ASSUME SqlTextsAssumption ==
  /\ CodeSymbols \subseteq STRING \ (Quotes \cup {"--", "/*", "$$"})
  /\ \A inside \in InValues : inside \in Seq(STRING \ {Backslash})
  /\ \A inside \in InComments : inside \in Seq(STRING \ {"nl", "/*", "*/"})

VARIABLES segments, phrases
textVars == <<segments, phrases>>

-----------------------------------------------------------------------------
(* Segments.                                                               *)

Code(c) == [kind |-> "code", quote |-> "", inside |-> <<c>>]
\* "open" is a value that is never closed.
Quoted(kind, q, inside) == [kind |-> kind, quote |-> q, inside |-> inside]
Comment(kind, inside) == [kind |-> kind, quote |-> "", inside |-> inside]
Segments ==
  {Code(c) : c \in CodeSymbols}
    \cup {Quoted(kind, q, inside) : kind \in {"value", "open"}, q \in Quotes, inside \in InValues}
    \cup {Comment(kind, inside) : kind \in {"line", "block"}, inside \in InComments}

\* Inside quotes, a quote is written twice.
Doubled(inside, q) == FlattenSeq([n \in DOMAIN inside |-> IF inside[n] = q THEN <<q, q>> ELSE <<inside[n]>>])
Written(segment) ==
  CASE segment.kind = "code" -> segment.inside
    [] segment.kind = "value" -> <<segment.quote>> \o Doubled(segment.inside, segment.quote) \o <<segment.quote>>
    [] segment.kind = "open" -> <<segment.quote>> \o Doubled(segment.inside, segment.quote)
    [] segment.kind = "line" -> <<"--">> \o segment.inside \o <<"nl">>
    [] segment.kind = "block" -> <<"/*">> \o segment.inside \o <<"*/">>
ClassOf(segment) ==
  CASE segment.kind = "code" -> "code"
    [] segment.kind \in {"value", "open"} -> "quoted"
    [] segment.kind \in {"line", "block"} -> "comment"

TextOf(written) == FlattenSeq([n \in DOMAIN written |-> Written(written[n])])
Meaning(written) ==
  FlattenSeq([n \in DOMAIN written |-> [i \in DOMAIN Written(written[n]) |-> ClassOf(written[n])]])

\* Nothing follows a value that is not closed, and two values in the same
\* quotes do not touch: they would be one.
WriteSegment(segment) ==
  /\ Len(segments) < MaxSegments
  /\ segments # <<>> => /\ Last(segments).kind # "open"
                        /\ segment.quote # "" => Last(segments).quote # segment.quote
  /\ segments' = Append(segments, segment) /\ UNCHANGED phrases

-----------------------------------------------------------------------------
(* Phrases.                                                                *)

Update == <<"UPDATE", "x">>
Delete == <<"DELETE", "FROM", "x">>
DropTable == <<"DROP", "x">>
Select == <<"SELECT", "x">>
Where == <<"WHERE", "x">>
WithClause == <<"WITH", "x", "AS">>
Open == <<"(">>
Close == <<")">>
Delimiter == <<";">>
Phrases == {Update, Delete, DropTable, Select, Where, WithClause, Open, Close, Delimiter}
Heads == {Update, Delete, DropTable, Select}

Occurrences(p, k) == Cardinality({i \in 1..k : phrases[i] = p})
\* The depth after the first k phrases.
DepthAt(k) == Occurrences(Open, k) - Occurrences(Close, k)

Follows(p, previous, depth) ==
  CASE p \in Heads -> /\ \/ previous \in {<<>>, Delimiter, Open}
                         \/ previous = Close /\ depth = 0
                      /\ p = DropTable => depth = 0
    [] p = WithClause -> previous \in {<<>>, Delimiter}
    [] p = Where -> previous \in {Update, Delete, Select, Close}
    \* One group at each depth: see the README on what a second one does.
    [] p = Open -> /\ previous \in {WithClause, Update, Where, Open}
                   /\ \A k \in DOMAIN phrases : phrases[k] = Open => DepthAt(k) # depth + 1
    [] p = Close -> depth > 0 /\ previous # Open
    [] p = Delimiter -> depth = 0 /\ previous \notin {<<>>, Delimiter, WithClause}

WritePhrase(p) ==
  /\ Len(phrases) < MaxPhrases
  /\ Follows(p, IF phrases = <<>> THEN <<>> ELSE Last(phrases), DepthAt(Len(phrases)))
  /\ phrases' = Append(phrases, p) /\ UNCHANGED segments

\* Phrase k has a condition of its own: at its depth, in its group and statement.
HasCondition(k) ==
  \E j \in k + 1..Len(phrases) :
    /\ phrases[j] = Where /\ DepthAt(j) = DepthAt(k)
    /\ \A i \in k + 1..j - 1 : DepthAt(i) >= DepthAt(k) /\ phrases[i] # Delimiter
Endangers(k) == phrases[k] = DropTable \/ (phrases[k] \in {Update, Delete} /\ ~HasCondition(k))

TextInit == segments = <<>> /\ phrases = <<>>
WriteText == (\E segment \in Segments : WriteSegment(segment)) \/ (\E p \in Phrases : WritePhrase(p))
TextSpec == TextInit /\ [][WriteText]_textVars

-----------------------------------------------------------------------------
(* Five scanners written apart from each other agree with the writer of a  *)
(* text on what in it is code, for every text without a backslash, a       *)
(* nested comment or dollar quotes; and a text that is accepted for        *)
(* paging, as a view definition or as a CHECK expression is a single query *)
(* or expression, closed, that changes nothing, however its values and     *)
(* comments are made.  The check for paging knows no comments, so a quote  *)
(* in a comment is left out there.  (splitSqlStatements,                   *)
(* analyzeStatement, inspectViewDefinition, constraintExpressionError,     *)
(* tokenizeSql and redactSqlForAudit.)                                     *)
TextsAreUnderstood ==
  LET text == TextOf(segments)
      meaning == Meaning(segments)
      code == Kept(text, meaning, {"code"})
      closed == \A n \in DOMAIN segments : segments[n].kind # "open"
      commented == "comment" \in ToSet(meaning)
      quoteInComment == \E i \in DOMAIN text : meaning[i] = "comment" /\ text[i] \in Quotes
      changes == ToSet(code) \cap Mutating # {}
      oneStatement == \A i, j \in DOMAIN code : i < j /\ code[i] = ";" => code[j] = "nl"
  IN  /\ \A scanner \in {AnalyzeStatementScanner, InspectViewDefinitionScanner, TokenizeSqlScanner} :
           Scan(text, scanner).class = meaning
      /\ SplitSqlStatements(text) = Pieces(Marked(text, meaning))
      /\ RedactSqlForAudit(text) = code
      /\ ValidatePageRequest(text) /\ ~quoteInComment => closed /\ ~changes /\ oneStatement
      /\ InspectViewDefinition(text) => closed /\ ~changes /\ ~commented /\ ";" \notin ToSet(code)
      /\ ConstraintExpression(text) /\ closed => ~changes /\ ~commented /\ ";" \notin ToSet(code)

(* Safe Mode asks before a script exactly when one of its commands drops   *)
(* something, or updates or deletes without a condition of its own: a      *)
(* condition of another statement, of a common table expression or of a    *)
(* subquery does not count, and neither does one of the command for them.  *)
(* (inspectQuerySafety.)                                                   *)
SafeModeWarns ==
  InspectQuerySafety(FlattenSeq(phrases)) <=> \E k \in DOMAIN phrases : Endangers(k)
=============================================================================
