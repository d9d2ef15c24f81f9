----------------------------- MODULE SqlScanners -----------------------------
(***************************************************************************)
(* The scanners of the core package that look for the code in an SQL text: *)
(* splitSqlStatements (schemaDiff.ts), inspectViewDefinition and           *)
(* constraintExpressionError (ddlForms.ts), analyzeStatement               *)
(* (queryPaging.ts), the tokenizer of inspectQuerySafety (querySafety.ts)  *)
(* and redactSqlForAudit (sessionAudit.ts).                                *)
(*                                                                         *)
(* A text is a sequence of symbols: quotes, a backslash, the delimiters of *)
(* comments, a line end, a statement delimiter, parentheses and words.     *)
(***************************************************************************)
EXTENDS Integers, Sequences, SequencesExt, FiniteSets, Lists

Quotes == {"'", "\""}
Backslash == "\\"
Mutating == {"UPDATE", "DELETE"}

-----------------------------------------------------------------------------
(* One pass over a text.  The scanners differ in how a quote is escaped,   *)
(* in what they take for a comment, and in dollar quotes.                  *)

\* escaped: quotes in which a backslash hides the next symbol; behind: the
\* closing quote looks back for a backslash instead; comments, nested, dollar.
Scanner(escaped, behind, comments, nested, dollar) ==
  [escaped |-> escaped, behind |-> behind, comments |-> comments, nested |-> nested, dollar |-> dollar]

SplitSqlStatementsScanner == Scanner({}, TRUE, TRUE, FALSE, "code")
AnalyzeStatementScanner == Scanner({"'"}, FALSE, TRUE, FALSE, "code")
InspectViewDefinitionScanner == Scanner({"'"}, FALSE, TRUE, FALSE, "code")
TokenizeSqlScanner == Scanner(Quotes, FALSE, TRUE, TRUE, "value")
RedactSqlScanner == Scanner(Quotes, FALSE, TRUE, FALSE, "marker")
\* Two regular expressions blank out what is quoted, and know no comments.
MutationCheckScanner == Scanner(Quotes, FALSE, FALSE, FALSE, "code")
ConstraintScanner == Scanner({}, FALSE, FALSE, FALSE, "code")

\* Mutant: a doubled quote goes on, but its second half is read again.
KeepsSecondQuote(text, i, s, scanner) ==
  IF i < Len(text) /\ text[i + 1] = s.quote THEN "stay" ELSE "end"

\* After a quote inside quotes: a doubled one goes on, with the next skipped.
AfterQuote(text, i, s, scanner) ==
  IF scanner.behind /\ i > 1 /\ text[i - 1] = Backslash THEN "stay"
  ELSE IF i < Len(text) /\ text[i + 1] = s.quote THEN "skip" ELSE "end"

\* A symbol of code: it may open a quote or a comment.
ScanCode(c, s, scanner) ==
  IF c \in Quotes THEN [s EXCEPT !.mode = "quote", !.quote = c, !.class = Append(@, "quoted")]
  ELSE IF c = "--" /\ scanner.comments THEN [s EXCEPT !.mode = "line", !.class = Append(@, "comment")]
  ELSE IF c = "/*" /\ scanner.comments
    THEN [s EXCEPT !.mode = "block", !.nest = 1, !.class = Append(@, "comment")]
  ELSE IF c = "$$" /\ scanner.dollar # "code"
    THEN [s EXCEPT !.mode = IF scanner.dollar = "value" THEN "dollar" ELSE "code",
                   !.class = Append(@, "quoted")]
  ELSE [s EXCEPT !.class = Append(@, "code")]

ScanQuote(text, i, s, scanner) ==
  LET next == AfterQuote(text, i, s, scanner)
      seen == [s EXCEPT !.class = Append(@, "quoted")]
  IN  IF text[i] = Backslash /\ s.quote \in scanner.escaped THEN [seen EXCEPT !.skip = TRUE]
      ELSE IF text[i] # s.quote THEN seen
      ELSE IF next = "skip" THEN [seen EXCEPT !.skip = TRUE]
      ELSE IF next = "end" THEN [seen EXCEPT !.mode = "code"] ELSE seen

ScanBlock(c, s, scanner) ==
  LET nest == IF c = "*/" THEN s.nest - 1 ELSE IF c = "/*" /\ scanner.nested THEN s.nest + 1 ELSE s.nest
  IN  [s EXCEPT !.mode = IF nest = 0 THEN "code" ELSE @, !.nest = nest, !.class = Append(@, "comment")]

ScanSymbol(text, i, s, scanner) ==
  LET c == text[i]
  IN  IF s.skip THEN [s EXCEPT !.skip = FALSE, !.class = Append(@, "quoted")]
      ELSE IF s.mode = "code" THEN ScanCode(c, s, scanner)
      ELSE IF s.mode = "quote" THEN ScanQuote(text, i, s, scanner)
      ELSE IF s.mode = "block" THEN ScanBlock(c, s, scanner)
      ELSE IF s.mode = "line"
        THEN [s EXCEPT !.mode = IF c = "nl" THEN "code" ELSE @, !.class = Append(@, "comment")]
      ELSE [s EXCEPT !.mode = IF c = "$$" THEN "code" ELSE @, !.class = Append(@, "quoted")]

\* The class of every symbol, and whether a quote or block comment is open.
ScanStart == [mode |-> "code", quote |-> "", nest |-> 0, skip |-> FALSE, class |-> <<>>]
Scan(text, scanner) ==
  LET State[n \in 0..Len(text)] ==
        IF n = 0 THEN ScanStart ELSE ScanSymbol(text, n, State[n - 1], scanner)
      end == State[Len(text)]
  IN  [class |-> end.class, open |-> end.mode \in {"quote", "block"}]

\* The symbols of some classes, in order, and the words of the code.
Kept(text, class, classes) ==
  LET order == Only([i \in DOMAIN text |-> i], {i \in DOMAIN text : class[i] \in classes})
  IN  [n \in DOMAIN order |-> text[order[n]]]
CodeOf(text, scanner) == Kept(text, Scan(text, scanner).class, {"code"})

-----------------------------------------------------------------------------
\* The pieces between the delimiters of a marked text, empty ones left out.
Pieces(marked) ==
  LET Step(acc, m) == IF m.ends THEN [done |-> Append(acc.done, acc.now), now |-> <<>>]
                      ELSE [acc EXCEPT !.now = Append(@, m.symbol)]
      end == FoldLeft(Step, [done |-> <<>>, now |-> <<>>], marked)
  IN  SelectSeq(Append(end.done, end.now), LAMBDA piece : ToSet(piece) \ {"nl"} # {})
Marked(text, class) ==
  LET order == SelectSeq([i \in DOMAIN text |-> i], LAMBDA i : class[i] # "comment")
  IN  [n \in DOMAIN order |->
         [symbol |-> text[order[n]], ends |-> text[order[n]] = ";" /\ class[order[n]] = "code"]]

\* Comments are dropped, and code delimiters separate the statements.
SplitSqlStatements(text) == Pieces(Marked(text, Scan(text, SplitSqlStatementsScanner).class))

\* Anything but a line end after the first delimiter in the code.
HasMultipleStatements(text) ==
  LET class == Scan(text, AnalyzeStatementScanner).class
  IN  \E i, j \in DOMAIN text :
        i < j /\ text[i] = ";" /\ class[i] = "code" /\ class[j] = "code" /\ text[j] # "nl"
HasMutationClause(text) == ToSet(CodeOf(text, MutationCheckScanner)) \cap Mutating # {}
StartsQuery(code) ==
  LET words == SelectSeq(code, LAMBDA c : c # "nl")
  IN  words # <<>> /\ Head(words) = "SELECT"

\* validatePageRequest: the text may be paged.
ValidatePageRequest(text) ==
  LET scan == Scan(text, AnalyzeStatementScanner)
  IN  /\ StartsQuery(Kept(text, scan.class, {"code", "quoted"}))
      /\ ~HasMultipleStatements(text) /\ ~scan.open /\ ~HasMutationClause(text)

\* inspectViewDefinition and what is asked of it: the text may define a view.
InspectViewDefinition(text) ==
  LET scan == Scan(text, InspectViewDefinitionScanner)
      executable == Kept(text, scan.class, {"code"})
  IN  /\ ~scan.open /\ "comment" \notin ToSet(scan.class)
      /\ StartsQuery(Kept(text, scan.class, {"code", "quoted"}))
      /\ ToSet(executable) \cap (Mutating \cup {"DROP", ";"}) = {}

Balanced(code) ==
  LET Net(n) == Cardinality({i \in 1..n : code[i] = "("}) - Cardinality({i \in 1..n : code[i] = ")"})
  IN  Net(Len(code)) = 0 /\ \A n \in 1..Len(code) : Net(n) >= 0

\* constraintExpressionError: the text may be a CHECK expression.
ConstraintExpression(text) ==
  /\ {";", "--", "/*"} \cap ToSet(text) = {}
  /\ ToSet(CodeOf(text, ConstraintScanner)) \cap (Mutating \cup {"DROP"}) = {}
  /\ Balanced(CodeOf(text, ConstraintScanner))

\* redactSqlForAudit, up to the marks it leaves.
RedactSqlForAudit(text) == CodeOf(text, RedactSqlScanner)

-----------------------------------------------------------------------------
(* inspectQuerySafety works on the words, parentheses and delimiters of    *)
(* the code, each with its depth.                                          *)

TokenizeSql(text) ==
  LET symbols == CodeOf(text, TokenizeSqlScanner)
      code == Only(symbols, Entries(symbols) \ {"nl", "*/", Backslash})
      Depth[n \in 0..Len(code)] ==
        IF n = 0 THEN 0
        ELSE IF code[n] = "(" THEN Depth[n - 1] + 1
        ELSE IF code[n] = ")" /\ Depth[n - 1] > 0 THEN Depth[n - 1] - 1 ELSE Depth[n - 1]
  IN  [n \in DOMAIN code |-> [word |-> code[n], depth |-> IF code[n] = "(" THEN Depth[n - 1] ELSE Depth[n]]]

Clauses == {"FROM", "WHERE", "SELECT", "SET"}
NoToken == [word |-> "none", depth |-> -1]

PreviousAtDepth(tokens, i, depth) ==
  LET before == {j \in 1..i - 1 : tokens[j].depth = depth}
  IN  IF before = {} THEN NoToken ELSE tokens[CHOOSE j \in before : \A k \in before : k <= j]
\* The end of the group ends the search.
NextAtDepth(tokens, i, depth) ==
  LET after == {j \in i + 1..Len(tokens) : tokens[j].depth <= depth}
      first == CHOOSE j \in after : \A k \in after : j <= k
  IN  IF after = {} THEN NoToken ELSE IF tokens[first].depth < depth THEN NoToken ELSE tokens[first]

\* A command does not follow a clause, and inside parentheses it comes first
\* at its depth.
OpensStatement(tokens, i) ==
  LET previous == PreviousAtDepth(tokens, i, tokens[i].depth)
  IN  \/ previous = NoToken
      \/ previous.word \notin Clauses /\ (tokens[i].depth > 0 => previous.word = "(")
IsUpdateKeyword(tokens, i) ==
  tokens[i].word = "UPDATE" /\ NextAtDepth(tokens, i, tokens[i].depth).word # "AS" /\ OpensStatement(tokens, i)
IsDeleteKeyword(tokens, i) ==
  tokens[i].word = "DELETE" /\ NextAtDepth(tokens, i, tokens[i].depth).word = "FROM" /\ OpensStatement(tokens, i)
IsHighRiskKeyword(tokens, i) ==
  LET previous == PreviousAtDepth(tokens, i, tokens[i].depth)
  IN  /\ tokens[i].word = "DROP"
      /\ NextAtDepth(tokens, i, tokens[i].depth).word \notin {"none", "AS"}
      /\ previous.word \notin Clauses
      /\ tokens[i].depth = 0 \/ previous.word \in {"(", ")"}

\* Mutant: a condition anywhere after it is taken for its own.
AnyWhere(tokens, i) == \E j \in i + 1..Len(tokens) : tokens[j].word = "WHERE"

\* A WHERE of the same depth, before its group or statement ends.
HasSameDepthWhere(tokens, i) ==
  \E j \in i + 1..Len(tokens) :
    /\ tokens[j].word = "WHERE" /\ tokens[j].depth = tokens[i].depth
    /\ \A k \in i + 1..j - 1 :
         tokens[k].depth >= tokens[i].depth /\ ~(tokens[k].depth = tokens[i].depth /\ tokens[k].word = ";")

\* The report is about the first dangerous candidate.
InspectQuerySafety(text) ==
  LET tokens == TokenizeSql(text)
  IN  \E i \in DOMAIN tokens :
        \/ IsHighRiskKeyword(tokens, i)
        \/ (IsUpdateKeyword(tokens, i) \/ IsDeleteKeyword(tokens, i)) /\ ~HasSameDepthWhere(tokens, i)
=============================================================================
