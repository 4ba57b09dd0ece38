----------------------------- MODULE MCLanguage -----------------------------
(***************************************************************************)
(* The language front end and the machine on small inputs.  A behaviour is *)
(* about one of four parts, chosen at the start: the lexer reads one short *)
(* text, the parser one program's tokens, the machine runs one compiled    *)
(* program, or it runs several that write storage.                         *)
(***************************************************************************)
EXTENDS Lexer, Parser, Compiler, LanguageMeaning, SatoshiVM

VARIABLES part, tree

vars == <<part, tree, lexVars, vmVars>>

SeqsUpTo(set, n) == UNION {[1 .. k -> set] : k \in 0 .. n}

MCLetters == {"a", "k"}
MCDigits == {"1"}
MCKeywords == {<<"a", "k">>, <<"k">>}
MCUnnamed == {<<"k">>}
MCSources ==
  SeqsUpTo({"a", "k", "1", ".", "=", ">", "/", "*", "\"", "\\", " ", "#"}, 3)
  \cup SeqsUpTo({"a", "/", "*", "\n"}, 5) \cup SeqsUpTo({"1", ".", "\"", "\\"}, 5)
  \cup SeqsUpTo({"@", "&", "=", "!"}, 3)
MCStringHash(s) == 1000

Integer(n) == <<"integer", n>>
X == <<"identifier", "x">>
BinaryOf(ops, ls, rs) == {<<"binary", op, l, r>> : op \in ops, l \in ls, r \in rs}
UnaryOf(es) == {<<"unary", op, e>> : op \in {"!", "-"}, e \in es}
Main(stmts) == <<"function", "main", << >>, stmts>>
Returns(e) == <<"return", <<e>>>>
CallOf(f) == <<"call", f, << >>>>
Get2 == <<"function", "two", << >>, <<Returns(Integer(2))>>>>

Leaves == {Integer(0), Integer(2), X}
Small == BinaryOf({"||", "&&", "-", "<", "=="}, Leaves, Leaves) \cup UnaryOf(Leaves)
Deep == BinaryOf({"||", "&&", "-", "*", "<"}, Small, {Integer(1), X})
        \cup BinaryOf({"&&", "-", "/", "<="}, {Integer(1), X}, Small) \cup UnaryOf(Small)

\* Programs of one function over expression e.
Shapes(e) ==
  {<<Main(<< <<"let", "x", Integer(v)>>, Returns(e)>>)>> : v \in {0, 3}}
Branching(e) ==
  LET cond == <<"if", e, <<Returns(Integer(5))>>, << >>>>
      both == <<"if", e, <<Returns(Integer(5))>>, << <<Returns(Integer(6))>> >>>>
      loop == <<"while", e, <<Returns(Integer(7))>>>>
      spin == <<"while", e, <<e>>>>
      inner == <<"if", e, << <<"let", "x", Integer(4)>> >>, << >>>>
  IN  {<<Main(<< <<"let", "x", Integer(3)>>, s, Returns(X)>>)>> : s \in {cond, both, loop, spin, inner}}
      \cup {<<Main(<<e, <<"let", "x", e>>, <<"let", "x", e>>, both>>)>>}

PlainPrograms ==
  {<<Main(<<Returns(<<"binary", "+", CallOf("two"), Integer(1)>>)>>), Get2>>,
   <<Main(<< <<"let", "x", CallOf("two")>>, CallOf("two"), Returns(X)>>), Get2>>,
   <<Main(<<Returns(<<"binary", "-", <<"boolean", TRUE>>, <<"boolean", FALSE>>>>)>>)>>,
   <<Main(<< >>)>>, <<Main(<< <<"return", << >>>> >>)>>,
   <<Main(<< <<"let", "x", Integer(3)>>, <<"binary", "+", X, Integer(1)>> >>)>>,
   <<Main(<<Returns(<<"call", "one", <<Integer(4)>>>>)>>),
     <<"function", "one", <<"y">>, <<Returns(<<"identifier", "y">>)>>>>>>}

\* Programs with what the reference gives no meaning to: recursion, contracts,
\* fields, calls of no function, and floats and strings, which no token writes here.
StrangePrograms ==
  {<<Main(<<CallOf("main")>>)>>,
   << <<"contract", "c", <<Returns(<<"identifier", "caller">>)>>>>, Get2>>,
   <<Main(<<Returns(<<"field_access", "x", "y">>)>>)>>,
   << <<"contract", "c", <<X>>>>, <<"function", "f", <<"x", "y">>, <<Returns(<<"call", "g", <<X, Integer(1)>>>>)>>>>,
      <<"function", "g", <<"z">>, << >>>>>>}
Unwritten == {<<Main(<< <<"float", 1>>, Returns(<<"string", "s">>)>>)>>}

WrittenPrograms ==
  PlainPrograms \cup StrangePrograms \cup UNION {Shapes(e) : e \in Deep \cup Small}
  \cup UNION {Branching(e) : e \in Small}

MeaningPrograms == WrittenPrograms \cup Unwritten

\* Programs of the storage part: sources, and bytecode written by hand for the
\* instructions the compiler never emits.
Ledger(k, v) == <<"call", "update_ledger", <<k, v>>>>
Store(k, v) == <<"source", <<Main(<<Returns(Ledger(k, v))>>)>>>>
Asm(code) == <<"bytecode", code>>
One == Integer(1)
StoragePrograms ==
  {Store(One, Integer(5)), Store(<<"binary", "+", One, Integer(0)>>, Integer(6)), Store(One, Integer(0)),
   <<"source", <<Main(<<Ledger(One, Integer(7))>>)>>>>,
   <<"source", <<Main(<<CallOf("main")>>)>>>>,
   <<"source", <<Main(<< <<"call", "log", <<One>>>>, Returns(<<"call", "sha256", <<One>>>>)>>)>>>>,
   Asm(<<Push(1), Ins("SLOAD"), Ins("DUP"), Push(2), Ins("SWAP"), Ins("SSTORE"), Ins("BALANCE"), Ins("LOG2")>>),
   Asm(<<Push(1), Push(8), Ins("SSTORE"), Push(2), Push(9), Ins("SSTORE"), Ins("REVERT")>>)}

MCCodeOf(p) ==
  IF p[1] = "bytecode" THEN p[2] ELSE IF p[1] = "source" THEN Compile(p[2]) ELSE Compile(p)

\* The parts that do not run stay as they are.
NoLexing == source = << >> /\ position = 1 /\ tokens = << >> /\ lexing = "done"

Init ==
  \/ part = "lexer" /\ tree = << >> /\ LexInit /\ VMInit
  \/ part = "parser" /\ tree \in WrittenPrograms /\ NoLexing /\ VMInit
  \/ part = "meaning" /\ tree \in MeaningPrograms /\ NoLexing /\ VMInit
  \/ part = "storage" /\ tree = << >> /\ NoLexing /\ VMInit

Lex == part = "lexer" /\ LexNext /\ UNCHANGED <<part, tree, vmVars>>

RunTree ==
  /\ part = "meaning" /\ UNCHANGED <<part, tree, lexVars>>
  /\ \/ executions = 0 /\ Compiles(tree) /\ Execute("c1", tree, 45000)
     \/ VMStep

RunPrograms == part = "storage" /\ VMNext /\ UNCHANGED <<part, tree, lexVars>>

Next == Lex \/ RunTree \/ RunPrograms

Spec == Init /\ [][Next]_vars

-----------------------------------------------------------------------------
\* The token stream tiles the source: every token is the longest lexeme that
\* begins where it begins, and only white space and comments lie between
\* tokens (Lexer.tokenize, satoshi_lang.py:119).  Left out are texts with a
\* block comment that is never closed, whose last character becomes a token.
Unclosed ==
  \E k \in 1 .. Len(source) - 1 :
    /\ source[k] = "/" /\ source[k + 1] = "*"
    /\ \A j \in k + 2 .. Len(source) - 1 : ~(source[j] = "*" /\ source[j + 1] = "/")

TextAt(i, j) == SubSeq(source, i, j)
TokenEnd(k) == IF k = 0 THEN 0 ELSE tokens[k].upto
TokenStart(k) == IF k > Len(tokens) THEN Len(source) + 1 ELSE tokens[k].from

MaximalMunch ==
  (part = "lexer" /\ lexing = "done" /\ ~Unclosed) =>
    /\ \A k \in DOMAIN tokens :
         /\ IsLexeme(TextAt(tokens[k].from, tokens[k].upto), Letters, Digits)
         /\ \A j \in tokens[k].upto + 1 .. Len(source) :
              LET longer == TextAt(tokens[k].from, j)
              IN  ~IsLexeme(longer, Letters, Digits) /\ ~IsComment(longer)
    /\ \A k \in 0 .. Len(tokens) :
         IsGap(TextAt(TokenEnd(k) + 1, TokenStart(k + 1) - 1),
               IF TokenStart(k + 1) > Len(source) THEN "" ELSE source[TokenStart(k + 1)])

\* Reading back what was written: the tokens of a program, printed with the
\* parentheses that precedence and left association require and no others,
\* parse to that program (Parser, satoshi_lang.py:315).
RoundTrip == part = "parser" => Parse(Append(ShowItems(tree), Eof)).n = tree

\* A source cut off anywhere still parses to an end, except inside a parameter
\* list: there the parser waits for its ")" at the end of the file for ever
\* (satoshi_lang.py:384).
InParameters(t) ==
  \E k \in DOMAIN t : t[k][1] = "fn" /\ \A j \in k .. Len(t) : t[j][1] # ")"

CutSourceHangsOnlyInParameters ==
  part = "parser" =>
    \A n \in 0 .. Len(ShowItems(tree)) :
      LET t == SubSeq(ShowItems(tree), 1, n) IN Hangs(Append(t, Eof)) <=> InParameters(t)

\* The parser reads what was written and ends on what was cut off.
ParserSound == RoundTrip /\ CutSourceHangsOnlyInParameters

Ran == part = "meaning" /\ status \notin {"idle", "running"} /\ tree \notin StrangePrograms \cup Unwritten
EndsAs(m) ==
  CASE m.how = "return" -> status = "ok" /\ result # None /\ Num(result) = m.value
    [] m.how = "never" -> status = "out_of_gas"
    [] OTHER -> status = "ok" /\ result = None

\* Compiled programs do what their source means, but that every parameter is 0 and
\* the value of an expression that ends a body is dropped: the machine ends with the
\* value the source returns, with none where it returns none, and runs out of gas
\* only in a loop that never ends (bytecode_compiler.py:114, satoshi_vm.py:183).
\* For the other programs the compiler does not keep the meaning of, see Faithful.
CompiledMeansSource == Ran /\ Faithful(AsCompiled(tree)) => EndsAs(MeaningOf(AsCompiled(tree)))
=============================================================================
