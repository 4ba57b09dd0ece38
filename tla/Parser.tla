------------------------------- MODULE Parser -------------------------------
(***************************************************************************)
(* The parser of core/language/satoshi_lang.py as operators over a token   *)
(* sequence t that ends with the EOF token.  A token is <<type, value>>;   *)
(* symbols, operators and keywords are their own value.  Each operator     *)
(* takes the position p of the current token and returns [n, p]: the node  *)
(* (a tuple, see Compiler) and the position after it.  Types, decorators   *)
(* and return types, which nothing after the parser reads, are dropped.    *)
(***************************************************************************)
EXTENDS Integers, Sequences

Eof == <<"EOF", "">>

Cur(t, p) == IF p <= Len(t) THEN t[p] ELSE t[Len(t)]
Type(t, p) == Cur(t, p)[1]
Value(t, p) == Cur(t, p)[2]
AtEof(t, p) == Type(t, p) = "EOF"

\* _advance never passes the EOF token.
Adv(t, p) == IF AtEof(t, p) THEN p ELSE p + 1
Adv2(t, p) == Adv(t, Adv(t, p))
Skip(t, p, type) == IF Type(t, p) = type THEN Adv(t, p) ELSE p

Node(n, p) == [n |-> n, p |-> p]

\* The binary operators from the loosest to the tightest: _parse_or, _parse_and,
\* _parse_equality, _parse_comparison, _parse_addition, _parse_multiplication.
Levels == << {"||"}, {"&&"}, {"==", "!="}, {"<", ">", "<=", ">="}, {"+", "-"}, {"*", "/", "%"} >>

RECURSIVE Level(_, _, _), Climb(_, _, _), ParseUnary(_, _), Args(_, _, _)

\* One level: an operand, then operators of the level, grouped to the left.
Level(k, t, p) ==
  IF k > Len(Levels) THEN ParseUnary(t, p)
  ELSE Climb(k, t, Level(k + 1, t, p))

BinaryNode(t, left, right) == Node(<<"binary", Type(t, left.p), left.n, right.n>>, right.p)

\* Mutant: the right operand is parsed by the level itself, not by the next one.
ClimbToTheRight(k, t, left) ==
  IF Type(t, left.p) \notin Levels[k] THEN left
  ELSE Climb(k, t, BinaryNode(t, left, Level(k, t, Adv(t, left.p))))

Climb(k, t, left) ==
  IF Type(t, left.p) \notin Levels[k] THEN left
  ELSE Climb(k, t, BinaryNode(t, left, Level(k + 1, t, Adv(t, left.p))))

Expression(t, p) == Level(1, t, p)

Args(t, p, sofar) ==
  IF Type(t, p) = ")" \/ AtEof(t, p) THEN Node(sofar, Skip(t, p, ")"))
  ELSE LET e == Expression(t, p)
       IN  Args(t, Skip(t, e.p, ","), Append(sofar, e.n))

ParseCall(name, t, p) ==
  LET args == Args(t, Adv(t, p), << >>) IN Node(<<"call", name, args.n>>, args.p)

Named(t, p) ==
  LET name == Value(t, p)
      q == Adv(t, p)
  IN  IF Type(t, q) = "(" THEN ParseCall(name, t, q)
      ELSE IF Type(t, q) = "." /\ Type(t, q + 1) = "IDENTIFIER"
           THEN Node(<<"field_access", name, Value(t, q + 1)>>, Adv2(t, q))
      ELSE Node(<<"identifier", name>>, q)

Parenthesised(t, p) ==
  LET e == Expression(t, Adv(t, p)) IN Node(e.n, Skip(t, e.p, ")"))

\* What cannot begin an expression is skipped and taken for "unknown".
Primary(t, p) ==
  LET type == Type(t, p)
  IN  CASE type \in {"INTEGER", "FLOAT", "STRING"} ->
             Node(<<CASE type = "INTEGER" -> "integer" [] type = "FLOAT" -> "float"
                      [] OTHER -> "string", Value(t, p)>>, Adv(t, p))
        [] type \in {"TRUE", "FALSE"} -> Node(<<"boolean", type = "TRUE">>, Adv(t, p))
        [] type = "IDENTIFIER" -> Named(t, p)
        [] type = "(" -> Parenthesised(t, p)
        [] OTHER -> Node(<<"unknown">>, Adv(t, p))

ParseUnary(t, p) ==
  IF Type(t, p) \in {"!", "-"}
  THEN LET e == ParseUnary(t, Adv(t, p)) IN Node(<<"unary", Type(t, p), e.n>>, e.p)
  ELSE Primary(t, p)

-----------------------------------------------------------------------------
RECURSIVE Statements(_, _, _), MoreStatements(_, _, _)

\* A block skips whatever stands where its braces should.
ParseBlock(t, p) ==
  LET body == Statements(t, Adv(t, p), << >>) IN Node(body.n, Adv(t, body.p))

ParseLet(t, p) ==
  LET e == Expression(t, Adv2(t, Adv(t, p)))   \* past "let", the name and "="
  IN  Node(<<"let", Value(t, Adv(t, p)), e.n>>, Skip(t, e.p, ";"))

\* The condition has been parsed.
ParseIf(t, cond) ==
  LET then == ParseBlock(t, cond.p)
      else == ParseBlock(t, Adv(t, then.p))
  IN  IF Type(t, then.p) = "else" THEN Node(<<"if", cond.n, then.n, <<else.n>>>>, else.p)
      ELSE Node(<<"if", cond.n, then.n, << >>>>, then.p)

ParseWhile(t, cond) ==
  LET body == ParseBlock(t, cond.p) IN Node(<<"while", cond.n, body.n>>, body.p)

\* Anything but ";" after "return" is taken for its value, a "}" included.
ParseReturn(t, p) ==
  LET q == Adv(t, p)
      e == Expression(t, q)
  IN  IF Type(t, q) = ";" THEN Node(<<"return", << >>>>, Adv(t, q))
      ELSE Node(<<"return", <<e.n>>>>, Skip(t, e.p, ";"))

ExpressionStatement(t, p) ==
  LET e == Expression(t, p) IN Node(e.n, Skip(t, e.p, ";"))

Statement(t, p) ==
  CASE Type(t, p) = "let" -> ParseLet(t, p)
    [] Type(t, p) = "if" -> ParseIf(t, Expression(t, Adv(t, p)))
    [] Type(t, p) = "while" -> ParseWhile(t, Expression(t, Adv(t, p)))
    [] Type(t, p) = "return" -> ParseReturn(t, p)
    [] OTHER -> ExpressionStatement(t, p)

Statements(t, p, sofar) ==
  IF Type(t, p) = "}" \/ AtEof(t, p) THEN Node(sofar, p)
  ELSE MoreStatements(t, Statement(t, p), sofar)

MoreStatements(t, s, sofar) == Statements(t, s.p, Append(sofar, s.n))

-----------------------------------------------------------------------------
RECURSIVE Parameters(_, _, _), Decorated(_, _), ParseItems(_, _, _), MoreItems(_, _, _)

\* Position 0 stands for a loop that never ends: the parser waits for a ")"
\* at the EOF token, where _advance stays.
Parameters(t, p, sofar) ==
  IF Type(t, p) = ")" THEN Node(sofar, Adv(t, p))
  ELSE IF AtEof(t, p) THEN Node(sofar, 0)
  ELSE Parameters(t, Skip(t, Adv(t, Adv2(t, p)), ","), Append(sofar, Value(t, p)))

\* The parameters have been parsed.
ParseBody(t, name, params) ==
  LET arrow == IF Type(t, params.p) = "->" THEN Adv2(t, params.p) ELSE params.p
      body == ParseBlock(t, arrow)
  IN  IF params.p = 0 THEN Node(<< >>, 0)
      ELSE Node(<<"function", name, params.n, body.n>>, body.p)

ParseFunction(t, p) ==
  LET name == Adv(t, p) IN ParseBody(t, Value(t, name), Parameters(t, Adv2(t, name), << >>))

ParseContract(t, p) ==
  LET name == Adv(t, p)
      body == ParseBlock(t, Adv(t, name))
  IN  Node(<<"contract", Value(t, name), body.n>>, body.p)

Decorated(t, p) == IF Type(t, p) = "@" THEN Decorated(t, Adv2(t, p)) ELSE p

\* parse: a token that begins no item is never passed, so the loop stays there.
ParseItems(t, p, sofar) ==
  LET q == Decorated(t, p)
  IN  CASE AtEof(t, p) \/ AtEof(t, q) -> Node(sofar, p)
        [] Type(t, q) = "fn" -> MoreItems(t, ParseFunction(t, q), sofar)
        [] Type(t, q) = "contract" -> MoreItems(t, ParseContract(t, q), sofar)
        [] OTHER -> Node(sofar, 0)

MoreItems(t, item, sofar) ==
  IF item.p = 0 THEN Node(sofar, 0) ELSE ParseItems(t, item.p, Append(sofar, item.n))

Parse(t) == ParseItems(t, 1, << >>)
Hangs(t) == Parse(t).p = 0
=============================================================================
