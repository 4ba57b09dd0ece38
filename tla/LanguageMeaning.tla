-------------------------- MODULE LanguageMeaning --------------------------
(***************************************************************************)
(* What SatoshiLang programs mean, written from docs/LANGUAGE_SPEC.md and  *)
(* the syntax tree alone: the reference the compiler and the machine are   *)
(* compared with.  Values are integers, truth is 1 and 0, a block's        *)
(* bindings end with it, parameters are bound to the arguments, and a body *)
(* that ends in an expression returns it (LANGUAGE_SPEC.md:80-82; the tree *)
(* does not tell whether a semicolon follows it).  Also the reference for  *)
(* the parser (the tokens of a tree, with no parentheses but the needed    *)
(* ones) and for the lexer (its longest-match rule).                       *)
(***************************************************************************)
EXTENDS Integers, Sequences, TLC

RECURSIVE Val(_, _, _), RunBlock(_, _, _)

Truth(b) == IF b THEN 1 ELSE 0

Applied(op, x, y) ==
  CASE op = "+" -> x + y [] op = "-" -> x - y [] op = "*" -> x * y
    [] op = "/" -> (IF y = 0 THEN 0 ELSE IF y > 0 THEN x \div y ELSE (-x) \div (-y))
    [] op = "<" -> Truth(x < y) [] op = ">" -> Truth(x > y)
    [] op = "<=" -> Truth(x <= y) [] op = ">=" -> Truth(x >= y)
    [] op = "==" -> Truth(x = y) [] op = "!=" -> Truth(x # y)
    [] op = "&&" -> IF x = 0 THEN x ELSE y
    [] op = "||" -> IF x = 0 THEN y ELSE x

\* A body with the return it implies.
IsExpression(s) == s[1] \notin {"let", "return", "if", "while"}
EndsInExpression(stmts) == stmts # << >> /\ IsExpression(stmts[Len(stmts)])
Returned(stmts) ==
  IF EndsInExpression(stmts) THEN [stmts EXCEPT ![Len(stmts)] = <<"return", <<@>>>>] ELSE stmts

\* defs maps the name of a function to its item: parameters and body.
Val(e, vars, defs) ==
  CASE e[1] = "integer" -> e[2]
    [] e[1] = "boolean" -> Truth(e[2])
    [] e[1] = "identifier" -> IF e[2] \in DOMAIN vars THEN vars[e[2]] ELSE 0
    [] e[1] = "binary" -> Applied(e[2], Val(e[3], vars, defs), Val(e[4], vars, defs))
    [] e[1] = "unary" -> IF e[2] = "-" THEN -Val(e[3], vars, defs)
                         ELSE Truth(Val(e[3], vars, defs) = 0)
    [] e[1] = "call" -> LET f == defs[e[2]]
                             at(x) == CHOOSE k \in DOMAIN f[3] : f[3][k] = x
                         IN  RunBlock(Returned(f[4]),
                                      [x \in {f[3][k] : k \in DOMAIN f[3]} |-> Val(e[3][at(x)], vars, defs)],
                                      defs).value

\* A block ends "on", or by "return" with a value, or never.
Ending(how, value) == [how |-> how, value |-> value]

RunBlock(stmts, vars, defs) ==
  IF stmts = << >> THEN Ending("on", 0)
  ELSE LET s == Head(stmts)
           first ==
             CASE s[1] = "return" ->
                    IF s[2] = << >> THEN Ending("empty", 0)
                    ELSE Ending("return", Val(s[2][1], vars, defs))
               [] s[1] = "if" ->
                    IF Val(s[2], vars, defs) # 0 THEN RunBlock(s[3], vars, defs)
                    ELSE IF s[4] = << >> THEN Ending("on", 0) ELSE RunBlock(s[4][1], vars, defs)
               [] s[1] = "while" ->
                    IF Val(s[2], vars, defs) = 0 THEN Ending("on", 0)
                    ELSE LET once == RunBlock(s[3], vars, defs)
                         IN  IF once.how = "on" THEN Ending("never", 0) ELSE once
               [] OTHER -> Ending("on", 0)
           bound == IF s[1] = "let" THEN (s[2] :> Val(s[3], vars, defs)) @@ vars ELSE vars
       IN  IF first.how = "on" THEN RunBlock(Tail(stmts), bound, defs) ELSE first

\* The ending of a program: its first function is where execution begins.
MeaningOf(items) ==
  LET defs == [f \in {items[k][2] : k \in DOMAIN items} |->
                 items[CHOOSE k \in DOMAIN items : items[k][2] = f]]
  IN  RunBlock(Returned(items[1][4]), << >>, defs)

-----------------------------------------------------------------------------
RECURSIVE UsesOr(_), Binds(_)

\* || occurs in the node (a tuple, or a sequence of nodes).
UsesOr(n) ==
  \/ n # << >> /\ n[1] = "binary" /\ (n[2] = "||" \/ UsesOr(n[3]) \/ UsesOr(n[4]))
  \/ n # << >> /\ n[1] \in {"unary", "let"} /\ UsesOr(n[3])
  \/ n # << >> /\ n[1] = "return" /\ n[2] # << >> /\ UsesOr(n[2][1])
  \/ n # << >> /\ n[1] = "while" /\ (UsesOr(n[2]) \/ \E k \in DOMAIN n[3] : UsesOr(n[3][k]))
  \/ n # << >> /\ n[1] = "if" /\
       (UsesOr(n[2]) \/ (\E k \in DOMAIN n[3] : UsesOr(n[3][k]))
                     \/ (n[4] # << >> /\ \E k \in DOMAIN n[4][1] : UsesOr(n[4][1][k])))

\* The names bound by let in a sequence of statements, in order.
Binds(stmts) ==
  IF stmts = << >> THEN << >>
  ELSE LET s == Head(stmts)
       IN  (CASE s[1] = "let" -> <<s[2]>>
              [] s[1] = "while" -> Binds(s[3])
              [] s[1] = "if" -> Binds(s[3]) \o (IF s[4] = << >> THEN << >> ELSE Binds(s[4][1]))
              [] OTHER -> << >>) \o Binds(Tail(stmts))

\* Names are bound once, and outside the inner blocks.
PlainBindings(stmts) ==
  /\ \A i, j \in DOMAIN Binds(stmts) : i # j => Binds(stmts)[i] # Binds(stmts)[j]
  /\ \A k \in DOMAIN stmts : stmts[k][1] \in {"if", "while"} => Binds(<<stmts[k]>>) = << >>

\* The program as if calls passed no arguments and a body had no value of its own:
\* what is missing in the compiler (bytecode_compiler.py:161, 198, 419).
NoStatement == <<"while", <<"integer", 0>>, << >>>>
AsCompiled(items) ==
  [k \in DOMAIN items |->
     [items[k] EXCEPT ![3] = << >>, ![4] = IF EndsInExpression(@) THEN Append(@, NoStatement) ELSE @]]

\* The programs whose meaning the compiler keeps but for that.  Outside: || keeps a
\* falsy left value and drops a true one; a name bound again, or in an inner block,
\* changes slot for the code that follows in the text, whether or not the binding
\* runs; functions share the slots of their caller and must return.
Faithful(items) ==
  /\ \A k \in DOMAIN items :
       /\ PlainBindings(items[k][4])
       /\ \A j \in DOMAIN items[k][4] : ~UsesOr(items[k][4][j])
  /\ \A k \in DOMAIN items \ {1} : Binds(items[k][4]) = << >> /\ MeaningOf(<<items[k]>>).how = "return"

-----------------------------------------------------------------------------
(* The lexemes of the language, each by what it looks like.                *)

AllIn(s, set) == \A k \in DOMAIN s : s[k] \in set

\* Position k of text s is escaped: an odd run of backslashes stands before it.
Escaped(s, k) ==
  \E n \in 1 .. k - 1 :
    /\ n % 2 = 1 /\ \A j \in k - n .. k - 1 : s[j] = "\\"
    /\ (k - n = 1 \/ s[k - n - 1] # "\\")

IsNumeral(s, digits) ==
  \/ AllIn(s, digits)
  \/ \E d \in 2 .. Len(s) - 1 : s[d] = "." /\ \A k \in DOMAIN s \ {d} : s[k] \in digits

IsQuoted(s) ==
  /\ Len(s) >= 2 /\ s[1] \in {"\"", "'"} /\ s[Len(s)] = s[1]
  /\ LET inner == SubSeq(s, 2, Len(s))
     IN  \A k \in DOMAIN inner : (inner[k] = s[1] /\ ~Escaped(inner, k)) <=> k = Len(inner)

Symbols == {<<x>> : x \in {"(", ")", "{", "}", "[", "]", ";", ":", ",", ".", "+", "-", "*", "/", "%",
                           "=", "<", ">", "!", "@"}}
           \cup {<<"-", ">">>, <<"=", ">">>, <<"=", "=">>, <<"!", "=">>, <<"<", "=">>, <<">", "=">>,
                 <<"&", "&">>, <<"|", "|">>}

IsLexeme(s, letters, digits) ==
  /\ s # << >>
  /\ \/ s \in Symbols \/ IsNumeral(s, digits) \/ IsQuoted(s)
     \/ s[1] \in letters /\ AllIn(s, letters \cup digits)

IsComment(s) ==
  /\ Len(s) >= 2 /\ s[1] = "/"
  /\ \/ s[2] = "/" /\ \A k \in DOMAIN s : s[k] # "\n"
     \/ /\ s[2] = "*"
        /\ {k \in 3 .. Len(s) - 1 : s[k] = "*" /\ s[k + 1] = "/"} = {Len(s) - 1}

\* A stretch of source without tokens: white space and comments, where a line
\* comment goes on to the end of its line.
RECURSIVE IsGap(_, _)
IsGap(s, next) ==
  \/ s = << >>
  \/ s[1] \in {" ", "\n"} /\ IsGap(Tail(s), next)
  \/ \E n \in 2 .. Len(s) :
       /\ IsComment(SubSeq(s, 1, n))
       /\ s[2] = "/" => (IF n < Len(s) THEN s[n + 1] ELSE next) \in {"\n", ""}
       /\ IsGap(SubSeq(s, n + 1, Len(s)), next)

-----------------------------------------------------------------------------
(* The tokens of a tree.                                                   *)

Precedence ==
  ("||" :> 1) @@ ("&&" :> 2) @@ ("==" :> 3) @@ ("!=" :> 3) @@ ("<" :> 4) @@ (">" :> 4)
  @@ ("<=" :> 4) @@ (">=" :> 4) @@ ("+" :> 5) @@ ("-" :> 5) @@ ("*" :> 6) @@ ("/" :> 6) @@ ("%" :> 6)

Tok(x) == <<x, x>>
Ident(x) == <<"IDENTIFIER", x>>

RECURSIVE ShowExpr(_, _), ShowArgs(_), ShowStmts(_), ShowItems(_)

\* e where an operator of precedence k stands around it; operators group left.
ShowExpr(e, k) ==
  CASE e[1] = "integer" -> << <<"INTEGER", e[2]>> >>
    [] e[1] = "boolean" -> << <<IF e[2] THEN "TRUE" ELSE "FALSE", "">> >>
    [] e[1] = "identifier" -> <<Ident(e[2])>>
    [] e[1] = "field_access" -> <<Ident(e[2]), Tok("."), Ident(e[3])>>
    [] e[1] = "call" -> <<Ident(e[2]), Tok("(")>> \o ShowArgs(e[3]) \o <<Tok(")")>>
    [] e[1] = "unary" -> <<Tok(e[2])>> \o ShowExpr(e[3], 7)
    [] e[1] = "binary" ->
         LET p == Precedence[e[2]]
             s == ShowExpr(e[3], p) \o <<Tok(e[2])>> \o ShowExpr(e[4], p + 1)
         IN  IF p < k THEN <<Tok("(")>> \o s \o <<Tok(")")>> ELSE s

ShowArgs(es) ==
  IF es = << >> THEN << >>
  ELSE ShowExpr(Head(es), 0) \o (IF Tail(es) = << >> THEN << >> ELSE <<Tok(",")>>) \o ShowArgs(Tail(es))

Braced(stmts) == <<Tok("{")>> \o ShowStmts(stmts) \o <<Tok("}")>>

ShowStmts(stmts) ==
  IF stmts = << >> THEN << >>
  ELSE LET s == Head(stmts)
       IN  (CASE s[1] = "let" ->
                   <<Tok("let"), Ident(s[2]), Tok("=")>> \o ShowExpr(s[3], 0) \o <<Tok(";")>>
              [] s[1] = "return" ->
                   <<Tok("return")>> \o (IF s[2] = << >> THEN << >> ELSE ShowExpr(s[2][1], 0)) \o <<Tok(";")>>
              [] s[1] = "while" -> <<Tok("while")>> \o ShowExpr(s[2], 0) \o Braced(s[3])
              [] s[1] = "if" ->
                   <<Tok("if")>> \o ShowExpr(s[2], 0) \o Braced(s[3])
                   \o (IF s[4] = << >> THEN << >> ELSE <<Tok("else")>> \o Braced(s[4][1]))
              [] OTHER -> ShowExpr(s, 0) \o <<Tok(";")>>) \o ShowStmts(Tail(stmts))

RECURSIVE ShowParams(_)
ShowParams(names) ==
  IF names = << >> THEN << >>
  ELSE <<Ident(Head(names)), Tok(":"), Ident("u32")>>
       \o (IF Tail(names) = << >> THEN << >> ELSE <<Tok(",")>>) \o ShowParams(Tail(names))

ShowItems(items) ==
  IF items = << >> THEN << >>
  ELSE LET i == Head(items)
       IN  (IF i[1] = "function"
            THEN <<Tok("@"), Ident("ai_monitored"), Tok("fn"), Ident(i[2]), Tok("(")>> \o ShowParams(i[3])
                 \o <<Tok(")"), Tok("->"), Ident("u32")>> \o Braced(i[4])
            ELSE <<Tok("contract"), Ident(i[2])>> \o Braced(i[3])) \o ShowItems(Tail(items))
=============================================================================
