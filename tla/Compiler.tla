------------------------------ MODULE Compiler ------------------------------
(***************************************************************************)
(* The bytecode compiler of core/vm/bytecode_compiler.py as operators.  A  *)
(* syntax tree is a tuple whose first member is the node's type:           *)
(*   <<"integer", n>> <<"float", n>> <<"string", s>> <<"boolean", b>>      *)
(*   <<"identifier", x>> <<"binary", op, l, r>> <<"unary", op, e>>         *)
(*   <<"call", f, args>> <<"let", x, e>> <<"return", e or none>>           *)
(*   <<"if", c, then, else or none>> <<"while", c, body>>                  *)
(*   <<"function", f, params, body>> <<"contract", c, body>>               *)
(* where "x or none" is <<x>> or << >>.  An instruction is [op, args]; its *)
(* offsets count from 1.  Labels of jumps are resolved where the code is   *)
(* emitted, those of functions at the end, as patch does.  Float literals  *)
(* are whole numbers here, and names of the environment in lower case, to  *)
(* which the code converts them before it looks.                           *)
(***************************************************************************)
EXTENDS Integers, Sequences, TLC

CONSTANT StringHash(_)   \* the 64-bit prefix of a string literal's SHA-256

Ins(op) == [op |-> op, args |-> << >>]
InsWith(op, x) == [op |-> op, args |-> <<x>>]
Push(n) == InsWith("PUSH", <<"i", n>>)

\* The symbol table of a function: its slots count from 0 in every function,
\* and a name defined again gets a new slot.
NewScope == [slots |-> << >>, next |-> 0]

Define(scope, name) ==
  [slots |-> [x \in DOMAIN scope.slots \cup {name} |->
                IF x = name THEN scope.next ELSE scope.slots[x]],
   next |-> scope.next + 1]

EnvironmentNames ==
  [caller |-> "CALLER", callvalue |-> "CALLVALUE", address |-> "ADDRESS",
   blockhash |-> "BLOCKHASH", timestamp |-> "TIMESTAMP"]

OpcodeMap ==
  ("+" :> "ADD") @@ ("-" :> "SUB") @@ ("*" :> "MUL") @@ ("/" :> "DIV") @@ ("%" :> "MOD")
  @@ ("**" :> "EXP") @@ ("==" :> "EQ") @@ ("!=" :> "NEQ") @@ ("<" :> "LT") @@ (">" :> "GT")
  @@ ("<=" :> "LE") @@ (">=" :> "GE") @@ ("&" :> "AND") @@ ("|" :> "OR")

Builtins ==
  [sha256 |-> "SHA256", compute_hash |-> "SHA256", validate_signature |-> "CALL",
   update_ledger |-> "SSTORE", log |-> "LOG"]

Identifier(name, scope) ==
  IF name \in DOMAIN scope.slots THEN InsWith("MLOAD", scope.slots[name])
  ELSE IF name \in DOMAIN EnvironmentNames THEN Ins(EnvironmentNames[name])
  ELSE Push(0)

-----------------------------------------------------------------------------
RECURSIVE Expr(_, _, _), Exprs(_, _, _), BeforeExprs(_, _, _, _)

\* Mutant: the jump falls one short, on the last instruction of the right side.
ShortCircuitShort(left, r, scope, at) ==
  LET right == Expr(r, scope, at + Len(left) + 3)
  IN  left \o <<Ins("DUP"), InsWith("JUMPI", at + Len(left) + 2 + Len(right)), Ins("POP")>> \o right

\* Both && and || end up here: the left value is kept, and the right side
\* skipped, when the left one is falsy.  left is its code.
ShortCircuit(left, r, scope, at) ==
  LET right == Expr(r, scope, at + Len(left) + 3)
  IN  left \o <<Ins("DUP"), InsWith("JUMPI", at + Len(left) + 3 + Len(right)), Ins("POP")>> \o right

Binary(op, left, r, scope, at) ==
  IF op \in {"&&", "||"} THEN ShortCircuit(left, r, scope, at)
  ELSE LET last == IF op \in DOMAIN OpcodeMap THEN OpcodeMap[op] ELSE "POP"
       IN  left \o Expr(r, scope, at + Len(left)) \o <<Ins(last)>>

Unary(op, e, scope, at) ==
  Expr(e, scope, at) \o
    CASE op = "!" -> <<Ins("NOT")>>
      [] op = "-" -> <<Push(0), Ins("SWAP"), Ins("SUB")>>

\* The operand of a call is the name of its label until Compile patches it.
CallCode(name, args, scope, at) ==
  Exprs(args, scope, at) \o
    <<IF name \in DOMAIN Builtins THEN Ins(Builtins[name]) ELSE InsWith("CALL", name)>>

\* The code of expression e when its first instruction stands at offset at.
Expr(e, scope, at) ==
  CASE e[1] = "integer" -> <<Push(e[2])>>
    [] e[1] = "float" -> <<Push(e[2] * 1000000)>>
    [] e[1] = "string" -> <<Push(StringHash(e[2]))>>
    [] e[1] = "boolean" -> <<Push(IF e[2] THEN 1 ELSE 0)>>
    [] e[1] = "identifier" -> <<Identifier(e[2], scope)>>
    [] e[1] = "binary" -> Binary(e[2], Expr(e[3], scope, at), e[4], scope, at)
    [] e[1] = "unary" -> Unary(e[2], e[3], scope, at)
    [] e[1] = "call" -> CallCode(e[2], e[3], scope, at)
    [] OTHER -> <<Push(0)>>

Exprs(es, scope, at) ==
  IF es = << >> THEN << >> ELSE BeforeExprs(Expr(Head(es), scope, at), Tail(es), scope, at)

BeforeExprs(first, es, scope, at) == first \o Exprs(es, scope, at + Len(first))

-----------------------------------------------------------------------------
RECURSIVE Block(_, _, _), BeforeBlock(_, _, _)

\* A statement gives its code and the scope that holds after it.
Let(name, value, scope, at) ==
  LET inner == Define(scope, name)   \* before the value is compiled
  IN  [code |-> Expr(value, inner, at) \o <<InsWith("MSTORE", inner.slots[name])>>,
       scope |-> inner]

ReturnCode(value, scope, at) ==
  (IF value = << >> THEN << >> ELSE Expr(value[1], scope, at)) \o <<Ins("RETURN")>>

\* test is the code of the condition.  An empty else block compiles like none.
If(test, then, else, scope, at) ==
  LET thenB == Block(then, scope, at + Len(test) + 1)
      hasElse == else # << >> /\ else[1] # << >>
      elseAt == at + Len(test) + 1 + Len(thenB.code) + (IF hasElse THEN 1 ELSE 0)
      elseB == IF hasElse THEN Block(else[1], thenB.scope, elseAt)
               ELSE [code |-> << >>, scope |-> thenB.scope]
  IN  [code |-> test \o <<InsWith("JUMPI", elseAt)>> \o thenB.code
                \o (IF hasElse THEN <<InsWith("JUMP", elseAt + Len(elseB.code))>> ELSE << >>)
                \o elseB.code,
       scope |-> elseB.scope]

While(test, body, scope, at) ==
  LET bodyB == Block(body, scope, at + Len(test) + 1)
      end == at + Len(test) + 1 + Len(bodyB.code) + 1
  IN  [code |-> test \o <<InsWith("JUMPI", end)>> \o bodyB.code \o <<InsWith("JUMP", at)>>,
       scope |-> bodyB.scope]

Stmt(s, scope, at) ==
  CASE s[1] = "let" -> Let(s[2], s[3], scope, at)
    [] s[1] = "return" -> [code |-> ReturnCode(s[2], scope, at), scope |-> scope]
    [] s[1] = "if" -> If(Expr(s[2], scope, at), s[3], s[4], scope, at)
    [] s[1] = "while" -> While(Expr(s[2], scope, at), s[3], scope, at)
    [] OTHER -> [code |-> Expr(s, scope, at) \o <<Ins("POP")>>, scope |-> scope]

\* Blocks open no scope: what one defines is visible after it.
Block(stmts, scope, at) ==
  IF stmts = << >> THEN [code |-> << >>, scope |-> scope]
  ELSE BeforeBlock(Stmt(Head(stmts), scope, at), Tail(stmts), at)

BeforeBlock(first, stmts, at) ==
  LET rest == Block(stmts, first.scope, at + Len(first.code))
  IN  [code |-> first.code \o rest.code, scope |-> rest.scope]

-----------------------------------------------------------------------------
RECURSIVE Params(_, _), Items(_, _), BeforeItems(_, _, _, _)

Params(names, scope) ==
  IF names = << >> THEN scope ELSE Params(Tail(names), Define(scope, Head(names)))

\* Parameters get slots, but nothing moves the arguments there.
Item(item, at) ==
  LET function == item[1] = "function"
  IN  Block(item[IF function THEN 4 ELSE 3], Params(IF function THEN item[3] ELSE << >>, NewScope), at).code
        \o <<Ins("HALT")>>

\* The code of the items, and where each function begins: a name defined twice
\* means its last definition.
Items(items, at) ==
  IF items = << >> THEN [code |-> << >>, labels |-> << >>]
  ELSE BeforeItems(Head(items), Item(Head(items), at), Tail(items), at)

BeforeItems(item, code, items, at) ==
  LET rest == Items(items, at + Len(code))
  IN  [code |-> code \o rest.code,
       labels |-> IF item[1] = "function" THEN rest.labels @@ (item[2] :> at) ELSE rest.labels]

Called(code) == {code[k].args[1] : k \in {j \in DOMAIN code : code[j].op = "CALL" /\ code[j].args # << >>}}

\* patch, which fails on a call of a function the program does not define.
Patchable(all) == Called(all.code) \subseteq DOMAIN all.labels
Patch(all) ==
  [k \in DOMAIN all.code |->
     LET i == all.code[k]
     IN  IF i.op = "CALL" /\ i.args # << >> THEN InsWith("CALL", all.labels[i.args[1]]) ELSE i]

Compiles(items) == Patchable(Items(items, 1))
Compile(items) == Patch(Items(items, 1))
=============================================================================
