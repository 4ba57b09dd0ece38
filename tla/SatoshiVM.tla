----------------------------- MODULE SatoshiVM -----------------------------
(***************************************************************************)
(* The stack machine of core/vm/satoshi_vm.py, one instruction per step.   *)
(* One machine runs programs, one after another, on execution contexts     *)
(* that were built over the same storage dictionary; a context keeps the   *)
(* journal of its uncommitted writes (pending_storage).                    *)
(*                                                                         *)
(* A value is <<"i", n>> for a Python int, <<"f", n>> for the float that   *)
(* arithmetic yields (whole numbers: the language has no others on the     *)
(* stack) and <<"s", x>> for a text.  An instruction is [op, args] with    *)
(* args empty or holding the one operand: a value for PUSH, an offset      *)
(* (counted from 1) or a memory slot for the others.  Memory and jump      *)
(* instructions always hold one: no program the parser reads makes the     *)
(* compiler emit them bare.  Logs and the wording of errors are left out,  *)
(* and so are texts that read as numbers, which arithmetic would convert.  *)
(***************************************************************************)
EXTENDS GasMeter, Sequences, FiniteSets, TLC

CONSTANTS Contexts,       \* execution contexts sharing one storage
          Programs,       \* names of the programs that may be run
          CodeOf(_),      \* the bytecode of a program
          GasLimits,      \* gas limits a caller gives
          MaxStack,       \* MAX_STACK_DEPTH
          MaxMemory,      \* MAX_MEMORY_WORDS
          MaxCallDepth,   \* MAX_CALL_DEPTH
          MaxExecutions   \* bound on the executions of one behaviour

ASSUME GasLimitsAssumption == GasLimits \subseteq Nat \ {0}

VARIABLES
  storage,   \* the committed key-value store
  journal,   \* journal[c]: pending_storage of context c
  vm,        \* [ctx, prog, code, pc, stack, memory, depth] of the machine
  meter,     \* the gas meter of the execution
  status,    \* "idle", "running", "ok", "failed" or "out_of_gas"
  result,    \* return_value of the last execution
  executions,
  written,   \* (history) what the running execution has written itself
  ideal,     \* (history) the storage if a success committed its own writes
  stale      \* (history) an execution began on a journal the storage lacks

vmVars == <<storage, journal, vm, meter, status, result, executions, written, ideal, stale>>
history == <<written, ideal, stale>>

PyInt(n) == <<"i", n>>
PyFloat(n) == <<"f", n>>
Text(x) == <<"s", x>>
Zero == PyInt(0)
None == Text("None")
NoKeys == << >>   \* the mapping without a key

IsNumber(v) == v[1] # "s"

\* _to_num: what is not a number counts as 0.
Num(v) == IF IsNumber(v) THEN v[2] ELSE 0

Truthy(v) == IsNumber(v) => v[2] # 0

\* Python's ==: a float equals the int of the same value, a text only itself.
Same(a, b) == IF IsNumber(a) /\ IsNumber(b) THEN a[2] = b[2] ELSE a = b

Bool(b) == PyInt(IF b THEN 1 ELSE 0)

FloorDiv(a, b) == IF b > 0 THEN a \div b ELSE (-a) \div (-b)

Get(mapping, key, default) == IF key \in DOMAIN mapping THEN mapping[key] ELSE default

\* dict.update: the keys of newer win.
Update(mapping, newer) ==
  [k \in DOMAIN newer \cup DOMAIN mapping |-> IF k \in DOMAIN newer THEN newer[k] ELSE mapping[k]]

Put(mapping, key, v) == Update(mapping, [k \in {key} |-> v])

-----------------------------------------------------------------------------
(* The pure instructions: operands a (below) and b (on top).               *)

ArithmeticOps == {"ADD", "SUB", "MUL", "DIV", "MOD", "EXP"}
CompareOps == {"EQ", "NEQ", "LT", "GT", "LE", "GE", "AND", "OR"}
EnvironmentOps == {"CALLER", "CALLVALUE", "ADDRESS", "BLOCKHASH", "TIMESTAMP"}
ControlOps == {"MSTORE", "SSTORE", "JUMP", "JUMPI", "HALT", "REVERT", "RETURN"}

Arithmetic(op, a, b) ==
  LET x == Num(a)
      y == Num(b)
  IN  CASE op = "ADD" -> PyFloat(x + y)
        [] op = "SUB" -> PyFloat(x - y)
        [] op = "MUL" -> PyFloat(x * y)
        [] op = "DIV" -> IF y = 0 THEN Zero ELSE PyFloat(FloorDiv(x, y))
        [] op = "MOD" -> IF y = 0 THEN Zero ELSE PyFloat(x - y * FloorDiv(x, y))
        [] op = "EXP" -> PyInt(x ^ (IF y < 0 THEN 0 ELSE y))

Compare(op, a, b) ==
  CASE op = "EQ"  -> Bool(Same(a, b))
    [] op = "NEQ" -> Bool(~Same(a, b))
    [] op = "LT"  -> Bool(Num(a) < Num(b))
    [] op = "GT"  -> Bool(Num(a) > Num(b))
    [] op = "LE"  -> Bool(Num(a) <= Num(b))
    [] op = "GE"  -> Bool(Num(a) >= Num(b))
    [] op = "AND" -> Bool(Truthy(a) /\ Truthy(b))
    [] op = "OR"  -> Bool(Truthy(a) \/ Truthy(b))

\* What the context holds: numbers for the value and the time, else texts.
Environment(op, c) ==
  IF op \in {"CALLVALUE", "TIMESTAMP"} THEN PyInt(1) ELSE Text(<<op, c>>)

\* Words SHA256 charges extra for: 64 hex digits fill two, other texts one.
HashWords(v) == IF ~IsNumber(v) /\ v[2][1] \in {"SHA256", "BLOCKHASH"} THEN 2 ELSE 1

\* The values an instruction cannot do without; LOG takes what there is.
Pops(i) ==
  CASE i.op \in ArithmeticOps \cup CompareOps \cup {"SWAP", "SSTORE"} -> 2
    [] i.op \in {"POP", "DUP", "NOT", "SLOAD", "BALANCE", "SHA256", "MSTORE", "JUMPI"} -> 1
    [] OTHER -> 0

Drop(s, n) == SubSeq(s, 1, Len(s) - n)
Nth(s, n) == s[Len(s) - n + 1]   \* Nth(s, 1) is the top of stack s

\* What the instructions without any other effect push.  SWAP pushes the two
\* values in the order they were popped.
Pushed(i, s) ==
  CASE i.op = "PUSH" -> <<IF i.args = << >> THEN Zero ELSE i.args[1]>>
    [] i.op = "DUP" -> <<Nth(s, 1), Nth(s, 1)>>
    [] i.op = "SWAP" -> <<Nth(s, 1), Nth(s, 2)>>
    [] i.op \in ArithmeticOps -> <<Arithmetic(i.op, Nth(s, 2), Nth(s, 1))>>
    [] i.op \in CompareOps -> <<Compare(i.op, Nth(s, 2), Nth(s, 1))>>
    [] i.op = "NOT" -> <<Bool(~Truthy(Nth(s, 1)))>>
    [] i.op = "MLOAD" -> <<Get(vm.memory, i.args[1], Zero)>>
    [] i.op = "SLOAD" -> <<Get(journal[vm.ctx], Nth(s, 1), Get(storage, Nth(s, 1), Zero))>>
    [] i.op = "BALANCE" -> <<Get(storage, Text(<<"balance", Nth(s, 1)>>), Zero)>>
    [] i.op \in EnvironmentOps -> <<Environment(i.op, vm.ctx)>>
    [] i.op \in {"CALL", "STATICCALL"} -> <<Zero>>
    [] i.op = "SHA256" -> <<Text(<<"SHA256", Nth(s, 1)>>)>>
    [] i.op \in {"POP", "LOG", "LOG2"} -> << >>

After(i, s) ==
  LET wanted == CASE i.op = "LOG" -> 2 [] i.op = "LOG2" -> 3 [] OTHER -> Pops(i)
  IN  Drop(s, IF wanted < Len(s) THEN wanted ELSE Len(s)) \o Pushed(i, s)

-----------------------------------------------------------------------------
Reset(c, p, code) ==
  [ctx |-> c, prog |-> p, code |-> code, pc |-> 1, stack |-> << >>, memory |-> NoKeys, depth |-> 0]

VMInit ==
  /\ storage = NoKeys /\ ideal = NoKeys /\ written = NoKeys
  /\ journal = [c \in Contexts |-> NoKeys]
  /\ vm = Reset(None, None, << >>) /\ meter = NewMeter(1)
  /\ status = "idle" /\ result = None /\ stale = FALSE /\ executions = 0

\* execute: everything but the context starts afresh.
Begin(c, p, limit) ==
  /\ vm' = Reset(c, p, CodeOf(p)) /\ meter' = NewMeter(limit)
  /\ status' = "running" /\ result' = None
  /\ written' = NoKeys
  /\ stale' = (stale \/ Update(storage, journal[c]) # storage)
  /\ UNCHANGED <<storage, journal, ideal>>

Execute(c, p, limit) ==
  /\ status # "running" /\ executions < MaxExecutions
  /\ executions' = executions + 1
  /\ Begin(c, p, limit)

\* call_function: the depth the last execution ended at decides whether the
\* call is refused; its offset and its arguments are lost when execute resets.
CallFunction(c, p, limit) ==
  /\ status # "running" /\ executions < MaxExecutions
  /\ executions' = executions + 1
  /\ IF vm.depth >= MaxCallDepth
     THEN /\ meter' = NewMeter(limit) /\ status' = "failed" /\ result' = None
          /\ UNCHANGED <<storage, journal, vm, history>>
     ELSE Begin(c, p, limit)

-----------------------------------------------------------------------------
(* One turn of the loop of _run.                                           *)

Running == status = "running"
AtEnd == vm.pc > Len(vm.code)
Instr == vm.code[vm.pc]
Stack == vm.stack
Price == Cost(Instr.op)
InternalCall == Instr.op = "CALL" /\ Instr.args # << >> /\ Instr.args[1] <= Len(vm.code)
Plain == Instr.op \notin ControlOps /\ ~InternalCall
HashPrice == IF Instr.op = "SHA256" THEN 6 * HashWords(Nth(Stack, 1)) ELSE 0

\* The instruction is paid for and finds its operands.
Ready ==
  /\ Running /\ ~AtEnd
  /\ Affords(meter, Price)
  /\ Len(Stack) >= Pops(Instr)

Goes(fields) == vm' = fields /\ meter' = Consume(meter, Price)

\* The charge is tried first, so an instruction that cannot be paid for has no
\* effect; the caller is billed the whole limit.
OutOfGas ==
  /\ Running /\ ~AtEnd
  /\ \/ ~Affords(meter, Price)
     \/ Ready /\ ~Affords(meter, Price + HashPrice)
  /\ status' = "out_of_gas"
  /\ UNCHANGED <<storage, journal, vm, meter, result, executions, history>>

Compute ==
  /\ Ready /\ Plain /\ Affords(meter, Price + HashPrice)
  /\ Len(After(Instr, Stack)) <= MaxStack
  /\ vm' = [vm EXCEPT !.pc = @ + 1, !.stack = After(Instr, Stack)]
  /\ meter' = Consume(meter, Price + HashPrice)
  /\ UNCHANGED <<storage, journal, status, result, executions, history>>

\* The limit counts the words in use, also when a used one is written again.
StoreMemory ==
  /\ Ready /\ Instr.op = "MSTORE" /\ Cardinality(DOMAIN vm.memory) < MaxMemory
  /\ Goes([vm EXCEPT !.pc = @ + 1, !.stack = Drop(@, 1),
                     !.memory = Put(@, Instr.args[1], Nth(Stack, 1))])
  /\ UNCHANGED <<storage, journal, status, result, executions, history>>

\* Mutant: the write goes to the storage at once.
StoreStorageThrough ==
  /\ Ready /\ Instr.op = "SSTORE"
  /\ vm' = [vm EXCEPT !.pc = @ + 1, !.stack = Drop(@, 2)]
  /\ storage' = Put(storage, Nth(Stack, 2), Nth(Stack, 1))
  /\ written' = Put(written, Nth(Stack, 2), Nth(Stack, 1))
  /\ meter' = Consume(meter, Price)
  /\ UNCHANGED <<journal, status, result, executions, ideal, stale>>

\* A zero written over a committed key earns a refund, each time.
StoreStorage ==
  /\ Ready /\ Instr.op = "SSTORE"
  /\ vm' = [vm EXCEPT !.pc = @ + 1, !.stack = Drop(@, 2)]
  /\ LET val == Nth(Stack, 1)
         key == Nth(Stack, 2)
         clears == key \in DOMAIN storage /\ Same(val, Zero)
     IN  /\ journal' = [journal EXCEPT ![vm.ctx] = Put(@, key, val)]
         /\ written' = Put(written, key, val)
         /\ meter' = Refund(Consume(meter, Price), IF clears THEN 15000 ELSE 0)
  /\ UNCHANGED <<storage, status, result, executions, ideal, stale>>

\* JUMPI jumps when the condition is falsy.
Jump ==
  /\ Ready /\ Instr.op \in {"JUMP", "JUMPI"}
  /\ LET taken == Instr.op = "JUMPI" => ~Truthy(Nth(Stack, 1))
     IN  Goes([vm EXCEPT !.pc = IF taken THEN Instr.args[1] ELSE @ + 1,
                         !.stack = Drop(@, Pops(Instr))])
  /\ UNCHANGED <<storage, journal, status, result, executions, history>>

\* The return address lies in memory, below the slots of the variables.
Call ==
  /\ Ready /\ InternalCall
  /\ Goes([vm EXCEPT !.pc = Instr.args[1], !.depth = @ + 1,
                     !.memory = Put(@, -vm.depth - 1, vm.pc + 1)])
  /\ UNCHANGED <<storage, journal, status, result, executions, history>>

Return ==
  /\ Ready /\ Instr.op = "RETURN" /\ vm.depth > 0
  /\ Goes([vm EXCEPT !.pc = Get(vm.memory, -vm.depth, Len(vm.code) + 1), !.depth = @ - 1])
  /\ UNCHANGED <<storage, journal, status, result, executions, history>>

\* Success: the whole journal of the context goes to the storage, and stays.
Finish ==
  /\ \/ Running /\ AtEnd /\ UNCHANGED meter
     \/ /\ Ready /\ (Instr.op = "HALT" \/ (Instr.op = "RETURN" /\ vm.depth = 0))
        /\ meter' = Consume(meter, Price)
  /\ status' = "ok"
  /\ result' = IF Stack = << >> THEN None ELSE Nth(Stack, 1)
  /\ storage' = Update(storage, journal[vm.ctx])
  /\ ideal' = Update(ideal, written)
  /\ UNCHANGED <<journal, vm, executions, written, stale>>

\* VMError: too few or too many values, a full memory, REVERT.  The journal of
\* the context is not cleared.
Fail ==
  /\ Running /\ ~AtEnd /\ Affords(meter, Price)
  /\ \/ Len(Stack) < Pops(Instr)
     \/ Instr.op = "REVERT"
     \/ Instr.op = "MSTORE" /\ Cardinality(DOMAIN vm.memory) >= MaxMemory
     \/ Ready /\ Plain /\ Affords(meter, Price + HashPrice) /\ Len(After(Instr, Stack)) > MaxStack
  /\ status' = "failed" /\ meter' = Consume(meter, Price)
  /\ UNCHANGED <<storage, journal, vm, result, executions, history>>

VMStep == \/ OutOfGas \/ Compute \/ StoreMemory \/ StoreStorage \/ Jump
          \/ Call \/ Return \/ Finish \/ Fail

VMNext ==
  \/ \E c \in Contexts, p \in Programs, limit \in GasLimits :
       Execute(c, p, limit) \/ CallFunction(c, p, limit)
  \/ VMStep

VMSpec == VMInit /\ [][VMNext]_vmVars

-----------------------------------------------------------------------------
\* What VMResult.gas_used says of the last execution.
GasUsed ==
  CASE status = "ok" -> EffectiveUsed(meter)
    [] status = "out_of_gas" -> meter.limit
    [] OTHER -> meter.used

\* No execution is billed more than the limit its caller gave, whatever it
\* charged, was refused or was refunded on the way (gas_meter.py:221-226,
\* satoshi_vm.py:126-159).
GasBounded == meter.used \in 0 .. meter.limit /\ GasUsed \in 0 .. meter.limit

\* Storage holds what successful executions wrote and nothing of those that
\* failed or ran out of gas ("committed on HALT", satoshi_vm.py:59), as long as
\* no execution begins on a context that still carries writes the storage does
\* not have: execute never empties pending_storage, so such a context commits
\* them with its next success.
StorageIsSuccessfulWrites == ~stale => storage = ideal
=============================================================================
