------------------------------ MODULE GasMeter ------------------------------
(***************************************************************************)
(* The gas meter of core/vm/gas_meter.py: what each opcode costs, when a   *)
(* charge is refused, and what is billed once refunds are taken off.  A    *)
(* meter is a record [limit, used, refunds].  snapshot and restore, which  *)
(* nothing calls, and the price of call data are left out.                 *)
(***************************************************************************)
EXTENDS Integers

GasTable ==
  [PUSH |-> 3, POP |-> 2, DUP |-> 3, SWAP |-> 3,
   ADD |-> 3, SUB |-> 3, MUL |-> 5, DIV |-> 5, MOD |-> 5, EXP |-> 50,
   EQ |-> 3, NEQ |-> 3, LT |-> 3, GT |-> 3, LE |-> 3, GE |-> 3,
   AND |-> 3, OR |-> 3, NOT |-> 3, MLOAD |-> 200, MSTORE |-> 200,
   SLOAD |-> 2100, SSTORE |-> 20000, JUMP |-> 8, JUMPI |-> 10,
   HALT |-> 0, REVERT |-> 0, CALLER |-> 2, CALLVALUE |-> 2, ADDRESS |-> 2,
   BALANCE |-> 400, BLOCKHASH |-> 20, TIMESTAMP |-> 2,
   CALL |-> 2600, STATICCALL |-> 100, RETURN |-> 0,
   SHA256 |-> 30, LOG |-> 375, LOG2 |-> 750]

\* What charge(opcode) asks for; an opcode without an entry costs 3.
Cost(op) == IF op \in DOMAIN GasTable THEN GasTable[op] ELSE 3

NewMeter(limit) == [limit |-> limit, used |-> 0, refunds |-> 0]

\* Mutant: any gas left is enough.
AffordsSome(m, amount) == m.used < m.limit

\* A charge that would pass the limit raises and leaves the meter as it is.
Affords(m, amount) == m.used + amount <= m.limit

Consume(m, amount) == [m EXCEPT !.used = @ + amount]

Refund(m, amount) == [m EXCEPT !.refunds = @ + amount]

\* The refund is capped at a fifth of what was used.
EffectiveUsed(m) ==
  LET cap == m.used \div 5
  IN  m.used - (IF m.refunds < cap THEN m.refunds ELSE cap)
=============================================================================
