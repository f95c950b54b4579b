----------------------------- MODULE Conditions -----------------------------
(***************************************************************************)
(* The condition trees of S3 Select (select/sql.py), which the parser      *)
(* builds and plan and compile_mask take apart.                            *)
(***************************************************************************)
EXTENDS Integers

Null == -1

\* Operands
\* A quoted name is taken as it is written, another in any case.
Column(c, quoted) == [is |-> "column", name |-> c, quoted |-> quoted]
Literal(kind, v) == [is |-> "literal", kind |-> kind, value |-> v]
NullLiteral == Literal("null", Null)

\* Conditions
Comparison(rel, left, right) == [is |-> "comparison", rel |-> rel, left |-> left, right |-> right]
IsNull(arg, negated) == [is |-> "isnull", operand |-> arg, negated |-> negated]
InList(arg, values, negated) ==
  [is |-> "in", operand |-> arg, values |-> values, negated |-> negated]
Between(arg, low, high, negated) ==
  [is |-> "between", operand |-> arg, low |-> low, high |-> high, negated |-> negated]
Like(arg, pattern, negated) ==
  [is |-> "like", operand |-> arg, pattern |-> pattern, negated |-> negated]
Not(c) == [is |-> "not", operand |-> c]
BoolOp(op, left, right) == [is |-> op, left |-> left, right |-> right]
=============================================================================
