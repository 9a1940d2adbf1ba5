------------------------------- MODULE Numbers -------------------------------
(***************************************************************************)
(* Integers as values (value/value.rs) and what the operators make of them *)
(* (the eval_ methods of vm/executor.rs, builtin/integer.rs,               *)
(* value/real.rs).  A small integer is packed into the word of the value,  *)
(* shifted left by one with the lowest bit set; any other is an object of  *)
(* the heap.  Floats appear as far as they are whole numbers: they are     *)
(* compared with integers.  The last part states what Ruby makes of the    *)
(* same operators, for integers without bounds.                            *)
(***************************************************************************)
EXTENDS Integers, SequencesExt

CONSTANTS Width,            \* of an integer and of a value: 64 in the code
          Mantissa,         \* of a float, with its leading bit: 53 in the code
          IrregularNumbers  \* are numbers tried for which the code differs from Ruby?

ASSUME WidthAssumption == Width \in Nat /\ Width > 2
ASSUME MantissaAssumption == Mantissa \in Nat /\ 0 < Mantissa /\ Mantissa < Width

Word(n) == n % 2 ^ Width
Wrap(n) == Word(n + 2 ^ (Width - 1)) - 2 ^ (Width - 1)

Fix(w) == [k |-> "fix", w |-> w]        \* a packed integer
Box(n) == [k |-> "box", w |-> n]        \* an object of the heap
Flo(n) == [k |-> "flo", w |-> n]        \* a packed float
ZeroDivision == [k |-> "ZeroDivisionError", w |-> 0]
Undefined == [k |-> "NoMethodError", w |-> 0]
Panics == [k |-> "panic", w |-> 0]

(* Value::integer packs what the shift does not spoil: the two highest     *)
(* bits are equal.                                                         *)
IntegerValue_Sign(n) ==
    IF Word(n) \div 2 ^ (Width - 1) = 0 THEN Fix(Word(2 * n) + 1) ELSE Box(n)
IntegerValue(n) ==
    LET top == Word(n) \div 2 ^ (Width - 2) + Word(n) \div 2 ^ (Width - 1)
    IN  IF top % 2 = 0 THEN Fix(Word(2 * n) + 1) ELSE Box(n)
Unpack(v) == IF v.k = "fix" THEN Wrap(v.w) \div 2 ELSE v.w
IsBoxed(v) == v.k = "box"
IsFloat(v) == v.k = "flo"

Magnitude(n) == IF n < 0 THEN -n ELSE n
(* An integer as a float: its leading Mantissa bits, rounded to the        *)
(* nearest, and to the even one of two that are as near.                   *)
AsFloat(n) ==
    LET a == Magnitude(n)
        unit == Max({1} \cup {2 ^ k : k \in {k \in 0 .. Width : 2 ^ (Mantissa + k - 1) <= a}})
        kept == a \div unit
        rest == 2 * (a % unit)
        rounded == unit * IF rest > unit \/ (rest = unit /\ kept % 2 = 1) THEN kept + 1 ELSE kept
    IN  IF n < 0 THEN -rounded ELSE rounded
(* An operand as it is compared with another: an integer becomes a float   *)
(* before a float.                                                         *)
Beside(v, other) == IF IsFloat(other) THEN AsFloat(Unpack(v)) ELSE Unpack(v)

----------------------------------------------------------------------------
(* Machine arithmetic.                                                     *)
Raised(m, n) == IF n = 0 THEN 1 ELSE m ^ n
Truncated(m, n) ==
    LET q == Magnitude(m) \div Magnitude(n) IN IF (m < 0) = (n < 0) THEN q ELSE -q
Floored(m, n) == IF n > 0 THEN m \div n ELSE (-m) \div (-n)
Euclid(m, n) == IF n > 0 THEN m \div n ELSE -(m \div (-n))
BitOf(m, k) == (m \div 2 ^ k) % 2
BitByBit(Op(_, _), m, n) ==
    Wrap(MapThenSumSet(LAMBDA k : Op(BitOf(m, k), BitOf(n, k)) * 2 ^ k, 0 .. Width - 1))

(* The operators on integers.  What overflows wraps, except that the       *)
(* remainder and the Euclidean quotient of the smallest integer by -1      *)
(* panic, as a remainder by zero does; a shift counts modulo the width.    *)
Overflows(m, n) == m = -(2 ^ (Width - 1)) /\ n = -1
Machine(op, m, n) ==
    CASE op = "+" -> IntegerValue(Wrap(m + n))
      [] op = "-" -> IntegerValue(Wrap(m - n))
      [] op = "*" -> IntegerValue(Wrap(m * n))
      [] op = "**" -> IntegerValue(Wrap(Raised(m, n)))
      [] op = "/" -> IF n = 0 THEN ZeroDivision ELSE IntegerValue(Truncated(m, n))
      [] op = "div" -> CASE n = 0 -> ZeroDivision
                         [] Overflows(m, n) -> Panics
                         [] OTHER -> IntegerValue(Euclid(m, n))
      [] op = "%" -> IF n = 0 \/ Overflows(m, n) THEN Panics ELSE IntegerValue(m - n * Floored(m, n))
      [] op = "<<" -> IntegerValue(Wrap(m * 2 ^ (n % Width)))
      [] op = ">>" -> IntegerValue(m \div 2 ^ (n % Width))
      [] op = "&" -> IntegerValue(BitByBit(LAMBDA a, b : a * b, m, n))
      [] op = "|" -> IntegerValue(BitByBit(LAMBDA a, b : a + b - a * b, m, n))
      [] op = "^" -> IntegerValue(BitByBit(LAMBDA a, b : (a + b) % 2, m, n))
      [] op = "[]" -> IntegerValue(IF n \notin 0 .. Width - 1 THEN 0 ELSE BitOf(m, n))
(* eval_op, fallback_for_binop: what the instruction does not compute for  *)
(* packed operands a method of Integer does, except that "/" has none.     *)
EvalOp(op, lhs, rhs) ==
    LET m == Unpack(lhs)
        n == Unpack(rhs)
    IN  IF op = "/" /\ n # 0 /\ (IsBoxed(lhs) \/ IsBoxed(rhs)) THEN Undefined
        ELSE Machine(op, m, n)
EvalNeg(v) == IntegerValue(Wrap(-Unpack(v)))
EvalBitnot(v) == IntegerValue(-Unpack(v) - 1)

(* eval_eq: the same word; else two packed numbers of which one is a       *)
(* float, or two objects, are compared as numbers.                         *)
EvalEq(lhs, rhs) ==
    CASE lhs = rhs -> TRUE
      [] IsBoxed(lhs) \/ IsBoxed(rhs) -> IsBoxed(lhs) /\ IsBoxed(rhs) /\ lhs.w = rhs.w
      [] OTHER -> IsFloat(lhs) # IsFloat(rhs) /\ Beside(lhs, rhs) = Beside(rhs, lhs)
EqualI(lhs, i) == ~IsBoxed(lhs) /\ Unpack(lhs) = IF IsFloat(lhs) THEN AsFloat(i) ELSE i
EvalCompare(lhs, rhs) ==
    CASE Beside(lhs, rhs) < Beside(rhs, lhs) -> -1
      [] Beside(lhs, rhs) > Beside(rhs, lhs) -> 1
      [] OTHER -> 0
EvalCmp(op, lhs, rhs) ==
    LET m == Beside(lhs, rhs)
        n == Beside(rhs, lhs)
    IN  CASE op = ">=" -> m >= n
          [] op = ">" -> m > n
          [] op = "<=" -> m =< n
          [] op = "<" -> m < n

(* Integer#times, upto and step: the integers the block is given.          *)
(* The end of the range that upto walks wraps.                             *)
Upto(start, last) ==
    LET stop == IF start =< last THEN Wrap(last + 1) ELSE start
    IN  [i \in 1 .. stop - start |-> start + i - 1]
TimesTo(num) == Upto(0, num - 1)
Beyond(i, limit, step) == (step > 0 /\ i > limit) \/ (step < 0 /\ limit > i)
(* The addition of the step wraps.                                         *)
StepsTo[i \in Int, limit \in Int, step \in Int, bound \in Nat] ==
    IF bound = 0 \/ Beyond(i, limit, step) THEN <<>>
    ELSE <<i>> \o StepsTo[Wrap(i + step), limit, step, bound - 1]
Step(start, limit, step) == StepsTo[start, limit, step, 2 ^ Width]

----------------------------------------------------------------------------
(* The operators of Ruby.                                                  *)
BinaryOperators == {"+", "-", "*", "**", "/", "div", "%", "<<", ">>", "&", "|", "^", "[]"}
Shifted(m, n) == IF n < 0 THEN m \div 2 ^ (-n) ELSE m * 2 ^ n
HasBits(r, m, n, Op(_, _)) ==
    \A k \in 0 .. Width : BitOf(r, k) = 1 <=> Op(BitOf(m, k) = 1, BitOf(n, k) = 1)
Representable == -(2 ^ (Width - 1)) .. 2 ^ (Width - 1) - 1
IsResult(op, m, n, r) ==
    CASE op = "+" -> r = m + n
      [] op = "-" -> r + n = m
      [] op = "*" -> r = m * n
      [] op = "**" -> r = Raised(m, n)
      [] op \in {"/", "div"} -> r = Floored(m, n)
      [] op = "%" -> (m - r) % Magnitude(n) = 0 /\ (r = 0 \/ (r < 0) = (n < 0)) /\ Magnitude(r) < Magnitude(n)
      [] op = "<<" -> r = Shifted(m, n)
      [] op = ">>" -> r = Shifted(m, -n)
      [] op = "&" -> HasBits(r, m, n, LAMBDA a, b : a /\ b)
      [] op = "|" -> HasBits(r, m, n, LAMBDA a, b : a \/ b)
      [] op = "^" -> HasBits(r, m, n, LAMBDA a, b : a # b)
      [] op = "[]" -> r = IF n < 0 THEN 0 ELSE BitOf(m, n)
IsDivision(op) == op \in {"/", "div", "%"}

(* What the code makes otherwise: it wraps, truncates or takes the         *)
(* Euclidean quotient, has no "/" for objects of the heap, panics, and     *)
(* never shifts the other way.                                             *)
OddOperation(op, m, n, boxed) ==
    \/ op = "**" /\ n < 0                    \* not an integer
    \/ IsDivision(op) /\ n = 0 /\ op = "%"
    \/ ~(IsDivision(op) /\ n = 0) /\ ~\E r \in Representable : IsResult(op, m, n, r)
    \/ op = "/" /\ n # 0 /\ (boxed \/ Truncated(m, n) # Floored(m, n))
    \/ op = "div" /\ n # 0 /\ Euclid(m, n) # Floored(m, n)
    \/ op = "%" /\ Overflows(m, n)
    \/ op \in {"<<", ">>"} /\ n \notin 0 .. Width - 1
    \/ op = "[]" /\ n >= Width /\ m < 0

(* A number has one form: EvalEq and the tables of hashes rely on it.      *)
IsCanonical(v) == (v.k = "fix") <=> (v.k # "flo" /\ Unpack(v) \in -(2 ^ (Width - 2)) .. 2 ^ (Width - 2) - 1)
Holds(v, n) == Unpack(v) = n /\ ~IsFloat(v) /\ IsCanonical(v)

(* An integer that a float cannot hold equals its neighbours when it is    *)
(* compared with a float.                                                  *)
OddComparison(lhs, rhs) == Beside(lhs, rhs) # Unpack(lhs) \/ Beside(rhs, lhs) # Unpack(rhs)

(* Operators, comparisons and loops of integers do what Ruby's do, and     *)
(* leave each number in its one form; the comparisons agree with one       *)
(* another whatever is rounded.                                            *)
ArithmeticLikeRuby(lhs, rhs) ==
    LET m == Unpack(lhs)
        n == Unpack(rhs)
        boxed == IsBoxed(lhs) \/ IsBoxed(rhs)
        integers == ~IsFloat(lhs) /\ ~IsFloat(rhs)
        alike == IrregularNumbers \/ integers \/ ~boxed        \* or an object is compared with a float
        Works(op) == IrregularNumbers \/ ~OddOperation(op, m, n, boxed)
    IN  /\ integers => \A op \in {o \in BinaryOperators : Works(o)} :
              IF IsDivision(op) /\ n = 0 THEN EvalOp(op, lhs, rhs) = ZeroDivision
              ELSE \E r \in Representable : IsResult(op, m, n, r) /\ Holds(EvalOp(op, lhs, rhs), r)
        /\ alike => /\ EvalEq(lhs, rhs) = (EvalCompare(lhs, rhs) = 0)
                    /\ EvalCmp("<", lhs, rhs) = (EvalCompare(lhs, rhs) = -1)
                    /\ EvalCmp("<=", lhs, rhs) = (EvalCmp("<", lhs, rhs) \/ EvalEq(lhs, rhs))
                    /\ EvalCmp(">", lhs, rhs) = (EvalCmp(">=", lhs, rhs) /\ ~EvalEq(lhs, rhs))
                    /\ IrregularNumbers \/ ~OddComparison(lhs, rhs) =>
                          /\ EvalEq(lhs, rhs) = (m = n)
                          /\ EvalCmp("<", lhs, rhs) = (m < n)
        /\ rhs.k = "fix" => EqualI(lhs, n) = EvalEq(lhs, rhs)
        /\ integers => EvalNeg(lhs) = EvalOp("+", EvalBitnot(lhs), IntegerValue(1))
StepsLikeRuby(start, limit, step) ==
    LET rounds == IF Beyond(start, limit, step) THEN 0 ELSE Floored(limit - start, step) + 1
        walked == [i \in 1 .. rounds |-> start + (i - 1) * step]
    IN  start + rounds * step \in Representable \/ IrregularNumbers =>
              /\ Step(start, limit, step) = walked
              /\ step = 1 => Upto(start, limit) = walked
              /\ step = 1 /\ start = 0 => TimesTo(limit + 1) = walked
=============================================================================
