----------------------------- MODULE Evaluator -----------------------------
(***************************************************************************)
(* The evaluator of size expressions (precursors/mkc.c 664-786): a stack   *)
(* of operands and one of operators, no precedence, from right to left.    *)
(* Its variables are static: what one expression leaves, the next finds.   *)
(*                                                                         *)
(* A token is a number [t |-> "num", n |-> its value] or a symbol          *)
(* [t |-> the symbol, n |-> 0].  The operands are the live part of arg[];  *)
(* a parenthesis that is taken off pops two of them and puts them back,    *)
(* reading below arg[0] when there is but one, and using neither.  Words   *)
(* are WordBits wide.                                                      *)
(***************************************************************************)
EXTENDS Bits

VARIABLES
    expr,       \* what is left of the expression
    sta,        \* 1 where an operator is expected
    arg, ops,   \* operands and operators
    par,        \* open parentheses
    val,        \* the value returned
    eval        \* "idle", "busy", "ok" or "error"

evalVars == <<expr, sta, arg, ops, par, val, eval>>

EvalInit ==
    /\ expr = <<>> /\ sta = 0 /\ arg = <<>> /\ ops = <<>> /\ par = 0
    /\ val = 0 /\ eval = "idle"

Operators == {"+", "-", "*", "/", "<", ">", "|", "&", "^", "%", "#"}

\* Shift counts are taken modulo the width, as the processor does.
Shifted(b, a) == b * 2 ^ (a % WordBits)

RECURSIVE upow(_, _, _)
upow(b, e, r) ==
    IF e = 0 THEN r
    ELSE upow((b * b) % Word, e \div 2, IF e % 2 = 1 THEN (r * b) % Word ELSE r)

\* The operand pushed last is a.
Value(o, b, a) ==
    CASE o = "+" -> b + a
      [] o = "-" -> b - a
      [] o = "*" -> b * a
      [] o = "/" -> b \div a
      [] o = "<" -> Shifted(b, a)
      [] o = ">" -> b \div 2 ^ (a % WordBits)
      [] o = "|" -> b | a
      [] o = "&" -> b & a
      [] o = "^" -> b ^^ a
      [] o = "%" -> b % a
      [] o = "#" -> upow(b, a, 1)

\* A dividend of zero is refused like a divisor of zero.
Defined(o, b, a) == o \in {"/", "%"} => a # 0 /\ b # 0

Failed == [ok |-> FALSE, arg |-> <<>>, ops |-> <<>>, o |-> "none"]

\* A mutant: the operands change places.
OperateSwapped(a, o) ==
    Append(Front(Front(a)), Value(o, a[Len(a)], a[Len(a) - 1]) % Word)

Operate(a, o) == Append(Front(Front(a)), Value(o, a[Len(a) - 1], a[Len(a)]) % Word)

\* oeva: one operator is taken off and done.
Oeva(a, p) ==
    IF p = <<>> THEN Failed
    ELSE IF Last(p) = "("
    THEN [ok |-> a # <<>>, arg |-> a, ops |-> Front(p), o |-> "("]
    ELSE IF Len(a) < 2 THEN Failed
    ELSE IF ~Defined(Last(p), a[Len(a) - 1], a[Len(a)]) THEN Failed
    ELSE [ok |-> TRUE, arg |-> Operate(a, Last(p)), ops |-> Front(p), o |-> Last(p)]

\* peva: until the parenthesis.
RECURSIVE Peva(_, _)
Peva(a, p) ==
    LET r == Oeva(a, p)
    IN  IF ~r.ok \/ r.o = "(" THEN r ELSE Peva(r.arg, r.ops)

RECURSIVE ReduceAll(_, _)
ReduceAll(a, p) ==
    LET r == Oeva(a, p)
    IN  IF Len(a) < 2 THEN [ok |-> TRUE, arg |-> a, ops |-> p, o |-> "none"]
        ELSE IF ~r.ok THEN r ELSE ReduceAll(r.arg, r.ops)

Busy == eval = "busy" /\ expr # <<>>
Next1 == expr' = Tail(expr)
EvalFails == eval' = "error" /\ UNCHANGED <<expr, sta, arg, ops, par, val>>

\* Where a number is expected, everything but "(" is read as one; what is no
\* number is 0.
PushOperand ==
    /\ Busy /\ sta = 0 /\ Head(expr).t # "("
    /\ arg' = Append(arg, Head(expr).n % Word)
    /\ sta' = 1
    /\ Next1
    /\ UNCHANGED <<ops, par, val, eval>>

PushParenthesis ==
    /\ Busy /\ Head(expr).t = "("
    /\ ops' = Append(ops, "(")
    /\ par' = par + 1
    /\ sta' = 0
    /\ Next1
    /\ UNCHANGED <<arg, val, eval>>

PushOperator ==
    /\ Busy /\ sta = 1 /\ Head(expr).t \in Operators
    /\ ops' = Append(ops, Head(expr).t)
    /\ sta' = 0
    /\ Next1
    /\ UNCHANGED <<arg, par, val, eval>>

CloseParenthesis ==
    LET r == Peva(arg, ops)
    IN  /\ Busy /\ sta = 1 /\ Head(expr).t = ")"
        /\ par >= 1 /\ r.ok
        /\ arg' = r.arg /\ ops' = r.ops /\ par' = par - 1
        /\ Next1
        /\ UNCHANGED <<sta, val, eval>>

BadToken ==
    /\ Busy /\ sta = 1
    /\ \/ Head(expr).t = "num"
       \/ Head(expr).t = ")" /\ (par < 1 \/ ~Peva(arg, ops).ok)
    /\ EvalFails

Conclude ==
    LET r == ReduceAll(arg, ops)
        good == r.ok /\ r.ops = <<>> /\ Len(r.arg) = 1
    IN  /\ eval = "busy" /\ expr = <<>>
        /\ IF good THEN eval' = "ok" /\ val' = r.arg[1] ELSE eval' = "error" /\ val' = 0
        /\ arg' = <<>> /\ ops' = r.ops
        /\ UNCHANGED <<expr, sta, par>>

EvalNext ==
    \/ PushOperand \/ PushParenthesis \/ PushOperator
    \/ CloseParenthesis \/ BadToken \/ Conclude

(***************************************************************************)
(* What an expression is, and its value, without stacks: a term, or a term *)
(* and an operator before an expression; a term is a number or an          *)
(* expression in parentheses.  The operators are those of arithmetic (673, *)
(* 674); -1 stands for the value that a division by zero does not have.    *)
(***************************************************************************)
Power(b, e) == FoldLeft(LAMBDA x, k : (x * b) % Word, 1, [k \in 1 .. e |-> k])

Arithmetic(o, b, a) ==
    CASE o = "<" -> b * 2 ^ a
      [] o = ">" -> b \div 2 ^ a
      [] o = "#" -> Power(b, a)
      [] OTHER   -> Value(o, b, a)

Divides(o) == o \in {"/", "%"}

Apply(o, b, a) ==
    IF -1 \in {a, b} \/ (Divides(o) /\ a = 0) THEN -1 ELSE Arithmetic(o, b, a) % Word

\* The places an expression that starts at i may end at, with its value, and
\* whether a dividend in it is zero.
RECURSIVE ExprEnds(_, _), TermEnds(_, _)
TermEnds(s, i) ==
    IF i > Len(s) THEN {}
    ELSE IF s[i].t = "num" THEN {<<i, s[i].n % Word, FALSE>>}
    ELSE IF s[i].t # "(" THEN {}
    ELSE {<<e[1] + 1, e[2], e[3]>> : e \in {x \in ExprEnds(s, i + 1) :
                                                x[1] < Len(s) /\ s[x[1] + 1].t = ")"}}

ExprEnds(s, i) ==
    LET terms == TermEnds(s, i)
        longer(t) ==
            IF t[1] + 1 > Len(s) THEN {}
            ELSE IF s[t[1] + 1].t \notin Operators THEN {}
            ELSE LET o == s[t[1] + 1].t
                 IN  {<<e[1], Apply(o, t[2], e[2]), t[3] \/ e[3] \/ (Divides(o) /\ t[2] = 0)>> :
                        e \in ExprEnds(s, t[1] + 2)}
    IN  terms \cup UNION {longer(t) : t \in terms}

Whole(s) == {e \in ExprEnds(s, 1) : e[1] = Len(s)}
WellFormed(s) == Whole(s) # {}
Meaning(s) == (CHOOSE e \in Whole(s) : TRUE)[2]
ZeroDivided(s) == (CHOOSE e \in Whole(s) : TRUE)[3]
=============================================================================
