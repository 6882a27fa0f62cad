------------------------------ MODULE BigMath -------------------------------
(***************************************************************************)
(* The math commands of the script interpreter (src/src/script.c) on big   *)
(* numbers, and the Tcl objects that hold them.  An object has a text, a   *)
(* number, or both: each is made from the other when it is asked for, and  *)
(* a new value drops the old text.                                         *)
(*                                                                         *)
(* A script works on a variable x.  Every command is one step: nothing     *)
(* runs in between.  last records what the command was given, as integers, *)
(* and what it returned.                                                   *)
(***************************************************************************)
EXTENDS Bignum

CONSTANTS
  Literals,      \* [text, value, ok]: the texts of a script, and what they mean
  Limit,         \* bound: larger results are not kept in x
  PowerLimit,    \* bound: the base of a power without modulus
  Exponents,     \* bound: exponents
  RandomAtoms,   \* bound: what sbn_rand() returns
  MaxCommands    \* bound: commands of a script

VARIABLES x, last, n

vars == <<x, last, n>>

-----------------------------------------------------------------------------
(* Objects.  A representation that is missing is the empty sequence.       *)

Object(lit) == [text |-> <<lit.text>>, mpz |-> << >>, value |-> lit.value, ok |-> lit.ok]

\* SetMpzFromAny() keeps the number beside the text.
SetMpzFromAny(o) ==
  IF o.mpz # << >> \/ mpz_set_str(o.text[1]) = SBN_INVAL THEN o
  ELSE [o EXCEPT !.mpz = <<mpz_set_str(o.text[1])>>]

Tcl_GetMpzFromObj(o) ==
  LET p == SetMpzFromAny(o) IN IF p.mpz = << >> THEN SBN_INVAL ELSE p.mpz[1]

UpdateStringOfMpz(o) ==
  IF o.text # << >> THEN o ELSE [o EXCEPT !.text = <<mpz_get_str(o.mpz[1])>>]

\* A bug: the text of the old value stays.
Tcl_SetMpzObj_Stale(o, val, value) ==
  [o EXCEPT !.mpz = <<mpz_set(mpz_init, val)>>, !.value = value]

Tcl_SetMpzObj(o, val, value) ==
  [o EXCEPT !.text = << >>, !.mpz = <<mpz_set(mpz_init, val)>>, !.value = value]

-----------------------------------------------------------------------------
(* Commands.                                                               *)

BasicStep(cmd, res, t) ==
  IF SBN_INVAL \in {res, t} THEN SBN_INVAL
  ELSE CASE cmd = "+" -> mpz_add(res, t)
         [] cmd = "-" -> mpz_sub(res, t)
         [] cmd = "*" -> mpz_mul(res, t)
         [] cmd = "/" -> mpz_tdiv_q(res, t)
         [] cmd = "%" -> mpz_mod(res, t)

FirstIsStart(cmd, nums) == cmd \in {"/", "%", "-"} /\ nums # << >>

\* res before the loop: the first operand, or the neutral element.
BasicStart(cmd, nums) ==
  IF ~FirstIsStart(cmd, nums)
  THEN IF cmd \in {"*", "/"} THEN mpz_set_ui(mpz_setzero(mpz_init), 1) ELSE mpz_setzero(mpz_init)
  ELSE IF nums[1] = SBN_INVAL THEN SBN_INVAL
  ELSE IF cmd = "-" /\ Len(nums) = 1
       THEN [mpz_set(mpz_setzero(mpz_init), nums[1]) EXCEPT !.s = 1 - @]
       ELSE mpz_set(mpz_setzero(mpz_init), nums[1])

BigBasicObjCmd(cmd, nums) ==
  LET rest == IF FirstIsStart(cmd, nums) THEN Tail(nums) ELSE nums
      res[k \in 0 .. Len(rest)] ==
        IF k = 0 THEN BasicStart(cmd, nums) ELSE BasicStep(cmd, res[k - 1], rest[k])
  IN  res[Len(rest)]

BigPowObjCmd(nums) ==
  IF SBN_INVAL \in {nums[k] : k \in DOMAIN nums} THEN SBN_INVAL
  ELSE IF Len(nums) = 3 THEN mpz_powm(nums[1], nums[2], nums[3])
  ELSE mpz_pow(nums[1], nums[2])

BigCmpObjCmd(cmd, a, b) ==
  LET cmp == mpz_cmp(a, b)
  IN  CASE cmd = ">=" -> cmp >= 0 [] cmd = ">"  -> cmp > 0
        [] cmd = "<=" -> cmp <= 0 [] cmd = "<"  -> cmp < 0
        [] cmd = "==" -> cmp = 0  [] cmd = "!=" -> cmp # 0

\* len atoms of the generator; a negative len asks for a negative number.
mpz_random(len, atoms) ==
  LET k == IF len < 0 THEN -len ELSE len
  IN  IF k = 0 THEN mpz_setzero(mpz_init)
      ELSE [NormalizeLength([mpz_realloc(mpz_init, k - 1) EXCEPT !.d = SubSeq(atoms, 1, k)])
              EXCEPT !.s = IF len < 0 THEN 1 ELSE 0]

-----------------------------------------------------------------------------
(* What a number, and a command, mean on the integers.                     *)

Abs(v) == IF v < 0 THEN -v ELSE v

\* The atoms in use, from the k-th on, are a number in base MPZ_BASE.
Magnitude(d, l) ==
  LET from[k \in 1 .. l + 1] == IF k = l + 1 THEN 0 ELSE d[k] + MPZ_BASE * from[k + 1]
  IN  from[1]

Value(z) == (IF z.s = 1 THEN -1 ELSE 1) * Magnitude(z.d, z.l)

\* What the texts of a script are read as, and that the generator fills atoms.
ASSUME InputsAssumption ==
  /\ \A lit \in Literals :
        /\ lit.text \in Seq(STRING) /\ lit.value \in Int
        /\ lit.ok = (mpz_set_str(lit.text) # SBN_INVAL)
        /\ lit.ok => Value(mpz_set_str(lit.text)) = lit.value
  /\ RandomAtoms \subseteq 0 .. MPZ_BASE - 1

Quotient(a, b) == (IF (a < 0) = (b < 0) THEN 1 ELSE -1) * (Abs(a) \div Abs(b))

\* b to the power e, and its residue modulo m.
IntegerPower(b, e) ==
  LET power[k \in 0 .. e] == IF k = 0 THEN 1 ELSE b * power[k - 1]
  IN  power[e]

Residue(b, e, m) ==
  LET power[k \in 0 .. e] == IF k = 0 THEN 1 % m ELSE (b * power[k - 1]) % m
  IN  power[e]

\* Whether the command has a result, and which.
Defined(cmd, v) ==
  CASE cmd \in {"/", "%"} -> 0 \notin {v[k] : k \in 2 .. Len(v)}
    [] cmd = "**" -> v[2] >= 0 /\ (Len(v) = 3 => v[3] # 0)
    [] OTHER -> TRUE

Apply(cmd, a, b) ==
  CASE cmd = "+" -> a + b [] cmd = "-" -> a - b [] cmd = "*" -> a * b
    [] cmd = "/" -> Quotient(a, b)
    [] cmd = "%" -> a % Abs(b)

\* A command goes from left to right, a sum from 0 and a product from 1.
FoldFrom(cmd, start, v) == FoldLeft(LAMBDA a, b : Apply(cmd, a, b), start, v)

Neutral(cmd) == IF cmd \in {"*", "/"} THEN 1 ELSE 0

Meaning(cmd, v) ==
  CASE cmd = "**" -> IF Len(v) = 2 THEN IntegerPower(v[1], v[2])
                     ELSE Residue(v[1], v[2], Abs(v[3]))
    [] cmd \in {"+", "*"} -> FoldFrom(cmd, Neutral(cmd), v)
    [] cmd \in {"-", "/", "%"} -> IF v = << >> THEN Neutral(cmd)
                                 ELSE IF cmd = "-" /\ Len(v) = 1 THEN -v[1]
                                 ELSE FoldFrom(cmd, Head(v), Tail(v))

-----------------------------------------------------------------------------
(* Scripts.                                                                *)

Operators == {"+", "-", "*", "/", "%"}
Comparisons == {">", ">=", "<", "<=", "==", "!="}

Words == {Object(lit) : lit \in Literals}

\* The operands of a command, x among them.
Operands ==
  {<<x>>, <<x, x>>} \cup {<<x, w>> : w \in Words} \cup {<<w, x>> : w \in Words}

Numbers(args) == [k \in DOMAIN args |-> Tcl_GetMpzFromObj(args[k])]
Values(args)  == [k \in DOMAIN args |-> args[k].value]
Legal(args)   == \A k \in DOMAIN args : args[k].ok

\* set x [cmd ..]: x keeps its value when the command fails.
Store(cmd, args, out) ==
  /\ n' = n + 1
  /\ last' = [cmd |-> cmd, args |-> Values(args), legal |-> Legal(args),
              out |-> IF out = SBN_INVAL THEN << >> ELSE <<Value(out)>>]
  /\ x' = IF out = SBN_INVAL \/ Abs(Value(out)) > Limit THEN SetMpzFromAny(x)
          ELSE Tcl_SetMpzObj(x, out, Value(out))

Basic ==
  \E cmd \in Operators : \E args \in Operands \cup {<< >>} :
     Store(cmd, args, BigBasicObjCmd(cmd, Numbers(args)))

Pow ==
  /\ \/ \E w \in Words :
          /\ Abs(x.value) <= PowerLimit /\ w.value \in Exponents
          /\ Store("**", <<x, w>>, BigPowObjCmd(Numbers(<<x, w>>)))
     \/ \E w, m \in Words :
          /\ w.value \in Exponents
          /\ Store("**", <<x, w, m>>, BigPowObjCmd(Numbers(<<x, w, m>>)))

Compare ==
  \E cmd \in Comparisons : \E args \in Operands :
     /\ Len(args) = 2
     /\ last' = [cmd |-> cmd, args |-> Values(args), legal |-> Legal(args),
                 out |-> IF SBN_INVAL \in {Numbers(args)[k] : k \in 1 .. 2} THEN << >>
                         ELSE <<BigCmpObjCmd(cmd, Numbers(args)[1], Numbers(args)[2])>>]
     /\ x' = SetMpzFromAny(x)
     /\ n' = n + 1

Random ==
  \E len \in {-2, 0, 1} : \E atoms \in [1 .. 2 -> RandomAtoms] :
     Store("rand", << >>, mpz_random(len, atoms))

\* puts $x
Show ==
  /\ x' = UpdateStringOfMpz(x)
  /\ UNCHANGED <<last, n>>

Nothing == [cmd |-> "none", args |-> << >>, legal |-> TRUE, out |-> << >>]

Init ==
  /\ x \in {w \in Words : w.ok}
  /\ last = Nothing
  /\ n = 0

Next == (n < MaxCommands /\ (Basic \/ Pow \/ Compare \/ Random)) \/ Show

Spec == Init /\ [][Next]_vars

-----------------------------------------------------------------------------
(* Properties.                                                             *)

\* Numbers are kept normalized, and the storage beyond the atoms in use is zero, which the
\* carry of mpz_addi_raw() and mpz_normalize() count on (sbignum.c, "a global assumption").
WellFormed ==
  \A z \in {x.mpz[k] : k \in DOMAIN x.mpz} :
     /\ z.s \in {0, 1} /\ z.l \in 0 .. Len(z.d)
     /\ \A k \in DOMAIN z.d : z.d[k] \in 0 .. MPZ_BASE - 1 /\ (k > z.l => z.d[k] = 0)
     /\ z.l > 0 => z.d[z.l] # 0

\* The cases in which the library and the integers part: a quotient of equal magnitudes, a
\* negative dividend or base, and the exponent 0.
Exceptional(cmd, v) ==
  \/ cmd = "/" /\ Len(v) = 2 /\ Abs(v[1]) = Abs(v[2])
  \/ cmd = "%" /\ Len(v) = 2 /\ v[1] < 0
  \/ cmd = "**" /\ (v[2] = 0 \/ (Len(v) = 3 /\ v[1] < 0))

\* Apart from these, a command returns what it means on the integers, whatever its operands
\* went through before, and fails exactly when an operand is no number or the result is not
\* defined: carries, borrows, long division and squaring lose nothing (sbignum.c).
Arithmetic ==
  last.cmd \in Operators \cup {"**"} =>
     LET v == last.args
     IN  IF last.legal /\ Defined(last.cmd, v)
         THEN ~Exceptional(last.cmd, v) => last.out = <<Meaning(last.cmd, v)>>
         ELSE last.out = << >>

\* Comparisons order numbers as integers are ordered, a zero with a sign included (mpz_cmp()).
Ordered ==
  last.cmd \in Comparisons /\ last.legal =>
     LET a == last.args[1]
         b == last.args[2]
     IN  last.out = <<CASE last.cmd = ">=" -> a >= b [] last.cmd = ">"  -> a > b
                        [] last.cmd = "<=" -> a <= b [] last.cmd = "<"  -> a < b
                        [] last.cmd = "==" -> a = b  [] last.cmd = "!=" -> a # b>>

\* The two representations of an object agree, and a text that was printed is read back as
\* the same number (the dual objects of script.c, mpz_get_str() and mpz_set_str()).
FormsAgree ==
  /\ x.mpz # << >> => Value(x.mpz[1]) = x.value
  /\ x.text # << >> => Value(mpz_set_str(x.text[1])) = x.value

\* Division is exact: violated.  sbignum.c says of mpz_tdiv_qr() that the sign of the quotient
\* "is the xor of the two sings" and of the remainder "is the sign of the divident".
DivisionExact ==
  last.cmd \in {"/", "%"} /\ last.legal /\ Defined(last.cmd, last.args) =>
     last.out = <<Meaning(last.cmd, last.args)>>

=============================================================================
