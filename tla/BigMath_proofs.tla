---------------------------- MODULE BigMath_proofs ----------------------------
(***************************************************************************)
(* The commands of a script over big numbers: what they are given and what *)
(* they answer is normalized, every result is the exact one, and a number  *)
(* and its text say the same, for atoms of every width.                    *)
(***************************************************************************)
EXTENDS Bignum_proofs

-----------------------------------------------------------------------------
(* Commands.                                                               *)

\* One operand more: the command goes on failing, or has a normalized number.
LEMMA BasicStepIs ==
  ASSUME NEW cmd \in Operators, NEW r, Result(r), NEW t, Result(t)
  PROVE  Result(BasicStep(cmd, r, t))
<1>1. CASE SBN_INVAL \in {r, t}
  BY <1>1 DEF BasicStep, Result
<1>2. CASE SBN_INVAL \notin {r, t}
  <2>1. Normal(r) /\ Normal(t)
    BY <1>2 DEF Result
  <2>2. cmd \in {"+", "-", "*", "/", "%"}
    BY DEF Operators
  <2>3. CASE cmd = "+"
    <3>1. BasicStep(cmd, r, t) = mpz_add(r, t)
      BY <1>2, <2>3 DEF BasicStep
    <3> QED
      BY <2>1, <3>1, SignedAddition DEF Result
  <2>4. CASE cmd = "-"
    <3>1. BasicStep(cmd, r, t) = mpz_sub(r, t)
      BY <1>2, <2>4 DEF BasicStep
    <3> QED
      BY <2>1, <3>1, SignedSubtraction DEF Result
  <2>5. CASE cmd = "*"
    <3>1. BasicStep(cmd, r, t) = mpz_mul(r, t)
      BY <1>2, <2>5 DEF BasicStep
    <3> QED
      BY <2>1, <3>1, SignedMultiplication DEF Result
  <2>6. CASE cmd = "/"
    <3>1. BasicStep(cmd, r, t) = mpz_tdiv_q(r, t)
      BY <1>2, <2>6 DEF BasicStep
    <3>2. mpz_tdiv_q(r, t) = SBN_INVAL \/ Normal(mpz_tdiv_q(r, t))
      BY <2>1, QuotientExact
    <3> QED
      BY <3>1, <3>2 DEF Result
  <2>7. CASE cmd = "%"
    <3>1. BasicStep(cmd, r, t) = mpz_mod(r, t)
      BY <1>2, <2>7 DEF BasicStep
    <3>2. mpz_mod(r, t) = SBN_INVAL \/ Normal(mpz_mod(r, t))
      BY <2>1, ModuloExact
    <3> QED
      BY <3>1, <3>2 DEF Result
  <2> QED
    BY <2>2, <2>3, <2>4, <2>5, <2>6, <2>7
<1> QED
  BY <1>1, <1>2

\* What the operands of a command are.
Arguments == Numeral \cup {SBN_INVAL}

\* A set of the operands that Result() tells.
LEMMA ArgumentsAre ==
  \A t : t \in Arguments <=> Result(t)
BY NumeralIs DEF Arguments, Result

\* The first operand, or the neutral element, is normalized.
LEMMA BasicStartIs ==
  ASSUME NEW cmd \in Operators, NEW nums \in Seq(Arguments)
  PROVE  Result(BasicStart(cmd, nums))
<1> DEFINE zero == mpz_setzero(mpz_init)
           a == nums[1]
           b == mpz_set(zero, a)
           w == [b EXCEPT !.s = 1 - @]
<1>1. Normal(zero) /\ Clean(zero)
  BY InitNormal, SetZeroIs DEF Normal
<1>2. 1 \in Digit
  BY BaseFacts DEF Digit
<1>3. Normal(mpz_set_ui(zero, 1))
  BY <1>1, <1>2, SetUiIs
<1>4. CASE ~FirstIsStart(cmd, nums)
  BY <1>1, <1>3, <1>4 DEF BasicStart, Result
<1>5. CASE FirstIsStart(cmd, nums) /\ a = SBN_INVAL
  BY <1>5 DEF BasicStart, Result
<1>6. CASE FirstIsStart(cmd, nums) /\ a # SBN_INVAL
  <2>1. Normal(a)
    <3>1. nums # << >>
      BY <1>6 DEF FirstIsStart
    <3>2. 1 \in 1 .. Len(nums)
      BY <3>1, LenProperties, EmptySeq
    <3>3. a \in Arguments
      BY <3>2, ElementOfSeq
    <3> QED
      BY <1>6, <3>3, ArgumentsAre DEF Result
  <2> HIDE DEF zero
  <2>2. Normal(b)
    BY <1>1, <2>1, SetCopies DEF Normal
  <2>3. b.s \in {0, 1}
    BY <2>2, CleanType DEF Normal
  <2> DEFINE s == 1 - b.s
  <2>4. s \in {0, 1} /\ w = [b EXCEPT !.s = s]
    BY <2>3
  <2>5. BasicStart(cmd, nums) = IF cmd = "-" /\ Len(nums) = 1 THEN w ELSE b
    BY <1>6 DEF BasicStart, zero
  <2> HIDE DEF s, w, b, a
  <2>6. Normal(w)
    BY <2>2, <2>4, SignUpdate
  <2> QED
    BY <2>2, <2>5, <2>6 DEF Result
<1> QED
  BY <1>4, <1>5, <1>6

\* F is the history of the loop of BigBasicObjCmd().
BasicHistory(F, cmd, nums) ==
  LET rest == IF FirstIsStart(cmd, nums) THEN Tail(nums) ELSE nums
  IN  /\ F[0] = BasicStart(cmd, nums)
      /\ \A k \in 1 .. Len(rest) : F[k] = BasicStep(cmd, F[k - 1], rest[k])
      /\ BigBasicObjCmd(cmd, nums) = F[Len(rest)]

\* BigBasicObjCmd() fails, or returns a normalized number.
LEMMA BasicIs ==
  ASSUME NEW cmd \in Operators, NEW nums \in Seq(Arguments)
  PROVE  Result(BigBasicObjCmd(cmd, nums)) /\ \E F : BasicHistory(F, cmd, nums)
<1> DEFINE rest == IF FirstIsStart(cmd, nums) THEN Tail(nums) ELSE nums
           m == Len(rest)
           V == Arguments
           base == BasicStart(cmd, nums)
           Op(v, k) == BasicStep(cmd, v, rest[k])
           Eqn(f) == f = [k \in 0 .. m |-> IF k = 0 THEN base ELSE Op(f[k - 1], k)]
           F == CHOOSE f : Eqn(f)
           step == [i \in 1 .. m |-> [v \in V |-> Op(v, i)]]
<1>1. BigBasicObjCmd(cmd, nums) = F[m]
  BY DEF BigBasicObjCmd
<1>2. rest \in Seq(Arguments)
  <2>1. FirstIsStart(cmd, nums) => nums # << >>
    BY DEF FirstIsStart
  <2>2. nums # << >> => Tail(nums) \in Seq(Arguments)
    BY HeadTailProperties
  <2> QED
    BY <2>1, <2>2
<1> HIDE DEF rest
<1>3. m \in Nat /\ \A i \in 1 .. m : Result(rest[i])
  <2>1. m \in Nat /\ \A i \in 1 .. m : rest[i] \in Arguments
    BY <1>2, LenProperties, ElementOfSeq
  <2> QED
    BY <2>1, ArgumentsAre
<1>4. base \in V
  BY BasicStartIs, ArgumentsAre
<1>5. \A i \in 1 .. m : \A v \in V : Op(v, i) \in V
  <2>1. ASSUME NEW i \in 1 .. m, NEW v \in V PROVE Op(v, i) \in V
    <3>1. Result(v) /\ Result(rest[i])
      BY <1>3, ArgumentsAre
    <3>2. Result(BasicStep(cmd, v, rest[i]))
      BY <3>1, BasicStepIs
    <3> QED
      BY <3>2, ArgumentsAre
  <2> QED
    BY <2>1
<1> HIDE DEF Op, base, V
<1>6. step \in [1 .. m -> [V -> V]]
  BY <1>5
<1> HIDE DEF step, m
<1>7. PICK f \in [0 .. m -> V] : Iterates(f, base, m, step)
  BY <1>3, <1>4, <1>6, Recursion
<1>8. Eqn(f)
  <2>1. ASSUME NEW k \in 0 .. m
        PROVE  f[k] = IF k = 0 THEN base ELSE Op(f[k - 1], k)
    <3>1. CASE k = 0
      BY <1>7, <3>1 DEF Iterates
    <3>2. CASE k # 0
      <4>1. k \in 1 .. m /\ k - 1 \in 0 .. m
        BY <1>3, <3>2
      <4>2. f[k] = step[k][f[k - 1]] /\ f[k - 1] \in V
        BY <1>7, <4>1 DEF Iterates
      <4>3. step[k][f[k - 1]] = Op(f[k - 1], k)
        BY <4>1, <4>2 DEF step
      <4> QED
        BY <3>2, <4>2, <4>3
    <3> QED
      BY <3>1, <3>2
  <2>2. f = [k \in 0 .. m |-> f[k]]
    BY <1>7
  <2> QED
    BY <2>1, <2>2
<1>9. Eqn(F)
  <2> HIDE DEF Eqn
  <2> QED
    BY <1>8
<1>10. F[0] = base /\ \A k \in 1 .. m : F[k] = Op(F[k - 1], k)
  <2>1. 0 \in 0 .. m /\ \A k \in 1 .. m : k \in 0 .. m /\ k # 0
    BY <1>3
  <2> HIDE DEF F
  <2> QED
    BY <1>9, <2>1
<1> HIDE DEF F, Eqn
<1>11. F[m] \in V
  <2> DEFINE S == {k \in Nat : F[k] \in V}
  <2>1. 0 \in S
    BY <1>4, <1>10
  <2>2. \A i \in 0 .. m - 1 : i \in S => i + 1 \in S
    <3>1. ASSUME NEW i \in 0 .. m - 1, i \in S PROVE i + 1 \in S
      <4>1. i + 1 \in 1 .. m /\ (i + 1) - 1 = i /\ i + 1 \in Nat
        BY <1>3
      <4>2. F[i + 1] = Op(F[i], i + 1) /\ F[i] \in V
        BY <1>10, <3>1, <4>1
      <4> QED
        BY <1>5, <4>1, <4>2
    <3> QED
      BY <3>1
  <2> HIDE DEF S
  <2>3. \A k \in 0 .. m : k \in S
    BY <1>3, <2>1, <2>2, UpTo
  <2>4. m \in 0 .. m
    BY <1>3
  <2> QED
    BY <2>3, <2>4 DEF S
<1>12. BasicHistory(F, cmd, nums)
  BY <1>1, <1>10 DEF BasicHistory, rest, m, base, Op
<1>13. Result(BigBasicObjCmd(cmd, nums))
  BY <1>1, <1>11, ArgumentsAre DEF V
<1> QED
  BY <1>12, <1>13

\* BigPowObjCmd() does.
LEMMA PowIs ==
  ASSUME NEW nums \in Seq(Arguments), Len(nums) \in {2, 3}
  PROVE  Result(BigPowObjCmd(nums))
<1>1. CASE SBN_INVAL \in {nums[k] : k \in DOMAIN nums}
  BY <1>1 DEF BigPowObjCmd, Result
<1>2. CASE SBN_INVAL \notin {nums[k] : k \in DOMAIN nums}
  <2>1. DOMAIN nums = 1 .. Len(nums)
    BY LenProperties
  <2>2. \A k \in 1 .. Len(nums) : Normal(nums[k])
    <3>1. \A k \in 1 .. Len(nums) : nums[k] \in Arguments /\ nums[k] # SBN_INVAL
      BY <1>2, <2>1, ElementOfSeq
    <3> QED
      BY <3>1, ArgumentsAre DEF Result
  <2>3. 1 \in 1 .. Len(nums) /\ 2 \in 1 .. Len(nums) /\ (Len(nums) = 3 => 3 \in 1 .. Len(nums))
    OBVIOUS
  <2>4. CASE Len(nums) = 3
    <3>1. BigPowObjCmd(nums) = mpz_powm(nums[1], nums[2], nums[3])
      BY <1>2, <2>4 DEF BigPowObjCmd
    <3>2. Normal(nums[1]) /\ Normal(nums[2]) /\ Normal(nums[3])
      BY <2>2, <2>3, <2>4
    <3> QED
      BY <3>1, <3>2, PowersAre
  <2>5. CASE Len(nums) # 3
    <3>1. BigPowObjCmd(nums) = mpz_pow(nums[1], nums[2])
      BY <1>2, <2>5 DEF BigPowObjCmd
    <3>2. Normal(nums[1]) /\ Normal(nums[2])
      BY <2>2, <2>3
    <3> QED
      BY <3>1, <3>2, PowersAre
  <2> QED
    BY <2>4, <2>5
<1> QED
  BY <1>1, <1>2

\* mpz_random() makes a normalized number, of as many atoms at most as it is asked for.
LEMMA RandomIs ==
  ASSUME NEW len \in {-2, 0, 1}, NEW atoms \in [1 .. 2 -> RandomAtoms]
  PROVE  Normal(mpz_random(len, atoms))
<1> DEFINE k == IF len < 0 THEN -len ELSE len
           d == SubSeq(atoms, 1, k)
           a == mpz_realloc(mpz_init, k - 1)
           b == [a EXCEPT !.d = d]
           c == NormalizeLength(b)
           s == IF len < 0 THEN 1 ELSE 0
           w == [c EXCEPT !.s = s]
<1>1. k \in {0, 1, 2}
  OBVIOUS
<1>2. mpz_random(len, atoms) = IF k = 0 THEN mpz_setzero(mpz_init) ELSE w
  BY DEF mpz_random
<1>3. CASE k = 0
  <2>1. Normal(mpz_setzero(mpz_init))
    BY InitNormal, SetZeroIs DEF Normal
  <2> QED
    BY <1>2, <1>3, <2>1
<1>4. CASE k # 0
  <2>1. \A i \in 1 .. k : atoms[i] \in Digit
    <3>1. \A i \in 1 .. k : i \in 1 .. 2
      BY <1>1
    <3>2. RandomAtoms \subseteq Digit
      BY InputsAssumption DEF Digit
    <3> HIDE DEF k
    <3> QED
      BY <3>1, <3>2
  <2> HIDE DEF k
  <2>2. d \in Seq(Digit)
    BY <1>1, <2>1, SubSeqProperties
  <2>3. Normal(a)
    <3>1. k - 1 \in Nat /\ Clean(mpz_init)
      BY <1>1, <1>4, InitNormal DEF Normal
    <3> QED
      BY <3>1, InitNormal, ReallocKeeps
  <2> HIDE DEF a, d
  <2>4. b \in [d : Seq(Digit), l : Nat, s : {0, 1}]
    <3>1. a \in [d : Seq(Digit), l : Nat, s : {0, 1}]
      BY <2>3 DEF Normal, Clean
    <3> QED
      BY <2>2, <3>1
  <2> HIDE DEF b
  <2>5. Normal(c)
    BY <2>4, NormalizeAny
  <2>6. s \in {0, 1}
    OBVIOUS
  <2> HIDE DEF c, s
  <2>7. Normal(w)
    BY <2>5, <2>6, SignUpdate
  <2> QED
    BY <1>2, <1>4, <2>7
<1> QED
  BY <1>3, <1>4

-----------------------------------------------------------------------------
(* Scripts.                                                                *)

\* An object whose number, where it is there, is normalized and is its value; where it is
\* not there, the object is a word of the script.
Known(o) ==
  /\ o = [text |-> o.text, mpz |-> o.mpz, value |-> o.value, ok |-> o.ok]
  /\ o.mpz = << >> => o \in Words
  /\ o.mpz # << >> =>
       o.mpz = <<o.mpz[1]>> /\ Normal(o.mpz[1]) /\ Value(o.mpz[1]) = o.value /\ o.ok

\* x always holds a number, and its representation is normalized.
NumberKept == Known(x) /\ x.ok

\* What a word is read as.
LEMMA WordIs ==
  ASSUME NEW o \in Words
  PROVE  /\ o = [text |-> o.text, mpz |-> << >>, value |-> o.value, ok |-> o.ok]
         /\ o.text # << >> /\ o.mpz = << >> /\ Result(mpz_set_str(o.text[1]))
         /\ o.ok = (mpz_set_str(o.text[1]) # SBN_INVAL)
         /\ o.ok => Value(mpz_set_str(o.text[1])) = o.value
<1>1. PICK lit \in Literals : o = Object(lit)
  BY DEF Words
<1>2. /\ lit.text \in Seq(STRING)
      /\ lit.ok = (mpz_set_str(lit.text) # SBN_INVAL)
      /\ lit.ok => Value(mpz_set_str(lit.text)) = lit.value
  BY InputsAssumption
<1>3. o = [text |-> <<lit.text>>, mpz |-> << >>, value |-> lit.value, ok |-> lit.ok]
  BY <1>1 DEF Object
<1>4. o.text = <<lit.text>> /\ o.mpz = << >> /\ o.value = lit.value /\ o.ok = lit.ok
  BY <1>3
<1>5. o.text # << >> /\ o.text[1] = lit.text
  BY <1>4
<1>6. Result(mpz_set_str(lit.text))
  <2>1. ASSUME NEW t \in Seq(STRING) PROVE t \in Seq(Char)
    <3>1. \A k \in 1 .. Len(t) : t[k] \in Char
      BY ElementOfSeq DEF Char
    <3>2. Len(t) \in Nat /\ t = [k \in 1 .. Len(t) |-> t[k]]
      BY LenProperties
    <3> QED
      BY <3>1, <3>2, FunctionSeq
  <2> QED
    BY <1>2, <2>1, SetStrIs
<1> QED
  BY <1>2, <1>3, <1>4, <1>5, <1>6

\* Every word of a script is known.
LEMMA WordsKnown ==
  \A o \in Words : Known(o)
<1> SUFFICES ASSUME NEW o \in Words PROVE Known(o)
  OBVIOUS
<1>1. o = [text |-> o.text, mpz |-> << >>, value |-> o.value, ok |-> o.ok] /\ o.mpz = << >>
  BY WordIs
<1> QED
  BY <1>1 DEF Known

\* Tcl_GetMpzFromObj() returns the number that the object stands for, or fails for a text
\* that is none; SetMpzFromAny() adds that number to the object.
LEMMA GetMpzIs ==
  ASSUME NEW o, Known(o)
  PROVE  /\ Result(Tcl_GetMpzFromObj(o))
         /\ o.ok => Normal(Tcl_GetMpzFromObj(o)) /\ Value(Tcl_GetMpzFromObj(o)) = o.value
         /\ Known(SetMpzFromAny(o)) /\ SetMpzFromAny(o).ok = o.ok
<1> DEFINE p == SetMpzFromAny(o)
           g == Tcl_GetMpzFromObj(o)
           t == mpz_set_str(o.text[1])
<1>1. g = IF p.mpz = << >> THEN SBN_INVAL ELSE p.mpz[1]
  BY DEF Tcl_GetMpzFromObj
<1>2. CASE o.mpz # << >>
  <2>1. p = o
    BY <1>2 DEF SetMpzFromAny
  <2>2. g = o.mpz[1]
    BY <1>1, <1>2, <2>1
  <2> HIDE DEF p, g
  <2> QED
    BY <1>2, <2>1, <2>2 DEF Known, Result, p, g
<1>3. CASE o.mpz = << >>
  <2>1. o \in Words
    BY <1>3 DEF Known
  <2>2. /\ o = [text |-> o.text, mpz |-> << >>, value |-> o.value, ok |-> o.ok]
        /\ Result(t) /\ o.ok = (t # SBN_INVAL) /\ (o.ok => Value(t) = o.value)
    BY <2>1, WordIs
  <2>3. p = IF t = SBN_INVAL THEN o ELSE [o EXCEPT !.mpz = <<t>>]
    BY <1>3 DEF SetMpzFromAny
  <2> HIDE DEF p, g, t
  <2>4. CASE t = SBN_INVAL
    <3>1. p = o /\ g = SBN_INVAL /\ ~o.ok
      BY <1>1, <1>3, <2>2, <2>3, <2>4
    <3> QED
      BY <3>1 DEF Result, p, g
  <2>5. CASE t # SBN_INVAL
    <3>1. Normal(t) /\ Value(t) = o.value /\ o.ok
      BY <2>2, <2>5 DEF Result
    <3>2. p = [text |-> o.text, mpz |-> <<t>>, value |-> o.value, ok |-> o.ok]
      <4>1. p = [o EXCEPT !.mpz = <<t>>]
        BY <2>3, <2>5
      <4> QED
        BY <2>2, <4>1
    <3>3. p.text = o.text /\ p.mpz = <<t>> /\ p.value = o.value /\ p.ok = o.ok
      BY <3>2
    <3>4. p.mpz # << >> /\ p.mpz[1] = t
      BY <3>3
    <3>5. g = t
      BY <1>1, <3>4
    <3>6. Known(p)
      BY <3>1, <3>2, <3>3, <3>4 DEF Known
    <3> QED
      BY <3>1, <3>3, <3>5, <3>6 DEF Result, p, g
  <2> QED
    BY <2>4, <2>5
<1> QED
  BY <1>2, <1>3

\* Tcl_SetMpzObj() replaces the number and drops the text.
LEMMA SetMpzObjIs ==
  ASSUME NEW o, Known(o), o.ok, NEW t, Normal(t)
  PROVE  Known(Tcl_SetMpzObj(o, t, Value(t))) /\ Tcl_SetMpzObj(o, t, Value(t)).ok
<1> DEFINE w == mpz_set(mpz_init, t)
           p == Tcl_SetMpzObj(o, t, Value(t))
           v == Value(t)
<1>1. Normal(w) /\ Value(w) = v
  BY InitNormal, SetCopies DEF Normal
<1>2. o = [text |-> o.text, mpz |-> o.mpz, value |-> o.value, ok |-> o.ok]
  BY DEF Known
<1>3. p = [o EXCEPT !.text = << >>, !.mpz = <<w>>, !.value = v]
  BY DEF Tcl_SetMpzObj
<1> HIDE DEF w, p, v
<1>4. p = [text |-> << >>, mpz |-> <<w>>, value |-> v, ok |-> o.ok]
  BY <1>2, <1>3
<1>5. p.text = << >> /\ p.mpz = <<w>> /\ p.value = v /\ p.ok = o.ok
  BY <1>4
<1>6. p.mpz # << >> /\ p.mpz[1] = w
  BY <1>5
<1>7. Known(p) /\ p.ok
  BY <1>1, <1>4, <1>5, <1>6 DEF Known
<1> QED
  BY <1>7 DEF p, v

\* The result of a command is stored, or x stays as it is.
LEMMA StoreKeeps ==
  ASSUME NumberKept, NEW cmd, NEW args, NEW t, Result(t), Store(cmd, args, t)
  PROVE  NumberKept'
<1>1. Known(x) /\ x.ok
  BY DEF NumberKept
<1>2. x' = IF t = SBN_INVAL \/ Abs(Value(t)) > Limit THEN SetMpzFromAny(x)
           ELSE Tcl_SetMpzObj(x, t, Value(t))
  BY DEF Store
<1>3. Known(SetMpzFromAny(x)) /\ SetMpzFromAny(x).ok
  BY <1>1, GetMpzIs
<1>4. t # SBN_INVAL => Known(Tcl_SetMpzObj(x, t, Value(t))) /\ Tcl_SetMpzObj(x, t, Value(t)).ok
  BY <1>1, SetMpzObjIs DEF Result
<1>5. Known(x') /\ x'.ok
  BY <1>2, <1>3, <1>4
<1> QED
  BY <1>5 DEF NumberKept, Known

\* The operands of a command: known objects.
Given(args, m) == DOMAIN args = 1 .. m /\ \A k \in 1 .. m : Known(args[k])

\* The numbers of known operands are normalized, or no numbers at all.
LEMMA NumbersAre ==
  ASSUME NEW args, NEW m \in Nat, Given(args, m)
  PROVE  Numbers(args) \in Seq(Arguments) /\ Len(Numbers(args)) = m
<1>1. \A k \in 1 .. m : Tcl_GetMpzFromObj(args[k]) \in Arguments
  BY GetMpzIs, ArgumentsAre DEF Given
<1>2. Numbers(args) \in [1 .. m -> Arguments]
  BY <1>1 DEF Numbers, Given
<1> QED
  BY <1>2, FunctionSeq

\* x and the words of the script are known operands.
LEMMA OperandsGiven ==
  ASSUME NumberKept
  PROVE  /\ \A args \in Operands \cup {<< >>} : \E m \in {0, 1, 2} : Given(args, m)
         /\ \A w \in Words : Given(<<x, w>>, 2)
         /\ \A w \in Words, o \in Words : Given(<<x, w, o>>, 3)
<1>1. Known(x)
  BY DEF NumberKept
<1>2. Given(<< >>, 0) /\ Given(<<x>>, 1) /\ Given(<<x, x>>, 2)
  <2>1. /\ DOMAIN << >> = 1 .. 0 /\ DOMAIN <<x>> = 1 .. 1 /\ DOMAIN <<x, x>> = 1 .. 2
        /\ \A k \in 1 .. 0 : FALSE
        /\ \A k \in 1 .. 1 : <<x>>[k] = x
        /\ \A k \in 1 .. 2 : <<x, x>>[k] = x
    OBVIOUS
  <2> QED
    BY <1>1, <2>1 DEF Given
<1>3. ASSUME NEW w \in Words PROVE Given(<<x, w>>, 2) /\ Given(<<w, x>>, 2)
  <2>1. Known(w)
    BY WordsKnown
  <2>2. /\ DOMAIN <<x, w>> = 1 .. 2 /\ DOMAIN <<w, x>> = 1 .. 2
        /\ \A k \in 1 .. 2 : <<x, w>>[k] \in {x, w} /\ <<w, x>>[k] \in {x, w}
    OBVIOUS
  <2> QED
    BY <1>1, <2>1, <2>2 DEF Given
<1>4. ASSUME NEW w \in Words, NEW o \in Words PROVE Given(<<x, w, o>>, 3)
  <2>1. Known(w) /\ Known(o)
    BY WordsKnown
  <2>2. /\ DOMAIN <<x, w, o>> = 1 .. 3
        /\ \A k \in 1 .. 3 : <<x, w, o>>[k] \in {x, w, o}
    OBVIOUS
  <2> QED
    BY <1>1, <2>1, <2>2 DEF Given
<1>5. ASSUME NEW args \in Operands \cup {<< >>} PROVE \E m \in {0, 1, 2} : Given(args, m)
  <2>1. \/ args = << >> \/ args = <<x>> \/ args = <<x, x>>
        \/ \E w \in Words : args = <<x, w>> \/ args = <<w, x>>
    BY DEF Operands
  <2> QED
    BY <1>2, <1>3, <2>1
<1> QED
  BY <1>3, <1>4, <1>5

\* No step loses the number of x, or its representation.
LEMMA StepKeepsNumber ==
  ASSUME NumberKept, [Next]_vars
  PROVE  NumberKept'
<1>1. Known(x) /\ x.ok
  BY DEF NumberKept
<1>2. CASE Basic
  <2>1. PICK cmd \in Operators, args \in Operands \cup {<< >>} :
          Store(cmd, args, BigBasicObjCmd(cmd, Numbers(args)))
    BY <1>2 DEF Basic
  <2>2. PICK m \in {0, 1, 2} : Given(args, m)
    BY OperandsGiven
  <2>3. Numbers(args) \in Seq(Arguments)
    BY <2>2, NumbersAre
  <2>4. Result(BigBasicObjCmd(cmd, Numbers(args)))
    BY <2>3, BasicIs
  <2> QED
    BY <2>1, <2>4, StoreKeeps
<1>3. CASE Pow
  <2>1. CASE \E w \in Words : Store("**", <<x, w>>, BigPowObjCmd(Numbers(<<x, w>>)))
    <3>1. PICK w \in Words : Store("**", <<x, w>>, BigPowObjCmd(Numbers(<<x, w>>)))
      BY <2>1
    <3> DEFINE args == <<x, w>>
               m == 2
    <3>2. Given(args, m) /\ m \in Nat
      BY OperandsGiven
    <3>3. Store("**", args, BigPowObjCmd(Numbers(args)))
      BY <3>1
    <3>4. m = 2
      OBVIOUS
    <3> HIDE DEF args, m
    <3>5. Numbers(args) \in Seq(Arguments) /\ Len(Numbers(args)) = m
      BY <3>2, NumbersAre
    <3>6. Result(BigPowObjCmd(Numbers(args)))
      BY <3>4, <3>5, PowIs
    <3> QED
      BY <3>3, <3>6, StoreKeeps
  <2>2. CASE \E w, o \in Words : Store("**", <<x, w, o>>, BigPowObjCmd(Numbers(<<x, w, o>>)))
    <3>1. PICK w \in Words, o \in Words : Store("**", <<x, w, o>>, BigPowObjCmd(Numbers(<<x, w, o>>)))
      BY <2>2
    <3> DEFINE args == <<x, w, o>>
               m == 3
    <3>2. Given(args, m) /\ m \in Nat
      BY OperandsGiven
    <3>3. Store("**", args, BigPowObjCmd(Numbers(args)))
      BY <3>1
    <3>4. m = 3
      OBVIOUS
    <3> HIDE DEF args, m
    <3>5. Numbers(args) \in Seq(Arguments) /\ Len(Numbers(args)) = m
      BY <3>2, NumbersAre
    <3>6. Result(BigPowObjCmd(Numbers(args)))
      BY <3>4, <3>5, PowIs
    <3> QED
      BY <3>3, <3>6, StoreKeeps
  <2> QED
    BY <1>3, <2>1, <2>2 DEF Pow
<1>4. CASE Compare
  <2>1. x' = SetMpzFromAny(x)
    BY <1>4 DEF Compare
  <2>2. Known(SetMpzFromAny(x)) /\ SetMpzFromAny(x).ok
    BY <1>1, GetMpzIs
  <2>3. Known(x') /\ x'.ok
    BY <2>1, <2>2
  <2> QED
    BY <2>3 DEF NumberKept, Known
<1>5. CASE Random
  <2>1. PICK len \in {-2, 0, 1}, atoms \in [1 .. 2 -> RandomAtoms] :
          Store("rand", << >>, mpz_random(len, atoms))
    BY <1>5 DEF Random
  <2>2. Result(mpz_random(len, atoms))
    BY RandomIs DEF Result
  <2> QED
    BY <2>1, <2>2, StoreKeeps
<1>6. CASE Show
  <2>1. x' = IF x.text # << >> THEN x ELSE [x EXCEPT !.text = <<mpz_get_str(x.mpz[1])>>]
    BY <1>6 DEF Show, UpdateStringOfMpz
  <2>2. CASE x.text # << >>
    BY <1>1, <2>1, <2>2 DEF NumberKept, Known
  <2>3. CASE x.text = << >>
    <3> DEFINE s == mpz_get_str(x.mpz[1])
    <3>1. x' = [x EXCEPT !.text = <<s>>]
      BY <2>1, <2>3
    <3> HIDE DEF s
    <3>2. x.mpz # << >>
      <4>1. x.mpz = << >> => x \in Words
        BY <1>1 DEF Known
      <4>2. x \in Words => x.text # << >>
        BY WordIs
      <4> QED
        BY <2>3, <4>1, <4>2
    <3>3. x = [text |-> x.text, mpz |-> x.mpz, value |-> x.value, ok |-> x.ok]
      BY <1>1 DEF Known
    <3>4. x' = [text |-> <<s>>, mpz |-> x.mpz, value |-> x.value, ok |-> x.ok]
      BY <3>1, <3>3
    <3>5. x'.text = <<s>> /\ x'.mpz = x.mpz /\ x'.value = x.value /\ x'.ok = x.ok
      BY <3>4
    <3>6. x.mpz = <<x.mpz[1]>> /\ Normal(x.mpz[1]) /\ Value(x.mpz[1]) = x.value
      BY <1>1, <3>2 DEF Known
    <3> DEFINE p == x'
    <3>7. Known(p) /\ p.ok
      <4>1. /\ p = [text |-> p.text, mpz |-> p.mpz, value |-> p.value, ok |-> p.ok]
            /\ p.mpz # << >> /\ p.mpz[1] = x.mpz[1] /\ p.mpz = <<p.mpz[1]>> /\ p.value = x.value /\ p.ok
        BY <1>1, <3>2, <3>4, <3>5, <3>6
      <4> HIDE DEF p
      <4> QED
        BY <3>6, <4>1 DEF Known
    <3> QED
      BY <3>7 DEF NumberKept, Known
  <2> QED
    BY <2>2, <2>3
<1>7. CASE UNCHANGED vars
  BY <1>1, <1>7 DEF NumberKept, Known, vars, Words
<1> QED
  BY <1>2, <1>3, <1>4, <1>5, <1>6, <1>7 DEF Next

\* Init chooses a word that is a number.
LEMMA StartsWithNumber ==
  Init => NumberKept
BY WordsKnown DEF Init, NumberKept

\* Numbers are kept normalized, and the storage beyond the atoms in use is zero, whatever a
\* script computes (sbignum.c, "a global assumption").
THEOREM AlwaysWellFormed == Spec => []WellFormed
<1>1. Init => NumberKept
  BY StartsWithNumber
<1>2. NumberKept /\ [Next]_vars => NumberKept'
  BY StepKeepsNumber
<1>3. NumberKept => WellFormed
  <2> SUFFICES ASSUME NumberKept PROVE WellFormed
    OBVIOUS
  <2>1. Known(x)
    BY DEF NumberKept
  <2>2. CASE x.mpz = << >>
    BY <2>2 DEF WellFormed
  <2>3. CASE x.mpz # << >>
    <3> DEFINE o == x.mpz[1]
    <3>1. x.mpz = <<o>> /\ Normal(o)
      BY <2>1, <2>3 DEF Known
    <3>2. {x.mpz[k] : k \in DOMAIN x.mpz} = {o}
      <4> HIDE DEF o
      <4> QED
        BY <3>1
    <3>3. Clean(o) /\ (o.l > 0 => o.d[o.l] # 0)
      BY <3>1 DEF Normal
    <3> HIDE DEF o
    <3>4. /\ o.s \in {0, 1} /\ o.l \in Nat /\ o.l <= Len(o.d) /\ Len(o.d) \in Nat
          /\ DOMAIN o.d = 1 .. Len(o.d)
          /\ \A k \in 1 .. Len(o.d) : o.d[k] \in Digit /\ (k > o.l => o.d[k] = 0)
      BY <3>3, CleanType
    <3>5. o.l \in 0 .. Len(o.d)
      BY <3>4
    <3> QED
      BY <3>2, <3>3, <3>4, <3>5 DEF WellFormed, Digit
  <2> QED
    BY <2>2, <2>3
<1> QED
  BY <1>1, <1>2, <1>3, PTL DEF Spec

\* What a comparison means on the integers, and the record of a command that agrees with it.
Compared(cmd, a, b) ==
  CASE cmd = ">=" -> a >= b [] cmd = ">"  -> a > b
    [] cmd = "<=" -> a <= b [] cmd = "<"  -> a < b
    [] cmd = "==" -> a = b  [] cmd = "!=" -> a # b

Agreeing(r) ==
  r.cmd \in Comparisons /\ r.legal => r.out = <<Compared(r.cmd, r.args[1], r.args[2])>>

\* A comparison of two known operands that are numbers.
LEMMA ComparesOperands ==
  ASSUME NEW cmd \in Comparisons, NEW a, Known(a), a.ok, NEW b, Known(b), b.ok
  PROVE  BigCmpObjCmd(cmd, Tcl_GetMpzFromObj(a), Tcl_GetMpzFromObj(b)) =
           Compared(cmd, a.value, b.value)
<1> DEFINE y == Tcl_GetMpzFromObj(a)
           z == Tcl_GetMpzFromObj(b)
           c == mpz_cmp(y, z)
           u == a.value
           v == b.value
           e == BigCmpObjCmd(cmd, y, z)
<1>1. Normal(y) /\ Normal(z) /\ Value(y) = u /\ Value(z) = v
  BY GetMpzIs
<1>2. u \in Int /\ v \in Int
  BY <1>1, SignIs
<1> HIDE DEF y, z
<1>3. Orders(c, u, v)
  BY <1>1, ComparisonExact
<1>4. e = CASE cmd = ">=" -> c >= 0 [] cmd = ">"  -> c > 0
            [] cmd = "<=" -> c <= 0 [] cmd = "<"  -> c < 0
            [] cmd = "==" -> c = 0  [] cmd = "!=" -> c # 0
  BY DEF BigCmpObjCmd
<1> HIDE DEF c, u, v, e
<1>5. /\ (c >= 0) = (u >= v) /\ (c > 0) = (u > v) /\ (c <= 0) = (u <= v) /\ (c < 0) = (u < v)
      /\ (c = 0) = (u = v) /\ (c # 0) = (u # v)
  BY <1>2, <1>3 DEF Orders
<1>6. e = CASE cmd = ">=" -> u >= v [] cmd = ">"  -> u > v
            [] cmd = "<=" -> u <= v [] cmd = "<"  -> u < v
            [] cmd = "==" -> u = v  [] cmd = "!=" -> u # v
  BY <1>4, <1>5
<1> QED
  BY <1>6 DEF Compared, e, u, v, y, z

\* Comparisons order the numbers of a script as integers are ordered, whatever the numbers
\* went through before, a zero with a sign included (mpz_cmp(), BigCmpObjCmd()).
THEOREM AlwaysOrdered == Spec => []Ordered
<1>1. Init => NumberKept /\ Agreeing(last)
  <2>1. Init => last.cmd = "none"
    BY DEF Init, Nothing
  <2>2. "none" \notin Comparisons
    BY DEF Comparisons
  <2>3. Init => Agreeing(last)
    BY <2>1, <2>2 DEF Agreeing
  <2> QED
    BY <2>3, StartsWithNumber
<1>2. NumberKept /\ Agreeing(last) /\ [Next]_vars => NumberKept' /\ Agreeing(last)'
  <2> SUFFICES ASSUME NumberKept, Agreeing(last), [Next]_vars PROVE NumberKept' /\ Agreeing(last')
    OBVIOUS
  <2>1. NumberKept'
    BY StepKeepsNumber
  <2>2. ASSUME NEW cmd, cmd \notin Comparisons, NEW args, NEW t, Store(cmd, args, t) PROVE Agreeing(last')
    <3>1. last'.cmd = cmd
      BY <2>2 DEF Store
    <3> QED
      BY <2>2, <3>1 DEF Agreeing
  <2>3. CASE Basic
    <3>1. \A cmd \in Operators : cmd \notin Comparisons
      BY DEF Operators, Comparisons
    <3>2. PICK cmd \in Operators, args \in Operands \cup {<< >>} :
             Store(cmd, args, BigBasicObjCmd(cmd, Numbers(args)))
      BY <2>3 DEF Basic
    <3> QED
      BY <2>1, <2>2, <3>1, <3>2
  <2>4. CASE Pow
    <3>1. "**" \notin Comparisons
      BY DEF Comparisons
    <3>2. \/ \E w \in Words : Store("**", <<x, w>>, BigPowObjCmd(Numbers(<<x, w>>)))
          \/ \E w, o \in Words : Store("**", <<x, w, o>>, BigPowObjCmd(Numbers(<<x, w, o>>)))
      BY <2>4 DEF Pow
    <3> QED
      BY <2>1, <2>2, <3>1, <3>2
  <2>5. CASE Random
    <3>1. "rand" \notin Comparisons
      BY DEF Comparisons
    <3>2. PICK len \in {-2, 0, 1}, atoms \in [1 .. 2 -> RandomAtoms] :
             Store("rand", << >>, mpz_random(len, atoms))
      BY <2>5 DEF Random
    <3> QED
      BY <2>1, <2>2, <3>1, <3>2
  <2>6. CASE Show \/ UNCHANGED vars
    <3>1. last' = last
      BY <2>6 DEF Show, vars
    <3> QED
      BY <2>1, <3>1
  <2>7. CASE Compare
    <3>1. PICK cmd \in Comparisons, args \in Operands :
            /\ Len(args) = 2
            /\ last' = [cmd |-> cmd, args |-> Values(args), legal |-> Legal(args),
                        out |-> IF SBN_INVAL \in {Numbers(args)[k] : k \in 1 .. 2} THEN << >>
                                ELSE <<BigCmpObjCmd(cmd, Numbers(args)[1], Numbers(args)[2])>>]
      BY <2>7 DEF Compare
    <3>2. PICK a, b : args = <<a, b>> /\ Known(a) /\ Known(b)
      <4>1. Known(x)
        BY DEF NumberKept
      <4>2. \/ args = <<x>> \/ args = <<x, x>>
            \/ \E w \in Words : args = <<x, w>> \/ args = <<w, x>>
        BY DEF Operands
      <4>3. args # <<x>>
        BY <3>1
      <4> QED
        BY <4>1, <4>2, <4>3, WordsKnown
    <3> DEFINE y == Tcl_GetMpzFromObj(a)
               z == Tcl_GetMpzFromObj(b)
               e == BigCmpObjCmd(cmd, y, z)
               o == last'
    <3>3. /\ Numbers(args)[1] = y /\ Numbers(args)[2] = z
          /\ Values(args)[1] = a.value /\ Values(args)[2] = b.value
          /\ Legal(args) = (a.ok /\ b.ok)
          /\ {Numbers(args)[k] : k \in 1 .. 2} = {y, z}
      <4>1. DOMAIN args = 1 .. 2 /\ args[1] = a /\ args[2] = b /\ 1 .. 2 = {1, 2}
        BY <3>2
      <4>2. Numbers(args)[1] = y /\ Numbers(args)[2] = z
        BY <4>1 DEF Numbers
      <4>3. Values(args)[1] = a.value /\ Values(args)[2] = b.value
        BY <4>1 DEF Values
      <4>4. Legal(args) = (a.ok /\ b.ok)
        BY <4>1 DEF Legal
      <4>5. {Numbers(args)[k] : k \in 1 .. 2} = {y, z}
        <5> HIDE DEF y, z
        <5> QED
          BY <4>1, <4>2
      <4> QED
        BY <4>2, <4>3, <4>4, <4>5
    <3> HIDE DEF y, z
    <3>4. /\ o.cmd = cmd /\ o.args = Values(args) /\ o.legal = Legal(args)
          /\ o.out = IF SBN_INVAL \in {y, z} THEN << >> ELSE <<e>>
      BY <3>1, <3>3
    <3> HIDE DEF o, e
    <3>5. SUFFICES ASSUME a.ok, b.ok
          PROVE  o.out = <<Compared(cmd, a.value, b.value)>>
      BY <2>1, <3>3, <3>4 DEF Agreeing, o
    <3>6. Normal(y) /\ Normal(z)
      BY <3>2, <3>5, GetMpzIs DEF y, z
    <3>7. SBN_INVAL \notin {y, z}
      BY <3>6, NormalIsValid
    <3>8. o.out = <<e>>
      BY <3>4, <3>7
    <3>9. e = Compared(cmd, a.value, b.value)
      BY <3>2, <3>5, ComparesOperands DEF e, y, z
    <3> QED
      BY <3>8, <3>9
  <2> QED
    BY <2>1, <2>3, <2>4, <2>5, <2>6, <2>7 DEF Next
<1>3. Agreeing(last) => Ordered
  BY DEF Agreeing, Compared, Ordered
<1> QED
  BY <1>1, <1>2, <1>3, PTL DEF Spec

-----------------------------------------------------------------------------
(* What a command means.                                                   *)

\* The last of at most two places.
LEMMA LastPlace == Max({1}) = 1 /\ Max({2}) = 2 /\ Max({1, 2}) = 2
<1>1. \A S \in {{1}, {2}, {1, 2}} : Max(S) \in S /\ \A k \in S : k <= Max(S)
  <2>1. \A S \in {{1}, {2}, {1, 2}} : S \in SUBSET (0 .. 2) /\ S # {} /\ 2 \in Nat
    OBVIOUS
  <2> QED
    BY <2>1, MaxIn
<1>2. Max({1}) \in {1} /\ Max({2}) \in {2}
  BY <1>1
<1>3. Max({1, 2}) \in {1, 2} /\ 2 <= Max({1, 2})
  BY <1>1
<1> QED
  BY <1>2, <1>3

\* The fold over the places of a sequence that are in S.
LEMMA FoldIs ==
  ASSUME NEW cmd, NEW start, NEW u, NEW S, S = DOMAIN u, S \in {{}, {1}, {1, 2}}
  PROVE  FoldFrom(cmd, start, u) =
           CASE S = {} -> start
             [] S = {1} -> Apply(cmd, start, u[1])
             [] S = {1, 2} -> Apply(cmd, Apply(cmd, start, u[1]), u[2])
<1> DEFINE Op(v, k) == Apply(cmd, v, u[k])
           Eqn(f) == f = [s \in SUBSET S |-> IF s = {} THEN start ELSE Op(f[s \ {Max(s)}], Max(s))]
           F == CHOOSE f : Eqn(f)
           g == [s \in SUBSET S |-> CASE s = {} -> start
                                      [] s = {1} -> Op(start, 1)
                                      [] s = {2} -> Op(start, 2)
                                      [] s = {1, 2} -> Op(Op(start, 1), 2)]
<1>1. FoldFrom(cmd, start, u) = F[S]
  BY DEF FoldFrom, FoldLeft, MapThenFoldSet
<1> HIDE DEF Op
<1>2. Eqn(g)
  <2>1. ASSUME NEW s \in SUBSET S
        PROVE  g[s] = IF s = {} THEN start ELSE Op(g[s \ {Max(s)}], Max(s))
    <3>1. s \in {{}, {1}, {2}, {1, 2}}
      OBVIOUS
    <3>2. CASE s = {}
      BY <3>2
    <3>3. CASE s = {1}
      <4>1. Max(s) = 1 /\ s \ {1} = {} /\ s # {}
        BY <3>3, LastPlace
      <4>2. g[{}] = start /\ g[s] = Op(start, 1)
        BY <3>3
      <4> HIDE DEF g
      <4> QED
        BY <4>1, <4>2
    <3>4. CASE s = {2}
      <4>1. Max(s) = 2 /\ s \ {2} = {} /\ s # {}
        BY <3>4, LastPlace
      <4>2. g[{}] = start /\ g[s] = Op(start, 2)
        BY <3>4
      <4> HIDE DEF g
      <4> QED
        BY <4>1, <4>2
    <3>5. CASE s = {1, 2}
      <4>1. Max(s) = 2 /\ s \ {2} = {1} /\ s # {} /\ {1} \in SUBSET S
        BY <3>5, LastPlace
      <4>2. g[{1}] = Op(start, 1) /\ g[s] = Op(Op(start, 1), 2)
        BY <3>5
      <4> HIDE DEF g
      <4> QED
        BY <4>1, <4>2
    <3> QED
      BY <3>1, <3>2, <3>3, <3>4, <3>5
  <2>2. g = [s \in SUBSET S |-> g[s]]
    OBVIOUS
  <2> HIDE DEF g
  <2> QED
    BY <2>1, <2>2
<1>3. Eqn(F)
  <2> HIDE DEF Eqn, g
  <2> QED
    BY <1>2
<1> HIDE DEF F, g
<1>4. \A s \in SUBSET S : F[s] = IF s = {} THEN start ELSE Op(F[s \ {Max(s)}], Max(s))
  BY <1>3
<1> HIDE DEF Eqn
<1>5. F[{}] = start
  BY <1>4
<1>6. 1 \in S => F[{1}] = Op(start, 1)
  <2>1. {1} \ {1} = {} /\ {1} # {} /\ (1 \in S => {1} \in SUBSET S)
    OBVIOUS
  <2> QED
    BY <1>4, <1>5, <2>1, LastPlace
<1>7. S = {1, 2} => F[{1, 2}] = Op(Op(start, 1), 2)
  <2>1. {1, 2} \ {2} = {1} /\ {1, 2} # {} /\ (S = {1, 2} => {1, 2} \in SUBSET S /\ 1 \in S)
    OBVIOUS
  <2> QED
    BY <1>4, <1>6, <2>1, LastPlace
<1>8. S = {1} => S # {} /\ S # {1, 2} /\ 1 \in S
  OBVIOUS
<1>9. S = {1, 2} => S # {} /\ S # {1}
  OBVIOUS
<1> QED
  BY <1>1, <1>5, <1>6, <1>7, <1>8, <1>9 DEF Op

-----------------------------------------------------------------------------
(* Residues and powers of integers.                                        *)

\* Division of an integer by a positive number.
LEMMA IntegerDivIs ==
  ASSUME NEW a \in Int, NEW m \in Nat, m >= 1
  PROVE  /\ a \div m \in Int /\ a % m \in Nat /\ a % m < m /\ a = m * (a \div m) + (a % m)
OBVIOUS

\* There is one quotient, and one remainder.
LEMMA IntegerDivUnique ==
  ASSUME NEW m \in Nat, m >= 1, NEW h \in Int, NEW r \in Nat, r < m
  PROVE  (m * h + r) % m = r
<1> DEFINE a == m * h + r
           q == a \div m
           t == a % m
<1>1. a \in Int
  OBVIOUS
<1>2. q \in Int /\ t \in Nat /\ t < m /\ a = m * q + t
  <2> HIDE DEF a
  <2> QED
    BY <1>1, IntegerDivIs
<1>3. m * h + r = m * q + t
  <2> HIDE DEF q, t
  <2> QED
    BY <1>2
<1> HIDE DEF q, t, a
<1> DEFINE j == h - q
<1>4. j \in Int
  BY <1>2
<1>5. m * j = t - r
  <2>1. m * j = m * h - m * q
    BY <1>2
  <2> HIDE DEF j
  <2> DEFINE y == m * h
             z == m * q
  <2>2. y \in Int /\ z \in Int
    BY <1>2
  <2>3. m * j = y - z /\ y + r = z + t
    BY <1>3, <2>1
  <2> HIDE DEF y, z
  <2> QED
    BY <1>2, <2>2, <2>3
<1> HIDE DEF j
<1>6. j = 0
  <2>1. ASSUME j >= 1 PROVE FALSE
    <3>1. PICK i \in Nat : j = 1 + i
      <4>1. j - 1 \in Nat /\ j = 1 + (j - 1)
        BY <1>4, <2>1
      <4> QED
        BY <4>1
    <3>2. m * j = m + m * i
      BY <3>1
    <3>3. m * i \in Nat
      BY <3>1
    <3> QED
      BY <1>2, <1>5, <3>2, <3>3
  <2>2. ASSUME j <= -1 PROVE FALSE
    <3>1. PICK i \in Nat : j = -1 - i
      <4>1. -1 - j \in Nat /\ j = -1 - (-1 - j)
        BY <1>4, <2>2
      <4> QED
        BY <4>1
    <3>2. m * j = -m - m * i
      BY <3>1
    <3>3. m * i \in Nat
      BY <3>1
    <3> QED
      BY <1>2, <1>5, <3>2, <3>3
  <2> QED
    BY <1>4, <2>1, <2>2
<1>7. t = r
  BY <1>2, <1>5, <1>6
<1> QED
  BY <1>7 DEF t, a

\* Multiples of the modulus do not matter.
LEMMA ResidueShift ==
  ASSUME NEW m \in Nat, m >= 1, NEW a \in Int, NEW c \in Int
  PROVE  (a + m * c) % m = a % m
<1> DEFINE q == a \div m
           r == a % m
           h == q + c
<1>1. q \in Int /\ r \in Nat /\ r < m /\ a = m * q + r
  BY IntegerDivIs
<1> HIDE DEF q, r
<1>2. h \in Int /\ m * h + r = a + m * c
  BY <1>1
<1> HIDE DEF h
<1>3. (m * h + r) % m = r
  BY <1>1, <1>2, IntegerDivUnique
<1> QED
  BY <1>2, <1>3 DEF r

\* A product may be reduced in one factor first, or in both.
LEMMA ResidueFactor ==
  ASSUME NEW m \in Nat, m >= 1, NEW a \in Int, NEW b \in Int
  PROVE  (a * (b % m)) % m = (a * b) % m
<1> DEFINE q == b \div m
           r == b % m
           y == a * r
           c == a * q
<1>1. q \in Int /\ r \in Nat /\ b = m * q + r
  BY IntegerDivIs
<1> HIDE DEF q, r
<1>2. y \in Int /\ c \in Int /\ a * b = y + m * c
  BY <1>1
<1> HIDE DEF y, c
<1>3. (y + m * c) % m = y % m
  BY <1>2, ResidueShift
<1> QED
  BY <1>2, <1>3 DEF y, r

\* Both factors of a product may be reduced first: what PowerStep does on
\* each multiplication modulo m.
LEMMA ResidueFactors ==
  ASSUME NEW m \in Nat, m >= 1, NEW a \in Int, NEW b \in Int
  PROVE  ((a % m) * (b % m)) % m = (a * b) % m
<1> DEFINE r == a % m
<1>1. r \in Int
  BY IntegerDivIs
<1> HIDE DEF r
<1>2. (r * (b % m)) % m = (r * b) % m
  BY <1>1, ResidueFactor
<1>3. (b * (a % m)) % m = (b * a) % m
  BY ResidueFactor
<1>4. r * b = b * r /\ b * a = a * b
  BY <1>1
<1> QED
  BY <1>2, <1>3, <1>4 DEF r

\* What is already reduced stays so.
LEMMA ResidueTwice ==
  ASSUME NEW m \in Nat, m >= 1, NEW a \in Int
  PROVE  (a % m) % m = a % m
<1> DEFINE r == a % m
           h == 0
<1>1. r \in Nat /\ r < m /\ h \in Int /\ m * h + r = r
  BY IntegerDivIs
<1> HIDE DEF r, h
<1>2. (m * h + r) % m = r
  BY <1>1, IntegerDivUnique
<1> QED
  BY <1>1, <1>2 DEF r

\* The powers of b up to e.
PowersOf(f, b, e) == f[0] = 1 /\ \A k \in 1 .. e : f[k] = b * f[k - 1]

\* IntegerPower() is the last of them.
LEMMA PowersExist ==
  ASSUME NEW b \in Int, NEW e \in Nat
  PROVE  \E f \in [0 .. e -> Int] : PowersOf(f, b, e) /\ IntegerPower(b, e) = f[e]
<1> DEFINE V == Int
           one == 1
           step == [i \in 1 .. e |-> [v \in V |-> b * v]]
           Eqn(f) == f = [k \in 0 .. e |-> IF k = 0 THEN 1 ELSE b * f[k - 1]]
           F == CHOOSE f : Eqn(f)
<1>1. IntegerPower(b, e) = F[e]
  BY DEF IntegerPower
<1>2. one \in V /\ step \in [1 .. e -> [V -> V]]
  OBVIOUS
<1> HIDE DEF one, step, V
<1>3. PICK f \in [0 .. e -> V] : Iterates(f, one, e, step)
  BY <1>2, Recursion
<1>4. f \in [0 .. e -> Int] /\ PowersOf(f, b, e)
  <2>1. f \in [0 .. e -> Int] /\ f[0] = 1
    BY <1>3 DEF Iterates, V, one
  <2>2. ASSUME NEW k \in 1 .. e PROVE f[k] = b * f[k - 1]
    <3>1. f[k] = step[k][f[k - 1]] /\ f[k - 1] \in V
      BY <1>3 DEF Iterates
    <3> QED
      BY <3>1 DEF step
  <2> QED
    BY <2>1, <2>2 DEF PowersOf
<1>5. Eqn(f)
  <2>1. ASSUME NEW k \in 0 .. e PROVE f[k] = IF k = 0 THEN 1 ELSE b * f[k - 1]
    <3>1. k = 0 \/ k \in 1 .. e
      OBVIOUS
    <3> QED
      BY <1>4, <3>1 DEF PowersOf
  <2>2. f = [k \in 0 .. e |-> f[k]]
    BY <1>4
  <2> QED
    BY <2>1, <2>2
<1>6. Eqn(F)
  <2> HIDE DEF Eqn
  <2> QED
    BY <1>5
<1>7. F \in [0 .. e -> Int] /\ PowersOf(F, b, e)
  <2> HIDE DEF F
  <2>1. F[0] = 1 /\ \A k \in 1 .. e : F[k] = b * F[k - 1]
    <3>1. 0 \in 0 .. e /\ \A k \in 1 .. e : k \in 0 .. e /\ k # 0
      OBVIOUS
    <3> QED
      BY <1>6, <3>1
  <2>2. F = [k \in 0 .. e |-> F[k]]
    BY <1>6
  <2> HIDE DEF Eqn
  <2> DEFINE S == {k \in Nat : F[k] \in Int}
  <2>3. 0 \in S
    BY <2>1
  <2>4. \A i \in 0 .. e - 1 : i \in S => i + 1 \in S
    <3>1. ASSUME NEW i \in 0 .. e - 1, i \in S PROVE i + 1 \in S
      <4>1. i + 1 \in 1 .. e /\ (i + 1) - 1 = i /\ i + 1 \in Nat
        OBVIOUS
      <4>2. F[i + 1] = b * F[i] /\ F[i] \in Int
        BY <2>1, <3>1, <4>1
      <4> QED
        BY <4>1, <4>2
    <3> QED
      BY <3>1
  <2>5. \A k \in 0 .. e : F[k] \in Int
    <3> HIDE DEF S
    <3>1. \A k \in 0 .. e : k \in S
      BY <2>3, <2>4, UpTo
    <3> QED
      BY <3>1 DEF S
  <2> QED
    BY <2>1, <2>2, <2>5 DEF PowersOf
<1> QED
  BY <1>1, <1>7

\* There is one history of powers.
LEMMA PowersAgree ==
  ASSUME NEW b \in Int, NEW e \in Nat, NEW i \in Nat, e <= i,
         NEW f, PowersOf(f, b, e), NEW g, PowersOf(g, b, i)
  PROVE  f[e] = g[e]
<1> DEFINE S == {k \in Nat : f[k] = g[k]}
<1>1. 0 \in S
  BY DEF PowersOf
<1>2. \A k \in 0 .. e - 1 : k \in S => k + 1 \in S
  <2>1. ASSUME NEW k \in 0 .. e - 1, k \in S PROVE k + 1 \in S
    <3>1. k + 1 \in 1 .. e /\ k + 1 \in 1 .. i /\ (k + 1) - 1 = k /\ k + 1 \in Nat
      OBVIOUS
    <3>2. f[k + 1] = b * f[k] /\ g[k + 1] = b * g[k]
      BY <3>1 DEF PowersOf
    <3> QED
      BY <2>1, <3>1, <3>2
  <2> QED
    BY <2>1
<1> HIDE DEF S
<1>3. \A k \in 0 .. e : k \in S
  BY <1>1, <1>2, UpTo
<1>4. e \in S
  BY <1>3
<1> QED
  BY <1>4 DEF S

\* What a power is, step by step.
LEMMA IntegerPowerIs ==
  ASSUME NEW b \in Int
  PROVE  /\ IntegerPower(b, 0) = 1
         /\ \A e \in Nat : /\ IntegerPower(b, e) \in Int
                           /\ IntegerPower(b, e + 1) = b * IntegerPower(b, e)
<1>1. IntegerPower(b, 0) = 1
  <2> DEFINE e == 0
  <2>1. e \in Nat
    OBVIOUS
  <2> HIDE DEF e
  <2>2. PICK f \in [0 .. e -> Int] : PowersOf(f, b, e) /\ IntegerPower(b, e) = f[e]
    BY <2>1, PowersExist
  <2> QED
    BY <2>2 DEF PowersOf, e
<1>2. ASSUME NEW e \in Nat
      PROVE  IntegerPower(b, e) \in Int /\ IntegerPower(b, e + 1) = b * IntegerPower(b, e)
  <2> DEFINE i == e + 1
  <2>1. i \in Nat /\ e <= i /\ i \in 1 .. i /\ i - 1 = e /\ e \in 0 .. e
    OBVIOUS
  <2> HIDE DEF i
  <2>2. PICK f \in [0 .. e -> Int] : PowersOf(f, b, e) /\ IntegerPower(b, e) = f[e]
    BY PowersExist
  <2>3. PICK g \in [0 .. i -> Int] : PowersOf(g, b, i) /\ IntegerPower(b, i) = g[i]
    BY <2>1, PowersExist
  <2>4. f[e] = g[e]
    BY <2>1, <2>2, <2>3, PowersAgree
  <2>5. g[i] = b * g[e]
    BY <2>1, <2>3 DEF PowersOf
  <2>6. f[e] \in Int
    BY <2>1
  <2> QED
    BY <2>2, <2>3, <2>4, <2>5, <2>6 DEF i
<1> QED
  BY <1>1, <1>2

\* Residue() is the residue of the power.
LEMMA ResidueIs ==
  ASSUME NEW b \in Int, NEW e \in Nat, NEW m \in Nat, m >= 1
  PROVE  Residue(b, e, m) = IntegerPower(b, e) % m
<1> DEFINE Eqn(f) == f = [k \in 0 .. e |-> IF k = 0 THEN 1 % m ELSE (b * f[k - 1]) % m]
           F == CHOOSE f : Eqn(f)
<1>1. Residue(b, e, m) = F[e]
  BY DEF Residue
<1>2. PICK f \in [0 .. e -> Int] : PowersOf(f, b, e) /\ IntegerPower(b, e) = f[e]
  BY PowersExist
<1> DEFINE g == [k \in 0 .. e |-> f[k] % m]
<1>3. Eqn(g)
  <2>1. ASSUME NEW k \in 0 .. e PROVE g[k] = IF k = 0 THEN 1 % m ELSE (b * g[k - 1]) % m
    <3>1. CASE k = 0
      BY <1>2, <3>1 DEF PowersOf
    <3>2. CASE k # 0
      <4>1. k \in 1 .. e /\ k - 1 \in 0 .. e
        BY <3>2
      <4>2. f[k] = b * f[k - 1] /\ f[k - 1] \in Int
        BY <1>2, <4>1 DEF PowersOf
      <4>3. (b * (f[k - 1] % m)) % m = (b * f[k - 1]) % m
        BY <4>2, ResidueFactor
      <4>4. g[k] = f[k] % m /\ g[k - 1] = f[k - 1] % m
        BY <4>1
      <4> HIDE DEF g
      <4> QED
        BY <3>2, <4>2, <4>3, <4>4
    <3> QED
      BY <3>1, <3>2
  <2>2. g = [k \in 0 .. e |-> g[k]]
    OBVIOUS
  <2> HIDE DEF g
  <2> QED
    BY <2>1, <2>2
<1>4. Eqn(F)
  <2> HIDE DEF Eqn, g
  <2> QED
    BY <1>3
<1>5. F[0] = 1 % m /\ \A k \in 1 .. e : F[k] = (b * F[k - 1]) % m
  <2>1. 0 \in 0 .. e /\ \A k \in 1 .. e : k \in 0 .. e /\ k # 0
    OBVIOUS
  <2> HIDE DEF F
  <2> QED
    BY <1>4, <2>1
<1> HIDE DEF F, Eqn
<1> DEFINE S == {k \in Nat : F[k] = f[k] % m}
<1>6. 0 \in S
  BY <1>2, <1>5 DEF PowersOf
<1>7. \A i \in 0 .. e - 1 : i \in S => i + 1 \in S
  <2>1. ASSUME NEW i \in 0 .. e - 1, i \in S PROVE i + 1 \in S
    <3>1. i + 1 \in 1 .. e /\ (i + 1) - 1 = i /\ i + 1 \in Nat /\ i \in 0 .. e
      OBVIOUS
    <3>2. F[i + 1] = (b * F[i]) % m /\ F[i] = f[i] % m
      BY <1>5, <2>1, <3>1
    <3>3. f[i + 1] = b * f[i] /\ f[i] \in Int
      BY <1>2, <3>1 DEF PowersOf
    <3>4. (b * (f[i] % m)) % m = (b * f[i]) % m
      BY <3>3, ResidueFactor
    <3> QED
      BY <3>1, <3>2, <3>3, <3>4
  <2> QED
    BY <2>1
<1> HIDE DEF S
<1>8. \A k \in 0 .. e : k \in S
  BY <1>6, <1>7, UpTo
<1>9. e \in S
  BY <1>8
<1> QED
  BY <1>1, <1>2, <1>9 DEF S

\* The first power, and the powers of a square.
LEMMA PowerSquare ==
  ASSUME NEW b \in Int
  PROVE  /\ IntegerPower(b, 1) = b
         /\ \A i \in Nat : /\ IntegerPower(b, 2 * i) = IntegerPower(b * b, i)
                            /\ IntegerPower(b, 2 * i + 1) = b * IntegerPower(b * b, i)
<1> DEFINE P(i) == IntegerPower(b, i)
           s == b * b
           Q(i) == IntegerPower(s, i)
           S == {i \in Nat : P(2 * i) = Q(i)}
<1>1. P(0) = 1 /\ \A i \in Nat : P(i) \in Int /\ P(i + 1) = b * P(i)
  BY IntegerPowerIs
<1>2. s \in Int /\ s = b * b
  OBVIOUS
<1> HIDE DEF s
<1>3. Q(0) = 1 /\ \A i \in Nat : Q(i) \in Int /\ Q(i + 1) = s * Q(i)
  BY <1>2, IntegerPowerIs
<1> HIDE DEF P, Q
<1>4. P(1) = b
  <2>1. P(0 + 1) = b * P(0)
    BY <1>1
  <2> QED
    BY <1>1, <2>1
<1>5. 0 \in S
  <2>1. 2 * 0 = 0
    OBVIOUS
  <2> QED
    BY <1>1, <1>3, <2>1
<1>6. ASSUME NEW i \in S PROVE i + 1 \in S
  <2>1. i \in Nat /\ 2 * i \in Nat /\ 2 * i + 1 \in Nat /\ 2 * (i + 1) = (2 * i + 1) + 1
    OBVIOUS
  <2>2. P(2 * i) = Q(i)
    OBVIOUS
  <2>3. P(2 * i + 1) = b * P(2 * i) /\ P((2 * i + 1) + 1) = b * P(2 * i + 1)
    BY <1>1, <2>1
  <2>4. Q(i + 1) = (b * b) * Q(i) /\ Q(i) \in Int
    BY <1>2, <1>3, <2>1
  <2> DEFINE y == Q(i)
  <2>5. P(2 * (i + 1)) = b * (b * y) /\ Q(i + 1) = (b * b) * y /\ y \in Int
    BY <2>1, <2>2, <2>3, <2>4
  <2> HIDE DEF y
  <2>6. b * (b * y) = (b * b) * y
    BY <2>5
  <2> QED
    BY <2>1, <2>5, <2>6
<1>7. S = Nat
  <2>1. S \in SUBSET Nat
    OBVIOUS
  <2> HIDE DEF S
  <2> QED
    BY <1>5, <1>6, <2>1, NatInduct
<1>8. ASSUME NEW i \in Nat PROVE P(2 * i) = Q(i) /\ P(2 * i + 1) = b * Q(i)
  <2>1. i \in S
    BY <1>7
  <2>2. P(2 * i) = Q(i) /\ 2 * i \in Nat
    BY <2>1
  <2>3. P(2 * i + 1) = b * P(2 * i)
    BY <1>1, <2>2
  <2> QED
    BY <2>2, <2>3
<1> QED
  BY <1>4, <1>8 DEF P, Q, s

\* An even power does not see the sign, an odd one keeps it.
LEMMA PowerSign ==
  ASSUME NEW b \in Int, NEW h \in Nat
  PROVE  /\ IntegerPower(-b, 2 * h) = IntegerPower(b, 2 * h)
         /\ IntegerPower(-b, 2 * h + 1) = -IntegerPower(b, 2 * h + 1)
<1> DEFINE c == -b
           s == b * b
           t == c * c
<1>1. c \in Int /\ t = s /\ s \in Int
  OBVIOUS
<1>2. IntegerPower(b, 2 * h) = IntegerPower(s, h) /\ IntegerPower(b, 2 * h + 1) = b * IntegerPower(s, h)
  BY PowerSquare
<1>3. IntegerPower(c, 2 * h) = IntegerPower(t, h) /\ IntegerPower(c, 2 * h + 1) = c * IntegerPower(t, h)
  <2> HIDE DEF c
  <2> QED
    BY <1>1, PowerSquare
<1> DEFINE y == IntegerPower(s, h)
<1>4. y \in Int
  <2> HIDE DEF s
  <2> QED
    BY <1>1, IntegerPowerIs
<1>5. IntegerPower(c, 2 * h + 1) = c * y /\ IntegerPower(b, 2 * h + 1) = b * y /\ IntegerPower(c, 2 * h) = y
  <2> HIDE DEF c, s, t
  <2> QED
    BY <1>1, <1>2, <1>3
<1> HIDE DEF y
<1>6. c * y = -(b * y)
  BY <1>4
<1> QED
  BY <1>2, <1>5, <1>6 DEF c, y

\* The residue of a power is that of the power of the residue.
LEMMA PowerResidue ==
  ASSUME NEW m \in Nat, m >= 1, NEW b \in Int, NEW e \in Nat
  PROVE  IntegerPower(b % m, e) % m = IntegerPower(b, e) % m
<1> DEFINE c == b % m
           P(i) == IntegerPower(b, i)
           Q(i) == IntegerPower(c, i)
           S == {i \in Nat : Q(i) % m = P(i) % m}
<1>1. c \in Int /\ c = b % m
  BY IntegerDivIs
<1> HIDE DEF c
<1>2. P(0) = 1 /\ \A i \in Nat : P(i) \in Int /\ P(i + 1) = b * P(i)
  BY IntegerPowerIs
<1>3. Q(0) = 1 /\ \A i \in Nat : Q(i) \in Int /\ Q(i + 1) = c * Q(i)
  BY <1>1, IntegerPowerIs
<1> HIDE DEF P, Q
<1>4. 0 \in S
  BY <1>2, <1>3
<1>5. ASSUME NEW i \in S PROVE i + 1 \in S
  <2> DEFINE p == P(i)
             q == Q(i)
  <2>1. i \in Nat /\ p \in Int /\ q \in Int /\ q % m = p % m /\ P(i + 1) = b * p /\ Q(i + 1) = c * q
    BY <1>2, <1>3
  <2> HIDE DEF p, q
  <2>2. ((c % m) * (q % m)) % m = (c * q) % m
    BY <1>1, <2>1, ResidueFactors
  <2>3. ((b % m) * (p % m)) % m = (b * p) % m
    BY <2>1, ResidueFactors
  <2>4. c % m = b % m
    BY <1>1, ResidueTwice
  <2>5. (c * q) % m = (b * p) % m
    BY <2>1, <2>2, <2>3, <2>4
  <2> QED
    BY <2>1, <2>5
<1>6. S = Nat
  <2>1. S \in SUBSET Nat
    OBVIOUS
  <2> HIDE DEF S
  <2> QED
    BY <1>4, <1>5, <2>1, NatInduct
<1>7. e \in S
  BY <1>6
<1> QED
  BY <1>7 DEF S, P, Q, c

-----------------------------------------------------------------------------
(* What the powers of the library are.                                     *)

\* Equal, or congruent for the modulus if there is one.
Same(m, a, b) == IF m = << >> THEN a = b ELSE a % Size(m[1]) = b % Size(m[1])

\* The modulus is a positive number.
LEMMA ModulusIs ==
  ASSUME NEW m, Modulus(m), m # << >>
  PROVE  Normal(m[1]) /\ Size(m[1]) \in Nat /\ Size(m[1]) >= 1
<1> DEFINE o == m[1]
           u == Size(o)
<1>1. Normal(o) /\ u # 0
  BY DEF Modulus
<1>2. u \in Nat
  BY <1>1, SignIs
<1> HIDE DEF u
<1>3. u >= 1
  BY <1>1, <1>2
<1> QED
  BY <1>1, <1>2, <1>3 DEF u

\* Congruent factors and bases give congruent products and powers.
LEMMA SameProduct ==
  ASSUME NEW m, Modulus(m), NEW a \in Int, NEW b \in Int, Same(m, a, b),
         NEW c \in Int, NEW e \in Int, Same(m, c, e)
  PROVE  Same(m, a * c, b * e)
<1>1. CASE m = << >>
  BY <1>1 DEF Same
<1>2. CASE m # << >>
  <2> DEFINE u == Size(m[1])
  <2>1. u \in Nat /\ u >= 1
    BY <1>2, ModulusIs
  <2>2. a % u = b % u /\ c % u = e % u
    BY <1>2 DEF Same
  <2>3. Same(m, a * c, b * e) <=> (a * c) % u = (b * e) % u
    BY <1>2 DEF Same
  <2> HIDE DEF u
  <2>4. ((a % u) * (c % u)) % u = (a * c) % u /\ ((b % u) * (e % u)) % u = (b * e) % u
    BY <2>1, ResidueFactors
  <2> QED
    BY <2>2, <2>3, <2>4
<1> QED
  BY <1>1, <1>2

\* Congruent bases have congruent powers: mpz_powm may start from b mod m.
LEMMA SamePower ==
  ASSUME NEW m, Modulus(m), NEW a \in Int, NEW b \in Int, Same(m, a, b), NEW e \in Nat
  PROVE  Same(m, IntegerPower(a, e), IntegerPower(b, e))
<1>1. CASE m = << >>
  BY <1>1 DEF Same
<1>2. CASE m # << >>
  <2> DEFINE u == Size(m[1])
  <2>1. u \in Nat /\ u >= 1
    BY <1>2, ModulusIs
  <2>2. a % u = b % u
    BY <1>2 DEF Same
  <2>3. Same(m, IntegerPower(a, e), IntegerPower(b, e)) <=> IntegerPower(a, e) % u = IntegerPower(b, e) % u
    BY <1>2 DEF Same
  <2> HIDE DEF u
  <2>4. IntegerPower(a % u, e) % u = IntegerPower(a, e) % u /\ IntegerPower(b % u, e) % u = IntegerPower(b, e) % u
    BY <2>1, PowerResidue
  <2> QED
    BY <2>2, <2>3, <2>4
<1> QED
  BY <1>1, <1>2

\* What is known of a number that is used like an integer that is not negative.
Natural(z) == Normal(z) /\ Value(z) \in Nat

\* A natural number is its own size.
LEMMA NaturalIs ==
  ASSUME NEW z, Natural(z)
  PROVE  Normal(z) /\ Value(z) \in Nat /\ Value(z) \in Int /\ Value(z) = Size(z)
<1>1. Normal(z) /\ Value(z) \in Nat
  BY DEF Natural
<1>2. Abs(Value(z)) = Size(z)
  BY <1>1, SignIs
<1> DEFINE v == Value(z)
<1>3. v \in Nat /\ Abs(v) = Size(z)
  BY <1>1, <1>2
<1> HIDE DEF v
<1>4. v \in Int /\ v = Size(z)
  BY <1>3 DEF Abs
<1> QED
  BY <1>1, <1>4 DEF v

\* Reduce() leaves a congruent number.
LEMMA ReduceMeans ==
  ASSUME NEW z, Natural(z), NEW m, Modulus(m)
  PROVE  /\ Natural(Reduce(z, m)) /\ Same(m, Value(Reduce(z, m)), Value(z))
         /\ Value(z) = 0 => Value(Reduce(z, m)) = 0
<1>1. CASE m = << >>
  BY <1>1 DEF Reduce, Same
<1>2. CASE m # << >>
  <2> DEFINE o == m[1]
             t == mpz_mod(z, o)
             u == Size(o)
             v == Value(z)
             w == Value(t)
  <2>1. Normal(o) /\ u \in Nat /\ u >= 1
    BY <1>2, ModulusIs
  <2>2. Reduce(z, m) = t
    BY <1>2 DEF Reduce
  <2>3. Normal(z) /\ v \in Nat
    BY NaturalIs
  <2>4. Abs(Value(o)) = u
    BY <2>1, SignIs
  <2>5. Normal(t) /\ (v >= 0 => w = v % Abs(Value(o)))
    <3> HIDE DEF o
    <3>1. u # 0
      BY <2>1
    <3> QED
      BY <2>1, <2>3, <3>1, ModuloExact
  <2>6. Same(m, w, v) <=> w % u = v % u
    BY <1>2 DEF Same
  <2> HIDE DEF t, u, v, w, o
  <2>7. w = v % u
    BY <2>3, <2>4, <2>5
  <2>8. w \in Nat
    BY <2>1, <2>3, <2>7, IntegerDivIs
  <2>9. (v % u) % u = v % u
    <3>1. v \in Int
      BY <2>3
    <3> QED
      BY <2>1, <3>1, ResidueTwice
  <2>10. Natural(t)
    BY <2>5, <2>8 DEF Natural, w
  <2>11. v = 0 => w = 0
    BY <2>1, <2>7
  <2> QED
    BY <2>2, <2>6, <2>7, <2>9, <2>10, <2>11 DEF v, w
<1> QED
  BY <1>1, <1>2

\* A product of such numbers.
LEMMA NaturalProduct ==
  ASSUME NEW y, Natural(y), NEW z, Natural(z)
  PROVE  Natural(mpz_mul(y, z)) /\ Value(mpz_mul(y, z)) = Value(y) * Value(z)
<1> DEFINE u == Value(y)
           v == Value(z)
           t == mpz_mul(y, z)
<1>1. Normal(y) /\ Normal(z) /\ u \in Nat /\ v \in Nat
  BY NaturalIs
<1>2. Normal(t) /\ Value(t) = u * v
  BY <1>1, SignedMultiplication
<1> HIDE DEF u, v, t
<1>3. u * v \in Nat
  BY <1>1
<1> QED
  BY <1>2, <1>3 DEF Natural, u, v, t

\* The numbers of the loop of mpz_pow() and mpz_powm(), and the power they still stand for.
Powering(p) ==
  Natural(p.r) /\ Natural(p.B) /\ Normal(p.E) /\ Size(p.E) \in Nat /\ Size(p.E) >= 1

Pending(p) == Value(p.r) * IntegerPower(Value(p.B), Size(p.E))

\* Multiplying b to the power e by r, one bit of e at a time, on the integers.
LEMMA OneBitOfPower ==
  ASSUME NEW r \in Int, NEW b \in Int, NEW h \in Nat, NEW o \in {0, 1}
  PROVE  r * IntegerPower(b, 2 * h + o) = (IF o = 1 THEN r * b ELSE r) * IntegerPower(b * b, h)
<1> DEFINE s == b * b
           y == IntegerPower(s, h)
<1>1. y \in Int
  <2>1. s \in Int
    OBVIOUS
  <2> HIDE DEF s
  <2> QED
    BY <2>1, IntegerPowerIs
<1>2. IntegerPower(b, 2 * h) = y /\ IntegerPower(b, 2 * h + 1) = b * y
  BY PowerSquare
<1> HIDE DEF y, s
<1>3. CASE o = 0
  <2>1. 2 * h + o = 2 * h
    BY <1>3
  <2> QED
    BY <1>2, <1>3, <2>1 DEF y, s
<1>4. CASE o = 1
  <2>1. IntegerPower(b, 2 * h + o) = b * y
    BY <1>2, <1>4
  <2>2. r * (b * y) = (r * b) * y
    BY <1>1
  <2> QED
    BY <1>4, <2>1, <2>2 DEF y, s
<1> QED
  BY <1>3, <1>4

\* One round changes nothing of what the numbers stand for, and halves the exponent.
LEMMA PowerStepMeans ==
  ASSUME NEW m, Modulus(m), NEW p, Powering(p)
  PROVE  LET t == PowerStep(p, m)
         IN  /\ Powering(t) /\ Pending(t) \in Int /\ Pending(p) \in Int
             /\ Same(m, Pending(t), Pending(p))
             /\ Size(p.E) = 1 => Size(t.E) = 1
             /\ Value(p.B) = 0 => Value(t.B) = 0
             /\ Size(p.E) > 1 => Size(p.E) \in {2 * Size(t.E), 2 * Size(t.E) + 1}
<1> DEFINE t == PowerStep(p, m)
           one == u32tompz(1)
           c == mpz_cmpabs(p.E, one)
           e == Size(p.E)
           r == Value(p.r)
           b == Value(p.B)
<1>1. Natural(p.r) /\ Natural(p.B) /\ Normal(p.E) /\ e \in Nat /\ e >= 1
  BY DEF Powering
<1>2. r \in Int /\ b \in Int
  BY <1>1, NaturalIs
<1>3. Pending(p) = r * IntegerPower(b, e)
  BY DEF Pending
<1>4. c <= 0 <=> e = 1
  <2>1. 1 \in Digit
    BY BaseFacts DEF Digit
  <2>2. Normal(one) /\ Size(one) = 1
    BY <2>1, ImmediateIs
  <2> HIDE DEF one
  <2>3. \/ c = 1 /\ e > 1
        \/ c = 0 /\ e = 1
        \/ c = -1 /\ e < 1
    BY <1>1, <2>2, ComparesMagnitudes
  <2> HIDE DEF c, e
  <2> QED
    BY <1>1, <2>3
<1>5. IntegerPower(b, e) \in Int
  <2> HIDE DEF b, e
  <2> QED
    BY <1>1, <1>2, IntegerPowerIs
<1>6. Pending(p) \in Int
  <2> DEFINE y == IntegerPower(b, e)
  <2>1. y \in Int /\ Pending(p) = r * y
    BY <1>3, <1>5
  <2> HIDE DEF y, r
  <2> QED
    BY <1>2, <2>1
<1>7. CASE e = 1
  <2>1. t = p
    BY <1>4, <1>7 DEF PowerStep
  <2>2. Same(m, Pending(t), Pending(p))
    BY <2>1 DEF Same
  <2> QED
    BY <1>6, <1>7, <2>1, <2>2
<1>8. CASE e # 1
  <2> DEFINE o == Odd(p.E)
             E == RShift1(p.E)
             h == Size(E)
             rB == mpz_mul(p.r, p.B)
             BB == mpz_mul(p.B, p.B)
             w == IF o = 1 THEN Reduce(rB, m) ELSE p.r
             B == Reduce(BB, m)
  <2>1. t = [r |-> w, B |-> B, E |-> E]
    BY <1>4, <1>8 DEF PowerStep
  <2>2. p.E.l >= 1
    <3>1. p.E.l \in Nat
      BY <1>1, CleanType DEF Normal
    <3>2. p.E.l = 0 <=> e = 0
      BY <1>1, ZeroSize
    <3> QED
      BY <1>1, <3>1, <3>2
  <2>3. Normal(E) /\ e = 2 * h + o /\ o \in {0, 1}
    BY <1>1, <2>2, RShiftIs
  <2>4. h \in Nat
    BY <2>3, SignIs
  <2>5. h >= 1
    <3> HIDE DEF h, o, e
    <3> QED
      BY <1>1, <1>8, <2>3, <2>4
  <2>6. Natural(rB) /\ Value(rB) = r * b /\ Natural(BB) /\ Value(BB) = b * b
    BY <1>1, NaturalProduct
  <2> HIDE DEF rB, BB
  <2>7. Natural(Reduce(rB, m)) /\ Same(m, Value(Reduce(rB, m)), r * b)
    BY <2>6, ReduceMeans
  <2>8. Natural(B) /\ Same(m, Value(B), b * b) /\ (b * b = 0 => Value(B) = 0)
    BY <2>6, ReduceMeans
  <2> DEFINE x1 == IF o = 1 THEN r * b ELSE r
             x2 == b * b
             y1 == Value(w)
             y2 == Value(B)
  <2>9. Natural(w) /\ Same(m, y1, x1)
    BY <1>1, <2>7 DEF Same
  <2> HIDE DEF w, B, E
  <2>10. y1 \in Int /\ y2 \in Int
    BY <2>8, <2>9, NaturalIs
  <2>11. x1 \in Int /\ x2 \in Int
    <3> HIDE DEF r, b
    <3> QED
      BY <1>2
  <2>12. t.r = w /\ t.B = B /\ t.E = E
    BY <2>1
  <2> HIDE DEF t
  <2>13. Pending(t) = y1 * IntegerPower(y2, h)
    BY <2>12 DEF Pending
  <2>14. Pending(p) = x1 * IntegerPower(x2, h)
    <3> HIDE DEF e, h, o, r, b
    <3>1. r * IntegerPower(b, 2 * h + o) = (IF o = 1 THEN r * b ELSE r) * IntegerPower(b * b, h)
      BY <1>2, <2>3, <2>4, OneBitOfPower
    <3> QED
      BY <1>3, <2>3, <3>1
  <2>15. Powering(t)
    BY <2>3, <2>4, <2>5, <2>8, <2>9, <2>12 DEF Powering
  <2>16. Same(m, y2, x2)
    BY <2>8
  <2> HIDE DEF x1, x2, y1, y2, h
  <2> DEFINE u == IntegerPower(x2, h)
             v == IntegerPower(y2, h)
  <2>17. u \in Int /\ v \in Int
    BY <2>4, <2>10, <2>11, IntegerPowerIs
  <2>18. Same(m, v, u)
    BY <2>4, <2>10, <2>11, <2>16, SamePower
  <2>19. Pending(t) = y1 * v /\ Pending(p) = x1 * u
    BY <2>13, <2>14
  <2> HIDE DEF u, v
  <2>20. Same(m, y1 * v, x1 * u)
    BY <2>9, <2>10, <2>11, <2>17, <2>18, SameProduct
  <2>21. y1 * v \in Int
    BY <2>10, <2>17
  <2>22. Size(t.E) = h
    BY <2>12 DEF h
  <2>23. e \in {2 * h, 2 * h + 1}
    <3> HIDE DEF e, o
    <3> QED
      BY <2>3, <2>4
  <2>24. b = 0 => Value(t.B) = 0
    <3>1. b = 0 => b * b = 0
      OBVIOUS
    <3> HIDE DEF b
    <3> QED
      BY <2>8, <2>12, <3>1
  <2> HIDE DEF e
  <2> QED
    BY <1>6, <1>8, <2>15, <2>19, <2>20, <2>21, <2>22, <2>23, <2>24 DEF e, t
<1> QED
  BY <1>7, <1>8

\* The rounds of the loop are enough to bring the exponent down to 1.
LEMMA EnoughRounds ==
  ASSUME NEW e, Normal(e)
  PROVE  Shifted(e.d, e.l, e.l * ATOMBITS) = 0
<1> DEFINE l == e.l
           A == ATOMBITS
           rounds == l * A
           zero == 0
<1>1. l \in Nat /\ A \in Nat /\ A >= 1
  BY CleanType, AtomAssumption DEF Normal
<1>2. rounds = A * l + zero /\ zero \in Nat /\ zero < A
  <2> HIDE DEF l, A
  <2> QED
    BY <1>1
<1>3. (A * l + zero) \div A = l /\ (A * l + zero) % A = zero
  <2> HIDE DEF l, A, zero
  <2> QED
    BY <1>1, <1>2, DivUnique
<1>4. 1 + l > l
  <2> HIDE DEF l
  <2> QED
    BY <1>1
<1>5. rounds \div A = l
  BY <1>2, <1>3
<1>6. From(e.d, l, 1 + rounds \div A) = 0
  <2>1. From(e.d, l, 1 + l) = 0
    <3> HIDE DEF l
    <3>1. ~ (1 + l <= l)
      BY <1>1
    <3> QED
      BY <3>1 DEF From
  <2> QED
    BY <1>5, <2>1
<1>7. 2 ^ (rounds % A) = 2 ^ zero
  BY <1>2, <1>3
<1> DEFINE y == 2 ^ zero
<1>8. y \in Nat /\ y >= 1
  BY PowerPositive
<1>9. Shifted(e.d, l, rounds) = 0 \div y
  BY <1>6, <1>7 DEF Shifted
<1> HIDE DEF y
<1>10. 0 \div y = 0
  BY <1>8
<1> QED
  BY <1>9, <1>10

\* The loop of mpz_pow() computes the power that it starts with.
LEMMA PowerLoopMeans ==
  ASSUME NEW r, Natural(r), NEW b, Natural(b), NEW e, Normal(e), Size(e) >= 1, NEW m, Modulus(m)
  PROVE  LET t == PowerLoop(r, b, e, m)
         IN  /\ Natural(t) /\ Same(m, Value(t), Value(r) * IntegerPower(Value(b), Size(e)))
             /\ Value(b) = 0 => Value(t) = 0
<1> DEFINE t == PowerLoop(r, b, e, m)
           rounds == e.l * ATOMBITS
           want == Value(r) * IntegerPower(Value(b), Size(e))
           Sh(k) == Shifted(e.d, e.l, k)
<1>1. Normal(r) /\ Normal(b) /\ Value(r) \in Int /\ Value(b) \in Int /\ Size(e) \in Nat
  BY NaturalIs, SignIs
<1>2. rounds \in Nat /\ \E F : PowerHistory(F, r, b, e, m)
  BY <1>1, PowerLoopIs
<1>3. PICK F : PowerHistory(F, r, b, e, m)
  BY <1>2
<1>4. /\ F[0] = [r |-> r, B |-> b, E |-> e]
      /\ \A k \in 1 .. rounds : F[k] = PowerStep(F[k - 1], m)
      /\ t = mpz_mul(F[rounds].r, F[rounds].B)
  BY <1>3 DEF PowerHistory
<1>5. Sh(0) = Size(e) /\ \A k \in Nat : Sh(k) \in Nat /\ Sh(k) \in {2 * Sh(k + 1), 2 * Sh(k + 1) + 1}
  <2>1. e.l \in Nat /\ \A k \in 1 .. e.l : e.d[k] \in Digit
    BY CleanType DEF Normal
  <2>2. Sh(0) = Size(e)
    BY <2>1, ShiftedWhole DEF Size
  <2>3. ASSUME NEW k \in Nat PROVE Sh(k) \in Nat /\ Sh(k) \in {2 * Sh(k + 1), 2 * Sh(k + 1) + 1}
    <3> DEFINE y == BitAt(e.d, e.l, k)
    <3>1. Sh(k) = 2 * Sh(k + 1) + y /\ Sh(k) \in Nat /\ Sh(k + 1) \in Nat /\ y \in {0, 1}
      BY <2>1, ShiftedStep
    <3> HIDE DEF y, Sh
    <3> QED
      BY <3>1
  <2> QED
    BY <2>2, <2>3
<1>6. Sh(rounds) = 0
  BY EnoughRounds
<1> HIDE DEF rounds, Sh, t
<1> DEFINE Good(k) == /\ Powering(F[k]) /\ Pending(F[k]) \in Int /\ Same(m, Pending(F[k]), want)
                      /\ Size(F[k].E) = 1 \/ Size(F[k].E) <= Sh(k)
                      /\ Value(b) = 0 => Value(F[k].B) = 0
           S == {k \in Nat : Good(k)}
<1>7. 0 \in S
  <2>1. F[0].r = r /\ F[0].B = b /\ F[0].E = e
    BY <1>4
  <2>2. Powering(F[0])
    BY <1>1, <2>1 DEF Powering
  <2>3. Pending(F[0]) = want
    BY <2>1 DEF Pending
  <2>4. Pending(F[0]) \in Int
    BY <2>2, PowerStepMeans
  <2>5. Same(m, Pending(F[0]), want)
    BY <2>3 DEF Same
  <2>6. Size(F[0].E) <= Sh(0)
    <3> DEFINE y == Size(e)
    <3>1. Size(F[0].E) = y /\ Sh(0) = y /\ y \in Nat
      BY <1>1, <1>5, <2>1
    <3> HIDE DEF y
    <3> QED
      BY <3>1
  <2> QED
    BY <2>1, <2>2, <2>4, <2>5, <2>6
<1>8. \A i \in 0 .. rounds - 1 : i \in S => i + 1 \in S
  <2>1. ASSUME NEW i \in 0 .. rounds - 1, i \in S PROVE i + 1 \in S
    <3> DEFINE k == i + 1
               p == F[i]
               q == F[k]
    <3>1. k \in 1 .. rounds /\ k - 1 = i /\ k \in Nat /\ i \in Nat
      BY <1>2
    <3>2. q = PowerStep(p, m)
      BY <1>4, <3>1
    <3>3. /\ Powering(p) /\ Pending(p) \in Int /\ Same(m, Pending(p), want) /\ (Size(p.E) = 1 \/ Size(p.E) <= Sh(i))
          /\ (Value(b) = 0 => Value(p.B) = 0)
      BY <2>1
    <3> HIDE DEF p, q, want
    <3>4. /\ Powering(q) /\ Pending(q) \in Int /\ Same(m, Pending(q), Pending(p))
          /\ Size(p.E) = 1 => Size(q.E) = 1
          /\ Value(p.B) = 0 => Value(q.B) = 0
          /\ Size(p.E) > 1 => Size(p.E) \in {2 * Size(q.E), 2 * Size(q.E) + 1}
      BY <3>2, <3>3, PowerStepMeans
    <3>5. Same(m, Pending(q), want)
      BY <3>3, <3>4 DEF Same
    <3>6. Size(q.E) = 1 \/ Size(q.E) <= Sh(k)
      <4> DEFINE y == Size(p.E)
                 z == Size(q.E)
                 u == Sh(i)
                 v == Sh(k)
      <4>1. y \in Nat /\ y >= 1 /\ z \in Nat
        BY <3>3, <3>4 DEF Powering
      <4>2. u \in Nat /\ v \in Nat /\ u \in {2 * v, 2 * v + 1}
        BY <1>5, <3>1
      <4>3. (y = 1 => z = 1) /\ (y > 1 => y \in {2 * z, 2 * z + 1}) /\ (y = 1 \/ y <= u)
        BY <3>3, <3>4
      <4> HIDE DEF y, z, u, v
      <4>4. z = 1 \/ z <= v
        BY <4>1, <4>2, <4>3
      <4> QED
        BY <4>4 DEF z, v
    <3>7. Good(k)
      BY <3>3, <3>4, <3>5, <3>6 DEF q
    <3> QED
      BY <3>1, <3>7
  <2> QED
    BY <2>1
<1> HIDE DEF S
<1>9. \A k \in 0 .. rounds : k \in S
  BY <1>2, <1>7, <1>8, UpTo
<1>10. Good(rounds)
  <2>1. rounds \in S
    BY <1>2, <1>9
  <2> QED
    BY <2>1 DEF S
<1> DEFINE p == F[rounds]
<1>11. /\ Powering(p) /\ Same(m, Pending(p), want) /\ (Size(p.E) = 1 \/ Size(p.E) <= 0)
       /\ (Value(b) = 0 => Value(p.B) = 0)
  BY <1>6, <1>10
<1>12. t = mpz_mul(p.r, p.B)
  BY <1>4
<1> HIDE DEF p, want
<1>13. Natural(p.r) /\ Natural(p.B) /\ Size(p.E) \in Nat /\ Size(p.E) >= 1
  BY <1>11 DEF Powering
<1>14. Size(p.E) = 1
  <2> DEFINE y == Size(p.E)
  <2>1. y \in Nat /\ y >= 1 /\ (y = 1 \/ y <= 0)
    BY <1>11, <1>13
  <2> HIDE DEF y
  <2> QED
    BY <2>1 DEF y
<1>15. Natural(t) /\ Value(t) = Value(p.r) * Value(p.B)
  BY <1>12, <1>13, NaturalProduct
<1>16. Pending(p) = Value(t)
  <2>1. Value(p.B) \in Int
    BY <1>13, NaturalIs
  <2>2. IntegerPower(Value(p.B), 1) = Value(p.B)
    BY <2>1, PowerSquare
  <2> QED
    BY <1>14, <1>15, <2>2 DEF Pending
<1>17. Value(b) = 0 => Value(t) = 0
  <2> DEFINE y == Value(p.r)
             z == Value(p.B)
  <2>1. y \in Int /\ Value(t) = y * z /\ (Value(b) = 0 => z = 0)
    BY <1>11, <1>13, <1>15, NaturalIs
  <2> HIDE DEF y, z
  <2> QED
    BY <2>1
<1> QED
  BY <1>11, <1>15, <1>16, <1>17 DEF want, t

\* What Power() makes of an exponent that is not zero: the power of the magnitude, or a
\* number congruent to it, with the sign of an odd power.
LEMMA PowerMeans ==
  ASSUME NEW b, Normal(b), NEW e, Normal(e), Size(e) >= 1, NEW m, Modulus(m)
  PROVE  \E t : /\ Natural(t) /\ Same(m, Value(t), IntegerPower(Size(b), Size(e)))
                /\ Size(b) = 0 => Value(t) = 0
                /\ Power(b, e, m) =
                     [t EXCEPT !.s = IF b.s = 1 /\ Size(e) % 2 = 1 THEN 1 ELSE 0]
<1> DEFINE B == mpz_set(mpz_init, b)
           E == mpz_set(mpz_init, e)
           one == mpz_set_ui(mpz_init, 1)
           t == PowerLoop(one, Positive(B), E, m)
           rs == IF B.s = 1 /\ Odd(E) = 1 THEN 1 ELSE 0
<1>1. Clean(mpz_init) /\ Clean(b) /\ Clean(e)
  BY InitNormal DEF Normal
<1>2. Normal(B) /\ B.s = b.s /\ Size(B) = Size(b)
  BY <1>1, SetCopies
<1>3. Normal(E) /\ Size(E) = Size(e)
  BY <1>1, SetCopies
<1>4. Normal(one) /\ Value(one) = 1
  <2>1. 1 \in Digit
    BY BaseFacts DEF Digit
  <2> QED
    BY <1>1, <2>1, SetUiIs
<1>5. Power(b, e, m) = [t EXCEPT !.s = rs]
  BY DEF Power
<1> HIDE DEF B, E, one
<1>6. Natural(one)
  BY <1>4 DEF Natural
<1>7. Natural(Positive(B)) /\ Value(Positive(B)) = Size(b)
  <2>1. Normal(Positive(B)) /\ Value(Positive(B)) = Size(b) /\ Size(B) \in Nat
    BY <1>2, PositiveIs, SignIs
  <2> QED
    BY <1>2, <2>1 DEF Natural
<1> DEFINE y == IntegerPower(Size(b), Size(e))
<1>8. /\ Natural(t) /\ Same(m, Value(t), 1 * y)
      /\ Size(b) = 0 => Value(t) = 0
  BY <1>3, <1>4, <1>6, <1>7, PowerLoopMeans
<1>9. 1 * y = y
  <2>1. Size(b) \in Int /\ Size(e) \in Nat
    BY SignIs
  <2>2. y \in Int
    BY <2>1, IntegerPowerIs
  <2> HIDE DEF y
  <2> QED
    BY <2>2
<1>10. Odd(E) = Size(e) % 2
  <2> DEFINE o == Odd(E)
             h == Size(RShift1(E))
             u == Size(e)
  <2>1. E.l >= 1
    <3>1. E.l \in Nat
      BY <1>3, CleanType DEF Normal
    <3>2. E.l = 0 <=> Size(E) = 0
      BY <1>3, ZeroSize
    <3> QED
      BY <1>3, <3>1, <3>2
  <2>2. u = 2 * h + o /\ o \in {0, 1}
    BY <1>3, <2>1, RShiftIs
  <2>3. h \in Nat
    <3>1. Normal(RShift1(E))
      BY <1>3, <2>1, RShiftIs
    <3> QED
      BY <3>1, SignIs
  <2> HIDE DEF o, h, u
  <2>4. u % 2 = o
    BY <2>2, <2>3
  <2> QED
    BY <2>4 DEF o, u
<1>11. rs = IF b.s = 1 /\ Size(e) % 2 = 1 THEN 1 ELSE 0
  BY <1>2, <1>10
<1> HIDE DEF t, y, rs
<1> QED
  BY <1>5, <1>8, <1>9, <1>11 DEF y

\* mpz_pow() fails for a negative exponent, and is exact for a positive one.
THEOREM PowerExact ==
  ASSUME NEW b, Normal(b), NEW e, Normal(e)
  PROVE  LET t == mpz_pow(b, e)
         IN  /\ Value(e) < 0 => t = SBN_INVAL
             /\ Value(e) > 0 => Normal(t) /\ Value(t) = IntegerPower(Value(b), Value(e))
<1> DEFINE t == mpz_pow(b, e)
           v == Value(b)
           u == Size(b)
           i == Value(e)
<1>1. v \in Int /\ u \in Nat /\ (b.s = 0 => v = u) /\ (b.s = 1 => v = -u) /\ b.s \in {0, 1}
  BY SignIs, ValueIs DEF Normal
<1>2. i \in Int /\ Size(e) \in Nat /\ (e.s = 0 => i = Size(e)) /\ (e.s = 1 => i = -Size(e)) /\ e.s \in {0, 1}
  BY SignIs, ValueIs DEF Normal
<1>3. ASSUME i < 0 PROVE t = SBN_INVAL
  <2>1. e.s = 1
    <3> HIDE DEF i
    <3> QED
      BY <1>2, <1>3
  <2> QED
    BY <2>1 DEF mpz_pow
<1>4. ASSUME i > 0 PROVE Normal(t) /\ Value(t) = IntegerPower(v, i)
  <2> HIDE DEF i, v, u
  <2>1. e.s = 0 /\ i = Size(e) /\ Size(e) >= 1 /\ i \in Nat
    BY <1>2, <1>4
  <2>2. t = Power(b, e, << >>)
    BY <2>1 DEF mpz_pow
  <2>3. Modulus(<< >>)
    BY DEF Modulus
  <2>4. PICK z : /\ Natural(z) /\ Same(<< >>, Value(z), IntegerPower(u, i))
                 /\ t = [z EXCEPT !.s = IF b.s = 1 /\ i % 2 = 1 THEN 1 ELSE 0]
    <3>1. \E z : /\ Natural(z) /\ Same(<< >>, Value(z), IntegerPower(Size(b), Size(e)))
                 /\ Size(b) = 0 => Value(z) = 0
                 /\ Power(b, e, << >>) = [z EXCEPT !.s = IF b.s = 1 /\ Size(e) % 2 = 1 THEN 1 ELSE 0]
      BY <2>1, <2>3, PowerMeans
    <3> QED
      BY <2>1, <2>2, <3>1 DEF u
  <2> DEFINE rs == IF b.s = 1 /\ i % 2 = 1 THEN 1 ELSE 0
             y == IntegerPower(u, i)
  <2>5. Normal(z) /\ Size(z) = y
    <3>1. Normal(z) /\ Value(z) = Size(z)
      BY <2>4, NaturalIs
    <3> QED
      BY <2>4, <3>1 DEF Same
  <2>6. rs \in {0, 1} /\ t = [z EXCEPT !.s = rs]
    BY <2>4
  <2>7. y \in Int
    BY <1>1, <2>1, IntegerPowerIs
  <2> HIDE DEF t, y, rs
  <2>8. Normal(t) /\ Value(t) = IF rs = 1 THEN -y ELSE y
    BY <2>5, <2>6, SignUpdate
  <2>9. (IF rs = 1 THEN -y ELSE y) = IntegerPower(v, i)
    <3>1. CASE b.s = 0
      BY <1>1, <3>1 DEF rs, y
    <3>2. CASE b.s = 1
      <4> DEFINE h == i \div 2
      <4>1. h \in Nat /\ (i % 2 = 1 => i = 2 * h + 1) /\ (i % 2 # 1 => i = 2 * h)
        BY <2>1
      <4> HIDE DEF h
      <4>2. /\ IntegerPower(-u, 2 * h) = IntegerPower(u, 2 * h)
            /\ IntegerPower(-u, 2 * h + 1) = -IntegerPower(u, 2 * h + 1)
        BY <1>1, <4>1, PowerSign
      <4>3. v = -u
        BY <1>1, <3>2
      <4>4. CASE i % 2 = 1
        BY <3>2, <4>1, <4>2, <4>3, <4>4 DEF rs, y
      <4>5. CASE i % 2 # 1
        BY <3>2, <4>1, <4>2, <4>3, <4>5 DEF rs, y
      <4> QED
        BY <4>4, <4>5
    <3> QED
      BY <1>1, <3>1, <3>2
  <2> QED
    BY <2>8, <2>9
<1> QED
  BY <1>3, <1>4

\* mpz_powm() fails for a negative exponent or a modulus that is zero, and is exact for a
\* positive exponent and a base that is not negative, whatever the sign of the modulus.
THEOREM PowerModuloExact ==
  ASSUME NEW b, Normal(b), NEW e, Normal(e), NEW o, Normal(o)
  PROVE  LET t == mpz_powm(b, e, o)
         IN  /\ Value(e) < 0 \/ Value(o) = 0 => t = SBN_INVAL
             /\ Value(e) > 0 /\ Value(o) # 0 => Normal(t)
             /\ Value(e) > 0 /\ Value(o) # 0 /\ Value(b) >= 0 =>
                  Value(t) = Residue(Value(b), Value(e), Abs(Value(o)))
<1> DEFINE t == mpz_powm(b, e, o)
           v == Value(b)
           u == Size(b)
           i == Value(e)
           d == Size(o)
           m == <<o>>
           p == Power(b, e, m)
<1>1. v \in Int /\ u \in Nat /\ (b.s = 0 => v = u) /\ (b.s = 1 => v = -u) /\ b.s \in {0, 1}
  BY SignIs, ValueIs DEF Normal
<1>2. i \in Int /\ Size(e) \in Nat /\ (e.s = 0 => i = Size(e)) /\ (e.s = 1 => i = -Size(e)) /\ e.s \in {0, 1}
  BY SignIs, ValueIs DEF Normal
<1>3. Value(o) \in Int /\ d \in Nat /\ Abs(Value(o)) = d /\ (Value(o) = 0 <=> d = 0) /\ (o.l = 0 <=> d = 0)
  <2> DEFINE y == Value(o)
  <2>1. y \in Int /\ d \in Nat /\ Abs(y) = d /\ (o.l = 0 <=> d = 0)
    BY SignIs, ZeroSize
  <2> HIDE DEF y, d
  <2>2. y = 0 <=> d = 0
    BY <2>1 DEF Abs
  <2> QED
    BY <2>1, <2>2 DEF y
<1>4. ASSUME i < 0 \/ Value(o) = 0 PROVE t = SBN_INVAL
  <2>1. e.s = 1 \/ o.l = 0
    <3> HIDE DEF i, d
    <3> QED
      BY <1>2, <1>3, <1>4
  <2> QED
    BY <2>1 DEF mpz_powm
<1>5. ASSUME i > 0, Value(o) # 0
      PROVE  Normal(t) /\ (v >= 0 => Value(t) = Residue(v, i, Abs(Value(o))))
  <2> HIDE DEF i, v, u
  <2>1. e.s = 0 /\ i = Size(e) /\ Size(e) >= 1 /\ i \in Nat
    BY <1>2, <1>5
  <2>2. d # 0 /\ d >= 1
    <3> HIDE DEF d
    <3> QED
      BY <1>3, <1>5
  <2>3. t = mpz_mod(p, o)
    BY <1>3, <2>1, <2>2 DEF mpz_powm
  <2>4. m # << >> /\ m[1] = o
    OBVIOUS
  <2>5. Modulus(m)
    <3> HIDE DEF m
    <3> QED
      BY <2>2, <2>4 DEF Modulus
  <2> HIDE DEF m
  <2>6. PICK z : /\ Natural(z) /\ Same(m, Value(z), IntegerPower(u, i))
                 /\ u = 0 => Value(z) = 0
                 /\ p = [z EXCEPT !.s = IF b.s = 1 /\ i % 2 = 1 THEN 1 ELSE 0]
    <3>1. \E z : /\ Natural(z) /\ Same(m, Value(z), IntegerPower(Size(b), Size(e)))
                 /\ Size(b) = 0 => Value(z) = 0
                 /\ Power(b, e, m) = [z EXCEPT !.s = IF b.s = 1 /\ Size(e) % 2 = 1 THEN 1 ELSE 0]
      BY <2>1, <2>5, PowerMeans
    <3> QED
      BY <2>1, <3>1 DEF u
  <2> DEFINE rs == IF b.s = 1 /\ i % 2 = 1 THEN 1 ELSE 0
             y == Value(z)
             w == Value(p)
  <2>7. Normal(z) /\ y \in Nat /\ Size(z) = y
    BY <2>6, NaturalIs
  <2>8. rs \in {0, 1} /\ p = [z EXCEPT !.s = rs]
    BY <2>6
  <2>9. rs = 1 => b.s = 1
    OBVIOUS
  <2> HIDE DEF p, rs
  <2>10. Normal(p) /\ w = IF rs = 1 THEN -Size(z) ELSE Size(z)
    BY <2>7, <2>8, SignUpdate
  <2>11. Normal(t) /\ (w >= 0 => Value(t) = w % Abs(Value(o)))
    BY <2>2, <2>3, <2>10, ModuloExact
  <2>12. ASSUME v >= 0 PROVE Value(t) = Residue(v, i, d)
    <3>1. v = u
      BY <1>1, <2>12
    <3>2. w = y
      <4> HIDE DEF w, y
      <4>1. rs = 1 => u = 0
        BY <1>1, <2>9, <2>12
      <4>2. u = 0 => y = 0
        BY <2>6 DEF y
      <4> QED
        BY <2>7, <2>10, <4>1, <4>2
    <3>3. Value(t) = y % d
      <4> HIDE DEF y, w, d
      <4> QED
        BY <1>3, <2>7, <2>11, <3>2
    <3>4. y % d = IntegerPower(u, i) % d
      <4>1. Same(m, y, IntegerPower(u, i))
        BY <2>6
      <4> QED
        BY <2>4, <4>1 DEF Same
    <3>5. Residue(v, i, d) = IntegerPower(v, i) % d
      <4> HIDE DEF d
      <4> QED
        BY <1>1, <1>3, <2>1, <2>2, ResidueIs
    <3> QED
      BY <3>1, <3>3, <3>4, <3>5
  <2> QED
    BY <1>3, <2>11, <2>12
<1> QED
  BY <1>4, <1>5

-----------------------------------------------------------------------------
(* What the commands compute.                                              *)

\* The meaning of a command of at most two operands, without the fold.
LEMMA MeaningIs ==
  ASSUME NEW cmd \in Operators, NEW a, NEW b
  PROVE  LET first == cmd \in {"-", "/", "%"}
             start == Neutral(cmd)
         IN  /\ Meaning(cmd, << >>) = start
             /\ Meaning(cmd, <<a>>) = IF first THEN IF cmd = "-" THEN -a ELSE a
                                      ELSE Apply(cmd, start, a)
             /\ Meaning(cmd, <<a, b>>) = IF first THEN Apply(cmd, a, b)
                                         ELSE Apply(cmd, Apply(cmd, start, a), b)
<1> DEFINE first == cmd \in {"-", "/", "%"}
           start == Neutral(cmd)
<1>1. cmd # "**" /\ (cmd \in {"+", "*"} <=> ~first) /\ (cmd = "-" => first)
  BY DEF Operators
<1>2. ASSUME NEW v, NEW s
      PROVE  /\ FoldFrom(cmd, s, << >>) = s
             /\ FoldFrom(cmd, s, <<v>>) = Apply(cmd, s, v)
  <2>1. DOMAIN << >> = {} /\ DOMAIN <<v>> = {1} /\ <<v>>[1] = v
    OBVIOUS
  <2>2. {} \in {{}, {1}, {1, 2}} /\ {1} \in {{}, {1}, {1, 2}} /\ {} # {1} /\ {} # {1, 2} /\ {1} # {1, 2}
    OBVIOUS
  <2>3. FoldFrom(cmd, s, << >>) = s
    BY <2>1, <2>2, FoldIs
  <2> DEFINE u == <<v>>
  <2>4. DOMAIN u = {1} /\ u[1] = v
    BY <2>1
  <2> HIDE DEF u
  <2>5. FoldFrom(cmd, s, u) = Apply(cmd, s, u[1])
    BY <2>2, <2>4, FoldIs
  <2> QED
    BY <2>3, <2>4, <2>5 DEF u
<1>3. FoldFrom(cmd, start, <<a, b>>) = Apply(cmd, Apply(cmd, start, a), b)
  <2> DEFINE u == <<a, b>>
  <2>1. DOMAIN u = {1, 2} /\ u[1] = a /\ u[2] = b
    OBVIOUS
  <2>2. {1, 2} \in {{}, {1}, {1, 2}} /\ {} # {1, 2} /\ {1} # {1, 2}
    OBVIOUS
  <2> HIDE DEF u, start
  <2>3. FoldFrom(cmd, start, u) = Apply(cmd, Apply(cmd, start, u[1]), u[2])
    BY <2>1, <2>2, FoldIs
  <2> QED
    BY <2>1, <2>3 DEF u
<1> HIDE DEF start
<1>4. Meaning(cmd, << >>) = start
  <2>1. FoldFrom(cmd, start, << >>) = start
    BY <1>2
  <2> QED
    BY <1>1, <2>1 DEF Meaning, start
<1>5. Meaning(cmd, <<a>>) = IF first THEN IF cmd = "-" THEN -a ELSE a ELSE Apply(cmd, start, a)
  <2>1. <<a>> # << >> /\ Len(<<a>>) = 1 /\ Head(<<a>>) = a /\ Tail(<<a>>) = << >> /\ <<a>>[1] = a
    OBVIOUS
  <2>2. FoldFrom(cmd, start, <<a>>) = Apply(cmd, start, a)
    BY <1>2
  <2>3. FoldFrom(cmd, a, << >>) = a
    BY <1>2
  <2>4. CASE first
    BY <1>1, <2>1, <2>3, <2>4 DEF Meaning
  <2>5. CASE ~first
    BY <1>1, <2>1, <2>2, <2>5 DEF Meaning, start
  <2> QED
    BY <2>4, <2>5
<1>6. Meaning(cmd, <<a, b>>) = IF first THEN Apply(cmd, a, b) ELSE Apply(cmd, Apply(cmd, start, a), b)
  <2>1. <<a, b>> # << >> /\ Len(<<a, b>>) = 2 /\ Head(<<a, b>>) = a /\ Tail(<<a, b>>) = <<b>>
    OBVIOUS
  <2>2. FoldFrom(cmd, a, <<b>>) = Apply(cmd, a, b)
    BY <1>2
  <2>3. CASE first
    BY <1>1, <2>1, <2>2, <2>3 DEF Meaning
  <2>4. CASE ~first
    BY <1>1, <1>3, <2>1, <2>4 DEF Meaning, start
  <2> QED
    BY <2>3, <2>4
<1> QED
  BY <1>4, <1>5, <1>6 DEF start

\* The loop of BigBasicObjCmd() for at most two operands.
LEMMA BasicShort ==
  ASSUME NEW cmd \in Operators, NEW a \in Arguments, NEW b \in Arguments
  PROVE  LET first == cmd \in {"-", "/", "%"}
         IN  /\ BigBasicObjCmd(cmd, << >>) = BasicStart(cmd, << >>)
             /\ BigBasicObjCmd(cmd, <<a>>) =
                  IF first THEN BasicStart(cmd, <<a>>)
                  ELSE BasicStep(cmd, BasicStart(cmd, <<a>>), a)
             /\ BigBasicObjCmd(cmd, <<a, b>>) =
                  IF first THEN BasicStep(cmd, BasicStart(cmd, <<a, b>>), b)
                  ELSE BasicStep(cmd, BasicStep(cmd, BasicStart(cmd, <<a, b>>), a), b)
<1> DEFINE first == cmd \in {"-", "/", "%"}
<1>1. BigBasicObjCmd(cmd, << >>) = BasicStart(cmd, << >>)
  <2> DEFINE nums == << >>
  <2>1. nums \in Seq(Arguments) /\ ~FirstIsStart(cmd, nums) /\ Len(nums) = 0
    BY DEF FirstIsStart
  <2> HIDE DEF nums
  <2>2. PICK F : BasicHistory(F, cmd, nums)
    BY <2>1, BasicIs
  <2>3. F[0] = BasicStart(cmd, nums) /\ BigBasicObjCmd(cmd, nums) = F[0]
    BY <2>1, <2>2 DEF BasicHistory
  <2> QED
    BY <2>3 DEF nums
<1>2. BigBasicObjCmd(cmd, <<a>>) = IF first THEN BasicStart(cmd, <<a>>)
                                   ELSE BasicStep(cmd, BasicStart(cmd, <<a>>), a)
  <2> DEFINE nums == <<a>>
  <2>1. /\ nums \in Seq(Arguments) /\ (FirstIsStart(cmd, nums) <=> first)
        /\ Len(nums) = 1 /\ nums[1] = a /\ Len(Tail(nums)) = 0
    BY DEF FirstIsStart
  <2> HIDE DEF nums
  <2>2. PICK F : BasicHistory(F, cmd, nums)
    BY <2>1, BasicIs
  <2>3. CASE first
    <3>1. F[0] = BasicStart(cmd, nums) /\ BigBasicObjCmd(cmd, nums) = F[0]
      BY <2>1, <2>2, <2>3 DEF BasicHistory
    <3> QED
      BY <2>3, <3>1 DEF nums
  <2>4. CASE ~first
    <3>1. /\ F[0] = BasicStart(cmd, nums) /\ BigBasicObjCmd(cmd, nums) = F[1]
          /\ \A k \in 1 .. 1 : F[k] = BasicStep(cmd, F[k - 1], nums[k])
      BY <2>1, <2>2, <2>4 DEF BasicHistory
    <3>2. F[1] = BasicStep(cmd, F[0], a)
      <4>1. 1 \in 1 .. 1 /\ 1 - 1 = 0
        OBVIOUS
      <4>2. F[1] = BasicStep(cmd, F[1 - 1], nums[1])
        BY <3>1, <4>1
      <4> QED
        BY <2>1, <4>1, <4>2
    <3> QED
      BY <2>4, <3>1, <3>2 DEF nums
  <2> QED
    BY <2>3, <2>4
<1>3. BigBasicObjCmd(cmd, <<a, b>>) =
        IF first THEN BasicStep(cmd, BasicStart(cmd, <<a, b>>), b)
        ELSE BasicStep(cmd, BasicStep(cmd, BasicStart(cmd, <<a, b>>), a), b)
  <2> DEFINE nums == <<a, b>>
             rest == Tail(nums)
  <2>1. /\ nums \in Seq(Arguments) /\ (FirstIsStart(cmd, nums) <=> first)
        /\ Len(nums) = 2 /\ nums[1] = a /\ nums[2] = b /\ Len(rest) = 1 /\ rest[1] = b
    BY DEF FirstIsStart
  <2> HIDE DEF nums
  <2>2. PICK F : BasicHistory(F, cmd, nums)
    BY <2>1, BasicIs
  <2>3. CASE first
    <3>1. /\ F[0] = BasicStart(cmd, nums) /\ BigBasicObjCmd(cmd, nums) = F[1]
          /\ \A k \in 1 .. 1 : F[k] = BasicStep(cmd, F[k - 1], rest[k])
      BY <2>1, <2>2, <2>3 DEF BasicHistory
    <3>2. F[1] = BasicStep(cmd, F[0], b)
      <4>1. 1 \in 1 .. 1 /\ 1 - 1 = 0
        OBVIOUS
      <4>2. F[1] = BasicStep(cmd, F[1 - 1], rest[1])
        BY <3>1, <4>1
      <4> QED
        BY <2>1, <4>1, <4>2
    <3> QED
      BY <2>3, <3>1, <3>2 DEF nums
  <2>4. CASE ~first
    <3>1. /\ F[0] = BasicStart(cmd, nums) /\ BigBasicObjCmd(cmd, nums) = F[2]
          /\ \A k \in 1 .. 2 : F[k] = BasicStep(cmd, F[k - 1], nums[k])
      BY <2>1, <2>2, <2>4 DEF BasicHistory
    <3>2. F[1] = BasicStep(cmd, F[0], a) /\ F[2] = BasicStep(cmd, F[1], b)
      <4>1. 1 \in 1 .. 2 /\ 2 \in 1 .. 2 /\ 1 - 1 = 0 /\ 2 - 1 = 1
        OBVIOUS
      <4>2. F[1] = BasicStep(cmd, F[1 - 1], nums[1]) /\ F[2] = BasicStep(cmd, F[2 - 1], nums[2])
        BY <3>1, <4>1
      <4> QED
        BY <2>1, <4>1, <4>2
    <3> QED
      BY <2>4, <3>1, <3>2 DEF nums
  <2> QED
    BY <2>3, <2>4
<1> QED
  BY <1>1, <1>2, <1>3

\* What one step of BigBasicObjCmd() computes.
LEMMA BasicStepMeans ==
  ASSUME NEW cmd \in Operators, NEW y, Normal(y), NEW z, Normal(z)
  PROVE  LET t == BasicStep(cmd, y, z)
             u == Value(y)
             v == Value(z)
         IN  IF cmd \in {"/", "%"} /\ v = 0 THEN t = SBN_INVAL
             ELSE /\ Normal(t)
                  /\ \/ cmd = "/" /\ Abs(u) = Abs(v)
                     \/ cmd = "%" /\ u < 0
                     \/ Value(t) = Apply(cmd, u, v)
<1> DEFINE t == BasicStep(cmd, y, z)
           u == Value(y)
           v == Value(z)
<1>1. SBN_INVAL \notin {y, z}
  BY NormalIsValid
<1>2. /\ u \in Int /\ v \in Int /\ Abs(u) = Size(y) /\ Abs(v) = Size(z)
      /\ Size(z) \in Nat
  BY SignIs
<1>3. v = 0 <=> Size(z) = 0
  <2> DEFINE d == Size(z)
  <2>1. v \in Int /\ Abs(v) = d /\ d \in Nat
    BY <1>2
  <2> HIDE DEF v, d
  <2>2. v = 0 <=> d = 0
    BY <2>1 DEF Abs
  <2> QED
    BY <2>2 DEF v, d
<1>4. cmd \in {"+", "-", "*", "/", "%"}
  BY DEF Operators
<1>5. CASE cmd = "+"
  <2>1. t = mpz_add(y, z) /\ Apply(cmd, u, v) = u + v
    BY <1>1, <1>5 DEF BasicStep, Apply
  <2> HIDE DEF t, u, v
  <2>2. Normal(t) /\ Value(t) = u + v
    BY <2>1, SignedAddition DEF u, v
  <2> QED
    BY <1>5, <2>1, <2>2 DEF t, u, v
<1>6. CASE cmd = "-"
  <2>1. t = mpz_sub(y, z) /\ Apply(cmd, u, v) = u - v
    BY <1>1, <1>6 DEF BasicStep, Apply
  <2> HIDE DEF t, u, v
  <2>2. Normal(t) /\ Value(t) = u - v
    BY <2>1, SignedSubtraction DEF u, v
  <2> QED
    BY <1>6, <2>1, <2>2 DEF t, u, v
<1>7. CASE cmd = "*"
  <2>1. t = mpz_mul(y, z) /\ Apply(cmd, u, v) = u * v
    BY <1>1, <1>7 DEF BasicStep, Apply
  <2> HIDE DEF t, u, v
  <2>2. Normal(t) /\ Value(t) = u * v
    BY <2>1, SignedMultiplication DEF u, v
  <2> QED
    BY <1>7, <2>1, <2>2 DEF t, u, v
<1>8. CASE cmd = "/"
  <2>1. t = mpz_tdiv_q(y, z) /\ Apply(cmd, u, v) = Quotient(u, v)
    BY <1>1, <1>8 DEF BasicStep, Apply
  <2> HIDE DEF t
  <2>2. IF Size(z) = 0 THEN t = SBN_INVAL
        ELSE Normal(t) /\ Value(t) = IF Size(y) = Size(z) THEN 1 ELSE Quotient(u, v)
    BY <2>1, QuotientExact
  <2> HIDE DEF u, v
  <2> QED
    BY <1>2, <1>3, <1>8, <2>1, <2>2 DEF t, u, v
<1>9. CASE cmd = "%"
  <2>1. t = mpz_mod(y, z) /\ Apply(cmd, u, v) = u % Abs(v)
    BY <1>1, <1>9 DEF BasicStep, Apply
  <2> HIDE DEF t
  <2>2. IF Size(z) = 0 THEN t = SBN_INVAL
        ELSE Normal(t) /\ (u >= 0 => Value(t) = u % Abs(v))
    BY <2>1, ModuloExact
  <2>3. u >= 0 \/ u < 0
    <3> HIDE DEF u
    <3> QED
      BY <1>2
  <2> HIDE DEF u, v
  <2> QED
    BY <1>2, <1>3, <1>9, <2>1, <2>2, <2>3 DEF t, u, v
<1> QED
  BY <1>4, <1>5, <1>6, <1>7, <1>8, <1>9

\* What BigBasicObjCmd() starts from.
LEMMA BasicStartMeans ==
  ASSUME NEW cmd \in Operators, NEW nums, NEW a, nums # << >> => nums[1] = a /\ Result(a)
  PROVE  LET t == BasicStart(cmd, nums)
         IN  IF cmd \notin {"-", "/", "%"} \/ nums = << >>
             THEN Normal(t) /\ Value(t) = Neutral(cmd)
             ELSE IF a = SBN_INVAL THEN t = SBN_INVAL
             ELSE Normal(t) /\ Value(t) = IF cmd = "-" /\ Len(nums) = 1 THEN -Value(a) ELSE Value(a)
<1> DEFINE t == BasicStart(cmd, nums)
           zero == mpz_setzero(mpz_init)
           one == mpz_set_ui(zero, 1)
           b == mpz_set(zero, a)
           w == [b EXCEPT !.s = 1 - @]
<1>1. Normal(zero) /\ Clean(zero) /\ Value(zero) = 0
  <2>1. Normal(zero) /\ Clean(zero) /\ Size(zero) = 0
    BY InitNormal, SetZeroIs DEF Normal
  <2>2. (zero.s = 0 => Value(zero) = 0) /\ (zero.s = 1 => Value(zero) = -0) /\ zero.s \in {0, 1}
    <3> HIDE DEF zero
    <3> QED
      BY <2>1, ValueIs, CleanType
  <2> HIDE DEF zero
  <2> QED
    BY <2>1, <2>2
<1>2. Normal(one) /\ Value(one) = 1
  <2>1. 1 \in Digit
    BY BaseFacts DEF Digit
  <2> HIDE DEF zero
  <2> QED
    BY <1>1, <2>1, SetUiIs
<1>3. CASE cmd \notin {"-", "/", "%"} \/ nums = << >>
  <2>1. ~FirstIsStart(cmd, nums)
    BY <1>3 DEF FirstIsStart
  <2>2. t = IF cmd \in {"*", "/"} THEN one ELSE zero
    BY <2>1 DEF BasicStart
  <2> HIDE DEF t, one, zero
  <2> QED
    BY <1>1, <1>2, <1>3, <2>2 DEF Neutral, t
<1>4. CASE ~(cmd \notin {"-", "/", "%"} \/ nums = << >>)
  <2>1. FirstIsStart(cmd, nums) /\ nums[1] = a /\ Result(a)
    BY <1>4 DEF FirstIsStart
  <2>2. CASE a = SBN_INVAL
    BY <1>4, <2>1, <2>2 DEF BasicStart
  <2>3. CASE a # SBN_INVAL
    <3>1. Normal(a)
      BY <2>1, <2>3 DEF Result
    <3>2. Clean(a)
      BY <3>1 DEF Normal
    <3>3. t = IF cmd = "-" /\ Len(nums) = 1 THEN w ELSE b
      BY <2>1, <2>3 DEF BasicStart
    <3> HIDE DEF zero, t
    <3>4. Normal(b) /\ Value(b) = Value(a)
      BY <1>1, <3>1, <3>2, SetCopies
    <3> HIDE DEF b
    <3>5. Clean(b) /\ b.s \in {0, 1}
      BY <3>4, CleanType DEF Normal
    <3> DEFINE s == 1 - b.s
    <3>6. s \in {0, 1} /\ w = [b EXCEPT !.s = s] /\ (s = 1 <=> b.s = 0)
      BY <3>5
    <3> HIDE DEF w, s
    <3>7. Normal(w) /\ Value(w) = IF s = 1 THEN -Size(b) ELSE Size(b)
      BY <3>4, <3>6, SignUpdate
    <3>8. Size(b) \in Nat /\ (b.s = 0 => Value(b) = Size(b)) /\ (b.s = 1 => Value(b) = -Size(b))
      BY <3>5, ValueIs
    <3> DEFINE y == Size(b)
               u == Value(b)
               v == Value(w)
    <3>9. v = -u
      <4>1. y \in Nat /\ (b.s = 0 => u = y) /\ (b.s = 1 => u = -y) /\ v = IF s = 1 THEN -y ELSE y
        BY <3>7, <3>8
      <4> HIDE DEF y, u, v
      <4> QED
        BY <3>5, <3>6, <4>1
    <3> QED
      BY <1>4, <2>3, <3>3, <3>4, <3>7, <3>9 DEF t
  <2> QED
    BY <2>2, <2>3
<1> QED
  BY <1>3, <1>4

\* The result t of a command of the integers v: it fails, is an exception, or is exact.
Means(cmd, v, t) ==
  IF Defined(cmd, v) THEN Exceptional(cmd, v) \/ (Normal(t) /\ Value(t) = Meaning(cmd, v))
  ELSE t = SBN_INVAL

\* When the basic commands have a result, and when it is an exception.
LEMMA BasicDefined ==
  ASSUME NEW cmd \in Operators, NEW u, NEW v
  PROVE  /\ Defined(cmd, << >>) /\ Defined(cmd, <<u>>)
         /\ Defined(cmd, <<u, v>>) <=> ~(cmd \in {"/", "%"} /\ v = 0)
         /\ Exceptional(cmd, <<u, v>>) <=>
              (cmd = "/" /\ Abs(u) = Abs(v)) \/ (cmd = "%" /\ u < 0)
<1>1. cmd # "**" /\ "/" # "%"
  BY DEF Operators
<1>2. ASSUME NEW w, NEW m \in {0, 1, 2}, Len(w) = m
      PROVE  Defined(cmd, w) <=> ~(cmd \in {"/", "%"} /\ m = 2 /\ w[2] = 0)
  <2>1. Defined(cmd, w) <=> ~(cmd \in {"/", "%"} /\ 0 \in {w[k] : k \in 2 .. m})
    BY <1>1, <1>2 DEF Defined
  <2>2. 2 .. m = IF m = 2 THEN {2} ELSE {}
    <3>1. 2 .. 0 = {} /\ 2 .. 1 = {} /\ 2 .. 2 = {2}
      OBVIOUS
    <3>2. m = 0 \/ m = 1 \/ m = 2
      OBVIOUS
    <3> QED
      BY <3>1, <3>2
  <2>3. 0 \in {w[k] : k \in 2 .. m} <=> m = 2 /\ w[2] = 0
    BY <2>2
  <2> QED
    BY <2>1, <2>3
<1>3. Defined(cmd, << >>)
  <2> DEFINE w == << >>
             m == 0
  <2>1. Len(w) = m /\ m \in {0, 1, 2} /\ m # 2
    OBVIOUS
  <2> HIDE DEF w, m
  <2>2. Defined(cmd, w)
    BY <1>2, <2>1
  <2> QED
    BY <2>2 DEF w
<1>4. Defined(cmd, <<u>>)
  <2> DEFINE w == <<u>>
             m == 1
  <2>1. Len(w) = m /\ m \in {0, 1, 2} /\ m # 2
    OBVIOUS
  <2> HIDE DEF w, m
  <2>2. Defined(cmd, w)
    BY <1>2, <2>1
  <2> QED
    BY <2>2 DEF w
<1>5. Defined(cmd, <<u, v>>) <=> ~(cmd \in {"/", "%"} /\ v = 0)
  <2> DEFINE w == <<u, v>>
             m == 2
  <2>1. Len(w) = m /\ m \in {0, 1, 2} /\ m = 2 /\ w[2] = v
    OBVIOUS
  <2> HIDE DEF w, m
  <2>2. Defined(cmd, w) <=> ~(cmd \in {"/", "%"} /\ v = 0)
    BY <1>2, <2>1
  <2> QED
    BY <2>2 DEF w
<1>6. Exceptional(cmd, <<u, v>>) <=> (cmd = "/" /\ Abs(u) = Abs(v)) \/ (cmd = "%" /\ u < 0)
  <2> DEFINE w == <<u, v>>
  <2>1. Len(w) = 2 /\ w[1] = u /\ w[2] = v
    OBVIOUS
  <2> HIDE DEF w
  <2>2. Exceptional(cmd, w) <=> (cmd = "/" /\ Abs(u) = Abs(v)) \/ (cmd = "%" /\ u < 0)
    BY <1>1, <2>1 DEF Exceptional
  <2> QED
    BY <2>2 DEF w
<1> QED
  BY <1>3, <1>4, <1>5, <1>6

\* BigBasicObjCmd() of at most two numbers.
LEMMA BasicMeans ==
  ASSUME NEW cmd \in Operators, NEW y, Normal(y), NEW z, Normal(z)
  PROVE  /\ Means(cmd, << >>, BigBasicObjCmd(cmd, << >>))
         /\ Means(cmd, <<Value(y)>>, BigBasicObjCmd(cmd, <<y>>))
         /\ Means(cmd, <<Value(y), Value(z)>>, BigBasicObjCmd(cmd, <<y, z>>))
<1> DEFINE first == cmd \in {"-", "/", "%"}
           u == Value(y)
           v == Value(z)
           start == Neutral(cmd)
           s0 == BasicStart(cmd, << >>)
           s1 == BasicStart(cmd, <<y>>)
           s2 == BasicStart(cmd, <<y, z>>)
           t0 == BigBasicObjCmd(cmd, << >>)
           t1 == BigBasicObjCmd(cmd, <<y>>)
           t2 == BigBasicObjCmd(cmd, <<y, z>>)
<1>1. y \in Arguments /\ z \in Arguments /\ Result(y) /\ Result(z) /\ y # SBN_INVAL /\ z # SBN_INVAL
  BY ArgumentsAre, NormalIsValid DEF Result
<1>2. /\ t0 = s0
      /\ t1 = IF first THEN s1 ELSE BasicStep(cmd, s1, y)
      /\ t2 = IF first THEN BasicStep(cmd, s2, z) ELSE BasicStep(cmd, BasicStep(cmd, s2, y), z)
  BY <1>1, BasicShort
<1>3. /\ Meaning(cmd, << >>) = start
      /\ Meaning(cmd, <<u>>) = IF first THEN IF cmd = "-" THEN -u ELSE u ELSE Apply(cmd, start, u)
      /\ Meaning(cmd, <<u, v>>) = IF first THEN Apply(cmd, u, v)
                                  ELSE Apply(cmd, Apply(cmd, start, u), v)
  BY MeaningIs
<1>4. /\ Defined(cmd, << >>) /\ Defined(cmd, <<u>>)
      /\ Defined(cmd, <<u, v>>) <=> ~(cmd \in {"/", "%"} /\ v = 0)
      /\ Exceptional(cmd, <<u, v>>) <=> (cmd = "/" /\ Abs(u) = Abs(v)) \/ (cmd = "%" /\ u < 0)
  BY BasicDefined
<1>5. Normal(s0) /\ Value(s0) = start
  BY <1>1, BasicStartMeans
<1>6. Normal(s1) /\ Value(s1) = IF first THEN IF cmd = "-" THEN -u ELSE u ELSE start
  <2> DEFINE nums == <<y>>
  <2>1. nums # << >> /\ nums[1] = y /\ Len(nums) = 1
    OBVIOUS
  <2> HIDE DEF nums
  <2>2. LET t == BasicStart(cmd, nums)
        IN  IF cmd \notin {"-", "/", "%"} \/ nums = << >>
            THEN Normal(t) /\ Value(t) = Neutral(cmd)
            ELSE IF y = SBN_INVAL THEN t = SBN_INVAL
            ELSE Normal(t) /\ Value(t) = IF cmd = "-" /\ Len(nums) = 1 THEN -Value(y) ELSE Value(y)
    BY <1>1, <2>1, BasicStartMeans
  <2> QED
    BY <1>1, <2>1, <2>2 DEF nums
<1>7. Normal(s2) /\ Value(s2) = IF first THEN u ELSE start
  <2> DEFINE nums == <<y, z>>
  <2>1. nums # << >> /\ nums[1] = y /\ Len(nums) # 1
    OBVIOUS
  <2> HIDE DEF nums
  <2>2. LET t == BasicStart(cmd, nums)
        IN  IF cmd \notin {"-", "/", "%"} \/ nums = << >>
            THEN Normal(t) /\ Value(t) = Neutral(cmd)
            ELSE IF y = SBN_INVAL THEN t = SBN_INVAL
            ELSE Normal(t) /\ Value(t) = IF cmd = "-" /\ Len(nums) = 1 THEN -Value(y) ELSE Value(y)
    BY <1>1, <2>1, BasicStartMeans
  <2> QED
    BY <1>1, <2>1, <2>2 DEF nums
<1>8. first \/ (cmd # "/" /\ cmd # "%")
  OBVIOUS
<1> HIDE DEF s0, s1, s2, t0, t1, t2, u, v, start
<1>9. Means(cmd, << >>, t0)
  BY <1>2, <1>3, <1>4, <1>5 DEF Means
<1>10. Means(cmd, <<u>>, t1)
  <2>1. CASE first
    BY <1>2, <1>3, <1>4, <1>6, <2>1 DEF Means
  <2>2. CASE ~first
    <3> DEFINE w == BasicStep(cmd, s1, y)
    <3>1. Normal(w) /\ Value(w) = Apply(cmd, start, u)
      <4>1. Value(s1) = start
        BY <1>6, <2>2
      <4> QED
        BY <1>6, <2>2, <4>1, BasicStepMeans DEF u
    <3> QED
      BY <1>2, <1>3, <1>4, <2>2, <3>1 DEF Means
  <2> QED
    BY <2>1, <2>2
<1>11. Means(cmd, <<u, v>>, t2)
  <2>1. CASE first
    <3> DEFINE w == BasicStep(cmd, s2, z)
    <3>1. IF cmd \in {"/", "%"} /\ v = 0 THEN w = SBN_INVAL
          ELSE /\ Normal(w)
               /\ \/ cmd = "/" /\ Abs(u) = Abs(v)
                  \/ cmd = "%" /\ u < 0
                  \/ Value(w) = Apply(cmd, u, v)
      <4>1. Value(s2) = u
        BY <1>7, <2>1
      <4>2. LET t == BasicStep(cmd, s2, z)
                x1 == Value(s2)
                x2 == Value(z)
            IN  IF cmd \in {"/", "%"} /\ x2 = 0 THEN t = SBN_INVAL
                ELSE /\ Normal(t)
                     /\ \/ cmd = "/" /\ Abs(x1) = Abs(x2)
                        \/ cmd = "%" /\ x1 < 0
                        \/ Value(t) = Apply(cmd, x1, x2)
        BY <1>7, BasicStepMeans
      <4> QED
        BY <4>1, <4>2 DEF v
    <3> QED
      BY <1>2, <1>3, <1>4, <2>1, <3>1 DEF Means
  <2>2. CASE ~first
    <3> DEFINE w == BasicStep(cmd, s2, y)
               e == BasicStep(cmd, w, z)
    <3>1. Normal(w) /\ Value(w) = Apply(cmd, start, u)
      <4>1. Value(s2) = start
        BY <1>7, <2>2
      <4> QED
        BY <1>7, <2>2, <4>1, BasicStepMeans DEF u
    <3>2. e = t2
      BY <1>2, <2>2
    <3> HIDE DEF w
    <3>3. Normal(e) /\ Value(e) = Apply(cmd, Value(w), v)
      BY <2>2, <3>1, BasicStepMeans DEF v
    <3> HIDE DEF e
    <3> QED
      BY <1>3, <1>4, <2>2, <3>1, <3>2, <3>3 DEF Means
  <2> QED
    BY <2>1, <2>2
<1> QED
  BY <1>9, <1>10, <1>11 DEF t0, t1, t2, u, v

\* BigBasicObjCmd() fails when an operand is no number.
LEMMA BasicFails ==
  ASSUME NEW cmd \in Operators, NEW y \in Arguments, NEW z \in Arguments
  PROVE  /\ y = SBN_INVAL => BigBasicObjCmd(cmd, <<y>>) = SBN_INVAL
         /\ SBN_INVAL \in {y, z} => BigBasicObjCmd(cmd, <<y, z>>) = SBN_INVAL
<1> DEFINE first == cmd \in {"-", "/", "%"}
           s1 == BasicStart(cmd, <<y>>)
           s2 == BasicStart(cmd, <<y, z>>)
<1>1. /\ BigBasicObjCmd(cmd, <<y>>) = IF first THEN s1 ELSE BasicStep(cmd, s1, y)
      /\ BigBasicObjCmd(cmd, <<y, z>>) =
           IF first THEN BasicStep(cmd, s2, z) ELSE BasicStep(cmd, BasicStep(cmd, s2, y), z)
  BY BasicShort
<1>2. first /\ y = SBN_INVAL => s1 = SBN_INVAL /\ s2 = SBN_INVAL
  <2>1. <<y>> # << >> /\ <<y>>[1] = y /\ <<y, z>> # << >> /\ <<y, z>>[1] = y
    OBVIOUS
  <2> QED
    BY <2>1 DEF BasicStart, FirstIsStart
<1>3. \A v, w : SBN_INVAL \in {v, w} => BasicStep(cmd, v, w) = SBN_INVAL
  BY DEF BasicStep
<1> HIDE DEF s1, s2
<1>4. y = SBN_INVAL => BigBasicObjCmd(cmd, <<y>>) = SBN_INVAL
  BY <1>1, <1>2, <1>3
<1>5. SBN_INVAL \in {y, z} => BigBasicObjCmd(cmd, <<y, z>>) = SBN_INVAL
  <2>1. CASE first
    BY <1>1, <1>2, <1>3, <2>1
  <2>2. CASE ~first
    BY <1>1, <1>3, <2>2
  <2> QED
    BY <2>1, <2>2
<1> QED
  BY <1>4, <1>5

\* BigPowObjCmd() of two numbers, and of three.
LEMMA PowMeans ==
  ASSUME NEW y, Normal(y), NEW z, Normal(z), NEW o, Normal(o)
  PROVE  /\ Means("**", <<Value(y), Value(z)>>, BigPowObjCmd(<<y, z>>))
         /\ Means("**", <<Value(y), Value(z), Value(o)>>, BigPowObjCmd(<<y, z, o>>))
<1> DEFINE u == Value(y)
           v == Value(z)
           w == Value(o)
           c == "**"
<1>1. y # SBN_INVAL /\ z # SBN_INVAL /\ o # SBN_INVAL
  BY NormalIsValid
<1>2. v \in Int /\ (v < 0 \/ v = 0 \/ v > 0) /\ u \in Int
  <2>1. v \in Int /\ u \in Int
    BY SignIs
  <2> HIDE DEF v, u
  <2> QED
    BY <2>1
<1>3. c = "**" /\ c # "/" /\ c # "%"
  OBVIOUS
<1>4. Means(c, <<u, v>>, BigPowObjCmd(<<y, z>>))
  <2> DEFINE nums == <<y, z>>
             vals == <<u, v>>
             t == BigPowObjCmd(nums)
             e == mpz_pow(y, z)
  <2>1. /\ Len(nums) = 2 /\ DOMAIN nums = 1 .. 2 /\ nums[1] = y /\ nums[2] = z
        /\ Len(vals) = 2 /\ vals[1] = u /\ vals[2] = v
    OBVIOUS
  <2> HIDE DEF nums, vals
  <2>2. SBN_INVAL \notin {nums[k] : k \in DOMAIN nums}
    <3>1. 1 .. 2 = {1, 2}
      OBVIOUS
    <3> QED
      BY <1>1, <2>1, <3>1
  <2>3. t = e
    BY <2>1, <2>2 DEF BigPowObjCmd
  <2>4. Defined(c, vals) <=> v >= 0
    BY <1>3, <2>1 DEF Defined
  <2>5. v = 0 => Exceptional(c, vals)
    BY <1>3, <2>1 DEF Exceptional
  <2>6. Meaning(c, vals) = IntegerPower(u, v)
    BY <1>3, <2>1 DEF Meaning
  <2>7. /\ v < 0 => e = SBN_INVAL
        /\ v > 0 => Normal(e) /\ Value(e) = IntegerPower(u, v)
    BY PowerExact
  <2> HIDE DEF t, e, u, v, c
  <2>8. Means(c, vals, t)
    <3>1. CASE v < 0
      <4>1. ~ (v >= 0)
        BY <1>2, <3>1
      <4> QED
        BY <2>3, <2>4, <2>7, <3>1, <4>1 DEF Means
    <3>2. CASE v = 0
      BY <2>4, <2>5, <3>2 DEF Means
    <3>3. CASE v > 0
      <4>1. v >= 0
        BY <1>2, <3>3
      <4> QED
        BY <2>3, <2>4, <2>6, <2>7, <3>3, <4>1 DEF Means
    <3> QED
      BY <1>2, <3>1, <3>2, <3>3
  <2> QED
    BY <2>8 DEF vals, t, nums
<1>5. Means(c, <<u, v, w>>, BigPowObjCmd(<<y, z, o>>))
  <2> DEFINE nums == <<y, z, o>>
             vals == <<u, v, w>>
             t == BigPowObjCmd(nums)
             e == mpz_powm(y, z, o)
  <2>1. /\ Len(nums) = 3 /\ DOMAIN nums = 1 .. 3 /\ nums[1] = y /\ nums[2] = z /\ nums[3] = o
        /\ Len(vals) = 3 /\ vals[1] = u /\ vals[2] = v /\ vals[3] = w
    OBVIOUS
  <2> HIDE DEF nums, vals
  <2>2. SBN_INVAL \notin {nums[k] : k \in DOMAIN nums}
    <3>1. 1 .. 3 = {1, 2, 3}
      OBVIOUS
    <3> QED
      BY <1>1, <2>1, <3>1
  <2>3. t = e
    BY <2>1, <2>2 DEF BigPowObjCmd
  <2>4. Defined(c, vals) <=> v >= 0 /\ w # 0
    BY <1>3, <2>1 DEF Defined
  <2>5. v = 0 \/ u < 0 => Exceptional(c, vals)
    BY <1>3, <2>1 DEF Exceptional
  <2>6. Meaning(c, vals) = Residue(u, v, Abs(w))
    <3>1. Len(vals) # 2
      BY <2>1
    <3> QED
      BY <1>3, <2>1, <3>1 DEF Meaning
  <2>7. /\ v < 0 \/ w = 0 => e = SBN_INVAL
        /\ v > 0 /\ w # 0 => Normal(e)
        /\ v > 0 /\ w # 0 /\ u >= 0 => Value(e) = Residue(u, v, Abs(w))
    BY PowerModuloExact
  <2> HIDE DEF t, e, u, v, w, c
  <2>8. Means(c, vals, t)
    <3>1. CASE v < 0 \/ w = 0
      <4>1. ~ (v >= 0 /\ w # 0)
        BY <1>2, <3>1
      <4> QED
        BY <2>3, <2>4, <2>7, <3>1, <4>1 DEF Means
    <3>2. CASE ~(v < 0 \/ w = 0) /\ (v = 0 \/ u < 0)
      <4>1. v >= 0 /\ w # 0
        BY <1>2, <3>2
      <4> QED
        BY <2>4, <2>5, <3>2, <4>1 DEF Means
    <3>3. CASE ~(v < 0 \/ w = 0) /\ ~(v = 0 \/ u < 0)
      <4>1. v >= 0 /\ v > 0 /\ w # 0 /\ u >= 0
        BY <1>2, <3>3
      <4> QED
        BY <2>3, <2>4, <2>6, <2>7, <4>1 DEF Means
    <3> QED
      BY <3>1, <3>2, <3>3
  <2> QED
    BY <2>8 DEF vals, t, nums
<1> QED
  BY <1>4, <1>5

\* An object that is no number has none.
LEMMA NoNumber ==
  ASSUME NEW o, Known(o), ~o.ok
  PROVE  Tcl_GetMpzFromObj(o) = SBN_INVAL
<1> DEFINE t == mpz_set_str(o.text[1])
<1>1. o.mpz = << >> /\ o \in Words
  BY DEF Known
<1>2. o.ok = (t # SBN_INVAL)
  BY <1>1, WordIs
<1>3. t = SBN_INVAL
  <2> HIDE DEF t
  <2> QED
    BY <1>2
<1>4. SetMpzFromAny(o) = o
  BY <1>3 DEF SetMpzFromAny
<1> QED
  BY <1>1, <1>4 DEF Tcl_GetMpzFromObj

\* The record of a command whose result is right.
Answers(r) ==
  r.cmd \in Operators \cup {"**"} =>
    IF r.legal /\ Defined(r.cmd, r.args)
    THEN ~Exceptional(r.cmd, r.args) => r.out = <<Meaning(r.cmd, r.args)>>
    ELSE r.out = << >>

\* A command that stores what Means says keeps Answers: BignumTobj returns
\* t and the interpreter sees its value, or an error for SBN_INVAL.
LEMMA StoreAnswers ==
  ASSUME NEW cmd, NEW args, NEW t, Store(cmd, args, t),
         Legal(args) => Means(cmd, Values(args), t), ~Legal(args) => t = SBN_INVAL
  PROVE  Answers(last')
<1> DEFINE r == last'
           v == Values(args)
           p == Legal(args)
           y == Value(t)
<1>1. r.cmd = cmd /\ r.args = v /\ r.legal = p /\ r.out = IF t = SBN_INVAL THEN << >> ELSE <<y>>
  BY DEF Store
<1> HIDE DEF r, v, p
<1>2. CASE p /\ Defined(cmd, v)
  <2>1. Exceptional(cmd, v) \/ (Normal(t) /\ y = Meaning(cmd, v))
    BY <1>2 DEF Means, v, p
  <2>2. Normal(t) => t # SBN_INVAL
    BY NormalIsValid
  <2>3. ~Exceptional(cmd, v) => r.out = <<Meaning(cmd, v)>>
    BY <1>1, <2>1, <2>2
  <2>4. Answers(r)
    BY <1>1, <1>2, <2>3 DEF Answers
  <2> QED
    BY <2>4 DEF r
<1>3. CASE ~(p /\ Defined(cmd, v))
  <2>1. t = SBN_INVAL
    BY <1>3 DEF Means, v, p
  <2>2. r.out = << >>
    BY <1>1, <2>1
  <2>3. Answers(r)
    BY <1>1, <1>3, <2>2 DEF Answers
  <2> QED
    BY <2>3 DEF r
<1> QED
  BY <1>2, <1>3

\* A command that is no operation.
LEMMA StoreOther ==
  ASSUME NEW cmd, cmd \notin Operators \cup {"**"}, NEW args, NEW t, Store(cmd, args, t)
  PROVE  Answers(last')
<1>1. last'.cmd = cmd
  BY DEF Store
<1> QED
  BY <1>1 DEF Answers

\* The operands of a command, one by one.
LEMMA OperandsAre ==
  /\ Numbers(<< >>) = << >> /\ Values(<< >>) = << >> /\ Legal(<< >>)
  /\ \A a : /\ Numbers(<<a>>) = <<Tcl_GetMpzFromObj(a)>> /\ Values(<<a>>) = <<a.value>>
            /\ Legal(<<a>>) <=> a.ok
  /\ \A a, b : /\ Numbers(<<a, b>>) = <<Tcl_GetMpzFromObj(a), Tcl_GetMpzFromObj(b)>>
               /\ Values(<<a, b>>) = <<a.value, b.value>>
               /\ Legal(<<a, b>>) <=> a.ok /\ b.ok
  /\ \A a, b, c : /\ Numbers(<<a, b, c>>) = <<Tcl_GetMpzFromObj(a), Tcl_GetMpzFromObj(b), Tcl_GetMpzFromObj(c)>>
                  /\ Values(<<a, b, c>>) = <<a.value, b.value, c.value>>
                  /\ Legal(<<a, b, c>>) <=> a.ok /\ b.ok /\ c.ok
<1>1. Numbers(<< >>) = << >> /\ Values(<< >>) = << >> /\ Legal(<< >>)
  BY DEF Numbers, Values, Legal
<1>2. ASSUME NEW a
      PROVE  /\ Numbers(<<a>>) = <<Tcl_GetMpzFromObj(a)>> /\ Values(<<a>>) = <<a.value>>
             /\ Legal(<<a>>) <=> a.ok
  <2> DEFINE w == <<a>>
  <2>1. w = [k \in 1 .. 1 |-> w[k]] /\ DOMAIN w = {1} /\ w[1] = a
    OBVIOUS
  <2> HIDE DEF w
  <2>2. Numbers(w) = [k \in {1} |-> Tcl_GetMpzFromObj(w[k])] /\ Values(w) = [k \in {1} |-> w[k].value]
    BY <2>1 DEF Numbers, Values
  <2>3. Legal(w) <=> a.ok
    BY <2>1 DEF Legal
  <2> DEFINE e == Tcl_GetMpzFromObj(a)
             f == a.value
  <2>4. \A k \in {1} : Tcl_GetMpzFromObj(w[k]) = e /\ w[k].value = f
    BY <2>1
  <2> HIDE DEF e, f
  <2>5. Numbers(w) = [k \in {1} |-> e] /\ Values(w) = [k \in {1} |-> f]
    BY <2>2, <2>4
  <2>6. <<e>> = [k \in {1} |-> e] /\ <<f>> = [k \in {1} |-> f]
    OBVIOUS
  <2> QED
    BY <2>3, <2>5, <2>6 DEF w, e, f
<1>3. ASSUME NEW a, NEW b
      PROVE  /\ Numbers(<<a, b>>) = <<Tcl_GetMpzFromObj(a), Tcl_GetMpzFromObj(b)>>
             /\ Values(<<a, b>>) = <<a.value, b.value>>
             /\ Legal(<<a, b>>) <=> a.ok /\ b.ok
  <2> DEFINE w == <<a, b>>
             e1 == Tcl_GetMpzFromObj(a)
             e2 == Tcl_GetMpzFromObj(b)
             f1 == a.value
             f2 == b.value
             e == <<e1, e2>>
             f == <<f1, f2>>
  <2>1. DOMAIN w = {1, 2} /\ w[1] = a /\ w[2] = b
    OBVIOUS
  <2> HIDE DEF w
  <2>2. Numbers(w) = [k \in {1, 2} |-> Tcl_GetMpzFromObj(w[k])] /\ Values(w) = [k \in {1, 2} |-> w[k].value]
    BY <2>1 DEF Numbers, Values
  <2>3. Legal(w) <=> a.ok /\ b.ok
    BY <2>1 DEF Legal
  <2>4. \A k \in {1, 2} : Tcl_GetMpzFromObj(w[k]) = e[k] /\ w[k].value = f[k]
    BY <2>1
  <2> HIDE DEF e1, e2, f1, f2
  <2>5. e = [k \in {1, 2} |-> e[k]] /\ f = [k \in {1, 2} |-> f[k]]
    OBVIOUS
  <2> HIDE DEF e, f
  <2>6. Numbers(w) = e /\ Values(w) = f
    BY <2>2, <2>4, <2>5
  <2> QED
    BY <2>3, <2>6 DEF w, e, f, e1, e2, f1, f2
<1>4. ASSUME NEW a, NEW b, NEW c
      PROVE  /\ Numbers(<<a, b, c>>) = <<Tcl_GetMpzFromObj(a), Tcl_GetMpzFromObj(b), Tcl_GetMpzFromObj(c)>>
             /\ Values(<<a, b, c>>) = <<a.value, b.value, c.value>>
             /\ Legal(<<a, b, c>>) <=> a.ok /\ b.ok /\ c.ok
  <2> DEFINE w == <<a, b, c>>
             e1 == Tcl_GetMpzFromObj(a)
             e2 == Tcl_GetMpzFromObj(b)
             e3 == Tcl_GetMpzFromObj(c)
             f1 == a.value
             f2 == b.value
             f3 == c.value
             e == <<e1, e2, e3>>
             f == <<f1, f2, f3>>
  <2>1. DOMAIN w = {1, 2, 3} /\ w[1] = a /\ w[2] = b /\ w[3] = c
    OBVIOUS
  <2> HIDE DEF w
  <2>2. /\ Numbers(w) = [k \in {1, 2, 3} |-> Tcl_GetMpzFromObj(w[k])]
        /\ Values(w) = [k \in {1, 2, 3} |-> w[k].value]
    BY <2>1 DEF Numbers, Values
  <2>3. Legal(w) <=> a.ok /\ b.ok /\ c.ok
    BY <2>1 DEF Legal
  <2>4. \A k \in {1, 2, 3} : Tcl_GetMpzFromObj(w[k]) = e[k] /\ w[k].value = f[k]
    BY <2>1
  <2> HIDE DEF e1, e2, e3, f1, f2, f3
  <2>5. e = [k \in {1, 2, 3} |-> e[k]] /\ f = [k \in {1, 2, 3} |-> f[k]]
    OBVIOUS
  <2> HIDE DEF e, f
  <2>6. Numbers(w) = e /\ Values(w) = f
    BY <2>2, <2>4, <2>5
  <2> QED
    BY <2>3, <2>6 DEF w, e, f, e1, e2, e3, f1, f2, f3
<1> QED
  BY <1>1, <1>2, <1>3, <1>4

\* A known operand is a number, or none.
LEMMA OperandIs ==
  ASSUME NEW o, Known(o)
  PROVE  LET y == Tcl_GetMpzFromObj(o)
         IN  /\ y \in Arguments
             /\ o.ok => Normal(y) /\ Value(y) = o.value
             /\ ~o.ok => y = SBN_INVAL
BY GetMpzIs, NoNumber, ArgumentsAre

\* The basic commands of known operands answer right.
LEMMA BasicAnswers ==
  ASSUME NEW cmd \in Operators, NEW a, Known(a), NEW b, Known(b)
  PROVE  \A args \in {<< >>, <<a>>, <<a, b>>} :
           LET t == BigBasicObjCmd(cmd, Numbers(args))
           IN  /\ Legal(args) => Means(cmd, Values(args), t)
               /\ ~Legal(args) => t = SBN_INVAL
<1> DEFINE y == Tcl_GetMpzFromObj(a)
           z == Tcl_GetMpzFromObj(b)
           Right(args) == LET t == BigBasicObjCmd(cmd, Numbers(args))
                          IN  /\ Legal(args) => Means(cmd, Values(args), t)
                              /\ ~Legal(args) => t = SBN_INVAL
<1>1. /\ y \in Arguments /\ (a.ok => Normal(y) /\ Value(y) = a.value) /\ (~a.ok => y = SBN_INVAL)
      /\ z \in Arguments /\ (b.ok => Normal(z) /\ Value(z) = b.value) /\ (~b.ok => z = SBN_INVAL)
  BY OperandIs
<1>2. /\ Numbers(<< >>) = << >> /\ Values(<< >>) = << >> /\ Legal(<< >>)
      /\ Numbers(<<a>>) = <<y>> /\ Values(<<a>>) = <<a.value>> /\ (Legal(<<a>>) <=> a.ok)
      /\ Numbers(<<a, b>>) = <<y, z>> /\ Values(<<a, b>>) = <<a.value, b.value>>
      /\ (Legal(<<a, b>>) <=> a.ok /\ b.ok)
  BY OperandsAre
<1> HIDE DEF y, z
<1>3. Right(<< >>)
  <2>1. Normal(mpz_init)
    BY InitNormal
  <2>2. Means(cmd, << >>, BigBasicObjCmd(cmd, << >>))
    BY <2>1, BasicMeans
  <2> QED
    BY <1>2, <2>2
<1>4. Right(<<a>>)
  <2>1. CASE a.ok
    <3>1. Means(cmd, <<Value(y)>>, BigBasicObjCmd(cmd, <<y>>))
      BY <1>1, <2>1, BasicMeans
    <3> QED
      BY <1>1, <1>2, <2>1, <3>1
  <2>2. CASE ~a.ok
    <3>1. BigBasicObjCmd(cmd, <<y>>) = SBN_INVAL
      BY <1>1, <2>2, BasicFails
    <3> QED
      BY <1>2, <2>2, <3>1
  <2> QED
    BY <2>1, <2>2
<1>5. Right(<<a, b>>)
  <2>1. CASE a.ok /\ b.ok
    <3>1. Means(cmd, <<Value(y), Value(z)>>, BigBasicObjCmd(cmd, <<y, z>>))
      BY <1>1, <2>1, BasicMeans
    <3> QED
      BY <1>1, <1>2, <2>1, <3>1
  <2>2. CASE ~(a.ok /\ b.ok)
    <3>1. SBN_INVAL \in {y, z}
      BY <1>1, <2>2
    <3>2. BigBasicObjCmd(cmd, <<y, z>>) = SBN_INVAL
      BY <1>1, <3>1, BasicFails
    <3> QED
      BY <1>2, <2>2, <3>2
  <2> QED
    BY <2>1, <2>2
<1> HIDE DEF Right
<1>6. \A args \in {<< >>, <<a>>, <<a, b>>} : Right(args)
  BY <1>3, <1>4, <1>5
<1> QED
  BY <1>6 DEF Right

\* So do the powers.
LEMMA PowAnswers ==
  ASSUME NEW a, Known(a), NEW b, Known(b), NEW c, Known(c)
  PROVE  \A args \in {<<a, b>>, <<a, b, c>>} :
           LET t == BigPowObjCmd(Numbers(args))
           IN  /\ Legal(args) => Means("**", Values(args), t)
               /\ ~Legal(args) => t = SBN_INVAL
<1> DEFINE y == Tcl_GetMpzFromObj(a)
           z == Tcl_GetMpzFromObj(b)
           o == Tcl_GetMpzFromObj(c)
           Right(args) == LET t == BigPowObjCmd(Numbers(args))
                          IN  /\ Legal(args) => Means("**", Values(args), t)
                              /\ ~Legal(args) => t = SBN_INVAL
<1>1. /\ (a.ok => Normal(y) /\ Value(y) = a.value) /\ (~a.ok => y = SBN_INVAL)
      /\ (b.ok => Normal(z) /\ Value(z) = b.value) /\ (~b.ok => z = SBN_INVAL)
      /\ (c.ok => Normal(o) /\ Value(o) = c.value) /\ (~c.ok => o = SBN_INVAL)
  BY OperandIs
<1>2. /\ Numbers(<<a, b>>) = <<y, z>> /\ Values(<<a, b>>) = <<a.value, b.value>>
      /\ (Legal(<<a, b>>) <=> a.ok /\ b.ok)
      /\ Numbers(<<a, b, c>>) = <<y, z, o>> /\ Values(<<a, b, c>>) = <<a.value, b.value, c.value>>
      /\ (Legal(<<a, b, c>>) <=> a.ok /\ b.ok /\ c.ok)
  BY OperandsAre
<1> HIDE DEF y, z, o
<1>3. Right(<<a, b>>)
  <2>1. CASE a.ok /\ b.ok
    <3>1. Means("**", <<Value(y), Value(z)>>, BigPowObjCmd(<<y, z>>))
      BY <1>1, <2>1, PowMeans
    <3> QED
      BY <1>1, <1>2, <2>1, <3>1
  <2>2. CASE ~(a.ok /\ b.ok)
    <3> DEFINE nums == <<y, z>>
    <3>1. DOMAIN nums = {1, 2} /\ nums[1] = y /\ nums[2] = z
      OBVIOUS
    <3> HIDE DEF nums
    <3>2. SBN_INVAL \in {nums[k] : k \in DOMAIN nums}
      BY <1>1, <2>2, <3>1
    <3>3. BigPowObjCmd(nums) = SBN_INVAL
      BY <3>2 DEF BigPowObjCmd
    <3> QED
      BY <1>2, <2>2, <3>3 DEF nums
  <2> QED
    BY <2>1, <2>2
<1>4. Right(<<a, b, c>>)
  <2>1. CASE a.ok /\ b.ok /\ c.ok
    <3>1. Means("**", <<Value(y), Value(z), Value(o)>>, BigPowObjCmd(<<y, z, o>>))
      BY <1>1, <2>1, PowMeans
    <3> QED
      BY <1>1, <1>2, <2>1, <3>1
  <2>2. CASE ~(a.ok /\ b.ok /\ c.ok)
    <3> DEFINE nums == <<y, z, o>>
    <3>1. DOMAIN nums = {1, 2, 3} /\ nums[1] = y /\ nums[2] = z /\ nums[3] = o
      OBVIOUS
    <3> HIDE DEF nums
    <3>2. SBN_INVAL \in {nums[k] : k \in DOMAIN nums}
      BY <1>1, <2>2, <3>1
    <3>3. BigPowObjCmd(nums) = SBN_INVAL
      BY <3>2 DEF BigPowObjCmd
    <3> QED
      BY <1>2, <2>2, <3>3 DEF nums
  <2> QED
    BY <2>1, <2>2
<1> HIDE DEF Right
<1>5. \A args \in {<<a, b>>, <<a, b, c>>} : Right(args)
  BY <1>3, <1>4
<1> QED
  BY <1>5 DEF Right

\* Apart from the exceptions, a command returns what it means on the integers, whatever its
\* operands went through before, and fails exactly when an operand is no number or the result
\* is not defined: carries, borrows, long division and squaring lose nothing (sbignum.c).
THEOREM AlwaysExact == Spec => []Arithmetic
<1>1. Init => NumberKept /\ Answers(last)
  <2>1. Init => last.cmd = "none"
    BY DEF Init, Nothing
  <2>2. "none" \notin Operators \cup {"**"}
    BY DEF Operators
  <2>3. Init => Answers(last)
    BY <2>1, <2>2 DEF Answers
  <2> QED
    BY <2>3, StartsWithNumber
<1>2. NumberKept /\ Answers(last) /\ [Next]_vars => NumberKept' /\ Answers(last)'
  <2> SUFFICES ASSUME NumberKept, Answers(last), [Next]_vars PROVE NumberKept' /\ Answers(last')
    OBVIOUS
  <2>1. NumberKept'
    BY StepKeepsNumber
  <2>2. Known(x)
    BY DEF NumberKept
  <2>3. CASE Basic
    <3>1. PICK cmd \in Operators, args \in Operands \cup {<< >>} :
             Store(cmd, args, BigBasicObjCmd(cmd, Numbers(args)))
      BY <2>3 DEF Basic
    <3>2. PICK a, b : Known(a) /\ Known(b) /\ args \in {<< >>, <<a>>, <<a, b>>}
      <4>1. \/ args = << >> \/ args = <<x>> \/ args = <<x, x>>
            \/ \E w \in Words : args = <<x, w>> \/ args = <<w, x>>
        BY DEF Operands
      <4> QED
        BY <2>2, <4>1, WordsKnown
    <3> DEFINE t == BigBasicObjCmd(cmd, Numbers(args))
    <3>3. (Legal(args) => Means(cmd, Values(args), t)) /\ (~Legal(args) => t = SBN_INVAL)
      BY <3>2, BasicAnswers
    <3>4. Store(cmd, args, t)
      BY <3>1
    <3> HIDE DEF t
    <3>5. Answers(last')
      BY <3>3, <3>4, StoreAnswers
    <3> QED
      BY <2>1, <3>5
  <2>4. CASE Pow
    <3>1. PICK args : /\ Store("**", args, BigPowObjCmd(Numbers(args)))
                      /\ \E a, b, c : Known(a) /\ Known(b) /\ Known(c) /\ args \in {<<a, b>>, <<a, b, c>>}
      <4>1. CASE \E w \in Words : Store("**", <<x, w>>, BigPowObjCmd(Numbers(<<x, w>>)))
        BY <2>2, <4>1, WordsKnown
      <4>2. CASE \E w, o \in Words : Store("**", <<x, w, o>>, BigPowObjCmd(Numbers(<<x, w, o>>)))
        BY <2>2, <4>2, WordsKnown
      <4> QED
        BY <2>4, <4>1, <4>2 DEF Pow
    <3>2. PICK a, b, c : Known(a) /\ Known(b) /\ Known(c) /\ args \in {<<a, b>>, <<a, b, c>>}
      BY <3>1
    <3> DEFINE t == BigPowObjCmd(Numbers(args))
    <3>3. (Legal(args) => Means("**", Values(args), t)) /\ (~Legal(args) => t = SBN_INVAL)
      BY <3>2, PowAnswers
    <3>4. Store("**", args, t)
      BY <3>1
    <3> HIDE DEF t
    <3>5. Answers(last')
      BY <3>3, <3>4, StoreAnswers
    <3> QED
      BY <2>1, <3>5
  <2>5. CASE Random
    <3>1. "rand" \notin Operators \cup {"**"}
      BY DEF Operators
    <3>2. PICK len \in {-2, 0, 1}, atoms \in [1 .. 2 -> RandomAtoms] :
             Store("rand", << >>, mpz_random(len, atoms))
      BY <2>5 DEF Random
    <3>3. Answers(last')
      BY <3>1, <3>2, StoreOther
    <3> QED
      BY <2>1, <3>3
  <2>6. CASE Compare
    <3>1. \A cmd \in Comparisons : cmd \notin Operators \cup {"**"}
      BY DEF Comparisons, Operators
    <3>2. last'.cmd \in Comparisons
      BY <2>6 DEF Compare
    <3>3. Answers(last')
      BY <3>1, <3>2 DEF Answers
    <3> QED
      BY <2>1, <3>3
  <2>7. CASE Show \/ UNCHANGED vars
    <3>1. last' = last
      BY <2>7 DEF Show, vars
    <3> QED
      BY <2>1, <3>1
  <2> QED
    BY <2>3, <2>4, <2>5, <2>6, <2>7 DEF Next
<1>3. Answers(last) => Arithmetic
  BY DEF Answers, Arithmetic
<1> QED
  BY <1>1, <1>2, <1>3, PTL DEF Spec

-----------------------------------------------------------------------------
(* Printing a number and reading it back.                                  *)

\* No blank.
Visible(c) == c # " "

\* The decimal digits are read as their places in the table.
LEMMA DigitChars ==
  \A i \in 0 .. 9 : /\ r_cset(cset[1 + i]) = i
                    /\ cset[1 + i] \in Char /\ Visible(cset[1 + i]) /\ cset[1 + i] # "-"
                    /\ cset[1 + i] = "0" <=> i = 0
<1>1. /\ DOMAIN cset = 1 .. 16 /\ Len(cset) = 16
      /\ cset[1] = "0" /\ cset[2] = "1" /\ cset[3] = "2" /\ cset[4] = "3" /\ cset[5] = "4"
      /\ cset[6] = "5" /\ cset[7] = "6" /\ cset[8] = "7" /\ cset[9] = "8" /\ cset[10] = "9"
      /\ cset[11] = "a" /\ cset[12] = "b" /\ cset[13] = "c" /\ cset[14] = "d" /\ cset[15] = "e"
      /\ cset[16] = "f"
  BY DEF cset
<1>2. ASSUME NEW i \in 1 .. 10, NEW j \in 1 .. 16, cset[i] = cset[j] PROVE i = j
  <2>1. /\ i \in {1, 2, 3, 4, 5, 6, 7, 8, 9, 10}
        /\ j \in {1, 2, 3, 4, 5, 6, 7, 8, 9, 10, 11, 12, 13, 14, 15, 16}
    OBVIOUS
  <2> QED
    BY <1>1, <1>2, <2>1
<1>3. ASSUME NEW i \in 1 .. 10
      PROVE  Visible(cset[i]) /\ cset[i] # "-" /\ (cset[i] = "0" <=> i = 1)
  <2>1. i \in {1, 2, 3, 4, 5, 6, 7, 8, 9, 10}
    OBVIOUS
  <2>2. cset[i] # " "
    BY <1>1, <2>1
  <2>3. cset[i] # "-" /\ (cset[i] = "0" <=> i = 1)
    BY <1>1, <2>1
  <2> QED
    BY <2>2, <2>3 DEF Visible
<1>4. ASSUME NEW i \in 1 .. 10 PROVE r_cset(cset[i]) = i - 1
  <2> DEFINE S == {k \in DOMAIN cset : cset[k] = cset[i]}
             c == cset[i]
  <2>1. S = {i}
    BY <1>1, <1>2
  <2>2. Contains(cset, c)
    BY <1>1 DEF Contains
  <2>3. S \in SUBSET Nat /\ S # {}
    BY <2>1
  <2> HIDE DEF S
  <2>4. Min(S) = i
    BY <2>1, <2>3, MinIn
  <2>5. r_cset(c) = Min(S) - 1
    BY <2>2 DEF r_cset, S
  <2> QED
    BY <2>4, <2>5
<1>5. ASSUME NEW i \in 0 .. 9 PROVE 1 + i \in 1 .. 10 /\ (1 + i) - 1 = i /\ (1 + i = 1 <=> i = 0)
  OBVIOUS
<1>6. ASSUME NEW i \in 1 .. 10 PROVE cset[i] \in Char
  <2>1. i \in DOMAIN cset
    BY <1>1
  <2> QED
    BY <2>1 DEF Char
<1> QED
  BY <1>3, <1>4, <1>5, <1>6

\* f are the quotients by 10 from which the digits ds come, the least significant first.
Quotients(f, ds) ==
  /\ f \in [1 .. Len(ds) + 1 -> Nat]
  /\ \A k \in 1 .. Len(ds) : \E i \in 0 .. 9 : ds[k] = cset[1 + i] /\ f[k] = i + 10 * f[k + 1]

\* ds are the digits of v, up to those of the quotient w.
Prints(ds, v, w) ==
  /\ ds \in Seq(Char)
  /\ \E f : Quotients(f, ds) /\ f[1] = v /\ f[Len(ds) + 1] = w

\* No digits.
LEMMA PrintsNothing ==
  ASSUME NEW v \in Nat
  PROVE  Prints(<< >>, v, v)
<1> DEFINE f == [k \in 1 .. 1 |-> v]
<1>1. Len(<< >>) = 0 /\ << >> \in Seq(Char)
  BY EmptySeq
<1>2. Quotients(f, << >>) /\ f[1] = v
  BY <1>1 DEF Quotients
<1> HIDE DEF f
<1>3. f[Len(<< >>) + 1] = v
  BY <1>1, <1>2
<1> QED
  BY <1>1, <1>2, <1>3 DEF Prints

\* Digits go on where others ended.
LEMMA PrintsMore ==
  ASSUME NEW a, NEW b, NEW u, NEW v, NEW w, Prints(a, u, v), Prints(b, v, w)
  PROVE  Prints(a \o b, u, w)
<1> DEFINE m == Len(a)
           h == Len(b)
           c == a \o b
<1>1. PICK f : Quotients(f, a) /\ f[1] = u /\ f[m + 1] = v
  BY DEF Prints
<1>2. PICK g : Quotients(g, b) /\ g[1] = v /\ g[h + 1] = w
  BY DEF Prints
<1>3. a \in Seq(Char) /\ b \in Seq(Char)
  BY DEF Prints
<1>4. m \in Nat /\ h \in Nat
  BY <1>3, LenProperties
<1>5. /\ c \in Seq(Char) /\ Len(c) = m + h
      /\ \A k \in 1 .. m + h : c[k] = IF k <= m THEN a[k] ELSE b[k - m]
  BY <1>3, ConcatProperties
<1> HIDE DEF c, m, h
<1>6. /\ f \in [1 .. m + 1 -> Nat] /\ g \in [1 .. h + 1 -> Nat]
      /\ \A k \in 1 .. m : \E i \in 0 .. 9 : a[k] = cset[1 + i] /\ f[k] = i + 10 * f[k + 1]
      /\ \A k \in 1 .. h : \E i \in 0 .. 9 : b[k] = cset[1 + i] /\ g[k] = i + 10 * g[k + 1]
  BY <1>1, <1>2 DEF Quotients, m, h
<1> DEFINE e == [k \in 1 .. m + h + 1 |-> IF k <= m THEN f[k] ELSE g[k - m]]
<1>7. /\ \A k \in 1 .. m : e[k] = f[k]
      /\ \A k \in m + 1 .. m + h + 1 : e[k] = g[k - m]
  BY <1>4
<1>8. e \in [1 .. m + h + 1 -> Nat]
  <2>1. ASSUME NEW k \in 1 .. m + h + 1 PROVE (IF k <= m THEN f[k] ELSE g[k - m]) \in Nat
    <3>1. CASE k <= m
      BY <1>4, <1>6, <3>1
    <3>2. CASE ~(k <= m)
      <4>1. k - m \in 1 .. h + 1
        BY <1>4, <3>2
      <4> QED
        BY <1>6, <3>2, <4>1
    <3> QED
      BY <3>1, <3>2
  <2> QED
    BY <2>1
<1> HIDE DEF e
<1>9. ASSUME NEW k \in 1 .. m + h
      PROVE  \E i \in 0 .. 9 : c[k] = cset[1 + i] /\ e[k] = i + 10 * e[k + 1]
  <2>1. CASE k <= m
    <3>1. k \in 1 .. m
      BY <1>4, <2>1
    <3>2. e[k + 1] = f[k + 1]
      <4>1. CASE k < m
        <5>1. k + 1 \in 1 .. m
          BY <1>4, <4>1
        <5> QED
          BY <1>7, <5>1
      <4>2. CASE k = m
        <5>1. k + 1 \in m + 1 .. m + h + 1 /\ (k + 1) - m = 1
          BY <1>4, <4>2
        <5> QED
          BY <1>1, <1>2, <1>7, <4>2, <5>1
      <4> QED
        BY <1>4, <2>1, <4>1, <4>2
    <3>3. c[k] = a[k] /\ e[k] = f[k]
      BY <1>5, <1>7, <2>1, <3>1
    <3> QED
      BY <1>6, <3>1, <3>2, <3>3
  <2>2. CASE ~(k <= m)
    <3>1. k - m \in 1 .. h /\ k \in m + 1 .. m + h + 1 /\ k + 1 \in m + 1 .. m + h + 1 /\ (k + 1) - m = (k - m) + 1
      BY <1>4, <2>2
    <3>2. c[k] = b[k - m] /\ e[k] = g[k - m] /\ e[k + 1] = g[(k - m) + 1]
      BY <1>5, <1>7, <2>2, <3>1
    <3> QED
      BY <1>6, <3>1, <3>2
  <2> QED
    BY <2>1, <2>2
<1>10. Quotients(e, c)
  <2>1. Len(c) + 1 = m + h + 1
    BY <1>4, <1>5
  <2> QED
    BY <1>5, <1>8, <1>9, <2>1 DEF Quotients
<1>11. e[1] = u /\ e[m + h + 1] = w
  <2>1. m + h + 1 \in m + 1 .. m + h + 1 /\ (m + h + 1) - m = h + 1
    BY <1>4
  <2>2. e[m + h + 1] = w
    BY <1>2, <1>7, <2>1 DEF h
  <2>3. CASE m = 0
    <3>1. 1 \in m + 1 .. m + h + 1 /\ 1 - m = 1 /\ m + 1 = 1
      BY <1>4, <2>3
    <3>2. e[1] = g[1] /\ u = v
      BY <1>1, <1>7, <3>1 DEF m
    <3> QED
      BY <1>2, <2>2, <3>2
  <2>4. CASE m # 0
    <3>1. 1 \in 1 .. m
      BY <1>4, <2>4
    <3> QED
      BY <1>1, <1>7, <2>2, <3>1
  <2> QED
    BY <2>3, <2>4
<1>12. e[Len(c) + 1] = w
  BY <1>5, <1>11
<1> QED
  BY <1>5, <1>10, <1>11, <1>12 DEF Prints, c

\* A power of the base times the base is its next power.
LEMMA NextPower ==
  ASSUME NEW z, Natural(z), NEW u \in Digit
  PROVE  Natural(mpz_mul_ui(z, u)) /\ Value(mpz_mul_ui(z, u)) = Value(z) * u
<1> DEFINE w == u32tompz(u)
           t == Product(z, z.s, z, w)
           a == Size(z)
           c == Size(t)
<1>1. Normal(z) /\ Value(z) = a /\ a \in Nat /\ z.s \in {0, 1}
  BY NaturalIs, CleanType DEF Normal
<1>2. Normal(w) /\ Size(w) = u
  BY ImmediateIs
<1>3. mpz_mul_ui(z, u) = t
  BY DEF mpz_mul_ui, Product
<1> HIDE DEF w
<1>4. /\ Normal(t) /\ c = a * u
      /\ Value(t) = IF z.s = 1 THEN -c ELSE c
  <2>1. Clean(z)
    BY <1>1 DEF Normal
  <2> QED
    BY <1>1, <1>2, <2>1, ProductIs
<1>5. z.s = 1 => a = 0
  <2>1. z.s = 1 => Value(z) = -a
    BY <1>1, ValueIs DEF Normal
  <2> DEFINE v == Value(z)
  <2> HIDE DEF a, v
  <2>2. v = a /\ (z.s = 1 => v = -a)
    BY <1>1, <2>1 DEF v
  <2> QED
    BY <1>1, <2>2
<1>6. u \in Nat
  BY BaseFacts DEF Digit
<1> HIDE DEF t
<1>7. Value(t) = c /\ c \in Nat
  <2> DEFINE v == Value(t)
  <2> HIDE DEF a, c, v
  <2>1. c = a * u /\ v = IF z.s = 1 THEN -c ELSE c
    BY <1>4 DEF v
  <2>2. c \in Nat /\ (z.s = 1 => c = 0)
    BY <1>1, <1>5, <1>6, <2>1
  <2>3. v = c
    BY <2>1, <2>2
  <2> QED
    BY <2>2, <2>3 DEF v
<1> QED
  BY <1>1, <1>3, <1>4, <1>7 DEF Natural

\* One digit more: its part is added to the sum.
LEMMA AddDigitMeans ==
  ASSUME NEW p, Normal(p.z), Natural(p.pow), NEW u \in Digit, NEW base \in Digit
  PROVE  LET t == AddDigit(p, u, base)
         IN  /\ Normal(t.z) /\ Value(t.z) = Value(p.z) + u * Value(p.pow)
             /\ Natural(t.pow) /\ Value(t.pow) = base * Value(p.pow)
<1> DEFINE t == AddDigit(p, u, base)
           w == mpz_set_ui(mpz_init, u)
           y == mpz_mul(w, p.pow)
           z == mpz_add(p.z, y)
           o == mpz_mul_ui(p.pow, base)
<1>1. Normal(w) /\ Value(w) = u
  <2>1. Clean(mpz_init)
    BY InitNormal DEF Normal
  <2> QED
    BY <2>1, SetUiIs
<1>2. t.z = z /\ t.pow = o
  BY DEF AddDigit
<1> HIDE DEF w, t
<1>3. Normal(p.pow) /\ Value(p.pow) \in Int
  BY NaturalIs
<1>4. Normal(y) /\ Value(y) = u * Value(p.pow)
  BY <1>1, <1>3, SignedMultiplication
<1> HIDE DEF y
<1>5. Normal(z) /\ Value(z) = Value(p.z) + Value(y)
  BY <1>4, SignedAddition
<1>6. Natural(o) /\ Value(o) = Value(p.pow) * base
  BY NextPower
<1> HIDE DEF z, o
<1>7. Value(p.pow) * base = base * Value(p.pow)
  <2> DEFINE v == Value(p.pow)
  <2>1. v \in Int /\ base \in Int
    BY <1>3, BaseFacts DEF Digit
  <2> HIDE DEF v
  <2>2. v * base = base * v
    BY <2>1
  <2> QED
    BY <2>2 DEF v
<1>8. /\ Normal(t.z) /\ Value(t.z) = Value(p.z) + u * Value(p.pow)
      /\ Natural(t.pow) /\ Value(t.pow) = base * Value(p.pow)
  BY <1>2, <1>4, <1>5, <1>6, <1>7
<1> QED
  BY <1>8 DEF t

\* What is still to be added is what the digits have left.
LEMMA ReadStep ==
  ASSUME NEW v \in Int, NEW b \in Int, NEW y \in Int, NEW i \in Int, NEW g \in Int,
         NEW h \in Int, y + b * g = v, g = i + 10 * h
  PROVE  (y + i * b) + (10 * b) * h = v
<1>1. b * g = b * i + b * (10 * h)
  OBVIOUS
<1>2. b * (10 * h) = (10 * b) * h /\ b * i = i * b
  OBVIOUS
<1> DEFINE p == b * g
           q == i * b
           r == (10 * b) * h
<1>3. p = q + r /\ y + p = v
  BY <1>1, <1>2
<1>4. p \in Int /\ q \in Int /\ r \in Int
  OBVIOUS
<1> HIDE DEF p, q, r
<1>5. (y + q) + r = v
  BY <1>3, <1>4
<1> QED
  BY <1>5 DEF q, r

\* The digits of a number, in the order in which they are written, are read as that number.
LEMMA DigitsAreRead ==
  ASSUME NEW ds, NEW v \in Nat, Prints(ds, v, 0)
  PROVE  LET text == Reverse(ds)
         IN  /\ text \in Seq(Char) /\ Len(text) = Len(ds)
             /\ \A k \in 1 .. Len(ds) : r_cset(text[k]) \in 0 .. 9 /\ Visible(text[k]) /\ text[k] # "-"
             /\ Normal(AddDigits(text, 10)) /\ Value(AddDigits(text, 10)) = v
<1> DEFINE text == Reverse(ds)
           m == Len(ds)
           z == AddDigits(text, 10)
<1>1. ds \in Seq(Char) /\ m \in Nat
  BY LenProperties DEF Prints
<1>2. PICK f : Quotients(f, ds) /\ f[1] = v /\ f[m + 1] = 0
  BY DEF Prints
<1>3. /\ f \in [1 .. m + 1 -> Nat]
      /\ \A k \in 1 .. m : \E i \in 0 .. 9 : ds[k] = cset[1 + i] /\ f[k] = i + 10 * f[k + 1]
  BY <1>2 DEF Quotients
<1>4. text \in Seq(Char) /\ Len(text) = m /\ \A k \in 1 .. m : text[k] = ds[m - k + 1]
  <2> DEFINE e == [k \in 1 .. m |-> ds[(m - k) + 1]]
  <2>1. text = e
    BY DEF Reverse
  <2>2. \A k \in 1 .. m : (m - k) + 1 \in 1 .. m
    BY <1>1
  <2>3. \A k \in 1 .. m : ds[k] \in Char
    BY <1>1, ElementOfSeq
  <2> HIDE DEF m
  <2>4. e \in [1 .. m -> Char]
    BY <2>2, <2>3
  <2>5. e \in Seq(Char) /\ Len(e) = m
    BY <1>1, <2>4, FunctionSeq
  <2>6. \A k \in 1 .. m : e[k] = ds[m - k + 1]
    OBVIOUS
  <2> QED
    BY <2>1, <2>5, <2>6
<1> HIDE DEF text, m
<1>5. ASSUME NEW k \in 1 .. m
      PROVE  text[m - k + 1] = ds[k]
  <2>1. m - k + 1 \in 1 .. m /\ m - (m - k + 1) + 1 = k
    BY <1>1
  <2> QED
    BY <1>4, <2>1
<1>6. ASSUME NEW k \in 1 .. m
      PROVE  r_cset(text[k]) \in 0 .. 9 /\ Visible(text[k]) /\ text[k] # "-"
  <2>1. m - k + 1 \in 1 .. m
    BY <1>1
  <2>2. PICK i \in 0 .. 9 : ds[m - k + 1] = cset[1 + i]
    BY <1>3, <2>1
  <2> QED
    BY <1>4, <2>2, DigitChars
<1>7. 10 \in Digit /\ 0 .. 9 \subseteq Digit /\ \A k \in 1 .. m : r_cset(text[k]) \in Digit
  <2>1. 10 \in Digit /\ 0 .. 9 \subseteq Digit
    BY BaseFacts DEF Digit
  <2> QED
    BY <1>6, <2>1
<1>8. Normal(z) /\ \E F : DigitsHistory(F, text, 10) /\ z = F[m].z
  BY <1>4, <1>7, AddDigitsIs
<1>9. PICK F : DigitsHistory(F, text, 10) /\ z = F[m].z
  BY <1>8
<1>10. /\ F[0] = [z |-> mpz_init, pow |-> mpz_set_ui(mpz_init, 1)]
       /\ \A k \in 1 .. m : F[k] = AddDigit(F[k - 1], r_cset(text[m - k + 1]), 10)
  BY <1>4, <1>9 DEF DigitsHistory
<1> HIDE DEF z
<1> DEFINE Good(k) == /\ Normal(F[k].z) /\ Natural(F[k].pow)
                      /\ Value(F[k].z) + Value(F[k].pow) * f[k + 1] = v
           S == {k \in Nat : Good(k)}
<1>11. 0 \in S
  <2>1. F[0].z = mpz_init /\ F[0].pow = mpz_set_ui(mpz_init, 1)
    BY <1>10
  <2>2. Clean(mpz_init) /\ Normal(mpz_init) /\ 1 \in Digit /\ 1 \in Nat
    BY InitNormal, BaseFacts DEF Normal, Digit
  <2>3. Natural(mpz_set_ui(mpz_init, 1)) /\ Value(mpz_set_ui(mpz_init, 1)) = 1
    BY <2>2, SetUiIs DEF Natural
  <2>4. Value(mpz_init) = 0
    BY <2>2, InitNormal, ValueIs
  <2>5. 0 + 1 * f[0 + 1] = v
    BY <1>2
  <2>6. Good(0)
    BY <2>1, <2>2, <2>3, <2>4, <2>5
  <2> QED
    BY <2>6
<1>12. \A j \in 0 .. m - 1 : j \in S => j + 1 \in S
  <2>1. ASSUME NEW j \in 0 .. m - 1, j \in S PROVE j + 1 \in S
    <3> DEFINE k == j + 1
               p == F[j]
               q == F[k]
    <3>1. k \in 1 .. m /\ k - 1 = j /\ k \in Nat /\ j \in Nat /\ k + 1 \in 1 .. m + 1 /\ k \in 1 .. m + 1
      BY <1>1
    <3>2. PICK i \in 0 .. 9 : ds[k] = cset[1 + i] /\ f[k] = i + 10 * f[k + 1]
      BY <1>3, <3>1
    <3>3. r_cset(text[m - k + 1]) = i
      BY <1>5, <3>1, <3>2, DigitChars
    <3>4. q = AddDigit(p, i, 10)
      BY <1>10, <3>1, <3>3
    <3>5. Normal(p.z) /\ Natural(p.pow) /\ Value(p.z) + Value(p.pow) * f[k] = v
      BY <2>1
    <3> HIDE DEF p, q
    <3>6. i \in Digit /\ 10 \in Digit
      BY <1>7
    <3>7. /\ Normal(q.z) /\ Value(q.z) = Value(p.z) + i * Value(p.pow)
          /\ Natural(q.pow) /\ Value(q.pow) = 10 * Value(p.pow)
      BY <3>4, <3>5, <3>6, AddDigitMeans
    <3>8. Value(q.z) + Value(q.pow) * f[k + 1] = v
      <4> DEFINE b == Value(p.pow)
                 y == Value(p.z)
                 g == f[k]
                 h == f[k + 1]
      <4>1. b \in Int /\ y \in Int /\ g \in Int /\ h \in Int /\ i \in Int /\ v \in Int
        <5>1. g \in Nat /\ h \in Nat
          BY <1>3, <3>1
        <5> HIDE DEF g, h
        <5> QED
          BY <3>5, <5>1, NaturalIs, SignIs
      <4>2. y + b * g = v /\ g = i + 10 * h
        BY <3>2, <3>5
      <4> HIDE DEF b, y, g, h
      <4>3. (y + i * b) + (10 * b) * h = v
        BY <4>1, <4>2, ReadStep
      <4> QED
        BY <3>7, <4>3 DEF b, y, h
    <3>9. Good(k)
      BY <3>7, <3>8 DEF q
    <3> QED
      BY <3>1, <3>9
  <2> QED
    BY <2>1
<1> HIDE DEF S
<1>13. \A k \in 0 .. m : k \in S
  BY <1>1, <1>11, <1>12, UpTo
<1>14. Good(m)
  <2>1. m \in S
    BY <1>1, <1>13
  <2> QED
    BY <2>1 DEF S
<1>15. Value(z) = v
  <2> DEFINE y == Value(z)
             b == Value(F[m].pow)
  <2>1. y + b * 0 = v
    BY <1>2, <1>9, <1>14
  <2>2. y \in Int /\ b \in Int
    BY <1>8, <1>14, SignIs, NaturalIs
  <2> HIDE DEF y, b
  <2>3. y = v
    BY <2>1, <2>2
  <2> QED
    BY <2>3 DEF y
<1> QED
  BY <1>4, <1>6, <1>8, <1>15 DEF z, text, m

\* A text that starts with something has no blanks in front.
LEMMA NoBlanks ==
  ASSUME NEW s \in Seq(Char), Len(s) >= 1, Visible(s[1])
  PROVE  Blanks(s) = 0 /\ SubSeq(s, Blanks(s) + 1, Len(s)) = s
<1> DEFINE S == {k \in DOMAIN s : Visible(s[k])} \cup {Len(s) + 1}
<1>1. Len(s) \in Nat /\ DOMAIN s = 1 .. Len(s) /\ Len(s) >= 1
  BY LenProperties
<1> DEFINE m == Len(s)
<1>2. 1 \in S /\ \A k \in S : k \in 1 .. m \/ k = m + 1
  BY <1>1
<1> HIDE DEF S, m
<1>7. m \in Nat /\ m >= 1
  BY <1>1 DEF m
<1>8. S \in SUBSET Nat /\ S # {} /\ \A k \in S : k >= 1
  BY <1>2, <1>7
<1>3. Min(S) \in S /\ \A k \in S : Min(S) <= k
  BY <1>8, MinIn
<1>4. Min(S) = 1
  <2>1. Min(S) \in Nat /\ Min(S) <= 1 /\ Min(S) >= 1
    BY <1>2, <1>3, <1>8
  <2> QED
    BY <2>1
<1>5. Blanks(s) = Min(S) - 1
  BY DEF Blanks, S, Visible
<1>9. Blanks(s) = 0
  BY <1>4, <1>5
<1>6. SubSeq(s, 1, m) = s
  BY SubSeqFull DEF m
<1> QED
  BY <1>6, <1>9 DEF m

\* A text that ends with something has nothing to be cut off.
LEMMA NothingTrimmed ==
  ASSUME NEW s \in Seq(Char), Len(s) >= 1, Visible(s[Len(s)])
  PROVE  TrimmedEnd(s) = s
<1> DEFINE S == {1} \cup {k \in DOMAIN s : Visible(s[k])}
           m == Len(s)
<1>1. m \in Nat /\ DOMAIN s = 1 .. m /\ m >= 1
  BY LenProperties
<1>6. m \in DOMAIN s /\ Visible(s[m])
  <2>1. Visible(s[m])
    OBVIOUS
  <2> HIDE DEF m
  <2> QED
    BY <1>1, <2>1
<1>7. m \in S /\ \A k \in S : k = 1 \/ k \in DOMAIN s
  BY <1>6
<1> HIDE DEF S, m
<1>2. m \in S /\ \A k \in S : k \in 0 .. m
  BY <1>1, <1>7
<1>3. Max(S) \in S /\ \A k \in S : k <= Max(S)
  <2>1. S \in SUBSET (0 .. m) /\ S # {} /\ m \in Nat
    BY <1>1, <1>2
  <2> QED
    BY <1>1, <2>1, MaxIn
<1>4. Max(S) = m
  <2>1. Max(S) \in 0 .. m /\ m <= Max(S)
    BY <1>2, <1>3
  <2> HIDE DEF S
  <2> QED
    BY <1>1, <2>1
<1>5. SubSeq(s, 1, m) = s
  BY SubSeqFull DEF m
<1> QED
  BY <1>4, <1>5 DEF TrimmedEnd, S, Visible

\* The text of a number: its digits, and a sign.
LEMMA SignedText ==
  ASSUME NEW ds \in Seq(Char), NEW sign \in {0, 1}
  PROVE  LET s == Reverse(ds \o (IF sign = 1 THEN <<"-">> ELSE << >>))
             text == Reverse(ds)
         IN  /\ s \in Seq(Char) /\ text \in Seq(Char)
             /\ sign = 0 => s = text
             /\ sign = 1 => Len(s) >= 1 /\ s[1] = "-" /\ Tail(s) = text
<1> DEFINE m == Len(ds)
           text == Reverse(ds)
           t == ds \o <<"-">>
           h == Len(t)
           u == Reverse(t)
<1>1. m \in Nat /\ \A k \in 1 .. m : ds[k] \in Char
  BY LenProperties, ElementOfSeq
<1>2. <<"-">> \in Seq(Char) /\ Len(<<"-">>) = 1 /\ <<"-">>[1] = "-"
  <2>1. "-" \in Char
    BY DEF Char
  <2> QED
    BY <2>1
<1>3. /\ t \in Seq(Char) /\ h = m + 1 /\ t[m + 1] = "-"
      /\ \A k \in 1 .. m : t[k] = ds[k]
  <2>1. /\ t \in Seq(Char) /\ Len(t) = m + 1
        /\ \A k \in 1 .. m + 1 : t[k] = IF k <= m THEN ds[k] ELSE <<"-">>[k - m]
    BY <1>2, ConcatProperties
  <2> HIDE DEF t, m
  <2>2. m + 1 \in 1 .. m + 1 /\ ~(m + 1 <= m) /\ (m + 1) - m = 1
    BY <1>1
  <2>3. \A k \in 1 .. m : k \in 1 .. m + 1 /\ k <= m
    BY <1>1
  <2> QED
    BY <1>2, <2>1, <2>2, <2>3 DEF h
<1>4. text \in Seq(Char) /\ Len(text) = m /\ \A k \in 1 .. m : text[k] = ds[(m - k) + 1]
  <2> DEFINE e == [k \in 1 .. m |-> ds[(m - k) + 1]]
  <2>1. text = e
    BY DEF Reverse
  <2> HIDE DEF m
  <2>2. \A k \in 1 .. m : (m - k) + 1 \in 1 .. m
    BY <1>1
  <2>3. e \in [1 .. m -> Char]
    BY <1>1, <2>2
  <2>4. e \in Seq(Char) /\ Len(e) = m
    BY <1>1, <2>3, FunctionSeq
  <2>5. \A k \in 1 .. m : e[k] = ds[(m - k) + 1]
    OBVIOUS
  <2> QED
    BY <2>1, <2>4, <2>5
<1>5. /\ u \in Seq(Char) /\ Len(u) = m + 1 /\ u[1] = "-"
      /\ \A k \in 1 .. m : u[k + 1] = text[k]
  <2> DEFINE e == [k \in 1 .. h |-> t[(h - k) + 1]]
  <2>1. u = e
    BY DEF Reverse
  <2> HIDE DEF m, h, t, text
  <2>2. \A k \in 1 .. m + 1 : (h - k) + 1 \in 1 .. m + 1
    BY <1>1, <1>3
  <2>3. \A k \in 1 .. m + 1 : t[k] \in Char
    <3>1. \A k \in 1 .. m + 1 : k \in 1 .. m \/ k = m + 1
      BY <1>1
    <3> QED
      BY <1>1, <1>2, <1>3, <3>1 DEF Char
  <2>4. e \in [1 .. m + 1 -> Char]
    BY <1>3, <2>2, <2>3
  <2>5. e \in Seq(Char) /\ Len(e) = m + 1
    <3>1. m + 1 \in Nat
      BY <1>1
    <3> QED
      BY <2>4, <3>1, FunctionSeq
  <2>6. e[1] = "-"
    <3>1. 1 \in 1 .. h /\ (h - 1) + 1 = m + 1
      BY <1>1, <1>3
    <3> QED
      BY <1>3, <3>1
  <2>7. ASSUME NEW k \in 1 .. m PROVE e[k + 1] = text[k]
    <3>1. k + 1 \in 1 .. h /\ (h - (k + 1)) + 1 = (m - k) + 1 /\ (m - k) + 1 \in 1 .. m
      BY <1>1, <1>3
    <3> QED
      BY <1>3, <1>4, <3>1
  <2> QED
    BY <2>1, <2>5, <2>6, <2>7
<1> HIDE DEF u, text, t
<1>6. Len(u) >= 1 /\ Tail(u) = text
  <2>1. u # << >> /\ Len(u) >= 1
    BY <1>1, <1>5, EmptySeq
  <2>2. /\ Tail(u) \in Seq(Char) /\ Len(Tail(u)) = Len(u) - 1
        /\ \A k \in 1 .. Len(Tail(u)) : Tail(u)[k] = u[k + 1]
    BY <1>5, <2>1, HeadTailProperties
  <2>3. Len(Tail(u)) = m /\ Len(text) = m
    BY <1>1, <1>4, <1>5, <2>2
  <2>4. \A k \in 1 .. m : Tail(u)[k] = text[k]
    BY <1>5, <2>2, <2>3
  <2> DEFINE w == Tail(u)
  <2>5. w \in Seq(Char) /\ text \in Seq(Char) /\ Len(w) = Len(text) /\ \A k \in 1 .. Len(w) : w[k] = text[k]
    BY <1>4, <2>2, <2>3, <2>4
  <2> HIDE DEF w
  <2>6. w = text
    BY <2>5, SeqEqual
  <2> QED
    BY <2>1, <2>6 DEF w
<1>7. ds \o << >> = ds
  OBVIOUS
<1> DEFINE w == IF sign = 1 THEN <<"-">> ELSE << >>
           s == Reverse(ds \o w)
<1>8. CASE sign = 1
  <2>1. s = u
    BY <1>8 DEF u, t
  <2> HIDE DEF s
  <2> QED
    BY <1>4, <1>5, <1>6, <1>8, <2>1 DEF s, text
<1>9. CASE sign = 0
  <2>1. s = text
    BY <1>7, <1>9 DEF text
  <2> HIDE DEF s
  <2> QED
    BY <1>4, <1>9, <2>1 DEF s, text
<1> QED
  BY <1>8, <1>9

\* A text that starts with a digit other than 0 is decimal; a lone 0 has nothing after its
\* prefix.
LEMMA GuessDecimal ==
  ASSUME NEW s \in Seq(Char), Len(s) >= 1, s[1] = "0" => Len(s) = 1
  PROVE  /\ s[1] # "0" => Guess(s) = [base |-> 10, rest |-> s]
         /\ s[1] = "0" => Guess(s) = [base |-> 8, rest |-> << >>]
<1> DEFINE a == [base |-> 10, rest |-> s]
           d == [base |-> 8, rest |-> Tail(s)]
           m == Len(s)
<1>1. m \in Nat /\ s # << >> /\ Head(s) = s[1]
  BY LenProperties, EmptySeq, HeadTailProperties
<1>2. s[1] # "0" => Guess(s) = a
  BY <1>1 DEF Guess
<1>3. s[1] = "0" => Guess(s) = d
  <2>1. m = 1 => m # 0 /\ ~(m > 1)
    <3> HIDE DEF m
    <3> QED
      OBVIOUS
  <2>2. s[1] = "0" => m = 1
    OBVIOUS
  <2> QED
    BY <1>1, <2>1, <2>2 DEF Guess
<1>4. s[1] = "0" => Tail(s) = << >>
  <2>1. Len(Tail(s)) = m - 1 /\ Tail(s) \in Seq(Char)
    BY <1>1, HeadTailProperties
  <2>2. s[1] = "0" => Len(Tail(s)) = 0
    BY <1>1, <2>1
  <2> QED
    BY <2>1, <2>2, EmptySeq
<1> QED
  BY <1>2, <1>3, <1>4

\* No digits are the number 0.
LEMMA NoDigits ==
  AddDigits(<< >>, 8) = mpz_init
<1>1. << >> \in Seq(Char) /\ Len(<< >>) = 0
  BY EmptySeq
<1>2. 8 \in Digit
  BY BaseFacts DEF Digit
<1> DEFINE t == << >>
<1>5. t \in Seq(Char) /\ Len(t) = 0 /\ \A k \in 1 .. Len(t) : r_cset(t[k]) \in Digit
  BY <1>1
<1> HIDE DEF t
<1>6. PICK F : DigitsHistory(F, t, 8) /\ AddDigits(t, 8) = F[Len(t)].z
  BY <1>2, <1>5, AddDigitsIs
<1>3. DigitsHistory(F, t, 8) /\ AddDigits(t, 8) = F[0].z
  BY <1>5, <1>6
<1>4. F[0] = [z |-> mpz_init, pow |-> mpz_set_ui(mpz_init, 1)]
  BY <1>3 DEF DigitsHistory
<1> QED
  BY <1>3, <1>4 DEF t

\* A number in digits, the first of them not 0 unless it is the only one, is read as it was
\* written, sign included.
LEMMA TextIsRead ==
  ASSUME NEW ds, NEW v \in Nat, Prints(ds, v, 0), Len(ds) >= 1,
         ds[Len(ds)] = "0" => Len(ds) = 1, NEW sign \in {0, 1}
  PROVE  LET z == mpz_set_str(Reverse(ds \o (IF sign = 1 THEN <<"-">> ELSE << >>)))
         IN  Normal(z) /\ Value(z) = IF sign = 1 THEN -v ELSE v
<1> DEFINE s == Reverse(ds \o (IF sign = 1 THEN <<"-">> ELSE << >>))
           D == Reverse(ds)
           m == Len(ds)
<1>1. ds \in Seq(Char) /\ m \in Nat /\ m >= 1
  BY LenProperties DEF Prints
<1>2. /\ s \in Seq(Char) /\ D \in Seq(Char)
      /\ sign = 0 => s = D
      /\ sign = 1 => Len(s) >= 1 /\ s[1] = "-" /\ Tail(s) = D
  BY <1>1, SignedText
<1>3. /\ Len(D) = m
      /\ \A k \in 1 .. m : r_cset(D[k]) \in 0 .. 9 /\ Visible(D[k]) /\ D[k] # "-"
      /\ Normal(AddDigits(D, 10)) /\ Value(AddDigits(D, 10)) = v
  BY DigitsAreRead
<1>4. D[1] = ds[m]
  <2>1. D = [k \in 1 .. m |-> ds[(m - k) + 1]]
    BY DEF Reverse
  <2> HIDE DEF D, m
  <2>2. 1 \in 1 .. m /\ (m - 1) + 1 = m
    BY <1>1
  <2> QED
    BY <2>1, <2>2
<1>5. D[1] = "0" => m = 1 /\ v = 0
  <2>1. ds[m] = "0" => m = 1
    OBVIOUS
  <2>2. PICK f : Quotients(f, ds) /\ f[1] = v /\ f[m + 1] = 0
    BY DEF Prints
  <2>3. PICK i \in 0 .. 9 : ds[m] = cset[1 + i] /\ f[m] = i + 10 * f[m + 1]
    <3>1. m \in 1 .. m
      BY <1>1
    <3> HIDE DEF m
    <3> QED
      BY <2>2, <3>1 DEF Quotients, m
  <2> HIDE DEF m, D
  <2>4. ds[m] = "0" => i = 0
    BY <2>3, DigitChars
  <2>5. i = 0 => f[m] = 0
    BY <2>2, <2>3
  <2> QED
    BY <1>4, <2>1, <2>2, <2>4, <2>5
<1> HIDE DEF s, D, m
<1> DEFINE body == SubSeq(s, Blanks(s) + 1, Len(s))
           neg == body # << >> /\ Head(body) = "-"
           g == Guess(IF neg THEN Tail(body) ELSE body)
           text == IF g.rest = << >> THEN << >> ELSE TrimmedEnd(g.rest)
           bad == \E k \in DOMAIN text : r_cset(text[k]) \notin 0 .. g.base - 1
           z == AddDigits(text, g.base)
           flag == IF neg THEN 1 ELSE 0
<1>6. mpz_set_str(s) = IF bad THEN SBN_INVAL ELSE [z EXCEPT !.s = flag]
  BY DEF mpz_set_str
<1>7. Len(s) >= 1 /\ Visible(s[1]) /\ (s[1] = "-" <=> sign = 1)
  <2>1. CASE sign = 1
    <3>1. Visible("-")
      BY DEF Visible
    <3> QED
      BY <1>2, <2>1, <3>1
  <2>2. CASE sign = 0
    <3>1. 1 \in 1 .. m
      BY <1>1
    <3> QED
      BY <1>1, <1>2, <1>3, <2>2, <3>1
  <2> QED
    BY <2>1, <2>2
<1>8. body = s
  BY <1>2, <1>7, NoBlanks
<1>9. s # << >> /\ Head(s) = s[1]
  BY <1>2, <1>7, EmptySeq, HeadTailProperties
<1>10. neg <=> sign = 1
  BY <1>7, <1>8, <1>9
<1>11. (IF neg THEN Tail(body) ELSE body) = D
  BY <1>2, <1>8, <1>10
<1> HIDE DEF body, neg
<1>12. g = Guess(D)
  BY <1>11
<1> HIDE DEF g
<1>13. /\ D[1] # "0" => Guess(D) = [base |-> 10, rest |-> D]
       /\ D[1] = "0" => Guess(D) = [base |-> 8, rest |-> << >>]
  <2>1. Len(D) >= 1 /\ (D[1] = "0" => Len(D) = 1)
    BY <1>1, <1>3, <1>5
  <2> QED
    BY <1>2, <2>1, GuessDecimal
<1>14. ~bad /\ Normal(z) /\ Value(z) = v
  <2>1. CASE D[1] # "0"
    <3>1. g.base = 10 /\ g.rest = D
      BY <1>12, <1>13, <2>1
    <3>2. D # << >> /\ DOMAIN D = 1 .. m
      <4>1. D # << >>
        BY <1>1, <1>2, <1>3, EmptySeq
      <4> QED
        BY <1>2, <1>3, <4>1, LenProperties
    <3>3. TrimmedEnd(D) = D
      <4>1. Len(D) >= 1 /\ Visible(D[Len(D)])
        <5>1. m \in 1 .. m
          BY <1>1
        <5> QED
          BY <1>1, <1>3, <5>1
      <4> QED
        BY <1>2, <4>1, NothingTrimmed
    <3>4. text = D
      BY <3>1, <3>2, <3>3
    <3> HIDE DEF text
    <3>5. ~bad
      BY <1>3, <3>1, <3>2, <3>4
    <3> QED
      BY <1>3, <3>1, <3>4, <3>5
  <2>2. CASE D[1] = "0"
    <3>1. g.base = 8 /\ g.rest = << >> /\ v = 0
      BY <1>5, <1>12, <1>13, <2>2
    <3>2. text = << >>
      BY <3>1
    <3> HIDE DEF text
    <3>3. ~bad
      BY <3>2
    <3>4. z = mpz_init
      BY <3>1, <3>2, NoDigits
    <3>5. Normal(mpz_init) /\ Value(mpz_init) = 0
      BY InitNormal, ValueIs DEF Normal
    <3> QED
      BY <3>1, <3>3, <3>4, <3>5
  <2> QED
    BY <2>1, <2>2
<1>15. Natural(z)
  BY <1>14 DEF Natural
<1>16. Size(z) = v
  BY <1>14, <1>15, NaturalIs
<1>17. flag = sign /\ flag \in {0, 1}
  BY <1>10
<1>18. mpz_set_str(s) = [z EXCEPT !.s = flag]
  BY <1>6, <1>14
<1> HIDE DEF z, flag
<1> DEFINE w == [z EXCEPT !.s = flag]
<1>19. Normal(w) /\ Value(w) = IF flag = 1 THEN -Size(z) ELSE Size(z)
  BY <1>14, <1>17, SignUpdate
<1> HIDE DEF w
<1>20. mpz_set_str(s) = w
  BY <1>18 DEF w
<1> QED
  BY <1>16, <1>17, <1>19, <1>20 DEF s

\* The remainders of a division by one atom, from the highest atom down.
Remainders(r, d, l, D) ==
  r[l + 1] = 0 /\ \A k \in 1 .. l : r[k] = (r[k + 1] * MPZ_BASE + d[k]) % D

\* There are such remainders.
LEMMA RemaindersExist ==
  ASSUME NEW d, NEW l \in Nat, \A k \in 1 .. l : d[k] \in Digit, NEW D \in Nat, D >= 1
  PROVE  \E r \in [1 .. l + 1 -> 0 .. D - 1] : Remainders(r, d, l, D)
<1> DEFINE V == 0 .. D - 1
           zero == 0
           Op(v, a) == (v * MPZ_BASE + a) % D
           step == [i \in 1 .. l |-> [v \in V |-> Op(v, d[l + 1 - i])]]
<1>1. ASSUME NEW v \in V, NEW a \in Digit PROVE Op(v, a) \in V
  <2> DEFINE B == MPZ_BASE
  <2>1. B \in Nat /\ v \in Nat /\ a \in Nat
    BY BaseFacts DEF Digit
  <2> HIDE DEF B
  <2>2. v * B + a \in Nat
    BY <2>1
  <2> DEFINE c == v * B + a
  <2> HIDE DEF c
  <2>3. c % D \in 0 .. D - 1
    BY <2>2, DivIs DEF c
  <2> QED
    BY <2>3 DEF c, B
<1>2. step \in [1 .. l -> [V -> V]]
  <2>1. \A i \in 1 .. l : l + 1 - i \in 1 .. l
    OBVIOUS
  <2>2. \A i \in 1 .. l : \A v \in V : Op(v, d[l + 1 - i]) \in V
    BY <1>1, <2>1
  <2> HIDE DEF Op, V
  <2> QED
    BY <2>2
<1>3. zero \in V
  OBVIOUS
<1>4. PICK g \in [0 .. l -> V] : Iterates(g, zero, l, step)
  <2> HIDE DEF V, zero, step
  <2> QED
    BY <1>2, <1>3, Recursion
<1> DEFINE r == [k \in 1 .. l + 1 |-> g[l + 1 - k]]
<1>5. r \in [1 .. l + 1 -> V]
  <2>1. \A k \in 1 .. l + 1 : l + 1 - k \in 0 .. l
    OBVIOUS
  <2> HIDE DEF V
  <2> QED
    BY <2>1
<1>6. r[l + 1] = 0
  <2>1. l + 1 \in 1 .. l + 1 /\ l + 1 - (l + 1) = 0
    OBVIOUS
  <2> QED
    BY <1>4, <2>1 DEF Iterates
<1>7. ASSUME NEW k \in 1 .. l PROVE r[k] = Op(r[k + 1], d[k])
  <2> DEFINE i == l + 1 - k
  <2>1. i \in 1 .. l /\ l + 1 - i = k /\ l + 1 - (k + 1) = i - 1 /\ k + 1 \in 1 .. l + 1 /\ i - 1 \in 0 .. l
    OBVIOUS
  <2>2. r[k] = g[i] /\ r[k + 1] = g[i - 1]
    BY <2>1
  <2>3. g[i] = step[i][g[i - 1]] /\ g[i - 1] \in V
    BY <1>4, <2>1 DEF Iterates
  <2> HIDE DEF r, V, Op
  <2>4. step[i] = [v \in V |-> Op(v, d[k])]
    BY <2>1
  <2> HIDE DEF step
  <2> QED
    BY <2>2, <2>3, <2>4
<1> HIDE DEF r
<1>8. Remainders(r, d, l, D)
  BY <1>6, <1>7 DEF Remainders
<1> QED
  BY <1>5, <1>8

\* One step of that division: the quotient fits in an atom, and is not 0 once a remainder was.
LEMMA OneQuotient ==
  ASSUME NEW B \in Nat, NEW D \in Nat, D >= 1, D < B, NEW r \in 0 .. D - 1, NEW a \in 0 .. B - 1
  PROVE  LET c == r * B + a
         IN  /\ c \div D \in 0 .. B - 1 /\ c % D \in 0 .. D - 1
             /\ c = D * (c \div D) + (c % D)
             /\ r >= 1 => c \div D >= 1
<1> DEFINE c == r * B + a
           q == c \div D
           s == c % D
<1>1. c \in Nat
  OBVIOUS
<1>2. q \in Nat /\ s \in 0 .. D - 1 /\ c = D * q + s
  <2> HIDE DEF c
  <2> QED
    BY <1>1, DivIs
<1>3. c < D * B
  <2>1. D > r /\ r \in Nat
    OBVIOUS
  <2>2. B * D >= B * r + B
    BY <2>1, ProductGrows
  <2>3. B * r = r * B /\ B * D = D * B
    BY <2>1
  <2> DEFINE y == r * B
             z == D * B
  <2>4. z >= y + B /\ c = y + a /\ y \in Int /\ z \in Int
    BY <2>2, <2>3
  <2> HIDE DEF y, z, c
  <2>5. c < z
    BY <2>4
  <2> QED
    BY <2>5 DEF z
<1> HIDE DEF q, s
<1>4. q < B
  <2>1. ASSUME q > B PROVE FALSE
    <3>1. D * q >= D * B + D
      BY <1>2, <2>1, ProductGrows
    <3> DEFINE y == D * q
               z == D * B
    <3>2. y >= z + D /\ c = y + s /\ c < z /\ y \in Int /\ z \in Int
      BY <1>2, <1>3, <3>1
    <3> HIDE DEF y, z, c
    <3> QED
      BY <1>2, <3>2
  <2>2. ASSUME q = B PROVE FALSE
    <3> DEFINE z == D * B
    <3>1. c = z + s /\ c < z /\ z \in Int
      BY <1>2, <1>3, <2>2
    <3> HIDE DEF z, c
    <3> QED
      BY <1>2, <3>1
  <2> QED
    BY <1>2, <2>1, <2>2
<1>5. ASSUME r >= 1 PROVE q >= 1
  <2>1. c >= B
    <3>1. r * B >= B
      <4>1. r = 1 \/ r > 1
        BY <1>5
      <4>2. r > 1 => B * r >= B * 1 + B
        BY ProductGrows
      <4>3. B * r = r * B /\ B * 1 = B
        OBVIOUS
      <4> DEFINE y == r * B
      <4>4. y \in Int /\ (r = 1 => y = B) /\ (r > 1 => y >= B + B)
        BY <4>2, <4>3
      <4> HIDE DEF y
      <4>5. y >= B
        BY <4>1, <4>4
      <4> QED
        BY <4>5 DEF y
    <3> DEFINE y == r * B
    <3>2. y >= B /\ y \in Int /\ c = y + a
      BY <3>1
    <3> HIDE DEF y, c
    <3> QED
      BY <3>2
  <2>2. ASSUME q = 0 PROVE FALSE
    <3>1. D * q = 0
      BY <2>2
    <3>2. c = s
      BY <1>2, <3>1
    <3> HIDE DEF c
    <3> QED
      BY <1>2, <2>1, <3>2
  <2> QED
    BY <1>2, <2>2
<1> QED
  BY <1>2, <1>4, <1>5 DEF q, s

\* What the quotients and the remainders of the atoms make up.
LEMMA ShortStep ==
  ASSUME NEW b \in Nat, NEW D \in Nat, NEW u1 \in Nat, NEW u2 \in Nat, NEW w1 \in Nat, NEW w2 \in Nat,
         NEW r1 \in Nat, NEW r2 \in Nat, NEW a \in Nat, NEW q \in Nat,
         u1 = a + b * u2, w1 = q + b * w2, u2 = D * w2 + r2, r2 * b + a = D * q + r1
  PROVE  u1 = D * w1 + r1
<1>1. b * u2 = b * (D * w2) + b * r2
  OBVIOUS
<1>2. D * w1 = D * q + D * (b * w2)
  OBVIOUS
<1>3. D * (b * w2) = b * (D * w2) /\ b * r2 = r2 * b
  OBVIOUS
<1> DEFINE h == b * (D * w2)
           i == r2 * b
           j == D * q
           k == D * w1
           l == b * u2
<1>4. l = h + i /\ k = j + h /\ i + a = j + r1 /\ u1 = a + l
  BY <1>1, <1>2, <1>3
<1>5. h \in Int /\ i \in Int /\ j \in Int /\ k \in Int /\ l \in Int
  OBVIOUS
<1> HIDE DEF h, i, j, k, l
<1>6. u1 = k + r1
  BY <1>4, <1>5
<1> QED
  BY <1>6 DEF k

\* _mpz_selfdiv1_qr_raw() leaves the quotient, normalized, and returns the remainder.
THEOREM ShortDivision ==
  ASSUME NEW z, Normal(z), z.l >= 1, NEW D \in Nat, D >= 1, D < MPZ_BASE
  PROVE  LET t == _mpz_selfdiv1_qr_raw(z, D)
         IN  /\ Normal(t.z) /\ t.z.s = z.s /\ t.rem \in 0 .. D - 1
             /\ Size(z) = D * Size(t.z) + t.rem
<1> DEFINE l == z.l
           d == z.d
           Eqn(f) == f = [k \in 1 .. z.l + 1 |->
                            IF k = z.l + 1 THEN 0 ELSE (f[k + 1] * MPZ_BASE + z.d[k]) % D]
           r == CHOOSE f : Eqn(f)
           e == [k \in DOMAIN z.d |->
                   IF k <= z.l THEN (r[k + 1] * MPZ_BASE + z.d[k]) \div D ELSE z.d[k]]
           g == IF e[z.l] = 0 THEN z.l - 1 ELSE z.l
           y == [z EXCEPT !.d = e, !.l = g]
           t == _mpz_selfdiv1_qr_raw(z, D)
<1>1. t.z = y /\ t.rem = r[1]
  <2> DEFINE h == [z EXCEPT !.d = e, !.l = IF e[z.l] = 0 THEN @ - 1 ELSE @]
  <2>1. t = [z |-> h, rem |-> r[1]]
    BY DEF _mpz_selfdiv1_qr_raw
  <2>2. h = y
    OBVIOUS
  <2> HIDE DEF y, h, r, t
  <2> QED
    BY <2>1, <2>2
<1> HIDE DEF t
<1>2. /\ z \in [d : Seq(Digit), l : Nat, s : {0, 1}]
      /\ l \in Nat /\ l >= 1 /\ z.s \in {0, 1} /\ Len(d) \in Nat /\ DOMAIN d = 1 .. Len(d) /\ l <= Len(d)
      /\ \A k \in 1 .. Len(d) : d[k] \in Digit /\ (k > l => d[k] = 0)
      /\ d[l] # 0
  <2>1. z \in [d : Seq(Digit), l : Nat, s : {0, 1}] /\ Clean(z)
    BY DEF Clean, Normal
  <2>2. d[l] # 0
    <3>1. z.l \in Nat
      BY <2>1, CleanType
    <3>2. z.l > 0
      BY <3>1
    <3> QED
      BY <3>2 DEF Normal
  <2>3. /\ l \in Nat /\ z.s \in {0, 1} /\ Len(d) \in Nat /\ DOMAIN d = 1 .. Len(d) /\ l <= Len(d)
        /\ \A k \in 1 .. Len(d) : d[k] \in Digit /\ (k > l => d[k] = 0)
    BY <2>1, CleanType
  <2> QED
    BY <2>1, <2>2, <2>3
<1>3. \A k \in 1 .. l : d[k] \in Digit
  BY <1>2
<1>4. y = [d |-> e, l |-> g, s |-> z.s]
  <2> DEFINE w == [z EXCEPT !.d = e, !.l = g]
  <2>1. y = w
    OBVIOUS
  <2> HIDE DEF y, e, g
  <2> QED
    BY <1>2, <2>1, NumberUpdate
<1> HIDE DEF y
<1>5. r \in [1 .. l + 1 -> 0 .. D - 1] /\ Remainders(r, d, l, D)
  <2>1. PICK f \in [1 .. l + 1 -> 0 .. D - 1] : Remainders(f, d, l, D)
    BY <1>2, <1>3, RemaindersExist
  <2>2. Eqn(f)
    <3>1. ASSUME NEW k \in 1 .. l + 1
          PROVE  f[k] = IF k = z.l + 1 THEN 0 ELSE (f[k + 1] * MPZ_BASE + z.d[k]) % D
      <4>1. k = l + 1 \/ k \in 1 .. l
        BY <1>2
      <4> QED
        BY <1>2, <2>1, <4>1 DEF Remainders
    <3>2. f = [k \in 1 .. l + 1 |-> f[k]]
      BY <2>1
    <3> QED
      BY <3>1, <3>2
  <2>3. Eqn(r)
    <3> HIDE DEF Eqn
    <3> QED
      BY <2>2
  <2>4. r[l + 1] = 0 /\ \A k \in 1 .. l : r[k] = (r[k + 1] * MPZ_BASE + d[k]) % D
    <3>1. l + 1 \in 1 .. l + 1 /\ \A k \in 1 .. l : k \in 1 .. l + 1 /\ k # l + 1
      BY <1>2
    <3> HIDE DEF r
    <3> QED
      BY <2>3, <3>1
  <2> HIDE DEF r
  <2> DEFINE S == {k \in 1 .. l + 1 : r[k] = f[k]}
             m == l + 1
  <2>5. m \in S /\ m \in Nat
    BY <1>2, <2>1, <2>4 DEF Remainders
  <2>6. ASSUME NEW k \in 1 .. m - 1, k + 1 \in S PROVE k \in S
    <3>1. k \in 1 .. l /\ k \in 1 .. l + 1
      BY <1>2
    <3> QED
      BY <2>1, <2>4, <2>6, <3>1 DEF Remainders
  <2>7. \A k \in 1 .. m : k \in S
    <3> HIDE DEF S, m
    <3> QED
      BY <2>5, <2>6, DownTo
  <2>8. r = [k \in 1 .. l + 1 |-> r[k]]
    BY <2>3
  <2>9. \A k \in 1 .. l + 1 : r[k] \in 0 .. D - 1
    <3>1. \A k \in 1 .. l + 1 : r[k] = f[k]
      BY <2>7
    <3> QED
      BY <2>1, <3>1
  <2> QED
    BY <2>4, <2>8, <2>9 DEF Remainders
<1> HIDE DEF r, Eqn
<1> DEFINE B == MPZ_BASE
           c(k) == r[k + 1] * B + d[k]
<1>6. ASSUME NEW k \in 1 .. l
      PROVE  /\ e[k] \in Digit /\ r[k] \in 0 .. D - 1 /\ r[k + 1] \in 0 .. D - 1 /\ d[k] \in Digit
             /\ r[k + 1] * B + d[k] = D * e[k] + r[k]
             /\ r[k + 1] >= 1 => e[k] >= 1
  <2>1. k \in 1 .. l + 1 /\ k + 1 \in 1 .. l + 1 /\ k \in DOMAIN d /\ k <= l
    BY <1>2
  <2>2. e[k] = c(k) \div D /\ r[k] = c(k) % D
    BY <1>5, <2>1 DEF Remainders
  <2>3. r[k] \in 0 .. D - 1 /\ r[k + 1] \in 0 .. D - 1 /\ d[k] \in Digit
    BY <1>3, <1>5, <2>1
  <2>4. d[k] \in 0 .. B - 1 /\ B \in Nat
    BY <2>3, BaseFacts DEF Digit
  <2> DEFINE v == r[k + 1]
             a == d[k]
             i == v * B + a
  <2>5. v \in 0 .. D - 1 /\ a \in 0 .. B - 1 /\ D < B
    BY <2>3, <2>4
  <2>6. e[k] = i \div D /\ r[k] = i % D
    BY <2>2
  <2> HIDE DEF v, a, B, e
  <2>7. /\ i \div D \in 0 .. B - 1 /\ i = D * (i \div D) + (i % D)
        /\ v >= 1 => i \div D >= 1
    BY <2>4, <2>5, OneQuotient
  <2> HIDE DEF i
  <2>8. e[k] \in 0 .. B - 1 /\ i = D * e[k] + r[k] /\ (v >= 1 => e[k] >= 1)
    BY <2>6, <2>7
  <2> QED
    BY <2>3, <2>8 DEF i, v, a, B, Digit
<1>7. \A k \in l + 1 .. Len(d) : e[k] = 0
  <2>1. ASSUME NEW k \in l + 1 .. Len(d) PROVE e[k] = 0
    <3>1. k \in 1 .. Len(d) /\ ~(k <= z.l) /\ k > l
      BY <1>2
    <3> QED
      BY <1>2, <3>1
  <2> QED
    BY <2>1
<1>8. e \in Seq(Digit) /\ Len(e) = Len(d)
  <2>1. \A k \in 1 .. Len(d) : e[k] \in Digit
    <3>1. 0 \in Digit
      BY BaseFacts DEF Digit
    <3>2. \A k \in 1 .. Len(d) : k \in 1 .. l \/ k \in l + 1 .. Len(d)
      BY <1>2
    <3> HIDE DEF e
    <3> QED
      BY <1>6, <1>7, <3>1, <3>2
  <2>2. e \in [1 .. Len(d) -> Digit]
    <3>1. DOMAIN e = 1 .. Len(d) /\ e = [k \in 1 .. Len(d) |-> e[k]]
      BY <1>2
    <3> HIDE DEF e
    <3> QED
      BY <2>1, <3>1
  <2> HIDE DEF e
  <2> QED
    BY <1>2, <2>2, FunctionSeq
<1> HIDE DEF e
<1>9. Size(z) = D * Magnitude(e, l) + r[1]
  <2> DEFINE u == Upper(d, l)
             w == Upper(e, l)
  <2>1. u \in [1 .. l + 1 -> Nat] /\ Horner(u, d, l) /\ Magnitude(d, l) = u[1]
    BY <1>2, <1>3, MagnitudeIs
  <2>2. w \in [1 .. l + 1 -> Nat] /\ Horner(w, e, l) /\ Magnitude(e, l) = w[1]
    BY <1>2, <1>6, MagnitudeIs
  <2> HIDE DEF u, w
  <2> DEFINE S == {k \in 1 .. l + 1 : u[k] = D * w[k] + r[k]}
             m == l + 1
  <2>3. m \in S /\ m \in Nat
    <3>1. u[m] = 0 /\ w[m] = 0 /\ r[m] = 0
      BY <1>5, <2>1, <2>2 DEF Horner, Remainders
    <3>2. m \in 1 .. l + 1 /\ 0 = D * 0 + 0
      BY <1>2
    <3> QED
      BY <1>2, <3>1, <3>2
  <2>4. ASSUME NEW k \in 1 .. m - 1, k + 1 \in S PROVE k \in S
    <3> DEFINE b == B
               u1 == u[k]
               u2 == u[k + 1]
               w1 == w[k]
               w2 == w[k + 1]
               r1 == r[k]
               r2 == r[k + 1]
               a == d[k]
               q == e[k]
    <3>1. k \in 1 .. l /\ k \in 1 .. l + 1 /\ k + 1 \in 1 .. l + 1
      BY <1>2
    <3>2. u1 = a + b * u2 /\ w1 = q + b * w2
      BY <2>1, <2>2, <3>1 DEF Horner
    <3>3. u2 = D * w2 + r2
      BY <2>4
    <3>4. r2 * b + a = D * q + r1
      BY <1>6, <3>1
    <3>5. /\ b \in Nat /\ u1 \in Nat /\ u2 \in Nat /\ w1 \in Nat /\ w2 \in Nat
      BY <2>1, <2>2, <3>1, BaseFacts
    <3>6. r1 \in Nat /\ r2 \in Nat /\ a \in Nat /\ q \in Nat
      <4>1. r1 \in 0 .. D - 1 /\ r2 \in 0 .. D - 1 /\ a \in Digit /\ q \in Digit
        BY <1>6, <3>1
      <4> HIDE DEF r1, r2, a, q
      <4> QED
        BY <4>1, BaseFacts DEF Digit
    <3> HIDE DEF b, u1, u2, w1, w2, r1, r2, a, q
    <3>7. u1 = D * w1 + r1
      BY <3>2, <3>3, <3>4, <3>5, <3>6, ShortStep
    <3> QED
      BY <3>1, <3>7 DEF u1, w1, r1
  <2>5. \A k \in 1 .. m : k \in S
    <3> HIDE DEF S, m
    <3> QED
      BY <2>3, <2>4, DownTo
  <2>6. u[1] = D * w[1] + r[1]
    <3>1. 1 \in 1 .. m
      BY <1>2
    <3> QED
      BY <2>5, <3>1
  <2> QED
    BY <2>1, <2>2, <2>6 DEF Size
<1>10. e[l] = 0 => r[l] = d[l] /\ r[l] >= 1
  <2>1. l \in 1 .. l
    BY <1>2
  <2>2. r[l + 1] = 0
    BY <1>5 DEF Remainders
  <2> DEFINE a == d[l]
             v == r[l]
             i == r[l + 1]
  <2>3. a \in Digit /\ a # 0 /\ v \in 0 .. D - 1
    BY <1>2, <1>6, <2>1
  <2>4. i * B + a = D * e[l] + v
    BY <1>6, <2>1
  <2>5. i = 0
    BY <2>2
  <2> HIDE DEF a, v, i
  <2>6. a \in Nat /\ a >= 1 /\ B \in Nat
    BY <2>3, BaseFacts DEF Digit
  <2> HIDE DEF B
  <2>7. i * B = 0
    BY <2>5, <2>6
  <2>8. ASSUME e[l] = 0 PROVE v = a
    <3>1. D * e[l] = 0
      BY <2>8
    <3> QED
      BY <2>3, <2>4, <2>6, <2>7, <3>1
  <2> QED
    BY <2>6, <2>8 DEF a, v
<1>11. g \in Nat /\ g <= l /\ (g > 0 => e[g] # 0) /\ (e[l] # 0 => g = l) /\ (e[l] = 0 => g = l - 1)
  <2>1. CASE e[l] # 0
    <3>1. g = l
      BY <2>1
    <3> HIDE DEF g
    <3> QED
      BY <1>2, <2>1, <3>1
  <2>2. CASE e[l] = 0
    <3>1. g = l - 1
      BY <2>2
    <3>2. r[l] >= 1
      BY <1>10, <2>2
    <3> HIDE DEF g
    <3>3. ASSUME g > 0 PROVE e[g] # 0
      <4>1. g \in 1 .. l /\ g + 1 = l
        BY <1>2, <3>1, <3>3
      <4>2. e[g] >= 1
        BY <1>6, <3>2, <4>1
      <4> QED
        BY <4>2
    <3> QED
      BY <1>2, <2>2, <3>1, <3>3
  <2> QED
    BY <2>1, <2>2
<1>12. Magnitude(e, l) = Magnitude(e, g)
  <2>1. \A k \in g + 1 .. l : e[k] = 0
    <3> HIDE DEF g
    <3>1. ASSUME NEW k \in g + 1 .. l PROVE e[k] = 0
      <4>1. e[l] = 0 /\ k = l
        BY <1>2, <1>11
      <4> QED
        BY <4>1
    <3> QED
      BY <3>1
  <2>2. g \in 0 .. l
    <3> HIDE DEF g
    <3> QED
      BY <1>2, <1>11
  <2> HIDE DEF g
  <2> QED
    BY <1>2, <1>6, <2>1, <2>2, LeadingZeros
<1>13. \A k \in 1 .. Len(e) : k > g => e[k] = 0
  <2> HIDE DEF g
  <2>1. ASSUME NEW k \in 1 .. Len(e), k > g PROVE e[k] = 0
    <3>1. k = l \/ k \in l + 1 .. Len(d)
      BY <1>2, <1>8, <1>11, <2>1
    <3>2. k = l => e[l] = 0
      BY <1>2, <1>11, <2>1
    <3> QED
      BY <1>7, <3>1, <3>2
  <2> QED
    BY <2>1
<1> HIDE DEF g
<1>14. /\ y \in [d : Seq(Digit), l : Nat, s : {0, 1}] /\ y.d = e /\ y.l = g /\ y.s = z.s
  BY <1>2, <1>4, <1>8, <1>11, NumberRecord
<1>15. Normal(y)
  <2>1. g <= Len(e)
    BY <1>2, <1>8, <1>11
  <2> QED
    BY <1>11, <1>13, <1>14, <2>1 DEF Normal, Clean
<1>16. Size(y) = Magnitude(e, l)
  BY <1>12, <1>14 DEF Size
<1>17. r[1] \in 0 .. D - 1
  <2>1. 1 \in 1 .. l
    BY <1>2
  <2> QED
    BY <1>6, <2>1
<1>18. /\ Normal(t.z) /\ t.z.s = z.s /\ t.rem \in 0 .. D - 1
       /\ Size(z) = D * Size(t.z) + t.rem
  BY <1>1, <1>9, <1>14, <1>15, <1>16, <1>17
<1> QED
  BY <1>18 DEF t

\* The powers of 10 that lexp() multiplies.
LEMMA TensAre ==
  /\ lexp(10, 0) = 1
  /\ \A e \in Nat : /\ lexp(10, e) \in Nat /\ lexp(10, e) >= 1
                    /\ lexp(10, e + 1) = 10 * lexp(10, e)
<1> DEFINE P(e) == lexp(10, e)
<1>1. \A e \in Nat : P(e) = IntegerPower(10, e)
  BY DEF lexp, IntegerPower
<1>2. P(0) = 1 /\ \A e \in Nat : P(e) \in Int /\ P(e + 1) = 10 * P(e)
  <2>1. /\ IntegerPower(10, 0) = 1
        /\ \A e \in Nat : /\ IntegerPower(10, e) \in Int
                          /\ IntegerPower(10, e + 1) = 10 * IntegerPower(10, e)
    BY IntegerPowerIs
  <2>2. 0 \in Nat /\ \A e \in Nat : e + 1 \in Nat
    OBVIOUS
  <2> QED
    BY <1>1, <2>1, <2>2
<1> HIDE DEF P
<1> DEFINE S == {e \in Nat : P(e) >= 1}
<1>3. 0 \in S
  BY <1>2
<1>4. \A e \in S : e + 1 \in S
  BY <1>2
<1>5. S = Nat
  <2>1. S \in SUBSET Nat
    OBVIOUS
  <2> HIDE DEF S
  <2> QED
    BY <1>3, <1>4, <2>1, NatInduct
<1>6. ASSUME NEW e \in Nat PROVE P(e) \in Nat /\ P(e) >= 1
  <2>1. \A i \in S : P(i) >= 1
    OBVIOUS
  <2> HIDE DEF S
  <2>2. P(e) \in Int /\ P(e) >= 1
    BY <1>2, <1>5, <2>1
  <2> QED
    BY <2>2
<1> QED
  BY <1>2, <1>6 DEF P

\* The divisor of the long divisions fits in an atom.
LEMMA MaxpowIs ==
  /\ maxexp \in Nat /\ maxexp >= 1 /\ maxpow = lexp(10, maxexp)
  /\ maxpow \in Nat /\ maxpow >= 10 /\ maxpow < MPZ_BASE
<1> DEFINE S == {e \in 1 .. ATOMBITS : lexp(10, e) < MPZ_BASE}
<1>1. ATOMBITS \in Nat /\ ATOMBITS >= 6
  BY AtomAssumption
<1>2. 1 \in S
  <2>1. lexp(10, 0 + 1) = 10 * lexp(10, 0) /\ lexp(10, 0) = 1
    BY TensAre
  <2>2. lexp(10, 1) = 10
    BY <2>1
  <2> QED
    BY <1>1, <2>2, BaseFacts
<1>3. S \in SUBSET (0 .. ATOMBITS) /\ S # {}
  BY <1>2
<1>4. maxexp \in S
  <2> HIDE DEF S
  <2>1. Max(S) \in S
    BY <1>1, <1>3, MaxIn
  <2> QED
    BY <2>1 DEF maxexp, S
<1>5. maxexp \in Nat /\ maxexp >= 1 /\ lexp(10, maxexp) < MPZ_BASE
  BY <1>4
<1> DEFINE i == maxexp - 1
<1>6. i \in Nat /\ i + 1 = maxexp
  BY <1>5
<1> HIDE DEF i
<1>7. lexp(10, i + 1) = 10 * lexp(10, i) /\ lexp(10, i) \in Nat /\ lexp(10, i) >= 1
  BY <1>6, TensAre
<1>8. lexp(10, maxexp) \in Nat /\ lexp(10, maxexp) >= 10
  BY <1>6, <1>7
<1> QED
  BY <1>5, <1>8 DEF maxpow

\* What is left of a group after each digit.
Rests(f, u, m) == f[0] = u /\ \A k \in 1 .. m : f[k] = f[k - 1] \div 10

\* The digits of the last group.
UsedOf(f, m) == Min({k \in 1 .. m : f[k] = 0} \cup {m})

\* A group is printed by dividing it by 10.
LEMMA GroupIs ==
  ASSUME NEW u \in Nat, NEW m \in Nat, NEW final \in BOOLEAN
  PROVE  \E f \in [0 .. m -> Nat] :
           /\ Rests(f, u, m)
           /\ GroupDigits(u, m, final) =
                [k \in 1 .. (IF final THEN UsedOf(f, m) ELSE m) |-> cset[1 + (f[k - 1] % 10)]]
<1> DEFINE V == Nat
           Eqn(f) == f = [k \in 0 .. m |-> IF k = 0 THEN u ELSE f[k - 1] \div 10]
           F == CHOOSE f : Eqn(f)
           step == [i \in 1 .. m |-> [v \in V |-> v \div 10]]
<1>1. GroupDigits(u, m, final) =
        [k \in 1 .. (IF final THEN UsedOf(F, m) ELSE m) |-> cset[1 + (F[k - 1] % 10)]]
  BY DEF GroupDigits, UsedOf
<1>2. step \in [1 .. m -> [V -> V]]
  <2>1. \A v \in Nat : v \div 10 \in Nat
    BY DivIs
  <2> QED
    BY <2>1
<1>3. PICK f \in [0 .. m -> V] : Iterates(f, u, m, step)
  <2>1. u \in V
    OBVIOUS
  <2> HIDE DEF V, step
  <2> QED
    BY <1>2, <2>1, Recursion
<1>4. f[0] = u /\ \A k \in 1 .. m : f[k] = f[k - 1] \div 10
  <2>1. f[0] = u
    BY <1>3 DEF Iterates
  <2>2. ASSUME NEW k \in 1 .. m PROVE f[k] = f[k - 1] \div 10
    <3>1. f[k] = step[k][f[k - 1]] /\ k - 1 \in 0 .. m
      BY <1>3 DEF Iterates
    <3>2. f[k - 1] \in V
      BY <3>1
    <3> QED
      BY <3>1, <3>2
  <2> QED
    BY <2>1, <2>2
<1>5. Eqn(f)
  <2>1. ASSUME NEW k \in 0 .. m PROVE f[k] = IF k = 0 THEN u ELSE f[k - 1] \div 10
    <3>1. k = 0 \/ k \in 1 .. m
      OBVIOUS
    <3> QED
      BY <1>4, <3>1
  <2>2. f = [k \in 0 .. m |-> f[k]]
    BY <1>3
  <2> QED
    BY <2>1, <2>2
<1>6. Eqn(F)
  <2> HIDE DEF Eqn
  <2> QED
    BY <1>5
<1>7. F[0] = u /\ \A k \in 1 .. m : F[k] = F[k - 1] \div 10
  <2>1. 0 \in 0 .. m /\ \A k \in 1 .. m : k \in 0 .. m /\ k # 0
    OBVIOUS
  <2> HIDE DEF F
  <2> QED
    BY <1>6, <2>1
<1>8. F = [k \in 0 .. m |-> F[k]]
  <2> DEFINE h == [k \in 0 .. m |-> IF k = 0 THEN u ELSE F[k - 1] \div 10]
  <2>1. F = h
    BY <1>6
  <2>2. h = [k \in 0 .. m |-> h[k]]
    OBVIOUS
  <2> HIDE DEF F, h
  <2> QED
    BY <2>1, <2>2
<1> HIDE DEF F, Eqn
<1>9. \A k \in 0 .. m : F[k] \in Nat
  <2> DEFINE S == {k \in Nat : F[k] \in Nat}
  <2>1. 0 \in S
    BY <1>7
  <2>2. ASSUME NEW i \in 0 .. m - 1, i \in S PROVE i + 1 \in S
    <3>1. i + 1 \in 1 .. m /\ (i + 1) - 1 = i /\ i + 1 \in Nat
      OBVIOUS
    <3>2. F[i + 1] = F[i] \div 10 /\ F[i] \in Nat
      BY <1>7, <2>2, <3>1
    <3>3. \A v \in Nat : v \div 10 \in Nat
      BY DivIs
    <3> QED
      BY <3>1, <3>2, <3>3
  <2> HIDE DEF S
  <2>3. \A k \in 0 .. m : k \in S
    BY <2>1, <2>2, UpTo
  <2> QED
    BY <2>3 DEF S
<1>10. F \in [0 .. m -> Nat]
  BY <1>8, <1>9
<1> QED
  BY <1>1, <1>7, <1>10 DEF Rests

\* A number below the power of 10 has no more digits than that.
LEMMA RestsEnd ==
  ASSUME NEW m \in Nat, NEW u \in Nat, u < lexp(10, m), NEW f \in [0 .. m -> Nat], Rests(f, u, m)
  PROVE  f[m] = 0
<1> DEFINE P(e) == lexp(10, e)
           S == {k \in 0 .. m : f[k] < P(m - k)}
<1>1. P(0) = 1 /\ \A e \in Nat : P(e) \in Nat /\ P(e + 1) = 10 * P(e)
  BY TensAre
<1>2. f[0] = u /\ \A k \in 1 .. m : f[k] = f[k - 1] \div 10
  BY DEF Rests
<1>3. u < P(m)
  OBVIOUS
<1> HIDE DEF P
<1>4. 0 \in S
  <2>1. m - 0 = m /\ 0 \in 0 .. m
    OBVIOUS
  <2> QED
    BY <1>2, <1>3, <2>1
<1>5. ASSUME NEW i \in 0 .. m - 1, i \in S PROVE i + 1 \in S
  <2> DEFINE a == f[i]
             c == f[i + 1]
             y == P(m - i)
             z == P(m - (i + 1))
  <2>1. i + 1 \in 1 .. m /\ (i + 1) - 1 = i /\ m - (i + 1) \in Nat /\ (m - (i + 1)) + 1 = m - i /\ i + 1 \in 0 .. m /\ i \in 0 .. m
    OBVIOUS
  <2>2. y = 10 * z /\ z \in Nat
    BY <1>1, <2>1
  <2>3. c = a \div 10 /\ a \in Nat /\ a < y
    BY <1>2, <1>5, <2>1
  <2> HIDE DEF a, c, y, z
  <2>4. c < z
    BY <2>2, <2>3
  <2> QED
    BY <2>1, <2>4 DEF c, z
<1> HIDE DEF S
<1>6. \A k \in 0 .. m : k \in S
  BY <1>4, <1>5, UpTo
<1>7. f[m] < P(m - m) /\ m \in 0 .. m
  <2>1. m \in S
    BY <1>6
  <2> QED
    BY <2>1 DEF S
<1>8. m - m = 0 /\ f[m] \in Nat
  OBVIOUS
<1>9. f[m] < 1
  BY <1>1, <1>7, <1>8
<1> QED
  BY <1>8, <1>9

\* A digit comes off, whatever goes on above.
LEMMA DigitOff ==
  ASSUME NEW a \in Nat, NEW h \in Nat, NEW q \in Nat
  PROVE  /\ a % 10 \in 0 .. 9 /\ a \div 10 \in Nat /\ h * q \in Nat
         /\ a + (10 * h) * q = (a % 10) + 10 * ((a \div 10) + h * q)
<1> DEFINE g == h * q
           i == a % 10
           e == a \div 10
<1>1. i \in 0 .. 9 /\ e \in Nat /\ a = 10 * e + i
  BY DivIs
<1>2. g \in Nat /\ (10 * h) * q = 10 * g
  OBVIOUS
<1> HIDE DEF g, i, e
<1>3. a + 10 * g = i + 10 * (e + g)
  BY <1>1, <1>2
<1> QED
  BY <1>1, <1>2, <1>3 DEF g, i, e

\* The first digits of a group, as many as it takes until nothing is left, are its number.
LEMMA GroupPrints ==
  ASSUME NEW u \in Nat, NEW m \in Nat, NEW f \in [0 .. m -> Nat], Rests(f, u, m),
         NEW j \in 0 .. m, f[j] = 0, NEW q \in Nat
  PROVE  LET ds == [k \in 1 .. j |-> cset[1 + (f[k - 1] % 10)]]
         IN  Prints(ds, u + lexp(10, j) * q, q)
<1> DEFINE ds == [k \in 1 .. j |-> cset[1 + (f[k - 1] % 10)]]
           P(e) == lexp(10, e)
           g == [k \in 1 .. j + 1 |-> f[k - 1] + P(j - k + 1) * q]
<1>1. P(0) = 1 /\ \A e \in Nat : P(e) \in Nat /\ P(e + 1) = 10 * P(e)
  BY TensAre
<1>2. f[0] = u /\ \A k \in 1 .. m : f[k] = f[k - 1] \div 10
  BY DEF Rests
<1> HIDE DEF P
<1>3. \A k \in 1 .. j : /\ f[k - 1] \in Nat /\ f[k] = f[k - 1] \div 10 /\ f[k - 1] % 10 \in 0 .. 9
  <2>1. ASSUME NEW k \in 1 .. j PROVE f[k - 1] \in Nat /\ f[k] = f[k - 1] \div 10
    <3>1. k \in 1 .. m /\ k - 1 \in 0 .. m
      OBVIOUS
    <3> QED
      BY <1>2, <3>1
  <2>2. \A a \in Nat : a % 10 \in 0 .. 9
    OBVIOUS
  <2> QED
    BY <2>1, <2>2
<1>4. ds \in Seq(Char) /\ Len(ds) = j
  <2>1. \A k \in 1 .. j : cset[1 + (f[k - 1] % 10)] \in Char
    BY <1>3, DigitChars
  <2>2. ds \in [1 .. j -> Char] /\ j \in Nat
    <3> HIDE DEF Char, cset
    <3> QED
      BY <2>1
  <2> HIDE DEF ds
  <2> QED
    BY <2>2, FunctionSeq
<1>5. g \in [1 .. j + 1 -> Nat]
  <2>1. ASSUME NEW k \in 1 .. j + 1 PROVE f[k - 1] + P(j - k + 1) * q \in Nat
    <3>1. k - 1 \in 0 .. m /\ j - k + 1 \in Nat
      OBVIOUS
    <3>2. f[k - 1] \in Nat /\ P(j - k + 1) \in Nat
      BY <1>1, <3>1
    <3>3. \A a \in Nat, h \in Nat : a + h * q \in Nat
      OBVIOUS
    <3> QED
      BY <3>2, <3>3
  <2> QED
    BY <2>1
<1>6. ASSUME NEW k \in 1 .. j
      PROVE  \E i \in 0 .. 9 : ds[k] = cset[1 + i] /\ g[k] = i + 10 * g[k + 1]
  <2> DEFINE a == f[k - 1]
             h == P(j - k)
             i == a % 10
  <2>1. a \in Nat /\ f[k] = a \div 10 /\ i \in 0 .. 9
    BY <1>3
  <2>2. h \in Nat /\ P(j - k + 1) = 10 * h
    <3>1. j - k \in Nat
      OBVIOUS
    <3> QED
      BY <1>1, <3>1
  <2>3. g[k] = a + P(j - k + 1) * q
    OBVIOUS
  <2>4. g[k + 1] = f[k] + h * q
    <3>1. k + 1 \in 1 .. j + 1 /\ (k + 1) - 1 = k /\ j - (k + 1) + 1 = j - k
      OBVIOUS
    <3> QED
      BY <3>1
  <2>5. ds[k] = cset[1 + i]
    OBVIOUS
  <2> HIDE DEF g, ds, h, a
  <2>6. a + (10 * h) * q = i + 10 * ((a \div 10) + h * q)
    BY <2>1, <2>2, DigitOff
  <2>7. g[k] = i + 10 * g[k + 1]
    BY <2>1, <2>2, <2>3, <2>4, <2>6
  <2> QED
    BY <2>1, <2>5, <2>7
<1>7. g[1] = u + P(j) * q /\ g[j + 1] = q
  <2>1. 1 \in 1 .. j + 1 /\ 1 - 1 = 0 /\ j - 1 + 1 = j /\ j + 1 \in 1 .. j + 1
        /\ (j + 1) - 1 = j /\ j - (j + 1) + 1 = 0
    OBVIOUS
  <2>2. g[1] = f[0] + P(j) * q
    BY <2>1
  <2>3. g[j + 1] = f[j] + P(0) * q
    BY <2>1
  <2>4. f[j] + P(0) * q = q
    BY <1>1
  <2> QED
    BY <1>2, <2>2, <2>3, <2>4
<1> HIDE DEF g, ds
<1>8. Quotients(g, ds)
  BY <1>4, <1>5, <1>6 DEF Quotients
<1>9. Prints(ds, u + P(j) * q, q)
  BY <1>4, <1>7, <1>8 DEF Prints
<1> QED
  BY <1>9 DEF ds, P

\* The digits of the last group end with one that is not 0.
LEMMA LastDigit ==
  ASSUME NEW m \in Nat, m >= 1, NEW f \in [0 .. m -> Nat], NEW u \in Nat, u >= 1, Rests(f, u, m), f[m] = 0
  PROVE  LET j == UsedOf(f, m)
         IN  j \in 1 .. m /\ f[j] = 0 /\ (f[j - 1] % 10) # 0
<1> DEFINE S == {k \in 1 .. m : f[k] = 0} \cup {m}
           j == Min(S)
<1>1. j \in S /\ \A p \in S : j <= p
  <2>1. S \in SUBSET Nat /\ S # {}
    OBVIOUS
  <2> HIDE DEF S
  <2> QED
    BY <2>1, MinIn
<1>2. UsedOf(f, m) = j
  BY DEF UsedOf
<1>3. j \in 1 .. m /\ f[j] = 0
  BY <1>1
<1>4. f[j - 1] # 0
  <2>1. CASE j = 1
    BY <2>1 DEF Rests
  <2>2. CASE j # 1
    <3>1. j - 1 \in 1 .. m /\ j - 1 < j
      BY <1>3, <2>2
    <3>2. j - 1 \notin S
      <4> HIDE DEF S
      <4> QED
        BY <1>1, <1>3, <3>1
    <3> QED
      BY <3>1, <3>2
  <2> QED
    BY <2>1, <2>2
<1>5. f[j - 1] \in Nat /\ f[j] = f[j - 1] \div 10
  BY <1>3 DEF Rests
<1> HIDE DEF j
<1> DEFINE a == f[j - 1]
<1>6. a \in Nat /\ a # 0 /\ a \div 10 = 0
  BY <1>3, <1>4, <1>5
<1> HIDE DEF a
<1>7. a % 10 # 0
  BY <1>6
<1> QED
  BY <1>2, <1>3, <1>7 DEF a

\* The digits, least significant first, do not end with zeros.
Ends(ds) == Len(ds) >= 1 /\ ds[Len(ds)] # "0"

\* Digits that come after others end as they did.
LEMMA EndsMore ==
  ASSUME NEW a \in Seq(Char), NEW b \in Seq(Char), Ends(b)
  PROVE  Ends(a \o b)
<1> DEFINE c == a \o b
<1>1. Len(c) = Len(a) + Len(b) /\ Len(a) \in Nat /\ Len(b) \in Nat /\ Len(b) >= 1
  BY DEF Ends
<1>2. c[Len(a) + Len(b)] = b[Len(b)]
  BY <1>1
<1> HIDE DEF c
<1>3. Len(c) >= 1 /\ c[Len(c)] = b[Len(b)]
  BY <1>1, <1>2
<1>4. Ends(c)
  BY <1>3 DEF Ends
<1> QED
  BY <1>4 DEF c

\* The digits of one long division: the remainder's, all of them while there is a quotient.
LEMMA GroupMeans ==
  ASSUME NEW y, Normal(y.z), y.rem \in 0 .. maxpow - 1
  PROVE  /\ Prints(Group(y), y.rem + maxpow * Size(y.z), Size(y.z))
         /\ y.z.l = 0 /\ y.rem >= 1 => Ends(Group(y))
<1> DEFINE m == maxexp
           u == y.rem
           v == Size(y.z)
<1>1. m \in Nat /\ m >= 1 /\ lexp(10, m) = maxpow /\ maxpow \in Nat
  BY MaxpowIs
<1>2. u \in Nat /\ u < lexp(10, m)
  BY <1>1
<1>3. v \in Nat /\ (y.z.l = 0 <=> v = 0)
  BY ZeroSize, SizeIs DEF Normal
<1>4. ASSUME NEW final \in BOOLEAN
      PROVE  \E f \in [0 .. m -> Nat] :
                /\ Rests(f, u, m) /\ f[m] = 0
                /\ GroupDigits(u, m, final) =
                     [k \in 1 .. (IF final THEN UsedOf(f, m) ELSE m) |-> cset[1 + (f[k - 1] % 10)]]
  <2> HIDE DEF m, u
  <2>1. PICK f \in [0 .. m -> Nat] :
                /\ Rests(f, u, m)
                /\ GroupDigits(u, m, final) =
                     [k \in 1 .. (IF final THEN UsedOf(f, m) ELSE m) |-> cset[1 + (f[k - 1] % 10)]]
    <3>1. m \in Nat /\ u \in Nat
      BY <1>1, <1>2
    <3> QED
      BY <3>1, GroupIs, Zenon
  <2>2. f[m] = 0
    BY <1>1, <1>2, <2>1, RestsEnd
  <2> QED
    BY <2>1, <2>2
<1>5. CASE y.z.l # 0
  <2>1. Group(y) = GroupDigits(u, m, FALSE)
    BY <1>5 DEF Group
  <2> HIDE DEF m, u, v
  <2>2. PICK f \in [0 .. m -> Nat] :
                /\ Rests(f, u, m) /\ f[m] = 0
                /\ GroupDigits(u, m, FALSE) = [k \in 1 .. m |-> cset[1 + (f[k - 1] % 10)]]
    BY <1>4
  <2> DEFINE ds == [k \in 1 .. m |-> cset[1 + (f[k - 1] % 10)]]
  <2>3. m \in 0 .. m
    BY <1>1
  <2>4. Prints(ds, u + lexp(10, m) * v, v)
    <3>1. m \in Nat /\ u \in Nat /\ v \in Nat
      BY <1>1, <1>2, <1>3
    <3>2. Rests(f, u, m) /\ f[m] = 0
      BY <2>2
    <3> QED
      BY <2>3, <3>1, <3>2, GroupPrints
  <2>5. Group(y) = ds
    BY <2>1, <2>2
  <2> HIDE DEF ds
  <2>6. Prints(Group(y), u + maxpow * v, v)
    BY <1>1, <2>4, <2>5
  <2> QED
    BY <1>5, <2>6 DEF u, v
<1>6. CASE y.z.l = 0
  <2>1. Group(y) = GroupDigits(u, m, TRUE)
    BY <1>6 DEF Group
  <2>7. v = 0
    BY <1>3, <1>6
  <2> HIDE DEF m, u, v
  <2>2. PICK f \in [0 .. m -> Nat] :
                /\ Rests(f, u, m) /\ f[m] = 0
                /\ GroupDigits(u, m, TRUE) = [k \in 1 .. UsedOf(f, m) |-> cset[1 + (f[k - 1] % 10)]]
    BY <1>4
  <2> DEFINE j == UsedOf(f, m)
             ds == [k \in 1 .. j |-> cset[1 + (f[k - 1] % 10)]]
  <2>3. j \in 1 .. m /\ f[j] = 0
    <3> DEFINE S == {k \in 1 .. m : f[k] = 0} \cup {m}
    <3>1. S \in SUBSET Nat /\ S # {}
      BY <1>1
    <3>2. \A k \in S : k \in 1 .. m /\ f[k] = 0
      BY <1>1, <2>2
    <3>3. j = Min(S)
      BY DEF UsedOf
    <3> HIDE DEF S, j
    <3>4. Min(S) \in S
      BY <3>1, MinIn
    <3> QED
      BY <3>2, <3>3, <3>4
  <2>4. Prints(ds, u + lexp(10, j) * v, v)
    <3>1. j \in 0 .. m
      BY <1>1, <2>3
    <3> HIDE DEF j
    <3> QED
      BY <1>1, <1>2, <1>3, <2>2, <2>3, <3>1, GroupPrints
  <2>5. Group(y) = ds
    BY <2>1, <2>2
  <2>6. u + lexp(10, j) * v = u + maxpow * v
    <3>1. lexp(10, j) \in Nat
      <4>1. j \in Nat
        BY <2>3
      <4> HIDE DEF j
      <4> QED
        BY <4>1, TensAre
    <3> HIDE DEF j
    <3> QED
      BY <1>1, <2>7, <3>1
  <2>8. u >= 1 => Ends(ds)
    <3>1. ASSUME u >= 1 PROVE (f[j - 1] % 10) # 0
      BY <1>1, <1>2, <2>2, <3>1, LastDigit
    <3>2. f[j - 1] % 10 \in 0 .. 9
      <4>1. j - 1 \in 0 .. m
        BY <1>1, <2>3
      <4>2. f[j - 1] \in Nat
        BY <4>1
      <4> QED
        BY <4>2
    <3>3. ds \in Seq(Char)
      <4> HIDE DEF ds
      <4> QED
        BY <2>4 DEF Prints
    <3>4. Len(ds) = j /\ j >= 1 /\ ds[j] = cset[1 + (f[j - 1] % 10)]
      <4>1. j \in Nat /\ j >= 1 /\ j \in 1 .. j
        BY <1>1, <2>3
      <4> HIDE DEF j
      <4> QED
        BY <3>3, <4>1
    <3>5. ASSUME u >= 1 PROVE cset[1 + (f[j - 1] % 10)] # "0"
      <4> HIDE DEF j
      <4> QED
        BY <3>1, <3>2, <3>5, DigitChars
    <3> HIDE DEF ds, j
    <3> QED
      BY <3>4, <3>5 DEF Ends
  <2> HIDE DEF ds, j
  <2>9. Prints(Group(y), u + maxpow * v, v) /\ (u >= 1 => Ends(Group(y)))
    BY <2>4, <2>5, <2>6, <2>8
  <2> QED
    BY <2>9 DEF u, v
<1> QED
  BY <1>5, <1>6

\* The digits of v that there are, and what is left to print.
Printing(p, v) ==
  Normal(p.z) /\ Prints(p.digits, v, Size(p.z)) /\ (p.z.l = 0 => Ends(p.digits))

\* A factor of 2 at least.
LEMMA TwiceAtLeast ==
  ASSUME NEW a \in Nat, a >= 2, NEW q \in Nat
  PROVE  a * q >= 2 * q
<1> DEFINE e == a - 2
<1>1. e \in Nat /\ a = 2 + e
  OBVIOUS
<1> HIDE DEF e
<1>2. e * q \in Nat /\ (2 + e) * q = 2 * q + e * q
  BY <1>1
<1> DEFINE w == e * q
           y == (2 + e) * q
<1>3. w \in Nat /\ y = 2 * q + w
  BY <1>2
<1> HIDE DEF w, y
<1>4. y >= 2 * q
  BY <1>3
<1> QED
  BY <1>1, <1>4 DEF y

\* One long division prints the digits of its remainder and leaves the quotient.
LEMMA NextGroupMeans ==
  ASSUME NEW v, NEW p, Printing(p, v)
  PROVE  LET t == NextGroup(p)
         IN  Printing(t, v) /\ 2 * Size(t.z) <= Size(p.z)
<1> DEFINE t == NextGroup(p)
           y == _mpz_selfdiv1_qr_raw(p.z, maxpow)
<1>1. Normal(p.z) /\ Prints(p.digits, v, Size(p.z)) /\ (p.z.l = 0 => Ends(p.digits))
  BY DEF Printing
<1>2. Size(p.z) \in Nat /\ p.z.l \in Nat /\ (p.z.l = 0 <=> Size(p.z) = 0)
  <2>1. Clean(p.z)
    BY <1>1 DEF Normal
  <2> QED
    BY <1>1, <2>1, ZeroSize, SizeIs, CleanType
<1>3. CASE p.z.l = 0
  <2>1. t = p
    BY <1>3 DEF NextGroup
  <2> HIDE DEF t
  <2>2. 2 * Size(p.z) <= Size(p.z)
    BY <1>2, <1>3
  <2>3. Printing(t, v) /\ 2 * Size(t.z) <= Size(p.z)
    BY <2>1, <2>2
  <2> QED
    BY <2>3 DEF t
<1>4. CASE p.z.l # 0
  <2>1. t = [z |-> y.z, digits |-> p.digits \o Group(y)]
    BY <1>4 DEF NextGroup
  <2>2. t.z = y.z /\ t.digits = p.digits \o Group(y)
    <3> DEFINE e == p.digits \o Group(y)
    <3> HIDE DEF t, y, e
    <3>1. t = [z |-> y.z, digits |-> e]
      BY <2>1 DEF e
    <3>2. t.z = y.z /\ t.digits = e
      BY <3>1
    <3> QED
      BY <3>2 DEF e
  <2>3. maxpow \in Nat /\ maxpow >= 10 /\ maxpow < MPZ_BASE
    BY MaxpowIs
  <2>4. Normal(y.z) /\ y.rem \in 0 .. maxpow - 1 /\ Size(p.z) = maxpow * Size(y.z) + y.rem
    <3>1. p.z.l >= 1 /\ maxpow >= 1
      BY <1>2, <1>4, <2>3
    <3> QED
      BY <1>1, <2>3, <3>1, ShortDivision
  <2> HIDE DEF t, y
  <2> DEFINE q == Size(y.z)
             u == y.rem
  <2>5. q \in Nat /\ (y.z.l = 0 <=> q = 0)
    <3>1. Clean(y.z)
      BY <2>4 DEF Normal
    <3> QED
      BY <2>4, <3>1, ZeroSize, SizeIs
  <2>6. u \in Nat
    BY <2>3, <2>4
  <2>7. Prints(Group(y), u + maxpow * q, q) /\ (y.z.l = 0 /\ u >= 1 => Ends(Group(y)))
    BY <2>4, GroupMeans
  <2>8. maxpow * q >= 2 * q /\ maxpow * q \in Nat
    <3> HIDE DEF q
    <3>1. maxpow \in Nat /\ maxpow >= 2
      BY <2>3
    <3> QED
      BY <2>5, <3>1, TwiceAtLeast
  <2> DEFINE w == maxpow * q
  <2>9. w >= 2 * q /\ w \in Nat /\ Size(p.z) = w + u
    BY <2>4, <2>8
  <2>10. Prints(Group(y), Size(p.z), q)
    <3>1. u + w = Size(p.z)
      <4> HIDE DEF w, u
      <4> QED
        BY <2>6, <2>9
    <3>2. Prints(Group(y), u + w, q)
      BY <2>7
    <3> HIDE DEF w, u, q
    <3> QED
      BY <3>1, <3>2
  <2>11. 2 * q <= Size(p.z)
    <3> HIDE DEF w, u, q
    <3> QED
      BY <2>5, <2>6, <2>9
  <2>12. y.z.l = 0 => u >= 1
    <3>1. ASSUME q = 0 PROVE w = 0
      BY <2>3, <3>1
    <3>2. Size(p.z) # 0
      BY <1>2, <1>4
    <3> HIDE DEF w, u, q
    <3> QED
      BY <2>5, <2>6, <2>9, <3>1, <3>2
  <2> HIDE DEF w, u, q
  <2>13. Prints(t.digits, v, q)
    BY <1>1, <2>2, <2>10, PrintsMore
  <2>14. p.digits \in Seq(Char) /\ Group(y) \in Seq(Char)
    BY <1>1, <2>10 DEF Prints
  <2>15. y.z.l = 0 => Ends(t.digits)
    BY <2>2, <2>7, <2>12, <2>14, EndsMore
  <2>16. Printing(t, v) /\ 2 * Size(t.z) <= Size(p.z)
    BY <2>2, <2>4, <2>11, <2>13, <2>15 DEF Printing, q
  <2> QED
    BY <2>16 DEF t
<1> QED
  BY <1>3, <1>4

\* mpz_get_str() prints every digit of a number that is not 0.
LEMMA TextDigitsAre ==
  ASSUME NEW t, Normal(t), t.l >= 1
  PROVE  Prints(TextDigits(t), Size(t), 0) /\ Ends(TextDigits(t))
<1> DEFINE v == Size(t)
           m == t.l * ATOMBITS
           p0 == [z |-> t, digits |-> << >>]
           V == {p \in [z : Numeral, digits : Seq(Char)] : Printing(p, v)}
           Eqn(f) == f = [k \in 0 .. m |-> IF k = 0 THEN p0 ELSE NextGroup(f[k - 1])]
           F == CHOOSE f : Eqn(f)
           step == [i \in 1 .. m |-> [p \in V |-> NextGroup(p)]]
<1>1. TextDigits(t) = F[m].digits
  BY DEF TextDigits
<1>2. /\ Clean(t) /\ t.l \in Nat /\ m \in Nat /\ v \in Nat
      /\ \A k \in 1 .. t.l : t.d[k] \in Digit
  <2>1. Clean(t)
    BY DEF Normal
  <2>2. t.l \in Nat /\ v \in Nat /\ \A k \in 1 .. t.l : t.d[k] \in Digit
    BY <2>1, CleanType, SizeIs
  <2> QED
    BY <2>1, <2>2, AtomAssumption
<1>3. p0 \in V
  <2>1. t \in Numeral
    BY NumeralIs
  <2>2. p0 \in [z : Numeral, digits : Seq(Char)] /\ p0.z = t /\ p0.digits = << >>
    <3> HIDE DEF Numeral, Char
    <3> QED
      BY <2>1
  <2>3. Prints(<< >>, v, v)
    BY <1>2, PrintsNothing
  <2> HIDE DEF p0
  <2>4. Printing(p0, v)
    BY <2>2, <2>3 DEF Printing
  <2> QED
    BY <2>2, <2>4
<1>4. ASSUME NEW p \in V
      PROVE  NextGroup(p) \in V /\ 2 * Size(NextGroup(p).z) <= Size(p.z)
  <2> DEFINE w == NextGroup(p)
  <2>1. Printing(p, v)
    OBVIOUS
  <2> HIDE DEF v
  <2>2. Printing(w, v) /\ 2 * Size(w.z) <= Size(p.z)
    BY <2>1, NextGroupMeans
  <2>3. w.z \in Numeral /\ w.digits \in Seq(Char)
    BY <2>2, NumeralIs DEF Printing, Prints
  <2>4. w = [z |-> w.z, digits |-> w.digits]
    <3>1. CASE p.z.l = 0
      <4>1. w = p
        BY <3>1 DEF NextGroup
      <4>2. p = [z |-> p.z, digits |-> p.digits]
        <5> HIDE DEF Numeral, Char
        <5> QED
          OBVIOUS
      <4> HIDE DEF w
      <4> QED
        BY <4>1, <4>2
    <3>2. CASE p.z.l # 0
      <4> DEFINE y == _mpz_selfdiv1_qr_raw(p.z, maxpow)
                 a == y.z
                 e == p.digits \o Group(y)
      <4>1. w = [z |-> a, digits |-> e]
        BY <3>2 DEF NextGroup
      <4> HIDE DEF w, a, e
      <4> QED
        BY <4>1
    <3> QED
      BY <3>1, <3>2
  <2> HIDE DEF w
  <2>5. w \in [z : Numeral, digits : Seq(Char)]
    <3> HIDE DEF Numeral, Char
    <3> QED
      BY <2>3, <2>4
  <2>6. w \in V
    BY <2>2, <2>5
  <2> QED
    BY <2>2, <2>6 DEF w
<1>5. step \in [1 .. m -> [V -> V]]
  <2> HIDE DEF V, m
  <2> QED
    BY <1>4
<1>6. PICK f \in [0 .. m -> V] : Iterates(f, p0, m, step)
  <2> HIDE DEF V, step, m, p0
  <2> QED
    BY <1>2, <1>3, <1>5, Recursion
<1>7. f[0] = p0 /\ \A k \in 1 .. m : f[k] = NextGroup(f[k - 1])
  <2> HIDE DEF V, m, p0
  <2>1. f[0] = p0 /\ \A k \in 1 .. m : f[k] = step[k][f[k - 1]]
    BY <1>6 DEF Iterates
  <2>2. ASSUME NEW k \in 1 .. m PROVE f[k] = NextGroup(f[k - 1])
    <3>1. f[k] = step[k][f[k - 1]] /\ k - 1 \in 0 .. m
      BY <1>2, <2>1
    <3>2. f[k - 1] \in V
      BY <3>1
    <3> QED
      BY <3>1, <3>2
  <2> QED
    BY <2>1, <2>2
<1> HIDE DEF V, step, m, p0, v
<1>8. Eqn(f)
  <2>1. ASSUME NEW k \in 0 .. m PROVE f[k] = IF k = 0 THEN p0 ELSE NextGroup(f[k - 1])
    <3>1. k = 0 \/ k \in 1 .. m
      BY <1>2
    <3> QED
      BY <1>7, <3>1
  <2>2. f = [k \in 0 .. m |-> f[k]]
    BY <1>6
  <2> QED
    BY <2>1, <2>2
<1>9. Eqn(F)
  <2> HIDE DEF Eqn
  <2> QED
    BY <1>8
<1>10. F[0] = p0 /\ \A k \in 1 .. m : F[k] = NextGroup(F[k - 1])
  <2>1. 0 \in 0 .. m /\ \A k \in 1 .. m : k \in 0 .. m /\ k # 0
    BY <1>2
  <2> HIDE DEF F
  <2> QED
    BY <1>9, <2>1
<1> HIDE DEF F, Eqn
<1> DEFINE Left(k) == Shifted(t.d, t.l, k)
           S == {k \in 0 .. m : F[k] \in V /\ Size(F[k].z) <= Left(k)}
<1>11. /\ Left(0) = v /\ Left(m) = 0
       /\ \A k \in Nat : Left(k) \in Nat /\ Left(k + 1) \in Nat /\ Left(k) <= 2 * Left(k + 1) + 1
  <2>1. Left(0) = v
    BY <1>2, ShiftedWhole DEF Size, v
  <2>2. Left(m) = 0
    BY EnoughRounds DEF m
  <2>3. ASSUME NEW k \in Nat PROVE Left(k) \in Nat /\ Left(k + 1) \in Nat /\ Left(k) <= 2 * Left(k + 1) + 1
    <3> DEFINE b == BitAt(t.d, t.l, k)
    <3>1. Left(k) = 2 * Left(k + 1) + b /\ Left(k) \in Nat /\ Left(k + 1) \in Nat /\ b \in {0, 1}
      BY <1>2, ShiftedStep
    <3> HIDE DEF Left, b
    <3> QED
      BY <3>1
  <2> HIDE DEF Left
  <2> QED
    BY <2>1, <2>2, <2>3
<1> HIDE DEF Left
<1>12. 0 \in S
  <2>1. F[0].z = t /\ Size(t) = v
    BY <1>10 DEF p0, v
  <2>2. 0 \in 0 .. m /\ v <= v
    BY <1>2
  <2> QED
    BY <1>3, <1>10, <1>11, <2>1, <2>2
<1>13. ASSUME NEW i \in 0 .. m - 1, i \in S PROVE i + 1 \in S
  <2> DEFINE a == Size(F[i].z)
             c == Size(F[i + 1].z)
  <2>1. i + 1 \in 1 .. m /\ (i + 1) - 1 = i /\ i + 1 \in 0 .. m /\ i \in Nat
    BY <1>2
  <2>2. F[i + 1] = NextGroup(F[i]) /\ F[i] \in V /\ a <= Left(i)
    BY <1>10, <1>13, <2>1
  <2>3. F[i + 1] \in V /\ 2 * c <= a
    BY <1>4, <2>2
  <2>4. a \in Nat /\ c \in Nat
    <3>1. Clean(F[i].z) /\ Clean(F[i + 1].z)
      BY <2>2, <2>3 DEF V, Printing, Normal
    <3> QED
      BY <3>1, SizeIs
  <2> HIDE DEF a, c
  <2>5. Left(i) \in Nat /\ Left(i + 1) \in Nat /\ Left(i) <= 2 * Left(i + 1) + 1
    BY <1>11, <2>1
  <2>6. c <= Left(i + 1)
    BY <2>2, <2>3, <2>4, <2>5
  <2> QED
    BY <2>1, <2>3, <2>6 DEF c
<1> HIDE DEF S
<1>14. \A k \in 0 .. m : k \in S
  BY <1>2, <1>12, <1>13, UpTo
<1>15. F[m] \in V /\ Size(F[m].z) <= 0
  <2>1. m \in S
    BY <1>2, <1>14
  <2> QED
    BY <1>11, <2>1 DEF S
<1>16. Printing(F[m], v)
  BY <1>15 DEF V
<1>17. Size(F[m].z) = 0 /\ F[m].z.l = 0
  <2>1. Normal(F[m].z) /\ Clean(F[m].z)
    BY <1>16 DEF Printing, Normal
  <2>2. Size(F[m].z) \in Nat
    BY <2>1, SizeIs
  <2>3. Size(F[m].z) = 0
    BY <1>15, <2>2
  <2> QED
    BY <2>1, <2>3, ZeroSize
<1>18. Prints(F[m].digits, v, 0) /\ Ends(F[m].digits)
  BY <1>16, <1>17 DEF Printing
<1> QED
  BY <1>1, <1>18 DEF v

\* A lone 0.
LEMMA PrintsZero ==
  Prints(<<"0">>, 0, 0)
<1> DEFINE f == [k \in 1 .. 2 |-> 0]
           ds == <<"0">>
<1>1. cset[1 + 0] = "0" /\ cset[1 + 0] \in Char
  BY DigitChars
<1>2. ds \in Seq(Char) /\ Len(ds) = 1 /\ ds[1] = cset[1 + 0]
  <2>1. "0" \in Char
    BY <1>1
  <2> HIDE DEF Char
  <2> QED
    BY <1>1, <2>1
<1> HIDE DEF ds
<1>3. Quotients(f, ds)
  <2>1. f \in [1 .. Len(ds) + 1 -> Nat]
    BY <1>2
  <2>2. ASSUME NEW k \in 1 .. Len(ds)
        PROVE  \E i \in 0 .. 9 : ds[k] = cset[1 + i] /\ f[k] = i + 10 * f[k + 1]
    <3>1. k = 1
      BY <1>2
    <3>2. f[1] = 0 + 10 * f[1 + 1]
      OBVIOUS
    <3>3. 0 \in 0 .. 9
      OBVIOUS
    <3> QED
      BY <1>2, <3>1, <3>2, <3>3
  <2> QED
    BY <2>1, <2>2 DEF Quotients
<1>4. f[1] = 0 /\ f[Len(ds) + 1] = 0
  BY <1>2
<1> HIDE DEF f
<1>5. Prints(ds, 0, 0)
  BY <1>2, <1>3, <1>4 DEF Prints
<1> QED
  BY <1>5 DEF ds

\* A number that is printed by mpz_get_str() is read back by mpz_set_str(), sign included.
THEOREM PrintedIsRead ==
  ASSUME NEW z, Normal(z)
  PROVE  LET t == mpz_set_str(mpz_get_str(z))
         IN  Normal(t) /\ Value(t) = Value(z)
<1> DEFINE ds == IF z.l = 0 THEN <<"0">> ELSE TextDigits(mpz_set(mpz_init, z))
           v == Size(z)
           sign == z.s
           s == Reverse(ds \o (IF sign = 1 THEN <<"-">> ELSE << >>))
<1>1. mpz_get_str(z) = s
  BY DEF mpz_get_str
<1>2. Clean(z) /\ v \in Nat /\ sign \in {0, 1} /\ z.l \in Nat
  <2>1. Clean(z)
    BY DEF Normal
  <2> QED
    BY <2>1, CleanType, SizeIs
<1>3. Prints(ds, v, 0) /\ Len(ds) >= 1 /\ (ds[Len(ds)] = "0" => Len(ds) = 1)
  <2>1. CASE z.l = 0
    <3> DEFINE e == <<"0">>
    <3>1. ds = e /\ Len(e) = 1
      BY <2>1
    <3>2. v = 0
      BY <2>1, ZeroSize
    <3>3. Prints(e, 0, 0)
      BY PrintsZero
    <3> HIDE DEF ds, e, v
    <3> QED
      BY <3>1, <3>2, <3>3
  <2>2. CASE z.l # 0
    <3> DEFINE c == mpz_set(mpz_init, z)
    <3>1. Clean(mpz_init)
      BY InitIs DEF Normal
    <3>2. Normal(c) /\ c.l = z.l /\ Size(c) = v
      BY <1>2, <3>1, SetCopies
    <3>3. ds = TextDigits(c)
      BY <2>2
    <3>4. c.l >= 1
      BY <1>2, <2>2, <3>2
    <3> HIDE DEF c, ds, v
    <3>5. Prints(ds, v, 0) /\ Ends(ds)
      BY <3>2, <3>3, <3>4, TextDigitsAre
    <3> QED
      BY <3>5 DEF Ends
  <2> QED
    BY <2>1, <2>2
<1> HIDE DEF ds, v, sign
<1>4. Normal(mpz_set_str(s)) /\ Value(mpz_set_str(s)) = IF sign = 1 THEN -v ELSE v
  BY <1>2, <1>3, TextIsRead
<1>5. (sign = 0 => Value(z) = v) /\ (sign = 1 => Value(z) = -v)
  BY <1>2, ValueIs DEF sign, v
<1> HIDE DEF s
<1>6. Value(mpz_set_str(s)) = Value(z)
  BY <1>2, <1>4, <1>5
<1> QED
  BY <1>1, <1>4, <1>6

\* The text of an object, where it is there, is read as the object's value.
TextKept(o) == o.text # << >> => Value(mpz_set_str(o.text[1])) = o.value

\* Adding the number to an object leaves its text and its value alone.
LEMMA AddingKeepsText ==
  ASSUME NEW o, Known(o), TextKept(o)
  PROVE  TextKept(SetMpzFromAny(o))
<1> DEFINE p == SetMpzFromAny(o)
           t == mpz_set_str(o.text[1])
<1>1. p = o \/ p = [o EXCEPT !.mpz = <<t>>]
  BY DEF SetMpzFromAny
<1>2. o = [text |-> o.text, mpz |-> o.mpz, value |-> o.value, ok |-> o.ok]
  BY DEF Known
<1> HIDE DEF p, t
<1>3. p.text = o.text /\ p.value = o.value
  BY <1>1, <1>2
<1>4. TextKept(p)
  BY <1>3 DEF TextKept
<1> QED
  BY <1>4 DEF p

\* A new number drops the text of the old one.
LEMMA SettingDropsText ==
  ASSUME NEW o, Known(o), NEW t, NEW v
  PROVE  TextKept(Tcl_SetMpzObj(o, t, v))
<1> DEFINE p == Tcl_SetMpzObj(o, t, v)
           e == mpz_set(mpz_init, t)
<1>1. p = [o EXCEPT !.text = << >>, !.mpz = <<e>>, !.value = v]
  BY DEF Tcl_SetMpzObj
<1>2. o = [text |-> o.text, mpz |-> o.mpz, value |-> o.value, ok |-> o.ok]
  BY DEF Known
<1> HIDE DEF p, e
<1>3. p.text = << >>
  BY <1>1, <1>2
<1>4. TextKept(p)
  BY <1>3 DEF TextKept
<1> QED
  BY <1>4 DEF p

\* A text that is made from the number is read back as that number.
LEMMA PrintingKeepsText ==
  ASSUME NEW o, Known(o), TextKept(o)
  PROVE  TextKept(UpdateStringOfMpz(o))
<1> DEFINE p == UpdateStringOfMpz(o)
           s == mpz_get_str(o.mpz[1])
<1>1. CASE o.text # << >>
  <2>1. p = o
    BY <1>1 DEF UpdateStringOfMpz
  <2> HIDE DEF p
  <2>2. TextKept(p)
    BY <2>1
  <2> QED
    BY <2>2 DEF p
<1>2. CASE o.text = << >>
  <2>1. o = [text |-> o.text, mpz |-> o.mpz, value |-> o.value, ok |-> o.ok]
    BY DEF Known
  <2>2. o.mpz # << >>
    <3>1. o.mpz = << >> => o \in Words
      BY DEF Known
    <3>2. o \in Words => o.text # << >>
      BY WordIs
    <3> QED
      BY <1>2, <3>1, <3>2
  <2>3. Normal(o.mpz[1]) /\ Value(o.mpz[1]) = o.value
    BY <2>2 DEF Known
  <2>4. Value(mpz_set_str(s)) = o.value
    BY <2>3, PrintedIsRead
  <2>5. p = [o EXCEPT !.text = <<s>>]
    BY <1>2 DEF UpdateStringOfMpz
  <2> HIDE DEF p, s
  <2>6. p.text = <<s>> /\ p.value = o.value
    BY <2>1, <2>5
  <2>7. p.text[1] = s
    BY <2>6
  <2>8. TextKept(p)
    BY <2>4, <2>6, <2>7 DEF TextKept
  <2> QED
    BY <2>8 DEF p
<1> QED
  BY <1>1, <1>2

\* What a step makes of x.
LEMMA StepMakes ==
  ASSUME [Next]_vars
  PROVE  \/ x' \in {x, SetMpzFromAny(x), UpdateStringOfMpz(x)}
         \/ \E t, v : x' = Tcl_SetMpzObj(x, t, v)
<1>1. ASSUME NEW cmd, NEW args, NEW t, Store(cmd, args, t)
      PROVE  x' = SetMpzFromAny(x) \/ x' = Tcl_SetMpzObj(x, t, Value(t))
  BY <1>1 DEF Store
<1>2. CASE Basic
  <2>1. PICK cmd \in Operators, args \in Operands \cup {<< >>} :
          Store(cmd, args, BigBasicObjCmd(cmd, Numbers(args)))
    BY <1>2 DEF Basic
  <2> QED
    BY <1>1, <2>1
<1>3. CASE Pow
  <2>1. \/ \E w \in Words : Store("**", <<x, w>>, BigPowObjCmd(Numbers(<<x, w>>)))
        \/ \E w, o \in Words : Store("**", <<x, w, o>>, BigPowObjCmd(Numbers(<<x, w, o>>)))
    BY <1>3 DEF Pow
  <2> QED
    BY <1>1, <2>1
<1>4. CASE Compare
  BY <1>4 DEF Compare
<1>5. CASE Random
  <2>1. PICK len \in {-2, 0, 1}, atoms \in [1 .. 2 -> RandomAtoms] :
          Store("rand", << >>, mpz_random(len, atoms))
    BY <1>5 DEF Random
  <2> QED
    BY <1>1, <2>1
<1>6. CASE Show
  BY <1>6 DEF Show
<1>7. CASE UNCHANGED vars
  BY <1>7 DEF vars
<1> QED
  BY <1>2, <1>3, <1>4, <1>5, <1>6, <1>7 DEF Next

\* The text of x and its number agree throughout a script, whatever was computed, stored and
\* printed before (the dual objects of script.c, mpz_get_str() and mpz_set_str()).
THEOREM AlwaysFormsAgree == Spec => []FormsAgree
<1>1. Init => NumberKept /\ TextKept(x)
  <2>1. Init => x \in Words /\ x.ok
    BY DEF Init
  <2>2. Init => TextKept(x)
    BY <2>1, WordIs DEF TextKept
  <2> QED
    BY <2>2, StartsWithNumber
<1>2. NumberKept /\ TextKept(x) /\ [Next]_vars => NumberKept' /\ TextKept(x)'
  <2> SUFFICES ASSUME NumberKept, TextKept(x), [Next]_vars PROVE NumberKept' /\ TextKept(x')
    OBVIOUS
  <2>1. NumberKept'
    BY StepKeepsNumber
  <2>2. Known(x)
    BY DEF NumberKept
  <2>3. TextKept(x')
    <3>1. /\ TextKept(SetMpzFromAny(x)) /\ TextKept(UpdateStringOfMpz(x))
          /\ \A t, v : TextKept(Tcl_SetMpzObj(x, t, v))
      BY <2>2, AddingKeepsText, SettingDropsText, PrintingKeepsText
    <3> QED
      BY <3>1, StepMakes
  <2> QED
    BY <2>1, <2>3
<1>3. NumberKept /\ TextKept(x) => FormsAgree
  BY DEF NumberKept, Known, TextKept, FormsAgree
<1> QED
  BY <1>1, <1>2, <1>3, PTL DEF Spec

=============================================================================
