------------------------------- MODULE Bignum -------------------------------
(***************************************************************************)
(* The multiple precision library behind the math commands of the script   *)
(* interpreter (src/src/sbignum.c): the operations the commands reach.     *)
(*                                                                         *)
(* A number is [d, l, s] as in struct struct_sbnz: d is the storage, least *)
(* significant atom first, of which l atoms are in use, and s the sign     *)
(* (1 = negative).  Storage only grows, and what lies beyond l must be     *)
(* zero: some loops add to it and mpz_normalize() looks at all of it.      *)
(*                                                                         *)
(* Operands overlap in C.  An operation whose target is also its first     *)
(* operand takes that number once (..Self); the copies the code makes of   *)
(* other operands that share the target's storage are the values here.     *)
(* Memory never runs out.                                                  *)
(***************************************************************************)
EXTENDS Integers, Sequences, SequencesExt, FiniteSetsExt

CONSTANT ATOMBITS   \* 32 in sbignum.h, where 16 and 8 are allowed as well

\* A digit and the base of a number fit in one atom.
ASSUME AtomAssumption == ATOMBITS \in Nat /\ ATOMBITS >= 6

MPZ_BASE == 2 ^ ATOMBITS

\* What a function that fails returns in place of its result.
SBN_INVAL == [error |-> "SBN_INVAL"]

-----------------------------------------------------------------------------
(* Storage.                                                                *)

mpz_init == [d |-> << >>, l |-> 0, s |-> 0]

Zeros(n) == [k \in 1 .. n |-> 0]

\* At least i+1 atoms are allocated afterwards.
mpz_realloc(z, i) ==
  IF i < Len(z.d) THEN z ELSE [z EXCEPT !.d = @ \o Zeros(i + 1 - Len(@))]

mpz_zero(z) ==
  [z EXCEPT !.d = [k \in DOMAIN z.d |-> IF k <= z.l THEN 0 ELSE z.d[k]], !.l = 0]

mpz_zero_realloc(z, i) == mpz_zero(mpz_realloc(z, i))

\* The macro _mpz_normalize() leaves the sign alone, the function does not.
AtomsUsed(d) == Max({0} \cup {k \in DOMAIN d : d[k] # 0})

NormalizeLength(z) == [z EXCEPT !.l = AtomsUsed(z.d)]

\* A bug: leading zero atoms stay in use.
mpz_normalize_Not(z) == z

mpz_normalize(z) ==
  IF z.d = << >> THEN z
  ELSE [z EXCEPT !.l = AtomsUsed(z.d), !.s = IF AtomsUsed(z.d) = 0 THEN 0 ELSE @]

mpz_setzero(z) == [mpz_zero_realloc(z, 0) EXCEPT !.s = 0]

mpz_set(z, s) ==
  LET r == mpz_zero_realloc(z, s.l)
  IN  [d |-> [k \in DOMAIN r.d |-> IF k <= s.l THEN s.d[k] ELSE r.d[k]], l |-> s.l, s |-> s.s]

\* An immediate: one atom, none for 0.
u32tompz(u) == IF u = 0 THEN mpz_init ELSE [d |-> <<u>>, l |-> 1, s |-> 0]

mpz_set_ui(z, u) == mpz_set(z, u32tompz(u))

-----------------------------------------------------------------------------
(* Comparison.                                                             *)

mpz_cmpabs(a, b) ==
  LET differ == {k \in 1 .. a.l : a.d[k] # b.d[k]}
  IN  CASE a.l > b.l -> 1
        [] a.l < b.l -> -1
        [] a.l = b.l /\ differ = {} -> 0
        [] OTHER -> IF a.d[Max(differ)] > b.d[Max(differ)] THEN 1 ELSE -1

\* A bug: the magnitudes of two negative numbers are compared.
mpz_cmp_Abs(a, b) ==
  IF a.l = 0 /\ b.l = 0 THEN 0
  ELSE IF a.s = b.s THEN mpz_cmpabs(a, b)
  ELSE IF a.s = 1 THEN -1 ELSE 1

mpz_cmp(a, b) ==
  IF a.l = 0 /\ b.l = 0 THEN 0
  ELSE IF a.s = b.s THEN IF a.s = 1 THEN mpz_cmpabs(b, a) ELSE mpz_cmpabs(a, b)
  ELSE IF a.s = 1 THEN -1 ELSE 1

-----------------------------------------------------------------------------
(* Addition and subtraction: carries and borrows run from atom to atom.    *)

Atom(d, l, k) == IF k <= l THEN d[k] ELSE 0

LongerOf(z, l) == Max({z.l, l})

\* z += d[0 .. l-1], signs aside.
AddSelf(z, d, l) ==
  LET n == LongerOf(z, l)
      t == mpz_realloc(z, n)
      carry[k \in 0 .. n] ==
        IF k = 0 THEN 0 ELSE (Atom(d, l, k) + t.d[k] + carry[k - 1]) \div MPZ_BASE
  IN  [t EXCEPT
         !.d = [k \in DOMAIN t.d |->
                  IF k <= n THEN (Atom(d, l, k) + t.d[k] + carry[k - 1]) % MPZ_BASE
                  ELSE IF k = n + 1 /\ carry[n] > 0 THEN carry[n]
                  ELSE t.d[k]],
         !.l = IF carry[n] > 0 THEN n + 1 ELSE n]

\* A bug: the borrow stops at the last atom of the subtrahend.
Borrow_Short(z, d, l) ==
  LET borrow[k \in 0 .. z.l] ==
        IF k = 0 \/ k >= l THEN 0
        ELSE IF z.d[k] - borrow[k - 1] - Atom(d, l, k) < 0 THEN 1 ELSE 0
  IN  borrow

Borrow(z, d, l) ==
  LET borrow[k \in 0 .. z.l] ==
        IF k = 0 THEN 0
        ELSE IF z.d[k] - borrow[k - 1] - Atom(d, l, k) < 0 THEN 1 ELSE 0
  IN  borrow

\* r = z - d[0 .. l-1] where z is not smaller; r holds z's atoms already.
Subtract(r, z, d, l) ==
  LET borrow == Borrow(z, d, l)
  IN  mpz_normalize(
        [r EXCEPT
           !.d = [k \in DOMAIN r.d |->
                    IF k <= z.l THEN (z.d[k] - borrow[k - 1] - Atom(d, l, k)) % MPZ_BASE
                    ELSE r.d[k]],
           !.l = z.l])

\* z -= d[0 .. l-1]
SubSelf(z, d, l) == Subtract(z, z, d, l)
mpz_subi_raw(r, z, d, l) == Subtract(mpz_set(r, z), z, d, l)

Negative(z) == [z EXCEPT !.s = IF z.l = 0 THEN 0 ELSE 1]
Positive(z) == [z EXCEPT !.s = 0]

\* a - b of the magnitudes, into a; the sign when a is the greater, and when not.
Difference(a, b, greater(_), smaller(_)) ==
  IF mpz_cmpabs(a, b) >= 0 THEN greater(SubSelf(a, b.d, b.l))
  ELSE smaller(mpz_subi_raw(a, b, a.d, a.l))

\* a += b
mpz_add(a, b) ==
  IF a.s = b.s THEN AddSelf(a, b.d, b.l)
  ELSE IF a.s = 1 THEN Difference(a, b, Negative, Positive)
  ELSE Difference(a, b, Positive, Negative)

\* a -= b
mpz_sub(a, b) ==
  IF a.s # b.s THEN AddSelf(a, b.d, b.l)
  ELSE IF a.s = 1 THEN Difference(a, b, Negative, Positive)
  ELSE Difference(a, b, Positive, Negative)

-----------------------------------------------------------------------------
(* Multiplication: one row for each atom of the factor.                    *)

\* Row j adds z * f, j atoms up; the last carry starts a new atom.
Row(rd, z, f, j) ==
  LET carry[i \in 0 .. z.l] ==
        IF i = 0 THEN 0 ELSE (f * z.d[i] + carry[i - 1] + rd[i + j]) \div MPZ_BASE
  IN  [k \in DOMAIN rd |->
         IF k - j \in 1 .. z.l
         THEN (f * z.d[k - j] + carry[k - j - 1] + rd[k]) % MPZ_BASE
         ELSE IF k = z.l + j + 1 /\ carry[z.l] > 0 THEN carry[z.l]
         ELSE rd[k]]

\* r = z * d[0 .. l-1]; r is another number than z.
mpz_muli_raw(r, z, d, l) ==
  LET t == mpz_zero_realloc(r, z.l + l)
      rows[j \in 0 .. l] == IF j = 0 THEN t.d ELSE Row(rows[j - 1], z, d[j], j - 1)
  IN  mpz_normalize([t EXCEPT !.d = rows[l], !.l = z.l + l])

\* z *= f goes through a temporary that takes the sign of the target.
mpz_mul(z, f) ==
  LET s == (z.s + f.s) % 2
  IN  mpz_set([z EXCEPT !.s = s], mpz_muli_raw([mpz_init EXCEPT !.s = s], z, f.d, f.l))

mpz_mul_ui(z, u) ==
  mpz_set(z, mpz_muli_raw([mpz_init EXCEPT !.s = z.s], z, u32tompz(u).d, u32tompz(u).l))

-----------------------------------------------------------------------------
(* Division, one bit of the dividend at a time.                            *)

BitsOf(x) == Min({n \in 0 .. ATOMBITS : 2 ^ n > x})

mpz_bits(z) == (z.l - 1) * ATOMBITS + BitsOf(z.d[z.l])

TestBit(z, bit) == (z.d[1 + bit \div ATOMBITS] \div 2 ^ (bit % ATOMBITS)) % 2

\* Bitwise or of one bit.
OrBit(x, bit, b) == IF b = 1 /\ (x \div 2 ^ bit) % 2 = 0 THEN x + 2 ^ bit ELSE x

SetBit(z, bit) == [z EXCEPT !.d[1 + bit \div ATOMBITS] = OrBit(@, bit % ATOMBITS, 1)]

\* z = 2z + b, in an atom more when the last one overflows.
ShiftIn(z, b) ==
  LET top(k) == IF k = 1 THEN b ELSE z.d[k - 1] \div 2 ^ (ATOMBITS - 1)
      low(k) == IF k <= z.l THEN (2 * z.d[k]) % MPZ_BASE ELSE z.d[k]
      d == [k \in DOMAIN z.d |-> IF k <= z.l + 1 THEN OrBit(low(k), 0, top(k)) ELSE z.d[k]]
  IN  [z EXCEPT !.d = d, !.l = IF d[z.l + 1] # 0 THEN @ + 1 ELSE @]

\* The next bit of z goes into the remainder, which the divisor is taken from if it can be.
DivideBit(qr, z, d, l, bit) ==
  LET t == ShiftIn(qr.r, TestBit(z, bit))
  IN  IF mpz_cmpabs(t, [d |-> d, l |-> l, s |-> 0]) >= 0
      THEN [q |-> SetBit(qr.q, bit), r |-> SubSelf(NormalizeLength(t), d, l)]
      ELSE [qr EXCEPT !.r = t]

\* The quotient and the remainder of the magnitudes; the sign of r is set before, and
\* is lost where a subtraction leaves nothing.
mpz_divi_qr_raw(q, r, z, d, l) ==
  LET bits == mpz_bits(z)
      step[k \in 0 .. bits] ==
        IF k = 0 THEN [q |-> mpz_zero_realloc(q, (z.l - l) + 1), r |-> mpz_zero_realloc(r, l)]
        ELSE DivideBit(step[k - 1], z, d, l, bits - k)
  IN  [q |-> NormalizeLength(step[bits].q), r |-> NormalizeLength(step[bits].r)]

\* z /= d
mpz_tdiv_q(z, d) ==
  CASE d.l = 0 -> SBN_INVAL
    [] d.l # 0 /\ mpz_cmpabs(z, d) < 0 -> mpz_setzero(z)
    [] d.l # 0 /\ mpz_cmpabs(z, d) = 0 -> mpz_set_ui(z, 1)
    [] OTHER -> mpz_divi_qr_raw([z EXCEPT !.s = (z.s + d.s) % 2], mpz_init, z, d.d, d.l).q

\* z %= d, with the sign of the dividend
mpz_tdiv_r(z, d) ==
  CASE d.l = 0 -> SBN_INVAL
    [] d.l # 0 /\ mpz_cmpabs(z, d) < 0 -> z
    [] d.l # 0 /\ mpz_cmpabs(z, d) = 0 -> mpz_setzero(z)
    [] OTHER -> mpz_divi_qr_raw(mpz_init, z, z, d.d, d.l).r

\* z = z mod m; the sign that is tested is the one of the remainder.
mpz_mod(z, m) ==
  LET r == mpz_tdiv_r(z, m)
  IN  IF r = SBN_INVAL THEN SBN_INVAL
      ELSE IF r.l = 0 \/ r.s = 0 THEN r
      ELSE IF m.s = 1 THEN mpz_sub(r, m) ELSE mpz_add(r, m)

-----------------------------------------------------------------------------
(* Powers, by squaring.                                                    *)

Odd(z) == z.d[1] % 2

\* z = z / 2
RShift1(z) ==
  LET d == [k \in DOMAIN z.d |->
              IF k < z.l THEN z.d[k] \div 2 + (z.d[k + 1] % 2) * 2 ^ (ATOMBITS - 1)
              ELSE IF k = z.l THEN z.d[k] \div 2 ELSE z.d[k]]
  IN  [z EXCEPT !.d = d, !.l = IF d[z.l] = 0 THEN @ - 1 ELSE @]

\* The modulus, if there is one, is <<m>>.
Reduce(z, modulus) == IF modulus = << >> THEN z ELSE mpz_mod(z, modulus[1])

\* While E is greater than 1: squares B, and reduces every product.
PowerStep(p, modulus) ==
  IF mpz_cmpabs(p.E, u32tompz(1)) <= 0 THEN p
  ELSE [r |-> IF Odd(p.E) = 1 THEN Reduce(mpz_mul(p.r, p.B), modulus) ELSE p.r,
        B |-> Reduce(mpz_mul(p.B, p.B), modulus), E |-> RShift1(p.E)]

\* The loop ends before it has gone through the bits of E.
PowerLoop(r, B, E, modulus) ==
  LET rounds == E.l * ATOMBITS
      p[k \in 0 .. rounds] ==
        IF k = 0 THEN [r |-> r, B |-> B, E |-> E] ELSE PowerStep(p[k - 1], modulus)
  IN  mpz_mul(p[rounds].r, p[rounds].B)

\* The product that ends the loop is made for the exponent 0 as well.
Power(b, e, modulus) ==
  LET B  == mpz_set(mpz_init, b)
      E  == mpz_set(mpz_init, e)
      rs == IF B.s = 1 /\ Odd(E) = 1 THEN 1 ELSE 0
  IN  [PowerLoop(mpz_set_ui(mpz_init, 1), Positive(B), E, modulus) EXCEPT !.s = rs]

mpz_pow(b, e) == IF e.s = 1 THEN SBN_INVAL ELSE Power(b, e, << >>)

mpz_powm(b, e, m) ==
  IF e.s = 1 \/ m.l = 0 THEN SBN_INVAL ELSE mpz_mod(Power(b, e, <<m>>), m)

-----------------------------------------------------------------------------
(* Text: a sequence of characters.                                         *)

cset == <<"0", "1", "2", "3", "4", "5", "6", "7", "8", "9", "a", "b", "c", "d", "e", "f">>

\* The value of a digit; characters that are none have -1 in the C table.
r_cset(c) == IF Contains(cset, c) THEN Min({k \in DOMAIN cset : cset[k] = c}) - 1 ELSE -1

Blanks(s) == Min({k \in DOMAIN s : s[k] # " "} \cup {Len(s) + 1}) - 1

\* Blanks at the end go, but never the first character.
TrimmedEnd(s) ==
  SubSeq(s, 1, Max({1} \cup {k \in DOMAIN s : s[k] # " "}))

\* The base is guessed from the prefix, which is then taken off.
Guess(s) ==
  IF Len(s) = 0 \/ Head(s) # "0" THEN [base |-> 10, rest |-> s]
  ELSE IF Len(s) > 1 /\ s[2] = "x" THEN [base |-> 16, rest |-> SubSeq(s, 3, Len(s))]
  ELSE IF Len(s) > 1 /\ s[2] = "b" THEN [base |-> 2, rest |-> SubSeq(s, 3, Len(s))]
  ELSE [base |-> 8, rest |-> Tail(s)]

AddDigit(acc, digit, base) ==
  [z   |-> mpz_add(acc.z, mpz_mul(mpz_set_ui(mpz_init, digit), acc.pow)),
   pow |-> mpz_mul_ui(acc.pow, base)]

\* Digits are added from the last to the first, with growing powers.
AddDigits(text, base) ==
  LET acc[k \in 0 .. Len(text)] ==
        IF k = 0 THEN [z |-> mpz_init, pow |-> mpz_set_ui(mpz_init, 1)]
        ELSE AddDigit(acc[k - 1], r_cset(text[Len(text) - k + 1]), base)
  IN  acc[Len(text)].z

\* mpz_set_str(z, s, 0)
mpz_set_str(s) ==
  LET body == SubSeq(s, Blanks(s) + 1, Len(s))
      neg  == body # << >> /\ Head(body) = "-"
      g    == Guess(IF neg THEN Tail(body) ELSE body)
      text == IF g.rest = << >> THEN << >> ELSE TrimmedEnd(g.rest)
  IN  IF \E k \in DOMAIN text : r_cset(text[k]) \notin 0 .. g.base - 1 THEN SBN_INVAL
      ELSE [AddDigits(text, g.base) EXCEPT !.s = IF neg THEN 1 ELSE 0]

\* Division by one atom: the quotient in place, and the remainder.
_mpz_selfdiv1_qr_raw(z, d) ==
  LET rem[k \in 1 .. z.l + 1] ==
        IF k = z.l + 1 THEN 0 ELSE (rem[k + 1] * MPZ_BASE + z.d[k]) % d
      q == [k \in DOMAIN z.d |->
              IF k <= z.l THEN (rem[k + 1] * MPZ_BASE + z.d[k]) \div d ELSE z.d[k]]
  IN  [z |-> [z EXCEPT !.d = q, !.l = IF q[z.l] = 0 THEN @ - 1 ELSE @], rem |-> rem[1]]

\* b to the e, by repeated multiplication.
lexp(b, e) ==
  LET power[k \in 0 .. e] == IF k = 0 THEN 1 ELSE b * power[k - 1]
  IN  power[e]

\* The largest power of 10 in an atom: that many digits come out of one long division.
maxexp == Max({e \in 1 .. ATOMBITS : lexp(10, e) < MPZ_BASE})
maxpow == lexp(10, maxexp)

\* The last n digits of x, least significant first; those of the last group end with it.
GroupDigits(x, n, last) ==
  LET rest[k \in 0 .. n] == IF k = 0 THEN x ELSE rest[k - 1] \div 10
      used == Min({k \in 1 .. n : rest[k] = 0} \cup {n})
  IN  [k \in 1 .. (IF last THEN used ELSE n) |-> cset[1 + (rest[k - 1] % 10)]]

\* A bug: the zeros in front of a group are dropped.
Group_Short(x) == GroupDigits(x.rem, maxexp, TRUE)

\* The digits of one long division.
Group(x) == GroupDigits(x.rem, maxexp, x.z.l = 0)

NextGroup(t) ==
  IF t.z.l = 0 THEN t
  ELSE LET x == _mpz_selfdiv1_qr_raw(t.z, maxpow)
       IN  [z |-> x.z, digits |-> t.digits \o Group(x)]

\* Groups until nothing is left, which takes at most one for each bit.
TextDigits(t) ==
  LET rounds == t.l * ATOMBITS
      text[k \in 0 .. rounds] ==
        IF k = 0 THEN [z |-> t, digits |-> << >>] ELSE NextGroup(text[k - 1])
  IN  text[rounds].digits

\* mpz_get_str(.., 10, z); a zero may carry a sign.
mpz_get_str(z) ==
  Reverse((IF z.l = 0 THEN <<"0">> ELSE TextDigits(mpz_set(mpz_init, z)))
            \o (IF z.s = 1 THEN <<"-">> ELSE << >>))

=============================================================================
