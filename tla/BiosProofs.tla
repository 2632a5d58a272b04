----------------------------- MODULE BiosProofs -----------------------------
(***************************************************************************)
(* The services of the BIOS.  The division service is correct for words of *)
(* every size: the invariant of the two loops is N = r2 * D + r0 over the  *)
(* magnitudes N and D of the arguments, with the divisor and r12 doubled   *)
(* and halved in step.  The interrupt wait services keep what they promise *)
(* for any set of interrupts.                                              *)
(***************************************************************************)
EXTENDS BiosDiv, IntrWait, TLAPS

-----------------------------------------------------------------------------
(* The division service.                                                   *)

\* The powers of two: the least set with one, closed under doubling.
Closed(S) == 1 \in S /\ \A k \in S : 2 * k \in S
Powers == {n \in Nat : \A S \in SUBSET Nat : Closed(S) => n \in S}

LEMMA OneIsPower == 1 \in Powers
  BY DEF Powers, Closed

LEMMA DoubleIsPower ==
  ASSUME NEW n \in Powers
  PROVE  2 * n \in Powers
  BY DEF Powers, Closed

\* A power of two is one, or it is even and its half is a power of two.
LEMMA HalfIsPower ==
  ASSUME NEW n \in Powers
  PROVE  n = 1 \/ \E k \in Powers : n = 2 * k
<1> DEFINE S == {m \in Powers : m = 1 \/ \E k \in Powers : m = 2 * k}
<1>1. S \in SUBSET Nat
  BY DEF Powers
<1>2. 1 \in S
  BY OneIsPower
<1>3. ASSUME NEW k \in S PROVE 2 * k \in S
  BY DoubleIsPower
<1>4. Closed(S)
  BY <1>2, <1>3 DEF Closed
<1>5. n \in S
  BY <1>1, <1>4 DEF Powers
<1> QED
  BY <1>5

LEMMA PowerPositive ==
  ASSUME NEW n \in Powers
  PROVE  n \in Nat /\ n > 0
<1> DEFINE P == Nat \ {0}
<1>1. Closed(P)
  BY DEF Closed
<1> QED
  BY <1>1 DEF Powers

-----------------------------------------------------------------------------

\* Quotient and remainder are the only numbers of their kind.
LEMMA Division ==
  ASSUME NEW n \in Nat, NEW d \in Nat, NEW q \in Nat, NEW r \in Nat,
         n = q * d + r, r < d
  PROVE  n \div d = q /\ n % d = r
  BY SMTT(30)

LEMMA ProductAtLeast ==
  ASSUME NEW q \in Nat, NEW d \in Nat, d >= 1
  PROVE  q * d \in Nat /\ q * d >= q
<1>1. PICK c \in Nat : d = c + 1
  <2>1. d = (d - 1) + 1 /\ d - 1 \in Nat
    OBVIOUS
  <2> QED
    BY <2>1
<1>2. q * d = q * c + q /\ q * c \in Nat
  BY <1>1
<1> QED
  BY <1>2

LEMMA MultipleDiv ==
  ASSUME NEW b \in Nat, b > 0, NEW q \in Nat
  PROVE  (b * q) \div b = q
  BY Division

\* orr with a bit that is not yet set adds it.
LEMMA SetBit ==
  ASSUME NEW b \in Nat, b > 0, NEW q \in Nat
  PROVE  WithBit(2 * b * q, b) = 2 * b * q + b
<1>1. 2 * b * q = b * (2 * q)
  OBVIOUS
<1>2. (2 * b * q) \div b = 2 * q
  BY <1>1, MultipleDiv
<1>3. (2 * q) % 2 = 0
  OBVIOUS
<1> QED
  BY <1>2, <1>3 DEF WithBit

LEMMA WordsFacts ==
  /\ Half \in Nat /\ Half > 1
  /\ Modulus = 2 * Half
  /\ Words = 0..(2 * Half - 1)
  BY HalfAssumption DEF Modulus, Words

\* The magnitude of a word is at most 2^31 and zero only for zero.
LEMMA MagnitudeType ==
  ASSUME NEW w \in Words
  PROVE  /\ Magnitude(w) \in 0..Half
         /\ w # 0 => Magnitude(w) > 0
  BY WordsFacts DEF Magnitude, Negative, Neg

LEMMA NegType ==
  ASSUME NEW w \in Words
  PROVE  Neg(w) \in Words
  BY WordsFacts DEF Neg

\* A number up to 2^31, negated or not, has that number for its magnitude.
LEMMA MagnitudeOfWord ==
  ASSUME NEW q \in 0..Half
  PROVE  /\ Magnitude(Neg(q)) = q
         /\ Magnitude(q) = q
  BY WordsFacts DEF Magnitude, Negative, Neg

-----------------------------------------------------------------------------
(* The invariant.                                                          *)

Dividend == Magnitude(num)
Divisor == Magnitude(den)

\* In the loops: the divisor is not zero and the sign bits are those of the
\* arguments.
Called ==
  pc \in {"align", "loop", "sign"} => den # 0 /\ r3 = SignBits(num, den)

\* While aligning: the divisor and r12 are doubled in step and stay words.
Aligning ==
  pc = "align" =>
    /\ r12 \in Powers /\ r1 = Divisor * r12 /\ r1 <= Half
    /\ r0 = Dividend /\ r2 = 0

\* While dividing: what was subtracted is in r2, a multiple of the next bit, and
\* the rest is less than twice the divisor as it stands.
Dividing ==
  pc = "loop" =>
    /\ r12 \in Powers /\ r1 = Divisor * r12
    /\ r0 < 2 * r1
    /\ Dividend = r2 * Divisor + r0
    /\ \E q \in Nat : r2 = 2 * r12 * q

\* At the end the rest is less than the divisor.
Divided == pc = "sign" => Dividend = r2 * Divisor + r0 /\ r0 < Divisor

DivInv == TypeOK /\ Called /\ Aligning /\ Dividing /\ Divided /\ DivCorrect

LEMMA DivInitially == Init => DivInv
  BY WordsFacts
     DEF Init, DivInv, TypeOK, Called, Aligning, Dividing, Divided, DivCorrect

\* The signs of the arguments, read back from the sign bits.
LEMMA SignBitsRead ==
  ASSUME Called, pc = "sign"
  PROVE  /\ NegatesQuotient <=> Negative(num) # Negative(den)
         /\ NegatesRemainder <=> Negative(num)
         /\ SignBits(num, den) \in 0..3
  BY DEF Called, SignBits, NegatesQuotient, NegatesRemainder

LEMMA SignBitsWord ==
  ASSUME NEW n \in Words, NEW d \in Words
  PROVE  SignBits(n, d) \in Words
  BY WordsFacts DEF SignBits, Negative
LEMMA CallKeeps ==
  ASSUME DivInv, NEW n \in Words, NEW d \in Words, Call(n, d)
  PROVE  DivInv'
<1> USE DEF DivInv, TypeOK
<1>1. num' = n /\ den' = d
  BY DEF Call
<1>2. CASE d = 0
  <2>1. pc' = "done" /\ r0' = n /\ r1' = n /\ r3' = 0 /\ r2' = r2 /\ r12' = r12
    BY <1>2 DEF Call
  <2> QED
    BY <1>1, <1>2, <2>1, WordsFacts
       DEF Called, Aligning, Dividing, Divided, DivCorrect
<1>3. CASE d # 0
  <2>1. /\ pc' = "align" /\ r0' = Magnitude(n) /\ r1' = Magnitude(d)
        /\ r2' = 0 /\ r3' = SignBits(n, d) /\ r12' = 1
    BY <1>3 DEF Call
  <2>2. Magnitude(n) \in 0..Half /\ Magnitude(d) \in 0..Half
    BY MagnitudeType
  <2>3. TypeOK'
    <3>1. SignBits(n, d) \in Words
      BY SignBitsWord
    <3>2. 0 \in Words /\ 1 \in Words /\ 0..Half \subseteq Words
      BY WordsFacts
    <3> QED
      BY <1>1, <2>1, <2>2, <3>1, <3>2
  <2>4. Called'
    BY <1>1, <1>3, <2>1 DEF Called, SignBits, Negative
  <2>5. Aligning'
    BY <1>1, <2>1, <2>2, OneIsPower DEF Aligning, Divisor, Dividend, Magnitude, Negative, Neg, Modulus
  <2> QED
    BY <2>1, <2>3, <2>4, <2>5 DEF Dividing, Divided, DivCorrect
<1> QED
  BY <1>2, <1>3

LEMMA ArgumentFacts ==
  ASSUME TypeOK
  PROVE  /\ Dividend \in 0..Half /\ Divisor \in 0..Half
         /\ den # 0 => Divisor > 0
  BY MagnitudeType DEF TypeOK, Dividend, Divisor

\* The arguments do not change during the service.
LEMMA SameArguments ==
  ASSUME num' = num, den' = den
  PROVE  /\ Dividend' = Dividend /\ Divisor' = Divisor
         /\ SignBits(num, den)' = SignBits(num, den)
         /\ Negative(num)' = Negative(num) /\ Negative(den)' = Negative(den)
  BY DEF Dividend, Divisor, SignBits, Magnitude, Negative, Neg, Modulus

LEMMA AlignKeeps ==
  ASSUME DivInv, Align
  PROVE  DivInv'
<1> USE DEF DivInv
<1>1. pc = "align" /\ UNCHANGED <<r0, r2, r3, num, den>>
  BY DEF Align
<1>2. /\ r12 \in Powers /\ r1 = Divisor * r12 /\ r1 <= Half
      /\ r0 = Dividend /\ r2 = 0 /\ den # 0 /\ r3 = SignBits(num, den)
  BY <1>1 DEF Aligning, Called
<1>3. /\ Dividend \in 0..Half /\ Divisor \in 1..Half
      /\ r12 \in Nat /\ r12 > 0
  BY <1>2, ArgumentFacts, PowerPositive
<1>4. /\ Dividend' = Dividend /\ Divisor' = Divisor
      /\ SignBits(num, den)' = SignBits(num, den)
  BY <1>1, SameArguments
<1>5. CASE MayDouble
  <2>1. pc' = "align" /\ r1' = (2 * r1) % Modulus /\ r12' = (2 * r12) % Modulus
    BY <1>1, <1>5 DEF Align
  <2>2. r1 \in Nat /\ r0 \in Nat /\ 2 * r1 <= r0
    BY <1>2, <1>3, <1>5 DEF MayDouble, TypeOK, Words
  <2>3. r12 <= r1
    BY <1>2, <1>3
  <2>4. r1' = 2 * r1 /\ r12' = 2 * r12
    BY <1>2, <1>3, <2>1, <2>2, <2>3, WordsFacts
  <2>5. 2 * r12 \in Powers
    BY <1>2, DoubleIsPower
  <2>6. Divisor * (2 * r12) = 2 * (Divisor * r12)
    BY <1>3
  <2>7. TypeOK'
    BY <1>1, <1>2, <1>3, <2>1, <2>2, <2>3, <2>4, WordsFacts DEF TypeOK
  <2>8. Aligning'
    BY <1>1, <1>2, <1>3, <1>4, <2>2, <2>4, <2>5, <2>6, WordsFacts DEF Aligning
  <2> QED
    BY <1>1, <1>2, <1>4, <2>1, <2>7, <2>8
       DEF Called, Dividing, Divided, DivCorrect
<1>6. CASE ~MayDouble
  <2>1. pc' = "loop" /\ r1' = r1 /\ r12' = r12
    BY <1>1, <1>6 DEF Align
  <2>2. r0 < 2 * r1
    BY <1>2, <1>3, <1>6 DEF MayDouble, TypeOK, Words
  <2>3. TypeOK'
    BY <1>1, <2>1 DEF TypeOK
  <2>4. r2 = 2 * r12 * 0
    BY <1>2, <1>3
  <2>5. Dividend = r2 * Divisor + r0
    BY <1>2, <1>3
  <2>6. Dividing'
    BY <1>1, <1>2, <1>4, <2>1, <2>2, <2>4, <2>5 DEF Dividing
  <2> QED
    BY <1>1, <1>2, <1>4, <2>1, <2>3, <2>6
       DEF Called, Aligning, Divided, DivCorrect
<1> QED
  BY <1>5, <1>6
LEMMA LoopKeeps ==
  ASSUME DivInv, Loop
  PROVE  DivInv'
<1> USE DEF DivInv
<1>1. pc = "loop" /\ UNCHANGED <<r3, num, den>>
  BY DEF Loop
<1>2. /\ r12 \in Powers /\ r1 = Divisor * r12 /\ r0 < 2 * r1
      /\ Dividend = r2 * Divisor + r0
      /\ den # 0 /\ r3 = SignBits(num, den)
  BY <1>1 DEF Dividing, Called
<1>3. PICK q \in Nat : r2 = 2 * r12 * q
  BY <1>1 DEF Dividing
<1>4. /\ Dividend \in 0..Half /\ Divisor \in 1..Half
      /\ r12 \in Nat /\ r12 > 0
      /\ r0 \in Words /\ r1 \in Words /\ r2 \in Words /\ r12 \in Words
  BY <1>2, ArgumentFacts, PowerPositive DEF TypeOK
<1>5. /\ Dividend' = Dividend /\ Divisor' = Divisor
      /\ SignBits(num, den)' = SignBits(num, den)
  BY <1>1, SameArguments
\* The subtraction and the bit in r2.
<1>6. /\ r0' \in Nat /\ r0' < r1 /\ r0' <= r0
      /\ Dividend = r2' * Divisor + r0'
      /\ r2' = 2 * r12 * q \/ r2' = 2 * r12 * q + r12
  <2>1. CASE r0 >= r1
    <3>1. r0' = r0 - r1 /\ r2' = r2 + r12
      BY <1>3, <1>4, <2>1, SetBit DEF Loop
    <3>2. (r2 + r12) * Divisor = r2 * Divisor + Divisor * r12
      BY <1>4, WordsFacts
    <3> QED
      BY <1>2, <1>3, <1>4, <2>1, <3>1, <3>2, WordsFacts
  <2>2. CASE ~(r0 >= r1)
    <3>1. r0' = r0 /\ r2' = r2
      BY <2>2 DEF Loop
    <3> QED
      BY <1>2, <1>3, <1>4, <2>2, <3>1, WordsFacts
  <2> QED
    BY <2>1, <2>2
<1>7. r2' \in Nat /\ r2' <= Dividend
  <2>1. r2' \in Nat
    BY <1>3, <1>4, <1>6
  <2>2. r2' * Divisor >= r2' /\ r2' * Divisor \in Nat
    <3>1. Divisor \in Nat /\ Divisor >= 1
      BY <1>4, WordsFacts
    <3>2. ASSUME NEW p \in Nat
          PROVE  p * Divisor >= p /\ p * Divisor \in Nat
      BY <3>1, ProductAtLeast
    <3> QED
      BY <2>1, <3>2
  <2>3. r0' \in Nat /\ Dividend = r2' * Divisor + r0'
    BY <1>6
  <2> QED
    BY <2>1, <2>2, <2>3
<1>8. r0' \in Words /\ r2' \in Words
  <2>1. r0 \in 0..(2 * Half - 1) /\ Half \in Nat /\ Half > 1
    BY <1>4, WordsFacts
  <2>2. r0' \in 0..(2 * Half - 1)
    BY <1>6, <2>1
  <2>3. r2' \in 0..(2 * Half - 1)
    BY <1>4, <1>7, <2>1
  <2> QED
    BY <2>2, <2>3, WordsFacts
<1>9. CASE r12 = 1
  <2>1. r12' = 0 /\ pc' = "sign" /\ r1' = r1
    BY <1>9 DEF Loop
  <2>2. TypeOK'
    BY <1>1, <1>4, <1>8, <2>1, WordsFacts DEF TypeOK
  <2>3. r1 = Divisor
    BY <1>2, <1>4, <1>9
  <2> QED
    BY <1>1, <1>2, <1>5, <1>6, <2>1, <2>2, <2>3
       DEF Called, Aligning, Dividing, Divided, DivCorrect
<1>10. CASE r12 # 1
  <2>1. PICK k \in Powers : r12 = 2 * k
    BY <1>2, <1>10, HalfIsPower
  <2>2. k \in Nat /\ k > 0
    BY PowerPositive
  <2>3. r12 \div 2 = k
    BY <2>1, <2>2
  <2>4. Divisor * (2 * k) = 2 * (Divisor * k) /\ Divisor * k \in Nat
    BY <1>4, <2>2
  <2>5. r1 \div 2 = Divisor * k
    BY <1>2, <2>1, <2>4
  <2>6. r12' = k /\ pc' = "loop" /\ r1' = Divisor * k
    BY <1>1, <2>2, <2>3, <2>5 DEF Loop
  <2>7. r0' < 2 * (Divisor * k)
    BY <1>2, <1>6, <2>1, <2>4
  <2>8. \E p \in Nat : r2' = 2 * k * p
    <3>1. 2 * r12 * q = 2 * k * (2 * q)
      BY <2>1, <2>2
    <3>2. 2 * r12 * q + r12 = 2 * k * (2 * q + 1)
      BY <2>1, <2>2
    <3> QED
      BY <1>6, <3>1, <3>2
  <2>9. Dividing'
    BY <1>5, <1>6, <2>6, <2>7, <2>8 DEF Dividing
  <2>10. TypeOK'
    <3>1. k \in Words /\ Divisor * k \in Words
      BY <1>2, <1>4, <2>1, <2>2, <2>4, WordsFacts
    <3> QED
      BY <1>1, <1>8, <2>6, <3>1 DEF TypeOK
  <2> QED
    BY <1>1, <1>2, <1>5, <2>6, <2>9, <2>10
       DEF Called, Aligning, Divided, DivCorrect
<1> QED
  BY <1>9, <1>10

LEMMA SignKeeps ==
  ASSUME DivInv, Sign
  PROVE  DivInv'
<1> USE DEF DivInv
<1> DEFINE quotient == IF NegatesQuotient THEN Neg(r2) ELSE r2
           remainder == IF NegatesRemainder THEN Neg(r0) ELSE r0
<1>1. /\ pc = "sign" /\ pc' = "done" /\ UNCHANGED <<r12, num, den>>
      /\ r0' = quotient /\ r1' = remainder /\ r2' = quotient
      /\ r3' = Magnitude(quotient)
  BY DEF Sign
<1>2. /\ Dividend = r2 * Divisor + r0 /\ r0 < Divisor /\ den # 0
  BY <1>1 DEF Divided, Called
<1>3. /\ Dividend \in 0..Half /\ Divisor \in 1..Half
      /\ r0 \in Words /\ r2 \in Words /\ r0 \in Nat /\ r2 \in Nat
  BY <1>2, ArgumentFacts, WordsFacts DEF TypeOK
<1>4. r2 = Dividend \div Divisor /\ r0 = Dividend % Divisor
  BY <1>2, <1>3, Division
<1>5. r2 \in 0..Half
  <2>1. r2 * Divisor >= r2 /\ r2 * Divisor \in Nat
    BY <1>3, ProductAtLeast, WordsFacts
  <2> QED
    BY <1>2, <1>3, <2>1, WordsFacts
<1>6. r3' = r2
  BY <1>1, <1>5, MagnitudeOfWord
<1>7. TypeOK'
  <2>1. quotient \in Words /\ remainder \in Words
    BY <1>3, NegType
  <2> QED
    BY <1>1, <1>3, <1>6, <2>1 DEF TypeOK
<1>8. /\ NegatesQuotient <=> Negative(num) # Negative(den)
      /\ NegatesRemainder <=> Negative(num)
  BY <1>1, SignBitsRead
<1>9. DivCorrect'
  <2>1. /\ r0' = WordOf(Negative(num) # Negative(den), Dividend \div Divisor)
        /\ r1' = WordOf(Negative(num), Dividend % Divisor)
        /\ r3' = Dividend \div Divisor
    BY <1>1, <1>4, <1>6, <1>8 DEF WordOf
  <2> QED
    BY <1>1, <2>1 DEF DivCorrect, Dividend, Divisor, Magnitude, Negative, Neg,
                      Modulus, WordOf
<1> QED
  BY <1>1, <1>7, <1>9 DEF Called, Aligning, Dividing, Divided

LEMMA DivInductive == DivInv /\ [Next]_vars => DivInv'
<1> SUFFICES ASSUME DivInv, [Next]_vars PROVE DivInv'
  OBVIOUS
<1>1. ASSUME NEW n \in Words, NEW d \in Words, Call(n, d) PROVE DivInv'
  BY <1>1, CallKeeps
<1>2. CASE Align
  BY <1>2, AlignKeeps
<1>3. CASE Loop
  BY <1>3, LoopKeeps
<1>4. CASE Sign
  BY <1>4, SignKeeps
<1>5. CASE Return
  BY <1>5 DEF Return, registers, DivInv, TypeOK, Called, Aligning, Dividing,
              Divided, DivCorrect
<1>6. CASE UNCHANGED vars
  <2>1. /\ UNCHANGED <<pc, r0, r1, r2, r3, r12, num, den>>
        /\ Dividend' = Dividend /\ Divisor' = Divisor
        /\ SignBits(num, den)' = SignBits(num, den)
    BY <1>6, SameArguments DEF vars, registers
  <2> QED
    BY <2>1 DEF DivInv, TypeOK, Called, Aligning, Dividing, Divided, DivCorrect,
                WordOf, Magnitude, Negative, Neg, Modulus
<1> QED
  BY <1>1, <1>2, <1>3, <1>4, <1>5, <1>6 DEF Next, Service

THEOREM DivInvariance == Spec => []DivInv
  BY DivInitially, DivInductive, PTL DEF Spec

-----------------------------------------------------------------------------

\* Every register always holds a word, whatever the word's size.
THEOREM DivTypeCorrect == Spec => []TypeOK
<1>1. DivInv => TypeOK
  BY DEF DivInv
<1> QED
  BY <1>1, DivInvariance, PTL

\* The div service of bios.arm.s returns quotient, remainder and magnitude of
\* every pair of words of every size, but for a divisor of zero.
THEOREM DivisionCorrect == Spec => []DivCorrect
<1>1. DivInv => DivCorrect
  BY DEF DivInv
<1> QED
  BY <1>1, DivInvariance, PTL

-----------------------------------------------------------------------------
(* The interrupt wait services.                                            *)


\* Interrupts are off but in the loop, so that no handler runs in between.
Masked == place \in {"read", "write", "enable", "restore", "return"} => masked

\* Until interrupts are on again none has been handled.
NothingYet == place \in {"read", "write", "enable"} => since = {}

\* Once old flags are cleared, a flag waited for is one handled since.
FlagsAreNew ==
  discard /\ place \in {"enable", "poll", "leave", "restore", "return"} =>
    flags \cap wanted \subseteq since

\* The pushed SPSR is the caller's mask until it is popped and used.
Pushed ==
  /\ InService => saved = caller
  /\ place = "return" => spsr = caller

WaitInv ==
  /\ WaitTypeOK /\ Masked /\ NothingYet /\ FlagsAreNew /\ Pushed
  /\ NoFlagLost /\ WaitsForNew /\ MaskRestored

LEMMA WaitInitially == WaitInit => WaitInv
  BY DEF WaitInit, WaitInv, WaitTypeOK, Masked, NothingYet, FlagsAreNew, Pushed, InService,
         NoFlagLost, WaitsForNew, MaskRestored

\* No step breaks the invariant: handlers only where interrupts are on, and the
\* service's own steps.
LEMMA WaitInductive == WaitInv /\ [WaitNext]_waitVars => WaitInv'
<1> SUFFICES ASSUME WaitInv, [WaitNext]_waitVars PROVE WaitInv'
  OBVIOUS
<1> USE DEF WaitInv, WaitTypeOK, Masked, NothingYet, FlagsAreNew, Pushed, InService,
            NoFlagLost, WaitsForNew, MaskRestored
<1>1. ASSUME NEW i \in Interrupts, Raise(i) PROVE WaitInv'
  BY <1>1 DEF Raise
<1>2. ASSUME NEW acked \in SUBSET Interrupts, Handle(acked) PROVE WaitInv'
  BY <1>2 DEF Handle
<1>3. CASE Program
  BY <1>3 DEF Program
<1>4. ASSUME NEW old \in BOOLEAN, NEW mask \in SUBSET Interrupts, WaitCall(old, mask)
      PROVE WaitInv'
  BY <1>4 DEF WaitCall
<1>5. CASE ReadFlags
  BY <1>5 DEF ReadFlags
<1>6. CASE WriteFlags
  BY <1>6 DEF WriteFlags
<1>7. CASE Enable
  BY <1>7 DEF Enable
<1>8. CASE Poll
  BY <1>8 DEF Poll
<1>9. CASE Leave
  BY <1>9 DEF Leave
<1>10. CASE Restore
  BY <1>10 DEF Restore
<1>11. CASE WaitReturn
  BY <1>11 DEF WaitReturn
<1>12. CASE GoOn
  BY <1>12 DEF GoOn
<1>13. CASE UNCHANGED waitVars
  BY <1>13 DEF waitVars
<1>14. VBlankIntrWaitCall => \E old \in BOOLEAN, mask \in SUBSET Interrupts :
                               WaitCall(old, mask)
  BY InterruptsAssumption DEF VBlankIntrWaitCall
<1> QED
  BY <1>1, <1>2, <1>3, <1>4, <1>5, <1>6, <1>7, <1>8, <1>9, <1>10, <1>11, <1>12,
     <1>13, <1>14 DEF WaitNext, WaitService, IntrWaitCall

THEOREM WaitInvariance == WaitSpec => []WaitInv
  BY WaitInitially, WaitInductive, PTL DEF WaitSpec

-----------------------------------------------------------------------------

\* The variables keep their types.
THEOREM WaitTypeCorrect == WaitSpec => []WaitTypeOK
<1>1. WaitInv => WaitTypeOK
  BY DEF WaitInv
<1> QED
  BY <1>1, WaitInvariance, PTL

\* No handler's flag is lost while the services of bios.arm.s clear old flags,
\* poll and leave, for any interrupts.
THEOREM FlagsKept == WaitSpec => []NoFlagLost
<1>1. WaitInv => NoFlagLost
  BY DEF WaitInv
<1> QED
  BY <1>1, WaitInvariance, PTL

\* intr_wait returns only with a flag waited for, and a new one if it was told
\* to discard old flags.
THEOREM ReturnsWithNewFlag == WaitSpec => []WaitsForNew
<1>1. WaitInv => WaitsForNew
  BY DEF WaitInv
<1> QED
  BY <1>1, WaitInvariance, PTL

\* intr_wait gives the caller its interrupt mask back, whatever handlers did to
\* SPSR meanwhile.
THEOREM CallersMaskRestored == WaitSpec => []MaskRestored
<1>1. WaitInv => MaskRestored
  BY DEF WaitInv
<1> QED
  BY <1>1, WaitInvariance, PTL
=============================================================================
