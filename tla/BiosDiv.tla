------------------------------ MODULE BiosDiv ------------------------------
(***************************************************************************)
(* The division service of kgba's BIOS (swi 6): a shift-and-subtract loop  *)
(* over the guest's registers.  One action is one turn of a loop, or the   *)
(* straight code around the loops.  Registers hold words of any width; a   *)
(* negative number is held as its two's complement.                        *)
(***************************************************************************)
EXTENDS Integers

CONSTANT Half       \* the words that are not negative, 2^31 of them

\* Two sign bits fit a word.
ASSUME HalfAssumption == Half \in Nat \ {0, 1}

Modulus == 2 * Half
Words == 0..(Modulus - 1)

VARIABLES
  pc,                    \* where the service is
  r0, r1, r2, r3, r12,   \* the guest's registers
  num, den               \* history: the arguments

registers == <<r0, r1, r2, r3, r12>>
vars == <<pc, registers, num, den>>

Negative(word) == word >= Half

\* Mutant: the complement of zero is taken to be beyond the words.
NegUnwrapped(word) == Modulus - word

\* rsb: the two's complement.
Neg(word) == (Modulus - word) % Modulus

Magnitude(word) == IF Negative(word) THEN Neg(word) ELSE word

\* r3: its bit 0 says the quotient is negative, its bit 1 the remainder.
SignBits(n, d) ==
  (IF Negative(n) # Negative(d) THEN 1 ELSE 0) + (IF Negative(n) THEN 2 ELSE 0)
NegatesQuotient == r3 % 2 = 1
NegatesRemainder == r3 >= 2

\* orr with a single bit.
WithBit(word, bit) == IF (word \div bit) % 2 = 1 THEN word ELSE word + bit

Init ==
  /\ pc = "idle"
  /\ r0 = 0 /\ r1 = 0 /\ r2 = 0 /\ r3 = 0 /\ r12 = 0
  /\ num = 0 /\ den = 0

\* Mutant: a divisor of zero is not turned away.
CallUnchecked(n, d) ==
  /\ pc = "idle"
  /\ num' = n /\ den' = d
  /\ r0' = Magnitude(n) /\ r1' = Magnitude(d)
  /\ r2' = 0 /\ r3' = SignBits(n, d) /\ r12' = 1
  /\ pc' = "align"

\* div: the arguments become magnitudes; a divisor of zero ends the service.
Call(n, d) ==
  /\ pc = "idle"
  /\ num' = n /\ den' = d
  /\ \/ /\ d = 0
        /\ r0' = n /\ r1' = n /\ r3' = 0
        /\ pc' = "done"
        /\ UNCHANGED <<r2, r12>>
     \/ /\ d # 0
        /\ r0' = Magnitude(n) /\ r1' = Magnitude(d)
        /\ r2' = 0 /\ r3' = SignBits(n, d) /\ r12' = 1
        /\ pc' = "align"

\* Mutant: bls has become blo.
MayDoubleStrict == r1 < r0 \div 2

MayDouble == r1 <= r0 \div 2

\* div_align_loop: the divisor is doubled while it fits twice.
Align ==
  /\ pc = "align"
  /\ IF MayDouble
     THEN /\ r1' = (2 * r1) % Modulus
          /\ r12' = (2 * r12) % Modulus
          /\ UNCHANGED pc
     ELSE pc' = "loop" /\ UNCHANGED <<r1, r12>>
  /\ UNCHANGED <<r0, r2, r3, num, den>>

\* div_loop: subtract where it fits, note the bit, and halve.
Loop ==
  /\ pc = "loop"
  /\ IF r0 >= r1
     THEN r0' = r0 - r1 /\ r2' = WithBit(r2, r12)
     ELSE UNCHANGED <<r0, r2>>
  /\ r12' = r12 \div 2
  /\ IF r12 \div 2 # 0
     THEN r1' = r1 \div 2 /\ UNCHANGED pc
     ELSE pc' = "sign" /\ UNCHANGED r1
  /\ UNCHANGED <<r3, num, den>>

\* The signs are put back; r3 gets the quotient's magnitude.
Sign ==
  LET quotient == IF NegatesQuotient THEN Neg(r2) ELSE r2
      remainder == IF NegatesRemainder THEN Neg(r0) ELSE r0
  IN
  /\ pc = "sign"
  /\ r0' = quotient
  /\ r1' = remainder
  /\ r2' = quotient
  /\ r3' = Magnitude(quotient)
  /\ pc' = "done"
  /\ UNCHANGED <<r12, num, den>>

Return ==
  /\ pc = "done"
  /\ pc' = "idle"
  /\ UNCHANGED <<registers, num, den>>

Service == Align \/ Loop \/ Sign \/ Return
Next == (\E n, d \in Words : Call(n, d)) \/ Service

Spec == Init /\ [][Next]_vars
FairSpec == Spec /\ WF_vars(Service)

-----------------------------------------------------------------------------

\* Every register always holds a word: no shift, subtraction or complement
\* leaves the range (the loops' shifts never lose a bit).
TypeOK ==
  /\ pc \in {"idle", "align", "loop", "sign", "done"}
  /\ r0 \in Words /\ r1 \in Words /\ r2 \in Words /\ r3 \in Words
  /\ r12 \in Words
  /\ num \in Words /\ den \in Words

\* The word of a number with this sign and magnitude.
WordOf(negative, magnitude) == IF negative THEN Neg(magnitude) ELSE magnitude

\* For every dividend and every divisor but zero the service returns the
\* quotient rounded toward zero in r0, the remainder with the dividend's sign in
\* r1 and the quotient's magnitude in r3; the least number by minus one, whose
\* quotient is no word, gives the least number.
DivCorrect ==
  pc = "done" /\ den # 0 =>
    LET quotient == Magnitude(num) \div Magnitude(den) IN
    /\ r0 = WordOf(Negative(num) # Negative(den), quotient)
    /\ r1 = WordOf(Negative(num), Magnitude(num) % Magnitude(den))
    /\ r3 = quotient

\* The service always returns: neither loop runs for ever, whatever the
\* arguments, as long as the guest runs.
Terminates == (pc = "align") ~> (pc = "idle")
=============================================================================
