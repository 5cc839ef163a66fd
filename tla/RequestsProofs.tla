--------------------------- MODULE RequestsProofs ---------------------------
(***************************************************************************)
(* Proofs about Requests: one channel for all calls, templates shared by   *)
(* what is asked for, retries that find their own actor, limits that are   *)
(* exact.                                                                  *)
(*                                                                         *)
(* The invariant says who may dial (Dialing), what each actor was made     *)
(* from (ActorsMade), that a bundle has its actor (BundlesMade), and what  *)
(* a call can count on by each of its places (Fit).                        *)
(*                                                                         *)
(* The first section is about quantities: what is accepted has at most     *)
(* three places, which are spelt out (DigitsOf), so that what the parsers  *)
(* make of the digits is arithmetic (CpuExact, MemoryExact).               *)
(***************************************************************************)
EXTENDS Requests, SequenceTheorems, WellFoundedInduction, TLAPS

-----------------------------------------------------------------------------
(* Quantities                                                              *)

(* The digits of at most three places, without the recursion.              *)
LEMMA DigitsOf ==
  ASSUME NEW q, q.whole \in Nat, q.frac \in Seq(0..9), Len(q.frac) <= 3
  PROVE  /\ Len(q.frac) \in 0..3 /\ q.frac \in [1..Len(q.frac) -> 0..9]
         /\ Len(q.frac) = 0 => Digits(q) = q.whole
         /\ Len(q.frac) = 1 => Digits(q) = 10 * q.whole + q.frac[1]
         /\ Len(q.frac) = 2 =>
              Digits(q) = 100 * q.whole + 10 * q.frac[1] + q.frac[2]
         /\ Len(q.frac) = 3 =>
              Digits(q) = 10 * (100 * q.whole + 10 * q.frac[1] + q.frac[2])
                            + q.frac[3]
<1>1. Len(q.frac) \in 0..3 /\ q.frac \in [1..Len(q.frac) -> 0..9]
  <2> DEFINE s == q.frac
  <2>1. s \in Seq(0..9) /\ Len(s) <= 3
    OBVIOUS
  <2> HIDE DEF s
  <2>2. Len(s) \in 0..3 /\ s \in [1..Len(s) -> 0..9]
    <3>1. Len(s) \in Nat /\ s \in [1..Len(s) -> 0..9]
      BY <2>1, LenProperties
    <3> QED BY <2>1, <3>1
  <2> QED BY <2>2 DEF s
<1> DEFINE l == Len(q.frac)
           F(d) == [i \in 0..l |-> IF i = 0 THEN q.whole
                                            ELSE 10 * d[i - 1] + q.frac[i]]
           d == CHOOSE f : f = F(f)
           one == 10 * q.whole + q.frac[1]
           two == 10 * one + q.frac[2]
           three == 10 * two + q.frac[3]
           f == [i \in 0..l |-> IF i = 0 THEN q.whole ELSE
                                IF i = 1 THEN one ELSE
                                IF i = 2 THEN two ELSE three]
<1>2. Digits(q) = d[l]
  BY DEF Digits
<1>3. f = F(f)
  <2>1. ASSUME NEW i \in 0..l PROVE f[i] = F(f)[i]
    BY <1>1, <2>1
  <2> QED BY <2>1
<1>4. d = F(d)
  BY <1>3
<1> HIDE DEF d, f
<1>5. /\ d[0] = q.whole
      /\ \A i \in 1..l : d[i] = 10 * d[i - 1] + q.frac[i]
  BY <1>1, <1>4
<1>6. \A i \in 1..l : q.frac[i] \in Nat
  BY <1>1
<1>7. l >= 1 => d[1] = one
  BY <1>1, <1>5
<1>8. l >= 2 => d[2] = two
  BY <1>1, <1>5, <1>7
<1>9. l >= 3 => d[3] = three
  BY <1>1, <1>5, <1>8
<1>10. CASE l = 0
  BY <1>1, <1>2, <1>5, <1>10
<1>11. CASE l = 1
  BY <1>1, <1>2, <1>7, <1>11
<1>12. CASE l = 2
  <2>1. two = 100 * q.whole + 10 * q.frac[1] + q.frac[2]
    BY <1>6, <1>12
  <2> QED BY <1>1, <1>2, <1>8, <1>12, <2>1
<1>13. CASE l = 3
  <2>1. two = 100 * q.whole + 10 * q.frac[1] + q.frac[2]
    BY <1>6, <1>13
  <2> QED BY <1>1, <1>2, <1>9, <1>13, <2>1
<1> QED BY <1>1, <1>10, <1>11, <1>12, <1>13

(* The digits that frac is padded to.                                      *)
LEMMA Padded ==
  ASSUME NEW frac, Len(frac) \in 0..3, frac \in [1..Len(frac) -> 0..9]
  PROVE  /\ Thousandths(frac) \in Nat
         /\ Len(frac) = 0 => Thousandths(frac) = 0
         /\ Len(frac) = 1 => Thousandths(frac) = 100 * frac[1]
         /\ Len(frac) = 2 => Thousandths(frac) = 100 * frac[1] + 10 * frac[2]
         /\ Len(frac) = 3 =>
              Thousandths(frac) = 100 * frac[1] + 10 * frac[2] + frac[3]
<1> DEFINE digit(i) == IF i <= Len(frac) THEN frac[i] ELSE 0
<1>1. Thousandths(frac) = 100 * digit(1) + 10 * digit(2) + digit(3)
  BY DEF Thousandths
<1>2. \A i \in 1..3 : digit(i) \in Nat
  OBVIOUS
<1>3. CASE Len(frac) = 0
  BY <1>1, <1>3
<1>4. CASE Len(frac) = 1
  BY <1>1, <1>2, <1>4
<1>5. CASE Len(frac) = 2
  BY <1>1, <1>2, <1>5
<1>6. CASE Len(frac) = 3
  <2>1. digit(1) = frac[1] /\ digit(2) = frac[2] /\ digit(3) = frac[3]
    BY <1>6
  <2> HIDE DEF digit
  <2> QED BY <1>1, <1>6, <2>1
<1> QED BY <1>3, <1>4, <1>5, <1>6

(* The millicores of a number of cores, to the third digit.                *)
Millicores(q) == q.whole * 1000 + Thousandths(q.frac)

LEMMA CpuDigits ==
  ASSUME NEW q, q.whole \in Nat, q.frac \in Seq(0..9), Len(q.frac) <= 3
  PROVE  /\ Len(q.frac) \in 0..3 /\ Millicores(q) \in Nat
         /\ Millicores(q) * 10 ^ Len(q.frac) = Digits(q) * 1000
<1> DEFINE t == Thousandths(q.frac)
           v == Millicores(q)
<1>1. /\ Len(q.frac) \in 0..3 /\ q.frac \in [1..Len(q.frac) -> 0..9]
      /\ t \in Nat
  BY DigitsOf, Padded
<1>2. v = q.whole * 1000 + t /\ v \in Nat
  BY <1>1 DEF Millicores
<1> SUFFICES v * 10 ^ Len(q.frac) = Digits(q) * 1000
  BY <1>1, <1>2
<1> HIDE DEF v
<1>3. CASE Len(q.frac) = 0
  <2>1. t = 0 /\ Digits(q) = q.whole
    BY <1>1, <1>3, DigitsOf, Padded
  <2> QED BY <1>2, <1>3, <2>1
<1>4. CASE Len(q.frac) = 1
  <2> DEFINE w == q.whole
             a == q.frac[1]
             said == Digits(q)
  <2>1. w \in Nat /\ a \in Nat
    BY <1>1, <1>4
  <2>2. t = 100 * a
    BY <1>1, <1>4, Padded
  <2>3. said = 10 * w + a
    BY <1>4, DigitsOf
  <2>4. v = w * 1000 + t
    BY <1>2
  <2> HIDE DEF t, w, a, said
  <2>5. v * 10 = said * 1000
    BY <2>1, <2>2, <2>3, <2>4
  <2>6. 10 ^ 1 = 10
    OBVIOUS
  <2> QED BY <1>4, <2>5, <2>6 DEF said
<1>5. CASE Len(q.frac) = 2
  <2> DEFINE w == q.whole
             a == q.frac[1]
             b == q.frac[2]
             said == Digits(q)
  <2>1. w \in Nat /\ a \in Nat /\ b \in Nat
    BY <1>1, <1>5
  <2>2. t = 100 * a + 10 * b
    BY <1>1, <1>5, Padded
  <2>3. said = 100 * w + 10 * a + b
    BY <1>5, DigitsOf
  <2>4. v = w * 1000 + t
    BY <1>2
  <2> HIDE DEF t, w, a, b, said
  <2>5. v * 100 = said * 1000
    BY <2>1, <2>2, <2>3, <2>4
  <2>6. 10 ^ 2 = 100
    OBVIOUS
  <2> QED BY <1>5, <2>5, <2>6 DEF said
<1>6. CASE Len(q.frac) = 3
  <2> DEFINE w == q.whole
             a == q.frac[1]
             b == q.frac[2]
             c == q.frac[3]
             said == Digits(q)
  <2>1. w \in Nat /\ a \in Nat /\ b \in Nat /\ c \in Nat
    BY <1>1, <1>6
  <2>2. t = 100 * a + 10 * b + c
    BY <1>1, <1>6, Padded
  <2>3. said = 10 * (100 * w + 10 * a + b) + c
    BY <1>6, DigitsOf
  <2>4. v = w * 1000 + t
    BY <1>2
  <2> HIDE DEF t, w, a, b, c, said
  <2>5. v * 1000 = said * 1000
    BY <2>1, <2>2, <2>3, <2>4
  <2>6. 10 ^ 3 = 1000
    OBVIOUS
  <2> QED BY <1>6, <2>5, <2>6 DEF said
<1> QED BY <1>1, <1>3, <1>4, <1>5, <1>6

(* What Substrate is given for a quantity is what the quantity says.       *)
LEMMA CpuExact ==
  ASSUME NEW q, q.whole \in Nat, q.frac \in Seq(0..9), CpuMillicores(q) # 0
  PROVE  /\ CpuMillicores(q) \in 1..MaxInt
         /\ Exactly(CpuMillicores(q), q, CpuUnits(q))
<1> DEFINE v == CpuMillicores(q)
<1>1. CASE q.suffix = "m" /\ q.frac = <<>>
  <2>1. v = q.whole /\ v \in 1..MaxInt
    BY <1>1, MaxIntAssumption DEF CpuMillicores, InRange
  <2>2. Len(q.frac) = 0 /\ CpuUnits(q) = 1
    BY <1>1 DEF CpuUnits
  <2>3. Digits(q) = q.whole
    BY <2>2, DigitsOf
  <2> HIDE DEF v
  <2>4. v * 10 ^ 0 = v * 1
    OBVIOUS
  <2> QED BY <2>1, <2>2, <2>3, <2>4 DEF Exactly, v
<1>2. CASE q.suffix = "" /\ Len(q.frac) <= 3
  <2> HIDE DEF v
  <2>0. Len(q.frac) <= 3
    BY <1>2
  <2>1. Millicores(q) \in Nat
    BY <2>0, CpuDigits
  <2>2. Millicores(q) * 10 ^ Len(q.frac) = Digits(q) * 1000
    BY <2>0, CpuDigits
  <2> USE DEF v
  <2>3. CpuMillicores(q) = InRange(Millicores(q))
    BY <1>2 DEF CpuMillicores, Millicores
  <2>4. v = Millicores(q) /\ v \in 1..MaxInt
    BY <2>1, <2>3, MaxIntAssumption DEF InRange
  <2>5. CpuUnits(q) = 1000
    BY <1>2 DEF CpuUnits
  <2> QED BY <2>2, <2>4, <2>5 DEF Exactly
<1>3. (q.suffix = "m" /\ q.frac = <<>>) \/ (q.suffix = "" /\ Len(q.frac) <= 3)
  BY DEF CpuMillicores
<1> QED BY <1>1, <1>2, <1>3

LEMMA ScaleType == \A suffix : Scale(suffix) \in Nat
BY DEF Scale

LEMMA MemoryExact ==
  ASSUME NEW q, q.whole \in Nat, MemoryBytes(q) # 0
  PROVE  /\ MemoryBytes(q) \in 1..MaxInt
         /\ Exactly(MemoryBytes(q), q, MemoryUnits(q))
<1> DEFINE v == MemoryBytes(q)
           s == Scale(q.suffix)
<1>1. /\ q.frac = <<>> /\ s # 0 /\ q.whole <= MaxInt \div s
      /\ v = q.whole * s /\ v # 0
  BY DEF MemoryBytes
<1>2. s \in Nat
  BY ScaleType
<1>3. v \in 1..MaxInt
  <2> HIDE DEF v, s
  <2>1. q.whole * s \in Nat
    BY <1>2
  <2>2. q.whole * s <= MaxInt
    <3>1. \A w, k, m \in Nat : k # 0 /\ w <= m \div k => w * k <= m
      OBVIOUS
    <3> QED BY <1>1, <1>2, <3>1, MaxIntAssumption
  <2> QED BY <1>1, <2>1, <2>2, MaxIntAssumption
<1>4. Len(q.frac) = 0 /\ q.frac \in Seq(0..9)
  BY <1>1
<1>5. Digits(q) = q.whole
  BY <1>4, DigitsOf
<1>6. v * 10 ^ 0 = v
  <2> HIDE DEF v
  <2> QED BY <1>3
<1> QED BY <1>1, <1>3, <1>4, <1>5, <1>6 DEF Exactly, MemoryUnits

(* A number of cores or bytes that an i64 can say is not refused.          *)
LEMMA CpuAccepted ==
  ASSUME NEW q, q # Blank, q.whole \in Nat, q.frac \in Seq(0..9), CpuExpressible(q)
  PROVE  q.wellFormed /\ CpuMillicores(q) # 0
<1> DEFINE said == Digits(q) * CpuUnits(q)
           ten == 10 ^ Len(q.frac)
           places == IF q.suffix = "" THEN 3 ELSE 0
<1>1. q.wellFormed /\ Len(q.frac) <= places /\ said \div ten \in 1..MaxInt
  BY DEF CpuExpressible, Expressible
<1>2. CASE q.suffix = ""
  <2> DEFINE u == Millicores(q)
  <2>1. Len(q.frac) <= 3 /\ CpuUnits(q) = 1000
    BY <1>1, <1>2 DEF CpuUnits
  <2>2. u \in Nat /\ Len(q.frac) \in 0..3
    BY <2>1, CpuDigits
  <2>3. u * ten = said
    BY <2>1, CpuDigits
  <2>4. CpuMillicores(q) = InRange(u)
    BY <1>2, <2>1 DEF CpuMillicores, Millicores
  <2>5. ten \in {1, 10, 100, 1000}
    <3>1. 10 ^ 0 = 1 /\ 10 ^ 1 = 10 /\ 10 ^ 2 = 100 /\ 10 ^ 3 = 1000
      OBVIOUS
    <3>2. Len(q.frac) = 0 \/ Len(q.frac) = 1 \/ Len(q.frac) = 2 \/ Len(q.frac) = 3
      BY <2>2
    <3>3. ten = IF Len(q.frac) = 0 THEN 10 ^ 0 ELSE
                IF Len(q.frac) = 1 THEN 10 ^ 1 ELSE
                IF Len(q.frac) = 2 THEN 10 ^ 2 ELSE 10 ^ 3
      BY <3>2
    <3> HIDE DEF ten
    <3> QED BY <3>1, <3>3
  <2> HIDE DEF u, ten, said
  <2>6. (u * ten) \div ten = u
    BY <2>2, <2>5
  <2>7. u \in 1..MaxInt
    BY <1>1, <2>3, <2>6
  <2>8. InRange(u) # 0
    BY <2>7, MaxIntAssumption DEF InRange
  <2> QED BY <1>1, <2>4, <2>8
<1>3. CASE q.suffix # ""
  <2>1. Len(q.frac) = 0 /\ q.frac = <<>>
    <3> DEFINE s == q.frac
    <3>1. s \in Seq(0..9) /\ Len(s) <= 0
      BY <1>1, <1>3
    <3> HIDE DEF s
    <3> QED BY <3>1, LenProperties, EmptySeq DEF s
  <2>2. Digits(q) = q.whole /\ ten = 1
    <3>1. Digits(q) = q.whole
      <4>1. Len(q.frac) = 0
        BY <2>1
      <4> QED BY <4>1, DigitsOf
    <3>2. 10 ^ 0 = 1
      OBVIOUS
    <3> QED BY <2>1, <3>1, <3>2
  <2>3. CpuUnits(q) = IF q.suffix = "m" THEN 1 ELSE 0
    BY <1>3 DEF CpuUnits
  <2>4. said = IF q.suffix = "m" THEN q.whole ELSE 0
    BY <2>2, <2>3
  <2> HIDE DEF said, ten
  <2>5. said \in 1..MaxInt
    <3>1. said \in Nat
      BY <2>4
    <3>2. \A x \in Nat : x \div 1 = x
      OBVIOUS
    <3> QED BY <1>1, <2>2, <3>1, <3>2
  <2>6. CpuMillicores(q) = InRange(q.whole)
    <3>1. q.suffix = "m"
      BY <2>4, <2>5
    <3> QED BY <2>1, <3>1 DEF CpuMillicores
  <2>7. InRange(q.whole) # 0
    BY <2>4, <2>5, MaxIntAssumption DEF InRange
  <2> QED BY <1>1, <2>6, <2>7
<1> QED BY <1>2, <1>3

LEMMA MemoryAccepted ==
  ASSUME NEW q, q # Blank, q.whole \in Nat, q.frac \in Seq(0..9), MemoryExpressible(q)
  PROVE  q.wellFormed /\ MemoryBytes(q) # 0
<1> DEFINE s == Scale(q.suffix)
           said == Digits(q) * s
           ten == 10 ^ Len(q.frac)
<1>1. q.wellFormed /\ Len(q.frac) <= 0 /\ said \div ten \in 1..MaxInt
  BY DEF MemoryExpressible, Expressible, MemoryUnits
<1>2. Len(q.frac) = 0 /\ q.frac = <<>>
  <2> DEFINE f == q.frac
  <2>1. f \in Seq(0..9) /\ Len(f) <= 0
    BY <1>1
  <2> HIDE DEF f
  <2> QED BY <2>1, LenProperties, EmptySeq DEF f
<1>3. Digits(q) = q.whole /\ ten = 1 /\ s \in Nat
  <2>1. Digits(q) = q.whole
    <3>1. Len(q.frac) = 0
      BY <1>2
    <3> QED BY <3>1, DigitsOf
  <2>2. 10 ^ 0 = 1
    OBVIOUS
  <2> QED BY <1>2, <2>1, <2>2, ScaleType
<1>4. said = q.whole * s
  BY <1>3
<1> HIDE DEF said, ten, s
<1>5. said \in 1..MaxInt
  <2>1. said \in Nat
    BY <1>3, <1>4
  <2> QED BY <1>1, <1>3, <2>1
<1>6. s # 0 /\ q.whole <= MaxInt \div s
  <2>1. \A w, k, m \in Nat : w * k \in 1..m => k # 0 /\ w <= m \div k
    OBVIOUS
  <2> QED BY <1>3, <1>4, <1>5, <2>1, MaxIntAssumption
<1> QED BY <1>1, <1>2, <1>4, <1>5, <1>6 DEF MemoryBytes, s

(* The limits of a create that is admitted are what it asks for, and one    *)
(* refused for its limits asks for what cannot be had.                      *)
LEMMA LimitsGiven ==
  ASSUME NEW r \in Creates, NEW cfg \in Configs, Admit(r, cfg) = "ok"
  PROVE  LET limits == ResourcesFor(r, cfg) IN
         /\ limits \in [cpu: 1..MaxInt, memory: 1..MaxInt]
         /\ Worth(limits.cpu, r.cpu, CpuUnits(r.cpu), cfg.fragment.cpu, cfg.cpu)
         /\ Worth(limits.memory, r.memory, MemoryUnits(r.memory),
                  cfg.fragment.memory, cfg.memory)
<1> DEFINE cpu == Limit(r.cpu, CpuMillicores(r.cpu), cfg.fragment.cpu, cfg.cpu)
           memory == Limit(r.memory, MemoryBytes(r.memory), cfg.fragment.memory,
                           cfg.memory)
<1>1. cpu # 0 /\ memory # 0
  BY DEF Admit, Validate, ResourcesFor
<1>2. /\ cpu \in 1..MaxInt
      /\ Worth(cpu, r.cpu, CpuUnits(r.cpu), cfg.fragment.cpu, cfg.cpu)
  <2>1. CASE r.cpu # Blank
    <3>1. cpu = CpuMillicores(r.cpu)
      BY <1>1, <2>1 DEF Limit
    <3>2. r.cpu.whole \in Nat /\ r.cpu.frac \in Seq(0..9)
      BY <2>1, LimitsAssumption
    <3> QED BY <1>1, <2>1, <3>1, <3>2, CpuExact DEF Worth
  <2>2. CASE r.cpu = Blank
    BY <2>2, LimitsAssumption DEF Limit, Worth
  <2> QED BY <2>1, <2>2
<1>3. /\ memory \in 1..MaxInt
      /\ Worth(memory, r.memory, MemoryUnits(r.memory), cfg.fragment.memory, cfg.memory)
  <2>1. CASE r.memory # Blank
    <3>1. memory = MemoryBytes(r.memory)
      BY <1>1, <2>1 DEF Limit
    <3>2. r.memory.whole \in Nat
      BY <2>1, LimitsAssumption
    <3> QED BY <1>1, <2>1, <3>1, <3>2, MemoryExact DEF Worth
  <2>2. CASE r.memory = Blank
    BY <2>2, LimitsAssumption DEF Limit, Worth
  <2> QED BY <2>1, <2>2
<1> HIDE DEF cpu, memory
<1>4. ResourcesFor(r, cfg) = [cpu |-> cpu, memory |-> memory]
  BY DEF ResourcesFor, cpu, memory
<1> QED BY <1>2, <1>3, <1>4

LEMMA LimitsRefused ==
  ASSUME NEW r \in Creates, NEW cfg \in Configs, Admit(r, cfg) = "invalid_argument"
  PROVE  \/ r.image \notin Pinned \/ (r.id = Blank /\ r.name = Blank)
         \/ ~CpuExpressible(r.cpu) \/ ~MemoryExpressible(r.memory)
<1> SUFFICES ASSUME 0 \in {ResourcesFor(r, cfg).cpu, ResourcesFor(r, cfg).memory},
                    CpuExpressible(r.cpu), MemoryExpressible(r.memory)
             PROVE  FALSE
  BY DEF Admit, Validate, ActorName
<1>1. ResourcesFor(r, cfg).cpu # 0
  <2>1. CASE r.cpu # Blank
    <3>1. r.cpu.whole \in Nat /\ r.cpu.frac \in Seq(0..9)
      BY <2>1, LimitsAssumption
    <3> QED BY <2>1, <3>1, CpuAccepted DEF ResourcesFor, Limit
  <2>2. CASE r.cpu = Blank
    BY <2>2, LimitsAssumption DEF ResourcesFor, Limit
  <2> QED BY <2>1, <2>2
<1>2. ResourcesFor(r, cfg).memory # 0
  <2>1. CASE r.memory # Blank
    <3>1. r.memory.whole \in Nat /\ r.memory.frac \in Seq(0..9)
      BY <2>1, LimitsAssumption
    <3> QED BY <2>1, <3>1, MemoryAccepted DEF ResourcesFor, Limit
  <2>2. CASE r.memory = Blank
    BY <2>2, LimitsAssumption DEF ResourcesFor, Limit
  <2> QED BY <2>1, <2>2
<1> QED BY <1>1, <1>2

-----------------------------------------------------------------------------
(* The invariant                                                           *)

USE ClientAssumption, LoadedAssumption, CallsAssumption, RequestsAssumption

Places == {"idle", "client", "template", "golden", "actor", "uid", "policy",
           "bundle", "put", "get", "list", "look", "make", "answered"}

Codes == {"none", "ok", "rpc", "invalid_argument", "failed_precondition",
          "deadline_exceeded", "already_exists", "not_found", "unavailable",
          "internal"}

CallRecord == [op: Ops \cup {"none"}, request: Creates \cup Starts \cup Gets \cup {None},
               at: Places, uid: 0..1, answer: Codes]

WorldTypeOK ==
  /\ config \in Loaded
  /\ actors \in [Names -> Actor \cup {None}]
  /\ DOMAIN bundles = Names
  /\ made \in [Names -> [request: Creates \cup {None}, config: Loaded \cup {None}]]

(* Who holds the lock dials, and only they do, while there is no channel.  *)
Dialing ==
  /\ client \in [Calls -> Client] /\ holder \in Calls \cup {None}
  /\ channel \in BOOLEAN /\ dials \in 0..1 /\ (channel <=> dials = 1)
  /\ \A c \in Calls : holder = c => client[c].at \in {"tls", "connect"}
  /\ \A c \in Calls : client[c].at \in {"tls", "connect"} => holder = c /\ ~channel

ActorsMade ==
  \A n \in Names : actors[n] # None =>
    /\ made[n].request \in Creates /\ made[n].config \in Loaded
    /\ Admit(made[n].request, made[n].config) = "ok"
    /\ actors[n].template = NameFor(made[n].request, made[n].config)

BundlesMade ==
  \A n \in Names : bundles[n] # None => actors[n] # None

(* What a call in progress is, and what it can count on, with the actors,  *)
(* what they were made of, and the configuration.                          *)
Fit(k, as, ms, cfg) ==
  LET n == ActorName(k.request) IN
  /\ k.at # "idle" => k.op \in Ops
  /\ k.at \in {"template", "golden", "actor", "policy"} => k.op = "create"
  /\ k.at \in {"uid", "bundle", "put"} => k.op \in {"create", "start"}
  /\ k.at # "answered" => k.answer = "none"
  /\ k.op # "none" => k.request \in Request(k.op)
  /\ k.op = "create" /\ k.at # "answered" => Admit(k.request, cfg) = "ok"
  /\ k.op = "create" /\ k.answer = "invalid_argument" =>
       Admit(k.request, cfg) = "invalid_argument"
  /\ k.at # "answered" /\ k.op \in {"create", "start"} => n \in Names
  /\ k.at \in {"policy", "bundle", "put"} => k.uid = 1 /\ as[n] # None
  /\ k.answer = "already_exists" =>
       /\ k.op = "create" /\ n \in Names /\ as[n] # None
       /\ ~Alike(k.request, cfg, ms[n].request, ms[n].config)

CallsFit == /\ call \in [Calls -> CallRecord]
            /\ \A c \in Calls : Fit(call[c], actors, made, config)

RInv == WorldTypeOK /\ Dialing /\ ActorsMade /\ BundlesMade /\ CallsFit

LEMMA InitRInv == Init => RInv
<1> SUFFICES ASSUME Init PROVE RInv
  OBVIOUS
<1>1. WorldTypeOK
  <2>1. config \in Loaded
    BY DEF Init, ClientInit
  <2> QED BY <2>1 DEF Init, WorldTypeOK
<1>2. Dialing
  <2>1. NoClient \in Client /\ NoClient.at = "idle"
    BY DEF NoClient, Client
  <2>2. /\ client = [c \in Calls |-> NoClient] /\ dials = 0 /\ holder = None
        /\ channel \in BOOLEAN /\ ~channel
    BY DEF Init, ClientInit
  <2> QED BY <2>1, <2>2 DEF Dialing
<1>3. ActorsMade /\ BundlesMade
  BY DEF Init, ActorsMade, BundlesMade
<1>4. CallsFit
  <2>1. Free \in CallRecord
    BY DEF Free, CallRecord, Codes, Places, Ops
  <2>2. Fit(Free, actors, made, config)
    BY DEF Free, Fit
  <2> QED BY <2>1, <2>2 DEF Init, CallsFit
<1> QED BY <1>1, <1>2, <1>3, <1>4 DEF RInv

-----------------------------------------------------------------------------
(* The client                                                              *)

(* The lock's holder, and whoever dials, after a step of c that leaves the *)
(* others where they are.                                                  *)
LEMMA ClientStepDials ==
  ASSUME Dialing, NEW c \in Calls, ClientStep(c)
  PROVE  Dialing'
<1>1. client[c] \in Client
  BY DEF Dialing
<1>2. CASE LoadAuth(c)
  BY <1>1, <1>2 DEF LoadAuth, At, Goto, Dialing, Client
<1>3. CASE Peek(c)
  BY <1>1, <1>3 DEF Peek, At, Goto, Dialing, Client
<1>4. CASE Relock(c)
  <2>1. \A d \in Calls : client[d].at \notin {"tls", "connect"}
    BY <1>4 DEF Relock, Dialing
  <2> QED BY <1>1, <1>4, <2>1 DEF Relock, At, Goto, Dialing, Client
<1>5. CASE LoadTls(c)
  <2>1. CASE Fails(c, "failed_precondition")
    BY <1>1, <1>5, <2>1 DEF LoadTls, Fails, Unlocked, At, Dialing, Client
  <2>2. CASE Goto(c, "connect") /\ UNCHANGED <<channel, holder, dials>>
    BY <1>1, <1>5, <2>2 DEF LoadTls, At, Goto, Dialing, Client
  <2> QED BY <1>5, <2>1, <2>2 DEF LoadTls
<1>6. CASE Connect(c)
  <2>1. holder = c /\ ~channel /\ dials = 0
    BY <1>6 DEF Connect, At, Dialing
  <2>2. \A d \in Calls \ {c} : client[d].at \notin {"tls", "connect"}
    BY <2>1 DEF Dialing
  <2>3. holder' = None /\ channel' = TRUE /\ dials' = 1
    BY <1>6, <2>1 DEF Connect, Unlocked
  <2>4. /\ client' \in [Calls -> Client]
        /\ \A d \in Calls : client'[d].at \notin {"tls", "connect"}
    BY <1>1, <1>6, <2>2 DEF Connect, At, Goto, Dialing, Client
  <2> QED BY <2>3, <2>4 DEF Dialing
<1> QED BY <1>2, <1>3, <1>4, <1>5, <1>6 DEF ClientStep

LEMMA ReleaseDials ==
  ASSUME Dialing, NEW c \in Calls, Release(c)
  PROVE  Dialing'
BY DEF Release, Unlocked, NoClient, Dialing, Client

LEMMA ClientFailsDials ==
  ASSUME Dialing, NEW c \in Calls, ClientFails(c)
  PROVE  Dialing'
<1>1. PICK code \in {"unavailable", "failed_precondition"} : Fails(c, code)
  BY DEF ClientFails
<1> QED BY <1>1 DEF Fails, Unlocked, Dialing, Client

-----------------------------------------------------------------------------
(* What is asked for, and the template                                     *)

LEMMA AlikeSameName ==
  ASSUME NEW r1, NEW cfg1, NEW r2, NEW cfg2, Alike(r1, cfg1, r2, cfg2)
  PROVE  NameFor(r1, cfg1) = NameFor(r2, cfg2)
<1>1. /\ cfg1.selector = cfg2.selector /\ cfg1.fragment = cfg2.fragment
      /\ r1.image = r2.image
      /\ ResourcesFor(r1, cfg1) = ResourcesFor(r2, cfg2)
  BY DEF Alike
<1>2. Containers(r1, cfg1.fragment) = Containers(r2, cfg2.fragment)
  BY <1>1 DEF Containers
<1> QED BY <1>1, <1>2 DEF NameFor, Synthesize

LEMMA Least ==
  ASSUME NEW T, T \subseteq Nat, T # {}
  PROVE  \E x \in T : \A y \in T : x <= y
<1> DEFINE R == OpToRel(<, Nat)
<1>1. IsWellFoundedOn(R, Nat)
  BY NatLessThanWellFounded
<1>2. \E x \in T : \A y \in T : ~ (<<y, x>> \in R)
  <2> HIDE DEF R
  <2> QED BY <1>1, WFMin
<1>3. \A x, y \in Nat : y < x => <<y, x>> \in R
  BY DEF OpToRel
<1>4. \A x, y \in Nat : ~ (<<y, x>> \in R) => x <= y
  <2> HIDE DEF R
  <2> QED BY <1>3
<1> HIDE DEF R
<1> QED BY <1>2, <1>4

-----------------------------------------------------------------------------
(* Calls go on                                                             *)

(* What has been made stays, and of what it was made.                      *)
Grows ==
  \A n \in Names : actors[n] # None =>
    /\ actors'[n] # None
    /\ made'[n].request = made[n].request /\ made'[n].config = made[n].config

LEMMA FitStays ==
  ASSUME Grows, NEW k, Fit(k, actors, made, config)
  PROVE  Fit(k, actors', made', config)
BY DEF Grows, Fit

(* One call's record changes.                                              *)
LEMMA CallChanges ==
  ASSUME RInv, Grows, config' = config, NEW c \in Calls, NEW k \in CallRecord,
         call' = [call EXCEPT ![c] = k], Fit(k, actors', made', config)
  PROVE  CallsFit'
<1>1. call' \in [Calls -> CallRecord]
  BY DEF RInv, CallsFit
<1>2. ASSUME NEW d \in Calls
      PROVE  Fit(call'[d], actors', made', config')
  <2>1. Fit(call[d], actors', made', config)
    BY FitStays DEF RInv, CallsFit
  <2>2. call'[d] = IF d = c THEN k ELSE call[d]
    BY DEF RInv, CallsFit
  <2> QED BY <2>1, <2>2
<1> QED BY <1>1, <1>2 DEF CallsFit

LEMMA Moves ==
  ASSUME RInv, Grows, config' = config, NEW c \in Calls,
         NEW p \in Places \ {"idle", "answered"}, Goes(c, p),
         call[c].at \notin {"idle", "answered"},
         p \in {"template", "golden", "actor", "policy"} => call[c].op = "create",
         p \in {"uid", "bundle", "put"} => call[c].op \in {"create", "start"},
         p \in {"policy", "bundle", "put"} => call[c].uid = 1 /\ actors'[On(c)] # None
  PROVE  CallsFit'
<1> DEFINE k == [call[c] EXCEPT !.at = p]
<1>1. call[c] \in CallRecord /\ Fit(call[c], actors, made, config)
  BY DEF RInv, CallsFit
<1>2. call' = [call EXCEPT ![c] = k]
  BY DEF Goes
<1>3. /\ k \in CallRecord /\ k.at = p /\ k.op = call[c].op
      /\ k.request = call[c].request /\ k.uid = call[c].uid
      /\ k.answer = call[c].answer
  BY <1>1 DEF CallRecord
<1> HIDE DEF k
<1>4. Fit(k, actors', made', config)
  BY <1>1, <1>3 DEF Fit, On
<1> QED BY <1>2, <1>3, <1>4, CallChanges

LEMMA Answers ==
  ASSUME RInv, Grows, config' = config, NEW c \in Calls, NEW code \in Codes,
         Answer(c, code), call[c].at # "idle", code # "invalid_argument",
         code = "already_exists" =>
           /\ call[c].op = "create" /\ On(c) \in Names /\ actors'[On(c)] # None
           /\ ~Alike(call[c].request, config, made'[On(c)].request,
                     made'[On(c)].config)
  PROVE  CallsFit'
<1> DEFINE k == [call[c] EXCEPT !.at = "answered", !.answer = code]
<1>1. call[c] \in CallRecord /\ Fit(call[c], actors, made, config)
  BY DEF RInv, CallsFit
<1>2. call' = [call EXCEPT ![c] = k]
  BY DEF Answer
<1>3. /\ k \in CallRecord /\ k.at = "answered" /\ k.op = call[c].op
      /\ k.request = call[c].request /\ k.answer = code
  BY <1>1 DEF CallRecord, Places
<1> HIDE DEF k
<1>4. Fit(k, actors', made', config)
  BY <1>1, <1>3 DEF Fit, On
<1> QED BY <1>2, <1>3, <1>4, CallChanges

LEMMA Frees ==
  ASSUME RInv, Grows, config' = config, NEW c \in Calls,
         call' = [call EXCEPT ![c] = Free]
  PROVE  CallsFit'
<1>1. Free \in CallRecord
  BY DEF Free, CallRecord, Codes, Places, Ops
<1>2. Fit(Free, actors', made', config)
  BY DEF Free, Fit
<1> QED BY <1>1, <1>2, CallChanges

-----------------------------------------------------------------------------
(* The world                                                               *)

LEMMA WorldSame ==
  ASSUME RInv, UNCHANGED <<config, actors, bundles, made>>
  PROVE  WorldTypeOK' /\ ActorsMade' /\ BundlesMade' /\ Grows
BY DEF RInv, WorldTypeOK, ActorsMade, BundlesMade, Grows

LEMMA DialsSame ==
  ASSUME RInv, UNCHANGED <<channel, holder, client, dials>>
  PROVE  Dialing'
BY DEF RInv, Dialing

LEMMA NewActorWorld ==
  ASSUME RInv, NEW c \in Calls, call[c].at = "actor", NewActor(c),
         UNCHANGED <<config, bundles>>
  PROVE  /\ WorldTypeOK' /\ ActorsMade' /\ BundlesMade' /\ Grows
         /\ actors'[On(c)] # None
<1> DEFINE n == On(c)
           a == [template |-> Template(c), rules |-> {}, uid |-> 1]
           q == call[c].request
<1>1. n \in Names /\ q \in Creates /\ Admit(q, config) = "ok"
  BY DEF RInv, CallsFit, Fit, Request, On
<1>2. /\ config \in Loaded
      /\ actors \in [Names -> Actor \cup {None}]
      /\ made \in [Names -> [request: Creates \cup {None}, config: Loaded \cup {None}]]
  BY DEF RInv, WorldTypeOK
<1>3. a \in Actor /\ a.template = NameFor(q, config)
  BY <1>1, <1>2 DEF Actor, Template
<1>4. a # None
  BY <1>3
<1>5. actors[n] = None /\ actors' = [actors EXCEPT ![n] = a]
  BY DEF NewActor
<1>6. /\ made' \in [Names -> [request: Creates \cup {None}, config: Loaded \cup {None}]]
      /\ made'[n].request = q /\ made'[n].config = config
      /\ \A m \in Names \ {n} : made'[m] = made[m]
  <2> DEFINE e == [made[n] EXCEPT !.request = q, !.config = config]
  <2>1. made' = [made EXCEPT ![n] = e]
    BY <1>1, <1>2 DEF NewActor
  <2>2. /\ e \in [request: Creates \cup {None}, config: Loaded \cup {None}]
        /\ e.request = q /\ e.config = config
    <3> HIDE DEF q
    <3> QED BY <1>1, <1>2
  <2> HIDE DEF e
  <2> QED BY <1>1, <1>2, <2>1, <2>2
<1>7. actors'[n] = a /\ \A m \in Names \ {n} : actors'[m] = actors[m]
  BY <1>1, <1>2, <1>5
<1> HIDE DEF a, q, n
<1>8. WorldTypeOK'
  BY <1>1, <1>2, <1>3, <1>5, <1>6 DEF RInv, WorldTypeOK
<1>9. ActorsMade'
  BY <1>1, <1>2, <1>3, <1>6, <1>7 DEF RInv, ActorsMade
<1>10. BundlesMade'
  BY <1>5, <1>6, <1>7 DEF RInv, BundlesMade
<1>11. Grows
  BY <1>5, <1>6, <1>7 DEF Grows
<1> QED BY <1>4, <1>7, <1>8, <1>9, <1>10, <1>11 DEF n

LEMMA NewPolicyWorld ==
  ASSUME RInv, NEW c \in Calls, call[c].at = "policy", NewPolicy(On(c)),
         UNCHANGED <<config, bundles, made>>
  PROVE  /\ WorldTypeOK' /\ ActorsMade' /\ BundlesMade' /\ Grows
         /\ actors'[On(c)] # None
<1> DEFINE n == On(c)
           s == IF actors[n].rules = {} THEN config.rules ELSE actors[n].rules
<1>1. n \in Names /\ actors[n] # None
  BY DEF RInv, CallsFit, Fit, On
<1>2. config \in Loaded /\ actors \in [Names -> Actor \cup {None}]
  BY DEF RInv, WorldTypeOK
<1>3. actors' = [actors EXCEPT ![n] = [actors[n] EXCEPT !.rules = s]]
  BY DEF NewPolicy
<1>4. s \in {{}} \cup {cfg.rules : cfg \in Loaded}
  BY <1>1, <1>2 DEF Actor
<1> HIDE DEF s
<1>5. [actors[n] EXCEPT !.rules = s] \in Actor
  BY <1>1, <1>2, <1>4 DEF Actor
<1>6. /\ actors'[n] \in Actor /\ actors'[n].template = actors[n].template
      /\ \A m \in Names \ {n} : actors'[m] = actors[m]
      /\ actors' \in [Names -> Actor \cup {None}]
  BY <1>1, <1>2, <1>3, <1>5 DEF Actor
<1>7. actors'[n] # None
  BY <1>6
<1> HIDE DEF n
<1>8. WorldTypeOK' /\ Grows
  BY <1>6, <1>7 DEF RInv, WorldTypeOK, Grows
<1>9. ActorsMade' /\ BundlesMade'
  BY <1>1, <1>6, <1>7 DEF RInv, ActorsMade, BundlesMade
<1> QED BY <1>7, <1>8, <1>9 DEF n

-----------------------------------------------------------------------------
(* The steps                                                               *)

LEMMA CallRInv ==
  ASSUME RInv, NEW c \in Calls, NEW op \in Ops, NEW r \in Request(op), Call(c, op, r)
  PROVE  RInv'
<1> DEFINE k == IF Admission(op, r) = "ok"
                THEN [Free EXCEPT !.op = op, !.at = "client", !.request = r]
                ELSE [Free EXCEPT !.op = op, !.at = "answered", !.request = r,
                                  !.answer = Admission(op, r)]
<1>1. /\ call[c].at = "idle" /\ UNCHANGED <<templates, actors, bundles, atespace, made>>
      /\ call' = [call EXCEPT ![c] = k]
      /\ Want(c) \/ UNCHANGED clientVars
  BY DEF Call, world
<1>2. UNCHANGED <<config, channel, holder, dials>>
  BY <1>1 DEF Want, clientVars
<1>3. WorldTypeOK' /\ ActorsMade' /\ BundlesMade' /\ Grows
  BY <1>1, <1>2, WorldSame
<1>4. Dialing'
  BY <1>1, <1>2 DEF RInv, Dialing, Want, At, Goto, Client, clientVars
<1>5. /\ r \in Creates \cup Starts \cup Gets \cup {None}
      /\ op = "create" => r \in Creates
      /\ op = "start" => r \in Starts
  BY DEF Request, Ops
<1>6. Admission(op, r) \in {"ok", "invalid_argument", "failed_precondition"}
  BY DEF Admission, Admit, Validate
<1>7. Admission(op, r) = "ok" /\ op \in {"create", "start"} => ActorName(r) \in Names
  BY <1>5 DEF Admission, Admit
<1>8. /\ k \in CallRecord /\ k.op = op /\ k.request = r
      /\ k.at = IF Admission(op, r) = "ok" THEN "client" ELSE "answered"
      /\ k.answer = IF Admission(op, r) = "ok" THEN "none" ELSE Admission(op, r)
  <2>1. CASE Admission(op, r) = "ok"
    <3>1. k = [op |-> op, request |-> r, at |-> "client", uid |-> 0,
               answer |-> "none"]
      BY <2>1 DEF Free
    <3> HIDE DEF k
    <3> QED BY <1>5, <2>1, <3>1 DEF CallRecord, Places, Codes
  <2>2. CASE Admission(op, r) # "ok"
    <3>1. k = [op |-> op, request |-> r, at |-> "answered", uid |-> 0,
               answer |-> Admission(op, r)]
      BY <2>2 DEF Free
    <3>2. Admission(op, r) \in Codes
      BY <1>6 DEF Codes
    <3> HIDE DEF k
    <3> QED BY <1>5, <2>2, <3>1, <3>2 DEF CallRecord, Places
  <2> QED BY <2>1, <2>2
<1> HIDE DEF k
<1>9. Fit(k, actors', made', config)
  BY <1>5, <1>6, <1>7, <1>8 DEF Fit, Admission
<1>10. CallsFit'
  BY <1>1, <1>2, <1>3, <1>8, <1>9, CallChanges
<1> QED BY <1>3, <1>4, <1>10 DEF RInv

(* A step that leaves the client and what has been made as they are.       *)
LEMMA QuietRInv ==
  ASSUME RInv, UNCHANGED <<config, channel, holder, client, dials>>,
         UNCHANGED <<actors, bundles, made>>, Grows => CallsFit'
  PROVE  RInv'
BY WorldSame, DialsSame DEF RInv

LEMMA GotClientRInv ==
  ASSUME RInv, NEW c \in Calls, GotClient(c)
  PROVE  RInv'
<1>1. /\ UNCHANGED <<config, channel, holder, client, dials>>
      /\ UNCHANGED <<actors, bundles, made>> /\ call[c].at = "client"
  BY DEF GotClient, clientVars, world
<1>2. ASSUME Grows PROVE CallsFit'
  <2>1. Fit(call[c], actors, made, config) /\ client[c] \in Client
    BY DEF RInv, CallsFit, Dialing
  <2>2. CASE Goes(c, First[call[c].op])
    <3>1. call[c].op \in Ops
      BY <1>1, <2>1 DEF Fit
    <3>2. /\ First[call[c].op] \in {"template", "uid", "get", "list", "look"}
          /\ First[call[c].op] = "template" => call[c].op = "create"
          /\ First[call[c].op] = "uid" => call[c].op = "start"
      BY <3>1 DEF First, Ops
    <3> QED BY <1>1, <1>2, <2>2, <3>2, Moves DEF Places
  <2>3. CASE Answer(c, client[c].code)
    <3>1. client[c].code \in Codes \ {"already_exists", "invalid_argument"}
      BY <2>1 DEF Client, Codes
    <3> QED BY <1>1, <1>2, <2>3, <3>1, Answers
  <2> QED BY <2>2, <2>3 DEF GotClient
<1> QED BY <1>1, <1>2, QuietRInv

(* The steps that only read, or make a template or the atespace.           *)
LEMMA ReadRInv ==
  ASSUME RInv, NEW c \in Calls,
         \/ MakeTemplate(c) \/ Golden(c) \/ GoldenFails(c) \/ Get(c) \/ List(c)
         \/ LookWorkspace(c) \/ MakeWorkspace(c)
  PROVE  RInv'
<1>1. /\ UNCHANGED <<config, channel, holder, client, dials>>
      /\ UNCHANGED <<actors, bundles, made>>
      /\ call[c].at \in {"template", "golden", "get", "list", "look", "make"}
  BY DEF MakeTemplate, Golden, GoldenFails, Get, List, LookWorkspace, MakeWorkspace,
     In, clientVars, world
<1>2. Fit(call[c], actors, made, config)
  BY DEF RInv, CallsFit
<1>3. \/ Goes(c, "golden") /\ call[c].at = "template"
      \/ Goes(c, "actor") /\ call[c].at = "golden"
      \/ Goes(c, "make")
      \/ Answer(c, "rpc") \/ Answer(c, "deadline_exceeded")
      \/ Answer(c, "failed_precondition") \/ Answer(c, "not_found")
      \/ Answer(c, "ok")
  BY DEF MakeTemplate, Golden, GoldenFails, Get, List, LookWorkspace, MakeWorkspace,
     In
<1>4. ASSUME Grows PROVE CallsFit'
  <2>1. CASE Goes(c, "golden") /\ call[c].at = "template"
    BY <1>1, <1>2, <1>4, <2>1, Moves DEF Fit, Places
  <2>2. CASE Goes(c, "actor") /\ call[c].at = "golden"
    BY <1>1, <1>2, <1>4, <2>2, Moves DEF Fit, Places
  <2>3. CASE Goes(c, "make")
    BY <1>1, <1>4, <2>3, Moves DEF Places
  <2>4. ASSUME NEW code \in Codes \ {"already_exists", "invalid_argument"},
               Answer(c, code)
        PROVE  CallsFit'
    BY <1>1, <1>4, <2>4, Answers
  <2> QED BY <1>3, <2>1, <2>2, <2>3, <2>4 DEF Codes
<1> QED BY <1>1, <1>4, QuietRInv

LEMMA MakeActorRInv ==
  ASSUME RInv, NEW c \in Calls, MakeActor(c)
  PROVE  RInv'
<1> DEFINE n == On(c)
<1>1. /\ UNCHANGED <<config, channel, holder, client, dials, bundles>>
      /\ call[c].at = "actor"
  BY DEF MakeActor, In, clientVars
<1>2. call[c].op = "create" /\ call[c].request \in Creates /\ n \in Names
  BY <1>1 DEF RInv, CallsFit, Fit, Request, On
<1>3. CASE actors[n] = None
  <2>1. NewActor(c) /\ Goes(c, "uid")
    BY <1>3 DEF MakeActor
  <2>2. WorldTypeOK' /\ ActorsMade' /\ BundlesMade' /\ Grows
    BY <1>1, <2>1, NewActorWorld
  <2>3. CallsFit'
    BY <1>1, <1>2, <2>1, <2>2, Moves DEF Places
  <2> QED BY <1>1, <2>2, <2>3, DialsSame DEF RInv
<1>4. CASE actors[n] # None
  <2>1. UNCHANGED <<actors, made>>
    BY <1>4 DEF MakeActor
  <2>2. ASSUME Grows PROVE CallsFit'
    <3>1. CASE Goes(c, "uid")
      BY <1>1, <1>2, <2>2, <3>1, Moves DEF Places
    <3>2. CASE Answer(c, "already_exists") /\ actors[n].template # Template(c)
      <4>1. ~Alike(call[c].request, config, made[n].request, made[n].config)
        BY <1>2, <1>4, <3>2, AlikeSameName DEF RInv, ActorsMade, Template
      <4>2. ~Alike(call[c].request, config, made'[n].request, made'[n].config)
        BY <2>1, <4>1
      <4> QED BY <1>1, <1>2, <1>4, <2>1, <2>2, <3>2, <4>2, Answers DEF Codes
    <3> QED BY <1>4, <3>1, <3>2 DEF MakeActor
  <2> QED BY <1>1, <2>1, <2>2, QuietRInv
<1> QED BY <1>3, <1>4

LEMMA GetUidRInv ==
  ASSUME RInv, NEW c \in Calls, GetUid(c)
  PROVE  RInv'
<1> DEFINE n == On(c)
           p == IF call[c].op = "create" THEN "policy" ELSE "bundle"
           k == [call[c] EXCEPT !.uid = actors[n].uid, !.at = p]
<1>1. /\ UNCHANGED <<config, channel, holder, client, dials>>
      /\ UNCHANGED <<actors, bundles, made>> /\ call[c].at = "uid"
  BY DEF GetUid, In, clientVars, world
<1>2. call[c] \in CallRecord /\ Fit(call[c], actors, made, config)
  BY DEF RInv, CallsFit
<1>3. n \in Names
  BY <1>1, <1>2 DEF Fit, On
<1>4. ASSUME Grows PROVE CallsFit'
  <2>1. CASE actors[n] = None
    <3>1. Answer(c, "not_found")
      BY <2>1 DEF GetUid
    <3> QED BY <1>1, <1>4, <3>1, Answers DEF Codes
  <2>2. CASE actors[n] # None
    <3>1. call' = [call EXCEPT ![c] = k]
      BY <2>2 DEF GetUid
    <3>2. actors[n].uid = 1
      BY <1>3, <2>2 DEF RInv, WorldTypeOK, Actor
    <3>3. /\ k \in CallRecord /\ k.uid = 1 /\ k.at = p /\ k.op = call[c].op
          /\ k.request = call[c].request /\ k.answer = call[c].answer
      <4>1. p \in Places
        BY DEF Places
      <4>2. k = [call[c] EXCEPT !.uid = 1, !.at = p]
        BY <3>2
      <4>3. 1 \in 0..1
        OBVIOUS
      <4> HIDE DEF k, p
      <4>4. k \in CallRecord
        BY <1>2, <4>1, <4>2, <4>3 DEF CallRecord
      <4>5. k.uid = 1 /\ k.at = p
        BY <1>2, <4>2 DEF CallRecord
      <4>6. k.op = call[c].op /\ k.request = call[c].request /\ k.answer = call[c].answer
        BY <1>2, <4>2 DEF CallRecord
      <4> QED BY <4>4, <4>5, <4>6
    <3> HIDE DEF k
    <3>4. Fit(k, actors', made', config)
      BY <1>1, <1>2, <2>2, <3>3 DEF Fit, On
    <3> QED BY <1>1, <1>4, <3>1, <3>3, <3>4, CallChanges
  <2> QED BY <2>1, <2>2
<1> QED BY <1>1, <1>4, QuietRInv

LEMMA MakePolicyRInv ==
  ASSUME RInv, NEW c \in Calls, MakePolicy(c)
  PROVE  RInv'
<1>1. /\ UNCHANGED <<config, channel, holder, client, dials, bundles, made>>
      /\ call[c].at = "policy" /\ NewPolicy(On(c)) /\ Goes(c, "bundle")
  BY DEF MakePolicy, In, clientVars
<1>2. /\ WorldTypeOK' /\ ActorsMade' /\ BundlesMade' /\ Grows
      /\ actors'[On(c)] # None
  BY <1>1, NewPolicyWorld
<1>3. call[c].op = "create" /\ call[c].uid = 1
  BY <1>1 DEF RInv, CallsFit, Fit
<1>4. CallsFit'
  BY <1>1, <1>2, <1>3, Moves DEF Places
<1> QED BY <1>1, <1>2, <1>4, DialsSame DEF RInv

LEMMA BuildBundleRInv ==
  ASSUME RInv, NEW c \in Calls, BuildBundle(c)
  PROVE  RInv'
<1>1. /\ UNCHANGED <<config, channel, holder, client, dials>>
      /\ UNCHANGED <<actors, bundles, made>> /\ call[c].at = "bundle"
  BY DEF BuildBundle, In, clientVars, world
<1>2. Fit(call[c], actors, made, config)
  BY DEF RInv, CallsFit
<1>3. ASSUME Grows PROVE CallsFit'
  <2>1. CASE Goes(c, "put")
    BY <1>1, <1>2, <1>3, <2>1, Moves DEF Fit, On, Places
  <2>2. CASE Answer(c, "failed_precondition")
    BY <1>1, <1>3, <2>2, Answers DEF Codes
  <2> QED BY <2>1, <2>2 DEF BuildBundle
<1> QED BY <1>1, <1>3, QuietRInv

LEMMA PutBundleRInv ==
  ASSUME RInv, NEW c \in Calls, PutBundle(c)
  PROVE  RInv'
<1> DEFINE n == On(c)
           b == Build(call[c].request, config.gateway, call[c].uid)
<1>1. /\ UNCHANGED <<config, channel, holder, client, dials, actors, made>>
      /\ call[c].at = "put" /\ Answer(c, "ok")
      /\ bundles' = [bundles EXCEPT ![n] = b]
  BY DEF PutBundle, In, clientVars
<1>2. n \in Names /\ actors[n] # None
  BY <1>1 DEF RInv, CallsFit, Fit, On
<1> HIDE DEF b
<1>3. /\ DOMAIN bundles' = Names
      /\ \A m \in Names : bundles'[m] = IF m = n THEN b ELSE bundles[m]
  BY <1>1, <1>2 DEF RInv, WorldTypeOK
<1>4. WorldTypeOK' /\ ActorsMade' /\ BundlesMade' /\ Grows
  BY <1>1, <1>2, <1>3 DEF RInv, WorldTypeOK, ActorsMade, BundlesMade, Grows
<1>5. CallsFit'
  BY <1>1, <1>4, Answers DEF Codes
<1> QED BY <1>1, <1>4, <1>5, DialsSame DEF RInv

LEMMA PutFailsRInv ==
  ASSUME RInv, NEW c \in Calls, PutFails(c)
  PROVE  RInv'
<1>1. /\ UNCHANGED <<config, channel, holder, client, dials>>
      /\ UNCHANGED <<actors, bundles, made>>
      /\ call[c].at = "put" /\ Answer(c, "internal")
  BY DEF PutFails, In, world
<1>2. ASSUME Grows PROVE CallsFit'
  BY <1>1, <1>2, Answers DEF Codes
<1> QED BY <1>1, <1>2, QuietRInv

LEMMA RpcFailsRInv ==
  ASSUME RInv, NEW c \in Calls, RpcFails(c)
  PROVE  RInv'
<1>1. /\ UNCHANGED <<config, channel, holder, client, dials>>
      /\ call[c].at \in RpcPlaces /\ Answer(c, "rpc")
  BY DEF RpcFails
<1>2. \/ UNCHANGED <<actors, bundles, made>>
      \/ call[c].at = "actor" /\ NewActor(c) /\ bundles' = bundles
      \/ call[c].at = "policy" /\ NewPolicy(On(c)) /\ UNCHANGED <<bundles, made>>
  BY <1>1 DEF RpcFails, RpcPlaces, world
<1>3. WorldTypeOK' /\ ActorsMade' /\ BundlesMade' /\ Grows
  BY <1>1, <1>2, WorldSame, NewActorWorld, NewPolicyWorld
<1>4. CallsFit'
  BY <1>1, <1>3, Answers DEF RpcPlaces, Codes
<1> QED BY <1>1, <1>3, <1>4, DialsSame DEF RInv

LEMMA EndsRInv ==
  ASSUME RInv, NEW c \in Calls, Ends(c), UNCHANGED world
  PROVE  RInv'
<1>1. /\ UNCHANGED <<config, actors, bundles, made>> /\ Release(c)
      /\ call' = [call EXCEPT ![c] = Free]
  BY DEF Ends, Release, world
<1>2. Dialing'
  BY <1>1, ReleaseDials DEF RInv
<1> QED BY <1>1, <1>2, WorldSame, Frees DEF RInv

LEMMA ClientRInv ==
  ASSUME RInv, NEW c \in Calls, ClientStep(c) \/ ClientFails(c),
         UNCHANGED <<calls, world>>
  PROVE  RInv'
<1>1. UNCHANGED <<config, call, actors, bundles, made>>
  BY DEF ClientStep, LoadAuth, Peek, Relock, LoadTls, Connect, ClientFails, Fails, calls, world
<1>2. Dialing'
  BY ClientStepDials, ClientFailsDials DEF RInv
<1>3. CallsFit'
  BY <1>1 DEF RInv, CallsFit
<1> QED BY <1>1, <1>2, <1>3, WorldSame DEF RInv

LEMMA RestartRInv ==
  ASSUME RInv, Restart
  PROVE  RInv'
<1>1. /\ config' \in Loaded /\ client' = [c \in Calls |-> NoClient] /\ dials' = 0
      /\ holder' = None
      /\ channel' \in BOOLEAN /\ ~channel'
      /\ call' = [c \in Calls |-> Free]
      /\ UNCHANGED <<actors, bundles, made>>
  BY DEF Restart, ClientRestart, world
<1>2. NoClient \in Client /\ NoClient.at = "idle" /\ Free \in CallRecord
  BY DEF NoClient, Client, Free, CallRecord, Codes, Places, Ops
<1>3. Dialing'
  BY <1>1, <1>2 DEF Dialing
<1>4. Fit(Free, actors', made', config')
  BY DEF Fit, Free
<1>5. CallsFit'
  BY <1>1, <1>2, <1>4 DEF CallsFit
<1>6. WorldTypeOK' /\ ActorsMade' /\ BundlesMade'
  BY <1>1 DEF RInv, WorldTypeOK, ActorsMade, BundlesMade
<1> QED BY <1>3, <1>5, <1>6 DEF RInv

LEMMA StepRInv ==
  ASSUME RInv, NEW c \in Calls, Step(c)
  PROVE  RInv'
BY ClientRInv, GotClientRInv, ReadRInv, MakeActorRInv, GetUidRInv, MakePolicyRInv,
   BuildBundleRInv, PutBundleRInv, EndsRInv DEF Step, Return

LEMMA NextRInv == RInv /\ [Next]_vars => RInv'
<1> SUFFICES ASSUME RInv, [Next]_vars PROVE RInv'
  OBVIOUS
<1>1. CASE UNCHANGED vars
  <2>1. /\ UNCHANGED <<config, channel, holder, client, dials, call>>
        /\ UNCHANGED <<actors, bundles, made>>
    BY <1>1 DEF vars, clientVars, calls, world
  <2>2. CallsFit'
    BY <2>1 DEF RInv, CallsFit
  <2> QED BY <2>1, <2>2, QuietRInv
<1>2. CASE Restart
  BY <1>2, RestartRInv
<1>3. ASSUME NEW c \in Calls,
             \/ \E op \in Ops : \E r \in Request(op) : Call(c, op, r)
             \/ Step(c) \/ GoldenFails(c) \/ RpcFails(c) \/ PutFails(c) \/ Cancel(c)
             \/ ClientFails(c) /\ UNCHANGED <<calls, world>>
      PROVE  RInv'
  BY <1>3, CallRInv, StepRInv, ReadRInv, RpcFailsRInv, PutFailsRInv, EndsRInv, ClientRInv
     DEF Cancel
<1> QED BY <1>1, <1>2, <1>3 DEF Next

THEOREM RequestInvariant == Spec => []RInv
BY InitRInv, NextRInv, PTL DEF Spec

-----------------------------------------------------------------------------
(* What follows                                                            *)

(* The container that takes a request's image is the same in every         *)
(* template that says the same, so the image is.                           *)
LEMMA SameNameSameInputs ==
  ASSUME NEW r1, NEW cfg1 \in Loaded, NEW r2, NEW cfg2 \in Loaded,
         NameFor(r1, cfg1) = NameFor(r2, cfg2)
  PROVE  /\ r1.image = r2.image /\ cfg1.selector = cfg2.selector
         /\ ResourcesFor(r1, cfg1) = ResourcesFor(r2, cfg2)
<1> DEFINE f1 == cfg1.fragment
           f2 == cfg2.fragment
           s1 == {i \in DOMAIN f1.containers : f1.containers[i].name = SandboxContainer}
<1>1. Synthesize(r1, cfg1) = Synthesize(r2, cfg2)
  BY DEF NameFor
<1>2. /\ cfg1.selector = cfg2.selector
      /\ ResourcesFor(r1, cfg1) = ResourcesFor(r2, cfg2)
      /\ Containers(r1, f1) = Containers(r2, f2)
  BY <1>1 DEF Synthesize
<1>3. /\ s1 # {} /\ s1 \subseteq Nat
      /\ Len(f1.containers) \in Nat
      /\ DOMAIN f1.containers = 1..Len(f1.containers)
  BY DEF Loaded, Loads, FragmentAccepted
<1>4. PICK i \in s1 : \A j \in s1 : i <= j
  BY <1>3, Least
<1>5. /\ DOMAIN f2.containers = DOMAIN f1.containers
      /\ \A j \in DOMAIN f1.containers : f2.containers[j].name = f1.containers[j].name
  BY <1>2 DEF Containers
<1>6. \A j \in 1..(i - 1) : f1.containers[j].name # SandboxContainer
  BY <1>3, <1>4
<1>7. Containers(r1, f1)[i].image = r1.image
  BY <1>4, <1>6 DEF Containers
<1>8. /\ i \in DOMAIN f2.containers /\ f2.containers[i].name = SandboxContainer
      /\ \A j \in 1..(i - 1) : f2.containers[j].name # SandboxContainer
  <2>1. i \in DOMAIN f1.containers /\ i \in Nat
    BY <1>3, <1>4
  <2>2. \A j \in 1..(i - 1) : j \in DOMAIN f1.containers
    BY <1>3, <2>1
  <2>3. f1.containers[i].name = SandboxContainer
    BY <1>4
  <2> QED BY <1>5, <1>6, <2>1, <2>2, <2>3
<1>9. Containers(r2, f2)[i].image = r2.image
  BY <1>8 DEF Containers
<1> QED BY <1>2, <1>7, <1>9

(* However many calls find no channel at once, wherever dials fail and     *)
(* calls are dropped, a process opens at most one channel, and has it for  *)
(* all once it is opened (control_client looks again under the lock).      *)
THEOREM DialsOnce == Spec => []OneChannel
<1>1. RInv => OneChannel
  BY DEF RInv, Dialing, OneChannel
<1> QED BY <1>1, RequestInvariant, PTL

(* The lock of the channel is never left behind: whoever holds it is in    *)
(* the middle of dialing, and there is no channel yet (the guard goes with *)
(* the block or with the dropped future, control_client).                  *)
THEOREM LockDials ==
  Spec => [](holder # None => /\ holder \in Calls /\ ~channel
                              /\ client[holder].at \in {"tls", "connect"})
<1>1. RInv => (holder # None => /\ holder \in Calls /\ ~channel
                                /\ client[holder].at \in {"tls", "connect"})
  BY DEF RInv, Dialing
<1> QED BY <1>1, RequestInvariant, PTL

(* For any requests and configurations: actors share a template exactly as *)
(* far as they ask for the same (name_for hashes what synthesize makes of  *)
(* the request, and nothing of the sandbox's identity or environment).     *)
THEOREM TemplatesShared == Spec => []SharesByInputs
<1>1. RInv => SharesByInputs
  <2> SUFFICES ASSUME RInv, NEW n \in Names, NEW o \in Names,
                      actors[n] # None, actors[o] # None
               PROVE  LET a == made[n]  b == made[o] IN
                      /\ Alike(a.request, a.config, b.request, b.config) =>
                           actors[n].template = actors[o].template
                      /\ actors[n].template = actors[o].template =>
                           /\ a.request.image = b.request.image
                           /\ ResourcesFor(a.request, a.config)
                                = ResourcesFor(b.request, b.config)
                           /\ a.config.selector = b.config.selector
    BY DEF SharesByInputs
  <2>1. /\ made[n].config \in Loaded /\ made[o].config \in Loaded
        /\ actors[n].template = NameFor(made[n].request, made[n].config)
        /\ actors[o].template = NameFor(made[o].request, made[o].config)
    BY DEF RInv, ActorsMade
  <2> QED BY <2>1, AlikeSameName, SameNameSameInputs
<1> QED BY <1>1, RequestInvariant, PTL

(* However calls repeat and race, only a create that asks for something    *)
(* else than the actor of its name was made for is told that it exists     *)
(* (create_sandbox compares the template of an actor it finds).            *)
THEOREM RetriesFindTheirs == Spec => []RetryFindsItsOwn
<1>1. RInv => RetryFindsItsOwn
  BY DEF RInv, CallsFit, Fit, RetryFindsItsOwn, On
<1> QED BY <1>1, RequestInvariant, PTL

(* An actor's template has what its request says to the digit, and a       *)
(* create is refused for its limits only if no positive i64 says them: for *)
(* any requests, not for the few of a run (cpu_millicores, memory_bytes    *)
(* and validate_substrate_sandbox, template.rs:178-228).                   *)
THEOREM LimitsAreExact == Spec => []LimitsExact
<1>1. RInv => LimitsExact
  <2> SUFFICES ASSUME RInv PROVE LimitsExact
    OBVIOUS
  <2>1. ASSUME NEW n \in Names, actors[n] # None
        PROVE  LET r == made[n].request  cfg == made[n].config
                   limits == actors[n].template[2].limits IN
               /\ Worth(limits.cpu, r.cpu, CpuUnits(r.cpu), cfg.fragment.cpu, cfg.cpu)
               /\ Worth(limits.memory, r.memory, MemoryUnits(r.memory),
                        cfg.fragment.memory, cfg.memory)
    <3>1. /\ made[n].request \in Creates /\ made[n].config \in Configs
          /\ Admit(made[n].request, made[n].config) = "ok"
          /\ actors[n].template = NameFor(made[n].request, made[n].config)
      BY <2>1 DEF RInv, ActorsMade, Loaded
    <3>2. actors[n].template[2].limits = ResourcesFor(made[n].request, made[n].config)
      BY <3>1 DEF NameFor, Synthesize
    <3> QED BY <3>1, <3>2, LimitsGiven
  <2>2. ASSUME NEW c \in Calls, call[c].op = "create",
               call[c].answer = "invalid_argument"
        PROVE  LET r == call[c].request IN
               \/ r.image \notin Pinned \/ (r.id = Blank /\ r.name = Blank)
               \/ ~CpuExpressible(r.cpu) \/ ~MemoryExpressible(r.memory)
    <3>1. /\ call[c].request \in Creates /\ config \in Configs
          /\ Admit(call[c].request, config) = "invalid_argument"
      BY <2>2 DEF RInv, WorldTypeOK, CallsFit, Fit, Request, Loaded
    <3> QED BY <3>1, LimitsRefused
  <2> QED BY <2>1, <2>2 DEF LimitsExact
<1> QED BY <1>1, RequestInvariant, PTL

-----------------------------------------------------------------------------
(* Types                                                                   *)

(* Every template is that of a request that was admitted.                  *)
TemplatesMade ==
  \A t \in DOMAIN templates : \E r \in Creates, cfg \in Loaded :
    Admit(r, cfg) = "ok" /\ templates[t] = Synthesize(r, cfg)

Counts == begun \in 0..MaxCalls /\ faults \in 0..MaxFaults /\ atespace \in BOOLEAN

LEMMA NextTemplates == RInv /\ TemplatesMade /\ [Next]_vars => TemplatesMade'
<1> SUFFICES ASSUME RInv, TemplatesMade, [Next]_vars PROVE TemplatesMade'
  OBVIOUS
<1>1. CASE UNCHANGED templates
  BY <1>1 DEF TemplatesMade
<1>2. ASSUME NEW c \in Calls, call[c].at = "template", templates' = WithTemplate(c)
      PROVE  TemplatesMade'
  <2>1. /\ call[c].request \in Creates /\ config \in Loaded
        /\ Admit(call[c].request, config) = "ok"
    BY <1>2 DEF RInv, WorldTypeOK, CallsFit, Fit, Request
  <2> QED BY <1>2, <2>1 DEF TemplatesMade, WithTemplate
<1>3. ASSUME NEW c \in Calls, NEW gone,
             templates' = [t \in DOMAIN templates \ gone |-> templates[t]]
      PROVE  TemplatesMade'
  BY <1>3 DEF TemplatesMade
<1>4. \/ UNCHANGED templates
      \/ \E c \in Calls : call[c].at = "template" /\ templates' = WithTemplate(c)
      \/ \E c \in Calls : \E gone \in SUBSET {Template(c)} :
           templates' = [t \in DOMAIN templates \ gone |-> templates[t]]
  <2>1. CASE UNCHANGED vars \/ Restart
    BY <2>1 DEF vars, world, Restart
  <2>2. ASSUME NEW c \in Calls, NEW op, NEW r, Call(c, op, r) PROVE UNCHANGED templates
    BY <2>2 DEF Call, world
  <2>3. ASSUME NEW c \in Calls, Step(c)
        PROVE  \/ UNCHANGED templates
               \/ call[c].at = "template" /\ templates' = WithTemplate(c)
    BY <2>3 DEF Step, world, GotClient, MakeTemplate, In, Golden, MakeActor, GetUid,
       MakePolicy, BuildBundle, PutBundle, Get, List, LookWorkspace, MakeWorkspace, Return
  <2>4. ASSUME NEW c \in Calls, RpcFails(c)
        PROVE  \/ UNCHANGED templates
               \/ call[c].at = "template" /\ templates' = WithTemplate(c)
    BY <2>4 DEF RpcFails, world
  <2>5. ASSUME NEW c \in Calls, GoldenFails(c)
        PROVE  \/ UNCHANGED templates
               \/ \E gone \in SUBSET {Template(c)} :
                    templates' = [t \in DOMAIN templates \ gone |-> templates[t]]
    BY <2>5 DEF GoldenFails
  <2> QED BY <2>1, <2>2, <2>3, <2>4, <2>5 DEF Next, PutFails, Cancel, world
<1> QED BY <1>1, <1>2, <1>3, <1>4

LEMMA NextCounts == Counts /\ [Next]_vars => Counts'
<1> SUFFICES ASSUME Counts, [Next]_vars PROVE Counts'
  OBVIOUS
<1>1. begun' \in 0..MaxCalls
  <2>1. ASSUME NEW c \in Calls, NEW op, NEW r, Call(c, op, r)
        PROVE  begun < MaxCalls /\ begun' = begun + 1
    BY <2>1 DEF Call
  <2>2. ASSUME NEW c \in Calls,
               Step(c) \/ GoldenFails(c) \/ RpcFails(c) \/ PutFails(c) \/ Cancel(c)
        PROVE  begun' = begun
    BY <2>2 DEF calls, Step, GotClient, MakeTemplate, Golden, MakeActor, GetUid,
       MakePolicy, BuildBundle, PutBundle, Get, List, LookWorkspace, MakeWorkspace, Return,
       GoldenFails, RpcFails, PutFails, Cancel, Ends, Goes, Answer
  <2>3. UNCHANGED vars \/ Restart => begun' = begun
    BY DEF vars, calls, Restart
  <2>4. begun' = begun \/ (begun < MaxCalls /\ begun' = begun + 1)
    <3>1. CASE UNCHANGED vars \/ Restart
      BY <2>3, <3>1
    <3>2. CASE \E c \in Calls : \E op \in Ops : \E r \in Request(op) : Call(c, op, r)
      BY <2>1, <3>2
    <3>3. CASE \E c \in Calls : Step(c) \/ GoldenFails(c) \/ RpcFails(c) \/ PutFails(c) \/ Cancel(c)
      BY <2>2, <3>3
    <3>4. CASE \E c \in Calls : ClientFails(c) /\ UNCHANGED <<calls, world>>
      BY <3>4 DEF calls
    <3> QED BY <3>1, <3>2, <3>3, <3>4 DEF Next
  <2> QED BY <2>4 DEF Counts
<1>2. faults' \in 0..MaxFaults
  <2>1. ASSUME NEW c \in Calls, ClientStep(c) PROVE faults' = faults
    BY <2>1 DEF ClientStep, LoadAuth, Peek, Relock, LoadTls, Connect
  <2>2. ASSUME NEW c \in Calls, Step(c) PROVE faults' = faults
    BY <2>1, <2>2 DEF Step, clientVars, GotClient, MakeTemplate, Golden, MakeActor, GetUid,
       MakePolicy, BuildBundle, PutBundle, Get, List, LookWorkspace, MakeWorkspace, Return
  <2>3. ASSUME NEW c \in Calls, GoldenFails(c) \/ RpcFails(c) \/ PutFails(c) \/ Cancel(c)
        PROVE  Fault
    BY <2>3 DEF GoldenFails, RpcFails, PutFails, Cancel
  <2>4. ASSUME NEW c \in Calls, ClientFails(c) PROVE faults' = faults \/ Fault
    BY <2>4 DEF ClientFails
  <2>5. ASSUME NEW c \in Calls, NEW op \in Ops, NEW r \in Request(op), Call(c, op, r)
        PROVE  faults' = faults
    BY <2>5 DEF Call, Want, clientVars
  <2>6. UNCHANGED vars => faults' = faults
    BY DEF vars, clientVars
  <2>7. Restart => Fault
    BY DEF Restart, ClientRestart
  <2>8. faults' = faults \/ Fault
    <3>1. CASE UNCHANGED vars \/ Restart
      BY <2>6, <2>7, <3>1
    <3>2. CASE \E c \in Calls : \E op \in Ops : \E r \in Request(op) : Call(c, op, r)
      BY <2>5, <3>2
    <3>3. CASE \E c \in Calls : Step(c)
      BY <2>2, <3>3
    <3>4. CASE \E c \in Calls : GoldenFails(c) \/ RpcFails(c) \/ PutFails(c) \/ Cancel(c)
      BY <2>3, <3>4
    <3>5. CASE \E c \in Calls : ClientFails(c)
      BY <2>4, <3>5
    <3> QED BY <3>1, <3>2, <3>3, <3>4, <3>5 DEF Next
  <2> QED BY <2>8 DEF Counts, Fault
<1>3. atespace' \in BOOLEAN
  <2>1. atespace' \in {atespace, TRUE}
    BY DEF Next, vars, world, Restart, Call, Step, GotClient, MakeTemplate, Golden,
       MakeActor, GetUid, MakePolicy, BuildBundle, PutBundle, Get, List, LookWorkspace,
       MakeWorkspace, Return, GoldenFails, RpcFails, PutFails, Cancel
  <2> QED BY <2>1 DEF Counts
<1> QED BY <1>1, <1>2, <1>3 DEF Counts

(* Calls, templates, actors, bundles and the counters have their types, in *)
(* particular the limits of every template are positive i64s and no bundle *)
(* is stored before its actor is made (create_sandbox's order of calls).   *)
THEOREM TypeCorrect == Spec => []TypeOK
<1> DEFINE Inv == RInv /\ TemplatesMade /\ Counts
<1>1. Init => Inv
  <2>1. Init => TemplatesMade /\ Counts
    <3>1. Init => DOMAIN templates = {}
      BY DEF Init
    <3>2. Init => begun = 0 /\ faults = 0 /\ atespace = FALSE
      BY DEF Init, ClientInit
    <3>3. Init => TemplatesMade
      BY <3>1 DEF TemplatesMade
    <3>4. 0 \in 0..MaxCalls /\ 0 \in 0..MaxFaults
      OBVIOUS
    <3> QED BY <3>2, <3>3, <3>4 DEF Counts
  <2> QED BY <2>1, InitRInv
<1>2. Inv /\ [Next]_vars => Inv'
  BY NextRInv, NextTemplates, NextCounts
<1>3. Inv => TypeOK
  <2> SUFFICES ASSUME Inv PROVE TypeOK
    OBVIOUS
  <2>1. ClientTypeOK
    BY DEF RInv, Counts, WorldTypeOK, Dialing, ClientTypeOK, Loaded
  <2>2. ASSUME NEW c \in Calls
        PROVE  /\ call[c].op \in Ops \cup {"none"}
               /\ call[c].op # "none" => call[c].request \in Request(call[c].op)
               /\ call[c].at \in RpcPlaces \cup {"idle", "client", "bundle", "put",
                               "answered"}
               /\ call[c].uid \in 0..1
    BY DEF RInv, CallsFit, CallRecord, Fit, Places, RpcPlaces
  <2>3. ASSUME NEW t \in DOMAIN templates
        PROVE  /\ DOMAIN templates[t] = {"selector", "containers", "snapshot", "limits"}
               /\ templates[t].limits \in [cpu: 1..MaxInt, memory: 1..MaxInt]
    <3>1. PICK r \in Creates, cfg \in Loaded :
            Admit(r, cfg) = "ok" /\ templates[t] = Synthesize(r, cfg)
      BY DEF TemplatesMade
    <3>2. ResourcesFor(r, cfg) \in [cpu: 1..MaxInt, memory: 1..MaxInt]
      BY <3>1, LimitsGiven DEF Loaded
    <3> QED BY <3>1, <3>2 DEF Synthesize
  <2>4. ASSUME NEW n \in Names, actors[n] # None
        PROVE  actors[n].rules \in {{}} \cup {cfg.rules : cfg \in Loaded}
    BY <2>4 DEF RInv, WorldTypeOK, Actor
  <2>5. ASSUME NEW n \in Names, bundles[n] # None PROVE actors[n] # None
    BY <2>5 DEF RInv, BundlesMade
  <2> QED BY <2>1, <2>2, <2>3, <2>4, <2>5 DEF TypeOK, Counts
<1> QED BY <1>1, <1>2, <1>3, PTL DEF Spec
=============================================================================
