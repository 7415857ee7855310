---------------------------- MODULE AlsaCodecProofs ----------------------------
(***************************************************************************)
(* What the control path of the sound card keeps, for every set of         *)
(* callers, volumes, extended writes and rates: the search for the clock,  *)
(* and the register writes bit by bit.                                     *)
(***************************************************************************)
EXTENDS AlsaCodec, SetInduction, SequenceTheorems

(***************************************************************************)
(* The search for the prescaler.                                           *)
(***************************************************************************)
(* One round of the search: prescaler k is tried. *)
Try(fs, least, k) ==
  IF Abs(Rate(k), fs) < least.min THEN [min |-> Abs(Rate(k), fs), pre |-> k] ELSE least

None == [min |-> 65535, pre |-> 0]

IsSearch(s, fs, n) ==
  s = [i \in 0 .. n |-> IF i = 0 THEN None ELSE Try(fs, s[i - 1], i - 1)]

(* The search goes through any number of rounds. *)
LEMMA SearchExists ==
  ASSUME NEW fs, NEW n \in Nat
  PROVE  \E s : IsSearch(s, fs, n)
<1> DEFINE T == { k \in Nat : \E s : IsSearch(s, fs, k) }
<1>1. 0 \in T
  <2>1. IsSearch([i \in 0 .. 0 |-> None], fs, 0)
    BY DEF IsSearch
  <2> QED BY <2>1
<1>2. ASSUME NEW k \in T PROVE k + 1 \in T
  <2>1. PICK s : IsSearch(s, fs, k)
    OBVIOUS
  <2> DEFINE t == [i \in 0 .. k + 1 |-> IF i = k + 1 THEN Try(fs, s[k], k) ELSE s[i]]
  <2>2. ASSUME NEW i \in 0 .. k + 1
        PROVE  t[i] = IF i = 0 THEN None ELSE Try(fs, t[i - 1], i - 1)
    <3>1. CASE i = k + 1
      BY <3>1
    <3>2. CASE i # k + 1
      <4>1. i \in 0 .. k /\ t[i] = s[i] /\ (i # 0 => t[i - 1] = s[i - 1])
        BY <3>2
      <4> QED BY <2>1, <4>1 DEF IsSearch
    <3> QED BY <3>1, <3>2
  <2>3. IsSearch(t, fs, k + 1)
    BY <2>2 DEF IsSearch
  <2> QED BY <2>3
<1>3. T \subseteq Nat
  OBVIOUS
<1> HIDE DEF T
<1>4. T = Nat
  BY <1>1, <1>2, <1>3, NatSetInduction
<1> QED BY <1>4 DEF T

(* The rounds of Prescaler. *)
LEMMA SearchRounds ==
  ASSUME NEW fs
  PROVE  \E s : IsSearch(s, fs, 32) /\ Prescaler(fs) = s[32].pre
<1> DEFINE Round(s) == [i \in 0 .. 32 |->
              IF i = 0 THEN [min |-> 65535, pre |-> 0]
              ELSE LET d == Abs(Rate(i - 1), fs)
                       least == s[i - 1]
                   IN  IF d < least.min THEN [min |-> d, pre |-> i - 1] ELSE least]
           search == CHOOSE s : s = Round(s)
<1>1. Prescaler(fs) = search[32].pre
  BY DEF Prescaler
<1>2. \A s : IsSearch(s, fs, 32) <=> s = Round(s)
  BY DEF IsSearch, Try, None
<1>3. \E s : s = Round(s)
  <2>1. \E s : IsSearch(s, fs, 32)
    <3>1. 32 \in Nat
      OBVIOUS
    <3> QED BY <3>1, SearchExists, Zenon
  <2> HIDE DEF Round
  <2> QED BY <1>2, <2>1, Zenon
<1> HIDE DEF Round
<1>4. search = Round(search)
  BY <1>3, Zenon
<1> QED BY <1>1, <1>2, <1>4, Zenon

(* Distances are naturals. *)
LEMMA Distance ==
  ASSUME NEW fs \in Nat, NEW i \in Nat
  PROVE  Abs(Rate(i), fs) \in Nat
<1>1. Rate(i) \in Int
  BY ClockAssumption DEF Rate
<1> QED BY <1>1 DEF Abs

(* The search finds a prescaler, and none comes closer. *)
LEMMA PrescalerNearest ==
  ASSUME NEW fs \in Nat
  PROVE  /\ Prescaler(fs) \in 0 .. 31
         /\ (\E i \in 0 .. 31 : Abs(Rate(i), fs) < 65535) =>
              \A i \in 0 .. 31 : Abs(Rate(Prescaler(fs)), fs) <= Abs(Rate(i), fs)
<1> DEFINE D(i) == Abs(Rate(i), fs)
<1>1. PICK s : IsSearch(s, fs, 32) /\ Prescaler(fs) = s[32].pre
  BY SearchRounds
<1>2. ASSUME NEW i \in 0 .. 31 PROVE D(i) \in Nat
  <2>1. i \in Nat
    OBVIOUS
  <2> QED BY <2>1, Distance, Zenon
<1>3. /\ s[0] = [min |-> 65535, pre |-> 0]
      /\ \A i \in 0 .. 31 :
           s[i + 1] = IF D(i) < s[i].min THEN [min |-> D(i), pre |-> i] ELSE s[i]
  <2>1. \A i \in 0 .. 32 : s[i] = IF i = 0 THEN None ELSE Try(fs, s[i - 1], i - 1)
    BY <1>1, Zenon DEF IsSearch
  <2>2. ASSUME NEW i \in 0 .. 31
        PROVE  s[i + 1] = Try(fs, s[i], i)
    <3>1. i + 1 \in 0 .. 32 /\ i + 1 # 0 /\ (i + 1) - 1 = i
      OBVIOUS
    <3> QED BY <2>1, <3>1
  <2>3. 0 \in 0 .. 32
    OBVIOUS
  <2> QED BY <2>1, <2>2, <2>3 DEF None, Try
<1> HIDE DEF D
<1> DEFINE Found(n) ==
      /\ s[n].min \in Nat /\ s[n].min <= 65535 /\ s[n].pre \in 0 .. 31
      /\ s[n].min # 65535 => s[n].min = D(s[n].pre)
      /\ \A j \in 0 .. n - 1 : s[n].min <= D(j)
           T == { n \in Nat : n <= 32 => Found(n) }
<1>4. Found(0)
  <2>1. s[0].min = 65535 /\ s[0].pre = 0
    BY <1>3, SMT
  <2>2. \A j \in 0 .. 0 - 1 : s[0].min <= D(j)
    BY SMT
  <2> QED BY <2>1, <2>2, SMT
<1>5. ASSUME NEW n \in 0 .. 31, Found(n) PROVE Found(n + 1)
  <2>1. s[n + 1] = IF D(n) < s[n].min THEN [min |-> D(n), pre |-> n] ELSE s[n]
    BY <1>3, SMTT(30)
  <2>2. D(n) \in Nat
    BY <1>2
  <2>3. \A j \in 0 .. (n + 1) - 1 : j \in 0 .. n - 1 \/ j = n
    OBVIOUS
  <2>4. \A j \in 0 .. n - 1 : D(j) \in Nat
    BY <1>2
  <2>5. CASE D(n) < s[n].min
    BY <1>5, <2>1, <2>2, <2>3, <2>4, <2>5
  <2>6. CASE ~(D(n) < s[n].min)
    BY <1>5, <2>1, <2>2, <2>3, <2>6
  <2> QED BY <2>5, <2>6
<1> HIDE DEF Found
<1>6. Found(32)
  <2>1. 0 \in T /\ T \subseteq Nat /\ \A n \in T : n + 1 \in T
    BY <1>4, <1>5
  <2> HIDE DEF T
  <2>2. T = Nat
    BY <2>1, NatSetInduction
  <2> QED BY <2>2 DEF T
<1>7. ASSUME NEW k \in 0 .. 31, D(k) < 65535, NEW i \in 0 .. 31
      PROVE  D(Prescaler(fs)) <= D(i)
  <2>1. s[32].min <= D(k) /\ s[32].min <= D(i) /\ s[32].min \in Nat /\ s[32].min <= 65535
    BY <1>6 DEF Found
  <2>2. D(k) \in Nat
    BY <1>2
  <2>3. s[32].min # 65535
    BY <1>7, <2>1, <2>2
  <2>4. D(Prescaler(fs)) = s[32].min
    BY <1>1, <1>6, <2>3 DEF Found
  <2> QED BY <2>1, <2>4
<1>8. Prescaler(fs) \in 0 .. 31
  BY <1>1, <1>6 DEF Found
<1>9. (\E k \in 0 .. 31 : D(k) < 65535) => \A i \in 0 .. 31 : D(Prescaler(fs)) <= D(i)
  BY <1>7
<1> QED BY <1>8, <1>9 DEF D

(* Whatever the clock and the rate of the stream, no other prescaler is closer. *)
THEOREM NearestRateHolds == Spec => []NearestRate
<1> DEFINE Set == rate # 0 => rate \in Rates /\ iispsr = Prescaler(rate)
<1>1. Init => Set
  BY DEF Init
<1>2. Set /\ [Next]_vars => Set'
  <2> SUFFICES ASSUME Set, [Next]_vars PROVE Set'
    OBVIOUS
  <2>1. UNCHANGED iis \/ \E fs \in Rates : s3c2440_i2s_hw_params(fs)
    BY DEF Next, vars, soc_probe, put_vol, codec_reg, Enter, SaveInCache, SetLine, LastLine,
           Garble
  <2>2. ASSUME NEW fs \in Rates, s3c2440_i2s_hw_params(fs) PROVE Set'
    BY <2>2 DEF s3c2440_i2s_hw_params
  <2>3. CASE UNCHANGED iis
    BY <2>3 DEF iis
  <2> QED BY <2>1, <2>2, <2>3
<1>3. Set => NearestRate
  <2> SUFFICES ASSUME Set, rate # 0, NEW i \in 0 .. 31
               PROVE  Abs(Rate(iispsr), rate) <= Abs(Rate(i), rate)
    BY DEF NearestRate
  <2>1. rate \in Nat /\ \E k \in 0 .. 31 : Abs(Rate(k), rate) < 65535
    <3>1. rate \in Rates /\ rate \in Nat
      BY ClockAssumption
    <3> QED BY <3>1, ReachAssumption
  <2>2. \A k \in 0 .. 31 : Abs(Rate(Prescaler(rate)), rate) <= Abs(Rate(k), rate)
    BY <2>1, PrescalerNearest
  <2> QED BY <2>2
<1> QED BY <1>1, <1>2, <1>3, PTL DEF Spec

(***************************************************************************)
(* Bits.                                                                   *)
(***************************************************************************)
LEMMA Powers ==
  /\ 2^0 = 1 /\ 2^1 = 2 /\ 2^2 = 4 /\ 2^3 = 8 /\ 2^4 = 16 /\ 2^5 = 32 /\ 2^6 = 64
  /\ 2^7 = 128 /\ 2^8 = 256 /\ 2^9 = 512 /\ 2^10 = 1024 /\ 2^11 = 2048 /\ 2^12 = 4096
  /\ 2^13 = 8192 /\ 2^14 = 16384 /\ 2^15 = 32768
  BY SMT

(* Dividing by twice a number is dividing by it and halving. *)
LEMMA DivTwice ==
  ASSUME NEW x \in Nat, NEW d \in Nat \ {0}
  PROVE  x \div (2 * d) = (x \div d) \div 2
<1>1. PICK q \in Nat, r \in Nat : x = q * d + r /\ r < d /\ q = x \div d
  <2>1. x \div d \in Nat
    OBVIOUS
  <2>2. x = (x \div d) * d + (x % d) /\ (x % d) \in 0 .. d - 1
    OBVIOUS
  <2> QED BY <2>1, <2>2
<1>2. PICK h \in Nat, e \in 0 .. 1 : q = 2 * h + e /\ h = q \div 2
  <2>1. q \div 2 \in Nat /\ (q % 2) \in 0 .. 1 /\ q = 2 * (q \div 2) + (q % 2)
    OBVIOUS
  <2> QED BY <2>1
<1>3. e * d + r \in 0 .. 2 * d - 1
  BY <1>1, <1>2
<1>4. x = h * (2 * d) + (e * d + r)
  BY <1>1, <1>2
<1>5. x \div (2 * d) = h
  BY <1>3, <1>4
<1> QED BY <1>1, <1>2, <1>5

(* Each power of 2 is twice the one before. *)
LEMMA DoublePower ==
  ASSUME NEW i \in 0 .. 15
  PROVE  2^(i + 1) = 2 * 2^i /\ 2^i \in Nat \ {0}
<1>1. \/ i = 0 \/ i = 1 \/ i = 2 \/ i = 3 \/ i = 4 \/ i = 5 \/ i = 6 \/ i = 7
      \/ i = 8 \/ i = 9 \/ i = 10 \/ i = 11 \/ i = 12 \/ i = 13 \/ i = 14 \/ i = 15
  OBVIOUS
<1>2. /\ 2^(0 + 1) = 2 * 2^0 /\ 2^(1 + 1) = 2 * 2^1 /\ 2^(2 + 1) = 2 * 2^2
      /\ 2^(3 + 1) = 2 * 2^3 /\ 2^(4 + 1) = 2 * 2^4 /\ 2^(5 + 1) = 2 * 2^5
      /\ 2^(6 + 1) = 2 * 2^6 /\ 2^(7 + 1) = 2 * 2^7 /\ 2^(8 + 1) = 2 * 2^8
      /\ 2^(9 + 1) = 2 * 2^9 /\ 2^(10 + 1) = 2 * 2^10 /\ 2^(11 + 1) = 2 * 2^11
      /\ 2^(12 + 1) = 2 * 2^12 /\ 2^(13 + 1) = 2 * 2^13 /\ 2^(14 + 1) = 2 * 2^14
      /\ 2^(15 + 1) = 2 * 2^15
  BY SMT
<1>3. /\ 2^0 \in Nat \ {0} /\ 2^1 \in Nat \ {0} /\ 2^2 \in Nat \ {0} /\ 2^3 \in Nat \ {0}
      /\ 2^4 \in Nat \ {0} /\ 2^5 \in Nat \ {0} /\ 2^6 \in Nat \ {0} /\ 2^7 \in Nat \ {0}
      /\ 2^8 \in Nat \ {0} /\ 2^9 \in Nat \ {0} /\ 2^10 \in Nat \ {0} /\ 2^11 \in Nat \ {0}
      /\ 2^12 \in Nat \ {0} /\ 2^13 \in Nat \ {0} /\ 2^14 \in Nat \ {0} /\ 2^15 \in Nat \ {0}
  BY SMT
<1> QED BY <1>1, <1>2, <1>3, Zenon

(* A bit is 0 or 1. *)
LEMMA BitType ==
  ASSUME NEW x \in Nat, NEW i \in 0 .. 15
  PROVE  Bit(x, i) \in 0 .. 1
<1>1. \A d \in Nat \ {0} : (x \div d) \in Int
  OBVIOUS
<1>2. \A y \in Int : (y % 2) \in 0 .. 1
  OBVIOUS
<1> QED BY <1>1, <1>2, DoublePower, Zenon DEF Bit

(* A number shifted right by i, from that shifted one more. *)
LEMMA BitStep ==
  ASSUME NEW x \in Nat, NEW i \in 0 .. 15
  PROVE  x \div 2^i = (x \div 2^(i + 1)) * 2 + Bit(x, i)
<1>1. \A d \in Nat \ {0} : (x \div d) \in Nat
  OBVIOUS
<1>2. \A y \in Nat : y = (y \div 2) * 2 + (y % 2)
  OBVIOUS
<1>3. 2^i \in Nat \ {0} /\ x \div 2^(i + 1) = (x \div 2^i) \div 2
  BY DoublePower, DivTwice, Zenon
<1> QED BY <1>1, <1>2, <1>3, Zenon DEF Bit

(* The values of the prefixes of a byte, first bit lowest. *)
IsValue(v, b, n) == v = [i \in 0 .. n |-> IF i = 0 THEN 0 ELSE v[i - 1] + b[i] * 2^(i - 1)]

(* The sum over the first n bits is defined, for any n. *)
LEMMA ValueExists ==
  ASSUME NEW b, NEW n \in Nat
  PROVE  \E v : IsValue(v, b, n)
<1> DEFINE T == { k \in Nat : \E v : IsValue(v, b, k) }
<1>1. 0 \in T
  <2>1. IsValue([i \in 0 .. 0 |-> 0], b, 0)
    BY DEF IsValue
  <2> QED BY <2>1
<1>2. ASSUME NEW k \in T PROVE k + 1 \in T
  <2>1. PICK v : IsValue(v, b, k)
    OBVIOUS
  <2> DEFINE t == [i \in 0 .. k + 1 |->
                     IF i = k + 1 THEN v[k] + b[k + 1] * 2^k ELSE v[i]]
  <2>2. ASSUME NEW i \in 0 .. k + 1
        PROVE  t[i] = IF i = 0 THEN 0 ELSE t[i - 1] + b[i] * 2^(i - 1)
    <3>1. CASE i = k + 1
      <4>1. i # 0 /\ i - 1 = k /\ t[i - 1] = v[k] /\ t[i] = v[k] + b[k + 1] * 2^k
        BY <3>1
      <4> QED BY <3>1, <4>1, Zenon
    <3>2. CASE i # k + 1
      <4>1. i \in 0 .. k /\ t[i] = v[i] /\ (i # 0 => t[i - 1] = v[i - 1])
        BY <3>2
      <4>2. v[i] = IF i = 0 THEN 0 ELSE v[i - 1] + b[i] * 2^(i - 1)
        BY <2>1, <4>1, Zenon DEF IsValue
      <4> QED BY <4>1, <4>2, Zenon
    <3> QED BY <3>1, <3>2
  <2>3. IsValue(t, b, k + 1)
    BY <2>2, Zenon DEF IsValue
  <2> QED BY <2>3
<1>3. T \subseteq Nat
  OBVIOUS
<1> HIDE DEF T
<1>4. T = Nat
  BY <1>1, <1>2, <1>3, NatSetInduction
<1> QED BY <1>4 DEF T

(* The sum, unfolded for a byte. *)
LEMMA ValueOfEight ==
  ASSUME NEW b \in Seq(0 .. 1), Len(b) = 8
  PROVE  Value(b) = b[1] + 2 * b[2] + 4 * b[3] + 8 * b[4] + 16 * b[5] + 32 * b[6]
                      + 64 * b[7] + 128 * b[8]
<1> DEFINE Fold(v) == [i \in 0 .. 8 |-> IF i = 0 THEN 0 ELSE v[i - 1] + b[i] * 2^(i - 1)]
           v == CHOOSE v : v = Fold(v)
<1>1. Value(b) = v[8]
  BY DEF Value
<1>2. v = Fold(v)
  <2>1. \E u : IsValue(u, b, 8)
    <3>1. 8 \in Nat
      OBVIOUS
    <3> QED BY <3>1, ValueExists, Zenon
  <2>2. \E u : u = Fold(u)
    BY <2>1, Zenon DEF IsValue
  <2> HIDE DEF Fold
  <2> QED BY <2>2, Zenon
<1> HIDE DEF v
<1>3. \A i \in 0 .. 8 : v[i] = IF i = 0 THEN 0 ELSE v[i - 1] + b[i] * 2^(i - 1)
  BY <1>2, Zenon
<1>4. /\ v[0] = 0 /\ v[1] = v[0] + b[1] * 2^0 /\ v[2] = v[1] + b[2] * 2^1
      /\ v[3] = v[2] + b[3] * 2^2 /\ v[4] = v[3] + b[4] * 2^3 /\ v[5] = v[4] + b[5] * 2^4
      /\ v[6] = v[5] + b[6] * 2^5 /\ v[7] = v[6] + b[7] * 2^6 /\ v[8] = v[7] + b[8] * 2^7
  BY <1>3
<1>5. /\ b[1] \in 0 .. 1 /\ b[2] \in 0 .. 1 /\ b[3] \in 0 .. 1 /\ b[4] \in 0 .. 1
      /\ b[5] \in 0 .. 1 /\ b[6] \in 0 .. 1 /\ b[7] \in 0 .. 1 /\ b[8] \in 0 .. 1
  <2>1. \A i \in 1 .. 8 : b[i] \in 0 .. 1
    BY ElementOfSeq, Zenon
  <2> QED BY <2>1
<1> QED BY <1>1, <1>4, <1>5, Powers

(* A byte is the sum of its bits. *)
LEMMA SumOfBits ==
  ASSUME NEW x \in Nat, x < 256
  PROVE  x = ((x \div 1) % 2) + 2 * ((x \div 2) % 2) + 4 * ((x \div 4) % 2)
               + 8 * ((x \div 8) % 2) + 16 * ((x \div 16) % 2) + 32 * ((x \div 32) % 2)
               + 64 * ((x \div 64) % 2) + 128 * ((x \div 128) % 2)
  OBVIOUS

(* Eight bits give a byte, and the bits of a byte give that byte. *)
LEMMA ValueOfByte ==
  ASSUME NEW b \in Seq(0 .. 1), Len(b) = 8
  PROVE  /\ Value(b) \in Nat /\ Value(b) < 256
         /\ \A byte \in Nat : byte < 256 /\ (\A i \in 1 .. 8 : b[i] = Bit(byte, i - 1))
                                => Value(b) = byte
<1>1. /\ b[1] \in 0 .. 1 /\ b[2] \in 0 .. 1 /\ b[3] \in 0 .. 1 /\ b[4] \in 0 .. 1
      /\ b[5] \in 0 .. 1 /\ b[6] \in 0 .. 1 /\ b[7] \in 0 .. 1 /\ b[8] \in 0 .. 1
  <2>1. \A i \in 1 .. 8 : b[i] \in 0 .. 1
    BY ElementOfSeq, Zenon
  <2> QED BY <2>1
<1>2. PICK b1 \in 0 .. 1, b2 \in 0 .. 1, b3 \in 0 .. 1, b4 \in 0 .. 1, b5 \in 0 .. 1,
           b6 \in 0 .. 1, b7 \in 0 .. 1, b8 \in 0 .. 1 :
        /\ b1 = b[1] /\ b2 = b[2] /\ b3 = b[3] /\ b4 = b[4]
        /\ b5 = b[5] /\ b6 = b[6] /\ b7 = b[7] /\ b8 = b[8]
  BY <1>1, Zenon
<1>3. Value(b) = b1 + 2 * b2 + 4 * b3 + 8 * b4 + 16 * b5 + 32 * b6 + 64 * b7 + 128 * b8
  BY <1>2, ValueOfEight, Zenon
<1>4. ASSUME NEW byte \in Nat, byte < 256, \A i \in 1 .. 8 : b[i] = Bit(byte, i - 1)
      PROVE  Value(b) = byte
  <2>1. /\ b[1] = Bit(byte, 0) /\ b[2] = Bit(byte, 1) /\ b[3] = Bit(byte, 2)
        /\ b[4] = Bit(byte, 3) /\ b[5] = Bit(byte, 4) /\ b[6] = Bit(byte, 5)
        /\ b[7] = Bit(byte, 6) /\ b[8] = Bit(byte, 7)
    BY <1>4
  <2>2. /\ b1 = (byte \div 1) % 2 /\ b2 = (byte \div 2) % 2 /\ b3 = (byte \div 4) % 2
        /\ b4 = (byte \div 8) % 2 /\ b5 = (byte \div 16) % 2 /\ b6 = (byte \div 32) % 2
        /\ b7 = (byte \div 64) % 2 /\ b8 = (byte \div 128) % 2
    <3>1. /\ b1 = Bit(byte, 0) /\ b2 = Bit(byte, 1) /\ b3 = Bit(byte, 2) /\ b4 = Bit(byte, 3)
          /\ b5 = Bit(byte, 4) /\ b6 = Bit(byte, 5) /\ b7 = Bit(byte, 6) /\ b8 = Bit(byte, 7)
      BY <1>2, <2>1, Zenon
    <3> QED BY <3>1, Powers DEF Bit
  <2>3. byte = b1 + 2 * b2 + 4 * b3 + 8 * b4 + 16 * b5 + 32 * b6 + 64 * b7 + 128 * b8
    BY <1>4, <2>2, SumOfBits
  <2> QED BY <1>3, <2>3
<1>5. Value(b) \in Nat /\ Value(b) < 256
  BY <1>3
<1> QED BY <1>4, <1>5
(* The values of the prefixes of a word, first bit highest. *)
IsWord(v, b, n) == v = [i \in 0 .. n |-> IF i = 0 THEN 0 ELSE v[i - 1] * 2 + b[i]]

(* The same for the word, for any number of bits. *)
LEMMA WordExists ==
  ASSUME NEW b, NEW n \in Nat
  PROVE  \E v : IsWord(v, b, n)
<1> DEFINE T == { k \in Nat : \E v : IsWord(v, b, k) }
<1>1. 0 \in T
  <2>1. IsWord([i \in 0 .. 0 |-> 0], b, 0)
    BY DEF IsWord
  <2> QED BY <2>1
<1>2. ASSUME NEW k \in T PROVE k + 1 \in T
  <2>1. PICK v : IsWord(v, b, k)
    OBVIOUS
  <2> DEFINE t == [i \in 0 .. k + 1 |-> IF i = k + 1 THEN v[k] * 2 + b[k + 1] ELSE v[i]]
  <2>2. ASSUME NEW i \in 0 .. k + 1
        PROVE  t[i] = IF i = 0 THEN 0 ELSE t[i - 1] * 2 + b[i]
    <3>1. CASE i = k + 1
      <4>1. i # 0 /\ i - 1 = k /\ t[i - 1] = v[k] /\ t[i] = v[k] * 2 + b[k + 1]
        BY <3>1
      <4> QED BY <3>1, <4>1, Zenon
    <3>2. CASE i # k + 1
      <4>1. i \in 0 .. k /\ t[i] = v[i] /\ (i # 0 => t[i - 1] = v[i - 1])
        BY <3>2
      <4>2. v[i] = IF i = 0 THEN 0 ELSE v[i - 1] * 2 + b[i]
        BY <2>1, <4>1, Zenon DEF IsWord
      <4> QED BY <4>1, <4>2, Zenon
    <3> QED BY <3>1, <3>2
  <2>3. IsWord(t, b, k + 1)
    BY <2>2, Zenon DEF IsWord
  <2> QED BY <2>3
<1>3. T \subseteq Nat
  OBVIOUS
<1> HIDE DEF T
<1>4. T = Nat
  BY <1>1, <1>2, <1>3, NatSetInduction
<1> QED BY <1>4 DEF T

Words == { x \in Nat : x < 65536 }

(* Sixteen bits give a word, and the bits of a word give that word. *)
LEMMA WordOfBits ==
  ASSUME NEW b \in Seq(0 .. 1), Len(b) = 16
  PROVE  /\ Word(b) \in Words
         /\ \A x \in Words : (\A i \in 1 .. 16 : b[i] = Bit(x, 16 - i)) => Word(b) = x
<1> DEFINE Fold(v) == [i \in 0 .. 16 |-> IF i = 0 THEN 0 ELSE v[i - 1] * 2 + b[i]]
           v == CHOOSE v : v = Fold(v)
<1>1. Word(b) = v[16]
  BY DEF Word
<1>2. v = Fold(v)
  <2>1. \E u : IsWord(u, b, 16)
    <3>1. 16 \in Nat
      OBVIOUS
    <3> QED BY <3>1, WordExists, Zenon
  <2>2. \E u : u = Fold(u)
    BY <2>1, Zenon DEF IsWord
  <2> HIDE DEF Fold
  <2> QED BY <2>2, Zenon
<1> HIDE DEF v
<1>3. \A i \in 0 .. 16 : v[i] = IF i = 0 THEN 0 ELSE v[i - 1] * 2 + b[i]
  BY <1>2, Zenon
<1>4. v[0] = 0 /\ \A i \in 0 .. 15 : v[i + 1] = v[i] * 2 + b[i + 1]
  BY <1>3
<1>5. \A i \in 1 .. 16 : b[i] \in 0 .. 1
  BY ElementOfSeq, Zenon
<1> DEFINE Small(k) == v[k] \in Nat /\ v[k] < 2^k
           T == { k \in Nat : k <= 16 => Small(k) }
<1>6. Small(16)
  <2>1. Small(0)
    BY <1>4, Powers
  <2>2. ASSUME NEW k \in 0 .. 15, Small(k) PROVE Small(k + 1)
    <3>1. v[k + 1] = v[k] * 2 + b[k + 1]
      BY <1>4
    <3>2. b[k + 1] \in 0 .. 1
      <4>1. k + 1 \in 1 .. 16
        OBVIOUS
      <4> QED BY <1>5, <4>1, Zenon
    <3>3. 2^(k + 1) = 2 * 2^k /\ 2^k \in Nat
      BY DoublePower
    <3> QED BY <2>2, <3>1, <3>2, <3>3
  <2> HIDE DEF Small
  <2>3. 0 \in T /\ T \subseteq Nat /\ \A k \in T : k + 1 \in T
    BY <2>1, <2>2
  <2> HIDE DEF T
  <2>4. T = Nat
    BY <2>3, NatSetInduction
  <2> QED BY <2>4 DEF T
<1>7. ASSUME NEW x \in Nat, x < 65536, \A i \in 1 .. 16 : b[i] = Bit(x, 16 - i)
      PROVE  v[16] = x
  <2> DEFINE Top(k) == v[k] = x \div 2^(16 - k)
             U == { k \in Nat : k <= 16 => Top(k) }
  <2>1. Top(0)
    <3>1. 2^(16 - 0) = 65536 /\ x \div 65536 = 0
      BY <1>7
    <3> QED BY <1>4, <3>1
  <2>2. ASSUME NEW k \in 0 .. 15, Top(k) PROVE Top(k + 1)
    <3>1. 15 - k \in 0 .. 15 /\ 16 - k = (15 - k) + 1 /\ 16 - (k + 1) = 15 - k
      OBVIOUS
    <3>2. x \div 2^(15 - k) = (x \div 2^(16 - k)) * 2 + Bit(x, 15 - k)
      BY <3>1, BitStep, Zenon
    <3>3. b[k + 1] = Bit(x, 15 - k)
      <4>1. k + 1 \in 1 .. 16
        OBVIOUS
      <4>2. b[k + 1] = Bit(x, 16 - (k + 1))
        BY <1>7, <4>1
      <4> QED BY <3>1, <4>2
    <3>4. v[k + 1] = v[k] * 2 + b[k + 1]
      BY <1>4
    <3> QED BY <2>2, <3>1, <3>2, <3>3, <3>4, Zenon
  <2> HIDE DEF Top
  <2>3. 0 \in U /\ U \subseteq Nat /\ \A k \in U : k + 1 \in U
    BY <2>1, <2>2
  <2> HIDE DEF U
  <2>4. U = Nat
    BY <2>3, NatSetInduction
  <2>5. Top(16)
    BY <2>4 DEF U
  <2>6. 2^(16 - 16) = 1 /\ x \div 1 = x
    OBVIOUS
  <2> QED BY <2>5, <2>6, Zenon DEF Top
<1>8. 2^16 = 65536
  BY SMT
<1> QED BY <1>1, <1>6, <1>7, <1>8 DEF Words

(***************************************************************************)
(* The writes.                                                             *)
(***************************************************************************)
(* What the drivers write: values that leave the bits of the address clear. *)
UdaLegal == ((0 .. 2) \X (0 .. 63)) \cup ((10 .. 11) \X (0 .. 127)) \cup (EA \X (0 .. 31))
WmLegal  == Regs \X (0 .. 511)
Legal    == IF codec = "uda1341" THEN UdaLegal ELSE WmLegal

ResetReg == IF codec = "uda1341" THEN 10 ELSE 0

(* One setting of a line in the middle of sendbyte, after k of the 24. *)
ByteSetting(byte, k) ==
  IF k % 3 = 0 THEN <<"clk", 0>>
  ELSE IF k % 3 = 1 THEN <<"dat", Bit(byte, k \div 3)>>
  ELSE <<"clk", 1>>

(* The setting of l3_write after p of its 56. *)
L3Setting(addr, data, p) ==
  IF p \in {0, 53} THEN <<"clk", 1>>
  ELSE IF p \in {1, 54} THEN <<"dat", 1>>
  ELSE IF p = 3 THEN <<"mode", 0>>
  ELSE IF p \in {2, 28, 55} THEN <<"mode", 1>>
  ELSE IF p < 28 THEN ByteSetting(addr, p - 4)
  ELSE ByteSetting(data, p - 29)

(* Of uda1341_write_reg, with n settings left: the address and the data of *)
(* the write on the bus, and the settings it has made.                     *)
L3Addr(w) == IF w[1] \in EA THEN 20 ELSE uda1341_reg_addr(w[1])

L3Data(w, n) ==
  IF w[1] \in EA
  THEN IF n > 56 THEN uda1341_reg_addr(w[1]) + 192 ELSE w[2] + 224
  ELSE w[2] + uda1341_data_bit(w[1])

L3Made(n) == IF n > 56 THEN 112 - n ELSE 56 - n

(* The word that wm8976_write_reg shifts out, and its setting after p of 55. *)
WmWord(w) == w[1] * 512 + w[2]

WmSetting(word, p) ==
  IF p \in {0, 52} THEN <<"mode", 1>>
  ELSE IF p = 51 THEN <<"mode", 0>>
  ELSE IF p \in {1, 53} THEN <<"dat", 1>>
  ELSE IF p \in {2, 54} THEN <<"clk", 1>>
  ELSE IF p % 3 = 0 THEN <<"clk", 0>>
  ELSE IF p % 3 = 1 THEN <<"dat", Bit(word, 16 - (p \div 3))>>
  ELSE <<"clk", 1>>

Setting == {"mode", "dat", "clk"} \X (0 .. 1)

(* The length of the write of w, and its setting when n are left. *)
Length(w) == IF codec = "wm8976" THEN 55 ELSE IF w[1] \in EA THEN 112 ELSE 56

SettingLeft(w, n) ==
  IF codec = "wm8976" THEN WmSetting(WmWord(w), 55 - n)
  ELSE L3Setting(L3Addr(w), L3Data(w, n), L3Made(n))

(***************************************************************************)
(* The inductive invariant.                                                *)
(***************************************************************************)
(* The chip waits for the start of a write. *)
Idle ==
  /\ lines["mode"] = 1
  /\ codec = "uda1341" => lines["clk"] = 1 /\ bits = <<>>

(* The clock while a bit is sent, k settings into the byte or the word, and *)
(* the data line when the bit is b.                                         *)
BitSent(k, b) ==
  /\ lines["clk"] = IF k % 3 = 0 THEN 1 ELSE 0
  /\ k % 3 = 2 => lines["dat"] = b

(* k settings into a byte the uda1341 has received k \div 3 of its bits. *)
ByteSent(byte, k) ==
  /\ BitSent(k, Bit(byte, k \div 3))
  /\ Len(bits) = k \div 3
  /\ \A i \in 1 .. k \div 3 : bits[i] = Bit(byte, i - 1)

(* Before the setting p of l3_write. *)
L3Place(addr, data, p) ==
  /\ p \in 1 .. 3 => lines["clk"] = 1
  /\ p = 3 => lines["mode"] = 1
  /\ p \in 4 .. 27 => lines["mode"] = 0 /\ ByteSent(addr, p - 4)
  /\ p = 28 => lines["mode"] = 0 /\ lines["clk"] = 1 /\ bits = <<>>
  /\ p \in 29 .. 52 => lines["mode"] = 1 /\ ByteSent(data, p - 29)
  /\ p \in 28 .. 55 => sel = addr
  /\ p \in 53 .. 55 => Idle

(* Whatever overlapping calls have left, the second setting of mode ends.   *)
UdaStep(w, n) ==
  LET p == L3Made(n)
  IN  /\ L3Place(L3Addr(w), L3Data(w, n), p)
      /\ p \in 0 .. 3 => (settled = {} /\ (w[1] \in EA => n > 56)) \/ Idle
      /\ w[1] \in EA /\ (n <= 56 \/ p >= 53) => ext = uda1341_reg_addr(w[1])
      /\ p >= 53 /\ n <= 56 => chip[w[1]] = w[2]

(* The last j bits received are the first j of the word. *)
BitsSent(word, j) ==
  /\ Len(bits) >= j
  /\ \A i \in 1 .. j : bits[Len(bits) - j + i] = Bit(word, 16 - i)

(* Before the setting p of wm8976_write_reg. *)
WmPlace(word, p) ==
  /\ p \in 1 .. 51 \cup 53 .. 54 => lines["mode"] = 1
  /\ p = 52 => lines["mode"] = 0
  /\ p \in 3 .. 51 => /\ BitSent(p - 3, Bit(word, 16 - (p \div 3)))
                     /\ BitsSent(word, (p - 3) \div 3)
  /\ p = 52 => BitsSent(word, 16)

WmStep(w, n) ==
  LET p == 55 - n
  IN  /\ WmPlace(WmWord(w), p)
      /\ p = 0 => settled = {} \/ Idle
      /\ p >= 53 => chip[w[1]] = w[2]

(* A write of its own whose script is under way. *)
InStep(c) ==
  LET w == todo[c][1]
      n == Len(script[c])
  IN  /\ n \in 1 .. Length(w)
      /\ \A i \in 1 .. n : script[c][i] = SettingLeft(w, n - i + 1)
      /\ cache[w[1]] = w[2] % 256
      /\ IF codec = "wm8976" THEN WmStep(w, n) ELSE UdaStep(w, n)

(* A volume that was put is on its way, or has arrived. *)
Put(v) == IF codec = "uda1341" THEN uda1341_put_vol(v) ELSE wm8976_put_vol(v)

OnItsWay(w) ==
  \/ \E c \in Callers : \E i \in 1 .. Len(todo[c]) : todo[c][i] = w
  \/ w[1] \in settled \ Writing /\ chip[w[1]] = w[2]

Control ==
  /\ codec \in Codecs
  /\ todo \in [Callers -> Seq(Legal)] /\ script \in [Callers -> Seq(Setting)]
  /\ \A c \in Callers : script[c] # <<>> => todo[c] # <<>>
  /\ ready => \A c \in Callers : \A i \in 1 .. Len(todo[c]) : todo[c][i][1] # ResetReg
  /\ ~ready => alone /\ wanted = <<>>
  /\ alone => \A c, d \in Busy : c = d
  /\ ~alone => settled = {} /\ wanted = <<>>

Receiving ==
  alone => IF \E c \in Callers : script[c] # <<>>
           THEN \A c \in Callers : script[c] # <<>> => InStep(c)
           ELSE settled = {} \/ Idle

Wanted ==
  wanted # <<>> =>
    /\ wanted \in Volumes
    /\ \A j \in 1 .. Len(Put(wanted)) :
         /\ OnItsWay(Put(wanted)[j])
         /\ \A c \in Callers : \A i \in 1 .. Len(todo[c]) :
              todo[c][i][1] = Put(wanted)[j][1] => todo[c][i] = Put(wanted)[j]

UdaBits == codec = "uda1341" => Len(bits) <= 7

IInv == TypeOK /\ Control /\ Receiving /\ ChipFollowsCache /\ Wanted /\ UdaBits

(***************************************************************************)
(* The settings of a write, one by one.                                    *)
(***************************************************************************)
LEMMA ByteSettingType ==
  ASSUME NEW byte \in Nat, NEW k \in 0 .. 23
  PROVE  ByteSetting(byte, k) \in Setting
<1>1. Bit(byte, k \div 3) \in 0 .. 1
  <2>1. k \div 3 \in 0 .. 15
    OBVIOUS
  <2> QED BY <2>1, BitType, Zenon
<1> QED BY <1>1 DEF ByteSetting, Setting

(* A function on 1 .. n is a sequence of that length. *)
LEMMA FunctionIsSeq ==
  ASSUME NEW S, NEW n \in Nat, NEW f \in [1 .. n -> S]
  PROVE  f \in Seq(S) /\ Len(f) = n
<1>1. f \in Seq(S)
  BY SeqDef
<1>2. Len(f) \in Nat /\ 1 .. n = 1 .. Len(f)
  BY <1>1, LenProperties
<1> QED BY <1>1, <1>2

(* sendbyte makes twenty-four settings, of which each is known by its place. *)
LEMMA SendByte ==
  ASSUME NEW byte \in Nat
  PROVE  /\ sendbyte(byte) \in Seq(Setting) /\ Len(sendbyte(byte)) = 24
         /\ \A k \in 1 .. 24 : sendbyte(byte)[k] = ByteSetting(byte, k - 1)
<1>1. ASSUME NEW k \in 1 .. 24 PROVE sendbyte(byte)[k] = ByteSetting(byte, k - 1)
  <2>1. CASE k % 3 = 1
    BY <2>1 DEF sendbyte, ByteSetting, set_clk
  <2>2. CASE k % 3 = 2
    BY <2>2 DEF sendbyte, ByteSetting, set_dat
  <2>3. CASE k % 3 = 0
    BY <2>3 DEF sendbyte, ByteSetting, set_clk
  <2> QED BY <2>1, <2>2, <2>3
<1>2. ASSUME NEW k \in 1 .. 24 PROVE sendbyte(byte)[k] \in Setting
  <2>1. k - 1 \in 0 .. 23
    OBVIOUS
  <2> QED BY <1>1, <2>1, ByteSettingType
<1>3. sendbyte(byte) \in [1 .. 24 -> Setting]
  BY <1>2 DEF sendbyte
<1>4. sendbyte(byte) \in Seq(Setting) /\ Len(sendbyte(byte)) = 24
  <2>1. 24 \in Nat
    OBVIOUS
  <2> QED BY <1>3, <2>1, FunctionIsSeq, Zenon
<1> QED BY <1>1, <1>4

(* So does l3_write, fifty-six. *)
LEMMA L3Write ==
  ASSUME NEW addr \in Nat, NEW data \in Nat
  PROVE  /\ l3_write(addr, data) \in Seq(Setting) /\ Len(l3_write(addr, data)) = 56
         /\ \A i \in 1 .. 56 : l3_write(addr, data)[i] = L3Setting(addr, data, i - 1)
<1> DEFINE A == <<set_clk(1), set_dat(1), set_mod(1), set_mod(0)>>
           B == sendbyte(addr)
           C == <<set_mod(1)>>
           D == sendbyte(data)
           End == <<set_clk(1), set_dat(1), set_mod(1)>>
<1>1. A \in Seq(Setting) /\ Len(A) = 4
  BY DEF Setting, set_clk, set_dat, set_mod
<1>2. C \in Seq(Setting) /\ Len(C) = 1
  BY DEF Setting, set_mod
<1>3. End \in Seq(Setting) /\ Len(End) = 3
  BY DEF Setting, set_clk, set_dat, set_mod
<1>4. /\ A[1] = <<"clk", 1>> /\ A[2] = <<"dat", 1>> /\ A[3] = <<"mode", 1>>
      /\ A[4] = <<"mode", 0>> /\ C[1] = <<"mode", 1>>
      /\ End[1] = <<"clk", 1>> /\ End[2] = <<"dat", 1>> /\ End[3] = <<"mode", 1>>
  BY DEF set_clk, set_dat, set_mod
<1>5. B \in Seq(Setting) /\ Len(B) = 24 /\ D \in Seq(Setting) /\ Len(D) = 24
  BY SendByte
<1>6. /\ \A k \in 1 .. 24 : B[k] = ByteSetting(addr, k - 1)
      /\ \A k \in 1 .. 24 : D[k] = ByteSetting(data, k - 1)
  BY SendByte
<1> HIDE DEF A, B, C, D, End
<1> DEFINE AB == A \o B
           ABC == AB \o C
           ABCD == ABC \o D
           W == ABCD \o End
<1> HIDE DEF AB, ABC, ABCD, W
<1>7. /\ AB \in Seq(Setting) /\ Len(AB) = 28
      /\ \A i \in 1 .. 28 : AB[i] = IF i <= 4 THEN A[i] ELSE B[i - 4]
  <2>1. /\ AB \in Seq(Setting) /\ Len(AB) = Len(A) + Len(B)
        /\ \A i \in 1 .. Len(A) + Len(B) :
             AB[i] = IF i <= Len(A) THEN A[i] ELSE B[i - Len(A)]
    BY <1>1, <1>5, ConcatProperties, Zenon DEF AB
  <2>2. Len(A) = 4 /\ Len(B) = 24 /\ 4 + 24 = 28
    BY <1>1, <1>5
  <2> QED BY <2>1, <2>2
<1>8. /\ ABC \in Seq(Setting) /\ Len(ABC) = 29
      /\ \A i \in 1 .. 29 : ABC[i] = IF i <= 28 THEN AB[i] ELSE C[i - 28]
  <2>1. /\ ABC \in Seq(Setting) /\ Len(ABC) = Len(AB) + Len(C)
        /\ \A i \in 1 .. Len(AB) + Len(C) :
             ABC[i] = IF i <= Len(AB) THEN AB[i] ELSE C[i - Len(AB)]
    BY <1>2, <1>7, ConcatProperties, Zenon DEF ABC
  <2>2. Len(AB) = 28 /\ Len(C) = 1 /\ 28 + 1 = 29
    BY <1>2, <1>7
  <2> QED BY <2>1, <2>2
<1>9. /\ ABCD \in Seq(Setting) /\ Len(ABCD) = 53
     /\ \A i \in 1 .. 53 : ABCD[i] = IF i <= 29 THEN ABC[i] ELSE D[i - 29]
  <2>1. /\ ABCD \in Seq(Setting) /\ Len(ABCD) = Len(ABC) + Len(D)
        /\ \A i \in 1 .. Len(ABC) + Len(D) :
             ABCD[i] = IF i <= Len(ABC) THEN ABC[i] ELSE D[i - Len(ABC)]
    BY <1>5, <1>8, ConcatProperties, Zenon DEF ABCD
  <2>2. Len(ABC) = 29 /\ Len(D) = 24 /\ 29 + 24 = 53
    BY <1>5, <1>8
  <2> QED BY <2>1, <2>2
<1>10. /\ W \in Seq(Setting) /\ Len(W) = 56
      /\ \A i \in 1 .. 56 : W[i] = IF i <= 53 THEN ABCD[i] ELSE End[i - 53]
  <2>1. /\ W \in Seq(Setting) /\ Len(W) = Len(ABCD) + Len(End)
        /\ \A i \in 1 .. Len(ABCD) + Len(End) :
             W[i] = IF i <= Len(ABCD) THEN ABCD[i] ELSE End[i - Len(ABCD)]
    <3>1. ABCD \in Seq(Setting)
      BY <1>9, Zenon
    <3>2. End \in Seq(Setting)
      BY <1>3, Zenon
    <3>3. W = ABCD \o End
      BY Zenon DEF W
    <3>4. Len(W) = Len(ABCD) + Len(End)
      BY <3>1, <3>2, <3>3, ConcatProperties, Zenon
    <3>5. W \in Seq(Setting)
      BY <3>1, <3>2, <3>3, ConcatProperties, Zenon
    <3> QED BY <3>1, <3>2, <3>3, <3>4, <3>5, ConcatProperties, Zenon
  <2>2. Len(ABCD) = 53 /\ Len(End) = 3 /\ 53 + 3 = 56
    BY <1>3, <1>9
  <2> QED BY <2>1, <2>2
<1>11. /\ W[1] = A[1] /\ W[2] = A[2] /\ W[3] = A[3] /\ W[4] = A[4] /\ W[29] = C[1]
       /\ W[54] = End[1] /\ W[55] = End[2] /\ W[56] = End[3]
       /\ \A k \in 1 .. 24 : W[k + 4] = B[k] /\ W[k + 29] = D[k]
  <2>1. /\ \A i \in 1 .. 28 : AB[i] = IF i <= 4 THEN A[i] ELSE B[i - 4]
        /\ \A i \in 1 .. 29 : ABC[i] = IF i <= 28 THEN AB[i] ELSE C[i - 28]
        /\ \A i \in 1 .. 53 : ABCD[i] = IF i <= 29 THEN ABC[i] ELSE D[i - 29]
        /\ \A i \in 1 .. 56 : W[i] = IF i <= 53 THEN ABCD[i] ELSE End[i - 53]
    BY <1>7, <1>8, <1>9, <1>10, Zenon
  <2>2. \A i \in 1 .. 29 : W[i] = ABC[i]
    BY <2>1
  <2>3. \A i \in 1 .. 28 : W[i] = AB[i]
    BY <2>1, <2>2
  <2>4. /\ W[1] = A[1] /\ W[2] = A[2] /\ W[3] = A[3] /\ W[4] = A[4]
    BY <2>1, <2>3
  <2>5. W[29] = C[1] /\ W[54] = End[1] /\ W[55] = End[2] /\ W[56] = End[3]
    BY <2>1, <2>2
  <2>6. ASSUME NEW k \in 1 .. 24 PROVE W[k + 4] = B[k] /\ W[k + 29] = D[k]
    <3>1. k + 4 \in 1 .. 28 /\ ~(k + 4 <= 4) /\ (k + 4) - 4 = k
      OBVIOUS
    <3>2. k + 29 \in 1 .. 53 /\ ~(k + 29 <= 29) /\ (k + 29) - 29 = k /\ k + 29 \in 1 .. 56
      OBVIOUS
    <3> QED BY <2>1, <2>3, <3>1, <3>2
  <2> QED BY <2>4, <2>5, <2>6
<1>12. ASSUME NEW i \in 1 .. 56 PROVE W[i] = L3Setting(addr, data, i - 1)
  <2>1. CASE i \in 1 .. 4
    <3>1. i = 1 \/ i = 2 \/ i = 3 \/ i = 4
      BY <2>1
    <3> QED BY <1>4, <1>11, <3>1 DEF L3Setting
  <2>2. CASE i \in 5 .. 28
    <3>1. W[i] = ByteSetting(addr, i - 5)
      <4>1. i - 4 \in 1 .. 24 /\ (i - 4) + 4 = i /\ (i - 4) - 1 = i - 5
        BY <2>2
      <4> QED BY <1>6, <1>11, <4>1
    <3> QED BY <2>2, <3>1 DEF L3Setting
  <2>3. CASE i = 29
    BY <1>4, <1>11, <2>3 DEF L3Setting
  <2>4. CASE i \in 30 .. 53
    <3>1. W[i] = ByteSetting(data, i - 30)
      <4>1. i - 29 \in 1 .. 24 /\ (i - 29) + 29 = i /\ (i - 29) - 1 = i - 30
        BY <2>4
      <4> QED BY <1>6, <1>11, <4>1
    <3> QED BY <2>4, <3>1 DEF L3Setting
  <2>5. CASE i \in 54 .. 56
    <3>1. i = 54 \/ i = 55 \/ i = 56
      BY <2>5
    <3> QED BY <1>4, <1>11, <3>1 DEF L3Setting
  <2> QED BY <2>1, <2>2, <2>3, <2>4, <2>5
<1>13. l3_write(addr, data) = W
  BY DEF l3_write, W, ABCD, ABC, AB, A, B, C, D, End
<1> QED BY <1>10, <1>12, <1>13

(***************************************************************************)
(* The uda1341 sees one setting.                                           *)
(***************************************************************************)
WireTypes ==
  /\ lines \in [{"mode", "dat", "clk"} -> 0 .. 1]
  /\ bits \in Seq(0 .. 1)
  /\ sel \in 0 .. 255 /\ ext \in 0 .. 31
  /\ chip \in [Regs -> 0 .. 511]
  /\ settled \subseteq Regs

Still == UNCHANGED <<sel, ext, chip, settled>>

(* A setting that is neither an edge of mode nor a rise of clk changes nothing. *)
LEMMA SameLine ==
  ASSUME NEW line, NEW v, NEW c, UdaSees(line, v, c),
         ~(line = "mode" /\ v # lines["mode"]),
         ~(line = "clk" /\ lines["clk"] = 0 /\ v = 1)
  PROVE  bits' = bits /\ Still
  BY SMT DEF UdaSees, Quiet, Still

(* An edge of the mode line throws the bits away. *)
LEMMA ModeChanges ==
  ASSUME NEW v, NEW c, UdaSees("mode", v, c), v # lines["mode"]
  PROVE  bits' = <<>> /\ Still
  BY SMT DEF UdaSees, Quiet, Still

(* What a bit adds to those received. *)
LEMMA OneMore ==
  ASSUME NEW s \in Seq(0 .. 1), NEW e \in 0 .. 1
  PROVE  /\ Append(s, e) \in Seq(0 .. 1) /\ Len(Append(s, e)) = Len(s) + 1
         /\ \A i \in 1 .. Len(s) : Append(s, e)[i] = s[i]
         /\ Append(s, e)[Len(s) + 1] = e
<1> DEFINE Both == 0 .. 1
<1>1. s \in Seq(Both) /\ e \in Both
  OBVIOUS
<1> HIDE DEF Both
<1>2. /\ Append(s, e) \in Seq(Both) /\ Len(Append(s, e)) = Len(s) + 1
      /\ \A i \in 1 .. Len(s) : Append(s, e)[i] = s[i]
      /\ Append(s, e)[Len(s) + 1] = e
  BY <1>1, AppendProperties
<1> QED BY <1>2, Zenon DEF Both

(* A rise of clk shifts a bit in, *)
LEMMA BitArrives ==
  ASSUME NEW c, UdaSees("clk", 1, c), WireTypes, lines["clk"] = 0, Len(bits) < 7
  PROVE  bits' = Append(bits, lines["dat"]) /\ Still
<1>1. lines["dat"] \in 0 .. 1 /\ Len(bits) \in Nat
  BY DEF WireTypes
<1>2. Len(Append(bits, lines["dat"])) = Len(bits) + 1
  BY <1>1 DEF WireTypes
<1>3. Len(Append(bits, lines["dat"])) < 8
  BY <1>1, <1>2
<1> QED BY <1>1, <1>3, SMT DEF UdaSees, Quiet, Still

(* and the eighth bit makes a byte of them: an address, or data. *)
LEMMA ByteArrives ==
  ASSUME NEW c, UdaSees("clk", 1, c), WireTypes, lines["clk"] = 0, Len(bits) = 7
  PROVE  LET byte == Value(Append(bits, lines["dat"]))
         IN  /\ bits' = <<>> /\ byte \in 0 .. 255
             /\ lines["mode"] = 0 => sel' = byte /\ UNCHANGED <<ext, chip, settled>>
             /\ lines["mode"] = 1 =>
                  /\ sel' = sel
                  /\ ext' = IF sel = 20 /\ byte \in 192 .. 223 THEN byte - 192 ELSE ext
                  /\ Take(UdaData(byte), c)
<1> DEFINE new == Append(bits, lines["dat"])
<1>1. lines["dat"] \in 0 .. 1 /\ Len(bits) \in Nat
  BY DEF WireTypes
<1>2. new \in Seq(0 .. 1) /\ Len(new) = 8
  <2>1. bits \in Seq(0 .. 1)
    BY DEF WireTypes
  <2>2. new \in Seq(0 .. 1) /\ Len(new) = Len(bits) + 1
    BY <1>1, <2>1, OneMore, Zenon
  <2> QED BY <2>2
<1>3. lines["mode"] \in 0 .. 1
  BY DEF WireTypes
<1> HIDE DEF new
<1>4. Value(new) \in 0 .. 255
  <2>1. Value(new) \in Nat /\ Value(new) < 256
    BY <1>2, ValueOfByte, Zenon
  <2> HIDE DEF new
  <2> QED BY <2>1
<1>5. UdaSees("clk", 1, c) =>
        /\ bits' = <<>>
        /\ lines["mode"] = 0 => sel' = Value(new) /\ UNCHANGED <<ext, chip, settled>>
        /\ lines["mode"] = 1 =>
             /\ sel' = sel
             /\ ext' = IF sel = 20 /\ Value(new) \in 192 .. 223 THEN Value(new) - 192 ELSE ext
             /\ Take(UdaData(Value(new)), c)
  <2>1. Len(Append(bits, lines["dat"])) = 8
    BY <1>2 DEF new
  <2> QED BY <1>3, <2>1, SMT DEF UdaSees, Quiet, new
<1> QED BY <1>4, <1>5 DEF new

(* A line is set, and the uda1341 sees it. *)
UdaSet(s, c) == lines' = [lines EXCEPT ![s[1]] = s[2]] /\ UdaSees(s[1], s[2], c)

(* A byte in data mode has arrived. *)
DataByte(byte, c) ==
  /\ sel' = sel
  /\ ext' = IF sel = 20 /\ byte \in 192 .. 223 THEN byte - 192 ELSE ext
  /\ Take(UdaData(byte), c)

(* One setting of sendbyte. *)
LEMMA SendBit ==
  ASSUME NEW byte \in Nat, byte < 256, NEW k \in 0 .. 23, NEW c,
         WireTypes, ByteSent(byte, k), UdaSet(ByteSetting(byte, k), c)
  PROVE  /\ lines'["mode"] = lines["mode"]
         /\ k < 23 => ByteSent(byte, k + 1)' /\ Still
         /\ k = 23 =>
              /\ lines'["clk"] = 1 /\ bits' = <<>>
              /\ lines["mode"] = 0 => sel' = byte /\ UNCHANGED <<ext, chip, settled>>
              /\ lines["mode"] = 1 => DataByte(byte, c)
<1> DEFINE q == k \div 3
<1>1. q \in 0 .. 7 /\ k = 3 * q + (k % 3) /\ (k % 3) \in 0 .. 2
  OBVIOUS
<1>2. Len(bits) = q /\ \A i \in 1 .. q : bits[i] = Bit(byte, i - 1)
  BY DEF ByteSent
<1>3. /\ lines["clk"] = IF k % 3 = 0 THEN 1 ELSE 0
      /\ k % 3 = 2 => lines["dat"] = Bit(byte, q)
  BY DEF ByteSent, BitSent
<1>4. lines \in [{"mode", "dat", "clk"} -> 0 .. 1]
  BY DEF WireTypes
<1> HIDE DEF q
<1>5. CASE k % 3 = 0
  <2>1. UdaSet(<<"clk", 0>>, c)
    BY <1>5 DEF ByteSetting
  <2>2. bits' = bits /\ Still
    <3>1. UdaSees("clk", 0, c)
      BY <2>1 DEF UdaSet
    <3> QED BY <3>1, SameLine
  <2>3. lines' = [lines EXCEPT !["clk"] = 0]
    BY <2>1 DEF UdaSet
  <2>4. lines'["mode"] = lines["mode"] /\ lines'["clk"] = 0
    BY <1>4, <2>3
  <2>5. (k + 1) % 3 = 1 /\ (k + 1) \div 3 = q /\ k # 23
    BY <1>1, <1>5
  <2>6. ByteSent(byte, k + 1)'
    BY <1>2, <2>2, <2>4, <2>5 DEF ByteSent, BitSent
  <2> QED BY <2>2, <2>4, <2>5, <2>6
<1>6. CASE k % 3 = 1
  <2>1. UdaSet(<<"dat", Bit(byte, q)>>, c)
    BY <1>6 DEF ByteSetting, q
  <2>2. bits' = bits /\ Still
    <3>1. UdaSees("dat", Bit(byte, q), c)
      BY <2>1 DEF UdaSet
    <3> QED BY <3>1, SameLine
  <2>3. lines' = [lines EXCEPT !["dat"] = Bit(byte, q)]
    BY <2>1 DEF UdaSet
  <2>4. /\ lines'["mode"] = lines["mode"] /\ lines'["clk"] = lines["clk"]
        /\ lines'["dat"] = Bit(byte, q)
    BY <1>4, <2>3
  <2>5. (k + 1) % 3 = 2 /\ (k + 1) \div 3 = q /\ k # 23
    BY <1>1, <1>6
  <2>6. ByteSent(byte, k + 1)'
    BY <1>2, <1>3, <1>6, <2>2, <2>4, <2>5 DEF ByteSent, BitSent
  <2> QED BY <2>2, <2>4, <2>5, <2>6
<1>7. CASE k % 3 = 2
  <2>1. UdaSet(<<"clk", 1>>, c)
    BY <1>7 DEF ByteSetting
  <2>2. UdaSees("clk", 1, c) /\ lines' = [lines EXCEPT !["clk"] = 1]
    BY <2>1 DEF UdaSet
  <2>3. lines'["mode"] = lines["mode"] /\ lines'["clk"] = 1
    BY <1>4, <2>2
  <2>4. lines["clk"] = 0 /\ lines["dat"] = Bit(byte, q)
    BY <1>3, <1>7
  <2> DEFINE new == Append(bits, lines["dat"])
  <2>5. /\ new \in Seq(0 .. 1) /\ Len(new) = q + 1
        /\ \A i \in 1 .. q : new[i] = Bit(byte, i - 1)
        /\ new[q + 1] = Bit(byte, q)
    <3>1. bits \in Seq(0 .. 1) /\ lines["dat"] \in 0 .. 1
      BY DEF WireTypes
    <3>2. /\ new \in Seq(0 .. 1) /\ Len(new) = Len(bits) + 1
          /\ \A i \in 1 .. Len(bits) : new[i] = bits[i]
          /\ new[Len(bits) + 1] = lines["dat"]
      BY <3>1, OneMore, Zenon
    <3> HIDE DEF new
    <3> QED BY <1>2, <2>4, <3>2
  <2> HIDE DEF new
  <2>6. \A i \in 1 .. q + 1 : new[i] = Bit(byte, i - 1)
    BY <1>1, <2>5
  <2>7. CASE q < 7
    <3>1. bits' = new /\ Still
      <4>1. Len(bits) < 7
        BY <1>2, <2>7
      <4> QED BY <2>2, <2>4, <4>1, BitArrives, Zenon DEF new
    <3>2. (k + 1) % 3 = 0 /\ (k + 1) \div 3 = q + 1 /\ k # 23
      BY <1>1, <1>7, <2>7
    <3>3. ByteSent(byte, k + 1)'
      BY <2>3, <2>5, <2>6, <3>1, <3>2 DEF ByteSent, BitSent
    <3> QED BY <2>3, <3>1, <3>2, <3>3
  <2>8. CASE q = 7
    <3>1. Len(new) = 8 /\ \A i \in 1 .. 8 : new[i] = Bit(byte, i - 1)
      BY <2>5, <2>6, <2>8
    <3>2. Value(new) = byte
      BY <2>5, <3>1, ValueOfByte, Zenon
    <3>3. k = 23
      BY <1>1, <1>7, <2>8
    <3>4. Len(bits) = 7
      BY <1>2, <2>8
    <3>5. /\ bits' = <<>>
          /\ lines["mode"] = 0 => sel' = byte /\ UNCHANGED <<ext, chip, settled>>
          /\ lines["mode"] = 1 =>
               /\ sel' = sel
               /\ ext' = IF sel = 20 /\ byte \in 192 .. 223 THEN byte - 192 ELSE ext
               /\ Take(UdaData(byte), c)
      <4>1. LET b == Value(Append(bits, lines["dat"]))
            IN  /\ bits' = <<>>
                /\ lines["mode"] = 0 => sel' = b /\ UNCHANGED <<ext, chip, settled>>
                /\ lines["mode"] = 1 =>
                     /\ sel' = sel
                     /\ ext' = IF sel = 20 /\ b \in 192 .. 223 THEN b - 192 ELSE ext
                     /\ Take(UdaData(b), c)
        BY <2>2, <2>4, <3>4, ByteArrives
      <4>2. Value(Append(bits, lines["dat"])) = byte
        BY <3>2 DEF new
      <4> QED BY <4>1, <4>2
    <3> QED BY <2>3, <3>3, <3>5 DEF DataByte
  <2> QED BY <1>1, <2>7, <2>8
<1> QED BY <1>1, <1>5, <1>6, <1>7

(* One setting of l3_write, the first one from an idle chip. *)
LEMMA L3Step ==
  ASSUME NEW addr \in Nat, addr < 256, NEW data \in Nat, data < 256, NEW p \in 0 .. 55, NEW c,
         codec = "uda1341", codec' = codec, WireTypes,
         L3Place(addr, data, p), UdaSet(L3Setting(addr, data, p), c), p = 0 => Idle
  PROVE  /\ p < 55 => L3Place(addr, data, p + 1)'
         /\ p # 52 => UNCHANGED <<ext, chip, settled>>
         /\ p = 52 => sel = addr /\ DataByte(data, c)
         /\ p <= 2 /\ Idle => Idle'
         /\ p >= 55 => Idle'
<1>1. lines \in [{"mode", "dat", "clk"} -> 0 .. 1]
  BY DEF WireTypes
<1>2. ASSUME NEW l \in {"mode", "dat", "clk"}, NEW v \in 0 .. 1, UdaSet(<<l, v>>, c)
      PROVE  /\ lines' = [lines EXCEPT ![l] = v] /\ UdaSees(l, v, c)
             /\ lines'[l] = v
             /\ \A m \in {"mode", "dat", "clk"} : m # l => lines'[m] = lines[m]
  <2>1. lines' = [lines EXCEPT ![l] = v] /\ UdaSees(l, v, c)
    BY <1>2 DEF UdaSet
  <2> QED BY <1>1, <2>1
<1>3. CASE p = 0
  <2>1. Idle /\ lines["clk"] = 1
    BY <1>3 DEF Idle
  <2>2. UdaSet(<<"clk", 1>>, c)
    BY <1>3 DEF L3Setting
  <2>3. lines'["clk"] = 1 /\ lines'["mode"] = lines["mode"] /\ UdaSees("clk", 1, c)
    BY <1>2, <2>2
  <2>4. bits' = bits /\ Still
    BY <2>1, <2>3, SameLine
  <2>5. Idle'
    BY <2>1, <2>3, <2>4 DEF Idle
  <2>6. L3Place(addr, data, 1)'
    BY <2>3 DEF L3Place
  <2> QED BY <1>3, <2>4, <2>5, <2>6 DEF Still
<1>4. CASE p \in {1, 54}
  <2>1. lines["clk"] = 1 /\ (p = 54 => sel = addr /\ Idle)
    BY <1>4 DEF L3Place, Idle
  <2>2. UdaSet(<<"dat", 1>>, c)
    BY <1>4 DEF L3Setting
  <2>3. lines'["clk"] = 1 /\ lines'["mode"] = lines["mode"] /\ UdaSees("dat", 1, c)
    BY <1>2, <2>1, <2>2
  <2>4. bits' = bits /\ Still
    BY <2>3, SameLine
  <2>5. Idle => Idle'
    BY <2>3, <2>4 DEF Idle
  <2>6. L3Place(addr, data, p + 1)'
    BY <1>4, <2>1, <2>3, <2>4, <2>5 DEF L3Place, Still
  <2> QED BY <1>4, <2>4, <2>5, <2>6 DEF Still
<1>5. CASE p = 2
  <2>1. lines["clk"] = 1
    BY <1>5 DEF L3Place
  <2>2. UdaSet(<<"mode", 1>>, c)
    BY <1>5 DEF L3Setting
  <2>3. lines'["clk"] = 1 /\ lines'["mode"] = 1 /\ UdaSees("mode", 1, c)
    BY <1>2, <2>1, <2>2
  <2>4. Still /\ (Idle => bits' = bits)
    <3>1. CASE lines["mode"] = 1
      BY <2>3, <3>1, SameLine
    <3>2. CASE lines["mode"] # 1
      BY <2>3, <3>2, ModeChanges DEF Idle
    <3> QED BY <3>1, <3>2
  <2>5. Idle => Idle'
    BY <2>3, <2>4 DEF Idle
  <2>6. L3Place(addr, data, 3)'
    BY <2>3 DEF L3Place
  <2> QED BY <1>5, <2>4, <2>5, <2>6 DEF Still
<1>6. CASE p = 3
  <2>1. lines["clk"] = 1 /\ lines["mode"] = 1
    BY <1>6 DEF L3Place
  <2>2. UdaSet(<<"mode", 0>>, c)
    BY <1>6 DEF L3Setting
  <2>3. lines'["clk"] = 1 /\ lines'["mode"] = 0 /\ UdaSees("mode", 0, c)
    BY <1>2, <2>1, <2>2
  <2>4. Still /\ bits' = <<>>
    BY <2>1, <2>3, ModeChanges
  <2>5. ByteSent(addr, 0)'
    BY <2>3, <2>4 DEF ByteSent, BitSent
  <2>6. L3Place(addr, data, 4)'
    BY <2>3, <2>5 DEF L3Place
  <2> QED BY <1>6, <2>4, <2>6 DEF Still
<1>7. CASE p \in 4 .. 27
  <2>1. PICK k \in 0 .. 23 : k = p - 4
    BY <1>7
  <2>2. lines["mode"] = 0 /\ ByteSent(addr, k)
    BY <1>7, <2>1 DEF L3Place
  <2>3. UdaSet(ByteSetting(addr, k), c)
    BY <1>7, <2>1 DEF L3Setting
  <2>4. /\ lines'["mode"] = 0
        /\ k < 23 => ByteSent(addr, k + 1)' /\ Still
        /\ k = 23 => /\ lines'["clk"] = 1 /\ bits' = <<>>
                     /\ sel' = addr /\ UNCHANGED <<ext, chip, settled>>
    BY <2>2, <2>3, SendBit
  <2>5. L3Place(addr, data, p + 1)'
    <3>1. CASE k < 23
      <4>1. p + 1 \in 4 .. 27 /\ (p + 1) - 4 = k + 1
        BY <2>1, <3>1
      <4>2. ByteSent(addr, (p + 1) - 4)'
        BY <2>4, <3>1, <4>1
      <4> QED BY <2>4, <4>1, <4>2 DEF L3Place
    <3>2. CASE k = 23
      <4>1. p + 1 = 28
        BY <2>1, <3>2
      <4> QED BY <2>4, <3>2, <4>1 DEF L3Place
    <3> QED BY <3>1, <3>2
  <2> QED BY <1>7, <2>1, <2>4, <2>5 DEF Still
<1>8. CASE p = 28
  <2>1. lines["clk"] = 1 /\ lines["mode"] = 0 /\ sel = addr
    BY <1>8 DEF L3Place
  <2>2. UdaSet(<<"mode", 1>>, c)
    BY <1>8 DEF L3Setting
  <2>3. lines'["clk"] = 1 /\ lines'["mode"] = 1 /\ UdaSees("mode", 1, c)
    BY <1>2, <2>1, <2>2
  <2>4. Still /\ bits' = <<>>
    BY <2>1, <2>3, ModeChanges
  <2>5. ByteSent(data, 0)'
    BY <2>3, <2>4 DEF ByteSent, BitSent
  <2>6. L3Place(addr, data, 29)'
    BY <2>1, <2>3, <2>4, <2>5 DEF L3Place, Still
  <2> QED BY <1>8, <2>4, <2>6 DEF Still
<1>9. CASE p \in 29 .. 52
  <2>1. PICK k \in 0 .. 23 : k = p - 29
    BY <1>9
  <2>2. lines["mode"] = 1 /\ ByteSent(data, k) /\ sel = addr
    BY <1>9, <2>1 DEF L3Place
  <2>3. UdaSet(ByteSetting(data, k), c)
    BY <1>9, <2>1 DEF L3Setting
  <2>4. /\ lines'["mode"] = 1
        /\ k < 23 => ByteSent(data, k + 1)' /\ Still
        /\ k = 23 => lines'["clk"] = 1 /\ bits' = <<>> /\ DataByte(data, c)
    BY <2>2, <2>3, SendBit
  <2>5. L3Place(addr, data, p + 1)'
    <3>1. CASE k < 23
      <4>1. p + 1 \in 29 .. 52 /\ (p + 1) - 29 = k + 1
        BY <2>1, <3>1
      <4>2. ByteSent(data, (p + 1) - 29)'
        BY <2>4, <3>1, <4>1
      <4>3. sel' = addr
        BY <2>2, <2>4, <3>1 DEF Still
      <4> QED BY <2>4, <4>1, <4>2, <4>3 DEF L3Place
    <3>2. CASE k = 23
      <4>1. p + 1 = 53
        BY <2>1, <3>2
      <4>2. sel' = addr /\ Idle'
        BY <2>2, <2>4, <3>2 DEF DataByte, Idle
      <4> QED BY <4>1, <4>2 DEF L3Place
    <3> QED BY <3>1, <3>2
  <2> QED BY <1>9, <2>1, <2>2, <2>4, <2>5 DEF Still
<1>10. CASE p = 53
  <2>1. Idle /\ lines["clk"] = 1 /\ sel = addr
    BY <1>10 DEF L3Place, Idle
  <2>2. UdaSet(<<"clk", 1>>, c)
    BY <1>10 DEF L3Setting
  <2>3. lines'["clk"] = 1 /\ lines'["mode"] = lines["mode"] /\ UdaSees("clk", 1, c)
    BY <1>2, <2>2
  <2>4. bits' = bits /\ Still
    BY <2>1, <2>3, SameLine
  <2>5. Idle'
    BY <2>1, <2>3, <2>4 DEF Idle
  <2>6. L3Place(addr, data, 54)'
    BY <2>1, <2>4, <2>5 DEF L3Place, Still
  <2> QED BY <1>10, <2>4, <2>6 DEF Still
<1>11. CASE p = 55
  <2>1. Idle /\ lines["mode"] = 1
    BY <1>11 DEF L3Place, Idle
  <2>2. UdaSet(<<"mode", 1>>, c)
    BY <1>11 DEF L3Setting
  <2>3. lines'["clk"] = lines["clk"] /\ lines'["mode"] = 1 /\ UdaSees("mode", 1, c)
    BY <1>2, <2>2
  <2>4. bits' = bits /\ Still
    BY <2>1, <2>3, SameLine
  <2>5. Idle'
    BY <2>1, <2>3, <2>4 DEF Idle
  <2> QED BY <1>11, <2>4, <2>5 DEF Still
<1> QED BY <1>3, <1>4, <1>5, <1>6, <1>7, <1>8, <1>9, <1>10, <1>11

(***************************************************************************)
(* What a write of the uda1341 does to its registers.                      *)
(***************************************************************************)
(* The bytes of a write. *)
LEMMA UdaBytes ==
  ASSUME NEW w \in UdaLegal, NEW n \in 1 .. 112
  PROVE  /\ L3Addr(w) \in {20, 22} /\ L3Data(w, n) \in Nat /\ L3Data(w, n) < 256
         /\ w[1] \in EA => /\ L3Addr(w) = 20 /\ uda1341_reg_addr(w[1]) \in {0, 1, 2, 4, 5, 6}
                           /\ L3Data(w, n) = IF n > 56 THEN uda1341_reg_addr(w[1]) + 192
                                             ELSE w[2] + 224
  BY DEF UdaLegal, L3Addr, L3Data, uda1341_reg_addr, uda1341_data_bit, EA

(* Two extended registers have two addresses. *)
LEMMA ExtendedAddress ==
  ASSUME NEW r \in EA, NEW s \in EA, uda1341_reg_addr(r) = uda1341_reg_addr(s)
  PROVE  r = s
  BY DEF uda1341_reg_addr, EA

(* The bytes of a write lead to its register and carry its value. *)
LEMMA DataArrives ==
  ASSUME NEW w \in UdaLegal, NEW n \in 1 .. 112, sel = L3Addr(w),
         w[1] \in EA /\ n <= 56 => ext = uda1341_reg_addr(w[1])
  PROVE  UdaData(L3Data(w, n)) = IF w[1] \in EA /\ n > 56 THEN <<>> ELSE w
<1>1. CASE w[1] \in EA /\ n > 56
  <2>1. sel = 20 /\ L3Data(w, n) \in 192 .. 198
    BY <1>1, UdaBytes
  <2> QED BY <1>1, <2>1 DEF UdaData
<1>2. CASE w[1] \in EA /\ n <= 56
  <2>1. w[2] \in 0 .. 31 /\ w = <<w[1], w[2]>>
    BY <1>2 DEF UdaLegal, EA
  <2>2. sel = 20 /\ L3Data(w, n) = w[2] + 224 /\ ext \in {0, 1, 2, 4, 5, 6}
    BY <1>2, UdaBytes
  <2>3. (CHOOSE r \in EA : uda1341_reg_addr(r) = ext) = w[1]
    BY <1>2, ExtendedAddress
  <2>4. L3Data(w, n) >= 224 /\ L3Data(w, n) - 224 = w[2]
    BY <2>1, <2>2
  <2>5. UdaData(L3Data(w, n)) =
          <<CHOOSE r \in EA : uda1341_reg_addr(r) = ext, L3Data(w, n) - 224>>
    BY <2>2, <2>4 DEF UdaData
  <2>6. UdaData(L3Data(w, n)) = <<w[1], w[2]>>
    BY <2>3, <2>4, <2>5, Zenon
  <2>7. ~(w[1] \in EA /\ n > 56)
    BY <1>2
  <2> QED BY <2>1, <2>6, <2>7, Zenon
<1>3. CASE w[1] \notin EA
  <2>1. w = <<w[1], w[2]>>
    BY DEF UdaLegal, EA
  <2>2. \/ w[1] \in {0, 1, 2} /\ w[2] \in 0 .. 63
        \/ w[1] \in {10, 11} /\ w[2] \in 0 .. 127
    BY <1>3 DEF UdaLegal, EA
  <2>3. UdaData(L3Data(w, n)) = <<w[1], w[2]>>
    <3>1. CASE w[1] \in 0 .. 2
      <4>1. sel = 20 /\ L3Data(w, n) = w[2] + uda1341_data_bit(w[1]) /\ w[2] \in 0 .. 63
        BY <1>3, <2>2, <3>1 DEF L3Addr, L3Data, uda1341_reg_addr
      <4>2. uda1341_data_bit(w[1]) = w[1] * 64
        BY <3>1 DEF uda1341_data_bit
      <4>3. PICK b \in Nat : b = L3Data(w, n) /\ b = w[2] + w[1] * 64
        BY <3>1, <4>1, <4>2
      <4>4. CASE w[1] = 0
        <5>1. /\ sel = 20 /\ sel # 22
              /\ b < 64 /\ ~(b \in 64 .. 127) /\ ~(b \in 128 .. 191) /\ ~(b >= 224)
              /\ b = w[2]
          BY <4>1, <4>3, <4>4
        <5>2. UdaData(b) = <<0, b>>
          BY <5>1, Zenon DEF UdaData
        <5> QED BY <4>3, <4>4, <5>1, <5>2
      <4>5. CASE w[1] = 1
        <5>1. /\ sel = 20 /\ sel # 22
              /\ ~(b < 64) /\ b \in 64 .. 127 /\ ~(b \in 128 .. 191) /\ ~(b >= 224)
              /\ b - 64 = w[2]
          BY <4>1, <4>3, <4>5
        <5>2. UdaData(b) = <<1, b - 64>>
          BY <5>1, Zenon DEF UdaData
        <5> QED BY <4>3, <4>5, <5>1, <5>2
      <4>6. CASE w[1] = 2
        <5>1. /\ sel = 20 /\ sel # 22
              /\ ~(b < 64) /\ ~(b \in 64 .. 127) /\ b \in 128 .. 191 /\ ~(b >= 224)
              /\ b - 128 = w[2]
          BY <4>1, <4>3, <4>6
        <5>2. UdaData(b) = <<2, b - 128>>
          BY <5>1, Zenon DEF UdaData
        <5> QED BY <4>3, <4>6, <5>1, <5>2
      <4> QED BY <3>1, <4>4, <4>5, <4>6
    <3>2. CASE w[1] \in 10 .. 11
      <4>1. sel = 22 /\ L3Data(w, n) = w[2] + uda1341_data_bit(w[1]) /\ w[2] \in 0 .. 127
        BY <1>3, <2>2, <3>2 DEF L3Addr, L3Data, uda1341_reg_addr, EA
      <4>2. uda1341_data_bit(w[1]) = (w[1] - 10) * 128
        BY <3>2 DEF uda1341_data_bit
      <4>3. PICK b \in Nat : b = L3Data(w, n) /\ b = w[2] + (w[1] - 10) * 128
        BY <3>2, <4>1, <4>2
      <4>4. CASE w[1] = 10
        <5>1. /\ sel = 22 /\ sel # 20 /\ b < 128 /\ ~(b >= 128)
              /\ b = w[2]
          BY <4>1, <4>3, <4>4
        <5>2. UdaData(b) = <<10, b>>
          BY <5>1, Zenon DEF UdaData
        <5> QED BY <4>3, <4>4, <5>1, <5>2
      <4>5. CASE w[1] = 11
        <5>1. /\ sel = 22 /\ sel # 20 /\ ~(b < 128) /\ b >= 128
              /\ b - 128 = w[2]
          BY <4>1, <4>3, <4>5
        <5>2. UdaData(b) = <<11, b - 128>>
          BY <5>1, Zenon DEF UdaData
        <5> QED BY <4>3, <4>5, <5>1, <5>2
      <4> QED BY <3>2, <4>4, <4>5
    <3> QED BY <2>2, <3>1, <3>2
  <2> QED BY <1>3, <2>1, <2>3
<1> QED BY <1>1, <1>2, <1>3

(* A register write that arrives. *)
Effect(w) ==
  \/ UNCHANGED <<chip, settled>>
  \/ settled = {} /\ settled' = {}
  \/ /\ chip' = [chip EXCEPT ![w[1]] = w[2]]
     /\ settled' = settled \/ (settled' = {} /\ w[1] = ResetReg)

(* The write of the call that is under way reaches its register. *)
LEMMA Taken ==
  ASSUME NEW w, NEW c, Take(w, c), todo[c][1] = w, w # <<>>, codec \in {"uda1341", "wm8976"}
  PROVE  /\ chip' = [chip EXCEPT ![w[1]] = w[2]]
         /\ settled' = settled \/ (settled' = {} /\ w[1] = ResetReg)
  BY SMT DEF Take, Resets, ResetReg

(* No setting adds to the registers that something is claimed of. *)
LEMMA UdaSettled ==
  ASSUME NEW s, NEW c, UdaSet(s, c)
  PROVE  settled' = settled \/ settled' = {}
<1>1. ASSUME NEW w, Take(w, c) PROVE settled' = settled \/ settled' = {}
  BY <1>1, Zenon DEF Take
<1>2. UdaSees(s[1], s[2], c)
  BY DEF UdaSet
<1>3. Quiet => settled' = settled
  BY DEF Quiet
<1> QED BY <1>1, <1>2, <1>3, Zenon DEF UdaSees

(* One setting of uda1341_write_reg. *)
LEMMA UdaStepNext ==
  ASSUME codec = "uda1341", codec' = codec, WireTypes,
         NEW c, NEW w \in UdaLegal, w = todo[c][1],
         NEW n \in 2 .. 112, w[1] \notin EA => n <= 56,
         UdaStep(w, n), UdaSet(L3Setting(L3Addr(w), L3Data(w, n), L3Made(n)), c)
  PROVE  UdaStep(w, n - 1)' /\ Effect(w)
<1>1. PICK p, addr, data : p = L3Made(n) /\ addr = L3Addr(w) /\ data = L3Data(w, n)
  OBVIOUS
<1>2. /\ p \in 0 .. 55 /\ p = IF n > 56 THEN 112 - n ELSE 56 - n
      /\ addr \in Nat /\ addr < 256 /\ data \in Nat /\ data < 256
  <2>1. p \in 0 .. 55 /\ p = IF n > 56 THEN 112 - n ELSE 56 - n
    BY <1>1 DEF L3Made
  <2>2. addr \in {20, 22} /\ data \in Nat /\ data < 256
    BY <1>1, UdaBytes
  <2> QED BY <2>1, <2>2
<1>3. /\ L3Place(addr, data, p)
      /\ p \in 0 .. 3 => (settled = {} /\ (w[1] \in EA => n > 56)) \/ Idle
      /\ w[1] \in EA /\ (n <= 56 \/ p >= 53) => ext = uda1341_reg_addr(w[1])
      /\ p >= 53 /\ n <= 56 => chip[w[1]] = w[2]
  BY <1>1, Zenon DEF UdaStep
<1>4. UdaSet(L3Setting(addr, data, p), c)
  BY <1>1
<1>5. w[1] \in Regs /\ w # <<>> /\ w = <<w[1], w[2]>>
  BY <1>1 DEF UdaLegal, EA, Regs
<1>6. p # 55 => /\ L3Made(n - 1) = p + 1 /\ L3Data(w, n - 1) = data
                /\ (n - 1 <= 56 <=> n <= 56) /\ (n - 1 > 56 <=> n > 56)
  <2>1. p # 55 => n # 57
    BY <1>1 DEF L3Made
  <2> QED BY <1>1, <2>1 DEF L3Made, L3Data
<1>7. CASE p = 0 /\ ~Idle
  <2>1. settled = {} /\ (w[1] \in EA => n > 56)
    BY <1>3, <1>7
  <2>2. settled' = {}
    BY <1>4, <2>1, UdaSettled
  <2>3. lines' = [lines EXCEPT !["clk"] = 1]
    <3>1. L3Setting(addr, data, p) = <<"clk", 1>>
      BY <1>7 DEF L3Setting
    <3>2. UdaSet(<<"clk", 1>>, c)
      BY <1>4, <3>1
    <3> QED BY <3>2 DEF UdaSet
  <2>4. lines'["clk"] = 1
    BY <2>3 DEF WireTypes
  <2>5. L3Place(addr, data, 1)'
    BY <2>4 DEF L3Place
  <2>6. UdaStep(w, n - 1)'
    <3>1. L3Made(n - 1) = 1 /\ L3Data(w, n - 1) = data /\ (n - 1 > 56 <=> n > 56)
          /\ (n - 1 <= 56 <=> n <= 56)
      BY <1>6, <1>7
    <3>2. w[1] \in EA => n - 1 > 56 /\ ~(n - 1 <= 56)
      BY <1>2, <1>7, <2>1
    <3> QED BY <1>1, <2>2, <2>5, <3>1, <3>2 DEF UdaStep
  <2> QED BY <2>1, <2>2, <2>6 DEF Effect
<1>8. CASE ~(p = 0 /\ ~Idle)
  <2>1. /\ p < 55 => L3Place(addr, data, p + 1)'
        /\ p # 52 => UNCHANGED <<ext, chip, settled>>
        /\ p = 52 => sel = addr /\ DataByte(data, c)
        /\ p <= 2 /\ Idle => Idle'
        /\ p >= 55 => Idle'
    <3>1. p = 0 => Idle
      BY <1>8
    <3>2. p \in 0 .. 55 /\ addr \in Nat /\ data \in Nat
      BY <1>2
    <3>3. p < 55 => L3Place(addr, data, p + 1)'
      BY <1>2, <1>3, <1>4, <3>1, <3>2, L3Step, Zenon
    <3>4. p # 52 => UNCHANGED <<ext, chip, settled>>
      BY <1>2, <1>3, <1>4, <3>1, <3>2, L3Step, ZenonT(40)
    <3>5. p = 52 => sel = addr /\ DataByte(data, c)
      BY <1>2, <1>3, <1>4, <3>1, <3>2, L3Step, ZenonT(40)
    <3>6. p <= 2 /\ Idle => Idle'
      BY <1>2, <1>3, <1>4, <3>1, <3>2, L3Step, Zenon
    <3>7. p >= 55 => Idle'
      BY <1>2, <1>3, <1>4, <3>1, <3>2, L3Step, Zenon
    <3> QED BY <3>3, <3>4, <3>5, <3>6, <3>7
  <2>2. CASE p = 55
    <3>1. n = 57 /\ w[1] \in EA
      BY <1>2, <2>2
    <3>2. L3Made(n - 1) = 0
      BY <1>1, <3>1 DEF L3Made
    <3>3. UNCHANGED <<ext, chip, settled>> /\ Idle' /\ ext = uda1341_reg_addr(w[1])
      BY <1>3, <2>1, <2>2, <3>1
    <3>4. UdaStep(w, n - 1)'
      <4>1. ASSUME NEW a, NEW d PROVE L3Place(a, d, 0)'
        BY <1>1 DEF L3Place
      <4>2. ~(0 >= 53) /\ 0 \in 0 .. 3
        OBVIOUS
      <4> QED BY <1>1, <3>2, <3>3, <4>1, <4>2, Zenon DEF UdaStep
    <3> QED BY <3>3, <3>4 DEF Effect
  <2>3. CASE p = 52
    <3>1. /\ sel = L3Addr(w)
          /\ ext' = IF sel = 20 /\ data \in 192 .. 223 THEN data - 192 ELSE ext
          /\ Take(UdaData(data), c)
      BY <1>1, <2>1, <2>3 DEF DataByte
    <3>2. w[1] \in EA /\ n <= 56 => ext = uda1341_reg_addr(w[1])
      BY <1>3
    <3>3. UdaData(data) = IF w[1] \in EA /\ n > 56 THEN <<>> ELSE w
      <4>1. n \in 1 .. 112
        OBVIOUS
      <4> QED BY <1>1, <3>1, <3>2, <4>1, DataArrives, Zenon
    <3>4. L3Made(n - 1) = 53 /\ L3Data(w, n - 1) = data /\ (n - 1 <= 56 <=> n <= 56)
      BY <1>6, <2>3
    <3>5. L3Place(addr, data, 53)'
      BY <2>1, <2>3
    <3>6. CASE w[1] \in EA /\ n > 56
      <4>1. data = uda1341_reg_addr(w[1]) + 192 /\ sel = 20
            /\ uda1341_reg_addr(w[1]) \in {0, 1, 2, 4, 5, 6}
        BY <1>1, <3>1, <3>6, UdaBytes
      <4>2. ext' = uda1341_reg_addr(w[1])
        BY <3>1, <4>1
      <4>3. UNCHANGED <<chip, settled>>
        <5>1. Take(<<>>, c)
          BY <3>1, <3>3, <3>6
        <5> QED BY <5>1 DEF Take
      <4>4. ~(n - 1 <= 56)
        BY <3>4, <3>6
      <4>5. UdaStep(w, n - 1)'
        BY <1>1, <3>4, <3>5, <4>2, <4>4 DEF UdaStep
      <4> QED BY <4>3, <4>5 DEF Effect
    <3>7. CASE ~(w[1] \in EA /\ n > 56)
      <4>1. Take(w, c)
        BY <3>1, <3>3, <3>7
      <4>2. /\ chip' = [chip EXCEPT ![w[1]] = w[2]]
            /\ settled' = settled \/ (settled' = {} /\ w[1] = ResetReg)
        BY <1>5, <4>1, Taken
      <4>3. chip'[w[1]] = w[2]
        BY <1>5, <4>2 DEF WireTypes
      <4>4. w[1] \in EA => ext' = uda1341_reg_addr(w[1])
        <5>1. ASSUME w[1] \in EA PROVE data >= 224 /\ ext = uda1341_reg_addr(w[1])
          <6>1. n <= 56 /\ w[2] \in 0 .. 31
            BY <3>7, <5>1 DEF UdaLegal, EA
          <6>2. data = w[2] + 224
            BY <1>1, <5>1, <6>1, UdaBytes
          <6> QED BY <3>2, <5>1, <6>1, <6>2
        <5> QED BY <1>2, <3>1, <5>1
      <4>5. UdaStep(w, n - 1)'
        BY <1>1, <3>4, <3>5, <4>3, <4>4 DEF UdaStep
      <4> QED BY <4>2, <4>5 DEF Effect
    <3> QED BY <3>6, <3>7
  <2>4. CASE p # 55 /\ p # 52
    <3>1. UNCHANGED <<ext, chip, settled>> /\ L3Place(addr, data, p + 1)'
      BY <1>2, <2>1, <2>4
    <3>2. L3Made(n - 1) = p + 1 /\ L3Data(w, n - 1) = data
          /\ (n - 1 <= 56 <=> n <= 56) /\ (n - 1 > 56 <=> n > 56)
      BY <1>6, <2>4
    <3>3. p + 1 \in 0 .. 3 => (settled' = {} /\ (w[1] \in EA => n - 1 > 56)) \/ Idle'
      BY <1>2, <1>3, <2>1, <3>1, <3>2
    <3>4. p + 1 >= 53 => p >= 53
      BY <1>2, <2>4
    <3>5. w[1] \in EA /\ (n - 1 <= 56 \/ p + 1 >= 53) => ext' = uda1341_reg_addr(w[1])
      BY <1>3, <3>1, <3>2, <3>4
    <3>6. p + 1 >= 53 /\ n - 1 <= 56 => chip'[w[1]] = w[2]
      BY <1>3, <3>1, <3>2, <3>4
    <3>7. UdaStep(w, n - 1)'
      BY <1>1, <3>1, <3>2, <3>3, <3>5, <3>6 DEF UdaStep
    <3> QED BY <3>1, <3>7 DEF Effect
  <2> QED BY <2>2, <2>3, <2>4
<1> QED BY <1>7, <1>8

(***************************************************************************)
(* The types of the lines and of the chip.                                 *)
(***************************************************************************)
LEMMA UdaDataType ==
  ASSUME NEW byte \in 0 .. 255
  PROVE  UdaData(byte) # <<>> => UdaData(byte)[2] \in 0 .. 255
<1>1. CASE sel = 20
  <2>1. sel # 22
    BY <1>1
  <2>2. CASE byte < 64
    <3>1. ~(byte \in 64 .. 127) /\ ~(byte \in 128 .. 191) /\ ~(byte >= 224)
      BY <2>2
    <3>2. UdaData(byte) = <<0, byte>>
      BY <1>1, <2>1, <2>2, <3>1, ZenonT(40) DEF UdaData
    <3> QED BY <2>2, <3>2
  <2>3. CASE byte \in 64 .. 127
    <3>1. ~(byte < 64) /\ ~(byte \in 128 .. 191) /\ ~(byte >= 224)
      BY <2>3
    <3>2. UdaData(byte) = <<1, byte - 64>>
      BY <1>1, <2>1, <2>3, <3>1, ZenonT(40) DEF UdaData
    <3> QED BY <2>3, <3>2
  <2>4. CASE byte \in 128 .. 191
    <3>1. ~(byte < 64) /\ ~(byte \in 64 .. 127) /\ ~(byte >= 224)
      BY <2>4
    <3>2. UdaData(byte) = <<2, byte - 128>>
      BY <1>1, <2>1, <2>4, <3>1, Zenon DEF UdaData
    <3> QED BY <2>4, <3>2
  <2>5. CASE byte \in 192 .. 223
    <3>1. ~(byte < 64) /\ ~(byte \in 64 .. 127) /\ ~(byte \in 128 .. 191) /\ ~(byte >= 224)
      BY <2>5
    <3>2. UdaData(byte) = <<>>
      BY <2>1, <3>1, ZenonT(40) DEF UdaData
    <3> QED BY <3>2
  <2>6. CASE byte >= 224
    <3>1. ~(byte < 64) /\ ~(byte \in 64 .. 127) /\ ~(byte \in 128 .. 191)
      BY <2>6
    <3>2. PICK r : r = CHOOSE e \in EA : uda1341_reg_addr(e) = ext
      OBVIOUS
    <3>3. UdaData(byte) = <<r, byte - 224>> \/ UdaData(byte) = <<>>
      BY <1>1, <2>1, <2>6, <3>1, <3>2, ZenonT(40) DEF UdaData
    <3>4. byte - 224 \in 0 .. 255
      BY <2>6
    <3>5. ASSUME UdaData(byte) = <<r, byte - 224>> PROVE UdaData(byte)[2] \in 0 .. 255
      BY <3>4, <3>5
    <3> QED BY <3>3, <3>5, Zenon
  <2> QED BY <2>2, <2>3, <2>4, <2>5, <2>6
<1>2. CASE sel = 22
  <2>1. sel # 20
    BY <1>2
  <2>2. CASE byte < 128
    <3>1. ~(byte >= 128)
      BY <2>2
    <3>2. UdaData(byte) = <<10, byte>>
      BY <1>2, <2>1, <2>2, <3>1, Zenon DEF UdaData
    <3> QED BY <2>2, <3>2
  <2>3. CASE byte >= 128
    <3>1. ~(byte < 128)
      BY <2>3
    <3>2. UdaData(byte) = <<11, byte - 128>>
      BY <1>2, <2>1, <2>3, <3>1, Zenon DEF UdaData
    <3> QED BY <2>3, <3>2
  <2> QED BY <2>2, <2>3
<1>3. CASE sel # 20 /\ sel # 22
  <2>1. UdaData(byte) = <<>>
    BY <1>3, Zenon DEF UdaData
  <2> QED BY <2>1
<1> QED BY <1>1, <1>2, <1>3

(* Whatever the chip takes, its registers keep their types. *)
LEMMA TakeType ==
  ASSUME NEW w, NEW c, Take(w, c), WireTypes, w # <<>> => w[2] \in 0 .. 511
  PROVE  chip' \in [Regs -> 0 .. 511] /\ settled' \subseteq Regs
<1>1. chip \in [Regs -> 0 .. 511] /\ settled \subseteq Regs /\ 0 \in 0 .. 511
  BY DEF WireTypes
<1>2. settled' \subseteq Regs
  BY <1>1, Zenon DEF Take
<1>3. CASE w = <<>>
  BY <1>1, <1>2, <1>3, Zenon DEF Take
<1>4. CASE w # <<>>
  <2>1. PICK v \in 0 .. 511 : chip' = [chip EXCEPT ![w[1]] = v]
    BY <1>1, <1>4, Zenon DEF Take
  <2> QED BY <1>1, <1>2, <2>1
<1> QED BY <1>3, <1>4

(* So do the lines. *)
LEMMA LineType ==
  ASSUME WireTypes, NEW l \in {"mode", "dat", "clk"}, NEW v \in 0 .. 1
  PROVE  [lines EXCEPT ![l] = v] \in [{"mode", "dat", "clk"} -> 0 .. 1]
  BY DEF WireTypes

(* No setting makes the uda1341 keep eight bits. *)
LEMMA UdaTypes ==
  ASSUME WireTypes, Len(bits) <= 7, NEW s \in Setting, NEW c, UdaSet(s, c)
  PROVE  WireTypes' /\ Len(bits') <= 7
<1>1. PICK l \in {"mode", "dat", "clk"}, v \in 0 .. 1 : s = <<l, v>>
  BY DEF Setting
<1>2. lines' = [lines EXCEPT ![l] = v] /\ UdaSees(l, v, c)
  BY <1>1 DEF UdaSet
<1>3. lines' \in [{"mode", "dat", "clk"} -> 0 .. 1]
  BY <1>2, LineType
<1>4. lines["mode"] \in 0 .. 1 /\ lines["dat"] \in 0 .. 1
  BY DEF WireTypes
<1>5. <<>> \in Seq(0 .. 1) /\ Len(<<>>) <= 7
  OBVIOUS
<1>6. Len(bits) \in Nat
  BY DEF WireTypes
<1>7. CASE l = "mode" /\ v # lines["mode"]
  <2>1. bits' = <<>> /\ Still
    BY <1>2, <1>7, ModeChanges
  <2> QED BY <1>3, <1>5, <2>1 DEF WireTypes, Still
<1>8. CASE ~(l = "mode" /\ v # lines["mode"]) /\ ~(l = "clk" /\ lines["clk"] = 0 /\ v = 1)
  <2>1. bits' = bits /\ Still
    BY <1>2, <1>8, SameLine
  <2> QED BY <1>3, <2>1 DEF WireTypes, Still
<1>9. CASE l = "clk" /\ lines["clk"] = 0 /\ v = 1 /\ Len(bits) < 7
  <2>1. bits' = Append(bits, lines["dat"]) /\ Still
    BY <1>2, <1>9, BitArrives
  <2>2. bits' \in Seq(0 .. 1) /\ Len(bits') = Len(bits) + 1
    BY <1>4, <2>1, OneMore DEF WireTypes
  <2>3. Len(bits') <= 7
    BY <1>6, <1>9, <2>2
  <2> QED BY <1>3, <2>1, <2>2, <2>3 DEF WireTypes, Still
<1>10. CASE l = "clk" /\ lines["clk"] = 0 /\ v = 1 /\ Len(bits) = 7
  <2> DEFINE byte == Value(Append(bits, lines["dat"]))
  <2>1. /\ bits' = <<>> /\ byte \in 0 .. 255
        /\ lines["mode"] = 0 => sel' = byte /\ UNCHANGED <<ext, chip, settled>>
        /\ lines["mode"] = 1 =>
             /\ sel' = sel
             /\ ext' = IF sel = 20 /\ byte \in 192 .. 223 THEN byte - 192 ELSE ext
             /\ Take(UdaData(byte), c)
    BY <1>2, <1>10, ByteArrives
  <2> HIDE DEF byte
  <2>2. bits' = <<>> /\ byte \in 0 .. 255
    BY <2>1
  <2>3. CASE lines["mode"] = 0
    <3>1. sel' = byte /\ UNCHANGED <<ext, chip, settled>>
      BY <2>1, <2>3
    <3> QED BY <1>3, <1>5, <2>2, <3>1 DEF WireTypes
  <2>4. CASE lines["mode"] = 1
    <3>1. UdaData(byte) # <<>> => UdaData(byte)[2] \in 0 .. 511
      <4>1. UdaData(byte) # <<>> => UdaData(byte)[2] \in 0 .. 255
        BY <2>2, UdaDataType, Zenon
      <4> QED BY <4>1
    <3>2. chip' \in [Regs -> 0 .. 511] /\ settled' \subseteq Regs
      BY <2>1, <2>4, <3>1, TakeType, SMTT(30)
    <3>3. sel' \in 0 .. 255 /\ ext' \in 0 .. 31
      <4>1. sel' = sel
            /\ ext' = IF sel = 20 /\ byte \in 192 .. 223 THEN byte - 192 ELSE ext
        BY <2>1, <2>4
      <4> QED BY <2>2, <4>1 DEF WireTypes
    <3> QED BY <1>3, <1>5, <2>2, <3>2, <3>3 DEF WireTypes
  <2> QED BY <1>4, <2>3, <2>4
<1>11. Len(bits) < 7 \/ Len(bits) = 7
  <2>1. \A m \in Nat : m <= 7 => m < 7 \/ m = 7
    OBVIOUS
  <2> QED BY <1>6, <2>1, Zenon
<1> QED BY <1>7, <1>8, <1>9, <1>10, <1>11, Zenon

(***************************************************************************)
(* The wm8976 sees one setting.                                            *)
(***************************************************************************)
(* Any number of bits give a number. *)
LEMMA WordType ==
  ASSUME NEW b \in Seq(0 .. 1)
  PROVE  Word(b) \in Nat
<1> DEFINE n == Len(b)
           Fold(v) == [i \in 0 .. n |-> IF i = 0 THEN 0 ELSE v[i - 1] * 2 + b[i]]
           v == CHOOSE v : v = Fold(v)
<1>1. Word(b) = v[n] /\ n \in Nat
  BY DEF Word
<1>2. \A i \in 1 .. n : b[i] \in 0 .. 1
  BY ElementOfSeq, Zenon
<1>3. v = Fold(v)
  <2>1. \E u : IsWord(u, b, n)
    BY <1>1, WordExists, Zenon
  <2>2. \E u : u = Fold(u)
    BY <2>1, Zenon DEF IsWord
  <2> HIDE DEF Fold
  <2> QED BY <2>2, Zenon
<1> HIDE DEF v
<1>4. \A i \in 0 .. n : v[i] = IF i = 0 THEN 0 ELSE v[i - 1] * 2 + b[i]
  BY <1>3, Zenon
<1> HIDE DEF n, Fold
<1>5. v[0] = 0 /\ \A i \in 0 .. n - 1 : v[i + 1] = v[i] * 2 + b[i + 1]
  BY <1>1, <1>4
<1> DEFINE T == { k \in Nat : k <= n => v[k] \in Nat }
<1>6. 0 \in T
  BY <1>5
<1>7. ASSUME NEW k \in T PROVE k + 1 \in T
  <2>1. CASE k + 1 <= n
    <3>1. k \in 0 .. n - 1 /\ v[k] \in Nat /\ k + 1 \in 1 .. n
      BY <1>1, <2>1
    <3>2. v[k + 1] = v[k] * 2 + b[k + 1] /\ b[k + 1] \in 0 .. 1
      BY <1>2, <1>5, <3>1
    <3> QED BY <3>1, <3>2
  <2> QED BY <2>1
<1>8. T \subseteq Nat
  OBVIOUS
<1> HIDE DEF T
<1>9. T = Nat
  BY <1>6, <1>7, <1>8, NatSetInduction
<1>10. n \in T => v[n] \in Nat
  BY <1>1 DEF T
<1> QED BY <1>1, <1>9, <1>10

WmSet(s, c) == lines' = [lines EXCEPT ![s[1]] = s[2]] /\ WmSees(s[1], s[2], c)

(* Nothing but a rise of clk or of csb matters to the wm8976. *)
LEMMA WmSame ==
  ASSUME NEW line, NEW v, NEW c, WmSees(line, v, c),
         ~(line = "mode" /\ lines["mode"] = 0 /\ v = 1),
         ~(line = "clk" /\ lines["clk"] = 0 /\ v = 1)
  PROVE  bits' = bits /\ Still
  BY SMT DEF WmSees, Quiet, Still

(* A rise of clk shifts a bit in; the oldest of sixteen is lost. *)
LEMMA WmClock ==
  ASSUME NEW c, WmSees("clk", 1, c), lines["clk"] = 0
  PROVE  /\ bits' = Append(IF Len(bits) = 16 THEN Tail(bits) ELSE bits, lines["dat"])
         /\ Still
  BY SMT DEF WmSees, Quiet, Still

(* A rise of csb takes the word. *)
LEMMA WmLatch ==
  ASSUME NEW c, WmSees("mode", 1, c), lines["mode"] = 0
  PROVE  /\ UNCHANGED <<bits, sel, ext>>
         /\ \E w : /\ Take(w, c)
                   /\ w = IF Word(bits) \div 512 \in Regs
                          THEN <<Word(bits) \div 512, Word(bits) % 512>> ELSE <<>>
  BY SMT DEF WmSees

(* The bits that the receiver keeps when another arrives. *)
LEMMA Shifted ==
  ASSUME NEW b \in Seq(0 .. 1), Len(b) <= 16, NEW e \in 0 .. 1
  PROVE  LET new == Append(IF Len(b) = 16 THEN Tail(b) ELSE b, e)
         IN  /\ new \in Seq(0 .. 1) /\ Len(new) <= 16 /\ new[Len(new)] = e
             /\ Len(new) = IF Len(b) = 16 THEN 16 ELSE Len(b) + 1
             /\ \A i \in 1 .. Len(new) - 1 : new[i] = b[i + Len(b) + 1 - Len(new)]
<1> DEFINE kept == IF Len(b) = 16 THEN Tail(b) ELSE b
           new == Append(kept, e)
<1>1. Len(b) \in Nat
  OBVIOUS
<1>2. /\ kept \in Seq(0 .. 1) /\ Len(kept) = IF Len(b) = 16 THEN 15 ELSE Len(b)
      /\ \A i \in 1 .. Len(kept) : kept[i] = b[i + Len(b) - Len(kept)]
  <2>1. CASE Len(b) = 16
    <3>1. b # <<>>
      BY <2>1, SMTT(30)
    <3>2. Tail(b) \in Seq(0 .. 1) /\ Len(Tail(b)) = Len(b) - 1
          /\ \A i \in 1 .. Len(Tail(b)) : Tail(b)[i] = b[i + 1]
      BY <3>1, HeadTailProperties, Zenon
    <3>3. kept = Tail(b) /\ Len(kept) = 15
      BY <2>1, <3>2
    <3>4. \A i \in 1 .. 15 : kept[i] = b[i + 1]
      BY <2>1, <3>2, <3>3
    <3>5. \A i \in 1 .. 15 : i + 16 - 15 = i + 1
      OBVIOUS
    <3> HIDE DEF kept
    <3> QED BY <2>1, <3>2, <3>3, <3>4, <3>5
  <2>2. CASE Len(b) # 16
    <3>1. kept = b
      BY <2>2
    <3> HIDE DEF kept
    <3> QED BY <1>1, <2>2, <3>1
  <2> QED BY <2>1, <2>2
<1> HIDE DEF kept
<1>3. /\ new \in Seq(0 .. 1) /\ Len(new) = Len(kept) + 1
      /\ \A i \in 1 .. Len(kept) : new[i] = kept[i]
      /\ new[Len(kept) + 1] = e
  BY <1>2, OneMore, Zenon
<1> HIDE DEF new
<1>4. PICK m \in Nat, l \in Nat : m = Len(b) /\ l = Len(kept)
  BY <1>1, <1>2
<1>5. /\ new \in Seq(0 .. 1) /\ Len(new) <= 16 /\ new[Len(new)] = e
      /\ Len(new) = IF Len(b) = 16 THEN 16 ELSE Len(b) + 1
  <2>1. m <= 16 /\ l = IF m = 16 THEN 15 ELSE m
    BY <1>2, <1>4
  <2>2. Len(new) = l + 1 /\ new[l + 1] = e
    BY <1>3, <1>4
  <2>3. l + 1 <= 16 /\ l + 1 = IF m = 16 THEN 16 ELSE m + 1
    BY <2>1
  <2> QED BY <1>3, <1>4, <2>2, <2>3
<1>6. ASSUME NEW i \in 1 .. Len(new) - 1 PROVE new[i] = b[i + Len(b) + 1 - Len(new)]
  <2>1. i \in 1 .. l /\ i + m + 1 - Len(new) = i + m - l
    BY <1>3, <1>4
  <2>2. new[i] = b[i + m - l]
    BY <1>2, <1>3, <1>4, <2>1
  <2> QED BY <1>4, <2>1, <2>2
<1> QED BY <1>5, <1>6 DEF new, kept

(* No setting makes the wm8976 keep more than sixteen bits. *)
LEMMA WmTypes ==
  ASSUME WireTypes, Len(bits) <= 16, NEW s \in Setting, NEW c, WmSet(s, c)
  PROVE  WireTypes' /\ Len(bits') <= 16
<1>1. PICK l \in {"mode", "dat", "clk"}, v \in 0 .. 1 : s = <<l, v>>
  BY DEF Setting
<1>2. lines' = [lines EXCEPT ![l] = v] /\ WmSees(l, v, c)
  BY <1>1 DEF WmSet
<1>3. lines' \in [{"mode", "dat", "clk"} -> 0 .. 1]
  BY <1>2, LineType
<1>4. bits \in Seq(0 .. 1) /\ lines["dat"] \in 0 .. 1
  BY DEF WireTypes
<1>5. CASE l = "mode" /\ lines["mode"] = 0 /\ v = 1
  <2>1. UNCHANGED <<bits, sel, ext>>
    BY <1>2, <1>5, WmLatch
  <2>2. PICK w : /\ Take(w, c)
                 /\ w = IF Word(bits) \div 512 \in Regs
                        THEN <<Word(bits) \div 512, Word(bits) % 512>> ELSE <<>>
    BY <1>2, <1>5, WmLatch
  <2>3. Word(bits) % 512 \in 0 .. 511
    <3>1. \A x \in Nat : (x % 512) \in 0 .. 511
      OBVIOUS
    <3> QED BY <1>4, <3>1, WordType, Zenon
  <2>4. w # <<>> => w[2] \in 0 .. 511
    BY <2>2, <2>3
  <2>5. chip' \in [Regs -> 0 .. 511] /\ settled' \subseteq Regs
    <3>1. Take(w, c) /\ (w # <<>> => w[2] \in 0 .. 511)
      BY <2>2, <2>4, Zenon
    <3> QED BY <3>1, TakeType
  <2> QED BY <1>3, <2>1, <2>5 DEF WireTypes
<1>6. CASE l = "clk" /\ lines["clk"] = 0 /\ v = 1
  <2>1. /\ bits' = Append(IF Len(bits) = 16 THEN Tail(bits) ELSE bits, lines["dat"])
        /\ Still
    BY <1>2, <1>6, WmClock
  <2>2. bits' \in Seq(0 .. 1) /\ Len(bits') <= 16
    BY <1>4, <2>1, Shifted, Zenon
  <2> QED BY <1>3, <2>1, <2>2 DEF WireTypes, Still
<1>7. CASE /\ ~(l = "mode" /\ lines["mode"] = 0 /\ v = 1)
           /\ ~(l = "clk" /\ lines["clk"] = 0 /\ v = 1)
  <2>1. bits' = bits /\ Still
    BY <1>2, <1>7, WmSame
  <2> QED BY <1>3, <2>1, Zenon DEF WireTypes, Still
<1> QED BY <1>5, <1>6, <1>7

(* The word is taken apart into the register and the value it was made of. *)
LEMMA WordParts ==
  ASSUME NEW w \in WmLegal
  PROVE  /\ WmWord(w) \in Nat /\ WmWord(w) \in Words
         /\ WmWord(w) \div 512 = w[1] /\ WmWord(w) % 512 = w[2]
         /\ w[1] \in Regs /\ w = <<w[1], w[2]>> /\ w # <<>>
<1>1. PICK r \in 0 .. 57, v \in 0 .. 511 : r = w[1] /\ v = w[2]
  BY Zenon DEF Regs, WmLegal
<1>2. WmWord(w) = r * 512 + v
  BY <1>1, Zenon DEF WmWord
<1>3. /\ r * 512 + v \in Nat /\ r * 512 + v < 65536
      /\ (r * 512 + v) \div 512 = r /\ (r * 512 + v) % 512 = v
  OBVIOUS
<1>4. w[1] \in Regs /\ w = <<w[1], w[2]>> /\ w # <<>>
  BY DEF WmLegal
<1>5. WmWord(w) \in Words
  BY <1>2, <1>3 DEF Words
<1> QED BY <1>1, <1>2, <1>3, <1>4, <1>5

(* A rise of csb forgets registers or keeps them, but adds none. *)
LEMMA WmSettled ==
  ASSUME NEW c, WmSees("mode", 1, c), lines["mode"] \in 0 .. 1
  PROVE  UNCHANGED <<bits, sel, ext>> /\ (settled' = settled \/ settled' = {})
<1>1. CASE lines["mode"] = 0
  <2>1. ASSUME NEW w, Take(w, c) PROVE settled' = settled \/ settled' = {}
    BY <2>1, Zenon DEF Take
  <2> QED BY <1>1, <2>1, WmLatch
<1>2. CASE lines["mode"] # 0
  BY <1>2, WmSame DEF Still
<1> QED BY <1>1, <1>2

(* One setting of wm8976_write_reg. *)
LEMMA WmStepNext ==
  ASSUME codec = "wm8976", codec' = codec, WireTypes, Len(bits) <= 16, NEW c,
         NEW w \in WmLegal, w = todo[c][1], NEW n \in 2 .. 55,
         WmStep(w, n), WmSet(WmSetting(WmWord(w), 55 - n), c)
  PROVE  WmStep(w, n - 1)' /\ Effect(w)
<1>1. PICK p \in 0 .. 53, word \in Nat : p = 55 - n /\ 55 - (n - 1) = p + 1 /\ word = WmWord(w)
  <2>1. PICK p \in 0 .. 53 : p = 55 - n /\ 55 - (n - 1) = p + 1
    OBVIOUS
  <2>2. WmWord(w) \in Nat
    BY WordParts
  <2> QED BY <2>1, <2>2, Zenon
<1>2. WmPlace(word, p) /\ (p = 0 => settled = {} \/ Idle) /\ (p >= 53 => chip[w[1]] = w[2])
  BY <1>1 DEF WmStep
<1>3. WmSet(WmSetting(word, p), c)
  BY <1>1
<1>4. lines \in [{"mode", "dat", "clk"} -> 0 .. 1] /\ bits \in Seq(0 .. 1) /\ Len(bits) \in Nat
  BY DEF WireTypes
<1>5. ASSUME NEW l \in {"mode", "dat", "clk"}, NEW v \in 0 .. 1, WmSet(<<l, v>>, c)
      PROVE  /\ WmSees(l, v, c) /\ lines'[l] = v
             /\ \A m \in {"mode", "dat", "clk"} : m # l => lines'[m] = lines[m]
  <2>1. lines' = [lines EXCEPT ![l] = v] /\ WmSees(l, v, c)
    BY <1>5 DEF WmSet
  <2> QED BY <1>4, <2>1
<1>6. ASSUME WmPlace(word, p + 1)', p + 1 >= 53 => chip'[w[1]] = w[2]
      PROVE  WmStep(w, n - 1)'
  BY <1>1, <1>6 DEF WmStep
<1>7. Still => Effect(w)
  BY DEF Still, Effect
<1>8. ASSUME NEW k \in 4 .. 51, lines'["mode"] = 1,
             BitSent(k - 3, Bit(word, 16 - (k \div 3)))', BitsSent(word, (k - 3) \div 3)'
      PROVE  WmPlace(word, k)'
  <2>1. k # 52
    OBVIOUS
  <2> QED BY <1>8, <2>1 DEF WmPlace
<1>9. CASE p = 0
  <2>1. WmSet(<<"mode", 1>>, c)
    BY <1>3, <1>9 DEF WmSetting
  <2>2. WmSees("mode", 1, c) /\ lines'["mode"] = 1
    BY <1>5, <2>1
  <2>3. WmPlace(word, 1)'
    BY <2>2 DEF WmPlace
  <2>4. Effect(w)
    <3>1. CASE settled = {}
      <4>1. settled' = {}
        BY <1>4, <2>2, <3>1, WmSettled
      <4> QED BY <3>1, <4>1 DEF Effect
    <3>2. CASE Idle
      <4>1. Still
        BY <2>2, <3>2, WmSame DEF Idle
      <4> QED BY <1>7, <4>1
    <3> QED BY <1>2, <1>9, <3>1, <3>2
  <2> QED BY <1>6, <1>9, <2>3, <2>4
<1>10. CASE p \in {1, 53}
  <2>1. WmSet(<<"dat", 1>>, c) /\ lines["mode"] = 1
    BY <1>2, <1>3, <1>10 DEF WmSetting, WmPlace
  <2>2. WmSees("dat", 1, c) /\ lines'["mode"] = 1
    BY <1>5, <2>1
  <2>3. Still
    BY <2>2, WmSame
  <2>4. WmPlace(word, p + 1)'
    <3>1. CASE p = 1
      BY <2>2, <3>1 DEF WmPlace
    <3>2. CASE p = 53
      BY <2>2, <3>2 DEF WmPlace
    <3> QED BY <1>10, <3>1, <3>2
  <2>5. p + 1 >= 53 => chip'[w[1]] = w[2]
    BY <1>2, <1>10, <2>3 DEF Still
  <2> QED BY <1>6, <1>7, <2>3, <2>4, <2>5
<1>11. CASE p = 2
  <2>1. WmSet(<<"clk", 1>>, c) /\ lines["mode"] = 1
    BY <1>2, <1>3, <1>11 DEF WmSetting, WmPlace
  <2>2. WmSees("clk", 1, c) /\ lines'["mode"] = 1 /\ lines'["clk"] = 1
    BY <1>5, <2>1
  <2>3. Still /\ bits' \in Seq(0 .. 1)
    <3>1. CASE lines["clk"] = 0
      <4>1. /\ bits' = Append(IF Len(bits) = 16 THEN Tail(bits) ELSE bits, lines["dat"])
            /\ Still
        BY <2>2, <3>1, WmClock
      <4>2. lines["dat"] \in 0 .. 1
        BY <1>4
      <4> QED BY <1>4, <4>1, <4>2, Shifted, Zenon
    <3>2. CASE lines["clk"] # 0
      BY <1>4, <2>2, <3>2, WmSame
    <3> QED BY <3>1, <3>2
  <2>4. BitSent(0, Bit(word, 15))' /\ BitsSent(word, 0)'
    <3>1. Len(bits') \in Nat
      BY <2>3
    <3> QED BY <2>2, <3>1 DEF BitSent, BitsSent
  <2>5. WmPlace(word, 3)'
    BY <2>2, <2>4 DEF WmPlace
  <2>6. ~(p + 1 >= 53)
    BY <1>11
  <2> QED BY <1>6, <1>11, <1>7, <2>3, <2>5, <2>6
<1>12. CASE p \in 3 .. 50
  <2>1. PICK t \in 1 .. 16, r \in 0 .. 2 : p = 3 * t + r
    <3>1. p = 3 * (p \div 3) + (p % 3) /\ p \div 3 \in 1 .. 16 /\ (p % 3) \in 0 .. 2
      BY <1>12
    <3> QED BY <3>1
  <2>2. p \div 3 = t /\ p % 3 = r
    BY <2>1
  <2>3. /\ lines["mode"] = 1 /\ lines["clk"] = IF r = 0 THEN 1 ELSE 0
        /\ r = 2 => lines["dat"] = Bit(word, 16 - t)
        /\ BitsSent(word, t - 1)
    <3>1. (p - 3) % 3 = r /\ (p - 3) \div 3 = t - 1
      BY <2>1
    <3>2. p \in 3 .. 51 /\ p \in 1 .. 51
      BY <1>12
    <3> QED BY <1>2, <2>2, <3>1, <3>2 DEF WmPlace, BitSent
  <2>4. ~(p + 1 >= 53) /\ p + 1 \in 4 .. 51
    BY <1>12
  <2>5. CASE r = 0
    <3>1. WmSet(<<"clk", 0>>, c)
      BY <1>3, <1>12, <2>2, <2>5 DEF WmSetting
    <3>2. WmSees("clk", 0, c) /\ lines'["mode"] = 1 /\ lines'["clk"] = 0
      BY <1>5, <2>3, <3>1
    <3>3. Still /\ bits' = bits
      BY <3>2, WmSame
    <3>4. (p + 1) \div 3 = t /\ ((p + 1) - 3) % 3 = 1 /\ ((p + 1) - 3) \div 3 = t - 1
      BY <2>1, <2>5
    <3>5. BitSent((p + 1) - 3, Bit(word, 16 - t))' /\ BitsSent(word, t - 1)'
      BY <2>3, <3>2, <3>3, <3>4 DEF BitSent, BitsSent
    <3>6. WmPlace(word, p + 1)'
      BY <1>8, <2>4, <3>2, <3>4, <3>5
    <3> QED BY <1>6, <1>7, <2>4, <3>3, <3>6
  <2>6. CASE r = 1
    <3>1. WmSet(<<"dat", Bit(word, 16 - t)>>, c)
      BY <1>3, <1>12, <2>2, <2>6 DEF WmSetting
    <3>2. Bit(word, 16 - t) \in 0 .. 1
      <4>1. 16 - t \in 0 .. 15
        OBVIOUS
      <4> QED BY <4>1, BitType, Zenon
    <3>3. /\ WmSees("dat", Bit(word, 16 - t), c) /\ lines'["mode"] = 1 /\ lines'["clk"] = 0
          /\ lines'["dat"] = Bit(word, 16 - t)
      BY <1>5, <2>3, <2>6, <3>1, <3>2
    <3>4. Still /\ bits' = bits
      BY <3>3, WmSame
    <3>5. (p + 1) \div 3 = t /\ ((p + 1) - 3) % 3 = 2 /\ ((p + 1) - 3) \div 3 = t - 1
      BY <2>1, <2>6
    <3>6. BitSent((p + 1) - 3, Bit(word, 16 - t))' /\ BitsSent(word, t - 1)'
      <4>1. BitSent((p + 1) - 3, Bit(word, 16 - t))'
        BY <3>3, <3>5 DEF BitSent
      <4>2. BitsSent(word, t - 1)'
        BY <2>3, <3>4, Zenon DEF BitsSent
      <4> QED BY <4>1, <4>2
    <3>7. WmPlace(word, p + 1)'
      BY <1>8, <2>4, <3>3, <3>5, <3>6
    <3> QED BY <1>6, <1>7, <2>4, <3>4, <3>7
  <2>7. CASE r = 2
    <3>1. WmSet(<<"clk", 1>>, c)
      BY <1>3, <1>12, <2>2, <2>7 DEF WmSetting
    <3>2. WmSees("clk", 1, c) /\ lines'["mode"] = 1 /\ lines'["clk"] = 1
      BY <1>5, <2>3, <3>1
    <3>3. /\ bits' = Append(IF Len(bits) = 16 THEN Tail(bits) ELSE bits, lines["dat"])
          /\ Still /\ lines["dat"] = Bit(word, 16 - t) /\ lines["dat"] \in 0 .. 1
      BY <1>4, <2>3, <2>7, <3>2, WmClock
    <3>4. BitsSent(word, t)'
      <4>1. /\ Len(bits') = IF Len(bits) = 16 THEN 16 ELSE Len(bits) + 1
            /\ bits'[Len(bits')] = lines["dat"]
            /\ \A i \in 1 .. Len(bits') - 1 : bits'[i] = bits[i + Len(bits) + 1 - Len(bits')]
        BY <1>4, <3>3, Shifted, Zenon
      <4>2. PICK l \in Nat, m \in Nat : l = Len(bits) /\ m = Len(bits')
        BY <1>4, <4>1
      <4>3. l <= 16 /\ m = (IF l = 16 THEN 16 ELSE l + 1) /\ l >= t - 1
        BY <2>3, <4>1, <4>2 DEF BitsSent
      <4>4. m >= t
        BY <2>1, <4>3
      <4>5. ASSUME NEW i \in 1 .. t PROVE bits'[m - t + i] = Bit(word, 16 - i)
        <5>1. CASE i = t
          <6>1. m - t + i = m
            BY <4>2, <5>1
          <6> QED BY <3>3, <4>1, <4>2, <5>1, <6>1
        <5>2. CASE i # t
          <6>1. /\ i \in 1 .. t - 1 /\ m - t + i \in 1 .. m - 1
                /\ (m - t + i) + l + 1 - m = l - (t - 1) + i
            BY <2>1, <4>3, <4>4, <5>2
          <6>2. bits[l - (t - 1) + i] = Bit(word, 16 - i)
            BY <2>3, <4>2, <6>1 DEF BitsSent
          <6>3. bits'[m - t + i] = bits[(m - t + i) + l + 1 - m]
            BY <4>1, <4>2, <6>1
          <6> QED BY <6>1, <6>2, <6>3
        <5> QED BY <5>1, <5>2
      <4> QED BY <4>2, <4>4, <4>5 DEF BitsSent
    <3>5. ((p + 1) - 3) % 3 = 0 /\ ((p + 1) - 3) \div 3 = t
      BY <2>1, <2>7
    <3>6. ASSUME NEW b PROVE BitSent((p + 1) - 3, b)'
      BY <3>2, <3>5 DEF BitSent
    <3>7. WmPlace(word, p + 1)'
      BY <1>8, <2>4, <3>2, <3>4, <3>5, <3>6
    <3> QED BY <1>6, <1>7, <2>4, <3>3, <3>7
  <2> QED BY <2>1, <2>5, <2>6, <2>7
<1>13. CASE p = 51
  <2>1. WmSet(<<"mode", 0>>, c) /\ BitsSent(word, 16)
    BY <1>2, <1>3, <1>13 DEF WmSetting, WmPlace
  <2>2. WmSees("mode", 0, c) /\ lines'["mode"] = 0
    BY <1>5, <2>1
  <2>3. Still /\ bits' = bits
    BY <2>2, WmSame
  <2>4. BitsSent(word, 16)'
    BY <2>1, <2>3 DEF BitsSent
  <2>5. WmPlace(word, 52)'
    BY <2>2, <2>4 DEF WmPlace
  <2>6. ~(p + 1 >= 53)
    BY <1>13
  <2> QED BY <1>6, <1>13, <1>7, <2>3, <2>5, <2>6
<1>14. CASE p = 52
  <2>1. WmSet(<<"mode", 1>>, c) /\ lines["mode"] = 0 /\ BitsSent(word, 16)
    BY <1>2, <1>3, <1>14 DEF WmSetting, WmPlace
  <2>2. WmSees("mode", 1, c) /\ lines'["mode"] = 1
    BY <1>5, <2>1
  <2>3. Len(bits) = 16 /\ \A i \in 1 .. 16 : bits[i] = Bit(word, 16 - i)
    <3>1. Len(bits) >= 16 /\ \A i \in 1 .. 16 : bits[Len(bits) - 16 + i] = Bit(word, 16 - i)
      BY <2>1, Zenon DEF BitsSent
    <3>2. Len(bits) = 16
      <4>1. \A m \in Nat : m >= 16 /\ m <= 16 => m = 16
        OBVIOUS
      <4> QED BY <1>4, <3>1, <4>1, Zenon
    <3>3. \A i \in 1 .. 16 : 16 - 16 + i = i
      OBVIOUS
    <3> QED BY <3>1, <3>2, <3>3, Zenon
  <2>4. Word(bits) = word
    <3>1. word \in Words
      BY <1>1, WordParts, Zenon
    <3> QED BY <1>4, <2>3, <3>1, WordOfBits, Zenon
  <2>5. Word(bits) \div 512 = w[1] /\ Word(bits) % 512 = w[2] /\ w[1] \in Regs
        /\ w = <<w[1], w[2]>> /\ w # <<>>
    <3>1. w \in WmLegal /\ Word(bits) = WmWord(w)
      BY <1>1, <2>4, Zenon
    <3>2. w[1] \in Regs /\ w = <<w[1], w[2]>> /\ w # <<>>
      BY DEF WmLegal
    <3>3. WmWord(w) \div 512 = w[1] /\ WmWord(w) % 512 = w[2]
      BY <3>1, WordParts, Zenon
    <3> QED BY <3>1, <3>2, <3>3
  <2>6. Take(w, c)
    BY <2>1, <2>2, <2>5, WmLatch
  <2>7. /\ chip' = [chip EXCEPT ![w[1]] = w[2]]
        /\ settled' = settled \/ (settled' = {} /\ w[1] = ResetReg)
    BY <2>5, <2>6, Taken
  <2>8. chip'[w[1]] = w[2]
    BY <2>5, <2>7 DEF WireTypes
  <2>9. WmPlace(word, 53)'
    BY <2>2 DEF WmPlace
  <2> QED BY <1>6, <1>14, <2>7, <2>8, <2>9 DEF Effect
<1> QED BY <1>9, <1>10, <1>11, <1>12, <1>13, <1>14

(***************************************************************************)
(* The scripts of the writes.                                              *)
(***************************************************************************)
LEMMA WmWrite ==
  ASSUME NEW w \in WmLegal
  PROVE  /\ wm8976_write_reg(w[1], w[2]) \in Seq(Setting)
         /\ Len(wm8976_write_reg(w[1], w[2])) = 55
         /\ \A i \in 1 .. 55 : wm8976_write_reg(w[1], w[2])[i] = WmSetting(WmWord(w), i - 1)
<1>1. PICK word \in Nat : word = WmWord(w) /\ word = w[1] * 512 + (w[2] % 512)
  <2>1. WmWord(w) \in Nat
    BY WordParts
  <2>2. w[2] % 512 = w[2]
    <3>1. \A x \in 0 .. 511 : x % 512 = x
      OBVIOUS
    <3>2. w[2] \in 0 .. 511
      BY DEF WmLegal
    <3> QED BY <3>1, <3>2, Zenon
  <2>3. WmWord(w) = w[1] * 512 + (w[2] % 512)
    BY <2>2 DEF WmWord
  <2> QED BY <2>1, <2>3, Zenon
<1> DEFINE Up == <<set_csb(1), set_dat(1), set_clk(1)>>
           Body == [k \in 1 .. 48 |-> CASE k % 3 = 1 -> set_clk(0)
                                        [] k % 3 = 2 -> set_dat(Bit(word, 15 - (k - 1) \div 3))
                                        [] k % 3 = 0 -> set_clk(1)]
           Latch == <<set_csb(0), set_csb(1), set_dat(1), set_clk(1)>>
<1>2. Up \in Seq(Setting) /\ Len(Up) = 3 /\ Latch \in Seq(Setting) /\ Len(Latch) = 4
  BY DEF Setting, set_clk, set_dat, set_csb
<1>3. /\ Up[1] = <<"mode", 1>> /\ Up[2] = <<"dat", 1>> /\ Up[3] = <<"clk", 1>>
      /\ Latch[1] = <<"mode", 0>> /\ Latch[2] = <<"mode", 1>> /\ Latch[3] = <<"dat", 1>>
      /\ Latch[4] = <<"clk", 1>>
  BY DEF set_clk, set_dat, set_csb
<1>4. ASSUME NEW k \in 1 .. 48
      PROVE  Body[k] = WmSetting(word, k + 2) /\ Body[k] \in Setting
  <2>1. PICK t \in 1 .. 16, r \in 0 .. 2 : k + 2 = 3 * t + r
    <3>1. k + 2 = 3 * ((k + 2) \div 3) + ((k + 2) % 3) /\ (k + 2) \div 3 \in 1 .. 16
          /\ ((k + 2) % 3) \in 0 .. 2
      OBVIOUS
    <3> QED BY <3>1
  <2>2. (k + 2) \div 3 = t /\ (k + 2) % 3 = r /\ 15 - ((k - 1) \div 3) = 16 - t
    BY <2>1
  <2>3. k + 2 \in 3 .. 50
    OBVIOUS
  <2>4. Bit(word, 16 - t) \in 0 .. 1
    <3>1. 16 - t \in 0 .. 15
      OBVIOUS
    <3> QED BY <3>1, BitType, Zenon
  <2>5. WmSetting(word, k + 2) = IF r = 0 THEN <<"clk", 0>>
                                 ELSE IF r = 1 THEN <<"dat", Bit(word, 16 - t)>>
                                 ELSE <<"clk", 1>>
    BY <2>2, <2>3 DEF WmSetting
  <2>6. CASE r = 0
    <3>1. k % 3 = 1
      BY <2>1, <2>6
    <3> QED BY <2>5, <2>6, <3>1 DEF set_clk, Setting
  <2>7. CASE r = 1
    <3>1. k % 3 = 2
      BY <2>1, <2>7
    <3> QED BY <2>2, <2>4, <2>5, <2>7, <3>1 DEF set_dat, Setting
  <2>8. CASE r = 2
    <3>1. k % 3 = 0
      BY <2>1, <2>8
    <3> QED BY <2>5, <2>8, <3>1 DEF set_clk, Setting
  <2> QED BY <2>6, <2>7, <2>8
<1>5. Body \in Seq(Setting) /\ Len(Body) = 48
  <2>1. Body \in [1 .. 48 -> Setting] /\ 48 \in Nat
    BY <1>4
  <2> HIDE DEF Body
  <2> QED BY <2>1, FunctionIsSeq, Zenon
<1>6. wm8976_write_reg(w[1], w[2]) = (Up \o Body) \o Latch
  BY <1>1 DEF wm8976_write_reg
<1> HIDE DEF Up, Body, Latch
<1> DEFINE UpBody == Up \o Body
           All == UpBody \o Latch
<1> HIDE DEF UpBody, All
<1>7. /\ UpBody \in Seq(Setting) /\ Len(UpBody) = 51
      /\ \A i \in 1 .. 51 : UpBody[i] = IF i <= 3 THEN Up[i] ELSE Body[i - 3]
  <2>1. /\ UpBody \in Seq(Setting) /\ Len(UpBody) = Len(Up) + Len(Body)
        /\ \A i \in 1 .. Len(Up) + Len(Body) :
             UpBody[i] = IF i <= Len(Up) THEN Up[i] ELSE Body[i - Len(Up)]
    BY <1>2, <1>5, ConcatProperties, ZenonT(40) DEF UpBody
  <2>2. Len(Up) = 3 /\ Len(Body) = 48 /\ 3 + 48 = 51
    BY <1>2, <1>5
  <2> QED BY <2>1, <2>2
<1>8. /\ All \in Seq(Setting) /\ Len(All) = 55
      /\ \A i \in 1 .. 55 : All[i] = IF i <= 51 THEN UpBody[i] ELSE Latch[i - 51]
  <2>1. /\ All \in Seq(Setting) /\ Len(All) = Len(UpBody) + Len(Latch)
        /\ \A i \in 1 .. Len(UpBody) + Len(Latch) :
             All[i] = IF i <= Len(UpBody) THEN UpBody[i] ELSE Latch[i - Len(UpBody)]
    BY <1>2, <1>7, ConcatProperties, ZenonT(40) DEF All
  <2>2. Len(UpBody) = 51 /\ Len(Latch) = 4 /\ 51 + 4 = 55
    BY <1>2, <1>7
  <2> QED BY <2>1, <2>2
<1>9. /\ All[1] = Up[1] /\ All[2] = Up[2] /\ All[3] = Up[3]
      /\ All[52] = Latch[1] /\ All[53] = Latch[2] /\ All[54] = Latch[3] /\ All[55] = Latch[4]
  <2>1. /\ \A i \in 1 .. 51 : UpBody[i] = IF i <= 3 THEN Up[i] ELSE Body[i - 3]
        /\ \A i \in 1 .. 55 : All[i] = IF i <= 51 THEN UpBody[i] ELSE Latch[i - 51]
    BY <1>7, <1>8, Zenon
  <2>2. \A i \in 1 .. 3 : All[i] = Up[i]
    BY <2>1
  <2>3. All[52] = Latch[1] /\ All[53] = Latch[2] /\ All[54] = Latch[3] /\ All[55] = Latch[4]
    BY <2>1
  <2> QED BY <2>2, <2>3
<1>10. \A k \in 1 .. 48 : All[k + 3] = Body[k]
  <2>1. ASSUME NEW k \in 1 .. 48 PROVE All[k + 3] = Body[k]
    <3>1. k + 3 \in 1 .. 51 /\ ~(k + 3 <= 3) /\ (k + 3) - 3 = k /\ k + 3 \in 1 .. 55
      OBVIOUS
    <3>2. /\ \A i \in 1 .. 51 : UpBody[i] = IF i <= 3 THEN Up[i] ELSE Body[i - 3]
          /\ \A i \in 1 .. 55 : All[i] = IF i <= 51 THEN UpBody[i] ELSE Latch[i - 51]
      BY <1>7, <1>8, Zenon
    <3>3. All[k + 3] = UpBody[k + 3]
      BY <3>1, <3>2
    <3>4. UpBody[k + 3] = Body[(k + 3) - 3]
      BY <3>1, <3>2
    <3> QED BY <3>1, <3>3, <3>4
  <2> QED BY <2>1
<1>11. ASSUME NEW i \in 1 .. 55 PROVE All[i] = WmSetting(word, i - 1)
  <2>1. CASE i \in 1 .. 3
    <3>1. i = 1 \/ i = 2 \/ i = 3
      BY <2>1
    <3> QED BY <1>3, <1>9, <3>1 DEF WmSetting
  <2>2. CASE i \in 4 .. 51
    <3>1. i - 3 \in 1 .. 48 /\ (i - 3) + 3 = i /\ (i - 3) + 2 = i - 1
      BY <2>2
    <3>2. All[i] = Body[i - 3]
      BY <1>10, <3>1
    <3>3. Body[i - 3] = WmSetting(word, (i - 3) + 2)
      BY <1>4, <3>1
    <3> QED BY <3>1, <3>2, <3>3
  <2>3. CASE i \in 52 .. 55
    <3>1. i = 52 \/ i = 53 \/ i = 54 \/ i = 55
      BY <2>3
    <3> QED BY <1>3, <1>9, <3>1 DEF WmSetting
  <2> QED BY <2>1, <2>2, <2>3
<1>12. wm8976_write_reg(w[1], w[2]) = All
  BY <1>6 DEF All, UpBody
<1> QED BY <1>1, <1>8, <1>11, <1>12, Zenon

(* The script of every write, with its settings counted from the end. *)
LEMMA Script ==
  ASSUME codec \in {"uda1341", "wm8976"}, NEW w \in Legal
  PROVE  /\ Settings(w) \in Seq(Setting) /\ Len(Settings(w)) = Length(w)
         /\ \A i \in 1 .. Length(w) : Settings(w)[i] = SettingLeft(w, Length(w) - i + 1)
<1>1. CASE codec = "wm8976"
  <2>1. w \in WmLegal /\ Settings(w) = wm8976_write_reg(w[1], w[2]) /\ Length(w) = 55
    BY <1>1 DEF Legal, Settings, Length
  <2>2. ASSUME NEW i \in 1 .. 55 PROVE SettingLeft(w, 55 - i + 1) = WmSetting(WmWord(w), i - 1)
    <3>1. 55 - (55 - i + 1) = i - 1
      OBVIOUS
    <3> QED BY <1>1, <3>1 DEF SettingLeft
  <2>3. /\ Settings(w) \in Seq(Setting) /\ Len(Settings(w)) = 55
        /\ \A i \in 1 .. 55 : Settings(w)[i] = WmSetting(WmWord(w), i - 1)
    <3>1. /\ wm8976_write_reg(w[1], w[2]) \in Seq(Setting)
          /\ Len(wm8976_write_reg(w[1], w[2])) = 55
          /\ \A i \in 1 .. 55 : wm8976_write_reg(w[1], w[2])[i] = WmSetting(WmWord(w), i - 1)
      BY <2>1, WmWrite, Zenon
    <3> QED BY <2>1, <3>1
  <2> QED BY <2>1, <2>2, <2>3, ZenonT(40)
<1>2. CASE codec = "uda1341" /\ w[1] \notin EA
  <2>1. /\ w \in UdaLegal /\ Length(w) = 56
        /\ Settings(w) = l3_write(uda1341_reg_addr(w[1]), w[2] + uda1341_data_bit(w[1]))
    BY <1>2 DEF Legal, Settings, Length, uda1341_write_reg
  <2>2. PICK addr \in Nat, data \in Nat : addr = L3Addr(w) /\ data = L3Data(w, 56)
    <3>1. 56 \in 1 .. 112
      OBVIOUS
    <3>2. L3Addr(w) \in {20, 22} /\ L3Data(w, 56) \in Nat
      BY <2>1, <3>1, UdaBytes
    <3> QED BY <3>2
  <2>3. Settings(w) = l3_write(addr, data)
    BY <1>2, <2>1, <2>2 DEF L3Addr, L3Data
  <2>4. ASSUME NEW i \in 1 .. 56 PROVE SettingLeft(w, 56 - i + 1) = L3Setting(addr, data, i - 1)
    <3>1. L3Made(56 - i + 1) = i - 1
      BY DEF L3Made
    <3>2. L3Data(w, 56 - i + 1) = data
      BY <1>2, <2>2 DEF L3Data
    <3> QED BY <1>2, <2>2, <3>1, <3>2 DEF SettingLeft
  <2>5. /\ Settings(w) \in Seq(Setting) /\ Len(Settings(w)) = 56
        /\ \A i \in 1 .. 56 : Settings(w)[i] = L3Setting(addr, data, i - 1)
    <3>1. /\ l3_write(addr, data) \in Seq(Setting) /\ Len(l3_write(addr, data)) = 56
          /\ \A i \in 1 .. 56 : l3_write(addr, data)[i] = L3Setting(addr, data, i - 1)
      BY L3Write, ZenonT(40)
    <3> QED BY <2>3, <3>1
  <2> QED BY <2>1, <2>4, <2>5, ZenonT(40)
<1>3. CASE codec = "uda1341" /\ w[1] \in EA
  <2>1. /\ w \in UdaLegal /\ Length(w) = 112
        /\ Settings(w) = l3_write(20, uda1341_reg_addr(w[1]) + 192) \o l3_write(20, w[2] + 224)
    BY <1>3 DEF Legal, Settings, Length, uda1341_write_reg
  <2>2. PICK a \in Nat, b \in Nat :
          /\ a = uda1341_reg_addr(w[1]) + 192 /\ b = w[2] + 224
          /\ a = L3Data(w, 112) /\ b = L3Data(w, 1)
    <3>1. 112 \in 1 .. 112 /\ 1 \in 1 .. 112 /\ 112 > 56 /\ ~(1 > 56)
      OBVIOUS
    <3>2. /\ L3Data(w, 112) = uda1341_reg_addr(w[1]) + 192 /\ L3Data(w, 1) = w[2] + 224
      BY <1>3, <3>1 DEF L3Data
    <3>3. L3Data(w, 112) \in Nat /\ L3Data(w, 1) \in Nat
      BY <2>1, <3>1, UdaBytes, ZenonT(40)
    <3> QED BY <3>2, <3>3
  <2> DEFINE First == l3_write(20, a)
             Second == l3_write(20, b)
  <2>3. /\ First \in Seq(Setting) /\ Len(First) = 56
        /\ \A i \in 1 .. 56 : First[i] = L3Setting(20, a, i - 1)
        /\ Second \in Seq(Setting) /\ Len(Second) = 56
        /\ \A i \in 1 .. 56 : Second[i] = L3Setting(20, b, i - 1)
    <3>1. 20 \in Nat
      OBVIOUS
    <3> QED BY <3>1, L3Write, ZenonT(40)
  <2>4. Settings(w) = First \o Second
    BY <2>1, <2>2
  <2> HIDE DEF First, Second
  <2>5. /\ Settings(w) \in Seq(Setting) /\ Len(Settings(w)) = Len(First) + Len(Second)
        /\ \A i \in 1 .. Len(First) + Len(Second) :
             Settings(w)[i] = IF i <= Len(First) THEN First[i] ELSE Second[i - Len(First)]
    <3>1. First \in Seq(Setting) /\ Second \in Seq(Setting)
      BY <2>3, Zenon
    <3>2. Len(Settings(w)) = Len(First) + Len(Second)
      BY <2>4, <3>1, ConcatProperties, Zenon
    <3>3. Settings(w) \in Seq(Setting)
      BY <2>4, <3>1, ConcatProperties, Zenon
    <3> QED BY <2>4, <3>1, <3>2, <3>3, ConcatProperties, Zenon
  <2>6. /\ Settings(w) \in Seq(Setting) /\ Len(Settings(w)) = 112
        /\ \A i \in 1 .. 112 : Settings(w)[i] = IF i <= 56 THEN First[i] ELSE Second[i - 56]
    BY <2>3, <2>5
  <2>7. ASSUME NEW i \in 1 .. 112 PROVE Settings(w)[i] = SettingLeft(w, 112 - i + 1)
    <3>1. L3Addr(w) = 20
      BY <1>3 DEF L3Addr
    <3>2. CASE i <= 56
      <4>1. L3Made(112 - i + 1) = i - 1 /\ L3Data(w, 112 - i + 1) = a
        BY <1>3, <2>2, <3>2 DEF L3Made, L3Data
      <4>2. Settings(w)[i] = L3Setting(20, a, i - 1)
        <5>1. i \in 1 .. 56
          BY <3>2
        <5>2. Settings(w)[i] = First[i]
          BY <2>6, <3>2
        <5> QED BY <2>3, <5>1, <5>2
      <4> QED BY <1>3, <3>1, <4>1, <4>2 DEF SettingLeft
    <3>3. CASE i > 56
      <4>1. L3Made(112 - i + 1) = (i - 56) - 1 /\ L3Data(w, 112 - i + 1) = b
        BY <1>3, <2>2, <3>3 DEF L3Made, L3Data
      <4>2. i - 56 \in 1 .. 56 /\ ~(i <= 56)
        BY <3>3
      <4>3. Settings(w)[i] = L3Setting(20, b, (i - 56) - 1)
        BY <2>3, <2>6, <4>2
      <4> QED BY <1>3, <3>1, <4>1, <4>3 DEF SettingLeft
    <3> QED BY <3>2, <3>3
  <2> QED BY <2>1, <2>6, <2>7, Zenon
<1> QED BY <1>1, <1>2, <1>3

(***************************************************************************)
(* The steps of the calls.                                                 *)
(***************************************************************************)
LEMMA LegalWrites ==
  /\ UdaLegal \subseteq Regs \X (0 .. 511) /\ WmLegal \subseteq Regs \X (0 .. 511)
  /\ \A w \in Legal : w[1] \in Regs /\ w[2] \in 0 .. 511 /\ w # <<>> /\ w = <<w[1], w[2]>>
<1>1. UdaLegal \subseteq Regs \X (0 .. 511)
  BY DEF UdaLegal, EA, Regs
<1>2. WmLegal \subseteq Regs \X (0 .. 511)
  BY DEF WmLegal
<1>3. \A w \in Regs \X (0 .. 511) :
        w[1] \in Regs /\ w[2] \in 0 .. 511 /\ w # <<>> /\ w = <<w[1], w[2]>>
  OBVIOUS
<1>4. Legal \subseteq Regs \X (0 .. 511)
  BY <1>1, <1>2 DEF Legal
<1> QED BY <1>1, <1>2, <1>3, <1>4, Zenon

(* What the type invariant says of the lines and the chip. *)
LEMMA WiresTyped ==
  ASSUME TypeOK
  PROVE  WireTypes /\ Len(bits) <= 16
  BY DEF TypeOK, WireTypes

(* The codec is one of the two. *)
LEMMA CodecNames ==
  ASSUME codec \in Codecs
  PROVE  codec \in {"uda1341", "wm8976"}
  BY CodecsAssumption

(* A caller's own write. *)
LEMMA OwnWrite ==
  ASSUME Control, NEW c \in Callers, todo[c] # <<>>
  PROVE  /\ todo[c] \in Seq(Legal) /\ todo[c][1] \in Legal
         /\ Tail(todo[c]) \in Seq(Legal) /\ Len(Tail(todo[c])) = Len(todo[c]) - 1
         /\ \A i \in 1 .. Len(Tail(todo[c])) : Tail(todo[c])[i] = todo[c][i + 1]
         /\ Len(todo[c]) \in Nat \ {0}
<1>1. todo[c] \in Seq(Legal)
  BY DEF Control
<1>2. Tail(todo[c]) \in Seq(Legal) /\ Len(Tail(todo[c])) = Len(todo[c]) - 1
      /\ \A i \in 1 .. Len(Tail(todo[c])) : Tail(todo[c])[i] = todo[c][i + 1]
  BY <1>1, HeadTailProperties, Zenon
<1>3. Len(todo[c]) \in Nat \ {0} /\ 1 \in 1 .. Len(todo[c])
  BY <1>1
<1>4. todo[c][1] \in Legal
  BY <1>1, <1>3, ElementOfSeq, Zenon
<1> QED BY <1>1, <1>2, <1>3, <1>4

(* One setting of a caller that is alone. *)
LEMMA InStepNext ==
  ASSUME TypeOK, Control, UdaBits, NEW c \in Callers, InStep(c), SetLine(c)
  PROVE  /\ InStep(c)' /\ Effect(todo[c][1])
         /\ WireTypes' /\ Len(bits') <= 16 /\ UdaBits'
<1>1. todo[c] # <<>>
  BY DEF SetLine, Control
<1>2. PICK w \in Legal : w = todo[c][1] /\ todo' = todo /\ codec' = codec /\ cache' = cache
  BY <1>1, OwnWrite DEF SetLine
<1>3. codec \in {"uda1341", "wm8976"}
  BY CodecNames DEF Control
<1>4. /\ WireTypes /\ Len(bits) <= 16 /\ script[c] \in Seq(Setting)
      /\ script \in [Callers -> Seq(Setting)]
  BY WiresTyped DEF Control
<1>5. PICK n \in Nat : n = Len(script[c])
  BY <1>4
<1>6. /\ n \in 2 .. Length(w) /\ Length(w) \in {55, 56, 112}
      /\ \A i \in 1 .. n : script[c][i] = SettingLeft(w, n - i + 1)
      /\ cache[w[1]] = w[2] % 256
      /\ IF codec = "wm8976" THEN WmStep(w, n) ELSE UdaStep(w, n)
  <2>1. n \in 1 .. Length(w) /\ n > 1
    BY <1>2, <1>5 DEF InStep, SetLine
  <2>2. Length(w) \in {55, 56, 112}
    BY DEF Length
  <2>3. /\ \A i \in 1 .. n : script[c][i] = SettingLeft(w, n - i + 1)
        /\ cache[w[1]] = w[2] % 256
        /\ IF codec = "wm8976" THEN WmStep(w, n) ELSE UdaStep(w, n)
    BY <1>2, <1>5 DEF InStep
  <2> QED BY <2>1, <2>2, <2>3
<1>7. PICK s \in Setting : s = script[c][1] /\ s = SettingLeft(w, n)
  <2>1. 1 \in 1 .. n /\ n - 1 + 1 = n
    BY <1>6
  <2>2. script[c][1] \in Setting
    BY <1>4, <1>5, <2>1, ElementOfSeq, Zenon
  <2>3. script[c][1] = SettingLeft(w, n - 1 + 1)
    BY <1>6, <2>1, Zenon
  <2> QED BY <2>1, <2>2, <2>3
<1>8. /\ lines' = [lines EXCEPT ![s[1]] = s[2]]
      /\ IF codec = "uda1341" THEN UdaSees(s[1], s[2], c) ELSE WmSees(s[1], s[2], c)
      /\ script' = [script EXCEPT ![c] = Tail(script[c])]
  BY <1>7 DEF SetLine
<1>9. /\ script'[c] = Tail(script[c]) /\ Len(script'[c]) = n - 1
      /\ \A i \in 1 .. n - 1 : script'[c][i] = SettingLeft(w, (n - 1) - i + 1)
  <2>1. script'[c] = Tail(script[c])
    BY <1>4, <1>8
  <2>2. script[c] # <<>>
    BY <1>5, <1>6
  <2>3. /\ Len(Tail(script[c])) = n - 1
        /\ \A i \in 1 .. n - 1 : Tail(script[c])[i] = script[c][i + 1]
    BY <1>4, <1>5, <2>2, HeadTailProperties, Zenon
  <2>4. ASSUME NEW i \in 1 .. n - 1
        PROVE  Tail(script[c])[i] = SettingLeft(w, (n - 1) - i + 1)
    <3>1. i + 1 \in 1 .. n /\ n - (i + 1) + 1 = (n - 1) - i + 1
      OBVIOUS
    <3>2. script[c][i + 1] = SettingLeft(w, n - (i + 1) + 1)
      BY <1>6, <3>1, Zenon
    <3> QED BY <2>3, <3>1, <3>2
  <2> QED BY <2>1, <2>3, <2>4
<1>10. ASSUME IF codec = "wm8976" THEN WmStep(w, n - 1)' ELSE UdaStep(w, n - 1)'
       PROVE  InStep(c)'
  <2>1. todo'[c][1] = w /\ cache'[w[1]] = w[2] % 256 /\ Length(w)' = Length(w)
    BY <1>2, <1>6 DEF Length
  <2>2. \A i : SettingLeft(w, i)' = SettingLeft(w, i)
    BY <1>2 DEF SettingLeft
  <2>3. n - 1 \in 1 .. Length(w)
    BY <1>6
  <2> QED BY <1>2, <1>9, <1>10, <2>1, <2>2, <2>3 DEF InStep
<1>11. CASE codec = "uda1341"
  <2>1. w \in UdaLegal /\ n \in 2 .. 112 /\ (w[1] \notin EA => n <= 56)
    BY <1>6, <1>11 DEF Legal, Length
  <2>2. UdaSet(s, c) /\ s = L3Setting(L3Addr(w), L3Data(w, n), L3Made(n))
    BY <1>7, <1>8, <1>11 DEF UdaSet, SettingLeft
  <2>3. UdaStep(w, n) /\ Len(bits) <= 7
    BY <1>6, <1>11 DEF UdaBits
  <2>4. UdaStep(w, n - 1)' /\ Effect(w)
    BY <1>2, <1>4, <1>11, <2>1, <2>2, <2>3, UdaStepNext
  <2>5. WireTypes' /\ Len(bits') <= 7
    BY <1>4, <2>2, <2>3, UdaTypes, Zenon
  <2>6. Len(bits') <= 16
    BY <2>5 DEF WireTypes
  <2> QED BY <1>2, <1>10, <1>11, <2>4, <2>5, <2>6 DEF UdaBits
<1>12. CASE codec = "wm8976"
  <2>1. w \in WmLegal /\ n \in 2 .. 55
    BY <1>6, <1>12 DEF Legal, Length
  <2>2. WmSet(s, c) /\ s = WmSetting(WmWord(w), 55 - n)
    BY <1>7, <1>8, <1>12 DEF WmSet, SettingLeft
  <2>3. WmStep(w, n)
    BY <1>6, <1>12
  <2>4. WmStep(w, n - 1)' /\ Effect(w)
    BY <1>2, <1>4, <1>12, <2>1, <2>2, <2>3, WmStepNext
  <2>5. WireTypes' /\ Len(bits') <= 16
    BY <1>4, <2>2, WmTypes, Zenon
  <2> QED BY <1>2, <1>10, <1>12, <2>4, <2>5 DEF UdaBits
<1> QED BY <1>3, <1>11, <1>12

(* Between calls nothing is left of the last one. *)
LEMMA NobodyWrites ==
  ASSUME Control, Busy = {}
  PROVE  /\ \A d \in Callers : todo[d] = <<>> /\ script[d] = <<>>
         /\ Writing = {}
<1>1. \A d \in Callers : todo[d] = <<>>
  BY DEF Busy
<1> QED BY <1>1 DEF Control, Busy, Writing

(* A call begins. *)
LEMMA EnterControl ==
  ASSUME Control, NEW c \in Callers, NEW writes \in Seq(Legal), writes # <<>>, Enter(c, writes),
         ready => \A i \in 1 .. Len(writes) : writes[i][1] # ResetReg,
         ~ready => Busy = {} /\ wanted' = wanted, Busy # {} => wanted' = <<>>
  PROVE  Control'
<1>1. /\ todo \in [Callers -> Seq(Legal)] /\ script \in [Callers -> Seq(Setting)]
      /\ codec \in Codecs /\ codec' = codec /\ ready' = ready
      /\ todo[c] = <<>> /\ todo' = [todo EXCEPT ![c] = writes] /\ alone' = (Busy = {})
  BY DEF Control, Enter
<1>2. Legal' = Legal /\ ResetReg' = ResetReg
  BY <1>1 DEF Legal, ResetReg
<1>3. /\ todo' \in [Callers -> Seq(Legal)] /\ todo'[c] = writes
      /\ \A d \in Callers : d # c => todo'[d] = todo[d]
  BY <1>1
<1>4. /\ script' \in [Callers -> Seq(Setting)]
      /\ \A d \in Callers : script'[d] # <<>> => script[d] # <<>>
  <2>1. CASE Busy = {}
    BY <1>1, <2>1 DEF Enter
  <2>2. CASE Busy # {}
    <3>1. script' = [d \in Callers |-> IF script[d] = <<>> THEN <<>> ELSE <<Head(script[d])>>]
      BY <2>2 DEF Enter, Overlap
    <3>2. ASSUME NEW d \in Callers, script[d] # <<>> PROVE <<Head(script[d])>> \in Seq(Setting)
      <4>1. Head(script[d]) \in Setting
        BY <1>1, <3>2, HeadTailProperties, Zenon
      <4> HIDE DEF Setting
      <4> QED BY <4>1
    <3>3. <<>> \in Seq(Setting)
      OBVIOUS
    <3> QED BY <3>1, <3>2, <3>3
  <2> QED BY <2>1, <2>2
<1>5. \A d \in Callers : script'[d] # <<>> => todo'[d] # <<>>
  <2>1. \A d \in Callers : script[d] # <<>> => todo[d] # <<>>
    BY DEF Control
  <2> QED BY <1>1, <1>3, <1>4, <2>1
<1>6. ready' => \A d \in Callers : \A i \in 1 .. Len(todo'[d]) : todo'[d][i][1] # ResetReg
  <2>1. ready => \A d \in Callers : \A i \in 1 .. Len(todo[d]) : todo[d][i][1] # ResetReg
    BY DEF Control
  <2> QED BY <1>1, <1>3, <2>1
<1>7. ~ready' => alone' /\ wanted' = <<>>
  BY <1>1 DEF Control
<1>8. alone' => \A d, e \in Busy' : d = e
  <2>1. ASSUME Busy = {}, NEW d \in Busy' PROVE d = c
    BY <1>3, <2>1, NobodyWrites DEF Busy
  <2> QED BY <1>1, <2>1
<1>9. ~alone' => settled' = {} /\ wanted' = <<>>
  BY <1>1 DEF Enter, Overlap
<1> QED BY <1>1, <1>2, <1>3, <1>4, <1>5, <1>6, <1>7, <1>8, <1>9 DEF Control

(* A call that begins disturbs no type, *)
LEMMA EnterTypes ==
  ASSUME TypeOK, Control, Control', NEW c \in Callers, NEW writes, Enter(c, writes)
  PROVE  TypeOK'
<1>1. ASSUME NEW d \in Callers
      PROVE  todo'[d] \in Seq(Regs \X (0 .. 511)) /\ (script'[d] # <<>> => todo'[d] # <<>>)
  <2>1. todo'[d] \in Seq(Legal') /\ (script'[d] # <<>> => todo'[d] # <<>>)
    BY DEF Control
  <2>2. Legal' \subseteq Regs \X (0 .. 511)
    BY LegalWrites DEF Legal
  <2> HIDE DEF Legal
  <2>3. todo'[d] \in Seq(Regs \X (0 .. 511))
    <3> DEFINE R == Regs \X (0 .. 511)
               L == Legal'
    <3>1. todo'[d] \in Seq(L) /\ L \subseteq R
      BY <2>1, <2>2
    <3> HIDE DEF R, L
    <3>2. todo'[d] \in Seq(R)
      BY <3>1
    <3> QED BY <3>2 DEF R
  <2> QED BY <2>1, <2>3
<1>2. WireTypes' /\ Len(bits') <= 16
  <2>1. CASE Busy = {}
    <3>1. UNCHANGED <<lines, bits, sel, ext, chip, settled>>
      BY <2>1 DEF Enter, wires
    <3>2. WireTypes /\ Len(bits) <= 16
      BY WiresTyped
    <3> QED BY <3>1, <3>2 DEF WireTypes
  <2>2. CASE Busy # {}
    <3>1. /\ lines' = [l \in {"mode", "dat", "clk"} |-> 0] /\ bits' = <<>> /\ sel' = 0
          /\ ext' = 0 /\ chip' = [r \in Regs |-> 0] /\ settled' = {}
      BY <2>2 DEF Enter, Overlap
    <3> QED BY <3>1 DEF WireTypes
  <2> QED BY <2>1, <2>2
<1>3. UNCHANGED <<codec, cache, iispsr, rate, ready>> /\ alone' \in BOOLEAN
  BY DEF Enter, iis
<1> QED BY <1>1, <1>2, <1>3 DEF TypeOK, WireTypes

(* and no write that is claimed to have arrived. *)
LEMMA EnterReceiving ==
  ASSUME Control, Receiving, ChipFollowsCache, UdaBits,
         NEW c \in Callers, NEW writes, Enter(c, writes)
  PROVE  Receiving' /\ ChipFollowsCache' /\ UdaBits'
<1>1. cache' = cache /\ codec' = codec /\ alone' = (Busy = {})
  BY DEF Enter
<1>2. CASE Busy = {}
  <2>1. UNCHANGED <<script, lines, bits, sel, ext, chip, settled>>
    BY <1>2 DEF Enter, wires
  <2>2. \A d \in Callers : script'[d] = <<>>
    BY <1>2, <2>1, NobodyWrites
  <2>3. settled = {} \/ Idle
    BY <1>2, NobodyWrites DEF Receiving, Control
  <2>4. Idle => Idle'
    BY <1>1, <2>1 DEF Idle
  <2>5. Receiving'
    BY <2>1, <2>2, <2>3, <2>4 DEF Receiving
  <2>6. ChipFollowsCache'
    <3>1. \A r \in settled : chip[r] % 256 = cache[r]
      BY <1>2, NobodyWrites DEF ChipFollowsCache
    <3> QED BY <1>1, <2>1, <3>1 DEF ChipFollowsCache
  <2>7. UdaBits'
    BY <1>1, <2>1 DEF UdaBits
  <2> QED BY <2>5, <2>6, <2>7
<1>3. CASE Busy # {}
  <2>1. bits' = <<>> /\ settled' = {}
    BY <1>3 DEF Enter, Overlap
  <2>2. Len(bits') <= 7
    BY <2>1
  <2>3. Receiving' /\ ChipFollowsCache'
    BY <1>1, <1>3, <2>1 DEF Receiving, ChipFollowsCache
  <2>4. UdaBits'
    BY <2>2 DEF UdaBits
  <2> QED BY <2>3, <2>4
<1> QED BY <1>2, <1>3

(* The writes of a volume. *)
LEMMA PutWrites ==
  ASSUME codec \in {"uda1341", "wm8976"}, NEW v \in Volumes
  PROVE  /\ Put(v) \in Seq(Legal) /\ Put(v) # <<>>
         /\ codec = "uda1341" => Len(Put(v)) = 1 /\ Put(v)[1] = <<0, 63 - v[1]>>
         /\ codec = "wm8976" => /\ Len(Put(v)) = 2 /\ Put(v)[1] = <<52, 256 + v[1]>>
                                /\ Put(v)[2] = <<53, 256 + v[2]>>
         /\ v[1] \in 0 .. 63 /\ v[2] \in 0 .. 63 /\ v = <<v[1], v[2]>>
<1>1. v[1] \in 0 .. 63 /\ v[2] \in 0 .. 63 /\ v = <<v[1], v[2]>>
  BY VolumesAssumption
<1>2. CASE codec = "uda1341"
  <2>1. Put(v) = << <<0, 63 - v[1]>> >>
    BY <1>2 DEF Put, uda1341_put_vol
  <2>2. <<0, 63 - v[1]>> \in Legal
    BY <1>1, <1>2 DEF Legal, UdaLegal
  <2> QED BY <1>1, <1>2, <2>1, <2>2
<1>3. CASE codec = "wm8976"
  <2>1. Put(v) = << <<52, 256 + v[1]>>, <<53, 256 + v[2]>> >>
    BY <1>3 DEF Put, wm8976_put_vol
  <2>2. <<52, 256 + v[1]>> \in Legal /\ <<53, 256 + v[2]>> \in Legal
    BY <1>1, <1>3 DEF Legal, WmLegal, Regs
  <2> QED BY <1>1, <1>3, <2>1, <2>2
<1> QED BY <1>2, <1>3

(* Two writes of a volume go to two registers, and none of them resets. *)
LEMMA PutRegs ==
  ASSUME codec \in {"uda1341", "wm8976"}, NEW v \in Volumes
  PROVE  /\ \A i, j \in 1 .. Len(Put(v)) : Put(v)[i][1] = Put(v)[j][1] => i = j
         /\ \A i \in 1 .. Len(Put(v)) : Put(v)[i][1] # ResetReg /\ Put(v)[i][1] \notin EA
<1>1. CASE codec = "uda1341"
  <2>1. Len(Put(v)) = 1 /\ Put(v)[1][1] = 0
    BY <1>1, PutWrites
  <2> QED BY <1>1, <2>1 DEF ResetReg, EA
<1>2. CASE codec = "wm8976"
  <2>1. Len(Put(v)) = 2 /\ Put(v)[1][1] = 52 /\ Put(v)[2][1] = 53
    BY <1>2, PutWrites
  <2> QED BY <1>2, <2>1 DEF ResetReg, EA
<1> QED BY <1>1, <1>2

(* One lemma for each action.  The probe: its writes are legal, and it is alone. *)
LEMMA ProbeInv ==
  ASSUME IInv, NEW c \in Callers, soc_probe(c)
  PROVE  IInv'
<1> DEFINE writes == IF codec = "uda1341" THEN uda1341_init_regs ELSE wm8976_init_regs
<1>1. /\ ~ready /\ Busy = {} /\ Enter(c, writes) /\ wanted' = wanted
      /\ TypeOK /\ Control /\ Receiving /\ ChipFollowsCache /\ UdaBits
  BY DEF soc_probe, IInv
<1>2. writes \in Seq(Legal) /\ writes # <<>>
  <2>1. CASE codec = "uda1341"
    <3>1. /\ <<10, 81>> \in Legal /\ <<11, 3>> \in Legal /\ <<0, 0>> \in Legal
          /\ <<1, 0>> \in Legal /\ <<2, 0>> \in Legal
      BY <2>1 DEF Legal, UdaLegal
    <3> QED BY <2>1, <3>1 DEF uda1341_init_regs
  <2>2. CASE codec # "uda1341"
    <3>1. /\ <<0, 0>> \in Legal /\ <<3, 111>> \in Legal /\ <<1, 31>> \in Legal
          /\ <<2, 389>> \in Legal /\ <<6, 0>> \in Legal /\ <<4, 16>> \in Legal
          /\ <<43, 16>> \in Legal /\ <<9, 80>> \in Legal /\ <<13, 33>> \in Legal
          /\ <<7, 1>> \in Legal
      BY <2>2 DEF Legal, WmLegal, Regs
    <3> QED BY <2>2, <3>1 DEF wm8976_init_regs
  <2> QED BY <2>1, <2>2
<1> HIDE DEF writes
<1>3. Control'
  BY <1>1, <1>2, EnterControl
<1>4. TypeOK'
  BY <1>1, <1>3, EnterTypes
<1>5. Receiving' /\ ChipFollowsCache' /\ UdaBits'
  BY <1>1, EnterReceiving
<1>6. Wanted'
  BY <1>1 DEF Wanted, Control
<1> QED BY <1>3, <1>4, <1>5, <1>6 DEF IInv

(* A put: its own writes are those of the volume wanted from now on. *)
LEMMA PutInv ==
  ASSUME IInv, NEW c \in Callers, NEW v \in Volumes, put_vol(c, v)
  PROVE  IInv'
<1>1. /\ ready /\ Enter(c, Put(v)) /\ wanted' = IF Busy = {} THEN v ELSE <<>>
      /\ TypeOK /\ Control /\ Receiving /\ ChipFollowsCache /\ UdaBits
  BY DEF put_vol, Put, IInv
<1>2. codec \in {"uda1341", "wm8976"} /\ todo \in [Callers -> Seq(Legal)]
  BY <1>1, CodecNames DEF Control
<1>3. /\ Put(v) \in Seq(Legal) /\ Put(v) # <<>>
      /\ \A i, j \in 1 .. Len(Put(v)) : Put(v)[i][1] = Put(v)[j][1] => i = j
      /\ \A i \in 1 .. Len(Put(v)) : Put(v)[i][1] # ResetReg
  BY <1>2, PutWrites, PutRegs
<1>4. Control'
  BY <1>1, <1>3, EnterControl
<1>5. TypeOK'
  BY <1>1, <1>4, EnterTypes
<1>6. Receiving' /\ ChipFollowsCache' /\ UdaBits'
  BY <1>1, EnterReceiving
<1>7. Wanted'
  <2>1. CASE Busy = {}
    <3>1. codec' = codec /\ wanted' = v /\ todo'[c] = Put(v)
          /\ \A d \in Callers : d # c => todo'[d] = <<>>
      BY <1>1, <1>2, <2>1, NobodyWrites DEF Enter
    <3>2. Put(v)' = Put(v)
      BY <3>1 DEF Put
    <3>3. ASSUME NEW j \in 1 .. Len(Put(v))
          PROVE  /\ \E d \in Callers : \E i \in 1 .. Len(todo'[d]) : todo'[d][i] = Put(v)[j]
                 /\ \A d \in Callers : \A i \in 1 .. Len(todo'[d]) :
                      todo'[d][i][1] = Put(v)[j][1] => todo'[d][i] = Put(v)[j]
      <4>1. \E i \in 1 .. Len(todo'[c]) : todo'[c][i] = Put(v)[j]
        BY <3>1
      <4>2. ASSUME NEW d \in Callers, NEW i \in 1 .. Len(todo'[d]),
                   todo'[d][i][1] = Put(v)[j][1]
            PROVE  todo'[d][i] = Put(v)[j]
        <5>1. d = c
          BY <3>1, <4>2
        <5> QED BY <1>3, <3>1, <4>2, <5>1
      <4> QED BY <4>1, <4>2
    <3>4. \A j \in 1 .. Len(Put(v)) : OnItsWay(Put(v)[j])'
      BY <3>2, <3>3 DEF OnItsWay
    <3>5. Put(wanted)' = Put(v)
      BY <3>1 DEF Put
    <3> QED BY <3>1, <3>3, <3>4, <3>5 DEF Wanted
  <2>2. CASE Busy # {}
    BY <1>1, <2>2 DEF Wanted
  <2> QED BY <2>1, <2>2
<1> QED BY <1>4, <1>5, <1>6, <1>7 DEF IInv

(* codec_reg: an extended register is none of the volume. *)
LEMMA CodecRegInv ==
  ASSUME IInv, NEW c \in Callers, NEW w \in ExtWrites, codec_reg(c, w)
  PROVE  IInv'
<1>1. /\ ready /\ codec = "uda1341" /\ Enter(c, <<w>>)
      /\ wanted' = IF Busy = {} THEN wanted ELSE <<>>
      /\ TypeOK /\ Control /\ Receiving /\ ChipFollowsCache /\ UdaBits /\ Wanted
  BY DEF codec_reg, IInv
<1>2. todo \in [Callers -> Seq(Legal)]
  BY <1>1 DEF Control
<1>3. w[1] \in EA /\ w \in Legal
  <2>1. w \in EA \X (0 .. 31)
    BY ExtAssumption DEF EA
  <2> QED BY <1>1, <2>1 DEF Legal, UdaLegal
<1>4. <<w>> \in Seq(Legal) /\ <<w>> # <<>> /\ Len(<<w>>) = 1 /\ <<w>>[1] = w
  BY <1>3
<1>5. \A i \in 1 .. Len(<<w>>) : <<w>>[i][1] # ResetReg
  BY <1>1, <1>3, <1>4 DEF ResetReg, EA
<1>6. Control'
  BY <1>1, <1>4, <1>5, EnterControl
<1>7. TypeOK'
  BY <1>1, <1>6, EnterTypes
<1>8. Receiving' /\ ChipFollowsCache' /\ UdaBits'
  BY <1>1, EnterReceiving
<1>9. Wanted'
  <2>1. CASE Busy = {} /\ wanted # <<>>
    <3>1. /\ wanted' = wanted /\ codec' = codec /\ todo'[c] = <<w>>
          /\ \A d \in Callers : d # c => todo'[d] = <<>>
          /\ UNCHANGED <<chip, settled>>
      BY <1>1, <1>2, <2>1, NobodyWrites DEF Enter, wires
    <3>2. Writing' = {w[1]}
      <4>1. Busy' = {c}
        BY <1>4, <3>1 DEF Busy
      <4>2. todo'[c][1][1] = w[1]
        BY <1>4, <3>1
      <4> QED BY <4>1, <4>2 DEF Writing
    <3>3. wanted \in Volumes /\ \A j \in 1 .. Len(Put(wanted)) : OnItsWay(Put(wanted)[j])
      BY <1>1, <2>1 DEF Wanted
    <3>4. \A j \in 1 .. Len(Put(wanted)) : Put(wanted)[j][1] \notin EA
      BY <1>1, <3>3, PutRegs
    <3>5. ASSUME NEW j \in 1 .. Len(Put(wanted)) PROVE OnItsWay(Put(wanted)[j])'
      <4>1. Put(wanted)[j][1] \in settled /\ chip[Put(wanted)[j][1]] = Put(wanted)[j][2]
        <5>1. \A d \in Callers : Len(todo[d]) = 0
          BY <1>1, <2>1, NobodyWrites
        <5> QED BY <3>3, <5>1 DEF OnItsWay
      <4>2. Put(wanted)[j][1] # w[1]
        BY <1>3, <3>4
      <4>3. Put(wanted)' = Put(wanted)
        BY <3>1 DEF Put
      <4>4. Put(wanted)[j][1] \in settled' \ Writing'
        BY <3>1, <3>2, <4>1, <4>2
      <4> QED BY <3>1, <4>1, <4>3, <4>4 DEF OnItsWay
    <3>6. ASSUME NEW j \in 1 .. Len(Put(wanted)), NEW d \in Callers,
                 NEW i \in 1 .. Len(todo'[d]), todo'[d][i][1] = Put(wanted)[j][1]
          PROVE  FALSE
      <4>1. d = c /\ todo'[d][i] = w
        BY <1>4, <3>1, <3>6
      <4> QED BY <1>3, <3>4, <3>6, <4>1
    <3>7. Put(wanted)' = Put(wanted)
      BY <3>1 DEF Put
    <3> QED BY <3>1, <3>3, <3>5, <3>6, <3>7 DEF Wanted
  <2>2. CASE ~(Busy = {} /\ wanted # <<>>)
    BY <1>1, <2>2 DEF Wanted
  <2> QED BY <2>1, <2>2
<1> QED BY <1>6, <1>7, <1>8, <1>9 DEF IInv

(* A volume stays on its way while the calls' writes stay the same. *)
LEMMA WantedStays ==
  ASSUME Wanted, Control, UNCHANGED <<codec, todo, wanted>>, settled' = settled,
         \A r \in settled \ Writing : chip'[r] = chip[r]
  PROVE  Wanted'
<1>1. Writing' = Writing /\ Put(wanted)' = Put(wanted)
  BY DEF Writing, Busy, Put
<1>2. \A w : OnItsWay(w) => OnItsWay(w)'
  BY <1>1 DEF OnItsWay
<1> QED BY <1>1, <1>2 DEF Wanted

(* A write begins, on lines that the last one has left idle. *)
LEMMA SaveInv ==
  ASSUME IInv, NEW c \in Callers, SaveInCache(c)
  PROVE  IInv'
<1>1. /\ todo[c] # <<>> /\ script[c] = <<>>
      /\ script' = [script EXCEPT ![c] = Settings(todo[c][1])]
      /\ cache' = [cache EXCEPT ![todo[c][1][1]] = todo[c][1][2] % 256]
      /\ UNCHANGED <<codec, todo, ready, lines, bits, sel, ext, chip, iispsr, rate, alone,
                     settled, wanted>>
      /\ TypeOK /\ Control /\ Receiving /\ ChipFollowsCache /\ UdaBits /\ Wanted
  BY DEF SaveInCache, IInv, wires, iis, past
<1>2. PICK w \in Legal : w = todo[c][1]
  BY <1>1, OwnWrite
<1>3. /\ w[1] \in Regs /\ w[2] \in 0 .. 511 /\ codec \in {"uda1341", "wm8976"}
      /\ cache \in [Regs -> 0 .. 255] /\ script \in [Callers -> Seq(Setting)]
  BY <1>1, CodecNames, LegalWrites DEF Control, TypeOK
<1>4. /\ Settings(w) \in Seq(Setting) /\ Len(Settings(w)) = Length(w)
      /\ \A i \in 1 .. Length(w) : Settings(w)[i] = SettingLeft(w, Length(w) - i + 1)
  BY <1>3, Script, Zenon
<1>5. /\ script'[c] = Settings(w) /\ script' \in [Callers -> Seq(Setting)]
      /\ \A d \in Callers : d # c => script'[d] = script[d]
      /\ cache'[w[1]] = w[2] % 256 /\ \A r \in Regs : r # w[1] => cache'[r] = cache[r]
  BY <1>1, <1>2, <1>3, <1>4
<1>6. Writing' = Writing /\ w[1] \in Writing /\ Busy' = Busy
  BY <1>1, <1>2, SMTT(30) DEF Writing, Busy
<1>7. TypeOK'
  <2>1. cache' \in [Regs -> 0 .. 255]
    <3>1. \A x \in 0 .. 511 : x % 256 \in 0 .. 255
      OBVIOUS
    <3>2. w[2] % 256 \in 0 .. 255
      BY <1>3, <3>1, Zenon
    <3> QED BY <1>1, <1>2, <1>3, <3>2, Zenon
  <2>2. \A d \in Callers : script'[d] # <<>> => todo'[d] # <<>>
    BY <1>1, <1>5 DEF TypeOK
  <2> QED BY <1>1, <2>1, <2>2, ZenonT(40) DEF TypeOK
<1>8. Control'
  <2>1. \A d \in Callers : script'[d] # <<>> => todo'[d] # <<>>
    BY <1>1, <1>5 DEF TypeOK
  <2>2. Legal' = Legal /\ ResetReg' = ResetReg
    BY <1>1 DEF Legal, ResetReg
  <2> QED BY <1>1, <1>5, <1>6, <2>1, <2>2 DEF Control
<1>9. Receiving'
  <2>1. SUFFICES ASSUME alone PROVE Receiving'
    BY <1>1 DEF Receiving
  <2>2. \A d \in Callers : script[d] = <<>>
    BY <1>1, <2>1 DEF Control, Busy
  <2>3. settled = {} \/ Idle
    BY <1>1, <2>1, <2>2 DEF Receiving
  <2>4. InStep(c)'
    <3>1. PICK n \in {55, 56, 112} : n = Length(w)
      BY DEF Length
    <3>2. /\ codec = "wm8976" => n = 55
          /\ codec # "wm8976" => n # 55 /\ (w[1] \in EA <=> n = 112)
      BY <3>1 DEF Length
    <3>3. /\ todo'[c][1] = w /\ Length(w)' = n
          /\ \A i : SettingLeft(w, i)' = SettingLeft(w, i)
      BY <1>1, <1>2, <3>1 DEF Length, SettingLeft
    <3>4. settled' = {} \/ Idle'
      BY <1>1, <2>3 DEF Idle
    <3>5. ASSUME codec = "wm8976" PROVE WmStep(w, n)'
      BY <3>2, <3>4, <3>5 DEF WmStep, WmPlace
    <3>6. ASSUME codec # "wm8976" PROVE UdaStep(w, n)'
      <4>1. L3Made(n) = 0 /\ (w[1] \in EA => n > 56 /\ ~(n <= 56))
        BY <3>1, <3>2, <3>6 DEF L3Made
      <4>2. ASSUME NEW a, NEW d PROVE L3Place(a, d, 0)'
        BY DEF L3Place
      <4>3. ~(0 >= 53)
        OBVIOUS
      <4> QED BY <3>4, <4>1, <4>2, <4>3, Zenon DEF UdaStep
    <3>7. script'[c] = Settings(w) /\ Len(script'[c]) = n
      BY <1>4, <1>5, <3>1
    <3>8. \A i \in 1 .. n : script'[c][i] = SettingLeft(w, n - i + 1)
      BY <1>4, <1>5, <3>1
    <3>9. n \in 1 .. n
      BY <3>1
    <3>10. IF codec' = "wm8976" THEN WmStep(w, n)' ELSE UdaStep(w, n)'
      BY <1>1, <3>5, <3>6, Zenon
    <3>11. cache'[w[1]] = w[2] % 256
      BY <1>5
    <3>12. \A i \in 1 .. n : script'[c][i] = SettingLeft(w, n - i + 1)'
      BY <3>3, <3>8, Zenon
    <3> QED BY <3>3, <3>7, <3>9, <3>10, <3>11, <3>12, Zenon DEF InStep
  <2>5. \A d \in Callers : script'[d] # <<>> => d = c
    BY <1>5, <2>2
  <2>6. c \in Callers /\ script'[c] # <<>>
    BY <1>4, <1>5 DEF Length
  <2> QED BY <2>4, <2>5, <2>6, Zenon DEF Receiving
<1>10. ChipFollowsCache'
  <2>1. ASSUME NEW r \in settled \ Writing PROVE chip[r] % 256 = cache'[r]
    <3>1. r # w[1] /\ r \in Regs
      BY <1>1, <1>6 DEF TypeOK
    <3>2. chip[r] % 256 = cache[r]
      BY <1>1 DEF ChipFollowsCache
    <3> QED BY <1>5, <3>1, <3>2
  <2> QED BY <1>1, <1>6, <2>1 DEF ChipFollowsCache
<1>11. Wanted'
  BY <1>1, WantedStays
<1>12. UdaBits'
  BY <1>1 DEF UdaBits
<1> QED BY <1>7, <1>8, <1>9, <1>10, <1>11, <1>12 DEF IInv

(* A line is set: the place in the script moves on. *)
LEMMA SetLineInv ==
  ASSUME IInv, NEW c \in Callers, SetLine(c)
  PROVE  IInv'
<1>1. /\ Len(script[c]) > 1 /\ alone /\ script' = [script EXCEPT ![c] = Tail(script[c])]
      /\ UNCHANGED <<codec, cache, todo, ready, iispsr, rate, alone, wanted>>
      /\ TypeOK /\ Control /\ Receiving /\ ChipFollowsCache /\ UdaBits /\ Wanted
  BY DEF SetLine, IInv, iis
<1>2. script[c] # <<>> /\ script \in [Callers -> Seq(Setting)]
  BY <1>1 DEF Control
<1>3. todo[c] # <<>>
  BY <1>1, <1>2 DEF Control
<1>4. PICK w \in Legal : w = todo[c][1]
  BY <1>1, <1>3, OwnWrite
<1>5. w[1] \in Regs /\ w[1] \in Writing
  BY <1>3, <1>4, LegalWrites DEF Writing, Busy
<1>6. InStep(c)
  BY <1>1, <1>2 DEF Receiving
<1>7. InStep(c)' /\ Effect(w) /\ WireTypes' /\ Len(bits') <= 16 /\ UdaBits'
  BY <1>1, <1>4, <1>6, InStepNext
<1>8. /\ script'[c] \in Seq(Setting) /\ script'[c] # <<>>
      /\ script' \in [Callers -> Seq(Setting)]
      /\ \A d \in Callers : d # c => script'[d] = script[d]
  <2>1. Tail(script[c]) \in Seq(Setting) /\ Len(Tail(script[c])) = Len(script[c]) - 1
    BY <1>2, HeadTailProperties, Zenon
  <2>2. script'[c] = Tail(script[c])
    BY <1>1, <1>2
  <2>3. Len(script[c]) \in Nat
    BY <1>2
  <2>4. script'[c] # <<>>
    <3>1. Len(script'[c]) # 0
      BY <1>1, <2>1, <2>2, <2>3
    <3>2. Len(<<>>) = 0
      BY EmptySeq
    <3> QED BY <3>1, <3>2, Zenon
  <2>5. script' \in [Callers -> Seq(Setting)]
    BY <1>1, <1>2, <2>1, Zenon
  <2>6. \A d \in Callers : d # c => script'[d] = script[d]
    BY <1>1, <1>2, Zenon
  <2> QED BY <2>1, <2>2, <2>4, <2>5, <2>6, Zenon
<1>9. Writing' = Writing /\ Busy' = Busy
  BY <1>1 DEF Writing, Busy
<1>10. \A d \in Callers : script'[d] # <<>> => todo'[d] # <<>>
  BY <1>1, <1>3, <1>8 DEF Control
<1>11. TypeOK'
  BY <1>1, <1>7, <1>10 DEF TypeOK, WireTypes
<1>12. Control'
  <2>1. Legal' = Legal /\ ResetReg' = ResetReg
    BY <1>1 DEF Legal, ResetReg
  <2> QED BY <1>1, <1>8, <1>9, <1>10, <2>1 DEF Control
<1>13. Receiving'
  <2>1. \A d \in Callers : script'[d] # <<>> => d = c
    BY <1>1, <1>2, <1>3, <1>8 DEF Control, Busy
  <2> QED BY <1>7, <1>8, <2>1, Zenon DEF Receiving
<1>14. \A r \in settled' \ Writing : r \in settled /\ chip'[r] = chip[r]
  <2>1. CASE UNCHANGED <<chip, settled>>
    BY <2>1
  <2>2. CASE settled = {} /\ settled' = {}
    BY <2>2
  <2>3. CASE /\ chip' = [chip EXCEPT ![w[1]] = w[2]]
             /\ settled' = settled \/ (settled' = {} /\ w[1] = ResetReg)
    <3>1. \A r \in Regs : r # w[1] => chip'[r] = chip[r]
      BY <1>1, <2>3 DEF TypeOK
    <3> QED BY <1>1, <1>5, <2>3, <3>1 DEF TypeOK
  <2> QED BY <1>7, <2>1, <2>2, <2>3 DEF Effect
<1>15. ChipFollowsCache'
  BY <1>1, <1>9, <1>14 DEF ChipFollowsCache
<1>16. Wanted'
  <2>1. CASE wanted = <<>>
    BY <1>1, <2>1 DEF Wanted
  <2>2. CASE wanted # <<>>
    <3>1. w[1] # ResetReg
      <4>1. ready
        BY <1>1, <2>2 DEF Control
      <4>2. 1 \in 1 .. Len(todo[c])
        BY <1>1, <1>3, OwnWrite
      <4> QED BY <1>1, <1>4, <4>1, <4>2 DEF Control
    <3>2. settled' = settled
      BY <1>7, <3>1 DEF Effect
    <3> QED BY <1>1, <1>14, <3>2, WantedStays
  <2> QED BY <2>1, <2>2
<1> QED BY <1>7, <1>11, <1>12, <1>13, <1>15, <1>16 DEF IInv

(* The writes that are left were there before, one place on. *)
LEMMA TailElement ==
  ASSUME Control, NEW c \in Callers, todo[c] # <<>>, NEW i \in 1 .. Len(Tail(todo[c]))
  PROVE  i + 1 \in 1 .. Len(todo[c]) /\ Tail(todo[c])[i] = todo[c][i + 1]
<1>1. /\ Len(Tail(todo[c])) = Len(todo[c]) - 1 /\ Len(todo[c]) \in Nat \ {0}
      /\ Tail(todo[c])[i] = todo[c][i + 1]
  BY OwnWrite
<1>2. PICK n \in Nat : n = Len(todo[c])
  BY <1>1
<1> QED BY <1>1, <1>2

(* A write is over. *)
LEMMA DoneControl ==
  ASSUME Control, NEW c \in Callers, script[c] # <<>>, Done(c),
         UNCHANGED <<codec, alone, wanted>>, ~alone => settled' = {}
  PROVE  /\ Control'
         /\ \A d \in Callers : d # c => todo'[d] = todo[d] /\ script'[d] = script[d]
         /\ todo'[c] = Tail(todo[c]) /\ script'[c] = <<>>
<1>1. /\ todo \in [Callers -> Seq(Legal)] /\ script \in [Callers -> Seq(Setting)]
      /\ todo[c] # <<>>
  BY DEF Control
<1>2. /\ todo' = [todo EXCEPT ![c] = Tail(todo[c])] /\ script' = [script EXCEPT ![c] = <<>>]
      /\ ready' = (ready \/ Len(todo[c]) = 1)
  BY DEF Done
<1>3. /\ Tail(todo[c]) \in Seq(Legal) /\ Len(Tail(todo[c])) = Len(todo[c]) - 1
      /\ \A i \in 1 .. Len(Tail(todo[c])) : Tail(todo[c])[i] = todo[c][i + 1]
      /\ Len(todo[c]) \in Nat \ {0}
  BY <1>1, OwnWrite
<1>4. Legal' = Legal /\ ResetReg' = ResetReg
  BY DEF Legal, ResetReg
<1>5. todo' \in [Callers -> Seq(Legal)] /\ todo'[c] = Tail(todo[c])
      /\ \A d \in Callers : d # c => todo'[d] = todo[d]
  BY <1>1, <1>2, <1>3, Zenon
<1>6. script'[c] = <<>> /\ \A d \in Callers : d # c => script'[d] = script[d]
  BY <1>1, <1>2, Zenon
<1>7. script' \in [Callers -> Seq(Setting)]
  <2>1. <<>> \in Seq(Setting)
    BY EmptySeq, Zenon
  <2> QED BY <1>1, <1>2, <2>1, Zenon
<1>8. \A d \in Callers : script'[d] # <<>> => todo'[d] # <<>>
  <2>1. \A d \in Callers : script[d] # <<>> => todo[d] # <<>>
    BY DEF Control
  <2> QED BY <1>5, <1>6, <2>1, Zenon
<1>9. \A d \in Callers : d \in Busy' => d \in Busy
  BY <1>1, <1>5, Zenon DEF Busy
<1>10. ASSUME ready', NEW d \in Callers, NEW i \in 1 .. Len(todo'[d])
       PROVE  todo'[d][i][1] # ResetReg
  <2>1. CASE ready
    <3>1. \A e \in Callers : \A k \in 1 .. Len(todo[e]) : todo[e][k][1] # ResetReg
      BY <2>1 DEF Control
    <3>2. CASE d # c
      BY <1>5, <1>10, <3>1, <3>2
    <3>3. CASE d = c
      <4>1. i + 1 \in 1 .. Len(todo[c]) /\ todo'[d][i] = todo[c][i + 1]
        BY <1>5, <1>10, <3>3, TailElement, <1>1
      <4> QED BY <3>1, <4>1
    <3> QED BY <3>2, <3>3
  <2>2. CASE ~ready
    <3>1. Len(todo[c]) = 1 /\ alone
      BY <1>2, <1>10, <2>2 DEF Control
    <3>2. CASE d = c
      BY <1>3, <1>5, <1>10, <3>1, <3>2
    <3>3. CASE d # c
      <4>1. todo[d] = <<>>
        BY <1>1, <3>1, <3>3 DEF Control, Busy
      <4> QED BY <1>5, <1>10, <3>3, <4>1
    <3> QED BY <3>2, <3>3
  <2> QED BY <2>1, <2>2
<1>11. ~ready' => alone' /\ wanted' = <<>>
  BY <1>2 DEF Control
<1>12. alone' => \A d, e \in Busy' : d = e
  <2>1. Busy' \subseteq Callers
    BY DEF Busy
  <2> QED BY <1>9, <2>1 DEF Control
<1>13. ~alone' => settled' = {} /\ wanted' = <<>>
  BY DEF Control
<1>14. codec' \in Codecs
  BY DEF Control
<1>15. Control'
  BY <1>4, <1>5, <1>7, <1>8, <1>10, <1>11, <1>12, <1>13, <1>14, Zenon DEF Control
<1> QED BY <1>5, <1>6, <1>15

(* The types of what the calls keep follow from their control. *)
LEMMA ControlTypes ==
  ASSUME Control'
  PROVE  /\ codec' \in Codecs
         /\ \A d \in Callers : todo'[d] \in Seq(Regs \X (0 .. 511))
         /\ \A d \in Callers : script'[d] # <<>> => todo'[d] # <<>>
<1>1. ASSUME NEW d \in Callers PROVE todo'[d] \in Seq(Regs \X (0 .. 511))
  <2> DEFINE R == Regs \X (0 .. 511)
             L == Legal'
  <2>1. todo'[d] \in Seq(L) /\ L \subseteq R
    BY LegalWrites, SMTT(30) DEF Control, Legal
  <2> HIDE DEF R, L
  <2>2. todo'[d] \in Seq(R)
    BY <2>1
  <2> QED BY <2>2 DEF R
<1> QED BY <1>1 DEF Control

(* The last setting: the write has arrived, and the lines are idle again. *)
LEMMA LastLineInv ==
  ASSUME IInv, NEW c \in Callers, LastLine(c)
  PROVE  IInv'
<1>1. /\ Len(script[c]) = 1 /\ alone /\ settled' = settled \cup {todo[c][1][1]} /\ Done(c)
      /\ UNCHANGED <<codec, cache, lines, bits, sel, ext, chip, iispsr, rate, alone, wanted>>
      /\ TypeOK /\ Control /\ Receiving /\ ChipFollowsCache /\ UdaBits /\ Wanted
  BY DEF LastLine, IInv, iis, wires
<1>2. script[c] # <<>>
  BY <1>1
<1>3. todo[c] # <<>>
  BY <1>1, <1>2 DEF Control
<1>4. /\ Tail(todo[c]) \in Seq(Legal) /\ Len(Tail(todo[c])) = Len(todo[c]) - 1
      /\ \A i \in 1 .. Len(Tail(todo[c])) : Tail(todo[c])[i] = todo[c][i + 1]
      /\ Len(todo[c]) \in Nat \ {0}
  BY <1>1, <1>3, OwnWrite
<1>5. PICK w \in Legal : w = todo[c][1]
  BY <1>1, <1>3, OwnWrite
<1>6. w[1] \in Regs
  BY LegalWrites
<1>7. /\ Control'
      /\ \A d \in Callers : d # c => todo'[d] = todo[d] /\ script'[d] = script[d]
      /\ todo'[c] = Tail(todo[c]) /\ script'[c] = <<>>
  BY <1>1, <1>2, DoneControl
<1>8. \A d \in Callers : d # c => todo[d] = <<>> /\ script[d] = <<>>
  <2>1. \A d \in Callers : d # c => todo[d] = <<>>
    BY <1>1, <1>3 DEF Control, Busy
  <2> QED BY <1>1, <2>1 DEF Control
<1>9. Idle /\ chip[w[1]] = w[2] /\ cache[w[1]] = w[2] % 256
  <2>1. InStep(c)
    BY <1>1, <1>2 DEF Receiving
  <2>2. /\ cache[w[1]] = w[2] % 256
        /\ IF codec = "wm8976" THEN WmStep(w, 1) ELSE UdaStep(w, 1)
    BY <1>1, <1>5, <2>1 DEF InStep
  <2>3. CASE codec = "wm8976"
    BY <2>2, <2>3 DEF WmStep, WmPlace, Idle
  <2>4. CASE codec # "wm8976"
    <3>1. L3Made(1) = 55 /\ 55 >= 53 /\ 1 <= 56 /\ 55 \in 53 .. 55
      BY DEF L3Made
    <3>2. L3Place(L3Addr(w), L3Data(w, 1), 55) /\ chip[w[1]] = w[2]
      BY <2>2, <2>4, <3>1, Zenon DEF UdaStep
    <3> QED BY <2>2, <3>1, <3>2, Zenon DEF L3Place
  <2> QED BY <2>3, <2>4
<1>10. Writing = {w[1]}
  <2>1. Busy = {c}
    BY <1>3, <1>8 DEF Busy
  <2> QED BY <1>5, <2>1 DEF Writing
<1>11. \A r \in Writing' : Len(todo[c]) > 1 /\ r = todo[c][2][1]
  <2>1. \A d \in Busy' : d = c /\ Tail(todo[c]) # <<>>
    BY <1>7, <1>8 DEF Busy
  <2>2. Tail(todo[c]) # <<>> => Len(Tail(todo[c])) # 0
    BY <1>4, EmptySeq
  <2>3. Tail(todo[c]) # <<>> => Len(todo[c]) > 1 /\ Tail(todo[c])[1] = todo[c][2]
    BY <1>4, <2>2
  <2>4. ASSUME NEW d \in Busy' PROVE Len(todo[c]) > 1 /\ todo'[d][1] = todo[c][2]
    BY <1>7, <2>1, <2>3, <2>4
  <2>5. ASSUME NEW r \in Writing' PROVE Len(todo[c]) > 1 /\ r = todo[c][2][1]
    <3>1. PICK d \in Busy' : r = todo'[d][1][1]
      BY <2>5 DEF Writing
    <3> QED BY <2>4, <3>1
  <2> QED BY <2>5
<1>12. TypeOK'
  <2>1. settled' \subseteq Regs
    BY <1>1, <1>5, <1>6 DEF TypeOK
  <2>2. ready' \in BOOLEAN
    BY <1>1 DEF Done
  <2>3. /\ \A d \in Callers : todo'[d] \in Seq(Regs \X (0 .. 511))
        /\ \A d \in Callers : script'[d] # <<>> => todo'[d] # <<>>
    BY <1>7, ControlTypes
  <2> QED BY <1>1, <2>1, <2>2, <2>3 DEF TypeOK
<1>13. Receiving'
  <2>1. Idle'
    BY <1>1, <1>9 DEF Idle
  <2>2. \A d \in Callers : script'[d] = <<>>
    BY <1>7, <1>8
  <2> QED BY <2>1, <2>2, Zenon DEF Receiving
<1>14. ChipFollowsCache'
  <2>1. ASSUME NEW r \in settled' PROVE chip[r] % 256 = cache[r]
    <3>1. CASE r = w[1]
      BY <1>9, <3>1
    <3>2. CASE r # w[1]
      BY <1>1, <1>5, <1>10, <3>2 DEF ChipFollowsCache
    <3> QED BY <3>1, <3>2
  <2> QED BY <1>1, <2>1 DEF ChipFollowsCache
<1>15. Wanted'
  <2>1. SUFFICES ASSUME wanted # <<>> PROVE Wanted'
    BY <1>1 DEF Wanted
  <2>2. wanted \in Volumes /\ wanted' = wanted /\ Put(wanted)' = Put(wanted)
    BY <1>1, <2>1 DEF Wanted, Put
  <2>3. ASSUME NEW j \in 1 .. Len(Put(wanted))
        PROVE  /\ OnItsWay(Put(wanted)[j])'
               /\ \A d \in Callers : \A i \in 1 .. Len(todo'[d]) :
                    todo'[d][i][1] = Put(wanted)[j][1] => todo'[d][i] = Put(wanted)[j]
    <3>1. PICK u : u = Put(wanted)[j]
      OBVIOUS
    <3>2. /\ OnItsWay(u)
          /\ \A i \in 1 .. Len(todo[c]) : todo[c][i][1] = u[1] => todo[c][i] = u
      BY <1>1, <2>1, <3>1 DEF Wanted
    <3>3. \A i \in 2 .. Len(todo[c]) : \E k \in 1 .. Len(todo'[c]) : todo'[c][k] = todo[c][i]
      <4>1. ASSUME NEW i \in 2 .. Len(todo[c])
            PROVE  i - 1 \in 1 .. Len(todo'[c]) /\ todo'[c][i - 1] = todo[c][i]
        BY <1>4, <1>7
      <4> QED BY <4>1
    <3>4. u[1] \in Writing' => \E k \in 1 .. Len(todo'[c]) : todo'[c][k] = u
      <4>1. ASSUME u[1] \in Writing' PROVE 2 \in 2 .. Len(todo[c]) /\ todo[c][2] = u
        BY <1>4, <1>11, <3>2, <4>1
      <4> QED BY <3>3, <4>1
    <3>5. \/ \E k \in 1 .. Len(todo'[c]) : todo'[c][k] = u
          \/ u[1] \in settled' /\ chip'[u[1]] = u[2]
      <4>1. CASE u[1] \in settled \ Writing /\ chip[u[1]] = u[2]
        BY <1>1, <4>1
      <4>2. ASSUME NEW d \in Callers, NEW i \in 1 .. Len(todo[d]), todo[d][i] = u
            PROVE  <3>5!1 \/ <3>5!2
        <5>1. d = c
          BY <1>8, <4>2
        <5>2. CASE i = 1
          BY <1>1, <1>5, <1>9, <4>2, <5>1, <5>2
        <5>3. CASE i # 1
          <6>1. i \in 2 .. Len(todo[c]) /\ todo[c][i] = u
            BY <4>2, <5>1, <5>3
          <6> QED BY <3>3, <6>1
        <5> QED BY <5>2, <5>3
      <4> QED BY <3>2, <4>1, <4>2 DEF OnItsWay
    <3>6. OnItsWay(u)'
      BY <3>4, <3>5 DEF OnItsWay
    <3>7. ASSUME NEW d \in Callers, NEW i \in 1 .. Len(todo'[d]), todo'[d][i][1] = u[1]
          PROVE  todo'[d][i] = u
      <4>1. d = c
        BY <1>7, <1>8, <3>7
      <4>2. i + 1 \in 1 .. Len(todo[c]) /\ todo'[d][i] = todo[c][i + 1]
        BY <1>1, <1>3, <1>7, <3>7, <4>1, TailElement
      <4> QED BY <3>2, <3>7, <4>2
    <3> QED BY <2>2, <3>1, <3>6, <3>7
  <2> QED BY <2>2, <2>3 DEF Wanted
<1>16. UdaBits'
  BY <1>1 DEF UdaBits
<1> QED BY <1>7, <1>12, <1>13, <1>14, <1>15, <1>16 DEF IInv

(* The rest of a write during which others wrote: nothing is claimed of it. *)
LEMMA GarbleInv ==
  ASSUME IInv, NEW c \in Callers, Garble(c)
  PROVE  IInv'
<1>1. /\ script[c] # <<>> /\ ~alone /\ Done(c)
      /\ lines' \in [{"mode", "dat", "clk"} -> 0 .. 1]
      /\ \E n \in {0, 7} : bits' = [i \in 1 .. n |-> 1]
      /\ sel' \in {20, 22} /\ ext' = 0
      /\ UNCHANGED <<codec, cache, chip, iispsr, rate, alone, settled, wanted>>
      /\ TypeOK /\ Control
  BY DEF Garble, IInv, iis, past
<1>2. settled = {} /\ wanted = <<>>
  BY <1>1 DEF Control
<1>3. Control'
  BY <1>1, <1>2, DoneControl
<1>4. bits' \in Seq(0 .. 1) /\ Len(bits') <= 7
  <2>1. PICK n \in {0, 7} : bits' = [i \in 1 .. n |-> 1]
    BY <1>1
  <2> QED BY <2>1
<1>5. TypeOK'
  <2>1. ready' \in BOOLEAN
    BY <1>1 DEF Done
  <2>2. /\ \A d \in Callers : todo'[d] \in Seq(Regs \X (0 .. 511))
        /\ \A d \in Callers : script'[d] # <<>> => todo'[d] # <<>>
    BY <1>3, ControlTypes
  <2>3. Len(bits') <= 16
    BY <1>4
  <2>4. sel' \in 0 .. 255 /\ ext' \in 0 .. 31
    BY <1>1
  <2> QED BY <1>1, <1>4, <2>1, <2>2, <2>3, <2>4 DEF TypeOK
<1>6. Receiving' /\ ChipFollowsCache' /\ Wanted' /\ UdaBits'
  BY <1>1, <1>2, <1>4 DEF Receiving, ChipFollowsCache, Wanted, UdaBits
<1> QED BY <1>3, <1>5, <1>6 DEF IInv

(***************************************************************************)
(* The invariant holds.                                                    *)
(***************************************************************************)
LEMMA InitInv ==
  ASSUME Init
  PROVE  IInv
<1>1. cache \in [Regs -> 0 .. 255]
  <2>1. ASSUME NEW r \in 0 .. 11 PROVE uda1341_reg[r + 1] \in 0 .. 255
    BY DEF uda1341_reg
  <2>2. ASSUME NEW r \in Regs
        PROVE  (IF codec = "uda1341" /\ r < 12 THEN uda1341_reg[r + 1] ELSE 0) \in 0 .. 255
    <3>1. r < 12 => r \in 0 .. 11
      BY <2>2 DEF Regs
    <3> QED BY <2>1, <3>1
  <2> QED BY <2>2 DEF Init
<1>2. \A c \in Callers : todo[c] = <<>> /\ script[c] = <<>>
  BY DEF Init
<1>3. /\ ready = FALSE /\ alone = TRUE /\ settled = {} /\ wanted = <<>> /\ bits = <<>>
      /\ codec \in Codecs
  BY DEF Init
<1>4. TypeOK
  <2>1. chip \in [Regs -> 0 .. 511]
    BY DEF Init
  <2>2. bits \in Seq(0 .. 1) /\ Len(bits) <= 16
    BY <1>3
  <2>3. sel \in 0 .. 255 /\ ext \in 0 .. 31 /\ iispsr \in 0 .. 31 /\ rate \in Rates \cup {0}
    BY DEF Init
  <2>4. \A c \in Callers : todo[c] \in Seq(Regs \X (0 .. 511))
    BY <1>2, EmptySeq, Zenon
  <2>5. lines \in [{"mode", "dat", "clk"} -> 0 .. 1]
    BY DEF Init
  <2> QED BY <1>1, <1>2, <1>3, <2>1, <2>2, <2>3, <2>4, <2>5, Zenon DEF TypeOK
<1>5. Control
  <2>1. todo \in [Callers -> Seq(Legal)] /\ script \in [Callers -> Seq(Setting)]
    BY EmptySeq, Zenon DEF Init
  <2>2. Busy = {}
    BY <1>2 DEF Busy
  <2> QED BY <1>2, <1>3, <2>1, <2>2, Zenon DEF Control
<1>6. Receiving /\ ChipFollowsCache /\ Wanted
  BY <1>2, <1>3 DEF Receiving, ChipFollowsCache, Wanted
<1>7. UdaBits
  BY <1>3 DEF UdaBits
<1> QED BY <1>4, <1>5, <1>6, <1>7 DEF IInv

(* Nothing the invariant speaks of has changed but the clock and the rate. *)
LEMMA RestInv ==
  ASSUME IInv, UNCHANGED <<codec, cache, calls, wires, past>>,
         iispsr' \in 0 .. 31, rate' \in Rates \cup {0}
  PROVE  IInv'
<1>1. /\ UNCHANGED <<codec, cache, todo, script, ready, lines, bits, sel, ext, chip, alone,
                     settled, wanted>>
      /\ TypeOK /\ Control /\ Receiving /\ ChipFollowsCache /\ UdaBits /\ Wanted
  BY DEF calls, wires, past, IInv
<1>2. TypeOK'
  BY <1>1, SMTT(30) DEF TypeOK
<1>3. Control' /\ Busy' = Busy /\ Writing' = Writing
  BY <1>1 DEF Control, Busy, Writing, Legal, ResetReg
<1>4. Receiving'
  <2>1. Idle' = Idle
    BY <1>1 DEF Idle
  <2>2. \A c \in Callers : InStep(c)' = InStep(c)
    BY <1>1, <2>1 DEF InStep, WmStep, WmPlace, BitsSent, BitSent, UdaStep, L3Place, ByteSent,
                      Length, SettingLeft
  <2> QED BY <1>1, <2>1, <2>2 DEF Receiving
<1>5. ChipFollowsCache' /\ UdaBits'
  BY <1>1, <1>3 DEF ChipFollowsCache, UdaBits
<1>6. Wanted'
  BY <1>1, WantedStays
<1> QED BY <1>2, <1>3, <1>4, <1>5, <1>6 DEF IInv

(* Every step. *)
LEMMA NextInv ==
  ASSUME IInv, [Next]_vars
  PROVE  IInv'
<1>1. CASE UNCHANGED vars
  <2>1. iispsr \in 0 .. 31 /\ rate \in Rates \cup {0}
    BY DEF IInv, TypeOK
  <2> QED BY <1>1, <2>1, RestInv DEF vars, iis
<1>2. ASSUME NEW c \in Callers, soc_probe(c) PROVE IInv'
  BY <1>2, ProbeInv
<1>3. ASSUME NEW c \in Callers, SaveInCache(c) PROVE IInv'
  BY <1>3, SaveInv
<1>4. ASSUME NEW c \in Callers, SetLine(c) PROVE IInv'
  BY <1>4, SetLineInv
<1>5. ASSUME NEW c \in Callers, LastLine(c) PROVE IInv'
  BY <1>5, LastLineInv
<1>6. ASSUME NEW c \in Callers, Garble(c) PROVE IInv'
  BY <1>6, GarbleInv
<1>7. ASSUME NEW c \in Callers, NEW v \in Volumes, put_vol(c, v) PROVE IInv'
  BY <1>7, PutInv
<1>8. ASSUME NEW c \in Callers, NEW w \in ExtWrites, codec_reg(c, w) PROVE IInv'
  BY <1>8, CodecRegInv
<1>9. ASSUME NEW fs \in Rates, s3c2440_i2s_hw_params(fs) PROVE IInv'
  <2>1. /\ UNCHANGED <<codec, cache, calls, wires, past>>
        /\ rate' = fs /\ iispsr' = Prescaler(fs)
    BY <1>9 DEF s3c2440_i2s_hw_params
  <2>2. Prescaler(fs) \in 0 .. 31
    <3>1. fs \in Nat
      BY ClockAssumption
    <3> QED BY <3>1, PrescalerNearest
  <2> QED BY <2>1, <2>2, RestInv
<1> QED BY <1>1, <1>2, <1>3, <1>4, <1>5, <1>6, <1>7, <1>8, <1>9 DEF Next

(* The inductive invariant holds throughout. *)
LEMMA Invariant == Spec => []IInv
  BY InitInv, NextInv, PTL DEF Spec

(* The caches hold bytes, no more bits are shifted in than a receiver has,  *)
(* and the prescaler fits its field.                                        *)
THEOREM TypeCorrect == Spec => []TypeOK
<1>1. IInv => TypeOK
  BY DEF IInv
<1> QED BY <1>1, Invariant, PTL

(* Every register write of a call that is alone arrives, at its register and *)
(* no other, from whatever state overlapping calls have left the lines and   *)
(* the receiver in.                                                          *)
THEOREM ChipFollowsCacheHolds == Spec => []ChipFollowsCache
<1>1. IInv => ChipFollowsCache
  BY DEF IInv
<1> QED BY <1>1, Invariant, PTL

(* Between calls the volume put last is shown and heard. *)
LEMMA PutArrives ==
  ASSUME IInv
  PROVE  VolumeArrives
<1>1. SUFFICES ASSUME Busy = {}, wanted # <<>> PROVE VolumeArrives
  BY DEF VolumeArrives
<1>2. PICK v \in Volumes : v = wanted
  BY <1>1 DEF IInv, Wanted
<1>3. /\ codec \in {"uda1341", "wm8976"} /\ Control /\ cache \in [Regs -> 0 .. 255]
      /\ chip \in [Regs -> 0 .. 511]
  BY CodecNames DEF IInv, Control, TypeOK
<1>4. ASSUME NEW j \in 1 .. Len(Put(v))
      PROVE  /\ chip[Put(v)[j][1]] = Put(v)[j][2]
             /\ cache[Put(v)[j][1]] = Put(v)[j][2] % 256
  <2>1. OnItsWay(Put(v)[j])
    BY <1>1, <1>2 DEF IInv, Wanted
  <2>2. \A d \in Callers : Len(todo[d]) = 0
    BY <1>1, <1>3, NobodyWrites
  <2>3. Put(v)[j][1] \in settled \ Writing /\ chip[Put(v)[j][1]] = Put(v)[j][2]
    BY <2>1, <2>2 DEF OnItsWay
  <2> QED BY <2>3 DEF IInv, ChipFollowsCache
<1>5. v[1] \in 0 .. 63 /\ v[2] \in 0 .. 63 /\ v = <<v[1], v[2]>>
  BY <1>3, PutWrites
<1>6. CASE codec = "uda1341"
  <2>1. Len(Put(v)) = 1 /\ Put(v)[1][1] = 0 /\ Put(v)[1][2] = 63 - v[1]
    BY <1>3, <1>6, PutWrites
  <2>2. chip[0] = 63 - v[1] /\ cache[0] = (63 - v[1]) % 256
    BY <1>4, <2>1
  <2>3. \A x \in 0 .. 63 : 63 - ((63 - x) % 256) = x
    OBVIOUS
  <2>4. uda1341_get_vol = <<v[1], v[1]>>
    BY <1>5, <2>2, <2>3 DEF uda1341_get_vol
  <2> QED BY <1>1, <1>2, <1>6, <2>2, <2>4 DEF VolumeArrives
<1>7. CASE codec = "wm8976"
  <2>1. /\ Len(Put(v)) = 2 /\ Put(v)[1][1] = 52 /\ Put(v)[1][2] = 256 + v[1]
        /\ Put(v)[2][1] = 53 /\ Put(v)[2][2] = 256 + v[2]
    BY <1>3, <1>7, PutWrites
  <2>2. /\ chip[52] = 256 + v[1] /\ chip[53] = 256 + v[2]
        /\ cache[52] = (256 + v[1]) % 256 /\ cache[53] = (256 + v[2]) % 256
    BY <1>4, <2>1
  <2>3. \A x \in 0 .. 63 : ((256 + x) % 256) % 64 = x
    OBVIOUS
  <2>4. wm8976_get_vol = <<v[1], v[2]>>
    BY <1>5, <2>2, <2>3 DEF wm8976_get_vol
  <2> QED BY <1>1, <1>2, <1>5, <1>7, <2>2, <2>4 DEF VolumeArrives
<1> QED BY <1>3, <1>6, <1>7

(* Whatever calls overlapped before, the volume that was put is the one that *)
(* is shown and the one that is heard: both channels of the wm8976, and of   *)
(* the uda1341 the first one, shown twice.                                   *)
THEOREM VolumeArrivesHolds == Spec => []VolumeArrives
  BY Invariant, PutArrives, PTL
===============================================================================
