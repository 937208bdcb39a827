----------------------------- MODULE WheelProofs ---------------------------
(***************************************************************************)
(* Proofs about WheelCode, for half-words of any size, and about           *)
(* WheelWindow, for words of any size, any configuration and any codes.    *)
(*                                                                         *)
(* Both rest on a few facts of quotients and remainders.  A reading keeps  *)
(* track of the value each half-word was taken from (SeenInv): the four    *)
(* values do not decrease in the order of the reads and differ by less     *)
(* than a half-word, so they have two quotients at most.                   *)
(***************************************************************************)
EXTENDS WheelWindow, WheelCode, TLAPS

----------------------------------------------------------------------------
(* Quotient and remainder, and that they are the only ones.                *)
LEMMA Division ==
  ASSUME NEW x \in Int, NEW b \in Nat, b > 0
  PROVE  /\ x \div b \in Int
         /\ x % b \in 0 .. b - 1
         /\ x = b * (x \div b) + (x % b)
         /\ x >= 0 => x \div b >= 0
OBVIOUS

LEMMA DivisionUnique ==
  ASSUME NEW x \in Int, NEW b \in Nat, b > 0, NEW q \in Int, NEW r \in 0 .. b - 1, x = b * q + r
  PROVE  x \div b = q /\ x % b = r
OBVIOUS

(* Multiples do not change a remainder.                                    *)
LEMMA ModShift ==
  ASSUME NEW x \in Int, NEW b \in Nat, b > 0, NEW k \in Int
  PROVE  (x + b * k) % b = x % b
<1>1. PICK q \in Int, r \in 0 .. b - 1 : q = x \div b /\ r = x % b /\ x = b * q + r
  BY Division
<1>2. x + b * k = b * (q + k) + r
  BY <1>1
<1> QED
  BY <1>1, <1>2, DivisionUnique, x + b * k \in Int, q + k \in Int

(* Quotients are monotone, and those of two near numbers are near.         *)
LEMMA QuotientOrder ==
  ASSUME NEW b \in Nat, b > 0, NEW x \in Int, NEW y \in Int, x <= y
  PROVE  /\ x \div b <= y \div b
         /\ y - x < b => y \div b <= (x \div b) + 1
<1>1. PICK q \in Int, r \in 0 .. b - 1 : q = x \div b /\ x = b * q + r
  BY Division
<1>2. PICK p \in Int, t \in 0 .. b - 1 : p = y \div b /\ y = b * p + t
  BY Division
<1>3. b * (q - p) < b
  BY <1>1, <1>2
<1>4. q <= p
  <2>1. SUFFICES ASSUME q - p >= 1 PROVE FALSE
    BY <1>1, <1>2
  <2>2. b * (q - p) >= b
    BY <2>1
  <2> QED
    BY <1>3, <2>2
<1>5. ASSUME y - x < b PROVE p <= q + 1
  <2>1. SUFFICES ASSUME p - q >= 2 PROVE FALSE
    BY <1>1, <1>2
  <2>2. b * (p - q) >= 2 * b
    BY <2>1
  <2>3. b * (p - q) < 2 * b
    BY <1>1, <1>2, <1>5
  <2> QED
    BY <2>2, <2>3
<1> QED
  BY <1>1, <1>2, <1>4, <1>5

(* A quotient of a quotient is the quotient by the product.                *)
LEMMA QuotientTwice ==
  ASSUME NEW x \in Int, NEW a \in Nat, NEW b \in Nat, a > 0, b > 0
  PROVE  /\ x \div (a * b) = (x \div a) \div b
         /\ (x % (a * b)) % b = x % b
<1>1. PICK q \in Int, r \in 0 .. a - 1 : q = x \div a /\ x = a * q + r
  BY Division
<1>2. PICK p \in Int, t \in 0 .. b - 1 : p = q \div b /\ q = b * p + t
  BY Division
<1>3. x = (a * b) * p + (a * t + r)
  BY <1>1, <1>2
<1>4. a * t + r \in 0 .. (a * b) - 1
  <2>1. a * t \in Nat /\ a * t <= a * (b - 1)
    BY <1>2
  <2> QED
    BY <1>1, <2>1
<1>5. a * b \in Nat /\ a * b > 0
  OBVIOUS
<1>6. x \div (a * b) = p
  BY <1>3, <1>4, <1>5, DivisionUnique
<1>7. PICK u \in Int, v \in 0 .. a * b - 1 : v = x % (a * b) /\ x = (a * b) * u + v
  BY <1>5, Division
<1>8. PICK k \in Int : k = a * u /\ x = v + b * k
  <2>1. a * u \in Int /\ x = v + b * (a * u)
    BY <1>7
  <2> QED
    BY <2>1
<1>9. x % b = v % b
  <2>1. (v + b * k) % b = v % b
    <3>1. v \in Int
      OBVIOUS
    <3> QED
      BY <3>1, ModShift, Zenon
  <2> QED
    BY <1>8, <2>1
<1> QED
  BY <1>1, <1>2, <1>6, <1>7, <1>9
----------------------------------------------------------------------------
(* What is left of a value above its lowest one, two and three half-words. *)
above1(v) == v \div HALF
above2(v) == above1(v) \div HALF
above3(v) == v \div place[4]

(* Half-words by repeated division.                                        *)
LEMMA Halfwords ==
  ASSUME NEW v \in Count
  PROVE  /\ above1(v) \in Nat /\ v = HALF * above1(v) + halfword(v, 1)
         /\ above2(v) \in Nat /\ above1(v) = HALF * above2(v) + halfword(v, 2)
         /\ above3(v) \in Nat /\ above2(v) = HALF * above3(v) + halfword(v, 3)
         /\ halfword(v, 4) = above3(v) /\ above3(v) = above2(v) \div HALF
         /\ \A i \in 1 .. 4 : halfword(v, i) \in 0 .. HALF - 1
<1>1. PICK B \in Nat : B = HALF /\ B > 1
  BY CodeAssumption
<1>2. v \in Nat /\ v < B * B * B * B
  BY <1>1 DEF Count, place
<1>3. PICK q \in Nat, a \in 0 .. B - 1 : q = v \div B /\ a = v % B /\ v = B * q + a
  BY <1>1, <1>2, Division
<1>4. PICK r \in Nat, b \in 0 .. B - 1 : r = q \div B /\ b = q % B /\ q = B * r + b
  BY <1>1, Division
<1>5. PICK t \in Nat, c \in 0 .. B - 1 : t = r \div B /\ c = r % B /\ r = B * t + c
  BY <1>1, Division
<1>6. v \div (B * B) = r
  BY <1>1, <1>2, <1>3, <1>4, QuotientTwice
<1>7. v \div (B * B * B) = t
  <2>1. B * B \in Nat /\ B * B > 0
    BY <1>1
  <2> QED
    BY <1>1, <1>2, <1>5, <1>6, <2>1, QuotientTwice
<1>8. t < B
  <2>1. v = (B * B * B) * t + (B * B * c + B * b + a)
    <3>1. v = B * (B * (B * t + c) + b) + a
      BY <1>3, <1>4, <1>5
    <3> HIDE <1>3, <1>4, <1>5
    <3> QED
      BY <3>1, Z3
  <2>2. B * B * c + B * b + a >= 0
    OBVIOUS
  <2>3. (B * B * B) * t < (B * B * B) * B
    BY <1>2, <2>1, <2>2
  <2> QED
    BY <1>1, <2>3
<1>9. t % B = t
  BY <1>1, <1>8, DivisionUnique
<1>10. /\ halfword(v, 1) = a /\ halfword(v, 2) = b
       /\ halfword(v, 3) = c /\ halfword(v, 4) = t
  <2>1. v \div 1 = v
    BY <1>2, DivisionUnique
  <2> QED
    BY <1>1, <1>3, <1>4, <1>5, <1>6, <1>7, <1>9, <2>1 DEF halfword, place
<1>11. q = above1(v) /\ r = above2(v) /\ t = above3(v)
  BY <1>1, <1>3, <1>4, <1>7 DEF place, above1, above2, above3
<1>12. \A i \in 1 .. 4 : halfword(v, i) \in 0 .. HALF - 1
  BY <1>1, <1>8, <1>10
<1> QED
  BY <1>1, <1>3, <1>4, <1>5, <1>10, <1>11, <1>12

(* The values between two near ones have the quotient of the first or the  *)
(* next.                                                                   *)
LEMMA NearQuotients ==
  ASSUME NEW s \in Count, NEW e \in Count, e - s < HALF, NEW u \in s .. e, NEW v \in s .. e, u <= v
  PROVE  /\ u \in Count /\ v \in Count
         /\ above1(s) <= above1(u) /\ above1(u) <= above1(v)
         /\ above1(v) <= above1(e) /\ above1(v) <= above1(u) + 1
         /\ above2(u) <= above2(v)
         /\ above3(s) <= above3(u) /\ above3(u) <= above3(e)
<1>1. PICK B \in Nat : B = HALF /\ B > 1
  BY CodeAssumption
<1>2. s \in Nat /\ e \in Nat /\ u \in Count /\ v \in Count /\ u \in Nat /\ v \in Nat
  BY <1>1 DEF Count, place
<1>3. u \div B \in Int /\ v \div B \in Int
  BY <1>1, <1>2, Division
<1>4. s \div B <= u \div B /\ u \div B <= v \div B /\ v \div B <= e \div B
  BY <1>1, <1>2, QuotientOrder
<1>5. v \div B <= (u \div B) + 1
  BY <1>1, <1>2, QuotientOrder
<1>6. (u \div B) \div B <= (v \div B) \div B
  BY <1>1, <1>3, <1>4, QuotientOrder
<1>7. PICK C \in Nat : C = place[4] /\ C > 0
  BY <1>1 DEF place
<1>8. s \div C <= u \div C /\ u \div C <= e \div C
  BY <1>2, <1>7, QuotientOrder
<1> QED
  BY <1>1, <1>2, <1>4, <1>5, <1>6, <1>7, <1>8 DEF above1, above2, above3

(* What a code is worth whose half-words were taken from four near values. *)
(* Of their order it only matters that register 2 is read before           *)
(* register 3, the two that a carry between the words connects.            *)
LEMMA CodeOfReading ==
  ASSUME NEW s \in Count, NEW e \in Count, s <= e, e - s < HALF,
         NEW w \in [1 .. 4 -> s .. e], w[2] <= w[3],
         \A i \in 1 .. 4 : half[i] = halfword(w[i], i)
  PROVE  /\ s \div HALF = e \div HALF => code \in s .. e
         /\ \E v \in s .. e, d \in {-HALF, 0, HALF} : (code - v - d) % place[3] = 0
         /\ s \div place[4] = e \div place[4] => code > s - HALF
<1>1. PICK B \in Nat : B = HALF /\ B > 1
  BY CodeAssumption
<1>2. s \in Nat /\ e \in Nat /\ place[3] = B * B
  BY <1>1 DEF Count, place
<1>3. PICK w1 \in s .. e, w2 \in s .. e, w3 \in s .. e, w4 \in s .. e :
        w1 = w[1] /\ w2 = w[2] /\ w3 = w[3] /\ w4 = w[4]
  OBVIOUS
<1>4. \A v \in s .. e :
        /\ v \in Count
        /\ above1(s) <= above1(v) /\ above1(v) <= above1(e)
        /\ above3(s) <= above3(v) /\ above3(v) <= above3(e)
  BY <1>1, <1>2, NearQuotients
(* What the four values have above their lower half-words.                 *)
<1>5. PICK q0 \in Nat, a0 \in 0 .. B - 1 : q0 = above1(s) /\ s = B * q0 + a0
  BY <1>1, Halfwords
<1>6. PICK q1 \in Nat, h1 \in 0 .. B - 1 :
        q1 = above1(w1) /\ h1 = halfword(w1, 1) /\ w1 = B * q1 + h1
  <2>1. w1 \in Count
    BY <1>4
  <2> QED
    BY <1>1, <2>1, Halfwords
<1>7. PICK q2 \in Nat, r2 \in Nat, h2 \in 0 .. B - 1 :
        q2 = above1(w2) /\ r2 = above2(w2) /\ h2 = halfword(w2, 2) /\ q2 = B * r2 + h2
  <2>1. w2 \in Count
    BY <1>4
  <2> QED
    BY <1>1, <2>1, Halfwords
<1>8. PICK r3 \in Nat, t3 \in Nat, h3 \in 0 .. B - 1 :
        r3 = above2(w3) /\ t3 = above3(w3) /\ h3 = halfword(w3, 3) /\ r3 = B * t3 + h3
  <2>1. w3 \in Count
    BY <1>4
  <2> QED
    BY <1>1, <2>1, Halfwords
<1>9. PICK h4 \in 0 .. B - 1 : h4 = above3(w4) /\ h4 = halfword(w4, 4)
  <2>1. w4 \in Count
    BY <1>4
  <2> QED
    BY <1>1, <2>1, Halfwords
<1>10. code = h1 + h2 * B + (h3 + h4 * B) * (B * B)
  <2>1. /\ half[1] = halfword(w1, 1) /\ half[2] = halfword(w2, 2)
        /\ half[3] = halfword(w3, 3) /\ half[4] = halfword(w4, 4)
    BY <1>3
  <2>2. half[1] = h1 /\ half[2] = h2 /\ half[3] = h3 /\ half[4] = h4
    BY <1>6, <1>7, <1>8, <1>9, <2>1
  <2> QED
    BY <1>1, <1>2, <2>2 DEF code
(* A carry between the words, and one between the two high half-words,     *)
(* are what the code has beside the quotient of register 2's value.        *)
<1>11. PICK k \in Int, n \in Int : k = r3 - r2 /\ n = h4 - t3
  OBVIOUS
<1>12. code = h1 + q2 * B + (k + n * B) * (B * B)
  <2>1. code = h1 + h2 * B + (r3 - B * t3 + h4 * B) * (B * B)
    BY <1>8, <1>10
  <2>2. h2 * B = q2 * B - r2 * (B * B)
    <3>1. h2 = q2 - B * r2
      BY <1>7
    <3> QED
      BY <3>1
  <2>3. (r3 - B * t3 + h4 * B) * (B * B) = (k + r2 + n * B) * (B * B)
    BY <1>11
  <2>4. (k + r2 + n * B) * (B * B) = (k + n * B) * (B * B) + r2 * (B * B)
    OBVIOUS
  <2> QED
    BY <2>1, <2>2, <2>3, <2>4
<1>13. q0 <= q1 /\ q0 <= q2 /\ q1 - q2 \in -1 .. 1
  <2>1. q0 <= q1 /\ q0 <= q2
    BY <1>4, <1>5, <1>6, <1>7
  <2>2. w1 <= w2 => q1 <= q2 /\ q2 <= q1 + 1
    BY <1>6, <1>7, NearQuotients
  <2>3. w2 <= w1 => q2 <= q1 /\ q1 <= q2 + 1
    BY <1>6, <1>7, NearQuotients
  <2> QED
    BY <1>2, <2>1, <2>2, <2>3
<1>14. k >= 0
  <2>1. w2 <= w3
    BY <1>3
  <2>2. above2(w2) <= above2(w3)
    BY <2>1, NearQuotients
  <2> QED
    BY <1>7, <1>8, <1>11, <2>2
<1>15. ASSUME above1(s) = above1(e) PROVE code \in s .. e
  <2>1. q1 = q0 /\ q2 = q0 /\ above1(w3) = q0 /\ above1(w4) = q0
    <3>1. \A v \in s .. e : above1(v) \in Nat
      BY <1>4, Halfwords
    <3>2. \A v \in s .. e : above1(v) = q0
      BY <1>4, <1>5, <1>15, <3>1
    <3> QED
      BY <1>6, <1>7, <3>2
  <2>2. r3 = r2 /\ above2(w4) = r2
    BY <1>7, <1>8, <2>1 DEF above2
  <2>3. h4 = t3
    BY <1>4, <1>8, <1>9, <2>2, Halfwords
  <2>4. k = 0 /\ n = 0
    BY <1>11, <2>2, <2>3
  <2>5. code = w1
    <3>1. (k + n * B) * (B * B) = 0
      BY <2>4
    <3>2. code = h1 + q2 * B
      BY <1>12, <3>1
    <3>3. PICK y \in Int : y = q2 * B /\ y = B * q1
      BY <2>1
    <3>4. w1 = y + h1
      BY <1>6, <3>3
    <3> QED
      BY <3>2, <3>3, <3>4
  <2> QED
    BY <2>5
<1>16. \E v \in s .. e, d \in {-HALF, 0, HALF} : (code - v - d) % place[3] = 0
  <2>1. PICK d \in {-B, 0, B} : d = (q2 - q1) * B
    BY <1>13
  <2>2. PICK m \in Int : m = k + n * B
    OBVIOUS
  <2>3. code - w1 - d = (B * B) * m + 0
    <3>1. code = h1 + q2 * B + m * (B * B)
      BY <1>12, <2>2
    <3>2. q2 * B = q1 * B + d
      BY <2>1
    <3>3. PICK x \in Int, y \in Int : x = m * (B * B) /\ y = q1 * B
      OBVIOUS
    <3>4. code = h1 + y + d + x
      BY <3>1, <3>2, <3>3
    <3>5. w1 = y + h1
      <4>1. B * q1 = q1 * B
        OBVIOUS
      <4> QED
        BY <1>6, <3>3, <4>1
    <3>6. code - w1 - d = x
      BY <3>4, <3>5
    <3> QED
      BY <3>3, <3>6
  <2>4. (code - w1 - d) % (B * B) = 0
    BY <2>3, DivisionUnique
  <2> QED
    BY <1>1, <1>2, <2>1, <2>4
<1>17. ASSUME above3(s) = above3(e) PROVE code > s - HALF
  <2>1. n = 0
    <3>1. above3(s) \in Nat
      BY Halfwords
    <3>2. t3 = above3(s)
      BY <1>4, <1>8, <1>17, <3>1
    <3>3. h4 = above3(s)
      <4>1. above3(s) <= above3(w4) /\ above3(w4) <= above3(e)
        BY <1>4
      <4> QED
        BY <1>9, <1>17, <3>1, <4>1
    <3> QED
      BY <1>11, <3>2, <3>3
  <2>2. code = h1 + q2 * B + k * (B * B)
    BY <1>12, <2>1
  <2>3. k * (B * B) >= 0 /\ q2 * B >= q0 * B
    BY <1>13, <1>14
  <2> QED
    BY <1>1, <1>5, <2>2, <2>3
<1> QED
  BY <1>15, <1>16, <1>17 DEF above1, above3

----------------------------------------------------------------------------
(* One call of fpga_get_current_code.                                      *)
CodeTypeOK ==
  /\ start \in Count /\ enc \in Count /\ start <= enc /\ enc - start <= MAX_TURN
  /\ order \in Order /\ done \in 0 .. 4
  /\ half \in [1 .. 4 -> 0 .. HALF - 1]

(* seen[j] is the value of the encoder at the j-th read.                   *)
SeenInv ==
  \E seen \in [1 .. 4 -> start .. enc] :
    /\ \A j \in 1 .. done : half[order[j]] = halfword(seen[j], order[j])
    /\ \A i \in 1 .. done, j \in 1 .. done : i <= j => seen[i] <= seen[j]

CodeInv == CodeTypeOK /\ SeenInv

(* A call begins with nothing read.                                        *)
LEMMA CodeInitInv == CodeInit => CodeInv
<1> SUFFICES ASSUME CodeInit PROVE CodeInv
  OBVIOUS
<1>1. start \in Int
  BY CodeAssumption DEF CodeInit, Count, place
<1>2. CodeTypeOK
  BY <1>1, CodeAssumption DEF CodeInit, CodeTypeOK
<1>3. SeenInv
  <2>1. [j \in 1 .. 4 |-> start] \in [1 .. 4 -> start .. enc]
    BY <1>1 DEF CodeInit
  <2>2. 1 .. done = {}
    BY DEF CodeInit
  <2> QED
    BY <2>1, <2>2 DEF SeenInv
<1> QED
  BY <1>2, <1>3 DEF CodeInv

(* The encoder counts on: what has been read was there.                    *)
LEMMA TurnInv == ASSUME CodeInv, turn PROVE CodeInv'
<1>1. start \in Nat /\ enc \in Nat /\ MAX_TURN \in Nat
  BY CodeAssumption DEF CodeInv, CodeTypeOK, Count, place
<1>2. CodeTypeOK'
  BY <1>1 DEF CodeInv, CodeTypeOK, turn
<1>3. SeenInv'
  <2>1. PICK seen \in [1 .. 4 -> start .. enc] :
          /\ \A j \in 1 .. done : half[order[j]] = halfword(seen[j], order[j])
          /\ \A i \in 1 .. done, j \in 1 .. done : i <= j => seen[i] <= seen[j]
    BY DEF CodeInv, SeenInv
  <2>2. seen \in [1 .. 4 -> start' .. enc']
    BY <1>1 DEF turn
  <2> QED
    BY <2>1, <2>2 DEF SeenInv, turn
<1> QED
  BY <1>2, <1>3 DEF CodeInv

(* A read takes a half-word of the encoder as it is, which is not before   *)
(* any value seen so far.                                                  *)
LEMMA ReadInv == ASSUME CodeInv, read_half PROVE CodeInv'
<1>1. start \in Nat /\ enc \in Nat /\ start <= enc /\ order \in Order /\ done \in 0 .. 3
  BY CodeAssumption DEF CodeInv, CodeTypeOK, Count, place, read_half
<1>2. PICK n \in 1 .. 4 : n = done + 1 /\ done' = n
  BY <1>1 DEF read_half
<1>3. PICK r \in 1 .. 4 : r = order[n]
  BY <1>1, <1>2 DEF Order
<1>4. half' = [half EXCEPT ![r] = halfword(enc, r)]
  BY <1>2, <1>3 DEF read_half, register
<1>5. CodeTypeOK'
  <2>1. halfword(enc, r) \in 0 .. HALF - 1
    BY Halfwords DEF CodeInv, CodeTypeOK
  <2>2. half' \in [1 .. 4 -> 0 .. HALF - 1]
    BY <1>4, <2>1 DEF CodeInv, CodeTypeOK
  <2>3. UNCHANGED <<start, enc, order>>
    BY DEF read_half
  <2> QED
    BY <1>2, <2>2, <2>3 DEF CodeInv, CodeTypeOK
<1>6. SeenInv'
  <2>1. PICK seen \in [1 .. 4 -> start .. enc] :
          /\ \A j \in 1 .. done : half[order[j]] = halfword(seen[j], order[j])
          /\ \A i \in 1 .. done, j \in 1 .. done : i <= j => seen[i] <= seen[j]
    BY DEF CodeInv, SeenInv
  <2>2. PICK later \in [1 .. 4 -> start .. enc] : later = [seen EXCEPT ![n] = enc]
    <3>1. enc \in start .. enc
      BY <1>1
    <3>2. [seen EXCEPT ![n] = enc] \in [1 .. 4 -> start .. enc]
      BY <3>1
    <3> QED
      BY <3>2
  <2>3. \A j \in 1 .. n : half'[order[j]] = halfword(later[j], order[j])
    <3>1. ASSUME NEW j \in 1 .. done PROVE half'[order[j]] = halfword(later[j], order[j])
      <4>1. j \in 1 .. 4 /\ j # n /\ order[j] \in 1 .. 4 /\ order[j] # r
        BY <1>1, <1>2, <1>3, <3>1 DEF Order
      <4>2. half'[order[j]] = half[order[j]] /\ later[j] = seen[j]
        BY <1>4, <2>2, <4>1 DEF CodeInv, CodeTypeOK
      <4> QED
        BY <2>1, <4>2
    <3>2. half'[r] = halfword(enc, r) /\ later[n] = enc
      BY <1>4, <2>2 DEF CodeInv, CodeTypeOK
    <3>3. \A j \in 1 .. n : j \in 1 .. done \/ j = n
      BY <1>1, <1>2
    <3> QED
      BY <1>3, <3>1, <3>2, <3>3
  <2>4. \A i \in 1 .. n, j \in 1 .. n : i <= j => later[i] <= later[j]
    <3> SUFFICES ASSUME NEW i \in 1 .. n, NEW j \in 1 .. n, i <= j PROVE later[i] <= later[j]
      OBVIOUS
    <3>1. CASE j = n
      BY <1>1, <2>2, <3>1
    <3>2. CASE j # n
      <4>1. i \in 1 .. done /\ j \in 1 .. done
        BY <1>1, <1>2, <3>2
      <4> QED
        BY <1>2, <2>1, <2>2, <3>2, <4>1
    <3> QED
      BY <3>1, <3>2
  <2> QED
    BY <1>2, <2>2, <2>3, <2>4 DEF SeenInv, read_half
<1> QED
  BY <1>5, <1>6 DEF CodeInv

(* At the end the four half-words are those of four values, in an order in *)
(* which register 2 comes before register 3.                               *)
LEMMA CodeInvImplies == CodeInv => CodeNearEncoder
<1> SUFFICES ASSUME CodeInv, done = 4 PROVE CodeNearEncoder
  BY DEF CodeNearEncoder
<1>1. PICK seen \in [1 .. 4 -> start .. enc] :
        /\ \A j \in 1 .. 4 : half[order[j]] = halfword(seen[j], order[j])
        /\ \A i \in 1 .. 4, j \in 1 .. 4 : i <= j => seen[i] <= seen[j]
  BY DEF CodeInv, SeenInv
(* Every order is its own inverse.                                         *)
<1>2. (\A i \in 1 .. 4 : order[i] \in 1 .. 4 /\ order[order[i]] = i) /\ order[2] <= order[3]
  BY DEF CodeInv, CodeTypeOK, Order
<1>3. PICK w \in [1 .. 4 -> start .. enc] : w = [i \in 1 .. 4 |-> seen[order[i]]]
  BY <1>2
<1>4. \A i \in 1 .. 4 : half[i] = halfword(w[i], i)
  BY <1>1, <1>2, <1>3
<1>5. w[2] <= w[3]
  BY <1>1, <1>2, <1>3
<1>6. start \in Count /\ enc \in Count /\ start <= enc /\ enc - start < HALF
  BY CodeAssumption DEF CodeInv, CodeTypeOK, Count, place
<1> QED
  BY <1>3, <1>4, <1>5, <1>6, CodeOfReading DEF CodeNearEncoder, above1, above3

(* Whatever the size of a half-word and wherever the encoder stands, the   *)
(* code that four reads of a running encoder are put together to is one of *)
(* the encoder's, or off by a half-word's carry as CodeNearEncoder says    *)
(* (fpga.c:61-74).                                                         *)
THEOREM CodeSafe == CodeSpec => []CodeNearEncoder
<1>1. CodeInv /\ [CodeNext]_codeVars => CodeInv'
  <2> SUFFICES ASSUME CodeInv, [CodeNext]_codeVars PROVE CodeInv'
    OBVIOUS
  <2>1. CASE UNCHANGED codeVars
    BY <2>1 DEF codeVars, CodeInv, CodeTypeOK, SeenInv
  <2> QED
    BY <2>1, TurnInv, ReadInv DEF CodeNext
<1> QED
  BY <1>1, CodeInitInv, CodeInvImplies, PTL DEF CodeSpec

----------------------------------------------------------------------------
(* The word size is even.                                                  *)
LEMMA HalfWord == \E H \in Nat : WORD = 2 * H /\ WORD \div 2 = H /\ H > 0
<1>1. WORD \div 2 \in Int /\ WORD = 2 * (WORD \div 2) + (WORD % 2)
  BY WidthAssumption, Division
<1>2. PICK H \in Int : H = WORD \div 2
  BY <1>1
<1>3. WORD = 2 * H
  BY <1>1, <1>2, WidthAssumption
<1> QED
  BY <1>2, <1>3, WidthAssumption

(* int is the representative of a word in its signed range.                *)
LEMMA SignedWord ==
  ASSUME NEW x \in Int
  PROVE  /\ int(x) \in -(WORD \div 2) .. (WORD \div 2) - 1
         /\ \E k \in Int : int(x) = x + WORD * k
<1>1. PICK H \in Nat : WORD = 2 * H /\ WORD \div 2 = H /\ H > 0
  BY HalfWord
<1>2. WORD \in Nat /\ WORD > 0
  BY WidthAssumption
<1>3. PICK q \in Int, r \in 0 .. WORD - 1, p \in Int : r = x % WORD /\ x = p + r /\ p = WORD * q
  BY <1>2, Division
<1>4. CASE r < H
  <2>1. int(x) = r
    BY <1>1, <1>3, <1>4 DEF int, u32
  <2>2. WORD * (-q) = -p
    BY <1>2, <1>3
  <2>3. r = x + WORD * (-q)
    BY <1>3, <2>2
  <2> QED
    BY <1>1, <1>4, <2>1, <2>3
<1>5. CASE r >= H
  <2>1. int(x) = r - WORD
    BY <1>1, <1>3, <1>5 DEF int, u32
  <2>2. WORD * (-q - 1) = -p - WORD
    BY <1>2, <1>3
  <2>3. r - WORD = x + WORD * (-q - 1)
    BY <1>2, <1>3, <2>2
  <2> QED
    BY <1>1, <1>5, <2>1, <2>3
<1> QED
  BY <1>1, <1>4, <1>5

(* A 64-bit difference is its 32-bit distance, taken without its sign,     *)
(* unless it is the one whose negative an int does not hold: that becomes  *)
(* a distance beyond every sample.                                         *)
LEMMA DistanceInside ==
  ASSUME NEW r \in -(WORD \div 2) .. (WORD \div 2) - 1, NEW l \in Word
  PROVE  u64(abs(r)) <= l \div 2 <=> r \in -(l \div 2) .. l \div 2
<1>1. PICK H \in Nat : WORD = 2 * H /\ WORD \div 2 = H /\ H > 0
  BY HalfWord
<1>2. PICK m \in 0 .. H - 1 : m = l \div 2
  BY <1>1 DEF Word
<1>3. WORD * WORD \in Nat /\ WORD * WORD >= 2 * WORD
  BY <1>1
<1>4. ASSUME NEW x \in 0 .. H PROVE x % (WORD * WORD) = x
  <2>1. x \in 0 .. WORD * WORD - 1 /\ x = (WORD * WORD) * 0 + x
    BY <1>1, <1>3
  <2> QED
    BY <1>3, <2>1, DivisionUnique
<1>5. CASE r >= 0
  <2>1. u64(abs(r)) = r
    BY <1>1, <1>4, <1>5 DEF u64, abs
  <2> QED
    BY <1>1, <1>2, <1>5, <2>1
<1>6. CASE r < 0 /\ r # -H
  <2>1. u64(abs(r)) = -r
    BY <1>1, <1>4, <1>6 DEF u64, abs
  <2> QED
    BY <1>1, <1>2, <1>6, <2>1
<1>7. CASE r = -H
  <2>1. -H = (WORD * WORD) * (-1) + (WORD * WORD - H)
    BY <1>3
  <2>2. WORD * WORD - H \in 0 .. WORD * WORD - 1 /\ WORD * WORD - H > H
    BY <1>1, <1>3
  <2>3. (-H) % (WORD * WORD) = WORD * WORD - H
    BY <1>1, <1>3, <2>1, <2>2, DivisionUnique
  <2>4. u64(abs(r)) = WORD * WORD - H
    BY <1>1, <1>7, <2>3 DEF u64, abs
  <2> QED
    BY <1>1, <1>2, <1>7, <2>2, <2>4
<1> QED
  BY <1>1, <1>5, <1>6, <1>7

(* What a search subtracts is the travel up to multiples of a word.        *)
LEMMA DelayIsTravel ==
  ASSUME NEW g \in Configuration, NEW s \in Station
  PROVE  /\ travel(g, s) \in Int
         /\ \E k \in Int : station_delay(g, s) = travel(g, s) + WORD * k
<1>1. WORD \in Nat /\ WORD > 0
  BY WidthAssumption
<1>2. /\ g.C1_KT1_delay \in 0 .. WORD - 1 /\ g.C1_C2_delay \in 0 .. WORD - 1
      /\ g.KT1_KP1_delay \in 0 .. WORD - 1 /\ g.KP1_KT2_delay \in 0 .. WORD - 1
  BY DEF Configuration, Word
<1>3. PICK a \in Int : a = IF s = 1 THEN 0 ELSE g.KT1_KP1_delay + g.KP1_KT2_delay
  BY <1>2
<1>4. PICK b \in Int : b = g.C1_KT1_delay - (IF g.video2_valid THEN g.C1_C2_delay ELSE 0)
  BY <1>1, <1>2
<1>5. travel(g, s) = b + a
  BY <1>3, <1>4 DEF travel
<1>6. PICK q \in Int : (g.C1_KT1_delay - g.C1_C2_delay) % WORD = (g.C1_KT1_delay - g.C1_C2_delay) + WORD * q
  <2>1. PICK x \in Int : x = g.C1_KT1_delay - g.C1_C2_delay
    BY <1>2
  <2>2. PICK p \in Int, r \in 0 .. WORD - 1 : r = x % WORD /\ x = WORD * p + r
    BY <1>1, Division
  <2>3. WORD * (-p) = -(WORD * p)
    BY <1>1
  <2>4. r = x + WORD * (-p)
    BY <1>1, <2>2, <2>3
  <2> QED
    BY <2>1, <2>2, <2>4
<1>7. PICK k \in Int : camera_delay(g) = b + WORD * k
  <2>1. CASE g.video2_valid
    BY <1>4, <1>6, <2>1 DEF camera_delay, u32
  <2>2. CASE ~g.video2_valid
    <3>1. camera_delay(g) = b + WORD * 0
      BY <1>1, <1>2, <1>4, <2>2 DEF camera_delay
    <3> QED
      BY <3>1
  <2> QED
    BY <2>1, <2>2
<1>8. station_delay(g, s) = (b + WORD * k) + a
  BY <1>1, <1>2, <1>3, <1>7 DEF station_delay
<1> QED
  BY <1>1, <1>5, <1>8

(* The C comparison holds in the sample's window and nowhere else.         *)
LEMMA InsideIsWindow ==
  ASSUME NEW g \in Configuration, NEW s \in Station, NEW c \in Int, NEW w \in Int
  PROVE  wheel_code_abs(g, s, c, w) <= g.sample_length \div 2 <=> InWindow(g, s, c, w)
<1>1. PICK H \in Nat : WORD = 2 * H /\ WORD \div 2 = H /\ H > 0
  BY HalfWord
<1>2. WORD \in Nat /\ WORD * WORD \in Nat /\ WORD * WORD > 0 /\ WORD > 0
  BY <1>1
<1>3. g.sample_length \in Word
  BY DEF Configuration
<1>4. PICK d \in Int : d = c - w - travel(g, s)
  BY DelayIsTravel
<1>5. PICK m \in 0 .. H - 1 : m = g.sample_length \div 2
  BY <1>1, <1>3 DEF Word
<1>6. PICK r \in -H .. H - 1, n \in Int :
        wheel_code_abs(g, s, c, w) = u64(abs(r)) /\ d - r = WORD * n
  <2>1. PICK k1 \in Int, p1 \in Int : p1 = WORD * k1 /\ station_delay(g, s) = travel(g, s) + p1
    <3>1. PICK k1 \in Int : station_delay(g, s) = travel(g, s) + WORD * k1
      BY DelayIsTravel
    <3>2. WORD * k1 \in Int
      BY <1>2
    <3> QED
      BY <3>1, <3>2
  <2>2. PICK y \in Int : y = d - p1 /\ y = c - w - station_delay(g, s)
    BY <1>4, <2>1, DelayIsTravel
  <2>3. PICK u \in Int, p \in Int : u = y % (WORD * WORD) /\ y = (WORD * WORD) * p + u
    BY <1>2, Division
  <2>4. PICK r \in -H .. H - 1, k2 \in Int : r = int(u) /\ r = u + WORD * k2
    BY <1>1, SignedWord
  <2>5. wheel_code_abs(g, s, c, w) = u64(abs(r))
    BY <2>2, <2>3, <2>4 DEF wheel_code_abs, u64
  <2>6. PICK n \in Int : n = k1 + WORD * p - k2
    BY <1>2
  <2>7. WORD * n = WORD * k1 + (WORD * WORD) * p - WORD * k2
    BY <1>2, <2>6
  <2>8. d - r = WORD * n
    <3>1. PICK p2 \in Int, p3 \in Int : p2 = (WORD * WORD) * p /\ p3 = WORD * k2
      BY <1>2
    <3>2. y = d - p1 /\ y = p2 + u /\ r = u + p3 /\ WORD * n = p1 + p2 - p3
      BY <2>1, <2>2, <2>3, <2>4, <2>7, <3>1
    <3> QED
      BY <3>2
  <2> QED
    BY <2>5, <2>8
<1>7. wheel_code_abs(g, s, c, w) <= g.sample_length \div 2 <=> r \in -m .. m
  BY <1>1, <1>3, <1>5, <1>6, DistanceInside
<1>8. ASSUME r \in -m .. m PROVE InWindow(g, s, c, w)
  <2>1. d - r = WORD * n + 0
    BY <1>2, <1>6
  <2>2. (d - r) % WORD = 0
    BY <1>2, <2>1, DivisionUnique
  <2> QED
    BY <1>4, <1>5, <1>8, <2>2 DEF InWindow
<1>9. ASSUME NEW x \in -m .. m, (d - x) % WORD = 0 PROVE r = x
  <2>1. PICK q \in Int : d - x = WORD * q
    BY <1>2, <1>9, Division
  <2>2. PICK e \in Int : e = q - n
    OBVIOUS
  <2>3. WORD * e = WORD * q - WORD * n
    BY <1>2, <2>2
  <2>4. WORD * e = r - x
    BY <1>6, <2>1, <2>3
  <2>5. WORD * e < WORD /\ WORD * e > -WORD
    BY <1>1, <2>4
  <2>6. (e >= 1 => WORD * e >= WORD) /\ (e <= -1 => WORD * e <= -WORD)
    BY <1>2
  <2>7. e = 0
    BY <1>2, <2>5, <2>6
  <2> QED
    BY <1>2, <2>4, <2>7
<1>10. ASSUME InWindow(g, s, c, w) PROVE r \in -m .. m
  <2>1. PICK x \in -m .. m : (d - x) % WORD = 0
    BY <1>4, <1>5, <1>10 DEF InWindow
  <2> QED
    BY <1>9, <2>1
<1> QED
  BY <1>7, <1>8, <1>10

(* For every word size, every configuration, every code the camera stored  *)
(* and every position of the encoder: a passage hits the result exactly in *)
(* the window of the sample, up to multiples of 2^32 counts                *)
(* (array.c:96-106, 135-150).                                              *)
THEOREM WindowSafe == MatchSpec => []HitIsWindow
<1> DEFINE MatchTypeOK == conf \in Configuration /\ shot \in Long /\ now \in Long
<1>1. MatchInit => MatchTypeOK
  BY InputAssumption DEF MatchInit
<1>2. MatchTypeOK /\ [CountOn]_matchVars => MatchTypeOK'
  <2>1. WORD * WORD \in Nat /\ WORD * WORD > 0
    BY WidthAssumption
  <2>2. \A x \in 0 .. WORD * WORD - 1 : (x + 1) % (WORD * WORD) \in 0 .. WORD * WORD - 1
    BY <2>1, Division
  <2> QED
    BY <2>2 DEF CountOn, matchVars, Long
<1>3. MatchTypeOK => HitIsWindow
  <2> SUFFICES ASSUME MatchTypeOK, NEW s \in Station
               PROVE  hits(conf, 1, s, now, [wheel_code |-> shot]) <=> InWindow(conf, s, now, shot)
    BY DEF HitIsWindow
  <2>1. now \in Int /\ shot \in Int
    BY DEF Long
  <2>2. hits(conf, 1, s, now, [wheel_code |-> shot])
          <=> wheel_code_abs(conf, s, now, shot) <= conf.sample_length \div 2
    BY DEF hits
  <2> QED
    BY <2>1, <2>2, InsideIsWindow
<1> QED
  BY <1>1, <1>2, <1>3, PTL DEF MatchSpec
=============================================================================
