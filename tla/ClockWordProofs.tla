--------------------------- MODULE ClockWordProofs ---------------------------
(***************************************************************************)
(* Every word handed out says the solution found, for every set of         *)
(* solutions the search may accept.                                        *)
(***************************************************************************)
EXTENDS ClockWordProperties, WellFoundedInduction, TLAPS

\* The digit worth 2^i of a number, and two and four digits from there.
Digit(n, i)  == (n \div 2^i) % 2
Pair(n, i)   == Digit(n, i) + 2 * Digit(n, i + 1)
Nibble(n, i) == Pair(n, i) + 4 * Pair(n, i + 2)

(* The powers of two within 16 bits.                                       *)
LEMMA Powers ==
  /\ 2^0 = 1 /\ 2^1 = 2 /\ 2^2 = 4 /\ 2^3 = 8 /\ 2^4 = 16 /\ 2^5 = 32 /\ 2^6 = 64 /\ 2^7 = 128
  /\ 2^8 = 256 /\ 2^9 = 512 /\ 2^10 = 1024 /\ 2^11 = 2048 /\ 2^12 = 4096 /\ 2^13 = 8192
  /\ 2^14 = 16384 /\ 2^15 = 32768
  OBVIOUS

(* A digit is 0 or 1.                                                      *)
LEMMA DigitIs ==
  ASSUME NEW n \in Nat, NEW i, i \in 0..15
  PROVE  Digit(n, i) \in {0, 1}
<1>1. /\ Digit(n, 0) = (n \div 1) % 2 /\ Digit(n, 1) = (n \div 2) % 2
      /\ Digit(n, 2) = (n \div 4) % 2 /\ Digit(n, 3) = (n \div 8) % 2 /\ Digit(n, 4) = (n \div 16) % 2
      /\ Digit(n, 5) = (n \div 32) % 2 /\ Digit(n, 6) = (n \div 64) % 2
      /\ Digit(n, 7) = (n \div 128) % 2
  BY Powers DEF Digit
<1>2. /\ Digit(n, 8) = (n \div 256) % 2 /\ Digit(n, 9) = (n \div 512) % 2
      /\ Digit(n, 10) = (n \div 1024) % 2 /\ Digit(n, 11) = (n \div 2048) % 2
      /\ Digit(n, 12) = (n \div 4096) % 2 /\ Digit(n, 13) = (n \div 8192) % 2
      /\ Digit(n, 14) = (n \div 16384) % 2 /\ Digit(n, 15) = (n \div 32768) % 2
  BY Powers DEF Digit
<1>3. \A k \in Nat \ {0} : (n \div k) % 2 \in {0, 1}
  <2>1. \A k \in Nat \ {0} : n \div k \in Nat
    OBVIOUS
  <2>2. \A h \in Nat : h % 2 \in {0, 1}
    OBVIOUS
  <2> QED BY <2>1, <2>2
<1>4. /\ Digit(n, 0) \in {0, 1} /\ Digit(n, 1) \in {0, 1} /\ Digit(n, 2) \in {0, 1}
      /\ Digit(n, 3) \in {0, 1} /\ Digit(n, 4) \in {0, 1} /\ Digit(n, 5) \in {0, 1}
      /\ Digit(n, 6) \in {0, 1} /\ Digit(n, 7) \in {0, 1}
  BY <1>1, <1>3
<1>5. /\ Digit(n, 8) \in {0, 1} /\ Digit(n, 9) \in {0, 1} /\ Digit(n, 10) \in {0, 1}
      /\ Digit(n, 11) \in {0, 1} /\ Digit(n, 12) \in {0, 1} /\ Digit(n, 13) \in {0, 1}
      /\ Digit(n, 14) \in {0, 1} /\ Digit(n, 15) \in {0, 1}
  BY <1>2, <1>3
<1>6. i = 0 \/ i = 1 \/ i = 2 \/ i = 3 \/ i = 4 \/ i = 5 \/ i = 6 \/ i = 7
      \/ i = 8 \/ i = 9 \/ i = 10 \/ i = 11 \/ i = 12 \/ i = 13 \/ i = 14 \/ i = 15
  OBVIOUS
<1> QED BY <1>4, <1>5, <1>6

(* The topmost digits of a number that is small enough are 0.              *)
LEMMA NoDigits ==
  ASSUME NEW n \in Nat, n < 16384
  PROVE  /\ n < 8192 => Digit(n, 13) = 0
         /\ Digit(n, 14) = 0 /\ Digit(n, 15) = 0
<1>1. /\ Digit(n, 13) = (n \div 8192) % 2 /\ Digit(n, 14) = (n \div 16384) % 2
      /\ Digit(n, 15) = (n \div 32768) % 2
  BY Powers DEF Digit
<1>2. (n < 8192 => n \div 8192 = 0) /\ n \div 16384 = 0 /\ n \div 32768 = 0
  OBVIOUS
<1>3. 0 % 2 = 0
  OBVIOUS
<1> QED BY <1>1, <1>2, <1>3

(* The lowest digits of a number that has been shifted by five are 0.      *)
LEMMA NoLowDigits ==
  ASSUME NEW m \in Nat, NEW n \in Nat, n = m * 32
  PROVE  Digit(n, 0) = 0 /\ Digit(n, 1) = 0 /\ Digit(n, 2) = 0 /\ Digit(n, 3) = 0 /\ Digit(n, 4) = 0
<1>1. /\ Digit(n, 0) = (n \div 1) % 2 /\ Digit(n, 1) = (n \div 2) % 2 /\ Digit(n, 2) = (n \div 4) % 2
      /\ Digit(n, 3) = (n \div 8) % 2 /\ Digit(n, 4) = (n \div 16) % 2
  BY Powers DEF Digit
<1>2. /\ (n \div 1) % 2 = 0 /\ (n \div 2) % 2 = 0 /\ (n \div 4) % 2 = 0
      /\ (n \div 8) % 2 = 0 /\ (n \div 16) % 2 = 0
  OBVIOUS
<1> QED BY <1>1, <1>2

(* Digits of a number, alone and together, at the places the tables read.  *)
LEMMA Digits ==
  ASSUME NEW n \in Nat
  PROVE  /\ Digit(n, 6) = (n \div 64) % 2 /\ Digit(n, 7) = (n \div 128) % 2
         /\ Digit(n, 12) = (n \div 4096) % 2
         /\ Pair(n, 3) = (n \div 8) % 4 /\ Pair(n, 5) = (n \div 32) % 4
         /\ Pair(n, 6) = (n \div 64) % 4 /\ Pair(n, 12) = (n \div 4096) % 4
         /\ Nibble(n, 2) = (n \div 4) % 16 /\ Nibble(n, 8) = (n \div 256) % 16
         /\ Nibble(n, 12) = (n \div 4096) % 16
<1>1. /\ Digit(n, 0) = (n \div 1) % 2 /\ Digit(n, 1) = (n \div 2) % 2
      /\ Digit(n, 2) = (n \div 4) % 2 /\ Digit(n, 3) = (n \div 8) % 2 /\ Digit(n, 4) = (n \div 16) % 2
      /\ Digit(n, 5) = (n \div 32) % 2 /\ Digit(n, 6) = (n \div 64) % 2
      /\ Digit(n, 7) = (n \div 128) % 2
  BY Powers DEF Digit
<1>2. /\ Digit(n, 8) = (n \div 256) % 2 /\ Digit(n, 9) = (n \div 512) % 2
      /\ Digit(n, 10) = (n \div 1024) % 2 /\ Digit(n, 11) = (n \div 2048) % 2
      /\ Digit(n, 12) = (n \div 4096) % 2 /\ Digit(n, 13) = (n \div 8192) % 2
      /\ Digit(n, 14) = (n \div 16384) % 2 /\ Digit(n, 15) = (n \div 32768) % 2
  BY Powers DEF Digit
<1>4. /\ Pair(n, 2) = (n \div 4) % 4 /\ Pair(n, 3) = (n \div 8) % 4 /\ Pair(n, 4) = (n \div 16) % 4
      /\ Pair(n, 5) = (n \div 32) % 4 /\ Pair(n, 6) = (n \div 64) % 4
  <2>1. /\ Pair(n, 2) = Digit(n, 2) + 2 * Digit(n, 3)
        /\ Pair(n, 3) = Digit(n, 3) + 2 * Digit(n, 4)
        /\ Pair(n, 4) = Digit(n, 4) + 2 * Digit(n, 5)
        /\ Pair(n, 5) = Digit(n, 5) + 2 * Digit(n, 6)
        /\ Pair(n, 6) = Digit(n, 6) + 2 * Digit(n, 7)
    BY DEF Pair
  <2>2. ((n \div 4) % 2) + 2 * ((n \div 8) % 2) = (n \div 4) % 4
    OBVIOUS
  <2>3. ((n \div 8) % 2) + 2 * ((n \div 16) % 2) = (n \div 8) % 4
    OBVIOUS
  <2>4. ((n \div 16) % 2) + 2 * ((n \div 32) % 2) = (n \div 16) % 4
    OBVIOUS
  <2>5. ((n \div 32) % 2) + 2 * ((n \div 64) % 2) = (n \div 32) % 4
    OBVIOUS
  <2>6. ((n \div 64) % 2) + 2 * ((n \div 128) % 2) = (n \div 64) % 4
    OBVIOUS
  <2> QED BY <1>1, <2>1, <2>2, <2>3, <2>4, <2>5, <2>6
<1>5. /\ Pair(n, 8) = (n \div 256) % 4 /\ Pair(n, 10) = (n \div 1024) % 4
      /\ Pair(n, 12) = (n \div 4096) % 4 /\ Pair(n, 14) = (n \div 16384) % 4
  <2>1. /\ Pair(n, 8) = Digit(n, 8) + 2 * Digit(n, 9)
        /\ Pair(n, 10) = Digit(n, 10) + 2 * Digit(n, 11)
        /\ Pair(n, 12) = Digit(n, 12) + 2 * Digit(n, 13)
        /\ Pair(n, 14) = Digit(n, 14) + 2 * Digit(n, 15)
    BY DEF Pair
  <2>2. ((n \div 256) % 2) + 2 * ((n \div 512) % 2) = (n \div 256) % 4
    OBVIOUS
  <2>3. ((n \div 1024) % 2) + 2 * ((n \div 2048) % 2) = (n \div 1024) % 4
    OBVIOUS
  <2>4. ((n \div 4096) % 2) + 2 * ((n \div 8192) % 2) = (n \div 4096) % 4
    OBVIOUS
  <2>5. ((n \div 16384) % 2) + 2 * ((n \div 32768) % 2) = (n \div 16384) % 4
    OBVIOUS
  <2> QED BY <1>2, <2>1, <2>2, <2>3, <2>4, <2>5
<1>6. /\ Nibble(n, 2) = (n \div 4) % 16 /\ Nibble(n, 8) = (n \div 256) % 16
      /\ Nibble(n, 12) = (n \div 4096) % 16
  <2>1. /\ Nibble(n, 2) = Pair(n, 2) + 4 * Pair(n, 4)
        /\ Nibble(n, 8) = Pair(n, 8) + 4 * Pair(n, 10)
        /\ Nibble(n, 12) = Pair(n, 12) + 4 * Pair(n, 14)
    BY DEF Nibble
  <2>2. ((n \div 4) % 4) + 4 * ((n \div 16) % 4) = (n \div 4) % 16
    OBVIOUS
  <2>3. ((n \div 256) % 4) + 4 * ((n \div 1024) % 4) = (n \div 256) % 16
    OBVIOUS
  <2>4. ((n \div 4096) % 4) + 4 * ((n \div 16384) % 4) = (n \div 4096) % 16
    OBVIOUS
  <2>5. Nibble(n, 2) = (n \div 4) % 16
    BY <1>4, <2>1, <2>2
  <2>6. Nibble(n, 8) = (n \div 256) % 16
    BY <1>5, <2>1, <2>3
  <2>7. Nibble(n, 12) = (n \div 4096) % 16
    <3>1. Pair(n, 12) = (n \div 4096) % 4 /\ Pair(n, 14) = (n \div 16384) % 4
      BY <1>5
    <3>2. Nibble(n, 12) = Pair(n, 12) + 4 * Pair(n, 14)
      BY <2>1
    <3> DEFINE h == n \div 4096
               g == n \div 16384
    <3>3. (h % 4) + 4 * (g % 4) = h % 16 /\ Pair(n, 12) = h % 4 /\ Pair(n, 14) = g % 4
      BY <2>4, <3>1
    <3> HIDE DEF h, g
    <3>4. Nibble(n, 12) = h % 16
      BY <3>2, <3>3
    <3> QED BY <3>4 DEF h
  <2> QED BY <2>5, <2>6, <2>7
<1> QED BY <1>1, <1>2, <1>4, <1>5, <1>6

(* The two bytes that a shifted number is written to hold its digits.      *)
LEMMA LowHigh ==
  ASSUME NEW n \in Nat
  PROVE  /\ Low(n) \subseteq Byte /\ High(n) \subseteq Byte
         /\ \A b \in Byte : Digit(n, b) \in {0, 1} /\ Digit(n, b + 8) \in {0, 1}
         /\ \A b \in Byte : b \in Low(n) <=> Digit(n, b) = 1
         /\ \A b \in Byte : b \in High(n) <=> Digit(n, b + 8) = 1
<1>1. \A b \in Byte : b \in 0..15 /\ b + 8 \in 0..15
  BY DEF Byte
<1>2. \A b \in Byte : b \in Low(n) <=> Digit(n, b) = 1
  BY <1>1 DEF Low, Bits, Digit
<1>3. \A b \in Byte : b \in High(n) <=> Digit(n, b + 8) = 1
  BY <1>1 DEF High, Bits, Digit
<1>4. \A b \in Byte : Digit(n, b) \in {0, 1} /\ Digit(n, b + 8) \in {0, 1}
  BY <1>1, DigitIs
<1>5. Low(n) \subseteq Byte /\ High(n) \subseteq Byte
  BY DEF Low, High
<1> QED BY <1>2, <1>3, <1>4, <1>5

Words == [0..19 -> SUBSET Byte]

(* progdata[i] = (progdata[i] & ~clear) | set, and nothing else.           *)
LEMMA Changed ==
  ASSUME NEW data \in Words, NEW i, i \in 0..19, NEW clear, NEW set \in SUBSET Byte
  PROVE  /\ Change(data, i, clear, set) \in Words
         /\ Change(data, i, clear, set)[i] = (data[i] \ clear) \cup set
         /\ \A j \in 0..19 : j # i => Change(data, i, clear, set)[j] = data[j]
BY DEF Change, Words

(* A bit as a number.                                                      *)
LEMMA BitIs ==
  ASSUME NEW data, NEW i, NEW b
  PROVE  Bit(data, i, b) \in {0, 1} /\ (Bit(data, i, b) = 1 <=> b \in data[i])
BY DEF Bit

(* What a reader of two words with the same bits in the input divider's    *)
(* places reads.                                                           *)
LEMMA RefSame ==
  ASSUME NEW data \in Words, NEW next \in Words, next[0] = data[0],
         \A b \in 0..4 : b \in next[1] <=> b \in data[1]
  PROVE  RefRead(next) = RefRead(data)
<1>1. \A b : Bit(next, 0, b) = Bit(data, 0, b)
  BY DEF Bit
<1>2. \A b \in 0..4 : Bit(next, 1, b) = Bit(data, 1, b)
  BY DEF Bit
<1>3. Four(next, 0, 2) = Four(data, 0, 2) /\ Two(next, 0, 6) = Two(data, 0, 6)
  BY <1>1 DEF Four, Two
<1>4. Four(next, 1, 0) = Four(data, 1, 0) /\ Bit(next, 1, 4) = Bit(data, 1, 4)
  BY <1>2 DEF Four, Two
<1> QED BY <1>3, <1>4 DEF RefRead

(* The same for the VCO divider.                                           *)
LEMMA VcoSame ==
  ASSUME NEW data, NEW next, next[1] = data[1], next[2] = data[2]
  PROVE  VcoRead(next) = VcoRead(data)
BY DEF VcoRead, Four, Two, Bit

(* The same for the loop filter.                                           *)
LEMMA RsSame ==
  ASSUME NEW data, NEW next, 1 \in next[11] <=> 1 \in data[11], 2 \in next[11] <=> 2 \in data[11]
  PROVE  RsRead(next) = RsRead(data)
<1>1. next[11] \cap {1, 2} = data[11] \cap {1, 2}
  OBVIOUS
<1> QED BY <1>1 DEF RsRead

(* The same for the charge pump.                                           *)
LEMMA IcpSame ==
  ASSUME NEW data, NEW next, \A b \in 3..5 : b \in next[11] <=> b \in data[11],
         next[15] = data[15] \/ (7 \in next[15] <=> 7 \in data[15]), next[16] = data[16]
  PROVE  IcpRead(next) = IcpRead(data)
<1>1. Bit(next, 11, 3) = Bit(data, 11, 3) /\ Bit(next, 11, 4) = Bit(data, 11, 4)
      /\ Bit(next, 11, 5) = Bit(data, 11, 5)
  BY DEF Bit
<1>2. Bit(next, 15, 7) = Bit(data, 15, 7) /\ Bit(next, 16, 0) = Bit(data, 16, 0)
  BY DEF Bit
<1> QED BY <1>1, <1>2 DEF IcpRead, Two

(* The same for the output divider.                                        *)
LEMMA OdSame ==
  ASSUME NEW data, NEW next, next[11] = data[11], next[12] = data[12], next[13] = data[13]
  PROVE  OdRead(next) = OdRead(data)
<1>1. \A b : Bit(next, 12, b) = Bit(data, 12, b) /\ Bit(next, 13, b) = Bit(data, 13, b)
  BY DEF Bit
<1>2. \A b : Two(next, 12, b) = Two(data, 12, b) /\ Two(next, 13, b) = Two(data, 13, b)
  BY <1>1 DEF Two
<1>3. \A b : Four(next, 12, b) = Four(data, 12, b) /\ Four(next, 13, b) = Four(data, 13, b)
  BY <1>2 DEF Four
<1> QED BY <1>1, <1>2, <1>3 DEF OdRead

(* Table 1: the input divider is read back from its bits, and nothing else *)
(* has changed.                                                            *)
LEMMA InputReads ==
  ASSUME progdata \in Words, progdata[0] = {}, progdata[1] = {},
         NEW d \in Nat, 1 <= d, d <= 1200
  PROVE  /\ InputBits(d) \in Words
         /\ RefRead(InputBits(d)) = d
         /\ InputBits(d)[1] \cap 5..7 = {}
         /\ \A j \in 2..19 : InputBits(d)[j] = progdata[j]
<1> DEFINE w == InputBits(d)
<1>1. CASE d = 1
  <2>1. /\ w \in Words /\ w[0] = {} /\ w[1] = {}
        /\ \A j \in 2..19 : w[j] = progdata[j]
    BY <1>1 DEF InputBits, Change, Words
  <2>2. RefRead(w) = 1
    BY <2>1 DEF RefRead
  <2> HIDE DEF w
  <2> QED BY <1>1, <2>1, <2>2 DEF w
<1>2. CASE d = 2
  <2>1. /\ w \in Words /\ w[0] = {0} /\ w[1] = {}
        /\ \A j \in 2..19 : w[j] = progdata[j]
    BY <1>2 DEF InputBits, Change, Words, Byte
  <2>2. RefRead(w) = 2
    BY <2>1 DEF RefRead
  <2> QED BY <1>2, <2>1, <2>2
<1>3. CASE 3 <= d /\ d <= 17
  <2> DEFINE m == 65 - d
             n == m * 4
  <2>1. m \in 48..62 /\ d = 65 - m /\ n \in Nat
    BY <1>3
  <2>2. Not(d - 2, 6) = m
    <3>1. (d - 2) % 64 = d - 2
      <4>1. \A k \in 0..63 : k % 64 = k
        OBVIOUS
      <4>2. d - 2 \in 0..63
        BY <1>3
      <4> QED BY <4>1, <4>2
    <3> QED BY <3>1, Powers DEF Not
  <2>3. w = [progdata EXCEPT ![0] = (Low(n) \ {0, 6, 7}) \cup {1}]
    <3>1. d # 1 /\ d # 2 /\ d \in 3..17 /\ d \notin 18..2055
      BY <1>3, SMTT(20)
    <3>2. w = [progdata EXCEPT ![0] = (Low(Not(d - 2, 6) * 4) \ {0, 6, 7}) \cup {1}]
      BY <3>1, SMTT(30) DEF InputBits
    <3> HIDE DEF w
    <3> QED BY <2>2, <3>2
  <2>4. m = n \div 4 /\ (n \div 4) % 16 = m - 48
    BY <2>1
  <2> HIDE DEF w, m, n
  <2>5. Low(n) \subseteq Byte
    BY <2>1, LowHigh
  <2>6. /\ w \in Words /\ w[0] = (Low(n) \ {0, 6, 7}) \cup {1} /\ w[1] = {}
        /\ \A j \in 2..19 : w[j] = progdata[j]
    BY <2>3, <2>5 DEF Words, Byte
  <2>7. RefRead(w) = 17 - Four(w, 0, 2)
    <3>1. w[0] \cap {0, 1} = {1}
      BY <2>6
    <3> QED BY <3>1 DEF RefRead
  <2>8. Four(w, 0, 2) = Nibble(n, 2)
    <3>1. \A b \in Byte : Digit(n, b) \in {0, 1} /\ (b \in Low(n) <=> Digit(n, b) = 1)
      BY <2>1, LowHigh
    <3>2. \A b \in 2..5 : Bit(w, 0, b) = Digit(n, b)
      BY <2>6, <3>1 DEF Bit, Byte
    <3> QED BY <3>2 DEF Four, Two, Nibble, Pair
  <2>9. Nibble(n, 2) = (n \div 4) % 16
    BY <2>1, Digits
  <2>10. RefRead(w) = d
    BY <2>1, <2>4, <2>7, <2>8, <2>9
  <2>11. w[1] \cap 5..7 = {}
    BY <2>6
  <2> QED BY <2>6, <2>10, <2>11 DEF w
<1>4. CASE 18 <= d
  <2> DEFINE m == d - 8
             n == m * 4
  <2>1. m \in Nat /\ m < 1193 /\ d = m + 8 /\ n \in Nat
    BY <1>4
  <2>2. w = [progdata EXCEPT ![0] = Low(n) \cup {0, 1}, ![1] = High(n)]
    <3>1. d # 1 /\ d # 2 /\ d \notin 3..17 /\ d \in 18..2055
      BY <1>4
    <3> QED BY <3>1 DEF InputBits
  <2>3. n = m * 4
    OBVIOUS
  <2> HIDE DEF w, m, n
  <2>4. Low(n) \subseteq Byte /\ High(n) \subseteq Byte
    BY <2>1, LowHigh
  <2>5. /\ w \in Words /\ w[0] = Low(n) \cup {0, 1} /\ w[1] = High(n)
        /\ \A j \in 2..19 : w[j] = progdata[j]
    BY <2>2, <2>4 DEF Words, Byte
  <2>6. Four(w, 0, 2) = Nibble(n, 2) /\ Two(w, 0, 6) = Pair(n, 6)
    <3>1. \A b \in Byte : Digit(n, b) \in {0, 1} /\ (b \in Low(n) <=> Digit(n, b) = 1)
      BY <2>1, LowHigh
    <3>2. \A b \in 2..7 : Bit(w, 0, b) = Digit(n, b)
      BY <2>5, <3>1 DEF Bit, Byte
    <3> QED BY <3>2 DEF Four, Two, Nibble, Pair
  <2>7. Four(w, 1, 0) = Nibble(n, 8) /\ Bit(w, 1, 4) = Digit(n, 12)
    <3>1. \A b \in Byte : Digit(n, b + 8) \in {0, 1} /\ (b \in High(n) <=> Digit(n, b + 8) = 1)
      BY <2>1, LowHigh
    <3>2. \A b \in 0..7 : Bit(w, 1, b) = Digit(n, b + 8)
      BY <2>5, <3>1 DEF Bit, Byte
    <3> QED BY <3>2 DEF Four, Two, Nibble, Pair
  <2>8. /\ Nibble(n, 2) = (n \div 4) % 16 /\ Pair(n, 6) = (n \div 64) % 4
        /\ Nibble(n, 8) = (n \div 256) % 16 /\ Digit(n, 12) = (n \div 4096) % 2
    <3>1. Nibble(n, 2) = (n \div 4) % 16 /\ Pair(n, 6) = (n \div 64) % 4
      BY <2>1, Digits
    <3>2. Nibble(n, 8) = (n \div 256) % 16
      BY <2>1, Digits
    <3>3. Digit(n, 12) = (n \div 4096) % 2
      BY <2>1, Digits
    <3> QED BY <3>1, <3>2, <3>3
  <2>9. /\ n \div 4 = m /\ n \div 64 = m \div 16 /\ n \div 256 = m \div 64
        /\ n \div 4096 = m \div 1024
    BY <2>1, <2>3
  <2>10. m = (m % 16) + 16 * ((m \div 16) % 4) + 64 * ((m \div 64) % 16) + 1024 * ((m \div 1024) % 2)
    BY <2>1
  <2>11. RefRead(w) = 8 + Four(w, 0, 2) + 16 * Two(w, 0, 6) + 64 * Four(w, 1, 0) + 1024 * Bit(w, 1, 4)
    <3>1. w[0] \cap {0, 1} = {0, 1}
      BY <2>5
    <3> QED BY <3>1 DEF RefRead
  <2>12. RefRead(w) = d
    BY <2>1, <2>6, <2>7, <2>8, <2>9, <2>10, <2>11
  <2>13. \A b \in 5..7 : b \notin w[1]
    <3>1. /\ Digit(n, 13) = 0 /\ Digit(n, 14) = 0 /\ Digit(n, 15) = 0
      BY <2>1, <2>3, NoDigits
    <3>2. \A b \in 5..7 : b \in Byte /\ (b = 5 \/ b = 6 \/ b = 7)
      BY DEF Byte
    <3>3. \A b \in Byte : b \in High(n) <=> Digit(n, b + 8) = 1
      BY <2>1, LowHigh
    <3> QED BY <2>5, <3>1, <3>2, <3>3
  <2> QED BY <2>5, <2>12, <2>13 DEF w
<1> QED BY <1>1, <1>2, <1>3, <1>4

(* Table 2: the VCO divider is read back; the reference divider's bits in  *)
(* the byte they share, and all other bytes, are as they were.             *)
LEMMA VcoReads ==
  ASSUME progdata \in Words, progdata[1] \cap 5..7 = {}, progdata[2] = {},
         NEW v \in Nat, 12 <= v, v <= 2055
  PROVE  /\ VcoBits(v) \in Words
         /\ VcoRead(VcoBits(v)) = v
         /\ \A b \in 0..4 : b \in VcoBits(v)[1] <=> b \in progdata[1]
         /\ \A j \in 0..19 : j \notin {1, 2} => VcoBits(v)[j] = progdata[j]
<1> DEFINE w == VcoBits(v)
           m == v - 8
           n == m * 32
<1>1. m \in Nat /\ m < 2048 /\ v = m + 8 /\ n \in Nat /\ n = m * 32
  OBVIOUS
<1>2. w = Change(Change(progdata, 1, {}, Low(n)), 2, {}, High(n))
  BY DEF VcoBits
<1> HIDE DEF w, m, n
<1>3. Low(n) \subseteq Byte /\ High(n) \subseteq Byte
  BY <1>1, LowHigh
<1>4. /\ w \in Words /\ w[1] = progdata[1] \cup Low(n) /\ w[2] = High(n)
      /\ \A j \in 0..19 : j \notin {1, 2} => w[j] = progdata[j]
  BY <1>2, <1>3 DEF Words, Change
<1>5. \A b \in Byte : /\ Digit(n, b) \in {0, 1} /\ (b \in Low(n) <=> Digit(n, b) = 1)
                      /\ Digit(n, b + 8) \in {0, 1} /\ (b \in High(n) <=> Digit(n, b + 8) = 1)
  BY <1>1, LowHigh
<1>6. \A b \in 0..4 : b \in w[1] <=> b \in progdata[1]
  <2>1. Digit(n, 0) = 0 /\ Digit(n, 1) = 0 /\ Digit(n, 2) = 0 /\ Digit(n, 3) = 0 /\ Digit(n, 4) = 0
    BY <1>1, NoLowDigits
  <2>2. \A b \in 0..4 : b \in Byte /\ (b = 0 \/ b = 1 \/ b = 2 \/ b = 3 \/ b = 4)
    BY DEF Byte
  <2> QED BY <1>4, <1>5, <2>1, <2>2
<1>7. /\ Two(w, 1, 5) = Pair(n, 5) /\ Bit(w, 1, 7) = Digit(n, 7)
  <2>1. \A b \in 5..7 : Bit(w, 1, b) = Digit(n, b)
    BY <1>4, <1>5 DEF Bit, Byte
  <2> QED BY <2>1 DEF Two, Pair
<1>8. Four(w, 2, 0) = Nibble(n, 8) /\ Four(w, 2, 4) = Nibble(n, 12)
  <2>1. \A b \in 0..7 : Bit(w, 2, b) = Digit(n, b + 8)
    BY <1>4, <1>5 DEF Bit, Byte
  <2> QED BY <2>1 DEF Four, Two, Nibble, Pair
<1>9. Pair(n, 5) = (n \div 32) % 4 /\ Digit(n, 7) = (n \div 128) % 2
  BY <1>1, Digits
<1>10. Nibble(n, 8) = (n \div 256) % 16 /\ Nibble(n, 12) = (n \div 4096) % 16
  BY <1>1, Digits
<1>11. /\ n \div 32 = m /\ n \div 128 = m \div 4 /\ n \div 256 = m \div 8
       /\ n \div 4096 = m \div 128
  BY <1>1
<1>12. m = (m % 4) + 4 * ((m \div 4) % 2) + 8 * ((m \div 8) % 16) + 128 * ((m \div 128) % 16)
  BY <1>1
<1>13. VcoRead(w) = 8 + m
  BY <1>1, <1>7, <1>8, <1>9, <1>10, <1>11, <1>12 DEF VcoRead
<1> QED BY <1>1, <1>4, <1>6, <1>13 DEF w

(* Table 4: the loop filter resistor is read back, and only its bits have  *)
(* changed.                                                                *)
LEMMA FilterReads ==
  ASSUME progdata \in Words, progdata[11] = {}, NEW rs \in Resistor
  PROVE  /\ FilterBits(rs) \in Words
         /\ RsRead(FilterBits(rs)) = rs
         /\ FilterBits(rs)[11] \subseteq {1, 2}
         /\ \A j \in 0..19 : j # 11 => FilterBits(rs)[j] = progdata[j]
<1> DEFINE w == FilterBits(rs)
<1>1. PICK set \in {{}, {1}, {2}, {1, 2}}, clear \in {{}, {1, 2}} :
        /\ w = Change(progdata, 11, clear, set)
        /\ rs = CASE set = {} -> 64000 [] set = {2} -> 52000 [] set = {1} -> 16000 [] OTHER -> 4000
  <2>1. CASE rs = 64000
    BY <2>1 DEF FilterBits
  <2>2. CASE rs = 52000
    <3>1. w = Change(progdata, 11, {1, 2}, {2})
      BY <2>2 DEF FilterBits
    <3>2. {2} # {}
      OBVIOUS
    <3> HIDE DEF w
    <3> QED BY <2>2, <3>1, <3>2
  <2>3. CASE rs = 16000
    <3>1. w = Change(progdata, 11, {1, 2}, {1})
      BY <2>3 DEF FilterBits
    <3>2. {1} # {} /\ {1} # {2}
      OBVIOUS
    <3> HIDE DEF w
    <3> QED BY <2>3, <3>1, <3>2
  <2>4. CASE rs = 4000
    <3>1. w = Change(progdata, 11, {}, {1, 2})
      BY <2>4 DEF FilterBits
    <3>2. {1, 2} # {} /\ {1, 2} # {2} /\ {1, 2} # {1}
      OBVIOUS
    <3> HIDE DEF w
    <3> QED BY <2>4, <3>1, <3>2
  <2>5. rs = 64000 \/ rs = 52000 \/ rs = 16000 \/ rs = 4000
    BY DEF Resistor
  <2> HIDE DEF w
  <2> QED BY <2>1, <2>2, <2>3, <2>4, <2>5
<1> HIDE DEF w
<1>2. set \subseteq {1, 2} /\ set \subseteq Byte
  BY DEF Byte
<1>3. w \in Words /\ w[11] = set /\ \A j \in 0..19 : j # 11 => w[j] = progdata[j]
  BY <1>1, <1>2 DEF Change, Words
<1>4. w[11] \cap {1, 2} = set
  BY <1>2, <1>3
<1>5. RsRead(w) = rs
  BY <1>1, <1>4 DEF RsRead
<1> QED BY <1>2, <1>3, <1>5 DEF w

\* The three bits of byte 11 that a current's table entry leaves set.
PumpSteps(icp) ==
  CASE icp \in {125, 250, 375, 500} -> {3, 4, 5} [] icp \in {625, 1250, 1875, 2500} -> {3, 4}
    [] icp \in {750, 2250} -> {4} [] icp \in {875, 1750, 2625, 3500} -> {3}
    [] icp \in {1000, 2000, 3000, 4000} -> {} [] icp \in {1125, 1500} -> {3, 5}

(* Every arm of table 3 leaves them so, whatever it clears first, when the *)
(* loop filter's bits are all that was in the byte.                        *)
LEMMA PumpSet ==
  ASSUME progdata \in Words, progdata[11] \subseteq {1, 2}, NEW icp \in Pump
  PROVE  /\ PumpBits(icp) \in Words
         /\ PumpBits(icp)[11] = progdata[11] \cup PumpSteps(icp)
         /\ \A j \in 0..19 : j # 11 => PumpBits(icp)[j] = progdata[j]
<1> DEFINE w == PumpBits(icp)
<1>1. ASSUME NEW clear, clear \subseteq {3, 4, 5}, NEW set, set \subseteq Byte,
             w = Change(progdata, 11, clear, set), PumpSteps(icp) = set
      PROVE  /\ w \in Words /\ w[11] = progdata[11] \cup PumpSteps(icp)
             /\ \A j \in 0..19 : j # 11 => w[j] = progdata[j]
  <2> HIDE DEF w
  <2>1. progdata[11] \ clear = progdata[11]
    BY <1>1
  <2> QED BY <1>1, <2>1 DEF Words, Change
<1>2. 3..5 = {3, 4, 5} /\ {3, 4, 5} \subseteq Byte
  BY DEF Byte
<1>3. CASE icp \in {125, 250, 375, 500}
  <2>1. w = Change(progdata, 11, {}, 3..5) /\ PumpSteps(icp) = {3, 4, 5}
    BY <1>3 DEF PumpBits, PumpSteps
  <2> HIDE DEF w
  <2> QED BY <1>1, <1>2, <2>1 DEF w
<1>4. CASE icp \in {625, 1250, 1875, 2500}
  <2>1. w = Change(progdata, 11, {5}, {3, 4}) /\ PumpSteps(icp) = {3, 4}
    BY <1>4 DEF PumpBits, PumpSteps
  <2> HIDE DEF w
  <2> QED BY <1>1, <1>2, <2>1 DEF w
<1>5. CASE icp = 750
  <2>1. w = Change(progdata, 11, {3, 5}, {4}) /\ PumpSteps(icp) = {4}
    BY <1>5 DEF PumpBits, PumpSteps
  <2> HIDE DEF w
  <2> QED BY <1>1, <1>2, <2>1 DEF w
<1>6. CASE icp \in {875, 1750, 2625, 3500}
  <2>1. w = Change(progdata, 11, {4, 5}, {3}) /\ PumpSteps(icp) = {3}
    BY <1>6 DEF PumpBits, PumpSteps
  <2> HIDE DEF w
  <2> QED BY <1>1, <1>2, <2>1 DEF w
<1>7. CASE icp \in {1000, 2000, 3000, 4000}
  <2>1. w = Change(progdata, 11, {3, 4, 5}, {}) /\ PumpSteps(icp) = {}
    BY <1>7 DEF PumpBits, PumpSteps
  <2> HIDE DEF w
  <2> QED BY <1>1, <1>2, <2>1 DEF w
<1>8. CASE icp \in {1125, 1500}
  <2>1. w = Change(progdata, 11, {4}, {3, 5}) /\ PumpSteps(icp) = {3, 5}
    BY <1>8, SMTT(20) DEF PumpBits, PumpSteps
  <2> HIDE DEF w
  <2> QED BY <1>1, <1>2, <2>1 DEF w
<1>9. CASE icp = 2250
  <2>1. w = Change(progdata, 11, {}, {4}) /\ PumpSteps(icp) = {4}
    BY <1>9 DEF PumpBits, PumpSteps
  <2> HIDE DEF w
  <2> QED BY <1>1, <1>2, <2>1 DEF w
<1>10. \/ icp \in {125, 250, 375, 500} \/ icp \in {625, 1250, 1875, 2500} \/ icp = 750
       \/ icp \in {875, 1750, 2625, 3500} \/ icp \in {1000, 2000, 3000, 4000}
       \/ icp \in {1125, 1500} \/ icp = 2250
  BY DEF Pump
<1> QED BY <1>3, <1>4, <1>5, <1>6, <1>7, <1>8, <1>9, <1>10

(* Table 3: the current is read back, in steps and units; only its bits    *)
(* have changed.                                                           *)
LEMMA CurrentReads ==
  ASSUME progdata \in Words, progdata[11] \subseteq {1, 2}, NEW icp \in Pump
  PROVE  /\ CurrentBits(icp) \in Words
         /\ IcpRead(CurrentBits(icp)) = icp
         /\ CurrentBits(icp)[11] \subseteq 1..5
         /\ \A b \in {1, 2} : b \in CurrentBits(icp)[11] <=> b \in progdata[11]
         /\ \A b \in Byte : /\ b # 7 => (b \in CurrentBits(icp)[15] <=> b \in progdata[15])
                            /\ b # 0 => (b \in CurrentBits(icp)[16] <=> b \in progdata[16])
         /\ \A j \in 0..19 : j \notin {11, 15, 16} => CurrentBits(icp)[j] = progdata[j]
<1> DEFINE w == CurrentBits(icp)
           u == PumpBits(icp)
<1>1. /\ u \in Words /\ u[11] = progdata[11] \cup PumpSteps(icp)
      /\ \A j \in 0..19 : j # 11 => u[j] = progdata[j]
  BY PumpSet
<1>2. w = Put(Put(u, 15, 7, icp \in PumpHigh15), 16, 0, icp \in PumpHigh16)
  BY DEF CurrentBits
<1> HIDE DEF w, u
<1>3. /\ w \in Words /\ w[11] = u[11]
      /\ w[15] = (u[15] \ {7}) \cup (IF icp \in PumpHigh15 THEN {7} ELSE {})
      /\ w[16] = (u[16] \ {0}) \cup (IF icp \in PumpHigh16 THEN {0} ELSE {})
      /\ \A j \in 0..19 : j \notin {15, 16} => w[j] = u[j]
  <2> DEFINE x == Put(u, 15, 7, icp \in PumpHigh15)
  <2>1. x \in Words /\ x[15] = (u[15] \ {7}) \cup (IF icp \in PumpHigh15 THEN {7} ELSE {})
        /\ \A j \in 0..19 : j # 15 => x[j] = u[j]
    BY <1>1 DEF Put, Change, Words, Byte
  <2>2. w = Put(x, 16, 0, icp \in PumpHigh16)
    BY <1>2
  <2> HIDE DEF x
  <2>3. w \in Words /\ w[16] = (x[16] \ {0}) \cup (IF icp \in PumpHigh16 THEN {0} ELSE {})
        /\ \A j \in 0..19 : j # 16 => w[j] = x[j]
    BY <2>1, <2>2 DEF Put, Change, Words, Byte
  <2> QED BY <2>1, <2>3
<1>4. PumpSteps(icp) \subseteq {3, 4, 5}
  BY DEF PumpSteps, Pump
<1>5. /\ Bit(w, 15, 7) = IF icp \in PumpHigh15 THEN 1 ELSE 0
      /\ Bit(w, 16, 0) = IF icp \in PumpHigh16 THEN 1 ELSE 0
  BY <1>3 DEF Bit
<1>6. \A b \in {3, 4, 5} : Bit(w, 11, b) = IF b \in PumpSteps(icp) THEN 1 ELSE 0
  BY <1>1, <1>3 DEF Bit
<1>7. IcpRead(w) = 125 * (8 - (Bit(w, 11, 3) + 2 * Bit(w, 11, 4) + 4 * Bit(w, 11, 5)))
                       * (1 + Bit(w, 15, 7) + 2 * Bit(w, 16, 0))
  BY DEF IcpRead, Two
<1>8. IcpRead(w) = icp
  <2>1. CASE icp \in {125, 250, 375, 500}
    <3>1. PumpSteps(icp) = {3, 4, 5}
      BY <2>1 DEF PumpSteps
    <3>2. Bit(w, 11, 3) = 1 /\ Bit(w, 11, 4) = 1 /\ Bit(w, 11, 5) = 1
      BY <1>6, <3>1
    <3>3. IcpRead(w) = 125 * 1 * (1 + Bit(w, 15, 7) + 2 * Bit(w, 16, 0))
      BY <1>5, <1>7, <3>2
    <3>4. icp = 125 => Bit(w, 15, 7) = 0 /\ Bit(w, 16, 0) = 0
      BY <1>5 DEF PumpHigh15, PumpHigh16
    <3>5. icp = 250 => Bit(w, 15, 7) = 1 /\ Bit(w, 16, 0) = 0
      BY <1>5 DEF PumpHigh15, PumpHigh16
    <3>6. icp = 375 => Bit(w, 15, 7) = 0 /\ Bit(w, 16, 0) = 1
      BY <1>5 DEF PumpHigh15, PumpHigh16
    <3>7. icp = 500 => Bit(w, 15, 7) = 1 /\ Bit(w, 16, 0) = 1
      BY <1>5 DEF PumpHigh15, PumpHigh16
    <3> QED BY <2>1, <3>3, <3>4, <3>5, <3>6, <3>7
  <2>2. CASE icp \in {625, 1250, 1875, 2500}
    <3>1. PumpSteps(icp) = {3, 4}
      BY <2>2 DEF PumpSteps
    <3>2. Bit(w, 11, 3) = 1 /\ Bit(w, 11, 4) = 1 /\ Bit(w, 11, 5) = 0
      BY <1>6, <3>1
    <3>3. IcpRead(w) = 125 * 5 * (1 + Bit(w, 15, 7) + 2 * Bit(w, 16, 0))
      BY <1>5, <1>7, <3>2
    <3>4. icp = 625 => Bit(w, 15, 7) = 0 /\ Bit(w, 16, 0) = 0
      BY <1>5 DEF PumpHigh15, PumpHigh16
    <3>5. icp = 1250 => Bit(w, 15, 7) = 1 /\ Bit(w, 16, 0) = 0
      BY <1>5 DEF PumpHigh15, PumpHigh16
    <3>6. icp = 1875 => Bit(w, 15, 7) = 0 /\ Bit(w, 16, 0) = 1
      BY <1>5 DEF PumpHigh15, PumpHigh16
    <3>7. icp = 2500 => Bit(w, 15, 7) = 1 /\ Bit(w, 16, 0) = 1
      BY <1>5 DEF PumpHigh15, PumpHigh16
    <3> QED BY <2>2, <3>3, <3>4, <3>5, <3>6, <3>7
  <2>3. CASE icp \in {750, 2250}
    <3>1. PumpSteps(icp) = {4}
      BY <2>3 DEF PumpSteps
    <3>2. Bit(w, 11, 3) = 0 /\ Bit(w, 11, 4) = 1 /\ Bit(w, 11, 5) = 0
      BY <1>6, <3>1
    <3>3. IcpRead(w) = 125 * 6 * (1 + Bit(w, 15, 7) + 2 * Bit(w, 16, 0))
      BY <1>5, <1>7, <3>2
    <3>4. icp = 750 => Bit(w, 15, 7) = 0 /\ Bit(w, 16, 0) = 0
      BY <1>5 DEF PumpHigh15, PumpHigh16
    <3>5. icp = 2250 => Bit(w, 15, 7) = 0 /\ Bit(w, 16, 0) = 1
      BY <1>5 DEF PumpHigh15, PumpHigh16
    <3> QED BY <2>3, <3>3, <3>4, <3>5
  <2>4. CASE icp \in {875, 1750, 2625, 3500}
    <3>1. PumpSteps(icp) = {3}
      BY <2>4 DEF PumpSteps
    <3>2. Bit(w, 11, 3) = 1 /\ Bit(w, 11, 4) = 0 /\ Bit(w, 11, 5) = 0
      BY <1>6, <3>1
    <3>3. IcpRead(w) = 125 * 7 * (1 + Bit(w, 15, 7) + 2 * Bit(w, 16, 0))
      BY <1>5, <1>7, <3>2
    <3>4. icp = 875 => Bit(w, 15, 7) = 0 /\ Bit(w, 16, 0) = 0
      BY <1>5 DEF PumpHigh15, PumpHigh16
    <3>5. icp = 1750 => Bit(w, 15, 7) = 1 /\ Bit(w, 16, 0) = 0
      BY <1>5 DEF PumpHigh15, PumpHigh16
    <3>6. icp = 2625 => Bit(w, 15, 7) = 0 /\ Bit(w, 16, 0) = 1
      BY <1>5 DEF PumpHigh15, PumpHigh16
    <3>7. icp = 3500 => Bit(w, 15, 7) = 1 /\ Bit(w, 16, 0) = 1
      BY <1>5 DEF PumpHigh15, PumpHigh16
    <3> QED BY <2>4, <3>3, <3>4, <3>5, <3>6, <3>7
  <2>5. CASE icp \in {1000, 2000, 3000, 4000}
    <3>1. PumpSteps(icp) = {}
      BY <2>5 DEF PumpSteps
    <3>2. Bit(w, 11, 3) = 0 /\ Bit(w, 11, 4) = 0 /\ Bit(w, 11, 5) = 0
      BY <1>6, <3>1
    <3>3. IcpRead(w) = 125 * 8 * (1 + Bit(w, 15, 7) + 2 * Bit(w, 16, 0))
      BY <1>5, <1>7, <3>2
    <3>4. icp = 1000 => Bit(w, 15, 7) = 0 /\ Bit(w, 16, 0) = 0
      BY <1>5 DEF PumpHigh15, PumpHigh16
    <3>5. icp = 2000 => Bit(w, 15, 7) = 1 /\ Bit(w, 16, 0) = 0
      BY <1>5 DEF PumpHigh15, PumpHigh16
    <3>6. icp = 3000 => Bit(w, 15, 7) = 0 /\ Bit(w, 16, 0) = 1
      BY <1>5 DEF PumpHigh15, PumpHigh16
    <3>7. icp = 4000 => Bit(w, 15, 7) = 1 /\ Bit(w, 16, 0) = 1
      BY <1>5 DEF PumpHigh15, PumpHigh16
    <3> QED BY <2>5, <3>3, <3>4, <3>5, <3>6, <3>7
  <2>6. CASE icp \in {1125, 1500}
    <3>1. PumpSteps(icp) = {3, 5}
      BY <2>6 DEF PumpSteps
    <3>2. Bit(w, 11, 3) = 1 /\ Bit(w, 11, 4) = 0 /\ Bit(w, 11, 5) = 1
      BY <1>6, <3>1
    <3>3. IcpRead(w) = 125 * 3 * (1 + Bit(w, 15, 7) + 2 * Bit(w, 16, 0))
      BY <1>5, <1>7, <3>2
    <3>4. icp = 1125 => Bit(w, 15, 7) = 0 /\ Bit(w, 16, 0) = 1
      BY <1>5 DEF PumpHigh15, PumpHigh16
    <3>5. icp = 1500 => Bit(w, 15, 7) = 1 /\ Bit(w, 16, 0) = 1
      BY <1>5 DEF PumpHigh15, PumpHigh16
    <3> QED BY <2>6, <3>3, <3>4, <3>5
  <2>7. \/ icp \in {125, 250, 375, 500} \/ icp \in {625, 1250, 1875, 2500} \/ icp \in {750, 2250}
        \/ icp \in {875, 1750, 2625, 3500} \/ icp \in {1000, 2000, 3000, 4000}
        \/ icp \in {1125, 1500}
    BY DEF Pump
  <2> QED BY <2>1, <2>2, <2>3, <2>4, <2>5, <2>6, <2>7
<1> QED BY <1>1, <1>3, <1>4, <1>8 DEF w

\* What table 5 must do to the word.
Divides(w, od) ==
  /\ w \in Words
  /\ OdRead(w) = od
  /\ \A b \in Byte : /\ b # 7 => (b \in w[11] <=> b \in progdata[11])
                     /\ b > 5 => (b \in w[13] <=> b \in progdata[13])
  /\ \A j \in 0..19 : j \notin {11, 12, 13} => w[j] = progdata[j]

\* Byte 12 of the small dividers.
SmallCode(od) ==
  CASE od \in {2, 3} -> {} [] od \in {4, 6} -> {2} [] od \in {5, 7} -> {0}
    [] od = 9 -> {0, 2} [] od = 11 -> {0, 3} [] od = 13 -> {0, 2, 3}

(* Table 5, the dividers with a code of their own.                         *)
LEMMA SmallReads ==
  ASSUME progdata \in Words, progdata[12] = {}, NEW od \in SmallOd
  PROVE  Divides(SmallBits(od), od)
<1> DEFINE w == SmallBits(od)
           x == Put(progdata, 11, 7, od \notin {2, 4, 5})
           clear == IF od \in {2, 3} THEN Byte ELSE {}
           y == Change(x, 12, clear, SmallCode(od))
<1>1. w = Change(y, 13, 0..5, {})
  BY DEF SmallBits, SmallCode
<1>2. SmallCode(od) \subseteq Byte
  BY DEF SmallCode, SmallOd, Byte
<1>3. x \in Words /\ x[11] = (progdata[11] \ {7}) \cup (IF od \notin {2, 4, 5} THEN {7} ELSE {})
      /\ \A j \in 0..19 : j # 11 => x[j] = progdata[j]
  BY DEF Put, Change, Words, Byte
<1> HIDE DEF x, clear
<1>4. y \in Words /\ y[12] = SmallCode(od) /\ \A j \in 0..19 : j # 12 => y[j] = x[j]
  <2>1. x[12] = {}
    BY <1>3
  <2> QED BY <1>2, <1>3, <2>1 DEF Change, Words
<1> HIDE DEF w, y
<1>5. w \in Words /\ w[13] = y[13] \ (0..5) /\ \A j \in 0..19 : j # 13 => w[j] = y[j]
  BY <1>1, <1>4 DEF Change, Words
<1>6. /\ w[12] = SmallCode(od)
      /\ 7 \in w[11] <=> od \notin {2, 4, 5}
  BY <1>3, <1>4, <1>5
<1>7. OdRead(w) = od
  <2>1. CASE od \in {2, 3}
    <3>1. w[12] = {}
      BY <1>6, <2>1 DEF SmallCode
    <3>2. w[12] \cap {0, 1} # {1}
      BY <3>1
    <3>3. w[12] # {2} /\ w[12] # {0} /\ w[12] # {0, 2} /\ w[12] # {0, 3} /\ w[12] # {0, 2, 3}
      BY <3>1
    <3> QED BY <1>6, <2>1, <3>1, <3>2, <3>3 DEF OdRead
  <2>2. CASE od \in {4, 6}
    <3>1. w[12] = {2}
      BY <1>6, <2>2 DEF SmallCode
    <3>2. w[12] \cap {0, 1} # {1}
      BY <3>1
    <3>3. w[12] # {} /\ w[12] # {0} /\ w[12] # {0, 2} /\ w[12] # {0, 3} /\ w[12] # {0, 2, 3}
      BY <3>1
    <3> QED BY <1>6, <2>2, <3>1, <3>2, <3>3 DEF OdRead
  <2>3. CASE od \in {5, 7}
    <3>1. w[12] = {0}
      BY <1>6, <2>3 DEF SmallCode
    <3>2. w[12] \cap {0, 1} # {1}
      BY <3>1
    <3>3. w[12] # {} /\ w[12] # {2} /\ w[12] # {0, 2} /\ w[12] # {0, 3} /\ w[12] # {0, 2, 3}
      BY <3>1
    <3> QED BY <1>6, <2>3, <3>1, <3>2, <3>3 DEF OdRead
  <2>4. CASE od = 9
    <3>1. w[12] = {0, 2}
      BY <1>6, <2>4 DEF SmallCode
    <3>2. w[12] \cap {0, 1} # {1}
      BY <3>1
    <3>3. w[12] # {} /\ w[12] # {2} /\ w[12] # {0} /\ w[12] # {0, 3} /\ w[12] # {0, 2, 3}
      BY <3>1
    <3> QED BY <1>6, <2>4, <3>1, <3>2, <3>3 DEF OdRead
  <2>5. CASE od = 11
    <3>1. w[12] = {0, 3}
      BY <1>6, <2>5 DEF SmallCode
    <3>2. w[12] \cap {0, 1} # {1}
      BY <3>1
    <3>3. w[12] # {} /\ w[12] # {2} /\ w[12] # {0} /\ w[12] # {0, 2} /\ w[12] # {0, 2, 3}
      BY <3>1
    <3> QED BY <1>6, <2>5, <3>1, <3>2, <3>3 DEF OdRead
  <2>6. CASE od = 13
    <3>1. w[12] = {0, 2, 3}
      BY <1>6, <2>6 DEF SmallCode
    <3>2. w[12] \cap {0, 1} # {1}
      BY <3>1
    <3>3. w[12] # {} /\ w[12] # {2} /\ w[12] # {0} /\ w[12] # {0, 2} /\ w[12] # {0, 3}
      BY <3>1
    <3> QED BY <1>6, <2>6, <3>1, <3>2, <3>3 DEF OdRead
  <2>7. \/ od \in {2, 3} \/ od \in {4, 6} \/ od \in {5, 7} \/ od = 9 \/ od = 11 \/ od = 13
    BY DEF SmallOd
  <2> QED BY <2>1, <2>2, <2>3, <2>4, <2>5, <2>6, <2>7
<1>8. \A b \in Byte : b # 7 => (b \in w[11] <=> b \in progdata[11])
  BY <1>3, <1>4, <1>5
<1>9. \A b \in Byte : b > 5 => (b \in w[13] <=> b \in progdata[13])
  BY <1>3, <1>4, <1>5 DEF Byte
<1>10. \A j \in 0..19 : j \notin {11, 12, 13} => w[j] = progdata[j]
  BY <1>3, <1>4, <1>5
<1> QED BY <1>5, <1>7, <1>8, <1>9, <1>10 DEF Divides, w

(* Table 5, the dividers written as a complement.                          *)
LEMMA MiddleReads ==
  ASSUME progdata \in Words, NEW od \in Nat, 8 <= od, od <= 37
  PROVE  Divides(MiddleBits(od), od)
<1> DEFINE w == MiddleBits(od)
           m == 69 - od
           n == m * 4
           x == Put(progdata, 11, 7, FALSE)
           y == [x EXCEPT ![12] = (Low(n) \ {0, 7}) \cup {1}]
<1>1. m \in Nat /\ 32 <= m /\ m <= 61 /\ od = 69 - m /\ n \in Nat
  OBVIOUS
<1>2. Not(od - 6, 6) = m
  <2>1. (od - 6) % 64 = od - 6
    OBVIOUS
  <2> QED BY <2>1, Powers DEF Not
<1>3. w = Change(y, 13, 0..5, {})
  BY <1>2 DEF MiddleBits
<1>4. x \in Words /\ x[11] = progdata[11] \ {7} /\ \A j \in 0..19 : j # 11 => x[j] = progdata[j]
  BY DEF Put, Change, Words, Byte
<1>5. n \div 4 = m /\ n \div 64 = m \div 16
  BY <1>1
<1> HIDE DEF m, n, x
<1>6. Low(n) \subseteq Byte
  BY <1>1, LowHigh
<1>7. y \in Words /\ y[12] = (Low(n) \ {0, 7}) \cup {1} /\ \A j \in 0..19 : j # 12 => y[j] = x[j]
  BY <1>4, <1>6 DEF Words, Byte
<1> HIDE DEF w, y
<1>8. w \in Words /\ w[13] = y[13] \ (0..5) /\ \A j \in 0..19 : j # 13 => w[j] = y[j]
  BY <1>3, <1>7 DEF Change, Words
<1>9. OdRead(w) = 37 - (Four(w, 12, 2) + 16 * Bit(w, 12, 6))
  <2>1. w[12] \cap {0, 1} = {1} /\ 7 \notin w[11]
    BY <1>4, <1>7, <1>8
  <2>2. /\ w[12] # {} /\ w[12] # {2} /\ w[12] # {0} /\ w[12] # {0, 2} /\ w[12] # {0, 3}
        /\ w[12] # {0, 2, 3}
    BY <2>1
  <2> QED BY <2>1, <2>2 DEF OdRead
<1>10. Four(w, 12, 2) = Nibble(n, 2) /\ Bit(w, 12, 6) = Digit(n, 6)
  <2>1. \A b \in Byte : Digit(n, b) \in {0, 1} /\ (b \in Low(n) <=> Digit(n, b) = 1)
    BY <1>1, LowHigh
  <2>2. \A b \in 2..6 : b \in w[12] <=> b \in Low(n)
    BY <1>7, <1>8
  <2>3. \A b \in 2..6 : Bit(w, 12, b) = Digit(n, b)
    BY <2>1, <2>2 DEF Bit, Byte
  <2> QED BY <2>3 DEF Four, Two, Nibble, Pair
<1>11. Nibble(n, 2) = (n \div 4) % 16 /\ Digit(n, 6) = (n \div 64) % 2
  BY <1>1, Digits
<1>12. (m % 16) + 16 * ((m \div 16) % 2) = m - 32
  BY <1>1
<1>13. OdRead(w) = od
  BY <1>1, <1>5, <1>9, <1>10, <1>11, <1>12
<1>14. \A b \in Byte : b # 7 => (b \in w[11] <=> b \in progdata[11])
  BY <1>4, <1>7, <1>8
<1>15. \A b \in Byte : b > 5 => (b \in w[13] <=> b \in progdata[13])
  BY <1>4, <1>7, <1>8 DEF Byte
<1>16. \A j \in 0..19 : j \notin {11, 12, 13} => w[j] = progdata[j]
  BY <1>4, <1>7, <1>8
<1> QED BY <1>8, <1>13, <1>14, <1>15, <1>16 DEF Divides, w

(* A set of natural numbers that is not empty has a least one.             *)
LEMMA Least ==
  ASSUME NEW T, T \subseteq Nat, T # {}
  PROVE  \E x \in T : \A y \in T : x <= y
<1>1. PICK x \in T : \A y \in T : <<y, x>> \notin OpToRel(<, Nat)
  BY NatLessThanWellFounded, WFMin
<1>2. \A y \in T : ~(y < x)
  BY <1>1 DEF OpToRel
<1> QED BY <1>2

\* What table 5's loop stops at.
First(od) == CHOOSE f \in Forms(od) : \A g \in Forms(od) : f.x <= g.x

(* It does stop, at fields that say the divider, if there are any.         *)
LEMMA FirstFits ==
  ASSUME NEW od \in Nat, Forms(od) # {}
  PROVE  /\ First(od).x \in Nat /\ First(od).x < 512 /\ First(od).y \in {0, 1}
         /\ First(od).z \in 0..3
         /\ od = ((First(od).x + 3) * 2 + First(od).y) * 2^First(od).z
<1> DEFINE T == {f.x : f \in Forms(od)}
<1>1. \A f \in Forms(od) : /\ f.x \in Nat /\ f.x < 512 /\ f.y \in {0, 1} /\ f.z \in 0..3
                           /\ od = ((f.x + 3) * 2 + f.y) * 2^f.z
  <2> SUFFICES ASSUME NEW f \in Forms(od)
               PROVE  /\ f.x \in Nat /\ f.x < 512 /\ f.y \in {0, 1} /\ f.z \in 0..3
                      /\ od = ((f.x + 3) * 2 + f.y) * 2^f.z
    OBVIOUS
  <2>1. f.x \in 0..511 /\ od = ((f.x + 3) * 2 + f.y) * 2^f.z
    BY DEF Forms
  <2>2. PICK y \in {0, 1}, z \in 0..3 : f = Form(od, y, z)
    BY DEF Forms
  <2>3. f.y = y /\ f.z = z
    BY <2>2 DEF Form
  <2>4. f.x \in Nat /\ f.x < 512
    BY <2>1
  <2> QED BY <2>1, <2>2, <2>3, <2>4
<1>2. T \subseteq Nat /\ T # {}
  BY <1>1
<1>3. \E x \in T : \A y \in T : x <= y
  BY <1>2, Least
<1>4. \E f \in Forms(od) : \A g \in Forms(od) : f.x <= g.x
  BY <1>3
<1>5. First(od) \in Forms(od)
  BY <1>4 DEF First
<1> QED BY <1>1, <1>5

(* Every output divider that the search comes by has such fields: its      *)
(* steps are chosen so.                                                    *)
LEMMA FormsOfReached ==
  ASSUME NEW od \in Reached, 38 <= od
  PROVE  Forms(od) # {}
<1>1. ASSUME NEW q \in Nat, 6 <= q, q <= 1029, NEW z \in 0..3, od = q * 2^z
      PROVE  Forms(od) # {}
  <2> DEFINE f == Form(od, q % 2, z)
  <2>1. od \div 2^z = q
    <3>1. z = 0 \/ z = 1 \/ z = 2 \/ z = 3
      OBVIOUS
    <3>2. CASE z = 0
      BY <1>1, <3>2
    <3>3. CASE z = 1
      BY <1>1, <3>3
    <3>4. CASE z = 2
      BY <1>1, <3>4
    <3>5. CASE z = 3
      BY <1>1, <3>5
    <3> QED BY <3>1, <3>2, <3>3, <3>4, <3>5
  <2>2. q % 2 \in {0, 1} /\ q = 2 * ((q - (q % 2)) \div 2) + (q % 2)
    BY <1>1
  <2>3. f.x = (q - (q % 2)) \div 2 - 3 /\ f.y = q % 2 /\ f.z = z
    BY <2>1 DEF Form
  <2>4. f.x \in 0..511 /\ (f.x + 3) * 2 + f.y = q
    <3> DEFINE h == (q - (q % 2)) \div 2
               r == q % 2
    <3>1. h \in Int /\ r \in {0, 1} /\ q = 2 * h + r
      BY <2>2
    <3>2. f.x = h - 3 /\ f.y = r
      BY <2>3
    <3> HIDE DEF h, r, f
    <3> QED BY <1>1, <3>1, <3>2
  <2>5. f \in {Form(od, y, k) : y \in {0, 1}, k \in 0..3}
    BY <1>1, <2>2
  <2>6. od = ((f.x + 3) * 2 + f.y) * 2^f.z
    BY <1>1, <2>3, <2>4
  <2> HIDE DEF f
  <2>7. f \in Forms(od)
    BY <2>4, <2>5, <2>6 DEF Forms
  <2> QED BY <2>7
<1>2. /\ od \in Nat /\ od <= 8232 /\ (od > 1030 => od % 2 = 0) /\ (od > 2060 => od % 4 = 0)
      /\ (od > 4120 => od % 8 = 0)
  BY DEF Reached
<1>3. CASE od <= 1029
  <2>1. od = od * 2^0
    BY <1>2, Powers
  <2> QED BY <1>1, <1>2, <1>3, <2>1
<1>4. CASE od > 1029 /\ od < 2060
  <2>1. od % 2 = 0 /\ od \div 2 \in Nat /\ 6 <= od \div 2 /\ od \div 2 <= 1029
    BY <1>2, <1>4
  <2>2. od = (od \div 2) * 2^1
    BY <1>2, <2>1, Powers
  <2> QED BY <1>1, <2>1, <2>2
<1>5. CASE od >= 2060 /\ od < 4120
  <2>1. od % 4 = 0 /\ od \div 4 \in Nat /\ 6 <= od \div 4 /\ od \div 4 <= 1029
    BY <1>2, <1>5
  <2>2. od = (od \div 4) * 2^2
    BY <1>2, <2>1, Powers
  <2> QED BY <1>1, <2>1, <2>2
<1>6. CASE od >= 4120
  <2>1. od % 8 = 0 /\ od \div 8 \in Nat /\ 6 <= od \div 8 /\ od \div 8 <= 1029
    BY <1>2, <1>6
  <2>2. od = (od \div 8) * 2^3
    BY <1>2, <2>1, Powers
  <2> QED BY <1>1, <2>1, <2>2
<1> QED BY <1>2, <1>3, <1>4, <1>5, <1>6

(* Table 5, the dividers of the form ((x + 3) * 2 + y) * 2^z.              *)
LEMMA LargeReads ==
  ASSUME progdata \in Words, progdata[12] = {}, progdata[13] \cap 0..5 = {},
         NEW od \in Reached, 38 <= od
  PROVE  Divides(LargeBits(od), od)
<1> DEFINE f == First(od)
           x == f.x
           y == f.y
           z == f.z
           n == x * 32
           k == z * 8
           d1 == Change(Change(progdata, 12, {}, Low(n)), 13, {}, High(n))
           d2 == Change(d1, 12, 2..4, Low(k) \cup (IF y = 0 THEN {2} ELSE {}))
           d3 == Put(d2, 11, 7, TRUE)
           w == Change(d3, 12, {0}, {1})
<1>1. od \in Nat /\ Forms(od) # {}
  <2>1. od \in Nat
    BY DEF Reached
  <2>2. Forms(od) # {}
    BY FormsOfReached
  <2> QED BY <2>1, <2>2
<1>2. /\ x \in Nat /\ x < 512 /\ y \in {0, 1} /\ z \in 0..3
      /\ od = ((x + 3) * 2 + y) * 2^z
  BY <1>1, FirstFits
<1>3. LargeBits(od) = w
  BY <1>1 DEF LargeBits, LargeFields, First
<1> HIDE DEF f, x, y, z
<1>4. n \in Nat /\ n < 16384 /\ k \in Nat /\ n = x * 32 /\ k = z * 8
  BY <1>2
<1>5. /\ n \div 32 = x /\ n \div 128 = x \div 4 /\ n \div 256 = x \div 8
      /\ n \div 4096 = x \div 128
  BY <1>2
<1>6. k \div 8 = z
  BY <1>2
<1> HIDE DEF n, k
<1>7. Low(n) \subseteq Byte /\ High(n) \subseteq Byte /\ Low(k) \subseteq Byte
  BY <1>4, LowHigh
<1>8. /\ d1 \in Words /\ d1[12] = Low(n) /\ d1[13] = progdata[13] \cup High(n)
      /\ \A j \in 0..19 : j \notin {12, 13} => d1[j] = progdata[j]
  BY <1>7 DEF Change, Words
<1> HIDE DEF d1
<1>9. /\ d2 \in Words /\ d2[12] = (Low(n) \ (2..4)) \cup (Low(k) \cup (IF y = 0 THEN {2} ELSE {}))
      /\ \A j \in 0..19 : j # 12 => d2[j] = d1[j]
  <2>1. Low(k) \cup (IF y = 0 THEN {2} ELSE {}) \subseteq Byte
    BY <1>7 DEF Byte
  <2> QED BY <1>8, <2>1 DEF Change, Words
<1> HIDE DEF d2
<1>10. d3 \in Words /\ d3[11] = (d2[11] \ {7}) \cup {7} /\ \A j \in 0..19 : j # 11 => d3[j] = d2[j]
  BY <1>9 DEF Put, Change, Words, Byte
<1> HIDE DEF d3
<1>11. w \in Words /\ w[12] = (d3[12] \ {0}) \cup {1} /\ \A j \in 0..19 : j # 12 => w[j] = d3[j]
  BY <1>10 DEF Change, Words, Byte
<1> HIDE DEF w
<1>12. \A b \in Byte : /\ Digit(n, b) \in {0, 1} /\ (b \in Low(n) <=> Digit(n, b) = 1)
                       /\ Digit(n, b + 8) \in {0, 1} /\ (b \in High(n) <=> Digit(n, b + 8) = 1)
                       /\ Digit(k, b) \in {0, 1} /\ (b \in Low(k) <=> Digit(k, b) = 1)
  BY <1>4, LowHigh
<1>13. /\ Digit(k, 0) = 0 /\ Digit(k, 1) = 0 /\ Digit(k, 2) = 0
       /\ Digit(k, 5) = 0 /\ Digit(k, 6) = 0 /\ Digit(k, 7) = 0
  <2>1. /\ Digit(k, 0) = (k \div 1) % 2 /\ Digit(k, 1) = (k \div 2) % 2 /\ Digit(k, 2) = (k \div 4) % 2
        /\ Digit(k, 5) = (k \div 32) % 2 /\ Digit(k, 6) = (k \div 64) % 2
        /\ Digit(k, 7) = (k \div 128) % 2
    BY <1>4, Powers DEF Digit
  <2>2. z = 0 \/ z = 1 \/ z = 2 \/ z = 3
    BY <1>2
  <2>3. k = 0 \/ k = 8 \/ k = 16 \/ k = 24
    BY <1>4, <2>2
  <2>4. /\ (k \div 1) % 2 = 0 /\ (k \div 2) % 2 = 0 /\ (k \div 4) % 2 = 0
        /\ (k \div 32) % 2 = 0 /\ (k \div 64) % 2 = 0 /\ (k \div 128) % 2 = 0
    BY <2>3
  <2> QED BY <2>1, <2>4
<1>14. /\ Digit(n, 0) = 0 /\ Digit(n, 1) = 0 /\ Digit(n, 14) = 0 /\ Digit(n, 15) = 0
  BY <1>2, <1>4, NoLowDigits, NoDigits
<1>15. /\ \A b \in 5..7 : b \in w[12] <=> Digit(n, b) = 1
       /\ \A b \in 3..4 : b \in w[12] <=> Digit(k, b) = 1
       /\ 2 \in w[12] <=> y = 0
       /\ 0 \notin w[12] /\ 1 \in w[12]
  <2>1. w[12] = (((Low(n) \ (2..4)) \cup (Low(k) \cup (IF y = 0 THEN {2} ELSE {}))) \ {0}) \cup {1}
    BY <1>9, <1>10, <1>11
  <2>2. 2 \notin Low(k) /\ 5 \notin Low(k) /\ 6 \notin Low(k) /\ 7 \notin Low(k)
    BY <1>12, <1>13 DEF Byte
  <2>3. \A b \in 5..7 : b \in Byte /\ (b = 5 \/ b = 6 \/ b = 7)
    BY DEF Byte
  <2>4. \A b \in 5..7 : b \in w[12] <=> Digit(n, b) = 1
    BY <1>12, <2>1, <2>2, <2>3
  <2>5. \A b \in 3..4 : b \in w[12] <=> Digit(k, b) = 1
    BY <1>12, <2>1 DEF Byte
  <2>6. 2 \in w[12] <=> y = 0
    BY <2>1, <2>2
  <2> QED BY <2>1, <2>4, <2>5, <2>6
<1>16. \A b \in 0..5 : b \in w[13] <=> Digit(n, b + 8) = 1
  <2>1. w[13] = progdata[13] \cup High(n)
    BY <1>8, <1>9, <1>10, <1>11
  <2> QED BY <1>12, <2>1 DEF Byte
<1>17. \A b \in Byte : b > 5 => (b \in w[13] <=> b \in progdata[13])
  <2>1. w[13] = progdata[13] \cup High(n)
    BY <1>8, <1>9, <1>10, <1>11
  <2>2. 6 \notin High(n) /\ 7 \notin High(n)
    BY <1>12, <1>14 DEF Byte
  <2>3. \A b \in Byte : b > 5 => b = 6 \/ b = 7
    BY DEF Byte
  <2> QED BY <2>1, <2>2, <2>3
<1>18. /\ Two(w, 12, 5) = Pair(n, 5) /\ Bit(w, 12, 7) = Digit(n, 7) /\ Two(w, 12, 3) = Pair(k, 3)
  <2>1. \A b \in 5..7 : Bit(w, 12, b) = Digit(n, b)
    BY <1>12, <1>15 DEF Bit, Byte
  <2>2. \A b \in 3..4 : Bit(w, 12, b) = Digit(k, b)
    BY <1>12, <1>15 DEF Bit, Byte
  <2> QED BY <2>1, <2>2 DEF Two, Pair
<1>19. n \in Nat /\ k \in Nat
  BY <1>4
<1>20. Four(w, 13, 0) = Nibble(n, 8) /\ Two(w, 13, 4) = Pair(n, 12)
  <2>1. \A b \in 0..5 : Bit(w, 13, b) = Digit(n, b + 8)
    BY <1>12, <1>16 DEF Bit, Byte
  <2> QED BY <2>1 DEF Four, Two, Nibble, Pair
<1>21. Two(w, 12, 3) = z
  <2>1. Pair(k, 3) = (k \div 8) % 4
    BY <1>19, Digits
  <2>2. \A i \in 0..3 : i % 4 = i
    OBVIOUS
  <2> QED BY <1>2, <1>6, <1>18, <2>1, <2>2
<1>22. Two(w, 12, 5) + 4 * Bit(w, 12, 7) + 8 * Four(w, 13, 0) + 128 * Two(w, 13, 4) = x
  <2>1. Pair(n, 5) = x % 4 /\ Digit(n, 7) = (x \div 4) % 2
    <3>1. Pair(n, 5) = (n \div 32) % 4 /\ Digit(n, 7) = (n \div 128) % 2
      BY <1>19, Digits
    <3> QED BY <1>5, <3>1
  <2>2. Nibble(n, 8) = (x \div 8) % 16
    <3>1. Nibble(n, 8) = (n \div 256) % 16
      BY <1>19, Digits
    <3> QED BY <1>5, <3>1
  <2>3. Pair(n, 12) = (x \div 128) % 4
    <3>1. Pair(n, 12) = (n \div 4096) % 4
      BY <1>19, Digits
    <3> QED BY <1>5, <3>1
  <2>4. (x % 4) + 4 * ((x \div 4) % 2) + 8 * ((x \div 8) % 16) + 128 * ((x \div 128) % 4) = x
    BY <1>2
  <2> QED BY <1>18, <1>20, <2>1, <2>2, <2>3, <2>4
<1>23. OdRead(w) = od
  <2>1. w[12] \cap {0, 1} = {1} /\ 7 \in w[11] /\ (IF 2 \in w[12] THEN 0 ELSE 1) = y
    BY <1>2, <1>10, <1>11, <1>15
  <2>2. /\ w[12] # {} /\ w[12] # {2} /\ w[12] # {0} /\ w[12] # {0, 2} /\ w[12] # {0, 3}
        /\ w[12] # {0, 2, 3}
    BY <2>1
  <2>3. OdRead(w) = ((x + 3) * 2 + y) * 2^z
    BY <1>21, <1>22, <2>1, <2>2, Zenon DEF OdRead
  <2> QED BY <1>2, <2>3
<1>24. \A b \in Byte : b # 7 => (b \in w[11] <=> b \in progdata[11])
  BY <1>8, <1>9, <1>10, <1>11
<1>25. \A j \in 0..19 : j \notin {11, 12, 13} => w[j] = progdata[j]
  BY <1>8, <1>9, <1>10, <1>11
<1> QED BY <1>3, <1>11, <1>17, <1>23, <1>24, <1>25 DEF Divides

(* Table 5 as a whole.                                                     *)
LEMMA OutputReads ==
  ASSUME progdata \in Words, progdata[12] = {}, progdata[13] \cap 0..5 = {},
         NEW od \in Reached, od # 1
  PROVE  Divides(OutputBits(od), od)
<1>1. CASE od \in SmallOd
  BY <1>1, SmallReads DEF OutputBits
<1>2. CASE od \notin SmallOd /\ od <= 37
  <2>1. od \in Nat /\ 8 <= od
    BY <1>2 DEF SmallOd, Reached
  <2> QED BY <1>2, <2>1, MiddleReads DEF OutputBits
<1>3. CASE od \notin SmallOd /\ ~(od <= 37)
  <2>1. 38 <= od
    BY <1>3 DEF Reached
  <2> QED BY <1>3, <2>1, LargeReads DEF OutputBits
<1> QED BY <1>1, <1>2, <1>3

(* The search goes on within the dividers that have a form.                *)
LEMMA LessReached ==
  ASSUME NEW od \in Reached, od > 1
  PROVE  Less(od) \in Reached
<1>1. /\ od \in Nat /\ od <= 8232 /\ (od > 1030 => od % 2 = 0) /\ (od > 2060 => od % 4 = 0)
      /\ (od > 4120 => od % 8 = 0)
  BY DEF Reached
<1> DEFINE d == Less(od)
<1>2. CASE od <= 1030
  <2>1. d = od - 1
    BY <1>2 DEF Less
  <2> QED BY <1>1, <1>2, <2>1 DEF Reached
<1>3. CASE od > 1030 /\ od <= 2060
  <2>1. d = od - 2
    BY <1>1, <1>3 DEF Less
  <2>2. d % 2 = 0
    BY <1>1, <1>3, <2>1
  <2> QED BY <1>1, <1>3, <2>1, <2>2 DEF Reached
<1>4. CASE od > 2060 /\ od <= 4120
  <2>1. d = od - 4
    BY <1>1, <1>4 DEF Less
  <2>2. d % 2 = 0 /\ d % 4 = 0
    BY <1>1, <1>4, <2>1
  <2> QED BY <1>1, <1>4, <2>1, <2>2 DEF Reached
<1>5. CASE od > 4120
  <2>1. d = od - 8
    BY <1>1, <1>5 DEF Less
  <2>2. d % 2 = 0 /\ d % 4 = 0 /\ d % 8 = 0
    BY <1>1, <1>5, <2>1
  <2> QED BY <1>1, <1>5, <2>1, <2>2 DEF Reached
<1> QED BY <1>1, <1>2, <1>3, <1>4, <1>5

\* No bit outside the fields is another one than in progdata.
Outside(w) == \A i \in 0..19 : w[i] \ Fields[i] = progdata[i] \ Fields[i]

(* Which bits the fields are.                                              *)
LEMMA FieldsAre ==
  /\ Fields[0] = Byte /\ Fields[1] = Byte /\ Fields[2] = Byte /\ Fields[12] = Byte
  /\ Fields[11] = {1, 2, 3, 4, 5, 7} /\ Fields[13] = 0..5 /\ Fields[15] = {2, 7} /\ Fields[16] = {0}
BY DEF Fields

(* What the five tables and the crystal's bit change lies within them.     *)
LEMMA TablesOutside ==
  ASSUME progdata \in Words, NEW w \in Words,
         \A i \in 0..19 : i \notin {0, 1, 2, 11, 12, 13, 15, 16} => w[i] = progdata[i],
         \A b \in Byte : b \notin {1, 2, 3, 4, 5, 7} => (b \in w[11] <=> b \in progdata[11]),
         \A b \in Byte : b > 5 => (b \in w[13] <=> b \in progdata[13]),
         \A b \in Byte : b \notin {2, 7} => (b \in w[15] <=> b \in progdata[15]),
         \A b \in Byte : b # 0 => (b \in w[16] <=> b \in progdata[16])
  PROVE  Outside(w)
<1>1. \A i \in 0..19 : w[i] \subseteq Byte /\ progdata[i] \subseteq Byte
  BY DEF Words
<1>2. /\ w[0] \ Byte = progdata[0] \ Byte /\ w[1] \ Byte = progdata[1] \ Byte
      /\ w[2] \ Byte = progdata[2] \ Byte /\ w[12] \ Byte = progdata[12] \ Byte
  BY <1>1
<1>3. w[11] \ {1, 2, 3, 4, 5, 7} = progdata[11] \ {1, 2, 3, 4, 5, 7}
  BY <1>1
<1>4. w[13] \ (0..5) = progdata[13] \ (0..5)
  BY <1>1 DEF Byte
<1>5. w[15] \ {2, 7} = progdata[15] \ {2, 7}
  BY <1>1
<1>6. w[16] \ {0} = progdata[16] \ {0}
  BY <1>1
<1> QED BY <1>2, <1>3, <1>4, <1>5, <1>6, FieldsAre DEF Outside

(* So that they stay as they were at the start.                            *)
LEMMA KeepsFields ==
  ASSUME OnlyFields, Outside(progdata')
  PROVE  OnlyFields'
<1>1. Fields' = Fields /\ Blank' = Blank
  BY DEF Fields, Blank, Byte
<1> QED BY <1>1 DEF OnlyFields, Outside

(* A divider of the search other than the first can be written.            *)
LEMMA DividesBeyondOne ==
  ASSUME NEW d \in Reached, d > 1
  PROVE  d \in Od /\ d # 1
<1>1. d \in Nat /\ d <= 8232
  BY DEF Reached
<1> QED BY <1>1 DEF Od

(* The search: nothing is written yet.                                     *)
LEMMA SearchKeeps ==
  ASSUME MaxOd \in Reached, WordInv, Found \/ TryLess \/ NoSolution \/ NextRound
  PROVE  WordInv'
<1>1. stage = "search" /\ progdata' = progdata /\ progdata = Blank /\ status = 0
  BY DEF WordInv, WordTypeOK, Clear, Found, TryLess, NoSolution, NextRound
<1>2. OnlyFields'
  BY <1>1 DEF WordInv, OnlyFields, Fields, Blank, Byte
<1>3. CASE Found
  <2>1. PICK s \in Accepted[outDiv] :
          solution' = [ref |-> s.ref, vco |-> s.vco, rs |-> s.rs, icp |-> s.icp, od |-> outDiv]
    BY <1>3 DEF Found
  <2>2. outDiv \in Od /\ outDiv \in Reached \ {1}
    <3>1. outDiv > 1
      BY <1>3 DEF Found
    <3>2. outDiv \in Reached
      BY DEF WordInv, WordTypeOK
    <3>3. outDiv \in Od /\ outDiv # 1
      BY <3>1, <3>2, DividesBeyondOne
    <3> QED BY <3>2, <3>3
  <2>3. s \in Dividers
    BY <2>1, <2>2, AcceptedAssumption
  <2>4. solution' \in Solutions
    BY <2>1, <2>2, <2>3 DEF Dividers, Solutions
  <2>5. stage' = "input" /\ outDiv' = outDiv /\ status' = status
    BY <1>3 DEF Found
  <2>6. WordTypeOK'
    BY <1>1, <2>4, <2>5 DEF WordInv, WordTypeOK, WordStage
  <2>7. Written' /\ Clear'
    BY <1>1, <2>5 DEF Written, Clear, Blank, Tabling
  <2> QED BY <1>2, <2>6, <2>7 DEF WordInv
<1>4. CASE TryLess \/ NextRound
  <2>1. outDiv' \in Reached
    <3>1. CASE TryLess
      <4>1. outDiv \in Reached /\ outDiv > 1 /\ outDiv' = Less(outDiv)
        BY <3>1 DEF TryLess, WordInv, WordTypeOK
      <4> QED BY <4>1, LessReached
    <3>2. CASE NextRound
      BY <3>2 DEF NextRound
    <3> QED BY <1>4, <3>1, <3>2
  <2>2. stage' = "search" /\ status' = 0 /\ ~Solved'
    BY <1>1, <1>4 DEF TryLess, NextRound, Solved, Tabling
  <2>3. WordTypeOK'
    BY <1>1, <2>1, <2>2 DEF WordInv, WordTypeOK, WordStage
  <2>4. Written' /\ Clear'
    BY <1>1, <2>2 DEF Written, Clear, Tabling, Blank
  <2> QED BY <1>2, <2>3, <2>4 DEF WordInv
<1>5. CASE NoSolution
  <2>1. stage' = "returned" /\ status' = 2 /\ outDiv' = outDiv /\ ~Solved'
    BY <1>5 DEF NoSolution, Return, Solved, Tabling
  <2>2. WordTypeOK'
    BY <1>1, <2>1 DEF WordInv, WordTypeOK, WordStage
  <2>3. Written' /\ Clear'
    BY <2>1 DEF Written, Clear, Tabling
  <2> QED BY <1>2, <2>2, <2>3 DEF WordInv
<1> QED BY <1>3, <1>4, <1>5

(* What the search found is a number between the ends of the reference.     *)
LEMMA RefRange ==
  ASSUME solution.ref \in 1..1200
  PROVE  /\ solution.ref \in Nat /\ 1 <= solution.ref /\ solution.ref <= 1200
         /\ solution.ref \in 1..2055
<1> DEFINE d == solution.ref
<1>1. d \in 1..1200
  OBVIOUS
<1> HIDE DEF d
<1>2. d \in Nat /\ 1 <= d /\ d <= 1200
  BY <1>1
<1>3. d \in 1..2055
  BY <1>2
<1> QED BY <1>2, <1>3 DEF d

(* Table 1.                                                                *)
LEMMA InputKeeps ==
  ASSUME WordInv, InputDivider
  PROVE  WordInv'
<1> DEFINE w == InputBits(solution.ref)
<1>1. /\ stage = "input" /\ status = 0 /\ progdata \in Words /\ solution \in Solutions
      /\ outDiv \in Reached /\ progdata = Blank
  BY DEF WordInv, WordTypeOK, Clear, InputDivider, Solved, Tabling, Words
<1>2. solution.ref \in Nat /\ 1 <= solution.ref /\ solution.ref <= 1200 /\ solution.ref \in 1..2055
  <2>1. solution.ref \in 1..1200
    BY <1>1 DEF Solutions, MaxR
  <2> QED BY <2>1, RefRange
<1>3. /\ progdata' = w /\ stage' = "vco" /\ outDiv' = outDiv /\ solution' = solution
      /\ status' = status
  BY <1>2 DEF InputDivider, Goto
<1>4. progdata[0] = {} /\ progdata[1] = {} /\ progdata[2] = {} /\ progdata[11] = {}
      /\ progdata[12] = {} /\ progdata[13] = {6}
  BY <1>1 DEF Blank
<1>5. /\ w \in Words /\ RefRead(w) = solution.ref /\ w[1] \cap 5..7 = {}
      /\ \A j \in 2..19 : w[j] = progdata[j]
  BY <1>1, <1>2, <1>4, InputReads
<1> HIDE DEF w
<1>6. Outside(w)
  BY <1>1, <1>5, TablesOutside
<1>7. OnlyFields'
  BY <1>3, <1>6, KeepsFields DEF WordInv
<1>8. WordTypeOK'
  BY <1>1, <1>3, <1>5 DEF WordTypeOK, WordStage, Words
<1>9. Written'
  BY <1>3, <1>5 DEF Written, Tabling
<1>10. Clear'
  BY <1>3, <1>4, <1>5 DEF Clear, Tabling
<1> QED BY <1>7, <1>8, <1>9, <1>10 DEF WordInv

(* What table 2 takes is a number between its ends (the comparisons of      *)
(* VCODivider).                                                            *)
LEMMA VcoRange ==
  ASSUME solution.vco \in 12..2055
  PROVE  solution.vco \in Nat /\ 12 <= solution.vco /\ solution.vco <= 2055
<1> DEFINE v == solution.vco
<1>1. v \in 12..2055
  OBVIOUS
<1> HIDE DEF v
<1>2. v \in Nat /\ 12 <= v /\ v <= 2055
  BY <1>1
<1> QED BY <1>2 DEF v

(* Table 2.                                                                *)
LEMMA VcoKeeps ==
  ASSUME WordInv, VCODivider
  PROVE  WordInv'
<1> DEFINE w == VcoBits(solution.vco)
<1>1. /\ stage = "vco" /\ status = 0 /\ progdata \in Words /\ solution \in Solutions
      /\ outDiv \in Reached /\ RefRead(progdata) = solution.ref
  BY DEF WordInv, WordTypeOK, Written, VCODivider, Solved, Tabling, Words
<1>2. solution.vco \in Nat /\ 12 <= solution.vco /\ solution.vco <= 2055 /\ solution.vco \in 12..2055
  <2>1. solution.vco \in 12..2055
    BY <1>1 DEF Solutions, MinV, MaxV
  <2>2. solution.vco \in Nat /\ 12 <= solution.vco /\ solution.vco <= 2055
    BY <2>1, VcoRange
  <2> QED BY <2>1, <2>2
<1>3. /\ progdata' = w /\ stage' = "filter" /\ outDiv' = outDiv /\ solution' = solution
      /\ status' = status
  BY <1>2 DEF VCODivider, Goto
<1>4. /\ progdata[1] \cap 5..7 = {} /\ progdata[2] = {} /\ progdata[11] = {}
      /\ progdata[12] = {} /\ progdata[13] \cap 0..5 = {}
  BY <1>1 DEF WordInv, Clear, Tabling
<1>5. /\ w \in Words /\ VcoRead(w) = solution.vco
      /\ \A b \in 0..4 : b \in w[1] <=> b \in progdata[1]
      /\ \A j \in 0..19 : j \notin {1, 2} => w[j] = progdata[j]
  BY <1>1, <1>2, <1>4, VcoReads
<1> HIDE DEF w
<1>6. Outside(w)
  BY <1>1, <1>5, TablesOutside
<1>7. OnlyFields'
  BY <1>3, <1>6, KeepsFields DEF WordInv
<1>8. RefRead(w) = solution.ref
  BY <1>1, <1>5, RefSame
<1>9. WordTypeOK'
  BY <1>1, <1>3, <1>5 DEF WordTypeOK, WordStage, Words
<1>10. Written'
  BY <1>3, <1>5, <1>8 DEF Written, Tabling
<1>11. Clear'
  BY <1>3, <1>4, <1>5 DEF Clear, Tabling
<1> QED BY <1>7, <1>9, <1>10, <1>11 DEF WordInv

(* Table 4.                                                                *)
LEMMA FilterKeeps ==
  ASSUME WordInv, LoopFilterResistor
  PROVE  WordInv'
<1> DEFINE w == FilterBits(solution.rs)
<1>1. /\ stage = "filter" /\ status = 0 /\ progdata \in Words /\ solution \in Solutions
      /\ outDiv \in Reached
      /\ RefRead(progdata) = solution.ref /\ VcoRead(progdata) = solution.vco
  BY DEF WordInv, WordTypeOK, Written, LoopFilterResistor, Solved, Tabling, Words
<1>2. solution.rs \in Resistor
  BY <1>1 DEF Solutions
<1>3. /\ progdata' = w /\ stage' = "pump" /\ outDiv' = outDiv /\ solution' = solution
      /\ status' = status
  BY <1>2 DEF LoopFilterResistor, Goto
<1>4. progdata[11] = {} /\ progdata[12] = {} /\ progdata[13] \cap 0..5 = {}
  BY <1>1 DEF WordInv, Clear, Tabling
<1>5. /\ w \in Words /\ RsRead(w) = solution.rs /\ w[11] \subseteq {1, 2}
      /\ \A j \in 0..19 : j # 11 => w[j] = progdata[j]
  BY <1>1, <1>2, <1>4, FilterReads
<1> HIDE DEF w
<1>6. Outside(w)
  BY <1>1, <1>4, <1>5, TablesOutside
<1>7. OnlyFields'
  BY <1>3, <1>6, KeepsFields DEF WordInv
<1>8. RefRead(w) = solution.ref /\ VcoRead(w) = solution.vco
  <2>1. w[0] = progdata[0] /\ w[1] = progdata[1] /\ w[2] = progdata[2]
    BY <1>5
  <2>2. RefRead(w) = RefRead(progdata)
    BY <1>1, <1>5, <2>1, RefSame
  <2> QED BY <1>1, <2>1, <2>2, VcoSame
<1>9. WordTypeOK'
  BY <1>1, <1>3, <1>5 DEF WordTypeOK, WordStage, Words
<1>10. Written'
  BY <1>3, <1>5, <1>8 DEF Written, Tabling
<1>11. Clear'
  BY <1>3, <1>4, <1>5 DEF Clear, Tabling
<1> QED BY <1>7, <1>9, <1>10, <1>11 DEF WordInv

(* Table 3.                                                                *)
LEMMA CurrentKeeps ==
  ASSUME WordInv, ChargePumpCurrent
  PROVE  WordInv'
<1> DEFINE w == CurrentBits(solution.icp)
<1>1. /\ stage = "pump" /\ status = 0 /\ progdata \in Words /\ solution \in Solutions
      /\ outDiv \in Reached
      /\ RefRead(progdata) = solution.ref /\ VcoRead(progdata) = solution.vco
      /\ RsRead(progdata) = solution.rs
  BY DEF WordInv, WordTypeOK, Written, ChargePumpCurrent, Solved, Tabling, Words
<1>2. solution.icp \in Pump
  BY <1>1 DEF Solutions
<1>3. /\ progdata' = w /\ stage' = "output" /\ outDiv' = outDiv /\ solution' = solution
      /\ status' = status
  BY <1>2 DEF ChargePumpCurrent, Goto
<1>4. progdata[11] \subseteq {1, 2} /\ progdata[12] = {} /\ progdata[13] \cap 0..5 = {}
  BY <1>1 DEF WordInv, Clear, Tabling
<1>5. /\ w \in Words /\ IcpRead(w) = solution.icp /\ w[11] \subseteq 1..5
      /\ \A b \in {1, 2} : b \in w[11] <=> b \in progdata[11]
      /\ \A b \in Byte : /\ b # 7 => (b \in w[15] <=> b \in progdata[15])
                         /\ b # 0 => (b \in w[16] <=> b \in progdata[16])
      /\ \A j \in 0..19 : j \notin {11, 15, 16} => w[j] = progdata[j]
  BY <1>1, <1>2, <1>4, CurrentReads
<1> HIDE DEF w
<1>6. Outside(w)
  <2>1. \A b : b \notin {1, 2, 3, 4, 5, 7} => b \notin w[11] /\ b \notin progdata[11]
    BY <1>4, <1>5
  <2> QED BY <1>1, <1>5, <2>1, TablesOutside
<1>7. OnlyFields'
  BY <1>3, <1>6, KeepsFields DEF WordInv
<1>8. RefRead(w) = solution.ref /\ VcoRead(w) = solution.vco /\ RsRead(w) = solution.rs
  <2>1. w[0] = progdata[0] /\ w[1] = progdata[1] /\ w[2] = progdata[2]
    BY <1>5
  <2>2. RefRead(w) = RefRead(progdata)
    BY <1>1, <1>5, <2>1, RefSame
  <2>3. RsRead(w) = RsRead(progdata)
    BY <1>5, RsSame
  <2> QED BY <1>1, <2>1, <2>2, <2>3, VcoSame
<1>9. WordTypeOK'
  BY <1>1, <1>3, <1>5 DEF WordTypeOK, WordStage, Words
<1>10. Written'
  BY <1>3, <1>5, <1>8 DEF Written, Tabling
<1>11. Clear'
  BY <1>3, <1>4, <1>5 DEF Clear, Tabling
<1> QED BY <1>7, <1>9, <1>10, <1>11 DEF WordInv

(* Table 5, and the word is handed out.                                    *)
LEMMA OutputKeeps ==
  ASSUME WordInv, OutputDividerOut1
  PROVE  WordInv'
<1> DEFINE w == OutputBits(solution.od)
<1>1. /\ stage = "output" /\ status = 0 /\ progdata \in Words /\ solution \in Solutions
      /\ outDiv \in Reached
      /\ RefRead(progdata) = solution.ref /\ VcoRead(progdata) = solution.vco
      /\ RsRead(progdata) = solution.rs /\ IcpRead(progdata) = solution.icp
  BY DEF WordInv, WordTypeOK, Written, OutputDividerOut1, Solved, Tabling, Words
<1>2. solution.od \in Reached /\ solution.od # 1 /\ solution.od \in Od
  <2>1. solution.od \in Reached /\ solution.od # 1
    BY <1>1 DEF Solutions
  <2>2. \A d \in Reached : d # 1 => d \in Od
    BY DEF Reached, Od
  <2> QED BY <2>1, <2>2
<1>3. /\ progdata' = w /\ stage' = "returned" /\ outDiv' = outDiv /\ solution' = solution
      /\ status' = 0
  BY <1>2 DEF OutputDividerOut1, Return
<1>4. progdata[12] = {} /\ progdata[13] \cap 0..5 = {}
  BY <1>1 DEF WordInv, Clear, Tabling
<1>5. /\ w \in Words /\ OdRead(w) = solution.od
      /\ \A b \in Byte : /\ b # 7 => (b \in w[11] <=> b \in progdata[11])
                         /\ b > 5 => (b \in w[13] <=> b \in progdata[13])
      /\ \A j \in 0..19 : j \notin {11, 12, 13} => w[j] = progdata[j]
  BY <1>1, <1>2, <1>4, OutputReads DEF Divides
<1> HIDE DEF w
<1>6. Outside(w)
  BY <1>1, <1>5, TablesOutside
<1>7. OnlyFields'
  BY <1>3, <1>6, KeepsFields DEF WordInv
<1>8. /\ RefRead(w) = solution.ref /\ VcoRead(w) = solution.vco /\ RsRead(w) = solution.rs
      /\ IcpRead(w) = solution.icp
  <2>1. w[0] = progdata[0] /\ w[1] = progdata[1] /\ w[2] = progdata[2]
        /\ w[15] = progdata[15] /\ w[16] = progdata[16]
    BY <1>5
  <2>2. RefRead(w) = RefRead(progdata)
    BY <1>1, <1>5, <2>1, RefSame
  <2>3. \A b \in 1..5 : b \in w[11] <=> b \in progdata[11]
    BY <1>5 DEF Byte
  <2>4. RsRead(w) = RsRead(progdata)
    BY <2>3, RsSame
  <2>5. IcpRead(w) = IcpRead(progdata)
    BY <2>1, <2>3, IcpSame
  <2> QED BY <1>1, <2>1, <2>2, <2>4, <2>5, VcoSame
<1>9. WordTypeOK'
  BY <1>1, <1>3, <1>5 DEF WordTypeOK, WordStage, Words
<1>10. Written'
  BY <1>3, <1>5, <1>8 DEF Written, Tabling
<1>11. Clear'
  BY <1>3 DEF Clear, Tabling
<1> QED BY <1>7, <1>9, <1>10, <1>11 DEF WordInv

(* The driver's change to the crystal bit, which no field reads.           *)
LEMMA XtalKeeps ==
  ASSUME WordInv, EnableXtal
  PROVE  WordInv'
<1>1. /\ stage = "returned" /\ status = 0 /\ progdata \in Words /\ solution \in Solutions
      /\ outDiv \in Reached
      /\ RefRead(progdata) = solution.ref /\ VcoRead(progdata) = solution.vco
      /\ RsRead(progdata) = solution.rs /\ IcpRead(progdata) = solution.icp
      /\ OdRead(progdata) = solution.od
  BY DEF WordInv, WordTypeOK, Written, EnableXtal, Solved, Tabling, Words
<1>2. PICK on \in BOOLEAN : progdata' = Put(progdata, 15, 2, on)
  BY DEF EnableXtal
<1>3. /\ stage' = "loaded" /\ outDiv' = outDiv /\ solution' = solution /\ status' = status
  BY DEF EnableXtal
<1> DEFINE w == Put(progdata, 15, 2, on)
<1>4. /\ w \in Words /\ \A b \in Byte : b # 2 => (b \in w[15] <=> b \in progdata[15])
      /\ \A j \in 0..19 : j # 15 => w[j] = progdata[j]
  BY <1>1 DEF Put, Change, Words, Byte
<1>5. progdata' = w
  BY <1>2
<1> HIDE DEF w
<1>6. Outside(w)
  BY <1>1, <1>4, TablesOutside
<1>7. OnlyFields'
  BY <1>5, <1>6, KeepsFields DEF WordInv
<1>8. /\ RefRead(w) = solution.ref /\ VcoRead(w) = solution.vco /\ RsRead(w) = solution.rs
      /\ IcpRead(w) = solution.icp /\ OdRead(w) = solution.od
  <2>1. w[0] = progdata[0] /\ w[1] = progdata[1] /\ w[2] = progdata[2] /\ w[11] = progdata[11]
        /\ w[12] = progdata[12] /\ w[13] = progdata[13] /\ w[16] = progdata[16]
    BY <1>4
  <2>2. RefRead(w) = RefRead(progdata)
    BY <1>1, <1>4, <2>1, RefSame
  <2>3. RsRead(w) = RsRead(progdata)
    BY <2>1, RsSame
  <2>4. 7 \in w[15] <=> 7 \in progdata[15]
    BY <1>4 DEF Byte
  <2>5. IcpRead(w) = IcpRead(progdata)
    BY <2>1, <2>4, IcpSame
  <2>6. OdRead(w) = OdRead(progdata)
    BY <2>1, OdSame
  <2> QED BY <1>1, <2>1, <2>2, <2>3, <2>5, <2>6, VcoSame
<1>9. WordTypeOK'
  BY <1>1, <1>3, <1>4, <1>5 DEF WordTypeOK, WordStage, Words
<1>10. Written'
  BY <1>3, <1>5, <1>8 DEF Written, Tabling
<1>11. Clear'
  BY <1>3 DEF Clear, Tabling
<1> QED BY <1>7, <1>9, <1>10, <1>11 DEF WordInv

(* The invariant of calculate_clock_bits: what a table has written into    *)
(* the word says the solution from then on.  MaxOd is a divider the        *)
(* search's steps come by, as 8232 is in the code.                         *)
THEOREM WordInvariance ==
  ASSUME MaxOd \in Reached
  PROVE  WordSpec => []WordInv
<1>1. WordInit => WordInv
  <2> SUFFICES ASSUME WordInit PROVE WordInv
    OBVIOUS
  <2>1. stage = "search" /\ outDiv = MaxOd /\ progdata = Blank /\ status = 0 /\ ~Solved
    BY DEF WordInit, WordBegin, Solved, Tabling
  <2>2. Blank \in Words
    BY DEF Blank, Words, Byte
  <2>3. WordTypeOK
    BY <2>1, <2>2 DEF WordTypeOK, WordStage, Words
  <2>4. Written /\ Clear /\ OnlyFields
    BY <2>1 DEF Written, Clear, OnlyFields, Tabling
  <2> QED BY <2>3, <2>4 DEF WordInv
<1>2. WordInv /\ [WordNext]_word => WordInv'
  <2> SUFFICES ASSUME WordInv, [WordNext]_word PROVE WordInv'
    OBVIOUS
  <2>1. CASE Found \/ TryLess \/ NoSolution \/ NextRound
    BY <2>1, SearchKeeps
  <2>2. CASE InputDivider
    BY <2>2, InputKeeps
  <2>3. CASE VCODivider
    BY <2>3, VcoKeeps
  <2>4. CASE LoopFilterResistor
    BY <2>4, FilterKeeps
  <2>5. CASE ChargePumpCurrent
    BY <2>5, CurrentKeeps
  <2>6. CASE OutputDividerOut1
    BY <2>6, OutputKeeps
  <2>7. CASE EnableXtal
    BY <2>7, XtalKeeps
  <2>8. CASE UNCHANGED word
    <3>1. stage' = stage /\ outDiv' = outDiv /\ solution' = solution /\ progdata' = progdata
          /\ status' = status
      BY <2>8 DEF word
    <3>2. WordTypeOK' /\ Written'
      BY <3>1 DEF WordInv, WordTypeOK, Written, Solved, Tabling, WordStage
    <3>3. Clear'
      BY <3>1 DEF WordInv, Clear, Tabling, Blank
    <3>4. OnlyFields'
      BY <3>1, KeepsFields DEF WordInv, Outside
    <3> QED BY <3>2, <3>3, <3>4 DEF WordInv
  <2> QED BY <2>1, <2>2, <2>3, <2>4, <2>5, <2>6, <2>7, <2>8 DEF WordNext, Tables
<1> QED BY <1>1, <1>2, PTL DEF WordSpec

(* The divider the code starts from (od = 8232) is one the search comes by. *)
LEMMA FirstReached == 8232 \in Reached
<1>1. 8232 % 2 = 0 /\ 8232 % 4 = 0 /\ 8232 % 8 = 0
  OBVIOUS
<1> QED BY <1>1 DEF Reached

(* Whatever solution the search may accept (calculate_clock_bits): the     *)
(* word handed out makes the chip use it, before and after the driver's    *)
(* change, and none is refused by a table.                                 *)
THEOREM WordSaysSolutionHolds ==
  ASSUME MaxOd \in Reached
  PROVE  WordSpec => []WordSaysSolution
<1>1. WordInv => WordSaysSolution
  <2> SUFFICES ASSUME WordInv, stage \in {"returned", "loaded"}
               PROVE  status \in {0, 2} /\ (status = 0 => Reading(progdata) = solution)
    BY DEF WordSaysSolution
  <2>1. status \in {0, 2}
    BY DEF WordInv, WordTypeOK
  <2>2. ASSUME status = 0 PROVE Reading(progdata) = solution
    <3>1. Solved /\ solution \in Solutions /\ stage \notin Tabling
      BY <2>2 DEF WordInv, WordTypeOK, Solved, Tabling
    <3>2. /\ RefRead(progdata) = solution.ref /\ VcoRead(progdata) = solution.vco
          /\ RsRead(progdata) = solution.rs /\ IcpRead(progdata) = solution.icp
          /\ OdRead(progdata) = solution.od
      BY <3>1 DEF WordInv, Written, Tabling
    <3>3. solution = [ref |-> solution.ref, vco |-> solution.vco, rs |-> solution.rs,
                      icp |-> solution.icp, od |-> solution.od]
      BY <3>1 DEF Solutions
    <3> QED BY <3>2, <3>3 DEF Reading
  <2> QED BY <2>1, <2>2
<1> QED BY <1>1, WordInvariance, PTL

(* On the way only the bits of the fields change (calculate_clock_bits).   *)
THEOREM OnlyFieldsHolds ==
  ASSUME MaxOd \in Reached
  PROVE  WordSpec => []OnlyFields
<1>1. WordInv => OnlyFields
  BY DEF WordInv
<1> QED BY <1>1, WordInvariance, PTL
=============================================================================
