--------------------------- MODULE WaterMatch_proofs ---------------------------
(* Theorems about WaterMatch, for every list of watermarks, every length of *)
(* a watermark and every width of FrameNum, whatever is heard, stored,      *)
(* erased or cut short by a power failure.                                  *)
EXTENDS WaterMatch, FiniteSetTheorems, SequenceTheorems, TLAPS

LOCAL Log == INSTANCE RecordLog_proofs
               WITH Field <- WM, Payload <- WM, Id <- 0 .. MaxId

-----------------------------------------------------------------------------
(* The constants, and arithmetic modulo the width of FrameNum.              *)

Slot == Offered \cup Torn \cup {Erased}

LEMMA Sizes ==
  /\ Bits \in Nat /\ WM_AND_MIN \in Nat /\ WM_AND_MIN > 0
  /\ IndexLimit \in Nat /\ IndexLimit > 0
  /\ Mul \in Nat /\ Mul > 0 /\ FrameMod \in Nat /\ FrameMod > Mul
  /\ MaxMarks \in Nat /\ Capacity \in Nat /\ MaxId \in Nat /\ MaxHalves \in Nat
BY MatchParameters, ComparisonParameters

LEMMA SlotTypes ==
  /\ WM \subseteq Nat /\ NoMatch \notin WM
  /\ \A wm \in Slot : /\ wm.id \in WM /\ wm.pattern \in Pattern
                      /\ wm.id \in Nat
<1>1. Erased.pattern \in Pattern /\ Erased.id = BlankId
  BY DEF Erased, Pattern
<1>2. \A wm \in Offered \cup Torn : wm.id \in Nat /\ wm.pattern \in Pattern
  BY MatchParameters
<1>3. BlankId \in Nat /\ NoMatch \notin Nat
  BY MatchParameters
<1> QED
  BY <1>1, <1>2, <1>3 DEF Slot, WM

LEMMA LeastNat ==
  ASSUME NEW S \in SUBSET Nat, S # {}
  PROVE  \E m \in S : \A n \in S : m <= n
<1>1. Log!LogParameters
  BY Sizes DEF Log!LogParameters
<1> QED
  BY <1>1, Log!LeastNat

LEMMA ModDiv ==
  ASSUME NEW a \in Nat, NEW m \in Nat, m > 0
  PROVE  \E q \in Nat : a = m * q + (a % m)
OBVIOUS

LEMMA ModUnique ==
  ASSUME NEW m \in Nat, m > 0, NEW q \in Nat, NEW r \in 0 .. m - 1
  PROVE  (m * q + r) % m = r
OBVIOUS

LEMMA ModAdd ==
  ASSUME NEW a \in Nat, NEW b \in Nat, NEW m \in Nat, m > 0
  PROVE  ((a % m) + b) % m = (a + b) % m
<1>1. PICK r \in 0 .. m - 1 : r = a % m
  OBVIOUS
<1>2. PICK q \in Nat : a = m * q + r
  BY <1>1, ModDiv
<1>3. r + b \in Nat
  BY <1>1
<1>4. PICK s \in 0 .. m - 1 : s = (r + b) % m
  BY <1>3
<1>5. PICK p \in Nat : r + b = m * p + s
  BY <1>3, <1>4, ModDiv
<1>6. a + b = m * (q + p) + s
  <2>1. m * (q + p) = m * q + m * p
    OBVIOUS
  <2>2. PICK u \in Int : u = m * q
    OBVIOUS
  <2>3. PICK v \in Int : v = m * p
    OBVIOUS
  <2>4. a = u + r /\ r + b = v + s
    BY <1>2, <1>5, <2>2, <2>3
  <2>5. a + b = u + v + s
    BY <1>1, <1>4, <2>2, <2>3, <2>4
  <2> QED BY <2>1, <2>2, <2>3, <2>5
<1>7. (m * (q + p) + s) % m = s
  <2>1. PICK t \in Nat : t = q + p
    BY <1>2, <1>5
  <2>2. (m * t + s) % m = s
    BY <1>4, ModUnique
  <2> QED BY <2>1, <2>2
<1> QED BY <1>1, <1>4, <1>6, <1>7

LEMMA MulStep ==
  ASSUME NEW a \in Nat, NEW n \in Nat, NEW m \in Nat, m > 0
  PROVE  (((a * n) % m) + a) % m = (a * (n + 1)) % m
<1>1. a * n \in Nat
  OBVIOUS
<1>2. a * (n + 1) = a * n + a
  OBVIOUS
<1>3. PICK u \in Nat : u = a * n
  BY <1>1
<1>4. ((u % m) + a) % m = (u + a) % m
  BY <1>3, ModAdd
<1> QED BY <1>2, <1>3, <1>4

-----------------------------------------------------------------------------
(* The loop over the watermarks.  That a recursive function exists has to   *)
(* be shown: if not, there is a least number of turns without one.          *)

Start(s)            == [wm |-> s[1], nMaxSim |-> 0, id |-> 0]
Turned(s, half, b, n) == Compare(b, GetWM(s, n - 1, b.wm), half)
IsLoop(s, half, g, m) ==
  g = [n \in 0 .. m |-> IF n = 0 THEN Start(s) ELSE Turned(s, half, g[n - 1], n)]

LEMMA LoopExists ==
  ASSUME NEW s, NEW half, NEW m \in Nat
  PROVE  \E g : IsLoop(s, half, g, m)
<1> DEFINE S == {n \in Nat : ~\E g : IsLoop(s, half, g, n)}
<1> SUFFICES ASSUME S # {} PROVE FALSE
  OBVIOUS
<1>1. PICK k \in S : \A n \in S : k <= n
  BY LeastNat
<1>2. k \in Nat /\ ~\E g : IsLoop(s, half, g, k)
  BY <1>1
<1>3. CASE k = 0
  <2> DEFINE g == [n \in 0 .. k |-> Start(s)]
  <2>1. IsLoop(s, half, g, k)
    BY <1>3 DEF IsLoop
  <2> QED
    BY <1>2, <2>1
<1>4. CASE k # 0
  <2>1. k - 1 \in Nat /\ k - 1 \notin S
    BY <1>1, <1>2, <1>4
  <2>2. PICK g : IsLoop(s, half, g, k - 1)
    BY <2>1
  <2> DEFINE h == [n \in 0 .. k |->
                     IF n < k THEN g[n] ELSE Turned(s, half, g[k - 1], k)]
  <2>3. ASSUME NEW n \in 0 .. k
        PROVE  h[n] = IF n = 0 THEN Start(s) ELSE Turned(s, half, h[n - 1], n)
    <3>1. CASE n = 0
      <4>1. n < k /\ n \in 0 .. k - 1
        BY <1>2, <1>4, <3>1
      <4>2. g[n] = Start(s)
        BY <2>2, <3>1, <4>1 DEF IsLoop
      <4> QED
        BY <3>1, <4>1, <4>2
    <3>2. CASE n # 0
      <4>1. n - 1 < k /\ n - 1 \in 0 .. k /\ n - 1 \in 0 .. k - 1
        BY <1>2, <3>2
      <4>2. h[n - 1] = g[n - 1]
        BY <4>1
      <4>3. CASE n < k
        <5>1. n \in 0 .. k - 1
          BY <1>2, <4>3
        <5>2. g[n] = Turned(s, half, g[n - 1], n)
          BY <2>2, <3>2, <5>1 DEF IsLoop
        <5> QED
          BY <3>2, <4>2, <4>3, <5>2
      <4>4. CASE ~(n < k)
        <5>1. n = k
          BY <1>2, <4>4
        <5> QED
          BY <3>2, <4>2, <4>4, <5>1
      <4> QED
        BY <4>3, <4>4
    <3> QED
      BY <3>1, <3>2
  <2>4. h = [n \in 0 .. k |-> h[n]]
    OBVIOUS
  <2> HIDE DEF h
  <2>5. h = [n \in 0 .. k |->
               IF n = 0 THEN Start(s) ELSE Turned(s, half, h[n - 1], n)]
    BY <2>3, <2>4
  <2>6. IsLoop(s, half, h, k)
    BY <2>5, Zenon DEF IsLoop
  <2> QED
    BY <1>2, <2>6
<1> QED
  BY <1>3, <1>4

LEMMA TurnsAre ==
  ASSUME NEW s, Len(s) \in Nat, NEW half
  PROVE  /\ Turns(s, half)[0] = Start(s)
         /\ \A n \in 1 .. Len(s) :
              Turns(s, half)[n] = Turned(s, half, Turns(s, half)[n - 1], n)
<1> DEFINE t == Turns(s, half)
<1>1. IsLoop(s, half, t, Len(s))
  <2>1. t = CHOOSE g : IsLoop(s, half, g, Len(s))
    BY DEF Turns, IsLoop, Start, Turned
  <2> QED
    BY <2>1, LoopExists
<1> HIDE DEF t
<1>2. t[0] = Start(s) /\ \A n \in 1 .. Len(s) : t[n] = Turned(s, half, t[n - 1], n)
  BY <1>1 DEF IsLoop
<1> QED
  BY <1>2 DEF t

LEMMA FindStrNat ==
  ASSUME NEW a, NEW b
  PROVE  Find_Str(a, b) \in Nat
<1>1. IsFiniteSet(1 .. Bits)
  BY Sizes, FS_Interval
<1>2. IsFiniteSet({k \in 1 .. Bits : a[k] = b[k]})
  BY <1>1, FS_Subset
<1> QED
  BY <1>2, FS_CardinalityType DEF Find_Str

LEMMA Int8Low ==
  ASSUME NEW n \in Nat
  PROVE  /\ Int8(n) \in Int /\ Int8(n) <= n
         /\ n < IndexLimit => Int8(n) = n
         /\ IndexLimit <= n /\ n < 2 * IndexLimit => Int8(n) < 0
<1> DEFINE m == 2 * IndexLimit
           a == n + IndexLimit
<1>1. m \in Nat /\ m > 0 /\ a \in Nat /\ IndexLimit \in Nat
  BY Sizes
<1>2. Int8(n) = (a % m) - IndexLimit
  BY DEF Int8
<1>3. a % m \in 0 .. m - 1 /\ a % m <= a
  <2> HIDE DEF a, m
  <2> QED
    BY <1>1
<1>4. ASSUME n < IndexLimit PROVE a % m = a
  <2>1. a \in 0 .. m - 1
    BY <1>1, <1>4
  <2> HIDE DEF a, m
  <2> QED
    BY <1>1, <2>1
<1>5. ASSUME IndexLimit <= n, n < 2 * IndexLimit PROVE a % m = a - m
  <2>1. a - m \in 0 .. m - 1 /\ a = m * 1 + (a - m)
    BY <1>1, <1>5
  <2>2. PICK r \in 0 .. m - 1 : r = a - m
    BY <2>1
  <2>3. a = m * 1 + r
    BY <2>1, <2>2
  <2> HIDE DEF a, m
  <2>4. (m * 1 + r) % m = r
    BY <1>1, <2>2, ModUnique
  <2> QED
    BY <2>2, <2>3, <2>4
<1> QED
  BY <1>1, <1>2, <1>3, <1>4, <1>5

(* The watermark the loop compares in its n-th turn is one of the list.     *)
LEMMA GetWMType ==
  ASSUME NEW s \in Seq(Slot), NEW n \in 1 .. Len(s), NEW w \in Slot
  PROVE  GetWM(s, n - 1, w) \in Slot
<1>1. Len(s) \in Nat /\ n - 1 \in Nat
  OBVIOUS
<1>2. CASE Int8(n - 1) < 0
  BY <1>2 DEF GetWM
<1>3. CASE ~(Int8(n - 1) < 0)
  <2>1. Int8(n - 1) + 1 \in 1 .. Len(s)
    BY <1>1, <1>3, Int8Low
  <2> QED
    BY <1>3, <2>1 DEF GetWM
<1> QED
  BY <1>2, <1>3

Loose(b) == /\ b \in [wm : Slot, nMaxSim : Nat, id : Nat]
            /\ b.nMaxSim > 0 => b.id \in WM

LEMMA CompareLoose ==
  ASSUME NEW b, Loose(b), NEW w \in Slot, NEW half
  PROVE  Loose(Compare(b, w, half))
<1>1. Find_Str(half, w.pattern) \in Nat /\ w.id \in WM /\ w.id \in Nat
  BY FindStrNat, SlotTypes
<1> QED
  BY <1>1 DEF Loose, Compare

LEMMA TurnsLoose ==
  ASSUME NEW s \in Seq(Slot), Len(s) > 0, NEW half
  PROVE  \A n \in 0 .. Len(s) : Loose(Turns(s, half)[n])
<1> DEFINE t == Turns(s, half)
           S == {n \in 0 .. Len(s) : ~Loose(t[n])}
<1>0. Len(s) \in Nat /\ s[1] \in Slot
  OBVIOUS
<1>1. t[0] = Start(s) /\ \A n \in 1 .. Len(s) : t[n] = Turned(s, half, t[n - 1], n)
  BY <1>0, TurnsAre
<1> HIDE DEF t
<1>2. ASSUME S # {} PROVE FALSE
  <2>1. PICK k \in S : \A n \in S : k <= n
    <3>1. S \in SUBSET Nat
      OBVIOUS
    <3> QED
      BY <1>2, <3>1, LeastNat
  <2>2. k \in 0 .. Len(s) /\ ~Loose(t[k])
    BY <2>1
  <2>3. k # 0
    BY <1>0, <1>1, <2>2 DEF Loose, Start
  <2>4. k - 1 \in 0 .. Len(s) /\ k \in 1 .. Len(s) /\ k - 1 \notin S
    BY <1>0, <2>1, <2>2, <2>3
  <2>5. Loose(t[k - 1])
    BY <2>4
  <2>6. GetWM(s, k - 1, t[k - 1].wm) \in Slot
    BY <2>4, <2>5, GetWMType DEF Loose
  <2> QED
    BY <1>1, <2>2, <2>4, <2>5, <2>6, CompareLoose DEF Turned
<1> QED
  BY <1>2 DEF t

LEMMA MatchType ==
  ASSUME NEW s \in Seq(Slot), Len(s) > 0, NEW half
  PROVE  Match(s, half) \in Half
<1>1. Len(s) \in 0 .. Len(s)
  OBVIOUS
<1>2. Loose(Turns(s, half)[Len(s)])
  BY <1>1, TurnsLoose
<1> QED
  BY <1>2, Sizes DEF Match, Loose, Half

(* The last of the most similar among the first m watermarks.               *)
Leads(s, half, k, m) ==
  /\ k \in 1 .. m
  /\ \A j \in 1 .. m :
       /\ Find_Str(half, s[j].pattern) <= Find_Str(half, s[k].pattern)
       /\ Find_Str(half, s[j].pattern) = Find_Str(half, s[k].pattern) => j <= k

Reach(n) == IF n <= IndexLimit THEN n ELSE IndexLimit

Found(s, half, b, n) ==
  /\ b.wm = s[Reach(n)]
  /\ \E k \in 1 .. Reach(n) :
       /\ Leads(s, half, k, Reach(n))
       /\ b.nMaxSim = Find_Str(half, s[k].pattern) /\ b.id = s[k].id

LEMMA FirstTurn ==
  ASSUME NEW s \in Seq(Slot), 1 <= Len(s), NEW half, NEW b, Loose(b), b.nMaxSim = 0
  PROVE  Found(s, half, Turned(s, half, b, 1), 1)
<1>1. Int8(0) = 0 /\ Reach(1) = 1
  BY Sizes, Int8Low DEF Reach
<1>2. GetWM(s, 1 - 1, b.wm) = s[1]
  BY <1>1 DEF GetWM
<1>3. Find_Str(half, s[1].pattern) \in Nat
  BY FindStrNat
<1>4. /\ Turned(s, half, b, 1) = [wm |-> s[1], nMaxSim |-> Find_Str(half, s[1].pattern),
                                  id |-> s[1].id]
  BY <1>2, <1>3 DEF Turned, Compare
<1>5. Leads(s, half, 1, 1)
  BY <1>3 DEF Leads
<1> QED
  BY <1>1, <1>4, <1>5 DEF Found

LEMMA LaterTurn ==
  ASSUME NEW s \in Seq(Slot), NEW n \in 2 .. Len(s), n <= 2 * IndexLimit, NEW half,
         NEW b, Loose(b), Found(s, half, b, n - 1)
  PROVE  Found(s, half, Turned(s, half, b, n), n)
<1> DEFINE sim(j) == Find_Str(half, s[j].pattern)
<1>0. n \in Nat /\ n - 1 \in Nat /\ IndexLimit \in Nat /\ IndexLimit > 0
  BY Sizes
<1>1. PICK k \in 1 .. Reach(n - 1) :
        /\ Leads(s, half, k, Reach(n - 1)) /\ b.nMaxSim = sim(k) /\ b.id = s[k].id
  BY DEF Found
<1>2. Reach(n - 1) \in Nat /\ Reach(n - 1) > 0 /\ k \in Nat
  BY <1>0 DEF Reach
<1>3. \A j \in Nat : sim(j) \in Nat
  BY FindStrNat
<1>4. CASE n <= IndexLimit
  <2>1. Reach(n) = n /\ Reach(n - 1) = n - 1 /\ Int8(n - 1) = n - 1
    BY <1>0, <1>4, Int8Low DEF Reach
  <2>2. GetWM(s, n - 1, b.wm) = s[n]
    BY <1>0, <2>1 DEF GetWM
  <2>3. CASE sim(n) >= b.nMaxSim
    <3>1. Turned(s, half, b, n) = [wm |-> s[n], nMaxSim |-> sim(n), id |-> s[n].id]
      BY <2>2, <2>3 DEF Turned, Compare
    <3>2. Leads(s, half, n, n)
      <4> SUFFICES ASSUME NEW j \in 1 .. n
                   PROVE  sim(j) <= sim(n) /\ (sim(j) = sim(n) => j <= n)
        BY <1>0 DEF Leads
      <4>1. CASE j = n
        BY <1>3, <4>1
      <4>2. CASE j # n
        <5>1. j \in 1 .. n - 1
          BY <1>0, <4>2
        <5>2. sim(j) <= sim(k)
          BY <1>1, <2>1, <5>1 DEF Leads
        <5> QED
          BY <1>0, <1>1, <1>2, <1>3, <2>3, <5>2
      <4> QED
        BY <4>1, <4>2
    <3> QED
      BY <1>0, <2>1, <3>1, <3>2 DEF Found
  <2>4. CASE ~(sim(n) >= b.nMaxSim)
    <3>1. Turned(s, half, b, n) = [b EXCEPT !.wm = s[n]]
      BY <2>2, <2>4 DEF Turned, Compare
    <3>2. /\ Turned(s, half, b, n).wm = s[n]
          /\ Turned(s, half, b, n).nMaxSim = sim(k) /\ Turned(s, half, b, n).id = s[k].id
      BY <1>1, <3>1 DEF Loose
    <3>3. Leads(s, half, k, n)
      <4>1. k \in 1 .. n
        BY <1>0, <1>1, <2>1
      <4> SUFFICES ASSUME NEW j \in 1 .. n
                   PROVE  sim(j) <= sim(k) /\ (sim(j) = sim(k) => j <= k)
        BY <4>1 DEF Leads
      <4>2. CASE j = n
        <5>1. PICK u \in Nat, v \in Nat : u = sim(n) /\ v = sim(k)
          BY <1>0, <1>2, <1>3
        <5>2. u < v
          BY <1>1, <2>4, <5>1
        <5> HIDE DEF sim
        <5> QED
          BY <4>2, <5>1, <5>2
      <4>3. CASE j # n
        <5>1. j \in 1 .. n - 1
          BY <1>0, <4>3
        <5> QED
          BY <1>1, <2>1, <5>1 DEF Leads
      <4> QED
        BY <4>2, <4>3
    <3>4. k \in 1 .. n
      BY <1>0, <1>1, <2>1
    <3> QED
      BY <2>1, <3>2, <3>3, <3>4 DEF Found
  <2> QED
    BY <2>3, <2>4
<1>5. CASE ~(n <= IndexLimit)
  <2>1. Reach(n) = IndexLimit /\ Reach(n - 1) = IndexLimit /\ Int8(n - 1) < 0
    BY <1>0, <1>5, Int8Low DEF Reach
  <2>2. GetWM(s, n - 1, b.wm) = b.wm /\ b.wm = s[IndexLimit]
    BY <2>1 DEF GetWM, Found
  <2>3. IndexLimit \in 1 .. IndexLimit
    BY <1>0
  <2>4. sim(IndexLimit) <= sim(k) /\ (sim(IndexLimit) = sim(k) => IndexLimit <= k)
    BY <1>1, <2>1, <2>3 DEF Leads
  <2>5. CASE sim(IndexLimit) >= b.nMaxSim
    <3>1. Turned(s, half, b, n)
            = [wm |-> s[IndexLimit], nMaxSim |-> sim(IndexLimit), id |-> s[IndexLimit].id]
      BY <2>2, <2>5 DEF Turned, Compare
    <3>2. k = IndexLimit
      <4>1. PICK u \in Nat, v \in Nat : u = sim(IndexLimit) /\ v = sim(k)
        BY <1>0, <1>2, <1>3
      <4>2. u >= v /\ u <= v
        BY <1>1, <2>4, <2>5, <4>1
      <4>3. sim(IndexLimit) = sim(k)
        BY <4>1, <4>2
      <4>4. IndexLimit <= k /\ k <= IndexLimit /\ k \in Nat
        BY <1>1, <1>2, <2>1, <2>4, <4>3
      <4> QED
        BY <1>0, <4>4
    <3> QED
      BY <1>1, <2>1, <3>1, <3>2 DEF Found
  <2>6. CASE ~(sim(IndexLimit) >= b.nMaxSim)
    <3>1. Turned(s, half, b, n) = [b EXCEPT !.wm = s[IndexLimit]]
      BY <2>2, <2>6 DEF Turned, Compare
    <3>2. /\ Turned(s, half, b, n).wm = s[IndexLimit]
          /\ Turned(s, half, b, n).nMaxSim = sim(k) /\ Turned(s, half, b, n).id = s[k].id
      BY <1>1, <3>1 DEF Loose
    <3> QED
      BY <1>1, <2>1, <3>2 DEF Found
  <2> QED
    BY <2>5, <2>6
<1> QED
  BY <1>4, <1>5

LEMMA TurnsFound ==
  ASSUME NEW s \in Seq(Slot), Len(s) > 0, Len(s) <= 2 * IndexLimit, NEW half
  PROVE  \A n \in 1 .. Len(s) : Found(s, half, Turns(s, half)[n], n)
<1> DEFINE t == Turns(s, half)
           S == {n \in 1 .. Len(s) : ~Found(s, half, t[n], n)}
<1>0. Len(s) \in Nat /\ 2 * IndexLimit \in Nat
  BY Sizes
<1>1. t[0] = Start(s) /\ \A n \in 1 .. Len(s) : t[n] = Turned(s, half, t[n - 1], n)
  BY <1>0, TurnsAre
<1>2. \A n \in 0 .. Len(s) : Loose(t[n])
  BY TurnsLoose
<1> HIDE DEF t
<1>3. ASSUME S # {} PROVE FALSE
  <2>1. PICK k \in S : \A n \in S : k <= n
    <3>1. S \in SUBSET Nat
      OBVIOUS
    <3> QED
      BY <1>3, <3>1, LeastNat
  <2>2. k \in 1 .. Len(s) /\ ~Found(s, half, t[k], k)
    BY <2>1
  <2>3. CASE k = 1
    <3>1. Loose(t[0]) /\ t[0].nMaxSim = 0 /\ t[1] = Turned(s, half, t[0], 1)
      BY <1>0, <1>1, <1>2, <2>2, <2>3 DEF Start
    <3> QED
      BY <2>2, <2>3, <3>1, FirstTurn
  <2>4. CASE k # 1
    <3>1. k \in 2 .. Len(s) /\ k - 1 \in 1 .. Len(s) /\ k - 1 \notin S
      BY <1>0, <2>1, <2>2, <2>4
    <3>2. Found(s, half, t[k - 1], k - 1) /\ Loose(t[k - 1]) /\ k <= 2 * IndexLimit
      BY <1>0, <1>2, <3>1
    <3> QED
      BY <1>1, <2>2, <3>1, <3>2, LaterTurn
  <2> QED
    BY <2>3, <2>4
<1> QED
  BY <1>3 DEF t

(* The loop finds the last of the most similar watermarks in its reach.     *)
LEMMA MatchBest ==
  ASSUME NEW s \in Seq(Slot), Len(s) > 0, Len(s) <= 2 * IndexLimit, NEW half
  PROVE  Match(s, half) = LastOfMostSimilar(s, half)
<1> DEFINE sim(j) == Find_Str(half, s[j].pattern)
           Seen   == {j \in DOMAIN s : j <= IndexLimit}
           Best   == {j \in Seen : \A h \in Seen : sim(h) <= sim(j)}
           best   == Turns(s, half)[Len(s)]
<1>0. Len(s) \in 1 .. Len(s) /\ DOMAIN s = 1 .. Len(s) /\ Len(s) \in Nat
      /\ IndexLimit \in Nat /\ WM_AND_MIN \in Nat
  BY Sizes
<1>1. PICK k \in 1 .. Reach(Len(s)) :
        /\ Leads(s, half, k, Reach(Len(s)))
        /\ best.nMaxSim = sim(k) /\ best.id = s[k].id
  BY <1>0, TurnsFound DEF Found
<1>2. Seen = 1 .. Reach(Len(s))
  BY <1>0 DEF Reach
<1>3. \A j \in Seen : sim(j) \in Nat
  BY FindStrNat
<1>4. k \in Seen /\ \A j \in Seen : sim(j) <= sim(k) /\ (sim(j) = sim(k) => j <= k)
  BY <1>1, <1>2 DEF Leads
<1>5. Seen \subseteq Nat
  BY <1>0
<1>6. /\ k \in Best
      /\ \A j \in Best : j \in Seen /\ sim(k) <= sim(j)
  BY <1>4
<1>7. LastOfMostSimilar(s, half)
        = IF \E j \in Seen : sim(j) >= WM_AND_MIN
          THEN s[CHOOSE h \in Best : \A j \in Best : j <= h].id ELSE NoMatch
  BY DEF LastOfMostSimilar
<1>8. Match(s, half) = IF best.nMaxSim >= WM_AND_MIN THEN best.id ELSE NoMatch
  BY DEF Match
<1> HIDE DEF best, Seen, Best, sim
<1>9. \A j \in Best : j \in Nat /\ j <= k
  <2> SUFFICES ASSUME NEW j \in Best PROVE j \in Nat /\ j <= k
    OBVIOUS
  <2>1. j \in Seen /\ sim(j) \in Nat /\ sim(k) \in Nat
    BY <1>3, <1>4, <1>6
  <2>2. sim(j) <= sim(k) /\ sim(k) <= sim(j)
    BY <1>4, <1>6, <2>1
  <2>3. sim(j) = sim(k)
    BY <2>1, <2>2
  <2> QED
    BY <1>4, <1>5, <2>1, <2>3
<1>10. (CHOOSE h \in Best : \A j \in Best : j <= h) = k
  <2>1. \A h \in Best : (\A j \in Best : j <= h) => h = k
    BY <1>6, <1>9
  <2> QED
    BY <1>6, <1>9, <2>1
<1>11. (\E j \in Seen : sim(j) >= WM_AND_MIN) <=> sim(k) >= WM_AND_MIN
  <2> SUFFICES ASSUME NEW j \in Seen, sim(j) >= WM_AND_MIN PROVE sim(k) >= WM_AND_MIN
    BY <1>4
  <2>1. sim(j) \in Nat /\ sim(k) \in Nat /\ sim(j) <= sim(k)
    BY <1>3, <1>4
  <2> QED
    BY <1>0, <2>1
<1>12. best.nMaxSim = sim(k) /\ best.id = s[k].id
  BY <1>1 DEF sim
<1>13. CASE sim(k) >= WM_AND_MIN
  <2>1. Match(s, half) = s[k].id
    BY <1>8, <1>12, <1>13
  <2>2. LastOfMostSimilar(s, half) = s[k].id
    BY <1>7, <1>10, <1>11, <1>13, Zenon
  <2> QED
    BY <2>1, <2>2
<1>14. CASE ~(sim(k) >= WM_AND_MIN)
  <2>1. Match(s, half) = NoMatch
    BY <1>8, <1>12, <1>14
  <2>2. LastOfMostSimilar(s, half) = NoMatch
    BY <1>7, <1>11, <1>14, Zenon
  <2> QED
    BY <2>1, <2>2
<1> QED
  BY <1>13, <1>14

-----------------------------------------------------------------------------
(* Types.  The run need not be of a known watermark while it has no frames. *)

Entry   == [id : 0 .. MaxId, wm : WM, frames : WM \cup Nat]
Run     == [id : WM \cup {0}, frames : 0 .. FrameMod - 1]
Kept    == [id : WM, frames : 1 .. FrameMod - 1]
Message == [bits : Pattern \X Pattern, match : Half \X Half]

StoreType == log \in Seq(Entry) /\ Len(log) <= Capacity /\ last \in 0 .. MaxId
RunType   == run \in Run /\ (run.frames > 0 => run.id \in WM)
MarksType == marks \in Seq(Slot) /\ Len(marks) <= MaxMarks
OtherType == erasing \in BOOLEAN /\ periods \in 0 .. 1
PlaceType == /\ pc \in {"idle", "first", "second"}
             /\ pc = "idle" => msg = NoMsg
             /\ pc # "idle" => msg \in Message
PastType  == heard \in Seq(Half) /\ written \in Seq(Kept)

TInv == StoreType /\ RunType /\ MarksType /\ OtherType /\ PlaceType /\ PastType

(* Where the runs written stand in the area.                                *)
AreaInv == /\ before \in 0 .. Len(log) /\ since \in 0 .. Len(written)
           /\ RunsStored

LEMMA TypesHold == TInv /\ AreaInv => TypeOK
<1> SUFFICES ASSUME TInv, AreaInv PROVE TypeOK
  OBVIOUS
<1>1. Len(marks) \in 0 .. MaxMarks /\ marks \in [1 .. Len(marks) -> Slot]
  BY Sizes DEF TInv, MarksType
<1>2. marks \in BoundedSeq(Slot, MaxMarks)
  BY <1>1 DEF BoundedSeq, SeqOf
<1>3. Slot = Offered \cup Torn \cup {Erased}
  BY DEF Slot
<1>4. last \in 0 .. MaxId /\ Len(log) <= Capacity
  BY DEF TInv, StoreType
<1>5. run \in [id : WM \cup {0}, frames : 0 .. FrameMod - 1]
  BY DEF TInv, RunType, Run
<1>6. erasing \in BOOLEAN /\ periods \in 0 .. 1
  BY Zenon DEF TInv, OtherType
<1>7. /\ pc \in {"idle", "first", "second"}
      /\ msg = NoMsg \/ msg \in [bits : Pattern \X Pattern, match : Half \X Half]
  BY DEF TInv, PlaceType, Message
<1>8. /\ heard \in Seq(Half)
      /\ written \in Seq([id : WM, frames : 1 .. FrameMod - 1])
  BY DEF TInv, PastType, Kept
<1>9. before \in 0 .. Len(log) /\ since \in 0 .. Len(written)
  BY DEF AreaInv
<1> QED
  BY <1>2, <1>3, <1>4, <1>5, <1>6, <1>7, <1>8, <1>9, Zenon DEF TypeOK

LEMMA InitTInv == Init => TInv
<1> SUFFICES ASSUME Init PROVE TInv
  OBVIOUS
<1>1. StoreType /\ RunType
  BY Sizes DEF Init, Store!LogInit, StoreType, RunType, Run, NoRun
<1>2. MarksType /\ PlaceType /\ PastType
  BY Sizes DEF Init, List!ListInit, MarksType, PlaceType, PastType
<1>3. OtherType
  <2>1. erasing \in BOOLEAN
    BY Zenon DEF Init
  <2>2. periods \in 0 .. 1
    BY DEF Init
  <2> QED
    BY <2>1, <2>2, Zenon DEF OtherType
<1> QED
  BY <1>1, <1>2, <1>3 DEF TInv

LEMMA ReceiveTInv ==
  ASSUME TInv, NEW a \in Pattern, NEW b \in Pattern, Receive(a, b)
  PROVE  TInv'
<1>1. marks \in Seq(Slot) /\ Len(marks) > 0
  BY DEF TInv, MarksType, Receive
<1>2. Match(marks, a) \in Half /\ Match(marks, b) \in Half
  BY <1>1, MatchType
<1>3. msg' \in Message /\ pc' = "first"
  BY <1>2 DEF Receive, Message
<1>4. PlaceType'
  BY <1>3 DEF PlaceType
<1>5. UNCHANGED <<log, last, run, marks, erasing, periods, heard, written>>
  BY DEF Receive, store, stock
<1> QED
  BY <1>4, <1>5 DEF TInv, StoreType, RunType, MarksType, OtherType, PastType

LEMMA FlushTypes ==
  ASSUME TInv, Flush
  PROVE  StoreType' /\ written' \in Seq(Kept)
<1>1. CASE run.frames > 0
  <2>1. run \in Kept /\ run.id \in WM /\ run.frames \in Nat
    BY <1>1, Sizes DEF TInv, RunType, Run, Kept
  <2>2. written' = Append(written, run)
    BY <1>1 DEF Flush
  <2>3. written' \in Seq(Kept)
    BY <2>1, <2>2 DEF TInv, PastType
  <2>4. CASE Store!HasRoom
    <3> DEFINE e == [id |-> last + 1, wm |-> run.id, frames |-> run.frames]
    <3>1. /\ Len(log) < Capacity /\ last < MaxId
          /\ last' = last + 1 /\ log' = Append(log, e)
      BY <1>1, <2>4 DEF Flush, Store!Write, Store!HasRoom
    <3>2. last' \in 0 .. MaxId /\ e \in Entry
      BY <2>1, <3>1, Sizes DEF TInv, StoreType, Entry
    <3>3. log' \in Seq(Entry) /\ Len(log') = Len(log) + 1
      <4> HIDE DEF e
      <4> QED
        BY <3>1, <3>2 DEF TInv, StoreType
    <3>4. Len(log') <= Capacity
      BY <3>1, <3>3, Sizes DEF TInv, StoreType
    <3> QED
      BY <2>3, <3>2, <3>3, <3>4 DEF StoreType
  <2>5. CASE ~Store!HasRoom
    BY <1>1, <2>3, <2>5 DEF Flush, TInv, StoreType, store
  <2> QED
    BY <2>4, <2>5
<1>2. CASE ~(run.frames > 0)
  BY <1>2 DEF Flush, TInv, StoreType, PastType, store
<1> QED
  BY <1>1, <1>2

LEMMA HalfTInv ==
  ASSUME TInv, NEW at \in {"first", "second"}, NEW next \in {"idle", "second"},
         NEW h \in Half, HandleHalf(at, next, h)
  PROVE  TInv'
<1>1. StoreType' /\ RunType' /\ written' \in Seq(Kept)
  <2>1. CASE Continue(h)
    <3>1. /\ h \in WM /\ h = run.id
          /\ run' = [run EXCEPT !.frames = (@ + Mul) % FrameMod]
          /\ UNCHANGED <<log, last, written>>
      BY <2>1 DEF Continue, Half, store
    <3>2. (run.frames + Mul) % FrameMod \in 0 .. FrameMod - 1
      <4>1. PICK u \in Nat : u = run.frames + Mul
        BY Sizes DEF TInv, RunType, Run
      <4>2. u % FrameMod \in 0 .. FrameMod - 1
        BY <4>1, Sizes
      <4> QED
        BY <4>1, <4>2
    <3>3. RunType'
      BY <3>1, <3>2 DEF TInv, RunType, Run
    <3> QED
      BY <3>1, <3>3 DEF TInv, StoreType, PastType
  <2>2. CASE Turn(h)
    <3>1. Flush /\ h \in WM /\ run' = [id |-> h, frames |-> Mul]
      BY <2>2 DEF Turn, Half
    <3>2. RunType'
      BY <3>1, Sizes DEF RunType, Run
    <3> QED
      BY <3>1, <3>2, FlushTypes
  <2>3. CASE Silence(h)
    <3>1. Flush /\ run' = NoRun
      BY <2>3 DEF Silence
    <3>2. RunType'
      BY <3>1, Sizes DEF RunType, Run, NoRun
    <3> QED
      BY <3>1, <3>2, FlushTypes
  <2> QED
    BY <2>1, <2>2, <2>3 DEF HandleHalf
<1>2. heard' \in Seq(Half)
  BY DEF HandleHalf, TInv, PastType
<1>3. PlaceType'
  BY DEF HandleHalf, TInv, PlaceType
<1>4. UNCHANGED <<marks, erasing, periods>>
  BY DEF HandleHalf, stock
<1> QED
  BY <1>1, <1>2, <1>3, <1>4 DEF TInv, MarksType, OtherType, PastType

LEMMA HandleTInv ==
  ASSUME TInv, Handle_Water
  PROVE  TInv'
<1>1. msg \in Message
  BY DEF TInv, PlaceType, Handle_Water, HandleHalf
<1>2. msg.match[1] \in Half /\ msg.match[2] \in Half
  BY <1>1 DEF Message
<1>3. CASE HandleHalf("first", "second", msg.match[1])
  BY <1>2, <1>3, HalfTInv
<1>4. CASE HandleHalf("second", "idle", msg.match[2])
  BY <1>2, <1>4, HalfTInv
<1> QED
  BY <1>3, <1>4 DEF Handle_Water

LEMMA AddTypes ==
  ASSUME TInv, NEW wm \in Offered \cup Torn, List!Add(wm)
  PROVE  MarksType'
<1>1. wm \in Slot /\ Len(marks) < MaxMarks /\ marks' = Append(marks, wm)
  BY DEF List!Add, Slot
<1>2. marks' \in Seq(Slot) /\ Len(marks') = Len(marks) + 1
  BY <1>1 DEF TInv, MarksType
<1> QED
  BY <1>1, <1>2, Sizes DEF TInv, MarksType

LEMMA StockTInv ==
  ASSUME TInv, WriteWM \/ EraseWMPage \/ EraseWMNum
  PROVE  TInv'
<1>1. CASE WriteWM
  <2>1. MarksType'
    BY <1>1, AddTypes DEF WriteWM
  <2>2. UNCHANGED <<log, last, run, erasing, pc, msg, periods, heard, written>>
    BY <1>1 DEF WriteWM, store
  <2> QED
    BY <2>1, <2>2 DEF TInv, StoreType, RunType, OtherType, PlaceType, PastType
<1>2. CASE EraseWMPage
  <2>1. PICK k \in DOMAIN marks :
          marks' = [i \in DOMAIN marks |-> IF i <= k THEN Erased ELSE marks[i]]
    BY <1>2 DEF EraseWMPage
  <2>2. PICK n \in Nat : n = Len(marks)
    BY DEF TInv, MarksType
  <2>3. DOMAIN marks = 1 .. n /\ \A i \in 1 .. n : marks[i] \in Slot
    BY <2>2 DEF TInv, MarksType
  <2>4. Erased \in Slot
    BY DEF Slot
  <2>5. marks' \in [1 .. n -> Slot]
    BY <2>1, <2>3, <2>4
  <2>6. marks' \in Seq(Slot)
    BY <2>2, <2>5, SeqDef
  <2>7. Len(marks') = n
    BY <2>2, <2>5, <2>6, LenProperties
  <2>8. MarksType'
    BY <2>2, <2>6, <2>7 DEF TInv, MarksType
  <2>9. UNCHANGED <<log, last, run, pc, msg, periods, heard, written>> /\ erasing' = TRUE
    BY <1>2 DEF EraseWMPage, store
  <2> QED
    BY <2>8, <2>9 DEF TInv, StoreType, RunType, OtherType, PlaceType, PastType
<1>3. CASE EraseWMNum
  <2>1. MarksType'
    BY <1>3, Sizes DEF EraseWMNum, List!Erase, MarksType
  <2>2. UNCHANGED <<log, last, run, pc, msg, periods, heard, written>> /\ erasing' = FALSE
    BY <1>3 DEF EraseWMNum, store
  <2> QED
    BY <2>1, <2>2 DEF TInv, StoreType, RunType, OtherType, PlaceType, PastType
<1> QED
  BY <1>1, <1>2, <1>3

LEMMA EraseRecordTInv ==
  ASSUME TInv, EraseRecord
  PROVE  TInv'
<1>1. StoreType'
  BY Sizes DEF EraseRecord, Store!Erase, TInv, StoreType
<1>2. UNCHANGED <<run, marks, erasing, pc, msg, periods, heard, written>>
  BY DEF EraseRecord, stock
<1> QED
  BY <1>1, <1>2 DEF TInv, RunType, MarksType, OtherType, PlaceType, PastType

LEMMA PowerTInv ==
  ASSUME TInv, PowerCycle
  PROVE  TInv'
<1>1. StoreType'
  <2>1. log' \in Seq(Entry) /\ Len(log') <= Capacity
    <3>1. CASE log' = log
      BY <3>1 DEF TInv, StoreType
    <3>2. CASE Store!HasRoom /\ \E torn \in Store!Record :
                 torn.id > last /\ log' = Append(log, torn)
      <4>1. PICK torn \in Store!Record : log' = Append(log, torn)
        BY <3>2
      <4>2. torn \in Entry
        BY DEF Store!Record, Entry
      <4>3. log' \in Seq(Entry) /\ Len(log') = Len(log) + 1
        BY <4>1, <4>2 DEF TInv, StoreType
      <4> QED
        BY <3>2, <4>3, Sizes DEF TInv, StoreType, Store!HasRoom
    <3> QED
      BY <3>1, <3>2 DEF PowerCycle, Store!Restart
  <2>2. last' = IF log' = <<>> THEN 0 ELSE log'[Len(log')].id
    BY DEF PowerCycle, Store!Restart
  <2>3. last' \in 0 .. MaxId
    <3>1. CASE log' = <<>>
      BY <2>2, <3>1, Sizes
    <3>2. CASE log' # <<>>
      <4>1. log'[Len(log')] \in Entry
        BY <2>1, <3>2
      <4> QED
        BY <2>2, <3>2, <4>1 DEF Entry
    <3> QED
      BY <3>1, <3>2
  <2> QED
    BY <2>1, <2>3 DEF StoreType
<1>2. MarksType'
  <2>1. CASE List!Erase
    BY <2>1, Sizes DEF List!Erase, MarksType
  <2>2. CASE UNCHANGED marks
    BY <2>2 DEF TInv, MarksType
  <2>3. CASE \E torn \in Torn : List!Add(torn)
    BY <2>3, AddTypes
  <2> QED
    BY <2>1, <2>2, <2>3 DEF PowerCycle, List!Restart
<1>3. RunType'
  BY Sizes DEF PowerCycle, RunType, Run, NoRun
<1>4. PlaceType' /\ PastType'
  BY DEF PowerCycle, PlaceType, PastType
<1>5. OtherType'
  <2>1. erasing' \in BOOLEAN
    BY Zenon DEF PowerCycle
  <2>2. periods' \in 0 .. 1
    BY DEF PowerCycle
  <2> QED
    BY <2>1, <2>2, Zenon DEF OtherType
<1> QED
  BY <1>1, <1>2, <1>3, <1>4, <1>5 DEF TInv

LEMMA NextTInv == TInv /\ [Next]_vars => TInv'
<1> SUFFICES ASSUME TInv, [Next]_vars PROVE TInv'
  OBVIOUS
<1>1. CASE \E a, b \in Pattern : Receive(a, b)
  BY <1>1, ReceiveTInv
<1>2. CASE UNCHANGED vars
  <2>1. UNCHANGED <<log, last, run, marks, erasing, pc, msg, periods, heard, written>>
    BY <1>2 DEF vars, stock
  <2> QED
    BY <2>1 DEF TInv, StoreType, RunType, MarksType, OtherType, PlaceType, PastType
<1> QED
  BY <1>1, <1>2, HandleTInv, StockTInv, EraseRecordTInv, PowerTInv DEF Next

(* A run that ends goes behind the others, into the area if there is room.  *)
LEMMA FlushAreaInv ==
  ASSUME TInv, AreaInv, Flush, UNCHANGED marker
  PROVE  AreaInv'
<1>1. /\ log \in Seq(Entry) /\ written \in Seq(Kept) /\ run \in Run
      /\ Len(log) \in Nat /\ Len(written) \in Nat
      /\ before \in 0 .. Len(log) /\ since \in 0 .. Len(written)
      /\ UNCHANGED <<before, since>>
  BY DEF TInv, StoreType, PastType, RunType, AreaInv, marker
<1>2. run = [id |-> run.id, frames |-> run.frames]
  BY <1>1 DEF Run
<1>3. /\ Len(log) - before <= Len(written) - since
      /\ \A k \in 1 .. Len(log) - before :
           written[since + k] = [id     |-> log[before + k].wm,
                                 frames |-> log[before + k].frames]
      /\ Len(log) - before < Len(written) - since => ~Store!HasRoom
  BY DEF AreaInv, RunsStored
<1>4. CASE ~(run.frames > 0)
  <2>1. UNCHANGED <<log, written>>
    BY <1>4 DEF Flush, store
  <2> QED
    BY <1>1, <1>3, <2>1 DEF AreaInv, RunsStored, Store!HasRoom
<1>5. CASE run.frames > 0
  <2>1. /\ Len(written') = Len(written) + 1 /\ written'[Len(written) + 1] = run
        /\ \A k \in 1 .. Len(written) : written'[k] = written[k]
    BY <1>1, <1>5 DEF Flush, Run
  <2>2. CASE ~Store!HasRoom
    <3>1. log' = log
      BY <1>5, <2>2 DEF Flush, store
    <3>2. \A k \in 1 .. Len(log) - before : since + k \in 1 .. Len(written)
      BY <1>1, <1>3
    <3>3. ~Store!HasRoom'
      BY <2>2, <3>1 DEF Store!HasRoom
    <3>4. \A k \in 1 .. Len(log) - before : written'[since + k] = written[since + k]
      BY <2>1, <3>2
    <3>5. /\ before \in 0 .. Len(log) /\ since \in 0 .. Len(written')
          /\ Len(log) - before <= Len(written') - since
      BY <1>1, <1>3, <2>1
    <3>6. RunsStored'
      BY <1>1, <1>3, <3>1, <3>3, <3>4, <3>5 DEF RunsStored
    <3> QED
      BY <1>1, <3>1, <3>5, <3>6 DEF AreaInv
  <2>3. CASE Store!HasRoom
    <3> DEFINE e == [id |-> last + 1, wm |-> run.id, frames |-> run.frames]
    <3>1. log' = Append(log, e)
      BY <1>5, <2>3 DEF Flush, Store!Write
    <3>2. [id |-> e.wm, frames |-> e.frames] = run
      BY <1>2
    <3> HIDE DEF e
    <3>3. /\ Len(log') = Len(log) + 1 /\ log'[Len(log) + 1] = e
          /\ \A k \in 1 .. Len(log) : log'[k] = log[k]
      BY <1>1, <3>1
    <3>4. Len(log) - before = Len(written) - since
      BY <1>1, <1>3, <2>3
    <3>5. ASSUME NEW k \in 1 .. Len(log') - before
          PROVE  written'[since + k] = [id     |-> log'[before + k].wm,
                                        frames |-> log'[before + k].frames]
      <4>1. CASE k = Len(log) - before + 1
        <5>1. since + k = Len(written) + 1 /\ before + k = Len(log) + 1
          BY <1>1, <3>4, <4>1
        <5> QED
          BY <2>1, <3>2, <3>3, <5>1
      <4>2. CASE k # Len(log) - before + 1
        <5>1. /\ k \in 1 .. Len(log) - before /\ before + k \in 1 .. Len(log)
              /\ since + k \in 1 .. Len(written)
          BY <1>1, <3>3, <3>4, <4>2
        <5> QED
          BY <1>3, <2>1, <3>3, <5>1
      <4> QED
        BY <4>1, <4>2
    <3>6. /\ before \in 0 .. Len(log') /\ since \in 0 .. Len(written')
          /\ Len(log') - before = Len(written') - since
      <4>1. PICK m, n \in Nat : m = Len(log) /\ n = Len(written)
        BY <1>1
      <4>2. before \in 0 .. m /\ since \in 0 .. n /\ m - before = n - since
        BY <1>1, <3>4, <4>1
      <4>3. Len(log') = m + 1 /\ Len(written') = n + 1
        BY <2>1, <3>3, <4>1
      <4>4. /\ before \in 0 .. m + 1 /\ since \in 0 .. n + 1
            /\ (m + 1) - before = (n + 1) - since
        BY <4>2
      <4> QED
        BY <4>3, <4>4
    <3>7. RunsStored'
      <4>1. /\ Len(log') - before \in Nat
            /\ Len(log') - before <= Len(written') - since
            /\ ~(Len(log') - before < Len(written') - since)
        BY <1>1, <3>3, <3>6
      <4> QED
        BY <1>1, <3>5, <4>1 DEF RunsStored
    <3> QED
      BY <1>1, <3>6, <3>7 DEF AreaInv
  <2> QED
    BY <2>2, <2>3
<1> QED
  BY <1>4, <1>5

LEMMA AreaInvKept ==
  ASSUME AreaInv, UNCHANGED <<log, written, marker>>
  PROVE  AreaInv'
BY DEF AreaInv, RunsStored, marker, Store!HasRoom

LEMMA HalfAreaInv ==
  ASSUME TInv, AreaInv, NEW at, NEW next, NEW h, HandleHalf(at, next, h)
  PROVE  AreaInv'
<1>1. UNCHANGED marker
  BY DEF HandleHalf
<1>2. CASE Continue(h)
  BY <1>1, <1>2, AreaInvKept DEF Continue, store
<1>3. CASE Turn(h) \/ Silence(h)
  BY <1>1, <1>3, FlushAreaInv DEF Turn, Silence
<1> QED
  BY <1>2, <1>3 DEF HandleHalf

LEMMA NextAreaInv ==
  ASSUME TInv, AreaInv, [Next]_vars
  PROVE  AreaInv'
<1>1. Len(log) \in Nat /\ Len(written) \in Nat
  BY DEF TInv, StoreType, PastType
<1>2. CASE Handle_Water
  BY <1>2, HalfAreaInv DEF Handle_Water
<1>3. CASE EraseRecord
  <2>1. log' = <<>> /\ before' = 0 /\ since' = Len(written) /\ written' = written
    BY <1>3 DEF EraseRecord, Store!Erase
  <2> QED
    BY <1>1, <2>1 DEF AreaInv, RunsStored
<1>4. CASE PowerCycle
  <2>1. before' = Len(log') /\ since' = 0 /\ written' = <<>>
    BY <1>4 DEF PowerCycle
  <2>2. Len(log') \in Nat
    BY <1>4, PowerTInv DEF TInv, StoreType
  <2> QED
    BY <2>1, <2>2 DEF AreaInv, RunsStored
<1>5. CASE UNCHANGED <<log, written, marker>>
  BY <1>5, AreaInvKept
<1>6. CASE UNCHANGED vars
  BY <1>5, <1>6 DEF vars
<1> QED
  BY <1>2, <1>3, <1>4, <1>5, <1>6 DEF Next, Receive, WriteWM, EraseWMPage,
     EraseWMNum, store

LEMMA InitAreaInv == Init => AreaInv
BY DEF Init, Store!LogInit, AreaInv, RunsStored

(* Every reachable state is of its types: the frames of a run fit           *)
(* g_WMRecord.FrameNum, a run that has frames is of a watermark that some   *)
(* slot can hold, and so is every run handed to WriteRecord.                *)
THEOREM TypeCorrect == Spec => []TypeOK
<1>1. TInv /\ AreaInv /\ [Next]_vars => AreaInv'
  BY NextAreaInv
<1> QED
  BY <1>1, InitTInv, InitAreaInv, NextTInv, TypesHold, PTL DEF Spec

(* The area holds, behind what it held at power-on or was left by an erase, *)
(* the runs that have ended since, one record each and in their order, and  *)
(* misses only the latest, once it is full (usr_dsp.c 132, usr_flash.c 162).*)
THEOREM RunsAreStored == Spec => []RunsStored
<1>1. TInv /\ AreaInv /\ [Next]_vars => AreaInv'
  BY NextAreaInv
<1>2. AreaInv => RunsStored
  BY DEF AreaInv
<1> QED
  BY <1>1, <1>2, InitTInv, InitAreaInv, NextTInv, PTL DEF Spec

-----------------------------------------------------------------------------
(* What the loop makes of a message.  The watermarks stay what they are     *)
(* until both halves are handled, for the interrupt is not preempted.       *)

WithinIndex == Len(marks) <= 2 * IndexLimit

Matched == pc = "first" =>
             \A h \in 1 .. 2 : msg.match[h] = Match(marks, msg.bits[h])

LEMMA NextMatched ==
  ASSUME TInv, Matched, [Next]_vars
  PROVE  Matched'
<1>1. CASE \E a, b \in Pattern : Receive(a, b)
  BY <1>1 DEF Receive, Matched, stock
<1>2. CASE Handle_Water
  BY <1>2 DEF Handle_Water, HandleHalf, Matched
<1>3. CASE WriteWM \/ EraseWMPage \/ EraseWMNum \/ EraseRecord
  BY <1>3 DEF WriteWM, EraseWMPage, EraseWMNum, EraseRecord, Matched
<1>4. CASE PowerCycle
  BY <1>4 DEF PowerCycle, Matched
<1>5. CASE UNCHANGED vars
  BY <1>5 DEF vars, stock, Matched
<1> QED
  BY <1>1, <1>2, <1>3, <1>4, <1>5 DEF Next

LEMMA MatchedIsBest ==
  ASSUME TInv, Matched, pc = "first" => marks # <<>>, WithinIndex
  PROVE  MatchIsBest
<1> SUFFICES ASSUME pc = "first", NEW h \in 1 .. 2
             PROVE  msg.match[h] = LastOfMostSimilar(marks, msg.bits[h])
  BY DEF MatchIsBest
<1>1. marks \in Seq(Slot) /\ Len(marks) > 0 /\ Len(marks) <= 2 * IndexLimit
  BY DEF TInv, MarksType, WithinIndex
<1>2. Match(marks, msg.bits[h]) = LastOfMostSimilar(marks, msg.bits[h])
  BY <1>1, MatchBest
<1> QED
  BY <1>2 DEF Matched

LEMMA NextListed ==
  ASSUME pc = "first" => marks # <<>>, [Next]_vars
  PROVE  (pc = "first" => marks # <<>>)'
<1>1. CASE \E a, b \in Pattern : Receive(a, b)
  BY <1>1 DEF Receive, stock
<1>2. CASE Handle_Water
  BY <1>2 DEF Handle_Water, HandleHalf
<1>3. CASE WriteWM \/ EraseWMPage \/ EraseWMNum \/ EraseRecord
  BY <1>3 DEF WriteWM, EraseWMPage, EraseWMNum, EraseRecord
<1>4. CASE PowerCycle
  BY <1>4 DEF PowerCycle
<1>5. CASE UNCHANGED vars
  BY <1>5 DEF vars, stock
<1> QED
  BY <1>1, <1>2, <1>3, <1>4, <1>5 DEF Next

(* While there are no more watermarks than an int8_t has values, the loop   *)
(* of Handle_Water gives each half the last of the most similar watermarks  *)
(* that the index of GetWM reaches, or none.                                *)
THEOREM BestIsTaken == Spec /\ []WithinIndex => []MatchIsBest
<1> DEFINE Listed == pc = "first" => marks # <<>>
<1>1. Init => Matched /\ Listed
  BY DEF Init, Matched
<1>2. TInv /\ Matched /\ Listed /\ [Next]_vars => Matched' /\ Listed'
  BY NextMatched, NextListed
<1>3. TInv /\ Matched /\ Listed /\ WithinIndex => MatchIsBest
  BY MatchedIsBest
<1> QED
  BY <1>1, <1>2, <1>3, InitTInv, NextTInv, PTL DEF Spec

(* In an area with room for no more than that, always.                      *)
COROLLARY SmallAreaBestIsTaken ==
  ASSUME MaxMarks <= 2 * IndexLimit
  PROVE  Spec => []MatchIsBest
<1>1. TInv => WithinIndex
  BY Sizes DEF TInv, MarksType, WithinIndex
<1> QED
  BY <1>1, BestIsTaken, InitTInv, NextTInv, PTL DEF Spec

-----------------------------------------------------------------------------
(* Blocks of equal halves.  Past: the runs written are the blocks that have *)
(* ended; Present: the open run is the block at the end of what was heard;  *)
(* Whole: some runs are the blocks, ended or not.                           *)

Count(n)  == (Mul * n) % FrameMod
Rec(h, n) == [id |-> h, frames |-> Count(n)]

LEMMA Counts ==
  /\ Count(1) = Mul /\ Mul > 0 /\ Mul \in Nat
  /\ \A n \in Nat : /\ Count(n) \in 0 .. FrameMod - 1 /\ Count(n) \in Nat
                    /\ (Count(n) + Mul) % FrameMod = Count(n + 1)
<1>1. Count(1) = Mul
  <2>1. Mul \in 0 .. FrameMod - 1 /\ Mul * 1 = Mul /\ FrameMod * 0 + Mul = Mul
    BY Sizes
  <2>2. (FrameMod * 0 + Mul) % FrameMod = Mul
    BY <2>1, Sizes, ModUnique
  <2> QED
    BY <2>1, <2>2 DEF Count
<1>2. ASSUME NEW n \in Nat
      PROVE  /\ Count(n) \in 0 .. FrameMod - 1 /\ Count(n) \in Nat
             /\ (Count(n) + Mul) % FrameMod = Count(n + 1)
  <2>1. PICK u \in Nat : u = Mul * n
    BY Sizes
  <2>2. u % FrameMod \in 0 .. FrameMod - 1
    BY <2>1, Sizes
  <2>3. Count(n) \in 0 .. FrameMod - 1 /\ Count(n) \in Nat
    BY <2>1, <2>2, Sizes DEF Count
  <2>4. (((Mul * n) % FrameMod) + Mul) % FrameMod = (Mul * (n + 1)) % FrameMod
    BY Sizes, MulStep
  <2> QED
    BY <2>3, <2>4 DEF Count
<1> QED
  BY <1>1, <1>2, Sizes

Blk(s, i, n) ==
  /\ i + n - 1 <= Len(s) /\ s[i] # NoMatch
  /\ \A j \in i .. i + n - 1 : s[j] = s[i]
  /\ i > 1 => s[i - 1] # s[i]
  /\ i + n <= Len(s) => s[i + n] # s[i]

InTurn(w, at) == \A j, k \in 1 .. Len(w) : j < k => at[j] < at[k]

Past(s, w, at) ==
  /\ at \in [1 .. Len(w) -> 1 .. Len(s)]
  /\ InTurn(w, at)
  /\ \A k \in 1 .. Len(w) : \E n \in 1 .. Len(s) :
       at[k] + n <= Len(s) /\ Blk(s, at[k], n) /\ w[k] = Rec(s[at[k]], n)
  /\ \A i, n \in 1 .. Len(s) :
       i + n <= Len(s) /\ Blk(s, i, n) /\ Count(n) > 0 =>
         \E k \in 1 .. Len(w) : at[k] = i

Sounding(s) == Len(s) > 0 /\ s[Len(s)] # NoMatch

Present(s, r) ==
  IF Sounding(s)
  THEN \E n \in 1 .. Len(s) :
         Blk(s, Len(s) - n + 1, n) /\ r = Rec(s[Len(s)], n)
  ELSE r = NoRun

Whole(s, w, at) ==
  /\ at \in [1 .. Len(w) -> 1 .. Len(s)]
  /\ InTurn(w, at)
  /\ \A k \in 1 .. Len(w) : \E n \in 1 .. Len(s) :
       Blk(s, at[k], n) /\ w[k] = Rec(s[at[k]], n)
  /\ \A i, n \in 1 .. Len(s) : Blk(s, i, n) /\ Count(n) > 0 =>
       \E k \in 1 .. Len(w) : at[k] = i

Closed(w, r) == IF r.frames > 0 THEN Append(w, r) ELSE w

LEMMA AppendIs ==
  ASSUME NEW S, NEW s \in Seq(S), NEW e \in S, NEW t, t = Append(s, e)
  PROVE  /\ t \in Seq(S) /\ Len(s) \in Nat /\ Len(t) = Len(s) + 1
         /\ \A i \in 1 .. Len(s) : t[i] = s[i]
         /\ t[Len(s) + 1] = e
OBVIOUS

(* Two blocks that end with the sequence are one.                           *)
LEMMA LastBlock ==
  ASSUME NEW s \in Seq(Half), NEW n \in 1 .. Len(s), NEW m \in 1 .. Len(s),
         Blk(s, Len(s) - n + 1, n), Blk(s, Len(s) - m + 1, m)
  PROVE  n = m
<1>0. Len(s) \in Nat
  OBVIOUS
<1>1. ASSUME NEW a \in 1 .. Len(s), NEW b \in 1 .. Len(s), a < b,
             Blk(s, Len(s) - a + 1, a), Blk(s, Len(s) - b + 1, b)
      PROVE  FALSE
  <2>0. Len(s) - a + 1 \in Int /\ Len(s) - b + 1 \in Int
    BY <1>0
  <2>1. PICK i \in Int, j \in Int : i = Len(s) - a + 1 /\ j = Len(s) - b + 1
    BY <2>0, Zenon
  <2>2. /\ i > 1 /\ j < i /\ j + b - 1 = Len(s)
        /\ i - 1 \in j .. j + b - 1 /\ i \in j .. j + b - 1
    BY <1>0, <1>1, <2>1
  <2>3. s[i - 1] = s[j] /\ s[i] = s[j]
    BY <1>1, <2>1, <2>2 DEF Blk
  <2> QED
    BY <1>1, <2>1, <2>2, <2>3 DEF Blk
<1> QED
  BY <1>0, <1>1

(* A block that has ended stays, and no block within s is new.              *)
LEMMA EndedBlock ==
  ASSUME NEW s \in Seq(Half), NEW h \in Half, NEW t, t = Append(s, h),
         NEW i \in 1 .. Len(s), NEW n \in 1 .. Len(s), i + n <= Len(s)
  PROVE  Blk(t, i, n) <=> Blk(s, i, n)
<1>1. /\ Len(s) \in Nat /\ Len(t) = Len(s) + 1
      /\ \A j \in 1 .. Len(s) : t[j] = s[j]
  BY AppendIs
<1>2. t[i] = s[i] /\ t[i + n] = s[i + n]
  BY <1>1
<1>3. \A j \in i .. i + n - 1 : t[j] = s[j]
  BY <1>1
<1>4. i > 1 => t[i - 1] = s[i - 1]
  BY <1>1
<1> QED
  BY <1>1, <1>2, <1>3, <1>4 DEF Blk

(* The block that ends with s is ended by a half of another watermark.      *)
LEMMA EndingBlock ==
  ASSUME NEW s \in Seq(Half), NEW h \in Half, NEW t, t = Append(s, h),
         NEW i \in 1 .. Len(s), NEW n \in 1 .. Len(s), i + n = Len(s) + 1
  PROVE  Blk(t, i, n) <=> Blk(s, i, n) /\ h # s[Len(s)]
<1>1. /\ Len(s) \in Nat /\ Len(t) = Len(s) + 1 /\ t[Len(s) + 1] = h
      /\ \A j \in 1 .. Len(s) : t[j] = s[j]
  BY AppendIs
<1>2. t[i] = s[i] /\ t[i + n] = h
  BY <1>1
<1>3. \A j \in i .. i + n - 1 : t[j] = s[j]
  BY <1>1
<1>4. i > 1 => t[i - 1] = s[i - 1]
  BY <1>1
<1>5. Len(s) \in i .. i + n - 1 /\ i + n - 1 <= Len(s) /\ i + n <= Len(t)
      /\ ~(i + n <= Len(s))
  BY <1>1
<1>6. ASSUME Blk(t, i, n) PROVE Blk(s, i, n) /\ h # s[Len(s)]
  <2>1. /\ s[i] # NoMatch /\ \A j \in i .. i + n - 1 : s[j] = s[i]
        /\ i > 1 => s[i - 1] # s[i]
        /\ h # s[i]
    BY <1>2, <1>3, <1>4, <1>5, <1>6 DEF Blk
  <2> QED
    BY <1>5, <2>1 DEF Blk
<1>7. ASSUME Blk(s, i, n), h # s[Len(s)] PROVE Blk(t, i, n)
  <2>1. s[Len(s)] = s[i]
    BY <1>5, <1>7 DEF Blk
  <2> QED
    BY <1>1, <1>2, <1>3, <1>4, <1>5, <1>7, <2>1 DEF Blk
<1> QED
  BY <1>6, <1>7

(* One more half of the watermark heard last, or the first after silence.   *)
LEMMA GrowingBlock ==
  ASSUME NEW s \in Seq(Half), NEW h \in Half, h # NoMatch, NEW t, t = Append(s, h),
         Sounding(s), h = s[Len(s)],
         NEW n \in 1 .. Len(s), Blk(s, Len(s) - n + 1, n)
  PROVE  Blk(t, Len(t) - (n + 1) + 1, n + 1)
<1>1. /\ Len(s) \in Nat /\ Len(t) = Len(s) + 1 /\ t[Len(s) + 1] = h
      /\ \A j \in 1 .. Len(s) : t[j] = s[j]
  BY AppendIs
<1>2. PICK i \in 1 .. Len(s) : i = Len(s) - n + 1
  BY <1>1
<1>3. /\ Len(t) - (n + 1) + 1 = i /\ i + n = Len(t) /\ Len(s) \in i .. i + n - 1
      /\ i + (n + 1) - 1 = Len(t)
  BY <1>1, <1>2
<1>4. t[i] = s[i] /\ s[Len(s)] = s[i] /\ t[Len(t)] = h
  BY <1>1, <1>2, <1>3 DEF Blk
<1>5. \A j \in i .. i + (n + 1) - 1 : t[j] = t[i]
  <2> SUFFICES ASSUME NEW j \in i .. Len(t) PROVE t[j] = t[i]
    BY <1>3
  <2>1. CASE j = Len(t)
    BY <1>4, <2>1
  <2>2. CASE j # Len(t)
    <3>1. j \in i .. i + n - 1 /\ j \in 1 .. Len(s)
      BY <1>1, <1>3, <2>2
    <3> QED
      BY <1>1, <1>2, <1>4, <3>1 DEF Blk
  <2> QED
    BY <2>1, <2>2
<1>6. i > 1 => t[i - 1] # t[i]
  BY <1>1, <1>2, <1>4 DEF Blk
<1>7. ~(i + (n + 1) <= Len(t)) /\ i + (n + 1) - 1 <= Len(t)
  BY <1>1, <1>2, <1>3
<1>8. t[i] # NoMatch
  BY <1>4
<1>9. Blk(t, i, n + 1)
  BY <1>5, <1>6, <1>7, <1>8 DEF Blk
<1> QED
  BY <1>3, <1>9

LEMMA NewBlock ==
  ASSUME NEW s \in Seq(Half), NEW h \in Half, h # NoMatch, NEW t, t = Append(s, h),
         Sounding(s) => h # s[Len(s)]
  PROVE  Blk(t, Len(t), 1) /\ Sounding(t)
<1>1. /\ Len(s) \in Nat /\ Len(t) = Len(s) + 1 /\ t[Len(s) + 1] = h
      /\ \A j \in 1 .. Len(s) : t[j] = s[j]
  BY AppendIs
<1>2. Len(t) > 1 => t[Len(t) - 1] # h
  <2> SUFFICES ASSUME Len(t) > 1 PROVE t[Len(t) - 1] # h
    OBVIOUS
  <2>1. Len(s) > 0 /\ t[Len(t) - 1] = s[Len(s)]
    BY <1>1
  <2> QED
    BY <2>1 DEF Sounding
<1> QED
  BY <1>1, <1>2 DEF Blk, Sounding

(* The open run, if it has frames, joins the runs written.                  *)
LEMMA Closing ==
  ASSUME NEW s \in Seq(Half), NEW w \in Seq(Kept), NEW r \in Run, NEW at,
         Past(s, w, at), Present(s, r), r.frames > 0 => r \in Kept
  PROVE  \E bt : Whole(s, Closed(w, r), bt)
<1>0. Len(s) \in Nat /\ Len(w) \in Nat /\ r.frames \in Nat
  BY Sizes DEF Run
<1>1. \A i, n \in 1 .. Len(s) :
        Blk(s, i, n) => i + n <= Len(s) \/ (i + n = Len(s) + 1 /\ i = Len(s) - n + 1)
  BY <1>0 DEF Blk
<1>2. CASE r.frames > 0
  <2>1. Sounding(s)
    BY <1>2 DEF Present, NoRun
  <2>2. PICK n \in 1 .. Len(s) :
          Blk(s, Len(s) - n + 1, n) /\ r = Rec(s[Len(s)], n)
    BY <2>1 DEF Present
  <2>3. PICK e \in 1 .. Len(s) : e = Len(s) - n + 1
    BY <1>0, <2>2
  <2>4. Blk(s, e, n) /\ e + n = Len(s) + 1 /\ Len(s) \in e .. e + n - 1
    BY <1>0, <2>2, <2>3
  <2>5. r = Rec(s[e], n)
    <3>1. s[Len(s)] = s[e]
      BY <2>4 DEF Blk
    <3> QED
      BY <2>2, <3>1
  <2>6. PICK v : v = Append(w, r)
    OBVIOUS
  <2>7. /\ Len(v) = Len(w) + 1 /\ v[Len(v)] = r
        /\ \A k \in 1 .. Len(w) : v[k] = w[k]
    BY <1>2, <2>6, AppendIs
  <2> DEFINE bt == [k \in 1 .. Len(v) |-> IF k <= Len(w) THEN at[k] ELSE e]
  <2>8. /\ bt \in [1 .. Len(v) -> 1 .. Len(s)]
        /\ bt[Len(v)] = e /\ \A k \in 1 .. Len(w) : bt[k] = at[k]
    <3>1. at \in [1 .. Len(w) -> 1 .. Len(s)]
      BY DEF Past
    <3>2. \A k \in 1 .. Len(v) : k <= Len(w) => k \in 1 .. Len(w)
      BY <1>0, <2>7
    <3>3. Len(v) \in 1 .. Len(v) /\ ~(Len(v) <= Len(w))
      BY <1>0, <2>7
    <3>4. \A k \in 1 .. Len(w) : k \in 1 .. Len(v) /\ k <= Len(w)
      BY <1>0, <2>7
    <3> QED
      BY <2>3, <3>1, <3>2, <3>3, <3>4
  <2> HIDE DEF bt
  <2>9. \A k \in 1 .. Len(w) : at[k] < e
    <3> SUFFICES ASSUME NEW k \in 1 .. Len(w), ~(at[k] < e) PROVE FALSE
      BY <2>3
    <3>1. PICK m \in 1 .. Len(s) : at[k] + m <= Len(s) /\ Blk(s, at[k], m)
      BY DEF Past
    <3>2. PICK i \in 1 .. Len(s) : i = at[k]
      BY DEF Past
    <3>3. i \in e .. e + n - 1 /\ i + m \in e .. e + n - 1
      BY <1>0, <2>3, <2>4, <3>1, <3>2
    <3>4. s[i] = s[e] /\ s[i + m] = s[e]
      BY <2>4, <3>3 DEF Blk
    <3> QED
      BY <3>1, <3>2, <3>4 DEF Blk
  <2>10. InTurn(v, bt)
    <3> SUFFICES ASSUME NEW j \in 1 .. Len(v), NEW k \in 1 .. Len(v), j < k
                 PROVE  bt[j] < bt[k]
      BY DEF InTurn
    <3>1. j \in 1 .. Len(w)
      BY <1>0, <2>7
    <3>2. CASE k = Len(v)
      BY <2>8, <2>9, <3>1, <3>2
    <3>3. CASE k # Len(v)
      <4>1. k \in 1 .. Len(w)
        BY <1>0, <2>7, <3>3
      <4>2. at[j] < at[k]
        BY <3>1, <4>1 DEF Past, InTurn
      <4> QED
        BY <2>8, <3>1, <4>1, <4>2
    <3> QED
      BY <3>2, <3>3
  <2>11. \A k \in 1 .. Len(v) : \E m \in 1 .. Len(s) :
           Blk(s, bt[k], m) /\ v[k] = Rec(s[bt[k]], m)
    <3> SUFFICES ASSUME NEW k \in 1 .. Len(v)
                 PROVE  \E m \in 1 .. Len(s) : Blk(s, bt[k], m) /\ v[k] = Rec(s[bt[k]], m)
      OBVIOUS
    <3>1. CASE k = Len(v)
      BY <2>4, <2>5, <2>7, <2>8, <3>1
    <3>2. CASE k # Len(v)
      <4>1. k \in 1 .. Len(w)
        BY <1>0, <2>7, <3>2
      <4>2. PICK m \in 1 .. Len(s) : Blk(s, at[k], m) /\ w[k] = Rec(s[at[k]], m)
        BY <4>1 DEF Past
      <4> QED
        BY <2>7, <2>8, <4>1, <4>2
    <3> QED
      BY <3>1, <3>2
  <2>12. \A i, m \in 1 .. Len(s) : Blk(s, i, m) /\ Count(m) > 0 =>
           \E k \in 1 .. Len(v) : bt[k] = i
    <3> SUFFICES ASSUME NEW i \in 1 .. Len(s), NEW m \in 1 .. Len(s),
                        Blk(s, i, m), Count(m) > 0
                 PROVE  \E k \in 1 .. Len(v) : bt[k] = i
      OBVIOUS
    <3>1. CASE i + m <= Len(s)
      <4>1. PICK k \in 1 .. Len(w) : at[k] = i
        BY <3>1 DEF Past
      <4>2. k \in 1 .. Len(v)
        BY <1>0, <2>7
      <4> QED
        BY <2>8, <4>1, <4>2
    <3>2. CASE ~(i + m <= Len(s))
      <4>1. i = Len(s) - m + 1
        BY <1>1, <3>2
      <4>2. m = n
        BY <2>2, <4>1, LastBlock
      <4>3. i = e /\ Len(v) \in 1 .. Len(v)
        BY <1>0, <2>3, <2>7, <4>1, <4>2
      <4> QED
        BY <2>8, <4>3
    <3> QED
      BY <3>1, <3>2
  <2>13. Whole(s, v, bt)
    BY <2>8, <2>10, <2>11, <2>12 DEF Whole
  <2> QED
    BY <1>2, <2>6, <2>13 DEF Closed
<1>3. CASE ~(r.frames > 0)
  <2>1. \A i, n \in 1 .. Len(s) : Blk(s, i, n) /\ Count(n) > 0 => i + n <= Len(s)
    <3> SUFFICES ASSUME NEW i \in 1 .. Len(s), NEW n \in 1 .. Len(s),
                        Blk(s, i, n), Count(n) > 0, ~(i + n <= Len(s))
                 PROVE  FALSE
      BY <1>0
    <3>1. i = Len(s) - n + 1 /\ i + n = Len(s) + 1
      BY <1>1
    <3>2. s[Len(s)] = s[i] /\ s[i] # NoMatch
      <4>1. Len(s) \in i .. i + n - 1
        BY <1>0, <3>1
      <4> QED
        BY <4>1 DEF Blk
    <3>3. Sounding(s)
      BY <1>0, <3>2 DEF Sounding
    <3>4. PICK m \in 1 .. Len(s) :
            Blk(s, Len(s) - m + 1, m) /\ r = Rec(s[Len(s)], m)
      BY <3>3 DEF Present
    <3>5. m = n
      BY <3>1, <3>4, LastBlock
    <3> QED
      BY <1>3, <3>4, <3>5 DEF Rec
  <2>2. Whole(s, w, at)
    <3>1. \A k \in 1 .. Len(w) : \E n \in 1 .. Len(s) :
            Blk(s, at[k], n) /\ w[k] = Rec(s[at[k]], n)
      BY DEF Past
    <3>2. \A i, n \in 1 .. Len(s) : Blk(s, i, n) /\ Count(n) > 0 =>
            \E k \in 1 .. Len(w) : at[k] = i
      BY <2>1 DEF Past
    <3> QED
      BY <3>1, <3>2 DEF Whole, Past
  <2> QED
    BY <1>3, <2>2 DEF Closed
<1> QED
  BY <1>2, <1>3

(* A half of another watermark, or of none, ends the block at the end.      *)
LEMMA Ended ==
  ASSUME NEW s \in Seq(Half), NEW v \in Seq(Kept), NEW bt, Whole(s, v, bt),
         NEW h \in Half, Sounding(s) => h # s[Len(s)], NEW t, t = Append(s, h)
  PROVE  Past(t, v, bt)
<1>0. /\ Len(s) \in Nat /\ Len(t) = Len(s) + 1 /\ Len(v) \in Nat
      /\ \A j \in 1 .. Len(s) : t[j] = s[j] /\ j \in 1 .. Len(t)
  BY AppendIs
<1>1. bt \in [1 .. Len(v) -> 1 .. Len(s)] /\ InTurn(v, bt)
  BY DEF Whole
<1>2. bt \in [1 .. Len(v) -> 1 .. Len(t)]
  BY <1>0, <1>1
<1>3. ASSUME NEW i \in 1 .. Len(s), NEW n \in 1 .. Len(s)
      PROVE  /\ Blk(s, i, n) => i + n <= Len(t) /\ Blk(t, i, n)
             /\ i + n <= Len(t) /\ Blk(t, i, n) => Blk(s, i, n)
  <2>1. CASE i + n <= Len(s)
    <3>1. Blk(t, i, n) <=> Blk(s, i, n)
      BY <2>1, EndedBlock
    <3>2. i + n <= Len(t)
      BY <1>0, <2>1
    <3> QED
      BY <3>1, <3>2, Zenon
  <2>2. CASE i + n = Len(s) + 1
    <3>1. Blk(s, i, n) => Sounding(s)
      <4>1. Len(s) \in i .. i + n - 1 /\ Len(s) > 0
        BY <1>0, <2>2
      <4> QED
        BY <4>1 DEF Blk, Sounding
    <3>2. Blk(t, i, n) <=> Blk(s, i, n) /\ h # s[Len(s)]
      BY <2>2, EndingBlock
    <3>3. i + n <= Len(t)
      BY <1>0, <2>2
    <3> QED
      BY <3>1, <3>2, <3>3, Zenon
  <2>3. CASE i + n > Len(s) + 1
    <3>1. ~(i + n <= Len(t)) /\ ~(i + n - 1 <= Len(s))
      BY <1>0, <2>3
    <3>2. ~Blk(s, i, n)
      BY <3>1 DEF Blk
    <3> QED
      BY <3>1, <3>2, Zenon
  <2>4. i + n <= Len(s) \/ i + n = Len(s) + 1 \/ i + n > Len(s) + 1
    <3>1. PICK l \in Nat : l = Len(s)
      BY <1>0
    <3>2. i \in Int /\ n \in Int
      OBVIOUS
    <3>3. i + n <= l \/ i + n = l + 1 \/ i + n > l + 1
      BY <3>2
    <3> QED
      BY <3>1, <3>3
  <2> QED
    BY <2>1, <2>2, <2>3, <2>4, Zenon
<1>4. \A k \in 1 .. Len(v) : \E n \in 1 .. Len(t) :
        bt[k] + n <= Len(t) /\ Blk(t, bt[k], n) /\ v[k] = Rec(t[bt[k]], n)
  <2> SUFFICES ASSUME NEW k \in 1 .. Len(v)
               PROVE  \E n \in 1 .. Len(t) :
                        bt[k] + n <= Len(t) /\ Blk(t, bt[k], n) /\ v[k] = Rec(t[bt[k]], n)
    OBVIOUS
  <2>1. PICK n \in 1 .. Len(s) : Blk(s, bt[k], n) /\ v[k] = Rec(s[bt[k]], n)
    BY DEF Whole
  <2>2. bt[k] \in 1 .. Len(s)
    BY <1>1
  <2>3. bt[k] + n <= Len(t) /\ Blk(t, bt[k], n)
    BY <1>3, <2>1, <2>2
  <2>4. t[bt[k]] = s[bt[k]] /\ n \in 1 .. Len(t)
    BY <1>0, <2>1, <2>2
  <2> QED
    BY <2>1, <2>3, <2>4
<1>5. \A i, n \in 1 .. Len(t) : i + n <= Len(t) /\ Blk(t, i, n) /\ Count(n) > 0 =>
        \E k \in 1 .. Len(v) : bt[k] = i
  <2> SUFFICES ASSUME NEW i \in 1 .. Len(t), NEW n \in 1 .. Len(t),
                      i + n <= Len(t), Blk(t, i, n), Count(n) > 0
               PROVE  \E k \in 1 .. Len(v) : bt[k] = i
    OBVIOUS
  <2>1. i \in 1 .. Len(s) /\ n \in 1 .. Len(s)
    BY <1>0
  <2>2. Blk(s, i, n)
    BY <1>3, <2>1
  <2> QED
    BY <2>1, <2>2 DEF Whole
<1> QED
  BY <1>1, <1>2, <1>4, <1>5 DEF Past

(* A half of the same watermark, or the first after silence, ends none.     *)
LEMMA Continued ==
  ASSUME NEW s \in Seq(Half), NEW w \in Seq(Kept), NEW at, Past(s, w, at),
         NEW h \in Half, Sounding(s) => h = s[Len(s)], NEW t, t = Append(s, h)
  PROVE  Past(t, w, at)
<1>0. /\ Len(s) \in Nat /\ Len(t) = Len(s) + 1 /\ Len(w) \in Nat
      /\ \A j \in 1 .. Len(s) : t[j] = s[j] /\ j \in 1 .. Len(t)
  BY AppendIs
<1>1. at \in [1 .. Len(w) -> 1 .. Len(s)] /\ InTurn(w, at)
  BY DEF Past
<1>2. at \in [1 .. Len(w) -> 1 .. Len(t)]
  BY <1>0, <1>1
<1>3. \A k \in 1 .. Len(w) : \E n \in 1 .. Len(t) :
        at[k] + n <= Len(t) /\ Blk(t, at[k], n) /\ w[k] = Rec(t[at[k]], n)
  <2> SUFFICES ASSUME NEW k \in 1 .. Len(w)
               PROVE  \E n \in 1 .. Len(t) :
                        at[k] + n <= Len(t) /\ Blk(t, at[k], n) /\ w[k] = Rec(t[at[k]], n)
    OBVIOUS
  <2>1. PICK n \in 1 .. Len(s) :
          at[k] + n <= Len(s) /\ Blk(s, at[k], n) /\ w[k] = Rec(s[at[k]], n)
    BY DEF Past
  <2>2. at[k] \in 1 .. Len(s)
    BY <1>1
  <2>3. Blk(t, at[k], n)
    BY <2>1, <2>2, EndedBlock
  <2>4. t[at[k]] = s[at[k]] /\ n \in 1 .. Len(t) /\ at[k] + n <= Len(t)
    BY <1>0, <2>1, <2>2
  <2> QED
    BY <2>1, <2>3, <2>4
<1>4. \A i, n \in 1 .. Len(t) : i + n <= Len(t) /\ Blk(t, i, n) /\ Count(n) > 0 =>
        \E k \in 1 .. Len(w) : at[k] = i
  <2> SUFFICES ASSUME NEW i \in 1 .. Len(t), NEW n \in 1 .. Len(t),
                      i + n <= Len(t), Blk(t, i, n), Count(n) > 0
               PROVE  \E k \in 1 .. Len(w) : at[k] = i
    OBVIOUS
  <2>1. i \in 1 .. Len(s) /\ n \in 1 .. Len(s)
    BY <1>0
  <2>2. CASE i + n <= Len(s)
    <3>1. Blk(s, i, n)
      BY <2>1, <2>2, EndedBlock
    <3> QED
      BY <2>1, <2>2, <3>1 DEF Past
  <2>3. CASE ~(i + n <= Len(s))
    <3>1. i + n = Len(s) + 1 /\ Len(s) \in i .. i + n - 1 /\ Len(s) > 0
      BY <1>0, <2>1, <2>3
    <3>2. Blk(s, i, n) /\ h # s[Len(s)]
      BY <2>1, <3>1, EndingBlock
    <3>3. Sounding(s)
      BY <3>1, <3>2 DEF Blk, Sounding
    <3> QED
      BY <3>2, <3>3
  <2> QED
    BY <2>2, <2>3
<1> QED
  BY <1>1, <1>2, <1>3, <1>4 DEF Past

(* What was heard and written, and the run still open.                      *)
HInv == (\E at : Past(heard, written, at)) /\ Present(heard, run)

LEMMA Nothing ==
  /\ \E at : Past(<<>>, <<>>, at)
  /\ Present(<<>>, NoRun)
<1> DEFINE at == [k \in 1 .. 0 |-> k]
<1>1. Len(<<>>) = 0 /\ 1 .. 0 = {} /\ at \in [1 .. 0 -> 1 .. 0]
  OBVIOUS
<1>2. Past(<<>>, <<>>, at)
  BY <1>1 DEF Past, InTurn
<1>3. Present(<<>>, NoRun)
  BY <1>1 DEF Present, Sounding
<1> QED
  BY <1>2, <1>3

LEMMA HalfHInv ==
  ASSUME TInv, HInv, NEW h \in Half, heard' = Append(heard, h),
         Continue(h) \/ Turn(h) \/ Silence(h)
  PROVE  HInv'
<1>0. /\ heard \in Seq(Half) /\ written \in Seq(Kept) /\ run \in Run
      /\ run.frames \in Nat
      /\ run.frames > 0 => run \in Kept
  BY Sizes DEF TInv, PastType, RunType, Run, Kept
<1>1. /\ heard' \in Seq(Half) /\ Len(heard) \in Nat /\ Len(heard') = Len(heard) + 1
      /\ heard'[Len(heard')] = h
  BY <1>0, AppendIs
<1>2. PICK at : Past(heard, written, at)
  BY DEF HInv
<1>3. Present(heard, run)
  BY DEF HInv
<1>4. Sounding(heard) => run.id = heard[Len(heard)]
  BY <1>3 DEF Present, Rec
<1>5. Sounding(heard') <=> h # NoMatch
  BY <1>1 DEF Sounding
<1>6. CASE Continue(h)
  <2>1. /\ h # NoMatch /\ h = run.id /\ written' = written
        /\ run' = [run EXCEPT !.frames = (@ + Mul) % FrameMod]
    BY <1>6 DEF Continue
  <2>2. Past(heard', written', at)
    BY <1>0, <1>2, <1>4, <2>1, Continued
  <2>3. run' = [id |-> h, frames |-> (run.frames + Mul) % FrameMod]
    BY <1>0, <2>1 DEF Run
  <2>4. CASE Sounding(heard)
    <3>1. PICK n \in 1 .. Len(heard) :
            Blk(heard, Len(heard) - n + 1, n) /\ run = Rec(heard[Len(heard)], n)
      BY <1>3, <2>4 DEF Present
    <3>2. Blk(heard', Len(heard') - (n + 1) + 1, n + 1)
      BY <1>0, <1>4, <2>1, <2>4, <3>1, GrowingBlock
    <3>3. (Count(n) + Mul) % FrameMod = Count(n + 1) /\ run.frames = Count(n)
      BY <3>1, Counts DEF Rec
    <3>4. run' = Rec(h, n + 1)
      BY <2>3, <3>3 DEF Rec
    <3>5. n + 1 \in 1 .. Len(heard')
      BY <1>1, <3>1
    <3>6. Present(heard', run')
      BY <1>1, <1>5, <2>1, <3>2, <3>4, <3>5 DEF Present
    <3> QED
      BY <2>2, <3>6 DEF HInv
  <2>5. CASE ~Sounding(heard)
    <3>1. Blk(heard', Len(heard'), 1)
      BY <1>0, <2>1, <2>5, NewBlock
    <3>2. run = NoRun
      BY <1>3, <2>5 DEF Present
    <3>3. (0 + Mul) % FrameMod = Mul
      <4>1. Mul \in 0 .. FrameMod - 1 /\ FrameMod * 0 + Mul = 0 + Mul
        BY Sizes
      <4> QED
        BY <4>1, Sizes, ModUnique
    <3>4. run' = Rec(h, 1)
      BY <2>3, <3>2, <3>3, Counts DEF Rec, NoRun
    <3>5. 1 \in 1 .. Len(heard') /\ Len(heard') - 1 + 1 = Len(heard')
      BY <1>1
    <3>6. Present(heard', run')
      BY <1>1, <1>5, <2>1, <3>1, <3>4, <3>5 DEF Present
    <3> QED
      BY <2>2, <3>6 DEF HInv
  <2> QED
    BY <2>4, <2>5
<1>7. ASSUME Flush, Sounding(heard) => h # heard[Len(heard)]
      PROVE  \E bt : Past(heard', written', bt)
  <2>1. written' = Closed(written, run) /\ Closed(written, run) \in Seq(Kept)
    BY <1>0, <1>7 DEF Flush, Closed
  <2>2. PICK bt : Whole(heard, Closed(written, run), bt)
    BY <1>0, <1>2, <1>3, Closing
  <2>3. Past(heard', Closed(written, run), bt)
    BY <1>0, <1>7, <2>1, <2>2, Ended
  <2> QED
    BY <2>1, <2>3
<1>8. CASE Turn(h)
  <2>1. Flush /\ h # NoMatch /\ h # run.id /\ run' = [id |-> h, frames |-> Mul]
    BY <1>8 DEF Turn
  <2>2. \E bt : Past(heard', written', bt)
    BY <1>4, <1>7, <2>1
  <2>3. Blk(heard', Len(heard'), 1)
    BY <1>0, <1>4, <2>1, NewBlock
  <2>4. run' = Rec(h, 1)
    BY <2>1, Counts DEF Rec
  <2>5. 1 \in 1 .. Len(heard') /\ Len(heard') - 1 + 1 = Len(heard')
    BY <1>1
  <2>6. Present(heard', run')
    BY <1>1, <1>5, <2>1, <2>3, <2>4, <2>5 DEF Present
  <2> QED
    BY <2>2, <2>6 DEF HInv
<1>9. CASE Silence(h)
  <2>1. Flush /\ h = NoMatch /\ run' = NoRun
    BY <1>9 DEF Silence
  <2>2. \E bt : Past(heard', written', bt)
    BY <1>7, <2>1 DEF Sounding
  <2>3. Present(heard', run')
    BY <1>5, <2>1 DEF Present
  <2> QED
    BY <2>2, <2>3 DEF HInv
<1> QED
  BY <1>6, <1>8, <1>9

LEMMA NextHInv ==
  ASSUME TInv, HInv, [Next]_vars
  PROVE  HInv'
<1>1. CASE UNCHANGED <<run, heard, written>>
  BY <1>1 DEF HInv
<1>2. CASE Handle_Water
  <2>1. msg \in Message
    BY <1>2 DEF TInv, PlaceType, Handle_Water, HandleHalf
  <2>2. msg.match[1] \in Half /\ msg.match[2] \in Half
    BY <2>1 DEF Message
  <2>3. CASE HandleHalf("first", "second", msg.match[1])
    <3>1. PICK h \in Half : h = msg.match[1]
      BY <2>2
    <3>2. /\ heard' = Append(heard, h)
          /\ Continue(h) \/ Turn(h) \/ Silence(h)
      BY <2>3, <3>1 DEF HandleHalf
    <3> QED
      BY <3>2, HalfHInv
  <2>4. CASE HandleHalf("second", "idle", msg.match[2])
    <3>1. PICK h \in Half : h = msg.match[2]
      BY <2>2
    <3>2. /\ heard' = Append(heard, h)
          /\ Continue(h) \/ Turn(h) \/ Silence(h)
      BY <2>4, <3>1 DEF HandleHalf
    <3> QED
      BY <3>2, HalfHInv
  <2> QED
    BY <1>2, <2>3, <2>4 DEF Handle_Water
<1>3. CASE PowerCycle
  <2>1. heard' = <<>> /\ written' = <<>> /\ run' = NoRun
    BY <1>3 DEF PowerCycle
  <2> QED
    BY <2>1, Nothing DEF HInv
<1>4. CASE \E a, b \in Pattern : Receive(a, b)
  BY <1>1, <1>4 DEF Receive
<1>5. CASE WriteWM \/ EraseWMPage \/ EraseWMNum \/ EraseRecord
  BY <1>1, <1>5 DEF WriteWM, EraseWMPage, EraseWMNum, EraseRecord
<1>6. CASE UNCHANGED vars
  BY <1>1, <1>6 DEF vars
<1> QED
  BY <1>2, <1>3, <1>4, <1>5, <1>6 DEF Next

LEMMA InvRecorded ==
  ASSUME TInv, HInv
  PROVE  RunsAreBlocks
<1>0. /\ heard \in Seq(Half) /\ written \in Seq(Kept) /\ run \in Run
      /\ run.frames \in Nat
      /\ run.frames > 0 => run \in Kept
  BY Sizes DEF TInv, PastType, RunType, Run, Kept
<1>1. PICK at : Past(heard, written, at)
  BY DEF HInv
<1>2. PICK bt : Whole(heard, Closed(written, run), bt)
  BY <1>0, <1>1, Closing DEF HInv
<1>3. Closed(written, run) = Runs /\ Runs \in Seq(Kept)
  BY <1>0 DEF Closed, Runs
<1>4. DOMAIN Runs = 1 .. Len(Runs) /\ DOMAIN heard = 1 .. Len(heard)
  BY <1>0, <1>3
<1>5. ASSUME NEW i, NEW n PROVE Blk(heard, i, n) <=> Block(i, n)
  BY DEF Blk, Block
<1>6. bt \in [DOMAIN Runs -> DOMAIN heard]
  BY <1>2, <1>3, <1>4 DEF Whole
<1>7. \A j, k \in DOMAIN Runs : j < k => bt[j] < bt[k]
  BY <1>2, <1>3, <1>4 DEF Whole, InTurn
<1>8. \A k \in DOMAIN Runs : \E n \in DOMAIN heard :
        /\ Block(bt[k], n)
        /\ Runs[k] = [id |-> heard[bt[k]], frames |-> (Mul * n) % FrameMod]
  BY <1>2, <1>3, <1>4, <1>5 DEF Whole, Rec, Count
<1>9. \A i, n \in DOMAIN heard : Block(i, n) /\ (Mul * n) % FrameMod > 0 =>
        \E k \in DOMAIN Runs : bt[k] = i
  BY <1>2, <1>3, <1>4, <1>5 DEF Whole, Count
<1> QED
  BY <1>6, <1>7, <1>8, <1>9, Zenon DEF RunsAreBlocks

(* However the halves fall into messages, and whatever is stored, erased or *)
(* cut short by a power failure between two of them, the runs handed to     *)
(* WriteRecord and the open one are the blocks of equal matching halves,    *)
(* one for one and in their order, with their frames modulo 2^16.           *)
THEOREM BlocksAreRecorded == Spec => []RunsAreBlocks
<1>1. Init => HInv
  BY Nothing DEF Init, HInv
<1>2. TInv /\ HInv /\ [Next]_vars => HInv'
  BY NextHInv
<1>3. TInv /\ HInv => RunsAreBlocks
  BY InvRecorded
<1> QED
  BY <1>1, <1>2, <1>3, InitTInv, NextTInv, PTL DEF Spec
=============================================================================
