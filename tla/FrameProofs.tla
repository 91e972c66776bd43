----------------------------- MODULE FrameProofs -----------------------------
(***************************************************************************)
(* Proofs about the geometry of a frame, for any detector, any width of the  *)
(* ints and any arguments.                                                  *)
(***************************************************************************)
EXTENDS Frame, TLAPS

(* Division and remainder by an unknown number: products are compared by    *)
(* these lemmas and by nothing else.                                        *)

LEMMA DivMod ==
  ASSUME NEW m \in Int, NEW d \in Nat \ {0}
  PROVE  m \div d \in Int /\ m % d \in 0..(d - 1) /\ m = d * (m \div d) + (m % d)
<1>1. m \div d \in Int
  OBVIOUS
<1>2. m % d \in 0..(d - 1)
  OBVIOUS
<1>3. m = d * (m \div d) + (m % d)
  OBVIOUS
<1> QED BY <1>1, <1>2, <1>3

LEMMA DivUnique ==
  ASSUME NEW m \in Int, NEW d \in Nat \ {0}, NEW q \in Int, NEW r \in 0..(d - 1),
         m = d * q + r
  PROVE  m \div d = q /\ m % d = r
OBVIOUS

LEMMA TimesInt ==
  ASSUME NEW d \in Int, NEW q \in Int
  PROVE  d * q \in Int /\ d * (q + 1) = d * q + d /\ d * (q - 1) = d * q - d
OBVIOUS

LEMMA TimesMonotone ==
  ASSUME NEW d \in Nat, NEW q \in Int, NEW k \in Int, q <= k
  PROVE  d * q <= d * k
OBVIOUS

\* A multiple of d is at most m when it is at most the greatest one below m.
LEMMA Floor ==
  ASSUME NEW m \in Int, NEW d \in Nat \ {0}, NEW q \in Int
  PROVE  d * q <= m <=> q <= m \div d
<1>1. /\ m \div d \in Int /\ m % d \in 0..(d - 1) /\ m = d * (m \div d) + (m % d)
  BY DivMod
<1>2. d * q \in Int /\ d * (m \div d) \in Int /\ d * (m \div d + 1) = d * (m \div d) + d
      /\ d * (m \div d + 1) \in Int
  BY <1>1, TimesInt
<1>3. ASSUME q <= m \div d PROVE d * q <= m
  <2>1. d * q <= d * (m \div d)
    BY <1>1, <1>3, TimesMonotone
  <2> QED BY <1>1, <1>2, <2>1
<1>4. ASSUME ~(q <= m \div d) PROVE ~(d * q <= m)
  <2>1. m \div d + 1 <= q
    BY <1>1, <1>4
  <2>2. d * (m \div d + 1) <= d * q
    BY <1>1, <2>1, TimesMonotone
  <2> QED BY <1>1, <1>2, <2>2
<1> QED BY <1>3, <1>4

\* Whole bins: the last pixel lies in the last of them.
LEMMA WholeBins ==
  ASSUME NEW m \in Int, NEW d \in Nat \ {0}, m % d = 0
  PROVE  (m - 1) \div d + 1 = m \div d
<1>1. m \div d \in Int /\ m = d * (m \div d) + (m % d)
  BY DivMod
<1>2. d * (m \div d - 1) = d * (m \div d) - d /\ d * (m \div d) \in Int
  BY <1>1, TimesInt
<1>3. m - 1 = d * (m \div d - 1) + (d - 1) /\ d - 1 \in 0..(d - 1) /\ m - 1 \in Int
      /\ m \div d - 1 \in Int
  BY <1>1, <1>2
<1>4. (m - 1) \div d = m \div d - 1
  BY <1>3, DivUnique
<1> QED BY <1>1, <1>4

LEMMA WrapInt ==
  ASSUME NEW n \in Int
  PROVE  Wrap(n) \in CInt /\ (n \in CInt => Wrap(n) = n)
<1>1. Limit \in Nat /\ Limit # 0 /\ 2 * Limit \in Nat \ {0} /\ n + Limit \in Int
  BY FrameAssumption
<1>2. (n + Limit) % (2 * Limit) \in 0..(2 * Limit - 1)
  BY <1>1, DivMod
<1>3. Wrap(n) \in CInt
  BY <1>1, <1>2 DEF Wrap, CInt
<1>4. ASSUME n \in CInt PROVE Wrap(n) = n
  <2>1. n + Limit \in 0..(2 * Limit - 1) /\ 2 * Limit * 0 + (n + Limit) = n + Limit
    BY <1>1, <1>4 DEF CInt
  <2>2. (n + Limit) % (2 * Limit) = n + Limit
    BY <1>1, <2>1, DivUnique
  <2> QED BY <1>1, <2>2 DEF Wrap
<1> QED BY <1>3, <1>4

-----------------------------------------------------------------------------
(* One axis.                                                               *)

\* When the driver accepts the region, members and driver agree on its size.
LEMMA SizeAgrees ==
  ASSUME NEW a \in Args, NEW n \in 1..(Limit - 1),
         End(a, n) \in Int, Accepted(a, n)
  PROVE  /\ Start(a) = a.start /\ a.start \in 1..n
         /\ Size(a, n) = (End(a, n) - a.start + 1) \div Bin(a)
         /\ Size(a, n) \in 1..n
<1> DEFINE e == End(a, n)
           b == Bin(a)
           m == e - a.start + 1
<1>1. /\ Limit \in Nat /\ MaxBin \in Nat /\ n \in Nat /\ n < Limit
      /\ a.bin \in Int /\ a.start \in Int
  BY FrameAssumption DEF Args, CInt
<1>2. b \in Nat \ {0}
  BY <1>1 DEF Bin
<1>3. /\ 1 <= a.start /\ a.start <= e /\ e <= n /\ m % b = 0
  BY DEF Accepted, SetImage
<1>4. Start(a) = a.start /\ a.start \in 1..n
  BY <1>1, <1>3 DEF Start
<1> HIDE DEF e, b
<1>5. e \in Int /\ m \in 1..n /\ m \in Int /\ m - 1 = e - a.start /\ m - 1 \in 0..(n - 1)
  BY <1>1, <1>3 DEF e
<1>6. Size(a, n) = Wrap(Quotient(Wrap(m - 1), b) + 1)
  BY <1>4, <1>5 DEF Size, e, b
<1> HIDE DEF m
<1>7. Wrap(m - 1) = m - 1 /\ Quotient(m - 1, b) = (m - 1) \div b
  <2>1. m - 1 \in CInt /\ m - 1 \in Int /\ ~(m - 1 < 0)
    BY <1>1, <1>5 DEF CInt
  <2> QED BY <2>1, WrapInt DEF Quotient
<1>8. (m - 1) \div b + 1 = m \div b
  BY <1>2, <1>3, <1>5, WholeBins DEF m
<1>9. m \div b \in 1..n
  <2>1. m \div b \in Int /\ m = b * (m \div b)
    <3>1. m \div b \in Int /\ m = b * (m \div b) + (m % b)
      BY <1>2, <1>5, DivMod
    <3>2. b * (m \div b) \in Int
      BY <1>2, <3>1, TimesInt
    <3> QED BY <1>3, <3>1, <3>2 DEF m
  <2>2. m \div b >= 1
    <3>1. b * 0 = 0 /\ 0 \in Int
      BY <1>2
    <3>2. m \div b <= 0 => b * (m \div b) <= 0
      BY <1>2, <2>1, <3>1, TimesMonotone
    <3> QED BY <1>5, <2>1, <3>2
  <2>3. (m \div b) * 1 <= (m \div b) * b
    BY <1>2, <2>1, <2>2, TimesMonotone
  <2>4. (m \div b) * 1 = m \div b /\ (m \div b) * b = b * (m \div b)
    BY <1>2, <2>1
  <2> QED BY <1>1, <1>5, <2>1, <2>2, <2>3, <2>4
<1>10. Size(a, n) = m \div b
  <2>1. m \div b \in CInt /\ m \div b \in Int
    BY <1>1, <1>9 DEF CInt
  <2> QED BY <1>6, <1>7, <1>8, <2>1, WrapInt
<1> QED BY <1>4, <1>9, <1>10 DEF m, e, b

\* At least one bin, of a binning that the driver has, lies on the detector.
Fits(a, n) ==
  /\ a.bin \in 1..MaxBin /\ a.start \in 1..n
  /\ a.size >= 1 /\ Room(a, n) >= 1

\* The arguments are not negative where it matters, and nothing overflows.
Sane(a) == a.bin >= 0 /\ Start(a) + a.bin * a.size - 1 \in CInt

LEMMA LastSane ==
  ASSUME NEW a \in Args, Sane(a)
  PROVE  /\ a.bin \in Nat /\ a.start \in Int /\ a.size \in Int /\ Start(a) \in Int
         /\ a.bin * a.size \in Int
         /\ Last(a) = Start(a) + a.bin * a.size - 1 /\ Last(a) \in Int
<1>1. a.bin \in Nat /\ a.start \in Int /\ a.size \in Int /\ Limit \in Nat
  BY FrameAssumption DEF Args, CInt, Sane
<1>2. a.bin * a.size \in Int /\ Start(a) \in Int
  BY <1>1, TimesInt DEF Start
<1>3. Start(a) + a.bin * a.size - 1 \in Int
  BY <1>2
<1> QED BY <1>1, <1>2, <1>3, WrapInt DEF Last, Sane

LEMMA ZeroBinning ==
  ASSUME NEW a \in Args, Sane(a), NEW n \in 1..(Limit - 1)
  PROVE  DividesByZero(a, n) <=> a.bin = 0 /\ a.start > n + 1
<1>1. CASE a.bin = 0
  <2>1. n \in Nat /\ n >= 1
    BY FrameAssumption
  <2>2. a.bin * a.size = 0 /\ a.start \in Int /\ Start(a) \in Int
    BY <1>1, LastSane
  <2>3. Last(a) = Start(a) - 1
    BY <2>2, LastSane
  <2>4. Start(a) - 1 > n <=> a.start > n + 1
    BY <2>1, <2>2 DEF Start
  <2> QED BY <1>1, <2>3, <2>4 DEF DividesByZero
<1>2. CASE a.bin # 0
  BY <1>2 DEF DividesByZero
<1> QED BY <1>1, <1>2

\* What FRAME makes of one axis: all that was asked for if it fits, and the
\* bins there are room for otherwise.
LEMMA AcceptedFits ==
  ASSUME NEW a \in Args, Sane(a), NEW n \in 1..(Limit - 1), ~DividesByZero(a, n)
  PROVE  /\ End(a, n) \in Int
         /\ Accepted(a, n) <=> Fits(a, n)
         /\ Fits(a, n) =>
              (End(a, n) - a.start + 1) \div a.bin
                = IF a.size < Room(a, n) THEN a.size ELSE Room(a, n)
<1> DEFINE b == a.bin
           e == End(a, n)
           w == b * a.size
           l == n - a.start + 1
           k == Room(a, n)
<1>1. /\ n \in Nat /\ n >= 1 /\ MaxBin \in Nat /\ MaxBin >= 1
      /\ b \in Nat /\ a.start \in Int /\ a.size \in Int /\ w \in Int
      /\ Start(a) \in Int /\ Last(a) = Start(a) + w - 1 /\ Last(a) \in Int
  BY FrameAssumption, LastSane
<1>2. l \in Int /\ (l >= 1 <=> a.start <= n)
  BY <1>1
<1>3. CASE a.start < 1
  <2>1. End(a, n) \in Int
    <3>1. CASE Last(a) > n
      <4>1. b # 0 /\ b \in Nat \ {0} /\ Start(a) = 1 /\ ~(b < 0)
        BY <1>1, <1>3, <3>1 DEF DividesByZero, Start
      <4>2. n - Start(a) + 1 = n
        BY <1>1, <4>1
      <4>3. e = n - (n % b)
        BY <1>1, <3>1, <4>1, <4>2 DEF End, Remainder, Magnitude
      <4>4. n % b \in Int
        BY <1>1, <4>1, DivMod
      <4> QED BY <1>1, <4>3, <4>4
    <3>2. CASE ~(Last(a) > n)
      BY <1>1, <3>2 DEF End
    <3> QED BY <3>1, <3>2
  <2>2. ~Accepted(a, n) /\ ~Fits(a, n)
    BY <1>1, <1>3 DEF Accepted, SetImage, Fits
  <2> QED BY <2>1, <2>2
<1>4. CASE ~(a.start < 1) /\ b = 0
  <2>1. Start(a) = a.start /\ Last(a) = a.start - 1 /\ ~(Last(a) > n)
    BY <1>1, <1>4 DEF Start, DividesByZero
  <2>2. e = a.start - 1
    BY <2>1 DEF End
  <2>3. ~Accepted(a, n) /\ ~Fits(a, n)
    BY <1>1, <1>4, <2>2 DEF Accepted, SetImage, Fits
  <2> QED BY <1>1, <2>2, <2>3
<1>5. CASE ~(a.start < 1) /\ b # 0
  <2>1. /\ b \in Nat \ {0} /\ ~(b < 0) /\ Bin(a) = b /\ Start(a) = a.start /\ a.start >= 1
        /\ Last(a) = a.start + w - 1
    BY <1>1, <1>5 DEF Bin, Start
  <2>2. /\ k = l \div b /\ k \in Int /\ l % b \in 0..(b - 1) /\ l = b * k + (l % b)
        /\ b * k \in Int /\ l % b \in Int
    <3>1. k = l \div b
      BY DEF Room
    <3>2. l \div b \in Int /\ l % b \in 0..(b - 1) /\ l = b * (l \div b) + (l % b)
      BY <1>2, <2>1, DivMod
    <3> HIDE DEF k, l
    <3>3. b * k \in Int /\ l % b \in Int
      BY <2>1, <3>1, <3>2, TimesInt
    <3> QED BY <3>1, <3>2, <3>3
  <2>3. /\ w <= l <=> a.size <= k
        /\ w >= 1 <=> a.size >= 1
        /\ b * k >= 1 <=> k >= 1
        /\ k >= 1 => l >= 1
    <3> HIDE DEF k, l
    <3>1. w <= l <=> a.size <= k
      BY <1>1, <1>2, <2>1, <2>2, Floor
    <3>2. /\ b * 0 = 0 /\ b * 1 = b /\ 0 \in Int /\ 1 \in Int /\ b \in Nat /\ b >= 1
      BY <2>1
    <3>3. ASSUME NEW i \in Int PROVE b * i >= 1 <=> i >= 1
      <4>1. i >= 1 => b * 1 <= b * i
        BY <3>2, TimesMonotone
      <4>2. i <= 0 => b * i <= b * 0
        BY <3>2, TimesMonotone
      <4>3. b * i \in Int
        BY <3>2, TimesInt
      <4> QED BY <3>2, <4>1, <4>2, <4>3
    <3>4. k >= 1 => l >= 1
      BY <2>1, <2>2, <3>3
    <3> QED BY <1>1, <2>2, <3>1, <3>3, <3>4
  <2>4. Accepted(a, n) <=> /\ a.start <= e /\ e <= n /\ b <= MaxBin
                           /\ (e - a.start + 1) % b = 0
    BY <2>1 DEF Accepted, SetImage
  <2>5. Fits(a, n) <=> b <= MaxBin /\ a.start <= n /\ a.size >= 1 /\ k >= 1
    BY <1>1, <2>1 DEF Fits
  <2>6. CASE ~(Last(a) > n)
    <3>1. e = a.start + w - 1 /\ w <= l /\ e \in Int /\ e <= n
          /\ e - a.start + 1 = w
      BY <1>1, <2>1, <2>6 DEF End
    <3>2. w \div b = a.size /\ w % b = 0
      <4>1. w = b * a.size + 0 /\ 0 \in 0..(b - 1)
        BY <1>1, <2>1
      <4> QED BY <1>1, <2>1, <4>1, DivUnique
    <3> HIDE DEF k, l, w, e
    <3>3. a.start <= e <=> a.size >= 1
      BY <1>1, <2>3, <3>1
    <3>4. a.size >= 1 => k >= 1 /\ a.start <= n
      BY <1>1, <1>2, <2>2, <2>3, <3>1
    <3>5. Accepted(a, n) <=> Fits(a, n)
      BY <2>4, <2>5, <3>1, <3>2, <3>3, <3>4
    <3>6. (IF a.size < k THEN a.size ELSE k) = a.size
      <4>1. a.size <= k /\ a.size \in Int /\ k \in Int
        BY <1>1, <2>2, <2>3, <3>1
      <4> QED BY <4>1
    <3> QED BY <3>1, <3>2, <3>5, <3>6 DEF e, k
  <2>7. CASE Last(a) > n
    <3>1. ~(w <= l) /\ ~(a.size <= k)
      BY <1>1, <2>1, <2>3, <2>7
    <3>2. CASE a.start <= n + 1
      <4>1. e = n - (l % b)
        <5>1. ~(n - Start(a) + 1 < 0) /\ n - Start(a) + 1 = l
          BY <1>1, <2>1, <3>2
        <5> QED BY <2>1, <2>7, <5>1 DEF End, Remainder, Magnitude
      <4>2. e \in Int /\ e <= n /\ e - a.start + 1 = b * k
        <5>1. l = n - a.start + 1
          OBVIOUS
        <5>2. PICK r \in Nat : r = l % b
          BY <2>1, <2>2
        <5>3. PICK p \in Int : p = b * k
          BY <2>2
        <5> HIDE DEF k, l, e
        <5>4. e = n - r /\ l = p + r
          BY <2>2, <4>1, <5>2, <5>3
        <5>5. e \in Int /\ e <= n /\ e - a.start + 1 = p
          <6>1. n \in Nat /\ a.start \in Int
            BY <1>1
          <6> QED BY <5>1, <5>2, <5>3, <5>4, <6>1
        <5> QED BY <5>3, <5>5
      <4>3. (b * k) \div b = k /\ (b * k) % b = 0
        <5>1. b * k = b * k + 0 /\ 0 \in 0..(b - 1)
          BY <2>1, <2>2
        <5> QED BY <2>1, <2>2, <5>1, DivUnique
      <4> HIDE DEF k, l, w, e
      <4>4. a.start <= e <=> k >= 1
        BY <1>1, <2>2, <2>3, <4>2
      <4>5. k >= 1 => a.size >= 1 /\ a.start <= n
        BY <1>1, <1>2, <2>2, <2>3, <3>1
      <4>6. Accepted(a, n) <=> Fits(a, n)
        BY <2>4, <2>5, <4>2, <4>3, <4>4, <4>5
      <4>7. (IF a.size < k THEN a.size ELSE k) = k
        BY <1>1, <2>2, <3>1
      <4> QED BY <4>2, <4>3, <4>6, <4>7 DEF e, k
    <3>3. CASE ~(a.start <= n + 1)
      <4>1. n - Start(a) + 1 < 0 /\ -(n - Start(a) + 1) \in Int
        BY <1>1, <2>1, <3>3
      <4>2. (-(n - Start(a) + 1)) % b \in 0..(b - 1)
        BY <2>1, <4>1, DivMod
      <4>3. e = n + ((-(n - Start(a) + 1)) % b)
        <5>1. Remainder(n - Start(a) + 1, b) = -((-(n - Start(a) + 1)) % b)
          BY <2>1, <4>1 DEF Remainder, Magnitude
        <5>2. e = n - Remainder(n - Start(a) + 1, b)
          BY <2>7 DEF End
        <5> HIDE DEF e
        <5> QED BY <1>1, <2>1, <4>2, <5>1, <5>2
      <4>4. e \in Int
        BY <1>1, <2>1, <4>2, <4>3
      <4> HIDE DEF k, l, w, e
      <4>5. ~Accepted(a, n) /\ ~Fits(a, n)
        BY <1>1, <2>4, <2>5, <3>3, <4>4
      <4> QED BY <4>4, <4>5 DEF e
    <3> QED BY <3>2, <3>3
  <2> QED BY <2>6, <2>7
<1> QED BY <1>3, <1>4, <1>5

LEMMA EndInt ==
  ASSUME NEW a \in Args, NEW n \in 1..(Limit - 1), ~DividesByZero(a, n)
  PROVE  End(a, n) \in Int
<1>1. /\ n \in Nat /\ a.bin \in Int /\ a.start \in Int /\ a.size \in Int
      /\ Start(a) \in Int
  BY FrameAssumption DEF Args, CInt, Start
<1>2. Last(a) \in Int
  <2>1. a.bin * a.size \in Int
    BY <1>1, TimesInt
  <2>2. Start(a) + a.bin * a.size - 1 \in Int
    BY <1>1, <2>1
  <2> QED BY <2>2, WrapInt, FrameAssumption DEF Last, CInt
<1>3. CASE Last(a) > n
  <2> DEFINE m == n - Start(a) + 1
             d == Magnitude(a.bin)
  <2>1. d \in Nat \ {0} /\ m \in Int /\ -m \in Int
    BY <1>1, <1>3 DEF DividesByZero, Magnitude
  <2>2. m % d \in Int /\ (-m) % d \in Int
    <3> HIDE DEF m, d
    <3> QED BY <2>1, DivMod
  <2>3. Remainder(m, a.bin) = IF m < 0 THEN -((-m) % d) ELSE m % d
    BY DEF Remainder
  <2>4. End(a, n) = n - Remainder(m, a.bin)
    BY <1>3 DEF End
  <2> HIDE DEF m, d
  <2> QED BY <1>1, <2>2, <2>3, <2>4
<1>4. CASE ~(Last(a) > n)
  BY <1>2, <1>4 DEF End
<1> QED BY <1>3, <1>4

-----------------------------------------------------------------------------
(* The inductive invariant: the answer to the last FRAME tells what became   *)
(* of it, and after a success members and driver have the region.           *)

\* The number of the detector's pixels is an int.
SmallDetector == Detector["X"] * Detector["Y"] < Limit

Region(a, n) ==
  [bin |-> Bin(a), start |-> a.start, size |-> (End(a, n) - a.start + 1) \div Bin(a)]

Crashes(f) == \E x \in Axes : DividesByZero(f[x], Detector[x])
Succeeds(f) == ~Crashes(f) /\ \A x \in Axes : Accepted(f[x], Detector[x])

Answered ==
  /\ asked \in [Axes -> Args] /\ answer \in {"OK", "refused", "crash"}
  /\ answer = "crash" <=> Crashes(asked)
  /\ answer = "OK" <=> Succeeds(asked)
  /\ answer = "OK" => /\ frame = driver
                      /\ driver = [x \in Axes |-> Region(asked[x], Detector[x])]

FrameInv == Answered /\ ImageTruthful

LEMMA FullFrameFits ==
  /\ FullFrame \in [Axes -> Args] /\ ~Crashes(FullFrame) /\ Succeeds(FullFrame)
  /\ FullFrame = [x \in Axes |-> Region(FullFrame[x], Detector[x])]
<1>1. ASSUME NEW x \in Axes
      PROVE  /\ FullFrame[x] \in Args
             /\ ~DividesByZero(FullFrame[x], Detector[x])
             /\ Accepted(FullFrame[x], Detector[x])
             /\ FullFrame[x] = Region(FullFrame[x], Detector[x])
  <2> DEFINE n == Detector[x]
             a == [bin |-> 1, start |-> 1, size |-> n]
  <2>1. /\ Limit \in Nat /\ n \in 1..(Limit - 1) /\ n \in Nat /\ n < Limit /\ n >= 1
        /\ MaxBin \in Nat /\ MaxBin >= 1
    BY FrameAssumption
  <2>2. FullFrame[x] = a
    BY DEF FullFrame
  <2> HIDE DEF n
  <2>3. /\ a.bin = 1 /\ a.start = 1 /\ a.size = n /\ a \in Args
        /\ Start(a) = 1 /\ Bin(a) = 1
    BY <2>1 DEF Args, CInt, Start, Bin
  <2> HIDE DEF a
  <2>4. Sane(a)
    BY <2>1, <2>3 DEF Sane, CInt
  <2>5. ~DividesByZero(a, n)
    BY <2>3 DEF DividesByZero
  <2>6. Room(a, n) = n
    <3>1. n - a.start + 1 = n /\ n = 1 * n + 0 /\ 0 \in 0..(1 - 1)
      BY <2>1, <2>3
    <3>2. n \div 1 = n
      BY <2>1, <3>1, DivUnique
    <3> QED BY <2>3, <3>1, <3>2 DEF Room
  <2>7. Fits(a, n)
    BY <2>1, <2>3, <2>6 DEF Fits
  <2>8. Accepted(a, n) /\ (End(a, n) - a.start + 1) \div a.bin = n
    BY <2>1, <2>3, <2>4, <2>5, <2>6, <2>7, AcceptedFits
  <2>9. Region(a, n) = a
    BY <2>3, <2>8 DEF Region, a
  <2> QED BY <2>2, <2>3, <2>5, <2>8, <2>9 DEF n
<1>2. FullFrame \in [Axes -> Args]
  BY <1>1 DEF FullFrame
<1>3. FullFrame = [x \in Axes |-> Region(FullFrame[x], Detector[x])]
  BY <1>1, <1>2
<1> QED BY <1>1, <1>2, <1>3 DEF Crashes, Succeeds

LEMMA AnsweredInit == Init => FrameInv
BY FullFrameFits DEF Init, FrameInv, Answered, ImageTruthful, NoImage

LEMMA SetFrameAnswered ==
  ASSUME Answered, NEW f \in Frames, SetFrame(f)
  PROVE  Answered'
<1>1. /\ f \in [Axes -> Args] /\ asked' = f
      /\ \A x \in Axes : f[x] \in Args /\ Detector[x] \in 1..(Limit - 1)
  BY FrameAssumption DEF SetFrame
<1>3. CASE Crashes(f)
  <2>1. answer' = "crash"
    BY <1>3 DEF SetFrame, Crashes
  <2> QED BY <1>1, <1>3, <2>1 DEF Answered, Succeeds, Crashes
<1>4. CASE ~Crashes(f) /\ ~(\A x \in Axes : Accepted(f[x], Detector[x]))
  <2>1. answer' = "refused"
    BY <1>4 DEF SetFrame, Crashes
  <2> QED BY <1>1, <1>4, <2>1 DEF Answered, Succeeds, Crashes
<1>5. CASE Succeeds(f)
  <2>1. /\ answer' = "OK"
        /\ frame' = [x \in Axes |-> [bin |-> Bin(f[x]), start |-> Start(f[x]),
                                     size |-> Size(f[x], Detector[x])]]
        /\ driver' = [x \in Axes |-> Region(f[x], Detector[x])]
    BY <1>5 DEF SetFrame, Crashes, Succeeds, Region
  <2>2. ASSUME NEW x \in Axes
        PROVE  [bin |-> Bin(f[x]), start |-> Start(f[x]), size |-> Size(f[x], Detector[x])]
                 = Region(f[x], Detector[x])
    <3>1. ~DividesByZero(f[x], Detector[x]) /\ Accepted(f[x], Detector[x])
      BY <1>5 DEF Succeeds, Crashes
    <3>2. End(f[x], Detector[x]) \in Int
      BY <1>1, <3>1, EndInt
    <3>3. /\ Start(f[x]) = f[x].start
          /\ Size(f[x], Detector[x])
               = (End(f[x], Detector[x]) - f[x].start + 1) \div Bin(f[x])
      BY <1>1, <3>1, <3>2, SizeAgrees
    <3> QED BY <3>3 DEF Region
  <2>3. frame' = driver'
    BY <2>1, <2>2
  <2>4. ~Crashes(f)
    BY <1>5 DEF Succeeds
  <2> QED BY <1>1, <1>5, <2>1, <2>3, <2>4
          DEF Answered, Succeeds, Crashes
<1> QED BY <1>3, <1>4, <1>5 DEF Succeeds

\* The members of a frame that succeeded describe an image that can be saved.
LEMMA RegionPixels ==
  ASSUME SmallDetector, Answered, answer = "OK"
  PROVE  Pixels(frame) \in Nat /\ \A x \in Axes : ~(frame[x].size < 0)
<1>1. ASSUME NEW x \in Axes
      PROVE  frame[x].size \in 1..Detector[x] /\ Detector[x] \in Nat
  <2>1. /\ asked[x] \in Args /\ Detector[x] \in 1..(Limit - 1) /\ Detector[x] \in Nat
        /\ ~DividesByZero(asked[x], Detector[x]) /\ Accepted(asked[x], Detector[x])
        /\ frame[x] = Region(asked[x], Detector[x])
    BY FrameAssumption DEF Answered, Succeeds, Crashes
  <2>2. End(asked[x], Detector[x]) \in Int
    BY <2>1, EndInt
  <2>3. /\ Start(asked[x]) = asked[x].start
        /\ Size(asked[x], Detector[x]) =
             (End(asked[x], Detector[x]) - asked[x].start + 1) \div Bin(asked[x])
        /\ Size(asked[x], Detector[x]) \in 1..Detector[x]
    BY <2>1, <2>2, SizeAgrees
  <2> QED BY <2>1, <2>3 DEF Region
<1> DEFINE u == frame["X"].size
           v == frame["Y"].size
           m == Detector["X"]
           n == Detector["Y"]
<1>2. u \in 1..m /\ v \in 1..n /\ m \in Nat /\ n \in Nat /\ m * n < Limit /\ Limit \in Nat
  BY <1>1, FrameAssumption DEF Axes, SmallDetector
<1>3. Pixels(frame) = Wrap(u * v)
  BY DEF Pixels
<1> HIDE DEF u, v, m, n
<1>4. u * v \in Int /\ u * v >= 0 /\ u * v <= m * n
  <2>1. u \in Nat /\ v \in Nat /\ u <= m /\ v <= n
    BY <1>2
  <2>2. u * v <= u * n /\ u * 0 <= u * v
    BY <1>2, <2>1, TimesMonotone
  <2>3. n * u <= n * m
    BY <1>2, <2>1, TimesMonotone
  <2>4. u * n = n * u /\ n * m = m * n /\ u * 0 = 0
    BY <1>2, <2>1
  <2>5. u * v \in Int /\ u * n \in Int /\ m * n \in Int
    BY <1>2, <2>1, TimesInt
  <2> QED BY <2>2, <2>3, <2>4, <2>5
<1>5. u * v \in CInt
  <2>1. m * n \in Int
    BY <1>2, TimesInt
  <2> QED BY <1>2, <1>4, <2>1 DEF CInt
<1>6. Pixels(frame) = u * v
  BY <1>3, <1>4, <1>5, WrapInt
<1>7. \A x \in Axes : ~(frame[x].size < 0)
  BY <1>1
<1> QED BY <1>4, <1>6, <1>7

LEMMA AnsweredStep == Answered /\ [Next]_vars => Answered'
<1> SUFFICES ASSUME Answered, [Next]_vars PROVE Answered'
  OBVIOUS
<1>1. CASE InitCamera
  BY <1>1, FullFrameFits DEF InitCamera, Answered
<1>2. ASSUME NEW f \in Frames, SetFrame(f) PROVE Answered'
  BY <1>2, SetFrameAnswered
<1>3. CASE SaveFITS
  BY <1>3 DEF SaveFITS, Answered
<1>4. CASE UNCHANGED vars
  BY <1>4 DEF vars, Answered
<1> QED BY <1>1, <1>2, <1>3, <1>4 DEF Next

\* The answer to the last FRAME tells what became of its arguments (camera.cpp:505-533),
\* and the members and the driver have its region after a success.
THEOREM FrameCorrect == Spec => []Answered
<1>1. Init => Answered
  BY AnsweredInit DEF FrameInv
<1> QED BY <1>1, AnsweredStep, PTL DEF Spec

LEMMA AxisType ==
  ASSUME Answered, NEW x \in Axes
  PROVE  asked[x] \in Args /\ Detector[x] \in 1..(Limit - 1)
BY FrameAssumption DEF Answered

\* FRAME succeeds for the arguments that AnsweredRight says, and kills the server for
\* those that it says (camera.cpp:508-531), for any detector and any width of int.
THEOREM AnsweredCorrect == Spec => []AnsweredRight
<1>1. Answered => AnsweredRight
  <2> SUFFICES ASSUME Answered, NoOverflow PROVE AnsweredRight
    BY DEF AnsweredRight
  <2>1. ASSUME NEW x \in Axes
        PROVE  /\ DividesByZero(asked[x], Detector[x])
                    <=> asked[x].bin = 0 /\ asked[x].start > Detector[x] + 1
               /\ ~DividesByZero(asked[x], Detector[x]) =>
                    (Accepted(asked[x], Detector[x]) <=> Fits(asked[x], Detector[x]))
               /\ DividesByZero(asked[x], Detector[x]) => ~Fits(asked[x], Detector[x])
    <3>1. Sane(asked[x])
      BY DEF NoOverflow, Sane
    <3>2. ~(asked[x].bin = 0 /\ Fits(asked[x], Detector[x]))
      BY FrameAssumption DEF Fits
    <3> QED BY <3>1, <3>2, AxisType, ZeroBinning, AcceptedFits
  <2>2. answer = "crash" <=>
          \E x \in Axes : asked[x].bin = 0 /\ asked[x].start > Detector[x] + 1
    BY <2>1 DEF Answered, Crashes
  <2>3. answer = "OK" <=> \A x \in Axes : Fits(asked[x], Detector[x])
    BY <2>1 DEF Answered, Succeeds, Crashes
  <2> QED BY <2>2, <2>3 DEF AnsweredRight, Fits
<1> QED BY <1>1, FrameCorrect, PTL

\* After a success members and driver agree on the region that was asked for.
THEOREM RegionCorrect == Spec => []RegionRight
<1>1. Answered => RegionRight
  <2> SUFFICES ASSUME Answered, answer = "OK" PROVE RegionRight
    BY DEF RegionRight
  <2>1. frame = driver
    BY DEF Answered
  <2>2. ASSUME NoOverflow, NEW x \in Axes
        PROVE  LET a == asked[x]
                   room == Room(a, Detector[x])
               IN driver[x] = [a EXCEPT !.size = IF @ < room THEN @ ELSE room]
    <3> DEFINE a == asked[x]
               n == Detector[x]
    <3>1. /\ driver[x] = Region(a, n) /\ ~DividesByZero(a, n) /\ Accepted(a, n)
          /\ a \in Args /\ n \in 1..(Limit - 1) /\ Sane(a)
      BY <2>2, AxisType DEF Answered, Succeeds, Crashes, NoOverflow, Sane
    <3> HIDE DEF a, n
    <3>2. Fits(a, n)
      BY <3>1, AcceptedFits
    <3>3. Bin(a) = a.bin
      BY <3>2, FrameAssumption DEF Fits, Bin
    <3>4. Region(a, n).size = IF a.size < Room(a, n) THEN a.size ELSE Room(a, n)
      BY <3>1, <3>2, <3>3, AcceptedFits DEF Region
    <3>5. Region(a, n) = [bin |-> a.bin, start |-> a.start, size |-> Region(a, n).size]
      BY <3>3 DEF Region
    <3>6. [a EXCEPT !.size = IF @ < Room(a, n) THEN @ ELSE Room(a, n)]
            = [bin |-> a.bin, start |-> a.start,
               size |-> IF a.size < Room(a, n) THEN a.size ELSE Room(a, n)]
      BY <3>1 DEF Args
    <3> QED BY <3>1, <3>4, <3>5, <3>6 DEF a, n
  <2> QED BY <2>1, <2>2 DEF RegionRight
<1> QED BY <1>1, FrameCorrect, PTL

\* After a FRAME that succeeded the image is saved, with its own region: the buffer
\* (camera.cpp:746) has the pixels that the driver gives, if an int can count them.
THEOREM ImageCorrect == ASSUME SmallDetector PROVE Spec => []ImageTruthful
<1>1. FrameInv /\ [Next]_vars => FrameInv'
  <2> SUFFICES ASSUME FrameInv, [Next]_vars PROVE ImageTruthful'
    BY AnsweredStep DEF FrameInv
  <2>1. CASE InitCamera \/ \E f \in Frames : SetFrame(f)
    BY <2>1 DEF InitCamera, SetFrame, ImageTruthful
  <2>2. CASE SaveFITS
    <3>1. answer # "crash" /\ UNCHANGED <<frame, driver, asked, answer>>
      BY <2>2 DEF SaveFITS
    <3>2. CASE answer = "OK"
      <4>1. frame = driver
        BY <3>2 DEF FrameInv, Answered
      <4>2. /\ ~(Pixels(frame) < 0) /\ ~(Pixels(frame) # Pixels(driver))
            /\ ~(\E x \in Axes : frame[x].size < 0)
        BY <3>2, <4>1, RegionPixels DEF FrameInv
      <4>3. image' = [status |-> "saved", header |-> frame]
        BY <2>2, <4>2 DEF SaveFITS
      <4> QED BY <3>1, <4>1, <4>3 DEF ImageTruthful
    <3>3. CASE answer = "refused"
      BY <3>1, <3>3 DEF ImageTruthful
    <3> QED BY <3>1, <3>2, <3>3 DEF FrameInv, Answered
  <2>3. CASE UNCHANGED vars
    BY <2>3 DEF vars, FrameInv, ImageTruthful
  <2> QED BY <2>1, <2>2, <2>3 DEF Next
<1>2. FrameInv => ImageTruthful
  BY DEF FrameInv
<1> QED BY AnsweredInit, <1>1, <1>2, PTL DEF Spec
=============================================================================
