------------------------- MODULE ImageTransformProofs -------------------------
(***************************************************************************)
(* Proofs about the placement arithmetic, for every fixed-point resolution *)
(* and all sizes: what rounded_div computes, and from it the properties    *)
(* that TLC evaluates on small images.                                     *)
(***************************************************************************)
EXTENDS MCImageTransform, TLAPS

\* Division with remainder; the quotient is the only one that fits.
LEMMA DivideWithRest ==
    ASSUME NEW a \in Int, NEW b \in Nat \ {0}
    PROVE  /\ a \div b \in Int
           /\ (a \div b) * b <= a
           /\ a < (a \div b) * b + b
           /\ a % b \in Int
           /\ a = b * (a \div b) + (a % b)
<1>1. a \div b \in Int /\ a % b \in 0 .. b - 1 /\ a = b * (a \div b) + (a % b)
  OBVIOUS
<1> QED
  BY <1>1

LEMMA OneQuotient ==
    ASSUME NEW a \in Int, NEW b \in Nat \ {0}, NEW q \in Int,
           q * b <= a, a < q * b + b
    PROVE  q = a \div b
<1> DEFINE r == a \div b
<1>1. r \in Int /\ r * b <= a /\ a < r * b + b
  BY DivideWithRest
<1> HIDE DEF r
<1>2. ASSUME NEW x \in Int, NEW y \in Int, x * b <= a, a < y * b + b, x >= y + 1 PROVE FALSE
  <2>1. x * b >= (y + 1) * b
    BY <1>2
  <2>2. (y + 1) * b = y * b + b
    BY <1>2
  <2> QED
    BY <1>2, <2>1, <2>2
<1>3. ~(q >= r + 1) /\ ~(r >= q + 1)
  BY <1>1, <1>2
<1>4. q = r
  BY <1>1, <1>3
<1> QED
  BY <1>4 DEF r

LEMMA HalfOf ==
    ASSUME NEW x \in Int
    PROVE  /\ x \div 2 \in Int /\ x % 2 \in {0, 1}
           /\ x = 2 * (x \div 2) + (x % 2)
  OBVIOUS

(***************************************************************************)
(* rounded_div rounds what is not negative to the nearest integer, halves  *)
(* up.                                                                     *)
(***************************************************************************)
LEMMA RoundedDivIsNearest ==
    ASSUME NEW a \in Nat, NEW b \in Nat \ {0}
    PROVE  /\ RoundedDiv(a, b) \in Nat
           /\ 2 * (RoundedDiv(a, b) * b) <= 2 * a + b
           /\ 2 * a < 2 * (RoundedDiv(a, b) * b) + b
           /\ RoundedDiv(a, b) = Nearest(a, b)
<1> DEFINE x == (a * 2) \div b
           r == RoundedDiv(a, b)
<1>1. x \in Int /\ x * b <= a * 2 /\ a * 2 < x * b + b
  BY DivideWithRest
<1>2. x >= 0
  <2>1. ASSUME x <= -1 PROVE FALSE
    <3>1. x * b <= (-1) * b
      BY <1>1, <2>1
    <3> QED
      BY <1>1, <3>1
  <2> QED
    BY <1>1, <2>1
<1>3. r = (x \div 2) + (x % 2)
  BY <1>1, <1>2 DEF RoundedDiv, Quotient
<1> HIDE DEF x, r
<1>4. r \in Nat /\ (2 * r = x \/ 2 * r = x + 1)
  BY <1>1, <1>2, <1>3
<1>5. 2 * (r * b) = (2 * r) * b /\ (x + 1) * b = x * b + b /\ r * b \in Int /\ x * b \in Int
  BY <1>1, <1>4
<1>6. 2 * (r * b) <= 2 * a + b /\ 2 * a < 2 * (r * b) + b
  BY <1>1, <1>4, <1>5
<1>7. r = Nearest(a, b)
  <2>1. 2 * a + b \in Int /\ 2 * b \in Nat \ {0} /\ r \in Int
    BY <1>4
  <2>2. r * (2 * b) = 2 * (r * b)
    BY <1>4
  <2>3. r * (2 * b) <= 2 * a + b /\ 2 * a + b < r * (2 * b) + 2 * b
    BY <1>5, <1>6, <2>2
  <2> QED
    BY <2>1, <2>3, OneQuotient DEF Nearest
<1> QED
  BY <1>4, <1>6, <1>7 DEF r

(***************************************************************************)
(* Below zero it rounds its own way, but never errs by two.                *)
(***************************************************************************)
LEMMA RoundedDivIsClose ==
    ASSUME NEW a \in Int, NEW b \in Nat \ {0}
    PROVE  /\ RoundedDiv(a, b) \in Int
           /\ RoundedDiv(a, b) * b < a + 2 * b
           /\ a < RoundedDiv(a, b) * b + 2 * b
<1> DEFINE r == RoundedDiv(a, b)
<1>1. CASE a >= 0
  <2>1. r \in Nat /\ 2 * (r * b) <= 2 * a + b /\ 2 * a < 2 * (r * b) + b
    BY <1>1, RoundedDivIsNearest
  <2> HIDE DEF r
  <2>2. r * b \in Int
    BY <2>1
  <2>3. r * b < a + 2 * b /\ a < r * b + 2 * b
    BY <2>1, <2>2
  <2> QED
    BY <2>1, <2>3 DEF r
<1>2. CASE a < 0
  <2> DEFINE y == (-(a * 2)) \div b
  <2>1. y \in Int /\ y * b <= -(a * 2) /\ -(a * 2) < y * b + b
    BY DivideWithRest
  <2>2. y >= 0
    <3>1. ASSUME y <= -1 PROVE FALSE
      <4>1. y * b <= (-1) * b
        BY <2>1, <3>1
      <4> QED
        BY <1>2, <2>1, <4>1
    <3> QED
      BY <2>1, <3>1
  <2>3. Quotient(a * 2, b) = -y
    BY <1>2 DEF Quotient
  <2> HIDE DEF y
  <2>4. Quotient(-y, 2) = -(y \div 2)
    BY <2>1, <2>2 DEF Quotient
  <2>5. r = -(y \div 2) + ((-y) % 2)
    BY <2>3, <2>4 DEF RoundedDiv
  <2> HIDE DEF r
  <2>6. r \in Int /\ (2 * r = -y \/ 2 * r = 3 - y)
    BY <2>1, <2>5
  <2>7. /\ 2 * (r * b) = (2 * r) * b /\ (3 - y) * b = 3 * b - y * b /\ (-y) * b = -(y * b)
        /\ r * b \in Int /\ y * b \in Int
    BY <2>1, <2>6
  <2>8. r * b < a + 2 * b /\ a < r * b + 2 * b
    BY <2>1, <2>6, <2>7
  <2> QED
    BY <2>6, <2>8 DEF r
<1> QED
  BY <1>1, <1>2

-----------------------------------------------------------------------------
\* Aligned moves an offset by at most half a pixel, to a whole one.
LEMMA AlignedIsWhole ==
    ASSUME NEW offset \in Int, NEW scale
    PROVE  /\ Aligned(offset, scale) \in Int
           /\ scale # Q16 => Aligned(offset, scale) = offset
           /\ scale = Q16 => \E k \in Int :
                /\ Aligned(offset, scale) = k * Q16
                /\ 2 * (k * Q16) <= 2 * offset + Q16
                /\ 2 * offset < 2 * (k * Q16) + Q16
           /\ scale = Q16 => Aligned(offset, scale) % Q16 = 0
<1>1. Q16 \in Nat \ {0} /\ Q16 \div 2 \in Int /\ 2 * (Q16 \div 2) = Q16
  BY Q16Assumption
<1> DEFINE k == (offset + Q16 \div 2) \div Q16
<1>2. k \in Int /\ k * Q16 <= offset + Q16 \div 2 /\ offset + Q16 \div 2 < k * Q16 + Q16
  <2>1. offset + Q16 \div 2 \in Int
    BY <1>1
  <2> QED
    BY <1>1, <2>1, DivideWithRest
<1>3. scale = Q16 => Aligned(offset, scale) = k * Q16
  BY DEF Aligned
<1>4. scale # Q16 => Aligned(offset, scale) = offset
  BY DEF Aligned
<1> HIDE DEF k
<1>5. k * Q16 \in Int
  BY <1>1, <1>2
<1>6. 2 * (k * Q16) <= 2 * offset + Q16 /\ 2 * offset < 2 * (k * Q16) + Q16
  BY <1>1, <1>2, <1>5
<1>7. (k * Q16) % Q16 = 0
  <2> DEFINE v == k * Q16
  <2>1. v \in Int /\ v = Q16 * k /\ k * Q16 <= v /\ v < k * Q16 + Q16
    BY <1>1, <1>2, <1>5
  <2> HIDE DEF v
  <2>2. k = v \div Q16
    BY <1>1, <1>2, <2>1, OneQuotient
  <2>3. v % Q16 \in Int /\ v = Q16 * (v \div Q16) + (v % Q16)
    BY <1>1, <2>1, DivideWithRest
  <2>4. v % Q16 = 0
    BY <2>1, <2>2, <2>3
  <2> QED
    BY <2>4 DEF v
<1>8. Aligned(offset, scale) \in Int
  BY <1>3, <1>4, <1>5
<1>9. scale = Q16 => \E n \in Int : /\ Aligned(offset, scale) = n * Q16
                                    /\ 2 * (n * Q16) <= 2 * offset + Q16
                                    /\ 2 * offset < 2 * (n * Q16) + Q16
  BY <1>2, <1>3, <1>6
<1>10. scale = Q16 => Aligned(offset, scale) % Q16 = 0
  BY <1>3, <1>7
<1> QED
  BY <1>4, <1>8, <1>9, <1>10

\* One coordinate of get_wsbg_image_transform, for any position at all.
LEMMA OffsetIsNear ==
    ASSUME NEW dest \in Int, NEW scale, NEW length \in Int, NEW pos \in Int
    PROVE  Accurate(Aligned(RoundedDiv((dest - length * Q16) * pos, Q16), scale),
                    dest, scale, length, pos)
<1> DEFINE exact  == (dest - length * Q16) * pos
           near   == RoundedDiv(exact, Q16)
           offset == Aligned(near, scale)
<1>1. Q16 \in Nat \ {0} /\ exact \in Int
  BY Q16Assumption
<1> HIDE DEF exact
<1>2. near \in Int /\ near * Q16 < exact + 2 * Q16 /\ exact < near * Q16 + 2 * Q16
  BY <1>1, RoundedDivIsClose
<1> HIDE DEF near
<1>3. CASE scale # Q16
  <2>1. offset = near
    BY <1>2, <1>3, AlignedIsWhole
  <2>2. near * Q16 \in Int
    BY <1>1, <1>2
  <2>3. Distance(near * Q16, exact) < 2 * Q16
    BY <1>1, <1>2, <2>2 DEF Distance
  <2> HIDE DEF offset
  <2>4. Distance(offset * Q16, exact) < 2 * Q16
    BY <2>1, <2>3
  <2> QED
    BY <1>3, <2>4 DEF Accurate, offset, near, exact
<1>4. CASE scale = Q16
  <2>1. PICK k \in Int : /\ offset = k * Q16
                         /\ 2 * (k * Q16) <= 2 * near + Q16
                         /\ 2 * near < 2 * (k * Q16) + Q16
    BY <1>2, <1>4, AlignedIsWhole
  <2>2. offset % Q16 = 0
    BY <1>2, <1>4, AlignedIsWhole
  <2>3. offset \in Int /\ 2 * offset <= 2 * near + Q16 /\ 2 * near <= 2 * offset + Q16
    <3>1. k * Q16 \in Int
      BY <1>1, <2>1
    <3> HIDE DEF offset
    <3> QED
      BY <1>1, <1>2, <2>1, <3>1
  <2> HIDE DEF offset
  <2>4. /\ (2 * offset) * Q16 <= (2 * near + Q16) * Q16
        /\ (2 * near) * Q16 <= (2 * offset + Q16) * Q16
    BY <1>1, <1>2, <2>3
  <2>5. /\ (2 * near + Q16) * Q16 = 2 * (near * Q16) + Q16 * Q16
        /\ (2 * offset + Q16) * Q16 = 2 * (offset * Q16) + Q16 * Q16
        /\ (2 * near) * Q16 = 2 * (near * Q16)
        /\ (2 * offset) * Q16 = 2 * (offset * Q16)
        /\ (4 + Q16) * Q16 = 4 * Q16 + Q16 * Q16
        /\ near * Q16 \in Int /\ offset * Q16 \in Int /\ Q16 * Q16 \in Int
    BY <1>1, <1>2, <2>3
  <2>6. 2 * Distance(offset * Q16, exact) < (4 + Q16) * Q16
    BY <1>1, <1>2, <2>4, <2>5 DEF Distance
  <2> QED
    BY <1>4, <2>2, <2>6 DEF Accurate, offset, near, exact
<1> QED
  BY <1>3, <1>4

-----------------------------------------------------------------------------
\* Dividing an inequality between multiples by what they are multiples of.
LEMMA Divided ==
    ASSUME NEW x \in Int, NEW y \in Int, NEW n \in Nat \ {0}, x * n < y * n
    PROVE  x < y
<1> SUFFICES ASSUME y <= x PROVE FALSE
  OBVIOUS
<1>1. y * n <= x * n
  OBVIOUS
<1> QED
  BY <1>1

\* Of two quotients, the larger is not rounded to less.
LEMMA NearestKeepsOrder ==
    ASSUME NEW a \in Nat, NEW w \in Nat \ {0}, NEW b \in Nat, NEW h \in Nat \ {0},
           a * h <= b * w
    PROVE  Nearest(a * Q16, w) <= Nearest(b * Q16, h)
<1> DEFINE r == Nearest(a * Q16, w)
           s == Nearest(b * Q16, h)
<1>1. Q16 \in Nat \ {0} /\ a * Q16 \in Nat /\ b * Q16 \in Nat
  BY Q16Assumption
<1>2. r \in Nat /\ 2 * (r * w) <= 2 * (a * Q16) + w
  BY <1>1, RoundedDivIsNearest
<1>3. s \in Nat /\ 2 * (b * Q16) < 2 * (s * h) + h
  BY <1>1, RoundedDivIsNearest
<1> HIDE DEF r, s
<1>4. (2 * (r * w)) * h <= (2 * (a * Q16) + w) * h
  <2>1. 2 * (r * w) \in Int /\ 2 * (a * Q16) + w \in Int
    BY <1>1, <1>2
  <2> QED
    BY <1>2, <2>1
<1>5. (2 * (b * Q16)) * w < (2 * (s * h) + h) * w
  <2>1. 2 * (b * Q16) \in Int /\ 2 * (s * h) + h \in Int
    BY <1>1, <1>3
  <2> QED
    BY <1>3, <2>1
<1>6. (a * h) * (2 * Q16) <= (b * w) * (2 * Q16)
  <2>1. a * h \in Int /\ b * w \in Int /\ 2 * Q16 \in Nat
    BY <1>1
  <2> QED
    BY <2>1
<1> DEFINE n == w * h
<1>7. n \in Nat \ {0}
  OBVIOUS
<1>8. /\ (2 * (r * w)) * h = 2 * (r * n)
      /\ (2 * (a * Q16) + w) * h = (a * h) * (2 * Q16) + n
      /\ (2 * (b * Q16)) * w = (b * w) * (2 * Q16)
      /\ (2 * (s * h) + h) * w = 2 * (s * n) + n
      /\ (s + 1) * n = s * n + n
  BY <1>1, <1>2, <1>3
<1> HIDE DEF n
<1>9. r * n < (s + 1) * n
  <2>1. r * n \in Int /\ s * n \in Int /\ (a * h) * (2 * Q16) \in Int /\ (b * w) * (2 * Q16) \in Int
    BY <1>1, <1>2, <1>3, <1>7
  <2> QED
    BY <1>4, <1>5, <1>6, <1>7, <1>8, <2>1
<1>10. r < s + 1
  BY <1>2, <1>3, <1>7, <1>9, Divided
<1> QED
  BY <1>2, <1>3, <1>10 DEF r, s

(***************************************************************************)
(* The comparison of "fill" and "fit": natural is rounded, and tells which *)
(* of the quotients a / w and b / h is the larger, the image a by b being  *)
(* shown on an output w by h.  It can miss a difference only when the      *)
(* image is higher than two rounding units per pixel.                      *)
(***************************************************************************)
LEMMA NaturalTells ==
    ASSUME NEW a \in Nat \ {0}, NEW b \in Nat \ {0}, NEW w \in Nat \ {0}, NEW h \in Nat \ {0}
    PROVE  LET natural == RoundedDiv(a * (h * Q16), b)
           IN  /\ natural \in Nat
               /\ w * Q16 < natural => b * w <= a * h
               /\ natural < w * Q16 => a * h <= b * w
               /\ b < 2 * Q16 /\ w * Q16 <= natural => b * w <= a * h
               /\ b < 2 * Q16 /\ natural <= w * Q16 => a * h <= b * w
<1> DEFINE natural == RoundedDiv(a * (h * Q16), b)
           m == w * Q16
           p == a * h
           q == b * w
           Q == 2 * Q16
<1>1. Q16 \in Nat \ {0} /\ a * (h * Q16) \in Nat /\ m \in Int /\ p \in Int /\ q \in Int /\ Q \in Nat \ {0}
  BY Q16Assumption
<1>2. /\ natural \in Nat
      /\ 2 * (natural * b) <= 2 * (a * (h * Q16)) + b
      /\ 2 * (a * (h * Q16)) < 2 * (natural * b) + b
  BY <1>1, RoundedDivIsNearest
<1>3. 2 * (a * (h * Q16)) = p * Q /\ 2 * (m * b) = q * Q
  BY <1>1
<1>4. natural * b \in Int /\ m * b \in Int /\ p * Q \in Int /\ q * Q \in Int
  BY <1>1, <1>2
<1>5. (p + 1) * Q = p * Q + Q /\ (q + 1) * Q = q * Q + Q /\ (m + 1) * b = m * b + b
      /\ (natural + 1) * b = natural * b + b
  BY <1>1, <1>2
<1> HIDE DEF natural, m, p, q, Q
<1>6. ASSUME m < natural PROVE q <= p
  <2>1. (m + 1) * b <= natural * b
    BY <1>1, <1>2, <1>6
  <2>2. q * Q < p * Q
    BY <1>2, <1>3, <1>4, <1>5, <2>1
  <2>3. q < p
    BY <1>1, <2>2, Divided
  <2> QED
    BY <1>1, <2>3
<1>7. ASSUME natural < m PROVE p <= q
  <2>1. (natural + 1) * b <= m * b
    BY <1>1, <1>2, <1>7
  <2>2. p * Q < q * Q
    BY <1>2, <1>3, <1>4, <1>5, <2>1
  <2>3. p < q
    BY <1>1, <2>2, Divided
  <2> QED
    BY <1>1, <2>3
<1>8. ASSUME b < Q, m <= natural PROVE q <= p
  <2>1. m * b <= natural * b
    BY <1>1, <1>2, <1>8
  <2>2. q * Q < (p + 1) * Q
    BY <1>1, <1>2, <1>3, <1>4, <1>5, <1>8, <2>1
  <2>3. q < p + 1
    BY <1>1, <2>2, Divided
  <2> QED
    BY <1>1, <2>3
<1>9. ASSUME b < Q, natural <= m PROVE p <= q
  <2>1. natural * b <= m * b
    BY <1>1, <1>2, <1>9
  <2>2. p * Q < (q + 1) * Q
    BY <1>1, <1>2, <1>3, <1>4, <1>5, <1>9, <2>1
  <2>3. p < q + 1
    BY <1>1, <2>2, Divided
  <2> QED
    BY <1>1, <2>3
<1> QED
  BY <1>2, <1>6, <1>7, <1>8, <1>9 DEF natural, m, p, q, Q

LEMMA LargerOfTwo ==
    ASSUME NEW x \in Int, NEW y \in Int, x >= y
    PROVE  Max({x, y}) = x /\ Max({y, x}) = x /\ Min({x, y}) = y /\ Min({y, x}) = y
<1>1. {x, y} = {y, x}
  OBVIOUS
<1>2. Max({x, y}) = x
  <2>1. \E m \in {x, y} : \A n \in {x, y} : m >= n
    OBVIOUS
  <2>2. Max({x, y}) \in {x, y} /\ \A n \in {x, y} : Max({x, y}) >= n
    BY <2>1, Zenon DEF Max
  <2> QED
    BY <2>2
<1>3. Min({x, y}) = y
  <2>1. \E m \in {x, y} : \A n \in {x, y} : m <= n
    OBVIOUS
  <2>2. Min({x, y}) \in {x, y} /\ \A n \in {x, y} : Min({x, y}) <= n
    BY <2>1, Zenon DEF Min
  <2> QED
    BY <2>2
<1> QED
  BY <1>1, <1>2, <1>3

IsSize(x) == x \in [width: Nat \ {0}, height: Nat \ {0}]

RightScale(im, how, w, h) ==
    LET scales == {Nearest(im.width * Q16, w), Nearest(im.height * Q16, h)}
    IN  IF how = "fit" THEN Max(scales) ELSE Min(scales)

(***************************************************************************)
(* "fit" and "fill", for any image that is less than two rounding units    *)
(* per pixel high: 131072 pixels, as Q16 is in state.h, where load_image   *)
(* refuses sides of more than IMAGE_SIZE_MAX = 65536 (image.c, line 318).  *)
(***************************************************************************)
LEMMA AspectOfFitAndFill ==
    ASSUME NEW im, IsSize(im), im.height < 2 * Q16,
           NEW how \in {"fit", "fill"}, NEW pos,
           NEW w \in Nat \ {0}, NEW h \in Nat \ {0}
    PROVE  /\ Transform(im, how, pos, w, h).scale_x = Transform(im, how, pos, w, h).scale_y
           /\ Transform(im, how, pos, w, h).scale_x = RightScale(im, how, w, h)
<1> DEFINE a == im.width
           b == im.height
           sx == Nearest(a * Q16, w)
           sy == Nearest(b * Q16, h)
           natural == RoundedDiv(a * (h * Q16), b)
           dest == Destination(im, how, w, h)
           t == Transform(im, how, pos, w, h)
<1>1. a \in Nat \ {0} /\ b \in Nat \ {0}
  BY DEF IsSize
<1>2. a * Q16 \in Nat /\ b * Q16 \in Nat /\ w * Q16 \in Int
  BY <1>1, Q16Assumption
<1>3. RoundedDiv(a * Q16, w) = sx /\ RoundedDiv(b * Q16, h) = sy /\ sx \in Nat /\ sy \in Nat
  BY <1>2, RoundedDivIsNearest
<1>4. /\ natural \in Nat
      /\ w * Q16 < natural => b * w <= a * h
      /\ natural < w * Q16 => a * h <= b * w
      /\ w * Q16 <= natural => b * w <= a * h
      /\ natural <= w * Q16 => a * h <= b * w
  BY <1>1, NaturalTells
<1>5. /\ a * h <= b * w => sx <= sy
      /\ b * w <= a * h => sy <= sx
  BY <1>1, NearestKeepsOrder
<1>6. t.scale_x = dest.scale_x /\ t.scale_y = dest.scale_y
  BY DEF Transform
<1>7. /\ dest.scale_x = IF ByWidth(how, natural, w) THEN sx ELSE sy
      /\ dest.scale_y = IF ByWidth(how, natural, w) THEN sx ELSE sy
  <2>1. CASE ByWidth(how, natural, w)
    BY <1>3, <2>1 DEF Destination
  <2>2. CASE ~ByWidth(how, natural, w)
    BY <1>3, <2>2 DEF Destination
  <2> QED
    BY <2>1, <2>2
<1> HIDE DEF dest, t, natural, sx, sy
<1>8. /\ sy <= sx => Max({sx, sy}) = sx /\ Min({sx, sy}) = sy
      /\ sx <= sy => Max({sx, sy}) = sy /\ Min({sx, sy}) = sx
  <2>1. sy <= sx => Max({sx, sy}) = sx /\ Min({sx, sy}) = sy
    BY <1>3, LargerOfTwo
  <2>2. sx <= sy => sy >= sx
    BY <1>3
  <2>3. sy >= sx => Max({sx, sy}) = sy /\ Min({sx, sy}) = sx
    <3>1. sx \in Int /\ sy \in Int
      BY <1>3
    <3> QED
      BY <3>1, LargerOfTwo, Zenon
  <2> QED
    BY <2>1, <2>2, <2>3
<1>9. CASE how = "fit"
  <2>1. ByWidth(how, natural, w) <=> w * Q16 < natural
    BY <1>9 DEF ByWidth
  <2>2. IF ByWidth(how, natural, w) THEN sy <= sx ELSE sx <= sy
    BY <1>2, <1>4, <1>5, <2>1
  <2>3. Max({sx, sy}) = IF ByWidth(how, natural, w) THEN sx ELSE sy
    BY <1>8, <2>2, Zenon
  <2> QED
    BY <1>6, <1>7, <1>9, <2>3 DEF t, sx, sy, RightScale
<1>10. CASE how = "fill"
  <2>1. ByWidth(how, natural, w) <=> natural < w * Q16
    BY <1>10 DEF ByWidth
  <2>2. IF ByWidth(how, natural, w) THEN sx <= sy ELSE sy <= sx
    BY <1>2, <1>4, <1>5, <2>1
  <2>3. Min({sx, sy}) = IF ByWidth(how, natural, w) THEN sx ELSE sy
    BY <1>8, <2>2, Zenon
  <2> QED
    BY <1>6, <1>7, <1>10, <2>3 DEF t, sx, sy, RightScale
<1> QED
  BY <1>9, <1>10

\* The destination, the scales and the offsets are integers.
LEMMA DestinationIsTyped ==
    ASSUME NEW im, IsSize(im), NEW how \in Modes, NEW w \in Nat \ {0}, NEW h \in Nat \ {0}
    PROVE  Destination(im, how, w, h) \in [w: Int, h: Int, scale_x: Int, scale_y: Int]
<1>1. im.width \in Nat \ {0} /\ im.height \in Nat \ {0} /\ Q16 \in Nat \ {0}
  BY Q16Assumption DEF IsSize
<1>2. /\ im.width * Q16 \in Int /\ im.height * Q16 \in Int
      /\ w * Q16 \in Int /\ h * Q16 \in Int
      /\ im.width * (h * Q16) \in Int /\ im.height * (w * Q16) \in Int
  BY <1>1
<1>3. /\ RoundedDiv(im.width * Q16, w) \in Int /\ RoundedDiv(im.height * Q16, h) \in Int
      /\ RoundedDiv(im.width * (h * Q16), im.height) \in Int
      /\ RoundedDiv(im.height * (w * Q16), im.width) \in Int
  BY <1>1, <1>2, RoundedDivIsClose
<1>4. CASE how \in {"center", "tile"}
  BY <1>1, <1>2, <1>4 DEF Destination
<1>5. CASE how = "stretch"
  BY <1>2, <1>3, <1>5 DEF Destination
<1>6. CASE how \in {"fill", "fit"}
  BY <1>2, <1>3, <1>6 DEF Destination
<1> QED
  BY <1>4, <1>5, <1>6 DEF Modes

-----------------------------------------------------------------------------
\* The arguments of a call keep their types, and its result is Transform's.
CallInv ==
    /\ IsSize(image) /\ IsSize(output)
    /\ image.width <= MaxSide /\ image.height <= MaxSide
    /\ output.width <= MaxSide /\ output.height <= MaxSide
    /\ mode \in Modes
    /\ position.x \in 0 .. Q16 /\ position.y \in 0 .. Q16
    /\ \/ result = None
       \/ result = Transform(image, mode, position, output.width, output.height)

LEMMA Calls == Spec => []CallInv
<1>1. Init => CallInv
  <2> SUFFICES ASSUME Init PROVE CallInv
    OBVIOUS
  <2>1. /\ image \in [width: Sides, height: Sides]
        /\ output \in [width: Sides, height: Sides]
    BY DEF Init
  <2>2. /\ IsSize(image) /\ IsSize(output)
        /\ image.width <= MaxSide /\ image.height <= MaxSide
        /\ output.width <= MaxSide /\ output.height <= MaxSide
    BY <2>1, SideAssumption DEF Sides, IsSize
  <2>3. 0 \in 0 .. Q16 /\ Q16 \in 0 .. Q16 /\ Q16 \div 2 \in 0 .. Q16 /\ Q16 \div 4 \in 0 .. Q16
    BY Q16Assumption
  <2>4. position.x \in 0 .. Q16 /\ position.y \in 0 .. Q16
    BY <2>3 DEF Init
  <2> QED
    BY <2>2, <2>4 DEF Init, CallInv
<1>2. CallInv /\ [Next]_vars => CallInv'
  BY DEF CallInv, Next, Compute, vars
<1> QED
  BY <1>1, <1>2, PTL DEF Spec

(***************************************************************************)
(* The offset get_wsbg_image_transform returns splits the space between    *)
(* image and output as the position says, to within the two units          *)
(* rounded_div may err by and, where it is aligned, half a pixel.          *)
(***************************************************************************)
THEOREM OffsetAccurate == Spec => []OffsetIsAccurate
<1>1. CallInv => OffsetIsAccurate
  <2> SUFFICES ASSUME CallInv, result # None
               PROVE  LET dest == Destination(image, mode, output.width, output.height)
                      IN  /\ Accurate(result.x, dest.w, result.scale_x, output.width, position.x)
                          /\ Accurate(result.y, dest.h, result.scale_y, output.height, position.y)
    BY DEF OffsetIsAccurate
  <2> DEFINE dest == Destination(image, mode, output.width, output.height)
  <2>1. /\ output.width \in Nat \ {0} /\ output.height \in Nat \ {0}
        /\ position.x \in Int /\ position.y \in Int
    BY DEF CallInv, IsSize
  <2>2. dest \in [w: Int, h: Int, scale_x: Int, scale_y: Int]
    BY <2>1, DestinationIsTyped DEF CallInv
  <2>3. result = Transform(image, mode, position, output.width, output.height)
    BY DEF CallInv
  <2>4. /\ result.x = Aligned(RoundedDiv((dest.w - output.width * Q16) * position.x, Q16), dest.scale_x)
        /\ result.y = Aligned(RoundedDiv((dest.h - output.height * Q16) * position.y, Q16), dest.scale_y)
        /\ result.scale_x = dest.scale_x /\ result.scale_y = dest.scale_y
    BY <2>3 DEF Transform
  <2> HIDE DEF dest
  <2>5. dest.w \in Int /\ dest.h \in Int
    BY <2>2
  <2>6. /\ Accurate(result.x, dest.w, dest.scale_x, output.width, position.x)
        /\ Accurate(result.y, dest.h, dest.scale_y, output.height, position.y)
    BY <2>1, <2>4, <2>5, OffsetIsNear
  <2> QED
    BY <2>4, <2>6 DEF dest
<1> QED
  BY <1>1, Calls, PTL

(***************************************************************************)
(* "fit" and "fill" keep the aspect ratio and decide rightly which side    *)
(* counts.  The bound is needed: of higher images, the code would take the *)
(* wrong side, whose scale differs in the last place; load_image accepts   *)
(* images of half that size.                                               *)
(***************************************************************************)
THEOREM AspectKept ==
    ASSUME MaxSide < 2 * Q16
    PROVE  Spec => []AspectIsKept
<1>1. CallInv => AspectIsKept
  <2> SUFFICES ASSUME CallInv, result # None, mode \in {"fit", "fill"}
               PROVE  LET scales == {Nearest(image.width * Q16, output.width),
                                     Nearest(image.height * Q16, output.height)}
                      IN  /\ result.scale_x = result.scale_y
                          /\ result.scale_x = IF mode = "fit" THEN Max(scales) ELSE Min(scales)
    BY DEF AspectIsKept
  <2>1. output.width \in Nat \ {0} /\ output.height \in Nat \ {0}
    BY DEF CallInv, IsSize
  <2>2. image.height < 2 * Q16
    BY Q16Assumption, SideAssumption DEF CallInv, IsSize
  <2>3. result = Transform(image, mode, position, output.width, output.height)
    BY DEF CallInv
  <2>4. IsSize(image)
    BY DEF CallInv
  <2>5. /\ result.scale_x = result.scale_y
        /\ result.scale_x = RightScale(image, mode, output.width, output.height)
    BY <2>1, <2>2, <2>3, <2>4, AspectOfFitAndFill
  <2> QED
    BY <2>5, Zenon DEF RightScale
<1> QED
  BY <1>1, Calls, PTL

-----------------------------------------------------------------------------
(***************************************************************************)
(* An image of `side` pixels is as long as dest on the output, and sampled *)
(* with scale: both roundings together cost no more than EdgesInside       *)
(* allows.  n pixels on m are what the scale was computed from.            *)
(***************************************************************************)
Samples(side, dest, scale) ==
    /\ dest \in Nat /\ scale \in Nat
    /\ \E n, m \in Nat \ {0} :
          /\ (2 * dest - 1) * n <= 2 * (side * (m * Q16))
          /\ (2 * scale - 1) * m <= 2 * (n * Q16)

LEMMA FarEdgeInside ==
    ASSUME NEW side \in Nat \ {0}, NEW dest, NEW scale, Samples(side, dest, scale),
           NEW far \in Nat, far <= dest
    PROVE  2 * far * scale <= 2 * side * Q16 * Q16 + far + scale
<1>1. Q16 \in Nat \ {0} /\ dest \in Nat /\ scale \in Nat
  BY Q16Assumption DEF Samples
<1>2. PICK n \in Nat \ {0}, m \in Nat \ {0} :
         /\ (2 * dest - 1) * n <= 2 * (side * (m * Q16))
         /\ (2 * scale - 1) * m <= 2 * (n * Q16)
  BY DEF Samples
<1>3. side * Q16 \in Nat /\ (side * Q16) * Q16 \in Nat
  BY <1>1
<1>4. CASE scale = 0
  <2>1. 2 * far * scale = 0 /\ 2 * side * Q16 * Q16 = 2 * ((side * Q16) * Q16)
    BY <1>1, <1>4
  <2> QED
    BY <1>1, <1>3, <1>4, <2>1
<1>5. CASE far = 0
  <2>1. 2 * far * scale = 0 /\ 2 * side * Q16 * Q16 = 2 * ((side * Q16) * Q16)
    BY <1>1, <1>5
  <2> QED
    BY <1>1, <1>3, <1>5, <2>1
<1>6. CASE scale # 0 /\ far # 0
  <2> DEFINE f == 2 * far - 1
             s == 2 * scale - 1
             A == 2 * (side * (m * Q16))
             B == 2 * (n * Q16)
             nm == n * m
             C == 4 * ((side * Q16) * Q16)
  <2>1. /\ f \in Nat \ {0} /\ s \in Nat \ {0} /\ A \in Nat /\ B \in Nat /\ nm \in Nat \ {0}
        /\ C \in Nat
    BY <1>1, <1>2, <1>3, <1>6
  <2>2. f * n <= A
    <3>1. f * n <= (2 * dest - 1) * n
      BY <1>1, <1>2
    <3>2. f * n \in Int /\ (2 * dest - 1) * n \in Int
      BY <1>1, <1>2
    <3> QED
      BY <1>2, <2>1, <3>1, <3>2
  <2>3. s * m <= B
    BY <1>2
  <2>4. A * B = C * nm
    BY <1>1, <1>2
  <2>5. (f * n) * (s * m) = (f * s) * nm
    BY <1>1, <1>2
  <2>6. f * s = 4 * (far * scale) - 2 * far - 2 * scale + 1
    BY <1>1
  <2> HIDE DEF f, s, A, B, nm, C
  <2>7. f * n \in Nat /\ s * m \in Nat
    BY <1>2, <2>1
  <2>8. (f * n) * (s * m) <= A * B
    <3> DEFINE u == f * n
               v == s * m
    <3>1. u \in Nat /\ v \in Nat /\ u <= A /\ v <= B
      BY <2>2, <2>3, <2>7
    <3> HIDE DEF u, v
    <3>2. u * v <= A * v
      BY <2>1, <3>1
    <3>3. A * v <= A * B
      BY <2>1, <3>1
    <3>4. u * v \in Int /\ A * v \in Int /\ A * B \in Int
      BY <2>1, <3>1
    <3>5. u * v <= A * B
      BY <3>2, <3>3, <3>4
    <3> QED
      BY <3>5 DEF u, v
  <2>9. (f * s) * nm <= C * nm
    BY <2>4, <2>5, <2>8
  <2>10. f * s < C + 1
    <3>1. f * s \in Int /\ C + 1 \in Int /\ (C + 1) * nm = C * nm + nm /\ C * nm \in Int
          /\ (f * s) * nm \in Int
      BY <2>1
    <3>2. (f * s) * nm < (C + 1) * nm
      BY <2>1, <2>9, <3>1
    <3> QED
      BY <2>1, <3>1, <3>2, Divided
  <2>11. /\ 2 * far * scale = 2 * (far * scale)
         /\ 2 * side * Q16 * Q16 = 2 * ((side * Q16) * Q16)
         /\ far * scale \in Int
    BY <1>1, <1>3
  <2> QED
    BY <1>1, <1>3, <2>6, <2>10, <2>11 DEF C
<1> QED
  BY <1>4, <1>5, <1>6

\* What is stretched to the output, and what keeps the scale of the other side.
LEMMA StretchedSamples ==
    ASSUME NEW side \in Nat \ {0}, NEW length \in Nat \ {0}
    PROVE  Samples(side, length * Q16, RoundedDiv(side * Q16, length))
<1> DEFINE scale == RoundedDiv(side * Q16, length)
<1>1. Q16 \in Nat \ {0} /\ side * Q16 \in Nat /\ length * Q16 \in Nat
  BY Q16Assumption
<1>2. scale \in Nat /\ 2 * (scale * length) <= 2 * (side * Q16) + length
  BY <1>1, RoundedDivIsNearest
<1> HIDE DEF scale
<1>3. (2 * scale - 1) * length <= 2 * (side * Q16)
  <2>1. (2 * scale - 1) * length = 2 * (scale * length) - length /\ scale * length \in Int
    BY <1>2
  <2> QED
    BY <1>1, <1>2, <2>1
<1>4. (2 * (length * Q16) - 1) * side <= 2 * (side * (length * Q16))
  <2>1. (2 * (length * Q16) - 1) * side = 2 * (side * (length * Q16)) - side
        /\ side * (length * Q16) \in Int
    BY <1>1
  <2> QED
    BY <2>1
<1> QED
  BY <1>1, <1>2, <1>3, <1>4 DEF Samples, scale

LEMMA ScaledSamples ==
    ASSUME NEW side \in Nat \ {0}, NEW n \in Nat \ {0}, NEW m \in Nat \ {0}
    PROVE  Samples(side, RoundedDiv(side * (m * Q16), n), RoundedDiv(n * Q16, m))
<1> DEFINE scale == RoundedDiv(n * Q16, m)
           dest == RoundedDiv(side * (m * Q16), n)
<1>1. Q16 \in Nat \ {0} /\ n * Q16 \in Nat /\ side * (m * Q16) \in Nat
  BY Q16Assumption
<1>2. scale \in Nat /\ 2 * (scale * m) <= 2 * (n * Q16) + m
  BY <1>1, RoundedDivIsNearest
<1>3. dest \in Nat /\ 2 * (dest * n) <= 2 * (side * (m * Q16)) + n
  BY <1>1, RoundedDivIsNearest
<1> HIDE DEF scale, dest
<1>4. (2 * scale - 1) * m <= 2 * (n * Q16)
  <2>1. (2 * scale - 1) * m = 2 * (scale * m) - m /\ scale * m \in Int
    BY <1>2
  <2> QED
    BY <1>1, <1>2, <2>1
<1>5. (2 * dest - 1) * n <= 2 * (side * (m * Q16))
  <2>1. (2 * dest - 1) * n = 2 * (dest * n) - n /\ dest * n \in Int
    BY <1>3
  <2> QED
    BY <1>1, <1>3, <2>1
<1> QED
  BY <1>2, <1>3, <1>4, <1>5 DEF Samples, scale, dest

LEMMA PlainSamples ==
    ASSUME NEW side \in Nat \ {0}
    PROVE  Samples(side, side * Q16, Q16)
<1>1. Q16 \in Nat \ {0} /\ side * Q16 \in Nat /\ 1 * Q16 = Q16
  BY Q16Assumption
<1>2. /\ (2 * (side * Q16) - 1) * 1 <= 2 * (side * (1 * Q16))
      /\ (2 * Q16 - 1) * 1 <= 2 * (1 * Q16)
  BY <1>1
<1> QED
  BY <1>1, <1>2 DEF Samples

LEMMA ImageSamples ==
    ASSUME NEW im, IsSize(im), NEW how \in Modes, NEW w \in Nat \ {0}, NEW h \in Nat \ {0}
    PROVE  LET dest == Destination(im, how, w, h)
           IN  Samples(im.width, dest.w, dest.scale_x) /\ Samples(im.height, dest.h, dest.scale_y)
<1>1. im.width \in Nat \ {0} /\ im.height \in Nat \ {0}
  BY DEF IsSize
<1>2. CASE how \in {"center", "tile"}
  BY <1>1, <1>2, PlainSamples DEF Destination
<1>3. CASE how = "stretch"
  BY <1>1, <1>3, StretchedSamples DEF Destination
<1>4. CASE how \in {"fill", "fit"}
  <2> DEFINE natural == RoundedDiv(im.width * (h * Q16), im.height)
  <2>1. CASE ByWidth(how, natural, w)
    BY <1>1, <1>4, <2>1, StretchedSamples, ScaledSamples DEF Destination
  <2>2. CASE ~ByWidth(how, natural, w)
    BY <1>1, <1>4, <2>2, StretchedSamples, ScaledSamples DEF Destination
  <2> QED
    BY <2>1, <2>2
<1> QED
  BY <1>2, <1>3, <1>4 DEF Modes

(***************************************************************************)
(* Where the image is at least as long as the output, the offset cuts off  *)
(* some of the surplus, never more than there is.                          *)
(***************************************************************************)
LEMMA OffsetInside ==
    ASSUME NEW dest \in Int, NEW length \in Nat, length * Q16 <= dest,
           NEW pos \in 0 .. Q16, NEW scale
    PROVE  LET offset == Aligned(RoundedDiv((dest - length * Q16) * pos, Q16), scale)
           IN  /\ offset \in Nat
               /\ (scale = Q16 => \E j \in Int : dest = j * Q16) => length * Q16 + offset <= dest
<1> DEFINE d      == dest - length * Q16
           exact  == d * pos
           near   == RoundedDiv(exact, Q16)
           offset == Aligned(near, scale)
<1>1. Q16 \in Nat \ {0} /\ length * Q16 \in Nat /\ pos \in Nat /\ pos <= Q16
  BY Q16Assumption
<1>2. d \in Nat /\ dest = length * Q16 + d
  BY <1>1
<1>3. \A j \in Int : dest = j * Q16 => d = (j - length) * Q16
  BY <1>1
<1> HIDE DEF d
<1>4. exact \in Nat /\ exact <= d * Q16
  BY <1>1, <1>2
<1> HIDE DEF exact
<1>5. near \in Nat /\ 2 * (near * Q16) <= 2 * exact + Q16
  BY <1>1, <1>4, RoundedDivIsNearest
<1> HIDE DEF near
<1>6. near <= d
  <2>1. near * Q16 < (d + 1) * Q16
    <3>1. (d + 1) * Q16 = d * Q16 + Q16 /\ near * Q16 \in Int /\ d * Q16 \in Int
      BY <1>1, <1>2, <1>5
    <3> QED
      BY <1>1, <1>4, <1>5, <3>1
  <2>2. near < d + 1
    BY <1>1, <1>2, <1>5, <2>1, Divided
  <2> QED
    BY <1>2, <1>5, <2>2
<1>7. CASE scale # Q16
  <2>1. offset = near
    BY <1>5, <1>7, AlignedIsWhole
  <2> HIDE DEF offset
  <2> QED
    BY <1>1, <1>2, <1>5, <1>6, <2>1 DEF d, exact, near, offset
<1>8. CASE scale = Q16
  <2>1. PICK k \in Int : /\ offset = k * Q16
                         /\ 2 * (k * Q16) <= 2 * near + Q16
                         /\ 2 * near < 2 * (k * Q16) + Q16
    BY <1>5, <1>8, AlignedIsWhole
  <2> HIDE DEF offset
  <2>2. k * Q16 \in Int /\ (k + 1) * Q16 = k * Q16 + Q16 /\ 0 * Q16 = 0
    BY <1>1, <2>1
  <2>3. k \in Nat
    <3>1. 0 * Q16 < (k + 1) * Q16
      BY <1>1, <1>5, <2>1, <2>2
    <3>2. k + 1 \in Int
      BY <2>1
    <3>3. 0 < k + 1
      BY <1>1, <3>1, <3>2, Divided
    <3> QED
      BY <2>1, <3>3
  <2>4. offset \in Nat
    BY <1>1, <2>1, <2>2, <2>3
  <2>5. ASSUME NEW j \in Int, dest = j * Q16
        PROVE  length * Q16 + offset <= dest
    <3> DEFINE e == j - length
    <3>1. e \in Int /\ d = e * Q16
      BY <1>3, <2>5
    <3> HIDE DEF e
    <3>2. k * Q16 < (e + 1) * Q16
      <4>1. (e + 1) * Q16 = e * Q16 + Q16 /\ e * Q16 \in Int
        BY <1>1, <3>1
      <4> QED
        BY <1>1, <1>2, <1>5, <1>6, <2>1, <2>2, <3>1, <4>1
    <3>3. k < e + 1
      BY <1>1, <2>1, <3>1, <3>2, Divided
    <3>4. k * Q16 <= e * Q16
      BY <1>1, <2>1, <3>1, <3>3
    <3> QED
      BY <1>1, <1>2, <2>1, <2>2, <3>1, <3>4
  <2> QED
    BY <1>8, <2>4, <2>5 DEF d, exact, near, offset
<1> QED
  BY <1>7, <1>8

\* "fill" covers the output,
LEMMA FillCovers ==
    ASSUME NEW a \in Nat \ {0}, NEW b \in Nat \ {0}, NEW w \in Nat \ {0}, NEW h \in Nat \ {0},
           a * h <= b * w
    PROVE  h * Q16 <= RoundedDiv(b * (w * Q16), a)
<1> DEFINE r == RoundedDiv(b * (w * Q16), a)
<1>1. Q16 \in Nat \ {0} /\ b * (w * Q16) \in Nat /\ h * Q16 \in Int
  BY Q16Assumption
<1>2. r \in Nat /\ 2 * (b * (w * Q16)) < 2 * (r * a) + a
  BY <1>1, RoundedDivIsNearest
<1> HIDE DEF r
<1>3. (a * h) * Q16 <= (b * w) * Q16
  <2>1. a * h \in Int /\ b * w \in Int
    OBVIOUS
  <2> QED
    BY <1>1, <2>1
<1>4. /\ (2 * (h * Q16)) * a = 2 * ((a * h) * Q16)
      /\ 2 * (b * (w * Q16)) = 2 * ((b * w) * Q16)
      /\ (2 * r + 1) * a = 2 * (r * a) + a
      /\ (a * h) * Q16 \in Int /\ (b * w) * Q16 \in Int /\ r * a \in Int
  BY <1>1, <1>2
<1>5. (2 * (h * Q16)) * a < (2 * r + 1) * a
  BY <1>2, <1>3, <1>4
<1>6. 2 * (h * Q16) < 2 * r + 1
  <2>1. 2 * (h * Q16) \in Int /\ 2 * r + 1 \in Int
    BY <1>1, <1>2
  <2> QED
    BY <1>5, <2>1, Divided
<1> QED
  BY <1>1, <1>2, <1>6 DEF r

\* and at 1:1 the image takes whole pixels on it.
LEMMA FillIsWhole ==
    ASSUME NEW a \in Nat \ {0}, NEW b \in Nat \ {0}, NEW w \in Nat \ {0}, w < 2 * Q16,
           RoundedDiv(a * Q16, w) = Q16
    PROVE  RoundedDiv(b * (w * Q16), a) = b * Q16
<1>1. Q16 \in Nat \ {0} /\ a * Q16 \in Nat /\ b * Q16 \in Nat /\ b * (w * Q16) \in Nat
  BY Q16Assumption
<1>2. a = w
  <2> DEFINE Q == 2 * Q16
  <2>1. 2 * (Q16 * w) <= 2 * (a * Q16) + w /\ 2 * (a * Q16) < 2 * (Q16 * w) + w
    BY <1>1, RoundedDivIsNearest
  <2>2. /\ 2 * (Q16 * w) = w * Q /\ 2 * (a * Q16) = a * Q
        /\ (a + 1) * Q = a * Q + Q /\ (w + 1) * Q = w * Q + Q
        /\ w * Q \in Int /\ a * Q \in Int /\ Q \in Nat \ {0}
    BY <1>1
  <2>3. w < Q
    OBVIOUS
  <2> HIDE DEF Q
  <2>4. w * Q < (a + 1) * Q /\ a * Q < (w + 1) * Q
    BY <2>1, <2>2, <2>3
  <2>5. w < a + 1 /\ a < w + 1
    BY <2>2, <2>4, Divided
  <2> QED
    BY <2>5
<1> DEFINE r == RoundedDiv(b * (w * Q16), a)
           v == b * Q16
<1>3. r \in Nat /\ 2 * (r * a) <= 2 * (b * (w * Q16)) + a /\ 2 * (b * (w * Q16)) < 2 * (r * a) + a
  BY <1>1, RoundedDivIsNearest
<1> HIDE DEF r
<1>4. 2 * (b * (w * Q16)) = 2 * (v * a) /\ v \in Nat
  BY <1>1, <1>2
<1> HIDE DEF v
<1>5. /\ (r + 1) * a = r * a + a /\ (v + 1) * a = v * a + a
      /\ r * a \in Int /\ v * a \in Int
  BY <1>3, <1>4
<1>6. r * a < (v + 1) * a /\ v * a < (r + 1) * a
  BY <1>3, <1>4, <1>5
<1>7. r < v + 1 /\ v < r + 1
  BY <1>3, <1>4, <1>6, Divided
<1> QED
  BY <1>3, <1>4, <1>7 DEF r, v

\* One side of "fill" or "stretch" on the output.
Covers(dest, length, scale) ==
    /\ length * Q16 <= dest
    /\ scale = Q16 => \E j \in Int : dest = j * Q16

LEMMA FillAndStretchCover ==
    ASSUME NEW im, IsSize(im), NEW how \in {"fill", "stretch"},
           NEW w \in Nat \ {0}, NEW h \in Nat \ {0},
           w < 2 * Q16, h < 2 * Q16, im.height < 2 * Q16
    PROVE  LET dest == Destination(im, how, w, h)
           IN  Covers(dest.w, w, dest.scale_x) /\ Covers(dest.h, h, dest.scale_y)
<1>1. /\ im.width \in Nat \ {0} /\ im.height \in Nat \ {0}
      /\ w * Q16 \in Int /\ h * Q16 \in Int
      /\ im.width * Q16 \in Int /\ im.height * Q16 \in Int
  BY Q16Assumption DEF IsSize
<1>2. \A n \in Int : n \in Nat \ {0} => Covers(n * Q16, n, Q16) /\ \A s : Covers(n * Q16, n, s)
  BY Q16Assumption DEF Covers
<1>3. CASE how = "stretch"
  BY <1>2, <1>3 DEF Destination
<1>4. CASE how = "fill"
  <2> DEFINE natural == RoundedDiv(im.width * (h * Q16), im.height)
             tall == RoundedDiv(im.height * (w * Q16), im.width)
             sx == RoundedDiv(im.width * Q16, w)
             sy == RoundedDiv(im.height * Q16, h)
             dest == Destination(im, how, w, h)
  <2>1. /\ natural \in Nat
        /\ natural < w * Q16 => im.width * h <= im.height * w
    BY <1>1, NaturalTells
  <2>2. CASE natural < w * Q16
    <3>1. dest = [w |-> w * Q16, h |-> tall, scale_x |-> sx, scale_y |-> sx]
      BY <1>4, <2>2 DEF Destination, ByWidth
    <3>2. h * Q16 <= tall
      BY <1>1, <2>1, <2>2, FillCovers
    <3>3. sx = Q16 => tall = im.height * Q16
      BY <1>1, FillIsWhole
    <3> HIDE DEF tall, sx, dest
    <3>4. Covers(tall, h, sx)
      BY <1>1, <3>2, <3>3 DEF Covers
    <3>5. Covers(w * Q16, w, sx)
      BY <1>2
    <3>6. dest.w = w * Q16 /\ dest.h = tall /\ dest.scale_x = sx /\ dest.scale_y = sx
      BY <3>1
    <3> QED
      BY <3>4, <3>5, <3>6 DEF dest
  <2>3. CASE ~(natural < w * Q16)
    <3>1. dest = [w |-> natural, h |-> h * Q16, scale_x |-> sy, scale_y |-> sy]
      BY <1>4, <2>3 DEF Destination, ByWidth
    <3>2. w * Q16 <= natural
      BY <1>1, <2>1, <2>3
    <3>3. sy = Q16 => natural = im.width * Q16
      BY <1>1, FillIsWhole
    <3> HIDE DEF natural, sy, dest
    <3>4. Covers(natural, w, sy)
      BY <1>1, <3>2, <3>3 DEF Covers
    <3>5. Covers(h * Q16, h, sy)
      BY <1>2
    <3>6. dest.w = natural /\ dest.h = h * Q16 /\ dest.scale_x = sy /\ dest.scale_y = sy
      BY <3>1
    <3> QED
      BY <3>4, <3>5, <3>6 DEF dest
  <2> QED
    BY <2>2, <2>3
<1> QED
  BY <1>3, <1>4

\* A side that is covered is sampled inside the image at both its edges.
LEMMA CoveredSide ==
    ASSUME NEW side \in Nat \ {0}, NEW length \in Nat \ {0}, NEW dest, NEW scale,
           Samples(side, dest, scale), NEW pos \in 0 .. Q16,
           NEW offset, offset = Aligned(RoundedDiv((dest - length * Q16) * pos, Q16), scale),
           \/ Covers(dest, length, scale)
           \/ offset <= 0 /\ length * Q16 <= offset + dest
    PROVE  EdgesInside(side, offset, scale, length)
<1>1. dest \in Int /\ scale \in Nat
  BY DEF Samples
<1>2. length * Q16 \in Nat
  BY Q16Assumption
<1>3. offset \in Int
  <2>1. (dest - length * Q16) * pos \in Int
    BY <1>1, <1>2, Q16Assumption
  <2> QED
    BY <2>1, RoundedDivIsClose, AlignedIsWhole, Q16Assumption
<1>4. length * Q16 <= dest
  BY <1>1, <1>2, <1>3 DEF Covers
<1>5. /\ offset \in Nat
      /\ (scale = Q16 => \E j \in Int : dest = j * Q16) => length * Q16 + offset <= dest
  BY <1>1, <1>4, OffsetInside
<1>6. length * Q16 + offset <= dest
  BY <1>1, <1>2, <1>3, <1>5 DEF Covers
<1> DEFINE far == length * Q16 + offset
<1>7. far \in Nat /\ far <= dest
  BY <1>2, <1>5, <1>6
<1>8. 2 * far * scale <= 2 * side * Q16 * Q16 + far + scale
  <2> HIDE DEF far
  <2> QED
    BY <1>7, FarEdgeInside
<1> QED
  BY <1>5, <1>8 DEF EdgesInside

(***************************************************************************)
(* Wherever the background is left out, because the mode covers the output *)
(* or because get_wsbg_image_transform says that the image does, both      *)
(* edges of the output show points of the image: nothing unpainted is      *)
(* seen.  The bound is needed, for "fill" at a scale that rounds to 1:1.   *)
(***************************************************************************)
THEOREM CoveredHasNoGap ==
    ASSUME MaxSide < 2 * Q16
    PROVE  Spec => []CoveredOutputsHaveNoGap
<1>1. CallInv => CoveredOutputsHaveNoGap
  <2> SUFFICES ASSUME CallInv, result # None,
                      \/ mode \in {"fill", "stretch"}
                      \/ IsCovered(image, mode, position, output.width, output.height)
               PROVE  /\ EdgesInside(image.width, result.x, result.scale_x, output.width)
                      /\ EdgesInside(image.height, result.y, result.scale_y, output.height)
    BY DEF CoveredOutputsHaveNoGap
  <2> DEFINE w == output.width
             h == output.height
             dest == Destination(image, mode, w, h)
  <2>1. /\ IsSize(image) /\ mode \in Modes
        /\ w \in Nat \ {0} /\ h \in Nat \ {0}
        /\ image.width \in Nat \ {0} /\ image.height \in Nat \ {0}
        /\ position.x \in 0 .. Q16 /\ position.y \in 0 .. Q16
    BY DEF CallInv, IsSize
  <2>2. w < 2 * Q16 /\ h < 2 * Q16 /\ image.height < 2 * Q16
    BY <2>1, Q16Assumption, SideAssumption DEF CallInv
  <2>3. result = Transform(image, mode, position, w, h)
    BY DEF CallInv
  <2>4. /\ result.x = Aligned(RoundedDiv((dest.w - w * Q16) * position.x, Q16), result.scale_x)
        /\ result.y = Aligned(RoundedDiv((dest.h - h * Q16) * position.y, Q16), result.scale_y)
        /\ result.scale_x = dest.scale_x /\ result.scale_y = dest.scale_y
    BY <2>3 DEF Transform
  <2>5. /\ Samples(image.width, dest.w, result.scale_x)
        /\ Samples(image.height, dest.h, result.scale_y)
    BY <2>1, <2>4, ImageSamples
  <2>6. \/ Covers(dest.w, w, result.scale_x) /\ Covers(dest.h, h, result.scale_y)
        \/ /\ result.x <= 0 /\ w * Q16 <= result.x + dest.w
           /\ result.y <= 0 /\ h * Q16 <= result.y + dest.h
    <3>1. CASE mode \in {"fill", "stretch"}
      BY <2>1, <2>2, <2>4, <3>1, FillAndStretchCover
    <3>2. CASE IsCovered(image, mode, position, w, h)
      BY <2>3, <3>2 DEF IsCovered
    <3> QED
      BY <3>1, <3>2
  <2> HIDE DEF dest, w, h
  <2>7. EdgesInside(image.width, result.x, result.scale_x, w)
    <3>1. \/ Covers(dest.w, w, result.scale_x)
          \/ result.x <= 0 /\ w * Q16 <= result.x + dest.w
      BY <2>6
    <3> QED
      BY <2>1, <2>4, <2>5, <3>1, CoveredSide
  <2>8. EdgesInside(image.height, result.y, result.scale_y, h)
    <3>1. \/ Covers(dest.h, h, result.scale_y)
          \/ result.y <= 0 /\ h * Q16 <= result.y + dest.h
      BY <2>6
    <3> QED
      BY <2>1, <2>4, <2>5, <3>1, CoveredSide
  <2> QED
    BY <2>7, <2>8 DEF w, h
<1> QED
  BY <1>1, Calls, PTL
=============================================================================
