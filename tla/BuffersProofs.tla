---------------------------- MODULE BuffersProofs ----------------------------
(***************************************************************************)
(* Proofs about the buffer cache, for any set of configurations, images,   *)
(* sizes and buffer addresses.  Inv: types and exact reference counts      *)
(* (nothing a configuration holds is freed, nothing nobody holds is kept). *)
(* LookupInv: images remember their files rightly, so that every           *)
(* configuration holds a buffer under a key it would look for itself, and  *)
(* no key is there twice.  From these, that buffers are reused and show    *)
(* what is asked for.                                                      *)
(***************************************************************************)
EXTENDS Buffers, FiniteSetTheorems, TLAPS

(***************************************************************************)
(* rounded_div yields an integer, and a positive one when the quotient is  *)
(* at least one.                                                           *)
(***************************************************************************)
LEMMA RoundedDivInt ==
    ASSUME NEW a \in Int, NEW b \in Nat \ {0}
    PROVE  RoundedDiv(a, b) \in Int
BY DEF RoundedDiv, Quotient

LEMMA RoundedDivPositive ==
    ASSUME NEW a \in Nat \ {0}, NEW b \in Nat \ {0}, b <= a
    PROVE  RoundedDiv(a, b) \in Nat \ {0}
<1> DEFINE x == (a * 2) \div b
<1>1. x \in Int /\ x >= 2
  <2>1. x \in Int /\ a * 2 = b * x + ((a * 2) % b) /\ (a * 2) % b \in 0 .. b - 1
    OBVIOUS
  <2>2. ASSUME x <= 1 PROVE FALSE
    <3>1. b * x <= b
      BY <2>1, <2>2
    <3> QED
      BY <2>1, <3>1
  <2> QED
    BY <2>1, <2>2
<1>2. RoundedDiv(a, b) = (x \div 2) + (x % 2)
  BY <1>1 DEF RoundedDiv, Quotient
<1> QED
  BY <1>1, <1>2

-----------------------------------------------------------------------------
(***************************************************************************)
(* The transform of a file at a size in Sizes is one of fixed-point        *)
(* integers with positive scales, and the key and the scaled size computed *)
(* from it have their types: no division by zero is met.                   *)
(***************************************************************************)
Known(i, im) ==
    /\ im \in ImageType
    /\ im.width = Size[i].width
    /\ im.height = Size[i].height

LEMMA DestinationType ==
    ASSUME NEW i \in Images, NEW im, Known(i, im), NEW size \in Sizes,
           NEW mode \in Modes \ {"solid_color"}
    PROVE  Destination(im, mode, size.width, size.height)
             \in [w: Int, h: Int, scale_x: Nat \ {0}, scale_y: Nat \ {0}]
<1> DEFINE width == size.width
           height == size.height
<1>1. im.width \in Nat \ {0} /\ im.height \in Nat \ {0}
  BY ImagesAssumption DEF Known
<1>2. width \in Nat \ {0} /\ height \in Nat \ {0}
  BY BuffersAssumption
<1>3. Q16 \in Nat \ {0}
  BY Q16Assumption
<1>4. /\ im.width * Q16 \in Nat \ {0} /\ width <= im.width * Q16
      /\ im.height * Q16 \in Nat \ {0} /\ height <= im.height * Q16
  BY <1>1, <1>3, BuffersAssumption DEF Known
<1>5. width * Q16 \in Int /\ height * Q16 \in Int
  BY <1>2, <1>3
<1>6. /\ RoundedDiv(im.width * Q16, width) \in Nat \ {0}
      /\ RoundedDiv(im.height * Q16, height) \in Nat \ {0}
  BY <1>2, <1>4, RoundedDivPositive
<1>7. /\ RoundedDiv(im.width * (height * Q16), im.height) \in Int
      /\ RoundedDiv(im.height * (width * Q16), im.width) \in Int
  <2>1. im.width * (height * Q16) \in Int /\ im.height * (width * Q16) \in Int
    BY <1>1, <1>5
  <2> QED
    BY <1>1, <2>1, RoundedDivInt
<1> HIDE DEF width, height
<1>8. Destination(im, mode, width, height)
        \in [w: Int, h: Int, scale_x: Nat \ {0}, scale_y: Nat \ {0}]
  <2>1. CASE mode \in {"center", "tile"}
    BY <1>3, <1>4, <2>1 DEF Destination
  <2>2. CASE mode = "stretch"
    BY <1>5, <1>6, <2>2 DEF Destination
  <2>3. CASE mode \in {"fill", "fit"}
    BY <1>5, <1>6, <1>7, <2>3 DEF Destination
  <2> QED
    BY <2>1, <2>2, <2>3 DEF Modes
<1> QED
  BY <1>8 DEF width, height

LEMMA TransformIsTyped ==
    ASSUME NEW c \in Configs, ~IsColor(c),
           NEW im, Known(Look[c].image, im), NEW size \in Sizes
    PROVE  LET t == Transform(im, Look[c].mode, Look[c].position,
                              size.width, size.height)
           IN  /\ t \in TransformType
               /\ t.scale_x \in Nat \ {0}
               /\ t.scale_y \in Nat \ {0}
<1> DEFINE dest == Destination(im, Look[c].mode, size.width, size.height)
           pos == Look[c].position
<1>1. Look[c].image \in Images /\ Look[c].mode \in Modes \ {"solid_color"}
  BY BuffersAssumption DEF IsColor
<1>2. dest \in [w: Int, h: Int, scale_x: Nat \ {0}, scale_y: Nat \ {0}]
  BY <1>1, DestinationType
<1>3. pos.x \in Int /\ pos.y \in Int /\ size.width \in Int /\ size.height \in Int
  BY BuffersAssumption, Q16Assumption
<1> HIDE DEF dest, pos
<1>4. /\ (dest.w - size.width * Q16) * pos.x \in Int
      /\ (dest.h - size.height * Q16) * pos.y \in Int
  BY <1>2, <1>3, Q16Assumption
<1>5. /\ RoundedDiv((dest.w - size.width * Q16) * pos.x, Q16) \in Int
      /\ RoundedDiv((dest.h - size.height * Q16) * pos.y, Q16) \in Int
  BY <1>4, Q16Assumption, RoundedDivInt
<1>6. ASSUME NEW offset \in Int, NEW scale PROVE Aligned(offset, scale) \in Int
  <2>1. Q16 \div 2 \in Int
    BY Q16Assumption
  <2>2. (offset + Q16 \div 2) \div Q16 \in Int
    BY <2>1, Q16Assumption
  <2> QED
    BY <2>2, Q16Assumption DEF Aligned
<1> QED
  BY <1>2, <1>5, <1>6 DEF Transform, TransformType, dest, pos

LEMMA KeyType ==
    ASSUME NEW c \in Configs, ~IsColor(c),
           NEW im, Known(Look[c].image, im), NEW size \in Sizes
    PROVE  LET key == ImageKey(c, im, size)
           IN  /\ key \in Keys
               /\ key.transform \in TransformType
               /\ key.background \in Colors \union {Clear}
               /\ key.repeat \in BOOLEAN
               /\ ScaledSize(im, key.transform) \in [width: Int, height: Int]
<1> DEFINE t == Transform(im, Look[c].mode, Look[c].position,
                          size.width, size.height)
           key == ImageKey(c, im, size)
<1>1. t \in TransformType /\ t.scale_x \in Nat \ {0} /\ t.scale_y \in Nat \ {0}
  BY TransformIsTyped
<1>2. /\ key.transform = t
      /\ key.background \in Colors \union {Clear}
      /\ key.repeat \in BOOLEAN
      /\ key \in [list: Images, transform: {t},
                   background: Colors \union {Clear}, repeat: BOOLEAN]
  BY BuffersAssumption DEF ImageKey, Background, IsColor
<1>3. im.width * Q16 \in Int /\ im.height * Q16 \in Int
  BY Q16Assumption DEF Known, ImageType
<1>4. ScaledSize(im, t) \in [width: Int, height: Int]
  BY <1>1, <1>3, RoundedDivInt DEF ScaledSize
<1> QED
  BY <1>1, <1>2, <1>4 DEF Keys

-----------------------------------------------------------------------------
(***************************************************************************)
(* load_image keeps an image well formed: it has its file's size or none,  *)
(* and no surface without a size.                                          *)
(***************************************************************************)
Sound(i, im) ==
    /\ im \in ImageType
    /\ im.width \in {-1, 0, Size[i].width}
    /\ im.width > 0 => im.height = Size[i].height
    /\ im.surface # NULL => im.width > 0

LEMMA LoadImageSound ==
    ASSUME NEW i \in Images, NEW im, Sound(i, im),
           NEW color \in Colors, NEW scaled \in [width: Int, height: Int],
           scaled.width = 0 \/ im.width > 0,
           NEW r \in LoadImage(i, im, color, scaled)
    PROVE  Sound(i, r)
<1> DEFINE fresh == [UnloadImage(im) EXCEPT !.background = color]
           Result(x) == IF x.surface = NULL /\ ~(x.is_scalable /\ scaled.width = 0)
                        THEN [x EXCEPT !.width = -1]
                        ELSE x
<1>1. CASE r = im
  BY <1>1
<1>2. ASSUME NEW x \in LoadPixbuf(i, fresh, scaled), r = Result(x)
      PROVE  Sound(i, r)
  <2>1. Size[i].width \in Nat \ {0} /\ Size[i].height \in Nat \ {0}
    BY ImagesAssumption
  <2>2. Sound(i, fresh) /\ fresh.surface = NULL /\ fresh.background \in Colors
    BY DEF Sound, UnloadImage, ImageType
  <2>3. scaled.width = 0 \/ fresh.width > 0
    BY DEF UnloadImage, Sound, ImageType
  <2> HIDE DEF fresh
  <2>4. Sound(i, x)
    <3> DEFINE probed == IF fresh.width <= 0 /\ i \in Scalable
                         THEN [fresh EXCEPT !.width = Size[i].width,
                                            !.height = Size[i].height,
                                            !.is_scalable = TRUE]
                         ELSE fresh
               natural == scaled.width = 0
               pixels == [background |-> fresh.background,
                    width  |-> IF natural THEN Size[i].width ELSE scaled.width,
                    height |-> IF natural THEN Size[i].height ELSE scaled.height]
               sized == IF natural THEN [probed EXCEPT !.width = Size[i].width,
                                                       !.height = Size[i].height]
                                   ELSE probed
               loaded == [sized EXCEPT !.surface = pixels,
                                !.background = IF i \in Alpha THEN @ ELSE Clear]
    <3>0. ASSUME NEW y, Sound(i, y)
          PROVE  LET z == [y EXCEPT !.width = Size[i].width,
                                    !.height = Size[i].height]
                 IN  /\ Sound(i, z) /\ z.surface = y.surface /\ z.width > 0
                     /\ Sound(i, [z EXCEPT !.is_scalable = TRUE])
                     /\ [z EXCEPT !.is_scalable = TRUE].surface = y.surface
      <4> DEFINE z == [y EXCEPT !.width = Size[i].width, !.height = Size[i].height]
                 s == [z EXCEPT !.is_scalable = TRUE]
      <4>1. y \in ImageType
        BY <3>0 DEF Sound
      <4>2. z \in ImageType
        <5>1. Size[i].width \in Int /\ Size[i].height \in Int
          BY <2>1
        <5> QED
          BY <5>1, <4>1, Zenon DEF ImageType
      <4>3. z.surface = y.surface /\ z.width = Size[i].width /\ z.height = Size[i].height
        BY <4>1 DEF ImageType
      <4> HIDE DEF z
      <4>4. /\ s \in ImageType /\ s.surface = z.surface
            /\ s.width = z.width /\ s.height = z.height
        BY <4>2 DEF ImageType
      <4> HIDE DEF s
      <4>5. Sound(i, z) /\ Sound(i, s) /\ z.width > 0
        BY <2>1, <4>2, <4>3, <4>4 DEF Sound
      <4> QED
        BY <4>3, <4>4, <4>5 DEF z, s
    <3>1. Sound(i, probed) /\ probed.surface = NULL
      BY <2>2, <3>0
    <3>2. pixels \in Surface /\ pixels # NULL
      BY <2>1, <2>2, ImagesAssumption DEF Surface
    <3>3. probed.width > 0 \/ natural
      BY <2>2, <2>3 DEF Sound, ImageType
    <3> HIDE DEF pixels, probed
    <3>4. Sound(i, sized) /\ sized.width > 0
      BY <3>0, <3>1, <3>3
    <3> HIDE DEF sized
    <3>5. Sound(i, loaded)
      BY <3>2, <3>4 DEF Sound, ImageType
    <3>6. x \in {loaded, probed, fresh}
      BY <1>2 DEF LoadPixbuf, probed, pixels, sized
    <3> QED
      BY <2>2, <3>1, <3>5, <3>6
  <2>5. CASE r = x
    BY <2>4, <2>5
  <2>6. CASE x.surface = NULL /\ r = [x EXCEPT !.width = -1]
    <3>1. r \in ImageType /\ r.width = -1 /\ r.surface = NULL
      BY <2>4, <2>6 DEF Sound, ImageType
    <3> QED
      BY <3>1 DEF Sound
  <2> QED
    BY <1>2, <2>5, <2>6
<1> QED
  BY <1>1, <1>2 DEF LoadImage

(***************************************************************************)
(* After either load_image of get_wsbg_buffer a loaded image has the size  *)
(* of its file.                                                            *)
(***************************************************************************)
LEMMA LoadedIsKnown ==
    ASSUME NEW i, NEW im, Sound(i, im), Loaded(im)
    PROVE  Known(i, im)
BY DEF Sound, Loaded, Known, ImageType

-----------------------------------------------------------------------------
(***************************************************************************)
(* The buffer table while render_frame runs: b has been promised to a      *)
(* configuration that does not hold it yet, so its count is one ahead of   *)
(* its holders; b = NULL when nothing is promised.                         *)
(***************************************************************************)
Promised(table, b) ==
    /\ table \in [Buffers -> BufferType \union {NULL}]
    /\ \A x \in Buffers :
          IF table[x] = NULL THEN Holders(x) = {} /\ x # b
          ELSE table[x].ref_count =
                  Cardinality(Holders(x)) + (IF x = b THEN 1 ELSE 0)
    /\ \A x \in Buffers : table[x] # NULL /\ x # b => Holders(x) # {}

Inv == TypeOK /\ RefCountExact

LEMMA HoldersFinite ==
    ASSUME NEW b
    PROVE  IsFiniteSet(Holders(b)) /\ Cardinality(Holders(b)) \in Nat
BY BuffersAssumption, FS_Subset, FS_CardinalityType DEF Holders

\* Between two steps nothing is promised.
LEMMA NothingPromised ==
    ASSUME Inv
    PROVE  Promised(buffer, NULL)
<1>1. buffer \in [Buffers -> BufferType \union {NULL}]
  BY DEF Inv, TypeOK
<1>2. \A x \in Buffers : x # NULL
  BY BuffersAssumption
<1>3. \A x \in Buffers : Cardinality(Holders(x)) + 0 = Cardinality(Holders(x))
  BY HoldersFinite
<1> QED
  BY <1>1, <1>2, <1>3 DEF Inv, RefCountExact, Promised

\* A reference is taken on a live buffer, or a buffer created, for a promise.
LEMMA AcquirePromises ==
    ASSUME Inv, NEW b \in Live
    PROVE  Promised(Acquire(buffer, b), b)
<1> DEFINE table == Acquire(buffer, b)
<1>1. Promised(buffer, NULL)
  BY NothingPromised
<1>2. b \in Buffers /\ buffer[b] \in BufferType /\ b # NULL
  BY BuffersAssumption DEF Live, Inv, TypeOK
<1>3. /\ table[b] \in BufferType
      /\ table[b].ref_count = buffer[b].ref_count + 1
      /\ table \in [Buffers -> BufferType \union {NULL}]
      /\ \A x \in Buffers : x # b => table[x] = buffer[x]
  <2> DEFINE rec == [buffer[b] EXCEPT !.ref_count = @ + 1]
  <2>1. rec \in BufferType /\ rec.ref_count = buffer[b].ref_count + 1
    BY <1>2 DEF BufferType
  <2>2. table = [buffer EXCEPT ![b] = rec]
    BY DEF Acquire
  <2> HIDE DEF rec, table
  <2> QED
    BY <1>1, <1>2, <2>1, <2>2 DEF Promised
<1>4. table[b] # NULL /\ buffer[b] # NULL
  BY <1>2, <1>3, BuffersAssumption
<1>5. buffer[b].ref_count = Cardinality(Holders(b))
  BY <1>2, <1>4 DEF Inv, RefCountExact
<1> HIDE DEF table
<1>6. \A x \in Buffers : x # NULL
  BY BuffersAssumption
<1>7. Promised(table, b)
  BY <1>1, <1>2, <1>3, <1>4, <1>5, <1>6 DEF Promised
<1> QED
  BY <1>7 DEF table

LEMMA CreatePromises ==
    ASSUME Inv, NEW b \in Buffers \ Live, NEW key \in Keys, NEW pixels \in Pixels
    PROVE  Promised(Create(buffer, b, key, pixels), b)
<1> DEFINE table == Create(buffer, b, key, pixels)
           rec == [key |-> key, ref_count |-> 1, pixels |-> pixels]
<1>1. Promised(buffer, NULL)
  BY NothingPromised
<1>2. buffer[b] = NULL /\ Holders(b) = {}
  BY DEF Inv, RefCountExact, Live
<1>3. rec \in BufferType /\ rec # NULL /\ rec.ref_count = 1
  BY BuffersAssumption DEF BufferType
<1>4. table = [buffer EXCEPT ![b] = rec]
  BY DEF Create
<1>5. Cardinality(Holders(b)) = 0
  BY <1>2, FS_EmptySet
<1>6. \A x \in Buffers : x # NULL
  BY BuffersAssumption
<1> HIDE DEF table, rec
<1>7. Promised(table, b)
  BY <1>1, <1>2, <1>3, <1>4, <1>5, <1>6 DEF Promised
<1> QED
  BY <1>7 DEF table

(***************************************************************************)
(* Handing the promised buffer to c and releasing the one c held before    *)
(* makes the counts exact again, also when the two are the same buffer.    *)
(***************************************************************************)
LEMMA ReleaseKeepsCounts ==
    ASSUME Inv, NEW c \in Configs, NEW b \in Buffers \union {NULL},
           NEW table, Promised(table, b),
           buffer' = Release(table, held[c]),
           held' = [held EXCEPT ![c] = b]
    PROVE  /\ buffer' \in [Buffers -> BufferType \union {NULL}]
           /\ held' \in [Configs -> Buffers \union {NULL}]
           /\ RefCountExact'
<1> DEFINE old == held[c]
<1>1. old \in Buffers \union {NULL} /\ held \in [Configs -> Buffers \union {NULL}]
  BY DEF Inv, TypeOK
<1>2. held' \in [Configs -> Buffers \union {NULL}]
  BY <1>1
<1>3. NULL \notin Buffers /\ NULL \notin BufferType
  BY BuffersAssumption
<1>4. \A x \in Buffers :
         Holders(x)' = IF x = b THEN Holders(x) \union {c} ELSE Holders(x) \ {c}
  BY <1>1 DEF Holders
<1>5. \A x \in Buffers : c \in Holders(x) <=> x = old
  BY DEF Holders
<1>6. \A x \in Buffers :
         /\ Cardinality(Holders(x)) \in Nat
         /\ Cardinality(Holders(x) \union {c}) =
               IF x = old THEN Cardinality(Holders(x)) ELSE Cardinality(Holders(x)) + 1
         /\ Cardinality(Holders(x) \ {c}) =
               IF x = old THEN Cardinality(Holders(x)) - 1 ELSE Cardinality(Holders(x))
         /\ Cardinality(Holders(x) \ {c}) = 0 <=> Holders(x) \ {c} = {}
  <2> SUFFICES ASSUME NEW x \in Buffers
               PROVE  /\ Cardinality(Holders(x)) \in Nat
                      /\ Cardinality(Holders(x) \union {c}) =
                            IF x = old THEN Cardinality(Holders(x))
                                       ELSE Cardinality(Holders(x)) + 1
                      /\ Cardinality(Holders(x) \ {c}) =
                            IF x = old THEN Cardinality(Holders(x)) - 1
                                       ELSE Cardinality(Holders(x))
                      /\ Cardinality(Holders(x) \ {c}) = 0 <=> Holders(x) \ {c} = {}
    OBVIOUS
  <2>1. IsFiniteSet(Holders(x)) /\ Cardinality(Holders(x)) \in Nat
    BY HoldersFinite
  <2>2. IsFiniteSet(Holders(x) \ {c})
    BY <2>1, FS_RemoveElement
  <2> QED
    BY <1>5, <2>1, <2>2, FS_AddElement, FS_RemoveElement, FS_EmptySet
<1>7. table \in [Buffers -> BufferType \union {NULL}]
  BY DEF Promised
<1>8. \A x \in Buffers : table[x] = NULL => x # old
  BY <1>5 DEF Promised
<1> HIDE DEF old
<1>9. /\ buffer' \in [Buffers -> BufferType \union {NULL}]
      /\ \A x \in Buffers : x # old => buffer'[x] = table[x]
      /\ old \in Buffers =>
           IF table[old].ref_count = 1 THEN buffer'[old] = NULL
           ELSE /\ buffer'[old] \in BufferType
                /\ buffer'[old].ref_count = table[old].ref_count - 1
  <2>1. CASE old = NULL
    BY <1>3, <1>7, <2>1 DEF Release, old
  <2>2. CASE old \in Buffers
    <3> DEFINE rec == table[old]
               left == rec.ref_count - 1
               less == [rec EXCEPT !.ref_count = left]
    <3>1. rec \in BufferType
      BY <1>7, <1>8, <2>2
    <3>2. rec.ref_count # 1 =>
             less \in BufferType /\ less.ref_count = rec.ref_count - 1
      BY <3>1 DEF BufferType
    <3>3. buffer' = [table EXCEPT ![old] = IF left = 0 THEN NULL ELSE less]
      <4>1. old # NULL /\ buffer' = Release(table, old)
        BY <1>3, <2>2 DEF old
      <4> QED
        BY <4>1, Zenon DEF Release
    <3>4. left = 0 <=> rec.ref_count = 1
      BY <3>1 DEF BufferType
    <3> HIDE DEF less, left
    <3> QED
      BY <1>7, <2>2, <3>2, <3>3, <3>4
  <2> QED
    BY <1>1, <2>1, <2>2 DEF old
<1>10. RefCountExact'
  <2> SUFFICES ASSUME NEW x \in Buffers
               PROVE  IF buffer'[x] = NULL THEN Holders(x)' = {}
                      ELSE /\ Holders(x)' # {}
                           /\ buffer'[x].ref_count = Cardinality(Holders(x)')
    BY DEF RefCountExact
  <2>1. IF table[x] = NULL THEN Holders(x) = {} /\ x # b /\ x # old
        ELSE /\ table[x] \in BufferType
             /\ table[x].ref_count =
                   Cardinality(Holders(x)) + (IF x = b THEN 1 ELSE 0)
             /\ x # b => Holders(x) # {}
    BY <1>7, <1>8 DEF Promised
  <2> DEFINE n == Cardinality(Holders(x))
             more == Cardinality(Holders(x) \union {c})
             less == Cardinality(Holders(x) \ {c})
  <2>2. /\ n \in Nat
        /\ more = IF x = old THEN n ELSE n + 1
        /\ less = IF x = old THEN n - 1 ELSE n
        /\ less = 0 <=> Holders(x) \ {c} = {}
    BY <1>6
  <2>3. Cardinality(Holders(x)') = IF x = b THEN more ELSE less
    BY <1>4
  <2>4. Holders(x)' = IF x = b THEN Holders(x) \union {c} ELSE Holders(x) \ {c}
    BY <1>4
  <2>5. table[x] # NULL => table[x].ref_count = n + (IF x = b THEN 1 ELSE 0)
    BY <2>1
  <2> HIDE DEF n, more, less
  <2>6. CASE table[x] = NULL
    <3>1. buffer'[x] = NULL /\ Holders(x)' = {}
      BY <1>4, <1>9, <2>1, <2>6
    <3> QED
      BY <3>1
  <2>7. CASE table[x] # NULL /\ x # old
    <3>1. buffer'[x] = table[x]
      BY <1>9, <2>7
    <3>2. buffer'[x] # NULL
      BY <2>7, <3>1
    <3>3. Holders(x)' # {}
      BY <1>5, <2>1, <2>7, <2>4 DEF old
    <3>4. buffer'[x].ref_count = Cardinality(Holders(x)')
      BY <2>7, <2>2, <2>3, <2>5, <3>1
    <3> QED
      BY <3>2, <3>3, <3>4
  <2>8. CASE table[x] # NULL /\ x = old
    <3>1. IF table[x].ref_count = 1 THEN buffer'[x] = NULL
          ELSE /\ buffer'[x] # NULL
               /\ buffer'[x].ref_count = table[x].ref_count - 1
      BY <1>3, <1>9, <2>8
    <3>2. c \in Holders(x) /\ n # 0
      <4>1. c \in Holders(x)
        BY <1>5, <2>8 DEF old
      <4> QED
        BY <4>1, HoldersFinite, FS_EmptySet DEF n
    <3>3. CASE x = b
      BY <2>8, <2>2, <2>3, <2>4, <2>5, <3>1, <3>2, <3>3
    <3>4. CASE x # b /\ n = 1
      BY <2>8, <2>2, <2>4, <2>5, <3>1, <3>4
    <3>5. CASE x # b /\ n # 1
      BY <2>8, <2>2, <2>3, <2>4, <2>5, <3>1, <3>2, <3>5
    <3> QED
      BY <3>3, <3>4, <3>5
  <2> QED
    BY <2>6, <2>7, <2>8
<1> QED
  BY <1>2, <1>9, <1>10

-----------------------------------------------------------------------------
\* What both ways of rendering, and each of their outcomes, come down to.
LEMMA KeepPreserves ==
    ASSUME Inv, NEW c \in Configs, NEW size \in Sizes,
           NEW b \in Buffers \union {NULL}, NEW table, Promised(table, b),
           Keep(c, size, table, b)
    PROVE  /\ buffer' \in [Buffers -> BufferType \union {NULL}]
           /\ held' \in [Configs -> Buffers \union {NULL}]
           /\ asked' \in [Configs -> Sizes \union {NULL}]
           /\ RefCountExact'
<1>1. asked' \in [Configs -> Sizes \union {NULL}]
  BY DEF Keep, Inv, TypeOK
<1> QED
  BY <1>1, ReleaseKeepsCounts DEF Keep

LEMMA OutcomesPreserve ==
    ASSUME Inv, NEW c \in Configs, NEW size \in Sizes,
           NEW key \in Keys, NEW pixels \in Pixels,
           Hit(c, size, key) \/ Miss(c, size, key, pixels) \/ Fail(c, size)
    PROVE  /\ buffer' \in [Buffers -> BufferType \union {NULL}]
           /\ held' \in [Configs -> Buffers \union {NULL}]
           /\ asked' \in [Configs -> Sizes \union {NULL}]
           /\ RefCountExact'
<1>1. CASE Hit(c, size, key)
  <2>1. PICK b \in Live : Keep(c, size, Acquire(buffer, b), b)
    BY <1>1 DEF Hit
  <2> QED
    BY <2>1, AcquirePromises, KeepPreserves DEF Live
<1>2. CASE Miss(c, size, key, pixels)
  <2>1. PICK b \in Buffers \ Live : Keep(c, size, Create(buffer, b, key, pixels), b)
    BY <1>2 DEF Miss
  <2> QED
    BY <2>1, CreatePromises, KeepPreserves
<1>3. CASE Fail(c, size)
  BY <1>3, NothingPromised, KeepPreserves DEF Fail
<1> QED
  BY <1>1, <1>2, <1>3

LEMMA RenderColorPreserves ==
    ASSUME Inv, NEW c \in Configs, NEW size \in Sizes, RenderColor(c, size)
    PROVE  Inv'
<1>1. Look[c].color \in Colors
  BY BuffersAssumption
<1>2. ColorKey(c) \in Keys
  BY <1>1 DEF ColorKey, Keys
<1>3. ColorPixels(c) \in Pixels
  BY <1>1 DEF ColorPixels, Pixels
<1>4. /\ buffer' \in [Buffers -> BufferType \union {NULL}]
      /\ held' \in [Configs -> Buffers \union {NULL}]
      /\ asked' \in [Configs -> Sizes \union {NULL}]
      /\ RefCountExact'
  BY <1>2, <1>3, OutcomesPreserve DEF RenderColor
<1> QED
  BY <1>4 DEF Inv, TypeOK, ImageOK, RenderColor

LEMMA RenderImagePreserves ==
    ASSUME Inv, NEW c \in Configs, NEW size \in Sizes, RenderImage(c, size)
    PROVE  Inv'
<1> DEFINE i == Look[c].image
           color == Look[c].color
<1>1. ~IsColor(c) /\ i \in Images /\ color \in Colors
  BY BuffersAssumption DEF RenderImage, IsColor
<1>2. Sound(i, image[i]) /\ \A j \in Images : Sound(j, image[j])
  BY <1>1 DEF Inv, TypeOK, ImageOK, Sound
<1>3. Natural \in [width: Int, height: Int] /\ Natural.width = 0
  BY DEF Natural
<1>4. \A im \in KnownSize(c) : Sound(i, im)
  BY <1>1, <1>2, <1>3, LoadImageSound DEF KnownSize
<1>5. ASSUME NEW im, Sound(i, im), image' = [image EXCEPT ![i] = im],
             /\ buffer' \in [Buffers -> BufferType \union {NULL}]
             /\ held' \in [Configs -> Buffers \union {NULL}]
             /\ asked' \in [Configs -> Sizes \union {NULL}]
             /\ RefCountExact'
      PROVE  Inv'
  <2>1. image' \in [Images -> ImageType]
    BY <1>5 DEF Inv, TypeOK, Sound
  <2>2. \A j \in Images : Sound(j, image'[j])
    BY <1>1, <1>2, <1>5 DEF Inv, TypeOK
  <2>3. \A j \in Images : ImageOK(j)'
    BY <2>2 DEF ImageOK, Sound
  <2> QED
    BY <1>5, <2>1, <2>3 DEF Inv, TypeOK, RenderImage
<1> HIDE DEF i, color
<1>6. PICK im \in KnownSize(c) :
         \/ /\ ~Loaded(im)
            /\ Fail(c, size)
            /\ image' = [image EXCEPT ![i] = im]
         \/ /\ Loaded(im)
            /\ Hit(c, size, ImageKey(c, im, size))
            /\ image' = [image EXCEPT ![i] = im]
         \/ LET key == ImageKey(c, im, size)
            IN  /\ Loaded(im)
                /\ Missed(key)
                /\ \E drawn \in LoadImage(i, im, color,
                                          ScaledSize(im, key.transform)) :
                     /\ image' = [image EXCEPT ![i] = drawn]
                     /\ \/ /\ Loaded(drawn)
                           /\ Miss(c, size, key, ImagePixels(drawn, key, size))
                        \/ Fail(c, size)
  BY DEF RenderImage, i, color
<1>7. Sound(i, im)
  BY <1>4, <1>6
<1>8. ASSUME Fail(c, size)
      PROVE  /\ buffer' \in [Buffers -> BufferType \union {NULL}]
             /\ held' \in [Configs -> Buffers \union {NULL}]
             /\ asked' \in [Configs -> Sizes \union {NULL}]
             /\ RefCountExact'
  BY <1>8, NothingPromised, KeepPreserves DEF Fail
<1>9. CASE ~Loaded(im) /\ Fail(c, size) /\ image' = [image EXCEPT ![i] = im]
  BY <1>5, <1>7, <1>8, <1>9
<1>10. CASE Loaded(im)
  <2> DEFINE key == ImageKey(c, im, size)
             scaled == ScaledSize(im, key.transform)
  <2>1. Known(i, im)
    BY <1>7, <1>10, LoadedIsKnown
  <2>2. /\ key \in Keys
        /\ key.transform \in TransformType
        /\ key.background \in Colors \union {Clear}
        /\ key.repeat \in BOOLEAN
        /\ scaled \in [width: Int, height: Int]
    BY <1>1, <2>1, KeyType DEF i
  <2>3. \A drawn \in LoadImage(i, im, color, scaled) : Sound(i, drawn)
    BY <1>1, <1>7, <1>10, <2>2, LoadImageSound DEF Loaded
  <2>4. \A drawn : Sound(i, drawn) => ImagePixels(drawn, key, size) \in Pixels
    <3> SUFFICES ASSUME NEW drawn, Sound(i, drawn)
                 PROVE  ImagePixels(drawn, key, size) \in Pixels
      OBVIOUS
    <3>1. drawn.surface \in Surface \union {NULL}
      BY DEF Sound, ImageType
    <3> HIDE DEF key
    <3> QED
      BY <2>2, <3>1 DEF ImagePixels, Pixels
  <2>5. CASE Hit(c, size, key) /\ image' = [image EXCEPT ![i] = im]
    <3>1. \E pixels : pixels \in Pixels
      BY <1>7, <2>4
    <3> QED
      BY <1>5, <1>7, <2>2, <2>5, <3>1, OutcomesPreserve
  <2>6. ASSUME NEW drawn \in LoadImage(i, im, color, scaled),
               image' = [image EXCEPT ![i] = drawn],
               Miss(c, size, key, ImagePixels(drawn, key, size)) \/ Fail(c, size)
        PROVE  Inv'
    <3>1. Sound(i, drawn) /\ ImagePixels(drawn, key, size) \in Pixels
      BY <2>3, <2>4, <2>6
    <3> HIDE DEF key
    <3> QED
      BY <1>5, <2>2, <2>6, <3>1, OutcomesPreserve
  <2> QED
    BY <1>6, <1>10, <2>5, <2>6
<1> QED
  BY <1>6, <1>9, <1>10

LEMMA DestroyConfigPreserves ==
    ASSUME Inv, NEW c \in Configs, DestroyConfig(c)
    PROVE  Inv'
<1>1. /\ buffer' \in [Buffers -> BufferType \union {NULL}]
      /\ held' \in [Configs -> Buffers \union {NULL}]
      /\ RefCountExact'
  BY NothingPromised, ReleaseKeepsCounts DEF DestroyConfig
<1>2. asked' \in [Configs -> Sizes \union {NULL}]
  BY DEF DestroyConfig, Inv, TypeOK
<1> QED
  BY <1>1, <1>2 DEF Inv, TypeOK, ImageOK, DestroyConfig

LEMMA UnloadImagesPreserves ==
    ASSUME Inv, UnloadImages
    PROVE  Inv'
<1>1. \A i \in Images : Sound(i, image[i]) /\ image'[i] = UnloadImage(image[i])
  BY DEF Inv, TypeOK, ImageOK, Sound, UnloadImages
<1>2. \A i \in Images : Sound(i, image'[i])
  BY <1>1 DEF Sound, UnloadImage, ImageType
<1>3. image' \in [Images -> ImageType] /\ \A i \in Images : ImageOK(i)'
  BY <1>2 DEF UnloadImages, ImageOK, Sound
<1>4. RefCountExact'
  BY DEF Inv, RefCountExact, Holders, UnloadImages
<1> QED
  BY <1>3, <1>4 DEF Inv, TypeOK, UnloadImages

-----------------------------------------------------------------------------
(***************************************************************************)
(* Spec keeps Inv, and so types and reference counts.                      *)
(***************************************************************************)
LEMMA Invariance == Spec => []Inv
<1>1. Init => Inv
  <2> SUFFICES ASSUME Init PROVE Inv
    OBVIOUS
  <2>1. TypeOK
    BY ImagesAssumption DEF Init, TypeOK, ImageOK, NewImage, ImageType
  <2>2. RefCountExact
    BY BuffersAssumption DEF Init, RefCountExact, Holders
  <2> QED
    BY <2>1, <2>2 DEF Inv
<1>2. Inv /\ [Next]_vars => Inv'
  <2> SUFFICES ASSUME Inv, [Next]_vars PROVE Inv'
    OBVIOUS
  <2>1. CASE StartRender
    BY <2>1 DEF StartRender, Inv, TypeOK, ImageOK, RefCountExact, Holders
  <2>2. CASE UnloadImages
    BY <2>2, UnloadImagesPreserves
  <2>3. CASE \E c \in Configs : DestroyConfig(c)
    BY <2>3, DestroyConfigPreserves
  <2>4. CASE \E c \in Configs, size \in Sizes :
               RenderColor(c, size) \/ RenderImage(c, size)
    BY <2>4, RenderColorPreserves, RenderImagePreserves
  <2>5. CASE UNCHANGED vars
    BY <2>5 DEF vars, Inv, TypeOK, ImageOK, RefCountExact, Holders
  <2> QED
    BY <2>1, <2>2, <2>3, <2>4, <2>5 DEF Next
<1> QED
  BY <1>1, <1>2, PTL DEF Spec

(***************************************************************************)
(* Every variable keeps its type; in particular an image never remembers a *)
(* size other than its file's, and only an image of known size has pixels. *)
(***************************************************************************)
THEOREM TypeCorrect == Spec => []TypeOK
<1>1. Inv => TypeOK
  BY DEF Inv
<1> QED
  BY <1>1, Invariance, PTL

(***************************************************************************)
(* A buffer is allocated exactly while a configuration holds it, and its   *)
(* ref_count is the number of configurations that do: no use after free,   *)
(* no double release and no leak, for any number of configurations sharing *)
(* any number of buffers, also when loading or allocating fails.           *)
(***************************************************************************)
THEOREM RefCountsExact == Spec => []RefCountExact
<1>1. Inv => RefCountExact
  BY DEF Inv
<1> QED
  BY <1>1, Invariance, PTL
-----------------------------------------------------------------------------
(***************************************************************************)
(* What images remember of their backgrounds: one with alpha always knows  *)
(* the colour that shows through it, one without forgets it; a scalable    *)
(* file may not have been looked at closely enough to know which it is.    *)
(***************************************************************************)
\* What background an image whose size is known may remember.
MayRemember(i, bg) ==
    /\ i \in Alpha => bg \in Colors
    /\ i \notin Alpha \union Scalable => bg = Clear

Remembers(i, im) ==
    /\ im.width > 0 => /\ MayRemember(i, im.background)
                       /\ im.is_scalable = (i \in Scalable)
    /\ im.is_scalable => i \in Scalable
    /\ im.surface # NULL /\ i \in Alpha => im.surface.background = im.background

ImagesRemember == \A i \in Images : Remembers(i, image[i])

\* A file as get_wsbg_buffer sees it.
File(i, bg) == [width |-> Size[i].width, height |-> Size[i].height, background |-> bg]

(***************************************************************************)
(* A buffer shows what its key says, and the size it was rendered at       *)
(* follows from the transform.                                             *)
(***************************************************************************)
ShowsItsKey(record) ==
    LET key    == record.key
        pixels == record.pixels
        i      == key.list
    IN  IF i = NULL THEN pixels.fill = key.background
        ELSE /\ pixels.transform = key.transform
             /\ pixels.fill = key.background
             /\ pixels.repeat = key.repeat
             /\ i \in Alpha => pixels.surface.background = key.background
             /\ i \in Scalable =>
                  /\ pixels.surface.width = RoundedDiv(Size[i].width * Q16, key.transform.scale_x)
                  /\ pixels.surface.height = RoundedDiv(Size[i].height * Q16, key.transform.scale_y)

BuffersShowTheirKeys == \A b \in Live : ShowsItsKey(buffer[b])

\* A configuration holds a buffer of a key that it asks for.
IsAskedFor(c, size, key) ==
    IF IsColor(c) THEN key = ColorKey(c)
    ELSE \E bg \in Colors \union {Clear} :
            /\ MayRemember(Look[c].image, bg)
            /\ key = ImageKey(c, File(Look[c].image, bg), size)

KeysAreAskedFor ==
    \A c \in Configs : held[c] # NULL =>
        /\ asked[c] \in Sizes
        /\ IsAskedFor(c, asked[c], buffer[held[c]].key)

LookupInv == ImagesRemember /\ KeysAreAskedFor /\ KeysAreUnique

FullInv == Inv /\ LookupInv

\* An extremely thin scalable image would be rendered at width 0, which
\* load_image takes for its natural size.
NoThinImage ==
    \A c \in Configs, size \in Sizes :
        ~IsColor(c) /\ Look[c].image \in Scalable =>
            LET i == Look[c].image
                t == Transform(Size[i], Look[c].mode, Look[c].position, size.width, size.height)
            IN  RoundedDiv(Size[i].width * Q16, t.scale_x) # 0

Resized(y, w, h) == [y EXCEPT !.width = w, !.height = h]

Probed(y, w, h) == [y EXCEPT !.width = w, !.height = h, !.is_scalable = TRUE]

LEMMA ResizedImage ==
    ASSUME NEW y \in ImageType, NEW w \in Int, NEW h \in Int
    PROVE  /\ Resized(y, w, h) \in ImageType
           /\ Resized(y, w, h).surface = y.surface
           /\ Resized(y, w, h).background = y.background
           /\ Resized(y, w, h).is_scalable = y.is_scalable
           /\ Probed(y, w, h) \in ImageType
           /\ Probed(y, w, h).surface = y.surface
           /\ Probed(y, w, h).background = y.background
           /\ Probed(y, w, h).is_scalable = TRUE
<1>1. Resized(y, w, h) \in ImageType
  BY Zenon DEF ImageType, Resized
<1>2. Probed(y, w, h) \in ImageType
  BY Zenon DEF ImageType, Probed
<1>3. /\ Resized(y, w, h).surface = y.surface
      /\ Resized(y, w, h).background = y.background
      /\ Resized(y, w, h).is_scalable = y.is_scalable
  BY Zenon DEF ImageType, Resized
<1>4. /\ Probed(y, w, h).surface = y.surface
      /\ Probed(y, w, h).background = y.background
      /\ Probed(y, w, h).is_scalable = TRUE
  BY Zenon DEF ImageType, Probed
<1> QED
  BY <1>1, <1>2, <1>3, <1>4, Zenon

LEMMA LoadImageRemembers ==
    ASSUME NEW i \in Images, NEW im, Sound(i, im), Remembers(i, im),
           NEW color \in Colors, NEW scaled \in [width: Int, height: Int],
           scaled.width = 0 \/ im.width > 0,
           NEW r \in LoadImage(i, im, color, scaled)
    PROVE  /\ Remembers(i, r)
           /\ Loaded(r) /\ ~(r.is_scalable /\ scaled.width = 0) =>
                /\ i \in Alpha => r.surface.background = color
                /\ scaled.width # 0 => /\ r.surface.width = scaled.width
                                       /\ r.surface.height = scaled.height
<1> DEFINE Drawn == Loaded(r) /\ ~(r.is_scalable /\ scaled.width = 0) =>
                      /\ i \in Alpha => r.surface.background = color
                      /\ scaled.width # 0 => /\ r.surface.width = scaled.width
                                             /\ r.surface.height = scaled.height
           fresh == [UnloadImage(im) EXCEPT !.background = color]
           Result(x) == IF x.surface = NULL /\ ~(x.is_scalable /\ scaled.width = 0)
                        THEN [x EXCEPT !.width = -1]
                        ELSE x
           usable == /\ im.background \in {Clear, color}
                     /\ scaled.width # 0 => /\ scaled.width = im.surface.width
                                            /\ scaled.height = im.surface.height
<1>1. Clear \notin Colors /\ NULL \notin Surface
  BY ImagesAssumption
<1>2. CASE im.surface # NULL /\ usable /\ r = im
  BY <1>1, <1>2 DEF Remembers, MayRemember, Loaded
<1>3. CASE im.surface = NULL /\ im.width = -1 /\ r = im
  BY <1>3 DEF Loaded
<1>4. ASSUME NEW x \in LoadPixbuf(i, fresh, scaled), r = Result(x)
      PROVE  Remembers(i, r) /\ Drawn
  <2>1. Size[i].width \in Nat \ {0} /\ Size[i].height \in Nat \ {0}
    BY ImagesAssumption
  <2>2. /\ fresh \in ImageType /\ fresh.surface = NULL /\ fresh.background = color
        /\ fresh.width = im.width /\ fresh.is_scalable = im.is_scalable
        /\ fresh.width \in Int /\ fresh.is_scalable \in BOOLEAN
    BY DEF Sound, UnloadImage, ImageType
  <2>3. /\ fresh.is_scalable => i \in Scalable
        /\ fresh.width > 0 => fresh.is_scalable = (i \in Scalable)
        /\ scaled.width = 0 \/ fresh.width > 0
    BY <2>2 DEF Remembers
  <2> HIDE DEF fresh
  <2> DEFINE probed == IF fresh.width <= 0 /\ i \in Scalable
                       THEN [fresh EXCEPT !.width = Size[i].width,
                                          !.height = Size[i].height,
                                          !.is_scalable = TRUE]
                       ELSE fresh
             natural == scaled.width = 0
             pixels == [background |-> fresh.background,
                  width  |-> IF natural THEN Size[i].width ELSE scaled.width,
                  height |-> IF natural THEN Size[i].height ELSE scaled.height]
             sized == IF natural THEN [probed EXCEPT !.width = Size[i].width,
                                                     !.height = Size[i].height]
                                 ELSE probed
             loaded == [sized EXCEPT !.surface = pixels,
                              !.background = IF i \in Alpha THEN @ ELSE Clear]
  <2>4. x \in {loaded, probed, fresh}
    BY <1>4 DEF LoadPixbuf
  <2>5. /\ probed \in ImageType /\ probed.surface = NULL /\ probed.background = color
        /\ probed.is_scalable = (i \in Scalable)
    <3>1. CASE fresh.width <= 0 /\ i \in Scalable
      <4> DEFINE s == Probed(fresh, Size[i].width, Size[i].height)
      <4>1. Size[i].width \in Int /\ Size[i].height \in Int
        BY <2>1
      <4>2. /\ s \in ImageType /\ s.surface = fresh.surface
            /\ s.background = fresh.background /\ s.is_scalable = TRUE
        <5>1. fresh \in ImageType
          BY <2>2
        <5> QED
          BY <4>1, <5>1, ResizedImage
      <4>3. probed = s
        BY <3>1 DEF Probed
      <4> HIDE DEF s, probed
      <4> QED
        BY <2>2, <3>1, <4>2, <4>3, Zenon
    <3>2. CASE ~(fresh.width <= 0 /\ i \in Scalable)
      <4>1. probed = fresh
        BY <3>2
      <4>2. fresh.is_scalable = (i \in Scalable)
        <5>1. CASE fresh.width > 0
          BY <2>3, <5>1
        <5>2. CASE i \notin Scalable
          BY <2>2, <2>3, <5>2
        <5> QED
          BY <2>2, <3>2, <5>1, <5>2
      <4> HIDE DEF probed
      <4> QED
        BY <2>2, <4>1, <4>2, Zenon
    <3> QED
      BY <3>1, <3>2
  <2> HIDE DEF probed
  <2>6. /\ sized \in ImageType /\ sized.background = color
        /\ sized.is_scalable = (i \in Scalable)
    <3>1. CASE natural
      <4> DEFINE z == Resized(probed, Size[i].width, Size[i].height)
      <4>1. Size[i].width \in Int /\ Size[i].height \in Int
        BY <2>1
      <4>2. /\ z \in ImageType /\ z.background = probed.background
            /\ z.is_scalable = probed.is_scalable
        BY <2>5, <4>1, ResizedImage
      <4>3. sized = z
        BY <3>1 DEF Resized
      <4> HIDE DEF z, sized
      <4> QED
        BY <2>5, <4>2, <4>3, Zenon
    <3>2. CASE ~natural
      BY <2>5, <3>2
    <3> QED
      BY <3>1, <3>2
  <2>7. /\ pixels \in Surface /\ pixels # NULL /\ pixels.background = color
        /\ ~natural => pixels.width = scaled.width /\ pixels.height = scaled.height
    BY <1>1, <2>1, <2>2 DEF Surface
  <2> HIDE DEF sized, pixels
  <2>8. /\ loaded.surface = pixels /\ loaded.is_scalable = (i \in Scalable)
        /\ loaded.background = IF i \in Alpha THEN color ELSE Clear
    BY <2>6 DEF ImageType
  <2> HIDE DEF loaded
  <2>9. CASE x = loaded
    <3>1. r = loaded
      BY <1>4, <2>7, <2>8, <2>9
    <3> QED
      BY <1>1, <2>7, <2>8, <3>1 DEF Remembers, MayRemember
  <2>10. CASE x \in {probed, fresh}
    <3>1. /\ x \in ImageType /\ x.surface = NULL /\ x.background = color
          /\ x.is_scalable => i \in Scalable
      BY <2>2, <2>3, <2>5, <2>10
    <3>2. CASE x.is_scalable /\ natural
      <4>1. r = x
        BY <1>4, <3>2
      <4>2. x.is_scalable = TRUE /\ i \in Scalable
        BY <3>1, <3>2 DEF ImageType
      <4> QED
        BY <3>1, <3>2, <4>1, <4>2 DEF Remembers, MayRemember
    <3>3. CASE ~(x.is_scalable /\ natural)
      <4>1. r = [x EXCEPT !.width = -1]
        BY <1>4, <3>1, <3>3
      <4>2. r.width = -1 /\ r.surface = NULL /\ r.is_scalable = x.is_scalable
        BY <3>1, <4>1 DEF ImageType
      <4> QED
        BY <3>1, <4>2 DEF Remembers, Loaded
    <3> QED
      BY <3>2, <3>3
  <2> QED
    BY <2>4, <2>9, <2>10
<1> HIDE DEF Drawn
<1>5. Remembers(i, r) /\ Drawn
  <2>1. CASE im.surface # NULL /\ usable
    <3>1. r = im
      BY <2>1 DEF LoadImage
    <3> QED
      BY <1>2, <2>1, <3>1 DEF Drawn
  <2>2. CASE ~(im.surface # NULL /\ usable) /\ im.surface = NULL /\ im.width = -1
    <3>1. r = im
      BY <2>2 DEF LoadImage
    <3> QED
      BY <1>3, <2>2, <3>1 DEF Drawn
  <2>3. CASE ~(im.surface # NULL /\ usable) /\ ~(im.surface = NULL /\ im.width = -1)
    <3>1. r \in {Result(x) : x \in LoadPixbuf(i, fresh, scaled)}
      BY <2>3 DEF LoadImage
    <3> HIDE DEF fresh, Result
    <3> QED
      BY <1>4, <3>1
  <2> QED
    BY <2>1, <2>2, <2>3
<1> QED
  BY <1>5 DEF Drawn

\* Of an image, the arithmetic only looks at the size.
LEMMA OnlySizeMatters ==
    ASSUME NEW a, NEW b, a.width = b.width, a.height = b.height,
           NEW mode, NEW position, NEW width, NEW height
    PROVE  /\ Destination(a, mode, width, height) = Destination(b, mode, width, height)
           /\ Transform(a, mode, position, width, height) = Transform(b, mode, position, width, height)
           /\ IsCovered(a, mode, position, width, height) = IsCovered(b, mode, position, width, height)
<1>1. Destination(a, mode, width, height) = Destination(b, mode, width, height)
  BY DEF Destination
<1>2. Transform(a, mode, position, width, height) = Transform(b, mode, position, width, height)
  BY <1>1 DEF Transform
<1>3. IsCovered(a, mode, position, width, height) = IsCovered(b, mode, position, width, height)
  BY <1>1, <1>2, Zenon DEF IsCovered
<1> QED
  BY <1>1, <1>2, <1>3

\* The key of an image that is known is one its file may have.
LEMMA KnownKey ==
    ASSUME NEW c \in Configs, ~IsColor(c), NEW im, NEW size \in Sizes,
           Known(Look[c].image, im), Remembers(Look[c].image, im), Loaded(im)
    PROVE  /\ ImageKey(c, im, size) = ImageKey(c, File(Look[c].image, im.background), size)
           /\ im.background \in Colors \union {Clear}
           /\ MayRemember(Look[c].image, im.background)
           /\ IsAskedFor(c, size, ImageKey(c, im, size))
<1> DEFINE i == Look[c].image
           file == File(i, im.background)
<1>1. file.width = im.width /\ file.height = im.height /\ file.background = im.background
  BY DEF File, Known
<1>2. im.background \in Colors \union {Clear}
  BY DEF Known, ImageType
<1> HIDE DEF file
<1>3. ImageKey(c, im, size) = ImageKey(c, file, size)
  <2> DEFINE look == Look[c]
  <2>1. Transform(im, look.mode, look.position, size.width, size.height)
          = Transform(file, look.mode, look.position, size.width, size.height)
    BY <1>1, OnlySizeMatters
  <2>2. IsCovered(im, look.mode, look.position, size.width, size.height)
          = IsCovered(file, look.mode, look.position, size.width, size.height)
    BY <1>1, OnlySizeMatters
  <2> QED
    BY <1>1, <2>1, <2>2 DEF ImageKey, Background
<1>4. MayRemember(i, im.background)
  BY DEF Remembers, Loaded
<1> QED
  BY <1>2, <1>3, <1>4 DEF file, IsAskedFor

\* A file that is not scalable has one key at each size.
LEMMA OneKey ==
    ASSUME NEW c \in Configs, Look[c].image \notin Scalable, NEW size,
           NEW key1, NEW key2,
           IsAskedFor(c, size, key1), IsAskedFor(c, size, key2)
    PROVE  key1 = key2
<1> DEFINE i == Look[c].image
           look == Look[c]
<1>1. CASE IsColor(c)
  BY <1>1 DEF IsAskedFor
<1>2. CASE ~IsColor(c)
  <2>1. PICK bg1 \in Colors \union {Clear} : MayRemember(i, bg1) /\ key1 = ImageKey(c, File(i, bg1), size)
    BY <1>2 DEF IsAskedFor
  <2>2. PICK bg2 \in Colors \union {Clear} : MayRemember(i, bg2) /\ key2 = ImageKey(c, File(i, bg2), size)
    BY <1>2 DEF IsAskedFor
  <2>3. bg1 = Clear <=> bg2 = Clear
    BY <2>1, <2>2, ImagesAssumption DEF MayRemember
  <2> DEFINE file1 == File(i, bg1)
             file2 == File(i, bg2)
  <2>4. /\ file1.width = file2.width /\ file1.height = file2.height
        /\ file1.background = bg1 /\ file2.background = bg2
    BY DEF File
  <2> HIDE DEF file1, file2
  <2>5. Transform(file1, look.mode, look.position, size.width, size.height)
          = Transform(file2, look.mode, look.position, size.width, size.height)
    BY <2>4, OnlySizeMatters
  <2>6. IsCovered(file1, look.mode, look.position, size.width, size.height)
          = IsCovered(file2, look.mode, look.position, size.width, size.height)
    BY <2>4, OnlySizeMatters
  <2>7. ImageKey(c, file1, size) = ImageKey(c, file2, size)
    BY <2>3, <2>4, <2>5, <2>6 DEF ImageKey, Background
  <2> QED
    BY <2>1, <2>2, <2>7 DEF file1, file2
<1> QED
  BY <1>1, <1>2

-----------------------------------------------------------------------------
(***************************************************************************)
(* Handing a buffer over keeps every key and all pixels that are left.     *)
(***************************************************************************)
UniqueIn(table) ==
    \A b1, b2 \in Buffers :
        table[b1] # NULL /\ table[b2] # NULL /\ table[b1].key = table[b2].key => b1 = b2

\* table is buffer with b taken for c.
Handed(c, size, table, b) ==
    /\ Promised(table, b)
    /\ \A x \in Live : table[x] # NULL /\ table[x].key = buffer[x].key
    /\ UniqueIn(table)
    /\ b # NULL => IsAskedFor(c, size, table[b].key)

AllShow(table) == \A x \in Buffers : table[x] # NULL => ShowsItsKey(table[x])

LEMMA ReleaseKeepsKeys ==
    ASSUME NEW table \in [Buffers -> BufferType \union {NULL}],
           NEW old \in Buffers \union {NULL}, NEW x \in Buffers,
           old # NULL => table[old] # NULL,
           Release(table, old)[x] # NULL
    PROVE  /\ table[x] # NULL
           /\ Release(table, old)[x].key = table[x].key
           /\ Release(table, old)[x].pixels = table[x].pixels
<1>1. CASE old = NULL \/ x # old
  BY <1>1 DEF Release
<1>2. CASE old # NULL /\ x = old
  <2> DEFINE left == table[old].ref_count - 1
             rec == [table[old] EXCEPT !.ref_count = left]
  <2>1. Release(table, old)[x] = IF left = 0 THEN NULL ELSE rec
    BY <1>2 DEF Release
  <2>2. table[old] \in BufferType
    BY <1>2
  <2>3. rec.key = table[old].key /\ rec.pixels = table[old].pixels
    BY <2>2, Zenon DEF BufferType
  <2> HIDE DEF left, rec
  <2> QED
    BY <1>2, <2>1, <2>3
<1> QED
  BY <1>1, <1>2

LEMMA HandedKeeps ==
    ASSUME FullInv, NEW c \in Configs, NEW size \in Sizes \union {NULL},
           NEW b \in Buffers \union {NULL}, b # NULL => size \in Sizes,
           NEW table, Handed(c, size, table, b),
           Keep(c, size, table, b)
    PROVE  /\ KeysAreAskedFor' /\ KeysAreUnique'
           /\ AllShow(table) => BuffersShowTheirKeys'
<1>1. table \in [Buffers -> BufferType \union {NULL}]
  BY DEF Handed, Promised
<1>2. /\ buffer' = Release(table, held[c])
      /\ held' = [held EXCEPT ![c] = b]
      /\ asked' = [asked EXCEPT ![c] = IF b = NULL THEN NULL ELSE size]
      /\ held \in [Configs -> Buffers \union {NULL}]
      /\ asked \in [Configs -> Sizes \union {NULL}]
  BY DEF Keep, FullInv, Inv, TypeOK
<1>3. /\ held' \in [Configs -> Buffers \union {NULL}]
      /\ RefCountExact'
  BY <1>2, ReleaseKeepsCounts DEF Handed, FullInv
<1>4. held[c] # NULL => table[held[c]] # NULL
  <2> SUFFICES ASSUME held[c] # NULL
               PROVE  table[held[c]] # NULL
    OBVIOUS
  <2>1. held[c] \in Buffers /\ c \in Holders(held[c])
    BY <1>2 DEF Holders
  <2> QED
    BY <2>1 DEF Handed, Promised
<1>5. \A x \in Buffers : buffer'[x] # NULL =>
         /\ table[x] # NULL
         /\ buffer'[x].key = table[x].key
         /\ buffer'[x].pixels = table[x].pixels
  BY <1>1, <1>2, <1>4, ReleaseKeepsKeys
<1>6. AllShow(table) => BuffersShowTheirKeys'
  BY <1>5 DEF BuffersShowTheirKeys, Live, AllShow, ShowsItsKey
<1>7. KeysAreUnique'
  BY <1>5 DEF KeysAreUnique, Live, Handed, UniqueIn
<1>8. ASSUME NEW d \in Configs, held'[d] # NULL
      PROVE  asked'[d] \in Sizes /\ IsAskedFor(d, asked'[d], buffer'[held'[d]].key)
  <2>1. held'[d] \in Buffers /\ buffer'[held'[d]] # NULL
    BY <1>3, <1>8 DEF RefCountExact, Holders
  <2>2. buffer'[held'[d]].key = table[held'[d]].key
    BY <1>5, <2>1
  <2>3. CASE d = c
    <3>1. held'[d] = b /\ asked'[d] = size /\ b # NULL
      BY <1>2, <1>8, <2>3
    <3> QED
      BY <2>2, <2>3, <3>1 DEF Handed
  <2>4. CASE d # c
    <3>1. held'[d] = held[d] /\ asked'[d] = asked[d]
      BY <1>2, <2>4
    <3>2. asked[d] \in Sizes /\ IsAskedFor(d, asked[d], buffer[held[d]].key)
      BY <1>8, <3>1 DEF FullInv, LookupInv, KeysAreAskedFor
    <3>3. held[d] \in Live
      <4>1. held[d] \in Buffers /\ d \in Holders(held[d])
        BY <2>1, <3>1 DEF Holders
      <4> QED
        BY <4>1 DEF FullInv, Inv, RefCountExact, Live
    <3>4. table[held[d]].key = buffer[held[d]].key
      BY <3>3 DEF Handed
    <3> QED
      BY <2>2, <3>1, <3>2, <3>4
  <2> QED
    BY <2>3, <2>4
<1>9. KeysAreAskedFor'
  BY <1>8 DEF KeysAreAskedFor
<1> QED
  BY <1>6, <1>7, <1>9

LEMMA HitHands ==
    ASSUME FullInv, NEW c \in Configs, NEW size, NEW b \in Live,
           IsAskedFor(c, size, buffer[b].key)
    PROVE  /\ Handed(c, size, Acquire(buffer, b), b)
           /\ BuffersShowTheirKeys => AllShow(Acquire(buffer, b))
<1> DEFINE table == Acquire(buffer, b)
           rec == [buffer[b] EXCEPT !.ref_count = @ + 1]
<1>1. Promised(table, b)
  BY AcquirePromises DEF FullInv
<1>2. b \in Buffers /\ buffer[b] \in BufferType /\ buffer \in [Buffers -> BufferType \union {NULL}]
  BY BuffersAssumption DEF Live, FullInv, Inv, TypeOK
<1>3. table = [buffer EXCEPT ![b] = rec]
  BY DEF Acquire
<1>4. rec.key = buffer[b].key /\ rec.pixels = buffer[b].pixels
  BY <1>2, Zenon DEF BufferType
<1> HIDE DEF table, rec
<1>5. \A x \in Buffers : table[x] # NULL =>
         x \in Live /\ table[x].key = buffer[x].key /\ table[x].pixels = buffer[x].pixels
  BY <1>2, <1>3, <1>4 DEF Live
<1>6. \A x \in Live : table[x] # NULL
  BY <1>1 DEF Promised, Live, FullInv, Inv, RefCountExact
<1>7. \A x \in Live : table[x].key = buffer[x].key
  BY <1>5, <1>6 DEF Live
<1>8. BuffersShowTheirKeys => AllShow(table)
  BY <1>5 DEF AllShow, BuffersShowTheirKeys, ShowsItsKey
<1>9. UniqueIn(table)
  BY <1>5 DEF FullInv, LookupInv, KeysAreUnique, UniqueIn
<1>10. table[b].key = buffer[b].key
  BY <1>7
<1> QED
  BY <1>1, <1>6, <1>7, <1>8, <1>9, <1>10 DEF Handed, table

LEMMA MissHands ==
    ASSUME FullInv, NEW c \in Configs, NEW size, NEW b \in Buffers \ Live,
           NEW key \in Keys, NEW pixels \in Pixels, Missed(key),
           IsAskedFor(c, size, key)
    PROVE  /\ Handed(c, size, Create(buffer, b, key, pixels), b)
           /\ BuffersShowTheirKeys
                /\ ShowsItsKey([key |-> key, ref_count |-> 1, pixels |-> pixels])
              => AllShow(Create(buffer, b, key, pixels))
<1> DEFINE table == Create(buffer, b, key, pixels)
           rec == [key |-> key, ref_count |-> 1, pixels |-> pixels]
<1>1. Promised(table, b)
  BY CreatePromises DEF FullInv
<1>2. buffer \in [Buffers -> BufferType \union {NULL}]
  BY DEF FullInv, Inv, TypeOK
<1>3. table = [buffer EXCEPT ![b] = rec]
  BY DEF Create
<1>4. rec.key = key
  OBVIOUS
<1> HIDE DEF table, rec
<1>5. table[b] = rec /\ \A x \in Buffers : x # b => table[x] = buffer[x]
  BY <1>2, <1>3
<1>6. \A x \in Live : table[x] # NULL /\ table[x].key = buffer[x].key
  BY <1>5 DEF Live
<1>7. BuffersShowTheirKeys /\ ShowsItsKey(rec) => AllShow(table)
  BY <1>5 DEF AllShow, BuffersShowTheirKeys, Live
<1>8. UniqueIn(table)
  <2>1. \A x \in Buffers : x # b /\ table[x] # NULL => table[x].key # key
    BY <1>5 DEF Missed, Live
  <2>2. \A x, y \in Buffers : x # b /\ y # b /\ table[x] # NULL /\ table[y] # NULL
                               /\ table[x].key = table[y].key => x = y
    BY <1>5 DEF FullInv, LookupInv, KeysAreUnique, Live
  <2> QED
    BY <1>4, <1>5, <2>1, <2>2 DEF UniqueIn
<1>9. table[b].key = key
  BY <1>4, <1>5
<1> QED
  BY <1>1, <1>6, <1>7, <1>8, <1>9 DEF Handed, table, rec

LEMMA FailHands ==
    ASSUME FullInv, NEW c \in Configs, NEW size
    PROVE  /\ Handed(c, size, buffer, NULL)
           /\ BuffersShowTheirKeys => AllShow(buffer)
<1>1. Promised(buffer, NULL)
  BY NothingPromised DEF FullInv
<1> QED
  BY <1>1 DEF Handed, FullInv, LookupInv, AllShow, BuffersShowTheirKeys, KeysAreUnique, Live, UniqueIn

LEMMA HitKeeps ==
    ASSUME FullInv, NEW c \in Configs, NEW size \in Sizes,
           NEW key, IsAskedFor(c, size, key), Hit(c, size, key)
    PROVE  /\ KeysAreAskedFor' /\ KeysAreUnique'
           /\ BuffersShowTheirKeys => BuffersShowTheirKeys'
<1>1. PICK b \in Live : buffer[b].key = key /\ Keep(c, size, Acquire(buffer, b), b)
  BY DEF Hit
<1>2. /\ Handed(c, size, Acquire(buffer, b), b) /\ b \in Buffers
      /\ BuffersShowTheirKeys => AllShow(Acquire(buffer, b))
  BY <1>1, HitHands DEF Live
<1> QED
  BY <1>1, <1>2, HandedKeeps

LEMMA FailKeeps ==
    ASSUME FullInv, NEW c \in Configs, NEW size \in Sizes \union {NULL},
           Fail(c, size)
    PROVE  /\ KeysAreAskedFor' /\ KeysAreUnique'
           /\ BuffersShowTheirKeys => BuffersShowTheirKeys'
<1>1. /\ Handed(c, size, buffer, NULL) /\ Keep(c, size, buffer, NULL)
      /\ BuffersShowTheirKeys => AllShow(buffer)
  BY FailHands DEF Fail
<1> QED
  BY <1>1, HandedKeeps

LEMMA MissKeeps ==
    ASSUME FullInv, NEW c \in Configs, NEW size \in Sizes,
           NEW key \in Keys, IsAskedFor(c, size, key), Missed(key),
           NEW pixels \in Pixels, Miss(c, size, key, pixels)
    PROVE  /\ KeysAreAskedFor' /\ KeysAreUnique'
           /\ BuffersShowTheirKeys
                /\ ShowsItsKey([key |-> key, ref_count |-> 1, pixels |-> pixels])
              => BuffersShowTheirKeys'
<1>1. PICK b \in Buffers \ Live : Keep(c, size, Create(buffer, b, key, pixels), b)
  BY DEF Miss
<1>2. /\ Handed(c, size, Create(buffer, b, key, pixels), b)
      /\ BuffersShowTheirKeys
           /\ ShowsItsKey([key |-> key, ref_count |-> 1, pixels |-> pixels])
         => AllShow(Create(buffer, b, key, pixels))
  BY MissHands
<1> QED
  BY <1>1, <1>2, HandedKeeps

LEMMA ColorKeepsDrawings ==
    ASSUME FullInv, NEW c \in Configs, NEW size \in Sizes, RenderColor(c, size)
    PROVE  /\ KeysAreAskedFor' /\ KeysAreUnique'
           /\ BuffersShowTheirKeys => BuffersShowTheirKeys'
<1> DEFINE key == ColorKey(c)
           pixels == ColorPixels(c)
<1>1. Look[c].color \in Colors
  BY BuffersAssumption
<1>2. key \in Keys /\ pixels \in Pixels /\ key.list = NULL /\ pixels.fill = key.background
  BY <1>1 DEF ColorKey, Keys, ColorPixels, Pixels
<1>3. IsAskedFor(c, size, key)
  BY DEF RenderColor, IsAskedFor
<1>4. Hit(c, size, key) \/ (Missed(key) /\ (Miss(c, size, key, pixels) \/ Fail(c, size)))
  BY DEF RenderColor
<1> HIDE DEF key, pixels
<1>5. ShowsItsKey([key |-> key, ref_count |-> 1, pixels |-> pixels])
  BY <1>2 DEF ShowsItsKey
<1> QED
  BY <1>2, <1>3, <1>4, <1>5, HitKeeps, MissKeeps, FailKeeps

(***************************************************************************)
(* What is drawn after a miss is what the key says: the image was loaded   *)
(* for the colour in the key, at the size that follows from the transform. *)
(***************************************************************************)
LEMMA DrawnShowsKey ==
    ASSUME NEW c \in Configs, ~IsColor(c), NEW size \in Sizes,
           NEW im, Sound(Look[c].image, im), Remembers(Look[c].image, im), Loaded(im),
           NEW drawn \in LoadImage(Look[c].image, im, Look[c].color,
                                   ScaledSize(im, ImageKey(c, im, size).transform)),
           Loaded(drawn)
    PROVE  LET key    == ImageKey(c, im, size)
               pixels == ImagePixels(drawn, key, size)
           IN  /\ key \in Keys /\ pixels \in Pixels
               /\ NoThinImage => ShowsItsKey([key |-> key, ref_count |-> 1, pixels |-> pixels])
<1> DEFINE i == Look[c].image
           color == Look[c].color
           key == ImageKey(c, im, size)
           scaled == ScaledSize(im, key.transform)
           pixels == ImagePixels(drawn, key, size)
<1>1. i \in Images /\ color \in Colors /\ i # NULL
  BY BuffersAssumption, ImagesAssumption DEF IsColor
<1>2. Known(i, im)
  BY LoadedIsKnown
<1>3. /\ key \in Keys
      /\ key.transform \in TransformType
      /\ key.background \in Colors \union {Clear}
      /\ key.repeat \in BOOLEAN
      /\ scaled \in [width: Int, height: Int]
  BY <1>2, KeyType
<1>4. key.list = i /\ (i \in Alpha => key.background = color)
      /\ key.transform = Transform(im, Look[c].mode, Look[c].position, size.width, size.height)
  <2>1. i \in Alpha => im.background # Clear
    BY ImagesAssumption DEF Remembers, MayRemember, Loaded
  <2> QED
    BY <2>1 DEF ImageKey, Background
<1>5. scaled.width = 0 \/ im.width > 0
  BY DEF Loaded
<1>6. drawn \in LoadImage(i, im, color, scaled)
  OBVIOUS
<1> HIDE DEF scaled, key
<1>7. /\ Sound(i, drawn) /\ Remembers(i, drawn)
      /\ ~(drawn.is_scalable /\ scaled.width = 0) =>
           /\ i \in Alpha => drawn.surface.background = color
           /\ scaled.width # 0 => /\ drawn.surface.width = scaled.width
                                  /\ drawn.surface.height = scaled.height
  BY <1>1, <1>3, <1>5, <1>6, LoadImageSound, LoadImageRemembers
<1>8. NoThinImage /\ i \in Scalable =>
        /\ scaled.width # 0
        /\ scaled.width = RoundedDiv(Size[i].width * Q16, key.transform.scale_x)
        /\ scaled.height = RoundedDiv(Size[i].height * Q16, key.transform.scale_y)
  <2> SUFFICES ASSUME NoThinImage, i \in Scalable
               PROVE  /\ scaled.width # 0
                      /\ scaled.width = RoundedDiv(Size[i].width * Q16, key.transform.scale_x)
                      /\ scaled.height = RoundedDiv(Size[i].height * Q16, key.transform.scale_y)
    OBVIOUS
  <2>1. im.is_scalable /\ im.width = Size[i].width /\ im.height = Size[i].height
    BY <1>2 DEF Remembers, Loaded, Known
  <2>2. /\ scaled.width = RoundedDiv(Size[i].width * Q16, key.transform.scale_x)
        /\ scaled.height = RoundedDiv(Size[i].height * Q16, key.transform.scale_y)
    BY <2>1 DEF scaled, ScaledSize
  <2>3. key.transform = Transform(Size[i], Look[c].mode, Look[c].position, size.width, size.height)
    BY <1>4, <2>1, OnlySizeMatters
  <2>4. RoundedDiv(Size[i].width * Q16, key.transform.scale_x) # 0
    BY <2>3 DEF NoThinImage
  <2> QED
    BY <2>2, <2>4
<1>9. drawn.is_scalable => i \in Scalable
  BY <1>7 DEF Remembers
<1>10. pixels \in Pixels
  <2>1. drawn.surface \in Surface \union {NULL}
    BY <1>7 DEF Sound, ImageType
  <2> QED
    BY <1>3, <2>1 DEF ImagePixels, Pixels
<1>11. /\ pixels.transform = key.transform /\ pixels.fill = key.background
       /\ pixels.repeat = key.repeat /\ pixels.surface = drawn.surface
  BY DEF ImagePixels
<1> HIDE DEF pixels
<1>12. NoThinImage => ShowsItsKey([key |-> key, ref_count |-> 1, pixels |-> pixels])
  BY <1>1, <1>4, <1>7, <1>8, <1>9, <1>11 DEF ShowsItsKey
<1> QED
  BY <1>3, <1>10, <1>12 DEF key, pixels
(***************************************************************************)
(* What render_frame may do for an image: no size, so no buffer; a hit; a  *)
(* miss and then a new buffer or none.  Whatever is loaded is remembered   *)
(* rightly and looked up under a key the configuration asks for.           *)
(***************************************************************************)
NoSize(c, size, im) ==
    /\ ~Loaded(im)
    /\ Fail(c, size)
    /\ image' = [image EXCEPT ![Look[c].image] = im]

Found(c, size, im, key) ==
    /\ Loaded(im)
    /\ Hit(c, size, key)
    /\ image' = [image EXCEPT ![Look[c].image] = im]

NotFound(c, size, im, key, drawn) ==
    /\ Loaded(im)
    /\ Missed(key)
    /\ image' = [image EXCEPT ![Look[c].image] = drawn]
    /\ \/ /\ Loaded(drawn)
          /\ Miss(c, size, key, ImagePixels(drawn, key, size))
       \/ Fail(c, size)

LEMMA RenderImageCases ==
    ASSUME FullInv, NEW c \in Configs, NEW size \in Sizes, RenderImage(c, size)
    PROVE  \E im :
              LET key == ImageKey(c, im, size)
              IN  /\ Sound(Look[c].image, im) /\ Remembers(Look[c].image, im)
                  /\ Loaded(im) => IsAskedFor(c, size, key)
                  /\ \/ NoSize(c, size, im)
                     \/ Found(c, size, im, key)
                     \/ \E drawn \in LoadImage(Look[c].image, im, Look[c].color,
                                               ScaledSize(im, key.transform)) :
                          NotFound(c, size, im, key, drawn)
<1> DEFINE i == Look[c].image
           color == Look[c].color
<1>1. ~IsColor(c) /\ i \in Images /\ color \in Colors
  BY BuffersAssumption DEF RenderImage, IsColor
<1>2. Sound(i, image[i])
  BY <1>1 DEF FullInv, Inv, TypeOK, ImageOK, Sound
<1>3. Remembers(i, image[i])
  BY <1>1 DEF FullInv, LookupInv, ImagesRemember
<1>4. Natural \in [width: Int, height: Int] /\ Natural.width = 0
  BY DEF Natural
<1>5. PICK im \in KnownSize(c) :
         \/ NoSize(c, size, im)
         \/ Found(c, size, im, ImageKey(c, im, size))
         \/ \E drawn \in LoadImage(i, im, color,
                                   ScaledSize(im, ImageKey(c, im, size).transform)) :
              NotFound(c, size, im, ImageKey(c, im, size), drawn)
  BY DEF RenderImage, NoSize, Found, NotFound
<1>6. Sound(i, im) /\ Remembers(i, im)
  <2>1. CASE image[i].width > 0
    <3>1. im = image[i]
      BY <1>5, <2>1 DEF KnownSize
    <3> QED
      BY <1>2, <1>3, <3>1
  <2>2. CASE ~(image[i].width > 0)
    <3>1. im \in LoadImage(i, image[i], color, Natural)
      BY <1>5, <2>2 DEF KnownSize
    <3> HIDE DEF i, color
    <3>2. Sound(i, im)
      BY <1>1, <1>2, <1>4, <3>1, LoadImageSound
    <3>3. Remembers(i, im)
      BY <1>1, <1>2, <1>3, <1>4, <3>1, LoadImageRemembers
    <3> QED
      BY <3>2, <3>3
  <2> QED
    BY <2>1, <2>2
<1>7. ASSUME Loaded(im) PROVE IsAskedFor(c, size, ImageKey(c, im, size))
  <2>1. Known(i, im)
    BY <1>6, <1>7, LoadedIsKnown
  <2> QED
    BY <1>1, <1>6, <1>7, <2>1, KnownKey
<1> QED
  BY <1>5, <1>6, <1>7

LEMMA ImageKeepsDrawings ==
    ASSUME FullInv, NEW c \in Configs, NEW size \in Sizes, RenderImage(c, size)
    PROVE  /\ LookupInv'
           /\ NoThinImage /\ BuffersShowTheirKeys => BuffersShowTheirKeys'
<1> DEFINE i == Look[c].image
           color == Look[c].color
           Drawings == /\ KeysAreAskedFor' /\ KeysAreUnique'
                       /\ NoThinImage /\ BuffersShowTheirKeys => BuffersShowTheirKeys'
<1>1. ~IsColor(c) /\ i \in Images /\ color \in Colors
  BY BuffersAssumption DEF RenderImage, IsColor
<1>2. PICK im :
         LET key == ImageKey(c, im, size)
         IN  /\ Sound(i, im) /\ Remembers(i, im)
             /\ Loaded(im) => IsAskedFor(c, size, key)
             /\ \/ NoSize(c, size, im)
                \/ Found(c, size, im, key)
                \/ \E drawn \in LoadImage(i, im, color, ScaledSize(im, key.transform)) :
                     NotFound(c, size, im, key, drawn)
  BY RenderImageCases
<1> DEFINE key == ImageKey(c, im, size)
           scaled == ScaledSize(im, key.transform)
<1>3. ASSUME NEW now, Sound(i, now), Remembers(i, now), image' = [image EXCEPT ![i] = now]
      PROVE  ImagesRemember'
  <2>1. \A j \in Images : Remembers(j, image'[j])
    BY <1>1, <1>3 DEF FullInv, LookupInv, ImagesRemember, Inv, TypeOK
  <2> QED
    BY <2>1 DEF ImagesRemember, Remembers, MayRemember
<1>4. CASE NoSize(c, size, im)
  <2>1. ImagesRemember'
    BY <1>2, <1>3, <1>4 DEF NoSize
  <2>2. Drawings
    BY <1>4, FailKeeps DEF NoSize
  <2> QED
    BY <2>1, <2>2 DEF LookupInv
<1>5. CASE Found(c, size, im, key)
  <2>1. ImagesRemember'
    BY <1>2, <1>3, <1>5 DEF Found
  <2>2. IsAskedFor(c, size, key) /\ Hit(c, size, key)
    BY <1>2, <1>5 DEF Found
  <2> HIDE DEF key
  <2>3. Drawings
    BY <2>2, HitKeeps
  <2> QED
    BY <2>1, <2>3 DEF LookupInv
<1>6. ASSUME NEW drawn \in LoadImage(i, im, color, scaled),
             NotFound(c, size, im, key, drawn)
      PROVE  ImagesRemember' /\ Drawings
  <2>1. Loaded(im) /\ image' = [image EXCEPT ![i] = drawn] /\ Missed(key)
    BY <1>6 DEF NotFound
  <2>2. scaled \in [width: Int, height: Int]
    BY <1>1, <1>2, <2>1, LoadedIsKnown, KeyType
  <2>3. scaled.width = 0 \/ im.width > 0
    BY <2>1 DEF Loaded
  <2>4. Sound(i, drawn) /\ Remembers(i, drawn)
    <3> HIDE DEF i, color, scaled
    <3>1. Sound(i, im) /\ Remembers(i, im)
      BY <1>2
    <3>2. Sound(i, drawn)
      BY <1>1, <1>6, <2>2, <2>3, <3>1, LoadImageSound
    <3>3. Remembers(i, drawn)
      BY <1>1, <1>6, <2>2, <2>3, <3>1, LoadImageRemembers
    <3> QED
      BY <3>2, <3>3
  <2>5. ImagesRemember'
    BY <1>3, <2>1, <2>4
  <2>6. CASE Fail(c, size)
    BY <2>5, <2>6, FailKeeps
  <2>7. CASE Loaded(drawn) /\ Miss(c, size, key, ImagePixels(drawn, key, size))
    <3> DEFINE pixels == ImagePixels(drawn, key, size)
    <3>1. /\ key \in Keys /\ pixels \in Pixels
          /\ NoThinImage => ShowsItsKey([key |-> key, ref_count |-> 1, pixels |-> pixels])
      BY <1>1, <1>2, <1>6, <2>1, <2>7, DrawnShowsKey
    <3>2. IsAskedFor(c, size, key) /\ Miss(c, size, key, pixels)
      BY <1>2, <2>1, <2>7
    <3> HIDE DEF key, pixels
    <3>3. Drawings
      BY <2>1, <3>1, <3>2, MissKeeps
    <3> QED
      BY <2>5, <3>3
  <2> QED
    BY <1>6, <2>6, <2>7 DEF NotFound
<1> QED
  BY <1>2, <1>4, <1>5, <1>6 DEF LookupInv

LEMMA DestroyKeepsDrawings ==
    ASSUME FullInv, NEW c \in Configs, DestroyConfig(c)
    PROVE  /\ LookupInv'
           /\ BuffersShowTheirKeys => BuffersShowTheirKeys'
<1>1. Fail(c, NULL)
  BY DEF DestroyConfig, Fail, Keep
<1>2. ImagesRemember'
  BY DEF DestroyConfig, FullInv, LookupInv, ImagesRemember, Remembers, MayRemember
<1> QED
  BY <1>1, <1>2, FailKeeps DEF LookupInv

LEMMA UnloadKeepsDrawings ==
    ASSUME FullInv, UnloadImages
    PROVE  /\ LookupInv'
           /\ BuffersShowTheirKeys => BuffersShowTheirKeys'
<1>1. ASSUME NEW i \in Images PROVE Remembers(i, image[i])' 
  <2>1. Sound(i, image[i]) /\ Remembers(i, image[i]) /\ image'[i] = UnloadImage(image[i])
    BY DEF FullInv, Inv, TypeOK, ImageOK, Sound, UnloadImages, LookupInv, ImagesRemember
  <2>2. image[i] \in ImageType
    BY <2>1 DEF Sound
  <2>3. /\ image'[i].width = image[i].width /\ image'[i].background = image[i].background
        /\ image'[i].is_scalable = image[i].is_scalable /\ image'[i].surface = NULL
    BY <2>1, <2>2, Zenon DEF UnloadImage, ImageType
  <2> QED
    BY <2>1, <2>3 DEF Remembers, MayRemember
<1>2. KeysAreAskedFor' /\ KeysAreUnique' /\ (BuffersShowTheirKeys => BuffersShowTheirKeys')
  BY DEF UnloadImages, FullInv, LookupInv, KeysAreAskedFor, KeysAreUnique,
         BuffersShowTheirKeys, Live
<1> QED
  BY <1>1, <1>2 DEF LookupInv, ImagesRemember

\* One step; the images, keys and drawings of all actions together.
LEMMA StepKeepsDrawings ==
    ASSUME FullInv, [Next]_vars
    PROVE  /\ LookupInv'
           /\ NoThinImage /\ BuffersShowTheirKeys => BuffersShowTheirKeys'
<1>1. ASSUME UNCHANGED <<image, buffer, held, asked>>
      PROVE  /\ LookupInv'
             /\ BuffersShowTheirKeys => BuffersShowTheirKeys'
  BY <1>1 DEF FullInv, LookupInv, ImagesRemember, KeysAreAskedFor, KeysAreUnique,
              BuffersShowTheirKeys, Live
<1>2. CASE StartRender
  BY <1>1, <1>2 DEF StartRender
<1>3. CASE UnloadImages
  BY <1>3, UnloadKeepsDrawings
<1>4. ASSUME NEW c \in Configs, DestroyConfig(c)
      PROVE  /\ LookupInv'
             /\ BuffersShowTheirKeys => BuffersShowTheirKeys'
  BY <1>4, DestroyKeepsDrawings
<1>5. ASSUME NEW c \in Configs, NEW size \in Sizes, RenderColor(c, size)
      PROVE  /\ LookupInv'
             /\ BuffersShowTheirKeys => BuffersShowTheirKeys'
  <2>1. ImagesRemember'
    BY <1>5 DEF RenderColor, FullInv, LookupInv, ImagesRemember, Remembers, MayRemember
  <2> QED
    BY <1>5, <2>1, ColorKeepsDrawings DEF LookupInv
<1>6. ASSUME NEW c \in Configs, NEW size \in Sizes, RenderImage(c, size)
      PROVE  /\ LookupInv'
             /\ NoThinImage /\ BuffersShowTheirKeys => BuffersShowTheirKeys'
  BY <1>6, ImageKeepsDrawings
<1>7. CASE UNCHANGED vars
  BY <1>1, <1>7 DEF vars
<1> QED
  BY <1>2, <1>3, <1>4, <1>5, <1>6, <1>7 DEF Next

LEMMA FirstDrawings == Init => LookupInv /\ BuffersShowTheirKeys
<1> SUFFICES ASSUME Init PROVE LookupInv /\ BuffersShowTheirKeys
  OBVIOUS
<1>1. ImagesRemember
  BY DEF Init, ImagesRemember, Remembers, NewImage
<1> QED
  BY <1>1, BuffersAssumption DEF Init, LookupInv, KeysAreAskedFor, KeysAreUnique,
         BuffersShowTheirKeys, Live

LEMMA Drawings == Spec => []FullInv
<1>1. Init => LookupInv
  BY FirstDrawings
<1>2. Inv /\ LookupInv /\ [Next]_vars => LookupInv'
  BY StepKeepsDrawings DEF FullInv
<1> QED
  BY <1>1, <1>2, Invariance, PTL DEF Spec, FullInv

(***************************************************************************)
(* No two buffers in one list have the same key (the lookup loops of       *)
(* get_wsbg_buffer, which take the first match), whatever fails to load    *)
(* and whichever outputs come and go in between.                           *)
(***************************************************************************)
THEOREM UniqueKeys == Spec => []KeysAreUnique
<1>1. FullInv => KeysAreUnique
  BY DEF FullInv, LookupInv
<1> QED
  BY <1>1, Drawings, PTL

-----------------------------------------------------------------------------
(***************************************************************************)
(* A configuration drawn again at the same size keeps the buffer it has:   *)
(* the key it looks for is the key of that buffer, which no other has.     *)
(***************************************************************************)
LEMMA RedrawStep ==
    ASSUME FullInv, [Next]_vars, NEW c \in Configs,
           held[c] # NULL, held'[c] # NULL, asked'[c] = asked[c],
           Look[c].image \notin Scalable
    PROVE  held'[c] = held[c]
<1>1. /\ held \in [Configs -> Buffers \union {NULL}]
      /\ asked \in [Configs -> Sizes \union {NULL}]
  BY DEF FullInv, Inv, TypeOK
<1>2. held[c] \in Live /\ IsAskedFor(c, asked[c], buffer[held[c]].key)
  <2>1. held[c] \in Buffers /\ c \in Holders(held[c])
    BY <1>1 DEF Holders
  <2>2. held[c] \in Live
    BY <2>1 DEF FullInv, Inv, RefCountExact, Live
  <2> QED
    BY <2>2 DEF FullInv, LookupInv, KeysAreAskedFor
<1>3. ASSUME NEW d \in Configs, d # c, NEW size, NEW table, NEW b, Keep(d, size, table, b)
      PROVE  held'[c] = held[c]
  BY <1>1, <1>3 DEF Keep
<1>4. ASSUME NEW size, NEW table, NEW b, Keep(c, size, table, b)
      PROVE  held'[c] = b /\ b # NULL /\ size = asked[c]
  BY <1>1, <1>4 DEF Keep
<1>5. ASSUME NEW size, Fail(c, size) PROVE FALSE
  BY <1>4, <1>5 DEF Fail
<1>6. ASSUME NEW size, NEW key, IsAskedFor(c, size, key), Hit(c, size, key)
      PROVE  held'[c] = held[c]
  <2>1. PICK b \in Live : buffer[b].key = key /\ Keep(c, size, Acquire(buffer, b), b)
    BY <1>6 DEF Hit
  <2>2. held'[c] = b /\ size = asked[c]
    BY <1>4, <2>1
  <2>3. buffer[b].key = buffer[held[c]].key
    BY <1>2, <1>6, <2>1, <2>2, OneKey
  <2> QED
    BY <1>2, <2>1, <2>2, <2>3 DEF FullInv, LookupInv, KeysAreUnique
<1>7. ASSUME NEW size, NEW key, IsAskedFor(c, size, key), Missed(key),
             NEW pixels, Miss(c, size, key, pixels)
      PROVE  FALSE
  <2>1. PICK b \in Buffers \ Live : Keep(c, size, Create(buffer, b, key, pixels), b)
    BY <1>7 DEF Miss
  <2>2. size = asked[c]
    BY <1>4, <2>1
  <2>3. key = buffer[held[c]].key
    BY <1>2, <1>7, <2>2, OneKey
  <2> QED
    BY <1>2, <1>7, <2>3 DEF Missed
<1>8. ASSUME NEW size \in Sizes, RenderColor(c, size) PROVE held'[c] = held[c]
  <2>1. IsAskedFor(c, size, ColorKey(c))
    BY <1>8 DEF RenderColor, IsAskedFor
  <2> QED
    BY <1>5, <1>6, <1>7, <1>8, <2>1 DEF RenderColor
<1>9. ASSUME NEW size \in Sizes, RenderImage(c, size) PROVE held'[c] = held[c]
  <2>1. PICK im :
          LET key == ImageKey(c, im, size)
          IN  /\ Loaded(im) => IsAskedFor(c, size, key)
              /\ \/ NoSize(c, size, im)
                 \/ Found(c, size, im, key)
                 \/ \E drawn : NotFound(c, size, im, key, drawn)
    BY <1>9, RenderImageCases
  <2> QED
    BY <1>5, <1>6, <1>7, <2>1 DEF NoSize, Found, NotFound
<1>10. ASSUME NEW d \in Configs, d # c, NEW size \in Sizes,
              RenderColor(d, size) \/ RenderImage(d, size)
       PROVE  held'[c] = held[c]
  <2>1. \E table, b : Keep(d, size, table, b)
    BY <1>10 DEF RenderColor, RenderImage, Hit, Miss, Fail
  <2> QED
    BY <1>3, <1>10, <2>1
<1>11. ASSUME NEW d \in Configs, DestroyConfig(d) PROVE held'[c] = held[c]
  BY <1>1, <1>11 DEF DestroyConfig
<1>12. CASE StartRender \/ UnloadImages \/ UNCHANGED vars
  BY <1>12 DEF StartRender, UnloadImages, vars
<1> QED
  BY <1>8, <1>9, <1>10, <1>11, <1>12 DEF Next

THEOREM RedrawReuses == Spec => RedrawReusesBuffer
<1>1. FullInv /\ [Next]_vars =>
        [\A c \in Configs :
          /\ held[c] # NULL /\ held'[c] # NULL
          /\ asked'[c] = asked[c]
          /\ Look[c].image \notin Scalable
          => held'[c] = held[c]]_vars
  BY RedrawStep
<1> QED
  BY <1>1, Drawings, PTL DEF Spec, RedrawReusesBuffer

-----------------------------------------------------------------------------
(***************************************************************************)
(* A configuration shows what it asks for, whoever drew its buffer: the    *)
(* buffer shows its key, and the key is the configuration's own, as the    *)
(* file has it.  An extremely thin scalable image is the exception: it is  *)
(* asked for at width 0, which load_image takes for its natural size.      *)
(***************************************************************************)
LEMMA AskedIsShown ==
    ASSUME NEW c \in Configs, ~IsColor(c), NEW size \in Sizes, NEW record \in BufferType,
           ShowsItsKey(record), IsAskedFor(c, size, record.key)
    PROVE  ShowsImage(c, record.pixels, size)
<1> DEFINE look   == Look[c]
           i      == look.image
           pixels == record.pixels
<1>1. i \in Images /\ i # NULL /\ look.color # Clear
  BY BuffersAssumption, ImagesAssumption DEF IsColor
<1>2. PICK bg \in Colors \union {Clear} :
        MayRemember(i, bg) /\ record.key = ImageKey(c, File(i, bg), size)
  BY DEF IsAskedFor
<1> DEFINE file == File(i, bg)
           t    == Transform(Size[i], look.mode, look.position, size.width, size.height)
           full == IsCovered(Size[i], look.mode, look.position, size.width, size.height)
           key  == record.key
<1>3. file.width = Size[i].width /\ file.height = Size[i].height /\ file.background = bg
  BY DEF File
<1>4. key = ImageKey(c, file, size)
  BY <1>2
<1> HIDE DEF file
<1>5. /\ Transform(file, look.mode, look.position, size.width, size.height) = t
      /\ IsCovered(file, look.mode, look.position, size.width, size.height) = full
  BY <1>3, OnlySizeMatters
<1> HIDE DEF t, full
<1>6. /\ key.list = i /\ key.transform = t
      /\ key.repeat = (look.mode = "tile" /\ ~full)
      /\ key.background = IF full /\ bg = Clear THEN Clear ELSE look.color
  BY <1>3, <1>4, <1>5 DEF ImageKey, Background
<1>7. i \in Alpha => key.background = look.color
  BY <1>2, <1>6, ImagesAssumption DEF MayRemember
<1> HIDE DEF i, key, pixels, look
<1>8. /\ pixels.transform = key.transform /\ pixels.fill = key.background
      /\ pixels.repeat = key.repeat
      /\ i \in Alpha => pixels.surface.background = key.background
      /\ i \in Scalable =>
           /\ pixels.surface.width = RoundedDiv(Size[i].width * Q16, key.transform.scale_x)
           /\ pixels.surface.height = RoundedDiv(Size[i].height * Q16, key.transform.scale_y)
  BY <1>1, <1>6 DEF ShowsItsKey, key, pixels
<1>9. /\ pixels.transform = t
      /\ ~full => pixels.fill = look.color
      /\ look.mode = "tile" /\ ~full => pixels.repeat
      /\ i \in Alpha => pixels.surface.background = look.color
  BY <1>6, <1>7, <1>8
<1>10. i \in Scalable =>
         /\ pixels.surface.width = RoundedDiv(Size[i].width * Q16, t.scale_x)
         /\ pixels.surface.height = RoundedDiv(Size[i].height * Q16, t.scale_y)
  BY <1>6, <1>8
<1> QED
  BY <1>9, <1>10 DEF ShowsImage, t, full, look, i, pixels

THEOREM BuffersFit ==
    ASSUME NoThinImage
    PROVE  Spec => []BuffersShowTheirConfigs
<1>1. Init => BuffersShowTheirKeys
  BY FirstDrawings
<1>2. FullInv /\ BuffersShowTheirKeys /\ [Next]_vars => BuffersShowTheirKeys'
  BY StepKeepsDrawings
<1>3. FullInv /\ BuffersShowTheirKeys => BuffersShowTheirConfigs
  <2> SUFFICES ASSUME FullInv, BuffersShowTheirKeys, NEW c \in Configs, held[c] # NULL
               PROVE  LET pixels == buffer[held[c]].pixels
                      IN  IF IsColor(c) THEN pixels.fill = Look[c].color
                                        ELSE ShowsImage(c, pixels, asked[c])
    BY DEF BuffersShowTheirConfigs
  <2> DEFINE record == buffer[held[c]]
  <2>1. held[c] \in Buffers /\ c \in Holders(held[c])
    BY DEF Holders, FullInv, Inv, TypeOK
  <2>2. record # NULL /\ record \in BufferType
    BY <2>1 DEF FullInv, Inv, TypeOK, RefCountExact
  <2>3. ShowsItsKey(record)
    BY <2>1, <2>2 DEF BuffersShowTheirKeys, Live
  <2>4. asked[c] \in Sizes /\ IsAskedFor(c, asked[c], record.key)
    BY DEF FullInv, LookupInv, KeysAreAskedFor
  <2> HIDE DEF record
  <2>5. CASE IsColor(c)
    <3>1. record.key = ColorKey(c)
      BY <2>4, <2>5 DEF IsAskedFor
    <3> QED
      BY <2>3, <2>5, <3>1 DEF ShowsItsKey, ColorKey, record
  <2>6. CASE ~IsColor(c)
    BY <2>2, <2>3, <2>4, <2>6, AskedIsShown DEF record
  <2> QED
    BY <2>5, <2>6
<1> QED
  BY <1>1, <1>2, <1>3, Drawings, PTL DEF Spec
=============================================================================
