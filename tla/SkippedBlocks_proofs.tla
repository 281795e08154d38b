-------------------------- MODULE SkippedBlocks_proofs --------------------------
(***************************************************************************)
(* For any list of regions, any file and any sizes of blocks: the set of   *)
(* integers implements IntegerSet, its array stays in order, and a block   *)
(* is skipped only if it is in the blob or has no data.                    *)
(*                                                                         *)
(* SetInv says what the loop has done: the intervals it has passed do not  *)
(* meet the one that is taken away.  That neighbours are in order is       *)
(* enough, the parts of an interval that is cut lie between its own. The   *)
(* detection and the decision follow.                                      *)
(***************************************************************************)
EXTENDS SkippedBlocks, SequenceTheorems, TLAPS

-------------------------------------------------------------------------------
(* The set: what subtractInterval() has still to look at, and what it has done. *)

Ordered(ranges) ==
  \A k \in DOMAIN ranges :
    /\ ranges[k].start <= ranges[k].end
    /\ k > 1 => ranges[k].start > ranges[k - 1].end

\* The intervals behind the one whose turn it is do not meet start .. end.
SetInv ==
  /\ v \in Seq(Set!Intervals) /\ Ordered(v)
  /\ start \in 0 .. Bound /\ end \in 0 .. Bound /\ start <= end
  /\ i \in 0 .. Len(v)
  /\ i > 0 => \A k \in DOMAIN v : k > i => v[k].end < start \/ v[k].start > end

-------------------------------------------------------------------------------
(* The detection: the blocks before blockIndex have their answers, and what was *)
(* read of the block that is being read has no data.                           *)

N == NonZeroBlockSize

AnsweredInv ==
  \A b \in Blocks!BlockIndices : b < blockIndex => (nonZeroBlocks[b] <=> Blocks!HasData(b))

ReadingInv ==
  answer = "none" =>
    /\ fileOffset \in Nat /\ len \in 1 .. N
    /\ blockIndex * N <= fileOffset
    /\ fileOffset + len = Blocks!Smaller(blockIndex * N + N, Len(data))
    /\ \A k \in 1 .. Len(data) : blockIndex * N < k /\ k <= fileOffset => data[k] = 0

DetectionInv ==
  /\ data \in Seq(Blocks!Byte) /\ Len(data) \in 1 .. Bound + 1
  /\ nonZeroBlocks \in [Blocks!BlockIndices -> BOOLEAN]
  /\ blockIndex \in Nat
  /\ answer \in {"none", "blocks", "error"}
  /\ AnsweredInv
  /\ ReadingInv
  /\ answer = "blocks" => Len(data) <= blockIndex * N

-------------------------------------------------------------------------------
(* The decision.                                                               *)

In(ranges) == UNION {ranges[k].start .. ranges[k].end : k \in DOMAIN ranges}

\* A block of the upload lies in a block of the detection.
RegionInv ==
  /\ first \in Nat /\ last \in Nat /\ last < Size
  /\ first <= last
  /\ \A p \in first .. last : p \div N = first \div N

DecisionInv ==
  /\ dynVHD \in BOOLEAN /\ blockSize \in UploadBlockSizes
  /\ phase \in {"listing", "choosing", "subtracting", "sent", "skipped"}
  /\ phase \notin {"listing", "subtracting"} \/ (phase = "listing" /\ ~dynVHD) => i = 0
  /\ phase # "listing" /\ ~dynVHD => answer = "blocks"
  /\ uploadedRegions \in Seq(Set!Intervals) /\ Ordered(uploadedRegions)
  /\ todo \in Seq(Set!Intervals) /\ \A k \in DOMAIN todo : todo[k].start <= todo[k].end
  /\ phase \in {"subtracting", "sent", "skipped"} => RegionInv
  /\ phase = "subtracting" =>
       /\ Set!Denoted \ In(todo) = (first .. last) \ Uploaded
       /\ dynVHD \/ Blocks!HasData(first \div N)
  /\ SkippedRightly

IInv == SetInv /\ DetectionInv /\ DecisionInv

-------------------------------------------------------------------------------
(* Arrays of intervals.                                                        *)

LEMMA IntervalFacts ==
  /\ Bound \in Nat
  /\ Set!Intervals = [start : 0 .. Bound, end : 0 .. Bound]
BY SetAssumption DEF Set!BoundAssumption, Set!Intervals

LEMMA InRanges ==
  ASSUME NEW ranges \in Seq(Set!Intervals), NEW x
  PROVE  x \in In(ranges) <=>
           x \in Int /\ \E k \in DOMAIN ranges : ranges[k].start <= x /\ x <= ranges[k].end
<1>1. \A k \in DOMAIN ranges : ranges[k].start \in Int /\ ranges[k].end \in Int
  <2>1. \A k \in DOMAIN ranges : ranges[k] \in Set!Intervals
    OBVIOUS
  <2>. QED BY <2>1, IntervalFacts
<1>. QED BY <1>1 DEF In

LEMMA NothingIn == ASSUME NEW ranges, ranges = <<>> PROVE In(ranges) = {}
BY DEF In

LEMMA ThreeParts ==
  ASSUME NEW n \in Nat, NEW l \in Nat, NEW m \in 1 .. n,
         NEW s, NEW items, NEW a, NEW b, NEW c, NEW t,
         \A k \in 1 .. m - 1 : a[k] = s[k],
         \A k \in 1 .. n - m : b[k] = s[k + m],
         \A k \in 1 .. m - 1 + l : c[k] = IF k <= m - 1 THEN a[k] ELSE items[k - (m - 1)],
         \A k \in 1 .. m - 1 + l + (n - m) :
           t[k] = IF k <= m - 1 + l THEN c[k] ELSE b[k - (m - 1 + l)]
  PROVE  \A k \in 1 .. n - 1 + l :
           t[k] = IF k < m THEN s[k]
                  ELSE IF k < m + l THEN items[k - m + 1]
                  ELSE s[k - l + 1]
<1> SUFFICES ASSUME NEW k \in 1 .. n - 1 + l
             PROVE  t[k] = IF k < m THEN s[k]
                           ELSE IF k < m + l THEN items[k - m + 1]
                           ELSE s[k - l + 1]
  OBVIOUS
<1>1. CASE k < m
  BY <1>1
<1>2. CASE k >= m /\ k < m + l
  <2>1. k - (m - 1) = k - m + 1
    OBVIOUS
  <2>. QED BY <1>2, <2>1
<1>3. CASE k >= m + l
  <2>1. k - (m - 1 + l) + m = k - l + 1
    OBVIOUS
  <2>. QED BY <1>3, <2>1
<1>. QED BY <1>1, <1>2, <1>3

\* Which elements v.splice(m, 1, ...) leaves where.
LEMMA SplicedFacts ==
  ASSUME NEW S, NEW s \in Seq(S), NEW m \in 1 .. Len(s), NEW items \in Seq(S)
  PROVE  LET t == (SubSeq(s, 1, m - 1) \o items) \o SubSeq(s, m + 1, Len(s))
         IN /\ t \in Seq(S)
            /\ Len(t) = Len(s) - 1 + Len(items)
            /\ \A k \in 1 .. Len(t) :
                 t[k] = IF k < m THEN s[k]
                        ELSE IF k < m + Len(items) THEN items[k - m + 1]
                        ELSE s[k - Len(items) + 1]
<1> DEFINE t == (SubSeq(s, 1, m - 1) \o items) \o SubSeq(s, m + 1, Len(s))
           a == SubSeq(s, 1, m - 1)
           b == SubSeq(s, m + 1, Len(s))
<1>1. /\ a \in Seq(S) /\ Len(a) = m - 1
      /\ \A k \in 1 .. m - 1 : a[k] = s[k]
  BY SubSeqProperties
<1>2. /\ b \in Seq(S) /\ Len(b) = Len(s) - m
      /\ \A k \in 1 .. Len(s) - m : b[k] = s[k + m]
  BY SubSeqProperties
<1> HIDE DEF a, b, t
<1> DEFINE c == a \o items
<1>3. /\ c \in Seq(S) /\ Len(c) = m - 1 + Len(items)
      /\ \A k \in 1 .. m - 1 + Len(items) :
           c[k] = IF k <= m - 1 THEN a[k] ELSE items[k - (m - 1)]
  <2>1. /\ c \in Seq(S) /\ Len(c) = Len(a) + Len(items)
        /\ \A k \in 1 .. Len(a) + Len(items) :
             c[k] = IF k <= Len(a) THEN a[k] ELSE items[k - Len(a)]
    BY <1>1, ConcatProperties
  <2> HIDE DEF c
  <2>. QED BY <1>1, <2>1
<1>4. t = c \o b
  BY DEF a, b, t
<1> HIDE DEF c, t
<1>5. /\ t \in Seq(S) /\ Len(t) = m - 1 + Len(items) + (Len(s) - m)
      /\ \A k \in 1 .. m - 1 + Len(items) + (Len(s) - m) :
           t[k] = IF k <= m - 1 + Len(items) THEN c[k] ELSE b[k - (m - 1 + Len(items))]
  <2>1. /\ c \o b \in Seq(S) /\ Len(c \o b) = Len(c) + Len(b)
        /\ \A k \in 1 .. Len(c) + Len(b) :
             (c \o b)[k] = IF k <= Len(c) THEN c[k] ELSE b[k - Len(c)]
    BY <1>2, <1>3, ConcatProperties
  <2>2. \A k \in 1 .. Len(c) + Len(b) : t[k] = IF k <= Len(c) THEN c[k] ELSE b[k - Len(c)]
    BY <1>4, <2>1
  <2>3. t \in Seq(S) /\ Len(t) = Len(c) + Len(b)
    BY <1>4, <2>1
  <2>. QED BY <1>2, <1>3, <2>2, <2>3
<1>6. Len(items) \in Nat /\ Len(s) \in Nat
  OBVIOUS
<1>7. PICK n \in Nat, l \in Nat : n = Len(s) /\ l = Len(items)
  BY <1>6
<1>8. /\ m \in 1 .. n /\ Len(t) = n - 1 + l
      /\ \A k \in 1 .. n - m : b[k] = s[k + m]
      /\ \A k \in 1 .. m - 1 + l : c[k] = IF k <= m - 1 THEN a[k] ELSE items[k - (m - 1)]
      /\ \A k \in 1 .. m - 1 + l + (n - m) :
           t[k] = IF k <= m - 1 + l THEN c[k] ELSE b[k - (m - 1 + l)]
  <2>1. m \in 1 .. n /\ \A k \in 1 .. n - m : b[k] = s[k + m]
    BY <1>2, <1>7
  <2>2. \A k \in 1 .. m - 1 + l : c[k] = IF k <= m - 1 THEN a[k] ELSE items[k - (m - 1)]
    BY <1>3, <1>7
  <2>3. Len(t) = m - 1 + l + (n - m)
    BY <1>5, <1>7
  <2>4. \A k \in 1 .. m - 1 + l + (n - m) :
          t[k] = IF k <= m - 1 + l THEN c[k] ELSE b[k - (m - 1 + l)]
    BY <1>5, <1>7
  <2>5. m - 1 + l + (n - m) = n - 1 + l
    BY <2>1
  <2>. QED BY <2>1, <2>2, <2>3, <2>4, <2>5
<1>9. \A k \in 1 .. n - 1 + l :
        t[k] = IF k < m THEN s[k]
               ELSE IF k < m + l THEN items[k - m + 1]
               ELSE s[k - l + 1]
  BY <1>1, <1>8, ThreeParts
<1>10. /\ t \in Seq(S)
       /\ Len(t) = Len(s) - 1 + Len(items)
       /\ \A k \in 1 .. Len(t) :
            t[k] = IF k < m THEN s[k]
                   ELSE IF k < m + Len(items) THEN items[k - m + 1]
                   ELSE s[k - Len(items) + 1]
  BY <1>5, <1>7, <1>8, <1>9
<1>. QED BY <1>10 DEF t

-------------------------------------------------------------------------------
(* A turn of the loop.                                                         *)

\* Parts is what a turn may put in the place of the interval it cuts.
Parts(cut, parts) ==
  /\ parts \in Seq(Set!Intervals) /\ Ordered(parts)
  /\ \A k \in DOMAIN parts :
       /\ cut.start <= parts[k].start /\ parts[k].end <= cut.end
       /\ parts[k].end < start \/ parts[k].start > end
  /\ \A x \in cut.start .. cut.end :
       x < start \/ x > end => \E k \in DOMAIN parts : parts[k].start <= x /\ x <= parts[k].end

LEMMA RestFacts ==
  ASSUME SetInv, i > 0, ~Set!Outside
  PROVE  Parts(v[i], Set!Rest)
<1> DEFINE lower == [v[i] EXCEPT !.end = start - 1]
           upper == [v[i] EXCEPT !.start = end + 1]
<1>1. /\ v[i] \in [start : 0 .. Bound, end : 0 .. Bound] /\ v[i].start <= v[i].end
      /\ Bound \in Nat /\ start \in 0 .. Bound /\ end \in 0 .. Bound /\ start <= end
  <2>1. i \in DOMAIN v /\ v[i] \in Set!Intervals
    BY DEF SetInv
  <2>2. v[i].start <= v[i].end
    BY <2>1 DEF SetInv, Ordered
  <2>. QED BY <2>1, <2>2, IntervalFacts DEF SetInv
<1>2. v[i].start <= end /\ v[i].end >= start
  BY <1>1 DEF Set!Outside
<1>3. /\ v[i].start < start => /\ lower \in Set!Intervals
                               /\ lower.start = v[i].start /\ lower.end = start - 1
      /\ v[i].end > end => /\ upper \in Set!Intervals
                           /\ upper.start = end + 1 /\ upper.end = v[i].end
  BY <1>1, <1>2, IntervalFacts
<1> HIDE DEF lower, upper
<1>4. Set!Rest = (IF v[i].start < start THEN <<lower>> ELSE <<>>)
                   \o (IF v[i].end > end THEN <<upper>> ELSE <<>>)
  BY DEF Set!Rest, Set!Before, Set!Behind, lower, upper
<1>5. CASE v[i].start < start /\ v[i].end > end
  <2>1. Set!Rest = <<lower, upper>>
    <3>1. ASSUME NEW x, NEW y PROVE <<x>> \o <<y>> = <<x, y>>
      <4> DEFINE s == <<x>> \o <<y>>
      <4>1. <<x>> \in Seq({x, y}) /\ <<y>> \in Seq({x, y})
        OBVIOUS
      <4>2. s \in Seq({x, y}) /\ Len(s) = 2 /\ s[1] = x /\ s[2] = y
        BY <4>1, ConcatProperties
      <4> HIDE DEF s
      <4>3. s = <<x, y>>
        BY <4>2
      <4>. QED BY <4>3 DEF s
    <3>. QED BY <1>4, <1>5, <3>1
  <2>. QED BY <1>1, <1>2, <1>3, <1>5, <2>1 DEF Parts, Ordered
<1>6. CASE v[i].start < start /\ ~(v[i].end > end)
  <2>1. Set!Rest = <<lower>>
    <3>1. \A x : <<x>> \o <<>> = <<x>>
      OBVIOUS
    <3>. QED BY <1>4, <1>6, <3>1
  <2>. QED BY <1>1, <1>2, <1>3, <1>6, <2>1 DEF Parts, Ordered
<1>7. CASE ~(v[i].start < start) /\ v[i].end > end
  <2>1. Set!Rest = <<upper>>
    BY <1>4, <1>7
  <2>. QED BY <1>1, <1>2, <1>3, <1>7, <2>1 DEF Parts, Ordered
<1>8. CASE ~(v[i].start < start) /\ ~(v[i].end > end)
  <2>1. Set!Rest = <<>>
    BY <1>4, <1>8
  <2>. QED BY <1>1, <1>2, <1>8, <2>1 DEF Parts, Ordered
<1>. QED BY <1>5, <1>6, <1>7, <1>8

LEMMA Places ==
  ASSUME NEW k \in Int, NEW m \in Int, NEW l \in Nat
  PROVE  /\ k < m \/ (k >= m /\ k < m + l) \/ k >= m + l
         /\ k >= m + l => k > m + l \/ (k = m + l /\ l > 0) \/ (k = m + l /\ l = 0)
OBVIOUS

\* The array with the parts in the place of the interval that was cut.
LEMMA CutFacts ==
  ASSUME SetInv, i > 0, NEW parts, Parts(v[i], parts), NEW t, NEW l \in Nat,
         t \in Seq(Set!Intervals), l = Len(parts), Len(t) = Len(v) - 1 + l,
         \A k \in 1 .. Len(t) : t[k] = IF k < i THEN v[k]
                                       ELSE IF k < i + l THEN parts[k - i + 1]
                                       ELSE v[k - l + 1]
  PROVE  /\ Ordered(t)
         /\ \A k \in DOMAIN t : k > i - 1 => t[k].end < start \/ t[k].start > end
         /\ In(t) \ (start .. end) = In(v) \ (start .. end)
<1> PICK n \in Nat : n = Len(v)
  BY DEF SetInv
<1>1. /\ i \in 1 .. n /\ Len(t) = n - 1 + l /\ start \in Int /\ end \in Int
      /\ DOMAIN v = 1 .. n /\ DOMAIN t = 1 .. n - 1 + l /\ DOMAIN parts = 1 .. l
  BY DEF SetInv, Parts
<1>2. /\ \A k \in 1 .. n : v[k].start \in Int /\ v[k].end \in Int
      /\ \A k \in 1 .. l : parts[k].start \in Int /\ parts[k].end \in Int
  <2>1. /\ \A k \in 1 .. n : v[k] \in Set!Intervals
        /\ \A k \in 1 .. l : parts[k] \in Set!Intervals
    BY <1>1 DEF SetInv, Parts
  <2>. QED BY <2>1, IntervalFacts
<1>3. /\ \A k \in 1 .. n : v[k].start <= v[k].end
      /\ \A k \in 1 .. n : k > 1 => v[k].start > v[k - 1].end
      /\ \A k \in 1 .. n : k > i => v[k].end < start \/ v[k].start > end
  BY <1>1 DEF SetInv, Ordered
<1>4. /\ \A k \in 1 .. l : parts[k].start <= parts[k].end
      /\ \A k \in 1 .. l : k > 1 => parts[k].start > parts[k - 1].end
      /\ \A k \in 1 .. l : v[i].start <= parts[k].start /\ parts[k].end <= v[i].end
      /\ \A k \in 1 .. l : parts[k].end < start \/ parts[k].start > end
      /\ \A x \in v[i].start .. v[i].end :
           x < start \/ x > end => \E k \in 1 .. l : parts[k].start <= x /\ x <= parts[k].end
  BY <1>1 DEF Parts, Ordered
<1>5. \A k \in 1 .. n - 1 + l : t[k] = IF k < i THEN v[k]
                                       ELSE IF k < i + l THEN parts[k - i + 1]
                                       ELSE v[k - l + 1]
  BY <1>1
<1>6. Ordered(t)
  <2> SUFFICES ASSUME NEW k \in 1 .. n - 1 + l
               PROVE  t[k].start <= t[k].end /\ (k > 1 => t[k].start > t[k - 1].end)
    BY <1>1 DEF Ordered
  <2>1. CASE k < i
    BY <1>1, <1>3, <1>5, <2>1
  <2>2. CASE k >= i /\ k < i + l
    <3>1. k - i + 1 \in 1 .. l /\ t[k] = parts[k - i + 1]
      BY <1>1, <1>5, <2>2
    <3>2. CASE k = i
      <4>1. k > 1 => t[k - 1] = v[i - 1]
        BY <1>1, <1>5, <3>2
      <4>. QED BY <1>1, <1>2, <1>3, <1>4, <3>1, <3>2, <4>1
    <3>3. CASE k > i
      <4>1. /\ k - 1 \in 1 .. n - 1 + l /\ ~(k - 1 < i) /\ k - 1 < i + l
            /\ (k - 1) - i + 1 = k - i /\ (k - i + 1) - 1 = k - i
            /\ k - i + 1 > 1
        BY <1>1, <2>2, <3>3
      <4>2. t[k - 1] = parts[k - i]
        BY <1>5, <4>1
      <4>. QED BY <1>4, <3>1, <4>1, <4>2
    <3>. QED BY <1>1, <2>2, <3>2, <3>3
  <2>3. CASE k >= i + l
    <3>1. k - l + 1 \in 1 .. n /\ t[k] = v[k - l + 1] /\ k - l + 1 > i
      BY <1>1, <1>5, <2>3
    <3>2. CASE k > i + l
      <4>1. /\ k - 1 \in 1 .. n - 1 + l /\ ~(k - 1 < i) /\ ~(k - 1 < i + l)
            /\ (k - 1) - l + 1 = k - l /\ (k - l + 1) - 1 = k - l
        BY <1>1, <3>2
      <4>2. t[k - 1] = v[k - l]
        BY <1>5, <4>1
      <4>. QED BY <1>1, <1>3, <3>1, <3>2, <4>1, <4>2
    <3>3. CASE k = i + l /\ l > 0
      <4>1. t[k - 1] = parts[l]
        BY <1>1, <1>5, <3>3
      <4>2. v[i + 1].start > v[i].end
        BY <1>1, <1>3, <3>1, <3>3
      <4>. QED BY <1>1, <1>2, <1>3, <1>4, <3>1, <3>3, <4>1, <4>2
    <3>4. CASE k = i + l /\ l = 0
      <4>1. k > 1 => t[k - 1] = v[i - 1]
        BY <1>1, <1>5, <3>4
      <4>2. v[i + 1].start > v[i].end
        BY <1>1, <1>3, <3>1, <3>4
      <4>3. t[k] = v[i + 1] /\ i + 1 \in 1 .. n
        <5>1. k - l + 1 = i + 1
          BY <1>1, <3>4
        <5>. QED BY <3>1, <5>1
      <4>4. v[i].end >= v[i].start /\ (k > 1 => v[i].start > v[i - 1].end /\ i - 1 \in 1 .. n)
        BY <1>1, <1>3, <3>4
      <4>5. t[k].start > v[i].end /\ t[k].start <= t[k].end
        BY <1>3, <4>2, <4>3
      <4>6. ASSUME k > 1 PROVE t[k].start > t[k - 1].end
        <5>1. i - 1 \in 1 .. n /\ t[k - 1] = v[i - 1]
          BY <4>1, <4>4, <4>6
        <5>2. /\ v[i - 1].end \in Int /\ v[i].start \in Int /\ v[i].end \in Int
              /\ v[i + 1].start \in Int
          BY <1>1, <1>2, <4>3, <5>1
        <5>. QED BY <4>3, <4>4, <4>5, <4>6, <5>1, <5>2
      <4>. QED BY <4>5, <4>6
    <3>5. k > i + l \/ (k = i + l /\ l > 0) \/ (k = i + l /\ l = 0)
      <4>1. k \in Int /\ i \in Int
        BY <1>1
      <4>. QED BY <2>3, <4>1, Places
    <3>. QED BY <3>2, <3>3, <3>4, <3>5
  <2>4. k < i \/ (k >= i /\ k < i + l) \/ k >= i + l
    <3>1. k \in Int /\ i \in Int
      BY <1>1
    <3>. QED BY <3>1, Places
  <2>. QED BY <2>1, <2>2, <2>3, <2>4
<1>7. ASSUME NEW k \in 1 .. n - 1 + l, k > i - 1
      PROVE  t[k].end < start \/ t[k].start > end
  <2>1. CASE k < i + l
    <3>1. k - i + 1 \in 1 .. l /\ t[k] = parts[k - i + 1]
      BY <1>1, <1>5, <1>7, <2>1
    <3>. QED BY <1>4, <3>1
  <2>2. CASE k >= i + l
    <3>1. k - l + 1 \in 1 .. n /\ t[k] = v[k - l + 1] /\ k - l + 1 > i
      BY <1>1, <1>5, <2>2
    <3>. QED BY <1>3, <3>1
  <2>. QED BY <1>1, <2>1, <2>2
<1>8. ASSUME NEW x \in Int, x < start \/ x > end
      PROVE  (\E k \in 1 .. n - 1 + l : t[k].start <= x /\ x <= t[k].end)
               <=> (\E k \in 1 .. n : v[k].start <= x /\ x <= v[k].end)
  <2>1. ASSUME NEW k \in 1 .. n - 1 + l, t[k].start <= x, x <= t[k].end
        PROVE  \E h \in 1 .. n : v[h].start <= x /\ x <= v[h].end
    <3>1. CASE k < i
      BY <1>1, <1>5, <2>1, <3>1
    <3>2. CASE k >= i /\ k < i + l
      <4>1. k - i + 1 \in 1 .. l /\ t[k] = parts[k - i + 1]
        BY <1>1, <1>5, <3>2
      <4>2. PICK j \in 1 .. l : t[k] = parts[j]
        BY <4>1
      <4>3. /\ v[i].start \in Int /\ v[i].end \in Int
            /\ parts[j].start \in Int /\ parts[j].end \in Int
        BY <1>1, <1>2
      <4>4. v[i].start <= x /\ x <= v[i].end
        BY <1>4, <2>1, <4>2, <4>3
      <4>. QED BY <1>1, <4>4
    <3>3. CASE k >= i + l
      <4>1. k - l + 1 \in 1 .. n /\ t[k] = v[k - l + 1]
        BY <1>1, <1>5, <3>3
      <4>. QED BY <2>1, <4>1
    <3>4. k < i \/ (k >= i /\ k < i + l) \/ k >= i + l
      <4>1. k \in Int /\ i \in Int
        BY <1>1
      <4>. QED BY <4>1, Places
    <3>. QED BY <3>1, <3>2, <3>3, <3>4
  <2>2. ASSUME NEW h \in 1 .. n, v[h].start <= x, x <= v[h].end
        PROVE  \E k \in 1 .. n - 1 + l : t[k].start <= x /\ x <= t[k].end
    <3>1. CASE h < i
      <4>1. h \in 1 .. n - 1 + l /\ t[h] = v[h]
        BY <1>1, <1>5, <3>1
      <4>. QED BY <2>2, <4>1
    <3>2. CASE h = i
      <4>1. x \in v[i].start .. v[i].end
        BY <1>1, <1>2, <2>2, <3>2
      <4>2. PICK k \in 1 .. l : parts[k].start <= x /\ x <= parts[k].end
        BY <1>4, <1>8, <4>1
      <4>3. /\ i + k - 1 \in 1 .. n - 1 + l /\ (i + k - 1) - i + 1 = k
            /\ ~(i + k - 1 < i) /\ i + k - 1 < i + l
        BY <1>1
      <4>4. t[i + k - 1] = parts[k]
        BY <1>5, <4>3
      <4>. QED BY <4>2, <4>3, <4>4
    <3>3. CASE h > i
      <4>1. /\ h + l - 1 \in 1 .. n - 1 + l /\ (h + l - 1) - l + 1 = h
            /\ ~(h + l - 1 < i) /\ ~(h + l - 1 < i + l)
        BY <1>1, <3>3
      <4>2. t[h + l - 1] = v[h]
        BY <1>5, <4>1
      <4>. QED BY <2>2, <4>1, <4>2
    <3>. QED BY <1>1, <3>1, <3>2, <3>3
  <2>. QED BY <2>1, <2>2
<1>9. In(t) \ (start .. end) = In(v) \ (start .. end)
  <2>1. v \in Seq(Set!Intervals)
    BY DEF SetInv
  <2>2. ASSUME NEW x PROVE x \in In(t) \ (start .. end) <=> x \in In(v) \ (start .. end)
    <3>1. CASE x \in Int /\ (x < start \/ x > end)
      BY <1>1, <1>8, <2>1, <3>1, InRanges
    <3>2. CASE x \notin Int \/ x \in start .. end
      BY <1>1, <2>1, <3>2, InRanges
    <3>. QED BY <1>1, <3>1, <3>2
  <2>. QED BY <2>2
<1>. QED BY <1>1, <1>6, <1>7, <1>9

LEMMA DenotedIs ==
  /\ Set!Denoted = IF i = 0 THEN In(v) ELSE In(v) \ (start .. end)
  /\ Set!Denoted' = IF i' = 0 THEN In(v') ELSE In(v') \ (start' .. end')
BY DEF Set!Denoted, Set!Members, In

\* What is left of the loop takes no member from the set that is denoted.
LEMMA TurnFacts ==
  ASSUME SetInv, Set!Turn
  PROVE  SetInv' /\ Set!Denoted' = Set!Denoted
<1>1. PICK n \in Nat : n = Len(v)
  BY DEF SetInv
<1>2. /\ i \in 1 .. n /\ i' = i - 1 /\ start' = start /\ end' = end
      /\ start \in Int /\ end \in Int
  BY <1>1 DEF Set!Turn, SetInv
<1>3. /\ v' \in Seq(Set!Intervals) /\ Ordered(v') /\ n - 1 <= Len(v')
      /\ \A k \in DOMAIN v' : k > i - 1 => v'[k].end < start \/ v'[k].start > end
      /\ In(v') \ (start .. end) = In(v) \ (start .. end)
  <2>1. CASE Set!Outside
    <3>1. v' = v
      BY <2>1 DEF Set!Turn
    <3>2. \A k \in DOMAIN v : k > i - 1 => k > i \/ k = i
      BY <1>1, <1>2 DEF SetInv
    <3>. QED BY <1>1, <1>2, <2>1, <3>1, <3>2 DEF Set!Outside, SetInv
  <2>2. CASE ~Set!Outside
    <3>1. Parts(v[i], Set!Rest)
      BY <1>2, <2>2, RestFacts
    <3>2. PICK parts : parts = Set!Rest
      OBVIOUS
    <3>3. Parts(v[i], parts) /\ parts \in Seq(Set!Intervals)
      BY <3>1, <3>2 DEF Parts
    <3>4. PICK l \in Nat : l = Len(parts)
      BY <3>3
    <3>5. v' = (SubSeq(v, 1, i - 1) \o parts) \o SubSeq(v, i + 1, Len(v))
      BY <1>2, <2>2, <3>2 DEF Set!Turn, Set!Spliced
    <3>6. v \in Seq(Set!Intervals) /\ i \in 1 .. Len(v)
      BY <1>1, <1>2 DEF SetInv
    <3>7. /\ v' \in Seq(Set!Intervals)
          /\ Len(v') = Len(v) - 1 + Len(parts)
          /\ \A k \in 1 .. Len(v') :
               v'[k] = IF k < i THEN v[k]
                       ELSE IF k < i + Len(parts) THEN parts[k - i + 1]
                       ELSE v[k - Len(parts) + 1]
      BY <3>3, <3>5, <3>6, SplicedFacts, Zenon
    <3>8. /\ Ordered(v')
          /\ \A k \in DOMAIN v' : k > i - 1 => v'[k].end < start \/ v'[k].start > end
          /\ In(v') \ (start .. end) = In(v) \ (start .. end)
      <4>1. PICK t : t = v'
        OBVIOUS
      <4>2. /\ t \in Seq(Set!Intervals) /\ Len(t) = Len(v) - 1 + l
            /\ \A k \in 1 .. Len(t) : t[k] = IF k < i THEN v[k]
                                             ELSE IF k < i + l THEN parts[k - i + 1]
                                             ELSE v[k - l + 1]
        BY <3>4, <3>7, <4>1
      <4>3. i > 0
        BY <1>2
      <4>4. /\ Ordered(t)
            /\ \A k \in DOMAIN t : k > i - 1 => t[k].end < start \/ t[k].start > end
            /\ In(t) \ (start .. end) = In(v) \ (start .. end)
        BY <3>3, <3>4, <4>2, <4>3, CutFacts
      <4>. QED BY <4>1, <4>4
    <3>9. n - 1 <= Len(v')
      <4>1. Len(v') = n - 1 + l
        BY <1>1, <3>4, <3>7
      <4>. QED BY <4>1
    <3>. QED BY <3>7, <3>8, <3>9
  <2>. QED BY <2>1, <2>2
<1>4. SetInv'
  BY <1>2, <1>3 DEF SetInv
<1>5. CASE i' = 0
  <2>1. \A k \in DOMAIN v' : v'[k].end < start \/ v'[k].start > end
    BY <1>2, <1>3, <1>5
  <2>2. ASSUME NEW x \in In(v') PROVE x \notin start .. end
    <3>1. PICK k \in DOMAIN v' : x \in Int /\ v'[k].start <= x /\ x <= v'[k].end
      BY <1>3, InRanges
    <3>2. v'[k] \in Set!Intervals
      BY <1>3
    <3>. QED BY <1>2, <2>1, <3>1, <3>2, IntervalFacts
  <2>3. In(v') \ (start .. end) = In(v')
    BY <2>2
  <2>. QED BY <1>2, <1>3, <1>4, <1>5, <2>3, DenotedIs
<1>6. CASE i' # 0
  <2>1. Set!Denoted = In(v) \ (start .. end)
    BY <1>2, DenotedIs
  <2>2. Set!Denoted' = In(v') \ (start .. end)
    BY <1>2, <1>6, DenotedIs
  <2>. QED BY <1>3, <1>4, <2>1, <2>2
<1>. QED BY <1>4, <1>5, <1>6

\* The call itself decides what is denoted.
LEMMA SubtractFacts ==
  ASSUME SetInv, NEW from \in 0 .. Bound, NEW to \in 0 .. Bound, from <= to,
         Set!Subtract(from, to)
  PROVE  /\ SetInv' /\ Set!Denoted' = Set!Denoted \ (from .. to)
         /\ start' = from /\ end' = to
<1>1. i = 0 /\ i' = Len(v) /\ v' = v /\ start' = from /\ end' = to
  BY DEF Set!Subtract
<1>2. SetInv'
  <2>1. Len(v) \in Nat /\ v \in Seq(Set!Intervals) /\ DOMAIN v = 1 .. Len(v)
    BY DEF SetInv
  <2>2. \A k \in DOMAIN v : ~(k > Len(v))
    BY <2>1
  <2>. QED BY <1>1, <2>1, <2>2 DEF SetInv
<1>3. Set!Denoted = In(v)
  BY <1>1, DenotedIs
<1>4. CASE Len(v) = 0
  <2>1. In(v) = {}
    BY <1>4, NothingIn DEF SetInv
  <2>2. Set!Denoted' = {}
    BY <1>1, <1>4, <2>1, DenotedIs
  <2>. QED BY <1>1, <1>2, <1>3, <2>1, <2>2
<1>5. CASE Len(v) # 0
  <2>1. Set!Denoted' = In(v) \ (from .. to)
    BY <1>1, <1>5, DenotedIs
  <2>. QED BY <1>1, <1>2, <1>3, <2>1
<1>. QED BY <1>4, <1>5

-------------------------------------------------------------------------------
(* Blocks of the file.                                                         *)

LEMMA SizeFacts == N \in Nat \ {0}
BY BlocksAssumption DEF Blocks!BlockSizeAssumption, N

LEMMA QuotientFacts ==
  ASSUME NEW n \in Nat \ {0}, NEW a \in Nat
  PROVE  /\ a \div n \in Nat
         /\ (a \div n) * n <= a
         /\ a < (a \div n) * n + n
BY Z3

LEMMA ProductsCompare ==
  ASSUME NEW n \in Nat \ {0}, NEW a \in Int, NEW b \in Int, a * n < b * n + n
  PROVE  a <= b
<1> SUFFICES ASSUME b + 1 <= a PROVE FALSE
  OBVIOUS
<1>1. (b + 1) * n <= a * n
  BY Z3
<1>2. (b + 1) * n = b * n + n
  BY Z3
<1>3. a * n \in Int /\ b * n \in Int
  OBVIOUS
<1> DEFINE an == a * n
           bn == b * n
<1>4. an < bn + n /\ bn + n <= an /\ an \in Int /\ bn \in Int
  BY <1>1, <1>2, <1>3
<1> HIDE DEF an, bn
<1>. QED BY <1>4

LEMMA QuotientIs ==
  ASSUME NEW n \in Nat \ {0}, NEW a \in Nat, NEW b \in Nat
  PROVE  a \div n = b <=> b * n <= a /\ a < b * n + n
<1> PICK q \in Nat : q = a \div n /\ q * n <= a /\ a < q * n + n
  BY QuotientFacts
<1>1. ASSUME b * n <= a, a < b * n + n PROVE q = b
  <2>1. q * n \in Int /\ b * n \in Int
    OBVIOUS
  <2> DEFINE qn == q * n
             bn == b * n
  <2>2. /\ qn \in Int /\ bn \in Int
        /\ qn <= a /\ a < qn + n /\ bn <= a /\ a < bn + n
    BY <1>1, <2>1
  <2> HIDE DEF qn, bn
  <2>3. qn < bn + n /\ bn < qn + n
    BY <2>2
  <2>4. q <= b /\ b <= q
    BY <2>3, ProductsCompare DEF qn, bn
  <2>. QED BY <2>4
<1>. QED BY <1>1

\* The blocks that are looked at are those that begin in the file.
LEMMA BlockFacts ==
  ASSUME NEW b \in Nat, Len(data) \in Nat \ {0}
  PROVE  b \in Blocks!BlockIndices <=> b * N < Len(data)
<1> PICK n \in Nat \ {0} : n = N
  BY SizeFacts
<1> PICK f \in Nat \ {0} : f = Len(data)
  OBVIOUS
<1>1. f + n - 1 \in Nat
  OBVIOUS
<1>2. PICK q \in Nat : /\ q = (f + n - 1) \div n
                       /\ q * n <= f + n - 1 /\ f + n - 1 < q * n + n
  BY <1>1, QuotientFacts
<1>3. b \in Blocks!BlockIndices <=> b + 1 <= q
  <2>1. Blocks!NumBlocks = q
    BY <1>2 DEF Blocks!NumBlocks, Blocks!FileSize, N
  <2>. QED BY <2>1 DEF Blocks!BlockIndices
<1>4. /\ (b + 1) * n = b * n + n /\ b * n \in Nat /\ q * n \in Nat
  BY Z3
<1> PICK bn \in Nat : bn = b * n
  BY <1>4
<1> PICK qn \in Nat : qn = q * n
  BY <1>4
<1>5. ASSUME b + 1 <= q PROVE bn < f
  <2>1. (b + 1) * n <= q * n
    BY <1>5, Z3
  <2>. QED BY <1>2, <1>4, <2>1
<1>6. ASSUME bn < f PROVE b + 1 <= q
  <2>1. bn + n < qn + n
    BY <1>2, <1>6
  <2>2. (b + 1) * n < q * n + n
    BY <1>4, <2>1
  <2>. QED BY <2>2, ProductsCompare
<1>. QED BY <1>3, <1>5, <1>6

LEMMA HasDataIs ==
  ASSUME data \in Seq(Blocks!Byte), NEW b \in Nat
  PROVE  Blocks!HasData(b) <=>
           \E k \in 1 .. Len(data) : b * N < k /\ k <= b * N + N /\ data[k] # 0
<1> PICK n \in Nat \ {0} : n = N
  BY SizeFacts
<1> PICK bn \in Nat : bn = b * n
  BY Z3
<1>1. ASSUME NEW k \in 1 .. Len(data)
      PROVE  (k - 1) \div n = b <=> bn < k /\ k <= bn + n
  <2>1. k - 1 \in Nat
    OBVIOUS
  <2>2. (k - 1) \div n = b <=> bn <= k - 1 /\ k - 1 < bn + n
    BY <2>1, QuotientIs
  <2>. QED BY <2>2
<1>. QED BY <1>1 DEF Blocks!HasData, Blocks!FileSize, N

\* A read that has been made, or has failed, keeps the answers right: what is left
\* in the buffer of the blocks before is not looked at, and the part of a block that
\* an earlier read of it delivered had no data.
LEMMA ReadKeepsAnswers ==
  ASSUME DetectionInv, Blocks!Read
  PROVE  DetectionInv' /\ data' = data
<1> PICK n \in Nat \ {0} : n = N
  BY SizeFacts
<1> PICK f \in Nat \ {0} : f = Len(data)
  BY SetAssumption DEF DetectionInv, Set!BoundAssumption
<1> PICK bn \in Nat : bn = blockIndex * n
  BY Z3 DEF DetectionInv
<1>1. data' = data
  BY DEF Blocks!Read, Blocks!BytesRead, Blocks!ReadFails
<1>2. /\ Blocks!BlockIndices' = Blocks!BlockIndices
      /\ \A b : Blocks!HasData(b)' <=> Blocks!HasData(b)
  BY <1>1 DEF Blocks!BlockIndices, Blocks!NumBlocks, Blocks!FileSize, Blocks!HasData
<1>3. CASE Blocks!ReadFails
  <2>1. /\ answer' = "error" /\ nonZeroBlocks' = nonZeroBlocks /\ blockIndex' = blockIndex
    BY <1>3 DEF Blocks!ReadFails
  <2>2. AnsweredInv'
    BY <1>2, <2>1 DEF AnsweredInv, DetectionInv
  <2>3. ReadingInv'
    BY <2>1 DEF ReadingInv
  <2>. QED BY <1>1, <1>2, <2>1, <2>2, <2>3 DEF DetectionInv
<1>4. ASSUME NEW bytesRead \in 1 .. NonZeroBlockSize, Blocks!BytesRead(bytesRead)
      PROVE  DetectionInv'
  <2> DEFINE isNonZero == \E k \in Blocks!LookedAt(bytesRead) : buf'[k] # 0
  <2> PICK fo \in Nat, l \in 1 .. n : fo = fileOffset /\ l = len
    BY <1>4 DEF Blocks!BytesRead, DetectionInv, ReadingInv
  <2> PICK r \in 1 .. l : r = bytesRead
    BY <1>4 DEF Blocks!BytesRead
  <2>1. /\ answer = "none" /\ bn <= fo
        /\ fo + l <= bn + n /\ fo + l <= f /\ (fo + l = bn + n \/ fo + l = f)
        /\ \A k \in 1 .. f : bn < k /\ k <= fo => data[k] = 0
    BY <1>4 DEF Blocks!BytesRead, DetectionInv, ReadingInv, Blocks!Smaller
  <2>2. blockIndex \in Nat /\ blockIndex \in Blocks!BlockIndices
    <3>1. bn < f
      BY <2>1
    <3>. QED BY <3>1, BlockFacts DEF DetectionInv
  <2>3. isNonZero <=> \E k \in 0 .. r - 1 : data[fo + k + 1] # 0
    <3>1. \A k \in 0 .. r - 1 : k \in 0 .. NonZeroBlockSize - 1 /\ k < bytesRead
      BY DEF N
    <3>2. \A k \in 0 .. r - 1 : buf'[k] = data[fo + k + 1]
      BY <1>4, <3>1 DEF Blocks!BytesRead
    <3>. QED BY <3>2 DEF Blocks!LookedAt
  <2>4. Blocks!HasData(blockIndex) <=> \E k \in 1 .. f : bn < k /\ k <= bn + n /\ data[k] # 0
    BY <2>2, HasDataIs DEF DetectionInv
  <2>5. isNonZero => Blocks!HasData(blockIndex)
    <3>1. SUFFICES ASSUME NEW k \in 0 .. r - 1, data[fo + k + 1] # 0
                   PROVE  \E h \in 1 .. f : bn < h /\ h <= bn + n /\ data[h] # 0
      BY <2>3, <2>4
    <3>2. fo + k + 1 \in 1 .. f /\ bn < fo + k + 1 /\ fo + k + 1 <= bn + n
      BY <2>1
    <3>. QED BY <3>1, <3>2
  <2>6. ASSUME ~isNonZero, NEW k \in 1 .. f, bn < k, k <= fo + r PROVE data[k] = 0
    <3>1. CASE k <= fo
      BY <2>1, <2>6, <3>1
    <3>2. CASE k > fo
      <4>1. k - fo - 1 \in 0 .. r - 1 /\ fo + (k - fo - 1) + 1 = k
        BY <2>6, <3>2
      <4>. QED BY <2>3, <2>6, <4>1
    <3>. QED BY <3>1, <3>2
  <2> HIDE DEF isNonZero
  <2>7. CASE isNonZero \/ r = l
    <3>1. /\ nonZeroBlocks' = [nonZeroBlocks EXCEPT ![blockIndex] = isNonZero]
          /\ Blocks!ReadFileBlock(blockIndex + 1)
      BY <1>4, <2>7 DEF Blocks!BytesRead, Blocks!EndsBlock, isNonZero
    <3>2. isNonZero <=> Blocks!HasData(blockIndex)
      <4>1. ASSUME ~isNonZero, NEW k \in 1 .. f, bn < k, k <= bn + n PROVE data[k] = 0
        <5>1. k <= fo + r
          BY <2>1, <2>7, <4>1
        <5>. QED BY <2>6, <4>1, <5>1
      <4>. QED BY <2>4, <2>5, <4>1
    <3>3. isNonZero \in BOOLEAN
      BY DEF isNonZero
    <3>4. /\ nonZeroBlocks' \in [Blocks!BlockIndices -> BOOLEAN]
          /\ \A b \in Blocks!BlockIndices : b < blockIndex + 1 =>
               (nonZeroBlocks'[b] <=> Blocks!HasData(b))
      <4>1. nonZeroBlocks \in [Blocks!BlockIndices -> BOOLEAN] /\ AnsweredInv
        BY DEF DetectionInv
      <4>2. nonZeroBlocks' \in [Blocks!BlockIndices -> BOOLEAN]
        BY <3>1, <3>3, <4>1
      <4>3. nonZeroBlocks'[blockIndex] = isNonZero
        BY <2>2, <3>1, <4>1
      <4>4. ASSUME NEW b \in Blocks!BlockIndices, b < blockIndex + 1
            PROVE  nonZeroBlocks'[b] <=> Blocks!HasData(b)
        <5>1. CASE b = blockIndex
          BY <3>2, <4>3, <5>1
        <5>2. CASE b # blockIndex
          <6>1. b \in Int
            BY DEF Blocks!BlockIndices
          <6>2. b < blockIndex
            BY <2>2, <4>4, <5>2, <6>1
          <6>3. nonZeroBlocks'[b] = nonZeroBlocks[b]
            BY <3>1, <4>1, <5>2
          <6>. QED BY <4>1, <6>2, <6>3 DEF AnsweredInv
        <5>. QED BY <5>1, <5>2
      <4>. QED BY <4>2, <4>4
    <3>5. /\ blockIndex' = blockIndex + 1 /\ blockIndex' \in Nat
          /\ fileOffset' = bn + n
          /\ len' = Blocks!Smaller(n, f - (bn + n))
          /\ answer' = IF len' <= 0 THEN "blocks" ELSE "none"
      <4>1. (blockIndex + 1) * n = bn + n
        BY <2>2, Z3
      <4>. QED BY <2>1, <2>2, <3>1, <4>1
             DEF Blocks!ReadFileBlock, Blocks!BlockLength, Blocks!FileSize, N
    <3>6. blockIndex' * n = bn + n
      BY <2>2, <3>5, Z3
    <3>7. AnsweredInv'
      BY <1>2, <3>4, <3>5 DEF AnsweredInv
    <3>8. ReadingInv'
      <4>1. SUFFICES ASSUME len' > 0
                     PROVE  /\ fileOffset' \in Nat /\ len' \in 1 .. n
                            /\ bn + n <= fileOffset'
                            /\ fileOffset' + len' = Blocks!Smaller((bn + n) + n, f)
                            /\ \A k \in 1 .. f :
                                 bn + n < k /\ k <= fileOffset' => data[k] = 0
        <5>1. len' \in Int
          BY <3>5 DEF Blocks!Smaller
        <5>2. N' = n
          BY DEF N
        <5>. QED BY <1>1, <3>5, <3>6, <5>1, <5>2 DEF ReadingInv, Blocks!Smaller
      <4> PICK x : x = len'
        OBVIOUS
      <4>2. x > 0 /\ x = IF n < f - (bn + n) THEN n ELSE f - (bn + n)
        BY <3>5, <4>1 DEF Blocks!Smaller
      <4>3. /\ x \in 1 .. n
            /\ bn + n + x = IF (bn + n) + n < f THEN (bn + n) + n ELSE f
        BY <4>2
      <4>4. \A k \in 1 .. f : ~(bn + n < k /\ k <= bn + n)
        OBVIOUS
      <4>5. bn + n \in Nat /\ bn + n <= bn + n
        OBVIOUS
      <4>. QED BY <3>5, <4>1, <4>3, <4>4, <4>5 DEF Blocks!Smaller
    <3>9. answer' \in {"none", "blocks"} /\ (answer' = "blocks" => f <= bn + n)
      BY <3>5 DEF Blocks!Smaller
    <3>. QED BY <1>1, <1>2, <3>4, <3>5, <3>6, <3>7, <3>8, <3>9 DEF DetectionInv, N
  <2>8. CASE ~isNonZero /\ r # l
    <3>1. /\ len' = l - r /\ fileOffset' = fo + r
          /\ nonZeroBlocks' = nonZeroBlocks /\ blockIndex' = blockIndex /\ answer' = "none"
      BY <1>4, <2>1, <2>8 DEF Blocks!BytesRead, Blocks!EndsBlock, isNonZero
    <3>2. AnsweredInv'
      BY <1>2, <3>1 DEF AnsweredInv, DetectionInv
    <3>3. ReadingInv'
      <4>1. fo + r \in Nat /\ l - r \in 1 .. n /\ bn <= fo + r /\ (fo + r) + (l - r) = fo + l
        BY <2>1, <2>8
      <4>2. \A k \in 1 .. f : bn < k /\ k <= fo + r => data[k] = 0
        BY <2>6, <2>8
      <4>3. fo + l = Blocks!Smaller(bn + n, f)
        BY <2>1 DEF DetectionInv, ReadingInv
      <4>. QED BY <1>1, <3>1, <4>1, <4>2, <4>3 DEF ReadingInv, N, Blocks!Smaller
    <3>. QED BY <1>1, <1>2, <3>1, <3>2, <3>3 DEF DetectionInv
  <2>9. isNonZero \in BOOLEAN
    BY DEF isNonZero
  <2>. QED BY <2>7, <2>8
<1>. QED BY <1>1, <1>3, <1>4 DEF Blocks!Read

\* A block of the upload lies in one block of the detection, whose size is a multiple
\* of its own.
LEMMA LiesInOneBlock ==
  ASSUME NEW n \in Nat \ {0}, NEW s \in Nat \ {0}, n % s = 0, NEW index \in Nat,
         NEW p \in Nat, index * s <= p, p < index * s + s
  PROVE  p \div n = (index * s) \div n
<1>1. index * s \in Nat
  BY Z3
<1> PICK a \in Nat : a = index * s
  BY <1>1
<1> PICK b \in Nat : b = a \div n /\ b * n <= a /\ a < b * n + n
  BY QuotientFacts
<1>2. PICK q \in Nat : n = q * s
  <2>1. PICK q \in Nat : n = q * s + (n % s)
    <3>. WITNESS n \div s \in Nat
    <3>. QED BY Z3
  <2>2. PICK m \in Int : m = q * s
    BY Z3
  <2>. QED BY <2>1, <2>2
<1>3. b * n + n = (b * q + q - 1) * s + s
  BY <1>2, Z3
<1>4. b * q + q - 1 \in Int /\ b * n \in Nat
  BY <1>2, Z3
<1>5. index <= b * q + q - 1
  BY <1>3, <1>4, ProductsCompare
<1>6. index * s <= (b * q + q - 1) * s
  BY <1>4, <1>5, Z3
<1>7. (b * q + q - 1) * s \in Int
  BY <1>4, Z3
<1>8. a + s <= b * n + n
  <2> PICK m \in Int : m = (b * q + q - 1) * s
    BY <1>7
  <2>. QED BY <1>3, <1>6
<1>9. b * n <= p /\ p < b * n + n
  <2> PICK bn \in Nat : bn = b * n
    BY <1>4
  <2>. QED BY <1>8
<1>. QED BY <1>9, QuotientIs

LEMMA SameDetection ==
  ASSUME DetectionInv, UNCHANGED <<dynVHD, detection>>
  PROVE  /\ DetectionInv' /\ Size' = Size
         /\ \A b : Blocks!HasData(b)' <=> Blocks!HasData(b)
<1>1. UNCHANGED <<dynVHD, data, buf, nonZeroBlocks, blockIndex, fileOffset, len, answer>>
  BY DEF detection
<1>2. /\ Blocks!BlockIndices' = Blocks!BlockIndices
      /\ \A b : Blocks!HasData(b)' <=> Blocks!HasData(b)
      /\ Size' = Size
  BY <1>1 DEF Blocks!BlockIndices, Blocks!NumBlocks, Blocks!FileSize, Blocks!HasData, Size
<1>3. AnsweredInv' <=> AnsweredInv
  BY <1>1, <1>2 DEF AnsweredInv
<1>4. ReadingInv' <=> ReadingInv
  BY <1>1 DEF ReadingInv
<1>. QED BY <1>1, <1>2, <1>3, <1>4 DEF DetectionInv

LEMMA SizeIs ==
  ASSUME DetectionInv, dynVHD \in BOOLEAN
  PROVE  /\ Size \in 1 .. Bound + 1
         /\ ~dynVHD => Size = Len(data)
BY IntervalFacts DEF Size, Blocks!FileSize, DetectionInv

\* The answer that uploadAtIndex() looks up is that of the block it reads.
LEMMA AnswerIs ==
  ASSUME DetectionInv, answer = "blocks", NEW p \in Nat, p < Len(data)
  PROVE  nonZeroBlocks[p \div N] <=> Blocks!HasData(p \div N)
<1> PICK n \in Nat \ {0} : n = N
  BY SizeFacts
<1> PICK f \in Nat \ {0} : f = Len(data)
  BY IntervalFacts DEF DetectionInv
<1> PICK b \in Nat : b = p \div n /\ b * n <= p /\ p < b * n + n
  BY QuotientFacts
<1>1. b * n \in Nat /\ blockIndex * n \in Nat /\ blockIndex \in Nat
  BY Z3 DEF DetectionInv
<1>2. b * n < f /\ f <= blockIndex * n
  BY <1>1 DEF DetectionInv
<1>3. b \in Blocks!BlockIndices
  BY <1>2, BlockFacts
<1>4. b < blockIndex
  <2>1. (b + 1) * n = b * n + n
    BY Z3
  <2>2. (b + 1) * n < blockIndex * n + n
    <3> PICK bn \in Nat, cn \in Nat : bn = b * n /\ cn = blockIndex * n
      BY <1>1
    <3>. QED BY <1>2, <2>1
  <2>3. b + 1 <= blockIndex
    BY <1>1, <2>2, ProductsCompare
  <2>. QED BY <1>1, <2>3
<1>. QED BY <1>3, <1>4 DEF DetectionInv, AnsweredInv

-------------------------------------------------------------------------------
(* The steps.                                                                  *)

LEMMA InitIInv == Init => IInv
<1> SUFFICES ASSUME Init PROVE IInv
  OBVIOUS
<1>1. SetInv
  <2>1. v \in Ranges /\ v \in Seq(Set!Intervals) /\ Ordered(v)
    BY SetAssumption DEF Init, Set!Init, Set!RangesAssumption, Ordered
  <2>2. start = 0 /\ end = 0 /\ i = 0
    BY DEF Init, Set!Init
  <2>. QED BY <2>1, <2>2, IntervalFacts DEF SetInv
<1>2. DetectionInv
  <2>1. PICK size \in 1 .. MaxFileSize : data \in [1 .. size -> Blocks!Byte]
    BY DEF Init, Blocks!Init
  <2>2. /\ data \in Seq(Blocks!Byte) /\ Len(data) = size /\ size \in 1 .. Bound + 1
    BY <2>1, BlocksAssumption, IntervalFacts DEF Blocks!MaxSizeAssumption
  <2>3. /\ nonZeroBlocks = [b \in Blocks!BlockIndices |-> FALSE]
        /\ blockIndex = 0 /\ fileOffset = 0 /\ answer = "none"
        /\ len = Blocks!Smaller(N, size - 0)
    BY <2>2 DEF Init, Blocks!Init, Blocks!BlockLength, Blocks!FileSize, N
  <2>4. AnsweredInv
    BY <2>3 DEF AnsweredInv, Blocks!BlockIndices
  <2>5. ReadingInv
    <3>1. 0 * N = 0
      BY SizeFacts
    <3>. QED BY <2>2, <2>3, <3>1, SizeFacts DEF ReadingInv, Blocks!Smaller
  <2>. QED BY <2>2, <2>3, <2>4, <2>5 DEF DetectionInv
<1>3. DecisionInv
  <2>1. /\ dynVHD \in BOOLEAN /\ blockSize \in UploadBlockSizes /\ phase = "listing" /\ i = 0
        /\ uploadedRegions = <<>> /\ todo = <<>>
    BY DEF Init, Set!Init
  <2>2. uploadedRegions \in Seq(Set!Intervals) /\ todo \in Seq(Set!Intervals)
    BY <2>1
  <2>. QED BY <2>1, <2>2 DEF DecisionInv, Ordered, SkippedRightly
<1>. QED BY <1>1, <1>2, <1>3 DEF IInv

\* What the decision is made from is not touched.
LEMMA SameDecision ==
  ASSUME DetectionInv, DecisionInv,
         UNCHANGED <<dynVHD, blockSize, detection, decision>>,
         (Set!Denoted' = Set!Denoted /\ i # 0) \/ (phase = "listing" /\ dynVHD)
  PROVE  DecisionInv'
<1>1. /\ UNCHANGED <<dynVHD, blockSize, answer, data>>
      /\ UNCHANGED <<uploadedRegions, first, last, todo, phase>>
  BY DEF detection, decision
<1>2. Size' = Size /\ \A b : Blocks!HasData(b)' <=> Blocks!HasData(b)
  BY SameDetection
<1>3. Uploaded' = Uploaded
  BY <1>1 DEF Uploaded
<1>4. SkippedRightly' <=> SkippedRightly
  BY <1>1, <1>2, <1>3 DEF SkippedRightly
<1>5. RegionInv' <=> RegionInv
  BY <1>1, <1>2 DEF RegionInv, N
<1>6. phase \notin {"listing", "subtracting"} \/ (phase = "listing" /\ ~dynVHD) => i' = 0
  BY DEF DecisionInv
<1>7. phase = "subtracting" => Set!Denoted' = Set!Denoted
  OBVIOUS
<1>8. phase = "subtracting" =>
        /\ Set!Denoted' \ In(todo) = (first .. last) \ Uploaded
        /\ dynVHD \/ Blocks!HasData(first \div N)
  BY <1>7 DEF DecisionInv
<1>9. (Blocks!HasData(first \div N))' <=> Blocks!HasData(first \div N)
  BY <1>1, <1>2 DEF N
<1>. QED
  BY <1>1, <1>3, <1>4, <1>5, <1>6, <1>8, <1>9 DEF DecisionInv

LEMMA ListStays ==
  ASSUME IInv, NEW from \in 0 .. Bound, NEW to \in 0 .. Bound, RegionCleared(from, to)
  PROVE  IInv'
<1>1. /\ phase = "listing" /\ dynVHD /\ from <= to /\ Set!Subtract(from, to)
      /\ UNCHANGED <<dynVHD, blockSize, detection, decision>>
  BY DEF RegionCleared
<1>2. SetInv' /\ DetectionInv'
  BY <1>1, SubtractFacts, SameDetection DEF IInv
<1>3. DecisionInv'
  BY <1>1, SameDecision DEF IInv
<1>. QED BY <1>2, <1>3 DEF IInv

LEMMA TurnStays == ASSUME IInv, Turn PROVE IInv'
<1>1. i > 0 /\ Set!Turn /\ UNCHANGED <<dynVHD, blockSize, detection, decision>>
  BY DEF Turn, Set!Turn
<1>2. SetInv' /\ Set!Denoted' = Set!Denoted /\ DetectionInv'
  BY <1>1, TurnFacts, SameDetection DEF IInv
<1>3. DecisionInv'
  <2>1. i # 0
    BY <1>1 DEF IInv, SetInv
  <2>. QED BY <1>1, <1>2, <2>1, SameDecision DEF IInv
<1>. QED BY <1>2, <1>3 DEF IInv

LEMMA DetectStays == ASSUME IInv, Detect PROVE IInv'
<1>1. /\ phase = "listing" /\ ~dynVHD /\ Blocks!Read
      /\ UNCHANGED <<dynVHD, blockSize, v, start, end, i>>
      /\ UNCHANGED <<uploadedRegions, first, last, todo, phase>>
  BY DEF Detect, set, decision
<1>2. DetectionInv'
  BY <1>1, ReadKeepsAnswers DEF IInv
<1>3. SetInv'
  BY <1>1 DEF IInv, SetInv
<1>4. DecisionInv'
  BY <1>1 DEF IInv, DecisionInv, SkippedRightly
<1>. QED BY <1>2, <1>3, <1>4 DEF IInv

LEMMA StartStays == ASSUME IInv, StartThreads PROVE IInv'
<1>1. /\ phase = "listing" /\ (IF dynVHD THEN i = 0 ELSE answer = "blocks")
      /\ phase' = "choosing" /\ uploadedRegions' = v /\ v' = <<>> /\ start' = 0 /\ end' = 0
      /\ UNCHANGED <<dynVHD, blockSize, detection, i, first, last, todo>>
  BY DEF StartThreads
<1>2. DetectionInv' /\ answer' = answer
  BY <1>1, SameDetection DEF IInv, detection
<1>3. i = 0
  BY <1>1 DEF IInv, DecisionInv
<1>4. SetInv'
  <2>1. v' \in Seq(Set!Intervals) /\ Len(v') = 0 /\ Ordered(v')
    BY <1>1 DEF Ordered
  <2>. QED BY <1>1, <1>3, <2>1, IntervalFacts DEF SetInv
<1>5. DecisionInv'
  <2>1. v \in Seq(Set!Intervals) /\ Ordered(v)
    BY DEF IInv, SetInv
  <2>. QED BY <1>1, <1>2, <1>3, <2>1 DEF IInv, DecisionInv, SkippedRightly
<1>. QED BY <1>2, <1>4, <1>5 DEF IInv

LEMMA RegionFacts ==
  ASSUME IInv, NEW index \in 0 .. Bound, UploadAtIndex(index)
  PROVE  /\ RegionInv' /\ first' \in 0 .. Bound /\ last' \in 0 .. Bound
         /\ first' \div N = (index * blockSize) \div N
<1>1. /\ index * blockSize < Size /\ first' = index * blockSize
      /\ last' = Blocks!Smaller(first' + blockSize, Size) - 1
      /\ UNCHANGED <<dynVHD, detection>>
  BY DEF UploadAtIndex
<1>2. Size' = Size /\ Size \in 1 .. Bound + 1
  BY <1>1, SameDetection, SizeIs DEF IInv, DecisionInv
<1> PICK size \in 1 .. Bound + 1 : size = Size
  BY <1>2
<1> PICK n \in Nat \ {0} : n = N
  BY SizeFacts
<1> PICK s \in Nat \ {0} : s = blockSize /\ n % s = 0
  BY UploadBlockSizesAssumption DEF IInv, DecisionInv, N
<1>3. index * s \in Nat
  BY Z3
<1> PICK a \in Nat : a = index * s
  BY <1>3
<1>4. /\ first' = a /\ a < size
      /\ last' = (IF a + s < size THEN a + s ELSE size) - 1
  BY <1>1 DEF Blocks!Smaller
<1>5. /\ first' \in 0 .. Bound /\ last' \in 0 .. Bound /\ last' < size /\ first' <= last'
      /\ \A p \in first' .. last' : p \in Nat /\ a <= p /\ p < a + s
  BY <1>4, IntervalFacts
<1>6. \A p \in first' .. last' : p \div n = first' \div n
  <2> SUFFICES ASSUME NEW p \in first' .. last' PROVE p \div n = first' \div n
    OBVIOUS
  <2>1. p \in Nat /\ a <= p /\ p < a + s
    BY <1>5
  <2>2. index \in Nat
    OBVIOUS
  <2>3. index * s <= p /\ p < index * s + s
    BY <2>1
  <2>4. p \div n = (index * s) \div n
    <3>1. n \in Nat \ {0} /\ s \in Nat \ {0} /\ n % s = 0
      OBVIOUS
    <3>. QED BY <2>1, <2>2, <2>3, <3>1, LiesInOneBlock, Zenon
  <2>. QED BY <1>4, <2>4
<1>7. RegionInv'
  <2>1. /\ first' \in Nat /\ last' \in Nat /\ last' < Size' /\ first' <= last'
        /\ \A p \in first' .. last' : p \div N = first' \div N
    BY <1>2, <1>5, <1>6
  <2>. QED BY <2>1 DEF RegionInv, N
<1>. QED BY <1>1, <1>5, <1>7

LEMMA UploadStays ==
  ASSUME IInv, NEW index \in 0 .. Bound, UploadAtIndex(index)
  PROVE  IInv'
<1> PICK b : b = (index * blockSize) \div N
  OBVIOUS
<1>1. /\ phase = "choosing"
      /\ UNCHANGED <<dynVHD, blockSize, detection, start, end, i, uploadedRegions>>
      /\ UNCHANGED answer /\ UNCHANGED data
  BY DEF UploadAtIndex, detection
<1>2. /\ i = 0 /\ dynVHD \in BOOLEAN /\ (~dynVHD => answer = "blocks")
      /\ v \in Seq(Set!Intervals) /\ Ordered(v)
      /\ uploadedRegions \in Seq(Set!Intervals) /\ Ordered(uploadedRegions)
  BY <1>1 DEF IInv, DecisionInv, SetInv
<1>3. /\ DetectionInv' /\ Size' = Size
      /\ \A c : Blocks!HasData(c)' <=> Blocks!HasData(c)
  BY <1>1, SameDetection DEF IInv
<1>4. /\ RegionInv' /\ first' \in 0 .. Bound /\ last' \in 0 .. Bound /\ first' \div N = b
      /\ first' <= last'
  BY RegionFacts DEF RegionInv
<1>5. ~dynVHD => /\ last' < Len(data)
                 /\ nonZeroBlocks[b] <=> Blocks!HasData(b)
                 /\ \A p \in first' .. last' : p \div N = b
  <2> SUFFICES ASSUME ~dynVHD PROVE /\ last' < Len(data)
                                    /\ nonZeroBlocks[b] <=> Blocks!HasData(b)
                                    /\ \A p \in first' .. last' : p \div N = b
    OBVIOUS
  <2>1. Size = Len(data)
    BY <1>2, SizeIs DEF IInv
  <2>2. last' < Len(data) /\ \A p \in first' .. last' : p \div N = b
    BY <1>3, <1>4, <2>1 DEF RegionInv, N
  <2>3. first' \in Nat /\ first' < Len(data)
    <3>1. Len(data) \in Nat
      BY IntervalFacts DEF IInv, DetectionInv
    <3>. QED BY <1>4, <2>2, <3>1, IntervalFacts
  <2>4. nonZeroBlocks[b] <=> Blocks!HasData(b)
    <3>1. \A p \in Nat : p < Len(data) => (nonZeroBlocks[p \div N] <=> Blocks!HasData(p \div N))
      BY <1>2, AnswerIs DEF IInv
    <3>. QED BY <1>4, <2>3, <3>1
  <2>. QED BY <2>2, <2>4
<1>6. (Blocks!HasData(first \div N))' <=> Blocks!HasData(b)
  <2>1. (Blocks!HasData(first \div N))' <=> (Blocks!HasData(b))'
    BY <1>4 DEF N, Blocks!HasData, Blocks!FileSize
  <2>. QED BY <1>3, <2>1
<1>7. CASE IsEmptyBlock(index)
  <2>1. phase' = "skipped" /\ UNCHANGED <<v, todo>> /\ ~dynVHD /\ ~nonZeroBlocks[b]
    BY <1>7 DEF UploadAtIndex, IsEmptyBlock, N
  <2>2. SetInv'
    BY <1>1, <2>1 DEF IInv, SetInv
  <2>3. \A p \in first' .. last' : data[p + 1] = 0
    <3> SUFFICES ASSUME NEW p \in first' .. last' PROVE data[p + 1] = 0
      OBVIOUS
    <3>1. ~Blocks!HasData(b) /\ p \div N = b
      BY <1>5, <2>1
    <3>2. p + 1 \in 1 .. Len(data) /\ (p + 1) - 1 = p
      <4>1. Len(data) \in Nat
        BY IntervalFacts DEF IInv, DetectionInv
      <4>. QED BY <1>4, <1>5, <2>1, <4>1, IntervalFacts
    <3>. QED BY <3>1, <3>2 DEF Blocks!HasData, Blocks!FileSize, N
  <2>4. SkippedRightly'
    BY <1>1, <2>1, <2>3 DEF SkippedRightly
  <2>5. DecisionInv'
    BY <1>1, <1>2, <1>4, <2>1, <2>4 DEF IInv, DecisionInv
  <2>. QED BY <1>3, <2>2, <2>5 DEF IInv
<1>8. CASE ~IsEmptyBlock(index)
  <2>1. /\ phase' = "subtracting" /\ v' = <<[start |-> first', end |-> last']>>
        /\ todo' = uploadedRegions
        /\ dynVHD \/ nonZeroBlocks[b]
    BY <1>8 DEF UploadAtIndex, IsEmptyBlock, N
  <2>2. /\ v' \in Seq(Set!Intervals) /\ Len(v') = 1
        /\ v'[1].start = first' /\ v'[1].end = last' /\ Ordered(v')
    <3>1. [start |-> first', end |-> last'] \in Set!Intervals
      BY <1>4, IntervalFacts
    <3>2. v' \in Seq(Set!Intervals) /\ Len(v') = 1 /\ v'[1] = [start |-> first', end |-> last']
      BY <2>1, <3>1
    <3>. QED BY <1>4, <3>2 DEF Ordered
  <2>3. SetInv'
    BY <1>1, <1>2, <2>2 DEF IInv, SetInv
  <2>4. Set!Denoted' = first' .. last'
    <3>1. Set!Denoted' = In(v')
      BY <1>1, <1>2, DenotedIs
    <3>2. In(v') = first' .. last'
      BY <2>2 DEF In
    <3>. QED BY <3>1, <3>2
  <2>5. In(todo)' = Uploaded'
    <3>1. Uploaded' = In(uploadedRegions)
      BY <1>1 DEF In, Uploaded
    <3>2. In(todo)' = In(uploadedRegions)
      BY <2>1 DEF In
    <3>. QED BY <3>1, <3>2
  <2>6. Set!Denoted' \ In(todo)' = (first' .. last') \ Uploaded'
    BY <2>4, <2>5
  <2>7. dynVHD' \/ (Blocks!HasData(first \div N))'
    BY <1>1, <1>5, <1>6, <2>1
  <2>8. todo' \in Seq(Set!Intervals) /\ \A k \in DOMAIN todo' : todo'[k].start <= todo'[k].end
    <3>1. \A k \in DOMAIN uploadedRegions : uploadedRegions[k].start <= uploadedRegions[k].end
      BY <1>2 DEF Ordered
    <3>. QED BY <1>2, <2>1, <3>1
  <2>9. DecisionInv'
    BY <1>1, <1>2, <1>4, <2>1, <2>6, <2>7, <2>8 DEF IInv, DecisionInv, SkippedRightly
  <2>. QED BY <1>3, <2>3, <2>9 DEF IInv
<1>. QED BY <1>7, <1>8

LEMMA NextRangeStays == ASSUME IInv, NextRange PROVE IInv'
<1> PICK from, to : from = Head(todo).start /\ to = Head(todo).end
  OBVIOUS
<1>1. /\ phase = "subtracting" /\ todo # <<>> /\ Set!Subtract(from, to) /\ todo' = Tail(todo)
      /\ UNCHANGED <<dynVHD, blockSize, detection, uploadedRegions, first, last, phase>>
      /\ UNCHANGED answer /\ UNCHANGED data
  BY DEF NextRange, detection
<1>2. /\ todo \in Seq(Set!Intervals) /\ \A k \in DOMAIN todo : todo[k].start <= todo[k].end
  BY DEF IInv, DecisionInv
<1> PICK n \in Nat : n = Len(todo)
  BY <1>2
<1>3. /\ n > 0 /\ Head(todo) = todo[1] /\ Tail(todo) \in Seq(Set!Intervals)
      /\ Len(Tail(todo)) = n - 1 /\ \A k \in 1 .. n - 1 : Tail(todo)[k] = todo[k + 1]
  BY <1>1, <1>2, HeadTailProperties
<1>4. from \in 0 .. Bound /\ to \in 0 .. Bound /\ from <= to
  <2>1. todo[1] \in Set!Intervals /\ todo[1].start <= todo[1].end
    BY <1>2, <1>3
  <2>. QED BY <1>3, <2>1, IntervalFacts
<1>5. SetInv' /\ Set!Denoted' = Set!Denoted \ (from .. to)
  BY <1>1, <1>4, SubtractFacts DEF IInv
<1>6. /\ DetectionInv' /\ Size' = Size
      /\ \A c : Blocks!HasData(c)' <=> Blocks!HasData(c)
  BY <1>1, SameDetection DEF IInv
<1>7. In(todo) = (from .. to) \cup In(todo')
  <2>1. ASSUME NEW x \in Int
        PROVE  (\E k \in 1 .. n : todo[k].start <= x /\ x <= todo[k].end)
                 <=> \/ from <= x /\ x <= to
                     \/ \E k \in 1 .. n - 1 : todo'[k].start <= x /\ x <= todo'[k].end
    <3>1. ASSUME NEW k \in 1 .. n, todo[k].start <= x, x <= todo[k].end
          PROVE  \/ from <= x /\ x <= to
                 \/ \E h \in 1 .. n - 1 : todo'[h].start <= x /\ x <= todo'[h].end
      <4>1. CASE k = 1
        BY <1>3, <3>1, <4>1
      <4>2. CASE k > 1
        <5>1. k - 1 \in 1 .. n - 1 /\ (k - 1) + 1 = k
          BY <4>2
        <5>2. todo'[k - 1] = todo[k]
          BY <1>1, <1>3, <5>1
        <5>. QED BY <3>1, <5>1, <5>2
      <4>. QED BY <4>1, <4>2
    <3>2. ASSUME NEW h \in 1 .. n - 1, todo'[h].start <= x, x <= todo'[h].end
          PROVE  \E k \in 1 .. n : todo[k].start <= x /\ x <= todo[k].end
      <4>1. h + 1 \in 1 .. n /\ todo'[h] = todo[h + 1]
        BY <1>1, <1>3
      <4>. QED BY <3>2, <4>1
    <3>3. ASSUME from <= x, x <= to
          PROVE  \E k \in 1 .. n : todo[k].start <= x /\ x <= todo[k].end
      <4>1. 1 \in 1 .. n
        BY <1>3
      <4>. QED BY <1>3, <3>3, <4>1
    <3>. QED BY <3>1, <3>2, <3>3
  <2>2. ASSUME NEW x PROVE x \in In(todo) <=> x \in (from .. to) \cup In(todo')
    <3>1. x \in In(todo) <=>
            x \in Int /\ \E k \in 1 .. n : todo[k].start <= x /\ x <= todo[k].end
      BY <1>2, InRanges
    <3>2. x \in In(todo') <=>
            x \in Int /\ \E k \in 1 .. n - 1 : todo'[k].start <= x /\ x <= todo'[k].end
      <4> PICK t : t = todo'
        OBVIOUS
      <4>1. t \in Seq(Set!Intervals) /\ DOMAIN t = 1 .. n - 1
        BY <1>1, <1>3
      <4>2. x \in In(t) <=>
              x \in Int /\ \E k \in 1 .. n - 1 : t[k].start <= x /\ x <= t[k].end
        BY <4>1, InRanges
      <4>. QED BY <4>2
    <3>3. x \in from .. to <=> x \in Int /\ from <= x /\ x <= to
      BY <1>4
    <3>. QED BY <2>1, <3>1, <3>2, <3>3
  <2>. QED BY <2>2
<1>8. /\ Set!Denoted \ In(todo) = (first .. last) \ Uploaded
      /\ dynVHD \/ Blocks!HasData(first \div N)
  BY <1>1 DEF IInv, DecisionInv
<1>9. Uploaded' = Uploaded
  BY <1>1 DEF Uploaded
<1>10. Set!Denoted' \ In(todo)' = (first' .. last') \ Uploaded'
  <2>1. In(todo)' = In(todo')
    BY DEF In
  <2>2. Set!Denoted' \ In(todo') = Set!Denoted \ In(todo)
    BY <1>5, <1>7
  <2>. QED BY <1>1, <1>8, <1>9, <2>1, <2>2
<1>11. RegionInv' <=> RegionInv
  BY <1>1, <1>6 DEF RegionInv, N
<1>12. (Blocks!HasData(first \div N))' <=> Blocks!HasData(first \div N)
  BY <1>1, <1>6 DEF N, Blocks!HasData, Blocks!FileSize
<1>13. \A k \in DOMAIN todo' : todo'[k].start <= todo'[k].end
  <2>1. \A k \in 1 .. n - 1 : k + 1 \in 1 .. n /\ todo'[k] = todo[k + 1]
    BY <1>1, <1>3
  <2>2. DOMAIN todo' = 1 .. n - 1
    BY <1>1, <1>3
  <2>. QED BY <1>2, <2>1, <2>2
<1>14. DecisionInv'
  BY <1>1, <1>3, <1>8, <1>10, <1>11, <1>12, <1>13 DEF IInv, DecisionInv, SkippedRightly
<1>. QED BY <1>5, <1>6, <1>14 DEF IInv

LEMMA DecideStays == ASSUME IInv, Decide PROVE IInv'
<1>1. /\ phase = "subtracting" /\ todo = <<>> /\ i = 0
      /\ phase' = (IF v = <<>> THEN "skipped" ELSE "sent")
      /\ UNCHANGED <<dynVHD, blockSize, detection>>
      /\ UNCHANGED <<v, start, end, i, uploadedRegions, first, last, todo>>
      /\ UNCHANGED answer /\ UNCHANGED data
  BY DEF Decide, IsAlreadyUploaded, detection, set
<1>2. SetInv'
  BY <1>1 DEF IInv, SetInv
<1>3. /\ DetectionInv' /\ Size' = Size
      /\ \A c : Blocks!HasData(c)' <=> Blocks!HasData(c)
  BY <1>1, SameDetection DEF IInv
<1>4. In(v) = (first .. last) \ Uploaded
  <2>1. Set!Denoted = In(v)
    BY <1>1, DenotedIs
  <2>2. In(todo) = {}
    BY <1>1, NothingIn
  <2>. QED BY <1>1, <2>1, <2>2 DEF IInv, DecisionInv
<1>5. v = <<>> <=> first .. last \subseteq Uploaded
  <2>1. v = <<>> => In(v) = {}
    BY NothingIn
  <2>2. v # <<>> => In(v) # {}
    <3> SUFFICES ASSUME v # <<>> PROVE In(v) # {}
      OBVIOUS
    <3>1. 1 \in DOMAIN v /\ v[1] \in Set!Intervals /\ v[1].start <= v[1].end
      BY DEF IInv, SetInv, Ordered
    <3>2. v[1].start \in In(v)
      BY <3>1, IntervalFacts DEF In
    <3>. QED BY <3>2
  <2>. QED BY <1>4, <2>1, <2>2
<1>6. Uploaded' = Uploaded
  BY <1>1 DEF Uploaded
<1>7. RegionInv'
  BY <1>1, <1>3 DEF IInv, DecisionInv, RegionInv, N
<1>8. (Blocks!HasData(first \div N))' <=> Blocks!HasData(first \div N)
  BY <1>1, <1>3 DEF N, Blocks!HasData, Blocks!FileSize
<1>9. dynVHD \/ Blocks!HasData(first \div N)
  BY <1>1 DEF IInv, DecisionInv
<1>10. SkippedRightly'
  <2>1. /\ phase' = "skipped" => (first .. last \subseteq Uploaded)
        /\ phase' = "sent" => ~(first .. last \subseteq Uploaded)
    BY <1>1, <1>5
  <2>2. dynVHD' \/ (Blocks!HasData(first \div NonZeroBlockSize))'
    BY <1>1, <1>8, <1>9 DEF N
  <2>. QED BY <1>1, <1>6, <2>1, <2>2 DEF SkippedRightly
<1>11. DecisionInv'
  BY <1>1, <1>7, <1>10 DEF IInv, DecisionInv
<1>. QED BY <1>2, <1>3, <1>11 DEF IInv

LEMMA NothingStays == ASSUME IInv, UNCHANGED vars PROVE IInv'
<1>1. /\ UNCHANGED <<dynVHD, blockSize, detection>>
      /\ UNCHANGED <<v, start, end, i, uploadedRegions, first, last, todo, phase>>
      /\ UNCHANGED <<data, answer>>
  BY DEF vars, set, decision, detection
<1>2. DetectionInv' /\ Size' = Size /\ \A c : Blocks!HasData(c)' <=> Blocks!HasData(c)
  BY <1>1, SameDetection DEF IInv
<1>3. SetInv'
  BY <1>1 DEF IInv, SetInv
<1>4. Set!Denoted' = Set!Denoted /\ Uploaded' = Uploaded
  BY <1>1 DEF Set!Denoted, Set!Members, Uploaded
<1>5. In(todo)' = In(todo)
  BY <1>1 DEF In
<1>6. RegionInv' <=> RegionInv
  BY <1>1, <1>2 DEF RegionInv, N
<1>7. (Blocks!HasData(first \div N))' <=> Blocks!HasData(first \div N)
  BY <1>1, <1>2 DEF N, Blocks!HasData, Blocks!FileSize
<1>8. SkippedRightly' <=> SkippedRightly
  BY <1>1, <1>4, <1>7 DEF SkippedRightly, N
<1>9. DecisionInv'
  BY <1>1, <1>4, <1>5, <1>6, <1>7, <1>8 DEF IInv, DecisionInv
<1>. QED BY <1>2, <1>3, <1>9 DEF IInv

LEMMA NextIInv == IInv /\ [Next]_vars => IInv'
<1> SUFFICES ASSUME IInv, [Next]_vars PROVE IInv'
  OBVIOUS
<1>1. ASSUME NEW from \in 0 .. Bound, NEW to \in 0 .. Bound, RegionCleared(from, to)
      PROVE  IInv'
  BY <1>1, ListStays
<1>2. CASE Turn
  BY <1>2, TurnStays
<1>3. CASE Detect
  BY <1>3, DetectStays
<1>4. CASE StartThreads
  BY <1>4, StartStays
<1>5. ASSUME NEW index \in 0 .. Bound, UploadAtIndex(index) PROVE IInv'
  BY <1>5, UploadStays
<1>6. CASE NextRange
  BY <1>6, NextRangeStays
<1>7. CASE Decide
  BY <1>7, DecideStays
<1>8. CASE UNCHANGED vars
  BY <1>8, NothingStays
<1>. QED BY <1>1, <1>2, <1>3, <1>4, <1>5, <1>6, <1>7, <1>8 DEF Next, Terminated

-------------------------------------------------------------------------------
\* The sets, the detection and the decisions keep what the proofs below rest on,
\* whatever the regions of the blob, the file, the pieces it is read in and the sizes
\* of the two kinds of blocks.
THEOREM Invariance == Spec => []IInv
<1>. QED BY InitIInv, NextIInv, PTL DEF Spec

\* subtractInterval() leaves an array that createIntSet() accepts, and so does every
\* turn of its loop: each interval is one, and they are in order and apart, although the
\* loop removes, replaces and splits them in the array it goes through.
THEOREM ArrayStaysInOrder == Spec => []WellFormed
<1>1. IInv => WellFormed
  BY DEF IInv, SetInv, Ordered, WellFormed, Set!WellFormed
<1>. QED BY <1>1, Invariance, PTL

\* uploadAtIndex() skips a block only if the blob has all of it or the file has no data
\* in it, and sends one only if the blob lacks a part of it and, for a fixed VHD, the
\* larger block it lies in has data.
THEOREM OnlyNeedlessBlocksAreSkipped == Spec => []SkippedRightly
<1>1. IInv => SkippedRightly
  BY DEF IInv, DecisionInv
<1>. QED BY <1>1, Invariance, PTL

LEMMA DenotedInBound == ASSUME SetInv PROVE Set!Denoted \subseteq 0 .. Bound
<1>1. In(v) \subseteq 0 .. Bound
  <2> SUFFICES ASSUME NEW x \in In(v) PROVE x \in 0 .. Bound
    OBVIOUS
  <2>1. PICK k \in DOMAIN v : x \in Int /\ v[k].start <= x /\ x <= v[k].end
    BY InRanges DEF SetInv
  <2>2. v[k] \in Set!Intervals
    BY DEF SetInv
  <2>. QED BY <2>1, <2>2, IntervalFacts
<1>. QED BY <1>1, DenotedIs

\* A call of subtractInterval() is a step of the abstract set.
LEMMA SubtractIsAbstract ==
  ASSUME SetInv, NEW from \in 0 .. Bound, NEW to \in 0 .. Bound, from <= to,
         Set!Subtract(from, to)
  PROVE  Abstract!Next
BY SubtractFacts DEF Abstract!Next, Abstract!Subtract

\* The array that subtractInterval() works on denotes a set of integers, and a call takes
\* the interval it is given from that set, and nothing else, at once: what the turns of
\* the loop have still to do is not seen in the set.
THEOREM ArrayImplementsSet == Spec => ImplementsIntegerSet
<1>1. Init => Abstract!Init
  <2> SUFFICES ASSUME Init PROVE Abstract!Init
    OBVIOUS
  <2>1. Set!Denoted \subseteq 0 .. Bound
    BY InitIInv, DenotedInBound DEF IInv
  <2>. QED BY <2>1 DEF Init, Set!Init, Abstract!Init
<1>2. IInv /\ [Next]_vars => [phase' = phase => Abstract!Next]_<<Abstract!vars, phase>>
  <2> SUFFICES ASSUME IInv, [Next]_vars, phase' = phase, ~Abstract!Next
               PROVE  /\ Set!Denoted' = Set!Denoted /\ start' = start /\ end' = end
    BY DEF Abstract!vars
  <2>1. ASSUME NEW from \in 0 .. Bound, NEW to \in 0 .. Bound, RegionCleared(from, to)
        PROVE  FALSE
    BY <2>1, SubtractIsAbstract DEF RegionCleared, IInv
  <2>2. CASE Turn
    BY <2>2, TurnFacts DEF Turn, Set!Turn, IInv
  <2>3. CASE Detect \/ UNCHANGED vars
    <3>1. v' = v /\ start' = start /\ end' = end /\ i' = i
      BY <2>3 DEF Detect, vars, set
    <3>. QED BY <3>1 DEF Set!Denoted, Set!Members
  <2>4. CASE StartThreads \/ Decide \/ \E index \in 0 .. Bound : UploadAtIndex(index)
    BY <2>4 DEF StartThreads, Decide, UploadAtIndex
  <2>5. ASSUME NextRange PROVE FALSE
    <3>1. Set!Subtract(Head(todo).start, Head(todo).end) /\ todo # <<>>
      BY <2>5 DEF NextRange
    <3>2. Head(todo) \in Set!Intervals /\ Head(todo).start <= Head(todo).end
      BY <3>1 DEF IInv, DecisionInv
    <3>. QED BY <3>1, <3>2, IntervalFacts, SubtractIsAbstract DEF IInv
  <2>. QED BY <2>1, <2>2, <2>3, <2>4, <2>5 DEF Next, Terminated
<1>. QED BY <1>1, <1>2, Invariance, PTL DEF Spec, ImplementsIntegerSet

===============================================================================
