--------------------------- MODULE VhdStreams_proofs ---------------------------
(***************************************************************************)
(* The streams that deliver the data of a VHD.                             *)
(*                                                                         *)
(* StreamMerger, whatever the sizes of the chunks, of the sectors and of   *)
(* the streams: the merged stream has the sectors that the bitmap names,   *)
(* in order, and it ends only when nothing is left of either stream.       *)
(*                                                                         *)
(* VhdReadStream, for chains of any length and disks of any size: what is  *)
(* read is what the chain holds, and the indices of an upload send all of  *)
(* it, each sector once.                                                   *)
(***************************************************************************)
EXTENDS StreamMerger, VhdReadStream, SequenceTheorems, FiniteSetTheorems, TLAPS

\* What was emitted and what waits are together what was received, for either
\* stream.  After an error the chunks are dropped.
Buffered ==
  \A i \in Streams :
    /\ buffs[i].from = Len(out) * SectorSize
    /\ buffs[i].from + buffs[i].len <= received[i]
    /\ event # "error" => buffs[i].from + buffs[i].len = received[i]
    /\ received[i] <= length[i]
    /\ source[i] = "ended" => received[i] = length[i]

IInv ==
  /\ TypeOK
  /\ Buffered
  /\ bit = StartBit + Len(out)
  /\ OutputIsMerge
  /\ \E i \in Streams : buffs[i].len < SectorSize
  /\ event = "end" => \A i \in Streams : source[i] = "ended" /\ buffs[i].len = 0
  /\ event = "error" => \/ \E i \in Streams : source[i] = "failed"
                        \/ \A i \in Streams : source[i] = "ended"

-------------------------------------------------------------------------------
\* Multiplication is monotone and distributes over a sum.
LEMMA Products ==
  ASSUME NEW a \in Nat, NEW b \in Nat
  PROVE  /\ (a + b) * SectorSize = a * SectorSize + b * SectorSize
         /\ a * SectorSize \in Nat
BY SectorSizeAssumption, Z3

LEMMA ProductsCancel ==
  ASSUME NEW a \in Nat, NEW b \in Int, a * SectorSize <= b * SectorSize
  PROVE  a <= b
BY SectorSizeAssumption, Z3

\* The whole sectors are in both buffers, and one of the two has no other.
LEMMA WholeSectorsFit ==
  ASSUME NEW b \in [Streams -> [from : Nat, len : Nat]]
  PROVE  /\ WholeSectors(b) \in Nat
         /\ \A i \in Streams : WholeSectors(b) * SectorSize <= b[i].len
         /\ \E i \in Streams : b[i].len - WholeSectors(b) * SectorSize < SectorSize
<1>. DEFINE m == IF b[0].len < b[1].len THEN b[0].len ELSE b[1].len
<1>1. /\ m \in Nat
      /\ \A i \in Streams : b[i].len \in Nat /\ m <= b[i].len
      /\ \E i \in Streams : b[i].len = m
  BY DEF Streams
<1>. HIDE DEF m
<1>2. /\ m \div SectorSize \in Nat
      /\ (m \div SectorSize) * SectorSize <= m
      /\ m - (m \div SectorSize) * SectorSize < SectorSize
      /\ (m \div SectorSize) * SectorSize \in Nat
  BY <1>1, SectorSizeAssumption, Z3
<1>3. WholeSectors(b) = m \div SectorSize
  BY DEF WholeSectors, m
<1>. DEFINE w == m \div SectorSize
           w2 == w * SectorSize
<1>4. w2 \in Nat /\ w2 <= m /\ m - w2 < SectorSize
  BY <1>2
<1>. HIDE DEF w, w2
<1>5. /\ \A i \in Streams : w2 <= b[i].len
      /\ \E i \in Streams : b[i].len - w2 < SectorSize
  BY <1>1, <1>4, SectorSizeAssumption
<1>. QED BY <1>2, <1>3, <1>5 DEF w, w2

-------------------------------------------------------------------------------
LEMMA InitIInv ==
  ASSUME Init
  PROVE  IInv
<1>1. TypeOK
  BY StartBitAssumption DEF Init, TypeOK
<1>2. Len(out) = 0 /\ 0 * SectorSize = 0
  BY SectorSizeAssumption DEF Init
<1>3. Buffered
  BY <1>2, MaxLengthAssumption DEF Init, Buffered
<1>4. OutputIsMerge
  BY <1>2 DEF OutputIsMerge
<1>5. \E i \in Streams : buffs[i].len < SectorSize
  BY SectorSizeAssumption DEF Init, Streams
<1>6. bit = StartBit + Len(out)
  BY <1>2, StartBitAssumption DEF Init
<1>7. event = "none"
  BY DEF Init
<1>. QED BY <1>1, <1>3, <1>4, <1>5, <1>6, <1>7 DEF IInv

\* A chunk that is not dropped.
LEMMA StepEmit ==
  ASSUME IInv, NEW i \in Streams, NEW count \in Nat,
         source[i] = "open", received[i] + count <= length[i],
         event # "error",
         received' = [received EXCEPT ![i] = @ + count],
         ProcessBuffers(Queued(i, count)),
         UNCHANGED <<mask, length, source, event>>
  PROVE  IInv'
<1>. DEFINE b == Queued(i, count)
           sectors == WholeSectors(b)
           added == [k \in 1 .. sectors |-> SectorFrom(b, k - 1)]
<1>1. /\ mask \in [0 .. Bits - 1 -> Streams]
      /\ length \in [Streams -> 0 .. MaxLength]
      /\ received \in [Streams -> Nat]
      /\ buffs \in [Streams -> [from : Nat, len : Nat]]
      /\ bit \in Nat /\ bit = StartBit + Len(out)
      /\ out \in Seq(Streams \X Nat) /\ Len(out) \in Nat
  BY MaskSpaceAssumption DEF IInv, TypeOK
<1>2. /\ b \in [Streams -> [from : Nat, len : Nat]]
      /\ \A j \in Streams :
           /\ b[j].from = Len(out) * SectorSize
           /\ b[j].from + b[j].len = received'[j]
           /\ received'[j] <= length[j]
  <2>1. \A j \in Streams :
          /\ buffs[j].from = Len(out) * SectorSize
          /\ buffs[j].from + buffs[j].len = received[j]
          /\ received[j] <= length[j]
    BY DEF IInv, Buffered
  <2>. DEFINE l == Len(out) * SectorSize
  <2>. HIDE DEF l
  <2>2. \A j \in Streams :
          /\ buffs[j].from = l /\ buffs[j].from + buffs[j].len = received[j]
          /\ received[j] <= length[j]
    BY <2>1 DEF l
  <2>3. b \in [Streams -> [from : Nat, len : Nat]]
    <3>1. buffs[i] \in [from : Nat, len : Nat]
      BY <1>1
    <3>2. [buffs[i] EXCEPT !.len = @ + count] \in [from : Nat, len : Nat]
      BY <3>1
    <3>3. b = [buffs EXCEPT ![i] = [buffs[i] EXCEPT !.len = @ + count]]
      BY DEF Queued
    <3>. HIDE DEF b
    <3>. QED BY <1>1, <3>2, <3>3
  <2>4. ASSUME NEW j \in Streams
        PROVE  /\ b[j].from = l
               /\ b[j].from + b[j].len = received'[j]
               /\ received'[j] <= length[j]
    <3>1. CASE j = i
      <4>1. b[i].from = buffs[i].from /\ b[i].len = buffs[i].len + count
        BY <1>1 DEF Queued
      <4>2. received'[i] = received[i] + count
        BY <1>1
      <4>3. buffs[i].from \in Nat /\ buffs[i].len \in Nat /\ received[i] \in Nat
        BY <1>1
      <4>. QED BY <3>1, <4>1, <4>2, <4>3, <2>2
    <3>2. CASE j # i
      <4>1. b[j] = buffs[j] /\ received'[j] = received[j]
        BY <3>2, <1>1 DEF Queued
      <4>. QED BY <4>1, <2>2
    <3>. QED BY <3>1, <3>2
  <2>. QED BY <2>3, <2>4 DEF l
<1>3. /\ sectors \in Nat
      /\ \A j \in Streams : sectors * SectorSize <= b[j].len
      /\ \E j \in Streams : b[j].len - sectors * SectorSize < SectorSize
  BY <1>2, WholeSectorsFit
<1>4. /\ out' = out \o added
      /\ bit' = bit + sectors
      /\ buffs' = Rest(b, sectors)
  BY DEF ProcessBuffers
<1>. HIDE DEF b, sectors
<1>5. /\ Len(out) + sectors <= Bits - StartBit
      /\ (Len(out) + sectors) * SectorSize
           = Len(out) * SectorSize + sectors * SectorSize
      /\ sectors * SectorSize \in Nat
      /\ Len(out) * SectorSize \in Nat
  <2>1. /\ (Len(out) + sectors) * SectorSize
             = Len(out) * SectorSize + sectors * SectorSize
        /\ sectors * SectorSize \in Nat /\ Len(out) * SectorSize \in Nat
    BY <1>1, <1>3, Products
  <2>2. b[0].from + b[0].len <= MaxLength /\ b[0].len \in Nat
    <3>1. 0 \in Streams
      BY DEF Streams
    <3>2. length[0] \in 0 .. MaxLength /\ received'[0] <= length[0]
      BY <1>1, <1>2, <3>1
    <3>3. b[0].from + b[0].len = received'[0] /\ b[0].len \in Nat
      BY <1>2, <3>1
    <3>4. received'[0] \in Nat
      BY <1>1, <3>1
    <3>. QED BY <3>2, <3>3, <3>4, MaxLengthAssumption
  <2>3. /\ b[0].from = Len(out) * SectorSize
        /\ sectors * SectorSize <= b[0].len
    BY <1>2, <1>3 DEF Streams
  <2>. DEFINE all == (Len(out) + sectors) * SectorSize
             most == (Bits - StartBit) * SectorSize
             l == Len(out) * SectorSize
             n == sectors * SectorSize
  <2>4. all = l + n /\ n \in Nat /\ l \in Nat /\ n <= b[0].len /\ b[0].from = l
    BY <2>1, <2>3
  <2>5. MaxLength <= most /\ MaxLength \in Nat /\ most \in Int
    BY MaxLengthAssumption, BitsAssumption, StartBitAssumption, SectorSizeAssumption
  <2>. HIDE DEF all, most, l, n
  <2>6. all <= most
    BY <2>2, <2>4, <2>5
  <2>7. Len(out) + sectors <= Bits - StartBit
    <3>1. Len(out) + sectors \in Nat /\ Bits - StartBit \in Int
      BY <1>1, <1>3, BitsAssumption, StartBitAssumption
    <3>2. (Len(out) + sectors) * SectorSize <= (Bits - StartBit) * SectorSize
      BY <2>6 DEF all, most
    <3>. QED BY <3>1, <3>2, ProductsCancel
  <2>. QED BY <2>1, <2>7
<1>6. \A k \in 1 .. sectors :
        /\ mask[StartBit + Len(out) + k - 1] \in Streams
        /\ added[k] = <<mask[StartBit + Len(out) + k - 1],
                          (Len(out) + k - 1) * SectorSize>>
        /\ (Len(out) + k - 1) * SectorSize \in Nat
  <2>. TAKE k \in 1 .. sectors
  <2>1. /\ StartBit + Len(out) + k - 1 \in 0 .. Bits - 1
        /\ bit + (k - 1) = StartBit + Len(out) + k - 1
        /\ k - 1 \in Nat
    <3>1. /\ Len(out) \in Nat /\ sectors \in Nat /\ bit = StartBit + Len(out)
          /\ Len(out) + sectors <= Bits - StartBit
      BY <1>1, <1>3, <1>5
    <3>2. k \in Int /\ 1 <= k /\ k <= sectors
      BY <3>1
    <3>. QED BY <3>1, <3>2, StartBitAssumption, BitsAssumption
  <2>2. mask[StartBit + Len(out) + k - 1] \in Streams
    BY <1>1, <2>1
  <2>3. (Len(out) + (k - 1)) * SectorSize
          = Len(out) * SectorSize + (k - 1) * SectorSize
    BY <1>1, <2>1, Products
  <2>4. Len(out) + (k - 1) = Len(out) + k - 1 /\ Len(out) + (k - 1) \in Nat
    BY <1>1, <2>1
  <2>5. b[mask[StartBit + Len(out) + k - 1]].from = Len(out) * SectorSize
    BY <1>2, <2>2
  <2>6. added[k] = SectorFrom(b, k - 1)
    OBVIOUS
  <2>7. SectorFrom(b, k - 1)
          = <<mask[StartBit + Len(out) + k - 1],
              Len(out) * SectorSize + (k - 1) * SectorSize>>
    BY <2>1, <2>5 DEF SectorFrom
  <2>8. (Len(out) + k - 1) * SectorSize \in Nat
    BY <2>4, SectorSizeAssumption, Products
  <2>. QED BY <2>2, <2>3, <2>4, <2>6, <2>7, <2>8
<1>7. added \in Seq(Streams \X Nat) /\ Len(added) = sectors
  <2>1. added \in [1 .. sectors -> Streams \X Nat]
    BY <1>6
  <2>. QED BY <2>1, <1>3, SeqDef
<1>8. /\ out' \in Seq(Streams \X Nat)
      /\ Len(out') = Len(out) + sectors
      /\ \A k \in 1 .. Len(out) : out'[k] = out[k]
      /\ \A k \in Len(out) + 1 .. Len(out) + sectors :
           out'[k] = added[k - Len(out)]
  BY <1>1, <1>3, <1>4, <1>7
<1>. HIDE DEF added
<1>9. OutputIsMerge'
  <2>. SUFFICES ASSUME NEW k \in 1 .. Len(out')
                PROVE  out'[k] = <<mask'[StartBit + k - 1], (k - 1) * SectorSize>>
    BY DEF OutputIsMerge
  <2>1. CASE k <= Len(out)
    <3>1. k \in 1 .. Len(out)
      BY <2>1, <1>1
    <3>2. out[k] = <<mask[StartBit + k - 1], (k - 1) * SectorSize>>
      BY <3>1 DEF IInv, OutputIsMerge
    <3>3. out'[k] = out[k] /\ mask' = mask
      BY <3>1, <1>8
    <3>. QED BY <3>2, <3>3
  <2>2. CASE k > Len(out)
    <3>1. k - Len(out) \in 1 .. sectors /\ k \in Len(out) + 1 .. Len(out) + sectors
      BY <2>2, <1>1, <1>3, <1>8
    <3>2. /\ StartBit + Len(out) + (k - Len(out)) - 1 = StartBit + k - 1
          /\ Len(out) + (k - Len(out)) - 1 = k - 1
      BY <3>1, <1>1, StartBitAssumption
    <3>3. out'[k] = added[k - Len(out)]
      BY <3>1, <1>8
    <3>4. added[k - Len(out)] = <<mask[StartBit + k - 1], (k - 1) * SectorSize>>
      BY <3>1, <3>2, <1>6
    <3>5. mask' = mask
      OBVIOUS
    <3>. QED BY <3>3, <3>4, <3>5
  <2>3. k \in Int /\ Len(out) \in Int
    BY <1>1
  <2>. QED BY <2>1, <2>2, <2>3
<1>10. \A j \in Streams :
         /\ buffs'[j].from = Len(out') * SectorSize
         /\ buffs'[j].from + buffs'[j].len = received'[j]
         /\ buffs'[j].from \in Nat /\ buffs'[j].len \in Nat
         /\ buffs'[j].len = b[j].len - sectors * SectorSize
  <2>. TAKE j \in Streams
  <2>. DEFINE n == sectors * SectorSize
  <2>1. /\ buffs'[j].from = b[j].from + n
        /\ buffs'[j].len = b[j].len - n
    BY <1>4 DEF Rest
  <2>2. n \in Nat /\ n <= b[j].len /\ b[j].len \in Nat /\ b[j].from \in Nat
    BY <1>2, <1>3, <1>5
  <2>3. b[j].from + n = Len(out') * SectorSize
    BY <1>2, <1>5, <1>8
  <2>. HIDE DEF n
  <2>4. b[j].from + b[j].len = received'[j]
    BY <1>2
  <2>5. n = sectors * SectorSize
    BY DEF n
  <2>. QED BY <2>1, <2>2, <2>3, <2>4, <2>5
<1>11. buffs' \in [Streams -> [from : Nat, len : Nat]]
  <2>. DEFINE n == sectors * SectorSize
  <2>1. buffs' = [j \in Streams |-> [from |-> b[j].from + n, len |-> b[j].len - n]]
    BY <1>4 DEF Rest
  <2>. HIDE DEF n
  <2>2. \A j \in Streams : b[j].from + n \in Nat /\ b[j].len - n \in Nat
    BY <1>10, <2>1
  <2>. QED BY <2>1, <2>2
<1>12. bit' = StartBit + Len(out') /\ bit' \in Nat
  <2>1. bit = StartBit + Len(out) /\ Len(out) \in Nat /\ sectors \in Nat
    BY <1>1, <1>3
  <2>2. bit' = bit + sectors
    BY <1>4
  <2>3. Len(out') = Len(out) + sectors
    BY <1>8
  <2>. QED BY <2>1, <2>2, <2>3, StartBitAssumption
<1>13. TypeOK'
  <2>1. /\ mask' \in MaskSpace /\ length' \in [Streams -> 0 .. MaxLength]
        /\ source' \in [Streams -> {"open", "ended", "failed"}]
        /\ event' \in {"none", "end", "error"}
    BY DEF IInv, TypeOK
  <2>2. received' \in [Streams -> Nat]
    <3>1. received[i] + count \in Nat
      BY <1>1
    <3>. QED BY <1>1, <3>1
  <2>3. out' \in Seq(Streams \X Nat)
    BY <1>8
  <2>. QED BY <1>11, <1>12, <2>1, <2>2, <2>3 DEF TypeOK
<1>14. Buffered'
  <2>1. \A j \in Streams :
          /\ received'[j] \in Nat
          /\ source'[j] = "ended" => received'[j] = length'[j]
    <3>1. \A j \in Streams : source[j] = "ended" => j # i /\ received[j] = length[j]
      BY DEF IInv, Buffered
    <3>2. \A j \in Streams \ {i} : received'[j] = received[j]
      BY <1>1
    <3>3. \A j \in Streams : received'[j] \in Nat
      BY <1>1
    <3>. QED BY <3>1, <3>2, <3>3
  <2>. QED BY <1>2, <1>10, <2>1 DEF Buffered
<1>15. \E j \in Streams : buffs'[j].len < SectorSize
  BY <1>3, <1>10
<1>16. event' # "end"
  BY DEF IInv
<1>. QED BY <1>9, <1>12, <1>13, <1>14, <1>15, <1>16 DEF IInv

LEMMA StepIInv ==
  ASSUME IInv, [Next]_vars
  PROVE  IInv'
<1>1. ASSUME NEW i \in Streams, NEW count \in 1 .. MaxLength, Data(i, count),
             event # "error"
      PROVE  IInv'
  <2>1. /\ count \in Nat /\ received[i] + count <= length[i]
    <3>1. received[i] \in Nat /\ length[i] \in Nat
      BY MaxLengthAssumption DEF IInv, TypeOK
    <3>. QED BY <1>1, <3>1 DEF Data
  <2>. QED BY <1>1, <2>1, StepEmit DEF Data, IgnoresData
<1>2. ASSUME NEW i \in Streams, NEW count \in 1 .. MaxLength, Data(i, count),
             event = "error"
      PROVE  IInv'
  <2>1. /\ received' = [received EXCEPT ![i] = @ + count]
        /\ received[i] \in Nat /\ length[i] \in Nat
        /\ count \in Nat /\ received[i] + count <= length[i]
        /\ source[i] = "open"
        /\ UNCHANGED <<mask, length, buffs, bit, out, source, event>>
    <3>1. received[i] \in Nat /\ length[i] \in Nat
      BY MaxLengthAssumption DEF IInv, TypeOK
    <3>. QED BY <1>2, <3>1 DEF Data, IgnoresData
  <2>2. TypeOK'
    <3>1. received \in [Streams -> Nat] /\ received[i] + count \in Nat
      BY <2>1 DEF IInv, TypeOK
    <3>2. received' \in [Streams -> Nat]
      BY <2>1, <3>1
    <3>. QED BY <2>1, <3>2 DEF IInv, TypeOK
  <2>3. Buffered'
    <3>1. \A j \in Streams : buffs[j].from \in Nat /\ buffs[j].len \in Nat
                            /\ received[j] \in Nat
      BY DEF IInv, TypeOK
    <3>2. received \in [Streams -> Nat]
      BY DEF IInv, TypeOK
    <3>. QED BY <1>2, <2>1, <3>1, <3>2 DEF IInv, Buffered
  <2>4. OutputIsMerge'
    BY <2>1 DEF IInv, OutputIsMerge
  <2>. QED BY <1>2, <2>1, <2>2, <2>3, <2>4 DEF IInv
<1>3. ASSUME NEW i \in Streams, SourceEnds(i)
      PROVE  IInv'
  <2>1. /\ UNCHANGED <<mask, length, received, buffs, bit, out>>
        /\ source[i] = "open" /\ received[i] = length[i]
        /\ source' = [source EXCEPT ![i] = "ended"]
        /\ source[1 - i] # "ended" => event' = event
        /\ source[1 - i] = "ended" =>
             event' = IF SomethingLeft(i) THEN "error" ELSE "end"
    BY <1>3 DEF SourceEnds, EndsMerge
  <2>2. /\ event # "end"
        /\ 1 - i \in Streams /\ 1 - (1 - i) = i /\ 1 - i # i
        /\ \A j \in Streams : j = i \/ j = 1 - i
        /\ source \in [Streams -> {"open", "ended", "failed"}]
    <3>1. 1 - i \in Streams /\ 1 - (1 - i) = i /\ 1 - i # i
      BY DEF Streams
    <3>2. \A j \in Streams : j = i \/ j = 1 - i
      BY DEF Streams
    <3>. QED BY <2>1, <3>1, <3>2 DEF IInv, TypeOK
  <2>3. event = "error" => source[1 - i] # "ended"
    <3>1. source[i] # "failed" /\ source[i] # "ended"
      BY <2>1
    <3>. QED BY <3>1, <2>2 DEF IInv
  <2>4. event' \in {"none", "end", "error"}
    BY <2>1, <2>2 DEF IInv, TypeOK
  <2>5. TypeOK'
    BY <2>1, <2>2, <2>4 DEF IInv, TypeOK
  <2>6. Buffered'
    BY <2>1, <2>2, <2>3 DEF IInv, Buffered
  <2>7. event' = "end" =>
          \A j \in Streams : source'[j] = "ended" /\ buffs'[j].len = 0
    <3>. SUFFICES ASSUME event' = "end"
                  PROVE  \A j \in Streams : source'[j] = "ended" /\ buffs'[j].len = 0
      OBVIOUS
    <3>1. source[1 - i] = "ended" /\ ~SomethingLeft(i)
      BY <2>1, <2>2, <2>3
    <3>2. \A j \in Streams : buffs[j].len = 0
      BY <3>1 DEF SomethingLeft, IInv, TypeOK, Streams
    <3>3. source'[i] = "ended" /\ source'[1 - i] = "ended"
      BY <3>1, <2>1, <2>2
    <3>4. \A j \in Streams : source'[j] = "ended"
      BY <3>3, <2>2
    <3>. QED BY <3>2, <3>4, <2>1
  <2>8. event' = "error" => \/ \E j \in Streams : source'[j] = "failed"
                            \/ \A j \in Streams : source'[j] = "ended"
    <3>1. source'[i] = "ended" /\ source'[1 - i] = source[1 - i]
      BY <2>1, <2>2
    <3>2. CASE source[1 - i] = "ended"
      BY <3>1, <3>2, <2>2
    <3>3. CASE source[1 - i] # "ended"
      <4>1. event' = "error" => event = "error"
        BY <3>3, <2>1
      <4>2. event = "error" => source[1 - i] = "failed"
        <5>1. source[i] # "failed" /\ source[i] # "ended"
          BY <2>1
        <5>. QED BY <5>1, <2>2 DEF IInv
      <4>. QED BY <4>1, <4>2, <3>1, <2>2
    <3>. QED BY <3>2, <3>3
  <2>9. OutputIsMerge' /\ bit' = StartBit + Len(out')
        /\ \E j \in Streams : buffs'[j].len < SectorSize
    BY <2>1 DEF IInv, OutputIsMerge
  <2>. QED BY <2>5, <2>6, <2>7, <2>8, <2>9 DEF IInv
<1>4. ASSUME NEW i \in Streams, SourceFails(i)
      PROVE  IInv'
  <2>1. /\ UNCHANGED <<mask, length, received, buffs, bit, out>>
        /\ source[i] = "open" /\ event' = "error"
        /\ source' = [source EXCEPT ![i] = "failed"]
    BY <1>4 DEF SourceFails
  <2>2. /\ 1 - i \in Streams /\ 1 - (1 - i) = i /\ 1 - i # i
        /\ \A j \in Streams : j = i \/ j = 1 - i
    BY DEF Streams
  <2>3. TypeOK'
    BY <2>1 DEF IInv, TypeOK
  <2>4. Buffered'
    BY <2>1 DEF IInv, Buffered, TypeOK
  <2>5. source'[i] = "failed"
    BY <2>1 DEF IInv, TypeOK
  <2>6. OutputIsMerge' /\ bit' = StartBit + Len(out')
        /\ \E j \in Streams : buffs'[j].len < SectorSize
    BY <2>1 DEF IInv, OutputIsMerge
  <2>. QED BY <2>1, <2>3, <2>4, <2>5, <2>6 DEF IInv
<1>5. CASE UNCHANGED vars
  BY <1>5 DEF vars, IInv, TypeOK, Buffered, OutputIsMerge
<1>. QED BY <1>1, <1>2, <1>3, <1>4, <1>5 DEF Next, Source, Terminated

\* What the theorems on the merger rest on holds after every chunk of either stream.
THEOREM Invariance == Spec => []IInv
<1>1. Init => IInv
  BY InitIInv
<1>2. IInv /\ [Next]_vars => IInv'
  BY StepIInv
<1>. QED BY <1>1, <1>2, PTL DEF Spec

\* The buffers never have a negative length or a sector beyond the bitmap
\* (processBuffers()).
THEOREM TypeCorrect == Spec => []TypeOK
<1>1. IInv => TypeOK
  BY DEF IInv
<1>. QED BY <1>1, Invariance, PTL

\* However the two streams are cut into chunks, each sector is taken from the
\* stream that the bitmap names (processBuffers()).
THEOREM Merges == Spec => []OutputIsMerge
<1>1. IInv => OutputIsMerge
  BY DEF IInv
<1>. QED BY <1>1, Invariance, PTL

\* Every whole sector that both streams have delivered has been emitted
\* (onData() and processBuffers()).
THEOREM EmitsAtOnce == Spec => []NothingHeldBack
<1>1. IInv => NothingHeldBack
  <2>. SUFFICES ASSUME IInv, event # "error"
                PROVE  \E i \in Streams : received[i] < (Len(out) + 1) * SectorSize
    BY DEF NothingHeldBack
  <2>1. PICK i \in Streams : buffs[i].len < SectorSize
    BY DEF IInv
  <2>2. /\ received[i] = buffs[i].from + buffs[i].len
        /\ buffs[i].from = Len(out) * SectorSize
    BY DEF IInv, Buffered
  <2>3. buffs[i].len \in Nat /\ buffs[i].from \in Nat /\ Len(out) \in Nat
    BY DEF IInv, TypeOK
  <2>4. (Len(out) + 1) * SectorSize = Len(out) * SectorSize + SectorSize
    BY <2>3, Products, SectorSizeAssumption
  <2>5. received[i] < buffs[i].from + SectorSize
    BY <2>1, <2>2, <2>3, SectorSizeAssumption
  <2>. QED BY <2>2, <2>4, <2>5
<1>. QED BY <1>1, Invariance, PTL

\* The merged stream ends only when both streams had the same length and all
\* of it has been emitted (onEnd()).
THEOREM EndsComplete == Spec => []EndMeansComplete
<1>1. IInv => EndMeansComplete
  <2>. SUFFICES ASSUME IInv, event = "end", NEW i \in Streams
                PROVE  length[i] = Len(out) * SectorSize
    BY DEF EndMeansComplete
  <2>1. /\ buffs[i].from + buffs[i].len = length[i]
        /\ buffs[i].from = Len(out) * SectorSize /\ buffs[i].len = 0
    BY DEF IInv, Buffered
  <2>2. buffs[i].from \in Nat
    BY DEF IInv, TypeOK
  <2>. QED BY <2>1, <2>2
<1>. QED BY <1>1, Invariance, PTL

\* After its end or an error the merged stream emits no data, although a source that is
\* still open may deliver (onData() looks at the error; no source is open after the end).
THEOREM NothingFollowsTheEnd == Spec => NothingAfterTheEnd
<1>1. IInv /\ [Next]_vars => [event # "none" => out' = out]_vars
  <2> SUFFICES ASSUME IInv, Next, event # "none" PROVE out' = out
    OBVIOUS
  <2>1. event = "end" \/ event = "error"
    BY DEF IInv, TypeOK
  <2>2. ASSUME NEW i \in Streams, NEW count \in 1 .. MaxLength, Data(i, count) PROVE out' = out
    <3>1. source[i] # "ended"
      BY <2>2 DEF Data
    <3>2. event = "error"
      BY <2>1, <3>1 DEF IInv
    <3>. QED BY <2>2, <3>2 DEF Data, IgnoresData
  <2>. QED BY <2>2 DEF Next, Source, SourceEnds, SourceFails, Terminated, vars
<1>. QED BY <1>1, Invariance, PTL DEF NothingAfterTheEnd, Spec

-------------------------------------------------------------------------------
(* VhdReadStream.                                                             *)

\* What is assumed of the chains, the disk and the blocks of the upload.
LEMMA Parameters ==
  /\ Depth \in Nat \ {0} /\ BlockCount \in Nat \ {0} /\ SectorsPerBlock \in Nat \ {0}
  /\ ChainSpace \subseteq Chains
  /\ \A c \in ChainSpace : ~IsFixed(c, 1)
  /\ UploadsPerBlock \in Nat \ {0} /\ SectorsPerBlock % UploadsPerBlock = 0
  /\ HeaderSectors \in Nat
BY DepthAssumption, BlockCountAssumption, SectorsPerBlockAssumption, ChainSpaceAssumption,
   UploadsPerBlockAssumption, HeaderSectorsAssumption

\* Every set of natural numbers has a smallest member: the least-number principle, from
\* which an induction is made by looking at the first number that it fails for.
Less == {pair \in Nat \X Nat : pair[1] < pair[2]}

LEMMA SmallestOf ==
  ASSUME NEW T \in SUBSET Nat, T # {}
  PROVE  \E x \in T : \A y \in T : x <= y
<1>1. IsWellFoundedOn(Less, Nat)
  BY NatLessThanWellFounded DEF OpToRel, Less
<1>2. PICK x \in T : \A y \in T : ~(<<y, x>> \in Less)
  BY <1>1, WFMin
<1>3. \A y \in T : ~(y < x)
  BY <1>2 DEF Less
<1>. QED BY <1>3

-------------------------------------------------------------------------------
(* The chain.                                                                  *)

\* Content, of the VHDs from a level on.
HoldersFrom(c, b, sector, level) == {l \in Holders(c, b, sector) : level <= l}
FirstOf(holders) ==
  IF holders = {} THEN Zero
  ELSE CHOOSE level \in holders : \A other \in holders : level <= other
ContentFrom(c, b, sector, level) == FirstOf(HoldersFrom(c, b, sector, level))

LEMMA FirstHolder ==
  ASSUME NEW c, NEW b, NEW sector, NEW level \in Nat,
         HoldersFrom(c, b, sector, level) # {}
  PROVE  LET l == ContentFrom(c, b, sector, level)
         IN /\ l \in HoldersFrom(c, b, sector, level)
            /\ \A other \in HoldersFrom(c, b, sector, level) : l <= other
<1>1. HoldersFrom(c, b, sector, level) \in SUBSET Nat
  BY Parameters DEF HoldersFrom, Holders, Levels
<1>2. \E l \in HoldersFrom(c, b, sector, level) :
        \A other \in HoldersFrom(c, b, sector, level) : l <= other
  BY <1>1, SmallestOf
<1>. QED BY <1>2 DEF ContentFrom, FirstOf

\* From a level on the first holder is the level's own VHD, or that from the next on.
LEMMA ContentStep ==
  ASSUME NEW c, NEW b, NEW sector, NEW level \in Levels
  PROVE  ContentFrom(c, b, sector, level) =
           IF level \in Holders(c, b, sector) THEN level
           ELSE ContentFrom(c, b, sector, level + 1)
<1>1. Levels \subseteq Nat /\ Holders(c, b, sector) \subseteq Levels
  BY Parameters DEF Levels, Holders
<1>2. CASE level \in Holders(c, b, sector)
  <2>1. level \in HoldersFrom(c, b, sector, level)
    BY <1>1, <1>2 DEF HoldersFrom
  <2>2. \A l \in HoldersFrom(c, b, sector, level) : level <= l /\ l \in Nat
    BY <1>1 DEF HoldersFrom
  <2> PICK l : l = ContentFrom(c, b, sector, level)
    OBVIOUS
  <2>3. l \in HoldersFrom(c, b, sector, level) /\ l <= level
    BY <1>1, <2>1, FirstHolder
  <2>4. l = level
    BY <1>1, <2>2, <2>3
  <2>. QED BY <1>2, <2>4
<1>3. CASE level \notin Holders(c, b, sector)
  <2>1. \A l \in Holders(c, b, sector) : level <= l <=> level + 1 <= l
    <3>1. level \in Nat /\ \A l \in Holders(c, b, sector) : l \in Nat /\ l # level
      BY <1>1, <1>3, Zenon
    <3>. QED BY <3>1
  <2>2. HoldersFrom(c, b, sector, level) = HoldersFrom(c, b, sector, level + 1)
    BY <2>1 DEF HoldersFrom
  <2>. QED BY <1>3, <2>2 DEF ContentFrom
<1>. QED BY <1>2, <1>3

LEMMA NoContent ==
  ASSUME NEW c, NEW b, NEW sector, NEW level, HoldersFrom(c, b, sector, level) = {}
  PROVE  ContentFrom(c, b, sector, level) = Zero
BY DEF ContentFrom, FirstOf

\* What a level emits, given what its parent does.
LevelEmits(c, b, sector, emits, level) ==
  IF IsFixed(c, level) THEN level
  ELSE IF b \in Indices(c, level)
       THEN IF IsInParent(c, level, b) /\ sector \notin c.bitmap[level][b]
            THEN emits[level + 1]
            ELSE InFile(c, level, b, sector)
       ELSE IF IsInParent(c, level, b) THEN emits[level + 1]
            ELSE Zero

\* A level whose parents have not the block has none of them hold it.
LEMMA NotInParent ==
  ASSUME NEW c \in Chains, NEW b, NEW sector,
         NEW level \in Levels, ~IsInParent(c, level, b)
  PROVE  HoldersFrom(c, b, sector, level + 1) = {}
<1> SUFFICES ASSUME NEW l \in HoldersFrom(c, b, sector, level + 1) PROVE FALSE
  OBVIOUS
<1>1. /\ l \in Int /\ level \in Int /\ Depth \in Int
      /\ level + 1 <= l /\ l <= Depth /\ l \in Levels
  BY Parameters DEF HoldersFrom, Holders, Levels
<1>2. level < Depth
  BY <1>1
<1>3. HasFullIndices(c) /\ b \notin FullIndices(c, level + 1)
  BY <1>2 DEF IsInParent
<1>4. ~IsFixed(c, l)
  BY <1>3 DEF HasFullIndices, IsFixed
<1>5. b \in Indices(c, l)
  BY <1>4 DEF HoldersFrom, Holders
<1>6. l \in level + 1 .. Depth
  BY <1>1
<1>. QED BY <1>3, <1>5, <1>6 DEF FullIndices

LEMMA LevelEmitsContent ==
  ASSUME NEW c \in Chains, NEW b, NEW sector, NEW emits,
         NEW level \in Levels,
         level < Depth => emits[level + 1] = ContentFrom(c, b, sector, level + 1)
  PROVE  LevelEmits(c, b, sector, emits, level) = ContentFrom(c, b, sector, level)
<1>1. level \in Holders(c, b, sector) <=>
        \/ IsFixed(c, level)
        \/ b \in Indices(c, level) /\ sector \in c.bitmap[level][b]
  BY DEF Holders
<1>2. CASE level \in Holders(c, b, sector)
  BY <1>1, <1>2, ContentStep DEF LevelEmits, InFile
<1>3. CASE level \notin Holders(c, b, sector)
  <2>1. ContentFrom(c, b, sector, level) = ContentFrom(c, b, sector, level + 1)
    BY <1>3, ContentStep
  <2>2. CASE IsInParent(c, level, b)
    <3>1. level < Depth
      BY <2>2 DEF IsInParent
    <3>. QED BY <1>1, <1>3, <2>1, <2>2, <3>1 DEF LevelEmits
  <2>3. CASE ~IsInParent(c, level, b)
    <3>1. ContentFrom(c, b, sector, level + 1) = Zero
      BY <2>3, NotInParent, NoContent
    <3>. QED BY <1>1, <1>3, <2>1, <2>3, <3>1 DEF LevelEmits, InFile
  <2>. QED BY <2>2, <2>3
<1>. QED BY <1>2, <1>3

\* The stream of a level reads that of its parent, which may read that of its own: through
\* any number of parents a sector is that of the first VHD of the chain that has it marked
\* (getReadStream() and its isInParent, which looks at the blocks of all the parents).  The
\* recursion over the levels has one solution: another would differ at a last level first.
THEOREM ChainIsReadRightly ==
  ASSUME NEW c \in Chains, NEW b, NEW sector
  PROVE  Emits(c, b, sector) = Content(c, b, sector)
<1> DEFINE f == [level \in Levels |-> ContentFrom(c, b, sector, level)]
<1>1. f = [level \in Levels |-> LevelEmits(c, b, sector, f, level)]
  <2>1. ASSUME NEW level \in Levels
        PROVE  LevelEmits(c, b, sector, f, level) = ContentFrom(c, b, sector, level)
    <3>1. level < Depth => level + 1 \in Levels
      BY Parameters DEF Levels
    <3>2. level < Depth => f[level + 1] = ContentFrom(c, b, sector, level + 1)
      BY <3>1
    <3> HIDE DEF f
    <3>. QED BY <3>2, LevelEmitsContent
  <2>. QED BY <2>1
<1>2. ASSUME NEW g, g = [level \in Levels |-> LevelEmits(c, b, sector, g, level)]
      PROVE  g = f
  <2> DEFINE wrong == {n \in Nat : /\ Depth - n \in Levels
                                   /\ g[Depth - n] # ContentFrom(c, b, sector, Depth - n)}
  <2>1. wrong = {}
    <3> SUFFICES ASSUME wrong # {} PROVE FALSE
      OBVIOUS
    <3>1. PICK n \in wrong : \A m \in wrong : n <= m
      BY SmallestOf
    <3> PICK level : level = Depth - n
      OBVIOUS
    <3>2. /\ n \in Nat /\ level \in Levels /\ level \in Int /\ Depth \in Int
          /\ g[level] # ContentFrom(c, b, sector, level)
      BY Parameters DEF Levels
    <3>3. level < Depth => g[level + 1] = ContentFrom(c, b, sector, level + 1)
      <4> SUFFICES ASSUME level < Depth PROVE g[level + 1] = ContentFrom(c, b, sector, level + 1)
        OBVIOUS
      <4>1. /\ n - 1 \in Nat /\ Depth - (n - 1) = level + 1
            /\ level + 1 \in Levels /\ ~(n <= n - 1)
        BY <3>2, Parameters DEF Levels
      <4>2. n - 1 \notin wrong
        BY <3>1, <4>1
      <4>. QED BY <4>1, <4>2
    <3>4. g[level] = LevelEmits(c, b, sector, g, level)
      BY <1>2, <3>2
    <3>. QED BY <3>2, <3>3, <3>4, LevelEmitsContent
  <2>2. ASSUME NEW level \in Levels PROVE g[level] = ContentFrom(c, b, sector, level)
    <3>1. Depth - level \in Nat /\ Depth - (Depth - level) = level
      BY Parameters DEF Levels
    <3>. QED BY <2>1, <3>1
  <2>. QED BY <1>2, <2>2
<1>3. f = CHOOSE g : g = [level \in Levels |-> LevelEmits(c, b, sector, g, level)]
  <2> HIDE DEF f
  <2>. QED BY <1>1, <1>2
<1>4. Emits(c, b, sector) = f[1]
  <2>1. Emits(c, b, sector)
          = (CHOOSE g : g = [level \in Levels |-> LevelEmits(c, b, sector, g, level)])[1]
    BY DEF Emits, LevelEmits
  <2>. QED BY <1>3, <2>1
<1>5. f[1] = ContentFrom(c, b, sector, 1)
  BY Parameters DEF Levels
<1>6. ContentFrom(c, b, sector, 1) = Content(c, b, sector)
  <2>1. HoldersFrom(c, b, sector, 1) = Holders(c, b, sector)
    BY Parameters DEF HoldersFrom, Holders, Levels
  <2>2. ContentFrom(c, b, sector, 1) = FirstOf(Holders(c, b, sector))
    BY <2>1 DEF ContentFrom
  <2>3. Content(c, b, sector) = FirstOf(Holders(c, b, sector))
    BY DEF Content, FirstOf
  <2>. QED BY <2>2, <2>3
<1>. QED BY <1>4, <1>5, <1>6

\* A block that neither the file nor any of its parents has is all zeroes.
LEMMA NoDataIsZero ==
  ASSUME NEW c \in ChainSpace, NEW b, NEW sector,
         b \notin Indices(c, 1), ~IsInParent(c, 1, b)
  PROVE  Content(c, b, sector) = Zero
<1>1. /\ c \in Chains /\ 1 \in Levels /\ ~IsFixed(c, 1)
  BY Parameters DEF Levels
<1>2. HoldersFrom(c, b, sector, 2) = {}
  <2>1. 1 + 1 = 2
    OBVIOUS
  <2>. QED BY <1>1, <2>1, NotInParent
<1>3. 1 \notin Holders(c, b, sector)
  BY <1>1 DEF Holders
<1>4. Holders(c, b, sector) = {}
  <2> SUFFICES ASSUME NEW l \in Holders(c, b, sector) PROVE FALSE
    OBVIOUS
  <2>1. l \in Nat /\ l >= 1 /\ l # 1
    BY <1>3, Parameters DEF Holders, Levels
  <2>2. 2 <= l
    BY <2>1
  <2>. QED BY <1>2, <2>2 DEF HoldersFrom
<1>. QED BY <1>4 DEF Content

-------------------------------------------------------------------------------
(* Positions: sectors of blocks, and blocks of the upload in them.             *)

LEMMA Division ==
  ASSUME NEW n \in Nat \ {0}, NEW a \in Nat
  PROVE  /\ a \div n \in Nat /\ a % n \in 0 .. n - 1
         /\ a = (a \div n) * n + (a % n)
BY Z3

LEMMA ProductOrder ==
  ASSUME NEW n \in Nat \ {0}, NEW a \in Nat, NEW b \in Nat
  PROVE  /\ a * n \in Nat
         /\ (a + 1) * n = a * n + n
         /\ a <= b => a * n <= b * n
         /\ a < b => a * n + n <= b * n
         /\ a * n < b * n => a < b
<1>1. a * n \in Nat /\ b * n \in Nat /\ (a + 1) * n = a * n + n
  BY Z3
<1>2. a <= b => a * n <= b * n
  BY Z3
<1>3. a + 1 <= b => (a + 1) * n <= b * n
  BY Z3
<1>4. b <= a => b * n <= a * n
  BY Z3
<1> PICK an, bn \in Nat : an = a * n /\ bn = b * n
  BY <1>1
<1>5. an < bn => a < b
  BY <1>4
<1>6. a < b => an + n <= bn
  BY <1>1, <1>3
<1>. QED BY <1>1, <1>2, <1>5, <1>6

\* A position has one block and one place in it.
LEMMA PositionIs ==
  ASSUME NEW n \in Nat \ {0}, NEW b \in Nat, NEW t \in 0 .. n - 1
  PROVE  (b * n + t) \div n = b /\ (b * n + t) % n = t
<1> PICK bn \in Nat : bn = b * n
  BY ProductOrder
<1> PICK q \in Nat, r \in 0 .. n - 1 :
      q = (b * n + t) \div n /\ r = (b * n + t) % n /\ b * n + t = q * n + r
  <2>1. b * n + t \in Nat
    OBVIOUS
  <2>. QED BY <2>1, Division
<1> PICK qn \in Nat : qn = q * n
  BY ProductOrder
<1>1. ~(q < b) /\ ~(b < q)
  <2>1. q < b => qn + n <= bn
    BY ProductOrder
  <2>2. b < q => bn + n <= qn
    BY ProductOrder
  <2>3. bn + t = qn + r
    OBVIOUS
  <2>. QED BY <2>1, <2>2, <2>3
<1>2. q = b
  BY <1>1
<1>. QED BY <1>2

-------------------------------------------------------------------------------
(* The blocks of fullIndices in their order.                                   *)

Rank(F, x) == Cardinality({b \in F : b < x})

LEMMA RankGrows ==
  ASSUME NEW F \in SUBSET Nat, IsFiniteSet(F), NEW x \in F, NEW y \in F, x < y
  PROVE  Rank(F, x) < Rank(F, y)
<1>1. /\ IsFiniteSet({b \in F : b < y}) /\ {b \in F : b < x} \subseteq {b \in F : b < y}
      /\ x \in {b \in F : b < y} /\ x \notin {b \in F : b < x}
  <2>1. \A b \in F : b < x => b < y
    OBVIOUS
  <2>2. {b \in F : b < y} \in SUBSET F
    OBVIOUS
  <2>3. IsFiniteSet({b \in F : b < y})
    BY <2>2, FS_Subset
  <2>4. ~(x < x)
    OBVIOUS
  <2>5. {b \in F : b < x} \subseteq {b \in F : b < y}
    BY <2>1
  <2>6. x \in {b \in F : b < y} /\ x \notin {b \in F : b < x}
    BY <2>4
  <2>. QED BY <2>3, <2>5, <2>6
<1>2. {b \in F : b < x} # {b \in F : b < y}
  BY <1>1
<1> DEFINE A == {b \in F : b < x}
           B == {b \in F : b < y}
<1>3. IsFiniteSet(B) /\ A \in SUBSET B /\ A # B
  BY <1>1, <1>2
<1> HIDE DEF A, B
<1>4. IsFiniteSet(A) /\ Cardinality(A) < Cardinality(B)
  <2>1. /\ IsFiniteSet(A) /\ Cardinality(A) <= Cardinality(B)
        /\ Cardinality(A) = Cardinality(B) => A = B
    BY <1>3, FS_Subset
  <2>2. Cardinality(A) \in Nat /\ Cardinality(B) \in Nat
    BY <1>3, <2>1, FS_CardinalityType
  <2>. QED BY <1>3, <2>1, <2>2
<1>. QED BY <1>4 DEF A, B, Rank

LEMMA GreatestOf ==
  ASSUME NEW k \in Nat, NEW F \in SUBSET (0 .. k), F # {}
  PROVE  \E x \in F : \A y \in F : y <= x
<1> DEFINE T == {n \in Nat : k - n \in F}
<1>1. PICK z \in F : TRUE
  OBVIOUS
<1>2. k - z \in T
  <2>1. k - z \in Nat /\ k - (k - z) = z
    OBVIOUS
  <2>. QED BY <2>1
<1>3. PICK n \in T : \A m \in T : n <= m
  BY <1>2, SmallestOf
<1>4. ASSUME NEW y \in F PROVE y <= k - n
  <2>1. k - y \in Nat /\ k - (k - y) = y
    OBVIOUS
  <2>2. n <= k - y
    BY <1>3, <2>1
  <2>. QED BY <2>2
<1>. QED BY <1>3, <1>4

\* A greatest member has all others before it.
LEMMA GreatestRank ==
  ASSUME NEW F \in SUBSET Nat, IsFiniteSet(F), NEW x \in F, \A y \in F : y <= x
  PROVE  Rank(F, x) = Cardinality(F) - 1
<1>1. {b \in F : b < x} = F \ {x}
  <2>1. \A b \in F : b < x <=> b # x
    OBVIOUS
  <2>. QED BY <2>1
<1>2. Cardinality(F \ {x}) = Cardinality(F) - 1
  BY FS_RemoveElement
<1>. QED BY <1>1, <1>2 DEF Rank

LEMMA EachRankIsThere ==
  ASSUME NEW k \in Nat, NEW F \in SUBSET (0 .. k), IsFiniteSet(F),
         NEW n \in 0 .. Cardinality(F) - 1
  PROVE  \E x \in F : Rank(F, x) = n
<1>1. F \in SUBSET Nat /\ Cardinality(F) \in Nat
  BY FS_CardinalityType
<1>2. F # {}
  BY <1>1, FS_EmptySet
<1>3. \A x \in F : Rank(F, x) \in Nat
  BY FS_Subset, FS_CardinalityType DEF Rank
<1> DEFINE late == {x \in F : n <= Rank(F, x)}
<1>4. late # {}
  <2>1. PICK m \in F : \A y \in F : y <= m
    BY <1>2, GreatestOf
  <2>2. Rank(F, m) = Cardinality(F) - 1
    BY <1>1, <2>1, GreatestRank
  <2>. QED BY <1>1, <2>2
<1>5. PICK x \in late : \A y \in late : x <= y
  BY <1>1, <1>4, SmallestOf
<1>6. ASSUME n < Rank(F, x) PROVE FALSE
  <2> DEFINE P == {b \in F : b < x}
  <2>1. IsFiniteSet(P) /\ P \in SUBSET (0 .. k) /\ P \in SUBSET Nat
    BY <1>1, FS_Subset
  <2>2. P # {}
    BY <1>1, <1>6, FS_EmptySet DEF Rank
  <2>3. PICK y \in P : \A z \in P : z <= y
    BY <2>1, <2>2, GreatestOf
  <2>4. Rank(P, y) = Cardinality(P) - 1
    BY <2>1, <2>3, GreatestRank
  <2>5. {b \in P : b < y} = {b \in F : b < y}
    <3>1. \A b \in F : b < y => b < x
      BY <1>1
    <3>. QED BY <3>1
  <2>6. Rank(F, y) = Rank(F, x) - 1
    BY <2>4, <2>5 DEF Rank
  <2>7. y \in F /\ y < x /\ Rank(F, x) \in Nat
    BY <1>3
  <2>8. y \in late
    BY <1>6, <2>6, <2>7
  <2>. QED BY <1>1, <1>5, <2>7, <2>8
<1>7. Rank(F, x) = n
  BY <1>3, <1>5, <1>6
<1>. QED BY <1>7

-------------------------------------------------------------------------------
(* The plan of the indices.                                                    *)

LEMMA UploadSizes ==
  /\ UploadBlockSize \in Nat \ {0}
  /\ SectorsPerBlock = UploadsPerBlock * UploadBlockSize
  /\ SectorsPerBlock \in Nat \ {0} /\ UploadsPerBlock \in Nat \ {0}
<1> PICK s, u \in Nat \ {0} : s = SectorsPerBlock /\ u = UploadsPerBlock /\ s % u = 0
  BY Parameters
<1> PICK w \in Nat : w = s \div u /\ s = w * u + (s % u)
  BY Division
<1>1. UploadBlockSize = w
  BY DEF UploadBlockSize
<1>2. w * u \in Nat /\ w * u = u * w
  BY Z3
<1>3. s = u * w
  BY <1>2
<1>4. w # 0
  <2>1. u * 0 = 0
    OBVIOUS
  <2>. QED BY <1>3, <2>1
<1>. QED BY <1>1, <1>3, <1>4

LEMMA Distributes ==
  ASSUME NEW q \in Int, NEW n \in Int, NEW r \in Int, NEW u \in Int
  PROVE  (q * n + r) * u = q * (n * u) + r * u
<1>1. (q * n + r) * u = (q * n) * u + r * u
  BY Z3
<1>2. (q * n) * u = q * (n * u)
  BY Z3
<1>. QED BY <1>1, <1>2

\* An index of the upload is a part of a block.
LEMMA IndexParts ==
  ASSUME NEW index \in Nat
  PROVE  LET q == index \div UploadsPerBlock
             r == index % UploadsPerBlock
             u == UploadBlockSize
         IN /\ q \in Nat /\ r \in 0 .. UploadsPerBlock - 1
            /\ index = q * UploadsPerBlock + r
            /\ r * u \in Nat /\ r * u + u <= SectorsPerBlock
            /\ index * u = q * SectorsPerBlock + r * u
<1> PICK u, n \in Nat \ {0} : /\ u = UploadBlockSize /\ n = UploadsPerBlock
                              /\ SectorsPerBlock = n * u
  BY UploadSizes
<1> PICK q \in Nat, r \in 0 .. n - 1 :
      q = index \div n /\ r = index % n /\ index = q * n + r
  BY Division
<1>1. r \in Nat /\ r < n
  OBVIOUS
<1>2. r * u \in Nat /\ r * u + u <= n * u
  BY <1>1, ProductOrder
<1>3. q \in Int /\ n \in Int /\ r \in Int /\ u \in Int
  OBVIOUS
<1>4. (q * n + r) * u = q * (n * u) + r * u
  <2>1. \A a, b, c, d \in Int : (a * b + c) * d = a * (b * d) + c * d
    BY Distributes
  <2>. QED BY ONLY <1>3, <2>1
<1>. QED BY <1>2, <1>4

\* fullIndices
FullBlocks(c) == FullIndices(c, 1)

LEMMA FullFacts ==
  ASSUME NEW c \in Chains
  PROVE  /\ FullBlocks(c) \in SUBSET (0 .. BlockCount - 1) /\ FullBlocks(c) \in SUBSET Nat
         /\ IsFiniteSet(FullBlocks(c)) /\ Cardinality(FullBlocks(c)) \in Nat
<1>1. ASSUME NEW level \in 1 .. Depth
      PROVE  Indices(c, level) \in SUBSET (0 .. BlockCount - 1)
  <2>1. c.bitmap[level] \in UNION {[bat -> SUBSET SectorsInBlock] :
                                     bat \in SUBSET VhdBlocks}
    BY DEF Chains, Levels
  <2>2. PICK bat \in SUBSET VhdBlocks :
          c.bitmap[level] \in [bat -> SUBSET SectorsInBlock]
    BY <2>1
  <2>. QED BY <2>2 DEF Indices, VhdBlocks
<1>2. FullBlocks(c) \in SUBSET (0 .. BlockCount - 1)
  BY <1>1 DEF FullBlocks, FullIndices
<1>3. IsFiniteSet(0 .. BlockCount - 1)
  BY FS_Interval, Parameters
<1>4. IsFiniteSet(FullBlocks(c)) /\ Cardinality(FullBlocks(c)) \in Nat
  BY <1>2, <1>3, FS_Subset, FS_CardinalityType
<1>5. 0 .. BlockCount - 1 \subseteq Nat
  BY Parameters
<1>. QED BY <1>2, <1>4, <1>5

\* fullIndices[n] is the block that has n others before it.
LEMMA NthIndexFacts ==
  ASSUME NEW c \in Chains,
         NEW n \in 0 .. Cardinality(FullBlocks(c)) - 1
  PROVE  /\ NthIndex(c, n) \in FullBlocks(c)
         /\ Rank(FullBlocks(c), NthIndex(c, n)) = n
<1>1. BlockCount - 1 \in Nat
  BY Parameters
<1>2. \E x \in FullBlocks(c) : Rank(FullBlocks(c), x) = n
  BY <1>1, FullFacts, EachRankIsThere
<1>3. NthIndex(c, n) = CHOOSE x \in FullBlocks(c) : Rank(FullBlocks(c), x) = n
  BY Zenon DEF NthIndex, FullBlocks, Rank
<1>. QED BY <1>2, <1>3

LEMMA RankIsUnique ==
  ASSUME NEW c \in Chains,
         NEW x \in FullBlocks(c), NEW y \in FullBlocks(c),
         Rank(FullBlocks(c), x) = Rank(FullBlocks(c), y)
  PROVE  x = y
<1>1. x \in Nat /\ y \in Nat
  BY FullFacts
<1>2. \A z \in FullBlocks(c) : Rank(FullBlocks(c), z) \in Nat
  BY FullFacts, FS_Subset, FS_CardinalityType DEF Rank
<1>3. ~(x < y) /\ ~(y < x)
  BY <1>2, FullFacts, RankGrows
<1>. QED BY <1>1, <1>3

\* A block's rank is one of the places of fullIndices.
LEMMA RankIsPlace ==
  ASSUME NEW c \in Chains, NEW x \in FullBlocks(c)
  PROVE  LET n == Rank(FullBlocks(c), x)
         IN n \in 0 .. Cardinality(FullBlocks(c)) - 1 /\ NthIndex(c, n) = x
<1> DEFINE F == FullBlocks(c)
           before == {b \in F : b < x}
<1>1. before \in SUBSET (F \ {x})
  BY FullFacts
<1>2. IsFiniteSet(F \ {x}) /\ Cardinality(F \ {x}) = Cardinality(F) - 1
  BY FullFacts, FS_RemoveElement
<1>3. /\ IsFiniteSet(before) /\ Cardinality(before) <= Cardinality(F \ {x})
      /\ Cardinality(before) \in Nat
  BY <1>1, <1>2, FS_Subset, FS_CardinalityType
<1> PICK n : n = Rank(F, x)
  OBVIOUS
<1>4. n \in 0 .. Cardinality(F) - 1
  BY <1>2, <1>3, FullFacts DEF Rank
<1>5. NthIndex(c, n) = x
  BY <1>4, NthIndexFacts, RankIsUnique
<1>. QED BY <1>4, <1>5
\* The same, to be instantiated by Zenon, which leaves products alone.
LEMMA PositionOf ==
  \A n \in Nat \ {0}, b \in Nat : \A t \in 0 .. n - 1 :
    (b * n + t) \div n = b /\ (b * n + t) % n = t
BY PositionIs

\* A number of indices for each of the blocks.
LEMMA MaxIndexIs ==
  ASSUME NEW c \in Chains, HasFullIndices(c)
  PROVE  MaxIndex(c) = Cardinality(FullBlocks(c)) * UploadsPerBlock - 1
<1> PICK u, n \in Nat \ {0} : /\ u = UploadBlockSize /\ n = UploadsPerBlock
                              /\ SectorsPerBlock = n * u
  BY UploadSizes
<1> PICK k \in Nat : k = Cardinality(FullBlocks(c))
  BY FullFacts
<1>1. UploadSize(c) = k * (n * u)
  BY DEF UploadSize, FullBlocks
<1>2. k * (n * u) = (k * n) * u
  BY Z3
<1> PICK kn \in Nat : kn = k * n
  BY ProductOrder
<1> PICK size \in Nat : size = kn * u
  BY ProductOrder
<1>3. (size + (u - 1)) \div u = kn
  <2>1. u - 1 \in 0 .. u - 1
    OBVIOUS
  <2>. QED BY <2>1, PositionIs
<1>4. size + u - 1 = size + (u - 1)
  OBVIOUS
<1>5. UploadSize(c) = size
  BY <1>1, <1>2
<1>. QED BY <1>3, <1>4, <1>5 DEF MaxIndex, Ceiling

\* What an index sends: a part of one of the blocks.
LEMMA SentParts ==
  ASSUME NEW c \in Chains, HasFullIndices(c),
         NEW index \in 0 .. MaxIndex(c)
  PROVE  LET q == index \div UploadsPerBlock
             r == index % UploadsPerBlock
             u == UploadBlockSize
             from == NthIndex(c, q) * SectorsPerBlock + r * u
         IN /\ q \in 0 .. Cardinality(FullBlocks(c)) - 1 /\ r \in 0 .. UploadsPerBlock - 1
            /\ index = q * UploadsPerBlock + r
            /\ r * u \in Nat /\ r * u + u <= SectorsPerBlock
            /\ NthIndex(c, q) \in 0 .. BlockCount - 1
            /\ Rank(FullBlocks(c), NthIndex(c, q)) = q
            /\ PosOut(c, index) = from
            /\ Sent(c, index) = from .. from + u - 1
<1> PICK k \in Nat : k = Cardinality(FullBlocks(c))
  BY FullFacts
<1> PICK n, u \in Nat \ {0} : n = UploadsPerBlock /\ u = UploadBlockSize
  BY UploadSizes
<1> PICK kn \in Nat : kn = k * n
  BY ProductOrder
<1>1. index \in Nat /\ index < kn
  BY MaxIndexIs
<1> PICK q \in Nat : q = index \div n
  BY <1>1, Division
<1> PICK r \in 0 .. n - 1 : r = index % n
  BY <1>1, Division
<1>2. /\ index = q * n + r
      /\ r * u \in Nat /\ r * u + u <= SectorsPerBlock
  BY <1>1, IndexParts
<1> PICK qn \in Nat : qn = q * n
  BY ProductOrder
<1>3. q < k
  <2>1. k <= q => kn <= qn
    BY ProductOrder
  <2>2. index = qn + r
    BY <1>2
  <2>. QED BY <1>1, <2>1, <2>2
<1>4. q \in 0 .. k - 1
  BY <1>3
<1>5. /\ NthIndex(c, q) \in FullBlocks(c)
      /\ Rank(FullBlocks(c), NthIndex(c, q)) = q
  BY <1>4, NthIndexFacts
<1>6. NthIndex(c, q) \in 0 .. BlockCount - 1
  BY <1>5, FullFacts
<1>7. PosOut(c, index) = NthIndex(c, q) * SectorsPerBlock + r * u
  BY DEF PosOut
<1>8. Sent(c, index) = PosOut(c, index) .. PosOut(c, index) + u - 1
  BY DEF Sent
<1>. QED BY <1>2, <1>4, <1>5, <1>6, <1>7, <1>8

\* The place of what an index sends, in the block and in the disk.
LEMMA SentPlace ==
  ASSUME NEW c \in Chains, HasFullIndices(c),
         NEW index \in 0 .. MaxIndex(c), NEW p \in Sent(c, index)
  PROVE  /\ p \in 0 .. DiskSize - 1
         /\ Rank(FullBlocks(c), p \div SectorsPerBlock) = index \div UploadsPerBlock
         /\ (p % SectorsPerBlock) \div UploadBlockSize = index % UploadsPerBlock
<1> PICK n, u, s \in Nat \ {0} : n = UploadsPerBlock /\ u = UploadBlockSize
                                 /\ s = SectorsPerBlock
  BY UploadSizes
<1> PICK q, r : q = index \div n /\ r = index % n
  OBVIOUS
<1> PICK b : b = NthIndex(c, q)
  OBVIOUS
<1>1. /\ r \in 0 .. n - 1
      /\ r * u \in Nat /\ r * u + u <= s
      /\ b \in 0 .. BlockCount - 1 /\ Rank(FullBlocks(c), b) = q
      /\ p \in b * s + r * u .. b * s + r * u + u - 1
  BY SentParts
<1>2. b \in Nat /\ BlockCount \in Nat /\ b < BlockCount /\ r \in Nat
  BY <1>1, Parameters
<1> PICK ru, bs, disk \in Nat : ru = r * u /\ bs = b * s /\ disk = BlockCount * s
  BY <1>2, ProductOrder
<1>3. bs + s <= disk
  BY <1>2, ProductOrder
<1>4. p \in bs + ru .. bs + ru + u - 1 /\ ru + u <= s
  BY <1>1
<1>5. DiskSize = disk
  BY DEF DiskSize
<1> PICK t \in 0 .. s - 1, v \in 0 .. u - 1 : t = ru + v /\ p = bs + t
  <2>1. /\ p - bs \in 0 .. s - 1 /\ p - bs - ru \in 0 .. u - 1
        /\ p - bs = ru + (p - bs - ru) /\ p = bs + (p - bs)
    BY <1>4
  <2>. QED BY <2>1
<1>6. p \div s = b /\ p % s = t
  <2>1. (b * s + t) \div s = b /\ (b * s + t) % s = t
    <3>1. s \in Nat \ {0} /\ b \in Nat /\ t \in 0 .. s - 1
      BY <1>2
    <3>. QED BY ONLY <3>1, PositionOf, Zenon
  <2>2. p = b * s + t
    OBVIOUS
  <2>. QED BY <2>1, <2>2, Zenon
<1>7. t \div u = r
  <2>1. (r * u + v) \div u = r
    BY <1>2, PositionIs
  <2>. QED BY <2>1
<1>8. p \in 0 .. disk - 1
  BY <1>3
<1>. QED BY <1>1, <1>5, <1>6, <1>7, <1>8

\* The block of a sector that is not zero is one of fullIndices.
LEMMA DataIsListed ==
  ASSUME NEW c \in ChainSpace, HasFullIndices(c), NEW b, NEW sector,
         Content(c, b, sector) # Zero
  PROVE  b \in FullBlocks(c)
<1>1. b \in Indices(c, 1) \/ IsInParent(c, 1, b)
  BY NoDataIsZero
<1>2. CASE b \in Indices(c, 1)
  <2>1. 1 \in 1 .. Depth
    BY Parameters
  <2>. QED BY <1>2, <2>1 DEF FullBlocks, FullIndices
<1>3. CASE IsInParent(c, 1, b)
  <2>1. b \in FullIndices(c, 1 + 1)
    BY <1>3 DEF IsInParent
  <2>2. 1 + 1 .. Depth \subseteq 1 .. Depth
    BY Parameters
  <2>. QED BY <2>1, <2>2 DEF FullBlocks, FullIndices
<1>. QED BY <1>1, <1>2, <1>3

LEMMA SectorIsSent ==
  ASSUME NEW c \in Chains, HasFullIndices(c), NEW p \in Nat,
         p \div SectorsPerBlock \in FullBlocks(c)
  PROVE  \E index \in 0 .. MaxIndex(c) : p \in Sent(c, index)
<1> PICK n, u, s \in Nat \ {0} : n = UploadsPerBlock /\ u = UploadBlockSize
                                 /\ s = SectorsPerBlock /\ s = n * u
  BY UploadSizes
<1> PICK b \in Nat, t \in 0 .. s - 1 : b = p \div s /\ t = p % s /\ p = b * s + t
  <2>1. p \div s \in Nat /\ p % s \in 0 .. s - 1 /\ p = (p \div s) * s + (p % s)
    BY Division
  <2>. QED BY ONLY <2>1
<1>1. t \in Nat
  OBVIOUS
<1> PICK r \in Nat, v \in 0 .. u - 1 : r = t \div u /\ t = r * u + v
  <2>1. t \div u \in Nat /\ t % u \in 0 .. u - 1 /\ t = (t \div u) * u + (t % u)
    BY <1>1, Division
  <2>. QED BY ONLY <2>1
<1> PICK ru, bs \in Nat : ru = r * u /\ bs = b * s
  BY ProductOrder
<1>2. r < n
  <2>1. n <= r => n * u <= ru
    BY ProductOrder
  <2>2. ru <= t /\ t < s
    OBVIOUS
  <2>. QED BY <2>1, <2>2
<1>3. r \in 0 .. n - 1
  BY <1>2
<1> PICK k \in Nat : k = Cardinality(FullBlocks(c))
  BY FullFacts
<1> PICK q \in 0 .. k - 1 : q = Rank(FullBlocks(c), b) /\ NthIndex(c, q) = b
  BY RankIsPlace
<1>4. q \in Nat /\ q < k
  OBVIOUS
<1> PICK qn, kn \in Nat : qn = q * n /\ kn = k * n
  BY <1>4, ProductOrder
<1>5. qn + n <= kn
  BY <1>4, ProductOrder
<1> PICK index \in 0 .. kn - 1 : index = qn + r
  BY <1>3, <1>5
<1>6. index \div n = q /\ index % n = r
  <2>1. (q * n + r) \div n = q /\ (q * n + r) % n = r
    <3>1. n \in Nat \ {0} /\ q \in Nat /\ r \in 0 .. n - 1
      BY <1>3, <1>4
    <3>. QED BY ONLY <3>1, PositionOf, Zenon
  <2>2. index = q * n + r
    OBVIOUS
  <2>. QED BY <2>1, <2>2, Zenon
<1>7. index \in 0 .. MaxIndex(c)
  BY MaxIndexIs
<1>8. Sent(c, index) = bs + ru .. bs + ru + u - 1
  <2>1. Sent(c, index) =
          NthIndex(c, index \div n) * s + (index % n) * u
            .. NthIndex(c, index \div n) * s + (index % n) * u + u - 1
    <3>1. Sent(c, index) =
            NthIndex(c, index \div UploadsPerBlock) * SectorsPerBlock
                + (index % UploadsPerBlock) * UploadBlockSize
              .. NthIndex(c, index \div UploadsPerBlock) * SectorsPerBlock
                   + (index % UploadsPerBlock) * UploadBlockSize + UploadBlockSize - 1
      BY ONLY <1>7, c \in Chains, HasFullIndices(c), SentParts, Zenon
    <3>2. n = UploadsPerBlock /\ u = UploadBlockSize /\ s = SectorsPerBlock
      OBVIOUS
    <3>. QED BY ONLY <3>1, <3>2, Zenon
  <2>2. NthIndex(c, q) = b /\ bs = b * s /\ ru = r * u
    OBVIOUS
  <2>. QED BY ONLY <1>6, <2>1, <2>2, Zenon
<1>9. p \in bs + ru .. bs + ru + u - 1
  <2>1. p = b * s + t /\ bs = b * s /\ t = r * u + v /\ ru = r * u
    OBVIOUS
  <2>2. p = bs + t /\ t = ru + v
    BY ONLY <2>1, Zenon
  <2>3. v \in 0 .. u - 1 /\ u \in Nat \ {0} /\ bs \in Nat /\ ru \in Nat
    OBVIOUS
  <2>. QED BY ONLY <2>2, <2>3
<1>. QED BY <1>7, <1>8, <1>9

LEMMA DataIsSent ==
  ASSUME chain \in ChainSpace
  PROVE  AllDataIsSent
<1> SUFFICES ASSUME HasFullIndices(chain)
             PROVE  /\ \A p \in 0 .. DiskSize - 1 :
                         Wanted(p) # Zero
                           => \E index \in 0 .. MaxIndex(chain) : p \in Sent(chain, index)
                    /\ \A i, j \in 0 .. MaxIndex(chain) :
                         /\ Sent(chain, i) \subseteq 0 .. DiskSize - 1
                         /\ i # j => Sent(chain, i) \cap Sent(chain, j) = {}
  BY DEF AllDataIsSent
<1>1. chain \in Chains
  BY Parameters
<1>2. ASSUME NEW p \in 0 .. DiskSize - 1, Wanted(p) # Zero
      PROVE  \E index \in 0 .. MaxIndex(chain) : p \in Sent(chain, index)
  <2>1. p \in Nat /\ p < DiskSize
    BY Parameters DEF DiskSize
  <2>2. Content(chain, p \div SectorsPerBlock, p % SectorsPerBlock) # Zero
    BY <1>2, <2>1 DEF Wanted
  <2>3. p \div SectorsPerBlock \in FullBlocks(chain)
    BY <2>2, DataIsListed
  <2>. QED BY <1>1, <2>1, <2>3, SectorIsSent
<1>3. ASSUME NEW i \in 0 .. MaxIndex(chain), NEW j \in 0 .. MaxIndex(chain), i # j
      PROVE  Sent(chain, i) \cap Sent(chain, j) = {}
  <2> SUFFICES ASSUME NEW p \in Sent(chain, i), p \in Sent(chain, j) PROVE FALSE
    OBVIOUS
  <2>1. /\ i \div UploadsPerBlock = j \div UploadsPerBlock
        /\ i % UploadsPerBlock = j % UploadsPerBlock
    <3>1. /\ Rank(FullBlocks(chain), p \div SectorsPerBlock) = i \div UploadsPerBlock
          /\ (p % SectorsPerBlock) \div UploadBlockSize = i % UploadsPerBlock
      BY <1>1, SentPlace
    <3>2. /\ Rank(FullBlocks(chain), p \div SectorsPerBlock) = j \div UploadsPerBlock
          /\ (p % SectorsPerBlock) \div UploadBlockSize = j % UploadsPerBlock
      BY <1>1, SentPlace
    <3>. QED BY <3>1, <3>2, Zenon
  <2>2. /\ i = (i \div UploadsPerBlock) * UploadsPerBlock + (i % UploadsPerBlock)
        /\ j = (j \div UploadsPerBlock) * UploadsPerBlock + (j % UploadsPerBlock)
    BY <1>1, SentParts
  <2>. QED BY <1>3, <2>1, <2>2, Zenon
<1>4. ASSUME NEW i \in 0 .. MaxIndex(chain)
      PROVE  Sent(chain, i) \subseteq 0 .. DiskSize - 1
  BY <1>1, SentPlace
<1>. QED BY <1>2, <1>3, <1>4
-------------------------------------------------------------------------------
(* The stream.                                                                 *)

\* The virtual disk's data at a position.
DataAt(c, p) == Content(c, p \div SectorsPerBlock, p % SectorsPerBlock)

WantedOf(c, p) == IF p < DiskSize THEN DataAt(c, p) ELSE FooterData

\* A sequence is what is wanted of the positions from one to before another.
IsWanted(c, from, upTo, seq) ==
  /\ seq \in Seq(Int) /\ Len(seq) = upTo - from
  /\ \A k \in 1 .. Len(seq) : seq[k] = WantedOf(c, from + k - 1)

\* Nothing but zeroes is at the positions passed over.
OnlyZeroes(c, from, upTo, last) ==
  \A p \in Nat :
    from <= p /\ p < upTo /\ p <= last /\ p < DiskSize => DataAt(c, p) = Zero

RequestIsInside ==
  /\ chain \in ChainSpace
  /\ currentSize = DiskSize
  /\ start \in Nat /\ end \in Nat /\ start <= end /\ end <= DiskSize
  /\ block \in Nat /\ block <= BlockCount
  /\ within \in 0 .. SectorsPerBlock - 1
  /\ within # 0 => end < (block + 1) * SectorsPerBlock

Emitted ==
  /\ pos \in Nat /\ start <= pos /\ pos <= end + 1 /\ pos <= DiskSize
  /\ IsWanted(chain, start, IF phase = "ended" THEN end + 1 ELSE pos, emitted)

\* What the open file has still to deliver, from lo on.
IsLeft(lo) ==
  /\ lo \in Nat
  /\ within = 0 /\ block # 0
  /\ (block - 1) * SectorsPerBlock <= lo /\ lo < block * SectorsPerBlock /\ lo <= end
  /\ file = {p \in lo .. block * SectorsPerBlock - 1 : p <= end}
  /\ pos <= lo /\ OnlyZeroes(chain, pos, lo, end)

ReadInv ==
  /\ RequestIsInside
  /\ Emitted
  /\ phase \in {"next", "reading", "ended", "failed"}
  /\ phase = "next" =>
       /\ file = {}
       /\ pos <= block * SectorsPerBlock + within
       /\ OnlyZeroes(chain, pos, block * SectorsPerBlock + within, end)
  /\ phase = "reading" => \E lo \in Nat : IsLeft(lo)

\* The disk has whole blocks, as those that Hyper-V makes have.
WholeDisk == CurrentSizes = {DiskSize}

LEMMA DataType ==
  ASSUME NEW c, NEW b, NEW sector
  PROVE  Content(c, b, sector) \in Int
<1>1. HoldersFrom(c, b, sector, 1) = Holders(c, b, sector)
  BY Parameters DEF HoldersFrom, Holders, Levels
<1>2. Content(c, b, sector) = ContentFrom(c, b, sector, 1)
  <2>1. ContentFrom(c, b, sector, 1) = FirstOf(Holders(c, b, sector))
    BY <1>1 DEF ContentFrom
  <2>. QED BY <2>1 DEF Content, FirstOf
<1>3. CASE Holders(c, b, sector) = {}
  BY <1>3 DEF Content, Zero
<1>4. CASE Holders(c, b, sector) # {}
  <2>1. 1 \in Nat
    OBVIOUS
  <2>2. ContentFrom(c, b, sector, 1) \in HoldersFrom(c, b, sector, 1)
    BY <1>1, <1>4, <2>1, FirstHolder
  <2>3. HoldersFrom(c, b, sector, 1) \subseteq Int
    BY Parameters DEF HoldersFrom, Holders, Levels
  <2>. QED BY <1>2, <2>2, <2>3
<1>. QED BY <1>3, <1>4

LEMMA MaxIndexType ==
  ASSUME NEW c \in Chains
  PROVE  MaxIndex(c) \in Int
<1> PICK u, s \in Nat \ {0} : u = UploadBlockSize /\ s = SectorsPerBlock
  BY UploadSizes
<1> PICK k \in Nat : k = Cardinality(FullBlocks(c))
  BY FullFacts
<1>1. IsFiniteSet(Indices(c, 1))
  <2>1. 1 \in 1 .. Depth
    BY Parameters
  <2>2. Indices(c, 1) \subseteq FullBlocks(c)
    BY <2>1 DEF FullBlocks, FullIndices
  <2>. QED BY <2>2, FullFacts, FS_Subset
<1> PICK i \in Nat : i = Cardinality(Indices(c, 1))
  BY <1>1, FS_CardinalityType
<1>2. k * s \in Nat
  BY ProductOrder
<1>3. i * (1 + s) \in Nat
  <2>1. 1 + s \in Nat \ {0}
    OBVIOUS
  <2>. QED BY <2>1, ProductOrder
<1>4. UploadSize(c) \in Nat
  <2> PICK is \in Nat : is = i * (1 + s)
    BY <1>3
  <2>1. FileSize(c) = HeaderSectors + is + 1
    BY DEF FileSize
  <2>2. HeaderSectors \in Nat
    BY Parameters
  <2>3. FileSize(c) - 1 \in Nat
    BY <2>1, <2>2
  <2>. QED BY <1>2, <2>3 DEF UploadSize, FullBlocks
<1>5. (UploadSize(c) + u - 1) \div u \in Nat
  <2>1. UploadSize(c) + u - 1 \in Nat
    BY <1>4
  <2>. QED BY <2>1, Division
<1>. QED BY <1>5 DEF MaxIndex, Ceiling

LEMMA DiskFacts ==
  /\ DiskSize = BlockCount * SectorsPerBlock /\ DiskSize \in Nat \ {0}
  /\ SectorsPerBlock \in Nat \ {0} /\ BlockCount \in Nat \ {0}
<1> PICK n, s \in Nat \ {0} : n = BlockCount /\ s = SectorsPerBlock
  BY Parameters
<1>1. n * s \in Nat /\ (0 < n => 0 * s + s <= n * s) /\ 0 * s \in Nat
  BY ProductOrder
<1> PICK ns, zs \in Nat : ns = n * s /\ zs = 0 * s
  BY <1>1
<1>2. ns # 0
  BY <1>1
<1>. QED BY <1>2 DEF DiskSize

\* One block of the upload lies in one block of the disk.
LEMMA RequestFacts ==
  ASSUME WholeDisk, ReadInit
  PROVE  RequestIsInside /\ start < DiskSize
<1> PICK s, d \in Nat \ {0} : s = SectorsPerBlock /\ d = DiskSize /\ d = BlockCount * s
  BY DiskFacts
<1>1. chain \in ChainSpace /\ chain \in Chains /\ currentSize = d
  BY Parameters DEF ReadInit, WholeDisk
<1>2. block = start \div s /\ within = start % s
  BY DEF ReadInit
<1>3. CASE start = 0 /\ end = currentSize
  <2>1. 0 \div s = 0 /\ 0 % s = 0
    <3>1. /\ 0 \div s \in Nat /\ 0 % s \in 0 .. s - 1 /\ 0 = (0 \div s) * s + (0 % s)
      BY Division
    <3> PICK q \in Nat, r \in 0 .. s - 1 : q = 0 \div s /\ r = 0 % s /\ 0 = q * s + r
      BY <3>1
    <3> PICK qs \in Nat : qs = q * s
      BY ProductOrder
    <3>2. q # 0 => 0 * s + s <= qs
      BY ProductOrder
    <3>3. 0 * s \in Nat
      BY ProductOrder
    <3>. QED BY <3>2, <3>3
  <2>. QED BY <1>1, <1>2, <1>3, <2>1, DiskFacts DEF RequestIsInside
<1>4. ASSUME NEW index \in 0 .. MaxIndex(chain),
             Sent(chain, index) \subseteq 0 .. DiskSize - 1,
             start = PosOut(chain, index), end = start + UploadBlockSize - 1
      PROVE  RequestIsInside /\ start < DiskSize
  <2> PICK u \in Nat \ {0} : u = UploadBlockSize
    BY UploadSizes
  <2>1. index \in Nat
    BY <1>1, MaxIndexType
  <2>2. PICK b \in Nat, t \in Nat : start = b * s + t /\ t + u <= s
    <3>1. /\ index \div UploadsPerBlock \in Nat
          /\ (index % UploadsPerBlock) * u \in Nat
          /\ (index % UploadsPerBlock) * u + u <= s
          /\ index * u = (index \div UploadsPerBlock) * s + (index % UploadsPerBlock) * u
      BY <2>1, IndexParts
    <3>2. CASE HasFullIndices(chain)
      <4>1. /\ NthIndex(chain, index \div UploadsPerBlock) \in 0 .. BlockCount - 1
            /\ start = NthIndex(chain, index \div UploadsPerBlock) * s
                         + (index % UploadsPerBlock) * u
        BY <1>1, <1>4, <3>2, SentParts
      <4>2. NthIndex(chain, index \div UploadsPerBlock) \in Nat
        BY <4>1, DiskFacts
      <4>. QED BY <3>1, <4>1, <4>2
    <3>3. CASE ~HasFullIndices(chain)
      <4>1. start = index * u
        BY <1>4, <3>3 DEF PosOut
      <4>. QED BY <3>1, <4>1
    <3>. QED BY <3>2, <3>3
  <2> PICK bs, ns \in Nat : bs = b * s /\ ns = (b + 1) * s /\ ns = bs + s
    BY ProductOrder
  <2>3. t \in 0 .. s - 1 /\ start = bs + t
    BY <2>2
  <2>4. block = b /\ within = t
    <3>1. s \in Nat \ {0} /\ b \in Nat /\ t \in 0 .. s - 1
      BY <2>3
    <3>2. (b * s + t) \div s = b /\ (b * s + t) % s = t
      BY ONLY <3>1, PositionOf, Zenon
    <3>. QED BY <1>2, <2>2, <3>2, Zenon
  <2>5. start \in Nat /\ end \in Nat /\ start <= end /\ end < (b + 1) * s
    BY <1>4, <2>2, <2>3
  <2>6. end < d /\ start < d
    <3>1. start \in start .. end /\ end \in start .. end
      BY <2>5
    <3>2. Sent(chain, index) = start .. end
      BY <1>4 DEF Sent
    <3>3. start \in 0 .. d - 1 /\ end \in 0 .. d - 1
      BY <1>4, <3>1, <3>2
    <3>. QED BY <3>3
  <2>7. b <= BlockCount
    <3> PICK n \in Nat : n = BlockCount /\ d = n * s
      BY DiskFacts
    <3>1. n < b => n * s + s <= bs
      BY ProductOrder
    <3>. QED BY <2>3, <2>6, <3>1
  <2>. QED BY <1>1, <2>3, <2>4, <2>5, <2>6, <2>7 DEF RequestIsInside
<1>. QED BY <1>3, <1>4 DEF ReadInit

LEMMA InitReadInv ==
  ASSUME WholeDisk, ReadInit
  PROVE  ReadInv
<1>1. RequestIsInside /\ start < DiskSize
  BY RequestFacts
<1>2. /\ file = {} /\ pos = start /\ emitted = <<>> /\ phase = "next"
      /\ block = start \div SectorsPerBlock /\ within = start % SectorsPerBlock
  BY DEF ReadInit
<1> PICK s, d \in Nat \ {0} : s = SectorsPerBlock /\ d = DiskSize
  BY DiskFacts
<1>3. start \in Nat /\ end \in Nat /\ start <= end /\ start < d
  BY <1>1 DEF RequestIsInside
<1>4. block * s + within = start
  <2>1. start = (start \div s) * s + (start % s)
    BY <1>3, Division
  <2>. QED BY <1>2, <2>1
<1>5. Emitted
  <2>1. IsWanted(chain, start, start, emitted)
    BY <1>2, <1>3 DEF IsWanted
  <2>. QED BY <1>2, <1>3, <2>1 DEF Emitted
<1>6. /\ file = {} /\ pos <= block * s + within
      /\ OnlyZeroes(chain, pos, block * s + within, end)
  BY <1>2, <1>3, <1>4 DEF OnlyZeroes
<1>. QED BY <1>1, <1>2, <1>5, <1>6 DEF ReadInv
LEMMA Continues ==
  ASSUME NEW c, NEW from \in Nat, NEW at \in Nat, NEW upTo \in Nat, NEW seq, NEW more,
         IsWanted(c, from, at, seq), IsWanted(c, at, upTo, more)
  PROVE  IsWanted(c, from, upTo, seq \o more)
<1>1. /\ seq \in Seq(Int) /\ more \in Seq(Int)
      /\ Len(seq) = at - from /\ Len(more) = upTo - at
      /\ Len(seq) \in Nat /\ Len(more) \in Nat
  BY DEF IsWanted
<1>2. /\ seq \o more \in Seq(Int) /\ Len(seq \o more) = upTo - from
      /\ Len(seq \o more) = Len(seq) + Len(more)
  BY <1>1
<1>3. ASSUME NEW k \in 1 .. Len(seq \o more)
      PROVE  (seq \o more)[k] = WantedOf(c, from + k - 1)
  <2>1. CASE k <= Len(seq)
    <3>1. k \in 1 .. Len(seq)
      BY <1>1, <1>2, <2>1
    <3>2. (seq \o more)[k] = seq[k]
      BY <1>1, <3>1
    <3>. QED BY <3>1, <3>2 DEF IsWanted
  <2>2. CASE ~(k <= Len(seq))
    <3>1. k - Len(seq) \in 1 .. Len(more) /\ at + (k - Len(seq)) - 1 = from + k - 1
      BY <1>1, <1>2, <2>2
    <3>2. (seq \o more)[k] = more[k - Len(seq)]
      BY <1>1, <1>2, <2>2
    <3>. QED BY <3>1, <3>2 DEF IsWanted
  <2>. QED BY <2>1, <2>2
<1>. QED BY <1>2, <1>3 DEF IsWanted

LEMMA ZeroesAreWanted ==
  ASSUME NEW c, NEW at \in Nat, NEW upTo \in Nat,
         at <= upTo, upTo <= DiskSize,
         NEW last \in Nat, upTo <= last + 1, OnlyZeroes(c, at, upTo, last)
  PROVE  IsWanted(c, at, upTo, Zeroes(upTo - at))
<1> PICK n \in Nat : n = upTo - at
  OBVIOUS
<1> PICK d \in Nat : d = DiskSize
  BY DiskFacts
<1> PICK z : z = Zeroes(n)
  OBVIOUS
<1>1. z = [k \in 1 .. n |-> 0]
  BY DEF Zeroes, Zero
<1>2. z \in Seq(Int) /\ Len(z) = n /\ \A k \in 1 .. n : z[k] = 0
  BY <1>1
<1>3. ASSUME NEW k \in 1 .. n PROVE WantedOf(c, at + k - 1) = 0
  <2>1. /\ at + k - 1 \in Nat /\ at <= at + k - 1 /\ at + k - 1 < upTo
        /\ at + k - 1 <= last /\ at + k - 1 < d
    OBVIOUS
  <2>2. DataAt(c, at + k - 1) = Zero
    BY <2>1 DEF OnlyZeroes
  <2>. QED BY <2>1, <2>2 DEF WantedOf, Zero
<1>. QED BY <1>2, <1>3 DEF IsWanted

LEMMA FooterIsWanted ==
  ASSUME NEW c
  PROVE  IsWanted(c, DiskSize, DiskSize + 1, <<FooterData>>)
<1> PICK d \in Nat : d = DiskSize
  BY DiskFacts
<1>1. FooterData \in Int
  BY DEF FooterData
<1> PICK f \in Int : f = FooterData
  BY <1>1
<1>2. <<f>> \in Seq(Int) /\ Len(<<f>>) = 1 /\ <<f>>[1] = f
  OBVIOUS
<1>3. WantedOf(c, d + 1 - 1) = f
  BY DEF WantedOf
<1>. QED BY <1>2, <1>3 DEF IsWanted

\* A position of the request that createNextStream() has no stream for has no data.
LEMMA NotReadIsZero ==
  ASSUME RequestIsInside, NEW p \in Nat,
         block * SectorsPerBlock + within <= p, p <= end, p < DiskSize,
         p \div SectorsPerBlock \notin Readable
  PROVE  DataAt(chain, p) = Zero
<1> PICK s, n \in Nat \ {0} : s = SectorsPerBlock /\ n = BlockCount /\ DiskSize = n * s
  BY DiskFacts
<1> PICK b, t : b = p \div s /\ t = p % s
  OBVIOUS
<1>1. b \in Nat /\ t \in 0 .. s - 1 /\ p = b * s + t
  BY Division
<1>2. block \in Nat /\ within \in 0 .. s - 1 /\ end \in Nat /\ (within # 0 => end < (block + 1) * s)
  BY DEF RequestIsInside
<1> PICK bs, cs, ks, ls \in Nat :
      /\ bs = b * s /\ cs = (b + 1) * s /\ cs = bs + s
      /\ ks = block * s /\ ls = (block + 1) * s /\ ls = ks + s
  <2>1. /\ b * s \in Nat /\ (b + 1) * s = b * s + s
        /\ block * s \in Nat /\ (block + 1) * s = block * s + s
    BY <1>1, <1>2, ProductOrder
  <2>2. (b + 1) * s \in Nat /\ (block + 1) * s \in Nat
    BY <2>1
  <2>. QED BY ONLY <2>1, <2>2
<1> PICK ns \in Nat : ns = n * s
  BY ProductOrder
<1>3. bs <= p /\ p < cs /\ p < ns /\ ks + within <= p /\ (within # 0 => p < ls)
  BY <1>1, <1>2
<1>4. b < n
  <2>1. n <= b => ns <= bs
    BY <1>1, ProductOrder
  <2>. QED BY <1>1, <1>3, <2>1
<1>5. block <= b
  <2>1. b < block => bs + s <= ks
    BY <1>1, <1>2, ProductOrder
  <2>. QED BY <1>1, <1>2, <1>3, <2>1
<1>6. within # 0 => b = block
  <2>1. block < b => ks + s <= bs
    BY <1>1, <1>2, ProductOrder
  <2>. QED BY <1>1, <1>2, <1>3, <1>5, <2>1
<1>7. bs + within <= p
  BY <1>2, <1>3, <1>6
<1>8. p \in Slice(b)
  <2>1. p \in bs + within .. cs - 1 /\ p <= end
    BY <1>2, <1>3, <1>7
  <2>. QED BY <2>1 DEF Slice
<1>9. ~HasData(b)
  <2>1. b \in block .. BlockCount - 1
    BY <1>1, <1>2, <1>4, <1>5
  <2>. QED BY <1>8, <2>1 DEF Readable
<1>10. Content(chain, b, t) = Zero
  BY <1>9, NoDataIsZero DEF HasData, RequestIsInside
<1>. QED BY <1>10 DEF DataAt
LEMMA StepNextStream ==
  ASSUME ReadInv, NextStream
  PROVE  ReadInv'
<1> PICK s, n \in Nat \ {0} : s = SectorsPerBlock /\ n = BlockCount /\ DiskSize = n * s
  BY DiskFacts
<1>1. /\ phase = "next" /\ within' = 0 /\ phase' = "reading"
      /\ UNCHANGED <<chain, currentSize, start, end, pos, emitted>>
  BY DEF NextStream, request
<1> PICK b \in Readable :
      /\ \A other \in Readable : b <= other
      /\ file' = Slice(b) /\ block' = b + 1
  BY DEF NextStream
<1>2. RequestIsInside /\ Emitted
  BY DEF ReadInv
<1>3. /\ block \in Nat /\ block <= n /\ within \in 0 .. s - 1 /\ end \in Nat /\ pos \in Nat
      /\ within # 0 => end < (block + 1) * s
  BY <1>2 DEF RequestIsInside, Emitted
<1>4. b \in Nat /\ block <= b /\ b < n /\ Slice(b) # {}
  BY <1>3 DEF Readable
<1> PICK bs, cs, ks, ls \in Nat :
      /\ bs = b * s /\ cs = (b + 1) * s /\ cs = bs + s
      /\ ks = block * s /\ ls = (block + 1) * s /\ ls = ks + s
  <2>1. /\ b * s \in Nat /\ (b + 1) * s = b * s + s
        /\ block * s \in Nat /\ (block + 1) * s = block * s + s
    BY <1>3, <1>4, ProductOrder
  <2>2. (b + 1) * s \in Nat /\ (block + 1) * s \in Nat
    BY <2>1
  <2>. QED BY ONLY <2>1, <2>2
<1> PICK lo \in Nat : lo = bs + within
  BY <1>3
<1>5. Slice(b) = {p \in lo .. cs - 1 : p <= end}
  BY DEF Slice
<1>6. lo <= end /\ bs <= lo /\ lo < cs
  <2>1. PICK x \in lo .. cs - 1 : x <= end
    BY <1>4, <1>5
  <2>. QED BY <1>3, <2>1
<1>7. within # 0 => b = block
  <2>1. block < b => ks + s <= bs
    BY <1>3, <1>4, ProductOrder
  <2>. QED BY <1>3, <1>4, <1>6, <2>1
<1>8. ks <= bs
  BY <1>3, <1>4, ProductOrder
<1>9. pos <= ks + within /\ OnlyZeroes(chain, pos, ks + within, end)
  BY <1>1 DEF ReadInv
<1>10. pos <= lo
  BY <1>3, <1>8, <1>9
<1>11. OnlyZeroes(chain, pos, lo, end)
  <2> SUFFICES ASSUME NEW p \in Nat, pos <= p, p < lo, p <= end, p < DiskSize
               PROVE  DataAt(chain, p) = Zero
    BY DEF OnlyZeroes
  <2>1. CASE p < ks + within
    BY <1>9, <2>1 DEF OnlyZeroes
  <2>2. CASE ~(p < ks + within)
    <3> PICK d, t : d = p \div s /\ t = p % s
      OBVIOUS
    <3>1. d \in Nat /\ t \in 0 .. s - 1 /\ p = d * s + t
      BY Division
    <3> PICK ds \in Nat : ds = d * s
      BY <3>1, ProductOrder
    <3>2. ds <= p
      BY <3>1
    <3>3. d \notin Readable
      <4> SUFFICES ASSUME d \in Readable PROVE FALSE
        OBVIOUS
      <4>1. b <= d
        OBVIOUS
      <4>2. bs <= ds
        BY <1>4, <3>1, <4>1, ProductOrder
      <4>3. within = 0
        <5>1. within # 0 => ks = bs
          BY <1>7
        <5>. QED BY <1>3, <2>2, <5>1
      <4>. QED BY <1>3, <3>2, <4>2, <4>3
    <3>4. block * SectorsPerBlock + within <= p
      BY <1>3, <2>2
    <3>. QED BY <1>2, <3>3, <3>4, NotReadIsZero
  <2>. QED BY <2>1, <2>2
<1>12. IsLeft(lo)'
  <2>1. /\ (b + 1 - 1) * s = bs /\ b + 1 # 0
    <3>1. b + 1 - 1 = b
      BY <1>4
    <3>. QED BY <1>4, <3>1
  <2>. QED BY <1>1, <1>5, <1>6, <1>10, <1>11, <2>1 DEF IsLeft
<1>13. RequestIsInside'
  <2>1. /\ chain \in ChainSpace /\ currentSize = DiskSize /\ start \in Nat /\ end \in Nat
        /\ start <= end /\ end <= DiskSize
    BY <1>2 DEF RequestIsInside
  <2>2. b + 1 \in Nat /\ b + 1 <= n /\ 0 \in 0 .. s - 1
    BY <1>4
  <2>. QED BY <1>1, <2>1, <2>2 DEF RequestIsInside
<1>14. Emitted'
  BY <1>1, <1>2 DEF Emitted
<1>. QED BY <1>1, <1>12, <1>13, <1>14 DEF ReadInv

LEMMA StepLastFill ==
  ASSUME ReadInv, LastFill
  PROVE  ReadInv'
<1> PICK d \in Nat \ {0} : d = DiskSize
  BY DiskFacts
<1>1. /\ phase = "next" /\ Readable = {} /\ phase' = "ended"
      /\ emitted' = emitted \o Fill(end + 1)
      /\ pos' = IF end + 1 > currentSize THEN currentSize ELSE end + 1
      /\ UNCHANGED <<chain, currentSize, start, end, block, within, file>>
  BY DEF LastFill, request
<1>2. RequestIsInside /\ Emitted
  BY DEF ReadInv
<1>3. /\ currentSize = d /\ start \in Nat /\ end \in Nat /\ start <= end /\ end <= d
      /\ pos \in Nat /\ start <= pos /\ pos <= end + 1 /\ pos <= d
  BY <1>2 DEF RequestIsInside, Emitted
<1>4. IsWanted(chain, start, pos, emitted)
  BY <1>1, <1>2 DEF Emitted
<1>5. OnlyZeroes(chain, pos, d, end)
  <2> SUFFICES ASSUME NEW p \in Nat, pos <= p, p < d, p <= end
               PROVE  DataAt(chain, p) = Zero
    BY DEF OnlyZeroes
  <2>1. CASE p < block * SectorsPerBlock + within
    <3>1. OnlyZeroes(chain, pos, block * SectorsPerBlock + within, end)
      BY <1>1 DEF ReadInv
    <3>. QED BY <2>1, <3>1 DEF OnlyZeroes
  <2>2. CASE ~(p < block * SectorsPerBlock + within)
    <3>1. block * SectorsPerBlock + within \in Nat
      <4>1. /\ block \in Nat /\ SectorsPerBlock \in Nat \ {0} /\ within \in 0 .. SectorsPerBlock - 1
        BY <1>2, DiskFacts DEF RequestIsInside
      <4> PICK ks \in Nat : ks = block * SectorsPerBlock
        BY <4>1, ProductOrder
      <4>. QED BY <4>1
    <3>2. block * SectorsPerBlock + within <= p
      BY <2>2, <3>1
    <3>. QED BY <1>1, <1>2, <3>2, NotReadIsZero
  <2>. QED BY <2>1, <2>2
<1>6. IsWanted(chain, start, end + 1, emitted')
  <2>1. CASE end = d
    <3>1. Fill(end + 1) = Zeroes(d - pos) \o <<FooterData>>
      BY <1>3, <2>1 DEF Fill
    <3>2. IsWanted(chain, pos, d, Zeroes(d - pos))
      BY <1>3, <1>5, <2>1, ZeroesAreWanted
    <3>3. IsWanted(chain, d, d + 1, <<FooterData>>)
      BY FooterIsWanted
    <3>4. d + 1 \in Nat
      OBVIOUS
    <3>5. IsWanted(chain, pos, d + 1, Zeroes(d - pos) \o <<FooterData>>)
      BY <1>3, <3>2, <3>3, <3>4, Continues
    <3>. QED BY <1>1, <1>3, <1>4, <2>1, <3>1, <3>4, <3>5, Continues
  <2>2. CASE end # d
    <3>1. end + 1 \in Nat /\ end + 1 <= d /\ pos <= end + 1
      BY <1>3, <2>2
    <3>2. Fill(end + 1) = Zeroes(end + 1 - pos)
      BY <1>3, <3>1 DEF Fill
    <3>3. OnlyZeroes(chain, pos, end + 1, end)
      BY <1>3, <1>5, <3>1 DEF OnlyZeroes
    <3>4. IsWanted(chain, pos, end + 1, Zeroes(end + 1 - pos))
      BY <1>3, <3>1, <3>3, ZeroesAreWanted
    <3>. QED BY <1>1, <1>3, <1>4, <3>1, <3>2, <3>4, Continues
  <2>. QED BY <2>1, <2>2
<1>7. RequestIsInside'
  BY <1>1, <1>2 DEF RequestIsInside
<1>8. Emitted'
  <2>1. pos' \in Nat /\ start <= pos' /\ pos' <= end + 1 /\ pos' <= d
    BY <1>1, <1>3
  <2>. QED BY <1>1, <1>6, <2>1 DEF Emitted
<1>. QED BY <1>1, <1>7, <1>8 DEF ReadInv
\* The open file stream is one run of sectors of one block.
LEMMA FileFacts ==
  ASSUME RequestIsInside, NEW lo \in Nat, IsLeft(lo)
  PROVE  \E top \in Nat :
           /\ lo <= top /\ top <= end /\ top < block * SectorsPerBlock
           /\ top = end \/ top = block * SectorsPerBlock - 1
           /\ file = lo .. top
           /\ First(file) = lo
           /\ Cardinality(file) = top - lo + 1
<1> PICK s \in Nat \ {0} : s = SectorsPerBlock
  BY DiskFacts
<1>1. block \in Nat /\ end \in Nat
  BY DEF RequestIsInside
<1> PICK ks \in Nat : ks = block * s
  BY <1>1, ProductOrder
<1>2. lo < ks /\ lo <= end /\ file = {p \in lo .. ks - 1 : p <= end}
  BY DEF IsLeft
<1> PICK top \in Nat : top = IF end < ks THEN end ELSE ks - 1
  <2>1. ks - 1 \in Nat
    BY <1>2
  <2>. QED BY <1>1, <2>1
<1>3. lo <= top /\ top <= end /\ top < ks /\ (top = end \/ top = ks - 1)
  BY <1>1, <1>2
<1>4. file = lo .. top
  <2>1. \A p \in Int : (p <= ks - 1 /\ p <= end) <=> p <= top
    BY <1>1
  <2>. QED BY <1>1, <1>2, <2>1
<1>5. First(file) = lo
  <2>1. lo \in file /\ \A q \in file : lo <= q
    BY <1>3, <1>4
  <2>2. \A p \in file : (\A q \in file : p <= q) => p = lo
    BY <1>4, <2>1
  <2>. QED BY <2>1, <2>2 DEF First
<1>6. Cardinality(lo .. top) = top - lo + 1
  <2>1. Cardinality(lo .. top) = IF lo > top THEN 0 ELSE top - lo + 1
    <3>1. lo \in Int /\ top \in Int
      OBVIOUS
    <3>. QED BY ONLY <3>1, FS_Interval, Zenon
  <2>. QED BY <1>3, <2>1
<1>. QED BY <1>3, <1>4, <1>5, <1>6

LEMMA StepData ==
  ASSUME ReadInv, NEW count \in 1 .. SectorsPerBlock, Chunk(count)
  PROVE  ReadInv'
<1> PICK s, d, n \in Nat \ {0} :
      s = SectorsPerBlock /\ d = DiskSize /\ n = BlockCount /\ d = n * s
  BY DiskFacts
<1> PICK first : first = First(file)
  OBVIOUS
<1>1. /\ phase = "reading" /\ count \in 1 .. Cardinality(file)
      /\ emitted' = emitted \o Fill(first)
                      \o [k \in 1 .. count |->
                           Emits(chain, first \div s, (first + k - 1) % s)]
      /\ pos' = first + count
      /\ file' = file \ (first .. first + count - 1)
      /\ phase' = (IF file' = {} THEN "next" ELSE "reading")
      /\ UNCHANGED <<chain, currentSize, start, end, block, within>>
  BY DEF Chunk, request
<1>2. RequestIsInside /\ Emitted
  BY DEF ReadInv
<1>3. /\ currentSize = d /\ start \in Nat /\ end \in Nat /\ start <= end /\ end <= d
      /\ pos \in Nat /\ start <= pos /\ pos <= end + 1 /\ pos <= d
      /\ block \in Nat /\ block <= n
      /\ chain \in Chains
  BY <1>2, Parameters DEF RequestIsInside, Emitted
<1>4. IsWanted(chain, start, pos, emitted)
  BY <1>1, <1>2 DEF Emitted
<1>5. PICK lo \in Nat : IsLeft(lo)
  BY <1>1 DEF ReadInv
<1>6. PICK top \in Nat :
        /\ lo <= top /\ top <= end /\ top < block * s
        /\ top = end \/ top = block * s - 1
        /\ file = lo .. top
        /\ First(file) = lo
        /\ Cardinality(file) = top - lo + 1
  BY <1>2, <1>5, FileFacts
<1>7. first = lo /\ count \in 1 .. top - lo + 1 /\ count \in Nat
  BY <1>1, <1>6
<1>8. block - 1 \in Nat /\ within = 0 /\ pos <= lo /\ OnlyZeroes(chain, pos, lo, end)
  BY <1>3, <1>5 DEF IsLeft
<1> PICK b \in Nat : b = block - 1 /\ block = b + 1
  BY <1>3, <1>8
<1> PICK bs, ks \in Nat : bs = b * s /\ ks = block * s /\ ks = bs + s
  <2>1. b * s \in Nat /\ (b + 1) * s = b * s + s
    BY ProductOrder
  <2>2. block * s = (b + 1) * s /\ (b + 1) * s \in Nat
    BY <2>1
  <2>. QED BY ONLY <2>1, <2>2
<1>9. bs <= lo /\ ks <= d
  <2>1. bs <= lo
    BY <1>5 DEF IsLeft
  <2>2. block * s <= n * s
    BY <1>3, ProductOrder
  <2>. QED BY <2>1, <2>2
<1> PICK next \in Nat : next = lo + count
  BY <1>7
<1>10. next <= top + 1 /\ lo < next /\ next <= ks /\ next <= end + 1 /\ next <= d
  BY <1>3, <1>6, <1>7, <1>9
\* What was between the last chunk and this one has been filled.
<1>11. IsWanted(chain, start, lo, emitted \o Fill(lo))
  <2>1. lo < d /\ lo <= end + 1 /\ lo <= d
    BY <1>3, <1>6, <1>9
  <2>2. Fill(lo) = Zeroes(lo - pos)
    BY <1>3, <2>1 DEF Fill
  <2>3. IsWanted(chain, pos, lo, Zeroes(lo - pos))
    BY <1>3, <1>8, <2>1, ZeroesAreWanted
  <2>. QED BY <1>3, <1>4, <2>2, <2>3, Continues
<1> DEFINE data == [k \in 1 .. count |-> Emits(chain, lo \div s, (lo + k - 1) % s)]
<1>12. IsWanted(chain, lo, next, data)
  <2>1. ASSUME NEW k \in 1 .. count
        PROVE  /\ Emits(chain, lo \div s, (lo + k - 1) % s) = WantedOf(chain, lo + k - 1)
               /\ WantedOf(chain, lo + k - 1) \in Int
    <3> PICK t \in 0 .. s - 1, v \in 0 .. s - 1 : lo = bs + t /\ lo + k - 1 = bs + v
      <4>1. /\ lo - bs \in 0 .. s - 1 /\ lo + k - 1 - bs \in 0 .. s - 1
            /\ lo = bs + (lo - bs) /\ lo + k - 1 = bs + (lo + k - 1 - bs)
        BY <1>6, <1>7, <1>9, <1>10
      <4>. QED BY <4>1
    <3>1. /\ lo \div s = b
          /\ (lo + k - 1) \div s = b /\ (lo + k - 1) % s = v
      <4>1. /\ s \in Nat \ {0} /\ b \in Nat /\ t \in 0 .. s - 1 /\ v \in 0 .. s - 1
            /\ lo = b * s + t /\ lo + k - 1 = b * s + v
        OBVIOUS
      <4>2. (b * s + t) \div s = b /\ (b * s + v) \div s = b /\ (b * s + v) % s = v
        BY ONLY <4>1, PositionOf, Zenon
      <4>. QED BY ONLY <4>1, <4>2, Zenon
    <3>2. lo + k - 1 < d
      BY <1>7, <1>10
    <3>3. WantedOf(chain, lo + k - 1) = Content(chain, b, v)
      BY <3>1, <3>2 DEF WantedOf, DataAt
    <3>4. Emits(chain, b, v) = Content(chain, b, v)
      BY <1>3, ChainIsReadRightly
    <3>. QED BY <3>1, <3>3, <3>4, DataType
  <2> PICK more : more = data
    OBVIOUS
  <2>2. /\ \A k \in 1 .. count : more[k] = WantedOf(chain, lo + k - 1) /\ more[k] \in Int
        /\ more = [k \in 1 .. count |-> more[k]]
    BY <2>1
  <2> HIDE DEF data
  <2>3. more \in Seq(Int) /\ Len(more) = count
    <3>1. more \in [1 .. count -> Int]
      BY <2>2
    <3>. QED BY <1>7, <3>1
  <2>. QED BY <1>7, <2>2, <2>3 DEF IsWanted
<1>13. emitted' = emitted \o Fill(lo) \o data
  BY <1>1, <1>7
<1> HIDE DEF data
<1>14. IsWanted(chain, start, next, emitted')
  BY <1>3, <1>11, <1>12, <1>13, Continues
<1>15. file' = next .. top /\ pos' = next
  <2>1. pos' = next /\ file' = (lo .. top) \ (lo .. next - 1)
    <3>1. first + count - 1 = next - 1 /\ first + count = next
      BY <1>7
    <3>. QED BY <1>1, <1>6, <1>7, <3>1, Zenon
  <2>2. \A p : p \in lo .. top /\ p \notin lo .. next - 1 <=> p \in next .. top
    BY <1>7
  <2>. QED BY <2>1, <2>2
<1>16. RequestIsInside'
  BY <1>1, <1>2 DEF RequestIsInside
<1>17. Emitted'
  <2>1. phase' # "ended"
    BY <1>1
  <2>2. pos' = next /\ next \in Nat /\ start <= next /\ next <= end + 1 /\ next <= d
    BY <1>3, <1>8, <1>10, <1>15
  <2>. QED BY <1>1, <1>14, <2>1, <2>2 DEF Emitted
<1>18. CASE file' = {}
  <2>1. next > top
    BY <1>15, <1>18
  <2>2. next <= block' * s + within' /\ OnlyZeroes(chain, next, block' * s + within', end)
    <3>1. block' * s + within' = ks
      BY <1>1, <1>8
    <3>2. top = end \/ next = ks
      BY <1>6, <1>10, <2>1
    <3>3. OnlyZeroes(chain, next, ks, end)
      BY <1>3, <2>1, <3>2 DEF OnlyZeroes
    <3>. QED BY <1>10, <3>1, <3>3
  <2>. QED BY <1>1, <1>15, <1>16, <1>17, <1>18, <2>2 DEF ReadInv
<1>19. CASE file' # {}
  <2>1. next <= top
    <3>1. PICK p \in next .. top : TRUE
      BY <1>15, <1>19
    <3>. QED BY <3>1
  <2>2. file' = {p \in next .. ks - 1 : p <= end}
    <3>1. \A p : p \in next .. top <=> p \in next .. ks - 1 /\ p <= end
      BY <1>3, <1>6
    <3>. QED BY ONLY <1>15, <3>1
  <2>3. OnlyZeroes(chain, next, next, end)
    BY DEF OnlyZeroes
  <2>4. IsLeft(next)'
    <3>1. /\ next \in Nat /\ within' = 0 /\ block' # 0 /\ block' = block
          /\ (block - 1) * s <= next /\ next < block * s /\ next <= end
      <4>1. bs <= next /\ next < ks /\ next <= end /\ block # 0
        <5>1. top < ks /\ top <= end
          BY <1>6
        <5>. QED BY <1>3, <1>9, <1>10, <2>1, <5>1
      <4>2. (block - 1) * s = bs
        OBVIOUS
      <4>. QED BY <1>1, <1>8, <4>1, <4>2
    <3>. QED BY <1>1, <1>15, <2>2, <2>3, <3>1 DEF IsLeft
  <2>. QED BY <1>1, <1>16, <1>17, <1>19, <2>4 DEF ReadInv
<1>. QED BY <1>18, <1>19

LEMMA ReadStep ==
  ASSUME ReadInv, [ReadNext]_(readVars)
  PROVE  ReadInv'
<1>1. CASE NextStream
  BY <1>1, StepNextStream
<1>2. CASE LastFill
  BY <1>2, StepLastFill
<1>3. ASSUME NEW count \in 1 .. SectorsPerBlock, Chunk(count) PROVE ReadInv'
  BY <1>3, StepData
<1>4. CASE ReadFails
  <2>1. /\ phase = "reading" /\ phase' = "failed"
        /\ UNCHANGED <<chain, currentSize, start, end, block, within, pos, emitted>>
    BY <1>4 DEF ReadFails, request
  <2>2. RequestIsInside' /\ Emitted'
    BY <2>1 DEF ReadInv, RequestIsInside, Emitted
  <2>. QED BY <2>1, <2>2 DEF ReadInv
<1>5. CASE ReadOver \/ UNCHANGED readVars
  <2>1. UNCHANGED <<chain, currentSize, start, end, block, within, file, pos, emitted, phase>>
    BY <1>5 DEF ReadOver, readVars, request
  <2>2. RequestIsInside' /\ Emitted' /\ \A lo \in Nat : IsLeft(lo)' <=> IsLeft(lo)
    BY <2>1 DEF ReadInv, RequestIsInside, Emitted, IsLeft
  <2>. QED BY <2>1, <2>2 DEF ReadInv
<1>. QED BY <1>1, <1>2, <1>3, <1>4, <1>5 DEF ReadNext

\* The statement about the state, which is one conjunct of the invariant.
LEMMA ReadInvImplies ==
  ASSUME ReadInv
  PROVE  OutputIsContent
<1>1. \A p : Wanted(p) = WantedOf(chain, p)
  BY DEF Wanted, WantedOf, DataAt
<1>2. Emitted /\ RequestIsInside
  BY DEF ReadInv
<1>3. start \in Nat /\ end \in Nat
  BY <1>2 DEF RequestIsInside
<1>4. \A k \in 1 .. Len(emitted) : emitted[k] = Wanted(start + k - 1)
  BY <1>1, <1>2 DEF Emitted, IsWanted
<1>5. phase = "ended" => Len(emitted) = end - start + 1
  <2>1. phase = "ended" => Len(emitted) = (end + 1) - start
    BY <1>2 DEF Emitted, IsWanted
  <2>. QED BY <1>3, <2>1
<1>. QED BY <1>4, <1>5 DEF OutputIsContent

\* Whatever the chunks of the file streams, whichever the block of the upload, and for the
\* MD5: what the stream emits is the disk's data with the footer behind it, and when it ends
\* nothing is missing (createNextStream() and fillToPos()).
THEOREM ReadsAreRight ==
  ASSUME WholeDisk
  PROVE  ReadSpec => []OutputIsContent
<1>1. ReadInit => ReadInv
  BY InitReadInv
<1>2. ReadInv /\ [ReadNext]_(readVars) => ReadInv'
  BY ReadStep
<1>3. ReadInv => OutputIsContent
  BY ReadInvImplies
<1>. QED BY <1>1, <1>2, <1>3, PTL DEF ReadSpec

\* Each sector that is not zero belongs to one index of the upload and to one only, and no
\* index reaches behind the disk (fullIndices, and maxIndex of pageBlob.js).
THEOREM EverySectorIsSentOnce ==
  ReadSpec => []AllDataIsSent
<1>1. ReadInit => chain \in ChainSpace
  BY DEF ReadInit
<1>2. chain \in ChainSpace /\ [ReadNext]_(readVars) => (chain \in ChainSpace)'
  BY DEF ReadNext, readVars, request, NextStream, LastFill, Chunk,
         ReadFails, ReadOver
<1>3. chain \in ChainSpace => AllDataIsSent
  BY DataIsSent
<1>. QED BY <1>1, <1>2, <1>3, PTL DEF ReadSpec

===============================================================================
