----------------------------- MODULE CameraProofs -----------------------------
(***************************************************************************)
(* What the arithmetic of streamon computes for every resolution, and what *)
(* becomes of the buffers, for every number of blocks and of requests,     *)
(* asleep in any of their allocations.                                     *)
(***************************************************************************)
EXTENDS Camera, SetInduction

(* A line of one word or more is tiled by its bursts. *)
LEMMA BurstsTile ==
  ASSUME NEW h \in Nat, h >= 4
  PROVE  Tiles(CalculateBurstSize(h), h \div 4)
<1> DEFINE words == h \div 4
<1>1. words \in Nat /\ words >= 1
  OBVIOUS
<1> HIDE DEF words
<1>2. CASE words % 16 \in {0, 4, 8}
  <2>1. CalculateBurstSize(h) = <<16, LastBurst(words, 16)>>
    BY <1>2 DEF CalculateBurstSize, words
  <2>2. Tiles(<<16, LastBurst(words, 16)>>, words)
    BY <1>1, <1>2 DEF Tiles, LastBurst
  <2> QED BY <2>1, <2>2 DEF words
<1>3. CASE words % 16 \notin {0, 4, 8} /\ words % 8 \in {0, 4}
  <2>1. CalculateBurstSize(h) = <<8, LastBurst(words, 8)>>
    BY <1>3 DEF CalculateBurstSize, words
  <2>2. Tiles(<<8, LastBurst(words, 8)>>, words)
    BY <1>1, <1>3 DEF Tiles, LastBurst
  <2> QED BY <2>1, <2>2 DEF words
<1>4. CASE words % 16 \notin {0, 4, 8} /\ words % 8 \notin {0, 4}
  <2>1. CalculateBurstSize(h) = <<4, LastBurst(words, 4)>>
    BY <1>4 DEF CalculateBurstSize, words
  <2>2. Tiles(<<4, LastBurst(words, 4)>>, words)
    BY <1>1 DEF Tiles, LastBurst
  <2> QED BY <2>1, <2>2 DEF words
<1> QED BY <1>2, <1>3, <1>4

(* Of a line of an even number of words, in bursts of the lengths allowed. *)
LEMMA BurstsAllowed ==
  ASSUME NEW h \in Nat, h > 0, h % 8 = 0
  PROVE  LET size == CalculateBurstSize(h)
         IN  size[1] \in {4, 8, 16} /\ size[2] \in {2, 4, 8, 16}
<1> DEFINE words == h \div 4
<1>1. words \in Nat /\ words % 2 = 0
  OBVIOUS
<1> HIDE DEF words
<1>2. CASE words % 16 \in {0, 4, 8}
  BY <1>1, <1>2 DEF CalculateBurstSize, LastBurst, words
<1>3. CASE words % 16 \notin {0, 4, 8} /\ words % 8 \in {0, 4}
  BY <1>1, <1>3 DEF CalculateBurstSize, LastBurst, words
<1>4. CASE words % 16 \notin {0, 4, 8} /\ words % 8 \notin {0, 4}
  BY <1>1, <1>4 DEF CalculateBurstSize, LastBurst, words
<1> QED BY <1>2, <1>3, <1>4

(* Some stage, or none, is the greatest that fits. *)
LEMMA GreatestShift ==
  ASSUME NEW src, NEW dst
  PROVE  LET fits == { k \in 1 .. 5 : src >= Power2[k + 1] * dst }
             shift == CHOOSE k \in fits \cup {0} : \A l \in fits : l <= k
         IN  shift \in fits \cup {0} /\ \A l \in fits : l <= shift
<1> DEFINE fits == { k \in 1 .. 5 : src >= Power2[k + 1] * dst }
           Greatest(k) == k \in fits \cup {0} /\ \A l \in fits : l <= k
<1>1. fits \subseteq 1 .. 5
  OBVIOUS
<1> HIDE DEF fits
<1>2. \E k : Greatest(k)
  <2>1. CASE 5 \in fits  BY <2>1, <1>1
  <2>2. CASE 5 \notin fits /\ 4 \in fits  BY <2>2, <1>1
  <2>3. CASE 5 \notin fits /\ 4 \notin fits /\ 3 \in fits  BY <2>3, <1>1
  <2>4. CASE 5 \notin fits /\ 4 \notin fits /\ 3 \notin fits /\ 2 \in fits
    BY <2>4, <1>1
  <2>5. CASE 5 \notin fits /\ 4 \notin fits /\ 3 \notin fits /\ 2 \notin fits
    BY <2>5, <1>1
  <2> QED BY <2>1, <2>2, <2>3, <2>4, <2>5
<1> QED BY <1>2, Zenon DEF fits

(* A source less than 64 times the target gets a prescaler that fits. *)
LEMMA FactorFits ==
  ASSUME NEW src \in Nat, NEW dst \in Nat \ {0}, NEW old, src < 64 * dst
  PROVE  FitsScaler(src, dst, camif_get_scaler_factor(src, dst, old))
<1> DEFINE fits == { k \in 1 .. 5 : src >= Power2[k + 1] * dst }
           Greatest(k) == k \in fits \cup {0} /\ \A l \in fits : l <= k
           shift == CHOOSE k \in fits \cup {0} : \A l \in fits : l <= k
<1>1. Power2[1] = 1 /\ Power2[2] = 2 /\ Power2[3] = 4 /\ Power2[4] = 8
      /\ Power2[5] = 16 /\ Power2[6] = 32 /\ Power2[7] = 64
  BY DEF Power2
<1>2. \A k : k \in fits <=> k \in 1 .. 5 /\ src >= Power2[k + 1] * dst
  OBVIOUS
<1> HIDE DEF fits
<1>3. Greatest(shift)
  BY GreatestShift, Zenon DEF fits
<1> HIDE DEF shift
<1>4. camif_get_scaler_factor(src, dst, old) = [ratio |-> Power2[shift + 1], shift |-> shift]
  BY DEF camif_get_scaler_factor, shift, fits
<1>5. shift \in 0 .. 5 /\ (shift # 0 => src >= Power2[shift + 1] * dst)
  BY <1>2, <1>3
<1>6. shift # 5 => src < Power2[shift + 2] * dst
  <2> SUFFICES ASSUME shift # 5 PROVE src < Power2[shift + 2] * dst
    OBVIOUS
  <2>1. shift + 1 \in 1 .. 5 /\ shift + 1 \notin fits
    BY <1>3, <1>5
  <2>2. ~(src >= Power2[shift + 2] * dst)
    <3>1. (shift + 1) + 1 = shift + 2
      BY <1>5
    <3>2. ~(src >= Power2[(shift + 1) + 1] * dst)
      BY <2>1, <1>2
    <3> QED BY <3>1, <3>2
  <2>3. Power2[shift + 2] \in Nat
    BY <1>1, <1>5
  <2> QED BY <2>2, <2>3
<1>7. /\ dst <= src => Power2[shift + 1] * dst <= src
      /\ src * 256 < 512 * Power2[shift + 1] * dst
  <2>1. CASE shift = 0  BY <2>1, <1>1, <1>6
  <2>2. CASE shift = 1  BY <2>2, <1>1, <1>5, <1>6
  <2>3. CASE shift = 2  BY <2>3, <1>1, <1>5, <1>6
  <2>4. CASE shift = 3  BY <2>4, <1>1, <1>5, <1>6
  <2>5. CASE shift = 4  BY <2>5, <1>1, <1>5, <1>6
  <2>6. CASE shift = 5  BY <2>6, <1>1, <1>5
  <2> QED BY <1>5, <2>1, <2>2, <2>3, <2>4, <2>5, <2>6
<1> QED BY <1>4, <1>7 DEF FitsScaler

(* The factor of one direction is one the tables hold, or the old one. *)
LEMMA FactorInFactors ==
  ASSUME NEW src \in Nat, NEW dst \in Nat, NEW old \in Factors
  PROVE  camif_get_scaler_factor(src, dst, old) \in Factors
<1>1. CASE src >= 64 * dst
  BY <1>1 DEF camif_get_scaler_factor
<1>2. CASE ~(src >= 64 * dst)
  <2> DEFINE fits == { k \in 1 .. 5 : src >= Power2[k + 1] * dst }
             shift == CHOOSE k \in fits \cup {0} : \A l \in fits : l <= k
  <2>1. shift \in fits \cup {0}
    BY GreatestShift, Zenon
  <2>2. camif_get_scaler_factor(src, dst, old) = [ratio |-> Power2[shift + 1], shift |-> shift]
    BY <1>2 DEF camif_get_scaler_factor
  <2>3. shift \in 0 .. 5
    BY <2>1
  <2> HIDE DEF shift
  <2>4. Power2[shift + 1] \in {0, 1, 2, 4, 8, 16, 32}
    BY <2>3 DEF Power2
  <2> QED BY <2>2, <2>3, <2>4 DEF Factors
<1> QED BY <1>1, <1>2

LEMMA BurstRange ==
  ASSUME NEW h \in Nat
  PROVE  LET size == CalculateBurstSize(h)
         IN  size[1] \in {0, 4, 8, 16} /\ size[2] \in 0 .. size[1]
<1>1. h \div 4 \in Nat
  OBVIOUS
<1>2. ASSUME NEW n \in Nat, NEW b \in {4, 8, 16} PROVE LastBurst(n, b) \in 0 .. b
  BY DEF LastBurst
<1>3. PICK b \in {4, 8, 16} : CalculateBurstSize(h) = <<b, LastBurst(h \div 4, b)>>
  BY DEF CalculateBurstSize
<1>4. LastBurst(h \div 4, b) \in 0 .. b
  BY <1>1, <1>2
<1> QED BY <1>3, <1>4

(* An order that can be allocated holds size bytes. *)
LEMMA OrderHolds ==
  ASSUME NEW size \in Nat
  PROVE  /\ get_order(size) \in Orders \cup {NoOrder}
         /\ get_order(size) \in Orders => size # 0 /\ Bytes(get_order(size)) >= size
<1> DEFINE Least(k) == Bytes(k) >= size /\ \A l \in 0 .. k - 1 : Bytes(l) < size
<1>1. NoOrder \notin Orders
  BY DEF Orders, NoOrder
<1>2. CASE size \notin 1 .. Bytes(10)
  <2>1. get_order(size) = NoOrder
    BY <1>2 DEF get_order
  <2> QED BY <1>1, <2>1
<1>3. CASE size \in 1 .. Bytes(10)
  <2>1. get_order(size) = CHOOSE k \in Orders : Least(k)
    BY <1>3 DEF get_order
  <2> DEFINE Enough == { k \in Orders : Bytes(k) >= size }
  <2>2. Enough \subseteq Nat /\ 10 \in Enough
    BY <1>3 DEF Orders
  <2>3. PICK k \in Enough : \A l \in Enough : k <= l
    BY <2>2, LeastMember
  <2>4. \A l \in Orders : Bytes(l) \in Nat
    <3>1. /\ 2^0 \in Nat /\ 2^1 \in Nat /\ 2^2 \in Nat /\ 2^3 \in Nat /\ 2^4 \in Nat
          /\ 2^5 \in Nat /\ 2^6 \in Nat /\ 2^7 \in Nat /\ 2^8 \in Nat /\ 2^9 \in Nat
          /\ 2^10 \in Nat
      BY SMT
    <3>2. ASSUME NEW l \in Orders PROVE 2^l \in Nat
      <4>1. \/ l = 0 \/ l = 1 \/ l = 2 \/ l = 3 \/ l = 4 \/ l = 5
            \/ l = 6 \/ l = 7 \/ l = 8 \/ l = 9 \/ l = 10
        BY DEF Orders
      <4> QED BY <3>1, <4>1, Zenon
    <3> QED BY <3>2 DEF Bytes, PAGE_SIZE
  <2>5. ASSUME NEW l \in 0 .. k - 1 PROVE Bytes(l) < size
    <3>1. k \in 0 .. 10 /\ l \in Orders /\ ~(k <= l)
      BY <2>3 DEF Orders
    <3>2. ~(Bytes(l) >= size)
      BY <3>1, <2>3
    <3> QED BY <3>1, <3>2, <2>4
  <2>6. \E m \in Orders : Least(m)
    BY <2>3, <2>5
  <2> HIDE DEF Least
  <2>7. get_order(size) \in Orders /\ Least(get_order(size))
    BY <2>1, <2>6, Zenon
  <2> QED BY <1>3, <2>7 DEF Least
<1> QED BY <1>2, <1>3

(***************************************************************************)
(* Types.                                                                  *)
(***************************************************************************)
(* The block that is handed out is a free one. *)
LEMMA PageIsFree ==
  ASSUME FreePages # {}
  PROVE  Page \in 1 .. MaxPages /\ Page \notin DOMAIN live /\ Page # 0
<1>1. FreePages \subseteq Nat
  BY PagesAssumption DEF FreePages
<1>2. \E p \in FreePages : \A q \in FreePages : p <= q
  BY <1>1, LeastMember
<1>3. Page \in FreePages
  BY <1>2, Zenon DEF Page
<1> QED BY <1>3, PagesAssumption DEF FreePages

LEMMA SizeTypes ==
  ASSUME NEW format, NEW x \in Nat, NEW y \in Nat
  PROVE  /\ Bytesperline(format, x) \in Nat /\ Sizeimage(format, x, y) \in Nat
         /\ x % Field \in 0 .. Field - 1
<1>1. Uint \in Nat \ {0} /\ Field \in Nat \ {0}
  <2>1. 4 * Field * Field >= 1
    BY FieldAssumption
  <2> QED BY <2>1, FieldAssumption
<1>2. Depth(format) \in Nat
  BY DEF Depth
<1>3. x * Depth(format) \in Nat
  BY <1>2
<1>4. Bytesperline(format, x) \in Nat
  BY <1>1, <1>3 DEF Bytesperline
<1>5. y * Bytesperline(format, x) \in Nat
  BY <1>4
<1> QED BY <1>1, <1>4, <1>5 DEF Sizeimage

(* The type invariant in parts, of which most steps leave most alone. *)
FormatType ==
  /\ fmt \in {NoFormat} \cup { [pixelformat |-> f, x |-> s[1], y |-> s[2]] :
                              f \in Formats, s \in Sizes }
  /\ buf_size \in Nat /\ bytesperline \in Nat
  /\ target \in (0 .. Field - 1) \X (0 .. Field - 1)

ScalerType ==
  /\ sc.hor \in Factors /\ sc.ver \in Factors
  /\ burst[1] \in {0, 4, 8, 16} /\ burst[2] \in 0 .. burst[1]
  /\ streamed \subseteq Sizes \cup {<<0, 0>>}

Image == [virt : 0 .. MaxPages, phy : 0 .. MaxPages, order : Orders \cup {NoOrder}]

BufferType ==
  /\ img_buff \in [Buffers -> Image]
  /\ addr \in [Buffers -> 0 .. MaxPages]
  /\ DOMAIN live \subseteq 1 .. MaxPages

CallType ==
  /\ tries \in 0 .. MaxTries /\ alone \subseteq Calls
  /\ order \in [Calls -> Orders \cup {NoOrder}] /\ next \in [Calls -> Buffers \cup {None}]

BitsType == CIPRSCCTRL \subseteq 0 .. 31 /\ CIIMGCPT \subseteq 0 .. 31

StateType ==
  /\ ev_cam \in {0, 1}
  /\ phase \in {"bound", "unmapped", "noirq", "gone"}
  /\ sets \in 0 .. MaxSets

PlaceType == pc \in [Readers -> {"closed", "open", "wait", "sleep", "copy"}]

FlagType ==
  /\ irqPend \in BOOLEAN
  /\ off \in BOOLEAN /\ agreed \in BOOLEAN /\ crossed \in BOOLEAN
  /\ met \in BOOLEAN /\ fault \in BOOLEAN /\ misfreed \in BOOLEAN

Parts ==
  /\ FormatType /\ ScalerType /\ BufferType /\ CallType /\ BitsType
  /\ StateType /\ PlaceType /\ FlagType

LEMMA PartsInit == Init => Parts
<1> SUFFICES ASSUME Init PROVE Parts
  OBVIOUS
<1>1. FormatType
  <2>1. 0 \in 0 .. Field - 1
    BY FieldAssumption
  <2> QED BY <2>1 DEF Init, FormatType
<1>2. ScalerType
  BY DEF Init, ScalerType, Factors
<1>3. BufferType
  <2>1. 0 \in 0 .. MaxPages
    BY PagesAssumption
  <2> QED BY <2>1 DEF Init, BufferType, Image, Orders
<1>4. CallType
  BY TriesAssumption DEF Init, CallType, Calls
<1>5. BitsType /\ StateType
  BY SetsAssumption DEF Init, BitsType, StateType
<1>6. PlaceType
  BY DEF Init, PlaceType
<1>7. FlagType
  BY Zenon DEF Init, FlagType
<1> QED BY <1>1, <1>2, <1>3, <1>4, <1>5, <1>6, <1>7 DEF Parts

LEMMA FormatParts ==
  ASSUME Parts, NEW format \in Formats, NEW size \in Sizes,
         cmos_ov7740_vidioc_s_fmt_vid_cap(format, size)
  PROVE  Parts'
<1>1. /\ fmt' = [pixelformat |-> format, x |-> size[1], y |-> size[2]]
      /\ bytesperline' = Bytesperline(format, size[1])
      /\ buf_size' = Sizeimage(format, size[1], size[2])
      /\ target' = <<size[1] % Field, size[2] % Field>>
      /\ CIPRSCCTRL' = CIPRSCCTRL \cup (IF format = "RGB24" THEN {30} ELSE {})
      /\ sets < MaxSets /\ sets' = sets + 1
  BY DEF cmos_ov7740_vidioc_s_fmt_vid_cap, Setting
<1>2. /\ UNCHANGED <<sc, img_buff, ev_cam, phase, burst, CIIMGCPT, addr, live, pc, tries>>
      /\ UNCHANGED <<order, next, irqPend, off, streamed, alone, met, crossed, fault, misfreed>>
  BY DEF cmos_ov7740_vidioc_s_fmt_vid_cap, calls
<1>3. FormatType'
  <2>1. size[1] \in Nat /\ size[2] \in Nat
    BY SizesAssumption
  <2>2. bytesperline' \in Nat /\ buf_size' \in Nat
    BY <1>1, <2>1, SizeTypes
  <2>3. fmt' \in { [pixelformat |-> f, x |-> s[1], y |-> s[2]] : f \in Formats, s \in Sizes }
    BY <1>1
  <2>4. target' \in (0 .. Field - 1) \X (0 .. Field - 1)
    BY <1>1, <2>1, SizeTypes
  <2>5. fmt' \in {NoFormat} \cup { [pixelformat |-> f, x |-> s[1], y |-> s[2]] :
                                    f \in Formats, s \in Sizes }
    BY <2>3
  <2> QED BY <2>2, <2>4, <2>5 DEF FormatType
<1>4. BitsType'
  BY <1>1, <1>2 DEF Parts, BitsType
<1>5. FlagType'
  <2>1. agreed' \in BOOLEAN
    BY Zenon DEF cmos_ov7740_vidioc_s_fmt_vid_cap
  <2> QED BY <1>2, <2>1, Zenon DEF Parts, FlagType
<1>6. StateType'
  BY <1>1, <1>2, SetsAssumption DEF Parts, StateType
<1>7. ScalerType' /\ BufferType' /\ CallType' /\ PlaceType'
  BY <1>2 DEF Parts, ScalerType, BufferType, CallType, PlaceType
<1> QED BY <1>3, <1>4, <1>5, <1>6, <1>7 DEF Parts

LEMMA ReqbufsParts ==
  ASSUME Parts, NEW c \in Calls, cmos_ov7740_vidioc_reqbufs(c)
  PROVE  Parts'
<1>1. /\ UNCHANGED <<fmt, buf_size, bytesperline, sc, ev_cam, phase, target, burst>>
      /\ UNCHANGED <<CIPRSCCTRL, CIIMGCPT, irqPend, pc, sets, off, streamed, fault>>
  BY DEF cmos_ov7740_vidioc_reqbufs, ReqbufsBegin, ReqbufsNext, ReqbufsDone, ReqbufsError,
         Requesting
<1>2. FormatType' /\ ScalerType' /\ BitsType' /\ StateType' /\ PlaceType'
  BY <1>1 DEF Parts, FormatType, ScalerType, BitsType, StateType, PlaceType
<1>3. /\ Calls = 1 .. MaxTries /\ tries \in Nat /\ alone \subseteq Calls /\ buf_size \in Nat
      /\ order \in [Calls -> Orders \cup {NoOrder}] /\ next \in [Calls -> Buffers \cup {None}]
      /\ Buffers = 0 .. 3 /\ None = 4 /\ tries \in 0 .. MaxTries
  BY TriesAssumption DEF Parts, CallType, FormatType, Calls, Buffers, None
<1>4. CallType'
  <2>1. CASE ReqbufsBegin(c)
    <3>1. get_order(buf_size) \in Orders \cup {NoOrder}
      BY <1>3, OrderHolds
    <3>2. /\ tries' = c /\ order' = [order EXCEPT ![c] = get_order(buf_size)]
          /\ next' = [next EXCEPT ![c] = 0] /\ (alone' = {} \/ alone' = {c})
      BY <2>1 DEF ReqbufsBegin
    <3>3. tries' \in 0 .. MaxTries /\ alone' \subseteq Calls
      BY <1>3, <3>2, TriesAssumption
    <3>4. order' \in [Calls -> Orders \cup {NoOrder}] /\ next' \in [Calls -> Buffers \cup {None}]
      BY <1>3, <3>1, <3>2
    <3> QED BY <3>3, <3>4 DEF CallType
  <2>2. CASE ReqbufsNext(c)
    <3>1. next[c] + 1 \in Buffers
      BY <1>3, <2>2 DEF ReqbufsNext
    <3> QED BY <1>3, <2>2, <3>1 DEF ReqbufsNext, CallType
  <2>3. CASE ReqbufsDone(c) \/ ReqbufsError(c)
    BY <1>3, <2>3 DEF ReqbufsDone, ReqbufsError, Return, CallType
  <2> QED BY <2>1, <2>2, <2>3 DEF cmos_ov7740_vidioc_reqbufs
<1>5. /\ img_buff \in [Buffers -> Image]
      /\ addr \in [Buffers -> 0 .. MaxPages]
      /\ DOMAIN live \subseteq 1 .. MaxPages
      /\ 0 \in 0 .. MaxPages
  BY PagesAssumption DEF Parts, BufferType
<1>6. ASSUME Allocates(c), next[c] \in Buffers
      PROVE  /\ img_buff' \in [Buffers -> Image]
             /\ DOMAIN live' \subseteq 1 .. MaxPages
  <2>1. /\ Page \in 1 .. MaxPages /\ Page \in 0 .. MaxPages
    BY <1>6, PageIsFree DEF Allocates
  <2>2. /\ img_buff' = [i \in Buffers |->
             [virt  |-> IF i = next[c] THEN Page ELSE img_buff[i].virt,
              phy   |-> IF i = next[c] THEN Page ELSE img_buff[i].phy,
              order |-> IF i = next[c] + 1 THEN order[c] ELSE img_buff[i].order]]
        /\ DOMAIN live' = DOMAIN live \cup {Page}
    BY <1>6 DEF Allocates
  <2>3. order[c] \in Orders \cup {NoOrder}
    BY <1>3
  <2> QED BY <1>5, <2>1, <2>2, <2>3 DEF Image
<1>7. BufferType'
  <2>1. CASE ReqbufsBegin(c)
    <3>1. /\ img_buff' = [img_buff EXCEPT ![0].order = order'[c]]
          /\ UNCHANGED <<addr, live>>
      BY <2>1 DEF ReqbufsBegin
    <3>2. order'[c] \in Orders \cup {NoOrder}
      BY <1>4 DEF CallType
    <3>3. img_buff' \in [Buffers -> Image]
      BY <1>3, <1>5, <3>1, <3>2 DEF Image
    <3> QED BY <1>5, <3>1, <3>3 DEF BufferType
  <2>2. CASE ReqbufsNext(c)
    BY <1>3, <1>5, <1>6, <2>2 DEF ReqbufsNext, BufferType
  <2>3. CASE ReqbufsDone(c)
    <3>1. /\ img_buff' \in [Buffers -> Image]
          /\ DOMAIN live' \subseteq 1 .. MaxPages
      BY <1>3, <1>6, <2>3 DEF ReqbufsDone
    <3>2. addr' = [i \in Buffers |-> img_buff'[i].phy]
      BY <2>3 DEF ReqbufsDone
    <3> QED BY <3>1, <3>2 DEF BufferType, Image
  <2>4. CASE ReqbufsError(c)
    <3>1. /\ img_buff' = [i \in Buffers |->
               [virt  |-> IF i = next[c] THEN 0 ELSE img_buff[i].virt,
                phy   |-> IF i < next[c] THEN 0 ELSE img_buff[i].phy,
                order |-> img_buff[i].order]]
          /\ DOMAIN live' \subseteq DOMAIN live /\ addr' = addr
      BY <2>4 DEF ReqbufsError
    <3> QED BY <1>5, <3>1 DEF BufferType, Image
  <2> QED BY <2>1, <2>2, <2>3, <2>4 DEF cmos_ov7740_vidioc_reqbufs
<1>8. FlagType'
  <2>1. agreed' \in BOOLEAN /\ met' \in BOOLEAN /\ crossed' \in BOOLEAN
        /\ misfreed' \in BOOLEAN
    BY Zenon DEF cmos_ov7740_vidioc_reqbufs, ReqbufsBegin, ReqbufsNext, ReqbufsDone,
                 ReqbufsError, Parts, FlagType
  <2> QED BY <1>1, <2>1, Zenon DEF Parts, FlagType
<1> QED BY <1>2, <1>4, <1>7, <1>8 DEF Parts

LEMMA StreamonParts ==
  ASSUME Parts, cmos_ov7740_vidioc_streamon
  PROVE  Parts'
<1>1. /\ UNCHANGED <<fmt, buf_size, bytesperline, img_buff, ev_cam, phase, target, addr>>
      /\ UNCHANGED <<live, pc, order, next, tries, alone>>
      /\ sets < MaxSets /\ sets' = sets + 1
      /\ streamed' = streamed \cup {<<fmt.x, fmt.y>>}
  BY DEF cmos_ov7740_vidioc_streamon, Setting, calls
<1>2. fmt.x \in Nat /\ fmt.y \in Nat /\ bytesperline \in Nat
      /\ <<fmt.x, fmt.y>> \in Sizes \cup {<<0, 0>>}
  <2>1. \A s \in Sizes : s[1] \in Nat /\ s[2] \in Nat /\ s = <<s[1], s[2]>>
    BY SizesAssumption
  <2>2. CASE fmt = NoFormat
    BY <2>2 DEF Parts, FormatType, NoFormat
  <2>3. ASSUME NEW f \in Formats, NEW s \in Sizes,
               fmt = [pixelformat |-> f, x |-> s[1], y |-> s[2]]
        PROVE  fmt.x \in Nat /\ fmt.y \in Nat /\ <<fmt.x, fmt.y>> \in Sizes
    BY <2>1, <2>3
  <2> QED BY <2>2, <2>3 DEF Parts, FormatType
<1>3. sc'.hor \in Factors /\ sc'.ver \in Factors
  <2>1. /\ sc'.hor = camif_get_scaler_factor(SRC_Width, fmt.x, sc.hor)
        /\ sc'.ver = camif_get_scaler_factor(SRC_Height, fmt.y, sc.ver)
    BY DEF cmos_ov7740_vidioc_streamon, ScalerInfo
  <2>2. SRC_Width \in Nat /\ SRC_Height \in Nat
    BY DEF SRC_Width, SRC_Height
  <2>3. sc.hor \in Factors /\ sc.ver \in Factors
    BY DEF Parts, ScalerType
  <2> QED BY <1>2, <2>1, <2>2, <2>3, FactorInFactors
<1>4. burst'[1] \in {0, 4, 8, 16} /\ burst'[2] \in 0 .. burst'[1]
  <2>1. burst' = CalculateBurstSize(bytesperline)
    BY DEF cmos_ov7740_vidioc_streamon
  <2> QED BY <1>2, <2>1, BurstRange
<1>5. BitsType'
  <2>1. \A n : Bits(n, 16) \subseteq 0 .. 31 /\ Bits(n, 0) \subseteq 0 .. 31
    BY DEF Bits
  <2> DEFINE hor == ScalerInfo(SRC_Width, fmt.x, sc.hor)
             ver == ScalerInfo(SRC_Height, fmt.y, sc.ver)
             up  == IF hor.up THEN {28} ELSE {}
  <2>2. /\ CIPRSCCTRL' = CIPRSCCTRL \cup {31, 15} \cup up
                           \cup Bits(hor.main, 16) \cup Bits(ver.main, 0)
        /\ CIIMGCPT' = {31, 29}
    BY DEF cmos_ov7740_vidioc_streamon
  <2> HIDE DEF hor, ver
  <2>3. up \subseteq {28}
    BY Zenon
  <2> HIDE DEF up
  <2>4. CIPRSCCTRL \subseteq 0 .. 31 /\ {31, 15} \subseteq 0 .. 31 /\ {28} \subseteq 0 .. 31
    BY DEF Parts, BitsType
  <2>5. CIPRSCCTRL' \subseteq 0 .. 31
    BY <2>1, <2>2, <2>3, <2>4, Zenon
  <2>6. {31, 29} \subseteq 0 .. 31
    OBVIOUS
  <2> QED BY <2>2, <2>5, <2>6, Zenon DEF BitsType
<1>6. FlagType'
  BY Zenon DEF cmos_ov7740_vidioc_streamon, Parts, FlagType
<1>7. FormatType' /\ BufferType' /\ CallType' /\ PlaceType'
  BY <1>1 DEF Parts, FormatType, BufferType, CallType, PlaceType
<1>8. StateType'
  BY <1>1, SetsAssumption DEF Parts, StateType
<1>9. streamed' \subseteq Sizes \cup {<<0, 0>>}
  BY <1>1, <1>2, Zenon DEF Parts, ScalerType
<1> QED BY <1>3, <1>4, <1>5, <1>6, <1>7, <1>8, <1>9 DEF Parts, ScalerType

(* What the steps of a reader, and those of the interface and of the removal, *)
(* leave alone.                                                               *)
LEMMA OthersLeave ==
  ASSUME [Next]_vars, ~cmos_ov7740_vidioc_streamon,
         \A c \in Calls : ~cmos_ov7740_vidioc_reqbufs(c),
         \A format \in Formats, size \in Sizes :
           ~cmos_ov7740_vidioc_s_fmt_vid_cap(format, size)
  PROVE  /\ UNCHANGED <<fmt, buf_size, bytesperline, sc, img_buff, target, burst, addr, tries>>
         /\ UNCHANGED <<order, next, streamed, agreed, alone, met, crossed, CIPRSCCTRL, CIIMGCPT>>
         /\ cmos_ov7740_release \/ UNCHANGED <<live, misfreed>>
         /\ phase' = "gone" => phase = "gone" \/ cmos_ov7740_release
         /\ phase' # "bound" => phase # "bound" \/ \A c \in Calls : next[c] = None
         /\ phase' = "bound" => phase = "bound"
  BY DEF Next, vars, driver, camif, calls, history, Open, Close, ReadBegin, ReadWait, ReadSignal,
         ReadEnd, Reading, cmos_ov7740_vidioc_streamoff, Frame,
         cmos_ov7740_camif_irq_p, Unmap, FreeIrq, Remove, cmos_ov7740_release

LEMMA OthersParts ==
  ASSUME Parts, [Next]_vars, ~cmos_ov7740_vidioc_streamon,
         \A c \in Calls : ~cmos_ov7740_vidioc_reqbufs(c),
         \A format \in Formats, size \in Sizes :
           ~cmos_ov7740_vidioc_s_fmt_vid_cap(format, size)
  PROVE  Parts'
<1>1. /\ UNCHANGED <<fmt, buf_size, bytesperline, sc, img_buff, target, burst, addr, tries>>
      /\ UNCHANGED <<order, next, streamed, agreed, alone, met, crossed, CIPRSCCTRL, CIIMGCPT>>
  BY OthersLeave
<1>2. /\ ev_cam' \in {0, 1}
      /\ phase' \in {"bound", "unmapped", "noirq", "gone"}
      /\ DOMAIN live' \subseteq 1 .. MaxPages
  BY DEF Parts, StateType, BufferType, Next, vars, driver, camif, history, Open, Close,
         ReadBegin, ReadWait, ReadSignal, ReadEnd, Reading, cmos_ov7740_vidioc_streamoff,
         Frame, cmos_ov7740_camif_irq_p, Unmap, FreeIrq, Remove, cmos_ov7740_release
<1>3. sets' \in 0 .. MaxSets
  <2>1. sets' = sets \/ (sets < MaxSets /\ sets' = sets + 1)
    BY DEF Next, vars, driver, camif, history, Open, Close,
           ReadBegin, ReadWait, ReadSignal, ReadEnd, Reading, cmos_ov7740_vidioc_streamoff,
           Frame, cmos_ov7740_camif_irq_p, Unmap, FreeIrq, Remove, cmos_ov7740_release, Setting
  <2> QED BY <2>1, SetsAssumption DEF Parts, StateType
<1>4. FlagType'
  BY ZenonT(60) DEF Parts, FlagType, Next, vars, driver, camif, history, Open, Close, ReadBegin,
         ReadWait, ReadSignal, ReadEnd, Reading, cmos_ov7740_vidioc_streamoff, Frame,
         cmos_ov7740_camif_irq_p, Unmap, FreeIrq, Remove, cmos_ov7740_release
<1>5. PlaceType'
  <2> DEFINE Places == {"closed", "open", "wait", "sleep", "copy"}
  <2>1. pc \in [Readers -> Places]
    BY DEF Parts, PlaceType
  <2>2. ASSUME NEW r, NEW from, NEW to \in Places, Step(r, from, to)
        PROVE  pc' \in [Readers -> Places]
    BY <2>1, <2>2 DEF Step
  <2>3. Woken \in [Readers -> Places]
    BY <2>1 DEF Woken
  <2>4. ASSUME NEW r, Open(r) \/ Close(r) \/ ReadBegin(r) \/ ReadWait(r)
                       \/ ReadSignal(r) \/ ReadEnd(r)
        PROVE  \E from : \E to \in Places : Step(r, from, to)
    BY <2>4 DEF Open, Close, ReadBegin, ReadWait, ReadSignal, ReadEnd
  <2>5. \/ pc' = pc \/ pc' = Woken
        \/ \E r \in Readers : Open(r) \/ Close(r) \/ ReadBegin(r) \/ ReadWait(r)
                                \/ ReadSignal(r) \/ ReadEnd(r)
    BY DEF Next, vars, calls, cmos_ov7740_vidioc_streamoff, Frame, cmos_ov7740_camif_irq_p, Unmap,
           FreeIrq, cmos_ov7740_release
  <2>6. pc' \in [Readers -> Places]
    BY <2>1, <2>2, <2>3, <2>4, <2>5
  <2> QED BY <2>6 DEF PlaceType
<1>6. BufferType' /\ CallType' /\ StateType'
  BY <1>1, <1>2, <1>3 DEF Parts, BufferType, CallType, StateType
<1>7. FormatType' /\ ScalerType' /\ BitsType'
  BY <1>1 DEF Parts, FormatType, ScalerType, BitsType
<1> QED BY <1>4, <1>5, <1>6, <1>7 DEF Parts

LEMMA PartsStep == Parts /\ [Next]_vars => Parts'
BY FormatParts, ReqbufsParts, StreamonParts, OthersParts

(* Type correctness, for every set of resolutions, every number of blocks and *)
(* of calls.                                                                  *)
THEOREM TypeCorrect == Spec => []TypeOK
<1>1. Parts => TypeOK
  <2> SUFFICES ASSUME Parts PROVE TypeOK
    OBVIOUS
  <2>1. \A i \in Buffers : /\ img_buff[i].virt \in 0 .. MaxPages
                           /\ img_buff[i].phy \in 0 .. MaxPages
                           /\ img_buff[i].order \in Orders \cup {NoOrder}
                           /\ addr[i] \in 0 .. MaxPages
    BY DEF Parts, BufferType, Image
  <2> QED BY <2>1 DEF Parts, FormatType, ScalerType, BufferType, CallType, BitsType, StateType,
                      PlaceType, FlagType, TypeOK
<1> QED BY <1>1, PartsInit, PartsStep, PTL DEF Spec

(***************************************************************************)
(* Streaming: bursts and ratios.                                           *)
(***************************************************************************)
Scales(size) == SRC_Width < 64 * size[1] /\ SRC_Height < 64 * size[2]

(* Besides the control bits, CIPRSCCTRL holds the ratios of the resolution    *)
(* streamed, while it is the only one.                                        *)
RatiosKept ==
  /\ streamed = {} => CIPRSCCTRL \ Controls = {}
  /\ \A size : streamed = {size} /\ Scales(size) =>
       CIPRSCCTRL \ Controls = RatioBits(size) \ Controls

LEMMA FormatIsNat ==
  ASSUME Parts
  PROVE  fmt.x \in Nat /\ fmt.y \in Nat
<1>1. \A s \in Sizes : s[1] \in Nat /\ s[2] \in Nat
  BY SizesAssumption
<1> QED BY <1>1 DEF Parts, FormatType, NoFormat

LEMMA StreamonRatios ==
  ASSUME Parts, RatiosKept, cmos_ov7740_vidioc_streamon
  PROVE  RatiosKept'
<1> DEFINE now == <<fmt.x, fmt.y>>
           hor == ScalerInfo(SRC_Width, fmt.x, sc.hor)
           ver == ScalerInfo(SRC_Height, fmt.y, sc.ver)
           up  == IF hor.up THEN {28} ELSE {}
<1>1. /\ CIPRSCCTRL' = CIPRSCCTRL \cup {31, 15} \cup up
                         \cup Bits(hor.main, 16) \cup Bits(ver.main, 0)
      /\ streamed' = streamed \cup {now}
  BY DEF cmos_ov7740_vidioc_streamon
<1>2. up \subseteq Controls /\ {31, 15} \subseteq Controls
  BY DEF Controls
<1>3. ASSUME Scales(now)
      PROVE  hor.main = MainRatio(SRC_Width, fmt.x) /\ ver.main = MainRatio(SRC_Height, fmt.y)
  <2>1. fmt.x = now[1] /\ fmt.y = now[2]
    OBVIOUS
  <2>2. ~(SRC_Width >= 64 * fmt.x) /\ ~(SRC_Height >= 64 * fmt.y)
    <3>1. SRC_Width < 64 * now[1] /\ SRC_Height < 64 * now[2]
      BY <1>3 DEF Scales
    <3> QED BY <2>1, <3>1, FormatIsNat DEF SRC_Width, SRC_Height
  <2> QED BY <2>2 DEF MainRatio, ScalerInfo, camif_get_scaler_factor
<1> HIDE DEF up, hor, ver
<1>4. ASSUME NEW size, streamed' = {size}, Scales(size)
      PROVE  CIPRSCCTRL' \ Controls = RatioBits(size) \ Controls
  <2>1. size = now /\ (streamed = {} \/ streamed = {now})
    BY <1>1, <1>4
  <2>2. RatioBits(now) = Bits(hor.main, 16) \cup Bits(ver.main, 0)
    <3>1. hor.main = MainRatio(SRC_Width, fmt.x) /\ ver.main = MainRatio(SRC_Height, fmt.y)
      BY <1>3, <1>4, <2>1
    <3> QED BY <3>1 DEF RatioBits
  <2>3. CIPRSCCTRL' \ Controls
          = (CIPRSCCTRL \ Controls) \cup ((Bits(hor.main, 16) \cup Bits(ver.main, 0)) \ Controls)
    BY <1>1, <1>2
  <2>4. CIPRSCCTRL \ Controls = {} \/ CIPRSCCTRL \ Controls = RatioBits(now) \ Controls
    BY <1>4, <2>1 DEF RatiosKept
  <2> HIDE DEF now
  <2> QED BY <2>1, <2>2, <2>3, <2>4
<1>5. streamed' # {}
  BY <1>1
<1> QED BY <1>4, <1>5 DEF RatiosKept, RatioBits, Scales

LEMMA RatiosStep == Parts /\ RatiosKept /\ [Next]_vars => RatiosKept'
<1> SUFFICES ASSUME Parts, RatiosKept, [Next]_vars PROVE RatiosKept'
  OBVIOUS
<1>1. ASSUME NEW format \in Formats, NEW size \in Sizes,
             cmos_ov7740_vidioc_s_fmt_vid_cap(format, size)
      PROVE  RatiosKept'
  <2>1. /\ CIPRSCCTRL' = CIPRSCCTRL \cup (IF format = "RGB24" THEN {30} ELSE {})
        /\ streamed' = streamed
    BY <1>1 DEF cmos_ov7740_vidioc_s_fmt_vid_cap
  <2>2. CIPRSCCTRL' \ Controls = CIPRSCCTRL \ Controls
    BY <2>1 DEF Controls
  <2> QED BY <2>1, <2>2 DEF RatiosKept, RatioBits, Scales
<1>2. ASSUME NEW c \in Calls, cmos_ov7740_vidioc_reqbufs(c) PROVE RatiosKept'
  <2>1. UNCHANGED <<CIPRSCCTRL, streamed>>
    BY <1>2 DEF cmos_ov7740_vidioc_reqbufs, ReqbufsBegin, ReqbufsNext, ReqbufsDone, ReqbufsError,
           Requesting
  <2> QED BY <2>1 DEF RatiosKept, RatioBits, Scales
<1>3. ASSUME UNCHANGED <<CIPRSCCTRL, streamed>> PROVE RatiosKept'
  BY <1>3 DEF RatiosKept, RatioBits, Scales
<1> QED BY <1>1, <1>2, <1>3, StreamonRatios, OthersLeave

(* Whatever resolutions applications set and however often streaming starts:  *)
(* a line of an even number of words is tiled by bursts of the lengths that   *)
(* are allowed; for a picture less than 64 times smaller than the sensor's    *)
(* the ratios fit their fields, and CIPRSCCTRL holds them and nothing else as *)
(* long as one resolution only has been streamed.                             *)
THEOREM StreamonFitsAlways == Spec => StreamonFits
<1> DEFINE Fits ==
      /\ bytesperline > 0 /\ bytesperline % 8 = 0 =>
           /\ burst'[1] \in {4, 8, 16} /\ burst'[2] \in {2, 4, 8, 16}
           /\ Tiles(burst', bytesperline \div 4)
      /\ SRC_Width < 64 * fmt.x /\ SRC_Height < 64 * fmt.y =>
           /\ FitsScaler(SRC_Width, fmt.x, sc'.hor) /\ FitsScaler(SRC_Height, fmt.y, sc'.ver)
           /\ streamed' = {<<fmt.x, fmt.y>>} =>
                CIPRSCCTRL' \ Controls = RatioBits(<<fmt.x, fmt.y>>) \ Controls
<1>1. Parts /\ RatiosKept /\ cmos_ov7740_vidioc_streamon => Fits
  <2> SUFFICES ASSUME Parts, RatiosKept, cmos_ov7740_vidioc_streamon PROVE Fits
    OBVIOUS
  <2>1. burst' = CalculateBurstSize(bytesperline)
    BY DEF cmos_ov7740_vidioc_streamon
  <2>2. /\ sc'.hor = camif_get_scaler_factor(SRC_Width, fmt.x, sc.hor)
        /\ sc'.ver = camif_get_scaler_factor(SRC_Height, fmt.y, sc.ver)
    BY DEF cmos_ov7740_vidioc_streamon, ScalerInfo
  <2>3. fmt.x \in Nat /\ fmt.y \in Nat /\ bytesperline \in Nat
    BY FormatIsNat DEF Parts, FormatType
  <2>4. ASSUME bytesperline > 0, bytesperline % 8 = 0
        PROVE  /\ burst'[1] \in {4, 8, 16} /\ burst'[2] \in {2, 4, 8, 16}
               /\ Tiles(burst', bytesperline \div 4)
    <3>1. bytesperline >= 4
      BY <2>3, <2>4
    <3> QED BY <2>1, <2>3, <2>4, <3>1, BurstsTile, BurstsAllowed
  <2>5. ASSUME SRC_Width < 64 * fmt.x, SRC_Height < 64 * fmt.y
        PROVE  FitsScaler(SRC_Width, fmt.x, sc'.hor) /\ FitsScaler(SRC_Height, fmt.y, sc'.ver)
    <3>1. /\ fmt.x \in Nat \ {0} /\ SRC_Width \in Nat
          /\ fmt.y \in Nat \ {0} /\ SRC_Height \in Nat
      BY <2>3, <2>5 DEF SRC_Width, SRC_Height
    <3> QED BY <2>2, <2>5, <3>1, FactorFits
  <2>6. RatiosKept'
    BY StreamonRatios
  <2>7. ASSUME SRC_Width < 64 * fmt.x, SRC_Height < 64 * fmt.y, streamed' = {<<fmt.x, fmt.y>>}
        PROVE  CIPRSCCTRL' \ Controls = RatioBits(<<fmt.x, fmt.y>>) \ Controls
    <3> DEFINE now == <<fmt.x, fmt.y>>
    <3>1. Scales(now)
      BY <2>7 DEF Scales
    <3>2. \A size : streamed' = {size} /\ Scales(size) =>
            CIPRSCCTRL' \ Controls = RatioBits(size) \ Controls
      BY <2>6 DEF RatiosKept, RatioBits, Scales
    <3> QED BY <2>7, <3>1, <3>2
  <2> QED BY <2>4, <2>5, <2>7
<1>2. Parts /\ RatiosKept /\ [Next]_vars => [cmos_ov7740_vidioc_streamon => Fits]_vars
  BY <1>1
<1>3. Init => RatiosKept
  BY DEF Init, RatiosKept
<1> QED BY <1>2, <1>3, RatiosStep, PartsInit, PartsStep, PTL DEF Spec, StreamonFits

(***************************************************************************)
(* The buffers, through requests that overlap.                             *)
(***************************************************************************)
(* Calls under way have begun; one that has met no other is the only one;   *)
(* none is under way once the driver is removed.                            *)
CallsKept ==
  /\ \A c \in Calls : next[c] # None => c <= tries
  /\ \A c \in alone : next[c] # None /\ \A d \in Calls : next[d] # None => d = c
  /\ phase # "bound" => \A c \in Calls : next[c] = None

(* During the first call, and after it, the driver still names every block. *)
FirstKept ==
  tries <= 1 /\ phase # "gone" =>
    /\ DOMAIN live \subseteq Owned
    /\ tries = 0 => \A i \in Buffers : img_buff[i].virt = 0
    /\ \A c \in Calls : next[c] # None =>
         \A i \in Buffers : i >= next[c] => img_buff[i].virt = 0

(* As long as no call fails that has met another: what the DMA writes to is   *)
(* allocated, what a call has allocated so far still is, and for a call that  *)
(* met no other it is of its order, and nothing the DMA writes to.            *)
BlocksKept ==
  ~crossed /\ phase # "gone" =>
    /\ \A i \in Buffers : addr[i] # 0 => addr[i] \in DOMAIN live
    /\ \A c \in Calls, i \in Buffers : next[c] # None /\ i < next[c] =>
         img_buff[i].phy = img_buff[i].virt /\ img_buff[i].phy \in DOMAIN live
    /\ \A c \in alone, i \in Buffers : i < next[c] =>
         /\ live[img_buff[i].phy] = order[c]
         /\ \A j \in Buffers : addr[j] # img_buff[i].phy

(* As long as no two calls have met, the buffers that the DMA has are freed   *)
(* with the order they were allocated with.                                   *)
OrdersKept ==
  ~met /\ phase # "gone" =>
    /\ ~crossed /\ ~misfreed
    /\ \A c \in Calls : next[c] # None =>
         c \in alone /\ \A i \in Buffers : i <= next[c] => img_buff[i].order = order[c]
    /\ \A i \in Buffers : addr[i] # 0 /\ img_buff[i].virt = addr[i]
                             /\ (\A c \in Calls : next[c] # i) =>
         img_buff[i].order = live[addr[i]]

Kept == CallsKept /\ FirstKept /\ BlocksKept /\ OrdersKept /\ ReleaseFreesOnce

LEMMA KeptInit == Init => Kept
<1> SUFFICES ASSUME Init PROVE Kept
  OBVIOUS
<1>1. phase = "bound" /\ alone = {} /\ ~met /\ ~crossed /\ ~misfreed /\ tries = 0 /\ DOMAIN live = {}
  BY DEF Init
<1>2. /\ \A c \in Calls : next[c] = None
      /\ \A i \in Buffers : img_buff[i].virt = 0 /\ addr[i] = 0
  BY DEF Init
<1> QED BY <1>1, <1>2 DEF Kept, CallsKept, FirstKept, BlocksKept, OrdersKept, ReleaseFreesOnce

(* What a step of a call does to the calls. *)
LEMMA CallsReqbufs ==
  ASSUME Parts, CallsKept, NEW c \in Calls, cmos_ov7740_vidioc_reqbufs(c)
  PROVE  CallsKept' /\ phase = "bound" /\ phase' = "bound"
<1>1. /\ tries \in Nat /\ c \in Nat /\ next \in [Calls -> Buffers \cup {None}]
      /\ None \notin Buffers
  BY DEF Parts, CallType, Calls, Buffers, None
<1>2. phase' = phase
  BY DEF cmos_ov7740_vidioc_reqbufs, ReqbufsBegin, ReqbufsNext, ReqbufsDone, ReqbufsError,
         Requesting
<1>3. CASE ReqbufsBegin(c)
  <2>1. /\ phase = "bound" /\ c = tries + 1 /\ tries' = c /\ next' = [next EXCEPT ![c] = 0]
        /\ alone' = IF \A d \in Calls : next[d] = None THEN {c} ELSE {}
    BY <1>3 DEF ReqbufsBegin, Ioctl
  <2>2. \A d \in Calls : next'[d] = IF d = c THEN 0 ELSE next[d]
    BY <1>1, <2>1
  <2>3. ASSUME NEW d \in Calls, next'[d] # None PROVE d <= tries'
    <3>1. d \in Nat
      BY DEF Calls
    <3> QED BY <1>1, <2>1, <2>2, <2>3, <3>1 DEF CallsKept
  <2>4. 0 # None
    BY DEF None
  <2>5. ASSUME NEW d \in alone'
        PROVE  next'[d] # None /\ \A e \in Calls : next'[e] # None => e = d
    BY <2>1, <2>2, <2>4, <2>5
  <2> QED BY <1>2, <2>1, <2>3, <2>5 DEF CallsKept
<1>4. CASE ~ReqbufsBegin(c)
  <2>1. /\ next[c] # None /\ tries' = tries
        /\ \/ next' = [next EXCEPT ![c] = @ + 1] /\ next[c] \in 0 .. 2 /\ alone' = alone
           \/ next' = [next EXCEPT ![c] = None] /\ alone' = alone \ {c}
    BY <1>4 DEF cmos_ov7740_vidioc_reqbufs, ReqbufsNext, ReqbufsDone, ReqbufsError, Return, None
  <2>2. phase = "bound"
    BY <2>1 DEF CallsKept
  <2>3. \A d \in Calls : next'[d] # None => next[d] # None
    BY <1>1, <2>1
  <2>4. \A d \in alone' : d \in alone /\ next'[d] # None
    <3>1. ASSUME NEW d \in alone' PROVE d \in alone /\ next'[d] # None
      <4>1. d \in alone /\ d \in Calls
        BY <2>1 DEF Parts, CallType
      <4>2. next[d] # None
        BY <4>1 DEF CallsKept
      <4>3. next[c] \in 0 .. 2 => next[c] + 1 # None
        BY DEF None
      <4> QED BY <1>1, <2>1, <4>1, <4>2, <4>3
    <3> QED BY <3>1
  <2> QED BY <1>2, <2>1, <2>2, <2>3, <2>4 DEF CallsKept
<1> QED BY <1>2, <1>3, <1>4

(* What beginning changes, and the buffers after an allocation. *)
LEMMA BeginsBuffer ==
  ASSUME Parts, NEW c \in Calls, ReqbufsBegin(c)
  PROVE  /\ \A i \in Buffers :
              /\ img_buff'[i].virt = img_buff[i].virt
              /\ img_buff'[i].phy = img_buff[i].phy
              /\ i # 0 => img_buff'[i].order = img_buff[i].order
         /\ img_buff'[0].order = order'[c]
<1>1. img_buff' = [img_buff EXCEPT ![0].order = order'[c]]
  BY DEF ReqbufsBegin
<1>2. img_buff \in [Buffers -> Image] /\ 0 \in Buffers
  BY DEF Parts, BufferType, Buffers
<1> QED BY <1>1, <1>2 DEF Image

LEMMA AllocatesPage ==
  ASSUME Parts, NEW c \in Calls, next[c] \in Buffers, Allocates(c)
  PROVE  /\ Page \notin DOMAIN live /\ Page # 0 /\ order[c] \in Orders
         /\ DOMAIN live' = DOMAIN live \cup {Page}
         /\ live'[Page] = order[c] /\ \A p \in DOMAIN live : live'[p] = live[p]
         /\ \A i \in Buffers : i # next[c] =>
             img_buff'[i].virt = img_buff[i].virt /\ img_buff'[i].phy = img_buff[i].phy
         /\ img_buff'[next[c]].virt = Page /\ img_buff'[next[c]].phy = Page
         /\ \A i \in Buffers : img_buff'[i].order
                               = IF i = next[c] + 1 THEN order[c] ELSE img_buff[i].order
<1>1. /\ order[c] \in Orders /\ FreePages # {}
      /\ live' = [p \in DOMAIN live \cup {Page} |-> IF p = Page THEN order[c] ELSE live[p]]
      /\ img_buff' = [i \in Buffers |->
           [virt  |-> IF i = next[c] THEN Page ELSE img_buff[i].virt,
            phy   |-> IF i = next[c] THEN Page ELSE img_buff[i].phy,
            order |-> IF i = next[c] + 1 THEN order[c] ELSE img_buff[i].order]]
  BY DEF Allocates
<1>2. Page \notin DOMAIN live /\ Page # 0
  BY <1>1, PageIsFree
<1>3. /\ DOMAIN live' = DOMAIN live \cup {Page}
      /\ live'[Page] = order[c] /\ \A p \in DOMAIN live : live'[p] = live[p]
  BY <1>1, <1>2, Zenon
<1>4. /\ \A i \in Buffers : i # next[c] =>
           img_buff'[i].virt = img_buff[i].virt /\ img_buff'[i].phy = img_buff[i].phy
      /\ img_buff'[next[c]].virt = Page /\ img_buff'[next[c]].phy = Page
  BY <1>1
<1>5. \A i \in Buffers : img_buff'[i].order
                         = IF i = next[c] + 1 THEN order[c] ELSE img_buff[i].order
  BY <1>1
<1> QED BY <1>1, <1>2, <1>3, <1>4, <1>5

LEMMA FirstReqbufs ==
  ASSUME Parts, CallsKept, FirstKept, NEW c \in Calls, cmos_ov7740_vidioc_reqbufs(c)
  PROVE  FirstKept'
<1>1. /\ phase = "bound" /\ CallsKept'
      /\ tries \in Nat /\ next \in [Calls -> Buffers \cup {None}] /\ None = 4
      /\ Calls = 1 .. MaxTries /\ Buffers = 0 .. 3 /\ DOMAIN img_buff = Buffers
  BY CallsReqbufs DEF Parts, CallType, BufferType, Calls, Buffers, None
<1> SUFFICES ASSUME tries' <= 1
             PROVE  /\ DOMAIN live' \subseteq Owned'
                    /\ tries' = 0 => \A i \in Buffers : img_buff'[i].virt = 0
                    /\ \A d \in Calls : next'[d] # None =>
                         \A i \in Buffers : i >= next'[d] => img_buff'[i].virt = 0
  BY DEF FirstKept
<1>2. Owned' = { img_buff'[i].virt : i \in Buffers } \ {0}
  BY DEF Owned
<1>3. CASE ReqbufsBegin(c)
  <2>1. /\ c = tries + 1 /\ tries' = c /\ next' = [next EXCEPT ![c] = 0]
        /\ live' = live /\ \A i \in Buffers : img_buff'[i].virt = img_buff[i].virt
    BY <1>3, BeginsBuffer DEF ReqbufsBegin
  <2>2. tries = 0 /\ tries' = 1
    BY <1>1, <2>1
  <2>3. DOMAIN live \subseteq Owned /\ \A i \in Buffers : img_buff[i].virt = 0
    BY <1>1, <2>2 DEF FirstKept
  <2> QED BY <1>2, <2>1, <2>2, <2>3 DEF Owned
<1>4. CASE ~ReqbufsBegin(c)
  <2>1. next[c] # None /\ tries' = tries
    BY <1>4 DEF cmos_ov7740_vidioc_reqbufs, ReqbufsNext, ReqbufsDone, ReqbufsError, None
  <2>2. c = 1 /\ tries = 1 /\ \A d \in Calls : next'[d] # None => d = 1
    <3>1. c <= tries
      BY <2>1 DEF CallsKept
    <3>2. \A d \in Calls : next'[d] # None => d <= tries'
      BY <1>1 DEF CallsKept
    <3> QED BY <1>1, <2>1, <3>1, <3>2
  <2>3. /\ DOMAIN live \subseteq Owned
        /\ \A i \in Buffers : i >= next[c] => img_buff[i].virt = 0
    BY <1>1, <2>1, <2>2 DEF FirstKept
  <2>4. CASE ReqbufsError(c)
    <3> DEFINE before == { i \in Buffers : i < next[c] }
               freed  == { img_buff[i].virt : i \in before } \ {0}
    <3>1. DOMAIN live' = DOMAIN live \ freed /\ next' = [next EXCEPT ![c] = None]
      BY <2>4 DEF ReqbufsError, Return
    <3>2. DOMAIN live' = {}
      <4> SUFFICES ASSUME NEW p \in DOMAIN live' PROVE FALSE
        OBVIOUS
      <4>1. p \in Owned /\ p \notin freed
        BY <2>3, <3>1
      <4>2. PICK i \in Buffers : p = img_buff[i].virt /\ p # 0
        BY <4>1 DEF Owned
      <4>3. i < next[c]
        BY <1>1, <2>3, <4>2
      <4> QED BY <4>1, <4>2, <4>3
    <3>3. \A d \in Calls : next'[d] = None
      BY <1>1, <2>2, <3>1
    <3> QED BY <2>1, <2>2, <3>2, <3>3
  <2>5. CASE Allocates(c) /\ next[c] \in Buffers
             /\ (next'[c] = next[c] + 1 \/ next'[c] = None)
    <3>1. /\ DOMAIN live' = DOMAIN live \cup {Page} /\ Page # 0
          /\ \A i \in Buffers : i # next[c] =>
             img_buff'[i].virt = img_buff[i].virt /\ img_buff'[i].phy = img_buff[i].phy
          /\ img_buff'[next[c]].virt = Page
      BY <2>5, AllocatesPage
    <3>2. DOMAIN live' \subseteq Owned'
      <4> SUFFICES ASSUME NEW p \in DOMAIN live' PROVE p \in Owned'
        OBVIOUS
      <4>1. CASE p = Page
        BY <1>2, <2>5, <3>1, <4>1
      <4>2. CASE p \in DOMAIN live
        <5>1. PICK i \in Buffers : p = img_buff[i].virt /\ p # 0
          BY <2>3, <4>2 DEF Owned
        <5>2. i # next[c]
          BY <1>1, <2>3, <2>5, <5>1
        <5> QED BY <1>2, <3>1, <5>1, <5>2
      <4> QED BY <3>1, <4>1, <4>2
    <3>3. ASSUME NEW d \in Calls, next'[d] # None, NEW i \in Buffers, i >= next'[d]
          PROVE  img_buff'[i].virt = 0
      <4>1. d = c /\ next'[d] = next[c] + 1
        BY <2>2, <2>5, <3>3
      <4>2. i # next[c] /\ i >= next[c]
        BY <1>1, <2>5, <3>3, <4>1
      <4> QED BY <2>3, <3>1, <4>2
    <3> QED BY <2>1, <2>2, <3>2, <3>3
  <2>6. ReqbufsError(c) \/ (Allocates(c) /\ next[c] \in Buffers
                            /\ (next'[c] = next[c] + 1 \/ next'[c] = None))
    <3>1. ReqbufsNext(c) => next[c] \in Buffers /\ next'[c] = next[c] + 1 /\ Allocates(c)
      BY <1>1 DEF ReqbufsNext
    <3>2. ReqbufsDone(c) => next[c] \in Buffers /\ next'[c] = None /\ Allocates(c)
      BY <1>1 DEF ReqbufsDone, Return
    <3> QED BY <1>4, <3>1, <3>2 DEF cmos_ov7740_vidioc_reqbufs
  <2> QED BY <2>4, <2>5, <2>6
<1> QED BY <1>3, <1>4

(* The removal is never undone. *)
LEMMA PhaseForward ==
  ASSUME [Next]_vars
  PROVE  phase = "gone" => phase' = "gone"
<1>1. ASSUME NEW c \in Calls, cmos_ov7740_vidioc_reqbufs(c) PROVE phase' = phase
  BY <1>1 DEF cmos_ov7740_vidioc_reqbufs, ReqbufsBegin, ReqbufsNext, ReqbufsDone, ReqbufsError,
         Requesting
<1>2. ASSUME NEW format, NEW size, cmos_ov7740_vidioc_s_fmt_vid_cap(format, size)
      PROVE  phase' = phase
  BY <1>2 DEF cmos_ov7740_vidioc_s_fmt_vid_cap
<1>3. cmos_ov7740_vidioc_streamon => phase' = phase
  BY DEF cmos_ov7740_vidioc_streamon
<1> QED BY <1>1, <1>2, <1>3 DEF Next, vars, driver, camif, calls, history, Open, Close, ReadBegin,
         ReadWait, ReadSignal, ReadEnd, Reading, cmos_ov7740_vidioc_streamoff, Frame,
         cmos_ov7740_camif_irq_p, Unmap, FreeIrq, Remove, cmos_ov7740_release

LEMMA BlocksReqbufs ==
  ASSUME Parts, CallsKept, BlocksKept, NEW c \in Calls, cmos_ov7740_vidioc_reqbufs(c)
  PROVE  BlocksKept'
<1>1. /\ phase = "bound" /\ CallsKept'
      /\ next \in [Calls -> Buffers \cup {None}] /\ None = 4
      /\ Buffers = 0 .. 3 /\ DOMAIN img_buff = Buffers /\ alone \subseteq Calls
      /\ order \in [Calls -> Orders \cup {NoOrder}]
  BY CallsReqbufs DEF Parts, CallType, BufferType, Buffers, None
<1>2. crossed => crossed'
  BY DEF cmos_ov7740_vidioc_reqbufs, ReqbufsBegin, ReqbufsNext, ReqbufsDone, ReqbufsError
<1> SUFFICES ASSUME ~crossed'
             PROVE  /\ \A i \in Buffers : addr'[i] # 0 => addr'[i] \in DOMAIN live'
                    /\ \A d \in Calls, i \in Buffers : next'[d] # None /\ i < next'[d] =>
                         img_buff'[i].phy = img_buff'[i].virt /\ img_buff'[i].phy \in DOMAIN live'
                    /\ \A d \in alone', i \in Buffers : i < next'[d] =>
                         /\ live'[img_buff'[i].phy] = order'[d]
                         /\ \A j \in Buffers : addr'[j] # img_buff'[i].phy
  BY DEF BlocksKept
<1>3. /\ \A i \in Buffers : addr[i] # 0 => addr[i] \in DOMAIN live
      /\ \A d \in Calls, i \in Buffers : next[d] # None /\ i < next[d] =>
           img_buff[i].phy = img_buff[i].virt /\ img_buff[i].phy \in DOMAIN live
      /\ \A d \in alone, i \in Buffers : i < next[d] =>
           /\ live[img_buff[i].phy] = order[d]
           /\ \A j \in Buffers : addr[j] # img_buff[i].phy
  BY <1>1, <1>2 DEF BlocksKept
<1>4. CASE ReqbufsBegin(c)
  <2>1. /\ order' = [order EXCEPT ![c] = get_order(buf_size)]
        /\ next' = [next EXCEPT ![c] = 0] /\ alone' \subseteq {c}
        /\ UNCHANGED <<addr, live>>
        /\ \A i \in Buffers :
             img_buff'[i].virt = img_buff[i].virt /\ img_buff'[i].phy = img_buff[i].phy
    BY <1>4, BeginsBuffer DEF ReqbufsBegin
  <2>2. next'[c] = 0 /\ \A d \in Calls : d # c => next'[d] = next[d]
    BY <1>1, <2>1
  <2>3. \A i \in Buffers : ~(i < 0)
    BY <1>1
  <2> QED BY <1>3, <2>1, <2>2, <2>3
<1>5. CASE ReqbufsNext(c)
  <2>1. /\ next[c] \in 0 .. 2 /\ next' = [next EXCEPT ![c] = @ + 1]
        /\ Allocates(c) /\ UNCHANGED <<order, addr, alone>>
    BY <1>5 DEF ReqbufsNext
  <2>2. /\ Page \notin DOMAIN live /\ Page # 0
        /\ DOMAIN live' = DOMAIN live \cup {Page}
        /\ live'[Page] = order[c] /\ \A p \in DOMAIN live : live'[p] = live[p]
        /\ \A i \in Buffers : i # next[c] =>
             img_buff'[i].virt = img_buff[i].virt /\ img_buff'[i].phy = img_buff[i].phy
        /\ img_buff'[next[c]].virt = Page /\ img_buff'[next[c]].phy = Page
    <3>1. next[c] \in Buffers
      BY <1>1, <2>1
    <3> QED BY <2>1, <3>1, AllocatesPage
  <2>3. ASSUME NEW d \in Calls, NEW i \in Buffers, next'[d] # None, i < next'[d]
        PROVE  img_buff'[i].phy = img_buff'[i].virt /\ img_buff'[i].phy \in DOMAIN live'
    <3>1. CASE i = next[c]
      BY <2>2, <3>1
    <3>2. CASE i # next[c]
      <4>1. next[d] # None /\ i < next[d]
        BY <1>1, <2>1, <2>3, <3>2
      <4> QED BY <1>3, <2>2, <3>2, <4>1
    <3> QED BY <3>1, <3>2
  <2>4. ASSUME NEW d \in alone', NEW i \in Buffers, i < next'[d]
        PROVE  /\ live'[img_buff'[i].phy] = order'[d]
               /\ \A j \in Buffers : addr'[j] # img_buff'[i].phy
    <3>1. d = c /\ d \in alone
      <4>1. d \in alone /\ d \in Calls /\ next[c] # None
        BY <1>1, <2>1, <2>4
      <4> QED BY <4>1 DEF CallsKept
    <3>2. CASE i = next[c]
      BY <1>3, <2>1, <2>2, <3>1, <3>2
    <3>3. CASE i # next[c]
      <4>1. i < next[d] /\ next[d] # None
        BY <1>1, <2>1, <2>4, <3>1, <3>3
      <4>2. img_buff[i].phy \in DOMAIN live /\ live[img_buff[i].phy] = order[d]
        BY <1>1, <1>3, <3>1, <4>1
      <4> QED BY <1>3, <2>1, <2>2, <3>1, <3>3, <4>1, <4>2
    <3> QED BY <3>2, <3>3
  <2>5. \A i \in Buffers : addr'[i] # 0 => addr'[i] \in DOMAIN live'
    BY <1>3, <2>1, <2>2
  <2> QED BY <2>3, <2>4, <2>5
<1>6. CASE ReqbufsDone(c)
  <2>1. /\ next[c] = 3 /\ next' = [next EXCEPT ![c] = None]
        /\ order' = [order EXCEPT ![c] = NoOrder] /\ alone' = alone \ {c}
        /\ Allocates(c) /\ addr' = [i \in Buffers |-> img_buff'[i].phy]
    BY <1>6 DEF ReqbufsDone, Return
  <2>2. /\ DOMAIN live' = DOMAIN live \cup {Page}
        /\ \A i \in Buffers : i # next[c] =>
             img_buff'[i].virt = img_buff[i].virt /\ img_buff'[i].phy = img_buff[i].phy
        /\ img_buff'[next[c]].virt = Page /\ img_buff'[next[c]].phy = Page
    <3>1. next[c] \in Buffers
      BY <1>1, <2>1
    <3> QED BY <2>1, <3>1, AllocatesPage
  <2>3. ASSUME NEW i \in Buffers
        PROVE  img_buff'[i].phy = img_buff'[i].virt /\ img_buff'[i].phy \in DOMAIN live'
    <3>1. CASE i = 3
      BY <2>1, <2>2, <3>1
    <3>2. CASE i # 3
      <4>1. i < next[c] /\ next[c] # None
        BY <1>1, <2>1, <3>2
      <4> QED BY <1>3, <2>1, <2>2, <3>2, <4>1
    <3> QED BY <3>1, <3>2
  <2>4. alone' = {}
    <3>1. ASSUME NEW d \in alone' PROVE FALSE
      <4>1. d \in alone /\ d # c /\ next[c] # None
        BY <1>1, <2>1, <3>1
      <4> QED BY <4>1 DEF CallsKept
    <3> QED BY <3>1
  <2>5. \A i \in Buffers : addr'[i] \in DOMAIN live'
    BY <2>1, <2>3
  <2> QED BY <1>3, <2>1, <2>3, <2>4, <2>5
<1>7. CASE ReqbufsError(c)
  <2> DEFINE before == { i \in Buffers : i < next[c] }
             freed  == { img_buff[i].virt : i \in before } \ {0}
  <2>1. /\ next[c] # None /\ next' = [next EXCEPT ![c] = None]
        /\ alone' = alone \ {c} /\ crossed' = (crossed \/ c \notin alone)
        /\ DOMAIN live' = DOMAIN live \ freed /\ addr' = addr
    BY <1>7 DEF ReqbufsError, Return
  <2>2. c \in alone
    BY <2>1, Zenon
  <2>3. \A d \in Calls : next'[d] = None
    BY <1>1, <2>1, <2>2 DEF CallsKept
  <2>4. \A p \in freed : p \in DOMAIN live /\ \A j \in Buffers : addr[j] # p
    <3>1. ASSUME NEW i \in Buffers, i < next[c]
          PROVE  /\ img_buff[i].virt \in DOMAIN live
                 /\ \A j \in Buffers : addr[j] # img_buff[i].virt
      BY <1>1, <1>3, <2>1, <2>2, <3>1
    <3> QED BY <3>1
  <2>5. alone' = {}
    BY <2>1, <2>2 DEF CallsKept
  <2>6. \A i \in Buffers : addr'[i] # 0 => addr'[i] \in DOMAIN live'
    BY <1>3, <2>1, <2>4
  <2> QED BY <2>3, <2>5, <2>6
<1> QED BY <1>4, <1>5, <1>6, <1>7 DEF cmos_ov7740_vidioc_reqbufs

LEMMA OrdersReqbufs ==
  ASSUME Parts, CallsKept, BlocksKept, OrdersKept, NEW c \in Calls, cmos_ov7740_vidioc_reqbufs(c)
  PROVE  OrdersKept'
<1>1. /\ phase = "bound"
      /\ next \in [Calls -> Buffers \cup {None}] /\ None = 4
      /\ Buffers = 0 .. 3 /\ alone \subseteq Calls
      /\ order \in [Calls -> Orders \cup {NoOrder}]
  BY CallsReqbufs DEF Parts, CallType, Buffers, None
<1>2. met => met'
  BY DEF cmos_ov7740_vidioc_reqbufs, ReqbufsBegin, ReqbufsNext, ReqbufsDone, ReqbufsError
<1> SUFFICES ASSUME ~met'
             PROVE  /\ ~crossed' /\ ~misfreed'
                    /\ \A d \in Calls : next'[d] # None =>
                         /\ d \in alone'
                         /\ \A i \in Buffers : i <= next'[d] => img_buff'[i].order = order'[d]
                    /\ \A i \in Buffers : addr'[i] # 0 /\ img_buff'[i].virt = addr'[i]
                                            /\ (\A d \in Calls : next'[d] # i) =>
                         img_buff'[i].order = live'[addr'[i]]
  BY DEF OrdersKept
<1>3. /\ ~crossed /\ ~misfreed
      /\ \A d \in Calls : next[d] # None =>
           d \in alone /\ \A i \in Buffers : i <= next[d] => img_buff[i].order = order[d]
      /\ \A i \in Buffers : addr[i] # 0 /\ img_buff[i].virt = addr[i]
                              /\ (\A d \in Calls : next[d] # i) =>
           img_buff[i].order = live[addr[i]]
  BY <1>1, <1>2 DEF OrdersKept
<1>4. /\ \A i \in Buffers : addr[i] # 0 => addr[i] \in DOMAIN live
      /\ \A d \in Calls, i \in Buffers : next[d] # None /\ i < next[d] =>
           /\ img_buff[i].phy = img_buff[i].virt /\ img_buff[i].phy \in DOMAIN live
           /\ live[img_buff[i].phy] = order[d]
           /\ \A j \in Buffers : addr[j] # img_buff[i].phy
  BY <1>1, <1>3 DEF BlocksKept
<1>5. next[c] # None => \A d \in Calls : next[d] # None => d = c
  BY <1>3 DEF CallsKept
<1>6. CASE ReqbufsBegin(c)
  <2>1. /\ order' = [order EXCEPT ![c] = get_order(buf_size)]
        /\ next' = [next EXCEPT ![c] = 0]
        /\ alone' = IF \A d \in Calls : next[d] = None THEN {c} ELSE {}
        /\ met' = (met \/ ~(\A d \in Calls : next[d] = None))
        /\ UNCHANGED <<addr, live, crossed, misfreed>>
    BY <1>6 DEF ReqbufsBegin
  <2>2. \A d \in Calls : next[d] = None
    BY <2>1, Zenon
  <2>3. next'[c] = 0 /\ \A d \in Calls : d # c => next'[d] = None
    BY <1>1, <2>1, <2>2
  <2>4. ASSUME NEW d \in Calls, next'[d] # None
        PROVE  /\ d \in alone'
               /\ \A i \in Buffers : i <= next'[d] => img_buff'[i].order = order'[d]
    <3>1. d = c /\ alone' = {c}
      BY <2>1, <2>2, <2>3, <2>4
    <3>2. \A i \in Buffers : i <= 0 => i = 0
      BY <1>1
    <3> QED BY <1>6, <2>3, <3>1, <3>2, BeginsBuffer
  <2>5. ASSUME NEW i \in Buffers, addr'[i] # 0, img_buff'[i].virt = addr'[i],
               \A d \in Calls : next'[d] # i
        PROVE  img_buff'[i].order = live'[addr'[i]]
    <3>1. i # 0 /\ \A d \in Calls : next[d] # i
      BY <1>1, <2>2, <2>3, <2>5
    <3>2. img_buff'[i].virt = img_buff[i].virt /\ img_buff'[i].order = img_buff[i].order
      BY <1>6, <3>1, BeginsBuffer
    <3> QED BY <1>3, <2>1, <2>5, <3>1, <3>2
  <2> QED BY <1>3, <2>1, <2>4, <2>5
<1>7. CASE ReqbufsNext(c)
  <2>1. /\ next[c] \in 0 .. 2 /\ next' = [next EXCEPT ![c] = @ + 1]
        /\ Allocates(c) /\ UNCHANGED <<order, addr, alone, crossed, misfreed>>
    BY <1>7 DEF ReqbufsNext
  <2>2. next[c] # None /\ next[c] \in Buffers /\ next'[c] = next[c] + 1
        /\ \A d \in Calls : d # c => next'[d] = None
    BY <1>1, <1>5, <2>1
  <2>3. /\ Page \notin DOMAIN live /\ Page # 0
        /\ \A p \in DOMAIN live : live'[p] = live[p]
        /\ \A i \in Buffers : i # next[c] => img_buff'[i].virt = img_buff[i].virt
        /\ img_buff'[next[c]].virt = Page
        /\ \A i \in Buffers : img_buff'[i].order
                              = IF i = next[c] + 1 THEN order[c] ELSE img_buff[i].order
    BY <2>1, <2>2, AllocatesPage
  <2>4. ASSUME NEW d \in Calls, next'[d] # None
        PROVE  /\ d \in alone'
               /\ \A i \in Buffers : i <= next'[d] => img_buff'[i].order = order'[d]
    <3>1. d = c /\ c \in alone'
      BY <1>3, <2>1, <2>2, <2>4
    <3>2. ASSUME NEW i \in Buffers, i <= next'[c] PROVE img_buff'[i].order = order[c]
      <4>1. i = next[c] + 1 \/ i <= next[c]
        BY <1>1, <2>1, <2>2, <3>2
      <4> QED BY <1>3, <2>2, <2>3, <4>1
    <3> QED BY <2>1, <3>1, <3>2
  <2>5. ASSUME NEW i \in Buffers, addr'[i] # 0, img_buff'[i].virt = addr'[i],
               \A d \in Calls : next'[d] # i
        PROVE  img_buff'[i].order = live'[addr'[i]]
    <3>1. addr[i] \in DOMAIN live /\ addr'[i] = addr[i]
      BY <1>4, <2>1, <2>5
    <3>2. i # next[c] /\ i # next[c] + 1
      BY <2>2, <2>3, <2>5, <3>1
    <3>3. \A d \in Calls : next[d] # i
      BY <1>1, <1>5, <2>2, <3>2
    <3> QED BY <1>3, <2>3, <2>5, <3>1, <3>2, <3>3
  <2> QED BY <1>3, <2>1, <2>4, <2>5
<1>8. CASE ReqbufsDone(c)
  <2>1. /\ next[c] = 3 /\ next' = [next EXCEPT ![c] = None]
        /\ Allocates(c) /\ addr' = [i \in Buffers |-> img_buff'[i].phy]
        /\ UNCHANGED <<crossed, misfreed>>
    BY <1>8 DEF ReqbufsDone, Return
  <2>2. next[c] # None /\ next[c] \in Buffers /\ \A d \in Calls : next'[d] = None
    BY <1>1, <1>5, <2>1
  <2>3. /\ live'[Page] = order[c] /\ \A p \in DOMAIN live : live'[p] = live[p]
        /\ \A i \in Buffers : i # next[c] => img_buff'[i].phy = img_buff[i].phy
        /\ img_buff'[next[c]].phy = Page
        /\ \A i \in Buffers : img_buff'[i].order
                              = IF i = next[c] + 1 THEN order[c] ELSE img_buff[i].order
    BY <2>1, <2>2, AllocatesPage
  <2>4. ASSUME NEW i \in Buffers PROVE img_buff'[i].order = live'[addr'[i]]
    <3>1. i <= next[c] /\ i # next[c] + 1
      BY <1>1, <2>1
    <3>2. img_buff'[i].order = order[c]
      BY <1>3, <2>2, <2>3, <3>1
    <3>3. CASE i = next[c]
      BY <2>1, <2>3, <3>2, <3>3
    <3>4. CASE i # next[c]
      <4>1. i < next[c]
        BY <1>1, <2>1, <3>1, <3>4
      <4>2. img_buff[i].phy \in DOMAIN live /\ live[img_buff[i].phy] = order[c]
        BY <1>4, <2>2, <4>1
      <4> QED BY <2>1, <2>3, <3>2, <3>4, <4>2
    <3> QED BY <3>3, <3>4
  <2> QED BY <1>3, <2>1, <2>2, <2>4
<1>9. CASE ReqbufsError(c)
  <2> DEFINE before == { i \in Buffers : i < next[c] }
             freed  == { img_buff[i].virt : i \in before } \ {0}
  <2>1. /\ next[c] # None /\ next' = [next EXCEPT ![c] = None]
        /\ crossed' = (crossed \/ c \notin alone) /\ addr' = addr
        /\ live' = [p \in DOMAIN live \ freed |-> live[p]]
        /\ img_buff' = [i \in Buffers |->
               [virt  |-> IF i = next[c] THEN 0 ELSE img_buff[i].virt,
                phy   |-> IF i \in before THEN 0 ELSE img_buff[i].phy,
                order |-> img_buff[i].order]]
    BY <1>9 DEF ReqbufsError, Return
  <2>2. misfreed' = (misfreed \/ \E p \in freed : ~Allocated(p, order[c]))
    BY <1>9 DEF ReqbufsError
  <2>3. c \in alone /\ \A d \in Calls : next'[d] = None
    BY <1>1, <1>3, <1>5, <2>1
  <2>4. \A p \in freed : Allocated(p, order[c]) /\ \A j \in Buffers : addr[j] # p
    <3>1. ASSUME NEW i \in Buffers, i < next[c]
          PROVE  /\ img_buff[i].virt \in DOMAIN live /\ live[img_buff[i].virt] = order[c]
                 /\ \A j \in Buffers : addr[j] # img_buff[i].virt
      BY <1>4, <2>1, <3>1
    <3> QED BY <3>1 DEF Allocated
  <2>5. ~misfreed'
    BY <1>3, <2>2, <2>4, Zenon
  <2>6. ~crossed'
    BY <1>3, <2>1, <2>3, Zenon
  <2>7. ASSUME NEW i \in Buffers, addr'[i] # 0, img_buff'[i].virt = addr'[i]
        PROVE  img_buff'[i].order = live'[addr'[i]]
    <3>1. i # next[c] /\ img_buff[i].virt = addr[i] /\ addr[i] # 0
      BY <2>1, <2>7
    <3>2. \A d \in Calls : next[d] # i
      BY <1>1, <1>5, <2>1, <3>1
    <3>3. live'[addr[i]] = live[addr[i]]
      BY <1>4, <2>1, <2>4, <3>1
    <3> QED BY <1>3, <2>1, <3>1, <3>2, <3>3
  <2> QED BY <2>3, <2>5, <2>6, <2>7
<1> QED BY <1>6, <1>7, <1>8, <1>9 DEF cmos_ov7740_vidioc_reqbufs

LEMMA ReleaseKeeps ==
  ASSUME Kept, cmos_ov7740_release, Parts
  PROVE  Kept'
<1>1. /\ phase = "noirq" /\ phase' = "gone" /\ \A c \in Calls : next[c] = None
      /\ DOMAIN live' = DOMAIN live \ Owned
      /\ UNCHANGED <<img_buff, addr, order, next, tries, alone, met, crossed>>
  BY DEF cmos_ov7740_release, Remove, driver, camif, calls
<1>2. misfreed' = (misfreed \/ \E i \in Buffers :
          img_buff[i].virt # 0 /\ ~Allocated(img_buff[i].virt, img_buff[i].order))
  BY DEF cmos_ov7740_release
<1>3. alone' = {}
  BY <1>1 DEF Kept, CallsKept, Parts, CallType
<1>4. CallsKept' /\ FirstKept' /\ BlocksKept' /\ OrdersKept'
  BY <1>1, <1>3 DEF Kept, CallsKept, FirstKept, BlocksKept, OrdersKept
<1>5. tries' <= 1 => DOMAIN live' = {}
  BY <1>1 DEF Kept, FirstKept
<1>6. ASSUME ~met', \A i \in Buffers : img_buff'[i].virt = addr'[i]
      PROVE  ~misfreed'
  <2>1. /\ ~crossed /\ ~misfreed
        /\ \A i \in Buffers : addr[i] # 0 /\ img_buff[i].virt = addr[i]
                                /\ (\A c \in Calls : next[c] # i) =>
             img_buff[i].order = live[addr[i]]
    BY <1>1, <1>6 DEF Kept, OrdersKept
  <2>2. ASSUME NEW i \in Buffers, img_buff[i].virt # 0
        PROVE  Allocated(img_buff[i].virt, img_buff[i].order)
    <3>1. img_buff[i].virt = addr[i] /\ addr[i] # 0
      BY <1>1, <1>6, <2>2
    <3>2. addr[i] \in DOMAIN live
      BY <1>1, <2>1, <3>1 DEF Kept, BlocksKept
    <3>3. \A c \in Calls : next[c] # i
      BY <1>1 DEF None, Buffers
    <3> QED BY <2>1, <3>1, <3>2, <3>3 DEF Allocated
  <2> QED BY <1>2, <2>1, <2>2, Zenon
<1> QED BY <1>4, <1>5, <1>6 DEF Kept, ReleaseFreesOnce

LEMMA KeptStep == Parts /\ Kept /\ [Next]_vars => Kept'
<1> SUFFICES ASSUME Parts, Kept, [Next]_vars PROVE Kept'
  OBVIOUS
<1>1. CASE \E c \in Calls : cmos_ov7740_vidioc_reqbufs(c)
  <2>1. PICK c \in Calls : cmos_ov7740_vidioc_reqbufs(c)
    BY <1>1
  <2>2. CallsKept' /\ phase' = "bound" /\ FirstKept' /\ BlocksKept' /\ OrdersKept'
    BY <2>1, CallsReqbufs, FirstReqbufs, BlocksReqbufs, OrdersReqbufs DEF Kept
  <2> QED BY <2>2 DEF Kept, ReleaseFreesOnce
<1>2. CASE cmos_ov7740_release
  BY <1>2, ReleaseKeeps
<1>3. ASSUME UNCHANGED <<img_buff, addr, live, order, next, tries, alone, met, crossed, misfreed>>,
             phase' = "gone" => phase = "gone",
             phase' # "bound" => phase # "bound" \/ \A c \in Calls : next[c] = None
      PROVE  Kept'
  <2>1. Owned' = Owned
    BY <1>3 DEF Owned
  <2>2. CallsKept'
    BY <1>3 DEF Kept, CallsKept
  <2>3. FirstKept' /\ BlocksKept' /\ OrdersKept'
    <3>1. phase' # "gone" => phase # "gone"
      BY PhaseForward
    <3> QED BY <1>3, <2>1, <3>1 DEF Kept, FirstKept, BlocksKept, OrdersKept
  <2>4. ReleaseFreesOnce'
    BY <1>3 DEF Kept, ReleaseFreesOnce
  <2> QED BY <2>2, <2>3, <2>4 DEF Kept
<1>4. ASSUME NEW format \in Formats, NEW size \in Sizes,
             cmos_ov7740_vidioc_s_fmt_vid_cap(format, size)
      PROVE  Kept'
  BY <1>3, <1>4 DEF cmos_ov7740_vidioc_s_fmt_vid_cap, calls
<1>5. CASE cmos_ov7740_vidioc_streamon
  BY <1>3, <1>5 DEF cmos_ov7740_vidioc_streamon, calls
<1>6. CASE /\ ~cmos_ov7740_vidioc_streamon /\ ~cmos_ov7740_release
           /\ \A c \in Calls : ~cmos_ov7740_vidioc_reqbufs(c)
           /\ \A format \in Formats, size \in Sizes :
                ~cmos_ov7740_vidioc_s_fmt_vid_cap(format, size)
  BY <1>3, <1>6, OthersLeave
<1> QED BY <1>1, <1>2, <1>4, <1>5, <1>6

(* After remove nothing stays allocated if reqbufs was called once at most,  *)
(* and nothing was freed twice or with an order it does not have, unless the *)
(* last request failed or two overlapped.                                    *)
THEOREM ReleaseFreesOnceHolds == Spec => []ReleaseFreesOnce
<1>1. Kept => ReleaseFreesOnce
  BY DEF Kept
<1> QED BY <1>1, KeptInit, KeptStep, PartsInit, PartsStep, PTL DEF Spec

(***************************************************************************)
(* Frames and blocks.                                                      *)
(***************************************************************************)
(* Sizes that a field of CIPRTRGFMT holds wrap in no product. *)
LEMMA NoWrap ==
  ASSUME NEW x \in 0 .. Field - 1, NEW y \in 0 .. Field - 1, NEW f \in Formats
  PROVE  /\ x % Field = x /\ y % Field = y
         /\ Sizeimage(f, x, y) = x * y * (IF f = "RGB24" THEN 4 ELSE 2)
<1>1. /\ Field \in Nat /\ Field >= 128 /\ Uint \in Nat /\ Uint >= 4 * Field * Field
      /\ x \in Nat /\ y \in Nat /\ x < Field /\ y < Field
  BY FieldAssumption
<1>2. PICK b \in {2, 4} : b = (IF f = "RGB24" THEN 4 ELSE 2) /\ Depth(f) = 8 * b
  BY DEF Depth
<1>3. 32 * Field <= 4 * Field * Field
  <2>1. Field * Field >= 128 * Field
    BY <1>1
  <2>2. 4 * Field * Field = 4 * (Field * Field)
    BY <1>1
  <2> QED BY <1>1, <2>1, <2>2
<1>4. x * (8 * b) \in Nat /\ x * (8 * b) < Uint
  <2>1. x * (8 * b) <= 32 * x
    BY <1>1, <1>2
  <2> QED BY <1>1, <1>2, <1>3, <2>1
<1>5. Bytesperline(f, x) = x * b
  <2>1. (x * (8 * b)) % Uint = x * (8 * b)
    BY <1>1, <1>4
  <2>2. (x * (8 * b)) \div 8 = x * b
    <3>1. b = 2 \/ b = 4
      BY <1>2
    <3>2. (x * 16) \div 8 = x * 2 /\ (x * 32) \div 8 = x * 4
      BY <1>1
    <3> QED BY <3>1, <3>2
  <2> QED BY <1>2, <2>1, <2>2 DEF Bytesperline
<1>6. y * (x * b) \in Nat /\ y * (x * b) < Uint
  <2>1. x * b \in Nat /\ x * b <= 4 * x
    BY <1>1, <1>2
  <2>2. y * (x * b) <= y * (4 * x)
    BY <1>1, <2>1
  <2>3. y * (4 * x) <= y * (4 * Field)
    <3>1. 4 * x <= 4 * Field /\ 4 * x \in Nat /\ 4 * Field \in Nat
      BY <1>1
    <3> QED BY <1>1, <3>1
  <2>4. y * (4 * Field) < 4 * Field * Field
    <3>1. Field * y < Field * Field
      BY <1>1
    <3>2. y * (4 * Field) = 4 * (Field * y) /\ 4 * Field * Field = 4 * (Field * Field)
      BY <1>1
    <3>3. Field * y \in Nat /\ Field * Field \in Nat
      BY <1>1
    <3> QED BY <3>1, <3>2, <3>3
  <2>5. /\ y * (x * b) \in Nat /\ y * (4 * x) \in Nat /\ y * (4 * Field) \in Nat
        /\ 4 * Field * Field \in Nat
    BY <1>1, <2>1
  <2> QED BY <1>1, <2>2, <2>3, <2>4, <2>5
<1>7. Sizeimage(f, x, y) = y * (x * b)
  <2>1. (y * (x * b)) % Uint = y * (x * b)
    BY <1>1, <1>6
  <2> QED BY <1>5, <2>1 DEF Sizeimage
<1>8. y * (x * b) = x * y * b
  BY <1>1, <1>2
<1>9. x % Field = x /\ y % Field = y
  BY <1>1
<1> QED BY <1>2, <1>7, <1>8, <1>9

(* What the format in use says of the registers and the size of a buffer. *)
FormatInUse ==
  \/ fmt = NoFormat /\ buf_size = 0
  \/ \E format \in Formats, size \in Sizes :
       /\ fmt = [pixelformat |-> format, x |-> size[1], y |-> size[2]]
       /\ target = <<size[1] % Field, size[2] % Field>>
       /\ buf_size = Sizeimage(format, size[1], size[2])

(* Buffers requested for the present format, by a call that met no other,     *)
(* hold what the format takes.                                                *)
BuffersFit ==
  phase = "bound" /\ agreed /\ ~crossed =>
    /\ buf_size # 0
    /\ \A i \in Buffers : addr[i] # 0 /\ Bytes(live[addr[i]]) >= buf_size

LEMMA FitInit == Init => FormatInUse /\ BuffersFit
BY DEF Init, FormatInUse, BuffersFit

LEMMA FitFormat ==
  ASSUME FormatInUse, BuffersFit, NEW format \in Formats, NEW size \in Sizes,
         cmos_ov7740_vidioc_s_fmt_vid_cap(format, size)
  PROVE  FormatInUse' /\ BuffersFit'
<1>1. /\ fmt' = [pixelformat |-> format, x |-> size[1], y |-> size[2]]
      /\ buf_size' = Sizeimage(format, size[1], size[2])
      /\ target' = <<size[1] % Field, size[2] % Field>>
      /\ UNCHANGED <<addr, live, phase, crossed>>
  BY DEF cmos_ov7740_vidioc_s_fmt_vid_cap
<1>2. agreed' => agreed /\ fmt' = fmt
  BY Zenon DEF cmos_ov7740_vidioc_s_fmt_vid_cap
<1>3. FormatInUse'
  BY <1>1 DEF FormatInUse
<1>4. ASSUME fmt' = fmt PROVE buf_size' = buf_size
  <2>1. fmt # NoFormat
    BY <1>1, <1>4 DEF NoFormat, Formats
  <2>2. PICK f \in Formats, s \in Sizes :
          /\ fmt = [pixelformat |-> f, x |-> s[1], y |-> s[2]]
          /\ buf_size = Sizeimage(f, s[1], s[2])
    BY <2>1 DEF FormatInUse
  <2>3. f = format /\ s[1] = size[1] /\ s[2] = size[2]
    <3>1. fmt.pixelformat = f /\ fmt.x = s[1] /\ fmt.y = s[2]
      BY <2>2
    <3> QED BY <1>1, <1>4, <3>1
  <2> QED BY <1>1, <2>2, <2>3
<1>5. BuffersFit'
  BY <1>1, <1>2, <1>4 DEF BuffersFit
<1> QED BY <1>3, <1>5

LEMMA FitReqbufs ==
  ASSUME Parts, Kept, FormatInUse, BuffersFit, NEW c \in Calls, cmos_ov7740_vidioc_reqbufs(c)
  PROVE  FormatInUse' /\ BuffersFit'
<1>1. /\ UNCHANGED <<fmt, target, buf_size>>
      /\ phase = "bound"
      /\ alone \subseteq Calls /\ next \in [Calls -> Buffers \cup {None}]
      /\ Buffers = 0 .. 3 /\ None = 4 /\ buf_size \in Nat
  <2>1. UNCHANGED <<fmt, target, buf_size>>
    BY DEF cmos_ov7740_vidioc_reqbufs, ReqbufsBegin, ReqbufsNext, ReqbufsDone, ReqbufsError,
           Requesting
  <2>2. phase = "bound"
    BY CallsReqbufs DEF Kept
  <2> QED BY <2>1, <2>2 DEF Parts, CallType, FormatType, Buffers, None
<1>2. FormatInUse'
  BY <1>1 DEF FormatInUse
<1> SUFFICES ASSUME agreed', ~crossed'
             PROVE  /\ buf_size # 0
                    /\ \A i \in Buffers : addr'[i] # 0 /\ Bytes(live'[addr'[i]]) >= buf_size
  BY <1>1, <1>2 DEF BuffersFit
<1>3. ~crossed
  BY DEF cmos_ov7740_vidioc_reqbufs, ReqbufsBegin, ReqbufsNext, ReqbufsDone, ReqbufsError
<1>4. /\ \A i \in Buffers : addr[i] # 0 => addr[i] \in DOMAIN live
      /\ \A i \in Buffers : next[c] # None /\ i < next[c] => img_buff[i].phy \in DOMAIN live
      /\ \A d \in alone, i \in Buffers : i < next[d] =>
           /\ live[img_buff[i].phy] = order[d]
           /\ img_buff[i].phy = img_buff[i].virt
           /\ \A j \in Buffers : addr[j] # img_buff[i].phy
  <2>1. \A d \in alone : d \in Calls /\ next[d] # None
    BY <1>1 DEF Kept, CallsKept
  <2> QED BY <1>1, <1>3, <2>1 DEF Kept, BlocksKept
<1>5. ASSUME agreed' = agreed, addr' = addr,
             \A i \in Buffers : addr[i] \in DOMAIN live => live'[addr[i]] = live[addr[i]]
      PROVE  /\ buf_size # 0
             /\ \A i \in Buffers : addr'[i] # 0 /\ Bytes(live'[addr'[i]]) >= buf_size
  <2>1. agreed
    BY <1>5
  <2>2. buf_size # 0 /\ \A i \in Buffers : addr[i] # 0 /\ Bytes(live[addr[i]]) >= buf_size
    BY <1>1, <1>3, <2>1 DEF BuffersFit
  <2> QED BY <1>4, <1>5, <2>2
<1>6. CASE ReqbufsBegin(c)
  BY <1>5, <1>6 DEF ReqbufsBegin
<1>7. CASE ReqbufsNext(c)
  <2>1. next[c] \in 0 .. 2 /\ Allocates(c) /\ UNCHANGED <<agreed, addr>>
    BY <1>7 DEF ReqbufsNext
  <2>2. next[c] \in Buffers
    BY <1>1, <2>1
  <2>3. \A p \in DOMAIN live : live'[p] = live[p]
    BY <2>1, <2>2, AllocatesPage
  <2> QED BY <1>5, <2>1, <2>3
<1>8. CASE ReqbufsDone(c)
  <2>1. /\ next[c] = 3 /\ Allocates(c) /\ addr' = [i \in Buffers |-> img_buff'[i].phy]
    BY <1>8 DEF ReqbufsDone
  <2>2. agreed' = (c \in alone /\ order[c] = get_order(buf_size))
    BY <1>8 DEF ReqbufsDone
  <2>3. c \in alone /\ order[c] = get_order(buf_size)
    BY <2>2, Zenon
  <2>4. next[c] \in Buffers
    BY <1>1, <2>1
  <2>5. /\ Page # 0 /\ Page \notin DOMAIN live /\ order[c] \in Orders
        /\ live'[Page] = order[c] /\ \A p \in DOMAIN live : live'[p] = live[p]
        /\ \A i \in Buffers : i # next[c] =>
             img_buff'[i].virt = img_buff[i].virt /\ img_buff'[i].phy = img_buff[i].phy
        /\ img_buff'[next[c]].phy = Page
    BY <2>1, <2>4, AllocatesPage
  <2>6. buf_size # 0 /\ Bytes(order[c]) >= buf_size
    BY <1>1, <2>3, <2>5, OrderHolds
  <2>7. 0 \notin DOMAIN live
    BY DEF Parts, BufferType
  <2>8. ASSUME NEW i \in Buffers
        PROVE  addr'[i] # 0 /\ live'[addr'[i]] = order[c]
    <3>1. CASE i = 3
      BY <2>1, <2>5, <3>1
    <3>2. CASE i # 3
      <4>1. i < next[c] /\ next[c] # None
        BY <1>1, <2>1, <3>2
      <4>2. img_buff[i].phy \in DOMAIN live /\ live[img_buff[i].phy] = order[c]
        BY <1>4, <2>3, <4>1
      <4>3. addr'[i] = img_buff[i].phy
        BY <2>1, <2>5, <3>2
      <4> QED BY <2>5, <2>7, <4>2, <4>3
    <3> QED BY <3>1, <3>2
  <2> QED BY <2>6, <2>8
<1>9. CASE ReqbufsError(c)
  <2> DEFINE before == { i \in Buffers : i < next[c] }
             freed  == { img_buff[i].virt : i \in before } \ {0}
  <2>1. /\ crossed' = (crossed \/ c \notin alone) /\ addr' = addr /\ agreed' = agreed
        /\ live' = [p \in DOMAIN live \ freed |-> live[p]]
    BY <1>9 DEF ReqbufsError
  <2>2. c \in alone
    BY <2>1, Zenon
  <2>3. \A j \in Buffers : addr[j] \notin freed
    BY <1>4, <2>2
  <2>4. \A i \in Buffers : addr[i] \in DOMAIN live => live'[addr[i]] = live[addr[i]]
    BY <2>1, <2>3
  <2> QED BY <1>5, <2>1, <2>4
<1> QED BY <1>6, <1>7, <1>8, <1>9 DEF cmos_ov7740_vidioc_reqbufs

LEMMA FitStep ==
  Parts /\ Kept /\ FormatInUse /\ BuffersFit /\ [Next]_vars => FormatInUse' /\ BuffersFit'
<1> SUFFICES ASSUME Parts, Kept, FormatInUse, BuffersFit, [Next]_vars
             PROVE  FormatInUse' /\ BuffersFit'
  OBVIOUS
<1>1. ASSUME UNCHANGED <<fmt, target, buf_size, addr, agreed, crossed>>,
             phase' = "bound" => phase = "bound" /\ live' = live
      PROVE  FormatInUse' /\ BuffersFit'
  BY <1>1 DEF FormatInUse, BuffersFit
<1>2. CASE cmos_ov7740_vidioc_streamon
  BY <1>1, <1>2 DEF cmos_ov7740_vidioc_streamon
<1>3. CASE /\ ~cmos_ov7740_vidioc_streamon
           /\ \A c \in Calls : ~cmos_ov7740_vidioc_reqbufs(c)
           /\ \A format \in Formats, size \in Sizes :
                ~cmos_ov7740_vidioc_s_fmt_vid_cap(format, size)
  <2>1. phase' = "bound" => ~cmos_ov7740_release
    BY DEF cmos_ov7740_release, Remove
  <2> QED BY <1>1, <1>3, <2>1, OthersLeave
<1> QED BY <1>2, <1>3, FitFormat, FitReqbufs

(* For every set of sizes that an application may ask for, every number of    *)
(* blocks and of calls that sleep in their allocations: until a call fails    *)
(* that had met another, the DMA writes to allocated blocks, and frames of    *)
(* the present format fit those requested for it.                             *)
THEOREM DmaInBuffersHolds == Spec => []DmaInBuffers
<1>1. Parts /\ Kept /\ FormatInUse /\ BuffersFit => DmaInBuffers
  <2> SUFFICES ASSUME Parts, Kept, FormatInUse, BuffersFit, phase = "bound", ~crossed,
                      NEW i \in Buffers
               PROVE  /\ addr[i] # 0 => addr[i] \in DOMAIN live
                      /\ agreed /\ FrameOfFormat =>
                           addr[i] # 0 /\ Bytes(live[addr[i]]) >= FrameBytes
    BY DEF DmaInBuffers
  <2>1. addr[i] # 0 => addr[i] \in DOMAIN live
    BY DEF Kept, BlocksKept
  <2>2. ASSUME agreed, FrameOfFormat
        PROVE  addr[i] # 0 /\ Bytes(live[addr[i]]) >= FrameBytes
    <3>1. buf_size # 0 /\ addr[i] # 0 /\ Bytes(live[addr[i]]) >= buf_size
      BY <2>2 DEF BuffersFit
    <3>2. PICK f \in Formats, s \in Sizes :
            /\ fmt = [pixelformat |-> f, x |-> s[1], y |-> s[2]]
            /\ target = <<s[1] % Field, s[2] % Field>>
            /\ buf_size = Sizeimage(f, s[1], s[2])
      BY <3>1 DEF FormatInUse
    <3>3. fmt.pixelformat = f /\ fmt.x = s[1] /\ fmt.y = s[2]
      BY <3>2
    <3>4. s[1] \in 0 .. Field - 1 /\ s[2] \in 0 .. Field - 1
      <4>1. s[1] \in Nat /\ s[2] \in Nat
        BY SizesAssumption
      <4>2. s[1] < Field /\ s[2] < Field
        BY <2>2, <3>3 DEF FrameOfFormat
      <4> QED BY <4>1, <4>2, FieldAssumption
    <3>5. target = <<s[1], s[2]>>
          /\ buf_size = s[1] * s[2] * (IF f = "RGB24" THEN 4 ELSE 2)
      BY <3>2, <3>4, NoWrap
    <3>6. 30 \in CIPRSCCTRL <=> f = "RGB24"
      BY <2>2, <3>3 DEF FrameOfFormat
    <3>7. FrameBytes = buf_size
      BY <3>5, <3>6 DEF FrameBytes
    <3> QED BY <3>1, <3>7
  <2> QED BY <2>1, <2>2
<1> QED BY <1>1, FitInit, FitStep, KeptInit, KeptStep, PartsInit, PartsStep, PTL DEF Spec
===============================================================================
