-------------------------------- MODULE Camera --------------------------------
(***************************************************************************)
(* The OV7740 camera driver cmos_ov7740/cmos_ov7740_drv.c: the ioctls of   *)
(* applications, their reads, the preview channel with its DMA and its     *)
(* interrupt, and the removal of the driver.  A register that the driver   *)
(* ORs into is the set of its bits.  Nothing serialises the ioctls; a      *)
(* process gives way to another only where it may sleep.                   *)
(***************************************************************************)
EXTENDS CamifScaler, FiniteSets

CONSTANTS
  Readers,    \* the files that applications open
  Sizes,      \* the resolutions <<x, y>> an application may ask for
  MaxPages,   \* the blocks of pages __get_free_pages may hand out
  MaxTries,   \* bound on the calls of reqbufs
  MaxSets,    \* bound on the calls of s_fmt, streamon and streamoff
  Field       \* what a size field of CIPRTRGFMT holds: 2^13

(* Sizes that CIPRTRGFMT keeps in two halves, of three bits more than the    *)
(* fields in them; the hardware has Field = 2^13 and Uint = 2^32.            *)
ASSUME FieldAssumption ==
  Field \in Nat /\ Field >= 128 /\ Uint \in Nat /\ Uint >= 4 * Field * Field
ASSUME SizesAssumption == Sizes \subseteq (1 .. 8 * Field - 1) \X (1 .. 8 * Field - 1)
ASSUME PagesAssumption == MaxPages \in Nat
ASSUME TriesAssumption == MaxTries \in Nat
ASSUME SetsAssumption  == MaxSets \in Nat

VARIABLES
  \* the driver
  fmt,          \* pixelformat, TargetXres, TargetYres; NoFormat before any s_fmt
  buf_size, bytesperline,
  sc,           \* the scaler factors of the two directions
  img_buff,     \* order, virt_address and phy_address (0: NULL) of the four buffers
  ev_cam,
  phase,        \* of the driver: "bound", and through remove to "gone"
  \* the camera interface
  target,       \* CIPRTRGFMT
  burst,        \* CIPRCTRL
  CIPRSCCTRL, CIIMGCPT,
  addr,         \* CIPRCLRSA1 to 4; 0 after reset
  irqPend,
  \* the kernel and the application
  live,         \* the blocks allocated, with their orders
  pc,           \* of each reader
  order,        \* the local variable of each call of reqbufs
  next,         \* the buffer for which it allocates; None before and after
  \* history
  tries,        \* calls of reqbufs, which are numbered in the order they begin
  sets,         \* calls of s_fmt, streamon and streamoff
  off,          \* streamoff was called after the last streamon
  streamed,     \* the resolutions of the calls of streamon
  agreed,       \* the buffers were last requested for the present format
  alone,        \* the calls of reqbufs that have met no other
  met,          \* two calls of reqbufs have been under way at once
  crossed,      \* a reqbufs failed that had met another
  fault,        \* a register was accessed after iounmap
  misfreed      \* a block was freed that was not allocated, or with another order

driver  == <<fmt, buf_size, bytesperline, sc, img_buff, ev_cam>>
camif   == <<target, burst, CIPRSCCTRL, CIIMGCPT, addr>>
calls   == <<pc, order, next>>
history == <<tries, sets, off, streamed, agreed, alone, met, crossed, fault, misfreed>>
vars    == <<driver, phase, camif, irqPend, live, calls, history>>

Formats  == {"RGB565", "RGB24"}
NoFormat == [pixelformat |-> "none", x |-> 0, y |-> 0]
Buffers  == 0 .. 3
SRC_Width  == 640
SRC_Height == 480

Orders  == 0 .. 10     \* of the blocks that the kernel keeps
NoOrder == 20          \* what get_order answers beyond them
None    == 4
Calls   == 1 .. MaxTries

Factors == [ratio : {0, 1, 2, 4, 8, 16, 32}, shift : 0 .. 5]

TypeOK ==
  /\ fmt \in {NoFormat} \cup { [pixelformat |-> f, x |-> s[1], y |-> s[2]] :
                              f \in Formats, s \in Sizes }
  /\ buf_size \in Nat /\ bytesperline \in Nat
  /\ sc.hor \in Factors /\ sc.ver \in Factors
  /\ \A i \in Buffers : /\ img_buff[i].virt \in 0 .. MaxPages
                         /\ img_buff[i].phy \in 0 .. MaxPages
                         /\ img_buff[i].order \in Orders \cup {NoOrder}
                         /\ addr[i] \in 0 .. MaxPages
  /\ ev_cam \in {0, 1}
  /\ phase \in {"bound", "unmapped", "noirq", "gone"}
  /\ target \in (0 .. Field - 1) \X (0 .. Field - 1)
  /\ burst[1] \in {0, 4, 8, 16} /\ burst[2] \in 0 .. burst[1]
  /\ CIPRSCCTRL \subseteq 0 .. 31 /\ CIIMGCPT \subseteq 0 .. 31
  /\ irqPend \in BOOLEAN
  /\ DOMAIN live \subseteq 1 .. MaxPages
  /\ pc \in [Readers -> {"closed", "open", "wait", "sleep", "copy"}]
  /\ order \in [Calls -> Orders \cup {NoOrder}] /\ next \in [Calls -> Buffers \cup {None}]
  /\ tries \in 0 .. MaxTries /\ sets \in 0 .. MaxSets
  /\ streamed \subseteq Sizes \cup {<<0, 0>>} /\ alone \subseteq Calls
  /\ off \in BOOLEAN /\ agreed \in BOOLEAN /\ crossed \in BOOLEAN
  /\ met \in BOOLEAN /\ fault \in BOOLEAN /\ misfreed \in BOOLEAN

(* After cmos_ov7740_probe. *)
Init ==
  /\ fmt = NoFormat /\ buf_size = 0 /\ bytesperline = 0
  /\ sc = [hor |-> [ratio |-> 0, shift |-> 0], ver |-> [ratio |-> 0, shift |-> 0]]
  /\ img_buff = [i \in Buffers |-> [virt |-> 0, phy |-> 0, order |-> 0]]
  /\ ev_cam = 0
  /\ phase = "bound"
  /\ target = <<0, 0>> /\ burst = <<0, 0>>
  /\ CIPRSCCTRL = {} /\ CIIMGCPT = {}
  /\ addr = [i \in Buffers |-> 0]
  /\ irqPend = FALSE
  /\ live = << >>
  /\ pc = [r \in Readers |-> "closed"]
  /\ order = [c \in Calls |-> NoOrder] /\ next = [c \in Calls |-> None]
  /\ tries = 0 /\ sets = 0 /\ streamed = {} /\ alone = {}
  /\ off = FALSE /\ agreed = FALSE /\ met = FALSE /\ crossed = FALSE /\ fault = FALSE
  /\ misfreed = FALSE

(***************************************************************************)
(* open and close change nothing; the ioctls are made on an open file.     *)
(***************************************************************************)
Step(r, from, to) ==
  /\ ~fault
  /\ pc[r] = from /\ pc' = [pc EXCEPT ![r] = to]

Open(r) ==
  /\ phase = "bound" /\ Step(r, "closed", "open")
  /\ UNCHANGED <<driver, phase, camif, irqPend, live, order, next, history>>

Close(r) ==
  /\ Step(r, "open", "closed")
  /\ UNCHANGED <<driver, phase, camif, irqPend, live, order, next, history>>

Ioctl == phase = "bound" /\ ~fault /\ \E r \in Readers : pc[r] # "closed"

Setting == Ioctl /\ sets < MaxSets /\ sets' = sets + 1

(* RGB565 ORs a 0 into bit 30 of CIPRSCCTRL, RGB24 a 1. *)
cmos_ov7740_vidioc_s_fmt_vid_cap(format, size) ==
  /\ Setting
  /\ fmt' = [pixelformat |-> format, x |-> size[1], y |-> size[2]]
  /\ CIPRSCCTRL' = CIPRSCCTRL \cup (IF format = "RGB24" THEN {30} ELSE {})
  /\ bytesperline' = Bytesperline(format, size[1])
  /\ buf_size' = Sizeimage(format, size[1], size[2])
  /\ target' = <<size[1] % Field, size[2] % Field>>
  /\ agreed' = (agreed /\ fmt' = fmt)
  /\ UNCHANGED <<sc, img_buff, ev_cam, phase, burst, CIIMGCPT, addr, irqPend, live,
                 calls, tries, off, streamed, alone, met, crossed, fault, misfreed>>

(***************************************************************************)
(* reqbufs: each of its allocations may sleep, and other ioctls, another   *)
(* reqbufs among them, may then come in between.                           *)
(***************************************************************************)
PAGE_SIZE == 4096

Bytes(k) == PAGE_SIZE * 2^k

\* Mutant: the order is rounded down.
get_order_Floor(size) ==
  IF size \in 1 .. Bytes(10)
  THEN IF size <= PAGE_SIZE THEN 0
       ELSE CHOOSE k \in Orders : Bytes(k) <= size /\ size < Bytes(k + 1)
  ELSE NoOrder

(* The least order that holds size bytes; for 0, and for what no block holds, *)
(* one that cannot be allocated.                                              *)
get_order(size) ==
  IF size \in 1 .. Bytes(10)
  THEN CHOOSE k \in Orders : Bytes(k) >= size /\ \A l \in 0 .. k - 1 : Bytes(l) < size
  ELSE NoOrder

FreePages == (1 .. MaxPages) \ DOMAIN live

(* The block that the allocator hands out next. *)
Page == CHOOSE p \in FreePages : \A q \in FreePages : p <= q

Requesting == UNCHANGED <<fmt, buf_size, bytesperline, sc, ev_cam, phase, target, burst,
                          CIPRSCCTRL, CIIMGCPT, irqPend, pc, sets, off, streamed, fault>>

ReqbufsBegin(c) ==
  /\ Ioctl
  /\ c = tries + 1 /\ tries' = c
  /\ order' = [order EXCEPT ![c] = get_order(buf_size)]
  /\ next' = [next EXCEPT ![c] = 0]
  /\ img_buff' = [img_buff EXCEPT ![0].order = order'[c]]
  /\ LET first == \A d \in Calls : next[d] = None
     IN alone' = (IF first THEN {c} ELSE {}) /\ met' = (met \/ ~first)
  /\ Requesting /\ UNCHANGED <<addr, live, agreed, crossed, misfreed>>

(* The allocation has succeeded; the order of the next buffer is set. *)
Allocates(c) ==
  /\ order[c] \in Orders /\ FreePages # {}
  /\ live' = [p \in DOMAIN live \cup {Page} |-> IF p = Page THEN order[c] ELSE live[p]]
  /\ img_buff' = [i \in Buffers |->
       [virt  |-> IF i = next[c] THEN Page ELSE img_buff[i].virt,
        phy   |-> IF i = next[c] THEN Page ELSE img_buff[i].phy,
        order |-> IF i = next[c] + 1 THEN order[c] ELSE img_buff[i].order]]

ReqbufsNext(c) ==
  /\ next[c] \in 0 .. 2 /\ next' = [next EXCEPT ![c] = @ + 1]
  /\ Allocates(c)
  /\ Requesting /\ UNCHANGED <<order, addr, tries, agreed, alone, met, crossed, misfreed>>

Return(c) ==
  /\ next' = [next EXCEPT ![c] = None] /\ order' = [order EXCEPT ![c] = NoOrder]
  /\ alone' = alone \ {c}

ReqbufsDone(c) ==
  /\ next[c] = 3 /\ Return(c)
  /\ Allocates(c)
  /\ addr' = [i \in Buffers |-> img_buff'[i].phy]
  /\ agreed' = (c \in alone /\ order[c] = get_order(buf_size))
  /\ Requesting /\ UNCHANGED <<tries, met, crossed, misfreed>>

Allocated(p, k) == p \in DOMAIN live /\ live[p] = k

(* error3 to error0: the buffers before next are freed, whoever allocated    *)
(* what they name by now; their virt_address stays.                          *)
ReqbufsError(c) ==
  LET before == { i \in Buffers : i < next[c] }
      freed  == { img_buff[i].virt : i \in before } \ {0}
  IN /\ next[c] # None /\ Return(c)
     /\ img_buff' = [i \in Buffers |->
          [virt  |-> IF i = next[c] THEN 0 ELSE img_buff[i].virt,
           phy   |-> IF i \in before THEN 0 ELSE img_buff[i].phy,
           order |-> img_buff[i].order]]
     /\ live' = [p \in DOMAIN live \ freed |-> live[p]]
     /\ misfreed' = (misfreed \/ \E p \in freed : ~Allocated(p, order[c]))
     /\ crossed' = (crossed \/ c \notin alone)
     /\ Requesting /\ UNCHANGED <<addr, tries, agreed, met>>

cmos_ov7740_vidioc_reqbufs(c) ==
  ~fault /\ (ReqbufsBegin(c) \/ ReqbufsNext(c) \/ ReqbufsDone(c) \/ ReqbufsError(c))

(***************************************************************************)
(* Streaming.                                                              *)
(***************************************************************************)
Bits(n, from) ==
  { from + i : i \in { j \in 0 .. 30 : from + j <= 31 /\ (n \div 2^j) % 2 = 1 } }

cmos_ov7740_vidioc_streamon ==
  /\ Setting
  /\ burst' = CalculateBurstSize(bytesperline)
  /\ LET hor == ScalerInfo(SRC_Width, fmt.x, sc.hor)
         ver == ScalerInfo(SRC_Height, fmt.y, sc.ver)
     IN /\ sc' = [hor |-> hor.pre, ver |-> ver.pre]
        /\ CIPRSCCTRL' = CIPRSCCTRL \cup {31, 15} \cup (IF hor.up THEN {28} ELSE {})
                           \cup Bits(hor.main, 16) \cup Bits(ver.main, 0)
  /\ CIIMGCPT' = {31, 29} /\ off' = FALSE
  /\ streamed' = streamed \cup {<<fmt.x, fmt.y>>}
  /\ UNCHANGED <<fmt, buf_size, bytesperline, img_buff, ev_cam, phase, target, addr,
                 irqPend, live, calls, tries, agreed, alone, met, crossed, fault, misfreed>>

cmos_ov7740_vidioc_streamoff ==
  /\ Setting
  /\ CIPRSCCTRL' = CIPRSCCTRL \cup {}
  /\ CIIMGCPT' = CIIMGCPT \cup {}
  /\ off' = TRUE
  /\ UNCHANGED <<driver, phase, target, burst, addr, irqPend, live, calls, tries, streamed,
                 agreed, alone, met, crossed, fault, misfreed>>

Streaming == {31, 29} \subseteq CIIMGCPT /\ 15 \in CIPRSCCTRL

(* The hardware has written a frame to one of the four buffers in turn. *)
Frame ==
  /\ Streaming
  /\ irqPend' = TRUE
  /\ UNCHANGED <<driver, phase, target, burst, CIPRSCCTRL, CIIMGCPT, addr, live,
                 calls, history>>

Woken == [r \in Readers |-> IF pc[r] = "sleep" THEN "wait" ELSE pc[r]]

\* Mutant: the readers are not woken.
cmos_ov7740_camif_irq_p_NoWake ==
  /\ irqPend /\ phase \in {"bound", "unmapped"} /\ ~fault
  /\ irqPend' = FALSE
  /\ fault' = (phase # "bound")
  /\ ev_cam' = IF phase = "bound" THEN 1 ELSE ev_cam
  /\ UNCHANGED <<fmt, buf_size, bytesperline, sc, img_buff, phase, camif, live, calls,
                 tries, sets, off, streamed, agreed, alone, met, crossed, misfreed>>

cmos_ov7740_camif_irq_p ==
  /\ irqPend /\ phase \in {"bound", "unmapped"} /\ ~fault
  /\ irqPend' = FALSE
  /\ fault' = (phase # "bound")
  /\ IF phase = "bound" THEN ev_cam' = 1 /\ pc' = Woken ELSE UNCHANGED <<ev_cam, pc>>
  /\ UNCHANGED <<fmt, buf_size, bytesperline, sc, img_buff, phase, camif, live, order, next,
                 tries, sets, off, streamed, agreed, alone, met, crossed, misfreed>>

(***************************************************************************)
(* cmos_ov7740_read.                                                       *)
(***************************************************************************)
Reading ==
  UNCHANGED <<fmt, buf_size, bytesperline, sc, img_buff, phase, camif, irqPend, live,
              order, next, history>>

ReadBegin(r) == Step(r, "open", "wait") /\ phase = "bound" /\ Reading /\ UNCHANGED ev_cam

ReadWait(r) ==
  /\ Step(r, "wait", IF ev_cam = 1 THEN "copy" ELSE "sleep")
  /\ Reading /\ UNCHANGED ev_cam

(* A signal; the read goes on. *)
ReadSignal(r) == Step(r, "sleep", "copy") /\ Reading /\ UNCHANGED ev_cam

(* After the four copies; the first that fails returns -EFAULT. *)
ReadEnd(r) ==
  /\ Step(r, "copy", "open") /\ Reading
  /\ ev_cam' \in {0, ev_cam}

(***************************************************************************)
(* cmos_ov7740_remove; the module is in use as long as a file is in use.   *)
(***************************************************************************)
Remove(from, to) ==
  /\ ~fault /\ \A r \in Readers : pc[r] = "closed"
  /\ \A c \in Calls : next[c] = None
  /\ phase = from /\ phase' = to

Unmap ==
  /\ Remove("bound", "unmapped")
  /\ UNCHANGED <<driver, camif, irqPend, live, calls, history>>

FreeIrq ==
  /\ Remove("unmapped", "noirq")
  /\ UNCHANGED <<driver, camif, irqPend, live, calls, history>>

Owned == { img_buff[i].virt : i \in Buffers } \ {0}

\* Mutant: the fourth buffer is not freed.
cmos_ov7740_release_Three ==
  LET owned == { img_buff[i].virt : i \in 0 .. 2 } \ {0}
  IN /\ Remove("noirq", "gone")
     /\ live' = [p \in DOMAIN live \ owned |-> live[p]]
     /\ misfreed' = (misfreed \/ ~(owned \subseteq DOMAIN live))
     /\ UNCHANGED <<driver, camif, irqPend, calls, tries, sets, off, streamed, agreed, alone,
                    met, crossed, fault>>

(* video_unregister_device calls cmos_ov7740_release: free_pages of each     *)
(* virt_address and order, which does nothing for NULL.                      *)
cmos_ov7740_release ==
  /\ Remove("noirq", "gone")
  /\ live' = [p \in DOMAIN live \ Owned |-> live[p]]
  /\ misfreed' = (misfreed \/ \E i \in Buffers :
                    img_buff[i].virt # 0 /\ ~Allocated(img_buff[i].virt, img_buff[i].order))
  /\ UNCHANGED <<driver, camif, irqPend, calls, tries, sets, off, streamed, agreed, alone,
                 met, crossed, fault>>

Next ==
  \/ \E r \in Readers : Open(r) \/ Close(r) \/ ReadBegin(r) \/ ReadWait(r)
                          \/ ReadSignal(r) \/ ReadEnd(r)
  \/ \E c \in Calls : cmos_ov7740_vidioc_reqbufs(c)
  \/ \E format \in Formats, size \in Sizes : cmos_ov7740_vidioc_s_fmt_vid_cap(format, size)
  \/ cmos_ov7740_vidioc_streamon \/ cmos_ov7740_vidioc_streamoff
  \/ Frame \/ cmos_ov7740_camif_irq_p
  \/ Unmap \/ FreeIrq \/ cmos_ov7740_release

(* Frames keep coming while the channel is on, and interrupts are taken. *)
Fairness == WF_vars(Frame) /\ WF_vars(cmos_ov7740_camif_irq_p)

Spec     == Init /\ [][Next]_vars
FairSpec == Spec /\ Fairness

(***************************************************************************)
(* Properties.                                                             *)
(***************************************************************************)
(* The bits of CIPRSCCTRL that hold no ratio. *)
Controls == {31, 30, 28, 15}

RatioBits(size) ==
  Bits(MainRatio(SRC_Width, size[1]), 16) \cup Bits(MainRatio(SRC_Height, size[2]), 0)

(* When streaming starts, a line of an even number of words is tiled by     *)
(* bursts of the lengths that the comment at cmos_ov7740_drv.c:547 allows;  *)
(* the ratios fit their fields unless the picture is 64 times smaller than  *)
(* the sensor's, and if it never streamed with another resolution they are  *)
(* what CIPRSCCTRL holds, whatever formats were set in between.             *)
StreamonFits ==
  [][cmos_ov7740_vidioc_streamon =>
       /\ bytesperline > 0 /\ bytesperline % 8 = 0 =>
            /\ burst'[1] \in {4, 8, 16} /\ burst'[2] \in {2, 4, 8, 16}
            /\ Tiles(burst', bytesperline \div 4)
       /\ SRC_Width < 64 * fmt.x /\ SRC_Height < 64 * fmt.y =>
            /\ FitsScaler(SRC_Width, fmt.x, sc'.hor) /\ FitsScaler(SRC_Height, fmt.y, sc'.ver)
            /\ streamed' = {<<fmt.x, fmt.y>>} =>
                 CIPRSCCTRL' \ Controls = RatioBits(<<fmt.x, fmt.y>>) \ Controls]_vars

(* The bytes of a frame as the hardware writes it. *)
FrameBytes == target[1] * target[2] * (IF 30 \in CIPRSCCTRL THEN 4 ELSE 2)

(* The hardware's frame is that of the format: its fields hold the size, and  *)
(* bit 30 is not left over from an earlier format.                            *)
FrameOfFormat ==
  fmt.x < Field /\ fmt.y < Field /\ (30 \in CIPRSCCTRL <=> fmt.pixelformat = "RGB24")

(* While the driver is bound, the addresses that the DMA writes to are of    *)
(* allocated blocks, whatever requests sleep, overlap or fail, unless one    *)
(* failed that had met another; and the blocks hold a frame if they were     *)
(* requested, by a call that met no other, for the present format.           *)
DmaInBuffers ==
  phase = "bound" /\ ~crossed =>
    \A i \in Buffers :
      /\ addr[i] # 0 => addr[i] \in DOMAIN live
      /\ agreed /\ FrameOfFormat => addr[i] # 0 /\ Bytes(live[addr[i]]) >= FrameBytes

(* After remove nothing stays allocated if reqbufs was called once at most,  *)
(* and nothing was freed twice or with an order it does not have if the last *)
(* call of reqbufs succeeded and no two overlapped.                          *)
ReleaseFreesOnce ==
  phase = "gone" =>
    /\ tries <= 1 => DOMAIN live = {}
    /\ ~met /\ (\A i \in Buffers : img_buff[i].virt = addr[i]) => ~misfreed

(* A reader that sleeps while the camera streams is woken: the interrupt    *)
(* sets ev_cam and wakes every reader.                                      *)
ReaderIsWoken == \A r \in Readers : (pc[r] = "sleep" /\ Streaming) ~> (pc[r] # "sleep")

(* After streamoff the preview channel is off, as the comments in it say    *)
(* (cmos_ov7740_drv.c:786, 788).                                            *)
StreamoffStops == off => ~Streaming
===============================================================================
