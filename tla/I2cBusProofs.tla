----------------------------- MODULE I2cBusProofs -----------------------------
(***************************************************************************)
(* Proofs about I2cBus, for every set of requests and whether or not the   *)
(* bus answers late.  The inductive invariant follows a clean call through *)
(* its three phases; of a tainted call it says nothing but the types.      *)
(***************************************************************************)
EXTENDS I2cBus, TLAPS

Preparing == pc \in Fields \cup {"start", "go"}
Working   == pc \in {"check", "sleep", "woken"}

(* Between calls: an answer was given truthfully, and the bus is idle unless *)
(* the call timed out.                                                       *)
OutInv ==
  pc = "out" /\ ~tainted /\ ret # "ETIMEDOUT" =>
    /\ bus = "idle"
    /\ ret = "ok" => done = Transfer!Places(req)
    /\ ret = "ENODEV" => done # Transfer!Places(req)

(* The assignments of xfer up to the START: the bus is quiet meanwhile. *)
PrepareInv ==
  Preparing /\ ~tainted =>
    /\ bus = "idle" /\ done = {}
    /\ req \in Requests
    /\ pc # "msgs" => own /\ msgs = 1
    /\ pc \notin {"msgs", "msn_num"} => msn_num = Len(req)
    /\ pc \notin {"msgs", "msn_num", "cur_msg"} => cur_msg = 0
    /\ pc \in {"err", "start", "go"} => cur_ptr = 0
    /\ pc = "go" => state = "START"

(* The interrupt handler's part: the byte in flight is the one at the cursor *)
(* and all that comes before it has been carried.                            *)
InFlight ==
  /\ state \in {"START", "WRITE", "READ"}
  /\ flying = Cursor
  /\ flying[2] <= req[msgs].len
  /\ state \in {"START", "WRITE"} => flying[2] = cur_ptr
  /\ done = Transfer!Earlier(req, flying)

Ended ==
  /\ state = "STOP"
  /\ err = "ok" => done = Transfer!Places(req)
  /\ err = "ENODEV" => done # Transfer!Places(req)

WorkInv ==
  Working /\ ~tainted =>
    /\ own /\ req \in Requests
    /\ msgs \in DOMAIN req /\ cur_msg + 1 = msgs /\ msn_num = Len(req)
    /\ bus = "busy" => InFlight
    /\ bus = "idle" => Ended

(* Once a clean call is stopped the controller raises no further interrupt. *)
StoppedBusIsIdle ==
  state = "STOP" /\ ~tainted => bus = "idle"

IInv ==
  /\ TypeOK
  /\ OutInv
  /\ PrepareInv
  /\ WorkInv
  /\ StoppedBusIsIdle

-----------------------------------------------------------------------------
(***************************************************************************)
(* The places of a request and their order.                                *)
(***************************************************************************)

(* A place is a message of the request and an index up to its length. *)
LEMMA PlaceIs ==
  ASSUME NEW r, NEW p
  PROVE  p \in Transfer!Places(r) <=>
           \E i \in DOMAIN r : \E k \in 0..r[i].len : p = <<i, k>>
<1>1. p \in Transfer!Places(r) <=> \E i \in DOMAIN r : p \in {i} \X (0..r[i].len)
  BY DEF Transfer!Places
<1>2. ASSUME NEW i PROVE p \in {i} \X (0..r[i].len) <=> \E k \in 0..r[i].len : p = <<i, k>>
  OBVIOUS
<1> QED BY <1>1, <1>2

(* Facts about one request r and a message i of it. *)
LEMMA RequestShape ==
  ASSUME NEW r \in Seq(Messages)
  PROVE  /\ DOMAIN r = 1..Len(r)
         /\ Len(r) \in Nat
         /\ \A i \in DOMAIN r : i \in Nat /\ r[i].len \in Nat /\ r[i].rd \in BOOLEAN
<1>1. DOMAIN r = 1..Len(r) /\ Len(r) \in Nat
  OBVIOUS
<1>2. ASSUME NEW i \in DOMAIN r PROVE i \in Nat /\ r[i] \in Messages
  OBVIOUS
<1>3. \A m \in Messages : m.len \in Nat /\ m.rd \in BOOLEAN
  BY DEF Messages
<1> QED BY <1>1, <1>2, <1>3

(* Carrying a byte that is not the last of its message leads to the next *)
(* byte of the message.                                                  *)
LEMMA NextByte ==
  ASSUME NEW r \in Seq(Messages), NEW i \in DOMAIN r, NEW k \in Nat, k < r[i].len
  PROVE  Transfer!Earlier(r, <<i, k>>) \cup {<<i, k>>} = Transfer!Earlier(r, <<i, k + 1>>)
<1>1. <<i, k>> \in Transfer!Places(r)
  BY PlaceIs, RequestShape
<1>2. ASSUME NEW p \in Transfer!Places(r)
      PROVE  Transfer!Before(p, <<i, k + 1>>) <=> Transfer!Before(p, <<i, k>>) \/ p = <<i, k>>
  <2>1. PICK j \in DOMAIN r, l \in Nat : l <= r[j].len /\ p = <<j, l>>
    BY PlaceIs, RequestShape
  <2>2. i \in Nat /\ j \in Nat /\ l \in Nat
    BY RequestShape
  <2> QED BY <2>1, <2>2 DEF Transfer!Before
<1> QED BY <1>1, <1>2 DEF Transfer!Earlier

(* Carrying the last byte of a message leads to the next message's address. *)
LEMMA NextAddress ==
  ASSUME NEW r \in Seq(Messages), NEW i \in DOMAIN r, i + 1 \in DOMAIN r
  PROVE  Transfer!Earlier(r, <<i, r[i].len>>) \cup {<<i, r[i].len>>}
           = Transfer!Earlier(r, <<i + 1, 0>>)
<1>1. <<i, r[i].len>> \in Transfer!Places(r)
  BY PlaceIs, RequestShape
<1>2. ASSUME NEW p \in Transfer!Places(r)
      PROVE  Transfer!Before(p, <<i + 1, 0>>)
               <=> Transfer!Before(p, <<i, r[i].len>>) \/ p = <<i, r[i].len>>
  <2>1. PICK j \in DOMAIN r, l \in Nat : l <= r[j].len /\ p = <<j, l>>
    BY PlaceIs, RequestShape
  <2>2. i \in Nat /\ j \in Nat /\ l \in Nat /\ r[i].len \in Nat /\ r[j].len \in Nat
    BY RequestShape
  <2>3. j = i => l <= r[i].len
    BY <2>1
  <2> QED BY <2>1, <2>2, <2>3 DEF Transfer!Before
<1> QED BY <1>1, <1>2 DEF Transfer!Earlier

(* The last byte of the last message completes the request. *)
LEMMA LastPlace ==
  ASSUME NEW r \in Seq(Messages), NEW i \in DOMAIN r, i = Len(r)
  PROVE  Transfer!Earlier(r, <<i, r[i].len>>) \cup {<<i, r[i].len>>} = Transfer!Places(r)
<1>1. <<i, r[i].len>> \in Transfer!Places(r)
  BY PlaceIs, RequestShape
<1>2. ASSUME NEW p \in Transfer!Places(r)
      PROVE  Transfer!Before(p, <<i, r[i].len>>) \/ p = <<i, r[i].len>>
  <2>1. PICK j \in DOMAIN r, l \in Nat : l <= r[j].len /\ p = <<j, l>>
    BY PlaceIs, RequestShape
  <2>2. i \in Nat /\ j \in Nat /\ j <= i /\ l \in Nat /\ r[i].len \in Nat /\ r[j].len \in Nat
    BY RequestShape
  <2>3. j = i => l <= r[i].len
    BY <2>1
  <2> QED BY <2>1, <2>2, <2>3 DEF Transfer!Before
<1> QED BY <1>1, <1>2 DEF Transfer!Earlier

(* What comes before a place is never the whole request. *)
LEMMA NotComplete ==
  ASSUME NEW r \in Seq(Messages), NEW i \in DOMAIN r, NEW k \in 0..r[i].len
  PROVE  Transfer!Earlier(r, <<i, k>>) # Transfer!Places(r)
<1>1. <<i, k>> \in Transfer!Places(r)
  BY PlaceIs
<1>2. ~Transfer!Before(<<i, k>>, <<i, k>>)
  BY RequestShape DEF Transfer!Before
<1> QED BY <1>1, <1>2 DEF Transfer!Earlier

(* Nothing comes before the first address. *)
LEMMA FirstAddress ==
  ASSUME NEW r \in Seq(Messages)
  PROVE  Transfer!Earlier(r, <<1, 0>>) = {}
<1>1. ASSUME NEW p \in Transfer!Places(r) PROVE ~Transfer!Before(p, <<1, 0>>)
  <2>1. PICK j \in DOMAIN r, l \in Nat : l <= r[j].len /\ p = <<j, l>>
    BY PlaceIs, RequestShape
  <2>2. j \in Nat /\ j >= 1 /\ l \in Nat
    BY RequestShape
  <2> QED BY <2>1, <2>2 DEF Transfer!Before
<1> QED BY <1>1 DEF Transfer!Earlier

-----------------------------------------------------------------------------
(***************************************************************************)
(* Types.                                                                  *)
(***************************************************************************)

(* The interrupt handler keeps the types, whatever message it sees. *)
LEMMA IrqTypes ==
  ASSUME TypeOK, NEW nack, NEW m, Irq(nack, m)
  PROVE  TypeOK'
<1> USE DEF TypeOK, Nowhere, Address
<1>1. Nowhere \in Nat \X Nat /\ flying \in Nat \X Nat /\ flying[1] \in Nat /\ flying[2] \in Nat
  OBVIOUS
<1>2. CASE NextMsg /\ done' \in SUBSET (Nat \X Nat)
  BY <1>1, <1>2 DEF NextMsg, Irq
<1>3. CASE (\E p \in Nat : LastMsg(p)) /\ done' \in SUBSET (Nat \X Nat)
  BY <1>1, <1>3 DEF LastMsg, Stop, Irq, Fields
<1>4. CASE SendByte(m) /\ done' \in SUBSET (Nat \X Nat)
  BY <1>1, <1>4 DEF SendByte, Irq
<1>5. CASE (\E p \in Nat : ReceiveByte(m, p)) /\ done' \in SUBSET (Nat \X Nat)
  BY <1>1, <1>5 DEF ReceiveByte, Irq
<1>6. CASE NackCase(nack)
  BY <1>1, <1>6 DEF NackCase, Stop, Irq, Fields
<1>7. CASE OtherCase
  BY <1>7 DEF OtherCase, Irq, xfer, wire
<1>8. CASE StartCase(nack, m) \/ WriteCase(nack, m) \/ ReadCase(m)
  <2>1. done' \in SUBSET (Nat \X Nat)
    BY <1>1, <1>8 DEF StartCase, WriteCase, ReadCase, Carried, InCall, Working
  <2>2. cur_ptr \in Nat /\ cur_ptr + 1 \in Nat
    OBVIOUS
  <2>3. NextMsg \/ SendByte(m) \/ \E p \in Nat : LastMsg(p) \/ ReceiveByte(m, p)
    BY <1>8, <2>2 DEF StartCase, WriteCase, ReadCase, WriteOn, ReadOn
  <2> QED BY <2>1, <2>3, <1>2, <1>3, <1>4, <1>5
<1> QED BY <1>6, <1>7, <1>8 DEF Irq

(* Every step of the process context keeps the types. *)
LEMMA XferTypes ==
  ASSUME TypeOK, Call \/ Xfer \/ WaitTimeout
  PROVE  TypeOK'
<1> USE DEF TypeOK, Nowhere, Fields
<1>1. CASE Call
  BY <1>1 DEF Call, xfer
<1>2. CASE SetMsgs
  BY <1>2 DEF SetMsgs, Assign, wire
<1>3. CASE SetMsnNum
  <2>1. Len(req) \in Nat
    BY RequestsAssumption
  <2> QED BY <1>3, <2>1 DEF SetMsnNum, Assign, wire
<1>4. CASE SetCurMsg
  BY <1>4 DEF SetCurMsg, Assign, wire
<1>5. CASE SetCurPtr
  BY <1>5 DEF SetCurPtr, Assign, wire
<1>6. CASE SetErr
  BY <1>6 DEF SetErr, Assign, wire
<1>7. CASE StartState
  BY <1>7 DEF StartState, wire
<1>8. CASE StartBus
  BY <1>8 DEF StartBus, Address, xfer
<1>9. CASE WaitDone
  BY <1>9 DEF WaitDone, Finish
<1>10. CASE WaitSleep
  BY <1>10 DEF WaitSleep, xfer, wire
<1>11. CASE WaitTimeout
  BY <1>11 DEF WaitTimeout, Finish
<1> QED BY <1>1, <1>2, <1>3, <1>4, <1>5, <1>6, <1>7, <1>8, <1>9, <1>10, <1>11 DEF Xfer

LEMMA StutterTypes ==
  ASSUME TypeOK, UNCHANGED vars
  PROVE  TypeOK'
BY DEF TypeOK, vars, xfer, wire

LEMMA NextTypes ==
  ASSUME TypeOK, [Next]_vars
  PROVE  TypeOK'
<1>1. CASE AnIrq
  BY <1>1, IrqTypes DEF AnIrq
<1> QED BY <1>1, XferTypes, StutterTypes DEF Next

LEMMA InitTypes == Init => TypeOK
<1> SUFFICES ASSUME Init PROVE TypeOK
  OBVIOUS
<1>1. flying \in Nat \X Nat /\ done \in SUBSET (Nat \X Nat)
  BY DEF Init, Nowhere
<1> QED BY <1>1 DEF Init, TypeOK, Fields

(* Every variable keeps its type: cursors never leave the naturals and the *)
(* results are those of the source.                                        *)
THEOREM TypeCorrect == Spec => []TypeOK
<1> QED BY InitTypes, NextTypes, PTL DEF Spec

-----------------------------------------------------------------------------
(***************************************************************************)
(* The inductive invariant.                                                *)
(***************************************************************************)

LEMMA InitInv == Init => IInv
BY InitTypes DEF Init, IInv, OutInv, PrepareInv, WorkInv, StoppedBusIsIdle,
                 Preparing, Working, Fields

(* A call begins clean only on an idle bus. *)
LEMMA CallInv ==
  ASSUME IInv, Call, TypeOK'
  PROVE  IInv'
BY DEF IInv, TypeOK, OutInv, PrepareInv, WorkInv, StoppedBusIsIdle,
       Preparing, Working, Fields, Call, xfer

(* The assignments of s3c2440_i2c_xfer, and STATE_START. *)
LEMMA AssignInv ==
  ASSUME IInv, TypeOK',
         SetMsgs \/ SetMsnNum \/ SetCurMsg \/ SetCurPtr \/ SetErr \/ StartState
  PROVE  IInv'
<1> USE DEF IInv, TypeOK, OutInv, PrepareInv, WorkInv, StoppedBusIsIdle,
            Preparing, Working, Fields, Assign, wire
<1>1. CASE SetMsgs
  BY <1>1 DEF SetMsgs
<1>2. CASE SetMsnNum
  BY <1>2 DEF SetMsnNum
<1>3. CASE SetCurMsg
  BY <1>3 DEF SetCurMsg
<1>4. CASE SetCurPtr
  BY <1>4 DEF SetCurPtr
<1>5. CASE SetErr
  BY <1>5 DEF SetErr
<1>6. CASE StartState
  BY <1>6 DEF StartState
<1> QED BY <1>1, <1>2, <1>3, <1>4, <1>5, <1>6

(* The first address is put on the wire. *)
LEMMA StartBusInv ==
  ASSUME IInv, TypeOK', StartBus
  PROVE  IInv'
<1> USE DEF StartBus, Address, xfer
<1>1. OutInv' /\ PrepareInv'
  BY DEF OutInv, PrepareInv, Preparing, Fields
<1>2. ASSUME ~tainted PROVE state = "START" /\ cur_ptr = 0 /\ cur_msg = 0 /\ own /\ msgs = 1
                            /\ req \in Requests /\ msn_num = Len(req) /\ done = {}
  BY <1>2 DEF IInv, PrepareInv, Preparing, Fields
<1>3. StoppedBusIsIdle'
  BY <1>2 DEF StoppedBusIsIdle
<1>4. ASSUME ~tainted PROVE 1 \in DOMAIN req /\ req \in Seq(Messages)
  BY <1>2, <1>4, RequestsAssumption
<1>5. ASSUME ~tainted PROVE InFlight'
  <2>1. req[1].len \in Nat
    BY <1>4, <1>5, RequestShape
  <2>2. done' = Transfer!Earlier(req, <<1, 0>>)
    BY <1>2, <1>4, <1>5, FirstAddress
  <2> QED BY <1>2, <1>5, <2>1, <2>2 DEF InFlight, Cursor
<1>6. WorkInv'
  BY <1>2, <1>4, <1>5 DEF WorkInv
<1> QED BY <1>1, <1>3, <1>6 DEF IInv

(* Waiting and returning. *)
LEMMA WaitInv ==
  ASSUME IInv, TypeOK', WaitDone \/ WaitSleep \/ WaitTimeout
  PROVE  IInv'
<1>1. CASE WaitDone
  BY <1>1 DEF IInv, TypeOK, OutInv, PrepareInv, WorkInv, Ended, StoppedBusIsIdle,
              Preparing, Working, Fields, WaitDone, Finish
<1>2. CASE WaitSleep
  BY <1>2 DEF IInv, TypeOK, OutInv, PrepareInv, WorkInv, InFlight, Cursor, Ended,
              StoppedBusIsIdle, Preparing, Working, Fields, WaitSleep, xfer, wire
<1>3. CASE WaitTimeout
  BY <1>3 DEF IInv, TypeOK, OutInv, PrepareInv, WorkInv, StoppedBusIsIdle,
              Preparing, Working, Fields, WaitTimeout, Finish
<1> QED BY <1>1, <1>2, <1>3

(* The four ways in which the handler goes on. *)
LEMMA IrqBranches ==
  ASSUME NEW nack, NEW m, Irq(nack, m)
  PROVE  \/ NextMsg \/ SendByte(m)
         \/ \E p : LastMsg(p) \/ ReceiveByte(m, p)
         \/ NackCase(nack) \/ OtherCase
BY DEF Irq, StartCase, WriteCase, ReadCase, WriteOn, ReadOn

(* What the handler leaves alone, and where it leaves the sleeper. *)
LEMMA IrqFrame ==
  ASSUME IInv, NEW nack, NEW m, Irq(nack, m)
  PROVE  /\ req' = req /\ ret' = ret /\ tainted' = tainted /\ own' = own /\ msn_num' = msn_num
         /\ pc' = pc \/ (pc = "sleep" /\ pc' = "woken")
         /\ ~tainted => StoppedBusIsIdle'
<1>1. req' = req /\ ret' = ret /\ tainted' = tainted
  BY DEF Irq
<1>2. CASE NextMsg
  BY <1>1, <1>2 DEF NextMsg, Address, StoppedBusIsIdle
<1>3. CASE SendByte(m)
  BY <1>1, <1>3 DEF SendByte, StoppedBusIsIdle
<1>4. CASE \E p : LastMsg(p) \/ ReceiveByte(m, p)
  BY <1>1, <1>4 DEF LastMsg, ReceiveByte, Stop, StoppedBusIsIdle
<1>5. CASE NackCase(nack)
  BY <1>1, <1>5 DEF NackCase, Stop, StoppedBusIsIdle
<1>6. CASE OtherCase
  BY <1>1, <1>6 DEF OtherCase, xfer, wire, StoppedBusIsIdle, IInv
<1> QED BY <1>2, <1>3, <1>4, <1>5, <1>6, IrqBranches

(* The handler during a clean call: one byte has been carried or refused. *)
LEMMA IrqWork ==
  ASSUME IInv, TypeOK', Working, ~tainted,
         NEW nack \in BOOLEAN, NEW m \in Seen, Irq(nack, m)
  PROVE  WorkInv'
<1> DEFINE r == req
           i == msgs
<1>1. /\ own /\ r \in Requests /\ i \in DOMAIN r /\ cur_msg + 1 = i /\ msn_num = Len(r)
      /\ bus = "busy" /\ InFlight
  BY DEF IInv, WorkInv, Irq
<1>2. r \in Seq(Messages) /\ i \in Nat /\ cur_msg \in Nat /\ cur_ptr \in Nat
  BY <1>1, RequestsAssumption DEF IInv, TypeOK
<1>3. m = r[i]
  BY <1>1 DEF Seen, Live, InCall, Working
<1>4. r[i].len \in Nat /\ DOMAIN r = 1..Len(r) /\ Len(r) \in Nat
  BY <1>1, <1>2, RequestShape
<1>5. flying \in Nat \X Nat /\ flying = <<i, flying[2]>> /\ flying[2] \in 0..r[i].len
  BY <1>1, <1>2, <1>4 DEF InFlight, Cursor, IInv, TypeOK
<1>6. req' = req /\ ret' = ret /\ tainted' = tainted /\ own' = own /\ msn_num' = msn_num
  BY IrqFrame
<1> DEFINE k == flying[2]
<1>7. done = Transfer!Earlier(r, <<i, k>>)
  BY <1>1, <1>5 DEF InFlight
<1>8. CASE NackCase(nack)
  <2>1. done # Transfer!Places(r)
    BY <1>1, <1>2, <1>5, <1>7, NotComplete
  <2>2. bus' = "idle" /\ Ended'
    BY <1>6, <1>8, <2>1 DEF NackCase, Stop, Ended
  <2> QED BY <1>1, <1>6, <1>8, <2>2 DEF WorkInv, NackCase, Stop
<1>9. CASE OtherCase
  BY <1>1, <1>9 DEF OtherCase, InFlight
<1>10. CASE StartCase(nack, m) \/ WriteCase(nack, m) \/ ReadCase(m)
  <2>1. /\ done' = Transfer!Earlier(r, <<i, k>>) \cup {<<i, k>>}
        /\ \/ LastMsg(k) /\ k = r[i].len
           \/ NextMsg /\ k = r[i].len
           \/ SendByte(m) /\ k < r[i].len /\ cur_ptr = k
           \/ ReceiveByte(m, k) /\ k < r[i].len
    <3>1. CASE StartCase(nack, m)
      <4>1. k = 0 /\ cur_ptr = 0
        BY <1>1, <1>5, <3>1 DEF InFlight, Cursor, StartCase
      <4> QED BY <1>3, <1>4, <1>5, <1>7, <3>1, <4>1
              DEF StartCase, Carried, InCall, Working, WriteOn, ReadOn, SendByte, ReceiveByte, isEndData
    <3>2. CASE WriteCase(nack, m)
      <4>1. k = cur_ptr
        BY <1>1, <1>5, <3>2 DEF InFlight, Cursor, WriteCase
      <4> QED BY <1>2, <1>3, <1>4, <1>5, <1>7, <3>2, <4>1
              DEF WriteCase, Carried, InCall, Working, WriteOn, SendByte, isEndData
    <3>3. CASE ReadCase(m)
      <4>1. k = cur_ptr + 1
        BY <1>1, <1>5, <3>3 DEF InFlight, Cursor, ReadCase
      <4>2. flying = <<msgs, cur_ptr + 1>>
        BY <1>5, <4>1
      <4>3. done' = Transfer!Earlier(r, <<i, k>>) \cup {<<i, k>>}
        BY <1>1, <1>5, <1>7, <3>3, <4>2 DEF ReadCase, Carried, InCall, Working
      <4>4. ReceiveByte(m, k) \/ (isEndData(m, k) /\ (NextMsg \/ LastMsg(k)))
        BY <3>3, <4>1 DEF ReadCase, ReadOn
      <4>5. isEndData(m, k) <=> k = r[i].len
        BY <1>3, <1>4, <1>5 DEF isEndData
      <4> QED BY <1>4, <1>5, <4>3, <4>4, <4>5 DEF ReceiveByte
    <3> QED BY <1>10, <3>1, <3>2, <3>3
  <2>2. CASE LastMsg(k) /\ k = r[i].len
    <3>1. i = Len(r)
      BY <1>1, <1>2, <2>2 DEF LastMsg, isLastMsg
    <3>2. done' = Transfer!Places(r)
      BY <1>1, <1>2, <2>1, <2>2, <3>1, LastPlace
    <3> QED BY <1>1, <1>6, <2>2, <3>2 DEF WorkInv, Ended, LastMsg, Stop
  <2>3. CASE NextMsg /\ k = r[i].len
    <3>1. i + 1 \in DOMAIN r
      BY <1>1, <1>2, <1>4, <2>3 DEF NextMsg, isLastMsg
    <3>2. done' = Transfer!Earlier(r, <<i + 1, 0>>)
      BY <1>1, <1>2, <2>1, <2>3, <3>1, NextAddress
    <3>3. r[i + 1].len \in Nat
      BY <1>2, <3>1, RequestShape
    <3>4. msgs' = i + 1 /\ cur_msg' = cur_msg + 1 /\ cur_ptr' = 0 /\ state' = "START"
          /\ bus' = "busy" /\ flying' = <<i + 1, 0>>
      BY <1>1, <2>3 DEF NextMsg, Address
    <3>5. InFlight'
      BY <1>6, <3>2, <3>3, <3>4 DEF InFlight, Cursor
    <3>6. cur_msg' + 1 = msgs' /\ msgs' \in DOMAIN req' /\ bus' = "busy"
      BY <1>1, <1>6, <3>1, <3>4
    <3> QED BY <1>1, <1>6, <3>5, <3>6 DEF WorkInv
  <2>4. CASE SendByte(m) /\ k < r[i].len /\ cur_ptr = k
    <3>1. done' = Transfer!Earlier(r, <<i, k + 1>>)
      BY <1>1, <1>2, <1>5, <2>1, <2>4, NextByte
    <3>2. flying' = <<i, k + 1>> /\ cur_ptr' = k + 1 /\ state' = "WRITE"
          /\ msgs' = msgs /\ cur_msg' = cur_msg /\ bus' = bus
      BY <1>1, <1>5, <2>4 DEF SendByte
    <3>3. InFlight'
      BY <1>4, <1>5, <1>6, <2>4, <3>1, <3>2 DEF InFlight, Cursor
    <3> QED BY <1>1, <1>6, <3>2, <3>3 DEF WorkInv
  <2>5. CASE ReceiveByte(m, k) /\ k < r[i].len
    <3>1. done' = Transfer!Earlier(r, <<i, k + 1>>)
      BY <1>1, <1>2, <1>5, <2>1, <2>5, NextByte
    <3>2. flying' = <<i, k + 1>> /\ cur_ptr' = k /\ state' = "READ"
          /\ msgs' = msgs /\ cur_msg' = cur_msg /\ bus' = bus
      BY <1>5, <2>5 DEF ReceiveByte
    <3>3. InFlight'
      BY <1>4, <1>5, <1>6, <2>5, <3>1, <3>2 DEF InFlight, Cursor
    <3> QED BY <1>1, <1>6, <3>2, <3>3 DEF WorkInv
  <2> QED BY <2>1, <2>2, <2>3, <2>4, <2>5
<1> QED BY <1>8, <1>9, <1>10 DEF Irq

LEMMA IrqInv ==
  ASSUME IInv, TypeOK', NEW nack \in BOOLEAN, NEW m \in Seen, Irq(nack, m)
  PROVE  IInv'
<1>1. bus = "busy"
  BY DEF Irq
<1>2. CASE tainted
  BY <1>2, IrqFrame DEF IInv, OutInv, PrepareInv, WorkInv, StoppedBusIsIdle
<1>3. CASE ~tainted /\ ~Working
  <2>1. pc = "out" /\ ret = "ETIMEDOUT"
    BY <1>1, <1>3 DEF IInv, TypeOK, OutInv, PrepareInv, Preparing, Working, Fields
  <2>2. pc' = "out" /\ ret' = "ETIMEDOUT" /\ StoppedBusIsIdle'
    BY <1>3, <2>1, IrqFrame
  <2> QED BY <2>2 DEF IInv, OutInv, PrepareInv, WorkInv, Preparing, Working, Fields
<1>4. CASE ~tainted /\ Working
  <2>1. WorkInv'
    BY <1>4, IrqWork
  <2>2. Working' /\ StoppedBusIsIdle'
    BY <1>4, IrqFrame DEF Working
  <2> QED BY <2>1, <2>2 DEF IInv, OutInv, PrepareInv, Preparing, Working, Fields
<1> QED BY <1>2, <1>3, <1>4

LEMMA StutterInv ==
  ASSUME IInv, UNCHANGED vars
  PROVE  IInv'
BY DEF IInv, TypeOK, OutInv, PrepareInv, WorkInv, InFlight, Cursor, Ended, StoppedBusIsIdle,
       Preparing, Working, vars, xfer, wire

LEMMA NextInv ==
  ASSUME IInv, [Next]_vars
  PROVE  IInv'
<1>1. TypeOK'
  BY NextTypes DEF IInv
<1>2. CASE AnIrq
  BY <1>1, <1>2, IrqInv DEF AnIrq
<1> QED BY <1>1, <1>2, CallInv, AssignInv, StartBusInv, WaitInv, StutterInv DEF Next, Xfer

THEOREM Inductive == Spec => []IInv
<1> QED BY InitInv, NextInv, PTL DEF Spec

-----------------------------------------------------------------------------
(***************************************************************************)
(* Its consequences.                                                       *)
(***************************************************************************)

(* A call that begins on an idle bus answers "ok" when every place of its  *)
(* messages was carried and -ENODEV only when one was not, for all lists   *)
(* of messages and even if calls before it timed out and were answered late. *)
THEOREM CleanResultHolds == Spec => []CleanResult
<1>1. IInv => CleanResult
  BY DEF IInv, OutInv, CleanResult
<1> QED BY <1>1, Inductive, PTL

(* During such a call the cursor of the handler is where the wire is. *)
THEOREM CursorOnWireHolds == Spec => []CursorOnWire
<1>1. IInv => CursorOnWire
  BY DEF IInv, TypeOK, PrepareInv, WorkInv, InFlight, CursorOnWire, InCall, Preparing, Working, Fields
<1> QED BY <1>1, Inductive, PTL

(* In a clean call the handler's pointers are inside the call's arrays. *)
LEMMA NoStrayFromInv == IInv => NoStrayAccess
<1>1. ASSUME IInv, bus = "busy", InCall, ~tainted
      PROVE  Live /\ (state = "READ" => cur_ptr < req[msgs].len)
  <2>1. Working
    BY <1>1 DEF IInv, TypeOK, PrepareInv, InCall, Preparing, Working, Fields
  <2>2. own /\ req \in Seq(Messages) /\ msgs \in DOMAIN req /\ InFlight
    BY <1>1, <2>1, RequestsAssumption DEF IInv, WorkInv
  <2>3. req[msgs].len \in Nat /\ cur_ptr \in Nat
    BY <1>1, <2>2, RequestShape DEF IInv, TypeOK
  <2> QED BY <1>1, <2>2, <2>3 DEF Live, InFlight, Cursor
<1> QED BY <1>1 DEF NoStrayAccess

(* During such a call the handler stays inside the caller's messages and   *)
(* their buffers.                                                          *)
THEOREM NoStrayAccessHolds == Spec => []NoStrayAccess
BY NoStrayFromInv, Inductive, PTL

(* The controller raises no interrupt for a clean call that was stopped. *)
THEOREM StoppedBusIsIdleHolds == Spec => []StoppedBusIsIdle
<1>1. IInv => StoppedBusIsIdle
  BY DEF IInv
<1> QED BY <1>1, Inductive, PTL

-----------------------------------------------------------------------------
(***************************************************************************)
(* The adapter implements I2cTransfer.                                     *)
(***************************************************************************)

(* The interrupt handler carries the next place of the request in order, or *)
(* leaves the transfer as it is.                                            *)
LEMMA IrqRefines ==
  ASSUME IInv, Working, ~tainted, ~tainted', NEW nack \in BOOLEAN, NEW m \in Seen, Irq(nack, m)
  PROVE  [Transfer!Next]_(Transfer!vars)
<1>1. own /\ req \in Seq(Messages) /\ msgs \in DOMAIN req /\ bus = "busy" /\ InFlight
  BY RequestsAssumption DEF IInv, WorkInv, Irq
<1>2. req' = req /\ ret' = ret /\ InCall /\ InCall'
  BY IrqFrame DEF InCall, Working
<1>3. CASE NackCase(nack) \/ OtherCase
  BY <1>2, <1>3 DEF NackCase, OtherCase, wire, Transfer!vars
<1>4. CASE StartCase(nack, m) \/ WriteCase(nack, m) \/ ReadCase(m)
  <2>1. flying = <<msgs, flying[2]>> /\ flying[2] \in 0..req[msgs].len
    <3>1. flying[2] \in Nat /\ cur_ptr \in Nat /\ req[msgs].len \in Nat
      BY <1>1, RequestShape DEF IInv, TypeOK
    <3> QED BY <1>1, <3>1 DEF InFlight, Cursor
  <2>2. flying \in Transfer!Places(req)
    BY <1>1, <2>1, PlaceIs
  <2>3. ~Transfer!Before(flying, flying)
    BY <1>1, <2>1, RequestShape DEF Transfer!Before
  <2>4. done' = done \cup {flying}
    BY <1>1, <1>4 DEF InFlight, Cursor, StartCase, WriteCase, ReadCase, Carried, InCall, Working
  <2>5. Transfer!Carry(flying)
    BY <1>1, <1>2, <2>2, <2>3, <2>4 DEF Transfer!Carry, Transfer!Earlier, InFlight
  <2> QED BY <2>2, <2>5 DEF Transfer!Next
<1> QED BY <1>3, <1>4 DEF Irq

LEMMA StepRefines ==
  ASSUME IInv, [Next]_vars
  PROVE  [Transfer!Next]_(Transfer!vars)
<1> USE DEF InCall, Transfer!vars
<1>1. CASE Call
  BY <1>1 DEF Call, Transfer!Next, Transfer!Request
<1>2. CASE SetMsgs \/ SetMsnNum \/ SetCurMsg \/ SetCurPtr \/ SetErr \/ StartState
  BY <1>2 DEF SetMsgs, SetMsnNum, SetCurMsg, SetCurPtr, SetErr, StartState, Assign, wire
<1>3. CASE StartBus \/ WaitSleep
  BY <1>3 DEF StartBus, WaitSleep, wire
<1>4. CASE WaitDone
  <2>1. Working /\ state = "STOP" /\ err \in {"ok", "ENODEV"}
    BY <1>4 DEF WaitDone, Working, IInv, TypeOK
  <2>2. ~tainted => Ended
    BY <2>1 DEF IInv, WorkInv, StoppedBusIsIdle
  <2>3. Transfer!Return
    BY <1>4, <2>1, <2>2 DEF WaitDone, Finish, Ended, Transfer!Return
  <2> QED BY <2>3 DEF Transfer!Next
<1>5. CASE WaitTimeout
  BY <1>5 DEF WaitTimeout, Finish, Transfer!Next, Transfer!Return
<1>6. CASE AnIrq
  <2>1. PICK nack \in BOOLEAN, m \in Seen : Irq(nack, m)
    BY <1>6 DEF AnIrq
  <2>2. tainted' = tainted /\ req' = req /\ ret' = ret
    BY <2>1 DEF Irq
  <2>3. CASE tainted \/ ~InCall
    <3>1. InCall' <=> InCall
      BY <2>1, IrqFrame DEF InCall
    <3>2. ~InCall => done' = done
      BY <2>1 DEF Irq, StartCase, WriteCase, ReadCase, NackCase, OtherCase, Carried, InCall, Working, wire
    <3> QED BY <2>2, <2>3, <3>1, <3>2
  <2>4. CASE ~tainted /\ InCall
    <3>1. Working
      BY <2>1, <2>4 DEF IInv, TypeOK, PrepareInv, Irq, Preparing, Working, Fields
    <3> QED BY <2>1, <2>2, <2>4, <3>1, IrqRefines
  <2> QED BY <2>3, <2>4
<1>7. CASE UNCHANGED vars
  BY <1>7 DEF vars, wire
<1> QED BY <1>1, <1>2, <1>3, <1>4, <1>5, <1>6, <1>7 DEF Next, Xfer

(* The driver implements I2cTransfer: of every call that begins on an idle *)
(* bus, the places are carried in order, each once, and the result says     *)
(* whether all of them were; late answers to the calls before it change     *)
(* nothing about that.                                                      *)
THEOREM Refinement == Spec => ImplementsTransfer
<1>1. Init => Transfer!Init
  BY DEF Init, InCall, Transfer!Init
<1>2. IInv /\ [Next]_vars => [Transfer!Next]_(Transfer!vars)
  BY StepRefines
<1> QED BY <1>1, <1>2, Inductive, PTL DEF Spec, ImplementsTransfer, Transfer!Spec

(***************************************************************************)
(* The acknowledge of a read.                                              *)
(***************************************************************************)
(* The ACK bit is off exactly while the byte awaited is the last one. *)
AckInv ==
  InCall /\ ~tainted /\ bus = "busy" /\ state = "READ" =>
    (ackOn <=> ~isLastData(req[msgs], cur_ptr))

(* The handler of a clean call sees the message at its cursor. *)
LEMMA SeesItsMessage ==
  ASSUME IInv, InCall, ~tainted, bus = "busy"
  PROVE  /\ Seen = {req[msgs]}
         /\ req[msgs].len \in Nat /\ cur_ptr \in Nat
         /\ state = "READ" => cur_ptr < req[msgs].len
<1>1. Working
  BY DEF IInv, TypeOK, PrepareInv, Preparing, Working, InCall
<1>2. own /\ req \in Requests /\ msgs \in DOMAIN req
  BY <1>1 DEF IInv, WorkInv
<1>3. req[msgs].len \in Nat
  BY <1>2, RequestsAssumption, RequestShape
<1>4. Live
  BY <1>2 DEF Live
<1> QED BY <1>3, <1>4, NoStrayFromInv DEF NoStrayAccess, IInv, TypeOK, Seen

LEMMA AckInit == Init => AckInv
  BY DEF Init, AckInv, InCall

(* Every byte asked for sets the ACK bit for itself. *)
LEMMA AckStep ==
  ASSUME IInv, AckInv, [Next]_vars
  PROVE  AckInv'
<1> SUFFICES ASSUME InCall', ~tainted', bus' = "busy", state' = "READ"
             PROVE  (ackOn <=> ~isLastData(req[msgs], cur_ptr))'
  BY DEF AckInv
<1>1. ASSUME NEW nack \in BOOLEAN, NEW m \in Seen, Irq(nack, m)
      PROVE  (ackOn <=> ~isLastData(req[msgs], cur_ptr))'
  <2>1. bus = "busy" /\ ~tainted /\ req' = req
    BY <1>1 DEF Irq
  <2>2. ASSUME NEW p, ReceiveByte(m, p), InCall
        PROVE  (ackOn <=> ~isLastData(req[msgs], cur_ptr))'
    <3>1. m = req[msgs]
      BY <2>1, <2>2, SeesItsMessage
    <3> QED BY <2>1, <2>2, <3>1 DEF ReceiveByte, isLastData
  <2>3. state' = "READ" => \E p : ReceiveByte(m, p)
    BY <1>1 DEF Irq, StartCase, WriteCase, ReadCase, NackCase, OtherCase, ReadOn, WriteOn,
                NextMsg, LastMsg, Stop, SendByte, xfer
  <2>4. InCall
    BY <1>1 DEF Irq, StartCase, WriteCase, ReadCase, NackCase, OtherCase, ReadOn, WriteOn,
                NextMsg, LastMsg, Stop, SendByte, ReceiveByte, InCall
  <2> QED BY <2>2, <2>3, <2>4
<1>2. CASE Xfer
  <2>1. /\ InCall /\ ~tainted /\ state = "READ"
        /\ UNCHANGED <<req, ackOn, tainted>>
    BY <1>2 DEF Xfer, SetMsgs, SetMsnNum, SetCurMsg, SetCurPtr, SetErr, Assign, Fields,
                StartState, StartBus, WaitDone, WaitSleep, Finish, InCall, wire, xfer
  <2>2. pc # "go"
    BY <2>1 DEF IInv, PrepareInv, Preparing
  <2>3. bus = "busy"
    BY <1>2, <2>2 DEF Xfer, SetMsgs, SetMsnNum, SetCurMsg, SetCurPtr, SetErr, Assign,
                      StartState, StartBus, WaitDone, WaitSleep, wire
  <2>4. ~Preparing
    BY <2>1, <2>3 DEF IInv, PrepareInv
  <2>5. UNCHANGED <<msgs, cur_ptr>>
    BY <1>2, <2>4 DEF Xfer, SetMsgs, SetMsnNum, SetCurMsg, SetCurPtr, SetErr, Assign, Fields,
                      StartState, StartBus, WaitDone, WaitSleep, Finish, Preparing, xfer
  <2> QED BY <2>1, <2>3, <2>5 DEF AckInv, isLastData
<1>3. CASE Call
  BY <1>3 DEF Call
<1>4. CASE WaitTimeout
  BY <1>4 DEF WaitTimeout, Finish, InCall
<1>5. CASE UNCHANGED vars
  BY <1>5 DEF vars, xfer, wire, AckInv, InCall, isLastData
<1> QED BY <1>1, <1>2, <1>3, <1>4, <1>5 DEF Next, AnIrq

(* A clean read ends on a byte that is not acknowledged and on no other, for *)
(* every length and every sequence of messages.                              *)
THEOREM LastReadNotAckedHolds == Spec => LastReadNotAcked
<1> DEFINE Ends == InCall /\ ~tainted /\ bus = "busy" /\ state = "READ" /\ AnIrq
                     => (ackOn <=> state' = "READ")
<1>1. IInv /\ AckInv => Ends
  <2> SUFFICES ASSUME IInv, AckInv, InCall, ~tainted, bus = "busy", state = "READ",
                      NEW nack \in BOOLEAN, NEW m \in Seen, Irq(nack, m)
               PROVE  ackOn <=> state' = "READ"
    BY DEF AnIrq
  <2>1. m = req[msgs] /\ m.len \in Nat /\ cur_ptr \in Nat /\ cur_ptr < m.len
    BY SeesItsMessage
  <2>2. ReadOn(m, cur_ptr + 1)
    BY DEF Irq, StartCase, WriteCase, ReadCase, NackCase, OtherCase
  <2>3. state' = "READ" <=> ~isEndData(m, cur_ptr + 1)
    BY <2>2 DEF ReadOn, ReceiveByte, NextMsg, LastMsg, Stop
  <2>4. isEndData(m, cur_ptr + 1) <=> isLastData(m, cur_ptr)
    BY <2>1 DEF isEndData, isLastData
  <2>5. ackOn <=> ~isLastData(m, cur_ptr)
    BY <2>1 DEF AckInv
  <2> QED BY <2>3, <2>4, <2>5
<1>2. IInv /\ AckInv /\ [Next]_vars => [Ends]_vars
  BY <1>1
<1>3. IInv /\ AckInv /\ [Next]_vars => AckInv'
  BY AckStep
<1> QED BY <1>2, <1>3, AckInit, Inductive, PTL DEF Spec, LastReadNotAcked
=============================================================================
