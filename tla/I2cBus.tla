-------------------------------- MODULE I2cBus --------------------------------
(***************************************************************************)
(* The I2C adapter driver i2c/6th_i2c_bus/i2c_bus_s3c2440.c: the process   *)
(* context function s3c2440_i2c_xfer, the interrupt handler                *)
(* s3c2440_i2c_xfer_irq with its state machine, and what they do to the    *)
(* controller and to the wire.                                             *)
(*                                                                         *)
(* The i2c core serialises the calls of xfer, so one caller suffices.  The *)
(* interrupt may come between any two statements of xfer and is not itself *)
(* preempted.  A byte's content is abstracted to its place (I2cTransfer):  *)
(* message and index.  The pointer msgs is an array, the current call's or *)
(* another, and an index into it.                                          *)
(***************************************************************************)
EXTENDS Naturals, Sequences

CONSTANTS
  Requests,     \* the sequences of messages a caller passes
  Strays,       \* what may be read through a msgs pointer that is stale
  MaxIndex      \* bound on the index of a stale msgs pointer

Messages == [rd : BOOLEAN, len : Nat]

ASSUME RequestsAssumption == Requests \subseteq Seq(Messages) \ {<<>>}
ASSUME StraysAssumption   == Strays \subseteq Messages
ASSUME IndexAssumption    == MaxIndex \in Nat /\ \A r \in Requests : Len(r) <= MaxIndex

VARIABLES
  \* struct s3c2440_i2c_xfer_data
  own,          \* msgs points into the array of the call in progress
  msgs,         \* the index in its array of the message msgs points at
  msn_num,
  cur_msg,
  cur_ptr,
  state,
  err,
  \* the caller, in s3c2440_i2c_xfer
  pc,
  req,          \* the messages of the call, the last one made
  ret,          \* the result of the last call; "none" during a call
  \* the controller and the wire
  bus,          \* "busy": a byte is on its way and an interrupt will follow
  ackOn,        \* IICCON bit 7: a received byte will be acknowledged
  flying,       \* the place that the byte last put on the wire stands for
  done,         \* the places of this call that were carried and acknowledged
  tainted       \* the call began while the bus still worked for another

xfer == <<own, msgs, msn_num, cur_msg, cur_ptr, state, err>>
wire == <<bus, ackOn, flying, done>>
vars == <<xfer, pc, req, ret, wire, tainted>>

Fields == {"msgs", "msn_num", "cur_msg", "cur_ptr", "err"}
InCall == pc # "out"

TypeOK ==
  /\ own \in BOOLEAN
  /\ msgs \in Nat /\ msn_num \in Nat /\ cur_msg \in Nat /\ cur_ptr \in Nat
  /\ state \in {"IDLE", "START", "READ", "WRITE", "STOP"}
  /\ err \in {"ok", "ENODEV"}
  /\ pc \in Fields \cup {"out", "start", "go", "check", "sleep", "woken"}
  /\ req \in Requests \cup {<<>>}
  /\ ret \in {"none", "ok", "ENODEV", "ETIMEDOUT"}
  /\ bus \in {"idle", "busy"}
  /\ ackOn \in BOOLEAN
  /\ flying \in Nat \X Nat
  /\ done \in SUBSET (Nat \X Nat)
  /\ tainted \in BOOLEAN

(* The place of a byte that belongs to no message of the call. *)
Nowhere == <<0, 0>>

Init ==
  /\ own = FALSE /\ msgs = 0 /\ msn_num = 0 /\ cur_msg = 0 /\ cur_ptr = 0
  /\ state = "IDLE" /\ err = "ok"
  /\ pc = "out" /\ req = <<>> /\ ret = "none"
  /\ bus = "idle" /\ ackOn = TRUE
  /\ flying = Nowhere /\ done = {} /\ tainted = FALSE

(***************************************************************************)
(* Helpers of the source.                                                  *)
(***************************************************************************)
isLastMsg == cur_msg + 1 = msn_num

\* Mutant: one byte too many.
isEndData_OneMore(m, p) == p > m.len

isEndData(m, p) == p >= m.len

\* Mutant: the byte after the last is taken for the last.
isLastData_Late(m, p) == p = m.len

isLastData(m, p) == p + 1 = m.len

(* The messages the handler may see through msgs: a stale pointer, or one  *)
(* past the end of the array, may show anything.                           *)
Live == InCall /\ own /\ msgs \in DOMAIN req
Seen == IF Live THEN {req[msgs]} ELSE Strays

(* s3c2440_i2c_start: the address byte of message i of the array is put on *)
(* the wire.                                                               *)
Address(i) ==
  /\ bus' = "busy"
  /\ flying' = IF own THEN <<i, 0>> ELSE Nowhere

\* Mutant: the sleeping caller is not woken.
Stop_NoWake(e) ==
  /\ state' = "STOP"
  /\ err' = e
  /\ bus' = "idle" /\ ackOn' = TRUE
  /\ UNCHANGED <<own, msgs, msn_num, cur_msg, flying, pc>>

(* s3c2440_i2c_stop: P on the wire, STATE_STOP, and the sleeper is woken. *)
Stop(e) ==
  /\ state' = "STOP"
  /\ err' = e
  /\ bus' = "idle" /\ ackOn' = TRUE
  /\ pc' = IF pc = "sleep" THEN "woken" ELSE pc
  /\ UNCHANGED <<own, msgs, msn_num, cur_msg, flying>>

(***************************************************************************)
(* s3c2440_i2c_xfer.  Its assignments are separate steps, since a late     *)
(* interrupt may come between them.                                        *)
(***************************************************************************)
Call ==
  /\ pc = "out"
  /\ pc' = "msgs"
  /\ req' \in Requests
  /\ ret' = "none"
  /\ flying' = Nowhere /\ done' = {}
  /\ tainted' = (bus = "busy")
  /\ UNCHANGED <<xfer, bus, ackOn>>

Assign(field, next) ==
  /\ pc = field
  /\ pc' = next
  /\ UNCHANGED <<state, req, ret, wire, tainted>>

SetMsgs ==
  /\ Assign("msgs", "msn_num")
  /\ own' = TRUE /\ msgs' = 1
  /\ UNCHANGED <<msn_num, cur_msg, cur_ptr, err>>

SetMsnNum ==
  /\ Assign("msn_num", "cur_msg")
  /\ msn_num' = Len(req)
  /\ UNCHANGED <<own, msgs, cur_msg, cur_ptr, err>>

SetCurMsg ==
  /\ Assign("cur_msg", "cur_ptr")
  /\ cur_msg' = 0
  /\ UNCHANGED <<own, msgs, msn_num, cur_ptr, err>>

SetCurPtr ==
  /\ Assign("cur_ptr", "err")
  /\ cur_ptr' = 0
  /\ UNCHANGED <<own, msgs, msn_num, cur_msg, err>>

\* Mutant: err is preset with a code the handler never reports.
SetErr_Timeout ==
  /\ Assign("err", "start")
  /\ err' = "ETIMEDOUT"
  /\ UNCHANGED <<own, msgs, msn_num, cur_msg, cur_ptr>>

SetErr ==
  /\ Assign("err", "start")
  /\ err' = "ENODEV"
  /\ UNCHANGED <<own, msgs, msn_num, cur_msg, cur_ptr>>

\* Mutant: the registers are written before the state.
StartState_AfterBus ==
  \/ /\ pc = "start" /\ pc' = "state"
     /\ Address(msgs)
     /\ UNCHANGED <<xfer, req, ret, ackOn, done, tainted>>
  \/ /\ pc = "state" /\ pc' = "check"
     /\ state' = "START"
     /\ UNCHANGED <<own, msgs, msn_num, cur_msg, cur_ptr, err, req, ret, wire, tainted>>

(* s3c2440_i2c_start from process context: the state, then the registers. *)
StartState ==
  /\ pc = "start"
  /\ pc' = "go"
  /\ state' = "START"
  /\ UNCHANGED <<own, msgs, msn_num, cur_msg, cur_ptr, err, req, ret, wire, tainted>>

StartBus ==
  /\ pc = "go"
  /\ pc' = "check"
  /\ Address(msgs)
  /\ UNCHANGED <<xfer, req, ret, ackOn, done, tainted>>

(* wait_event_timeout: the caller is on the wait queue before it looks at *)
(* the condition, so that the look and the falling asleep are one step.   *)
Finish(r) ==
  /\ pc' = "out"
  /\ ret' = r
  /\ own' = FALSE
  /\ UNCHANGED <<msgs, msn_num, cur_msg, cur_ptr, state, err, req, ackOn, flying, done, tainted>>

WaitDone ==
  /\ pc \in {"check", "woken"} /\ state = "STOP"
  /\ Finish(err)
  /\ UNCHANGED bus

WaitSleep ==
  /\ pc \in {"check", "woken"} /\ state # "STOP"
  /\ pc' = "sleep"
  /\ UNCHANGED <<xfer, req, ret, wire, tainted>>

(* The 5 s are over, perhaps at the moment of the wake-up, and the caller   *)
(* does not look at the condition again.  Nothing is done to the controller *)
(* or to the state: the bus may be stuck for good, or answer later.         *)
WaitTimeout ==
  /\ pc \in {"sleep", "woken"}
  /\ Finish("ETIMEDOUT")
  /\ bus' \in {bus, "idle"}

(***************************************************************************)
(* s3c2440_i2c_xfer_irq: the byte in flight has been shifted.  nack is     *)
(* IICSTAT bit 0, m the message the handler sees through msgs.             *)
(***************************************************************************)
Carried(p) == done' = IF InCall THEN done \cup {p} ELSE done

\* Mutant: the byte index is not reset for the next message.
NextMsg_KeepPtr ==
  /\ ~isLastMsg
  /\ msgs < MaxIndex
  /\ msgs' = msgs + 1
  /\ cur_msg' = cur_msg + 1
  /\ state' = "START"
  /\ Address(msgs + 1)
  /\ UNCHANGED <<own, msn_num, err, pc, ackOn, cur_ptr>>

(* The last branches of STATE_WRITE and of STATE_READ, with p bytes of the *)
(* message moved: the next message, or the end.                            *)
NextMsg ==
  /\ ~isLastMsg
  /\ msgs < MaxIndex
  /\ msgs' = msgs + 1
  /\ cur_msg' = cur_msg + 1
  /\ cur_ptr' = 0
  /\ state' = "START"
  /\ Address(msgs + 1)
  /\ UNCHANGED <<own, msn_num, err, pc, ackOn>>

LastMsg(p) ==
  /\ isLastMsg
  /\ Stop("ok")
  /\ cur_ptr' = p

\* Mutant: the byte is sent but not counted.
SendByte_NoCount(m) ==
  /\ ~isEndData(m, cur_ptr)
  /\ state' = "WRITE"
  /\ flying' = IF own /\ flying = <<msgs, cur_ptr>> THEN <<msgs, cur_ptr + 1>> ELSE Nowhere
  /\ ackOn' = TRUE
  /\ UNCHANGED <<own, msgs, msn_num, cur_msg, err, pc, bus, cur_ptr>>

(* The rest of STATE_WRITE once the acknowledge is in. *)
SendByte(m) ==
  /\ ~isEndData(m, cur_ptr)
  /\ state' = "WRITE"
  /\ cur_ptr' = cur_ptr + 1
  /\ flying' = IF own /\ flying = <<msgs, cur_ptr>> THEN <<msgs, cur_ptr + 1>> ELSE Nowhere
  /\ ackOn' = TRUE
  /\ UNCHANGED <<own, msgs, msn_num, cur_msg, err, pc, bus>>

WriteOn(m) ==
  \/ SendByte(m)
  \/ isEndData(m, cur_ptr) /\ (NextMsg \/ LastMsg(cur_ptr))

(* Label next_read, with p bytes of the message read. *)
ReceiveByte(m, p) ==
  /\ ~isEndData(m, p)
  /\ state' = "READ"
  /\ cur_ptr' = p
  /\ ackOn' = ~isLastData(m, p)
  /\ flying' = <<flying[1], flying[2] + 1>>
  /\ UNCHANGED <<own, msgs, msn_num, cur_msg, err, pc, bus>>

ReadOn(m, p) ==
  \/ ReceiveByte(m, p)
  \/ isEndData(m, p) /\ (NextMsg \/ LastMsg(p))

StartCase(nack, m) ==
  /\ state = "START"
  /\ ~nack
  /\ Carried(flying)
  /\ \/ isLastMsg /\ isEndData(m, cur_ptr) /\ LastMsg(cur_ptr)
     \/ ~(isLastMsg /\ isEndData(m, cur_ptr)) /\ m.rd  /\ ReadOn(m, cur_ptr)
     \/ ~(isLastMsg /\ isEndData(m, cur_ptr)) /\ ~m.rd /\ WriteOn(m)

WriteCase(nack, m) ==
  /\ state = "WRITE"
  /\ ~nack
  /\ Carried(flying)
  /\ WriteOn(m)

ReadCase(m) ==
  /\ state = "READ"
  /\ Carried(IF own /\ flying = <<msgs, cur_ptr + 1>> THEN flying ELSE Nowhere)
  /\ ReadOn(m, cur_ptr + 1)

NackCase(nack) ==
  /\ state \in {"START", "WRITE"}
  /\ nack
  /\ Stop("ENODEV")
  /\ UNCHANGED <<cur_ptr, done>>

(* A byte ends while the state is IDLE or STOP: only the pending bit is *)
(* cleared.                                                             *)
OtherCase ==
  /\ state \in {"IDLE", "STOP"}
  /\ UNCHANGED <<xfer, pc, wire>>

Irq(nack, m) ==
  /\ bus = "busy"
  /\ \/ StartCase(nack, m)
     \/ WriteCase(nack, m)
     \/ ReadCase(m)
     \/ NackCase(nack)
     \/ OtherCase
  /\ UNCHANGED <<req, ret, tainted>>

AnIrq == \E nack \in BOOLEAN, m \in Seen : Irq(nack, m)

Xfer ==
  \/ SetMsgs \/ SetMsnNum \/ SetCurMsg \/ SetCurPtr \/ SetErr
  \/ StartState \/ StartBus
  \/ WaitDone \/ WaitSleep

Next == Call \/ Xfer \/ WaitTimeout \/ AnIrq

Spec == Init /\ [][Next]_vars

(* The process is scheduled, and a byte in flight ends; callers and *)
(* timeouts are under no obligation.                                *)
Fairness == WF_vars(Xfer) /\ WF_vars(AnIrq)
FairSpec == Spec /\ Fairness

(***************************************************************************)
(* Properties.                                                             *)
(***************************************************************************)
Transfer == INSTANCE I2cTransfer
  WITH active <- InCall, clean <- ~tainted, done <- IF tainted THEN {} ELSE done

(* Every call that begins on an idle bus is carried over it as I2cTransfer *)
(* promises, whatever late answers did to the calls before it.             *)
ImplementsTransfer == Transfer!Spec

(* A call that begins on an idle bus tells the truth: "ok" when every place *)
(* of its messages was carried, -ENODEV when one was refused; whatever may  *)
(* have happened to the calls before it.                                    *)
CleanResult ==
  pc = "out" /\ ~tainted =>
    /\ ret = "ok" => done = Transfer!Places(req)
    /\ ret = "ENODEV" => done # Transfer!Places(req)

(* While a clean call is under way, the handler's cursor (msgs, cur_ptr) is *)
(* where the wire is, and what has been carried is what comes before it.    *)
Cursor ==
  CASE state = "START" -> <<msgs, 0>>
    [] state = "WRITE" -> <<msgs, cur_ptr>>
    [] state = "READ"  -> <<msgs, cur_ptr + 1>>
    [] OTHER -> Nowhere

CursorOnWire ==
  InCall /\ ~tainted /\ bus = "busy" =>
    /\ flying = Cursor
    /\ done = Transfer!Earlier(req, flying)

(* The handler dereferences msgs only inside the array of the call that is *)
(* in progress, and the buffer of that message only below its len.  Clean  *)
(* calls only.                                                             *)
NoStrayAccess ==
  bus = "busy" /\ InCall /\ ~tainted =>
    /\ Live
    /\ state = "READ" => cur_ptr < req[msgs].len

(* A clean read ends on a byte that was not acknowledged and on no other,   *)
(* so that the device releases SDA for the S or P that follows: the ACK bit *)
(* is off exactly when the byte awaited is the last.                        *)
LastReadNotAcked ==
  [][ InCall /\ ~tainted /\ bus = "busy" /\ state = "READ" /\ AnIrq
        => (ackOn <=> state' = "READ") ]_vars

(* A clean call returns, even if its timer never fires. *)
XferReturns == InCall /\ ~tainted ~> ~InCall

(* s3c2440_i2c_xfer says of itself that it sends or reads all of the num    *)
(* messages (line 119): its 0 means that it did.                            *)
ZeroMeansAllMoved == pc = "out" /\ ret = "ok" => done = Transfer!Places(req)
=============================================================================
