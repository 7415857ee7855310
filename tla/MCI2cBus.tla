------------------------------- MODULE MCI2cBus -------------------------------
(* Instances of I2cBus: requests of up to two messages of up to two bytes,   *)
(* reads and writes mixed, empty messages among them.                        *)
EXTENDS I2cBus

Plain(rd, len) == [rd |-> rd, len |-> len]

PlainMessages == { Plain(rd, len) : rd \in BOOLEAN, len \in 0..2 }

(* Every request of one or two messages. *)
AllRequests == { <<m>> : m \in PlainMessages } \cup (PlainMessages \X PlainMessages)

(* A pointer-then-read transaction of three messages besides the short ones. *)
LongRequests ==
  AllRequests \cup { <<Plain(FALSE, 1), Plain(TRUE, 2), Plain(FALSE, 2)>> }

(* Requests enough for a call to disturb another. *)
FewRequests ==
  { <<Plain(FALSE, 2)>>, <<Plain(TRUE, 1)>>, <<Plain(FALSE, 1), Plain(TRUE, 2)>> }

FewStrays == { Plain(FALSE, 2), Plain(TRUE, 0) }
=============================================================================
