----------------------------- MODULE I2cTransfer -----------------------------
(***************************************************************************)
(* What a caller of the adapter's master_xfer is promised: the messages of *)
(* a request are carried over the bus one after the other, the bytes of a  *)
(* message in order and each exactly once, and the result tells whether    *)
(* all of them were.  A call that begins while the bus still works for an  *)
(* earlier one that timed out is promised only that it returns something;  *)
(* the calls after it are promised everything again.  I2cBus.tla, the      *)
(* model of i2c/6th_i2c_bus/i2c_bus_s3c2440.c, is shown to implement it.   *)
(***************************************************************************)
EXTENDS Naturals, Sequences

CONSTANT Requests    \* the sequences of messages a caller passes

VARIABLES
  active,   \* a call is in progress
  clean,    \* it began on an idle bus
  req,      \* the messages of the call, the last one made
  done,     \* the places of req that have been carried
  ret       \* the result of the last call; "none" while one is in progress

vars == <<active, clean, req, done, ret>>

(* The places of a request: <<i, 0>> is the address byte of its message i, *)
(* <<i, k>> the k-th data byte of it.                                      *)
Places(r) == UNION { {i} \X (0..r[i].len) : i \in DOMAIN r }

(* The order in which the places are carried. *)
Before(p, q) == p[1] < q[1] \/ (p[1] = q[1] /\ p[2] < q[2])

Earlier(r, q) == { p \in Places(r) : Before(p, q) }

Init ==
  /\ active = FALSE
  /\ clean = TRUE
  /\ req = <<>>
  /\ done = {}
  /\ ret = "none"

Request ==
  /\ ~active
  /\ active' = TRUE
  /\ clean' \in BOOLEAN
  /\ req' \in Requests
  /\ done' = {}
  /\ ret' = "none"

(* The next place in order is carried; what a call that is not clean does  *)
(* on the bus is not told.                                                 *)
Carry(p) ==
  /\ active /\ clean
  /\ p \in Places(req) \ done
  /\ Earlier(req, p) \subseteq done
  /\ done' = done \cup {p}
  /\ UNCHANGED <<active, clean, req, ret>>

(* Success means complete, a missing device incomplete; a call that timed *)
(* out says nothing.                                                      *)
Return ==
  /\ active
  /\ active' = FALSE
  /\ ret' \in {"ok", "ENODEV", "ETIMEDOUT"}
  /\ clean /\ ret' = "ok" => done = Places(req)
  /\ clean /\ ret' = "ENODEV" => done # Places(req)
  /\ UNCHANGED <<clean, req, done>>

Next ==
  \/ Request
  \/ \E p \in Places(req) : Carry(p)
  \/ Return

Spec == Init /\ [][Next]_vars
==============================================================================
