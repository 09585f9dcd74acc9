------------------------------ MODULE WireBus ------------------------------
(***************************************************************************)
(* Wire as I2C master: the TwoWire objects (one per bus), the WireContext  *)
(* that each task keeps for all buses, the GateMutex with its enter count, *)
(* I2C_transfer() in blocking mode and the Hwi of the I2C driver against a *)
(* device that may refuse any byte.                                        *)
(*                                                                         *)
(* The bytes of a transfer are counted, not stored: the indices and counts *)
(* say which bytes are sent and which cells of rxBuffer are filled.        *)
(***************************************************************************)
EXTENDS Integers

CONSTANTS
  Tasks, NoTask,
  Buses,      \* Wire and Wire1
  Devices,    \* the addresses in use
  B,          \* BUFFER_LENGTH
  Requesters, \* bound: the tasks that also call requestFrom() and read()
  MaxRequest, \* bound: the largest quantity of requestFrom()
  Roaming,    \* TRUE: after endTransmission(false) a sketch may go on with
              \* another device or bus
  MidFlush,   \* TRUE: a sketch may flush() a transmission it has begun
  LateNack    \* TRUE: a device may refuse the last byte of a write

ASSUME WireAssumption ==
  /\ NoTask \notin Tasks
  /\ Buses # {} /\ Devices # {}
  /\ Requesters \subseteq Tasks
  /\ B \in Nat \ {0, 1}
  /\ MaxRequest \in 1 .. B
  /\ Roaming \in BOOLEAN /\ MidFlush \in BOOLEAN /\ LateNack \in BOOLEAN

VARIABLES
  ctx,     \* each task's WireContext
  gate,    \* the owner of each bus's GateMutex
  enters,  \* gateEnterCount of each bus
  drv,     \* each bus's I2C driver object and eUSCI
  pc,      \* where each task is
  call,    \* the call each task is in: its arguments and result
  open,    \* ghost: the sketch is between beginTransmission and endTransmission
  asked,   \* ghost: the transfer the sketch asked for: device, bytes to
           \* write, bytes to read
  fresh    \* ghost: how many bytes of the last transfer read() has yet to return
           \* (-1: it returned more)

ghosts == <<open, asked, fresh>>
locking == <<gate, enters>>
vars == <<ctx, locking, drv, pc, call, ghosts>>

NewContext(d) ==
  [idle |-> TRUE, addr |-> d, txW |-> 0, writes |-> 0, rxR |-> 0, rxW |-> 0, reads |-> 0]

\* on: a transfer is running; last: its last byte is still being shifted out;
\* done: the semaphore transferComplete; held: the power constraints held.
IdleDriver ==
  [mutex |-> NoTask, cur |-> NoTask, w |-> 0, r |-> 0,
   mode |-> "idle", on |-> FALSE, last |-> FALSE, done |-> 0, held |-> 0]

\* the sketch asks for nothing
Nothing == [dev |-> CHOOSE d \in Devices : TRUE, n |-> 0, q |-> 0]

Goto(t, l) == pc' = [pc EXCEPT ![t] = l]

InSketch(t) == pc[t] = "sketch"

\* beginTransmission() after the gate: the address is stored in an idle context
OpenContext(c, d) == IF c.idle THEN [c EXCEPT !.addr = d, !.idle = FALSE] ELSE c

\* A sketch begins a transmission to device d on bus b.
MayBegin(t, b, d) ==
  /\ InSketch(t)
  /\ ~open[t]
  /\ Roaming \/ ctx[t].idle \/ (d = ctx[t].addr /\ b = call[t].bus)

\* beginTransmission(d)
BeginTransmission(t, b, d) ==
  /\ MayBegin(t, b, d)
  /\ call' = [call EXCEPT ![t].bus = b, ![t].end = FALSE]
  /\ open' = [open EXCEPT ![t] = TRUE]
  /\ asked' = [asked EXCEPT ![t] = [dev |-> d, n |-> ctx[t].writes, q |-> 0]]
  /\ Goto(t, "gate")
  /\ UNCHANGED <<ctx, locking, drv, fresh>>

\* requestFrom(d, q, stop): beginTransmission(), readCount = q,
\* endTransmission(stop); alone or inside a transmission to the same device
RequestFrom(t, b, d, q, stop) ==
  /\ t \in Requesters
  /\ \/ MayBegin(t, b, d)
     \/ InSketch(t) /\ open[t] /\ b = call[t].bus /\ d = asked[t].dev
  /\ call' = [call EXCEPT ![t].bus = b, ![t].end = TRUE, ![t].stop = stop]
  /\ asked' = [asked EXCEPT ![t].dev = d, ![t].q = q]
  /\ Goto(t, "gate")
  /\ UNCHANGED <<ctx, locking, drv, open, fresh>>

\* GateMutex_enter(), gateEnterCount++ and the rest of beginTransmission();
\* requestFrom() goes on to its transfer
EnterGate(t) ==
  LET b == call[t].bus
  IN /\ pc[t] = "gate"
     /\ gate[b] \in {NoTask, t}
     /\ gate' = [gate EXCEPT ![b] = t]
     /\ enters' = [enters EXCEPT ![b] = (@ + 1) % 256]
     /\ ctx' = [ctx EXCEPT ![t] = [OpenContext(@, asked[t].dev) EXCEPT !.reads = asked[t].q]]
     /\ Goto(t, IF call[t].end THEN "transfer" ELSE "sketch")
     /\ UNCHANGED <<drv, call, ghosts>>

\* write(): the byte goes to txBuffer unless it is full (txReadIndex stays 0)
Write(t) ==
  /\ InSketch(t)
  /\ open[t]
  /\ (ctx[t].txW + 1) % B # 0
  /\ ctx' = [ctx EXCEPT ![t].txW = @ + 1, ![t].writes = ctx[t].txW + 1]
  /\ asked' = [asked EXCEPT ![t].n = @ + 1]
  /\ UNCHANGED <<locking, drv, pc, call, open, fresh>>

\* flush() empties the buffers
Flush(t) ==
  /\ InSketch(t)
  /\ MidFlush \/ ctx[t].txW = 0
  /\ ctx' = [ctx EXCEPT ![t].txW = 0, ![t].rxR = ctx[t].rxW]
  /\ asked' = [asked EXCEPT ![t].n = 0]
  /\ fresh' = [fresh EXCEPT ![t] = 0]
  /\ UNCHANGED <<locking, drv, pc, call, open>>

\* the part of available() and read() that depends on the indices
Available(c) == IF c.rxW >= c.rxR THEN c.rxW - c.rxR ELSE B - (c.rxR - c.rxW)

\* read() of a buffer that is not empty
Read(t) ==
  /\ InSketch(t)
  /\ ctx[t].rxR # ctx[t].rxW
  /\ ctx' = [ctx EXCEPT ![t].rxR = (@ + 1) % B]
  /\ fresh' = [fresh EXCEPT ![t] = IF @ = -1 THEN -1 ELSE @ - 1]
  /\ UNCHANGED <<locking, drv, pc, call, open, asked>>

\* endTransmission(stop)
EndTransmission(t, stop) ==
  /\ InSketch(t)
  /\ open[t]
  /\ call' = [call EXCEPT ![t].stop = stop]
  /\ open' = [open EXCEPT ![t] = FALSE]
  /\ Goto(t, "transfer")
  /\ UNCHANGED <<ctx, locking, drv, asked, fresh>>

\* I2CMSP432_transfer() has nothing to do when both counts are 0
Transfer(t) ==
  /\ pc[t] = "transfer"
  /\ LET empty == ctx[t].writes = 0 /\ ctx[t].reads = 0
     IN /\ Goto(t, IF empty THEN "finish" ELSE "mutex")
        /\ call' = [call EXCEPT ![t].ok = FALSE]
  /\ fresh' = [fresh EXCEPT ![t] = 0]
  /\ UNCHANGED <<ctx, locking, drv, open, asked>>

\* The mutex of the driver is taken, the constraints are set, the transfer is
\* primed (primeTransfer).
Prime(t) ==
  LET b == call[t].bus
      c == ctx[t]
  IN /\ pc[t] = "mutex"
     /\ drv[b].mutex = NoTask
     /\ drv' = [drv EXCEPT ![b].mutex = t, ![b].cur = t, ![b].held = @ + 1,
                           ![b].w = c.writes, ![b].r = c.reads, ![b].on = TRUE,
                           ![b].mode = IF c.writes # 0 THEN "write" ELSE "read"]
     /\ Goto(t, "wait")
     /\ UNCHANGED <<ctx, locking, call, ghosts>>

\* mutant: nobody is told
Complete_NoPost(d) == [d EXCEPT !.w = 0, !.r = 0, !.held = @ - 1]

\* completeTransfer(): post transferComplete, release the constraints (the
\* counters have no meaning until the next transfer is primed)
Complete(d) == [d EXCEPT !.w = 0, !.r = 0, !.done = 1, !.held = @ - 1]

\* I2CMSP432_hwiIntFxn in write mode: a byte to TXBUF; or the last byte of a
\* plain write with its STOP (masterSendMultiByteFinish), which completes the
\* transfer before that byte is acknowledged; or on to the read part
HwiWrite(b) ==
  /\ drv[b].on /\ drv[b].mode = "write"
  /\ LET d == drv[b]
     IN drv' = [drv EXCEPT ![b] =
          CASE d.w = 1 /\ d.r = 0 -> Complete([d EXCEPT !.mode = "idle", !.on = FALSE, !.last = TRUE])
            [] d.w > 0 /\ ~(d.w = 1 /\ d.r = 0) -> [d EXCEPT !.w = @ - 1]
            [] d.w = 0 -> [d EXCEPT !.mode = "read"]]
  /\ UNCHANGED <<ctx, locking, pc, call, ghosts>>

\* I2CMSP432_hwiIntFxn in read mode: a byte to rxBuffer
HwiRead(b) ==
  /\ drv[b].on /\ drv[b].mode = "read"
  /\ LET d == [drv[b] EXCEPT !.r = @ - 1]
     IN drv' = [drv EXCEPT ![b] =
          IF d.r > 0 THEN d ELSE Complete([d EXCEPT !.mode = "idle", !.on = FALSE])]
  /\ fresh' = [fresh EXCEPT ![drv[b].cur] = @ + 1]
  /\ UNCHANGED <<ctx, locking, pc, call, open, asked>>

\* mutant: the error completes the transfer, and so does the STOP it sends
HwiError_Twice(b) ==
  /\ drv[b].on
  /\ drv' = [drv EXCEPT ![b] = Complete([@ EXCEPT !.mode = "error"])]
  /\ UNCHANGED <<ctx, locking, pc, call, ghosts>>

\* mutant: an error leaves the mode as it is
HwiError_NoMode(b) ==
  /\ drv[b].on
  /\ drv' = [drv EXCEPT ![b] = Complete([@ EXCEPT !.on = FALSE, !.mode = "idle"])]
  /\ UNCHANGED <<ctx, locking, pc, call, ghosts>>

\* I2CMSP432_hwiIntFxn after a NACK or a lost arbitration
HwiError(b) ==
  /\ drv[b].on
  /\ drv' = [drv EXCEPT ![b] = Complete([@ EXCEPT !.on = FALSE, !.mode = "error"])]
  /\ UNCHANGED <<ctx, locking, pc, call, ghosts>>

\* The last byte of a write is acknowledged, or refused: the Hwi then ends
\* whatever transfer is running and completes a transfer once more.
LastByte(b) ==
  /\ drv[b].last
  /\ LET d == [drv[b] EXCEPT !.last = FALSE]
     IN \E x \in {d} \cup {y \in {Complete([d EXCEPT !.on = FALSE, !.mode = "error"])} : LateNack} :
          drv' = [drv EXCEPT ![b] = x]
  /\ UNCHANGED <<ctx, locking, pc, call, ghosts>>

\* SemaphoreP_pend(transferComplete); the mutex is posted
Wait(t) ==
  LET b == call[t].bus
  IN /\ pc[t] = "wait"
     /\ drv[b].done = 1
     /\ drv' = [drv EXCEPT ![b].done = 0, ![b].mutex = NoTask]
     /\ call' = [call EXCEPT ![t].ok = (drv[b].mode = "idle")]
     /\ Goto(t, "finish")
     /\ UNCHANGED <<ctx, locking, ghosts>>

\* mutant: a request leaves its quantity behind
Emptied_KeepsReads(c, stop) ==
  [c EXCEPT !.txW = 0, !.writes = 0, !.rxR = 0, !.rxW = c.reads, !.idle = @ \/ stop]

\* endTransmission() after the transfer: buffers and counts are reset; what was
\* requested counts as received
Emptied(c, stop) ==
  [c EXCEPT !.txW = 0, !.writes = 0, !.rxR = 0, !.rxW = c.reads, !.reads = 0, !.idle = @ \/ stop]

\* mutant: the gate is left with the wrong key: a nested call never frees it
Finish_KeepsGate(t) ==
  LET b == call[t].bus
      n == enters[b] - 1
  IN /\ pc[t] = "finish"
     /\ ctx' = [ctx EXCEPT ![t] = Emptied(@, call[t].stop)]
     /\ enters' = [enters EXCEPT ![b] = n]
     /\ gate' = [gate EXCEPT ![b] = IF enters[b] = 0 THEN NoTask ELSE @]
     /\ asked' = [asked EXCEPT ![t] = IF open[t] THEN [@ EXCEPT !.n = 0, !.q = 0] ELSE Nothing]
     /\ call' = [call EXCEPT ![t].end = FALSE, ![t].stop = TRUE]
     /\ Goto(t, "sketch")
     /\ UNCHANGED <<drv, open, fresh>>

\* the end of endTransmission(): GateMutex_leave(gate, --gateEnterCount), which
\* frees the gate when the count is back at 0 (FIRST_ENTER)
Finish(t) ==
  LET b == call[t].bus
      n == enters[b] - 1
  IN /\ pc[t] = "finish"
     /\ ctx' = [ctx EXCEPT ![t] = Emptied(@, call[t].stop)]
     /\ enters' = [enters EXCEPT ![b] = n]
     /\ gate' = [gate EXCEPT ![b] = IF n = 0 THEN NoTask ELSE @]
     /\ asked' = [asked EXCEPT ![t] = IF open[t] THEN [@ EXCEPT !.n = 0, !.q = 0] ELSE Nothing]
     /\ call' = [call EXCEPT ![t].end = FALSE, ![t].stop = TRUE]
     /\ Goto(t, "sketch")
     /\ UNCHANGED <<drv, open, fresh>>

-----------------------------------------------------------------------------
AnyDevice == CHOOSE d \in Devices : TRUE
AnyBus == CHOOSE b \in Buses : TRUE

\* setup() called Wire.begin() and Wire1.begin().
Init ==
  /\ ctx = [t \in Tasks |-> NewContext(AnyDevice)]
  /\ gate = [b \in Buses |-> NoTask]
  /\ enters = [b \in Buses |-> 0]
  /\ drv = [b \in Buses |-> IdleDriver]
  /\ pc = [t \in Tasks |-> "sketch"]
  /\ call = [t \in Tasks |-> [bus |-> AnyBus, end |-> FALSE, stop |-> TRUE, ok |-> TRUE]]
  /\ open = [t \in Tasks |-> FALSE]
  /\ asked = [t \in Tasks |-> Nothing]
  /\ fresh = [t \in Tasks |-> 0]

Sketch(t) ==
  \/ \E b \in Buses, d \in Devices :
       \/ BeginTransmission(t, b, d)
       \/ \E q \in 1 .. MaxRequest, stop \in BOOLEAN : RequestFrom(t, b, d, q, stop)
  \/ Write(t)
  \/ Flush(t)
  \/ Read(t)
  \/ \E stop \in BOOLEAN : EndTransmission(t, stop)

InCall(t) == EnterGate(t) \/ Transfer(t) \/ Prime(t) \/ Wait(t) \/ Finish(t)

Hwi(b) == HwiWrite(b) \/ HwiRead(b) \/ HwiError(b)

Next ==
  \/ \E t \in Tasks : Sketch(t) \/ InCall(t)
  \/ \E b \in Buses : Hwi(b) \/ LastByte(b)

Spec == Init /\ [][Next]_vars

\* A ready task runs; the device answers or refuses every byte.
Fairness ==
  /\ \A t \in Tasks : WF_vars(InCall(t))
  /\ \A b \in Buses : WF_vars(Hwi(b))

FairSpec == Spec /\ Fairness

(***************************************************************************)
(* Properties.                                                             *)
(***************************************************************************)
Context ==
  [idle : BOOLEAN, addr : Devices, txW : 0 .. B - 1, writes : 0 .. B - 1,
   rxR : 0 .. B - 1, rxW : 0 .. B, reads : 0 .. B]

Txn == [dev : Devices, n : 0 .. B - 1, q : 0 .. B]

Driver ==
  [mutex : Tasks \cup {NoTask}, cur : Tasks \cup {NoTask}, w : 0 .. B - 1, r : 0 .. B,
   mode : {"idle", "write", "read", "error"}, on : BOOLEAN, last : BOOLEAN, done : {0, 1},
   held : Int]

TypeOK ==
  /\ ctx \in [Tasks -> Context]
  /\ gate \in [Buses -> Tasks \cup {NoTask}]
  /\ enters \in [Buses -> 0 .. 255]
  /\ drv \in [Buses -> Driver]
  /\ pc \in [Tasks -> {"sketch", "gate", "transfer", "mutex", "wait", "finish"}]
  /\ call \in [Tasks -> [bus : Buses, end : BOOLEAN, stop : BOOLEAN, ok : BOOLEAN]]
  /\ open \in [Tasks -> BOOLEAN]
  /\ asked \in [Tasks -> Txn]
  /\ fresh \in [Tasks -> -1 .. B]

\* The transfer a task hands to the driver is what its sketch asked for: the
\* device it named, every byte it wrote and no other, the quantity requested;
\* and from there to its end the task owns the bus.
TransferAsAsked ==
  \A t \in Tasks : pc[t] \in {"mutex", "wait"} =>
    /\ [dev |-> ctx[t].addr, n |-> ctx[t].writes, q |-> ctx[t].reads] = asked[t]
    /\ gate[call[t].bus] = t
    /\ pc[t] = "wait" => drv[call[t].bus].cur = t

\* "calls to I2C_transfer() block until the I2C_Transaction completes": the
\* task of a running transfer sleeps in it, and nothing else holds or has
\* released the power constraints of the transfer.
BlocksUntilDone ==
  \A b \in Buses :
    /\ drv[b].on => pc[drv[b].cur] = "wait" /\ drv[b].done = 0
    /\ drv[b].held = IF drv[b].on THEN 1 ELSE 0

\* After a transfer that succeeded, read() returns the bytes that arrived in
\* it and each of them once.
ReadsReceived ==
  \A t \in Tasks : InSketch(t) /\ call[t].ok => Available(ctx[t]) <= fresh[t]

\* The same after any transfer: "slave may send less than requested".
AvailableReceived ==
  \A t \in Tasks : InSketch(t) => Available(ctx[t]) <= fresh[t]

\* A task that has ended what it began holds no bus.
GateFreed ==
  \A t \in Tasks : InSketch(t) /\ ~open[t] => \A b \in Buses : gate[b] # t

\* A transfer comes to an end, whatever the device refuses.
TransfersReturn ==
  \A t \in Tasks : pc[t] \in {"transfer", "mutex", "wait", "finish"} ~> InSketch(t)
=============================================================================
