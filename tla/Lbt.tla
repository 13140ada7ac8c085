-------------------------------- MODULE Lbt ---------------------------------
(***************************************************************************)
(* Listen before talk: when queue_worker (queue.c) may transmit.           *)
(*                                                                         *)
(* Two threads share tx_enable, tx_disabled, flushing and the carrier flag *)
(* dcd of csma.c without a lock: the worker, which wakes every millisecond *)
(* and runs the DIFS + contention window timers, and the interrupt thread, *)
(* which reports what the radio hears through queue_medium_state.  Every   *)
(* store to a shared variable is a step of its own.  A call into another   *)
(* source file stands between any two of them in the worker, so they take  *)
(* effect in program order.                                                *)
(*                                                                         *)
(* The queue is its length here (module TxQueue), the radio a flag that    *)
(* says whether it transmits (module Radio).  Time is absolute, as in the  *)
(* code, where 0 in a timer means that it is not running.                  *)
(***************************************************************************)
EXTENDS Naturals

CONSTANTS Difs,          \* difs_ms
          Cw,            \* the windows csma_get_cw may draw
          Flush,         \* csma_should_flush(): a very slow data rate
          HeaderTimeout, \* tx_header_timeout
          DataTimeout,   \* tx_data_timeout
          Airtime,       \* how long rnode_to_air says a packet takes
          MaxNow,        \* bound: the last instant of the clock
          MaxPush        \* bound: packets the host queues

ASSUME TimingAssumption ==
    /\ Difs \in Nat /\ Cw \subseteq Nat /\ Cw # {} /\ Flush \in BOOLEAN
    /\ HeaderTimeout \in Nat /\ DataTimeout \in Nat /\ Airtime \in Nat
    /\ MaxNow \in Nat \ {0} /\ MaxPush \in Nat

VARIABLES
    now,                 \* get_time()
    depth, pushed,       \* packets queued, and packets queued so far
    tx,                  \* sx126x_get_state() = SX126X_TX
    hears,               \* what the chip is receiving: "quiet", "preamble", "payload"
    tx_enable, tx_disabled, flushing, \* queue.c, shared by the two threads
    dcd, interference,   \* csma.c: the carrier flag and interference_detected
    cause, step, cnow,   \* queue_medium_state: its argument, the next store, its now
    worker_pc, wnow,     \* queue_worker: where it is and its now
    medium_free_since, cw_wait_start, cw_wait_passed, cw_target, cw_picked,
    tx_wait_timeout,
    last_tx              \* history: the worker's now at its last transmission

clock == <<now>>
queue == <<depth, pushed>>
radio == <<tx, hears>>
shared == <<tx_enable, tx_disabled, flushing, dcd>>
callback == <<cause, step, cnow>>
lbt == <<medium_free_since, cw_wait_start, cw_wait_passed, cw_target, cw_picked>>
vars == <<clock, queue, radio, shared, interference, callback, worker_pc, wnow,
          lbt, tx_wait_timeout, last_tx>>

Never == MaxNow + HeaderTimeout + DataTimeout + 1 \* UINT64_MAX: no clock reaches it

Causes == {"init", "tx_done", "rx_done", "header_err", "preamble", "header_valid"}

(* main has started both threads and is about to signal CAUSE_INIT.        *)
Init ==
    /\ now = 1
    /\ depth = 0 /\ pushed = 0
    /\ tx = FALSE /\ hears = "quiet"
    /\ tx_enable = FALSE /\ tx_disabled = Never /\ flushing = FALSE
    /\ dcd = FALSE /\ interference = FALSE
    /\ cause = "init" /\ step = 1 /\ cnow = 1
    /\ worker_pc = "wake" /\ wnow = 0
    /\ medium_free_since = 0 /\ cw_wait_start = 0 /\ cw_wait_passed = 0
    /\ cw_target = 0 /\ cw_picked = FALSE
    /\ tx_wait_timeout = 0
    /\ last_tx = 0

(***************************************************************************)
(* The world: time passes, the host queues packets, the chip hears others. *)
(***************************************************************************)
Tick ==
    /\ now < MaxNow
    /\ now' = now + 1
    /\ UNCHANGED <<queue, radio, shared, interference, callback, worker_pc, wnow,
                   lbt, tx_wait_timeout, last_tx>>

Push ==
    /\ pushed < MaxPush
    /\ pushed' = pushed + 1
    /\ depth' = depth + 1
    /\ UNCHANGED <<clock, radio, shared, interference, callback, worker_pc, wnow,
                   lbt, tx_wait_timeout, last_tx>>

(* The chip raises an interrupt and the interrupt thread enters            *)
(* queue_medium_state, which reads the time before it stores anything.     *)
Signal(c) ==
    /\ cause = "none"
    /\ \/ c = "preamble" /\ ~tx /\ hears = "quiet" /\ hears' = "preamble"
       \/ c = "header_valid" /\ ~tx /\ hears = "preamble" /\ hears' = "payload"
       \/ c = "header_err" /\ ~tx /\ hears = "preamble" /\ hears' = "quiet"
       \/ c = "rx_done" /\ ~tx /\ hears = "payload" /\ hears' = "quiet"
       \/ c = "tx_done" /\ tx /\ hears' = hears
    /\ cause' = c /\ step' = 1 /\ cnow' = now
    /\ UNCHANGED <<clock, queue, tx, shared, interference, worker_pc, wnow,
                   lbt, tx_wait_timeout, last_tx>>

(* A preamble or a packet that comes to nothing, with no interrupt at all. *)
Fade ==
    /\ hears # "quiet"
    /\ hears' = "quiet"
    /\ UNCHANGED <<clock, queue, tx, shared, interference, callback, worker_pc, wnow,
                   lbt, tx_wait_timeout, last_tx>>

(* The host restarts the radio (CMD_RESET, CMD_RADIO_STATE): rnode_start on *)
(* the main thread, in the middle of a transmission.                       *)
Restart ==
    /\ tx
    /\ tx' = FALSE
    /\ UNCHANGED <<clock, queue, hears, shared, interference, callback, worker_pc, wnow,
                   lbt, tx_wait_timeout, last_tx>>

(***************************************************************************)
(* The interrupt thread in queue_medium_state, one store at a time.        *)
(***************************************************************************)
Return == cause' = "none" /\ step' = 1 /\ cnow' = 0
Continue == cause' = cause /\ step' = step + 1 /\ cnow' = cnow

(* CAUSE_INIT, _TX_DONE, _RX_DONE and _HEADER_ERR: the medium is free.  Of *)
(* these, TX_DONE goes on to rnode_tx_done, which puts the radio back to   *)
(* receiving.                                                              *)
MediumFree ==
    /\ cause \in {"init", "tx_done", "rx_done", "header_err"}
    /\ \/ step = 1 /\ dcd' = FALSE /\ UNCHANGED <<tx, tx_enable>> /\ Continue
       \/ step = 2 /\ tx_enable' = TRUE /\ UNCHANGED <<tx, dcd>>
          /\ IF cause = "tx_done" THEN Continue ELSE Return
       \/ step = 3 /\ tx' = FALSE /\ UNCHANGED <<tx_enable, dcd>> /\ Return
    /\ UNCHANGED <<clock, queue, hears, tx_disabled, flushing, interference, worker_pc, wnow,
                   lbt, tx_wait_timeout, last_tx>>

(* A slip to check against: tx_enable is stored before the carrier flag.   *)
MediumBusySwapped ==
    /\ cause \in {"preamble", "header_valid"}
    /\ \/ step = 1 /\ tx_enable' = FALSE /\ UNCHANGED <<dcd, flushing, tx_disabled>> /\ Continue
       \/ step = 2 /\ dcd' = TRUE /\ UNCHANGED <<tx_enable, flushing, tx_disabled>> /\ Continue
       \/ step = 3 /\ UNCHANGED <<dcd, tx_enable, tx_disabled>> /\ Continue
          /\ flushing' = IF cause = "preamble" THEN FALSE ELSE flushing
       \/ step = 4 /\ UNCHANGED <<dcd, tx_enable, flushing>> /\ Return
          /\ tx_disabled' = cnow + (IF cause = "preamble" THEN HeaderTimeout ELSE DataTimeout)
    /\ UNCHANGED <<clock, queue, radio, interference, worker_pc, wnow, lbt, tx_wait_timeout, last_tx>>

(* CAUSE_PREAMBLE_DETECTED and _HEADER_VALID: busy until a deadline.       *)
MediumBusy ==
    /\ cause \in {"preamble", "header_valid"}
    /\ \/ step = 1 /\ dcd' = TRUE /\ UNCHANGED <<tx_enable, flushing, tx_disabled>> /\ Continue
       \/ step = 2 /\ tx_enable' = FALSE /\ UNCHANGED <<dcd, flushing, tx_disabled>> /\ Continue
       \/ step = 3 /\ UNCHANGED <<dcd, tx_enable, tx_disabled>> /\ Continue
          /\ flushing' = IF cause = "preamble" THEN FALSE ELSE flushing
       \/ step = 4 /\ UNCHANGED <<dcd, tx_enable, flushing>> /\ Return
          /\ tx_disabled' = cnow + (IF cause = "preamble" THEN HeaderTimeout ELSE DataTimeout)
    /\ UNCHANGED <<clock, queue, radio, interference, worker_pc, wnow, lbt, tx_wait_timeout, last_tx>>

(***************************************************************************)
(* queue_worker, one round per millisecond.                                *)
(***************************************************************************)
(* A slip to check against: the queue is not looked at.                    *)
WakeNoQueue ==
    /\ worker_pc = "wake"
    /\ wnow' = now
    /\ worker_pc' = IF tx THEN "watchdog" ELSE IF tx_enable THEN "contend" ELSE "disabled"
    /\ UNCHANGED <<clock, queue, radio, shared, interference, callback, lbt, tx_wait_timeout, last_tx>>

(* The top of the loop: the time and the outer conditions.                 *)
Wake ==
    /\ worker_pc = "wake"
    /\ wnow' = now
    /\ worker_pc' = IF tx THEN "watchdog"
                    ELSE IF tx_enable /\ depth > 0 THEN "contend" ELSE "disabled"
    /\ UNCHANGED <<clock, queue, radio, shared, interference, callback, lbt, tx_wait_timeout, last_tx>>

(* A transmission that does not end in twice its time: rnode_start.        *)
Watchdog ==
    /\ worker_pc = "watchdog"
    /\ \/ wnow > tx_wait_timeout /\ tx' = FALSE
       \/ wnow =< tx_wait_timeout /\ tx' = tx
    /\ worker_pc' = "wake"
    /\ UNCHANGED <<clock, queue, hears, shared, interference, callback, wnow, lbt,
                   tx_wait_timeout, last_tx>>

FlushNext ==
    /\ worker_pc = "contend"
    /\ flushing
    /\ worker_pc' = "flush"
    /\ UNCHANGED <<clock, queue, radio, shared, interference, callback, wnow, lbt,
                   tx_wait_timeout, last_tx>>

MediumIsFree == ~interference /\ ~dcd \* csma_medium_free

(* Normal mode: one pass through the DIFS and contention window timers.    *)
PickCw == /\ cw_picked' = TRUE
          /\ IF cw_picked THEN cw_target' = cw_target ELSE cw_target' \in Cw

DifsPassed == medium_free_since # 0 /\ wnow - medium_free_since >= Difs

CwPassed == cw_wait_passed + (IF cw_wait_start = 0 THEN 0 ELSE wnow - cw_wait_start)

(* Slips to check against: DIFS is not started afresh after a win; or a    *)
(* busy medium throws the waited window away.                              *)
ContendKeepsDifs ==
    /\ worker_pc = "contend"
    /\ ~flushing
    /\ medium_free_since' = IF ~MediumIsFree THEN 0
                            ELSE IF medium_free_since = 0 THEN wnow ELSE medium_free_since
    /\ cw_target' \in Cw
    /\ worker_pc' = IF MediumIsFree /\ DifsPassed THEN "arm" ELSE "rssi"
    /\ UNCHANGED <<clock, queue, radio, shared, interference, callback, wnow, tx_wait_timeout,
                   last_tx, cw_picked, cw_wait_start, cw_wait_passed>>

ContendForgets ==
    /\ worker_pc = "contend"
    /\ ~flushing
    /\ PickCw
    /\ medium_free_since' = IF MediumIsFree THEN wnow ELSE 0
    /\ cw_wait_start' = IF MediumIsFree THEN wnow ELSE 0
    /\ cw_wait_passed' = IF MediumIsFree THEN CwPassed ELSE 0
    /\ worker_pc' = "rssi"
    /\ UNCHANGED <<clock, queue, radio, shared, interference, callback, wnow, tx_wait_timeout, last_tx>>

Contend ==
    /\ worker_pc = "contend"
    /\ ~flushing
    /\ \/ /\ ~MediumIsFree
          /\ PickCw
          /\ medium_free_since' = 0 /\ cw_wait_start' = 0
          /\ UNCHANGED cw_wait_passed
          /\ worker_pc' = "rssi"
       \/ /\ MediumIsFree /\ ~DifsPassed
          /\ PickCw
          /\ medium_free_since' = IF medium_free_since = 0 THEN wnow ELSE medium_free_since
          /\ UNCHANGED <<cw_wait_start, cw_wait_passed>>
          /\ worker_pc' = "rssi"
       \/ /\ MediumIsFree /\ DifsPassed
          /\ \E target \in Cw :
                /\ cw_picked => target = cw_target
                /\ \/ /\ CwPassed < target
                      /\ cw_wait_start' = wnow /\ cw_wait_passed' = CwPassed
                      /\ cw_target' = target /\ cw_picked' = TRUE
                      /\ UNCHANGED medium_free_since
                      /\ worker_pc' = "rssi"
                   \/ /\ CwPassed >= target
                      /\ medium_free_since' = 0 /\ cw_wait_start' = 0 /\ cw_wait_passed' = 0
                      /\ cw_target' = target /\ cw_picked' = FALSE
                      /\ worker_pc' = "arm"
    /\ UNCHANGED <<clock, queue, radio, shared, interference, callback, wnow, tx_wait_timeout,
                   last_tx>>

Arm ==
    /\ worker_pc = "arm"
    /\ flushing' = (Flush \/ flushing)
    /\ worker_pc' = "send"
    /\ UNCHANGED <<clock, queue, radio, tx_enable, tx_disabled, dcd, interference, callback, wnow,
                   lbt, tx_wait_timeout, last_tx>>

(* send_packet: the airtime lock holds the packet back, or it is sent.     *)
HoldBack ==
    /\ worker_pc \in {"send", "flush"}
    /\ flushing' = (flushing /\ worker_pc = "send")
    /\ worker_pc' = "rssi"
    /\ UNCHANGED <<clock, queue, radio, tx_enable, tx_disabled, dcd, interference, callback, wnow,
                   lbt, tx_wait_timeout, last_tx>>

Transmit ==
    /\ depth' = depth - 1
    /\ tx' = TRUE /\ hears' = "quiet"
    /\ tx_wait_timeout' = now + 2 * Airtime
    /\ last_tx' = wnow
    /\ UNCHANGED <<clock, pushed, shared, interference, callback, wnow, lbt>>

Send == worker_pc = "send" /\ Transmit /\ worker_pc' = "rssi"

SendFlush == worker_pc = "flush" /\ Transmit /\ worker_pc' = "more"

(* The rest of flush mode: done once the queue is empty.                   *)
FlushEnds ==
    /\ worker_pc = "more"
    /\ flushing' = (flushing /\ depth # 0)
    /\ worker_pc' = "rssi"
    /\ UNCHANGED <<clock, queue, radio, tx_enable, tx_disabled, dcd, interference, callback, wnow,
                   lbt, tx_wait_timeout, last_tx>>

(* A slip to check against: the deadline counts only while the carrier     *)
(* flag is up.                                                             *)
DisabledNeedsCarrier ==
    /\ worker_pc = "disabled"
    /\ worker_pc' = IF ~tx_enable /\ dcd /\ wnow >= tx_disabled THEN "enable" ELSE "rssi"
    /\ UNCHANGED <<clock, queue, radio, shared, interference, callback, wnow, lbt,
                   tx_wait_timeout, last_tx>>

(* Transmission disabled: has the deadline for a false preamble passed?    *)
Disabled ==
    /\ worker_pc = "disabled"
    /\ worker_pc' = IF ~tx_enable /\ wnow >= tx_disabled THEN "enable" ELSE "rssi"
    /\ UNCHANGED <<clock, queue, radio, shared, interference, callback, wnow, lbt,
                   tx_wait_timeout, last_tx>>

Reenable ==
    /\ worker_pc = "enable"
    /\ tx_enable' = TRUE
    /\ worker_pc' = "uncarrier"
    /\ UNCHANGED <<clock, queue, radio, tx_disabled, flushing, dcd, interference, callback, wnow,
                   lbt, tx_wait_timeout, last_tx>>

ClearDcd ==
    /\ worker_pc = "uncarrier"
    /\ dcd' = FALSE
    /\ worker_pc' = "rssi"
    /\ UNCHANGED <<clock, queue, radio, tx_enable, tx_disabled, flushing, interference, callback,
                   wnow, lbt, tx_wait_timeout, last_tx>>

(* csma_update_current_rssi, when 25 ms have passed since the last time:   *)
(* while the radio receives, interference_detected is recomputed, and is   *)
(* never set together with a carrier.                                      *)
Rssi ==
    /\ worker_pc = "rssi"
    /\ \/ interference' = interference
       \/ ~tx /\ ~dcd /\ interference' = TRUE
       \/ ~tx /\ interference' = FALSE
    /\ worker_pc' = "wake"
    /\ UNCHANGED <<clock, queue, radio, shared, callback, wnow, lbt, tx_wait_timeout, last_tx>>

-----------------------------------------------------------------------------
Worker == \/ Wake \/ Watchdog \/ FlushNext \/ Contend \/ Arm \/ HoldBack \/ Send \/ SendFlush
          \/ FlushEnds \/ Disabled \/ Reenable \/ ClearDcd \/ Rssi

Irq == MediumFree \/ MediumBusy

Next == Tick \/ Push \/ (\E c \in Causes : Signal(c)) \/ Fade \/ Restart \/ Irq \/ Worker

Spec == Init /\ [][Next]_vars

(* Both threads run and time passes; nothing is assumed of the medium.     *)
FairSpec == Spec /\ WF_vars(Tick) /\ WF_vars(Irq) /\ WF_vars(Worker)

-----------------------------------------------------------------------------
(* Every variable has the type of its C declaration, and each thread is at *)
(* a point of its code.                                                    *)
TypeOK ==
    /\ now \in 1 .. MaxNow /\ wnow \in 0 .. MaxNow /\ cnow \in 0 .. MaxNow
    /\ pushed \in 0 .. MaxPush /\ depth \in 0 .. MaxPush
    /\ tx \in BOOLEAN /\ hears \in {"quiet", "preamble", "payload"}
    /\ tx_enable \in BOOLEAN /\ flushing \in BOOLEAN /\ dcd \in BOOLEAN /\ interference \in BOOLEAN
    /\ tx_disabled \in 0 .. Never
    /\ cause \in Causes \cup {"none"} /\ step \in 1 .. 4
    /\ worker_pc \in {"wake", "watchdog", "contend", "flush", "arm", "send", "more",
                      "disabled", "enable", "uncarrier", "rssi"}
    /\ medium_free_since \in 0 .. MaxNow /\ cw_wait_start \in 0 .. MaxNow
    /\ cw_wait_passed \in 0 .. MaxNow /\ cw_target \in Cw \cup {0} /\ cw_picked \in BOOLEAN
    /\ tx_wait_timeout \in Nat
    /\ last_tx \in 0 .. MaxNow

(* Whatever the two threads' unlocked stores interleave to, the node is    *)
(* never left with transmission enabled and a carrier flag nobody will     *)
(* clear: it would neither transmit nor run the false preamble timeout.    *)
NeverWedged ==
    cause = "none" /\ worker_pc # "uncarrier" => ~(dcd /\ tx_enable)

(* A transmission outside flush mode comes at least DIFS and the window    *)
(* drawn for it after the one before, whatever happened to the timers in   *)
(* between: the node never monopolises the channel.                        *)
BacksOff == [][worker_pc = "contend" /\ worker_pc' = "arm" => wnow >= last_tx + Difs + cw_target']_vars

(* "CW progress is preserved": only winning the contention puts the window *)
(* and the time already waited back to nothing.                            *)
CwKept == cw_wait_passed' >= cw_wait_passed /\ (cw_picked => cw_picked' /\ cw_target' = cw_target)
CwProgressKept == [][worker_pc' = "arm" \/ CwKept]_vars

(* A preamble or header that comes to nothing disables transmission only   *)
(* until its deadline, even when a transmission had already slipped in: it *)
(* comes back, or the deadline of either lies beyond the clock's bound.    *)
TxReenabled ==
    ~tx_enable ~> (tx_enable \/ tx_disabled > MaxNow \/ (tx /\ tx_wait_timeout >= MaxNow))
=============================================================================
