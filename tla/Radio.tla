------------------------------- MODULE Radio --------------------------------
(***************************************************************************)
(* The radio as three threads share it: the worker sends (rnode_to_air of  *)
(* rnode.c), the interrupt thread answers the chip's DIO1 line (irq_worker *)
(* of sx126x.c, rnode_tx_done, rnode_rx_done), and the main thread         *)
(* restarts the chip and switches promiscuous mode for the host.  Each SPI *)
(* transaction is atomic (spi_mutex); nothing else is, so every one of     *)
(* them, and every store to the driver's state, is a step.                 *)
(*                                                                         *)
(* A packet that does not fit one frame is sent as a head, kept in len_tx  *)
(* and buf_tx what is left, and its tail is sent from the TX_DONE          *)
(* interrupt.                                                              *)
(***************************************************************************)
EXTENDS Naturals

CONSTANTS Packet,     \* what the host sends
          Long,       \* the packets that take two frames
          None,
          Flush,      \* the worker is in flush mode: it sends without DIFS + CW
          Lag,        \* the threads may fall behind the chip
          MaxSend,    \* bound: packets sent
          MaxRx,      \* bound: preambles heard
          MaxHang,    \* bound: transmissions the chip never ends
          MaxRestart, \* bound: restarts the host asks for
          MaxPromisc  \* bound: changes of promiscuous mode


VARIABLES
    mode,               \* the chip: "standby", "rx" or "tx"
    tuned,              \* the chip's frequency and modulation are set
    buffer,             \* its data buffer, shared by TX and RX (base addresses 0, 0)
    flags, edges,       \* its interrupt flags; rising edges of DIO1 not yet read
    hears,              \* what it is receiving: "quiet", "preamble" or "payload"
    state,              \* sx126x.c: SX126X_IDLE, _RX_CONTINUOUS, _TX
    rx_en, tx_en,       \* the antenna switch
    crc_ok, status,     \* irq_worker: its flag, and the status it still has to handle
    tx_enable,          \* queue.c: no carrier is signalled
    len_tx,             \* rnode.c: the packet whose tail is still to be sent
    promisc,
    pc, goal, item,     \* per thread: where it is, what it is starting, the frame it loads
    air,                \* history: the last frame sent since the last reset
    given,              \* history: the frame last given to the host
    budget              \* what is left of each bound

chip == <<mode, tuned, buffer, flags, edges, hears>>
driver == <<state, rx_en, tx_en>>
irq == <<crc_ok, status, tx_enable>>
rnode == <<len_tx, promisc>>
threads == <<pc, goal, item>>
history == <<air, given>>
vars == <<chip, driver, irq, rnode, threads, history, budget>>

Thread == {"main", "worker", "irq"}
Flag == {"crc", "preamble", "header", "header_err", "rx_done", "tx_done"}
Kind == {"whole", "head", "tail", "raw"}
Frame == Kind \X Packet
Heard == <<"heard", None>>      \* a frame of another node
Corrupt == <<"corrupt", None>>  \* and one whose CRC failed

ASSUME RadioAssumption ==
    /\ Long \subseteq Packet /\ None \notin Packet \cup Frame \cup {Heard, Corrupt}
    /\ {MaxSend, MaxRx, MaxHang, MaxRestart, MaxPromisc} \subseteq Nat

(* The host has started the radio and it listens.                          *)
Init ==
    /\ mode = "rx" /\ tuned = TRUE /\ buffer = None
    /\ flags = {} /\ edges = 0 /\ hears = "quiet"
    /\ state = "rx" /\ rx_en = TRUE /\ tx_en = FALSE
    /\ crc_ok = TRUE /\ status = {} /\ tx_enable = TRUE
    /\ len_tx = None /\ promisc = FALSE
    /\ pc = [t \in Thread |-> "idle"] /\ goal = [t \in Thread |-> "rx"]
    /\ item = [t \in Thread |-> None]
    /\ air = None /\ given = None
    /\ budget = [send |-> MaxSend, rx |-> MaxRx, hang |-> MaxHang,
                 restart |-> MaxRestart, promisc |-> MaxPromisc]

Goto(t, label) == pc' = [pc EXCEPT ![t] = label]
Spend(what) == budget[what] > 0 /\ budget' = [budget EXCEPT ![what] = @ - 1]

(***************************************************************************)
(* The chip.  A flag raises DIO1; only a rise from low is an edge.         *)
(***************************************************************************)
Raise(f) == /\ flags' = flags \cup f
            /\ edges' = IF flags = {} THEN edges + 1 ELSE edges

IrqWaits == pc["irq"] = "idle" /\ edges = 0

(* Unless the threads may lag, the milliseconds between two events of a    *)
(* reception, and those a frame lasts, are enough for the interrupt thread *)
(* to be done with the first and for the worker to have started a frame.   *)
InTime == Lag \/ (IrqWaits /\ pc["worker"] = "idle")

HearPreamble ==
    /\ mode = "rx" /\ tuned /\ hears = "quiet" /\ (Lag \/ IrqWaits)
    /\ Spend("rx")
    /\ Raise({"preamble"}) /\ hears' = "preamble"
    /\ UNCHANGED <<mode, tuned, buffer, driver, irq, rnode, threads, history>>

HearHeader ==
    /\ mode = "rx" /\ hears = "preamble" /\ InTime
    /\ \/ Raise({"header"}) /\ hears' = "payload"
       \/ Raise({"header_err"}) /\ hears' = "quiet"
    /\ UNCHANGED <<mode, tuned, buffer, driver, irq, rnode, threads, history, budget>>

HearEnd ==
    /\ mode = "rx" /\ hears = "payload" /\ InTime
    /\ \/ Raise({"rx_done"}) /\ buffer' = Heard
       \/ Raise({"rx_done", "crc"}) /\ buffer' = Corrupt
    /\ hears' = "quiet"
    /\ UNCHANGED <<mode, tuned, driver, irq, rnode, threads, history, budget>>

TxDone ==
    /\ mode = "tx" /\ InTime
    /\ \/ mode' = "standby" /\ Raise({"tx_done"}) /\ UNCHANGED budget
       \/ mode' = "standby" /\ Spend("hang") /\ UNCHANGED <<flags, edges>>
    /\ UNCHANGED <<tuned, buffer, hears, driver, irq, rnode, threads, history>>

(***************************************************************************)
(* sx126x_end_packet and sx126x_request, for the thread that runs them:    *)
(* the state is published first, the chip obeys last.                      *)
(***************************************************************************)
SetState(t) ==
    /\ pc[t] = "state"
    /\ state' = goal[t]
    /\ Goto(t, "params")
    /\ UNCHANGED <<chip, rx_en, tx_en, irq, rnode, goal, item, history, budget>>

(* set_packet_params_loRa, and set_irq_mask, which clears every flag.      *)
SetParams(t) ==
    /\ pc[t] = "params"
    /\ flags' = {}
    /\ Goto(t, "ant1")
    /\ UNCHANGED <<mode, tuned, buffer, edges, hears, driver, irq, rnode, goal, item, history, budget>>

(* MUTANT: the path that was on is left on.                                *)
SwitchOffForgets(t) ==
    /\ pc[t] = "ant1" /\ Goto(t, CASE state = "tx" -> "ant_tx" [] state = "rx" -> "ant_rx" [] OTHER -> "cmd")
    /\ UNCHANGED <<chip, driver, irq, rnode, goal, item, history, budget>>

(* switch_ant goes by the state as it is now, whoever stored it.           *)
SwitchOff(t) ==
    /\ pc[t] = "ant1"
    /\ \/ state = "tx" /\ rx_en' = FALSE /\ tx_en' = tx_en /\ Goto(t, "ant_tx")
       \/ state = "rx" /\ tx_en' = FALSE /\ rx_en' = rx_en /\ Goto(t, "ant_rx")
       \/ state = "idle" /\ rx_en' = FALSE /\ tx_en' = FALSE /\ Goto(t, "cmd")
    /\ UNCHANGED <<chip, state, irq, rnode, goal, item, history, budget>>

SwitchOn(t) ==
    /\ \/ pc[t] = "ant_tx" /\ tx_en' = TRUE /\ rx_en' = rx_en
       \/ pc[t] = "ant_rx" /\ rx_en' = TRUE /\ tx_en' = tx_en
    /\ Goto(t, "cmd")
    /\ UNCHANGED <<chip, state, irq, rnode, goal, item, history, budget>>

Return(t) == Goto(t, IF t = "irq" THEN "scan" ELSE IF t = "worker" /\ goal[t] = "tx" THEN "sent" ELSE "idle")

SetTx(t) ==
    /\ pc[t] = "cmd" /\ goal[t] = "tx"
    /\ mode' = "tx" /\ hears' = "quiet"
    /\ air' = buffer
    /\ Return(t)
    /\ UNCHANGED <<tuned, buffer, flags, edges, driver, irq, rnode, goal, item, given, budget>>

SetRx(t) ==
    /\ pc[t] = "cmd" /\ goal[t] = "rx"
    /\ mode' = "rx" /\ hears' = "quiet"
    /\ Return(t)
    /\ UNCHANGED <<tuned, buffer, flags, edges, driver, irq, rnode, goal, item, history, budget>>

(* tx_buf: sx126x_begin_packet and sx126x_write fill the chip's buffer.    *)
Load(t) ==
    /\ pc[t] = "load"
    /\ buffer' = item[t]
    /\ goal' = [goal EXCEPT ![t] = "tx"]
    /\ Goto(t, "state")
    /\ UNCHANGED <<mode, tuned, flags, edges, hears, driver, irq, rnode, item, history, budget>>

(***************************************************************************)
(* rnode_start: the chip is reset, the state set idle, the antenna off,    *)
(* the chip configured, and reception requested.  Should sx126x_begin      *)
(* fail, the radio stays idle.                                             *)
(***************************************************************************)
Reset(t) ==
    /\ pc[t] = "reset"
    /\ mode' = "standby" /\ tuned' = FALSE /\ buffer' = None /\ flags' = {} /\ hears' = "quiet"
    /\ air' = None
    /\ Goto(t, "off")
    /\ UNCHANGED <<edges, driver, irq, rnode, goal, item, given, budget>>

SetIdle(t) ==
    /\ pc[t] = "off"
    /\ state' = "idle" /\ rx_en' = FALSE /\ tx_en' = FALSE
    /\ Goto(t, "config")
    /\ UNCHANGED <<chip, irq, rnode, goal, item, history, budget>>

(* MUTANT: rnode_start returns without the request to receive.             *)
ConfigureOnly(t) ==
    /\ pc[t] = "config"
    /\ tuned' = TRUE /\ mode' = "standby" /\ hears' = "quiet" /\ flags' = {}
    /\ Goto(t, "idle")
    /\ UNCHANGED <<buffer, edges, driver, irq, rnode, goal, item, history, budget>>

Configure(t) ==
    /\ pc[t] = "config"
    /\ tuned' = TRUE /\ mode' = "standby" /\ hears' = "quiet" /\ flags' = {}
    /\ goal' = [goal EXCEPT ![t] = "rx"]
    /\ Goto(t, "state")
    /\ UNCHANGED <<buffer, edges, driver, irq, rnode, item, history, budget>>

(***************************************************************************)
(* The interrupt thread: irq_worker.                                       *)
(***************************************************************************)
ReadStatus ==
    /\ pc["irq"] = "idle" /\ edges > 0
    /\ edges' = edges - 1
    /\ status' = flags
    /\ Goto("irq", "scan")
    /\ UNCHANGED <<mode, tuned, buffer, flags, hears, driver, crc_ok, tx_enable, rnode, goal, item,
                   history, budget>>

(* MUTANT: RX_DONE is tested before CRC_ERR.                               *)
OrderCrcLate == [rx_done |-> 1, crc |-> 2, preamble |-> 3, header |-> 4, header_err |-> 5, tx_done |-> 6]

Order == [crc |-> 1, preamble |-> 2, header |-> 3, header_err |-> 4, rx_done |-> 5, tx_done |-> 6]

First == CHOOSE f \in status : \A g \in status : Order[f] =< Order[g]

(* MUTANT: HEADER_ERR is handled but not cleared.                          *)
HandleLeavesErr ==
    /\ pc["irq"] = "scan" /\ status # {}
    /\ status' = status \ {First}
    /\ flags' = IF First = "header_err" THEN flags ELSE flags \ {First}
    /\ crc_ok' = (First # "crc" /\ (First = "preamble" \/ crc_ok))
    /\ tx_enable' = (First \notin {"preamble", "header"} /\ (First # "crc" \/ tx_enable))
    /\ Goto("irq", IF First = "rx_done" /\ crc_ok THEN "read" ELSE IF First = "tx_done" THEN "done" ELSE "scan")
    /\ UNCHANGED <<mode, tuned, buffer, edges, hears, driver, rnode, goal, item, history, budget>>

(* The flags of one status word, in the order irq_worker tests them; each  *)
(* is cleared in the chip and handled.  RX_DONE is cleared only while the  *)
(* driver believes it is receiving.                                        *)
Handle ==
    /\ pc["irq"] = "scan" /\ status # {}
    /\ status' = status \ {First}
    /\ flags' = IF First = "rx_done" /\ state # "rx" THEN flags ELSE flags \ {First}
    /\ crc_ok' = IF First = "crc" THEN FALSE ELSE IF First = "preamble" THEN TRUE ELSE crc_ok
    /\ tx_enable' = IF First \in {"preamble", "header"} THEN FALSE
                    ELSE IF First = "crc" THEN tx_enable ELSE TRUE
    /\ \/ First = "rx_done" /\ crc_ok /\ Goto("irq", "read")
       \/ First = "tx_done" /\ Goto("irq", "done")
       \/ ~(First = "rx_done" /\ crc_ok) /\ First # "tx_done" /\ Goto("irq", "scan")
    /\ UNCHANGED <<mode, tuned, buffer, edges, hears, driver, rnode, goal, item, history, budget>>

(* rnode_rx_done: the chip's buffer is read and passed to the host.        *)
Deliver ==
    /\ pc["irq"] = "read"
    /\ given' = buffer
    /\ Goto("irq", "scan")
    /\ UNCHANGED <<chip, driver, irq, rnode, goal, item, air, budget>>

(* MUTANT: the end of any frame means back to receiving.                   *)
TxDoneForgetsTail ==
    /\ pc["irq"] = "done"
    /\ goal' = [goal EXCEPT !["irq"] = "rx"]
    /\ Goto("irq", "state")
    /\ UNCHANGED <<chip, driver, irq, rnode, item, history, budget>>

(* rnode_tx_done: the tail that was kept, or back to receiving.            *)
TxDoneCallback ==
    /\ pc["irq"] = "done"
    /\ \/ /\ len_tx # None
          /\ item' = [item EXCEPT !["irq"] = <<"tail", len_tx>>]
          /\ goal' = goal
          /\ Goto("irq", "load")
       \/ /\ len_tx = None
          /\ item' = item
          /\ goal' = [goal EXCEPT !["irq"] = "rx"]
          /\ Goto("irq", "state")
    /\ UNCHANGED <<chip, driver, irq, rnode, history, budget>>

(* After the tail: len_tx = 0; and the next edge is waited for.            *)
Handled ==
    /\ pc["irq"] = "scan" /\ status = {}
    /\ len_tx' = IF item["irq"] # None THEN None ELSE len_tx
    /\ item' = [item EXCEPT !["irq"] = None]
    /\ Goto("irq", "idle")
    /\ UNCHANGED <<chip, driver, irq, promisc, goal, history, budget>>

(***************************************************************************)
(* The worker: send_packet as far as the radio, and the watchdog.          *)
(***************************************************************************)
(* MUTANT: the worker does not look at the state of the radio.             *)
MaySendBlindly == pc["worker"] = "idle" /\ tx_enable

(* Outside flush mode the worker waits DIFS from the moment the state is   *)
(* no longer TX: long enough for the interrupt thread's request to end.    *)
MaySend ==
    /\ pc["worker"] = "idle" /\ state # "tx" /\ tx_enable
    /\ Flush \/ pc["irq"] \notin {"params", "ant1", "ant_tx", "ant_rx", "cmd"}

(* MUTANT: a packet that just fits is split.                               *)
ToAirSplitsAll(p) ==
    /\ MaySend /\ Spend("send")
    /\ item' = [item EXCEPT !["worker"] = <<"head", p>>] /\ len_tx' = p
    /\ Goto("worker", "load")
    /\ UNCHANGED <<chip, driver, irq, promisc, goal, history>>

(* rnode_to_air: raw in promiscuous mode, else whole, or split with the    *)
(* tail kept for later.                                                    *)
ToAir(p) ==
    /\ MaySend
    /\ Spend("send")
    /\ \/ promisc /\ item' = [item EXCEPT !["worker"] = <<"raw", p>>] /\ UNCHANGED len_tx
       \/ ~promisc /\ p \notin Long /\ item' = [item EXCEPT !["worker"] = <<"whole", p>>] /\ UNCHANGED len_tx
       \/ ~promisc /\ p \in Long /\ item' = [item EXCEPT !["worker"] = <<"head", p>>] /\ len_tx' = p
    /\ Goto("worker", "load")
    /\ UNCHANGED <<chip, driver, irq, promisc, goal, history>>

(* MUTANT: a tail that was never sent is not forgotten.                    *)
SentKeepsTail ==
    /\ pc["worker"] = "sent"
    /\ item' = [item EXCEPT !["worker"] = None]
    /\ Goto("worker", "idle")
    /\ UNCHANGED <<chip, driver, irq, rnode, goal, history, budget>>

Sent ==
    /\ pc["worker"] = "sent"
    /\ len_tx' = IF item["worker"][1] = "whole" THEN None ELSE len_tx
    /\ item' = [item EXCEPT !["worker"] = None]
    /\ Goto("worker", "idle")
    /\ UNCHANGED <<chip, driver, irq, promisc, goal, history, budget>>

(* MUTANT: the watchdog only reports.                                      *)
WatchdogOnlyReports ==
    /\ pc["worker"] = "idle" /\ state = "tx"
    /\ Lag \/ (mode # "tx" /\ IrqWaits)
    /\ UNCHANGED vars

(* Twice the airtime has passed: unless the interrupt thread lags, the     *)
(* chip is long done and its interrupt handled.                            *)
Watchdog ==
    /\ pc["worker"] = "idle" /\ state = "tx"
    /\ Lag \/ (mode # "tx" /\ IrqWaits)
    /\ Goto("worker", "reset")
    /\ UNCHANGED <<chip, driver, irq, rnode, goal, item, history, budget>>

(* The false preamble timeout, longer than any reception.                  *)
Reenable ==
    /\ ~tx_enable
    /\ Lag \/ hears = "quiet"
    /\ tx_enable' = TRUE
    /\ UNCHANGED <<chip, driver, crc_ok, status, rnode, threads, history, budget>>

(***************************************************************************)
(* The main thread, for the host.                                          *)
(***************************************************************************)
Restart ==
    /\ pc["main"] = "idle"
    /\ Spend("restart")
    /\ Goto("main", "reset")
    /\ UNCHANGED <<chip, driver, irq, rnode, goal, item, history>>

SetPromisc ==
    /\ pc["main"] = "idle"
    /\ Spend("promisc")
    /\ promisc' = ~promisc
    /\ UNCHANGED <<chip, driver, irq, len_tx, threads, history>>

-----------------------------------------------------------------------------
Chip == HearPreamble \/ HearHeader \/ HearEnd \/ TxDone

Routine(t) == \/ SetState(t) \/ SetParams(t) \/ SwitchOff(t) \/ SwitchOn(t) \/ SetTx(t) \/ SetRx(t)
              \/ Load(t) \/ Reset(t) \/ SetIdle(t) \/ Configure(t)

Irq == ReadStatus \/ Handle \/ Deliver \/ TxDoneCallback \/ Handled \/ Routine("irq")

Worker == Sent \/ Watchdog \/ Routine("worker")

Next ==
    \/ Chip \/ Irq \/ Worker \/ Reenable
    \/ \E p \in Packet : ToAir(p)
    \/ Restart \/ SetPromisc \/ Routine("main")

Spec == Init /\ [][Next]_vars

(* Every thread runs, and a transmission ends one way or another.          *)
FairSpec == Spec /\ WF_vars(Irq) /\ WF_vars(Worker) /\ WF_vars(Routine("main")) /\ WF_vars(TxDone)

-----------------------------------------------------------------------------
(* Every variable has its type and every thread is at a point of its code; *)
(* unless the threads lag, an edge of DIO1 is read before the next.        *)
TypeOK ==
    /\ mode \in {"standby", "rx", "tx"} /\ tuned \in BOOLEAN
    /\ buffer \in Frame \cup {None, Heard, Corrupt}
    /\ flags \in SUBSET Flag /\ edges \in Nat /\ (Lag \/ edges =< 1)
    /\ hears \in {"quiet", "preamble", "payload"}
    /\ state \in {"idle", "rx", "tx"} /\ rx_en \in BOOLEAN /\ tx_en \in BOOLEAN
    /\ crc_ok \in BOOLEAN /\ status \in SUBSET Flag /\ tx_enable \in BOOLEAN
    /\ len_tx \in Long \cup {None} /\ promisc \in BOOLEAN
    /\ pc \in [Thread -> {"idle", "load", "state", "params", "ant1", "ant_tx", "ant_rx", "cmd",
                          "sent", "reset", "off", "config", "scan", "read", "done"}]
    /\ goal \in [Thread -> {"rx", "tx"}] /\ item \in [Thread -> Frame \cup {None}]
    /\ air \in Frame \cup {None, Heard, Corrupt} /\ given \in Frame \cup {None, Heard, Corrupt}
    /\ budget \in [send: Nat, rx: Nat, hang: Nat, restart: Nat, promisc: Nat]

(* The two halves of a packet stay together, though another thread, woken  *)
(* by an interrupt, sends the tail: a tail is sent right after its own     *)
(* head, and nothing comes between but a reset of the radio.               *)
HalvesTogether ==
    [][\A p \in Packet :
           /\ air' = <<"tail", p>> /\ air' # air => air = <<"head", p>>
           /\ air = <<"head", p>> /\ air' # air => air' \in {<<"tail", p>>, None}]_vars

(* No request to receive reaches a chip that is transmitting: what the     *)
(* interrupt thread decided when a frame ended is not carried out on the   *)
(* next one.                                                               *)
TxNotAborted == [][mode = "tx" => mode' # "rx"]_vars

(* The chip never transmits into the receive path of the antenna switch,   *)
(* or into neither.                                                        *)
RfSwitch == mode = "tx" => tx_en /\ ~rx_en

(* A frame whose CRC failed is not passed to the host.                     *)
NoCorruptDelivery == given # Corrupt

(* What is passed to the host was received: the chip's buffer is read      *)
(* before anything else is written to it.                                  *)
DeliversWhatItHeard == given \in {None, Heard, Corrupt}

(* Promiscuous mode sends "raw data without header/split" (rnode.c): no    *)
(* split frame follows a raw one.                                          *)
RawIsRaw == [][\A p, q \in Packet : air = <<"raw", p>> => air' # <<"tail", q>>]_vars

(* Every transmission ends, as far as the driver knows: by its interrupt   *)
(* or by the watchdog.                                                     *)
TxEnds == state = "tx" ~> state # "tx"

(* Once the host and the air are silent the radio ends up listening.       *)
Listens == <>[](mode = "rx" /\ state = "rx" /\ tuned /\ rx_en /\ ~tx_en)

(* However a restart by the host falls among the steps of the other        *)
(* threads, the chip ends up configured and receiving, and the driver      *)
(* knows it.  (The antenna switch is left out: see the README.)            *)
Recovers == <>[](mode = "rx" /\ state = "rx" /\ tuned)

(* No interrupt flag stays up for ever: the node keeps hearing the air.    *)
InterruptsServed == flags # {} ~> flags = {}
=============================================================================
