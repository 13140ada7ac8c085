---------------------------- MODULE RadioProofs -----------------------------
(***************************************************************************)
(* What TLAPS proves of Radio, for any packets and bounds: its types and   *)
(* that no corrupt frame is passed on, whatever the host does; and, while  *)
(* the host does not restart the radio and the worker waits DIFS before it *)
(* sends, that transmissions are not cut short, that the antenna switch is *)
(* where it must be, and that the halves of a packet stay together.        *)
(***************************************************************************)
EXTENDS Radio, TLAPS

(* What one event of the chip raises, and what irq_worker may have left.   *)
Word == {{}, {"preamble"}, {"header"}, {"header_err"}, {"rx_done"}, {"rx_done", "crc"}, {"tx_done"}}

(* The interrupt thread sees the chip's events one by one.                 *)
OneEvent ==
    /\ edges \in {0, 1} /\ status \in Word
    /\ edges = 1 => pc["irq"] = "idle" /\ flags \in Word
    /\ pc["irq"] # "scan" => status = {}
    /\ \A t \in Thread : pc[t] = "load" => item[t] # None

(* Until the end of a corrupt frame has been handled, CRC_ERR is ahead of  *)
(* it or already taken note of.                                            *)
CrcSeen ==
    /\ edges = 1 /\ buffer = Corrupt /\ "rx_done" \in flags => "crc" \in flags
    /\ buffer = Corrupt /\ "rx_done" \in status => "crc" \in status \/ ~crc_ok
    /\ pc["irq"] = "read" => buffer # Corrupt

Sound == TypeOK /\ (Lag \/ (OneEvent /\ CrcSeen /\ NoCorruptDelivery))

(* TypeOK, in parts.                                                       *)
Content == Frame \cup {None, Heard, Corrupt}

ChipType ==
    /\ mode \in {"standby", "rx", "tx"} /\ tuned \in BOOLEAN /\ buffer \in Content
    /\ flags \in SUBSET Flag /\ edges \in Nat /\ (Lag \/ edges =< 1)
    /\ hears \in {"quiet", "preamble", "payload"}

StoreType ==
    /\ state \in {"idle", "rx", "tx"} /\ rx_en \in BOOLEAN /\ tx_en \in BOOLEAN
    /\ crc_ok \in BOOLEAN /\ status \in SUBSET Flag /\ tx_enable \in BOOLEAN
    /\ len_tx \in Long \cup {None} /\ promisc \in BOOLEAN

Label == {"idle", "load", "state", "params", "ant1", "ant_tx", "ant_rx", "cmd", "sent", "reset", "off",
          "config", "scan", "read", "done"}

ThreadType ==
    /\ pc \in [Thread -> Label] /\ goal \in [Thread -> {"rx", "tx"}]
    /\ item \in [Thread -> Frame \cup {None}]

RestType ==
    /\ air \in Content /\ given \in Content
    /\ budget \in [send: Nat, rx: Nat, hang: Nat, restart: Nat, promisc: Nat]

-----------------------------------------------------------------------------
(* The flags have an order, so one of those in the status comes first.     *)
LEMMA FirstIs ==
    ASSUME status \in SUBSET Flag, status # {}
    PROVE  First \in status /\ \A g \in status : Order[First] =< Order[g]
<1>1. \E f \in status : \A g \in status : Order[f] =< Order[g]
  <2>1. CASE "crc" \in status
    BY <2>1 DEF Order, Flag
  <2>2. CASE "crc" \notin status /\ "preamble" \in status
    BY <2>2 DEF Order, Flag
  <2>3. CASE status \cap {"crc", "preamble"} = {} /\ "header" \in status
    BY <2>3 DEF Order, Flag
  <2>4. CASE status \cap {"crc", "preamble", "header"} = {} /\ "header_err" \in status
    BY <2>4 DEF Order, Flag
  <2>5. CASE status \cap {"crc", "preamble", "header", "header_err"} = {}
    <3>1. CASE "rx_done" \in status
      BY <2>5, <3>1 DEF Order, Flag
    <3>2. CASE "rx_done" \notin status
      <4>1. status = {"tx_done"}
        BY <2>5, <3>2 DEF Flag
      <4> QED BY <4>1 DEF Order
    <3> QED BY <3>1, <3>2
  <2> QED BY <2>1, <2>2, <2>3, <2>4, <2>5
<1> QED BY <1>1 DEF First

(* Of what one event raises, CRC_ERR is handled first.                     *)
LEMMA FirstOfWord ==
    ASSUME status \in Word, status # {}
    PROVE  /\ First \in status
           /\ "crc" \in status => First = "crc"
           /\ status \ {First} \in Word
           /\ status \ {First} # {} => First = "crc" /\ status \ {First} = {"rx_done"}
<1>1. status \in SUBSET Flag
  BY DEF Word, Flag
<1>2. First \in status /\ \A g \in status : Order[First] =< Order[g]
  BY <1>1, FirstIs
<1>3. Order["crc"] = 1 /\ \A f \in Flag : f # "crc" => ~(Order[f] =< 1)
  BY DEF Order, Flag
<1>4. "crc" \in status => First = "crc"
  BY <1>1, <1>2, <1>3
<1>5. CASE "crc" \in status
  BY <1>5, <1>2, <1>4 DEF Word
<1>6. CASE "crc" \notin status
  BY <1>6, <1>2 DEF Word
<1> QED BY <1>5, <1>6

-----------------------------------------------------------------------------
(* TypeOK and its parts.                                                   *)
LEMMA Types == TypeOK <=> ChipType /\ StoreType /\ ThreadType /\ RestType
BY DEF TypeOK, ChipType, StoreType, ThreadType, RestType, Content, Label

(* The type invariant, taken apart.                                        *)
LEMMA TypesPrimed == TypeOK' <=> (ChipType /\ StoreType /\ ThreadType /\ RestType)'
BY DEF TypeOK, ChipType, StoreType, ThreadType, RestType, Content, Label

(* No frame is mistaken for another, nor for none.                         *)
LEMMA NoneIs == None \notin Frame /\ None # Corrupt /\ None # Heard /\ Corrupt \notin Frame /\ Corrupt # Heard
BY RadioAssumption DEF Frame, Kind, Corrupt, Heard

(* The initial states are sound.                                           *)
LEMMA InitSound == Init => Sound
<1> SUFFICES ASSUME Init PROVE Sound
  OBVIOUS
<1> USE DEF Init
<1>1. TypeOK
  <2> USE RadioAssumption DEF ChipType, StoreType, ThreadType, RestType, Content, Label, Flag
  <2>0. edges \in Nat /\ edges =< 1
    BY ONLY Init DEF Init
  <2>1. ChipType /\ StoreType
    BY <2>0, Zenon
  <2>2. ThreadType
    OBVIOUS
  <2>3. MaxSend \in Nat /\ MaxRx \in Nat /\ MaxHang \in Nat /\ MaxRestart \in Nat /\ MaxPromisc \in Nat
    OBVIOUS
  <2>4. RestType
    BY ONLY <2>3, Init DEF Init, RestType, Content
  <2> QED BY <2>1, <2>2, <2>4, Types
<1>2. OneEvent
  BY DEF OneEvent, Word
<1>3. CrcSeen /\ NoCorruptDelivery
  BY NoneIs DEF CrcSeen, NoCorruptDelivery
<1> QED BY <1>1, <1>2, <1>3 DEF Sound

(* A new flag is a flag, and the first edge or one more.                   *)
LEMMA RaiseTypes ==
    ASSUME ChipType, Lag \/ edges = 0, NEW f \in SUBSET Flag, Raise(f)
    PROVE  flags' \in SUBSET Flag /\ edges' \in Nat /\ (Lag \/ edges' =< 1)
BY DEF ChipType, Raise

(* An event of the chip: the interrupt thread is done with the last one.   *)
LEMMA ChipSound == ASSUME Sound, Chip PROVE Sound'
<1> USE NoneIs DEF driver, irq, rnode, threads, history, Spend, InTime, IrqWaits
<1>1. TypeOK'
  <2> USE DEF ChipType, StoreType, ThreadType, RestType, Content, Label, Flag
  <2>0. ChipType /\ StoreType /\ ThreadType /\ RestType /\ (Lag \/ OneEvent)
    BY Types DEF Sound
  <2>1. CASE HearPreamble
    BY <2>0, <2>1, RaiseTypes, TypesPrimed DEF HearPreamble
  <2>2. CASE HearHeader
    BY <2>0, <2>2, RaiseTypes, TypesPrimed DEF HearHeader
  <2>3. CASE HearEnd
    BY <2>0, <2>3, RaiseTypes, TypesPrimed DEF HearEnd
  <2>4. CASE TxDone
    <3>1. ChipType'
      BY <2>0, <2>4, RaiseTypes, ZenonT(60) DEF TxDone
    <3>2. StoreType'
      BY <2>0, <2>4 DEF TxDone
    <3>3. ThreadType'
      BY <2>0, <2>4 DEF TxDone
    <3>4. RestType'
      BY <2>0, <2>4 DEF TxDone
    <3> QED BY <3>1, <3>2, <3>3, <3>4, TypesPrimed
  <2> QED BY <2>1, <2>2, <2>3, <2>4 DEF Chip
<1>2. ASSUME ~Lag PROVE (OneEvent /\ CrcSeen /\ NoCorruptDelivery)'
  <2> USE <1>2 DEF Sound, OneEvent, CrcSeen, NoCorruptDelivery, Word, Raise
  <2>1. CASE HearPreamble
    BY <2>1 DEF HearPreamble
  <2>2. CASE HearHeader
    BY <2>2 DEF HearHeader
  <2>3. CASE HearEnd
    BY <2>3 DEF HearEnd
  <2>4. CASE TxDone
    BY <2>4 DEF TxDone
  <2> QED BY <2>1, <2>2, <2>3, <2>4 DEF Chip
<1> QED BY <1>1, <1>2 DEF Sound

(* The interrupt thread.                                                   *)
LEMMA IrqSound ==
    ASSUME Sound, ReadStatus \/ Handle \/ Deliver \/ TxDoneCallback \/ Handled
    PROVE  Sound'
<1> USE NoneIs DEF chip, driver, irq, rnode, threads, history, Goto, Thread
<1>1. TypeOK'
  <2> USE DEF ChipType, StoreType, ThreadType, RestType, Content, Label, Flag
  <2>0. ChipType /\ StoreType /\ ThreadType /\ RestType /\ (Lag \/ OneEvent)
    BY Types DEF Sound
  <2>1. CASE ReadStatus
    BY <2>0, <2>1, TypesPrimed DEF ReadStatus, OneEvent
  <2>2. CASE Handle
    BY <2>0, <2>2, TypesPrimed, ZenonT(120) DEF Handle, OneEvent
  <2>3. CASE Deliver
    BY <2>0, <2>3, TypesPrimed DEF Deliver, OneEvent
  <2>4. CASE TxDoneCallback
    BY <2>0, <2>4, RadioAssumption, TypesPrimed DEF TxDoneCallback, Frame, Kind, OneEvent
  <2>5. CASE Handled
    BY <2>0, <2>5, TypesPrimed DEF Handled, OneEvent
  <2> QED BY <2>1, <2>2, <2>3, <2>4, <2>5
<1>2. ASSUME ~Lag PROVE (OneEvent /\ CrcSeen /\ NoCorruptDelivery)'
  <2> USE <1>2 DEF Sound, OneEvent, CrcSeen, NoCorruptDelivery, TypeOK
  <2>1. CASE ReadStatus
    BY <2>1 DEF ReadStatus
  <2>2. CASE Handle
    BY <2>2, FirstOfWord DEF Handle
  <2>3. CASE Deliver
    BY <2>3 DEF Deliver
  <2>4. CASE TxDoneCallback
    BY <2>4, RadioAssumption DEF TxDoneCallback, Frame, Kind
  <2>5. CASE Handled
    BY <2>5 DEF Handled
  <2> QED BY <2>1, <2>2, <2>3, <2>4, <2>5
<1> QED BY <1>1, <1>2 DEF Sound

(* A step of end_packet, request or begin, on any thread.                  *)
LEMMA RoutineSound == ASSUME Sound, NEW t \in Thread, Routine(t) PROVE Sound'
<1> USE NoneIs DEF chip, driver, irq, rnode, threads, history, Goto, Return, Thread
<1>1. TypeOK'
  <2> USE DEF ChipType, StoreType, ThreadType, RestType, Content, Label, Flag
  <2>0. ChipType /\ StoreType /\ ThreadType /\ RestType /\ (Lag \/ OneEvent)
    BY Types DEF Sound
  <2>1. CASE SetState(t)
    BY <2>0, <2>1, TypesPrimed DEF SetState
  <2>2. CASE SetParams(t)
    BY <2>0, <2>2, TypesPrimed DEF SetParams
  <2>3. CASE SwitchOff(t)
    <3>1. (ChipType /\ ThreadType /\ RestType)'
      BY <2>0, <2>3 DEF SwitchOff
    <3>2. StoreType'
      BY <2>0, <2>3 DEF SwitchOff
    <3> QED BY <3>1, <3>2, TypesPrimed
  <2>4. CASE SwitchOn(t)
    <3>1. (ChipType /\ ThreadType /\ RestType)'
      BY <2>0, <2>4 DEF SwitchOn
    <3>2. StoreType'
      BY <2>0, <2>4 DEF SwitchOn
    <3> QED BY <3>1, <3>2, TypesPrimed
  <2>5. CASE SetTx(t)
    BY <2>0, <2>5, TypesPrimed DEF SetTx
  <2>6. CASE SetRx(t)
    BY <2>0, <2>6, TypesPrimed DEF SetRx
  <2>7. CASE Load(t)
    BY <2>0, <2>7, TypesPrimed DEF Load
  <2>8. CASE Reset(t)
    BY <2>0, <2>8, TypesPrimed DEF Reset
  <2>9. CASE SetIdle(t)
    BY <2>0, <2>9, TypesPrimed DEF SetIdle
  <2>10. CASE Configure(t)
    BY <2>0, <2>10, TypesPrimed DEF Configure
  <2> QED BY <2>1, <2>2, <2>3, <2>4, <2>5, <2>6, <2>7, <2>8, <2>9, <2>10 DEF Routine
<1>2. ASSUME ~Lag PROVE (OneEvent /\ CrcSeen /\ NoCorruptDelivery)'
  <2> USE <1>2 DEF Sound, OneEvent, CrcSeen, NoCorruptDelivery, TypeOK, Word
  <2>1. CASE SetState(t)
    BY <2>1 DEF SetState
  <2>2. CASE SetParams(t)
    BY <2>2 DEF SetParams
  <2>3. CASE SwitchOff(t)
    BY <2>3 DEF SwitchOff
  <2>4. CASE SwitchOn(t)
    BY <2>4 DEF SwitchOn
  <2>5. CASE SetTx(t)
    BY <2>5 DEF SetTx
  <2>6. CASE SetRx(t)
    BY <2>6 DEF SetRx
  <2>7. CASE Load(t)
    BY <2>7 DEF Load
  <2>8. CASE Reset(t)
    BY <2>8 DEF Reset
  <2>9. CASE SetIdle(t) \/ Configure(t)
    BY <2>9 DEF SetIdle, Configure
  <2> QED BY <2>1, <2>2, <2>3, <2>4, <2>5, <2>6, <2>7, <2>8, <2>9 DEF Routine
<1> QED BY <1>1, <1>2 DEF Sound

(* What the worker and the main thread do outside those, and the timeout.  *)
LEMMA RestSound ==
    ASSUME Sound,
           Sent \/ Watchdog \/ Reenable \/ Restart \/ SetPromisc \/ \E p \in Packet : ToAir(p)
    PROVE  Sound'
<1> USE NoneIs DEF chip, driver, irq, rnode, threads, history, Goto, Thread, Spend
<1>1. TypeOK'
  <2> USE DEF ChipType, StoreType, ThreadType, RestType, Content, Label, Flag
  <2>0. ChipType /\ StoreType /\ ThreadType /\ RestType /\ (Lag \/ OneEvent)
    BY Types DEF Sound
  <2>1. CASE Sent
    BY <2>0, <2>1, TypesPrimed DEF Sent
  <2>2. CASE Watchdog
    BY <2>0, <2>2, TypesPrimed DEF Watchdog
  <2>3. CASE Restart
    BY <2>0, <2>3, TypesPrimed DEF Restart
  <2>4. CASE Reenable \/ SetPromisc
    <3>1. (ChipType /\ ThreadType)'
      BY <2>0, <2>4, ZenonT(60) DEF Reenable, SetPromisc
    <3>2. StoreType'
      BY <2>0, <2>4, ZenonT(60) DEF Reenable, SetPromisc
    <3>3. RestType'
      BY <2>0, <2>4 DEF Reenable, SetPromisc
    <3> QED BY <3>1, <3>2, <3>3, TypesPrimed
  <2>5. ASSUME NEW p \in Packet, ToAir(p) PROVE TypeOK'
    BY <2>0, <2>5, TypesPrimed DEF ToAir, Frame, Kind
  <2> QED BY <2>1, <2>2, <2>3, <2>4, <2>5
<1>2. ASSUME ~Lag PROVE (OneEvent /\ CrcSeen /\ NoCorruptDelivery)'
  <2> USE <1>2 DEF Sound, OneEvent, CrcSeen, NoCorruptDelivery, TypeOK
  <2>1. CASE Sent
    BY <2>1 DEF Sent
  <2>2. CASE Watchdog \/ Restart
    BY <2>2 DEF Watchdog, Restart
  <2>3. CASE Reenable \/ SetPromisc
    BY <2>3 DEF Reenable, SetPromisc
  <2>4. ASSUME NEW p \in Packet, ToAir(p) PROVE (OneEvent /\ CrcSeen /\ NoCorruptDelivery)'
    BY <2>4 DEF ToAir, Frame, Kind
  <2> QED BY <2>1, <2>2, <2>3, <2>4
<1> QED BY <1>1, <1>2 DEF Sound

(* All of it is one inductive invariant.                                   *)
LEMMA StutterSound == ASSUME Sound, UNCHANGED vars PROVE Sound'
BY DEF Sound, TypeOK, OneEvent, CrcSeen, NoCorruptDelivery, vars, chip, driver, irq, rnode, threads,
       history

(* Every step keeps the types and what goes with them,                     *)
LEMMA StepSound == Sound /\ [Next]_vars => Sound'
BY ChipSound, IrqSound, RoutineSound, RestSound, StutterSound DEF Next, Irq, Worker, Thread

(* which therefore hold always.                                            *)
LEMMA AlwaysSound == Spec => []Sound
BY InitSound, StepSound, PTL DEF Spec

(* Every variable of the radio's three threads keeps its type, however     *)
(* they interleave, lag or restart one another; and unless they lag, the   *)
(* interrupt thread never has two edges of DIO1 to answer (irq_worker of   *)
(* sx126x.c).                                                              *)
THEOREM TypesHold == Spec => []TypeOK
<1>1. Sound => TypeOK
  BY DEF Sound
<1> QED BY <1>1, AlwaysSound, PTL

(* While the interrupt thread keeps up with the chip, no frame whose CRC   *)
(* failed reaches the host (irq_worker tests CRC_ERR before RX_DONE),      *)
(* though the host restarts the radio and the worker sends as they like.   *)
THEOREM NoCorruptHolds == ASSUME ~Lag PROVE Spec => []NoCorruptDelivery
<1>1. Sound => NoCorruptDelivery
  BY DEF Sound
<1> QED BY <1>1, AlwaysSound, PTL

-----------------------------------------------------------------------------
Commanding == {"params", "ant1", "ant_tx", "ant_rx", "cmd"}
Requesting == {"state"} \cup Commanding
Sending == {"load"} \cup Requesting
Resetting == {"reset", "off", "config"}

(* Each thread is in its own code, and the host does not restart the radio. *)
OwnLabel ==
    /\ pc["main"] = "idle" /\ budget.restart = 0
    /\ pc["worker"] \in {"idle", "sent"} \cup Sending \cup Resetting
    /\ pc["irq"] \in {"idle", "scan", "read", "done"} \cup Sending

(* The end of a frame is signalled or being answered.                      *)
Ended == \/ edges = 1 /\ "tx_done" \in flags
         \/ "tx_done" \in status
         \/ pc["irq"] \in {"done", "load", "state"}

(* While it is, nobody else touches the driver; nor while the interrupt    *)
(* thread commands the chip.                                               *)
AfterFrame ==
    /\ Ended => state = "tx"
    /\ Ended \/ pc["irq"] \in Commanding => pc["worker"] = "idle" /\ mode = "standby"

Starts == pc["worker"] = "load" \/ (pc["worker"] \in Requesting /\ goal["worker"] = "tx")
Restarts == pc["worker"] \in Resetting \/ (pc["worker"] \in Requesting /\ goal["worker"] = "rx")

(* The worker starts a frame while the chip listens.                       *)
WorkerStarts ==
    /\ Starts => mode = "rx"
    /\ Starts /\ pc["worker"] \in {"load", "state"} => state = "rx"
    /\ pc["worker"] = "sent" => state = "tx" /\ mode = "tx"

(* Its watchdog restarts a chip that is silent.                            *)
WorkerRestarts ==
    /\ Restarts => mode = "standby" /\ IrqWaits
    /\ Restarts /\ pc["worker"] \in {"config", "state"} => state = "idle"
    /\ pc["worker"] \in {"reset", "off"} => state = "tx"

(* The state published is what the thread that commands the chip is after. *)
StateIsGoal == \A t \in Thread : pc[t] \in Commanding => state = goal[t]

(* Between the worker's rounds the state tells what the chip does, but for *)
(* a request of the interrupt thread that has not arrived.                 *)
Between ==
    pc["worker"] = "idle" =>
        /\ state # "idle"
        /\ state = "rx" => mode = "rx" \/ pc["irq"] \in Commanding
        /\ state = "tx" => mode # "rx"

OnAir == mode = "tx" => state = "tx" /\ pc["worker"] \in {"idle", "sent"}

(* The switch has been thrown before the chip is commanded.                *)
Switched ==
    /\ \A t \in Thread : pc[t] = "ant_tx" => goal[t] = "tx" /\ ~rx_en
    /\ \A t \in Thread : pc[t] = "ant_rx" => goal[t] = "rx"
    /\ \A t \in Thread : pc[t] = "cmd" /\ goal[t] = "tx" => tx_en /\ ~rx_en
    /\ RfSwitch

Exclusive == /\ OwnLabel /\ AfterFrame /\ WorkerStarts /\ WorkerRestarts /\ StateIsGoal /\ Between /\ OnAir
             /\ Switched

(* What Sound says of the threads while they do not lag.                   *)
Basis ==
    /\ ThreadType /\ state \in {"idle", "rx", "tx"} /\ mode \in {"standby", "rx", "tx"}
    /\ edges \in {0, 1} /\ (edges = 1 => pc["irq"] = "idle")
    /\ pc["irq"] # "scan" => status = {}
    /\ status \in SUBSET Flag
    /\ budget \in [send: Nat, rx: Nat, hang: Nat, restart: Nat, promisc: Nat]

(* It says so.                                                             *)
LEMMA SoundBasis == ASSUME Sound, ~Lag PROVE Basis
BY Types DEF Sound, OneEvent, Basis, StoreType, ChipType, RestType

(* The initial states are exclusive.                                       *)
LEMMA InitExclusive == ASSUME MaxRestart = 0 PROVE Init => Exclusive
<1> USE DEF Init, Thread, Sending, Requesting, Commanding, Resetting
<1>1. Init => OwnLabel
  BY DEF OwnLabel
<1>2. Init => AfterFrame /\ WorkerStarts /\ WorkerRestarts
  BY DEF AfterFrame, Ended, WorkerStarts, WorkerRestarts, Starts, Restarts
<1>3. Init => StateIsGoal /\ Between /\ OnAir /\ Switched
  BY DEF StateIsGoal, Between, OnAir, Switched, RfSwitch
<1> QED BY <1>1, <1>2, <1>3 DEF Exclusive

(* An event of the chip; a frame ends when nobody is busy.                 *)
LEMMA ChipExclusive ==
    ASSUME Basis, Exclusive, ~Lag, Chip
    PROVE  Exclusive'
<1> USE DEF Basis, ThreadType, Label, Exclusive, OwnLabel, AfterFrame, Ended, WorkerStarts,
            WorkerRestarts, Starts, Restarts, StateIsGoal, Between, OnAir, Switched, RfSwitch,
            IrqWaits, Thread, Flag, Sending, Requesting, Commanding, Resetting
<1> USE DEF chip, driver, irq, rnode, threads, history, Raise, Spend, InTime
<1>1. CASE HearPreamble
  BY <1>1 DEF HearPreamble
<1>2. CASE HearHeader
  BY <1>2 DEF HearHeader
<1>3. CASE HearEnd
  BY <1>3 DEF HearEnd
<1>4. CASE TxDone
  BY <1>4 DEF TxDone
<1> QED BY <1>1, <1>2, <1>3, <1>4 DEF Chip

(* The interrupt thread.                                                   *)
LEMMA IrqExclusive ==
    ASSUME Basis, Exclusive, ReadStatus \/ Handle \/ Deliver \/ TxDoneCallback \/ Handled
    PROVE  Exclusive'
<1> USE DEF Basis, ThreadType, Label, Exclusive, OwnLabel, AfterFrame, Ended, WorkerStarts,
            WorkerRestarts, Starts, Restarts, StateIsGoal, Between, OnAir, Switched, RfSwitch,
            IrqWaits, Thread, Flag, Sending, Requesting, Commanding, Resetting
<1> USE DEF chip, driver, irq, rnode, threads, history, Goto
<1>1. CASE ReadStatus
  BY <1>1 DEF ReadStatus
<1>2. CASE Handle
  BY <1>2, FirstIs DEF Handle
<1>3. CASE Deliver
  BY <1>3 DEF Deliver
<1>4. CASE TxDoneCallback
  BY <1>4 DEF TxDoneCallback
<1>5. CASE Handled
  BY <1>5, SMTT(60) DEF Handled
<1> QED BY <1>1, <1>2, <1>3, <1>4, <1>5

(* A step of end_packet, request or begin, on any thread.                  *)
LEMMA RoutineExclusive ==
    ASSUME Basis, Exclusive, NEW t \in Thread, Routine(t)
    PROVE  Exclusive'
<1> USE DEF Basis, ThreadType, Label, Exclusive, OwnLabel, AfterFrame, Ended, WorkerStarts,
            WorkerRestarts, Starts, Restarts, StateIsGoal, Between, OnAir, Switched, RfSwitch,
            IrqWaits, Thread, Flag, Sending, Requesting, Commanding, Resetting
<1> USE DEF chip, driver, irq, rnode, threads, history, Goto, Return
<1>1. CASE SetState(t)
  BY <1>1 DEF SetState
<1>2. CASE SetParams(t)
  BY <1>2 DEF SetParams
<1>3. CASE SwitchOff(t)
  BY <1>3 DEF SwitchOff
<1>4. CASE SwitchOn(t)
  BY <1>4 DEF SwitchOn
<1>5. CASE SetTx(t)
  BY <1>5 DEF SetTx
<1>6. CASE SetRx(t)
  BY <1>6 DEF SetRx
<1>7. CASE Load(t)
  BY <1>7 DEF Load
<1>8. CASE Reset(t)
  BY <1>8 DEF Reset
<1>9. CASE SetIdle(t)
  BY <1>9 DEF SetIdle
<1>10. CASE Configure(t)
  <2> USE <1>10 DEF Configure
  <2>1. OwnLabel'
    OBVIOUS
  <2>2. AfterFrame'
    OBVIOUS
  <2>3. WorkerStarts' /\ WorkerRestarts'
    OBVIOUS
  <2>4. StateIsGoal' /\ Between' /\ OnAir'
    OBVIOUS
  <2>5. Switched'
    OBVIOUS
  <2> QED BY ONLY <2>1, <2>2, <2>3, <2>4, <2>5 DEF Exclusive
<1> QED BY <1>1, <1>2, <1>3, <1>4, <1>5, <1>6, <1>7, <1>8, <1>9, <1>10 DEF Routine

(* The worker and the main thread; a frame is begun when nobody is busy.   *)
LEMMA RestExclusive ==
    ASSUME Basis, Exclusive, ~Lag, ~Flush,
           Sent \/ Watchdog \/ Reenable \/ Restart \/ SetPromisc \/ \E p \in Packet : ToAir(p)
    PROVE  Exclusive'
<1> USE DEF Basis, ThreadType, Label, Exclusive, OwnLabel, AfterFrame, Ended, WorkerStarts,
            WorkerRestarts, Starts, Restarts, StateIsGoal, Between, OnAir, Switched, RfSwitch,
            IrqWaits, Thread, Flag, Sending, Requesting, Commanding, Resetting
<1> USE DEF chip, driver, irq, rnode, threads, history, Goto, Spend
<1>1. CASE Sent
  BY <1>1 DEF Sent
<1>2. CASE Watchdog
  BY <1>2 DEF Watchdog
<1>3. CASE Reenable
  BY <1>3 DEF Reenable
<1>4. CASE Restart
  BY <1>4 DEF Restart
<1>5. CASE SetPromisc
  BY <1>5 DEF SetPromisc
<1>6. ASSUME NEW p \in Packet, ToAir(p) PROVE Exclusive'
  BY <1>6 DEF ToAir, MaySend
<1> QED BY <1>1, <1>2, <1>3, <1>4, <1>5, <1>6

(* The second inductive invariant, with the first as its ground.           *)
LEMMA StutterExclusive == ASSUME Exclusive, UNCHANGED vars PROVE Exclusive'
BY DEF Exclusive, OwnLabel, AfterFrame, Ended, WorkerStarts, WorkerRestarts, Starts, Restarts,
       StateIsGoal, Between, OnAir, Switched, RfSwitch, IrqWaits, vars, chip, driver, irq, rnode,
       threads, history

(* Every step keeps the worker and the interrupt thread out of each        *)
(* other's way,                                                            *)
LEMMA StepExclusive ==
    ASSUME ~Lag, ~Flush
    PROVE  Sound /\ Exclusive /\ [Next]_vars => Exclusive'
BY SoundBasis, ChipExclusive, IrqExclusive, RoutineExclusive, RestExclusive, StutterExclusive
   DEF Next, Irq, Worker, Thread

(* where no restart and no flush comes between them.                       *)
LEMMA AlwaysExclusive ==
    ASSUME ~Lag, ~Flush, MaxRestart = 0
    PROVE  Spec => []Exclusive
BY AlwaysSound, InitExclusive, StepExclusive, PTL DEF Spec

(* switch_ant, called from two threads, has connected the antenna to the   *)
(* transmitter, and to it alone, whenever the chip transmits.              *)
THEOREM RfSwitchHolds ==
    ASSUME ~Lag, ~Flush, MaxRestart = 0
    PROVE  Spec => []RfSwitch
<1>1. Exclusive => RfSwitch
  BY DEF Exclusive, Switched
<1> QED BY <1>1, AlwaysExclusive, PTL

(* Only a request commands the chip to receive, and none is under way      *)
(* while it transmits.                                                     *)
LEMMA StepNotAborted ==
    ASSUME ~Lag
    PROVE  Sound /\ Exclusive /\ [Next]_vars => (mode = "tx" => mode' # "rx")
<1> SUFFICES ASSUME Basis, Exclusive, mode = "tx", Next \/ UNCHANGED vars PROVE mode' # "rx"
  BY SoundBasis
<1>1. \A t \in Thread : pc[t] # "cmd"
  BY DEF Exclusive, OwnLabel, AfterFrame, Ended, OnAir, Thread, Commanding
<1>2. CASE Chip
  BY <1>2 DEF Chip, HearPreamble, HearHeader, HearEnd, TxDone
<1>3. ASSUME NEW t \in Thread, Routine(t) PROVE mode' # "rx"
  BY <1>1, <1>3 DEF Routine, SetState, SetParams, SwitchOff, SwitchOn, SetTx, SetRx, Load, Reset,
                    SetIdle, Configure, chip
<1>4. CASE Reenable \/ Restart \/ SetPromisc \/ Sent \/ Watchdog \/ \E p \in Packet : ToAir(p)
  BY <1>4 DEF Reenable, Restart, SetPromisc, Sent, Watchdog, ToAir, chip
<1>5. CASE ReadStatus \/ Handle \/ Deliver \/ TxDoneCallback \/ Handled
  BY <1>5 DEF ReadStatus, Handle, Deliver, TxDoneCallback, Handled, chip
<1>6. CASE UNCHANGED vars
  BY <1>6 DEF vars, chip
<1> QED BY <1>2, <1>3, <1>4, <1>5, <1>6 DEF Next, Irq, Worker, Thread

(* The request to receive that the interrupt thread makes when a frame has *)
(* ended never cuts short the next one, which the worker may start as soon *)
(* as the state is no longer TX and DIFS has passed.                       *)
THEOREM TxNotAbortedHolds ==
    ASSUME ~Lag, ~Flush, MaxRestart = 0
    PROVE  Spec => TxNotAborted
BY AlwaysSound, AlwaysExclusive, StepNotAborted, PTL DEF Spec, TxNotAborted

-----------------------------------------------------------------------------
IsHead(f) == \E p \in Packet : f = <<"head", p>>

(* What the worker is sending, and what it left for the interrupt thread.  *)
Own ==
    Starts \/ pc["worker"] = "sent" =>
        /\ \/ \E p \in Packet : item["worker"] = <<"whole", p>>
           \/ len_tx # None /\ item["worker"] = <<"head", len_tx>>
        /\ pc["worker"] \in Requesting => buffer = item["worker"]
        /\ pc["worker"] = "sent" => air = item["worker"]

(* A head is on the air, or just ended, only until its tail is sent.       *)
HeadOver == state # "tx" \/ Starts \/ pc["worker"] \in {"off", "config"} => ~IsHead(air)

NoTail == len_tx = None /\ item["irq"] = None /\ ~IsHead(air)
          /\ pc["irq"] # "load" /\ (pc["irq"] \in Requesting => goal["irq"] = "rx")
TailWaits == len_tx # None /\ item["irq"] = None /\ air = <<"head", len_tx>> /\ pc["irq"] \notin Sending
TailStarts == /\ len_tx # None /\ item["irq"] = <<"tail", len_tx>> /\ air = <<"head", len_tx>>
              /\ pc["irq"] \in Sending
              /\ pc["irq"] \in Requesting => goal["irq"] = "tx" /\ buffer = item["irq"]
TailSent == /\ len_tx # None /\ item["irq"] = <<"tail", len_tx>> /\ ~IsHead(air)
            /\ pc["irq"] = "scan" /\ status = {} /\ mode = "tx"

(* The way of a tail, from the head that is sent to len_tx = 0.            *)
TailGoes ==
    /\ pc["worker"] = "idle" /\ state = "tx" => NoTail \/ TailWaits \/ TailStarts \/ TailSent
    /\ pc["worker"] # "idle" \/ state # "tx" => item["irq"] = None

Halves == promisc = FALSE /\ budget.promisc = 0 /\ Own /\ HeadOver /\ TailGoes

(* Frames of different kinds or packets are different frames.              *)
LEMMA FramesDiffer ==
    /\ \A p, q \in Packet : <<"whole", p>> # <<"head", q>> /\ <<"tail", p>> # <<"head", q>>
    /\ \A p, q \in Packet : <<"whole", p>> # <<"tail", q>>
    /\ \A p \in Packet : <<"whole", p>> # None /\ <<"head", p>> # None /\ <<"tail", p>> # None
    /\ \A p, q \in Packet : <<"head", p>> = <<"head", q>> \/ <<"tail", p>> = <<"tail", q>> => p = q
    /\ \A p \in Packet : ~IsHead(<<"tail", p>>) /\ ~IsHead(<<"whole", p>>)
    /\ ~IsHead(None) /\ None \notin Packet /\ Long \subseteq Packet
BY RadioAssumption DEF Frame, Kind, IsHead

(* At the start neither half of a packet is on its way.                    *)
LEMMA InitHalves == ASSUME MaxPromisc = 0 PROVE Init => Halves
BY FramesDiffer DEF Init, Halves, Own, HeadOver, TailGoes, Starts, Thread, Requesting, Commanding,
                    Sending

(* The chip fills its buffer only when nobody has written to it.           *)
LEMMA ChipHalves ==
    ASSUME Basis, Exclusive, Halves, len_tx \in Long \cup {None}, ~Lag, Chip
    PROVE  Halves'
<1> USE DEF Basis, ThreadType, Label, Exclusive, OwnLabel, AfterFrame, Ended, WorkerStarts,
            WorkerRestarts, Starts, Restarts, StateIsGoal, Between, OnAir, IrqWaits, Thread, Flag,
            Sending, Requesting, Commanding, Resetting, Halves, Own, HeadOver, NoTail, TailWaits,
            TailStarts, TailSent, TailGoes
<1> USE DEF chip, driver, irq, rnode, threads, history, Raise, Spend, InTime
<1>1. CASE HearPreamble
  BY <1>1, FramesDiffer DEF HearPreamble
<1>2. CASE HearHeader
  BY <1>2, FramesDiffer DEF HearHeader
<1>3. CASE HearEnd
  BY <1>3, FramesDiffer DEF HearEnd
<1>4. CASE TxDone
  BY <1>4, FramesDiffer DEF TxDone
<1> QED BY <1>1, <1>2, <1>3, <1>4 DEF Chip

(* The interrupt thread takes the tail, and forgets it when it is sent.    *)
LEMMA IrqHalves ==
    ASSUME Basis, Exclusive, Halves, len_tx \in Long \cup {None}, 
           ReadStatus \/ Handle \/ Deliver \/ TxDoneCallback \/ Handled
    PROVE  Halves'
<1> USE DEF Basis, ThreadType, Label, Exclusive, OwnLabel, AfterFrame, Ended, WorkerStarts,
            WorkerRestarts, Starts, Restarts, StateIsGoal, Between, OnAir, IrqWaits, Thread, Flag,
            Sending, Requesting, Commanding, Resetting, Halves, Own, HeadOver, NoTail, TailWaits,
            TailStarts, TailSent, TailGoes
<1> USE DEF chip, driver, irq, rnode, threads, history, Goto
<1>1. CASE ReadStatus
  BY <1>1, FramesDiffer DEF ReadStatus
<1>2. CASE Handle
  BY <1>2, FirstIs, FramesDiffer, ZenonT(60) DEF Handle
<1>3. CASE Deliver
  BY <1>3, FramesDiffer DEF Deliver
<1>4. CASE TxDoneCallback
  BY <1>4, FramesDiffer DEF TxDoneCallback
<1>5. CASE Handled
  <2> USE <1>5, FramesDiffer DEF Handled
  <2>1. (promisc = FALSE /\ budget.promisc = 0)'
    OBVIOUS
  <2>2. Own'
    OBVIOUS
  <2>3. HeadOver'
    OBVIOUS
  <2>4. TailGoes'
    <3>1. CASE pc["worker"] # "idle" \/ state # "tx"
      BY <3>1
    <3>2. CASE pc["worker"] = "idle" /\ state = "tx" /\ NoTail
      BY <3>2
    <3>3. CASE pc["worker"] = "idle" /\ state = "tx" /\ TailWaits
      BY <3>3
    <3>4. CASE pc["worker"] = "idle" /\ state = "tx" /\ TailStarts
      BY <3>4
    <3>5. CASE pc["worker"] = "idle" /\ state = "tx" /\ TailSent
      BY <3>5, SMTT(60)
    <3> QED BY <3>1, <3>2, <3>3, <3>4, <3>5
  <2> QED BY ONLY <2>1, <2>2, <2>3, <2>4 DEF Halves
<1> QED BY <1>1, <1>2, <1>3, <1>4, <1>5

(* A step of end_packet, request or begin.                                 *)
LEMMA RoutineHalves ==
    ASSUME Basis, Exclusive, Halves, len_tx \in Long \cup {None}, NEW t \in Thread, Routine(t)
    PROVE  Halves'
<1> USE DEF Basis, ThreadType, Label, Exclusive, OwnLabel, AfterFrame, Ended, WorkerStarts,
            WorkerRestarts, Starts, Restarts, StateIsGoal, Between, OnAir, IrqWaits, Thread, Flag,
            Sending, Requesting, Commanding, Resetting, Halves, Own, HeadOver, NoTail, TailWaits,
            TailStarts, TailSent, TailGoes
<1> USE DEF chip, driver, irq, rnode, threads, history, Goto, Return
<1>1. CASE SetState(t)
  BY <1>1, FramesDiffer DEF SetState
<1>2. CASE SetParams(t)
  BY <1>2, FramesDiffer DEF SetParams
<1>3. CASE SwitchOff(t)
  BY <1>3, FramesDiffer DEF SwitchOff
<1>4. CASE SwitchOn(t)
  BY <1>4, FramesDiffer DEF SwitchOn
<1>5. CASE SetTx(t)
  <2> USE <1>5, FramesDiffer DEF SetTx
  <2>1. (promisc = FALSE /\ budget.promisc = 0)'
    OBVIOUS
  <2>2. Own'
    OBVIOUS
  <2>3. HeadOver'
    OBVIOUS
  <2>4. TailGoes'
    <3>1. CASE pc["worker"] # "idle" \/ state # "tx"
      BY <3>1
    <3>2. CASE pc["worker"] = "idle" /\ state = "tx" /\ NoTail
      BY <3>2
    <3>3. CASE pc["worker"] = "idle" /\ state = "tx" /\ TailWaits
      BY <3>3
    <3>4. CASE pc["worker"] = "idle" /\ state = "tx" /\ TailStarts
      <4>1. t = "irq" /\ len_tx \in Packet /\ air' = <<"tail", len_tx>>
        BY <3>4
      <4>2. ~IsHead(air')
        <5>1. len_tx \in Packet /\ air' = <<"tail", len_tx>>
          BY <4>1
        <5> QED BY ONLY <5>1, FramesDiffer
      <4>3. TailSent'
        BY <3>4, <4>1, <4>2
      <4> QED BY <4>3
    <3>5. CASE pc["worker"] = "idle" /\ state = "tx" /\ TailSent
      BY <3>5
    <3> QED BY <3>1, <3>2, <3>3, <3>4, <3>5
  <2> QED BY ONLY <2>1, <2>2, <2>3, <2>4 DEF Halves
<1>6. CASE SetRx(t)
  BY <1>6, FramesDiffer DEF SetRx
<1>7. CASE Load(t)
  <2> USE <1>7, FramesDiffer DEF Load
  <2>1. (promisc = FALSE /\ budget.promisc = 0)'
    OBVIOUS
  <2>2. Own'
    OBVIOUS
  <2>3. HeadOver'
    OBVIOUS
  <2>4. TailGoes'
    <3>1. CASE pc["worker"] # "idle" \/ state # "tx"
      BY <3>1
    <3>2. CASE pc["worker"] = "idle" /\ state = "tx" /\ NoTail
      BY <3>2
    <3>3. CASE pc["worker"] = "idle" /\ state = "tx" /\ TailWaits
      BY <3>3
    <3>4. CASE pc["worker"] = "idle" /\ state = "tx" /\ TailStarts
      BY <3>4
    <3>5. CASE pc["worker"] = "idle" /\ state = "tx" /\ TailSent
      BY <3>5
    <3> QED BY <3>1, <3>2, <3>3, <3>4, <3>5
  <2> QED BY ONLY <2>1, <2>2, <2>3, <2>4 DEF Halves
<1>8. CASE Reset(t)
  BY <1>8, FramesDiffer DEF Reset
<1>9. CASE SetIdle(t)
  BY <1>9, FramesDiffer DEF SetIdle
<1>10. CASE Configure(t)
  <2> USE <1>10, FramesDiffer DEF Configure
  <2>1. (promisc = FALSE /\ budget.promisc = 0)'
    OBVIOUS
  <2>2. Own'
    OBVIOUS
  <2>3. HeadOver'
    OBVIOUS
  <2>4. TailGoes'
    OBVIOUS
  <2> QED BY ONLY <2>1, <2>2, <2>3, <2>4 DEF Halves
<1> QED BY <1>1, <1>2, <1>3, <1>4, <1>5, <1>6, <1>7, <1>8, <1>9, <1>10 DEF Routine

(* The worker and the main thread.                                         *)
LEMMA RestHalves ==
    ASSUME Basis, Exclusive, Halves, len_tx \in Long \cup {None}, ~Lag, ~Flush,
           Sent \/ Watchdog \/ Reenable \/ Restart \/ SetPromisc \/ \E p \in Packet : ToAir(p)
    PROVE  Halves'
<1> USE DEF Basis, ThreadType, Label, Exclusive, OwnLabel, AfterFrame, Ended, WorkerStarts,
            WorkerRestarts, Starts, Restarts, StateIsGoal, Between, OnAir, IrqWaits, Thread, Flag,
            Sending, Requesting, Commanding, Resetting, Halves, Own, HeadOver, NoTail, TailWaits,
            TailStarts, TailSent, TailGoes
<1> USE DEF chip, driver, irq, rnode, threads, history, Goto, Spend
<1>1. CASE Sent
  <2> USE <1>1, FramesDiffer DEF Sent
  <2>1. (promisc = FALSE /\ budget.promisc = 0)'
    OBVIOUS
  <2>2. Own'
    OBVIOUS
  <2>3. HeadOver'
    OBVIOUS
  <2>4. TailGoes'
    <3>1. CASE pc["worker"] # "idle" \/ state # "tx"
      <4>1. pc["irq"] \in {"idle", "scan", "read"} /\ item["irq"] = None /\ air = item["worker"]
        BY <3>1
      <4>2. ASSUME NEW p \in Packet, item["worker"] = <<"whole", p>> PROVE NoTail'
        <5>1. len_tx' = None
          BY <4>2
        <5>2. ~IsHead(air')
          <6>1. air' = <<"whole", p>>
            BY <4>1, <4>2
          <6> QED BY ONLY <6>1, FramesDiffer, p \in Packet
        <5> QED BY <4>1, <5>1, <5>2
      <4>3. CASE len_tx # None /\ item["worker"] = <<"head", len_tx>>
        BY <4>1, <4>3
      <4> QED BY <4>2, <4>3
    <3>2. CASE pc["worker"] = "idle" /\ state = "tx" /\ NoTail
      BY <3>2
    <3>3. CASE pc["worker"] = "idle" /\ state = "tx" /\ TailWaits
      BY <3>3
    <3>4. CASE pc["worker"] = "idle" /\ state = "tx" /\ TailStarts
      BY <3>4
    <3>5. CASE pc["worker"] = "idle" /\ state = "tx" /\ TailSent
      BY <3>5
    <3> QED BY <3>1, <3>2, <3>3, <3>4, <3>5
  <2> QED BY ONLY <2>1, <2>2, <2>3, <2>4 DEF Halves
<1>2. CASE Watchdog
  BY <1>2, FramesDiffer DEF Watchdog
<1>3. CASE Reenable
  BY <1>3, FramesDiffer DEF Reenable
<1>4. CASE Restart
  BY <1>4, FramesDiffer DEF Restart
<1>5. CASE SetPromisc
  BY <1>5, FramesDiffer DEF SetPromisc
<1>6. ASSUME NEW p \in Packet, ToAir(p) PROVE Halves'
  BY <1>6, FramesDiffer DEF ToAir, MaySend
<1> QED BY <1>1, <1>2, <1>3, <1>4, <1>5, <1>6

(* The third, on the ground of both.                                       *)
LEMMA StutterHalves == ASSUME Halves, UNCHANGED vars PROVE Halves'
BY DEF Halves, Own, HeadOver, TailGoes, NoTail, TailWaits, TailStarts, TailSent, Starts, vars, chip,
       driver, irq, rnode, threads, history

(* Every step keeps the two halves of a packet together,                   *)
LEMMA StepHalves ==
    ASSUME ~Lag, ~Flush
    PROVE  Sound /\ Exclusive /\ Halves /\ [Next]_vars => Halves'
<1>1. Sound => len_tx \in Long \cup {None}
  BY Types DEF Sound, StoreType
<1> QED BY <1>1, SoundBasis, ChipHalves, IrqHalves, RoutineHalves, RestHalves, StutterHalves
        DEF Next, Irq, Worker, Thread

(* from the start on.                                                      *)
LEMMA AlwaysHalves ==
    ASSUME ~Lag, ~Flush, MaxRestart = 0, MaxPromisc = 0
    PROVE  Spec => []Halves
BY AlwaysSound, AlwaysExclusive, InitHalves, StepHalves, PTL DEF Spec

(* The air changes when a frame is begun or the chip reset; a tail is      *)
(* begun by the interrupt thread, right after its head.                    *)
LEMMA StepTogether ==
    ASSUME Basis, Exclusive, Halves, len_tx \in Long \cup {None}, Next \/ UNCHANGED vars,
           NEW p \in Packet
    PROVE  /\ air' = <<"tail", p>> /\ air' # air => air = <<"head", p>>
           /\ air = <<"head", p>> /\ air' # air => air' \in {<<"tail", p>>, None}
<1> USE FramesDiffer
<1>1. ASSUME NEW t \in Thread, SetTx(t)
      PROVE  /\ air' = <<"tail", p>> /\ air' # air => air = <<"head", p>>
             /\ air = <<"head", p>> /\ air' # air => air' \in {<<"tail", p>>, None}
  <2> USE <1>1 DEF SetTx, Halves, Sending, Requesting, Commanding, Kind
  <2>1. CASE t = "worker"
    BY <2>1 DEF Own, HeadOver, Starts, IsHead
  <2>2. CASE t = "irq"
    BY <2>2 DEF TailGoes, NoTail, TailWaits, TailStarts, TailSent, IsHead, Exclusive, StateIsGoal,
                AfterFrame, Thread
  <2> QED BY <2>1, <2>2 DEF Thread, Exclusive, OwnLabel
<1>2. ASSUME NEW t \in Thread, Reset(t) PROVE air' = None
  BY <1>2 DEF Reset
<1>3. ASSUME NEW t \in Thread, Routine(t), ~SetTx(t), ~Reset(t) PROVE air' = air
  BY <1>3 DEF Routine, SetState, SetParams, SwitchOff, SwitchOn, SetRx, Load, SetIdle, Configure,
              history
<1>4. CASE Chip
  BY <1>4 DEF Chip, HearPreamble, HearHeader, HearEnd, TxDone, history
<1>5. CASE Reenable \/ Restart \/ SetPromisc \/ Sent \/ Watchdog \/ \E q \in Packet : ToAir(q)
  BY <1>5 DEF Reenable, Restart, SetPromisc, Sent, Watchdog, ToAir, history
<1>6. CASE ReadStatus \/ Handle \/ Deliver \/ TxDoneCallback \/ Handled
  BY <1>6 DEF ReadStatus, Handle, Deliver, TxDoneCallback, Handled, history
<1>7. CASE UNCHANGED vars
  BY <1>7 DEF vars, history
<1>8. ASSUME NEW t \in Thread, Routine(t)
      PROVE  /\ air' = <<"tail", p>> /\ air' # air => air = <<"head", p>>
             /\ air = <<"head", p>> /\ air' # air => air' \in {<<"tail", p>>, None}
  <2> HIDE FramesDiffer
  <2>1. <<"tail", p>> # None
    BY FramesDiffer DEF Kind
  <2> QED BY <2>1, <1>1, <1>2, <1>3, <1>8
<1> QED BY <1>4, <1>5, <1>6, <1>7, <1>8 DEF Next, Irq, Worker, Thread

(* The tail that rnode_tx_done sends follows its own head, and nothing is  *)
(* sent between a head and its tail, unless the radio is reset.            *)
THEOREM HalvesTogetherHolds ==
    ASSUME ~Lag, ~Flush, MaxRestart = 0, MaxPromisc = 0
    PROVE  Spec => HalvesTogether
<1>1. Sound /\ Exclusive /\ Halves /\ [Next]_vars =>
        \A p \in Packet :
           /\ air' = <<"tail", p>> /\ air' # air => air = <<"head", p>>
           /\ air = <<"head", p>> /\ air' # air => air' \in {<<"tail", p>>, None}
  BY StepTogether, SoundBasis, Types DEF Sound, StoreType
<1> QED BY <1>1, AlwaysSound, AlwaysExclusive, AlwaysHalves, PTL DEF Spec, HalvesTogether
=============================================================================
