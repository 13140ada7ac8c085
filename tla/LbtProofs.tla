----------------------------- MODULE LbtProofs ------------------------------
(***************************************************************************)
(* What TLAPS proves of Lbt, for every timing and every bound: the two     *)
(* threads' unlocked stores never wedge the transmitter, and the DIFS and  *)
(* contention window timers keep transmissions apart.                      *)
(***************************************************************************)
EXTENDS Lbt, TLAPS

(* Who may have dcd and tx_enable up together: the interrupt thread        *)
(* between its stores of a busy medium, and the worker between its own.    *)
Wedge ==
    /\ cause \in Causes \cup {"none"}
    /\ cause \in {"init", "tx_done", "rx_done", "header_err"} /\ step # 1 => ~dcd
    /\ dcd /\ tx_enable =>
          \/ cause \in {"preamble", "header_valid"} /\ step = 2
          \/ worker_pc = "uncarrier"

LEMMA WedgeInit == Init => Wedge
BY DEF Init, Wedge, Causes

LEMMA WedgeNext == Wedge /\ [Next]_vars => Wedge'
<1> SUFFICES ASSUME Wedge, [Next]_vars PROVE Wedge'
  OBVIOUS
<1> USE DEF Wedge, Causes, clock, queue, radio, shared, callback, lbt
<1>1. CASE Tick \/ Push \/ Fade \/ Restart
  BY <1>1 DEF Tick, Push, Fade, Restart
<1>2. ASSUME NEW c \in Causes, Signal(c) PROVE Wedge'
  BY <1>2 DEF Signal
<1>3. CASE MediumFree
  BY <1>3 DEF MediumFree, Return, Continue
<1>4. CASE MediumBusy
  <2>0. cause \in {"preamble", "header_valid"} /\ worker_pc' = worker_pc
    BY <1>4 DEF MediumBusy
  <2>1. CASE step = 1
    BY <1>4, <2>0, <2>1 DEF MediumBusy, Continue
  <2>2. CASE step = 2
    BY <1>4, <2>0, <2>2 DEF MediumBusy, Continue
  <2>3. CASE step = 3
    BY <1>4, <2>0, <2>3 DEF MediumBusy, Continue
  <2>4. CASE step = 4
    BY <1>4, <2>0, <2>4 DEF MediumBusy, Return
  <2> QED BY <1>4, <2>1, <2>2, <2>3, <2>4 DEF MediumBusy
<1>5. CASE Wake \/ Watchdog \/ FlushNext \/ Arm \/ HoldBack \/ FlushEnds \/ Disabled \/ Rssi
  BY <1>5 DEF Wake, Watchdog, FlushNext, Arm, HoldBack, FlushEnds, Disabled, Rssi
<1>6. CASE Contend
  BY <1>6 DEF Contend
<1>7. CASE Send \/ SendFlush
  BY <1>7 DEF Send, SendFlush, Transmit
<1>8. CASE Reenable \/ ClearDcd
  BY <1>8 DEF Reenable, ClearDcd
<1>9. CASE UNCHANGED vars
  BY <1>9 DEF vars
<1> QED BY <1>1, <1>2, <1>3, <1>4, <1>5, <1>6, <1>7, <1>8, <1>9 DEF Next, Irq, Worker

(* However queue_medium_state and the false preamble timeout of            *)
(* queue_worker interleave, the node is never left with transmission       *)
(* enabled under a carrier flag that nobody is about to clear.             *)
THEOREM NeverWedgedHolds == Spec => []NeverWedged
<1>1. Wedge => NeverWedged
  BY DEF Wedge, NeverWedged
<1> QED BY <1>1, WedgeInit, WedgeNext, PTL DEF Spec

-----------------------------------------------------------------------------
Timers ==
    /\ now \in Nat /\ wnow \in Nat /\ last_tx \in Nat
    /\ medium_free_since \in Nat /\ cw_wait_start \in Nat /\ cw_wait_passed \in Nat
    /\ cw_target \in Nat

(* The timers measure time since the last transmission: DIFS from when it  *)
(* was started, the window from after a DIFS; and while the worker is past *)
(* the contention, or in flush mode, none of them runs.                    *)
Measured ==
    /\ last_tx =< wnow /\ wnow =< now
    /\ medium_free_since # 0 => last_tx =< medium_free_since /\ medium_free_since =< wnow
    /\ cw_wait_passed # 0 => last_tx + Difs + cw_wait_passed =< wnow
    /\ cw_wait_start # 0 => /\ last_tx + Difs + cw_wait_passed =< cw_wait_start
                            /\ cw_wait_start =< wnow
    /\ flushing \/ worker_pc \in {"flush", "arm", "send", "more"} =>
          medium_free_since = 0 /\ cw_wait_start = 0 /\ cw_wait_passed = 0

LEMMA TimersInit == Init => Timers /\ Measured
BY DEF Init, Timers, Measured

LEMMA ContendTimers == ASSUME Timers, Measured, Contend PROVE Timers' /\ Measured'
<1> USE TimingAssumption DEF Timers
<1>1. /\ now' = now /\ wnow' = wnow /\ last_tx' = last_tx /\ flushing' = flushing
      /\ worker_pc = "contend" /\ ~flushing
  BY DEF Contend, clock, shared
<1>2. CASE ~MediumIsFree
  <2>1. /\ PickCw /\ worker_pc' = "rssi"
        /\ medium_free_since' = 0 /\ cw_wait_start' = 0 /\ cw_wait_passed' = cw_wait_passed
    BY <1>2 DEF Contend
  <2>2. cw_target' \in Nat
    BY <2>1 DEF PickCw
  <2> QED BY <1>1, <2>1, <2>2 DEF Measured
<1>3. CASE MediumIsFree /\ ~DifsPassed
  <2>1. /\ PickCw /\ worker_pc' = "rssi"
        /\ medium_free_since' = IF medium_free_since = 0 THEN wnow ELSE medium_free_since
        /\ cw_wait_start' = cw_wait_start /\ cw_wait_passed' = cw_wait_passed
    BY <1>3 DEF Contend
  <2>2. cw_target' \in Nat
    BY <2>1 DEF PickCw
  <2> QED BY <1>1, <2>1, <2>2 DEF Measured
<1>4. CASE MediumIsFree /\ DifsPassed
  <2>1. CwPassed \in Nat /\ last_tx + Difs + CwPassed =< wnow
    BY <1>4 DEF CwPassed, DifsPassed, Measured
  <2> QED BY <1>1, <1>4, <2>1 DEF Contend, Measured
<1> QED BY <1>2, <1>3, <1>4

LEMMA TimersNext == Timers /\ Measured /\ [Next]_vars => Timers' /\ Measured'
<1> SUFFICES ASSUME Timers, Measured, [Next]_vars PROVE Timers' /\ Measured'
  OBVIOUS
<1> USE TimingAssumption DEF Timers, Measured, clock, queue, radio, shared, callback, lbt
<1>1. CASE Tick \/ Push \/ Fade \/ Restart
  BY <1>1 DEF Tick, Push, Fade, Restart
<1>2. ASSUME NEW c \in Causes, Signal(c) PROVE Timers' /\ Measured'
  BY <1>2 DEF Signal
<1>3. CASE MediumFree
  BY <1>3 DEF MediumFree
<1>4. CASE MediumBusy
  <2>1. flushing' => flushing
    BY <1>4 DEF MediumBusy
  <2>2. UNCHANGED <<clock, worker_pc, wnow, lbt, last_tx>>
    BY <1>4 DEF MediumBusy
  <2> QED BY <2>1, <2>2
<1>5. CASE Wake \/ Watchdog \/ FlushNext \/ Disabled \/ Rssi
  BY <1>5 DEF Wake, Watchdog, FlushNext, Disabled, Rssi
<1>6. CASE Arm \/ HoldBack \/ FlushEnds
  BY <1>6 DEF Arm, HoldBack, FlushEnds
<1>7. CASE Contend
  BY <1>7, ContendTimers
<1>8. CASE Send \/ SendFlush
  BY <1>8 DEF Send, SendFlush, Transmit
<1>9. CASE Reenable \/ ClearDcd
  BY <1>9 DEF Reenable, ClearDcd
<1>10. CASE UNCHANGED vars
  BY <1>10 DEF vars
<1> QED BY <1>1, <1>2, <1>3, <1>4, <1>5, <1>6, <1>7, <1>8, <1>9, <1>10 DEF Next, Irq, Worker

(* Outside flush mode the contention is won no earlier than DIFS and the   *)
(* whole window after the previous transmission, for every DIFS, window    *)
(* and interleaving: preambles, interference and restarts included.        *)
THEOREM BacksOffHolds == Spec => BacksOff
<1> DEFINE Step == worker_pc = "contend" /\ worker_pc' = "arm" => wnow >= last_tx + Difs + cw_target'
<1>1. Timers /\ Measured /\ [Next]_vars => [Step]_vars
  <2> SUFFICES ASSUME Timers, Measured, Next, worker_pc = "contend", worker_pc' = "arm"
               PROVE  wnow >= last_tx + Difs + cw_target'
    OBVIOUS
  <2>1. Contend
    BY DEF Next, Irq, Worker, Tick, Push, Fade, Restart, Signal, MediumFree, MediumBusy, Wake, Watchdog,
           FlushNext, Disabled, Rssi, Arm, HoldBack, FlushEnds, Send, SendFlush, Reenable, ClearDcd
  <2>2. MediumIsFree /\ DifsPassed /\ cw_target' \in Nat /\ cw_target' =< CwPassed
    BY <2>1, TimingAssumption DEF Contend, Timers, CwPassed
  <2>3. CwPassed \in Nat /\ last_tx + Difs + CwPassed =< wnow
    BY <2>2, TimingAssumption DEF CwPassed, DifsPassed, Timers, Measured
  <2>4. \A t, p \in Nat : t =< p /\ last_tx + Difs + p =< wnow => wnow >= last_tx + Difs + t
    BY TimingAssumption DEF Timers
  <2> QED BY <2>2, <2>3, <2>4
<1>2. Spec => [](Timers /\ Measured) /\ [][Next]_vars
  BY TimersInit, TimersNext, PTL DEF Spec
<1> QED BY <1>1, <1>2, PTL DEF BacksOff

(* "CW progress is preserved", for every timing: a busy medium, or a round *)
(* that does not win, never takes back what has been waited of the window, *)
(* nor draws another.                                                      *)
THEOREM CwProgressHolds == Spec => CwProgressKept
<1> DEFINE Step == worker_pc' = "arm" \/ CwKept
<1>1. Timers /\ Measured /\ [Next]_vars => [Step]_vars
  <2> SUFFICES ASSUME Timers, Measured, Next PROVE Step
    OBVIOUS
  <2>1. CASE Contend
    <3>1. CASE ~MediumIsFree \/ ~DifsPassed
      BY <2>1, <3>1 DEF Contend, PickCw, Timers, CwKept
    <3>2. CASE MediumIsFree /\ DifsPassed
      <4>1. CwPassed \in Nat /\ CwPassed >= cw_wait_passed
        BY DEF CwPassed, Timers, Measured
      <4> QED BY <2>1, <3>2, <4>1 DEF Contend, CwKept
    <3> QED BY <3>1, <3>2
  <2>2. CASE ~Contend
    <3>1. UNCHANGED lbt
      BY <2>2 DEF Next, Irq, Worker, Tick, Push, Fade, Restart, Signal, MediumFree, MediumBusy,
             Wake, Watchdog, FlushNext, Disabled, Rssi, Arm, HoldBack, FlushEnds, Send, SendFlush,
             Transmit, Reenable, ClearDcd
    <3> QED BY <3>1 DEF lbt, Timers, CwKept
  <2> QED BY <2>1, <2>2
<1>2. Spec => [](Timers /\ Measured) /\ [][Next]_vars
  BY TimersInit, TimersNext, PTL DEF Spec
<1> QED BY <1>1, <1>2, PTL DEF CwProgressKept

-----------------------------------------------------------------------------
(* The types, in the groups that change together; the flags are apart.     *)
Flags == /\ tx \in BOOLEAN /\ tx_enable \in BOOLEAN /\ flushing \in BOOLEAN /\ dcd \in BOOLEAN
         /\ interference \in BOOLEAN /\ cw_picked \in BOOLEAN
ClockTypes == /\ now \in 1 .. MaxNow /\ wnow \in 0 .. MaxNow /\ cnow \in 0 .. MaxNow
              /\ tx_disabled \in 0 .. Never
RadioTypes ==
    /\ pushed \in 0 .. MaxPush /\ depth \in 0 .. MaxPush /\ depth =< pushed
    /\ hears \in {"quiet", "preamble", "payload"}
    /\ tx_wait_timeout \in Nat /\ last_tx \in 0 .. MaxNow
CauseTypes == /\ cause \in Causes \cup {"none"} /\ step \in 1 .. 4
              /\ cause \in {"init", "tx_done", "rx_done", "header_err"} => step =< 3
TimerTypes ==
    /\ medium_free_since \in 0 .. MaxNow /\ cw_wait_start \in 0 .. MaxNow
    /\ cw_wait_passed \in 0 .. MaxNow /\ cw_target \in Cw \cup {0}
Points == {"wake", "watchdog", "contend", "flush", "arm", "send", "more",
           "disabled", "enable", "uncarrier", "rssi"}

(* The worker transmits only what it has seen queued.                      *)
HasPacket == /\ worker_pc \in Points
             /\ worker_pc \in {"contend", "flush", "arm", "send"} => depth > 0

Types == ClockTypes /\ RadioTypes /\ CauseTypes /\ TimerTypes /\ HasPacket

LEMMA FlagsInit == Init => Flags
BY Zenon DEF Init, Flags

LEMMA FlagsNext == Flags /\ [Next]_vars => Flags'
<1> SUFFICES ASSUME Flags, [Next]_vars PROVE Flags'
  OBVIOUS
<1>1. CASE Tick \/ Push \/ Fade \/ Restart \/ \E c \in Causes : Signal(c)
  BY <1>1, ZenonT(60) DEF Tick, Push, Fade, Restart, Signal, Flags, radio, shared, lbt
<1>2. CASE Irq
  BY <1>2, Zenon DEF Irq, MediumFree, MediumBusy, Flags, radio, shared, lbt
<1>3. CASE Contend
  BY <1>3, Zenon DEF Contend, PickCw, Flags, radio, shared
<1>4. CASE Worker /\ ~Contend
  <2> USE <1>4 DEF Worker, Wake, Watchdog, FlushNext, Arm, HoldBack, Send, SendFlush, Transmit,
               FlushEnds, Disabled, Reenable, ClearDcd, Rssi, Flags, radio, shared, lbt
  <2>1. tx' \in BOOLEAN /\ tx_enable' \in BOOLEAN /\ dcd' \in BOOLEAN /\ cw_picked' \in BOOLEAN
    BY Zenon
  <2>2. interference' \in BOOLEAN
    BY Zenon
  <2>3. flushing' \in BOOLEAN
    BY TimingAssumption, Zenon
  <2> QED BY <2>1, <2>2, <2>3, Zenon
<1>5. CASE UNCHANGED vars
  BY <1>5, Zenon DEF vars, Flags, radio, shared, lbt
<1> QED BY <1>1, <1>2, <1>3, <1>4, <1>5 DEF Next

LEMMA TypesInit == Init => Types
<1> SUFFICES ASSUME Init PROVE Types
  OBVIOUS
<1> USE TimingAssumption DEF Init
<1>1. ClockTypes /\ TimerTypes
  BY DEF ClockTypes, TimerTypes, Never
<1>2. RadioTypes /\ HasPacket
  BY DEF RadioTypes, HasPacket, Points
<1>3. CauseTypes
  BY DEF CauseTypes, Causes
<1> QED BY ONLY <1>1, <1>2, <1>3 DEF Types

(* The clock, the packets and what the radio hears.                        *)
LEMMA WorldTypes ==
    ASSUME Types, Tick \/ Push \/ Fade \/ Restart \/ \E c \in Causes : Signal(c)
    PROVE  Types'
<1> USE TimingAssumption DEF Types, clock, queue, radio, shared, callback, lbt
<1>1. TimerTypes'
  BY DEF Tick, Push, Fade, Restart, Signal, TimerTypes
<1>2. ClockTypes'
  BY DEF Tick, Push, Fade, Restart, Signal, ClockTypes
<1>3. RadioTypes' /\ HasPacket'
  BY DEF Tick, Push, Fade, Restart, Signal, RadioTypes, HasPacket
<1>4. CauseTypes'
  BY DEF Tick, Push, Fade, Restart, Signal, CauseTypes
<1> QED BY ONLY <1>1, <1>2, <1>3, <1>4 DEF Types

LEMMA IrqTypes == ASSUME Types, Irq PROVE Types'
<1> USE TimingAssumption DEF Types, clock, queue, radio, shared, callback, lbt
<1>1. TimerTypes' /\ HasPacket'
  BY DEF Irq, MediumFree, MediumBusy, TimerTypes, HasPacket
<1>2. ClockTypes'
  <2>1. now' = now /\ wnow' = wnow /\ cnow' \in {0, cnow}
    BY DEF Irq, MediumFree, MediumBusy, Return, Continue
  <2>2. \/ tx_disabled' = tx_disabled
        \/ tx_disabled' \in {cnow + HeaderTimeout, cnow + DataTimeout}
    BY DEF Irq, MediumFree, MediumBusy
  <2> QED BY <2>1, <2>2 DEF ClockTypes, Never
<1>3. RadioTypes'
  BY DEF Irq, MediumFree, MediumBusy, RadioTypes
<1>4. CauseTypes'
  <2>1. CASE MediumFree
    BY <2>1 DEF MediumFree, Return, Continue, CauseTypes, Causes
  <2>2. CASE MediumBusy
    <3>1. cause \in {"preamble", "header_valid"}
      BY <2>2 DEF MediumBusy
    <3>2. cause' \in {cause, "none"}
      BY <2>2 DEF MediumBusy, Return, Continue
    <3>3. (step \in {1, 2, 3} /\ step' = step + 1) \/ step' = 1
      BY <2>2 DEF MediumBusy, Return, Continue
    <3> QED BY <3>1, <3>2, <3>3 DEF CauseTypes, Causes
  <2> QED BY <2>1, <2>2 DEF Irq
<1> QED BY ONLY <1>1, <1>2, <1>3, <1>4 DEF Types

LEMMA WorkerTypes ==
    ASSUME Types, Timers, Measured, Worker PROVE Types'
<1> USE TimingAssumption DEF Types, clock, queue, radio, shared, callback, lbt
<1> USE DEF Worker, Wake, Watchdog, FlushNext, Arm, HoldBack, Send, SendFlush, Transmit, FlushEnds,
            Disabled, Reenable, ClearDcd, Rssi
<1>1. ClockTypes' /\ CauseTypes'
  BY DEF Contend, ClockTypes, CauseTypes
<1>2. RadioTypes'
  BY DEF Contend, RadioTypes, ClockTypes, HasPacket
<1>3. HasPacket'
  BY DEF Contend, HasPacket, Points
<1>4. CASE Contend
  <2>1. Timers' /\ Measured' /\ wnow' = wnow /\ now' = now
    BY <1>4, ContendTimers DEF Contend
  <2>2. cw_target' \in Cw \cup {0}
    BY <1>4 DEF Contend, PickCw, TimerTypes
  <2>3. wnow' =< MaxNow /\ wnow' \in Nat /\ MaxNow \in Nat
    BY ONLY <1>1, TimingAssumption DEF ClockTypes
  <2>4. medium_free_since' =< wnow' /\ cw_wait_start' =< wnow' /\ cw_wait_passed' =< wnow'
    <3>1. medium_free_since' # 0 => medium_free_since' =< wnow'
      BY ONLY <2>1 DEF Measured
    <3>2. cw_wait_start' # 0 => cw_wait_start' =< wnow'
      BY ONLY <2>1 DEF Measured
    <3>3. cw_wait_passed' # 0 => last_tx' + Difs + cw_wait_passed' =< wnow'
      BY ONLY <2>1 DEF Measured
    <3>4. last_tx' \in Nat /\ cw_wait_passed' \in Nat /\ Difs \in Nat
      BY ONLY <2>1, TimingAssumption DEF Timers
    <3>5. cw_wait_passed' =< wnow'
      <4>1. \A l, d, c, w \in Nat : l + d + c =< w => c =< w
        BY ONLY SMT
      <4>2. CASE cw_wait_passed' = 0
        BY ONLY <2>3, <4>2
      <4> QED BY ONLY <3>3, <3>4, <2>3, <4>1, <4>2
    <3>6. medium_free_since' =< wnow'
      BY ONLY <3>1, <2>3
    <3>7. cw_wait_start' =< wnow'
      BY ONLY <3>2, <2>3
    <3> QED BY ONLY <3>5, <3>6, <3>7
  <2>5. TimerTypes'
    BY ONLY <2>1, <2>2, <2>3, <2>4 DEF Timers, TimerTypes
  <2> QED BY ONLY <1>1, <1>2, <1>3, <2>5 DEF Types
<1>5. CASE ~Contend
  <2>1. TimerTypes'
    BY <1>5 DEF TimerTypes
  <2> QED BY ONLY <1>1, <1>2, <1>3, <2>1 DEF Types
<1> QED BY <1>4, <1>5

LEMMA TypesNext == Types /\ Timers /\ Measured /\ [Next]_vars => Types'
<1> SUFFICES ASSUME Types, Timers, Measured, [Next]_vars PROVE Types'
  OBVIOUS
<1>1. CASE UNCHANGED vars
  BY <1>1 DEF vars, clock, queue, radio, shared, callback, lbt, Types, ClockTypes, RadioTypes,
             CauseTypes, TimerTypes, HasPacket
<1> QED BY <1>1, WorldTypes, IrqTypes, WorkerTypes DEF Next

(* Every variable keeps its type: the queue is not popped below empty, and *)
(* no timer runs ahead of the clock.                                       *)
THEOREM TypesHold == Spec => []TypeOK
<1>1. Types /\ Flags => TypeOK
  BY Zenon DEF Types, ClockTypes, RadioTypes, Flags, CauseTypes, TimerTypes, HasPacket, Points, TypeOK
<1> QED BY <1>1, TimersInit, TimersNext, TypesInit, TypesNext, FlagsInit, FlagsNext, PTL DEF Spec
=============================================================================
