------------------------------- MODULE Setup --------------------------------
(***************************************************************************)
(* Setting up the radio: the host's commands for its parameters (the ans_* *)
(* functions of rnode.c), rnode_start, and what becomes of the chip's      *)
(* registers when sx126x_begin fails or the BUSY line stays up.            *)
(*                                                                         *)
(* The host stores parameters, and switches the radio on and off; the      *)
(* worker sends and, when a transmission does not end, runs rnode_start    *)
(* too; the interrupt thread goes back to receiving after a transmission.  *)
(* What a thread still has to do is a sequence of steps, todo[t]: a        *)
(* function that calls another puts its steps before its own.  A step is   *)
(* one SPI command, or one store that another thread can see.              *)
(*                                                                         *)
(* A reset loses every register.  Before each command the driver waits for *)
(* BUSY; after a second it calls sx126x_begin, tells the host, and goes on *)
(* with the command it was about to send.                                  *)
(***************************************************************************)
EXTENDS Naturals, Sequences

CONSTANTS Param,      \* the parameters the host sets
          Value,      \* the values it gives them
          Lost,       \* the content of a register after a reset
          Untold,     \* what the host knows of a parameter it has not asked for
          ByteMod,    \* one more than the largest preamble_len (a uint8_t)
          MaxPower,   \* the most sx126x_set_tx_power lets through
          MaxCommand, \* bound: commands of the host
          MaxSend,    \* bound: frames sent
          MaxHang,    \* bound: transmissions the watchdog gives up
          MaxBusy,    \* bound: BUSY timeouts
          MaxFail     \* bound: sx126x_begin that fail

(* The register each parameter of the host ends up in.                     *)
RegisterOf == [freq |-> "freq", txpower |-> "power", sf |-> "modulation", bw |-> "modulation",
               cr |-> "modulation", preamble |-> "packet", implicit |-> "packet"]

(* The registers that matter: the sync word is the same always.            *)
Register == {"freq", "power", "modulation", "packet", "sync"}

ASSUME SetupAssumption ==
    /\ Param \subseteq DOMAIN RegisterOf
    /\ Value \subseteq Nat \ {0} /\ Untold \notin Nat
    /\ \A P \in SUBSET Param : Lost \notin [P -> Nat]
    /\ ByteMod \in Nat \ {0} /\ MaxPower \in Nat
    /\ {MaxCommand, MaxSend, MaxHang, MaxBusy, MaxFail} \subseteq Nat

VARIABLES
    current,      \* rnode.c: current_freq, current_sf, ...; 0 is what they start with
    radio_online,
    chip,         \* what each register of the chip holds
    mode,         \* the chip: "standby", "rx" or "tx"
    state,        \* sx126x.c: SX126X_IDLE, _RX_CONTINUOUS, _TX
    saved,        \* sx126x.c: save_preamble_len, save_header_type
    recovering,   \* sx126x.c: wait_on_busy is in sx126x_begin
    timing,       \* csma.c: the modulation its slot and DIFS were computed from
    todo,         \* per thread: the steps it has still to take
    arg,          \* per thread: the arguments of the register it is about to write
    told,         \* what the last answer said of each parameter
    error_seen,   \* CMD_ERROR has been reported since the host last switched the radio on
    overlap,      \* history: another thread was at work during a command of the host's
    budget        \* what is left of each bound

rnode == <<current, radio_online>>
driver == <<state, saved, recovering>>
device == <<chip, mode>>
host == <<told, error_seen>>
vars == <<rnode, device, driver, timing, todo, arg, host, overlap, budget>>

Thread == {"main", "worker", "irq"}

In(r) == {p \in Param : RegisterOf[p] = r}
Stored(r) == [p \in In(r) |-> current[p]]

(* The parameters the timing of listen before talk follows from.           *)
Timed == Param \cap {"sf", "bw"}

(* What the driver's parameter types and limits make of the host's value.  *)
Narrow(p, v) == CASE p = "preamble" -> v % ByteMod
                  [] p = "txpower" -> IF v > MaxPower THEN MaxPower ELSE v
                  [] OTHER -> v

(***************************************************************************)
(* The routines, as the steps they take.                                   *)
(***************************************************************************)
Begin(caller) == << <<"reset", caller>>, <<"init", caller>> >>
Apply(r) == << <<"call", r>>, <<"write", r>> >>
Receive == << <<"state", "rx">>, <<"params", "packet">>, <<"go", "rx">> >>
Transmit == << <<"state", "tx">>, <<"params", "packet">>, <<"go", "tx">> >>
SetPacket == Apply("packet") \o << <<"save", "packet">> >>
SetSync == Apply("sync")
Configure == Apply("freq") \o Apply("power") \o Apply("modulation") \o SetPacket \o SetSync

(* A slip to check against: no sx126x_set_lora_packet.                     *)
StartNoPacket == Begin("start") \o Apply("freq") \o Apply("power") \o Apply("modulation")
                 \o SetSync \o Receive \o << <<"started", "start">> >>

Start == Begin("start") \o Configure \o Receive \o << <<"started", "start">> >>

(* A slip to check against: the host is not told of a BUSY timeout.        *)
RecoverSilently == Begin("recovery") \o << <<"recovered", "recovery">> >>

Recover == Begin("recovery") \o << <<"error", "recovery">>, <<"recovered", "recovery">> >>

(* The daemon has just been started.                                       *)
Fresh ==
    /\ current = [p \in Param |-> 0] /\ radio_online = FALSE
    /\ chip = [r \in Register |-> Lost] /\ mode = "standby"
    /\ state = "idle" /\ saved = Stored("packet")
    /\ timing = [p \in Timed |-> current[p]]
    /\ told = [p \in Param |-> Untold]

(* Or the host has set every parameter and switched the radio on, as this  *)
(* very specification lets it.                                             *)
Running ==
    /\ \E v \in Value : v < ByteMod /\ v =< MaxPower /\ current = [p \in Param |-> v]
    /\ radio_online = TRUE
    /\ chip = [r \in Register |-> Stored(r)] /\ mode = "rx"
    /\ state = "rx" /\ saved = Stored("packet")
    /\ timing = [p \in Timed |-> current[p]]
    /\ told = current

Init ==
    /\ Fresh \/ Running
    /\ recovering = FALSE
    /\ todo = [t \in Thread |-> <<>>] /\ arg = [t \in Thread |-> <<>>]
    /\ error_seen = FALSE /\ overlap = FALSE
    /\ budget = [command |-> MaxCommand, send |-> MaxSend, hang |-> MaxHang,
                 busy |-> MaxBusy, fail |-> MaxFail]

Spend(what) == budget[what] > 0 /\ budget' = [budget EXCEPT ![what] = @ - 1]
Run(t, steps) == todo[t] = <<>> /\ todo' = [todo EXCEPT ![t] = steps]

(***************************************************************************)
(* The main thread takes a command (rnode_from_channel).                   *)
(***************************************************************************)
IfOnline(steps) == IF radio_online THEN steps ELSE <<>>
Answer(p) == << <<"answer", p>> >>

(* Slips to check against: a modulation parameter is stored for the next   *)
(* start only; or csma_update_radio_params is left out.                    *)
HandlerOffline(p) == IF RegisterOf[p] = "modulation" THEN Answer(p) \o << <<"csma", p>> >>
                     ELSE IfOnline(Apply(RegisterOf[p])) \o Answer(p)
HandlerNoTiming(p) == IF RegisterOf[p] = "modulation" THEN Answer(p) \o IfOnline(Apply("modulation"))
                      ELSE IfOnline(Apply(RegisterOf[p])) \o Answer(p)

(* The steps of ans_sf, ans_bandwidth and ans_cr, which answer first, the  *)
(* first two calling csma_update_radio_params; of ans_preamble and         *)
(* ans_implicit; of ans_frequency and ans_txpower.                         *)
Handler(p) == CASE RegisterOf[p] = "modulation" ->
                       Answer(p) \o (IF p \in Timed THEN << <<"csma", p>> >> ELSE <<>>)
                       \o IfOnline(Apply("modulation"))
                [] RegisterOf[p] = "packet" -> IfOnline(SetPacket) \o Answer(p)
                [] OTHER -> IfOnline(Apply(RegisterOf[p])) \o Answer(p)

SetParam(p, v) ==
    /\ Run("main", Handler(p))
    /\ Spend("command")
    /\ current' = [current EXCEPT ![p] = v]
    /\ UNCHANGED <<radio_online, device, driver, timing, arg, host>>

(* A zero, or a bandwidth the chip does not know, asks for the value.  The *)
(* modulation is written again all the same.                               *)
Query(p) ==
    /\ p # "implicit"
    /\ Run("main", IF RegisterOf[p] = "modulation" THEN Handler(p) ELSE Answer(p))
    /\ Spend("command")
    /\ UNCHANGED <<rnode, device, driver, timing, arg, host>>

RadioOn ==
    /\ Run("main", Start \o << <<"online", "start">> >>)
    /\ Spend("command")
    /\ error_seen' = FALSE
    /\ UNCHANGED <<rnode, device, driver, timing, arg, told>>

(* The chip is left as it is.                                              *)
RadioOff ==
    /\ radio_online
    /\ todo["main"] = <<>>
    /\ Spend("command")
    /\ radio_online' = FALSE
    /\ UNCHANGED <<current, device, driver, timing, todo, arg, host>>

ResetCommand ==
    /\ Run("main", Start)
    /\ Spend("command")
    /\ UNCHANGED <<rnode, device, driver, timing, arg, host>>

Command == \/ \E p \in Param, v \in Value : SetParam(p, v)
           \/ \E p \in Param : Query(p)
           \/ RadioOn \/ RadioOff \/ ResetCommand

(***************************************************************************)
(* The worker and the interrupt thread.                                    *)
(***************************************************************************)
Send ==
    /\ state # "tx"
    /\ Run("worker", Transmit)
    /\ Spend("send")
    /\ UNCHANGED <<rnode, device, driver, timing, arg, host>>

Watchdog ==
    /\ state = "tx"
    /\ Run("worker", Start)
    /\ Spend("hang")
    /\ UNCHANGED <<rnode, device, driver, timing, arg, host>>

(* The frame is out: its tail follows, or the radio receives again.        *)
TxDone ==
    /\ mode = "tx"
    /\ mode' = "standby"
    /\ \/ Run("irq", Receive) /\ UNCHANGED budget
       \/ Run("irq", Transmit) /\ Spend("send")
    /\ UNCHANGED <<rnode, chip, driver, timing, arg, host>>

-----------------------------------------------------------------------------
(***************************************************************************)
(* The steps.                                                              *)
(***************************************************************************)
Next_(t, op) == /\ todo[t] # <<>> /\ Head(todo[t])[1] = op
                /\ todo' = [todo EXCEPT ![t] = Tail(@)]
What(t) == Head(todo[t])[2]

(* A slip to check against: sx126x_begin clears the packet parameters too. *)
ResetForgets(t) ==
    /\ Next_(t, "reset")
    /\ chip' = [r \in Register |-> Lost] /\ mode' = "standby"
    /\ state' = "idle"
    /\ saved' = [p \in In("packet") |-> Lost]
    /\ UNCHANGED <<rnode, recovering, timing, arg, host, budget>>

(* sx126x_begin: the reset line, and the driver's state.                   *)
Reset(t) ==
    /\ Next_(t, "reset")
    /\ chip' = [r \in Register |-> Lost] /\ mode' = "standby"
    /\ state' = "idle"
    /\ UNCHANGED <<rnode, saved, recovering, timing, arg, host, budget>>

(* The rest of sx126x_begin, which finds the chip in standby.              *)
InitChip(t) ==
    /\ Next_(t, "init")
    /\ UNCHANGED <<rnode, device, driver, timing, arg, host, budget>>

(* Steps of s after the first <<"started", _>>: rnode_start returns early. *)
AfterStart(s) == LET i == CHOOSE i \in DOMAIN s : s[i][1] = "started"
                 IN SubSeq(s, i + 1, Len(s))

(* A slip to check against: rnode_start gives up without a word.           *)
InitFailsSilently(t) ==
    /\ todo[t] # <<>> /\ Head(todo[t]) = <<"init", "start">>
    /\ Spend("fail")
    /\ todo' = [todo EXCEPT ![t] = AfterStart(@)]
    /\ UNCHANGED <<rnode, device, driver, timing, arg, host>>

(* Or it does not, and rnode_start gives up; wait_on_busy ignores that.    *)
InitFails(t) ==
    /\ todo[t] # <<>> /\ Head(todo[t]) = <<"init", "start">>
    /\ Spend("fail")
    /\ todo' = [todo EXCEPT ![t] = << <<"error", "start">> >> \o AfterStart(@)]
    /\ UNCHANGED <<rnode, device, driver, timing, arg, host>>

(* A setter of the driver is called: its arguments are read now.           *)
Call(t) ==
    /\ Next_(t, "call")
    /\ arg' = [arg EXCEPT ![t] = [p \in In(What(t)) |-> Narrow(p, current[p])]]
    /\ UNCHANGED <<rnode, device, driver, timing, host, budget>>

Write(t) ==
    /\ Next_(t, "write")
    /\ chip' = [chip EXCEPT ![What(t)] = arg[t]]
    /\ arg' = IF What(t) = "packet" THEN arg ELSE [arg EXCEPT ![t] = <<>>]
    /\ UNCHANGED <<rnode, mode, driver, timing, host, budget>>

Save(t) ==
    /\ Next_(t, "save")
    /\ saved' = arg[t]
    /\ arg' = [arg EXCEPT ![t] = <<>>]
    /\ UNCHANGED <<rnode, device, state, recovering, timing, host, budget>>

(* sx126x_end_packet and sx126x_request.                                   *)
SetState(t) ==
    /\ Next_(t, "state")
    /\ state' = What(t)
    /\ UNCHANGED <<rnode, device, saved, recovering, timing, arg, host, budget>>

Params(t) ==
    /\ Next_(t, "params")
    /\ chip' = [chip EXCEPT !["packet"] = saved]
    /\ UNCHANGED <<rnode, mode, driver, timing, arg, host, budget>>

Go(t) ==
    /\ Next_(t, "go")
    /\ mode' = What(t)
    /\ UNCHANGED <<rnode, chip, driver, timing, arg, host, budget>>

(* rnode_start ends with queue_set_busy_timeout.                           *)
Started(t) ==
    /\ Next_(t, "started")
    /\ UNCHANGED <<rnode, device, driver, timing, arg, host, budget>>

Online(t) ==
    /\ Next_(t, "online")
    /\ radio_online' = TRUE
    /\ UNCHANGED <<current, device, driver, timing, arg, host, budget>>

AnswerSent(t) ==
    /\ Next_(t, "answer")
    /\ told' = [told EXCEPT ![What(t)] = current[What(t)]]
    /\ UNCHANGED <<rnode, device, driver, timing, arg, error_seen, budget>>

(* csma_update_radio_params does nothing until SF and bandwidth are set.   *)
UpdateTiming(t) ==
    /\ Next_(t, "csma")
    /\ timing' = IF \E p \in Timed : current[p] = 0 THEN timing ELSE [p \in Timed |-> current[p]]
    /\ UNCHANGED <<rnode, device, driver, arg, host, budget>>

ReportError(t) ==
    /\ Next_(t, "error")
    /\ error_seen' = TRUE
    /\ UNCHANGED <<rnode, device, driver, timing, arg, told, budget>>

Recovered(t) ==
    /\ Next_(t, "recovered")
    /\ recovering' = FALSE
    /\ UNCHANGED <<rnode, device, state, saved, timing, arg, host, budget>>

(* BUSY stays up for a second at a command.  The first thread to notice    *)
(* recovers and then sends its command, or what is left of it where it is  *)
(* several writes; one that notices meanwhile sends its own for nothing.   *)
BusyTimeout(t) ==
    /\ todo[t] # <<>> /\ Head(todo[t])[1] \in {"write", "params", "go", "init"}
    /\ Head(todo[t]) # <<"init", "recovery">>
    /\ Spend("busy")
    /\ \/ /\ ~recovering
          /\ recovering' = TRUE
          /\ \/ todo' = [todo EXCEPT ![t] = Recover \o @]
             \/ /\ Head(todo[t]) \in {<<"write", "freq">>, <<"write", "power">>}
                /\ todo' = [todo EXCEPT ![t] = Recover \o Tail(@)]
       \/ /\ recovering
          /\ recovering' = recovering
          /\ todo' = [todo EXCEPT ![t] = Tail(@)]
    /\ UNCHANGED <<rnode, device, state, saved, timing, arg, host>>

Step(t) == \/ Reset(t) \/ InitChip(t) \/ InitFails(t) \/ Call(t) \/ Write(t) \/ Save(t)
           \/ SetState(t) \/ Params(t) \/ Go(t) \/ Started(t) \/ Online(t) \/ AnswerSent(t)
           \/ UpdateTiming(t) \/ ReportError(t) \/ Recovered(t) \/ BusyTimeout(t)

-----------------------------------------------------------------------------
(* History: a command of the host's is being carried out while another     *)
(* thread is at work; a restart of the host's begins a new record.         *)
Watch ==
    overlap' = \/ todo'["main"] # <<>> /\ (todo'["worker"] # <<>> \/ todo'["irq"] # <<>>)
               \/ overlap /\ ~(todo["main"] = <<>> /\ todo'["main"] # <<>>
                               /\ Head(todo'["main"])[1] = "reset")

Act == Command \/ Send \/ Watchdog \/ TxDone \/ \E t \in Thread : Step(t)

Next == Act /\ Watch

Spec == Init /\ [][Next]_vars

-----------------------------------------------------------------------------
Content(r) == [In(r) -> Nat]

Steps ==
    ({"reset", "init", "error"} \X {"start", "recovery"})
    \cup ({"call", "write"} \X Register) \cup ({"state", "go"} \X {"rx", "tx"})
    \cup ({"answer", "csma"} \X Param)
    \cup {<<"save", "packet">>, <<"params", "packet">>, <<"started", "start">>,
           <<"online", "start">>, <<"recovered", "recovery">>}

(* Every variable has its type, and every thread's steps are known ones.   *)
TypeOK ==
    /\ current \in [Param -> Nat] /\ radio_online \in BOOLEAN
    /\ DOMAIN chip = Register /\ \A r \in Register : chip[r] \in Content(r) \cup {Lost}
    /\ mode \in {"standby", "rx", "tx"} /\ state \in {"idle", "rx", "tx"}
    /\ saved \in Content("packet") /\ timing \in [Timed -> Nat]
    /\ recovering \in BOOLEAN /\ error_seen \in BOOLEAN /\ overlap \in BOOLEAN
    /\ told \in [Param -> Nat \cup {Untold}]
    /\ todo \in [Thread -> Seq(Steps)] /\ DOMAIN arg = Thread
    /\ budget \in [{"command", "send", "hang", "busy", "fail"} -> Nat]

Quiet == \A t \in Thread : todo[t] = <<>>

(* A register lost to a reset never goes unnoticed: with the radio on and  *)
(* no thread at work on it, either rnode_start has set everything again,   *)
(* or the host has been sent CMD_ERROR since it switched the radio on.     *)
LossReported ==
    radio_online /\ Quiet /\ ~error_seen => \A r \in Register : chip[r] # Lost

(* The answers the host has are what the chip is set to, once the commands *)
(* are carried out, if no other thread was at work on the chip meanwhile.  *)
HostKnows ==
    radio_online /\ Quiet /\ ~error_seen /\ ~overlap =>
        \A p \in Param : told[p] # Untold => chip[RegisterOf[p]][p] = told[p]

(* The slots and DIFS of listen before talk are those of the modulation    *)
(* the host has set, on or off, whenever its commands are carried out.     *)
TimingFollows ==
    /\ todo["main"] = <<>>
    /\ \A p \in Timed : current[p] # 0
    => timing = [p \in Timed |-> current[p]]

(* Not checked by a run; see the README.  A node whose radio the host has  *)
(* switched off does not send.                                             *)
OffIsSilent == ~radio_online /\ Quiet => mode # "tx"

(* Not checked by a run; see the README.  A frame is sent with the         *)
(* settings it was started with.                                           *)
SteadyWhileSending == [][mode = "tx" /\ mode' = "tx" => chip' = chip]_vars
=============================================================================
