# A verification development for RNode-linux

RNode-linux turns a Linux board with an SX126x LoRa transceiver into an RNode: a host (Reticulum,
for instance) connects over TCP, speaks KISS frames, and the daemon sends and receives packets for
it. The program has three threads and almost no locks, a chip that acts on its own, a lossy medium
and timers everywhere; this directory holds TLA+ models of those parts, TLC configurations that
explore them, and TLAPS proofs. Paths below are relative to the repository's root, as in
`PROJECT.json` without its leading `src/`.

## 1. Inventory

### Threads

| thread | started by | loop |
|---|---|---|
| main | `main` | `tcp_read` -> `kiss_decode` -> `rnode_from_channel` -> `queue_push`, `rnode_start`, parameter commands |
| worker | `queue_init` | `queue_worker` (src/queue.c), every millisecond: listen before talk, `send_packet`, the RSSI, the transmit watchdog |
| interrupt | `sx126x_init_dio1` | `irq_worker` (sx126x/sx126x.c): waits for an edge of DIO1, reads the status word, calls `queue_medium_state`, `rnode_tx_done`, `rnode_rx_done` |

They share the transmit queue (under `mux`), the SPI bus (under `spi_mutex`, one transaction at a
time), and, without any lock, the state of the driver, the variables of `queue_medium_state`, the
carrier flag of csma.c, `len_tx` of rnode.c, and the output buffer of kiss.c.

### Components

| component | state | operations | what is hard | what makes it correct |
|---|---|---|---|---|
| Transmit queue (src/queue.c) | `head`, `tail`, `queue_depth`, `mux` | `queue_push`, `send_packet`, `queue_get_depth` | the mutex is released while the packet is sent; `next` is never initialised; the counter is 16 bits | it is a FIFO; the node freed is the one sent; the depth is right; every packet is sent in the end |
| Listen before talk (src/queue.c) | `tx_enable`, `tx_disabled`, `flushing`, the DIFS and contention timers | `queue_worker`, `queue_medium_state` | two threads storing the same variables one by one; flags that outlive their purpose | never wedged, spaced transmissions, waited windows kept, a false preamble is survived |
| CSMA parameters (src/csma.c) | airtime bins, statistics, the window band, `dcd`, interference, noise floor | `csma_add_airtime`, `csma_update_airtime`, `csma_update_current_rssi` | bins cleared ahead of their use by whoever comes along; 16 bit bins | the statistics are what was sent; the airtime lock keeps its limits and opens again |
| SX126x driver (sx126x/sx126x.c) | `state`, antenna switch, interrupt flags, the chip | `sx126x_end_packet`, `_request`, `_begin`, `irq_worker`, `switch_ant` | three threads between the SPI transactions of one another, edge-triggered waiting for level flags | no transmission is cut short, the antenna follows, interrupts are served, the node returns to receiving |
| Data path (src/rnode.c) | `seq`, `buf_in`; `len_tx`, `buf_tx`; `promisc` | `rnode_to_air`, `rnode_tx_done`, `rnode_from_air`, `rnode_rx_done` | one packet sent by two threads; loss between the halves; 4-bit sequence numbers | halves stay together, nothing is joined that does not belong together |
| Host commands (src/rnode.c) | radio parameters, `radio_online`, limits, counters | `rnode_from_channel`, `ans_*`, `rnode_start` | they write registers while the other threads use the chip; a reset loses every register, and may happen inside any driver call | the host knows what the chip is set to, or has been sent an error |
| KISS (src/kiss.c) | `sync`, `escape`, `buf_in`; `buf_out` | `kiss_decode`, `kiss_encode` | chunk boundaries, overflow, state that outlives the client; `buf_out` shared by three threads | frames passed on are frames written, in order; a frame encoded alone arrives |
| TCP server (src/tcp.c) | `client_fd` | `tcp_read`, `tcp_send` | a client replaces another in mid-frame; three threads test, use, close and clear one descriptor | the latest host is served; a closed descriptor is never left as the client |
| Start-up, configuration (src/main.c, src/config.c) | - | straight-line code | - | not modelled |
| Device hash (SHA-256), utilities | - | pure functions, printing | - | not modelled, but for `get_time`, the clock |

The hazards these components are exposed to are listed one by one, each at its line, under
`hazards` in `PROJECT.json`, with the properties that cover them.

## 2. The modules

```
Fifo        <- TxQueue   <- MCTxQueue   (queue)
                         <- TxQueueProofs
Lbt         <- LbtClaims                (lbt_difs, lbt_flush)
            <- MCLbt                    (lbt)
            <- LbtProofs
Radio       <- MCRadio                  (radio, radio_restart, radio_stale)
            <- RadioProofs
Split       <- MCSplit                  (split)
            <- SplitProofs
Link        <- MCLink                   (link)
            <- LinkProofs
Airtime     <- MCAirtime                (airtime)
            <- AirtimeProofs
Setup       <- MCSetup                  (setup)
            <- SetupProofs
HostOut     <- MCHostOut                (host_out)
            <- HostOutProofs
```

The components meet where one module shows the other by a summary: Lbt sees the queue as a length
and the radio as a flag; Radio sees listen before talk as the guard `MaySend`; TxQueue sees the
airtime lock as a choice; Split takes from Radio that a tail follows its head; Setup keeps of Radio
the registers and the mode, and adds what Radio leaves out, the BUSY timeout and a start that fails;
HostOut keeps of all of them that three threads have frames for the host.

The definitions beside an action whose comment begins with *MUTANT* or *A slip to check against* are
not used by any specification. Each is the action with a plausible mistake, and putting it in the
action's place makes TLC report the property listed with it under `mutants`.

### TxQueue, refining Fifo

`queue_push` is four actions (allocate; lock; link; count and unlock) and `send_packet` six (test
`head` without the mutex; lock; take `head` and unlock; ask the airtime lock, and send with no mutex
held; lock; unlink; free and count). Memory is a function from nodes to next pointers and data;
`malloc` hands out a node with whatever was in it, because `queue_push` does not set `next`. `Fifo`
is the queue as a sequence, and `TxQueue` implements it under the mapping that drops the packet from
the sequence when it is sent, not when it is unlinked.

### Lbt

`queue_medium_state` is one action for each of its stores (`step`); `queue_worker` one for each test
or store of a shared variable. Each round uses one reading of the clock (`wnow`), as in the code. A
call into another source file stands between any two stores to shared variables in the worker, so
the compiler cannot reorder them; that they become visible in program order is an assumption of the
model (it holds on the x86 memory model; on ARM the SPI and logging system calls between them make
it so in practice). `LbtClaims` adds two history variables for what two comments claim.

### Radio

The chip (mode, buffer, interrupt flags, the DIO1 edge), the driver's `state` and antenna switch,
and the three threads, each with a program counter, running the driver's routines one SPI
transaction a step. `Handle` deals with the flags of a status word in the order in which `irq_worker`
tests them. With `Lag = FALSE` the interrupt thread is done with one event before the next, which
lies milliseconds later, rises; `Lag = TRUE` drops that assumption. `Flush`, `MaxRestart` and
`MaxPromisc` say whether the worker may send without waiting DIFS, how often the host restarts the
radio, and how often it changes the mode.

### Split

The receiver of split packets, and nodes that send them over a medium that loses frames. A frame is
a packet's name, the part it carries (`whole`, `head` or `tail`) and a sequence number; the receiver
looks at the number and at whether the frame is split, never at which half it is. `Fresh` says that
no two split packets draw the same number: true of almost all pairs, and what the code relies on.

### Link

`tcp_read` and `kiss_decode`. The decoder takes one byte per step; bytes are the four special
ones and `other`. Whole frames are written by the client at once, and `Read` takes any prefix of what
has been written, so every way of cutting the stream into chunks is covered.

### Airtime

The ring of airtime bins, the statistics made of it, the band of contention windows and the airtime
lock. The clock is the position in the hour. `truth` remembers what was really sent in each bin.
Sampling, and the update that comes with every 333rd sample, stops while a packet is being sent, as
in `queue_worker`; `since` counts the time spent sampling.

### Setup

The parameters the host sets (`current`), the registers they end up in (`chip`), the driver's copies
(`saved`), the modulation csma.c computed its slots from (`timing`), and what the host has been told.
What a thread still has to do is a sequence of steps, one SPI command or one shared store each, so
that a routine called from another is its steps put in front: `rnode_start` is `Start`, `wait_on_busy`
puts `Recover` before the command it was waiting to send. A BUSY timeout may come at any command,
during a start too; the static flag `recovering` makes a second one return at once. Both the freshly
started daemon and a running, configured one are initial states; the second is a state the first can
reach, there so that the bounds are spent on what happens afterwards. The registers are always the
same five, those of the four parameters a handler writes and the sync word, whichever parameters an
instance lets the host set.

### HostOut

`buf_out` cell by cell, `client_fd` and the kernel's descriptors behind it. A descriptor is a number
and `accept` returns the least free one, so that one closed by mistake and handed out again is told
from one that is still open; 0 is the standard input's. The connection of a host may end, or be
aborted; `send` takes all of a frame, part of it, or fails. `tcp_send` reads `client_fd` for its test
and again for its close, and `tcp_read` tests `readfds` for what `client_fd` is after `accept`. Each
host's decoder is external: cells between two `Fend` are a frame.

## 3. What the runs show

### Passing

| run | shows | instance |
|---|---|---|
| `queue` | the list, its memory and counter stay right, the node popped is the one sent, READY is not given falsely, FIFO, every packet is sent | four pushes over three nodes, so that freed nodes are handed out again and the queue empties and fills; two packet contents; a lock that may hold back any finite number of times |
| `lbt` | transmissions spaced, windows kept, never wedged, a false preamble survived | two packets, flush mode on (the contended path is the same with it off), DIFS 1, windows 0 and 1, clock to 4: a contention with a carrier in its middle, and a deadline after a preamble, fit. The four safety properties are proved for all timings, so the instance only has to be large enough for `TxReenabled` |
| `radio` | split packets stay together, no transmission is aborted, antenna, CRC; transmissions end, interrupts are served, the radio returns to receiving | three sends, two receptions, one transmission that never ends |
| `radio_restart` | the chip ends up configured and receiving after a restart by the host at any moment | two sends, a reception, one restart, one change of mode |
| `split` | packets given are packets sent, each frame once, a part is stored exactly while its number is waited for, and a head followed by its tail always arrives | two nodes, two packets each, three sequence numbers, two changes of mode |
| `link` | nothing but written frames, in order; none lost that fits; recovery after overflow | three frames out of four kinds, with every escape and one too long for the buffer |
| `airtime` | statistics exact, limits kept, a locked node gets to send again | four bins, two limits, updates at least once per bin |
| `setup` | lost registers are reported, the host knows what the chip is set to, listen before talk's timing follows the modulation | the two parameters whose handlers do most (the spreading factor also sets the timing, the preamble also the driver's copy; the frequency's is the preamble's without the copy), two values; two commands, a frame and its tail, a hung transmission, a BUSY timeout, a failing start: 6.5 million states, the largest run |
| `host_out` | a frame encoded alone arrives, the latest host is served, the daemon does not go deaf | three connections, so that one can be replaced while a thread still sends to another and a descriptor is used again; a frame of the worker, a longer one of the interrupt thread, answers of the main thread; partial sends of no cell and of two; one command, close or abort |

All bounds are constants named `Max...` or stated in the configuration. Time bounds are small
multiples of the timers so that each timer expires, is reset and expires again. Where deadlock is
not checked (Radio, Split, Link, Setup, HostOut), the system comes to rest when the bounds are used up.

### Violations

Each of these runs checks one statement of a comment or of the README, and TLC shows the code doing
otherwise; the quotations are in `findings`.

| run | what happens |
|---|---|
| `lbt_difs` | A carrier clears `tx_enable`, so the worker skips the branch that would restart DIFS; when the medium is free again, `medium_free_since` is old and the packet goes out without DIFS. |
| `lbt_flush` | `flushing` is set before the contended packet is sent. If that was the only packet, it stays set, and a packet queued much later goes out at once. |
| `radio_stale` | A tail kept from a hung transmission is sent after a raw packet, as promiscuous mode does not clear `len_tx`. |

### What the passing runs rest on

Some of the passing properties hold only in the circumstances their configuration describes.
Changing constants shows why; the property named is the one to check alone (others may fail
before it).

| change | property violated | what happens |
|---|---|---|
| `Flush = TRUE` in `radio.cfg` | `TxNotAborted`, `RfSwitch` | In flush mode the worker may start a packet between the moment the interrupt thread publishes `RX_CONTINUOUS` and its `set_rx` command, which then aborts the packet. |
| `Lag = TRUE` in `radio.cfg` | `NoCorruptDelivery`, `RfSwitch`, `TxNotAborted`, `HalvesTogether` | The interrupt thread is still busy with one event when the next comes: the flags of a damaged packet are read with those of a good one, and its request to receive falls into the next frame. |
| `MaxRestart = 1` in `radio.cfg` | `RfSwitch`, `TxNotAborted`, `HalvesTogether` | `CMD_RADIO_STATE` resets the chip while the other threads use it. |
| `MaxPromisc = 2` in `radio.cfg` | `HalvesTogether` | The stale tail of `radio_stale`. |
| `Lag = TRUE` in `radio.cfg`, `MaxSend = 0` | `InterruptsServed` | If a second flag rises before the first is cleared, DIO1 never falls, its edge never comes again, and the node is deaf until it next transmits. |
| `Fresh = FALSE` in `split.cfg` | `GivenIsGenuine` | Two packets with the same four random bits have their parts joined. |
| `MaxClient = 2` in `link.cfg` | `PassedInOrder` | The start of the last frame of the client before is passed on as a frame when a new client starts its first. |
| `Period = 5` in `airtime.cfg` | `AirtimeExact` | `queue_worker` samples every 25 ms at most, not every `STATUS_INTERVAL_MS`: updates come every 8.3 s or later, bins are 7.5 s long, some are never cleared, and airtime an hour old is counted again. A transmission that outlasts a bin does the same. The lock still opens again. |
| `Width = 6`, `Cost = {1, 7}`, `Limit = 0`, `LongLimit = 8` in `airtime.cfg` | `DutyCycle` | A packet of more than 65.5 s (SF12 at 7.8 kHz) wraps its 16-bit bin, and the long-term lock stays open. With bins wide enough the same instance keeps its limits. |
| `Period = 9`, `LongLimit = 0`, `Width = 7` in `airtime.cfg` | `DutyCycle` | Bins that are never cleared add up over the hours and wrap. With `LongLimit = 5` they cannot: the lock closes before. |
| `MaxBusy = 2` in `setup.cfg` | `LossReported` | `wait_on_busy` has sent its error to the host, but `recovering` is still set (sx126x/sx126x.c:151): a second timeout, on another thread, returns at once, its command is lost, and nobody is told. |
| add `DeliversWhatItHeard` to `radio.cfg` | `DeliversWhatItHeard` | Transmission and reception share the chip's buffer. `tx_enable` is set before the received packet is read from it; a transmission writes over it, and the host is given its own packet. It takes a packet whose DIFS and window have passed, which `lbt_difs` makes possible. |
| `Value = {1, 5}`, `MaxPower = 8` in `setup.cfg` | `HostKnows` | The driver takes the preamble length as a `uint8_t`; the host is told the 16-bit one. |
| add `SteadyWhileSending` to `setup.cfg` | `SteadyWhileSending` | A command of the host writes its register while a frame is on the air. |
| add `OffIsSilent` to `setup.cfg` | `OffIsSilent` | `CMD_RADIO_STATE` off clears `radio_online` and nothing else: the worker sends what is queued. |
| add `NeverMixed` to `host_out.cfg` | `NeverMixed` | Two threads in `kiss_encode` at once send a mixture of their frames. |
| add `OneClient` to `host_out.cfg` | `OneClient` | A thread whose `send` failed closes and clears `client_fd` after `tcp_read` has stored the next client in it. That client stays connected and is never read from or written to, while a third may connect; the README of the repository says "Only one TCP client is accepted at a time" (README.md:26). |
| add `Survives` to `host_out.cfg` | `Survives` | The second `send` after the host has closed its connection raises SIGPIPE, which the daemon does not ignore. |

### Fairness

Weak fairness of each thread's next step: all three are operating-system threads that block only on
the two mutexes, on a DIO1 edge, on `select` with a timeout and in `usleep`. Of the world, time
passes (`Tick`), and a transmission of the chip ends or hangs (`TxDone`); frames of others, packets
of the host, restarts and mode changes are never promised. In `queue` the airtime lock must not
hold a packet back for ever: that it does not is `LockOpens` of Airtime.

## 4. What is proved

Proofs are in the modules named `...Proofs`; each holds for all values of the constants under the
assumptions named in the module it extends, and under the hypotheses its row gives.

| theorem | statement | argument |
|---|---|---|
| TxQueueProofs!`TypeCorrect` | `Spec => []TypeOK` | part of `IInv` |
| TxQueueProofs!`MemorySafeHolds`, `PopsWhatItSentHolds` | the list is the queued packets, no linked node is freed or shared; the node popped is the one sent | `IInv`: the mutex is held exactly in the critical sections (`MutexHeld`), only the worker removes nodes (`WorkerHasPacket`), and the list is as long as packets accepted and not yet unlinked (`AirCount`) |
| TxQueueProofs!`DepthCorrect` | `Spec => []DepthMatches` | the counter is the length modulo its width, shifted by one inside each critical section (`DepthCount`), with lemmas on counting modulo a width |
| TxQueueProofs!`ReadyHoldsAlways` | `Spec => []ReadyHolds` | `ReadyStands`: while the answer stands, what the queue may still grow by before it is taken back is known in each state of the main thread; the counter does not wrap, so the depth compared is the length |
| TxQueueProofs!`FifoImplemented` | `Spec => ImplementsFifo` | every step maps to a push, a send or a stutter; the airtime lock's hold-back to a stutter |
| LbtProofs!`NeverWedgedHolds` | `Spec => []NeverWedged` | `Wedge` says which thread is between which stores whenever `dcd` and `tx_enable` are both up. The order of the stores matters, in both threads |
| LbtProofs!`BacksOffHolds` | `Spec => BacksOff` | no timer ever lies before the last transmission |
| LbtProofs!`CwProgressHolds` | `Spec => CwProgressKept` | the timers are ordered (`Timers`), so each round adds a duration that is not negative |
| LbtProofs!`TypesHold` | `Spec => []TypeOK` | what is between two stores of a thread (`Flags`), and no timer ahead of the clock (`Timers`) |
| SplitProofs!`TypesHold`, `GivenOnceHolds` | whatever the numbers: a part is stored exactly while its number is waited for, and no frame is given twice | frames given were sent (`GivenSent`), what is stored was not given yet (`StoredNotGiven`), and no frame is sent twice (`Counted`, `Owed`) |
| SplitProofs!`GenuineHolds` | with `Fresh`: `Spec => []GivenIsGenuine` | a stored part and the one that completes it carry one number, so they are of one packet (`SeqUnique`); a tail is sent once and after its head (`Owed`), so the stored one is the head |
| SplitProofs!`CompletesHolds` | with `Fresh`: `Spec => Completes` | a head heard last is still what is stored (`HeardStored`) |
| RadioProofs!`TypesHold` | `Spec => []TypeOK` | each program counter has its labels and each routine a goal and a frame (`ThreadType`); of the flags of a status word one comes first |
| RadioProofs!`NoCorruptHolds` | with `~Lag`: `Spec => []NoCorruptDelivery` | the interrupt thread has read every flag that is up (`OneEvent`), so it knows of a damaged packet what the chip knows (`CrcSeen`) |
| RadioProofs!`RfSwitchHolds`, `TxNotAbortedHolds` | with `~Lag`, `~Flush`, `MaxRestart = 0`: the antenna is at the transmitter whenever the chip transmits; no transmission is cut short | `Exclusive`: one thread at a time is in the driver's request routines. The worker starts only when the interrupt thread has done with the last frame (`AfterFrame`, `WorkerStarts`), and restarts only when there is no interrupt to come (`WorkerRestarts`) |
| RadioProofs!`HalvesTogetherHolds` | with these and `MaxPromisc = 0`: `Spec => HalvesTogether` | `Halves`: the five stages of a split packet, from a head in the air to a tail in the air, and where `len_tx` is in each |
| LinkProofs!`TypesHold` | `Spec => []TypeOK` | an escape does not stand for itself, so what is collected is bytes; a frame that would fill the buffer empties it |
| LinkProofs!`PassedInOrderHolds` | `Spec /\ [][~CutOff]_vars => []PassedInOrder` | every byte on its way has a place in the frames written, the next byte the next place (`OnItsWay`), and the decoder holds what the bytes of its frame before that place unescape to, or has lost the frame (`Seen`); the frames passed on are then earlier ones, in order (`InOrder`) |
| LinkProofs!`LosslessHolds` | `Spec /\ [][~CutOff]_vars => []Lossless` | if all frames fit, those before the place of the next byte are passed on (`AllSoFar`); one that is written when all is quiet is decoded from its first delimiter, also after an overflow (`LastSoFar`) |
| LinkProofs!`OneClientHolds` | with `MaxClient =< 1`: `Spec => [](PassedInOrder /\ Lossless)` | the first client replaces nobody, and before it nothing is written |
| HostOutProofs!`TypesHold`, `NeverDeafHolds` | a closed descriptor is never left as the client | `Repaired`: whenever `client_fd` is closed, a thread is on its way to clear or overwrite it |
| HostOutProofs!`LatestServedHolds` | `Spec => []LatestServed` | while no two threads have met at `client_fd` (`Alone`), the descriptor of the latest client is where it belongs (`Held`) or is being dropped with cause (`Dropped`); a new descriptor is none that is in use (`Fresh`, being the least free one) |
| HostOutProofs!`LoneFramesHold` | `Spec => []LoneFramesWhole` | `Clean`: what a thread that is alone in `kiss_encode` has written so far is the beginning of its frame |
| SetupProofs!`TypesHold` | `Spec => []TypeOK` | a register is written from an argument read before (`Ready`), and what a thread has still to do has one of few shapes (`Shape`), however many recoveries were put in front of it |
| SetupProofs!`TimingHolds` | `Spec => []TimingFollows` | a thread that changed the modulation has still to compute the timing (`TimingPending`) |
| SetupProofs!`LossReportedHolds` | `Spec /\ [][~Skipped]_vars => []LossReported` | `Loss`: for each register that is lost, its write or an error is still ahead on some thread, and a start that is under way writes all of them |
| SetupProofs!`HostKnowsHolds` | with `Fits`: `Spec => []HostKnows` | `Knows`: while no command overlaps another thread's work (`Alone`), a recovery ends in an error to the host (`Honest`), and what is not yet written or answered is still ahead (`AllSet`, `Answered`) |
| AirtimeProofs!`TypesHold` | `Spec => []TypeOK` | the sums are natural numbers, and the window band is one of four (`BandIs`) |
| AirtimeProofs!`DutyCycleHolds` | with `Capped` or `Regular`: `Spec => DutyCycle` | `Duty`: no bin but the next holds less than what was sent in it (`Over`), and the lock looks at the sum of all (`Behind`), so it errs on the safe side only, as long as no bin wraps (`NoWrap`) |
| AirtimeProofs!`AirtimeExactHolds` | with `Regular`: `Spec => []AirtimeExact` | `Reg`: the next bin is clear, or an update that clears it comes before the current one ends (`Cleared`, `OnTime`) |

### The hypotheses

TLC finds each of the first five necessary (section 3), but for `~Flush` in `HalvesTogetherHolds`,
which it does not refute for up to four sends: the invariant, not the property, needs it there.

* `~Lag`: the interrupt thread is done with one event before the next. Events of the chip lie
  milliseconds apart, what the thread does takes less, unless the scheduler holds it up.
* `~Flush`: the queue is not in flush mode, in which the worker does not wait.
* `MaxRestart = 0`, `MaxPromisc = 0`: from the start of the radio on; the host does not restart it
  or change its mode while frames are sent.
* `[][~Skipped]_vars`: no command runs into a BUSY timeout while another one is in its recovery.
* `[][~CutOff]_vars`: no client is replaced while something it wrote is unread. The code closes the
  connection of the client before without reading it to the end (section 3, `MaxClient = 2`).
* `Fits`: the values the host sets fit the driver's types and limits. A longer preamble does not
  (section 3); the others do.
* `Capped`: a long-term limit is set, and it and the longest packet together fit 16 bits of
  milliseconds. A limit of 1 % is 36 s, and leaves 29.5 s for a packet, which only the slowest
  modulations exceed.
* `Regular`: samples that end in an update, and a packet on top of them, take no longer than a bin,
  and a bin and a packet fit 16 bits. The code does not keep to it: its updates come every 8.3 s at
  the earliest, its bins are 7.5 s long. `AirtimeExactHolds` says what the code would do with
  `STATUS_INTERVAL_MS` between samples, as its constants intend, and packets short enough; what
  `DutyCycleHolds` says of the code as it is rests on `Capped`.

### How

The properties are not inductive by themselves: that the popped node is the sent one needs that
nobody but the worker removes nodes, that a split packet is genuine needs to know what was sent,
that the daemon does not go deaf needs to know, of every thread between its test and its clear
of `client_fd`, that it is still at work, and that the antenna is right needs to know which of two
threads may be in the driver. TLC has checked the strengthened invariants on the instances of the
runs (those of SetupProofs with one command in place of two).

The theorems on induction of the library take an operator as a parameter, which no prover here can
instantiate. Where a proof needs one it goes by the least counterexample: `LeastNumber` and `LeastSet`
of AirtimeProofs, from the library's well-foundedness of `<` on numbers, give a smallest set of bins
whose sum is not what a lemma says it is, and one bin less contradicts it. HostOutProofs has the
first cell after which a host's decoder, given a frame whole, holds anything but its beginning.
LinkProofs uses it to unfold `FlattenSeq`, which the library defines by a recursive function, and to
find in an encoding, for each byte, what the decoder has of the frame when it comes to it.

A step whose proof would need the definitions of all actions at once is split into groups of them
(`StepLeaves` and `StepTakes` of SetupProofs, `SendLeaves` of HostOutProofs): what is common to a
group is a lemma, and the proofs that follow cite it and not the definitions.

### Only model-checked

* All liveness properties (`TxReenabled`, `TxEnds`, `Listens`, `Recovers`, `InterruptsServed`,
  `LockOpens`, `ImplementsFairFifo`): temporal reasoning with ENABLED is out of TLAPS's reach.

Every invariant and every action property that a passing run checks is stated by a theorem. Where
the hypotheses of one do not hold, section 3 shows what TLC finds instead.

## 5. What is not modelled

* The antenna switch during a restart by the host. `sx126x_begin` and `switch_ant` on two threads
  can leave both paths on until the next switch, so `radio_restart` checks `Recovers` and not
  `Listens`. A restart in the middle of a send can also leave the driver believing that it receives
  while the chip transmits; should that transmission hang, nothing would end it, so the run has none.
* The noise floor: interference is a flag that may rise and fall at every sample in Lbt. The average
  behind it is a float over a ring that is sampled anew, after interference has lasted, from where
  it stands and with the old samples in it (src/csma.c:213); and whether the number read is the RSSI
  at all is a question about the chip: `get_current_rssi` takes the first byte of the reply, where
  `get_packet_status` skips one, and passes it through an `int8_t` (sx126x/sx126x.c:421).
* Lengths of packets, of the limits on them and of the buffers they go into; `HostOut` assumes frames
  that fit.
* Formulas: slots and DIFS from the modulation, air time, encodings of registers, the long-term
  channel utilisation. They are arithmetic on floats, and constants where a model needs them.
  The timeouts of false preambles and of transmissions are constants of Lbt, though the code computes
  the former in `rnode_start` only and so keeps old ones when the modulation changes
  (src/rnode.c:662), and the limits of the airtime lock are numbers, though the code truncates floats
  (src/rnode.c:473).
* Commands that only report, and the SHA-256 of the device hash: they change no state. The cases from
  `CMD_BLINK` to `CMD_WIFI_NM` fall through to the device hash (src/rnode.c:788): a table, with
  nothing to explore.
* Start-up and configuration, the set-up of GPIO and SPI: straight lines that end the process where a
  step fails. `tcp_init` is one of them.

## 6. Plan

Done: the core (queue, listen before talk, radio, data path), the link to the host in both
directions, the setting up of the radio with its failures, and airtime accounting.

1. A composition of TxQueue and Lbt with Radio's abstraction, in which `queue`'s assumption on
   the lock and Radio's `MaySend` become facts.
2. Lengths of packets, with the limits of `buf_tx` and `uint8_t`, and the noise floor as a model of
   its own once its scale is settled.
3. A proof of `HalvesTogether` in flush mode, which TLC does not refute. The invariant of section 4
   rests on two threads never being in the driver at once, which flush mode gives up.
