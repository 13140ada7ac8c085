------------------------------ MODULE HostOut -------------------------------
(***************************************************************************)
(* Frames to the host: kiss_encode (kiss.c) fills the one buf_out, and     *)
(* tcp_send (tcp.c) sends it to client_fd.  Three threads call them: main  *)
(* answers the host, the worker reports, the interrupt thread passes on    *)
(* the packets received.  None takes a lock, while tcp_read, in main,      *)
(* accepts, replaces and drops the client.                                 *)
(*                                                                         *)
(* Each cell of buf_out is written by a step of its own.  client_fd is     *)
(* read once for the test and the send, and again for the close.  A file   *)
(* descriptor is a number, and accept returns the least that is free; 0 is *)
(* the standard input's.  The sockets, and the host with its decoder, are  *)
(* external: send takes all of a frame, part of it or nothing; after the   *)
(* host has gone it succeeds once, then raises SIGPIPE, which ends the     *)
(* program.                                                                *)
(***************************************************************************)
EXTENDS Naturals, Sequences, FiniteSets

CONSTANTS MaxConn,   \* bound: connections the hosts make
          MTU,       \* the cells of buf_out
          Size,      \* Size[t]: the cells of the frames thread t sends
          Fend,      \* the cell that bounds a frame
          None,      \* no connection; the end of a file descriptor that is closed
          Stdin,     \* what file descriptor 0 is at first
          Cut,       \* bound: where a frame may be cut that send takes in part; 0 is EAGAIN
          MaxFrame,  \* bound: MaxFrame[t]: frames of thread t
          MaxHost    \* bound: commands the hosts write, and connections they close or abort

Thread == {"main", "worker", "irq"}
Conn == 1..MaxConn
Fd == 0..MaxConn

ASSUME HostOutAssumption ==
    /\ MaxConn \in Nat \ {0} /\ None \notin Nat /\ Stdin \notin Nat
    /\ MTU \in Nat /\ \A t \in Thread : Size[t] + 2 =< MTU
    /\ Size \in [Thread -> Nat \ {0}] /\ MaxFrame \in [Thread -> Nat] /\ Cut \subseteq Nat
    /\ MaxHost \in Nat /\ Fend \notin Thread

VARIABLES
    buf_out,    \* kiss.c: the cells
    client_fd,  \* tcp.c: 0 is no client
    pc,         \* per thread: where it is in kiss_encode and tcp_send
    index,      \* per thread: the cell it writes next
    fd,         \* per thread: the client_fd it is sending to
    at,         \* where main is in tcp_read
    ready,      \* main: readfds after select
    new_fd,     \* main: what accept has returned
    owner,      \* the kernel: what each file descriptor is
    link,       \* per connection: "free", "open", "fin", "err" (aborted) or "rst"
    backlog,    \* connections not accepted yet, in order
    data,       \* connections with something to read
    part,       \* per connection: cells its host has got since the last Fend
    alive,      \* the program has not been ended by SIGPIPE
    spoiled,    \* history: a host did not decode a clean frame it was sent whole
    clean,      \* history: no other thread has written a cell during the thread's frame
    latest,     \* history: the connection accepted last
    raced,      \* history: since then two threads have been at client_fd together
    budget      \* what is left of each bound

encoder == <<buf_out, index, clean>>
reader == <<at, ready, new_fd>>
kernel == <<owner, link, backlog, data>>
vars == <<encoder, client_fd, pc, fd, reader, kernel, part, alive, spoiled, latest, raced, budget>>

Length(t) == Size[t] + 2
Cells == 1..MTU
Payload(t) == [i \in 1..Size[t] |-> t]

Init ==
    /\ buf_out = [i \in Cells |-> Fend]
    /\ client_fd = 0
    /\ pc = [t \in Thread |-> "idle"] /\ index = [t \in Thread |-> 1]
    /\ fd = [t \in Thread |-> 0]
    /\ at = "select" /\ ready = {} /\ new_fd = 0
    /\ owner = [n \in Fd |-> IF n = 0 THEN Stdin ELSE None]
    /\ link = [c \in Conn |-> "free"] /\ backlog = <<>> /\ data = {}
    /\ part = [c \in Conn |-> <<>>]
    /\ alive = TRUE
    /\ spoiled = FALSE /\ clean = [t \in Thread |-> FALSE]
    /\ latest = None /\ raced = FALSE
    /\ budget = [frame |-> MaxFrame, host |-> MaxHost]

(***************************************************************************)
(* The hosts.                                                              *)
(***************************************************************************)
Connect(c) ==
    /\ link[c] = "free" /\ (\A d \in 1..(c - 1) : link[d] # "free")
    /\ link' = [link EXCEPT ![c] = "open"]
    /\ backlog' = Append(backlog, c)
    /\ UNCHANGED <<encoder, client_fd, pc, fd, reader, owner, data, part, latest, budget>>

HostWrites(c) ==
    /\ link[c] = "open" /\ c \notin data
    /\ budget.host > 0 /\ budget' = [budget EXCEPT !.host = @ - 1]
    /\ data' = data \cup {c}
    /\ UNCHANGED <<encoder, client_fd, pc, fd, reader, owner, link, backlog, part, latest>>

(* The host closes its connection, or aborts it.                           *)
Leave(c) ==
    /\ link[c] = "open"
    /\ budget.host > 0 /\ budget' = [budget EXCEPT !.host = @ - 1]
    /\ \E how \in {"fin", "err"} : link' = [link EXCEPT ![c] = how]
    /\ part' = [part EXCEPT ![c] = <<>>]
    /\ UNCHANGED <<encoder, client_fd, pc, fd, reader, owner, backlog, data, latest>>

-----------------------------------------------------------------------------
(***************************************************************************)
(* kiss_encode and tcp_send, in any thread.                                *)
(***************************************************************************)
Goto(t, where) == pc' = [pc EXCEPT ![t] = where]

(* A slip to check against: the frame has no Fend before it, but two after. *)
CellNoFend(t, i) == IF i > Size[t] THEN Fend ELSE t

(* What a thread puts into cell i.                                         *)
Cell(t, i) == IF i \in {1, Length(t)} THEN Fend ELSE t

(* kiss_encode is called, and writes its first cell.                       *)
Begin(t) == /\ pc[t] = "idle"
            /\ buf_out' = [buf_out EXCEPT ![1] = Cell(t, 1)]
            /\ index' = [index EXCEPT ![t] = 2]
            /\ Goto(t, "encode")
            /\ clean' = [u \in Thread |-> u = t]

(* The worker reports, or the interrupt thread passes a packet on.         *)
Report(t) ==
    /\ t # "main"
    /\ Begin(t)
    /\ budget.frame[t] > 0 /\ budget' = [budget EXCEPT !.frame[t] = @ - 1]
    /\ UNCHANGED <<client_fd, fd, reader, kernel, part, latest>>

(* A slip to check against: the index is not reset at the end of a frame.  *)
EncodeOn(t) ==
    /\ pc[t] = "encode"
    /\ buf_out' = [buf_out EXCEPT ![index[t]] = Cell(t, index[t])]
    /\ Goto(t, IF index[t] = Length(t) THEN "test" ELSE "encode")
    /\ index' = [index EXCEPT ![t] = @ + 1]
    /\ clean' = [u \in Thread |-> u = t /\ clean[t]]
    /\ UNCHANGED <<client_fd, fd, reader, kernel, part, latest, budget>>

Encode(t) ==
    /\ pc[t] = "encode"
    /\ buf_out' = [buf_out EXCEPT ![index[t]] = Cell(t, index[t])]
    /\ IF index[t] = Length(t)
       THEN Goto(t, "test") /\ index' = [index EXCEPT ![t] = 1]
       ELSE Goto(t, "encode") /\ index' = [index EXCEPT ![t] = @ + 1]
    /\ clean' = [u \in Thread |-> u = t /\ clean[t]]
    /\ UNCHANGED <<client_fd, fd, reader, kernel, part, latest, budget>>

Test(t) ==
    /\ pc[t] = "test"
    /\ IF client_fd > 0 THEN Goto(t, "send") /\ fd' = [fd EXCEPT ![t] = client_fd]
                        ELSE Goto(t, "idle") /\ UNCHANGED fd
    /\ UNCHANGED <<encoder, client_fd, reader, kernel, part, latest, budget>>

(* What the host of c makes of n cells: a Fend ends a frame that is not    *)
(* empty.                                                                  *)
Decode(c, n) ==
    LET d[i \in 0..n] ==
          IF i = 0 THEN [part |-> part[c], frame |-> <<>>]
          ELSE IF buf_out[i] # Fend THEN [d[i - 1] EXCEPT !.part = Append(@, buf_out[i])]
          ELSE [part |-> <<>>,
                frame |-> IF d[i - 1].part = <<>> THEN d[i - 1].frame ELSE d[i - 1].part]
    IN d[n]

(* send takes n cells; what it does not take is not sent again.            *)
Taken(t, c, n) ==
    /\ part' = [part EXCEPT ![c] = Decode(c, n).part]
    /\ spoiled' = (spoiled \/ (clean[t] /\ n = Length(t) /\ Decode(c, n).frame # Payload(t)))
    /\ Goto(t, "idle")

Sends(t, c) ==
    /\ c \in Conn /\ link[c] = "open"
    /\ \E n \in {k \in Cut : k < Length(t)} \cup {Length(t)} : Taken(t, c, n)
    /\ UNCHANGED <<link, alive>>

SendFails(t, c) ==
    /\ \/ /\ c \in Conn /\ link[c] = "fin"
          /\ link' = [link EXCEPT ![c] = "rst"]
          /\ Goto(t, "idle")
          /\ UNCHANGED alive
       \/ /\ c \in Conn /\ link[c] = "rst"
          /\ alive' = FALSE
          /\ UNCHANGED <<pc, link>>
       \/ /\ IF c \in Conn THEN link[c] = "err" /\ link' = [link EXCEPT ![c] = "rst"]
                           ELSE UNCHANGED link
          /\ Goto(t, "close")
          /\ UNCHANGED alive
    /\ UNCHANGED <<part, spoiled>>

Send(t) ==
    /\ pc[t] = "send"
    /\ Sends(t, owner[fd[t]]) \/ SendFails(t, owner[fd[t]])
    /\ fd' = [fd EXCEPT ![t] = 0] /\ clean' = [clean EXCEPT ![t] = FALSE]
    /\ UNCHANGED <<buf_out, index, client_fd, reader, owner, backlog, data, latest, budget>>

Closed(n) == owner' = [owner EXCEPT ![n] = None]

SendCloses(t) ==
    /\ pc[t] = "close"
    /\ Closed(client_fd)
    /\ Goto(t, "clear")
    /\ UNCHANGED <<encoder, client_fd, fd, reader, link, backlog, data, part, latest, budget>>

SendClears(t) ==
    /\ pc[t] = "clear"
    /\ client_fd' = 0
    /\ Goto(t, "idle")
    /\ UNCHANGED <<encoder, fd, reader, kernel, part, latest, budget>>

-----------------------------------------------------------------------------
(***************************************************************************)
(* tcp_read, in main.                                                      *)
(***************************************************************************)
Go(where) == at' = where /\ UNCHANGED <<encoder, pc, fd, part>>

Readable == {n \in {client_fd} \ {0} : owner[n] \in data \/ link[owner[n]] # "open"}

(* select fails where client_fd is closed, and tcp_read returns.           *)
Select ==
    /\ at = "select" /\ pc["main"] = "idle"
    /\ client_fd > 0 => owner[client_fd] \in Conn
    /\ backlog # <<>> \/ Readable # {}
    /\ ready' = Readable
    /\ Go(IF backlog # <<>> THEN "accept" ELSE "read")
    /\ UNCHANGED <<client_fd, new_fd, kernel, latest, budget>>

Free == {n \in Fd : owner[n] = None}

Accept ==
    /\ at = "accept"
    /\ new_fd' \in Free /\ \A n \in Free : new_fd' =< n
    /\ latest' = Head(backlog) /\ owner' = [owner EXCEPT ![new_fd'] = latest']
    /\ backlog' = Tail(backlog)
    /\ Go("replace")
    /\ UNCHANGED <<client_fd, ready, link, data, budget>>

Replace ==
    /\ at = "replace"
    /\ IF client_fd > 0 THEN Closed(client_fd) ELSE UNCHANGED owner
    /\ Go("store")
    /\ UNCHANGED <<client_fd, ready, new_fd, link, backlog, data, latest, budget>>

(* A slip to check against: a client that is there is kept.                *)
StoreKeeps ==
    /\ at = "store"
    /\ client_fd' = (IF client_fd > 0 THEN client_fd ELSE new_fd) /\ new_fd' = 0
    /\ at' = "read"
    /\ Begin("main")
    /\ UNCHANGED <<fd, ready, kernel, part, latest, budget>>

(* The new client is told of a reset: rnode_indicate_reset.                *)
Store ==
    /\ at = "store"
    /\ client_fd' = new_fd /\ new_fd' = 0
    /\ at' = "read"
    /\ Begin("main")
    /\ UNCHANGED <<fd, ready, kernel, part, latest, budget>>

(* A command is answered.  Anything but data drops the client: the end,    *)
(* an error, and the EAGAIN of a descriptor that select meant another by.  *)
Read ==
    /\ at = "read" /\ pc["main"] = "idle"
    /\ IF client_fd = 0 \/ client_fd \notin ready
       THEN Go("select") /\ UNCHANGED data
       ELSE IF owner[client_fd] \in data
       THEN /\ data' = data \ {owner[client_fd]}
            /\ at' = "select" /\ Begin("main")
            /\ UNCHANGED <<fd, part>>
       ELSE Go("close") /\ UNCHANGED data
    /\ ready' = {}
    /\ UNCHANGED <<client_fd, new_fd, owner, link, backlog, latest, budget>>

(* A slip to check against: the client dropped stays the client.           *)
ReadKeeps ==
    /\ at = "close"
    /\ Closed(client_fd)
    /\ Go("select")
    /\ UNCHANGED <<client_fd, ready, new_fd, link, backlog, data, latest, budget>>

ReadCloses ==
    /\ at = "close"
    /\ Closed(client_fd)
    /\ Go("clear")
    /\ UNCHANGED <<client_fd, ready, new_fd, link, backlog, data, latest, budget>>

ReadClears ==
    /\ at = "clear"
    /\ client_fd' = 0
    /\ Go("select")
    /\ UNCHANGED <<ready, new_fd, kernel, latest, budget>>

-----------------------------------------------------------------------------
(* The threads that are about to use client_fd, or to change it.           *)
Using == {t \in Thread : pc[t] \in {"send", "close", "clear"}}
           \cup (IF at \in {"replace", "store", "close", "clear"} THEN {"main"} ELSE {})

Watch == raced' = IF latest' # latest THEN Using # {}
                  ELSE raced \/ Cardinality(Using') > 1

Main == Select \/ Accept \/ Replace \/ Store \/ Read \/ ReadCloses \/ ReadClears
Sending(t) == Encode(t) \/ Test(t) \/ SendCloses(t) \/ SendClears(t)
Host == \E c \in Conn : Connect(c) \/ HostWrites(c) \/ Leave(c)

(* An action that sends nothing, and does not end the program.             *)
Other(act) == act /\ UNCHANGED <<alive, spoiled>>

Act == \/ Other(Host) \/ Other(Main)
       \/ \E t \in Thread : Send(t) \/ Other(Report(t)) \/ Other(Sending(t))

Next == alive /\ Act /\ Watch

Spec == Init /\ [][Next]_vars

-----------------------------------------------------------------------------
(* Every variable has its type.                                            *)
TypeOK ==
    /\ buf_out \in [Cells -> Thread \cup {Fend}]
    /\ client_fd \in Fd /\ new_fd \in Fd /\ ready \subseteq Fd
    /\ pc \in [Thread -> {"idle", "encode", "test", "send", "close", "clear"}]
    /\ index \in [Thread -> Cells] /\ fd \in [Thread -> Fd]
    /\ at \in {"select", "accept", "replace", "store", "read", "close", "clear"}
    /\ owner \in [Fd -> Conn \cup {None, Stdin}]
    /\ link \in [Conn -> {"free", "open", "fin", "err", "rst"}]
    /\ backlog \in Seq(Conn) /\ data \subseteq Conn /\ DOMAIN part = Conn
    /\ alive \in BOOLEAN /\ raced \in BOOLEAN /\ clean \in [Thread -> BOOLEAN]
    /\ spoiled \in BOOLEAN /\ latest \in Conn \cup {None}

(* A frame no other thread has written over, and which send took whole, is *)
(* decoded by the host, whatever part or mixture of frames went before it. *)
LoneFramesWhole == ~spoiled

(* Whatever went wrong before, the host that connected last is the client  *)
(* as long as its connection is open, unless two threads have been at      *)
(* client_fd together since it was accepted, or accept returned 0.         *)
LatestServed ==
    at = "select" /\ latest # None /\ ~raced /\ Using = {} =>
        \A n \in Fd \ {0} : owner[n] = latest => client_fd = n

(* The daemon does not go deaf: whatever races there were at client_fd,    *)
(* once every thread is done with it select can be called on it.           *)
NeverDeaf ==
    at = "select" /\ (\A t \in Thread : pc[t] = "idle") =>
        client_fd = 0 \/ owner[client_fd] \in Conn

(* Not checked by a run; see the README: only one client at a time.        *)
OneClient == at = "select" => \A n \in Fd : owner[n] \in Conn => client_fd = n

(* Not checked by a run; see the README: what a thread sends is its frame. *)
NeverMixed == \A t \in Thread : pc[t] = "send" =>
                  \A i \in 1..Length(t) : buf_out[i] = Cell(t, i)

(* Not checked by a run; see the README: a host cannot end the program.    *)
Survives == alive
=============================================================================
