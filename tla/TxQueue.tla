------------------------------ MODULE TxQueue -------------------------------
(***************************************************************************)
(* The transmit queue of queue.c: a singly linked list that the main       *)
(* thread appends to (queue_push) and queue_worker takes from              *)
(* (send_packet), under one mutex that both release and take again in the  *)
(* middle of their work.  One action per step that another thread can see: *)
(* the code between two mutex operations is split where it writes shared   *)
(* memory in an order that matters.                                        *)
(*                                                                         *)
(* Memory is a set of nodes.  malloc gives a node whose next pointer holds *)
(* whatever was there (queue_push never sets it), free takes it back.      *)
(* When the worker decides to call send_packet is the business of Lbt; here *)
(* it may do so at any time.                                               *)
(***************************************************************************)
EXTENDS Naturals, Sequences

CONSTANTS Packet,      \* what a packet may carry
          Node,        \* the addresses malloc hands out
          Nil,         \* the null pointer
          Garbage,     \* the content of memory nobody has written
          DepthMod,    \* one more than the largest queue_depth (a uint16_t)
          ReadyDepth,  \* CONFIG_QUEUE_MAX_LENGTH
          MaxPush      \* bound: packets the host hands over in a behaviour

ASSUME PointerAssumption == Nil \notin Node /\ Garbage \notin Node \cup Packet
ASSUME BoundAssumption ==
    MaxPush \in Nat /\ ReadyDepth \in Nat /\ DepthMod \in Nat \ {0}

VARIABLES
    head, tail, next, data, \* the list and the memory it is made of
    live,                   \* the nodes malloc has given out
    mux,                    \* who holds the mutex: "none", "main" or "worker"
    queue_depth,
    main_pc, main_item,     \* queue_push and queue_get_depth
    worker_pc, worker_item, \* send_packet
    ready,                  \* the last CMD_READY answer, until the next push
    list,                   \* history: the nodes linked in, in order
    accepted, air           \* history: packets queued, packets transmitted

memory == <<head, tail, next, data, live>>
main == <<main_pc, main_item, ready>>
worker == <<worker_pc, worker_item>>
vars == <<memory, mux, queue_depth, main, worker, list, accepted, air>>

Init ==
    /\ head = Nil /\ tail = Nil
    /\ next = [n \in Node |-> Garbage] /\ data = [n \in Node |-> Garbage]
    /\ live = {}
    /\ mux = "none"
    /\ queue_depth = 0
    /\ main_pc = "idle" /\ main_item = Nil /\ ready = FALSE
    /\ worker_pc = "idle" /\ worker_item = Nil
    /\ list = <<>> /\ accepted = <<>> /\ air = <<>>

(***************************************************************************)
(* The main thread: queue_push, and queue_get_depth for CMD_READY.         *)
(***************************************************************************)
PushAlloc(n, p) ==
    /\ main_pc = "idle"
    /\ Len(accepted) < MaxPush
    /\ n \notin live
    /\ live' = live \cup {n}
    /\ data' = [data EXCEPT ![n] = p]
    /\ main_item' = n
    /\ main_pc' = "push"
    /\ ready' = FALSE
    /\ UNCHANGED <<head, tail, next, mux, queue_depth, worker, list, accepted, air>>

(* A slip to check against: the mutex is not waited for.                   *)
PushLockMissing ==
    /\ main_pc = "push"
    /\ mux' = "main"
    /\ main_pc' = "link"
    /\ UNCHANGED <<memory, queue_depth, main_item, ready, worker, list, accepted, air>>

PushLock ==
    /\ main_pc = "push"
    /\ mux = "none"
    /\ mux' = "main"
    /\ main_pc' = "link"
    /\ UNCHANGED <<memory, queue_depth, main_item, ready, worker, list, accepted, air>>

(* A slip to check against: the new item becomes the head.                 *)
PushAtHead ==
    /\ main_pc = "link"
    /\ head' = main_item
    /\ next' = [next EXCEPT ![main_item] = IF head = Nil THEN Garbage ELSE head]
    /\ tail' = IF tail = Nil THEN main_item ELSE tail
    /\ list' = <<main_item>> \o list
    /\ accepted' = Append(accepted, data[main_item])
    /\ main_pc' = "count"
    /\ UNCHANGED <<data, live, mux, queue_depth, main_item, ready, worker, air>>

(* A slip to check against: tail is not moved when the list is not empty.  *)
PushTailKept ==
    /\ main_pc = "link"
    /\ IF tail = Nil
       THEN head' = main_item /\ tail' = main_item /\ next' = next
       ELSE UNCHANGED <<head, tail>> /\ next' = [next EXCEPT ![tail] = main_item]
    /\ list' = Append(list, main_item)
    /\ accepted' = Append(accepted, data[main_item])
    /\ main_pc' = "count"
    /\ UNCHANGED <<data, live, mux, queue_depth, main_item, ready, worker, air>>

PushLink ==
    /\ main_pc = "link"
    /\ \/ /\ head = Nil /\ tail = Nil
          /\ head' = main_item
          /\ next' = next
       \/ /\ ~(head = Nil /\ tail = Nil)
          /\ next' = [next EXCEPT ![tail] = main_item]
          /\ head' = head
    /\ tail' = main_item
    /\ list' = Append(list, main_item)
    /\ accepted' = Append(accepted, data[main_item])
    /\ main_pc' = "count"
    /\ UNCHANGED <<data, live, mux, queue_depth, main_item, ready, worker, air>>

PushCount ==
    /\ main_pc = "count"
    /\ queue_depth' = (queue_depth + 1) % DepthMod
    /\ mux' = "none"
    /\ main_pc' = "idle"
    /\ UNCHANGED <<memory, main_item, ready, worker, list, accepted, air>>

ReadyLock ==
    /\ main_pc = "idle"
    /\ mux = "none"
    /\ mux' = "main"
    /\ main_pc' = "depth"
    /\ UNCHANGED <<memory, queue_depth, main_item, ready, worker, list, accepted, air>>

(* A slip to check against: one packet too many.                           *)
ReadyAnswerOffByOne ==
    /\ main_pc = "depth"
    /\ ready' = (queue_depth =< ReadyDepth)
    /\ mux' = "none"
    /\ main_pc' = "idle"
    /\ UNCHANGED <<memory, queue_depth, main_item, worker, list, accepted, air>>

ReadyAnswer ==
    /\ main_pc = "depth"
    /\ ready' = (queue_depth < ReadyDepth)
    /\ mux' = "none"
    /\ main_pc' = "idle"
    /\ UNCHANGED <<memory, queue_depth, main_item, worker, list, accepted, air>>

(***************************************************************************)
(* The worker thread: send_packet.                                         *)
(***************************************************************************)
(* head is read here without the mutex.                                    *)
SendCheck ==
    /\ worker_pc = "idle"
    /\ head # Nil
    /\ worker_pc' = "look"
    /\ UNCHANGED <<memory, mux, queue_depth, main, worker_item, list, accepted, air>>

PeekLock ==
    /\ worker_pc = "look"
    /\ mux = "none"
    /\ mux' = "worker"
    /\ worker_pc' = "peek"
    /\ UNCHANGED <<memory, queue_depth, main, worker_item, list, accepted, air>>

(* A slip to check against: the mutex is kept while the packet is sent.    *)
PeekKeepsLock ==
    /\ worker_pc = "peek"
    /\ worker_item' = head
    /\ worker_pc' = "gate"
    /\ UNCHANGED <<memory, mux, queue_depth, main, list, accepted, air>>

Peek ==
    /\ worker_pc = "peek"
    /\ worker_item' = head
    /\ mux' = "none"
    /\ worker_pc' = "gate"
    /\ UNCHANGED <<memory, queue_depth, main, list, accepted, air>>

(* Slips to check against: a packet held back is dropped from the queue;   *)
(* or freed and left in it.                                                *)
AirtimeLockedDrops ==
    /\ worker_pc = "gate"
    /\ worker_pc' = "sent"
    /\ UNCHANGED <<memory, mux, queue_depth, main, worker_item, list, accepted, air>>

AirtimeLockedFrees ==
    /\ worker_pc = "gate"
    /\ worker_pc' = "idle"
    /\ live' = live \ {worker_item}
    /\ UNCHANGED <<head, tail, next, data, mux, queue_depth, main, worker_item, list, accepted, air>>

(* rnode_check_airtime_lock holds the packet back: it stays in the queue.  *)
AirtimeLocked ==
    /\ worker_pc = "gate"
    /\ worker_pc' = "idle"
    /\ UNCHANGED <<memory, mux, queue_depth, main, worker_item, list, accepted, air>>

(* rnode_to_air reads item->data with no mutex held.                       *)
ToAir ==
    /\ worker_pc = "gate"
    /\ air' = Append(air, data[worker_item])
    /\ worker_pc' = "sent"
    /\ UNCHANGED <<memory, mux, queue_depth, main, worker_item, list, accepted>>

PopLock ==
    /\ worker_pc = "sent"
    /\ mux = "none"
    /\ mux' = "worker"
    /\ worker_pc' = "pop"
    /\ UNCHANGED <<memory, queue_depth, main, worker_item, list, accepted, air>>

(* A slip to check against: the last packet is not a special case.         *)
PopNoLast ==
    /\ worker_pc = "pop"
    /\ head' = next[head]
    /\ list' = Tail(list)
    /\ worker_pc' = "free"
    /\ UNCHANGED <<tail, next, data, live, mux, queue_depth, main, worker_item, accepted, air>>

Pop ==
    /\ worker_pc = "pop"
    /\ \/ /\ head = tail
          /\ head' = Nil /\ tail' = Nil
       \/ /\ head # tail
          /\ head' = next[head]
          /\ tail' = tail
    /\ list' = Tail(list)
    /\ worker_pc' = "free"
    /\ UNCHANGED <<next, data, live, mux, queue_depth, main, worker_item, accepted, air>>

Free ==
    /\ worker_pc = "free"
    /\ live' = live \ {worker_item}
    /\ data' = [data EXCEPT ![worker_item] = Garbage]
    /\ next' = [next EXCEPT ![worker_item] = Garbage]
    /\ queue_depth' = (queue_depth + DepthMod - 1) % DepthMod
    /\ mux' = "none"
    /\ worker_pc' = "idle"
    /\ UNCHANGED <<head, tail, main, worker_item, list, accepted, air>>

-----------------------------------------------------------------------------
MainLocked == PushLink \/ PushCount \/ ReadyAnswer
Worker == PeekLock \/ Peek \/ PopLock \/ Pop \/ Free \/ SendCheck

Next ==
    \/ \E n \in Node, p \in Packet : PushAlloc(n, p)
    \/ PushLock \/ ReadyLock \/ MainLocked
    \/ Worker \/ AirtimeLocked \/ ToAir

Spec == Init /\ [][Next]_vars

(***************************************************************************)
(* Both threads keep running.  Each leaves the mutex free most of the time *)
(* (the worker sleeps a millisecond per round, the main thread waits for   *)
(* the host), so a thread waiting for it gets it; and the airtime lock is  *)
(* open again and again, since the airtime bins age out.                   *)
(***************************************************************************)
Fairness ==
    /\ WF_vars(MainLocked) /\ SF_vars(PushLock)
    /\ WF_vars(SendCheck) /\ WF_vars(Peek) /\ WF_vars(Pop) /\ WF_vars(Free)
    /\ SF_vars(PeekLock) /\ SF_vars(PopLock) /\ SF_vars(ToAir)

FairSpec == Spec /\ Fairness

-----------------------------------------------------------------------------
(* Every variable has the type of its C declaration: pointers point to     *)
(* nodes or are null, queue_depth is within its width, each thread is at a *)
(* point of its code.                                                      *)
TypeOK ==
    /\ head \in Node \cup {Nil} /\ tail \in Node \cup {Nil}
    /\ next \in [Node -> Node \cup {Garbage}]
    /\ data \in [Node -> Packet \cup {Garbage}]
    /\ live \in SUBSET Node
    /\ mux \in {"none", "main", "worker"}
    /\ queue_depth \in 0 .. DepthMod - 1
    /\ main_pc \in {"idle", "push", "link", "count", "depth"}
    /\ main_item \in Node \cup {Nil}
    /\ worker_pc \in {"idle", "look", "peek", "gate", "sent", "pop", "free"}
    /\ worker_item \in Node \cup {Nil}
    /\ ready \in BOOLEAN
    /\ list \in Seq(Node) /\ accepted \in Seq(Packet) /\ air \in Seq(Packet)

(* head, tail and the next pointers spell out exactly the packets still    *)
(* queued, whatever push and pop overlap, although queue_push never        *)
(* terminates the list: the last node's next is garbage nobody follows.    *)
ListShape ==
    /\ (list = <<>>) = (head = Nil)
    /\ (head = Nil) = (tail = Nil)
    /\ list # <<>> => head = list[1] /\ tail = list[Len(list)]
    /\ \A i \in 1 .. Len(list) - 1 : next[list[i]] = list[i + 1]

(* No linked node is freed or shared with a packet being pushed: each is   *)
(* allocated, appears once in the list, and holds the packet that was      *)
(* accepted in its place.                                                  *)
NodesIntact ==
    /\ Len(list) =< Len(accepted)
    /\ \A i \in 1 .. Len(list) :
          /\ list[i] \in live
          /\ data[list[i]] = accepted[Len(accepted) - Len(list) + i]
          /\ \A j \in 1 .. Len(list) : list[i] = list[j] => i = j
    /\ main_pc \in {"push", "link"} =>
          /\ main_item \in live
          /\ data[main_item] \in Packet
          /\ \A i \in 1 .. Len(list) : list[i] # main_item

(* Both, at every step of the two threads.                                 *)
MemorySafe == ListShape /\ NodesIntact

(* Between the unlocked use of the peeked packet and its removal the head  *)
(* of the queue is still that packet: the node popped and freed is the one *)
(* that was transmitted, though the mutex was released in between.         *)
PopsWhatItSent ==
    /\ worker_pc \in {"gate", "sent", "pop"} => list # <<>> /\ worker_item = list[1]
    /\ worker_pc = "free" => worker_item \in live /\ \A i \in 1 .. Len(list) : list[i] # worker_item

(* Outside the critical sections queue_depth is the length of the list, as *)
(* far as its width goes.                                                  *)
DepthMatches == mux = "none" => queue_depth = Len(list) % DepthMod

(* A host that was told "ready" and has not sent since may send: the queue *)
(* holds fewer than CONFIG_QUEUE_MAX_LENGTH packets, as long as the queue  *)
(* cannot grow to the point where queue_depth wraps.                       *)
ReadyHolds == ready /\ MaxPush < DepthMod => Len(list) < ReadyDepth

(* The queue is the FIFO of module Fifo, and with both threads running it  *)
(* is one that no packet waits in for ever.                                *)
F == INSTANCE Fifo WITH Packet <- Packet, MaxPush <- MaxPush, accepted <- accepted, air <- air
ImplementsFifo == F!Spec
ImplementsFairFifo == F!FairSpec
=============================================================================
