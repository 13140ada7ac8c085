--------------------------- MODULE TxQueueProofs ----------------------------
(***************************************************************************)
(* What TLAPS proves of TxQueue: its invariants for every set of packets   *)
(* and nodes and every bound, and that it implements the FIFO queue of     *)
(* module Fifo.                                                            *)
(***************************************************************************)
EXTENDS TxQueue, Integers, TLAPS

(* A thread is in a critical section exactly when it holds the mutex.      *)
MutexHeld ==
    /\ mux = "main" <=> main_pc \in {"link", "count", "depth"}
    /\ mux = "worker" <=> worker_pc \in {"peek", "pop", "free"}

(* Only the worker removes nodes: once it has seen one, there is one.      *)
WorkerHasPacket ==
    /\ worker_pc \in {"look", "peek"} => list # <<>>
    /\ worker_pc = "free" /\ main_pc = "push" => main_item # worker_item

(* The packets on the air are those accepted and no longer queued, and the *)
(* one the worker has transmitted and not yet removed.                     *)
AirCount ==
    Len(air) = (Len(accepted) - Len(list)) + (IF worker_pc \in {"sent", "pop"} THEN 1 ELSE 0)

(* queue_depth lags the list inside a critical section, and only there.    *)
Counted == IF worker_pc = "free" THEN Len(list) + 1
           ELSE IF main_pc = "count" THEN Len(list) - 1 ELSE Len(list)

(* The bound on pushes was checked when the packet was allocated.          *)
PushBounded == main_pc \in {"push", "link"} => Len(accepted) < MaxPush

DepthCount ==
    /\ queue_depth = Counted % DepthMod
    /\ main_pc = "count" => list # <<>>

IInv == /\ TypeOK /\ MutexHeld /\ ListShape /\ NodesIntact
        /\ PopsWhatItSent /\ WorkerHasPacket /\ AirCount /\ PushBounded

-----------------------------------------------------------------------------
(* Counting modulo the width of queue_depth.                               *)
LEMMA ModType == ASSUME NEW m \in Nat \ {0}, NEW a \in Nat PROVE a % m \in 0 .. m - 1
BY SMT

LEMMA ModUnique ==
    ASSUME NEW m \in Nat \ {0}, NEW q \in Int, NEW r \in 0 .. m - 1,
           NEW s \in Int, NEW t \in 0 .. m - 1, q * m + r = s * m + t
    PROVE  r = t
BY SMT

LEMMA DivMod == \A m, a \in Nat : m > 0 => \E q \in Int : a = q * m + (a % m)
BY Z3

LEMMA ModShift ==
    ASSUME NEW m \in Nat \ {0}, NEW a \in Nat, NEW b \in Nat, NEW k \in Int, a = b + k * m
    PROVE  a % m = b % m
<1>1. m \in Nat /\ m > 0
  OBVIOUS
<1>2. PICK q \in Int : a = q * m + (a % m)
  BY ONLY <1>1, a \in Nat, DivMod, Zenon
<1>3. PICK s \in Int : b = s * m + (b % m)
  BY ONLY <1>1, b \in Nat, DivMod, Zenon
<1>4. a % m \in 0 .. m - 1 /\ b % m \in 0 .. m - 1
  BY ModType
<1>5. q * m + (a % m) = (s + k) * m + (b % m)
  BY <1>2, <1>3, <1>4
<1>6. s + k \in Int /\ m \in Nat \ {0}
  OBVIOUS
<1> QED BY ONLY <1>4, <1>5, <1>6, q \in Int, ModUnique, Zenon

LEMMA ModCount ==
    ASSUME NEW m \in Nat \ {0}, NEW a \in Nat
    PROVE  /\ ((a % m) + 1) % m = (a + 1) % m
           /\ a > 0 => ((a % m) + m - 1) % m = (a - 1) % m
<1>1. m \in Nat /\ m > 0
  OBVIOUS
<1>2. PICK q \in Int : a = q * m + (a % m)
  BY ONLY <1>1, a \in Nat, DivMod, Zenon
<1>3. a % m \in 0 .. m - 1
  BY ModType
<1>6. m \in Nat \ {0} /\ q \in Int /\ q - 1 \in Int
  OBVIOUS
<1>4. ((a % m) + 1) % m = (a + 1) % m
  <2> DEFINE x == a + 1
             y == (a % m) + 1
  <2>1. x = y + q * m /\ x \in Nat /\ y \in Nat
    BY <1>2, <1>3
  <2>2. x % m = y % m
    <3> HIDE DEF x, y
    <3> QED BY ONLY <2>1, <1>6, ModShift, ZenonT(60)
  <2> QED BY <2>2
<1>5. ASSUME a > 0 PROVE ((a % m) + m - 1) % m = (a - 1) % m
  <2> DEFINE x == a - 1
             y == (a % m) + m - 1
             p == q - 1
  <2>1. x = y + p * m /\ x \in Nat /\ y \in Nat
    BY <1>2, <1>3, <1>5
  <2>2. x % m = y % m
    <3>1. p \in Int
      BY <1>6
    <3> HIDE DEF x, y, p
    <3> QED BY ONLY <2>1, <3>1, <1>6, ModShift, ZenonT(60)
  <2> QED BY <2>2
<1> QED BY <1>4, <1>5

-----------------------------------------------------------------------------
LEMMA InitIInv == Init => IInv
<1> SUFFICES ASSUME Init PROVE IInv
  OBVIOUS
<1>1. TypeOK
  <2>1. list \in Seq(Node) /\ accepted \in Seq(Packet) /\ air \in Seq(Packet)
    BY DEF Init
  <2>2. queue_depth \in 0 .. DepthMod - 1
    BY BoundAssumption DEF Init
  <2>3. /\ next \in [Node -> Node \cup {Garbage}] /\ data \in [Node -> Packet \cup {Garbage}]
        /\ live \in SUBSET Node
    BY DEF Init
  <2> QED BY <2>1, <2>2, <2>3 DEF Init, TypeOK
<1>2. MutexHeld /\ ListShape /\ NodesIntact /\ PopsWhatItSent /\ WorkerHasPacket /\ AirCount /\ PushBounded
  BY DEF Init, MutexHeld, ListShape, NodesIntact, PopsWhatItSent, WorkerHasPacket, AirCount, PushBounded
<1> QED BY <1>1, <1>2 DEF IInv

LEMMA NextType == IInv /\ [Next]_vars => TypeOK'
<1> SUFFICES ASSUME IInv, [Next]_vars PROVE TypeOK'
  OBVIOUS
<1> USE PointerAssumption, BoundAssumption DEF IInv, TypeOK, memory, main, worker
<1>1. ASSUME NEW n \in Node, NEW p \in Packet, PushAlloc(n, p) PROVE TypeOK'
  BY <1>1 DEF PushAlloc
<1>2. CASE PushLock \/ ReadyLock \/ PeekLock \/ PopLock \/ SendCheck \/ AirtimeLocked \/ Peek
  BY <1>2 DEF PushLock, ReadyLock, PeekLock, PopLock, SendCheck, AirtimeLocked, Peek
<1>3. CASE PushLink
  <2>1. main_item \in Node /\ data[main_item] \in Packet
    BY <1>3 DEF PushLink, NodesIntact
  <2>2. list' \in Seq(Node) /\ accepted' \in Seq(Packet)
    BY <1>3, <2>1 DEF PushLink
  <2>3. next' \in [Node -> Node \cup {Garbage}] /\ head' \in Node \cup {Nil}
    BY <1>3, <2>1, ZenonT(60) DEF PushLink
  <2> QED BY <1>3, <2>1, <2>2, <2>3 DEF PushLink
<1>4. CASE PushCount
  <2>1. (queue_depth + 1) % DepthMod \in 0 .. DepthMod - 1
    BY ModType
  <2> QED BY <1>4, <2>1 DEF PushCount
<1>5. CASE ReadyAnswer
  BY <1>5 DEF ReadyAnswer
<1>6. CASE ToAir
  <2>1. data[worker_item] \in Packet
    BY <1>6 DEF ToAir, PopsWhatItSent, NodesIntact
  <2> QED BY <1>6, <2>1 DEF ToAir
<1>7. CASE Pop
  BY <1>7, SMTT(60) DEF Pop, ListShape, PopsWhatItSent
<1>8. CASE Free
  <2>1. (queue_depth + DepthMod - 1) % DepthMod \in 0 .. DepthMod - 1
    BY ModType
  <2> QED BY <1>8, <2>1 DEF Free
<1>9. CASE UNCHANGED vars
  BY <1>9 DEF vars
<1> QED BY <1>1, <1>2, <1>3, <1>4, <1>5, <1>6, <1>7, <1>8, <1>9 DEF Next, MainLocked, Worker

LEMMA NextMutex == IInv /\ [Next]_vars => MutexHeld' /\ PushBounded'
<1> SUFFICES ASSUME IInv, [Next]_vars PROVE MutexHeld' /\ PushBounded'
  OBVIOUS
<1> USE DEF IInv, TypeOK, MutexHeld, PushBounded, memory, main, worker
<1>1. ASSUME NEW n \in Node, NEW p \in Packet, PushAlloc(n, p) PROVE MutexHeld' /\ PushBounded'
  BY <1>1 DEF PushAlloc
<1>2. CASE PushLock \/ ReadyLock \/ MainLocked
  BY <1>2 DEF PushLock, ReadyLock, MainLocked, PushLink, PushCount, ReadyAnswer
<1>3. CASE Worker \/ AirtimeLocked \/ ToAir
  BY <1>3 DEF Worker, PeekLock, Peek, PopLock, Pop, Free, SendCheck, AirtimeLocked, ToAir
<1>4. CASE UNCHANGED vars
  BY <1>4 DEF vars
<1> QED BY <1>1, <1>2, <1>3, <1>4 DEF Next

(* The steps that touch the list are PushLink, Pop and Free; the others    *)
(* leave it, and what it points to, alone.                                 *)
LEMMA NextList ==
    IInv /\ [Next]_vars => ListShape' /\ NodesIntact' /\ PopsWhatItSent' /\ WorkerHasPacket' /\ AirCount'
<1> SUFFICES ASSUME IInv, [Next]_vars
             PROVE  ListShape' /\ NodesIntact' /\ PopsWhatItSent' /\ WorkerHasPacket' /\ AirCount'
  OBVIOUS
<1> USE PointerAssumption
<1>1. ASSUME NEW n \in Node, NEW p \in Packet, PushAlloc(n, p)
      PROVE  ListShape' /\ NodesIntact' /\ PopsWhatItSent' /\ WorkerHasPacket' /\ AirCount'
  <2> USE <1>1 DEF IInv, TypeOK, PushAlloc, worker
  <2>1. ListShape'
    BY DEF ListShape
  <2>2. NodesIntact'
    BY DEF NodesIntact
  <2>3. PopsWhatItSent' /\ WorkerHasPacket' /\ AirCount'
    BY DEF PopsWhatItSent, WorkerHasPacket, AirCount
  <2> QED BY <2>1, <2>2, <2>3
<1>2. CASE PushLock \/ ReadyLock \/ PushCount \/ ReadyAnswer
  <2> USE <1>2 DEF IInv, TypeOK, PushLock, ReadyLock, PushCount, ReadyAnswer, memory, worker
  <2>1. ListShape'
    BY DEF ListShape
  <2>2. NodesIntact'
    BY ZenonT(60) DEF NodesIntact
  <2>3. PopsWhatItSent' /\ WorkerHasPacket' /\ AirCount'
    BY DEF PopsWhatItSent, WorkerHasPacket, AirCount
  <2> QED BY <2>1, <2>2, <2>3
<1>3. CASE SendCheck \/ PeekLock \/ Peek \/ AirtimeLocked \/ ToAir \/ PopLock
  <2> USE <1>3 DEF IInv, TypeOK, SendCheck, PeekLock, Peek, AirtimeLocked, ToAir, PopLock, memory, main
  <2>1. ListShape'
    BY DEF ListShape
  <2>2. NodesIntact'
    BY SMTT(60) DEF NodesIntact
  <2>3. PopsWhatItSent' /\ WorkerHasPacket'
    BY DEF PopsWhatItSent, WorkerHasPacket, ListShape
  <2>4. AirCount'
    BY DEF AirCount
  <2> QED BY <2>1, <2>2, <2>3, <2>4
<1>4. CASE PushLink
  <2>1. /\ ListShape /\ NodesIntact /\ PopsWhatItSent /\ WorkerHasPacket /\ AirCount /\ MutexHeld
        /\ main_item \in Node /\ data[main_item] \in Packet /\ Nil \notin Node
        /\ list \in Seq(Node) /\ accepted \in Seq(Packet) /\ next \in [Node -> Node \cup {Garbage}]
    BY <1>4 DEF IInv, TypeOK, PushLink, NodesIntact
  <2>2. /\ main_pc = "link" /\ main_pc' = "count" /\ main_item' = main_item
        /\ data' = data /\ live' = live /\ tail' = main_item
        /\ air' = air /\ worker_pc' = worker_pc /\ worker_item' = worker_item
    BY <1>4 DEF PushLink, worker
  <2>3. /\ Len(list') = Len(list) + 1 /\ list' \in Seq(Node)
        /\ \A i \in 1 .. Len(list) : list'[i] = list[i]
        /\ list'[Len(list) + 1] = main_item
    BY <1>4, <2>1 DEF PushLink
  <2>4. /\ Len(accepted') = Len(accepted) + 1
        /\ \A i \in 1 .. Len(accepted) : accepted'[i] = accepted[i]
        /\ accepted'[Len(accepted) + 1] = data[main_item]
    BY <1>4, <2>1 DEF PushLink
  <2>5. ListShape'
    <3>1. CASE list = <<>>
      <4>1. head' = main_item
        BY <3>1, <1>4, <2>1 DEF PushLink, ListShape
      <4>2. Len(list) = 0 /\ list' # <<>> /\ Len(list') = 1 /\ list'[1] = main_item
        BY <3>1, <2>3
      <4>3. main_item # Nil /\ tail' = main_item /\ 1 .. Len(list') - 1 = {}
        BY <4>2, <2>1, <2>2
      <4> QED BY <4>1, <4>2, <4>3 DEF ListShape
    <3>2. CASE list # <<>>
      <4>1. head' = head /\ next' = [next EXCEPT ![tail] = main_item]
        BY <3>2, <1>4, <2>1 DEF PushLink, ListShape
      <4>2. head = list[1] /\ head \in Node /\ tail = list[Len(list)] /\ Len(list) \in Nat \ {0}
        BY <3>2, <2>1 DEF ListShape
      <4>3. ASSUME NEW i \in 1 .. Len(list) PROVE next'[list'[i]] = list'[i + 1]
        <5>1. CASE i = Len(list)
          BY <5>1, <4>1, <4>2, <2>1, <2>3
        <5>2. CASE i < Len(list)
          <6>1. list[i] # tail
            BY <5>2, <4>2, <2>1 DEF NodesIntact
          <6>3. list[i] \in Node /\ next[list[i]] = list[i + 1]
            BY <5>2, <4>2, <2>1 DEF ListShape
          <6>2. list'[i] = list[i] /\ list'[i + 1] = list[i + 1]
            BY <5>2, <4>2, <2>3
          <6> QED BY <6>1, <6>2, <6>3, <4>1, <2>1
        <5>3. i = Len(list) \/ i < Len(list)
          BY <4>2
        <5> QED BY <5>1, <5>2, <5>3
      <4> QED BY <4>1, <4>2, <4>3, <2>1, <2>2, <2>3 DEF ListShape
    <3> QED BY <3>1, <3>2
  <2>6. ASSUME NEW i \in 1 .. Len(list')
        PROVE  /\ list'[i] \in live'
               /\ data'[list'[i]] = accepted'[Len(accepted') - Len(list') + i]
               /\ \A j \in 1 .. Len(list') : list'[i] = list'[j] => i = j
    <3>1. list'[i] \in live'
      BY <2>1, <2>2, <2>3, SMTT(60) DEF NodesIntact
    <3>2. data[list'[i]] = accepted'[Len(accepted') - Len(list') + i]
      <4>1. CASE i \in 1 .. Len(list)
        <5>1. /\ Len(accepted') - Len(list') + i = Len(accepted) - Len(list) + i
              /\ Len(accepted) - Len(list) + i \in 1 .. Len(accepted)
          BY <4>1, <2>1, <2>3, <2>4 DEF NodesIntact
        <5>2. list'[i] = list[i] /\ data[list[i]] = accepted[Len(accepted) - Len(list) + i]
          BY <4>1, <2>1, <2>3 DEF NodesIntact
        <5> QED BY <5>1, <5>2, <2>4
      <4>2. CASE i = Len(list) + 1
        BY <4>2, <2>1, <2>3, <2>4
      <4> QED BY <4>1, <4>2, <2>1, <2>3
    <3>3. ASSUME NEW j \in 1 .. Len(list'), list'[i] = list'[j] PROVE i = j
      <4>1. \A h \in 1 .. Len(list) : list'[h] # main_item
        BY <2>1, <2>2, <2>3 DEF NodesIntact
      <4>2. CASE i = Len(list) + 1 \/ j = Len(list) + 1
        BY <4>1, <4>2, <3>3, <2>1, <2>3
      <4>3. CASE i \in 1 .. Len(list) /\ j \in 1 .. Len(list)
        BY <4>3, <3>3, <2>1, <2>3 DEF NodesIntact
      <4> QED BY <4>2, <4>3, <2>1, <2>3
    <3> QED BY <3>1, <3>2, <3>3, <2>2
  <2>7. NodesIntact'
    BY <2>1, <2>2, <2>3, <2>4, <2>6 DEF NodesIntact
  <2>8. PopsWhatItSent' /\ WorkerHasPacket'
    BY <2>1, <2>2, <2>3 DEF PopsWhatItSent, WorkerHasPacket, MutexHeld
  <2>9. AirCount'
    BY <2>1, <2>2, <2>3, <2>4 DEF AirCount
  <2> QED BY <2>5, <2>7, <2>8, <2>9
<1>5. CASE Pop
  <2>1. /\ ListShape /\ NodesIntact /\ PopsWhatItSent /\ AirCount /\ MutexHeld
        /\ list # <<>> /\ list \in Seq(Node) /\ accepted \in Seq(Packet) /\ Nil \notin Node
        /\ worker_item = list[1] /\ main_pc \notin {"link", "count"}
    BY <1>5 DEF IInv, TypeOK, Pop, PopsWhatItSent, MutexHeld
  <2>2. /\ worker_pc = "pop" /\ worker_pc' = "free" /\ worker_item' = worker_item
        /\ main_pc' = main_pc /\ main_item' = main_item /\ air' = air /\ accepted' = accepted
        /\ next' = next /\ data' = data /\ live' = live
    BY <1>5 DEF Pop, main
  <2>3. /\ Len(list') = Len(list) - 1 /\ Len(list) \in Nat \ {0} /\ list' \in Seq(Node)
        /\ \A i \in 1 .. Len(list) - 1 : list'[i] = list[i + 1]
    BY <1>5, <2>1 DEF Pop
  <2>4. head = list[1] /\ head # Nil /\ tail = list[Len(list)]
    BY <2>1, <2>3 DEF ListShape
  <2>5. ListShape'
    <3>1. CASE Len(list) = 1
      <4>1. head' = Nil /\ tail' = Nil /\ list' = <<>>
        BY <3>1, <1>5, <2>3, <2>4 DEF Pop
      <4> QED BY <4>1 DEF ListShape
    <3>2. CASE Len(list) > 1
      <4>1. head # tail
        BY <3>2, <2>1, <2>3, <2>4 DEF NodesIntact
      <4>2. head' = list[2] /\ tail' = tail
        BY <3>2, <4>1, <1>5, <2>1, <2>3, <2>4 DEF Pop, ListShape
      <4>3. list' # <<>> /\ list'[1] = list[2] /\ list'[Len(list')] = list[Len(list)]
        BY <3>2, <2>3
      <4>4. list[2] \in Node /\ list[Len(list)] \in Node
        BY <3>2, <2>1, <2>3
      <4>5. \A i \in 1 .. Len(list') - 1 : next'[list'[i]] = list'[i + 1]
        BY <3>2, <2>1, <2>2, <2>3 DEF ListShape
      <4> QED BY <4>2, <4>3, <4>4, <4>5, <2>1, <2>4 DEF ListShape
    <3> QED BY <3>1, <3>2, <2>3
  <2>6. NodesIntact'
    BY <2>1, <2>2, <2>3, SMTT(120) DEF NodesIntact
  <2>7. PopsWhatItSent' /\ WorkerHasPacket'
    BY <2>1, <2>2, <2>3 DEF PopsWhatItSent, WorkerHasPacket, NodesIntact
  <2>8. AirCount'
    BY <2>1, <2>2, <2>3 DEF AirCount
  <2> QED BY <2>5, <2>6, <2>7, <2>8
<1>6. CASE Free
  <2> USE <1>6 DEF IInv, TypeOK, Free, main
  <2>1. ListShape'
    BY DEF ListShape, PopsWhatItSent
  <2>2. NodesIntact'
    BY DEF NodesIntact, PopsWhatItSent, WorkerHasPacket, MutexHeld
  <2>3. PopsWhatItSent' /\ WorkerHasPacket' /\ AirCount'
    BY DEF PopsWhatItSent, WorkerHasPacket, AirCount
  <2> QED BY <2>1, <2>2, <2>3
<1>7. CASE UNCHANGED vars
  BY <1>7 DEF IInv, vars, memory, main, worker, ListShape, NodesIntact, PopsWhatItSent, WorkerHasPacket, AirCount
<1> QED BY <1>1, <1>2, <1>3, <1>4, <1>5, <1>6, <1>7 DEF Next, MainLocked, Worker

-----------------------------------------------------------------------------
LEMMA Inductive == IInv /\ [Next]_vars => IInv'
BY NextType, NextMutex, NextList DEF IInv

LEMMA Invariance == Spec => []IInv
BY InitIInv, Inductive, PTL DEF Spec

(* Every variable keeps the type of its C declaration.                     *)
THEOREM TypeCorrect == Spec => []TypeOK
<1>1. IInv => TypeOK
  BY DEF IInv
<1> QED BY <1>1, Invariance, PTL

(* The pointers spell out exactly the queued packets at every step, each   *)
(* in an allocated node of its own with the content that was accepted.     *)
THEOREM MemorySafeHolds == Spec => []MemorySafe
<1>1. IInv => MemorySafe
  BY DEF IInv, MemorySafe
<1> QED BY <1>1, Invariance, PTL

(* The node removed and freed is the one transmitted, whatever was pushed  *)
(* while the mutex was released between the two.                           *)
THEOREM PopsWhatItSentHolds == Spec => []PopsWhatItSent
<1>1. IInv => PopsWhatItSent
  BY DEF IInv
<1> QED BY <1>1, Invariance, PTL

-----------------------------------------------------------------------------
LEMMA NextDepth == IInv /\ DepthCount /\ [Next]_vars => DepthCount'
<1> SUFFICES ASSUME IInv, DepthCount, [Next]_vars PROVE DepthCount'
  OBVIOUS
<1>1. list \in Seq(Node) /\ Len(list) \in Nat /\ DepthMod \in Nat \ {0}
  BY BoundAssumption DEF IInv, TypeOK
<1> USE DEF DepthCount, Counted
<1>2. ASSUME NEW n \in Node, NEW p \in Packet, PushAlloc(n, p) PROVE DepthCount'
  BY <1>2 DEF PushAlloc, worker
<1>3. CASE PushLock \/ ReadyLock \/ ReadyAnswer
  BY <1>3 DEF PushLock, ReadyLock, ReadyAnswer, memory, worker
<1>4. CASE PushLink
  <2>1. worker_pc # "free" /\ worker_pc' = worker_pc /\ queue_depth' = queue_depth
    BY <1>4 DEF PushLink, IInv, MutexHeld, worker
  <2>2. Len(list') = Len(list) + 1 /\ list' # <<>>
    BY <1>4, <1>1 DEF PushLink, IInv, TypeOK, NodesIntact
  <2> QED BY <1>1, <1>4, <2>1, <2>2 DEF PushLink
<1>5. CASE PushCount
  <2>1. worker_pc # "free" /\ worker_pc' = worker_pc /\ list' = list /\ main_pc = "count" /\ main_pc' = "idle"
    BY <1>5 DEF PushCount, IInv, MutexHeld, worker
  <2>2. Len(list) - 1 \in Nat /\ queue_depth = (Len(list) - 1) % DepthMod
    BY <1>1, <2>1
  <2>3. queue_depth' = (((Len(list) - 1) % DepthMod) + 1) % DepthMod
    BY <1>5, <2>2 DEF PushCount
  <2>4. (Len(list) - 1) + 1 = Len(list)
    BY <1>1
  <2>5. (((Len(list) - 1) % DepthMod) + 1) % DepthMod = ((Len(list) - 1) + 1) % DepthMod
    BY ONLY <1>1, <2>2, ModCount, Zenon
  <2>6. queue_depth' = Len(list) % DepthMod
    BY <2>3, <2>4, <2>5
  <2> QED BY <2>1, <2>6
<1>6. CASE SendCheck \/ PeekLock \/ Peek \/ AirtimeLocked \/ ToAir \/ PopLock
  BY <1>6 DEF SendCheck, PeekLock, Peek, AirtimeLocked, ToAir, PopLock, memory, main
<1>7. CASE Pop
  <2>1. list # <<>> /\ main_pc # "count" /\ main_pc' = main_pc /\ queue_depth' = queue_depth
    BY <1>7 DEF Pop, IInv, MutexHeld, PopsWhatItSent, main
  <2>2. Len(list') = Len(list) - 1
    BY <1>7, <1>1, <2>1 DEF Pop
  <2> QED BY <1>1, <1>7, <2>1, <2>2 DEF Pop
<1>8. CASE Free
  <2>1. main_pc # "count" /\ main_pc' = main_pc /\ list' = list /\ worker_pc = "free" /\ worker_pc' = "idle"
    BY <1>8 DEF Free, IInv, MutexHeld, main
  <2>2. Len(list) + 1 \in Nat /\ queue_depth = (Len(list) + 1) % DepthMod
    BY <1>1, <2>1
  <2>3. queue_depth' = (((Len(list) + 1) % DepthMod) + DepthMod - 1) % DepthMod
    BY <1>8, <2>2 DEF Free
  <2>4. Len(list) + 1 > 0 /\ (Len(list) + 1) - 1 = Len(list)
    BY <1>1
  <2>5. queue_depth' = Len(list) % DepthMod
    BY <1>1, <2>2, <2>3, <2>4, ModCount
  <2> QED BY <2>1, <2>5
<1>9. CASE UNCHANGED vars
  BY <1>9 DEF vars, main, worker
<1> QED BY <1>2, <1>3, <1>4, <1>5, <1>6, <1>7, <1>8, <1>9 DEF Next, MainLocked, Worker

(* Whatever its width, queue_depth counts the queued packets whenever no   *)
(* thread is in a critical section: what CMD_READY is answered from.       *)
THEOREM DepthCorrect == Spec => []DepthMatches
<1>1. Init => DepthCount
  BY BoundAssumption DEF Init, DepthCount, Counted
<1>2. IInv /\ DepthCount => DepthMatches
  BY DEF IInv, MutexHeld, DepthCount, Counted, DepthMatches
<1> QED BY <1>1, <1>2, NextDepth, Invariance, PTL DEF Spec

-----------------------------------------------------------------------------
(* An answer "ready" stands until the next push begins, and only the host  *)
(* makes the queue grow.                                                   *)
ReadyStands ==
    /\ Len(accepted) =< MaxPush
    /\ ready => main_pc \notin {"push", "link", "count"}
    /\ ReadyHolds

LEMMA ModSmall == ASSUME NEW m \in Nat \ {0}, NEW a \in 0 .. m - 1 PROVE a % m = a
<1>1. a \in Nat /\ m \in Nat /\ m > 0 /\ a % m \in 0 .. m - 1
  BY ModType
<1>2. PICK q \in Int : a = q * m + (a % m)
  BY ONLY <1>1, DivMod, Zenon
<1>3. q * m + (a % m) = 0 * m + a
  BY <1>2
<1> QED BY ONLY <1>1, <1>3, q \in Int, 0 \in Int, m \in Nat \ {0}, a \in 0 .. m - 1, ModUnique, Zenon

LEMMA NextReady == IInv /\ DepthCount /\ ReadyStands /\ [Next]_vars => ReadyStands'
<1> SUFFICES ASSUME IInv, DepthCount, ReadyStands, [Next]_vars PROVE ReadyStands'
  OBVIOUS
<1>1. Len(list) \in Nat /\ Len(accepted) \in Nat /\ DepthMod \in Nat \ {0} /\ MaxPush \in Nat /\ ReadyDepth \in Nat
  BY BoundAssumption DEF IInv, TypeOK
<1> USE DEF ReadyStands, ReadyHolds
<1>2. ASSUME NEW n \in Node, NEW p \in Packet, PushAlloc(n, p) PROVE ReadyStands'
  BY <1>2 DEF PushAlloc
<1>3. CASE PushLock \/ PushCount
  BY <1>3 DEF PushLock, PushCount
<1>4. CASE ReadyLock
  BY <1>4 DEF ReadyLock
<1>5. CASE PushLink
  <2>1. Len(accepted') = Len(accepted) + 1 /\ Len(accepted) < MaxPush /\ ~ready /\ ready' = ready
    BY <1>5 DEF PushLink, IInv, TypeOK, PushBounded, NodesIntact
  <2> QED BY <1>1, <2>1
<1>6. CASE ReadyAnswer
  <2>1. /\ ready' = (queue_depth < ReadyDepth) /\ main_pc' = "idle"
        /\ accepted' = accepted /\ list' = list /\ main_pc = "depth" /\ worker_pc # "free"
    BY <1>6 DEF ReadyAnswer, IInv, MutexHeld
  <2>2. queue_depth = Len(list) % DepthMod
    BY <2>1 DEF DepthCount, Counted
  <2>3. ASSUME MaxPush < DepthMod PROVE queue_depth = Len(list)
    <3>1. Len(list) \in 0 .. DepthMod - 1
      BY <1>1, <2>3 DEF IInv, NodesIntact
    <3> QED BY ONLY <1>1, <2>2, <3>1, ModSmall, Zenon
  <2> QED BY <1>1, <2>1, <2>3
<1>7. CASE SendCheck \/ PeekLock \/ Peek \/ AirtimeLocked \/ ToAir \/ PopLock \/ Free
  BY <1>7 DEF SendCheck, PeekLock, Peek, AirtimeLocked, ToAir, PopLock, Free, main
<1>8. CASE Pop
  <2>1. Len(list') = Len(list) - 1
    BY <1>8, <1>1 DEF Pop, IInv, TypeOK, PopsWhatItSent
  <2> QED BY <1>8, <1>1, <2>1 DEF Pop, main
<1>9. CASE UNCHANGED vars
  BY <1>9 DEF vars, main
<1> QED BY <1>2, <1>3, <1>4, <1>5, <1>6, <1>7, <1>8, <1>9 DEF Next, MainLocked, Worker

(* A host told "ready" finds the queue below CONFIG_QUEUE_MAX_LENGTH until *)
(* it sends again, whatever the worker does, as long as the queue cannot   *)
(* hold so many packets that queue_depth wraps.                            *)
THEOREM ReadyHoldsAlways == Spec => []ReadyHolds
<1>1. Init => DepthCount /\ ReadyStands
  BY BoundAssumption DEF Init, DepthCount, Counted, ReadyStands, ReadyHolds
<1>2. ReadyStands => ReadyHolds
  BY DEF ReadyStands
<1> QED BY <1>1, <1>2, NextDepth, NextReady, Invariance, PTL DEF Spec

-----------------------------------------------------------------------------
LEMMA RefinesInit == Init => F!Init
BY DEF Init, F!Init

LEMMA RefinesNext == IInv /\ [Next]_vars => [F!Next]_(F!fifo)
<1> SUFFICES ASSUME IInv, Next PROVE F!Next \/ UNCHANGED F!fifo
  BY DEF vars, F!fifo
<1> USE DEF IInv, TypeOK, F!fifo
<1>1. ASSUME NEW n \in Node, NEW p \in Packet, PushAlloc(n, p) PROVE UNCHANGED F!fifo
  BY <1>1 DEF PushAlloc
<1>2. CASE PushLock \/ ReadyLock \/ PushCount \/ ReadyAnswer
  BY <1>2 DEF PushLock, ReadyLock, PushCount, ReadyAnswer
<1>3. CASE Worker \/ AirtimeLocked
  BY <1>3 DEF Worker, SendCheck, PeekLock, Peek, PopLock, Pop, Free, AirtimeLocked
<1>4. CASE PushLink
  <2>1. data[main_item] \in Packet /\ Len(accepted) < MaxPush
    BY <1>4 DEF PushLink, NodesIntact, PushBounded
  <2> QED BY <1>4, <2>1 DEF PushLink, F!Next, F!Push
<1>5. CASE ToAir
  <2>1. list # <<>> /\ worker_item = list[1] /\ Len(list) \in Nat \ {0} /\ Len(accepted) \in Nat
    BY <1>5 DEF ToAir, PopsWhatItSent
  <2>2. Len(air) = Len(accepted) - Len(list)
    BY <1>5 DEF ToAir, AirCount
  <2>3. data[worker_item] = accepted[Len(air) + 1] /\ Len(air) < Len(accepted)
    BY <2>1, <2>2 DEF NodesIntact
  <2> QED BY <1>5, <2>3 DEF ToAir, F!Next, F!Send
<1> QED BY <1>1, <1>2, <1>3, <1>4, <1>5 DEF Next, MainLocked

(* The linked list with its two locks, unlocked reads and separate counts  *)
(* implements the FIFO: packets reach the radio once each and in order.    *)
THEOREM FifoImplemented == Spec => ImplementsFifo
<1>1. F!Init /\ [][F!Next]_(F!fifo) => ImplementsFifo
  BY DEF ImplementsFifo, F!Spec
<1> QED BY <1>1, RefinesInit, RefinesNext, Invariance, PTL DEF Spec, ImplementsFifo, F!Spec
=============================================================================
