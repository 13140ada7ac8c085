--------------------------- MODULE HostOutProofs ----------------------------
(***************************************************************************)
(* What TLAPS proves of HostOut: its types, that the daemon does not go    *)
(* deaf, that the latest client is not lost as long as no two threads meet *)
(* at client_fd, and that a frame encoded alone arrives whole, for any     *)
(* number of connections, any sizes of frames and every interleaving of    *)
(* the three threads.                                                      *)
(***************************************************************************)
EXTENDS HostOut, FiniteSetTheorems, WellFoundedInduction, TLAPS

(* A thread in kiss_encode has cells left to write.                        *)
IndexInFrame == \A t \in Thread : pc[t] = "encode" => index[t] =< Length(t)

(* Somebody is on the way to repair a client_fd that is closed: a thread   *)
(* about to clear or overwrite it, or main, whose next frame will find the *)
(* error out.                                                              *)
Repair ==
    \/ \E t \in Thread : pc[t] = "clear"
    \/ at \in {"store", "clear"}
    \/ pc["main"] \in {"encode", "test", "close"}
    \/ pc["main"] = "send" /\ fd["main"] = client_fd

Repaired == client_fd = 0 \/ owner[client_fd] \in Conn \/ Repair

(* A connection is waiting when main is about to accept it.                *)
Waiting == at = "accept" => backlog # <<>>

IInv == TypeOK /\ IndexInFrame /\ Repaired /\ Waiting

-----------------------------------------------------------------------------
(* What the assumption says of the sizes.                                  *)
LEMMA Sizes ==
    /\ MaxConn \in Nat /\ MTU \in Nat /\ None \notin Conn /\ Stdin \notin Conn
    /\ \A t \in Thread : Length(t) \in Nat /\ 3 =< Length(t) /\ Length(t) =< MTU
    /\ 1 \in Cells /\ 2 \in Cells
<1>1. \A t \in Thread : Size[t] \in Nat \ {0}
  BY HostOutAssumption
<1>2. "main" \in Thread
  BY DEF Thread
<1>3. Size["main"] \in Nat \ {0} /\ Size["main"] + 2 =< MTU
  BY <1>1, <1>2, HostOutAssumption
<1> QED BY <1>1, <1>3, HostOutAssumption DEF Length, Cells, Conn

(* What is in a cell of the array is a part of a frame of some thread, or  *)
(* a delimiter.                                                            *)
LEMMA CellType == ASSUME NEW t \in Thread, NEW i PROVE Cell(t, i) \in Thread \cup {Fend}
BY DEF Cell

(* The initial states satisfy the invariant.                               *)
LEMMA InitHolds == Init => IInv
<1> SUFFICES ASSUME Init PROVE IInv
  OBVIOUS
<1> USE DEF Init
<1>1. 0 \in Fd
  BY Sizes DEF Fd
<1>2. owner \in [Fd -> Conn \cup {None, Stdin}]
  OBVIOUS
<1>3. link \in [Conn -> {"free", "open", "fin", "err", "rst"}] /\ backlog \in Seq(Conn)
  OBVIOUS
<1>4. index \in [Thread -> Cells] /\ fd \in [Thread -> Fd]
  BY <1>1, Sizes
<1>5. TypeOK
  BY <1>1, <1>2, <1>3, <1>4 DEF TypeOK
<1>6. IndexInFrame
  BY DEF IndexInFrame
<1>7. Repaired
  BY DEF Repaired
<1> QED BY <1>5, <1>6, <1>7 DEF IInv, Init, Waiting

(* The hosts do not touch what the invariant is about.                     *)
LEMMA HostStep ==
    ASSUME IInv, Host, UNCHANGED <<alive, spoiled>>, raced' \in BOOLEAN
    PROVE  IInv'
<1> USE DEF IInv, TypeOK, IndexInFrame, Repaired, Repair, Waiting, encoder, reader
<1>1. ASSUME NEW c \in Conn, Connect(c) PROVE IInv'
  BY <1>1 DEF Connect
<1>2. ASSUME NEW c \in Conn, HostWrites(c) PROVE IInv'
  BY <1>2 DEF HostWrites
<1>3. ASSUME NEW c \in Conn, Leave(c) PROVE IInv'
  BY <1>3 DEF Leave
<1> QED BY <1>1, <1>2, <1>3 DEF Host

(* Nor does kiss_encode, but for the cells; a frame of main's is a repair. *)
LEMMA EncodeStep ==
    ASSUME IInv, NEW t \in Thread, Report(t) \/ Encode(t) \/ Test(t),
           UNCHANGED <<alive, spoiled>>, raced' \in BOOLEAN
    PROVE  IInv'
<1> USE Sizes, CellType DEF IInv, TypeOK, IndexInFrame, Repaired, Repair, Waiting, encoder, reader,
                            kernel, Goto
<1>1. CASE Report(t)
  <2> USE <1>1 DEF Report, Begin
  <2>1. TypeOK'
    OBVIOUS
  <2>2. IndexInFrame'
    OBVIOUS
  <2>3. Repaired' /\ Waiting'
    OBVIOUS
  <2> QED BY ONLY <2>1, <2>2, <2>3, Zenon
<1>2. CASE Encode(t)
  <2> USE <1>2 DEF Encode
  <2>a. Cell(t, index[t]) \in Thread \cup {Fend} /\ index[t] \in Cells
    OBVIOUS
  <2>b. buf_out' \in [Cells -> Thread \cup {Fend}] /\ clean' \in [Thread -> BOOLEAN]
    BY ONLY <2>a, <1>2, IInv DEF Encode, IInv, TypeOK
  <2>c. index[t] # Length(t) => index[t] + 1 =< Length(t) /\ index[t] + 1 \in Cells
    <3>1. index[t] =< Length(t) /\ Length(t) =< MTU /\ Length(t) \in Nat /\ MTU \in Nat
      OBVIOUS
    <3> QED BY ONLY <3>1, <2>a DEF Cells
  <2>d. index' \in [Thread -> Cells]
    BY <2>c, ZenonT(60)
  <2>e. pc' \in [Thread -> {"idle", "encode", "test", "send", "close", "clear"}]
    BY ZenonT(60)
  <2>1. TypeOK'
    BY <2>b, <2>d, <2>e
  <2>2. IndexInFrame'
    BY <2>c, ZenonT(60)
  <2>3. Repaired' /\ Waiting'
    <3>1. CASE t = "main"
      BY <3>1
    <3>2. CASE t # "main"
      BY <3>2 DEF Thread
    <3> QED BY <3>1, <3>2
  <2> QED BY ONLY <2>1, <2>2, <2>3, Zenon
<1>3. CASE Test(t)
  <2> USE <1>3 DEF Test
  <2>1. TypeOK'
    BY ZenonT(60)
  <2>2. IndexInFrame'
    OBVIOUS
  <2>3. Repaired' /\ Waiting'
    <3>1. CASE Repair
      <4>1. CASE t = "main"
        BY <4>1 DEF Thread, Fd
      <4>2. CASE t # "main"
        BY <3>1, <4>2 DEF Thread, Fd
      <4> QED BY <4>1, <4>2
    <3>2. CASE ~Repair
      BY <3>2 DEF Fd
    <3> QED BY <3>1, <3>2
  <2> QED BY ONLY <2>1, <2>2, <2>3, Zenon
<1> QED BY <1>1, <1>2, <1>3

(* A send that fails leads to a clear of client_fd.                        *)
LEMMA SendStep ==
    ASSUME IInv, NEW t \in Thread, Send(t), raced' \in BOOLEAN
    PROVE  IInv'
<1> USE DEF IInv, TypeOK, IndexInFrame, Repaired, Repair, Waiting, reader, Goto, Send, Sends,
            SendFails, Taken
<1>a. pc' \in [Thread -> {"idle", "encode", "test", "send", "close", "clear"}]
  OBVIOUS
<1>b. link' \in [Conn -> {"free", "open", "fin", "err", "rst"}] /\ DOMAIN part' = Conn
  OBVIOUS
<1>c. fd' \in [Thread -> Fd] /\ clean' \in [Thread -> BOOLEAN]
  BY Sizes DEF Fd
<1>d. alive' \in BOOLEAN /\ spoiled' \in BOOLEAN
  OBVIOUS
<1>1. TypeOK'
  BY <1>a, <1>b, <1>c, <1>d
<1>2. IndexInFrame'
  OBVIOUS
<1>3. Repaired'
  <2>2. CASE Repair /\ t # "main"
    BY <2>2 DEF Thread
  <2>3. CASE Repair /\ t = "main"
    BY <2>3
  <2>4. CASE ~Repair
    BY <2>4
  <2> QED BY <2>2, <2>3, <2>4
<1> QED BY <1>1, <1>2, <1>3

(* A send that fails keeps the invariant.                                  *)
LEMMA ErrorStep ==
    ASSUME IInv, NEW t \in Thread, SendCloses(t) \/ SendClears(t),
           UNCHANGED <<alive, spoiled>>, raced' \in BOOLEAN
    PROVE  IInv'
<1> USE Sizes DEF IInv, TypeOK, IndexInFrame, Repaired, Repair, Waiting, encoder, reader, kernel,
                  Goto, Closed, Fd
<1>1. CASE SendCloses(t)
  BY <1>1, SMTT(60) DEF SendCloses
<1>2. CASE SendClears(t)
  BY <1>2 DEF SendClears
<1> QED BY <1>1, <1>2

(* main: replacing or dropping the client leads to a store or a clear.     *)
LEMMA MainStep ==
    ASSUME IInv, Main, UNCHANGED <<alive, spoiled>>, raced' \in BOOLEAN
    PROVE  IInv'
<1> USE Sizes DEF IInv, TypeOK, IndexInFrame, Repaired, Repair, Waiting, encoder, reader, kernel,
                  Go, Goto, Closed
<1> "main" \in Thread
  BY DEF Thread
<1>1. CASE Select
  BY <1>1 DEF Select, Readable
<1>2. CASE Accept
  <2> USE <1>2 DEF Accept, Free
  <2>1. TypeOK'
    OBVIOUS
  <2>2. IndexInFrame'
    OBVIOUS
  <2>3. Repaired' /\ Waiting'
    OBVIOUS
  <2> QED BY ONLY <2>1, <2>2, <2>3, Zenon
<1>3. CASE Replace
  BY <1>3 DEF Replace
<1>4. CASE Store
  BY <1>4, CellType DEF Store, Begin, Fd
<1>5. CASE Read
  <2>1. CASE client_fd \in ready /\ owner[client_fd] \in data /\ Begin("main")
    <3> USE <1>5, <2>1, CellType DEF Read, Begin
    <3>1. buf_out' \in [Cells -> Thread \cup {Fend}] /\ clean' \in [Thread -> BOOLEAN]
      OBVIOUS
    <3>2. index' \in [Thread -> Cells]
      OBVIOUS
    <3>3. TypeOK'
      BY <3>1, <3>2
    <3>4. IndexInFrame'
      OBVIOUS
    <3>5. Repaired' /\ Waiting'
      OBVIOUS
    <3> QED BY ONLY <3>3, <3>4, <3>5, Zenon
  <2>2. CASE (Go("select") \/ Go("close")) /\ UNCHANGED data
    BY <1>5, <2>2 DEF Read
  <2> QED BY ONLY <1>5, <2>1, <2>2 DEF Read
<1>6. CASE ReadCloses
  BY <1>6 DEF ReadCloses
<1>7. CASE ReadClears
  BY <1>7 DEF ReadClears, Fd
<1> QED BY <1>1, <1>2, <1>3, <1>4, <1>5, <1>6, <1>7 DEF Main

(* Every step keeps the invariant.                                         *)
LEMMA StepHolds == IInv /\ [Next]_vars => IInv'
<1> SUFFICES ASSUME IInv, [Next]_vars PROVE IInv'
  OBVIOUS
<1>1. CASE UNCHANGED vars
  BY <1>1 DEF vars, encoder, reader, kernel, IInv, TypeOK, IndexInFrame, Repaired, Repair, Waiting
<1>2. CASE Next
  <2>1. raced' \in BOOLEAN
    BY <1>2 DEF Next, Watch, IInv, TypeOK
  <2>2. CASE Other(Host)
    BY <2>1, <2>2, HostStep DEF Other
  <2>3. CASE Other(Main)
    BY <2>1, <2>3, MainStep DEF Other
  <2>4. ASSUME NEW t \in Thread, Send(t) \/ Other(Report(t)) \/ Other(Sending(t)) PROVE IInv'
    BY <2>1, <2>4, SendStep, EncodeStep, ErrorStep DEF Other, Sending
  <2> QED BY <1>2, <2>2, <2>3, <2>4 DEF Next, Act
<1> QED BY <1>1, <1>2

(* Every state of every behaviour satisfies the invariant.                 *)
THEOREM InvariantHolds == Spec => []IInv
BY InitHolds, StepHolds, PTL DEF Spec

(* Every variable keeps its type.                                          *)
THEOREM TypesHold == Spec => []TypeOK
<1>1. IInv => TypeOK
  BY DEF IInv
<1> QED BY <1>1, InvariantHolds, PTL

(* Whatever the threads do to client_fd, select does not go on failing: a  *)
(* host can always connect.                                                *)
THEOREM NeverDeafHolds == Spec => []NeverDeaf
<1>1. IInv => NeverDeaf
  BY DEF IInv, Repaired, Repair, NeverDeaf, Thread
<1> QED BY <1>1, InvariantHolds, PTL

-----------------------------------------------------------------------------
(* main has sent what it had to before it goes on in tcp_read.             *)
MainIdle == at \in {"accept", "replace", "store", "close", "clear"} => pc["main"] = "idle"

Queued(c) == \E i \in 1 .. Len(backlog) : backlog[i] = c

(* A connection is accepted once, and not before it is made.               *)
Fresh ==
    /\ \A c \in Conn : Queued(c) => link[c] # "free" /\ c # latest /\ \A n \in Fd : owner[n] # c
    /\ \A i, j \in 1 .. Len(backlog) : backlog[i] = backlog[j] => i = j
    /\ \A n \in Fd : owner[n] \in Conn => link[owner[n]] # "free"
    /\ latest \in Conn => link[latest] # "free"

(* Where tcp_read keeps the client it has: in new_fd until it is stored.   *)
HeldBy == IF at \in {"replace", "store"} THEN new_fd ELSE client_fd

Held == \A n \in Fd \ {0} : owner[n] = latest => HeldBy = n

(* Before client_fd is cleared, what it was has been closed.               *)
Dropped ==
    at = "clear" \/ (\E t \in Thread : pc[t] = "clear") => \A n \in Fd \ {0} : owner[n] # latest

Alone == \A t, u \in Using : t = u

(* As long as only one thread at a time is at client_fd, the latest client *)
(* is not lost.                                                            *)
Served == latest # None /\ ~raced => Alone /\ Held /\ Dropped

LInv == MainIdle /\ Fresh /\ Served

(* Two threads are counted as two.                                         *)
LEMMA NotAlone == ASSUME NEW S \in SUBSET Thread, ~(Cardinality(S) > 1) PROVE \A t, u \in S : t = u
<1> SUFFICES ASSUME NEW t \in S, NEW u \in S, t # u PROVE FALSE
  OBVIOUS
<1>1. IsFiniteSet(Thread) /\ IsFiniteSet(S)
  <2>0. IsFiniteSet({"main"})
    BY FS_Singleton
  <2>1. IsFiniteSet({"main"} \cup {"worker"})
    BY <2>0, FS_AddElement
  <2>2. IsFiniteSet(({"main"} \cup {"worker"}) \cup {"irq"})
    BY <2>1, FS_AddElement
  <2>3. Thread = ({"main"} \cup {"worker"}) \cup {"irq"}
    BY DEF Thread
  <2> QED BY <2>2, <2>3, FS_Subset
<1>2. IsFiniteSet({t}) /\ Cardinality({t}) = 1
  BY FS_Singleton
<1>3. Cardinality({t} \cup {u}) = 2
  BY <1>2, FS_AddElement
<1>4. Cardinality({t} \cup {u}) =< Cardinality(S) /\ Cardinality(S) \in Nat
  BY <1>1, FS_Subset, FS_CardinalityType
<1> QED BY <1>3, <1>4

(* They are threads.                                                       *)
LEMMA UsingThreads == Using \in SUBSET Thread /\ Using' \in SUBSET Thread
BY DEF Using, Thread

(* What Watch notes of a step that accepts nobody.                         *)
LEMMA WatchSays ==
    ASSUME Watch, latest' = latest, Served, latest' # None, ~raced'
    PROVE  Alone /\ Held /\ Dropped /\ Alone'
<1>1. ~raced /\ ~(Cardinality(Using') > 1)
  BY DEF Watch
<1>2. Alone'
  BY <1>1, NotAlone, UsingThreads DEF Alone
<1> QED BY <1>1, <1>2 DEF Served

(* Nobody has connected at first.                                          *)
LEMMA InitLatest == Init => LInv
<1> SUFFICES ASSUME Init PROVE LInv
  OBVIOUS
<1>1. None \notin Conn /\ Stdin \notin Conn
  BY Sizes
<1>2. Fresh
  BY <1>1 DEF Init, Fresh, Queued
<1> QED BY <1>2 DEF Init, LInv, MainIdle, Served

(* The connections in the backlog stay fresh, whoever moves.               *)
LEMMA FreshHost == ASSUME IInv, Fresh, Host PROVE Fresh'
<1> USE DEF IInv, TypeOK, Fresh, Queued
<1>1. ASSUME NEW c \in Conn, Connect(c) PROVE Fresh'
  <2> USE <1>1 DEF Connect
  <2>1. /\ Len(backlog') = Len(backlog) + 1 /\ backlog'[Len(backlog) + 1] = c
        /\ \A i \in 1 .. Len(backlog) : backlog'[i] = backlog[i]
    OBVIOUS
  <2>2. /\ link'[c] = "open" /\ \A d \in Conn \ {c} : link'[d] = link[d]
        /\ owner' = owner /\ latest' = latest /\ link[c] = "free" /\ Len(backlog) \in Nat
    OBVIOUS
  <2>3. \A d \in Conn : Queued(d)' => d = c \/ Queued(d)
    BY ONLY <2>1, <2>2 DEF Queued
  <2>4. ~Queued(c)
    BY <2>2
  <2> HIDE <1>1 DEF Connect
  <2>5. \A i, j \in 1 .. Len(backlog') : backlog'[i] = backlog'[j] => i = j
    BY <2>1, <2>2, <2>4, SMTT(60)
  <2>6. \A d \in Conn : Queued(d)' => link'[d] # "free" /\ d # latest' /\ \A n \in Fd : owner'[n] # d
    <3> HIDE DEF Queued
    <3> QED BY <2>2, <2>3
  <2>7. \A n \in Fd : owner'[n] \in Conn => link'[owner'[n]] # "free"
    BY <2>2
  <2> QED BY <2>2, <2>5, <2>6, <2>7
<1>2. ASSUME NEW c \in Conn, HostWrites(c) PROVE Fresh'
  BY <1>2 DEF HostWrites
<1>3. ASSUME NEW c \in Conn, Leave(c) PROVE Fresh'
  BY <1>3 DEF Leave
<1> QED BY <1>1, <1>2, <1>3 DEF Host

(* Nor does a thread that sends change that; it may close.                 *)
LEMMA FreshThread ==
    ASSUME IInv, Fresh, NEW t \in Thread, Send(t) \/ Report(t) \/ Sending(t)
    PROVE  Fresh'
<1> USE DEF IInv, TypeOK, Fresh, Queued, kernel, reader
<1>1. CASE Send(t)
  BY <1>1 DEF Send, Sends, SendFails, Taken
<1>2. CASE Report(t) \/ Encode(t) \/ Test(t)
  BY <1>2 DEF Report, Encode, Test
<1>3. CASE SendCloses(t)
  <2>1. /\ \A n \in Fd : owner'[n] \in {owner[n], None}
        /\ link' = link /\ backlog' = backlog /\ latest' = latest
    BY <1>3 DEF SendCloses, Closed
  <2> QED BY ONLY Fresh, <2>1, Sizes DEF Fresh, Queued
<1>4. CASE SendClears(t)
  BY <1>4 DEF SendClears
<1> QED BY <1>1, <1>2, <1>3, <1>4 DEF Sending

(* accept takes the first of the backlog.                                  *)
LEMMA FreshMain == ASSUME IInv, Fresh, Main PROVE Fresh'
<1> USE Sizes DEF IInv, TypeOK, Fresh, kernel
<1>1. CASE Select \/ Read
  BY <1>1 DEF Select, Read, Go, Queued
<1>2. CASE Accept
  <2> USE <1>2 DEF Accept
  <2>1. backlog # <<>>
    BY DEF Waiting
  <2>2. /\ latest' = backlog[1] /\ latest' \in Conn /\ Len(backlog) \in Nat \ {0}
        /\ Len(backlog') = Len(backlog) - 1
        /\ \A i \in 1 .. Len(backlog') : backlog'[i] = backlog[i + 1]
    BY <2>1
  <2>3. new_fd' \in Fd /\ \A n \in Fd : owner'[n] \in {owner[n], latest'}
    BY DEF Free
  <2>4. link' = link
    OBVIOUS
  <2>a. /\ \A c \in Conn : Queued(c) => link[c] # "free" /\ \A n \in Fd : owner[n] # c
        /\ \A i, j \in 1 .. Len(backlog) : backlog[i] = backlog[j] => i = j
        /\ \A n \in Fd : owner[n] \in Conn => link[owner[n]] # "free"
    OBVIOUS
  <2>b. Queued(latest')
    BY ONLY <2>2 DEF Queued
  <2>5. \A c \in Conn : Queued(c)' => Queued(c) /\ c # latest'
    BY ONLY <2>2, <2>a DEF Queued
  <2>6. \A i, j \in 1 .. Len(backlog') : backlog'[i] = backlog'[j] => i = j
    BY ONLY <2>2, <2>a
  <2> QED BY ONLY <2>2, <2>3, <2>4, <2>5, <2>6, <2>a, <2>b DEF Fresh
<1>3. CASE Replace
  BY <1>3, ZenonT(60) DEF Replace, Closed, Go, Queued
<1>4. CASE Store
  BY <1>4 DEF Store, Queued
<1>5. CASE ReadCloses
  BY <1>5, ZenonT(60) DEF ReadCloses, Closed, Go, Queued
<1>6. CASE ReadClears
  BY <1>6, ZenonT(60) DEF ReadClears, Go, Queued
<1> QED BY <1>1, <1>2, <1>3, <1>4, <1>5, <1>6 DEF Main

(* send takes the bytes or fails; it touches no descriptor.                *)
LEMMA SendLeaves ==
    ASSUME NEW t \in Thread, Send(t)
    PROVE  /\ pc[t] = "send" /\ UNCHANGED <<client_fd, reader, owner, latest>>
           /\ pc' = pc \/ \E w \in {"idle", "close"} : pc' = [pc EXCEPT ![t] = w]
<1> DEFINE P == pc' = pc \/ \E w \in {"idle", "close"} : pc' = [pc EXCEPT ![t] = w]
<1>1. ASSUME NEW c, Sends(t, c) PROVE P
  BY ONLY <1>1 DEF Sends, Taken, Goto
<1>2. ASSUME NEW c, SendFails(t, c) PROVE P
  BY ONLY <1>2 DEF SendFails, Goto
<1> QED BY <1>1, <1>2 DEF Send

(* main sends between its rounds only.                                     *)
LEMMA IdleStep ==
    ASSUME IInv, MainIdle, Host \/ Main \/ \E t \in Thread : Send(t) \/ Report(t) \/ Sending(t)
    PROVE  MainIdle'
<1> USE DEF IInv, TypeOK, MainIdle, reader
<1>1. CASE Host
  BY <1>1 DEF Host, Connect, HostWrites, Leave
<1>2. CASE Main
  BY <1>2 DEF Main, Select, Accept, Replace, Store, Read, ReadCloses, ReadClears, Go
<1>3. ASSUME NEW t \in Thread, Send(t) \/ Report(t) \/ Sending(t) PROVE MainIdle'
  <2>1. CASE Send(t)
    BY <2>1, SendLeaves DEF Thread
  <2>2. CASE Report(t)
    BY <2>2 DEF Report, Begin, Goto, Thread
  <2>3. CASE Sending(t)
    BY <2>3 DEF Sending, Encode, Test, SendCloses, SendClears, Goto, Thread
  <2> QED BY <1>3, <2>1, <2>2, <2>3
<1> QED BY <1>1, <1>2, <1>3

(* The hosts, and a thread that encodes or sends, lose no client.          *)
LEMMA ServedHost == ASSUME IInv, Alone, Held, Dropped, Host PROVE Held' /\ Dropped'
BY DEF Host, Connect, HostWrites, Leave, Held, HeldBy, Dropped, reader

(* It may close the client and clear client_fd, which then is nobody's.    *)
LEMMA ServedThread ==
    ASSUME IInv, MainIdle, Alone, Held, Dropped, NEW t \in Thread, Send(t) \/ Report(t) \/ Sending(t),
           latest \in Conn
    PROVE  Held' /\ Dropped'
<1> USE Sizes DEF IInv, TypeOK, Held, HeldBy, Dropped, Goto, kernel, reader, Thread
<1>1. CASE Send(t)
  BY <1>1, SendLeaves
<1>2. CASE Report(t) \/ Encode(t) \/ Test(t)
  BY <1>2 DEF Report, Begin, Encode, Test
<1>3. pc[t] \in {"close", "clear"} => at \notin {"replace", "store"}
  BY DEF Alone, Using, MainIdle
<1>4. CASE SendCloses(t)
  BY <1>3, <1>4 DEF SendCloses, Closed
<1>5. CASE SendClears(t)
  BY <1>3, <1>5 DEF SendClears
<1> QED BY <1>1, <1>2, <1>4, <1>5 DEF Sending

(* Nor does main, which stores a client it has accepted.                   *)
LEMMA ServedMain ==
    ASSUME IInv, MainIdle, Alone, Held, Dropped, Main, ~Accept, latest \in Conn
    PROVE  Held' /\ Dropped'
<1> USE Sizes DEF IInv, TypeOK, MainIdle, Held, HeldBy, Dropped, Go, Closed, kernel
<1>1. CASE Select \/ Read
  BY <1>1 DEF Select, Read, Begin, Goto
<1>2. CASE Replace
  BY <1>2 DEF Replace
<1>3. CASE Store
  BY <1>3 DEF Store, Begin, Goto
<1>4. CASE ReadCloses
  BY <1>4 DEF ReadCloses
<1>5. CASE ReadClears
  BY <1>5 DEF ReadClears
<1> QED BY <1>1, <1>2, <1>3, <1>4, <1>5 DEF Main

(* A connection accepted while nobody is at client_fd is held, and is held *)
(* nowhere else.                                                           *)
LEMMA ServedAccept ==
    ASSUME IInv, Fresh, Accept, Watch, ~raced'
    PROVE  Alone' /\ Held' /\ Dropped'
<1> USE DEF Accept, Go
<1>1. latest' = backlog[1] /\ latest' \in Conn /\ Queued(latest')
  BY DEF IInv, TypeOK, Waiting, Queued
<1>2. latest' # latest /\ \A n \in Fd : owner[n] # latest'
  BY <1>1 DEF Fresh
<1>3. Using = {}
  BY <1>2 DEF Watch
<1>4. \A t \in Thread : pc'[t] \notin {"send", "close", "clear"}
  BY <1>3 DEF Using
<1>5. Alone'
  BY <1>4 DEF Alone, Using
<1>6. Held'
  BY <1>2 DEF Held, HeldBy, IInv, TypeOK
<1>7. Dropped'
  BY <1>4 DEF Dropped
<1> QED BY <1>5, <1>6, <1>7

(* All of it is inductive.                                                 *)
LEMMA LatestStep == IInv /\ LInv /\ [Next]_vars => LInv'
<1> SUFFICES ASSUME IInv, LInv, [Next]_vars PROVE LInv'
  OBVIOUS
<1>1. CASE UNCHANGED vars
  BY <1>1 DEF vars, encoder, reader, kernel, LInv, MainIdle, Fresh, Queued, Served, Alone, Held,
              HeldBy, Dropped, Using
<1>2. CASE Next
  <2>1. Host \/ Main \/ \E t \in Thread : Send(t) \/ Report(t) \/ Sending(t)
    BY <1>2 DEF Next, Act, Other
  <2>2. MainIdle'
    BY <2>1, IdleStep DEF LInv
  <2>3. Fresh'
    BY <2>1, FreshHost, FreshMain, FreshThread DEF LInv
  <2>4. Watch
    BY <1>2 DEF Next
  <2>5. ASSUME latest' # None, ~raced', ~Accept PROVE (Alone /\ Held /\ Dropped)'
    <3>1. latest' = latest
      BY <2>1, <2>5 DEF Host, Connect, HostWrites, Leave, Main, Select, Replace, Store, Read,
                        ReadCloses, ReadClears, Send, Sends, SendFails, Report, Sending, Encode,
                        Test, SendCloses, SendClears
    <3>2. latest \in Conn
      BY <3>1, <2>5 DEF IInv, TypeOK
    <3>3. Alone /\ Held /\ Dropped /\ Alone'
      BY <2>4, <2>5, <3>1, WatchSays DEF LInv
    <3> QED BY <2>1, <2>5, <3>2, <3>3, ServedHost, ServedThread, ServedMain DEF LInv
  <2>6. ASSUME ~raced', Accept PROVE (Alone /\ Held /\ Dropped)'
    BY <2>4, <2>6, ServedAccept DEF LInv
  <2>7. Served'
    BY <2>5, <2>6 DEF Served
  <2> QED BY <2>2, <2>3, <2>7 DEF LInv
<1> QED BY <1>1, <1>2

(* However many hosts come and go, and whatever was lost before: the host  *)
(* that connected last is the client, or its connection has been closed,   *)
(* unless two threads have met at client_fd since.                         *)
THEOREM LatestServedHolds == Spec => []LatestServed
<1>1. IInv /\ LInv => LatestServed
  BY DEF LInv, Served, Held, HeldBy, LatestServed, IInv, TypeOK
<1> QED BY <1>1, InvariantHolds, InitLatest, LatestStep, PTL DEF Spec

-----------------------------------------------------------------------------
(* A set of numbers has a least one: what stands here for induction.       *)
LEMMA LeastNumber == ASSUME NEW S \in SUBSET Nat, S # {} PROVE \E m \in S : \A n \in S : m =< n
<1> DEFINE R == {ss \in Nat \X Nat : ss[1] < ss[2]}
<1>1. IsWellFoundedOn(R, Nat)
  BY NatLessThanWellFounded DEF OpToRel
<1>2. \E m \in S : \A n \in S : ~(<<n, m>> \in R)
  <2> HIDE DEF R
  <2> QED BY <1>1, WFMin
<1>3. PICK m \in S : \A n \in S : ~(<<n, m>> \in R)
  BY <1>2
<1>4. \A n \in S : ~(n < m)
  BY <1>3
<1> QED BY <1>3, <1>4

(* Decode, cell by cell: what comes after what there was before.           *)
AfterCell(was, c, i) ==
    IF i = 0 THEN [part |-> part[c], frame |-> <<>>]
    ELSE IF buf_out[i] # Fend THEN [was EXCEPT !.part = Append(@, buf_out[i])]
    ELSE [part |-> <<>>, frame |-> IF was.part = <<>> THEN was.frame ELSE was.part]

Decoder(c, n) == CHOOSE d : d = [i \in 0..n |-> AfterCell(d[i - 1], c, i)]

(* A function that goes from cell to cell as the decoder does is the       *)
(* decoder.                                                                *)
LEMMA DecoderIs ==
    ASSUME NEW c, NEW n \in Nat, NEW e, e = [i \in 0..n |-> AfterCell(e[i - 1], c, i)]
    PROVE  Decode(c, n) = e[n]
<1> DEFINE d == Decoder(c, n)
           S == {i \in 0..n : d[i] # e[i]}
<1>1. Decode(c, n) = d[n]
  BY DEF Decode, Decoder, AfterCell
<1>2. d = [i \in 0..n |-> AfterCell(d[i - 1], c, i)]
  BY Zenon DEF Decoder
<1> HIDE DEF d
<1>3. \A i \in 0..n : d[i] = AfterCell(d[i - 1], c, i) /\ e[i] = AfterCell(e[i - 1], c, i)
  BY <1>2
<1>4. d[0] = e[0]
  <2>1. 0 \in 0..n
    OBVIOUS
  <2>2. d[0] = AfterCell(d[0 - 1], c, 0) /\ e[0] = AfterCell(e[0 - 1], c, 0)
    BY ONLY <1>3, <2>1
  <2> QED BY ONLY <2>2 DEF AfterCell
<1>5. ASSUME NEW m \in S, \A i \in S : m =< i PROVE FALSE
  <2>1. m \in 0..n /\ d[m] # e[m] /\ m # 0
    BY <1>4
  <2>2. m - 1 \in 0..n /\ m - 1 \notin S
    BY <1>5, <2>1
  <2>3. d[m - 1] = e[m - 1]
    BY <2>2
  <2> QED BY <1>3, <2>1, <2>3
<1>6. S \in SUBSET Nat /\ (n \notin S => d[n] = e[n])
  OBVIOUS
<1> HIDE DEF S
<1> QED BY <1>1, <1>5, <1>6, LeastNumber

(* What the decoder makes of a frame whose cells are all its own: the Fend *)
(* before it ends whatever it follows.                                     *)
LEMMA WholeDecodes ==
    ASSUME NEW t \in Thread, NEW c \in Conn, \A i \in 1..Length(t) : buf_out[i] = Cell(t, i)
    PROVE  Decode(c, Length(t)).frame = Payload(t)
<1> DEFINE k == Size[t]
           old == IF part[c] = <<>> THEN <<>> ELSE part[c]
           some(i) == [j \in 1..i |-> t]
           e == [i \in 0..Length(t) |->
                   IF i = 0 THEN [part |-> part[c], frame |-> <<>>]
                   ELSE IF i = Length(t) THEN [part |-> <<>>, frame |-> some(k)]
                   ELSE [part |-> some(i - 1), frame |-> old]]
<1>1. k \in Nat \ {0} /\ Length(t) = k + 2 /\ t # Fend
  BY HostOutAssumption DEF Length, Thread
<1>2. /\ buf_out[1] = Fend /\ buf_out[Length(t)] = Fend
      /\ \A i \in 2..(k + 1) : buf_out[i] = t
  BY <1>1 DEF Cell
<1>3. \A i \in Nat : Append(some(i), t) = some(i + 1)
  OBVIOUS
<1>4. some(0) = <<>> /\ some(k) # <<>>
  BY <1>1
<1>5. /\ e[0] = [part |-> part[c], frame |-> <<>>]
      /\ e[Length(t)] = [part |-> <<>>, frame |-> some(k)]
      /\ \A i \in 1..(k + 1) : e[i] = [part |-> some(i - 1), frame |-> old]
  BY <1>1
<1> HIDE DEF k, some, old, e
<1>6. ASSUME NEW i \in 0..Length(t) PROVE e[i] = AfterCell(e[i - 1], c, i)
  <2>1. CASE i = 0
    BY <2>1, <1>5 DEF AfterCell
  <2>2. CASE i = 1
    <3>1. e[i] = [part |-> <<>>, frame |-> old] /\ e[i - 1] = [part |-> part[c], frame |-> <<>>]
      BY <2>2, <1>1, <1>4, <1>5
    <3>2. buf_out[i] = Fend /\ i # 0
      BY <2>2, <1>2
    <3> QED BY ONLY <3>1, <3>2 DEF AfterCell, old
  <2>3. CASE i \in 2..(k + 1)
    <3>1. e[i] = [part |-> some(i - 1), frame |-> old] /\ e[i - 1] = [part |-> some(i - 2), frame |-> old]
      BY <2>3, <1>1, <1>5
    <3>2. i - 2 \in Nat /\ (i - 2) + 1 = i - 1
      BY <2>3, <1>1
    <3>3. some(i - 1) = Append(some(i - 2), t)
      BY <1>3, <3>2
    <3>4. buf_out[i] = t /\ i # 0
      BY <2>3, <1>1, <1>2
    <3>5. AfterCell(e[i - 1], c, i) = [e[i - 1] EXCEPT !.part = Append(@, t)]
      BY ONLY <1>1, <3>4 DEF AfterCell
    <3>6. AfterCell(e[i - 1], c, i) = [part |-> Append(some(i - 2), t), frame |-> old]
      BY ONLY SMTT(60), <3>1, <3>5
    <3> QED BY ONLY <3>1, <3>3, <3>6
  <2>4. CASE i = Length(t)
    <3>1. e[i - 1] = [part |-> some(k), frame |-> old]
      BY <2>4, <1>1, <1>5
    <3> QED BY <2>4, <1>1, <1>2, <1>4, <1>5, <3>1 DEF AfterCell
  <2> QED BY <1>1, <2>1, <2>2, <2>3, <2>4
<1>7. e = [i \in 0..Length(t) |-> AfterCell(e[i - 1], c, i)]
  BY <1>6 DEF e
<1>8. Decode(c, Length(t)) = e[Length(t)]
  BY <1>1, <1>7, DecoderIs
<1> QED BY <1>5, <1>8 DEF some, k, Payload

(* The cells a thread has written of its frame are as it wrote them, as    *)
(* long as nobody else has written any.                                    *)
Clean ==
    \A t \in Thread : clean[t] =>
        /\ pc[t] = "encode" => \A i \in 1..(index[t] - 1) : buf_out[i] = Cell(t, i)
        /\ pc[t] \in {"test", "send"} => \A i \in 1..Length(t) : buf_out[i] = Cell(t, i)

CInv == Clean /\ LoneFramesWhole

(* kiss_encode begins: the thread's own cell, and nobody else is clean.    *)
LEMMA CleanBegin == ASSUME IInv, NEW t \in Thread, Begin(t) PROVE Clean'
<1> USE DEF IInv, TypeOK, Begin, Goto
<1>1. \A u \in Thread : clean'[u] => u = t
  OBVIOUS
<1>2. buf_out'[1] = Cell(t, 1) /\ index'[t] = 2 /\ pc'[t] = "encode"
  BY Sizes DEF Cells
<1> QED BY ONLY <1>1, <1>2 DEF Clean

(* A cell more is the thread's own, and the last one makes the frame whole. *)
LEMMA CleanEncode == ASSUME IInv, Clean, NEW t \in Thread, Encode(t) PROVE Clean'
<1> USE DEF IInv, TypeOK, Encode, Goto
<1>1. \A u \in Thread : clean'[u] => u = t /\ clean[t]
  OBVIOUS
<1>2. index[t] \in Cells /\ index[t] =< Length(t) /\ Length(t) \in Nat
  BY Sizes DEF IndexInFrame
<1>3. /\ buf_out'[index[t]] = Cell(t, index[t])
      /\ \A i \in Cells \ {index[t]} : buf_out'[i] = buf_out[i]
  BY <1>2
<1>4. Length(t) =< MTU /\ MTU \in Nat
  BY Sizes
<1>5. clean[t] => \A i \in 1..index[t] : buf_out'[i] = Cell(t, i)
  <2> SUFFICES ASSUME clean[t], NEW i \in 1..index[t] PROVE buf_out'[i] = Cell(t, i)
    OBVIOUS
  <2>1. CASE i = index[t]
    BY <1>3, <2>1
  <2>2. CASE i # index[t]
    <3>1. i \in 1..(index[t] - 1) /\ i \in Cells
      BY ONLY <1>2, <1>4, <2>2, i \in 1..index[t] DEF Cells
    <3> QED BY <1>3, <2>2, <3>1 DEF Clean
  <2> QED BY <2>1, <2>2
<1>6. CASE index[t] = Length(t)
  <2>1. pc'[t] = "test"
    BY <1>6
  <2> QED BY ONLY <1>1, <1>5, <1>6, <2>1 DEF Clean
<1>7. CASE index[t] # Length(t)
  <2>1. pc'[t] = "encode" /\ index'[t] - 1 = index[t]
    BY <1>2, <1>7 DEF Cells
  <2> QED BY ONLY <1>1, <1>5, <2>1 DEF Clean
<1> QED BY <1>6, <1>7

(* tcp_send writes no cell; what send takes of a clean frame is the frame. *)
LEMMA CleanSend ==
    ASSUME IInv, Clean, LoneFramesWhole, NEW t \in Thread, Send(t)
    PROVE  Clean' /\ LoneFramesWhole'
<1> USE DEF IInv, TypeOK, Send, Goto
<1>1. Clean'
  BY DEF Clean, Sends, SendFails, Taken
<1>2. ASSUME NEW c \in Conn, NEW n, Taken(t, c, n) PROVE LoneFramesWhole'
  <2>1. clean[t] => Decode(c, Length(t)).frame = Payload(t)
    BY WholeDecodes DEF Clean
  <2> QED BY <1>2, <2>1 DEF Taken, LoneFramesWhole
<1>3. spoiled' = spoiled => LoneFramesWhole'
  BY DEF LoneFramesWhole
<1>4. CASE Sends(t, owner[fd[t]])
  BY <1>1, <1>2, <1>4 DEF Sends
<1>5. CASE SendFails(t, owner[fd[t]])
  BY <1>1, <1>3, <1>5 DEF SendFails
<1> QED BY <1>1, <1>4, <1>5

(* Every step keeps the frames on the way whole.                           *)
LEMMA CleanStep == IInv /\ CInv /\ [Next]_vars => CInv'
<1> SUFFICES ASSUME IInv, Clean, LoneFramesWhole, [Next]_vars PROVE Clean' /\ LoneFramesWhole'
  BY DEF CInv
<1>1. CASE UNCHANGED <<buf_out, index, clean, pc, spoiled>>
  BY <1>1 DEF Clean, LoneFramesWhole
<1>2. CASE Other(Host)
  BY <1>1, <1>2 DEF Other, Host, Connect, HostWrites, Leave, encoder
<1>3. CASE Other(Main)
  <2>1. CASE Begin("main")
    BY <1>3, <2>1, CleanBegin DEF Other, LoneFramesWhole, Thread
  <2>2. CASE ~Begin("main")
    BY <1>1, <1>3, <2>2 DEF Other, Main, Select, Accept, Replace, Store, Read, ReadCloses,
                            ReadClears, Go, encoder
  <2> QED BY <2>1, <2>2
<1>4. ASSUME NEW t \in Thread, Send(t) PROVE Clean' /\ LoneFramesWhole'
  BY <1>4, CleanSend
<1>5. ASSUME NEW t \in Thread, Other(Report(t)) PROVE Clean' /\ LoneFramesWhole'
  BY <1>5, CleanBegin DEF Other, Report, LoneFramesWhole
<1>6. ASSUME NEW t \in Thread, Other(Sending(t)) PROVE Clean' /\ LoneFramesWhole'
  <2>1. LoneFramesWhole'
    BY <1>6 DEF Other, LoneFramesWhole
  <2>2. CASE Encode(t)
    BY <2>1, <2>2, CleanEncode
  <2>3. CASE Test(t)
    BY <2>1, <2>3 DEF Test, Goto, Clean, IInv, TypeOK, encoder
  <2>4. CASE SendCloses(t) \/ SendClears(t)
    BY <2>1, <2>4 DEF SendCloses, SendClears, Goto, Clean, IInv, TypeOK, encoder
  <2> QED BY <1>6, <2>2, <2>3, <2>4 DEF Other, Sending
<1>7. CASE UNCHANGED vars
  BY <1>1, <1>7 DEF vars, encoder
<1> QED BY <1>2, <1>3, <1>4, <1>5, <1>6, <1>7 DEF Next, Act

(* However frames were cut and mixed before: a frame that only its thread  *)
(* has written, and that send takes whole, is what the host decodes, for   *)
(* the Fend at its start ends whatever was left over (kiss_encode).        *)
THEOREM LoneFramesHold == Spec => []LoneFramesWhole
<1>1. Init => CInv
  BY DEF Init, CInv, Clean, LoneFramesWhole
<1>2. CInv => LoneFramesWhole
  BY DEF CInv
<1> QED BY <1>1, <1>2, CleanStep, InvariantHolds, PTL DEF Spec
=============================================================================
