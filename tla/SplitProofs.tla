---------------------------- MODULE SplitProofs -----------------------------
(***************************************************************************)
(* That a node never joins parts of two packets, for any number of nodes,  *)
(* packets and sequence numbers, as long as no sequence number is used for *)
(* two split packets.  The stored part and the one that completes it carry *)
(* the same number, so they are of one packet (SeqUnique); a tail is sent  *)
(* once and after its head (Owed), so the stored one is the head.          *)
(***************************************************************************)
EXTENDS Split, SequenceTheorems, TLAPS

StoredIsSent == seq # SEQ_UNSET => buf_in[1] \in sent /\ buf_in[1].part # "whole"

SeqUnique ==
    \A f, g \in sent : f.part # "whole" /\ g.part # "whole" /\ f.seq = g.seq => f.packet = g.packet

Counted == \A f \in sent : f.packet[2] =< count[f.packet[1]]

Owed ==
    \A s \in Sender : head[s] # None =>
        /\ head[s] \in sent /\ head[s].part = "head" /\ head[s].packet[1] = s
        /\ \A f \in sent : f.packet = head[s].packet => f = head[s]

(* The head heard last is still stored.                                    *)
HeardStored ==
    heard # None => /\ heard \in sent
                    /\ heard.part = "head" => seq = heard.seq /\ buf_in = <<heard>>

IInv == /\ Types /\ StoredWithSeq /\ StoredIsSent /\ SeqUnique /\ Counted /\ Owed
        /\ HeardStored /\ GivenIsGenuine

Tail2(s) == [head[s] EXCEPT !.part = "tail"]

LEMMA Initially == Init => IInv
<1> SUFFICES ASSUME Init PROVE IInv
  OBVIOUS
<1> USE DEF Init
<1>1. Types
  <2>1. buf_in = <<>> /\ Len(buf_in) = 0 /\ buf_in \in Seq(Frame)
    OBVIOUS
  <2>2. given = <<>> /\ given \in Seq(Seq(Frame))
    OBVIOUS
  <2>3. promisc \in BOOLEAN /\ seq = SEQ_UNSET /\ sent = {} /\ heard = None
    BY Zenon
  <2>5. toggles \in 0 .. MaxPromisc
    BY SplitAssumption
  <2>4. head \in [Sender -> Frame \cup {None}] /\ count \in [Sender -> 0 .. MaxSend]
    BY SplitAssumption
  <2> QED BY <2>1, <2>2, <2>3, <2>4, <2>5 DEF Types
<1>2. StoredWithSeq /\ StoredIsSent
  BY DEF StoredWithSeq, StoredIsSent
<1>3. SeqUnique /\ Counted /\ Owed /\ HeardStored
  BY DEF SeqUnique, Counted, Owed, HeardStored
<1>4. GivenIsGenuine
  BY DEF GivenIsGenuine
<1> QED BY <1>1, <1>2, <1>3, <1>4 DEF IInv

(* What a frame does to the receiver's types.                              *)
LEMMA ReceiverTyped ==
  ASSUME Types, StoredWithSeq, NEW f \in Frame, FromAir(f) \/ Lost
  PROVE  /\ seq' \in SeqNo \cup {SEQ_UNSET} /\ buf_in' \in Seq(Frame) /\ Len(buf_in') =< 1
         /\ heard' \in Frame \cup {None} /\ given' \in Seq(Seq(Frame))
         /\ StoredWithSeq'
<1>0. f.seq \in SeqNo /\ f.seq # SEQ_UNSET
  BY SplitAssumption DEF Frame
<1>1. /\ <<f>> \in Seq(Frame) /\ Len(<<f>>) = 1 /\ <<f>>[1] = f
      /\ <<>> \in Seq(Frame) /\ Len(<<>>) = 0
      /\ Append(buf_in, f) \in Seq(Frame)
  BY DEF Types
<1>2. \A parts \in Seq(Frame) : Append(given, parts) \in Seq(Seq(Frame))
  BY DEF Types
<1>3. CASE Raw(f) \/ Lost
  BY <1>1, <1>2, <1>3 DEF Raw, Lost, Give, receiver, Types, StoredWithSeq
<1>4. CASE First(f) \/ Other(f)
  <2>1. seq' = f.seq /\ buf_in' = <<f>> /\ heard' = f /\ given' = given
    BY <1>4 DEF First, Other, Parsed, Store
  <2>2. <<f>>[1].seq = f.seq
    BY <1>1
  <2> QED BY <1>0, <1>1, <2>1, <2>2 DEF Types, StoredWithSeq
<1>5. CASE Second(f) \/ Whole(f)
  <2>1. seq' = SEQ_UNSET /\ buf_in' = <<>> /\ heard' = f
    BY <1>5 DEF Second, Whole, Parsed, Clear
  <2>2. given' \in Seq(Seq(Frame))
    BY <1>1, <1>2, <1>5 DEF Second, Whole, Give
  <2> QED BY <1>1, <2>1, <2>2 DEF StoredWithSeq
<1> QED BY <1>3, <1>4, <1>5 DEF FromAir

(* The frames a node sends, field by field.                                *)
LEMMA FrameTyped ==
  ASSUME Types, NEW s \in Sender
  PROVE  /\ count[s] < MaxSend => \A part \in Part, q \in SeqNo :
               /\ New(s, part, q) \in Frame /\ New(s, part, q).packet = <<s, count[s] + 1>>
               /\ New(s, part, q).part = part /\ New(s, part, q).seq = q
         /\ head[s] # None =>
               /\ Tail2(s) \in Frame /\ Tail2(s).packet = head[s].packet
               /\ Tail2(s).part = "tail" /\ Tail2(s).seq = head[s].seq
<1>1. count[s] \in Nat /\ (count[s] < MaxSend => count[s] + 1 \in 1 .. MaxSend)
  BY SplitAssumption DEF Types
<1>2. ASSUME count[s] < MaxSend, NEW part \in Part, NEW q \in SeqNo
      PROVE  /\ New(s, part, q) \in Frame /\ New(s, part, q).packet = <<s, count[s] + 1>>
             /\ New(s, part, q).part = part /\ New(s, part, q).seq = q
  BY <1>1, <1>2 DEF New, Frame, Packet
<1>3. ASSUME head[s] # None
      PROVE  /\ Tail2(s) \in Frame /\ Tail2(s).packet = head[s].packet
             /\ Tail2(s).part = "tail" /\ Tail2(s).seq = head[s].seq
  <2>1. head[s] \in Frame
    BY <1>3 DEF Types
  <2> QED BY <2>1 DEF Tail2, Frame, Part
<1> QED BY <1>2, <1>3

(* What the receiver does with a frame, if a head has a number of its own  *)
(* and a tail meets nothing but its head.                                  *)
LEMMA ReceiverStep ==
  ASSUME Types, StoredWithSeq, StoredIsSent, HeardStored, GivenIsGenuine,
         NEW f \in Frame, FromAir(f) \/ Lost, sent' = sent \cup {f},
         f.part = "head" => seq # f.seq,
         f.part = "tail" /\ seq = f.seq => buf_in[1].part = "head" /\ buf_in[1].packet = f.packet
  PROVE  StoredIsSent' /\ HeardStored' /\ GivenIsGenuine'
<1>0. f.seq # SEQ_UNSET /\ f.part \in Part /\ f # None
  BY SplitAssumption, NoneAssumption DEF Frame
<1>1. /\ <<f>>[1] = f /\ Len(<<f>>) = 1
      /\ seq # SEQ_UNSET => /\ Len(Append(buf_in, f)) = 2
                             /\ Append(buf_in, f)[1] = buf_in[1] /\ Append(buf_in, f)[2] = f
  BY DEF Types, StoredWithSeq
<1>2. ASSUME NEW parts, Genuine(parts), given' = Append(given, parts) PROVE GivenIsGenuine'
  <2>1. Len(given') = Len(given) + 1 /\ given'[Len(given) + 1] = parts
        /\ \A i \in 1 .. Len(given) : given'[i] = given[i]
    BY <1>2 DEF Types
  <2> QED BY <1>2, <2>1 DEF GivenIsGenuine, Types
<1>3. CASE Lost
  BY <1>3 DEF Lost, receiver, StoredIsSent, HeardStored, GivenIsGenuine
<1>4. CASE Raw(f)
  <2>1. GivenIsGenuine'
    BY <1>1, <1>2, <1>4 DEF Raw, Give, Genuine
  <2> QED BY <1>4, <2>1 DEF Raw, StoredIsSent, HeardStored
<1>5. CASE First(f) \/ Other(f)
  <2>1. seq' = f.seq /\ buf_in' = <<f>> /\ heard' = f /\ given' = given /\ f.part # "whole"
    BY <1>5 DEF First, Other, Parsed, Store
  <2> QED BY <1>1, <2>1 DEF StoredIsSent, HeardStored, GivenIsGenuine
<1>6. CASE Second(f)
  <2>1. /\ seq = f.seq /\ f.part # "whole" /\ heard' = f /\ seq' = SEQ_UNSET
        /\ given' = Append(given, Append(buf_in, f))
    BY <1>6 DEF Second, Parsed, Clear, Give
  <2>2. f.part = "tail"
    BY <1>0, <2>1 DEF Part
  <2>3. Genuine(Append(buf_in, f))
    BY <1>0, <1>1, <2>1, <2>2 DEF Genuine
  <2> QED BY <1>2, <2>1, <2>2, <2>3 DEF StoredIsSent, HeardStored
<1>7. CASE Whole(f)
  <2>1. seq' = SEQ_UNSET /\ f.part = "whole" /\ heard' = f
    BY <1>7 DEF Whole, Parsed, Clear
  <2>2. PICK parts \in {Append(buf_in, f), <<f>>} :
            given' = Append(given, parts) /\ (parts = <<f>> \/ seq = SEQ_UNSET)
    BY <1>7 DEF Whole, Give
  <2>3. Len(parts) = 1
    <3>1. seq = SEQ_UNSET => buf_in = <<>> /\ Len(Append(buf_in, f)) = 1
      BY DEF StoredWithSeq
    <3> QED BY <1>1, <2>2, <3>1
  <2>4. Genuine(parts)
    BY <2>3 DEF Genuine
  <2> QED BY <1>2, <2>1, <2>2, <2>4 DEF StoredIsSent, HeardStored
<1> QED BY <1>3, <1>4, <1>5, <1>6, <1>7 DEF FromAir

(* A tail meets nothing but its own head.                                  *)
LEMMA TailMeetsHead ==
  ASSUME IInv, NEW s \in Sender, head[s] # None
  PROVE  /\ seq = head[s].seq => buf_in[1] = head[s]
         /\ \A f \in sent : f.packet = head[s].packet => f = head[s]
<1>1. head[s] \in sent /\ head[s].part = "head" /\ head[s] \in Frame
  BY DEF IInv, Owed, Types
<1>2. ASSUME seq = head[s].seq PROVE buf_in[1] = head[s]
  <2>1. seq # SEQ_UNSET
    BY <1>1, <1>2, SplitAssumption DEF Frame
  <2>2. buf_in[1] \in sent /\ buf_in[1].part # "whole" /\ buf_in[1].seq = head[s].seq
    BY <1>2, <2>1 DEF IInv, StoredIsSent, StoredWithSeq
  <2>3. buf_in[1].packet = head[s].packet
    BY <1>1, <2>2 DEF IInv, SeqUnique
  <2> QED BY <2>2, <2>3 DEF IInv, Owed
<1> QED BY <1>2 DEF IInv, Owed

LEMMA Typed ==
  ASSUME Types, StoredWithSeq, NEW f \in Frame, FromAir(f) \/ Lost, sent' = sent \cup {f},
         UNCHANGED host, head' \in [Sender -> Frame \cup {None}], count' \in [Sender -> 0 .. MaxSend]
  PROVE  Types' /\ StoredWithSeq'
<1>1. /\ seq' \in SeqNo \cup {SEQ_UNSET} /\ buf_in' \in Seq(Frame) /\ Len(buf_in') =< 1
      /\ heard' \in Frame \cup {None} /\ given' \in Seq(Seq(Frame))
      /\ StoredWithSeq'
  BY ReceiverTyped
<1>2. sent' \in SUBSET Frame
  BY DEF Types
<1>3. promisc' = promisc /\ toggles' = toggles
  BY DEF host
<1>4. promisc \in BOOLEAN /\ toggles \in 0 .. MaxPromisc
  BY DEF Types
<1> QED BY <1>1, <1>2, <1>3, <1>4 DEF Types

(* A new packet, whole or a head.                                          *)
LEMMA NewStep ==
  ASSUME IInv, NEW s \in Sender, NEW part \in {"whole", "head"}, NEW q \in SeqNo,
         count[s] < MaxSend, head[s] = None, Emit(New(s, part, q)), UNCHANGED host,
         part = "head" => \A f \in sent : f.part # "whole" => f.seq # q,
         count' = [count EXCEPT ![s] = @ + 1],
         head' = IF part = "head" THEN [head EXCEPT ![s] = New(s, part, q)] ELSE head
  PROVE  IInv'
<1> DEFINE n == New(s, part, q)
<1>1. n \in Frame /\ n.packet = <<s, count[s] + 1>> /\ n.part = part /\ n.seq = q
  BY FrameTyped DEF IInv, Part
<1>2. sent' = sent \cup {n} /\ (FromAir(n) \/ Lost)
  BY DEF Emit
<1> HIDE DEF n
<1>3. /\ count \in [Sender -> 0 .. MaxSend] /\ head \in [Sender -> Frame \cup {None}]
      /\ \A f \in sent : f \in Frame /\ f.packet[1] \in Sender /\ f.packet[2] \in Nat
  BY DEF IInv, Types, Frame, Packet
<1>4. /\ count' \in [Sender -> 0 .. MaxSend] /\ count'[s] = count[s] + 1
      /\ \A t \in Sender : t # s => count'[t] = count[t]
  BY <1>3, SplitAssumption
<1>5. /\ head' \in [Sender -> Frame \cup {None}]
      /\ \A t \in Sender : t # s => head'[t] = head[t]
      /\ head'[s] # None => part = "head" /\ head'[s] = n
  BY <1>1, <1>3 DEF n
<1>6. Types' /\ StoredWithSeq'
  BY <1>1, <1>2, <1>4, <1>5, Typed DEF IInv
<1>7. \A f \in sent : f.packet # n.packet
  BY <1>1, <1>3 DEF IInv, Counted
<1>8. SeqUnique'
  BY <1>1, <1>2 DEF IInv, SeqUnique
<1>9. Counted'
  BY <1>1, <1>2, <1>3, <1>4 DEF IInv, Counted
<1>10. Owed'
  <2> SUFFICES ASSUME NEW t \in Sender, head'[t] # None
               PROVE  /\ head'[t] \in sent' /\ head'[t].part = "head" /\ head'[t].packet[1] = t
                      /\ \A f \in sent' : f.packet = head'[t].packet => f = head'[t]
    BY DEF Owed
  <2>1. CASE t = s
    BY <1>1, <1>2, <1>5, <1>7, <2>1
  <2>2. CASE t # s
    <3>1. head'[t] = head[t] /\ head[t] # None
      BY <1>5, <2>2
    <3>2. head[t] \in sent /\ head[t].part = "head" /\ head[t].packet[1] = t
          /\ \A f \in sent : f.packet = head[t].packet => f = head[t]
      BY <3>1 DEF IInv, Owed
    <3> QED BY <1>2, <1>7, <3>1, <3>2
  <2> QED BY <2>1, <2>2
<1>11. StoredIsSent' /\ HeardStored' /\ GivenIsGenuine'
  <2>1. n.part = "head" => seq # n.seq
    <3> SUFFICES ASSUME part = "head", seq = q PROVE FALSE
      BY <1>1
    <3>1. buf_in[1] \in sent /\ buf_in[1].part # "whole" /\ buf_in[1].seq = q
      BY SplitAssumption DEF IInv, StoredIsSent, StoredWithSeq
    <3> QED BY <3>1
  <2>2. n.part # "tail"
    BY <1>1
  <2> QED BY <1>1, <1>2, <2>1, <2>2, ReceiverStep DEF IInv
<1> QED BY <1>6, <1>8, <1>9, <1>10, <1>11 DEF IInv

LEMMA TailStep ==
  ASSUME IInv, NEW s \in Sender, SendTail(s)
  PROVE  IInv'
<1> DEFINE n == Tail2(s)
<1>0. head[s] # None
  BY DEF SendTail
<1>1. n \in Frame /\ n.packet = head[s].packet /\ n.part = "tail" /\ n.seq = head[s].seq
  BY <1>0, FrameTyped DEF IInv
<1>2. /\ sent' = sent \cup {n} /\ (FromAir(n) \/ Lost) /\ UNCHANGED host
      /\ count' = count /\ head' = [head EXCEPT ![s] = None]
  BY DEF SendTail, Emit, Tail2
<1> HIDE DEF n
<1>3. /\ head' \in [Sender -> Frame \cup {None}] /\ head'[s] = None
      /\ \A t \in Sender : t # s => head'[t] = head[t]
      /\ count' \in [Sender -> 0 .. MaxSend]
  BY <1>2 DEF IInv, Types
<1>4. Types' /\ StoredWithSeq'
  BY <1>1, <1>2, <1>3, Typed DEF IInv
<1>5. /\ head[s] \in sent /\ head[s].part = "head" /\ head[s].packet[1] = s
      /\ \A f \in sent : f.packet = head[s].packet => f = head[s]
      /\ seq = head[s].seq => buf_in[1] = head[s]
  BY <1>0, TailMeetsHead DEF IInv, Owed
<1>6. SeqUnique'
  BY <1>1, <1>2, <1>5 DEF IInv, SeqUnique
<1>7. Counted'
  BY <1>1, <1>2, <1>5 DEF IInv, Counted
<1>8. Owed'
  <2> SUFFICES ASSUME NEW t \in Sender, head'[t] # None
               PROVE  /\ head'[t] \in sent' /\ head'[t].part = "head" /\ head'[t].packet[1] = t
                      /\ \A f \in sent' : f.packet = head'[t].packet => f = head'[t]
    BY DEF Owed
  <2>1. t # s /\ head'[t] = head[t]
    BY <1>3
  <2>2. head[t] \in sent /\ head[t].part = "head" /\ head[t].packet[1] = t
        /\ \A f \in sent : f.packet = head[t].packet => f = head[t]
    BY <2>1 DEF IInv, Owed
  <2> QED BY <1>1, <1>2, <1>5, <2>1, <2>2
<1>9. StoredIsSent' /\ HeardStored' /\ GivenIsGenuine'
  BY <1>1, <1>2, <1>5, ReceiverStep DEF IInv
<1> QED BY <1>4, <1>6, <1>7, <1>8, <1>9 DEF IInv

LEMMA Inductive ==
  ASSUME Fresh
  PROVE  IInv /\ [Next]_vars => IInv'
<1> SUFFICES ASSUME IInv, [Next]_vars PROVE IInv'
  OBVIOUS
<1>1. ASSUME NEW s \in Sender, NEW q \in SeqNo, SendWhole(s, q) PROVE IInv'
  BY <1>1, NewStep DEF SendWhole
<1>2. ASSUME NEW s \in Sender, NEW q \in SeqNo, SendHead(s, q) PROVE IInv'
  BY <1>2, NewStep DEF SendHead
<1>3. ASSUME NEW s \in Sender, SendTail(s) PROVE IInv'
  BY <1>3, TailStep
<1>4. CASE SetPromisc
  <2>1. /\ UNCHANGED <<seq, buf_in, given, heard, head, count, sent>>
        /\ promisc' = ~promisc /\ toggles > 0 /\ toggles' = toggles - 1
    BY <1>4 DEF SetPromisc, receiver, senders
  <2>2. promisc' \in BOOLEAN
    BY <2>1
  <2>3. toggles' \in 0 .. MaxPromisc
    BY <2>1, SplitAssumption DEF IInv, Types
  <2>4. Types'
    BY <2>1, <2>2, <2>3 DEF IInv, Types
  <2> QED BY <2>1, <2>4 DEF IInv, StoredWithSeq, StoredIsSent, SeqUnique, Counted, Owed, HeardStored,
             GivenIsGenuine
<1>5. CASE UNCHANGED vars
  BY <1>5 DEF vars, receiver, senders, host, IInv, Types, StoredWithSeq, StoredIsSent, SeqUnique,
     Counted, Owed, HeardStored, GivenIsGenuine
<1> QED BY <1>1, <1>2, <1>3, <1>4, <1>5 DEF Next

(* However frames of different nodes interleave or are lost, and whenever  *)
(* promiscuous mode is switched, rnode_from_air never joins parts of two   *)
(* packets, as long as no two split packets draw the same number.          *)
THEOREM GenuineHolds ==
  ASSUME Fresh
  PROVE  Spec => []GivenIsGenuine
<1>1. IInv => GivenIsGenuine
  BY DEF IInv
<1> QED BY <1>1, Initially, Inductive, PTL DEF Spec

LEMMA CompletesStep ==
  ASSUME IInv, [Next]_vars, NEW f \in sent' \ sent, f.part = "tail",
         heard' = f, heard # None, heard' # heard, heard.part = "head", heard.packet = f.packet
  PROVE  given' = Append(given, <<heard, f>>)
<1>0. sent' # sent
  OBVIOUS
<1>1. PICK s \in Sender : SendTail(s)
  <2>1. ASSUME NEW s \in Sender, NEW q \in SeqNo, SendWhole(s, q) \/ SendHead(s, q) PROVE FALSE
    <3>1. PICK part \in {"whole", "head"} : Emit(New(s, part, q))
      BY <2>1 DEF SendWhole, SendHead
    <3>2. New(s, part, q).part = part
      BY DEF New
    <3> QED BY <3>1, <3>2 DEF Emit
  <2>2. ~SetPromisc /\ ~UNCHANGED vars
    BY <1>0 DEF SetPromisc, senders, vars
  <2> QED BY <2>1, <2>2 DEF Next
<1>2. f = Tail2(s) /\ sent' = sent \cup {f} /\ (FromAir(f) \/ Lost) /\ head[s] # None
  BY <1>1 DEF SendTail, Emit, Tail2
<1>3. f.packet = head[s].packet /\ f.seq = head[s].seq /\ f \in Frame
  BY <1>2, FrameTyped DEF IInv
<1>4. heard = head[s]
  BY <1>2, <1>3, TailMeetsHead DEF IInv, HeardStored
<1>5. seq = f.seq /\ buf_in = <<heard>> /\ f.seq # SEQ_UNSET
  BY <1>3, <1>4, SplitAssumption DEF IInv, HeardStored, Frame
<1>6. Append(buf_in, f) = <<heard, f>>
  <2>1. heard \in Frame
    BY <1>4, <1>2 DEF IInv, Types
  <2>2. \A a, b \in Frame : Append(<<a>>, b) = <<a, b>>
    <3> SUFFICES ASSUME NEW a \in Frame, NEW b \in Frame PROVE Append(<<a>>, b) = <<a, b>>
      OBVIOUS
    <3>1. /\ Append(<<a>>, b) \in Seq(Frame) /\ Len(Append(<<a>>, b)) = 2
          /\ Append(<<a>>, b)[1] = a /\ Append(<<a>>, b)[2] = b
      OBVIOUS
    <3>2. <<a, b>> \in Seq(Frame) /\ Len(<<a, b>>) = 2
      OBVIOUS
    <3>3. \A i \in 1 .. Len(<<a, b>>) : Append(<<a>>, b)[i] = <<a, b>>[i]
      BY <3>1, <3>2
    <3> QED BY <3>1, <3>2, <3>3, SeqEqual
  <2> QED BY <1>3, <1>5, <2>1, <2>2
<1>7. ~Lost /\ ~Raw(f) /\ ~First(f) /\ ~Other(f) /\ ~Whole(f)
  BY <1>5 DEF Lost, receiver, Raw, First, Other, Whole
<1>8. Second(f)
  BY <1>2, <1>7 DEF FromAir
<1> QED BY <1>6, <1>8 DEF Second, Give

(* A head and its tail heard one after the other reach the host, whatever  *)
(* rnode_from_air had stored before.                                       *)
THEOREM CompletesHolds ==
  ASSUME Fresh
  PROVE  Spec => Completes
<1>1. IInv /\ [Next]_vars =>
        [\A f \in sent' \ sent :
           /\ f.part = "tail" /\ heard' = f /\ heard # None /\ heard' # heard
           /\ heard.part = "head" /\ heard.packet = f.packet
           => given' = Append(given, <<heard, f>>)]_vars
  BY CompletesStep
<1> QED BY <1>1, Initially, Inductive, PTL DEF Spec, Completes

-----------------------------------------------------------------------------
(* That no frame is given twice does not depend on the sequence numbers:   *)
(* what is given was sent, what is stored was not given, and every frame   *)
(* that comes is new.                                                      *)
GivenSent == \A i \in 1 .. Len(given) : \A k \in 1 .. Len(given[i]) : given[i][k] \in sent

StoredNotGiven ==
    seq # SEQ_UNSET =>
        /\ buf_in[1] \in sent
        /\ \A i \in 1 .. Len(given) : \A k \in 1 .. Len(given[i]) : given[i][k] # buf_in[1]

Base == Types /\ StoredWithSeq /\ Counted /\ Owed /\ GivenSent /\ StoredNotGiven /\ GivenOnce

LEMMA GiveNew ==
  ASSUME Types, GivenSent, GivenOnce, NEW parts \in Seq(Frame), Give(parts), sent \subseteq sent',
         \A k \in 1 .. Len(parts) :
             /\ parts[k] \in sent'
             /\ \A i \in 1 .. Len(given) : \A l \in 1 .. Len(given[i]) : given[i][l] # parts[k],
         \A k, l \in 1 .. Len(parts) : parts[k] = parts[l] => k = l
  PROVE  /\ GivenSent' /\ GivenOnce'
         /\ \A x : (/\ \A i \in 1 .. Len(given) : \A k \in 1 .. Len(given[i]) : given[i][k] # x
                   /\ \A k \in 1 .. Len(parts) : parts[k] # x)
                  => \A i \in 1 .. Len(given') : \A k \in 1 .. Len(given'[i]) : given'[i][k] # x
<1>1. /\ given \in Seq(Seq(Frame)) /\ given' = Append(given, parts)
  BY DEF Types, Give
<1>2. /\ Len(given') = Len(given) + 1 /\ Len(given) \in Nat
      /\ \A i \in 1 .. Len(given) : given'[i] = given[i]
      /\ given'[Len(given) + 1] = parts
  BY <1>1
<1>3. \A i \in 1 .. Len(given') : i \in 1 .. Len(given) \/ i = Len(given) + 1
  BY <1>2
<1>4. GivenSent'
  BY <1>2, <1>3 DEF GivenSent
<1>5. GivenOnce'
  <2> SUFFICES ASSUME NEW i \in 1 .. Len(given'), NEW j \in 1 .. Len(given'),
                      NEW k \in 1 .. Len(given'[i]), NEW l \in 1 .. Len(given'[j]),
                      given'[i][k] = given'[j][l]
               PROVE  i = j /\ k = l
    BY DEF GivenOnce
  <2>1. CASE i \in 1 .. Len(given) /\ j \in 1 .. Len(given)
    BY <1>2, <2>1, SMTT(60) DEF GivenOnce
  <2>2. CASE i = Len(given) + 1 /\ j = Len(given) + 1
    BY <1>2, <2>2
  <2>3. CASE i \in 1 .. Len(given) /\ j = Len(given) + 1
    BY <1>2, <2>3
  <2>4. CASE i = Len(given) + 1 /\ j \in 1 .. Len(given)
    <3>1. given'[i] = parts /\ given'[j] = given[j]
      BY <1>2, <2>4
    <3> QED BY <2>4, <3>1
  <2> QED BY <1>3, <2>1, <2>2, <2>3, <2>4
<1>7. \A x : (/\ \A i \in 1 .. Len(given) : \A k \in 1 .. Len(given[i]) : given[i][k] # x
             /\ \A k \in 1 .. Len(parts) : parts[k] # x)
            => \A i \in 1 .. Len(given') : \A k \in 1 .. Len(given'[i]) : given'[i][k] # x
  <2> SUFFICES ASSUME NEW x, NEW i \in 1 .. Len(given'), NEW k \in 1 .. Len(given'[i]),
                      \A j \in 1 .. Len(given) : \A l \in 1 .. Len(given[j]) : given[j][l] # x,
                      \A l \in 1 .. Len(parts) : parts[l] # x
               PROVE  given'[i][k] # x
    BY Zenon
  <2>1. CASE i \in 1 .. Len(given)
    <3>1. given'[i] = given[i]
      BY <1>2, <2>1
    <3> QED BY <2>1, <3>1
  <2>2. CASE i = Len(given) + 1
    <3>1. given'[i] = parts
      BY <1>2, <2>2
    <3> QED BY <3>1
  <2> QED BY <1>3, <2>1, <2>2
<1> QED BY ONLY <1>4, <1>5, <1>7, Zenon

(* What the receiver does with a frame that is new.                        *)
LEMMA OnceStep ==
  ASSUME Types, StoredWithSeq, GivenSent, StoredNotGiven, GivenOnce,
         NEW f \in Frame, f \notin sent, FromAir(f) \/ Lost, sent' = sent \cup {f}
  PROVE  GivenSent' /\ StoredNotGiven' /\ GivenOnce'
<1>1. <<f>> \in Seq(Frame) /\ Len(<<f>>) = 1 /\ <<f>>[1] = f /\ sent \subseteq sent' /\ f \in sent'
  OBVIOUS
<1>2. \A i \in 1 .. Len(given) : \A k \in 1 .. Len(given[i]) : given[i][k] # f
  BY DEF GivenSent
<1>3. CASE Lost
  BY <1>1, <1>3 DEF Lost, receiver, GivenSent, StoredNotGiven, GivenOnce
<1>4. CASE First(f) \/ Other(f)
  <2>1. given' = given /\ buf_in' = <<f>>
    BY <1>4 DEF First, Other, Store
  <2> QED BY <1>1, <1>2, <2>1 DEF GivenSent, StoredNotGiven, GivenOnce
<1>5. ASSUME Give(<<f>>)
      PROVE  /\ GivenSent' /\ GivenOnce'
             /\ \A x \in sent :
                   (\A i \in 1 .. Len(given) : \A k \in 1 .. Len(given[i]) : given[i][k] # x)
                   => \A i \in 1 .. Len(given') : \A k \in 1 .. Len(given'[i]) : given'[i][k] # x
  <2>1. \A k \in 1 .. Len(<<f>>) : k = 1 /\ <<f>>[k] = f
    BY <1>1
  <2>2. \A k \in 1 .. Len(<<f>>) :
           /\ <<f>>[k] \in sent'
           /\ \A i \in 1 .. Len(given) : \A l \in 1 .. Len(given[i]) : given[i][l] # <<f>>[k]
    BY <1>1, <1>2, <2>1
  <2>3. \A k, l \in 1 .. Len(<<f>>) : <<f>>[k] = <<f>>[l] => k = l
    BY <2>1
  <2>4. /\ GivenSent' /\ GivenOnce'
        /\ \A x : (/\ \A i \in 1 .. Len(given) : \A k \in 1 .. Len(given[i]) : given[i][k] # x
                  /\ \A k \in 1 .. Len(<<f>>) : <<f>>[k] # x)
                 => \A i \in 1 .. Len(given') : \A k \in 1 .. Len(given'[i]) : given'[i][k] # x
    BY ONLY Types, GivenSent, GivenOnce, <1>1, <1>5, <2>2, <2>3, GiveNew, Zenon
  <2>5. \A x \in sent : \A k \in 1 .. Len(<<f>>) : <<f>>[k] # x
    BY <2>1
  <2> QED BY <2>4, <2>5
<1>6. CASE Raw(f)
  <2>1. Give(<<f>>) /\ seq' = seq /\ buf_in' = buf_in
    BY <1>6 DEF Raw
  <2>2. seq # SEQ_UNSET => \A i \in 1 .. Len(given') : \A k \in 1 .. Len(given'[i]) : given'[i][k] # buf_in[1]
    BY <1>5, <2>1 DEF StoredNotGiven
  <2> QED BY <1>1, <1>5, <2>1, <2>2 DEF StoredNotGiven
<1>7. CASE Whole(f) /\ seq # SEQ_UNSET
  BY <1>5, <1>7 DEF Whole, Clear, StoredNotGiven
<1>8. CASE Whole(f) /\ seq = SEQ_UNSET
  <2>1. Append(buf_in, f) = <<f>>
    BY <1>8 DEF StoredWithSeq
  <2> QED BY <1>5, <1>8, <2>1 DEF Whole, Clear, StoredNotGiven
<1>9. CASE Second(f)
  <2>1. seq # SEQ_UNSET /\ Give(Append(buf_in, f)) /\ seq' = SEQ_UNSET
    BY <1>9, SplitAssumption DEF Second, Clear, Frame
  <2>2. /\ Len(buf_in) = 1 /\ buf_in \in Seq(Frame) /\ buf_in[1] \in sent /\ buf_in[1] # f
        /\ \A i \in 1 .. Len(given) : \A k \in 1 .. Len(given[i]) : given[i][k] # buf_in[1]
    BY <2>1 DEF StoredWithSeq, StoredNotGiven, Types
  <2>3. /\ Append(buf_in, f) \in Seq(Frame) /\ Len(Append(buf_in, f)) = 2
        /\ Append(buf_in, f)[1] = buf_in[1] /\ Append(buf_in, f)[2] = f
    <3>1. f \in Frame /\ buf_in \in Seq(Frame) /\ Len(buf_in) = 1
      BY <2>2
    <3>2. Append(buf_in, f) \in Seq(Frame) /\ Len(Append(buf_in, f)) = 2
      BY ONLY SMTT(60), <3>1
    <3>3. Append(buf_in, f)[1] = buf_in[1]
      BY ONLY SMTT(60), <3>1
    <3>4. Append(buf_in, f)[2] = f
      BY ONLY <3>1, Len(buf_in) + 1 = 2, AppendProperties
    <3> QED BY <3>2, <3>3, <3>4
  <2>4. \A k \in 1 .. 2 : k = 1 \/ k = 2
    OBVIOUS
  <2>5. GivenSent' /\ GivenOnce'
    <3>1. \A k \in 1 .. Len(Append(buf_in, f)) :
             /\ Append(buf_in, f)[k] \in sent'
             /\ \A i \in 1 .. Len(given) : \A l \in 1 .. Len(given[i]) : given[i][l] # Append(buf_in, f)[k]
      BY <1>1, <1>2, <2>2, <2>3, <2>4
    <3>2. \A k, l \in 1 .. Len(Append(buf_in, f)) :
             Append(buf_in, f)[k] = Append(buf_in, f)[l] => k = l
      BY <2>2, <2>3, <2>4
    <3> QED BY <1>1, <2>1, <2>3, <3>1, <3>2, GiveNew
  <2> QED BY <2>1, <2>5 DEF StoredNotGiven
<1> QED BY <1>3, <1>4, <1>6, <1>7, <1>8, <1>9 DEF FromAir

LEMMA BaseNew ==
  ASSUME Base, NEW s \in Sender, NEW part \in {"whole", "head"}, NEW q \in SeqNo,
         count[s] < MaxSend, head[s] = None, Emit(New(s, part, q)), UNCHANGED host,
         count' = [count EXCEPT ![s] = @ + 1],
         head' = IF part = "head" THEN [head EXCEPT ![s] = New(s, part, q)] ELSE head
  PROVE  Base'
<1> DEFINE n == New(s, part, q)
<1>1. n \in Frame /\ n.packet = <<s, count[s] + 1>> /\ n.part = part /\ n.seq = q
  BY FrameTyped DEF Base, Part
<1>2. sent' = sent \cup {n} /\ (FromAir(n) \/ Lost)
  BY DEF Emit
<1> HIDE DEF n
<1>3. /\ count \in [Sender -> 0 .. MaxSend] /\ head \in [Sender -> Frame \cup {None}]
      /\ \A f \in sent : f \in Frame /\ f.packet[1] \in Sender /\ f.packet[2] \in Nat
  BY DEF Base, Types, Frame, Packet
<1>4. /\ count' \in [Sender -> 0 .. MaxSend] /\ count'[s] = count[s] + 1
      /\ \A t \in Sender : t # s => count'[t] = count[t]
  BY <1>3, SplitAssumption
<1>5. /\ head' \in [Sender -> Frame \cup {None}]
      /\ \A t \in Sender : t # s => head'[t] = head[t]
      /\ head'[s] # None => part = "head" /\ head'[s] = n
  BY <1>1, <1>3 DEF n
<1>6. Types' /\ StoredWithSeq'
  BY <1>1, <1>2, <1>4, <1>5, Typed DEF Base
<1>7. \A f \in sent : f.packet # n.packet
  BY <1>1, <1>3 DEF Base, Counted
<1>8. Counted'
  BY <1>1, <1>2, <1>3, <1>4 DEF Base, Counted
<1>9. Owed'
  <2> SUFFICES ASSUME NEW t \in Sender, head'[t] # None
               PROVE  /\ head'[t] \in sent' /\ head'[t].part = "head" /\ head'[t].packet[1] = t
                      /\ \A f \in sent' : f.packet = head'[t].packet => f = head'[t]
    BY DEF Owed
  <2>1. CASE t = s
    BY <1>1, <1>2, <1>5, <1>7, <2>1
  <2>2. CASE t # s
    <3>1. head'[t] = head[t] /\ head[t] # None
      BY <1>5, <2>2
    <3>2. head[t] \in sent /\ head[t].part = "head" /\ head[t].packet[1] = t
          /\ \A f \in sent : f.packet = head[t].packet => f = head[t]
      BY <3>1 DEF Base, Owed
    <3> QED BY <1>2, <1>7, <3>1, <3>2
  <2> QED BY <2>1, <2>2
<1>10. GivenSent' /\ StoredNotGiven' /\ GivenOnce'
  BY <1>1, <1>2, <1>7, OnceStep DEF Base
<1> QED BY <1>6, <1>8, <1>9, <1>10 DEF Base

LEMMA BaseTail ==
  ASSUME Base, NEW s \in Sender, SendTail(s)
  PROVE  Base'
<1> DEFINE n == Tail2(s)
<1>0. head[s] # None
  BY DEF SendTail
<1>1. n \in Frame /\ n.packet = head[s].packet /\ n.part = "tail" /\ n.seq = head[s].seq
  BY <1>0, FrameTyped DEF Base
<1>2. /\ sent' = sent \cup {n} /\ (FromAir(n) \/ Lost) /\ UNCHANGED host
      /\ count' = count /\ head' = [head EXCEPT ![s] = None]
  BY DEF SendTail, Emit, Tail2
<1> HIDE DEF n
<1>3. /\ head' \in [Sender -> Frame \cup {None}] /\ head'[s] = None
      /\ \A t \in Sender : t # s => head'[t] = head[t]
      /\ count' \in [Sender -> 0 .. MaxSend]
  BY <1>2 DEF Base, Types
<1>4. Types' /\ StoredWithSeq'
  BY <1>1, <1>2, <1>3, Typed DEF Base
<1>5. /\ head[s] \in sent /\ head[s].part = "head" /\ head[s].packet[1] = s
      /\ \A f \in sent : f.packet = head[s].packet => f = head[s]
  BY <1>0 DEF Base, Owed
<1>6. Counted'
  BY <1>1, <1>2, <1>5 DEF Base, Counted
<1>7. Owed'
  <2> SUFFICES ASSUME NEW t \in Sender, head'[t] # None
               PROVE  /\ head'[t] \in sent' /\ head'[t].part = "head" /\ head'[t].packet[1] = t
                      /\ \A f \in sent' : f.packet = head'[t].packet => f = head'[t]
    BY DEF Owed
  <2>1. t # s /\ head'[t] = head[t]
    BY <1>3
  <2>2. head[t] \in sent /\ head[t].part = "head" /\ head[t].packet[1] = t
        /\ \A f \in sent : f.packet = head[t].packet => f = head[t]
    BY <2>1 DEF Base, Owed
  <2> QED BY <1>1, <1>2, <1>5, <2>1, <2>2
<1>8. GivenSent' /\ StoredNotGiven' /\ GivenOnce'
  BY <1>1, <1>2, <1>5, OnceStep DEF Base
<1> QED BY <1>4, <1>6, <1>7, <1>8 DEF Base

LEMMA BaseInductive == Base /\ [Next]_vars => Base'
<1> SUFFICES ASSUME Base, [Next]_vars PROVE Base'
  OBVIOUS
<1>1. ASSUME NEW s \in Sender, NEW q \in SeqNo, SendWhole(s, q) PROVE Base'
  BY <1>1, BaseNew DEF SendWhole
<1>2. ASSUME NEW s \in Sender, NEW q \in SeqNo, SendHead(s, q) PROVE Base'
  BY <1>2, BaseNew DEF SendHead
<1>3. ASSUME NEW s \in Sender, SendTail(s) PROVE Base'
  BY <1>3, BaseTail
<1>4. CASE SetPromisc
  <2>1. /\ UNCHANGED <<seq, buf_in, given, heard, head, count, sent>>
        /\ promisc' = ~promisc /\ toggles > 0 /\ toggles' = toggles - 1
    BY <1>4 DEF SetPromisc, receiver, senders
  <2>2. promisc' \in BOOLEAN
    BY <2>1
  <2>3. toggles' \in 0 .. MaxPromisc
    BY <2>1, SplitAssumption DEF Base, Types
  <2>4. Types'
    BY <2>1, <2>2, <2>3 DEF Base, Types
  <2> QED BY <2>1, <2>4 DEF Base, StoredWithSeq, Counted, Owed, GivenSent, StoredNotGiven, GivenOnce
<1>5. CASE UNCHANGED vars
  BY <1>5 DEF vars, receiver, senders, host, Base, Types, StoredWithSeq, Counted, Owed,
     GivenSent, StoredNotGiven, GivenOnce
<1> QED BY <1>1, <1>2, <1>3, <1>4, <1>5 DEF Next

LEMMA BaseHolds == Spec => []Base
<1>1. Init => Base
  BY Initially DEF Init, Base, IInv, GivenSent, StoredNotGiven, GivenOnce
<1> QED BY <1>1, BaseInductive, PTL DEF Spec

(* The receiver's variables keep their types, and a part is stored exactly *)
(* while its sequence number is waited for, also when numbers collide and  *)
(* promiscuous mode comes and goes.                                        *)
THEOREM TypesHold == Spec => []TypeOK
<1>1. Base => TypeOK
  BY DEF Base, TypeOK
<1> QED BY <1>1, BaseHolds, PTL

(* rnode_from_air gives the host no frame twice, whatever the numbers.     *)
THEOREM GivenOnceHolds == Spec => []GivenOnce
<1>1. Base => GivenOnce
  BY DEF Base
<1> QED BY <1>1, BaseHolds, PTL
=============================================================================
