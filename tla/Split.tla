------------------------------- MODULE Split --------------------------------
(***************************************************************************)
(* A packet that takes two frames, on its way from other nodes to the host *)
(* of this one: rnode_to_air and rnode_tx_done of the nodes that send, and *)
(* rnode_from_air of the one that listens (rnode.c).  The two frames carry *)
(* the same random sequence number and the same flag: nothing says which   *)
(* of them is the head.  Any frame may be lost on the air, and frames of   *)
(* different nodes come in any order, but a node sends the tail of a packet *)
(* right after its head (module Radio).                                    *)
(***************************************************************************)
EXTENDS Naturals, Sequences

CONSTANTS Sender,    \* the other nodes
          SeqNo,     \* the sequence numbers, 0 .. 15 in the code
          SEQ_UNSET,
          None,
          Fresh,     \* no two split packets draw the same sequence number
          MaxSend,   \* bound: packets each node sends
          MaxPromisc \* bound: changes of promiscuous mode

ASSUME SplitAssumption ==
    SEQ_UNSET \notin SeqNo /\ Fresh \in BOOLEAN /\ MaxSend \in Nat /\ MaxPromisc \in Nat

Packet == Sender \X (1 .. MaxSend)
Part == {"whole", "head", "tail"}
Frame == [packet : Packet, part : Part, seq : SeqNo]
ASSUME NoneAssumption == None \notin Frame

VARIABLES
    seq, buf_in, \* the receiver: the sequence number and the parts it stores
    promisc,     \* the host passes every frame as it is
    head,        \* per node: the head it has sent and still owes the tail of
    count,       \* per node: packets sent
    sent,        \* history: the frames sent
    heard,       \* history: the last frame parsed by the receiver
    given,       \* history: what the host was given, each as its frames
    toggles      \* what is left of MaxPromisc

receiver == <<seq, buf_in, given, heard>>
senders == <<head, count, sent>>
host == <<promisc, toggles>>
vars == <<receiver, senders, host>>

Init ==
    /\ seq = SEQ_UNSET /\ buf_in = <<>> /\ promisc = FALSE
    /\ head = [s \in Sender |-> None] /\ count = [s \in Sender |-> 0]
    /\ sent = {} /\ heard = None /\ given = <<>> /\ toggles = MaxPromisc

Give(parts) == given' = Append(given, parts)
Store(f) == seq' = f.seq /\ buf_in' = <<f>>
Clear == seq' = SEQ_UNSET /\ buf_in' = <<>>

(***************************************************************************)
(* rnode_from_air.                                                         *)
(***************************************************************************)
(* MUTANT: a raw frame is parsed as well.                                  *)
RawIsStored(f) ==
    /\ promisc /\ Give(<<f>>)
    /\ IF f.part = "whole" THEN UNCHANGED <<seq, buf_in>> ELSE Store(f)
    /\ UNCHANGED heard

Raw(f) == promisc /\ Give(<<f>>) /\ UNCHANGED <<seq, buf_in, heard>>

Parsed(f) == ~promisc /\ heard' = f

First(f) ==
    /\ Parsed(f) /\ f.part # "whole" /\ seq = SEQ_UNSET
    /\ Store(f) /\ UNCHANGED given

(* MUTANT: what is stored is forgotten, the sequence number is not.        *)
SecondKeepsSeq(f) ==
    /\ Parsed(f) /\ f.part # "whole" /\ seq = f.seq
    /\ Give(Append(buf_in, f))
    /\ buf_in' = <<>> /\ UNCHANGED seq

Second(f) ==
    /\ Parsed(f) /\ f.part # "whole" /\ seq = f.seq
    /\ Give(Append(buf_in, f)) /\ Clear

(* MUTANTS: the part of another packet is ignored; or added to the one     *)
(* that is stored.                                                         *)
OtherIgnored(f) ==
    /\ Parsed(f) /\ f.part # "whole" /\ seq \notin {SEQ_UNSET, f.seq}
    /\ UNCHANGED <<seq, buf_in, given>>

OtherAppended(f) ==
    /\ Parsed(f) /\ f.part # "whole" /\ seq \notin {SEQ_UNSET, f.seq}
    /\ seq' = f.seq /\ buf_in' = Append(buf_in, f) /\ UNCHANGED given

Other(f) ==
    /\ Parsed(f) /\ f.part # "whole" /\ seq \notin {SEQ_UNSET, f.seq}
    /\ Store(f) /\ UNCHANGED given

(* MUTANT: a whole packet is added to what is stored.                      *)
WholeAppended(f) ==
    /\ Parsed(f) /\ f.part = "whole"
    /\ Give(Append(buf_in, f)) /\ Clear

(* The buffer is emptied if a sequence number is waited for.               *)
Whole(f) ==
    /\ Parsed(f) /\ f.part = "whole"
    /\ \/ seq = SEQ_UNSET /\ Give(Append(buf_in, f))
       \/ seq # SEQ_UNSET /\ Give(<<f>>)
    /\ Clear

FromAir(f) == Raw(f) \/ First(f) \/ Second(f) \/ Other(f) \/ Whole(f)

Lost == UNCHANGED receiver

(***************************************************************************)
(* The nodes that send.                                                    *)
(***************************************************************************)
Emit(f) == sent' = sent \cup {f} /\ (FromAir(f) \/ Lost)

New(s, part, q) == [packet |-> <<s, count[s] + 1>>, part |-> part, seq |-> q]

SendWhole(s, q) ==
    /\ head[s] = None /\ count[s] < MaxSend
    /\ Emit(New(s, "whole", q))
    /\ count' = [count EXCEPT ![s] = @ + 1]
    /\ UNCHANGED <<head, host>>

SendHead(s, q) ==
    /\ head[s] = None /\ count[s] < MaxSend
    /\ Fresh => \A f \in sent : f.part # "whole" => f.seq # q
    /\ Emit(New(s, "head", q))
    /\ head' = [head EXCEPT ![s] = New(s, "head", q)]
    /\ count' = [count EXCEPT ![s] = @ + 1]
    /\ UNCHANGED host

SendTail(s) ==
    /\ head[s] # None
    /\ Emit([head[s] EXCEPT !.part = "tail"])
    /\ head' = [head EXCEPT ![s] = None]
    /\ UNCHANGED <<count, host>>

SetPromisc ==
    /\ toggles > 0
    /\ toggles' = toggles - 1
    /\ promisc' = ~promisc
    /\ UNCHANGED <<receiver, senders>>

Next ==
    \/ \E s \in Sender, q \in SeqNo : SendWhole(s, q) \/ SendHead(s, q)
    \/ \E s \in Sender : SendTail(s)
    \/ SetPromisc

Spec == Init /\ [][Next]_vars

-----------------------------------------------------------------------------
(* What the host may be given: a frame as it was sent, or the head and the *)
(* tail of one packet.                                                     *)
Genuine(parts) ==
    \/ Len(parts) = 1
    \/ /\ Len(parts) = 2
       /\ parts[1].packet = parts[2].packet
       /\ parts[1].part = "head" /\ parts[2].part = "tail"

(* The receiver's variables have their types, and what it stores is never  *)
(* more than one frame: two always fit buf_in.                             *)
Types ==
    /\ seq \in SeqNo \cup {SEQ_UNSET} /\ buf_in \in Seq(Frame) /\ Len(buf_in) =< 1
    /\ promisc \in BOOLEAN /\ toggles \in 0 .. MaxPromisc
    /\ head \in [Sender -> Frame \cup {None}] /\ count \in [Sender -> 0 .. MaxSend]
    /\ sent \in SUBSET Frame /\ heard \in Frame \cup {None} /\ given \in Seq(Seq(Frame))

(* Whatever was lost, interleaved or missed in promiscuous mode, a part is *)
(* stored exactly while its sequence number is waited for: an old part     *)
(* never finds its way in front of a packet that is complete by itself.    *)
StoredWithSeq ==
    /\ seq = SEQ_UNSET => buf_in = <<>>
    /\ seq # SEQ_UNSET => Len(buf_in) = 1 /\ buf_in[1].seq = seq

(* The receiver is well-formed.                                            *)
TypeOK == Types /\ StoredWithSeq

(* The host is never given parts of two packets joined, as long as no two  *)
(* split packets carry the same sequence number.                           *)
GivenIsGenuine == \A i \in 1 .. Len(given) : Genuine(given[i])

(* No frame is given to the host twice, though promiscuous mode may come   *)
(* and go between the two halves of a packet.                              *)
GivenOnce ==
    \A i, j \in 1 .. Len(given) :
        \A k \in 1 .. Len(given[i]), l \in 1 .. Len(given[j]) :
            given[i][k] = given[j][l] => i = j /\ k = l

(* Two parts heard one after the other are given to the host, whatever was *)
(* stored before: a lost part costs no more than its own packet.           *)
Completes ==
    [][\A f \in sent' \ sent :
           /\ f.part = "tail" /\ heard' = f /\ heard # None /\ heard' # heard
           /\ heard.part = "head" /\ heard.packet = f.packet
           => given' = Append(given, <<heard, f>>)]_vars
=============================================================================
