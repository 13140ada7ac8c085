-------------------------------- MODULE Link --------------------------------
(***************************************************************************)
(* The host's side: the TCP server of tcp.c, which serves one client and   *)
(* takes a new one in its place, and the KISS decoder of kiss.c, which     *)
(* finds the frames in what the client writes, however TCP cuts it up.     *)
(* The decoder's state outlives the chunk, and the client.                 *)
(***************************************************************************)
EXTENDS Naturals, Sequences, SequencesExt

CONSTANTS Command,   \* the frames the clients write
          BufSize,   \* MTU: the decoder's buffer
          MaxWrite,  \* bound: frames written
          MaxClient  \* bound: clients that connect

ASSUME LinkAssumption ==
    BufSize \in Nat \ {0} /\ MaxWrite \in Nat /\ MaxClient \in Nat

VARIABLES
    client, \* the client that is connected, 0 for none: client_fd
    wire,   \* what it has written and the server has not read
    chunk,  \* what the server has read and the decoder has not seen
    sync, escape, buf_in, \* kiss.c: the decoder
    clients,              \* history: clients so far
    written, passed,      \* history: frames written; frames passed to rnode_from_channel
    alone                 \* history: all was quiet when the last frame was written

decoder == <<sync, escape, buf_in>>
tcp == <<client, wire, chunk, clients>>
vars == <<tcp, decoder, written, passed, alone>>

Special == {"FEND", "FESC"}
Byte == Special \cup {"TFEND", "TFESC", "other"}
ASSUME CommandAssumption == Command \subseteq Seq(Byte) \ {<<>>}

(***************************************************************************)
(* kiss_encode; a client encodes in the same way.                          *)
(***************************************************************************)
(* MUTANT: a FESC is not escaped.                                          *)
EscapedFendOnly(b) == IF b = "FEND" THEN <<"FESC", "TFEND">> ELSE <<b>>

Escaped(b) == CASE b = "FEND" -> <<"FESC", "TFEND">>
                [] b = "FESC" -> <<"FESC", "TFESC">>
                [] OTHER      -> <<b>>

Encode(frame) ==
    <<"FEND">> \o FlattenSeq([i \in DOMAIN frame |-> Escaped(frame[i])]) \o <<"FEND">>

Init ==
    /\ client = 0 /\ wire = <<>> /\ chunk = <<>> /\ clients = 0
    /\ sync = FALSE /\ escape = FALSE /\ buf_in = <<>>
    /\ written = <<>> /\ passed = <<>> /\ alone = FALSE

Drained == wire = <<>> /\ chunk = <<>>

(***************************************************************************)
(* The clients and tcp_read.                                               *)
(***************************************************************************)
Write(frame) ==
    /\ client # 0 /\ Len(written) < MaxWrite
    /\ wire' = wire \o Encode(frame)
    /\ written' = Append(written, frame)
    /\ alone' = Drained
    /\ UNCHANGED <<client, chunk, clients, decoder, passed>>

(* A new client replaces the one before, and what that had written.        *)
Accept ==
    /\ chunk = <<>> /\ clients < MaxClient
    /\ client' = clients + 1 /\ clients' = clients + 1
    /\ wire' = <<>>
    /\ UNCHANGED <<chunk, decoder, written, passed, alone>>

Read ==
    /\ client # 0 /\ chunk = <<>>
    /\ \E n \in 1 .. Len(wire) :
          /\ chunk' = SubSeq(wire, 1, n)
          /\ wire' = SubSeq(wire, n + 1, Len(wire))
    /\ UNCHANGED <<client, clients, decoder, written, passed, alone>>

(* The client has closed the connection: read returns 0.                   *)
Disconnect ==
    /\ client # 0 /\ Drained
    /\ client' = 0
    /\ UNCHANGED <<wire, chunk, clients, decoder, written, passed, alone>>

(***************************************************************************)
(* kiss_decode, one byte at a time.                                        *)
(***************************************************************************)
NextByte == chunk' = Tail(chunk) \* the loop goes on to the next byte

(* MUTANT: delimiters open and close by turns.                             *)
DelimiterToggles ==
    /\ Head(chunk) = "FEND" /\ NextByte
    /\ passed' = IF sync /\ buf_in # <<>> THEN Append(passed, buf_in) ELSE passed
    /\ sync' = ~sync /\ buf_in' = <<>>
    /\ UNCHANGED escape

Delimiter ==
    /\ Head(chunk) = "FEND" /\ NextByte
    /\ passed' = IF sync /\ buf_in # <<>> THEN Append(passed, buf_in) ELSE passed
    /\ sync' = TRUE /\ buf_in' = <<>>
    /\ UNCHANGED escape

Noise ==
    /\ Head(chunk) # "FEND" /\ ~sync /\ NextByte
    /\ UNCHANGED <<decoder, passed>>

EscapeNext ==
    /\ Head(chunk) = "FESC" /\ sync /\ NextByte
    /\ escape' = TRUE
    /\ UNCHANGED <<sync, buf_in, passed>>

Unescaped(b) == CASE escape /\ b = "TFEND" -> "FEND"
                  [] escape /\ b = "TFESC" -> "FESC"
                  [] OTHER                 -> b

(* MUTANTS: an overflow leaves the decoder in the middle of the frame; or  *)
(* is not noticed.                                                         *)
CollectInSync ==
    /\ Head(chunk) \notin Special /\ sync
    /\ escape' = FALSE
    /\ \/ /\ Len(buf_in) + 1 < BufSize
          /\ buf_in' = Append(buf_in, Unescaped(Head(chunk))) /\ NextByte
       \/ /\ Len(buf_in) + 1 >= BufSize
          /\ buf_in' = <<>> /\ chunk' = <<>>
    /\ UNCHANGED <<sync, passed>>

CollectAll ==
    /\ Head(chunk) \notin Special /\ sync
    /\ escape' = FALSE
    /\ buf_in' = Append(buf_in, Unescaped(Head(chunk))) /\ NextByte
    /\ UNCHANGED <<sync, passed>>

(* A frame that fills the buffer is dropped, with the rest of the chunk.   *)
Collect ==
    /\ Head(chunk) \notin Special /\ sync
    /\ escape' = FALSE
    /\ \/ /\ Len(buf_in) + 1 < BufSize
          /\ buf_in' = Append(buf_in, Unescaped(Head(chunk))) /\ NextByte
          /\ UNCHANGED sync
       \/ /\ Len(buf_in) + 1 >= BufSize
          /\ buf_in' = <<>> /\ sync' = FALSE /\ chunk' = <<>>
    /\ UNCHANGED passed

Decode ==
    /\ chunk # <<>>
    /\ Delimiter \/ Noise \/ EscapeNext \/ Collect
    /\ UNCHANGED <<client, wire, clients, written, alone>>

Next == (\E frame \in Command : Write(frame)) \/ Accept \/ Read \/ Disconnect \/ Decode

Spec == Init /\ [][Next]_vars

-----------------------------------------------------------------------------
Fits(frame) == Len(frame) < BufSize

(* Every variable has its type; the decoder never fills its buffer.        *)
TypeOK ==
    /\ client \in 0 .. MaxClient /\ clients \in 0 .. MaxClient
    /\ wire \in Seq(Byte) /\ chunk \in Seq(Byte)
    /\ sync \in BOOLEAN /\ escape \in BOOLEAN
    /\ buf_in \in Seq(Byte) /\ Len(buf_in) < BufSize
    /\ written \in Seq(Command) /\ passed \in Seq(Seq(Byte)) /\ alone \in BOOLEAN

(* Whatever a client writes and however TCP cuts it up, also where a frame *)
(* too long for the buffer is dropped: the frames passed on are frames it  *)
(* wrote, whole and in the order in which it wrote them.                   *)
PassedInOrder ==
    \E at \in [DOMAIN passed -> DOMAIN written] :
        /\ \A i \in DOMAIN passed : passed[i] = written[at[i]]
        /\ \A i, j \in DOMAIN passed : i < j => at[i] < at[j]

(* None is lost that one client writes, if all fit the buffer; and a frame *)
(* too long takes nothing with it that is written after it has been read.  *)
Lossless ==
    Drained =>
        /\ MaxClient = 1 /\ (\A i \in DOMAIN written : Fits(written[i])) => passed = written
        /\ alone /\ Fits(Last(written)) => passed # <<>> /\ Last(passed) = Last(written)
=============================================================================
