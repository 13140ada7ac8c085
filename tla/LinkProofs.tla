----------------------------- MODULE LinkProofs ------------------------------
(***************************************************************************)
(* What TLAPS proves of Link, for any frames, any size of the decoder's    *)
(* buffer and every way TCP cuts up the stream: its types; and, as long as *)
(* no client is replaced before what it wrote has been read, that the      *)
(* frames passed on are frames the clients wrote, in order, and that none  *)
(* is lost that fits.                                                      *)
(*                                                                         *)
(* The proof keeps track of where every byte on its way comes from         *)
(* (OnItsWay), and of what the decoder has made of the frame it is in      *)
(* (Seen).                                                                 *)
(***************************************************************************)
EXTENDS Link, SequenceTheorems, WellFoundedInduction, TLAPS

(* A set of numbers has a least one: what stands here for induction.       *)
LEMMA LeastNumber == ASSUME NEW S \in SUBSET Nat, S # {} PROVE \E m \in S : \A n \in S : m =< n
<1> DEFINE R == {ss \in Nat \X Nat : ss[1] < ss[2]}
<1>1. IsWellFoundedOn(R, Nat)
  BY NatLessThanWellFounded DEF OpToRel
<1>2. \E m \in S : \A n \in S : ~(<<n, m>> \in R)
  <2> HIDE DEF R
  <2> QED BY <1>1, WFMin
<1>3. PICK m \in S : \A n \in S : ~(<<n, m>> \in R)
  BY <1>2
<1>4. \A n \in S : ~(n < m)
  BY <1>3
<1> QED BY <1>3, <1>4

-----------------------------------------------------------------------------
(* FlattenSeq, over a sequence that is not empty.                          *)
Joined(seqs, f) ==
    f = [i \in 1..Len(seqs) |-> IF i = 1 THEN seqs[i] ELSE f[i - 1] \o seqs[i]]

(* There is such a function; it begins with the first and adds one by one. *)
LEMMA JoinedExists ==
    ASSUME NEW S, NEW seqs \in Seq(Seq(S))
    PROVE  \E f : Joined(seqs, f)
<1> DEFINE n == Len(seqs)
           To(k, f) == f = [i \in 1..k |-> IF i = 1 THEN seqs[i] ELSE f[i - 1] \o seqs[i]]
           Bad == {k \in Nat : ~ \E f : To(k, f)}
<1>1. ASSUME NEW k \in Nat, k = 0 \/ (k - 1 \in Nat /\ \E f : To(k - 1, f)) PROVE \E f : To(k, f)
  <2>1. CASE k = 0
    <3> DEFINE f == [i \in 1..0 |-> <<>>]
    <3>1. To(k, f)
      BY <2>1
    <3> QED BY <3>1
  <2>2. CASE k - 1 \in Nat /\ \E f : To(k - 1, f)
    <3>1. PICK f : To(k - 1, f)
      BY <2>2
    <3> DEFINE g == [i \in 1..k |-> IF i = 1 THEN seqs[i] ELSE f[i - 1] \o seqs[i]]
    <3>2. ASSUME NEW i \in 1..(k - 1) PROVE g[i] = f[i]
      <4>1. i \in 1..k
        BY <2>2
      <4>2. f[i] = IF i = 1 THEN seqs[i] ELSE f[i - 1] \o seqs[i]
        BY <3>1
      <4> QED BY <4>1, <4>2
    <3>3. ASSUME NEW i \in 1..k, i # 1 PROVE g[i - 1] = f[i - 1]
      <4>1. i - 1 \in 1..(k - 1)
        BY <3>3
      <4> QED BY <3>2, <4>1
    <3>4. To(k, g)
      BY <3>3
    <3> QED BY <3>4
  <2> QED BY <1>1, <2>1, <2>2
<1> HIDE DEF To
<1>2. ASSUME NEW m \in Bad, \A k \in Bad : m =< k PROVE FALSE
  <2>1. m \in Nat /\ (m = 0 \/ (m - 1 \in Nat /\ m - 1 \notin Bad))
    BY <1>2
  <2> QED BY <1>1, <2>1
<1>3. \A k \in Nat : \E f : To(k, f)
  <2>1. Bad \in SUBSET Nat /\ (Bad = {} => \A k \in Nat : \E f : To(k, f))
    OBVIOUS
  <2> HIDE DEF Bad
  <2> QED BY <1>2, <2>1, LeastNumber
<1>4. n \in Nat
  OBVIOUS
<1>5. PICK f : To(n, f)
  BY <1>3, <1>4
<1> QED BY <1>5 DEF To, Joined

(* What FlattenSeq puts together is the last of these.                     *)
LEMMA FlattenIs ==
    ASSUME NEW S, NEW seqs \in Seq(Seq(S)), seqs # <<>>
    PROVE  \E f : Joined(seqs, f) /\ FlattenSeq(seqs) = f[Len(seqs)]
<1> DEFINE f == CHOOSE g : Joined(seqs, g)
<1>1. Joined(seqs, f)
  BY JoinedExists
<1>2. FlattenSeq(seqs) = f[Len(seqs)]
  <2>1. Len(seqs) # 0
    OBVIOUS
  <2> QED BY <2>1, Zenon DEF FlattenSeq, Joined
<1> QED BY <1>1, <1>2

-----------------------------------------------------------------------------
(* What the decoder has of a frame, got bytes and maybe an escape, goes on *)
(* with byte b.                                                            *)
Unescapes(frame, b, got, esc, got1, esc1) ==
    \/ ~esc /\ ~esc1 /\ b = frame[got + 1] /\ b \notin Special /\ got1 = got + 1
    \/ ~esc /\ esc1 /\ b = "FESC" /\ frame[got + 1] \in Special /\ got1 = got
    \/ /\ esc /\ ~esc1 /\ got1 = got + 1
       /\ <<frame[got + 1], b>> \in {<<"FEND", "TFEND">>, <<"FESC", "TFESC">>}

(* So it goes from the beginning of s, which is what the first k bytes of  *)
(* the frame are escaped to, to its end.                                   *)
Unescaping(frame, k, s, got, esc) ==
    /\ s \in Seq(Byte) /\ Len(s) >= k
    /\ got \in [0..Len(s) -> 0..k] /\ esc \in [0..Len(s) -> BOOLEAN]
    /\ got[0] = 0 /\ ~esc[0] /\ got[Len(s)] = k /\ ~esc[Len(s)]
    /\ \A i \in 1..Len(s) :
          /\ got[i - 1] < k
          /\ Unescapes(frame, s[i], got[i - 1], esc[i - 1], got[i], esc[i])

LEMMA UnescapingTypes ==
    ASSUME NEW frame, NEW k, NEW s, NEW got, NEW esc, Unescaping(frame, k, s, got, esc)
    PROVE  /\ Len(s) \in Nat /\ got[Len(s)] = k /\ ~esc[Len(s)]
           /\ \A i \in 0..Len(s) : got[i] \in 0..k /\ esc[i] \in BOOLEAN
<1>1. got \in [0..Len(s) -> 0..k] /\ esc \in [0..Len(s) -> BOOLEAN]
  BY DEF Unescaping
<1>2. s \in Seq(Byte) /\ got[Len(s)] = k /\ ~esc[Len(s)]
  BY DEF Unescaping
<1> QED BY <1>1, <1>2

(* One more byte of the frame.                                             *)
LEMMA UnescapingMore ==
    ASSUME NEW frame \in Seq(Byte), NEW k \in Nat, k + 1 \in 1..Len(frame),
           NEW s, NEW got, NEW esc, Unescaping(frame, k, s, got, esc)
    PROVE  \E got1, esc1 : Unescaping(frame, k + 1, s \o Escaped(frame[k + 1]), got1, esc1)
<1> DEFINE x == frame[k + 1]
           n == Len(s)
           u == s \o Escaped(x)
<1>1. x \in Byte /\ n \in Nat /\ s \in Seq(Byte)
  BY DEF Unescaping
<1>2. CASE x \notin Special
  <2> DEFINE got1 == [i \in 0..(n + 1) |-> IF i =< n THEN got[i] ELSE k + 1]
             esc1 == [i \in 0..(n + 1) |-> IF i =< n THEN esc[i] ELSE FALSE]
  <2>1. Escaped(x) = <<x>>
    BY <1>2 DEF Escaped, Special
  <2>2. u \in Seq(Byte) /\ Len(u) = n + 1 /\ u[n + 1] = x /\ \A i \in 1..n : u[i] = s[i]
    BY <1>1, <2>1
  <2> HIDE DEF u
  <2>3. got1 \in [0..Len(u) -> 0..(k + 1)] /\ esc1 \in [0..Len(u) -> BOOLEAN]
    <3>1. ASSUME NEW i \in 0..(n + 1) PROVE got1[i] \in 0..(k + 1) /\ esc1[i] \in BOOLEAN
      <4>1. CASE i =< n
        <5>1. got[i] \in 0..k /\ esc[i] \in BOOLEAN
          BY <1>1, <4>1, UnescapingTypes
        <5> QED BY <4>1, <5>1
      <4>2. CASE ~(i =< n)
        BY <4>2
      <4> QED BY <4>1, <4>2
    <3> QED BY <2>2, <3>1
  <2>4. ASSUME NEW i \in 1..Len(u)
        PROVE  got1[i - 1] < k + 1 /\ Unescapes(frame, u[i], got1[i - 1], esc1[i - 1], got1[i], esc1[i])
    <3>1. CASE i = n + 1
      <4>1. got1[i - 1] = k /\ ~esc1[i - 1] /\ got1[i] = k + 1 /\ ~esc1[i] /\ u[i] = x
        BY <1>1, <2>2, <3>1 DEF Unescaping
      <4> QED BY <1>2, <4>1, SMTT(60) DEF Unescapes
    <3>2. CASE i # n + 1
      <4>1. i \in 1..n /\ i - 1 \in 0..n /\ i \in 0..n
        BY <1>1, <2>2, <3>2
      <4>2. got1[i - 1] = got[i - 1] /\ esc1[i - 1] = esc[i - 1] /\ got1[i] = got[i] /\ esc1[i] = esc[i]
        BY <1>1, <4>1
      <4>3. got[i - 1] \in 0..k
        BY <4>1 DEF Unescaping
      <4> QED BY <2>2, <4>1, <4>2, <4>3 DEF Unescaping
    <3> QED BY <3>1, <3>2
  <2>5. got1[0] = 0 /\ ~esc1[0] /\ got1[Len(u)] = k + 1 /\ ~esc1[Len(u)] /\ Len(u) >= k + 1
    BY <1>1, <2>2 DEF Unescaping
  <2> HIDE DEF got1, esc1
  <2>6. Unescaping(frame, k + 1, u, got1, esc1)
    BY <2>2, <2>3, <2>4, <2>5 DEF Unescaping
  <2> QED BY <2>6 DEF u
<1>3. CASE x \in Special
  <2> DEFINE y == IF x = "FEND" THEN "TFEND" ELSE "TFESC"
             got1 == [i \in 0..(n + 2) |-> IF i =< n THEN got[i] ELSE IF i = n + 1 THEN k ELSE k + 1]
             esc1 == [i \in 0..(n + 2) |-> IF i =< n THEN esc[i] ELSE i = n + 1]
  <2>1. Escaped(x) = <<"FESC", y>>
    BY <1>3 DEF Escaped, Special
  <2>2. /\ u \in Seq(Byte) /\ Len(u) = n + 2 /\ u[n + 1] = "FESC" /\ u[n + 2] = y
        /\ \A i \in 1..n : u[i] = s[i]
    <3>1. "FESC" \in Byte /\ y \in Byte
      BY DEF Byte, Special
    <3> QED BY <1>1, <2>1, <3>1
  <2> HIDE DEF u
  <2>3. got1 \in [0..Len(u) -> 0..(k + 1)] /\ esc1 \in [0..Len(u) -> BOOLEAN]
    <3>1. ASSUME NEW i \in 0..(n + 2) PROVE got1[i] \in 0..(k + 1) /\ esc1[i] \in BOOLEAN
      <4>1. CASE i =< n
        <5>1. got[i] \in 0..k /\ esc[i] \in BOOLEAN
          BY <1>1, <4>1, UnescapingTypes
        <5> QED BY <4>1, <5>1
      <4>2. CASE ~(i =< n)
        BY <4>2
      <4> QED BY <4>1, <4>2
    <3> QED BY <2>2, <3>1
  <2>4. ASSUME NEW i \in 1..Len(u)
        PROVE  got1[i - 1] < k + 1 /\ Unescapes(frame, u[i], got1[i - 1], esc1[i - 1], got1[i], esc1[i])
    <3>1. CASE i = n + 1
      <4>1. got1[i - 1] = k /\ ~esc1[i - 1] /\ got1[i] = k /\ esc1[i] /\ u[i] = "FESC"
        <5>1. got[n] = k /\ ~esc[n]
          BY UnescapingTypes
        <5>2. i - 1 = n /\ n \in 0..(n + 2) /\ n + 1 \in 0..(n + 2) /\ n =< n /\ ~(n + 1 =< n)
          BY <1>1, <3>1
        <5> QED BY <2>2, <3>1, <5>1, <5>2
      <4> QED BY <1>3, <4>1, SMTT(60) DEF Unescapes
    <3>2. CASE i = n + 2
      <4>1. got1[i - 1] = k /\ esc1[i - 1] /\ got1[i] = k + 1 /\ ~esc1[i] /\ u[i] = y
        <5>1. /\ i - 1 = n + 1 /\ n + 1 \in 0..(n + 2) /\ n + 2 \in 0..(n + 2)
              /\ ~(n + 1 =< n) /\ ~(n + 2 =< n) /\ n + 2 # n + 1
          BY <1>1, <3>2
        <5> QED BY <2>2, <3>2, <5>1
      <4>2. <<x, y>> \in {<<"FEND", "TFEND">>, <<"FESC", "TFESC">>}
        BY <1>3 DEF Special
      <4> QED BY <4>1, <4>2, SMTT(60) DEF Unescapes
    <3>3. CASE i \notin {n + 1, n + 2}
      <4>1. i \in 1..n /\ i - 1 \in 0..n /\ i \in 0..n
        BY <1>1, <2>2, <3>3
      <4>2. got1[i - 1] = got[i - 1] /\ esc1[i - 1] = esc[i - 1] /\ got1[i] = got[i] /\ esc1[i] = esc[i]
        BY <1>1, <4>1
      <4>3. got[i - 1] \in 0..k
        BY <4>1 DEF Unescaping
      <4> QED BY <2>2, <4>1, <4>2, <4>3 DEF Unescaping
    <3> QED BY <3>1, <3>2, <3>3
  <2>5. got1[0] = 0 /\ ~esc1[0] /\ got1[Len(u)] = k + 1 /\ ~esc1[Len(u)] /\ Len(u) >= k + 1
    <3>1. got[0] = 0 /\ ~esc[0] /\ n >= k
      BY DEF Unescaping
    <3>2. /\ 0 \in 0..(n + 2) /\ 0 =< n /\ n + 2 \in 0..(n + 2) /\ ~(n + 2 =< n) /\ n + 2 # n + 1
          /\ n + 2 >= k + 1
      BY <1>1, <3>1
    <3> QED BY <2>2, <3>1, <3>2
  <2> HIDE DEF got1, esc1
  <2>6. Unescaping(frame, k + 1, u, got1, esc1)
    BY <2>2, <2>3, <2>4, <2>5 DEF Unescaping
  <2> QED BY <2>6 DEF u
<1> QED BY <1>2, <1>3

(* So what a frame is escaped to is taken apart to the frame.              *)
LEMMA EscapedIs ==
    ASSUME NEW frame \in Seq(Byte), frame # <<>>
    PROVE  \E got, esc : Unescaping(frame, Len(frame),
                                    FlattenSeq([i \in DOMAIN frame |-> Escaped(frame[i])]), got, esc)
<1> DEFINE seqs == [i \in DOMAIN frame |-> Escaped(frame[i])]
           n == Len(frame)
<1>1. n \in Nat \ {0} /\ DOMAIN frame = 1..n /\ \A i \in 1..n : frame[i] \in Byte
  BY EmptySeq
<1>2. ASSUME NEW b \in Byte PROVE Escaped(b) \in Seq(Byte)
  <2>1. <<b>> \in Seq(Byte)
    OBVIOUS
  <2>2. "FESC" \in Byte /\ "TFEND" \in Byte /\ "TFESC" \in Byte
    BY DEF Byte, Special
  <2>3. <<"FESC", "TFEND">> \in Seq(Byte) /\ <<"FESC", "TFESC">> \in Seq(Byte)
    BY <2>2
  <2> QED BY <2>1, <2>3 DEF Escaped
<1>3. seqs \in Seq(Seq(Byte)) /\ Len(seqs) = n /\ seqs # <<>> /\ \A i \in 1..n : seqs[i] = Escaped(frame[i])
  BY <1>1, <1>2, SMTT(60)
<1> HIDE DEF seqs
<1>4. PICK f : Joined(seqs, f) /\ FlattenSeq(seqs) = f[n]
  BY <1>3, FlattenIs
<1> DEFINE Part(k) == IF k = 0 THEN <<>> ELSE f[k]
           Done(k) == \E got, esc : Unescaping(frame, k, Part(k), got, esc)
           Bad == {k \in 0..n : ~Done(k)}
<1>5. Done(0)
  <2> DEFINE got == [i \in 0..0 |-> 0]
             esc == [i \in 0..0 |-> FALSE]
  <2>1. got \in [0..0 -> 0..0] /\ esc \in [0..0 -> BOOLEAN] /\ got[0] = 0 /\ ~esc[0]
    OBVIOUS
  <2> HIDE DEF got, esc
  <2>2. Unescaping(frame, 0, <<>>, got, esc)
    BY <2>1 DEF Unescaping
  <2> QED BY <2>2
<1>6. ASSUME NEW k \in 0..n, k # 0 PROVE Part(k) = Part(k - 1) \o Escaped(frame[k])
  <2>1. k \in 1..n
    BY <1>1, <1>6
  <2>2. f[k] = IF k = 1 THEN seqs[k] ELSE f[k - 1] \o seqs[k]
    BY <1>3, <1>4, <2>1 DEF Joined
  <2>3. seqs[k] = Escaped(frame[k]) /\ seqs[k] \in Seq(Byte)
    BY <1>1, <1>2, <1>3, <2>1
  <2>4. <<>> \o seqs[k] = seqs[k]
    BY <2>3, ConcatEmptySeq
  <2>5. CASE k = 1
    BY <2>2, <2>3, <2>4, <2>5
  <2>6. CASE k # 1
    <3>1. k - 1 # 0
      BY <2>1, <2>6
    <3> QED BY <1>6, <2>2, <2>3, <2>6, <3>1
  <2> QED BY <2>5, <2>6
<1>7. ASSUME NEW k \in 0..n, k # 0, Done(k - 1) PROVE Done(k)
  <2>1. k - 1 \in Nat /\ (k - 1) + 1 = k /\ k \in 1..Len(frame)
    BY <1>1, <1>7
  <2>2. PICK got, esc : Unescaping(frame, k - 1, Part(k - 1), got, esc)
    BY <1>7
  <2> HIDE DEF Part
  <2> QED BY <1>6, <1>7, <2>1, <2>2, UnescapingMore, ZenonT(60)
<1> HIDE DEF Done
<1>8. ASSUME NEW m \in Bad, \A k \in Bad : m =< k PROVE FALSE
  <2>1. m \in 0..n /\ ~Done(m) /\ m # 0
    BY <1>5, <1>8
  <2>2. m - 1 \in 0..n /\ ~(m =< m - 1)
    BY <1>1, <2>1
  <2>3. Done(m - 1)
    BY <1>8, <2>2
  <2> QED BY <1>7, <2>1, <2>3
<1>9. Done(n)
  <2>1. Bad \in SUBSET Nat /\ (Bad = {} => Done(n))
    BY <1>1
  <2> HIDE DEF Bad
  <2> QED BY <1>8, <2>1, LeastNumber
<1> QED BY <1>1, <1>4, <1>9 DEF Done, seqs

-----------------------------------------------------------------------------
(* The decoder in an encoded frame: what it has after each byte but the    *)
(* last.                                                                   *)
Traces(frame, e, got, esc) ==
    /\ e \in Seq(Byte) /\ Len(e) >= 3 /\ e[1] = "FEND" /\ e[Len(e)] = "FEND"
    /\ got \in [1..(Len(e) - 1) -> 0..Len(frame)] /\ esc \in [1..(Len(e) - 1) -> BOOLEAN]
    /\ got[1] = 0 /\ ~esc[1] /\ got[Len(e) - 1] = Len(frame) /\ ~esc[Len(e) - 1]
    /\ \A o \in 2..(Len(e) - 1) :
          /\ got[o - 1] < Len(frame)
          /\ Unescapes(frame, e[o], got[o - 1], esc[o - 1], got[o], esc[o])

Trace(frame) == CHOOSE t : Traces(frame, Encode(frame), t[1], t[2])
Got(frame) == Trace(frame)[1]
Esc(frame) == Trace(frame)[2]

(* There is such a trace of every frame.                                   *)
LEMMA TraceIs ==
    ASSUME NEW frame \in Command
    PROVE  Traces(frame, Encode(frame), Got(frame), Esc(frame))
<1>1. frame \in Seq(Byte) /\ frame # <<>>
  BY CommandAssumption
<1> DEFINE s == FlattenSeq([i \in DOMAIN frame |-> Escaped(frame[i])])
           e == Encode(frame)
           k == Len(frame)
           n == Len(s)
<1>2. PICK got, esc : Unescaping(frame, k, s, got, esc)
  BY <1>1, EscapedIs
<1>3. e = <<"FEND">> \o s \o <<"FEND">>
  BY DEF Encode
<1> HIDE DEF s, e
<1>4. s \in Seq(Byte) /\ n >= k /\ k \in Nat \ {0} /\ n \in Nat \ {0}
  <2>1. s \in Seq(Byte) /\ n >= k
    BY <1>2 DEF Unescaping
  <2> QED BY <1>1, <2>1, EmptySeq
<1>5. /\ e \in Seq(Byte) /\ Len(e) = n + 2 /\ e[1] = "FEND" /\ e[n + 2] = "FEND"
      /\ \A o \in 2..(n + 1) : e[o] = s[o - 1]
  <2>1. "FEND" \in Byte
    BY DEF Byte, Special
  <2> QED BY <1>3, <1>4, <2>1
<1> DEFINE got1 == [o \in 1..(n + 1) |-> got[o - 1]]
           esc1 == [o \in 1..(n + 1) |-> esc[o - 1]]
<1>6. got1 \in [1..(n + 1) -> 0..k] /\ esc1 \in [1..(n + 1) -> BOOLEAN]
  <2>1. \A o \in 1..(n + 1) : o - 1 \in 0..n
    BY <1>4
  <2> QED BY <1>2, <2>1, UnescapingTypes
<1>7. got1[1] = 0 /\ ~esc1[1] /\ got1[n + 1] = k /\ ~esc1[n + 1]
  <2>1. got[0] = 0 /\ ~esc[0] /\ got[n] = k /\ ~esc[n]
    BY <1>2 DEF Unescaping
  <2>2. 1 \in 1..(n + 1) /\ n + 1 \in 1..(n + 1) /\ 1 - 1 = 0 /\ (n + 1) - 1 = n
    BY <1>4
  <2> QED BY <2>1, <2>2
<1>8. ASSUME NEW o \in 2..(n + 1)
      PROVE  got1[o - 1] < k /\ Unescapes(frame, e[o], got1[o - 1], esc1[o - 1], got1[o], esc1[o])
  <2>1. o - 1 \in 1..n /\ o \in 1..(n + 1) /\ o - 1 \in 1..(n + 1)
    BY <1>4
  <2>2. /\ got[(o - 1) - 1] < k
        /\ Unescapes(frame, s[o - 1], got[(o - 1) - 1], esc[(o - 1) - 1], got[o - 1], esc[o - 1])
    BY <1>2, <2>1 DEF Unescaping
  <2>3. /\ got1[o - 1] = got[(o - 1) - 1] /\ esc1[o - 1] = esc[(o - 1) - 1]
        /\ got1[o] = got[o - 1] /\ esc1[o] = esc[o - 1]
    BY <2>1
  <2> QED BY <1>5, <2>2, <2>3
<1> HIDE DEF got1, esc1
<1>9. Traces(frame, e, got1, esc1)
  <2>1. Len(e) - 1 = n + 1 /\ Len(e) >= 3
    BY <1>4, <1>5
  <2> QED BY <1>5, <1>6, <1>7, <1>8, <2>1 DEF Traces
<1>10. \E t : Traces(frame, e, t[1], t[2])
  <2>1. <<got1, esc1>>[1] = got1 /\ <<got1, esc1>>[2] = esc1
    OBVIOUS
  <2> QED BY <1>9, <2>1
<1> QED BY <1>10 DEF e, Trace, Got, Esc

-----------------------------------------------------------------------------
(* A place in the stream the client has written: byte o of the encoding of *)
(* frame k; <<0, 0>> is before the first byte.                             *)
Size(w, k) == IF k = 0 THEN 0 ELSE Len(Encode(w[k]))

Follows(w, k, o, k1, o1) ==
    \/ o < Size(w, k) /\ k1 = k /\ o1 = o + 1
    \/ o = Size(w, k) /\ k1 = k + 1 /\ o1 = 1

(* Where the bytes of st come from: byte i of it is byte g[i] of frame     *)
(* f[i], and the one before it, the last the decoder has seen, is byte     *)
(* g[0] of frame f[0].  The last is the end of the last frame written.     *)
OnItsWay(w, st, f, g) ==
    /\ f \in [0..Len(st) -> 0..Len(w)] /\ g \in [0..Len(st) -> Nat]
    /\ \A i \in 0..Len(st) : g[i] =< Size(w, f[i]) /\ (f[i] # 0 => g[i] # 0)
    /\ \A i, j \in 0..Len(st) : i < j => f[i] =< f[j]
    /\ \A i \in 1..Len(st) : Follows(w, f[i - 1], g[i - 1], f[i], g[i])
    /\ \A i \in 1..Len(st) : st[i] = Encode(w[f[i]])[g[i]]
    /\ f[Len(st)] = Len(w) /\ g[Len(st)] = Size(w, Len(w))

(* The decoder has seen byte o of frame k, and st is what follows.         *)
Ahead(w, st, k, o) == \E f, g : OnItsWay(w, st, f, g) /\ f[0] = k /\ g[0] = o

(* The first d bytes of st are gone.                                       *)
Gone(st, st1, d) ==
    /\ st \in Seq(Byte) /\ st1 \in Seq(Byte) /\ d \in 0..Len(st) /\ Len(st1) = Len(st) - d
    /\ \A i \in 1..Len(st1) : st1[i] = st[i + d]

LEMMA SizeIs == ASSUME NEW w \in Seq(Command), NEW k \in 0..Len(w) PROVE Size(w, k) \in Nat
<1>1. CASE k = 0
  BY <1>1 DEF Size
<1>2. CASE k # 0
  <2>1. w[k] \in Command
    BY <1>2
  <2>2. Encode(w[k]) \in Seq(Byte)
    BY <2>1, TraceIs DEF Traces
  <2> QED BY <1>2, <2>2 DEF Size
<1> QED BY <1>1, <1>2

(* The decoder has moved on.                                               *)
LEMMA OnceGone ==
    ASSUME NEW w, NEW st, NEW f, NEW g, OnItsWay(w, st, f, g), NEW st1, NEW d, Gone(st, st1, d)
    PROVE  Ahead(w, st1, f[d], g[d])
<1> DEFINE n == Len(st1)
           f1 == [i \in 0..n |-> f[i + d]]
           g1 == [i \in 0..n |-> g[i + d]]
<1>1. n \in Nat /\ d \in Nat /\ n + d = Len(st) /\ 0 + d = d /\ \A i \in 1..n : st1[i] = st[i + d]
  BY SMTT(60) DEF Gone
<1>2. \A i \in 0..n : i + d \in 0..Len(st) /\ f1[i] = f[i + d] /\ g1[i] = g[i + d]
  BY <1>1
<1>3. f1 \in [0..n -> 0..Len(w)] /\ g1 \in [0..n -> Nat]
  BY <1>2 DEF OnItsWay
<1> HIDE DEF f1, g1
<1>4. \A i \in 0..n : g1[i] =< Size(w, f1[i]) /\ (f1[i] # 0 => g1[i] # 0)
  BY <1>2 DEF OnItsWay
<1>5. ASSUME NEW i \in 0..n, NEW j \in 0..n, i < j PROVE f1[i] =< f1[j]
  <2>1. i + d < j + d
    BY <1>1, <1>5
  <2> QED BY <1>2, <2>1, ZenonT(60) DEF OnItsWay
<1>6. ASSUME NEW i \in 1..n
      PROVE  Follows(w, f1[i - 1], g1[i - 1], f1[i], g1[i]) /\ st1[i] = Encode(w[f1[i]])[g1[i]]
  <2>1. i \in 0..n /\ i - 1 \in 0..n /\ (i - 1) + d = (i + d) - 1 /\ i + d \in 1..Len(st)
    BY <1>1
  <2>2. /\ Follows(w, f[(i + d) - 1], g[(i + d) - 1], f[i + d], g[i + d])
        /\ st[i + d] = Encode(w[f[i + d]])[g[i + d]]
    BY <2>1 DEF OnItsWay
  <2> QED BY <1>1, <1>2, <2>1, <2>2
<1>7. f1[n] = Len(w) /\ g1[n] = Size(w, Len(w)) /\ f1[0] = f[d] /\ g1[0] = g[d]
  <2>1. n \in 0..n /\ 0 \in 0..n
    BY <1>1
  <2> QED BY <1>1, <1>2, <2>1, ZenonT(60) DEF OnItsWay
<1>8. OnItsWay(w, st1, f1, g1)
  BY <1>3, <1>4, <1>5, <1>6, <1>7 DEF OnItsWay
<1> QED BY <1>7, <1>8, Zenon DEF Ahead

(* One more frame is written.                                              *)
LEMMA OneMore ==
    ASSUME NEW w \in Seq(Command), NEW st \in Seq(Byte), NEW k0, NEW o0, Ahead(w, st, k0, o0),
           NEW frame \in Command
    PROVE  Ahead(Append(w, frame), st \o Encode(frame), k0, o0)
<1> PICK f, g : OnItsWay(w, st, f, g) /\ f[0] = k0 /\ g[0] = o0
  BY DEF Ahead
<1> DEFINE n == Len(st)
           m == Len(w)
           e == Encode(frame)
           l == Len(e)
           u == st \o e
           w1 == Append(w, frame)
           f1 == [i \in 0..(n + l) |-> IF i =< n THEN f[i] ELSE m + 1]
           g1 == [i \in 0..(n + l) |-> IF i =< n THEN g[i] ELSE i - n]
<1>1. e \in Seq(Byte) /\ l >= 3
  BY TraceIs DEF Traces
<1> HIDE DEF e
<1>2. n \in Nat /\ m \in Nat /\ l \in Nat
  BY <1>1
<1>3. /\ Len(u) = n + l /\ \A i \in 1..n : u[i] = st[i]
      /\ \A i \in (n + 1)..(n + l) : u[i] = e[i - n]
  BY <1>1, ConcatProperties
<1>4. Len(w1) = m + 1 /\ w1[m + 1] = frame /\ \A k \in 1..m : w1[k] = w[k]
  OBVIOUS
<1> HIDE DEF u, w1
<1>5. /\ \A k \in 0..m : Size(w1, k) = Size(w, k) /\ Size(w, k) \in Nat
      /\ Size(w1, m + 1) = l
  <2>1. \A k \in 0..m : k # 0 => k \in 1..m
    BY <1>2
  <2>2. \A k \in 0..m : Size(w1, k) = Size(w, k)
    BY <1>4, <2>1 DEF Size
  <2>3. m + 1 # 0
    BY <1>2
  <2> QED BY <1>4, <2>2, <2>3, SizeIs DEF Size, e
<1>6. /\ \A i \in 0..n : i \in 0..(n + l) /\ f1[i] = f[i] /\ g1[i] = g[i] /\ f[i] \in 0..m /\ g[i] \in Nat
      /\ \A i \in (n + 1)..(n + l) : i \in 0..(n + l) /\ f1[i] = m + 1 /\ g1[i] = i - n
      /\ \A i \in 0..(n + l) : i \in 0..n \/ i \in (n + 1)..(n + l)
  <2>1. \A i \in 0..n : i \in 0..(n + l) /\ i =< n
    BY <1>2
  <2>2. \A i \in (n + 1)..(n + l) : i \in 0..(n + l) /\ ~(i =< n)
    BY <1>2
  <2>3. \A i \in 0..(n + l) : i \in 0..n \/ i \in (n + 1)..(n + l)
    BY <1>2
  <2>4. \A i \in 0..n : f[i] \in 0..m /\ g[i] \in Nat
    BY DEF OnItsWay
  <2> QED BY <2>1, <2>2, <2>3, <2>4
<1>7. f1 \in [0..(n + l) -> 0..(m + 1)] /\ g1 \in [0..(n + l) -> Nat]
  <2>1. \A i \in 0..n : f1[i] \in 0..(m + 1) /\ g1[i] \in Nat
    <3>1. \A x \in 0..m : x \in 0..(m + 1)
      BY <1>2
    <3> HIDE DEF f1, g1
    <3> QED BY <1>6, <3>1
  <2>2. \A i \in (n + 1)..(n + l) : f1[i] \in 0..(m + 1) /\ g1[i] \in Nat
    BY <1>2, <1>6
  <2>3. DOMAIN f1 = 0..(n + l) /\ DOMAIN g1 = 0..(n + l)
    OBVIOUS
  <2> QED BY <1>6, <2>1, <2>2
<1> HIDE DEF f1, g1
<1>8. ASSUME NEW i \in 0..(n + l) PROVE g1[i] =< Size(w1, f1[i]) /\ (f1[i] # 0 => g1[i] # 0)
  <2>1. CASE i \in 0..n
    BY <1>5, <1>6, <2>1, ZenonT(60) DEF OnItsWay
  <2>2. CASE i \in (n + 1)..(n + l)
    <3>1. i - n =< l /\ i - n # 0
      BY <1>2, <2>2
    <3> QED BY <1>5, <1>6, <2>2, <3>1
  <2> QED BY <1>6, <2>1, <2>2
<1>9. ASSUME NEW i \in 0..(n + l), NEW j \in 0..(n + l), i < j PROVE f1[i] =< f1[j]
  <2>1. CASE j \in 0..n
    <3>1. i \in 0..n
      BY <1>2, <1>9, <2>1
    <3> QED BY <1>6, <1>9, <2>1, <3>1 DEF OnItsWay
  <2>2. CASE j \in (n + 1)..(n + l)
    <3>1. f1[j] = m + 1 /\ f1[i] \in 0..(m + 1)
      BY <1>6, <1>7, <2>2
    <3> QED BY <1>2, <3>1
  <2> QED BY <1>6, <2>1, <2>2
<1>10. ASSUME NEW i \in 1..(n + l)
       PROVE  Follows(w1, f1[i - 1], g1[i - 1], f1[i], g1[i]) /\ u[i] = Encode(w1[f1[i]])[g1[i]]
  <2>1. CASE i \in 1..n
    <3>1. i \in 0..n /\ i - 1 \in 0..n
      BY <1>2, <2>1
    <3>2. /\ Follows(w, f[i - 1], g[i - 1], f[i], g[i]) /\ st[i] = Encode(w[f[i]])[g[i]]
          /\ f[i - 1] \in 0..m /\ f[i] \in 0..m /\ g[i - 1] \in Nat
      BY <1>6, <2>1, <3>1 DEF OnItsWay
    <3>3. f[i] # 0
      BY <1>2, <3>2, SMTT(60) DEF Follows, Size
    <3>4. w1[f[i]] = w[f[i]]
      <4>1. f[i] \in 1..m
        BY <1>2, <3>2, <3>3
      <4> QED BY <1>4, <4>1
    <3>5. Follows(w1, f[i - 1], g[i - 1], f[i], g[i])
      BY <1>5, <3>2 DEF Follows
    <3> QED BY <1>3, <1>6, <2>1, <3>1, <3>2, <3>4, <3>5
  <2>2. CASE i \in (n + 1)..(n + l)
    <3>1. u[i] = Encode(w1[f1[i]])[g1[i]]
      BY <1>3, <1>4, <1>6, <2>2 DEF e
    <3>2. CASE i = n + 1
      <4>1. i - 1 = n /\ n \in 0..n /\ i - n = 1
        BY <1>2, <3>2
      <4>2. f[n] = m /\ g[n] = Size(w, m)
        BY DEF OnItsWay
      <4>3. f1[i - 1] = m /\ g1[i - 1] = Size(w1, m) /\ f1[i] = m + 1 /\ g1[i] = 1
        <5>1. m \in 0..m
          BY <1>2
        <5> QED BY <1>5, <1>6, <2>2, <4>1, <4>2, <5>1
      <4> QED BY <3>1, <4>3 DEF Follows
    <3>3. CASE i # n + 1
      <4>1. i - 1 \in (n + 1)..(n + l) /\ (i - 1) - n < l /\ i - n = ((i - 1) - n) + 1
        BY <1>2, <2>2, <3>3
      <4>2. f1[i - 1] = m + 1 /\ g1[i - 1] = (i - 1) - n /\ f1[i] = m + 1 /\ g1[i] = i - n
        BY <1>6, <2>2, <4>1
      <4> QED BY <1>5, <3>1, <4>1, <4>2 DEF Follows
    <3> QED BY <3>2, <3>3
  <2>3. i \in 1..n \/ i \in (n + 1)..(n + l)
    BY <1>2
  <2> QED BY <2>1, <2>2, <2>3
<1>11. f1[n + l] = m + 1 /\ g1[n + l] = l /\ f1[0] = f[0] /\ g1[0] = g[0]
  <2>1. n + l \in (n + 1)..(n + l) /\ 0 \in 0..n /\ (n + l) - n = l
    BY <1>1, <1>2
  <2> QED BY <1>6, <2>1
<1>12. OnItsWay(w1, u, f1, g1)
  BY <1>3, <1>4, <1>5, <1>7, <1>8, <1>9, <1>10, <1>11 DEF OnItsWay
<1>13. Ahead(w1, u, k0, o0)
  BY <1>11, <1>12, Zenon DEF Ahead
<1> QED BY <1>13 DEF u, w1, e

-----------------------------------------------------------------------------
(* The types, whatever the clients write and however many they are.        *)
LEMMA TypeDecode == ASSUME TypeOK, Decode PROVE TypeOK'
<1> USE DEF TypeOK
<1>1. Head(chunk) \in Byte /\ Tail(chunk) \in Seq(Byte) /\ <<>> \in Seq(Byte)
  BY HeadTailProperties DEF Decode
<1>2. UNCHANGED <<client, wire, clients, written, alone>>
  BY DEF Decode
<1>3. Len(<<>>) < BufSize
  BY LinkAssumption
<1>4. CASE Delimiter
  BY <1>1, <1>2, <1>3, <1>4 DEF Delimiter, NextByte
<1>5. CASE Noise
  BY <1>1, <1>2, <1>5 DEF Noise, NextByte, decoder
<1>6. CASE EscapeNext
  BY <1>1, <1>2, <1>6 DEF EscapeNext, NextByte
<1>7. CASE Collect
  <2>1. Unescaped(Head(chunk)) \in Byte
    <3>1. "FEND" \in Byte /\ "FESC" \in Byte
      BY DEF Byte, Special
    <3> QED BY <1>1, <3>1 DEF Unescaped
  <2>2. LET b == Append(buf_in, Unescaped(Head(chunk)))
        IN  b \in Seq(Byte) /\ Len(b) = Len(buf_in) + 1
    BY <2>1
  <2>3. buf_in' \in Seq(Byte) /\ Len(buf_in') < BufSize /\ chunk' \in Seq(Byte)
    BY <1>1, <1>3, <1>7, <2>2 DEF Collect, NextByte
  <2> QED BY <1>2, <1>7, <2>3 DEF Collect
<1> QED BY <1>4, <1>5, <1>6, <1>7 DEF Decode

LEMMA TypeInit == Init => TypeOK
<1>1. 0 \in 0..MaxClient /\ Len(<<>>) < BufSize
  BY LinkAssumption
<1>2. <<>> \in Seq(Byte) /\ <<>> \in Seq(Command) /\ <<>> \in Seq(Seq(Byte))
  OBVIOUS
<1> QED BY ONLY <1>1, <1>2 DEF Init, TypeOK

LEMMA TypeNext == TypeOK /\ [Next]_vars => TypeOK'
<1> SUFFICES ASSUME TypeOK, [Next]_vars PROVE TypeOK'
  OBVIOUS
<1> USE DEF TypeOK
<1>1. CASE UNCHANGED vars
  BY <1>1 DEF vars, tcp, decoder
<1>2. ASSUME NEW frame \in Command, Write(frame) PROVE TypeOK'
  <2>1. Encode(frame) \in Seq(Byte)
    BY TraceIs DEF Traces
  <2>2. wire \o Encode(frame) \in Seq(Byte)
    BY <2>1
  <2>3. alone' \in BOOLEAN /\ written' \in Seq(Command)
    BY <1>2 DEF Write, Drained
  <2> QED BY <1>2, <2>2, <2>3 DEF Write, decoder
<1>3. CASE Accept
  BY <1>3, LinkAssumption DEF Accept, decoder
<1>4. CASE Read
  <2>1. PICK n \in 1..Len(wire) : chunk' = SubSeq(wire, 1, n) /\ wire' = SubSeq(wire, n + 1, Len(wire))
    BY <1>4 DEF Read
  <2>2. SubSeq(wire, 1, n) \in Seq(Byte) /\ SubSeq(wire, n + 1, Len(wire)) \in Seq(Byte)
    BY SMTT(60)
  <2> QED BY <1>4, <2>1, <2>2 DEF Read, decoder
<1>5. CASE Disconnect
  BY <1>5, LinkAssumption DEF Disconnect, decoder
<1>6. CASE Decode
  BY <1>6, TypeDecode
<1> QED BY <1>1, <1>2, <1>3, <1>4, <1>5, <1>6 DEF Next

(* With any number of clients, and frames of any length: the decoder never *)
(* fills its buffer, and passes on nothing but bytes.                      *)
THEOREM TypesHold == Spec => []TypeOK
BY TypeInit, TypeNext, PTL DEF Spec

-----------------------------------------------------------------------------
(* What the decoder has, at a place in the stream: it is in sync from the  *)
(* first delimiter on, until a frame overflows the buffer.                 *)
Seen(k, o) ==
    /\ sync => k # 0
    /\ ~sync => buf_in = <<>> /\ ~escape
    /\ sync /\ o = Size(written, k) => buf_in = <<>> /\ ~escape
    /\ sync /\ o # Size(written, k) => /\ buf_in = SubSeq(written[k], 1, Got(written[k])[o])
                                       /\ (escape <=> Esc(written[k])[o])

(* Frame k is not passed on before its end.                                *)
InOrder(k, o) ==
    \E at \in [DOMAIN passed -> 1..k] :
        /\ \A i \in DOMAIN passed : passed[i] = written[at[i]] /\ (o # Size(written, k) => at[i] # k)
        /\ \A i, j \in DOMAIN passed : i < j => at[i] < at[j]

AllFit == \A i \in DOMAIN written : Fits(written[i])
AllSoFar(k, o) ==
    AllFit => /\ passed = SubSeq(written, 1, IF o = Size(written, k) THEN k ELSE k - 1)
              /\ k # 0 => sync

(* A frame written when all was quiet is taken in from its beginning.      *)
LastSoFar(k, o) ==
    alone /\ Fits(Last(written)) =>
        /\ written # <<>>
        /\ k = Len(written) \/ (k = Len(written) - 1 /\ o = Size(written, k))
        /\ k = Len(written) => sync
        /\ k = Len(written) /\ o = Size(written, k) => passed # <<>> /\ Last(passed) = Last(written)

At(k, o) == Seen(k, o) /\ InOrder(k, o) /\ AllSoFar(k, o) /\ LastSoFar(k, o)

(* A byte of the stream is the first of a frame's encoding, the last or    *)
(* between them.                                                           *)
First(k, o, k1, o1, b) ==
    /\ k1 = k + 1 /\ o = Size(written, k) /\ o1 = 1 /\ o1 # Size(written, k1) /\ b = "FEND"
    /\ Got(written[k1])[o1] = 0 /\ ~Esc(written[k1])[o1]
Final(k, o, k1, o1, b) ==
    /\ k1 = k /\ o # Size(written, k) /\ o1 = Size(written, k) /\ b = "FEND"
    /\ Got(written[k])[o] = Len(written[k]) /\ ~Esc(written[k])[o]
Inner(k, o, k1, o1, b) ==
    LET got == Got(written[k])
        esc == Esc(written[k])
    IN  /\ k1 = k /\ o # Size(written, k) /\ o1 # Size(written, k) /\ b # "FEND"
        /\ got[o] \in Nat /\ got[o] < Len(written[k])
        /\ Unescapes(written[k], b, got[o], esc[o], got[o1], esc[o1])

LEMMA ByteIs ==
    ASSUME TypeOK, NEW k \in 0..Len(written), NEW k1 \in 0..Len(written), NEW o \in Nat, NEW o1 \in Nat,
           k # 0 => o # 0, Follows(written, k, o, k1, o1),
           NEW b, b = Encode(written[k1])[o1], o1 =< Size(written, k1)
    PROVE  /\ k1 # 0 /\ written[k1] \in Command
           /\ First(k, o, k1, o1, b) \/ Final(k, o, k1, o1, b) \/ Inner(k, o, k1, o1, b)
<1>1. Len(written) \in Nat /\ Size(written, k) \in Nat
  BY SizeIs DEF TypeOK
<1>2. k1 # 0
  BY <1>1 DEF Follows, Size
<1>3. written[k1] \in Command
  BY <1>2 DEF TypeOK
<1> DEFINE w == written[k1]
           e == Encode(w)
           l == Len(e)
<1> SUFFICES First(k, o, k1, o1, b) \/ Final(k, o, k1, o1, b) \/ Inner(k, o, k1, o1, b)
  BY <1>2, <1>3
<1>4. Traces(w, e, Got(w), Esc(w)) /\ Size(written, k1) = l
  BY <1>2, <1>3, TraceIs DEF Size
<1>5. /\ l \in Nat /\ l >= 3 /\ e[1] = "FEND" /\ e[l] = "FEND"
      /\ Got(w)[1] = 0 /\ ~Esc(w)[1] /\ Got(w)[l - 1] = Len(w) /\ ~Esc(w)[l - 1]
  BY <1>4 DEF Traces
<1>6. CASE o = Size(written, k) /\ k1 = k + 1 /\ o1 = 1
  <2>1. b = e[1] /\ o1 # l
    BY <1>5, <1>6
  <2> QED BY <1>4, <1>5, <1>6, <2>1 DEF First
<1>7. CASE o < Size(written, k) /\ k1 = k /\ o1 = o + 1
  <2>1. o # Size(written, k) /\ o # 0
    BY <1>1, <1>2, <1>7
  <2>2. CASE o1 = l
    <3>1. o = l - 1
      BY <1>5, <1>7, <2>2
    <3> QED BY <1>4, <1>5, <1>7, <2>1, <2>2, <3>1 DEF Final
  <2>3. CASE o1 # l
    <3>1. o1 \in 2..(l - 1) /\ o = o1 - 1 /\ o \in 1..(l - 1)
      BY <1>4, <1>5, <1>7, <2>1, <2>3
    <3>2. Got(w)[o] < Len(w) /\ Unescapes(w, b, Got(w)[o], Esc(w)[o], Got(w)[o1], Esc(w)[o1])
      BY <1>4, <3>1 DEF Traces
    <3>3. Got(w)[o] \in Nat
      <4>1. Got(w) \in [1..(l - 1) -> 0..Len(w)]
        BY <1>4 DEF Traces
      <4> QED BY <3>1, <4>1
    <3>4. b # "FEND"
      BY <3>2 DEF Unescapes, Special
    <3> QED BY <1>4, <1>7, <2>1, <2>3, <3>2, <3>3, <3>4 DEF Inner
  <2> QED BY <2>2, <2>3
<1> QED BY <1>6, <1>7 DEF Follows

(* A beginning of a sequence, with one more.                               *)
LEMMA PrefixMore ==
    ASSUME NEW S, NEW s \in Seq(S), NEW n \in Nat, n < Len(s)
    PROVE  Append(SubSeq(s, 1, n), s[n + 1]) = SubSeq(s, 1, n + 1)
<1>1. /\ SubSeq(s, 1, n) \in Seq(S) /\ Len(SubSeq(s, 1, n)) = n
      /\ \A i \in 1..n : SubSeq(s, 1, n)[i] = s[i]
  OBVIOUS
<1>2. /\ SubSeq(s, 1, n + 1) \in Seq(S) /\ Len(SubSeq(s, 1, n + 1)) = n + 1
      /\ \A i \in 1..(n + 1) : SubSeq(s, 1, n + 1)[i] = s[i]
  OBVIOUS
<1> DEFINE u == SubSeq(s, 1, n)
           v == SubSeq(s, 1, n + 1)
<1>3. s[n + 1] \in S
  OBVIOUS
<1> HIDE DEF u, v
<1>4. /\ Append(u, s[n + 1]) \in Seq(S) /\ Len(Append(u, s[n + 1])) = n + 1
      /\ \A i \in 1..n : Append(u, s[n + 1])[i] = u[i]
      /\ Append(u, s[n + 1])[n + 1] = s[n + 1]
  BY <1>1, <1>3 DEF u
<1>5. \A i \in 1..(n + 1) : Append(u, s[n + 1])[i] = v[i]
  BY <1>1, <1>2, <1>4 DEF u, v
<1> QED BY <1>2, <1>4, <1>5, SeqEqual DEF u, v

(* A frame begins, and nothing of it has been collected.                   *)
LEMMA FirstStep ==
    ASSUME TypeOK, NEW k \in 0..Len(written), NEW k1 \in 1..Len(written), NEW o \in Nat, NEW o1 \in Nat,
           At(k, o), First(k, o, k1, o1, Head(chunk)), Delimiter, UNCHANGED <<written, alone>>
    PROVE  At(k1, o1)'
<1> USE DEF First
<1>1. ~(sync /\ buf_in # <<>>) /\ ~escape
  BY DEF At, Seen
<1>2. passed' = passed /\ sync' = TRUE /\ buf_in' = <<>> /\ escape' = escape
  BY <1>1 DEF Delimiter
<1>3. k1 # 0 /\ Len(written) \in Nat /\ k1 - 1 = k /\ \A j \in 1..k : j \in 1..k1 /\ j # k1
  BY SMTT(60) DEF TypeOK
<1>4. Seen(k1, o1)'
  <2>1. SubSeq(written[k1], 1, Got(written[k1])[o1]) = <<>>
    BY SubSeqEmpty
  <2> QED BY <1>1, <1>2, <1>3, <2>1 DEF Seen
<1>5. InOrder(k1, o1)'
  <2>1. PICK at \in [DOMAIN passed -> 1..k] :
            /\ \A i \in DOMAIN passed : passed[i] = written[at[i]]
            /\ \A i, j \in DOMAIN passed : i < j => at[i] < at[j]
    BY DEF At, InOrder
  <2>2. at \in [DOMAIN passed -> 1..k1] /\ \A i \in DOMAIN passed : at[i] # k1
    BY <1>3, <2>1
  <2> QED BY <1>2, <2>1, <2>2 DEF InOrder
<1>6. AllSoFar(k1, o1)'
  BY <1>2, <1>3 DEF At, AllSoFar, AllFit
<1>7. LastSoFar(k1, o1)'
  <2>1. k # Len(written)
    BY <1>3
  <2> QED BY <1>2, <1>3, <2>1 DEF At, LastSoFar
<1> QED BY <1>4, <1>5, <1>6, <1>7 DEF At

(* A frame ends, and is passed on unless it has overflowed.                *)
LEMMA FinalStep ==
    ASSUME TypeOK, NEW k \in 1..Len(written), NEW o \in Nat, NEW o1 \in Nat,
           written[k] \in Command, At(k, o), Final(k, o, k, o1, Head(chunk)), Delimiter,
           UNCHANGED <<written, alone>>
    PROVE  At(k, o1)'
<1> USE DEF Final
<1> DEFINE w == written[k]
           m == Len(passed)
           more == Append(passed, w)
<1>1. w \in Seq(Byte) /\ w # <<>> /\ Len(written) \in Nat /\ m \in Nat /\ DOMAIN passed = 1..m
  BY CommandAssumption, SMTT(60) DEF TypeOK
<1>2. sync' = TRUE /\ buf_in' = <<>> /\ escape' = escape /\ ~escape
  BY DEF At, Seen, Delimiter
<1>3. sync => passed' = more
  <2>1. SubSeq(w, 1, Len(w)) = w
    BY <1>1, SubSeqFull
  <2>2. sync => buf_in = w
    BY <2>1 DEF At, Seen
  <2> QED BY <1>1, <2>2 DEF Delimiter
<1>4. ~sync => passed' = passed
  BY DEF Delimiter
<1>5. /\ Len(more) = m + 1 /\ DOMAIN more = 1..(m + 1) /\ more[m + 1] = w /\ more # <<>>
      /\ \A i \in 1..m : more[i] = passed[i]
  <2>1. passed \in Seq(Seq(Byte))
    BY DEF TypeOK
  <2> QED BY <1>1, <2>1, AppendProperties, SMTT(60)
<1> HIDE DEF more
<1>6. Seen(k, o1)'
  BY <1>2 DEF Seen
<1>7. InOrder(k, o1)'
  <2>1. PICK at \in [1..m -> 1..k] :
            /\ \A i \in 1..m : passed[i] = written[at[i]] /\ at[i] # k
            /\ \A i, j \in 1..m : i < j => at[i] < at[j]
    BY <1>1 DEF At, InOrder
  <2>2. CASE ~sync
    BY <1>1, <1>4, <2>1, <2>2 DEF InOrder
  <2>3. CASE sync
    <3> DEFINE at1 == [i \in 1..(m + 1) |-> IF i =< m THEN at[i] ELSE k]
    <3>1. /\ DOMAIN passed' = 1..(m + 1) /\ passed'[m + 1] = w
          /\ \A i \in 1..m : passed'[i] = passed[i]
      BY <1>3, <1>5, <2>3
    <3>2. /\ \A i \in 1..m : i \in 1..(m + 1) /\ at1[i] = at[i] /\ at[i] \in 1..k /\ at[i] < k
          /\ at1[m + 1] = k
          /\ \A i \in 1..(m + 1) : i \in 1..m \/ i = m + 1
      <4>1. /\ \A i \in 1..m : i \in 1..(m + 1) /\ i =< m
            /\ m + 1 \in 1..(m + 1) /\ ~(m + 1 =< m)
            /\ \A i \in 1..(m + 1) : i \in 1..m \/ i = m + 1
        BY <1>1, SMTT(60)
      <4>2. \A i \in 1..m : at[i] \in 1..k /\ at[i] # k
        BY <2>1
      <4>3. \A j \in 1..k : j # k => j < k
        OBVIOUS
      <4> QED BY <4>1, <4>2, <4>3
    <3>3. at1 \in [1..(m + 1) -> 1..k]
      BY <3>2
    <3> HIDE DEF at1
    <3>4. \A i \in 1..(m + 1) : passed'[i] = written[at1[i]]
      BY <2>1, <3>1, <3>2, SMTT(60)
    <3>5. ASSUME NEW i \in 1..(m + 1), NEW j \in 1..(m + 1), i < j PROVE at1[i] < at1[j]
      <4>1. i \in 1..m
        BY <1>1, <3>5
      <4> QED BY <2>1, <3>2, <3>5, <4>1
    <3> QED BY <3>1, <3>3, <3>4, <3>5 DEF InOrder
  <2> QED BY <2>2, <2>3
<1>8. AllSoFar(k, o1)'
  <2> SUFFICES ASSUME AllFit PROVE passed' = SubSeq(written, 1, k)
    BY <1>2 DEF AllSoFar, AllFit
  <2>1. sync /\ passed = SubSeq(written, 1, k - 1)
    BY DEF At, AllSoFar
  <2>2. k - 1 \in Nat /\ k - 1 < Len(written) /\ (k - 1) + 1 = k
    BY <1>1
  <2>3. Append(SubSeq(written, 1, k - 1), w) = SubSeq(written, 1, k)
    BY <2>2, PrefixMore DEF TypeOK
  <2> QED BY <1>3, <2>1, <2>3 DEF more
<1>9. LastSoFar(k, o1)'
  <2> SUFFICES ASSUME alone, Fits(Last(written))
               PROVE  /\ written # <<>> /\ k = Len(written)
                      /\ passed' # <<>> /\ Last(passed') = Last(written)
    BY <1>2 DEF LastSoFar
  <2>1. written # <<>> /\ k = Len(written) /\ sync
    BY DEF At, LastSoFar
  <2>2. more # <<>> /\ Last(more) = w
    BY <1>5 DEF Last
  <2>3. Last(written) = w
    BY <2>1 DEF Last
  <2> QED BY <1>3, <2>1, <2>2, <2>3
<1> QED BY <1>6, <1>7, <1>8, <1>9 DEF At

(* In the middle of a frame nothing is passed on.                          *)
LEMMA InnerRest ==
    ASSUME NEW k, NEW o, NEW o1, NEW k1, o # Size(written, k), k # 0,
           At(k, o), UNCHANGED <<sync, passed, written, alone>>,
           k1 = k, o1 # Size(written, k)
    PROVE  InOrder(k, o1)' /\ AllSoFar(k, o1)' /\ LastSoFar(k, o1)'
<1>1. InOrder(k, o1)'
  BY DEF At, InOrder
<1>2. AllSoFar(k, o1)'
  BY DEF At, AllSoFar, AllFit
<1>3. LastSoFar(k, o1)'
  BY DEF At, LastSoFar
<1> QED BY <1>1, <1>2, <1>3

(* A byte of a frame is skipped, begins an escape, or is collected.        *)
LEMMA InnerStep ==
    ASSUME TypeOK, NEW k \in 1..Len(written), NEW o \in Nat, NEW o1 \in Nat,
           written[k] \in Command, At(k, o), Inner(k, o, k, o1, Head(chunk)),
           Noise \/ EscapeNext \/ (Collect /\ sync'), UNCHANGED <<written, alone>>
    PROVE  At(k, o1)'
<1> DEFINE w == written[k]
           b == Head(chunk)
           got == Got(w)
           esc == Esc(w)
<1>1. /\ k # 0 /\ o # Size(written, k) /\ o1 # Size(written, k) /\ got[o] \in Nat /\ got[o] < Len(w)
      /\ Unescapes(w, b, got[o], esc[o], got[o1], esc[o1])
  BY DEF Inner
<1>2. sync => buf_in = SubSeq(w, 1, got[o]) /\ (escape <=> esc[o])
  BY <1>1 DEF At, Seen
<1>3. CASE Noise
  <2>1. UNCHANGED <<sync, escape, buf_in, passed>> /\ ~sync
    BY <1>3 DEF Noise, decoder
  <2>2. Seen(k, o1)'
    BY <2>1 DEF At, Seen
  <2> QED BY <1>1, <2>1, <2>2, InnerRest DEF At
<1>4. CASE EscapeNext
  <2>1. UNCHANGED <<sync, buf_in, passed>> /\ sync /\ escape' /\ b = "FESC"
    BY <1>4 DEF EscapeNext
  <2>2. esc[o1] /\ got[o1] = got[o]
    BY <1>1, <2>1 DEF Unescapes, Special
  <2>3. Seen(k, o1)'
    BY <1>1, <1>2, <2>1, <2>2 DEF Seen
  <2> QED BY <1>1, <2>1, <2>3, InnerRest DEF At
<1>5. CASE Collect /\ sync'
  <2>1. /\ UNCHANGED <<sync, passed>> /\ sync /\ escape' = FALSE /\ b \notin Special
        /\ buf_in' = Append(buf_in, Unescaped(b))
    BY <1>5 DEF Collect
  <2>2. ~esc[o1] /\ got[o1] = got[o] + 1 /\ Unescaped(b) = w[got[o] + 1]
    <3>1. CASE ~escape
      BY <1>1, <1>2, <2>1, <3>1 DEF Unescapes, Unescaped, Special
    <3>2. CASE escape
      BY <1>1, <1>2, <2>1, <3>2 DEF Unescapes, Unescaped, Special
    <3> QED BY <3>1, <3>2
  <2>3. buf_in' = SubSeq(w, 1, got[o1])
    <3>1. w \in Seq(Byte)
      BY CommandAssumption
    <3> QED BY <1>1, <1>2, <2>1, <2>2, <3>1, PrefixMore
  <2>4. Seen(k, o1)'
    BY <1>1, <2>1, <2>2, <2>3 DEF Seen
  <2> QED BY <1>1, <2>1, <2>4, InnerRest DEF At
<1> QED BY <1>3, <1>4, <1>5

(* A frame fills the buffer: the rest of the chunk is dropped with it.     *)
LEMMA OverflowStep ==
    ASSUME TypeOK, NEW k \in 1..Len(written), NEW o \in Nat, NEW o1,
           written[k] \in Command, At(k, o), Inner(k, o, k, o1, Head(chunk)), Collect, ~sync',
           UNCHANGED <<written, alone>>, NEW k2 \in k..Len(written), NEW o2
    PROVE  At(k2, o2)'
<1> DEFINE w == written[k]
           got == Got(w)
<1>1. /\ o # Size(written, k) /\ got[o] \in Nat /\ got[o] < Len(w) /\ k # 0
  BY DEF Inner
<1>2. /\ sync /\ passed' = passed /\ buf_in' = <<>> /\ escape' = FALSE /\ Len(buf_in) + 1 >= BufSize
  BY DEF Collect
<1>3. ~Fits(w)
  <2>1. w \in Seq(Byte)
    BY CommandAssumption
  <2>2. Len(buf_in) = got[o]
    BY <1>1, <1>2, <2>1 DEF At, Seen
  <2> QED BY <1>1, <1>2, <2>1, <2>2, LinkAssumption DEF Fits
<1>4. Seen(k2, o2)'
  BY <1>2 DEF Seen
<1>5. InOrder(k2, o2)'
  <2>1. PICK at \in [DOMAIN passed -> 1..k] :
            /\ \A i \in DOMAIN passed : passed[i] = written[at[i]] /\ at[i] # k
            /\ \A i, j \in DOMAIN passed : i < j => at[i] < at[j]
    BY <1>1 DEF At, InOrder
  <2>2. \A j \in 1..k : j # k => j \in 1..k2 /\ j # k2
    BY DEF TypeOK
  <2>3. at \in [DOMAIN passed -> 1..k2] /\ \A i \in DOMAIN passed : at[i] # k2
    BY <2>1, <2>2
  <2> QED BY <1>2, <2>1, <2>3 DEF InOrder
<1>6. AllSoFar(k2, o2)'
  <2>1. ~AllFit
    BY <1>3 DEF AllFit, TypeOK
  <2> QED BY <2>1 DEF AllSoFar, AllFit
<1>7. LastSoFar(k2, o2)'
  <2>1. ~(alone /\ Fits(Last(written)))
    BY <1>1, <1>3 DEF At, LastSoFar, Last
  <2> QED BY <2>1 DEF LastSoFar
<1> QED BY <1>4, <1>5, <1>6, <1>7 DEF At

-----------------------------------------------------------------------------
(* The decoder is at the place the stream has come to.                     *)
Placed == \E k, o : Ahead(written, chunk \o wire, k, o) /\ At(k, o)

(* A client is replaced before what it has written has been read.          *)
CutOff == Accept /\ wire # <<>>

LEMMA DecodePlaced == ASSUME TypeOK, Placed, Decode PROVE Placed'
<1> DEFINE st == chunk \o wire
           b == Head(chunk)
           n == Len(chunk)
<1>1. /\ chunk \in Seq(Byte) /\ chunk # <<>> /\ wire \in Seq(Byte) /\ UNCHANGED <<wire, written, alone>>
  BY DEF TypeOK, Decode
<1>2. /\ n \in Nat /\ n >= 1 /\ st \in Seq(Byte) /\ Len(st) = n + Len(wire) /\ st[1] = b
      /\ Len(wire) \in Nat /\ \A i \in 1..Len(wire) : st[i + n] = wire[i]
  BY <1>1, ConcatProperties
<1>3. PICK f, g : OnItsWay(written, st, f, g) /\ At(f[0], g[0])
  <2>1. PICK k, o : Ahead(written, st, k, o) /\ At(k, o)
    BY ZenonT(60) DEF Placed
  <2>2. PICK f, g : OnItsWay(written, st, f, g) /\ f[0] = k /\ g[0] = o
    BY <2>1, ZenonT(60) DEF Ahead
  <2> QED BY <2>1, <2>2
<1> HIDE DEF st
<1>4. /\ Len(written) \in Nat /\ f[0] \in 0..Len(written) /\ f[1] \in 0..Len(written)
      /\ g[0] \in Nat /\ g[1] \in Nat /\ (f[0] # 0 => g[0] # 0)
      /\ Follows(written, f[0], g[0], f[1], g[1])
      /\ b = Encode(written[f[1]])[g[1]] /\ g[1] =< Size(written, f[1])
      /\ \A d \in 1..Len(st) : f[d] \in 0..Len(written) /\ f[1] =< f[d]
  <2>1. /\ 0 \in 0..Len(st) /\ 1 \in 0..Len(st) /\ 1 \in 1..Len(st) /\ 1 - 1 = 0
        /\ \A d \in 1..Len(st) : d \in 0..Len(st) /\ (d = 1 \/ 1 < d)
    BY <1>2
  <2>2. Len(written) \in Nat
    BY DEF TypeOK
  <2>3. \A d \in 0..Len(st) : f[d] \in 0..Len(written) /\ g[d] \in Nat
    BY <1>3 DEF OnItsWay
  <2>4. Follows(written, f[0], g[0], f[1], g[1])
    BY <1>3, <2>1 DEF OnItsWay
  <2>5. b = Encode(written[f[1]])[g[1]] /\ g[1] =< Size(written, f[1]) /\ (f[0] # 0 => g[0] # 0)
    BY <1>2, <1>3, <2>1 DEF OnItsWay
  <2>6. \A d \in 1..Len(st) : f[1] =< f[d]
    <3>1. \A d \in 1..Len(st) : 1 < d => f[1] =< f[d]
      BY <1>3, <2>1 DEF OnItsWay
    <3> QED BY <2>1, <2>2, <2>3, <3>1
  <2> QED BY <2>1, <2>2, <2>3, <2>4, <2>5, <2>6
<1>5. /\ f[1] # 0 /\ written[f[1]] \in Command
      /\ First(f[0], g[0], f[1], g[1], b) \/ Final(f[0], g[0], f[1], g[1], b)
         \/ Inner(f[0], g[0], f[1], g[1], b)
  BY <1>4, ByteIs
<1>6. f[1] \in 1..Len(written)
  BY <1>4, <1>5
<1>7. ASSUME NEW d \in 1..n, At(f[d], g[d])', chunk' \in Seq(Byte), Len(chunk') = n - d,
             \A i \in 1..Len(chunk') : chunk'[i] = chunk[i + d]
      PROVE  Placed'
  <2> DEFINE st1 == chunk' \o wire
  <2>1. d \in 0..Len(st) /\ Len(st) - d = (n - d) + Len(wire)
    BY <1>2
  <2>2. st1 \in Seq(Byte) /\ Len(st1) = Len(st) - d
    BY <1>1, <1>7, <2>1, ConcatProperties, ZenonT(60)
  <2>3. ASSUME NEW i \in 1..Len(st1) PROVE st1[i] = st[i + d]
    <3>1. CASE i =< n - d
      <4>1. i \in 1..Len(chunk') /\ i + d \in 1..n
        BY <1>2, <1>7, <3>1
      <4>2. st1[i] = chunk'[i] /\ st[i + d] = chunk[i + d]
        BY <1>1, <1>7, <4>1, ConcatProperties DEF st
      <4> QED BY <1>7, <4>1, <4>2
    <3>2. CASE ~(i =< n - d)
      <4>1. i - (n - d) \in 1..Len(wire) /\ (i - (n - d)) + n = i + d
        BY <1>2, <2>1, <2>2, <3>2
      <4>2. st1[i] = wire[i - (n - d)]
        BY <1>1, <1>7, <2>1, <2>2, <3>2, ConcatProperties, SMTT(60)
      <4> QED BY <1>2, <4>1, <4>2
    <3> QED BY <3>1, <3>2
  <2> HIDE DEF st1
  <2>4. Gone(st, st1, d)
    BY <1>2, <2>1, <2>2, <2>3 DEF Gone
  <2>5. Ahead(written, st1, f[d], g[d])
    BY <1>3, <2>4, OnceGone
  <2> QED BY <1>1, <1>7, <2>5 DEF Placed, st1
<1>8. ASSUME NextByte, At(f[1], g[1])' PROVE Placed'
  <2>1. /\ chunk' \in Seq(Byte) /\ Len(chunk') = n - 1 /\ 1 \in 1..n
        /\ \A i \in 1..Len(chunk') : chunk'[i] = chunk[i + 1]
    BY <1>1, <1>2, <1>8, HeadTailProperties DEF NextByte
  <2> QED BY <1>7, <1>8, <2>1
<1>9. CASE Delimiter
  <2>1. b = "FEND" /\ NextByte
    BY <1>9 DEF Delimiter
  <2>2. ~Inner(f[0], g[0], f[1], g[1], b)
    BY <2>1 DEF Inner
  <2>3. CASE First(f[0], g[0], f[1], g[1], b)
    <3>1. At(f[1], g[1])'
      BY <1>1, <1>3, <1>4, <1>6, <1>9, <2>3, FirstStep
    <3> QED BY <1>8, <2>1, <3>1
  <2>4. CASE Final(f[0], g[0], f[1], g[1], b)
    <3>1. f[0] = f[1]
      BY <2>4 DEF Final
    <3>2. At(f[1], g[1])'
      BY <1>1, <1>3, <1>4, <1>5, <1>6, <1>9, <2>4, <3>1, FinalStep
    <3> QED BY <1>8, <2>1, <3>2
  <2> QED BY <1>5, <2>2, <2>3, <2>4
<1>10. CASE Noise \/ EscapeNext \/ Collect
  <2>1. b # "FEND"
    BY <1>10 DEF Noise, EscapeNext, Collect, Special
  <2>2. Inner(f[0], g[0], f[1], g[1], b) /\ f[0] = f[1]
    <3>1. ~First(f[0], g[0], f[1], g[1], b) /\ ~Final(f[0], g[0], f[1], g[1], b)
      BY <2>1 DEF First, Final
    <3>2. Inner(f[0], g[0], f[1], g[1], b)
      BY <1>5, <3>1
    <3> QED BY <3>2 DEF Inner
  <2>3. CASE Noise \/ EscapeNext \/ (Collect /\ sync')
    <3>1. NextByte
      BY <2>3 DEF Noise, EscapeNext, Collect
    <3>2. At(f[1], g[1])'
      BY <1>1, <1>3, <1>4, <1>5, <1>6, <2>2, <2>3, InnerStep
    <3> QED BY <1>8, <3>1, <3>2
  <2>4. CASE Collect /\ ~sync'
    <3>1. chunk' = <<>>
      BY <2>4 DEF Collect
    <3>2. PICK d \in 1..n : d = n
      BY <1>2
    <3>3. d \in 1..Len(st) /\ f[d] \in f[1]..Len(written)
      BY <1>2, <1>4, <1>6, <3>2
    <3>4. At(f[d], g[d])'
      <4>1. At(f[1], g[0]) /\ Inner(f[1], g[0], f[1], g[1], b)
        BY <1>3, <2>2
      <4> QED BY <1>1, <1>4, <1>5, <1>6, <2>4, <3>3, <4>1, OverflowStep
    <3>5. chunk' \in Seq(Byte) /\ Len(chunk') = n - d /\ \A i \in 1..Len(chunk') : chunk'[i] = chunk[i + d]
      BY <1>2, <3>1, <3>2
    <3> QED BY <1>7, <3>2, <3>4, <3>5
  <2> QED BY <1>10, <2>3, <2>4
<1> QED BY <1>9, <1>10 DEF Decode

(* A place is in what is written, and at its end when nothing follows.     *)
LEMMA PlaceIs ==
    ASSUME TypeOK, NEW k, NEW o, Ahead(written, chunk \o wire, k, o)
    PROVE  /\ k \in 0..Len(written) /\ o \in Nat /\ Len(written) \in Nat
           /\ Drained => k = Len(written) /\ o = Size(written, Len(written))
<1> DEFINE st == chunk \o wire
<1>1. Len(st) \in Nat /\ 0 \in 0..Len(st) /\ Len(written) \in Nat /\ (Drained => Len(st) = 0)
  <2>1. st \in Seq(Byte)
    BY ConcatProperties DEF TypeOK
  <2> QED BY <2>1 DEF TypeOK, Drained
<1> HIDE DEF st
<1>2. PICK f, g : OnItsWay(written, st, f, g) /\ f[0] = k /\ g[0] = o
  BY DEF Ahead, st
<1>3. k \in 0..Len(written) /\ o \in Nat
  BY <1>1, <1>2 DEF OnItsWay
<1> QED BY <1>1, <1>2, <1>3 DEF OnItsWay

(* A frame is written: the stream goes on, the decoder is where it was.    *)
LEMMA WritePlaced ==
    ASSUME TypeOK, Placed, NEW frame \in Command, Write(frame)
    PROVE  Placed'
<1> DEFINE st == chunk \o wire
           e == Encode(frame)
           m == Len(written)
<1>1. e \in Seq(Byte)
  BY TraceIs DEF Traces
<1>2. /\ written' = Append(written, frame) /\ alone' = Drained
      /\ UNCHANGED <<chunk, sync, escape, buf_in, passed>>
      /\ wire' = wire \o e
  BY DEF Write, decoder
<1>3. st \in Seq(Byte) /\ (chunk \o wire)' = st \o e
  <2>1. chunk \in Seq(Byte) /\ wire \in Seq(Byte)
    BY DEF TypeOK
  <2>2. st \in Seq(Byte) /\ chunk \o (wire \o e) = st \o e
    BY <1>1, <2>1, ConcatAssociative, ConcatProperties, SMTT(60)
  <2> QED BY <1>2, <2>2
<1>4. PICK k, o : Ahead(written, st, k, o) /\ At(k, o)
  BY DEF Placed
<1>5. Ahead(written', (chunk \o wire)', k, o)
  <2>1. written \in Seq(Command)
    BY DEF TypeOK
  <2> QED BY <1>2, <1>3, <1>4, <2>1, OneMore
<1>6. k \in 0..m /\ o \in Nat /\ m \in Nat /\ (Drained => k = m /\ o = Size(written, m))
  BY <1>4, PlaceIs
<1>7. /\ Len(written') = m + 1 /\ written'[m + 1] = frame /\ \A j \in 1..m : written'[j] = written[j]
      /\ DOMAIN written = 1..m /\ DOMAIN written' = 1..(m + 1)
  BY <1>2 DEF TypeOK
<1>8. Size(written', k) = Size(written, k)
  <2>1. k # 0 => k \in 1..m
    BY <1>6
  <2> QED BY <1>7, <2>1 DEF Size
<1> HIDE DEF m
<1>9. At(k, o)
  BY <1>4
<1>10. Seen(k, o)'
  <2>1. sync => k \in 1..m
    BY <1>6, <1>9 DEF At, Seen
  <2> QED BY <1>2, <1>7, <1>8, <1>9, <2>1 DEF At, Seen
<1>11. InOrder(k, o)'
  <2>1. PICK at \in [DOMAIN passed -> 1..k] :
            /\ \A i \in DOMAIN passed : passed[i] = written[at[i]] /\ (o # Size(written, k) => at[i] # k)
            /\ \A i, j \in DOMAIN passed : i < j => at[i] < at[j]
    BY <1>9 DEF At, InOrder
  <2>2. \A j \in 1..k : j \in 1..m
    BY <1>6
  <2>3. \A i \in DOMAIN passed : passed[i] = written'[at[i]]
    BY <1>7, <2>1, <2>2
  <2> QED BY <1>2, <1>8, <2>1, <2>3 DEF InOrder
<1>12. AllSoFar(k, o)'
  <2> SUFFICES ASSUME AllFit'
               PROVE  /\ passed = SubSeq(written', 1, IF o = Size(written, k) THEN k ELSE k - 1)
                      /\ k # 0 => sync
    BY <1>2, <1>8 DEF AllSoFar
  <2>1. AllFit
    BY <1>6, <1>7 DEF AllFit
  <2>2. /\ passed = SubSeq(written, 1, IF o = Size(written, k) THEN k ELSE k - 1)
        /\ k # 0 => sync
    BY <1>9, <2>1 DEF At, AllSoFar
  <2>3. ASSUME NEW j \in (0 - 1)..m PROVE SubSeq(written', 1, j) = SubSeq(written, 1, j)
    <3>1. CASE j < 1
      BY <3>1, SubSeqEmpty
    <3>2. CASE j >= 1
      <4>1. j \in 1..Len(written) /\ 1 \in 1..Len(written)
        BY <1>6, <3>2 DEF m
      <4>2. written' = written \o <<frame>> /\ <<frame>> \in Seq(Command) /\ written \in Seq(Command)
        BY <1>2 DEF TypeOK
      <4> QED BY <4>1, <4>2, SubSeqOfConcat1
    <3> QED BY <1>6, <3>1, <3>2
  <2>4. k \in (0 - 1)..m /\ k - 1 \in (0 - 1)..m
    BY <1>6
  <2> QED BY <2>2, <2>3, <2>4
<1>13. LastSoFar(k, o)'
  <2> SUFFICES ASSUME Drained
               PROVE  written' # <<>> /\ k = Len(written') - 1 /\ o = Size(written', k)
    BY <1>2, <1>6, <1>7 DEF LastSoFar
  <2> QED BY <1>6, <1>7, <1>8
<1>14. At(k, o)'
  BY <1>10, <1>11, <1>12, <1>13 DEF At
<1> QED BY <1>5, <1>14 DEF Placed

(* Nothing of the stream moves.                                            *)
LEMMA Stays ==
    ASSUME Placed, UNCHANGED <<decoder, written, passed, alone>>, (chunk \o wire)' = chunk \o wire
    PROVE  Placed'
<1>1. PICK k, o : Ahead(written, chunk \o wire, k, o) /\ At(k, o)
  BY DEF Placed
<1>2. Seen(k, o)' /\ InOrder(k, o)'
  BY <1>1 DEF At, Seen, InOrder, decoder
<1>3. AllSoFar(k, o)' /\ LastSoFar(k, o)'
  BY <1>1 DEF At, AllSoFar, AllFit, LastSoFar, decoder
<1>4. At(k, o)' /\ Ahead(written', (chunk \o wire)', k, o)
  BY <1>1, <1>2, <1>3 DEF At
<1> QED BY <1>4 DEF Placed

LInv == TypeOK /\ Placed

LEMMA LinkInit == Init => LInv
<1> SUFFICES ASSUME Init PROVE LInv
  OBVIOUS
<1>1. TypeOK
  BY TypeInit
<1> DEFINE f == [i \in 0..0 |-> 0]
<1>2. chunk \o wire = <<>> /\ Len(<<>>) = 0 /\ Len(written) = 0 /\ Size(written, 0) = 0
  BY ConcatEmptySeq DEF Init, Size
<1>3. OnItsWay(written, chunk \o wire, f, f)
  <2>1. f \in [0..0 -> 0..0] /\ f \in [0..0 -> Nat] /\ \A i \in 0..0 : f[i] = 0 /\ i = 0
    OBVIOUS
  <2> HIDE DEF f
  <2>2. \A i \in 1..0 : FALSE
    OBVIOUS
  <2> QED BY <1>2, <2>1, <2>2 DEF OnItsWay
<1>4. Ahead(written, chunk \o wire, 0, 0)
  <2>1. f[0] = 0
    OBVIOUS
  <2> QED BY <1>3, <2>1, Zenon DEF Ahead
<1>5. Seen(0, 0) /\ LastSoFar(0, 0)
  BY DEF Init, Seen, LastSoFar
<1>6. InOrder(0, 0)
  <2>1. <<>> \in [DOMAIN passed -> 1..0] /\ DOMAIN passed = {}
    BY DEF Init
  <2> QED BY <2>1 DEF InOrder
<1>7. AllSoFar(0, 0)
  <2>1. passed = SubSeq(written, 1, 0)
    BY SubSeqEmpty DEF Init
  <2> QED BY <1>2, <2>1 DEF AllSoFar
<1>8. At(0, 0)
  BY <1>5, <1>6, <1>7 DEF At
<1> QED BY <1>1, <1>4, <1>8 DEF LInv, Placed

LEMMA LinkNext == LInv /\ [Next]_vars /\ [~CutOff]_vars => LInv'
<1> SUFFICES ASSUME LInv, [Next]_vars, [~CutOff]_vars PROVE LInv'
  OBVIOUS
<1>1. TypeOK /\ TypeOK' /\ Placed
  BY TypeNext DEF LInv
<1> SUFFICES Placed'
  BY <1>1 DEF LInv
<1>2. chunk \in Seq(Byte) /\ wire \in Seq(Byte)
  BY <1>1 DEF TypeOK
<1>3. CASE UNCHANGED vars
  BY <1>1, <1>3, Stays DEF vars, tcp
<1>4. ASSUME NEW frame \in Command, Write(frame) PROVE Placed'
  BY <1>1, <1>4, WritePlaced
<1>5. CASE Accept /\ ~UNCHANGED vars
  <2>1. wire = <<>>
    BY <1>5 DEF CutOff
  <2>2. UNCHANGED <<chunk, wire, decoder, written, passed, alone>>
    BY <1>5, <2>1 DEF Accept
  <2> QED BY <1>1, <2>2, Stays
<1>6. CASE Read
  <2>1. PICK n \in 1..Len(wire) : chunk' = SubSeq(wire, 1, n) /\ wire' = SubSeq(wire, n + 1, Len(wire))
    BY <1>6 DEF Read
  <2>2. SubSeq(wire, 1, n) \o SubSeq(wire, n + 1, Len(wire)) = wire
    <3>1. 1 \in 1..(Len(wire) + 1) /\ n \in (1 - 1)..Len(wire) /\ Len(wire) \in n..Len(wire)
      BY <1>2
    <3> QED BY <1>2, <3>1, ConcatAdjacentSubSeq, SubSeqFull
  <2>3. chunk \o wire = wire
    BY <1>2, <1>6, ConcatEmptySeq DEF Read
  <2>4. (chunk \o wire)' = chunk \o wire
    BY <2>1, <2>2, <2>3
  <2> QED BY <1>1, <1>6, <2>4, Stays DEF Read
<1>7. CASE Disconnect
  BY <1>1, <1>7, Stays DEF Disconnect
<1>8. CASE Decode
  BY <1>1, <1>8, DecodePlaced
<1> QED BY <1>3, <1>4, <1>5, <1>6, <1>7, <1>8 DEF Next

LEMMA LinkPassed == LInv => PassedInOrder
<1> SUFFICES ASSUME LInv PROVE PassedInOrder
  OBVIOUS
<1>1. PICK k, o : Ahead(written, chunk \o wire, k, o) /\ At(k, o)
  BY DEF LInv, Placed
<1>2. k \in 0..Len(written) /\ Len(written) \in Nat /\ DOMAIN written = 1..Len(written)
  BY <1>1, PlaceIs DEF LInv, TypeOK
<1>3. 1..k \subseteq DOMAIN written
  BY <1>2
<1> QED BY <1>1, <1>3 DEF At, InOrder, PassedInOrder

LEMMA LinkLossless == LInv => Lossless
<1> SUFFICES ASSUME LInv, Drained
             PROVE  /\ AllFit => passed = written
                    /\ alone /\ Fits(Last(written)) => passed # <<>> /\ Last(passed) = Last(written)
  BY DEF Lossless, AllFit
<1>1. PICK k, o : Ahead(written, chunk \o wire, k, o) /\ At(k, o)
  BY DEF LInv, Placed
<1>2. k = Len(written) /\ o = Size(written, k)
  BY <1>1, PlaceIs DEF LInv
<1>3. SubSeq(written, 1, Len(written)) = written
  BY SubSeqFull DEF LInv, TypeOK
<1>4. AllFit => passed = written
  BY <1>1, <1>2, <1>3 DEF At, AllSoFar
<1>5. alone /\ Fits(Last(written)) => passed # <<>> /\ Last(passed) = Last(written)
  BY <1>1, <1>2 DEF At, LastSoFar
<1> QED BY <1>4, <1>5

(* However TCP cuts up what the clients write, and as long as none is      *)
(* replaced before all of it is read: what is passed on are frames they    *)
(* wrote, whole, none twice and in their order, also when some of them do  *)
(* not fit the buffer.                                                     *)
THEOREM PassedInOrderHolds == Spec /\ [][~CutOff]_vars => []PassedInOrder
BY LinkInit, LinkNext, LinkPassed, PTL DEF Spec

(* When all has been decoded: if every frame fits, every one has been      *)
(* passed on; and after a frame that was too long, and everything up to    *)
(* then read, the next frame that fits is.                                 *)
THEOREM LosslessHolds == Spec /\ [][~CutOff]_vars => []Lossless
BY LinkInit, LinkNext, LinkLossless, PTL DEF Spec

(* The first client replaces nobody: with one, all this holds.             *)
THEOREM OneClientHolds == ASSUME MaxClient =< 1 PROVE Spec => [](PassedInOrder /\ Lossless)
<1> DEFINE None == TypeOK /\ (clients = 0 => client = 0 /\ Drained)
<1>1. Init => None
  BY TypeInit DEF Init, Drained
<1>2. None /\ [Next]_vars => None'
  <2> SUFFICES ASSUME None, [Next]_vars PROVE clients' = 0 => client' = 0 /\ Drained'
    BY TypeNext
  <2>1. clients \in Nat
    BY LinkAssumption DEF TypeOK
  <2>2. CASE UNCHANGED vars \/ Read \/ Disconnect
    BY <2>2 DEF vars, tcp, Read, Disconnect, Drained
  <2>3. ASSUME NEW frame \in Command, Write(frame) PROVE clients' # 0
    BY <2>3 DEF Write
  <2>4. CASE Accept
    BY <2>1, <2>4 DEF Accept
  <2>5. CASE Decode
    BY <2>5 DEF Decode, Drained
  <2> QED BY <2>2, <2>3, <2>4, <2>5 DEF Next
<1>3. None /\ [Next]_vars => [~CutOff]_vars
  <2> SUFFICES ASSUME None, CutOff PROVE FALSE
    OBVIOUS
  <2>1. clients = 0
    BY LinkAssumption DEF CutOff, Accept, TypeOK
  <2> QED BY <2>1 DEF CutOff, Drained
<1>4. LInv => PassedInOrder /\ Lossless
  BY LinkPassed, LinkLossless
<1> HIDE DEF None
<1> QED BY <1>1, <1>2, <1>3, <1>4, LinkInit, LinkNext, PTL DEF Spec
=============================================================================
