----------------------------- MODULE SetupProofs -----------------------------
(***************************************************************************)
(* Proofs about Setup, for any parameters, values and numbers of commands, *)
(* frames, BUSY timeouts and failures.                                     *)
(*                                                                         *)
(* TypesHold: the types. A register is written from an argument that was   *)
(* read for it, however many recoveries come in between; that takes an     *)
(* invariant of what each thread has still to do (Ready, Shape).           *)
(*                                                                         *)
(* TimingHolds: the slots of listen before talk follow the modulation.     *)
(*                                                                         *)
(* LossReportedHolds: a register lost to a reset is written again or the   *)
(* host is told, as long as no command is skipped because another thread   *)
(* is in wait_on_busy's recovery (Skipped).                                *)
(*                                                                         *)
(* HostKnowsHolds: what the host was told is what the chip is set to, if   *)
(* the host's values fit the driver's types (Fits).                        *)
(***************************************************************************)
EXTENDS Setup, TLAPS

(* Step x is still ahead in s; the steps of a recovery; and what comes     *)
(* right before a step.                                                    *)
Has(s, x) == \E i \in DOMAIN s : s[i] = x

Recovering == {<<"reset", "recovery">>, <<"init", "recovery">>, <<"error", "recovery">>,
               <<"recovered", "recovery">>}

Before(s, i, x) == i > 1 /\ s[i - 1] = x

(* The argument a was read for the register of step i, which is the next   *)
(* step that is not recovery.                                              *)
Holds(s, i, a, r) == a \in Content(r) /\ \A j \in 1..(i - 1) : s[j] \in Recovering

(* With a for its argument, a thread that goes through s writes and saves  *)
(* only what it has read for that very register.                           *)
Ready(s, a) ==
    \A i \in DOMAIN s :
        /\ \A r \in Register : s[i] = <<"write", r>> => Before(s, i, <<"call", r>>) \/ Holds(s, i, a, r)
        /\ s[i] = <<"save", "packet">> => Before(s, i, <<"write", "packet">>) \/ Holds(s, i, a, "packet")

(* Every step x of s has a step y after it; or none.                       *)
Leads(s, x, y) == \A i \in DOMAIN s : s[i] = x => \E j \in DOMAIN s : i < j /\ s[j] = y
Never(s, x, y) == \A i, j \in DOMAIN s : s[i] = x /\ i < j => s[j] # y

(* What the sequences of this module promise, and what they never do:      *)
(* after sx126x_begin rnode_start writes every register and gets to its    *)
(* end, a recovery reports; after rnode_start has begun no answer is due.  *)
Promise == {<< <<"init", "start">>, <<"started", "start">> >>,
            << <<"reset", "recovery">>, <<"error", "recovery">> >>}
           \cup {<< <<"reset", "start">>, <<"write", r>> >> : r \in Register}
Forbidden == {<< <<"started", "start">>, y>> : y \in Steps \ {<<"online", "start">>}}
             \cup {<< <<"init", "start">>, y>> : y \in {"answer", "csma"} \X Param}
             \cup {<< <<"init", "start">>, <<"recovered", "recovery">> >>}
             \cup {<< <<"params", "packet">>, <<"save", "packet">> >>}

Shape(s) == /\ \A q \in Promise : Leads(s, q[1], q[2])
            /\ \A q \in Forbidden : Never(s, q[1], q[2])

(* The first step of a sequence is taken off.                              *)
LEMMA TailIs ==
    ASSUME NEW s \in Seq(Steps), s # <<>>
    PROVE  /\ Tail(s) \in Seq(Steps) /\ Len(Tail(s)) = Len(s) - 1 /\ Head(s) = s[1] /\ Len(s) \in Nat
           /\ \A i \in DOMAIN Tail(s) : Tail(s)[i] = s[i + 1] /\ i + 1 \in DOMAIN s
           /\ DOMAIN Tail(s) = 1..Len(s) - 1 /\ DOMAIN s = 1..Len(s) /\ s[1] \in Steps
           /\ \A i \in DOMAIN s : i # 1 => i - 1 \in DOMAIN Tail(s) /\ Tail(s)[i - 1] = s[i]
  OBVIOUS

(* A step taken leaves the thread ready for the next, with the argument it *)
(* now has.                                                                *)
LEMMA ReadyTail ==
    ASSUME NEW s \in Seq(Steps), s # <<>>, NEW a, NEW b, Ready(s, a),
           Head(s) \in Recovering => b = a,
           \A r \in Register : Head(s) = <<"call", r>> => b \in Content(r),
           Head(s) = <<"write", "packet">> => b = a
    PROVE  Ready(Tail(s), b)
<1> DEFINE u == Tail(s)
<1>1. \A i \in DOMAIN u : u[i] = s[i + 1] /\ i + 1 \in DOMAIN s /\ i \in Nat \ {0}
  BY TailIs
<1>2. \A i \in DOMAIN u : i = 1 \/ (i > 1 /\ u[i - 1] = s[i])
  BY TailIs
<1>3. Head(s) = s[1]
  BY TailIs
<1>4. ASSUME NEW i \in DOMAIN u, NEW r \in Register, Holds(s, i + 1, a, r)
      PROVE  Holds(u, i, b, r)
  <2>1. Head(s) \in Recovering
    BY <1>1, <1>3, <1>4 DEF Holds
  <2>2. \A j \in 1..(i - 1) : u[j] \in Recovering
    BY <1>1, <1>4 DEF Holds
  <2> QED BY <1>4, <2>1, <2>2 DEF Holds
<1>5. ASSUME NEW i \in DOMAIN u, NEW r \in Register, NEW x,
             Before(s, i + 1, x), x \in {<<"call", r>>, <<"write", "packet">>},
             x = <<"write", "packet">> => r = "packet"
      PROVE  Before(u, i, x) \/ Holds(u, i, b, r)
  <2>1. CASE i > 1
    BY <1>1, <1>2, <1>5, <2>1 DEF Before
  <2>2. CASE i = 1 /\ x = <<"call", r>>
    BY <1>1, <1>3, <1>5, <2>2 DEF Before, Holds
  <2>3. CASE i = 1 /\ x = <<"write", "packet">>
    <3>1. 1 \in DOMAIN s /\ s[1] = <<"write", "packet">>
      BY <1>5, <2>3, TailIs DEF Before
    <3>2. a \in Content("packet")
      BY <3>1 DEF Ready, Before, Holds, Register
    <3> QED BY <1>3, <1>5, <2>3, <3>1, <3>2 DEF Holds
  <2> QED BY <1>1, <1>5, <2>1, <2>2, <2>3
<1>6. ASSUME NEW i \in DOMAIN u, NEW r \in Register, u[i] = <<"write", r>>
      PROVE  Before(u, i, <<"call", r>>) \/ Holds(u, i, b, r)
  BY <1>1, <1>4, <1>5, <1>6 DEF Ready
<1>7. ASSUME NEW i \in DOMAIN u, u[i] = <<"save", "packet">>
      PROVE  Before(u, i, <<"write", "packet">>) \/ Holds(u, i, b, "packet")
  <2>1. "packet" \in Register
    BY DEF Register
  <2> QED BY <1>1, <1>4, <1>5, <1>7, <2>1 DEF Ready
<1> QED BY <1>6, <1>7 DEF Ready

(* Two sequences, one after the other.                                     *)
LEMMA JoinIs ==
    ASSUME NEW s \in Seq(Steps), NEW u \in Seq(Steps)
    PROVE  /\ s \o u \in Seq(Steps) /\ Len(s \o u) = Len(s) + Len(u) /\ Len(s) \in Nat /\ Len(u) \in Nat
           /\ \A i \in DOMAIN s : (s \o u)[i] = s[i] /\ i \in DOMAIN (s \o u)
           /\ \A i \in DOMAIN u : (s \o u)[Len(s) + i] = u[i] /\ Len(s) + i \in DOMAIN (s \o u)
           /\ \A i \in DOMAIN (s \o u) : i \in DOMAIN s \/ (i - Len(s) \in DOMAIN u /\ i > Len(s))
           /\ DOMAIN s = 1..Len(s) /\ DOMAIN u = 1..Len(u)
  OBVIOUS

(* The four steps wait_on_busy puts before a command; and how the steps of *)
(* a thread look behind them.                                              *)
LEMMA RecoverIs ==
    /\ Recover \in Seq(Steps) /\ Len(Recover) = 4
    /\ Recover[1] = <<"reset", "recovery">> /\ Recover[2] = <<"init", "recovery">>
    /\ Recover[3] = <<"error", "recovery">> /\ Recover[4] = <<"recovered", "recovery">>
  BY DEF Recover, Begin, Steps

RecoverThen(s, u) ==
    /\ u \in Seq(Steps) /\ DOMAIN u = 1..(4 + Len(s)) /\ Len(u) = 4 + Len(s) /\ Len(s) \in Nat
    /\ DOMAIN s = 1..Len(s)
    /\ \A i \in 1..4 : u[i] = Recover[i] /\ i \in DOMAIN u /\ (i = 1 \/ i = 2 \/ i = 3 \/ i = 4)
    /\ \A i \in DOMAIN s : u[4 + i] = s[i] /\ 4 + i \in DOMAIN u /\ i \in Nat \ {0}
    /\ \A i \in DOMAIN u : /\ i \in Nat \ {0}
                           /\ i \in 1..4 \/ (i - 4 \in DOMAIN s /\ i > 4 /\ u[i] = s[i - 4])

(* They do look like that.                                                 *)
LEMMA RecoverJoin == ASSUME NEW s \in Seq(Steps), NEW u, u = Recover \o s PROVE RecoverThen(s, u)
<1>1. /\ u \in Seq(Steps) /\ Len(u) = Len(Recover) + Len(s) /\ Len(s) \in Nat
      /\ \A i \in DOMAIN Recover : u[i] = Recover[i]
      /\ \A i \in DOMAIN s : u[Len(Recover) + i] = s[i]
      /\ DOMAIN Recover = 1..Len(Recover) /\ DOMAIN s = 1..Len(s)
  BY RecoverIs, JoinIs, ZenonT(60)
<1>2. Len(Recover) = 4
  BY RecoverIs
<1>3. DOMAIN u = 1..Len(u)
  BY <1>1
<1>4. \A i \in DOMAIN u : i \in Nat \ {0} /\ (i \in 1..4 \/ (i - 4 \in DOMAIN s /\ i > 4 /\ 4 + (i - 4) = i))
  <2> DEFINE m == Len(s)
  <2>1. m \in Nat /\ DOMAIN u = 1..(4 + m) /\ DOMAIN s = 1..m
    BY <1>1, <1>2, <1>3
  <2> HIDE DEF m
  <2>2. \A i \in 1..(4 + m) : i \in Nat \ {0} /\ (i \in 1..4 \/ (i - 4 \in 1..m /\ i > 4 /\ 4 + (i - 4) = i))
    BY <2>1
  <2> QED BY <2>1, <2>2
<1> QED BY <1>1, <1>2, <1>3, <1>4, SMTT(60) DEF RecoverThen

(* A recovery between two steps of a thread leaves its argument as it is.  *)
LEMMA ReadyRecover ==
    ASSUME NEW s \in Seq(Steps), NEW a, Ready(s, a)
    PROVE  Ready(Recover \o s, a)
<1> DEFINE u == Recover \o s
<1>a. u = Recover \o s
  OBVIOUS
<1> HIDE DEF u
<1>0. /\ u \in Seq(Steps) /\ Len(u) = 4 + Len(s) /\ DOMAIN Recover = 1..4 /\ DOMAIN s = 1..Len(s)
      /\ \A i \in 1..4 : u[i] = Recover[i]
      /\ \A i \in DOMAIN s : u[4 + i] = s[i] /\ 4 + i \in DOMAIN u
      /\ \A i \in DOMAIN u : i \in 1..4 \/ (i - 4 \in DOMAIN s /\ i > 4)
      /\ Len(s) \in Nat /\ DOMAIN u = 1..Len(u)
  <2>1. DOMAIN Recover = 1..4
    BY RecoverIs
  <2>2. RecoverThen(s, u)
    BY <1>a, RecoverJoin
  <2> QED BY <2>1, <2>2 DEF RecoverThen
<1>1. \A i \in 1..4 : u[i] \in Recovering
  <2>1. \A i \in 1..4 : Recover[i] \in Recovering
    <3>1. \A i \in 1..4 : i = 1 \/ i = 2 \/ i = 3 \/ i = 4
      OBVIOUS
    <3> QED BY <3>1, RecoverIs DEF Recovering
  <2> QED BY <1>0, <2>1
<1>2. \A i \in DOMAIN u : i \in 1..4 \/ (i - 4 \in DOMAIN s /\ i > 4 /\ u[i] = s[i - 4] /\ i \in Nat)
  BY <1>0
<1>3. \A i \in DOMAIN s : i \in Nat \ {0} /\ u[i + 4] = s[i]
  BY <1>0
<1>4. ASSUME NEW i \in DOMAIN s, NEW r \in Register, Holds(s, i, a, r)
      PROVE  Holds(u, i + 4, a, r)
  BY <1>0, <1>1, <1>3, <1>4, SMTT(60) DEF Holds
<1>5. ASSUME NEW i \in DOMAIN s, NEW x, Before(s, i, x)
      PROVE  Before(u, i + 4, x)
  BY <1>0, <1>3, <1>5, SMTT(60) DEF Before
<1>6. \A x \in Recovering, r \in Register : x # <<"write", r>> /\ x # <<"save", "packet">>
  BY DEF Recovering
<1>7. ASSUME NEW i \in DOMAIN u, NEW r \in Register, u[i] = <<"write", r>>
      PROVE  Before(u, i, <<"call", r>>) \/ Holds(u, i, a, r)
  <2>1. i - 4 \in DOMAIN s /\ s[i - 4] = <<"write", r>> /\ (i - 4) + 4 = i
    BY <1>1, <1>2, <1>6, <1>7
  <2>2. Before(s, i - 4, <<"call", r>>) \/ Holds(s, i - 4, a, r)
    BY <2>1 DEF Ready
  <2> QED BY <1>4, <1>5, <2>1, <2>2
<1>8. ASSUME NEW i \in DOMAIN u, u[i] = <<"save", "packet">>
      PROVE  Before(u, i, <<"write", "packet">>) \/ Holds(u, i, a, "packet")
  <2>1. i - 4 \in DOMAIN s /\ s[i - 4] = <<"save", "packet">> /\ (i - 4) + 4 = i /\ "packet" \in Register
    BY <1>1, <1>2, <1>6, <1>8 DEF Register
  <2>2. Before(s, i - 4, <<"write", "packet">>) \/ Holds(s, i - 4, a, "packet")
    BY <2>1 DEF Ready
  <2>3. Before(u, (i - 4) + 4, <<"write", "packet">>) \/ Holds(u, (i - 4) + 4, a, "packet")
    BY <1>4, <1>5, <2>1, <2>2
  <2> QED BY <2>1, <2>3
<1>9. Ready(u, a)
  BY <1>7, <1>8 DEF Ready
<1> QED BY <1>9 DEF u

(* A routine reads what it writes: it is ready, whatever the argument was. *)
Solid(s) ==
    \A i \in DOMAIN s :
        /\ \A r \in Register : s[i] = <<"write", r>> => Before(s, i, <<"call", r>>)
        /\ s[i] = <<"save", "packet">> => Before(s, i, <<"write", "packet">>)

(* One such routine after another is one,                                  *)
LEMMA SolidJoin ==
    ASSUME NEW s \in Seq(Steps), NEW u \in Seq(Steps), Solid(s), Solid(u)
    PROVE  s \o u \in Seq(Steps) /\ Solid(s \o u)
<1> DEFINE v == s \o u
           n == Len(s)
<1>1. /\ v \in Seq(Steps) /\ n \in Nat
      /\ \A i \in DOMAIN s : v[i] = s[i] /\ i \in Nat
      /\ \A i \in DOMAIN u : v[n + i] = u[i] /\ i \in Nat
      /\ \A i \in DOMAIN v : i \in DOMAIN s \/ (i - n \in DOMAIN u /\ i > n /\ i \in Nat /\ n + (i - n) = i)
      /\ \A i \in DOMAIN s : i > 1 => i - 1 \in DOMAIN s
      /\ \A i \in DOMAIN u : i > 1 => i - 1 \in DOMAIN u
  BY JoinIs, SMTT(60)
<1> HIDE DEF v, n
<1>2. ASSUME NEW i \in DOMAIN s, NEW x, Before(s, i, x) PROVE Before(v, i, x)
  BY <1>1, <1>2 DEF Before
<1>3. ASSUME NEW i \in DOMAIN u, NEW x, Before(u, i, x) PROVE Before(v, n + i, x)
  <2>1. n + i > 1 /\ (n + i) - 1 = n + (i - 1)
    BY <1>1, <1>3, SMTT(60) DEF Before
  <2>2. v[n + (i - 1)] = x
    BY <1>1, <1>3 DEF Before
  <2> QED BY <2>1, <2>2 DEF Before
<1>4. ASSUME NEW i \in DOMAIN v, NEW r \in Register, v[i] = <<"write", r>>
      PROVE  Before(v, i, <<"call", r>>)
  <2>1. CASE i \in DOMAIN s
    BY <1>1, <1>2, <1>4, <2>1 DEF Solid
  <2>2. CASE i - n \in DOMAIN u /\ n + (i - n) = i
    <3>1. Before(v, n + (i - n), <<"call", r>>)
      BY <1>1, <1>3, <1>4, <2>2 DEF Solid
    <3> QED BY <2>2, <3>1
  <2> QED BY <1>1, <2>1, <2>2
<1>5. ASSUME NEW i \in DOMAIN v, v[i] = <<"save", "packet">> PROVE Before(v, i, <<"write", "packet">>)
  <2>1. CASE i \in DOMAIN s
    BY <1>1, <1>2, <1>5, <2>1 DEF Solid
  <2>2. CASE i - n \in DOMAIN u /\ n + (i - n) = i
    <3>1. Before(v, n + (i - n), <<"write", "packet">>)
      BY <1>1, <1>3, <1>5, <2>2 DEF Solid
    <3> QED BY <2>2, <3>1
  <2> QED BY <1>1, <2>1, <2>2
<1>6. Solid(v)
  BY <1>4, <1>5 DEF Solid
<1> QED BY <1>1, <1>6 DEF v

(* and ready with any argument.                                            *)
LEMMA SolidReady == ASSUME NEW s, NEW a, Solid(s) PROVE Ready(s, a)
  BY DEF Solid, Ready

(* What two sequences have ahead, both together have, and no more.         *)
LEMMA HasJoin ==
    ASSUME NEW s \in Seq(Steps), NEW u \in Seq(Steps), NEW x
    PROVE  Has(s \o u, x) <=> Has(s, x) \/ Has(u, x)
<1>1. Has(s, x) => Has(s \o u, x)
  BY JoinIs DEF Has
<1>2. Has(u, x) => Has(s \o u, x)
  <2>1. ASSUME NEW i \in DOMAIN u, u[i] = x PROVE Has(s \o u, x)
    <3>1. (s \o u)[Len(s) + i] = x /\ Len(s) + i \in DOMAIN (s \o u)
      BY <2>1, JoinIs
    <3> QED BY <3>1 DEF Has
  <2> QED BY <2>1 DEF Has
<1>3. Has(s \o u, x) => Has(s, x) \/ Has(u, x)
  <2>1. ASSUME NEW i \in DOMAIN (s \o u), (s \o u)[i] = x PROVE Has(s, x) \/ Has(u, x)
    <3>1. CASE i \in DOMAIN s
      BY <2>1, <3>1, JoinIs DEF Has
    <3>2. CASE i - Len(s) \in DOMAIN u /\ Len(s) + (i - Len(s)) = i
      <4>1. (s \o u)[Len(s) + (i - Len(s))] = u[i - Len(s)]
        BY <3>2, JoinIs
      <4> QED BY <2>1, <3>2, <4>1 DEF Has
    <3> QED BY <3>1, <3>2, JoinIs
  <2> QED BY <2>1 DEF Has
<1> QED BY <1>1, <1>2, <1>3

(* What is ahead is the first step or comes after it.                      *)
LEMMA HasTail ==
    ASSUME NEW s \in Seq(Steps), s # <<>>, NEW x
    PROVE  Has(s, x) <=> Head(s) = x \/ Has(Tail(s), x)
<1>1. Head(s) = x => Has(s, x)
  BY TailIs DEF Has
<1>2. Has(Tail(s), x) => Has(s, x)
  <2>1. ASSUME NEW i \in DOMAIN Tail(s), Tail(s)[i] = x PROVE Has(s, x)
    <3>1. s[i + 1] = x /\ i + 1 \in DOMAIN s
      BY <2>1, TailIs
    <3> QED BY <3>1 DEF Has
  <2> QED BY <2>1 DEF Has
<1>3. Has(s, x) => Head(s) = x \/ Has(Tail(s), x)
  <2>1. ASSUME NEW i \in DOMAIN s, s[i] = x, i # 1 PROVE Has(Tail(s), x)
    <3>1. Tail(s)[i - 1] = x /\ i - 1 \in DOMAIN Tail(s)
      BY <2>1, TailIs
    <3> QED BY <3>1 DEF Has
  <2> QED BY <2>1, TailIs DEF Has
<1> QED BY <1>1, <1>2, <1>3
-----------------------------------------------------------------------------
(* What a sequence promises and forbids, the rest of it does too,          *)
LEMMA ShapeTail == ASSUME NEW s \in Seq(Steps), s # <<>>, Shape(s) PROVE Shape(Tail(s))
<1> DEFINE u == Tail(s)
<1>1. \A i \in DOMAIN u : u[i] = s[i + 1] /\ i + 1 \in DOMAIN s /\ i \in Nat \ {0}
  BY TailIs
<1>2. \A i \in DOMAIN s : i \in Nat \ {0} /\ (i # 1 => i - 1 \in DOMAIN u /\ u[i - 1] = s[i])
  BY TailIs
<1> HIDE DEF u
<1>3. ASSUME NEW x, NEW y, Leads(s, x, y) PROVE Leads(u, x, y)
  <2> SUFFICES ASSUME NEW i \in DOMAIN u, u[i] = x PROVE \E j \in DOMAIN u : i < j /\ u[j] = y
    BY DEF Leads
  <2>1. PICK j \in DOMAIN s : i + 1 < j /\ s[j] = y
    BY <1>1, <1>3 DEF Leads
  <2>2. j - 1 \in DOMAIN u /\ i < j - 1 /\ u[j - 1] = y
    BY <1>1, <1>2, <2>1
  <2> QED BY <2>2
<1>4. ASSUME NEW x, NEW y, Never(s, x, y) PROVE Never(u, x, y)
  BY <1>1, <1>4 DEF Never
<1>5. Shape(u)
  BY <1>3, <1>4 DEF Shape
<1> QED BY <1>5 DEF u

(* and so it does behind a recovery.                                       *)
LEMMA ShapeRecover == ASSUME NEW s \in Seq(Steps), Shape(s) PROVE Shape(Recover \o s)
<1> DEFINE u == Recover \o s
<1>a. u = Recover \o s
  OBVIOUS
<1> HIDE DEF u
<1>1. /\ u \in Seq(Steps) /\ DOMAIN u = 1..(4 + Len(s)) /\ Len(s) \in Nat
      /\ \A i \in 1..4 : u[i] = Recover[i] /\ i \in DOMAIN u
      /\ \A i \in DOMAIN s : u[4 + i] = s[i] /\ 4 + i \in DOMAIN u /\ i \in Nat
      /\ \A i \in DOMAIN u : i \in 1..4 \/ (i - 4 \in DOMAIN s /\ i > 4 /\ u[i] = s[i - 4])
  <2>1. RecoverThen(s, u)
    BY <1>a, RecoverJoin
  <2> QED BY <2>1 DEF RecoverThen
<1>2. \A i \in 1..4 : i = 1 \/ i = 2 \/ i = 3 \/ i = 4
  OBVIOUS
<1>3. ASSUME NEW q \in Promise PROVE Leads(u, q[1], q[2])
  <2> SUFFICES ASSUME NEW i \in DOMAIN u, u[i] = q[1] PROVE \E j \in DOMAIN u : i < j /\ u[j] = q[2]
    BY DEF Leads
  <2>1. CASE i \in 1..4
    <3>1. q[1] = <<"reset", "recovery">> /\ i = 1 /\ q[2] = Recover[3]
      BY <1>1, <1>2, <2>1, RecoverIs DEF Promise
    <3> QED BY <1>1, <3>1, SMTT(60)
  <2>2. CASE i - 4 \in DOMAIN s /\ i > 4 /\ u[i] = s[i - 4]
    <3>1. PICK j \in DOMAIN s : i - 4 < j /\ s[j] = q[2]
      BY <2>2 DEF Shape, Leads
    <3>2. 4 + j \in DOMAIN u /\ i < 4 + j /\ u[4 + j] = q[2]
      BY <1>1, <2>2, <3>1, SMTT(60)
    <3> QED BY <3>2
  <2> QED BY <1>1, <2>1, <2>2
<1>4. ASSUME NEW q \in Forbidden PROVE Never(u, q[1], q[2])
  <2> SUFFICES ASSUME NEW i \in DOMAIN u, NEW j \in DOMAIN u, u[i] = q[1], i < j PROVE u[j] # q[2]
    BY DEF Never
  <2>1. i \notin 1..4
    <3>1. q[1] \in {<<"started", "start">>, <<"init", "start">>, <<"params", "packet">>}
      BY DEF Forbidden
    <3> QED BY <1>1, <1>2, <3>1, RecoverIs
  <2>2. i - 4 \in DOMAIN s /\ j - 4 \in DOMAIN s /\ u[i] = s[i - 4] /\ u[j] = s[j - 4] /\ i - 4 < j - 4
    BY <1>1, <2>1, SMTT(60)
  <2> QED BY <2>2 DEF Shape, Never
<1>5. Shape(u)
  BY <1>3, <1>4 DEF Shape
<1> QED BY <1>5 DEF u

(* The steps of rnode_start, one by one.                                   *)
StartAt(s) ==
    /\ s[1] = <<"reset", "start">>
    /\ s[2] = <<"init", "start">>
    /\ s[3] = <<"call", "freq">>
    /\ s[4] = <<"write", "freq">>
    /\ s[5] = <<"call", "power">>
    /\ s[6] = <<"write", "power">>
    /\ s[7] = <<"call", "modulation">>
    /\ s[8] = <<"write", "modulation">>
    /\ s[9] = <<"call", "packet">>
    /\ s[10] = <<"write", "packet">>
    /\ s[11] = <<"save", "packet">>
    /\ s[12] = <<"call", "sync">>
    /\ s[13] = <<"write", "sync">>
    /\ s[14] = <<"state", "rx">>
    /\ s[15] = <<"params", "packet">>
    /\ s[16] = <<"go", "rx">>
    /\ s[17] = <<"started", "start">>

(* These they are,                                                         *)
LEMMA StartIs == Start \in Seq(Steps) /\ Len(Start) = 17 /\ StartAt(Start)
  BY DEF Start, Begin, Configure, Apply, SetPacket, SetSync, Receive, Steps, Register, StartAt

(* and those of CMD_RADIO_STATE, which goes online at the end.             *)
LEMMA StartOnlineIs ==
    ASSUME NEW s, s = Start \o << <<"online", "start">> >>
    PROVE  s \in Seq(Steps) /\ Len(s) = 18 /\ StartAt(s) /\ s[18] = <<"online", "start">>
<1> DEFINE u == << <<"online", "start">> >>
<1>1. u \in Seq(Steps) /\ Len(u) = 1 /\ u[1] = <<"online", "start">>
  BY DEF Steps
<1>2. s = Start \o u
  OBVIOUS
<1> HIDE DEF u
<1>3. /\ s \in Seq(Steps) /\ Len(s) = Len(Start) + Len(u)
      /\ \A i \in DOMAIN Start : s[i] = Start[i]
      /\ \A i \in DOMAIN u : s[Len(Start) + i] = u[i]
  <2>1. Start \in Seq(Steps)
    BY StartIs
  <2> QED BY <1>1, <1>2, <2>1
<1>4. Len(Start) = 17 /\ DOMAIN Start = 1..17 /\ 1 \in DOMAIN u /\ StartAt(Start)
  BY <1>1, StartIs
<1>5. Len(s) = 18 /\ s[18] = <<"online", "start">>
  BY ONLY SMTT(60), <1>1, <1>3, <1>4
<1>6. StartAt(s)
  BY ONLY SMTT(60), <1>3, <1>4, \A i \in {1, 2, 3, 4, 5, 6, 7, 8, 9, 10, 11, 12, 13, 14, 15, 16,
     17} : i \in 1..17
     DEF StartAt
<1> QED BY <1>3, <1>5, <1>6

(* Where in rnode_start each kind of step is.                              *)
StartStep(s, i) ==
    /\ s[i] = <<"init", "start">> => i = 2
    /\ s[i] = <<"started", "start">> => i = 17
    /\ s[i] = <<"reset", "start">> => i = 1
    /\ s[i] # <<"reset", "recovery">> /\ s[i] # <<"online", "start">>
    /\ s[i] = <<"params", "packet">> => i = 15
    /\ s[i] = <<"save", "packet">> => i = 11
    /\ s[i][1] \notin {"answer", "csma", "recovered"}
    /\ \A r : s[i] = <<"write", r>> => i > 1 /\ s[i - 1] = <<"call", r>>

(* This follows from the list.                                             *)
LEMMA StartSteps == ASSUME NEW s, StartAt(s), NEW i \in 1..17 PROVE StartStep(s, i)
<1>1. i \in {1, 2, 3, 4, 5, 6, 7, 8, 9, 10, 11, 12, 13, 14, 15, 16, 17}
  OBVIOUS
<1>2. /\ s[i] = <<"init", "start">> => i = 2
      /\ s[i] = <<"started", "start">> => i = 17
      /\ s[i] = <<"reset", "start">> => i = 1
      /\ s[i] # <<"reset", "recovery">> /\ s[i] # <<"online", "start">>
  BY ONLY <1>1, StartAt(s) DEF StartAt
<1>3. /\ s[i] = <<"params", "packet">> => i = 15
      /\ s[i] = <<"save", "packet">> => i = 11
      /\ s[i][1] \notin {"answer", "csma", "recovered"}
  BY ONLY <1>1, StartAt(s) DEF StartAt
<1>4. ASSUME NEW r, s[i] = <<"write", r>> PROVE i > 1 /\ s[i - 1] = <<"call", r>>
  BY ONLY <1>1, <1>4, StartAt(s) DEF StartAt
<1> QED BY <1>2, <1>3, <1>4 DEF StartStep

(* rnode_start writes what it has read, writes every register after the    *)
(* reset, and ends.                                                        *)
LEMMA StartSound ==
    ASSUME NEW s \in Seq(Steps), StartAt(s), Len(s) = 17 \/ (Len(s) = 18 /\ s[18] = <<"online", "start">>)
    PROVE  Solid(s) /\ Shape(s)
<1> DEFINE on == <<"online", "start">>
<1>1. /\ \A i \in 1..17 : i \in DOMAIN s
      /\ \A i \in DOMAIN s : i \in 1..17 \/ (i = 18 /\ s[i] = on)
  <2>1. CASE Len(s) = 17
    <3>1. DOMAIN s = 1..17
      BY <2>1
    <3> QED BY ONLY <3>1
  <2>2. CASE Len(s) = 18 /\ s[18] = on
    <3>1. DOMAIN s = 1..18
      BY <2>2
    <3>2. \A i \in 1..18 : i \in 1..17 \/ i = 18
      OBVIOUS
    <3>3. \A i \in 1..17 : i \in 1..18
      OBVIOUS
    <3> QED BY ONLY <2>2, <3>1, <3>2, <3>3
  <2> QED BY <2>1, <2>2
<1>2. ASSUME NEW i \in DOMAIN s, NEW r \in Register, s[i] = <<"write", r>>
      PROVE  Before(s, i, <<"call", r>>)
  <2>1. CASE i \in 1..17
    <3>1. StartStep(s, i)
      BY <2>1, StartSteps
    <3> QED BY <1>2, <3>1 DEF StartStep, Before
  <2>2. CASE s[i] = on
    BY <1>2, <2>2
  <2> QED BY <1>1, <2>1, <2>2
<1>3. ASSUME NEW i \in DOMAIN s
      PROVE  /\ s[i] = <<"init", "start">> => i = 2
             /\ s[i] = <<"started", "start">> => i = 17
             /\ s[i] = <<"reset", "start">> => i = 1
             /\ s[i] # <<"reset", "recovery">>
             /\ s[i] = <<"params", "packet">> => i = 15
             /\ s[i] = <<"save", "packet">> => i = 11
             /\ s[i][1] \notin {"answer", "csma", "recovered"}
             /\ i \in Nat /\ (i > 17 => s[i] = on)
  <2>1. CASE i \in 1..17
    <3>1. StartStep(s, i)
      BY <2>1, StartSteps
    <3> QED BY ONLY SMTT(60), <2>1, <3>1 DEF StartStep
  <2>2. CASE i = 18 /\ s[i] = on
    BY ONLY <2>2
  <2> QED BY <1>1, <2>1, <2>2
<1>4. Solid(s)
  <2>1. s[10] = <<"write", "packet">>
    BY DEF StartAt
  <2> QED BY <1>2, <1>3, <2>1 DEF Solid, Before
<1>5. ASSUME NEW q \in Promise PROVE Leads(s, q[1], q[2])
  <2>1. 17 \in DOMAIN s /\ s[17] = <<"started", "start">>
    BY <1>1 DEF StartAt
  <2>2. \A r \in Register : \E j \in DOMAIN s : 1 < j /\ s[j] = <<"write", r>>
    <3>1. 4 \in DOMAIN s /\ 6 \in DOMAIN s /\ 8 \in DOMAIN s /\ 10 \in DOMAIN s /\ 13 \in DOMAIN s
      BY <1>1
    <3>2. /\ s[4] = <<"write", "freq">> /\ s[6] = <<"write", "power">> /\ s[8] = <<"write", "modulation">>
          /\ s[10] = <<"write", "packet">> /\ s[13] = <<"write", "sync">>
      BY DEF StartAt
    <3> QED BY ONLY <3>1, <3>2 DEF Register
  <2>3. CASE q = << <<"init", "start">>, <<"started", "start">> >>
    BY ONLY <1>3, <2>1, <2>3 DEF Leads
  <2>4. CASE q = << <<"reset", "recovery">>, <<"error", "recovery">> >>
    BY ONLY <1>3, <2>4 DEF Leads
  <2>5. ASSUME NEW r \in Register, q = << <<"reset", "start">>, <<"write", r>> >>
        PROVE  Leads(s, q[1], q[2])
    BY ONLY <1>3, <2>2, <2>5 DEF Leads
  <2> QED BY <2>3, <2>4, <2>5 DEF Promise
<1>6. ASSUME NEW q \in Forbidden PROVE Never(s, q[1], q[2])
  <2> SUFFICES ASSUME NEW i \in DOMAIN s, NEW j \in DOMAIN s, s[i] = q[1], i < j, s[j] = q[2] PROVE FALSE
    BY DEF Never
  <2> QED BY ONLY <1>3, q \in Forbidden, i \in DOMAIN s, j \in DOMAIN s, s[i] = q[1], i < j,
             s[j] = q[2]
          DEF Forbidden
<1> QED BY <1>4, <1>5, <1>6 DEF Shape

-----------------------------------------------------------------------------
(* The steps of a host's command, of a transmission and of going back to   *)
(* receiving promise nothing and have no order to keep.                    *)
Plain(s) == \A i \in DOMAIN s : s[i][1] \in {"call", "write", "save", "answer", "csma"}
Simple(s) == s \in Seq(Steps) /\ Solid(s) /\ Plain(s)

(* One after the other they are the same.                                  *)
LEMMA SimpleJoin == ASSUME NEW s, NEW u, Simple(s), Simple(u) PROVE Simple(s \o u)
<1>1. s \in Seq(Steps) /\ u \in Seq(Steps) /\ Solid(s) /\ Solid(u)
  BY DEF Simple
<1>2. s \o u \in Seq(Steps) /\ Solid(s \o u)
  BY <1>1, SolidJoin
<1>3. ASSUME NEW i \in DOMAIN (s \o u)
      PROVE  (s \o u)[i][1] \in {"call", "write", "save", "answer", "csma"}
  <2>1. CASE i \in DOMAIN s
    BY <1>1, <2>1, JoinIs DEF Simple, Plain
  <2>2. CASE i - Len(s) \in DOMAIN u /\ Len(s) + (i - Len(s)) = i
    <3>1. (s \o u)[Len(s) + (i - Len(s))] = u[i - Len(s)]
      BY <1>1, <2>2, JoinIs
    <3> QED BY <2>2, <3>1 DEF Simple, Plain
  <2>3. i \in Nat /\ Len(s) \in Nat /\ (i \in DOMAIN s \/ i - Len(s) \in DOMAIN u)
    BY <1>1, <1>3, JoinIs
  <2> QED BY <2>1, <2>2, <2>3
<1>4. Plain(s \o u)
  BY <1>3 DEF Plain
<1> QED BY <1>2, <1>4 DEF Simple

(* They promise nothing.                                                   *)
LEMMA PlainShape == ASSUME NEW s, Simple(s) PROVE Shape(s)
<1>1. ASSUME NEW q \in Promise PROVE Leads(s, q[1], q[2])
  BY <1>1 DEF Promise, Leads, Simple, Plain
<1>2. ASSUME NEW q \in Forbidden PROVE Never(s, q[1], q[2])
  BY <1>2 DEF Forbidden, Never, Simple, Plain
<1> QED BY <1>1, <1>2 DEF Shape

(* The parts the handlers of rnode.c are put together from.                *)
LEMMA PiecesSimple ==
    /\ Simple(<<>>) /\ Simple(SetPacket)
    /\ \A r \in Register : Simple(Apply(r))
    /\ \A p \in Param : Simple(Answer(p)) /\ Simple(<< <<"csma", p>> >>)
<1>1. Simple(<<>>)
  BY DEF Simple, Solid, Plain
<1>2. ASSUME NEW r \in Register PROVE Simple(Apply(r))
  <2>1. Apply(r) \in Seq(Steps) /\ DOMAIN Apply(r) = 1..2
    BY DEF Apply, Steps
  <2>2. \A i \in 1..2 : i = 1 \/ i = 2
    OBVIOUS
  <2> QED BY <2>1, <2>2 DEF Apply, Simple, Solid, Plain, Before
<1>3. ASSUME NEW p \in Param, NEW op \in {"answer", "csma"} PROVE Simple(<< <<op, p>> >>)
  <2> DEFINE s == << <<op, p>> >>
  <2>1. s \in Seq(Steps) /\ DOMAIN s = {1} /\ s[1] = <<op, p>>
    BY DEF Steps
  <2> HIDE DEF s
  <2>2. Simple(s)
    BY <2>1 DEF Simple, Solid, Plain, Before
  <2> QED BY <2>2 DEF s
<1>4. Simple(SetPacket)
  <2> DEFINE s == SetPacket
  <2>1. /\ s \in Seq(Steps) /\ DOMAIN s = 1..3
        /\ s[1] = <<"call", "packet">> /\ s[2] = <<"write", "packet">> /\ s[3] = <<"save", "packet">>
    BY DEF SetPacket, Apply, Steps, Register
  <2>2. \A i \in 1..3 : i = 1 \/ i = 2 \/ i = 3
    OBVIOUS
  <2> HIDE DEF s
  <2>3. Simple(s)
    BY <2>1, <2>2 DEF Simple, Solid, Plain, Before
  <2> QED BY <2>3 DEF s
<1> QED BY <1>1, <1>2, <1>3, <1>4 DEF Answer

(* Every handler is made of these, and ends up answering.                  *)
LEMMA HandlerIs ==
    ASSUME NEW p \in Param
    PROVE  /\ Simple(Handler(p)) /\ Has(Handler(p), <<"answer", p>>)
           /\ p \in Timed => Has(Handler(p), <<"csma", p>>)
           /\ radio_online => Has(Handler(p), <<"write", RegisterOf[p]>>)
           /\ radio_online /\ RegisterOf[p] = "packet" => Has(Handler(p), <<"save", "packet">>)
<1> DEFINE A == Answer(p)
           C == << <<"csma", p>> >>
           W == Apply(RegisterOf[p])
<1>1. RegisterOf[p] \in Register /\ (p \in Timed => RegisterOf[p] = "modulation")
  BY SetupAssumption DEF RegisterOf, Register, Timed
<1>2. /\ Simple(A) /\ Simple(C) /\ Simple(W) /\ Simple(SetPacket) /\ Simple(<<>>)
      /\ Has(A, <<"answer", p>>) /\ Has(C, <<"csma", p>>) /\ Has(W, <<"write", RegisterOf[p]>>)
      /\ Has(SetPacket, <<"write", "packet">>) /\ Has(SetPacket, <<"save", "packet">>)
  <2>1. Simple(A) /\ Simple(C) /\ Simple(W) /\ Simple(SetPacket) /\ Simple(<<>>)
    BY <1>1, PiecesSimple
  <2>2. 1 \in DOMAIN A /\ A[1] = <<"answer", p>> /\ 1 \in DOMAIN C /\ C[1] = <<"csma", p>>
    BY DEF Answer
  <2>3. 2 \in DOMAIN W /\ W[2] = <<"write", RegisterOf[p]>>
    BY DEF Apply
  <2>4. /\ 2 \in DOMAIN SetPacket /\ SetPacket[2] = <<"write", "packet">>
        /\ 3 \in DOMAIN SetPacket /\ SetPacket[3] = <<"save", "packet">>
    BY DEF SetPacket, Apply
  <2> QED BY ONLY <2>1, <2>2, <2>3, <2>4 DEF Has
<1> HIDE DEF A, C, W
<1>3. \A s, u : Simple(s) /\ Simple(u) => /\ Simple(s \o u)
                                          /\ \A x : Has(s \o u, x) <=> Has(s, x) \/ Has(u, x)
  BY SimpleJoin, HasJoin DEF Simple
<1>4. IfOnline(W) = (IF radio_online THEN W ELSE <<>>) /\ Simple(IfOnline(W))
      /\ IfOnline(SetPacket) = (IF radio_online THEN SetPacket ELSE <<>>) /\ Simple(IfOnline(SetPacket))
  BY <1>2 DEF IfOnline
<1>5. CASE RegisterOf[p] = "modulation"
  <2> DEFINE M == IF p \in Timed THEN C ELSE <<>>
  <2>1. Simple(M) /\ (p \in Timed => Has(M, <<"csma", p>>))
    BY <1>2
  <2>2. Handler(p) = A \o M \o IfOnline(W)
    BY <1>5 DEF Handler, A, C, W
  <2> HIDE DEF M
  <2>3. Simple(A \o M) /\ Simple((A \o M) \o IfOnline(W))
    BY <1>2, <1>3, <1>4, <2>1
  <2>4. /\ Has(A \o M, <<"answer", p>>) /\ (p \in Timed => Has(A \o M, <<"csma", p>>))
        /\ \A x : Has((A \o M) \o IfOnline(W), x) <=> Has(A \o M, x) \/ Has(IfOnline(W), x)
    BY <1>2, <1>3, <1>4, <2>1, <2>3
  <2> QED BY <1>2, <1>4, <1>5, <2>2, <2>3, <2>4
<1>6. CASE RegisterOf[p] = "packet"
  <2>1. Handler(p) = IfOnline(SetPacket) \o A
    BY <1>6 DEF Handler, A
  <2>2. Simple(IfOnline(SetPacket) \o A)
        /\ \A x : Has(IfOnline(SetPacket) \o A, x) <=> Has(IfOnline(SetPacket), x) \/ Has(A, x)
    BY <1>2, <1>3, <1>4
  <2> QED BY <1>1, <1>2, <1>4, <1>6, <2>1, <2>2
<1>7. CASE RegisterOf[p] \notin {"modulation", "packet"}
  <2>1. Handler(p) = IfOnline(W) \o A
    BY <1>7 DEF Handler, A, W
  <2>2. Simple(IfOnline(W) \o A)
        /\ \A x : Has(IfOnline(W) \o A, x) <=> Has(IfOnline(W), x) \/ Has(A, x)
    BY <1>2, <1>3, <1>4
  <2> QED BY <1>1, <1>2, <1>4, <1>7, <2>1, <2>2
<1> QED BY <1>5, <1>6, <1>7

(* sx126x_end_packet, sx126x_request and the radio's answer to a command.  *)
LEMMA OthersSound ==
    ASSUME NEW s, s \in {Receive, Transmit} \cup {Answer(p) : p \in Param} \cup {Handler(p) : p \in Param}
    PROVE  s \in Seq(Steps) /\ Solid(s) /\ Shape(s)
<1>1. ASSUME NEW m \in {"rx", "tx"}, s = << <<"state", m>>, <<"params", "packet">>, <<"go", m>> >>
      PROVE  s \in Seq(Steps) /\ Solid(s) /\ Shape(s)
  <2>1. /\ s \in Seq(Steps) /\ DOMAIN s = 1..3
        /\ s[1] = <<"state", m>> /\ s[2] = <<"params", "packet">> /\ s[3] = <<"go", m>>
    BY <1>1 DEF Steps
  <2>2. \A i \in 1..3 : i = 1 \/ i = 2 \/ i = 3
    OBVIOUS
  <2>3. \A i \in DOMAIN s : s[i][1] \in {"state", "params", "go"}
    BY <2>1, <2>2
  <2>4. Solid(s)
    BY <2>3 DEF Solid
  <2>5. ASSUME NEW q \in Promise PROVE Leads(s, q[1], q[2])
    BY <2>3, <2>5 DEF Promise, Leads
  <2>6. ASSUME NEW q \in Forbidden PROVE Never(s, q[1], q[2])
    BY <2>3, <2>6 DEF Forbidden, Never
  <2> QED BY <2>1, <2>4, <2>5, <2>6 DEF Shape
<1>2. CASE s \in {Receive, Transmit}
  BY <1>1, <1>2 DEF Receive, Transmit
<1>3. CASE s \in {Answer(p) : p \in Param} \cup {Handler(p) : p \in Param}
  <2>1. Simple(s)
    BY <1>3, PiecesSimple, HandlerIs
  <2> QED BY <2>1, PlainShape DEF Simple
<1> QED BY <1>2, <1>3

(* What is left of a start that failed: the report, and at most to go      *)
(* online.                                                                 *)
LEMMA FailSound ==
    ASSUME NEW s \in Seq(Steps), Shape(s), s # <<>>, Head(s) = <<"init", "start">>,
           NEW u, u = << <<"error", "start">> >> \o AfterStart(s)
    PROVE  /\ u \in Seq(Steps) /\ Solid(u) /\ Shape(u)
           /\ Has(u, <<"error", "start">>)
           /\ \A i \in DOMAIN u : u[i] \in {<<"error", "start">>, <<"online", "start">>}
<1> DEFINE first == <<"started", "start">>
           k == CHOOSE k \in DOMAIN s : s[k][1] = "started"
           e == << <<"error", "start">> >>
           v == AfterStart(s)
<1>1. k \in DOMAIN s /\ s[k] = first
  <2>1. \E i \in DOMAIN s : s[i] = first
    <3>1. << <<"init", "start">>, first >> \in Promise
      BY DEF Promise
    <3>2. Leads(s, <<"init", "start">>, first)
      BY <3>1 DEF Shape
    <3> QED BY <3>2, TailIs, SMTT(60) DEF Leads
  <2>2. \E i \in DOMAIN s : s[i][1] = "started"
    BY <2>1
  <2>3. k \in DOMAIN s /\ s[k][1] = "started"
    BY <2>2
  <2>4. s[k] \in Steps
    BY <2>3
  <2> QED BY <2>3, <2>4 DEF Steps
<1>2. v = SubSeq(s, k + 1, Len(s))
  BY DEF AfterStart
<1> HIDE DEF k, v
<1>3. /\ v \in Seq(Steps) /\ DOMAIN v = 1..(Len(s) - k) /\ k \in Nat /\ Len(s) \in Nat
      /\ \A i \in DOMAIN v : v[i] = s[k + i] /\ k + i \in DOMAIN s /\ k < k + i
  BY <1>1, <1>2, SMTT(60)
<1>4. \A j \in DOMAIN s : k < j => s[j] = <<"online", "start">>
  <2> SUFFICES ASSUME NEW j \in DOMAIN s, k < j, s[j] # <<"online", "start">> PROVE FALSE
    OBVIOUS
  <2>1. << first, s[j] >> \in Forbidden
    BY DEF Forbidden
  <2>2. Never(s, first, s[j])
    BY <2>1 DEF Shape
  <2> QED BY <1>1, <2>2 DEF Never
<1>5. \A i \in DOMAIN v : v[i] = <<"online", "start">>
  BY <1>3, <1>4
<1>6. e \in Seq(Steps) /\ Len(e) = 1 /\ DOMAIN e = {1} /\ e[1] = <<"error", "start">>
  BY DEF Steps
<1>7. u = e \o v
  BY DEF v
<1> HIDE DEF e
<1>8. u \in Seq(Steps) /\ Has(u, <<"error", "start">>)
  <2>1. e \o v \in Seq(Steps) /\ (Has(e \o v, <<"error", "start">>) <=> Has(e, <<"error", "start">>)
                                                                    \/ Has(v, <<"error", "start">>))
    BY <1>3, <1>6, HasJoin, JoinIs
  <2> QED BY <1>6, <1>7, <2>1 DEF Has
<1>9. ASSUME NEW i \in DOMAIN u PROVE u[i] \in {<<"error", "start">>, <<"online", "start">>}
  <2>1. Has(e \o v, u[i]) <=> Has(e, u[i]) \/ Has(v, u[i])
    BY <1>3, <1>6, HasJoin
  <2>2. Has(u, u[i])
    BY DEF Has
  <2> QED BY <1>5, <1>6, <1>7, <2>1, <2>2 DEF Has
<1>10. Solid(u)
  BY <1>9, SMTT(60) DEF Solid
<1>11. ASSUME NEW q \in Promise PROVE Leads(u, q[1], q[2])
  <2>1. q[1] \notin {<<"error", "start">>, <<"online", "start">>}
    BY <1>11 DEF Promise
  <2> QED BY <1>9, <2>1 DEF Leads
<1>12. ASSUME NEW q \in Forbidden PROVE Never(u, q[1], q[2])
  BY <1>9, <1>12, SMTT(60) DEF Forbidden, Never
<1> QED BY <1>8, <1>9, <1>10, <1>11, <1>12 DEF Shape

-----------------------------------------------------------------------------
(* Every thread is ready for its steps, and they have their order.         *)
Sequences == \A t \in Thread : Ready(todo[t], arg[t]) /\ Shape(todo[t])

TInv == TypeOK /\ Sequences

(* What a command or a thread's work begins with, and what a step leaves.  *)
LEMMA ProgramSound ==
    ASSUME NEW t \in Thread, NEW steps, TInv, Run(t, steps), arg' = arg,
           steps \in Seq(Steps) /\ Solid(steps) /\ Shape(steps)
    PROVE  todo' \in [Thread -> Seq(Steps)] /\ Sequences'
  BY SolidReady DEF TInv, TypeOK, Sequences, Run

(* rnode_start, called by a command to go online or for another reason.    *)
LEMMA StartsSound ==
    ASSUME NEW s, s \in {Start, Start \o << <<"online", "start">> >>}
    PROVE  s \in Seq(Steps) /\ Solid(s) /\ Shape(s)
  BY StartIs, StartOnlineIs, StartSound

(* A command of the host, a frame and the end of one keep the types.       *)
LEMMA TypeCommand ==
    ASSUME TInv, Act, overlap' \in BOOLEAN, Command \/ Send \/ Watchdog \/ TxDone PROVE TInv'
<1> USE DEF TInv, TypeOK
<1>1. ASSUME NEW p \in Param, NEW v \in Value, SetParam(p, v) PROVE TInv'
  <2>1. todo' \in [Thread -> Seq(Steps)] /\ Sequences'
    BY <1>1, ProgramSound, OthersSound DEF SetParam, Thread
  <2> QED BY <1>1, <2>1, SetupAssumption, SMTT(60) DEF SetParam, device, driver, host, Spend
<1>2. ASSUME NEW p \in Param, Query(p) PROVE TInv'
  <2>1. todo' \in [Thread -> Seq(Steps)] /\ Sequences'
    BY <1>2, ProgramSound, OthersSound DEF Query, Thread
  <2> QED BY <1>2, <2>1 DEF Query, rnode, device, driver, host, Spend
<1>3. CASE RadioOn
  <2>1. todo' \in [Thread -> Seq(Steps)] /\ Sequences'
    BY <1>3, ProgramSound, StartsSound DEF RadioOn, Thread
  <2>2. UNCHANGED <<rnode, device, driver, timing, arg, told>> /\ error_seen' = FALSE /\ Spend("command")
    BY <1>3 DEF RadioOn
  <2>3. error_seen' \in BOOLEAN
    BY <2>2
  <2>4. UNCHANGED <<rnode, device, driver, timing, arg, told>> /\ Spend("command")
    BY <2>2
  <2> QED BY <2>1, <2>3, <2>4 DEF rnode, device, driver, Spend
<1>4. CASE RadioOff
  <2>1. todo' = todo /\ arg' = arg
    BY <1>4 DEF RadioOff
  <2>2. Sequences'
    BY <2>1 DEF Sequences
  <2>3. radio_online' \in BOOLEAN
    BY <1>4 DEF RadioOff
  <2>4. UNCHANGED <<current, device, driver, timing, todo, arg, host>> /\ Spend("command")
    BY <1>4 DEF RadioOff
  <2> QED BY <2>2, <2>3, <2>4 DEF device, driver, host, Spend
<1>5. CASE ResetCommand
  <2>1. todo' \in [Thread -> Seq(Steps)] /\ Sequences'
    BY <1>5, ProgramSound, StartsSound DEF ResetCommand, Thread
  <2> QED BY <1>5, <2>1 DEF ResetCommand, rnode, device, driver, host, Spend
<1>6. CASE Send
  <2>1. todo' \in [Thread -> Seq(Steps)] /\ Sequences'
    BY <1>6, ProgramSound, OthersSound DEF Send, Thread
  <2> QED BY <1>6, <2>1 DEF Send, rnode, device, driver, host, Spend
<1>7. CASE Watchdog
  <2>1. todo' \in [Thread -> Seq(Steps)] /\ Sequences'
    BY <1>7, ProgramSound, StartsSound DEF Watchdog, Thread
  <2> QED BY <1>7, <2>1 DEF Watchdog, rnode, device, driver, host, Spend
<1>8. CASE TxDone
  <2>1. todo' \in [Thread -> Seq(Steps)] /\ Sequences'
    BY <1>8, ProgramSound, OthersSound DEF TxDone, Thread
  <2> QED BY <1>8, <2>1 DEF TxDone, rnode, driver, host, Spend
<1> QED BY <1>1, <1>2, <1>3, <1>4, <1>5, <1>6, <1>7, <1>8 DEF Command

(* A step is taken off the sequence of its thread.                         *)
LEMMA Popped ==
    ASSUME TInv, NEW t \in Thread, todo[t] # <<>>, todo' = [todo EXCEPT ![t] = Tail(@)],
           DOMAIN arg' = Thread, \A u \in Thread \ {t} : arg'[u] = arg[u],
           Head(todo[t]) \in Recovering \/ Head(todo[t]) = <<"write", "packet">> => arg'[t] = arg[t],
           \A r \in Register : Head(todo[t]) = <<"call", r>> => arg'[t] \in Content(r)
    PROVE  todo' \in [Thread -> Seq(Steps)] /\ Sequences'
<1>1. /\ \A u \in Thread : todo[u] \in Seq(Steps) /\ Ready(todo[u], arg[u]) /\ Shape(todo[u])
      /\ \A u \in Thread \ {t} : todo'[u] = todo[u]
      /\ todo'[t] = Tail(todo[t])
  BY DEF TInv, TypeOK, Sequences
<1>2. Tail(todo[t]) \in Seq(Steps) /\ Ready(Tail(todo[t]), arg'[t]) /\ Shape(Tail(todo[t]))
  BY <1>1, TailIs, ReadyTail, ShapeTail
<1>3. Sequences'
  BY <1>1, <1>2 DEF Sequences
<1> QED BY <1>2, <1>3 DEF TInv, TypeOK

(* The register that the next step of a thread writes gets its content.    *)
LEMMA Filled ==
    ASSUME TInv, NEW t \in Thread, todo[t] # <<>>
    PROVE  /\ Head(todo[t]) \in Steps
           /\ \A r \in Register : Head(todo[t]) = <<"write", r>> => arg[t] \in Content(r)
           /\ Head(todo[t]) = <<"save", "packet">> => arg[t] \in Content("packet")
<1>1. todo[t] \in Seq(Steps) /\ Ready(todo[t], arg[t])
  BY DEF TInv, TypeOK, Sequences
<1>2. 1 \in DOMAIN todo[t] /\ Head(todo[t]) = todo[t][1] /\ todo[t][1] \in Steps
  BY <1>1, TailIs
<1> QED BY <1>1, <1>2, SMTT(60) DEF Ready, Before, Holds

(* The sequences of steps have moved on, as they should.                   *)
Moves == todo' \in [Thread -> Seq(Steps)] /\ Sequences'

(* So they have when a step is taken that reads no argument.               *)
LEMMA Passed ==
    ASSUME TInv, NEW t \in Thread, NEW op, Next_(t, op), op # "call", arg' = arg
    PROVE  Moves
<1>1. /\ todo[t] # <<>> /\ todo' = [todo EXCEPT ![t] = Tail(@)]
      /\ \A r \in Register : Head(todo[t]) # <<"call", r>>
  BY DEF Next_
<1>2. DOMAIN arg' = Thread /\ \A u \in Thread : arg'[u] = arg[u]
  BY DEF TInv, TypeOK
<1> QED BY <1>1, <1>2, Popped DEF Moves

(* What the steps of each kind are about.                                  *)
LEMMA KindOf ==
    ASSUME NEW x \in Steps
    PROVE  /\ x = << x[1], x[2] >>
           /\ x[1] \in {"write", "call"} => x[2] \in Register
           /\ x[1] = "save" => x[2] = "packet"
           /\ x[1] \in {"state", "go"} => x[2] \in {"rx", "tx"}
           /\ x[1] \in {"answer", "csma"} => x[2] \in Param
           /\ x[1] = "online" => x[2] = "start"
           /\ x[1] \in {"error", "init"} => x[2] \in {"start", "recovery"}
           /\ x[1] = "recovered" => x[2] = "recovery"
<1>1. CASE x \in {"reset", "init", "error"} \X {"start", "recovery"}
  BY <1>1
<1>2. CASE x \in {"call", "write"} \X Register
  BY <1>2
<1>3. CASE x \in {"state", "go"} \X {"rx", "tx"}
  BY <1>3
<1>4. CASE x \in {"answer", "csma"} \X Param
  BY <1>4
<1>5. CASE x \in {<<"save", "packet">>, <<"params", "packet">>, <<"started", "start">>,
                   <<"online", "start">>, <<"recovered", "recovery">>}
  BY <1>5
<1> QED BY <1>1, <1>2, <1>3, <1>4, <1>5 DEF Steps

(* What the driver makes of a value is a number.                           *)
LEMMA NarrowIs == ASSUME NEW p \in Param, NEW v \in Nat PROVE Narrow(p, v) \in Nat
<1>1. v % ByteMod \in Nat
  BY SetupAssumption
<1> QED BY <1>1, SetupAssumption DEF Narrow

(* A recovery comes in between, at any step of any thread.                 *)
LEMMA RecoverGood ==
    ASSUME NEW s \in Seq(Steps), NEW a, Ready(s, a), Shape(s)
    PROVE  Recover \o s \in Seq(Steps) /\ Ready(Recover \o s, a) /\ Shape(Recover \o s)
<1>1. Recover \o s \in Seq(Steps)
  BY RecoverIs
<1> QED BY <1>1, ReadyRecover, ShapeRecover

(* A step of a thread keeps the types.                                     *)
LEMMA TypeStep == ASSUME TInv, NEW t \in Thread, Step(t), overlap' \in BOOLEAN PROVE TInv'
<1> USE DEF TInv, TypeOK
<1>1. CASE Reset(t)
  <2>1. Moves
    BY <1>1, Passed DEF Reset
  <2> QED BY <1>1, <2>1 DEF Moves, Reset, rnode, host
<1>2. CASE InitChip(t)
  <2>1. Moves
    BY <1>2, Passed DEF InitChip
  <2> QED BY <1>2, <2>1 DEF Moves, InitChip, rnode, device, driver, host
<1>3. CASE InitFails(t)
  <2>1. PICK u : u = << <<"error", "start">> >> \o AfterStart(todo[t]) /\ todo' = [todo EXCEPT ![t] = u]
    BY <1>3 DEF InitFails
  <2>2. u \in Seq(Steps) /\ Solid(u) /\ Shape(u)
    BY <1>3, <2>1, FailSound DEF InitFails, Sequences
  <2>3. arg' = arg
    BY <1>3 DEF InitFails
  <2>4. Moves
    BY <2>1, <2>2, <2>3, SolidReady DEF Moves, Sequences
  <2> QED BY <1>3, <2>4, SMTT(60) DEF Moves, InitFails, rnode, device, driver, host, Spend
<1>4. CASE Call(t)
  <2>1. ASSUME NEW r \in Register, Head(todo[t]) = <<"call", r>> PROVE arg'[t] \in Content(r)
    <3>1. arg'[t] = [p \in In(r) |-> Narrow(p, current[p])]
      BY <1>4, <2>1 DEF Call, What
    <3>2. \A p \in In(r) : Narrow(p, current[p]) \in Nat
      BY NarrowIs DEF In
    <3> QED BY <3>1, <3>2 DEF Content
  <2>2. Head(todo[t])[1] = "call" /\ DOMAIN arg' = Thread /\ \A u \in Thread \ {t} : arg'[u] = arg[u]
    BY <1>4 DEF Call, Next_
  <2>3. Head(todo[t]) \notin Recovering /\ Head(todo[t]) # <<"write", "packet">>
    BY <2>2 DEF Recovering
  <2>4. Moves
    BY <1>4, <2>1, <2>2, <2>3, Popped DEF Moves, Call, Next_
  <2> QED BY <1>4, <2>4, <2>2 DEF Moves, Call, rnode, device, driver, host
<1>5. CASE Write(t)
  <2>1. PICK r \in Register : Head(todo[t]) = <<"write", r>> /\ What(t) = r
    BY <1>5, Filled, KindOf DEF Write, Next_, What
  <2>2. arg[t] \in Content(r) /\ chip' = [chip EXCEPT ![r] = arg[t]]
    BY <1>5, <2>1, Filled DEF Write, Next_
  <2>3. /\ DOMAIN arg' = Thread /\ \A u \in Thread \ {t} : arg'[u] = arg[u]
        /\ r = "packet" => arg'[t] = arg[t]
    BY <1>5, <2>1 DEF Write
  <2>4. Moves
    <3>1. Head(todo[t]) \notin Recovering /\ \A q \in Register : Head(todo[t]) # <<"call", q>>
      BY <2>1 DEF Recovering
    <3>2. Head(todo[t]) = <<"write", "packet">> => r = "packet"
      BY <2>1
    <3> QED BY <1>5, <2>3, <3>1, <3>2, Popped DEF Moves, Write, Next_
  <2> QED BY <1>5, <2>2, <2>3, <2>4 DEF Moves, Write, rnode, driver, host
<1>6. CASE Save(t)
  <2>1. Head(todo[t]) = <<"save", "packet">>
    BY <1>6, Filled, KindOf DEF Save, Next_
  <2>2. arg[t] \in Content("packet")
    BY <1>6, <2>1, Filled DEF Save, Next_
  <2>3. DOMAIN arg' = Thread /\ \A u \in Thread \ {t} : arg'[u] = arg[u]
    BY <1>6 DEF Save
  <2>4. Moves
    <3>1. Head(todo[t]) \notin Recovering /\ \A q \in Register : Head(todo[t]) # <<"call", q>>
      BY <2>1 DEF Recovering
    <3>2. Head(todo[t]) # <<"write", "packet">>
      BY <2>1
    <3> QED BY <1>6, <2>3, <3>1, <3>2, Popped DEF Moves, Save, Next_
  <2> QED BY <1>6, <2>2, <2>3, <2>4 DEF Moves, Save, rnode, device, host
<1>7. CASE SetState(t)
  <2>1. Moves
    BY <1>7, Passed DEF SetState
  <2>2. What(t) \in {"rx", "tx"}
    BY <1>7, Filled, KindOf DEF SetState, Next_, What
  <2> QED BY <1>7, <2>1, <2>2 DEF Moves, SetState, rnode, device, host
<1>8. CASE Params(t)
  <2>1. Moves
    BY <1>8, Passed DEF Params
  <2> QED BY <1>8, <2>1 DEF Moves, Params, rnode, driver, host
<1>9. CASE Go(t)
  <2>1. Moves
    BY <1>9, Passed DEF Go
  <2>2. What(t) \in {"rx", "tx"}
    BY <1>9, Filled, KindOf DEF Go, Next_, What
  <2> QED BY <1>9, <2>1, <2>2 DEF Moves, Go, rnode, driver, host
<1>10. CASE Started(t)
  <2>1. Moves
    BY <1>10, Passed DEF Started
  <2> QED BY <1>10, <2>1 DEF Moves, Started, rnode, device, driver, host
<1>11. CASE Online(t)
  <2>1. Moves
    BY <1>11, Passed DEF Online
  <2>2. radio_online' \in BOOLEAN /\ UNCHANGED <<current, device, driver, timing, arg, host, budget>>
    BY <1>11 DEF Online
  <2> QED BY <2>1, <2>2 DEF Moves, device, driver, host
<1>12. CASE AnswerSent(t)
  <2>1. Moves
    BY <1>12, Passed DEF AnswerSent
  <2>2. What(t) \in Param
    BY <1>12, Filled, KindOf DEF AnswerSent, Next_, What
  <2> QED BY <1>12, <2>1, <2>2 DEF Moves, AnswerSent, rnode, device, driver
<1>13. CASE UpdateTiming(t)
  <2>1. Moves
    BY <1>13, Passed DEF UpdateTiming
  <2>2. timing' \in [Timed -> Nat]
    BY <1>13 DEF UpdateTiming, Timed
  <2> QED BY <1>13, <2>1, <2>2 DEF Moves, UpdateTiming, rnode, device, driver, host
<1>14. CASE ReportError(t)
  <2>1. Moves
    BY <1>14, Passed DEF ReportError
  <2>2. error_seen' \in BOOLEAN /\ UNCHANGED <<rnode, device, driver, timing, arg, told, budget>>
    BY <1>14 DEF ReportError
  <2> QED BY <2>1, <2>2 DEF Moves, rnode, device, driver
<1>15. CASE Recovered(t)
  <2>1. Moves
    BY <1>15, Passed DEF Recovered
  <2>2. recovering' \in BOOLEAN /\ UNCHANGED <<rnode, device, state, saved, timing, arg, host, budget>>
    BY <1>15 DEF Recovered
  <2> QED BY <2>1, <2>2 DEF Moves, rnode, device, host
<1>16. CASE BusyTimeout(t)
  <2>1. /\ todo[t] \in Seq(Steps) /\ todo[t] # <<>> /\ Ready(todo[t], arg[t]) /\ Shape(todo[t])
        /\ Head(todo[t]) \in Steps /\ Head(todo[t])[1] # "call"
        /\ Head(todo[t]) \notin Recovering
    BY <1>16, Filled, SMTT(60) DEF BusyTimeout, Sequences, Recovering
  <2>2. Tail(todo[t]) \in Seq(Steps) /\ Ready(Tail(todo[t]), arg[t]) /\ Shape(Tail(todo[t]))
    <3>1. \A r \in Register : Head(todo[t]) # <<"call", r>>
      BY <2>1
    <3> QED BY <2>1, <3>1, ReadyTail, ShapeTail
  <2>4. PICK s : /\ s \in Seq(Steps) /\ Ready(s, arg[t]) /\ Shape(s)
                 /\ todo' = [todo EXCEPT ![t] = s]
    <3> DEFINE Good(s) == s \in Seq(Steps) /\ Ready(s, arg[t]) /\ Shape(s)
    <3>1. PICK s : /\ s \in {Recover \o todo[t], Recover \o Tail(todo[t]), Tail(todo[t])}
                   /\ todo' = [todo EXCEPT ![t] = s]
      BY <1>16 DEF BusyTimeout
    <3>2. Good(Recover \o todo[t])
      BY <2>1, RecoverGood
    <3>3. Good(Recover \o Tail(todo[t]))
      BY <2>2, RecoverGood
    <3>4. Good(Tail(todo[t]))
      BY <2>2
    <3> HIDE DEF Good
    <3>5. Good(s)
      BY <3>1, <3>2, <3>3, <3>4
    <3> QED BY <3>1, <3>5 DEF Good
  <2>5. arg' = arg
    BY <1>16 DEF BusyTimeout
  <2>6. Moves
    BY <2>4, <2>5 DEF Moves, Sequences
  <2>7. recovering' \in BOOLEAN
    BY <1>16 DEF BusyTimeout
  <2>8. UNCHANGED <<rnode, device, state, saved, timing, arg, host>> /\ Spend("busy")
    BY <1>16 DEF BusyTimeout
  <2> QED BY <2>6, <2>7, <2>8 DEF Moves, rnode, device, host, Spend
<1> QED BY <1>1, <1>2, <1>3, <1>4, <1>5, <1>6, <1>7, <1>8, <1>9, <1>10, <1>11, <1>12, <1>13, <1>14,
           <1>15, <1>16 DEF Step

(* The types hold at the start,                                            *)
LEMMA TypeInit == Init => TInv
<1> SUFFICES ASSUME Init PROVE TInv
  OBVIOUS
<1>1. \A t \in Thread : todo[t] = <<>>
  BY DEF Init
<1>2. Sequences
  BY <1>1 DEF Sequences, Ready, Shape, Leads, Never
<1>3. /\ current \in [Param -> Nat] /\ told \in [Param -> Nat \cup {Untold}]
      /\ chip \in {[r \in Register |-> Lost], [r \in Register |-> Stored(r)]}
      /\ saved = Stored("packet") /\ timing = [p \in Timed |-> current[p]]
  <2>1. CASE Fresh
    BY <2>1 DEF Fresh
  <2>2. CASE Running
    <3>1. PICK v \in Value : current = [p \in Param |-> v]
      BY <2>2 DEF Running
    <3>2. v \in Nat
      BY SetupAssumption
    <3>3. current \in [Param -> Nat]
      BY <3>1, <3>2
    <3> QED BY <2>2, <3>3 DEF Running
  <2> QED BY <2>1, <2>2 DEF Init
<1>4. /\ DOMAIN chip = Register /\ \A r \in Register : chip[r] \in Content(r) \cup {Lost}
      /\ saved \in Content("packet") /\ timing \in [Timed -> Nat]
  <2>1. \A r : Stored(r) \in Content(r)
    BY <1>3 DEF Stored, Content, In
  <2>2. timing \in [Timed -> Nat]
    BY <1>3 DEF Timed
  <2> QED BY <1>3, <2>1, <2>2
<1>5. /\ mode \in {"standby", "rx", "tx"} /\ state \in {"idle", "rx", "tx"}
      /\ todo \in [Thread -> Seq(Steps)] /\ DOMAIN arg = Thread
  BY DEF Init, Fresh, Running
<1>6. budget \in [{"command", "send", "hang", "busy", "fail"} -> Nat]
  BY SetupAssumption DEF Init
<1>7. radio_online \in BOOLEAN /\ recovering \in BOOLEAN /\ error_seen \in BOOLEAN /\ overlap \in BOOLEAN
  BY DEF Init, Fresh, Running
<1> QED BY <1>2, <1>3, <1>4, <1>5, <1>6, <1>7 DEF TInv, TypeOK

(* and after every step.                                                   *)
LEMMA TypeNext == TInv /\ [Next]_vars => TInv'
<1> SUFFICES ASSUME TInv, [Next]_vars PROVE TInv'
  OBVIOUS
<1>1. CASE UNCHANGED vars
  BY <1>1 DEF vars, rnode, device, driver, host, TInv, TypeOK, Sequences
<1>2. CASE Next
  <2>1. overlap' \in BOOLEAN
    BY <1>2 DEF Next, Watch
  <2> QED BY <1>2, <2>1, TypeCommand, TypeStep DEF Next, Act
<1> QED BY <1>1, <1>2

(* Whatever the threads do at once: the registers only ever get contents   *)
(* of their own kind, and no thread takes a step that is not its driver's. *)
THEOREM TypesHold == Spec => []TypeOK
<1>1. TInv => TypeOK
  BY DEF TInv
<1> QED BY <1>1, TypeInit, TypeNext, PTL DEF Spec

-----------------------------------------------------------------------------
(* What a step leaves alone: every variable has the actions that write it. *)
LEMMA StepLeaves ==
    ASSUME NEW t \in Thread, Step(t)
    PROVE  /\ current' = current
           /\ Online(t) \/ radio_online' = radio_online
           /\ UpdateTiming(t) \/ timing' = timing
           /\ AnswerSent(t) \/ told' = told
           /\ ReportError(t) \/ error_seen' = error_seen
           /\ Save(t) \/ saved' = saved
           /\ Recovered(t) \/ (BusyTimeout(t) /\ ~recovering) \/ recovering' = recovering
           /\ Reset(t) \/ Write(t) \/ Params(t) \/ chip' = chip
           /\ Call(t) \/ Write(t) \/ Save(t) \/ arg' = arg
<1>1. CASE Reset(t) \/ InitChip(t) \/ InitFails(t)
  BY ONLY <1>1 DEF Reset, InitChip, InitFails, rnode, driver, device, host
<1>2. CASE Call(t) \/ Write(t) \/ Save(t)
  BY ONLY <1>2 DEF Call, Write, Save, rnode, driver, device, host
<1>3. CASE SetState(t) \/ Params(t) \/ Go(t)
  BY ONLY <1>3 DEF SetState, Params, Go, rnode, driver, device, host
<1>4. CASE Started(t) \/ Online(t) \/ AnswerSent(t)
  BY ONLY <1>4 DEF Started, Online, AnswerSent, rnode, driver, device, host
<1>5. CASE UpdateTiming(t) \/ ReportError(t) \/ Recovered(t)
  BY ONLY <1>5 DEF UpdateTiming, ReportError, Recovered, rnode, driver, device, host
<1>6. CASE BusyTimeout(t)
  BY ONLY <1>6 DEF BusyTimeout, rnode, driver, device, host
<1> QED BY ONLY Step(t), <1>1, <1>2, <1>3, <1>4, <1>5, <1>6 DEF Step

(* Which action takes a step: one that is not a write of the driver's only *)
(* has its own.                                                            *)
LEMMA StepTakes ==
    ASSUME NEW t \in Thread, Step(t)
    PROVE  /\ Head(todo[t])[1] = "call" => Call(t)
           /\ Head(todo[t])[1] = "write" => Write(t) \/ BusyTimeout(t)
           /\ Head(todo[t])[1] = "save" => Save(t)
           /\ Head(todo[t])[1] = "answer" => AnswerSent(t)
           /\ Head(todo[t])[1] = "csma" => UpdateTiming(t)
           /\ Head(todo[t])[1] = "error" => ReportError(t)
           /\ Head(todo[t])[1] = "recovered" => Recovered(t)
<1>1. CASE Reset(t) \/ InitChip(t) \/ InitFails(t)
  BY ONLY <1>1 DEF Reset, InitChip, InitFails, Next_
<1>2. CASE Call(t) \/ Write(t) \/ Save(t)
  BY ONLY <1>2 DEF Call, Write, Save, Next_
<1>3. CASE SetState(t) \/ Params(t) \/ Go(t)
  BY ONLY <1>3 DEF SetState, Params, Go, Next_
<1>4. CASE Started(t) \/ Online(t) \/ AnswerSent(t)
  BY ONLY <1>4 DEF Started, Online, AnswerSent, Next_
<1>5. CASE UpdateTiming(t) \/ ReportError(t) \/ Recovered(t)
  BY ONLY <1>5 DEF UpdateTiming, ReportError, Recovered, Next_
<1>6. CASE BusyTimeout(t)
  BY ONLY <1>6 DEF BusyTimeout
<1> QED BY ONLY Step(t), <1>1, <1>2, <1>3, <1>4, <1>5, <1>6 DEF Step

(* A step takes at most the first off its thread's sequence; but a start   *)
(* that fails leaves only the report.                                      *)
LEMMA StepMoves ==
    ASSUME TInv, NEW t \in Thread, Step(t)
    PROVE  /\ todo[t] \in Seq(Steps) /\ todo[t] # <<>> /\ \A u \in Thread \ {t} : todo'[u] = todo[u]
           /\ \/ todo'[t] = Tail(todo[t])
              \/ BusyTimeout(t) /\ todo'[t] \in {Recover \o todo[t], Recover \o Tail(todo[t])}
              \/ InitFails(t)
<1>1. todo \in [Thread -> Seq(Steps)]
  BY DEF TInv, TypeOK
<1>2. CASE BusyTimeout(t)
  BY <1>1, <1>2 DEF BusyTimeout
<1>3. CASE InitFails(t)
  BY <1>1, <1>3 DEF InitFails
<1>4. ASSUME NEW op, Next_(t, op)
      PROVE  /\ todo[t] # <<>> /\ \A u \in Thread \ {t} : todo'[u] = todo[u]
             /\ todo'[t] = Tail(todo[t])
  BY <1>1, <1>4 DEF Next_
<1>5. (\E op : Next_(t, op)) \/ BusyTimeout(t) \/ InitFails(t)
  <2>1. CASE Reset(t) \/ InitChip(t) \/ Call(t) \/ Write(t) \/ Save(t)
    BY ONLY <2>1 DEF Reset, InitChip, Call, Write, Save
  <2>2. CASE SetState(t) \/ Params(t) \/ Go(t) \/ Started(t) \/ Online(t)
    BY ONLY <2>2 DEF SetState, Params, Go, Started, Online
  <2>3. CASE AnswerSent(t) \/ UpdateTiming(t) \/ ReportError(t) \/ Recovered(t)
    BY ONLY <2>3 DEF AnswerSent, UpdateTiming, ReportError, Recovered
  <2> QED BY ONLY Step(t), <2>1, <2>2, <2>3 DEF Step
<1> QED BY <1>1, <1>2, <1>3, <1>4, <1>5

(* A step ahead stays so until it is taken, unless rnode_start gives up.   *)
LEMMA Kept ==
    ASSUME TInv, NEW t \in Thread, Step(t), NEW x, Has(todo[t], x), Head(todo[t]) # x, ~InitFails(t)
    PROVE  Has(todo'[t], x)
<1>1. todo[t] \in Seq(Steps) /\ todo[t] # <<>>
  BY StepMoves
<1>2. Has(Tail(todo[t]), x) /\ Tail(todo[t]) \in Seq(Steps) /\ Recover \in Seq(Steps)
  BY <1>1, HasTail, TailIs, RecoverIs
<1>3. Has(Recover \o todo[t], x) /\ Has(Recover \o Tail(todo[t]), x)
  BY <1>1, <1>2, HasJoin
<1> QED BY <1>2, <1>3, StepMoves

(* No start of rnode_start fails in the middle of answering the host.      *)
LEMMA NotAfterInit ==
    ASSUME TInv, NEW t \in Thread, InitFails(t), NEW p \in Param, NEW op \in {"answer", "csma"},
           Has(todo[t], <<op, p>>)
    PROVE  FALSE
<1>1. /\ todo[t] \in Seq(Steps) /\ todo[t] # <<>> /\ Shape(todo[t])
      /\ Head(todo[t]) = <<"init", "start">>
  BY DEF TInv, TypeOK, Sequences, InitFails
<1>2. << <<"init", "start">>, <<op, p>> >> \in Forbidden
  BY DEF Forbidden
<1>3. Never(todo[t], <<"init", "start">>, <<op, p>>)
  BY <1>1, <1>2 DEF Shape
<1>4. PICK i \in DOMAIN todo[t] : todo[t][i] = <<op, p>>
  BY DEF Has
<1>5. 1 \in DOMAIN todo[t] /\ todo[t][1] = <<"init", "start">> /\ i \in Nat /\ i >= 1
  BY <1>1, TailIs
<1>6. <<op, p>> # <<"init", "start">>
  OBVIOUS
<1> QED BY <1>3, <1>4, <1>5, <1>6 DEF Never

(* What a start that failed, a BUSY timeout and a reset leave to do.       *)
LEMMA FailReports ==
    ASSUME TInv, NEW t \in Thread, InitFails(t) PROVE Has(todo'[t], <<"error", "start">>)
<1>1. /\ todo[t] \in Seq(Steps) /\ todo[t] # <<>> /\ Shape(todo[t])
      /\ Head(todo[t]) = <<"init", "start">>
      /\ todo'[t] = << <<"error", "start">> >> \o AfterStart(todo[t])
  BY DEF TInv, TypeOK, Sequences, InitFails
<1> QED BY <1>1, FailSound

(* The thread that finds BUSY up is going to report it.                    *)
LEMMA BusyReports ==
    ASSUME TInv, NEW t \in Thread, BusyTimeout(t), ~recovering
    PROVE  Has(todo'[t], <<"error", "recovery">>) /\ Has(todo'[t], <<"recovered", "recovery">>)
<1>1. PICK s \in Seq(Steps) : todo'[t] = Recover \o s
  <2>1. todo[t] \in Seq(Steps) /\ Tail(todo[t]) \in Seq(Steps)
    BY StepMoves, TailIs DEF Step
  <2>2. todo'[t] \in {Recover \o todo[t], Recover \o Tail(todo[t])}
    BY DEF BusyTimeout, TInv, TypeOK
  <2> QED BY <2>1, <2>2
<1>2. Recover \in Seq(Steps) /\ Has(Recover, <<"error", "recovery">>) /\ Has(Recover, <<"recovered", "recovery">>)
  <2>1. DOMAIN Recover = 1..4 /\ 3 \in 1..4 /\ 4 \in 1..4
    BY RecoverIs
  <2> QED BY <2>1, RecoverIs DEF Has
<1> QED BY <1>1, <1>2, HasJoin

(* After a reset, every register is going to be written again, or it is    *)
(* the one of a recovery, which reports.                                   *)
LEMMA ResetLeads ==
    ASSUME TInv, NEW t \in Thread, Reset(t)
    PROVE  \/ Has(todo'[t], <<"error", "recovery">>)
           \/ \A r \in Register : Has(todo'[t], <<"write", r>>)
<1> DEFINE s == todo[t]
<1>1. s \in Seq(Steps) /\ s # <<>> /\ Shape(s) /\ todo'[t] = Tail(s) /\ Head(s)[1] = "reset"
  BY DEF TInv, TypeOK, Sequences, Reset, Next_
<1>2. 1 \in DOMAIN s /\ Head(s) = s[1] /\ s[1] \in Steps
  BY <1>1, TailIs
<1>3. s[1] \in {<<"reset", "start">>, <<"reset", "recovery">>}
  BY <1>1, <1>2 DEF Steps
<1>4. ASSUME NEW y, << s[1], y >> \in Promise, y # s[1] PROVE Has(Tail(s), y)
  <2>1. Leads(s, s[1], y)
    BY <1>1, <1>4 DEF Shape
  <2>2. Has(s, y)
    BY <1>2, <2>1 DEF Leads, Has
  <2> QED BY <1>1, <1>2, <1>4, <2>2, HasTail
<1>5. CASE s[1] = <<"reset", "recovery">>
  BY <1>1, <1>4, <1>5 DEF Promise
<1>6. CASE s[1] = <<"reset", "start">>
  BY <1>1, <1>4, <1>6 DEF Promise
<1> QED BY <1>3, <1>5, <1>6

(* What the slots were computed from is what is stored, or                 *)
(* csma_update_radio_params is still to be called.                         *)
TimingPending ==
    (\A p \in Timed : current[p] # 0) =>
        \/ timing = [p \in Timed |-> current[p]]
        \/ \E p \in Param : Has(todo["main"], <<"csma", p>>)

(* A step of a thread keeps this,                                          *)
LEMMA TimingStep ==
    ASSUME TInv, TimingPending, NEW t \in Thread, Step(t)
    PROVE  TimingPending'
<1>1. current' = current
  BY StepLeaves
<1>2. CASE UpdateTiming(t)
  BY <1>1, <1>2 DEF UpdateTiming, TimingPending
<1>3. CASE ~UpdateTiming(t)
  <2>1. timing' = timing
    BY <1>3, StepLeaves
  <2>2. ASSUME NEW p \in Param, Has(todo["main"], <<"csma", p>>)
        PROVE  Has(todo'["main"], <<"csma", p>>)
    <3>1. CASE t # "main"
      BY <2>2, <3>1, StepMoves DEF Thread
    <3>2. CASE t = "main"
      <4>1. Head(todo[t]) # <<"csma", p>>
        BY <1>3, StepTakes
      <4>2. ~InitFails(t)
        BY <2>2, <3>2, NotAfterInit
      <4> QED BY <2>2, <3>2, <4>1, <4>2, Kept, SMTT(60)
    <3> QED BY <3>1, <3>2
  <2> QED BY <1>1, <2>1, <2>2 DEF TimingPending
<1> QED BY <1>2, <1>3

(* and a command of the host does: a new SF or bandwidth comes with the    *)
(* call.                                                                   *)
LEMMA TimingNext == TInv /\ TimingPending /\ [Next]_vars => TimingPending'
<1> SUFFICES ASSUME TInv, TimingPending, [Next]_vars PROVE TimingPending'
  OBVIOUS
<1>1. CASE UNCHANGED vars
  BY <1>1 DEF vars, rnode, TimingPending
<1>2. ASSUME NEW t \in Thread, Step(t) PROVE TimingPending'
  BY <1>2, TimingStep
<1>3. ASSUME NEW p \in Param, NEW v \in Value, SetParam(p, v) PROVE TimingPending'
  <2>1. /\ todo["main"] = <<>> /\ todo'["main"] = Handler(p) /\ timing' = timing
        /\ current' = [current EXCEPT ![p] = v]
    BY <1>3 DEF SetParam, Run, TInv, TypeOK, Thread
  <2>2. CASE p \in Timed
    BY <2>1, <2>2, HandlerIs DEF TimingPending
  <2>3. CASE p \notin Timed
    <3>1. \A q \in Timed : current'[q] = current[q]
      BY <2>1, <2>3 DEF TInv, TypeOK, Timed
    <3>2. \A x : ~Has(todo["main"], x)
      BY <2>1 DEF Has
    <3> QED BY <2>1, <3>1, <3>2 DEF TimingPending
  <2> QED BY <2>2, <2>3
<1>4. ASSUME UNCHANGED <<current, timing>>, todo["main"] = <<>> \/ todo'["main"] = todo["main"]
      PROVE  TimingPending'
  <2>1. (\E p \in Param : Has(todo["main"], <<"csma", p>>)) => todo'["main"] = todo["main"]
    BY <1>4 DEF Has
  <2> QED BY <1>4, <2>1 DEF TimingPending
<1>5. ASSUME NEW p \in Param, Query(p) PROVE TimingPending'
  BY <1>4, <1>5 DEF Query, Run, rnode
<1>6. CASE RadioOn \/ RadioOff \/ ResetCommand
  BY <1>4, <1>6 DEF RadioOn, RadioOff, ResetCommand, Run, rnode
<1>7. CASE Send \/ Watchdog \/ TxDone
  <2>1. UNCHANGED <<current, timing>> /\ \E t \in {"worker", "irq"} : \E steps : Run(t, steps)
    BY <1>7 DEF Send, Watchdog, TxDone, rnode
  <2>2. todo'["main"] = todo["main"]
    BY <2>1 DEF Run, TInv, TypeOK, Thread
  <2> QED BY <1>4, <2>1, <2>2
<1> QED BY <1>1, <1>2, <1>3, <1>5, <1>6, <1>7 DEF Next, Act, Command

(* Whatever the order of the host's commands, with the radio on or off and *)
(* sx126x_begin failing or not: once ans_sf or ans_bandwidth is done, the  *)
(* slots and DIFS are those of the modulation stored.                      *)
THEOREM TimingHolds == Spec => []TimingFollows
<1>1. Init => TimingPending
  BY DEF Init, Fresh, Running, TimingPending
<1>2. TimingPending => TimingFollows
  BY DEF TimingPending, TimingFollows, Has
<1>3. TInv /\ TimingPending /\ [Next]_vars => TInv' /\ TimingPending'
  BY TypeNext, TimingNext
<1> QED BY <1>1, <1>2, <1>3, TypeInit, PTL DEF Spec

-----------------------------------------------------------------------------
(* A command of the driver is sent without waiting, for another thread is  *)
(* in the recovery at the time.                                            *)
Skipped == recovering /\ \E t \in Thread : BusyTimeout(t)

Reporting == \E t \in Thread : \E c \in {"start", "recovery"} : Has(todo[t], <<"error", c>>)
Writing(r) == \E t \in Thread : Has(todo[t], <<"write", r>>)
Starting == \E t \in Thread : Has(todo[t], <<"online", "start">>)

(* A lost register is going to be written or reported, or the radio is off *)
(* and stays so.                                                           *)
Loss ==
    \A r \in Register :
        chip[r] = Lost /\ ~error_seen => Reporting \/ Writing(r) \/ (~radio_online /\ ~Starting)

(* Steps that go on being ahead, unless they are taken.                    *)
LEMMA StillReporting ==
    ASSUME TInv, NEW t \in Thread, Step(t), Reporting, ~ReportError(t)
    PROVE  Reporting'
<1>1. PICK u \in Thread, c \in {"start", "recovery"} : Has(todo[u], <<"error", c>>)
  BY DEF Reporting
<1>2. CASE u # t
  BY <1>1, <1>2, StepMoves, SMTT(60) DEF Reporting
<1>3. CASE InitFails(t)
  <2>1. Has(todo'[t], <<"error", "start">>)
    BY <1>3, FailReports
  <2> QED BY <2>1 DEF Reporting
<1>4. CASE u = t /\ ~InitFails(t)
  <2>1. Head(todo[t]) # <<"error", c>>
    BY <1>4, StepTakes
  <2>2. Has(todo'[t], <<"error", c>>)
    BY <1>1, <1>4, <2>1, Kept
  <2> QED BY <2>2 DEF Reporting
<1> QED BY <1>2, <1>3, <1>4

(* A write that is ahead stays so, or is done, or there is a report ahead. *)
LEMMA StillWriting ==
    ASSUME TInv, NEW t \in Thread, Step(t), ~(recovering /\ BusyTimeout(t)),
           NEW r \in Register, Writing(r)
    PROVE  Reporting' \/ Writing(r)' \/ (Write(t) /\ What(t) = r)
<1>1. PICK u \in Thread : Has(todo[u], <<"write", r>>)
  BY DEF Writing
<1>2. CASE u # t
  BY <1>1, <1>2, StepMoves DEF Writing
<1>3. CASE InitFails(t)
  <2>1. Has(todo'[t], <<"error", "start">>)
    BY <1>3, FailReports
  <2> QED BY <2>1 DEF Reporting
<1>4. CASE BusyTimeout(t)
  BY <1>4, BusyReports DEF Reporting
<1>5. CASE u = t /\ ~InitFails(t) /\ ~BusyTimeout(t) /\ Head(todo[t]) # <<"write", r>>
  BY <1>1, <1>5, Kept DEF Writing
<1>6. CASE u = t /\ ~InitFails(t) /\ ~BusyTimeout(t) /\ Head(todo[t]) = <<"write", r>>
  BY <1>6, StepTakes DEF What
<1> QED BY <1>2, <1>3, <1>4, <1>5, <1>6

(* rnode_start writes every register, and saves the packet parameters.     *)
LEMMA StartWrites ==
    ASSUME NEW s, s \in {Start, Start \o << <<"online", "start">> >>}, NEW r \in Register
    PROVE  Has(s, <<"write", r>>) /\ Has(s, <<"save", "packet">>)
<1>1. StartAt(s) /\ DOMAIN s \in {1..17, 1..18}
  <2>1. s \in Seq(Steps) /\ StartAt(s) /\ (Len(s) = 17 \/ Len(s) = 18)
    BY StartIs, StartOnlineIs
  <2> QED BY <2>1
<1>2. /\ 4 \in DOMAIN s /\ 6 \in DOMAIN s /\ 8 \in DOMAIN s /\ 10 \in DOMAIN s /\ 11 \in DOMAIN s
      /\ 13 \in DOMAIN s
  BY <1>1
<1>3. /\ s[4] = <<"write", "freq">> /\ s[6] = <<"write", "power">> /\ s[8] = <<"write", "modulation">>
      /\ s[10] = <<"write", "packet">> /\ s[13] = <<"write", "sync">> /\ s[11] = <<"save", "packet">>
  BY <1>1 DEF StartAt
<1> QED BY ONLY <1>2, <1>3, r \in Register DEF Register, Has

(* Only a command of the host makes a thread go online.                    *)
LEMMA StartingStays ==
    ASSUME TInv, NEW t \in Thread, Step(t), ~InitFails(t), Starting' PROVE Starting
<1> DEFINE on == <<"online", "start">>
<1>1. PICK u \in Thread : Has(todo'[u], on)
  BY DEF Starting
<1>2. CASE u # t
  BY <1>1, <1>2, StepMoves DEF Starting
<1>3. CASE u = t
  <2>1. todo[t] \in Seq(Steps) /\ todo[t] # <<>> /\ Tail(todo[t]) \in Seq(Steps) /\ Recover \in Seq(Steps)
    BY StepMoves, TailIs, RecoverIs
  <2>2. ~Has(Recover, on)
    BY RecoverIs DEF Has
  <2>3. Has(Recover \o todo[t], on) \/ Has(Recover \o Tail(todo[t]), on) \/ Has(Tail(todo[t]), on)
    BY <1>1, <1>3, StepMoves
  <2>4. \A v \in Seq(Steps) : Has(Recover \o v, on) => Has(v, on)
    BY <2>1, <2>2, HasJoin
  <2>5. Has(Tail(todo[t]), on) => Has(todo[t], on)
    BY <2>1, HasTail
  <2>6. Has(todo[t], on)
    BY <2>1, <2>3, <2>4, <2>5
  <2> QED BY <2>6 DEF Starting
<1> QED BY <1>2, <1>3

(* A lost register stays promised to be written or reported by each step   *)
(* of a thread,                                                            *)
LEMMA LossStep ==
    ASSUME TInv, Loss, NEW t \in Thread, Step(t), ~Skipped
    PROVE  Loss'
<1> SUFFICES ASSUME NEW r \in Register, chip'[r] = Lost, ~error_seen',
                    radio_online' \/ Starting'
             PROVE  Reporting' \/ Writing(r)'
  BY DEF Loss
<1>1. ~ReportError(t) /\ ~error_seen
  BY StepLeaves DEF ReportError
<1>2. CASE Reset(t)
  BY <1>2, ResetLeads DEF Reporting, Writing
<1>3. CASE InitFails(t)
  BY <1>3, FailReports DEF Reporting
<1>4. CASE ~Reset(t) /\ ~InitFails(t)
  <2>1. chip[r] = Lost /\ ~(Write(t) /\ What(t) = r)
    <3>1. Lost \notin Content(r)
      BY SetupAssumption DEF Content, In
    <3>2. CASE Write(t)
      <4>1. What(t) = r => chip'[r] = arg[t] /\ arg[t] \in Content(r)
        BY <3>2, Filled, KindOf, ZenonT(60) DEF Write, Next_, What, TInv, TypeOK
      <4>2. What(t) # r => chip'[r] = chip[r]
        BY <3>2 DEF Write, TInv, TypeOK
      <4> QED BY <3>1, <4>1, <4>2
    <3>3. CASE Params(t)
      <4>1. r = "packet" => chip'[r] = saved /\ saved \in Content(r)
        BY <3>3 DEF Params, TInv, TypeOK
      <4>2. r # "packet" => chip'[r] = chip[r]
        BY <3>3 DEF Params, TInv, TypeOK
      <4>3. ~Write(t)
        BY <3>3 DEF Params, Write, Next_
      <4> QED BY <3>1, <4>1, <4>2, <4>3
    <3>4. CASE ~Write(t) /\ ~Params(t)
      BY <1>4, <3>4, StepLeaves
    <3> QED BY <3>2, <3>3, <3>4
  <2>2. radio_online \/ Starting
    <3>1. CASE Starting'
      BY <1>4, <3>1, StartingStays
    <3>2. CASE Online(t)
      <4>1. Head(todo[t]) = <<"online", "start">> /\ todo[t] \in Seq(Steps) /\ todo[t] # <<>>
        BY <3>2, Filled, KindOf DEF Online, Next_, TInv, TypeOK
      <4> QED BY <4>1, HasTail DEF Starting
    <3>3. CASE ~Online(t) /\ radio_online'
      BY <3>3, StepLeaves
    <3> QED BY <3>1, <3>2, <3>3
  <2> QED BY <1>1, <2>1, <2>2, StillReporting, StillWriting DEF Loss, Skipped
<1> QED BY <1>2, <1>3, <1>4

(* Only switching the radio on goes online at its end.                     *)
LEMMA NoOnline == \A s \in {Start, Receive, Transmit} : ~Has(s, <<"online", "start">>)
<1>1. ~Has(Start, <<"online", "start">>)
  <2>1. DOMAIN Start = 1..17 /\ \A i \in 1..17 : StartStep(Start, i)
    BY StartIs, StartSteps
  <2> QED BY <2>1 DEF Has, StartStep
<1>2. ~Has(Receive, <<"online", "start">>) /\ ~Has(Transmit, <<"online", "start">>)
  <2>1. \A i \in 1..3 : i = 1 \/ i = 2 \/ i = 3
    OBVIOUS
  <2> QED BY <2>1 DEF Receive, Transmit, Has
<1> QED BY <1>1, <1>2

(* and by every other step.                                                *)
LEMMA LossNext == TInv /\ Loss /\ [Next]_vars /\ [~Skipped]_vars => Loss'
<1> SUFFICES ASSUME TInv, Loss, [Next]_vars, [~Skipped]_vars PROVE Loss'
  OBVIOUS
<1>1. CASE UNCHANGED vars
  BY <1>1 DEF vars, rnode, device, host, Loss, Reporting, Writing, Starting
<1>2. ASSUME NEW t \in Thread, Step(t), ~Skipped PROVE Loss'
  BY <1>2, LossStep
<1>3. ASSUME NEW t \in Thread, NEW s \in Seq(Steps), Run(t, s), ~Has(s, <<"online", "start">>),
             UNCHANGED <<chip, error_seen, radio_online>>
      PROVE  Loss'
  <2>1. todo[t] = <<>> /\ todo'[t] = s /\ \A u \in Thread \ {t} : todo'[u] = todo[u]
    BY <1>3 DEF Run, TInv, TypeOK
  <2>2. \A x : ~Has(todo[t], x)
    BY <2>1 DEF Has
  <2> QED BY <1>3, <2>1, <2>2 DEF Loss, Reporting, Writing, Starting
<1>4. ASSUME NEW p \in Param, NEW s \in {Handler(p), Answer(p)} PROVE ~Has(s, <<"online", "start">>)
  <2>1. Plain(s)
    BY <1>4, HandlerIs, PiecesSimple DEF Simple
  <2> QED BY <2>1 DEF Plain, Has
<1>5. \A s \in {Start, Receive, Transmit} : ~Has(s, <<"online", "start">>)
  BY NoOnline
<1>6. ASSUME NEW p \in Param, NEW v \in Value, SetParam(p, v) PROVE Loss'
  BY <1>3, <1>4, <1>6, OthersSound DEF SetParam, rnode, device, host, Thread
<1>7. ASSUME NEW p \in Param, Query(p) PROVE Loss'
  BY <1>3, <1>4, <1>7, OthersSound DEF Query, rnode, device, host, Thread
<1>8. CASE RadioOn
  <2>1. todo' = [todo EXCEPT !["main"] = Start \o << <<"online", "start">> >>] /\ "main" \in Thread
    BY <1>8 DEF RadioOn, Run, Thread
  <2>2. \A r \in Register : Has(Start \o << <<"online", "start">> >>, <<"write", r>>)
    BY StartWrites
  <2> QED BY <2>1, <2>2 DEF Loss, Writing, TInv, TypeOK
<1>9. CASE RadioOff
  BY <1>9 DEF RadioOff, device, host, Loss, Reporting, Writing, Starting
<1>10. CASE ResetCommand
  BY <1>3, <1>5, <1>10, StartsSound DEF ResetCommand, rnode, device, host, Thread
<1>11. CASE Send \/ Watchdog \/ TxDone
  <2>1. Start \in Seq(Steps) /\ Receive \in Seq(Steps) /\ Transmit \in Seq(Steps)
    BY StartsSound, OthersSound
  <2>2. PICK t \in Thread, q \in {Start, Receive, Transmit} : Run(t, q)
    BY <1>11 DEF Send, Watchdog, TxDone, Thread
  <2>3. UNCHANGED <<chip, error_seen, radio_online>>
    BY <1>11 DEF Send, Watchdog, TxDone, rnode, device, host
  <2> QED BY <1>3, <1>5, <2>1, <2>2, <2>3
<1> QED BY <1>1, <1>2, <1>6, <1>7, <1>8, <1>9, <1>10, <1>11 DEF Next, Act, Command

(* In any number of BUSY timeouts, failed and restarted transmissions, as  *)
(* long as none comes in the middle of another thread's recovery: a        *)
(* register that a reset has cleared is set again before the radio is on   *)
(* and the threads are done, or the host has been sent CMD_ERROR.          *)
THEOREM LossReportedHolds == Spec /\ [][~Skipped]_vars => []LossReported
<1>1. Init => Loss
  <2> SUFFICES ASSUME Init PROVE Loss
    OBVIOUS
  <2>1. CASE Fresh
    BY <2>1 DEF Init, Fresh, Loss, Starting, Has
  <2>2. CASE Running
    <3>1. TypeOK /\ chip = [r \in Register |-> Stored(r)]
      BY <2>2, TypeInit DEF TInv, Running
    <3>2. ASSUME NEW r \in Register PROVE chip[r] # Lost
      <4>1. chip[r] \in [In(r) -> Nat]
        <5>1. chip[r] = [p \in In(r) |-> current[p]]
          BY <3>1 DEF Stored
        <5>2. \A p \in In(r) : current[p] \in Nat
          BY <3>1 DEF TypeOK, In
        <5> QED BY <5>1, <5>2
      <4> QED BY <4>1, SetupAssumption DEF In
    <3> QED BY <3>2 DEF Loss
  <2> QED BY <2>1, <2>2 DEF Init
<1>2. TInv /\ Loss => LossReported
  BY DEF Loss, LossReported, Quiet, Reporting, Writing, Has
<1> QED BY <1>1, <1>2, TypeInit, TypeNext, LossNext, PTL DEF Spec

-----------------------------------------------------------------------------
(* A step that waits for its argument has it, or it is about to be read    *)
(* from what the host has stored.                                          *)
Of(c, r) == [p \in In(r) |-> c[p]]
Sure(s, a, c) ==
    \A i \in DOMAIN s, r \in Register :
        s[i] = <<"write", r>> \/ (s[i] = <<"save", "packet">> /\ r = "packet") =>
            a = Of(c, r) \/ \E j \in DOMAIN s : j < i /\ s[j] = <<"call", r>>

(* A routine that reads what it writes needs no argument.                  *)
LEMMA SureSolid == ASSUME NEW s \in Seq(Steps), Solid(s), NEW a, NEW c PROVE Sure(s, a, c)
<1> SUFFICES ASSUME NEW i \in DOMAIN s, NEW r \in Register,
                    s[i] = <<"write", r>> \/ (s[i] = <<"save", "packet">> /\ r = "packet")
             PROVE  \E j \in DOMAIN s : j < i /\ s[j] = <<"call", r>>
  BY DEF Sure
<1>1. \A k \in DOMAIN s : k \in Nat \ {0} /\ (k > 1 => k - 1 \in DOMAIN s /\ k - 1 < k)
  OBVIOUS
<1>2. ASSUME NEW k \in DOMAIN s, s[k] = <<"write", r>> PROVE k > 1 /\ s[k - 1] = <<"call", r>>
  BY <1>2 DEF Solid, Before
<1>3. CASE s[i] = <<"write", r>>
  BY <1>1, <1>2, <1>3
<1>4. CASE s[i] = <<"save", "packet">> /\ r = "packet"
  <2>1. i > 1 /\ s[i - 1] = <<"write", "packet">>
    BY <1>4 DEF Solid, Before
  <2>2. i - 1 \in DOMAIN s /\ i - 1 > 1 /\ s[(i - 1) - 1] = <<"call", r>>
    BY <1>1, <1>2, <1>4, <2>1
  <2>3. (i - 1) - 1 \in DOMAIN s /\ (i - 1) - 1 < i
    BY <1>1, <2>1, <2>2
  <2> QED BY <2>2, <2>3
<1> QED BY <1>3, <1>4

(* The first step is taken; only a call reads an argument.                 *)
LEMMA SureTail ==
    ASSUME NEW s \in Seq(Steps), s # <<>>, NEW a, NEW b, NEW c, Ready(s, a), Sure(s, a, c),
           Head(s) \in Recovering \/ Head(s) = <<"write", "packet">> => b = a,
           \A r \in Register : Head(s) = <<"call", r>> => b = Of(c, r)
    PROVE  Sure(Tail(s), b, c)
<1> DEFINE u == Tail(s)
<1> SUFFICES ASSUME NEW i \in DOMAIN u, NEW r \in Register,
                    u[i] = <<"write", r>> \/ (u[i] = <<"save", "packet">> /\ r = "packet"), b # Of(c, r)
             PROVE  \E j \in DOMAIN u : j < i /\ u[j] = <<"call", r>>
  BY DEF Sure
<1>1. /\ u[i] = s[i + 1] /\ i + 1 \in DOMAIN s /\ i \in Nat \ {0} /\ Head(s) = s[1]
      /\ \A j \in DOMAIN s : j \in Nat \ {0} /\ (j # 1 => j - 1 \in DOMAIN u /\ u[j - 1] = s[j])
  BY TailIs
<1>2. ASSUME NEW j \in DOMAIN s, j < i + 1, s[j] = <<"call", r>>
      PROVE  \E k \in DOMAIN u : k < i /\ u[k] = <<"call", r>>
  <2>1. j # 1
    BY <1>1, <1>2
  <2>2. j - 1 \in DOMAIN u /\ u[j - 1] = <<"call", r>> /\ j - 1 < i
    BY <1>1, <1>2, <2>1
  <2> QED BY <2>2
<1>3. CASE a = Of(c, r)
  <2>1. Head(s) \notin Recovering /\ Head(s) # <<"write", "packet">>
    BY <1>3
  <2>2. ASSUME NEW k \in DOMAIN s, k # 1 PROVE ~Holds(s, k, a, r)
    BY <1>1, <2>1, <2>2 DEF Holds
  <2>3. ASSUME NEW k \in DOMAIN s, k # 1, s[k] = <<"write", r>>
        PROVE  k - 1 \in DOMAIN s /\ s[k - 1] = <<"call", r>> /\ k - 1 < k
    BY <2>2, <2>3 DEF Ready, Before
  <2>4. CASE u[i] = <<"write", r>>
    <3>1. (i + 1) - 1 \in DOMAIN s /\ s[(i + 1) - 1] = <<"call", r>> /\ (i + 1) - 1 < i + 1
      BY <1>1, <2>3, <2>4
    <3> QED BY <1>2, <3>1
  <2>5. CASE u[i] = <<"save", "packet">> /\ r = "packet"
    <3>1. Before(s, i + 1, <<"write", "packet">>)
      BY <1>1, <2>2, <2>5 DEF Ready
    <3>2. s[i] = <<"write", "packet">> /\ i \in DOMAIN s
      BY <1>1, <3>1 DEF Before
    <3>3. i # 1
      BY <1>1, <2>1, <3>2
    <3>4. i - 1 \in DOMAIN s /\ s[i - 1] = <<"call", r>> /\ i - 1 < i + 1
      BY <1>1, <2>3, <2>5, <3>2, <3>3
    <3> QED BY <1>2, <3>4
  <2> QED BY <2>4, <2>5
<1>4. CASE a # Of(c, r)
  BY <1>1, <1>2, <1>4 DEF Sure
<1> QED BY <1>3, <1>4

-----------------------------------------------------------------------------
(* While nothing has gone wrong: what the host's parameters are, the chip  *)
(* holds or is about to be set to.                                         *)
Faithful == ~overlap /\ ~error_seen /\ ~Reporting /\ (radio_online \/ Starting)
AllSet ==
    /\ \A t \in Thread : Sure(todo[t], arg[t], current)
    /\ \A r \in Register : chip[r] = Of(current, r) \/ Writing(r)
    /\ saved = Of(current, "packet") \/ Has(todo["main"], <<"save", "packet">>)

Answered == \A p \in Param : told[p] \in {Untold, current[p]} \/ Has(todo["main"], <<"answer", p>>)
Resuming == recovering => \E t \in Thread : Has(todo[t], <<"recovered", "recovery">>)
Honest == recovering /\ ~overlap => Reporting \/ error_seen
Alone == ~overlap => todo["main"] = <<>> \/ (todo["worker"] = <<>> /\ todo["irq"] = <<>>)
Small == \A p \in Param : current[p] \in Value \cup {0}

Knows == (Faithful => AllSet) /\ Answered /\ Resuming /\ Honest /\ Alone /\ Small

(* Preamble lengths and powers that the driver's types and limits let by.  *)
Fits == \A v \in Value : v < ByteMod /\ v =< MaxPower

(* While there is no overlap, the host and the others take turns.          *)
LEMMA WatchAlone == ASSUME TInv', Watch PROVE Alone'
  BY DEF Watch, Alone, TInv, TypeOK

(* Only a restart of the host's begins a new record.                       *)
LEMMA NewRecord ==
    ASSUME TInv, TInv', Act, Watch, overlap, ~overlap'
    PROVE  /\ RadioOn \/ ResetCommand
           /\ todo["main"] = <<>> /\ todo["worker"] = <<>> /\ todo["irq"] = <<>>
<1>1. /\ todo["main"] = <<>> /\ todo'["main"] # <<>> /\ Head(todo'["main"])[1] = "reset"
      /\ todo'["worker"] = <<>> /\ todo'["irq"] = <<>>
  BY DEF Watch
<1>2. ASSUME NEW t \in Thread, Step(t) PROVE FALSE
  BY <1>1, <1>2, StepMoves DEF Thread
<1>3. ASSUME NEW t \in {"worker", "irq"}, NEW s, Run(t, s) PROVE FALSE
  BY <1>1, <1>3 DEF Run, TInv, TypeOK, Thread
<1>4. ASSUME NEW s, Run("main", s)
      PROVE  todo'["main"] = s /\ todo["worker"] = <<>> /\ todo["irq"] = <<>>
  BY <1>1, <1>4 DEF Run, TInv, TypeOK, Thread
<1>5. ASSUME NEW s, Run("main", s), Simple(s) PROVE FALSE
  <2>1. s \in Seq(Steps) /\ s # <<>> /\ Plain(s) /\ Head(s)[1] = "reset"
    BY <1>1, <1>4, <1>5 DEF Simple
  <2> QED BY <2>1, TailIs DEF Plain
<1>6. \A p \in Param : ~Query(p) /\ \A v \in Value : ~SetParam(p, v)
  BY <1>5, HandlerIs, PiecesSimple DEF Query, SetParam
<1>7. ~RadioOff /\ ~Send /\ ~Watchdog /\ ~TxDone
  BY <1>1, <1>3 DEF RadioOff, Send, Watchdog, TxDone
<1>8. RadioOn \/ ResetCommand
  BY <1>2, <1>6, <1>7 DEF Act, Command
<1> QED BY <1>1, <1>4, <1>8 DEF RadioOn, ResetCommand

(* A thread begins: nothing that was ahead is taken.                       *)
LEMMA RunKeeps ==
    ASSUME TInv, NEW t \in Thread, NEW s, Run(t, s)
    PROVE  /\ todo[t] = <<>> /\ todo'[t] = s /\ \A u \in Thread \ {t} : todo'[u] = todo[u]
           /\ \A u \in Thread : \A x : Has(todo[u], x) => Has(todo'[u], x)
<1>1. todo[t] = <<>> /\ todo'[t] = s /\ \A u \in Thread \ {t} : todo'[u] = todo[u]
  BY DEF Run, TInv, TypeOK
<1> QED BY <1>1 DEF Has

(* Who is recovering goes on to the end of it.                             *)
LEMMA ResumingStep == ASSUME TInv, Resuming, NEW t \in Thread, Step(t) PROVE Resuming'
<1> DEFINE last == <<"recovered", "recovery">>
<1> SUFFICES ASSUME recovering' PROVE \E u \in Thread : Has(todo'[u], last)
  BY DEF Resuming
<1>1. CASE BusyTimeout(t) /\ ~recovering
  BY <1>1, BusyReports
<1>2. CASE ~(BusyTimeout(t) /\ ~recovering)
  <2>1. recovering /\ ~Recovered(t)
    BY <1>2, StepLeaves DEF Recovered
  <2>2. PICK u \in Thread : Has(todo[u], last)
    BY <2>1 DEF Resuming
  <2>3. CASE u # t
    BY <2>2, <2>3, StepMoves
  <2>4. CASE u = t
    <3>1. Head(todo[t]) # last
      BY <2>1, StepTakes
    <3>2. ~InitFails(t)
      <4> SUFFICES ASSUME InitFails(t) PROVE FALSE
        OBVIOUS
      <4>1. /\ todo[t] \in Seq(Steps) /\ todo[t] # <<>> /\ Shape(todo[t])
            /\ Head(todo[t]) = <<"init", "start">>
        BY DEF TInv, TypeOK, Sequences, InitFails
      <4>5. << <<"init", "start">>, last >> \in Forbidden
        BY DEF Forbidden
      <4>2. Never(todo[t], <<"init", "start">>, last)
        BY <4>1, <4>5 DEF Shape
      <4>3. PICK i \in DOMAIN todo[t] : todo[t][i] = last
        BY <2>2, <2>4 DEF Has
      <4>4. 1 \in DOMAIN todo[t] /\ todo[t][1] = <<"init", "start">> /\ i \in Nat /\ i >= 1
        BY <4>1, TailIs
      <4> QED BY <4>2, <4>3, <4>4 DEF Never
    <3> QED BY <2>2, <2>4, <3>1, <3>2, Kept
  <2> QED BY <2>3, <2>4
<1> QED BY <1>1, <1>2

(* What is reported, and what the host has been told.                      *)
LEMMA HonestStep == ASSUME TInv, Honest, NEW t \in Thread, Step(t), Watch PROVE Honest'
<1> SUFFICES ASSUME recovering', ~overlap' PROVE Reporting' \/ error_seen'
  BY DEF Honest
<1>1. ~overlap
  <2>1. todo[t] # <<>> /\ (t # "main" => todo'["main"] = todo["main"])
    BY StepMoves DEF Thread
  <2> QED BY <2>1 DEF Watch
<1>2. CASE BusyTimeout(t) /\ ~recovering
  BY <1>2, BusyReports DEF Reporting
<1>3. CASE ReportError(t)
  BY <1>3 DEF ReportError
<1>4. CASE ~(BusyTimeout(t) /\ ~recovering) /\ ~ReportError(t)
  <2>1. recovering /\ error_seen' = error_seen
    BY <1>4, StepLeaves DEF Recovered
  <2> QED BY <1>1, <1>4, <2>1, StillReporting, SMTT(60) DEF Honest
<1> QED BY <1>2, <1>3, <1>4

(* An answer gives the value that is stored.                               *)
LEMMA AnsweredStep == ASSUME TInv, Answered, NEW t \in Thread, Step(t) PROVE Answered'
<1> SUFFICES ASSUME NEW p \in Param, told'[p] \notin {Untold, current'[p]}
             PROVE  Has(todo'["main"], <<"answer", p>>)
  BY DEF Answered
<1> DEFINE x == <<"answer", p>>
<1>1. current' = current
  BY StepLeaves
<1>2. CASE AnswerSent(t)
  <2>1. told' = [told EXCEPT ![What(t)] = current[What(t)]] /\ What(t) # p
    BY <1>1, <1>2 DEF AnswerSent, TInv, TypeOK
  <2>2. told'[p] = told[p]
    BY <2>1 DEF TInv, TypeOK
  <2>3. Has(todo["main"], x)
    BY <1>1, <2>2 DEF Answered
  <2>4. Head(todo[t]) # x /\ ~InitFails(t)
    BY <1>2, <2>1 DEF AnswerSent, What, Next_, InitFails
  <2> QED BY <2>3, <2>4, Kept, StepMoves DEF Thread
<1>3. CASE ~AnswerSent(t)
  <2>1. told' = told /\ Head(todo[t]) # x
    BY <1>3, StepLeaves, StepTakes
  <2>2. Has(todo["main"], x)
    BY <1>1, <2>1 DEF Answered
  <2>3. CASE t = "main"
    BY <2>1, <2>2, <2>3, NotAfterInit, Kept
  <2>4. CASE t # "main"
    BY <2>2, <2>4, StepMoves DEF Thread
  <2> QED BY <2>3, <2>4, SMTT(60)
<1> QED BY <1>2, <1>3

(* As long as nothing has gone wrong, it had not before.                   *)
LEMMA FaithfulStep ==
    ASSUME TInv, Honest, NEW t \in Thread, Step(t), Watch, Faithful'
    PROVE  /\ Faithful /\ ~InitFails(t) /\ ~BusyTimeout(t) /\ ~ReportError(t)
           /\ ~Has(todo'[t], <<"error", "recovery">>)
<1>1. ~overlap
  <2>1. todo[t] # <<>> /\ (t # "main" => todo'["main"] = todo["main"])
    BY StepMoves DEF Thread
  <2> QED BY <2>1 DEF Watch, Faithful
<1>2. ~ReportError(t) /\ ~error_seen
  BY StepLeaves DEF ReportError, Faithful
<1>3. ~Reporting
  BY <1>2, StillReporting DEF Faithful
<1>4. ~InitFails(t) /\ ~Has(todo'[t], <<"error", "recovery">>)
  BY FailReports DEF Faithful, Reporting
<1>5. ~BusyTimeout(t)
  <2>1. recovering => ~BusyTimeout(t)
    BY <1>1, <1>2, <1>3 DEF Honest
  <2>2. ~recovering => ~BusyTimeout(t)
    BY <1>4, BusyReports
  <2> QED BY <2>1, <2>2
<1>6. radio_online \/ Starting
  <2>1. CASE Starting'
    BY <1>4, <2>1, StartingStays
  <2>2. CASE Online(t)
    <3>1. Head(todo[t]) = <<"online", "start">> /\ todo[t] \in Seq(Steps) /\ todo[t] # <<>>
      BY <2>2, Filled, KindOf DEF Online, Next_, TInv, TypeOK
    <3> QED BY <3>1, HasTail DEF Starting
  <2>3. CASE ~Online(t) /\ radio_online'
    BY <2>3, StepLeaves
  <2> QED BY <2>1, <2>2, <2>3 DEF Faithful
<1> QED BY <1>1, <1>2, <1>3, <1>4, <1>5, <1>6 DEF Faithful

(* A value that fits goes through the driver unchanged.                    *)
LEMMA NarrowFits == ASSUME Fits, Small, NEW p \in Param PROVE Narrow(p, current[p]) = current[p]
<1>1. current[p] \in Nat /\ current[p] < ByteMod /\ current[p] =< MaxPower
  <2>1. current[p] \in Value \/ current[p] = 0
    BY DEF Small
  <2>2. current[p] \in Value => current[p] < ByteMod /\ current[p] =< MaxPower
    BY DEF Fits
  <2>3. \A v \in Value : v \in Nat
    BY SetupAssumption
  <2>4. 0 < ByteMod /\ 0 =< MaxPower
    BY SetupAssumption
  <2> QED BY <2>1, <2>2, <2>3, <2>4
<1>2. current[p] % ByteMod = current[p]
  BY <1>1, SetupAssumption
<1> QED BY <1>1, <1>2, SetupAssumption DEF Narrow

(* A step goes on setting the chip to what the host has stored.            *)
LEMMA SetStep ==
    ASSUME TInv, Fits, Small, Alone, Faithful, AllSet, NEW t \in Thread, Step(t), Faithful',
           ~InitFails(t), ~BusyTimeout(t), ~Has(todo'[t], <<"error", "recovery">>)
    PROVE  AllSet'
<1> DEFINE s == todo[t]
           save == <<"save", "packet">>
<1>1. /\ s \in Seq(Steps) /\ s # <<>> /\ Ready(s, arg[t]) /\ Shape(s) /\ Sure(s, arg[t], current)
      /\ todo'[t] = Tail(s) /\ \A u \in Thread \ {t} : todo'[u] = todo[u]
      /\ 1 \in DOMAIN s /\ Head(s) = s[1] /\ s[1] \in Steps
  <2>1. s \in Seq(Steps) /\ s # <<>> /\ todo'[t] = Tail(s) /\ \A u \in Thread \ {t} : todo'[u] = todo[u]
    BY StepMoves, SMTT(60)
  <2> QED BY <2>1, TailIs DEF TInv, Sequences, AllSet
<1>2. current' = current
  BY StepLeaves
<1>3. /\ \A r \in Register : s[1] = <<"write", r>> => arg[t] = Of(current, r)
      /\ s[1] = save => arg[t] = Of(current, "packet")
  <2>1. ASSUME NEW r \in Register, s[1] = <<"write", r>> \/ (s[1] = save /\ r = "packet")
        PROVE  arg[t] = Of(current, r)
    <3>1. ~ \E j \in DOMAIN s : j < 1 /\ s[j] = <<"call", r>>
      <4>1. \A j \in DOMAIN s : j \in Nat \ {0}
        BY <1>1
      <4> QED BY <4>1
    <3> QED BY <1>1, <2>1, <3>1 DEF Sure
  <2> QED BY <2>1 DEF Register
<1>4. Sure(todo'[t], arg'[t], current)
  <2>1. ASSUME s[1] \in Recovering \/ s[1] = <<"write", "packet">> PROVE arg'[t] = arg[t]
    <3>1. ~Call(t) /\ ~Save(t) /\ (Write(t) => What(t) = "packet")
      BY <1>1, <2>1 DEF Call, Save, Write, Next_, What, Recovering
    <3>2. Write(t) => arg' = arg
      BY <3>1 DEF Write
    <3> QED BY <3>1, <3>2, StepLeaves
  <2>2. ASSUME NEW r \in Register, s[1] = <<"call", r>> PROVE arg'[t] = Of(current, r)
    <3>1. Call(t) /\ What(t) = r
      <4>1. Head(todo[t]) = <<"call", r>> /\ Head(todo[t])[1] = "call"
        BY <1>1, <2>2
      <4> QED BY <4>1, StepTakes DEF What
    <3>2. arg'[t] = [p \in In(r) |-> Narrow(p, current[p])]
      BY <3>1 DEF Call, TInv, TypeOK
    <3>3. \A p \in In(r) : Narrow(p, current[p]) = current[p]
      BY NarrowFits DEF In
    <3> QED BY <3>2, <3>3, SMTT(60) DEF Of
  <2> QED BY <1>1, <2>1, <2>2, SureTail, SMTT(60)
<1>5. ASSUME NEW u \in Thread PROVE Sure(todo'[u], arg'[u], current)
  <2>1. CASE u = t
    BY <1>4, <2>1
  <2>2. CASE u # t
    <3>1. arg'[u] = arg[u]
      <4>1. arg' = arg \/ \E a : arg' = [arg EXCEPT ![t] = a]
        BY StepLeaves DEF Call, Write, Save
      <4> QED BY <2>2, <4>1 DEF TInv, TypeOK
    <3> QED BY <1>1, <2>2, <3>1 DEF AllSet
  <2> QED BY <2>1, <2>2
<1>6. ASSUME NEW r \in Register PROVE chip'[r] = Of(current, r) \/ Writing(r)'
  <2>1. CASE Reset(t)
    BY <2>1, ResetLeads DEF Writing
  <2>2. CASE Write(t) /\ What(t) = r
    <3>1. s[1] = <<"write", r>>
      BY <1>1, <2>2, KindOf DEF Write, Next_, What
    <3>2. chip'[r] = arg[t]
      BY <2>2 DEF Write, TInv, TypeOK
    <3> QED BY <1>3, <3>1, <3>2
  <2>3. CASE ~Reset(t) /\ ~(Write(t) /\ What(t) = r) /\ ~(Params(t) /\ r = "packet")
    <3>1. chip'[r] = chip[r]
      <4>1. CASE Write(t)
        BY <2>3, <4>1 DEF Write, TInv, TypeOK
      <4>2. CASE Params(t)
        BY <2>3, <4>2 DEF Params, TInv, TypeOK
      <4> QED BY <2>3, <4>1, <4>2, StepLeaves
    <3>2. Writing(r) => Writing(r)'
      BY <2>3, StillWriting DEF Faithful
    <3> QED BY <3>1, <3>2, SMTT(60) DEF AllSet
  <2>4. CASE Params(t) /\ r = "packet"
    <3>1. chip'[r] = saved /\ s[1] = <<"params", "packet">>
      <4>1. s[1][1] = "params"
        BY <1>1, <2>4 DEF Params, Next_
      <4> QED BY <1>1, <2>4, <4>1 DEF Params, TInv, TypeOK, Steps
    <3>2. ~Has(todo["main"], save)
      <4> SUFFICES ASSUME Has(todo["main"], save) PROVE FALSE
        OBVIOUS
      <4>1. todo["main"] # <<>>
        BY DEF Has
      <4>2. t = "main"
        BY <1>1, <4>1 DEF Alone, Faithful, Thread
      <4>3. Never(s, s[1], save)
        <5>1. << s[1], save >> \in Forbidden
          BY <3>1 DEF Forbidden
        <5> QED BY <1>1, <5>1 DEF Shape
      <4>4. PICK i \in DOMAIN s : s[i] = save
        BY <4>2 DEF Has
      <4>5. i \in Nat /\ i >= 1
        BY <1>1
      <4> QED BY <1>1, <3>1, <4>3, <4>4, <4>5 DEF Never
    <3> QED BY <2>4, <3>1, <3>2 DEF AllSet
  <2> QED BY <2>1, <2>2, <2>3, <2>4
<1>7. saved' = Of(current, "packet") \/ Has(todo'["main"], save)
  <2>1. CASE Save(t)
    <3>1. s[1] = save /\ saved' = arg[t]
      BY <1>1, <2>1, KindOf DEF Save, Next_
    <3> QED BY <1>3, <3>1
  <2>2. CASE ~Save(t)
    <3>1. saved' = saved /\ Head(s) # save
      BY <2>2, StepLeaves, StepTakes
    <3>2. ASSUME Has(todo["main"], save) PROVE Has(todo'["main"], save)
      BY <1>1, <3>1, <3>2, Kept DEF Thread
    <3> QED BY <3>1, <3>2, SMTT(60) DEF AllSet
  <2> QED BY <2>1, <2>2
<1> QED BY <1>2, <1>5, <1>6, <1>7 DEF AllSet

(* Each step of a thread keeps all of this,                                *)
LEMMA KnowsStep == ASSUME TInv, Fits, Knows, NEW t \in Thread, Step(t), Watch, TInv' PROVE Knows'
<1>1. Faithful' => AllSet'
  BY FaithfulStep, SetStep DEF Knows
<1>2. Small'
  <2>1. current' = current
    BY StepLeaves
  <2> QED BY <2>1 DEF Knows, Small
<1> QED BY <1>1, <1>2, AnsweredStep, ResumingStep, HonestStep, WatchAlone DEF Knows

(* The threads that begin something, and a command that changes nothing.   *)
LEMMA KnowsRun ==
    ASSUME TInv, Knows, NEW t \in Thread, NEW s \in Seq(Steps), Run(t, s), Solid(s),
           ~Has(s, <<"online", "start">>), overlap => overlap',
           UNCHANGED <<rnode, chip, driver, arg, host>>, Alone'
    PROVE  Knows'
<1>1. /\ todo[t] = <<>> /\ todo'[t] = s /\ \A u \in Thread \ {t} : todo'[u] = todo[u]
      /\ \A u \in Thread : \A x : Has(todo[u], x) => Has(todo'[u], x)
  BY RunKeeps
<1>2. UNCHANGED <<current, radio_online, chip, saved, recovering, arg, told, error_seen>>
  BY DEF rnode, driver, host
<1>3. /\ Reporting => Reporting' /\ \A r \in Register : Writing(r) => Writing(r)'
      /\ Starting' => Starting
  BY <1>1 DEF Reporting, Writing, Starting
<1>4. ASSUME Faithful' PROVE AllSet'
  <2>1. Faithful
    BY <1>2, <1>3, <1>4 DEF Faithful
  <2>2. \A u \in Thread : Sure(todo'[u], arg'[u], current)
    BY <1>1, <1>2, <2>1, SureSolid DEF Knows, AllSet
  <2>3. AllSet /\ current' = current
    BY <1>2, <2>1 DEF Knows
  <2>4. ASSUME NEW r \in Register PROVE chip'[r] = Of(current, r) \/ Writing(r)'
    <3>1. chip' = chip
      BY <1>2
    <3>2. Writing(r) => Writing(r)'
      BY <1>1 DEF Writing
    <3>3. chip[r] = Of(current, r) \/ Writing(r)
      BY <2>3 DEF AllSet
    <3> QED BY <3>1, <3>2, <3>3
  <2>5. saved' = Of(current, "packet") \/ Has(todo'["main"], <<"save", "packet">>)
    BY <1>1, <1>2, <2>3 DEF AllSet, Thread
  <2> QED BY <2>2, <2>3, <2>4, <2>5 DEF AllSet
<1>5. Answered'
  BY <1>1, <1>2 DEF Knows, Answered, Thread
<1>6. Resuming'
  BY <1>1, <1>2 DEF Knows, Resuming
<1>7. Honest'
  BY <1>2, <1>3 DEF Knows, Honest
<1> QED BY <1>2, <1>4, <1>5, <1>6, <1>7 DEF Knows, Small

(* a parameter the host sets does: the handler has the write and the       *)
(* answer ahead,                                                           *)
LEMMA KnowsSet ==
    ASSUME TInv, Knows, NEW p \in Param, NEW v \in Value, SetParam(p, v), overlap => overlap', Alone'
    PROVE  Knows'
<1> DEFINE h == Handler(p)
           on == <<"online", "start">>
<1>1. /\ todo["main"] = <<>> /\ todo'["main"] = h /\ "main" \in Thread
      /\ \A u \in Thread \ {"main"} : todo'[u] = todo[u]
      /\ \A u \in Thread : \A x : Has(todo[u], x) => Has(todo'[u], x)
  BY RunKeeps DEF SetParam, Thread
<1>2. UNCHANGED <<radio_online, chip, saved, recovering, arg, told, error_seen>>
  BY DEF SetParam, device, driver, host
<1>3. /\ Simple(h) /\ Has(h, <<"answer", p>>)
      /\ radio_online => Has(h, <<"write", RegisterOf[p]>>)
      /\ radio_online /\ RegisterOf[p] = "packet" => Has(h, <<"save", "packet">>)
      /\ ~Has(h, on) /\ h # <<>>
  <2>1. Simple(h) /\ Has(h, <<"answer", p>>)
    BY HandlerIs
  <2> QED BY <2>1, HandlerIs DEF Simple, Plain, Has
<1> HIDE DEF h
<1>4. current' = [current EXCEPT ![p] = v] /\ current \in [Param -> Nat]
  BY DEF SetParam, TInv, TypeOK
<1>5. \A r \in Register \ {RegisterOf[p]} : Of(current', r) = Of(current, r)
  BY <1>4 DEF Of, In
<1>6. ASSUME Faithful' PROVE AllSet'
  <2>1. ~overlap' /\ ~overlap /\ ~Reporting' /\ ~error_seen
    BY <1>2, <1>6 DEF Faithful
  <2>2. \A u \in Thread : todo[u] = <<>>
    BY <1>1, <1>3, <2>1 DEF Alone, Thread
  <2>3. radio_online
    <3>1. ~Starting'
      BY <1>1, <1>3, <2>2 DEF Starting, Has
    <3> QED BY <1>2, <1>6, <3>1 DEF Faithful
  <2>4. ~Reporting /\ \A r \in Register : ~Writing(r)
    BY <2>2 DEF Reporting, Writing, Has
  <2>5. AllSet
    BY <2>1, <2>3, <2>4 DEF Faithful, Knows
  <2>6. \A r \in Register : chip[r] = Of(current, r)
    BY <2>4, <2>5 DEF AllSet
  <2>7. saved = Of(current, "packet")
    <3>1. ~Has(todo["main"], <<"save", "packet">>)
      BY <1>1 DEF Has
    <3> QED BY <2>5, <3>1 DEF AllSet
  <2>8. \A u \in Thread : Sure(todo'[u], arg'[u], current')
    <3>1. Sure(todo'["main"], arg'["main"], current')
      BY <1>1, <1>3, SureSolid DEF Simple
    <3>2. \A u \in Thread \ {"main"} : Sure(todo'[u], arg'[u], current')
      BY <1>1, <2>2 DEF Sure
    <3> QED BY <3>1, <3>2
  <2>9. \A r \in Register : chip'[r] = Of(current', r) \/ Writing(r)'
    BY <1>1, <1>2, <1>3, <1>5, <2>3, <2>6 DEF Writing
  <2>10. saved' = Of(current', "packet") \/ Has(todo'["main"], <<"save", "packet">>)
    <3>1. "packet" \in Register
      BY DEF Register
    <3> QED BY <1>1, <1>2, <1>3, <1>5, <2>3, <2>7, <3>1
  <2> QED BY <2>8, <2>9, <2>10 DEF AllSet
<1>7. Answered'
  <2>1. ASSUME NEW q \in Param, q # p, told'[q] \notin {Untold, current'[q]}
        PROVE  Has(todo'["main"], <<"answer", q>>)
    <3>1. current'[q] = current[q]
      BY <1>4, <2>1
    <3> QED BY <1>1, <1>2, <2>1, <3>1 DEF Knows, Answered
  <2> QED BY <1>1, <1>3, <2>1 DEF Answered
<1>8. Resuming'
  BY <1>1, <1>2 DEF Knows, Resuming
<1>9. Honest'
  <2>1. Reporting => Reporting'
    BY <1>1 DEF Reporting
  <2> QED BY <1>2, <2>1 DEF Knows, Honest
<1>10. Small'
  BY <1>4 DEF Knows, Small
<1> QED BY <1>6, <1>7, <1>8, <1>9, <1>10 DEF Knows

(* and rnode_start does, which is going to write everything.               *)
LEMMA KnowsStart ==
    ASSUME TInv, Knows, Act, Watch, RadioOn \/ ResetCommand, Alone' PROVE Knows'
<1>1. PICK s \in {Start, Start \o << <<"online", "start">> >>} : Run("main", s)
  BY DEF RadioOn, ResetCommand
<1>2. /\ todo["main"] = <<>> /\ todo'["main"] = s /\ "main" \in Thread
      /\ \A u \in Thread \ {"main"} : todo'[u] = todo[u]
      /\ \A u \in Thread : \A x : Has(todo[u], x) => Has(todo'[u], x)
  BY <1>1, RunKeeps DEF Thread
<1>3. UNCHANGED <<current, radio_online, chip, saved, recovering, arg, told>>
  BY DEF RadioOn, ResetCommand, rnode, device, driver, host
<1>4. /\ s \in Seq(Steps) /\ Solid(s) /\ s # <<>> /\ Has(s, <<"save", "packet">>)
      /\ \A r \in Register : Has(s, <<"write", r>>)
  <2>1. Has(s, <<"save", "packet">>) /\ \A r \in Register : Has(s, <<"write", r>>)
    BY StartWrites DEF Register
  <2> QED BY <2>1, StartsSound DEF Has
<1>5. ASSUME ~overlap' PROVE todo["worker"] = <<>> /\ todo["irq"] = <<>>
  BY <1>2, <1>4, <1>5 DEF Alone, Thread
<1>6. Faithful' => AllSet'
  <2> SUFFICES ASSUME ~overlap' PROVE AllSet'
    BY DEF Faithful
  <2>1. \A u \in Thread : Sure(todo'[u], arg'[u], current)
    <3>1. Sure(s, arg'["main"], current)
      BY <1>4, SureSolid
    <3>2. \A u \in Thread \ {"main"} : todo'[u] = <<>>
      BY <1>2, <1>5 DEF Thread
    <3>3. \A a : Sure(<<>>, a, current)
      BY DEF Sure
    <3> QED BY <1>2, <3>1, <3>2, <3>3
  <2>2. \A r \in Register : Writing(r)'
    BY <1>2, <1>4 DEF Writing
  <2> QED BY <1>2, <1>3, <1>4, <2>1, <2>2 DEF AllSet
<1>7. Answered'
  BY <1>2, <1>3 DEF Knows, Answered
<1>8. Resuming'
  BY <1>2, <1>3 DEF Knows, Resuming
<1>9. Honest'
  <2> SUFFICES ASSUME recovering', ~overlap' PROVE FALSE
    BY DEF Honest
  <2>1. PICK u \in Thread : Has(todo[u], <<"recovered", "recovery">>)
    BY <1>3 DEF Knows, Resuming
  <2>2. todo[u] = <<>>
    BY <1>2, <1>5 DEF Thread
  <2> QED BY <2>1, <2>2 DEF Has
<1>10. Small'
  BY <1>3 DEF Knows, Small
<1> QED BY <1>6, <1>7, <1>8, <1>9, <1>10 DEF Knows

(* So does every step.                                                     *)
LEMMA KnowsNext == ASSUME Fits, TInv, TInv', Knows, [Next]_vars PROVE Knows'
<1>1. CASE UNCHANGED vars
  BY <1>1 DEF vars, rnode, device, driver, host, Knows, Faithful, AllSet, Answered, Resuming,
              Honest, Alone, Small, Reporting, Writing, Starting
<1>2. CASE Next
  <2>1. Act /\ Watch /\ Alone'
    BY <1>2, WatchAlone DEF Next
  <2>2. CASE RadioOn \/ ResetCommand
    BY <2>1, <2>2, KnowsStart
  <2>3. ASSUME NEW t \in Thread, Step(t) PROVE Knows'
    BY <2>1, <2>3, KnowsStep
  <2>4. CASE ~RadioOn /\ ~ResetCommand
    <3>1. overlap => overlap'
      <4>1. overlap' \in BOOLEAN
        BY DEF TInv, TypeOK
      <4> QED BY <2>1, <2>4, <4>1, NewRecord
    <3>2. ASSUME NEW p \in Param, NEW v \in Value, SetParam(p, v) PROVE Knows'
      BY <2>1, <3>1, <3>2, KnowsSet
    <3>3. ASSUME NEW p \in Param, Query(p) PROVE Knows'
      <4>1. PICK s \in {Handler(p), Answer(p)} : Run("main", s)
        BY <3>3 DEF Query
      <4>2. Simple(s)
        BY HandlerIs, PiecesSimple
      <4>3. s \in Seq(Steps) /\ Solid(s) /\ ~Has(s, <<"online", "start">>)
        BY <4>2 DEF Simple, Plain, Has
      <4>4. UNCHANGED <<rnode, chip, driver, arg, host>>
        BY <3>3 DEF Query, device
      <4> QED BY <2>1, <3>1, <4>1, <4>3, <4>4, KnowsRun DEF Thread
    <3>4. CASE Send \/ Watchdog \/ TxDone
      <4>1. PICK t \in Thread, s \in {Start, Receive, Transmit} : Run(t, s)
        BY <3>4 DEF Send, Watchdog, TxDone, Thread
      <4>2. s \in Seq(Steps) /\ Solid(s)
        BY StartsSound, OthersSound
      <4>3. ~Has(s, <<"online", "start">>)
        BY NoOnline
      <4>4. UNCHANGED <<rnode, chip, driver, arg, host>>
        BY <3>4 DEF Send, Watchdog, TxDone, device
      <4> QED BY <2>1, <3>1, <4>1, <4>2, <4>3, <4>4, KnowsRun
    <3>5. CASE RadioOff
      <4>1. /\ UNCHANGED <<current, chip, saved, recovering, todo, arg, told, error_seen>>
            /\ radio_online /\ ~radio_online'
        BY <3>5 DEF RadioOff, device, driver, host
      <4>2. /\ Reporting' = Reporting /\ Starting' = Starting
            /\ \A r \in Register : Writing(r) => Writing(r)'
        BY <4>1 DEF Reporting, Starting, Writing
      <4>3. Faithful' => AllSet'
        <5> SUFFICES ASSUME Faithful' PROVE AllSet'
          OBVIOUS
        <5>1. AllSet
          BY <3>1, <4>1, <4>2 DEF Faithful, Knows
        <5>2. \A r \in Register : chip'[r] = Of(current, r) \/ Writing(r)'
          BY <4>1, <4>2, <5>1 DEF AllSet
        <5> QED BY <4>1, <5>1, <5>2 DEF AllSet
      <4> QED BY <2>1, <3>1, <4>1, <4>2, <4>3 DEF Knows, Answered, Resuming, Honest, Small
    <3> QED BY <2>1, <2>3, <2>4, <3>2, <3>3, <3>4, <3>5 DEF Act, Command
  <2> QED BY <2>2, <2>4
<1> QED BY <1>1, <1>2

(* Of a parameter the host has an answer to, the chip has that value: in   *)
(* any order of commands, frames, timeouts and failures, if the values fit *)
(* the driver's types and no other thread was at work on the chip.         *)
THEOREM HostKnowsHolds == ASSUME Fits PROVE Spec => []HostKnows
<1>1. Init => Knows
  <2> SUFFICES ASSUME Init PROVE Knows
    OBVIOUS
  <2>1. \A t \in Thread : todo[t] = <<>>
    BY DEF Init
  <2>2. /\ ~Reporting /\ ~Starting /\ \A t \in Thread : \A a : Sure(todo[t], a, current)
        /\ todo["main"] = <<>> /\ ~recovering
    BY <2>1 DEF Reporting, Starting, Has, Sure, Init, Thread
  <2>3. CASE Fresh
    BY <2>2, <2>3 DEF Fresh, Knows, Faithful, Answered, Resuming, Honest, Alone, Small
  <2>4. CASE Running
    <3>1. /\ chip = [r \in Register |-> Of(current, r)] /\ saved = Of(current, "packet") /\ told = current
          /\ \E v \in Value : current = [p \in Param |-> v]
      BY <2>4 DEF Running, Stored, Of
    <3>2. AllSet
      BY <2>2, <3>1 DEF AllSet
    <3> QED BY <2>2, <3>1, <3>2 DEF Knows, Answered, Resuming, Honest, Alone, Small
  <2> QED BY <2>3, <2>4 DEF Init
<1>2. TInv /\ Knows => HostKnows
  <2> SUFFICES ASSUME TInv, Knows, radio_online, Quiet, ~error_seen, ~overlap,
                      NEW p \in Param, told[p] # Untold
               PROVE  chip[RegisterOf[p]][p] = told[p]
    BY DEF HostKnows
  <2>1. \A t \in Thread : \A x : ~Has(todo[t], x)
    BY DEF Quiet, Has
  <2>2. Faithful
    BY <2>1 DEF Faithful, Reporting
  <2>3. RegisterOf[p] \in Register /\ p \in In(RegisterOf[p])
    BY SetupAssumption DEF RegisterOf, Register, In
  <2>4. chip[RegisterOf[p]] = Of(current, RegisterOf[p])
    BY <2>1, <2>2, <2>3 DEF Knows, AllSet, Writing
  <2>5. told[p] = current[p]
    BY <2>1 DEF Knows, Answered, Thread
  <2> QED BY <2>3, <2>4, <2>5 DEF Of
<1>3. TInv /\ Knows /\ [Next]_vars => TInv' /\ Knows'
  BY TypeNext, KnowsNext
<1> QED BY <1>1, <1>2, <1>3, TypeInit, PTL DEF Spec
=============================================================================
