------------------------------- MODULE Airtime ------------------------------
(***************************************************************************)
(* How the node accounts for its own transmissions (csma.c) and what the   *)
(* airtime lock (rnode_check_airtime_lock) makes of it.  The last hour is  *)
(* a ring of bins; the bin after the current one is cleared ahead of its   *)
(* use, each time a packet is sent and each time csma_update_current_rssi  *)
(* has taken its number of samples.  All of it runs on the worker thread.  *)
(* The clock is the position in the hour, which is all the code uses.      *)
(***************************************************************************)
EXTENDS Integers, FiniteSetsExt

CONSTANTS Bins,    \* AIRTIME_BINS
          BinLen,  \* AIRTIME_BINLEN_MS
          Period,  \* how long UTIL_UPDATE_INTERVAL samples of the RSSI take
          Width,   \* one more than the largest value of a bin (a uint16_t)
          Cost,    \* the airtimes of packets
          Limit,     \* st_airtime_limit, over two bins; 0: off
          LongLimit  \* lt_airtime_limit, over all bins; 0: off

ASSUME AirtimeAssumption ==
    /\ Bins \in Nat /\ Bins >= 3 /\ BinLen \in Nat \ {0} /\ Period \in Nat \ {0}
    /\ Width \in Nat \ {0} /\ Cost \subseteq Nat \ {0} /\ Limit \in Nat /\ LongLimit \in Nat

VARIABLES now,       \* get_time() % AIRTIME_LONGTERM_MS
          since,     \* time spent sampling since the last update for the samples
          bins,      \* airtime_bins
          airtime, longterm_airtime, \* channel, as sums of bins
          cw_band,   \* cw.band
          left,      \* what is left of the transmission: nothing else is sent
          sent,      \* send_packet has sent, and still has to update
          fresh,     \* history: nothing has happened since the last update
          truth      \* history: what was really sent in each bin of the last hour

vars == <<now, since, bins, airtime, longterm_airtime, cw_band, left, sent, fresh, truth>>

Bin == 0 .. Bins - 1

Cb == now \div BinLen \* current_airtime_bin
Pb == IF Cb = 0 THEN Bins - 1 ELSE Cb - 1
Nb == IF Cb + 1 = Bins THEN 0 ELSE Cb + 1

Total(ring) == MapThenSumSet(LAMBDA b : ring[b], Bin)

Init ==
    /\ now = 0 /\ since = 0 /\ bins = [b \in Bin |-> 0]
    /\ airtime = 0 /\ longterm_airtime = 0 /\ cw_band = 1
    /\ left = 0 /\ sent = FALSE /\ fresh = FALSE /\ truth = [b \in Bin |-> 0]

(* Nothing is sampled during a transmission.  Between csma_add_airtime and *)
(* the update that follows it, no more than the end of a bin can pass.     *)
Tick ==
    /\ left = 0 => since < Period
    /\ sent => (now + 1) % BinLen = 0
    /\ since' = IF left = 0 THEN since + 1 ELSE since
    /\ now' = (now + 1) % (Bins * BinLen)
    /\ truth' = IF now' \div BinLen = Cb THEN truth ELSE [truth EXCEPT ![now' \div BinLen] = 0]
    /\ left' = Max({left - 1, 0}) /\ fresh' = FALSE
    /\ UNCHANGED <<bins, airtime, longterm_airtime, cw_band, sent>>

(* MUTANT: the long-term limit takes the place of the short-term one.      *)
LockedEither ==
    IF LongLimit # 0 THEN longterm_airtime >= LongLimit ELSE Limit # 0 /\ airtime >= Limit

(* rnode_check_airtime_lock.                                               *)
Locked ==
    \/ Limit # 0 /\ airtime >= Limit
    \/ LongLimit # 0 /\ longterm_airtime >= LongLimit

(* send_packet and rnode_to_air, with csma_add_airtime: the whole packet   *)
(* goes to the bin it starts in.  The next one waits for its end.          *)
Add(ms) ==
    /\ ~sent /\ left = 0 /\ ~Locked
    /\ bins' = [bins EXCEPT ![Cb] = (@ + ms) % Width, ![Nb] = 0]
    /\ truth' = [truth EXCEPT ![Cb] = @ + ms]
    /\ sent' = TRUE /\ left' = ms /\ fresh' = FALSE
    /\ UNCHANGED <<now, since, airtime, longterm_airtime, cw_band>>

(* MUTANT: the bands are counted from 0.                                   *)
BandFromZero(percent) == IF percent =< 7 THEN 0 ELSE Min({(percent * 2) \div 78 + 1, 3})

(* update_csma_parameters: the band of contention windows, 1 .. 4.         *)
Band(percent) == IF percent =< 7 THEN 1 ELSE Min({(percent * 2) \div 78 + 2, 4})

(* MUTANT: the next bin is not cleared.                                    *)
UpdateUncleared ==
    /\ airtime' = bins[Cb] + bins[Pb]
    /\ longterm_airtime' = Total(bins)
    /\ cw_band' = Band((100 * airtime') \div (2 * BinLen))
    /\ fresh' = TRUE
    /\ UNCHANGED <<bins, now, left, truth>>

(* csma_update_airtime.                                                    *)
Update ==
    /\ bins' = [bins EXCEPT ![Nb] = 0]
    /\ airtime' = bins'[Cb] + bins'[Pb]
    /\ longterm_airtime' = Total(bins')
    /\ cw_band' = Band((100 * airtime') \div (2 * BinLen))
    /\ fresh' = TRUE
    /\ UNCHANGED <<now, left, truth>>

UpdateForPacket == sent /\ sent' = FALSE /\ Update /\ UNCHANGED since

(* MUTANT: a locked node does not bring its statistics up to date.         *)
UpdateForSamplesUnlocked ==
    /\ ~sent /\ left = 0 /\ since = Period /\ since' = 0
    /\ IF Locked THEN UNCHANGED <<bins, airtime, longterm_airtime, cw_band, fresh>> ELSE Update
    /\ UNCHANGED <<sent, now, left, truth>>

UpdateForSamples ==
    /\ ~sent /\ left = 0 /\ since = Period
    /\ since' = 0 /\ Update /\ UNCHANGED sent

Next == Tick \/ (\E ms \in Cost : Add(ms)) \/ UpdateForPacket \/ UpdateForSamples

Spec == Init /\ [][Next]_vars

(* Time passes and the worker goes its rounds.                             *)
FairSpec == Spec /\ WF_vars(Tick) /\ WF_vars(UpdateForPacket) /\ WF_vars(UpdateForSamples)

-----------------------------------------------------------------------------
(* The bins keep their width and the band of windows is one of the four.   *)
TypeOK ==
    /\ now \in 0 .. Bins * BinLen - 1 /\ since \in 0 .. Period
    /\ bins \in [Bin -> 0 .. Width - 1]
    /\ airtime \in Nat /\ longterm_airtime \in Nat /\ cw_band \in 1 .. 4
    /\ left \in Nat /\ sent \in BOOLEAN /\ fresh \in BOOLEAN /\ truth \in [Bin -> Nat]

(* What was really sent in this bin and the one before, and in the last    *)
(* hour; the bin that comes next is an hour old.                           *)
Recent == truth[Cb] + truth[Pb]
LastHour == Total(truth) - truth[Nb]

(* What the channel statistics say when they are made is what was sent: no *)
(* bin an hour old is counted again.                                       *)
AirtimeExact == fresh => airtime = Recent /\ longterm_airtime = LastHour

(* A packet is sent only while what was really sent is below both limits,  *)
(* though the sums the lock looks at are those of the last update.         *)
DutyCycle ==
    [][~sent /\ sent' => /\ Limit # 0 => Recent < Limit
                         /\ LongLimit # 0 => LastHour < LongLimit]_vars

(* The lock opens again and again: a packet it defers is sent in the end.  *)
LockOpens == []<>~Locked
=============================================================================
