--------------------------- MODULE TSManager_proofs ---------------------------
(***************************************************************************)
(* Proofs about TSManager, for every size of the ring and of the history,  *)
(* every set of timestamps and every decoder.                              *)
(***************************************************************************)
EXTENDS TSManager, FiniteSetTheorems, WellFoundedInduction, TLAPS

-------------------------------------------------------------------------------
(* The ring *)

\* Slot i holds a timestamp that was not sent.
InUse(i) ==
  /\ i \in Slots
  /\ IF tx <= rx THEN tx <= i /\ i < rx ELSE tx <= i \/ i < rx

\* Counting round the ring.
LEMMA Wrap ==
  ASSUME NEW i \in Slots, NEW k \in Slots
  PROVE  (i + k) % BufSize = IF i + k < BufSize THEN i + k ELSE i + k - BufSize
<1>1. BufSize \in Nat \ {0} /\ i + k \in Nat /\ i + k < 2 * BufSize
  BY TSManagerAssumption DEF Slots
<1> QED
  BY <1>1, Z3 DEF Slots

LEMMA IncWraps ==
  ASSUME NEW i \in Slots
  PROVE  Inc(i) = IF i + 1 = BufSize THEN 0 ELSE i + 1
<1>1. BufSize \in Nat \ {0} /\ i + 1 \in Nat /\ i + 1 < 2 * BufSize
      /\ i + 1 <= BufSize
  BY TSManagerAssumption DEF Slots
<1>2. (i + 1) % BufSize = IF i + 1 < BufSize THEN i + 1 ELSE i + 1 - BufSize
  BY <1>1, Z3 DEF Slots
<1> QED
  BY <1>1, <1>2 DEF Inc

LEMMA DistanceRange ==
  ASSUME rx \in Slots, tx \in Slots
  PROVE  Distance \in 0 .. BufSize - 1
  BY TSManagerAssumption DEF Distance, Slots

\* At(k) goes through the slots in use, each once.
LEMMA AtInUse ==
  ASSUME rx \in Slots, tx \in Slots
  PROVE  /\ \A k \in 0 .. Distance - 1 : InUse(At(k))
         /\ \A i : InUse(i) => \E k \in 0 .. Distance - 1 : At(k) = i
         /\ \A j, k \in 0 .. Distance - 1 : j # k => At(j) # At(k)
<1>0. BufSize \in Nat \ {0} /\ Distance \in 0 .. BufSize - 1
  BY TSManagerAssumption, DistanceRange
<1>1. ASSUME NEW k \in 0 .. Distance - 1
      PROVE  At(k) = IF tx + k < BufSize THEN tx + k ELSE tx + k - BufSize
  BY <1>0, Wrap DEF At, Slots
<1>2. ASSUME NEW k \in 0 .. Distance - 1 PROVE InUse(At(k))
  BY <1>0, <1>1 DEF InUse, Distance, Slots
<1>3. ASSUME NEW i, InUse(i) PROVE \E k \in 0 .. Distance - 1 : At(k) = i
  <2> DEFINE k == IF i >= tx THEN i - tx ELSE i + BufSize - tx
  <2>1. k \in 0 .. Distance - 1
    BY <1>0, <1>3 DEF InUse, Distance, Slots
  <2>2. At(k) = i
    BY <1>0, <1>1, <1>3, <2>1 DEF InUse, Slots
  <2> QED
    BY <2>1, <2>2
<1>4. ASSUME NEW j \in 0 .. Distance - 1, NEW k \in 0 .. Distance - 1, j # k
      PROVE  At(j) # At(k)
  BY <1>0, <1>1, <1>4 DEF Slots
<1> QED
  BY <1>2, <1>3, <1>4

\* A slot is filled.
LEMMA Fill ==
  ASSUME rx \in Slots, tx \in Slots, Distance < BufSize - 1,
         rx' = Inc(rx), tx' = tx
  PROVE  /\ rx' \in Slots
         /\ Distance' = Distance + 1
         /\ ~InUse(rx)
         /\ \A i \in Slots : InUse(i)' <=> InUse(i) \/ i = rx
<1>1. rx' = IF rx + 1 = BufSize THEN 0 ELSE rx + 1
  BY IncWraps
<1> QED
  BY <1>1, TSManagerAssumption DEF InUse, Distance, Slots

\* The oldest slot is freed.
LEMMA Drain ==
  ASSUME rx \in Slots, tx \in Slots, Distance > 0, tx' = Inc(tx), rx' = rx
  PROVE  /\ tx' \in Slots
         /\ Distance' = Distance - 1
         /\ InUse(tx)
         /\ \A i \in Slots : InUse(i)' <=> InUse(i) /\ i # tx
<1>1. tx' = IF tx + 1 = BufSize THEN 0 ELSE tx + 1
  BY IncWraps
<1> QED
  BY <1>1, TSManagerAssumption DEF InUse, Distance, Slots

-------------------------------------------------------------------------------
(* The invariant *)

\* In mode AI the entries in use have ages of their own, and timestamps.
AgeInv ==
  mode = "AI" =>
    /\ \A i, j \in Slots :
         InUse(i) /\ InUse(j) /\ i # j => ts_buf[i].age # ts_buf[j].age
    /\ \A i \in Slots :
         InUse(i) => ts_buf[i].age <= age + cnt + 1 /\ ts_buf[i].ts \in Nat

IInv == Numbers /\ RingAccounting /\ AgeInv

LEMMA AdaptiveInt == ASSUME Numbers PROVE Adaptive \in Int
<1>1. ASSUME NEW N \in Nat \ {0}, NEW a \in Int PROVE a \div N \in Int
  BY <1>1, Z3
<1> QED
  BY <1>1, TSManagerAssumption DEF Adaptive, Numbers

LEMMA ExtrapolatedInt == ASSUME Numbers PROVE Extrapolated \in Int
  BY AdaptiveInt DEF Extrapolated, Numbers

\* What sending a timestamp does to the output side.
LEMMA SentNumbers ==
  ASSUME Numbers, NEW ts \in Int, Sent(ts)
  PROVE  /\ last_sent' \in Int
         /\ big_cnt' \in 0 .. 4
         /\ hist' \in [0 .. HistorySize - 1 -> Nat]
         /\ hist_tx' \in 0 .. HistorySize - 1
         /\ hist_total' \in Int
         /\ age' = age + 1 /\ cnt' = cnt - 1
<1> DEFINE duration == Clamped(ts) - last_sent
<1>1. last_sent' = Clamped(ts) /\ Clamped(ts) \in Int
  BY DEF Sent, Clamped, Numbers
<1>2. History(duration) /\ age' = age + 1 /\ cnt' = cnt - 1
  BY DEF Sent
<1>3. ~first_tx => duration \in Nat
  BY DEF Clamped, Numbers
<1>4. duration \in Int
  BY <1>1 DEF Numbers
<1> HIDE DEF duration
<1>5. CASE first_tx
  BY <1>1, <1>2, <1>5 DEF History, Numbers
<1>6. CASE ~first_tx /\ (duration < Adaptive * 2 \/ big_cnt > 3)
  <2>1. /\ big_cnt' = 0
        /\ hist' = [hist EXCEPT ![hist_tx] = duration]
        /\ hist_total' = hist_total - hist[hist_tx] + duration
        /\ hist_tx' = (hist_tx + 1) % HistorySize
    BY <1>2, <1>6 DEF History
  <2>2. hist' \in [0 .. HistorySize - 1 -> Nat] /\ hist_total' \in Int
    BY <1>3, <1>4, <1>6, <2>1 DEF Numbers
  <2>3. ASSUME NEW N \in Nat \ {0}, NEW a \in Nat PROVE a % N \in 0 .. N - 1
    BY <2>3, Z3
  <2>4. hist_tx' \in 0 .. HistorySize - 1
    BY <2>1, <2>3, TSManagerAssumption DEF Numbers
  <2> QED
    BY <1>1, <1>2, <2>1, <2>2, <2>4
<1>7. CASE ~first_tx /\ ~(duration < Adaptive * 2 \/ big_cnt > 3)
  <2>1. big_cnt' = big_cnt + 1 /\ UNCHANGED <<hist, hist_tx, hist_total>>
    BY <1>2, <1>7 DEF History
  <2> QED
    BY <1>1, <1>2, <1>7, <2>1 DEF Numbers
<1> QED
  BY <1>5, <1>6, <1>7

LEMMA InitIInv == Init => IInv
<1> SUFFICES ASSUME Init PROVE IInv
  OBVIOUS
<1>1. 0 \in Slots
  BY TSManagerAssumption DEF Slots
<1>2. Distance = 0 /\ \A i : ~InUse(i)
  BY TSManagerAssumption DEF Init, Distance, InUse, Slots
<1>3. ts_buf \in [Slots -> Stamp]
  BY DEF Init, Stamp
<1>4. Interval * HistorySize \in Int
  BY TSManagerAssumption
<1>5. Numbers
  BY <1>1, <1>3, <1>4, TSManagerAssumption DEF Init, Numbers
<1> QED
  BY <1>2, <1>5, TSManagerAssumption DEF Init, IInv, RingAccounting, AgeInv

LEMMA ResyncIInv ==
  ASSUME IInv, NEW ts \in Times \cup {None}, NEW m \in {"AI", "FIFO"},
         Resync(ts, m)
  PROVE  IInv'
<1>1. 0 \in Slots /\ ts \in Int
  BY TSManagerAssumption DEF Slots, None
<1>2. Distance' = 0 /\ \A i : ~InUse(i)'
  BY TSManagerAssumption DEF Resync, Distance, InUse, Slots
<1>3. Numbers'
  BY <1>1 DEF Resync, IInv, Numbers
<1> QED
  BY <1>2, <1>3, TSManagerAssumption DEF Resync, IInv, RingAccounting, AgeInv

\* Operations that leave the ring and its counters alone.
LEMMA SameRing ==
  ASSUME IInv, Numbers', UNCHANGED <<mode, ring, age>> PROVE IInv'
<1>1. Distance' = Distance /\ \A i : InUse(i)' <=> InUse(i)
  BY DEF ring, Distance, InUse
<1> QED
  BY <1>1 DEF IInv, RingAccounting, AgeInv, ring

-------------------------------------------------------------------------------
(* Receiving *)

LEMMA ReceiveTimedIInv ==
  ASSUME IInv, cnt < BufSize - 1, cnt' = cnt + 1,
         NEW ts \in Times \cup {None}, NEW key \in Keys \cup {NoKey},
         ReceiveTimed(ts, key), UNCHANGED <<mode, age, output>>
  PROVE  IInv'
<1>1. /\ rx \in Slots /\ tx \in Slots /\ cnt \in Nat /\ age \in Nat
      /\ invalid \in Nat /\ ts_buf \in [Slots -> Stamp]
      /\ cnt = Distance + invalid /\ AgeInv
  BY DEF IInv, Numbers, RingAccounting
<1>2. /\ mode = "AI" /\ ts \in Nat /\ ts \in Int
      /\ ts_buf' = [ts_buf EXCEPT ![rx] = [ts |-> ts, age |-> FrameAge, key |-> key]]
      /\ rx' = Inc(rx) /\ tx' = tx /\ invalid' = invalid /\ last_received' = ts
      /\ suspicious' = 0
  BY TSManagerAssumption DEF ReceiveTimed, None
<1>3. Distance \in Nat /\ Distance < BufSize - 1
  BY <1>1, DistanceRange, TSManagerAssumption
<1>4. /\ rx' \in Slots /\ Distance' = Distance + 1 /\ ~InUse(rx)
      /\ \A i \in Slots : InUse(i)' <=> InUse(i) \/ i = rx
  BY <1>1, <1>2, <1>3, Fill
<1>5. FrameAge \in Nat /\ FrameAge = age + cnt + 2
  BY <1>1, <1>3 DEF FrameAge
<1>6. ts_buf' \in [Slots -> Stamp]
  <2>1. [ts |-> ts, age |-> FrameAge, key |-> key] \in Stamp
    BY <1>2, <1>5 DEF Stamp
  <2> QED
    BY <1>1, <1>2, <2>1
<1>7. Numbers'
  BY <1>1, <1>2, <1>4, <1>6 DEF IInv, Numbers, output
<1>8. RingAccounting'
  BY <1>1, <1>2, <1>3, <1>4, TSManagerAssumption DEF RingAccounting
<1>9. \A i \in Slots : /\ InUse(i)' /\ i # rx => InUse(i) /\ ts_buf'[i] = ts_buf[i]
                       /\ i = rx => ts_buf'[i].age = FrameAge /\ ts_buf'[i].ts = ts
  BY <1>1, <1>2, <1>4
<1>10. \A i \in Slots : InUse(i) => ts_buf[i].age < FrameAge
                                  /\ ts_buf[i].age \in Nat
  BY <1>1, <1>2, <1>5 DEF AgeInv, Stamp
<1>11. AgeInv'
  <2>1. ASSUME NEW i \in Slots, NEW j \in Slots, InUse(i)', InUse(j)', i # j
        PROVE  ts_buf'[i].age # ts_buf'[j].age
    <3>1. CASE i # rx /\ j # rx
      BY <1>1, <1>2, <1>9, <2>1, <3>1 DEF AgeInv
    <3>2. CASE i = rx
      BY <1>5, <1>9, <1>10, <2>1, <3>2
    <3>3. CASE j = rx
      BY <1>5, <1>9, <1>10, <2>1, <3>3
    <3> QED
      BY <3>1, <3>2, <3>3
  <2>2. ASSUME NEW i \in Slots, InUse(i)'
        PROVE  ts_buf'[i].age <= age + (cnt + 1) + 1 /\ ts_buf'[i].ts \in Nat
    <3>1. CASE i = rx
      BY <1>1, <1>2, <1>5, <1>9, <2>2, <3>1
    <3>2. CASE i # rx
      BY <1>1, <1>2, <1>5, <1>9, <1>10, <2>2, <3>2 DEF AgeInv
    <3> QED
      BY <3>1, <3>2
  <2> QED
    BY <2>1, <2>2 DEF AgeInv
<1> QED
  BY <1>7, <1>8, <1>11 DEF IInv

LEMMA ReceiveUntimedIInv ==
  ASSUME IInv, cnt < BufSize - 1, cnt' = cnt + 1,
         NEW ts \in Times \cup {None}, ReceiveUntimed(ts),
         UNCHANGED <<mode, age, output>>
  PROVE  IInv'
<1>1. ts \in Int
  BY TSManagerAssumption DEF None
<1>2. Base(ts) \in Int
  BY <1>1 DEF Base, IInv, Numbers
<1>3. UNCHANGED <<rx, tx, ts_buf>> /\ invalid' = invalid + 1 /\ mode = "AI"
  BY DEF ReceiveUntimed
<1>4. Distance' = Distance /\ \A i : InUse(i)' <=> InUse(i)
  BY <1>3 DEF Distance, InUse
<1>5. last_received' \in Int /\ suspicious' \in Int
  BY <1>1, <1>2 DEF ReceiveUntimed, IInv, Numbers
<1>6. Numbers'
  BY <1>3, <1>5 DEF IInv, Numbers, output
<1>7. Distance \in Nat
  BY DistanceRange, TSManagerAssumption DEF IInv, Numbers
<1>8. RingAccounting'
  BY <1>3, <1>4, <1>7, TSManagerAssumption DEF IInv, Numbers, RingAccounting
<1>9. AgeInv'
  <2>1. ASSUME NEW i \in Slots, InUse(i) PROVE ts_buf[i].age \in Nat
    BY DEF IInv, Numbers, Stamp
  <2> QED
    BY <1>3, <1>4, <2>1 DEF IInv, Numbers, AgeInv
<1> QED
  BY <1>6, <1>8, <1>9 DEF IInv

LEMMA ReceiveInOrderIInv ==
  ASSUME IInv, cnt < BufSize - 1, cnt' = cnt + 1,
         NEW ts \in Times \cup {None}, ReceiveInOrder(ts),
         UNCHANGED <<mode, age, output>>
  PROVE  IInv'
<1>1. ts \in Int
  BY TSManagerAssumption DEF None
<1>2. /\ mode = "FIFO" /\ ts_buf' = [ts_buf EXCEPT ![rx].ts = ts]
      /\ rx' = Inc(rx) /\ tx' = tx
      /\ UNCHANGED <<invalid, last_received, suspicious>>
  BY DEF ReceiveInOrder
<1>3. /\ rx \in Slots /\ tx \in Slots /\ cnt \in Nat /\ invalid \in Nat
      /\ ts_buf \in [Slots -> Stamp] /\ cnt = Distance + invalid
      /\ Distance \in Nat /\ Distance < BufSize - 1 /\ invalid = 0
  <2>1. mode = "FIFO"
    BY DEF ReceiveInOrder
  <2>2. /\ rx \in Slots /\ tx \in Slots /\ cnt \in Nat /\ invalid \in Nat
        /\ ts_buf \in [Slots -> Stamp]
    BY DEF IInv, Numbers
  <2>3. cnt = Distance + invalid /\ invalid = 0
    BY <2>1 DEF IInv, RingAccounting
  <2>4. Distance \in 0 .. BufSize - 1 /\ BufSize \in Nat
    BY <2>2, DistanceRange, TSManagerAssumption
  <2> QED
    BY <2>2, <2>3, <2>4
<1>4. rx' \in Slots /\ Distance' = Distance + 1
  BY <1>2, <1>3, Fill
<1>5. ts_buf' \in [Slots -> Stamp]
  BY <1>1, <1>2, <1>3 DEF Stamp
<1>6. Numbers'
  BY <1>2, <1>3, <1>4, <1>5 DEF IInv, Numbers, output
<1>7. RingAccounting'
  BY <1>2, <1>3, <1>4, TSManagerAssumption DEF RingAccounting
<1> QED
  BY <1>2, <1>6, <1>7 DEF IInv, AgeInv

LEMMA ReceiveIInv ==
  ASSUME IInv, NEW ts \in Times \cup {None}, NEW key \in Keys \cup {NoKey},
         Receive(ts, key)
  PROVE  IInv'
<1>1. UNCHANGED <<mode, age, output>>
  BY DEF Receive
<1>2. CASE /\ cnt < BufSize - 1 /\ cnt' = cnt + 1
           /\ ReceiveTimed(ts, key) \/ ReceiveUntimed(ts) \/ ReceiveInOrder(ts)
  BY <1>1, <1>2, ReceiveTimedIInv, ReceiveUntimedIInv, ReceiveInOrderIInv
<1>3. CASE UNCHANGED <<cnt, ts_buf, rx, tx, invalid, last_received, suspicious>>
  <2>1. Numbers'
    BY <1>1, <1>3 DEF IInv, Numbers, output
  <2> QED
    BY <1>1, <1>3, <2>1, SameRing DEF ring
<1> QED
  BY <1>2, <1>3 DEF Receive

-------------------------------------------------------------------------------
(* Sending *)

LEMMA NatMin ==
  ASSUME NEW T \in SUBSET Nat, T # {}
  PROVE  \E m \in T : \A x \in T : m <= x
<1>1. IsWellFoundedOn(OpToRel(<, Nat), Nat)
  BY NatLessThanWellFounded
<1>2. PICK m \in T : \A x \in T : ~(<<x, m>> \in OpToRel(<, Nat))
  BY <1>1, WFMin, Zenon
<1>3. ASSUME NEW x \in T PROVE m <= x
  <2>1. ~(x < m)
    BY <1>2 DEF OpToRel
  <2> QED
    BY <2>1
<1> QED
  BY <1>3

\* The scan of _TSManagerSend2 finds the smallest timestamp among those it
\* looks at.
LEMMA CandidateFound ==
  ASSUME IInv, mode = "AI", NEW key, Scanned(key) # {}
  PROVE  /\ Candidate(key) \in Scanned(key)
         /\ \A j \in Scanned(key) :
              ts_buf[At(Candidate(key))].ts <= ts_buf[At(j)].ts
<1>1. Scanned(key) \subseteq 0 .. Distance - 1 /\ Distance \in Nat
  BY DistanceRange DEF Scanned, IInv, Numbers
<1>2. ASSUME NEW k \in Scanned(key)
      PROVE  At(k) \in Slots /\ InUse(At(k)) /\ ts_buf[At(k)].ts \in Nat
  BY <1>1, AtInUse DEF IInv, Numbers, AgeInv, InUse
<1> DEFINE t(k) == ts_buf[At(k)].ts
           T == {t(k) : k \in Scanned(key)}
<1>3. PICK m \in T : \A x \in T : m <= x
  <2>1. T \in SUBSET Nat /\ T # {}
    BY <1>2
  <2> HIDE DEF T
  <2> QED
    BY <2>1, NatMin
<1> DEFINE K == {k \in Scanned(key) : t(k) = m}
<1>4. PICK c \in K : \A k \in K : c <= k
  <2>1. K \in SUBSET Nat /\ K # {}
    BY <1>1, <1>3
  <2> HIDE DEF K
  <2> QED
    BY <2>1, NatMin
<1>5. \A j \in Scanned(key) : t(c) < t(j) \/ (t(c) = t(j) /\ c <= j)
  <2> SUFFICES ASSUME NEW j \in Scanned(key), ~(t(c) < t(j))
               PROVE  t(c) = t(j) /\ c <= j
    OBVIOUS
  <2>1. t(c) = m /\ m <= t(j) /\ t(j) \in Nat /\ t(c) \in Nat
    BY <1>2, <1>3, <1>4
  <2>2. t(j) = m
    BY <2>1
  <2> QED
    BY <1>4, <2>1, <2>2
<1>6. /\ Candidate(key) \in Scanned(key)
      /\ \A j \in Scanned(key) :
           \/ t(Candidate(key)) < t(j)
           \/ t(Candidate(key)) = t(j) /\ Candidate(key) <= j
  BY <1>4, <1>5 DEF Candidate
<1> QED
  BY <1>2, <1>6

LEMMA SendExtrapolatedIInv ==
  ASSUME IInv, cnt > 0, NEW key, SendExtrapolated(key), UNCHANGED <<mode, input>>
  PROVE  IInv'
<1>1. UNCHANGED <<rx, tx, ts_buf>> /\ invalid' = invalid - 1 /\ mode = "AI"
      /\ Sent(Extrapolated) /\ (Scanned(key) # {} => TooEarly(Candidate(key)))
  BY DEF SendExtrapolated
<1>2. /\ last_sent' \in Int /\ big_cnt' \in 0 .. 4
      /\ hist' \in [0 .. HistorySize - 1 -> Nat]
      /\ hist_tx' \in 0 .. HistorySize - 1 /\ hist_total' \in Int
      /\ age' = age + 1 /\ cnt' = cnt - 1
  BY <1>1, ExtrapolatedInt, SentNumbers DEF IInv
<1>3. Distance \in Nat /\ cnt \in Nat /\ invalid \in Nat /\ age \in Nat
      /\ cnt = Distance + invalid /\ cnt <= BufSize - 1
  BY DistanceRange, TSManagerAssumption DEF IInv, Numbers, RingAccounting
<1>4. invalid > 0
  <2>1. CASE Distance = 0
    BY <1>3, <2>1
  <2>2. CASE Distance > 0
    <3>1. 0 \in Scanned(key)
      BY <1>3, <2>2 DEF Scanned
    <3> QED
      BY <1>1, <3>1 DEF TooEarly
  <2> QED
    BY <1>3, <2>1, <2>2
<1>5. Distance' = Distance /\ \A i : InUse(i)' <=> InUse(i)
  BY <1>1 DEF Distance, InUse
<1>6. Numbers'
  BY <1>1, <1>2, <1>3, <1>4 DEF IInv, Numbers, input
<1>7. RingAccounting'
  BY <1>1, <1>2, <1>3, <1>4, <1>5, TSManagerAssumption DEF RingAccounting
<1>8. AgeInv'
  <2>1. age' + cnt' + 1 = age + cnt + 1
    BY <1>2, <1>3
  <2>2. AgeInv
    BY DEF IInv
  <2>3. ASSUME NEW i \in Slots, InUse(i)'
        PROVE  ts_buf'[i].age <= age' + cnt' + 1 /\ ts_buf'[i].ts \in Nat
    BY <1>1, <1>5, <2>1, <2>2, <2>3 DEF AgeInv
  <2>4. ASSUME NEW i \in Slots, NEW j \in Slots, InUse(i)', InUse(j)', i # j
        PROVE  ts_buf'[i].age # ts_buf'[j].age
    BY <1>1, <1>5, <2>2, <2>4 DEF AgeInv
  <2> QED
    BY <2>3, <2>4 DEF AgeInv
<1> QED
  BY <1>6, <1>7, <1>8 DEF IInv

\* After the timestamp in slot index is sent the slots in use hold the same
\* entries without it.
LEMMA SlotsAfterSend ==
  ASSUME IInv, NEW index \in Slots, InUse(index),
         ts_buf' = [ts_buf EXCEPT ![index] = ts_buf[tx]],
         tx' = Inc(tx), rx' = rx
  PROVE  /\ tx' \in Slots /\ Distance > 0 /\ Distance' = Distance - 1
         /\ InUse(tx)
         /\ \A i \in Slots : InUse(i)' <=> InUse(i) /\ i # tx
         /\ \A i \in Slots : i # index => ts_buf'[i] = ts_buf[i]
         /\ ts_buf'[index] = ts_buf[tx]
         /\ ts_buf' \in [Slots -> Stamp]
<1>1. rx \in Slots /\ tx \in Slots /\ ts_buf \in [Slots -> Stamp]
  BY DEF IInv, Numbers
<1>2. Distance > 0
  BY <1>1, TSManagerAssumption DEF InUse, Distance, Slots
<1>3. /\ tx' \in Slots /\ Distance' = Distance - 1
      /\ InUse(tx)
      /\ \A i \in Slots : InUse(i)' <=> InUse(i) /\ i # tx
  BY <1>1, <1>2, Drain
<1> QED
  BY <1>1, <1>2, <1>3

LEMMA SendTimedIInv ==
  ASSUME IInv, cnt > 0, NEW key, SendTimed(key), UNCHANGED <<mode, input>>
  PROVE  IInv'
<1>1. mode = "AI" /\ Scanned(key) # {}
  BY DEF SendTimed
<1>2. PICK index \in Slots :
        /\ InUse(index)
        /\ ts_buf' = [ts_buf EXCEPT ![index] = ts_buf[tx]]
        /\ Sent(ts_buf[index].ts)
  <2>1. Candidate(key) \in 0 .. Distance - 1
    BY <1>1, CandidateFound DEF Scanned
  <2>2. InUse(At(Candidate(key)))
    BY <2>1, AtInUse DEF IInv, Numbers
  <2> QED
    BY <2>2 DEF SendTimed, InUse
<1>3. tx' = Inc(tx) /\ rx' = rx /\ invalid' = invalid
  BY DEF SendTimed
<1>4. /\ tx' \in Slots /\ Distance > 0 /\ Distance' = Distance - 1
      /\ InUse(tx)
      /\ \A i \in Slots : InUse(i)' <=> InUse(i) /\ i # tx
      /\ \A i \in Slots : i # index => ts_buf'[i] = ts_buf[i]
      /\ ts_buf'[index] = ts_buf[tx]
      /\ ts_buf' \in [Slots -> Stamp]
  BY <1>2, <1>3, SlotsAfterSend
<1>5. /\ last_sent' \in Int /\ big_cnt' \in 0 .. 4
      /\ hist' \in [0 .. HistorySize - 1 -> Nat]
      /\ hist_tx' \in 0 .. HistorySize - 1 /\ hist_total' \in Int
      /\ age' = age + 1 /\ cnt' = cnt - 1
  <2>1. ts_buf[index].ts \in Int
    BY DEF IInv, Numbers, Stamp
  <2> QED
    BY <1>2, <2>1, SentNumbers DEF IInv
<1>6. Distance \in Nat /\ cnt \in Nat /\ invalid \in Nat /\ age \in Nat
      /\ cnt = Distance + invalid /\ cnt <= BufSize - 1
  BY DistanceRange, TSManagerAssumption DEF IInv, Numbers, RingAccounting
<1>7. Numbers'
  BY <1>3, <1>4, <1>5, <1>6 DEF IInv, Numbers, input
<1>8. RingAccounting'
  BY <1>1, <1>3, <1>4, <1>5, <1>6, TSManagerAssumption DEF RingAccounting
<1>9. AgeInv'
  <2> DEFINE from(i) == IF i = index THEN tx ELSE i
  <2>1. ASSUME NEW i \in Slots, InUse(i)'
        PROVE  InUse(from(i)) /\ from(i) \in Slots /\ ts_buf'[i] = ts_buf[from(i)]
    BY <1>4, <2>1 DEF InUse
  <2>2. ASSUME NEW i \in Slots, NEW j \in Slots, InUse(i)', InUse(j)', i # j
        PROVE  from(i) # from(j)
    BY <1>4, <2>2
  <2> HIDE DEF from
  <2>3. ASSUME NEW i \in Slots, NEW j \in Slots, InUse(i)', InUse(j)', i # j
        PROVE  ts_buf'[i].age # ts_buf'[j].age
    BY <1>1, <2>1, <2>2, <2>3 DEF IInv, AgeInv
  <2>4. ASSUME NEW i \in Slots, InUse(i)'
        PROVE  ts_buf'[i].age <= (age + 1) + (cnt - 1) + 1
               /\ ts_buf'[i].ts \in Nat
    <3>1. ts_buf[from(i)].age <= age + cnt + 1 /\ ts_buf[from(i)].ts \in Nat
      BY <1>1, <2>1, <2>4 DEF IInv, AgeInv
    <3> QED
      BY <1>6, <2>1, <2>4, <3>1
  <2> QED
    BY <1>5, <2>3, <2>4 DEF AgeInv
<1> QED
  BY <1>7, <1>8, <1>9 DEF IInv

LEMMA SendInOrderIInv ==
  ASSUME IInv, cnt > 0, SendInOrder, UNCHANGED <<mode, input>>
  PROVE  IInv'
<1>1. /\ mode = "FIFO" /\ tx' = Inc(tx) /\ cnt' = cnt - 1
      /\ last_sent' = ts_buf[tx].ts
      /\ UNCHANGED <<rx, ts_buf, invalid, age, big_cnt, hist, hist_tx, hist_total>>
  BY DEF SendInOrder
<1>2. /\ rx \in Slots /\ tx \in Slots /\ cnt \in Nat /\ invalid = 0
      /\ cnt = Distance + invalid /\ cnt <= BufSize - 1 /\ Distance \in Nat
  BY <1>1, DistanceRange, TSManagerAssumption DEF IInv, Numbers, RingAccounting
<1>3. tx' \in Slots /\ Distance' = Distance - 1
  BY <1>1, <1>2, Drain
<1>4. ts_buf[tx].ts \in Int
  BY DEF IInv, Numbers, Stamp
<1>5. Numbers'
  BY <1>1, <1>2, <1>3, <1>4 DEF IInv, Numbers, input
<1>6. RingAccounting'
  BY <1>1, <1>2, <1>3, TSManagerAssumption DEF RingAccounting
<1> QED
  BY <1>1, <1>5, <1>6 DEF IInv, AgeInv

LEMMA SendIInv ==
  ASSUME IInv, NEW key \in Keys \cup {NoKey}, Send(key)
  PROVE  IInv'
<1>1. UNCHANGED <<mode, input>>
  BY DEF Send
<1>2. CASE cnt > 0 /\ (SendExtrapolated(key) \/ SendTimed(key) \/ SendInOrder)
  BY <1>1, <1>2, SendExtrapolatedIInv, SendTimedIInv, SendInOrderIInv
<1>3. CASE SendNothingStored
  <2>1. UNCHANGED <<ring, age, big_cnt, hist, hist_tx, hist_total>>
        /\ (last_sent' = last_sent \/ last_sent' = Extrapolated)
    BY <1>3 DEF SendNothingStored
  <2>2. last_sent' \in Int
    BY <2>1, ExtrapolatedInt DEF IInv, Numbers
  <2>3. Numbers'
    BY <1>1, <2>1, <2>2 DEF IInv, Numbers, ring, input
  <2> QED
    BY <1>1, <2>1, <2>3, SameRing
<1> QED
  BY <1>2, <1>3 DEF Send

LEMMA SetFrameRateIInv == ASSUME IInv, SetFrameRate(Interval) PROVE IInv'
<1>1. Interval * HistorySize \in Int
  BY TSManagerAssumption
<1>2. Numbers'
  BY <1>1, TSManagerAssumption DEF SetFrameRate, IInv, Numbers, ring, input
<1>3. UNCHANGED <<mode, ring, age>>
  BY DEF SetFrameRate
<1> QED
  BY <1>2, <1>3, SameRing

LEMMA NextIInv == IInv /\ [Next]_vars => IInv'
<1> SUFFICES ASSUME IInv, [Next]_vars PROVE IInv'
  OBVIOUS
<1>1. CASE \E ts \in Times \cup {None}, key \in Keys \cup {NoKey} : Receive(ts, key)
  BY <1>1, ReceiveIInv
<1>2. CASE \E key \in Keys \cup {NoKey} : Send(key)
  BY <1>2, SendIInv
<1>3. CASE \E ts \in Times \cup {None}, m \in {"AI", "FIFO"} : Resync(ts, m)
  BY <1>3, ResyncIInv
<1>4. CASE SetFrameRate(Interval)
  BY <1>4, SetFrameRateIInv
<1>5. CASE UNCHANGED vars
  <2>1. UNCHANGED <<mode, ring, age, input, output>>
    BY <1>5 DEF vars
  <2>2. Numbers'
    BY <2>1 DEF IInv, Numbers, ring, input, output
  <2> QED
    BY <2>1, <2>2, SameRing
<1> QED
  BY <1>1, <1>2, <1>3, <1>4, <1>5 DEF Next

\* Every reachable state has a consistent ring.
THEOREM SpecIInv == Spec => []IInv
  BY InitIInv, NextIInv, PTL DEF Spec

LEMMA FlagsKept == Flags /\ [Next]_vars => Flags'
<1> SUFFICES ASSUME Flags, [Next]_vars PROVE Flags'
  OBVIOUS
<1>1. ASSUME NEW ts, NEW key, Receive(ts, key) PROVE Flags'
  <2>1. /\ rx_seen' = TRUE
        /\ valid_received' = (valid_received \/ (ts # None /\ rx_seen))
        /\ first_rx' = FALSE \/ first_rx' = first_rx
        /\ first_tx' = first_tx
    BY <1>1 DEF Receive, Seen, ReceiveTimed, ReceiveUntimed, ReceiveInOrder, output
  <2> QED
    BY <2>1, Zenon DEF Flags
<1>2. ASSUME NEW key, Send(key) PROVE Flags'
  <2>1. /\ UNCHANGED <<first_rx, rx_seen, valid_received>>
        /\ first_tx' = FALSE \/ first_tx' = first_tx
    BY <1>2 DEF Send, SendExtrapolated, SendTimed, SendInOrder,
                SendNothingStored, Sent, input
  <2> QED
    BY <2>1, Zenon DEF Flags
<1>3. ASSUME NEW ts, NEW m, Resync(ts, m) PROVE Flags'
  BY <1>3, Zenon DEF Resync, Flags
<1>4. CASE SetFrameRate(Interval)
  BY <1>4, Zenon DEF SetFrameRate, input, Flags
<1>5. CASE UNCHANGED vars
  BY <1>5, Zenon DEF vars, input, output, Flags
<1> QED
  BY <1>1, <1>2, <1>3, <1>4, <1>5 DEF Next

\* The variables keep their types.
THEOREM TypeCorrect == Spec => []TypeOK
<1>1. Init => Flags
  BY Zenon DEF Init, Flags
<1>2. IInv /\ Flags => TypeOK
  BY Zenon DEF IInv, TypeOK
<1> QED
  BY <1>1, <1>2, FlagsKept, SpecIInv, PTL DEF Spec

\* The ring and its counters: what is stored and not sent is accounted for,
\* no slot is overwritten or read while empty, invalid_ts_count does not go
\* below zero and entries keep distinct ages.
THEOREM RingCorrect == Spec => []RingAccounting /\ []AgeOrder
<1>1. IInv => RingAccounting
  BY Zenon DEF IInv
<1>2. IInv => AgeOrder
  <2> SUFFICES ASSUME IInv, mode = "AI" PROVE AgeOrder
    BY DEF AgeOrder
  <2>1. \A k \in 0 .. Distance - 1 : InUse(At(k)) /\ At(k) \in Slots
    BY AtInUse DEF IInv, Numbers, InUse
  <2>2. \A j, k \in 0 .. Distance - 1 : j # k => At(j) # At(k)
    BY AtInUse DEF IInv, Numbers
  <2> QED
    BY <2>1, <2>2, Zenon DEF AgeOrder, IInv, AgeInv
<1> QED
  BY <1>1, <1>2, SpecIInv, PTL

-------------------------------------------------------------------------------
(* The ring implements the pool of timestamps *)

poolvars == <<Pending, Untimed>>

Entries ==
  IF mode = "AI" THEN {ts_buf[i] : i \in {j \in Slots : InUse(j)}} ELSE {}

PendingIsEntries == Pending = Entries

LEMMA PendingEntries == IInv => PendingIsEntries
<1> SUFFICES ASSUME IInv PROVE PendingIsEntries
  OBVIOUS
<1>1. /\ \A k \in 0 .. Distance - 1 : InUse(At(k)) /\ At(k) \in Slots
      /\ \A i : InUse(i) => \E k \in 0 .. Distance - 1 : At(k) = i
  BY AtInUse DEF InUse, IInv, Numbers
<1> QED
  BY <1>1, Zenon DEF Pending, Entries, PendingIsEntries

LEMMA PendingEntriesNext == IInv' => PendingIsEntries'
  BY PendingEntries, PTL

LEMMA ReceiveIntoPool ==
  ASSUME IInv, IInv', NEW ts \in Times \cup {None}, NEW key \in Keys \cup {NoKey},
         Receive(ts, key)
  PROVE  [Pool!Next]_poolvars
<1>1. /\ rx \in Slots /\ tx \in Slots /\ cnt \in Nat /\ age \in Nat
      /\ invalid \in Nat /\ ts_buf \in [Slots -> Stamp]
      /\ cnt = Distance + invalid
  BY DEF IInv, Numbers, RingAccounting
<1>2. mode' = mode
  BY DEF Receive
<1>3. CASE cnt < BufSize - 1 /\ cnt' = cnt + 1 /\ ReceiveTimed(ts, key)
  <2> DEFINE new == [ts |-> ts, age |-> FrameAge, key |-> key]
  <2>1. /\ mode = "AI" /\ ts_buf' = [ts_buf EXCEPT ![rx] = new]
        /\ rx' = Inc(rx) /\ tx' = tx /\ invalid' = invalid
    BY <1>3 DEF ReceiveTimed
  <2>2. Distance \in Nat /\ Distance < BufSize - 1
    BY <1>1, <1>3, DistanceRange, TSManagerAssumption
  <2>3. /\ ~InUse(rx)
        /\ \A i \in Slots : InUse(i)' <=> InUse(i) \/ i = rx
    BY <1>1, <2>1, <2>2, Fill
  <2>4. FrameAge = age + cnt + 2
    BY <1>1, <2>2 DEF FrameAge
  <2>5. ASSUME NEW i \in Slots, InUse(i) PROVE ts_buf[i] # new
    <3>1. ts_buf[i].age \in Nat /\ ts_buf[i].age <= age + cnt + 1
      BY <1>1, <2>1, <2>5 DEF IInv, AgeInv, Stamp
    <3>2. ts_buf[i].age # FrameAge
      BY <1>1, <2>4, <3>1
    <3> QED
      BY <3>2
  <2>6. /\ \A i \in Slots : i # rx => ts_buf'[i] = ts_buf[i]
        /\ ts_buf'[rx] = new
    BY <1>1, <2>1
  <2> HIDE DEF new
  <2>7. /\ Pending = {ts_buf[i] : i \in {j \in Slots : InUse(j)}}
        /\ Pending' = {ts_buf'[i] : i \in {j \in Slots : InUse(j)'}}
    BY <1>1, <1>2, <2>1, PendingEntries, PendingEntriesNext DEF Entries, PendingIsEntries
  <2>8. new \notin Pending /\ Pending' = Pending \cup {new}
    BY <1>1, <2>3, <2>5, <2>6, <2>7
  <2>9. Untimed' = Untimed
    BY <1>2, <2>1 DEF Untimed
  <2>10. Pool!TimedFrame
    BY <2>8, <2>9 DEF Pool!TimedFrame
  <2> QED
    BY <2>10 DEF Pool!Next
<1>4. CASE cnt < BufSize - 1 /\ cnt' = cnt + 1 /\ ReceiveUntimed(ts)
  <2>1. mode = "AI" /\ UNCHANGED <<ts_buf, rx, tx>> /\ invalid' = invalid + 1
    BY <1>4 DEF ReceiveUntimed
  <2>2. Pending' = Pending /\ Untimed' = Untimed + 1
    BY <1>2, <2>1 DEF Pending, Untimed, Distance, At
  <2> QED
    BY <2>2 DEF Pool!Next, Pool!UntimedFrame
<1>5. CASE cnt < BufSize - 1 /\ cnt' = cnt + 1 /\ ReceiveInOrder(ts)
  <2>1. mode = "FIFO"
    BY <1>5 DEF ReceiveInOrder
  <2>2. Pending' = Pending /\ Untimed' = Untimed + 1
    BY <1>2, <1>5, <2>1 DEF Pending, Untimed
  <2> QED
    BY <2>2 DEF Pool!Next, Pool!UntimedFrame
<1>6. CASE UNCHANGED <<cnt, ts_buf, rx, tx, invalid>>
  BY <1>2, <1>6 DEF Pending, Untimed, Distance, At, poolvars
<1> QED
  BY <1>3, <1>4, <1>5, <1>6 DEF Receive

\* The entry with the key of the decoder is among those scanned.
LEMMA KeyScanned ==
  ASSUME IInv, mode = "AI", NEW key, NEW i \in Slots, InUse(i),
         ts_buf[i].key = key, key # NoKey
  PROVE  \E k \in Scanned(key) : ts_buf[At(k)].key = key
<1>1. rx \in Slots /\ tx \in Slots
  BY DEF IInv, Numbers
<1>2. Distance \in Nat
  BY <1>1, DistanceRange, TSManagerAssumption
<1> DEFINE K == {k \in 0 .. Distance - 1 : ts_buf[At(k)].key = key}
<1>3. PICK c \in K : \A k \in K : c <= k
  <2>1. K \in SUBSET Nat /\ K # {}
    BY <1>1, <1>2, AtInUse
  <2> HIDE DEF K
  <2> QED
    BY <2>1, NatMin
<1>4. ASSUME NEW j \in 0 .. c - 1 PROVE ts_buf[At(j)].key # key
  <2>1. j \in 0 .. Distance - 1 /\ ~(c <= j)
    BY <1>2, <1>3, <1>4
  <2> QED
    BY <1>3, <2>1
<1>5. c \in Scanned(key)
  BY <1>3, <1>4 DEF Scanned
<1> QED
  BY <1>3, <1>5

LEMMA SendTimedFromPool ==
  ASSUME IInv, IInv', cnt > 0, NEW key \in Keys \cup {NoKey}, SendTimed(key),
         UNCHANGED <<mode, input>>
  PROVE  Pool!TakeTimed(key)
<1>1. mode = "AI" /\ Scanned(key) # {} /\ rx \in Slots /\ tx \in Slots
      /\ ts_buf \in [Slots -> Stamp]
  BY DEF SendTimed, IInv, Numbers
<1>2. Scanned(key) \subseteq 0 .. Distance - 1 /\ Candidate(key) \in Scanned(key)
  BY <1>1, CandidateFound DEF Scanned
<1>3. PICK index \in Slots :
        /\ index = At(Candidate(key)) /\ InUse(index)
        /\ ts_buf' = [ts_buf EXCEPT ![index] = ts_buf[tx]]
  BY <1>1, <1>2, AtInUse DEF SendTimed, InUse
<1>4. tx' = Inc(tx) /\ rx' = rx /\ invalid' = invalid
  BY DEF SendTimed
<1>5. /\ InUse(tx)
      /\ \A i \in Slots : InUse(i)' <=> InUse(i) /\ i # tx
      /\ \A i \in Slots : i # index => ts_buf'[i] = ts_buf[i]
      /\ ts_buf'[index] = ts_buf[tx]
  BY <1>3, <1>4, SlotsAfterSend
<1> DEFINE s == ts_buf[index]
<1>6. /\ Pending = {ts_buf[i] : i \in {j \in Slots : InUse(j)}}
      /\ Pending' = {ts_buf'[i] : i \in {j \in Slots : InUse(j)'}}
  BY <1>1, PendingEntries, PendingEntriesNext DEF Entries, PendingIsEntries
<1>7. ASSUME NEW i \in Slots, InUse(i), i # index PROVE ts_buf[i] # s
  BY <1>1, <1>3, <1>7 DEF IInv, AgeInv
<1>8. Pending' = Pending \ {s} /\ s \in Pending
  BY <1>1, <1>3, <1>5, <1>6, <1>7
<1>9. \A k \in Scanned(key) : s.ts <= ts_buf[At(k)].ts /\ At(k) \in Slots
                               /\ InUse(At(k))
  BY <1>1, <1>2, <1>3, AtInUse, CandidateFound DEF InUse
<1>10. ASSUME \E t \in Pending : key # NoKey /\ t.key = key
       PROVE  \E t \in Pending : t.key = key /\ s.ts <= t.ts
  <2>1. PICK i \in Slots : InUse(i) /\ ts_buf[i].key = key /\ key # NoKey
    BY <1>6, <1>10
  <2>2. PICK k \in Scanned(key) : ts_buf[At(k)].key = key
    BY <1>1, <2>1, KeyScanned
  <2>3. ts_buf[At(k)] \in Pending
    BY <1>6, <1>9
  <2> HIDE DEF s
  <2>4. \E t \in Pending : t.key = key /\ s.ts <= t.ts
    BY <1>9, <2>2, <2>3, Zenon
  <2> QED
    BY <2>4
<1>11. ASSUME ~ \E t \in Pending : key # NoKey /\ t.key = key
       PROVE  \A t \in Pending : s.ts <= t.ts
  <2>1. ASSUME NEW i \in Slots, InUse(i)
        PROVE  \E k \in Scanned(key) : At(k) = i
    <3>1. PICK k \in 0 .. Distance - 1 : At(k) = i
      BY <1>1, <2>1, AtInUse
    <3>2. ASSUME NEW j \in 0 .. k - 1, key # NoKey PROVE ts_buf[At(j)].key # key
      <4>1. Distance \in Nat
        BY <1>1, DistanceRange, TSManagerAssumption
      <4>2. j \in 0 .. Distance - 1
        BY <3>1, <4>1
      <4>3. InUse(At(j)) /\ At(j) \in Slots
        BY <1>1, <4>2, AtInUse DEF InUse
      <4> QED
        BY <1>6, <1>11, <3>2, <4>3
    <3> QED
      BY <3>1, <3>2 DEF Scanned
  <2> HIDE DEF s
  <2>2. ASSUME NEW t \in Pending PROVE s.ts <= t.ts
    <3>1. PICK i \in Slots : InUse(i) /\ ts_buf[i] = t
      BY <1>6
    <3>2. PICK k \in Scanned(key) : At(k) = i
      BY <2>1, <3>1
    <3> QED
      BY <1>9, <3>1, <3>2
  <2> QED
    BY <2>2
<1>12. Untimed' = Untimed
  BY <1>1, <1>4 DEF Untimed
<1>13. IF \E t \in Pending : key # NoKey /\ t.key = key
       THEN \E t \in Pending : t.key = key /\ s.ts <= t.ts
       ELSE \A t \in Pending : s.ts <= t.ts
  BY <1>10, <1>11
<1> HIDE DEF s
<1> QED
  BY <1>8, <1>12, <1>13, Zenon DEF Pool!TakeTimed

LEMMA SendFromPool ==
  ASSUME IInv, IInv', NEW key \in Keys \cup {NoKey}, Send(key)
  PROVE  [Pool!Next]_poolvars
<1>1. UNCHANGED <<mode, input>>
  BY DEF Send
<1>2. CASE cnt > 0 /\ SendExtrapolated(key)
  <2>1. mode = "AI" /\ mode' = mode /\ UNCHANGED <<rx, tx, ts_buf>>
        /\ invalid' = invalid - 1
    BY <1>1, <1>2 DEF SendExtrapolated
  <2>2. invalid \in Nat /\ invalid' \in Nat
    BY DEF IInv, Numbers
  <2>3. invalid > 0
    BY <2>1, <2>2
  <2>4. Pending' = Pending /\ Untimed' = Untimed - 1 /\ Untimed > 0
    BY <2>1, <2>3 DEF Pending, Untimed, Distance, At
  <2> QED
    BY <2>4 DEF Pool!Next, Pool!TakeUntimed
<1>3. CASE cnt > 0 /\ SendTimed(key)
  BY <1>1, <1>3, SendTimedFromPool DEF Pool!Next
<1>4. CASE cnt > 0 /\ SendInOrder
  <2>1. mode = "FIFO" /\ mode' = mode /\ cnt' = cnt - 1
    BY <1>1, <1>4 DEF SendInOrder
  <2>2. Pending' = Pending /\ Untimed' = Untimed - 1 /\ Untimed > 0
    BY <1>4, <2>1 DEF Pending, Untimed
  <2> QED
    BY <2>2 DEF Pool!Next, Pool!TakeUntimed
<1>5. CASE SendNothingStored
  BY <1>1, <1>5 DEF SendNothingStored, ring, Pending, Untimed, Distance, At, poolvars
<1> QED
  BY <1>2, <1>3, <1>4, <1>5 DEF Send

LEMMA ResyncPool ==
  ASSUME NEW ts, NEW m, Resync(ts, m) PROVE Pool!Restart
<1>1. Distance' = 0 /\ cnt' = 0 /\ invalid' = 0
  BY TSManagerAssumption DEF Resync, Distance
<1>2. Pending' = {} /\ Untimed' = 0
  BY <1>1 DEF Pending, Untimed
<1> QED
  BY <1>2 DEF Pool!Restart

LEMMA StepPool == IInv /\ IInv' /\ [Next]_vars => [Pool!Next]_poolvars
<1> SUFFICES ASSUME IInv, IInv', [Next]_vars PROVE [Pool!Next]_poolvars
  OBVIOUS
<1>1. CASE \E ts \in Times \cup {None}, key \in Keys \cup {NoKey} : Receive(ts, key)
  BY <1>1, ReceiveIntoPool
<1>2. CASE \E key \in Keys \cup {NoKey} : Send(key)
  BY <1>2, SendFromPool
<1>3. CASE \E ts \in Times \cup {None}, m \in {"AI", "FIFO"} : Resync(ts, m)
  BY <1>3, ResyncPool DEF Pool!Next
<1>4. CASE SetFrameRate(Interval) \/ UNCHANGED vars
  <2>1. UNCHANGED <<mode, ring>>
    BY <1>4 DEF SetFrameRate, vars
  <2> QED
    BY <2>1 DEF ring, Pending, Untimed, Distance, At, poolvars
<1> QED
  BY <1>1, <1>2, <1>3, <1>4 DEF Next

LEMMA InitPool == Init => Pool!Init
<1>1. Init => Distance = 0 /\ invalid = 0 /\ cnt = 0
  BY TSManagerAssumption DEF Init, Distance
<1> QED
  BY <1>1 DEF Pending, Untimed, Pool!Init

\* The ring with its counters, scans and moved entries implements the pool:
\* a stream timestamp is sent at most once, none is lost, the smallest goes
\* first, and frames without one are owed one each.
THEOREM ImplementsPool == Spec => PoolSpec
<1>1. Spec => Pool!Init /\ [][Pool!Next]_poolvars
  BY SpecIInv, InitPool, StepPool, PTL DEF Spec
<1> QED
  BY <1>1 DEF PoolSpec, Pool!Spec, poolvars

-------------------------------------------------------------------------------
(* Mode FIFO *)

FifoStep ==
  mode = "FIFO" /\ mode' = "FIFO" /\ ~(rx' = 0 /\ tx' = 0 /\ cnt' = 0) =>
    \A k \in 0 .. Distance - 1 :
      \/ ts_buf[At(k)].ts = ts_buf'[(tx' + k)  % BufSize].ts /\ tx' = tx
      \/ k > 0 /\ tx' = Inc(tx)
           /\ ts_buf[At(k)].ts = ts_buf'[(tx' + k - 1) % BufSize].ts
      \/ k = 0 /\ tx' = Inc(tx) /\ last_sent' = ts_buf[tx].ts

LEMMA StepFifo == IInv /\ [Next]_vars => FifoStep
<1> SUFFICES ASSUME IInv, [Next]_vars, mode = "FIFO", mode' = "FIFO",
                    ~(rx' = 0 /\ tx' = 0 /\ cnt' = 0),
                    NEW k \in 0 .. Distance - 1
             PROVE  \/ /\ ts_buf[At(k)].ts = ts_buf'[(tx' + k)  % BufSize].ts
                       /\ tx' = tx
                    \/ /\ k > 0 /\ tx' = Inc(tx)
                       /\ ts_buf[At(k)].ts = ts_buf'[(tx' + k - 1) % BufSize].ts
                    \/ k = 0 /\ tx' = Inc(tx) /\ last_sent' = ts_buf[tx].ts
  BY DEF FifoStep
<1>1. /\ rx \in Slots /\ tx \in Slots /\ ts_buf \in [Slots -> Stamp]
      /\ cnt = Distance + invalid /\ invalid = 0 /\ Distance \in 0 .. BufSize - 1
  BY DistanceRange DEF IInv, Numbers, RingAccounting
<1>2. InUse(At(k)) /\ At(k) \in Slots
  BY <1>1, AtInUse DEF InUse
<1>3. ASSUME UNCHANGED <<ts_buf, tx>>
      PROVE  ts_buf[At(k)].ts = ts_buf'[(tx' + k)  % BufSize].ts /\ tx' = tx
  BY <1>3 DEF At
<1>4. ASSUME NEW ts \in Times \cup {None}, NEW key \in Keys \cup {NoKey},
             Receive(ts, key)
      PROVE  ts_buf[At(k)].ts = ts_buf'[(tx' + k)  % BufSize].ts /\ tx' = tx
  <2>1. CASE ReceiveInOrder(ts) /\ cnt < BufSize - 1
    <3>1. ts_buf' = [ts_buf EXCEPT ![rx].ts = ts] /\ rx' = Inc(rx) /\ tx' = tx
      BY <2>1 DEF ReceiveInOrder
    <3>2. ~InUse(rx)
      BY <1>1, <2>1, <3>1, Fill
    <3>3. ts_buf'[At(k)] = ts_buf[At(k)]
      BY <1>1, <1>2, <3>1, <3>2
    <3> QED
      BY <3>1, <3>3 DEF At
  <2>2. CASE UNCHANGED <<ts_buf, tx>>
    BY <1>3, <2>2
  <2> QED
    BY <1>4, <2>1, <2>2 DEF Receive, ReceiveTimed, ReceiveUntimed
<1>5. CASE SendInOrder
  <2>1. tx' = Inc(tx) /\ last_sent' = ts_buf[tx].ts /\ ts_buf' = ts_buf
    BY <1>5 DEF SendInOrder
  <2>2. CASE k > 0
    <3>1. At(k) = IF tx + k < BufSize THEN tx + k ELSE tx + k - BufSize
      BY <1>1, Wrap, TSManagerAssumption DEF At, Slots
    <3> DEFINE next == Inc(tx)
    <3>2. next = IF tx + 1 = BufSize THEN 0 ELSE tx + 1
      BY <1>1, IncWraps
    <3>3. next \in Slots /\ k - 1 \in Slots
      BY <1>1, <2>2, <3>2, TSManagerAssumption DEF Slots
    <3> HIDE DEF next
    <3>4. (next + (k - 1)) % BufSize
             = IF next + (k - 1) < BufSize THEN next + (k - 1)
                                           ELSE next + (k - 1) - BufSize
      BY <3>3, Wrap
    <3>5. next + k - 1 = next + (k - 1)
      BY <3>3 DEF Slots
    <3>6. (next + k - 1) % BufSize = At(k)
      BY <1>1, <3>1, <3>2, <3>3, <3>4, <3>5, TSManagerAssumption DEF Slots
    <3>7. tx' = next
      BY <2>1 DEF next
    <3> QED
      BY <2>1, <2>2, <3>6, <3>7 DEF next
  <2>3. CASE k = 0
    BY <2>1, <2>3
  <2> QED
    BY <2>2, <2>3
<1>6. ASSUME NEW key \in Keys \cup {NoKey}, Send(key), ~SendInOrder
      PROVE  UNCHANGED <<ts_buf, tx>>
  BY <1>6 DEF Send, SendExtrapolated, SendTimed, SendNothingStored, ring
<1>7. ASSUME NEW ts, NEW m, Resync(ts, m) PROVE FALSE
  BY <1>7 DEF Resync
<1>8. CASE SetFrameRate(Interval) \/ UNCHANGED vars
  BY <1>3, <1>8 DEF SetFrameRate, vars, ring
<1> QED
  BY <1>3, <1>4, <1>5, <1>6, <1>7, <1>8 DEF Next

\* Timestamps leave in mode FIFO in the order they came, whatever the ring.
THEOREM FifoCorrect == Spec => FifoOrder
<1>1. Spec => [][FifoStep]_vars
  BY SpecIInv, StepFifo, PTL DEF Spec
<1> QED
  BY <1>1, PTL DEF FifoOrder, FifoStep

-------------------------------------------------------------------------------
(* The sum of the history.  What FoldFunction computes is a function given  *)
(* by recursion over sets of indices: it exists, as no number of indices is *)
(* the least for which it does not, and what is true of it is so because no *)
(* set of indices is a smallest counterexample.                             *)

Picked(s) == CHOOSE x \in s : TRUE

Rest(s) == s \ {Picked(s)}

\* FoldFunction adds the values one by one: the sum of h over s, over what is
\* left of s without the index picked first, and so on.
IsPartial(it, h) ==
  it = [s \in SUBSET DOMAIN h |->
          IF s = {} THEN 0 ELSE h[Picked(s)] + it[Rest(s)]]

Partial(h) == CHOOSE it : IsPartial(it, h)

LEMMA FoldIsPartial ==
  ASSUME NEW h PROVE FoldFunction(+, 0, h) = Partial(h)[DOMAIN h]
  BY DEF FoldFunction, FoldFunctionOnSet, MapThenFoldSet, Partial, IsPartial,
         Picked, Rest

\* Taking an index out of a set makes it smaller by one.
LEMMA RestSmaller ==
  ASSUME NEW D, IsFiniteSet(D), NEW s \in SUBSET D, s # {}
  PROVE  /\ Picked(s) \in s /\ Rest(s) \in SUBSET D
         /\ Cardinality(s) \in Nat /\ Cardinality(Rest(s)) \in Nat
         /\ Cardinality(s) = Cardinality(Rest(s)) + 1
<1>1. Picked(s) \in s
  BY Zenon DEF Picked
<1>2. IsFiniteSet(s)
  BY FS_Subset
<1>3. IsFiniteSet(Rest(s)) /\ Cardinality(Rest(s)) = Cardinality(s) - 1
  BY <1>1, <1>2, FS_RemoveElement DEF Rest
<1>4. Cardinality(s) \in Nat /\ Cardinality(Rest(s)) \in Nat
  BY <1>2, <1>3, FS_CardinalityType
<1>5. Rest(s) \in SUBSET D
  BY DEF Rest
<1> QED
  BY <1>1, <1>3, <1>4, <1>5

\* Among sets of indices there is one that the rest of it is not among.
LEMMA Smallest ==
  ASSUME NEW D, IsFiniteSet(D), NEW Bad \in SUBSET SUBSET D, Bad # {}
  PROVE  \E s \in Bad : s # {} => Rest(s) \notin Bad
<1>1. \A s \in Bad : Cardinality(s) \in Nat
  <2>1. ASSUME NEW s \in Bad PROVE IsFiniteSet(s)
    BY FS_Subset
  <2> QED
    BY <2>1, FS_CardinalityType
<1> DEFINE T == {Cardinality(s) : s \in Bad}
<1>2. PICK n \in T : \A x \in T : n <= x
  <2>1. T \in SUBSET Nat /\ T # {}
    BY <1>1
  <2> HIDE DEF T
  <2> QED
    BY <2>1, NatMin
<1>3. PICK s \in Bad : Cardinality(s) = n
  BY <1>2
<1>4. ASSUME s # {}, Rest(s) \in Bad PROVE FALSE
  <2>1. /\ Cardinality(s) \in Nat /\ Cardinality(Rest(s)) \in Nat
        /\ Cardinality(s) = Cardinality(Rest(s)) + 1
    BY <1>4, RestSmaller
  <2>2. Cardinality(s) <= Cardinality(Rest(s))
    BY <1>2, <1>3, <1>4
  <2> QED
    BY <2>1, <2>2
<1> QED
  BY <1>3, <1>4

\* The sums over the sets of at most n indices.
Small(D, n) == {s \in SUBSET D : Cardinality(s) <= n}

SumsUpTo(g, h, n) ==
  g = [s \in Small(DOMAIN h, n) |->
         IF s = {} THEN 0 ELSE h[Picked(s)] + g[Rest(s)]]

LEMMA SumsExtend ==
  ASSUME NEW h, IsFiniteSet(DOMAIN h), NEW n \in Nat, NEW g, SumsUpTo(g, h, n)
  PROVE  \E f : SumsUpTo(f, h, n + 1)
<1> DEFINE D == DOMAIN h
           f == [s \in Small(D, n + 1) |->
                   IF s = {} THEN 0 ELSE h[Picked(s)] + g[Rest(s)]]
<1>1. ASSUME NEW s \in Small(D, n + 1), s # {} PROVE f[Rest(s)] = g[Rest(s)]
  <2>1. /\ Rest(s) \in SUBSET D
        /\ Cardinality(s) \in Nat /\ Cardinality(Rest(s)) \in Nat
        /\ Cardinality(s) = Cardinality(Rest(s)) + 1
        /\ Cardinality(s) <= n + 1
    BY <1>1, RestSmaller DEF Small
  <2>2. Rest(s) \in Small(D, n) /\ Rest(s) \in Small(D, n + 1)
    BY <2>1 DEF Small
  <2>3. g[Rest(s)] = IF Rest(s) = {} THEN 0 ELSE h[Picked(Rest(s))] + g[Rest(Rest(s))]
    BY <2>2, Zenon DEF SumsUpTo
  <2>4. f[Rest(s)] = IF Rest(s) = {} THEN 0 ELSE h[Picked(Rest(s))] + g[Rest(Rest(s))]
    BY <2>2, Zenon
  <2> QED
    BY <2>3, <2>4, Zenon
<1>2. f = [s \in Small(D, n + 1) |->
             IF s = {} THEN 0 ELSE h[Picked(s)] + f[Rest(s)]]
  <2>1. \A s \in Small(D, n + 1) :
          (IF s = {} THEN 0 ELSE h[Picked(s)] + g[Rest(s)])
            = IF s = {} THEN 0 ELSE h[Picked(s)] + f[Rest(s)]
    BY <1>1, Zenon
  <2> QED
    BY <2>1, Zenon
<1> HIDE DEF f
<1> QED
  BY <1>2, Zenon DEF SumsUpTo

LEMMA SumsExist ==
  ASSUME NEW h, IsFiniteSet(DOMAIN h), NEW n \in Nat
  PROVE  \E g : SumsUpTo(g, h, n)
<1> DEFINE T == {k \in Nat : ~ \E g : SumsUpTo(g, h, k)}
<1>1. T = {}
  <2> SUFFICES ASSUME T # {} PROVE FALSE
    OBVIOUS
  <2>1. PICK m \in T : \A x \in T : m <= x
    <3>1. T \in SUBSET Nat
      OBVIOUS
    <3> HIDE DEF T
    <3> QED
      BY <3>1, NatMin
  <2>2. m # 0
    <3>1. ASSUME NEW s \in Small(DOMAIN h, 0) PROVE s = {}
      <4>1. s \in SUBSET DOMAIN h /\ Cardinality(s) <= 0
        BY DEF Small
      <4>2. ASSUME s # {} PROVE FALSE
        BY <4>1, <4>2, RestSmaller
      <4> QED
        BY <4>2
    <3> DEFINE g == [s \in Small(DOMAIN h, 0) |-> 0]
    <3>2. \A s \in Small(DOMAIN h, 0) :
            0 = IF s = {} THEN 0 ELSE h[Picked(s)] + g[Rest(s)]
      BY <3>1, Zenon
    <3>3. g = [s \in Small(DOMAIN h, 0) |->
                 IF s = {} THEN 0 ELSE h[Picked(s)] + g[Rest(s)]]
      BY <3>2, Zenon
    <3> HIDE DEF g
    <3>4. SumsUpTo(g, h, 0)
      BY <3>3, Zenon DEF SumsUpTo
    <3> QED
      BY <3>4, Zenon
  <2>3. m - 1 \in Nat /\ m - 1 \notin T /\ m = (m - 1) + 1
    BY <2>1, <2>2
  <2>4. PICK g : SumsUpTo(g, h, m - 1)
    BY <2>3
  <2>5. \E f : SumsUpTo(f, h, m)
    BY <2>3, <2>4, SumsExtend
  <2> QED
    BY <2>1, <2>5
<1> QED
  BY <1>1

\* The sums exist: the recursion of FoldFunction determines them.
LEMMA PartialIs ==
  ASSUME NEW h, IsFiniteSet(DOMAIN h)
  PROVE  \A s \in SUBSET DOMAIN h :
           Partial(h)[s] = IF s = {} THEN 0 ELSE h[Picked(s)] + Partial(h)[Rest(s)]
<1> DEFINE D == DOMAIN h
           n == Cardinality(D)
<1>1. n \in Nat /\ SUBSET D = Small(D, n)
  <2>1. n \in Nat
    BY FS_CardinalityType
  <2>2. ASSUME NEW s \in SUBSET D PROVE Cardinality(s) <= n
    BY FS_Subset
  <2> QED
    BY <2>1, <2>2 DEF Small
<1> HIDE DEF n
<1>2. PICK g : SumsUpTo(g, h, n)
  BY <1>1, SumsExist
<1>3. IsPartial(g, h)
  BY <1>1, <1>2, Zenon DEF IsPartial, SumsUpTo
<1>4. IsPartial(Partial(h), h)
  BY <1>3, Zenon DEF Partial
<1> QED
  BY <1>4, Zenon DEF IsPartial

LEMMA TimesNext ==
  ASSUME NEW a \in Int, NEW n \in Int PROVE a * (n + 1) = a + a * n
  BY Z3

\* Sums of natural numbers are natural numbers.
LEMMA SumsNat ==
  ASSUME NEW D, IsFiniteSet(D), NEW h \in [D -> Nat]
  PROVE  \A s \in SUBSET D : Partial(h)[s] \in Nat
<1> DEFINE Bad == {s \in SUBSET D : Partial(h)[s] \notin Nat}
<1>1. \A s \in SUBSET D :
        Partial(h)[s] = IF s = {} THEN 0 ELSE h[Picked(s)] + Partial(h)[Rest(s)]
  BY PartialIs, Zenon
<1>2. ASSUME NEW s \in Bad, s # {} => Rest(s) \notin Bad PROVE FALSE
  <2>1. CASE s = {}
    BY <1>1, <2>1
  <2>2. CASE s # {}
    <3>1. Picked(s) \in D /\ Rest(s) \in SUBSET D
      BY <2>2, RestSmaller
    <3>2. Partial(h)[Rest(s)] \in Nat /\ h[Picked(s)] \in Nat
      BY <1>2, <2>2, <3>1
    <3>3. Partial(h)[s] = h[Picked(s)] + Partial(h)[Rest(s)]
      BY <1>1, <2>2
    <3> QED
      BY <3>2, <3>3
  <2> QED
    BY <2>1, <2>2
<1>3. Bad \in SUBSET SUBSET D
  OBVIOUS
<1>4. Bad = {}
  <2> HIDE DEF Bad
  <2> QED
    BY <1>2, <1>3, Smallest
<1> QED
  BY <1>4

\* A sum of values that are at least, or at most, m.
LEMMA SumsBounded ==
  ASSUME NEW D, IsFiniteSet(D), NEW h \in [D -> Nat], NEW m \in Int
  PROVE  /\ (\A i \in D : m <= h[i])
              => \A s \in SUBSET D : m * Cardinality(s) <= Partial(h)[s]
         /\ (\A i \in D : h[i] <= m)
              => \A s \in SUBSET D : Partial(h)[s] <= m * Cardinality(s)
<1>1. \A s \in SUBSET D :
        /\ Partial(h)[s] \in Nat
        /\ Partial(h)[s] = IF s = {} THEN 0 ELSE h[Picked(s)] + Partial(h)[Rest(s)]
  BY PartialIs, SumsNat
<1>2. Cardinality({}) = 0 /\ m * 0 = 0
  BY FS_EmptySet
<1>3. ASSUME NEW s \in SUBSET D, s # {}
      PROVE  /\ Rest(s) \in SUBSET D /\ h[Picked(s)] \in Nat /\ Picked(s) \in D
             /\ Partial(h)[Rest(s)] \in Nat
             /\ Partial(h)[s] = h[Picked(s)] + Partial(h)[Rest(s)]
             /\ m * Cardinality(Rest(s)) \in Int
             /\ m * Cardinality(s) = m + m * Cardinality(Rest(s))
  <2>1. /\ Picked(s) \in D /\ Rest(s) \in SUBSET D
        /\ Cardinality(Rest(s)) \in Nat
        /\ Cardinality(s) = Cardinality(Rest(s)) + 1
    BY <1>3, RestSmaller
  <2>2. m * Cardinality(s) = m + m * Cardinality(Rest(s))
    BY <2>1, TimesNext
  <2>3. m * Cardinality(Rest(s)) \in Int
    BY <2>1
  <2> QED
    BY <1>1, <1>3, <2>1, <2>2, <2>3
<1>4. ASSUME \A i \in D : m <= h[i]
      PROVE  \A s \in SUBSET D : m * Cardinality(s) <= Partial(h)[s]
  <2> DEFINE Bad == {s \in SUBSET D : ~(m * Cardinality(s) <= Partial(h)[s])}
  <2>1. ASSUME NEW s \in Bad, s # {} => Rest(s) \notin Bad PROVE FALSE
    <3>1. CASE s = {}
      BY <1>1, <1>2, <2>1, <3>1
    <3>2. CASE s # {}
      <4>1. m * Cardinality(Rest(s)) <= Partial(h)[Rest(s)]
        BY <1>3, <2>1, <3>2
      <4>2. m <= h[Picked(s)]
        BY <1>3, <1>4, <3>2
      <4>3. ~(m * Cardinality(s) <= Partial(h)[s])
        BY <2>1
      <4> QED
        BY <1>3, <3>2, <4>1, <4>2, <4>3
    <3> QED
      BY <3>1, <3>2
  <2>2. Bad \in SUBSET SUBSET D
    OBVIOUS
  <2>3. Bad = {}
    <3> HIDE DEF Bad
    <3> QED
      BY <2>1, <2>2, Smallest
  <2> QED
    BY <2>3
<1>5. ASSUME \A i \in D : h[i] <= m
      PROVE  \A s \in SUBSET D : Partial(h)[s] <= m * Cardinality(s)
  <2> DEFINE Bad == {s \in SUBSET D : ~(Partial(h)[s] <= m * Cardinality(s))}
  <2>1. ASSUME NEW s \in Bad, s # {} => Rest(s) \notin Bad PROVE FALSE
    <3>1. CASE s = {}
      BY <1>1, <1>2, <2>1, <3>1
    <3>2. CASE s # {}
      <4>1. Partial(h)[Rest(s)] <= m * Cardinality(Rest(s))
        BY <1>3, <2>1, <3>2
      <4>2. h[Picked(s)] <= m
        BY <1>3, <1>5, <3>2
      <4>3. ~(Partial(h)[s] <= m * Cardinality(s))
        BY <2>1
      <4> QED
        BY <1>3, <3>2, <4>1, <4>2, <4>3
    <3> QED
      BY <3>1, <3>2
  <2>2. Bad \in SUBSET SUBSET D
    OBVIOUS
  <2>3. Bad = {}
    <3> HIDE DEF Bad
    <3> QED
      BY <2>1, <2>2, Smallest
  <2> QED
    BY <2>3
<1> QED
  BY <1>4, <1>5

\* Functions that differ at one index: so do, by the difference, the sums the
\* index is part of, and no others.
LEMMA SumsDiffer ==
  ASSUME NEW D, IsFiniteSet(D), NEW g \in [D -> Nat], NEW h \in [D -> Nat],
         NEW j \in D, \A i \in D \ {j} : g[i] = h[i]
  PROVE  \A s \in SUBSET D :
           Partial(g)[s]
             = IF j \in s THEN Partial(h)[s] - h[j] + g[j] ELSE Partial(h)[s]
<1>1. g[j] \in Nat /\ \A i \in D : i # j => g[i] = h[i]
  OBVIOUS
<1>2. \A s \in SUBSET D :
        Partial(g)[s] = IF s = {} THEN 0 ELSE g[Picked(s)] + Partial(g)[Rest(s)]
  <2>1. DOMAIN g = D
    OBVIOUS
  <2> QED
    BY <2>1, PartialIs, Zenon
<1>3. \A s \in SUBSET D :
        Partial(h)[s] = IF s = {} THEN 0 ELSE h[Picked(s)] + Partial(h)[Rest(s)]
  BY PartialIs, Zenon
<1>4. \A s \in SUBSET D : Partial(h)[s] \in Nat /\ Partial(g)[s] \in Nat
  BY SumsNat
<1> DEFINE Same(s) == Partial(g)[s]
                        = IF j \in s THEN Partial(h)[s] - h[j] + g[j]
                                      ELSE Partial(h)[s]
           Bad == {s \in SUBSET D : ~Same(s)}
<1>5. ASSUME NEW s \in Bad, s # {} => Rest(s) \notin Bad PROVE FALSE
  <2>1. CASE s = {}
    BY <1>2, <1>3, <1>5, <2>1
  <2>2. CASE s # {}
    <3>1. /\ Picked(s) \in s /\ Picked(s) \in D /\ Rest(s) \in SUBSET D
      BY <2>2, RestSmaller
    <3>2. Same(Rest(s))
      BY <1>5, <2>2, <3>1
    <3>3. /\ Partial(g)[s] = g[Picked(s)] + Partial(g)[Rest(s)]
          /\ Partial(h)[s] = h[Picked(s)] + Partial(h)[Rest(s)]
      BY <1>2, <1>3, <2>2
    <3>4. /\ Partial(g)[Rest(s)] \in Nat /\ Partial(h)[Rest(s)] \in Nat
          /\ h[Picked(s)] \in Nat /\ h[j] \in Nat
      BY <1>4, <3>1
    <3>5. CASE Picked(s) = j
      <4>1. j \in s /\ j \notin Rest(s)
        BY <3>1, <3>5 DEF Rest
      <4>2. Partial(g)[Rest(s)] = Partial(h)[Rest(s)]
        BY <3>2, <4>1
      <4>3. Same(s)
        BY <1>1, <3>3, <3>4, <3>5, <4>1, <4>2
      <4> QED
        BY <1>5, <4>3
    <3>6. CASE Picked(s) # j
      <4>1. g[Picked(s)] = h[Picked(s)] /\ (j \in s <=> j \in Rest(s))
        BY <1>1, <3>1, <3>6 DEF Rest
      <4>2. Same(s)
        BY <3>2, <3>3, <3>4, <4>1
      <4> QED
        BY <1>5, <4>2
    <3> QED
      BY <3>5, <3>6
  <2> QED
    BY <2>1, <2>2
<1>6. Bad \in SUBSET SUBSET D
  OBVIOUS
<1>7. Bad = {}
  <2> HIDE DEF Bad
  <2> QED
    BY <1>5, <1>6, Smallest
<1> QED
  BY <1>7

Indices == 0 .. HistorySize - 1

LEMMA IndicesFinite == IsFiniteSet(Indices) /\ Cardinality(Indices) = HistorySize
<1>1. /\ HistorySize \in Nat \ {0} /\ HistorySize - 1 \in Int
      /\ (HistorySize - 1) - 0 + 1 = HistorySize /\ ~(0 > HistorySize - 1)
  BY TSManagerAssumption
<1>2. IsFiniteSet(Indices)
  BY <1>1, FS_Interval DEF Indices
<1>3. Cardinality(Indices) = IF 0 > HistorySize - 1 THEN 0 ELSE (HistorySize - 1) - 0 + 1
  BY <1>1, FS_Interval DEF Indices
<1> QED
  BY <1>1, <1>2, <1>3

\* hist_total adds up the durations.
Summed == hist_total = Partial(hist)[Indices]

\* A history of equal durations, as at creation.
LEMMA SumAlike ==
  Partial([i \in 0 .. HistorySize - 1 |-> Interval])[Indices] = Interval * HistorySize
<1> DEFINE h == [i \in Indices |-> Interval]
<1>1. h \in [Indices -> Nat] /\ DOMAIN h = Indices /\ \A i \in Indices : h[i] = Interval
  BY TSManagerAssumption
<1>2. h = [i \in 0 .. HistorySize - 1 |-> Interval]
  BY DEF Indices
<1> HIDE DEF h
<1>3. Interval \in Int /\ Interval * HistorySize \in Int
      /\ \A i \in Indices : Interval <= h[i] /\ h[i] <= Interval
  BY <1>1, TSManagerAssumption
<1>4. /\ Interval * Cardinality(Indices) <= Partial(h)[Indices]
      /\ Partial(h)[Indices] <= Interval * Cardinality(Indices)
      /\ Partial(h)[Indices] \in Nat
  <2>1. Indices \in SUBSET Indices
    OBVIOUS
  <2> QED
    BY <1>1, <1>3, <2>1, IndicesFinite, SumsBounded, SumsNat
<1>5. Partial(h)[Indices] = Interval * HistorySize
  BY <1>3, <1>4, IndicesFinite
<1> QED
  BY <1>2, <1>5, Zenon

\* One duration is replaced by another.
LEMMA SumReplaced ==
  ASSUME Numbers, Summed, NEW d \in Nat,
         hist' = [hist EXCEPT ![hist_tx] = d],
         hist_total' = hist_total - hist[hist_tx] + d
  PROVE  Summed'
<1>1. hist \in [Indices -> Nat] /\ hist_tx \in Indices
  BY DEF Numbers, Indices
<1>2. /\ hist' \in [Indices -> Nat] /\ hist'[hist_tx] = d
      /\ \A i \in Indices \ {hist_tx} : hist'[i] = hist[i]
  BY <1>1
<1>3. Indices \in SUBSET Indices
  OBVIOUS
<1>4. \A g, h \in [Indices -> Nat], j \in Indices :
        (\A i \in Indices \ {j} : g[i] = h[i])
          => Partial(g)[Indices] = Partial(h)[Indices] - h[j] + g[j]
  BY <1>3, IndicesFinite, SumsDiffer
<1>5. Partial(hist')[Indices] = Partial(hist)[Indices] - hist[hist_tx] + d
  BY <1>1, <1>2, <1>4, Zenon
<1> QED
  BY <1>5, Zenon DEF Summed, Indices

LEMMA SumSent ==
  ASSUME Numbers, Summed, NEW ts \in Int, Sent(ts) PROVE Summed'
<1> DEFINE duration == Clamped(ts) - last_sent
<1>1. History(duration)
  BY DEF Sent
<1>2. ~first_tx => duration \in Nat
  BY DEF Clamped, Numbers
<1> HIDE DEF duration
<1>3. \/ UNCHANGED <<hist, hist_total>>
      \/ /\ ~first_tx /\ hist' = [hist EXCEPT ![hist_tx] = duration]
         /\ hist_total' = hist_total - hist[hist_tx] + duration
  BY <1>1, Zenon DEF History
<1> QED
  BY <1>2, <1>3, SumReplaced DEF Summed

LEMMA InitSummed == Init => Summed
  BY SumAlike DEF Init, Summed

LEMMA NextSummed == IInv /\ Summed /\ [Next]_vars => Summed'
<1> SUFFICES ASSUME IInv, Summed, [Next]_vars PROVE Summed'
  OBVIOUS
<1>0. Numbers
  BY DEF IInv
<1>1. ASSUME UNCHANGED <<hist, hist_total>> PROVE Summed'
  BY <1>1 DEF Summed
<1>2. ASSUME NEW key, Send(key) PROVE Summed'
  <2>1. CASE cnt > 0 /\ SendExtrapolated(key)
    BY <1>0, <2>1, SumSent, ExtrapolatedInt DEF SendExtrapolated
  <2>2. CASE cnt > 0 /\ SendTimed(key)
    <3>1. PICK index : /\ index = At(Candidate(key)) /\ Sent(ts_buf[index].ts)
      BY <2>2, Zenon DEF SendTimed
    <3>2. mode = "AI" /\ Scanned(key) # {}
      BY <2>2 DEF SendTimed
    <3>3. Candidate(key) \in 0 .. Distance - 1
      BY <3>2, CandidateFound DEF Scanned
    <3>4. index \in Slots
      BY <3>1, <3>3, AtInUse DEF IInv, Numbers, InUse
    <3>5. ts_buf[index].ts \in Int
      BY <1>0, <3>4 DEF Numbers, Stamp
    <3> QED
      BY <1>0, <3>1, <3>5, SumSent
  <2>3. CASE SendInOrder \/ SendNothingStored
    BY <1>1, <2>3 DEF SendInOrder, SendNothingStored
  <2> QED
    BY <1>2, <2>1, <2>2, <2>3 DEF Send
<1>3. CASE SetFrameRate(Interval)
  BY <1>3, SumAlike DEF SetFrameRate, Summed
<1>4. ASSUME NEW ts, NEW key, Receive(ts, key) PROVE Summed'
  BY <1>1, <1>4 DEF Receive, output
<1>5. ASSUME NEW ts, NEW m, Resync(ts, m) PROVE Summed'
  BY <1>1, <1>5 DEF Resync
<1>6. CASE UNCHANGED vars
  BY <1>1, <1>6 DEF vars, output
<1> QED
  BY <1>2, <1>3, <1>4, <1>5, <1>6 DEF Next

\* The quotient and what it leaves.
LEMMA Quotient ==
  ASSUME NEW a \in Int, NEW n \in Nat \ {0}
  PROVE  a \div n \in Int /\ n * (a \div n) <= a /\ a < n * (a \div n) + n
  BY Z3

\* The total is the sum, and between HistorySize times the least and the
\* greatest duration: the average is between them.
LEMMA AverageBetween ==
  ASSUME Numbers, Summed
  PROVE  /\ hist_total \in Nat
         /\ \E i \in DOMAIN hist : hist[i] <= Adaptive
         /\ \E j \in DOMAIN hist : Adaptive <= hist[j]
<1>1. hist \in [Indices -> Nat] /\ DOMAIN hist = Indices
  BY DEF Numbers, Indices
<1>2. hist_total = Partial(hist)[Indices] /\ hist_total \in Nat
  BY <1>1, IndicesFinite, SumsNat DEF Summed
<1> DEFINE N == HistorySize
           a == Adaptive
<1>3. N \in Nat \ {0}
  BY TSManagerAssumption
<1>4. a \in Int /\ N * a <= hist_total /\ hist_total < N * a + N
  <2>1. HistorySize \in Nat \ {0} /\ hist_total \in Int
    BY <1>2, <1>3
  <2>2. /\ hist_total \div HistorySize \in Int
        /\ HistorySize * (hist_total \div HistorySize) <= hist_total
        /\ hist_total < HistorySize * (hist_total \div HistorySize) + HistorySize
    BY <2>1, Quotient, Zenon
  <2> QED
    BY <2>2, Zenon DEF Adaptive
<1> HIDE DEF a, N
<1>5. \E i \in Indices : hist[i] <= a
  <2> SUFFICES ASSUME \A i \in Indices : ~(hist[i] <= a) PROVE FALSE
    OBVIOUS
  <2>1. a + 1 \in Int /\ \A i \in Indices : a + 1 <= hist[i]
    BY <1>1, <1>4
  <2>2. (a + 1) * N <= hist_total
    BY <1>1, <1>2, <2>1, IndicesFinite, SumsBounded DEF N
  <2>3. (a + 1) * N = N * a + N
    BY <1>3, <1>4, Z3
  <2> QED
    BY <1>2, <1>3, <1>4, <2>2, <2>3
<1>6. \E j \in Indices : a <= hist[j]
  <2> SUFFICES ASSUME \A j \in Indices : ~(a <= hist[j]) PROVE FALSE
    OBVIOUS
  <2>1. a - 1 \in Int /\ \A j \in Indices : hist[j] <= a - 1
    BY <1>1, <1>4
  <2>2. hist_total <= (a - 1) * N
    BY <1>1, <1>2, <2>1, IndicesFinite, SumsBounded DEF N
  <2>3. (a - 1) * N = N * a - N
    BY <1>3, <1>4, Z3
  <2> QED
    BY <1>2, <1>3, <1>4, <2>2, <2>3
<1> QED
  BY <1>1, <1>2, <1>5, <1>6 DEF a

LEMMA SpecSummed == Spec => []Summed
  BY SpecIInv, InitSummed, NextSummed, PTL DEF Spec

\* The running total stays the sum of the durations it averages, through
\* replacement, restart and change of the frame rate, so that the average
\* lies between the shortest and the longest of them.
THEOREM AverageCorrect == Spec => []HistoryTotal
<1>1. IInv /\ Summed => HistoryTotal
  <2> SUFFICES ASSUME IInv, Summed PROVE HistoryTotal
    OBVIOUS
  <2>1. /\ \E i \in DOMAIN hist : hist[i] <= Adaptive
        /\ \E j \in DOMAIN hist : Adaptive <= hist[j]
    BY AverageBetween DEF IInv
  <2>2. hist_total = FoldFunction(+, 0, hist)
    <3>1. DOMAIN hist = Indices
      BY DEF IInv, Numbers, Indices
    <3> QED
      BY <3>1, FoldIsPartial, Zenon DEF Summed
  <2> QED
    BY <2>1, <2>2 DEF HistoryTotal
<1> QED
  BY <1>1, SpecIInv, SpecSummed, PTL

-------------------------------------------------------------------------------
(* Timestamps do not go back *)

MonotoneStep == mode' = "AI" /\ ~first_tx /\ ~first_tx' => last_sent' >= last_sent

LEMMA StepMonotone == IInv /\ Summed /\ [Next]_vars => MonotoneStep
<1> SUFFICES ASSUME IInv, Summed, [Next]_vars, mode' = "AI", ~first_tx, ~first_tx'
             PROVE  last_sent' >= last_sent
  BY DEF MonotoneStep
<1>1. last_sent \in Int
  BY DEF IInv, Numbers
<1>2. Adaptive \in Int /\ Adaptive >= 0
  <2>1. PICK i \in DOMAIN hist : hist[i] <= Adaptive
    BY AverageBetween DEF IInv
  <2>2. hist[i] \in Nat /\ Adaptive \in Int
    BY AdaptiveInt DEF IInv, Numbers
  <2> QED
    BY <2>1, <2>2
<1>3. ASSUME NEW ts \in Int, Sent(ts) PROVE last_sent' >= last_sent
  <2>1. last_sent' = IF ts < last_sent THEN last_sent ELSE ts
    BY <1>3 DEF Sent, Clamped
  <2> QED
    BY <1>1, <2>1
<1>4. ASSUME NEW key \in Keys \cup {NoKey}, Send(key) PROVE last_sent' >= last_sent
  <2>1. CASE cnt > 0 /\ SendExtrapolated(key)
    BY <1>3, <2>1, ExtrapolatedInt DEF SendExtrapolated, IInv
  <2>2. CASE cnt > 0 /\ SendTimed(key)
    <3>1. PICK index : index = At(Candidate(key)) /\ Sent(ts_buf[index].ts)
      BY <2>2, Zenon DEF SendTimed
    <3>2. mode = "AI" /\ Scanned(key) # {}
      BY <2>2 DEF SendTimed
    <3>3. Candidate(key) \in 0 .. Distance - 1
      BY <3>2, CandidateFound DEF Scanned
    <3>4. index \in Slots
      BY <3>1, <3>3, AtInUse DEF IInv, Numbers, InUse
    <3>5. ts_buf[index].ts \in Int
      BY <3>4 DEF IInv, Numbers, Stamp
    <3> QED
      BY <1>3, <3>1, <3>5
  <2>3. CASE SendInOrder
    BY <1>4, <2>3 DEF Send, SendInOrder
  <2>4. CASE SendNothingStored
    <3>1. last_sent' = last_sent \/ last_sent' = last_sent + Adaptive
      BY <2>4 DEF SendNothingStored, Extrapolated
    <3> QED
      BY <1>1, <1>2, <3>1
  <2> QED
    BY <1>4, <2>1, <2>2, <2>3, <2>4 DEF Send
<1>5. ASSUME NEW ts, NEW m, Resync(ts, m) PROVE FALSE
  BY <1>5 DEF Resync
<1>6. CASE UNCHANGED last_sent
  BY <1>1, <1>6
<1>7. \/ UNCHANGED last_sent
      \/ \E key \in Keys \cup {NoKey} : Send(key)
      \/ \E ts \in Times \cup {None}, m \in {"AI", "FIFO"} : Resync(ts, m)
  BY DEF Next, Receive, SetFrameRate, output, vars
<1> QED
  BY <1>4, <1>5, <1>6, <1>7

\* Within a segment an output timestamp is never smaller than the one before,
\* also when stream and extrapolated timestamps alternate: what is sent is
\* clamped, and the average added to extrapolate is not negative.
THEOREM NeverBack == Spec => Monotone
<1>1. Spec => [][MonotoneStep]_vars
  BY SpecIInv, SpecSummed, StepMonotone, PTL DEF Spec
<1> QED
  BY <1>1, PTL DEF Monotone, MonotoneStep
===============================================================================
