------------------------------ MODULE TSManager ------------------------------
(***************************************************************************)
(* libs/me/mfw_gst_ts.c: the timestamp manager of the video decoders.      *)
(* TSManagerReceive stores the timestamp of a frame that goes in;          *)
(* TSManagerSend returns the timestamp of a frame that comes out, which    *)
(* with reordered frames is the smallest one stored (mode AI) or the       *)
(* oldest (mode FIFO), or one extrapolated from the average frame          *)
(* duration when frames came in without a timestamp.                       *)
(*                                                                         *)
(* The manager belongs to one streaming thread: its operations are atomic. *)
(* tx_cnt and rx_cnt only feed the log, but for the test rx_cnt # 0.       *)
(***************************************************************************)
EXTENDS Integers, FiniteSets, Functions

CONSTANTS
  BufSize,       \* ts_buf_size
  HistorySize,   \* TSM_HISTORY_SIZE: 1 << TSM_HISTORY_POWER
  Interval,      \* TSM_DEFAULT_INTERVAL
  Threshold,     \* discont_threshold
  Times,         \* valid timestamps that come in
  Keys,          \* keys of decoder buffers
  NoKey,         \* TSM_KEY_NONE
  MaxAge,        \* bound on the frames sent between two resyncs
  MaxTime        \* bound on the extrapolated timestamps

None == -1       \* TSM_TIMESTAMP_NONE

ASSUME TSManagerAssumption ==
  /\ BufSize \in Nat \ {0}
  /\ HistorySize \in Nat \ {0}
  /\ Interval \in Nat
  /\ Threshold \in Nat
  /\ Times \subseteq Nat
  /\ NoKey \notin Keys
  /\ MaxAge \in Nat
  /\ MaxTime \in Nat

VARIABLES
  mode,          \* "AI" or "FIFO"
  rx, tx,        \* next slot to fill, oldest slot in use
  ts_buf,        \* the ring of [ts, age, key]
  invalid,       \* invalid_ts_count: frames stored without a timestamp
  cnt,           \* frames stored and not yet sent
  age,           \* frames sent since the last resync
  first_rx, last_received, suspicious, rx_seen, valid_received,
  first_tx, last_sent, big_cnt, hist, hist_tx, hist_total

ring == <<rx, tx, ts_buf, invalid, cnt>>
input == <<first_rx, last_received, suspicious, rx_seen, valid_received>>
output == <<first_tx, last_sent, big_cnt, hist, hist_tx, hist_total>>
vars == <<mode, ring, age, input, output>>

Slots == 0 .. BufSize - 1

Stamp == [ts : Int, age : Nat, key : Keys \cup {NoKey}]

IncUnwrapped(i) == i + 1

Inc(i) == (i + 1) % BufSize

\* TSM_DISTANCE
Distance == IF rx >= tx THEN rx - tx ELSE BufSize - tx + rx

\* The slots in use, by their distance from tx.
At(k) == (tx + k) % BufSize

\* TSM_ADAPTIVE_INTERVAL: the average of the last durations.
Adaptive == hist_total \div HistorySize

-------------------------------------------------------------------------------
(* createTSManager, resyncTSManager, setTSManagerFrameRate *)

Init ==
  /\ mode = "AI"
  /\ rx = 0 /\ tx = 0 /\ invalid = 0 /\ cnt = 0 /\ age = 0
  /\ ts_buf = [i \in Slots |-> [ts |-> 0, age |-> 0, key |-> NoKey]]
  /\ first_rx = TRUE /\ last_received = 0 /\ suspicious = 0
  /\ rx_seen = FALSE /\ valid_received = FALSE
  /\ first_tx = TRUE /\ last_sent = 0 /\ big_cnt = 0
  /\ hist = [i \in 0 .. HistorySize - 1 |-> Interval]
  /\ hist_tx = 0 /\ hist_total = Interval * HistorySize

Resync(synctime, newmode) ==
  /\ first_tx' = TRUE
  /\ first_rx' = TRUE
  /\ suspicious' = 0
  /\ last_sent' = IF synctime = None THEN last_sent ELSE synctime
  /\ tx' = 0 /\ rx' = 0 /\ invalid' = 0 /\ cnt' = 0
  /\ mode' = newmode
  /\ age' = 0
  /\ rx_seen' = FALSE
  /\ valid_received' = FALSE
  /\ big_cnt' = 0
  /\ UNCHANGED <<ts_buf, last_received, hist, hist_tx, hist_total>>

SetFrameRate(interval) ==
  /\ hist' = [i \in 0 .. HistorySize - 1 |-> interval]
  /\ hist_total' = interval * HistorySize
  /\ UNCHANGED <<mode, ring, age, input, first_tx, last_sent, big_cnt, hist_tx>>

-------------------------------------------------------------------------------
(* TSManagerReceive *)

Seen(ts) ==
  /\ valid_received' = (valid_received \/ (ts # None /\ rx_seen))
  /\ rx_seen' = TRUE

\* A timestamp more than the threshold ahead of the last one is not used;
\* the next one is, if it is not smaller.
Base(ts) ==
  IF first_rx \/ (suspicious # 0 /\ ts >= suspicious) THEN ts ELSE last_received

Suspicious(ts) == ~first_rx /\ ts > Base(ts) /\ ts - Base(ts) > Threshold

\* TSM_PLUS_AGE(tsm): the number of the frame, counting from the last resync.
FrameAge == age + Distance + invalid + 2

ReceiveTimed(ts, key) ==
  /\ mode = "AI" /\ ts # None /\ ~Suspicious(ts)
  /\ ts_buf' = [ts_buf EXCEPT ![rx] = [ts |-> ts, age |-> FrameAge, key |-> key]]
  /\ rx' = Inc(rx)
  /\ first_rx' = FALSE
  /\ suspicious' = 0
  /\ last_received' = ts
  /\ UNCHANGED <<tx, invalid>>

ReceiveUntimed(ts) ==
  /\ mode = "AI"
  /\ \/ /\ ts = None
        /\ UNCHANGED <<first_rx, suspicious, last_received>>
     \/ /\ ts # None /\ Suspicious(ts)
        /\ suspicious' = ts
        /\ last_received' = Base(ts)
        /\ UNCHANGED first_rx
  /\ invalid' = invalid + 1
  /\ UNCHANGED <<ts_buf, rx, tx>>

ReceiveInOrder(ts) ==
  /\ mode = "FIFO"
  /\ ts_buf' = [ts_buf EXCEPT ![rx].ts = ts]
  /\ rx' = Inc(rx)
  /\ UNCHANGED <<tx, invalid, first_rx, suspicious, last_received>>

ReceiveIntoFullRing(ts, key) ==
  /\ Seen(ts)
  /\ \/ /\ cnt < BufSize
        /\ cnt' = cnt + 1
        /\ ReceiveTimed(ts, key) \/ ReceiveUntimed(ts) \/ ReceiveInOrder(ts)
     \/ /\ cnt >= BufSize
        /\ UNCHANGED <<cnt, ts_buf, rx, tx, invalid, first_rx, suspicious,
                       last_received>>
  /\ UNCHANGED <<mode, age, output>>

\* _TSManagerReceive; a frame that finds the ring full is not stored.
Receive(ts, key) ==
  /\ Seen(ts)
  /\ \/ /\ cnt < BufSize - 1
        /\ cnt' = cnt + 1
        /\ ReceiveTimed(ts, key) \/ ReceiveUntimed(ts) \/ ReceiveInOrder(ts)
     \/ /\ cnt >= BufSize - 1
        /\ UNCHANGED <<cnt, ts_buf, rx, tx, invalid, first_rx, suspicious,
                       last_received>>
  /\ UNCHANGED <<mode, age, output>>

-------------------------------------------------------------------------------
(* TSManagerSend *)

\* What the next timestamp would be if it were extrapolated.
Extrapolated == IF first_tx THEN last_sent ELSE last_sent + Adaptive

\* The stored timestamps Send looks at: up to the one with its key, if any.
Scanned(key) ==
  {k \in 0 .. Distance - 1 :
     key = NoKey \/ \A j \in 0 .. k - 1 : ts_buf[At(j)].key # key}

\* The smallest of them, the oldest if there are several.
Candidate(key) ==
  CHOOSE k \in Scanned(key) :
    \A j \in Scanned(key) :
      \/ ts_buf[At(k)].ts < ts_buf[At(j)].ts
      \/ ts_buf[At(k)].ts = ts_buf[At(j)].ts /\ k <= j

\* The candidate is for a later frame: some frame came without timestamp,
\* the candidate is not near, and it has not waited longer than its frame.
TooEarly(k) ==
  /\ invalid > 0
  /\ ts_buf[At(k)].ts >= Extrapolated + Adaptive \div 2
  /\ ts_buf[At(k)].age > age

ClampedNever(ts) == ts

\* The timestamp never goes back, once one was sent.
Clamped(ts) == IF ~first_tx /\ ts < last_sent THEN last_sent ELSE ts

HistoryGrowing(duration) ==
  IF first_tx
  THEN UNCHANGED <<hist, hist_tx, hist_total, big_cnt>>
  ELSE IF duration < Adaptive * 2 \/ big_cnt > 3
  THEN /\ big_cnt' = 0
       /\ hist' = [hist EXCEPT ![hist_tx] = duration]
       /\ hist_total' = hist_total + duration
       /\ hist_tx' = (hist_tx + 1) % HistorySize
  ELSE /\ big_cnt' = big_cnt + 1
       /\ UNCHANGED <<hist, hist_tx, hist_total>>

\* The durations averaged: one that is twice the average is left out, unless
\* there were four in a row.
History(duration) ==
  IF first_tx
  THEN UNCHANGED <<hist, hist_tx, hist_total, big_cnt>>
  ELSE IF duration < Adaptive * 2 \/ big_cnt > 3
  THEN /\ big_cnt' = 0
       /\ hist' = [hist EXCEPT ![hist_tx] = duration]
       /\ hist_total' = hist_total - hist[hist_tx] + duration
       /\ hist_tx' = (hist_tx + 1) % HistorySize
  ELSE /\ big_cnt' = big_cnt + 1
       /\ UNCHANGED <<hist, hist_tx, hist_total>>

Sent(ts) ==
  /\ History(Clamped(ts) - last_sent)
  /\ last_sent' = Clamped(ts)
  /\ first_tx' = FALSE
  /\ age' = age + 1
  /\ cnt' = cnt - 1

SendExtrapolated(key) ==
  /\ mode = "AI"
  /\ Scanned(key) # {} => TooEarly(Candidate(key))
  /\ invalid' = invalid - 1
  /\ Sent(Extrapolated)
  /\ UNCHANGED <<rx, tx, ts_buf>>

SendTimedLosingOldest(key) ==
  /\ mode = "AI"
  /\ Scanned(key) # {}
  /\ ~TooEarly(Candidate(key))
  /\ Sent(ts_buf[At(Candidate(key))].ts)
  /\ tx' = Inc(tx)
  /\ UNCHANGED <<rx, invalid, ts_buf>>

\* The oldest entry moves to the slot of the one that is sent.
SendTimed(key) ==
  /\ mode = "AI"
  /\ Scanned(key) # {}
  /\ ~TooEarly(Candidate(key))
  /\ LET index == At(Candidate(key))
     IN /\ ts_buf' = [ts_buf EXCEPT ![index] = ts_buf[tx]]
        /\ Sent(ts_buf[index].ts)
  /\ tx' = Inc(tx)
  /\ UNCHANGED <<rx, invalid>>

SendAfterNext ==
  /\ mode = "FIFO"
  /\ last_sent' = ts_buf[Inc(tx)].ts
  /\ tx' = Inc(tx)
  /\ cnt' = cnt - 1
  /\ UNCHANGED <<rx, ts_buf, invalid, age, first_tx, big_cnt, hist, hist_tx,
                 hist_total>>

SendInOrder ==
  /\ mode = "FIFO"
  /\ last_sent' = ts_buf[tx].ts
  /\ tx' = Inc(tx)
  /\ cnt' = cnt - 1
  /\ UNCHANGED <<rx, ts_buf, invalid, age, first_tx, big_cnt, hist, hist_tx,
                 hist_total>>

\* More frames out than in: extrapolate, but only in a stream that has no
\* timestamps at all.
SendNothingStored ==
  /\ IF valid_received
     THEN UNCHANGED <<last_sent, first_tx>>
     ELSE last_sent' = Extrapolated /\ first_tx' = FALSE
  /\ UNCHANGED <<ring, age, big_cnt, hist, hist_tx, hist_total>>

Send(key) ==
  /\ age < MaxAge /\ last_sent < MaxTime
  /\ \/ cnt > 0 /\ (SendExtrapolated(key) \/ SendTimed(key) \/ SendInOrder)
     \/ cnt <= 0 /\ SendNothingStored
  /\ UNCHANGED <<mode, input>>

-------------------------------------------------------------------------------
Next ==
  \/ \E ts \in Times \cup {None}, key \in Keys \cup {NoKey} : Receive(ts, key)
  \/ \E key \in Keys \cup {NoKey} : Send(key)
  \/ \E ts \in Times \cup {None}, m \in {"AI", "FIFO"} : Resync(ts, m)
  \/ SetFrameRate(Interval)

Spec == Init /\ [][Next]_vars

-------------------------------------------------------------------------------
(* Properties *)

Flags ==
  /\ first_rx \in BOOLEAN /\ rx_seen \in BOOLEAN
  /\ valid_received \in BOOLEAN /\ first_tx \in BOOLEAN

Numbers ==
  /\ mode \in {"AI", "FIFO"}
  /\ rx \in Slots /\ tx \in Slots
  /\ ts_buf \in [Slots -> Stamp]
  /\ invalid \in Nat /\ cnt \in Nat /\ age \in Nat
  /\ last_received \in Int /\ suspicious \in Int
  /\ last_sent \in Int
  /\ big_cnt \in 0 .. 4
  /\ hist \in [0 .. HistorySize - 1 -> Nat]
  /\ hist_tx \in 0 .. HistorySize - 1
  /\ hist_total \in Int

TypeOK == Flags /\ Numbers

\* Frames stored and not sent are in the ring or counted as untimed: the
\* ring neither overflows nor runs empty under TSManagerSend, and
\* invalid_ts_count, unsigned in the code, never goes below zero.
RingAccounting ==
  /\ cnt \in 0 .. BufSize - 1
  /\ cnt = Distance + invalid
  /\ mode = "FIFO" => invalid = 0

\* FrameAge numbers the frames of a segment: entries of the ring never share
\* an age, though every send moves an entry to another slot, and none is
\* older than the frames that came in.
AgeOrder ==
  mode = "AI" =>
    /\ \A j, k \in 0 .. Distance - 1 :
         j # k => ts_buf[At(j)].age # ts_buf[At(k)].age
    /\ \A k \in 0 .. Distance - 1 : ts_buf[At(k)].age <= age + cnt + 1

\* The running total is the sum of the durations it averages, so the average
\* stays between the shortest and the longest of them.
HistoryTotal ==
  /\ hist_total = FoldFunction(+, 0, hist)
  /\ \E i, j \in DOMAIN hist : hist[i] <= Adaptive /\ Adaptive <= hist[j]

\* Output timestamps do not go back within a segment, whatever came in, also
\* when they switch between stream and extrapolated timestamps.
Monotone ==
  [][mode' = "AI" /\ ~first_tx /\ ~first_tx' => last_sent' >= last_sent]_vars

\* In mode FIFO timestamps go out in the order they came in.  A frame whose
\* timestamp is sent leaves the others where they are.
FifoOrder ==
  [][mode = "FIFO" /\ mode' = "FIFO" /\ ~(rx' = 0 /\ tx' = 0 /\ cnt' = 0) =>
       \A k \in 0 .. Distance - 1 :
         \/ ts_buf[At(k)].ts = ts_buf'[(tx' + k)  % BufSize].ts /\ tx' = tx
         \/ k > 0 /\ tx' = Inc(tx)
              /\ ts_buf[At(k)].ts = ts_buf'[(tx' + k - 1) % BufSize].ts
         \/ k = 0 /\ tx' = Inc(tx) /\ last_sent' = ts_buf[tx].ts]_vars

\* The ring implements the pool: a stream timestamp is sent at most once and
\* is not lost, and the smallest goes first.
Pending ==
  IF mode = "AI" THEN {ts_buf[At(k)] : k \in 0 .. Distance - 1} ELSE {}

Untimed == IF mode = "AI" THEN invalid ELSE cnt

Pool == INSTANCE TimestampPool WITH pending <- Pending, untimed <- Untimed

PoolSpec == Pool!Spec
===============================================================================
