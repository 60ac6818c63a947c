-------------------------- MODULE StreamCache_proofs --------------------------
(***************************************************************************)
(* Proofs about StreamCache, for every length of the file and of its       *)
(* buffers, and every threshold.                                           *)
(***************************************************************************)
EXTENDS StreamCache, TLAPS

\* A streaming thread that does not wait found the adapter within its limit.
Limit ==
  ~interrupted =>
    /\ ~closed
    /\ avail <= threshold_max + MaxChunk
    /\ ~blocked => avail <= threshold_max

IInv == Numbers /\ Window /\ Limit

LEMMA InitIInv == Init => IInv
  BY StreamCacheAssumption
  DEF Init, IInv, Numbers, Window, Limit

LEMMA StreamingIInv == IInv /\ Streaming => IInv'
<1> SUFFICES ASSUME IInv, Streaming PROVE IInv'
  OBVIOUS
<1> USE StreamCacheAssumption
<1>1. CASE SetSegment
  BY <1>1 DEF SetSegment, Clear, IInv, Numbers, Window, Limit, closing, reader
<1>2. ASSUME NEW n \in 1 .. MaxChunk, AddBuffer(n) PROVE IInv'
  <2>1. CASE seeking
    BY <1>2, <2>1 DEF AddBuffer, IInv, Numbers, Window, Limit, closing, reader,
                            adapter
  <2>2. CASE ~seeking /\ ignore_size >= n
    BY <1>2, <2>2 DEF AddBuffer, Push, IInv, Numbers, Window, Limit, closing,
                      reader, adapter
  <2>3. CASE ~seeking /\ ignore_size < n
    <3>1. Push(n)
      BY <1>2, <2>3 DEF AddBuffer, IInv, Numbers
    <3>2. UNCHANGED <<start, offset, threshold_max, eos, seeking, closed,
                      interrupted, reader, segment, upeos>>
          /\ up' = up + n /\ up + n <= Length
      BY <1>2 DEF AddBuffer, closing
    <3>3. avail' = avail + n - ignore_size /\ avail' \in Nat /\ avail' >= avail
          /\ avail' <= avail + MaxChunk
      BY <2>3, <3>1 DEF Push, IInv, Numbers
    <3>4. ignore_size' = 0 /\ first' \in Nat
      BY <3>1 DEF Push, IInv, Numbers
    <3>5. Numbers' /\ Window'
      BY <2>3, <3>2, <3>3, <3>4 DEF IInv, Numbers, Window, reader
    <3>6. Limit'
      <4> SUFFICES ASSUME ~interrupted
                   PROVE  /\ ~closed'
                          /\ avail' <= threshold_max' + MaxChunk
                          /\ (~blocked' => avail' <= threshold_max')
        BY <3>2 DEF Limit
      <4>1. ~closed /\ avail <= threshold_max
        BY <1>2 DEF AddBuffer, IInv, Limit
      <4>2. ~blocked' => ~(avail' > threshold_max)
        BY <3>1, <4>1, Zenon DEF Push
      <4> QED
        BY <3>2, <3>3, <4>1, <4>2 DEF IInv, Numbers
    <3> QED
      BY <3>5, <3>6 DEF IInv
  <2> QED
    BY <2>1, <2>2, <2>3 DEF IInv, Numbers
<1>3. CASE Unblock
  BY <1>3 DEF Unblock, IInv, Numbers, Window, Limit, closing, cache, adapter,
                     reader
<1>4. CASE SetEos
  BY <1>4 DEF SetEos, IInv, Numbers, Window, Limit, closing, adapter, reader
<1> QED
  BY <1>1, <1>2, <1>3, <1>4 DEF Streaming

\* What moving the reading place to o flushes.
LEMMA PreserveKeeps ==
  ASSUME Numbers, NEW o \in Nat, o <= avail, Preserve(o)
  PROVE  \E flush \in Nat :
           /\ flush <= o /\ o - flush <= Pre
           /\ offset' = o - flush
           /\ start' = start + flush
           /\ avail' = avail - flush
           /\ first' = IF avail = flush THEN 0 ELSE first + flush
<1> DEFINE f == IF o > Pre THEN o - Pre ELSE 0
<1>1. f \in Nat /\ f <= o /\ o - f <= Pre
  BY StreamCacheAssumption
<1>2. /\ offset' = o - f /\ start' = start + f
      /\ avail' = avail - f
      /\ first' = IF avail = f THEN 0 ELSE first + f
  BY DEF Preserve
<1> HIDE DEF f
<1> QED
  BY <1>1, <1>2

LEMMA CallbackIInv == IInv /\ Callback => IInv'
<1> SUFFICES ASSUME IInv, Callback PROVE IInv'
  OBVIOUS
<1> USE StreamCacheAssumption
<1>1. CASE CheckPosition
  BY <1>1 DEF CheckPosition, IInv, Numbers, Window, Limit, closing, cache,
              adapter, upstream
<1>2. CASE SeekWithin
  <2>1. want - start \in Nat /\ want - start <= avail
    BY <1>2 DEF SeekWithin, IInv, Numbers
  <2>2. Preserve(want - start)
    BY <1>2 DEF SeekWithin
  <2>3. PICK f \in Nat :
           /\ f <= want - start /\ want - start - f <= Pre
           /\ offset' = want - start - f /\ start' = start + f
           /\ avail' = avail - f
           /\ first' = IF avail = f THEN 0 ELSE first + f
    BY <2>1, <2>2, PreserveKeeps DEF IInv
  <2> QED
    BY <1>2, <2>1, <2>3 DEF SeekWithin, IInv, Numbers, Window, Limit, closing,
                            upstream
<1>3. CASE SeekSkip
  BY <1>3 DEF SeekSkip, Clear, IInv, Numbers, Window, Limit, closing, upstream
<1>4. CASE SeekUpstream
  BY <1>4 DEF SeekUpstream, Clear, IInv, Numbers, Window, Limit, closing,
              upstream
<1>5. CASE EventTaken
  BY <1>5 DEF EventTaken, IInv, Numbers, Window, Limit, closing, cache, adapter
<1>6. CASE EventRefused
  BY <1>6 DEF EventRefused, IInv, Numbers, Window, Limit, closing, cache,
              adapter, upstream
<1>7. CASE Enlarge
  <2>1. size \in Nat
    BY DEF IInv, Numbers
  <2> QED
    BY <1>7, <2>1 DEF Enlarge, Room, IInv, Numbers, Window, Limit, closing,
                      reader, adapter, upstream
<1>8. CASE Read
  <2>1. PICK o \in Nat : o = offset + Readable /\ o <= avail
    BY DEF Readable, AVAIL_BYTES, IInv, Numbers, Window
  <2>2. Preserve(o)
    BY <1>8, <2>1 DEF Read
  <2>3. PICK f \in Nat :
           /\ f <= o /\ o - f <= Pre
           /\ offset' = o - f /\ start' = start + f
           /\ avail' = avail - f
           /\ first' = IF avail = f THEN 0 ELSE first + f
    BY <2>1, <2>2, PreserveKeeps DEF IInv
  <2>4. Readable \in Nat
    BY DEF Readable, AVAIL_BYTES, IInv, Numbers, Window
  <2> QED
    BY <1>8, <2>1, <2>3, <2>4 DEF Read, IInv, Numbers, Window, Limit, closing,
                                  upstream
<1>9. CASE ReadClosed
  BY <1>9 DEF ReadClosed, IInv, Numbers, Window, Limit, closing, cache,
              adapter, upstream
<1> QED
  BY <1>1, <1>2, <1>3, <1>4, <1>5, <1>6, <1>7, <1>8, <1>9 DEF Callback

LEMMA NextIInv == IInv /\ [Next]_vars => IInv'
<1> SUFFICES ASSUME IInv, [Next]_vars PROVE IInv'
  OBVIOUS
<1> USE StreamCacheAssumption
<1>1. CASE Streaming
  BY <1>1, StreamingIInv
<1>2. ASSUME NEW addr \in 0 .. Length, SeekCallback(addr) PROVE IInv'
  BY <1>2 DEF SeekCallback, IInv, Numbers, Window, Limit, closing, cache,
              adapter, upstream
<1>3. ASSUME NEW n \in Sizes, ReadCallback(n) PROVE IInv'
  BY <1>3 DEF ReadCallback, IInv, Numbers, Window, Limit, closing, cache,
              adapter, upstream
<1>4. CASE Callback
  BY <1>4, CallbackIInv
<1>5. CASE Close
  BY <1>5 DEF Close, IInv, Numbers, Window, Limit, closing, cache, adapter,
              reader, upstream
<1>6. CASE Open
  BY <1>6 DEF Open, IInv, Numbers, Window, Limit, closing, cache, adapter,
              reader, upstream
<1>7. CASE UNCHANGED vars
  BY <1>7 DEF vars, IInv, Numbers, Window, Limit, closing, cache, adapter,
              reader, upstream
<1> QED
  BY <1>1, <1>2, <1>3, <1>4, <1>5, <1>6, <1>7 DEF Next

LEMMA FlagsKept == Flags /\ [Next]_vars => Flags'
<1> SUFFICES ASSUME Flags, [Next]_vars PROVE Flags'
  OBVIOUS
<1> USE DEF Flags, closing, cache, reader, upstream, adapter
<1>1. CASE SetSegment
  BY <1>1, Zenon DEF SetSegment
<1>2. ASSUME NEW n \in 1 .. MaxChunk, AddBuffer(n) PROVE Flags'
  <2>1. blocked' = blocked \/ blocked' = (avail' > threshold_max /\ ~closed)
    BY <1>2, Zenon DEF AddBuffer, Push
  <2>2. blocked' \in BOOLEAN
    BY <2>1, Zenon
  <2> QED
    BY <1>2, <2>2, Zenon DEF AddBuffer
<1>3. CASE Unblock \/ SetEos
  BY <1>3, Zenon DEF Unblock, SetEos
<1>4. ASSUME NEW addr \in 0 .. Length, SeekCallback(addr) PROVE Flags'
  BY <1>4, Zenon DEF SeekCallback
<1>5. ASSUME NEW n \in Sizes, ReadCallback(n) PROVE Flags'
  BY <1>5, Zenon DEF ReadCallback
<1>6. CASE CheckPosition \/ SeekWithin \/ SeekSkip \/ SeekUpstream
  BY <1>6, Zenon DEF CheckPosition, SeekWithin, SeekSkip, SeekUpstream
<1>7. CASE EventTaken \/ EventRefused \/ Enlarge \/ Read \/ ReadClosed
  BY <1>7, Zenon DEF EventTaken, EventRefused, Enlarge, Read, ReadClosed
<1>8. CASE Close \/ Open
  BY <1>8, Zenon DEF Close, Open
<1>9. CASE UNCHANGED vars
  BY <1>9, Zenon DEF vars
<1> QED
  BY <1>1, <1>2, <1>3, <1>4, <1>5, <1>6, <1>7, <1>8, <1>9, Zenon
  DEF Next, Streaming, Callback

\* The strengthening of the type invariant, the window and the limit is an
\* invariant of the cache and its three threads.
THEOREM SpecIInv == Spec => []IInv
  BY InitIInv, NextIInv, PTL DEF Spec

\* Every field stays in its type: none of the unsigned subtractions of
\* aiurstreamcache.c goes below zero.
THEOREM TypeCorrect == Spec => []TypeOK
<1>1. Init => Flags
  BY Zenon DEF Init, Flags
<1>2. IInv => AVAIL_BYTES \in Nat
  BY DEF IInv, Numbers, Window, AVAIL_BYTES
<1>3. Flags /\ IInv => TypeOK
  BY <1>2, Zenon DEF IInv, TypeOK
<1> QED
  BY <1>1, <1>3, FlagsKept, SpecIInv, PTL DEF Spec

\* Whatever the order of reads, seeks, buffers and closes, what is read and
\* kept lies in the adapter, and the two threads never wait for each other.
THEOREM CacheSafe == Spec => [](Window /\ NoMutualWait)
<1>1. IInv => Window /\ NoMutualWait
  <2> SUFFICES ASSUME IInv, Full, Hungry PROVE FALSE
    BY DEF NoMutualWait, IInv
  <2>1. size \in Nat
    BY StreamCacheAssumption DEF IInv, Numbers
  <2> QED
    BY <2>1, StreamCacheAssumption
    DEF Full, Hungry, Room, AVAIL_BYTES, IInv, Numbers, Window
<1> QED
  BY <1>1, SpecIInv, PTL

\* A cache keeps within its limit until it is closed while it plays.
THEOREM CacheBounded == Spec => []Bounded
<1>1. IInv => Bounded
  BY DEF IInv, Limit, Bounded
<1> QED
  BY <1>1, SpecIInv, PTL

-------------------------------------------------------------------------------
(* A cache that is not closed while it plays *)

\* Where upstream is, what is dropped and what is in the adapter add up to
\* where the parser is; nothing is left to drop when a read is over.
Aligned ==
  /\ want <= Length
  /\ start + avail = up + ignore_size
  /\ avail > 0 => first = start
  /\ avail > 0 \/ pc # "read" => ignore_size = 0
  /\ eos => up = Length

PlayInv ==
  /\ IInv
  /\ want <= Length
  /\ segment => seeking /\ pc = "read" /\ up = want
  /\ pc = "read" => want = start + offset
  /\ seeking => pc \in {"seek", "event", "read"} /\ want = start /\ offset = 0
  /\ pc = "event" => seeking
  /\ pc # "idle" => size \in Sizes
  /\ ~seeking => Aligned

\* It is so until the cache is closed, and what was once closed stays
\* interrupted.
Playing == ~interrupted => PlayInv

LEMMA InitPlay == Init => Playing
  BY InitIInv, StreamCacheAssumption DEF Init, Playing, PlayInv, Aligned

LEMMA InterruptedStays == [Next]_vars /\ interrupted => interrupted'
<1> SUFFICES ASSUME Next, interrupted PROVE interrupted'
  BY DEF vars, closing
<1> USE DEF closing
<1>1. CASE Streaming
  BY <1>1, Zenon DEF Streaming, SetSegment, AddBuffer, Unblock, SetEos
<1>2. ASSUME NEW addr \in 0 .. Length, SeekCallback(addr) PROVE interrupted'
  BY <1>2, Zenon DEF SeekCallback
<1>3. ASSUME NEW n \in Sizes, ReadCallback(n) PROVE interrupted'
  BY <1>3, Zenon DEF ReadCallback
<1>4. CASE CheckPosition \/ SeekWithin \/ SeekSkip \/ SeekUpstream
  BY <1>4, Zenon DEF CheckPosition, SeekWithin, SeekSkip, SeekUpstream
<1>5. CASE EventTaken \/ EventRefused \/ Enlarge \/ Read \/ ReadClosed
  BY <1>5, Zenon DEF EventTaken, EventRefused, Enlarge, Read, ReadClosed
<1>6. CASE Close \/ Open
  BY <1>6, Zenon DEF Close, Open
<1> QED
  BY <1>1, <1>2, <1>3, <1>4, <1>5, <1>6, Zenon DEF Next, Callback

LEMMA StreamingPlay ==
  ASSUME ~interrupted, PlayInv, Streaming PROVE PlayInv'
<1> USE StreamCacheAssumption
<1>0. IInv' /\ IInv /\ Numbers /\ Window
  BY StreamingIInv DEF PlayInv, IInv
<1>1. CASE SetSegment
  BY <1>0, <1>1 DEF SetSegment, Clear, PlayInv, Aligned, Numbers, reader
<1>2. ASSUME NEW n \in 1 .. MaxChunk, AddBuffer(n) PROVE PlayInv'
  <2>1. CASE seeking
    BY <1>0, <1>2, <2>1 DEF AddBuffer, PlayInv, Aligned, Numbers, reader,
                            adapter
  <2>2. CASE ~seeking /\ ignore_size >= n
    BY <1>0, <1>2, <2>2 DEF AddBuffer, PlayInv, Aligned, Numbers, reader,
                            adapter
  <2>3. CASE ~seeking /\ ignore_size < n
    <3>1. Push(n)
      BY <1>0, <1>2, <2>3 DEF AddBuffer, Numbers
    <3>2. UNCHANGED <<start, offset, eos, seeking, reader, segment>>
          /\ up' = up + n /\ up + n <= Length
      BY <1>2 DEF AddBuffer
    <3>3. /\ avail' = avail + n - ignore_size /\ ignore_size' = 0
          /\ first' = IF avail = 0 THEN up + ignore_size ELSE first
      BY <3>1 DEF Push
    <3>4. Aligned
      BY <2>3 DEF PlayInv
    <3>5. start + avail' = up' + ignore_size' /\ first' = start
      BY <1>0, <3>2, <3>3, <3>4 DEF Aligned, Numbers
    <3>6. ~eos
      BY <1>0, <3>2, <3>4 DEF Aligned, Numbers
    <3>7. Aligned'
      BY <3>2, <3>3, <3>4, <3>5, <3>6 DEF Aligned, reader
    <3> QED
      BY <1>0, <2>3, <3>2, <3>7 DEF PlayInv, reader
  <2> QED
    BY <1>0, <2>1, <2>2, <2>3 DEF Numbers
<1>3. CASE Unblock
  BY <1>0, <1>3 DEF Unblock, PlayInv, Aligned, cache, adapter, reader
<1>4. CASE SetEos
  BY <1>0, <1>4 DEF SetEos, PlayInv, Aligned, adapter, reader
<1> QED
  BY <1>1, <1>2, <1>3, <1>4 DEF Streaming

\* What a read delivers, and where it leaves the parser.
LEMMA ReadDelivers ==
  ASSUME ~interrupted, PlayInv, Read
  PROVE  /\ want' > want => first + offset = want
         /\ want' < want + size => want' = Length
         /\ want' <= Length
         /\ want' = start + offset + Readable
         /\ ignore_size = 0
<1> USE StreamCacheAssumption
<1>1. Numbers /\ Window /\ Aligned /\ want = start + offset
  BY DEF Read, PlayInv, IInv
<1>2. size \in Nat
  BY <1>1 DEF Numbers
<1>3. want' = want + Readable /\ (size <= AVAIL_BYTES \/ eos) /\ pc = "read"
  BY DEF Read
<1>4. Readable \in Nat /\ Readable <= avail - offset
  BY <1>1, <1>2 DEF Readable, AVAIL_BYTES, Numbers, Window
<1>5. size > 0
  BY <1>2 DEF Read, PlayInv
<1>6. ignore_size = 0
  <2>1. CASE avail > 0
    BY <1>1, <2>1 DEF Aligned
  <2>2. CASE avail = 0 /\ eos
    BY <1>1, <2>2 DEF Aligned, Numbers, Window
  <2>3. CASE avail = 0 /\ ~eos
    BY <1>1, <1>3, <1>5, <2>3 DEF AVAIL_BYTES, Numbers, Window
  <2> QED
    BY <1>1, <2>1, <2>2, <2>3 DEF Numbers
<1> QED
  BY <1>1, <1>2, <1>3, <1>4, <1>6
  DEF Aligned, Numbers, Window, Readable, AVAIL_BYTES

LEMMA CallbackPlay ==
  ASSUME ~interrupted, PlayInv, Callback PROVE PlayInv'
<1> USE StreamCacheAssumption
<1>0. IInv' /\ IInv /\ Numbers /\ Window
  BY CallbackIInv DEF PlayInv, IInv
<1>1. CASE CheckPosition
  BY <1>0, <1>1 DEF CheckPosition, READ_ADDR, PlayInv, Aligned, Numbers, cache,
                    adapter, upstream
<1>2. CASE SeekWithin
  <2>1. want - start \in Nat /\ want - start <= avail
    BY <1>0, <1>2 DEF SeekWithin, Numbers
  <2>2. Preserve(want - start)
    BY <1>2 DEF SeekWithin
  <2>3. PICK f \in Nat :
           /\ f <= want - start
           /\ offset' = want - start - f /\ start' = start + f
           /\ avail' = avail - f
           /\ first' = IF avail = f THEN 0 ELSE first + f
    BY <1>0, <2>1, <2>2, PreserveKeeps
  <2>4. UNCHANGED <<want, size, seeking, segment, up, ignore_size, eos>>
        /\ pc = "seek" /\ pc' = "read"
    BY <1>2 DEF SeekWithin, upstream
  <2>5. ~seeking => Aligned'
    BY <1>0, <2>1, <2>3, <2>4 DEF PlayInv, Aligned, Numbers
  <2>6. seeking => offset' = 0 /\ start' = start
    BY <1>0, <2>1, <2>3, <2>4 DEF PlayInv, Numbers
  <2>7. want = start' + offset'
    BY <1>0, <2>1, <2>3 DEF Numbers
  <2> QED
    BY <1>0, <2>4, <2>5, <2>6, <2>7 DEF PlayInv
<1>3. CASE SeekSkip
  BY <1>0, <1>3 DEF SeekSkip, Clear, PlayInv, Aligned, Numbers, Window, upstream
<1>4. CASE SeekUpstream
  BY <1>0, <1>4 DEF SeekUpstream, Clear, PlayInv, Aligned, Numbers, upstream
<1>5. CASE EventTaken
  BY <1>0, <1>5 DEF EventTaken, PlayInv, Aligned, Numbers, cache, adapter
<1>6. CASE EventRefused
  BY <1>0, <1>6 DEF EventRefused, PlayInv, Aligned, Numbers, cache, adapter,
                    upstream
<1>7. CASE Enlarge
  BY <1>0, <1>7 DEF Enlarge, PlayInv, Aligned, Numbers, reader, adapter,
                    upstream
<1>8. CASE Read
  <2>1. offset + Readable \in Nat /\ offset + Readable <= avail
    BY <1>0 DEF Readable, AVAIL_BYTES, Numbers, Window
  <2>2. Preserve(offset + Readable)
    BY <1>8 DEF Read
  <2>3. PICK f \in Nat :
           /\ f <= offset + Readable /\ start' = start + f
           /\ avail' = avail - f
           /\ first' = IF avail = f THEN 0 ELSE first + f
    BY <1>0, <2>1, <2>2, PreserveKeeps
  <2>4. want' <= Length /\ ignore_size = 0
    BY <1>8, ReadDelivers
  <2>5. UNCHANGED <<ignore_size, eos, seeking, segment, up>>
        /\ ~seeking /\ pc = "read" /\ pc' = "idle"
    BY <1>8 DEF Read, upstream
  <2>6. Aligned'
    BY <1>0, <2>1, <2>3, <2>4, <2>5 DEF PlayInv, Aligned, Numbers
  <2> QED
    BY <1>0, <2>4, <2>5, <2>6 DEF PlayInv
<1>9. CASE ReadClosed
  BY <1>0, <1>9 DEF ReadClosed, IInv, Limit
<1> QED
  BY <1>1, <1>2, <1>3, <1>4, <1>5, <1>6, <1>7, <1>8, <1>9 DEF Callback

\* In the callback, only Read moves the parser, and only Read or a close ends
\* it.
LEMMA WantMoves ==
  ASSUME Next, pc = "read", ~closed, want' # want \/ pc' = "idle" PROVE Read
<1>1. ~Streaming
  BY Zenon DEF Streaming, SetSegment, AddBuffer, Unblock, SetEos, reader
<1>2. ~\E addr \in 0 .. Length : SeekCallback(addr)
  BY Zenon DEF SeekCallback
<1>3. ~\E n \in Sizes : ReadCallback(n)
  BY Zenon DEF ReadCallback
<1>4. ~(CheckPosition \/ SeekWithin \/ SeekSkip \/ SeekUpstream)
  BY DEF CheckPosition, SeekWithin, SeekSkip, SeekUpstream
<1>5. ~(EventTaken \/ EventRefused \/ Enlarge \/ ReadClosed)
  BY DEF EventTaken, EventRefused, Enlarge, ReadClosed, reader
<1>6. ~(Close \/ Open)
  BY DEF Close, Open, reader
<1> QED
  BY <1>1, <1>2, <1>3, <1>4, <1>5, <1>6 DEF Next, Callback

LEMMA NextPlay == Playing /\ [Next]_vars => Playing'
<1> SUFFICES ASSUME ~interrupted, ~interrupted', PlayInv, [Next]_vars
             PROVE  PlayInv'
  <2>1. [Next]_vars /\ interrupted => interrupted'
    BY InterruptedStays
  <2> QED
    BY <2>1 DEF Playing
<1> USE StreamCacheAssumption
<1>0. IInv'
  BY NextIInv DEF PlayInv
<1>1. CASE Streaming
  BY <1>1, StreamingPlay
<1>2. ASSUME NEW addr \in 0 .. Length, SeekCallback(addr) PROVE PlayInv'
  BY <1>0, <1>2 DEF SeekCallback, PlayInv, Aligned, cache, adapter, upstream
<1>3. ASSUME NEW n \in Sizes, ReadCallback(n) PROVE PlayInv'
  BY <1>0, <1>3 DEF ReadCallback, PlayInv, Aligned, cache, adapter, upstream
<1>4. CASE Callback
  BY <1>4, CallbackPlay
<1>5. CASE Close
  BY <1>5 DEF Close
<1>6. CASE Open
  BY <1>6 DEF Open, PlayInv, IInv, Limit
<1>7. CASE UNCHANGED vars
  BY <1>0, <1>7 DEF vars, PlayInv, Aligned, cache, adapter, reader, upstream
<1> QED
  BY <1>1, <1>2, <1>3, <1>4, <1>5, <1>6, <1>7 DEF Next

\* While it plays without being closed, a read delivers the bytes of the file
\* at the parser's place, and fewer than asked for only at the file's end.
THEOREM ReadsCorrect == Spec => ReadsInPlace
<1>1. Init => Playing
  BY InitPlay
<1>2. Playing /\ [Next]_vars => Playing'
  BY NextPlay
<1>3. Playing /\ [Next]_vars =>
        [~interrupted /\ pc = "read" =>
           /\ want' > want => first + offset = want
           /\ pc' = "idle" /\ want' < want + size => want' = Length]_vars
  <2> SUFFICES ASSUME PlayInv, ~interrupted, Next, pc = "read"
               PROVE  /\ want' > want => first + offset = want
                      /\ pc' = "idle" /\ want' < want + size => want' = Length
    BY DEF Playing
  <2>1. ~closed /\ want \in Nat
    BY DEF PlayInv, IInv, Limit, Numbers
  <2>2. ASSUME want' > want PROVE first + offset = want
    <3>1. want' # want
      BY <2>1, <2>2
    <3> QED
      BY <2>1, <2>2, <3>1, ReadDelivers, WantMoves
  <2>3. ASSUME pc' = "idle", want' < want + size PROVE want' = Length
    BY <2>1, <2>3, ReadDelivers, WantMoves
  <2> QED
    BY <2>2, <2>3
<1> QED
  BY <1>1, <1>2, <1>3, PTL DEF Spec, ReadsInPlace
===============================================================================
