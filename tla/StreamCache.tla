----------------------------- MODULE StreamCache -----------------------------
(***************************************************************************)
(* src/parser/aiur/src/aiurstreamcache.c, the stream cache: it gives the   *)
(* parser of a demuxer that is fed in push mode the file it wants to read  *)
(* and seek in.  Three parties share it:                                   *)
(*   - the demuxer's thread, which holds runmutex and calls the read and   *)
(*     seek callbacks of aiurdemux.c;                                      *)
(*   - the streaming thread of the element upstream, which brings          *)
(*     NEWSEGMENT, buffers and EOS (the element itself is external);       *)
(*   - whoever seeks or stops the demuxer: it closes the cache, waits for  *)
(*     runmutex, and opens it again.                                       *)
(* A critical section of cache->mutex is one action.  Every wait on a      *)
(* condition ends after a second and looks again, so no signal is          *)
(* modelled: a thread that waits goes on when it finds what it waits for.  *)
(***************************************************************************)
EXTENDS Integers

CONSTANTS
  Length,        \* content_info.length: the bytes of the file
  MaxChunk,      \* the largest buffer upstream sends
  Sizes,         \* sizes of reads
  MaxSize,       \* threshold_max when the cache is made
  Pre,           \* threshold_pre
  FarSeek,       \* the 2000000 bytes a forward seek may skip
  Seekable       \* whether upstream takes a seek event

ASSUME StreamCacheAssumption ==
  /\ Length \in Nat /\ MaxChunk \in Nat \ {0}
  /\ Sizes \subseteq Nat \ {0}
  /\ MaxSize \in Nat \ {0} /\ Pre \in Nat /\ FarSeek \in Nat
  /\ Seekable \in BOOLEAN

VARIABLES
  start,         \* the address the first byte of the adapter is taken to have
  offset,        \* where in the adapter the next byte is read
  ignore_size,   \* bytes to drop before the next one goes into the adapter
  threshold_max, eos, seeking, closed,
  first, avail,  \* the adapter: the address its bytes really have, how many
  want,          \* content->offset: where the parser is
  pc,            \* the demuxer's thread: "idle" outside of the callbacks
  size,          \* bytes the pending read asks for
  isfail,        \* of gst_aiur_stream_cache_seek
  blocked,       \* the streaming thread waits in add_buffer
  up,            \* upstream: address of its next byte
  segment,       \* upstream: NEWSEGMENT comes before the next byte
  upeos,         \* upstream: EOS is sent
  interrupted    \* history: the cache was closed since the demuxer was made

adapter == <<first, avail>>
cache == <<start, offset, ignore_size, threshold_max, eos, seeking, adapter>>
reader == <<want, pc, size, isfail>>
upstream == <<blocked, up, segment, upeos>>
closing == <<closed, interrupted>>
vars == <<cache, closing, reader, upstream>>

READ_ADDR == start + offset
AVAIL_BYTES == avail - offset

\* gst_adapter_clear
Clear == avail' = 0 /\ first' = 0

\* The demuxer makes its parser when the first buffer brings caps: the first
\* NEWSEGMENT has come, and no callback was called before.
Init ==
  /\ start = 0 /\ offset = 0 /\ ignore_size = 0 /\ threshold_max = MaxSize
  /\ eos = FALSE /\ seeking = FALSE /\ closed = FALSE
  /\ first = 0 /\ avail = 0
  /\ want = 0 /\ pc = "idle" /\ size = 0 /\ isfail = FALSE
  /\ blocked = FALSE /\ up = 0 /\ segment = FALSE /\ upeos = FALSE
  /\ interrupted = FALSE

-------------------------------------------------------------------------------
(* The streaming thread *)

SetSegmentKeepsEos ==
  /\ ~blocked /\ segment
  /\ segment' = FALSE /\ seeking' = FALSE
  /\ start' = up /\ offset' = 0 /\ ignore_size' = 0 /\ Clear
  /\ UNCHANGED <<threshold_max, eos, closing, reader, blocked, up, upeos>>

SetSegmentStillSeeking ==
  /\ ~blocked /\ segment
  /\ segment' = FALSE /\ eos' = FALSE
  /\ start' = up /\ offset' = 0 /\ ignore_size' = 0 /\ Clear
  /\ UNCHANGED <<threshold_max, seeking, closing, reader, blocked, up, upeos>>

\* NEWSEGMENT: gst_aiur_stream_cache_set_segment
SetSegment ==
  /\ ~blocked /\ segment
  /\ segment' = FALSE
  /\ seeking' = FALSE
  /\ start' = up
  /\ offset' = 0
  /\ ignore_size' = 0
  /\ Clear
  /\ eos' = FALSE
  /\ UNCHANGED <<threshold_max, closing, reader, blocked, up, upeos>>

PushUnlessUnread(n) ==
  /\ first' = IF avail = 0 THEN up + ignore_size ELSE first
  /\ avail' = avail + n - ignore_size
  /\ ignore_size' = 0
  /\ blocked' = (avail' - offset > threshold_max /\ ~closed)

\* What is left of a buffer of n bytes goes into the adapter.
Push(n) ==
  /\ first' = IF avail = 0 THEN up + ignore_size ELSE first
  /\ avail' = avail + n - ignore_size
  /\ ignore_size' = 0
  /\ blocked' = (avail' > threshold_max /\ ~closed)

\* gst_aiurdemux_chain, gst_aiur_stream_cache_add_buffer
AddBuffer(n) ==
  /\ ~blocked /\ ~segment /\ up + n <= Length
  /\ up' = up + n
  /\ \/ seeking /\ UNCHANGED <<ignore_size, adapter, blocked>>
     \/ /\ ~seeking /\ ignore_size >= n
        /\ ignore_size' = ignore_size - n
        /\ UNCHANGED <<adapter, blocked>>
     \/ ~seeking /\ ignore_size < n /\ Push(n)
  /\ UNCHANGED <<start, offset, threshold_max, eos, seeking, closing, reader,
                 segment, upeos>>

\* The wait in add_buffer is over.
Unblock ==
  /\ blocked /\ (avail <= threshold_max \/ closed)
  /\ blocked' = FALSE
  /\ UNCHANGED <<cache, closing, reader, up, segment, upeos>>

\* EOS: gst_aiur_stream_cache_seteos
SetEos ==
  /\ ~blocked /\ ~segment /\ up = Length /\ ~upeos
  /\ eos' = TRUE /\ upeos' = TRUE
  /\ UNCHANGED <<start, offset, ignore_size, threshold_max, seeking, adapter,
                 closing, reader, blocked, up, segment>>

Streaming ==
  SetSegment \/ (\E n \in 1 .. MaxChunk : AddBuffer(n)) \/ Unblock \/ SetEos

-------------------------------------------------------------------------------
(* The demuxer's thread *)

\* The parser moves to another place of the file, or asks for bytes.
SeekCallback(addr) ==
  /\ pc = "idle" /\ want' = addr
  /\ UNCHANGED <<cache, closing, pc, size, isfail, upstream>>

ReadCallback(n) ==
  /\ pc = "idle" /\ pc' = "position" /\ size' = n
  /\ UNCHANGED <<cache, closing, want, isfail, upstream>>

CheckPosition ==
  /\ pc = "position"
  /\ pc' = IF want = READ_ADDR THEN "read" ELSE "seek"
  /\ isfail' = FALSE
  /\ UNCHANGED <<cache, closing, want, size, upstream>>

PreserveUnchecked(o) ==
  /\ offset' = Pre
  /\ start' = start + (o - Pre)
  /\ avail' = avail - (o - Pre)
  /\ first' = first + (o - Pre)

\* CHECK_PRESERVE: no more than Pre bytes are kept before the one at o.
Preserve(o) ==
  LET flush == IF o > Pre THEN o - Pre ELSE 0
  IN /\ offset' = o - flush
     /\ start' = start + flush
     /\ avail' = avail - flush
     /\ first' = IF avail = flush THEN 0 ELSE first + flush

SeekWithin ==
  /\ pc = "seek" /\ start <= want /\ want <= start + avail
  /\ Preserve(want - start)
  /\ pc' = "read"
  /\ UNCHANGED <<ignore_size, threshold_max, eos, seeking, closing, want, size,
                 isfail, upstream>>

\* Not far behind what is there: let it come, and drop it.
Skips == want < start + FarSeek \/ isfail

SeekSkipFromStart ==
  /\ pc = "seek" /\ want > start + avail /\ Skips
  /\ ignore_size' = want - start
  /\ start' = want /\ offset' = 0 /\ Clear
  /\ pc' = "read"
  /\ UNCHANGED <<threshold_max, eos, seeking, closing, want, size, isfail,
                 upstream>>

SeekSkip ==
  /\ pc = "seek" /\ want > start + avail /\ Skips
  /\ ignore_size' = want - start - avail
  /\ start' = want
  /\ offset' = 0
  /\ Clear
  /\ pc' = "read"
  /\ UNCHANGED <<threshold_max, eos, seeking, closing, want, size, isfail,
                 upstream>>

\* trysendseek, as far as the unlock
SeekUpstream ==
  /\ pc = "seek"
  /\ \/ want < start /\ isfail' = TRUE
     \/ want > start + avail /\ ~Skips /\ UNCHANGED isfail
  /\ Clear
  /\ offset' = 0
  /\ start' = want
  /\ ignore_size' = 0
  /\ seeking' = TRUE
  /\ eos' = FALSE
  /\ pc' = "event"
  /\ UNCHANGED <<threshold_max, closing, want, size, upstream>>

\* Upstream takes a flushing seek when its streaming thread is out of the
\* cache; the NEWSEGMENT that answers comes later.
EventTaken ==
  /\ Seekable /\ want <= Length /\ pc = "event" /\ ~blocked
  /\ up' = want /\ segment' = TRUE /\ upeos' = FALSE
  /\ pc' = "read"
  /\ UNCHANGED <<cache, closing, want, size, isfail, blocked>>

\* aiurdemux_callback_read_push does not look at the result.
EventRefused ==
  /\ ~Seekable \/ want > Length
  /\ pc = "event"
  /\ pc' = IF isfail THEN "read" ELSE "seek"
  /\ isfail' = TRUE
  /\ UNCHANGED <<cache, closing, want, size, upstream>>

RoomWithoutPre == size

\* The limit that a read of that size needs.
Room == size + Pre

\* gst_aiur_stream_cache_read: one turn of its loop
Enlarge ==
  /\ pc = "read" /\ ~closed /\ ~seeking /\ threshold_max < Room
  /\ threshold_max' = Room
  /\ UNCHANGED <<start, offset, ignore_size, eos, seeking, adapter, closing,
                 reader, upstream>>

Readable ==
  IF size <= AVAIL_BYTES THEN size ELSE AVAIL_BYTES

Read ==
  /\ pc = "read" /\ ~closed /\ ~seeking /\ threshold_max >= Room
  /\ size <= AVAIL_BYTES \/ eos
  /\ Preserve(offset + Readable)
  /\ want' = want + Readable
  /\ pc' = "idle"
  /\ UNCHANGED <<ignore_size, threshold_max, eos, seeking, closing, size,
                 isfail, upstream>>

ReadClosed ==
  /\ pc = "read" /\ closed
  /\ pc' = "idle"
  /\ UNCHANGED <<cache, closing, want, size, isfail, upstream>>

Callback ==
  \/ CheckPosition
  \/ SeekWithin \/ SeekSkip \/ SeekUpstream
  \/ EventTaken \/ EventRefused
  \/ Enlarge \/ Read \/ ReadClosed

-------------------------------------------------------------------------------
(* aiurdemux_do_push_seek, aiurdemux_sink_activate_push *)

Close ==
  /\ ~closed /\ closed' = TRUE
  /\ interrupted' = TRUE
  /\ UNCHANGED <<cache, reader, upstream>>

\* after runmutex is taken
Open ==
  /\ closed /\ pc = "idle" /\ closed' = FALSE
  /\ UNCHANGED <<cache, interrupted, reader, upstream>>

Next ==
  \/ Streaming
  \/ \E addr \in 0 .. Length : SeekCallback(addr)
  \/ \E n \in Sizes : ReadCallback(n)
  \/ Callback
  \/ Close \/ Open

Spec == Init /\ [][Next]_vars

\* Both threads run: upstream goes on until EOS, a callback until it is done.
FairSpec == Spec /\ WF_vars(Streaming) /\ WF_vars(Callback)

-------------------------------------------------------------------------------
(* Properties *)

Flags ==
  /\ eos \in BOOLEAN /\ seeking \in BOOLEAN /\ closed \in BOOLEAN
  /\ isfail \in BOOLEAN /\ blocked \in BOOLEAN
  /\ segment \in BOOLEAN /\ upeos \in BOOLEAN /\ interrupted \in BOOLEAN

Numbers ==
  /\ start \in Nat /\ offset \in Nat /\ ignore_size \in Nat
  /\ threshold_max \in Nat /\ first \in Nat /\ avail \in Nat
  /\ want \in Nat /\ up \in 0 .. Length
  /\ pc \in {"idle", "position", "seek", "event", "read"}
  /\ size \in Sizes \cup {0}

\* What AVAIL_BYTES subtracts, unsigned in the code, never wraps.
TypeOK == Flags /\ Numbers /\ AVAIL_BYTES \in Nat

\* The parser's place is inside of the adapter; no more than Pre bytes
\* that were read are kept; a buffer that comes while a seek is under way
\* leaves nothing in the adapter.
Window ==
  /\ offset <= avail
  /\ offset <= Pre
  /\ seeking => avail = 0

\* The streaming thread does not wait for room while the demuxer's thread
\* waits for bytes: whatever a read asks for fits.
Full == blocked /\ avail > threshold_max /\ ~closed

Hungry ==
  /\ pc = "read" /\ ~closed
  /\ seeking \/ (threshold_max >= Room /\ size > AVAIL_BYTES /\ ~eos)

NoMutualWait == ~(Full /\ Hungry)

\* Until the cache is closed while it is filled, the adapter holds no more
\* than its limit and one buffer.
Bounded == ~interrupted => avail <= threshold_max + MaxChunk

\* A read delivers the bytes at the parser's place in the file, and fewer than
\* it was asked for only where the file ends: until a user seek closes the
\* cache.
ReadsInPlace ==
  [][~interrupted /\ pc = "read" =>
       /\ want' > want => first + offset = want
       /\ pc' = "idle" /\ want' < want + size => want' = Length]_vars

\* The callback of the parser counts on that for good.
ReadsTrusted ==
  [][pc = "read" /\ want' > want => first + offset = want]_vars

\* A read comes back, with bytes or at the end of the file, or is interrupted.
ReadReturns == pc = "read" ~> pc = "idle" \/ interrupted
===============================================================================
