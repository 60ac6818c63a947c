# Verification of the i.MX GStreamer plugins

TLA+ models of the parts of `gst-fsl-plugins` in which several threads or
processes, or a long sequence of calls, decide whether playback is right, with
their TLC runs and TLAPS proofs.  Paths below are those of the repository,
under `src/` (its own directory `src` is then `src/src`).

## 1. The system

The repository holds GStreamer 0.10 elements for Freescale i.MX boards, the
libraries they share, and a command line player.  A file is played like this:

    upstream --push--> aiurdemux --> vpudec / beepdec --> v4lsink / isink
                         |              |                      |
                   stream cache    timestamp manager     hardware buffers,
                                                          video surfaces
    gplay: user, message queue, bus -- starts, stops, seeks --> the pipeline

| Component | State it keeps | Operations | Works with | What makes it correct |
|---|---|---|---|---|
| hardware buffer allocator `src/libs/hbuf_alloc` | zones by size, each with all its buffers, a free list and two counters; one mutex | `mfw_new_hw_buffer`, `mfw_free_hw_buffer`, the destructor | decoders, sinks, the driver | a buffer has one owner; counters exact; memory nobody uses goes back |
| timestamp manager `src/libs/me` | ring of timestamps, count of frames without one, running average of durations | receive, send, query, resync, frame rate | video decoders, on their streaming thread | each timestamp goes out once, in output order; time does not go back |
| stream cache `aiurstreamcache.c` | adapter, the address of its start, reading offset, bytes to skip, limit, `eos`, `seeking`, `closed` | new segment, add buffer, EOS; seek, read; close, open | upstream thread, demuxer thread, the thread of a user seek | a read returns the bytes at its place; the threads never wait for each other |
| demuxer `aiurdemux.c` | stream table with queues and masks, state, `running`, `runmutex` | header, movie loop, seeks, activation | the parser libraries, the cache, the queues behind its pads | on every pad a segment, the samples in order, an end; a seek returns; streams do not wait on each other |
| index table, registry, type finder | none after start | load, save | files | sequential |
| video surfaces `src/libs/vss` | shared table of surfaces, devices with frame buffers, a named semaphore | create, destroy, configure, raise, render | sinks in several processes, the IPU | nobody paints what is on display; every pass shows every surface's latest frame |
| gplay `src/tools/gplay` | message queue, `eos_semaphore`, `player_state`, playlist, exit flags | commands, bus callback, message loop | playbin | EOS answered once; no lost wakeup; ends when told |
| V4L sink, V4L source | pool of driver buffers and their states, list of queued indexes | allocate, show, dequeue, finalize, suspend | decoder, driver | a buffer is with one party; every queued one comes back |
| i sink | window, its surface | configure, show, X events | video surfaces | one configuration at a time |
| vpudec, vpuenc | frames with display handles and ages, mosaic and drop levels | chain, state changes, events | VPU library, timestamp manager, sink | a frame on display is not decoded into; input is consumed |
| VPU decoder and encoder on the raw library | frame states, mutex, timeouts | chain, flush, cleanup | VPU library | the same, across the wait for the interrupt |
| beepdec | decoder, time offset, error count | chain, events | codec libraries | time follows the samples |
| other audio and video codecs, filters | an adapter of input bytes | chain, events | codec libraries outside of the repository | single threaded |
| option tables, configuration, metadata, macros | none | parse | files | sequential |

`PROJECT.json` lists them with the reason for each part that is left out.

What is hard here: two threads that wait for each other in the cache; the
answers to a seek that arrive after the next one was made; shared memory that
is written before the lock is taken; timestamps in decoding order that leave in
display order; error paths that undo half of what they did; and a player whose
threads leave while others sleep.  The section "hazards" of `PROJECT.json` lists
them line by line, with the property that would catch each.

## 2. The modules

| Module | Code | Depends on |
|---|---|---|
| `BufferOwnership` | abstract: who owns a buffer | |
| `HwBufAllocator` | `hwbuffer_allocator.c` | instantiates `BufferOwnership` |
| `TimestampPool` | abstract: which timestamps are owed | |
| `TSManager` | `mfw_gst_ts.c` | instantiates `TimestampPool` |
| `StreamCache` | the stream cache of `aiurstreamcache.c`, and its callers in `aiurdemux.c` | |
| `VideoSurface` | `mfw_gst_video_surface.c`, `mfw_gst_vss_common.c` | |
| `PadProtocol` | abstract: what a demuxer sends on each pad | |
| `Demuxer` | the loop, the threads and the seek of the push mode in `aiurdemux.c` | instantiates `PadProtocol` |
| `V4lSink` | `mfw_gst_v4lsink.c`, `mfw_gst_v4l_buffer.c`, the queues of `mfw_gst_v4l.c`, `mfw_gst_v4l_suspend.c` | |
| `VpuDec` | the frames of `vpudec.c` | |
| `Rendering` | decoder, sink, driver and control together | composes `VpuDec` and `V4lSink` |
| `GPlayer` | `mfw_gplay.c`, `mfw_gplay_core.c`, `fsl_player_queue.c`, `playlist.c` | |
| `MC...` | constants, symmetry and view for TLC | extends the module it is named for |
| `..._proofs` | theorems | extends the module it is named for |

A definition that models code stands in the section `map` of `PROJECT.json` with
its lines.  Definitions whose name says what is wrong with them
(`SetSegmentKeepsEos`, `PushUnlessUnread`) are plausible mistakes in that code; no
specification uses them, and each is listed under `mutants` with the property
that rejects it.

**HwBufAllocator.** An allocation is one action, because all of it happens under
`g_hwallocator_lock`: take a buffer from the zone's free list (`Reuse`), or get
one from the driver (`Create`), or recycle the other zones and get one
(`RecycleAndCreate`), or fail in one of four ways.  `mfw_free_hw_buffer` reads
`bufdesc->zone` before it takes the lock, so it is two actions (`FreeBegin`,
`FreeLocked`).  `process` tells when the C program has no meaning any more:
`recycle_zone` frees the descriptors of a free list without emptying the list,
and `ReuseStale` and `RecycleStale` are the uses of what it left; `stale` is that
part of the list.  The destructor, and frees that come after it, are actions.

**TSManager.** One streaming thread calls it: each operation is one action.
`Receive` has the guard against a full ring and the test for discontinuities,
`Send` the scan for the smallest timestamp or for a key, the extrapolation, the
move of the oldest entry into the slot sent, the running average.
`TSManagerQuery` leaves the state as it was and is not an action.
`TSManagerReceive2`, `Valid2` and `Query2` keep a list of received lengths beside
the ring, which is not modelled.

**StreamCache.** Three parties: upstream (`SetSegment`, `AddBuffer`, `Unblock`,
`SetEos`), the demuxer's thread inside the callbacks of its parser
(`SeekCallback`, `ReadCallback`, then the steps named by `pc`), and a user seek,
which closes the cache, waits for the demuxer's thread to leave, and opens it
(`Close`, `Open`).  A critical section of `cache->mutex` is one action.  Bytes are
their addresses in the file: `first` is the address that the first byte of the
adapter really has, `start` the one the code takes it to have.  Waits end after
one second and look again (`WAIT_COND_TIMEOUT`), so a waiting thread goes on when
what it waits for holds and signals are not modelled.

**Demuxer.** `loop` is the thread that holds `runmutex`, with what it does next: the
top of `aiurdemux_loop_push`, the next read of `aiurdemux_loop_state_movie`, a push,
or the drain of the interleave queues; `threads` counts those that wait for the
mutex (one is started by each activation and each seek).  A read is one action,
by what it brings: a part of a sample (`Fragment`), a whole one that is thrown
away (`Discard`, `DropLong`) or sent (`Keep`, with `aiurdemux_check_long_interleave`),
an end or an error (`ReadEnd`, `ReadInvalid`, `ReadFails`).  `user` is the application's
thread in a seek or a stop: flush (`Begin`), then `running` off and the cache closed
(`Halt`), then, once it has the mutex, `SeekPerform`, `SeekRefused` or `Deactivate`.
`Place` is `gst_aiurdemux_perform_seek`, with a parser that may fail for each stream.
The parser and the sinks are external: samples of a stream come in order and in
parts, streams interleave in any way the read mode allows, and the sinks wait
until each pad has a sample or its end.  What came out of a pad (`pad`) is what
`PadProtocol` speaks of; `promised` is a history variable, false once a seek without
a flush finds a pad ended by the read it cut, or a refused seek has flushed.

**VpuDec, V4lSink, Rendering.** `V4lSink` has the pool of display buffers: state,
reference counts, the list of queued indexes and its two counters, the driver's
queue, and the operations of the sink's thread and of the decoder's when it is in the
sink (allocation, rendering, dequeuing, suspend and resume, change of geometry, close
and open).  The sink's thread changes `v4lqueued` and `v4llist` without `pool_lock`,
the decoder's under it, so each change is two steps, a load and a store (`Refer` and
`Queue`, `Showing` and `Count`, `CodecDequeue` and `CodecStore`).  If the list was stored
by the other thread in between, what was done to it may be lost, or the list begins with a
node that was freed and holds anything (`AppendIndex`); that this happened is
recorded (`RacesAlong`, event "race").  `StreamOnAt` tells the two branches that switch the
stream on apart; that `STREAMON` fails is one of the events, and nobody looks at it.
`VpuDec` has the frames between the core, the element and the queue of displayed
ones (`CheckDisplayQueue`, output, flush, stop).  A call of `chain` goes round its loop
until the core wants input or `decode_retry_cnt` tries brought nothing, and may go round
again after a picture (`AfterPicture`), whether the picture was taken downstream or
refused.  `Rendering` puts both on one pool, with the choice between a hardware decoder,
whose frames are the sink's buffers, and a software one, which copies; `Control` is the
application and `Complete` the driver, which shows and gives back.

**VideoSurface.** A process is a client with a place `pc` in its operation.
`paddr` and `rendmask` are written outside of the lock by `Submit`; drawing one
surface is two actions, `Paint` and `Mark`, because another process can write
between them; `Flip` shows the buffer and goes on to the next.  `fb` is what is
painted in each frame buffer, in order.  The change of layer after an expose
event (`Raise`, `RaiseAppend` and its pass) takes no lock, as in the code.  `came`
is a history variable: whether the frame of a surface came while somebody was
drawing.  `setup` is how the display is used: by several processes, or by one whose
windows leave the screen and change their layer.

**GPlayer.** Three threads share a playbin: `bus` (messages of the pipeline),
`msg` (messages of the queue) and `main` (the user).  `todo[t]` is the list of
steps thread `t` has left; `play`, `pause` and `stop` are one step each, as they
hold `status_switching_mutex`.  The queue, the semaphore, the pipeline's state
with changes that time out and succeed later, the playlist with its repeat modes,
and the way out with its flags, alarm and joins are modelled.  `strayed` is a
history variable: the last change of state timed out.

## 3. The runs

| Run | Instance | Shows | States |
|---|---|---|---|
| `hwbuf` | 2 sizes, 3 buffers, 2 threads | `Ownership`, `NoIdleZone`; implements `BufferOwnership` | 16 thousand |
| `hwbuf_stale` | the same | violation: recycling leaves a zone with freed descriptors | |
| `tsm_ring` | ring of 3, history of 2, one key, times in order, out of order and far ahead, 7 sends | `RingAccounting`, `Monotone`, `FifoOrder`, `HistoryTotal`; implements `TimestampPool` | 1.3 million |
| `cache_play` | file of 6, buffers of up to 2, reads of up to 3, close and open at any time | `ReadsInPlace`, `Bounded`, `NoMutualWait`, `ReadReturns` | 0.8 million |
| `cache_skip` | the same | violation: a skip that is interrupted loses its place | |
| `demux` | 2 streams of 2 samples, 4 ways to read, 1 seek or stop | `UserReturns`, `Ends`; implements `PadProtocol` | 0.2 million |
| `vss` | 2 processes, 2 surfaces, 2 frame buffers; or 1 process, 3 buffers, layers, windows off the screen | `Registry`, `NoTearing`, `OnePass`, `RefreshesAll` | 4.7 million |
| `vss_late` | the first of these | violation: a frame given while another process draws is left out of later passes | |
| `rendering` | 3 buffers, 2 decoders, one fault or call out of the ordinary | `RefsAccounted`, `PoolExclusive`, `NoTearing`, `ListMirrors`, `CountVpu`, `StreamsOn`, `AllFreed`, `Fed`, `Stopped` | 1.4 million |
| `rendering_count` | the decoder that copies, nothing out of the ordinary | violation: the unlocked count of queued buffers loses an update | |
| `gplay` | 2 items, all commands, 2 commands, 2 messages of the pipeline | `EosRendezvous`, `PausedIsQuiet`, `UriFollowsCurrent`, `EosHandled`, `ErrorEnds` | 0.6 million |
| `gplay_exit` | 1 item, commands to leave | violation: a player that leaves hangs | |

Each passing run checks its module's `TypeOK` as well.

### Bounds

* `HwBufAllocator` has no bound of its own.  Two sizes let a zone be recycled for
  the other; three buffers let a zone have one buffer out and one free while the
  other has one as well; two threads are what a free and an allocation that
  overlap need.  Symmetry is not used, as the promise names owners.
* `TSManager` counts for ever; `MaxAge` bounds the frames sent between two
  resynchronisations and `MaxTime` the extrapolated time.  Four sends with a full
  ring take both indexes of a ring of three past its end; the time 9 is beyond
  the threshold of discontinuity.  After three sends the ring holds one frame at most
  (`MCFew`); the seven sends are there for the average, whose count of outliers
  (`big_cnt`) saturates with the sixth.  The `VIEW` leaves out slots that are not in
  use and the last timestamp received before a resynchronisation: neither is read.
* `StreamCache`: the file is longer than what the cache keeps; a far seek is
  beyond the limit; a read can ask for more than a buffer brings and more than
  the limit, so that the limit has to grow.
* `Demuxer`: two streams are what waiting on each other takes, a video and an audio
  stream what the seek tells apart.  With two samples a stream can be late, lose
  one, get one twice or have one put together from two.  `MaxInterleave` is one
  sample and the queue behind a pad holds one: the assumption that
  `max_interleave_bytes` is no more than what the pipeline holds (`MaxInterleave <=
  Capacity`) is the default's own reason ("playbin2 preroll 2M bytes",
  `aiurdemux.c:398`).  `MaxCalls` is one seek or stop, at any point of the film; a restart
  follows a stop.  A seek without a flush is made while the sinks play.  A place is
  kept in a sample's number, and in two parts at most.
* `Rendering`: three buffers, one in each party's hands; `MaxShow` bounds how often a
  buffer is shown, and `MaxEvents` lets one hazard (suspend, geometry, a refusal of the
  driver to queue or to switch on, a stall, a flush) happen in a behaviour, once.  That the two
  threads store the list across each other is not bounded.  The size of the pool is
  the sink's rule; with fewer a decoder starves after a stall.  Refusals of the driver
  (`QueueFails`) may come at any time, which is more than a driver does.  `StreamOnAt` is 1
  in the runs; for the chip that starts with the first buffer (0) the theorems hold in
  the same way.
* `VideoSurface`: two processes suffice for every pair of steps; a third frame
  buffer, with one process, is one that is neither painted nor on display.  Symmetry
  of clients and frames is sound: no property names one.  (Temporal properties
  checked with symmetry are box-action properties, no liveness.)
* `GPlayer`: `MaxCommands` and `MaxSent` bound what the user types and what the
  pipeline posts.  Two of each make every thread meet every other at every step.
  Both modes of the command line (no option, and a list played twice with
  buffering) are initial states.

### Deadlock

It is checked in every run but those of four modules.  The allocator's process ends
(exit, or a use of freed memory); the player ends; a film ends on every pad and
nobody seeks (`Demuxer`); the pipeline has shown `MaxShow` frames, or has stopped with
buffers out and is not opened again (`Rendering`).  There nothing more happens, and
`CHECK_DEADLOCK FALSE` says so; that nothing stops before its end is what `Ends`,
`UserReturns`, `Fed` and `Stopped` say.  That the player may also stop before its end is
`gplay_exit`.

### Fairness

* `StreamCache`: weak fairness of upstream's thread and of the callbacks.  Both are
  threads that wait with a timeout and look again, and upstream sends its file
  until the end; nothing is assumed of the user or of the parser.
* `GPlayer`: weak fairness of each of the three threads.  They are kernel threads;
  what they wait for (a message, the semaphore, a thread) is a guard.  Nothing is
  assumed of the user or the pipeline: no command and no message has to come.
* `Demuxer`: weak fairness of the loop's thread but for reads from an open cache,
  which wait for data as long as upstream likes; of the call the application has
  begun; and of each sink, which plays what it has.  `Ends` adds, as a premise, that
  data goes on to come (`DataComes`).  Nothing is assumed of the parser or of what
  downstream answers: no end, no error and no refusal has to come.
* `Rendering`: weak fairness of the decoder's thread, of the sink's, of the control
  that was begun and of the driver, which completes what it has while it streams.  The
  retries in `mfw_gst_v4l2_new_buffer` are counted in the code (`BUFFER_NEW_RETRY_MAX`);
  in the model those that find nothing are left out, and they end because the driver
  has only so much to give back.
* The other modules have safety properties only.

### Findings

1. `hwbuf_stale`: `recycle_zone` does not empty the free list of a zone that stays.
   The next request of that size takes a freed descriptor.
2. `cache_skip`: `gst_aiur_stream_cache_seek` computes the bytes to skip from the
   adapter alone; a skip still under way is forgotten and later bytes are
   delivered at the wrong address.  It takes a user seek in the middle of a skip;
   `ReadsInPlace` stops at the first close, `ReadsTrusted` does not.
3. `vss_late`: a process that draws marks a surface as painted after its owner has
   put a new frame there; until its next frame that buffer shows the old one.
4. `gplay_exit`: `player_exit` flushes the queue and sends nothing, so that the
   message thread may sleep for ever and `main` waits for it.
5. `rendering_count`: the sink increments `v4lqueued` without the lock under which a
   decoder that allocates each frame decrements it; an update is lost and the number
   is wrong from then on.  With the VPU decoder, which allocates once, it is right
   (`CountVpu`).

## 4. Proofs

All are checked by TLAPS for every value of the constants that satisfies the
named assumption of the module.  Most of these say little more than the types of
the constants (`AllocatorAssumption`, `TSManagerAssumption`,
`StreamCacheAssumption`, `VideoSurfaceAssumption`, `GPlayerAssumption`, and
`V4lSinkAssumption`, `VpuDecAssumption` and `RenderingAssumption` for the pipeline).
`DemuxerAssumption` says more: the interleave limit is not above what the queues
behind the pads hold, and a file read track by track has no interleave queues; section
3 and the code (`aiurdemux.c:398`) say why.

Every safety property of a passing run is stated by a theorem; `PROJECT.json`
lists them with what each establishes.

**HwBufAllocator_proofs.** `IInv` is `TypeOK`, `Accounting`, `Ownership`,
`NoIdleZone` and `Handles` (a handle being freed is held no longer).  `Ownership`
alone is not inductive: that destroying a zone hurts nobody follows from
`freecnt = cnt`, which says something of the lists only through `Accounting`.  The
pools after an allocation are a record, with one lemma per list operation
(`RecycledInv`, `WithNewInv`, `DestroyedInv`), so that the actions that combine
them reuse the lemmas.  `AllocatorKeepsPromise` is the refinement: initial states
map to initial states, and each action is an action of `BufferOwnership` or a
stutter.  The allocator promises nothing after a freed descriptor was used, which
is what `process = "running"` says in each invariant: the theorems hold of the
code until finding 1 happens.

**TSManager_proofs.** `IInv` is the types of the numbers, `RingAccounting` and
`AgeInv` (the entries in use have different ages, bounded by the frames received).
From it `TypeCorrect`, `RingCorrect`, `ImplementsPool` (the smallest timestamp is
found by the scan; the move of the oldest entry keeps the set of pending ones)
and `FifoCorrect`.  `Summed` adds the running average: the sum over a set of indexes is
a function on the subsets of the indexes, and what an induction over the history
would show of it (a sum changes with one entry by the difference) is shown by
taking a smallest subset that fails.  It gives `AverageCorrect`; and since an
average of non-negative numbers is not negative, and `Send` never hands out less than
the last timestamp plus it, `NeverBack`.

**StreamCache_proofs.** `IInv` is `Numbers`, `Window` and `Limit`; it gives
`TypeCorrect`, `CacheSafe` (the window and the absence of a mutual wait) and
`CacheBounded`.  Until a first interruption `PlayInv` adds the balance `start + avail =
up + ignore_size`: where upstream is, what is dropped and what is held add up to
where the parser is.  `ReadsCorrect` follows: the bytes a read delivers are those
at its place, and a short read ends at the end of the file.  It holds until
the cache is first closed (`interrupted`, a history variable); finding 2 is the
counterexample after that.

**Demuxer_proofs.** `PadsKeepPromise` is that the demuxer implements `PadProtocol`: on
each pad a segment, then samples in order, then one end, whatever the application
calls and when.  `IInv` is `Safe` (types, and what the flags, masks, threads and
the loop's place say of each other) with four parts that the order on the pads
needs.  `SomeLeft`: a loop that goes round has a stream that is valid, so that the
end is sent on every pad and once.  `Sending`: the stream of a push is valid and has its
segment.  `PadsAgree`: the flags of a stream say what its pad has seen.  `InOrder`: the
numbers follow each other from the last sample sent over the one that is being sent
(`Reached`) and the queued ones (`Newest`) to the parser's place; neither half is
inductive without the other, since a sample goes through all of them.  The last
three speak of the time in which the pads see what the loop does (`Seen`): a flush
throws away what comes out, and a seek starts all of it again.

**GPlayer_proofs.** Each thread's remaining steps are a list, and all invariants are
about where in a list a step can stand.  `WellFormed` says it from the end of the list (a
step to wait is the last one, EOS is answered just before the wait, `post` has two
steps behind it), so that it survives that the first step is taken away.
`OneAnswer` is `Rendezvous` without the count: an answer to an EOS is in the
queue, with the message thread or in the semaphore, in one of them at most and
only while the bus thread waits.  `Located` (`LocationFollows`) and `PausedIsQuiet` (`Quiet`)
are inductive with these.

**VideoSurface_proofs.** `IInv` is `Control` (the types of the places, the lock and
`rendering`), `LockHeld` and `BuffersApart`; of the list and of what is painted it
needs nothing.  `LockProtects` is `OnePass` for any number of processes and
surfaces, while no expose event raises a window; with expose events and two clients
`OnePass` does not hold, as they take no lock, which is why the run lets one
client alone raise its windows.  The existential after `rendering` becomes
inductive with `LockHeld`: if nobody has the lock, nobody is in a pass, and so
`rendering` is not set when the next pass begins.  `NeverTears` is `NoTearing` for any
number of buffers but one, where windows are raised by one client at most (`Calm`).

`Register` carries `RegistryCorrect`: a surface is known in one place at a time (`Known`:
on the list, with the client that raises it, or with the one that destroys it),
each held by one process (`Owned`), and `cnt` counts them while one is off the list
(`Counted`).  `Calm` (where windows are raised, one client draws) is a hypothesis
because `Raise` takes no lock: two clients that raise, or raise and destroy, at once
can leave the list and `init` in disagreement.

`PassesRefresh` is `RefreshesAll`: what a pass puts on display shows the latest frame
of every surface, in the order of the list.  Here the invariant has to say what holds
in the middle of a pass.  `Painted` is what `rendmask` means (`UpToDate`: a surface
marked for a buffer is in it with its last frame; `Layered`: two that are marked are in
order), except for those that the pass has still to come to and will paint again (`Redo`,
`Due`).  `Walk` is where the pass is: what it has passed by is marked (`Visited`), and the one
it has just painted is in front (`JustPainted`).  At the flip nothing is left to come to, the
exceptions are empty, and `Painted` is the property.

**Rendering_proofs.** `Base` holds always: `Typed`, `Listing` (no buffer is twice in
the driver's two queues, and what is there is on the sink's list), `Streams` and
`Counted` (the switch of the stream, with the first buffer or the second, and the count of
queued buffers, with a buffer that is queued and not yet counted).  The part of `Listing`
about the list ends when the threads of a copying decoder and of the sink store it across
each other; with the VPU decoder the list a thread has loaded is the one it replaces
(`Appending`).  `ListCorrect`, `StreamGoesOn` and `CountCorrect` follow from it.
`Sane` adds, for each buffer, `Sound`: it is on its way in one place at most (`OneWay`), its
references are those that hold it (`Balanced`), the pool and the states agree (`Idles`,
`Shows`), and a buffer that is displayed is with no decoder (`Apart`).  A buffer counts as
displayed from the moment its reference is taken (`Claimed`: listed, or about to be).  None of
these is inductive alone: a reference is dropped for the right reason only if the state says
who holds it, and a state is right only if a buffer is not in two places.  Most steps touch
one buffer, so that `Sound` of the others is kept by one lemma (each step that leaves a
buffer's fields and places as they were keeps it), and `UnrefSound` is the last reference in
all of its cases.  From `Sane` come `ReferencesAccounted`, `PoolIsExclusive`, `PicturesStay`,
`MemoryGoes` and `TypeCorrect`.

`Sane` speaks of a system that is `Awake`: nobody has suspended it, and the threads of
a copying decoder and of the sink have not stored the list across each other.  A suspension
gives the references of displayed buffers back once more than it took them, and an index
that stays listed and is not queued makes the sink count a buffer without a reference; the
sum in `Balanced` is then wrong, in the code as in the model.  `RefsAccounted` and
`PoolExclusive` make the same exceptions, `ListMirrors` that of the list.  `NoTearing`,
`AllFreed` and `TypeOK` are checked by TLC without that of the list (`AllFreed` and `TypeOK`
after a suspension as well); there the theorems say it as a premise.

`Accounting`, `AgeOrder`, `Window`, `Base` and `Sane` are invariants proved and not
properties of a run by themselves.

Some definitions are written the way they are for the sake of the proofs: `Unlink` and
`Without` (a list without one element, where the C code unlinks a node), `Shows` and `Ready`
in `VideoSurface`, `Joins` and `Answers` in `GPlayer`, `Ascending` in `V4lSink`.

**Model-checked only.** `ReadReturns`, `UserReturns`, `Ends`, `Fed`, `Stopped`, `EosHandled` and
`ErrorEnds` are liveness under fairness, which is out of this prover's reach.  So
are the five runs that expect a violation: that a property fails is shown by its
counterexample.

## 5. Not modelled

* The list of received lengths of the timestamp manager, and its logging.
* In the demuxer: the pull mode, the choice of programs and tracks, caps, tags, the
  arithmetic of timestamps, samples without data, `num_of_samples`, refusals of a pad
  other than the end (they are ignored, as a sample taken is).
* In the sink: the set-up of the driver, the frame buffer and the X window, and the
  reserved buffers, of which there are none.  In `vpudec`: the quality of service and
  the set-up of the core; its calls of the timestamp manager are in `TSManager`.
* The local cache of blocks in `aiurstreamcache.c`; a seek that upstream refuses is modelled, but no property says that
  the read after it returns (it does not, see the hazard at
  `aiurstreamcache.c:380`).
* In video surfaces: rectangles, formats, subtitles, the configuration file, the
  change of the display mode, and the crash of a process that holds the semaphore.
* In gplay: volume, mute, rotation, metadata, snapshots, the thread that prints the
  position, and signals.
* The components that section 1 lists without a module, for the reasons in
  `PROJECT.json`: most are codecs around libraries that are not here.

Weak points that were noticed on the way, and that no property states or that the properties leave aside:

* demuxer: the read that a seek without a flush cuts sends the end of the stream on
  every pad, and the new segment follows it (`aiurdemux.c:1614`, `4024`); a refused
  reverse seek flushes, and the samples go on without a segment, though a comment
  says that it "never returns FALSE" (`:1463`, `:1630`); streams that leave out their
  samples before the place of a seek are not late for
  `aiurdemux_check_long_interleave`, so that the others may fill their queues and wait
  for ever (`:4146`; without its premise on `block`, `Ends` is violated so); errors of a
  push other than the end are ignored (`:3907`); `aiurdemux_combine_flows` hides the
  last stream's refusal, and the loop reads on to the end of the file (`:3735`); an
  end is sent again to the first track when none is valid (`:3800`); a seek does not
  reset `partial_sample`; the detached thread holds no reference to the element
  (`:4399`); `setcaps` changes the state without a lock (`:950`); `num_of_samples` of one
  stream ends all of them in file mode.
* sink and decoder: with a decoder that copies, the sink and the decoder store the list of
  queued indexes across each other (`mfw_gst_v4lsink.c:1223`, `mfw_gst_v4l_buffer.c:630`): an
  index that stays listed and is not queued is never queued again, its buffer is counted
  without a reference and can reach the pool with `showcnt` above zero; or the list begins with a
  freed node.  A count of queued buffers above what the driver will give back (finding 5, or
  a stream that was not switched on) makes the search for a buffer endless
  (`mfw_gst_v4l_buffer.c:390`; `Stopped` names it as the one reason not to stop).  Nobody looks at
  a `STREAMON` that fails (`mfw_gst_v4l.c:1624`) or tries it again: pictures stay away until a
  suspension, a change of geometry or a restart.  Suspend uncounts showing buffers once
  too often and the sink stops to dequeue (`mfw_gst_v4l_buffer.c:593`); a flush hands frames on
  display back to the core (`vpudec.c:1862`); a change of geometry keeps list and count over a
  stream that was switched off (`mfw_gst_v4l.c:1358`); a refused buffer unlocks a mutex
  that is not held and is never freed (`mfw_gst_v4lsink.c:1243`); the dequeue is tried
  five hundred times without a pause (`mfw_gst_v4l_buffer.c:426`).
* timestamp manager: the list of received lengths counts an entry whose allocation
  failed (`mfw_gst_ts.c:243`).
* video surfaces: a slot that is used again keeps its former owner's frame
  (`mfw_gst_video_surface.c:779`); a refresh draws hidden surfaces (`:406`); a process
  killed while it holds the semaphore leaves it taken (`mfw_gst_vss_common.h:109`); the
  X event thread of the i sink configures a surface without a lock
  (`mfw_gst_i_xlib.c:328`).
* gplay: the main loop is released before its thread is joined
  (`mfw_gplay_core.c:810`), mutexes are taken in a signal handler (`mfw_gplay.c:673`),
  repeating the last item leaves (`:548`), and an end queued before the user's next
  command skips an item (`:541`).
* raw VPU decoder: the mutex is given away around the wait for the interrupt
  (`mfw_gst_vpu_thread.c:335`).  beepdec drops the rest of a buffer at a stream error
  (`beepdec.c:874`).

## 6. Plan

Done: the models of the components in section 2, their runs, and theorems for every
safety property that a passing run checks.  Next, in this order:

1. Proofs: what is left of the sink's accounts after a suspension and after the
   threads have met in the list (`AllFreed`, `NoTearing`), and reads of the stream cache
   after an interruption.
2. `LocalCache` and the pull mode, and the list of received lengths in `TSManager`.
3. The raw VPU decoder's mutex around the wait for the interrupt.
4. `beepdec`: time and errors around the codec library.
5. The V4L source, the same queues in the other direction.
