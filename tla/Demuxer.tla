-------------------------------- MODULE Demuxer --------------------------------
(***************************************************************************)
(* src/parser/aiur/src/aiurdemux.c in push mode: a detached thread per     *)
(* activation and per seek (aiurdemux_loop_push), one at a time under      *)
(* runmutex, reads samples with a parser library and pushes them to the    *)
(* pads of their streams; the application's thread starts, stops and seeks *)
(* (it holds the state lock for each, so that this is one thread).         *)
(*                                                                         *)
(* The parser is a library: what it returns is open, but that it gives the *)
(* samples of a stream in order.  Samples are numbered, in the direction   *)
(* of play, and the number is also their time.  Behind each pad there is a *)
(* queue, and sinks that begin to play when each of them has something.    *)
(***************************************************************************)
EXTENDS Integers, FiniteSets, SequencesExt

CONSTANTS
  NumStreams,
  Video,           \* the video streams, the others are audio
  Samples,         \* per stream
  Configs,         \* how a file may be read, see config
  MaxInterleave,   \* max_interleave_bytes, in samples
  Capacity,        \* of the queue behind a pad
  MaxCalls         \* bound on seeks and stops

Streams == 1 .. NumStreams
None == -1
Mixed == Samples   \* a sample put together from parts of two

ASSUME DemuxerAssumption ==
  /\ NumStreams \in Nat \ {0} /\ Samples \in Nat \ {0}
  /\ Video \subseteq Streams
  /\ Configs \subseteq [mode : {"file", "track"}, limit : Nat, drop : BOOLEAN,
                         parts : BOOLEAN, trick : {FALSE}]
  /\ \A c \in Configs : c.mode = "track" => c.limit = 0
  /\ MaxInterleave \in Nat \ {0} /\ Capacity \in Nat
  /\ MaxInterleave <= Capacity
  /\ MaxCalls \in Nat

VARIABLES
  active, state, running, closed,   \* sink pad, the element, the cache
  threads,                          \* loops that wait for runmutex
  loop,                             \* the one that holds it
  user,                             \* the application
  config,                           \* the read mode; interleave_queue_size in
                                    \* samples; drop_sample; whether samples
                                    \* come in parts; the play mode
  stream,                           \* AiurDemuxStream, per stream
  valid_mask, new_segment_mask, pending_event,
  pos,                              \* the parser's place in each stream
  pad,                              \* what came out of each pad
  fifo, flushing, playing,          \* behind the pads
  promised,                         \* history, see PadProtocol
  count                             \* of seeks and stops so far

threadVars == <<active, state, running, closed, threads>>
masks == <<valid_mask, new_segment_mask, pending_event>>
downstream == <<pad, fifo, flushing, playing>>
vars == <<threadVars, loop, user, config, stream, masks, pos, downstream,
          promised, count>>

Fresh == [seg |-> FALSE, eos |-> FALSE, last |-> None]
NoCall == [pc |-> "idle", what |-> "stop", flush |-> FALSE]
Idle == [pc |-> "none", s |-> 1, n |-> None, from |-> "sample"]

NewStream == [valid |-> TRUE, new_segment |-> TRUE, pending_eos |-> FALSE,
              block |-> FALSE, partial |-> FALSE, held |-> None, preroll |-> 0,
              last_stop |-> 0, last_ret |-> "OK", queue |-> <<>>, time |-> 0]

NoStream == [NewStream EXCEPT !.valid = FALSE, !.new_segment = FALSE]

Init ==
  /\ active = FALSE /\ state = "probe" /\ running = FALSE /\ closed = FALSE
  /\ threads = 0 /\ loop = Idle
  /\ user = NoCall
  /\ config \in Configs
  /\ stream = [s \in Streams |-> NoStream]
  /\ valid_mask = {} /\ new_segment_mask = {} /\ pending_event = FALSE
  /\ pos = [s \in Streams |-> 0]
  /\ pad = [s \in Streams |-> Fresh] /\ fifo = [s \in Streams |-> 0]
  /\ flushing = FALSE /\ playing = FALSE
  /\ promised = TRUE /\ count = 0

-------------------------------------------------------------------------------
(* Events on the pads *)

\* aiurdemux_send_stream_newsegment; a pad that is flushing refuses it.
Segmented(p, S) ==
  [s \in Streams |-> IF s \in S /\ ~flushing THEN [Fresh EXCEPT !.seg = TRUE,
                                                   !.eos = p[s].eos]
                     ELSE p[s]]

\* aiurdemux_send_stream_eos for the streams E, with the segment each may wait
\* for, when the table of streams is str and the pads stand at p.
SendEos(E, str, p) ==
  LET first == {s \in E : str[s].new_segment}
      opened == Segmented(p, first)
  IN /\ stream' = [s \in Streams |->
                     IF s \in E THEN [str[s] EXCEPT !.valid = FALSE,
                                                    !.new_segment = FALSE]
                     ELSE str[s]]
     /\ new_segment_mask' =
          {s \in new_segment_mask : stream'[s].new_segment}
     /\ valid_mask' = valid_mask \ E
     /\ pad' = [s \in Streams |->
                  IF s \in E /\ ~flushing THEN [opened[s] EXCEPT !.eos = TRUE]
                  ELSE opened[s]]

Valid == {s \in Streams : stream[s].valid}

\* aiurdemux_choose_next_stream
Urgent(s) ==
  \/ config.mode = "track" /\ stream[s].partial
  \/ config.limit > 0 /\ Len(stream[s].queue) > config.limit

Behind(s, t) ==
  \/ stream[s].last_stop < stream[t].last_stop
  \/ stream[s].last_stop = stream[t].last_stop /\ s <= t

Choose ==
  IF Valid = {} THEN 1
  ELSE IF \E s \in Valid : Urgent(s)
  THEN CHOOSE s \in Valid : Urgent(s) /\ \A t \in Valid : Urgent(t) => s <= t
  ELSE CHOOSE s \in Valid : \A t \in Valid : Behind(s, t)

-------------------------------------------------------------------------------
(* The loop, by what its thread does next: "top" of the loop, "do" the next  *)
(* read, "push", "drain" the interleave queues at the end.                   *)

Goto(pc) == loop' = [Idle EXCEPT !.pc = pc]

\* aiurdemux_push_task pauses when a state handler does not return OK.
Return(ret) ==
  /\ Goto("top")
  /\ running' = (running /\ ret = "OK")

Enter ==
  /\ loop.pc = "none" /\ threads > 0
  /\ threads' = threads - 1
  /\ Goto("top")
  /\ UNCHANGED <<active, state, running, closed, user, config, stream, masks,
                 pos, downstream, promised, count>>

Leave ==
  /\ loop.pc = "top" /\ ~running
  /\ Goto("none")
  /\ UNCHANGED <<threadVars, user, config, stream, masks, pos, downstream,
                 promised, count>>

\* aiurdemux_loop_state_init: the parser reads the cache; it may not like it.
CreateParser ==
  /\ loop.pc = "top" /\ running /\ state = "initial"
  /\ \/ ~closed /\ state' = "header" /\ Return("OK")
     \/ UNCHANGED state /\ Return("ERROR")
  /\ UNCHANGED <<active, closed, threads, user, config, stream, masks, pos,
                 downstream, promised, count>>

\* aiurdemux_loop_state_header, with aiurdemux_parse_streams
ParseHeader ==
  /\ loop.pc = "top" /\ running /\ state = "header"
  /\ \/ /\ ~closed /\ state' = "movie" /\ Return("OK")
        /\ stream' = [s \in Streams |-> NewStream]
        /\ valid_mask' = Streams /\ new_segment_mask' = Streams
        /\ pos' = [s \in Streams |-> 0]
     \/ /\ UNCHANGED <<state, stream, valid_mask, new_segment_mask, pos>>
        /\ Return("ERROR")
  /\ UNCHANGED <<active, closed, threads, user, config, pending_event,
                 downstream, promised, count>>

\* aiurdemux_loop_state_movie begins: the ends that a seek has left.
Pending == {s \in Streams : stream[s].pending_eos}

Movie ==
  /\ loop.pc = "top" /\ running /\ state = "movie"
  /\ IF pending_event
     THEN /\ SendEos(Pending, stream, pad)
          /\ pending_event' = FALSE
          /\ IF valid_mask' = {} THEN Return("UNEXPECTED")
             ELSE Goto("do") /\ UNCHANGED running
     ELSE Goto("do") /\ UNCHANGED <<running, stream, masks, pad>>
  /\ UNCHANGED <<active, state, closed, threads, user, config, pos, fifo,
                 flushing, playing, promised, count>>

\* The next sample of an interleave queue goes out before one is read.
Queued == config.limit > 0 /\ stream[Choose].queue # <<>>

Pop(from) ==
  /\ loop' = [pc |-> "push", s |-> Choose, n |-> Head(stream[Choose].queue),
              from |-> from]
  /\ stream' = [stream EXCEPT ![Choose].queue = Tail(@)]

PopQueued ==
  /\ loop.pc = "do" /\ Queued
  /\ Pop("queue")
  /\ UNCHANGED <<threadVars, user, config, masks, pos, downstream, promised, count>>

-------------------------------------------------------------------------------
(* aiurdemux_loop_state_movie: one sample, or a part of one, is read. The     *)
(* parser picks the stream in file mode, the demuxer in track mode.           *)

Reading == loop.pc = "do" /\ ~Queued

NextSample(s, n) ==
  /\ Reading /\ ~closed
  /\ config.mode = "track" => s = Choose
  /\ n < Samples
  /\ IF config.trick /\ stream[s].held = None THEN n >= pos[s] ELSE n = pos[s]

\* What is at hand of sample n when one more part of it is read.
Joined(s, n) == IF stream[s].held \in {None, n} THEN n ELSE Mixed

\* FLAG_SAMPLE_NOT_FINISHED: read on.
Fragment(s, n) ==
  /\ NextSample(s, n)
  /\ config.parts
  /\ stream[s].held # n   \* bound: a sample comes in two parts at most
  /\ stream' = [stream EXCEPT ![s].partial = TRUE, ![s].held = Joined(s, n)]
  /\ pos' = [pos EXCEPT ![s] = n]
  /\ UNCHANGED <<threadVars, loop, user, config, masks, downstream, promised, count>>

\* The stream when its sample is whole and its segment is out.
Whole(s) ==
  [stream EXCEPT ![s].partial = FALSE, ![s].held = None,
                 ![s].new_segment = FALSE]

SegmentOut(s) == Segmented(pad, IF stream[s].new_segment THEN {s} ELSE {})

Early(s, n) == stream[s].block /\ n + 1 < stream[s].time

Finish(s, n) ==
  /\ NextSample(s, n)
  /\ pos' = [pos EXCEPT ![s] = n + 1]
  /\ UNCHANGED <<active, state, closed, threads, user, config, pending_event,
                 fifo, flushing, playing, promised, count>>

\* (Mutant) The mask keeps the bit of a stream whose segment is out.
SkipKeepingBit(s) ==
  /\ pad' = SegmentOut(s)
  /\ Return("OK")
  /\ UNCHANGED <<valid_mask, new_segment_mask>>

Skip(s) ==
  /\ new_segment_mask' = new_segment_mask \ {s}
  /\ pad' = SegmentOut(s)
  /\ Return("OK")
  /\ UNCHANGED valid_mask

\* A sample of a stream that has ended, or from before the place of a seek.
Discard(s, n) ==
  /\ ~stream[s].valid \/ Early(s, n)
  /\ Finish(s, n) /\ Skip(s)
  /\ stream' = [Whole(s) EXCEPT
                  ![s].last_ret = IF stream[s].valid THEN @ ELSE "OK"]

\* aiurdemux_check_long_interleave: others had no sample yet. (Bound: a sum
\* over the limit stays one above it.)
Late(s) == new_segment_mask \ {s}

\* (Mutant) Streams without a sample are waited for.
NeverTooLong(s) == FALSE

TooLong(s) == Late(s) # {} /\ stream[s].preroll + 1 > MaxInterleave

Counted(s) ==
  [Whole(s) EXCEPT ![s].block = FALSE, ![s].time = 0,
                   ![s].preroll = IF Late(s) = {} THEN @
                                  ELSE Min({@ + 1, MaxInterleave + 1})]

DropLong(s, n) ==
  /\ stream[s].valid /\ ~Early(s, n) /\ TooLong(s) /\ config.drop
  /\ Finish(s, n) /\ Skip(s)
  /\ stream' = [Counted(s) EXCEPT ![s].last_ret = "OK"]

Keep(s, n) ==
  LET kept == Counted(s)
      number == Joined(s, n)
  IN /\ stream[s].valid /\ ~Early(s, n)
     /\ TooLong(s) => ~config.drop
     /\ Finish(s, n)
     /\ SendEos(IF TooLong(s) THEN Late(s) ELSE {},
                IF config.limit = 0 THEN kept
                ELSE [kept EXCEPT ![s].queue = Append(@, number),
                                  ![s].last_ret = "OK"],
                SegmentOut(s))
     /\ IF config.limit > 0 THEN Return("OK")
        ELSE /\ loop' = [pc |-> "push", s |-> s, n |-> number,
                         from |-> "sample"]
             /\ UNCHANGED running

\* aiurdemux_send_stream_eos_all: what is queued goes out before the end.
EosAll ==
  IF config.limit > 0
  THEN Goto("drain") /\ UNCHANGED <<running, stream, valid_mask,
                                    new_segment_mask, pad>>
  ELSE SendEos(Valid, stream, pad) /\ Return("UNEXPECTED")

Cleared(s) == [stream EXCEPT ![s].held = None]

\* The end of the file or of a track, a read that failed or was cut. What is
\* at hand of a sample of the track is thrown away.
TrackEnds(s) ==
  LET last == valid_mask \subseteq {s}
      left == [Cleared(s) EXCEPT
                 ![s].partial = last /\ @,
                 ![s].last_ret = IF last \/ stream[s].held = None THEN @
                                 ELSE "OK"]
  IN SendEos({s}, left, pad) /\ Return(IF last THEN "UNEXPECTED" ELSE "OK")

ReadEnd ==
  /\ Reading
  /\ IF config.mode = "file" THEN EosAll ELSE TrackEnds(Choose)

\* Any other error stops the element.
ReadFails == Reading /\ EosAll

\* PARSER_ERR_INVALID_MEDIA of a stream, which the parser then gives up; of
\* none it is another error.
ReadInvalid(s) ==
  /\ Reading /\ pos[s] < Samples
  /\ config.mode = "track" => s = Choose
  /\ SendEos({s}, Cleared(s), pad)
  /\ Return(IF valid_mask \subseteq {s} THEN "UNEXPECTED" ELSE "OK")
  /\ pos' = [pos EXCEPT ![s] = Samples]

ReadNone ==
  /\ \/ ReadEnd /\ UNCHANGED pos
     \/ ReadFails /\ UNCHANGED pos
     \/ \E s \in Streams : ReadInvalid(s)
  /\ UNCHANGED <<active, state, closed, threads, user, config, pending_event,
                 fifo, flushing, playing, promised, count>>

-------------------------------------------------------------------------------
(* aiurdemux_push_pad_buffer *)

\* aiurdemux_combine_flows, only after a sample that was read.
Combined(s, ret) ==
  IF \A t \in Streams \ {s} : stream[t].last_ret = "UNEXPECTED"
  THEN ret ELSE "OK"

Pushed(s, ret) ==
  CASE loop.from = "drain" -> Goto("drain") /\ UNCHANGED running
    [] loop.from = "queue" -> Return(ret)
    [] loop.from = "sample" -> Return(Combined(s, ret))

Advanced(s, ret) ==
  [stream EXCEPT ![s].last_stop = loop.n + 1,
                 ![s].last_ret = IF loop.from = "sample" THEN ret ELSE @]

\* It waits for room in the queue behind the pad; a pad that flushes refuses
\* it, which the code does not heed.
PushTaken(s) ==
  /\ IF flushing THEN UNCHANGED <<pad, fifo>>
     ELSE /\ fifo' = [fifo EXCEPT ![s] = @ + 1]
          /\ pad' = [pad EXCEPT ![s].last = loop.n]
  /\ stream' = Advanced(s, "OK") /\ Pushed(s, "OK")
  /\ UNCHANGED <<valid_mask, new_segment_mask>>

\* GST_FLOW_UNEXPECTED: nobody behind the pad wants more.
PushUnexpected(s) ==
  /\ ~flushing
  /\ LET ret == IF valid_mask \subseteq {s} THEN "UNEXPECTED" ELSE "OK"
     IN SendEos({s}, Advanced(s, ret), pad) /\ Pushed(s, ret)
  /\ UNCHANGED fifo

Push ==
  /\ loop.pc = "push"
  /\ flushing \/ fifo[loop.s] < Capacity
  /\ PushTaken(loop.s) \/ PushUnexpected(loop.s)
  /\ UNCHANGED <<active, state, closed, threads, user, config, pending_event,
                 pos, flushing, playing, promised, count>>

Drain ==
  /\ loop.pc = "drain"
  /\ IF valid_mask = {}
     THEN Return("UNEXPECTED") /\ UNCHANGED <<stream, valid_mask,
                                              new_segment_mask, pad>>
     ELSE /\ UNCHANGED running
          /\ IF stream[Choose].queue # <<>>
             THEN Pop("drain") /\ UNCHANGED <<valid_mask, new_segment_mask, pad>>
             ELSE SendEos({Choose}, stream, pad) /\ UNCHANGED loop
  /\ UNCHANGED <<active, state, closed, threads, user, config, pending_event,
                 pos, fifo, flushing, playing, promised, count>>

-------------------------------------------------------------------------------
(* The application: it starts, stops and seeks. Each of the two last tells   *)
(* the loop to stop, cuts its reads, and waits until it has the mutex.       *)

\* aiurdemux_sink_activate_push (TRUE), the source pads before it
Activate ==
  /\ user.pc = "idle" /\ ~active /\ state = "probe"
  /\ active' = TRUE /\ running' = TRUE /\ threads' = threads + 1
  /\ flushing' = FALSE
  /\ UNCHANGED <<state, closed, loop, user, config, stream, masks, pos, pad,
                 fifo, playing, promised, count>>

\* gst_aiurdemux_setcaps, from upstream
SetCaps ==
  /\ active /\ state = "probe" /\ user.pc = "idle"
  /\ state' = "initial"
  /\ UNCHANGED <<active, running, closed, threads, loop, user, config, stream,
                 masks, pos, downstream, promised, count>>

Begin(what, flush) ==
  /\ user.pc = "idle" /\ active
  /\ user' = [pc |-> "halt", what |-> what, flush |-> flush]
  /\ flushing' = (flushing \/ flush)
  /\ count < MaxCalls /\ count' = count + 1
  /\ UNCHANGED <<threadVars, loop, config, stream, masks, pos, pad, fifo,
                 playing, promised>>

\* gst_aiurdemux_handle_src_event; without a flush while the streams play.
Seek(flush) ==
  /\ state = "movie" /\ (flush \/ playing)
  /\ Begin("seek", flush)

Stop == Begin("stop", TRUE)

\* (Mutant) The cache is not closed.
HaltReading ==
  /\ user.pc = "halt"
  /\ running' = FALSE
  /\ user' = [user EXCEPT !.pc = "wait"]
  /\ UNCHANGED <<active, state, closed, threads, loop, config, stream, masks,
                 pos, downstream, promised, count>>

\* The loop is not to go on, and the cache is closed.
Halt ==
  /\ user.pc = "halt"
  /\ running' = FALSE /\ closed' = TRUE
  /\ user' = [user EXCEPT !.pc = "wait"]
  /\ UNCHANGED <<active, state, threads, loop, config, stream, masks, pos,
                 downstream, promised, count>>

\* (Mutant) A seek leaves in a stream what was queued.
ResetKeepingQueue(s) ==
  [stream[s] EXCEPT !.valid = TRUE, !.new_segment = TRUE,
                    !.pending_eos = FALSE, !.held = None, !.preroll = 0,
                    !.last_stop = 0, !.last_ret = "OK"]

\* aiurdemux_reset_stream
Reset(s) ==
  [stream[s] EXCEPT !.valid = TRUE, !.new_segment = TRUE,
                    !.pending_eos = FALSE, !.held = None, !.preroll = 0,
                    !.last_stop = 0, !.last_ret = "OK", !.queue = <<>>]

\* gst_aiurdemux_perform_seek (a time is kept where it is used): streams that fail are marked for an end; their
\* places are at the one asked for, or before. place[s] is None on failure.
Place(accurate, trick, p, place) ==
  LET together == accurate \/ Cardinality(Video) # 1
      lost == ~together /\ \E v \in Video : place[v] = None
      time == IF together \/ lost THEN p ELSE place[CHOOSE v \in Video : TRUE]
      marked == {s \in Streams : \/ place[s] = None \/ lost
                                 \/ trick /\ s \notin Video}
      \* without accuracy the video's own block stays, and all if it failed
      aimed == IF together THEN Streams ELSE IF lost THEN {}
               ELSE Streams \ Video
  IN /\ \A s \in Streams : place[s] <= (IF s \in Video THEN p ELSE time)
     /\ lost => \A s \in Streams : place[s] = None
     /\ stream' = [s \in Streams |->
          [Reset(s) EXCEPT
             !.valid = s \notin marked, !.pending_eos = s \in marked,
             !.time = IF s \in aimed /\ s \notin Video THEN time ELSE 0,
             !.block = IF s \in aimed
                       THEN s \notin Video /\ Video # {} ELSE @]]
     /\ pos' = [s \in Streams |-> IF place[s] = None THEN pos[s] ELSE place[s]]
     /\ valid_mask' = Streams
     /\ new_segment_mask' = Streams \ marked
     /\ pending_event' = (marked # {})

Restart(ps) ==
  /\ user' = NoCall
  /\ running' = TRUE /\ closed' = FALSE /\ threads' = threads + 1
  /\ IF user.flush
     THEN /\ pad' = [s \in Streams |-> Fresh]
          /\ fifo' = [s \in Streams |-> 0]
          /\ playing' = FALSE /\ flushing' = FALSE
     ELSE UNCHANGED downstream
  /\ promised' = (promised /\ ps)
  /\ UNCHANGED <<active, state, loop, count>>

Held == loop.pc # "none"

\* aiurdemux_do_push_seek, from the lock on. The parser goes to the sample it is
\* asked for, or back to one that can be decoded, here the first.
\* History: a read that was cut has ended the pads, and without a flush no
\* segment may follow.
SeekPerform ==
  /\ user.pc = "wait" /\ user.what = "seek" /\ ~Held
  /\ \E accurate, trick \in BOOLEAN, p \in 1 .. Samples :
     \E place \in [Streams -> {None, 0, p}] :
       /\ config' = [config EXCEPT !.trick = trick]
       /\ Place(accurate, trick, p, place)
  /\ Restart(user.flush \/ \A s \in Streams : ~pad[s].eos)

\* A rate below zero where the parser cannot play backwards: nothing is sought.
\* History: after a flush the samples go on without a segment.
SeekRefused ==
  /\ user.pc = "wait" /\ user.what = "seek" /\ ~Held
  /\ stream' = [s \in Streams |-> [stream[s] EXCEPT !.last_ret = "OK"]]
  /\ Restart(FALSE)
  /\ UNCHANGED <<config, masks, pos>>

\* aiurdemux_sink_activate_push (FALSE) has the mutex, and
\* gst_aiurdemux_change_state clears the element.
Deactivate ==
  /\ user.pc = "wait" /\ user.what = "stop" /\ ~Held
  /\ user' = NoCall
  /\ active' = FALSE /\ state' = "probe"
  /\ config' = [config EXCEPT !.trick = FALSE]
  /\ stream' = [s \in Streams |-> NoStream]
  /\ valid_mask' = {} /\ new_segment_mask' = {}
  /\ pad' = [s \in Streams |-> Fresh] /\ fifo' = [s \in Streams |-> 0]
  /\ playing' = FALSE
  /\ pos' = [s \in Streams |-> 0]
  /\ UNCHANGED <<running, closed, threads, loop, pending_event, flushing,
                 promised, count>>

-------------------------------------------------------------------------------
(* Around the element *)

\* The sinks wait until each has a sample or the end, then all play.
Preroll ==
  /\ ~playing /\ ~flushing
  /\ \A s \in Streams : fifo[s] > 0 \/ pad[s].eos
  /\ playing' = TRUE
  /\ UNCHANGED <<threadVars, loop, user, config, stream, masks, pos, pad, fifo,
                 flushing, promised, count>>

Sink(s) ==
  /\ playing /\ ~flushing /\ fifo[s] > 0
  /\ fifo' = [fifo EXCEPT ![s] = @ - 1]
  /\ UNCHANGED <<threadVars, loop, user, config, stream, masks, pos, pad,
                 flushing, playing, promised, count>>

Read(s, n) == Fragment(s, n) \/ Discard(s, n) \/ DropLong(s, n) \/ Keep(s, n)

LoopStep ==
  \/ Enter \/ Leave \/ CreateParser \/ ParseHeader \/ Movie \/ PopQueued
  \/ \E s \in Streams, n \in 0 .. Samples - 1 : Read(s, n)
  \/ ReadNone \/ Push \/ Drain

UserStep == Halt \/ SeekPerform \/ SeekRefused \/ Deactivate

Next ==
  \/ LoopStep \/ UserStep
  \/ Activate \/ SetCaps \/ Stop \/ \E flush \in BOOLEAN : Seek(flush)
  \/ Preroll \/ \E s \in Streams : Sink(s)

\* The threads run, the application finishes what it began, sinks play. A read
\* may wait for data as long as the cache is open.
WaitsForData ==
  /\ ~closed
  /\ \/ Reading
     \/ loop.pc = "top" /\ running /\ state \in {"initial", "header"}

Fairness ==
  /\ WF_vars(~WaitsForData /\ LoopStep)
  /\ WF_vars(UserStep) /\ WF_vars(Preroll)
  /\ \A s \in Streams : WF_vars(Sink(s))

Spec == Init /\ [][Next]_vars /\ Fairness

-------------------------------------------------------------------------------
(* Properties *)

TypeOK ==
  /\ active \in BOOLEAN /\ running \in BOOLEAN /\ closed \in BOOLEAN
  /\ state \in {"probe", "initial", "header", "movie"}
  /\ threads \in 0 .. 2 * MaxCalls + 1
  /\ loop.pc \in {"none", "top", "do", "push", "drain"}
  /\ loop.s \in Streams /\ loop.n \in None .. Mixed
  /\ \A s \in Streams :
       /\ stream[s].held \in None .. Mixed
       /\ stream[s].preroll \in 0 .. MaxInterleave + 1
       /\ \A i \in DOMAIN stream[s].queue : stream[s].queue[i] \in 0 .. Mixed
       /\ pos[s] \in 0 .. Samples
       /\ fifo[s] \in 0 .. Capacity
       /\ pad[s].last \in None .. Mixed
  /\ new_segment_mask \subseteq {s \in Streams : stream[s].new_segment}
  /\ Valid \subseteq valid_mask
  /\ state = "movie" /\ ~pending_event => valid_mask = Valid

\* What the elements behind the pads see: on each pad a segment first, then the
\* samples of that stream in order, none lost, none twice, none put together
\* from parts of two, and nothing after the end, whatever seeks and stops come
\* in between and wherever the loop is when they do (aiurdemux.c:1376, 3918).
Pads == INSTANCE PadProtocol WITH open <- active,
                                  gaps <- config.drop \/ config.trick
PadSpec == Pads!Spec

\* A seek that flushes, and a stop, return, though upstream sends no data and
\* the loop is in a read or waits for room behind a pad (aiurdemux.c:1611-1617,
\* 4405-4410).
UserReturns == user.pc # "idle" /\ user.flush ~> user.pc = "idle"

\* While data comes, a file that is played ends on every pad: the streams do
\* not wait on each other for ever, where the sinks wait for all pads and the
\* queues are bounded (aiurdemux.c:3760). Not so while a stream leaves out its
\* samples before the place of a seek: it has its segment, so is not late.
Ended == \A s \in Streams : pad[s].eos
Undisturbed == user.pc = "idle" /\ promised
DataComes == WF_vars(WaitsForData /\ LoopStep)
Playable == running /\ state = "movie" /\ \A s \in Streams : ~stream[s].block
Ends == DataComes => (Playable /\ Undisturbed ~> Ended \/ ~Undisturbed)
================================================================================
