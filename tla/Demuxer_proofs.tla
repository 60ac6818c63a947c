---------------------------- MODULE Demuxer_proofs ----------------------------
(***************************************************************************)
(* Theorems about Demuxer, for any streams, numbers of samples, ways to    *)
(* read, limits of the queues and numbers of seeks and stops.              *)
(***************************************************************************)
EXTENDS Demuxer, FiniteSetTheorems, WellFoundedInduction, TLAPS

-------------------------------------------------------------------------------
(* The inductive invariant *)

Number == 0 .. Samples - 1
OrNone == None .. Samples - 1
Prerolls == 0 .. MaxInterleave + 1
Places == 0 .. Samples
Fill == 0 .. Capacity
Flows == {"OK", "UNEXPECTED"}

StreamType ==
  [valid : BOOLEAN, new_segment : BOOLEAN, pending_eos : BOOLEAN,
   block : BOOLEAN, partial : BOOLEAN, held : OrNone, preroll : Prerolls,
   last_stop : Nat, last_ret : Flows, queue : Seq(Number), time : Int]

PadType == [seg : BOOLEAN, eos : BOOLEAN, last : OrNone]

ConfigType == [mode : {"file", "track"}, limit : Nat, drop : BOOLEAN,
               parts : BOOLEAN, trick : BOOLEAN]

LoopType == [pc : {"none", "top", "do", "push", "drain"}, s : Streams,
             n : OrNone, from : {"sample", "queue", "drain"}]

UserType == [pc : {"idle", "halt", "wait"}, what : {"seek", "stop"},
             flush : BOOLEAN]

Tables ==
  /\ stream \in [Streams -> StreamType]
  /\ pad \in [Streams -> PadType]
  /\ pos \in [Streams -> Places]
  /\ fifo \in [Streams -> Fill]

\* Where the threads are and what the element's state says of it.
Flags ==
  /\ active \in BOOLEAN /\ running \in BOOLEAN /\ closed \in BOOLEAN
  /\ flushing \in BOOLEAN /\ promised \in BOOLEAN /\ pending_event \in BOOLEAN
  /\ state \in {"probe", "initial", "header", "movie"}
  /\ config \in ConfigType

Phases ==
  /\ user \in UserType
  /\ state # "probe" => active
  /\ user.pc # "idle" => active /\ (user.what = "seek" => state = "movie")

Loop ==
  /\ loop \in LoopType
  /\ loop.pc \in {"do", "push", "drain"} => state = "movie" /\ ~pending_event
  /\ loop.pc = "push" =>
       /\ loop.n \in Number
       /\ loop.from = "sample" <=> config.limit = 0

\* Each call of the application starts one thread at most.
Threads ==
  /\ threads \in Nat /\ count \in 0 .. MaxCalls
  /\ threads + (IF user.pc = "idle" THEN 0 ELSE 1) + (IF active THEN 0 ELSE 1)
       <= count + 1

\* The masks say what the streams say, but for ends that are still to be sent.
Masks ==
  /\ valid_mask \subseteq Streams
  /\ new_segment_mask \subseteq {s \in Streams : stream[s].new_segment}
  /\ Valid \subseteq valid_mask
  /\ state = "movie" =>
       valid_mask \subseteq Valid \cup (IF pending_event THEN Pending ELSE {})

\* Parts at hand are of the sample that is read next; samples are queued only
\* after the segment.
Reads ==
  \A s \in Streams :
    /\ stream[s].held \in {None, pos[s]}
    /\ stream[s].queue # <<>> => ~stream[s].new_segment /\ config.limit > 0

\* A loop that goes round has a stream to serve (with interleave queues: the
\* one that was read last may hide the refusal of all without).
SomeLeft ==
  /\ promised /\ config.limit > 0 /\ state = "movie" /\ ~pending_event
  /\ running \/ loop.pc = "do"
  /\ loop.pc # "drain"
  => valid_mask # {}

Sending ==
  promised /\ loop.pc = "push" =>
    stream[loop.s].valid /\ ~stream[loop.s].new_segment

\* While what the pads see is what the loop does.
Seen == promised /\ ~flushing /\ state = "movie"

PadsAgree ==
  /\ state # "movie" => \A s \in Streams : pad[s] = Fresh
  /\ Seen => \A s \in Streams :
               /\ stream[s].new_segment \/ stream[s].valid => ~pad[s].eos
               /\ ~stream[s].new_segment => pad[s].seg

\* From the last sample that was sent over the one that is being sent and those
\* that are queued to the parser's place, numbers follow each other.
Gaps == config.drop \/ config.trick
Follows(m, n) == IF Gaps \/ m = None THEN m < n ELSE n = m + 1
InFlight(s) == loop.pc = "push" /\ loop.s = s
Reached(s) == IF InFlight(s) THEN loop.n ELSE pad[s].last
Newest(s) ==
  LET q == stream[s].queue IN IF q = <<>> THEN Reached(s) ELSE q[Len(q)]

Chain(s) ==
  LET q == stream[s].queue
  IN /\ InFlight(s) => Follows(pad[s].last, loop.n)
     /\ q # <<>> => Follows(Reached(s), q[1])
     /\ \A i \in 1 .. Len(q) - 1 : Follows(q[i], q[i + 1])
     /\ Follows(Newest(s), pos[s])
     /\ stream[s].block => Newest(s) = None

InOrder ==
  Seen => \A s \in Streams :
            stream[s].valid /\ ~stream[s].new_segment => Chain(s)

Safe == Flags /\ Phases /\ Loop /\ Threads /\ Tables /\ Masks /\ Reads
IInv == Safe /\ SomeLeft /\ Sending /\ PadsAgree /\ InOrder

-------------------------------------------------------------------------------
(* Helpers *)

LEMMA Numbers ==
  /\ Number \subseteq OrNone /\ None \in OrNone /\ Number \subseteq Nat
  /\ OrNone \subseteq Int /\ None \notin Nat
  /\ 0 \in Prerolls /\ 0 \in Places /\ Samples \in Places /\ 0 \in Fill
  /\ 1 \in Streams
BY DemuxerAssumption DEF Number, OrNone, None, Prerolls, Places, Fill, Streams

LEMMA NewStreamType == NewStream \in StreamType /\ NoStream \in StreamType
<1>1. NewStream \in StreamType
  <2>1. <<>> \in Seq(Number) /\ 0 \in Nat /\ 0 \in Int
    OBVIOUS
  <2> QED
    BY <2>1, Numbers, Zenon DEF NewStream, StreamType, Flows
<1> QED
  BY <1>1, Zenon DEF NoStream, StreamType

LEMMA PadEqual ==
  ASSUME NEW a \in PadType, NEW b \in PadType,
         a.seg = b.seg, a.eos = b.eos, a.last = b.last
  PROVE  a = b
BY DEF PadType

LEMMA FreshType == Fresh \in PadType
BY Numbers, Zenon DEF Fresh, PadType

LEMMA Least ==
  ASSUME NEW S \in SUBSET Nat, S # {}
  PROVE  \E s \in S : \A t \in S : s <= t
<1>1. PICK s \in S : \A t \in S : ~ (<<t, s>> \in OpToRel(<, Nat))
  BY NatLessThanWellFounded, WFMin
<1>2. \A t \in S : ~ (t < s)
  BY <1>1 DEF OpToRel
<1> QED
  BY <1>2

LEMMA ChooseIn ==
  ASSUME Tables, Valid # {}
  PROVE  Choose \in Valid
<1> DEFINE U == {s \in Valid : Urgent(s)}
           L == {stream[s].last_stop : s \in Valid}
<1>1. Valid \subseteq Streams /\ U \in SUBSET Nat
  BY DEF Valid, Streams
<1>2. CASE U # {}
  <2>1. PICK s \in U : \A t \in U : s <= t
    BY <1>1, <1>2, Least
  <2>2. \E r \in Valid : Urgent(r) /\ \A t \in Valid : Urgent(t) => r <= t
    BY <2>1
  <2>3. \E r \in Valid : Urgent(r)
    BY <1>2
  <2> QED
    BY <2>2, <2>3, Zenon DEF Choose
<1>3. CASE U = {}
  <2>1. L \subseteq Nat /\ L # {}
    BY <1>1 DEF Tables, StreamType
  <2> HIDE DEF L
  <2>2. PICK m \in L : \A k \in L : m <= k
    BY <2>1, Least
  <2> USE DEF L
  <2> DEFINE M == {s \in Valid : stream[s].last_stop = m}
  <2>3. PICK r \in Valid : m = stream[r].last_stop
    BY <2>2
  <2>4. r \in M /\ M \subseteq Valid /\ Valid \subseteq Nat
    BY <1>1, <2>3 DEF Streams
  <2>5. PICK s \in M : \A t \in M : s <= t
    BY <2>4, Least
  <2>6. \A t \in Valid : Behind(s, t)
    <3> TAKE t \in Valid
    <3>1. m <= stream[t].last_stop /\ m \in Nat /\ stream[t].last_stop \in Nat
      BY <2>1, <2>2
    <3>2. stream[s].last_stop = m
      BY <2>5
    <3> QED
      BY <2>5, <3>1, <3>2 DEF Behind
  <2>7. s \in Valid
    BY <2>5
  <2> QED
    BY <1>3, <2>6, <2>7, Zenon DEF Choose
<1> QED
  BY <1>2, <1>3

LEMMA ChooseStream ==
  ASSUME Tables
  PROVE  Choose \in Streams
<1>1. CASE Valid = {}
  BY <1>1, Numbers DEF Choose
<1>2. CASE Valid # {}
  BY <1>2, ChooseIn DEF Valid
<1> QED
  BY <1>1, <1>2

\* What is left of a stream that is ended.
Ending(r) == [r EXCEPT !.valid = FALSE, !.new_segment = FALSE]

LEMMA EndingType ==
  ASSUME NEW r \in StreamType
  PROVE  /\ Ending(r) \in StreamType
         /\ ~Ending(r).valid /\ ~Ending(r).new_segment
         /\ Ending(r).queue = r.queue /\ Ending(r).held = r.held
         /\ Ending(r).block = r.block /\ Ending(r).pending_eos = r.pending_eos
<1>1. Ending(r) \in StreamType
  BY Zenon DEF Ending, StreamType
<1> QED
  BY <1>1 DEF Ending, StreamType

\* The pad of a stream before its end, with the segment it waits for.
Opened(r, q) == IF r.new_segment /\ ~flushing
                THEN [seg |-> TRUE, eos |-> q.eos, last |-> None] ELSE q

LEMMA OpenedType ==
  ASSUME NEW q \in PadType, NEW r \in StreamType
  PROVE  /\ Opened(r, q) \in PadType
         /\ [Opened(r, q) EXCEPT !.eos = TRUE] \in PadType
<1>1. [seg |-> TRUE, eos |-> q.eos, last |-> None] \in PadType
  BY Numbers, Zenon DEF PadType
<1>2. Opened(r, q) \in PadType
  BY <1>1, Zenon DEF Opened
<1>3. \A o \in PadType : [o EXCEPT !.eos = TRUE] \in PadType
  BY Zenon DEF PadType
<1> QED
  BY <1>2, <1>3, Zenon

LEMMA SegmentedIs ==
  ASSUME NEW p \in [Streams -> PadType], NEW S \in SUBSET Streams,
         NEW s \in Streams
  PROVE  Segmented(p, S)[s] =
           IF s \in S /\ ~flushing
           THEN [seg |-> TRUE, eos |-> p[s].eos, last |-> None] ELSE p[s]
<1>1. [Fresh EXCEPT !.seg = TRUE, !.eos = p[s].eos]
        = [seg |-> TRUE, eos |-> p[s].eos, last |-> None]
  <2> DEFINE a == [Fresh EXCEPT !.seg = TRUE, !.eos = p[s].eos]
             b == [seg |-> TRUE, eos |-> p[s].eos, last |-> None]
  <2>1. p[s].eos \in BOOLEAN
    BY Zenon DEF PadType
  <2>2. a \in PadType /\ b \in PadType
    BY <2>1, FreshType, Numbers, Zenon DEF PadType
  <2>3. a.seg = b.seg /\ a.eos = b.eos /\ a.last = b.last
    BY <2>1 DEF Fresh
  <2> QED
    BY <2>2, <2>3, PadEqual
<1> QED
  BY <1>1 DEF Segmented

\* What SendEos makes of the two tables.
EndTable(E, str) ==
  [s \in Streams |-> IF s \in E THEN Ending(str[s]) ELSE str[s]]

EndPads(E, str, p) ==
  LET opened == Segmented(p, {s \in E : str[s].new_segment})
  IN [s \in Streams |-> IF s \in E /\ ~flushing
                        THEN [opened[s] EXCEPT !.eos = TRUE] ELSE opened[s]]

LEMMA EndTableIs ==
  ASSUME NEW E \in SUBSET Streams, NEW str \in [Streams -> StreamType]
  PROVE  /\ EndTable(E, str) \in [Streams -> StreamType]
         /\ \A s \in Streams : EndTable(E, str)[s] = IF s \in E THEN Ending(str[s])
                                                    ELSE str[s]
BY EndingType DEF EndTable

LEMMA EndPadsIs ==
  ASSUME NEW E \in SUBSET Streams, NEW str \in [Streams -> StreamType],
         NEW p \in [Streams -> PadType]
  PROVE  /\ EndPads(E, str, p) \in [Streams -> PadType]
         /\ \A s \in Streams :
              EndPads(E, str, p)[s] = IF s \in E /\ ~flushing
                              THEN [Opened(str[s], p[s]) EXCEPT !.eos = TRUE]
                              ELSE p[s]
<1> DEFINE first == {s \in E : str[s].new_segment}
           opened == Segmented(p, first)
           ended == EndPads(E, str, p)
<1>1. ended = [s \in Streams |->
                IF s \in E /\ ~flushing THEN [opened[s] EXCEPT !.eos = TRUE]
                ELSE opened[s]]
  BY Zenon DEF EndPads
<1>2. ASSUME NEW s \in Streams
      PROVE  /\ s \in E => opened[s] = Opened(str[s], p[s])
             /\ s \notin E => opened[s] = p[s]
  BY SegmentedIs DEF Opened
<1> HIDE DEF ended
<1>3. \A s \in Streams :
        ended[s] = IF s \in E /\ ~flushing
                   THEN [Opened(str[s], p[s]) EXCEPT !.eos = TRUE]
                   ELSE opened[s]
  BY <1>1, <1>2
<1>4. \A s \in Streams : s \in E /\ flushing => opened[s] = p[s]
  BY SegmentedIs
<1>5. \A s \in Streams :
        ended[s] = IF s \in E /\ ~flushing
                   THEN [Opened(str[s], p[s]) EXCEPT !.eos = TRUE]
                   ELSE p[s]
  BY <1>2, <1>3, <1>4
<1>6. ASSUME NEW s \in Streams PROVE ended[s] \in PadType
  <2> DEFINE o == Opened(str[s], p[s])
  <2>1. str[s] \in StreamType /\ p[s] \in PadType
    OBVIOUS
  <2>2. o \in PadType /\ [o EXCEPT !.eos = TRUE] \in PadType
    BY <2>1, OpenedType, Zenon
  <2>3. ended[s] = IF s \in E /\ ~flushing THEN [o EXCEPT !.eos = TRUE] ELSE p[s]
    BY <1>5
  <2> HIDE DEF o
  <2> QED
    BY <2>1, <2>2, <2>3, Zenon
<1>7. ended \in [Streams -> PadType]
  BY <1>1, <1>6, Zenon
<1> QED
  BY <1>5, <1>7 DEF ended

-------------------------------------------------------------------------------
(* The steps of the loop keep Safe.  What they have in common: *)

LoopOnly ==
  UNCHANGED <<active, state, closed, threads, user, config, flushing, promised,
              count>>

LEMMA IdleType == Idle \in LoopType /\ NoCall \in UserType
<1>1. NoCall \in UserType
  BY Zenon DEF NoCall, UserType
<1>2. Idle \in LoopType
  BY Numbers, Zenon DEF Idle, LoopType
<1> QED
  BY <1>1, <1>2

LEMMA GotoEffect ==
  ASSUME NEW pc \in {"none", "top", "do", "push", "drain"}, Goto(pc)
  PROVE  loop' \in LoopType /\ loop'.pc = pc
<1>1. loop' \in LoopType
  BY IdleType, Zenon DEF Goto, LoopType
<1>2. loop'.pc = pc
  BY IdleType DEF Goto, LoopType
<1> QED
  BY <1>1, <1>2

LEMMA ReturnEffect ==
  ASSUME running \in BOOLEAN, NEW ret, Return(ret)
  PROVE  /\ loop' \in LoopType /\ loop'.pc = "top"
         /\ running' \in BOOLEAN
         /\ running' => running /\ ret = "OK"
<1>1. Goto("top")
  BY DEF Return
<1>2. loop' \in LoopType /\ loop'.pc = "top"
  BY <1>1, GotoEffect
<1>3. running' = (running /\ ret = "OK")
  BY DEF Return
<1> QED
  BY <1>2, <1>3, Zenon

LEMMA LoopOnlySafe ==
  ASSUME Safe, LoopOnly, running' \in BOOLEAN,
         pending_event' = pending_event \/ pending_event' = FALSE,
         loop' \in LoopType,
         loop'.pc \in {"do", "push", "drain"} =>
           state = "movie" /\ pending_event' = FALSE,
         loop'.pc = "push" =>
           /\ loop'.n \in Number
           /\ loop'.from = "sample" <=> config.limit = 0,
         Tables', Masks', Reads'
  PROVE  Safe'
<1>1. Flags'
  BY Zenon DEF Safe, Flags, LoopOnly
<1>2. Phases'
  BY Zenon DEF Safe, Phases, LoopOnly
<1>3. Loop'
  BY Zenon DEF Loop, LoopOnly
<1>4. Threads'
  BY DEF Safe, Threads, LoopOnly
<1> QED
  BY <1>1, <1>2, <1>3, <1>4 DEF Safe

\* The streams in E end, the segments of others may go out.
LEMMA MasksEnd ==
  ASSUME Masks, UNCHANGED state, NEW E \in SUBSET Streams,
         \A s \in Streams :
           /\ stream'[s].valid <=> stream[s].valid /\ s \notin E
           /\ stream'[s].pending_eos <=> stream[s].pending_eos,
         valid_mask' = valid_mask \ E,
         new_segment_mask' \subseteq new_segment_mask,
         \A s \in new_segment_mask' : stream'[s].new_segment,
         \/ pending_event' = pending_event
         \/ pending_event' = FALSE /\ E = Pending
  PROVE  Masks'
<1>1. Valid' = Valid \ E /\ Pending' = Pending
  BY DEF Valid, Pending
<1>2. /\ valid_mask' \subseteq Streams
      /\ new_segment_mask' \subseteq {s \in Streams : stream'[s].new_segment}
      /\ Valid' \subseteq valid_mask'
  BY <1>1 DEF Masks
<1>3. ASSUME state = "movie"
      PROVE  valid_mask' \subseteq
               Valid' \cup (IF pending_event' THEN Pending' ELSE {})
  BY <1>1, <1>3 DEF Masks
<1> QED
  BY <1>2, <1>3 DEF Masks

LEMMA KeptMasks ==
  ASSUME Masks, UNCHANGED <<state, valid_mask, pending_event>>,
         new_segment_mask' \subseteq new_segment_mask,
         \A s \in new_segment_mask' : stream'[s].new_segment,
         \A s \in Streams :
           /\ stream'[s].valid <=> stream[s].valid
           /\ stream'[s].pending_eos <=> stream[s].pending_eos
  PROVE  Masks'
<1>1. Valid' = Valid /\ Pending' = Pending
  BY DEF Valid, Pending
<1> QED
  BY <1>1 DEF Masks

-------------------------------------------------------------------------------
(* How the table of streams changes at one stream. *)

Alike(r, q) ==
  /\ r.valid <=> q.valid
  /\ r.pending_eos <=> q.pending_eos
  /\ r.block => q.block
  /\ r.queue = q.queue

LEMMA WholeAt ==
  ASSUME NEW f \in [Streams -> StreamType], NEW s \in Streams
  PROVE  LET tab == [f EXCEPT ![s].partial = FALSE, ![s].held = None,
                                ![s].new_segment = FALSE]
         IN /\ tab \in [Streams -> StreamType]
            /\ \A t \in Streams : t # s => tab[t] = f[t]
            /\ Alike(tab[s], f[s]) /\ ~tab[s].new_segment /\ tab[s].held = None
<1> DEFINE tab == [f EXCEPT ![s].partial = FALSE, ![s].held = None,
                                ![s].new_segment = FALSE]
           r == [f[s] EXCEPT !.partial = FALSE, !.held = None,
                          !.new_segment = FALSE]
<1>1. f[s] \in StreamType
  OBVIOUS
<1>2. tab = [f EXCEPT ![s] = r]
  BY <1>1 DEF StreamType
<1>3. r \in StreamType
  BY <1>1, Numbers, Zenon DEF StreamType, Flows
<1>4. Alike(r, f[s]) /\ ~r.new_segment /\ r.held = None
  BY <1>1 DEF StreamType, Alike
<1> HIDE DEF r
<1>5. tab \in [Streams -> StreamType] /\ tab[s] = r
  BY <1>2, <1>3
<1> QED
  BY <1>2, <1>4, <1>5

LEMMA PartAt ==
  ASSUME NEW f \in [Streams -> StreamType], NEW s \in Streams, NEW h \in OrNone
  PROVE  LET tab == [f EXCEPT ![s].partial = TRUE, ![s].held = h]
         IN /\ tab \in [Streams -> StreamType]
            /\ \A t \in Streams : t # s => tab[t] = f[t]
            /\ Alike(tab[s], f[s]) /\ tab[s].held = h
            /\ (tab[s].new_segment <=> f[s].new_segment)
<1> DEFINE tab == [f EXCEPT ![s].partial = TRUE, ![s].held = h]
           r == [f[s] EXCEPT !.partial = TRUE, !.held = h]
<1>1. f[s] \in StreamType
  OBVIOUS
<1>2. tab = [f EXCEPT ![s] = r]
  BY <1>1 DEF StreamType
<1>3. r \in StreamType
  BY <1>1, Numbers, Zenon DEF StreamType, Flows
<1>4. Alike(r, f[s]) /\ r.held = h
            /\ (r.new_segment <=> f[s].new_segment)
  BY <1>1 DEF StreamType, Alike
<1> HIDE DEF r
<1>5. tab \in [Streams -> StreamType] /\ tab[s] = r
  BY <1>2, <1>3
<1> QED
  BY <1>2, <1>4, <1>5

LEMMA ClearedAt ==
  ASSUME NEW f \in [Streams -> StreamType], NEW s \in Streams
  PROVE  LET tab == [f EXCEPT ![s].held = None]
         IN /\ tab \in [Streams -> StreamType]
            /\ \A t \in Streams : t # s => tab[t] = f[t]
            /\ Alike(tab[s], f[s]) /\ tab[s].held = None
            /\ (tab[s].new_segment <=> f[s].new_segment)
<1> DEFINE tab == [f EXCEPT ![s].held = None]
           r == [f[s] EXCEPT !.held = None]
<1>1. f[s] \in StreamType
  OBVIOUS
<1>2. tab = [f EXCEPT ![s] = r]
  BY <1>1 DEF StreamType
<1>3. r \in StreamType
  BY <1>1, Numbers, Zenon DEF StreamType, Flows
<1>4. Alike(r, f[s]) /\ r.held = None
            /\ (r.new_segment <=> f[s].new_segment)
  BY <1>1 DEF StreamType, Alike
<1> HIDE DEF r
<1>5. tab \in [Streams -> StreamType] /\ tab[s] = r
  BY <1>2, <1>3
<1> QED
  BY <1>2, <1>4, <1>5

LEMMA CountedAt ==
  ASSUME NEW f \in [Streams -> StreamType], NEW s \in Streams, NEW n \in Prerolls
  PROVE  LET tab == [f EXCEPT ![s].block = FALSE, ![s].time = 0,
                                ![s].preroll = n]
         IN /\ tab \in [Streams -> StreamType]
            /\ \A t \in Streams : t # s => tab[t] = f[t]
            /\ Alike(tab[s], f[s]) /\ tab[s].held = f[s].held /\ ~tab[s].block
            /\ (tab[s].new_segment <=> f[s].new_segment)
<1> DEFINE tab == [f EXCEPT ![s].block = FALSE, ![s].time = 0,
                                ![s].preroll = n]
           r == [f[s] EXCEPT !.block = FALSE, !.time = 0, !.preroll = n]
<1>1. f[s] \in StreamType
  OBVIOUS
<1>2. tab = [f EXCEPT ![s] = r]
  BY <1>1 DEF StreamType
<1>3. r \in StreamType
  BY <1>1, Numbers, 0 \in Int, Zenon DEF StreamType, Flows
<1>4. Alike(r, f[s]) /\ r.held = f[s].held /\ ~r.block
            /\ (r.new_segment <=> f[s].new_segment)
  BY <1>1 DEF StreamType, Alike
<1> HIDE DEF r
<1>5. tab \in [Streams -> StreamType] /\ tab[s] = r
  BY <1>2, <1>3
<1> QED
  BY <1>2, <1>4, <1>5

LEMMA RetAt ==
  ASSUME NEW f \in [Streams -> StreamType], NEW s \in Streams, NEW v \in Flows
  PROVE  LET tab == [f EXCEPT ![s].last_ret = v]
         IN /\ tab \in [Streams -> StreamType]
            /\ \A t \in Streams : t # s => tab[t] = f[t]
            /\ Alike(tab[s], f[s]) /\ tab[s].held = f[s].held
            /\ (tab[s].new_segment <=> f[s].new_segment)
<1> DEFINE tab == [f EXCEPT ![s].last_ret = v]
           r == [f[s] EXCEPT !.last_ret = v]
<1>1. f[s] \in StreamType
  OBVIOUS
<1>2. tab = [f EXCEPT ![s] = r]
  BY <1>1 DEF StreamType
<1>3. r \in StreamType
  BY <1>1, Numbers, Zenon DEF StreamType, Flows
<1>4. Alike(r, f[s]) /\ r.held = f[s].held
            /\ (r.new_segment <=> f[s].new_segment)
  BY <1>1 DEF StreamType, Alike
<1> HIDE DEF r
<1>5. tab \in [Streams -> StreamType] /\ tab[s] = r
  BY <1>2, <1>3
<1> QED
  BY <1>2, <1>4, <1>5

LEMMA AdvancedAt ==
  ASSUME NEW f \in [Streams -> StreamType], NEW s \in Streams,
         NEW n \in Nat, NEW v \in Flows
  PROVE  LET tab == [f EXCEPT ![s].last_stop = n, ![s].last_ret = v]
         IN /\ tab \in [Streams -> StreamType]
            /\ \A t \in Streams : t # s => tab[t] = f[t]
            /\ Alike(tab[s], f[s]) /\ tab[s].held = f[s].held
            /\ (tab[s].new_segment <=> f[s].new_segment)
<1> DEFINE tab == [f EXCEPT ![s].last_stop = n, ![s].last_ret = v]
           r == [f[s] EXCEPT !.last_stop = n, !.last_ret = v]
<1>1. f[s] \in StreamType
  OBVIOUS
<1>2. tab = [f EXCEPT ![s] = r]
  BY <1>1 DEF StreamType
<1>3. r \in StreamType
  BY <1>1, Numbers, Zenon DEF StreamType, Flows
<1>4. Alike(r, f[s]) /\ r.held = f[s].held
            /\ (r.new_segment <=> f[s].new_segment)
  BY <1>1 DEF StreamType, Alike
<1> HIDE DEF r
<1>5. tab \in [Streams -> StreamType] /\ tab[s] = r
  BY <1>2, <1>3
<1> QED
  BY <1>2, <1>4, <1>5

LEMMA QueueAt ==
  ASSUME NEW f \in [Streams -> StreamType], NEW s \in Streams, NEW q \in Seq(Number)
  PROVE  LET tab == [f EXCEPT ![s].queue = q]
         IN /\ tab \in [Streams -> StreamType]
            /\ \A t \in Streams : t # s => tab[t] = f[t]
            /\ (tab[s].valid <=> f[s].valid)
            /\ (tab[s].pending_eos <=> f[s].pending_eos)
            /\ (tab[s].block <=> f[s].block)
            /\ tab[s].held = f[s].held
            /\ tab[s].queue = q
            /\ (tab[s].new_segment <=> f[s].new_segment)
<1> DEFINE tab == [f EXCEPT ![s].queue = q]
           r == [f[s] EXCEPT !.queue = q]
<1>1. f[s] \in StreamType
  OBVIOUS
<1>2. tab = [f EXCEPT ![s] = r]
  BY <1>1 DEF StreamType
<1>3. r \in StreamType
  BY <1>1, Numbers, Zenon DEF StreamType, Flows
<1>4. (r.valid <=> f[s].valid)
            /\ (r.pending_eos <=> f[s].pending_eos)
            /\ (r.block <=> f[s].block)
            /\ r.held = f[s].held
            /\ r.queue = q
            /\ (r.new_segment <=> f[s].new_segment)
  BY <1>1 DEF StreamType, Alike
<1> HIDE DEF r
<1>5. tab \in [Streams -> StreamType] /\ tab[s] = r
  BY <1>2, <1>3
<1> QED
  BY <1>2, <1>4, <1>5

LEMMA AppendedAt ==
  ASSUME NEW f \in [Streams -> StreamType], NEW s \in Streams, NEW q \in Seq(Number)
  PROVE  LET tab == [f EXCEPT ![s].queue = q, ![s].last_ret = "OK"]
         IN /\ tab \in [Streams -> StreamType]
            /\ \A t \in Streams : t # s => tab[t] = f[t]
            /\ (tab[s].valid <=> f[s].valid)
            /\ (tab[s].pending_eos <=> f[s].pending_eos)
            /\ (tab[s].block <=> f[s].block)
            /\ tab[s].held = f[s].held
            /\ tab[s].queue = q
            /\ (tab[s].new_segment <=> f[s].new_segment)
<1> DEFINE tab == [f EXCEPT ![s].queue = q, ![s].last_ret = "OK"]
           r == [f[s] EXCEPT !.queue = q, !.last_ret = "OK"]
<1>1. f[s] \in StreamType
  OBVIOUS
<1>2. tab = [f EXCEPT ![s] = r]
  BY <1>1 DEF StreamType
<1>3. r \in StreamType
  BY <1>1, Numbers, Zenon DEF StreamType, Flows
<1>4. (r.valid <=> f[s].valid)
            /\ (r.pending_eos <=> f[s].pending_eos)
            /\ (r.block <=> f[s].block)
            /\ r.held = f[s].held
            /\ r.queue = q
            /\ (r.new_segment <=> f[s].new_segment)
  BY <1>1 DEF StreamType, Alike
<1> HIDE DEF r
<1>5. tab \in [Streams -> StreamType] /\ tab[s] = r
  BY <1>2, <1>3
<1> QED
  BY <1>2, <1>4, <1>5

-------------------------------------------------------------------------------
(* What the steps of the loop do to the tables. *)

LEMMA NextSampleIs ==
  ASSUME Safe, NEW s \in Streams, NEW n \in Number, NextSample(s, n)
  PROVE  /\ Joined(s, n) = n /\ loop.pc = "do"
         /\ pos[s] <= n /\ (config.trick \/ n = pos[s])
         /\ stream[s].held # None => n = pos[s]
         /\ n + 1 \in Places /\ n \in Places
<1>1. /\ stream[s].held \in {None, pos[s]} /\ pos[s] \in Places
  BY DEF Safe, Tables, Reads
<1>2. /\ loop.pc = "do"
      /\ IF config.trick /\ stream[s].held = None THEN n >= pos[s] ELSE n = pos[s]
  BY DEF NextSample, Reading
<1>3. n + 1 \in Places /\ n \in Places /\ n \in Nat
  BY DemuxerAssumption DEF Number, Places
<1>4. pos[s] <= n /\ (config.trick \/ n = pos[s])
  BY <1>1, <1>2, <1>3 DEF Places
<1>5. stream[s].held # None => n = pos[s]
  BY <1>1, <1>2
<1> QED
  BY <1>1, <1>2, <1>3, <1>4, <1>5 DEF Joined

LEMMA WholeIs ==
  ASSUME Tables, NEW s \in Streams
  PROVE  /\ Whole(s) \in [Streams -> StreamType]
         /\ \A t \in Streams : t # s => Whole(s)[t] = stream[t]
         /\ Alike(Whole(s)[s], stream[s])
         /\ ~Whole(s)[s].new_segment /\ Whole(s)[s].held = None
BY WholeAt, Zenon DEF Whole, Tables

LEMMA CountedIs ==
  ASSUME Tables, NEW s \in Streams
  PROVE  /\ Counted(s) \in [Streams -> StreamType]
         /\ \A t \in Streams : t # s => Counted(s)[t] = stream[t]
         /\ Alike(Counted(s)[s], stream[s])
         /\ ~Counted(s)[s].new_segment /\ Counted(s)[s].held = None
         /\ ~Counted(s)[s].block
<1> DEFINE f == Whole(s)
           c == f[s].preroll
           m == IF Late(s) = {} THEN c ELSE Min({c + 1, MaxInterleave + 1})
<1>1. /\ f \in [Streams -> StreamType]
      /\ \A t \in Streams : t # s => f[t] = stream[t]
      /\ Alike(f[s], stream[s]) /\ ~f[s].new_segment /\ f[s].held = None
  BY WholeIs
<1>2. c \in Prerolls
  BY <1>1 DEF StreamType
<1>3. m \in Prerolls
  <2>1. \A a, b \in Nat : Min({a, b}) = IF a <= b THEN a ELSE b
    BY DEF Min
  <2>2. c \in Nat /\ c + 1 \in Nat /\ MaxInterleave + 1 \in Nat
    BY <1>2, DemuxerAssumption DEF Prerolls
  <2>3. Min({c + 1, MaxInterleave + 1})
          = IF c + 1 <= MaxInterleave + 1 THEN c + 1 ELSE MaxInterleave + 1
    BY <2>1, <2>2
  <2> QED
    BY <1>2, <2>2, <2>3 DEF Prerolls
<1> DEFINE g == [f EXCEPT ![s].block = FALSE, ![s].time = 0, ![s].preroll = m]
<1>4. Counted(s) = g
  BY Zenon DEF Counted
<1> HIDE DEF f, m, c
<1>5. /\ g \in [Streams -> StreamType]
      /\ \A t \in Streams : t # s => g[t] = f[t]
      /\ Alike(g[s], f[s]) /\ g[s].held = f[s].held /\ ~g[s].block
      /\ g[s].new_segment <=> f[s].new_segment
  BY <1>1, <1>3, CountedAt
<1> HIDE DEF g
<1>6. Alike(g[s], stream[s])
  BY <1>1, <1>5 DEF Alike
<1> QED
  BY <1>1, <1>4, <1>5, <1>6

LEMMA SegmentOutIs ==
  ASSUME Tables, NEW s \in Streams
  PROVE  /\ SegmentOut(s) \in [Streams -> PadType]
         /\ \A t \in Streams :
              SegmentOut(s)[t] = IF t = s THEN Opened(stream[s], pad[s])
                                 ELSE pad[t]
<1> DEFINE S == IF stream[s].new_segment THEN {s} ELSE {}
<1>1. pad \in [Streams -> PadType] /\ stream[s] \in StreamType
  BY DEF Tables
<1>2. S \in SUBSET Streams
  OBVIOUS
<1>3. \A t \in Streams :
        Segmented(pad, S)[t] =
          IF t \in S /\ ~flushing
          THEN [seg |-> TRUE, eos |-> pad[t].eos, last |-> None] ELSE pad[t]
  BY <1>1, <1>2, SegmentedIs
<1>4. \A t \in Streams :
        SegmentOut(s)[t] = IF t = s THEN Opened(stream[s], pad[s]) ELSE pad[t]
  BY <1>3 DEF SegmentOut, Opened
<1>5. \A t \in Streams : SegmentOut(s)[t] \in PadType
  BY <1>1, <1>4, OpenedType
<1>6. SegmentOut(s) = [t \in Streams |-> SegmentOut(s)[t]]
  BY DEF SegmentOut, Segmented
<1> QED
  BY <1>4, <1>5, <1>6

\* A sample of s was read, its segment is out, and it was dropped.
Dropped(s, n) ==
  /\ LoopOnly /\ UNCHANGED <<pending_event, valid_mask>>
  /\ loop.pc = "do" /\ pos[s] <= n
  /\ stream[s].valid => stream[s].block \/ config.drop
  /\ loop' \in LoopType /\ loop'.pc = "top"
  /\ running' \in BOOLEAN /\ (running' => running)
  /\ Tables'
  /\ \A t \in Streams : t # s =>
       stream'[t] = stream[t] /\ pad'[t] = pad[t] /\ pos'[t] = pos[t]
  /\ Alike(stream'[s], stream[s])
  /\ ~stream'[s].new_segment /\ stream'[s].held = None
  /\ pad'[s] = Opened(stream[s], pad[s])
  /\ pos'[s] = n + 1
  /\ new_segment_mask' = new_segment_mask \ {s}

LEMMA DroppedIs ==
  ASSUME Safe, NEW s \in Streams, NEW n \in Number, Finish(s, n), Skip(s),
         stream' \in [Streams -> StreamType],
         \A t \in Streams : t # s => stream'[t] = stream[t],
         Alike(stream'[s], stream[s]),
         ~stream'[s].new_segment, stream'[s].held = None,
         stream[s].valid => stream[s].block \/ config.drop
  PROVE  Dropped(s, n)
<1>1. LoopOnly /\ UNCHANGED <<pending_event, fifo, valid_mask>>
  BY Zenon DEF Finish, Skip, LoopOnly
<1>2. /\ loop' \in LoopType /\ loop'.pc = "top"
      /\ running' \in BOOLEAN /\ (running' => running)
  BY ReturnEffect DEF Skip, Safe, Flags
<1>3. pad' = SegmentOut(s) /\ new_segment_mask' = new_segment_mask \ {s}
  BY DEF Skip
<1>4. /\ pad' \in [Streams -> PadType]
      /\ pad'[s] = Opened(stream[s], pad[s])
      /\ \A t \in Streams : t # s => pad'[t] = pad[t]
  BY <1>3, SegmentOutIs DEF Safe
<1>5. pos' = [pos EXCEPT ![s] = n + 1] /\ n + 1 \in Places
  BY NextSampleIs DEF Finish
<1>6. pos \in [Streams -> Places] /\ fifo \in [Streams -> Fill]
  BY DEF Safe, Tables
<1> HIDE DEF Places, Fill
<1>7. /\ pos' \in [Streams -> Places] /\ fifo' \in [Streams -> Fill]
      /\ pos'[s] = n + 1 /\ \A t \in Streams : t # s => pos'[t] = pos[t]
  BY <1>1, <1>5, <1>6
<1>8. Tables'
  BY <1>4, <1>7 DEF Tables
<1>9. loop.pc = "do" /\ pos[s] <= n
  BY NextSampleIs DEF Finish
<1> QED
  BY <1>1, <1>2, <1>3, <1>4, <1>7, <1>8, <1>9 DEF Dropped

LEMMA DiscardDrops ==
  ASSUME Safe, NEW s \in Streams, NEW n \in Number, Discard(s, n)
  PROVE  Dropped(s, n)
<1> DEFINE f == Whole(s)
           v == IF stream[s].valid THEN f[s].last_ret ELSE "OK"
           g == [f EXCEPT ![s].last_ret = v]
<1>1. /\ f \in [Streams -> StreamType]
      /\ \A t \in Streams : t # s => f[t] = stream[t]
      /\ Alike(f[s], stream[s]) /\ ~f[s].new_segment /\ f[s].held = None
  BY WholeIs DEF Safe
<1>2. v \in Flows
  BY <1>1, Zenon DEF StreamType, Flows
<1>3. stream' = g /\ Finish(s, n) /\ Skip(s)
  BY Zenon DEF Discard
<1>6. stream[s].valid => stream[s].block \/ config.drop
  BY DEF Discard, Early
<1> HIDE DEF f, v
<1>4. /\ g \in [Streams -> StreamType]
      /\ \A t \in Streams : t # s => g[t] = f[t]
      /\ Alike(g[s], f[s]) /\ g[s].held = f[s].held
      /\ g[s].new_segment <=> f[s].new_segment
  BY <1>1, <1>2, RetAt
<1> HIDE DEF g
<1>5. Alike(g[s], stream[s])
  BY <1>1, <1>4 DEF Alike
<1> QED
  BY <1>1, <1>3, <1>4, <1>5, <1>6, DroppedIs

LEMMA DropLongDrops ==
  ASSUME Safe, NEW s \in Streams, NEW n \in Number, DropLong(s, n)
  PROVE  Dropped(s, n)
<1> DEFINE f == Counted(s)
           g == [f EXCEPT ![s].last_ret = "OK"]
<1>1. /\ f \in [Streams -> StreamType]
      /\ \A t \in Streams : t # s => f[t] = stream[t]
      /\ Alike(f[s], stream[s]) /\ ~f[s].new_segment /\ f[s].held = None
  BY CountedIs DEF Safe
<1>2. "OK" \in Flows
  BY DEF Flows
<1>3. stream' = g /\ Finish(s, n) /\ Skip(s)
  BY Zenon DEF DropLong
<1>6. stream[s].valid => stream[s].block \/ config.drop
  BY DEF DropLong
<1> HIDE DEF f
<1>4. /\ g \in [Streams -> StreamType]
      /\ \A t \in Streams : t # s => g[t] = f[t]
      /\ Alike(g[s], f[s]) /\ g[s].held = f[s].held
      /\ g[s].new_segment <=> f[s].new_segment
  BY <1>1, <1>2, RetAt
<1> HIDE DEF g
<1>5. Alike(g[s], stream[s])
  BY <1>1, <1>4 DEF Alike
<1> QED
  BY <1>1, <1>3, <1>4, <1>5, <1>6, DroppedIs

LEMMA DroppedSafe ==
  ASSUME Safe, NEW s \in Streams, NEW n \in Number, Dropped(s, n)
  PROVE  Safe'
<1>1. Masks'
  <2>1. \A t \in new_segment_mask' : t # s /\ t \in Streams
                                   /\ stream[t].new_segment
    BY DEF Dropped, Safe, Masks
  <2>2. \A t \in new_segment_mask' : stream'[t].new_segment
    BY <2>1 DEF Dropped
  <2>3. \A t \in Streams :
          /\ stream'[t].valid <=> stream[t].valid
          /\ stream'[t].pending_eos <=> stream[t].pending_eos
    BY DEF Dropped, Alike
  <2>4. /\ Masks /\ UNCHANGED <<state, valid_mask, pending_event>>
        /\ new_segment_mask' \subseteq new_segment_mask
    BY DEF Dropped, Safe, LoopOnly
  <2>5. Valid' = Valid /\ Pending' = Pending
    BY <2>3 DEF Valid, Pending
  <2> QED
    BY <2>2, <2>4, <2>5 DEF Masks
<1>2. Reads'
  BY DEF Safe, Reads, Dropped, Alike, LoopOnly
<1>3. Safe /\ LoopOnly /\ running' \in BOOLEAN /\ UNCHANGED pending_event
      /\ loop' \in LoopType /\ loop'.pc = "top" /\ Tables'
  BY DEF Dropped
<1> QED
  BY <1>1, <1>2, <1>3, LoopOnlySafe

Late0(s) == IF TooLong(s) THEN Late(s) ELSE {}

\* A sample of s was read and goes on, and those that are late have ended.
Taken(s, n) ==
  /\ LoopOnly /\ UNCHANGED pending_event
  /\ loop.pc = "do" /\ pos[s] <= n /\ (config.trick \/ n = pos[s])
  /\ loop' \in LoopType /\ running' \in BOOLEAN /\ (running' => running)
  /\ IF config.limit = 0
     THEN loop'.pc = "push" /\ loop'.s = s /\ loop'.n = n
          /\ loop'.from = "sample"
     ELSE loop'.pc = "top"
  /\ Tables'
  /\ \A t \in Streams : t # s =>
       /\ stream'[t] = IF t \in Late0(s) THEN Ending(stream[t]) ELSE stream[t]
       /\ pad'[t] = IF t \in Late0(s) /\ ~flushing
                    THEN [Opened(stream[t], pad[t]) EXCEPT !.eos = TRUE]
                    ELSE pad[t]
       /\ pos'[t] = pos[t]
  /\ stream[s].valid /\ stream'[s].valid
  /\ stream'[s].pending_eos <=> stream[s].pending_eos
  /\ stream'[s].queue = IF config.limit = 0 THEN stream[s].queue
                        ELSE Append(stream[s].queue, n)
  /\ ~stream'[s].new_segment /\ stream'[s].held = None /\ ~stream'[s].block
  /\ pad'[s] = Opened(stream[s], pad[s])
  /\ pos'[s] = n + 1
  /\ Late0(s) \subseteq Streams \ {s}
  /\ valid_mask' = valid_mask \ Late0(s)
  /\ new_segment_mask' = {t \in new_segment_mask : stream'[t].new_segment}

LEMMA KeepTakes ==
  ASSUME Safe, NEW s \in Streams, NEW n \in Number, Keep(s, n)
  PROVE  Taken(s, n)
<1> DEFINE E == Late0(s)
           f == Counted(s)
           q == Append(f[s].queue, n)
           g == IF config.limit = 0 THEN f
                ELSE [f EXCEPT ![s].queue = q, ![s].last_ret = "OK"]
<1>1. /\ f \in [Streams -> StreamType]
      /\ \A t \in Streams : t # s => f[t] = stream[t]
      /\ Alike(f[s], stream[s]) /\ ~f[s].new_segment /\ f[s].held = None
      /\ ~f[s].block
  BY CountedIs DEF Safe
<1>2. q \in Seq(Number)
  BY <1>1 DEF StreamType
<1>3. n = Joined(s, n) /\ n + 1 \in Places /\ Finish(s, n)
  BY NextSampleIs DEF Keep, Finish
<1>4. SendEos(E, g, SegmentOut(s)) /\ stream[s].valid
  BY <1>3, Zenon DEF Keep, Late0
<1> HIDE DEF f, q
<1>5. /\ g \in [Streams -> StreamType]
      /\ \A t \in Streams : t # s => g[t] = f[t]
      /\ g[s].valid <=> f[s].valid
      /\ g[s].pending_eos <=> f[s].pending_eos
      /\ g[s].block <=> f[s].block
      /\ g[s].held = f[s].held
      /\ g[s].queue = IF config.limit = 0 THEN f[s].queue ELSE q
      /\ g[s].new_segment <=> f[s].new_segment
  <2> DEFINE h == [f EXCEPT ![s].queue = q, ![s].last_ret = "OK"]
  <2>1. /\ h \in [Streams -> StreamType]
        /\ \A t \in Streams : t # s => h[t] = f[t]
        /\ h[s].valid <=> f[s].valid
        /\ h[s].pending_eos <=> f[s].pending_eos
        /\ h[s].block <=> f[s].block
        /\ h[s].held = f[s].held
        /\ h[s].queue = q
        /\ h[s].new_segment <=> f[s].new_segment
    BY <1>1, <1>2, AppendedAt
  <2>2. config.limit # 0 => g = h
    OBVIOUS
  <2>3. config.limit = 0 => g = f
    OBVIOUS
  <2> HIDE DEF g, h
  <2>4. CASE config.limit = 0
    BY <1>1, <2>3, <2>4, Zenon
  <2> QED
    BY <2>1, <2>2, <2>4, Zenon
<1> HIDE DEF g
<1>6. E \subseteq Streams \ {s}
  BY DEF Late0, Late, Safe, Masks
<1>7. /\ SegmentOut(s) \in [Streams -> PadType]
      /\ SegmentOut(s)[s] = Opened(stream[s], pad[s])
      /\ \A t \in Streams : t # s => SegmentOut(s)[t] = pad[t]
  BY SegmentOutIs DEF Safe
<1>8. /\ stream' \in [Streams -> StreamType] /\ pad' \in [Streams -> PadType]
      /\ \A t \in Streams : stream'[t] = IF t \in E THEN Ending(g[t]) ELSE g[t]
      /\ \A t \in Streams :
           pad'[t] = IF t \in E /\ ~flushing
                     THEN [Opened(g[t], SegmentOut(s)[t]) EXCEPT !.eos = TRUE]
                     ELSE SegmentOut(s)[t]
      /\ valid_mask' = valid_mask \ E
      /\ new_segment_mask' = {t \in new_segment_mask : stream'[t].new_segment}
  <2> HIDE DEF E
  <2>1. E \in SUBSET Streams
    BY <1>6
  <2>2. g \in [Streams -> StreamType] /\ SegmentOut(s) \in [Streams -> PadType]
    BY <1>5, <1>7
  <2>3. /\ stream' = EndTable(E, g) /\ pad' = EndPads(E, g, SegmentOut(s))
        /\ valid_mask' = valid_mask \ E
        /\ new_segment_mask' = {t \in new_segment_mask : stream'[t].new_segment}
    BY <1>4, Zenon DEF SendEos, EndTable, EndPads, Ending
  <2> QED
    BY <2>1, <2>2, <2>3, EndTableIs, EndPadsIs
<1>9. \A t \in Streams : t # s =>
        /\ stream'[t] = IF t \in E THEN Ending(stream[t]) ELSE stream[t]
        /\ pad'[t] = IF t \in E /\ ~flushing
                     THEN [Opened(stream[t], pad[t]) EXCEPT !.eos = TRUE]
                     ELSE pad[t]
  BY <1>1, <1>5, <1>7, <1>8
<1>10. stream'[s] = g[s] /\ pad'[s] = Opened(stream[s], pad[s])
  BY <1>6, <1>7, <1>8
<1>11. /\ stream'[s].valid
       /\ stream'[s].pending_eos <=> stream[s].pending_eos
       /\ stream'[s].queue = IF config.limit = 0 THEN stream[s].queue
                              ELSE Append(stream[s].queue, n)
       /\ ~stream'[s].new_segment /\ stream'[s].held = None /\ ~stream'[s].block
  BY <1>1, <1>4, <1>5, <1>10 DEF Alike, q
<1>12. LoopOnly /\ UNCHANGED <<pending_event, fifo>>
  BY <1>3, Zenon DEF Finish, LoopOnly
<1>13. pos' = [pos EXCEPT ![s] = n + 1] /\ pos \in [Streams -> Places]
       /\ fifo \in [Streams -> Fill]
  BY <1>3 DEF Finish, Safe, Tables
<1> HIDE DEF Places, Fill
<1>14. /\ pos' \in [Streams -> Places] /\ fifo' \in [Streams -> Fill]
       /\ pos'[s] = n + 1 /\ \A t \in Streams : t # s => pos'[t] = pos[t]
  BY <1>3, <1>12, <1>13
<1>15. Tables'
  BY <1>8, <1>14 DEF Tables
<1>16. /\ loop' \in LoopType /\ running' \in BOOLEAN /\ (running' => running)
       /\ IF config.limit = 0
          THEN loop'.pc = "push" /\ loop'.s = s /\ loop'.n = n
               /\ loop'.from = "sample"
          ELSE loop'.pc = "top"
  <2>1. running \in BOOLEAN /\ config.limit \in Nat
    BY DEF Safe, Flags, ConfigType
  <2>2. CASE config.limit = 0
    <3>1. UNCHANGED running
          /\ loop' = [pc |-> "push", s |-> s, n |-> n, from |-> "sample"]
      BY <1>3, <2>2 DEF Keep
    <3>2. n \in OrNone
      BY Numbers
    <3>3. loop' \in LoopType
      BY <3>1, <3>2, Zenon DEF LoopType
    <3> QED
      BY <2>1, <2>2, <3>1, <3>3
  <2>3. CASE config.limit # 0
    <3>1. Return("OK")
      BY <2>1, <2>3 DEF Keep
    <3> QED
      BY <2>1, <2>3, <3>1, ReturnEffect
  <2> QED
    BY <2>2, <2>3
<1>17. loop.pc = "do" /\ pos[s] <= n /\ (config.trick \/ n = pos[s])
  BY <1>3, NextSampleIs DEF Finish
<1> QED
  BY <1>4, <1>6, <1>8, <1>9, <1>10, <1>11, <1>12, <1>14, <1>15, <1>16, <1>17
     DEF Taken
-------------------------------------------------------------------------------
(* What a step of the loop may do to a stream and its pad, and that the pads *)
(* still agree with the streams and see what they should.                    *)

Stays(t) ==
  /\ stream'[t].valid <=> stream[t].valid
  /\ stream'[t].new_segment <=> stream[t].new_segment
  /\ pad'[t] = pad[t]

Begins(t) ==
  /\ stream'[t].valid <=> stream[t].valid
  /\ ~stream'[t].new_segment
  /\ pad'[t] = Opened(stream[t], pad[t])

Finishes(t) ==
  /\ ~stream'[t].valid /\ ~stream'[t].new_segment
  /\ pad'[t] = IF flushing THEN pad[t]
               ELSE [Opened(stream[t], pad[t]) EXCEPT !.eos = TRUE]

Delivers(t) ==
  /\ InFlight(t)
  /\ stream'[t].valid <=> stream[t].valid
  /\ stream'[t].new_segment <=> stream[t].new_segment
  /\ pad'[t] = IF flushing THEN pad[t] ELSE [pad[t] EXCEPT !.last = loop.n]

Proper(t) ==
  \/ pad'[t] = pad[t]
  \/ Pads!Segment(pad[t], pad'[t])
  \/ Pads!Sample(pad[t], pad'[t])
  \/ Pads!Eos(pad[t], pad'[t])

LEMMA OpenedIs ==
  ASSUME NEW r \in StreamType, NEW q \in PadType,
         r.new_segment \/ q.seg, r.new_segment => ~q.eos
  PROVE  LET o == Opened(r, q)
             e == [o EXCEPT !.eos = TRUE]
         IN /\ o \in PadType /\ o.eos = q.eos /\ (~flushing => o.seg)
            /\ ~flushing /\ r.new_segment => Pads!Segment(q, o)
            /\ ~r.new_segment => o = q
            /\ e \in PadType /\ (~flushing => e.seg /\ Pads!Eos(q, e))
<1> DEFINE o == Opened(r, q)
           e == [o EXCEPT !.eos = TRUE]
<1>1. o \in PadType /\ e \in PadType
  BY OpenedType
<1>2. CASE ~r.new_segment \/ flushing
  <2>1. o = q
    BY <1>2, Zenon DEF Opened
  <2>2. q.seg => Pads!Eos(q, e)
    BY <2>1, Zenon DEF Pads!Eos
  <2>3. e.seg = q.seg
    BY <2>1 DEF PadType
  <2> QED
    BY <1>1, <1>2, <2>1, <2>2, <2>3
<1>3. CASE r.new_segment /\ ~flushing
  <2> DEFINE begun == [seg |-> TRUE, eos |-> FALSE, last |-> None]
             ended == [seg |-> TRUE, eos |-> TRUE, last |-> None]
             fresh == [Fresh EXCEPT !.seg = TRUE]
  <2>1. q.eos = FALSE
    BY <1>3 DEF PadType
  <2>8. begun \in PadType /\ ended \in PadType /\ fresh \in PadType
    BY Numbers, FreshType, Zenon DEF PadType
  <2>2. o = [seg |-> TRUE, eos |-> FALSE, last |-> None]
    BY <1>3, <2>1 DEF Opened
  <2>3. fresh = begun
    <3>1. fresh.seg = begun.seg /\ fresh.eos = begun.eos /\ fresh.last = begun.last
      BY DEF Fresh
    <3> QED
      BY <2>8, <3>1, PadEqual
  <2>4. Pads!Segment(q, o)
    BY <2>1, <2>2, <2>3 DEF Pads!Segment, Pads!Fresh, Fresh, Pads!None, None
  <2>5. e = ended
    <3>1. e.seg = ended.seg /\ e.eos = ended.eos /\ e.last = ended.last
      BY <1>1, <2>2 DEF PadType
    <3> HIDE DEF e, ended
    <3> QED
      BY <1>1, <2>8, <3>1, PadEqual
  <2>6. Pads!Eos(q, e)
    BY <2>1, <2>5 DEF Pads!Eos, Pads!None, None
  <2>7. o.seg /\ o.eos = q.eos /\ e.seg
    <3> HIDE DEF o, e
    <3> QED
      BY <2>1, <2>2, <2>5
  <2> QED
    BY <1>1, <1>3, <2>4, <2>6, <2>7
<1> QED
  BY <1>2, <1>3

LEMMA PadStep ==
  ASSUME IInv, LoopOnly, state = "movie",
         \A t \in Streams : \/ Stays(t) \/ Begins(t)
                            \/ Finishes(t) \/ Delivers(t)
  PROVE  PadsAgree' /\ (promised => \A t \in Streams : Proper(t))
<1>1. ASSUME Seen, NEW t \in Streams
      PROVE  /\ Proper(t)
             /\ stream'[t].new_segment \/ stream'[t].valid => ~pad'[t].eos
             /\ ~stream'[t].new_segment => pad'[t].seg
  <2>1. /\ stream[t] \in StreamType /\ pad[t] \in PadType /\ ~flushing
        /\ stream[t].new_segment \/ stream[t].valid => ~pad[t].eos
        /\ ~stream[t].new_segment => pad[t].seg
    BY <1>1 DEF IInv, Safe, Tables, Seen, PadsAgree
  <2> DEFINE o == Opened(stream[t], pad[t])
             e == [o EXCEPT !.eos = TRUE]
  <2>2. /\ o.eos = pad[t].eos /\ o.seg /\ (o = pad[t] \/ Pads!Segment(pad[t], o))
        /\ e.seg /\ Pads!Eos(pad[t], e)
    BY <2>1, OpenedIs
  <2> HIDE DEF o
  <2>3. CASE Stays(t)
    BY <2>1, <2>3 DEF Stays, Proper
  <2>4. CASE Begins(t)
    BY <2>1, <2>2, <2>4 DEF Begins, Proper, o
  <2>5. CASE Finishes(t)
    BY <2>1, <2>2, <2>5 DEF Finishes, Proper, o
  <2>6. CASE Delivers(t)
    <3>1. /\ stream[t].valid /\ ~stream[t].new_segment
          /\ Follows(pad[t].last, loop.n) /\ loop.n \in Number
      BY <1>1, <2>6 DEF IInv, Safe, Loop, Delivers, InFlight, Seen, Sending,
                        InOrder, Chain
    <3>2. pad[t].seg /\ ~pad[t].eos
      BY <2>1, <3>1
    <3>3. pad'[t] = [pad[t] EXCEPT !.last = loop.n]
      BY <2>1, <2>6 DEF Delivers
    <3>4. pad'[t].last = loop.n /\ pad'[t].seg /\ ~pad'[t].eos
      BY <2>1, <3>2, <3>3 DEF PadType
    <3>5. pad[t].last \in OrNone /\ loop.n \in OrNone
      BY <2>1, <3>1, Numbers DEF PadType
    <3>6. Pads!Sample(pad[t], pad'[t])
      BY <3>1, <3>2, <3>3, <3>4, <3>5, Numbers
         DEF Pads!Sample, Follows, Gaps, Pads!None, None
    <3> QED
      BY <2>6, <3>1, <3>4, <3>6 DEF Delivers, Proper
  <2> QED
    BY <2>3, <2>4, <2>5, <2>6
<1>2. ASSUME flushing, NEW t \in Streams
      PROVE  Proper(t)
  BY <1>2 DEF Stays, Begins, Finishes, Delivers, Proper, Opened
<1>3. Seen' <=> Seen
  BY DEF Seen, LoopOnly
<1>4. PadsAgree'
  BY <1>1, <1>3 DEF PadsAgree, LoopOnly
<1>5. promised => flushing \/ Seen
  BY DEF Seen
<1> QED
  BY <1>1, <1>2, <1>4, <1>5
-------------------------------------------------------------------------------
(* The steps of the loop that end streams, and those that move no sample. *)

Rests(t) ==
  /\ stream'[t].queue = stream[t].queue
  /\ stream'[t].block => stream[t].block
  /\ pos'[t] = pos[t]
  /\ pad'[t].last = pad[t].last

LEMMA ChainRests ==
  ASSUME NEW t \in Streams, Chain(t), UNCHANGED config, Rests(t),
         ~InFlight(t), ~InFlight(t)'
  PROVE  Chain(t)'
<1>1. (Reached(t)' = Reached(t)) /\ (Newest(t)' = Newest(t))
  BY Zenon DEF Reached, Newest, Rests
<1>2. \A m, n : Follows(m, n)' <=> Follows(m, n)
  BY Zenon DEF Follows, Gaps
<1> QED
  BY <1>1, <1>2 DEF Chain, Rests

EndStep ==
  /\ LoopOnly /\ state = "movie"
  /\ loop'.pc \in {"top", "do", "drain"}
  /\ \A t \in Streams : (Stays(t) /\ Rests(t)) \/ Finishes(t)
  /\ loop.pc = "push" => Finishes(loop.s)
  /\ /\ promised /\ config.limit > 0
     /\ running' \/ loop'.pc = "do"
     /\ loop'.pc # "drain"
     => valid_mask' # {}

LEMMA EndStepKeeps ==
  ASSUME IInv, EndStep, Safe'
  PROVE  IInv' /\ (promised => \A t \in Streams : Proper(t))
<1>1. PadsAgree' /\ (promised => \A t \in Streams : Proper(t))
  BY PadStep DEF EndStep
<1>2. SomeLeft' /\ Sending'
  BY DEF EndStep, SomeLeft, Sending, LoopOnly
<1>3. ASSUME Seen', NEW t \in Streams, stream'[t].valid, ~stream'[t].new_segment
      PROVE  Chain(t)'
  <2>1. Seen /\ UNCHANGED config
    BY <1>3 DEF EndStep, LoopOnly, Seen
  <2>2. Stays(t) /\ Rests(t)
    BY <1>3 DEF EndStep, Finishes
  <2>3. Chain(t)
    BY <1>3, <2>1, <2>2 DEF IInv, InOrder, Stays
  <2>4. ~InFlight(t) /\ ~InFlight(t)'
    BY <1>3 DEF InFlight, EndStep, Finishes
  <2> QED
    BY <2>1, <2>2, <2>3, <2>4, ChainRests
<1>4. InOrder'
  BY <1>3 DEF InOrder
<1> QED
  BY <1>1, <1>2, <1>4 DEF IInv

LEMMA EndStepIs ==
  ASSUME Safe, LoopOnly, UNCHANGED fifo, state = "movie",
         NEW E \in SUBSET Streams, NEW str \in [Streams -> StreamType],
         \A t \in Streams :
           /\ Alike(str[t], stream[t])
           /\ str[t].new_segment <=> stream[t].new_segment
           /\ str[t].held \in {None, stream[t].held},
         stream' = EndTable(E, str), pad' = EndPads(E, str, pad),
         valid_mask' = valid_mask \ E,
         new_segment_mask' = {t \in new_segment_mask : stream'[t].new_segment},
         pos' \in [Streams -> Places],
         \A t \in Streams : \/ pos'[t] = pos[t]
                            \/ t \in E /\ str[t].held = None,
         \/ pending_event' = pending_event
         \/ pending_event' = FALSE /\ E = Pending,
         loop' \in LoopType, loop'.pc \in {"top", "do", "drain"},
         loop'.pc \in {"do", "drain"} => pending_event' = FALSE,
         running' \in BOOLEAN,
         loop.pc = "push" => loop.s \in E,
         /\ promised /\ config.limit > 0
         /\ running' \/ loop'.pc = "do"
         /\ loop'.pc # "drain"
         => valid_mask' # {}
  PROVE  EndStep /\ Safe'
<1>1. /\ stream' \in [Streams -> StreamType]
      /\ \A t \in Streams : stream'[t] = IF t \in E THEN Ending(str[t]) ELSE str[t]
  <2>1. /\ EndTable(E, str) \in [Streams -> StreamType]
        /\ \A t \in Streams :
             EndTable(E, str)[t] = IF t \in E THEN Ending(str[t]) ELSE str[t]
    BY EndTableIs, Zenon
  <2> QED
    BY <2>1, Zenon
<1>2. pad \in [Streams -> PadType] /\ stream \in [Streams -> StreamType]
      /\ fifo \in [Streams -> Fill]
  BY DEF Safe, Tables
<1>3. /\ pad' \in [Streams -> PadType]
      /\ \A t \in Streams :
           pad'[t] = IF t \in E /\ ~flushing
                     THEN [Opened(str[t], pad[t]) EXCEPT !.eos = TRUE]
                     ELSE pad[t]
  BY <1>2, EndPadsIs
<1>4. \A t \in Streams : Opened(str[t], pad[t]) = Opened(stream[t], pad[t])
  BY DEF Opened
<1>5. \A t \in Streams :
        t \in E => /\ ~stream'[t].valid /\ ~stream'[t].new_segment
                   /\ stream'[t].held = str[t].held
                   /\ stream'[t].queue = str[t].queue
                   /\ stream'[t].pending_eos <=> str[t].pending_eos
  BY <1>1, EndingType
<1>6. \A t \in Streams : t \in E => Finishes(t)
  BY <1>3, <1>4, <1>5, Zenon DEF Finishes
<1>7. \A t \in Streams : t \notin E => Stays(t) /\ Rests(t)
  BY <1>1, <1>3 DEF Stays, Rests, Alike
<1>8. EndStep
  <2>1. loop.pc = "push" => loop.s \in Streams
    BY DEF Safe, Loop, LoopType
  <2> QED
    BY <1>6, <1>7, <2>1 DEF EndStep
<1>9. Tables'
  BY <1>1, <1>2, <1>3 DEF Tables
<1>10. Reads'
  <2>1. \A t \in Streams :
          /\ stream'[t].held = str[t].held /\ stream'[t].queue = stream[t].queue
          /\ stream'[t].new_segment => stream[t].new_segment
    BY <1>1, <1>5 DEF Alike
  <2>2. config' = config
    BY DEF LoopOnly
  <2> QED
    BY <2>1, <2>2 DEF Safe, Reads
<1>11. Masks'
  <2>1. \A t \in Streams :
          /\ stream'[t].valid <=> stream[t].valid /\ t \notin E
          /\ stream'[t].pending_eos <=> stream[t].pending_eos
    BY <1>1, <1>5 DEF Alike
  <2>2. Valid' = Valid \ E /\ Pending' = Pending
    BY <2>1 DEF Valid, Pending
  <2>3. /\ valid_mask' \subseteq Streams
        /\ new_segment_mask' \subseteq {t \in Streams : stream'[t].new_segment}
        /\ Valid' \subseteq valid_mask'
    BY <2>2 DEF Safe, Masks
  <2>4. valid_mask' \subseteq
          Valid' \cup (IF pending_event' THEN Pending' ELSE {})
    BY <2>2 DEF Safe, Masks
  <2> QED
    BY <2>3, <2>4 DEF Masks
<1>12. Safe'
  BY <1>9, <1>10, <1>11, LoopOnlySafe
<1> QED
  BY <1>8, <1>12
LEMMA StillStep ==
  ASSUME Safe, LoopOnly, state = "movie",
         UNCHANGED <<stream, valid_mask, new_segment_mask, pending_event,
                     pos, pad, fifo>>,
         loop.pc # "push",
         loop' \in LoopType, loop'.pc \in {"top", "do", "drain"},
         loop'.pc \in {"do", "drain"} => ~pending_event,
         running' \in BOOLEAN,
         /\ promised /\ config.limit > 0
         /\ running' \/ loop'.pc = "do"
         /\ loop'.pc # "drain"
         => valid_mask # {}
  PROVE  EndStep /\ Safe'
<1>1. Tables' /\ Masks' /\ Reads'
  BY Zenon DEF Safe, Tables, Masks, Reads, Valid, Pending, LoopOnly
<1>2. Safe'
  BY <1>1, LoopOnlySafe DEF Safe, Flags
<1>3. \A t \in Streams : Stays(t) /\ Rests(t)
  BY DEF Stays, Rests
<1> QED
  BY <1>2, <1>3 DEF EndStep

LEMMA MovieKeeps ==
  ASSUME IInv, Movie
  PROVE  EndStep /\ Safe'
<1>1. /\ LoopOnly /\ UNCHANGED <<pos, fifo>> /\ state = "movie"
      /\ loop.pc = "top" /\ running
  BY Zenon DEF Movie, LoopOnly
<1>2. /\ pos \in [Streams -> Places] /\ stream \in [Streams -> StreamType]
      /\ running \in BOOLEAN
  BY DEF IInv, Safe, Tables, Flags
<1>3. CASE pending_event
  <2>1. Pending \in SUBSET Streams
    BY DEF Pending
  <2>2. /\ stream' = EndTable(Pending, stream)
        /\ pad' = EndPads(Pending, stream, pad)
        /\ valid_mask' = valid_mask \ Pending
        /\ new_segment_mask' = {t \in new_segment_mask : stream'[t].new_segment}
    BY <1>3, Zenon DEF Movie, SendEos, EndTable, EndPads, Ending
  <2>3. /\ pending_event' = FALSE
        /\ loop' \in LoopType /\ loop'.pc \in {"top", "do"}
        /\ running' \in BOOLEAN
        /\ running' \/ loop'.pc = "do" => valid_mask' # {}
    <3>1. pending_event' = FALSE
      BY <1>3 DEF Movie
    <3>2. CASE valid_mask' = {}
      <4>1. Return("UNEXPECTED")
        BY <1>3, <3>2 DEF Movie
      <4> QED
        BY <1>2, <3>1, <4>1, ReturnEffect
    <3>3. CASE valid_mask' # {}
      <4>1. Goto("do") /\ UNCHANGED running
        BY <1>3, <3>3 DEF Movie
      <4> QED
        BY <1>2, <3>1, <3>3, <4>1, GotoEffect
    <3> QED
      BY <3>2, <3>3
  <2>4. \A t \in Streams :
          /\ Alike(stream[t], stream[t])
          /\ stream[t].new_segment <=> stream[t].new_segment
          /\ stream[t].held \in {None, stream[t].held}
    BY DEF Alike
  <2> QED
    BY <1>1, <1>2, <2>1, <2>2, <2>3, <2>4, EndStepIs DEF IInv
<1>4. CASE ~pending_event
  <2>1. /\ UNCHANGED <<running, stream, valid_mask, new_segment_mask,
                       pending_event, pad>>
        /\ Goto("do")
    BY <1>4 DEF Movie, masks
  <2>2. /\ loop' \in LoopType /\ loop'.pc = "do"
    BY <2>1, GotoEffect
  <2>3. promised /\ config.limit > 0 => valid_mask # {}
    BY <1>1, <1>4 DEF IInv, SomeLeft
  <2> QED
    BY <1>1, <1>2, <1>4, <2>1, <2>2, <2>3, StillStep DEF IInv
<1> QED
  BY <1>3, <1>4
LEMMA EosAllKeeps ==
  ASSUME IInv, EosAll, LoopOnly, UNCHANGED <<pos, fifo, pending_event>>,
         loop.pc = "do"
  PROVE  EndStep /\ Safe'
<1>1. /\ pos \in [Streams -> Places] /\ stream \in [Streams -> StreamType]
      /\ running \in BOOLEAN /\ state = "movie" /\ ~pending_event
  BY DEF IInv, Safe, Tables, Flags, Loop
<1>2. CASE config.limit > 0
  <2>1. /\ UNCHANGED <<running, stream, valid_mask, new_segment_mask, pad>>
        /\ Goto("drain")
    BY <1>2 DEF EosAll
  <2>2. loop' \in LoopType /\ loop'.pc = "drain"
    BY <2>1, GotoEffect
  <2> QED
    BY <1>1, <2>1, <2>2, StillStep DEF IInv
<1>3. CASE ~(config.limit > 0)
  <2>1. Valid \in SUBSET Streams
    BY DEF Valid
  <2>2. /\ stream' = EndTable(Valid, stream)
        /\ pad' = EndPads(Valid, stream, pad)
        /\ valid_mask' = valid_mask \ Valid
        /\ new_segment_mask' = {t \in new_segment_mask : stream'[t].new_segment}
        /\ Return("UNEXPECTED")
    BY <1>3, Zenon DEF EosAll, SendEos, EndTable, EndPads, Ending
  <2>3. /\ loop' \in LoopType /\ loop'.pc = "top"
        /\ running' \in BOOLEAN /\ ~running'
    BY <1>1, <2>2, ReturnEffect
  <2>4. \A t \in Streams :
          /\ Alike(stream[t], stream[t])
          /\ stream[t].new_segment <=> stream[t].new_segment
          /\ stream[t].held \in {None, stream[t].held}
    BY DEF Alike
  <2>6. stream \in [Streams -> StreamType] /\ state = "movie" /\ LoopOnly /\ Safe
    BY <1>1 DEF IInv
  <2>5. /\ pos' = pos /\ fifo' = fifo /\ pending_event' = pending_event
        /\ pos' \in [Streams -> Places]
        /\ loop'.pc \in {"do", "drain"} => pending_event' = FALSE
        /\ loop.pc = "push" => loop.s \in Valid
        /\ /\ promised /\ config.limit > 0
           /\ running' \/ loop'.pc = "do"
           /\ loop'.pc # "drain"
           => valid_mask' # {}
    BY <1>1, <2>3
  <2> QED
    BY <2>1, <2>2, <2>3, <2>4, <2>5, <2>6, EndStepIs
<1> QED
  BY <1>2, <1>3

\* One stream ends, and the loop with it when it was the last.
LEMMA OneEnds ==
  ASSUME IInv, LoopOnly, UNCHANGED <<fifo, pending_event>>,
         loop.pc = "do",
         NEW s \in Streams, NEW str \in [Streams -> StreamType],
         \A t \in Streams :
           /\ Alike(str[t], stream[t])
           /\ str[t].new_segment <=> stream[t].new_segment
           /\ str[t].held \in {None, stream[t].held},
         str[s].held = None,
         stream' = EndTable({s}, str), pad' = EndPads({s}, str, pad),
         valid_mask' = valid_mask \ {s},
         new_segment_mask' = {t \in new_segment_mask : stream'[t].new_segment},
         pos' \in [Streams -> Places], \A t \in Streams \ {s} : pos'[t] = pos[t],
         Goto("top"), running' <=> running /\ ~(valid_mask \subseteq {s}),
         running' \in BOOLEAN
  PROVE  EndStep /\ Safe'
<1> DEFINE E == {s}
<1>1. state = "movie" /\ E \in SUBSET Streams
  BY DEF IInv, Safe, Loop
<1>2. loop' \in LoopType /\ loop'.pc = "top"
  BY GotoEffect
<1>3. running' => valid_mask' # {}
  OBVIOUS
<1>4. \A t \in Streams : \/ pos'[t] = pos[t]
                         \/ t \in E /\ str[t].held = None
  OBVIOUS
<1>5. /\ stream' = EndTable(E, str) /\ pad' = EndPads(E, str, pad)
      /\ valid_mask' = valid_mask \ E
  OBVIOUS
<1> HIDE DEF E
<1> QED
  BY <1>1, <1>2, <1>3, <1>4, <1>5, EndStepIs DEF IInv

LEMMA ClearedIs ==
  ASSUME Tables, NEW s \in Streams
  PROVE  /\ Cleared(s) \in [Streams -> StreamType]
         /\ Cleared(s)[s].held = None
         /\ \A t \in Streams :
              /\ Alike(Cleared(s)[t], stream[t])
              /\ Cleared(s)[t].new_segment <=> stream[t].new_segment
              /\ Cleared(s)[t].held \in {None, stream[t].held}
<1> DEFINE f == Cleared(s)
<1>1. /\ f \in [Streams -> StreamType]
      /\ \A t \in Streams : t # s => f[t] = stream[t]
      /\ Alike(f[s], stream[s]) /\ f[s].held = None
      /\ f[s].new_segment <=> stream[s].new_segment
  BY ClearedAt, Zenon DEF Cleared, Tables
<1> HIDE DEF f
<1> QED
  BY <1>1 DEF Alike, f

LEMMA TrackEndsKeeps ==
  ASSUME IInv, LoopOnly, UNCHANGED <<fifo, pending_event, pos>>,
         loop.pc = "do", NEW s \in Streams, TrackEnds(s)
  PROVE  EndStep /\ Safe'
<1> DEFINE last == valid_mask \subseteq {s}
           f == Cleared(s)
           b == last /\ f[s].partial
           v == IF last \/ stream[s].held = None THEN f[s].last_ret ELSE "OK"
           str == [f EXCEPT ![s].partial = b, ![s].last_ret = v]
<1>1. /\ f \in [Streams -> StreamType] /\ f[s].held = None
      /\ \A t \in Streams :
           /\ Alike(f[t], stream[t])
           /\ f[t].new_segment <=> stream[t].new_segment
           /\ f[t].held \in {None, stream[t].held}
  BY ClearedIs DEF IInv, Safe
<1>2. b \in BOOLEAN /\ v \in Flows
  BY <1>1, Zenon DEF StreamType, Flows
<1>3. /\ stream' = EndTable({s}, str) /\ pad' = EndPads({s}, str, pad)
      /\ valid_mask' = valid_mask \ {s}
      /\ new_segment_mask' = {t \in new_segment_mask : stream'[t].new_segment}
      /\ Return(IF last THEN "UNEXPECTED" ELSE "OK")
  BY Zenon DEF TrackEnds, SendEos, EndTable, EndPads, Ending
<1>4. Goto("top") /\ (running' <=> running /\ ~last) /\ running' \in BOOLEAN
  <2>1. running \in BOOLEAN
    BY DEF IInv, Safe, Flags
  <2> QED
    BY <1>3, <2>1 DEF Return
<1> HIDE DEF f, b, v
<1>5. /\ str \in [Streams -> StreamType]
      /\ \A t \in Streams : t # s => str[t] = f[t]
      /\ Alike(str[s], f[s]) /\ str[s].held = f[s].held
      /\ str[s].new_segment <=> f[s].new_segment
  <2> DEFINE r == [f[s] EXCEPT !.partial = b, !.last_ret = v]
  <2>1. f[s] \in StreamType
    BY <1>1
  <2>2. str = [f EXCEPT ![s] = r]
    BY <1>1, <2>1 DEF StreamType
  <2>3. r \in StreamType
    BY <1>2, <2>1, Zenon DEF StreamType
  <2>4. /\ Alike(r, f[s]) /\ r.held = f[s].held
        /\ r.new_segment <=> f[s].new_segment
    BY <2>1 DEF StreamType, Alike
  <2> HIDE DEF r
  <2>5. str \in [Streams -> StreamType] /\ str[s] = r
    BY <1>1, <2>2, <2>3
  <2> QED
    BY <1>1, <2>2, <2>4, <2>5
<1> HIDE DEF str
<1>6. \A t \in Streams :
        /\ Alike(str[t], stream[t])
        /\ str[t].new_segment <=> stream[t].new_segment
        /\ str[t].held \in {None, stream[t].held}
  BY <1>1, <1>5 DEF Alike
<1>7. pos' \in [Streams -> Places] /\ \A t \in Streams \ {s} : pos'[t] = pos[t]
  BY DEF IInv, Safe, Tables
<1> QED
  BY <1>1, <1>3, <1>4, <1>5, <1>6, <1>7, OneEnds

LEMMA ReadNoneKeeps ==
  ASSUME IInv, ReadNone
  PROVE  EndStep /\ Safe'
<1>1. LoopOnly /\ UNCHANGED <<pending_event, fifo>>
  BY Zenon DEF ReadNone, LoopOnly
<1>2. CASE ReadEnd /\ UNCHANGED pos
  <2>1. loop.pc = "do" /\ Choose \in Streams
    BY <1>2, ChooseStream DEF ReadEnd, Reading, IInv, Safe
  <2>2. EosAll \/ TrackEnds(Choose)
    BY <1>2 DEF ReadEnd
  <2> QED
    BY <1>1, <1>2, <2>1, <2>2, EosAllKeeps, TrackEndsKeeps
<1>3. CASE ReadFails /\ UNCHANGED pos
  BY <1>1, <1>3, EosAllKeeps DEF ReadFails, Reading
<1>4. CASE \E s \in Streams : ReadInvalid(s)
  <2>1. PICK s \in Streams : ReadInvalid(s)
    BY <1>4
  <2> DEFINE str == Cleared(s)
  <2>2. /\ loop.pc = "do" /\ pos' = [pos EXCEPT ![s] = Samples]
        /\ stream' = EndTable({s}, str) /\ pad' = EndPads({s}, str, pad)
        /\ valid_mask' = valid_mask \ {s}
        /\ new_segment_mask' = {t \in new_segment_mask : stream'[t].new_segment}
        /\ Return(IF valid_mask \subseteq {s} THEN "UNEXPECTED" ELSE "OK")
    BY <2>1, Zenon DEF ReadInvalid, Reading, SendEos, EndTable, EndPads, Ending
  <2>3. /\ str \in [Streams -> StreamType] /\ str[s].held = None
        /\ \A t \in Streams :
             /\ Alike(str[t], stream[t])
             /\ str[t].new_segment <=> stream[t].new_segment
             /\ str[t].held \in {None, stream[t].held}
    BY ClearedIs DEF IInv, Safe
  <2>4. /\ Goto("top") /\ (running' <=> running /\ ~(valid_mask \subseteq {s}))
        /\ running' \in BOOLEAN
    <3>1. running \in BOOLEAN
      BY DEF IInv, Safe, Flags
    <3> QED
      BY <2>2, <3>1 DEF Return
  <2>5. /\ pos' \in [Streams -> Places]
        /\ \A t \in Streams \ {s} : pos'[t] = pos[t]
    <3>1. pos \in [Streams -> Places] /\ Samples \in Places
      BY Numbers DEF IInv, Safe, Tables
    <3> HIDE DEF Places
    <3> QED
      BY <2>2, <3>1
  <2> HIDE DEF str
  <2> QED
    BY <1>1, <2>2, <2>3, <2>4, <2>5, OneEnds
<1> QED
  BY <1>2, <1>3, <1>4 DEF ReadNone
-------------------------------------------------------------------------------
(* A sample is pushed. *)

LEMMA AdvancedIs ==
  ASSUME Safe, loop.pc = "push", NEW s \in Streams, NEW ret \in Flows
  PROVE  /\ Advanced(s, ret) \in [Streams -> StreamType]
         /\ \A t \in Streams :
              /\ Alike(Advanced(s, ret)[t], stream[t])
              /\ Advanced(s, ret)[t].new_segment <=> stream[t].new_segment
              /\ Advanced(s, ret)[t].held = stream[t].held
<1> DEFINE n == loop.n + 1
           v == IF loop.from = "sample" THEN ret ELSE stream[s].last_ret
           f == [stream EXCEPT ![s].last_stop = n, ![s].last_ret = v]
<1>1. stream \in [Streams -> StreamType]
  BY DEF Safe, Tables
<1>2. n \in Nat
  <2>1. loop.n \in Number
    BY DEF Safe, Loop
  <2>2. loop.n \in Nat
    BY <2>1, Numbers
  <2> QED
    BY <2>2
<1>3. v \in Flows
  BY <1>1, Zenon DEF StreamType
<1>4. Advanced(s, ret) = f
  BY <1>1 DEF Advanced
<1> HIDE DEF n, v
<1>5. /\ f \in [Streams -> StreamType]
      /\ \A t \in Streams : t # s => f[t] = stream[t]
      /\ Alike(f[s], stream[s]) /\ f[s].held = stream[s].held
      /\ f[s].new_segment <=> stream[s].new_segment
  BY <1>1, <1>2, <1>3, AdvancedAt
<1> HIDE DEF f
<1>6. \A t \in Streams :
        /\ Alike(f[t], stream[t])
        /\ f[t].new_segment <=> stream[t].new_segment
        /\ f[t].held = stream[t].held
  BY <1>5 DEF Alike
<1> QED
  BY <1>4, <1>5, <1>6

LEMMA PushedEffect ==
  ASSUME Safe, loop.pc = "push", NEW ret,
         \/ loop.from = "drain" /\ Goto("drain") /\ UNCHANGED running
         \/ /\ loop.from = "queue" /\ Goto("top")
            /\ running' = (running /\ ret = "OK")
         \/ /\ loop.from = "sample" /\ Goto("top")
            /\ \E c : running' = (running /\ c = "OK")
  PROVE  /\ loop' \in LoopType /\ loop'.pc \in {"top", "drain"}
         /\ running' \in BOOLEAN /\ (running' => running)
         /\ config.limit > 0 /\ running' /\ loop'.pc # "drain" => ret = "OK"
<1>1. /\ running \in BOOLEAN
      /\ loop.from = "sample" => ~(config.limit > 0)
  <2>1. /\ running \in BOOLEAN
        /\ loop.from = "sample" => config.limit = 0
    BY DEF Safe, Flags, Loop
  <2> QED
    BY <2>1
<1>2. CASE loop.from = "drain" /\ Goto("drain") /\ UNCHANGED running
  BY <1>1, <1>2, GotoEffect
<1>3. CASE /\ loop.from = "queue" /\ Goto("top")
           /\ running' = (running /\ ret = "OK")
  <2>1. loop' \in LoopType /\ loop'.pc = "top"
    BY <1>3, GotoEffect
  <2>2. running' \in BOOLEAN /\ (running' => running /\ ret = "OK")
    BY <1>1, <1>3, Zenon
  <2> QED
    BY <2>1, <2>2
<1>4. CASE /\ loop.from = "sample" /\ Goto("top")
           /\ \E c : running' = (running /\ c = "OK")
  <2>1. loop' \in LoopType /\ loop'.pc = "top"
    BY <1>4, GotoEffect
  <2>2. running' \in BOOLEAN /\ (running' => running)
    BY <1>1, <1>4, Zenon
  <2> QED
    BY <1>1, <1>4, <2>1, <2>2
<1> QED
  BY <1>2, <1>3, <1>4

LEMMA PushUnexpectedKeeps ==
  ASSUME IInv, Push, NEW s \in Streams, s = loop.s, PushUnexpected(s)
  PROVE  EndStep /\ Safe'
<1> DEFINE E == {s}
           last == valid_mask \subseteq E
           ret == IF last THEN "UNEXPECTED" ELSE "OK"
           str == Advanced(s, ret)
<1>1. /\ LoopOnly /\ loop.pc = "push"
      /\ pos' = pos /\ fifo' = fifo /\ pending_event' = pending_event
  BY Zenon DEF Push, PushUnexpected, LoopOnly
<1>2. /\ Safe /\ state = "movie" /\ ~pending_event /\ pending_event \in BOOLEAN
      /\ pos \in [Streams -> Places] /\ E \in SUBSET Streams
  BY <1>1 DEF IInv, Safe, Loop, Tables, Flags
<1>3. /\ stream' = EndTable(E, str) /\ pad' = EndPads(E, str, pad)
      /\ valid_mask' = valid_mask \ E
      /\ new_segment_mask' = {t \in new_segment_mask : stream'[t].new_segment}
      /\ Pushed(s, ret)
  BY Zenon DEF PushUnexpected, SendEos, EndTable, EndPads, Ending
<1>4. ret \in Flows
  BY Zenon DEF Flows
<1>5. \/ loop.from = "drain" /\ Goto("drain") /\ UNCHANGED running
      \/ /\ loop.from = "queue" /\ Goto("top")
         /\ running' = (running /\ ret = "OK")
      \/ /\ loop.from = "sample" /\ Goto("top")
         /\ \E c : running' = (running /\ c = "OK")
  <2>1. loop.from \in {"sample", "queue", "drain"}
    BY <1>2 DEF Safe, Loop, LoopType
  <2> HIDE DEF ret
  <2> QED
    BY <1>3, <2>1, Zenon DEF Pushed, Return
<1>6. ret = "OK" => valid_mask \ E # {}
  OBVIOUS
<1> HIDE DEF ret
<1>7. /\ loop' \in LoopType /\ loop'.pc \in {"top", "drain"}
      /\ running' \in BOOLEAN
      /\ config.limit > 0 /\ running' /\ loop'.pc # "drain" => ret = "OK"
  BY <1>1, <1>2, <1>5, PushedEffect
<1>8. /\ str \in [Streams -> StreamType]
      /\ \A t \in Streams :
           /\ Alike(str[t], stream[t])
           /\ str[t].new_segment <=> stream[t].new_segment
           /\ str[t].held \in {None, stream[t].held}
  BY <1>1, <1>2, <1>4, AdvancedIs
<1> HIDE DEF E, str
<1>9. loop.s \in E
  BY DEF E
<1> QED
  BY <1>1, <1>2, <1>3, <1>6, <1>7, <1>8, <1>9, EndStepIs
\* Follows does not depend on what the loop changes.
LEMMA FollowsKept ==
  ASSUME UNCHANGED config
  PROVE  \A m, n : Follows(m, n)' <=> Follows(m, n)
BY Zenon DEF Follows, Gaps

LEMMA PushTakenKeeps ==
  ASSUME IInv, Push, NEW s \in Streams, s = loop.s, PushTaken(s)
  PROVE  IInv' /\ (promised => \A t \in Streams : Proper(t))
<1> DEFINE str == Advanced(s, "OK")
<1>1. /\ LoopOnly /\ loop.pc = "push"
      /\ UNCHANGED <<pos, pending_event, valid_mask, new_segment_mask>>
  BY Zenon DEF Push, PushTaken, LoopOnly
<1>2. /\ Safe /\ state = "movie" /\ ~pending_event /\ "OK" \in Flows
      /\ loop.n \in OrNone /\ flushing \in BOOLEAN
  BY <1>1 DEF IInv, Safe, Loop, LoopType, Flows, Flags
<1>3. stream' = str /\ Pushed(s, "OK")
  BY DEF PushTaken
<1>4. /\ str \in [Streams -> StreamType]
      /\ \A t \in Streams :
           /\ Alike(str[t], stream[t])
           /\ str[t].new_segment <=> stream[t].new_segment
           /\ str[t].held = stream[t].held
  BY <1>1, <1>2, AdvancedIs
<1> HIDE DEF str
<1>5. /\ pad' \in [Streams -> PadType] /\ fifo' \in [Streams -> Fill]
      /\ pad'[s] = IF flushing THEN pad[s] ELSE [pad[s] EXCEPT !.last = loop.n]
      /\ \A t \in Streams : t # s => pad'[t] = pad[t]
  <2>1. pad \in [Streams -> PadType] /\ fifo \in [Streams -> Fill]
    BY <1>2 DEF Safe, Tables
  <2>2. CASE flushing
    BY <2>1, <2>2 DEF PushTaken
  <2>3. CASE ~flushing
    <3> DEFINE r == [pad[s] EXCEPT !.last = loop.n]
    <3>1. r \in PadType
      BY <1>2, <2>1, Zenon DEF PadType
    <3>2. fifo[s] + 1 \in Fill
      BY <2>1, <2>3, DemuxerAssumption DEF Push, Fill
    <3>3. fifo' = [fifo EXCEPT ![s] = fifo[s] + 1] /\ pad' = [pad EXCEPT ![s] = r]
      BY <2>1, <2>3 DEF PushTaken
    <3>4. pad' \in [Streams -> PadType] /\ pad'[s] = r
          /\ \A t \in Streams : t # s => pad'[t] = pad[t]
      <4> HIDE DEF r
      <4> QED
        BY <2>1, <3>1, <3>3
    <3>5. fifo' \in [Streams -> Fill]
      <4> HIDE DEF Fill
      <4> QED
        BY <2>1, <3>2, <3>3
    <3> QED
      BY <2>3, <3>4, <3>5
  <2> QED
    BY <2>2, <2>3
<1>6. /\ loop' \in LoopType /\ loop'.pc \in {"top", "drain"}
      /\ running' \in BOOLEAN /\ (running' => running)
  <2>1. loop.from \in {"sample", "queue", "drain"}
    BY <1>2 DEF Safe, Loop, LoopType
  <2>2. \/ loop.from = "drain" /\ Goto("drain") /\ UNCHANGED running
        \/ /\ loop.from = "queue" /\ Goto("top")
           /\ running' = (running /\ "OK" = "OK")
        \/ /\ loop.from = "sample" /\ Goto("top")
           /\ \E c : running' = (running /\ c = "OK")
    BY <1>3, <2>1, Zenon DEF Pushed, Return
  <2> QED
    BY <1>1, <1>2, <2>2, PushedEffect
<1>7. Safe'
  <2>1. Tables'
    BY <1>1, <1>2, <1>3, <1>4, <1>5 DEF Safe, Tables
  <2>2. Masks'
    <3>1. Valid' = Valid /\ Pending' = Pending
      BY <1>3, <1>4 DEF Valid, Pending, Alike
    <3> QED
      BY <1>1, <1>2, <1>3, <1>4, <3>1 DEF Safe, Masks, LoopOnly
  <2>3. Reads'
    BY <1>1, <1>2, <1>3, <1>4 DEF Safe, Reads, Alike, LoopOnly
  <2>4. pending_event' = FALSE
    BY <1>1, <1>2
  <2> QED
    BY <1>1, <1>2, <1>6, <2>1, <2>2, <2>3, <2>4, LoopOnlySafe
<1>8. \A t \in Streams : IF t = s THEN Delivers(t) ELSE Stays(t)
  BY <1>1, <1>3, <1>4, <1>5 DEF Delivers, Stays, Alike, InFlight
<1>9. PadsAgree' /\ (promised => \A t \in Streams : Proper(t))
  BY <1>1, <1>2, <1>8, PadStep
<1>10. SomeLeft' /\ Sending'
  BY <1>1, <1>6 DEF IInv, SomeLeft, Sending, LoopOnly
<1>11. ASSUME Seen', NEW t \in Streams, stream'[t].valid, ~stream'[t].new_segment
       PROVE  Chain(t)'
  <2>1. Seen /\ UNCHANGED config /\ ~flushing
    BY <1>1, <1>11 DEF LoopOnly, Seen
  <2>2. /\ Chain(t) /\ ~InFlight(t)'
        /\ stream'[t].queue = stream[t].queue
        /\ stream'[t].block => stream[t].block
        /\ pos'[t] = pos[t]
    BY <1>1, <1>3, <1>4, <1>6, <1>11, <2>1 DEF IInv, InOrder, Alike, InFlight
  <2>3. CASE t # s
    BY <1>1, <1>5, <2>1, <2>2, <2>3, ChainRests DEF Rests, InFlight
  <2>4. CASE t = s
    <3>1. pad'[t].last = loop.n /\ InFlight(t)
      BY <1>1, <1>2, <1>5, <2>1, <2>4 DEF InFlight, Safe, Tables, PadType
    <3>2. Reached(t)' = Reached(t) /\ Newest(t)' = Newest(t)
      BY <2>2, <3>1 DEF Reached, Newest
    <3>3. \A m, n : Follows(m, n)' <=> Follows(m, n)
      BY <2>1, FollowsKept
    <3> QED
      BY <2>2, <3>2, <3>3 DEF Chain
  <2> QED
    BY <2>3, <2>4
<1>12. InOrder'
  BY <1>11 DEF InOrder
<1> QED
  BY <1>7, <1>9, <1>10, <1>12 DEF IInv

LEMMA DrainEnds ==
  ASSUME IInv, Drain, valid_mask = {} \/ stream[Choose].queue = <<>>
  PROVE  EndStep /\ Safe'
<1>1. /\ LoopOnly /\ loop.pc = "drain"
      /\ pos' = pos /\ fifo' = fifo /\ pending_event' = pending_event
  BY Zenon DEF Drain, LoopOnly
<1>2. /\ Safe /\ state = "movie" /\ ~pending_event /\ pending_event \in BOOLEAN
      /\ pos \in [Streams -> Places] /\ running \in BOOLEAN /\ loop \in LoopType
      /\ stream \in [Streams -> StreamType]
  BY <1>1 DEF IInv, Safe, Loop, Tables, Flags
<1>3. CASE valid_mask = {}
  <2>1. Return("UNEXPECTED") /\ UNCHANGED <<stream, valid_mask,
                                            new_segment_mask, pad>>
    BY <1>3 DEF Drain
  <2>2. /\ loop' \in LoopType /\ loop'.pc = "top"
        /\ running' \in BOOLEAN /\ ~running'
    BY <1>2, <2>1, ReturnEffect
  <2> QED
    BY <1>1, <1>2, <2>1, <2>2, StillStep
<1>4. CASE valid_mask # {}
  <2> DEFINE s == Choose
             E == {s}
  <2>1. E \in SUBSET Streams
    BY <1>2, ChooseStream DEF Safe
  <2>2. SendEos(E, stream, pad) /\ loop' = loop /\ running' = running
    BY <1>4 DEF Drain
  <2> HIDE DEF s
  <2>3. /\ stream' = EndTable(E, stream) /\ pad' = EndPads(E, stream, pad)
        /\ valid_mask' = valid_mask \ E
        /\ new_segment_mask' = {t \in new_segment_mask : stream'[t].new_segment}
    BY <2>2, Zenon DEF SendEos, EndTable, EndPads, Ending
  <2>4. \A t \in Streams :
          /\ Alike(stream[t], stream[t])
          /\ stream[t].new_segment <=> stream[t].new_segment
          /\ stream[t].held \in {None, stream[t].held}
    BY DEF Alike
  <2>5. loop' \in LoopType /\ loop'.pc = "drain" /\ running' \in BOOLEAN
        /\ pending_event' = FALSE
    BY <1>1, <1>2, <2>2
  <2> HIDE DEF E
  <2> QED
    BY <1>1, <1>2, <2>1, <2>3, <2>4, <2>5, EndStepIs
<1> QED
  BY <1>3, <1>4
-------------------------------------------------------------------------------
(* A sample leaves its queue, or is read. *)

\* The head of the queue of s is sent next.
Popped(s) ==
  /\ LoopOnly /\ state = "movie" /\ ~pending_event
  /\ loop.pc # "push"
  /\ stream[s].queue # <<>>
  /\ promised => stream[s].valid
  /\ loop' \in [pc : {"push"}, s : {s}, n : {Head(stream[s].queue)},
                from : {"queue", "drain"}]
  /\ stream' = [stream EXCEPT ![s].queue = Tail(@)]
  /\ UNCHANGED <<running, valid_mask, new_segment_mask, pending_event, pos, pad,
                 fifo>>
  /\ promised /\ config.limit > 0 /\ running => valid_mask # {}

LEMMA PoppedKeeps ==
  ASSUME IInv, NEW s \in Streams, Popped(s)
  PROVE  IInv' /\ (promised => \A t \in Streams : Proper(t))
<1> DEFINE q == stream[s].queue
           rest == Tail(q)
<1>1. /\ Safe /\ stream \in [Streams -> StreamType] /\ running \in BOOLEAN
      /\ pending_event \in BOOLEAN /\ q \in Seq(Number) /\ q # <<>>
  BY DEF IInv, Safe, Tables, Flags, Popped, StreamType
<1>2. /\ rest \in Seq(Number) /\ Head(q) \in Number /\ Head(q) = q[1]
      /\ Len(q) \in Nat \ {0} /\ Len(rest) = Len(q) - 1
      /\ \A i \in 1 .. Len(rest) : rest[i] = q[i + 1]
  BY <1>1
<1>3. /\ stream' \in [Streams -> StreamType]
      /\ \A t \in Streams : t # s => stream'[t] = stream[t]
      /\ stream'[s].valid <=> stream[s].valid
      /\ stream'[s].pending_eos <=> stream[s].pending_eos
      /\ stream'[s].block <=> stream[s].block
      /\ stream'[s].held = stream[s].held
      /\ stream'[s].queue = rest
      /\ stream'[s].new_segment <=> stream[s].new_segment
  <2>1. stream' = [stream EXCEPT ![s].queue = rest]
    BY <1>1 DEF Popped
  <2> HIDE DEF rest
  <2> QED
    BY <1>1, <1>2, <2>1, QueueAt
<1>4. ~stream[s].new_segment /\ config.limit > 0
  BY <1>1 DEF Safe, Reads
<1>5. /\ loop'.pc = "push" /\ loop'.s = s /\ loop'.n = Head(q)
      /\ loop'.from # "sample" /\ loop' \in LoopType
  <2> DEFINE h == Head(q)
  <2>1. h \in OrNone
    BY <1>2, Numbers
  <2>2. /\ loop' \in [pc : {"push"}, s : {s}, n : {h}, from : {"queue", "drain"}]
    BY DEF Popped
  <2> HIDE DEF h
  <2>3. loop' \in LoopType
    BY <2>1, <2>2, Zenon DEF LoopType
  <2>4. /\ loop'.pc = "push" /\ loop'.s = s /\ loop'.n = h
        /\ loop'.from # "sample"
    BY <2>2
  <2> QED
    BY <2>3, <2>4 DEF h
<1> HIDE DEF q, rest
<1>6. Safe'
  <2>1. Tables'
    BY <1>1, <1>3 DEF Safe, Tables, Popped
  <2>2. Masks'
    <3>1. Valid' = Valid /\ Pending' = Pending
      BY <1>3 DEF Valid, Pending
    <3>2. \A t \in Streams : stream'[t].new_segment <=> stream[t].new_segment
      BY <1>3
    <3> QED
      BY <1>1, <3>1, <3>2 DEF Safe, Masks, LoopOnly, Popped
  <2>3. Reads'
    BY <1>1, <1>3, <1>4 DEF Safe, Reads, LoopOnly, Popped
  <2>4. pending_event' = FALSE /\ running' \in BOOLEAN /\ state = "movie" /\ LoopOnly
    BY <1>1 DEF Popped
  <2>5. loop'.n \in Number /\ (loop'.from = "sample" <=> config.limit = 0)
    BY <1>2, <1>4, <1>5
  <2> QED
    BY <1>1, <1>5, <2>1, <2>2, <2>3, <2>4, <2>5, LoopOnlySafe
<1>7. \A t \in Streams : Stays(t)
  BY <1>3 DEF Stays, Popped
<1>8. PadsAgree' /\ (promised => \A t \in Streams : Proper(t))
  BY <1>7, PadStep DEF Popped
<1>9. SomeLeft'
  BY <1>5 DEF SomeLeft, Popped, LoopOnly
<1>10. Sending'
  BY <1>3, <1>4, <1>5 DEF Sending, Popped, LoopOnly
<1>11. ASSUME Seen', NEW t \in Streams, stream'[t].valid, ~stream'[t].new_segment
       PROVE  Chain(t)'
  <2>1. /\ Seen /\ UNCHANGED config /\ pad' = pad /\ pos' = pos
        /\ loop.pc # "push"
    BY <1>11 DEF Popped, LoopOnly, Seen
  <2>2. Chain(t) /\ ~InFlight(t)
    BY <1>3, <1>7, <1>11, <2>1 DEF IInv, InOrder, Stays, InFlight
  <2>3. CASE t # s
    BY <1>3, <1>5, <2>1, <2>2, <2>3, ChainRests DEF Rests, InFlight
  <2>4. CASE t = s
    <3>1. /\ InFlight(t)' /\ Reached(t)' = q[1] /\ Reached(t) = pad[t].last
          /\ loop'.n = q[1]
      BY <1>2, <1>5, <2>2, <2>4 DEF InFlight, Reached
    <3>2. stream[t].queue = q /\ stream'[t].queue = rest
      BY <1>3, <2>4 DEF q
    <3>3. Newest(t) = q[Len(q)] /\ Newest(t)' = q[Len(q)]
      <4>1. CASE rest = <<>>
        <5>1. Len(q) = 1
          BY <1>2, <4>1
        <5> QED
          BY <1>1, <3>1, <3>2, <4>1, <5>1 DEF Newest
      <4>2. CASE rest # <<>>
        <5>1. Len(rest) \in 1 .. Len(rest) /\ Len(rest) + 1 = Len(q)
          BY <1>2, <4>2
        <5>2. rest[Len(rest)] = q[Len(q)]
          BY <1>2, <5>1
        <5> QED
          BY <1>1, <3>2, <4>2, <5>2 DEF Newest
      <4> QED
        BY <4>1, <4>2
    <3>4. /\ Follows(pad[t].last, q[1])
          /\ \A i \in 1 .. Len(q) - 1 : Follows(q[i], q[i + 1])
          /\ Follows(q[Len(q)], pos[t])
          /\ ~stream[t].block
      <4>1. q[Len(q)] \in Number
        BY <1>1, <1>2
      <4>2. q[Len(q)] # None
        BY <4>1, Numbers
      <4> QED
        BY <1>1, <2>2, <3>1, <3>2, <3>3, <4>2 DEF Chain
    <3>5. rest # <<>> => Follows(q[1], rest[1])
      <4>1. SUFFICES ASSUME rest # <<>>
                     PROVE  Follows(q[1], rest[1])
        OBVIOUS
      <4>2. 1 \in 1 .. Len(rest) /\ 1 \in 1 .. Len(q) - 1
        BY <1>2, <4>1
      <4> QED
        BY <1>2, <3>4, <4>2
    <3>6. \A i \in 1 .. Len(rest) - 1 : Follows(rest[i], rest[i + 1])
      <4>1. TAKE i \in 1 .. Len(rest) - 1
      <4>2. /\ i + 1 \in 1 .. Len(q) - 1 /\ i \in 1 .. Len(rest)
            /\ i + 1 \in 1 .. Len(rest)
        BY <1>2, <4>1
      <4>3. rest[i] = q[i + 1] /\ rest[i + 1] = q[i + 1 + 1]
        BY <1>2, <4>2
      <4> QED
        BY <3>4, <4>2, <4>3
    <3>7. \A m, n : Follows(m, n)' <=> Follows(m, n)
      BY <2>1, FollowsKept
    <3>8. ~stream'[t].block
      BY <1>3, <2>4, <3>4
    <3> QED
      BY <2>1, <2>4, <3>1, <3>2, <3>3, <3>4, <3>5, <3>6, <3>7, <3>8 DEF Chain
  <2> QED
    BY <2>3, <2>4
<1>12. InOrder'
  BY <1>11 DEF InOrder
<1> QED
  BY <1>6, <1>8, <1>9, <1>10, <1>12 DEF IInv
\* The parser goes on from k to n.
LEMMA FollowsOn ==
  ASSUME NEW m \in OrNone, NEW k \in Places, NEW n \in Places, Follows(m, k),
         k <= n, config.trick \/ n = k
  PROVE  Follows(m, n)
BY Numbers, DemuxerAssumption DEF Follows, Gaps, Places, OrNone, None

LEMMA NewestType ==
  ASSUME Tables, loop \in LoopType, NEW t \in Streams
  PROVE  Reached(t) \in OrNone /\ Newest(t) \in OrNone
<1> DEFINE q == stream[t].queue
<1>1. /\ pad[t].last \in OrNone /\ loop.n \in OrNone /\ q \in Seq(Number)
  BY DEF Tables, LoopType, PadType, StreamType
<1>2. Reached(t) \in OrNone
  BY <1>1, Zenon DEF Reached
<1>3. q # <<>> => q[Len(q)] \in OrNone
  <2>1. SUFFICES ASSUME q # <<>>
                 PROVE  q[Len(q)] \in OrNone
    OBVIOUS
  <2>2. Len(q) \in 1 .. Len(q)
    BY <1>1, <2>1
  <2>3. q[Len(q)] \in Number
    BY <1>1, <2>2
  <2> QED
    BY <2>3, Numbers
<1> QED
  BY <1>2, <1>3, Zenon DEF Newest

LEMMA FragmentKeeps ==
  ASSUME IInv, NEW s \in Streams, NEW n \in Number, Fragment(s, n)
  PROVE  IInv' /\ (promised => \A t \in Streams : Proper(t))
<1>1. /\ LoopOnly /\ UNCHANGED <<loop, running, valid_mask, new_segment_mask,
                                 pending_event, pad, fifo>>
      /\ NextSample(s, n)
  BY Zenon DEF Fragment, LoopOnly, threadVars, masks, downstream
<1>2. /\ Safe /\ state = "movie" /\ ~pending_event /\ loop \in LoopType
      /\ stream \in [Streams -> StreamType] /\ pos \in [Streams -> Places]
      /\ loop.pc = "do"
  BY <1>1 DEF IInv, Safe, Tables, Loop, NextSample, Reading
<1>3. /\ Joined(s, n) = n /\ pos[s] <= n /\ (config.trick \/ n = pos[s])
      /\ n \in Places /\ n \in OrNone
  BY <1>1, <1>2, NextSampleIs, Numbers
<1>4. /\ stream' = [stream EXCEPT ![s].partial = TRUE, ![s].held = n]
      /\ pos' = [pos EXCEPT ![s] = n]
  BY <1>3 DEF Fragment
<1>5. /\ stream' \in [Streams -> StreamType]
      /\ \A t \in Streams : t # s => stream'[t] = stream[t]
      /\ Alike(stream'[s], stream[s]) /\ stream'[s].held = n
      /\ stream'[s].new_segment <=> stream[s].new_segment
  <2> DEFINE g == [stream EXCEPT ![s].partial = TRUE, ![s].held = n]
  <2>1. /\ g \in [Streams -> StreamType]
        /\ \A t \in Streams : t # s => g[t] = stream[t]
        /\ Alike(g[s], stream[s]) /\ g[s].held = n
        /\ g[s].new_segment <=> stream[s].new_segment
    BY <1>2, <1>3, PartAt, Zenon
  <2>2. stream' = g
    BY <1>4
  <2> HIDE DEF g
  <2> QED
    BY <2>1, <2>2
<1>6. /\ pos' \in [Streams -> Places] /\ pos'[s] = n
      /\ \A t \in Streams : t # s => pos'[t] = pos[t]
  <2> HIDE DEF Places
  <2> QED
    BY <1>2, <1>3, <1>4
<1>7. \A t \in Streams :
        /\ Alike(stream'[t], stream[t])
        /\ stream'[t].new_segment <=> stream[t].new_segment
  BY <1>5 DEF Alike
<1>8. Safe'
  <2>1. Tables'
    BY <1>1, <1>2, <1>5, <1>6 DEF Safe, Tables
  <2>2. Masks'
    <3>1. Valid' = Valid /\ Pending' = Pending
      BY <1>7 DEF Valid, Pending, Alike
    <3> QED
      BY <1>1, <1>2, <1>7, <3>1 DEF Safe, Masks, LoopOnly
  <2>3. Reads'
    BY <1>1, <1>2, <1>5, <1>6, <1>7 DEF Safe, Reads, Alike, LoopOnly
  <2>4. /\ pending_event' = FALSE /\ running' \in BOOLEAN /\ loop' \in LoopType
        /\ loop'.pc = "do"
    BY <1>1, <1>2 DEF Safe, Flags
  <2> QED
    BY <1>1, <1>2, <2>1, <2>2, <2>3, <2>4, LoopOnlySafe
<1>9. \A t \in Streams : Stays(t)
  BY <1>1, <1>7 DEF Stays, Alike
<1>10. PadsAgree' /\ (promised => \A t \in Streams : Proper(t))
  BY <1>1, <1>2, <1>9, PadStep
<1>11. SomeLeft' /\ Sending'
  BY <1>1, <1>2 DEF IInv, SomeLeft, Sending, LoopOnly
<1>12. ASSUME Seen', NEW t \in Streams, stream'[t].valid, ~stream'[t].new_segment
       PROVE  Chain(t)'
  <2>1. Seen /\ UNCHANGED config /\ ~InFlight(t) /\ ~InFlight(t)'
    BY <1>1, <1>2, <1>12 DEF LoopOnly, Seen, InFlight
  <2>2. Chain(t)
    BY <1>9, <1>12, <2>1 DEF IInv, InOrder, Stays
  <2>3. CASE t # s
    BY <1>1, <1>5, <1>6, <2>1, <2>2, <2>3, ChainRests DEF Rests
  <2>4. CASE t = s
    <3>1. /\ Reached(t)' = Reached(t) /\ Newest(t)' = Newest(t)
      BY <1>1, <1>7, <2>1 DEF Reached, Newest, Alike
    <3>2. Newest(t) \in OrNone /\ pos[t] \in Places
      BY <1>2, NewestType DEF Safe
    <3>3. Follows(Newest(t), n)
      BY <1>3, <2>2, <2>4, <3>2, FollowsOn DEF Chain
    <3>4. \A m, k : Follows(m, k)' <=> Follows(m, k)
      BY <2>1, FollowsKept
    <3> QED
      BY <1>6, <1>7, <2>1, <2>2, <2>4, <3>1, <3>3, <3>4 DEF Chain, Alike
  <2> QED
    BY <2>3, <2>4
<1>13. InOrder'
  BY <1>12 DEF InOrder
<1> QED
  BY <1>8, <1>10, <1>11, <1>13 DEF IInv

LEMMA DroppedKeeps ==
  ASSUME IInv, NEW s \in Streams, NEW n \in Number, Dropped(s, n)
  PROVE  IInv' /\ (promised => \A t \in Streams : Proper(t))
<1>1. Safe' /\ Safe /\ LoopOnly /\ state = "movie" /\ ~pending_event
  BY DroppedSafe DEF IInv, Safe, Loop, Dropped
<1>2. \A t \in Streams : IF t = s THEN Begins(t) ELSE Stays(t) /\ Rests(t)
  BY DEF Dropped, Begins, Stays, Rests, Alike
<1>3. PadsAgree' /\ (promised => \A t \in Streams : Proper(t))
  BY <1>1, <1>2, PadStep
<1>4. SomeLeft' /\ Sending'
  BY <1>1 DEF IInv, SomeLeft, Sending, LoopOnly, Dropped
<1>5. ASSUME Seen', NEW t \in Streams, stream'[t].valid, ~stream'[t].new_segment
      PROVE  Chain(t)'
  <2>1. Seen /\ UNCHANGED config /\ ~InFlight(t) /\ ~InFlight(t)' /\ ~flushing
    BY <1>5 DEF LoopOnly, Seen, InFlight, Dropped
  <2>2. CASE t # s
    <3>1. Chain(t)
      BY <1>2, <1>5, <2>1, <2>2 DEF IInv, InOrder, Stays
    <3> QED
      BY <1>2, <2>1, <2>2, <3>1, ChainRests
  <2>3. CASE t = s
    <3>1. /\ stream[t].valid /\ stream'[t].queue = stream[t].queue
          /\ stream'[t].block => stream[t].block
          /\ pos'[t] = n + 1 /\ pos[t] <= n /\ pos[t] \in Places
          /\ n \in Places /\ n + 1 \in Places
          /\ stream[t].block \/ config.drop
      <4>1. n \in Places /\ n + 1 \in Places
        BY DemuxerAssumption DEF Number, Places
      <4> QED
        BY <1>1, <1>5, <2>3, <4>1 DEF Dropped, Alike, Safe, Tables
    <3>2. \A m, k : Follows(m, k)' <=> Follows(m, k)
      BY <2>1, FollowsKept
    <3>3. Follows(None, n + 1)
      BY Numbers DEF Follows, None, Number
    <3>4. CASE stream[t].new_segment
      <4>1. stream[t].queue = <<>>
        BY <1>1, <3>4 DEF Safe, Reads
      <4>2. pad'[t].last = None
        BY <2>1, <2>3, <3>4 DEF Dropped, Opened
      <4>3. Newest(t)' = None
        BY <2>1, <3>1, <4>1, <4>2 DEF Newest, Reached
      <4>4. Len(<<>>) = 0 /\ 1 .. Len(<<>>) - 1 = {}
        OBVIOUS
      <4> QED
        BY <2>1, <3>1, <3>2, <3>3, <4>1, <4>3, <4>4 DEF Chain
    <3>5. CASE ~stream[t].new_segment
      <4>1. Chain(t) /\ pad'[t] = pad[t]
        BY <2>1, <2>3, <3>1, <3>5 DEF IInv, InOrder, Dropped, Opened
      <4>2. Reached(t)' = Reached(t) /\ Newest(t)' = Newest(t)
        BY <2>1, <3>1, <4>1 DEF Reached, Newest
      <4>3. Newest(t) \in OrNone
        BY <1>1, NewestType DEF Safe, Loop
      <4>4. Follows(Newest(t), n + 1)
        <5>1. CASE stream[t].block
          BY <3>3, <4>1, <5>1 DEF Chain
        <5>2. CASE config.drop
          BY <3>1, <4>1, <4>3, <5>2, Numbers, DemuxerAssumption
             DEF Chain, Follows, Gaps, Places, OrNone, None
        <5> QED
          BY <3>1, <5>1, <5>2
      <4> QED
        BY <2>1, <3>1, <3>2, <4>1, <4>2, <4>4 DEF Chain
    <3> QED
      BY <3>4, <3>5
  <2> QED
    BY <2>2, <2>3
<1>6. InOrder'
  BY <1>5 DEF InOrder
<1> QED
  BY <1>1, <1>3, <1>4, <1>6 DEF IInv
LEMMA TakenSafe ==
  ASSUME Safe, NEW s \in Streams, NEW n \in Number, Taken(s, n)
  PROVE  Safe'
<1>1. /\ stream \in [Streams -> StreamType] /\ config.limit \in Nat
      /\ state = "movie" /\ ~pending_event /\ Masks /\ Reads
      /\ pending_event \in BOOLEAN
  BY DEF Safe, Tables, Flags, ConfigType, Loop, Taken
<1> DEFINE E == Late0(s)
<1>2. \A t \in Streams :
        /\ stream'[t].valid <=> stream[t].valid /\ t \notin E
        /\ stream'[t].pending_eos <=> stream[t].pending_eos
        /\ stream'[t].new_segment => stream[t].new_segment
        /\ t # s => /\ stream'[t].queue = stream[t].queue
                    /\ stream'[t].held = stream[t].held /\ pos'[t] = pos[t]
  <2>1. TAKE t \in Streams
  <2>2. CASE t = s
    BY <2>2 DEF Taken
  <2>3. CASE t # s /\ t \in E
    <3>1. stream'[t] = Ending(stream[t]) /\ pos'[t] = pos[t]
      BY <2>3 DEF Taken
    <3> QED
      BY <1>1, <2>3, <3>1, EndingType
  <2>4. CASE t # s /\ t \notin E
    <3>1. stream'[t] = stream[t] /\ pos'[t] = pos[t]
      BY <2>4 DEF Taken
    <3> QED
      BY <2>4, <3>1
  <2> QED
    BY <2>2, <2>3, <2>4
<1>3. Masks'
  <2>1. Valid' = Valid \ E /\ Pending' = Pending
    BY <1>2 DEF Valid, Pending
  <2>2. /\ state' = state /\ pending_event' = pending_event
        /\ valid_mask' = valid_mask \ E
        /\ new_segment_mask' = {t \in new_segment_mask : stream'[t].new_segment}
    BY DEF Taken, LoopOnly
  <2> QED
    BY <1>1, <2>1, <2>2 DEF Masks
<1>4. Reads'
  <2>1. config' = config
    BY DEF Taken, LoopOnly
  <2>2. stream'[s].held = None /\ ~stream'[s].new_segment
    BY DEF Taken
  <2>3. stream'[s].queue # <<>> => config.limit > 0
    BY <1>1 DEF Taken, Reads
  <2> QED
    BY <1>1, <1>2, <2>1, <2>2, <2>3 DEF Reads
<1>5. /\ loop' \in LoopType /\ running' \in BOOLEAN /\ LoopOnly
      /\ loop'.pc \in {"top", "push"} /\ pending_event' = FALSE /\ Tables'
      /\ loop'.pc = "push" => /\ loop'.n \in Number
                              /\ loop'.from = "sample" <=> config.limit = 0
  BY <1>1 DEF Taken
<1> QED
  BY <1>1, <1>3, <1>4, <1>5, LoopOnlySafe

LEMMA TakenKeeps ==
  ASSUME IInv, NEW s \in Streams, NEW n \in Number, Taken(s, n)
  PROVE  IInv' /\ (promised => \A t \in Streams : Proper(t))
<1>1. /\ Safe' /\ Safe /\ LoopOnly /\ state = "movie" /\ ~pending_event
      /\ stream \in [Streams -> StreamType] /\ config.limit \in Nat
  BY TakenSafe DEF IInv, Safe, Loop, Taken, Tables, Flags, ConfigType
<1>2. ASSUME NEW t \in Streams, t # s, t \in Late0(s)
      PROVE  Finishes(t)
  <2>1. /\ stream'[t] = Ending(stream[t])
        /\ pad'[t] = IF t \in Late0(s) /\ ~flushing
                     THEN [Opened(stream[t], pad[t]) EXCEPT !.eos = TRUE]
                     ELSE pad[t]
    BY <1>2 DEF Taken
  <2>2. ~stream'[t].valid /\ ~stream'[t].new_segment
    BY <1>1, <2>1, EndingType
  <2> QED
    BY <1>2, <2>1, <2>2, Zenon DEF Finishes
<1>3. ASSUME NEW t \in Streams, t # s, t \notin Late0(s)
      PROVE  Stays(t) /\ Rests(t)
  BY <1>3 DEF Taken, Stays, Rests
<1>4. Begins(s)
  BY DEF Taken, Begins
<1>5. PadsAgree' /\ (promised => \A t \in Streams : Proper(t))
  BY <1>1, <1>2, <1>3, <1>4, PadStep
<1>6. SomeLeft'
  <2>1. s \in valid_mask'
    BY <1>1 DEF Safe, Masks, Valid, Taken
  <2> QED
    BY <2>1 DEF SomeLeft
<1>7. Sending'
  BY DEF Sending, Taken
<1>8. ASSUME Seen', NEW t \in Streams, stream'[t].valid, ~stream'[t].new_segment
      PROVE  Chain(t)'
  <2>1. Seen /\ UNCHANGED config /\ ~InFlight(t) /\ ~flushing
    BY <1>8 DEF LoopOnly, Seen, InFlight, Taken
  <2>2. CASE t # s
    <3>1. t \notin Late0(s)
      BY <1>2, <1>8, <2>2 DEF Finishes
    <3>2. Chain(t)
      BY <1>3, <1>8, <2>1, <2>2, <3>1 DEF IInv, InOrder, Stays
    <3>3. ~InFlight(t)'
      BY <1>1, <2>2 DEF Taken, InFlight
    <3> QED
      BY <1>3, <2>1, <2>2, <3>1, <3>2, <3>3, ChainRests
  <2>3. CASE t = s
    <3> DEFINE q == stream[t].queue
               r == stream'[t].queue
               m == IF q = <<>> THEN pad'[t].last ELSE q[Len(q)]
    <3>1. /\ q \in Seq(Number) /\ stream[t].valid
          /\ r = IF config.limit = 0 THEN q ELSE Append(q, n)
          /\ ~stream'[t].block
          /\ pos'[t] = n + 1 /\ pos[t] <= n /\ pos[t] \in Places
          /\ n \in Places /\ (config.trick \/ n = pos[t])
          /\ pad[t] \in PadType
      <4>1. n \in Places
        BY DemuxerAssumption DEF Number, Places
      <4> QED
        BY <1>1, <2>3, <4>1 DEF Taken, Safe, Tables, StreamType
    <3>2. \A k, l : Follows(k, l)' <=> Follows(k, l)
      BY <2>1, FollowsKept
    <3>3. Follows(None, n) /\ Follows(n, n + 1)
      BY Numbers, DemuxerAssumption DEF Follows, None, Number
    <3>4. /\ Follows(m, n)
          /\ q # <<>> => Follows(pad'[t].last, q[1])
          /\ \A i \in 1 .. Len(q) - 1 : Follows(q[i], q[i + 1])
      <4>1. CASE stream[t].new_segment
        <5>1. q = <<>>
          BY <1>1, <4>1 DEF Safe, Reads
        <5>2. pad'[t].last = None
          BY <2>1, <2>3, <4>1 DEF Taken, Opened
        <5>3. Len(<<>>) = 0 /\ 1 .. Len(<<>>) - 1 = {}
          OBVIOUS
        <5> QED
          BY <3>3, <5>1, <5>2, <5>3
      <4>2. CASE ~stream[t].new_segment
        <5>1. Chain(t) /\ pad'[t] = pad[t]
          BY <2>1, <2>3, <3>1, <4>2 DEF IInv, InOrder, Taken, Opened
        <5>2. Newest(t) = m /\ Reached(t) = pad'[t].last
          BY <2>1, <5>1 DEF Newest, Reached
        <5>3. m \in OrNone
          BY <1>1, <5>2, NewestType DEF Safe, Loop
        <5>4. Follows(m, n)
          BY <3>1, <5>1, <5>2, <5>3, FollowsOn DEF Chain
        <5> QED
          BY <5>1, <5>2, <5>4 DEF Chain
      <4> QED
        BY <4>1, <4>2
    <3>5. CASE config.limit = 0
      <4>1. q = <<>>
        BY <1>1, <3>5 DEF Safe, Reads
      <4>2. /\ r = <<>> /\ InFlight(t)' /\ loop'.n = n /\ m = pad'[t].last
        BY <2>3, <3>1, <3>5, <4>1 DEF Taken, InFlight
      <4>3. Newest(t)' = n
        BY <4>2 DEF Newest, Reached
      <4>4. Len(<<>>) = 0 /\ 1 .. Len(<<>>) - 1 = {}
        OBVIOUS
      <4> HIDE DEF m, r, q
      <4>5. /\ Follows(pad'[t].last, loop'.n) /\ Follows(Newest(t)', pos'[t])
            /\ \A i \in 1 .. Len(r) - 1 : Follows(r[i], r[i + 1])
        BY <3>1, <3>3, <3>4, <4>2, <4>3, <4>4
      <4> QED
        BY <3>1, <3>2, <4>2, <4>5 DEF Chain, r
    <3>6. CASE config.limit # 0
      <4>1. /\ r = Append(q, n) /\ ~InFlight(t)'
        BY <3>1, <3>6, <2>3 DEF Taken, InFlight
      <4>2. /\ Len(r) = Len(q) + 1 /\ r[Len(r)] = n /\ Len(q) \in Nat
            /\ \A i \in 1 .. Len(q) : r[i] = q[i]
            /\ r # <<>>
        BY <3>1, <4>1
      <4>3. Newest(t)' = n /\ Reached(t)' = pad'[t].last
        BY <4>1, <4>2 DEF Newest, Reached
      <4>4. Follows(pad'[t].last, r[1])
        <5>1. CASE q = <<>>
          BY <3>4, <4>2, <5>1
        <5>2. CASE q # <<>>
          <6>1. 1 \in 1 .. Len(q)
            BY <3>1, <5>2
          <6> QED
            BY <3>4, <4>2, <5>2, <6>1
        <5> QED
          BY <5>1, <5>2
      <4>5. \A i \in 1 .. Len(r) - 1 : Follows(r[i], r[i + 1])
        <5>1. TAKE i \in 1 .. Len(r) - 1
        <5>2. i \in 1 .. Len(q) /\ q # <<>> /\ r[i] = q[i]
          BY <3>1, <4>2, <5>1
        <5>3. CASE i = Len(q)
          BY <3>4, <4>2, <5>2, <5>3
        <5>4. CASE i # Len(q)
          <6>1. i + 1 \in 1 .. Len(q) /\ i \in 1 .. Len(q) - 1
            BY <4>2, <5>2, <5>4
          <6> QED
            BY <3>4, <4>2, <5>2, <6>1
        <5> QED
          BY <5>3, <5>4
      <4> HIDE DEF r, q, m
      <4>6. Follows(Newest(t)', pos'[t])
        BY <3>1, <3>3, <4>3
      <4> QED
        BY <3>1, <3>2, <4>1, <4>3, <4>4, <4>5, <4>6 DEF Chain, r
    <3> QED
      BY <3>5, <3>6
  <2> QED
    BY <2>2, <2>3
<1>9. InOrder'
  BY <1>8 DEF InOrder
<1> QED
  BY <1>1, <1>5, <1>6, <1>7, <1>9 DEF IInv
-------------------------------------------------------------------------------
(* The steps that leave the tables alone, but for what is behind the pads. *)

LEMMA TablesStay ==
  ASSUME IInv, Flags', Phases', Loop', Threads', SomeLeft',
         fifo' \in [Streams -> Fill],
         UNCHANGED <<config, stream, valid_mask, new_segment_mask,
                     pending_event, pos, pad, promised>>,
         \/ state' = state
         \/ state # "movie" /\ state' # "movie",
         state = "movie" => (flushing => flushing'),
         \/ loop' = loop
         \/ loop.pc # "push" /\ loop'.pc # "push"
  PROVE  IInv'
<1>1. Safe'
  <2>1. Tables'
    BY DEF IInv, Safe, Tables
  <2>2. Reads'
    BY DEF IInv, Safe, Reads
  <2>3. Valid' = Valid /\ Pending' = Pending
    BY DEF Valid, Pending
  <2>4. Masks'
    BY <2>3 DEF IInv, Safe, Masks
  <2> QED
    BY <2>1, <2>2, <2>4 DEF Safe
<1>2. Seen' => Seen
  BY DEF Seen
<1>3. PadsAgree'
  BY <1>2 DEF IInv, PadsAgree
<1>4. \A t \in Streams : InFlight(t)' <=> InFlight(t)
  BY DEF InFlight
<1>5. Sending'
  <2>1. CASE loop' = loop
    BY <2>1 DEF IInv, Sending
  <2>2. CASE loop'.pc # "push"
    BY <2>2 DEF Sending
  <2> QED
    BY <2>1, <2>2
<1>6. ASSUME NEW t \in Streams, Chain(t)
      PROVE  Chain(t)'
  <2>1. CASE InFlight(t)
    <3>1. loop' = loop
      BY <2>1 DEF InFlight
    <3> QED
      BY <1>6, <3>1 DEF Chain, InFlight, Follows, Gaps, Newest, Reached
  <2>2. CASE ~InFlight(t)
    <3>1. Rests(t) /\ ~InFlight(t)'
      BY <1>4, <2>2 DEF Rests
    <3> QED
      BY <1>6, <2>2, <3>1, ChainRests
  <2> QED
    BY <2>1, <2>2
<1>7. InOrder'
  BY <1>2, <1>6 DEF IInv, InOrder
<1> QED
  BY <1>1, <1>3, <1>5, <1>7 DEF IInv

LEMMA EnterKeeps == IInv /\ Enter => IInv'
<1> SUFFICES ASSUME IInv, Enter
             PROVE  IInv'
  OBVIOUS
<1> USE DEF Enter, masks, downstream
<1>1. Flags' /\ Phases' /\ fifo' \in [Streams -> Fill]
  BY Zenon DEF IInv, Safe, Flags, Phases, Tables
<1>2. loop' \in LoopType /\ loop'.pc = "top"
  BY GotoEffect
<1>3. Loop'
  BY <1>2 DEF Loop
<1>4. Threads'
  BY DEF IInv, Safe, Threads
<1>5. SomeLeft'
  BY <1>2 DEF IInv, SomeLeft
<1> QED
  BY <1>1, <1>2, <1>3, <1>4, <1>5, TablesStay

LEMMA LeaveKeeps == IInv /\ Leave => IInv'
<1> SUFFICES ASSUME IInv, Leave
             PROVE  IInv'
  OBVIOUS
<1> USE DEF Leave, threadVars, masks, downstream
<1>1. Flags' /\ Phases' /\ fifo' \in [Streams -> Fill]
  BY Zenon DEF IInv, Safe, Flags, Phases, Tables
<1>2. loop' \in LoopType /\ loop'.pc = "none"
  BY GotoEffect
<1>3. Loop'
  BY <1>2 DEF Loop
<1>4. Threads'
  BY DEF IInv, Safe, Threads
<1>5. SomeLeft'
  BY <1>2 DEF IInv, SomeLeft
<1> QED
  BY <1>1, <1>2, <1>3, <1>4, <1>5, TablesStay

LEMMA CreateParserKeeps == IInv /\ CreateParser => IInv'
<1> SUFFICES ASSUME IInv, CreateParser
             PROVE  IInv'
  OBVIOUS
<1> USE DEF CreateParser, masks, downstream
<1>1. /\ Return("OK") \/ Return("ERROR")
      /\ state = "initial" /\ state' \in {"initial", "header"}
      /\ running \in BOOLEAN
  BY DEF IInv, Safe, Flags
<1>2. loop' \in LoopType /\ loop'.pc = "top" /\ running' \in BOOLEAN
  BY <1>1, ReturnEffect
<1>3. Flags' /\ fifo' \in [Streams -> Fill]
  <2>1. state' \in {"probe", "initial", "header", "movie"}
    BY <1>1
  <2> QED
    BY <1>2, <2>1, Zenon DEF IInv, Safe, Flags, Tables
<1>4. Phases'
  BY <1>1 DEF IInv, Safe, Phases
<1>5. Loop' /\ SomeLeft'
  BY <1>1, <1>2 DEF Loop, SomeLeft
<1>6. Threads'
  BY DEF IInv, Safe, Threads
<1> QED
  BY <1>1, <1>2, <1>3, <1>4, <1>5, <1>6, TablesStay

LEMMA ActivateKeeps == IInv /\ Activate => IInv'
<1> SUFFICES ASSUME IInv, Activate
             PROVE  IInv'
  OBVIOUS
<1> USE DEF Activate, masks
<1>1. Flags' /\ fifo' \in [Streams -> Fill]
  BY Zenon DEF IInv, Safe, Flags, Tables
<1>2. Phases' /\ Loop' /\ SomeLeft'
  BY DEF IInv, Safe, Phases, Loop, SomeLeft
<1>3. Threads'
  BY DEF IInv, Safe, Threads
<1> QED
  BY <1>1, <1>2, <1>3, TablesStay

LEMMA SetCapsKeeps == IInv /\ SetCaps => IInv'
<1> SUFFICES ASSUME IInv, SetCaps
             PROVE  IInv'
  OBVIOUS
<1> USE DEF SetCaps, masks, downstream
<1>1. Flags' /\ fifo' \in [Streams -> Fill]
  BY Zenon DEF IInv, Safe, Flags, Tables
<1>2. Phases' /\ Loop' /\ SomeLeft'
  BY DEF IInv, Safe, Phases, Loop, SomeLeft
<1>3. Threads'
  BY DEF IInv, Safe, Threads
<1> QED
  BY <1>1, <1>2, <1>3, TablesStay

LEMMA BeginKeeps ==
  ASSUME IInv, NEW what \in {"seek", "stop"}, NEW flush \in BOOLEAN,
         Begin(what, flush), what = "seek" => state = "movie"
  PROVE  IInv'
<1> USE DEF Begin, threadVars, masks
<1>1. user' \in UserType /\ user'.pc = "halt" /\ user'.what = what
  <2>1. user' \in UserType
    BY Zenon DEF UserType
  <2> QED
    BY <2>1
<1>2. Flags' /\ fifo' \in [Streams -> Fill]
  BY Zenon DEF IInv, Safe, Flags, Tables
<1>3. Phases' /\ Loop' /\ SomeLeft'
  BY <1>1 DEF IInv, Safe, Phases, Loop, SomeLeft
<1>4. Threads'
  BY <1>1, DemuxerAssumption DEF IInv, Safe, Threads
<1>5. UNCHANGED state /\ (flushing => flushing')
  BY Zenon
<1> QED
  BY <1>2, <1>3, <1>4, <1>5, TablesStay

LEMMA HaltKeeps == IInv /\ Halt => IInv'
<1> SUFFICES ASSUME IInv, Halt
             PROVE  IInv'
  OBVIOUS
<1> USE DEF Halt, masks, downstream
<1>1. /\ user' \in UserType /\ user'.pc = "wait" /\ user'.what = user.what
  <2>1. user \in UserType
    BY DEF IInv, Safe, Phases
  <2>2. user' \in UserType
    BY <2>1, Zenon DEF UserType
  <2> QED
    BY <2>1, <2>2 DEF UserType
<1>2. Flags' /\ fifo' \in [Streams -> Fill]
  BY Zenon DEF IInv, Safe, Flags, Tables
<1>3. Phases' /\ Loop' /\ SomeLeft'
  BY <1>1 DEF IInv, Safe, Phases, Loop, SomeLeft
<1>4. Threads'
  BY <1>1 DEF IInv, Safe, Threads
<1> QED
  BY <1>2, <1>3, <1>4, TablesStay

LEMMA SinksKeep ==
  ASSUME IInv, Preroll \/ \E s \in Streams : Sink(s)
  PROVE  IInv'
<1>1. /\ UNCHANGED <<active, state, running, closed, threads, loop, user, config,
                     stream, valid_mask, new_segment_mask, pending_event, pos,
                     pad, flushing, promised, count>>
  BY Zenon DEF Preroll, Sink, threadVars, masks
<1>2. fifo' \in [Streams -> Fill]
  <2>1. fifo \in [Streams -> Fill]
    BY DEF IInv, Safe, Tables
  <2>2. CASE Preroll
    BY <2>1, <2>2 DEF Preroll
  <2>3. CASE \E s \in Streams : Sink(s)
    <3>1. PICK s \in Streams : fifo[s] > 0 /\ fifo' = [fifo EXCEPT ![s] = @ - 1]
      BY <2>3, Zenon DEF Sink
    <3>2. fifo[s] - 1 \in Fill
      BY <2>1, <3>1, DemuxerAssumption DEF Fill
    <3> HIDE DEF Fill
    <3> QED
      BY <2>1, <3>1, <3>2
  <2> QED
    BY <2>2, <2>3
<1>3. Flags' /\ Phases'
  BY <1>1, Zenon DEF IInv, Safe, Flags, Phases
<1>4. Loop' /\ SomeLeft'
  BY <1>1 DEF IInv, Safe, Loop, SomeLeft
<1>5. Threads'
  BY <1>1 DEF IInv, Safe, Threads
<1> QED
  BY <1>1, <1>2, <1>3, <1>4, <1>5, TablesStay
-------------------------------------------------------------------------------
(* The steps that begin the tables anew *)

\* After a step that lets every stream wait for its segment, or that breaks the
\* promise, what the pads see is in order.
LEMMA Renewed ==
  ASSUME Safe', loop'.pc # "push",
         (promised' /\ config'.limit > 0 /\ state' = "movie") =>
           valid_mask' # {},
         state' # "movie" => \A t \in Streams : pad'[t] = Fresh,
         Seen' => \A t \in Streams : stream'[t].new_segment /\ ~pad'[t].eos
  PROVE  IInv'
<1>1. SomeLeft' /\ Sending'
  BY DEF SomeLeft, Sending
<1>2. PadsAgree' /\ InOrder'
  BY DEF PadsAgree, InOrder
<1> QED
  BY <1>1, <1>2 DEF IInv

LEMMA ParseHeaderKeeps == IInv /\ ParseHeader => IInv'
<1> SUFFICES ASSUME IInv, ParseHeader
             PROVE  IInv'
  OBVIOUS
<1> USE DEF ParseHeader, downstream
<1>1. /\ Return("OK") \/ Return("ERROR")
      /\ state = "header" /\ state' \in {"header", "movie"}
      /\ running \in BOOLEAN /\ Safe
  BY DEF IInv, Safe, Flags
<1>2. loop' \in LoopType /\ loop'.pc = "top" /\ running' \in BOOLEAN
  BY <1>1, ReturnEffect
<1>3. Flags' /\ fifo' \in [Streams -> Fill] /\ pad' \in [Streams -> PadType]
  <2>1. state' \in {"probe", "initial", "header", "movie"}
    BY <1>1
  <2> QED
    BY <1>1, <1>2, <2>1, Zenon DEF Safe, Flags, Tables
<1>4. Phases'
  BY <1>1 DEF Safe, Phases
<1>5. Loop'
  BY <1>1, <1>2 DEF Loop
<1>6. Threads'
  BY <1>1 DEF Safe, Threads
<1>7. CASE UNCHANGED <<state, stream, valid_mask, new_segment_mask, pos>>
  <2>1. SomeLeft'
    BY <1>1, <1>7 DEF SomeLeft
  <2> QED
    BY <1>1, <1>2, <1>3, <1>4, <1>5, <1>6, <1>7, <2>1, TablesStay
<1>8. CASE /\ stream' = [s \in Streams |-> NewStream]
           /\ valid_mask' = Streams /\ new_segment_mask' = Streams
           /\ pos' = [s \in Streams |-> 0]
  <2>1. /\ \A s \in Streams : stream'[s] = NewStream /\ pos'[s] = 0
        /\ NewStream.new_segment /\ NewStream.valid
        /\ NewStream.held = None /\ NewStream.queue = <<>>
    BY <1>8 DEF NewStream
  <2>2. Tables'
    BY <1>3, <1>8, NewStreamType, Numbers DEF Tables
  <2>3. Valid' = Streams
    BY <2>1 DEF Valid
  <2>4. Masks'
    BY <1>8, <2>1, <2>3 DEF Masks
  <2>5. Reads'
    BY <2>1 DEF Reads
  <2>6. Safe'
    BY <1>3, <1>4, <1>5, <1>6, <2>2, <2>4, <2>5 DEF Safe
  <2>7. \A t \in Streams : pad'[t] = Fresh /\ ~pad'[t].eos
    <3>1. pad' = pad /\ state # "movie"
      BY <1>1
    <3>2. \A t \in Streams : pad[t] = Fresh
      BY <3>1 DEF IInv, PadsAgree
    <3>3. ~Fresh.eos
      BY DEF Fresh
    <3> QED
      BY <3>1, <3>2, <3>3
  <2>8. \A t \in Streams : stream'[t].new_segment
    BY <2>1
  <2>9. valid_mask' # {} /\ loop'.pc # "push"
    BY <1>2, <1>8, Numbers
  <2> QED
    BY <2>6, <2>7, <2>8, <2>9, Renewed
<1> QED
  BY <1>7, <1>8

LEMMA DeactivateKeeps == IInv /\ Deactivate => IInv'
<1> SUFFICES ASSUME IInv, Deactivate
             PROVE  IInv'
  OBVIOUS
<1> USE DEF Deactivate
<1>1. Safe
  BY DEF IInv
<1>2. Flags'
  <2>1. config' \in ConfigType
    BY <1>1, Zenon DEF Safe, Flags, ConfigType
  <2>2. active' \in BOOLEAN /\ state' \in {"probe", "initial", "header", "movie"}
    OBVIOUS
  <2> QED
    BY <1>1, <2>1, <2>2, Zenon DEF Safe, Flags
<1>3. user' \in UserType /\ user'.pc = "idle"
  BY IdleType DEF NoCall
<1>4. Phases'
  BY <1>3 DEF Phases
<1>5. Loop' /\ loop'.pc = "none"
  BY <1>1 DEF Safe, Loop, Held
<1>6. Threads'
  BY <1>1, <1>3 DEF Safe, Threads, Phases
<1>7. Tables' /\ \A s \in Streams : pad'[s] = Fresh
  BY FreshType, NewStreamType, Numbers DEF Tables
<1>8. /\ \A s \in Streams : stream'[s] = NoStream
      /\ ~NoStream.valid /\ NoStream.held = None /\ NoStream.queue = <<>>
  BY DEF NoStream, NewStream
<1>9. Masks' /\ Reads'
  <2>1. Valid' = {}
    BY <1>8 DEF Valid
  <2> QED
    BY <1>8, <2>1 DEF Masks, Reads
<1>10. Safe'
  BY <1>2, <1>4, <1>5, <1>6, <1>7, <1>9 DEF Safe
<1> QED
  BY <1>5, <1>7, <1>10, Renewed DEF Seen

\* What SeekPerform and SeekRefused have in common
LEMMA RestartEffect ==
  ASSUME Safe, user.pc = "wait", ~Held, NEW kept \in BOOLEAN,
         user' = NoCall, running' = TRUE, closed' = FALSE,
         threads' = threads + 1,
         IF user.flush
         THEN /\ pad' = [s \in Streams |-> Fresh]
              /\ fifo' = [s \in Streams |-> 0]
              /\ playing' = FALSE /\ flushing' = FALSE
         ELSE UNCHANGED downstream,
         promised' = (promised /\ kept),
         UNCHANGED <<active, state, loop, count>>,
         pending_event' \in BOOLEAN, config' \in ConfigType
  PROVE  /\ Flags' /\ Phases' /\ Loop' /\ Threads' /\ loop'.pc = "none"
         /\ pad' \in [Streams -> PadType] /\ fifo' \in [Streams -> Fill]
<1>1. Flags'
  <2>1. promised' \in BOOLEAN
    BY Zenon DEF Safe, Flags
  <2>2. flushing' \in BOOLEAN
    BY Zenon DEF Safe, Flags, downstream
  <2>3. running' \in BOOLEAN /\ closed' \in BOOLEAN
    OBVIOUS
  <2> QED
    BY <2>1, <2>2, <2>3, Zenon DEF Safe, Flags
<1>2. user' \in UserType /\ user'.pc = "idle"
  BY IdleType DEF NoCall
<1>3. Phases'
  BY <1>2 DEF Safe, Phases
<1>4. Loop' /\ loop'.pc = "none"
  BY DEF Safe, Loop, Held
<1>5. Threads'
  BY <1>2 DEF Safe, Threads
<1>6. pad' \in [Streams -> PadType] /\ fifo' \in [Streams -> Fill]
  <2>1. pad \in [Streams -> PadType] /\ fifo \in [Streams -> Fill]
    BY DEF Safe, Tables
  <2>2. CASE user.flush
    BY <2>2, FreshType, Numbers
  <2>3. CASE ~user.flush
    BY <2>1, <2>3 DEF downstream
  <2> QED
    BY <2>2, <2>3
<1> QED
  BY <1>1, <1>3, <1>4, <1>5, <1>6

LEMMA SeekRefusedKeeps == IInv /\ SeekRefused => IInv'
<1> SUFFICES ASSUME IInv, SeekRefused
             PROVE  IInv'
  OBVIOUS
<1>1. /\ Safe /\ state = "movie" /\ stream \in [Streams -> StreamType]
      /\ pending_event' \in BOOLEAN /\ config' \in ConfigType
  BY DEF IInv, Safe, Flags, Phases, Tables, SeekRefused, masks
<1>2. /\ UNCHANGED <<active, state, loop, count, config, pos, valid_mask,
                     new_segment_mask, pending_event>>
      /\ promised' = (promised /\ FALSE)
  BY Zenon DEF SeekRefused, Restart, masks
<1>3. /\ Flags' /\ Phases' /\ Loop' /\ Threads' /\ loop'.pc = "none"
      /\ pad' \in [Streams -> PadType] /\ fifo' \in [Streams -> Fill]
  BY <1>1, RestartEffect DEF SeekRefused, Restart
<1>4. /\ stream' \in [Streams -> StreamType]
      /\ \A s \in Streams :
           /\ Alike(stream'[s], stream[s])
           /\ stream'[s].new_segment <=> stream[s].new_segment
           /\ stream'[s].held = stream[s].held
  <2>1. ASSUME NEW r \in StreamType
        PROVE  LET q == [r EXCEPT !.last_ret = "OK"]
               IN /\ q \in StreamType /\ Alike(q, r)
                  /\ (q.new_segment <=> r.new_segment) /\ q.held = r.held
    <3>1. [r EXCEPT !.last_ret = "OK"] \in StreamType
      BY Zenon DEF StreamType, Flows
    <3> QED
      BY <3>1 DEF StreamType, Alike
  <2>2. stream' = [s \in Streams |-> [stream[s] EXCEPT !.last_ret = "OK"]]
    BY DEF SeekRefused
  <2> QED
    BY <1>1, <2>1, <2>2
<1>5. Tables'
  BY <1>1, <1>2, <1>3, <1>4 DEF Safe, Tables
<1>6. Masks'
  <2>1. Valid' = Valid /\ Pending' = Pending
    BY <1>4 DEF Valid, Pending, Alike
  <2> QED
    BY <1>1, <1>2, <1>4, <2>1 DEF Safe, Masks
<1>7. Reads'
  BY <1>1, <1>2, <1>4 DEF Safe, Reads, Alike
<1>8. Safe'
  BY <1>3, <1>5, <1>6, <1>7 DEF Safe
<1>9. state' = "movie" /\ ~promised'
  BY <1>1, <1>2
<1> QED
  BY <1>3, <1>8, <1>9, Renewed DEF Seen
LEMMA ResetIs ==
  ASSUME Tables, NEW s \in Streams
  PROVE  /\ Reset(s) \in StreamType
         /\ Reset(s).new_segment
         /\ Reset(s).held = None /\ Reset(s).queue = <<>>
<1>1. stream[s] \in StreamType /\ <<>> \in Seq(Number) /\ 0 \in Nat
  BY DEF Tables
<1>2. Reset(s) \in StreamType
  BY <1>1, Numbers, Zenon DEF Reset, StreamType, Flows
<1>3. /\ Reset(s).new_segment
      /\ Reset(s).held = None /\ Reset(s).queue = <<>>
  BY <1>1 DEF Reset, StreamType
<1> QED
  BY <1>2, <1>3

LEMMA SeekPerformKeeps == IInv /\ SeekPerform => IInv'
<1> SUFFICES ASSUME IInv, SeekPerform
             PROVE  IInv'
  OBVIOUS
<1>0. PICK accurate \in BOOLEAN, trick \in BOOLEAN, p \in 1 .. Samples :
        \E place \in [Streams -> {None, 0, p}] :
          /\ config' = [config EXCEPT !.trick = trick]
          /\ Place(accurate, trick, p, place)
  BY Zenon DEF SeekPerform
<1>1. PICK place \in [Streams -> {None, 0, p}] :
        /\ config' = [config EXCEPT !.trick = trick]
        /\ Place(accurate, trick, p, place)
  BY <1>0
<1> DEFINE together == accurate \/ Cardinality(Video) # 1
           lost == ~together /\ \E v \in Video : place[v] = None
           time == IF together \/ lost THEN p
                   ELSE place[CHOOSE v \in Video : TRUE]
           marked == {s \in Streams : \/ place[s] = None \/ lost
                                      \/ trick /\ s \notin Video}
           aimed == IF together THEN Streams ELSE IF lost THEN {}
                    ELSE Streams \ Video
           tm(s) == IF s \in aimed /\ s \notin Video THEN time ELSE 0
           bl(s) == IF s \in aimed THEN s \notin Video /\ Video # {}
                    ELSE Reset(s).block
           r(s) == [Reset(s) EXCEPT !.valid = s \notin marked,
                                    !.pending_eos = s \in marked,
                                    !.time = tm(s), !.block = bl(s)]
<1>2. /\ stream' = [s \in Streams |-> r(s)]
      /\ pos' = [s \in Streams |-> IF place[s] = None THEN pos[s] ELSE place[s]]
      /\ valid_mask' = Streams /\ new_segment_mask' = Streams \ marked
      /\ pending_event' = (marked # {})
  BY <1>1, Zenon DEF Place
<1>3. /\ Safe /\ Tables /\ state = "movie" /\ config \in ConfigType
      /\ pos \in [Streams -> Places] /\ promised \in BOOLEAN
  BY DEF IInv, Safe, Flags, Phases, Tables, SeekPerform
<1>4. config' \in ConfigType
  BY <1>1, <1>3, Zenon DEF ConfigType
<1>5. time \in Int
  <2>1. p \in Int /\ None \in Int /\ 0 \in Int
    BY Numbers DEF None
  <2>2. CASE together \/ lost
    BY <2>1, <2>2
  <2>3. CASE ~(together \/ lost)
    <3>1. Video # {}
      BY <2>3, FS_EmptySet
    <3>2. (CHOOSE v \in Video : TRUE) \in Streams
      BY <3>1, DemuxerAssumption
    <3>3. place[CHOOSE v \in Video : TRUE] \in {None, 0, p}
      BY <3>2
    <3> QED
      BY <2>1, <2>3, <3>3
  <2> QED
    BY <2>2, <2>3
<1>6. marked \subseteq Streams
  OBVIOUS
<1> HIDE DEF together, lost, time, marked, aimed
<1>7. ASSUME NEW s \in Streams
      PROVE  /\ r(s) \in StreamType
             /\ r(s).valid <=> s \notin marked
             /\ r(s).pending_eos <=> s \in marked
             /\ r(s).new_segment
             /\ r(s).held = None /\ r(s).queue = <<>>
  <2> DEFINE v == s \notin marked
             e == s \in marked
             b == bl(s)
             t == tm(s)
  <2>1. /\ Reset(s) \in StreamType /\ Reset(s).new_segment
        /\ Reset(s).held = None /\ Reset(s).queue = <<>>
    BY <1>3, ResetIs
  <2>2. t \in Int
    BY <1>5
  <2>3. Reset(s).block \in BOOLEAN
    BY <2>1, Zenon DEF StreamType
  <2>4. v \in BOOLEAN /\ e \in BOOLEAN /\ b \in BOOLEAN
    <3>1. v \in BOOLEAN /\ e \in BOOLEAN
      OBVIOUS
    <3>2. CASE s \in aimed
      <4>1. (s \notin Video /\ Video # {}) \in BOOLEAN
        OBVIOUS
      <4> QED
        BY <3>1, <3>2, <4>1, Zenon
    <3>3. CASE s \notin aimed
      BY <2>3, <3>1, <3>3, Zenon
    <3> QED
      BY <3>2, <3>3
  <2> HIDE DEF b, t
  <2>5. r(s) \in StreamType
    BY <2>1, <2>2, <2>4, Zenon DEF StreamType, b, t
  <2>6. /\ r(s).valid <=> s \notin marked
        /\ r(s).pending_eos <=> s \in marked
        /\ r(s).new_segment
        /\ r(s).held = None /\ r(s).queue = <<>>
    BY <2>1 DEF StreamType
  <2> QED
    BY <2>5, <2>6
<1> HIDE DEF r
<1>8. /\ stream' \in [Streams -> StreamType]
      /\ \A s \in Streams : stream'[s] = r(s)
  BY <1>2, <1>7
<1>9. pos' \in [Streams -> Places]
  <2>1. \A s \in Streams : place[s] = None \/ place[s] \in Places
    BY Numbers, DemuxerAssumption DEF Places
  <2> HIDE DEF Places
  <2> QED
    BY <1>2, <1>3, <2>1
<1>10. pending_event' \in BOOLEAN
  BY <1>2
<1> DEFINE kept == user.flush \/ \A s \in Streams : ~pad[s].eos
<1>11. /\ user.pc = "wait" /\ ~Held /\ Restart(kept) /\ kept \in BOOLEAN
  BY Zenon DEF SeekPerform
<1>12. /\ Flags' /\ Phases' /\ Loop' /\ Threads' /\ loop'.pc = "none"
       /\ pad' \in [Streams -> PadType] /\ fifo' \in [Streams -> Fill]
  <2> HIDE DEF kept
  <2> QED
    BY <1>3, <1>4, <1>10, <1>11, RestartEffect DEF Restart
<1>13. Tables'
  BY <1>8, <1>9, <1>12 DEF Tables
<1>14. Masks'
  <2>1. Valid' = Streams \ marked /\ Pending' = marked
    BY <1>6, <1>7, <1>8 DEF Valid, Pending
  <2>2. pending_event' <=> marked # {}
    BY <1>2
  <2>3. \A s \in Streams : stream'[s].new_segment
    BY <1>7, <1>8
  <2> QED
    BY <1>2, <2>1, <2>2, <2>3 DEF Masks
<1>15. Reads'
  BY <1>7, <1>8 DEF Reads
<1>16. Safe'
  BY <1>12, <1>13, <1>14, <1>15 DEF Safe
<1>17. ASSUME Seen', NEW t \in Streams
       PROVE  ~pad'[t].eos
  <2>1. promised' = (promised /\ kept)
    BY <1>11 DEF Restart
  <2>2. kept
    BY <1>3, <1>17, <2>1 DEF Seen
  <2>3. CASE user.flush
    <3>1. pad'[t] = Fresh
      BY <1>11, <2>3 DEF Restart
    <3> QED
      BY <3>1 DEF Fresh
  <2>4. CASE ~user.flush
    BY <1>11, <2>2, <2>4 DEF Restart, downstream
  <2> QED
    BY <2>3, <2>4
<1>18. state' = "movie" /\ valid_mask' # {}
  BY <1>2, <1>3, <1>11, Numbers DEF Restart
<1>19. \A t \in Streams : stream'[t].new_segment
  BY <1>7, <1>8
<1> QED
  BY <1>12, <1>16, <1>17, <1>18, <1>19, Renewed
-------------------------------------------------------------------------------
(* The invariant *)

LEMMA LoopKeeps ==
  ASSUME IInv, \/ Movie \/ PopQueued \/ ReadNone \/ Push \/ Drain
               \/ \E s \in Streams, n \in 0 .. Samples - 1 : Read(s, n)
  PROVE  /\ IInv' /\ (promised => \A t \in Streams : Proper(t))
         /\ UNCHANGED <<active, promised>> /\ active
<1>1. Safe /\ stream \in [Streams -> StreamType] /\ Masks
  BY DEF IInv, Safe, Tables
<1>2. CASE Movie
  BY <1>2, MovieKeeps, EndStepKeeps DEF Movie, IInv, Safe, Phases
<1>3. CASE ReadNone
  BY <1>3, ReadNoneKeeps, EndStepKeeps
     DEF EndStep, LoopOnly, IInv, Safe, Phases
<1>4. CASE Push
  <2>1. loop.s \in Streams /\ state = "movie"
    BY <1>4 DEF Push, IInv, Safe, Loop, LoopType
  <2>2. /\ UNCHANGED <<active, promised>> /\ active
    BY <1>4, <2>1 DEF Push, IInv, Safe, Phases
  <2>3. CASE PushTaken(loop.s)
    BY <1>4, <2>1, <2>2, <2>3, PushTakenKeeps
  <2>4. CASE PushUnexpected(loop.s)
    BY <1>4, <2>1, <2>2, <2>4, PushUnexpectedKeeps, EndStepKeeps
  <2> QED
    BY <1>4, <2>3, <2>4 DEF Push
<1>5. ASSUME NEW s \in Streams, NEW n \in 0 .. Samples - 1, Read(s, n)
      PROVE  /\ IInv' /\ (promised => \A t \in Streams : Proper(t))
             /\ UNCHANGED <<active, promised>> /\ active
  <2>1. n \in Number
    BY DEF Number
  <2>2. state = "movie"
    BY <1>5 DEF Read, Fragment, Discard, DropLong, Keep, Finish, NextSample,
                Reading, IInv, Safe, Loop
  <2>3. UNCHANGED <<active, promised>>
    BY <1>5 DEF Read, Fragment, Discard, DropLong, Keep, Finish, threadVars
  <2>4. CASE Fragment(s, n)
    BY <2>1, <2>2, <2>3, <2>4, FragmentKeeps DEF IInv, Safe, Phases
  <2>5. CASE Discard(s, n) \/ DropLong(s, n)
    <3>1. Dropped(s, n)
      BY <1>1, <2>1, <2>5, DiscardDrops, DropLongDrops
    <3> QED
      BY <2>1, <2>2, <2>3, <3>1, DroppedKeeps DEF IInv, Safe, Phases
  <2>6. CASE Keep(s, n)
    <3>1. Taken(s, n)
      BY <1>1, <2>1, <2>6, KeepTakes
    <3> QED
      BY <2>1, <2>2, <2>3, <3>1, TakenKeeps DEF IInv, Safe, Phases
  <2> QED
    BY <1>5, <2>4, <2>5, <2>6 DEF Read
<1>6. ASSUME NEW s, s = Choose, s \in Streams, NEW from \in {"queue", "drain"},
             loop' = [pc |-> "push", s |-> s, n |-> Head(stream[s].queue),
                      from |-> from],
             stream' = [stream EXCEPT ![s].queue = Tail(@)],
             UNCHANGED <<active, state, running, closed, threads, user, config,
                         valid_mask, new_segment_mask, pending_event, pos, pad,
                         fifo, flushing, promised, count>>,
             stream[s].queue # <<>>,
             loop.pc \in {"do", "drain"},
             promised /\ loop.pc = "drain" => valid_mask # {}
      PROVE  /\ IInv' /\ (promised => \A t \in Streams : Proper(t))
             /\ UNCHANGED <<active, promised>> /\ active
  <2>1. state = "movie" /\ ~pending_event /\ active
    BY <1>6 DEF IInv, Safe, Loop, Phases
  <2>2. config.limit > 0
    BY <1>1, <1>6 DEF Safe, Reads
  <2>3. promised => valid_mask # {}
    BY <1>6, <2>1, <2>2 DEF IInv, SomeLeft
  <2>4. promised => stream[s].valid
    <3>1. promised => Valid # {}
      BY <1>1, <2>1, <2>3 DEF Masks
    <3> QED
      BY <1>1, <1>6, <3>1, ChooseIn DEF Safe, Valid
  <2>5. LoopOnly
    BY <1>6, Zenon DEF LoopOnly
  <2>6. loop' \in [pc : {"push"}, s : {s}, n : {Head(stream[s].queue)},
                   from : {"queue", "drain"}]
    BY <1>6, Zenon
  <2>7. Popped(s)
    BY <1>6, <2>1, <2>3, <2>4, <2>5, <2>6 DEF Popped
  <2> QED
    BY <1>6, <2>1, <2>7, PoppedKeeps
<1>7. Choose \in Streams
  BY <1>1, ChooseStream DEF Safe
<1>8. CASE PopQueued
  <2>1. /\ loop.pc = "do" /\ stream[Choose].queue # <<>>
        /\ loop' = [pc |-> "push", s |-> Choose,
                    n |-> Head(stream[Choose].queue), from |-> "queue"]
        /\ stream' = [stream EXCEPT ![Choose].queue = Tail(@)]
        /\ UNCHANGED <<active, state, running, closed, threads, user, config,
                         valid_mask, new_segment_mask, pending_event, pos, pad,
                         fifo, flushing, promised, count>>
    BY <1>8, Zenon DEF PopQueued, Queued, Pop, threadVars, masks, downstream
  <2> HIDE DEF Choose
  <2> QED
    BY <1>6, <1>7, <2>1
<1>9. CASE Drain
  <2>1. CASE valid_mask = {} \/ stream[Choose].queue = <<>>
    BY <1>9, <2>1, DrainEnds, EndStepKeeps
       DEF EndStep, LoopOnly, IInv, Safe, Phases
  <2>2. CASE valid_mask # {} /\ stream[Choose].queue # <<>>
    <3>1. /\ loop.pc = "drain"
          /\ loop' = [pc |-> "push", s |-> Choose,
                      n |-> Head(stream[Choose].queue), from |-> "drain"]
          /\ stream' = [stream EXCEPT ![Choose].queue = Tail(@)]
          /\ UNCHANGED <<active, state, running, closed, threads, user, config,
                         valid_mask, new_segment_mask, pending_event, pos, pad,
                         fifo, flushing, promised, count>>
      BY <1>9, <2>2, Zenon DEF Drain, Pop, threadVars, masks, downstream
    <3> QED
      BY <1>6, <1>7, <2>2, <3>1
  <2> QED
    BY <2>1, <2>2
<1> QED
  BY <1>2, <1>3, <1>4, <1>5, <1>8, <1>9
\* Everything that happens, and what it is for the pads.
LEMMA Step ==
  ASSUME IInv, [Next]_vars
  PROVE  IInv' /\ [Pads!Next]_<<pad, active, promised>>
<1>1. /\ promised \in BOOLEAN /\ pad \in [Streams -> PadType] /\ Safe
  BY DEF IInv, Safe, Flags, Tables
<1>2. CASE \/ Movie \/ PopQueued \/ ReadNone \/ Push \/ Drain
           \/ \E s \in Streams, n \in 0 .. Samples - 1 : Read(s, n)
  <2>1. /\ IInv' /\ (promised => \A t \in Streams : Proper(t))
        /\ UNCHANGED <<active, promised>> /\ active
    BY <1>2, LoopKeeps
  <2>2. pad' = [s \in Streams |-> pad'[s]]
    BY <2>1 DEF IInv, Safe, Tables
  <2>3. CASE promised
    <3>1. Pads!Send
      BY <2>1, <2>2, <2>3, Zenon DEF Pads!Send, Proper
    <3> QED
      BY <2>1, <2>3, <3>1 DEF Pads!Next
  <2>4. CASE ~promised
    <3>1. promised' = FALSE
      BY <1>1, <2>1, <2>4
    <3> QED
      BY <2>1, <3>1 DEF Pads!Next
  <2> QED
    BY <2>3, <2>4
<1>3. CASE Enter \/ Leave \/ CreateParser \/ ParseHeader \/ SetCaps \/ Halt
  <2>1. IInv'
    BY <1>3, EnterKeeps, LeaveKeeps, CreateParserKeeps, ParseHeaderKeeps,
       SetCapsKeeps, HaltKeeps
  <2>2. UNCHANGED <<pad, active, promised>>
    BY <1>3 DEF Enter, Leave, CreateParser, ParseHeader, SetCaps, Halt,
                threadVars, downstream
  <2> QED
    BY <2>1, <2>2
<1>4. CASE Stop \/ \E flush \in BOOLEAN : Seek(flush)
  <2>1. PICK what \in {"seek", "stop"}, flush \in BOOLEAN :
          Begin(what, flush) /\ (what = "seek" => state = "movie")
    BY <1>4 DEF Stop, Seek
  <2>2. UNCHANGED <<pad, active, promised>>
    BY <2>1 DEF Begin, threadVars
  <2> QED
    BY <2>1, <2>2, BeginKeeps
<1>5. CASE Preroll \/ \E s \in Streams : Sink(s)
  <2>1. UNCHANGED <<pad, active, promised>>
    BY <1>5 DEF Preroll, Sink, threadVars
  <2> QED
    BY <1>5, <2>1, SinksKeep
<1>6. CASE Activate
  <2>1. Pads!Start /\ UNCHANGED promised
    BY <1>6 DEF Activate, Pads!Start
  <2>2. promised \/ promised' = FALSE
    BY <1>1, <2>1
  <2> QED
    BY <1>6, <2>1, <2>2, ActivateKeeps DEF Pads!Next
<1>7. CASE SeekPerform
  <2>1. PICK ps : Restart(ps)
    BY <1>7, Zenon DEF SeekPerform
  <2>2. user.flush => pad' = [s \in Streams |-> Fresh]
    BY <2>1 DEF Restart
  <2>3. ~user.flush => pad' = pad
    BY <2>1 DEF Restart, downstream
  <2>4. UNCHANGED active /\ active /\ promised' = (promised /\ ps)
    BY <1>1, <1>7, <2>1 DEF Restart, Safe, Phases, SeekPerform
  <2>5. CASE promised' = FALSE
    BY <1>7, <2>5, SeekPerformKeeps DEF Pads!Next
  <2>6. CASE promised' # FALSE
    <3>1. promised = TRUE /\ promised' = promised
      BY <1>1, <2>4, <2>6
    <3>2. CASE user.flush
      <4>1. Pads!Flush
        BY <2>2, <2>4, <3>1, <3>2, Zenon
           DEF Pads!Flush, Pads!Fresh, Fresh, Pads!None, None
      <4> QED
        BY <1>7, <3>1, <4>1, SeekPerformKeeps DEF Pads!Next
    <3>3. CASE ~user.flush
      BY <1>7, <2>3, <2>4, <3>1, <3>3, SeekPerformKeeps
    <3> QED
      BY <3>2, <3>3
  <2> QED
    BY <2>5, <2>6
<1>8. CASE SeekRefused
  <2>1. promised' = FALSE
    BY <1>8 DEF SeekRefused, Restart
  <2> QED
    BY <1>8, <2>1, SeekRefusedKeeps DEF Pads!Next
<1>9. CASE Deactivate
  <2>1. active /\ active' = FALSE /\ UNCHANGED promised
        /\ pad' = [s \in Streams |-> Fresh]
    BY <1>1, <1>9 DEF Deactivate, Safe, Phases
  <2>2. Pads!Stop
    BY <2>1, Zenon DEF Pads!Stop, Pads!Fresh, Fresh, Pads!None, None
  <2>3. promised \/ promised' = FALSE
    BY <1>1, <2>1
  <2> QED
    BY <1>9, <2>2, <2>3, DeactivateKeeps DEF Pads!Next
<1>10. CASE UNCHANGED vars
  <2>1. UNCHANGED <<active, state, running, closed, threads, loop, user, config,
                    stream, valid_mask, new_segment_mask, pending_event, pos,
                    pad, fifo, flushing, playing, promised, count>>
    BY <1>10 DEF vars, threadVars, masks, downstream
  <2>2. Flags' /\ Phases'
    BY <2>1, Zenon DEF IInv, Safe, Flags, Phases
  <2>3. Loop' /\ SomeLeft' /\ Threads' /\ fifo' \in [Streams -> Fill]
    BY <2>1 DEF IInv, Safe, Loop, SomeLeft, Threads, Tables
  <2> QED
    BY <2>1, <2>2, <2>3, TablesStay
<1> QED
  BY <1>2, <1>3, <1>4, <1>5, <1>6, <1>7, <1>8, <1>9, <1>10
     DEF Next, LoopStep, UserStep

LEMMA Start == Init => IInv
<1> SUFFICES ASSUME Init
             PROVE  IInv
  OBVIOUS
<1> USE DEF Init
<1>1. Flags
  <2>1. config \in ConfigType
    <3>1. config \in [mode : {"file", "track"}, limit : Nat, drop : BOOLEAN,
                      parts : BOOLEAN, trick : {FALSE}]
      BY DemuxerAssumption
    <3> QED
      BY <3>1 DEF ConfigType
  <2> QED
    BY <2>1 DEF Flags
<1>2. Phases
  BY IdleType DEF Phases, NoCall
<1>3. Loop
  BY IdleType DEF Loop, Idle
<1>4. Threads
  BY DemuxerAssumption DEF Threads, NoCall
<1>5. Tables
  BY FreshType, NewStreamType, Numbers DEF Tables
<1>6. /\ \A s \in Streams : stream[s] = NoStream
      /\ ~NoStream.valid /\ NoStream.held = None /\ NoStream.queue = <<>>
  BY DEF NoStream, NewStream
<1>7. Masks /\ Reads
  <2>1. Valid = {}
    BY <1>6 DEF Valid
  <2> QED
    BY <1>6, <2>1 DEF Masks, Reads
<1>8. SomeLeft /\ Sending /\ PadsAgree /\ InOrder
  <2>1. Idle.pc = "none"
    BY DEF Idle
  <2> QED
    BY <2>1 DEF SomeLeft, Sending, PadsAgree, InOrder, Seen
<1> QED
  BY <1>1, <1>2, <1>3, <1>4, <1>5, <1>7, <1>8 DEF IInv, Safe

LEMMA InvariantHolds == Spec => []IInv
<1>1. IInv /\ [Next]_vars => IInv'
  BY Step
<1> QED
  BY Start, <1>1, PTL DEF Spec

-------------------------------------------------------------------------------
(* The theorems *)

\* The tables keep to their types, no queue behind a pad is overfull, no more
\* threads wait than were started, a sample put together from parts of two is
\* never queued, and while a file is played the masks of the streams say what
\* the streams do (aiurdemux.c:3760-3800, 3918-3930).
THEOREM TypeCorrect == Spec => []TypeOK
<1>1. IInv => TypeOK
  <2> SUFFICES ASSUME IInv
               PROVE  TypeOK
    OBVIOUS
  <2>1. Safe
    BY DEF IInv
  <2>2. /\ active \in BOOLEAN /\ running \in BOOLEAN /\ closed \in BOOLEAN
        /\ state \in {"probe", "initial", "header", "movie"}
    BY <2>1 DEF Safe, Flags
  <2>3. threads \in 0 .. 2 * MaxCalls + 1
    BY <2>1, DemuxerAssumption DEF Safe, Threads
  <2>4. OrNone \subseteq None .. Mixed /\ Number \subseteq 0 .. Mixed
    BY DemuxerAssumption DEF OrNone, Number, Mixed, None
  <2>5. /\ loop.pc \in {"none", "top", "do", "push", "drain"}
        /\ loop.s \in Streams /\ loop.n \in None .. Mixed
    BY <2>1, <2>4 DEF Safe, Loop, LoopType
  <2>6. \A s \in Streams :
          /\ stream[s].held \in None .. Mixed
          /\ stream[s].preroll \in 0 .. MaxInterleave + 1
          /\ \A i \in DOMAIN stream[s].queue : stream[s].queue[i] \in 0 .. Mixed
          /\ pos[s] \in 0 .. Samples
          /\ fifo[s] \in 0 .. Capacity
          /\ pad[s].last \in None .. Mixed
    <3>1. TAKE s \in Streams
    <3>2. /\ stream[s] \in StreamType /\ pad[s] \in PadType
          /\ pos[s] \in Places /\ fifo[s] \in Fill
      BY <2>1 DEF Safe, Tables
    <3>3. stream[s].queue \in Seq(Number) /\ stream[s].held \in OrNone
          /\ stream[s].preroll \in Prerolls /\ pad[s].last \in OrNone
      BY <3>2 DEF StreamType, PadType
    <3>4. \A i \in DOMAIN stream[s].queue : stream[s].queue[i] \in Number
      BY <3>3
    <3> QED
      BY <2>4, <3>2, <3>3, <3>4 DEF Prerolls, Places, Fill
  <2>7. /\ new_segment_mask \subseteq {s \in Streams : stream[s].new_segment}
        /\ Valid \subseteq valid_mask
        /\ state = "movie" /\ ~pending_event => valid_mask = Valid
    BY <2>1 DEF Safe, Masks
  <2> QED
    BY <2>2, <2>3, <2>5, <2>6, <2>7 DEF TypeOK
<1> QED
  BY <1>1, InvariantHolds, PTL

\* The demuxer keeps what PadProtocol promises of each pad, whatever the
\* application does and whenever: its states map to those of PadProtocol, and
\* each of its steps is a step there or changes nothing (aiurdemux.c:1376, 3918).
THEOREM PadsKeepPromise == Spec => PadSpec
<1>1. Init => Pads!Init
  BY DEF Init, Pads!Init, Fresh, Pads!Fresh, None, Pads!None
<1>2. IInv /\ [Next]_vars => [Pads!Next]_<<pad, active, promised>>
  BY Step
<1> QED
  BY <1>1, <1>2, InvariantHolds, PTL DEF Spec, PadSpec, Pads!Spec
================================================================================
