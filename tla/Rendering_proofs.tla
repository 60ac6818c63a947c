--------------------------- MODULE Rendering_proofs ---------------------------
(***************************************************************************)
(* Theorems about Rendering, for any number of buffers, any bounds of the  *)
(* queues and of the retries, and any hazards.                             *)
(***************************************************************************)
EXTENDS Rendering, FiniteSetTheorems, SequenceTheorems, TLAPS

-------------------------------------------------------------------------------
(* What the invariant is made of                                           *)

Has(s, b) == \E i \in 1 .. Len(s) : s[i] = b

Distinct(s) == \A i, j \in 1 .. Len(s) : i # j => s[i] # s[j]

\* The same, but for buffers of main memory
Single(s) == \A i, j \in 1 .. Len(s) : s[i] = s[j] => i = j \/ s[i] = SwBuffer

CodecPlaces == {"idle", "newbuf", "dq", "store", "drop", "take", "retry", "push",
                "chain", "decode"}
SinkPlaces == {"idle", "clear", "release", "show", "dq once", "trydq", "append",
               "queued", "count", "dq", "drop"}

States == {"ALLOCATED", "SHOWED", "SHOWING", "IDLE", "FREE", "NONE"}

Thread(Places) ==
  [pc : Places, buffer : Buffers \cup {None, SwBuffer},
   dequeued : Buffers \cup {None}, n : Int, list : SUBSET Buffers,
   again : BOOLEAN]

-------------------------------------------------------------------------------
(* The invariant *)

Tables ==
  /\ bufstate \in [Buffers -> States]
  /\ showcnt \in [Buffers -> Int] /\ refs \in [Buffers -> Int]
  /\ free_pool \in Seq(Buffers) /\ queue \in Seq(Buffers \cup {SwBuffer})
  /\ driver \in Seq(Buffers) /\ done \in Seq(Buffers)
  /\ v4llist \in SUBSET Buffers /\ v4lqueued \in Int

Modes ==
  /\ qbuff_count \in 0 .. 2
  /\ stream_on \in BOOLEAN /\ driver_on \in BOOLEAN /\ suspend \in BOOLEAN
  /\ pm_mode \in {"0", "1", "2"} /\ events \in SUBSET Events
  /\ decoder \in Decoders /\ phase \in {"run", "flush", "stop", "ready", "null"}

CodecRuns ==
  /\ codec \in Thread(CodecPlaces)
  /\ codec.pc = "push" <=> codec.buffer # None
  /\ codec.pc = "store" => codec.dequeued # None
  /\ codec.dequeued # None => codec.pc \in {"store", "drop"}
  /\ decoder = "vpu" => codec.pc \in {"idle", "chain", "decode", "push"}
                        /\ codec.buffer # SwBuffer
  /\ decoder = "copy" => codec.pc \notin {"chain", "decode"}

SinkRuns ==
  /\ sink \in Thread(SinkPlaces)
  /\ sink.pc = "idle" <=> sink.buffer = None
  /\ sink.pc \in {"append", "queued", "count"} => sink.buffer # SwBuffer
  /\ sink.dequeued # None => sink.pc = "drop"

Resting ==
  phase \in {"ready", "null"} =>
    codec.pc = "idle" /\ sink.pc = "idle" /\ queue = <<>>

\* Nobody has suspended the system, and the threads did not meet in the list.
Awake == ~Harmed({"suspend"}) /\ ~ListRaced

NoSuspend == Awake => pm_mode = "0" /\ ~suspend /\ sink.pc # "clear"

\* The buffers in the list and the one that is on its way into it
Claimed == v4llist \cup (IF sink.pc = "append" THEN {sink.buffer} ELSE {})

\* The buffer that codec has dequeued and not yet counted
Pending(b) == codec.pc = "store" /\ codec.dequeued = b

Out(b) == Has(driver, b) \/ Has(done, b) \/ Pending(b)

\* What the sink appends is not listed; the VPU's decoder leaves the list alone.
Appending ==
  sink.pc = "append" =>
    sink.buffer \notin v4llist /\ (decoder = "vpu" => sink.list = v4llist)

Listed ==
  /\ Distinct(driver) /\ Distinct(done)
  /\ \A b \in Buffers : Has(driver, b) => ~Has(done, b) /\ ~Pending(b)
  /\ \A b \in Buffers : Has(done, b) => ~Pending(b)
  /\ \A b \in Buffers : Out(b) => b \in v4llist
  /\ ~Harmed({"geometry", "error"}) => \A b \in v4llist : Out(b)
  /\ sink.pc = "queued" => Len(driver) > 0 /\ driver[Len(driver)] = sink.buffer
  /\ Appending

Uncounted == Number(sink.pc \in {"queued", "count"})

Streams ==
  /\ ~driver_on => ~stream_on
  /\ phase = "null" => ~stream_on
  /\ ~Harmed({"streamon"}) =>
       /\ ~stream_on => qbuff_count <= StreamOnAt
       /\ ~driver_on /\ phase # "null" => Len(driver) <= qbuff_count + Uncounted

Counted ==
  decoder = "vpu" /\ ~Harmed({"suspend", "geometry"}) /\ phase # "null" =>
    /\ v4lqueued + Uncounted = Len(driver) + Len(done)
    /\ sink.pc = "count" => sink.n = v4lqueued

AtCodec(b) == codec.buffer = b
InQueue(b) == Has(queue, b)
AtSink(b) == sink.buffer = b
Flies(b) == AtCodec(b) \/ InQueue(b) \/ AtSink(b)

CodecDrops(b) == codec.pc = "drop" /\ codec.dequeued = b
SinkDrops(b) == sink.pc = "drop" /\ sink.dequeued = b
Dropped(b) == CodecDrops(b) \/ SinkDrops(b)

Pooled(b) == Has(free_pool, b)

\* The element has its reference of each frame.
Based == decoder = "vpu" /\ phase \in {"run", "flush", "stop"}

\* A buffer is on its way in one place at most.
OneWay(b) ==
  /\ ~(AtCodec(b) /\ InQueue(b)) /\ ~(AtCodec(b) /\ AtSink(b))
  /\ ~(InQueue(b) /\ AtSink(b)) /\ ~(CodecDrops(b) /\ SinkDrops(b))

Balanced(b) ==
  /\ refs[b] >= 1
  /\ phase = "ready" => refs[b] = 1
  /\ phase # "ready" \/ ~FlushedVpu =>
       refs[b] = Number(Pooled(b)) + Number(Based) + Number(Flies(b))
                 + Number(b \in Claimed) + Number(Dropped(b))

Idles(b) ==
  /\ bufstate[b] \in {"ALLOCATED", "SHOWED", "SHOWING", "IDLE"}
  /\ bufstate[b] = "IDLE" <=> Pooled(b)
  /\ phase = "ready" => bufstate[b] \in {"IDLE", "SHOWING"} \/ Harmed({"error"})
  /\ Pooled(b) => /\ ~Flies(b) /\ b \notin Claimed /\ ~Dropped(b) /\ ~Based
                  /\ showcnt[b] = 0

Shows(b) ==
  /\ showcnt[b] \in Number(b \in Claimed) .. MaxShow
  /\ bufstate[b] = "SHOWING" => showcnt[b] >= 1
  /\ bufstate[b] # "SHOWING" /\ b \notin Claimed => showcnt[b] = 0
  /\ ~FlushedVpu => showcnt[b] = Number(b \in Claimed)
  /\ b \in Claimed /\ bufstate[b] # "SHOWING" =>
       Harmed({"error"}) \/ (sink.pc \in {"append", "queued"} /\ AtSink(b))
  /\ Out(b) /\ bufstate[b] # "SHOWING" => sink.pc = "queued" /\ AtSink(b)

Apart(b) ==
  /\ ~FlushedVpu /\ b \in Claimed =>
       ~AtCodec(b) /\ ~InQueue(b) /\ ~(AtSink(b) /\ sink.pc = "show")
  /\ decoder = "copy" /\ Dropped(b) =>
       /\ b \notin Claimed /\ ~AtCodec(b) /\ ~InQueue(b)
       /\ ~(AtSink(b) /\ sink.pc = "show")
  /\ Based /\ Flies(b) => b \in display_handle
  /\ Based /\ ~FlushedVpu /\ (b \in Claimed \/ Dropped(b)) => b \in display_handle

Sound(b) == OneWay(b) /\ Balanced(b) /\ Idles(b) /\ Shows(b) /\ Apart(b)

Handles ==
  /\ display_handle \in SUBSET Buffers
  /\ output_size = Cardinality(display_handle)
  /\ latest \in Buffers \cup {None}

\* The pool holds a buffer once, and so does the queue.
Once == Distinct(free_pool) /\ Single(queue)

\* When the sink is closed no buffer is in use.
Nulled ==
  /\ AllFreed /\ free_pool = <<>>
  /\ \A b \in Buffers :
       bufstate[b] \in {"FREE", "NONE"} /\ refs[b] \in {0, 1} /\ showcnt[b] \in 0 .. MaxShow

Shared == Once /\ \A b \in Buffers : Sound(b)

Sharing == Awake => IF phase # "null" THEN Shared ELSE Nulled

\* Who flushes the pipeline is on record.
Begun == phase = "flush" => Harmed({"flush"})

-------------------------------------------------------------------------------
(* Buffers and sets of them                                                *)

LEMMA Numbers ==
  /\ None = 0 /\ SwBuffer \in Nat /\ SwBuffer \notin Buffers /\ None \notin Buffers
  /\ Buffers \in SUBSET Nat /\ None # SwBuffer /\ IsFiniteSet(Buffers)
<1>1. NumBuffers \in Nat \ {0}
  BY V4lSinkAssumption
<1>2. IsFiniteSet(1 .. NumBuffers)
  BY <1>1, FS_Interval
<1> QED
  BY <1>1, <1>2 DEF None, SwBuffer, Buffers

LEMMA Finite ==
  ASSUME NEW R \in SUBSET Buffers
  PROVE  IsFiniteSet(R) /\ Cardinality(R) \in Nat
BY Numbers, FS_Subset, FS_CardinalityType

\* The rank of a buffer among those of a set, which counts it from 1
Rank(R) == [b \in R |-> Cardinality({c \in R : c <= b})]

LEMMA RankRises ==
  ASSUME NEW R \in SUBSET Buffers, NEW a \in R, NEW b \in R, a < b
  PROVE  Rank(R)[a] < Rank(R)[b]
<1> DEFINE A == {c \in R : c <= a}
           B == {c \in R : c <= b}
<1>1. A \in SUBSET B /\ b \in B \ A
  <2>1. \A c \in R : c \in Nat
    BY Numbers
  <2> QED
    BY <2>1
<1>2. IsFiniteSet(B) /\ Cardinality(A) \in Nat /\ Cardinality(B) \in Nat
  <2>1. A \in SUBSET Buffers /\ B \in SUBSET Buffers
    OBVIOUS
  <2> QED
    BY <2>1, Finite
<1>3. Cardinality(A) <= Cardinality(B) /\ Cardinality(A) # Cardinality(B)
  <2> HIDE DEF A, B
  <2>1. A # B
    BY <1>1
  <2> QED
    BY <1>1, <1>2, <2>1, FS_Subset
<1>4. Cardinality(A) < Cardinality(B)
  <2> HIDE DEF A, B
  <2> QED
    BY <1>2, <1>3
<1> QED
  BY <1>4 DEF Rank

LEMMA RankCounts ==
  ASSUME NEW R \in SUBSET Buffers
  PROVE  Rank(R) \in Bijection(R, 1 .. Cardinality(R))
<1> DEFINE n == Cardinality(R)
<1>1. n \in Nat /\ IsFiniteSet(R) /\ IsFiniteSet(1 .. n) /\ Cardinality(1 .. n) = n
  BY Finite, FS_Interval
<1>2. \A b \in R : Rank(R)[b] \in 1 .. n
  <2> SUFFICES ASSUME NEW b \in R PROVE Rank(R)[b] \in 1 .. n
    OBVIOUS
  <2> DEFINE B == {c \in R : c <= b}
  <2>1. b \in Nat /\ b \in B /\ B \in SUBSET R
    BY Numbers
  <2>2. IsFiniteSet(B) /\ Cardinality(B) \in Nat /\ Cardinality(B) <= n
    <3> HIDE DEF B
    <3> QED
      BY <1>1, <2>1, FS_Subset, FS_CardinalityType
  <2>3. Cardinality(B) # 0
    <3> HIDE DEF B
    <3> QED
      BY <2>1, <2>2, FS_EmptySet
  <2> QED
    BY <1>1, <2>2, <2>3 DEF Rank
<1>3. \A a, b \in R : Rank(R)[a] = Rank(R)[b] => a = b
  <2> SUFFICES ASSUME NEW a \in R, NEW b \in R, a # b
               PROVE  Rank(R)[a] # Rank(R)[b]
    OBVIOUS
  <2>1. a \in Nat /\ b \in Nat /\ Rank(R)[a] \in Nat /\ Rank(R)[b] \in Nat
    BY <1>1, <1>2, Numbers
  <2>2. a < b \/ b < a
    BY <2>1
  <2>3. Rank(R)[a] < Rank(R)[b] \/ Rank(R)[b] < Rank(R)[a]
    BY <2>2, RankRises
  <2> QED
    BY <2>1, <2>3
<1>4. Rank(R) \in [R -> 1 .. n]
  <2>1. Rank(R) = [b \in R |-> Rank(R)[b]]
    BY DEF Rank
  <2> QED
    BY <1>2, <2>1
<1>5. Rank(R) \in Injection(R, 1 .. n)
  <2> HIDE DEF n
  <2> QED
    BY <1>3, <1>4, Zenon DEF Injection, IsInjective, Rank
<1>6. Rank(R) \in Surjection(R, 1 .. n)
  <2> HIDE DEF n
  <2>1. Cardinality(R) = n
    BY DEF n
  <2> QED
    BY <1>1, <1>5, <2>1, FS_Injection
<1> QED
  BY <1>5, <1>6, Zenon DEF Bijection

\* Ascending lists the buffers of a set, each of them once.
LEMMA AscendingLists ==
  ASSUME NEW R \in SUBSET Buffers
  PROVE  /\ Ascending(R) \in Seq(Buffers)
         /\ Distinct(Ascending(R))
         /\ \A b : Has(Ascending(R), b) <=> b \in R
<1> DEFINE n == Cardinality(R)
           a == Ascending(R)
<1>1. n \in Nat
  BY Finite
<1>2. /\ \A k \in 1 .. n : \E b \in R : Rank(R)[b] = k
      /\ \A b, c \in R : Rank(R)[b] = Rank(R)[c] => b = c
      /\ \A b \in R : Rank(R)[b] \in 1 .. n
  <2>1. Rank(R) \in Injection(R, 1 .. n) /\ Rank(R) \in Surjection(R, 1 .. n)
    BY RankCounts, Zenon DEF Bijection
  <2>2. DOMAIN Rank(R) = R
    BY DEF Rank
  <2> QED
    BY <2>1, <2>2, Zenon DEF Injection, Surjection, IsInjective
<1>3. a = [k \in 1 .. n |-> CHOOSE b \in R : Cardinality({c \in R : c <= b}) = k]
  BY DEF Ascending
<1>4. \A k \in 1 .. n : a[k] \in R /\ Rank(R)[a[k]] = k
  <2> SUFFICES ASSUME NEW k \in 1 .. n PROVE a[k] \in R /\ Rank(R)[a[k]] = k
    OBVIOUS
  <2>1. a[k] = CHOOSE b \in R : Cardinality({c \in R : c <= b}) = k
    BY <1>3, Zenon
  <2>2. PICK b \in R : Cardinality({c \in R : c <= b}) = k
    BY <1>2 DEF Rank
  <2>3. a[k] \in R /\ Cardinality({c \in R : c <= a[k]}) = k
    BY <2>1, <2>2, Zenon
  <2> QED
    BY <2>3 DEF Rank
<1>5. Len(a) = n /\ a \in Seq(R) /\ a \in Seq(Buffers)
  <2>1. a \in [1 .. n -> R] /\ a \in [1 .. n -> Buffers]
    BY <1>3, <1>4
  <2> HIDE DEF a, n
  <2> QED
    BY <1>1, <2>1
<1>6. Distinct(a)
  <2> HIDE DEF a, n
  <2> QED
    BY <1>4, <1>5 DEF Distinct
<1>7. \A b : Has(a, b) <=> b \in R
  <2> HIDE DEF a, n
  <2> SUFFICES ASSUME NEW b PROVE Has(a, b) <=> b \in R
    OBVIOUS
  <2>1. Has(a, b) => b \in R
    BY <1>4, <1>5 DEF Has
  <2>2. ASSUME b \in R PROVE Has(a, b)
    <3>1. Rank(R)[b] \in 1 .. n
      BY <1>2, <2>2
    <3>2. a[Rank(R)[b]] = b
      BY <1>2, <1>4, <2>2, <3>1
    <3> QED
      BY <1>5, <3>1, <3>2 DEF Has
  <2> QED
    BY <2>1, <2>2
<1> QED
  BY <1>5, <1>6, <1>7

-------------------------------------------------------------------------------
(* Types.  What a call leaves alone besides what its definition says:      *)

Frame == UNCHANGED <<vpuVars, decoder, phase>>

LEMMA StateNames ==
  /\ "ALLOCATED" \in States /\ "SHOWED" \in States /\ "SHOWING" \in States
  /\ "IDLE" \in States /\ "FREE" \in States /\ "NONE" \in States
BY DEF States

LEMMA Threads ==
  ASSUME CodecRuns, SinkRuns
  PROVE  /\ codec.buffer \in Buffers \cup {None, SwBuffer}
         /\ codec.dequeued \in Buffers \cup {None}
         /\ codec.n \in Int /\ codec.again \in BOOLEAN
         /\ codec.list \in SUBSET Buffers /\ sink.list \in SUBSET Buffers
         /\ sink.buffer \in Buffers \cup {None, SwBuffer}
         /\ sink.dequeued \in Buffers \cup {None}
         /\ sink.n \in Int /\ sink.again \in BOOLEAN
BY DEF CodecRuns, SinkRuns, Thread

\* The threads have what they work for.
LEMMA Working ==
  ASSUME CodecRuns, SinkRuns
  PROVE  /\ codec.pc = "push" => codec.buffer \in Buffers \cup {SwBuffer}
         /\ codec.pc = "store" => codec.dequeued \in Buffers
         /\ sink.pc \in {"release", "show"} => sink.buffer \in Buffers \cup {SwBuffer}
         /\ sink.pc \in {"append", "queued", "count"} => sink.buffer \in Buffers
<1>1. codec.pc = "push" => codec.buffer # None
  BY Zenon DEF CodecRuns
<1>2. codec.pc = "store" => codec.dequeued # None
  BY Zenon DEF CodecRuns
<1>3. sink.pc # "idle" => sink.buffer # None
  BY Zenon DEF SinkRuns
<1>4. sink.pc \in {"append", "queued", "count"} => sink.buffer # SwBuffer
  BY Zenon DEF SinkRuns
<1> QED
  BY <1>1, <1>2, <1>3, <1>4, Threads

Books ==
  /\ bufstate \in [Buffers -> States] /\ refs \in [Buffers -> Int]
  /\ free_pool \in Seq(Buffers)

LEMMA UnrefBooks ==
  ASSUME Books, NEW b \in Buffers \cup {SwBuffer}, Unref(b)
  PROVE  Books'
<1>1. CASE UNCHANGED buffers
  BY <1>1 DEF Books, buffers
<1>2. CASE b \in Buffers /\ refs' = [refs EXCEPT ![b] = @ - 1]
           /\ UNCHANGED <<bufstate, free_pool>>
  BY <1>2 DEF Books
<1>3. CASE b \in Buffers /\ bufstate' = [bufstate EXCEPT ![b] = "IDLE"]
           /\ free_pool' = Append(free_pool, b) /\ UNCHANGED refs
  BY <1>3, StateNames DEF Books
<1>4. CASE b \in Buffers /\ bufstate' = [bufstate EXCEPT ![b] = "NONE"]
           /\ refs' = [refs EXCEPT ![b] = 0] /\ UNCHANGED free_pool
  BY <1>4, StateNames DEF Books
<1> QED
  BY <1>1, <1>2, <1>3, <1>4, Zenon DEF Unref, Finalize

LEMMA DequeuedBooks ==
  ASSUME bufstate \in [Buffers -> States], showcnt \in [Buffers -> Int],
         NEW b \in Buffers, Dequeued(b)
  PROVE  bufstate' \in [Buffers -> States] /\ showcnt' \in [Buffers -> Int]
BY StateNames, SMT DEF Dequeued

LEMMA AppendBooks ==
  ASSUME CodecRuns, SinkRuns, sink.buffer \in Buffers, AppendIndex
  PROVE  v4llist' \in SUBSET Buffers
<1>1. v4llist' = sink.list \cup {sink.buffer} \/ v4llist' \in SUBSET Buffers
  BY Zenon DEF AppendIndex
<1> QED
  BY <1>1, Threads

LEMMA HandedBooks ==
  ASSUME NEW Gone \in SUBSET Buffers
  PROVE  /\ Handed(Gone) \in [Buffers -> States]
         /\ Free(Gone) \in Seq(Buffers) /\ Distinct(Free(Gone))
         /\ \A b : Has(Free(Gone), b) <=> b \in Buffers \ Gone
<1> DEFINE a == Ascending(Buffers \ Gone)
<1>1. a \in Seq(Buffers) /\ Distinct(a) /\ \A b : Has(a, b) <=> b \in Buffers \ Gone
  BY AscendingLists
<1>2. Free(Gone) = [i \in 1 .. Len(a) |-> a[(Len(a) - i) + 1]] /\ Len(a) \in Nat
  BY <1>1 DEF Free, Reverse
<1> HIDE DEF a
<1> DEFINE r == Free(Gone)
<1>3. /\ Len(r) = Len(a) /\ \A i \in 1 .. Len(a) : r[i] = a[(Len(a) - i) + 1]
      /\ r \in Seq(Buffers)
  BY <1>1, <1>2
<1> HIDE DEF r
<1>4. Distinct(r)
  <2> SUFFICES ASSUME NEW i \in 1 .. Len(a), NEW j \in 1 .. Len(a), i # j
               PROVE  r[i] # r[j]
    BY <1>3 DEF Distinct
  <2>1. /\ (Len(a) - i) + 1 \in 1 .. Len(a) /\ (Len(a) - j) + 1 \in 1 .. Len(a)
        /\ (Len(a) - i) + 1 # (Len(a) - j) + 1
    BY <1>2
  <2>2. \A k, l \in 1 .. Len(a) : k # l => a[k] # a[l]
    BY <1>1 DEF Distinct
  <2>3. a[(Len(a) - i) + 1] # a[(Len(a) - j) + 1]
    BY <2>1, <2>2, Zenon
  <2> QED
    BY <1>3, <2>3
<1>5. \A b : Has(r, b) <=> Has(a, b)
  <2> SUFFICES ASSUME NEW b PROVE Has(r, b) <=> Has(a, b)
    OBVIOUS
  <2>1. \A i \in 1 .. Len(a) : (Len(a) - i) + 1 \in 1 .. Len(a)
                               /\ r[(Len(a) - i) + 1] = a[i]
    BY <1>2, <1>3
  <2>2. ASSUME NEW i \in 1 .. Len(a), r[i] = b PROVE Has(a, b)
    <3>1. (Len(a) - i) + 1 \in 1 .. Len(a) /\ a[(Len(a) - i) + 1] = b
      BY <1>3, <2>1, <2>2
    <3> QED
      BY <3>1, Zenon DEF Has
  <2>3. ASSUME NEW i \in 1 .. Len(a), a[i] = b PROVE Has(r, b)
    <3>1. (Len(a) - i) + 1 \in 1 .. Len(r) /\ r[(Len(a) - i) + 1] = b
      BY <1>3, <2>1, <2>3
    <3> QED
      BY <3>1, Zenon DEF Has
  <2> QED
    BY <1>3, <2>2, <2>3 DEF Has
<1>6. Handed(Gone) \in [Buffers -> States]
  BY StateNames DEF Handed
<1> QED
  BY <1>1, <1>3, <1>4, <1>5, <1>6, Zenon DEF r

LEMMA TablesKept ==
  ASSUME Tables, CodecRuns, SinkRuns, Next PROVE Tables'
<1>1. CASE Start
  BY <1>1 DEF Start, Tables, buffers, device, stream, vpuVars
<1>2. CASE Push
  <2>1. PICK b \in Buffers \cup {SwBuffer} : b = codec.buffer
    BY <1>2, Working DEF Push
  <2>2. UNCHANGED <<showcnt, device, v4llist, v4lqueued>>
    BY <1>2, Zenon DEF Push
  <2>3. CASE Unref(b) /\ UNCHANGED queue
    BY <2>2, <2>3, UnrefBooks DEF Tables, Books, device
  <2>4. CASE queue' = Append(queue, b) /\ UNCHANGED buffers
    BY <2>2, <2>4 DEF Tables, buffers, device
  <2> QED
    BY <1>2, <2>1, <2>3, <2>4, Zenon DEF Push
<1>3. CASE NewBuffer /\ Frame
  BY <1>3 DEF NewBuffer, Tables, buffers, device, stream, vpuVars
<1>4. CASE CodecDequeue /\ Frame
  <2>1. (done' = Tail(done) /\ done # <<>>) \/ done' = done
    BY <1>4, Zenon DEF CodecDequeue
  <2>2. UNCHANGED <<buffers, showcnt, v4llist, v4lqueued, driver, queue>>
    BY <1>4, Zenon DEF CodecDequeue
  <2>3. done' \in Seq(Buffers)
    <3>1. CASE done' = Tail(done) /\ done # <<>>
      BY <3>1 DEF Tables
    <3>2. CASE done' = done
      BY <3>2 DEF Tables
    <3> QED
      BY <2>1, <3>1, <3>2
  <2> QED
    BY <2>2, <2>3 DEF Tables, buffers
<1>5. CASE CodecStore /\ Frame
  <2>1. PICK b \in Buffers : b = codec.dequeued
    BY <1>5, Working DEF CodecStore
  <2>2. Dequeued(b) /\ v4lqueued' = codec.n - 1
        /\ UNCHANGED <<refs, free_pool, device, queue>>
    BY <1>5, <2>1, Zenon DEF CodecStore
  <2>3. bufstate' \in [Buffers -> States] /\ showcnt' \in [Buffers -> Int]
    BY <2>2, DequeuedBooks DEF Tables
  <2>4. v4lqueued' \in Int
    BY <2>2, Threads
  <2>5. v4llist' \in SUBSET Buffers
    <3>1. v4llist' \in {L \ {b} : L \in {v4llist, codec.list}}
      BY <1>5, <2>1, Zenon DEF CodecStore
    <3> QED
      BY <3>1, Threads DEF Tables
  <2> QED
    BY <2>2, <2>3, <2>4, <2>5, Zenon DEF Tables, device
<1>6. CASE CodecDrop /\ Frame
  <2>1. UNCHANGED <<showcnt, queue, device, v4llist, v4lqueued>>
    BY <1>6, Zenon DEF CodecDrop
  <2>2. CASE UNCHANGED buffers
    BY <2>1, <2>2 DEF Tables, device, buffers
  <2>3. CASE codec.dequeued # None /\ Unref(codec.dequeued)
    <3>1. PICK b \in Buffers : b = codec.dequeued
      BY <2>3, Threads
    <3> QED
      BY <2>1, <2>3, <3>1, UnrefBooks DEF Tables, Books, device
  <2> QED
    BY <1>6, <2>2, <2>3, Zenon DEF CodecDrop
<1>7. CASE Take /\ Frame
  <2>1. free_pool # <<>> /\ free_pool' = Tail(free_pool)
        /\ bufstate' = [bufstate EXCEPT ![Head(free_pool)] = "ALLOCATED"]
        /\ UNCHANGED <<refs, showcnt, v4llist, v4lqueued, device, queue>>
    BY <1>7, Zenon DEF Take
  <2> QED
    BY <2>1, StateNames DEF Tables, device
<1>8. CASE Retry /\ Frame
  BY <1>8 DEF Retry, Tables, buffers, device, stream, vpuVars
<1>9. CASE TakeSoftware /\ Frame
  BY <1>9 DEF TakeSoftware, Tables, buffers, device, stream, vpuVars
<1>10. CASE CheckDisplayQueue /\ UNCHANGED <<decoder, phase>>
  BY <1>10 DEF CheckDisplayQueue, Tables, buffers, device, stream, vpuVars
<1>11. CASE NoPicture /\ UNCHANGED <<decoder, phase>>
  BY <1>11 DEF NoPicture, Tables, buffers, device, stream, vpuVars
<1>12. ASSUME NEW f \in Buffers, Output(f), UNCHANGED <<decoder, phase>>
      PROVE  Tables'
  <2>1. UNCHANGED <<bufstate, free_pool, showcnt, v4llist, v4lqueued, device, queue>>
    BY <1>12, Zenon DEF Output
  <2>2. refs' \in [Buffers -> Int]
    <3>1. refs' = refs \/ refs' = [refs EXCEPT ![f] = @ + 1]
      BY <1>12, Zenon DEF Output, ShowFrame
    <3> QED
      BY <3>1 DEF Tables
  <2> QED
    BY <2>1, <2>2 DEF Tables, device
<1>13. CASE Interrupt
  BY <1>13 DEF Interrupt, Tables, buffers, device, stream, vpuVars
<1>14. CASE Drain
  <2>1. queue # <<>> /\ queue' = Tail(queue) /\ Unref(Head(queue))
        /\ UNCHANGED <<showcnt, device, v4llist, v4lqueued>>
    BY <1>14, Zenon DEF Drain
  <2>2. PICK b \in Buffers \cup {SwBuffer} : b = Head(queue)
    BY <2>1 DEF Tables
  <2>3. Books'
    BY <2>1, <2>2, UnrefBooks DEF Tables, Books
  <2> QED
    BY <2>1, <2>3 DEF Tables, Books, device
<1>15. CASE FlushStop
  BY <1>15 DEF FlushStop, Tables, buffers, device, stream, vpuVars
<1>16. CASE DecoderToReady
  <2>1. UNCHANGED <<showcnt, queue, device, v4llist, v4lqueued>>
    BY <1>16, Zenon DEF DecoderToReady
  <2>2. CASE UNCHANGED buffers
    BY <2>1, <2>2 DEF Tables, device, buffers
  <2>3. CASE FreeFrames
    <3> DEFINE R == {f \in Registered : refs[f] = 1 /\ bufstate[f] \in {"ALLOCATED", "SHOWED"}}
               a == Ascending(R)
    <3>1. R \in SUBSET Buffers
      BY DEF Registered
    <3>2. /\ bufstate' = [f \in Buffers |-> IF f \in R THEN "IDLE" ELSE bufstate[f]]
          /\ refs' = [f \in Buffers |-> IF refs[f] = 1 THEN 1 ELSE refs[f] - 1]
          /\ free_pool' = free_pool \o a
      BY <2>3, Zenon DEF FreeFrames
    <3> HIDE DEF R
    <3>3. a \in Seq(Buffers)
      BY <3>1, AscendingLists
    <3> HIDE DEF a
    <3>4. bufstate' \in [Buffers -> States] /\ refs' \in [Buffers -> Int]
      BY <3>2, StateNames DEF Tables
    <3>5. free_pool' \in Seq(Buffers)
      BY <3>2, <3>3 DEF Tables
    <3> QED
      BY <2>1, <3>4, <3>5 DEF Tables, device
  <2> QED
    BY <1>16, <2>2, <2>3, Zenon DEF DecoderToReady
<1>17. CASE SinkToNull
  <2>1. UNCHANGED <<showcnt, v4lqueued, queue>> /\ free_pool' = <<>> /\ v4llist' = {}
    BY <1>17, Zenon DEF SinkToNull, Close
  <2>2. driver' \in Seq(Buffers) /\ done' \in Seq(Buffers)
    <3>1. (driver' = <<>> /\ done' = <<>>) \/ (driver' = driver /\ done' = done)
      BY <1>17, Zenon DEF SinkToNull, Close, device
    <3>2. CASE driver' = <<>> /\ done' = <<>>
      BY <3>2
    <3>3. CASE driver' = driver /\ done' = done
      BY <3>3 DEF Tables
    <3> QED
      BY <3>1, <3>2, <3>3
  <2>3. bufstate' \in [Buffers -> States] /\ refs' \in [Buffers -> Int]
    <3> DEFINE own == {b \in Buffers : bufstate[b] \in {"IDLE", "SHOWING"}}
    <3>1. /\ bufstate' = [b \in Buffers |->
                            IF bufstate[b] = "NONE" \/ (b \in own /\ refs[b] = 1)
                            THEN "NONE" ELSE "FREE"]
          /\ refs' = [b \in Buffers |-> refs[b] - IF b \in own THEN 1 ELSE 0]
      BY <1>17, Zenon DEF SinkToNull, Close
    <3> HIDE DEF own
    <3> QED
      BY <3>1, StateNames DEF Tables
  <2> QED
    BY <2>1, <2>2, <2>3 DEF Tables
<1>18. CASE Restart
  <2>1. PICK Gone \in SUBSET Buffers : Gone = HandedOut(decoder)
    BY DEF HandedOut, Registered
  <2>2. /\ bufstate' = Handed(Gone) /\ free_pool' = Free(Gone)
        /\ showcnt' = [b \in Buffers |-> 0] /\ refs' = [b \in Buffers |-> 1]
        /\ v4lqueued' = 0 /\ driver' = <<>> /\ done' = <<>>
        /\ UNCHANGED <<v4llist, queue>>
    BY <1>18, <2>1, Zenon DEF Restart, Open
  <2> QED
    BY <2>2, HandedBooks DEF Tables
<1>19. CASE Complete /\ Frame
  BY <1>19 DEF Complete, Tables, buffers, device, stream, vpuVars
<1>20. CASE Render /\ Frame
  BY <1>20 DEF Render, Tables, buffers, device, stream, vpuVars
<1>21. CASE Cleared /\ Frame
  BY <1>21 DEF Cleared, Tables, buffers, device, stream, vpuVars
<1>22. ASSUME NEW b \in Buffers, ClearShowing(b), Frame PROVE Tables'
  <2>1. v4lqueued' = v4lqueued - 1 /\ showcnt' = [showcnt EXCEPT ![b] = 0]
        /\ UNCHANGED <<v4llist, device, queue>>
    BY <1>22, Zenon DEF ClearShowing
  <2>2. CASE /\ bufstate' = [bufstate EXCEPT ![b] = "SHOWED"]
             /\ refs' = [refs EXCEPT ![b] = @ - showcnt[b]] /\ UNCHANGED free_pool
    BY <1>22, <2>1, <2>2, StateNames DEF Tables, device
  <2>3. CASE /\ bufstate' = [bufstate EXCEPT ![b] = "IDLE"]
             /\ refs' = [refs EXCEPT ![b] = 1] /\ free_pool' = Append(free_pool, b)
    BY <1>22, <2>1, <2>3, StateNames DEF Tables, device
  <2> QED
    BY <1>22, <2>2, <2>3, Zenon DEF ClearShowing
<1>23. CASE ShowSoftware /\ Frame
  BY <1>23 DEF ShowSoftware, Tables, buffers, device, stream, vpuVars
<1>24. CASE ShowAgain /\ Frame
  BY <1>24 DEF ShowAgain, Tables, buffers, device, stream, vpuVars
<1>25. CASE Queue /\ Frame
  <2>1. PICK b \in Buffers : b = sink.buffer
    BY <1>25, Working DEF Queue
  <2>2. /\ driver' = Append(driver, b)
        /\ UNCHANGED <<buffers, showcnt, v4lqueued, done, queue>>
    BY <1>25, <2>1, Zenon DEF Queue
  <2>3. v4llist' \in SUBSET Buffers
    BY <1>25, <2>1, AppendBooks DEF Queue
  <2> QED
    BY <2>2, <2>3 DEF Tables, buffers
<1>26. CASE Showing /\ Frame
  BY <1>26, Working, StateNames DEF Tables, Showing, device
<1>27. CASE Count /\ Frame
  <2>1. /\ v4lqueued' = sink.n + 1
        /\ UNCHANGED <<bufstate, refs, free_pool, showcnt, v4llist, queue, driver, done>>
    BY <1>27, Zenon DEF Count, buffers
  <2>2. v4lqueued' \in Int
    BY <2>1, Threads
  <2> QED
    BY <2>1, <2>2, Zenon DEF Tables
<1>28. CASE TryDequeue /\ Frame
  BY <1>28 DEF TryDequeue, Tables, buffers, device, stream, vpuVars
<1>29. CASE SinkDequeue /\ Frame
  <2>1. done # <<>> /\ done' = Tail(done) /\ v4lqueued' = v4lqueued - 1
        /\ UNCHANGED <<refs, free_pool, driver, queue>> /\ Dequeued(Head(done))
    BY <1>29, Zenon DEF SinkDequeue
  <2>2. PICK b \in Buffers : b = Head(done)
    BY <2>1 DEF Tables
  <2>3. bufstate' \in [Buffers -> States] /\ showcnt' \in [Buffers -> Int]
    BY <2>1, <2>2, DequeuedBooks DEF Tables
  <2>4. v4llist' \in SUBSET Buffers
    BY <1>29 DEF SinkDequeue, Tables
  <2> QED
    BY <2>1, <2>3, <2>4 DEF Tables
<1>30. CASE GiveUp /\ Frame
  BY <1>30 DEF GiveUp, Tables, buffers, device, stream, vpuVars
<1>31. CASE SinkDrop /\ Frame
  <2>1. UNCHANGED <<showcnt, queue, device, v4llist, v4lqueued>>
    BY <1>31, Zenon DEF SinkDrop
  <2>2. CASE UNCHANGED buffers
    BY <2>1, <2>2 DEF Tables, device, buffers
  <2>3. CASE sink.dequeued # None /\ Unref(sink.dequeued)
    <3>1. PICK b \in Buffers : b = sink.dequeued
      BY <2>3, Threads
    <3> QED
      BY <2>1, <2>3, <3>1, UnrefBooks DEF Tables, Books, device
  <2> QED
    BY <1>31, <2>2, <2>3, Zenon DEF SinkDrop
<1>32. CASE Release /\ Frame
  <2>1. UNCHANGED <<showcnt, queue, device, v4llist, v4lqueued>>
    BY <1>32, Zenon DEF Release
  <2>2. PICK b \in Buffers \cup {SwBuffer} : b = sink.buffer
    BY <1>32, Working DEF Release
  <2>3. Unref(b)
    BY <1>32, <2>2, Zenon DEF Release
  <2> QED
    BY <2>1, <2>3, UnrefBooks DEF Tables, Books, device
<1>33. CASE Geometry /\ Frame
  <2>1. /\ driver' = <<>> /\ done' = <<>>
        /\ UNCHANGED <<bufstate, refs, free_pool, showcnt, v4llist, v4lqueued, queue>>
    BY <1>33, Zenon DEF Geometry, buffers
  <2> QED
    BY <2>1 DEF Tables
<1>34. CASE QueueFails /\ Frame
  <2>1. UNCHANGED <<buffers, showcnt, v4lqueued, device, queue>>
    BY <1>34, Zenon DEF QueueFails
  <2>2. v4llist' \in SUBSET Buffers
    BY <1>34, Working, AppendBooks DEF QueueFails
  <2> QED
    BY <2>1, <2>2 DEF Tables, buffers, device
<1>35. ASSUME NEW m \in {"1", "2"}, PowerMode(m), Frame PROVE Tables'
  BY <1>35 DEF PowerMode, Tables, buffers, device, stream, vpuVars
<1>36. CASE Refer /\ Frame
  <2>1. PICK b \in Buffers : b = sink.buffer
    BY <1>36 DEF Refer
  <2>2. /\ refs' = [refs EXCEPT ![b] = @ + 1] /\ showcnt' = [showcnt EXCEPT ![b] = @ + 1]
        /\ UNCHANGED <<bufstate, free_pool, v4llist, v4lqueued, device, queue>>
    BY <1>36, <2>1, Zenon DEF Refer
  <2> QED
    BY <2>2 DEF Tables, device
<1> QED
  BY <1>1, <1>2, <1>3, <1>4, <1>5, <1>6, <1>7, <1>8, <1>9, <1>10, <1>11,
     <1>12, <1>13, <1>14, <1>15, <1>16, <1>17, <1>18, <1>19, <1>20, <1>21,
     <1>22, <1>23, <1>24, <1>25, <1>26, <1>27, <1>28, <1>29, <1>30, <1>31,
     <1>32, <1>33, <1>34, <1>35, <1>36
     DEF Next, CodecStep, Allocate, SinkStep, Control, Frame

LEMMA CodecNames ==
  /\ "idle" \in CodecPlaces /\ "newbuf" \in CodecPlaces /\ "dq" \in CodecPlaces
  /\ "store" \in CodecPlaces /\ "drop" \in CodecPlaces /\ "take" \in CodecPlaces
  /\ "retry" \in CodecPlaces /\ "push" \in CodecPlaces
  /\ "chain" \in CodecPlaces /\ "decode" \in CodecPlaces
BY DEF CodecPlaces

LEMMA SinkNames ==
  /\ "idle" \in SinkPlaces /\ "clear" \in SinkPlaces /\ "release" \in SinkPlaces
  /\ "show" \in SinkPlaces /\ "dq once" \in SinkPlaces /\ "trydq" \in SinkPlaces
  /\ "append" \in SinkPlaces /\ "queued" \in SinkPlaces /\ "count" \in SinkPlaces
  /\ "dq" \in SinkPlaces /\ "drop" \in SinkPlaces
BY DEF SinkPlaces

LEMMA AThread ==
  ASSUME NEW P, NEW p \in P, NEW b \in Buffers \cup {None, SwBuffer},
         NEW d \in Buffers \cup {None}, NEW n \in Int, NEW l \in SUBSET Buffers,
         NEW a \in BOOLEAN
  PROVE  [pc |-> p, buffer |-> b, dequeued |-> d, n |-> n, list |-> l, again |-> a]
           \in Thread(P)
BY DEF Thread

LEMMA IdleRests ==
  ASSUME NEW P, "idle" \in P
  PROVE  /\ Idle \in Thread(P) /\ Idle.pc = "idle" /\ Idle.buffer = None
         /\ Idle.dequeued = None
<1>1. 0 \in Int /\ FALSE \in BOOLEAN /\ None \in Buffers \cup {None}
      /\ None \in Buffers \cup {None, SwBuffer} /\ {} \in SUBSET Buffers
  OBVIOUS
<1> QED
  BY <1>1, AThread DEF Idle

LEMMA RestingThread ==
  ASSUME NEW P, NEW p \in P, NEW t, t = [Idle EXCEPT !.pc = p]
  PROVE  /\ t \in Thread(P) /\ t.pc = p /\ t.buffer = None
         /\ t.dequeued = None /\ t.n = 0 /\ t.again = FALSE
<1>1. t = [pc |-> p, buffer |-> None, dequeued |-> None, n |-> 0, list |-> {},
           again |-> FALSE]
  BY DEF Idle
<1>2. [pc |-> p, buffer |-> None, dequeued |-> None, n |-> 0, list |-> {},
       again |-> FALSE] \in Thread(P)
  <2>1. /\ 0 \in Int /\ FALSE \in BOOLEAN /\ None \in Buffers \cup {None}
        /\ None \in Buffers \cup {None, SwBuffer} /\ {} \in SUBSET Buffers
    OBVIOUS
  <2> QED
    BY <2>1, AThread
<1>3. /\ t.pc = p /\ t.buffer = None /\ t.dequeued = None /\ t.n = 0
      /\ t.again = FALSE
  BY DEF Idle
<1> QED
  BY <1>1, <1>2, <1>3, Zenon

\* A thread that pushes has a buffer to push.
LEMMA PushingThread ==
  ASSUME NEW b \in Buffers \cup {SwBuffer},
         codec' = [Idle EXCEPT !.pc = "push", !.buffer = b]
  PROVE  /\ codec' \in Thread(CodecPlaces) /\ codec'.pc = "push" /\ codec'.buffer = b
         /\ codec'.dequeued = None
<1>1. b \in Buffers \cup {None, SwBuffer} /\ "push" \in CodecPlaces
  BY CodecNames
<1>2. codec' = [pc |-> "push", buffer |-> b, dequeued |-> None, n |-> 0, list |-> {},
                again |-> FALSE]
  BY DEF Idle
<1>3. [pc |-> "push", buffer |-> b, dequeued |-> None, n |-> 0, list |-> {},
       again |-> FALSE] \in Thread(CodecPlaces)
  <2>1. 0 \in Int /\ FALSE \in BOOLEAN /\ None \in Buffers \cup {None}
        /\ {} \in SUBSET Buffers
    OBVIOUS
  <2> QED
    BY <1>1, <2>1, AThread
<1>4. codec'.pc = "push" /\ codec'.buffer = b /\ codec'.dequeued = None
  BY DEF Idle
<1> QED
  BY <1>2, <1>3, <1>4, Zenon

\* After a picture chain returns or goes round again, with nothing in its hands.
LEMMA AfterPictureDoes ==
  ASSUME AfterPicture
  PROVE  /\ codec' \in Thread(CodecPlaces) /\ codec'.pc \in {"idle", "chain"}
         /\ codec'.buffer = None /\ codec'.dequeued = None
<1>1. CASE codec' = Idle
  BY <1>1, CodecNames, IdleRests
<1>2. CASE codec' = [Idle EXCEPT !.pc = "chain", !.again = TRUE]
  <2>1. codec' = [pc |-> "chain", buffer |-> None, dequeued |-> None, n |-> 0,
                  list |-> {}, again |-> TRUE]
    BY <1>2 DEF Idle
  <2>2. [pc |-> "chain", buffer |-> None, dequeued |-> None, n |-> 0, list |-> {},
         again |-> TRUE] \in Thread(CodecPlaces)
    <3>1. /\ 0 \in Int /\ TRUE \in BOOLEAN /\ None \in Buffers \cup {None}
          /\ None \in Buffers \cup {None, SwBuffer} /\ {} \in SUBSET Buffers
      OBVIOUS
    <3> QED
      BY <3>1, CodecNames, AThread
  <2>3. codec'.pc = "chain" /\ codec'.buffer = None /\ codec'.dequeued = None
    BY <1>2 DEF Idle
  <2> QED
    BY <2>1, <2>2, <2>3, Zenon
<1> QED
  BY <1>1, <1>2, Zenon DEF AfterPicture

\* What a store of the list may record is that the two threads met in it.
LEMMA RacesRecorded ==
  ASSUME NEW t
  PROVE  /\ RacesAlong(t) \in {events, events \cup {"race"}}
         /\ v4llist # t.list => "race" \in RacesAlong(t)
BY Zenon DEF RacesAlong

LEMMA ModesKept ==
  ASSUME Modes, Next PROVE Modes'
<1>1. CASE Start
  BY <1>1 DEF Start, Modes, buffers, device, stream, vpuVars, Frame
<1>2. CASE Push
  BY <1>2 DEF Push, Modes, buffers, device, stream, vpuVars, Frame
<1>3. CASE NewBuffer /\ Frame
  BY <1>3 DEF NewBuffer, Modes, buffers, device, stream, vpuVars, Frame
<1>4. CASE CodecDequeue /\ Frame
  BY <1>4 DEF CodecDequeue, Modes, buffers, device, stream, vpuVars, Frame
<1>5. CASE CodecStore /\ Frame
  <2>1. events' = events \/ events' = events \cup {"race"}
    BY <1>5, RacesRecorded, Zenon DEF CodecStore
  <2>2. UNCHANGED <<stream, device, decoder, phase>>
    BY <1>5, Zenon DEF CodecStore, Frame
  <2> QED
    BY <2>1, <2>2 DEF Modes, Events, stream, device
<1>6. CASE CodecDrop /\ Frame
  BY <1>6 DEF CodecDrop, Modes, buffers, device, stream, vpuVars, Frame
<1>7. CASE Take /\ Frame
  BY <1>7 DEF Take, Modes, buffers, device, stream, vpuVars, Frame
<1>8. CASE Retry /\ Frame
  BY <1>8 DEF Retry, Modes, buffers, device, stream, vpuVars, Frame
<1>9. CASE TakeSoftware /\ Frame
  BY <1>9 DEF TakeSoftware, Modes, buffers, device, stream, vpuVars, Frame
<1>10. CASE CheckDisplayQueue /\ UNCHANGED <<decoder, phase>>
  BY <1>10 DEF CheckDisplayQueue, Modes, buffers, device, stream, vpuVars, Frame
<1>11. CASE NoPicture /\ UNCHANGED <<decoder, phase>>
  BY <1>11 DEF NoPicture, Modes, buffers, device, stream, vpuVars, Frame
<1>12. ASSUME NEW f \in Buffers, Output(f), UNCHANGED <<decoder, phase>>
      PROVE  Modes'
  BY <1>12 DEF Output, Modes, buffers, device, stream, vpuVars, Frame
<1>13. CASE Interrupt
  <2>1. events' \in SUBSET Events
    BY <1>13 DEF Interrupt, Happens, Modes, Events
  <2>2. phase' \in {"run", "flush", "stop", "ready", "null"}
    BY <1>13 DEF Interrupt
  <2>3. UNCHANGED <<qbuff_count, stream_on, driver_on, suspend, pm_mode, decoder>>
    BY <1>13, Zenon DEF Interrupt, device, stream
  <2> QED
    BY <2>1, <2>2, <2>3 DEF Modes
<1>14. CASE Drain
  BY <1>14 DEF Drain, Modes, buffers, device, stream, vpuVars, Frame
<1>15. CASE FlushStop
  BY <1>15 DEF FlushStop, Modes, buffers, device, stream, vpuVars, Frame
<1>16. CASE DecoderToReady
  BY <1>16 DEF DecoderToReady, Modes, buffers, device, stream, vpuVars, Frame
<1>17. CASE SinkToNull
  <2>1. UNCHANGED <<suspend, pm_mode, events, decoder>> /\ phase' = "null"
        /\ phase' \in {"run", "flush", "stop", "ready", "null"}
    BY <1>17, Zenon DEF SinkToNull, Close
  <2>2. CASE driver_on' = FALSE /\ stream_on' = FALSE /\ qbuff_count' = 0
    <3>1. driver_on' \in BOOLEAN /\ stream_on' \in BOOLEAN
      BY <2>2, Zenon
    <3>2. qbuff_count' \in 0 .. 2
      BY <2>2
    <3> QED
      BY <2>1, <3>1, <3>2, Zenon DEF Modes
  <2>3. CASE driver_on' = driver_on /\ stream_on' = stream_on /\ qbuff_count' = qbuff_count
    BY <2>1, <2>3 DEF Modes
  <2> QED
    BY <1>17, <2>2, <2>3, Zenon DEF SinkToNull, Close, device
<1>18. CASE Restart
  <2>1. UNCHANGED <<stream, events, decoder>> /\ phase' = "run" /\ driver_on' = FALSE
    BY <1>18, Zenon DEF Restart, Open
  <2> QED
    BY <2>1 DEF Modes, stream
<1>19. CASE Complete /\ Frame
  BY <1>19 DEF Complete, Modes, buffers, device, stream, vpuVars, Frame
<1>20. CASE Render /\ Frame
  BY <1>20 DEF Render, Modes, buffers, device, stream, vpuVars, Frame
<1>21. CASE Cleared /\ Frame
  BY <1>21 DEF Cleared, Modes, buffers, device, stream, vpuVars, Frame
<1>22. ASSUME NEW b \in Buffers, ClearShowing(b), Frame PROVE Modes'
  BY <1>22 DEF ClearShowing, Modes, buffers, device, stream, vpuVars, Frame
<1>23. CASE ShowSoftware /\ Frame
  BY <1>23 DEF ShowSoftware, Modes, buffers, device, stream, vpuVars, Frame
<1>24. CASE ShowAgain /\ Frame
  BY <1>24 DEF ShowAgain, Modes, buffers, device, stream, vpuVars, Frame
<1>25. CASE Queue /\ Frame
  <2>1. events' = events \/ events' = events \cup {"race"}
    BY <1>25, RacesRecorded, Zenon DEF Queue
  <2>2. UNCHANGED <<stream, driver_on, decoder, phase>>
    BY <1>25, Zenon DEF Queue, Frame
  <2> QED
    BY <2>1, <2>2 DEF Modes, Events, stream
<1>26. CASE Showing /\ Frame
  BY <1>26 DEF Showing, Modes, buffers, device, stream, vpuVars, Frame
<1>27. CASE Count /\ Frame
  <2>1. events' \in SUBSET Events /\ stream_on' \in BOOLEAN /\ driver_on' \in BOOLEAN
    <3>1. CASE UNCHANGED <<stream_on, driver_on, events>>
      BY <3>1 DEF Modes
    <3>2. CASE StreamOn
      BY <3>2 DEF StreamOn, Happens, Modes, Events
    <3> QED
      BY <1>27, <3>1, <3>2, Zenon DEF Count
  <2>2. qbuff_count' \in 0 .. 2
    BY <1>27 DEF Count, Modes
  <2>3. UNCHANGED <<suspend, pm_mode, decoder, phase>>
    BY <1>27, Zenon DEF Count, Frame
  <2> QED
    BY <2>1, <2>2, <2>3, Zenon DEF Modes
<1>28. CASE TryDequeue /\ Frame
  BY <1>28 DEF TryDequeue, Modes, buffers, device, stream, vpuVars, Frame
<1>29. CASE SinkDequeue /\ Frame
  BY <1>29 DEF SinkDequeue, Modes, buffers, device, stream, vpuVars, Frame
<1>30. CASE GiveUp /\ Frame
  <2>1. events' \in SUBSET Events
    <3>1. events' = events \/ events' = events \cup {"stall"}
      BY <1>30, Zenon DEF GiveUp, Happens
    <3> QED
      BY <3>1 DEF Modes, Events
  <2>2. UNCHANGED <<stream, device, decoder, phase>>
    BY <1>30, Zenon DEF GiveUp, Frame
  <2> QED
    BY <2>1, <2>2 DEF Modes, stream, device
<1>31. CASE SinkDrop /\ Frame
  BY <1>31 DEF SinkDrop, Modes, buffers, device, stream, vpuVars, Frame
<1>32. CASE Release /\ Frame
  BY <1>32 DEF Release, Modes, buffers, device, stream, vpuVars, Frame
<1>33. CASE Geometry /\ Frame
  <2>1. events' \in SUBSET Events
    BY <1>33 DEF Geometry, Happens, Modes, Events
  <2>2. /\ UNCHANGED <<suspend, pm_mode, decoder, phase>>
        /\ stream_on' = FALSE /\ qbuff_count' = 0 /\ driver_on' = FALSE
    BY <1>33, Zenon DEF Geometry, Frame
  <2>3. driver_on' \in BOOLEAN /\ stream_on' \in BOOLEAN
    BY <2>2, Zenon
  <2>4. qbuff_count' \in 0 .. 2
    BY <2>2
  <2> QED
    BY <2>1, <2>2, <2>3, <2>4, Zenon DEF Modes
<1>34. CASE QueueFails /\ Frame
  <2>1. events' \in SUBSET Events
    <3>1. events' \in {events \cup {"error"}, (events \cup {"race"}) \cup {"error"}}
      BY <1>34, RacesRecorded, Zenon DEF QueueFails
    <3> QED
      BY <3>1 DEF Modes, Events
  <2>2. UNCHANGED <<stream, device, decoder, phase>>
    BY <1>34, Zenon DEF QueueFails, Frame
  <2> QED
    BY <2>1, <2>2 DEF Modes, stream, device
<1>35. ASSUME NEW m \in {"1", "2"}, PowerMode(m), Frame PROVE Modes'
  <2>1. events' \in SUBSET Events
    <3>1. events' = events \/ events' = events \cup {"suspend"}
      BY <1>35, Zenon DEF PowerMode, Happens
    <3> QED
      BY <3>1 DEF Modes, Events
  <2>2. UNCHANGED <<qbuff_count, stream_on, suspend, device, decoder, phase>>
        /\ pm_mode' = m
    BY <1>35, Zenon DEF PowerMode, Frame
  <2> QED
    BY <1>35, <2>1, <2>2 DEF Modes, device
<1>36. CASE Refer /\ Frame
  BY <1>36 DEF Refer, Modes, buffers, device, stream, vpuVars, Frame
<1> QED
  BY <1>1, <1>2, <1>3, <1>4, <1>5, <1>6, <1>7, <1>8, <1>9, <1>10, <1>11,
     <1>12, <1>13, <1>14, <1>15, <1>16, <1>17, <1>18, <1>19, <1>20, <1>21,
     <1>22, <1>23, <1>24, <1>25, <1>26, <1>27, <1>28, <1>29, <1>30, <1>31,
     <1>32, <1>33, <1>34, <1>35, <1>36
     DEF Next, CodecStep, Allocate, SinkStep, Control, Frame

\* The decoder's thread goes from place to place with what it works for.
LEMMA CodecRunsKept ==
  ASSUME CodecRuns, Tables, Modes, Next PROVE CodecRuns'
<1>1. CASE Start
  <2>1. PICK p \in {"chain", "newbuf"} :
          codec' = [Idle EXCEPT !.pc = p] /\ (p = "chain" <=> decoder = "vpu")
          /\ decoder' = decoder
    BY <1>1, Zenon DEF Start
  <2>2. p \in CodecPlaces
    BY CodecNames
  <2>3. /\ codec' \in Thread(CodecPlaces) /\ codec'.pc = p /\ codec'.buffer = None
        /\ codec'.dequeued = None
    BY <2>1, <2>2, RestingThread
  <2>4. decoder \in {"copy", "vpu"}
    BY RenderingAssumption DEF Modes
  <2> QED
    BY <2>1, <2>3, <2>4, Numbers DEF CodecRuns
<1>2. CASE Push
  <2>1. decoder' = decoder
    BY <1>2, Zenon DEF Push
  <2>2. CASE decoder = "vpu" /\ AfterPicture
    <3>1. decoder # "copy"
      BY <2>2
    <3> QED
      BY <2>1, <2>2, <3>1, AfterPictureDoes, Numbers DEF CodecRuns
  <2>3. CASE codec' = Idle
    BY <2>1, <2>3, CodecNames, IdleRests, Numbers DEF CodecRuns
  <2> QED
    BY <1>2, <2>2, <2>3, Zenon DEF Push
<1>3. CASE NewBuffer /\ Frame
  BY <1>3 DEF NewBuffer, CodecRuns, Frame, Thread, CodecPlaces
<1>4. CASE CodecDequeue /\ Frame
  <2>1. decoder' = decoder /\ codec.pc = "dq" /\ decoder # "vpu"
    BY <1>4, Zenon DEF CodecDequeue, Frame, CodecRuns
  <2>2. CASE codec' = [codec EXCEPT !.pc = IF codec.again THEN "retry" ELSE "newbuf"]
    BY <2>1, <2>2, CodecNames DEF CodecRuns, Thread
  <2>3. CASE done # <<>> /\ codec' = [codec EXCEPT !.pc = "store", !.dequeued = Head(done),
                                                  !.n = v4lqueued, !.list = v4llist]
    <3>1. PICK b \in Buffers : b = Head(done)
      BY <2>3 DEF Tables
    <3>2. v4lqueued \in Int /\ b # None /\ v4llist \in SUBSET Buffers
      BY Numbers DEF Tables
    <3> QED
      BY <2>1, <2>3, <3>1, <3>2, CodecNames DEF CodecRuns, Thread
  <2> QED
    BY <1>4, <2>2, <2>3, Zenon DEF CodecDequeue
<1>5. CASE CodecStore /\ Frame
  <2>1. /\ decoder' = decoder /\ codec.pc = "store" /\ decoder # "vpu"
        /\ codec' = [codec EXCEPT !.pc = "drop", !.n = 0, !.list = {},
                                  !.dequeued = Drops(codec.dequeued)]
    BY <1>5, Zenon DEF CodecStore, Frame, CodecRuns
  <2>2. Drops(codec.dequeued) \in Buffers \cup {None}
    BY Zenon DEF Drops, CodecRuns, Thread
  <2>3. codec \in Thread(CodecPlaces) /\ "drop" \in CodecPlaces
    BY CodecNames, Zenon DEF CodecRuns
  <2>4. PICK n \in Int : n = 0
    OBVIOUS
  <2>5. /\ codec'.pc = "drop" /\ codec'.buffer = codec.buffer
        /\ codec'.dequeued = Drops(codec.dequeued) /\ codec' \in Thread(CodecPlaces)
    <3>1. codec' = [codec EXCEPT !.pc = "drop", !.n = n, !.list = {},
                                 !.dequeued = Drops(codec.dequeued)]
      BY <2>1, <2>4
    <3> QED
      BY <2>2, <2>3, <3>1 DEF Thread
  <2> QED
    BY <2>1, <2>5 DEF CodecRuns
<1>6. CASE CodecDrop /\ Frame
  BY <1>6 DEF CodecDrop, CodecRuns, Frame, Thread, CodecPlaces
<1>7. CASE Take /\ Frame
  <2>1. /\ decoder' = decoder /\ codec.pc \in {"take", "retry"} /\ free_pool # <<>>
        /\ codec' = [Idle EXCEPT !.pc = "push", !.buffer = Head(free_pool)]
    BY <1>7, Zenon DEF Take, Frame
  <2>2. PICK b \in Buffers : b = Head(free_pool)
    BY <2>1 DEF Tables
  <2>3. codec' \in Thread(CodecPlaces) /\ codec'.pc = "push" /\ codec'.buffer = b
        /\ codec'.dequeued = None
    BY <2>1, <2>2, PushingThread
  <2>4. decoder # "vpu"
    BY <2>1 DEF CodecRuns
  <2> QED
    BY <2>1, <2>3, <2>4, Numbers DEF CodecRuns
<1>8. CASE Retry /\ Frame
  BY <1>8 DEF Retry, CodecRuns, Frame, Thread, CodecPlaces
<1>9. CASE TakeSoftware /\ Frame
  <2>1. /\ decoder' = decoder /\ codec.pc = "retry"
        /\ codec' = [Idle EXCEPT !.pc = "push", !.buffer = SwBuffer]
    BY <1>9, Zenon DEF TakeSoftware, Frame
  <2>2. codec' \in Thread(CodecPlaces) /\ codec'.pc = "push" /\ codec'.buffer = SwBuffer
        /\ codec'.dequeued = None
    BY <2>1, PushingThread
  <2>3. decoder # "vpu"
    BY <2>1 DEF CodecRuns
  <2> QED
    BY <2>1, <2>2, <2>3, Numbers DEF CodecRuns
<1>10. CASE CheckDisplayQueue /\ UNCHANGED <<decoder, phase>>
  BY <1>10 DEF CheckDisplayQueue, CodecRuns, Frame, Thread, CodecPlaces
<1>11. CASE NoPicture /\ UNCHANGED <<decoder, phase>>
  <2>1. decoder' = decoder /\ codec.pc = "decode" /\ decoder # "copy"
    BY <1>11, Zenon DEF NoPicture, CodecRuns
  <2>2. CASE codec' = Idle
    <3>1. /\ codec' \in Thread(CodecPlaces) /\ codec'.pc = "idle" /\ codec'.buffer = None
          /\ codec'.dequeued = None
      BY <2>2, CodecNames DEF Idle, Thread
    <3> QED
      BY <2>1, <3>1, Numbers DEF CodecRuns
  <2>3. CASE codec' = [codec EXCEPT !.pc = "chain", !.n = @ + 1]
    <3>1. codec \in Thread(CodecPlaces) /\ "chain" \in CodecPlaces
      BY CodecNames, Zenon DEF CodecRuns
    <3>2. PICK n \in Int : n = codec.n + 1
      BY <3>1 DEF Thread
    <3>3. /\ codec'.pc = "chain" /\ codec'.buffer = codec.buffer
          /\ codec'.dequeued = codec.dequeued /\ codec' \in Thread(CodecPlaces)
      <4>1. codec' = [codec EXCEPT !.pc = "chain", !.n = n]
        BY <2>3, <3>2
      <4> QED
        BY <3>1, <4>1 DEF Thread
    <3> QED
      BY <2>1, <3>3 DEF CodecRuns
  <2> QED
    BY <1>11, <2>2, <2>3, Zenon DEF NoPicture
<1>12. ASSUME NEW f \in Buffers, Output(f), UNCHANGED <<decoder, phase>>
      PROVE  CodecRuns'
  <2>1. decoder' = decoder /\ codec.pc = "decode" /\ decoder # "copy"
    BY <1>12, Zenon DEF Output, CodecRuns
  <2>2. CASE AfterPicture
    BY <2>1, <2>2, AfterPictureDoes, Numbers DEF CodecRuns
  <2>3. CASE codec' = [codec EXCEPT !.pc = "push", !.buffer = f, !.n = 0]
    <3>1. codec \in Thread(CodecPlaces) /\ codec.dequeued = None
      BY <2>1, Zenon DEF CodecRuns
    <3>2. f # None /\ f # SwBuffer /\ "push" \in CodecPlaces /\ 0 \in Int
      BY <1>12, Numbers, CodecNames
    <3>3. codec' \in Thread(CodecPlaces) /\ codec'.pc = "push" /\ codec'.buffer = f
          /\ codec'.dequeued = None
      BY <1>12, <2>3, <3>1, <3>2 DEF Thread
    <3> QED
      BY <2>1, <3>2, <3>3 DEF CodecRuns
  <2> QED
    BY <1>12, <2>2, <2>3, Zenon DEF Output, ShowFrame
<1>13. CASE Interrupt
  BY <1>13 DEF Interrupt, CodecRuns, Frame, Thread, CodecPlaces
<1>14. CASE Drain
  BY <1>14 DEF Drain, CodecRuns, Frame, Thread, CodecPlaces
<1>15. CASE FlushStop
  BY <1>15 DEF FlushStop, CodecRuns, Frame, Thread, CodecPlaces
<1>16. CASE DecoderToReady
  BY <1>16 DEF DecoderToReady, CodecRuns, Frame, Thread, CodecPlaces
<1>17. CASE SinkToNull
  <2>1. codec' = codec /\ decoder' = decoder
    BY <1>17, Zenon DEF SinkToNull, Close
  <2> QED
    BY <2>1 DEF CodecRuns
<1>18. CASE Restart
  <2>1. codec' = codec /\ decoder' = decoder
    BY <1>18, Zenon DEF Restart, Open
  <2> QED
    BY <2>1 DEF CodecRuns
<1>19. CASE Complete /\ Frame
  BY <1>19 DEF Complete, CodecRuns, Frame, Thread, CodecPlaces
<1>20. CASE Render /\ Frame
  BY <1>20 DEF Render, CodecRuns, Frame, Thread, CodecPlaces
<1>21. CASE Cleared /\ Frame
  BY <1>21 DEF Cleared, CodecRuns, Frame, Thread, CodecPlaces
<1>22. ASSUME NEW b \in Buffers, ClearShowing(b), Frame PROVE CodecRuns'
  BY <1>22 DEF ClearShowing, CodecRuns, Frame, Thread, CodecPlaces
<1>23. CASE ShowSoftware /\ Frame
  BY <1>23 DEF ShowSoftware, CodecRuns, Frame, Thread, CodecPlaces
<1>24. CASE ShowAgain /\ Frame
  BY <1>24 DEF ShowAgain, CodecRuns, Frame, Thread, CodecPlaces
<1>25. CASE Queue /\ Frame
  BY <1>25 DEF Queue, CodecRuns, Frame, Thread, CodecPlaces
<1>26. CASE Showing /\ Frame
  BY <1>26 DEF Showing, CodecRuns, Frame, Thread, CodecPlaces
<1>27. CASE Count /\ Frame
  BY <1>27 DEF Count, CodecRuns, Frame, Thread, CodecPlaces
<1>28. CASE TryDequeue /\ Frame
  BY <1>28 DEF TryDequeue, CodecRuns, Frame, Thread, CodecPlaces
<1>29. CASE SinkDequeue /\ Frame
  BY <1>29 DEF SinkDequeue, CodecRuns, Frame, Thread, CodecPlaces
<1>30. CASE GiveUp /\ Frame
  BY <1>30 DEF GiveUp, CodecRuns, Frame, Thread, CodecPlaces
<1>31. CASE SinkDrop /\ Frame
  BY <1>31 DEF SinkDrop, CodecRuns, Frame, Thread, CodecPlaces
<1>32. CASE Release /\ Frame
  BY <1>32 DEF Release, CodecRuns, Frame, Thread, CodecPlaces
<1>33. CASE Geometry /\ Frame
  BY <1>33 DEF Geometry, CodecRuns, Frame, Thread, CodecPlaces
<1>34. CASE QueueFails /\ Frame
  BY <1>34 DEF QueueFails, CodecRuns, Frame, Thread, CodecPlaces
<1>35. ASSUME NEW m \in {"1", "2"}, PowerMode(m), Frame PROVE CodecRuns'
  BY <1>35 DEF PowerMode, CodecRuns, Frame, Thread, CodecPlaces
<1>36. CASE Refer /\ Frame
  BY <1>36 DEF Refer, CodecRuns, Frame, Thread, CodecPlaces
<1> QED
  BY <1>1, <1>2, <1>3, <1>4, <1>5, <1>6, <1>7, <1>8, <1>9, <1>10, <1>11,
     <1>12, <1>13, <1>14, <1>15, <1>16, <1>17, <1>18, <1>19, <1>20, <1>21,
     <1>22, <1>23, <1>24, <1>25, <1>26, <1>27, <1>28, <1>29, <1>30, <1>31,
     <1>32, <1>33, <1>34, <1>35, <1>36
     DEF Next, CodecStep, Allocate, SinkStep, Control, Frame

\* And so does the sink's.
LEMMA SinkRunsKept ==
  ASSUME SinkRuns, Tables, Next PROVE SinkRuns'
<1>1. CASE Start
  BY <1>1 DEF Start, SinkRuns, Frame, Thread, SinkPlaces
<1>2. CASE Push
  BY <1>2 DEF Push, SinkRuns, Frame, Thread, SinkPlaces
<1>3. CASE NewBuffer /\ Frame
  BY <1>3 DEF NewBuffer, SinkRuns, Frame, Thread, SinkPlaces
<1>4. CASE CodecDequeue /\ Frame
  BY <1>4 DEF CodecDequeue, SinkRuns, Frame, Thread, SinkPlaces
<1>5. CASE CodecStore /\ Frame
  BY <1>5 DEF CodecStore, SinkRuns, Frame, Thread, SinkPlaces
<1>6. CASE CodecDrop /\ Frame
  BY <1>6 DEF CodecDrop, SinkRuns, Frame, Thread, SinkPlaces
<1>7. CASE Take /\ Frame
  BY <1>7 DEF Take, SinkRuns, Frame, Thread, SinkPlaces
<1>8. CASE Retry /\ Frame
  BY <1>8 DEF Retry, SinkRuns, Frame, Thread, SinkPlaces
<1>9. CASE TakeSoftware /\ Frame
  BY <1>9 DEF TakeSoftware, SinkRuns, Frame, Thread, SinkPlaces
<1>10. CASE CheckDisplayQueue /\ UNCHANGED <<decoder, phase>>
  BY <1>10 DEF CheckDisplayQueue, SinkRuns, Frame, Thread, SinkPlaces
<1>11. CASE NoPicture /\ UNCHANGED <<decoder, phase>>
  BY <1>11 DEF NoPicture, SinkRuns, Frame, Thread, SinkPlaces
<1>12. ASSUME NEW f \in Buffers, Output(f), UNCHANGED <<decoder, phase>>
      PROVE  SinkRuns'
  BY <1>12 DEF Output, SinkRuns, Frame, Thread, SinkPlaces
<1>13. CASE Interrupt
  BY <1>13 DEF Interrupt, SinkRuns, Frame, Thread, SinkPlaces
<1>14. CASE Drain
  BY <1>14 DEF Drain, SinkRuns, Frame, Thread, SinkPlaces
<1>15. CASE FlushStop
  BY <1>15 DEF FlushStop, SinkRuns, Frame, Thread, SinkPlaces
<1>16. CASE DecoderToReady
  BY <1>16 DEF DecoderToReady, SinkRuns, Frame, Thread, SinkPlaces
<1>17. CASE SinkToNull
  BY <1>17, Zenon DEF SinkToNull, Close, SinkRuns
<1>18. CASE Restart
  BY <1>18, Zenon DEF Restart, Open, SinkRuns
<1>19. CASE Complete /\ Frame
  BY <1>19 DEF Complete, SinkRuns, Frame, Thread, SinkPlaces
<1>20. CASE Render /\ Frame
  <2>1. queue # <<>> /\ sink.pc = "idle"
    BY <1>20, Zenon DEF Render
  <2>2. PICK p \in {"clear", "release", "show"} :
          sink' = [Idle EXCEPT !.buffer = Head(queue), !.pc = p]
    BY <1>20, Zenon DEF Render
  <2>3. PICK b \in Buffers \cup {SwBuffer} : b = Head(queue)
    BY <2>1 DEF Tables
  <2>4. sink' = [pc |-> p, buffer |-> b, dequeued |-> None, n |-> 0, list |-> {},
                 again |-> FALSE]
    BY <2>2, <2>3 DEF Idle
  <2>5. [pc |-> p, buffer |-> b, dequeued |-> None, n |-> 0, list |-> {},
         again |-> FALSE] \in Thread(SinkPlaces)
    <3>1. 0 \in Int /\ FALSE \in BOOLEAN /\ None \in Buffers \cup {None}
          /\ {} \in SUBSET Buffers
      OBVIOUS
    <3>2. b \in Buffers \cup {None, SwBuffer} /\ p \in SinkPlaces
      BY SinkNames
    <3> QED
      BY <3>1, <3>2, AThread
  <2>6. sink'.pc = p /\ sink'.buffer = b /\ sink'.dequeued = None
    BY <2>2, <2>3 DEF Idle
  <2>7. sink' \in Thread(SinkPlaces)
    BY <2>4, <2>5, Zenon
  <2> QED
    BY <2>6, <2>7, Numbers DEF SinkRuns
<1>21. CASE Cleared /\ Frame
  BY <1>21 DEF Cleared, SinkRuns, Frame, Thread, SinkPlaces
<1>22. ASSUME NEW b \in Buffers, ClearShowing(b), Frame PROVE SinkRuns'
  BY <1>22 DEF ClearShowing, SinkRuns, Frame, Thread, SinkPlaces
<1>23. CASE ShowSoftware /\ Frame
  BY <1>23 DEF ShowSoftware, SinkRuns, Frame, Thread, SinkPlaces
<1>24. CASE ShowAgain /\ Frame
  BY <1>24 DEF ShowAgain, SinkRuns, Frame, Thread, SinkPlaces
<1>25. CASE Queue /\ Frame
  <2>1. sink.pc = "append" /\ sink' = [sink EXCEPT !.pc = "queued", !.list = {}]
    BY <1>25, Zenon DEF Queue
  <2>2. sink \in Thread(SinkPlaces) /\ "queued" \in SinkPlaces /\ sink.dequeued = None
    BY <2>1, SinkNames, Zenon DEF SinkRuns
  <2>3. /\ sink' \in Thread(SinkPlaces) /\ sink'.pc = "queued"
        /\ sink'.buffer = sink.buffer /\ sink'.dequeued = sink.dequeued
    BY <2>1, <2>2 DEF Thread
  <2> QED
    BY <2>1, <2>2, <2>3, Numbers DEF SinkRuns
<1>26. CASE Showing /\ Frame
  <2>1. sink.pc = "queued" /\ sink' = [sink EXCEPT !.pc = "count", !.n = v4lqueued]
    BY <1>26, Zenon DEF Showing
  <2>2. sink \in Thread(SinkPlaces) /\ "count" \in SinkPlaces /\ sink.dequeued = None
    BY <2>1, SinkNames, Zenon DEF SinkRuns
  <2>3. v4lqueued \in Int
    BY DEF Tables
  <2>4. /\ sink' \in Thread(SinkPlaces) /\ sink'.pc = "count"
        /\ sink'.buffer = sink.buffer /\ sink'.dequeued = sink.dequeued
    BY <2>1, <2>2, <2>3 DEF Thread
  <2> QED
    BY <2>1, <2>2, <2>4 DEF SinkRuns
<1>27. CASE Count /\ Frame
  <2>1. sink.pc = "count" /\ sink' = [sink EXCEPT !.pc = "trydq", !.n = 0, !.again = TRUE]
    BY <1>27, Zenon DEF Count
  <2>2. sink \in Thread(SinkPlaces) /\ "trydq" \in SinkPlaces /\ sink.dequeued = None
    BY <2>1, SinkNames, Zenon DEF SinkRuns
  <2>3. PICK n \in Int : n = 0
    OBVIOUS
  <2>4. PICK a \in BOOLEAN : a = TRUE
    OBVIOUS
  <2>5. sink' = [sink EXCEPT !.pc = "trydq", !.n = n, !.again = a]
    BY <2>1, <2>3, <2>4
  <2>6. sink' \in Thread(SinkPlaces)
    BY <2>2, <2>5 DEF Thread
  <2>7. sink'.pc = "trydq" /\ sink'.buffer = sink.buffer /\ sink'.dequeued = sink.dequeued
    BY <2>2, <2>5 DEF Thread
  <2> QED
    BY <2>1, <2>2, <2>6, <2>7 DEF SinkRuns
<1>28. CASE TryDequeue /\ Frame
  BY <1>28 DEF TryDequeue, SinkRuns, Frame, Thread, SinkPlaces
<1>29. CASE SinkDequeue /\ Frame
  <2>1. /\ sink.pc \in {"dq", "dq once"} /\ done # <<>>
        /\ sink' = [sink EXCEPT !.pc = "drop", !.dequeued = Drops(Head(done))]
    BY <1>29, Zenon DEF SinkDequeue
  <2>2. PICK b \in Buffers : b = Head(done)
    <3>1. done \in Seq(Buffers) /\ done # <<>>
      BY <2>1 DEF Tables
    <3> QED
      BY <3>1
  <2>3. PICK d \in Buffers \cup {None} : d = Drops(b)
    BY Zenon DEF Drops
  <2>4. sink \in Thread(SinkPlaces) /\ "drop" \in SinkPlaces
    BY SinkNames, Zenon DEF SinkRuns
  <2>5. sink' = [sink EXCEPT !.pc = "drop", !.dequeued = d]
    BY <2>1, <2>2, <2>3
  <2>6. /\ sink' \in Thread(SinkPlaces) /\ sink'.pc = "drop"
        /\ sink'.buffer = sink.buffer
    BY <2>4, <2>5 DEF Thread
  <2> QED
    BY <2>1, <2>6 DEF SinkRuns
<1>30. CASE GiveUp /\ Frame
  BY <1>30 DEF GiveUp, SinkRuns, Frame, Thread, SinkPlaces
<1>31. CASE SinkDrop /\ Frame
  BY <1>31 DEF SinkDrop, SinkRuns, Frame, Thread, SinkPlaces
<1>32. CASE Release /\ Frame
  <2>1. sink' = Idle
    BY <1>32, Zenon DEF Release
  <2>2. /\ sink' \in Thread(SinkPlaces) /\ sink'.pc = "idle" /\ sink'.buffer = None
        /\ sink'.dequeued = None
    BY <2>1, SinkNames, IdleRests
  <2> QED
    BY <2>2 DEF SinkRuns
<1>33. CASE Geometry /\ Frame
  BY <1>33 DEF Geometry, SinkRuns, Frame, Thread, SinkPlaces
<1>34. CASE QueueFails /\ Frame
  BY <1>34 DEF QueueFails, SinkRuns, Frame, Thread, SinkPlaces
<1>35. ASSUME NEW m \in {"1", "2"}, PowerMode(m), Frame PROVE SinkRuns'
  BY <1>35 DEF PowerMode, SinkRuns, Frame, Thread, SinkPlaces
<1>36. CASE Refer /\ Frame
  <2>1. /\ sink.pc = "show" /\ sink.buffer \in Buffers
        /\ sink' = [sink EXCEPT !.pc = "append", !.list = v4llist]
    BY <1>36, Zenon DEF Refer
  <2>2. sink \in Thread(SinkPlaces) /\ "append" \in SinkPlaces /\ sink.dequeued = None
        /\ v4llist \in SUBSET Buffers
    BY <2>1, SinkNames, Zenon DEF SinkRuns, Tables
  <2>3. /\ sink' \in Thread(SinkPlaces) /\ sink'.pc = "append"
        /\ sink'.buffer = sink.buffer /\ sink'.dequeued = sink.dequeued
    BY <2>1, <2>2 DEF Thread
  <2> QED
    BY <2>1, <2>2, <2>3, Numbers DEF SinkRuns
<1> QED
  BY <1>1, <1>2, <1>3, <1>4, <1>5, <1>6, <1>7, <1>8, <1>9, <1>10, <1>11,
     <1>12, <1>13, <1>14, <1>15, <1>16, <1>17, <1>18, <1>19, <1>20, <1>21,
     <1>22, <1>23, <1>24, <1>25, <1>26, <1>27, <1>28, <1>29, <1>30, <1>31,
     <1>32, <1>33, <1>34, <1>35, <1>36
     DEF Next, CodecStep, Allocate, SinkStep, Control, Frame

\* Nothing is on its way any more when the decoder goes to READY.
LEMMA RestingKept ==
  ASSUME Resting, CodecRuns, SinkRuns, Modes, Next PROVE Resting'
<1>1. CASE Start
  BY <1>1 DEF Start, Resting, Frame
<1>2. CASE Push
  BY <1>2 DEF Push, Resting, Frame
<1>3. CASE NewBuffer /\ Frame
  BY <1>3 DEF NewBuffer, Resting, Frame
<1>4. CASE CodecDequeue /\ Frame
  BY <1>4 DEF CodecDequeue, Resting, Frame
<1>5. CASE CodecStore /\ Frame
  BY <1>5 DEF CodecStore, Resting, Frame
<1>6. CASE CodecDrop /\ Frame
  BY <1>6 DEF CodecDrop, Resting, Frame
<1>7. CASE Take /\ Frame
  BY <1>7 DEF Take, Resting, Frame
<1>8. CASE Retry /\ Frame
  BY <1>8 DEF Retry, Resting, Frame
<1>9. CASE TakeSoftware /\ Frame
  BY <1>9 DEF TakeSoftware, Resting, Frame
<1>10. CASE CheckDisplayQueue /\ UNCHANGED <<decoder, phase>>
  BY <1>10 DEF CheckDisplayQueue, Resting, Frame
<1>11. CASE NoPicture /\ UNCHANGED <<decoder, phase>>
  BY <1>11 DEF NoPicture, Resting, Frame
<1>12. ASSUME NEW f \in Buffers, Output(f), UNCHANGED <<decoder, phase>>
      PROVE  Resting'
  BY <1>12 DEF Output, Resting, Frame
<1>13. CASE Interrupt
  BY <1>13 DEF Interrupt, Resting, Frame
<1>14. CASE Drain
  BY <1>14 DEF Drain, Resting, Frame
<1>15. CASE FlushStop
  BY <1>15 DEF FlushStop, Resting, Frame
<1>16. CASE DecoderToReady
  <2>1. AtRest /\ UNCHANGED <<queue, sink, codec>>
    BY <1>16, Zenon DEF DecoderToReady
  <2> QED
    BY <2>1 DEF AtRest, Resting
<1>17. CASE SinkToNull
  <2>1. UNCHANGED <<queue, sink, codec>> /\ phase = "ready"
    BY <1>17, Zenon DEF SinkToNull, Close
  <2> QED
    BY <2>1 DEF Resting
<1>18. CASE Restart
  BY <1>18 DEF Restart, Resting, Frame
<1>19. CASE Complete /\ Frame
  BY <1>19 DEF Complete, Resting, Frame
<1>20. CASE Render /\ Frame
  BY <1>20 DEF Render, Resting, Frame
<1>21. CASE Cleared /\ Frame
  BY <1>21 DEF Cleared, Resting, Frame
<1>22. ASSUME NEW b \in Buffers, ClearShowing(b), Frame PROVE Resting'
  BY <1>22 DEF ClearShowing, Resting, Frame
<1>23. CASE ShowSoftware /\ Frame
  BY <1>23 DEF ShowSoftware, Resting, Frame
<1>24. CASE ShowAgain /\ Frame
  BY <1>24 DEF ShowAgain, Resting, Frame
<1>25. CASE Queue /\ Frame
  BY <1>25 DEF Queue, Resting, Frame
<1>26. CASE Showing /\ Frame
  BY <1>26 DEF Showing, Resting, Frame
<1>27. CASE Count /\ Frame
  BY <1>27 DEF Count, Resting, Frame
<1>28. CASE TryDequeue /\ Frame
  BY <1>28 DEF TryDequeue, Resting, Frame
<1>29. CASE SinkDequeue /\ Frame
  BY <1>29 DEF SinkDequeue, Resting, Frame
<1>30. CASE GiveUp /\ Frame
  BY <1>30 DEF GiveUp, Resting, Frame
<1>31. CASE SinkDrop /\ Frame
  BY <1>31 DEF SinkDrop, Resting, Frame
<1>32. CASE Release /\ Frame
  BY <1>32 DEF Release, Resting, Frame
<1>33. CASE Geometry /\ Frame
  BY <1>33 DEF Geometry, Resting, Frame
<1>34. CASE QueueFails /\ Frame
  BY <1>34 DEF QueueFails, Resting, Frame
<1>35. ASSUME NEW m \in {"1", "2"}, PowerMode(m), Frame PROVE Resting'
  BY <1>35 DEF PowerMode, Resting, Frame
<1>36. CASE Refer /\ Frame
  BY <1>36 DEF Refer, Resting, Frame
<1> QED
  BY <1>1, <1>2, <1>3, <1>4, <1>5, <1>6, <1>7, <1>8, <1>9, <1>10, <1>11,
     <1>12, <1>13, <1>14, <1>15, <1>16, <1>17, <1>18, <1>19, <1>20, <1>21,
     <1>22, <1>23, <1>24, <1>25, <1>26, <1>27, <1>28, <1>29, <1>30, <1>31,
     <1>32, <1>33, <1>34, <1>35, <1>36
     DEF Next, CodecStep, Allocate, SinkStep, Control, Frame

\* The history is not forgotten, a flush is recorded, and the decoder stays.
Recorded ==
  /\ events \subseteq events' /\ decoder' = decoder
  /\ phase' = "flush" => phase = "flush" \/ "flush" \in events'

LEMMA Records ==
  ASSUME Next PROVE Recorded
<1>1. CASE Start
  BY <1>1, Zenon DEF Start, Recorded
<1>2. CASE Push
  BY <1>2, Zenon DEF Push, Recorded
<1>3. CASE NewBuffer /\ Frame
  BY <1>3, Zenon DEF NewBuffer, Recorded, Frame
<1>4. CASE CodecDequeue /\ Frame
  BY <1>4, Zenon DEF CodecDequeue, Recorded, Frame
<1>5. CASE CodecStore /\ Frame
  BY <1>5, Zenon DEF CodecStore, RacesAlong, Recorded, Frame
<1>6. CASE CodecDrop /\ Frame
  BY <1>6, Zenon DEF CodecDrop, Recorded, Frame
<1>7. CASE Take /\ Frame
  BY <1>7, Zenon DEF Take, Recorded, Frame
<1>8. CASE Retry /\ Frame
  BY <1>8, Zenon DEF Retry, Recorded, Frame
<1>9. CASE TakeSoftware /\ Frame
  BY <1>9, Zenon DEF TakeSoftware, Recorded, Frame
<1>10. CASE CheckDisplayQueue /\ UNCHANGED <<decoder, phase>>
  BY <1>10, Zenon DEF CheckDisplayQueue, Recorded
<1>11. CASE NoPicture /\ UNCHANGED <<decoder, phase>>
  BY <1>11, Zenon DEF NoPicture, Recorded
<1>12. ASSUME NEW f \in Buffers, Output(f), UNCHANGED <<decoder, phase>>
      PROVE  Recorded
  BY <1>12, Zenon DEF Output, Recorded
<1>13. CASE Interrupt
  BY <1>13, Zenon DEF Interrupt, Recorded, Happens
<1>14. CASE Drain
  BY <1>14, Zenon DEF Drain, Recorded
<1>15. CASE FlushStop
  BY <1>15, Zenon DEF FlushStop, Recorded
<1>16. CASE DecoderToReady
  BY <1>16, Zenon DEF DecoderToReady, Recorded
<1>17. CASE SinkToNull
  BY <1>17, Zenon DEF SinkToNull, Close, Recorded
<1>18. CASE Restart
  BY <1>18, Zenon DEF Restart, Open, Recorded
<1>19. CASE Complete /\ Frame
  BY <1>19, Zenon DEF Complete, Recorded, Frame
<1>20. CASE Render /\ Frame
  BY <1>20, Zenon DEF Render, Recorded, Frame
<1>21. CASE Cleared /\ Frame
  BY <1>21, Zenon DEF Cleared, Recorded, Frame
<1>22. ASSUME NEW b \in Buffers, ClearShowing(b), Frame PROVE Recorded
  BY <1>22, Zenon DEF ClearShowing, Recorded, Frame
<1>23. CASE ShowSoftware /\ Frame
  BY <1>23, Zenon DEF ShowSoftware, Recorded, Frame
<1>24. CASE ShowAgain /\ Frame
  BY <1>24, Zenon DEF ShowAgain, Recorded, Frame
<1>25. CASE Queue /\ Frame
  BY <1>25, Zenon DEF Queue, RacesAlong, Recorded, Frame
<1>26. CASE Showing /\ Frame
  BY <1>26, Zenon DEF Showing, Recorded, Frame
<1>27. CASE Count /\ Frame
  BY <1>27, Zenon DEF Count, StreamOn, Happens, Recorded, Frame
<1>28. CASE TryDequeue /\ Frame
  BY <1>28, Zenon DEF TryDequeue, Recorded, Frame
<1>29. CASE SinkDequeue /\ Frame
  BY <1>29, Zenon DEF SinkDequeue, Recorded, Frame
<1>30. CASE GiveUp /\ Frame
  BY <1>30, Zenon DEF GiveUp, Recorded, Frame, Happens
<1>31. CASE SinkDrop /\ Frame
  BY <1>31, Zenon DEF SinkDrop, Recorded, Frame
<1>32. CASE Release /\ Frame
  BY <1>32, Zenon DEF Release, Recorded, Frame
<1>33. CASE Geometry /\ Frame
  BY <1>33, Zenon DEF Geometry, Recorded, Frame, Happens
<1>34. CASE QueueFails /\ Frame
  BY <1>34, Zenon DEF QueueFails, RacesAlong, Recorded, Frame, Happens
<1>35. ASSUME NEW m \in {"1", "2"}, PowerMode(m), Frame PROVE Recorded
  BY <1>35, Zenon DEF PowerMode, Recorded, Frame, Happens
<1>36. CASE Refer /\ Frame
  BY <1>36, Zenon DEF Refer, Recorded, Frame
<1> QED
  BY <1>1, <1>2, <1>3, <1>4, <1>5, <1>6, <1>7, <1>8, <1>9, <1>10, <1>11,
     <1>12, <1>13, <1>14, <1>15, <1>16, <1>17, <1>18, <1>19, <1>20, <1>21,
     <1>22, <1>23, <1>24, <1>25, <1>26, <1>27, <1>28, <1>29, <1>30, <1>31,
     <1>32, <1>33, <1>34, <1>35, <1>36
     DEF Next, CodecStep, Allocate, SinkStep, Control, Frame

LEMMA Grows ==
  ASSUME events \subseteq events', NEW E
  PROVE  Harmed(E) => Harmed(E)'
BY DEF Harmed

LEMMA AwakeBefore ==
  ASSUME Recorded, Awake' PROVE Awake
BY Grows, Zenon DEF Recorded, Awake, ListRaced

\* Unless somebody writes the file, the sink never thinks that it is suspended.
LEMMA NoSuspendKept ==
  ASSUME NoSuspend, Modes, SinkRuns, Next PROVE NoSuspend'
<1>0. Awake' => Awake
  BY Records, AwakeBefore
<1>1. CASE Start
  BY <1>0, <1>1 DEF Start, NoSuspend, stream, Frame
<1>2. CASE Push
  BY <1>0, <1>2 DEF Push, NoSuspend, stream, Frame
<1>3. CASE NewBuffer /\ Frame
  BY <1>0, <1>3 DEF NewBuffer, NoSuspend, stream, Frame
<1>4. CASE CodecDequeue /\ Frame
  BY <1>0, <1>4 DEF CodecDequeue, NoSuspend, stream, Frame
<1>5. CASE CodecStore /\ Frame
  BY <1>0, <1>5 DEF CodecStore, NoSuspend, stream, Frame
<1>6. CASE CodecDrop /\ Frame
  BY <1>0, <1>6 DEF CodecDrop, NoSuspend, stream, Frame
<1>7. CASE Take /\ Frame
  BY <1>0, <1>7 DEF Take, NoSuspend, stream, Frame
<1>8. CASE Retry /\ Frame
  BY <1>0, <1>8 DEF Retry, NoSuspend, stream, Frame
<1>9. CASE TakeSoftware /\ Frame
  BY <1>0, <1>9 DEF TakeSoftware, NoSuspend, stream, Frame
<1>10. CASE CheckDisplayQueue /\ UNCHANGED <<decoder, phase>>
  BY <1>0, <1>10 DEF CheckDisplayQueue, NoSuspend, stream, Frame
<1>11. CASE NoPicture /\ UNCHANGED <<decoder, phase>>
  BY <1>0, <1>11 DEF NoPicture, NoSuspend, stream, Frame
<1>12. ASSUME NEW f \in Buffers, Output(f), UNCHANGED <<decoder, phase>>
      PROVE  NoSuspend'
  BY <1>0, <1>12 DEF Output, NoSuspend, stream, Frame
<1>13. CASE Interrupt
  BY <1>0, <1>13 DEF Interrupt, NoSuspend, stream, Frame
<1>14. CASE Drain
  BY <1>0, <1>14 DEF Drain, NoSuspend, stream, Frame
<1>15. CASE FlushStop
  BY <1>0, <1>15 DEF FlushStop, NoSuspend, stream, Frame
<1>16. CASE DecoderToReady
  BY <1>0, <1>16 DEF DecoderToReady, NoSuspend, stream, Frame
<1>17. CASE SinkToNull
  BY <1>0, <1>17, Zenon DEF SinkToNull, Close, NoSuspend
<1>18. CASE Restart
  BY <1>0, <1>18, Zenon DEF Restart, Open, NoSuspend, stream
<1>19. CASE Complete /\ Frame
  BY <1>0, <1>19 DEF Complete, NoSuspend, stream, Frame
<1>20. CASE Render /\ Frame
  <2>1. /\ suspend' = (pm_mode = "1" \/ (pm_mode = "0" /\ suspend)) /\ events' = events
        /\ pm_mode' = IF pm_mode = "2" THEN "0" ELSE pm_mode
    BY <1>20, Zenon DEF Render
  <2>2. SUFFICES ASSUME Awake' PROVE pm_mode' = "0" /\ ~suspend' /\ sink'.pc # "clear"
    BY Zenon DEF NoSuspend
  <2>3. Awake
    BY <1>0, <2>2
  <2>4. pm_mode = "0" /\ ~suspend
    BY <2>3, Zenon DEF NoSuspend
  <2>5. pm_mode' = "0" /\ ~suspend'
    BY <2>1, <2>4
  <2>6. sink' = [Idle EXCEPT !.buffer = Head(queue), !.pc = "show"]
    BY <1>20, <2>4, <2>5, Zenon DEF Render
  <2>7. sink'.pc = "show"
    BY <2>6 DEF Idle
  <2> QED
    BY <2>5, <2>7
<1>21. CASE Cleared /\ Frame
  BY <1>0, <1>21 DEF Cleared, NoSuspend, stream, Frame
<1>22. ASSUME NEW b \in Buffers, ClearShowing(b), Frame PROVE NoSuspend'
  BY <1>0, <1>22 DEF ClearShowing, NoSuspend, stream, Frame
<1>23. CASE ShowSoftware /\ Frame
  <2>1. PICK p \in {"dq once", "release"} : sink' = [sink EXCEPT !.pc = p]
    BY <1>23, Zenon DEF ShowSoftware
  <2>2. sink'.pc # "clear"
    BY <2>1 DEF SinkRuns, Thread
  <2>3. UNCHANGED <<events, stream>>
    BY <1>23, Zenon DEF ShowSoftware
  <2> QED
    BY <1>0, <2>2, <2>3, Zenon DEF NoSuspend, stream
<1>24. CASE ShowAgain /\ Frame
  BY <1>0, <1>24 DEF ShowAgain, NoSuspend, stream, Frame
<1>25. CASE Queue /\ Frame
  BY <1>0, <1>25 DEF Queue, NoSuspend, stream, Frame
<1>26. CASE Showing /\ Frame
  BY <1>0, <1>26 DEF Showing, NoSuspend, stream, Frame
<1>27. CASE Count /\ Frame
  BY <1>0, <1>27 DEF Count, NoSuspend, stream, Frame
<1>28. CASE TryDequeue /\ Frame
  BY <1>0, <1>28 DEF TryDequeue, NoSuspend, stream, Frame
<1>29. CASE SinkDequeue /\ Frame
  <2>1. PICK d : sink' = [sink EXCEPT !.pc = "drop", !.dequeued = d]
    BY <1>29, Zenon DEF SinkDequeue
  <2>2. sink'.pc # "clear"
    BY <2>1 DEF SinkRuns, Thread
  <2>3. UNCHANGED <<events, stream>>
    BY <1>29, Zenon DEF SinkDequeue
  <2> QED
    BY <1>0, <2>2, <2>3, Zenon DEF NoSuspend, stream
<1>30. CASE GiveUp /\ Frame
  <2>1. sink' = [sink EXCEPT !.pc = "release"]
        /\ (events' = events \/ events' = events \cup {"stall"})
    BY <1>30, Zenon DEF GiveUp, Happens
  <2>2. sink'.pc # "clear"
    BY <2>1 DEF SinkRuns, Thread
  <2>3. UNCHANGED stream
    BY <1>30, Zenon DEF GiveUp
  <2> QED
    BY <1>0, <2>1, <2>2, <2>3 DEF NoSuspend, stream
<1>31. CASE SinkDrop /\ Frame
  BY <1>0, <1>31 DEF SinkDrop, NoSuspend, stream, Frame
<1>32. CASE Release /\ Frame
  <2>1. UNCHANGED <<events, stream>> /\ sink'.pc # "clear"
    BY <1>32, SMT DEF Release, Idle
  <2> QED
    BY <1>0, <2>1, Zenon DEF NoSuspend, stream
<1>33. CASE Geometry /\ Frame
  BY <1>0, <1>33 DEF Geometry, NoSuspend, stream, Frame
<1>34. CASE QueueFails /\ Frame
  BY <1>0, <1>34 DEF QueueFails, NoSuspend, stream, Frame
<1>35. ASSUME NEW m \in {"1", "2"}, PowerMode(m), Frame PROVE NoSuspend'
  <2>1. CASE "suspend" \in events'
    BY <2>1 DEF NoSuspend, Awake, Harmed
  <2>2. CASE pm_mode = "1"
    BY <1>0, <2>2 DEF NoSuspend
  <2> QED
    BY <1>35, <2>1, <2>2, Zenon DEF PowerMode, Happens
<1>36. CASE Refer /\ Frame
  BY <1>0, <1>36 DEF Refer, NoSuspend, stream, Frame
<1> QED
  BY <1>1, <1>2, <1>3, <1>4, <1>5, <1>6, <1>7, <1>8, <1>9, <1>10, <1>11,
     <1>12, <1>13, <1>14, <1>15, <1>16, <1>17, <1>18, <1>19, <1>20, <1>21,
     <1>22, <1>23, <1>24, <1>25, <1>26, <1>27, <1>28, <1>29, <1>30, <1>31,
     <1>32, <1>33, <1>34, <1>35, <1>36
     DEF Next, CodecStep, Allocate, SinkStep, Control, Frame

\* The element counts the frames it has given out.
LEMMA HandlesKept ==
  ASSUME Handles, Next PROVE Handles'
<1>1. CASE Start
  BY <1>1 DEF Start, Handles, Frame, vpuVars
<1>2. CASE Push
  BY <1>2 DEF Push, Handles, Frame, vpuVars
<1>3. CASE NewBuffer /\ Frame
  BY <1>3 DEF NewBuffer, Handles, Frame, vpuVars
<1>4. CASE CodecDequeue /\ Frame
  BY <1>4 DEF CodecDequeue, Handles, Frame, vpuVars
<1>5. CASE CodecStore /\ Frame
  BY <1>5 DEF CodecStore, Handles, Frame, vpuVars
<1>6. CASE CodecDrop /\ Frame
  BY <1>6 DEF CodecDrop, Handles, Frame, vpuVars
<1>7. CASE Take /\ Frame
  BY <1>7 DEF Take, Handles, Frame, vpuVars
<1>8. CASE Retry /\ Frame
  BY <1>8 DEF Retry, Handles, Frame, vpuVars
<1>9. CASE TakeSoftware /\ Frame
  BY <1>9 DEF TakeSoftware, Handles, Frame, vpuVars
<1>10. CASE CheckDisplayQueue /\ UNCHANGED <<decoder, phase>>
  <2> DEFINE back == {f \in display_handle : f # latest /\ Writable(f)}
  <2>1. /\ display_handle' = display_handle \ back /\ latest' = latest
        /\ output_size' = output_size - Cardinality(back)
    BY <1>10, Zenon DEF CheckDisplayQueue
  <2>2. back \in SUBSET display_handle /\ display_handle \in SUBSET Buffers
    BY DEF Handles
  <2> HIDE DEF back
  <2>3. IsFiniteSet(display_handle) /\ Cardinality(display_handle) \in Nat
        /\ Cardinality(back) \in Nat
    BY <2>2, Finite
  <2>4. Cardinality(display_handle \ back) = Cardinality(display_handle) - Cardinality(back)
    <3>1. display_handle \cap back = back
      BY <2>2
    <3> QED
      BY <2>3, <3>1, FS_Difference
  <2> QED
    BY <2>1, <2>2, <2>4 DEF Handles
<1>11. CASE NoPicture /\ UNCHANGED <<decoder, phase>>
  BY <1>11 DEF NoPicture, Handles, Frame, vpuVars
<1>12. ASSUME NEW f \in Buffers, Output(f), UNCHANGED <<decoder, phase>>
      PROVE  Handles'
  <2>1. /\ f \notin display_handle /\ display_handle' = display_handle \cup {f}
        /\ output_size' = output_size + 1 /\ latest' = f
    BY <1>12, Zenon DEF Output, AssignOutput
  <2>2. display_handle \in SUBSET Buffers /\ output_size = Cardinality(display_handle)
    BY DEF Handles
  <2>3. Cardinality(display_handle \cup {f}) = Cardinality(display_handle) + 1
    BY <2>1, <2>2, Finite, FS_AddElement
  <2> QED
    BY <1>12, <2>1, <2>2, <2>3 DEF Handles
<1>13. CASE Interrupt
  BY <1>13 DEF Interrupt, Handles, Frame, vpuVars
<1>14. CASE Drain
  BY <1>14 DEF Drain, Handles, Frame, vpuVars
<1>15. CASE FlushStop
  <2>1. CASE UNCHANGED vpuVars
    BY <2>1 DEF Handles, vpuVars
  <2>2. CASE FlushFrames
    BY <2>2, FS_EmptySet DEF Handles, FlushFrames
  <2> QED
    BY <1>15, <2>1, <2>2, Zenon DEF FlushStop
<1>16. CASE DecoderToReady
  <2>1. CASE UNCHANGED vpuVars
    BY <2>1 DEF Handles, vpuVars
  <2>2. CASE FreeFrames
    <3>1. display_handle' = {} /\ output_size' = 0 /\ latest' = None
      BY <2>2, Zenon DEF FreeFrames
    <3> QED
      BY <3>1, FS_EmptySet DEF Handles
  <2> QED
    BY <1>16, <2>1, <2>2, Zenon DEF DecoderToReady
<1>17. CASE SinkToNull
  BY <1>17 DEF SinkToNull, Handles, Frame, vpuVars
<1>18. CASE Restart
  BY <1>18 DEF Restart, Handles, Frame, vpuVars
<1>19. CASE Complete /\ Frame
  BY <1>19 DEF Complete, Handles, Frame, vpuVars
<1>20. CASE Render /\ Frame
  BY <1>20 DEF Render, Handles, Frame, vpuVars
<1>21. CASE Cleared /\ Frame
  BY <1>21 DEF Cleared, Handles, Frame, vpuVars
<1>22. ASSUME NEW b \in Buffers, ClearShowing(b), Frame PROVE Handles'
  BY <1>22 DEF ClearShowing, Handles, Frame, vpuVars
<1>23. CASE ShowSoftware /\ Frame
  BY <1>23 DEF ShowSoftware, Handles, Frame, vpuVars
<1>24. CASE ShowAgain /\ Frame
  BY <1>24 DEF ShowAgain, Handles, Frame, vpuVars
<1>25. CASE Queue /\ Frame
  BY <1>25 DEF Queue, Handles, Frame, vpuVars
<1>26. CASE Showing /\ Frame
  BY <1>26 DEF Showing, Handles, Frame, vpuVars
<1>27. CASE Count /\ Frame
  BY <1>27 DEF Count, Handles, Frame, vpuVars
<1>28. CASE TryDequeue /\ Frame
  BY <1>28 DEF TryDequeue, Handles, Frame, vpuVars
<1>29. CASE SinkDequeue /\ Frame
  BY <1>29 DEF SinkDequeue, Handles, Frame, vpuVars
<1>30. CASE GiveUp /\ Frame
  BY <1>30 DEF GiveUp, Handles, Frame, vpuVars
<1>31. CASE SinkDrop /\ Frame
  BY <1>31 DEF SinkDrop, Handles, Frame, vpuVars
<1>32. CASE Release /\ Frame
  BY <1>32 DEF Release, Handles, Frame, vpuVars
<1>33. CASE Geometry /\ Frame
  BY <1>33 DEF Geometry, Handles, Frame, vpuVars
<1>34. CASE QueueFails /\ Frame
  BY <1>34 DEF QueueFails, Handles, Frame, vpuVars
<1>35. ASSUME NEW m \in {"1", "2"}, PowerMode(m), Frame PROVE Handles'
  BY <1>35 DEF PowerMode, Handles, Frame, vpuVars
<1>36. CASE Refer /\ Frame
  BY <1>36 DEF Refer, Handles, Frame, vpuVars
<1> QED
  BY <1>1, <1>2, <1>3, <1>4, <1>5, <1>6, <1>7, <1>8, <1>9, <1>10, <1>11,
     <1>12, <1>13, <1>14, <1>15, <1>16, <1>17, <1>18, <1>19, <1>20, <1>21,
     <1>22, <1>23, <1>24, <1>25, <1>26, <1>27, <1>28, <1>29, <1>30, <1>31,
     <1>32, <1>33, <1>34, <1>35, <1>36
     DEF Next, CodecStep, Allocate, SinkStep, Control, Frame

-------------------------------------------------------------------------------
(* What each call does, in terms of what follows: where the threads are    *)
(* and what they hold before and after it, and what it leaves alone.       *)

Typed ==
  Tables /\ Modes /\ CodecRuns /\ SinkRuns /\ Resting /\ NoSuspend /\ Handles

Flow == <<qbuff_count, stream_on>>
Accounts == <<buffers, showcnt, v4llist, v4lqueued, queue>>
Rest == <<events, vpuVars, decoder, phase>>

\* codec holds nothing, before and after.
CodecAside ==
  /\ codec.pc \notin {"store", "drop", "push"} /\ codec'.pc \notin {"store", "drop", "push"}
  /\ codec.buffer = None /\ codec'.buffer = None
  /\ codec.dequeued = None /\ codec'.dequeued = None

\* sink holds what it held; it does not begin to show.
SinkAside ==
  /\ sink.pc \notin {"append", "queued", "count", "drop"}
  /\ sink'.pc \notin {"append", "queued", "count", "drop"}
  /\ sink'.buffer = sink.buffer /\ sink.dequeued = None /\ sink'.dequeued = None
  /\ sink'.pc = "show" => ~Awake

LEMMA CodecHolds ==
  ASSUME Typed
  PROVE  /\ codec \in Thread(CodecPlaces) /\ codec.pc \in CodecPlaces
         /\ codec.pc = "push" <=> codec.buffer # None
         /\ codec.dequeued # None => codec.pc \in {"store", "drop"}
         /\ codec.pc = "store" => codec.dequeued \in Buffers
         /\ codec.pc \in {"newbuf", "dq", "store", "drop", "take", "retry"} => decoder = "copy"
         /\ codec.pc \in {"chain", "decode"} => decoder = "vpu"
<1>1. codec \in Thread(CodecPlaces) /\ codec.pc \in CodecPlaces
  BY DEF Typed, CodecRuns, Thread
<1>2. codec.pc = "push" <=> codec.buffer # None
  BY Zenon DEF Typed, CodecRuns
<1>3. codec.dequeued # None => codec.pc \in {"store", "drop"}
  BY Zenon DEF Typed, CodecRuns
<1>4. codec.pc = "store" => codec.dequeued \in Buffers
  BY Working DEF Typed
<1>5. decoder = "copy" \/ decoder = "vpu"
  BY RenderingAssumption DEF Typed, Modes
<1>6. codec.pc \in {"newbuf", "dq", "store", "drop", "take", "retry"} => decoder = "copy"
  BY <1>5 DEF Typed, CodecRuns
<1>7. codec.pc \in {"chain", "decode"} => decoder = "vpu"
  BY <1>5 DEF Typed, CodecRuns
<1> QED
  BY <1>1, <1>2, <1>3, <1>4, <1>6, <1>7

LEMMA SinkHolds ==
  ASSUME Typed
  PROVE  /\ sink \in Thread(SinkPlaces) /\ sink.pc \in SinkPlaces
         /\ sink.pc = "idle" <=> sink.buffer = None
         /\ sink.dequeued # None => sink.pc = "drop"
         /\ sink.pc \in {"append", "queued", "count"} => sink.buffer \in Buffers
         /\ sink.pc \in {"release", "show"} => sink.buffer \in Buffers \cup {SwBuffer}
         /\ sink.pc = "clear" => ~Awake
<1>1. sink \in Thread(SinkPlaces) /\ sink.pc \in SinkPlaces
  BY DEF Typed, SinkRuns, Thread
<1>2. sink.pc = "idle" <=> sink.buffer = None
  BY Zenon DEF Typed, SinkRuns
<1>3. sink.dequeued # None => sink.pc = "drop"
  BY Zenon DEF Typed, SinkRuns
<1>4. sink.pc = "clear" => ~Awake
  BY Zenon DEF Typed, NoSuspend
<1> QED
  BY <1>1, <1>2, <1>3, <1>4, Working DEF Typed

LEMMA StartDoes ==
  ASSUME Typed, Start
  PROVE  CodecAside /\ UNCHANGED <<Accounts, device, Flow, sink, Rest>> /\ phase = "run"
<1>1. codec.pc = "idle" /\ \E p \in {"chain", "newbuf"} : codec' = [Idle EXCEPT !.pc = p]
  BY Zenon DEF Start
<1>2. codec'.pc \notin {"store", "drop", "push"} /\ codec'.buffer = None /\ codec'.dequeued = None
  BY <1>1, SMT DEF Idle
<1>3. UNCHANGED <<Accounts, device, Flow, sink, Rest>> /\ phase = "run"
  BY Zenon DEF Start, Accounts, Flow, Rest, stream
<1> QED
  BY <1>1, <1>2, <1>3, CodecHolds DEF CodecAside

LEMMA NewBufferDoes ==
  ASSUME Typed, NewBuffer, Frame
  PROVE  CodecAside /\ UNCHANGED <<Accounts, device, Flow, sink, Rest>>
<1>1. codec.pc = "newbuf" /\ \E p \in {"dq", "take"} : codec' = [codec EXCEPT !.pc = p]
  BY Zenon DEF NewBuffer
<1>2. /\ codec'.pc \notin {"store", "drop", "push"} /\ codec'.buffer = codec.buffer
      /\ codec'.dequeued = codec.dequeued
  BY <1>1, CodecHolds DEF Thread
<1>3. UNCHANGED <<Accounts, device, Flow, sink, Rest>>
  BY Zenon DEF NewBuffer, Frame, Accounts, Flow, Rest, stream
<1> QED
  BY <1>1, <1>2, <1>3, CodecHolds DEF CodecAside

LEMMA RetryDoes ==
  ASSUME Typed, Retry, Frame
  PROVE  CodecAside /\ UNCHANGED <<Accounts, device, Flow, sink, Rest>>
<1>1. codec.pc \in {"take", "retry"}
      /\ \/ codec' = [codec EXCEPT !.pc = "dq", !.again = TRUE]
         \/ codec' = [codec EXCEPT !.pc = "retry"]
  BY Zenon DEF Retry
<1>2. /\ codec'.pc \notin {"store", "drop", "push"} /\ codec'.buffer = codec.buffer
      /\ codec'.dequeued = codec.dequeued
  BY <1>1, CodecHolds DEF Thread
<1>3. UNCHANGED <<Accounts, device, Flow, sink, Rest>>
  BY Zenon DEF Retry, Frame, Accounts, Flow, Rest, stream
<1> QED
  BY <1>1, <1>2, <1>3, CodecHolds DEF CodecAside

LEMMA NoPictureDoes ==
  ASSUME Typed, NoPicture, UNCHANGED <<decoder, phase>>
  PROVE  CodecAside /\ UNCHANGED <<Accounts, device, Flow, sink, Rest>>
<1>1. codec.pc = "decode"
      /\ (codec' = Idle \/ codec' = [codec EXCEPT !.pc = "chain", !.n = @ + 1])
  BY Zenon DEF NoPicture
<1>2. /\ codec'.pc \notin {"store", "drop", "push"} /\ codec'.buffer = None
      /\ codec'.dequeued = None
  <2>1. codec.buffer = None /\ codec.dequeued = None
    BY <1>1, CodecHolds
  <2>2. CASE codec' = Idle
    BY <2>2 DEF Idle
  <2>3. CASE codec' = [codec EXCEPT !.pc = "chain", !.n = @ + 1]
    BY <2>1, <2>3, CodecHolds DEF Thread
  <2> QED
    BY <1>1, <2>2, <2>3
<1>3. UNCHANGED <<Accounts, device, Flow, sink, Rest>>
  BY Zenon DEF NoPicture, Accounts, Flow, Rest, stream
<1> QED
  BY <1>1, <1>2, <1>3, CodecHolds DEF CodecAside

LEMMA CheckDisplayQueueDoes ==
  ASSUME Typed, CheckDisplayQueue, UNCHANGED <<decoder, phase>>
  PROVE  /\ CodecAside /\ UNCHANGED <<Accounts, device, Flow, sink, events, decoder, phase>>
         /\ display_handle' = {f \in display_handle : f = latest \/ refs[f] # 1}
         /\ decoder = "vpu"
<1>1. codec.pc = "chain" /\ codec' = [codec EXCEPT !.pc = "decode"]
      /\ display_handle' = display_handle \ {f \in display_handle : f # latest /\ Writable(f)}
  BY Zenon DEF CheckDisplayQueue
<1>2. /\ codec'.pc = "decode" /\ codec'.buffer = codec.buffer
      /\ codec'.dequeued = codec.dequeued
  BY <1>1, CodecHolds DEF Thread
<1>3. UNCHANGED <<Accounts, device, Flow, sink, events, decoder, phase>>
  BY Zenon DEF CheckDisplayQueue, Accounts, Flow, stream
<1>4. display_handle' = {f \in display_handle : f = latest \/ refs[f] # 1}
  BY <1>1 DEF Writable
<1> QED
  BY <1>1, <1>2, <1>3, <1>4, CodecHolds DEF CodecAside

LEMMA CodecDequeueDoes ==
  ASSUME Typed, CodecDequeue, Frame
  PROVE  /\ UNCHANGED <<Accounts, driver, driver_on, Flow, sink, Rest>> /\ decoder = "copy"
         /\ \/ CodecAside /\ UNCHANGED done
            \/ /\ codec.pc = "dq" /\ codec.buffer = None /\ codec.dequeued = None
               /\ done # <<>> /\ done' = Tail(done)
               /\ codec'.pc = "store" /\ codec'.buffer = None
               /\ codec'.dequeued = Head(done)
<1>1. codec.pc = "dq" /\ codec.buffer = None /\ codec.dequeued = None /\ decoder = "copy"
  BY CodecHolds DEF CodecDequeue
<1>2. UNCHANGED <<Accounts, driver, driver_on, Flow, sink, Rest>>
  BY Zenon DEF CodecDequeue, Frame, Accounts, Flow, Rest, stream
<1>3. CASE done' = done /\ \E p \in {"retry", "newbuf"} : codec' = [codec EXCEPT !.pc = p]
  <2>1. /\ codec'.pc \notin {"store", "drop", "push"} /\ codec'.buffer = codec.buffer
        /\ codec'.dequeued = codec.dequeued
    BY <1>3, CodecHolds DEF Thread
  <2> QED
    BY <1>1, <1>2, <1>3, <2>1 DEF CodecAside
<1>4. CASE /\ done # <<>> /\ done' = Tail(done)
           /\ codec' = [codec EXCEPT !.pc = "store", !.dequeued = Head(done),
                                     !.n = v4lqueued, !.list = v4llist]
  <2>1. PICK d : d = Head(done)
    OBVIOUS
  <2>2. codec'.pc = "store" /\ codec'.dequeued = d /\ codec'.buffer = codec.buffer
    BY <1>4, <2>1, CodecHolds DEF Thread
  <2> QED
    BY <1>1, <1>2, <1>4, <2>1, <2>2
<1> QED
  BY <1>3, <1>4, Zenon DEF CodecDequeue

LEMMA CodecStoreDoes ==
  ASSUME Typed, CodecStore, Frame
  PROVE  /\ codec.pc = "store" /\ codec.buffer = None /\ codec.dequeued \in Buffers
         /\ decoder = "copy"
         /\ codec'.pc = "drop" /\ codec'.buffer = None
         /\ codec'.dequeued = Drops(codec.dequeued) /\ Dequeued(codec.dequeued)
         /\ ListRaced' \/ (v4llist' = v4llist \ {codec.dequeued} /\ events' = events)
         /\ UNCHANGED <<refs, free_pool, queue, device, Flow, sink, vpuVars, decoder, phase>>
<1>1. /\ codec.pc = "store" /\ Dequeued(codec.dequeued)
      /\ v4llist' \in {L \ {codec.dequeued} : L \in {v4llist, codec.list}}
      /\ events' = RacesAlong(codec)
      /\ codec' = [codec EXCEPT !.pc = "drop", !.n = 0, !.list = {},
                                !.dequeued = Drops(codec.dequeued)]
  BY Zenon DEF CodecStore
<1>2. UNCHANGED <<refs, free_pool, queue, device, Flow, sink, vpuVars, decoder, phase>>
  BY Zenon DEF CodecStore, Frame, Flow, stream
<1>3. PICK d : d = Drops(codec.dequeued)
  OBVIOUS
<1>4. codec' = [codec EXCEPT !.pc = "drop", !.n = 0, !.list = {}, !.dequeued = d]
  BY <1>1, <1>3
<1>5. codec'.pc = "drop" /\ codec'.buffer = codec.buffer /\ codec'.dequeued = d
  BY <1>4, CodecHolds DEF Thread
<1>6. CASE v4llist = codec.list
  <2>1. v4llist' = v4llist \ {codec.dequeued} /\ events' = events
    BY <1>1, <1>6 DEF RacesAlong
  <2> QED
    BY <1>1, <1>2, <1>3, <1>5, <2>1, CodecHolds
<1>7. CASE v4llist # codec.list
  <2>1. "race" \in events' /\ decoder' = "copy"
    BY <1>1, <1>2, <1>7, CodecHolds DEF RacesAlong
  <2>2. ListRaced'
    BY <2>1 DEF ListRaced, Harmed
  <2> QED
    BY <1>1, <1>2, <1>3, <1>5, <2>2, CodecHolds
<1> QED
  BY <1>6, <1>7

LEMMA CodecDropDoes ==
  ASSUME Typed, CodecDrop, Frame
  PROVE  /\ codec.pc = "drop" /\ codec.buffer = None /\ codec.dequeued \in Buffers \cup {None}
         /\ decoder = "copy"
         /\ codec'.pc \notin {"store", "drop", "push"} /\ codec'.buffer = None
         /\ codec'.dequeued = None
         /\ IF codec.dequeued = None THEN UNCHANGED buffers ELSE Unref(codec.dequeued)
         /\ UNCHANGED <<showcnt, v4llist, v4lqueued, queue, device, Flow, sink, Rest>>
<1>1. /\ codec.pc = "drop"
      /\ IF codec.dequeued = None THEN UNCHANGED buffers ELSE Unref(codec.dequeued)
      /\ \E p \in {"retry", "newbuf"} : codec' = [codec EXCEPT !.dequeued = None, !.pc = p]
  BY Zenon DEF CodecDrop
<1>2. UNCHANGED <<showcnt, v4llist, v4lqueued, queue, device, Flow, sink, Rest>>
  BY Zenon DEF CodecDrop, Frame, Flow, Rest, stream
<1>3. /\ codec'.pc \notin {"store", "drop", "push"} /\ codec'.buffer = codec.buffer
      /\ codec'.dequeued = None
  BY <1>1, CodecHolds DEF Thread
<1>4. codec.dequeued \in Buffers \cup {None}
  BY CodecHolds DEF Thread
<1>5. codec.buffer = None /\ decoder = "copy"
  BY <1>1, CodecHolds
<1> QED
  BY <1>1, <1>2, <1>3, <1>4, <1>5

LEMMA TakeDoes ==
  ASSUME Typed, Take, Frame
  PROVE  /\ codec.pc \in {"take", "retry"} /\ codec.buffer = None /\ codec.dequeued = None
         /\ decoder = "copy" /\ free_pool # <<>> /\ free_pool' = Tail(free_pool)
         /\ bufstate' = [bufstate EXCEPT ![Head(free_pool)] = "ALLOCATED"]
         /\ codec'.pc = "push" /\ codec'.buffer = Head(free_pool)
         /\ codec'.dequeued = None
         /\ UNCHANGED <<refs, showcnt, v4llist, v4lqueued, queue, device, Flow, sink, Rest>>
<1>1. /\ codec.pc \in {"take", "retry"} /\ free_pool # <<>> /\ free_pool' = Tail(free_pool)
      /\ bufstate' = [bufstate EXCEPT ![Head(free_pool)] = "ALLOCATED"]
      /\ codec' = [Idle EXCEPT !.pc = "push", !.buffer = Head(free_pool)]
  BY Zenon DEF Take
<1>2. UNCHANGED <<refs, showcnt, v4llist, v4lqueued, queue, device, Flow, sink, Rest>>
  BY Zenon DEF Take, Frame, Flow, Rest, stream
<1>3. codec'.pc = "push" /\ codec'.buffer = Head(free_pool) /\ codec'.dequeued = None
  BY <1>1 DEF Idle
<1>4. codec.buffer = None /\ codec.dequeued = None /\ decoder = "copy"
  BY <1>1, CodecHolds
<1> QED
  BY <1>1, <1>2, <1>3, <1>4

LEMMA TakeSoftwareDoes ==
  ASSUME Typed, TakeSoftware, Frame
  PROVE  /\ codec.pc = "retry" /\ codec.buffer = None /\ codec.dequeued = None
         /\ decoder = "copy"
         /\ codec'.pc = "push" /\ codec'.buffer = SwBuffer /\ codec'.dequeued = None
         /\ UNCHANGED <<Accounts, device, Flow, sink, Rest>>
<1>1. /\ codec.pc = "retry"
      /\ codec' = [Idle EXCEPT !.pc = "push", !.buffer = SwBuffer]
  BY Zenon DEF TakeSoftware
<1>2. UNCHANGED <<Accounts, device, Flow, sink, Rest>>
  BY Zenon DEF TakeSoftware, Frame, Accounts, Flow, Rest, stream
<1>3. codec'.pc = "push" /\ codec'.buffer = SwBuffer /\ codec'.dequeued = None
  BY <1>1 DEF Idle
<1>4. codec.buffer = None /\ codec.dequeued = None /\ decoder = "copy"
  BY <1>1, CodecHolds
<1> QED
  BY <1>1, <1>2, <1>3, <1>4

LEMMA OutputDoes ==
  ASSUME Typed, NEW f \in Buffers, Output(f), UNCHANGED <<decoder, phase>>
  PROVE  /\ codec.pc = "decode" /\ codec.buffer = None /\ codec.dequeued = None
         /\ decoder = "vpu" /\ f \notin display_handle
         /\ display_handle' = display_handle \cup {f} /\ codec'.dequeued = None
         /\ \/ codec'.pc = "push" /\ codec'.buffer = f /\ refs' = [refs EXCEPT ![f] = @ + 1]
            \/ /\ codec'.pc \in {"idle", "chain"} /\ codec'.buffer = None
               /\ refs' = refs
         /\ UNCHANGED <<bufstate, free_pool, showcnt, v4llist, v4lqueued, queue, device,
                        Flow, sink, events, decoder, phase>>
<1>1. /\ codec.pc = "decode" /\ f \notin display_handle
      /\ display_handle' = display_handle \cup {f}
  BY Zenon DEF Output, AssignOutput
<1>2. UNCHANGED <<bufstate, free_pool, showcnt, v4llist, v4lqueued, queue, device,
                  Flow, sink, events, decoder, phase>>
  BY Zenon DEF Output, Flow, stream
<1>3. codec.buffer = None /\ codec.dequeued = None /\ decoder = "vpu"
  BY <1>1, CodecHolds
<1>4. CASE refs' = [refs EXCEPT ![f] = @ + 1]
           /\ codec' = [codec EXCEPT !.pc = "push", !.buffer = f, !.n = 0]
  <2>1. codec'.pc = "push" /\ codec'.buffer = f /\ codec'.dequeued = codec.dequeued
    BY <1>4, CodecHolds DEF Thread
  <2> QED
    BY <1>1, <1>2, <1>3, <1>4, <2>1, Zenon
<1>5. CASE AfterPicture /\ UNCHANGED refs
  <2>1. codec'.pc \in {"idle", "chain"} /\ codec'.buffer = None /\ codec'.dequeued = None
    BY <1>5, AfterPictureDoes
  <2> QED
    BY <1>1, <1>2, <1>3, <1>5, <2>1, Zenon
<1> QED
  BY <1>4, <1>5, Zenon DEF Output, ShowFrame

LEMMA PushDoes ==
  ASSUME Typed, Push
  PROVE  /\ codec.pc = "push" /\ codec.buffer \in Buffers \cup {SwBuffer}
         /\ codec.dequeued = None
         /\ codec'.pc \in {"idle", "chain"} /\ codec'.buffer = None
         /\ codec'.dequeued = None
         /\ UNCHANGED <<showcnt, v4llist, v4lqueued, device, Flow, sink, Rest>>
         /\ \/ Flushing /\ Unref(codec.buffer) /\ UNCHANGED queue
            \/ ~Flushing /\ queue' = Append(queue, codec.buffer) /\ UNCHANGED buffers
<1>1. /\ codec.pc = "push" /\ (AfterPicture \/ codec' = Idle)
      /\ \/ Flushing /\ Unref(codec.buffer) /\ UNCHANGED queue
         \/ ~Flushing /\ queue' = Append(queue, codec.buffer) /\ UNCHANGED buffers
  BY Zenon DEF Push
<1>2. UNCHANGED <<showcnt, v4llist, v4lqueued, device, Flow, sink, Rest>>
  BY Zenon DEF Push, Flow, Rest, stream
<1>3. codec'.pc \in {"idle", "chain"} /\ codec'.buffer = None /\ codec'.dequeued = None
  <2>1. CASE codec' = Idle
    BY <2>1 DEF Idle
  <2> QED
    BY <1>1, <2>1, AfterPictureDoes
<1>4. codec.buffer \in Buffers \cup {SwBuffer} /\ codec.dequeued = None
  BY <1>1, CodecHolds, Working DEF Typed
<1> QED
  BY <1>1, <1>2, <1>3, <1>4, Zenon

LEMMA RenderDoes ==
  ASSUME Typed, Render, Frame
  PROVE  /\ sink.pc = "idle" /\ sink.buffer = None /\ sink.dequeued = None
         /\ queue # <<>> /\ queue' = Tail(queue)
         /\ sink'.pc \in {"clear", "release", "show"} /\ sink'.buffer = Head(queue)
         /\ sink'.dequeued = None
         /\ Awake => sink'.pc = "show" /\ UNCHANGED Flow
         /\ UNCHANGED Flow \/ (stream_on' = FALSE /\ qbuff_count' = 0)
         /\ UNCHANGED <<buffers, showcnt, v4llist, v4lqueued, device, codec, Rest>>
<1>1. sink.pc = "idle" /\ queue # <<>> /\ queue' = Tail(queue)
  BY Zenon DEF Render
<1>2. PICK p \in {"clear", "release", "show"} :
        sink' = [Idle EXCEPT !.buffer = Head(queue), !.pc = p]
  BY Zenon DEF Render
<1>3. sink'.pc = p /\ sink'.buffer = Head(queue) /\ sink'.dequeued = None
  BY <1>2 DEF Idle
<1>4. UNCHANGED <<buffers, showcnt, v4llist, v4lqueued, device, codec, Rest>>
  BY Zenon DEF Render, Frame, Rest
<1>5. UNCHANGED Flow \/ (stream_on' = FALSE /\ qbuff_count' = 0)
  <2>1. CASE pm_mode # "0" /\ stream_on
    BY <2>1, Zenon DEF Render
  <2>2. CASE ~(pm_mode # "0" /\ stream_on)
    <3>1. stream_on' = (stream_on /\ TRUE) /\ qbuff_count' = qbuff_count
      BY <2>2, Zenon DEF Render
    <3>2. stream_on \in BOOLEAN
      BY Zenon DEF Typed, Modes
    <3>3. stream_on' = stream_on
      BY <3>1, <3>2, Zenon
    <3> QED
      BY <3>1, <3>3, Zenon DEF Flow
  <2> QED
    BY <2>1, <2>2, Zenon
<1>6. ASSUME Awake PROVE sink'.pc = "show" /\ UNCHANGED Flow
  <2>1. pm_mode = "0" /\ ~suspend
    BY <1>6, Zenon DEF Typed, NoSuspend
  <2>2. ~suspend'
    BY <2>1, Zenon DEF Render
  <2>3. sink' = [Idle EXCEPT !.buffer = Head(queue), !.pc = "show"]
        /\ stream_on' = (stream_on /\ TRUE) /\ qbuff_count' = qbuff_count
    BY <2>1, <2>2, Zenon DEF Render
  <2>4. sink'.pc = "show"
    BY <2>3 DEF Idle
  <2>5. stream_on \in BOOLEAN
    BY Zenon DEF Typed, Modes
  <2>6. stream_on' = stream_on
    BY <2>3, <2>5, Zenon
  <2> QED
    BY <2>3, <2>4, <2>6, Zenon DEF Flow
<1>7. sink.buffer = None /\ sink.dequeued = None
  BY <1>1, SinkHolds
<1> QED
  BY <1>1, <1>3, <1>4, <1>5, <1>6, <1>7

LEMMA ClearedDoes ==
  ASSUME Typed, Cleared, Frame
  PROVE  SinkAside /\ UNCHANGED <<Accounts, device, Flow, codec, Rest>>
<1>1. sink.pc = "clear" /\ \E p \in {"release", "show"} : sink' = [sink EXCEPT !.pc = p]
  BY Zenon DEF Cleared
<1>2. UNCHANGED <<Accounts, device, Flow, codec, Rest>>
  BY Zenon DEF Cleared, Frame, Accounts, Flow, Rest, stream
<1>3. /\ sink'.pc \notin {"append", "queued", "count", "drop"} /\ sink'.buffer = sink.buffer
      /\ sink'.dequeued = sink.dequeued
  BY <1>1, SinkHolds DEF Thread
<1>4. ~Awake /\ sink.dequeued = None
  BY <1>1, SinkHolds
<1> QED
  BY <1>1, <1>2, <1>3, <1>4 DEF SinkAside

LEMMA ClearShowingDoes ==
  ASSUME Typed, NEW b \in Buffers, ClearShowing(b), Frame
  PROVE  ~Awake /\ UNCHANGED <<v4llist, queue, device, Flow, sink, codec, Rest>>
BY SinkHolds, Zenon DEF ClearShowing, Frame, Rest, Flow, stream

LEMMA ShowSoftwareDoes ==
  ASSUME Typed, ShowSoftware, Frame
  PROVE  SinkAside /\ UNCHANGED <<Accounts, device, Flow, codec, Rest>>
<1>1. sink.pc = "show" /\ \E p \in {"dq once", "release"} : sink' = [sink EXCEPT !.pc = p]
  BY Zenon DEF ShowSoftware
<1>2. UNCHANGED <<Accounts, device, Flow, codec, Rest>>
  BY Zenon DEF ShowSoftware, Frame, Accounts, Flow, Rest, stream
<1>3. /\ sink'.pc \notin {"append", "queued", "count", "drop", "show"}
      /\ sink'.buffer = sink.buffer
      /\ sink'.dequeued = sink.dequeued
  BY <1>1, SinkHolds DEF Thread
<1>4. sink.dequeued = None
  BY <1>1, SinkHolds
<1> QED
  BY <1>1, <1>2, <1>3, <1>4 DEF SinkAside

LEMMA TryDequeueDoes ==
  ASSUME Typed, TryDequeue, Frame
  PROVE  SinkAside /\ UNCHANGED <<Accounts, device, Flow, codec, Rest>>
<1>1. sink.pc = "trydq" /\ \E p \in {"dq", "release"} : sink' = [sink EXCEPT !.pc = p]
  BY Zenon DEF TryDequeue
<1>2. UNCHANGED <<Accounts, device, Flow, codec, Rest>>
  BY Zenon DEF TryDequeue, Frame, Accounts, Flow, Rest, stream
<1>3. /\ sink'.pc \notin {"append", "queued", "count", "drop", "show"}
      /\ sink'.buffer = sink.buffer
      /\ sink'.dequeued = sink.dequeued
  BY <1>1, SinkHolds DEF Thread
<1>4. sink.dequeued = None
  BY <1>1, SinkHolds
<1> QED
  BY <1>1, <1>2, <1>3, <1>4 DEF SinkAside

LEMMA GiveUpDoes ==
  ASSUME Typed, GiveUp, Frame
  PROVE  /\ SinkAside /\ UNCHANGED <<Accounts, device, Flow, codec, vpuVars, decoder, phase>>
         /\ events' = events \/ events' = events \cup {"stall"}
<1>1. sink.pc \in {"dq", "dq once"} /\ sink' = [sink EXCEPT !.pc = "release"]
      /\ (events' = events \/ events' = events \cup {"stall"})
  BY Zenon DEF GiveUp, Happens
<1>2. UNCHANGED <<Accounts, device, Flow, codec, vpuVars, decoder, phase>>
  BY Zenon DEF GiveUp, Frame, Accounts, Flow, stream
<1>3. /\ sink'.pc \notin {"append", "queued", "count", "drop", "show"}
      /\ sink'.buffer = sink.buffer
      /\ sink'.dequeued = sink.dequeued
  BY <1>1, SinkHolds DEF Thread
<1>4. sink.dequeued = None
  BY <1>1, SinkHolds
<1> QED
  BY <1>1, <1>2, <1>3, <1>4 DEF SinkAside

LEMMA ShowAgainDoes ==
  ASSUME Typed, ShowAgain, Frame
  PROVE  /\ SinkAside /\ sink.pc = "show" /\ sink.buffer \in v4llist
         /\ showcnt[sink.buffer] < MaxShow
         /\ showcnt' = [showcnt EXCEPT ![sink.buffer] = @ + 1]
         /\ UNCHANGED <<buffers, v4llist, v4lqueued, queue, device, Flow, codec, Rest>>
<1>1. /\ sink.pc = "show" /\ sink.buffer \in v4llist /\ showcnt[sink.buffer] < MaxShow
      /\ showcnt' = [showcnt EXCEPT ![sink.buffer] = @ + 1]
      /\ sink' = [sink EXCEPT !.pc = "trydq", !.again = TRUE]
  BY Zenon DEF ShowAgain
<1>2. UNCHANGED <<buffers, v4llist, v4lqueued, queue, device, Flow, codec, Rest>>
  BY Zenon DEF ShowAgain, Frame, Flow, Rest, stream
<1>3. /\ sink'.pc \notin {"append", "queued", "count", "drop", "show"}
      /\ sink'.buffer = sink.buffer
      /\ sink'.dequeued = sink.dequeued
  BY <1>1, SinkHolds DEF Thread
<1>4. sink.dequeued = None
  BY <1>1, SinkHolds
<1> QED
  BY <1>1, <1>2, <1>3, <1>4 DEF SinkAside

LEMMA ReferDoes ==
  ASSUME Typed, Refer, Frame
  PROVE  /\ sink.pc = "show" /\ sink.buffer \in Buffers \ v4llist
         /\ sink.dequeued = None
         /\ sink'.pc = "append" /\ sink'.buffer = sink.buffer /\ sink'.dequeued = None
         /\ sink'.list = v4llist /\ showcnt[sink.buffer] < MaxShow
         /\ showcnt' = [showcnt EXCEPT ![sink.buffer] = @ + 1]
         /\ refs' = [refs EXCEPT ![sink.buffer] = @ + 1]
         /\ UNCHANGED <<bufstate, free_pool, v4llist, v4lqueued, queue, device, Flow, codec,
                        Rest>>
<1>1. /\ sink.pc = "show" /\ sink.buffer \in Buffers \ v4llist
      /\ showcnt[sink.buffer] < MaxShow
      /\ showcnt' = [showcnt EXCEPT ![sink.buffer] = @ + 1]
      /\ refs' = [refs EXCEPT ![sink.buffer] = @ + 1]
      /\ sink' = [sink EXCEPT !.pc = "append", !.list = v4llist]
  BY Zenon DEF Refer
<1>2. UNCHANGED <<bufstate, free_pool, v4llist, v4lqueued, queue, device, Flow, codec, Rest>>
  BY Zenon DEF Refer, Frame, Flow, Rest, stream
<1>3. /\ sink'.pc = "append" /\ sink'.buffer = sink.buffer /\ sink'.dequeued = sink.dequeued
      /\ sink'.list = v4llist
  BY <1>1, SinkHolds DEF Thread
<1>4. sink.dequeued = None
  BY <1>1, SinkHolds
<1> QED
  BY <1>1, <1>2, <1>3, <1>4, Zenon

LEMMA QueueDoes ==
  ASSUME Typed, Queue, Frame
  PROVE  /\ sink.pc = "append" /\ sink.buffer \in Buffers /\ sink.dequeued = None
         /\ sink'.pc = "queued" /\ sink'.buffer = sink.buffer /\ sink'.dequeued = None
         /\ AppendIndex /\ events' = RacesAlong(sink) /\ events \subseteq events'
         /\ driver' = Append(driver, sink.buffer)
         /\ UNCHANGED <<buffers, showcnt, v4lqueued, queue, done, driver_on, Flow, codec,
                        vpuVars, decoder, phase>>
<1>1. /\ sink.pc = "append" /\ AppendIndex /\ events' = RacesAlong(sink)
      /\ driver' = Append(driver, sink.buffer)
      /\ sink' = [sink EXCEPT !.pc = "queued", !.list = {}]
  BY Zenon DEF Queue
<1>2. UNCHANGED <<buffers, showcnt, v4lqueued, queue, done, driver_on, Flow, codec,
                  vpuVars, decoder, phase>>
  BY Zenon DEF Queue, Frame, Flow, stream
<1>3. sink'.pc = "queued" /\ sink'.buffer = sink.buffer /\ sink'.dequeued = sink.dequeued
  BY <1>1, SinkHolds DEF Thread
<1>4. sink.dequeued = None /\ sink.buffer \in Buffers
  BY <1>1, SinkHolds
<1>5. events \subseteq events'
  BY <1>1 DEF RacesAlong
<1> QED
  BY <1>1, <1>2, <1>3, <1>4, <1>5, Zenon

LEMMA QueueFailsDoes ==
  ASSUME Typed, QueueFails, Frame
  PROVE  /\ sink.pc = "append" /\ sink.buffer \in Buffers /\ sink.dequeued = None
         /\ sink'.pc = "release" /\ sink'.buffer = sink.buffer /\ sink'.dequeued = None
         /\ AppendIndex /\ events' = RacesAlong(sink) \cup {"error"}
         /\ events \subseteq events'
         /\ UNCHANGED <<buffers, showcnt, v4lqueued, queue, device, Flow, codec,
                        vpuVars, decoder, phase>>
<1>1. /\ sink.pc = "append" /\ AppendIndex
      /\ events' = RacesAlong(sink) \cup {"error"}
      /\ sink' = [sink EXCEPT !.pc = "release", !.list = {}]
  BY Zenon DEF QueueFails
<1>2. UNCHANGED <<buffers, showcnt, v4lqueued, queue, device, Flow, codec,
                  vpuVars, decoder, phase>>
  BY Zenon DEF QueueFails, Frame, Flow, stream
<1>3. sink'.pc = "release" /\ sink'.buffer = sink.buffer /\ sink'.dequeued = sink.dequeued
  BY <1>1, SinkHolds DEF Thread
<1>4. sink.dequeued = None /\ sink.buffer \in Buffers
  BY <1>1, SinkHolds
<1>5. events \subseteq events'
  BY <1>1 DEF RacesAlong
<1> QED
  BY <1>1, <1>2, <1>3, <1>4, <1>5, Zenon

LEMMA ShowingDoes ==
  ASSUME Typed, Showing, Frame
  PROVE  /\ sink.pc = "queued" /\ sink.buffer \in Buffers /\ sink.dequeued = None
         /\ sink'.pc = "count" /\ sink'.buffer = sink.buffer /\ sink'.dequeued = None
         /\ sink'.n = v4lqueued /\ bufstate' = [bufstate EXCEPT ![sink.buffer] = "SHOWING"]
         /\ UNCHANGED <<refs, free_pool, showcnt, v4llist, v4lqueued, queue, device, Flow,
                        codec, Rest>>
<1>1. /\ sink.pc = "queued" /\ bufstate' = [bufstate EXCEPT ![sink.buffer] = "SHOWING"]
      /\ sink' = [sink EXCEPT !.pc = "count", !.n = v4lqueued]
  BY Zenon DEF Showing
<1>2. UNCHANGED <<refs, free_pool, showcnt, v4llist, v4lqueued, queue, device, Flow,
                  codec, Rest>>
  BY Zenon DEF Showing, Frame, Flow, Rest, stream
<1>3. /\ sink'.pc = "count" /\ sink'.buffer = sink.buffer /\ sink'.dequeued = sink.dequeued
      /\ sink'.n = v4lqueued
  BY <1>1, SinkHolds DEF Thread
<1>4. sink.dequeued = None /\ sink.buffer \in Buffers
  BY <1>1, SinkHolds
<1> QED
  BY <1>1, <1>2, <1>3, <1>4, Zenon

LEMMA CountDoes ==
  ASSUME Typed, Count, Frame
  PROVE  /\ sink.pc = "count" /\ sink.dequeued = None
         /\ sink'.pc = "trydq" /\ sink'.buffer = sink.buffer /\ sink'.dequeued = None
         /\ v4lqueued' = sink.n + 1
         /\ \/ qbuff_count = StreamOnAt /\ stream_on' = TRUE /\ driver_on' = TRUE
            \/ "streamon" \in events' /\ UNCHANGED <<stream_on, driver_on>>
            \/ qbuff_count # StreamOnAt /\ UNCHANGED <<stream_on, driver_on>>
         /\ qbuff_count' = IF qbuff_count = 2 THEN 2 ELSE qbuff_count + 1
         /\ events \subseteq events'
         /\ UNCHANGED <<buffers, showcnt, v4llist, queue, driver, done, codec, vpuVars,
                        decoder, phase>>
<1>1. /\ sink.pc = "count" /\ v4lqueued' = sink.n + 1
      /\ qbuff_count' = IF qbuff_count = 2 THEN 2 ELSE qbuff_count + 1
      /\ sink' = [sink EXCEPT !.pc = "trydq", !.n = 0, !.again = TRUE]
  BY Zenon DEF Count
<1>2. UNCHANGED <<buffers, showcnt, v4llist, queue, driver, done, codec, vpuVars,
                  decoder, phase>>
  BY Zenon DEF Count, Frame
<1>3. sink'.pc = "trydq" /\ sink'.buffer = sink.buffer /\ sink'.dequeued = sink.dequeued
  BY <1>1, SinkHolds DEF Thread
<1>4. sink.dequeued = None
  BY <1>1, SinkHolds
<1>5. /\ \/ qbuff_count = StreamOnAt /\ stream_on' = TRUE /\ driver_on' = TRUE
         \/ "streamon" \in events' /\ UNCHANGED <<stream_on, driver_on>>
         \/ qbuff_count # StreamOnAt /\ UNCHANGED <<stream_on, driver_on>>
      /\ events' = events \/ events' = events \cup {"streamon"}
  <2>1. CASE qbuff_count = StreamOnAt
    BY <2>1, Zenon DEF Count, StreamOn, Happens
  <2>2. CASE qbuff_count # StreamOnAt
    BY <2>2, Zenon DEF Count
  <2> QED
    BY <2>1, <2>2
<1>6. events \subseteq events'
  BY <1>5
<1> QED
  BY <1>1, <1>2, <1>3, <1>4, <1>5, <1>6, Zenon

LEMMA SinkDequeueDoes ==
  ASSUME Typed, SinkDequeue, Frame
  PROVE  /\ sink.pc \in {"dq", "dq once"} /\ sink.dequeued = None
         /\ done # <<>> /\ done' = Tail(done) /\ Dequeued(Head(done))
         /\ v4lqueued' = v4lqueued - 1 /\ v4llist' = v4llist \ {Head(done)}
         /\ sink'.pc = "drop" /\ sink'.buffer = sink.buffer
         /\ sink'.dequeued = Drops(Head(done))
         /\ UNCHANGED <<refs, free_pool, queue, driver, driver_on, Flow, codec, Rest>>
<1>1. /\ sink.pc \in {"dq", "dq once"} /\ done # <<>> /\ done' = Tail(done)
      /\ Dequeued(Head(done)) /\ v4lqueued' = v4lqueued - 1
      /\ v4llist' = v4llist \ {Head(done)}
      /\ sink' = [sink EXCEPT !.pc = "drop", !.dequeued = Drops(Head(done))]
  BY Zenon DEF SinkDequeue
<1>2. UNCHANGED <<refs, free_pool, queue, driver, driver_on, Flow, codec, Rest>>
  BY Zenon DEF SinkDequeue, Frame, Flow, Rest, stream
<1>3. PICK d : d = Drops(Head(done))
  OBVIOUS
<1>4. sink'.pc = "drop" /\ sink'.buffer = sink.buffer /\ sink'.dequeued = d
  BY <1>1, <1>3, SinkHolds DEF Thread
<1>5. sink.dequeued = None
  BY <1>1, SinkHolds
<1> QED
  BY <1>1, <1>2, <1>3, <1>4, <1>5, Zenon

LEMMA SinkDropDoes ==
  ASSUME Typed, SinkDrop, Frame
  PROVE  /\ sink.pc = "drop" /\ sink.dequeued \in Buffers \cup {None}
         /\ sink'.pc \in {"trydq", "release"} /\ sink'.buffer = sink.buffer
         /\ sink'.dequeued = None
         /\ IF sink.dequeued = None THEN UNCHANGED buffers ELSE Unref(sink.dequeued)
         /\ UNCHANGED <<showcnt, v4llist, v4lqueued, queue, device, Flow, codec, Rest>>
<1>1. /\ sink.pc = "drop"
      /\ IF sink.dequeued = None THEN UNCHANGED buffers ELSE Unref(sink.dequeued)
      /\ \E p \in {"trydq", "release"} :
           sink' = [sink EXCEPT !.dequeued = None, !.again = FALSE, !.pc = p]
  BY Zenon DEF SinkDrop
<1>2. UNCHANGED <<showcnt, v4llist, v4lqueued, queue, device, Flow, codec, Rest>>
  BY Zenon DEF SinkDrop, Frame, Flow, Rest, stream
<1>3. PICK p \in {"trydq", "release"} :
        sink' = [sink EXCEPT !.dequeued = None, !.again = FALSE, !.pc = p]
  BY <1>1
<1>4. sink'.pc = p /\ sink'.buffer = sink.buffer /\ sink'.dequeued = None
  BY <1>3, SinkHolds DEF Thread
<1>5. sink.dequeued \in Buffers \cup {None}
  BY SinkHolds DEF Thread
<1> QED
  BY <1>1, <1>2, <1>4, <1>5, Zenon

LEMMA ReleaseDoes ==
  ASSUME Typed, Release, Frame
  PROVE  /\ sink.pc = "release" /\ sink.buffer \in Buffers \cup {SwBuffer}
         /\ sink.dequeued = None /\ Unref(sink.buffer)
         /\ sink'.pc = "idle" /\ sink'.buffer = None /\ sink'.dequeued = None
         /\ UNCHANGED <<showcnt, v4llist, v4lqueued, queue, device, Flow, codec, Rest>>
<1>1. sink.pc = "release" /\ Unref(sink.buffer) /\ sink' = Idle
  BY Zenon DEF Release
<1>2. UNCHANGED <<showcnt, v4llist, v4lqueued, queue, device, Flow, codec, Rest>>
  BY Zenon DEF Release, Frame, Flow, Rest, stream
<1>3. sink'.pc = "idle" /\ sink'.buffer = None /\ sink'.dequeued = None
  BY <1>1 DEF Idle
<1>4. sink.dequeued = None /\ sink.buffer \in Buffers \cup {SwBuffer}
  BY <1>1, SinkHolds
<1> QED
  BY <1>1, <1>2, <1>3, <1>4, Zenon

LEMMA CompleteDoes ==
  ASSUME Complete, Frame
  PROVE  /\ Len(driver) > 1 /\ driver' = Tail(driver) /\ done' = Append(done, Head(driver))
         /\ driver_on' = driver_on
         /\ UNCHANGED <<Accounts, Flow, sink, codec, Rest>>
BY Zenon DEF Complete, Frame, Accounts, Flow, Rest, stream

LEMMA PowerModeDoes ==
  ASSUME NEW m \in {"1", "2"}, PowerMode(m), Frame
  PROVE  /\ UNCHANGED <<Accounts, device, Flow, sink, codec, vpuVars, decoder, phase>>
         /\ events' = events \/ events' = events \cup {"suspend"}
BY Zenon DEF PowerMode, Happens, Frame, Accounts, Flow

LEMMA GeometryDoes ==
  ASSUME Geometry, Frame
  PROVE  /\ sink.pc = "show" /\ stream_on' = FALSE /\ qbuff_count' = 0
         /\ driver' = <<>> /\ done' = <<>> /\ driver_on' = FALSE
         /\ events' = events \cup {"geometry"}
         /\ UNCHANGED <<Accounts, sink, codec, vpuVars, decoder, phase>>
BY Zenon DEF Geometry, Happens, Frame, Accounts

LEMMA InterruptDoes ==
  ASSUME Interrupt
  PROVE  /\ phase = "run" /\ UNCHANGED <<Accounts, device, Flow, sink, codec, vpuVars, decoder>>
         /\ \/ phase' = "flush" /\ events' = events \cup {"flush"}
            \/ phase' = "stop" /\ events' = events
BY Zenon DEF Interrupt, Happens, Accounts, Flow, stream

LEMMA DrainDoes ==
  ASSUME Drain
  PROVE  /\ Flushing /\ queue # <<>> /\ queue' = Tail(queue) /\ Unref(Head(queue))
         /\ UNCHANGED <<showcnt, v4llist, v4lqueued, device, Flow, sink, codec, Rest>>
BY Zenon DEF Drain, Flow, Rest, stream

LEMMA FlushStopDoes ==
  ASSUME FlushStop
  PROVE  /\ phase = "flush" /\ phase' = "run"
         /\ codec.pc = "idle" /\ sink.pc = "idle" /\ queue = <<>>
         /\ UNCHANGED <<Accounts, device, Flow, sink, codec, events, decoder>>
BY Zenon DEF FlushStop, AtRest, Accounts, Flow, stream

LEMMA DecoderToReadyDoes ==
  ASSUME DecoderToReady
  PROVE  /\ phase = "stop" /\ phase' = "ready"
         /\ codec.pc = "idle" /\ sink.pc = "idle" /\ queue = <<>>
         /\ IF decoder = "vpu" THEN FreeFrames ELSE UNCHANGED <<buffers, vpuVars>>
         /\ UNCHANGED <<showcnt, v4llist, v4lqueued, queue, device, Flow, sink, codec, events,
                        decoder>>
BY Zenon DEF DecoderToReady, AtRest, Flow, stream

LEMMA SinkToNullDoes ==
  ASSUME SinkToNull
  PROVE  /\ phase = "ready" /\ phase' = "null" /\ v4llist' = {} /\ free_pool' = <<>>
         /\ \/ stream_on /\ stream_on' = FALSE /\ qbuff_count' = 0 /\ driver_on' = FALSE
               /\ driver' = <<>> /\ done' = <<>>
            \/ ~stream_on /\ UNCHANGED <<device, Flow>>
         /\ UNCHANGED <<showcnt, v4lqueued, queue, sink, codec, events, vpuVars, decoder>>
BY Zenon DEF SinkToNull, Close, Flow

LEMMA RestartDoes ==
  ASSUME Restart
  PROVE  /\ phase = "null" /\ phase' = "run"
         /\ bufstate' = Handed(HandedOut(decoder)) /\ free_pool' = Free(HandedOut(decoder))
         /\ showcnt' = [b \in Buffers |-> 0] /\ refs' = [b \in Buffers |-> 1]
         /\ v4lqueued' = 0 /\ driver' = <<>> /\ done' = <<>> /\ driver_on' = FALSE
         /\ UNCHANGED <<v4llist, queue, Flow, sink, codec, events, vpuVars, decoder>>
BY Zenon DEF Restart, Open, Flow, stream

LEMMA TypedKept ==
  ASSUME Typed, Next PROVE Typed'
BY TablesKept, ModesKept, CodecRunsKept, SinkRunsKept, RestingKept, NoSuspendKept,
   HandlesKept, Zenon DEF Typed

-------------------------------------------------------------------------------
(* Sequences: what is in them and whether they hold it once                *)

LEMMA TailHas ==
  ASSUME NEW S, NEW s \in Seq(S), s # <<>>
  PROVE  /\ Head(s) \in S /\ Tail(s) \in Seq(S) /\ Len(Tail(s)) = Len(s) - 1
         /\ \A b : Has(s, b) <=> b = Head(s) \/ Has(Tail(s), b)
         /\ Distinct(s) => Distinct(Tail(s)) /\ ~Has(Tail(s), Head(s))
<1> DEFINE t == Tail(s)
<1>1. /\ Len(s) \in Nat /\ Len(s) > 0 /\ Head(s) = s[1] /\ Head(s) \in S
      /\ t \in Seq(S) /\ Len(t) = Len(s) - 1
      /\ \A i \in 1 .. Len(s) - 1 : t[i] = s[i + 1]
  OBVIOUS
<1> HIDE DEF t
<1>2. \A b : Has(s, b) <=> b = Head(s) \/ Has(t, b)
  <2> SUFFICES ASSUME NEW b PROVE Has(s, b) <=> b = Head(s) \/ Has(t, b)
    OBVIOUS
  <2>1. ASSUME NEW i \in 1 .. Len(s), s[i] = b PROVE b = Head(s) \/ Has(t, b)
    <3>1. CASE i = 1
      BY <1>1, <2>1, <3>1
    <3>2. CASE i # 1
      <4>1. i - 1 \in 1 .. Len(t) /\ t[i - 1] = b
        BY <1>1, <2>1, <3>2
      <4> QED
        BY <4>1 DEF Has
    <3> QED
      BY <3>1, <3>2
  <2>2. Has(t, b) => Has(s, b)
    <3>1. \A i \in 1 .. Len(t) : i + 1 \in 1 .. Len(s) /\ t[i] = s[i + 1]
      BY <1>1
    <3> QED
      BY <3>1 DEF Has
  <2>3. b = Head(s) => Has(s, b)
    BY <1>1 DEF Has
  <2> QED
    BY <2>1, <2>2, <2>3 DEF Has
<1>3. Distinct(s) => Distinct(t) /\ ~Has(t, Head(s))
  <2> SUFFICES ASSUME Distinct(s) PROVE Distinct(t) /\ ~Has(t, Head(s))
    OBVIOUS
  <2>1. \A i, j \in 1 .. Len(s) : i # j => s[i] # s[j]
    BY DEF Distinct
  <2>2. \A i \in 1 .. Len(t) : i + 1 \in 1 .. Len(s) /\ t[i] = s[i + 1] /\ i + 1 # 1
    BY <1>1
  <2>3. ~Has(t, Head(s))
    BY <1>1, <2>1, <2>2 DEF Has
  <2>4. Distinct(t)
    <3> SUFFICES ASSUME NEW i \in 1 .. Len(t), NEW j \in 1 .. Len(t), i # j
                 PROVE  t[i] # t[j]
      BY DEF Distinct
    <3>1. i + 1 # j + 1
      BY <1>1
    <3> QED
      BY <2>1, <2>2, <3>1
  <2> QED
    BY <2>3, <2>4
<1> QED
  BY <1>1, <1>2, <1>3 DEF t

LEMMA AppendHas ==
  ASSUME NEW S, NEW s \in Seq(S), NEW x \in S
  PROVE  /\ Append(s, x) \in Seq(S) /\ Len(Append(s, x)) = Len(s) + 1
         /\ Append(s, x)[Len(s) + 1] = x
         /\ \A b : Has(Append(s, x), b) <=> b = x \/ Has(s, b)
         /\ Distinct(s) /\ ~Has(s, x) => Distinct(Append(s, x))
<1> DEFINE t == Append(s, x)
<1>1. /\ Len(s) \in Nat /\ t \in Seq(S) /\ Len(t) = Len(s) + 1 /\ t[Len(s) + 1] = x
      /\ \A i \in 1 .. Len(s) : t[i] = s[i]
  OBVIOUS
<1> HIDE DEF t
<1>2. \A b : Has(t, b) <=> b = x \/ Has(s, b)
  <2> SUFFICES ASSUME NEW b PROVE Has(t, b) <=> b = x \/ Has(s, b)
    OBVIOUS
  <2>1. \A i \in 1 .. Len(t) : i = Len(s) + 1 \/ i \in 1 .. Len(s)
    BY <1>1
  <2>2. Len(s) + 1 \in 1 .. Len(t) /\ \A i \in 1 .. Len(s) : i \in 1 .. Len(t)
    BY <1>1
  <2> QED
    BY <1>1, <2>1, <2>2 DEF Has
<1>3. Distinct(s) /\ ~Has(s, x) => Distinct(t)
  <2> SUFFICES ASSUME Distinct(s), ~Has(s, x),
                      NEW i \in 1 .. Len(t), NEW j \in 1 .. Len(t), i # j
               PROVE  t[i] # t[j]
    BY DEF Distinct
  <2>1. (i = Len(s) + 1 \/ i \in 1 .. Len(s)) /\ (j = Len(s) + 1 \/ j \in 1 .. Len(s))
    BY <1>1
  <2> QED
    BY <1>1, <2>1 DEF Distinct, Has
<1> QED
  BY <1>1, <1>2, <1>3 DEF t

LEMMA EmptyHas == /\ Distinct(<<>>) /\ \A b : ~Has(<<>>, b) /\ Len(<<>>) = 0
BY DEF Distinct, Has

-------------------------------------------------------------------------------
(* The list of the queued buffers                                          *)

Listing ==
  /\ phase # "null" /\ ~ListRaced => Listed
  /\ v4llist = {} \/ phase # "null"

ListSame ==
  /\ UNCHANGED <<driver, done, v4llist, decoder>> /\ events \subseteq events'
  /\ phase' = "null" <=> phase = "null"
  /\ codec.pc = "store" \/ codec'.pc = "store" => codec' = codec
  /\ sink'.pc \in {"append", "queued"} => sink' = sink

\* A race is not forgotten.
LEMMA RaceStays ==
  ASSUME events \subseteq events', decoder' = decoder PROVE ListRaced => ListRaced'
BY DEF ListRaced, Harmed

\* What has none of this to do leaves the list as good as it was.
LEMMA ListingSame ==
  ASSUME Listing, ListSame PROVE Listing'
<1>1. phase' = "null" => v4llist' = {}
  BY DEF Listing, ListSame
<1>2. ASSUME phase' # "null", ~ListRaced' PROVE Listed'
  <2>1. Listed
    BY <1>2, RaceStays DEF Listing, ListSame
  <2>2. driver' = driver /\ done' = done /\ v4llist' = v4llist
    BY DEF ListSame
  <2>3. \A b \in Buffers : Pending(b)' <=> Pending(b)
    BY Zenon DEF ListSame, Pending
  <2>4. \A b \in Buffers : Out(b)' <=> Out(b)
    BY <2>2, <2>3, Zenon DEF Out
  <2>5. Harmed({"geometry", "error"}) => Harmed({"geometry", "error"})'
    BY DEF ListSame, Harmed
  <2>6. Distinct(driver') /\ Distinct(done')
    BY <2>1, <2>2, Zenon DEF Listed
  <2>7. /\ \A b \in Buffers : Has(driver', b) => ~Has(done', b) /\ ~Pending(b)'
        /\ \A b \in Buffers : Has(done', b) => ~Pending(b)'
    BY <2>1, <2>2, <2>3, Zenon DEF Listed
  <2>8. \A b \in Buffers : Out(b)' => b \in v4llist'
    BY <2>1, <2>2, <2>4, Zenon DEF Listed
  <2>9. ~Harmed({"geometry", "error"})' => \A b \in v4llist' : Out(b)'
    <3>1. v4llist \in SUBSET Buffers => v4llist' \in SUBSET Buffers
      BY <2>2
    <3> QED
      BY <2>1, <2>2, <2>3, <2>5, Zenon DEF Listed, Out, ListSame, Pending
  <2>10. sink'.pc = "queued" => Len(driver') > 0 /\ driver'[Len(driver')] = sink'.buffer
    BY <2>1, <2>2, Zenon DEF Listed, ListSame
  <2>11. Appending'
    BY <2>1, <2>2, Zenon DEF Listed, ListSame, Appending
  <2> QED
    BY <2>6, <2>7, <2>8, <2>9, <2>10, <2>11, Zenon DEF Listed
<1> QED
  BY <1>1, <1>2 DEF Listing

LEMMA ListsType ==
  ASSUME Typed
  PROVE  /\ driver \in Seq(Buffers) /\ done \in Seq(Buffers)
         /\ queue \in Seq(Buffers \cup {SwBuffer})
         /\ free_pool \in Seq(Buffers) /\ v4llist \in SUBSET Buffers
         /\ bufstate \in [Buffers -> States] /\ showcnt \in [Buffers -> Int]
         /\ refs \in [Buffers -> Int] /\ v4lqueued \in Int
BY DEF Typed, Tables

\* What the sink stores is the list and the buffer, unless codec was there.
LEMMA Appends ==
  ASSUME Typed, Listing, sink.pc = "append", AppendIndex, decoder' = decoder,
         RacesAlong(sink) \subseteq events', ~ListRaced'
  PROVE  /\ Listed /\ v4llist' = v4llist \cup {sink.buffer}
         /\ sink.buffer \notin v4llist
<1>1. ~ListRaced
  BY RaceStays DEF RacesAlong
<1>2. phase # "null"
  BY DEF Typed, Resting
<1>3. Listed /\ Appending
  BY <1>1, <1>2 DEF Listing, Listed
<1>4. v4llist = sink.list
  <2> SUFFICES ASSUME v4llist # sink.list PROVE FALSE
    OBVIOUS
  <2>1. decoder = "copy"
    BY <1>3, RenderingAssumption DEF Appending, Typed, Modes
  <2>2. "race" \in events'
    BY DEF RacesAlong
  <2> QED
    BY <2>1, <2>2 DEF ListRaced, Harmed
<1> QED
  BY <1>3, <1>4 DEF Appending, AppendIndex

\* The list holds what the driver has and what codec has just dequeued.
LEMMA ListingKept ==
  ASSUME Typed, Listing, Next PROVE Listing'
<1>0. ~ListRaced' => ~ListRaced
  BY Records, RaceStays DEF Recorded
<1>1. CASE Start
  BY <1>1, StartDoes, ListingSame
     DEF ListSame, CodecAside, SinkAside, Accounts, Rest, device
<1>2. CASE Push
  BY <1>2, PushDoes, ListingSame
     DEF ListSame, CodecAside, SinkAside, Accounts, Rest, device
<1>3. CASE NewBuffer /\ Frame
  BY <1>3, NewBufferDoes, ListingSame
     DEF ListSame, CodecAside, SinkAside, Accounts, Rest, device
<1>4. CASE CodecDequeue /\ Frame
  <2>1. CASE CodecAside /\ UNCHANGED done
    BY <1>4, <2>1, CodecDequeueDoes, ListingSame
       DEF ListSame, CodecAside, Accounts, Rest
  <2>2. CASE /\ codec.pc = "dq" /\ done # <<>> /\ done' = Tail(done)
             /\ codec'.pc = "store" /\ codec'.dequeued = Head(done)
    <3>1. UNCHANGED <<driver, v4llist, sink, events, phase, decoder>>
      BY <1>4, CodecDequeueDoes, Zenon DEF Accounts, Rest
    <3>2. /\ \A b : Has(done, b) <=> b = Head(done) \/ Has(done', b)
          /\ Distinct(done) => Distinct(done') /\ ~Has(done', Head(done))
      BY <2>2, ListsType, TailHas
    <3>3. /\ \A b : Pending(b)' <=> b = Head(done)
          /\ \A b : ~Pending(b)
      BY <2>2, Zenon DEF Pending
    <3>4. ASSUME phase # "null", ~ListRaced' PROVE Listed'
      <4>1. Listed
        BY <1>0, <3>4 DEF Listing
      <4>2. \A b : Out(b)' <=> Out(b)
        BY <3>1, <3>2, <3>3, Zenon DEF Out
      <4>3. Distinct(driver') /\ Distinct(done')
        BY <3>1, <3>2, <4>1, Zenon DEF Listed
      <4>4. /\ \A b \in Buffers : Has(driver', b) => ~Has(done', b) /\ ~Pending(b)'
            /\ \A b \in Buffers : Has(done', b) => ~Pending(b)'
        <5>1. ~Has(done', Head(done)) /\ Has(done, Head(done))
          BY <3>2, <4>1, Zenon DEF Listed
        <5>2. \A b \in Buffers : Has(driver, b) => ~Has(done, b)
          BY <4>1, Zenon DEF Listed
        <5>3. \A b : Has(driver', b) <=> Has(driver, b)
          BY <3>1, Zenon
        <5> QED
          BY <3>2, <3>3, <5>1, <5>2, <5>3, Zenon
      <4>5. \A b \in Buffers : Out(b)' => b \in v4llist'
        BY <3>1, <4>1, <4>2, Zenon DEF Listed
      <4>6. ~Harmed({"geometry", "error"})' => \A b \in v4llist' : Out(b)'
        BY <3>1, <4>1, <4>2, ListsType DEF Listed, Harmed
      <4>7. sink'.pc = "queued" => Len(driver') > 0 /\ driver'[Len(driver')] = sink'.buffer
        BY <3>1, <4>1, Zenon DEF Listed
      <4>8. Appending'
        BY <3>1, <4>1, Zenon DEF Listed, Appending
      <4> QED
        BY <4>3, <4>4, <4>5, <4>6, <4>7, <4>8, Zenon DEF Listed
    <3> QED
      BY <3>1, <3>4, Zenon DEF Listing
  <2> QED
    BY <1>4, <2>1, <2>2, CodecDequeueDoes, Zenon
<1>5. CASE CodecStore /\ Frame
  <2>1. /\ codec.pc = "store" /\ codec'.pc = "drop" /\ codec.dequeued \in Buffers
        /\ UNCHANGED <<driver, done, sink, decoder, phase>> /\ decoder = "copy"
        /\ ListRaced' \/ (v4llist' = v4llist \ {codec.dequeued} /\ events' = events)
    BY <1>5, CodecStoreDoes, Zenon DEF device
  <2>2. \A b : (Pending(b) <=> b = codec.dequeued) /\ ~Pending(b)'
    BY <2>1 DEF Pending
  <2>3. ASSUME phase # "null", ~ListRaced' PROVE Listed'
    <3>1. Listed /\ v4llist' = v4llist \ {codec.dequeued} /\ events' = events
      BY <1>0, <2>1, <2>3 DEF Listing
    <3>2. \A b \in Buffers : Out(b)' <=> Out(b) /\ b # codec.dequeued
      BY <2>1, <2>2, <3>1, Zenon DEF Out, Listed
    <3>3. \A b \in Buffers : Out(b)' => b \in v4llist'
      BY <3>1, <3>2 DEF Listed
    <3>4. ~Harmed({"geometry", "error"})' => \A b \in v4llist' : Out(b)'
      BY <3>1, <3>2, ListsType DEF Listed, Harmed
    <3>5. Appending'
      BY <2>1, <3>1 DEF Listed, Appending
    <3> QED
      BY <2>1, <2>2, <3>1, <3>3, <3>4, <3>5, Zenon DEF Listed
  <2>4. phase # "null"
    BY <2>1 DEF Typed, Resting
  <2> QED
    BY <2>1, <2>3, <2>4 DEF Listing
<1>6. CASE CodecDrop /\ Frame
  BY <1>6, CodecDropDoes, ListingSame
     DEF ListSame, CodecAside, SinkAside, Accounts, Rest, device
<1>7. CASE Take /\ Frame
  BY <1>7, TakeDoes, ListingSame
     DEF ListSame, CodecAside, SinkAside, Accounts, Rest, device
<1>8. CASE Retry /\ Frame
  BY <1>8, RetryDoes, ListingSame
     DEF ListSame, CodecAside, SinkAside, Accounts, Rest, device
<1>9. CASE TakeSoftware /\ Frame
  BY <1>9, TakeSoftwareDoes, ListingSame
     DEF ListSame, CodecAside, SinkAside, Accounts, Rest, device
<1>10. CASE CheckDisplayQueue /\ UNCHANGED <<decoder, phase>>
  BY <1>10, CheckDisplayQueueDoes, ListingSame
     DEF ListSame, CodecAside, SinkAside, Accounts, Rest, device
<1>11. CASE NoPicture /\ UNCHANGED <<decoder, phase>>
  BY <1>11, NoPictureDoes, ListingSame
     DEF ListSame, CodecAside, SinkAside, Accounts, Rest, device
<1>12. ASSUME NEW f \in Buffers, Output(f), UNCHANGED <<decoder, phase>>
      PROVE  Listing'
  BY <1>12, OutputDoes, ListingSame
     DEF ListSame, CodecAside, SinkAside, Accounts, Rest, device
<1>13. CASE Interrupt
  BY <1>13, InterruptDoes, ListingSame
     DEF ListSame, CodecAside, SinkAside, Accounts, Rest, device
<1>14. CASE Drain
  BY <1>14, DrainDoes, ListingSame
     DEF ListSame, CodecAside, SinkAside, Accounts, Rest, device
<1>15. CASE FlushStop
  BY <1>15, FlushStopDoes, ListingSame
     DEF ListSame, CodecAside, SinkAside, Accounts, Rest, device
<1>16. CASE DecoderToReady
  BY <1>16, DecoderToReadyDoes, ListingSame
     DEF ListSame, CodecAside, SinkAside, Accounts, Rest, device
<1>17. CASE SinkToNull
  BY <1>17, SinkToNullDoes, Zenon DEF Listing
<1>18. CASE Restart
  <2>1. /\ phase = "null" /\ phase' = "run" /\ driver' = <<>> /\ done' = <<>>
        /\ UNCHANGED <<v4llist, sink, codec, events>>
    BY <1>18, RestartDoes, Zenon
  <2>2. v4llist' = {} /\ codec'.pc = "idle" /\ sink'.pc = "idle"
    BY <2>1 DEF Listing, Typed, Resting
  <2>3. \A b : ~Out(b)' /\ ~Pending(b)'
    BY <2>1, <2>2, EmptyHas DEF Out, Pending
  <2>4. Listed'
    BY <2>1, <2>2, <2>3, EmptyHas DEF Listed, Out, Appending
  <2> QED
    BY <2>1, <2>4 DEF Listing
<1>19. CASE Complete /\ Frame
  <2>1. /\ Len(driver) > 1 /\ driver' = Tail(driver) /\ done' = Append(done, Head(driver))
        /\ UNCHANGED <<v4llist, sink, codec, events, phase, decoder>>
    BY <1>19, CompleteDoes, Zenon DEF Accounts, Rest
  <2>2. driver # <<>>
    BY <2>1
  <2>3. /\ Head(driver) \in Buffers /\ Len(driver') = Len(driver) - 1
        /\ \A b : Has(driver, b) <=> b = Head(driver) \/ Has(driver', b)
        /\ Distinct(driver) => Distinct(driver') /\ ~Has(driver', Head(driver))
    BY <2>1, <2>2, ListsType, TailHas
  <2>4. /\ \A b : Has(done', b) <=> b = Head(driver) \/ Has(done, b)
        /\ Distinct(done) /\ ~Has(done, Head(driver)) => Distinct(done')
    BY <2>1, <2>3, ListsType, AppendHas
  <2>5. \A b : Pending(b)' <=> Pending(b)
    BY <2>1, Zenon DEF Pending
  <2>6. ASSUME phase # "null", ~ListRaced' PROVE Listed'
    <3>1. Listed
      BY <1>0, <2>6 DEF Listing
    <3>2. \A b \in Buffers : Out(b)' <=> Out(b)
      BY <2>3, <2>4, <2>5, Zenon DEF Out
    <3>3. Distinct(driver') /\ Distinct(done')
      BY <2>3, <2>4, <3>1, Zenon DEF Listed
    <3>4. /\ \A b \in Buffers : Has(driver', b) => ~Has(done', b) /\ ~Pending(b)'
          /\ \A b \in Buffers : Has(done', b) => ~Pending(b)'
      BY <2>3, <2>4, <2>5, <3>1, Zenon DEF Listed
    <3>5. \A b \in Buffers : Out(b)' => b \in v4llist'
      BY <2>1, <3>1, <3>2, Zenon DEF Listed
    <3>6. ~Harmed({"geometry", "error"})' => \A b \in v4llist' : Out(b)'
      BY <2>1, <3>1, <3>2, ListsType DEF Listed, Harmed
    <3>7. sink'.pc = "queued" => Len(driver') > 0 /\ driver'[Len(driver')] = sink'.buffer
      <4>1. driver[Len(driver)] = driver'[Len(driver')] /\ Len(driver') > 0
        BY <2>1, ListsType
      <4> QED
        BY <2>1, <3>1, <4>1 DEF Listed
    <3>8. Appending'
      BY <2>1, <3>1, Zenon DEF Listed, Appending
    <3> QED
      BY <3>3, <3>4, <3>5, <3>6, <3>7, <3>8, Zenon DEF Listed
  <2> QED
    BY <2>1, <2>6, Zenon DEF Listing
<1>20. CASE Render /\ Frame
  BY <1>20, RenderDoes, ListingSame
     DEF ListSame, CodecAside, SinkAside, Accounts, Rest, device
<1>21. CASE Cleared /\ Frame
  BY <1>21, ClearedDoes, ListingSame
     DEF ListSame, CodecAside, SinkAside, Accounts, Rest, device
<1>22. ASSUME NEW b \in Buffers, ClearShowing(b), Frame PROVE Listing'
  BY <1>22, ClearShowingDoes, ListingSame
     DEF ListSame, CodecAside, SinkAside, Accounts, Rest, device
<1>23. CASE ShowSoftware /\ Frame
  BY <1>23, ShowSoftwareDoes, ListingSame
     DEF ListSame, CodecAside, SinkAside, Accounts, Rest, device
<1>24. CASE ShowAgain /\ Frame
  BY <1>24, ShowAgainDoes, ListingSame
     DEF ListSame, CodecAside, SinkAside, Accounts, Rest, device
<1>25. CASE Queue /\ Frame
  <2>1. /\ sink.buffer \in Buffers /\ sink'.buffer = sink.buffer /\ sink'.pc = "queued"
        /\ driver' = Append(driver, sink.buffer) /\ events \subseteq events'
        /\ UNCHANGED <<done, codec, phase>>
    BY <1>25, QueueDoes, Zenon
  <2>2. /\ Len(driver') = Len(driver) + 1 /\ driver'[Len(driver) + 1] = sink.buffer
        /\ Len(driver) \in Nat
        /\ \A b : Has(driver', b) <=> b = sink.buffer \/ Has(driver, b)
        /\ Distinct(driver) /\ ~Has(driver, sink.buffer) => Distinct(driver')
    BY <2>1, ListsType, AppendHas
  <2>3. \A b : Pending(b)' <=> Pending(b)
    BY <2>1, Zenon DEF Pending
  <2>4. ASSUME phase # "null", ~ListRaced' PROVE Listed'
    <3>1. /\ Listed /\ v4llist' = v4llist \cup {sink.buffer}
          /\ sink.buffer \notin v4llist
      BY <1>25, <2>4, QueueDoes, Appends
    <3>9. ~Out(sink.buffer)
      BY <2>1, <3>1 DEF Listed
    <3>2. \A b \in Buffers : Out(b)' <=> Out(b) \/ b = sink.buffer
      BY <2>1, <2>2, <2>3, Zenon DEF Out
    <3>3. Distinct(driver') /\ Distinct(done')
      BY <2>1, <2>2, <3>1, <3>9, Zenon DEF Listed, Out
    <3>4. /\ \A b \in Buffers : Has(driver', b) => ~Has(done', b) /\ ~Pending(b)'
          /\ \A b \in Buffers : Has(done', b) => ~Pending(b)'
      BY <2>1, <2>2, <2>3, <3>1, <3>9, Zenon DEF Listed, Out
    <3>5. \A b \in Buffers : Out(b)' => b \in v4llist'
      BY <2>1, <3>1, <3>2 DEF Listed
    <3>6. ~Harmed({"geometry", "error"})' => \A b \in v4llist' : Out(b)'
      BY <2>1, <3>1, <3>2, ListsType, Grows DEF Listed
    <3>7. Len(driver') > 0 /\ driver'[Len(driver')] = sink'.buffer
      BY <2>1, <2>2
    <3>8. Appending'
      BY <2>1 DEF Appending
    <3> QED
      BY <3>3, <3>4, <3>5, <3>6, <3>7, <3>8, Zenon DEF Listed
  <2>5. phase # "null"
    BY <1>25, QueueDoes DEF Typed, Resting
  <2> QED
    BY <2>1, <2>4, <2>5, Zenon DEF Listing
<1>26. CASE Showing /\ Frame
  BY <1>26, ShowingDoes, ListingSame
     DEF ListSame, CodecAside, SinkAside, Accounts, Rest, device
<1>27. CASE Count /\ Frame
  BY <1>27, CountDoes, ListingSame
     DEF ListSame, CodecAside, SinkAside, Accounts, Rest, device
<1>28. CASE TryDequeue /\ Frame
  BY <1>28, TryDequeueDoes, ListingSame
     DEF ListSame, CodecAside, SinkAside, Accounts, Rest, device
<1>29. CASE SinkDequeue /\ Frame
  <2>1. /\ sink'.pc = "drop" /\ done # <<>> /\ done' = Tail(done)
        /\ v4llist' = v4llist \ {Head(done)}
        /\ UNCHANGED <<driver, codec, events, phase>>
    BY <1>29, SinkDequeueDoes, Zenon DEF Rest
  <2>2. /\ Head(done) \in Buffers
        /\ \A b : Has(done, b) <=> b = Head(done) \/ Has(done', b)
        /\ Distinct(done) => Distinct(done') /\ ~Has(done', Head(done))
    BY <2>1, ListsType, TailHas
  <2>3. \A b : Pending(b)' <=> Pending(b)
    BY <2>1, Zenon DEF Pending
  <2>4. ASSUME phase # "null", ~ListRaced' PROVE Listed'
    <3>1. Listed
      BY <1>0, <2>4 DEF Listing
    <3>2. \A b \in Buffers : Out(b)' <=> Out(b) /\ b # Head(done)
      BY <2>1, <2>2, <2>3, <3>1, Zenon DEF Out, Listed
    <3>3. \A b \in Buffers : Out(b)' => b \in v4llist'
      BY <2>1, <3>1, <3>2 DEF Listed
    <3>4. ~Harmed({"geometry", "error"})' => \A b \in v4llist' : Out(b)'
      BY <2>1, <3>1, <3>2, ListsType DEF Listed, Harmed
    <3>5. sink'.pc # "queued" /\ Appending'
      BY <2>1 DEF Appending
    <3> QED
      BY <2>1, <2>2, <2>3, <3>1, <3>3, <3>4, <3>5, Zenon DEF Listed
  <2> QED
    BY <2>1, <2>4 DEF Listing
<1>30. CASE GiveUp /\ Frame
  BY <1>30, GiveUpDoes, ListingSame
     DEF ListSame, CodecAside, SinkAside, Accounts, Rest, device
<1>31. CASE SinkDrop /\ Frame
  BY <1>31, SinkDropDoes, ListingSame
     DEF ListSame, CodecAside, SinkAside, Accounts, Rest, device
<1>32. CASE Release /\ Frame
  BY <1>32, ReleaseDoes, ListingSame
     DEF ListSame, CodecAside, SinkAside, Accounts, Rest, device
<1>33. CASE Geometry /\ Frame
  <2>1. /\ sink.pc = "show" /\ driver' = <<>> /\ done' = <<>>
        /\ events' = events \cup {"geometry"} /\ UNCHANGED <<v4llist, sink, codec, phase>>
    BY <1>33, GeometryDoes, Zenon DEF Accounts
  <2>2. ASSUME phase # "null", ~ListRaced' PROVE Listed'
    <3>1. Listed
      BY <1>0, <2>2 DEF Listing
    <3>2. \A b : ~Has(driver', b) /\ ~Has(done', b) /\ (Pending(b)' <=> Pending(b))
      BY <2>1, EmptyHas, Zenon DEF Pending
    <3>3. \A b \in Buffers : Out(b)' => b \in v4llist'
      BY <2>1, <3>1, <3>2, Zenon DEF Listed, Out
    <3>4. Harmed({"geometry", "error"})'
      BY <2>1 DEF Harmed
    <3>5. sink'.pc # "queued" /\ Appending' /\ Distinct(driver') /\ Distinct(done')
      BY <2>1, EmptyHas DEF Appending
    <3> QED
      BY <3>2, <3>3, <3>4, <3>5, Zenon DEF Listed
  <2> QED
    BY <2>1, <2>2, Zenon DEF Listing
<1>34. CASE QueueFails /\ Frame
  <2>1. /\ sink.pc = "append" /\ sink'.pc = "release" /\ sink.buffer \in Buffers
        /\ "error" \in events' /\ UNCHANGED <<driver, done, codec, phase>>
    BY <1>34, QueueFailsDoes DEF device
  <2>2. phase # "null"
    BY <2>1 DEF Typed, Resting
  <2>3. ASSUME ~ListRaced' PROVE Listed'
    <3>1. /\ Listed /\ v4llist' = v4llist \cup {sink.buffer}
      BY <1>34, <2>3, QueueFailsDoes, Appends
    <3>2. \A b \in Buffers : (Pending(b)' <=> Pending(b)) /\ (Out(b)' <=> Out(b))
      BY <2>1, Zenon DEF Pending, Out
    <3>3. \A b \in Buffers : Out(b)' => b \in v4llist'
      BY <3>1, <3>2 DEF Listed
    <3>4. Harmed({"geometry", "error"})' /\ sink'.pc # "queued" /\ Appending'
      BY <2>1 DEF Harmed, Appending
    <3> QED
      BY <2>1, <3>1, <3>2, <3>3, <3>4, Zenon DEF Listed
  <2> QED
    BY <2>1, <2>2, <2>3, Zenon DEF Listing
<1>35. ASSUME NEW m \in {"1", "2"}, PowerMode(m), Frame PROVE Listing'
  BY <1>35, PowerModeDoes, ListingSame
     DEF ListSame, CodecAside, SinkAside, Accounts, Rest, device
<1>36. CASE Refer /\ Frame
  <2>1. /\ sink.pc = "show" /\ sink.buffer \in Buffers \ v4llist
        /\ sink'.pc = "append" /\ sink'.buffer = sink.buffer /\ sink'.list = v4llist
        /\ UNCHANGED <<v4llist, driver, done, codec, events, phase, decoder>>
    BY <1>36, ReferDoes, Zenon DEF Rest, device
  <2>2. ASSUME phase # "null", ~ListRaced' PROVE Listed'
    <3>1. Listed
      BY <1>0, <2>2 DEF Listing
    <3>2. \A b : (Pending(b)' <=> Pending(b)) /\ (Out(b)' <=> Out(b))
      BY <2>1, Zenon DEF Pending, Out
    <3>3. ~Harmed({"geometry", "error"})' => \A b \in v4llist' : Out(b)'
      BY <2>1, <3>1, <3>2, Zenon DEF Listed, Harmed
    <3>4. sink'.pc # "queued" /\ Appending'
      BY <2>1 DEF Appending
    <3> QED
      BY <2>1, <3>1, <3>2, <3>3, <3>4, Zenon DEF Listed
  <2> QED
    BY <2>1, <2>2, Zenon DEF Listing
<1> QED
  BY <1>1, <1>2, <1>3, <1>4, <1>5, <1>6, <1>7, <1>8, <1>9, <1>10, <1>11,
     <1>12, <1>13, <1>14, <1>15, <1>16, <1>17, <1>18, <1>19, <1>20, <1>21,
     <1>22, <1>23, <1>24, <1>25, <1>26, <1>27, <1>28, <1>29, <1>30, <1>31,
     <1>32, <1>33, <1>34, <1>35, <1>36
     DEF Next, CodecStep, Allocate, SinkStep, Control, Frame

-------------------------------------------------------------------------------
(* The stream and the number of the queued buffers                         *)

\* A buffer is in the driver and not yet counted.
Counting == sink.pc \in {"queued", "count"}

FlowSame ==
  /\ UNCHANGED <<driver, done, driver_on, qbuff_count, stream_on, v4lqueued, decoder>>
  /\ events \subseteq events' /\ (phase' = "null" <=> phase = "null")
  /\ sink' = sink \/ (~Counting /\ ~Counting')

\* What neither queues nor dequeues leaves the stream and the count right.
LEMMA FlowKept ==
  ASSUME Streams, Counted, FlowSame PROVE Streams' /\ Counted'
<1>1. Uncounted' = Uncounted
  BY Zenon DEF Uncounted, Number, FlowSame, Counting
<1>0. Harmed({"streamon"}) => Harmed({"streamon"})'
  BY Grows DEF FlowSame
<1>2. Streams'
  BY <1>0, <1>1, Zenon DEF Streams, FlowSame
<1>3. Harmed({"suspend", "geometry"}) => Harmed({"suspend", "geometry"})'
  BY DEF Harmed, FlowSame
<1>4. sink'.pc = "count" => sink' = sink
  BY Zenon DEF FlowSame, Counting
<1>5. Counted'
  BY <1>1, <1>3, <1>4, Zenon DEF Counted, FlowSame
<1> QED
  BY <1>2, <1>5

LEMMA UncountedIs ==
  /\ Uncounted = IF Counting THEN 1 ELSE 0
  /\ Uncounted' = IF Counting' THEN 1 ELSE 0
BY DEF Uncounted, Number, Counting

LEMMA FlowType ==
  ASSUME Typed
  PROVE  /\ qbuff_count \in 0 .. 2 /\ stream_on \in BOOLEAN /\ driver_on \in BOOLEAN
         /\ v4lqueued \in Int /\ Len(driver) \in Nat /\ Len(done) \in Nat
<1>1. Len(driver) \in Nat /\ Len(done) \in Nat
  BY ListsType
<1> QED
  BY <1>1 DEF Typed, Modes, Tables

\* The stream goes on with the second buffer, and one thread counts right.
LEMMA StreamsKept ==
  ASSUME Typed, Streams, Counted, Next PROVE Streams' /\ Counted'
<1>0. /\ Harmed({"streamon"}) => Harmed({"streamon"})'
      /\ Harmed({"suspend", "geometry"}) => Harmed({"suspend", "geometry"})'
  BY Records, Grows DEF Recorded
<1>1. CASE Start
  BY <1>1, StartDoes, FlowKept
     DEF FlowSame, CodecAside, SinkAside, Accounts, Rest, device, Counting, Flow
<1>2. CASE Push
  BY <1>2, PushDoes, FlowKept
     DEF FlowSame, CodecAside, SinkAside, Accounts, Rest, device, Counting, Flow
<1>3. CASE NewBuffer /\ Frame
  BY <1>3, NewBufferDoes, FlowKept
     DEF FlowSame, CodecAside, SinkAside, Accounts, Rest, device, Counting, Flow
<1>4. CASE CodecDequeue /\ Frame
  <2>1. /\ UNCHANGED <<driver, driver_on, qbuff_count, stream_on, sink, phase, decoder>>
        /\ decoder = "copy"
    BY <1>4, CodecDequeueDoes, Zenon DEF Flow, Rest
  <2>2. Streams'
    BY <1>0, <2>1, Zenon DEF Streams, Uncounted
  <2> QED
    BY <2>1, <2>2 DEF Counted
<1>5. CASE CodecStore /\ Frame
  <2>1. /\ UNCHANGED <<driver, driver_on, qbuff_count, stream_on, sink, phase, decoder>>
        /\ decoder = "copy"
    BY <1>5, CodecStoreDoes, Zenon DEF Flow, Rest, device
  <2>2. Streams'
    BY <1>0, <2>1, Zenon DEF Streams, Uncounted
  <2> QED
    BY <2>1, <2>2 DEF Counted
<1>6. CASE CodecDrop /\ Frame
  BY <1>6, CodecDropDoes, FlowKept
     DEF FlowSame, CodecAside, SinkAside, Accounts, Rest, device, Counting, Flow
<1>7. CASE Take /\ Frame
  BY <1>7, TakeDoes, FlowKept
     DEF FlowSame, CodecAside, SinkAside, Accounts, Rest, device, Counting, Flow
<1>8. CASE Retry /\ Frame
  BY <1>8, RetryDoes, FlowKept
     DEF FlowSame, CodecAside, SinkAside, Accounts, Rest, device, Counting, Flow
<1>9. CASE TakeSoftware /\ Frame
  BY <1>9, TakeSoftwareDoes, FlowKept
     DEF FlowSame, CodecAside, SinkAside, Accounts, Rest, device, Counting, Flow
<1>10. CASE CheckDisplayQueue /\ UNCHANGED <<decoder, phase>>
  BY <1>10, CheckDisplayQueueDoes, FlowKept
     DEF FlowSame, CodecAside, SinkAside, Accounts, Rest, device, Counting, Flow
<1>11. CASE NoPicture /\ UNCHANGED <<decoder, phase>>
  BY <1>11, NoPictureDoes, FlowKept
     DEF FlowSame, CodecAside, SinkAside, Accounts, Rest, device, Counting, Flow
<1>12. ASSUME NEW f \in Buffers, Output(f), UNCHANGED <<decoder, phase>>
      PROVE  Streams' /\ Counted'
  BY <1>12, OutputDoes, FlowKept
     DEF FlowSame, CodecAside, SinkAside, Accounts, Rest, device, Counting, Flow
<1>13. CASE Interrupt
  BY <1>13, InterruptDoes, FlowKept
     DEF FlowSame, CodecAside, SinkAside, Accounts, Rest, device, Counting, Flow
<1>14. CASE Drain
  BY <1>14, DrainDoes, FlowKept
     DEF FlowSame, CodecAside, SinkAside, Accounts, Rest, device, Counting, Flow
<1>15. CASE FlushStop
  BY <1>15, FlushStopDoes, FlowKept
     DEF FlowSame, CodecAside, SinkAside, Accounts, Rest, device, Counting, Flow
<1>16. CASE DecoderToReady
  BY <1>16, DecoderToReadyDoes, FlowKept
     DEF FlowSame, CodecAside, SinkAside, Accounts, Rest, device, Counting, Flow
<1>17. CASE SinkToNull
  <2>1. phase' = "null" /\ phase = "ready"
    BY <1>17, SinkToNullDoes, Zenon
  <2>2. Counted'
    BY <2>1, Zenon DEF Counted
  <2>3. CASE stream_on' = FALSE /\ qbuff_count' = 0 /\ driver_on' = FALSE
    BY <2>1, <2>2, <2>3, V4lSinkAssumption DEF Streams
  <2>4. CASE ~stream_on /\ UNCHANGED <<device, Flow>>
    BY <1>0, <2>1, <2>2, <2>4, Zenon DEF Streams, device, Flow
  <2> QED
    BY <1>17, <2>3, <2>4, SinkToNullDoes, Zenon
<1>18. CASE Restart
  <2>1. /\ phase = "null" /\ v4lqueued' = 0 /\ driver' = <<>> /\ done' = <<>>
        /\ driver_on' = FALSE /\ UNCHANGED <<qbuff_count, stream_on, sink>>
    BY <1>18, RestartDoes, Zenon DEF Flow
  <2>2. sink'.pc = "idle" /\ sink.pc = "idle"
    BY <2>1 DEF Typed, Resting
  <2>3. Uncounted' = 0 /\ Len(driver') = 0 /\ Len(done') = 0
    BY <2>1, <2>2, UncountedIs DEF Counting
  <2>4. Counted'
    BY <2>1, <2>2, <2>3 DEF Counted
  <2>5. Streams'
    BY <1>0, <2>1, <2>3, FlowType DEF Streams
  <2> QED
    BY <2>4, <2>5
<1>19. CASE Complete /\ Frame
  <2>1. /\ Len(driver) > 1 /\ driver' = Tail(driver) /\ done' = Append(done, Head(driver))
        /\ UNCHANGED <<driver_on, qbuff_count, stream_on, v4lqueued, sink, events, phase,
                       decoder>>
    BY <1>19, CompleteDoes, Zenon DEF Accounts, Flow, Rest
  <2>2. Len(driver') = Len(driver) - 1 /\ Len(done') = Len(done) + 1
    BY <2>1, ListsType
  <2>3. Uncounted' = Uncounted /\ Uncounted \in {0, 1}
    BY <2>1, UncountedIs, Zenon DEF Counting
  <2>4. Streams'
    BY <1>0, <2>1, <2>2, <2>3, FlowType DEF Streams
  <2>5. Counted'
    <3>1. Len(driver') + Len(done') = Len(driver) + Len(done)
      BY <2>2, FlowType
    <3> QED
      BY <2>1, <2>3, <3>1, Zenon DEF Counted, Harmed
  <2> QED
    BY <2>4, <2>5
<1>20. CASE Render /\ Frame
  <2>1. /\ sink.pc = "idle" /\ ~Counting' /\ ~Counting
        /\ UNCHANGED <<driver, done, driver_on, v4lqueued, events, phase, decoder>>
        /\ sink'.pc # "count"
    BY <1>20, RenderDoes DEF device, Rest, Counting
  <2>2. UNCHANGED <<qbuff_count, stream_on>> \/ (stream_on' = FALSE /\ qbuff_count' = 0)
    BY <1>20, RenderDoes, Zenon DEF Flow
  <2>3. Awake => UNCHANGED <<qbuff_count, stream_on>>
    BY <1>20, RenderDoes, Zenon DEF Flow
  <2>4. Uncounted = 0 /\ Uncounted' = 0
    BY <2>1, UncountedIs
  <2>5. CASE UNCHANGED <<qbuff_count, stream_on>>
    <3>1. Streams'
      BY <1>0, <2>1, <2>4, <2>5, Zenon DEF Streams
    <3>2. Counted'
      BY <2>1, <2>4, <2>5, Zenon DEF Counted, Harmed
    <3> QED
      BY <3>1, <3>2
  <2>6. CASE stream_on /\ stream_on' = FALSE /\ qbuff_count' = 0
    <3>1. driver_on
      BY <2>6 DEF Streams
    <3>2. Streams'
      BY <1>0, <2>1, <2>6, <3>1, V4lSinkAssumption DEF Streams
    <3>3. Counted'
      BY <2>1, <2>4, Zenon DEF Counted, Harmed
    <3> QED
      BY <3>2, <3>3
  <2>7. CASE ~stream_on /\ stream_on' = FALSE /\ qbuff_count' = 0 /\ qbuff_count' = qbuff_count
    <3>1. Streams'
      BY <1>0, <2>1, <2>4, <2>7, Zenon DEF Streams
    <3>2. Counted'
      BY <2>1, <2>4, Zenon DEF Counted, Harmed
    <3> QED
      BY <3>1, <3>2
  <2> QED
    BY <1>20, <2>2, <2>5, <2>6, <2>7, Zenon DEF Render
<1>21. CASE Cleared /\ Frame
  BY <1>21, ClearedDoes, FlowKept
     DEF FlowSame, CodecAside, SinkAside, Accounts, Rest, device, Counting, Flow
<1>22. ASSUME NEW b \in Buffers, ClearShowing(b), Frame PROVE Streams' /\ Counted'
  <2>1. /\ UNCHANGED <<driver, driver_on, qbuff_count, stream_on, sink, events, phase>>
        /\ decoder' = decoder /\ ~Awake
    BY <1>22, ClearShowingDoes, Zenon DEF Flow, Rest, device
  <2>2. Streams'
    BY <1>0, <2>1, Zenon DEF Streams, Uncounted
  <2>3. Harmed({"suspend", "geometry"})' \/ decoder' = "copy"
    BY <2>1 DEF Awake, Harmed, ListRaced
  <2> QED
    BY <2>2, <2>3 DEF Counted
<1>23. CASE ShowSoftware /\ Frame
  BY <1>23, ShowSoftwareDoes, FlowKept
     DEF FlowSame, CodecAside, SinkAside, Accounts, Rest, device, Counting, Flow
<1>24. CASE ShowAgain /\ Frame
  BY <1>24, ShowAgainDoes, FlowKept
     DEF FlowSame, CodecAside, SinkAside, Accounts, Rest, device, Counting, Flow
<1>25. CASE Queue /\ Frame
  <2>1. /\ sink.pc = "append" /\ sink'.pc = "queued" /\ driver' = Append(driver, sink.buffer)
        /\ sink.buffer \in Buffers
        /\ UNCHANGED <<done, driver_on, qbuff_count, stream_on, v4lqueued, phase, decoder>>
    BY <1>25, QueueDoes, Zenon DEF Flow
  <2>2. Len(driver') = Len(driver) + 1
    BY <2>1, ListsType
  <2>3. Uncounted = 0 /\ Uncounted' = 1 /\ sink'.pc # "count"
    BY <2>1, UncountedIs DEF Counting
  <2>4. Streams'
    BY <1>0, <2>1, <2>2, <2>3, FlowType DEF Streams
  <2>5. Counted'
    BY <2>1, <2>2, <2>3, <1>0, FlowType DEF Counted
  <2> QED
    BY <2>4, <2>5
<1>26. CASE Showing /\ Frame
  <2>1. /\ sink.pc = "queued" /\ sink'.pc = "count" /\ sink'.n = v4lqueued
        /\ UNCHANGED <<driver, done, driver_on, qbuff_count, stream_on, v4lqueued, events,
                       phase, decoder>>
    BY <1>26, ShowingDoes, Zenon DEF Flow, Rest, device
  <2>2. Uncounted = 1 /\ Uncounted' = 1
    BY <2>1, UncountedIs DEF Counting
  <2>3. Streams'
    BY <1>0, <2>1, <2>2, Zenon DEF Streams
  <2>4. Counted'
    BY <2>1, <2>2, Zenon DEF Counted, Harmed
  <2> QED
    BY <2>3, <2>4
<1>27. CASE Count /\ Frame
  <2>1. /\ sink.pc = "count" /\ sink'.pc = "trydq" /\ v4lqueued' = sink.n + 1
        /\ UNCHANGED <<driver, done, phase, decoder>>
    BY <1>27, CountDoes, Zenon
  <2>2. qbuff_count' = IF qbuff_count = 2 THEN 2 ELSE qbuff_count + 1
    BY <1>27, CountDoes, Zenon
  <2>3. Uncounted = 1 /\ Uncounted' = 0
    BY <2>1, UncountedIs DEF Counting
  <2>4. phase # "null"
    BY <2>1 DEF Typed, Resting
  <2>5. Counted'
    BY <1>0, <2>1, <2>3, <2>4, FlowType DEF Counted
  <2>6. CASE stream_on' = TRUE /\ driver_on' = TRUE
    BY <2>1, <2>4, <2>5, <2>6 DEF Streams
  <2>7. CASE "streamon" \in events' /\ UNCHANGED <<stream_on, driver_on>>
    <3>1. Harmed({"streamon"})'
      BY <2>7 DEF Harmed
    <3> QED
      BY <2>1, <2>4, <2>5, <2>7, <3>1 DEF Streams
  <2>8. CASE qbuff_count # StreamOnAt /\ UNCHANGED <<stream_on, driver_on>>
    <3>1. StreamOnAt \in {0, 1}
      BY V4lSinkAssumption
    <3>2. Streams'
      BY <1>0, <2>1, <2>2, <2>3, <2>4, <2>8, <3>1, FlowType DEF Streams
    <3> QED
      BY <2>5, <3>2
  <2> QED
    BY <1>27, <2>6, <2>7, <2>8, CountDoes, Zenon
<1>28. CASE TryDequeue /\ Frame
  BY <1>28, TryDequeueDoes, FlowKept
     DEF FlowSame, CodecAside, SinkAside, Accounts, Rest, device, Counting, Flow
<1>29. CASE SinkDequeue /\ Frame
  <2>1. /\ done # <<>> /\ done' = Tail(done) /\ v4lqueued' = v4lqueued - 1
        /\ sink.pc \in {"dq", "dq once"} /\ sink'.pc = "drop"
        /\ UNCHANGED <<driver, driver_on, qbuff_count, stream_on, events, phase, decoder>>
    BY <1>29, SinkDequeueDoes, Zenon DEF Flow, Rest
  <2>2. Len(done') = Len(done) - 1
    BY <2>1, ListsType, TailHas
  <2>3. Uncounted = 0 /\ Uncounted' = 0 /\ sink'.pc # "count"
    BY <2>1, UncountedIs DEF Counting
  <2>4. Streams'
    BY <1>0, <2>1, <2>3, Zenon DEF Streams
  <2>5. Counted'
    <3>1. Len(driver') = Len(driver) /\ v4lqueued' = v4lqueued - 1
      BY <2>1, Zenon
    <3>2. v4lqueued + 0 = Len(driver) + Len(done) =>
            v4lqueued' + 0 = Len(driver') + Len(done')
      BY <2>2, <3>1, FlowType
    <3> QED
      BY <2>1, <2>3, <3>2, Zenon DEF Counted, Harmed
  <2> QED
    BY <2>4, <2>5
<1>30. CASE GiveUp /\ Frame
  BY <1>30, GiveUpDoes, FlowKept
     DEF FlowSame, CodecAside, SinkAside, Accounts, Rest, device, Counting, Flow
<1>31. CASE SinkDrop /\ Frame
  BY <1>31, SinkDropDoes, FlowKept
     DEF FlowSame, CodecAside, SinkAside, Accounts, Rest, device, Counting, Flow
<1>32. CASE Release /\ Frame
  BY <1>32, ReleaseDoes, FlowKept
     DEF FlowSame, CodecAside, SinkAside, Accounts, Rest, device, Counting, Flow
<1>33. CASE Geometry /\ Frame
  <2>1. /\ stream_on' = FALSE /\ qbuff_count' = 0 /\ driver' = <<>> /\ driver_on' = FALSE
        /\ events' = events \cup {"geometry"} /\ UNCHANGED <<sink, phase>>
    BY <1>33, GeometryDoes, Zenon
  <2>2. Harmed({"suspend", "geometry"})' /\ Len(driver') = 0
    BY <2>1 DEF Harmed
  <2>3. Uncounted' \in {0, 1}
    BY UncountedIs
  <2>4. Counted'
    BY <2>2, Zenon DEF Counted
  <2>5. Streams'
    <3>1. Len(driver') <= qbuff_count' + Uncounted' /\ qbuff_count' <= StreamOnAt
      <4>1. Len(driver') = 0 /\ qbuff_count' = 0
        BY <2>1, <2>2
      <4>2. PICK u \in {0, 1} : u = Uncounted'
        BY <2>3, Zenon
      <4>3. PICK l : l = Len(driver')
        OBVIOUS
      <4>4. PICK q : q = qbuff_count'
        OBVIOUS
      <4>5. l <= q + u /\ q <= StreamOnAt
        BY <4>1, <4>3, <4>4, V4lSinkAssumption
      <4> QED
        BY <4>2, <4>3, <4>4, <4>5, Zenon
    <3> QED
      BY <2>1, <3>1, Zenon DEF Streams
  <2> QED
    BY <2>4, <2>5
<1>34. CASE QueueFails /\ Frame
  BY <1>34, QueueFailsDoes, FlowKept
     DEF FlowSame, CodecAside, SinkAside, Accounts, Rest, device, Counting, Flow
<1>35. ASSUME NEW m \in {"1", "2"}, PowerMode(m), Frame PROVE Streams' /\ Counted'
  BY <1>35, PowerModeDoes, FlowKept
     DEF FlowSame, CodecAside, SinkAside, Accounts, Rest, device, Counting, Flow
<1>36. CASE Refer /\ Frame
  BY <1>36, ReferDoes, FlowKept
     DEF FlowSame, CodecAside, SinkAside, Accounts, Rest, device, Counting, Flow
<1> QED
  BY <1>1, <1>2, <1>3, <1>4, <1>5, <1>6, <1>7, <1>8, <1>9, <1>10, <1>11,
     <1>12, <1>13, <1>14, <1>15, <1>16, <1>17, <1>18, <1>19, <1>20, <1>21,
     <1>22, <1>23, <1>24, <1>25, <1>26, <1>27, <1>28, <1>29, <1>30, <1>31,
     <1>32, <1>33, <1>34, <1>35, <1>36
     DEF Next, CodecStep, Allocate, SinkStep, Control, Frame

-------------------------------------------------------------------------------
(* What is true of the list, the stream and the count, whoever suspends    *)
(* the system                                                              *)

Base == Typed /\ Listing /\ Streams /\ Counted

LEMMA InitBase == Init => Base
<1> SUFFICES ASSUME Init PROVE Base
  OBVIOUS
<1>1. /\ decoder \in Decoders /\ phase = "run"
      /\ bufstate = Handed(HandedOut(decoder)) /\ free_pool = Free(HandedOut(decoder))
      /\ showcnt = [b \in Buffers |-> 0] /\ refs = [b \in Buffers |-> 1]
      /\ v4llist = {} /\ v4lqueued = 0
      /\ driver = <<>> /\ done = <<>> /\ queue = <<>>
  BY Zenon DEF Init, SinkInit
<1>2. /\ qbuff_count = 0 /\ stream_on = FALSE /\ suspend = FALSE /\ pm_mode = "0"
      /\ driver_on = FALSE /\ sink = Idle /\ codec = Idle /\ events = {}
      /\ display_handle = {} /\ output_size = 0 /\ latest = None
  BY Zenon DEF Init, SinkInit, CoreInit
<1>3. /\ codec.pc = "idle" /\ codec.buffer = None /\ codec.dequeued = None
      /\ sink.pc = "idle" /\ sink.buffer = None /\ sink.dequeued = None
  BY <1>2 DEF Idle
<1>4. Tables
  <2>1. PICK Gone \in SUBSET Buffers : Gone = HandedOut(decoder)
    BY DEF HandedOut, Registered
  <2> QED
    BY <1>1, <2>1, HandedBooks DEF Tables
<1>5. Modes
  <2>1. stream_on \in BOOLEAN /\ driver_on \in BOOLEAN /\ suspend \in BOOLEAN
    BY <1>2, Zenon
  <2>2. qbuff_count \in 0 .. 2 /\ events \in SUBSET Events
    BY <1>2
  <2>3. pm_mode \in {"0", "1", "2"} /\ phase \in {"run", "flush", "stop", "ready", "null"}
    BY <1>1, <1>2
  <2> QED
    BY <1>1, <2>1, <2>2, <2>3, Zenon DEF Modes
<1>6. CodecRuns
  <2>1. codec \in Thread(CodecPlaces)
    BY <1>2, CodecNames, IdleRests
  <2> QED
    BY <1>3, <2>1, Numbers DEF CodecRuns
<1>7. SinkRuns
  <2>1. sink \in Thread(SinkPlaces)
    BY <1>2, SinkNames, IdleRests
  <2> QED
    BY <1>3, <2>1 DEF SinkRuns
<1>8. Resting /\ NoSuspend
  BY <1>1, <1>2, <1>3 DEF Resting, NoSuspend
<1>9. Handles
  BY <1>2, FS_EmptySet DEF Handles
<1>10. Listing
  BY <1>1, <1>3, EmptyHas DEF Listing, Listed, Out, Pending, Appending
<1>11. Uncounted = 0 /\ Len(driver) = 0 /\ Len(done) = 0
  BY <1>1, <1>3, UncountedIs DEF Counting
<1>12. Streams
  BY <1>1, <1>2, <1>11, V4lSinkAssumption DEF Streams
<1>13. Counted
  BY <1>1, <1>3, <1>11 DEF Counted
<1> QED
  BY <1>4, <1>5, <1>6, <1>7, <1>8, <1>9, <1>10, <1>12, <1>13, Zenon DEF Base, Typed

LEMMA BaseKept == Base /\ [Next]_vars => Base'
<1> SUFFICES ASSUME Base, [Next]_vars PROVE Base'
  OBVIOUS
<1>1. CASE Next
  BY <1>1, TypedKept, ListingKept, StreamsKept, Zenon DEF Base
<1>2. CASE UNCHANGED vars
  <2>1. Typed'
    <3>1. /\ bufstate' = bufstate /\ free_pool' = free_pool /\ showcnt' = showcnt
          /\ refs' = refs /\ v4llist' = v4llist /\ v4lqueued' = v4lqueued
          /\ driver' = driver /\ done' = done /\ queue' = queue
      BY <1>2, Zenon DEF vars, sinkVars, vpuVars, buffers, stream, device
    <3>2. /\ qbuff_count' = qbuff_count /\ stream_on' = stream_on /\ suspend' = suspend
          /\ pm_mode' = pm_mode /\ driver_on' = driver_on /\ events' = events
          /\ decoder' = decoder /\ phase' = phase /\ sink' = sink /\ codec' = codec
      BY <1>2, Zenon DEF vars, sinkVars, vpuVars, buffers, stream, device
    <3>3. display_handle' = display_handle /\ output_size' = output_size /\ latest' = latest
      BY <1>2, Zenon DEF vars, sinkVars, vpuVars, buffers, stream, device
    <3>4. Tables'
      BY <3>1, Zenon DEF Base, Typed, Tables
    <3>5. Modes'
      BY <3>2, Zenon DEF Base, Typed, Modes
    <3>6. CodecRuns'
      BY <3>2, Zenon DEF Base, Typed, CodecRuns
    <3>7. SinkRuns'
      BY <3>2, Zenon DEF Base, Typed, SinkRuns
    <3>8. Resting' /\ NoSuspend'
      BY <3>1, <3>2, Zenon DEF Base, Typed, Resting, NoSuspend, Awake, Harmed, ListRaced
    <3>9. Handles'
      BY <3>3, Zenon DEF Base, Typed, Handles
    <3> QED
      BY <3>4, <3>5, <3>6, <3>7, <3>8, <3>9, Zenon DEF Typed
  <2>2. Listing'
    BY <1>2, ListingSame DEF Base, ListSame, vars, sinkVars, device
  <2>3. Streams' /\ Counted'
    <3>1. FlowSame
      BY <1>2 DEF FlowSame, vars, sinkVars, device, stream
    <3> QED
      BY <3>1, FlowKept DEF Base
  <2> QED
    BY <2>1, <2>2, <2>3 DEF Base
<1> QED
  BY <1>1, <1>2

\* The list of the sink agrees with the driver, the stream's counters with
\* what is queued, and nobody works while the pipeline rests, at any time.
THEOREM BaseHolds == Spec => []Base
BY InitBase, BaseKept, PTL DEF Spec

LEMMA Sets ==
  ASSUME NEW S, NEW s \in Seq(S)
  PROVE  \A b : b \in ToSet(s) <=> Has(s, b)
<1>1. DOMAIN s = 1 .. Len(s)
  OBVIOUS
<1> QED
  BY <1>1 DEF ToSet, Has

\* The list of the sink mirrors the driver's two queues, and what codec has
\* just taken from them, until the geometry changes, the driver refuses a
\* buffer, or the two threads store the list at once: for any number of buffers,
\* and at all times with a decoder that allocates only once.
THEOREM ListCorrect == Spec => []ListMirrors
<1>1. Base => ListMirrors
  <2> SUFFICES ASSUME Base, ~Harmed({"geometry", "error"}), ~ListRaced, phase # "null"
               PROVE  v4llist = Queued \cup (IF codec.pc = "store" THEN {codec.dequeued} ELSE {})
    BY DEF ListMirrors
  <2>1. Listed /\ \A b \in v4llist : Out(b)
    BY DEF Base, Listing, Listed
  <2>2. \A b : b \in Queued <=> Has(driver, b) \/ Has(done, b)
    BY Sets, ListsType DEF Base, Queued
  <2>3. \A b : Has(driver, b) \/ Has(done, b) => b \in Buffers
    BY ListsType DEF Base, Has
  <2>4. codec.pc = "store" => codec.dequeued \in Buffers
    BY CodecHolds DEF Base
  <2>5. \A b \in Buffers : Out(b) => b \in v4llist
    BY <2>1, Zenon DEF Listed
  <2>6. v4llist \in SUBSET Buffers
    BY ListsType DEF Base
  <2> QED
    BY <2>1, <2>2, <2>3, <2>4, <2>5, <2>6 DEF Out, Pending
<1> QED
  BY <1>1, BaseHolds, PTL

\* When as many buffers wait in the driver as it takes, the stream is on, after
\* every flush, suspension, change of geometry and restart, unless the driver
\* has refused to switch it on: for either number of buffers it takes.
THEOREM StreamGoesOn == Spec => []StreamsOn
<1>1. Base => StreamsOn
  <2> SUFFICES ASSUME Base, ~Harmed({"streamon"}), sink.pc \in {"idle", "trydq"},
                      phase # "null", Len(driver) > StreamOnAt, ~driver_on
               PROVE  FALSE
    BY DEF StreamsOn
  <2>1. Uncounted = 0
    BY UncountedIs DEF Counting
  <2>2. qbuff_count \in 0 .. 2 /\ Len(driver) \in Nat /\ StreamOnAt \in {0, 1}
    BY FlowType, V4lSinkAssumption DEF Base
  <2>3. ~stream_on /\ qbuff_count <= StreamOnAt /\ Len(driver) <= qbuff_count + Uncounted
    BY DEF Base, Streams
  <2> QED
    BY <2>1, <2>2, <2>3
<1> QED
  BY <1>1, BaseHolds, PTL

\* With the decoder that allocates only once v4lqueued is the number of queued
\* buffers, whatever is flushed, refused and restarted, for any sizes.
THEOREM CountCorrect == Spec => []CountVpu
<1>1. Base => CountVpu
  <2> SUFFICES ASSUME Base, decoder = "vpu", ~Harmed({"suspend", "geometry"}),
                      sink.pc = "idle", phase = "run"
               PROVE  v4lqueued = Len(driver) + Len(done)
    BY DEF CountVpu, CountExact
  <2>1. Uncounted = 0
    BY UncountedIs DEF Counting
  <2>2. v4lqueued + Uncounted = Len(driver) + Len(done)
    BY DEF Base, Counted
  <2> QED
    BY <2>1, <2>2, FlowType DEF Base
<1> QED
  BY <1>1, BaseHolds, PTL

-------------------------------------------------------------------------------
(* What a step leaves as it is for a buffer: what the tables say of it,    *)

Kept(b) ==
  refs'[b] = refs[b] /\ bufstate'[b] = bufstate[b] /\ (Pooled(b)' <=> Pooled(b))

\* where it is listed,
Lists(b) ==
  /\ showcnt'[b] = showcnt[b]
  /\ (b \in Claimed' <=> b \in Claimed) /\ (Out(b)' => Out(b))

\* whether the core may write it,
Handle(b) == b \in display_handle' <=> b \in display_handle

\* who holds it,
Held(b) ==
  /\ (AtCodec(b)' <=> AtCodec(b)) /\ (InQueue(b)' <=> InQueue(b)) /\ (AtSink(b)' <=> AtSink(b))
  /\ (CodecDrops(b)' <=> CodecDrops(b)) /\ (SinkDrops(b)' <=> SinkDrops(b))

\* and whether it is about to be shown.
Waits(b) ==
  AtSink(b) /\ sink.pc \in {"append", "queued"} => AtSink(b)' /\ sink'.pc = sink.pc
Begins(b) == AtSink(b)' /\ sink'.pc = "show" => AtSink(b) /\ sink.pc = "show"

Still(b) == Kept(b) /\ Lists(b) /\ Handle(b) /\ Held(b) /\ Waits(b) /\ Begins(b)

Steady ==
  /\ decoder' = decoder /\ events \subseteq events' /\ (Based' <=> Based)
  /\ (phase' = "ready" <=> phase = "ready") /\ (phase' = "null" <=> phase = "null")

\* A buffer that goes from one that holds it to the other
LEMMA Passing ==
  ASSUME Steady, NEW b \in Buffers, Sound(b), Kept(b), Lists(b), Waits(b),
         Flies(b)' <=> Flies(b), Dropped(b)' <=> Dropped(b)
  PROVE  Balanced(b)' /\ Idles(b)' /\ Shows(b)'
<1>1. /\ refs'[b] = refs[b] /\ bufstate'[b] = bufstate[b] /\ (Pooled(b)' <=> Pooled(b))
      /\ showcnt'[b] = showcnt[b] /\ (b \in Claimed' <=> b \in Claimed) /\ (Out(b)' => Out(b))
      /\ AtSink(b) /\ sink.pc \in {"append", "queued"} => AtSink(b)' /\ sink'.pc = sink.pc
  BY Zenon DEF Kept, Lists, Waits
<1>2. /\ (Based' <=> Based) /\ (phase' = "ready" <=> phase = "ready")
  BY Zenon DEF Steady
<1>3. (FlushedVpu => FlushedVpu') /\ (Harmed({"error"}) => Harmed({"error"})')
  BY Grows DEF FlushedVpu, Steady
<1>4. Balanced(b)'
  BY <1>1, <1>2, <1>3, Zenon DEF Balanced, Sound, Number
<1>5. Idles(b)'
  BY <1>1, <1>2, <1>3, Zenon DEF Idles, Sound
<1>6. Shows(b)'
  BY <1>1, <1>2, <1>3, Zenon DEF Shows, Sound, Number
<1> QED
  BY <1>4, <1>5, <1>6

LEMMA StillSound ==
  ASSUME Steady, NEW b \in Buffers, Sound(b), Still(b) PROVE Sound(b)'
<1>1. /\ (AtCodec(b)' <=> AtCodec(b)) /\ (InQueue(b)' <=> InQueue(b))
      /\ (AtSink(b)' <=> AtSink(b))
      /\ (CodecDrops(b)' <=> CodecDrops(b)) /\ (SinkDrops(b)' <=> SinkDrops(b))
      /\ (b \in Claimed' <=> b \in Claimed)
      /\ b \in display_handle' <=> b \in display_handle
      /\ AtSink(b)' /\ sink'.pc = "show" => sink.pc = "show"
  BY Zenon DEF Still, Lists, Handle, Held, Begins
<1>2. (Flies(b)' <=> Flies(b)) /\ (Dropped(b)' <=> Dropped(b))
  BY <1>1, Zenon DEF Flies, Dropped
<1>3. (Based' <=> Based) /\ decoder' = decoder
  BY Zenon DEF Steady
<1>4. FlushedVpu => FlushedVpu'
  BY Grows DEF FlushedVpu, Steady
<1>5. Balanced(b)' /\ Idles(b)' /\ Shows(b)'
  BY <1>2, Passing, Zenon DEF Still
<1>6. OneWay(b)'
  BY <1>1, Zenon DEF OneWay, Sound
<1>7. Apart(b)'
  BY <1>1, <1>2, <1>3, <1>4, Zenon DEF Apart, Sound
<1> QED
  BY <1>5, <1>6, <1>7 DEF Sound

-------------------------------------------------------------------------------
(* A reference is dropped                                                  *)

\* The last one puts the buffer into the pool, if nobody displays it.
LEMMA UnrefDoes ==
  ASSUME Typed, NEW b \in Buffers, Unref(b),
         refs[b] = 1 => bufstate[b] \in {"ALLOCATED", "SHOWED"}
  PROVE  /\ \A c \in Buffers : c # b => Kept(c)
         /\ refs[b] = 1 => /\ refs'[b] = 1 /\ bufstate'[b] = "IDLE" /\ Pooled(b)'
                           /\ Distinct(free_pool) /\ ~Pooled(b) => Distinct(free_pool')
         /\ refs[b] # 1 => /\ refs'[b] = refs[b] - 1 /\ bufstate'[b] = bufstate[b]
                           /\ free_pool' = free_pool
<1>1. b # SwBuffer
  BY Numbers
<1>2. CASE refs[b] = 1
  <2>1. /\ bufstate' = [bufstate EXCEPT ![b] = "IDLE"] /\ refs' = refs
        /\ free_pool' = Append(free_pool, b)
    BY <1>1, <1>2, Zenon DEF Unref, Finalize
  <2>2. /\ \A c : Has(free_pool', c) <=> c = b \/ Has(free_pool, c)
        /\ Distinct(free_pool) /\ ~Has(free_pool, b) => Distinct(free_pool')
    BY <2>1, ListsType, AppendHas
  <2>3. /\ refs'[b] = 1 /\ bufstate'[b] = "IDLE"
        /\ \A c \in Buffers : c # b => refs'[c] = refs[c] /\ bufstate'[c] = bufstate[c]
    BY <1>2, <2>1, ListsType
  <2> QED
    BY <1>2, <2>2, <2>3, Zenon DEF Kept, Pooled
<1>3. CASE refs[b] # 1
  <2>1. /\ refs' = [refs EXCEPT ![b] = @ - 1] /\ bufstate' = bufstate
        /\ free_pool' = free_pool
    BY <1>1, <1>3, Zenon DEF Unref
  <2>2. /\ refs'[b] = refs[b] - 1
        /\ \A c \in Buffers : c # b => refs'[c] = refs[c]
    BY <2>1, ListsType
  <2> QED
    BY <1>3, <2>1, <2>2, Zenon DEF Kept, Pooled
<1> QED
  BY <1>2, <1>3

\* One place less holds the buffer.
Loosens(b) ==
  /\ (AtCodec(b)' => AtCodec(b)) /\ (InQueue(b)' => InQueue(b)) /\ (AtSink(b)' => AtSink(b))
  /\ (CodecDrops(b)' => CodecDrops(b)) /\ (SinkDrops(b)' => SinkDrops(b))
  /\ \/ Flies(b) /\ ~Flies(b)' /\ (Dropped(b)' <=> Dropped(b))
     \/ Dropped(b) /\ ~Dropped(b)' /\ (Flies(b)' <=> Flies(b))

LEMMA UnrefSound ==
  ASSUME Base, Awake, Steady, phase \in {"run", "flush", "stop"}, NEW b \in Buffers,
         Sound(b), Unref(b), Lists(b), Handle(b), Loosens(b), Waits(b), Begins(b)
  PROVE  /\ Sound(b)' /\ \A c \in Buffers : c # b => Kept(c)
         /\ Distinct(free_pool) => Distinct(free_pool')
<1>1. /\ showcnt'[b] = showcnt[b] /\ (b \in Claimed' <=> b \in Claimed) /\ (Out(b)' => Out(b))
      /\ b \in display_handle' <=> b \in display_handle
  BY Zenon DEF Lists, Handle
<1>2. /\ decoder' = decoder /\ (decoder = "copy" \/ decoder = "vpu") /\ (Based' <=> Based)
      /\ phase # "ready" /\ phase # "null" /\ phase' # "ready"
  BY RenderingAssumption DEF Steady, Base, Typed, Modes
<1>3. (FlushedVpu => FlushedVpu') /\ (Harmed({"error"}) => Harmed({"error"})')
  BY Grows DEF FlushedVpu, Steady
<1>4. ~Based => ~FlushedVpu
  BY <1>2, Zenon DEF Based, FlushedVpu
<1>5. refs[b] = Number(Pooled(b)) + Number(Based) + Number(Flies(b))
                 + Number(b \in Claimed) + Number(Dropped(b))
  BY <1>2, Zenon DEF Sound, Balanced
<1>6. Out(b) => b \in Claimed
  BY <1>2, Zenon DEF Base, Listing, Listed, Awake, Claimed
<1>7. OneWay(b)'
  BY Zenon DEF Sound, OneWay, Loosens
<1>8. /\ (AtCodec(b)' => AtCodec(b)) /\ (InQueue(b)' => InQueue(b)) /\ (AtSink(b)' => AtSink(b))
      /\ (Dropped(b)' => Dropped(b)) /\ (Flies(b)' => Flies(b))
      /\ AtSink(b)' /\ sink'.pc = "show" => sink.pc = "show"
  BY Zenon DEF Loosens, Dropped, Flies, Begins
<1>9. Apart(b)'
  BY <1>1, <1>2, <1>3, <1>8, Zenon DEF Sound, Apart
<1>10. CASE refs[b] = 1
  <2>1. /\ ~Pooled(b) /\ ~Based /\ b \notin Claimed /\ ~Out(b)
        /\ ~Flies(b)' /\ ~Dropped(b)'
    BY <1>5, <1>6, <1>10, <1>8 DEF Number, Loosens
  <2>2. ~FlushedVpu /\ showcnt[b] = 0
    BY <1>4, <2>1 DEF Sound, Shows, Number
  <2>3. bufstate[b] \in {"ALLOCATED", "SHOWED"}
    BY <2>1, <2>2 DEF Sound, Shows, Idles
  <2>4. /\ refs'[b] = 1 /\ bufstate'[b] = "IDLE" /\ Pooled(b)'
        /\ \A c \in Buffers : c # b => Kept(c)
        /\ Distinct(free_pool) => Distinct(free_pool')
    BY <1>10, <2>1, <2>3, UnrefDoes, Zenon DEF Base
  <2>5. Balanced(b)'
    BY <1>1, <1>2, <2>1, <2>4 DEF Balanced, Number
  <2>6. Idles(b)'
    BY <1>1, <1>2, <2>1, <2>2, <2>4 DEF Idles
  <2>7. Shows(b)'
    BY <1>1, <2>1, <2>2, <2>4, V4lSinkAssumption DEF Shows, Number
  <2> QED
    BY <1>7, <1>9, <2>4, <2>5, <2>6, <2>7 DEF Sound
<1>11. CASE refs[b] # 1
  <2>1. /\ refs'[b] = refs[b] - 1 /\ bufstate'[b] = bufstate[b] /\ free_pool' = free_pool
        /\ \A c \in Buffers : c # b => Kept(c)
    BY <1>11, UnrefDoes, Zenon DEF Base
  <2>2. Pooled(b)' <=> Pooled(b)
    BY <2>1, Zenon DEF Pooled
  <2>3. Balanced(b)'
    <3>1. Number(Flies(b))' + Number(Dropped(b))' = Number(Flies(b)) + Number(Dropped(b)) - 1
      BY DEF Loosens, Number
    <3>2. Number(Pooled(b))' = Number(Pooled(b)) /\ Number(Based)' = Number(Based)
          /\ Number(b \in Claimed)' = Number(b \in Claimed)
      BY <1>1, <1>2, <2>2, Zenon DEF Number
    <3>3. refs'[b] = Number(Pooled(b))' + Number(Based)' + Number(Flies(b))'
                     + Number(b \in Claimed)' + Number(Dropped(b))'
      BY <1>5, <2>1, <3>1, <3>2 DEF Number
    <3>4. refs'[b] >= 1
      BY <1>11, <2>1, ListsType DEF Sound, Balanced, Base
    <3> QED
      BY <1>2, <3>3, <3>4 DEF Balanced
  <2>4. Idles(b)'
    BY <1>1, <1>2, <1>8, <2>1, <2>2 DEF Idles, Sound
  <2>5. Shows(b)'
    <3>1. AtSink(b) /\ sink.pc \in {"append", "queued"}
          => AtSink(b)' /\ sink'.pc = sink.pc
      BY Zenon DEF Waits
    <3> QED
      BY <1>1, <1>3, <2>1, <3>1, Zenon DEF Shows, Sound, Number
  <2> QED
    BY <1>7, <1>9, <2>1, <2>3, <2>4, <2>5 DEF Sound
<1> QED
  BY <1>10, <1>11

-------------------------------------------------------------------------------
(* What the two threads and the driver leave as it is                      *)

Holdings == <<buffers, showcnt, v4llist, queue>>

CodecStays ==
  \/ codec' = codec
  \/ /\ codec.pc # "drop" /\ codec'.pc # "drop"
     /\ codec.buffer \notin Buffers /\ codec'.buffer \notin Buffers

SinkStays ==
  \/ sink' = sink
  \/ /\ sink.pc # "drop" /\ sink'.pc # "drop" /\ sink'.buffer = sink.buffer
     /\ sink.pc \notin {"append", "queued"} /\ sink'.pc \notin {"append", "show"}

OutStays ==
  driver' = driver /\ done' = done /\ (codec'.pc = "store" => codec' = codec)

LEMMA CodecStill ==
  ASSUME CodecStays, NEW b \in Buffers
  PROVE  (AtCodec(b)' <=> AtCodec(b)) /\ (CodecDrops(b)' <=> CodecDrops(b))
<1>1. CASE codec' = codec
  BY <1>1, Zenon DEF AtCodec, CodecDrops
<1>2. CASE /\ codec.pc # "drop" /\ codec'.pc # "drop"
           /\ codec.buffer \notin Buffers /\ codec'.buffer \notin Buffers
  BY <1>2, Zenon DEF AtCodec, CodecDrops
<1> QED
  BY <1>1, <1>2 DEF CodecStays

LEMMA SinkStill ==
  ASSUME SinkStays, NEW b \in Buffers
  PROVE  /\ (AtSink(b)' <=> AtSink(b)) /\ (SinkDrops(b)' <=> SinkDrops(b))
         /\ Waits(b) /\ Begins(b)
<1>1. CASE sink' = sink
  BY <1>1, Zenon DEF AtSink, SinkDrops, Waits, Begins
<1>2. CASE /\ sink.pc # "drop" /\ sink'.pc # "drop" /\ sink'.buffer = sink.buffer
           /\ sink.pc \notin {"append", "queued"} /\ sink'.pc \notin {"append", "show"}
  BY <1>2, Zenon DEF AtSink, SinkDrops, Waits, Begins
<1> QED
  BY <1>1, <1>2 DEF SinkStays

LEMMA ClaimsStay ==
  ASSUME v4llist' = v4llist, sink' = sink \/ (sink.pc # "append" /\ sink'.pc # "append")
  PROVE  Claimed' = Claimed
BY Zenon DEF Claimed

LEMMA ClaimsStill ==
  ASSUME v4llist' = v4llist, SinkStays PROVE Claimed' = Claimed
BY ClaimsStay, Zenon DEF SinkStays

LEMMA OutStill ==
  ASSUME OutStays, NEW b
  PROVE  Out(b)' => Out(b)
BY Zenon DEF OutStays, Out, Pending

\* A thread that holds nothing stays out of it.
LEMMA Asides ==
  /\ CodecAside => CodecStays
  /\ CodecAside /\ driver' = driver /\ done' = done => OutStays
  /\ SinkAside /\ Awake => SinkStays
<1>1. CodecAside => CodecStays
  BY Numbers, Zenon DEF CodecAside, CodecStays
<1>2. CodecAside /\ driver' = driver /\ done' = done => OutStays
  BY Zenon DEF CodecAside, OutStays
<1>3. SinkAside /\ Awake => SinkStays
  BY Zenon DEF SinkAside, SinkStays
<1> QED
  BY <1>1, <1>2, <1>3

\* Nobody's business but that of the buffer x
LEMMA TouchShared ==
  ASSUME Steady, Shared, Once', NEW x \in Buffers, Sound(x)',
         \A b \in Buffers : b # x => Still(b)
  PROVE  Shared'
<1>1. \A b \in Buffers : Sound(b)'
  BY StillSound, Zenon DEF Shared
<1> QED
  BY <1>1, Zenon DEF Shared

LEMMA StillShared ==
  ASSUME Steady, Shared, Once', \A b \in Buffers : Still(b) PROVE Shared'
BY StillSound, Zenon DEF Shared

\* A reference of x is dropped, and the tables are as they were if it is not
\* one of the sink's.
LEMMA UnrefShared ==
  ASSUME Base, Awake, Steady, phase \in {"run", "flush", "stop"}, Shared,
         NEW x \in Buffers \cup {SwBuffer}, Unref(x), x \in Buffers => Loosens(x),
         Single(queue'),
         \A b \in Buffers : Lists(b) /\ Handle(b) /\ Waits(b) /\ Begins(b),
         \A b \in Buffers : b # x => Held(b)
  PROVE  Shared'
<1>1. CASE x \in Buffers
  <2>1. /\ Sound(x)' /\ \A c \in Buffers : c # x => Kept(c)
        /\ Distinct(free_pool) => Distinct(free_pool')
    BY <1>1, UnrefSound, Zenon DEF Shared
  <2>2. Once'
    BY <2>1, Zenon DEF Shared, Once
  <2>3. \A b \in Buffers : b # x => Still(b)
    BY <2>1, Zenon DEF Still
  <2> QED
    BY <1>1, <2>1, <2>2, <2>3, TouchShared
<1>2. CASE x = SwBuffer
  <2>1. /\ bufstate' = bufstate /\ refs' = refs /\ free_pool' = free_pool
        /\ \A b \in Buffers : b # x
    BY <1>2, Numbers, Zenon DEF Unref, buffers
  <2>2. \A b \in Buffers : Still(b)
    BY <2>1, Zenon DEF Still, Kept, Pooled
  <2>3. Once'
    BY <2>1, Zenon DEF Shared, Once
  <2> QED
    BY <2>2, <2>3, StillShared
<1> QED
  BY <1>1, <1>2

\* A step that has none of this to do
LEMMA SharingSame ==
  ASSUME Steady, Awake, Sharing, UNCHANGED <<Holdings, display_handle>>,
         CodecStays, SinkStays, \A b \in Buffers : Out(b)' => Out(b)
  PROVE  Sharing'
<1>1. /\ bufstate' = bufstate /\ refs' = refs /\ free_pool' = free_pool /\ showcnt' = showcnt
      /\ v4llist' = v4llist /\ queue' = queue /\ display_handle' = display_handle
      /\ Claimed' = Claimed
  BY ClaimsStill, Zenon DEF Holdings, buffers
<1>2. \A b \in Buffers : Still(b)
  <2> SUFFICES ASSUME NEW b \in Buffers PROVE Still(b)
    OBVIOUS
  <2>1. Kept(b) /\ Lists(b) /\ Handle(b) /\ (InQueue(b)' <=> InQueue(b))
    BY <1>1, Zenon DEF Kept, Lists, Handle, Pooled, InQueue
  <2> QED
    BY <2>1, CodecStill, SinkStill, Zenon DEF Still, Held
<1>3. CASE phase # "null"
  <2>1. Shared
    BY <1>3 DEF Sharing
  <2>2. Once' /\ \A b \in Buffers : Sound(b)'
    BY <1>1, <1>2, <2>1, StillSound, Zenon DEF Shared, Once
  <2> QED
    BY <1>3, <2>2 DEF Sharing, Shared, Steady
<1>4. CASE phase = "null"
  <2>1. Nulled
    BY <1>4 DEF Sharing
  <2>2. Harmed({"error"}) => Harmed({"error"})'
    BY Grows DEF Steady
  <2>3. phase' = "null"
    BY <1>4, Zenon DEF Steady
  <2>4. Nulled'
    BY <1>1, <1>4, <2>1, <2>2, <2>3, Zenon DEF Nulled, AllFreed
  <2> QED
    BY <2>3, <2>4 DEF Sharing
<1> QED
  BY <1>3, <1>4

LEMMA SteadyRest ==
  ASSUME decoder' = decoder, phase' = phase, events \subseteq events'
  PROVE  Steady
BY Zenon DEF Steady, Based

\* Who works for a buffer does so while the sink is open.
LEMMA Busy ==
  ASSUME Typed, codec.pc # "idle" \/ sink.pc # "idle" \/ queue # <<>>
  PROVE  phase \in {"run", "flush", "stop"} /\ phase # "null" /\ phase # "ready"
BY DEF Typed, Modes, Resting

LEMMA TailSingle ==
  ASSUME NEW S, NEW s \in Seq(S), s # <<>>, Single(s)
  PROVE  Single(Tail(s)) /\ (Head(s) # SwBuffer => ~Has(Tail(s), Head(s)))
<1>1. PICK t : t = Tail(s)
  OBVIOUS
<1>2. /\ Len(s) \in Nat /\ Len(s) > 0 /\ Head(s) = s[1] /\ Len(t) = Len(s) - 1
      /\ \A i \in 1 .. Len(t) : t[i] = s[i + 1]
  BY <1>1
<1>3. \A i \in 1 .. Len(t) : i + 1 \in 1 .. Len(s) /\ i + 1 # 1
  BY <1>2
<1>4. Single(t)
  <2> SUFFICES ASSUME NEW i \in 1 .. Len(t), NEW j \in 1 .. Len(t), t[i] = t[j], t[i] # SwBuffer
               PROVE  i = j
    BY DEF Single
  <2>1. i + 1 = j + 1
    BY <1>2, <1>3 DEF Single
  <2> QED
    BY <1>2, <2>1
<1>5. Head(s) # SwBuffer => ~Has(t, Head(s))
  <2>1. 1 \in 1 .. Len(s)
    BY <1>2
  <2> QED
    BY <1>2, <1>3, <2>1, Zenon DEF Single, Has
<1> QED
  BY <1>1, <1>4, <1>5

LEMMA AppendSingle ==
  ASSUME NEW S, NEW s \in Seq(S), NEW x \in S, Single(s), x = SwBuffer \/ ~Has(s, x)
  PROVE  Single(Append(s, x))
<1>1. PICK t : t = Append(s, x)
  OBVIOUS
<1>2. /\ Len(s) \in Nat /\ Len(t) = Len(s) + 1 /\ t[Len(s) + 1] = x
      /\ \A i \in 1 .. Len(s) : t[i] = s[i]
  BY <1>1
<1>3. \A i \in 1 .. Len(t) : i = Len(s) + 1 \/ i \in 1 .. Len(s)
  BY <1>2
<1>4. Single(t)
  <2> SUFFICES ASSUME NEW i \in 1 .. Len(t), NEW j \in 1 .. Len(t), t[i] = t[j], t[i] # SwBuffer
               PROVE  i = j
    BY DEF Single
  <2> QED
    BY <1>2, <1>3, Zenon DEF Single, Has
<1> QED
  BY <1>1, <1>4

\* A thread that goes on with nothing in its hands, or with what it had
LEMMA CodecAsideShares ==
  ASSUME Awake, Sharing, CodecAside, UNCHANGED <<Accounts, device, sink, Rest>>
  PROVE  Sharing'
<1>1. /\ UNCHANGED <<Holdings, display_handle>> /\ driver' = driver /\ done' = done
      /\ sink' = sink
  BY Zenon DEF Accounts, Holdings, device, Rest, vpuVars
<1>2. Steady
  <2>1. decoder' = decoder /\ phase' = phase /\ events' = events
    BY Zenon DEF Rest
  <2> QED
    BY <2>1, SteadyRest
<1>3. SinkStays
  BY <1>1, Zenon DEF SinkStays
<1> QED
  BY <1>1, <1>2, <1>3, Asides, OutStill, SharingSame

LEMMA SinkAsideShares ==
  ASSUME Awake, Sharing, SinkStays, events \subseteq events',
         UNCHANGED <<Holdings, driver, done, codec, vpuVars, decoder, phase>>
  PROVE  Sharing'
<1>1. UNCHANGED <<Holdings, display_handle>>
  BY Zenon DEF vpuVars
<1>2. Steady
  BY SteadyRest
<1>3. CodecStays /\ OutStays
  BY Zenon DEF CodecStays, OutStays
<1> QED
  BY <1>1, <1>2, <1>3, OutStill, SharingSame

-------------------------------------------------------------------------------
(* A buffer that the driver gives back                                     *)

LEMMA DequeuedDoes ==
  ASSUME Base, Awake, phase # "null", NEW x \in Buffers, Sound(x), Out(x), Dequeued(x),
         ~(sink.pc = "queued" /\ AtSink(x))
  PROVE  /\ bufstate[x] = "SHOWING" /\ x \in v4llist /\ Drops(x) = x
         /\ sink.pc = "append" => x # sink.buffer
         /\ showcnt[x] \in 1 .. MaxShow /\ showcnt'[x] = showcnt[x] - 1
         /\ bufstate'[x] = IF showcnt[x] = 1 THEN "SHOWED" ELSE "SHOWING"
         /\ \A c \in Buffers : c # x => showcnt'[c] = showcnt[c] /\ bufstate'[c] = bufstate[c]
<1>1. /\ bufstate[x] = "SHOWING" /\ x \in v4llist
      /\ sink.pc = "append" => x # sink.buffer
  BY Zenon DEF Sound, Shows, Base, Listing, Listed, Awake, Appending
<1>2. showcnt[x] \in 1 .. MaxShow
  BY <1>1 DEF Sound, Shows, Number
<1>3. /\ showcnt' = [showcnt EXCEPT ![x] = @ - 1]
      /\ bufstate' = [bufstate EXCEPT ![x] = IF showcnt[x] = 1 THEN "SHOWED" ELSE @]
  BY <1>1, Zenon DEF Dequeued
<1>4. Drops(x) = x
  BY <1>1 DEF Drops
<1> QED
  BY <1>1, <1>2, <1>3, <1>4, ListsType DEF Base

LEMMA DequeuedSound ==
  ASSUME Base, Base', Awake, Awake', Steady, phase # "null", phase # "ready",
         NEW x \in Buffers, Sound(x), x \notin Claimed',
         Out(x), Dequeued(x), ~(sink.pc = "queued" /\ AtSink(x)),
         refs' = refs, free_pool' = free_pool, Handle(x),
         AtCodec(x)' <=> AtCodec(x), InQueue(x)' <=> InQueue(x), AtSink(x)' <=> AtSink(x),
         Begins(x), ~Dropped(x), Dropped(x)', ~(CodecDrops(x)' /\ SinkDrops(x)')
  PROVE  Sound(x)' /\ \A c \in Buffers : c # x => Kept(c)
<1>1. /\ bufstate[x] = "SHOWING" /\ x \in Claimed /\ x \notin Claimed'
      /\ showcnt[x] \in 1 .. MaxShow /\ showcnt'[x] = showcnt[x] - 1
      /\ bufstate'[x] = IF showcnt[x] = 1 THEN "SHOWED" ELSE "SHOWING"
      /\ \A c \in Buffers : c # x => bufstate'[c] = bufstate[c]
  BY DequeuedDoes DEF Claimed
<1>2. /\ decoder' = decoder /\ (Based' <=> Based)
      /\ (phase' = "ready" <=> phase = "ready") /\ phase' # "null"
  BY Zenon DEF Steady
<1>3. (FlushedVpu => FlushedVpu') /\ (Harmed({"error"}) => Harmed({"error"})')
  BY Grows DEF FlushedVpu, Steady
<1>4. (Flies(x)' <=> Flies(x)) /\ (Pooled(x)' <=> Pooled(x)) /\ ~Pooled(x)
  BY <1>1 DEF Flies, Pooled, Sound, Idles
<1>5. ~Out(x)'
  BY <1>1, <1>2, Zenon DEF Base, Listing, Listed, Awake, Claimed
<1>6. OneWay(x)'
  BY Zenon DEF Sound, OneWay
<1>8. Balanced(x)'
  BY <1>1, <1>2, <1>3, <1>4 DEF Balanced, Sound, Number
<1>9. Idles(x)'
  BY <1>1, <1>2, <1>4 DEF Idles, Sound
<1>10. Shows(x)'
  <2>1. ~FlushedVpu => showcnt[x] = 1
    BY <1>1, Zenon DEF Shows, Sound, Number
  <2>2. showcnt'[x] \in 0 .. MaxShow /\ (showcnt[x] # 1 => showcnt'[x] >= 1)
    BY <1>1, V4lSinkAssumption
  <2>3. showcnt[x] = 1 => showcnt'[x] = 0
    BY <1>1
  <2> QED
    BY <1>1, <1>3, <1>5, <2>1, <2>2, <2>3 DEF Shows, Number
<1>11. Apart(x)'
  <2>1. /\ AtSink(x)' /\ sink'.pc = "show" => AtSink(x) /\ sink.pc = "show"
        /\ x \in display_handle' <=> x \in display_handle
    BY Zenon DEF Begins, Handle
  <2>2. decoder = "copy" => ~FlushedVpu
    BY DEF FlushedVpu
  <2> QED
    BY <1>1, <1>2, <1>3, <1>4, <2>1, <2>2, Zenon DEF Apart, Sound
<1>12. \A c \in Buffers : c # x => Kept(c)
  BY <1>1, Zenon DEF Kept, Pooled
<1> QED
  BY <1>6, <1>8, <1>9, <1>10, <1>11, <1>12 DEF Sound

-------------------------------------------------------------------------------
(* A buffer that is referred to, listed and given to the driver            *)

LEMMA ReferredSound ==
  ASSUME Base, Steady, phase # "null", phase # "ready", NEW x \in Buffers, Sound(x),
         x \notin Claimed, x \in Claimed', sink.pc = "show", AtSink(x), AtSink(x)',
         showcnt[x] < MaxShow, showcnt'[x] = showcnt[x] + 1, refs'[x] = refs[x] + 1,
         bufstate'[x] = bufstate[x], Pooled(x)' <=> Pooled(x), Handle(x),
         AtCodec(x)' <=> AtCodec(x), InQueue(x)' <=> InQueue(x),
         CodecDrops(x)' <=> CodecDrops(x), ~SinkDrops(x), ~SinkDrops(x)',
         sink'.pc = "append", ~Out(x)'
  PROVE  Sound(x)'
<1>1. /\ decoder' = decoder /\ (Based' <=> Based) /\ phase' # "ready"
  BY Zenon DEF Steady
<1>2. FlushedVpu => FlushedVpu'
  BY Grows DEF FlushedVpu, Steady
<1>3. /\ Flies(x) /\ Flies(x)' /\ (Dropped(x)' <=> Dropped(x))
      /\ ~AtCodec(x) /\ ~InQueue(x) /\ ~AtCodec(x)' /\ ~InQueue(x)'
  BY Zenon DEF Sound, OneWay, Flies, Dropped
<1>4. ~Pooled(x)
  BY <1>3, Zenon DEF Sound, Idles
<1>5. x \in display_handle' <=> x \in display_handle
  BY Zenon DEF Handle
<1>6. OneWay(x)'
  BY <1>3, Zenon DEF OneWay
<1>7. Balanced(x)'
  <2>1. /\ refs[x] >= 1 /\ refs[x] \in Int
        /\ refs[x] = Number(Pooled(x)) + Number(Based) + Number(Flies(x))
                     + Number(x \in Claimed) + Number(Dropped(x))
    BY ListsType, Zenon DEF Sound, Balanced, Base
  <2> QED
    BY <1>1, <1>3, <2>1 DEF Balanced, Number
<1>8. Idles(x)'
  BY <1>1, <1>4, Zenon DEF Sound, Idles
<1>9. Shows(x)'
  <2>1. showcnt[x] \in 0 .. MaxShow /\ (~FlushedVpu => showcnt[x] = 0)
    BY DEF Sound, Shows, Number
  <2>2. showcnt'[x] \in 1 .. MaxShow /\ (~FlushedVpu => showcnt'[x] = 1)
    BY <2>1, V4lSinkAssumption
  <2> QED
    BY <1>2, <2>2 DEF Shows, Number
<1>10. Apart(x)'
  <2>1. sink'.pc # "show"
    OBVIOUS
  <2> QED
    BY <1>1, <1>2, <1>3, <1>5, <2>1, Zenon DEF Sound, Apart
<1> QED
  BY <1>6, <1>7, <1>8, <1>9, <1>10 DEF Sound

LEMMA AppendedSound ==
  ASSUME Base, Steady, phase # "null", phase # "ready", NEW x \in Buffers, Sound(x),
         x \in Claimed, x \in Claimed', sink.pc = "append", AtSink(x), AtSink(x)',
         showcnt'[x] = showcnt[x], refs'[x] = refs[x],
         bufstate'[x] = bufstate[x], Pooled(x)' <=> Pooled(x), Handle(x),
         AtCodec(x)' <=> AtCodec(x), InQueue(x)' <=> InQueue(x),
         CodecDrops(x)' <=> CodecDrops(x), ~SinkDrops(x), ~SinkDrops(x)',
         sink'.pc = "queued" \/ (sink'.pc # "show" /\ Harmed({"error"})' /\ ~Out(x)')
  PROVE  Sound(x)'
<1>1. /\ decoder' = decoder /\ (Based' <=> Based) /\ phase' # "ready"
  BY Zenon DEF Steady
<1>2. FlushedVpu => FlushedVpu'
  BY Grows DEF FlushedVpu, Steady
<1>3. /\ Flies(x) /\ Flies(x)' /\ (Dropped(x)' <=> Dropped(x))
      /\ ~AtCodec(x) /\ ~InQueue(x) /\ ~AtCodec(x)' /\ ~InQueue(x)'
  BY Zenon DEF Sound, OneWay, Flies, Dropped
<1>4. ~Pooled(x)
  BY <1>3, Zenon DEF Sound, Idles
<1>5. x \in display_handle' <=> x \in display_handle
  BY Zenon DEF Handle
<1>6. OneWay(x)'
  BY <1>3, Zenon DEF OneWay
<1>7. Balanced(x)'
  BY <1>1, <1>2, <1>3, Zenon DEF Sound, Balanced, Number
<1>8. Idles(x)'
  BY <1>1, <1>4, Zenon DEF Sound, Idles
<1>9. Shows(x)'
  <2>1. Number(x \in Claimed)' = Number(x \in Claimed)
    BY Zenon DEF Number
  <2> QED
    BY <1>2, <2>1, Zenon DEF Sound, Shows
<1>10. Apart(x)'
  <2>1. sink'.pc # "show"
    OBVIOUS
  <2> QED
    BY <1>1, <1>2, <1>3, <1>5, <2>1, Zenon DEF Sound, Apart
<1> QED
  BY <1>6, <1>7, <1>8, <1>9, <1>10 DEF Sound

\* Nobody is at work for a buffer while all threads rest.
Quiet == \A b \in Buffers : ~Flies(b) /\ ~Dropped(b) /\ OneWay(b)

LEMMA RestHolds == Typed /\ AtRest => Quiet
<1> SUFFICES ASSUME Typed, AtRest, NEW b \in Buffers
             PROVE  ~Flies(b) /\ ~Dropped(b) /\ OneWay(b)
  BY DEF Quiet
<1>1. codec.pc = "idle" /\ sink.pc = "idle" /\ queue = <<>>
  BY DEF AtRest
<1>2. codec.buffer = None /\ sink.buffer = None /\ ~Has(queue, b)
  BY <1>1, CodecHolds, SinkHolds, EmptyHas
<1>3. ~AtCodec(b) /\ ~InQueue(b) /\ ~AtSink(b) /\ ~CodecDrops(b) /\ ~SinkDrops(b)
  BY <1>1, <1>2, Numbers DEF AtCodec, AtSink, InQueue, CodecDrops, SinkDrops
<1> QED
  BY <1>3 DEF Flies, Dropped, OneWay

LEMMA RestHoldsNext == Typed' /\ AtRest' => Quiet'
BY RestHolds, PTL

\* The sink opens: every buffer is free, or with the decoder.
Afresh ==
  /\ phase = "run" /\ AtRest /\ v4llist = {} /\ driver = <<>> /\ done = <<>>
  /\ bufstate = Handed(HandedOut(decoder)) /\ free_pool = Free(HandedOut(decoder))
  /\ showcnt = [b \in Buffers |-> 0] /\ refs = [b \in Buffers |-> 1]

LEMMA AfreshShared == Typed /\ Afresh => Shared
<1> SUFFICES ASSUME Typed, Afresh PROVE Shared
  OBVIOUS
<1>1. PICK Gone \in SUBSET Buffers : Gone = HandedOut(decoder)
  BY DEF HandedOut, Registered
<1>2. /\ bufstate = Handed(Gone) /\ free_pool = Free(Gone)
      /\ Distinct(Free(Gone)) /\ \A b : Has(Free(Gone), b) <=> b \in Buffers \ Gone
  BY <1>1, HandedBooks, Zenon DEF Afresh
<1>3. Once
  BY <1>2 DEF Once, Single, Afresh, AtRest
<1>4. /\ \A b \in Buffers : b \in Gone <=> Based
      /\ phase # "ready"
  BY <1>1 DEF Based, HandedOut, Registered, Afresh
<1>5. ASSUME NEW b \in Buffers PROVE Sound(b)
  <2>1. Pooled(b) <=> ~Based
    BY <1>2, <1>4 DEF Pooled
  <2>2. /\ bufstate[b] = IF Based THEN "ALLOCATED" ELSE "IDLE"
        /\ refs[b] = 1 /\ showcnt[b] = 0
    BY <1>2, <1>4 DEF Handed, Afresh
  <2>3. /\ ~Flies(b) /\ ~Dropped(b) /\ OneWay(b) /\ b \notin Claimed
        /\ ~AtCodec(b) /\ ~InQueue(b) /\ ~AtSink(b)
    BY RestHolds, Zenon DEF Afresh, AtRest, Quiet, Flies, Claimed
  <2>4. ~Out(b)
    BY EmptyHas, <1>4 DEF Out, Pending, Afresh, AtRest
  <2>5. Balanced(b)
    BY <1>4, <2>1, <2>2, <2>3 DEF Balanced, Number
  <2>6. Idles(b)
    BY <1>4, <2>1, <2>2, <2>3 DEF Idles
  <2>7. Shows(b)
    BY <2>2, <2>3, <2>4, V4lSinkAssumption DEF Shows, Number
  <2>8. Apart(b)
    BY <2>3, Zenon DEF Apart
  <2> QED
    BY <2>3, <2>5, <2>6, <2>7, <2>8 DEF Sound
<1> QED
  BY <1>3, <1>5 DEF Shared

LEMMA AfreshNext == Typed' /\ Afresh' => Shared'
BY AfreshShared, PTL

\* Every buffer is accounted for, whatever the two threads, the driver and the
\* application do to it, one step after the other, as long as nobody suspends
\* the system and the threads do not store the list across each other.
LEMMA SharingKept ==
  ASSUME Base, Base', Begun, Sharing, Awake, Awake', Next PROVE Sharing'
<1>1. CASE Start
  <2>1. CodecAside /\ UNCHANGED <<Accounts, device, sink, Rest>>
    BY <1>1, StartDoes, Zenon DEF Base
  <2> QED
    BY <2>1, CodecAsideShares
<1>2. CASE Push
  <2>1. /\ codec.pc = "push" /\ codec.buffer \in Buffers \cup {SwBuffer}
        /\ codec'.pc \in {"idle", "chain"} /\ codec'.buffer = None
        /\ UNCHANGED <<showcnt, v4llist, driver, done, sink, Rest>>
    BY <1>2, PushDoes, Zenon DEF Base, device
  <2>2. phase \in {"run", "flush", "stop"} /\ Shared
    BY <2>1, Busy DEF Base, Sharing
  <2>3. phase' # "null" /\ Steady /\ display_handle' = display_handle
    BY <2>1, <2>2, SteadyRest DEF Rest, vpuVars
  <2>4. SinkStays /\ OutStays
    BY <2>1, Zenon DEF SinkStays, OutStays
  <2>5. \A b \in Buffers : /\ ~CodecDrops(b) /\ ~CodecDrops(b)' /\ ~AtCodec(b)'
                           /\ (Dropped(b)' <=> Dropped(b)) /\ (AtSink(b)' <=> AtSink(b))
                           /\ (SinkDrops(b)' <=> SinkDrops(b))
    BY <2>1, <2>4, SinkStill, Numbers DEF CodecDrops, Dropped, AtCodec
  <2>6. \A b \in Buffers : Lists(b) /\ Handle(b) /\ Waits(b) /\ Begins(b)
    BY <2>1, <2>3, <2>4, ClaimsStill, SinkStill, OutStill, Zenon DEF Lists, Handle
  <2>7. PICK x \in Buffers \cup {SwBuffer} : x = codec.buffer
    BY <2>1
  <2>8. \A b \in Buffers : AtCodec(b) <=> b = x
    BY <2>7, Zenon DEF AtCodec
  <2>9. CASE Unref(x) /\ UNCHANGED queue
    <3>1. \A b \in Buffers : InQueue(b)' <=> InQueue(b)
      BY <2>9, Zenon DEF InQueue
    <3>2. x \in Buffers => Loosens(x)
      BY <2>2, <2>5, <2>8, <3>1, Zenon DEF Loosens, Flies, Shared, Sound, OneWay
    <3>3. \A b \in Buffers : b # x => Held(b)
      BY <2>5, <2>8, <3>1, Zenon DEF Held
    <3>4. Single(queue')
      BY <2>2, <2>9, Zenon DEF Shared, Once
    <3>5. Shared'
      BY <2>2, <2>3, <2>6, <2>9, <3>2, <3>3, <3>4, UnrefShared
    <3> QED
      BY <2>3, <3>5 DEF Sharing
  <2>10. CASE queue' = Append(queue, x) /\ UNCHANGED buffers
    <3>1. \A b : Has(queue', b) <=> b = x \/ Has(queue, b)
      <4>1. queue \in Seq(Buffers \cup {SwBuffer})
        BY ListsType DEF Base
      <4>2. \A b : Has(Append(queue, x), b) <=> b = x \/ Has(queue, b)
        BY <4>1, AppendHas
      <4> QED
        BY <2>10, <4>2, Zenon
    <3>2. x \in Buffers => ~Has(queue, x) /\ ~AtSink(x)
      BY <2>2, <2>8, Zenon DEF Shared, Sound, OneWay, InQueue
    <3>3. Single(queue')
      BY <2>2, <2>10, <3>2, ListsType, AppendSingle DEF Base, Shared, Once
    <3>4. \A b \in Buffers : Kept(b)
      BY <2>10, Zenon DEF Kept, Pooled, buffers
    <3>5. Once'
      BY <2>2, <2>10, <3>3, Zenon DEF Shared, Once, buffers
    <3>6. \A b \in Buffers : b # x => Still(b)
      BY <2>5, <2>6, <2>8, <3>1, <3>4, Zenon DEF Still, Held, InQueue
    <3>7. CASE x \in Buffers
      <4>1. Sound(x) /\ AtCodec(x) /\ InQueue(x)' /\ ~AtSink(x)'
        BY <2>2, <2>5, <2>8, <3>1, <3>2, <3>7, Zenon DEF Shared, InQueue
      <4>2. (Flies(x)' <=> Flies(x)) /\ (Dropped(x)' <=> Dropped(x))
        BY <2>5, <3>7, <4>1, Zenon DEF Flies
      <4>3. Balanced(x)' /\ Idles(x)' /\ Shows(x)'
        BY <2>3, <2>6, <3>4, <3>7, <4>1, <4>2, Passing
      <4>4. OneWay(x)'
        BY <2>5, <3>7, <4>1, Zenon DEF OneWay
      <4>5. Apart(x)'
        <5>1. /\ FlushedVpu => FlushedVpu'
              /\ (Based' <=> Based) /\ decoder' = decoder
              /\ (x \in Claimed' <=> x \in Claimed)
              /\ x \in display_handle' <=> x \in display_handle
          BY <2>3, <2>6, <3>7, Grows, Zenon DEF Steady, FlushedVpu, Lists, Handle
        <5> QED
          BY <4>1, <4>2, <5>1, Zenon DEF Sound, Apart, Flies
      <4>6. Sound(x)'
        BY <4>3, <4>4, <4>5 DEF Sound
      <4>7. Shared'
        BY <2>2, <2>3, <3>5, <3>6, <3>7, <4>6, TouchShared
      <4> QED
        BY <2>3, <4>7 DEF Sharing
    <3>8. CASE x = SwBuffer
      <4>1. Shared'
        BY <2>2, <2>3, <3>5, <3>6, <3>8, Numbers, StillShared
      <4> QED
        BY <2>3, <4>1 DEF Sharing
    <3> QED
      BY <3>7, <3>8
  <2> QED
    BY <1>2, <2>7, <2>9, <2>10, Zenon DEF Push
<1>3. CASE NewBuffer /\ Frame
  <2>1. CodecAside /\ UNCHANGED <<Accounts, device, sink, Rest>>
    BY <1>3, NewBufferDoes, Zenon DEF Base
  <2> QED
    BY <2>1, CodecAsideShares
<1>4. CASE CodecDequeue /\ Frame
  <2>1. CASE CodecAside /\ UNCHANGED done
    <3>1. UNCHANGED <<Accounts, device, sink, Rest>>
      BY <1>4, <2>1, CodecDequeueDoes, Zenon DEF Base, device
    <3> QED
      BY <2>1, <3>1, CodecAsideShares
  <2>2. CASE /\ codec.pc = "dq" /\ codec.buffer = None
             /\ done # <<>> /\ done' = Tail(done)
             /\ codec'.pc = "store" /\ codec'.buffer = None /\ codec'.dequeued = Head(done)
    <3>1. UNCHANGED <<Accounts, driver, sink, Rest>>
      BY <1>4, CodecDequeueDoes, Zenon DEF Base
    <3>2. \A b : Has(done, b) <=> b = Head(done) \/ Has(done', b)
      BY <2>2, ListsType, TailHas DEF Base
    <3>3. \A b : Out(b)' => Out(b)
      BY <2>2, <3>1, <3>2, Zenon DEF Out, Pending
    <3>4. CodecStays /\ SinkStays
      BY <2>2, <3>1, Numbers DEF CodecStays, SinkStays
    <3>5. Steady /\ UNCHANGED <<Holdings, display_handle>>
      BY <3>1, SteadyRest DEF Rest, vpuVars, Accounts, Holdings
    <3> QED
      BY <3>3, <3>4, <3>5, SharingSame
  <2> QED
    BY <1>4, <2>1, <2>2, CodecDequeueDoes, Zenon DEF Base
<1>5. CASE CodecStore /\ Frame
  <2>1. /\ codec.pc = "store" /\ codec.buffer = None /\ codec.dequeued \in Buffers
        /\ decoder = "copy" /\ codec'.pc = "drop" /\ codec'.buffer = None
        /\ v4llist' = v4llist \ {codec.dequeued} /\ events' = events
        /\ UNCHANGED <<refs, free_pool, queue, driver, done, sink, vpuVars, decoder, phase>>
    BY <1>5, CodecStoreDoes, Zenon DEF Base, device, Awake
  <2>2. phase # "null" /\ phase # "ready" /\ Shared
    BY <2>1, Busy DEF Base, Sharing
  <2>3. phase' # "null" /\ Steady /\ display_handle' = display_handle
    BY <2>1, <2>2, SteadyRest DEF vpuVars
  <2>4. SinkStays /\ OutStays
    BY <2>1, Zenon DEF SinkStays, OutStays
  <2>5. \A b \in Buffers : /\ ~CodecDrops(b) /\ ~AtCodec(b) /\ ~AtCodec(b)'
                           /\ (AtSink(b)' <=> AtSink(b)) /\ (InQueue(b)' <=> InQueue(b))
                           /\ (SinkDrops(b)' <=> SinkDrops(b)) /\ Waits(b) /\ Begins(b)
                           /\ Handle(b)
    BY <2>1, <2>3, <2>4, SinkStill, Numbers DEF CodecDrops, AtCodec, InQueue, Handle
  <2>6. PICK x \in Buffers : x = codec.dequeued
    BY <2>1
  <2>7. Dequeued(x) /\ codec'.dequeued = Drops(x)
    BY <1>5, <2>6, CodecStoreDoes, Zenon DEF Base
  <2>8. Out(x) /\ Pending(x)
    BY <2>1, <2>6, Zenon DEF Out, Pending
  <2>9. ~(sink.pc = "queued" /\ AtSink(x))
    <3>1. SUFFICES ASSUME sink.pc = "queued", AtSink(x) PROVE FALSE
      OBVIOUS
    <3>2. Len(driver) > 0 /\ driver[Len(driver)] = x /\ Len(driver) \in Nat
      BY <2>2, <3>1, ListsType DEF Base, Listing, Listed, AtSink, Awake
    <3>3. Has(driver, x)
      BY <3>2 DEF Has
    <3> QED
      BY <2>2, <2>8, <3>3, Zenon DEF Base, Listing, Listed, Awake
  <2>10. /\ Sound(x) /\ x \in Claimed /\ x \notin Claimed' /\ Drops(x) = x
         /\ \A c \in Buffers : c # x => (c \in Claimed' <=> c \in Claimed)
         /\ \A c \in Buffers : c # x => showcnt'[c] = showcnt[c]
    <3>1. /\ Sound(x) /\ x \in v4llist /\ Drops(x) = x
          /\ sink.pc = "append" => x # sink.buffer
          /\ \A c \in Buffers : c # x => showcnt'[c] = showcnt[c]
      BY <2>2, <2>7, <2>8, <2>9, DequeuedDoes DEF Shared
    <3> QED
      BY <2>1, <2>6, <3>1 DEF Claimed
  <2>11. ~Dropped(x) /\ ~SinkDrops(x)
    BY <2>1, <2>10, Zenon DEF Sound, Apart, Dropped
  <2>12. /\ CodecDrops(x)' /\ ~SinkDrops(x)' /\ Dropped(x)'
         /\ \A b \in Buffers : b # x => ~CodecDrops(b)'
    BY <2>1, <2>5, <2>7, <2>10, <2>11, Zenon DEF CodecDrops, Dropped
  <2>13. Sound(x)' /\ \A c \in Buffers : c # x => Kept(c)
    BY <2>1, <2>2, <2>3, <2>5, <2>7, <2>8, <2>9, <2>10, <2>11, <2>12, DequeuedSound
  <2>14. \A b \in Buffers : b # x => Lists(b)
    BY <2>4, <2>10, OutStill, Zenon DEF Lists
  <2>15. \A b \in Buffers : b # x => Still(b)
    BY <2>5, <2>12, <2>13, <2>14, Zenon DEF Still, Held
  <2>16. Once'
    BY <2>1, <2>2, Zenon DEF Shared, Once
  <2>17. Shared'
    BY <2>2, <2>3, <2>13, <2>15, <2>16, TouchShared
  <2> QED
    BY <2>3, <2>17 DEF Sharing
<1>6. CASE CodecDrop /\ Frame
  <2>1. /\ codec.pc = "drop" /\ codec.buffer = None /\ codec.dequeued \in Buffers \cup {None}
        /\ codec'.pc \notin {"store", "drop", "push"} /\ codec'.buffer = None
        /\ UNCHANGED <<showcnt, v4llist, queue, driver, done, sink, Rest>>
    BY <1>6, CodecDropDoes, Zenon DEF Base, device
  <2>2. phase \in {"run", "flush", "stop"} /\ Shared
    BY <2>1, Busy DEF Base, Sharing
  <2>3. phase' # "null" /\ Steady /\ display_handle' = display_handle
    BY <2>1, <2>2, SteadyRest DEF Rest, vpuVars
  <2>4. SinkStays /\ OutStays
    BY <2>1, Zenon DEF SinkStays, OutStays
  <2>5. \A b \in Buffers : /\ ~CodecDrops(b)' /\ ~AtCodec(b) /\ ~AtCodec(b)'
                           /\ (AtSink(b)' <=> AtSink(b)) /\ (InQueue(b)' <=> InQueue(b))
                           /\ (SinkDrops(b)' <=> SinkDrops(b))
    BY <2>1, <2>4, SinkStill, Numbers DEF CodecDrops, AtCodec, InQueue
  <2>6. \A b \in Buffers : Lists(b) /\ Handle(b) /\ Waits(b) /\ Begins(b)
    BY <2>1, <2>3, <2>4, ClaimsStill, SinkStill, OutStill, Zenon DEF Lists, Handle
  <2>7. Single(queue')
    BY <2>1, <2>2, Zenon DEF Shared, Once
  <2>8. CASE codec.dequeued = None /\ UNCHANGED buffers
    <3>1. \A b \in Buffers : ~CodecDrops(b) /\ Kept(b)
      BY <2>8, Numbers DEF CodecDrops, Kept, buffers, Pooled
    <3>2. \A b \in Buffers : Still(b)
      BY <2>5, <2>6, <3>1, Zenon DEF Still, Held
    <3>3. Shared'
      BY <2>2, <2>3, <2>7, <2>8, <3>2, StillShared DEF Shared, Once, buffers
    <3> QED
      BY <2>3, <3>3 DEF Sharing
  <2>9. CASE codec.dequeued # None /\ Unref(codec.dequeued)
    <3>1. PICK x \in Buffers : x = codec.dequeued
      BY <2>1, <2>9
    <3>2. Unref(x) /\ \A b \in Buffers : CodecDrops(b) <=> b = x
      BY <2>1, <2>9, <3>1, Zenon DEF CodecDrops
    <3>3. Loosens(x)
      BY <2>2, <2>5, <3>2, Zenon DEF Loosens, Flies, Dropped, Shared, Sound, OneWay
    <3>4. \A b \in Buffers : b # x => Held(b)
      BY <2>5, <3>2, Zenon DEF Held
    <3>5. Shared'
      BY <2>2, <2>3, <2>6, <2>7, <3>2, <3>3, <3>4, UnrefShared
    <3> QED
      BY <2>3, <3>5 DEF Sharing
  <2> QED
    BY <1>6, <2>8, <2>9, Zenon DEF CodecDrop
<1>7. CASE Take /\ Frame
  <2>1. /\ codec.pc \in {"take", "retry"} /\ codec.buffer = None /\ decoder = "copy"
        /\ free_pool # <<>> /\ free_pool' = Tail(free_pool)
        /\ bufstate' = [bufstate EXCEPT ![Head(free_pool)] = "ALLOCATED"]
        /\ codec'.pc = "push" /\ codec'.buffer = Head(free_pool)
        /\ UNCHANGED <<refs, showcnt, v4llist, queue, driver, done, sink, Rest>>
    BY <1>7, TakeDoes, Zenon DEF Base, device
  <2>2. phase # "null" /\ phase # "ready" /\ Shared
    BY <2>1, Busy DEF Base, Sharing
  <2>3. phase' # "null" /\ Steady /\ display_handle' = display_handle
    BY <2>1, <2>2, SteadyRest DEF Rest, vpuVars
  <2>4. SinkStays /\ OutStays
    BY <2>1 DEF SinkStays, OutStays
  <2>5. \A b \in Buffers : /\ ~CodecDrops(b) /\ ~CodecDrops(b)' /\ ~AtCodec(b)
                           /\ (AtSink(b)' <=> AtSink(b)) /\ (InQueue(b)' <=> InQueue(b))
                           /\ (SinkDrops(b)' <=> SinkDrops(b)) /\ (Dropped(b)' <=> Dropped(b))
                           /\ Waits(b) /\ Begins(b) /\ Handle(b) /\ Lists(b)
    BY <2>1, <2>3, <2>4, ClaimsStill, SinkStill, OutStill, Numbers
       DEF CodecDrops, AtCodec, InQueue, Handle, Lists, Dropped
  <2>6. /\ Head(free_pool) \in Buffers /\ Distinct(free_pool')
        /\ ~Has(free_pool', Head(free_pool))
        /\ \A b : Has(free_pool, b) <=> b = Head(free_pool) \/ Has(free_pool', b)
    BY <2>1, <2>2, ListsType, TailHas DEF Base, Shared, Once
  <2>7. PICK x \in Buffers : x = Head(free_pool)
    BY <2>6
  <2>8. /\ Pooled(x) /\ ~Pooled(x)' /\ \A b \in Buffers : b # x => (Pooled(b)' <=> Pooled(b))
        /\ \A b \in Buffers : AtCodec(b)' <=> b = x
    BY <2>1, <2>6, <2>7, Zenon DEF Pooled, AtCodec
  <2>9. /\ bufstate'[x] = "ALLOCATED" /\ refs'[x] = refs[x] /\ showcnt'[x] = showcnt[x]
        /\ \A b \in Buffers : b # x => bufstate'[b] = bufstate[b]
    BY <2>1, <2>7, ListsType DEF Base
  <2>10. \A b \in Buffers : b # x => Still(b)
    BY <2>1, <2>5, <2>8, <2>9, Zenon DEF Still, Kept, Held
  <2>11. Once'
    BY <2>1, <2>2, <2>6, Zenon DEF Shared, Once
  <2>12. /\ Sound(x) /\ ~Flies(x) /\ x \notin Claimed /\ ~Dropped(x) /\ ~Based /\ showcnt[x] = 0
         /\ bufstate[x] = "IDLE"
    BY <2>2, <2>8 DEF Shared, Sound, Idles
  <2>13. /\ ~AtSink(x)' /\ ~InQueue(x)' /\ x \notin Claimed' /\ ~Dropped(x)' /\ ~Based'
         /\ Flies(x)' /\ ~CodecDrops(x)'
    BY <2>3, <2>5, <2>8, <2>12, Zenon DEF Flies, Lists, Steady
  <2>14. ~Out(x)'
    BY <2>3, <2>13, Zenon DEF Base, Listing, Listed, Awake, Claimed
  <2>15. refs'[x] = 1 /\ phase' # "ready"
    BY <2>2, <2>3, <2>8, <2>9, <2>12 DEF Sound, Balanced, Number, Steady
  <2>16. OneWay(x)' /\ Apart(x)'
    BY <2>13, Zenon DEF OneWay, Apart
  <2>17. Balanced(x)'
    BY <2>8, <2>13, <2>15 DEF Balanced, Number
  <2>18. Idles(x)'
    BY <2>8, <2>9, <2>15 DEF Idles
  <2>19. Shows(x)'
    BY <2>9, <2>12, <2>13, <2>14, V4lSinkAssumption DEF Shows, Number
  <2>20. Sound(x)'
    BY <2>16, <2>17, <2>18, <2>19 DEF Sound
  <2>21. Shared'
    BY <2>2, <2>3, <2>10, <2>11, <2>20, TouchShared
  <2> QED
    BY <2>3, <2>21 DEF Sharing
<1>8. CASE Retry /\ Frame
  <2>1. CodecAside /\ UNCHANGED <<Accounts, device, sink, Rest>>
    BY <1>8, RetryDoes, Zenon DEF Base
  <2> QED
    BY <2>1, CodecAsideShares
<1>9. CASE TakeSoftware /\ Frame
  <2>1. /\ codec.pc = "retry" /\ codec.buffer = None /\ codec'.pc = "push"
        /\ codec'.buffer = SwBuffer
        /\ UNCHANGED <<Holdings, driver, done, sink, Rest>>
    BY <1>9, TakeSoftwareDoes, Zenon DEF Base, device, Accounts, Holdings
  <2>2. CodecStays /\ OutStays /\ SinkStays
    BY <2>1, Numbers DEF CodecStays, OutStays, SinkStays
  <2>3. Steady /\ UNCHANGED <<Holdings, display_handle>>
    BY <2>1, SteadyRest DEF Rest, vpuVars
  <2> QED
    BY <2>2, <2>3, OutStill, SharingSame
<1>10. CASE CheckDisplayQueue /\ UNCHANGED <<decoder, phase>>
  <2>1. /\ CodecAside /\ UNCHANGED <<Accounts, device, sink, events, decoder, phase>>
        /\ display_handle' = {f \in display_handle : f = latest \/ refs[f] # 1}
        /\ decoder = "vpu"
    BY <1>10, CheckDisplayQueueDoes, Zenon DEF Base
  <2>2. phase \in {"run", "flush", "stop"} /\ phase # "null" /\ phase # "ready" /\ Shared /\ Based
    <3>1. codec.pc # "idle"
      BY <1>10 DEF CheckDisplayQueue
    <3> QED
      BY <2>1, <3>1, Busy DEF Base, Sharing, Based
  <2>3. phase' # "null" /\ Steady
    BY <2>1, <2>2, SteadyRest
  <2>4. /\ bufstate' = bufstate /\ refs' = refs /\ free_pool' = free_pool
        /\ showcnt' = showcnt /\ v4llist' = v4llist /\ queue' = queue
        /\ driver' = driver /\ done' = done /\ sink' = sink /\ Claimed' = Claimed
    BY <2>1, ClaimsStay, Zenon DEF Accounts, buffers, device
  <2>5. CodecStays /\ SinkStays /\ OutStays
    BY <2>1, <2>4, Asides, Zenon DEF SinkStays
  <2>6. \A b \in Buffers : Kept(b) /\ Lists(b) /\ Held(b) /\ Waits(b) /\ Begins(b)
    <3> SUFFICES ASSUME NEW b \in Buffers
                 PROVE  Kept(b) /\ Lists(b) /\ Held(b) /\ Waits(b) /\ Begins(b)
      OBVIOUS
    <3>1. Kept(b) /\ (InQueue(b)' <=> InQueue(b))
      BY <2>4, Zenon DEF Kept, Pooled, InQueue
    <3>2. Lists(b)
      BY <2>4, <2>5, OutStill, Zenon DEF Lists
    <3> QED
      BY <2>5, <3>1, <3>2, CodecStill, SinkStill, Zenon DEF Held
  <2>7. ASSUME NEW b \in Buffers PROVE Sound(b)'
    <3>1. Sound(b)
      BY <2>2 DEF Shared
    <3>2. /\ (AtCodec(b)' <=> AtCodec(b)) /\ (InQueue(b)' <=> InQueue(b))
          /\ (AtSink(b)' <=> AtSink(b))
          /\ (CodecDrops(b)' <=> CodecDrops(b)) /\ (SinkDrops(b)' <=> SinkDrops(b))
      BY <2>6, Zenon DEF Held
    <3>3. (Flies(b)' <=> Flies(b)) /\ (Dropped(b)' <=> Dropped(b))
      BY <3>2, Zenon DEF Flies, Dropped
    <3>4. Balanced(b)' /\ Idles(b)' /\ Shows(b)'
      BY <2>3, <2>6, <3>1, <3>3, Passing
    <3>5. OneWay(b)'
      BY <3>1, <3>2, Zenon DEF Sound, OneWay
    <3>6. (Flies(b) \/ b \in Claimed \/ Dropped(b)) /\ b \in display_handle
          => b \in display_handle'
      <4>1. Flies(b) \/ b \in Claimed \/ Dropped(b) => refs[b] # 1
        BY <2>2, <3>1 DEF Sound, Balanced, Number
      <4> QED
        BY <2>1, <4>1
    <3>7. Apart(b)'
      <4>1. /\ FlushedVpu => FlushedVpu'
            /\ decoder' = decoder /\ (Based' <=> Based) /\ (b \in Claimed' <=> b \in Claimed)
            /\ AtSink(b)' /\ sink'.pc = "show" => AtSink(b) /\ sink.pc = "show"
        BY <2>3, <2>4, Grows, Zenon DEF FlushedVpu, Steady, AtSink
      <4> QED
        BY <3>1, <3>2, <3>3, <3>6, <4>1, Zenon DEF Sound, Apart
    <3> QED
      BY <3>4, <3>5, <3>7 DEF Sound
  <2>8. Shared'
    BY <2>2, <2>4, <2>7, Zenon DEF Shared, Once
  <2> QED
    BY <2>3, <2>8 DEF Sharing
<1>11. CASE NoPicture /\ UNCHANGED <<decoder, phase>>
  <2>1. CodecAside /\ UNCHANGED <<Accounts, device, sink, Rest>>
    BY <1>11, NoPictureDoes, Zenon DEF Base
  <2> QED
    BY <2>1, CodecAsideShares
<1>12. ASSUME NEW f \in Buffers, Output(f), UNCHANGED <<decoder, phase>>
      PROVE  Sharing'
  <2>1. /\ codec.pc = "decode" /\ codec.buffer = None /\ decoder = "vpu"
        /\ f \notin display_handle /\ display_handle' = display_handle \cup {f}
        /\ UNCHANGED <<bufstate, free_pool, showcnt, v4llist, queue, driver, done, sink, events,
                       decoder, phase>>
        /\ \/ codec'.pc = "push" /\ codec'.buffer = f /\ refs' = [refs EXCEPT ![f] = @ + 1]
           \/ codec'.pc \in {"idle", "chain"} /\ codec'.buffer = None /\ refs' = refs
    BY <1>12, OutputDoes, Zenon DEF Base, device
  <2>2. phase # "null" /\ phase # "ready" /\ Shared /\ Based
    BY <2>1, Busy DEF Base, Sharing, Based
  <2>3. phase' # "null" /\ Steady
    BY <2>1, <2>2, SteadyRest
  <2>4. SinkStays /\ OutStays
    BY <2>1 DEF SinkStays, OutStays
  <2>5. \A b \in Buffers : /\ ~CodecDrops(b) /\ ~CodecDrops(b)' /\ ~AtCodec(b)
                           /\ (AtSink(b)' <=> AtSink(b)) /\ (InQueue(b)' <=> InQueue(b))
                           /\ (SinkDrops(b)' <=> SinkDrops(b)) /\ (Dropped(b)' <=> Dropped(b))
                           /\ Waits(b) /\ Begins(b) /\ Lists(b)
    BY <2>1, <2>4, ClaimsStill, SinkStill, OutStill, Numbers
       DEF CodecDrops, AtCodec, InQueue, Lists, Dropped
  <2>6. \A b \in Buffers : (Pooled(b)' <=> Pooled(b)) /\ bufstate'[b] = bufstate[b]
    BY <2>1, Zenon DEF Pooled
  <2>7. \A b \in Buffers : b # f => refs'[b] = refs[b] /\ Handle(b) /\ ~AtCodec(b)'
    <3>1. \A b \in Buffers : b # f => refs'[b] = refs[b]
      BY <2>1, ListsType DEF Base
    <3> QED
      BY <2>1, <3>1, Numbers DEF Handle, AtCodec
  <2>8. \A b \in Buffers : b # f => Still(b)
    BY <2>5, <2>6, <2>7, Zenon DEF Still, Kept, Held
  <2>9. Once'
    BY <2>1, <2>2, Zenon DEF Shared, Once
  <2>10. Sound(f) /\ ~Flies(f) /\ f \in display_handle'
    BY <2>1, <2>2 DEF Shared, Sound, Apart
  <2>11. /\ OneWay(f)' /\ ~InQueue(f)' /\ ~AtSink(f)' /\ (Flies(f)' <=> AtCodec(f)')
    BY <2>5, <2>10, Zenon DEF OneWay, Flies
  <2>12. /\ (FlushedVpu' <=> FlushedVpu) /\ (Based' <=> Based) /\ decoder' = decoder
         /\ (f \in Claimed' <=> f \in Claimed)
    BY <2>1, ClaimsStay, Zenon DEF FlushedVpu, Harmed, Based
  <2>13. Apart(f)'
    <3>1. ~FlushedVpu => f \notin Claimed
      BY <2>1, <2>2, <2>10, Zenon DEF Sound, Apart
    <3> QED
      BY <2>1, <2>10, <2>11, <2>12, <3>1 DEF Apart
  <2>14. Balanced(f)'
    <3>1. /\ phase # "ready" /\ phase' # "ready"
          /\ refs[f] = Number(Pooled(f)) + Number(Based) + Number(Flies(f))
                       + Number(f \in Claimed) + Number(Dropped(f)) /\ refs[f] >= 1
      BY <2>1, <2>2, <2>10, Zenon DEF Sound, Balanced
    <3>2. CASE AtCodec(f)'
      <4>1. refs'[f] = refs[f] + 1
        BY <2>1, <3>2, Numbers, ListsType DEF Base, AtCodec
      <4> QED
        BY <2>5, <2>6, <2>10, <2>11, <2>12, <3>1, <3>2, <4>1, ListsType
           DEF Balanced, Number, Base
    <3>3. CASE ~AtCodec(f)'
      <4>1. refs'[f] = refs[f]
        BY <2>1, <3>3, Zenon DEF AtCodec
      <4> QED
        BY <2>5, <2>6, <2>10, <2>11, <2>12, <3>1, <3>3, <4>1 DEF Balanced, Number
    <3> QED
      BY <3>2, <3>3
  <2>15. Idles(f)'
    <3>1. ~Pooled(f)
      BY <2>2, <2>10, Zenon DEF Sound, Idles
    <3> QED
      BY <2>1, <2>2, <2>6, <2>10, <3>1, Zenon DEF Sound, Idles
  <2>16. Shows(f)'
    <3>1. /\ showcnt'[f] = showcnt[f] /\ (Out(f)' => Out(f))
          /\ (AtSink(f) /\ sink.pc \in {"append", "queued"}
                => AtSink(f)' /\ sink'.pc = sink.pc)
          /\ (Harmed({"error"}) => Harmed({"error"})')
      BY <2>3, <2>5, Grows, Zenon DEF Lists, Waits, Steady
    <3> QED
      BY <2>6, <2>10, <2>12, <3>1, Zenon DEF Shows, Sound, Number
  <2>17. Sound(f)'
    BY <2>11, <2>13, <2>14, <2>15, <2>16 DEF Sound
  <2>18. Shared'
    BY <2>2, <2>3, <2>8, <2>9, <2>17, TouchShared
  <2> QED
    BY <2>3, <2>18 DEF Sharing
<1>13. CASE Interrupt
  <2>1. /\ phase = "run" /\ UNCHANGED <<Holdings, driver, done, sink, codec, vpuVars, decoder>>
        /\ phase' \in {"flush", "stop"} /\ events \subseteq events'
    BY <1>13, InterruptDoes DEF device, Accounts, Holdings
  <2>2. Steady
    BY <2>1 DEF Steady, Based
  <2>3. CodecStays /\ SinkStays /\ OutStays
    BY <2>1, Zenon DEF CodecStays, SinkStays, OutStays
  <2>4. UNCHANGED <<Holdings, display_handle>>
    BY <2>1, Zenon DEF vpuVars
  <2> QED
    BY <2>2, <2>3, <2>4, OutStill, SharingSame
<1>14. CASE Drain
  <2>1. /\ queue # <<>> /\ queue' = Tail(queue)
        /\ UNCHANGED <<showcnt, v4llist, driver, done, sink, codec, Rest>>
    BY <1>14, DrainDoes, Zenon DEF Base, device
  <2>2. phase \in {"run", "flush", "stop"} /\ Shared
    BY <2>1, Busy DEF Base, Sharing
  <2>3. phase' # "null" /\ Steady /\ display_handle' = display_handle
    BY <2>1, <2>2, SteadyRest DEF Rest, vpuVars
  <2>4. CodecStays /\ SinkStays /\ OutStays
    BY <2>1, Zenon DEF CodecStays, SinkStays, OutStays
  <2>5. \A b \in Buffers : /\ (SinkDrops(b)' <=> SinkDrops(b)) /\ (AtSink(b)' <=> AtSink(b))
                           /\ (CodecDrops(b)' <=> CodecDrops(b)) /\ (AtCodec(b)' <=> AtCodec(b))
                           /\ (Dropped(b)' <=> Dropped(b))
    BY <2>4, CodecStill, SinkStill, Zenon DEF Dropped
  <2>6. \A b \in Buffers : Lists(b) /\ Handle(b) /\ Waits(b) /\ Begins(b)
    BY <2>1, <2>3, <2>4, ClaimsStill, SinkStill, OutStill, Zenon DEF Lists, Handle
  <2>7. Single(queue') /\ (Head(queue) # SwBuffer => ~Has(queue', Head(queue)))
    BY <2>1, <2>2, ListsType, TailSingle DEF Base, Shared, Once
  <2>8. Head(queue) \in Buffers \cup {SwBuffer}
        /\ \A b : Has(queue, b) <=> b = Head(queue) \/ Has(queue', b)
    BY <2>1, ListsType, TailHas DEF Base
  <2>9. PICK x \in Buffers \cup {SwBuffer} : x = Head(queue)
    BY <2>8
  <2>10. Unref(x)
    BY <1>14, <2>9, Zenon DEF Drain
  <2>11. x \in Buffers => InQueue(x) /\ ~InQueue(x)'
    BY <2>7, <2>8, <2>9, Numbers DEF InQueue
  <2>12. \A b \in Buffers : b # x => (InQueue(b)' <=> InQueue(b))
    BY <2>8, <2>9, Zenon DEF InQueue
  <2>13. x \in Buffers => Loosens(x)
    BY <2>2, <2>5, <2>11, Zenon DEF Loosens, Flies, Shared, Sound, OneWay
  <2>14. \A b \in Buffers : b # x => Held(b)
    BY <2>5, <2>12, Zenon DEF Held
  <2>15. Shared'
    BY <2>2, <2>3, <2>6, <2>7, <2>10, <2>13, <2>14, UnrefShared
  <2> QED
    BY <2>3, <2>15 DEF Sharing
<1>15. CASE FlushStop
  <2>1. /\ phase = "flush" /\ phase' = "run"
        /\ codec.pc = "idle" /\ sink.pc = "idle" /\ queue = <<>>
        /\ UNCHANGED <<Holdings, driver, done, sink, codec, events, decoder>>
    BY <1>15, FlushStopDoes, Zenon DEF device, Accounts, Holdings
  <2>2. Steady /\ CodecStays /\ SinkStays /\ OutStays
    <3>1. Based' <=> Based
      BY <2>1 DEF Based
    <3> QED
      BY <2>1, <3>1 DEF Steady, CodecStays, SinkStays, OutStays
  <2>3. CASE decoder = "copy"
    <3>1. display_handle' = display_handle
      BY <1>15, <2>3 DEF FlushStop, vpuVars
    <3> QED
      BY <2>1, <2>2, <3>1, OutStill, SharingSame
  <2>4. CASE decoder = "vpu"
    <3>1. Shared /\ phase' # "null"
      BY <2>1 DEF Sharing
    <3>2. FlushedVpu /\ FlushedVpu'
      BY <2>1, <2>4 DEF Begun, FlushedVpu, Harmed
    <3>3. \A b \in Buffers : /\ ~AtCodec(b) /\ ~InQueue(b) /\ ~AtSink(b)
                             /\ ~AtCodec(b)' /\ ~InQueue(b)' /\ ~AtSink(b)'
      <4>1. codec.buffer = None /\ sink.buffer = None
        BY <2>1, CodecHolds, SinkHolds DEF Base
      <4>2. /\ codec'.buffer = None /\ sink'.buffer = None /\ queue' = queue
            /\ \A b : ~Has(queue, b)
        BY <2>1, <4>1, EmptyHas, Zenon DEF Holdings
      <4> QED
        BY <4>1, <4>2, Numbers DEF AtCodec, AtSink, InQueue
    <3>4. ASSUME NEW b \in Buffers PROVE Sound(b)'
      <4>1. Sound(b) /\ Kept(b) /\ Lists(b) /\ Waits(b) /\ (Dropped(b)' <=> Dropped(b))
        <5>1. Kept(b) /\ Lists(b)
          BY <2>1, <2>2, ClaimsStill, OutStill, Zenon
             DEF Kept, Lists, Pooled, Holdings, buffers
        <5> QED
          BY <2>2, <3>1, <5>1, CodecStill, SinkStill, Zenon DEF Shared, Dropped
      <4>2. ~Flies(b) /\ ~Flies(b)' /\ ~CodecDrops(b)' /\ ~SinkDrops(b)'
        BY <2>1, <3>3 DEF Flies, CodecDrops, SinkDrops
      <4>3. Balanced(b)' /\ Idles(b)' /\ Shows(b)'
        BY <2>2, <4>1, <4>2, Passing
      <4>4. OneWay(b)' /\ Apart(b)'
        BY <3>2, <3>3, <4>2, Zenon DEF OneWay, Apart, Dropped
      <4> QED
        BY <4>3, <4>4 DEF Sound
    <3>5. Shared'
      BY <2>1, <3>1, <3>4, Zenon DEF Shared, Once, Holdings, buffers
    <3> QED
      BY <3>1, <3>5 DEF Sharing
  <2> QED
    BY <2>3, <2>4, RenderingAssumption DEF Base, Typed, Modes
<1>16. CASE DecoderToReady
  <2>1. /\ phase = "stop" /\ phase' = "ready"
        /\ codec.pc = "idle" /\ sink.pc = "idle" /\ queue = <<>>
        /\ UNCHANGED <<showcnt, v4llist, queue, driver, done, sink, codec, events, decoder>>
    BY <1>16, DecoderToReadyDoes, Zenon DEF device
  <2>2. /\ Shared /\ phase # "ready" /\ phase' # "null" /\ phase' # "run" /\ ~Based'
        /\ (Based <=> decoder = "vpu")
        /\ (FlushedVpu' <=> FlushedVpu) /\ (Harmed({"error"})' <=> Harmed({"error"}))
    BY <2>1 DEF Sharing, Based, FlushedVpu, Harmed
  <2>3. \A b \in Buffers :
          /\ ~Flies(b) /\ ~Dropped(b) /\ ~Flies(b)' /\ ~Dropped(b)' /\ OneWay(b)'
          /\ (Out(b)' <=> Out(b)) /\ showcnt'[b] = showcnt[b]
          /\ (b \in Claimed' <=> b \in Claimed)
          /\ (Out(b) => b \in Claimed)
    <3>1. \A b \in Buffers : Out(b)' <=> Out(b)
      BY <2>1, Zenon DEF Out, Pending
    <3>2. /\ \A b \in Buffers : Out(b) => b \in Claimed
          /\ Claimed' = Claimed
      BY <2>1, ClaimsStay DEF Base, Listing, Listed, Awake, Claimed
    <3>3. Quiet /\ Quiet'
      <4>1. AtRest /\ AtRest'
        BY <2>1 DEF AtRest
      <4> QED
        BY <4>1, RestHolds, RestHoldsNext DEF Base
    <3> QED
      BY <2>1, <3>1, <3>2, <3>3, Zenon DEF Quiet
  <2>4. \A b \in Buffers : Sound(b) /\ refs[b] \in Int
    BY <2>2, ListsType DEF Shared, Base
  <2>5. sink.pc \notin {"append", "queued"} /\ sink'.pc \notin {"append", "queued"}
    BY <2>1
  <2>6. ASSUME NEW b \in Buffers PROVE Apart(b)'
    <3>1. ~(AtCodec(b)') /\ ~(InQueue(b)') /\ ~(AtSink(b)') /\ ~(Flies(b)') /\ ~(Dropped(b)')
      BY <2>3, Zenon DEF Flies
    <3> QED
      BY <2>2, <3>1, Zenon DEF Apart
  <2>7. CASE decoder # "vpu"
    <3>1. bufstate' = bufstate /\ refs' = refs /\ free_pool' = free_pool
      BY <1>16, <2>7, DecoderToReadyDoes, Zenon DEF buffers
    <3>2. Once'
      BY <2>1, <2>2, <3>1, Zenon DEF Shared, Once
    <3>3. ~Based /\ ~FlushedVpu /\ ~FlushedVpu'
      BY <2>2, <2>7, Zenon DEF FlushedVpu
    <3>4. ASSUME NEW b \in Buffers PROVE Sound(b)'
      <4>1. /\ refs'[b] = refs[b] /\ bufstate'[b] = bufstate[b] /\ (Pooled(b)' <=> Pooled(b))
        BY <3>1, Zenon DEF Pooled
      <4>2. Balanced(b)'
        <5>1. refs[b] >= 1 /\ refs[b] = Number(Pooled(b)) + Number(b \in Claimed)
          BY <2>2, <2>3, <2>4, <3>3 DEF Sound, Balanced, Number
        <5>2. Pooled(b) => b \notin Claimed
          BY <2>4, Zenon DEF Sound, Idles
        <5>3. refs[b] = 1
          BY <5>1, <5>2 DEF Number
        <5> QED
          BY <2>2, <2>3, <4>1, <5>1, <5>3 DEF Balanced, Number
      <4>3. Shows(b)'
        BY <2>2, <2>3, <2>4, <2>5, <3>3, <4>1, Zenon DEF Sound, Shows, Number
      <4>4. Idles(b)'
        <5>1. bufstate[b] \in {"IDLE", "SHOWING"} \/ Harmed({"error"})
          <6>1. CASE Pooled(b)
            BY <2>4, <6>1 DEF Sound, Idles
          <6>2. CASE ~Pooled(b)
            <7>1. b \in Claimed
              BY <2>2, <2>3, <2>4, <3>3, <6>2 DEF Sound, Balanced, Number
            <7> QED
              BY <2>4, <2>5, <7>1 DEF Sound, Shows
          <6> QED
            BY <6>1, <6>2
        <5> QED
          BY <2>2, <2>3, <2>4, <4>1, <5>1 DEF Sound, Idles
      <4> QED
        BY <2>3, <2>6, <4>2, <4>3, <4>4 DEF Sound
    <3> QED
      BY <2>2, <3>2, <3>4 DEF Sharing, Shared
  <2>8. CASE decoder = "vpu"
    <3> DEFINE released == {f \in Registered :
                              refs[f] = 1 /\ bufstate[f] \in {"ALLOCATED", "SHOWED"}}
    <3>1. PICK R : R = released
      OBVIOUS
    <3>2. /\ bufstate' = [f \in Buffers |-> IF f \in R THEN "IDLE" ELSE bufstate[f]]
          /\ refs' = [f \in Buffers |-> IF refs[f] = 1 THEN 1 ELSE refs[f] - 1]
          /\ free_pool' = free_pool \o Ascending(R)
      BY <1>16, <2>8, <3>1, DecoderToReadyDoes, Zenon DEF FreeFrames
    <3>3. /\ R \in SUBSET Buffers
          /\ \A b \in Buffers :
               b \in R <=> refs[b] = 1 /\ bufstate[b] \in {"ALLOCATED", "SHOWED"}
      BY <3>1 DEF Registered
    <3> HIDE DEF released
    <3>4. \A b \in Buffers : ~Pooled(b)
      BY <2>2, <2>4, <2>8, Zenon DEF Sound, Idles
    <3>5. free_pool = <<>>
      <4>1. free_pool \in Seq(Buffers)
        BY ListsType DEF Base
      <4>2. CASE free_pool # <<>>
        <5>1. Head(free_pool) \in Buffers /\ Has(free_pool, Head(free_pool))
          BY <4>1, <4>2, TailHas
        <5> QED
          BY <3>4, <5>1, Zenon DEF Pooled
      <4> QED
        BY <4>2
    <3>6. /\ Ascending(R) \in Seq(Buffers) /\ Distinct(Ascending(R))
          /\ \A b : Has(Ascending(R), b) <=> b \in R
      BY <3>3, AscendingLists
    <3>7. free_pool' = Ascending(R)
      <4>1. PICK a \in Seq(Buffers) : a = Ascending(R)
        BY <3>6
      <4> QED
        BY <3>2, <3>5, <4>1
    <3>8. Once' /\ \A b \in Buffers : Pooled(b)' <=> b \in R
      BY <2>1, <2>2, <3>6, <3>7, Zenon DEF Shared, Once, Pooled
    <3>9. ASSUME NEW b \in Buffers PROVE Sound(b)'
      <4>1. refs[b] = 1 + Number(b \in Claimed)
        BY <2>2, <2>3, <2>4, <2>8, <3>4 DEF Sound, Balanced, Number
      <4>2. refs'[b] = 1
        BY <2>4, <3>2, <4>1 DEF Number
      <4>3. bufstate'[b] = IF b \in R THEN "IDLE" ELSE bufstate[b]
        BY <3>2
      <4>4. b \in R <=> b \notin Claimed /\ bufstate[b] # "SHOWING"
        <5>1. b \notin Claimed <=> refs[b] = 1
          BY <4>1 DEF Number
        <5>2. bufstate[b] \in {"ALLOCATED", "SHOWED"} <=> bufstate[b] # "SHOWING"
          BY <2>4, <3>4 DEF Sound, Idles
        <5> QED
          BY <3>3, <5>1, <5>2, Zenon
      <4>5. bufstate'[b] = "SHOWING" <=> bufstate[b] = "SHOWING"
        BY <4>3, <4>4
      <4>6. Shows(b)'
        BY <2>2, <2>3, <2>4, <2>5, <4>5, Zenon DEF Sound, Shows, Number
      <4>7. Idles(b)'
        <5>1. /\ bufstate'[b] \in {"ALLOCATED", "SHOWED", "SHOWING", "IDLE"}
              /\ bufstate'[b] = "IDLE" <=> b \in R
          BY <2>4, <3>4, <4>3 DEF Sound, Idles
        <5>2. b \in R => showcnt[b] = 0
          BY <2>4, <4>4, Zenon DEF Sound, Shows
        <5>3. b \notin R => bufstate[b] = "SHOWING" \/ Harmed({"error"})
          BY <2>4, <2>5, <4>4, Zenon DEF Sound, Shows
        <5>4. bufstate'[b] \in {"IDLE", "SHOWING"} \/ Harmed({"error"})'
          BY <2>2, <4>3, <5>3
        <5> QED
          BY <2>2, <2>3, <3>8, <4>4, <5>1, <5>2, <5>4, Zenon DEF Idles
      <4>8. Balanced(b)'
        <5>1. ~FlushedVpu => (b \in R <=> b \notin Claimed)
          BY <2>4, <4>4 DEF Sound, Shows, Number
        <5> QED
          BY <2>1, <2>2, <2>3, <3>8, <4>2, <5>1 DEF Balanced, Number
      <4> QED
        BY <2>3, <2>6, <4>6, <4>7, <4>8 DEF Sound
    <3> QED
      BY <2>2, <3>8, <3>9 DEF Sharing, Shared
  <2> QED
    BY <2>7, <2>8
<1>17. CASE SinkToNull
  <2>1. /\ phase = "ready" /\ phase' = "null" /\ free_pool' = <<>>
        /\ UNCHANGED <<showcnt, events>>
    BY <1>17, SinkToNullDoes, Zenon
  <2>2. Shared
    BY <2>1 DEF Sharing
  <2> DEFINE mine == {b \in Buffers : bufstate[b] \in {"IDLE", "SHOWING"}}
  <2>3. PICK own : own = mine
    OBVIOUS
  <2>4. /\ bufstate' = [b \in Buffers |->
                          IF bufstate[b] = "NONE" \/ (b \in own /\ refs[b] = 1)
                          THEN "NONE" ELSE "FREE"]
        /\ refs' = [b \in Buffers |-> refs[b] - IF b \in own THEN 1 ELSE 0]
    BY <1>17, <2>3, Zenon DEF SinkToNull, Close
  <2>5. \A b \in Buffers : b \in own <=> bufstate[b] \in {"IDLE", "SHOWING"}
    BY <2>3
  <2> HIDE DEF mine
  <2>6. ASSUME NEW b \in Buffers
        PROVE  /\ bufstate'[b] \in {"FREE", "NONE"} /\ refs'[b] \in {0, 1}
               /\ showcnt'[b] \in 0 .. MaxShow
               /\ ~Harmed({"error"})' => bufstate'[b] = "NONE"
    <3>1. Sound(b) /\ refs[b] = 1
      BY <2>1, <2>2 DEF Shared, Sound, Balanced
    <3>2. b \in own \/ Harmed({"error"})
      BY <2>1, <2>5, <3>1 DEF Sound, Idles
    <3>3. bufstate'[b] \in {"FREE", "NONE"} /\ (b \in own => bufstate'[b] = "NONE")
      BY <2>4, <3>1
    <3>4. refs'[b] \in {0, 1}
      BY <2>4, <3>1
    <3>5. showcnt'[b] \in 0 .. MaxShow
      BY <2>1, <3>1, V4lSinkAssumption DEF Sound, Shows, Number
    <3>6. ~Harmed({"error"})' => ~Harmed({"error"})
      BY <2>1, Zenon DEF Harmed
    <3> QED
      BY <3>2, <3>3, <3>4, <3>5, <3>6
  <2>7. Nulled'
    BY <2>1, <2>6 DEF Nulled, AllFreed
  <2> QED
    BY <2>1, <2>7 DEF Sharing
<1>18. CASE Restart
  <2>1. /\ phase = "null" /\ phase' = "run" /\ decoder' = decoder
        /\ bufstate' = Handed(HandedOut(decoder)) /\ free_pool' = Free(HandedOut(decoder))
        /\ showcnt' = [b \in Buffers |-> 0] /\ refs' = [b \in Buffers |-> 1]
        /\ driver' = <<>> /\ done' = <<>>
        /\ UNCHANGED <<v4llist, queue, sink, codec>>
    BY <1>18, RestartDoes, Zenon
  <2>2. v4llist' = {} /\ codec.pc = "idle" /\ sink.pc = "idle" /\ queue = <<>>
    <3>1. v4llist = {}
      BY <2>1, Zenon DEF Base, Listing
    <3>2. codec.pc = "idle" /\ sink.pc = "idle" /\ queue = <<>>
      BY <2>1 DEF Base, Typed, Resting
    <3> QED
      BY <2>1, <3>1, <3>2, Zenon
  <2>3. AtRest'
    BY <2>1, <2>2, Zenon DEF AtRest
  <2>4. Afresh'
    BY <2>1, <2>2, <2>3, Zenon DEF Afresh
  <2>5. phase' # "null" /\ Shared'
    BY <2>1, <2>4, AfreshNext DEF Base
  <2> QED
    BY <2>5 DEF Sharing
<1>19. CASE Complete /\ Frame
  <2>1. /\ Len(driver) > 1 /\ driver' = Tail(driver) /\ done' = Append(done, Head(driver))
        /\ UNCHANGED <<Holdings, sink, codec, Rest>>
    BY <1>19, CompleteDoes, Zenon DEF Accounts, Holdings
  <2>2. Head(driver) \in Buffers /\ \A b : Has(driver, b) <=> b = Head(driver) \/ Has(driver', b)
    <3>1. driver # <<>>
      BY <2>1
    <3> QED
      BY <2>1, <3>1, ListsType, TailHas DEF Base
  <2>3. \A b : Has(done', b) <=> b = Head(driver) \/ Has(done, b)
    BY <2>1, <2>2, ListsType, AppendHas DEF Base
  <2>4. \A b : Out(b)' => Out(b)
    BY <2>1, <2>2, <2>3, Zenon DEF Out, Pending
  <2>5. CodecStays /\ SinkStays
    BY <2>1, Zenon DEF CodecStays, SinkStays
  <2>6. Steady /\ UNCHANGED <<Holdings, display_handle>>
    BY <2>1, SteadyRest DEF Rest, vpuVars
  <2> QED
    BY <2>4, <2>5, <2>6, SharingSame
<1>20. CASE Render /\ Frame
  <2>1. /\ sink.pc = "idle" /\ sink.buffer = None /\ queue # <<>> /\ queue' = Tail(queue)
        /\ sink'.pc = "show" /\ sink'.buffer = Head(queue)
        /\ UNCHANGED <<buffers, showcnt, v4llist, driver, done, codec, Rest>>
    BY <1>20, RenderDoes, Zenon DEF Base, device
  <2>2. phase # "null" /\ phase # "ready" /\ Shared
    BY <2>1, Busy DEF Base, Sharing
  <2>3. phase' # "null" /\ Steady /\ display_handle' = display_handle
    BY <2>1, <2>2, SteadyRest DEF Rest, vpuVars
  <2>4. CodecStays /\ OutStays
    BY <2>1, Zenon DEF CodecStays, OutStays
  <2>5. \A b \in Buffers : /\ ~SinkDrops(b) /\ ~SinkDrops(b)' /\ ~AtSink(b) /\ Waits(b)
                           /\ (AtCodec(b)' <=> AtCodec(b)) /\ (CodecDrops(b)' <=> CodecDrops(b))
                           /\ (Dropped(b)' <=> Dropped(b)) /\ Handle(b) /\ Lists(b)
    BY <2>1, <2>3, <2>4, CodecStill, OutStill, Numbers
       DEF SinkDrops, AtSink, Waits, Handle, Lists, Dropped, Claimed
  <2>6. \A b \in Buffers : Kept(b)
    BY <2>1, Zenon DEF Kept, Pooled, buffers
  <2>7. Single(queue') /\ (Head(queue) # SwBuffer => ~Has(queue', Head(queue)))
    BY <2>1, <2>2, ListsType, TailSingle DEF Base, Shared, Once
  <2>8. Head(queue) \in Buffers \cup {SwBuffer}
        /\ \A b : Has(queue, b) <=> b = Head(queue) \/ Has(queue', b)
    BY <2>1, ListsType, TailHas DEF Base
  <2>9. PICK x \in Buffers \cup {SwBuffer} : x = Head(queue)
    BY <2>8
  <2>10. \A b \in Buffers : AtSink(b)' <=> b = x
    BY <2>1, <2>9, Zenon DEF AtSink
  <2>11. \A b \in Buffers : b # x => Still(b)
    BY <2>5, <2>6, <2>8, <2>9, <2>10, Zenon DEF Still, Held, InQueue, Begins
  <2>12. Once'
    BY <2>1, <2>2, <2>7, Zenon DEF Shared, Once, buffers
  <2>13. CASE x = SwBuffer
    <3>1. Shared'
      BY <2>2, <2>3, <2>11, <2>12, <2>13, Numbers, StillShared
    <3> QED
      BY <2>3, <3>1 DEF Sharing
  <2>14. CASE x \in Buffers
    <3>1. Sound(x) /\ InQueue(x) /\ ~InQueue(x)' /\ AtSink(x)'
      BY <2>2, <2>7, <2>8, <2>9, <2>10, <2>14, Numbers DEF Shared, InQueue
    <3>2. ~AtCodec(x) /\ ~AtCodec(x)' /\ Flies(x) /\ Flies(x)'
      BY <2>5, <2>14, <3>1, Zenon DEF Sound, OneWay, Flies
    <3>3. Balanced(x)' /\ Idles(x)' /\ Shows(x)'
      BY <2>3, <2>5, <2>6, <2>14, <3>1, <3>2, Passing
    <3>4. OneWay(x)'
      BY <2>5, <2>14, <3>1, <3>2, Zenon DEF OneWay
    <3>5. Apart(x)'
      <4>1. /\ FlushedVpu => FlushedVpu'
            /\ (Based' <=> Based) /\ decoder' = decoder
            /\ (x \in Claimed' <=> x \in Claimed)
            /\ x \in display_handle' <=> x \in display_handle
        BY <2>3, <2>5, <2>14, Grows, Zenon DEF Steady, FlushedVpu, Lists, Handle
      <4> QED
        BY <2>5, <2>14, <3>1, <3>2, <4>1, Zenon DEF Sound, Apart
    <3>6. Sound(x)'
      BY <3>3, <3>4, <3>5 DEF Sound
    <3>7. Shared'
      BY <2>2, <2>3, <2>11, <2>12, <2>14, <3>6, TouchShared
    <3> QED
      BY <2>3, <3>7 DEF Sharing
  <2> QED
    BY <2>13, <2>14
<1>21. CASE Cleared /\ Frame
  BY <1>21, SinkHolds DEF Cleared, Base
<1>22. ASSUME NEW b \in Buffers, ClearShowing(b), Frame PROVE Sharing'
  BY <1>22, ClearShowingDoes DEF Base
<1>23. CASE ShowSoftware /\ Frame
  <2>1. SinkAside /\ UNCHANGED <<Holdings, driver, done, codec, vpuVars, decoder, phase, events>>
    BY <1>23, ShowSoftwareDoes, Zenon DEF Base, device, Rest, Accounts, Holdings
  <2> QED
    BY <2>1, Asides, SinkAsideShares
<1>24. CASE ShowAgain /\ Frame
  <2>1. /\ SinkAside /\ sink.pc = "show" /\ sink.buffer \in v4llist
        /\ showcnt[sink.buffer] < MaxShow
        /\ showcnt' = [showcnt EXCEPT ![sink.buffer] = @ + 1]
        /\ UNCHANGED <<buffers, v4llist, queue, driver, done, codec, Rest>>
    BY <1>24, ShowAgainDoes, Zenon DEF Base, device
  <2>2. phase # "null" /\ phase # "ready" /\ Shared
    BY <2>1, Busy DEF Base, Sharing
  <2>3. phase' # "null" /\ Steady /\ display_handle' = display_handle
    BY <2>1, <2>2, SteadyRest DEF Rest, vpuVars
  <2>4. CodecStays /\ SinkStays /\ OutStays
    BY <2>1, Asides, Zenon DEF CodecStays, OutStays
  <2>5. PICK x \in Buffers : x = sink.buffer
    BY <2>1, ListsType DEF Base
  <2>6. \A b \in Buffers : Kept(b) /\ Handle(b) /\ Held(b) /\ Waits(b) /\ Begins(b)
    <3>1. \A b \in Buffers : Kept(b) /\ Handle(b) /\ (InQueue(b)' <=> InQueue(b))
      BY <2>1, <2>3, Zenon DEF Kept, Handle, Pooled, InQueue, buffers
    <3> QED
      BY <2>4, <3>1, CodecStill, SinkStill, Zenon DEF Held
  <2>7. /\ showcnt'[x] = showcnt[x] + 1
        /\ \A b \in Buffers : b # x => showcnt'[b] = showcnt[b]
    BY <2>1, <2>5, ListsType DEF Base
  <2>8. \A b \in Buffers : (Out(b)' => Out(b)) /\ (b \in Claimed' <=> b \in Claimed)
    BY <2>1, <2>4, ClaimsStill, OutStill, Zenon
  <2>9. \A b \in Buffers : b # x => Still(b)
    BY <2>6, <2>7, <2>8, Zenon DEF Still, Lists
  <2>10. Once'
    BY <2>1, <2>2, Zenon DEF Shared, Once, buffers
  <2>11. Sound(x) /\ AtSink(x) /\ x \in Claimed /\ FlushedVpu /\ FlushedVpu'
    <3>1. Sound(x) /\ AtSink(x) /\ x \in Claimed
      BY <2>1, <2>2, <2>5 DEF Shared, AtSink, Claimed
    <3>2. FlushedVpu
      BY <2>1, <3>1, Zenon DEF Sound, Apart
    <3> QED
      BY <2>3, <3>1, <3>2, Grows DEF Steady, FlushedVpu
  <2>12. /\ (AtCodec(x)' <=> AtCodec(x)) /\ (InQueue(x)' <=> InQueue(x)) /\ AtSink(x)'
         /\ (CodecDrops(x)' <=> CodecDrops(x)) /\ (SinkDrops(x)' <=> SinkDrops(x))
         /\ refs'[x] = refs[x] /\ bufstate'[x] = bufstate[x] /\ (Pooled(x)' <=> Pooled(x))
         /\ x \in display_handle' <=> x \in display_handle
    BY <2>6, <2>11, Zenon DEF Held, Kept, Handle
  <2>13. /\ Flies(x) /\ Flies(x)' /\ (Dropped(x)' <=> Dropped(x)) /\ ~Pooled(x)
    BY <2>11, <2>12, Zenon DEF Flies, Dropped, Sound, Idles
  <2>14. /\ (Based' <=> Based) /\ phase' # "ready" /\ decoder' = decoder /\ decoder = "vpu"
         /\ (Harmed({"error"}) => Harmed({"error"})')
    BY <2>2, <2>3, <2>11, Grows, Zenon DEF Steady, FlushedVpu
  <2>15. OneWay(x)' /\ Apart(x)'
    BY <2>8, <2>11, <2>12, <2>13, <2>14 DEF Sound, OneWay, Apart
  <2>16. Balanced(x)'
    BY <2>2, <2>8, <2>11, <2>12, <2>13, <2>14, Zenon DEF Sound, Balanced, Number
  <2>17. Idles(x)'
    BY <2>11, <2>12, <2>13, <2>14, Zenon DEF Sound, Idles
  <2>18. Shows(x)'
    <3>1. showcnt[x] \in 1 .. MaxShow /\ showcnt[x] < MaxShow
      BY <2>1, <2>5, <2>11 DEF Sound, Shows, Number
    <3>2. showcnt'[x] \in 1 .. MaxShow
      BY <2>7, <3>1, V4lSinkAssumption
    <3>3. /\ x \in Claimed' /\ (bufstate[x] # "SHOWING" => Harmed({"error"}))
          /\ (bufstate[x] # "SHOWING" => ~Out(x))
      BY <2>1, <2>8, <2>11, Zenon DEF Sound, Shows
    <3> QED
      BY <2>8, <2>11, <2>12, <2>14, <3>2, <3>3 DEF Shows, Number
  <2>19. Sound(x)'
    BY <2>15, <2>16, <2>17, <2>18 DEF Sound
  <2>20. Shared'
    BY <2>2, <2>3, <2>9, <2>10, <2>19, TouchShared
  <2> QED
    BY <2>3, <2>20 DEF Sharing
<1>25. CASE Queue /\ Frame
  <2>1. /\ sink.pc = "append" /\ sink.buffer \in Buffers
        /\ sink'.pc = "queued" /\ sink'.buffer = sink.buffer
        /\ AppendIndex /\ events' = RacesAlong(sink) /\ events \subseteq events'
        /\ driver' = Append(driver, sink.buffer)
        /\ UNCHANGED <<buffers, showcnt, queue, done, codec, vpuVars, decoder, phase>>
    BY <1>25, QueueDoes, Zenon DEF Base
  <2>2. phase # "null" /\ phase # "ready" /\ Shared
    BY <2>1, Busy DEF Base, Sharing
  <2>3. phase' # "null" /\ Steady /\ display_handle' = display_handle
    BY <2>1, <2>2, SteadyRest DEF vpuVars
  <2>4. PICK x \in Buffers : x = sink.buffer
    BY <2>1
  <2>5. \A b : Has(driver', b) <=> b = x \/ Has(driver, b)
    BY <2>1, <2>4, ListsType, AppendHas DEF Base
  <2>6. \A b \in Buffers : b # x => (Out(b)' => Out(b))
    BY <2>1, <2>5, Zenon DEF Out, Pending
  <2>7. CodecStays
    BY <2>1, Zenon DEF CodecStays
  <2>8. \A b \in Buffers : /\ ~SinkDrops(b) /\ ~SinkDrops(b)' /\ (AtCodec(b)' <=> AtCodec(b))
                           /\ (AtSink(b)' <=> b = x) /\ (AtSink(b) <=> b = x)
                           /\ (InQueue(b)' <=> InQueue(b)) /\ Kept(b)
                           /\ (CodecDrops(b)' <=> CodecDrops(b)) /\ Begins(b) /\ Handle(b)
    BY <2>1, <2>3, <2>4, <2>7, CodecStill
       DEF SinkDrops, AtSink, InQueue, Pooled, Handle, Begins, Kept, buffers
  <2>9. Claimed' = Claimed /\ x \in Claimed
    <3>1. v4llist' = v4llist \cup {sink.buffer}
      BY <2>1, Appends DEF Base, Awake
    <3> QED
      BY <2>1, <2>4, <3>1 DEF Claimed
  <2>10. \A b \in Buffers : b # x => Still(b)
    BY <2>1, <2>6, <2>8, <2>9, Zenon DEF Still, Lists, Held, Waits
  <2>11. Once'
    BY <2>1, <2>2, Zenon DEF Shared, Once, buffers
  <2>12. Sound(x)'
    BY <2>1, <2>2, <2>3, <2>8, <2>9, AppendedSound DEF Shared, Kept
  <2>13. Shared'
    BY <2>2, <2>3, <2>10, <2>11, <2>12, TouchShared
  <2> QED
    BY <2>3, <2>13 DEF Sharing
<1>26. CASE Showing /\ Frame
  <2>1. /\ sink.pc = "queued" /\ sink.buffer \in Buffers
        /\ sink'.pc = "count" /\ sink'.buffer = sink.buffer
        /\ bufstate' = [bufstate EXCEPT ![sink.buffer] = "SHOWING"]
        /\ UNCHANGED <<refs, free_pool, showcnt, v4llist, queue, driver, done, codec, Rest>>
    BY <1>26, ShowingDoes, Zenon DEF Base, device
  <2>2. phase # "null" /\ phase # "ready" /\ Shared
    BY <2>1, Busy DEF Base, Sharing
  <2>3. phase' # "null" /\ Steady /\ display_handle' = display_handle
    BY <2>1, <2>2, SteadyRest DEF Rest, vpuVars
  <2>4. CodecStays /\ OutStays
    BY <2>1, Zenon DEF CodecStays, OutStays
  <2>5. PICK x \in Buffers : x = sink.buffer
    BY <2>1
  <2>6. \A b \in Buffers : /\ ~SinkDrops(b) /\ ~SinkDrops(b)' /\ (AtCodec(b)' <=> AtCodec(b))
                           /\ (AtSink(b)' <=> b = x) /\ (AtSink(b) <=> b = x)
                           /\ (InQueue(b)' <=> InQueue(b)) /\ (Pooled(b)' <=> Pooled(b))
                           /\ (CodecDrops(b)' <=> CodecDrops(b)) /\ Begins(b)
                           /\ (Dropped(b)' <=> Dropped(b)) /\ Handle(b) /\ Lists(b)
    BY <2>1, <2>3, <2>4, <2>5, CodecStill, OutStill, ClaimsStay
       DEF SinkDrops, AtSink, InQueue, Pooled, Handle, Begins, Lists, Dropped
  <2>7. /\ bufstate'[x] = "SHOWING" /\ refs'[x] = refs[x] /\ showcnt'[x] = showcnt[x]
        /\ \A b \in Buffers : b # x => bufstate'[b] = bufstate[b]
    BY <2>1, <2>5, ListsType DEF Base
  <2>8. \A b \in Buffers : b # x => Still(b)
    BY <2>1, <2>6, <2>7, Zenon DEF Still, Kept, Held, Waits
  <2>9. Once'
    BY <2>1, <2>2, Zenon DEF Shared, Once
  <2>10. x \in Claimed
    <3>1. Len(driver) > 0 /\ driver[Len(driver)] = x /\ Len(driver) \in Nat
      BY <2>1, <2>2, <2>5, ListsType DEF Base, Listing, Listed, Awake
    <3>2. Out(x)
      BY <3>1 DEF Out, Has
    <3> QED
      BY <2>2, <3>2, Zenon DEF Base, Listing, Listed, Awake, Claimed
  <2>11. /\ Sound(x) /\ (Flies(x)' <=> Flies(x)) /\ Flies(x) /\ ~Pooled(x) /\ x \in Claimed'
    BY <2>1, <2>2, <2>6, <2>10, Zenon DEF Shared, Sound, Idles, Flies, Lists
  <2>12. /\ (Based' <=> Based) /\ phase' # "ready" /\ decoder' = decoder
         /\ (FlushedVpu => FlushedVpu')
         /\ x \in display_handle' <=> x \in display_handle
    BY <2>2, <2>3, Grows, Zenon DEF Steady, FlushedVpu
  <2>13. OneWay(x)' /\ Apart(x)'
    BY <2>1, <2>6, <2>10, <2>11, <2>12, Zenon DEF Sound, OneWay, Apart
  <2>14. Balanced(x)'
    BY <2>2, <2>6, <2>7, <2>10, <2>11, <2>12, Zenon DEF Sound, Balanced, Number
  <2>15. Idles(x)'
    BY <2>6, <2>7, <2>11, <2>12 DEF Idles
  <2>16. Shows(x)'
    <3>1. showcnt[x] \in 1 .. MaxShow /\ (~FlushedVpu => showcnt[x] = 1)
      BY <2>10, <2>11 DEF Sound, Shows, Number
    <3> QED
      BY <2>7, <2>11, <2>12, <3>1 DEF Shows, Number
  <2>17. Sound(x)'
    BY <2>13, <2>14, <2>15, <2>16 DEF Sound
  <2>18. Shared'
    BY <2>2, <2>3, <2>8, <2>9, <2>17, TouchShared
  <2> QED
    BY <2>3, <2>18 DEF Sharing
<1>27. CASE Count /\ Frame
  <2>1. /\ sink.pc = "count" /\ sink'.pc = "trydq" /\ sink'.buffer = sink.buffer
        /\ events \subseteq events'
        /\ UNCHANGED <<Holdings, driver, done, codec, vpuVars, decoder, phase>>
    BY <1>27, CountDoes, Zenon DEF Base, Holdings
  <2>2. SinkStays
    BY <2>1 DEF SinkStays
  <2> QED
    BY <2>1, <2>2, SinkAsideShares
<1>28. CASE TryDequeue /\ Frame
  <2>1. SinkAside /\ UNCHANGED <<Holdings, driver, done, codec, vpuVars, decoder, phase, events>>
    BY <1>28, TryDequeueDoes, Zenon DEF Base, device, Rest, Accounts, Holdings
  <2> QED
    BY <2>1, Asides, SinkAsideShares
<1>29. CASE SinkDequeue /\ Frame
  <2>1. /\ sink.pc \in {"dq", "dq once"} /\ done # <<>> /\ done' = Tail(done)
        /\ sink'.pc = "drop" /\ sink'.buffer = sink.buffer
        /\ UNCHANGED <<refs, free_pool, queue, driver, codec, Rest>>
    BY <1>29, SinkDequeueDoes, Zenon DEF Base
  <2>2. phase # "null" /\ phase # "ready" /\ Shared
    BY <2>1, Busy DEF Base, Sharing
  <2>3. phase' # "null" /\ Steady /\ display_handle' = display_handle
    BY <2>1, <2>2, SteadyRest DEF Rest, vpuVars
  <2>4. CodecStays
    BY <2>1, Zenon DEF CodecStays
  <2>5. \A b \in Buffers : /\ ~SinkDrops(b) /\ (AtCodec(b)' <=> AtCodec(b))
                           /\ (AtSink(b)' <=> AtSink(b)) /\ (InQueue(b)' <=> InQueue(b))
                           /\ (CodecDrops(b)' <=> CodecDrops(b)) /\ Waits(b) /\ Begins(b)
                           /\ Handle(b)
    BY <2>1, <2>3, <2>4, CodecStill
       DEF SinkDrops, AtSink, InQueue, Handle, Waits, Begins
  <2>6. Head(done) \in Buffers /\ \A b : Has(done, b) <=> b = Head(done) \/ Has(done', b)
    BY <2>1, ListsType, TailHas DEF Base
  <2>7. PICK x \in Buffers : x = Head(done)
    BY <2>6
  <2>8. Dequeued(x) /\ sink'.dequeued = Drops(x)
    BY <1>29, <2>7, SinkDequeueDoes, Zenon DEF Base
  <2>9. Out(x) /\ \A b : Out(b)' => Out(b)
    BY <2>1, <2>6, <2>7, Zenon DEF Out, Pending
  <2>10. ~(sink.pc = "queued" /\ AtSink(x))
    BY <2>1
  <2>11. /\ Sound(x) /\ x \in Claimed /\ x \notin Claimed' /\ Drops(x) = x
         /\ \A c \in Buffers : c # x => (c \in Claimed' <=> c \in Claimed)
         /\ \A c \in Buffers : c # x => showcnt'[c] = showcnt[c]
    <3>1. /\ Sound(x) /\ x \in v4llist /\ Drops(x) = x
          /\ \A c \in Buffers : c # x => showcnt'[c] = showcnt[c]
      BY <2>2, <2>8, <2>9, <2>10, DequeuedDoes DEF Shared
    <3>2. v4llist' = v4llist \ {x}
      BY <1>29, <2>7, SinkDequeueDoes, Zenon DEF Base
    <3> QED
      BY <2>1, <3>1, <3>2 DEF Claimed
  <2>12. ~Dropped(x) /\ ~CodecDrops(x)
    <3>1. CASE decoder = "copy"
      BY <2>11, <3>1, Zenon DEF Sound, Apart, Dropped
    <3>2. CASE decoder # "copy"
      BY <2>5, <3>2, CodecHolds DEF Dropped, CodecDrops, Base
    <3> QED
      BY <3>1, <3>2
  <2>13. /\ SinkDrops(x)' /\ ~CodecDrops(x)' /\ Dropped(x)'
         /\ \A b \in Buffers : b # x => ~SinkDrops(b)'
    BY <2>1, <2>5, <2>8, <2>11, <2>12, Zenon DEF SinkDrops, Dropped
  <2>14. Sound(x)' /\ \A c \in Buffers : c # x => Kept(c)
    BY <2>1, <2>2, <2>3, <2>5, <2>8, <2>9, <2>10, <2>11, <2>12, <2>13, DequeuedSound
  <2>15. \A b \in Buffers : b # x => Lists(b)
    BY <2>9, <2>11, Zenon DEF Lists
  <2>16. \A b \in Buffers : b # x => Still(b)
    BY <2>5, <2>13, <2>14, <2>15, Zenon DEF Still, Held
  <2>17. Once'
    BY <2>1, <2>2, Zenon DEF Shared, Once
  <2>18. Shared'
    BY <2>2, <2>3, <2>14, <2>16, <2>17, TouchShared
  <2> QED
    BY <2>3, <2>18 DEF Sharing
<1>30. CASE GiveUp /\ Frame
  <2>1. /\ SinkAside /\ UNCHANGED <<Holdings, driver, done, codec, vpuVars, decoder, phase>>
        /\ events' = events \/ events' = events \cup {"stall"}
    BY <1>30, GiveUpDoes, Zenon DEF Base, device, Accounts, Holdings
  <2> QED
    BY <2>1, Asides, SinkAsideShares
<1>31. CASE SinkDrop /\ Frame
  <2>1. /\ sink.pc = "drop" /\ sink.dequeued \in Buffers \cup {None}
        /\ sink'.pc \in {"trydq", "release"} /\ sink'.buffer = sink.buffer
        /\ UNCHANGED <<showcnt, v4llist, queue, driver, done, codec, Rest>>
    BY <1>31, SinkDropDoes, Zenon DEF Base, device
  <2>2. phase \in {"run", "flush", "stop"} /\ Shared
    BY <2>1, Busy DEF Base, Sharing
  <2>3. phase' # "null" /\ Steady /\ display_handle' = display_handle
    BY <2>1, <2>2, SteadyRest DEF Rest, vpuVars
  <2>4. CodecStays /\ OutStays
    BY <2>1, Zenon DEF CodecStays, OutStays
  <2>5. \A b \in Buffers : /\ ~SinkDrops(b)' /\ (AtSink(b)' <=> AtSink(b))
                           /\ Waits(b) /\ Begins(b)
                           /\ (InQueue(b)' <=> InQueue(b)) /\ (AtCodec(b)' <=> AtCodec(b))
                           /\ (CodecDrops(b)' <=> CodecDrops(b))
    BY <2>1, <2>4, CodecStill DEF SinkDrops, AtSink, InQueue, Waits, Begins
  <2>6. \A b \in Buffers : Lists(b) /\ Handle(b) /\ Waits(b) /\ Begins(b)
    <3>1. Claimed' = Claimed
      BY <2>1, ClaimsStay
    <3> QED
      BY <2>1, <2>3, <2>4, <2>5, <3>1, OutStill, Zenon DEF Lists, Handle
  <2>7. Single(queue')
    BY <2>1, <2>2, Zenon DEF Shared, Once
  <2>8. CASE sink.dequeued = None /\ UNCHANGED buffers
    <3>1. \A b \in Buffers : ~SinkDrops(b) /\ Kept(b)
      BY <2>8, Numbers DEF SinkDrops, Kept, buffers, Pooled
    <3>2. \A b \in Buffers : Still(b)
      BY <2>5, <2>6, <3>1, Zenon DEF Still, Held
    <3>3. Shared'
      BY <2>2, <2>3, <2>7, <2>8, <3>2, StillShared DEF Shared, Once, buffers
    <3> QED
      BY <2>3, <3>3 DEF Sharing
  <2>9. CASE sink.dequeued # None /\ Unref(sink.dequeued)
    <3>1. PICK x \in Buffers : x = sink.dequeued
      BY <2>1, <2>9
    <3>2. Unref(x) /\ \A b \in Buffers : SinkDrops(b) <=> b = x
      BY <2>1, <2>9, <3>1, Zenon DEF SinkDrops
    <3>3. Loosens(x)
      BY <2>2, <2>5, <3>2, Zenon DEF Loosens, Flies, Dropped, Shared, Sound, OneWay
    <3>4. \A b \in Buffers : b # x => Held(b)
      BY <2>5, <3>2, Zenon DEF Held
    <3>5. Shared'
      BY <2>2, <2>3, <2>6, <2>7, <3>2, <3>3, <3>4, UnrefShared
    <3> QED
      BY <2>3, <3>5 DEF Sharing
  <2> QED
    BY <1>31, <2>8, <2>9, Zenon DEF SinkDrop
<1>32. CASE Release /\ Frame
  <2>1. /\ sink.pc = "release" /\ sink.buffer \in Buffers \cup {SwBuffer}
        /\ sink'.pc = "idle" /\ sink'.buffer = None
        /\ UNCHANGED <<showcnt, v4llist, queue, driver, done, codec, Rest>>
    BY <1>32, ReleaseDoes, Zenon DEF Base, device
  <2>2. phase \in {"run", "flush", "stop"} /\ Shared
    BY <2>1, Busy DEF Base, Sharing
  <2>3. phase' # "null" /\ Steady /\ display_handle' = display_handle
    BY <2>1, <2>2, SteadyRest DEF Rest, vpuVars
  <2>4. CodecStays /\ OutStays
    BY <2>1, Zenon DEF CodecStays, OutStays
  <2>5. \A b \in Buffers : /\ ~SinkDrops(b) /\ ~SinkDrops(b)' /\ ~AtSink(b)'
                           /\ Waits(b) /\ Begins(b)
                           /\ (InQueue(b)' <=> InQueue(b)) /\ (AtCodec(b)' <=> AtCodec(b))
                           /\ (CodecDrops(b)' <=> CodecDrops(b)) /\ (Dropped(b)' <=> Dropped(b))
    BY <2>1, <2>4, CodecStill, Numbers
       DEF SinkDrops, AtSink, InQueue, Waits, Begins, Dropped
  <2>6. \A b \in Buffers : Lists(b) /\ Handle(b) /\ Waits(b) /\ Begins(b)
    <3>1. Claimed' = Claimed
      BY <2>1, ClaimsStay
    <3> QED
      BY <2>1, <2>3, <2>4, <2>5, <3>1, OutStill, Zenon DEF Lists, Handle
  <2>7. Single(queue')
    BY <2>1, <2>2, Zenon DEF Shared, Once
  <2>8. PICK x \in Buffers \cup {SwBuffer} : x = sink.buffer
    BY <2>1
  <2>9. Unref(x) /\ \A b \in Buffers : AtSink(b) <=> b = x
    BY <1>32, <2>8, Zenon DEF AtSink, Release
  <2>10. x \in Buffers => Loosens(x)
    BY <2>2, <2>5, <2>9, Zenon DEF Loosens, Flies, Shared, Sound, OneWay
  <2>11. \A b \in Buffers : b # x => Held(b)
    BY <2>5, <2>9, Zenon DEF Held
  <2>12. Shared'
    BY <2>2, <2>3, <2>6, <2>7, <2>9, <2>10, <2>11, UnrefShared
  <2> QED
    BY <2>3, <2>12 DEF Sharing
<1>33. CASE Geometry /\ Frame
  <2>1. /\ driver' = <<>> /\ done' = <<>> /\ events' = events \cup {"geometry"}
        /\ UNCHANGED <<Holdings, sink, codec, vpuVars, decoder, phase>>
    BY <1>33, GeometryDoes, Zenon DEF Accounts, Holdings
  <2>2. \A b : Out(b)' => Out(b)
    BY <2>1, EmptyHas, Zenon DEF Out, Pending
  <2>3. CodecStays /\ SinkStays
    BY <2>1, Zenon DEF CodecStays, SinkStays
  <2>4. Steady /\ UNCHANGED <<Holdings, display_handle>>
    BY <2>1, SteadyRest DEF vpuVars
  <2> QED
    BY <2>2, <2>3, <2>4, SharingSame
<1>34. CASE QueueFails /\ Frame
  <2>1. /\ sink.pc = "append" /\ sink.buffer \in Buffers
        /\ sink'.pc = "release" /\ sink'.buffer = sink.buffer
        /\ AppendIndex /\ events' = RacesAlong(sink) \cup {"error"}
        /\ events \subseteq events'
        /\ UNCHANGED <<buffers, showcnt, queue, driver, done, codec, vpuVars, decoder, phase>>
    BY <1>34, QueueFailsDoes, Zenon DEF Base, device
  <2>2. phase # "null" /\ phase # "ready" /\ Shared
    BY <2>1, Busy DEF Base, Sharing
  <2>3. phase' # "null" /\ Steady /\ display_handle' = display_handle
    BY <2>1, <2>2, SteadyRest DEF vpuVars
  <2>4. PICK x \in Buffers : x = sink.buffer
    BY <2>1
  <2>5. Harmed({"error"})'
    BY <2>1 DEF Harmed
  <2>6. \A b : Out(b)' <=> Out(b)
    BY <2>1, Zenon DEF Out, Pending
  <2>7. CodecStays
    BY <2>1, Zenon DEF CodecStays
  <2>8. \A b \in Buffers : /\ ~SinkDrops(b) /\ ~SinkDrops(b)' /\ (AtCodec(b)' <=> AtCodec(b))
                           /\ (AtSink(b)' <=> b = x) /\ (AtSink(b) <=> b = x)
                           /\ (InQueue(b)' <=> InQueue(b)) /\ Kept(b)
                           /\ (CodecDrops(b)' <=> CodecDrops(b)) /\ Begins(b) /\ Handle(b)
    BY <2>1, <2>3, <2>4, <2>7, CodecStill
       DEF SinkDrops, AtSink, InQueue, Pooled, Handle, Begins, Kept, buffers
  <2>9. Claimed' = Claimed /\ x \in Claimed /\ ~Out(x)
    <3>1. /\ Listed /\ v4llist' = v4llist \cup {sink.buffer}
          /\ sink.buffer \notin v4llist
      <4>1. RacesAlong(sink) \subseteq events'
        BY <2>1
      <4> QED
        BY <2>1, <4>1, Appends, Zenon DEF Base, Awake
    <3>2. ~Out(x)
      BY <2>4, <3>1, Zenon DEF Listed
    <3> QED
      BY <2>1, <2>4, <3>1, <3>2 DEF Claimed
  <2>10. \A b \in Buffers : b # x => Still(b)
    BY <2>1, <2>6, <2>8, <2>9, Zenon DEF Still, Lists, Held, Waits
  <2>11. Once'
    BY <2>1, <2>2, Zenon DEF Shared, Once, buffers
  <2>12. Sound(x)'
    BY <2>1, <2>2, <2>3, <2>5, <2>6, <2>8, <2>9, AppendedSound DEF Shared, Kept
  <2>13. Shared'
    BY <2>2, <2>3, <2>10, <2>11, <2>12, TouchShared
  <2> QED
    BY <2>3, <2>13 DEF Sharing
<1>35. ASSUME NEW m \in {"1", "2"}, PowerMode(m), Frame PROVE Sharing'
  <2>1. /\ UNCHANGED <<Holdings, driver, done, sink, codec, vpuVars, decoder, phase>>
        /\ events' = events \/ events' = events \cup {"suspend"}
    BY <1>35, PowerModeDoes, Zenon DEF device, Accounts, Holdings
  <2>2. SinkStays
    BY <2>1, Zenon DEF SinkStays
  <2> QED
    BY <2>1, <2>2, SinkAsideShares
<1>36. CASE Refer /\ Frame
  <2>1. /\ sink.pc = "show" /\ sink.buffer \in Buffers \ v4llist
        /\ sink'.pc = "append" /\ sink'.buffer = sink.buffer
        /\ showcnt[sink.buffer] < MaxShow
        /\ showcnt' = [showcnt EXCEPT ![sink.buffer] = @ + 1]
        /\ refs' = [refs EXCEPT ![sink.buffer] = @ + 1]
        /\ UNCHANGED <<bufstate, free_pool, v4llist, queue, driver, done, codec, Rest>>
    BY <1>36, ReferDoes, Zenon DEF Base, device
  <2>2. phase # "null" /\ phase # "ready" /\ Shared
    BY <2>1, Busy DEF Base, Sharing
  <2>3. phase' # "null" /\ Steady /\ display_handle' = display_handle
    BY <2>1, <2>2, SteadyRest DEF Rest, vpuVars
  <2>4. PICK x \in Buffers : x = sink.buffer
    BY <2>1
  <2>6. \A b : Out(b)' <=> Out(b)
    BY <2>1, Zenon DEF Out, Pending
  <2>7. CodecStays
    BY <2>1, Zenon DEF CodecStays
  <2>8. \A b \in Buffers : /\ ~SinkDrops(b) /\ ~SinkDrops(b)' /\ (AtCodec(b)' <=> AtCodec(b))
                           /\ (AtSink(b)' <=> b = x) /\ (AtSink(b) <=> b = x)
                           /\ (InQueue(b)' <=> InQueue(b)) /\ (Pooled(b)' <=> Pooled(b))
                           /\ (CodecDrops(b)' <=> CodecDrops(b)) /\ Waits(b) /\ Begins(b)
                           /\ Handle(b) /\ bufstate'[b] = bufstate[b]
    BY <2>1, <2>3, <2>4, <2>7, CodecStill
       DEF SinkDrops, AtSink, InQueue, Pooled, Handle, Waits, Begins
  <2>9. \A b \in Buffers : b # x => /\ refs'[b] = refs[b] /\ showcnt'[b] = showcnt[b]
                                    /\ (b \in Claimed' <=> b \in Claimed)
    BY <2>1, <2>4, ListsType DEF Base, Claimed
  <2>10. \A b \in Buffers : b # x => Still(b)
    BY <2>6, <2>8, <2>9, Zenon DEF Still, Kept, Lists, Held
  <2>11. Once'
    BY <2>1, <2>2, Zenon DEF Shared, Once
  <2>12. /\ x \notin Claimed /\ x \in Claimed' /\ showcnt[x] < MaxShow
         /\ showcnt'[x] = showcnt[x] + 1 /\ refs'[x] = refs[x] + 1
    BY <2>1, <2>4, ListsType DEF Base, Claimed
  <2>5. ~Out(x)'
    BY <2>1, <2>2, <2>4, <2>6, Zenon DEF Base, Listing, Listed, Awake
  <2>13. Sound(x)'
    BY <2>1, <2>2, <2>3, <2>5, <2>8, <2>12, ReferredSound DEF Shared
  <2>14. Shared'
    BY <2>2, <2>3, <2>10, <2>11, <2>13, TouchShared
  <2> QED
    BY <2>3, <2>14 DEF Sharing
<1> QED
  BY <1>1, <1>2, <1>3, <1>4, <1>5, <1>6, <1>7, <1>8, <1>9, <1>10, <1>11,
     <1>12, <1>13, <1>14, <1>15, <1>16, <1>17, <1>18, <1>19, <1>20, <1>21,
     <1>22, <1>23, <1>24, <1>25, <1>26, <1>27, <1>28, <1>29, <1>30, <1>31,
     <1>32, <1>33, <1>34, <1>35, <1>36
     DEF Next, CodecStep, Allocate, SinkStep, Control, Frame

-------------------------------------------------------------------------------
(* The invariant, and what the runs check of it                            *)

Sane == Base /\ Begun /\ Sharing

LEMMA InitSane == Init => Sane
<1> SUFFICES ASSUME Init PROVE Sane
  OBVIOUS
<1>1. Base
  BY InitBase
<1>2. phase = "run" /\ sink = Idle /\ codec = Idle /\ queue = <<>>
  BY Zenon DEF Init, SinkInit
<1>3. AtRest
  BY <1>2, Zenon DEF AtRest, Idle
<1>4. Afresh
  BY <1>2, <1>3, Zenon DEF Init, SinkInit, Afresh
<1>5. Shared
  BY <1>1, <1>4, AfreshShared DEF Base
<1> QED
  BY <1>1, <1>2, <1>5 DEF Sane, Begun, Sharing

LEMMA SaneKept == Sane /\ [Next]_vars => Sane'
<1> SUFFICES ASSUME Sane, [Next]_vars PROVE Sane'
  OBVIOUS
<1>1. Base'
  BY BaseKept DEF Sane
<1>2. CASE Next
  <2>1. Recorded
    BY <1>2, Records
  <2>2. Begun'
    <3>1. "flush" \in events' => Harmed({"flush"})'
      BY DEF Harmed
    <3>2. Harmed({"flush"}) => Harmed({"flush"})'
      BY <2>1, Grows DEF Recorded
    <3> QED
      BY <2>1, <3>1, <3>2, Zenon DEF Recorded, Begun, Sane
  <2>3. Sharing'
    <3>1. Awake' => Awake
      BY <2>1, AwakeBefore
    <3>2. CASE Awake'
      BY <1>1, <1>2, <3>1, <3>2, SharingKept DEF Sane
    <3>3. CASE ~Awake'
      BY <3>3, Zenon DEF Sharing
    <3> QED
      BY <3>2, <3>3
  <2> QED
    BY <1>1, <2>2, <2>3 DEF Sane
<1>3. CASE UNCHANGED vars
  <2>1. /\ UNCHANGED <<Holdings, driver, done, sink, codec, events, decoder, phase>>
        /\ display_handle' = display_handle
    BY <1>3, Zenon DEF vars, sinkVars, vpuVars, Holdings, device
  <2>2. Begun'
    BY <2>1, Zenon DEF Sane, Begun, Harmed
  <2>3. CASE Awake
    <3>1. Steady
      BY <2>1, SteadyRest
    <3>2. CodecStays /\ SinkStays /\ OutStays
      BY <2>1, Zenon DEF CodecStays, SinkStays, OutStays
    <3>3. \A b \in Buffers : Out(b)' => Out(b)
      BY <3>2, OutStill
    <3>4. Sharing'
      BY <2>1, <2>3, <3>1, <3>2, <3>3, SharingSame DEF Sane
    <3> QED
      BY <1>1, <2>2, <3>4 DEF Sane
  <2>4. CASE ~Awake
    <3>1. ~Awake'
      BY <2>1, <2>4, Zenon DEF Awake, Harmed, ListRaced
    <3> QED
      BY <1>1, <2>2, <3>1, Zenon DEF Sane, Sharing
  <2> QED
    BY <2>3, <2>4
<1> QED
  BY <1>2, <1>3

\* Every buffer is accounted for, in the pool, with one of the threads, in the
\* queue or in the driver, until somebody suspends the system or the threads of
\* a decoder that copies and of the sink store v4llist across each other.
THEOREM SharingHolds == Spec => []Sane
BY InitSane, SaneKept, PTL DEF Spec

\* A buffer is in the queue once.
LEMMA InQueueOnce ==
  ASSUME Typed, Single(queue), NEW b \in Buffers
  PROVE  Cardinality({i \in DOMAIN queue : queue[i] = b}) = Number(InQueue(b))
<1> DEFINE P == {i \in DOMAIN queue : queue[i] = b}
<1>1. DOMAIN queue = 1 .. Len(queue) /\ b # SwBuffer
  BY ListsType, Numbers
<1>2. CASE ~InQueue(b)
  <2>1. P = {}
    BY <1>1, <1>2 DEF InQueue, Has
  <2> QED
    BY <1>2, <2>1, FS_EmptySet DEF Number
<1>3. CASE InQueue(b)
  <2>1. PICK k \in 1 .. Len(queue) : queue[k] = b
    BY <1>3 DEF InQueue, Has
  <2>2. P = {k}
    BY <1>1, <2>1 DEF Single
  <2> QED
    BY <1>3, <2>2, FS_Singleton DEF Number
<1> QED
  BY <1>2, <1>3

LEMMA SharedOrNulled ==
  ASSUME Sane, Awake
  PROVE  Typed /\ (phase # "null" => Shared) /\ (phase = "null" => Nulled)
BY Zenon DEF Sane, Base, Sharing

\* The reference count of a buffer is the number of those that hold it: none is
\* lost and none is dropped twice, in whatever order the two threads, the
\* driver and the application take their steps, for any number of buffers.
\* The property says for which histories: nobody has suspended the system, the
\* VPU's decoder has not been flushed, and the two threads have not stored
\* v4llist across each other.
THEOREM ReferencesAccounted == Spec => []RefsAccounted
<1>1. Sane => RefsAccounted
  <2> SUFFICES ASSUME Sane, Awake, ~FlushedVpu, NEW b \in Buffers,
                      bufstate[b] \notin {"NONE", "FREE"}
               PROVE  refs[b] = Number(b \in ToSet(free_pool))
                         + Number(codec.buffer = b)
                         + Number(decoder = "vpu" /\ phase \in {"run", "flush", "stop"})
                         + Cardinality({i \in DOMAIN queue : queue[i] = b})
                         + Number(sink.buffer = b)
                         + showcnt[b]
                         + Number(codec.pc = "drop" /\ codec.dequeued = b)
                         + Number(sink.pc = "drop" /\ sink.dequeued = b)
    BY DEF RefsAccounted, Awake
  <2>1. Typed /\ Shared
    BY SharedOrNulled DEF Nulled
  <2>2. Sound(b) /\ Single(queue)
    BY <2>1 DEF Shared, Once
  <2>3. b \in ToSet(free_pool) <=> Pooled(b)
    BY <2>1, ListsType, Sets DEF Pooled
  <2>4. Cardinality({i \in DOMAIN queue : queue[i] = b}) = Number(InQueue(b))
    BY <2>1, <2>2, InQueueOnce
  <2>5. /\ Number(Flies(b)) = Number(AtCodec(b)) + Number(InQueue(b)) + Number(AtSink(b))
        /\ Number(Dropped(b)) = Number(CodecDrops(b)) + Number(SinkDrops(b))
    BY <2>2 DEF Sound, OneWay, Flies, Dropped, Number
  <2>6. /\ refs[b] = Number(Pooled(b)) + Number(Based) + Number(Flies(b))
                     + Number(b \in Claimed) + Number(Dropped(b))
        /\ showcnt[b] = Number(b \in Claimed)
    BY <2>2 DEF Sound, Balanced, Shows
  <2>7. refs[b] = Number(Pooled(b)) + Number(AtCodec(b)) + Number(Based) + Number(InQueue(b))
                  + Number(AtSink(b)) + showcnt[b] + Number(CodecDrops(b))
                  + Number(SinkDrops(b))
    BY <2>5, <2>6 DEF Number
  <2>8. /\ Number(b \in ToSet(free_pool)) = Number(Pooled(b))
        /\ Number(decoder = "vpu" /\ phase \in {"run", "flush", "stop"}) = Number(Based)
        /\ Number(codec.buffer = b) = Number(AtCodec(b))
        /\ Number(sink.buffer = b) = Number(AtSink(b))
        /\ Number(codec.pc = "drop" /\ codec.dequeued = b) = Number(CodecDrops(b))
        /\ Number(sink.pc = "drop" /\ sink.dequeued = b) = Number(SinkDrops(b))
    BY <2>3, Zenon DEF Number, Based, AtCodec, AtSink, CodecDrops, SinkDrops
  <2> QED
    BY <2>4, <2>7, <2>8
<1> QED
  BY <1>1, SharingHolds, PTL

\* What the pool gives away is in it once, and nobody displays it, over the
\* same histories: nobody has suspended the system, and the two threads have not
\* stored v4llist across each other.
THEOREM PoolIsExclusive == Spec => []PoolExclusive
<1>1. Sane => PoolExclusive
  <2> SUFFICES ASSUME Sane, Awake PROVE PoolExclusive
    BY DEF PoolExclusive, Awake
  <2>1. /\ free_pool \in Seq(Buffers) /\ driver \in Seq(Buffers) /\ done \in Seq(Buffers)
        /\ \A b : b \in ToSet(free_pool) <=> Pooled(b)
        /\ \A b : b \in Queued <=> Has(driver, b) \/ Has(done, b)
    <3>1. free_pool \in Seq(Buffers) /\ driver \in Seq(Buffers) /\ done \in Seq(Buffers)
      BY SharedOrNulled, ListsType
    <3> QED
      BY <3>1, Sets DEF Pooled, Queued
  <2>2. Distinct(free_pool)
    BY SharedOrNulled, EmptyHas DEF Shared, Once, Nulled
  <2>3. IsInjective(free_pool)
    <3>1. DOMAIN free_pool = 1 .. Len(free_pool)
      BY <2>1
    <3> QED
      BY <2>2, <3>1, Zenon DEF Distinct, IsInjective
  <2>4. ASSUME NEW b \in Buffers
        PROVE  /\ b \in ToSet(free_pool) <=> bufstate[b] = "IDLE"
               /\ bufstate[b] = "IDLE" => b \notin Queued /\ showcnt[b] = 0
    <3>1. CASE phase # "null"
      <4>1. Sound(b)
        BY <3>1, SharedOrNulled DEF Shared
      <4>2. b \in Queued => b \in Claimed
        BY <2>1, <3>1, Zenon DEF Sane, Base, Listing, Listed, Out, Awake, Claimed
      <4> QED
        BY <2>1, <4>1, <4>2, Zenon DEF Sound, Idles
    <3>2. CASE phase = "null"
      <4>1. bufstate[b] # "IDLE" /\ ~Pooled(b)
        BY <3>2, SharedOrNulled, EmptyHas DEF Nulled, Pooled
      <4> QED
        BY <2>1, <4>1
    <3> QED
      BY <3>1, <3>2
  <2> QED
    BY <2>3, <2>4 DEF PoolExclusive
<1> QED
  BY <1>1, SharingHolds, PTL

\* Nobody writes into a picture that is displayed or waits to be: what is out
\* for display is neither with a software decoder nor with the VPU's core, until
\* the two threads have stored v4llist across each other (or, as the property
\* says, somebody has suspended the system or flushed the VPU's decoder).
THEOREM PicturesStay == Spec => [](~ListRaced => NoTearing)
<1>1. Sane => (~ListRaced => NoTearing)
  <2> SUFFICES ASSUME Sane, Awake, ~FlushedVpu PROVE NoTearing
    BY DEF NoTearing, Awake
  <2> DEFINE shown == Queued \cup ToSet(queue) \cup {sink.buffer}
  <2>1. \A b \in Buffers :
          b \in shown => Has(driver, b) \/ Has(done, b) \/ InQueue(b) \/ AtSink(b)
    <3>1. /\ driver \in Seq(Buffers) /\ done \in Seq(Buffers)
          /\ queue \in Seq(Buffers \cup {SwBuffer})
      BY SharedOrNulled, ListsType
    <3>2. \A b : b \in ToSet(queue) <=> InQueue(b)
      BY <3>1, Sets DEF InQueue
    <3>3. \A b : b \in Queued <=> Has(driver, b) \/ Has(done, b)
      BY <3>1, Sets DEF Queued
    <3> QED
      BY <3>2, <3>3 DEF AtSink
  <2> HIDE DEF shown
  <2>2. ASSUME phase # "null", NEW b \in Buffers, b \in shown
        PROVE  Sound(b) /\ (b \in Claimed \/ InQueue(b) \/ AtSink(b))
    <3>1. Sound(b)
      BY <2>2, SharedOrNulled DEF Shared
    <3>2. Has(driver, b) \/ Has(done, b) => b \in Claimed
      BY <2>2, Zenon DEF Sane, Base, Listing, Listed, Out, Awake, Claimed
    <3> QED
      BY <2>1, <2>2, <3>1, <3>2
  <2>3. ASSUME codec.pc = "push", codec.buffer # SwBuffer PROVE codec.buffer \notin shown
    <3>1. phase # "null" /\ codec.buffer \in Buffers
      <4>1. codec.pc # "idle"
        BY <2>3
      <4> QED
        BY <2>3, <4>1, SharedOrNulled, Busy, Working DEF Typed
    <3>2. PICK b \in Buffers : b = codec.buffer
      BY <3>1
    <3>3. AtCodec(b)
      BY <3>2 DEF AtCodec
    <3> QED
      BY <2>2, <3>1, <3>2, <3>3, Zenon DEF Sound, OneWay, Apart
  <2>4. ASSUME decoder = "vpu", phase = "run"
        PROVE  Registered \ display_handle \subseteq Buffers \ shown
    <3> SUFFICES ASSUME NEW b \in Buffers, b \in shown PROVE b \in display_handle
      BY DEF Registered
    <3>1. Based /\ phase # "null"
      BY <2>4 DEF Based
    <3>2. Sound(b) /\ (b \in Claimed \/ Flies(b))
      BY <2>2, <3>1 DEF Flies
    <3> QED
      BY <3>1, <3>2, Zenon DEF Sound, Apart
  <2> QED
    BY <2>3, <2>4 DEF NoTearing, shown
<1> QED
  BY <1>1, SharingHolds, PTL

\* When the element stops no buffer's memory is left behind, if the driver
\* refused none, nobody suspended the system, and the two threads did not store
\* v4llist across each other.
THEOREM MemoryGoes == Spec => [](Awake => AllFreed)
<1>1. Sane => (Awake => AllFreed)
  BY SharedOrNulled DEF Nulled, AllFreed
<1> QED
  BY <1>1, SharingHolds, PTL

\* Until somebody suspends the system, or the two threads store v4llist across
\* each other, no count is negative or grows beyond the number of those that
\* can hold a buffer.
THEOREM TypeCorrect == Spec => [](Awake => TypeOK)
<1>1. Sane => (Awake => TypeOK)
  <2> SUFFICES ASSUME Sane, Awake PROVE TypeOK
    OBVIOUS
  <2>1. Typed
    BY SharedOrNulled
  <2>2. ASSUME NEW b \in Buffers
        PROVE  showcnt[b] \in 0 .. MaxShow /\ refs[b] \in 0 .. 3 + MaxShow
    <3>1. MaxShow \in Nat /\ MaxShow >= 1
      BY V4lSinkAssumption
    <3>2. CASE phase = "null"
      BY <3>1, <3>2, SharedOrNulled DEF Nulled
    <3>3. CASE phase # "null"
      <4>1. Sound(b)
        BY <3>3, SharedOrNulled DEF Shared
      <4>2. showcnt[b] \in 0 .. MaxShow
        BY <3>1, <4>1 DEF Sound, Shows, Number
      <4>3. refs[b] \in 0 .. 4
        <5>1. phase = "ready" => refs[b] = 1
          BY <4>1 DEF Sound, Balanced
        <5>2. phase # "ready" =>
                refs[b] = Number(Pooled(b)) + Number(Based) + Number(Flies(b))
                          + Number(b \in Claimed) + Number(Dropped(b))
          BY <4>1 DEF Sound, Balanced
        <5>3. Pooled(b) => ~Flies(b)
          BY <4>1, Zenon DEF Sound, Idles
        <5> QED
          BY <5>1, <5>2, <5>3 DEF Number
      <4> QED
        BY <3>1, <4>2, <4>3
    <3> QED
      BY <3>2, <3>3
  <2>3. /\ bufstate \in [Buffers -> {"ALLOCATED", "SHOWED", "SHOWING", "IDLE", "FREE", "NONE"}]
        /\ free_pool \in Seq(Buffers) /\ queue \in Seq(Buffers \cup {SwBuffer})
        /\ v4llist \subseteq Buffers /\ v4lqueued \in Int
    BY <2>1, ListsType DEF States
  <2>4. display_handle \subseteq Buffers /\ output_size = Cardinality(display_handle)
    BY <2>1 DEF Typed, Handles
  <2>5. showcnt \in [Buffers -> 0 .. MaxShow] /\ refs \in [Buffers -> 0 .. 3 + MaxShow]
    BY <2>1, <2>2, ListsType
  <2> QED
    BY <2>3, <2>4, <2>5, Zenon DEF TypeOK
<1> QED
  BY <1>1, SharingHolds, PTL
===============================================================================
