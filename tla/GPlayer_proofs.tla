---------------------------- MODULE GPlayer_proofs ----------------------------
(***************************************************************************)
(* The safety of GPlayer, for any number of items, any options, any        *)
(* commands and any number of messages of the pipeline.                    *)
(*                                                                         *)
(* What the threads promise each other is spread over the lists of the     *)
(* steps they have left: bus waits because it has sent EOS just before,    *)
(* msg posts once between stop and next, a thread that empties the queue   *)
(* sets the exit flags next, and the item that playlist_previous moves to  *)
(* the second time is followed by the call that gives it to the pipeline.  *)
(* WellFormed says so of every place of a list, counting from its end, so  *)
(* that it survives the step that takes the first one away.                *)
(***************************************************************************)
EXTENDS GPlayer, FiniteSetTheorems, SequenceTheorems, TLAPS

\* The steps a thread can have left.
StepsOf ==
  [bus |-> {"EOS", "wait", "stop", "INTERNAL_ERROR", "buffer", "buffered",
            "returned"} \cup Buffering,
   msg |-> {"top", "get", "returned", "stop", "post", "next", "set", "play",
            "pause", "flush", "exit"},
   main |-> {"set", "play", "top", "stop", "pause", "seek", "rate", "event",
             "next", "previous", "again", "repeat", "EXIT", "flush", "exit",
             "join msg", "null", "join bus", "returned"}]

PlaceOK(l, i) ==
  /\ l[i] \in {"top", "get", "returned", "wait"} => i = Len(l)
  /\ l[i] = "EOS" => i + 1 = Len(l) /\ l[i + 1] = "wait"
  /\ l[i] = "wait" /\ i > 1 => l[i - 1] = "EOS"
  /\ l[i] = "post" => i + 2 = Len(l)
  /\ l[i] = "flush" => i < Len(l) /\ l[i + 1] = "exit"
  /\ l[i] = "previous" => i + 1 = Len(l) /\ l[i + 1] = "top"
  /\ l[i] = "again" => i + 4 = Len(l) /\ l[i + 2] = "set"

WellFormed(l) == \A i \in 1 .. Len(l) : PlaceOK(l, i)

AllSteps == UNION {StepsOf[t] : t \in Threads}

Lists ==
  /\ todo \in [Threads -> Seq(AllSteps)]
  /\ \A t \in Threads : todo[t] \in Seq(StepsOf[t]) /\ WellFormed(todo[t])

Member(l, step) == \E i \in 1 .. Len(l) : l[i] = step

Has(t, step) == Member(todo[t], step)

PickedIsItem == Has("main", "again") => picked \in Items

\* The places of EOS in the queue
Ends == {i \in 1 .. Len(queue) : queue[i] = "EOS"}

Posting == Has("msg", "post")

Left == gbexit \/ \E t \in Threads : Has(t, "exit")

\* EosRendezvous without the count: the three places an answer can be in
\* exclude each other, and none of them holds two.
OneAnswer ==
  /\ \A i, j \in Ends : i = j
  /\ eos_semaphore \in {0, 1}
  /\ Ends # {} => ~Posting /\ eos_semaphore = 0
  /\ Posting => eos_semaphore = 0
  /\ Ends # {} \/ Posting \/ eos_semaphore = 1 => Waiting
  /\ Waiting => Ends # {} \/ Posting \/ eos_semaphore = 1 \/ Left

Located == uri = current \/ \E t \in Threads : Has(t, "set") \/ Has(t, "again")

IInv ==
  /\ TypeOK /\ Lists /\ PickedIsItem /\ OneAnswer /\ PausedIsQuiet /\ Located

-------------------------------------------------------------------------------
(* Lists of steps *)

\* What calls put before the steps a thread has left, and where the end of
\* such a list has nothing to say of what follows it.
PlainSteps == {"stop", "set", "play", "pause", "event", "exit"}

\* The steps whose place in a list matters
PlacedSteps == {"top", "get", "returned", "wait", "EOS", "post", "flush",
                "previous", "again"}

Brief(s) ==
  \A i \in 1 .. Len(s) :
    /\ s[i] \in PlainSteps \cup {"flush"}
    /\ s[i] = "flush" => i < Len(s) /\ s[i + 1] = "exit"

\* n is l without its first step, and with the steps s before the others.
Replaces(n, s, l) ==
  /\ Len(n) = Len(s) + Len(l) - 1
  /\ Len(l) \in Nat /\ Len(s) \in Nat /\ Len(l) > 0 /\ Head(l) = l[1]
  /\ \A i \in 1 .. Len(s) : n[i] = s[i]
  /\ \A i \in 1 .. Len(n) : i > Len(s) =>
       i - Len(s) + 1 \in 2 .. Len(l) /\ n[i] = l[i - Len(s) + 1]
  /\ \A i \in 2 .. Len(l) : n[i + Len(s) - 1] = l[i]

LEMMA Pushed ==
  ASSUME NEW S, NEW l \in Seq(S), l # <<>>, NEW s \in Seq(S)
  PROVE  s \o Tail(l) \in Seq(S) /\ Replaces(s \o Tail(l), s, l)
<1> DEFINE n == s \o Tail(l)
<1>1. /\ Tail(l) \in Seq(S) /\ Len(Tail(l)) = Len(l) - 1
      /\ \A i \in 1 .. Len(l) - 1 : Tail(l)[i] = l[i + 1]
      /\ Len(l) \in Nat /\ Len(l) > 0
  OBVIOUS
<1> DEFINE r == Tail(l)
<1>2. /\ n \in Seq(S) /\ Len(n) = Len(s) + Len(r)
      /\ \A i \in 1 .. Len(n) : n[i] = IF i <= Len(s) THEN s[i] ELSE r[i - Len(s)]
      /\ Len(s) \in Nat
  BY <1>1
<1> HIDE DEF r
<1>3. \A i \in 1 .. Len(n) : i > Len(s) =>
        i - Len(s) + 1 \in 2 .. Len(l) /\ n[i] = l[i - Len(s) + 1]
  BY <1>1, <1>2 DEF r
<1>4. \A i \in 2 .. Len(l) : n[i + Len(s) - 1] = l[i]
  BY <1>1, <1>2 DEF r
<1> QED
  BY <1>1, <1>2, <1>3, <1>4 DEF r, Replaces

LEMMA PushedWellFormed ==
  ASSUME NEW S, NEW l \in Seq(S), WellFormed(l), NEW s \in Seq(S), Brief(s),
         s = <<>> \/ "wait" \notin S, NEW n \in Seq(S), Replaces(n, s, l)
  PROVE  WellFormed(n)
<1> DEFINE k == Len(s)
<1>1. /\ n \in Seq(S) /\ Len(n) = k + Len(l) - 1
      /\ Len(l) \in Nat /\ k \in Nat /\ Len(l) > 0
      /\ \A i \in 1 .. k : n[i] = s[i]
      /\ \A i \in 1 .. Len(n) : i > k =>
           i - k + 1 \in 2 .. Len(l) /\ n[i] = l[i - k + 1]
  BY DEF Replaces
<1>2. s = <<>> => k = 0
  OBVIOUS
<1>3. \A i \in 1 .. Len(n) : n[i] \in S
  BY <1>1
<1> SUFFICES ASSUME NEW i \in 1 .. Len(n) PROVE PlaceOK(n, i)
  BY DEF WellFormed
<1> HIDE DEF k
<1>4. CASE i <= k
  <2>1. /\ n[i] = s[i]
        /\ n[i] \in PlainSteps \cup {"flush"}
        /\ n[i] = "flush" => i < k /\ n[i + 1] = "exit"
    BY <1>1, <1>4 DEF Brief, k
  <2>2. n[i] \notin {"top", "get", "returned", "wait", "EOS", "post", "previous",
                     "again"}
    BY <2>1 DEF PlainSteps
  <2>3. n[i] = "flush" => i < Len(n)
    BY <1>1, <2>1
  <2> QED
    BY <2>1, <2>2, <2>3 DEF PlaceOK
<1>5. CASE i > k
  <2>1. PICK j \in 2 .. Len(l) : j = i - k + 1 /\ n[i] = l[j]
    BY <1>1, <1>5
  <2>2. PlaceOK(l, j) /\ j > 1 /\ j \in Int
    BY <1>1, <2>1 DEF WellFormed
  <2>3. \A m \in 1 .. 4 : j + m <= Len(l) => n[i + m] = l[j + m]
    BY <1>1, <1>5, <2>1
  <2>4. ASSUME n[i] = "wait", i > 1 PROVE n[i - 1] = l[j - 1]
    <3>1. k = 0
      BY <2>4, <1>2, <1>3
    <3> QED
      BY <1>1, <2>1, <2>4, <3>1
  <2>5. Len(l) - j = Len(n) - i
    BY <1>1, <2>1
  <2>6. Len(n) \in Int /\ Len(l) \in Int
    BY <1>1
  <2>7. /\ i = Len(n) <=> j = Len(l)
        /\ i < Len(n) <=> j < Len(l)
        /\ i + 1 = Len(n) <=> j + 1 = Len(l)
        /\ i + 2 = Len(n) <=> j + 2 = Len(l)
        /\ i + 4 = Len(n) <=> j + 4 = Len(l)
    BY <2>2, <2>5, <2>6
  <2>8. /\ j < Len(l) => n[i + 1] = l[j + 1]
        /\ j + 4 = Len(l) => n[i + 2] = l[j + 2]
        /\ j + 1 = Len(l) => n[i + 1] = l[j + 1]
    BY <2>2, <2>3, <2>6
  <2> QED
    BY <2>1, <2>2, <2>4, <2>7, <2>8, Zenon DEF PlaceOK
<1> QED
  BY <1>1, <1>4, <1>5

LEMMA Joined ==
  ASSUME NEW S, NEW s \in Seq(S), NEW r \in Seq(S)
  PROVE  /\ s \o r \in Seq(S) /\ Len(s \o r) = Len(s) + Len(r)
         /\ \A i \in 1 .. Len(s) : (s \o r)[i] = s[i]
         /\ \A i \in 1 .. Len(s) + Len(r) : i > Len(s) =>
              (s \o r)[i] = r[i - Len(s)]
OBVIOUS

\* n consists of s and r.
ConsistsOf(n, s, r) ==
  /\ Len(n) = Len(s) + Len(r)
  /\ \A i \in 1 .. Len(s) : n[i] = s[i]
  /\ \A i \in 1 .. Len(s) + Len(r) : i > Len(s) => n[i] = r[i - Len(s)]

LEMMA JoinedAs ==
  ASSUME NEW S, NEW s \in Seq(S), NEW r \in Seq(S), NEW n, n = s \o r
  PROVE  n \in Seq(S) /\ ConsistsOf(n, s, r)
BY Joined, Zenon DEF ConsistsOf

LEMMA Single ==
  ASSUME NEW S, NEW x \in S
  PROVE  <<x>> \in Seq(S) /\ Len(<<x>>) = 1 /\ <<x>>[1] = x
OBVIOUS

LEMMA IsSingle ==
  ASSUME NEW S, NEW x \in S, NEW s \in Seq(S), Len(s) = 1, s[1] = x
  PROVE  s = <<x>>
<1> DEFINE u == <<x>>
<1>1. u \in Seq(S) /\ Len(u) = 1 /\ u[1] = x
  OBVIOUS
<1> HIDE DEF u
<1>2. \A i \in 1 .. Len(s) : s[i] = u[i]
  BY <1>1
<1>3. s = u
  BY <1>1, <1>2, SeqEqual
<1> QED
  BY <1>3 DEF u

BriefSteps == {"stop", "set", "play", "flush", "exit"}

LEMMA BriefLists ==
  /\ \A s \in {<<>>, Start, Exit, <<"stop", "play">>, <<"stop", "play">> \o Exit,
               <<"stop", "play">> \o <<>>} :
       s \in Seq(StepsOf["msg"]) /\ s \in Seq(StepsOf["main"]) /\ Brief(s)
  /\ \A s \in {<<"pause", "play", "event">>, <<"play", "event">>} :
       s \in Seq(StepsOf["main"]) /\ Brief(s)
  /\ <<>> \in Seq(StepsOf["bus"])
<1>1. /\ BriefSteps \subseteq StepsOf["msg"]
      /\ BriefSteps \cup {"pause", "event"} \subseteq StepsOf["main"]
  BY DEF BriefSteps, StepsOf
<1>2. ASSUME NEW s \in {<<>>, Start, Exit, <<"stop", "play">>}
      PROVE  s \in Seq(BriefSteps)
  <2>1. <<>> \in Seq(BriefSteps)
    OBVIOUS
  <2>2. Start \in Seq(BriefSteps)
    BY DEF Start, BriefSteps
  <2>3. Exit \in Seq(BriefSteps)
    BY DEF Exit, BriefSteps
  <2>4. <<"stop", "play">> \in Seq(BriefSteps)
    BY DEF BriefSteps
  <2> QED
    BY <1>2, <2>1, <2>2, <2>3, <2>4, Zenon
<1>3. ASSUME NEW s \in {<<>>, Start, <<"stop", "play">>} PROVE Brief(s)
  <2>1. \A i \in 1 .. Len(s) : s[i] \in {"stop", "set", "play"}
    BY <1>3 DEF Start
  <2> QED
    BY <2>1 DEF Brief, PlainSteps
<1>4. /\ Len(Exit) = 3 /\ Exit[1] = "stop" /\ Exit[2] = "flush" /\ Exit[3] = "exit"
      /\ Exit \in Seq(BriefSteps)
  BY <1>2 DEF Exit
<1>5. Brief(Exit)
  <2>1. \A i \in 1 .. Len(Exit) : i = 1 \/ i = 2 \/ i = 3
    BY <1>4
  <2> QED
    BY <1>4, <2>1 DEF Brief, PlainSteps
<1> DEFINE p == <<"stop", "play">>
           c == p \o Exit
<1>6. Len(p) = 2 /\ p[1] = "stop" /\ p[2] = "play" /\ p \in Seq(BriefSteps)
  BY <1>2
<1> HIDE DEF p
<1>7. /\ c \in Seq(BriefSteps) /\ Len(c) = 5
      /\ c[1] = "stop" /\ c[2] = "play"
      /\ c[3] = "stop" /\ c[4] = "flush" /\ c[5] = "exit"
  BY <1>4, <1>6, Joined
<1> HIDE DEF c
<1>8. Brief(c)
  <2>1. \A i \in 1 .. Len(c) : i = 1 \/ i = 2 \/ i = 3 \/ i = 4 \/ i = 5
    BY <1>7
  <2> QED
    BY <1>7, <2>1 DEF Brief, PlainSteps
<1>9. p \o <<>> = p
  BY <1>6
<1>10. \A s \in {<<>>, Start, Exit, p, c, p \o <<>>} :
         s \in Seq(BriefSteps) /\ Brief(s)
  BY <1>2, <1>3, <1>4, <1>5, <1>7, <1>8, <1>9, Zenon DEF p
<1>11. \A s \in Seq(BriefSteps) : s \in Seq(StepsOf["msg"]) /\ s \in Seq(StepsOf["main"])
  BY <1>1, SeqMonotonic
<1>12. ASSUME NEW s \in {<<"pause", "play", "event">>, <<"play", "event">>}
       PROVE  s \in Seq(StepsOf["main"]) /\ Brief(s)
  <2>1. s \in Seq({"pause", "play", "event"})
    <3>1. <<"pause", "play", "event">> \in Seq({"pause", "play", "event"})
      OBVIOUS
    <3>2. <<"play", "event">> \in Seq({"pause", "play", "event"})
      OBVIOUS
    <3> QED
      BY <1>12, <3>1, <3>2, Zenon
  <2>2. {"pause", "play", "event"} \subseteq StepsOf["main"]
    BY DEF StepsOf
  <2>3. \A i \in 1 .. Len(s) : s[i] \in {"pause", "play", "event"}
    BY <2>1
  <2> QED
    BY <2>1, <2>2, <2>3, SeqMonotonic DEF Brief, PlainSteps
<1>13. <<>> \in Seq(StepsOf["bus"])
  OBVIOUS
<1> QED
  BY <1>10, <1>11, <1>12, <1>13, Zenon DEF p, c

LEMMA PlainPlace ==
  ASSUME NEW l, NEW i, l[i] \notin PlacedSteps
  PROVE  PlaceOK(l, i)
BY DEF PlaceOK, PlacedSteps

LEMMA FlushPlace ==
  ASSUME NEW l, NEW i, l[i] = "flush", i < Len(l), l[i + 1] = "exit"
  PROVE  PlaceOK(l, i)
BY DEF PlaceOK

LEMMA LastPlace ==
  ASSUME NEW l, NEW i, i = Len(l), l[i] \in {"top", "get", "returned"}
  PROVE  PlaceOK(l, i)
BY DEF PlaceOK

\* A list to start with, of steps of S
Fresh(S, l) ==
  /\ l \in Seq(S) /\ WellFormed(l)
  /\ \A i \in 1 .. Len(l) : l[i] \notin {"post", "again"}

LEMMA BriefThenLast ==
  ASSUME NEW S, NEW s \in Seq(S), Brief(s), NEW x \in {"top", "returned"}, x \in S
  PROVE  Fresh(S, s \o <<x>>)
<1> DEFINE l == s \o <<x>>
<1>1. <<x>> \in Seq(S) /\ Len(<<x>>) = 1 /\ <<x>>[1] = x
  OBVIOUS
<1>2. /\ l \in Seq(S) /\ Len(l) = Len(s) + 1 /\ Len(s) \in Nat
      /\ \A i \in 1 .. Len(s) : l[i] = s[i]
      /\ l[Len(l)] = x
  BY <1>1, Joined
<1> HIDE DEF l
<1>3. ASSUME NEW i \in 1 .. Len(s) PROVE PlaceOK(l, i) /\ l[i] \notin {"post", "again"}
  <2>1. l[i] \in PlainSteps \cup {"flush"}
    BY <1>2 DEF Brief
  <2>2. l[i] = "flush" => i < Len(l) /\ l[i + 1] = "exit"
    BY <1>2 DEF Brief
  <2> QED
    BY <2>1, <2>2, PlainPlace, FlushPlace DEF PlainSteps, PlacedSteps
<1>4. PlaceOK(l, Len(l)) /\ l[Len(l)] \notin {"post", "again"}
  BY <1>2, LastPlace
<1>5. \A i \in 1 .. Len(l) : i \in 1 .. Len(s) \/ i = Len(l)
  BY <1>2
<1> QED
  BY <1>2, <1>3, <1>4, <1>5 DEF WellFormed, Fresh, l

LEMMA StepSets ==
  \A t \in Threads : Seq(StepsOf[t]) \subseteq Seq(AllSteps)
BY DEF AllSteps

\* The thread does the step h, and has the steps s to do first.
Moves(t, h, s) ==
  /\ todo[t] # <<>> /\ Head(todo[t]) = h
  /\ todo' = [todo EXCEPT ![t] = s \o Tail(@)]

\* A thread with one step or none gets a new list.
Fills(t, l) == todo' = [todo EXCEPT ![t] = l]

LEMMA MovesLists ==
  ASSUME Lists, NEW t \in Threads, NEW h, NEW s \in Seq(StepsOf[t]), Brief(s),
         s = <<>> \/ t # "bus", Moves(t, h, s)
  PROVE  /\ Lists'
         /\ \A u \in Threads : u # t => todo'[u] = todo[u]
         /\ Replaces(todo'[t], s, todo[t]) /\ todo[t][1] = h
<1>1. /\ todo[t] \in Seq(StepsOf[t]) /\ todo[t] # <<>> /\ WellFormed(todo[t])
      /\ Head(todo[t]) = h
      /\ todo' = [todo EXCEPT ![t] = s \o Tail(todo[t])]
  BY DEF Lists, Moves
<1> DEFINE n == s \o Tail(todo[t])
<1>2. n \in Seq(StepsOf[t]) /\ Replaces(n, s, todo[t])
  BY <1>1, Pushed
<1>3. s = <<>> \/ "wait" \notin StepsOf[t]
  <2>1. "wait" \notin StepsOf["msg"] /\ "wait" \notin StepsOf["main"]
    BY DEF StepsOf
  <2>2. s = <<>> \/ t = "msg" \/ t = "main"
    BY DEF Threads
  <2> QED
    BY <2>1, <2>2
<1>4. WellFormed(n)
  BY <1>1, <1>2, <1>3, PushedWellFormed
<1> HIDE DEF n
<1>5. todo' = [todo EXCEPT ![t] = n]
  BY <1>1 DEF n
<1>6. todo \in [Threads -> Seq(AllSteps)] /\ n \in Seq(AllSteps)
  BY <1>2, StepSets DEF Lists
<1>7. /\ todo' \in [Threads -> Seq(AllSteps)] /\ todo'[t] = n
      /\ \A u \in Threads : u # t => todo'[u] = todo[u]
  BY <1>5, <1>6
<1>8. \A u \in Threads : todo'[u] \in Seq(StepsOf[u]) /\ WellFormed(todo'[u])
  BY <1>2, <1>4, <1>7 DEF Lists
<1>9. Lists'
  BY <1>7, <1>8 DEF Lists
<1>10. todo[t][1] = h
  BY <1>1, <1>2 DEF Replaces
<1> QED
  BY <1>2, <1>7, <1>9, <1>10

LEMMA FillsLists ==
  ASSUME Lists, NEW t \in Threads, NEW l \in Seq(StepsOf[t]), WellFormed(l),
         Fills(t, l)
  PROVE  /\ Lists' /\ todo'[t] = l
         /\ \A u \in Threads : u # t => todo'[u] = todo[u]
<1>1. todo \in [Threads -> Seq(AllSteps)] /\ l \in Seq(AllSteps)
  BY StepSets DEF Lists
<1>2. /\ todo' \in [Threads -> Seq(AllSteps)] /\ todo'[t] = l
      /\ \A u \in Threads : u # t => todo'[u] = todo[u]
  BY <1>1 DEF Fills
<1>3. \A u \in Threads : todo'[u] \in Seq(StepsOf[u]) /\ WellFormed(todo'[u])
  BY <1>2 DEF Lists
<1> QED
  BY <1>2, <1>3 DEF Lists

\* What a thread still has to do, after a step of one of them
LEMMA MovesMembers ==
  ASSUME NEW s, NEW l, NEW n, Replaces(n, s, l), NEW x
  PROVE  /\ Member(n, x) => Member(s, x) \/ Member(l, x)
         /\ Member(s, x) => Member(n, x)
         /\ Member(l, x) /\ x # l[1] => Member(n, x)
<1>1. ASSUME NEW i \in 1 .. Len(n), n[i] = x PROVE Member(s, x) \/ Member(l, x)
  <2>1. CASE i <= Len(s)
    BY <1>1, <2>1 DEF Replaces, Member
  <2>2. CASE i > Len(s)
    <3>1. PICK j \in 2 .. Len(l) : l[j] = x
      BY <1>1, <2>2 DEF Replaces
    <3>2. j \in 1 .. Len(l)
      BY DEF Replaces
    <3> QED
      BY <3>1, <3>2 DEF Member
  <2> QED
    BY <2>1, <2>2 DEF Replaces
<1>2. ASSUME NEW i \in 1 .. Len(s), s[i] = x PROVE Member(n, x)
  <2>1. i \in 1 .. Len(n) /\ n[i] = x
    BY <1>2 DEF Replaces
  <2> QED
    BY <2>1 DEF Member
<1>3. ASSUME NEW i \in 1 .. Len(l), l[i] = x, x # l[1] PROVE Member(n, x)
  <2>1. i \in 2 .. Len(l)
    BY <1>3 DEF Replaces
  <2>2. i + Len(s) - 1 \in 1 .. Len(n) /\ n[i + Len(s) - 1] = x
    BY <1>3, <2>1 DEF Replaces
  <2> QED
    BY <2>2 DEF Member
<1> QED
  BY <1>1, <1>2, <1>3 DEF Member

-------------------------------------------------------------------------------
(* A step that leaves alone what a conjunct speaks of keeps the conjunct. *)

LEMMA WaitingIs ==
  ASSUME Lists
  PROVE  Waiting <=> Len(todo["bus"]) > 0 /\ todo["bus"][1] = "wait"
<1>1. todo["bus"] \in Seq(StepsOf["bus"])
  BY DEF Lists, Threads
<1> QED
  BY <1>1 DEF Waiting, At

LEMMA BriefMembers ==
  ASSUME NEW s, Brief(s), NEW x, x \notin PlainSteps, x # "flush"
  PROVE  ~Member(s, x)
BY DEF Brief, Member

LEMMA MovesPicked ==
  ASSUME Lists, NEW t \in Threads, NEW h, NEW s \in Seq(StepsOf[t]), Brief(s),
         s = <<>> \/ t # "bus", Moves(t, h, s), PickedIsItem, picked' = picked
  PROVE  PickedIsItem'
<1>1. ASSUME Member(todo'["main"], "again") PROVE Member(todo["main"], "again")
  <2>1. CASE t = "main"
    BY <1>1, <2>1, MovesLists, MovesMembers, BriefMembers DEF PlainSteps
  <2>2. CASE t # "main"
    BY <1>1, <2>2, MovesLists DEF Threads
  <2> QED
    BY <2>1, <2>2
<1> QED
  BY <1>1 DEF PickedIsItem, Has

LEMMA MovesHas ==
  ASSUME Lists, NEW t \in Threads, NEW h, NEW s \in Seq(StepsOf[t]), Brief(s),
         s = <<>> \/ t # "bus", Moves(t, h, s),
         NEW u \in Threads, NEW x, x # h, Has(u, x)
  PROVE  Has(u, x)'
<1>1. CASE t = u
  BY <1>1, MovesLists, MovesMembers DEF Has
<1>2. CASE t # u
  BY <1>2, MovesLists DEF Has
<1> QED
  BY <1>1, <1>2

LEMMA MovesLocated ==
  ASSUME Lists, NEW t \in Threads, NEW h, NEW s \in Seq(StepsOf[t]), Brief(s),
         s = <<>> \/ t # "bus", Moves(t, h, s), Located,
         uri' = uri, current' = current, h # "set", h # "again"
  PROVE  Located'
<1>1. CASE uri = current
  BY <1>1 DEF Located
<1>2. ASSUME NEW u \in Threads, Has(u, "set") PROVE Located'
  <2>1. Has(u, "set")'
    BY <1>2, MovesHas
  <2> QED
    BY <2>1 DEF Located
<1>3. ASSUME NEW u \in Threads, Has(u, "again") PROVE Located'
  <2>1. Has(u, "again")'
    BY <1>3, MovesHas
  <2> QED
    BY <2>1 DEF Located
<1> QED
  BY <1>1, <1>2, <1>3 DEF Located

LEMMA MovesLeft ==
  ASSUME Lists, NEW t \in Threads, NEW h, NEW s \in Seq(StepsOf[t]), Brief(s),
         s = <<>> \/ t # "bus", Moves(t, h, s), Left,
         gbexit' = gbexit, h # "exit"
  PROVE  Left'
<1>1. CASE gbexit
  BY <1>1 DEF Left
<1>2. ASSUME NEW u \in Threads, Has(u, "exit") PROVE Left'
  <2>1. Has(u, "exit")'
    BY <1>2, MovesHas
  <2> QED
    BY <2>1 DEF Left
<1> QED
  BY <1>1, <1>2 DEF Left

LEMMA MovesWaiting ==
  ASSUME Lists, NEW t \in Threads, NEW h, NEW s \in Seq(StepsOf[t]), Brief(s),
         s = <<>> \/ t # "bus", Moves(t, h, s), h # "EOS", h # "wait"
  PROVE  Waiting' <=> Waiting
<1>1. /\ Lists' /\ Replaces(todo'[t], s, todo[t]) /\ todo[t][1] = h
      /\ \A u \in Threads : u # t => todo'[u] = todo[u]
  BY MovesLists
<1>2. Waiting <=> Len(todo["bus"]) > 0 /\ todo["bus"][1] = "wait"
  BY WaitingIs
<1>3. Waiting' <=> Len(todo'["bus"]) > 0 /\ todo'["bus"][1] = "wait"
  <2>1. todo'["bus"] \in Seq(StepsOf["bus"])
    BY <1>1 DEF Lists, Threads
  <2> QED
    BY <2>1 DEF Waiting, At
<1>4. CASE t # "bus"
  BY <1>1, <1>2, <1>3, <1>4 DEF Threads
<1>5. CASE t = "bus"
  <2>1. ~Waiting
    BY <1>1, <1>2, <1>5
  <2>2. SUFFICES ASSUME Waiting' PROVE FALSE
    BY <2>1
  <2>3. Len(s) = 0
    BY <1>5
  <2>4. 2 \in 1 .. Len(todo["bus"]) /\ todo["bus"][2] = "wait"
    BY <1>1, <1>3, <1>5, <2>2, <2>3 DEF Replaces
  <2>5. PlaceOK(todo["bus"], 2)
    BY <2>4 DEF Lists, WellFormed, Threads
  <2>6. todo["bus"][1] = "EOS"
    BY <2>4, <2>5 DEF PlaceOK
  <2> QED
    BY <1>1, <1>5, <2>6
<1> QED
  BY <1>4, <1>5

LEMMA MovesPosting ==
  ASSUME Lists, NEW t \in Threads, NEW h, NEW s \in Seq(StepsOf[t]), Brief(s),
         s = <<>> \/ t # "bus", Moves(t, h, s), h # "post"
  PROVE  Posting' <=> Posting
<1>1. CASE t # "msg"
  BY <1>1, MovesLists DEF Posting, Has, Threads
<1>2. CASE t = "msg"
  <2>1. Replaces(todo'["msg"], s, todo["msg"]) /\ todo["msg"][1] = h
    BY <1>2, MovesLists
  <2> QED
    BY <2>1, MovesMembers, BriefMembers DEF Posting, Has, PlainSteps
<1> QED
  BY <1>1, <1>2

LEMMA MovesAnswer ==
  ASSUME Lists, NEW t \in Threads, NEW h, NEW s \in Seq(StepsOf[t]), Brief(s),
         s = <<>> \/ t # "bus", Moves(t, h, s), OneAnswer,
         queue' = queue, eos_semaphore' = eos_semaphore, gbexit' = gbexit,
         h \notin {"EOS", "wait", "post", "exit"}
  PROVE  OneAnswer'
<1>1. Waiting' <=> Waiting
  BY MovesWaiting
<1>2. Posting' <=> Posting
  BY MovesPosting
<1>3. Left => Left'
  BY MovesLeft
<1>4. Ends' = Ends
  BY DEF Ends
<1> QED
  BY <1>1, <1>2, <1>3, <1>4 DEF OneAnswer

LEMMA Neutral ==
  ASSUME IInv, NEW t \in Threads, NEW h, NEW s \in Seq(StepsOf[t]), Brief(s),
         s = <<>> \/ t # "bus", Moves(t, h, s),
         uri' = uri, current' = current, picked' = picked,
         queue' = queue, eos_semaphore' = eos_semaphore, gbexit' = gbexit,
         h \notin {"EOS", "wait", "post", "exit", "set", "again"}
  PROVE  Lists' /\ PickedIsItem' /\ OneAnswer' /\ Located'
<1>1. Lists /\ PickedIsItem /\ OneAnswer /\ Located
  BY DEF IInv
<1>2. Lists'
  BY <1>1, MovesLists
<1>3. PickedIsItem'
  BY <1>1, MovesPicked
<1>4. OneAnswer'
  BY <1>1, MovesAnswer
<1>5. Located'
  BY <1>1, MovesLocated
<1> QED
  BY <1>2, <1>3, <1>4, <1>5

-------------------------------------------------------------------------------
(* Types, and a player that is paused or stopped *)

PipelineType ==
  /\ gst \in {"NULL", "READY", "PAUSED", "PLAYING"} /\ ended \in BOOLEAN
  /\ bus \in Seq({"EOS", "ERROR"} \cup Buffering)
  /\ player_state \in {"STOPPED", "PAUSED", "PLAYING", "TRICK"}
  /\ strayed \in BOOLEAN

QueueType == queue \in Seq(Messages) /\ asleep \in BOOLEAN /\ eos_semaphore \in Nat

OptType ==
  /\ uri \in Items /\ current \in Items /\ repeat \in Modes
  /\ play_times \in Int /\ picked \in Items \cup {NoItem}

FlagType ==
  /\ handle_buffering \in BOOLEAN /\ gbexit \in BOOLEAN /\ quit \in BOOLEAN
  /\ typed \in 0 .. MaxCommands /\ sent \in 0 .. MaxSent

LEMMA TypeParts ==
  TypeOK <=> PipelineType /\ QueueType /\ OptType /\ FlagType /\ DOMAIN todo = Threads
BY Zenon DEF TypeOK, PipelineType, QueueType, OptType, FlagType

LEMMA TypePartsNext ==
  TypeOK' <=> /\ PipelineType' /\ QueueType' /\ OptType' /\ FlagType'
              /\ DOMAIN todo' = Threads
BY Zenon DEF TypeOK, PipelineType, QueueType, OptType, FlagType

LEMMA InitIInv == Init => IInv
<1> SUFFICES ASSUME Init PROVE IInv
  OBVIOUS
<1> USE GPlayerAssumption
<1>1. PICK o \in Options :
        /\ repeat = o.repeat /\ play_times = o.play_times
        /\ handle_buffering = o.handle_buffering
  BY DEF Init
<1>2. /\ repeat \in Modes /\ play_times \in Int /\ handle_buffering \in BOOLEAN
  BY <1>1 DEF Modes
<1>3. TypeOK
  <2>1. DOMAIN todo = Threads
    BY DEF Init, Threads
  <2>2. PipelineType
    <3>1. bus \in Seq({"EOS", "ERROR"} \cup Buffering)
      BY DEF Init
    <3>2. ended \in BOOLEAN /\ strayed \in BOOLEAN /\ gst = "NULL"
          /\ player_state = "STOPPED"
      BY Zenon DEF Init
    <3> QED
      BY <3>1, <3>2, Zenon DEF PipelineType
  <2>3. QueueType
    <3>1. queue \in Seq(Messages) /\ eos_semaphore \in Nat
      BY DEF Init
    <3>2. asleep \in BOOLEAN
      BY Zenon DEF Init
    <3> QED
      BY <3>1, <3>2, Zenon DEF QueueType
  <2>4. OptType
    BY <1>2 DEF Init, OptType, Items, NoItem
  <2>5. FlagType
    <3>1. typed \in 0 .. MaxCommands /\ sent \in 0 .. MaxSent
      BY DEF Init
    <3>2. handle_buffering \in BOOLEAN /\ gbexit \in BOOLEAN /\ quit \in BOOLEAN
      BY <1>2, Zenon DEF Init
    <3> QED
      BY <3>1, <3>2, Zenon DEF FlagType
  <2> QED
    BY <2>1, <2>2, <2>3, <2>4, <2>5, TypeParts
<1>4. /\ todo["bus"] = <<>> /\ todo["msg"] = <<"top">>
      /\ todo["main"] = <<"set", "play", "top">>
  BY DEF Init
<1>5. /\ todo["bus"] \in Seq(StepsOf["bus"]) /\ todo["msg"] \in Seq(StepsOf["msg"])
      /\ todo["main"] \in Seq(StepsOf["main"])
  BY <1>4 DEF StepsOf
<1>6. /\ WellFormed(todo["bus"]) /\ WellFormed(todo["msg"])
      /\ WellFormed(todo["main"])
  <2>1. WellFormed(todo["bus"])
    BY <1>4 DEF WellFormed
  <2>2. PlaceOK(todo["msg"], 1)
    BY <1>4 DEF PlaceOK
  <2>3. \A i \in 1 .. 3 : PlaceOK(todo["main"], i)
    BY <1>4 DEF PlaceOK
  <2> QED
    BY <1>4, <2>1, <2>2, <2>3 DEF WellFormed
<1>7. Lists
  <2>1. \A t \in Threads : todo[t] \in Seq(StepsOf[t]) /\ WellFormed(todo[t])
    BY <1>5, <1>6 DEF Threads
  <2>2. todo = [t \in Threads |-> todo[t]]
    BY DEF Init, Threads
  <2>3. \A t \in Threads : todo[t] \in Seq(AllSteps)
    BY <2>1, StepSets
  <2> HIDE DEF Lists
  <2>4. todo \in [Threads -> Seq(AllSteps)]
    BY <2>2, <2>3
  <2> QED
    BY <2>1, <2>4 DEF Lists
<1>8. PickedIsItem
  BY <1>4 DEF PickedIsItem, Has, Member
<1>9. OneAnswer
  <2>1. ~Posting
    BY <1>4 DEF Posting, Has, Member
  <2>2. ~Waiting
    BY <1>4 DEF Waiting, At
  <2>3. Ends = {} /\ eos_semaphore = 0
    BY DEF Init, Ends
  <2> QED
    BY <2>1, <2>2, <2>3 DEF OneAnswer
<1>10. PausedIsQuiet /\ Located
  BY DEF Init, PausedIsQuiet, Located
<1> QED
  BY <1>3, <1>7, <1>8, <1>9, <1>10 DEF IInv

\* What a step leaves alone keeps its type.
LEMMA SameTypes ==
  /\ OptType /\ uri' = uri /\ UNCHANGED opt => OptType'
  /\ QueueType /\ UNCHANGED <<messages, eos_semaphore>> => QueueType'
  /\ FlagType /\ UNCHANGED flags => FlagType'
  /\ PipelineType /\ UNCHANGED <<gst, ended, bus, player_state, strayed>> => PipelineType'
  /\ PausedIsQuiet /\ UNCHANGED <<gst, player_state, strayed>> => PausedIsQuiet'
<1>1. OptType /\ uri' = uri /\ UNCHANGED opt => OptType'
  BY DEF OptType, opt
<1>2. QueueType /\ UNCHANGED <<messages, eos_semaphore>> => QueueType'
  BY DEF QueueType, messages
<1>3. FlagType /\ UNCHANGED flags => FlagType'
  BY DEF FlagType, flags
<1>4. PipelineType /\ UNCHANGED <<gst, ended, bus, player_state, strayed>> => PipelineType'
  BY DEF PipelineType
<1>5. PausedIsQuiet /\ UNCHANGED <<gst, player_state, strayed>> => PausedIsQuiet'
  BY DEF PausedIsQuiet
<1> QED
  BY <1>1, <1>2, <1>3, <1>4, <1>5

LEMMA InvParts ==
  /\ IInv => /\ PipelineType /\ QueueType /\ OptType /\ FlagType
             /\ DOMAIN todo = Threads /\ Lists /\ PickedIsItem /\ OneAnswer
             /\ PausedIsQuiet /\ Located
  /\ /\ PipelineType' /\ QueueType' /\ OptType' /\ FlagType'
     /\ Lists' /\ PickedIsItem' /\ OneAnswer' /\ PausedIsQuiet' /\ Located'
     => IInv'
<1>1. Lists' => DOMAIN todo' = Threads
  BY DEF Lists
<1> QED
  BY <1>1, TypeParts, TypePartsNext DEF IInv

\* A step that reads and writes what the pipeline shows, and little else
LEMMA NeutralStep ==
  ASSUME IInv, NEW t \in Threads, NEW h, NEW s \in Seq(StepsOf[t]), Brief(s),
         s = <<>> \/ t # "bus", Moves(t, h, s),
         UNCHANGED <<uri, messages, eos_semaphore, current, picked, gbexit>>,
         h \notin {"EOS", "wait", "post", "exit", "set", "again"},
         OptType', FlagType', PipelineType', PausedIsQuiet'
  PROVE  IInv'
<1>1. /\ uri' = uri /\ current' = current /\ picked' = picked
      /\ queue' = queue /\ eos_semaphore' = eos_semaphore /\ gbexit' = gbexit
  BY DEF messages
<1>2. Lists' /\ PickedIsItem' /\ OneAnswer' /\ Located'
  BY <1>1, Neutral
<1>3. QueueType'
  BY SameTypes, InvParts
<1> QED
  BY <1>2, <1>3, InvParts

LEMMA ReachType ==
  ASSUME PipelineType, NEW target \in {"NULL", "READY", "PAUSED", "PLAYING"},
         Reach(target), strayed' \in BOOLEAN,
         player_state' \in {"STOPPED", "PAUSED", "PLAYING", "TRICK"}
  PROVE  PipelineType' /\ gst' = target
<1>1. gst' = target
  BY DEF Reach
<1>2. ended' \in BOOLEAN
  BY Zenon DEF Reach
<1>3. bus' \in Seq({"EOS", "ERROR"} \cup Buffering)
  BY DEF Reach, PipelineType
<1> QED
  BY <1>1, <1>2, <1>3, Zenon DEF PipelineType

LEMMA ThreadBus ==
  "bus" \in Threads /\ "msg" \in Threads /\ "main" \in Threads
BY DEF Threads

\* A thread that is about to do a step has it among its steps.
LEMMA AtStep ==
  ASSUME Lists, NEW t \in Threads, NEW h, At(t, h)
  PROVE  h \in StepsOf[t] /\ todo[t] # <<>> /\ todo[t][1] = h /\ Len(todo[t]) > 0
<1>1. todo[t] \in Seq(StepsOf[t]) /\ todo[t] # <<>> /\ Head(todo[t]) = h
  BY DEF Lists, At
<1> QED
  BY <1>1

LEMMA NoSteps == \A t \in Threads : <<>> \in Seq(StepsOf[t]) /\ Brief(<<>>)
BY DEF Brief

LEMMA StopStep ==
  ASSUME IInv, NEW t \in Threads, Stop(t) PROVE IInv'
<1>1. Moves(t, "stop", <<>>)
  BY DEF Stop, At, Then, Moves
<1>2. PipelineType' /\ gst' = "READY"
  <2>1. Reach("READY") /\ strayed' \in BOOLEAN /\ player_state' = "STOPPED"
    BY Zenon DEF Stop, PollTrue
  <2> QED
    BY <2>1, InvParts, ReachType
<1>3. PausedIsQuiet'
  BY <1>2 DEF PausedIsQuiet
<1>4. UNCHANGED <<uri, messages, eos_semaphore, opt, flags>>
  BY DEF Stop
<1>5. OptType' /\ FlagType' /\ UNCHANGED <<current, picked, gbexit>>
  BY <1>4, InvParts, SameTypes DEF opt, flags
<1> QED
  BY <1>1, <1>2, <1>3, <1>4, <1>5, NoSteps, NeutralStep

LEMMA PlayStep ==
  ASSUME IInv, NEW t \in Threads, Play(t) PROVE IInv'
<1>1. Moves(t, "play", <<>>)
  BY DEF Play, At, Then, Moves
<1>2. PipelineType' /\ PausedIsQuiet'
  <2>1. CASE PollTrue("PLAYING") /\ player_state' = "PLAYING"
    <3>1. Reach("PLAYING") /\ strayed' \in BOOLEAN
      BY <2>1, Zenon DEF PollTrue
    <3> QED
      BY <2>1, <3>1, InvParts, ReachType DEF PausedIsQuiet
  <2>2. CASE PollTrue("NULL") /\ UNCHANGED player_state
    <3>1. Reach("NULL") /\ strayed' \in BOOLEAN
      BY <2>2, Zenon DEF PollTrue
    <3>2. player_state' \in {"STOPPED", "PAUSED", "PLAYING", "TRICK"}
      BY <2>2, InvParts DEF PipelineType
    <3> QED
      BY <3>1, <3>2, InvParts, ReachType DEF PausedIsQuiet
  <2> QED
    BY <2>1, <2>2 DEF Play
<1>4. UNCHANGED <<uri, messages, eos_semaphore, opt, flags>>
  BY DEF Play
<1>5. OptType' /\ FlagType' /\ UNCHANGED <<current, picked, gbexit>>
  BY <1>4, InvParts, SameTypes DEF opt, flags
<1> QED
  BY <1>1, <1>2, <1>4, <1>5, NoSteps, NeutralStep

LEMMA PollFalseStep ==
  ASSUME IInv, NEW target \in {"PAUSED", "PLAYING"}, PollFalse(target),
         player_state' = player_state
  PROVE  PipelineType' /\ PausedIsQuiet'
<1>1. CASE UNCHANGED <<gst, ended, bus, strayed>>
  BY <1>1, InvParts, SameTypes
<1>2. CASE Reach(target) /\ strayed' = TRUE
  <2>1. player_state' \in {"STOPPED", "PAUSED", "PLAYING", "TRICK"}
    BY InvParts DEF PipelineType
  <2>2. Reach(target) /\ strayed' \in BOOLEAN /\ strayed' = TRUE
    BY <1>2, Zenon
  <2> QED
    BY <2>1, <2>2, InvParts, ReachType DEF PausedIsQuiet
<1> QED
  BY <1>1, <1>2 DEF PollFalse

LEMMA PauseStep ==
  ASSUME IInv, NEW t \in Threads, Pause(t) PROVE IInv'
<1>1. Moves(t, "pause", <<>>)
  BY DEF Pause, At, Then, Moves
<1>2. ASSUME NEW target \in {"PAUSED", "PLAYING"}, PollTrue(target),
             player_state' = target
      PROVE  PipelineType' /\ PausedIsQuiet'
  <2>1. Reach(target) /\ strayed' \in BOOLEAN
    BY <1>2, Zenon DEF PollTrue
  <2> QED
    BY <1>2, <2>1, InvParts, ReachType DEF PausedIsQuiet
<1>3. PipelineType' /\ PausedIsQuiet'
  <2>1. CASE player_state = "PAUSED"
    <3>1. \/ PollTrue("PLAYING") /\ player_state' = "PLAYING"
          \/ PollFalse("PLAYING") /\ player_state' = player_state
      BY <2>1, Zenon DEF Pause, PollTrue, PollFalse, Reach
    <3> QED
      BY <1>2, <3>1, PollFalseStep
  <2>2. CASE player_state # "PAUSED"
    <3>1. \/ PollTrue("PAUSED") /\ player_state' = "PAUSED"
          \/ PollFalse("PAUSED") /\ player_state' = player_state
      BY <2>2, Zenon DEF Pause, PollTrue, PollFalse, Reach
    <3> QED
      BY <1>2, <3>1, PollFalseStep
  <2> QED
    BY <2>1, <2>2
<1>4. UNCHANGED <<uri, messages, eos_semaphore, opt, flags>>
  BY DEF Pause
<1>5. OptType' /\ FlagType' /\ UNCHANGED <<current, picked, gbexit>>
  BY <1>4, InvParts, SameTypes DEF opt, flags
<1> QED
  BY <1>1, <1>3, <1>4, <1>5, NoSteps, NeutralStep

LEMMA SeekStep ==
  ASSUME IInv, NEW t \in Threads, Seek(t) PROVE IInv'
<1>1. Moves(t, "seek", <<>>)
  BY DEF Seek, At, Then, Moves
<1>2. ended' \in BOOLEAN
  BY Zenon DEF Seek
<1>3. PipelineType' /\ PausedIsQuiet'
  BY <1>2, InvParts DEF Seek, PipelineType, PausedIsQuiet
<1>4. UNCHANGED <<uri, messages, eos_semaphore, opt, flags>>
  BY DEF Seek
<1>5. OptType' /\ FlagType' /\ UNCHANGED <<current, picked, gbexit>>
  BY <1>4, InvParts, SameTypes DEF opt, flags
<1> QED
  BY <1>1, <1>3, <1>4, <1>5, NoSteps, NeutralStep

LEMMA RateStep ==
  ASSUME IInv, Rate("main") PROVE IInv'
<1>1. UNCHANGED <<pipeline, bus, messages, eos_semaphore, player_state, opt,
                  flags, strayed>>
  BY DEF Rate
<1>2. OptType' /\ FlagType' /\ UNCHANGED <<uri, current, picked, gbexit>>
  BY <1>1, InvParts, SameTypes DEF opt, flags, pipeline
<1>3. PipelineType' /\ PausedIsQuiet'
  BY <1>1, InvParts, SameTypes DEF pipeline
<1>4. ASSUME NEW s \in {<<"pause", "play", "event">>, <<"play", "event">>},
             Moves("main", "rate", s)
      PROVE  IInv'
  BY <1>1, <1>2, <1>3, <1>4, BriefLists, ThreadBus, NeutralStep
<1>5. CASE player_state = "PLAYING"
  <2>1. Moves("main", "rate", <<"pause", "play", "event">>)
    BY <1>5, Zenon DEF Rate, At, Then, Moves
  <2> QED
    BY <1>4, <2>1
<1>6. CASE player_state # "PLAYING"
  <2>1. Moves("main", "rate", <<"play", "event">>)
    BY <1>6, Zenon DEF Rate, At, Then, Moves
  <2> QED
    BY <1>4, <2>1
<1> QED
  BY <1>5, <1>6

LEMMA RateEventStep ==
  ASSUME IInv, NEW t \in Threads, RateEvent(t) PROVE IInv'
<1>1. Moves(t, "event", <<>>)
  BY DEF RateEvent, At, Then, Moves
<1>2. ended' \in BOOLEAN /\ PipelineType
  <2>1. ended \in BOOLEAN /\ PipelineType
    BY InvParts, Zenon DEF PipelineType
  <2> QED
    BY <2>1, Zenon DEF RateEvent
<1>3. PipelineType' /\ PausedIsQuiet'
  BY <1>2, InvParts DEF RateEvent, PipelineType, PausedIsQuiet
<1>4. UNCHANGED <<uri, messages, eos_semaphore, opt, flags>>
  BY DEF RateEvent
<1>5. OptType' /\ FlagType' /\ UNCHANGED <<current, picked, gbexit>>
  BY <1>4, InvParts, SameTypes DEF opt, flags
<1> QED
  BY <1>1, <1>3, <1>4, <1>5, NoSteps, NeutralStep

LEMMA SetRepeatStep ==
  ASSUME IInv, NEW t \in Threads, SetRepeat(t) PROVE IInv'
<1>1. Moves(t, "repeat", <<>>)
  BY DEF SetRepeat, At, Then, Moves
<1>2. UNCHANGED <<pipeline, bus, messages, eos_semaphore, player_state,
                  current, play_times, picked, flags, strayed>>
      /\ repeat' \in Modes
  BY DEF SetRepeat
<1>3. PipelineType' /\ PausedIsQuiet' /\ FlagType' /\ gbexit' = gbexit
  BY <1>2, InvParts, SameTypes DEF pipeline, flags
<1>4. OptType' /\ UNCHANGED <<uri, messages, eos_semaphore, current, picked>>
  BY <1>2, InvParts DEF OptType, pipeline
<1> QED
  BY <1>1, <1>3, <1>4, NoSteps, NeutralStep

LEMMA NullStep ==
  ASSUME IInv, Null PROVE IInv'
<1>1. Moves("main", "null", <<>>)
  BY DEF Null, At, Then, Moves
<1>2. PipelineType' /\ PausedIsQuiet'
  <2>1. Reach("NULL") /\ strayed' \in BOOLEAN /\ player_state' = player_state
    BY Zenon DEF Null, PollTrue
  <2>2. player_state' \in {"STOPPED", "PAUSED", "PLAYING", "TRICK"}
    BY <2>1, InvParts DEF PipelineType
  <2> QED
    BY <2>1, <2>2, InvParts, ReachType DEF PausedIsQuiet
<1>3. UNCHANGED <<uri, messages, eos_semaphore, opt, gbexit, handle_buffering,
                  typed, sent>> /\ quit' = TRUE
  BY DEF Null
<1>4. OptType' /\ UNCHANGED <<current, picked, gbexit>>
  BY <1>3, InvParts, SameTypes DEF opt
<1>5. FlagType'
  <2>1. typed' \in 0 .. MaxCommands /\ sent' \in 0 .. MaxSent
    BY <1>3, InvParts DEF FlagType
  <2> QED
    BY <1>3, <2>1, InvParts, Zenon DEF FlagType
<1> QED
  BY <1>1, <1>2, <1>3, <1>4, <1>5, NoSteps, ThreadBus, NeutralStep

LEMMA JoinStep ==
  ASSUME IInv, NEW t \in {"msg", "bus"}, Join(t) PROVE IInv'
<1>1. Moves("main", Joins[t], <<>>)
  BY DEF Join, At, Then, Moves
<1>2. Joins[t] \in {"join msg", "join bus"}
  <2>1. Joins["msg"] = "join msg" /\ Joins["bus"] = "join bus"
    BY DEF Joins
  <2> QED
    BY <2>1
<1>3. UNCHANGED <<pipeline, bus, messages, eos_semaphore, player_state, opt,
                  flags, strayed>>
  BY DEF Join
<1>4. OptType' /\ FlagType' /\ UNCHANGED <<uri, current, picked, gbexit>>
  BY <1>3, InvParts, SameTypes DEF opt, flags, pipeline
<1>5. PipelineType' /\ PausedIsQuiet'
  BY <1>3, InvParts, SameTypes DEF pipeline
<1>6. Joins[t] \notin {"EOS", "wait", "post", "exit", "set", "again"}
  BY <1>2
<1> QED
  BY <1>1, <1>3, <1>4, <1>5, <1>6, NoSteps, ThreadBus, NeutralStep

LEMMA BufferStep ==
  ASSUME IInv, Buffer PROVE IInv'
<1>1. Moves("bus", "buffer", <<>>)
  BY DEF Buffer, At, Then, Moves
<1>2. PipelineType' /\ PausedIsQuiet'
  <2>1. CASE Reach("PAUSED") /\ strayed' = FALSE
    <3>1. player_state' \in {"STOPPED", "PAUSED", "PLAYING", "TRICK"}
      BY InvParts DEF PipelineType, Buffer
    <3>2. Reach("PAUSED") /\ strayed' \in BOOLEAN
      BY <2>1, Zenon
    <3> QED
      BY <3>1, <3>2, InvParts, ReachType DEF PausedIsQuiet
  <2>2. CASE UNCHANGED <<gst, ended, bus, strayed>>
    BY <2>2, InvParts, SameTypes DEF Buffer
  <2> QED
    BY <2>1, <2>2, Zenon DEF Buffer
<1>4. UNCHANGED <<uri, messages, eos_semaphore, opt, flags>>
  BY DEF Buffer
<1>5. OptType' /\ FlagType' /\ UNCHANGED <<current, picked, gbexit>>
  BY <1>4, InvParts, SameTypes DEF opt, flags
<1> QED
  BY <1>1, <1>2, <1>4, <1>5, NoSteps, ThreadBus, NeutralStep

LEMMA BufferedStep ==
  ASSUME IInv, Buffered PROVE IInv'
<1>1. Moves("bus", "buffered", <<>>)
  BY DEF Buffered, At, Then, Moves
<1>2. player_state' = player_state
  BY DEF Buffered
<1>3. PipelineType' /\ PausedIsQuiet'
  <2>1. CASE player_state = "PLAYING" /\ PollTrue("PLAYING")
    <3>1. player_state' \in {"STOPPED", "PAUSED", "PLAYING", "TRICK"}
      BY <1>2, InvParts DEF PipelineType
    <3>2. Reach("PLAYING") /\ strayed' \in BOOLEAN
      BY <2>1, Zenon DEF PollTrue
    <3>3. player_state' = "PLAYING"
      BY <1>2, <2>1
    <3> QED
      BY <3>1, <3>2, <3>3, InvParts, ReachType DEF PausedIsQuiet
  <2>2. CASE PollFalse("PLAYING")
    BY <1>2, <2>2, PollFalseStep
  <2>3. CASE UNCHANGED <<gst, ended, bus, strayed>>
    BY <1>2, <2>3, InvParts, SameTypes
  <2> QED
    BY <2>1, <2>2, <2>3, Zenon DEF Buffered
<1>4. UNCHANGED <<uri, messages, eos_semaphore, opt, flags>>
  BY DEF Buffered
<1>5. OptType' /\ FlagType' /\ UNCHANGED <<current, picked, gbexit>>
  BY <1>4, InvParts, SameTypes DEF opt, flags
<1> QED
  BY <1>1, <1>3, <1>4, <1>5, NoSteps, ThreadBus, NeutralStep

-------------------------------------------------------------------------------
(* The queue and the semaphore *)

LEMMA SetMediaLocationStep ==
  ASSUME IInv, NEW t \in Threads, SetMediaLocation(t) PROVE IInv'
<1>1. Moves(t, "set", <<>>)
  BY DEF SetMediaLocation, At, Then, Moves
<1>2. UNCHANGED <<gst, ended, bus, messages, eos_semaphore, player_state, opt,
                  flags, strayed>> /\ uri' = current
  BY DEF SetMediaLocation
<1>3. /\ queue' = queue /\ eos_semaphore' = eos_semaphore /\ gbexit' = gbexit
      /\ picked' = picked /\ current' = current
  BY <1>2 DEF messages, opt, flags
<1>4. Lists' /\ PickedIsItem' /\ OneAnswer'
  BY <1>1, <1>3, NoSteps, InvParts, MovesLists, MovesPicked, MovesAnswer
<1>5. Located'
  BY <1>2, <1>3 DEF Located
<1>6. OptType'
  BY <1>2, InvParts DEF OptType, opt
<1>7. PipelineType' /\ QueueType' /\ FlagType' /\ PausedIsQuiet'
  BY <1>2, InvParts, SameTypes
<1> QED
  BY <1>4, <1>5, <1>6, <1>7, InvParts

LEMMA SetExitStep ==
  ASSUME IInv, NEW t \in Threads, SetExit(t) PROVE IInv'
<1>1. Moves(t, "exit", <<>>)
  BY DEF SetExit, At, Then, Moves
<1>2. UNCHANGED <<pipeline, bus, messages, eos_semaphore, player_state, opt,
                  quit, handle_buffering, typed, sent, strayed>>
      /\ gbexit' = TRUE
  BY DEF SetExit
<1>3. /\ queue' = queue /\ eos_semaphore' = eos_semaphore
      /\ picked' = picked /\ current' = current /\ uri' = uri
  BY <1>2 DEF messages, opt, pipeline
<1>4. Lists' /\ PickedIsItem' /\ Located'
  BY <1>1, <1>3, NoSteps, InvParts, MovesLists, MovesPicked, MovesLocated
<1>5. OneAnswer'
  <2>1. (Waiting' <=> Waiting) /\ (Posting' <=> Posting)
    BY <1>1, NoSteps, InvParts, MovesWaiting, MovesPosting
  <2>2. Left'
    BY <1>2 DEF Left
  <2>3. Ends' = Ends
    BY <1>3 DEF Ends
  <2> QED
    BY <1>3, <2>1, <2>2, <2>3, InvParts DEF OneAnswer
<1>6. OptType' /\ PipelineType' /\ QueueType' /\ PausedIsQuiet'
  BY <1>2, InvParts, SameTypes DEF pipeline
<1>7. FlagType'
  <2>1. typed' \in 0 .. MaxCommands /\ sent' \in 0 .. MaxSent
    BY <1>2, InvParts DEF FlagType
  <2> QED
    BY <1>2, <2>1, InvParts, Zenon DEF FlagType
<1> QED
  BY <1>4, <1>5, <1>6, <1>7, InvParts

LEMMA AppendedQueue ==
  ASSUME queue \in Seq(Messages), NEW m \in Messages, queue' = Append(queue, m)
  PROVE  /\ queue' \in Seq(Messages)
         /\ Ends' = IF m = "EOS" THEN Ends \cup {Len(queue) + 1} ELSE Ends
<1>1. /\ queue' \in Seq(Messages) /\ Len(queue') = Len(queue) + 1
      /\ \A i \in 1 .. Len(queue) : queue'[i] = queue[i]
      /\ queue'[Len(queue) + 1] = m /\ Len(queue) \in Nat
  OBVIOUS
<1>2. Ends' = {i \in 1 .. Len(queue') : queue'[i] = "EOS"}
  BY DEF Ends
<1>3. \A i : i \in Ends' <=> i \in Ends \/ (i = Len(queue) + 1 /\ m = "EOS")
  BY <1>1, <1>2 DEF Ends
<1> QED
  BY <1>1, <1>3

LEMMA PutStep ==
  ASSUME IInv, NEW t \in Threads, Put(t) PROVE IInv'
<1>1. PICK m \in Messages \ Buffering :
        /\ At(t, m)
        /\ queue' = Append(queue, m)
        /\ asleep' = (asleep /\ queue # <<>>)
        /\ Then(t, <<>>)
        /\ UNCHANGED <<pipeline, bus, eos_semaphore, player_state, opt, flags,
                       strayed>>
  BY Zenon DEF Put
<1>2. Moves(t, m, <<>>)
  BY <1>1 DEF At, Then, Moves
<1>3. m \in Messages /\ m \in {"EOS", "EXIT", "INTERNAL_ERROR"}
  BY DEF Messages, Buffering
<1>4. /\ eos_semaphore' = eos_semaphore /\ gbexit' = gbexit /\ uri' = uri
      /\ picked' = picked /\ current' = current
  BY <1>1 DEF opt, flags, pipeline
<1>5. /\ queue' \in Seq(Messages)
      /\ Ends' = IF m = "EOS" THEN Ends \cup {Len(queue) + 1} ELSE Ends
  BY <1>1, InvParts, AppendedQueue DEF QueueType
<1>6. QueueType'
  <2>1. asleep' \in BOOLEAN
    BY <1>1, Zenon
  <2>2. eos_semaphore' \in Nat
    BY <1>4, InvParts DEF QueueType
  <2> QED
    BY <1>5, <2>1, <2>2, Zenon DEF QueueType
<1>7. OptType' /\ PipelineType' /\ FlagType' /\ PausedIsQuiet'
  BY <1>1, InvParts, SameTypes DEF pipeline
<1>8. Lists' /\ PickedIsItem' /\ Located'
  BY <1>2, <1>3, <1>4, NoSteps, InvParts, MovesLists, MovesPicked, MovesLocated
<1>9. (Posting' <=> Posting) /\ (Left => Left')
  BY <1>2, <1>3, <1>4, NoSteps, InvParts, MovesPosting, MovesLeft
<1>10. CASE m # "EOS"
  <2>1. Waiting' <=> Waiting
    BY <1>2, <1>3, <1>10, NoSteps, InvParts, MovesWaiting
  <2>2. OneAnswer'
    BY <1>4, <1>5, <1>9, <1>10, <2>1, InvParts DEF OneAnswer
  <2> QED
    BY <1>6, <1>7, <1>8, <2>2, InvParts
<1>11. CASE m = "EOS"
  <2>1. m \in StepsOf[t] /\ todo[t][1] = "EOS" /\ Len(todo[t]) > 0
        /\ todo[t] \in Seq(StepsOf[t])
    BY <1>1, <1>11, InvParts, AtStep DEF Lists
  <2>2. t = "bus"
    <3>1. "EOS" \notin StepsOf["msg"] /\ "EOS" \notin StepsOf["main"]
      BY DEF StepsOf
    <3> QED
      BY <1>11, <2>1, <3>1 DEF Threads
  <2>3. Len(todo[t]) \in Nat /\ PlaceOK(todo[t], 1)
    BY <2>1, InvParts DEF Lists, WellFormed
  <2>4. Len(todo["bus"]) = 2 /\ todo["bus"][2] = "wait" /\ todo["bus"][1] = "EOS"
    BY <2>1, <2>2, <2>3 DEF PlaceOK
  <2>5. ~Waiting
    BY <2>4, InvParts, WaitingIs
  <2>6. Waiting'
    <3>1. Replaces(todo'["bus"], <<>>, todo["bus"])
      BY <1>2, <2>2, NoSteps, InvParts, MovesLists
    <3>2. Len(todo'["bus"]) = 1 /\ todo'["bus"][1] = "wait"
      BY <2>4, <3>1 DEF Replaces
    <3>3. todo'["bus"] \in Seq(StepsOf["bus"])
      BY <1>8, ThreadBus DEF Lists
    <3> QED
      BY <3>2, <3>3 DEF Waiting, At
  <2>7. Ends = {} /\ ~Posting /\ eos_semaphore = 0
    BY <2>5, InvParts DEF OneAnswer
  <2>8. Ends' = {Len(queue) + 1}
    BY <1>5, <1>11, <2>7
  <2>9. OneAnswer'
    BY <1>4, <1>9, <2>6, <2>7, <2>8 DEF OneAnswer
  <2> QED
    BY <1>6, <1>7, <1>8, <2>9, InvParts
<1> QED
  BY <1>10, <1>11

LEMMA ReplaceStep ==
  ASSUME IInv, Replace("bus") PROVE IInv'
<1>1. PICK m \in Buffering :
        /\ At("bus", m)
        /\ queue' = IF queue = <<>> THEN <<m>>
                    ELSE IF Head(queue) \in Buffering THEN <<m>> \o Tail(queue)
                    ELSE queue
        /\ asleep' = (asleep /\ queue # <<>>)
        /\ Then("bus", <<>>)
        /\ UNCHANGED <<pipeline, bus, eos_semaphore, player_state, opt, flags,
                       strayed>>
  BY Zenon DEF Replace
<1>2. Moves("bus", m, <<>>)
  BY <1>1 DEF At, Then, Moves
<1>3. m \in Messages /\ m \in {"BUFFERING_0", "BUFFERING_100"}
  BY DEF Messages, Buffering
<1>4. /\ eos_semaphore' = eos_semaphore /\ gbexit' = gbexit /\ uri' = uri
      /\ picked' = picked /\ current' = current
  BY <1>1 DEF opt, flags, pipeline
<1>5. queue \in Seq(Messages)
  BY InvParts DEF QueueType
<1>6. queue' \in Seq(Messages) /\ Ends' = Ends
  <2>0. Ends' = {i \in 1 .. Len(queue') : queue'[i] = "EOS"}
    BY DEF Ends
  <2>1. CASE queue = <<>>
    <3>1. queue' = <<m>>
      BY <1>1, <2>1
    <3>2. queue' \in Seq(Messages) /\ Len(queue') = 1 /\ queue'[1] = m
      BY <1>3, <3>1
    <3> QED
      BY <1>3, <2>0, <2>1, <3>2 DEF Ends
  <2>2. CASE queue # <<>> /\ Head(queue) \in Buffering
    <3>1. queue' = <<m>> \o Tail(queue)
      BY <1>1, <2>2
    <3>2. <<m>> \in Seq(Messages) /\ Len(<<m>>) = 1 /\ <<m>>[1] = m
      BY <1>3
    <3>3. queue' \in Seq(Messages) /\ Replaces(queue', <<m>>, queue)
      BY <1>5, <2>2, <3>1, <3>2, Pushed
    <3>4. queue[1] # "EOS"
      BY <1>5, <2>2 DEF Buffering
    <3>5. /\ Len(queue') = Len(queue) /\ Len(queue) \in Nat /\ queue'[1] = m
          /\ \A i \in 2 .. Len(queue) : queue'[i] = queue[i]
      BY <3>2, <3>3 DEF Replaces
    <3>6. \A i \in 1 .. Len(queue) : queue'[i] = "EOS" <=> queue[i] = "EOS"
      BY <1>3, <3>4, <3>5
    <3> QED
      BY <2>0, <3>3, <3>5, <3>6 DEF Ends
  <2>3. CASE queue # <<>> /\ Head(queue) \notin Buffering
    BY <1>1, <1>5, <2>0, <2>3 DEF Ends
  <2> QED
    BY <2>1, <2>2, <2>3
<1>7. QueueType'
  <2>1. asleep' \in BOOLEAN
    BY <1>1, Zenon
  <2>2. eos_semaphore' \in Nat
    BY <1>4, InvParts DEF QueueType
  <2> QED
    BY <1>6, <2>1, <2>2, Zenon DEF QueueType
<1>8. OptType' /\ PipelineType' /\ FlagType' /\ PausedIsQuiet'
  BY <1>1, InvParts, SameTypes DEF pipeline
<1>9. Lists' /\ PickedIsItem' /\ Located'
  BY <1>2, <1>3, <1>4, NoSteps, ThreadBus, InvParts, MovesLists, MovesPicked,
     MovesLocated
<1>10. (Posting' <=> Posting) /\ (Left => Left') /\ (Waiting' <=> Waiting)
  BY <1>2, <1>3, <1>4, NoSteps, ThreadBus, InvParts, MovesPosting, MovesLeft,
     MovesWaiting
<1>11. OneAnswer'
  BY <1>4, <1>6, <1>10, InvParts DEF OneAnswer
<1> QED
  BY <1>7, <1>8, <1>9, <1>11, InvParts

LEMMA SleepStep ==
  ASSUME IInv, Sleep PROVE IInv'
<1>1. /\ asleep' = TRUE /\ todo' = todo
      /\ UNCHANGED <<pipeline, bus, queue, eos_semaphore, player_state, opt, flags,
                     strayed>>
  BY DEF Sleep
<1>2. OptType' /\ PipelineType' /\ FlagType' /\ PausedIsQuiet'
  BY <1>1, InvParts, SameTypes DEF pipeline
<1>3. QueueType'
  BY <1>1, InvParts DEF QueueType
<1>4. /\ uri' = uri /\ current' = current /\ picked' = picked /\ gbexit' = gbexit
      /\ queue' = queue /\ eos_semaphore' = eos_semaphore
  BY <1>1 DEF pipeline, opt, flags
<1>5. Lists' /\ PickedIsItem' /\ Located'
  BY <1>1, <1>4, InvParts DEF Lists, PickedIsItem, Located, Has
<1>6. (Waiting' <=> Waiting) /\ (Posting' <=> Posting) /\ (Left' <=> Left)
      /\ Ends' = Ends
  BY <1>1, <1>4 DEF Waiting, Posting, Left, Has, Ends, At
<1>7. OneAnswer'
  BY <1>4, <1>6, InvParts DEF OneAnswer
<1> QED
  BY <1>2, <1>3, <1>5, <1>7, InvParts

\* A thread whose list was empty, or had one step left, gets a new list.
LEMMA FillsHas ==
  ASSUME Lists, NEW t \in Threads, NEW l \in Seq(StepsOf[t]), WellFormed(l),
         Fills(t, l), NEW u \in Threads, NEW x, ~Has(t, x), Has(u, x)
  PROVE  Has(u, x)'
<1>1. u # t
  OBVIOUS
<1> QED
  BY <1>1, FillsLists DEF Has

LEMMA FillsLeft ==
  ASSUME Lists, NEW t \in Threads, NEW l \in Seq(StepsOf[t]), WellFormed(l),
         Fills(t, l), ~Has(t, "exit"), Left, gbexit' = gbexit
  PROVE  Left'
<1>1. CASE gbexit
  BY <1>1 DEF Left
<1>2. ASSUME NEW u \in Threads, Has(u, "exit") PROVE Left'
  <2>1. Has(u, "exit")'
    BY <1>2, FillsHas
  <2> QED
    BY <2>1 DEF Left
<1> QED
  BY <1>1, <1>2 DEF Left

LEMMA FillsLocated ==
  ASSUME Lists, NEW t \in Threads, NEW l \in Seq(StepsOf[t]), WellFormed(l),
         Fills(t, l), ~Has(t, "set"), ~Has(t, "again"), Located,
         uri' = uri, current' = current
  PROVE  Located'
<1>1. CASE uri = current
  BY <1>1 DEF Located
<1>2. ASSUME NEW u \in Threads, NEW x \in {"set", "again"}, Has(u, x)
      PROVE  Located'
  <2>1. Has(u, x)'
    BY <1>2, FillsHas
  <2> QED
    BY <2>1 DEF Located
<1> QED
  BY <1>1, <1>2 DEF Located

LEMMA FillsWaiting ==
  ASSUME Lists, NEW t \in Threads, NEW l \in Seq(StepsOf[t]), WellFormed(l),
         Fills(t, l), t = "bus" => ~Waiting /\ (l = <<>> \/ l[1] # "wait")
  PROVE  Waiting' <=> Waiting
<1>1. Lists' /\ todo'[t] = l /\ \A u \in Threads : u # t => todo'[u] = todo[u]
  BY FillsLists
<1>2. CASE t # "bus"
  BY <1>1, <1>2, ThreadBus DEF Waiting, At
<1>3. CASE t = "bus"
  BY <1>1, <1>3 DEF Waiting, At
<1> QED
  BY <1>2, <1>3

LEMMA Alone ==
  ASSUME NEW S, NEW l \in Seq(S), Len(l) = 1, NEW s \in Seq(S)
  PROVE  s \o Tail(l) = s
<1> DEFINE n == s \o Tail(l)
<1>0. l # <<>>
  OBVIOUS
<1>1. n \in Seq(S) /\ Replaces(n, s, l)
  BY <1>0, Pushed
<1> HIDE DEF n
<1>2. Len(n) = Len(s) /\ \A i \in 1 .. Len(n) : n[i] = s[i]
  BY <1>1 DEF Replaces
<1>3. n = s
  BY <1>1, <1>2, SeqEqual
<1> QED
  BY <1>3 DEF n

\* A list of one step that is done
LEMMA LastStep ==
  ASSUME Lists, NEW t \in Threads, NEW h \in {"top", "get"}, At(t, h)
  PROVE  /\ \A s : Then(t, s) /\ s \in Seq(StepsOf[t]) => Fills(t, s)
         /\ \A x : Has(t, x) => x = h
<1>1. /\ todo[t] # <<>> /\ todo[t][1] = h /\ Len(todo[t]) > 0
      /\ todo[t] \in Seq(StepsOf[t])
  BY AtStep DEF Lists
<1>2. Len(todo[t]) \in Nat /\ PlaceOK(todo[t], 1)
  BY <1>1 DEF Lists, WellFormed
<1>3. Len(todo[t]) = 1
  BY <1>1, <1>2 DEF PlaceOK
<1>5. ASSUME NEW s, Then(t, s), s \in Seq(StepsOf[t]) PROVE Fills(t, s)
  <2>1. s \o Tail(todo[t]) = s
    BY <1>1, <1>3, <1>5, Alone
  <2> QED
    BY <1>5, <2>1 DEF Then, Fills
<1> QED
  BY <1>1, <1>3, <1>5 DEF Has, Member

\* A thread that has nothing left to do, or goes round its loop
LEMMA FillStep ==
  ASSUME IInv, NEW t \in Threads, NEW l \in Seq(StepsOf[t]), WellFormed(l),
         Fills(t, l), \A x : Has(t, x) => x = "top",
         \A i \in 1 .. Len(l) : l[i] \notin {"post", "again"},
         t = "bus" => ~Waiting /\ (l = <<>> \/ l[1] # "wait"),
         UNCHANGED <<uri, messages, eos_semaphore, current, picked, gbexit>>,
         OptType', FlagType', PipelineType', PausedIsQuiet'
  PROVE  IInv'
<1>1. /\ uri' = uri /\ current' = current /\ picked' = picked
      /\ queue' = queue /\ eos_semaphore' = eos_semaphore /\ gbexit' = gbexit
  BY DEF messages
<1>2. Lists' /\ todo'[t] = l /\ \A u \in Threads : u # t => todo'[u] = todo[u]
  BY InvParts, FillsLists
<1>3. /\ ~Has(t, "exit") /\ ~Has(t, "set") /\ ~Has(t, "again") /\ ~Has(t, "post")
  OBVIOUS
<1>4. Located'
  BY <1>1, <1>3, InvParts, FillsLocated
<1>5. Waiting' <=> Waiting
  BY InvParts, FillsWaiting
<1>6. Left => Left'
  BY <1>1, <1>3, InvParts, FillsLeft
<1>7. Posting' <=> Posting
  <2>1. CASE t = "msg"
    BY <1>2, <1>3, <2>1 DEF Posting, Has, Member
  <2>2. CASE t # "msg"
    BY <1>2, <2>2, ThreadBus DEF Posting, Has
  <2> QED
    BY <2>1, <2>2
<1>8. Ends' = Ends
  BY <1>1 DEF Ends
<1>9. OneAnswer'
  BY <1>1, <1>5, <1>6, <1>7, <1>8, InvParts DEF OneAnswer
<1>10. PickedIsItem'
  <2>1. CASE t = "main"
    BY <1>2, <2>1 DEF PickedIsItem, Has, Member
  <2>2. CASE t # "main"
    BY <1>1, <1>2, <2>2, ThreadBus, InvParts DEF PickedIsItem, Has
  <2> QED
    BY <2>1, <2>2
<1>11. QueueType'
  BY SameTypes, InvParts
<1> QED
  BY <1>2, <1>4, <1>9, <1>10, <1>11, InvParts

LEMMA NothingLeft ==
  ASSUME NEW t \in Threads, todo[t] = <<>>
  PROVE  \A x : ~Has(t, x)
BY DEF Has, Member

LEMMA CallbackList ==
  ASSUME NEW m \in {"EOS", "ERROR"} \cup Buffering
  PROVE  /\ Callback(m) \in Seq(StepsOf["bus"]) /\ WellFormed(Callback(m))
         /\ \A i \in 1 .. Len(Callback(m)) : Callback(m)[i] \notin {"post", "again"}
         /\ Callback(m)[1] # "wait"
<1> DEFINE l == Callback(m)
<1>1. CASE m = "EOS"
  <2>1. l = <<"EOS", "wait">>
    BY <1>1 DEF Callback
  <2> HIDE DEF l
  <2>2. l \in Seq({"EOS", "wait"}) /\ Len(l) = 2 /\ l[1] = "EOS" /\ l[2] = "wait"
    BY <2>1
  <2>3. {"EOS", "wait"} \subseteq StepsOf["bus"]
    BY DEF StepsOf
  <2>4. PlaceOK(l, 1) /\ PlaceOK(l, 2)
    BY <2>2 DEF PlaceOK
  <2> QED
    BY <2>2, <2>3, <2>4, SeqMonotonic DEF WellFormed, l
<1>2. CASE m = "ERROR"
  <2>1. l = <<"stop", "INTERNAL_ERROR">>
    BY <1>2 DEF Callback
  <2> HIDE DEF l
  <2>2. /\ l \in Seq({"stop", "INTERNAL_ERROR"}) /\ Len(l) = 2
        /\ l[1] = "stop" /\ l[2] = "INTERNAL_ERROR"
    BY <2>1
  <2>3. {"stop", "INTERNAL_ERROR"} \subseteq StepsOf["bus"]
    BY DEF StepsOf
  <2>4. PlaceOK(l, 1) /\ PlaceOK(l, 2)
    BY <2>2 DEF PlaceOK
  <2> QED
    BY <2>2, <2>3, <2>4, SeqMonotonic DEF WellFormed, l
<1>3. ASSUME NEW b \in {"buffer", "buffered"}, l = <<m, b>>, m \in Buffering
      PROVE  /\ l \in Seq(StepsOf["bus"]) /\ WellFormed(l)
             /\ \A i \in 1 .. Len(l) : l[i] \notin {"post", "again"}
             /\ l[1] # "wait"
  <2> HIDE DEF l
  <2>1. l \in Seq({m, b}) /\ Len(l) = 2 /\ l[1] = m /\ l[2] = b
    BY <1>3
  <2>2. {m, b} \subseteq StepsOf["bus"]
    BY <1>3 DEF StepsOf
  <2>3. m \in {"BUFFERING_0", "BUFFERING_100"}
    BY <1>3 DEF Buffering
  <2>4. PlaceOK(l, 1) /\ PlaceOK(l, 2)
    BY <2>1, <2>3 DEF PlaceOK
  <2> QED
    BY <2>1, <2>2, <2>3, <2>4, SeqMonotonic DEF WellFormed
<1>4. CASE m = "BUFFERING_0"
  <2>1. l = <<m, "buffer">> /\ m \in Buffering
    BY <1>4 DEF Callback, Buffering
  <2> QED
    BY <1>3, <2>1
<1>5. CASE m = "BUFFERING_100"
  <2>1. l = <<m, "buffered">> /\ m \in Buffering
    BY <1>5 DEF Callback, Buffering
  <2> QED
    BY <1>3, <2>1
<1> QED
  BY <1>1, <1>2, <1>4, <1>5 DEF Buffering

LEMMA HeadIsElement ==
  ASSUME NEW S, NEW l \in Seq(S), l # <<>>
  PROVE  Head(l) \in S /\ Tail(l) \in Seq(S)
OBVIOUS

LEMMA DispatchStep ==
  ASSUME IInv, Dispatch PROVE IInv'
<1>1. /\ todo["bus"] = <<>> /\ bus # <<>> /\ bus' = Tail(bus)
      /\ todo' = [todo EXCEPT !["bus"] = Callback(Head(bus))]
      /\ UNCHANGED <<pipeline, messages, eos_semaphore, player_state, opt, flags,
                     strayed>>
  BY DEF Dispatch
<1>2. bus \in Seq({"EOS", "ERROR"} \cup Buffering)
  BY InvParts DEF PipelineType
<1>3. PICK l \in Seq(StepsOf["bus"]) :
        /\ WellFormed(l) /\ l = Callback(Head(bus))
        /\ \A i \in 1 .. Len(l) : l[i] \notin {"post", "again"}
        /\ l[1] # "wait"
  <2>1. Head(bus) \in {"EOS", "ERROR"} \cup Buffering
    BY <1>1, <1>2, HeadIsElement
  <2>2. PICK m \in {"EOS", "ERROR"} \cup Buffering : m = Head(bus)
    BY <2>1, Zenon
  <2> QED
    BY <2>2, CallbackList
<1>4. Fills("bus", l)
  BY <1>1, <1>3, Zenon DEF Fills
<1>5. ~Waiting
  BY <1>1 DEF Waiting, At
<1>6. UNCHANGED <<uri, current, picked, gbexit>> /\ OptType' /\ FlagType'
  BY <1>1, InvParts, SameTypes DEF opt, flags, pipeline
<1>7. PausedIsQuiet'
  BY <1>1, InvParts, SameTypes DEF pipeline
<1>8. PipelineType'
  <2>1. bus' \in Seq({"EOS", "ERROR"} \cup Buffering)
    BY <1>1, <1>2
  <2> QED
    BY <1>1, <2>1, InvParts DEF PipelineType, pipeline
<1>9. \A x : ~Has("bus", x)
  BY <1>1, NothingLeft, ThreadBus
<1> QED
  BY <1>1, <1>3, <1>4, <1>5, <1>6, <1>7, <1>8, <1>9, ThreadBus, FillStep

LEMMA OneStepList ==
  ASSUME NEW t \in Threads, NEW x \in StepsOf[t] \cap {"top", "get", "returned"}
  PROVE  /\ <<x>> \in Seq(StepsOf[t]) /\ WellFormed(<<x>>)
         /\ \A i \in 1 .. Len(<<x>>) : <<x>>[i] \notin {"post", "again"}
         /\ <<x>>[1] # "wait"
<1>1. Len(<<x>>) = 1 /\ <<x>>[1] = x /\ <<x>> \in Seq(StepsOf[t])
  <2> DEFINE S == StepsOf[t]
  <2>1. x \in S
    OBVIOUS
  <2> HIDE DEF S
  <2>2. <<x>> \in Seq(S)
    BY <2>1, Single
  <2> QED
    BY <2>2 DEF S
<1>2. PlaceOK(<<x>>, 1)
  BY <1>1 DEF PlaceOK
<1> QED
  BY <1>1, <1>2 DEF WellFormed

LEMMA BusReturnStep ==
  ASSUME IInv, BusReturn PROVE IInv'
<1>1. /\ todo["bus"] = <<>> /\ Fills("bus", <<"returned">>)
      /\ UNCHANGED <<pipeline, bus, messages, eos_semaphore, player_state, opt,
                     flags, strayed>>
  BY DEF BusReturn, Fills
<1>2. "returned" \in StepsOf["bus"]
  BY DEF StepsOf
<1>3. ~Waiting
  BY <1>1 DEF Waiting, At
<1>4. UNCHANGED <<uri, current, picked, gbexit>> /\ OptType' /\ FlagType'
  BY <1>1, InvParts, SameTypes DEF opt, flags, pipeline
<1>5. PausedIsQuiet' /\ PipelineType'
  BY <1>1, InvParts, SameTypes DEF pipeline
<1>6. \A x : ~Has("bus", x)
  BY <1>1, NothingLeft, ThreadBus
<1> QED
  BY <1>1, <1>2, <1>3, <1>4, <1>5, <1>6, ThreadBus, OneStepList, FillStep

LEMMA InterruptedStep ==
  ASSUME IInv, Interrupted PROVE IInv'
<1>1. /\ todo["main"] = <<>> /\ Fills("main", <<"top">>)
      /\ UNCHANGED <<pipeline, bus, messages, eos_semaphore, player_state, opt,
                     flags, strayed>>
  BY DEF Interrupted, Fills
<1>2. "top" \in StepsOf["main"]
  BY DEF StepsOf
<1>3. UNCHANGED <<uri, current, picked, gbexit>> /\ OptType' /\ FlagType'
  BY <1>1, InvParts, SameTypes DEF opt, flags, pipeline
<1>4. PausedIsQuiet' /\ PipelineType'
  BY <1>1, InvParts, SameTypes DEF pipeline
<1>5. \A x : ~Has("main", x)
  BY <1>1, NothingLeft, ThreadBus
<1> QED
  BY <1>1, <1>2, <1>3, <1>4, <1>5, ThreadBus, OneStepList, FillStep

LEMMA TopStep ==
  ASSUME IInv, NEW t \in {"msg", "main"}, Top(t) PROVE IInv'
<1>1. /\ At(t, "top")
      /\ UNCHANGED <<pipeline, bus, messages, eos_semaphore, player_state, opt,
                     flags, strayed>>
  BY DEF Top
<1>2. UNCHANGED <<uri, current, picked, gbexit>> /\ OptType' /\ FlagType'
  BY <1>1, InvParts, SameTypes DEF opt, flags, pipeline
<1>3. PausedIsQuiet' /\ PipelineType'
  BY <1>1, InvParts, SameTypes DEF pipeline
<1>4. t \in Threads /\ t # "bus"
  BY DEF Threads
<1>5. ASSUME NEW l, Then(t, l), l \in Seq(StepsOf[t]), WellFormed(l),
             \A i \in 1 .. Len(l) : l[i] \notin {"post", "again"}
      PROVE  IInv'
  <2>1. Fills(t, l) /\ \A x : Has(t, x) => x = "top"
    BY <1>1, <1>4, <1>5, InvParts, LastStep
  <2> QED
    BY <1>1, <1>2, <1>3, <1>4, <1>5, <2>1, FillStep
<1>6. CASE t = "msg"
  <2>1. "returned" \in StepsOf["msg"] /\ "get" \in StepsOf["msg"]
    BY DEF StepsOf
  <2>2. CASE gbexit
    <3>1. Then(t, <<"returned">>)
      BY <1>6, <2>2, Zenon DEF Top, Then
    <3> QED
      BY <1>4, <1>5, <1>6, <2>1, <3>1, OneStepList
  <2>3. CASE ~gbexit
    <3>1. Then(t, <<"get">>)
      BY <1>6, <2>3, Zenon DEF Top, Then
    <3> QED
      BY <1>4, <1>5, <1>6, <2>1, <3>1, OneStepList
  <2> QED
    BY <2>2, <2>3
<1>7. CASE t = "main"
  <2>2. CASE gbexit
    <3> DEFINE l == <<"join msg", "null", "join bus", "returned">>
    <3>1. Then(t, l)
      BY <1>7, <2>2, Zenon DEF Top, Then
    <3>2. /\ l[1] = "join msg" /\ l[2] = "null" /\ l[3] = "join bus"
          /\ l[4] = "returned"
      OBVIOUS
    <3>9. l \in Seq({"join msg", "null", "join bus", "returned"})
      OBVIOUS
    <3>10. Len(l) = 4
      OBVIOUS
    <3> HIDE DEF l
    <3>3. {"join msg", "null", "join bus", "returned"} \subseteq StepsOf["main"]
      BY DEF StepsOf
    <3>4. PlaceOK(l, 1) /\ PlaceOK(l, 2) /\ PlaceOK(l, 3)
      BY <3>2, PlainPlace DEF PlacedSteps
    <3>5. PlaceOK(l, 4)
      BY <3>2, <3>10, LastPlace
    <3>6. l \in Seq(StepsOf[t])
      BY <1>7, <3>9, <3>3, SeqMonotonic
    <3>0. \A i \in 1 .. Len(l) : i = 1 \/ i = 2 \/ i = 3 \/ i = 4
      BY <3>10
    <3>7. WellFormed(l)
      BY <3>0, <3>4, <3>5 DEF WellFormed
    <3>8. \A i \in 1 .. Len(l) : l[i] \notin {"post", "again"}
      BY <3>0, <3>2
    <3> QED
      BY <1>5, <3>1, <3>6, <3>7, <3>8
  <2>3. CASE ~gbexit
    <3>1. Then(t, <<>>)
      BY <1>7, <2>3, Zenon DEF Top, Then
    <3>2. Fresh(StepsOf[t], <<>>)
      BY DEF WellFormed, Fresh
    <3> QED
      BY <1>5, <3>1, <3>2 DEF Fresh
  <2> QED
    BY <2>2, <2>3
<1> QED
  BY <1>6, <1>7

LEMMA StepsList ==
  ASSUME NEW c \in Commands
  PROVE  Fresh(StepsOf["main"], Steps(c) \o <<"top">>)
<1> DEFINE S == StepsOf["main"]
<1>1. c \in {"play", "stop", "pause", "seek", "rate", "next", "previous", "repeat",
             "exit"}
  BY GPlayerAssumption
<1>2. "top" \in S
  BY DEF StepsOf
<1>3. ASSUME Steps(c) \in Seq(S), Brief(Steps(c))
      PROVE  Fresh(S, Steps(c) \o <<"top">>)
  BY <1>2, <1>3, BriefThenLast
<1>4. CASE c = "play"
  <2>1. Steps(c) = <<"set", "play">>
    BY <1>4 DEF Steps
  <2>2. {"set", "play"} \subseteq S
    BY DEF StepsOf
  <2>3. <<"set", "play">> \in Seq({"set", "play"})
    OBVIOUS
  <2>4. Brief(<<"set", "play">>)
    BY DEF Brief, PlainSteps
  <2> HIDE DEF S
  <2>5. Steps(c) \in Seq(S)
    BY <2>1, <2>2, <2>3, SeqMonotonic
  <2> QED
    BY <1>3, <2>1, <2>4, <2>5 DEF S
<1>5. CASE c = "exit"
  <2> DEFINE l == Steps(c) \o <<"top">>
  <2>1. Steps(c) = <<"EXIT">> \o Exit
    BY <1>5 DEF Steps
  <2>2. {"EXIT"} \cup BriefSteps \subseteq S
    BY DEF StepsOf, BriefSteps
  <2>3. Exit[1] = "stop" /\ Exit[2] = "flush" /\ Exit[3] = "exit"
    BY DEF Exit
  <2>4. Len(Exit) = 3
    BY DEF Exit
  <2>5. Exit \in Seq(BriefSteps)
    BY DEF Exit, BriefSteps
  <2> HIDE DEF S
  <2>17. "EXIT" \in S /\ BriefSteps \subseteq S /\ "top" \in S
    BY <1>2, <2>2 DEF S
  <2>18. Exit \in Seq(S)
    BY <2>17, <2>5, SeqMonotonic
  <2>6. /\ <<"EXIT">> \in Seq(S) /\ Len(<<"EXIT">>) = 1 /\ <<"EXIT">>[1] = "EXIT"
        /\ <<"top">> \in Seq(S) /\ Len(<<"top">>) = 1 /\ <<"top">>[1] = "top"
    BY <2>17, Single
  <2> DEFINE e == <<"EXIT">>
             r == <<"top">>
             k == Steps(c)
  <2>19. e \in Seq(S) /\ Len(e) = 1 /\ e[1] = "EXIT" /\ k = e \o Exit
    BY <2>1, <2>6
  <2>20. r \in Seq(S) /\ Len(r) = 1 /\ r[1] = "top" /\ l = k \o r
    BY <2>6
  <2> HIDE DEF e, r, k, l
  <2>7. k \in Seq(S) /\ ConsistsOf(k, e, Exit)
    BY <2>18, <2>19, JoinedAs, Zenon
  <2>8. Len(k) = 4
    BY <2>4, <2>7, <2>19 DEF ConsistsOf
  <2>21. /\ \A i \in 1 .. 1 : k[i] = e[i]
         /\ \A i \in 1 .. 4 : i > 1 => k[i] = Exit[i - 1]
    BY <2>4, <2>7, <2>19 DEF ConsistsOf
  <2>9. k[1] = "EXIT" /\ k[2] = "stop" /\ k[3] = "flush" /\ k[4] = "exit"
    <3>1. k[1] = e[1] /\ k[2] = Exit[1] /\ k[3] = Exit[2] /\ k[4] = Exit[3]
      BY <2>21
    <3> QED
      BY <2>3, <2>19, <3>1, Zenon
  <2>23. l \in Seq(S) /\ ConsistsOf(l, k, r)
    BY <2>7, <2>20, JoinedAs, Zenon
  <2>10. Len(l) = 5
    BY <2>8, <2>20, <2>23 DEF ConsistsOf
  <2>22. /\ \A i \in 1 .. 4 : l[i] = k[i]
         /\ \A i \in 1 .. 5 : i > 4 => l[i] = r[i - 4]
    BY <2>8, <2>20, <2>23 DEF ConsistsOf
  <2>11. /\ l[1] = "EXIT" /\ l[2] = "stop" /\ l[3] = "flush" /\ l[4] = "exit"
         /\ l[5] = "top"
    <3>1. \A i \in 1 .. 4 : l[i] = k[i]
      BY <2>22
    <3>2. l[5] = r[1]
      BY <2>22
    <3>3. l[1] = k[1] /\ l[2] = k[2] /\ l[3] = k[3] /\ l[4] = k[4]
      BY <3>1
    <3> QED
      BY <2>9, <2>20, <3>2, <3>3, Zenon
  <2>12. \A i \in 1 .. Len(l) : i = 1 \/ i = 2 \/ i = 3 \/ i = 4 \/ i = 5
    BY <2>10
  <2>13. PlaceOK(l, 1) /\ PlaceOK(l, 2) /\ PlaceOK(l, 4)
    BY <2>11, PlainPlace DEF PlacedSteps
  <2>14. PlaceOK(l, 3) /\ PlaceOK(l, 5)
    <3>1. PlaceOK(l, 3)
      BY <2>10, <2>11 DEF PlaceOK
    <3>2. PlaceOK(l, 5)
      BY <2>10, <2>11, LastPlace
    <3> QED
      BY <3>1, <3>2
  <2>15. WellFormed(l)
    BY <2>12, <2>13, <2>14 DEF WellFormed
  <2>16. \A i \in 1 .. Len(l) : l[i] \notin {"post", "again"}
    BY <2>11, <2>12
  <2> QED
    BY <2>23, <2>15, <2>16 DEF Fresh, l, S, k, r
<1>6. CASE c \notin {"play", "exit"}
  <2> DEFINE l == Steps(c) \o <<"top">>
  <2>1. Steps(c) = <<c>>
    BY <1>6 DEF Steps
  <2>2. c \in S
    BY <1>1, <1>6 DEF StepsOf
  <2> HIDE DEF S
  <2>3. <<c>> \in Seq(S) /\ <<"top">> \in Seq(S) /\ <<"top">>[1] = "top"
        /\ Len(<<"top">>) = 1 /\ Len(<<c>>) = 1 /\ <<c>>[1] = c
    BY <1>2, <2>2, Single DEF S
  <2>4. l \in Seq(S) /\ Len(l) = 2 /\ l[1] = c /\ l[2] = "top"
    BY <2>1, <2>3, Joined
  <2> HIDE DEF l
  <2>5. PlaceOK(l, 2) /\ l[2] \notin {"post", "again"}
    BY <2>4, LastPlace
  <2>6. PlaceOK(l, 1) /\ l[1] \notin {"post", "again"}
    <3>1. CASE c = "previous"
      BY <2>4, <3>1 DEF PlaceOK
    <3>2. CASE c # "previous"
      <4>1. c \notin PlacedSteps
        BY <1>1, <3>2 DEF PlacedSteps
      <4> QED
        BY <2>4, <4>1, PlainPlace DEF PlacedSteps
    <3> QED
      BY <3>1, <3>2
  <2>7. \A i \in 1 .. Len(l) : i = 1 \/ i = 2
    BY <2>4
  <2> QED
    BY <2>4, <2>5, <2>6, <2>7 DEF Fresh, WellFormed, l, S
<1> QED
  BY <1>4, <1>5, <1>6

LEMMA CommandStep ==
  ASSUME IInv, Command PROVE IInv'
<1>1. PICK c \in Commands : todo' = [todo EXCEPT !["main"] = Steps(c) \o <<"top">>]
  BY Zenon DEF Command
<1>2. PICK l \in Seq(StepsOf["main"]) :
        /\ WellFormed(l) /\ l = Steps(c) \o <<"top">>
        /\ \A i \in 1 .. Len(l) : l[i] \notin {"post", "again"}
  BY StepsList DEF Fresh
<1>3. Fills("main", l)
  BY <1>1, <1>2, Zenon DEF Fills
<1>4. /\ todo["main"] = <<>> /\ typed < MaxCommands /\ typed' = typed + 1
      /\ UNCHANGED <<pipeline, bus, messages, eos_semaphore, player_state, opt,
                     gbexit, quit, handle_buffering, sent, strayed>>
  BY DEF Command
<1>5. UNCHANGED <<uri, current, picked, gbexit>> /\ OptType'
  BY <1>4, InvParts, SameTypes DEF opt, pipeline
<1>6. PausedIsQuiet' /\ PipelineType'
  BY <1>4, InvParts, SameTypes DEF pipeline
<1>7. FlagType'
  <2>1. typed' \in 0 .. MaxCommands /\ sent' \in 0 .. MaxSent
    BY <1>4, InvParts, GPlayerAssumption DEF FlagType
  <2> QED
    BY <1>4, <2>1, InvParts, Zenon DEF FlagType
<1>8. \A x : ~Has("main", x)
  BY <1>4, NothingLeft, ThreadBus
<1> QED
  BY <1>2, <1>3, <1>4, <1>5, <1>6, <1>7, <1>8, ThreadBus, FillStep

LEMMA HandleList ==
  ASSUME NEW m \in Messages
  PROVE  LET l == Handle(m)
         IN  /\ l \in Seq(StepsOf["msg"]) /\ WellFormed(l) /\ l # <<>>
             /\ \A i \in 1 .. Len(l) : l[i] # "again"
             /\ Member(l, "post") <=> m = "EOS"
<1> DEFINE l == Handle(m)
           S == StepsOf["msg"]
<1>1. CASE m = "EOS"
  <2>1. l = <<"stop", "post", "next", "top">>
    BY <1>1 DEF Handle
  <2>2. {"stop", "post", "next", "top"} \subseteq S
    BY DEF StepsOf
  <2> HIDE DEF l, S
  <2>3. l \in Seq({"stop", "post", "next", "top"})
    BY <2>1
  <2>4. l[1] = "stop" /\ l[2] = "post" /\ l[3] = "next" /\ l[4] = "top"
    BY <2>1
  <2>5. Len(l) = 4
    BY <2>1
  <2>6. \A i \in 1 .. Len(l) : i = 1 \/ i = 2 \/ i = 3 \/ i = 4
    BY <2>5
  <2>7. PlaceOK(l, 1) /\ PlaceOK(l, 3)
    BY <2>4, PlainPlace DEF PlacedSteps
  <2>8. PlaceOK(l, 2)
    BY <2>4, <2>5 DEF PlaceOK
  <2>9. PlaceOK(l, 4)
    BY <2>4, <2>5, LastPlace
  <2>10. WellFormed(l)
    BY <2>6, <2>7, <2>8, <2>9 DEF WellFormed
  <2>11. l \in Seq(S)
    BY <2>2, <2>3, SeqMonotonic
  <2>12. \A i \in 1 .. Len(l) : l[i] # "again"
    BY <2>4, <2>6
  <2>13. 2 \in 1 .. Len(l) /\ l # <<>>
    BY <2>5
  <2>14. Member(l, "post")
    BY <2>4, <2>13 DEF Member
  <2> QED
    BY <1>1, <2>10, <2>11, <2>12, <2>13, <2>14 DEF l, S
<1>2. ASSUME m # "EOS", Fresh(S, l), l # <<>>
      PROVE  /\ l \in Seq(StepsOf["msg"]) /\ WellFormed(l) /\ l # <<>>
             /\ \A i \in 1 .. Len(l) : l[i] # "again"
             /\ Member(l, "post") <=> m = "EOS"
  BY <1>2 DEF Fresh, Member
<1>3. "returned" \in S /\ "top" \in S /\ "pause" \in S
  BY DEF StepsOf
<1>4. ASSUME NEW x \in {"returned", "top"}, l = <<x>>
      PROVE  Fresh(S, l) /\ l # <<>>
  <2>1. x \in StepsOf["msg"] \cap {"top", "get", "returned"}
    BY <1>3
  <2> QED
    BY <1>4, <2>1, ThreadBus, OneStepList DEF Fresh
<1>5. CASE m = "EXIT"
  <2>1. l = <<"returned">>
    BY <1>5 DEF Handle
  <2> QED
    BY <1>2, <1>4, <1>5, <2>1
<1>6. CASE m = "INTERNAL_ERROR"
  <2>1. l = Exit \o <<"returned">>
    BY <1>6 DEF Handle
  <2>2. Exit \in Seq(S) /\ Brief(Exit)
    BY BriefLists
  <2>3. Fresh(S, Exit \o <<"returned">>)
    BY <1>3, <2>2, BriefThenLast
  <2>4. Len(Exit \o <<"returned">>) = Len(Exit) + 1
    BY <1>3, <2>2, Single, Joined
  <2>5. Len(Exit) \in Nat
    BY <2>2
  <2>6. l # <<>>
    BY <2>1, <2>4, <2>5
  <2> QED
    BY <1>2, <1>6, <2>1, <2>3, <2>6
<1>7. CASE m \in Buffering
  <2>1. l = IF handle_buffering THEN <<"pause", "top">> ELSE <<"top">>
    BY <1>7 DEF Handle, Buffering
  <2>2. CASE handle_buffering
    <3>1. l = <<"pause", "top">>
      BY <2>1, <2>2
    <3> HIDE DEF l, S
    <3>2. l \in Seq(S) /\ Len(l) = 2 /\ l[1] = "pause" /\ l[2] = "top"
      BY <1>3, <3>1
    <3>3. PlaceOK(l, 1) /\ PlaceOK(l, 2)
      BY <3>2, PlainPlace, LastPlace DEF PlacedSteps
    <3>4. Fresh(S, l) /\ l # <<>>
      BY <3>2, <3>3 DEF Fresh, WellFormed
    <3> QED
      BY <1>2, <1>7, <3>4 DEF Buffering, l, S
  <2>3. CASE ~handle_buffering
    BY <1>2, <1>4, <1>7, <2>1, <2>3 DEF Buffering
  <2> QED
    BY <2>2, <2>3
<1> QED
  BY <1>1, <1>5, <1>6, <1>7 DEF Messages

\* The first message is taken.
LEMMA TakenQueue ==
  ASSUME queue \in Seq(Messages), queue # <<>>, queue' = Tail(queue)
  PROVE  /\ queue' \in Seq(Messages) /\ Head(queue) \in Messages
         /\ Head(queue) = queue[1] /\ 1 \in 1 .. Len(queue)
         /\ \A i : i \in Ends' <=> i \in 1 .. Len(queue) /\ i + 1 \in Ends
<1>1. /\ queue' \in Seq(Messages) /\ Head(queue) \in Messages
      /\ Len(queue') = Len(queue) - 1 /\ Len(queue) \in Nat /\ Len(queue) > 0
      /\ \A i \in 1 .. Len(queue) - 1 : queue'[i] = queue[i + 1]
      /\ Head(queue) = queue[1]
  OBVIOUS
<1>2. Ends' = {i \in 1 .. Len(queue') : queue'[i] = "EOS"}
  BY DEF Ends
<1>3. \A i : i \in Ends' <=> i \in 1 .. Len(queue) /\ i + 1 \in Ends
  BY <1>1, <1>2 DEF Ends
<1> QED
  BY <1>1, <1>3

LEMMA GetStep ==
  ASSUME IInv, Get PROVE IInv'
<1>1. /\ At("msg", "get") /\ queue # <<>> /\ queue' = Tail(queue)
      /\ todo' = [todo EXCEPT !["msg"] = Handle(Head(queue)) \o Tail(@)]
      /\ UNCHANGED <<pipeline, bus, asleep, eos_semaphore, player_state, opt,
                     flags, strayed>>
  BY DEF Get, Then
<1>2. /\ queue' \in Seq(Messages) /\ Head(queue) \in Messages
      /\ Head(queue) = queue[1] /\ 1 \in 1 .. Len(queue)
      /\ \A i : i \in Ends' <=> i \in 1 .. Len(queue) /\ i + 1 \in Ends
  BY <1>1, InvParts, TakenQueue DEF QueueType
<1>3. PICK m \in Messages : m = Head(queue)
  BY <1>2
<1>4. PICK l \in Seq(StepsOf["msg"]) :
        /\ l = Handle(m) /\ WellFormed(l) /\ l # <<>>
        /\ \A i \in 1 .. Len(l) : l[i] # "again"
        /\ Member(l, "post") <=> m = "EOS"
  BY HandleList
<1>5. Then("msg", l)
  BY <1>1, <1>3, <1>4, Zenon DEF Then
<1>6. Fills("msg", l) /\ \A x : Has("msg", x) => x = "get"
  BY <1>1, <1>5, InvParts, ThreadBus, LastStep
<1>7. /\ eos_semaphore' = eos_semaphore /\ gbexit' = gbexit /\ uri' = uri
      /\ picked' = picked /\ current' = current
  BY <1>1 DEF opt, flags, pipeline
<1>8. Lists' /\ todo'["msg"] = l /\ \A u \in Threads : u # "msg" => todo'[u] = todo[u]
  BY <1>4, <1>6, InvParts, ThreadBus, FillsLists
<1>9. Located'
  BY <1>4, <1>6, <1>7, InvParts, ThreadBus, FillsLocated
<1>10. Waiting' <=> Waiting
  BY <1>4, <1>6, InvParts, ThreadBus, FillsWaiting
<1>11. Left => Left'
  BY <1>4, <1>6, <1>7, InvParts, ThreadBus, FillsLeft
<1>12. ~Posting /\ (Posting' <=> m = "EOS")
  BY <1>4, <1>6, <1>8 DEF Posting, Has
<1>13. PickedIsItem'
  BY <1>7, <1>8, ThreadBus, InvParts DEF PickedIsItem, Has
<1>14. OptType' /\ PipelineType' /\ FlagType' /\ PausedIsQuiet'
  BY <1>1, InvParts, SameTypes DEF pipeline
<1>15. QueueType'
  <2>1. eos_semaphore' \in Nat /\ asleep' = asleep
    BY <1>1, InvParts DEF QueueType
  <2> QED
    BY <1>2, <2>1, InvParts, Zenon DEF QueueType
<1>16. /\ \A i, j \in Ends : i = j
       /\ Ends \subseteq 1 .. Len(queue) /\ Len(queue) \in Nat
       /\ (1 \in Ends <=> m = "EOS")
  BY <1>2, <1>3, InvParts DEF OneAnswer, Ends
<1>17. CASE m = "EOS"
  <2>1. Ends' = {}
    BY <1>2, <1>16, <1>17
  <2>2. Ends # {} /\ eos_semaphore = 0 /\ Waiting
    BY <1>16, <1>17, InvParts DEF OneAnswer
  <2>3. OneAnswer'
    BY <1>7, <1>10, <1>12, <1>17, <2>1, <2>2 DEF OneAnswer
  <2> QED
    BY <1>8, <1>9, <1>13, <1>14, <1>15, <2>3, InvParts
<1>18. CASE m # "EOS"
  <2>1. \A i, j \in Ends' : i = j
    <3>1. ASSUME NEW i \in Ends', NEW j \in Ends' PROVE i = j
      <4>1. /\ i \in 1 .. Len(queue) /\ i + 1 \in Ends
            /\ j \in 1 .. Len(queue) /\ j + 1 \in Ends
        BY <1>2
      <4>2. i + 1 = j + 1
        BY <4>1, <1>16
      <4> QED
        BY <4>1, <4>2
    <3> QED
      BY <3>1
  <2>2. Ends' # {} <=> Ends # {}
    <3>1. ASSUME NEW i \in Ends PROVE i - 1 \in Ends'
      BY <1>2, <1>16, <1>18
    <3> QED
      BY <1>2, <3>1
  <2>3. OneAnswer'
    BY <1>7, <1>10, <1>11, <1>12, <1>18, <2>1, <2>2, InvParts DEF OneAnswer
  <2> QED
    BY <1>8, <1>9, <1>13, <1>14, <1>15, <2>3, InvParts
<1> QED
  BY <1>17, <1>18

LEMMA FlushStep ==
  ASSUME IInv, NEW t \in Threads, Flush(t) PROVE IInv'
<1>1. Moves(t, "flush", <<>>) /\ At(t, "flush")
  BY DEF Flush, At, Then, Moves
<1>2. UNCHANGED <<pipeline, bus, asleep, eos_semaphore, player_state, opt, flags,
                  strayed>> /\ queue' = <<>>
  BY DEF Flush
<1>3. /\ eos_semaphore' = eos_semaphore /\ gbexit' = gbexit /\ uri' = uri
      /\ picked' = picked /\ current' = current
  BY <1>2 DEF opt, flags, pipeline
<1>4. Lists' /\ PickedIsItem' /\ Located'
  BY <1>1, <1>3, NoSteps, InvParts, MovesLists, MovesPicked, MovesLocated
<1>5. (Waiting' <=> Waiting) /\ (Posting' <=> Posting)
  BY <1>1, NoSteps, InvParts, MovesWaiting, MovesPosting
<1>6. Left'
  <2>1. todo[t][1] = "flush" /\ Len(todo[t]) > 0 /\ todo[t] \in Seq(StepsOf[t])
    BY <1>1, InvParts, AtStep DEF Lists
  <2>2. PlaceOK(todo[t], 1) /\ Len(todo[t]) \in Nat
    BY <2>1, InvParts DEF Lists, WellFormed
  <2>3. 2 \in 1 .. Len(todo[t]) /\ todo[t][2] = "exit"
    BY <2>1, <2>2 DEF PlaceOK
  <2>4. Has(t, "exit")
    BY <2>3 DEF Has, Member
  <2>5. Has(t, "exit")'
    BY <1>1, <2>4, NoSteps, InvParts, MovesHas
  <2> QED
    BY <2>5 DEF Left
<1>7. Ends' = {}
  BY <1>2 DEF Ends
<1>8. OneAnswer'
  BY <1>3, <1>5, <1>6, <1>7, InvParts DEF OneAnswer
<1>9. OptType' /\ PipelineType' /\ FlagType' /\ PausedIsQuiet'
  BY <1>2, InvParts, SameTypes DEF pipeline
<1>10. QueueType'
  BY <1>2, InvParts DEF QueueType
<1> QED
  BY <1>4, <1>8, <1>9, <1>10, InvParts

LEMMA PostStep ==
  ASSUME IInv, Post("msg") PROVE IInv'
<1>1. Moves("msg", "post", <<>>) /\ At("msg", "post")
  BY DEF Post, At, Then, Moves
<1>2. UNCHANGED <<pipeline, bus, messages, player_state, opt, flags, strayed>>
      /\ eos_semaphore' = eos_semaphore + 1
  BY DEF Post
<1>3. /\ queue' = queue /\ gbexit' = gbexit /\ uri' = uri
      /\ picked' = picked /\ current' = current
  BY <1>2 DEF opt, flags, pipeline, messages
<1>4. Lists' /\ PickedIsItem' /\ Located' /\ Replaces(todo'["msg"], <<>>, todo["msg"])
  BY <1>1, <1>3, NoSteps, ThreadBus, InvParts, MovesLists, MovesPicked, MovesLocated
<1>5. Waiting' <=> Waiting
  BY <1>1, NoSteps, ThreadBus, InvParts, MovesWaiting
<1>6. todo["msg"][1] = "post" /\ Len(todo["msg"]) > 0
      /\ todo["msg"] \in Seq(StepsOf["msg"])
  BY <1>1, InvParts, AtStep, ThreadBus DEF Lists
<1>7. Posting
  BY <1>6 DEF Posting, Has, Member
<1>8. ~Posting'
  <2>1. SUFFICES ASSUME NEW i \in 1 .. Len(todo'["msg"]), todo'["msg"][i] = "post"
                 PROVE  FALSE
    BY DEF Posting, Has, Member
  <2>2. Len(todo["msg"]) \in Nat /\ PlaceOK(todo["msg"], 1)
    BY <1>6, ThreadBus, InvParts DEF Lists, WellFormed
  <2>3. Len(todo["msg"]) = 3
    BY <1>6, <2>2 DEF PlaceOK
  <2>4. i + 1 \in 2 .. Len(todo["msg"]) /\ todo["msg"][i + 1] = "post"
    BY <1>4, <2>1 DEF Replaces
  <2>5. PlaceOK(todo["msg"], i + 1)
    BY <2>2, <2>4, ThreadBus, InvParts DEF Lists, WellFormed
  <2>6. i + 1 + 2 = Len(todo["msg"])
    BY <2>4, <2>5 DEF PlaceOK
  <2> QED
    BY <2>3, <2>4, <2>6
<1>9. Ends' = Ends
  BY <1>3 DEF Ends
<1>10. OneAnswer'
  BY <1>2, <1>5, <1>7, <1>8, <1>9, InvParts DEF OneAnswer
<1>11. OptType' /\ PipelineType' /\ FlagType' /\ PausedIsQuiet'
  BY <1>2, InvParts, SameTypes DEF pipeline
<1>12. QueueType'
  BY <1>2, InvParts DEF QueueType, messages
<1> QED
  BY <1>4, <1>10, <1>11, <1>12, InvParts

LEMMA WaitStep ==
  ASSUME IInv, Wait PROVE IInv'
<1>1. Moves("bus", "wait", <<>>) /\ At("bus", "wait")
  BY DEF Wait, At, Then, Moves
<1>2. UNCHANGED <<pipeline, bus, messages, player_state, opt, flags, strayed>>
      /\ eos_semaphore > 0 /\ eos_semaphore' = eos_semaphore - 1
  BY DEF Wait
<1>3. /\ queue' = queue /\ gbexit' = gbexit /\ uri' = uri
      /\ picked' = picked /\ current' = current
  BY <1>2 DEF opt, flags, pipeline, messages
<1>4. Lists' /\ PickedIsItem' /\ Located' /\ Replaces(todo'["bus"], <<>>, todo["bus"])
  BY <1>1, <1>3, NoSteps, ThreadBus, InvParts, MovesLists, MovesPicked, MovesLocated
<1>5. Posting' <=> Posting
  BY <1>1, NoSteps, ThreadBus, InvParts, MovesPosting
<1>6. ~Waiting'
  <2>1. todo["bus"][1] = "wait" /\ Len(todo["bus"]) > 0
        /\ todo["bus"] \in Seq(StepsOf["bus"])
    BY <1>1, InvParts, AtStep, ThreadBus DEF Lists
  <2>2. Len(todo["bus"]) \in Nat /\ PlaceOK(todo["bus"], 1)
    BY <2>1, ThreadBus, InvParts DEF Lists, WellFormed
  <2>3. Len(todo["bus"]) = 1
    BY <2>1, <2>2 DEF PlaceOK
  <2>4. Len(todo'["bus"]) = 0 /\ todo'["bus"] \in Seq(StepsOf["bus"])
    BY <1>4, <2>3, ThreadBus DEF Replaces, Lists
  <2>5. todo'["bus"] = <<>>
    BY <2>4
  <2> QED
    BY <2>5 DEF Waiting, At
<1>7. Ends' = Ends
  BY <1>3 DEF Ends
<1>8. eos_semaphore = 1 /\ Ends = {} /\ ~Posting
  BY <1>2, InvParts DEF OneAnswer
<1>9. OneAnswer'
  BY <1>2, <1>5, <1>6, <1>7, <1>8 DEF OneAnswer
<1>10. OptType' /\ PipelineType' /\ FlagType' /\ PausedIsQuiet'
  BY <1>2, InvParts, SameTypes DEF pipeline
<1>11. QueueType'
  BY <1>2, InvParts DEF QueueType, messages
<1> QED
  BY <1>4, <1>9, <1>10, <1>11, InvParts

\* A step that leaves alone what the threads share with each other
LEMMA SameThreads ==
  ASSUME IInv, todo' = todo, UNCHANGED <<uri, messages, eos_semaphore, opt, gbexit>>,
         FlagType', PipelineType', PausedIsQuiet'
  PROVE  IInv'
<1>1. /\ uri' = uri /\ current' = current /\ picked' = picked /\ gbexit' = gbexit
      /\ queue' = queue /\ eos_semaphore' = eos_semaphore
  BY DEF opt, messages
<1>2. Lists' /\ PickedIsItem' /\ Located'
  BY <1>1, InvParts DEF Lists, PickedIsItem, Located, Has
<1>3. (Waiting' <=> Waiting) /\ (Posting' <=> Posting) /\ (Left' <=> Left)
      /\ Ends' = Ends
  BY <1>1 DEF Waiting, Posting, Left, Has, Ends, At
<1>4. OneAnswer'
  BY <1>1, <1>3, InvParts DEF OneAnswer
<1>5. OptType' /\ QueueType'
  BY SameTypes, InvParts
<1> QED
  BY <1>2, <1>4, <1>5, InvParts

LEMMA EmitStep ==
  ASSUME IInv, Emit PROVE IInv'
<1>1. /\ sent < MaxSent /\ sent' = sent + 1
      /\ UNCHANGED <<gst, uri, messages, eos_semaphore, player_state, opt, gbexit,
                     quit, handle_buffering, typed, todo, strayed>>
  BY DEF Emit
<1>2. FlagType'
  <2>1. typed' \in 0 .. MaxCommands /\ sent' \in 0 .. MaxSent
    BY <1>1, InvParts, GPlayerAssumption DEF FlagType
  <2> QED
    BY <1>1, <2>1, InvParts, Zenon DEF FlagType
<1>3. PausedIsQuiet'
  BY <1>1, InvParts, SameTypes
<1>4. bus \in Seq({"EOS", "ERROR"} \cup Buffering) /\ ended \in BOOLEAN
  BY InvParts, Zenon DEF PipelineType
<1>5. ASSUME NEW m \in {"EOS", "ERROR"} \cup Buffering, bus' = Append(bus, m),
             ended' \in BOOLEAN
      PROVE  PipelineType'
  <2>1. bus' \in Seq({"EOS", "ERROR"} \cup Buffering)
    <3> DEFINE S == {"EOS", "ERROR"} \cup Buffering
    <3>1. bus \in Seq(S) /\ m \in S
      BY <1>4
    <3> HIDE DEF S
    <3>2. bus' \in Seq(S)
      BY <1>5, <3>1
    <3> QED
      BY <3>2 DEF S
  <2> QED
    BY <1>1, <1>5, <2>1, InvParts, Zenon DEF PipelineType
<1>6. PipelineType'
  <2>1. PICK m : /\ m \in {"EOS", "ERROR"} \cup Buffering
                 /\ bus' = Append(bus, m) /\ ended' \in BOOLEAN
    <3>1. CASE gst = "PLAYING" /\ ~ended /\ ended' = TRUE /\ bus' = Append(bus, "EOS")
      BY <3>1, Zenon
    <3>2. CASE bus' = Append(bus, "ERROR") /\ UNCHANGED ended
      BY <1>4, <3>2, Zenon
    <3>3. CASE UNCHANGED ended /\ \E m \in Buffering : bus' = Append(bus, m)
      BY <1>4, <3>3, Zenon
    <3> QED
      BY <3>1, <3>2, <3>3, Zenon DEF Emit
  <2> QED
    BY <1>5, <2>1
<1> QED
  BY <1>1, <1>2, <1>3, <1>6, SameThreads

-------------------------------------------------------------------------------
(* The playlist *)

LEMMA PlaylistNextStep ==
  ASSUME IInv, NEW t \in {"msg", "main"}, PlaylistNext(t) PROVE IInv'
<1>1. /\ At(t, "next")
      /\ UNCHANGED <<pipeline, bus, messages, eos_semaphore, player_state,
                     repeat, picked, flags, strayed>>
  BY DEF PlaylistNext
<1>2. t \in Threads /\ t # "bus"
  BY DEF Threads
<1>3. /\ queue' = queue /\ gbexit' = gbexit /\ uri' = uri /\ picked' = picked
      /\ eos_semaphore' = eos_semaphore /\ repeat' = repeat
  BY <1>1 DEF messages, pipeline, flags
<1>4. QueueType' /\ FlagType' /\ PipelineType' /\ PausedIsQuiet'
  BY <1>1, InvParts, SameTypes DEF pipeline
<1>5. ASSUME NEW s \in {Start, Exit, <<"stop", "play">>, <<"stop", "play">> \o Exit,
                        <<"stop", "play">> \o <<>>},
             Then(t, s), current' \in Items, play_times' \in Int,
             s = Start \/ current' = current
      PROVE  IInv'
  <2>1. s \in Seq(StepsOf[t]) /\ Brief(s)
    BY BriefLists
  <2>2. Moves(t, "next", s)
    BY <1>1, <1>5 DEF Moves, At, Then
  <2>3. Lists' /\ PickedIsItem' /\ OneAnswer' /\ Replaces(todo'[t], s, todo[t])
    BY <1>2, <1>3, <2>1, <2>2, InvParts, MovesLists, MovesPicked, MovesAnswer
  <2>4. Located'
    <3>1. CASE current' = current
      BY <1>2, <1>3, <2>1, <2>2, <3>1, InvParts, MovesLocated
    <3>2. CASE s = Start
      <4>1. Member(s, "set")
        <5>1. Len(Start) = 3 /\ Start[2] = "set"
          BY DEF Start
        <5> QED
          BY <3>2, <5>1 DEF Member
      <4>2. Has(t, "set")'
        BY <2>3, <4>1, MovesMembers DEF Has
      <4> QED
        BY <1>2, <4>2 DEF Located
    <3> QED
      BY <1>5, <3>1, <3>2
  <2>5. OptType'
    BY <1>3, <1>5, InvParts DEF OptType
  <2> QED
    BY <1>4, <2>3, <2>4, <2>5, InvParts
<1>6. /\ current \in Items /\ play_times \in Int /\ 1 \in Items
      /\ play_times - 1 \in Int
      /\ GetNextItem(current) # NoItem => GetNextItem(current) \in Items
  BY GPlayerAssumption, InvParts DEF OptType, Items, GetNextItem, NoItem
<1> DEFINE next == GetNextItem(current)
<1>7. CASE next # NoItem /\ GoTo(t, next)
  BY <1>5, <1>6, <1>7 DEF GoTo
<1>8. CASE Then(t, Exit) /\ UNCHANGED <<current, play_times>>
  BY <1>5, <1>6, <1>8
<1>9. CASE GoTo(t, 1)
  BY <1>5, <1>6, <1>9 DEF GoTo
<1>10. CASE /\ play_times' = play_times - 1
            /\ Then(t, IF play_times = 1 THEN Exit ELSE Start)
            /\ current' = IF play_times = 1 THEN current ELSE 1
  <2>1. CASE play_times = 1
    <3>1. Then(t, Exit) /\ current' = current
      BY <1>10, <2>1, Zenon DEF Then
    <3> QED
      BY <1>5, <1>6, <1>10, <3>1
  <2>2. CASE play_times # 1
    <3>1. Then(t, Start) /\ current' = 1
      BY <1>10, <2>2, Zenon DEF Then
    <3> QED
      BY <1>5, <1>6, <1>10, <3>1
  <2> QED
    BY <2>1, <2>2
<1>11. CASE /\ Then(t, <<"stop", "play">> \o IF next = NoItem THEN Exit ELSE <<>>)
            /\ UNCHANGED <<current, play_times>>
  <2>1. CASE next = NoItem
    <3>1. Then(t, <<"stop", "play">> \o Exit)
      BY <1>11, <2>1, Zenon DEF Then
    <3> QED
      BY <1>5, <1>6, <1>11, <3>1
  <2>2. CASE next # NoItem
    <3>1. Then(t, <<"stop", "play">> \o <<>>)
      BY <1>11, <2>2, Zenon DEF Then
    <3> QED
      BY <1>5, <1>6, <1>11, <3>1
  <2> QED
    BY <2>1, <2>2
<1> QED
  BY <1>7, <1>8, <1>9, <1>10, <1>11, Zenon DEF PlaylistNext

LEMMA PreviousAgainStep ==
  ASSUME IInv, PreviousAgain("main") PROVE IInv'
<1>1. Moves("main", "again", <<>>) /\ At("main", "again")
  BY DEF PreviousAgain, At, Then, Moves
<1>2. /\ UNCHANGED <<pipeline, bus, messages, eos_semaphore, player_state, repeat,
                     play_times, flags, strayed>>
      /\ current' = picked /\ picked' = NoItem
  BY DEF PreviousAgain
<1>3. /\ queue' = queue /\ gbexit' = gbexit /\ uri' = uri
      /\ eos_semaphore' = eos_semaphore
  BY <1>2 DEF flags, pipeline, messages
<1>4. Lists' /\ OneAnswer' /\ Replaces(todo'["main"], <<>>, todo["main"])
  BY <1>1, <1>3, NoSteps, ThreadBus, InvParts, MovesLists, MovesAnswer
<1> DEFINE l == todo["main"]
<1>5. l[1] = "again" /\ Len(l) > 0 /\ l \in Seq(StepsOf["main"])
  BY <1>1, InvParts, AtStep, ThreadBus DEF Lists
<1>6. Len(l) \in Nat /\ \A i \in 1 .. Len(l) : PlaceOK(l, i)
  BY <1>5, ThreadBus, InvParts DEF Lists, WellFormed
<1>7. Len(l) = 5 /\ l[3] = "set"
  <2>1. 1 \in 1 .. Len(l)
    BY <1>5, <1>6
  <2>2. 1 + 4 = Len(l) /\ l[1 + 2] = "set"
    BY <1>5, <1>6, <2>1, Zenon DEF PlaceOK
  <2> QED
    BY <2>2
<1>8. picked \in Items
  <2>1. Has("main", "again")
    BY <1>5, <1>6 DEF Has, Member
  <2> QED
    BY <2>1, InvParts DEF PickedIsItem
<1>9. PickedIsItem'
  <2>1. SUFFICES ASSUME NEW i \in 1 .. Len(todo'["main"]), todo'["main"][i] = "again"
                 PROVE  FALSE
    BY DEF PickedIsItem, Has, Member
  <2>2. i + 1 \in 2 .. Len(l) /\ l[i + 1] = "again"
    BY <1>4, <2>1 DEF Replaces
  <2>3. PlaceOK(l, i + 1)
    BY <1>6, <2>2
  <2>4. i + 1 + 4 = Len(l)
    BY <2>2, <2>3 DEF PlaceOK
  <2> QED
    BY <1>7, <2>2, <2>4
<1>10. Located'
  <2>1. Member(l, "set") /\ l[1] # "set"
    BY <1>5, <1>7 DEF Member
  <2>2. Has("main", "set")'
    BY <1>4, <2>1, MovesMembers DEF Has
  <2> QED
    BY <2>2, ThreadBus DEF Located
<1>11. QueueType' /\ FlagType' /\ PipelineType' /\ PausedIsQuiet'
  BY <1>2, InvParts, SameTypes DEF pipeline
<1>12. OptType'
  BY <1>2, <1>3, <1>8, InvParts DEF OptType
<1> QED
  BY <1>4, <1>9, <1>10, <1>11, <1>12, InvParts

LEMMA BriefJoined ==
  ASSUME NEW S, NEW s \in Seq(S), NEW r \in Seq(S), Brief(s), Brief(r)
  PROVE  s \o r \in Seq(S) /\ Brief(s \o r)
<1> DEFINE n == s \o r
<1>0. n \in Seq(S) /\ ConsistsOf(n, s, r)
  BY JoinedAs
<1> HIDE DEF n
<1>1. n \in Seq(S) /\ ConsistsOf(n, s, r) /\ Len(s) \in Nat /\ Len(r) \in Nat
  BY <1>0
<1>2. ASSUME NEW i \in 1 .. Len(n)
      PROVE  /\ n[i] \in PlainSteps \cup {"flush"}
             /\ n[i] = "flush" => i < Len(n) /\ n[i + 1] = "exit"
  <2>1. CASE i <= Len(s)
    <3>1. n[i] = s[i] /\ i \in 1 .. Len(s)
      BY <1>1, <2>1 DEF ConsistsOf
    <3>2. /\ s[i] \in PlainSteps \cup {"flush"}
          /\ s[i] = "flush" => i < Len(s) /\ s[i + 1] = "exit"
      BY <3>1 DEF Brief
    <3>3. i < Len(s) => i < Len(n) /\ n[i + 1] = s[i + 1]
      BY <1>1, <3>1 DEF ConsistsOf
    <3> QED
      BY <3>1, <3>2, <3>3
  <2>2. CASE i > Len(s)
    <3>1. PICK j \in 1 .. Len(r) : j = i - Len(s) /\ n[i] = r[j]
      BY <1>1, <2>2 DEF ConsistsOf
    <3>2. /\ r[j] \in PlainSteps \cup {"flush"}
          /\ r[j] = "flush" => j < Len(r) /\ r[j + 1] = "exit"
      BY DEF Brief
    <3>3. j < Len(r) => i < Len(n) /\ n[i + 1] = r[j + 1]
      BY <1>1, <2>2, <3>1 DEF ConsistsOf
    <3> QED
      BY <3>1, <3>2, <3>3
  <2> QED
    BY <1>1, <2>1, <2>2
<1> QED
  BY <1>1, <1>2 DEF Brief, n

\* The lists of playlist_previous
LEMMA TwiceList ==
  LET l == (Start \o (<<"again">> \o Start)) \o <<"top">>
  IN  l \in Seq(StepsOf["main"]) /\ WellFormed(l) /\ Member(l, "set")
<1> DEFINE S == StepsOf["main"]
           a == <<"again">>
           b == a \o Start
           c == Start \o b
           r == <<"top">>
           l == c \o r
<1>1. "again" \in S /\ "top" \in S
  BY DEF StepsOf
<1>2. Start \in Seq(S)
  BY BriefLists
<1>3. Start[1] = "stop" /\ Start[2] = "set" /\ Start[3] = "play"
  BY DEF Start
<1>4. Len(Start) = 3
  BY DEF Start
<1> HIDE DEF S
<1>5. a \in Seq(S) /\ Len(a) = 1 /\ a[1] = "again"
  BY <1>1, Single
<1>6. r \in Seq(S) /\ Len(r) = 1 /\ r[1] = "top"
  BY <1>1, Single
<1> HIDE DEF a, r
<1>7. b \in Seq(S) /\ ConsistsOf(b, a, Start)
  BY <1>2, <1>5, JoinedAs
<1> HIDE DEF b
<1>8. Len(b) = 4 /\ b[1] = a[1] /\ \A i \in 2 .. 4 : b[i] = Start[i - 1]
  BY <1>4, <1>5, <1>7 DEF ConsistsOf
<1>9. c \in Seq(S) /\ ConsistsOf(c, Start, b)
  BY <1>2, <1>7, JoinedAs
<1> HIDE DEF c
<1>10. /\ Len(c) = 7 /\ \A i \in 1 .. 3 : c[i] = Start[i]
       /\ \A i \in 4 .. 7 : c[i] = b[i - 3]
  BY <1>4, <1>8, <1>9 DEF ConsistsOf
<1>11. l \in Seq(S) /\ ConsistsOf(l, c, r)
  BY <1>6, <1>9, JoinedAs
<1> HIDE DEF l
<1>12. Len(l) = 8 /\ (\A i \in 1 .. 7 : l[i] = c[i]) /\ l[8] = r[1]
  BY <1>6, <1>10, <1>11 DEF ConsistsOf
<1>13. /\ l[1] = Start[1] /\ l[2] = Start[2] /\ l[3] = Start[3]
       /\ l[5] = Start[1] /\ l[6] = Start[2] /\ l[7] = Start[3]
       /\ l[4] = a[1] /\ l[8] = r[1]
  <2>1. l[1] = Start[1] /\ l[2] = Start[2] /\ l[3] = Start[3]
    BY <1>10, <1>12
  <2>2. l[4] = a[1]
    BY <1>8, <1>10, <1>12
  <2>3. l[5] = b[2] /\ l[6] = b[3] /\ l[7] = b[4]
    BY <1>10, <1>12
  <2> QED
    BY <1>8, <1>12, <2>1, <2>2, <2>3
<1>14. /\ l[1] = "stop" /\ l[2] = "set" /\ l[3] = "play" /\ l[4] = "again"
       /\ l[5] = "stop" /\ l[6] = "set" /\ l[7] = "play" /\ l[8] = "top"
  BY <1>3, <1>5, <1>6, <1>13, Zenon
<1>15. PlaceOK(l, 1) /\ PlaceOK(l, 2) /\ PlaceOK(l, 3)
  BY <1>14, PlainPlace DEF PlacedSteps
<1>16. PlaceOK(l, 5) /\ PlaceOK(l, 6) /\ PlaceOK(l, 7)
  BY <1>14, PlainPlace DEF PlacedSteps
<1>17. PlaceOK(l, 8)
  BY <1>12, <1>14, LastPlace
<1>18. PlaceOK(l, 4)
  BY <1>12, <1>14 DEF PlaceOK
<1>19. \A i \in 1 .. Len(l) : i = 1 \/ i = 2 \/ i = 3 \/ i = 4 \/ i = 5 \/ i = 6
                              \/ i = 7 \/ i = 8
  BY <1>12
<1>20. WellFormed(l)
  BY <1>15, <1>16, <1>17, <1>18, <1>19, Zenon DEF WellFormed
<1>21. Member(l, "set")
  BY <1>12, <1>14 DEF Member
<1> QED
  BY <1>11, <1>20, <1>21 DEF l, c, b, a, r, S

\* The list of steps, and the item that goes with it, after playlist_previous
LEMMA PreviousFills ==
  ASSUME IInv, NEW l \in Seq(StepsOf["main"]), WellFormed(l), Fills("main", l),
         At("main", "previous"),
         UNCHANGED <<pipeline, bus, messages, eos_semaphore, player_state, repeat,
                     play_times, flags, strayed>>,
         current' \in Items, picked' \in Items \cup {NoItem},
         Member(l, "again") => picked' \in Items,
         Member(l, "set") \/ current' = current
  PROVE  IInv'
<1> DEFINE h == todo["main"]
<1>1. /\ queue' = queue /\ gbexit' = gbexit /\ uri' = uri
      /\ eos_semaphore' = eos_semaphore
  BY DEF flags, pipeline, messages
<1>2. h[1] = "previous" /\ Len(h) > 0 /\ h \in Seq(StepsOf["main"])
  BY InvParts, AtStep, ThreadBus DEF Lists
<1>3. Len(h) \in Nat /\ PlaceOK(h, 1)
  BY <1>2, ThreadBus, InvParts DEF Lists, WellFormed
<1>4. Len(h) = 2 /\ h[2] = "top"
  <2>1. 1 + 1 = Len(h) /\ h[1 + 1] = "top"
    BY <1>2, <1>3, Zenon DEF PlaceOK
  <2> QED
    BY <2>1
<1>5. \A x : Has("main", x) => x = "previous" \/ x = "top"
  BY <1>2, <1>4 DEF Has, Member
<1>6. /\ ~Has("main", "exit") /\ ~Has("main", "set") /\ ~Has("main", "again")
  BY <1>5
<1>7. Lists' /\ todo'["main"] = l /\ \A u \in Threads : u # "main" => todo'[u] = todo[u]
  BY InvParts, ThreadBus, FillsLists
<1>8. (Waiting' <=> Waiting) /\ (Left => Left')
  BY <1>1, <1>6, InvParts, ThreadBus, FillsWaiting, FillsLeft
<1>9. (Posting' <=> Posting) /\ Ends' = Ends
  BY <1>1, <1>7, ThreadBus DEF Posting, Has, Ends
<1>10. OneAnswer'
  BY <1>1, <1>8, <1>9, InvParts DEF OneAnswer
<1>11. PickedIsItem'
  BY <1>7 DEF PickedIsItem, Has
<1>12. Located'
  <2>1. CASE Member(l, "set")
    BY <1>7, <2>1, ThreadBus DEF Located, Has
  <2>2. CASE current' = current
    BY <1>1, <1>6, <2>2, InvParts, ThreadBus, FillsLocated
  <2> QED
    BY <2>1, <2>2
<1>13. QueueType' /\ FlagType' /\ PipelineType' /\ PausedIsQuiet'
  BY InvParts, SameTypes DEF pipeline
<1>14. OptType'
  BY <1>1, InvParts DEF OptType
<1> QED
  BY <1>7, <1>10, <1>11, <1>12, <1>13, <1>14, InvParts

LEMMA MemberOfJoined ==
  ASSUME NEW S, NEW f \in Seq(S), NEW g \in Seq(S), NEW k, ConsistsOf(k, f, g),
         NEW step, Member(f, step) \/ Member(g, step)
  PROVE  Member(k, step)
<1>1. Len(f) \in Nat /\ Len(g) \in Nat /\ Len(k) = Len(f) + Len(g)
  BY DEF ConsistsOf
<1>2. ASSUME NEW i \in 1 .. Len(f), f[i] = step PROVE Member(k, step)
  <2>1. i \in 1 .. Len(k) /\ k[i] = f[i]
    BY <1>1, <1>2 DEF ConsistsOf
  <2> QED
    BY <1>2, <2>1 DEF Member
<1>3. ASSUME NEW i \in 1 .. Len(g), g[i] = step PROVE Member(k, step)
  <2>1. PICK j \in 1 .. Len(k) : j = Len(f) + i
    BY <1>1
  <2>2. j > Len(f) /\ j - Len(f) = i
    BY <1>1, <2>1
  <2>3. k[j] = g[i]
    BY <1>1, <2>1, <2>2 DEF ConsistsOf
  <2> QED
    BY <1>3, <2>1, <2>3 DEF Member
<1> QED
  BY <1>2, <1>3 DEF Member

LEMMA StartSets == Member(Start, "set")
<1>1. Len(Start) = 3 /\ Start[2] = "set"
  BY DEF Start
<1> QED
  BY <1>1 DEF Member

LEMMA PlaylistPreviousStep ==
  ASSUME IInv, PlaylistPrevious("main") PROVE IInv'
<1> DEFINE S == StepsOf["main"]
           prev == GetPrevItem(current)
           last == prev = NoItem /\ repeat = "playlist"
           first == IF prev # NoItem THEN Start ELSE <<>>
           second == IF repeat = "current" THEN <<"stop", "play">>
                     ELSE IF prev # NoItem THEN <<"again">> \o Start
                     ELSE IF last THEN Start ELSE <<>>
<1>1. /\ At("main", "previous")
      /\ current' = IF prev # NoItem THEN prev
                    ELSE IF last THEN NumItems ELSE current
      /\ picked' = IF repeat = "current" THEN NoItem ELSE prev
      /\ Then("main", first \o second)
      /\ UNCHANGED <<pipeline, bus, messages, eos_semaphore, player_state, repeat,
                     play_times, flags, strayed>>
  BY DEF PlaylistPrevious
<1>2. /\ current' \in Items /\ picked' \in Items \cup {NoItem}
      /\ prev # NoItem => prev \in Items
  BY <1>1, GPlayerAssumption, InvParts DEF OptType, Items, NoItem, GetPrevItem
<1>3. Tail(todo["main"]) = <<"top">>
  <2> DEFINE h == todo["main"]
  <2>1. h[1] = "previous" /\ Len(h) > 0 /\ h \in Seq(S) /\ h # <<>>
    BY <1>1, InvParts, AtStep, ThreadBus DEF Lists
  <2>2. Len(h) \in Nat /\ PlaceOK(h, 1)
    BY <2>1, ThreadBus, InvParts DEF Lists, WellFormed
  <2> HIDE DEF h, S
  <2>3. 1 + 1 = Len(h) /\ h[1 + 1] = "top"
    BY <2>1, <2>2, Zenon DEF PlaceOK
  <2>8. Len(h) = 2
    BY <2>2, <2>3
  <2>10. /\ Tail(h) \in Seq(S) /\ Len(Tail(h)) = Len(h) - 1
         /\ \A i \in 1 .. Len(h) - 1 : Tail(h)[i] = h[i + 1]
    BY <2>1
  <2>4. Tail(h) \in Seq(S) /\ Len(Tail(h)) = 1 /\ 1 \in 1 .. Len(h) - 1
    BY <2>8, <2>10
  <2>5. "top" \in S
    BY DEF S, StepsOf
  <2>6. Tail(h)[1] = "top"
    BY <2>3, <2>4, <2>10, Zenon
  <2>7. Tail(h) = <<"top">>
    BY <2>4, <2>5, <2>6, IsSingle, Zenon
  <2> QED
    BY <2>7 DEF h
<1>4. todo' = [todo EXCEPT !["main"] = (first \o second) \o <<"top">>]
  BY <1>1, <1>3, Zenon DEF Then
<1>5. ASSUME NEW f \in {Start, <<>>}, NEW g \in {Start, <<>>, <<"stop", "play">>},
             first = f, second = g, f = Start \/ g = Start \/ current' = current
      PROVE  IInv'
  <2>1. f \in Seq(S) /\ Brief(f) /\ g \in Seq(S) /\ Brief(g)
    BY BriefLists
  <2>2. f \o g \in Seq(S) /\ Brief(f \o g)
    BY <2>1, BriefJoined
  <2>3. "top" \in S
    BY DEF StepsOf
  <2>4. PICK l : l = (f \o g) \o <<"top">>
    OBVIOUS
  <2>5. Fresh(S, l)
    BY <2>2, <2>3, <2>4, BriefThenLast
  <2>6. Fills("main", l)
    BY <1>4, <1>5, <2>4, Zenon DEF Fills
  <2>7. ~Member(l, "again")
    BY <2>5 DEF Fresh, Member
  <2>8. Member(l, "set") \/ current' = current
    <3>1. SUFFICES ASSUME f = Start \/ g = Start PROVE Member(l, "set")
      BY <1>5
    <3>2. PICK k : k = f \o g
      OBVIOUS
    <3>3. k \in Seq(S) /\ ConsistsOf(k, f, g)
      BY <2>1, <3>2, JoinedAs, Zenon
    <3>4. <<"top">> \in Seq(S)
      BY <2>3, Single
    <3>5. ConsistsOf(l, k, <<"top">>)
      BY <2>4, <3>2, <3>3, <3>4, JoinedAs, Zenon
    <3>6. Member(f, "set") \/ Member(g, "set")
      BY <3>1, StartSets, Zenon
    <3>7. Member(k, "set")
      BY <2>1, <3>3, <3>6, MemberOfJoined, Zenon
    <3> QED
      BY <3>3, <3>4, <3>5, <3>7, MemberOfJoined, Zenon
  <2> QED
    BY <1>1, <1>2, <2>5, <2>6, <2>7, <2>8, PreviousFills DEF Fresh
<1>6. CASE prev # NoItem /\ repeat = "current"
  BY <1>5, <1>6, Zenon
<1>7. CASE prev = NoItem /\ repeat = "current"
  <2>1. ~last
    BY <1>7
  <2>2. current' = current
    BY <1>1, <1>7, <2>1, Zenon
  <2> QED
    BY <1>5, <1>7, <2>2, Zenon
<1>8. CASE prev # NoItem /\ repeat # "current"
  <2>1. PICK l : l = (Start \o (<<"again">> \o Start)) \o <<"top">>
    OBVIOUS
  <2>2. l \in Seq(S) /\ WellFormed(l) /\ Member(l, "set")
    BY <2>1, TwiceList
  <2>3. Fills("main", l)
    BY <1>4, <1>8, <2>1, Zenon DEF Fills
  <2>4. picked' \in Items
    BY <1>1, <1>2, <1>8, Zenon
  <2> QED
    BY <1>1, <1>2, <2>2, <2>3, <2>4, PreviousFills
<1>9. CASE prev = NoItem /\ repeat = "playlist"
  <2>1. last /\ repeat # "current"
    BY <1>9
  <2> QED
    BY <1>5, <1>9, <2>1, Zenon
<1>10. CASE prev = NoItem /\ repeat # "current" /\ repeat # "playlist"
  <2>1. current' = current
    BY <1>1, <1>10, Zenon
  <2> QED
    BY <1>5, <1>10, <2>1, Zenon
<1> QED
  BY <1>6, <1>7, <1>8, <1>9, <1>10

-------------------------------------------------------------------------------
(* The invariant, and what it says of the player *)

LEMMA StutterStep ==
  ASSUME IInv, UNCHANGED vars PROVE IInv'
<1>1. todo' = todo /\ UNCHANGED <<uri, messages, eos_semaphore, opt, gbexit>>
  BY DEF vars, pipeline, flags
<1>2. FlagType' /\ PipelineType' /\ PausedIsQuiet'
  BY InvParts, SameTypes DEF vars, pipeline
<1> QED
  BY <1>1, <1>2, SameThreads

LEMMA NextIInv == IInv /\ [Next]_vars => IInv'
<1> SUFFICES ASSUME IInv, [Next]_vars PROVE IInv'
  OBVIOUS
<1>1. ASSUME NEW t \in Threads, Core(t) PROVE IInv'
  BY <1>1, PutStep, FlushStep, SetMediaLocationStep, PlayStep, StopStep DEF Core
<1>2. CASE BusStep
  BY <1>1, <1>2, ThreadBus, ReplaceStep, WaitStep, DispatchStep, BusReturnStep,
     BufferStep, BufferedStep DEF BusStep
<1>3. CASE MsgStep
  BY <1>1, <1>3, ThreadBus, PauseStep, SleepStep, GetStep, PostStep,
     PlaylistNextStep, SetExitStep, TopStep DEF MsgStep
<1>4. CASE MainStep
  BY <1>1, <1>4, ThreadBus, PauseStep, SeekStep, RateStep, RateEventStep,
     PlaylistNextStep, PlaylistPreviousStep, PreviousAgainStep, SetExitStep,
     SetRepeatStep, TopStep, InterruptedStep, NullStep, JoinStep DEF MainStep
<1>5. CASE Command \/ Emit \/ UNCHANGED vars
  BY <1>5, CommandStep, EmitStep, StutterStep
<1> QED
  BY <1>2, <1>3, <1>4, <1>5 DEF Next

LEMMA SpecIInv == Spec => []IInv
BY InitIInv, NextIInv, PTL DEF Spec

LEMMA HasIs ==
  ASSUME Lists, NEW t \in Threads, NEW x
  PROVE  Has(t, x) <=> x \in ToSet(todo[t])
<1>1. todo[t] \in Seq(StepsOf[t])
  BY DEF Lists
<1>2. DOMAIN todo[t] = 1 .. Len(todo[t])
  BY <1>1
<1> QED
  BY <1>2 DEF Has, Member, ToSet

LEMMA EndsCounted ==
  ASSUME OneAnswer, queue \in Seq(Messages)
  PROVE  Cardinality({i \in DOMAIN queue : queue[i] = "EOS"})
           = IF Ends = {} THEN 0 ELSE 1
<1>1. {i \in DOMAIN queue : queue[i] = "EOS"} = Ends
  <2>1. DOMAIN queue = 1 .. Len(queue)
    OBVIOUS
  <2> QED
    BY <2>1 DEF Ends
<1>2. CASE Ends = {}
  BY <1>1, <1>2, FS_EmptySet
<1>3. CASE Ends # {}
  <2>1. PICK i \in Ends : TRUE
    BY <1>3
  <2>2. Ends = {i}
    BY <2>1 DEF OneAnswer
  <2>3. Cardinality({i}) = 1
    BY FS_Singleton
  <2> QED
    BY <1>1, <1>3, <2>2, <2>3, Zenon
<1> QED
  BY <1>2, <1>3

LEMMA InvariantRendezvous ==
  ASSUME IInv PROVE EosRendezvous
<1>1. OneAnswer /\ Lists /\ queue \in Seq(Messages)
  BY DEF IInv, TypeOK
<1>2. Posting <=> "post" \in ToSet(todo["msg"])
  BY <1>1, HasIs, ThreadBus DEF Posting
<1>3. Answers = (IF Ends = {} THEN 0 ELSE 1) + (IF Posting THEN 1 ELSE 0)
                + eos_semaphore
  BY <1>1, <1>2, EndsCounted, Zenon DEF Answers
<1>4. Left <=> Leaving
  BY <1>1, HasIs, Zenon DEF Left, Leaving
<1>5. Answers <= 1
  BY <1>1, <1>3 DEF OneAnswer
<1>6. Answers = 1 => Waiting
  BY <1>1, <1>3 DEF OneAnswer
<1>7. Waiting => Answers = 1 \/ Leaving
  BY <1>1, <1>3, <1>4 DEF OneAnswer
<1> QED
  BY <1>5, <1>6, <1>7 DEF EosRendezvous

LEMMA InvariantFollows ==
  ASSUME IInv PROVE UriFollowsCurrent
<1>1. Located /\ Lists
  BY DEF IInv
<1> SUFFICES ASSUME uri # current PROVE UriFollowsCurrent
  BY DEF UriFollowsCurrent
<1>2. PICK t \in Threads : Has(t, "set") \/ Has(t, "again")
  BY <1>1 DEF Located
<1>3. "set" \in ToSet(todo[t]) \/ "again" \in ToSet(todo[t])
  BY <1>1, <1>2, HasIs, Zenon
<1> QED
  BY <1>3 DEF UriFollowsCurrent

\* The player's variables keep their types: the pipeline's state is one of
\* GStreamer's four, the item that is played and the one the pipeline has been
\* given are in the playlist, whatever playlist_next and playlist_previous
\* (mfw_gplay.c) move to, and every list of steps belongs to a thread.
THEOREM TypeCorrect == Spec => []TypeOK
<1>1. IInv => TypeOK
  BY DEF IInv
<1> QED
  BY <1>1, SpecIInv, PTL

\* Of the EOS that bus_callback sends to the message thread there is one
\* answer at most (in the queue, being handled, or posted), only while
\* bus_callback waits for it, and it is there for as long as bus_callback
\* waits, unless the player is being left, which is when the wait may hang.
THEOREM Rendezvous == Spec => []EosRendezvous
BY SpecIInv, InvariantRendezvous, PTL

\* A player the user has paused or stopped does not go back to PLAYING when
\* the pipeline reports that its buffers are full (bus_callback,
\* GST_MESSAGE_BUFFERING), unless a change of state has overstayed its timeout.
THEOREM Quiet == Spec => []PausedIsQuiet
<1>1. IInv => PausedIsQuiet
  BY DEF IInv
<1> QED
  BY <1>1, SpecIInv, PTL

\* The pipeline has been given the item that is current, or a thread that has
\* moved to another one still has the call of set_media_location to make, which
\* holds however the two threads that move through the playlist interleave.
THEOREM LocationFollows == Spec => []UriFollowsCurrent
BY SpecIInv, InvariantFollows, PTL

===============================================================================
