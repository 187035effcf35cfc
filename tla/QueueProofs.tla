---------------------------- MODULE QueueProofs ----------------------------
(***************************************************************************)
(* Admission is exact however many handlers race for it: for every set of  *)
(* requests and every capacity the counter is the number of slots, which   *)
(* is what atomic admission grants, and a job ends in one terminal event.  *)
(***************************************************************************)
EXTENDS InferenceQueue, SeqLemmas, FiniteSetTheorems

\* Every variable has its type.
TypeOK ==
  /\ pending \in Nat
  /\ observed \in [Request -> Nat]
  /\ client \in [Request -> {"new", "loaded", "reserved", "opening", "reading"} \cup Final]
  /\ gone \subseteq Request
  /\ channel \in [Request -> Seq(Event)]
  /\ queue \in Seq(Request)
  /\ worker \in {"recv", "check", "prepare", "run", "release", "close", "unwind", "dead"}
  /\ job \in Request \cup {NoRequest}
  /\ decoded \in Nat

Unsent == {"new", "loaded", "reserved", "busy", "stopped"}

\* A request is in one place: with its handler, once in the queue, or with the
\* worker; nothing was sent for one that is still with its handler, and a
\* handler only tries to take a place it has seen free.
OnePlace ==
  /\ \A i, j \in DOMAIN queue : queue[i] = queue[j] => i = j
  /\ job \notin Range(queue)
  /\ (job = NoRequest) <=> (worker \in {"recv", "dead"})
  /\ \A r \in Request : client[r] \in Unsent => ~SenderOpen(r) /\ channel[r] = << >>
  /\ \A r \in Request : client[r] = "loaded" => observed[r] < MaxQueue

\* What is inductive: neither the slots nor the events are without places.
IInv == TypeOK /\ OnePlace /\ SlotsMatchJobs /\ ExactlyOneTerminal

\* The variables of AdmissionControl under the refinement mapping.
Held == {r \in Request : HoldsSlot(r)}
Refused == {r \in Request : client[r] = "busy"}

LEMMA HeldIsFinite == IsFiniteSet(Held) /\ Cardinality(Held) \in Nat
<1>1. IsFiniteSet(Request) /\ Held \in SUBSET Request
  BY QueueAssumption DEF Held
<1> QED
  BY <1>1, FS_Subset, FS_CardinalityType

LEMMA RangeAppend ==
  ASSUME NEW S, NEW s \in Seq(S), NEW x \in S
  PROVE  Range(Append(s, x)) = Range(s) \cup {x}
<1>1. /\ Len(s) \in Nat /\ DOMAIN s = 1..Len(s)
      /\ DOMAIN Append(s, x) = 1..(Len(s) + 1)
      /\ Append(s, x)[Len(s) + 1] = x /\ \A i \in 1..Len(s) : Append(s, x)[i] = s[i]
  OBVIOUS
<1>2. 1..(Len(s) + 1) = 1..Len(s) \cup {Len(s) + 1}
  BY <1>1
<1> QED
  BY <1>1, <1>2, Zenon DEF Range

LEMMA RangeTail ==
  ASSUME NEW S, NEW s \in Seq(S), s # << >>,
         \A i, j \in DOMAIN s : s[i] = s[j] => i = j
  PROVE  /\ Head(s) \in Range(s) /\ Range(Tail(s)) = Range(s) \ {Head(s)}
         /\ Head(s) \notin Range(Tail(s))
         /\ \A i, j \in DOMAIN Tail(s) : Tail(s)[i] = Tail(s)[j] => i = j
<1> DEFINE t == Tail(s)
<1>1. /\ t \in Seq(S) /\ Len(t) = Len(s) - 1 /\ Len(s) > 0 /\ Len(s) \in Nat
      /\ \A i \in 1..Len(t) : t[i] = s[i + 1]
      /\ DOMAIN s = 1..Len(s) /\ DOMAIN t = 1..Len(t) /\ Head(s) = s[1]
  BY TailType
<1> HIDE DEF t
<1>2. Head(s) \in Range(s)
  BY <1>1 DEF Range
<1>3. \A i, j \in DOMAIN t : t[i] = t[j] => i = j
  <2> SUFFICES ASSUME NEW i \in 1..Len(t), NEW j \in 1..Len(t), t[i] = t[j] PROVE i = j
    BY <1>1
  <2>1. i + 1 \in 1..Len(s) /\ j + 1 \in 1..Len(s) /\ s[i + 1] = s[j + 1]
    BY <1>1
  <2>2. i + 1 \in DOMAIN s /\ j + 1 \in DOMAIN s
    BY <1>1, <2>1
  <2>3. i + 1 = j + 1
    BY <2>1, <2>2, Zenon
  <2> QED
    BY <2>3
<1>4. Range(t) \subseteq Range(s) \ {Head(s)}
  <2> SUFFICES ASSUME NEW i \in 1..Len(t) PROVE t[i] \in Range(s) /\ t[i] # Head(s)
    BY <1>1 DEF Range
  <2>1. i + 1 \in DOMAIN s /\ 1 \in DOMAIN s /\ i + 1 # 1 /\ t[i] = s[i + 1]
    BY <1>1
  <2> QED
    BY <1>1, <2>1 DEF Range
<1>5. Range(s) \ {Head(s)} \subseteq Range(t)
  <2> SUFFICES ASSUME NEW i \in 1..Len(s), s[i] # Head(s) PROVE s[i] \in Range(t)
    BY <1>1 DEF Range
  <2>1. i # 1
    BY <1>1
  <2>2. i - 1 \in 1..Len(t) /\ t[i - 1] = s[(i - 1) + 1] /\ (i - 1) + 1 = i
    BY <1>1, <2>1
  <2> QED
    BY <1>1, <2>2 DEF Range
<1> QED
  BY <1>2, <1>3, <1>4, <1>5 DEF t

-----------------------------------------------------------------------------
(***************************************************************************)
(* What a step may do to the slots: nothing, admit, refuse, or free.       *)
(***************************************************************************)
Exact == SlotsMatchJobs' /\ [Admission!Next]_(Admission!vars)

\* The abstract specification counts as this one does.
LEMMA SameCount == \A S : Admission!Cardinality(S) = Cardinality(S)
BY DEF Admission!Cardinality, Cardinality

LEMMA KeepsSlots ==
  ASSUME SlotsMatchJobs, Held' = Held, Refused' = Refused, pending' = pending
  PROVE  Exact
BY DEF Exact, SlotsMatchJobs, Held, Refused, Admission!vars

LEMMA Refuses ==
  ASSUME SlotsMatchJobs, NEW r \in Request, r \notin Held, r \notin Refused,
         pending >= MaxQueue, Held' = Held, Refused' = Refused \cup {r}, pending' = pending
  PROVE  Exact
<1>1. SlotsMatchJobs'
  BY DEF SlotsMatchJobs, Held
<1>2. Cardinality(Held) >= MaxQueue
  BY DEF SlotsMatchJobs, Held
<1>3. Admission!Refuse(r)
  BY <1>2, SameCount, Zenon DEF Admission!Refuse, Held, Refused
<1> QED
  BY <1>1, <1>3 DEF Exact, Admission!Next, Held, Refused

LEMMA Admits ==
  ASSUME SlotsMatchJobs, NEW r \in Request, r \notin Held, r \notin Refused,
         pending < MaxQueue, Held' = Held \cup {r}, Refused' = Refused, pending' = pending + 1
  PROVE  Exact
<1>1. pending = Cardinality(Held) /\ Cardinality(Held') = Cardinality(Held) + 1
  BY HeldIsFinite, FS_AddElement DEF SlotsMatchJobs, Held
<1>2. SlotsMatchJobs'
  BY <1>1 DEF SlotsMatchJobs, Held
<1>3. Admission!Admit(r)
  <2>1. Cardinality(Held) < MaxQueue
    BY <1>1
  <2> QED
    BY <2>1, SameCount, Zenon DEF Admission!Admit, Held, Refused
<1> QED
  BY <1>2, <1>3 DEF Exact, Admission!Next, Held, Refused

LEMMA Frees ==
  ASSUME SlotsMatchJobs, NEW r \in Held, Held' = Held \ {r}, Refused' = Refused,
         pending' = pending - 1
  PROVE  Exact /\ pending' \in Nat
<1>1. /\ pending = Cardinality(Held) /\ Cardinality(Held') = Cardinality(Held) - 1
      /\ Cardinality(Held) # 0
  BY HeldIsFinite, FS_RemoveElement, FS_EmptySet DEF SlotsMatchJobs, Held
<1>2. SlotsMatchJobs'
  BY <1>1 DEF SlotsMatchJobs, Held
<1>3. Admission!Free(r)
  BY DEF Admission!Free, Held, Refused
<1>4. pending' \in Nat
  BY <1>1, HeldIsFinite
<1> QED
  BY <1>2, <1>3, <1>4 DEF Exact, Admission!Next, Held, Refused

-----------------------------------------------------------------------------
(***************************************************************************)
(* The handler.                                                            *)
(***************************************************************************)
LEMMA InitHolds == Init => IInv /\ Admission!Init
<1> SUFFICES ASSUME Init PROVE IInv /\ Admission!Init
  OBVIOUS
<1>1. TypeOK
  BY DEF Init, TypeOK
<1>2. Range(queue) = {} /\ job = NoRequest /\ worker = "recv"
  BY DEF Init, Range
<1>3. OnePlace
  BY <1>2, QueueAssumption DEF Init, OnePlace, SenderOpen, Unsent
<1>4. Held = {} /\ Refused = {}
  BY <1>2, QueueAssumption DEF Init, Held, Refused, HoldsSlot
<1>5. SlotsMatchJobs
  BY <1>4, FS_EmptySet DEF Init, SlotsMatchJobs, Held
<1>6. ExactlyOneTerminal
  BY <1>2, QueueAssumption DEF Init, ExactlyOneTerminal, Ends, ReceiverOpen
<1> QED
  BY <1>1, <1>3, <1>4, <1>5, <1>6 DEF IInv, Admission!Init, Held, Refused

\* A handler that has not sent its job: the rest of the state stays.
LEMMA JudgeKeeps ==
  ASSUME IInv, NEW r \in Request, client[r] \in {"new", "loaded"}, Judge(r, pending),
         UNCHANGED <<pending, gone, channel, queue, worker, job, decoded>>
  PROVE  IInv' /\ Exact
<1>1. /\ client' = [client EXCEPT ![r] = client'[r]]
      /\ client'[r] \in {"busy", "loaded"} /\ (client'[r] = "busy" <=> pending >= MaxQueue)
      /\ observed' \in [Request -> Nat]
      /\ observed'[r] < MaxQueue /\ \A q \in Request \ {r} : observed'[q] = observed[q]
  <2>1. CASE pending >= MaxQueue
    <3>1. /\ client' = [client EXCEPT ![r] = "busy"]
          /\ observed' = [observed EXCEPT ![r] = 0]
      BY <2>1 DEF Judge
    <3>2. client'[r] = "busy" /\ observed'[r] = 0 /\ 0 < MaxQueue
      BY <3>1, QueueAssumption DEF IInv, TypeOK
    <3> QED
      BY <2>1, <3>1, <3>2 DEF IInv, TypeOK
  <2>2. CASE ~(pending >= MaxQueue)
    <3>1. /\ client' = [client EXCEPT ![r] = "loaded"]
          /\ observed' = [observed EXCEPT ![r] = pending]
      BY <2>2 DEF Judge
    <3>2. client'[r] = "loaded" /\ observed'[r] = pending /\ pending < MaxQueue
      BY <2>2, <3>1, QueueAssumption DEF IInv, TypeOK
    <3> QED
      BY <2>2, <3>1, <3>2 DEF IInv, TypeOK
  <2> QED
    BY <2>1, <2>2
<1>2. TypeOK'
  BY <1>1 DEF IInv, TypeOK, Final
<1>3. OnePlace'
  BY <1>1 DEF IInv, TypeOK, OnePlace, SenderOpen, Unsent
<1>4. ExactlyOneTerminal'
  BY <1>1 DEF IInv, TypeOK, ExactlyOneTerminal, Served, SenderOpen, ReceiverOpen
<1>5. Held' = Held /\ r \notin Held /\ r \notin Refused
  BY <1>1 DEF IInv, TypeOK, OnePlace, Held, Refused, HoldsSlot, SenderOpen, Unsent
<1>6. CASE pending >= MaxQueue
  <2>1. Refused' = Refused \cup {r}
    BY <1>1, <1>6 DEF IInv, TypeOK, Refused
  <2> QED
    BY <1>2, <1>3, <1>4, <1>5, <1>6, <2>1, Refuses DEF IInv, Exact
<1>7. CASE ~(pending >= MaxQueue)
  <2>1. Refused' = Refused
    BY <1>1, <1>5, <1>7 DEF IInv, TypeOK, Refused
  <2> QED
    BY <1>2, <1>3, <1>4, <1>5, <2>1, KeepsSlots DEF IInv, Exact
<1> QED
  BY <1>6, <1>7

LEMMA ExchangeKeeps ==
  ASSUME IInv, NEW r \in Request, Exchange(r)
  PROVE  IInv' /\ Exact
<1>1. /\ client[r] = "loaded" /\ pending < MaxQueue /\ pending' = pending + 1
      /\ client' = [client EXCEPT ![r] = "reserved"]
      /\ observed' = [observed EXCEPT ![r] = 0]
      /\ UNCHANGED <<gone, channel, queue, worker, job, decoded>>
  BY DEF IInv, TypeOK, OnePlace, Exchange
<1>2. TypeOK'
  BY <1>1 DEF IInv, TypeOK
<1>3. OnePlace'
  BY <1>1 DEF IInv, TypeOK, OnePlace, SenderOpen, Unsent
<1>4. ExactlyOneTerminal'
  BY <1>1 DEF IInv, TypeOK, ExactlyOneTerminal, Served, SenderOpen, ReceiverOpen
<1>5. r \notin Held /\ r \notin Refused
  BY <1>1 DEF IInv, OnePlace, Held, Refused, HoldsSlot, SenderOpen, Unsent
<1>6. Held' = Held \cup {r} /\ Refused' = Refused
  BY <1>1 DEF IInv, TypeOK, Held, Refused, HoldsSlot
<1> QED
  BY <1>1, <1>2, <1>3, <1>4, <1>5, <1>6, Admits DEF IInv, Exact

\* The slot goes into the queue with the job, or is given back.
LEMMA SendKeeps ==
  ASSUME IInv, NEW r \in Request, Send(r)
  PROVE  IInv' /\ Exact
<1>1. /\ client[r] = "reserved" /\ ~SenderOpen(r) /\ channel[r] = << >> /\ r \in Held
      /\ r \notin Refused
      /\ UNCHANGED <<observed, gone, channel, worker, job, decoded>>
  BY DEF IInv, OnePlace, Send, Unsent, Held, Refused, HoldsSlot
<1>2. CASE worker = "dead"
  <2>1. /\ pending' = pending - 1 /\ client' = [client EXCEPT ![r] = "stopped"]
        /\ queue' = queue
    BY <1>2 DEF Send
  <2>2. Held' = Held \ {r} /\ Refused' = Refused
    BY <1>1, <2>1 DEF IInv, TypeOK, Held, Refused, HoldsSlot, SenderOpen
  <2>3. Exact /\ pending' \in Nat
    BY <1>1, <2>1, <2>2, Frees DEF IInv
  <2>4. TypeOK'
    BY <1>1, <2>1, <2>3 DEF IInv, TypeOK, Final
  <2>5. OnePlace'
    BY <1>1, <2>1 DEF IInv, TypeOK, OnePlace, SenderOpen, Unsent
  <2>6. ExactlyOneTerminal'
    BY <1>1, <2>1 DEF IInv, TypeOK, ExactlyOneTerminal, Served, SenderOpen, ReceiverOpen
  <2> QED
    BY <2>3, <2>4, <2>5, <2>6 DEF IInv, Exact
<1>3. CASE worker # "dead"
  <2>1. /\ queue' = Append(queue, r) /\ pending' = pending
        /\ client' = [client EXCEPT ![r] = client'[r]] /\ client'[r] \in {"opening", "reading"}
    BY <1>3 DEF Send, IInv, TypeOK
  <2>2. queue' \in Seq(Request) /\ Range(queue') = Range(queue) \cup {r}
    BY <2>1, RangeAppend DEF IInv, TypeOK
  <2>3. Held' = Held /\ Refused' = Refused
    BY <1>1, <2>1, <2>2 DEF IInv, TypeOK, Held, Refused, HoldsSlot
  <2>4. TypeOK'
    BY <1>1, <2>1, <2>2 DEF IInv, TypeOK
  <2>5. \A i, j \in DOMAIN queue' : queue'[i] = queue'[j] => i = j
    <3>1. /\ DOMAIN queue' = 1..(Len(queue) + 1) /\ queue'[Len(queue) + 1] = r
          /\ \A i \in DOMAIN queue : queue'[i] = queue[i]
          /\ DOMAIN queue = 1..Len(queue) /\ Len(queue) \in Nat
      BY <2>1 DEF IInv, TypeOK
    <3>3. \A i \in DOMAIN queue : queue[i] # r
      BY <1>1, Zenon DEF SenderOpen, Range
    <3>2. \A i \in DOMAIN queue' : i \in DOMAIN queue \/ i = Len(queue) + 1
      BY <3>1
    <3> QED
      BY <3>1, <3>2, <3>3, Zenon DEF IInv, OnePlace
  <2>6. OnePlace'
    BY <1>1, <2>1, <2>2, <2>5 DEF IInv, TypeOK, OnePlace, SenderOpen, Unsent
  <2>7. ExactlyOneTerminal'
    BY <1>1, <2>1, <2>2
    DEF IInv, TypeOK, ExactlyOneTerminal, Served, SenderOpen, ReceiverOpen, Ends
  <2> QED
    BY <2>1, <2>3, <2>4, <2>6, <2>7, KeepsSlots DEF IInv, Exact
<1> QED
  BY <1>2, <1>3
-----------------------------------------------------------------------------
(***************************************************************************)
(* The reading task.                                                       *)
(***************************************************************************)
\* A task that only reads or leaves touches no slot; its receiver is not opened
\* again, and what is left in its channel still ends the way it did.
LEMMA ReaderKeeps ==
  ASSUME IInv, NEW r \in Request, ReceiverOpen(r),
         NEW outcome, client' = [client EXCEPT ![r] = outcome],
         \/ /\ outcome \in {"opening", "reading"}
            /\ \/ channel' = channel
               \/ channel[r] # << >> /\ Head(channel[r]) = "delta"
                  /\ channel' = [channel EXCEPT ![r] = Tail(@)]
         \/ /\ outcome \in {"done", "failed", "lost", "dropped"}
            /\ channel' = [channel EXCEPT ![r] = << >>]
            /\ outcome = "lost" => worker = "dead",
         gone' \subseteq Request,
         UNCHANGED <<pending, observed, queue, worker, job, decoded>>
  PROVE  IInv' /\ Exact
<1>1. client[r] \in {"opening", "reading"} /\ outcome \notin Unsent
  BY DEF ReceiverOpen, Unsent
<1>2. channel' \in [Request -> Seq(Event)] /\ \A q \in Request \ {r} : channel'[q] = channel[q]
  <2>1. channel \in [Request -> Seq(Event)] /\ << >> \in Seq(Event)
    BY DEF IInv, TypeOK
  <2>2. channel[r] # << >> => Tail(channel[r]) \in Seq(Event)
    BY <2>1, TailType
  <2> QED
    BY <2>1, <2>2
<1>3. TypeOK'
  BY <1>2 DEF IInv, TypeOK, Final
<1>4. OnePlace'
  BY <1>1, <1>2 DEF IInv, TypeOK, OnePlace, SenderOpen, Unsent
<1>5. Held' = Held /\ Refused' = Refused
  BY <1>1 DEF IInv, TypeOK, Held, Refused, HoldsSlot, Unsent
<1>6. \/ channel'[r] = channel[r] \/ channel'[r] = << >>
      \/ channel[r] # << >> /\ Head(channel[r]) = "delta" /\ channel'[r] = Tail(channel[r])
  BY DEF IInv, TypeOK
<1>7. /\ \A i \in DOMAIN channel'[r] :
           channel'[r][i] \in Terminal <=> i = Len(channel'[r]) /\ Ends(channel'[r])
      /\ channel'[r] # << >> => (Ends(channel'[r]) <=> Ends(channel[r]))
      /\ outcome \in {"opening", "reading"} => (Ends(channel'[r]) <=> Ends(channel[r]))
  <2> DEFINE c == channel[r]
             d == channel'[r]
  <2>1. /\ c \in Seq(Event)
        /\ \A i \in DOMAIN c : c[i] \in Terminal <=> i = Len(c) /\ Ends(c)
    BY DEF IInv, TypeOK, ExactlyOneTerminal
  <2>2. CASE d = c
    BY <2>1, <2>2
  <2>3. CASE d = << >> /\ outcome \notin {"opening", "reading"}
    BY <2>3
  <2>4. CASE c # << >> /\ Head(c) = "delta" /\ d = Tail(c)
    <3>1. /\ d \in Seq(Event) /\ Len(d) = Len(c) - 1 /\ Len(c) \in Nat /\ Len(c) > 0
          /\ \A i \in 1..Len(d) : d[i] = c[i + 1]
          /\ DOMAIN c = 1..Len(c) /\ DOMAIN d = 1..Len(d) /\ c[1] \notin Terminal
      BY <2>1, <2>4, TailType DEF Terminal
    <3> HIDE DEF c, d
    <3>2. Ends(d) <=> Ends(c)
      <4>1. CASE d = << >>
        BY <2>1, <3>1, <4>1 DEF Ends, Last
      <4>2. CASE d # << >>
        BY <2>1, <3>1, <4>2 DEF Ends, Last
      <4> QED
        BY <4>1, <4>2
    <3>3. \A i \in DOMAIN d : d[i] \in Terminal <=> i = Len(d) /\ Ends(d)
      <4> SUFFICES ASSUME NEW i \in 1..Len(d)
                   PROVE  d[i] \in Terminal <=> i = Len(d) /\ Ends(d)
        BY <3>1
      <4>1. i + 1 \in DOMAIN c /\ d[i] = c[i + 1] /\ (i + 1 = Len(c) <=> i = Len(d))
        BY <3>1
      <4> QED
        BY <2>1, <3>2, <4>1
    <3> QED
      BY <3>2, <3>3 DEF c, d
  <2>5. d = c \/ (d = << >> /\ outcome \notin {"opening", "reading"})
        \/ (c # << >> /\ Head(c) = "delta" /\ d = Tail(c))
    BY DEF IInv, TypeOK
  <2> QED
    BY <2>2, <2>3, <2>4, <2>5
<1>8. ExactlyOneTerminal'
  <2> SUFFICES ASSUME NEW q \in Request
               PROVE  (/\ \A i \in DOMAIN channel[q] :
                            channel[q][i] \in Terminal <=> i = Len(channel[q]) /\ Ends(channel[q])
                       /\ Ends(channel[q]) => Served(q)
                       /\ ReceiverOpen(q) /\ Served(q) => Ends(channel[q]) \/ worker = "dead"
                       /\ client[q] = "lost" => worker = "dead")'
    BY DEF ExactlyOneTerminal
  <2>1. Served(q)' <=> Served(q)
    BY DEF Served, SenderOpen
  <2>2. CASE q # r
    BY <1>2, <2>1, <2>2 DEF IInv, TypeOK, ExactlyOneTerminal, ReceiverOpen
  <2>3. CASE q = r
    <3>1. client'[r] = outcome
      BY DEF IInv, TypeOK
    <3>2. Ends(channel'[r]) => Ends(channel[r])
      BY <1>7 DEF Ends
    <3> QED
      BY <1>7, <2>1, <2>3, <3>1, <3>2 DEF IInv, ExactlyOneTerminal, ReceiverOpen
  <2> QED
    BY <2>2, <2>3
<1> QED
  BY <1>3, <1>4, <1>5, <1>8, KeepsSlots DEF IInv, Exact

LEMMA ReadKeeps ==
  ASSUME IInv, NEW r \in Request, Disconnect(r) \/ Read(r)
  PROVE  IInv' /\ Exact
<1>1. ReceiverOpen(r) /\ client[r] \in {"opening", "reading"}
      /\ UNCHANGED <<pending, observed, queue, worker, job, decoded>>
  BY DEF Disconnect, Read, OpenStream, ReadEvent, EndOfEvents, ReceiverOpen
<1>2. ASSUME NEW outcome \in {"done", "failed", "lost", "dropped"}, Leave(r, outcome),
             outcome = "lost" => worker = "dead"
      PROVE  IInv' /\ Exact
  BY <1>1, <1>2, ReaderKeeps DEF Leave, IInv, TypeOK
<1>3. CASE client' = client /\ channel' = channel /\ gone' \subseteq Request
  <2>1. client' = [client EXCEPT ![r] = client[r]]
    BY <1>3 DEF IInv, TypeOK
  <2> QED
    BY <1>1, <1>3, <2>1, ReaderKeeps
<1>4. CASE /\ client' = [client EXCEPT ![r] = "reading"] /\ channel' = channel /\ gone' = gone
  BY <1>1, <1>4, ReaderKeeps DEF IInv, TypeOK
<1>5. CASE /\ client' = client /\ channel[r] # << >> /\ Head(channel[r]) = "delta"
           /\ channel' = [channel EXCEPT ![r] = Tail(@)] /\ gone' = gone
  <2>1. client' = [client EXCEPT ![r] = client[r]]
    BY <1>5 DEF IInv, TypeOK
  <2> QED
    BY <1>1, <1>5, <2>1, ReaderKeeps DEF IInv, TypeOK
<1>6. CASE Disconnect(r)
  BY <1>2, <1>3, <1>6 DEF Disconnect, IInv, TypeOK
<1>7. CASE OpenStream(r)
  BY <1>2, <1>4, <1>7 DEF OpenStream
<1>8. CASE ReadEvent(r)
  BY <1>2, <1>5, <1>8 DEF ReadEvent, Terminal
<1>9. CASE EndOfEvents(r)
  <2>1. worker = "dead"
    BY <1>1, <1>9 DEF EndOfEvents, IInv, ExactlyOneTerminal, Served, Ends
  <2> QED
    BY <1>2, <1>9, <2>1 DEF EndOfEvents
<1> QED
  BY <1>6, <1>7, <1>8, <1>9 DEF Read
-----------------------------------------------------------------------------
(***************************************************************************)
(* The worker.                                                             *)
(***************************************************************************)
LEMMA ReceiveKeeps ==
  ASSUME IInv, Receive
  PROVE  IInv' /\ Exact
<1>1. /\ worker = "recv" /\ queue # << >> /\ job = NoRequest
      /\ job' = Head(queue) /\ queue' = Tail(queue) /\ worker' = "check"
      /\ UNCHANGED <<pending, observed, client, gone, channel, decoded>>
  BY DEF Receive, requests, IInv, OnePlace
<1>2. /\ job' \in Range(queue) /\ Range(queue') = Range(queue) \ {job'} /\ job' \notin Range(queue')
      /\ \A i, j \in DOMAIN queue' : queue'[i] = queue'[j] => i = j
      /\ queue' \in Seq(Request) /\ job' \in Request
  BY <1>1, RangeTail, TailType DEF IInv, TypeOK, OnePlace
<1>3. TypeOK'
  BY <1>1, <1>2 DEF IInv, TypeOK
<1>4. \A r \in Request : SenderOpen(r)' <=> SenderOpen(r)
  BY <1>1, <1>2, QueueAssumption DEF SenderOpen
<1>5. OnePlace'
  BY <1>1, <1>2, <1>4, QueueAssumption DEF IInv, TypeOK, OnePlace
<1>6. Held' = Held /\ Refused' = Refused
  BY <1>1, <1>2, QueueAssumption DEF Held, Refused, HoldsSlot
<1>7. \A r \in Request : Served(r)' <=> Served(r)
  BY <1>1, <1>2, <1>4, QueueAssumption DEF Served
<1>8. ExactlyOneTerminal'
  BY <1>1, <1>7 DEF IInv, ExactlyOneTerminal, ReceiverOpen, Ends
<1> QED
  BY <1>1, <1>3, <1>5, <1>6, <1>8, KeepsSlots DEF IInv, Exact

\* Between receiving a job and dropping its slot the worker sends events: deltas
\* while it goes on, and as it ends the job one terminal event, unless the
\* receiver is gone.
LEMMA ServeKeeps ==
  ASSUME IInv, worker \in {"check", "prepare", "run"},
         worker' \in {"prepare", "run", "release"},
         NEW events \in Seq(Event),
         \A i \in DOMAIN events : events[i] \in Terminal <=> i = Len(events) /\ Ends(events),
         Ends(events) => worker' = "release",
         worker' = "release" /\ ReceiverOpen(job) => Ends(events),
         SendEvents(events), decoded' \in Nat,
         UNCHANGED <<pending, observed, client, gone, queue, job>>
  PROVE  IInv' /\ Exact
<1>1. job \in Request /\ job \notin Range(queue)
  BY DEF IInv, TypeOK, OnePlace
<1>2. /\ channel' \in [Request -> Seq(Event)]
      /\ \A r \in Request \ {job} : channel'[r] = channel[r]
      /\ channel'[job] = IF ReceiverOpen(job) THEN channel[job] \o events ELSE channel[job]
  <2>1. channel \in [Request -> Seq(Event)] /\ channel[job] \o events \in Seq(Event)
    BY <1>1 DEF IInv, TypeOK
  <2> QED
    BY <1>1, <2>1 DEF SendEvents
<1>3. TypeOK'
  BY <1>2 DEF IInv, TypeOK
<1>4. OnePlace'
  BY <1>1, <1>2 DEF IInv, TypeOK, OnePlace, SenderOpen
<1>5. Held' = Held /\ Refused' = Refused
  BY DEF Held, Refused, HoldsSlot
<1>6. ~Ends(channel[job])
  BY <1>1 DEF IInv, ExactlyOneTerminal, Served, SenderOpen
<1>7. /\ \A i \in DOMAIN channel'[job] :
           channel'[job][i] \in Terminal <=> i = Len(channel'[job]) /\ Ends(channel'[job])
      /\ Ends(channel'[job]) <=> ReceiverOpen(job) /\ Ends(events)
  <2> DEFINE c == channel[job]
             d == channel'[job]
  <2>1. c \in Seq(Event) /\ ~Ends(c) /\ \A i \in DOMAIN c : c[i] \notin Terminal
    BY <1>1, <1>6 DEF IInv, TypeOK, ExactlyOneTerminal
  <2>2. CASE ~ReceiverOpen(job)
    BY <1>2, <2>1, <2>2
  <2>3. CASE ReceiverOpen(job)
    <3>1. d = c \o events
      BY <1>2, <2>3
    <3> HIDE DEF c, d
    <3>2. /\ Len(c) \in Nat /\ Len(events) \in Nat /\ Len(d) = Len(c) + Len(events)
          /\ DOMAIN c = 1..Len(c) /\ DOMAIN d = 1..Len(d) /\ DOMAIN events = 1..Len(events)
          /\ \A i \in 1..Len(c) : d[i] = c[i]
          /\ \A i \in 1..Len(events) : d[Len(c) + i] = events[i]
          /\ (Len(c) = 0 <=> c = << >>) /\ (Len(events) = 0 <=> events = << >>)
          /\ (Len(d) = 0 <=> d = << >>)
      BY <2>1, <3>1
    <3>3. Ends(d) <=> Ends(events)
      <4>1. CASE events = << >>
        <5>1. d = c
          BY <2>1, <3>1, <4>1
        <5> QED
          BY <2>1, <4>1, <5>1 DEF Ends
      <4>2. CASE events # << >>
        <5>1. d # << >> /\ Last(d) = Last(events)
          BY <3>2, <4>2 DEF Last
        <5> QED
          BY <4>2, <5>1 DEF Ends
      <4> QED
        BY <4>1, <4>2
    <3>4. ASSUME NEW i \in DOMAIN d
          PROVE  d[i] \in Terminal <=> i = Len(d) /\ Ends(d)
      <4>1. CASE i \in 1..Len(c)
        <5>1. d[i] \notin Terminal
          BY <2>1, <3>2, <4>1
        <5>2. i = Len(d) => events = << >>
          BY <3>2, <4>1
        <5> QED
          BY <3>3, <5>1, <5>2 DEF Ends
      <4>2. CASE i \notin 1..Len(c)
        <5>1. /\ i - Len(c) \in 1..Len(events) /\ Len(c) + (i - Len(c)) = i
              /\ i - Len(c) = Len(events) <=> i = Len(d)
          BY <3>2, <4>2
        <5>2. d[i] = events[i - Len(c)]
          BY <3>2, <5>1
        <5> QED
          BY <3>2, <3>3, <5>1, <5>2
      <4> QED
        BY <4>1, <4>2
    <3> QED
      BY <2>3, <3>3, <3>4 DEF c, d
  <2> QED
    BY <2>2, <2>3
<1>8. ExactlyOneTerminal'
  <2> SUFFICES ASSUME NEW r \in Request
               PROVE  (/\ \A i \in DOMAIN channel[r] :
                            channel[r][i] \in Terminal <=> i = Len(channel[r]) /\ Ends(channel[r])
                       /\ Ends(channel[r]) => Served(r)
                       /\ ReceiverOpen(r) /\ Served(r) => Ends(channel[r]) \/ worker = "dead"
                       /\ client[r] = "lost" => worker = "dead")'
    BY DEF ExactlyOneTerminal
  <2>1. CASE r # job
    <3>1. Served(r)' <=> Served(r)
      BY <2>1 DEF Served, SenderOpen
    <3> QED
      BY <1>2, <2>1, <3>1 DEF IInv, ExactlyOneTerminal, ReceiverOpen, Ends
  <2>2. CASE r = job
    <3>1. Served(r)' <=> worker' = "release"
      BY <2>2 DEF Served, SenderOpen
    <3>2. Ends(channel[r])' <=> ReceiverOpen(job) /\ Ends(events)
      BY <1>7, <2>2 DEF Ends
    <3>3. client[r] # "lost"
      BY DEF IInv, ExactlyOneTerminal
    <3> QED
      BY <1>7, <2>2, <3>1, <3>2, <3>3 DEF ReceiverOpen, Ends
  <2> QED
    BY <2>1, <2>2
<1> QED
  BY <1>3, <1>4, <1>5, <1>8, KeepsSlots DEF IInv, Exact

\* Nothing sent, a delta, and the events that end a job.
LEMMA EventsSent ==
  /\ << >> \in Seq(Event) /\ ~Ends(<< >>)
  /\ <<"delta">> \in Seq(Event) /\ ~Ends(<<"delta">>)
  /\ \A i \in DOMAIN << >> : << >>[i] \in Terminal <=> i = Len(<< >>) /\ Ends(<< >>)
  /\ \A i \in DOMAIN <<"delta">> :
       <<"delta">>[i] \in Terminal <=> i = Len(<<"delta">>) /\ Ends(<<"delta">>)
  /\ \A last \in Terminal :
       /\ <<last>> \in Seq(Event) /\ Ends(<<last>>)
       /\ \A i \in DOMAIN <<last>> : <<last>>[i] \in Terminal <=> i = Len(<<last>>) /\ Ends(<<last>>)
       /\ <<"delta", last>> \in Seq(Event) /\ Ends(<<"delta", last>>)
       /\ \A i \in DOMAIN <<"delta", last>> :
            <<"delta", last>>[i] \in Terminal <=> i = Len(<<"delta", last>>) /\ Ends(<<"delta", last>>)
<1>1. "delta" \in Event /\ "delta" \notin Terminal /\ Terminal \subseteq Event
  BY DEF Event, Terminal
<1>2. ~Ends(<< >>) /\ ~Ends(<<"delta">>)
  BY <1>1 DEF Ends, Last
<1>3. \A last \in Terminal : Ends(<<last>>) /\ Ends(<<"delta", last>>)
  BY DEF Ends, Last
<1> QED
  BY <1>1, <1>2, <1>3
LEMMA GenerateKeeps ==
  ASSUME IInv, Check \/ Generate
  PROVE  IInv' /\ Exact
<1>1. job \in Request
  BY DEF Check, Generate, Prepare, Token, Complete, Fail, IInv, TypeOK, OnePlace
<1>2. channel' = channel => SendEvents(<< >>)
  <2>1. channel[job] \o << >> = channel[job] /\ channel \in [Request -> Seq(Event)]
    BY <1>1, ConcatEmpty DEF IInv, TypeOK
  <2> QED
    BY <1>1, <2>1 DEF SendEvents
<1>3. CASE Check
  <2>1. /\ worker = "check" /\ worker' = IF ReceiverOpen(job) THEN "prepare" ELSE "release"
        /\ UNCHANGED <<pending, observed, client, gone, channel, queue, job, decoded>>
    BY <1>3 DEF Check, requests
  <2> QED
    BY <1>2, <2>1, ServeKeeps, EventsSent DEF IInv, TypeOK
<1>4. ASSUME NEW thinkingOpen \in BOOLEAN, Prepare(thinkingOpen) PROVE IInv' /\ Exact
  <2>1. /\ worker = "prepare"
        /\ UNCHANGED <<pending, observed, client, gone, queue, job, decoded>>
        /\ worker' = IF thinkingOpen /\ ~ReceiverOpen(job) THEN "release" ELSE "run"
        /\ SendEvents(<<"delta">>) \/ SendEvents(<< >>)
    BY <1>2, <1>4 DEF Prepare, requests
  <2> QED
    BY <2>1, ServeKeeps, EventsSent DEF IInv, TypeOK
<1>5. ASSUME NEW visible \in BOOLEAN, Token(visible) PROVE IInv' /\ Exact
  <2>1. /\ worker = "run" /\ decoded' = decoded + 1
        /\ UNCHANGED <<pending, observed, client, gone, queue, job>>
        /\ worker' = IF visible /\ ~ReceiverOpen(job) THEN "release" ELSE "run"
        /\ SendEvents(<<"delta">>) \/ SendEvents(<< >>)
    BY <1>2, <1>5 DEF Token, requests
  <2>2. decoded' \in Nat
    BY <2>1 DEF IInv, TypeOK
  <2>3. CASE SendEvents(<<"delta">>)
    BY <2>1, <2>2, <2>3, ServeKeeps, EventsSent DEF IInv, TypeOK
  <2>4. CASE SendEvents(<< >>)
    <3>1. CASE visible /\ ~ReceiverOpen(job)
      BY <2>1, <2>2, <2>4, <3>1, ServeKeeps, EventsSent
    <3>2. CASE ~(visible /\ ~ReceiverOpen(job))
      BY <2>1, <2>2, <2>4, <3>2, ServeKeeps, EventsSent
    <3> QED
      BY <3>1, <3>2
  <2> QED
    BY <2>1, <2>3, <2>4
<1>6. ASSUME NEW held \in BOOLEAN, Complete(held) PROVE IInv' /\ Exact
  <2>1. /\ worker = "run" /\ worker' = "release" /\ "done" \in Terminal
        /\ UNCHANGED <<pending, observed, client, gone, queue, job, decoded>>
        /\ SendEvents(<<"delta", "done">>) \/ SendEvents(<<"done">>)
    BY <1>6 DEF Complete, requests, Terminal
  <2> QED
    BY <2>1, ServeKeeps, EventsSent DEF IInv, TypeOK
<1>7. CASE Fail
  <2>1. /\ worker \in {"prepare", "run"} /\ worker' = "release" /\ "failed" \in Terminal
        /\ UNCHANGED <<pending, observed, client, gone, queue, job, decoded>>
        /\ SendEvents(<<"failed">>)
    BY <1>7 DEF Fail, requests, Terminal
  <2> QED
    BY <2>1, ServeKeeps, EventsSent DEF IInv, TypeOK
<1> QED
  BY <1>3, <1>4, <1>5, <1>6, <1>7 DEF Generate

\* The job's slot is dropped, by its drop or by a panic.
LEMMA DropSlotKeeps ==
  ASSUME IInv, Release \/ Panic
  PROVE  IInv' /\ Exact
<1>1. /\ worker \in {"release", "prepare", "run"} /\ pending' = pending - 1
      /\ worker' = (IF worker = "release" THEN "close" ELSE "unwind")
      /\ UNCHANGED <<observed, client, gone, channel, queue, job, decoded>>
  BY DEF Release, Panic, requests
<1>2. job \in Held /\ job \notin Range(queue)
  BY <1>1 DEF IInv, TypeOK, OnePlace, Held, HoldsSlot
<1>3. client[job] # "reserved"
  BY <1>2 DEF IInv, OnePlace, Unsent, SenderOpen, Held
<1>4. Held' = Held \ {job} /\ Refused' = Refused
  BY <1>1, <1>2, <1>3 DEF Held, Refused, HoldsSlot
<1>5. Exact /\ pending' \in Nat
  BY <1>1, <1>2, <1>4, Frees DEF IInv
<1>6. TypeOK'
  BY <1>1, <1>5 DEF IInv, TypeOK
<1>7. OnePlace'
  BY <1>1 DEF IInv, OnePlace, SenderOpen
<1>8. ExactlyOneTerminal'
  BY <1>1 DEF IInv, ExactlyOneTerminal, Served, SenderOpen, ReceiverOpen, Ends
<1> QED
  BY <1>5, <1>6, <1>7, <1>8 DEF IInv, Exact

\* The job's sender is dropped, and the worker goes on or is no more.
LEMMA DropJobKeeps ==
  ASSUME IInv, Close \/ Die
  PROVE  IInv' /\ Exact
<1>1. /\ worker \in {"close", "unwind"} /\ job \in Request /\ job' = NoRequest
      /\ worker' = (IF worker = "close" THEN "recv" ELSE "dead")
      /\ decoded' = 0 /\ UNCHANGED <<pending, observed, client, gone, channel, queue>>
  BY DEF Close, Die, requests, IInv, TypeOK, OnePlace
<1>2. NoRequest \notin Range(queue) /\ NoRequest \notin Request
  BY QueueAssumption DEF IInv, TypeOK, Range
<1>3. Held' = Held /\ Refused' = Refused
  BY <1>1, <1>2 DEF Held, Refused, HoldsSlot
<1>4. TypeOK'
  BY <1>1 DEF IInv, TypeOK
<1>5. OnePlace'
  BY <1>1, <1>2 DEF IInv, OnePlace, SenderOpen
<1>6. ExactlyOneTerminal'
  <2> SUFFICES ASSUME NEW r \in Request
               PROVE  /\ Ends(channel[r]) => Served(r)'
                      /\ ReceiverOpen(r) /\ Served(r)' => Ends(channel[r]) \/ worker' = "dead"
                      /\ client[r] = "lost" => worker' = "dead"
    BY <1>1 DEF IInv, ExactlyOneTerminal, ReceiverOpen, Ends
  <2>1. CASE r # job
    <3>1. Served(r)' <=> ~SenderOpen(r)
      BY <1>1, <1>2, <2>1 DEF Served, SenderOpen
    <3>2. Served(r) <=> ~SenderOpen(r)
      BY <2>1 DEF Served
    <3> QED
      BY <1>1, <3>1, <3>2 DEF IInv, ExactlyOneTerminal
  <2>2. CASE r = job
    <3>1. Served(r)' /\ (Served(r) <=> worker = "close")
      BY <1>1, <1>2, <2>2 DEF Served, SenderOpen, IInv, OnePlace
    <3> QED
      BY <1>1, <3>1 DEF IInv, ExactlyOneTerminal
  <2> QED
    BY <2>1, <2>2
<1> QED
  BY <1>1, <1>3, <1>4, <1>5, <1>6, KeepsSlots DEF IInv, Exact

LEMMA DropQueuedKeeps ==
  ASSUME IInv, DropQueued
  PROVE  IInv' /\ Exact
<1> DEFINE r == Head(queue)
<1>1. /\ worker = "dead" /\ queue # << >> /\ job = NoRequest
      /\ queue' = Tail(queue) /\ pending' = pending - 1
      /\ UNCHANGED <<observed, client, gone, channel, worker, job, decoded>>
  BY DEF DropQueued, requests, IInv, OnePlace
<1>2. /\ r \in Request /\ r \in Range(queue) /\ Range(queue') = Range(queue) \ {r}
      /\ \A i, j \in DOMAIN queue' : queue'[i] = queue'[j] => i = j
      /\ queue' \in Seq(Request) /\ r \notin Range(queue')
  BY <1>1, RangeTail, TailType DEF IInv, TypeOK, OnePlace
<1> HIDE DEF r
<1>3. r \in Held /\ client[r] # "reserved"
  BY <1>2 DEF IInv, OnePlace, Unsent, SenderOpen, Held, HoldsSlot
<1>4. Held' = Held \ {r} /\ Refused' = Refused
  BY <1>1, <1>2, <1>3 DEF Held, Refused, HoldsSlot
<1>5. Exact /\ pending' \in Nat
  BY <1>1, <1>3, <1>4, Frees DEF IInv
<1>6. TypeOK'
  BY <1>1, <1>2, <1>5 DEF IInv, TypeOK
<1>7. OnePlace'
  BY <1>1, <1>2 DEF IInv, OnePlace, SenderOpen
<1>8. ExactlyOneTerminal'
  BY <1>1, <1>2 DEF IInv, ExactlyOneTerminal, Served, SenderOpen, ReceiverOpen, Ends
<1> QED
  BY <1>5, <1>6, <1>7, <1>8 DEF IInv, Exact

LEMMA NextKeeps == IInv /\ [Next]_vars => IInv' /\ Exact
<1> SUFFICES ASSUME IInv, [Next]_vars PROVE IInv' /\ Exact
  OBVIOUS
<1>1. ASSUME NEW r \in Request, Load(r) \/ Retry(r) PROVE IInv' /\ Exact
  BY <1>1, JudgeKeeps DEF Load, Retry
<1>2. ASSUME NEW r \in Request, Exchange(r) PROVE IInv' /\ Exact
  BY <1>2, ExchangeKeeps
<1>3. ASSUME NEW r \in Request, Send(r) PROVE IInv' /\ Exact
  BY <1>3, SendKeeps
<1>4. ASSUME NEW r \in Request, Disconnect(r) \/ Read(r) PROVE IInv' /\ Exact
  BY <1>4, ReadKeeps
<1>5. CASE Work
  BY <1>5, ReceiveKeeps, GenerateKeeps, DropSlotKeeps, DropJobKeeps, DropQueuedKeeps DEF Work
<1>6. CASE Panic
  BY <1>6, DropSlotKeeps
<1>7. CASE UNCHANGED vars
  <2>1. Held' = Held /\ Refused' = Refused
    BY <1>7 DEF vars, Held, Refused, HoldsSlot
  <2>2. TypeOK' /\ OnePlace' /\ ExactlyOneTerminal'
    BY <1>7 DEF vars, IInv, TypeOK, OnePlace, ExactlyOneTerminal, Served, SenderOpen,
                ReceiverOpen, Ends
  <2> QED
    BY <1>7, <2>1, <2>2, KeepsSlots DEF vars, IInv, Exact
<1> QED
  BY <1>1, <1>2, <1>3, <1>4, <1>5, <1>6, <1>7 DEF Next, Submit

THEOREM InvHolds == Spec => []IInv
<1>1. Init => IInv
  BY InitHolds
<1>2. IInv /\ [Next]_vars => IInv'
  BY NextKeeps
<1> QED
  BY <1>1, <1>2, PTL DEF Spec

\* The counter of QueueSlots is the number of slots there are (engine.rs, QueueSlot).
THEOREM SlotsAreExact == Spec => []SlotsMatchJobs
BY InvHolds, PTL DEF IInv

\* A job ends in one terminal event, and only a dead worker leaves one without.
THEOREM OneTerminal == Spec => []ExactlyOneTerminal
BY InvHolds, PTL DEF IInv

\* reserve_slot admits and refuses as if it were one step, whatever handlers read
\* and however often they retry.
THEOREM AdmissionIsAtomic == Spec => ImplementsAdmission
<1>1. Init => Admission!Init
  BY InitHolds
<1>2. IInv /\ [Next]_vars => [Admission!Next]_(Admission!vars)
  BY NextKeeps DEF Exact
<1> QED
  BY <1>1, <1>2, InvHolds, PTL DEF Spec, ImplementsAdmission, Admission!Spec
=============================================================================
