--------------------------- MODULE InferenceQueue ---------------------------
(***************************************************************************)
(* The queue in front of the single inference slot: handlers reserve a     *)
(* place and submit (src/src/server/engine.rs), one worker serves the jobs *)
(* in order, and each job's events travel to the task that reads them, the *)
(* handler itself or a forwarder that relays them to an SSE body           *)
(* (src/src/server/http.rs).                                               *)
(*                                                                         *)
(* Text is abstracted to the events that carry it; what a token does to    *)
(* the session is Session.tla's subject.                                   *)
(***************************************************************************)
EXTENDS Naturals, FiniteSets, Sequences, SequencesExt

CONSTANTS
  Request,    \* requests, each submitted at most once
  Streaming,  \* those with "stream": true
  MaxQueue,   \* --max-queue
  MaxTokens,  \* bound: the most tokens a request generates
  NoRequest   \* the worker's job while it has none

ASSUME QueueAssumption ==
  /\ IsFiniteSet(Request) /\ Streaming \subseteq Request
  /\ NoRequest \notin Request
  /\ MaxQueue \in Nat \ {0} /\ MaxTokens \in Nat \ {0}

VARIABLES
  pending,   \* the shared counter of queued plus running jobs
  observed,  \* each handler's last reading of pending, inside reserve_slot
  client,    \* where the task that reads a request's events is
  gone,      \* open streams whose client disconnected
  channel,   \* events sent and not read yet
  queue,     \* jobs sent and not received by the worker
  worker,    \* where the worker is
  job,       \* the job it runs
  decoded    \* tokens generated for that job

requests == <<observed, client, gone>>
vars == <<pending, observed, client, gone, channel, queue, worker, job, decoded>>

Terminal == {"done", "failed"}
Event == {"delta"} \cup Terminal
Final == {"busy", "stopped", "done", "failed", "lost", "dropped"}

\* The reading task keeps the receiver until it returns or is dropped.
ReceiverOpen(r) == client[r] \in {"opening", "reading"}

\* The job keeps the sender while it is queued and while it runs.
SenderOpen(r) == r = job \/ r \in Range(queue)

\* A slot travels from the handler into the job and is dropped with it.
HoldsSlot(r) ==
  \/ client[r] = "reserved"
  \/ r \in Range(queue)
  \/ r = job /\ worker \in {"check", "prepare", "run", "release"}

Init ==
  /\ pending = 0
  /\ observed = [r \in Request |-> 0]
  /\ client = [r \in Request |-> "new"]
  /\ gone = {}
  /\ channel = [r \in Request |-> << >>]
  /\ queue = << >>
  /\ worker = "recv" /\ job = NoRequest
  /\ decoded = 0
-----------------------------------------------------------------------------
(***************************************************************************)
(* EngineHandle::submit, on the handler's task.                            *)
(***************************************************************************)
\* The head of reserve_slot's loop, on the value last read.
Judge(r, seen) ==
  IF seen >= MaxQueue
  THEN /\ client' = [client EXCEPT ![r] = "busy"]
       /\ observed' = [observed EXCEPT ![r] = 0]
  ELSE /\ client' = [client EXCEPT ![r] = "loaded"]
       /\ observed' = [observed EXCEPT ![r] = seen]

Load(r) ==
  /\ client[r] = "new"
  /\ Judge(r, pending)
  /\ UNCHANGED <<pending, gone, channel, queue, worker, job, decoded>>

\* Mutant: the count is raised without comparing it with what was read.
ExchangeBlindly(r) ==
  /\ client[r] = "loaded"
  /\ pending' = pending + 1
  /\ client' = [client EXCEPT ![r] = "reserved"]
  /\ observed' = [observed EXCEPT ![r] = 0]
  /\ UNCHANGED <<gone, channel, queue, worker, job, decoded>>

Exchange(r) ==
  /\ client[r] = "loaded"
  /\ pending = observed[r]
  /\ pending' = pending + 1
  /\ client' = [client EXCEPT ![r] = "reserved"]
  /\ observed' = [observed EXCEPT ![r] = 0]
  /\ UNCHANGED <<gone, channel, queue, worker, job, decoded>>

\* The exchange failed, spuriously if nothing changed; the loop starts over.
Retry(r) ==
  /\ client[r] = "loaded"
  /\ Judge(r, pending)
  /\ UNCHANGED <<pending, gone, channel, queue, worker, job, decoded>>

\* A job the worker can no longer receive is dropped, and its slot with it.
Send(r) ==
  /\ client[r] = "reserved"
  /\ IF worker = "dead"
     THEN /\ pending' = pending - 1
          /\ client' = [client EXCEPT ![r] = "stopped"]
          /\ UNCHANGED queue
     ELSE /\ queue' = Append(queue, r)
          /\ client' = [client EXCEPT ![r] = IF r \in Streaming THEN "opening" ELSE "reading"]
          /\ UNCHANGED pending
  /\ UNCHANGED <<observed, gone, channel, worker, job, decoded>>
-----------------------------------------------------------------------------
(***************************************************************************)
(* The task that reads a request's events.  Returning drops the receiver,  *)
(* and with it whatever was sent and not read and the link to the client.  *)
(***************************************************************************)
Leave(r, outcome) ==
  /\ client' = [client EXCEPT ![r] = outcome]
  /\ channel' = [channel EXCEPT ![r] = << >>]
  /\ gone' = gone \ {r}

\* A disconnect drops a handler that is still collecting, at its await; of a
\* stream it drops only the SSE body.
Disconnect(r) ==
  /\ ReceiverOpen(r)
  /\ IF r \in Streaming
     THEN gone' = gone \cup {r} /\ UNCHANGED <<client, channel>>
     ELSE Leave(r, "dropped")
  /\ UNCHANGED <<pending, observed, queue, worker, job, decoded>>

\* The forwarder's first chunk carries the role.
OpenStream(r) ==
  /\ client[r] = "opening"
  /\ IF r \in gone
     THEN Leave(r, "dropped")
     ELSE client' = [client EXCEPT ![r] = "reading"] /\ UNCHANGED <<channel, gone>>
  /\ UNCHANGED <<pending, observed, queue, worker, job, decoded>>

\* Relaying an event to a body that is gone fails and ends the task.
ReadEvent(r) ==
  /\ client[r] = "reading" /\ channel[r] # << >>
  /\ LET event == Head(channel[r])
     IN \/ r \in gone /\ Leave(r, "dropped")
        \/ r \notin gone /\ event \in Terminal /\ Leave(r, event)
        \/ /\ r \notin gone /\ event = "delta"
           /\ channel' = [channel EXCEPT ![r] = Tail(@)]
           /\ UNCHANGED <<client, gone>>
  /\ UNCHANGED <<pending, observed, queue, worker, job, decoded>>

\* Every sender is dropped and nothing is left to read: no result came.
EndOfEvents(r) ==
  /\ client[r] = "reading" /\ channel[r] = << >> /\ ~SenderOpen(r)
  /\ Leave(r, "lost")
  /\ UNCHANGED <<pending, observed, queue, worker, job, decoded>>
-----------------------------------------------------------------------------
(***************************************************************************)
(* The worker.                                                             *)
(***************************************************************************)
\* Events reach a receiver that is open, and are lost on one that is not.
SendEvents(events) ==
  channel' = IF ReceiverOpen(job) THEN [channel EXCEPT ![job] = @ \o events] ELSE channel

Receive ==
  /\ worker = "recv" /\ queue # << >>
  /\ job' = Head(queue) /\ queue' = Tail(queue)
  /\ worker' = "check"
  /\ UNCHANGED <<pending, requests, channel, decoded>>

\* Mutant: a skipped job goes straight back to the receive loop's head.
CheckForgettingTheSlot ==
  /\ worker = "check"
  /\ worker' = IF ReceiverOpen(job) THEN "prepare" ELSE "close"
  /\ UNCHANGED <<pending, requests, channel, queue, job, decoded>>

\* A client that gave up while queued costs nothing beyond this check.
Check ==
  /\ worker = "check"
  /\ worker' = IF ReceiverOpen(job) THEN "prepare" ELSE "release"
  /\ UNCHANGED <<pending, requests, channel, queue, job, decoded>>

\* The session is put in place; an open thinking block is sent ahead.
Prepare(thinkingOpen) ==
  /\ worker = "prepare"
  /\ IF thinkingOpen THEN SendEvents(<<"delta">>) ELSE UNCHANGED channel
  /\ worker' = IF thinkingOpen /\ ~ReceiverOpen(job) THEN "release" ELSE "run"
  /\ UNCHANGED <<pending, requests, queue, job, decoded>>

\* A token's text is sent at once, or held back as a possible stop string or
\* as tool-call markup; only a send can find the client gone.
Token(visible) ==
  /\ worker = "run" /\ decoded < MaxTokens
  /\ decoded' = decoded + 1
  /\ IF visible THEN SendEvents(<<"delta">>) ELSE UNCHANGED channel
  /\ worker' = IF visible /\ ~ReceiverOpen(job) THEN "release" ELSE "run"
  /\ UNCHANGED <<pending, requests, queue, job>>

\* Mutant: a turn that halts on a stop string reports nothing.
CompleteSilently(held) ==
  /\ worker = "run" /\ decoded > 0
  /\ IF held THEN SendEvents(<<"delta", "done">>) ELSE UNCHANGED channel
  /\ worker' = "release"
  /\ UNCHANGED <<pending, requests, queue, job, decoded>>

\* The turn ends by itself, on a stop string or on a closed tool call; text
\* held back until then goes out first.
Complete(held) ==
  /\ worker = "run" /\ decoded > 0
  /\ SendEvents(IF held THEN <<"delta", "done">> ELSE <<"done">>)
  /\ worker' = "release"
  /\ UNCHANGED <<pending, requests, queue, job, decoded>>

\* Encoding, restoring, prefill or a pass returns an error.
Fail ==
  /\ worker \in {"prepare", "run"}
  /\ SendEvents(<<"failed">>)
  /\ worker' = "release"
  /\ UNCHANGED <<pending, requests, queue, job, decoded>>

\* run_job's locals are dropped last to first: the slot, then the sender.
Release ==
  /\ worker = "release"
  /\ pending' = pending - 1
  /\ worker' = "close"
  /\ UNCHANGED <<requests, channel, queue, job, decoded>>

Close ==
  /\ worker = "close"
  /\ job' = NoRequest /\ worker' = "recv"
  /\ decoded' = 0
  /\ UNCHANGED <<pending, requests, channel, queue>>

\* A panic unwinds through run_job: its slot is dropped, then the rest.
Panic ==
  /\ worker \in {"prepare", "run"}
  /\ pending' = pending - 1
  /\ worker' = "unwind"
  /\ UNCHANGED <<requests, channel, queue, job, decoded>>

\* Mutant: the job's sender outlives the worker.
DieKeepingSender ==
  /\ worker = "unwind"
  /\ worker' = "dead"
  /\ UNCHANGED <<pending, requests, channel, queue, job, decoded>>

\* The job's sender and the worker's end of the queue are dropped.
Die ==
  /\ worker = "unwind"
  /\ job' = NoRequest /\ worker' = "dead"
  /\ decoded' = 0
  /\ UNCHANGED <<pending, requests, channel, queue>>

\* Mutant: the worker's end of the queue outlives it, and the jobs in it too.
KeepQueued ==
  /\ worker = "dead" /\ queue # << >>
  /\ UNCHANGED vars

\* Jobs nobody will receive are dropped one by one, slots included.
DropQueued ==
  /\ worker = "dead" /\ queue # << >>
  /\ queue' = Tail(queue)
  /\ pending' = pending - 1
  /\ UNCHANGED <<requests, channel, worker, job, decoded>>
-----------------------------------------------------------------------------
Submit(r) == Load(r) \/ Exchange(r) \/ Retry(r) \/ Send(r)

Read(r) == OpenStream(r) \/ ReadEvent(r) \/ EndOfEvents(r)

Generate ==
  \/ \E thinkingOpen \in BOOLEAN : Prepare(thinkingOpen)
  \/ \E visible \in BOOLEAN : Token(visible)
  \/ \E held \in BOOLEAN : Complete(held)
  \/ Fail

Work == Receive \/ Check \/ Generate \/ Release \/ Close \/ Die \/ DropQueued

Next ==
  \/ \E r \in Request : Submit(r) \/ Disconnect(r) \/ Read(r)
  \/ Work
  \/ Panic

Spec == Init /\ [][Next]_vars

\* The worker thread runs whenever it can, a handler that holds a slot goes
\* on to send, and the HTTP runtime polls a task that has something to read.
\* Nothing obliges a client to submit, to stay or to leave.
Fairness ==
  /\ WF_vars(Work)
  /\ \A r \in Request : WF_vars(Send(r)) /\ WF_vars(Read(r))

FairSpec == Spec /\ Fairness
-----------------------------------------------------------------------------
(***************************************************************************)
(* What the queue and the worker promise the clients, and each other.      *)
(***************************************************************************)
\* The counter is the number of slots in existence, wherever they are: with
\* the handler, in a queued job, in the running one (engine.rs, QueueSlot:
\* "all account for themselves").
SlotsMatchJobs == pending = Cardinality({r \in Request : HoldsSlot(r)})

Ends(events) == events # << >> /\ Last(events) \in Terminal

\* The worker is done with a request, or about to drop its sender.
Served(r) == ~SenderOpen(r) \/ (r = job /\ worker \in {"release", "close"})

\* One terminal event per job, after everything else, unless the receiver was
\* dropped first (engine.rs, Event); only a panic of the worker loses it, so a
\* reply that says the request ended without a result is the worker's last.
ExactlyOneTerminal ==
  \A r \in Request :
    /\ \A i \in DOMAIN channel[r] : channel[r][i] \in Terminal <=> i = Len(channel[r]) /\ Ends(channel[r])
    /\ Ends(channel[r]) => Served(r)
    /\ ReceiverOpen(r) /\ Served(r) => Ends(channel[r]) \/ worker = "dead"
    /\ client[r] = "lost" => worker = "dead"

\* Admission is the abstract one: whatever handlers read and retried, a place
\* is granted only while one is free and refused only when none was.
Admission == INSTANCE AdmissionControl WITH
  held    <- {r \in Request : HoldsSlot(r)},
  refused <- {r \in Request : client[r] = "busy"}

ImplementsAdmission == Admission!Spec

\* Whatever clients do and whenever the worker dies, a task that waits for
\* events comes to an end: no request hangs.
EveryRequestEnds ==
  \A r \in Request : (client[r] = "reading") ~> (client[r] \in Final)

\* Every slot that is taken is given back, so the queue never fills up with
\* requests nobody serves.
SlotsReturn ==
  \A r \in Request : HoldsSlot(r) ~> ~HoldsSlot(r)
=============================================================================
