----------------------- MODULE AsyncDiagnosticLogger -----------------------
(***************************************************************************)
(* The asynchronous diagnostic logger (async_diagnostic_logger.cpp): a     *)
(* bounded queue between the wrapper, which must not touch a file in the   *)
(* control loop, and a writer thread that does.                            *)
(*                                                                         *)
(* The wrapper calls configure, start, record and stop one after the other *)
(* (on_configure, on_activate, update, on_deactivate never overlap); its   *)
(* thread is "the owner".  The writer thread sleeps on a condition         *)
(* variable.  A sample is the number of its record call in the session.    *)
(***************************************************************************)
EXTENDS Naturals, Sequences

CONSTANTS
    MaxQueue,    \* max_queue_size_, 4096 in the code
    MaxSamples   \* bound on the record calls of one session

ASSUME LoggerAssumption ==
    /\ MaxQueue \in Nat \ {0}
    /\ MaxSamples \in Nat

VARIABLES
    session,         \* the wrapper is between its calls of start and stop
    owner_pc,        \* where the owner is inside stop
    then,            \* what the owner does after stop: return, or configure
    enabled,         \* enabled_: a log file was requested
    running,         \* running_
    stop_requested,  \* stop_requested_
    queue,           \* queue_
    writer,          \* the writer thread: "none" or where it is
    held,            \* writerLoop's local sample, moved out of the queue
    recorded,        \* history: record calls that queued a sample, this session
    dropped,         \* history: samples dropped at the limit, this session
    opened,          \* history: the writer opened its file, this session
    sink             \* history: samples written to the file, this session

owner_vars   == <<session, owner_pc, then, enabled>>
history_vars == <<recorded, dropped, opened, sink>>
vars == <<owner_vars, running, stop_requested, queue, writer, held, history_vars>>

Sample == 1 .. MaxSamples

\* A thread that has returned from writerLoop still has to be joined.
Joinable == writer # "none"

\* notify_one and notify_all reach the one thread that may be waiting.
Notified == IF writer = "asleep" THEN "check" ELSE writer

-----------------------------------------------------------------------------
(* The owner                                                               *)

\* configure begins with stop(), which finds no thread: the wrapper stopped it.
Configure ==
    /\ owner_pc = "idle" /\ ~session
    /\ owner_pc' = "notify"
    /\ then' = "configure"
    /\ stop_requested' = TRUE
    /\ UNCHANGED <<session, enabled, running, queue, writer, held, history_vars>>

\* A slip: the queue of the session before is left in place.
StartKeepsQueue ==
    /\ owner_pc = "idle" /\ ~session
    /\ session' = TRUE
    /\ IF enabled /\ ~running
       THEN /\ stop_requested' = FALSE
            /\ running' = TRUE
            /\ writer' = "open"
            /\ recorded' = 0 /\ dropped' = {} /\ opened' = FALSE /\ sink' = <<>>
       ELSE UNCHANGED <<stop_requested, running, writer, history_vars>>
    /\ UNCHANGED <<owner_pc, then, enabled, queue, held>>

\* start returns at once when no file was requested or the thread runs.
Start ==
    /\ owner_pc = "idle" /\ ~session
    /\ session' = TRUE
    /\ IF enabled /\ ~running
       THEN /\ queue' = <<>>
            /\ stop_requested' = FALSE
            /\ running' = TRUE
            /\ writer' = "open"
            /\ recorded' = 0 /\ dropped' = {} /\ opened' = FALSE /\ sink' = <<>>
       ELSE UNCHANGED <<queue, stop_requested, running, writer, history_vars>>
    /\ UNCHANGED <<owner_pc, then, enabled, held>>

\* A slip: the limit is compared with > and one sample too many is kept.
RecordOffByOne ==
    /\ owner_pc = "idle" /\ session
    /\ enabled /\ running
    /\ recorded < MaxSamples
    /\ recorded' = recorded + 1
    /\ IF Len(queue) > MaxQueue
       THEN /\ queue' = Append(Tail(queue), recorded + 1)
            /\ dropped' = dropped \union {Head(queue)}
       ELSE /\ queue' = Append(queue, recorded + 1)
            /\ dropped' = dropped
    /\ writer' = Notified
    /\ UNCHANGED <<owner_vars, running, stop_requested, held, opened, sink>>

\* A slip: record queues the sample and wakes nobody.
RecordSilently ==
    /\ owner_pc = "idle" /\ session
    /\ enabled /\ running
    /\ recorded < MaxSamples
    /\ recorded' = recorded + 1
    /\ IF Len(queue) >= MaxQueue
       THEN /\ queue' = Append(Tail(queue), recorded + 1)
            /\ dropped' = dropped \union {Head(queue)}
       ELSE /\ queue' = Append(queue, recorded + 1)
            /\ dropped' = dropped
    /\ UNCHANGED <<owner_vars, running, stop_requested, writer, held, opened, sink>>

\* A slip: at the limit the newest queued sample makes room, not the oldest.
RecordDropsNewest ==
    /\ owner_pc = "idle" /\ session
    /\ enabled /\ running
    /\ recorded < MaxSamples
    /\ recorded' = recorded + 1
    /\ IF Len(queue) >= MaxQueue
       THEN /\ queue' = [queue EXCEPT ![Len(queue)] = recorded + 1]
            /\ dropped' = dropped \union {queue[Len(queue)]}
       ELSE /\ queue' = Append(queue, recorded + 1)
            /\ dropped' = dropped
    /\ writer' = Notified
    /\ UNCHANGED <<owner_vars, running, stop_requested, held, opened, sink>>

\* record checks its flags without the mutex, then queues the sample under it,
\* at the limit in place of the oldest, and notifies the writer.
Record ==
    /\ owner_pc = "idle" /\ session
    /\ enabled /\ running
    /\ recorded < MaxSamples
    /\ recorded' = recorded + 1
    /\ IF Len(queue) >= MaxQueue
       THEN /\ queue' = Append(Tail(queue), recorded + 1)
            /\ dropped' = dropped \union {Head(queue)}
       ELSE /\ queue' = Append(queue, recorded + 1)
            /\ dropped' = dropped
    /\ writer' = Notified
    /\ UNCHANGED <<owner_vars, running, stop_requested, held, opened, sink>>

\* The wrapper stops the logger when it deactivates, when an activation fails
\* and in the destructor.
StopRequest ==
    /\ owner_pc = "idle" /\ session
    /\ session' = FALSE
    /\ owner_pc' = "notify"
    /\ then' = "return"
    /\ stop_requested' = TRUE
    /\ UNCHANGED <<enabled, running, queue, writer, held, history_vars>>

\* A slip: stop joins without waking the writer.
StopWithoutNotify ==
    /\ owner_pc = "notify"
    /\ owner_pc' = "join"
    /\ UNCHANGED <<session, then, enabled, running, stop_requested, queue, writer, held,
                   history_vars>>

\* The flag is set under the mutex, the notification comes after it.
StopNotify ==
    /\ owner_pc = "notify"
    /\ writer' = Notified
    /\ owner_pc' = "join"
    /\ UNCHANGED <<session, then, enabled, running, stop_requested, queue, held, history_vars>>

StopJoin ==
    /\ owner_pc = "join"
    /\ Joinable => writer = "exited"
    /\ writer' = "none"
    /\ running' = FALSE
    /\ owner_pc' = IF then = "configure" THEN "configure" ELSE "idle"
    /\ UNCHANGED <<session, then, enabled, stop_requested, queue, held, history_vars>>

\* The parameter log_file names a file, or is empty.
ConfigureFinish ==
    /\ owner_pc = "configure"
    /\ enabled' \in BOOLEAN
    /\ owner_pc' = "idle"
    /\ then' = "return"
    /\ UNCHANGED <<session, running, stop_requested, queue, writer, held, history_vars>>

-----------------------------------------------------------------------------
(* The writer thread                                                       *)

\* Opening the file truncates it and writes the header; a file that cannot be
\* opened ends the thread.
Open ==
    /\ writer = "open"
    /\ opened' \in BOOLEAN
    /\ writer' = IF opened' THEN "check" ELSE "exited"
    /\ UNCHANGED <<owner_vars, running, stop_requested, queue, held, recorded, dropped, sink>>

\* A slip: a requested stop ends the loop whatever is queued.
CheckStopFirst ==
    /\ writer = "check"
    /\ \/ /\ stop_requested
          /\ writer' = "exited"
          /\ UNCHANGED <<queue, held>>
       \/ /\ queue = <<>> /\ ~stop_requested
          /\ writer' = "asleep"
          /\ UNCHANGED <<queue, held>>
       \/ /\ queue # <<>> /\ ~stop_requested
          /\ held' = <<Head(queue)>>
          /\ queue' = Tail(queue)
          /\ writer' = "write"
    /\ UNCHANGED <<owner_vars, running, stop_requested, history_vars>>

\* A slip: a requested stop no longer ends the loop, and front() of the empty
\* queue is whatever memory holds.
CheckNeverExits ==
    /\ writer = "check"
    /\ \/ /\ queue = <<>> /\ ~stop_requested
          /\ writer' = "asleep"
          /\ UNCHANGED <<queue, held>>
       \/ /\ queue # <<>> \/ stop_requested
          /\ held' = IF queue = <<>> THEN <<0>> ELSE <<Head(queue)>>
          /\ queue' = IF queue = <<>> THEN queue ELSE Tail(queue)
          /\ writer' = "write"
    /\ UNCHANGED <<owner_vars, running, stop_requested, history_vars>>

\* With the mutex held the writer sleeps while there is nothing to do, leaves
\* the loop when a stop is requested and the queue is empty, or takes a sample.
Check ==
    /\ writer = "check"
    /\ \/ /\ queue = <<>> /\ ~stop_requested
          /\ writer' = "asleep"
          /\ UNCHANGED <<queue, held>>
       \/ /\ queue = <<>> /\ stop_requested
          /\ writer' = "exited"
          /\ UNCHANGED <<queue, held>>
       \/ /\ queue # <<>>
          /\ held' = <<Head(queue)>>
          /\ queue' = Tail(queue)
          /\ writer' = "write"
    /\ UNCHANGED <<owner_vars, running, stop_requested, history_vars>>

\* The standard lets a wait on a condition variable return with no notification.
SpuriousWakeup ==
    /\ writer = "asleep"
    /\ writer' = "check"
    /\ UNCHANGED <<owner_vars, running, stop_requested, queue, held, history_vars>>

\* The sample is written with the mutex released.
Write ==
    /\ writer = "write"
    /\ sink' = sink \o held
    /\ held' = <<>>
    /\ writer' = "check"
    /\ UNCHANGED <<owner_vars, running, stop_requested, queue, recorded, dropped, opened>>

-----------------------------------------------------------------------------

Init ==
    /\ session = FALSE
    /\ owner_pc = "idle"
    /\ then = "return"
    /\ enabled = FALSE
    /\ running = FALSE
    /\ stop_requested = FALSE
    /\ queue = <<>>
    /\ writer = "none"
    /\ held = <<>>
    /\ recorded = 0
    /\ dropped = {}
    /\ opened = FALSE
    /\ sink = <<>>

Owner ==
    \/ Configure \/ Start \/ Record \/ StopRequest
    \/ StopNotify \/ StopJoin \/ ConfigureFinish

Writer == Open \/ Check \/ SpuriousWakeup \/ Write

Next == Owner \/ Writer

\* Both threads keep running; nothing promises a spurious wakeup, and nothing
\* makes the wrapper begin a call.
Fairness ==
    /\ WF_vars(StopNotify \/ StopJoin \/ ConfigureFinish)
    /\ WF_vars(Open \/ Check \/ Write)

Spec == Init /\ [][Next]_vars

FairSpec == Spec /\ Fairness

-----------------------------------------------------------------------------
(* Properties                                                              *)

\* Every variable holds a value of its kind.
TypeOK ==
    /\ session \in BOOLEAN
    /\ owner_pc \in {"idle", "notify", "join", "configure"}
    /\ then \in {"return", "configure"}
    /\ enabled \in BOOLEAN
    /\ running \in BOOLEAN
    /\ stop_requested \in BOOLEAN
    /\ queue \in Seq(Sample)
    /\ writer \in {"none", "open", "check", "asleep", "write", "exited"}
    /\ held \in Seq(Sample)
    /\ recorded \in 0 .. MaxSamples
    /\ dropped \subseteq Sample
    /\ opened \in BOOLEAN
    /\ sink \in Seq(Sample)

\* The queue never grows past its limit, even when the writer has died on a file
\* it could not open and nobody empties it.
QueueBounded == Len(queue) <= MaxQueue

InOrder == sink \o held \o queue

\* Every sample recorded in the session is in exactly one place: written, in the
\* writer's hand, queued, or dropped at the limit; and those not dropped are in
\* the order they were recorded.
NothingLost ==
    running =>
        /\ \A i, j \in DOMAIN InOrder : i < j => InOrder[i] < InOrder[j]
        /\ {InOrder[i] : i \in DOMAIN InOrder} = (1 .. recorded) \ dropped

\* When stop returns, all that was recorded and not dropped is in the file if the file
\* could be opened; if it could not, nothing was written at all.
DrainedOnStop ==
    ~running => IF opened THEN queue = <<>> /\ held = <<>> ELSE sink = <<>>

\* The writer sleeps only with nothing queued, and never through a stop: from
\* the moment stop_requested_ is set, a sleeping writer has its notification
\* still to come, and once stop joins the writer is awake or gone.
NoLostWakeup ==
    writer = "asleep" =>
        /\ queue = <<>>
        /\ stop_requested => owner_pc = "notify"
        /\ owner_pc # "join"

\* The steps the writer still has to take, if nothing more is queued.
WorkLeft ==
    2 * Len(queue) + CASE writer \in {"open", "write"} -> 2
                       [] writer = "check" -> 1
                       [] OTHER -> 0

\* While a sample is queued, or stop is joining, every step of the writer brings
\* it closer to an empty queue and its exit: it neither goes round its loop nor
\* back to sleep for nothing.
WriterWorksOff ==
    [][(queue # <<>> \/ owner_pc = "join") /\ UNCHANGED <<owner_vars, recorded>>
           => WorkLeft' < WorkLeft]_vars

\* stop joins a thread that may be asleep, writing or opening its file: it
\* always returns to on_deactivate, which zeroes the torques only afterwards.
StopReturns == owner_pc # "idle" ~> owner_pc = "idle"

\* A sample that was queued does not stay queued: the writer takes it, it is
\* dropped at the limit, or the writer is gone for want of a file.
SampleLeavesQueue ==
    \A s \in Sample :
        (writer # "exited" /\ queue # <<>> /\ Head(queue) = s)
            ~> (queue = <<>> \/ Head(queue) # s \/ writer \in {"exited", "none"})

\* The queue, the thread and the condition variable implement a bounded, lossy,
\* ordered log.
Log == INSTANCE DiagnosticLog WITH
           Limit  <- MaxQueue,
           open   <- running,
           buffer <- IF running THEN queue ELSE <<>>,
           log    <- sink \o held

ImplementsLog == Log!Spec
=============================================================================
