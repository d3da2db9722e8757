--------------------- MODULE AsyncDiagnosticLoggerProofs ---------------------
(***************************************************************************)
(* The logger, for every capacity of its queue and every number of         *)
(* samples: types, the bound on the queue, that no sample is lost, and that*)
(* queue, thread and condition variable implement DiagnosticLog.           *)
(***************************************************************************)
EXTENDS AsyncDiagnosticLogger, SequenceTheorems, TLAPS

-----------------------------------------------------------------------------
(* Types                                                                   *)

\* A one-element sequence, and the sequence without elements.
LEMMA Singleton == ASSUME NEW S, NEW x \in S PROVE <<x>> \in Seq(S) /\ <<x>> # <<>>
OBVIOUS

\* No step takes a variable out of its type.
LEMMA TypeStep == TypeOK /\ [Next]_vars => TypeOK'
<1> SUFFICES ASSUME TypeOK, [Next]_vars PROVE TypeOK'
    OBVIOUS
<1> USE DEF TypeOK, owner_vars, history_vars
<1>1. CASE Configure \/ StopRequest \/ ConfigureFinish
    BY <1>1 DEF Configure, StopRequest, ConfigureFinish
<1>2. CASE Start
  <2>1. CASE enabled /\ ~running
    <3>1. 0 \in 0 .. MaxSamples
        BY LoggerAssumption
    <3>2. /\ session' \in BOOLEAN /\ running' \in BOOLEAN /\ stop_requested' \in BOOLEAN
          /\ opened' \in BOOLEAN
        BY <1>2, <2>1, Zenon DEF Start
    <3>3. recorded' \in 0 .. MaxSamples /\ dropped' \subseteq Sample
        BY <1>2, <2>1, <3>1 DEF Start
    <3> QED BY <1>2, <2>1, <3>2, <3>3 DEF Start
  <2>2. CASE ~(enabled /\ ~running)
      BY <1>2, <2>2 DEF Start
  <2> QED BY <2>1, <2>2
<1>3. CASE Record
  <2>1. recorded + 1 \in Sample /\ recorded' \in 0 .. MaxSamples
      BY <1>3, LoggerAssumption DEF Record, Sample
  <2>2. CASE Len(queue) >= MaxQueue
    <3>1. queue # <<>>
        BY <2>2, LoggerAssumption
    <3>2. Tail(queue) \in Seq(Sample) /\ Head(queue) \in Sample
        BY <3>1
    <3>3. queue' = Append(Tail(queue), recorded + 1) /\ dropped' = dropped \union {Head(queue)}
        BY <1>3, <2>2 DEF Record
    <3>4. queue' \in Seq(Sample) /\ dropped' \subseteq Sample
        BY <2>1, <3>2, <3>3
    <3> QED BY <1>3, <2>1, <3>4 DEF Record, Notified
  <2>3. CASE ~(Len(queue) >= MaxQueue)
    <3>1. queue' = Append(queue, recorded + 1) /\ dropped' = dropped
        BY <1>3, <2>3 DEF Record
    <3>2. queue' \in Seq(Sample) /\ dropped' \subseteq Sample
        BY <2>1, <3>1
    <3> QED BY <1>3, <2>1, <3>2 DEF Record, Notified
  <2> QED BY <2>2, <2>3
<1>4. CASE StopNotify \/ StopJoin
    BY <1>4 DEF StopNotify, StopJoin, Notified
<1>5. CASE Open \/ SpuriousWakeup
    BY <1>5 DEF Open, SpuriousWakeup
<1>6. CASE Check
  <2>1. CASE queue = <<>>
      BY <1>6, <2>1 DEF Check
  <2>2. CASE queue # <<>>
    <3>1. Head(queue) \in Sample /\ Tail(queue) \in Seq(Sample)
        BY <2>2
    <3>2. held' \in Seq(Sample) /\ queue' \in Seq(Sample)
        BY <1>6, <2>2, <3>1, Singleton DEF Check
    <3> QED BY <1>6, <2>2, <3>2 DEF Check
  <2> QED BY <2>1, <2>2
<1>7. CASE Write
  <2>1. sink' \in Seq(Sample) /\ held' \in Seq(Sample)
      BY <1>7 DEF Write
  <2> QED BY <1>7, <2>1 DEF Write
<1>8. CASE UNCHANGED vars
    BY <1>8 DEF vars
<1> QED
    BY <1>1, <1>2, <1>3, <1>4, <1>5, <1>6, <1>7, <1>8 DEF Next, Owner, Writer

\* Initially every variable has its type.
LEMMA TypeInit == Init => TypeOK
<1> SUFFICES ASSUME Init PROVE TypeOK
    OBVIOUS
<1>1. /\ session \in BOOLEAN /\ enabled \in BOOLEAN /\ running \in BOOLEAN
      /\ stop_requested \in BOOLEAN /\ opened \in BOOLEAN
    BY Zenon DEF Init
<1>2. recorded \in 0 .. MaxSamples
    BY LoggerAssumption DEF Init
<1> QED BY <1>1, <1>2 DEF Init, TypeOK

\* Type correctness of the logger.
THEOREM TypeCorrect == Spec => []TypeOK
BY TypeInit, TypeStep, PTL DEF Spec

-----------------------------------------------------------------------------
(* The limit                                                               *)

\* The queue never grows past its limit, whatever becomes of the writer.
THEOREM QueueBoundedHolds == Spec => []QueueBounded
<1>1. Init => QueueBounded
    BY LoggerAssumption DEF Init, QueueBounded
<1>2. TypeOK /\ QueueBounded /\ [Next]_vars => QueueBounded'
  <2> SUFFICES ASSUME TypeOK, QueueBounded, [Next]_vars PROVE QueueBounded'
      OBVIOUS
  <2> USE LoggerAssumption DEF TypeOK, QueueBounded
  <2>1. CASE UNCHANGED queue
      BY <2>1
  <2>2. CASE queue' = <<>>
      BY <2>2
  <2>3. CASE Record
      BY <2>3 DEF Record
  <2>4. CASE Check
      BY <2>4 DEF Check
  <2> QED
      BY <2>1, <2>2, <2>3, <2>4
      DEF Next, Owner, Writer, Configure, Start, StopRequest, StopNotify, StopJoin,
          ConfigureFinish, Open, SpuriousWakeup, Write, vars
<1> QED
    BY <1>1, <1>2, TypeCorrect, PTL DEF Spec

-----------------------------------------------------------------------------
(* The two threads                                                         *)

\* Where one thread can be, given where the other is.  A thread that has left
\* its loop has emptied the queue, or has never had a file to write to.
Handshake ==
    /\ owner_pc = "idle" /\ ~session => ~running
    /\ owner_pc = "configure" => ~running
    /\ running => writer # "none"
    /\ writer # "none" => running
    /\ running /\ stop_requested => owner_pc \in {"notify", "join"}
    /\ writer = "write" <=> held # <<>>
    /\ ~opened => sink = <<>>
    /\ writer = "open" => ~opened
    /\ writer \in {"check", "asleep", "write"} => opened
    /\ writer = "exited" /\ opened => queue = <<>> /\ owner_pc \in {"notify", "join"}

\* Every step keeps Handshake.
LEMMA HandshakeStep == TypeOK /\ Handshake /\ [Next]_vars => Handshake'
<1> SUFFICES ASSUME TypeOK, Handshake, [Next]_vars PROVE Handshake'
    OBVIOUS
<1> USE DEF Handshake, owner_vars, history_vars, Notified, Joinable
<1>1. CASE Configure
    BY <1>1 DEF Configure
<1>2. CASE Start
    BY <1>2 DEF Start
<1>3. CASE Record
    BY <1>3 DEF Record
<1>4. CASE StopRequest
    BY <1>4 DEF StopRequest
<1>5. CASE StopNotify
    BY <1>5 DEF StopNotify
<1>6. CASE StopJoin
    BY <1>6 DEF StopJoin
<1>7. CASE ConfigureFinish
    BY <1>7 DEF ConfigureFinish
<1>8. CASE Open
  <2>1. held = <<>> /\ sink = <<>> /\ running
      BY <1>8 DEF Open
  <2>2. /\ UNCHANGED <<session, owner_pc, running, stop_requested, held, sink>>
        /\ opened' \in BOOLEAN
        /\ writer' = IF opened' THEN "check" ELSE "exited"
      BY <1>8 DEF Open
  <2> QED BY <2>1, <2>2
<1>9. CASE SpuriousWakeup
    BY <1>9 DEF SpuriousWakeup
<1>10. CASE Check
  <2>1. CASE queue = <<>> /\ ~stop_requested
      BY <1>10, <2>1 DEF Check
  <2>2. CASE queue = <<>> /\ stop_requested
      BY <1>10, <2>2 DEF Check
  <2>3. CASE queue # <<>>
    <3>1. held' # <<>>
        BY <1>10, <2>3, Singleton DEF Check
    <3> QED BY <1>10, <2>3, <3>1 DEF Check
  <2> QED BY <2>1, <2>2, <2>3
<1>11. CASE Write
    BY <1>11 DEF Write
<1>12. CASE UNCHANGED vars
    BY <1>12 DEF vars
<1> QED
    BY <1>1, <1>2, <1>3, <1>4, <1>5, <1>6, <1>7, <1>8, <1>9, <1>10, <1>11, <1>12
    DEF Next, Owner, Writer

\* Handshake holds throughout.
LEMMA HandshakeInvariant == Spec => []Handshake
<1>1. Init => Handshake
    BY DEF Init, Handshake
<1> QED
    BY <1>1, HandshakeStep, TypeCorrect, PTL DEF Spec


\* When stop has returned, everything recorded and not dropped is in the file if
\* it could be opened, and nothing was written if it could not.
THEOREM DrainedOnStopHolds == Spec => []DrainedOnStop
<1>1. Init => DrainedOnStop
    BY DEF Init, DrainedOnStop
<1>2. TypeOK /\ Handshake /\ DrainedOnStop /\ [Next]_vars => DrainedOnStop'
  <2> SUFFICES ASSUME TypeOK, Handshake, DrainedOnStop, [Next]_vars PROVE DrainedOnStop'
      OBVIOUS
  <2>1. CASE UNCHANGED <<running, opened, sink, queue, held>>
      BY <2>1 DEF DrainedOnStop
  <2>2. CASE running'
      BY <2>2 DEF DrainedOnStop
  <2>3. CASE StopJoin /\ writer = "exited"
      BY <2>3 DEF DrainedOnStop, Handshake, StopJoin, history_vars
  <2>4. CASE StopJoin /\ writer = "none"
      BY <2>4 DEF DrainedOnStop, Handshake, StopJoin, history_vars
  <2>5. UNCHANGED <<running, opened, sink, queue, held>> \/ running' \/ StopJoin
      BY DEF TypeOK, Handshake, Next, Owner, Writer, Configure, Start, Record, StopRequest, StopNotify,
             ConfigureFinish, Open, Check, SpuriousWakeup, Write, vars, history_vars
  <2>6. StopJoin => writer \in {"none", "exited"}
      BY DEF StopJoin, Joinable
  <2> QED BY <2>1, <2>2, <2>3, <2>4, <2>5, <2>6
<1> QED
    BY <1>1, <1>2, TypeCorrect, HandshakeInvariant, PTL DEF Spec

-----------------------------------------------------------------------------
(* No lost wakeup, and progress                                            *)

\* stop sets its flag before it notifies and joins.
Stopping == owner_pc \in {"notify", "join"} => stop_requested

\* Every step keeps both: the writer falls asleep only with the queue empty and
\* no stop requested, and whoever changes either wakes it.
LEMMA WakeupStep ==
    TypeOK /\ Handshake /\ Stopping /\ NoLostWakeup /\ [Next]_vars => Stopping' /\ NoLostWakeup'
<1> SUFFICES ASSUME TypeOK, Handshake, Stopping, NoLostWakeup, [Next]_vars
             PROVE  Stopping' /\ NoLostWakeup'
    OBVIOUS
<1> USE DEF Stopping, NoLostWakeup, owner_vars, history_vars, Notified
<1>1. CASE Configure \/ Start
    BY <1>1 DEF Configure, Start, Handshake
<1>2. CASE Record
    BY <1>2 DEF Record
<1>3. CASE StopRequest
    BY <1>3 DEF StopRequest
<1>4. CASE StopNotify \/ StopJoin \/ ConfigureFinish
    BY <1>4 DEF StopNotify, StopJoin, ConfigureFinish
<1>5. CASE Open \/ SpuriousWakeup \/ Write
    BY <1>5 DEF Open, SpuriousWakeup, Write
<1>6. CASE Check
    BY <1>6 DEF Check
<1>7. CASE UNCHANGED vars
    BY <1>7 DEF vars
<1> QED
    BY <1>1, <1>2, <1>3, <1>4, <1>5, <1>6, <1>7 DEF Next, Owner, Writer

\* stop sets its flag before it notifies and joins, and no wakeup is lost.
LEMMA WakeupInvariant == Spec => [](Stopping /\ NoLostWakeup)
<1>1. Init => Stopping /\ NoLostWakeup
    BY DEF Init, Stopping, NoLostWakeup
<1> QED
    BY <1>1, WakeupStep, TypeCorrect, HandshakeInvariant, PTL DEF Spec

\* The writer is never asleep with a sample queued or while stop joins it.
THEOREM NoLostWakeupHolds == Spec => []NoLostWakeup
BY WakeupInvariant, PTL

\* The work left is a number, and a full queue bounds it.
LEMMA WorkBounded == TypeOK /\ QueueBounded => WorkLeft \in 0 .. 2 * MaxQueue + 2
BY LoggerAssumption DEF TypeOK, QueueBounded, WorkLeft

\* Every step of the writer works off.
LEMMA WorkStep ==
    ASSUME TypeOK, Stopping, NoLostWakeup, Writer, queue # <<>> \/ owner_pc = "join"
    PROVE  WorkLeft' < WorkLeft
<1> USE DEF TypeOK, WorkLeft
<1>1. Len(queue) \in Nat
    OBVIOUS
<1>2. CASE Open
    BY <1>1, <1>2 DEF Open
<1>3. CASE Check
  <2>1. CASE queue = <<>>
    <3>1. writer' = "exited" /\ queue' = queue /\ writer = "check"
        BY <1>3, <2>1, Zenon DEF Check, Stopping
    <3> QED BY <1>1, <3>1
  <2>2. CASE queue # <<>>
    <3>1. Len(queue') = Len(queue) - 1
        BY <1>3, <2>2 DEF Check
    <3>2. writer = "check" /\ writer' = "write"
        BY <1>3, <2>2 DEF Check
    <3> QED BY <1>1, <3>1, <3>2
  <2> QED BY <2>1, <2>2
<1>4. CASE SpuriousWakeup
    BY <1>4 DEF SpuriousWakeup, NoLostWakeup
<1>5. CASE Write
    BY <1>1, <1>5 DEF Write
<1> QED BY <1>2, <1>3, <1>4, <1>5 DEF Writer

\* A step that leaves the owner's variables and the count of record calls alone
\* is the writer's.
LEMMA OwnerMoves ==
    ASSUME TypeOK, Owner, UNCHANGED <<owner_vars, recorded>>
    PROVE  FALSE
<1> USE DEF TypeOK, owner_vars
<1>1. CASE Configure \/ Start \/ StopRequest
    BY <1>1 DEF Configure, Start, StopRequest
<1>2. CASE Record
    BY <1>2 DEF Record
<1>3. CASE StopNotify \/ StopJoin \/ ConfigureFinish
    BY <1>3 DEF StopNotify, StopJoin, ConfigureFinish
<1> QED BY <1>1, <1>2, <1>3 DEF Owner

\* While a sample is queued or stop is joining, every step of the writer
\* decreases WorkLeft: with its bound, stop joins after at most 2 * MaxQueue + 2
\* steps of the writer, and a sample does not stay queued for ever.
THEOREM WriterWorksOffHolds == Spec => WriterWorksOff
<1>1. ASSUME TypeOK, Stopping /\ NoLostWakeup, [Next]_vars
      PROVE  [(queue # <<>> \/ owner_pc = "join") /\ UNCHANGED <<owner_vars, recorded>>
                  => WorkLeft' < WorkLeft]_vars
    BY <1>1, WorkStep, OwnerMoves DEF Next
<1> QED
    BY <1>1, TypeCorrect, WakeupInvariant, PTL DEF Spec, WriterWorksOff

\* What is left to do is never more than the queue can hold.
THEOREM WorkBoundedHolds == Spec => [](WorkLeft \in 0 .. 2 * MaxQueue + 2)
BY WorkBounded, TypeCorrect, QueueBoundedHolds, PTL

-----------------------------------------------------------------------------
(* Nothing is lost                                                         *)

\* The numbers of a sequence grow.
Increasing(s) == \A i, j \in DOMAIN s : i < j => s[i] < s[j]

\* The numbers in it.
Elements(s) == {s[i] : i \in DOMAIN s}

\* One more element, above all others, at the end.
LEMMA LongerByOne ==
    ASSUME NEW m \in Nat, NEW old \in [1 .. m -> Nat], NEW new \in [1 .. m + 1 -> Nat],
           \A i \in 1 .. m : new[i] = old[i] /\ old[i] < new[m + 1],
           Increasing(old)
    PROVE  Increasing(new) /\ Elements(new) = Elements(old) \union {new[m + 1]}
<1>1. Increasing(new)
    BY DEF Increasing
<1>2. Elements(new) \subseteq Elements(old) \union {new[m + 1]}
    BY DEF Elements
<1>3. \A i \in 1 .. m : old[i] \in Elements(new)
    BY DEF Elements
<1>4. m + 1 \in DOMAIN new
    OBVIOUS
<1> QED BY <1>1, <1>2, <1>3, <1>4 DEF Elements

\* One element less, at place k.
LEMMA ShorterByOne ==
    \A m \in Nat : \A k \in 1 .. m :
        \A old \in [1 .. m -> Nat], new \in [1 .. m - 1 -> Nat] :
            /\ \A i \in 1 .. m - 1 : i < k => new[i] = old[i]
            /\ \A i \in 1 .. m - 1 : ~(i < k) => new[i] = old[i + 1]
            /\ Increasing(old)
            => Increasing(new) /\ Elements(new) = Elements(old) \ {old[k]}
<1> TAKE m \in Nat
<1> TAKE k \in 1 .. m
<1> TAKE old \in [1 .. m -> Nat], new \in [1 .. m - 1 -> Nat]
<1> HAVE /\ \A i \in 1 .. m - 1 : i < k => new[i] = old[i]
         /\ \A i \in 1 .. m - 1 : ~(i < k) => new[i] = old[i + 1]
         /\ Increasing(old)
<1>1. Increasing(new)
  <2>1. \A i, j \in 1 .. m : i < j => old[i] < old[j]
      BY DEF Increasing
  <2>2. ASSUME NEW i \in 1 .. m - 1, NEW j \in 1 .. m - 1, i < j
        PROVE  new[i] < new[j]
    <3>1. CASE j < k
        BY <2>1, <2>2, <3>1
    <3>2. CASE i < k /\ ~(j < k)
        BY <2>1, <2>2, <3>2
    <3>3. CASE ~(i < k)
      <4>1. i + 1 \in 1 .. m /\ j + 1 \in 1 .. m /\ i + 1 < j + 1
          BY <2>2
      <4>2. new[i] = old[i + 1] /\ new[j] = old[j + 1]
          BY <2>2, <3>3
      <4> QED BY <2>1, <4>1, <4>2
    <3> QED BY <2>2, <3>1, <3>2, <3>3
  <2> QED BY <2>2 DEF Increasing
<1>2. Elements(new) \subseteq Elements(old) \ {old[k]}
  <2> SUFFICES ASSUME NEW i \in 1 .. m - 1
               PROVE  new[i] \in Elements(old) /\ new[i] # old[k]
      BY DEF Elements
  <2>1. CASE i < k
      BY <2>1 DEF Elements, Increasing
  <2>2. CASE ~(i < k)
      BY <2>2 DEF Elements, Increasing
  <2> QED BY <2>1, <2>2
<1>3. ASSUME NEW i \in 1 .. m, i # k
      PROVE  old[i] \in Elements(new)
  <2>1. CASE i < k
    <3>1. i \in 1 .. m - 1 /\ new[i] = old[i]
        BY <2>1
    <3> QED BY <3>1 DEF Elements
  <2>2. CASE i > k
    <3>1. i - 1 \in 1 .. m - 1 /\ ~(i - 1 < k) /\ (i - 1) + 1 = i
        BY <2>2
    <3>2. new[i - 1] = old[i]
        BY <3>1
    <3> QED BY <3>1, <3>2 DEF Elements
  <2> QED BY <1>3, <2>1, <2>2
<1>4. \A x \in Elements(old) \ {old[k]} : x \in Elements(new)
    BY <1>3 DEF Elements
<1> QED BY <1>1, <1>2, <1>4

\* A number above all others is queued last.
LEMMA QueueOne ==
    \A p, q \in Seq(Nat) : \A n \in Nat :
        Increasing(p \o q) /\ (\A i \in DOMAIN (p \o q) : (p \o q)[i] < n)
        => /\ Increasing(p \o Append(q, n))
           /\ Elements(p \o Append(q, n)) = Elements(p \o q) \union {n}
<1> TAKE p, q \in Seq(Nat)
<1> TAKE n \in Nat
<1> HAVE Increasing(p \o q) /\ (\A i \in DOMAIN (p \o q) : (p \o q)[i] < n)
<1> DEFINE old == p \o q
           new == p \o Append(q, n)
           m   == Len(old)
<1>1. old \in Seq(Nat) /\ new \in Seq(Nat) /\ Len(new) = m + 1
    OBVIOUS
<1>2. (\A i \in 1 .. m : new[i] = old[i]) /\ new[m + 1] = n
    OBVIOUS
<1>3. \A i \in DOMAIN old : old[i] < n
    OBVIOUS
<1>4. Increasing(old)
    OBVIOUS
<1> SUFFICES Increasing(new) /\ Elements(new) = Elements(old) \union {n}
    OBVIOUS
<1> HIDE DEF old, new
<1>5. m \in Nat /\ old \in [1 .. m -> Nat] /\ new \in [1 .. m + 1 -> Nat]
    BY <1>1, LenProperties
<1>6. \A i \in 1 .. m : new[i] = old[i] /\ old[i] < new[m + 1]
    BY <1>2, <1>3, <1>5
<1> HIDE DEF m
<1> QED BY <1>2, <1>4, <1>5, <1>6, LongerByOne

\* The head of the queue goes and the order of the others stays.
LEMMA DropOne ==
    ASSUME NEW p \in Seq(Nat), NEW q \in Seq(Nat), q # <<>>, Increasing(p \o q)
    PROVE  /\ Increasing(p \o Tail(q))
           /\ Elements(p \o Tail(q)) = Elements(p \o q) \ {Head(q)}
<1> DEFINE old == p \o q
           new == p \o Tail(q)
           m   == Len(old)
           k   == Len(p) + 1
<1>1. old \in Seq(Nat) /\ new \in Seq(Nat) /\ Len(new) = m - 1 /\ k \in 1 .. m
    OBVIOUS
<1>2. old[k] = Head(q)
    OBVIOUS
<1>3. /\ \A i \in 1 .. m - 1 : i < k => new[i] = old[i]
      /\ \A i \in 1 .. m - 1 : ~(i < k) => new[i] = old[i + 1]
    OBVIOUS
<1>4. Increasing(old)
    OBVIOUS
<1> SUFFICES Increasing(new) /\ Elements(new) = Elements(old) \ {old[k]}
    BY <1>2
<1> HIDE DEF old, new, k
<1>5. m \in Nat /\ old \in [1 .. m -> Nat] /\ new \in [1 .. m - 1 -> Nat]
    BY <1>1, LenProperties
<1>6. k \in 1 .. m
    BY <1>1
<1> HIDE DEF m
<1>7. \A a \in [1 .. m -> Nat], b \in [1 .. m - 1 -> Nat] :
            /\ \A i \in 1 .. m - 1 : i < k => b[i] = a[i]
            /\ \A i \in 1 .. m - 1 : ~(i < k) => b[i] = a[i + 1]
            /\ Increasing(a)
            => Increasing(b) /\ Elements(b) = Elements(a) \ {a[k]}
  <2>1. m \in Nat
      BY <1>5, Zenon
  <2> QED BY <2>1, <1>6, ShorterByOne, Zenon
<1>8. new \in [1 .. m - 1 -> Nat] /\ old \in [1 .. m -> Nat]
    BY <1>5, Zenon
<1>9. \A i \in 1 .. m - 1 : i < k => new[i] = old[i]
    BY <1>3, Zenon
<1>10. \A i \in 1 .. m - 1 : ~(i < k) => new[i] = old[i + 1]
    BY <1>3, Zenon
<1> QED BY <1>4, <1>7, <1>8, <1>9, <1>10, Zenon

\* What the session has recorded is written, in hand, queued or dropped.
Placed ==
    running =>
        /\ Increasing(InOrder)
        /\ Elements(InOrder) = (1 .. recorded) \ dropped
        /\ dropped \subseteq 1 .. recorded

\* Samples are numbers.
LEMMA NumbersToo == \A s \in Seq(Sample) : s \in Seq(Nat)
<1> SUFFICES ASSUME NEW s \in Seq(Sample) PROVE s \in Seq(Nat)
    OBVIOUS
<1>1. \A x \in Sample : x \in Nat
    BY DEF Sample
<1>2. Len(s) \in Nat /\ s \in [1 .. Len(s) -> Nat]
    BY <1>1, LenProperties
<1> QED BY <1>2, SeqDef

\* A sample recorded into a queue that is not full.
LEMMA RecordKeeps ==
    ASSUME TypeOK, Placed, running, running', recorded' = recorded + 1,
           dropped' = dropped, queue' = Append(queue, recorded + 1),
           UNCHANGED <<sink, held>>
    PROVE  Placed'
<1> DEFINE p == sink \o held
<1>1. p \in Seq(Nat) /\ queue \in Seq(Nat) /\ recorded \in Nat /\ recorded + 1 \in Nat
    BY NumbersToo DEF TypeOK
<1>2. InOrder = p \o queue /\ InOrder' = p \o Append(queue, recorded + 1)
    BY <1>1 DEF InOrder, TypeOK
<1>3. \A x \in Elements(InOrder) : x < recorded + 1
    BY <1>1 DEF Placed
<1>4. \A i \in DOMAIN (p \o queue) : (p \o queue)[i] < recorded + 1
    BY <1>2, <1>3 DEF Elements
<1>5. Increasing(p \o queue)
    BY <1>2 DEF Placed
<1> HIDE DEF p
<1>6. /\ Increasing(InOrder')
      /\ Elements(InOrder') = Elements(InOrder) \union {recorded + 1}
    BY <1>1, <1>2, <1>4, <1>5, QueueOne
<1>7. 1 .. recorded' = (1 .. recorded) \union {recorded + 1} /\ recorded + 1 \notin dropped
    BY <1>1 DEF Placed
<1> QED BY <1>1, <1>6, <1>7 DEF Placed

\* A sample recorded into a full queue: the oldest queued one is dropped.
LEMMA RecordDrops ==
    ASSUME TypeOK, Placed, running, running', recorded' = recorded + 1, queue # <<>>,
           dropped' = dropped \union {Head(queue)},
           queue' = Append(Tail(queue), recorded + 1),
           UNCHANGED <<sink, held>>
    PROVE  Placed'
<1> DEFINE p == sink \o held
<1>1. p \in Seq(Nat) /\ queue \in Seq(Nat) /\ recorded \in Nat /\ recorded + 1 \in Nat
    BY NumbersToo DEF TypeOK
<1>2. InOrder = p \o queue /\ InOrder' = p \o Append(Tail(queue), recorded + 1)
    BY <1>1 DEF InOrder, TypeOK
<1>3. Tail(queue) \in Seq(Nat)
    BY <1>1
<1>4. Head(queue) \in Elements(p \o queue)
  <2>1. Len(p) + 1 \in DOMAIN (p \o queue) /\ (p \o queue)[Len(p) + 1] = Head(queue)
      BY <1>1
  <2> QED BY <2>1 DEF Elements
<1>5. Increasing(p \o queue)
    BY <1>2 DEF Placed
<1> HIDE DEF p
<1>6. /\ Increasing(p \o Tail(queue))
      /\ Elements(p \o Tail(queue)) = Elements(InOrder) \ {Head(queue)}
    BY <1>1, <1>2, <1>5, DropOne
<1>7. Head(queue) \in (1 .. recorded) \ dropped
    BY <1>2, <1>4 DEF Placed
<1>8. \A x \in Elements(p \o Tail(queue)) : x < recorded + 1
    BY <1>1, <1>6 DEF Placed
<1>9. \A i \in DOMAIN (p \o Tail(queue)) : (p \o Tail(queue))[i] < recorded + 1
    BY <1>8 DEF Elements
<1>10. /\ Increasing(InOrder')
       /\ Elements(InOrder') = Elements(p \o Tail(queue)) \union {recorded + 1}
  <2> DEFINE t == Tail(queue)
  <2>1. t \in Seq(Nat)
      BY <1>3
  <2>2. Increasing(p \o t)
      BY <1>6
  <2>3. InOrder' = p \o Append(t, recorded + 1)
      BY <1>2
  <2>4. \A i \in DOMAIN (p \o t) : (p \o t)[i] < recorded + 1
      BY <1>9
  <2>5. p \in Seq(Nat)
      BY <1>1
  <2>6. recorded + 1 \in Nat
      BY <1>1
  <2> HIDE DEF t
  <2>7. /\ Increasing(p \o Append(t, recorded + 1))
        /\ Elements(p \o Append(t, recorded + 1)) = Elements(p \o t) \union {recorded + 1}
      BY <2>1, <2>2, <2>4, <2>5, <2>6, QueueOne, Zenon
  <2> QED BY <2>3, <2>7 DEF t
<1>11. 1 .. recorded' = (1 .. recorded) \union {recorded + 1} /\ recorded + 1 \notin dropped
    BY <1>1 DEF Placed
<1> QED BY <1>1, <1>6, <1>7, <1>10, <1>11 DEF Placed

\* Every step keeps Placed.
LEMMA PlacedStep == TypeOK /\ Handshake /\ Placed /\ [Next]_vars => Placed'
<1> SUFFICES ASSUME TypeOK, Handshake, Placed, [Next]_vars PROVE Placed'
    OBVIOUS
<1>1. CASE ~running'
    BY <1>1 DEF Placed
<1>2. CASE UNCHANGED <<running, sink, held, queue, recorded, dropped>>
    BY <1>2 DEF Placed, InOrder
<1>3. CASE Record
  <2>1. running /\ running' /\ recorded' = recorded + 1 /\ UNCHANGED <<sink, held>>
      BY <1>3 DEF Record, TypeOK, owner_vars
  <2>2. CASE Len(queue) >= MaxQueue
    <3>1. queue # <<>>
        BY <2>2, LoggerAssumption DEF TypeOK
    <3>2. dropped' = dropped \union {Head(queue)} /\ queue' = Append(Tail(queue), recorded + 1)
        BY <1>3, <2>2 DEF Record
    <3> QED BY <2>1, <3>1, <3>2, RecordDrops
  <2>3. CASE ~(Len(queue) >= MaxQueue)
    <3>1. dropped' = dropped /\ queue' = Append(queue, recorded + 1)
        BY <1>3, <2>3 DEF Record
    <3> QED BY <2>1, <3>1, RecordKeeps
  <2> QED BY <2>2, <2>3
<1>4. CASE Check /\ queue # <<>>
  <2>1. held = <<>> /\ held' = <<Head(queue)>> /\ queue' = Tail(queue)
      BY <1>4 DEF Check, Handshake
  <2>2. UNCHANGED <<running, sink, recorded, dropped>>
      BY <1>4 DEF Check, history_vars
  <2>3. <<Head(queue)>> \o Tail(queue) = queue
      BY <1>4 DEF TypeOK
  <2>4. InOrder' = InOrder
    <3>1. InOrder' = (sink \o <<Head(queue)>>) \o Tail(queue) /\ InOrder = (sink \o <<>>) \o queue
        BY <2>1, <2>2 DEF InOrder
    <3>2. sink \in Seq(Sample) /\ <<Head(queue)>> \in Seq(Sample) /\ Tail(queue) \in Seq(Sample)
        BY <1>4, Singleton DEF TypeOK
    <3>3. InOrder' = sink \o (<<Head(queue)>> \o Tail(queue))
        BY <3>1, <3>2, ConcatAssociative
    <3>4. sink \o <<>> = sink
        BY <3>2
    <3> QED BY <2>3, <3>1, <3>3, <3>4
  <2> QED BY <2>2, <2>4 DEF Placed
<1>5. CASE Write
  <2>1. sink' = sink \o held /\ held' = <<>> /\ UNCHANGED <<running, queue, recorded, dropped>>
      BY <1>5 DEF Write
  <2>2. InOrder' = InOrder
      BY <2>1 DEF InOrder, TypeOK
  <2> QED BY <2>1, <2>2 DEF Placed
<1>6. CASE Start /\ ~running /\ running'
  <2>1. queue' = <<>> /\ sink' = <<>> /\ recorded' = 0 /\ dropped' = {} /\ held' = <<>>
      BY <1>6 DEF Start, Handshake
  <2>2. InOrder' = <<>>
      BY <2>1 DEF InOrder
  <2>3. Increasing(InOrder') /\ Elements(InOrder') = {}
      BY <2>2 DEF Increasing, Elements
  <2> QED BY <2>1, <2>3 DEF Placed
<1> QED
    BY <1>1, <1>2, <1>3, <1>4, <1>5, <1>6
    DEF Next, Owner, Writer, Configure, Start, StopRequest, StopNotify, StopJoin,
        ConfigureFinish, Open, Check, SpuriousWakeup, vars, history_vars, TypeOK

\* Every sample recorded in a session is in the file, in the writer's hand, in
\* the queue or dropped at the limit, in order, for every limit and number of
\* samples.
THEOREM NothingLostHolds == Spec => []NothingLost
<1>1. Init => Placed
    BY DEF Init, Placed
<1>2. Placed => NothingLost
    BY DEF Placed, NothingLost, Increasing, Elements
<1> QED
    BY <1>1, <1>2, PlacedStep, TypeCorrect, HandshakeInvariant, PTL DEF Spec

-----------------------------------------------------------------------------
(* Refinement                                                              *)

\* Taking the head of the queue into the writer's hand writes it in the
\* abstract log; the file write that follows is a stutter there.
LEMMA CheckWrites ==
    ASSUME TypeOK, Handshake, Check, queue # <<>>
    PROVE  Log!Write
<1>1. running /\ held = <<>>
    BY DEF Check, Handshake
<1>2. running' /\ held' = <<Head(queue)>> /\ queue' = Tail(queue) /\ sink' = sink
    BY <1>1 DEF Check, history_vars
<1>3. sink \o held = sink /\ sink' \o held' = Append(sink, Head(queue))
    BY <1>1, <1>2 DEF TypeOK
<1> QED
    BY <1>1, <1>2, <1>3 DEF Log!Write

\* Every step of the logger is a step of the abstract log, or changes nothing
\* the abstract log shows.
LEMMA LogStep ==
    ASSUME TypeOK, Handshake, [Next]_vars
    PROVE  [Log!Next]_(Log!logVars)
<1> USE DEF Log!logVars
<1>1. CASE UNCHANGED <<running, queue, sink, held>>
    BY <1>1
<1>2. CASE Start
  <2>1. CASE enabled /\ ~running
    <3>1. held = <<>>
        BY <2>1 DEF Handshake
    <3>2. /\ running' = TRUE /\ queue' = <<>>
          /\ sink' = <<>> /\ held' = held
        BY <1>2, <2>1 DEF Start
    <3>3. sink' \o held' = <<>>
        BY <3>1, <3>2
    <3>4. Log!Begin
        BY <2>1, <3>2, <3>3 DEF Log!Begin
    <3> QED BY <3>4 DEF Log!Next
  <2>2. CASE ~(enabled /\ ~running)
      BY <1>2, <2>2 DEF Start, history_vars
  <2> QED BY <2>1, <2>2
<1>3. CASE Record
  <2>1. running /\ running' /\ UNCHANGED <<sink, held>> /\ recorded + 1 \in Sample
      BY <1>3, LoggerAssumption DEF Record, TypeOK, Sample, owner_vars
  <2>2. queue' = Append(IF Len(queue) < MaxQueue THEN queue ELSE Tail(queue), recorded + 1)
      BY <1>3, LoggerAssumption DEF Record, TypeOK
  <2>3. Log!Submit(recorded + 1)
      BY <2>1, <2>2 DEF Log!Submit
  <2> QED BY <2>1, <2>3 DEF Log!Next
<1>4. CASE StopJoin
  <2>1. CASE running
    <3>1. writer = "exited" /\ held = <<>>
        BY <1>4, <2>1 DEF StopJoin, Joinable, Handshake
    <3>2. queue = <<>> \/ sink \o held = <<>>
        BY <3>1 DEF Handshake, TypeOK
    <3>3. ~running' /\ UNCHANGED <<sink, held>>
        BY <1>4 DEF StopJoin, history_vars
    <3>4. Log!Close
        BY <2>1, <3>2, <3>3 DEF Log!Close
    <3> QED BY <3>4 DEF Log!Next
  <2>2. CASE ~running
    <3>1. running' = FALSE /\ running = FALSE /\ UNCHANGED <<queue, sink, held>>
        BY <1>4, <2>2 DEF StopJoin, TypeOK, history_vars
    <3>2. running' = running
        BY <3>1
    <3> QED BY <1>1, <3>1, <3>2
  <2> QED BY <2>1, <2>2
<1>5. CASE Check
  <2>1. CASE queue # <<>>
      BY <1>5, <2>1, CheckWrites DEF Log!Next
  <2>2. CASE queue = <<>>
      BY <1>5, <2>2 DEF Check, owner_vars, history_vars
  <2> QED BY <2>1, <2>2
<1>6. CASE Write
  <2>1. sink' \o held' = sink \o held /\ UNCHANGED <<running, queue>>
      BY <1>6 DEF Write, TypeOK
  <2> QED BY <2>1
<1> QED
    BY <1>1, <1>2, <1>3, <1>4, <1>5, <1>6
    DEF Next, Owner, Writer, Configure, StopRequest, StopNotify, ConfigureFinish, Open,
        SpuriousWakeup, vars, history_vars

\* The logger implements the bounded, lossy, ordered log.
THEOREM ImplementsLogHolds == Spec => ImplementsLog
<1>1. Init => Log!Init
    BY DEF Init, Log!Init
<1>2. TypeOK /\ Handshake /\ [Next]_vars => [Log!Next]_(Log!logVars)
    BY LogStep
<1> QED
    BY <1>1, <1>2, TypeCorrect, HandshakeInvariant, PTL DEF Spec, ImplementsLog, Log!Spec
=============================================================================
