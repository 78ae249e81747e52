-------------------------- MODULE ResultsWriter_proofs --------------------------
(***************************************************************************)
(* The writer's safety, for any number of callers, rows, restarts and      *)
(* failures: the variables keep their types, at most one background thread *)
(* lives, no row is lost, repeated or overtaken by a later row of its      *)
(* caller, and a stop that returns has drained the queue into the sink.    *)
(***************************************************************************)
EXTENDS ResultsWriter, TLAPS

Stopping == {"signalling", "joining"}

\* enqueue is entered with a row to spare.
Bounded ==
  \A c \in Callers : at[c] \in {"starting", "putting"} => sent[c] < MaxRows

\* A stop holds the lock from its check of _started until it has joined.
LockHeld ==
  \A c \in Callers : at[c] \in Stopping <=> lock = c

\* Only the thread started last may live, and a writer that is not started has
\* joined it: start can then create another one.
LastOnly ==
  /\ \A t \in Threads : t > launched => thread[t] = "none"
  /\ \A t \in Threads : t < launched => thread[t] = "ended"
  /\ ~started => \A t \in Threads : t <= launched => thread[t] = "ended"
  /\ started => launched \in Threads /\ thread[launched] # "none"
  /\ lock # NoOne => started

IInv == TypeOK /\ Bounded /\ LockHeld /\ LastOnly
-----------------------------------------------------------------------------
(* Types.                                                                  *)

\* A published batch is a set of rows of the sequence it comes from.
LEMMA BatchTyped ==
  ASSUME NEW b \in Seq(Rows)
  PROVE  Range(b) \subseteq Rows
BY DEF Range

\* Every outcome of the sink keeps the types of its variables.
LEMMA SinkTyped ==
  ASSUME TypeOK, NEW b \in Seq(Rows),
         Publish(b) \/ FlushRaises(b) \/ Buffer(b)
  PROVE  /\ buffer' \in Seq(Rows) /\ flushFailed' \in BOOLEAN
         /\ batches' \in Seq(SUBSET Rows) /\ failures' \in 0..MaxFailures
<1> USE WriterBounds
<1>1. CASE Publish(b)
  BY <1>1, BatchTyped DEF TypeOK, Publish
<1>2. CASE FlushRaises(b)
  <2>1. failures' \in 0..MaxFailures
    BY <1>2 DEF TypeOK, FlushRaises
  <2>2. CASE UNCHANGED <<flushFailed, batches>>
    BY <1>2, <2>1, <2>2 DEF TypeOK, FlushRaises
  <2>3. CASE flushFailed' = TRUE /\ \E some \in SUBSET Range(b) :
               batches' = IF some = {} THEN batches ELSE Append(batches, some)
    <3>1. PICK some \in SUBSET Range(b) :
            batches' = IF some = {} THEN batches ELSE Append(batches, some)
      BY <2>3
    <3>2. some \in SUBSET Rows
      BY BatchTyped
    <3>3. batches' \in Seq(SUBSET Rows)
      BY <3>1, <3>2 DEF TypeOK
    <3>4. QED
      BY <1>2, <2>1, <2>3, <3>3 DEF FlushRaises
  <2>4. QED
    BY <1>2, <2>2, <2>3 DEF FlushRaises
<1>3. CASE Buffer(b)
  BY <1>3 DEF TypeOK, Buffer
<1>4. QED
  BY <1>1, <1>2, <1>3

\* Each step of a caller keeps the types.
LEMMA CallerTyped ==
  ASSUME TypeOK, Bounded, NEW c \in Callers,
         Enqueue(c) \/ Start(c) \/ PutRow(c) \/ Stop(c) \/ Signal(c) \/ Join(c)
  PROVE  TypeOK'
<1> USE WriterBounds DEF TypeOK, vars, writer, sink, Go
<1>1. CASE Enqueue(c)
  BY <1>1 DEF Enqueue
<1>2. CASE Start(c)
  <2>1. at' \in [Callers -> {"idle", "starting", "putting", "signalling", "joining"}]
    BY <1>2 DEF Start
  <2>2. /\ launched' \in 0..MaxStarts /\ started' \in BOOLEAN
        /\ queue' = queue /\ lock' = lock
        /\ thread' \in [Threads -> {"none", "looping", "writing", "draining",
                                    "rewriting", "flushing", "ended"}]
    <3>1. CASE started
      BY <1>2, <3>1 DEF Start, Launch
    <3>2. CASE ~started
      BY <1>2, <3>2 DEF Start, Launch
    <3>3. QED
      BY <3>1, <3>2
  <2>3. QED
    BY <1>2, <2>1, <2>2 DEF Start
<1>3. CASE PutRow(c)
  <2>1. <<c, sent[c] + 1>> \in Rows /\ sent[c] + 1 \in 0..MaxRows
    BY <1>3 DEF PutRow, Rows, Bounded
  <2>2. queue' \in Seq(Rows \cup {Sentinel}) /\ Len(queue') <= Capacity
    BY <1>3, <2>1 DEF PutRow, Put
  <2>3. QED
    BY <1>3, <2>1, <2>2 DEF PutRow
<1>4. CASE Stop(c)
  BY <1>4 DEF Stop
<1>5. CASE Signal(c)
  <2>1. queue' \in Seq(Rows \cup {Sentinel}) /\ Len(queue') <= Capacity
    BY <1>5 DEF Signal, Put
  <2>2. QED
    BY <1>5, <2>1 DEF Signal
<1>6. CASE Join(c)
  BY <1>6 DEF Join
<1>7. QED
  BY <1>1, <1>2, <1>3, <1>4, <1>5, <1>6

\* Each step of a background thread keeps the types.
LEMMA ThreadTyped ==
  ASSUME TypeOK, NEW t \in Threads,
         Take(t) \/ DrainEmpty(t) \/ Write(t) \/ Flush(t)
  PROVE  TypeOK'
<1> USE WriterBounds DEF writer, sink, Move
<1>1. CASE Take(t)
  <2>1. /\ Head(queue) \in Rows \cup {Sentinel}
        /\ Tail(queue) \in Seq(Rows \cup {Sentinel}) /\ Len(Tail(queue)) <= Capacity
    BY <1>1 DEF Take, TypeOK
  <2>2. CASE Head(queue) = Sentinel
    BY <1>1, <2>1, <2>2 DEF Take, TypeOK
  <2>3. CASE Head(queue) # Sentinel
    <3>1. Head(queue) \in Rows
      BY <2>1, <2>3
    <3>2. hand' \in [Threads -> SUBSET Rows]
      <4>1. hand' = [hand EXCEPT ![t] = {Head(queue)}]
        BY <1>1, <2>3 DEF Take
      <4>2. {Head(queue)} \in SUBSET Rows
        BY <3>1
      <4>3. hand \in [Threads -> SUBSET Rows]
        BY DEF TypeOK
      <4>4. QED
        BY <4>1, <4>2, <4>3
    <3>3. thread' \in [Threads -> {"none", "looping", "writing", "draining",
                                   "rewriting", "flushing", "ended"}]
      BY <1>1, <2>3 DEF Take, TypeOK
    <3>4. QED
      BY <1>1, <2>1, <3>2, <3>3 DEF Take, TypeOK
  <2>4. QED
    BY <2>2, <2>3
<1>2. CASE DrainEmpty(t)
  BY <1>2 DEF DrainEmpty, TypeOK
<1>3. CASE Write(t)
  <2>1. PICK row \in hand[t] :
          \/ UNCHANGED <<sink, failures>>
          \/ \/ Publish(Append(buffer, row))
             \/ FlushRaises(Append(buffer, row))
             \/ Buffer(Append(buffer, row))
    BY <1>3 DEF Write
  <2>2. Append(buffer, row) \in Seq(Rows)
    BY <2>1 DEF TypeOK
  <2>3. /\ buffer' \in Seq(Rows) /\ flushFailed' \in BOOLEAN
        /\ batches' \in Seq(SUBSET Rows) /\ failures' \in 0..MaxFailures
    BY <2>1, <2>2, SinkTyped DEF TypeOK
  <2>4. /\ thread' \in [Threads -> {"none", "looping", "writing", "draining",
                                    "rewriting", "flushing", "ended"}]
        /\ hand' \in [Threads -> SUBSET Rows]
    BY <1>3 DEF Write, TypeOK
  <2>5. QED
    BY <1>3, <2>3, <2>4 DEF Write, TypeOK
<1>4. CASE Flush(t)
  <2>1. /\ buffer' \in Seq(Rows) /\ flushFailed' \in BOOLEAN
        /\ batches' \in Seq(SUBSET Rows) /\ failures' \in 0..MaxFailures
    BY <1>4, SinkTyped DEF Flush, TypeOK
  <2>2. QED
    BY <1>4, <2>1 DEF Flush, TypeOK
<1>5. QED
  BY <1>1, <1>2, <1>3, <1>4

-----------------------------------------------------------------------------
(* The inductive invariant.                                                *)

LEMMA InitHolds == Init => IInv
<1> SUFFICES ASSUME Init PROVE IInv
  OBVIOUS
<1> USE WriterNames, WriterBounds DEF Init
<1>1. TypeOK
  <2>1. \A S : <<>> \in Seq(S)
    OBVIOUS
  <2>2. /\ queue \in Seq(Rows \cup {Sentinel}) /\ Len(queue) <= Capacity
        /\ buffer \in Seq(Rows) /\ batches \in Seq(SUBSET Rows)
    BY <2>1
  <2>3. /\ hand \in [Threads -> SUBSET Rows] /\ sent \in [Callers -> 0..MaxRows]
        /\ owed \subseteq Rows /\ failures \in 0..MaxFailures /\ launched \in 0..MaxStarts
    OBVIOUS
  <2>4. /\ thread \in [Threads -> {"none", "looping", "writing", "draining",
                                   "rewriting", "flushing", "ended"}]
        /\ at \in [Callers -> {"idle", "starting", "putting", "signalling", "joining"}]
    OBVIOUS
  <2>5. started \in BOOLEAN /\ flushFailed \in BOOLEAN /\ lock \in Callers \cup {NoOne}
    OBVIOUS
  <2>6. QED
    BY <2>2, <2>3, <2>4, <2>5 DEF TypeOK
<1>2. Bounded /\ LockHeld /\ LastOnly
  BY DEF Bounded, LockHeld, LastOnly, Stopping, Threads
<1>3. QED
  BY <1>1, <1>2 DEF IInv

\* A caller's step keeps the lock discipline and the single thread.
LEMMA CallerStep ==
  ASSUME IInv, NEW c \in Callers,
         Enqueue(c) \/ Start(c) \/ PutRow(c) \/ Stop(c) \/ Signal(c) \/ Join(c)
  PROVE  Bounded' /\ LockHeld' /\ LastOnly'
<1> USE WriterNames, WriterBounds
    DEF IInv, TypeOK, Bounded, LockHeld, LastOnly, Stopping, Threads, Go, writer
<1>1. CASE Enqueue(c)
  BY <1>1 DEF Enqueue
<1>2. CASE Start(c)
  <2>1. Bounded' /\ LockHeld'
    BY <1>2 DEF Start, Launch
  <2>2. CASE started
    BY <1>2, <2>2 DEF Start, Launch
  <2>3. CASE ~started
    BY <1>2, <2>3 DEF Start, Launch
  <2>4. QED
    BY <2>1, <2>2, <2>3
<1>3. CASE PutRow(c)
  BY <1>3 DEF PutRow
<1>4. CASE Stop(c)
  BY <1>4 DEF Stop
<1>5. CASE Signal(c)
  BY <1>5 DEF Signal
<1>6. CASE Join(c)
  BY <1>6 DEF Join
<1>7. QED
  BY <1>1, <1>2, <1>3, <1>4, <1>5, <1>6

\* A thread that moves was alive, so it is the last one and the writer has
\* not joined it; what it becomes is not "none".
LEMMA ThreadStep ==
  ASSUME IInv, NEW t \in Threads,
         Take(t) \/ DrainEmpty(t) \/ Write(t) \/ Flush(t)
  PROVE  Bounded' /\ LockHeld' /\ LastOnly'
<1>1. UNCHANGED <<started, lock, launched, at, sent>>
  BY DEF Take, DrainEmpty, Write, Flush, writer
<1>2. /\ thread[t] \notin {"none", "ended"}
      /\ \E place \in {"looping", "writing", "draining", "rewriting", "flushing", "ended"} :
           thread' = [thread EXCEPT ![t] = place]
  BY DEF Take, DrainEmpty, Write, Flush, Move
<1>3. t = launched /\ started
  BY <1>2 DEF IInv, TypeOK, LastOnly, Threads
<1>4. QED
  BY <1>1, <1>2, <1>3 DEF IInv, TypeOK, Bounded, LockHeld, LastOnly, Threads

LEMMA StepHolds == IInv /\ [Next]_vars => IInv'
<1> SUFFICES ASSUME IInv, [Next]_vars PROVE IInv'
  OBVIOUS
<1>1. ASSUME NEW c \in Callers,
             Enqueue(c) \/ Start(c) \/ PutRow(c) \/ Stop(c) \/ Signal(c) \/ Join(c)
      PROVE  IInv'
  BY <1>1, CallerTyped, CallerStep DEF IInv
<1>2. ASSUME NEW t \in Threads,
             Take(t) \/ DrainEmpty(t) \/ Write(t) \/ Flush(t)
      PROVE  IInv'
  BY <1>2, ThreadTyped, ThreadStep DEF IInv
<1>3. CASE UNCHANGED vars
  BY <1>3 DEF IInv, TypeOK, Bounded, LockHeld, LastOnly, vars, writer, sink
<1>4. QED
  BY <1>1, <1>2, <1>3 DEF Next

LEMMA Inductive == Spec => []IInv
<1>1. Init => IInv
  BY InitHolds
<1>2. IInv /\ [Next]_vars => IInv'
  BY StepHolds
<1>3. QED
  BY <1>1, <1>2, PTL DEF Spec

-----------------------------------------------------------------------------
(* The results.                                                            *)

\* The variables of the writer and its sink keep their types: the queue never
\* outgrows max_queue_size, whoever puts into it.
THEOREM WriterTypes == Spec => []TypeOK
<1>1. IInv => TypeOK
  BY DEF IInv
<1>2. QED
  BY <1>1, Inductive, PTL

\* Two background threads never drain the queue of one writer side by side,
\* for any sequence of start, stop, enqueue and failing flush.
THEOREM SingleDrainer == Spec => []OneDrainer
<1>1. IInv => OneDrainer
  BY DEF IInv, TypeOK, LastOnly, OneDrainer, Threads
<1>2. QED
  BY <1>1, Inductive, PTL
-----------------------------------------------------------------------------
(* Conservation and order of the rows.                                     *)

\* A thread holds the one row it is about to write; every other hand is empty.
HandsFull ==
  \A t \in Threads :
    IF thread[t] \in {"writing", "rewriting"} THEN \E r \in Rows : hand[t] = {r}
                                              ELSE hand[t] = {}

\* Rows come from callers.
Located == Waiting \cup Held \cup Range(buffer) \cup Published \subseteq PutRows

RowsInv == HandsFull /\ Located /\ RowsAccounted /\ OrderKept

\* The signal stands behind the rows it owes, alone.
SignalPending ==
  \E k \in DOMAIN queue :
    /\ queue[k] = Sentinel
    /\ \A i \in DOMAIN queue : /\ i # k => queue[i] # Sentinel
                               /\ i > k => queue[i] \notin owed

\* While no flush fails, the signal of a stop is in the queue until the thread
\* takes it, and from then on no row that it owes is.
Draining ==
  failures = 0 =>
    /\ ~flushFailed
    /\ IF \E c \in Callers : at[c] = "joining"
       THEN /\ owed \subseteq PutRows
            /\ \/ thread[launched] \in {"looping", "writing"} /\ SignalPending
               \/ /\ Sentinel \notin Range(queue)
                  /\ \/ /\ thread[launched] \in {"draining", "rewriting", "flushing"}
                        /\ owed \cap Waiting = {}
                     \/ thread[launched] = "ended" /\ owed \subseteq Published
       ELSE /\ Sentinel \notin Range(queue)
            /\ started => thread[launched] \in {"looping", "writing"}

LEMMA Appended ==
  ASSUME NEW S, NEW s \in Seq(S), NEW e \in S
  PROVE  /\ DOMAIN s = 1..Len(s) /\ Len(s) \in Nat
         /\ DOMAIN Append(s, e) = 1..(Len(s) + 1)
         /\ \A i \in 1..Len(s) : Append(s, e)[i] = s[i]
         /\ Append(s, e)[Len(s) + 1] = e
         /\ Range(Append(s, e)) = Range(s) \cup {e}
<1>1. /\ DOMAIN s = 1..Len(s) /\ Len(s) \in Nat
      /\ DOMAIN Append(s, e) = 1..(Len(s) + 1)
      /\ \A i \in 1..Len(s) : Append(s, e)[i] = s[i]
      /\ Append(s, e)[Len(s) + 1] = e
  OBVIOUS
<1>2. \A i \in 1..(Len(s) + 1) : i \in 1..Len(s) \/ i = Len(s) + 1
  BY <1>1
<1>3. \A i \in 1..Len(s) : i \in 1..(Len(s) + 1)
  BY <1>1
<1>4. Len(s) + 1 \in 1..(Len(s) + 1)
  BY <1>1
<1>5. ASSUME NEW x  PROVE x \in Range(Append(s, e)) <=> x \in Range(s) \cup {e}
  BY <1>1, <1>2, <1>3, <1>4 DEF Range
<1> QED BY <1>1, <1>5

LEMMA Shifted ==
  ASSUME NEW S, NEW s \in Seq(S), s # << >>
  PROVE  /\ DOMAIN s = 1..Len(s) /\ Len(s) \in Nat \ {0} /\ Head(s) = s[1]
         /\ DOMAIN Tail(s) = 1..(Len(s) - 1)
         /\ \A i \in 1..(Len(s) - 1) : i + 1 \in 1..Len(s) /\ Tail(s)[i] = s[i + 1]
         /\ Range(s) = {Head(s)} \cup Range(Tail(s))
<1>1. /\ DOMAIN s = 1..Len(s) /\ Len(s) \in Nat \ {0} /\ Head(s) = s[1]
      /\ DOMAIN Tail(s) = 1..(Len(s) - 1)
      /\ \A i \in 1..(Len(s) - 1) : Tail(s)[i] = s[i + 1]
  OBVIOUS
<1>2. \A i \in 1..(Len(s) - 1) : i + 1 \in 1..Len(s)
  BY <1>1
<1>3. \A i \in 1..Len(s) : i = 1 \/ (i - 1 \in 1..(Len(s) - 1) /\ i = (i - 1) + 1)
  BY <1>1
<1>4. 1 \in 1..Len(s)
  BY <1>1
<1>5. ASSUME NEW i \in 1..Len(s)  PROVE s[i] = Head(s) \/ s[i] \in Range(Tail(s))
  <2>1. CASE i = 1
    BY <1>1, <2>1
  <2>2. CASE i - 1 \in 1..(Len(s) - 1) /\ i = (i - 1) + 1
    <3>1. Tail(s)[i - 1] = s[i]
      BY <1>1, <2>2
    <3> QED BY <1>1, <2>2, <3>1 DEF Range
  <2> QED BY <1>3, <2>1, <2>2
<1>6. Head(s) \in Range(s) /\ Range(Tail(s)) \subseteq Range(s)
  BY <1>1, <1>2, <1>4 DEF Range
<1>7. Range(s) \subseteq {Head(s)} \cup Range(Tail(s))
  BY <1>1, <1>5 DEF Range
<1> QED BY <1>1, <1>2, <1>6, <1>7

\* What a further batch publishes.
LEMMA PublishedMore ==
  ASSUME TypeOK, NEW N \in SUBSET Rows, batches' = Append(batches, N)
  PROVE  Published' = Published \cup N
<1>1. batches \in Seq(SUBSET Rows)
  BY DEF TypeOK
<1>2. Range(Append(batches, N)) = Range(batches) \cup {N}
  BY <1>1, Appended
<1> QED BY <1>2 DEF Published

\* The hand of the living thread is all that is held.
LEMMA HeldByLiving ==
  ASSUME IInv, HandsFull, NEW t \in Threads, thread[t] \notin {"none", "ended"}
  PROVE  /\ t = launched /\ Held = hand[t] /\ hand[t] \subseteq Rows
         /\ \A u \in Threads : u # t => hand[u] = {} /\ thread[u] \in {"none", "ended"}
<1>1. t = launched /\ \A u \in Threads : u # t => thread[u] \in {"none", "ended"}
  BY DEF IInv, TypeOK, LastOnly, Threads
<1>2. \A u \in Threads : u # t => hand[u] = {}
  BY <1>1 DEF HandsFull
<1>3. DOMAIN hand = Threads /\ hand[t] \subseteq Rows
  BY DEF IInv, TypeOK
<1>4. Held = hand[t]
  BY <1>2, <1>3 DEF Held, Range
<1> QED BY <1>1, <1>2, <1>3, <1>4

\* What one call of the sink with the rows b does: N is published, and unless the call
\* left the sink unusable the rest is buffered in the order of b.
LEMMA SinkOutcome ==
  ASSUME TypeOK, NEW b \in Seq(Rows), ~flushFailed,
         Publish(b) \/ FlushRaises(b) \/ Buffer(b)
  PROVE  /\ \E N \in SUBSET Range(b) :
              /\ batches' = IF N = {} THEN batches ELSE Append(batches, N)
              /\ \/ ~flushFailed' /\ N = {} /\ buffer' = b
                 \/ ~flushFailed' /\ N = Range(b) /\ buffer' = << >>
                 \/ flushFailed' /\ buffer' = b
         /\ FlushRaises(b) \/ (~flushFailed' /\ failures' = failures)
<1>1. b = << >> <=> Range(b) = {}
  BY DEF Range
<1> DEFINE Outcome(N) ==
      /\ batches' = IF N = {} THEN batches ELSE Append(batches, N)
      /\ \/ ~flushFailed' /\ N = {} /\ buffer' = b
         \/ ~flushFailed' /\ N = Range(b) /\ buffer' = << >>
         \/ flushFailed' /\ buffer' = b
<1>2. CASE Publish(b)
  <2>1. Outcome(Range(b))
    BY <1>1, <1>2 DEF Publish
  <2>2. ~flushFailed' /\ failures' = failures
    BY <1>2 DEF Publish
  <2> QED BY <2>1, <2>2
<1>3. CASE FlushRaises(b)
  <2>0. buffer' = b
    BY <1>3 DEF FlushRaises
  <2>1. ASSUME UNCHANGED <<flushFailed, batches>>
        PROVE  \E N \in SUBSET Range(b) : Outcome(N)
    <3>1. ~flushFailed' /\ batches' = batches
      BY <2>1
    <3>2. Outcome({})
      BY <2>0, <3>1
    <3>3. {} \in SUBSET Range(b)
      OBVIOUS
    <3> HIDE DEF Outcome
    <3>4. \E N \in SUBSET Range(b) : Outcome(N)
      BY <3>2, <3>3
    <3> QED BY <3>4
  <2>2. ASSUME flushFailed' = TRUE /\ \E some \in SUBSET Range(b) :
               batches' = IF some = {} THEN batches ELSE Append(batches, some)
        PROVE  \E N \in SUBSET Range(b) : Outcome(N)
    <3>1. PICK some \in SUBSET Range(b) :
            batches' = IF some = {} THEN batches ELSE Append(batches, some)
      BY <2>2
    <3>2. flushFailed'
      BY <2>2
    <3>3. Outcome(some)
      BY <2>0, <3>1, <3>2
    <3> HIDE DEF Outcome
    <3>4. \E N \in SUBSET Range(b) : Outcome(N)
      BY <3>1, <3>3
    <3> QED BY <3>4
  <2>3. \E N \in SUBSET Range(b) : Outcome(N)
    BY <1>3, <2>1, <2>2 DEF FlushRaises
  <2>4. FlushRaises(b) \/ (~flushFailed' /\ failures' = failures)
    BY <1>3
  <2> QED BY <2>3, <2>4 DEF Outcome
<1>4. CASE Buffer(b)
  <2>1. ~flushFailed' /\ failures' = failures
    BY <1>4 DEF Buffer
  <2>2. Outcome({})
    BY <1>4 DEF Buffer
  <2>3. {} \in SUBSET Range(b)
    OBVIOUS
  <2> HIDE DEF Outcome
  <2>4. \E N \in SUBSET Range(b) : Outcome(N)
    BY <2>2, <2>3
  <2> QED BY <2>1, <2>4 DEF Outcome
<1> QED BY <1>2, <1>3, <1>4

\* The batches a further one joins stay disjoint and in the callers' order.
LEMMA BatchesGrow ==
  ASSUME TypeOK, OrderKept, RowsAccounted, NEW N \in SUBSET Rows,
         N \cap Published = {}, Precede(Published, N),
         batches' = IF N = {} THEN batches ELSE Append(batches, N)
  PROVE  /\ Published' = Published \cup N
         /\ \A i, j \in DOMAIN batches' :
              /\ i # j => batches'[i] \cap batches'[j] = {}
              /\ i < j => Precede(batches'[i], batches'[j])
<1>1. CASE N = {}
  <2>1. batches' = batches
    BY <1>1
  <2>2. Published' = Published \cup N
    BY <1>1, <2>1 DEF Published
  <2> QED BY <2>1, <2>2 DEF RowsAccounted, OrderKept
<1>2. CASE N # {}
  <2>1. batches' = Append(batches, N)
    BY <1>2
  <2>2. Published' = Published \cup N
    BY <2>1, PublishedMore
  <2>3. batches \in Seq(SUBSET Rows)
    BY DEF TypeOK
  <2>4. /\ DOMAIN batches = 1..Len(batches) /\ Len(batches) \in Nat
        /\ DOMAIN batches' = 1..(Len(batches) + 1)
        /\ \A i \in 1..Len(batches) : batches'[i] = batches[i]
        /\ batches'[Len(batches) + 1] = N
    BY <2>1, <2>3, Appended
  <2>5. \A i \in 1..Len(batches) : batches[i] \subseteq Published
    BY <2>4 DEF Published, Range
  <2>6. \A i \in 1..Len(batches) : batches[i] \cap N = {} /\ Precede(batches[i], N)
    BY <2>5 DEF Precede
  <2>7. ASSUME NEW i \in DOMAIN batches', NEW j \in DOMAIN batches'
        PROVE  /\ i # j => batches'[i] \cap batches'[j] = {}
               /\ i < j => Precede(batches'[i], batches'[j])
    <3>1. CASE i \in 1..Len(batches) /\ j \in 1..Len(batches)
      BY <2>4, <3>1 DEF RowsAccounted, OrderKept
    <3>2. CASE i \in 1..Len(batches) /\ j = Len(batches) + 1
      BY <2>4, <2>6, <3>2
    <3>3. CASE i = Len(batches) + 1 /\ j \in 1..Len(batches)
      <4>1. ~(i < j)
        BY <2>4, <3>3
      <4> QED BY <2>4, <2>6, <3>3, <4>1
    <3>4. CASE i = Len(batches) + 1 /\ j = Len(batches) + 1
      <4>1. i = j /\ ~(i < j)
        BY <2>4, <3>4
      <4> QED BY <4>1
    <3>5. /\ i \in 1..Len(batches) \/ i = Len(batches) + 1
          /\ j \in 1..Len(batches) \/ j = Len(batches) + 1
      BY <2>4
    <3> QED BY <3>1, <3>2, <3>3, <3>4, <3>5
  <2> QED BY <2>2, <2>7
<1> QED BY <1>1, <1>2

\* A step that hands what is held to the sink keeps every row and its order.
LEMMA Sunk ==
  ASSUME TypeOK, Located, RowsAccounted, OrderKept, NEW b \in Seq(Rows), ~flushFailed,
         Publish(b) \/ FlushRaises(b) \/ Buffer(b),
         Range(b) = Range(buffer) \cup Held,
         \A i, j \in DOMAIN b : i < j => Precede({b[i]}, {b[j]}),
         Held' = {}, queue' = queue, sent' = sent
  PROVE  Located' /\ RowsAccounted' /\ OrderKept'
<1>1. PICK N \in SUBSET Range(b) :
        /\ batches' = IF N = {} THEN batches ELSE Append(batches, N)
        /\ \/ ~flushFailed' /\ N = {} /\ buffer' = b
           \/ ~flushFailed' /\ N = Range(b) /\ buffer' = << >>
           \/ flushFailed' /\ buffer' = b
  BY SinkOutcome
<1>2. Waiting' = Waiting /\ PutRows' = PutRows
  BY DEF Waiting, PutRows
<1>3. Buffered = Range(buffer)
  BY DEF Buffered
<1>4. Range(b) \cap Published = {} /\ Waiting \cap (Range(b) \cup Published) = {}
  BY DEF RowsAccounted
<1>5. Precede(Published, Range(b) \cup Waiting) /\ Precede(Range(b), Waiting)
  BY <1>3 DEF OrderKept, Precede
<1>6. N \in SUBSET Rows /\ N \cap Published = {} /\ Precede(Published, N)
  BY <1>1, <1>4, <1>5, BatchTyped DEF Precede
<1>7. /\ Published' = Published \cup N
      /\ \A i, j \in DOMAIN batches' :
           /\ i # j => batches'[i] \cap batches'[j] = {}
           /\ i < j => Precede(batches'[i], batches'[j])
  <2>1. batches' = IF N = {} THEN batches ELSE Append(batches, N)
    BY <1>1
  <2> QED BY <1>6, <2>1, BatchesGrow
<1>8. PutRows = Waiting \cup Range(b) \cup Published
  BY DEF RowsAccounted
<1>9. Range(<< >>) = {}
  BY DEF Range
<1>10. /\ Range(buffer') \subseteq Range(b)
       /\ ~flushFailed' => /\ Range(buffer') \cap N = {}
                           /\ Range(buffer') \cup N = Range(b)
       /\ ~flushFailed' => N = {} \/ Range(buffer') = {}
  BY <1>1, <1>9
<1>11. Located'
  BY <1>2, <1>7, <1>8, <1>10 DEF Located
<1>12. RowsAccounted'
  <2>1. Held' \cap (Range(buffer') \cup Published') = {}
    OBVIOUS
  <2>2. Waiting' \cap (Held' \cup Range(buffer') \cup Published') = {}
    BY <1>2, <1>4, <1>7, <1>10
  <2>3. ~flushFailed' => /\ Range(buffer') \cap Published' = {}
                         /\ PutRows' = Waiting' \cup Held' \cup Range(buffer') \cup Published'
    BY <1>2, <1>4, <1>7, <1>8, <1>10
  <2> QED BY <1>7, <2>1, <2>2, <2>3 DEF RowsAccounted
<1>13. OrderKept'
  <2>1. Buffered' \subseteq Range(b) /\ (N = {} \/ Buffered' = {})
    BY <1>10 DEF Buffered
  <2>2. \A i, j \in DOMAIN buffer' :
          i < j /\ ~flushFailed' => Precede({buffer'[i]}, {buffer'[j]})
    <3>1. CASE buffer' = b
      BY <3>1
    <3>2. CASE buffer' = << >>
      BY <3>2
    <3> QED BY <1>1, <3>1, <3>2
  <2>3. \A i, j \in DOMAIN queue' :
          i < j /\ Sentinel \notin {queue'[i], queue'[j]} => Precede({queue'[i]}, {queue'[j]})
    BY DEF OrderKept
  <2>4. Precede(Published', Buffered' \cup Held' \cup Waiting')
    BY <1>1, <1>2, <1>5, <1>7, <2>1 DEF Precede
  <2>5. Precede(Buffered', Held' \cup Waiting')
    BY <1>2, <1>5, <2>1 DEF Precede
  <2>6. Precede(Held', Waiting')
    BY DEF Precede
  <2> QED BY <1>7, <2>2, <2>3, <2>4, <2>5, <2>6 DEF OrderKept, Precede
<1> QED BY <1>11, <1>12, <1>13

\* A row that is put comes behind every row of its caller.
LEMMA RowPut ==
  ASSUME IInv, RowsInv, NEW c \in Callers, PutRow(c)
  PROVE  Located' /\ RowsAccounted' /\ OrderKept'
<1> DEFINE r == <<c, sent[c] + 1>>
<1>1. r \in Rows /\ r # Sentinel /\ sent \in [Callers -> 0..MaxRows]
  <2>1. sent \in [Callers -> 0..MaxRows] /\ sent[c] < MaxRows
    BY DEF IInv, TypeOK, Bounded, PutRow
  <2>2. sent[c] + 1 \in 1..MaxRows
    BY <2>1, WriterBounds
  <2> QED BY <2>1, <2>2, SentinelAssumption DEF Rows
<1>2. /\ queue' = Append(queue, r) /\ sent' = [sent EXCEPT ![c] = @ + 1]
      /\ UNCHANGED <<hand, buffer, flushFailed, batches>>
  BY DEF PutRow, Put, sink
<1>3. \A x \in Rows : x \in PutRows' <=> x \in PutRows \cup {r}
  <2>1. ASSUME NEW x \in Rows  PROVE x[2] <= sent'[x[1]] <=> x[2] <= sent[x[1]] \/ x = r
    <3>1. x[1] \in Callers /\ x[2] \in 1..MaxRows /\ x = <<x[1], x[2]>>
      BY DEF Rows
    <3>2. CASE x[1] = c
      <4>1. sent'[c] = sent[c] + 1 /\ sent[c] \in Nat
        BY <1>1, <1>2, WriterBounds
      <4>2. x = r <=> x[2] = sent[c] + 1
        BY <3>1, <3>2
      <4> QED BY <3>1, <3>2, <4>1, <4>2
    <3>3. CASE x[1] # c
      BY <1>1, <1>2, <3>1, <3>3
    <3> QED BY <3>2, <3>3
  <2> QED BY <2>1 DEF PutRows
<1>4. PutRows' = PutRows \cup {r}
  BY <1>1, <1>3 DEF PutRows
<1>5. Precede(PutRows, {r}) /\ r \notin PutRows
  <2>1. \A x \in PutRows : x[1] = c => x[2] <= sent[c] /\ x[2] \in Nat
    BY DEF PutRows, Rows
  <2>2. sent[c] \in Nat /\ r[1] = c /\ r[2] = sent[c] + 1
    BY <1>1, WriterBounds
  <2> HIDE DEF r
  <2>3. \A x \in PutRows : x[1] = r[1] => x[2] < r[2]
    BY <2>1, <2>2
  <2>4. r \notin PutRows
    BY <2>1, <2>2
  <2> QED BY <2>3, <2>4 DEF Precede
<1>6. /\ DOMAIN queue = 1..Len(queue) /\ Len(queue) \in Nat
      /\ DOMAIN queue' = 1..(Len(queue) + 1)
      /\ \A i \in 1..Len(queue) : queue'[i] = queue[i]
      /\ queue'[Len(queue) + 1] = r
      /\ Range(queue') = Range(queue) \cup {r}
  <2>1. queue \in Seq(Rows \cup {Sentinel}) /\ r \in Rows \cup {Sentinel}
    BY <1>1 DEF IInv, TypeOK
  <2> HIDE DEF r
  <2> QED BY <1>2, <2>1, Appended
<1> HIDE DEF r
<1>7. Waiting' = Waiting \cup {r}
  BY <1>1, <1>6 DEF Waiting
<1>8. Held' = Held /\ Published' = Published /\ Buffered' = Buffered
  BY <1>2 DEF Held, Published, Buffered
<1>9. Located'
  BY <1>2, <1>4, <1>7, <1>8 DEF RowsInv, Located
<1>10. RowsAccounted'
  <2>1. Located /\ RowsAccounted
    BY DEF RowsInv
  <2>2. r \notin Held \cup Range(buffer) \cup Published
    BY <1>5, <2>1 DEF Located
  <2> QED BY <1>2, <1>4, <1>7, <1>8, <2>1, <2>2 DEF RowsAccounted
<1>11. OrderKept'
  <2>0. OrderKept /\ Located
    BY DEF RowsInv
  <2>1. Buffered \subseteq Range(buffer)
    BY DEF Buffered
  <2>2. Precede(Published \cup Buffered \cup Held \cup Waiting, {r})
    BY <1>5, <2>0, <2>1 DEF Located, Precede
  <2>3. Precede(Published', Buffered' \cup Held' \cup Waiting')
    BY <1>7, <1>8, <2>0, <2>2 DEF OrderKept, Precede
  <2>4. Precede(Buffered', Held' \cup Waiting')
    BY <1>7, <1>8, <2>0, <2>2 DEF OrderKept, Precede
  <2>5. Precede(Held', Waiting')
    BY <1>7, <1>8, <2>0, <2>2 DEF OrderKept, Precede
  <2>6. ASSUME NEW i \in DOMAIN queue', NEW j \in DOMAIN queue', i < j,
               Sentinel \notin {queue'[i], queue'[j]}
        PROVE  Precede({queue'[i]}, {queue'[j]})
    <3>1. i \in 1..Len(queue)
      BY <1>6, <2>6
    <3>2. CASE j \in 1..Len(queue)
      <4>1. queue'[i] = queue[i] /\ queue'[j] = queue[j]
        BY <1>6, <3>1, <3>2
      <4> QED BY <1>6, <2>0, <2>6, <3>1, <3>2, <4>1 DEF OrderKept
    <3>3. CASE j = Len(queue) + 1
      <4>1. queue'[i] = queue[i] /\ queue'[j] = r
        BY <1>6, <3>1, <3>3
      <4>2. queue[i] \in Waiting
        BY <1>6, <2>6, <3>1, <4>1 DEF Waiting, Range
      <4> QED BY <2>2, <4>1, <4>2 DEF Precede
    <3> QED BY <1>6, <3>2, <3>3
  <2>7. /\ \A i, j \in DOMAIN batches' : i < j => Precede(batches'[i], batches'[j])
        /\ \A i, j \in DOMAIN buffer' :
             i < j /\ ~flushFailed' => Precede({buffer'[i]}, {buffer'[j]})
    BY <1>2, <2>0 DEF OrderKept
  <2> QED BY <2>3, <2>4, <2>5, <2>6, <2>7 DEF OrderKept, Precede
<1> QED BY <1>9, <1>10, <1>11

\* The signal of a stop moves no row.
LEMMA SignalPut ==
  ASSUME IInv, RowsInv, NEW c \in Callers, Signal(c)
  PROVE  Located' /\ RowsAccounted' /\ OrderKept'
<1>1. /\ queue' = Append(queue, Sentinel)
      /\ UNCHANGED <<hand, sent, buffer, flushFailed, batches>>
  BY DEF Signal, Put, sink
<1>2. queue \in Seq(Rows \cup {Sentinel}) /\ Sentinel \in Rows \cup {Sentinel}
  BY DEF IInv, TypeOK
<1>3. /\ DOMAIN queue = 1..Len(queue) /\ Len(queue) \in Nat
      /\ DOMAIN queue' = 1..(Len(queue) + 1)
      /\ \A i \in 1..Len(queue) : queue'[i] = queue[i]
      /\ queue'[Len(queue) + 1] = Sentinel
      /\ Range(queue') = Range(queue) \cup {Sentinel}
  BY <1>1, <1>2, Appended
<1>4. Waiting' = Waiting
  BY <1>3 DEF Waiting
<1>5. Held' = Held /\ Published' = Published /\ Buffered' = Buffered /\ PutRows' = PutRows
  BY <1>1 DEF Held, Published, Buffered, PutRows
<1>6. ASSUME NEW i \in DOMAIN queue', NEW j \in DOMAIN queue', i < j,
             Sentinel \notin {queue'[i], queue'[j]}
      PROVE  Precede({queue'[i]}, {queue'[j]})
  <2>1. i \in 1..Len(queue) /\ j \in 1..Len(queue)
    BY <1>3, <1>6
  <2>2. queue'[i] = queue[i] /\ queue'[j] = queue[j]
    BY <1>3, <2>1
  <2> QED BY <1>3, <1>6, <2>1, <2>2 DEF RowsInv, OrderKept
<1>7. Located'
  BY <1>1, <1>4, <1>5 DEF RowsInv, Located
<1>8. RowsAccounted'
  BY <1>1, <1>4, <1>5 DEF RowsInv, RowsAccounted
<1>9. OrderKept'
  <2>1. /\ \A i, j \in DOMAIN batches' : i < j => Precede(batches'[i], batches'[j])
        /\ \A i, j \in DOMAIN buffer' :
             i < j /\ ~flushFailed' => Precede({buffer'[i]}, {buffer'[j]})
    BY <1>1 DEF RowsInv, OrderKept
  <2>2. /\ Precede(Published', Buffered' \cup Held' \cup Waiting')
        /\ Precede(Buffered', Held' \cup Waiting') /\ Precede(Held', Waiting')
    BY <1>4, <1>5 DEF RowsInv, OrderKept, Precede
  <2> QED BY <1>6, <2>1, <2>2 DEF OrderKept, Precede
<1> QED BY <1>7, <1>8, <1>9

\* The head of the queue is the next row of its caller: it follows what the sink has
\* and precedes what waits behind it.
LEMMA HeadTaken ==
  ASSUME IInv, RowsInv, NEW t \in Threads, Take(t)
  PROVE  /\ HandsFull' /\ Located' /\ RowsAccounted' /\ OrderKept'
<1>1. /\ queue \in Seq(Rows \cup {Sentinel}) /\ queue # << >> /\ queue' = Tail(queue)
      /\ UNCHANGED <<sent, buffer, flushFailed, batches>>
  BY DEF IInv, TypeOK, Take, sink
<1>2. /\ DOMAIN queue = 1..Len(queue) /\ Len(queue) \in Nat \ {0} /\ Head(queue) = queue[1]
      /\ DOMAIN queue' = 1..(Len(queue) - 1)
      /\ \A i \in 1..(Len(queue) - 1) : i + 1 \in 1..Len(queue) /\ queue'[i] = queue[i + 1]
      /\ Range(queue) = {Head(queue)} \cup Range(queue')
  BY <1>1, Shifted
<1>3. HandsFull /\ Located /\ RowsAccounted /\ OrderKept
  BY DEF RowsInv
<1>4. Held = {} /\ hand[t] = {} /\ \A u \in Threads : u # t => hand[u] = {}
  <2>1. thread[t] \in {"looping", "draining"}
    BY DEF Take
  <2>2. hand[t] = {}
    BY <1>3, <2>1 DEF HandsFull
  <2> QED BY <1>3, <2>1, <2>2, HeldByLiving
<1>5. Published' = Published /\ Buffered' = Buffered /\ PutRows' = PutRows
  BY <1>1 DEF Published, Buffered, PutRows
<1>6. ASSUME NEW i \in DOMAIN queue', NEW j \in DOMAIN queue', i < j,
             Sentinel \notin {queue'[i], queue'[j]}
      PROVE  Precede({queue'[i]}, {queue'[j]})
  <2>1. /\ i + 1 \in DOMAIN queue /\ j + 1 \in DOMAIN queue
        /\ queue'[i] = queue[i + 1] /\ queue'[j] = queue[j + 1]
    BY <1>2
  <2>2. i + 1 < j + 1
    BY <1>2, <1>6
  <2>3. Precede({queue[i + 1]}, {queue[j + 1]})
    BY <1>3, <1>6, <2>1, <2>2 DEF OrderKept
  <2> QED BY <2>1, <2>3
<1>7. Head(queue) # Sentinel => Precede({Head(queue)}, Waiting')
  <2>1. ASSUME Head(queue) # Sentinel, NEW i \in DOMAIN queue', queue'[i] # Sentinel
        PROVE  Precede({Head(queue)}, {queue'[i]})
    <3>1. /\ 1 \in DOMAIN queue /\ i + 1 \in DOMAIN queue /\ 1 < i + 1
          /\ queue'[i] = queue[i + 1] /\ Head(queue) = queue[1]
      BY <1>2
    <3>2. Precede({queue[1]}, {queue[i + 1]})
      BY <1>3, <2>1, <3>1 DEF OrderKept
    <3> QED BY <3>1, <3>2
  <2> QED BY <2>1 DEF Precede, Waiting, Range
<1>8. Waiting = (Waiting' \cup {Head(queue)}) \ {Sentinel} /\ Waiting' \subseteq Waiting
  BY <1>2 DEF Waiting
<1>9. CASE Head(queue) = Sentinel
  <2>1. hand' = hand /\ Waiting' = Waiting /\ Held' = Held
    BY <1>8, <1>9 DEF Take, Held, Waiting
  <2>2. HandsFull'
    <3>1. thread' = [thread EXCEPT ![t] = "draining"]
      BY <1>9 DEF Take, Move
    <3>2. thread \in [Threads -> {"none", "looping", "writing", "draining",
                                  "rewriting", "flushing", "ended"}]
      BY DEF IInv, TypeOK
    <3> QED BY <1>3, <1>4, <2>1, <3>1, <3>2 DEF HandsFull
  <2>3. Located' /\ RowsAccounted'
    BY <1>1, <1>3, <1>5, <2>1 DEF Located, RowsAccounted
  <2>4. OrderKept'
    <3>1. /\ \A i, j \in DOMAIN batches' : i < j => Precede(batches'[i], batches'[j])
          /\ \A i, j \in DOMAIN buffer' :
               i < j /\ ~flushFailed' => Precede({buffer'[i]}, {buffer'[j]})
      BY <1>1, <1>3 DEF OrderKept
    <3>2. /\ Precede(Published', Buffered' \cup Held' \cup Waiting')
          /\ Precede(Buffered', Held' \cup Waiting') /\ Precede(Held', Waiting')
      BY <1>3, <1>5, <2>1 DEF OrderKept, Precede
    <3> QED BY <1>6, <3>1, <3>2 DEF OrderKept, Precede
  <2> QED BY <2>2, <2>3, <2>4
<1>10. CASE Head(queue) # Sentinel
  <2> DEFINE h == Head(queue)
  <2>1. h \in Rows
    BY <1>1, <1>2, <1>10
  <2>2. hand' = [hand EXCEPT ![t] = {h}] /\ DOMAIN hand = Threads
    BY <1>10 DEF Take, IInv, TypeOK
  <2>3. hand'[t] = {h} /\ \A u \in Threads : u # t => hand'[u] = {}
    BY <1>4, <2>2
  <2>4. Held' = {h}
    BY <2>2, <2>3 DEF Held, Range
  <2>5. h \in Waiting /\ Waiting = Waiting' \cup {h}
    BY <1>8, <1>10 DEF Waiting
  <2>6. h \notin Waiting'
    <3>1. h \in Waiting' => h[2] < h[2]
      BY <1>7, <1>10 DEF Precede
    <3>2. h[2] \in Nat
      BY <2>1 DEF Rows
    <3> HIDE DEF h
    <3> QED BY <3>1, <3>2
  <2>7. HandsFull'
    <3>1. /\ thread \in [Threads -> {"none", "looping", "writing", "draining",
                                     "rewriting", "flushing", "ended"}]
          /\ \E p \in {"writing", "rewriting"} : thread' = [thread EXCEPT ![t] = p]
      BY <1>10 DEF IInv, TypeOK, Take, Move
    <3>2. /\ thread'[t] \in {"writing", "rewriting"}
          /\ \A u \in Threads : u # t => thread'[u] = thread[u]
      BY <3>1
    <3>3. \A u \in Threads : u # t => thread[u] \notin {"writing", "rewriting"}
      BY HeldByLiving DEF RowsInv, Take
    <3> HIDE DEF h
    <3> QED BY <2>1, <2>3, <3>2, <3>3 DEF HandsFull
  <2> HIDE DEF h
  <2>8. Located'
    BY <1>1, <1>3, <1>5, <2>4, <2>5 DEF Located
  <2>9. RowsAccounted'
    BY <1>1, <1>3, <1>4, <1>5, <2>4, <2>5, <2>6 DEF RowsAccounted
  <2>10. OrderKept'
    <3>1. /\ \A i, j \in DOMAIN batches' : i < j => Precede(batches'[i], batches'[j])
          /\ \A i, j \in DOMAIN buffer' :
               i < j /\ ~flushFailed' => Precede({buffer'[i]}, {buffer'[j]})
      BY <1>1, <1>3 DEF OrderKept
    <3>2. Held' \cup Waiting' = Waiting
      BY <2>4, <2>5
    <3>3. Precede(Published', Buffered' \cup Held' \cup Waiting')
      BY <1>3, <1>5, <3>2 DEF OrderKept, Precede
    <3>4. Precede(Buffered', Held' \cup Waiting')
      BY <1>3, <1>5, <3>2 DEF OrderKept, Precede
    <3>5. Precede(Held', Waiting')
      BY <1>7, <1>10, <2>4 DEF h
    <3> QED BY <1>6, <3>1, <3>3, <3>4, <3>5 DEF OrderKept, Precede
  <2> QED BY <2>7, <2>8, <2>9, <2>10
<1> QED BY <1>9, <1>10

\* A step that leaves the queue, the sink and the hands alone moves no row.
LEMMA NothingMoved ==
  ASSUME RowsInv, UNCHANGED <<queue, hand, sent, buffer, flushFailed, batches>>
  PROVE  Located' /\ RowsAccounted' /\ OrderKept'
<1>1. /\ Waiting' = Waiting /\ Held' = Held /\ Published' = Published
      /\ Buffered' = Buffered /\ PutRows' = PutRows
  BY DEF Waiting, Held, Published, Buffered, PutRows
<1> QED BY <1>1 DEF RowsInv, Located, RowsAccounted, OrderKept, Precede

\* The row a thread writes is its hand, which no other thread shares.
LEMMA RowWritten ==
  ASSUME IInv, RowsInv, NEW t \in Threads, Write(t)
  PROVE  HandsFull' /\ Located' /\ RowsAccounted' /\ OrderKept'
<1>1. thread[t] \in {"writing", "rewriting"} /\ TypeOK /\ HandsFull
  BY DEF Write, IInv, RowsInv
<1>2. /\ Held = hand[t] /\ hand[t] \subseteq Rows
      /\ \A u \in Threads : u # t => hand[u] = {} /\ thread[u] \in {"none", "ended"}
  BY <1>1, HeldByLiving
<1>3. UNCHANGED <<queue, sent>> /\ hand' = [hand EXCEPT ![t] = {}] /\ DOMAIN hand = Threads
  BY <1>1 DEF Write, writer, TypeOK
<1>4. \A u \in Threads : hand'[u] = {}
  BY <1>2, <1>3
<1>5. Held' = {}
  BY <1>3, <1>4 DEF Held, Range
<1>6. HandsFull'
  <2>1. /\ thread \in [Threads -> {"none", "looping", "writing", "draining",
                                   "rewriting", "flushing", "ended"}]
        /\ \E p \in {"looping", "draining", "ended"} : thread' = [thread EXCEPT ![t] = p]
    BY <1>1 DEF TypeOK, Write, Move
  <2>2. /\ thread'[t] \notin {"writing", "rewriting"}
        /\ \A u \in Threads : u # t => thread'[u] = thread[u]
    BY <2>1
  <2> QED BY <1>2, <1>4, <2>2 DEF HandsFull
<1>7. PICK row \in hand[t] :
        \/ flushFailed /\ UNCHANGED <<sink, failures>>
        \/ /\ ~flushFailed
           /\ \/ Publish(Append(buffer, row))
              \/ FlushRaises(Append(buffer, row))
              \/ Buffer(Append(buffer, row))
  BY DEF Write
<1>8. Held = {row} /\ row \in Rows /\ buffer \in Seq(Rows)
  BY <1>1, <1>2, <1>7 DEF HandsFull, TypeOK
<1>9. Located /\ RowsAccounted /\ OrderKept
  BY DEF RowsInv
<1>10. CASE flushFailed /\ UNCHANGED <<sink, failures>>
  <2>1. UNCHANGED <<buffer, flushFailed, batches>>
    BY <1>10 DEF sink
  <2>2. /\ Waiting' = Waiting /\ Published' = Published /\ PutRows' = PutRows
        /\ Buffered' = {} /\ Buffered = {}
    BY <1>3, <1>10, <2>1 DEF Waiting, Published, PutRows, Buffered
  <2>3. Located' /\ RowsAccounted'
    BY <1>5, <1>9, <1>10, <2>1, <2>2 DEF Located, RowsAccounted
  <2>4. OrderKept'
    <3>1. /\ \A i, j \in DOMAIN batches' : i < j => Precede(batches'[i], batches'[j])
          /\ \A i, j \in DOMAIN buffer' :
               i < j /\ ~flushFailed' => Precede({buffer'[i]}, {buffer'[j]})
          /\ \A i, j \in DOMAIN queue' : i < j /\ Sentinel \notin {queue'[i], queue'[j]}
               => Precede({queue'[i]}, {queue'[j]})
      BY <1>3, <1>9, <2>1 DEF OrderKept
    <3>2. Precede(Published', Buffered' \cup Held' \cup Waiting')
      BY <1>5, <1>9, <2>2 DEF OrderKept, Precede
    <3>3. Precede(Buffered', Held' \cup Waiting') /\ Precede(Held', Waiting')
      BY <1>5, <2>2 DEF Precede
    <3> QED BY <3>1, <3>2, <3>3 DEF OrderKept, Precede
  <2> QED BY <1>6, <2>3, <2>4
<1>11. CASE /\ ~flushFailed
            /\ \/ Publish(Append(buffer, row))
               \/ FlushRaises(Append(buffer, row))
               \/ Buffer(Append(buffer, row))
  <2> DEFINE b == Append(buffer, row)
  <2>1. b \in Seq(Rows)
    BY <1>8
  <2>2. /\ DOMAIN buffer = 1..Len(buffer) /\ Len(buffer) \in Nat
        /\ DOMAIN b = 1..(Len(buffer) + 1)
        /\ \A i \in 1..Len(buffer) : b[i] = buffer[i]
        /\ b[Len(buffer) + 1] = row
        /\ Range(b) = Range(buffer) \cup {row}
    BY <1>8, Appended
  <2> HIDE DEF b
  <2>3. Range(b) = Range(buffer) \cup Held
    BY <1>8, <2>2
  <2>4. Buffered = Range(buffer)
    BY <1>11 DEF Buffered
  <2>5. ASSUME NEW i \in DOMAIN b, NEW j \in DOMAIN b, i < j
        PROVE  Precede({b[i]}, {b[j]})
    <3>1. i \in 1..Len(buffer)
      BY <2>2, <2>5
    <3>2. CASE j \in 1..Len(buffer)
      BY <1>9, <1>11, <2>2, <2>5, <3>1, <3>2 DEF OrderKept
    <3>3. CASE j = Len(buffer) + 1
      <4>1. b[i] = buffer[i] /\ b[j] = row /\ buffer[i] \in Range(buffer)
        BY <2>2, <3>1, <3>3 DEF Range
      <4>2. Precede(Range(buffer), Held)
        BY <1>9, <2>4 DEF OrderKept, Precede
      <4> QED BY <1>8, <4>1, <4>2 DEF Precede
    <3> QED BY <2>2, <3>2, <3>3
  <2>6. Publish(b) \/ FlushRaises(b) \/ Buffer(b)
    BY <1>11 DEF b
  <2>7. Located' /\ RowsAccounted' /\ OrderKept'
    BY <1>1, <1>3, <1>5, <1>9, <1>11, <2>1, <2>3, <2>5, <2>6, Sunk
  <2> QED BY <1>6, <2>7
<1> QED BY <1>7, <1>10, <1>11

\* The flush that ends a thread hands the buffer alone to the sink.
LEMMA BufferFlushed ==
  ASSUME IInv, RowsInv, NEW t \in Threads, Flush(t)
  PROVE  HandsFull' /\ Located' /\ RowsAccounted' /\ OrderKept'
<1>1. thread[t] = "flushing" /\ TypeOK /\ HandsFull
  BY DEF Flush, IInv, RowsInv
<1>2. Held = hand[t] /\ hand[t] = {}
  BY <1>1, HeldByLiving DEF HandsFull
<1>3. UNCHANGED <<queue, sent, hand>>
  BY DEF Flush, writer
<1>4. Held' = {} /\ Held = {}
  BY <1>2, <1>3 DEF Held
<1>5. HandsFull'
  <2>1. /\ thread \in [Threads -> {"none", "looping", "writing", "draining",
                                   "rewriting", "flushing", "ended"}]
        /\ thread' = [thread EXCEPT ![t] = "ended"]
    BY <1>1 DEF TypeOK, Flush, Move
  <2>2. /\ thread'[t] = "ended" /\ \A u \in Threads : u # t => thread'[u] = thread[u]
    BY <2>1
  <2> QED BY <1>1, <1>3, <2>2 DEF HandsFull
<1>6. Located /\ RowsAccounted /\ OrderKept /\ buffer \in Seq(Rows)
  BY <1>1 DEF RowsInv, TypeOK
<1>7. CASE UNCHANGED <<sink, failures>>
  BY <1>3, <1>5, <1>7, NothingMoved DEF sink
<1>8. CASE ~flushFailed /\ (Publish(buffer) \/ FlushRaises(buffer))
  <2>1. \A i, j \in DOMAIN buffer : i < j => Precede({buffer[i]}, {buffer[j]})
    BY <1>6, <1>8 DEF OrderKept
  <2>2. Range(buffer) = Range(buffer) \cup Held
    BY <1>4
  <2>3. Located' /\ RowsAccounted' /\ OrderKept'
    BY <1>1, <1>3, <1>4, <1>6, <1>8, <2>1, <2>2, Sunk
  <2> QED BY <1>5, <2>3
<1> QED BY <1>7, <1>8 DEF Flush

LEMMA RowsStep ==
  ASSUME IInv, RowsInv, [Next]_vars
  PROVE  RowsInv'
<1>1. HandsFull
  BY DEF RowsInv
<1>2. ASSUME NEW c \in Callers, PutRow(c)  PROVE RowsInv'
  <2>1. HandsFull'
    BY <1>1, <1>2 DEF HandsFull, PutRow
  <2> QED BY <1>2, <2>1, RowPut DEF RowsInv
<1>3. ASSUME NEW c \in Callers, Signal(c)  PROVE RowsInv'
  <2>1. HandsFull'
    BY <1>1, <1>3 DEF HandsFull, Signal
  <2> QED BY <1>3, <2>1, SignalPut DEF RowsInv
<1>4. ASSUME NEW c \in Callers, Enqueue(c) \/ Stop(c) \/ Join(c)  PROVE RowsInv'
  <2>1. UNCHANGED <<queue, hand, sent, buffer, flushFailed, batches, thread>>
    BY <1>4 DEF Enqueue, Stop, Join, writer, sink
  <2>2. HandsFull'
    BY <1>1, <2>1 DEF HandsFull
  <2> QED BY <2>1, <2>2, NothingMoved DEF RowsInv
<1>5. ASSUME NEW c \in Callers, Start(c)  PROVE RowsInv'
  <2>1. UNCHANGED <<queue, hand, sent, buffer, flushFailed, batches>>
    BY <1>5 DEF Start, Launch, writer, sink
  <2>2. \/ thread' = thread
        \/ /\ launched + 1 \in Threads /\ thread[launched + 1] = "none"
           /\ thread' = [thread EXCEPT ![launched + 1] = "looping"]
    <3>1. CASE started
      BY <1>5, <3>1 DEF Start, Launch
    <3>2. CASE ~started
      BY <1>5, <3>2, WriterBounds DEF Start, Launch, IInv, TypeOK, LastOnly, Threads
    <3> QED BY <3>1, <3>2 DEF IInv, TypeOK
  <2>3. \A t \in Threads : \/ thread'[t] = thread[t]
                           \/ thread[t] = "none" /\ thread'[t] = "looping"
    BY <2>2 DEF IInv, TypeOK
  <2>4. HandsFull'
    BY <1>1, <2>1, <2>3 DEF HandsFull
  <2> QED BY <2>1, <2>4, NothingMoved DEF RowsInv
<1>6. ASSUME NEW t \in Threads, Take(t) \/ Write(t) \/ Flush(t)  PROVE RowsInv'
  BY <1>6, HeadTaken, RowWritten, BufferFlushed DEF RowsInv
<1>7. ASSUME NEW t \in Threads, DrainEmpty(t)  PROVE RowsInv'
  <2>1. /\ UNCHANGED <<queue, hand, sent, buffer, flushFailed, batches>>
        /\ thread[t] = "draining" /\ thread' = [thread EXCEPT ![t] = "flushing"]
    BY <1>7 DEF DrainEmpty, Move, writer, sink
  <2>2. \A u \in Threads : \/ thread'[u] = thread[u]
                           \/ thread[u] = "draining" /\ thread'[u] = "flushing"
    BY <2>1 DEF IInv, TypeOK
  <2>3. HandsFull'
    BY <1>1, <2>1, <2>2 DEF HandsFull
  <2> QED BY <2>1, <2>3, NothingMoved DEF RowsInv
<1>8. CASE UNCHANGED vars
  <2>1. UNCHANGED <<queue, hand, sent, buffer, flushFailed, batches, thread>>
    BY <1>8 DEF vars, writer, sink
  <2>2. HandsFull'
    BY <1>1, <2>1 DEF HandsFull
  <2> QED BY <2>1, <2>2, NothingMoved DEF RowsInv
<1> QED BY <1>2, <1>3, <1>4, <1>5, <1>6, <1>7, <1>8 DEF Next

LEMMA RowsInit == Init => RowsInv
<1> SUFFICES ASSUME Init PROVE RowsInv
  OBVIOUS
<1>1. /\ queue = << >> /\ buffer = << >> /\ batches = << >> /\ flushFailed = FALSE
      /\ thread = [t \in Threads |-> "none"] /\ hand = [t \in Threads |-> {}]
      /\ sent = [c \in Callers |-> 0]
  BY DEF Init
<1>2. Range(<< >>) = {}
  BY DEF Range
<1>3. Waiting = {} /\ Held = {} /\ Published = {} /\ Buffered = {}
  BY <1>1, <1>2 DEF Waiting, Held, Published, Buffered, Range
<1>4. PutRows = {}
  BY <1>1, WriterBounds DEF PutRows, Rows
<1>5. HandsFull
  BY <1>1 DEF HandsFull
<1>6. Located /\ RowsAccounted
  BY <1>1, <1>2, <1>3, <1>4 DEF Located, RowsAccounted
<1>7. OrderKept
  BY <1>1, <1>3 DEF OrderKept, Precede
<1> QED BY <1>5, <1>6, <1>7 DEF RowsInv

-----------------------------------------------------------------------------
(* What a stop waits for.                                                  *)

\* One caller at a time has a stop under way.
LEMMA OneStop ==
  ASSUME IInv, NEW c \in Callers, at[c] \in Stopping
  PROVE  lock = c /\ started /\ \A d \in Callers : d # c => at[d] \notin Stopping
<1>1. lock = c /\ c # NoOne
  BY WriterNames DEF IInv, LockHeld
<1> QED BY <1>1 DEF IInv, LockHeld, LastOnly

\* A step of the callers that leaves the stops, the threads and the sink alone, and may
\* put a new row behind the others.
LEMMA DrainingKept ==
  ASSUME Draining, TypeOK,
         UNCHANGED <<started, launched, thread, owed, failures, flushFailed, batches>>,
         \A c \in Callers : at'[c] = "joining" <=> at[c] = "joining",
         PutRows \subseteq PutRows',
         \/ queue' = queue
         \/ \E r \in Rows \ PutRows : queue' = Append(queue, r)
  PROVE  Draining'
<1> SUFFICES ASSUME failures = 0  PROVE Draining'
  BY DEF Draining
<1>1. ~flushFailed' /\ ~flushFailed
  BY DEF Draining
<1>2. queue \in Seq(Rows \cup {Sentinel})
  BY DEF TypeOK
<1>3. CASE ~ \E c \in Callers : at[c] = "joining"
  <2>1. /\ Sentinel \notin Range(queue)
        /\ started => thread[launched] \in {"looping", "writing"}
    BY <1>3 DEF Draining
  <2>2. Sentinel \notin Range(queue')
    <3>1. CASE \E r \in Rows \ PutRows : queue' = Append(queue, r)
      BY <1>2, <2>1, <3>1, Appended, SentinelAssumption
    <3> QED BY <2>1, <3>1
  <2> QED BY <1>1, <1>3, <2>1, <2>2 DEF Draining
<1>4. CASE \E c \in Callers : at[c] = "joining"
  <2>1. owed \subseteq PutRows /\ owed' \subseteq PutRows'
    BY <1>4 DEF Draining
  <2>2. CASE thread[launched] \in {"looping", "writing"} /\ SignalPending
    <3>1. SignalPending'
      <4>1. CASE queue' = queue
        BY <2>2, <4>1 DEF SignalPending
      <4>2. CASE \E r \in Rows \ PutRows : queue' = Append(queue, r)
        <5>1. PICK r \in Rows \ PutRows : queue' = Append(queue, r)
          BY <4>2
        <5>2. /\ DOMAIN queue = 1..Len(queue) /\ Len(queue) \in Nat
              /\ DOMAIN queue' = 1..(Len(queue) + 1)
              /\ \A i \in 1..Len(queue) : queue'[i] = queue[i]
              /\ queue'[Len(queue) + 1] = r
          BY <1>2, <5>1, Appended
        <5>3. PICK k \in DOMAIN queue :
                /\ queue[k] = Sentinel
                /\ \A i \in DOMAIN queue : /\ i # k => queue[i] # Sentinel
                                           /\ i > k => queue[i] \notin owed
          BY <2>2 DEF SignalPending
        <5>4. k \in DOMAIN queue' /\ queue'[k] = Sentinel
          BY <5>2, <5>3
        <5>5. ASSUME NEW i \in DOMAIN queue'
              PROVE  /\ i # k => queue'[i] # Sentinel
                     /\ i > k => queue'[i] \notin owed'
          <6>1. CASE i \in DOMAIN queue
            BY <5>2, <5>3, <6>1
          <6>2. CASE i = Len(queue) + 1
            BY <2>1, <5>1, <5>2, <6>2, SentinelAssumption
          <6> QED BY <5>2, <6>1, <6>2
        <5> QED BY <5>4, <5>5 DEF SignalPending
      <4> QED BY <4>1, <4>2
    <3> QED BY <1>1, <1>4, <2>1, <2>2, <3>1 DEF Draining
  <2>3. CASE /\ Sentinel \notin Range(queue)
             /\ \/ /\ thread[launched] \in {"draining", "rewriting", "flushing"}
                   /\ owed \cap Waiting = {}
                \/ thread[launched] = "ended" /\ owed \subseteq Published
    <3>1. Sentinel \notin Range(queue') /\ (owed \cap Waiting = {} => owed' \cap Waiting' = {})
      <4>1. CASE queue' = queue
        BY <2>3, <4>1 DEF Waiting
      <4>2. CASE \E r \in Rows \ PutRows : queue' = Append(queue, r)
        <5>1. PICK r \in Rows \ PutRows : queue' = Append(queue, r)
          BY <4>2
        <5>2. Range(queue') = Range(queue) \cup {r}
          BY <1>2, <5>1, Appended
        <5> QED BY <2>1, <2>3, <5>1, <5>2, SentinelAssumption DEF Waiting
      <4> QED BY <4>1, <4>2
    <3>2. Published' = Published
      BY DEF Published
    <3> QED BY <1>1, <1>4, <2>1, <2>3, <3>1, <3>2 DEF Draining
  <2> QED BY <1>4, <2>2, <2>3 DEF Draining
<1> QED BY <1>3, <1>4

\* What a stop of a caller begins, signals and ends.
LEMMA StopSteps ==
  ASSUME IInv, Draining, NEW c \in Callers, Stop(c) \/ Signal(c) \/ Join(c)
  PROVE  Draining'
<1> SUFFICES ASSUME failures = 0  PROVE Draining'
  BY DEF Draining, Stop, Signal, Join
<1>1. ~flushFailed' /\ UNCHANGED <<launched, thread>>
  BY DEF Draining, Stop, Signal, Join, sink, writer
<1>2. at \in [Callers -> {"idle", "starting", "putting", "signalling", "joining"}]
  BY DEF IInv, TypeOK
<1>3. CASE Stop(c)
  <2>1. lock = NoOne /\ started /\ UNCHANGED <<queue, started>>
        /\ at' = [at EXCEPT ![c] = "signalling"]
    BY <1>3 DEF Stop, Go
  <2>2. \A d \in Callers : at[d] # "joining" /\ at'[d] # "joining"
    BY <1>2, <2>1, WriterNames DEF IInv, LockHeld, Stopping
  <2>3. Sentinel \notin Range(queue) /\ thread[launched] \in {"looping", "writing"}
    BY <2>1, <2>2 DEF Draining
  <2> QED BY <1>1, <2>1, <2>2, <2>3 DEF Draining
<1>4. CASE Signal(c)
  <2>1. /\ queue' = Append(queue, Sentinel) /\ owed' = PutRows /\ sent' = sent
        /\ at' = [at EXCEPT ![c] = "joining"] /\ at[c] = "signalling"
    BY <1>4 DEF Signal, Put, Go, PutRows
  <2>2. started /\ \A d \in Callers : at[d] # "joining"
    BY <2>1, OneStop DEF Stopping
  <2>3. Sentinel \notin Range(queue) /\ thread[launched] \in {"looping", "writing"}
    BY <2>2 DEF Draining
  <2>4. /\ DOMAIN queue = 1..Len(queue) /\ Len(queue) \in Nat
        /\ DOMAIN queue' = 1..(Len(queue) + 1)
        /\ \A i \in 1..Len(queue) : queue'[i] = queue[i]
        /\ queue'[Len(queue) + 1] = Sentinel
    BY <2>1, Appended DEF IInv, TypeOK
  <2>5. SignalPending'
    <3>1. \A i \in DOMAIN queue : queue[i] # Sentinel
      BY <2>3 DEF Range
    <3>2. \E j \in DOMAIN queue' :
            /\ queue'[j] = Sentinel
            /\ \A i \in DOMAIN queue' : /\ i # j => queue'[i] # Sentinel
                                        /\ i > j => queue'[i] \notin owed'
      <4>1. PICK j \in DOMAIN queue' : j = Len(queue) + 1
        BY <2>4
      <4>2. ASSUME NEW i \in DOMAIN queue'
            PROVE  /\ i # j => queue'[i] # Sentinel
                   /\ i > j => queue'[i] \notin owed'
        BY <2>4, <3>1, <4>1
      <4>3. queue'[j] = Sentinel
        BY <2>4, <4>1
      <4> QED BY <4>2, <4>3
    <3> QED BY <3>2 DEF SignalPending
  <2>6. at'[c] = "joining" /\ owed' \subseteq PutRows'
    BY <1>2, <2>1 DEF PutRows
  <2> QED BY <1>1, <2>3, <2>5, <2>6 DEF Draining
<1>5. CASE Join(c)
  <2>1. /\ at[c] = "joining" /\ thread[launched] = "ended" /\ started' = FALSE
        /\ queue' = queue /\ at' = [at EXCEPT ![c] = "idle"]
    BY <1>5 DEF Join, Go
  <2>2. Sentinel \notin Range(queue)
    BY <2>1 DEF Draining
  <2>3. \A d \in Callers : at'[d] # "joining"
    BY <1>2, <2>1, OneStop DEF Stopping
  <2> QED BY <1>1, <2>1, <2>2, <2>3 DEF Draining
<1> QED BY <1>3, <1>4, <1>5

\* The thread that is alive is the one the stop waits for.
LEMMA AliveIsLast ==
  ASSUME IInv, NEW t \in Threads, thread[t] \notin {"none", "ended"}
  PROVE  t = launched /\ started
BY DEF IInv, TypeOK, LastOnly, Threads

LEMMA DrainingTake ==
  ASSUME IInv, Draining, NEW t \in Threads, Take(t)
  PROVE  Draining'
<1> SUFFICES ASSUME failures = 0  PROVE Draining'
  BY DEF Draining, Take
<1>1. t = launched /\ started /\ thread[t] \in {"looping", "draining"}
  BY AliveIsLast DEF Take
<1>2. /\ UNCHANGED <<started, launched, at, sent, owed, flushFailed, failures, batches>>
      /\ ~flushFailed
  BY DEF Take, sink, Draining
<1>3. /\ queue \in Seq(Rows \cup {Sentinel}) /\ queue # << >> /\ queue' = Tail(queue)
      /\ t \in DOMAIN thread
  BY DEF IInv, TypeOK, Take
<1>4. /\ DOMAIN queue = 1..Len(queue) /\ Len(queue) \in Nat \ {0} /\ Head(queue) = queue[1]
      /\ DOMAIN queue' = 1..(Len(queue) - 1)
      /\ \A i \in 1..(Len(queue) - 1) : i + 1 \in 1..Len(queue) /\ queue'[i] = queue[i + 1]
      /\ Range(queue) = {Head(queue)} \cup Range(queue')
  BY <1>3, Shifted
<1>5. Waiting' \subseteq Waiting /\ PutRows' = PutRows
  BY <1>2, <1>4 DEF Waiting, PutRows
<1>6. /\ Head(queue) = Sentinel => thread'[t] = "draining"
      /\ Head(queue) # Sentinel /\ thread[t] = "looping" => thread'[t] = "writing"
      /\ Head(queue) # Sentinel /\ thread[t] = "draining" => thread'[t] = "rewriting"
  BY <1>3 DEF Take, Move
<1>7. CASE ~ \E c \in Callers : at[c] = "joining"
  <2>1. Sentinel \notin Range(queue) /\ thread[launched] \in {"looping", "writing"}
    BY <1>1, <1>7 DEF Draining
  <2>2. Head(queue) # Sentinel /\ Sentinel \notin Range(queue')
    BY <1>4, <2>1
  <2>3. thread'[launched] = "writing"
    BY <1>1, <1>6, <2>1, <2>2
  <2> QED BY <1>2, <1>7, <2>2, <2>3 DEF Draining
<1>8. CASE \E c \in Callers : at[c] = "joining"
  <2>1. owed' \subseteq PutRows'
    BY <1>2, <1>5, <1>8 DEF Draining
  <2>2. CASE thread[launched] \in {"looping", "writing"} /\ SignalPending
    <3>1. PICK k \in DOMAIN queue :
            /\ queue[k] = Sentinel
            /\ \A i \in DOMAIN queue : /\ i # k => queue[i] # Sentinel
                                       /\ i > k => queue[i] \notin owed
      BY <2>2 DEF SignalPending
    <3>2. thread[t] = "looping"
      BY <1>1, <2>2
    <3>3. CASE k = 1
      <4>1. thread'[launched] = "draining"
        BY <1>1, <1>4, <1>6, <3>1, <3>3
      <4>2. ASSUME NEW i \in DOMAIN queue'
            PROVE  queue'[i] # Sentinel /\ queue'[i] \notin owed
        <5>1. i + 1 \in DOMAIN queue /\ i + 1 # k /\ i + 1 > k /\ queue'[i] = queue[i + 1]
          BY <1>4, <3>3
        <5> QED BY <3>1, <5>1
      <4>3. Sentinel \notin Range(queue') /\ owed' \cap Waiting' = {}
        BY <1>2, <4>2 DEF Range, Waiting
      <4> QED BY <1>2, <1>8, <2>1, <4>1, <4>3 DEF Draining
    <3>4. CASE k # 1
      <4>1. k - 1 \in DOMAIN queue' /\ queue'[k - 1] = queue[k]
        BY <1>4, <3>4
      <4>2. ASSUME NEW i \in DOMAIN queue'
            PROVE  /\ i # k - 1 => queue'[i] # Sentinel
                   /\ i > k - 1 => queue'[i] \notin owed'
        <5>1. /\ i + 1 \in DOMAIN queue /\ queue'[i] = queue[i + 1]
              /\ i # k - 1 => i + 1 # k
              /\ i > k - 1 => i + 1 > k
          BY <1>4
        <5> QED BY <1>2, <3>1, <5>1
      <4>3. SignalPending'
        BY <3>1, <4>1, <4>2 DEF SignalPending
      <4>4. Head(queue) # Sentinel
        BY <1>4, <3>1, <3>4
      <4>5. thread'[launched] = "writing"
        BY <1>1, <1>6, <3>2, <4>4
      <4> QED BY <1>2, <1>8, <2>1, <4>3, <4>5 DEF Draining
    <3> QED BY <3>3, <3>4
  <2>3. CASE /\ Sentinel \notin Range(queue) /\ owed \cap Waiting = {}
             /\ thread[launched] \in {"draining", "rewriting", "flushing"}
    <3>1. Head(queue) # Sentinel /\ Sentinel \notin Range(queue')
      BY <1>4, <2>3
    <3>2. thread'[launched] = "rewriting"
      BY <1>1, <1>6, <2>3, <3>1
    <3>3. owed' \cap Waiting' = {}
      BY <1>2, <1>5, <2>3
    <3> QED BY <1>2, <1>8, <2>1, <3>1, <3>2, <3>3 DEF Draining
  <2>4. thread[launched] # "ended"
    BY <1>1
  <2> QED BY <1>8, <2>2, <2>3, <2>4 DEF Draining
<1> QED BY <1>7, <1>8

\* Without a failure a thread that writes or flushes goes on, and the last flush
\* publishes the rows that are neither waiting nor held.
LEMMA DrainingSink ==
  ASSUME IInv, RowsInv, Draining, NEW t \in Threads, DrainEmpty(t) \/ Write(t) \/ Flush(t)
  PROVE  Draining'
<1> SUFFICES ASSUME failures' = 0  PROVE Draining'
  BY DEF Draining
<1>0. TypeOK
  BY DEF IInv
<1>1. t = launched /\ started /\ UNCHANGED <<queue, started, launched, at, sent, owed>>
  BY AliveIsLast DEF DrainEmpty, Write, Flush, writer
<1>2. failures \in Nat /\ \A b : FlushRaises(b) => failures' = failures + 1
  BY <1>0, WriterBounds DEF TypeOK, FlushRaises
<1>3. \A b : ~FlushRaises(b)
  BY <1>2
<1>4. failures = 0
  BY <1>2, <1>3 DEF DrainEmpty, Write, Flush, Publish, Buffer
<1>5. ~flushFailed /\ ~flushFailed'
  BY <1>3, <1>4 DEF Draining, DrainEmpty, Write, Flush, Publish, Buffer, sink
<1>6. Waiting' = Waiting /\ PutRows' = PutRows /\ (SignalPending <=> SignalPending')
  BY <1>1 DEF Waiting, PutRows, SignalPending
<1>7. t \in DOMAIN thread
  BY <1>0 DEF TypeOK
<1>8. CASE DrainEmpty(t) \/ Write(t)
  <2>1. /\ thread[t] = "draining" => thread'[t] = "flushing"
        /\ thread[t] = "writing" => thread'[t] = "looping"
        /\ thread[t] = "rewriting" => thread'[t] = "draining"
        /\ thread[t] \in {"draining", "writing", "rewriting"}
    BY <1>3, <1>5, <1>7, <1>8 DEF DrainEmpty, Write, Move
  <2> QED BY <1>1, <1>4, <1>5, <1>6, <2>1 DEF Draining
<1>9. CASE Flush(t)
  <2>1. thread[t] = "flushing" /\ thread'[t] = "ended" /\ Publish(buffer)
    BY <1>3, <1>5, <1>7, <1>9 DEF Flush, Move
  <2>2. /\ \E c \in Callers : at[c] = "joining"
        /\ owed \subseteq PutRows /\ owed \cap Waiting = {} /\ Sentinel \notin Range(queue)
    BY <1>1, <1>4, <2>1 DEF Draining
  <2>3. Held = {}
    BY <2>1, HeldByLiving DEF HandsFull, RowsInv
  <2>4. PutRows = Waiting \cup Held \cup Range(buffer) \cup Published
    BY <1>5 DEF RowsInv, RowsAccounted
  <2>5. Published' = Published \cup Range(buffer)
    <3>1. CASE buffer = << >>
      BY <2>1, <3>1 DEF Publish, Published, Range
    <3>2. CASE buffer # << >>
      <4>1. Range(buffer) \in SUBSET Rows
        BY <1>0, BatchTyped DEF TypeOK
      <4>2. batches' = Append(batches, Range(buffer))
        BY <2>1, <3>2 DEF Publish
      <4> QED BY <1>0, <4>1, <4>2, PublishedMore
    <3> QED BY <3>1, <3>2
  <2>6. owed' \subseteq Published'
    BY <1>1, <2>2, <2>3, <2>4, <2>5
  <2> QED BY <1>1, <1>5, <1>6, <2>1, <2>2, <2>6 DEF Draining
<1> QED BY <1>8, <1>9

LEMMA DrainingStep ==
  ASSUME IInv, RowsInv, Draining, [Next]_vars
  PROVE  Draining'
<1>0. TypeOK /\ at \in [Callers -> {"idle", "starting", "putting", "signalling", "joining"}]
  BY DEF IInv, TypeOK
<1>1. ASSUME NEW c \in Callers, Enqueue(c)  PROVE Draining'
  <2>1. /\ UNCHANGED <<started, launched, thread, owed, failures, flushFailed, batches>>
        /\ UNCHANGED <<queue, sent>>
        /\ \A d \in Callers : at'[d] = "joining" <=> at[d] = "joining"
    BY <1>0, <1>1 DEF Enqueue, Go, writer, sink
  <2> QED BY <1>0, <2>1, DrainingKept DEF PutRows
<1>2. ASSUME NEW c \in Callers, PutRow(c)  PROVE Draining'
  <2>1. /\ UNCHANGED <<started, launched, thread, owed, failures, flushFailed, batches>>
        /\ \A d \in Callers : at'[d] = "joining" <=> at[d] = "joining"
    BY <1>0, <1>2 DEF PutRow, Go, sink
  <2>2. sent \in [Callers -> 0..MaxRows] /\ sent[c] < MaxRows
    BY <1>2 DEF IInv, TypeOK, Bounded, PutRow
  <2>3. <<c, sent[c] + 1>> \in Rows \ PutRows
    BY <2>2, WriterBounds DEF Rows, PutRows
  <2>4. queue' = Append(queue, <<c, sent[c] + 1>>) /\ sent' = [sent EXCEPT ![c] = @ + 1]
    BY <1>2 DEF PutRow, Put
  <2>5. \A d \in Callers : sent[d] \in Nat /\ sent'[d] >= sent[d] /\ sent'[d] \in Nat
    BY <2>2, <2>4, WriterBounds
  <2>6. PutRows \subseteq PutRows'
    BY <2>5 DEF PutRows, Rows
  <2> QED BY <1>0, <2>1, <2>3, <2>4, <2>6, DrainingKept
<1>3. ASSUME NEW c \in Callers, Start(c)  PROVE Draining'
  <2>1. /\ UNCHANGED <<owed, failures, flushFailed, batches, queue, sent>>
        /\ \A d \in Callers : at'[d] = "joining" <=> at[d] = "joining"
        /\ lock = NoOne
    BY <1>0, <1>3 DEF Start, Launch, Go, writer, sink
  <2>2. CASE started
    <3>1. UNCHANGED <<started, launched, thread>>
      BY <1>3, <2>2 DEF Start, Launch, writer
    <3> QED BY <1>0, <2>1, <3>1, DrainingKept DEF PutRows
  <2>3. CASE ~started
    <3>1. \A d \in Callers : at[d] # "joining"
      BY <2>1, WriterNames DEF IInv, LockHeld, Stopping
    <3>2. launched + 1 \in Threads /\ launched' = launched + 1
          /\ thread' = [thread EXCEPT ![launched + 1] = "looping"]
      BY <1>0, <1>3, <2>3, WriterBounds DEF Start, Launch, TypeOK, Threads
    <3>3. thread'[launched'] = "looping"
      BY <1>0, <3>2 DEF TypeOK
    <3> QED BY <2>1, <3>1, <3>3 DEF Draining
  <2> QED BY <2>2, <2>3
<1>4. ASSUME NEW c \in Callers, Stop(c) \/ Signal(c) \/ Join(c)  PROVE Draining'
  BY <1>4, StopSteps
<1>5. ASSUME NEW t \in Threads, Take(t) \/ DrainEmpty(t) \/ Write(t) \/ Flush(t)
      PROVE  Draining'
  BY <1>5, DrainingTake, DrainingSink
<1>6. CASE UNCHANGED vars
  BY <1>0, <1>6, DrainingKept DEF vars, writer, sink, PutRows
<1> QED BY <1>1, <1>2, <1>3, <1>4, <1>5, <1>6 DEF Next

LEMMA DrainingInit == Init => Draining
BY DEF Init, Draining, Range

LEMMA RowsInductive == Spec => [](IInv /\ RowsInv /\ Draining)
<1>1. Init => IInv /\ RowsInv /\ Draining
  BY InitHolds, RowsInit, DrainingInit
<1>2. IInv /\ RowsInv /\ Draining /\ [Next]_vars => (IInv /\ RowsInv /\ Draining)'
  BY StepHolds, RowsStep, DrainingStep
<1> QED BY <1>1, <1>2, PTL DEF Spec

\* No row is lost or published twice, for any number of callers, restarts and failing
\* flushes, until a flush leaves the sink unusable.
THEOREM RowsConserved == Spec => []RowsAccounted
<1>1. RowsInv => RowsAccounted
  BY DEF RowsInv
<1> QED BY <1>1, RowsInductive, PTL

\* The rows of one caller reach the sink in the order it put them.
THEOREM OrderPreserved == Spec => []OrderKept
<1>1. RowsInv => OrderKept
  BY DEF RowsInv
<1> QED BY <1>1, RowsInductive, PTL

\* A stop that returns has every row put before its signal published, as long as no
\* flush has failed: the signal stands behind them in the queue, and the thread that
\* took it ends only after the flush.
THEOREM StopHasDrained == Spec => StopDrains
<1>1. ASSUME IInv, Draining, [Next]_vars
      PROVE  [\A c \in Callers : at[c] = "joining" /\ at'[c] = "idle" /\ failures = 0
                => owed \subseteq Published]_vars
  <2> SUFFICES ASSUME NEW c \in Callers, at[c] = "joining", at'[c] = "idle", failures = 0
               PROVE  owed \subseteq Published
    OBVIOUS
  <2>1. thread[launched] = "ended"
    <3>1. at \in [Callers -> {"idle", "starting", "putting", "signalling", "joining"}]
      BY <1>1 DEF IInv, TypeOK
    <3>2. ASSUME NEW d \in Callers, Enqueue(d) \/ Start(d) \/ PutRow(d) \/ Stop(d) \/ Signal(d)
          PROVE  at'[c] = "joining"
      BY <3>1, <3>2 DEF Enqueue, Start, PutRow, Stop, Signal, Go
    <3>3. ASSUME NEW t \in Threads, Take(t) \/ DrainEmpty(t) \/ Write(t) \/ Flush(t)
          PROVE  at' = at
      BY <3>3 DEF Take, DrainEmpty, Write, Flush
    <3>4. \A d \in Callers : Join(d) => thread[launched] = "ended"
      BY DEF Join
    <3>5. ~UNCHANGED vars
      BY DEF vars
    <3> QED BY <1>1, <3>2, <3>3, <3>4, <3>5 DEF Next
  <2> QED BY <1>1, <2>1 DEF Draining
<1> QED BY <1>1, RowsInductive, PTL DEF Spec, StopDrains
=============================================================================
