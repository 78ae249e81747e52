----------------------------- MODULE ResultsWriter -----------------------------
(***************************************************************************)
(* The row writer and the Parquet sink behind it: callers put rows into a  *)
(* bounded queue, one background thread moves them into the sink, and the  *)
(* sink publishes them in batches (src/coleman/results/writer.py,          *)
(* src/coleman/results/parquet_sink.py).                                   *)
(*                                                                         *)
(* Any thread may enqueue, start or stop.  A row is the pair of its caller *)
(* and its number.  A call that blocks is a disabled step.  Sections that  *)
(* hold the sink's lock are single steps.  The order of the rows inside a  *)
(* batch is the sink's sort order, so a batch is a set.                    *)
(***************************************************************************)
EXTENDS Naturals, Sequences, Functions

CONSTANTS
  Callers,         \* threads that use the writer
  NoOne,
  Sentinel,        \* _SENTINEL, what stop puts into the queue
  Capacity,        \* max_queue_size
  BatchSize,       \* ParquetSink.batch_size
  MaxRows,         \* bound on the rows of each caller
  MaxStarts,       \* bound on the threads that are ever started
  MaxFailures      \* bound on the exceptions a flush raises

ASSUME WriterNames == NoOne \notin Callers
ASSUME WriterBounds ==
  /\ Capacity \in Nat \ {0} /\ BatchSize \in Nat \ {0}
  /\ MaxRows \in Nat /\ MaxStarts \in Nat /\ MaxFailures \in Nat

Threads == 1..MaxStarts
Rows    == Callers \X (1..MaxRows)

ASSUME SentinelAssumption == Sentinel \notin Rows

VARIABLES
  queue,           \* ResultsWriter._queue
  started,         \* ResultsWriter._started
  lock,            \* who holds ResultsWriter._lock across a wait, or NoOne
  launched,        \* threads started so far; the last one is _thread
  thread,          \* where each background thread is in _drain
  hand,            \* the rows a thread has taken and not yet written
  at,              \* where each caller is
  sent,            \* history: how many rows each caller has put
  buffer,          \* ParquetSink._buffer
  flushFailed,     \* ParquetSink._flush_failed
  batches,         \* the batches the sink has published, in order
  owed,            \* history: rows put before the last stop signal
  failures         \* history: exceptions a flush raised

writer  == <<queue, started, lock, launched>>
sink    == <<buffer, flushFailed, batches>>
vars    == <<writer, thread, hand, at, sent, sink, owed, failures>>

TypeOK ==
  /\ queue \in Seq(Rows \cup {Sentinel}) /\ Len(queue) <= Capacity
  /\ started \in BOOLEAN /\ lock \in Callers \cup {NoOne}
  /\ launched \in 0..MaxStarts
  /\ thread \in [Threads -> {"none", "looping", "writing", "draining",
                             "rewriting", "flushing", "ended"}]
  /\ hand \in [Threads -> SUBSET Rows]
  /\ at \in [Callers -> {"idle", "starting", "putting", "signalling", "joining"}]
  /\ sent \in [Callers -> 0..MaxRows]
  /\ buffer \in Seq(Rows) /\ flushFailed \in BOOLEAN
  /\ batches \in Seq(SUBSET Rows) /\ owed \subseteq Rows
  /\ failures \in 0..MaxFailures

Init ==
  /\ queue = <<>> /\ started = FALSE /\ lock = NoOne /\ launched = 0
  /\ thread = [t \in Threads |-> "none"] /\ hand = [t \in Threads |-> {}]
  /\ at = [c \in Callers |-> "idle"] /\ sent = [c \in Callers |-> 0]
  /\ buffer = <<>> /\ flushFailed = FALSE /\ batches = <<>>
  /\ owed = {} /\ failures = 0

-----------------------------------------------------------------------------
(* The callers.                                                            *)

\* queue.Queue.put waits while the queue is full.
Put(item) == Len(queue) < Capacity /\ queue' = Append(queue, item)

Go(c, place) == at' = [at EXCEPT ![c] = place]

\* enqueue looks at _started without the lock.
Enqueue(c) ==
  /\ at[c] = "idle" /\ sent[c] < MaxRows
  /\ Go(c, IF started THEN "putting" ELSE "starting")
  /\ UNCHANGED <<writer, thread, hand, sent, sink, owed, failures>>

\* Mutant: start relies on the check its caller made without the lock.
LaunchUnchecked ==
  /\ lock = NoOne
  /\ launched < MaxStarts
  /\ launched' = launched + 1 /\ started' = TRUE
  /\ thread' = [thread EXCEPT ![launched + 1] = "looping"]
  /\ UNCHANGED <<queue, lock>>

\* The section of start under the lock.
Launch ==
  /\ lock = NoOne
  /\ IF started
     THEN UNCHANGED <<writer, thread>>
     ELSE /\ launched < MaxStarts
          /\ launched' = launched + 1 /\ started' = TRUE
          /\ thread' = [thread EXCEPT ![launched + 1] = "looping"]
          /\ UNCHANGED <<queue, lock>>

\* start, called on its own or by enqueue.
Start(c) ==
  /\ \/ at[c] = "idle" /\ UNCHANGED at
     \/ at[c] = "starting" /\ Go(c, "putting")
  /\ Launch
  /\ UNCHANGED <<hand, sent, sink, owed, failures>>

PutRow(c) ==
  /\ at[c] = "putting"
  /\ Put(<<c, sent[c] + 1>>)
  /\ sent' = [sent EXCEPT ![c] = @ + 1]
  /\ Go(c, "idle")
  /\ UNCHANGED <<started, lock, launched, thread, hand, sink, owed, failures>>

\* stop takes the lock and keeps it until the thread has ended.
Stop(c) ==
  /\ at[c] = "idle" /\ lock = NoOne /\ started
  /\ lock' = c
  /\ Go(c, "signalling")
  /\ UNCHANGED <<queue, started, launched, thread, hand, sent, sink, owed, failures>>

\* Mutant: a full queue already wakes the thread, so the signal is left out.
SignalIfRoom(c) ==
  /\ at[c] = "signalling"
  /\ \/ Put(Sentinel)
     \/ Len(queue) = Capacity /\ UNCHANGED queue
  /\ owed' = {r \in Rows : r[2] <= sent[r[1]]}
  /\ Go(c, "joining")
  /\ UNCHANGED <<started, lock, launched, thread, hand, sent, sink, failures>>

Signal(c) ==
  /\ at[c] = "signalling"
  /\ Put(Sentinel)
  /\ owed' = {r \in Rows : r[2] <= sent[r[1]]}
  /\ Go(c, "joining")
  /\ UNCHANGED <<started, lock, launched, thread, hand, sent, sink, failures>>

\* Mutant: stop returns without joining the thread.
JoinAtOnce(c) ==
  /\ at[c] = "joining"
  /\ started' = FALSE /\ lock' = NoOne
  /\ Go(c, "idle")
  /\ UNCHANGED <<queue, launched, thread, hand, sent, sink, owed, failures>>

Join(c) ==
  /\ at[c] = "joining" /\ thread[launched] = "ended"
  /\ started' = FALSE /\ lock' = NoOne
  /\ Go(c, "idle")
  /\ UNCHANGED <<queue, launched, thread, hand, sent, sink, owed, failures>>

-----------------------------------------------------------------------------
(* The Parquet sink.                                                       *)

\* _flush_locked of the rows b of a usable sink.
Publish(b) ==
  /\ buffer' = <<>>
  /\ batches' = IF b = <<>> THEN batches ELSE Append(batches, Range(b))
  /\ UNCHANGED <<flushFailed, failures>>

\* Mutant: the sink stays usable after some of the shards are in place.
FlushRaisesRetryable(b) ==
  /\ b # <<>> /\ failures < MaxFailures
  /\ failures' = failures + 1
  /\ buffer' = b /\ UNCHANGED flushFailed
  /\ \E some \in SUBSET Range(b) :
       batches' = IF some = {} THEN batches ELSE Append(batches, some)

\* It raises while the table is built, or after some of the shards are in
\* place: only then is the sink unusable.
FlushRaises(b) ==
  /\ b # <<>> /\ failures < MaxFailures
  /\ failures' = failures + 1
  /\ buffer' = b
  /\ \/ UNCHANGED <<flushFailed, batches>>
     \/ /\ flushFailed' = TRUE
        /\ \E some \in SUBSET Range(b) :
             batches' = IF some = {} THEN batches ELSE Append(batches, some)

Buffer(b) == buffer' = b /\ UNCHANGED <<flushFailed, batches, failures>>

-----------------------------------------------------------------------------
(* The background threads.                                                 *)

Move(t, place) == thread' = [thread EXCEPT ![t] = place]

\* get, outside and inside the loop that follows the stop signal.
Take(t) ==
  /\ thread[t] \in {"looping", "draining"} /\ queue # <<>>
  /\ queue' = Tail(queue)
  /\ IF Head(queue) = Sentinel
     THEN Move(t, "draining") /\ UNCHANGED hand
     ELSE /\ Move(t, IF thread[t] = "looping" THEN "writing" ELSE "rewriting")
          /\ hand' = [hand EXCEPT ![t] = {Head(queue)}]
  /\ UNCHANGED <<started, lock, launched, at, sent, sink, owed, failures>>

DrainEmpty(t) ==
  /\ thread[t] = "draining" /\ queue = <<>>
  /\ Move(t, "flushing")
  /\ UNCHANGED <<writer, hand, at, sent, sink, owed, failures>>

\* write_row.  An exception ends the thread and leaves _started as it is.
Write(t) ==
  /\ thread[t] \in {"writing", "rewriting"}
  /\ hand' = [hand EXCEPT ![t] = {}]
  /\ \E row \in hand[t] : LET b == Append(buffer, row) IN
       \/ /\ flushFailed /\ Move(t, "ended")
          /\ UNCHANGED <<sink, failures>>
       \/ /\ ~flushFailed
          /\ IF Len(b) >= BatchSize THEN Publish(b) ELSE Buffer(b)
          /\ Move(t, IF thread[t] = "writing" THEN "looping" ELSE "draining")
       \/ /\ ~flushFailed /\ Len(b) >= BatchSize
          /\ FlushRaises(b) /\ Move(t, "ended")
  /\ UNCHANGED <<writer, at, sent, owed>>

\* Mutant: the thread ends with rows still in the sink's buffer.
FlushForgotten(t) ==
  /\ thread[t] = "flushing"
  /\ Move(t, "ended")
  /\ UNCHANGED <<writer, hand, at, sent, sink, owed, failures>>

\* The flush that ends _drain.
Flush(t) ==
  /\ thread[t] = "flushing"
  /\ Move(t, "ended")
  /\ \/ flushFailed /\ UNCHANGED <<sink, failures>>
     \/ ~flushFailed /\ (Publish(buffer) \/ FlushRaises(buffer))
  /\ UNCHANGED <<writer, hand, at, sent, owed>>

-----------------------------------------------------------------------------
Next ==
  \/ \E c \in Callers : \/ Enqueue(c) \/ Start(c) \/ PutRow(c)
                        \/ Stop(c) \/ Signal(c) \/ Join(c)
  \/ \E t \in Threads : Take(t) \/ DrainEmpty(t) \/ Write(t) \/ Flush(t)

\* A thread that can run runs.  A put that finds room goes through: the rows
\* that compete for it are finitely many.  Nobody has to call anything.
Fairness ==
  /\ \A c \in Callers : WF_vars(PutRow(c)) /\ WF_vars(Signal(c)) /\ WF_vars(Join(c))
  /\ \A t \in Threads : /\ WF_vars(Take(t)) /\ WF_vars(DrainEmpty(t))
                        /\ WF_vars(Write(t)) /\ WF_vars(Flush(t))

Spec == Init /\ [][Next]_vars /\ Fairness

-----------------------------------------------------------------------------
(* What the writer promises.                                               *)

PutRows   == {r \in Rows : r[2] <= sent[r[1]]}
Waiting   == Range(queue) \ {Sentinel}
Held      == UNION Range(hand)
Published == UNION Range(batches)
Buffered  == IF flushFailed THEN {} ELSE Range(buffer)

\* No row is published twice, by a restarted thread or by a flush after one
\* that failed half way, and none disappears: a row that was put is in the
\* queue, with a thread, in the buffer or published.  Only a sink that a failed
\* flush left unusable drops rows, and may hold rows that are published.
RowsAccounted ==
  /\ \A i, j \in DOMAIN batches : i # j => batches[i] \cap batches[j] = {}
  /\ Held \cap (Range(buffer) \cup Published) = {}
  /\ Waiting \cap (Held \cup Range(buffer) \cup Published) = {}
  /\ ~flushFailed => /\ Range(buffer) \cap Published = {}
                     /\ PutRows = Waiting \cup Held \cup Range(buffer) \cup Published

\* What a caller has in R was put before what it has in S.
Precede(R, S) == \A r \in R, s \in S : r[1] = s[1] => r[2] < s[2]

\* The rows of one caller reach the sink in the order it put them, also across
\* a stop and a restart: two threads never drain the queue side by side.
OrderKept ==
  /\ \A i, j \in DOMAIN batches : i < j => Precede(batches[i], batches[j])
  /\ \A i, j \in DOMAIN buffer :
       i < j /\ ~flushFailed => Precede({buffer[i]}, {buffer[j]})
  /\ \A i, j \in DOMAIN queue :
       i < j /\ Sentinel \notin {queue[i], queue[j]} => Precede({queue[i]}, {queue[j]})
  /\ Precede(Published, Buffered \cup Held \cup Waiting)
  /\ Precede(Buffered, Held \cup Waiting)
  /\ Precede(Held, Waiting)

\* At most one background thread lives, also across a stop and a restart.
OneDrainer ==
  \A t, u \in Threads :
    thread[t] \notin {"none", "ended"} /\ thread[u] \notin {"none", "ended"} => t = u

\* stop "waits for it to drain": when it returns, every row put before its
\* signal is published, as long as no flush has failed.
StopDrains ==
  [][\A c \in Callers : at[c] = "joining" /\ at'[c] = "idle" /\ failures = 0
       => owed \subseteq Published]_vars

\* When stop returns, no row put before its signal is still in the queue: what
\* the docstring of stop says, without a word on failures.
StopWaitsToDrain ==
  [][\A c \in Callers : at[c] = "joining" /\ at'[c] = "idle"
       => owed \cap Waiting = {}]_vars

\* A stop that has begun returns, whatever is in the queue and whoever waits
\* for room in it, unless a flush fails: it holds the lock of start meanwhile.
StopReturns ==
  \A c \in Callers : at[c] = "signalling" ~> at[c] = "idle" \/ failures > 0

=============================================================================
