----------------------- MODULE ApplicationService_proofs -----------------------
(***************************************************************************)
(* Theorems about ApplicationService, for any number of requests, imports  *)
(* and any policy.                                                         *)
(***************************************************************************)
EXTENDS ApplicationService, FoldFacts, FiniteSetTheorems, TLAPS

Tables == [Keys -> Job]

-----------------------------------------------------------------------------
(* _start_ready visits the jobs one after the other, in order of admission.*)

\* The greatest element of a nonempty set of positions.
LEMMA LastPosition ==
  ASSUME NEW n \in Nat, NEW S \in SUBSET (1..n), S # {}
  PROVE  Max(S) \in S /\ \A i \in S : Max(S) >= i
<1> DEFINE Topped(T) == T = {} \/ \E m \in T : \A i \in T : m >= i
           Bad == {T \in SUBSET (1..n) : ~Topped(T)}
<1>1. Bad = {}
  <2>1. SUFFICES ASSUME Bad # {} PROVE FALSE
    OBVIOUS
  <2>2. PICK T \in Bad : \A x \in T : T \ {x} \notin Bad
    <3> HIDE DEF Bad
    <3>1. Bad \subseteq SUBSET (1..n) /\ IsFiniteSet(1..n)
      BY FS_Interval DEF Bad
    <3> QED
      BY <2>1, <3>1, LeastSubset
  <2>3. PICK x \in T : TRUE
    BY <2>2
  <2>4. T \ {x} = {} \/ \E m \in T \ {x} : \A i \in T \ {x} : m >= i
    BY <2>2, <2>3
  <2>5. CASE T \ {x} = {}
    BY <2>2, <2>3, <2>5
  <2>6. ASSUME NEW m \in T \ {x}, \A i \in T \ {x} : m >= i PROVE FALSE
    <3>1. m >= x \/ x >= m
      BY <2>2, <2>3
    <3>2. CASE m >= x
      BY <2>2, <2>6, <3>2
    <3>3. CASE x >= m
      <4>1. \A i \in T : x >= i
        BY <2>2, <2>3, <2>6, <3>3
      <4> QED
        BY <2>2, <2>3, <4>1
    <3> QED
      BY <3>1, <3>2, <3>3
  <2> QED
    BY <2>4, <2>5, <2>6
<1>2. \E m \in S : \A i \in S : m >= i
  BY <1>1
<1> QED
  BY <1>2 DEF Max

LEMMA FinishTyped ==
  ASSUME NEW job \in Job, NEW to \in TERMINAL
  PROVE  Finish(job, to) \in Job
BY DEF Finish, Job, TERMINAL, Pending

\* What a visit may make of a queued job.
Started(job) == [job EXCEPT !.state = "running", !.process = "alive"]
Outcomes(job) == {Finish(job, "expired"), Finish(job, "failed"), Started(job)}

LEMMA StartedTyped ==
  ASSUME NEW job \in Job
  PROVE  Started(job) \in Job
BY DEF Started, Job, Pending

\* A visit leaves the other jobs, and a job that is not queued, as they are.
LEMMA VisitEffect ==
  ASSUME NEW t \in Tables, NEW k \in Keys, NEW trouble
  PROVE  /\ Visit(t, k, trouble) \in Tables
         /\ \A j \in Keys : Visit(t, k, trouble)[j] # t[j] =>
              j = k /\ t[k].state = "queued" /\ Visit(t, k, trouble)[k] \in Outcomes(t[k])
<1> DEFINE job == t[k]
<1>0. job \in Job
  BY DEF Tables
<1>1. Finish(job, "expired") \in Job /\ Finish(job, "failed") \in Job /\ Started(job) \in Job
  BY <1>0, FinishTyped, StartedTyped DEF TERMINAL
<1>2. ASSUME NEW new \in Outcomes(job), Visit(t, k, trouble) = [t EXCEPT ![k] = new],
             job.state = "queued"
      PROVE  /\ Visit(t, k, trouble) \in Tables
             /\ \A j \in Keys : Visit(t, k, trouble)[j] # t[j] =>
                  j = k /\ t[k].state = "queued" /\ Visit(t, k, trouble)[k] \in Outcomes(t[k])
  <2>1. new \in Job
    BY <1>1, <1>2 DEF Outcomes
  <2> QED
    BY <1>2, <2>1 DEF Tables
<1>3. \/ Visit(t, k, trouble) = t
      \/ job.state = "queued" /\ Visit(t, k, trouble) = [t EXCEPT ![k] = Finish(job, "expired")]
      \/ job.state = "queued" /\ Visit(t, k, trouble) = [t EXCEPT ![k] = Finish(job, "failed")]
      \/ job.state = "queued" /\ Visit(t, k, trouble) = [t EXCEPT ![k] = Started(job)]
  BY DEF Visit, Tables, Started
<1> QED
  BY <1>2, <1>3 DEF Outcomes

\* The recursive function that FoldLeft defines.
Equation(f, table, order, trouble) ==
  f = [s \in SUBSET (DOMAIN order) |->
         IF s = {} THEN table ELSE Visit(f[s \ {Max(s)}], order[Max(s)], trouble)]
VisitIter(table, order, trouble) == CHOOSE f : Equation(f, table, order, trouble)

LEMMA StartReadyUnfolds ==
  ASSUME NEW table, NEW order, NEW trouble
  PROVE  StartReady(table, order, trouble) = VisitIter(table, order, trouble)[DOMAIN order]
BY DEF StartReady, FoldLeft, MapThenFoldSet, VisitIter, Equation

LEMMA EquationSolved ==
  ASSUME NEW table \in Tables, NEW order \in Seq(Keys), NEW trouble
  PROVE  \E f \in [SUBSET (DOMAIN order) -> Tables] : Equation(f, table, order, trouble)
<1> DEFINE D == DOMAIN order
           pick == [s \in SUBSET D |-> Max(s)]
           step == [p \in D \X Tables |-> Visit(p[2], order[p[1]], trouble)]
<1>0. D = 1..Len(order) /\ IsFiniteSet(D) /\ Len(order) \in Nat
  BY FS_Interval
<1>1. \A s \in SUBSET D : s # {} => Max(s) \in s
  BY <1>0, LastPosition
<1>2. Picks(pick, D)
  BY <1>1 DEF Picks
<1>3. \A i \in D, t \in Tables :
        step[<<i, t>>] = Visit(t, order[i], trouble) /\ step[<<i, t>>] \in Tables
  BY VisitEffect
<1>4. PICK f \in [SUBSET D -> Tables] : FoldsOn(f, SUBSET D, table, pick, step)
  <2> HIDE DEF D, pick, step
  <2> QED
    BY <1>0, <1>2, <1>3, FoldExists
<1>5. ASSUME NEW s \in SUBSET D
      PROVE  f[s] = IF s = {} THEN table ELSE Visit(f[s \ {Max(s)}], order[Max(s)], trouble)
  <2>1. CASE s = {}
    BY <1>4, <2>1 DEF FoldsOn
  <2>2. CASE s # {}
    <3>1. pick[s] = Max(s) /\ Max(s) \in D /\ s \ {Max(s)} \in SUBSET D
      BY <1>1, <2>2
    <3>2. f[s \ {Max(s)}] \in Tables
      BY <3>1
    <3> HIDE DEF pick, step, D
    <3>3. f[s] = step[<<Max(s), f[s \ {Max(s)}]>>]
      BY <1>4, <2>2, <3>1 DEF FoldsOn
    <3> QED
      BY <1>3, <2>2, <3>1, <3>2, <3>3
  <2> QED
    BY <2>1, <2>2
<1>6. Equation(f, table, order, trouble)
  BY <1>5 DEF Equation
<1> QED
  BY <1>6

\* The table after each visit: _start_ready is the last one.
Runs(run, table, order, trouble) ==
  /\ run \in [0..Len(order) -> Tables]
  /\ run[0] = table
  /\ \A i \in 1..Len(order) : run[i] = Visit(run[i - 1], order[i], trouble)

LEMMA StartReadyRuns ==
  ASSUME NEW table \in Tables, NEW order \in Seq(Keys), NEW trouble
  PROVE  \E run : /\ Runs(run, table, order, trouble)
                  /\ StartReady(table, order, trouble) = run[Len(order)]
<1> DEFINE n == Len(order)
           D == DOMAIN order
           g == VisitIter(table, order, trouble)
<1>0. n \in Nat /\ D = 1..n
  OBVIOUS
<1>1. PICK f \in [SUBSET D -> Tables] : Equation(f, table, order, trouble)
  BY EquationSolved
<1>2. Equation(g, table, order, trouble)
  BY <1>1, Zenon DEF VisitIter
<1>3. f[D] = g[D]
  <2> DEFINE Bad == {s \in SUBSET D : f[s] # g[s]}
  <2>1. SUFFICES ASSUME Bad # {} PROVE FALSE
    OBVIOUS
  <2>2. PICK T \in Bad : \A x \in T : T \ {x} \notin Bad
    <3> HIDE DEF Bad
    <3>1. Bad \subseteq SUBSET D /\ IsFiniteSet(D)
      BY <1>0, FS_Interval DEF Bad
    <3> QED
      BY <2>1, <3>1, LeastSubset
  <2> HIDE DEF g
  <2>3. ASSUME NEW h, Equation(h, table, order, trouble)
        PROVE  h[T] = IF T = {} THEN table ELSE Visit(h[T \ {Max(T)}], order[Max(T)], trouble)
    BY <2>2, <2>3 DEF Equation
  <2>4. T # {} => f[T \ {Max(T)}] = g[T \ {Max(T)}]
    <3>1. SUFFICES ASSUME T # {} PROVE f[T \ {Max(T)}] = g[T \ {Max(T)}]
      OBVIOUS
    <3>2. T \in SUBSET (1..n) /\ T \in SUBSET D
      BY <1>0, <2>2
    <3>3. Max(T) \in T
      <4> HIDE DEF n
      <4> QED
        BY <1>0, <3>1, <3>2, LastPosition
    <3>4. T \ {Max(T)} \in SUBSET D /\ T \ {Max(T)} \notin Bad
      BY <2>2, <3>2, <3>3
    <3> QED
      BY <3>4
  <2>5. f[T] = g[T]
    BY <1>1, <1>2, <2>3, <2>4
  <2> QED
    BY <2>2, <2>5
<1> DEFINE run == [i \in 0..n |-> f[1..i]]
<1>4. run \in [0..n -> Tables]
  BY <1>0, <1>1
<1>5. run[0] = table
  <2>1. 1..0 = {}
    OBVIOUS
  <2> QED
    BY <1>0, <1>1, <2>1 DEF Equation
<1>6. ASSUME NEW i \in 1..n PROVE run[i] = Visit(run[i - 1], order[i], trouble)
  <2>1. 1..i \in SUBSET D /\ 1..i # {} /\ (1..i) \ {i} = 1..(i - 1) /\ i - 1 \in 0..n
    BY <1>0
  <2>2. Max(1..i) = i
    <3>1. 1..i \in SUBSET (1..n) /\ i \in 1..i
      BY <1>0
    <3>2. Max(1..i) \in 1..i /\ \A m \in 1..i : Max(1..i) >= m
      <4> HIDE DEF n
      <4> QED
        BY <1>0, <2>1, <3>1, LastPosition
    <3> QED
      BY <3>1, <3>2
  <2>3. f[1..i] = Visit(f[(1..i) \ {i}], order[i], trouble)
    BY <1>1, <2>1, <2>2 DEF Equation
  <2> QED
    BY <2>1, <2>3
<1>7. run[n] = f[D]
  BY <1>0
<1>8. Runs(run, table, order, trouble)
  BY <1>4, <1>5, <1>6 DEF Runs
<1>9. StartReady(table, order, trouble) = run[n]
  BY <1>3, <1>7, StartReadyUnfolds
<1> QED
  BY <1>8, <1>9

LEMMA RunsTyped ==
  ASSUME NEW table \in Tables, NEW order \in Seq(Keys), NEW trouble, NEW run,
         Runs(run, table, order, trouble), NEW i \in 0..Len(order)
  PROVE  run[i] \in Tables
BY DEF Runs

\* Two runs that visit the same jobs so far have made the same table.
LEMMA RunsAgree ==
  ASSUME NEW table \in Tables, NEW trouble,
         NEW long \in Seq(Keys), NEW short \in Seq(Keys), Len(short) <= Len(long),
         \A i \in 1..Len(short) : short[i] = long[i],
         NEW r, Runs(r, table, short, trouble), NEW q, Runs(q, table, long, trouble)
  PROVE  r[Len(short)] = q[Len(short)]
<1> DEFINE n == Len(short)
           Good == {i \in Nat : i <= n => r[i] = q[i]}
<1>0. n \in Nat /\ n <= Len(long) /\ Len(long) \in Nat
  OBVIOUS
<1>1. 0 \in Good
  BY DEF Runs
<1>2. ASSUME NEW i \in Nat, i \in Good PROVE i + 1 \in Good
  <2>1. CASE i + 1 <= n
    <3>1. i + 1 \in 1..n /\ i + 1 \in 1..Len(long) /\ (i + 1) - 1 = i /\ r[i] = q[i]
      BY <1>0, <1>2, <2>1
    <3>2. r[i + 1] = Visit(r[i], short[i + 1], trouble)
      BY <3>1 DEF Runs
    <3>3. q[i + 1] = Visit(q[i], long[i + 1], trouble)
      BY <3>1 DEF Runs
    <3>4. r[i + 1] = q[i + 1]
      BY <3>1, <3>2, <3>3
    <3> QED
      BY <3>4
  <2>2. CASE ~(i + 1 <= n)
    BY <2>2
  <2> QED
    BY <2>1, <2>2
<1>3. n \in Good
  <2> HIDE DEF Good
  <2> QED
    BY <1>0, <1>1, <1>2, NatSetInduction
<1> QED
  BY <1>0, <1>3

\* The last job is visited after all the others.
LEMMA StartReadyLast ==
  ASSUME NEW table \in Tables, NEW order \in Seq(Keys), NEW k \in Keys, NEW trouble
  PROVE  StartReady(table, Append(order, k), trouble)
           = Visit(StartReady(table, order, trouble), k, trouble)
<1> DEFINE more == Append(order, k)
           n == Len(order)
<1>1. /\ more \in Seq(Keys) /\ Len(more) = n + 1 /\ more[n + 1] = k
      /\ n \in Nat /\ \A i \in 1..n : order[i] = more[i]
  OBVIOUS
<1> HIDE DEF more
<1>2. PICK r : Runs(r, table, order, trouble) /\ StartReady(table, order, trouble) = r[n]
  BY StartReadyRuns
<1>3. PICK q : Runs(q, table, more, trouble) /\ StartReady(table, more, trouble) = q[Len(more)]
  BY <1>1, StartReadyRuns
<1>4. q[n + 1] = Visit(q[n], k, trouble)
  <2>1. n + 1 \in 1..Len(more) /\ (n + 1) - 1 = n
    BY <1>1
  <2> QED
    BY <1>1, <1>3, <2>1 DEF Runs
<1>5. r[n] = q[n]
  BY <1>1, <1>2, <1>3, RunsAgree
<1> QED
  BY <1>1, <1>2, <1>3, <1>4, <1>5 DEF more

\* It leaves jobs as they are, apart from queued ones that start or end.
Readied(t, u) ==
  \A k \in Keys : u[k] # t[k] => t[k].state = "queued" /\ u[k] \in Outcomes(t[k])

LEMMA OutcomeLeavesQueue ==
  ASSUME NEW job \in Job, NEW out \in Outcomes(job)
  PROVE  out.state \in {"expired", "failed", "running"}
BY DEF Outcomes, Finish, Started, Job

LEMMA StartReadyEffect ==
  ASSUME NEW table \in Tables, NEW order \in Seq(Keys), NEW trouble
  PROVE  /\ StartReady(table, order, trouble) \in Tables
         /\ Readied(table, StartReady(table, order, trouble))
<1> DEFINE n == Len(order)
<1>1. PICK run : Runs(run, table, order, trouble) /\ StartReady(table, order, trouble) = run[n]
  BY StartReadyRuns
<1> DEFINE Good == {i \in Nat : i <= n => Readied(table, run[i])}
<1>0. n \in Nat
  OBVIOUS
<1>2. 0 \in Good
  BY <1>1 DEF Runs, Readied
<1>3. ASSUME NEW i \in Nat, i \in Good PROVE i + 1 \in Good
  <2>1. SUFFICES ASSUME i + 1 <= n PROVE Readied(table, run[i + 1])
    OBVIOUS
  <2>2. i \in 0..n /\ i + 1 \in 1..n /\ (i + 1) - 1 = i /\ Readied(table, run[i])
    BY <1>0, <1>3, <2>1
  <2>3. run[i] \in Tables /\ order[i + 1] \in Keys
    BY <1>1, <2>2, RunsTyped
  <2>4. run[i + 1] = Visit(run[i], order[i + 1], trouble)
    BY <1>1, <2>2 DEF Runs
  <2>5. ASSUME NEW k \in Keys, run[i + 1][k] # table[k]
        PROVE  table[k].state = "queued" /\ run[i + 1][k] \in Outcomes(table[k])
    <3>1. CASE run[i + 1][k] = run[i][k]
      BY <2>2, <2>5, <3>1 DEF Readied
    <3>2. CASE run[i + 1][k] # run[i][k]
      <4>1. run[i][k].state = "queued" /\ run[i + 1][k] \in Outcomes(run[i][k])
        BY <2>3, <2>4, <3>2, VisitEffect
      <4>2. run[i][k] = table[k]
        <5>1. table[k] \in Job
          BY DEF Tables
        <5> QED
          BY <2>2, <4>1, <5>1, OutcomeLeavesQueue DEF Readied
      <4> QED
        BY <4>1, <4>2
    <3> QED
      BY <3>1, <3>2
  <2> QED
    BY <2>5 DEF Readied
<1>4. n \in Good
  <2> HIDE DEF Good
  <2> QED
    BY <1>0, <1>2, <1>3, NatSetInduction
<1> QED
  BY <1>0, <1>1, <1>4, RunsTyped

-----------------------------------------------------------------------------
(* What can happen to one job.                                             *)

\* A process belongs to a running job, a receipt to a completed one, or to what
\* its retention left of it.
Sound(job) ==
  /\ job.process # "none" <=> job.state = "running"
  /\ job.handle => job.state \in {"completed", "expired"}
  /\ job.state = "completed" => job.handle

Filed(job) == job.state = "completed" => job.files = "valid"

\* A change that FirstTerminalWins allows.
Lawful(a, b) ==
  /\ b \in Job /\ Sound(b)
  /\ Filed(a) => Filed(b)
  /\ a.state \in TERMINAL => b.state \in {a.state, "expired"}
  /\ a.handle => b.handle
  /\ b.handle /\ ~a.handle => b.state = "completed"

\* One that neither admits the job, nor puts it back in the queue, nor asks for
\* more than what it was admitted with, nor gives it more time.
Moves(a, b) ==
  /\ Lawful(a, b)
  /\ b.state = "absent" <=> a.state = "absent"
  /\ b.state = "queued" => a.state = "queued"
  /\ b.state = "running" => a.state \in Pending
  /\ b.state \in Pending => b.memory = a.memory /\ (a.late => b.late)
  /\ b.output = a.output
  /\ a.files = "none" => b.files = "none"

LEMMA StaysPut ==
  ASSUME NEW a \in Job, Sound(a)
  PROVE  Moves(a, a)
BY DEF Moves, Lawful, Pending

LEMMA RetentionMoves ==
  ASSUME NEW a \in Job, Sound(a), a.state \in TERMINAL \ {"expired"}
  PROVE  Moves(a, Finish(a, "expired"))
<1>1. Finish(a, "expired") \in Job
  BY FinishTyped DEF TERMINAL
<1> QED
  BY <1>1 DEF Moves, Lawful, Sound, Filed, Finish, Job, TERMINAL, Pending

LEMMA EndingMoves ==
  ASSUME NEW a \in Job, Sound(a), a.state \in Pending,
         NEW to \in {"expired", "failed", "cancelled"}
  PROVE  Moves(a, Finish(a, to))
<1>1. Finish(a, to) \in Job
  BY FinishTyped DEF TERMINAL
<1> QED
  BY <1>1 DEF Moves, Lawful, Sound, Filed, Finish, Job, TERMINAL, Pending

LEMMA CompletionMoves ==
  ASSUME NEW a \in Job, Sound(a), a.state = "running", a.files = "valid"
  PROVE  Moves(a, Finish(a, "completed"))
<1>1. Finish(a, "completed") \in Job
  BY FinishTyped DEF TERMINAL
<1> QED
  BY <1>1 DEF Moves, Lawful, Sound, Filed, Finish, Job, TERMINAL, Pending

LEMMA StartMoves ==
  ASSUME NEW a \in Job, Sound(a), a.state = "queued"
  PROVE  Moves(a, Started(a))
<1>1. Started(a) \in Job
  BY StartedTyped
<1> QED
  BY <1>1 DEF Moves, Lawful, Sound, Filed, Started, Job, TERMINAL, Pending

\* A visit is one of these.
LEMMA OutcomeMoves ==
  ASSUME NEW a \in Job, Sound(a), a.state = "queued", NEW b \in Outcomes(a)
  PROVE  Moves(a, b)
BY StartMoves, EndingMoves DEF Outcomes, Pending

-----------------------------------------------------------------------------
(* Sweeps of the whole table: in one step, every job moves once at most.   *)

AllSound(t) == \A k \in Keys : Sound(t[k])
AllMove(t, u) == \A k \in Keys : Moves(t[k], u[k])

\* _expire retires what has ended, and nothing else.
LEMMA ExpireEffect ==
  ASSUME NEW t \in Tables
  PROVE  /\ Expire(t) \in Tables
         /\ \A k \in Keys : Expire(t)[k] # t[k] =>
              /\ t[k].state \in TERMINAL \ {"expired"}
              /\ Expire(t)[k] = Finish(t[k], "expired")
<1>1. \A k \in Keys : t[k] \in Job
  BY DEF Tables
<1>2. \A k \in Keys : Finish(t[k], "expired") \in Job
  BY <1>1, FinishTyped DEF TERMINAL
<1> QED
  BY <1>1, <1>2 DEF Expire, Tables

LEMMA FinishState ==
  ASSUME NEW job \in Job, NEW to \in TERMINAL
  PROVE  Finish(job, to).state = to
BY DEF Finish, Job

\* The loop of _advance ends pending jobs, and nothing else.
LEMMA SweepEffect ==
  ASSUME NEW t \in Tables, NEW trouble
  PROVE  /\ Sweep(t, trouble) \in Tables
         /\ \A k \in Keys : Sweep(t, trouble)[k] # t[k] =>
              /\ t[k].state \in Pending
              /\ \/ \E to \in {"expired", "failed"} : Sweep(t, trouble)[k] = Finish(t[k], to)
                 \/ /\ t[k].state = "running" /\ t[k].files = "valid"
                    /\ Sweep(t, trouble)[k] = Finish(t[k], "completed")
<1>1. \A k \in Keys : t[k] \in Job
  BY DEF Tables
<1>2. \A k \in Keys : \A to \in TERMINAL : Finish(t[k], to) \in Job
  BY <1>1, FinishTyped
<1>3. ASSUME NEW k \in Keys
      PROVE  \/ Sweep(t, trouble)[k] = t[k]
             \/ /\ t[k].state \in Pending
                /\ \E to \in {"expired", "failed"} : Sweep(t, trouble)[k] = Finish(t[k], to)
             \/ /\ t[k].state = "running" /\ t[k].files = "valid"
                /\ Sweep(t, trouble)[k] = Finish(t[k], "completed")
  BY DEF Sweep, Collect, Pending
<1>4. Sweep(t, trouble) \in Tables
  <2>1. \A k \in Keys : Sweep(t, trouble)[k] \in Job
    BY <1>1, <1>2, <1>3 DEF TERMINAL
  <2>2. Sweep(t, trouble) = [k \in Keys |-> Sweep(t, trouble)[k]]
    BY DEF Sweep
  <2> QED
    BY <2>1, <2>2 DEF Tables
<1> QED
  BY <1>3, <1>4 DEF Pending

LEMMA ReadiedMoves ==
  ASSUME NEW t \in Tables, AllSound(t), NEW u, Readied(t, u), NEW k \in Keys
  PROVE  Moves(t[k], u[k])
<1>1. t[k] \in Job
  BY DEF Tables
<1> QED
  BY <1>1, StaysPut, OutcomeMoves DEF AllSound, Readied

LEMMA ExpireMoves ==
  ASSUME NEW t \in Tables, AllSound(t)
  PROVE  Expire(t) \in Tables /\ AllSound(Expire(t)) /\ AllMove(t, Expire(t))
<1>1. \A k \in Keys : t[k] \in Job /\ Sound(t[k])
  BY DEF Tables, AllSound
<1>2. AllMove(t, Expire(t))
  BY <1>1, ExpireEffect, RetentionMoves, StaysPut DEF AllMove
<1>3. AllSound(Expire(t))
  BY <1>2 DEF AllMove, Moves, Lawful, AllSound
<1> QED
  BY <1>2, <1>3, ExpireEffect

\* A job that retention has taken is not touched again in the same step.
LEMMA MovesAfterExpire ==
  ASSUME NEW t \in Tables, AllSound(t), NEW u, NEW k \in Keys,
         u[k] # Expire(t)[k] =>
           Expire(t)[k].state # "expired" /\ Moves(Expire(t)[k], u[k])
  PROVE  Moves(t[k], u[k])
<1>1. t[k] \in Job /\ Moves(t[k], Expire(t)[k])
  BY ExpireMoves DEF Tables, AllMove
<1>2. CASE Expire(t)[k] = t[k]
  BY <1>1, <1>2
<1>3. CASE Expire(t)[k] # t[k]
  <2>1. Expire(t)[k].state = "expired"
    BY <1>1, <1>3, ExpireEffect, FinishState DEF TERMINAL
  <2> QED
    BY <1>1, <2>1
<1> QED
  BY <1>2, <1>3

LEMMA ReadiedKeeps ==
  ASSUME NEW t \in Tables, NEW u, Readied(t, u), NEW k \in Keys, u[k] # t[k]
  PROVE  t[k].state = "queued" /\ u[k].state \in {"expired", "failed", "running"}
<1>1. t[k] \in Job
  BY DEF Tables
<1> QED
  BY <1>1, OutcomeLeavesQueue DEF Readied

\* Two calls of _start_ready have, on each job, the effect of one.
LEMMA ReadiedTwice ==
  ASSUME NEW t \in Tables, NEW u \in Tables, NEW v, NEW k \in Keys,
         u[k] # t[k] => t[k].state = "queued" /\ u[k] \in Outcomes(t[k]),
         v[k] # u[k] => u[k].state = "queued" /\ v[k] \in Outcomes(u[k]),
         v[k] # t[k]
  PROVE  t[k].state = "queued" /\ v[k] \in Outcomes(t[k])
<1>1. t[k] \in Job
  BY DEF Tables
<1> QED
  BY <1>1, OutcomeLeavesQueue

-----------------------------------------------------------------------------
(* The actions.                                                            *)

LEMMA BoundedSequences ==
  ASSUME NEW S, NEW n \in Nat, NEW s
  PROVE  s \in BoundedSeq(S, n) <=> s \in Seq(S) /\ Len(s) <= n
<1>1. ASSUME s \in BoundedSeq(S, n) PROVE s \in Seq(S) /\ Len(s) <= n
  <2>1. PICK m \in 0..n : s \in [1..m -> S]
    BY <1>1 DEF BoundedSeq, SeqOf
  <2> QED
    BY <2>1
<1>2. ASSUME s \in Seq(S), Len(s) <= n PROVE s \in BoundedSeq(S, n)
  <2>1. Len(s) \in 0..n /\ s \in [1..Len(s) -> S]
    BY <1>2
  <2> QED
    BY <2>1 DEF BoundedSeq, SeqOf
<1> QED
  BY <1>1, <1>2

\* Exactly the jobs that were admitted are in the table of the code.
Listed == \A k \in Keys : jobs[k].state # "absent" <=> k \in Range(admitted)

Base ==
  /\ TypeOK /\ AllSound(jobs) /\ Listed
  /\ session # "removed" => \A k \in Keys : Filed(jobs[k])

\* The steps of the others: they admit nothing.
Sweeping ==
  \/ \E k \in Keys :
       \/ Cancel(k)
       \/ WorkerWrites(k) \/ WorkerExits(k) \/ WorkerDies(k)
       \/ DeadlinePasses(k) \/ RetentionPasses(k)
  \/ Access \/ Close \/ Advance \/ SupervisorEnds

LEMMA AdvanceMoves ==
  ASSUME Base, Advance
  PROVE  jobs' \in Tables /\ AllMove(jobs, jobs')
<1>1. PICK trouble \in Troubles :
        jobs' = StartReady(Sweep(Expire(jobs), trouble), admitted, trouble)
  BY DEF Advance
<1> DEFINE e == Expire(jobs)
           w == Sweep(e, trouble)
<1>2. jobs \in Tables /\ admitted \in Seq(Keys)
  BY BoundedSequences, PolicyAssumption DEF Base, TypeOK, Tables
<1>3. e \in Tables /\ AllSound(e)
  BY <1>2, ExpireMoves DEF Base
<1> HIDE DEF e
<1>4. w \in Tables /\ \A k \in Keys : w[k] # e[k] =>
         /\ e[k].state \in Pending
         /\ \/ \E to \in {"expired", "failed"} : w[k] = Finish(e[k], to)
            \/ /\ e[k].state = "running" /\ e[k].files = "valid"
               /\ w[k] = Finish(e[k], "completed")
  BY <1>3, SweepEffect
<1> HIDE DEF w
<1>5. jobs' \in Tables /\ Readied(w, jobs')
  BY <1>1, <1>2, <1>4, StartReadyEffect DEF e, w
<1>6. ASSUME NEW k \in Keys, jobs'[k] # e[k]
      PROVE  e[k].state # "expired" /\ Moves(e[k], jobs'[k])
  <2>0. e[k] \in Job /\ Sound(e[k])
    BY <1>3 DEF Tables, AllSound
  <2>1. CASE w[k] # e[k]
    <3>1. Moves(e[k], w[k])
      BY <1>4, <2>0, <2>1, EndingMoves, CompletionMoves
    <3>2. w[k].state \in TERMINAL
      BY <1>4, <2>0, <2>1, FinishState DEF TERMINAL
    <3>3. jobs'[k] = w[k]
      BY <1>4, <1>5, <3>2, ReadiedKeeps DEF TERMINAL
    <3> QED
      BY <1>4, <2>1, <3>1, <3>3 DEF Pending
  <2>2. CASE w[k] = e[k]
    BY <1>5, <1>6, <2>0, <2>2, OutcomeMoves DEF Readied
  <2> QED
    BY <2>1, <2>2
<1>7. \A k \in Keys : Moves(jobs[k], jobs'[k])
  BY <1>2, <1>6, MovesAfterExpire DEF Base, e
<1> QED
  BY <1>5, <1>7 DEF AllMove

LEMMA CancelMoves ==
  ASSUME Base, NEW k \in Keys, Cancel(k)
  PROVE  jobs' \in Tables /\ AllMove(jobs, jobs')
<1> DEFINE e == Expire(jobs)
<1>1. jobs \in Tables
  BY DEF Base, TypeOK, Tables
<1>2. e \in Tables /\ AllSound(e)
  BY <1>1, ExpireMoves DEF Base
<1>3. jobs' = [e EXCEPT ![k] = IF @.state \in Pending THEN Finish(@, "cancelled") ELSE @]
  BY DEF Cancel
<1> HIDE DEF e
<1>4. e[k] \in Job /\ Sound(e[k])
  BY <1>2 DEF Tables, AllSound
<1>5. jobs' \in Tables
  BY <1>2, <1>3, <1>4, FinishTyped DEF Tables, TERMINAL
<1>6. ASSUME NEW j \in Keys, jobs'[j] # e[j]
      PROVE  e[j].state # "expired" /\ Moves(e[j], jobs'[j])
  <2>1. j = k /\ e[k].state \in Pending /\ jobs'[k] = Finish(e[k], "cancelled")
    BY <1>2, <1>3, <1>6 DEF Tables
  <2> QED
    BY <1>4, <2>1, EndingMoves DEF Pending
<1>7. \A j \in Keys : Moves(jobs[j], jobs'[j])
  BY <1>1, <1>6, MovesAfterExpire DEF Base, e
<1> QED
  BY <1>5, <1>7 DEF AllMove

LEMMA SweepingMoves ==
  ASSUME Base, Sweeping
  PROVE  jobs' \in Tables /\ AllMove(jobs, jobs')
<1>1. jobs \in Tables /\ \A k \in Keys : jobs[k] \in Job /\ Sound(jobs[k])
  BY DEF Base, TypeOK, Tables, AllSound
<1>2. ASSUME NEW k \in Keys, NEW new \in Job, Moves(jobs[k], new),
             jobs' = [jobs EXCEPT ![k] = new]
      PROVE  jobs' \in Tables /\ AllMove(jobs, jobs')
  <2>1. jobs' \in Tables /\ jobs'[k] = new /\ \A j \in Keys : j # k => jobs'[j] = jobs[j]
    BY <1>1, <1>2 DEF Tables
  <2> QED
    BY <1>1, <1>2, <2>1, StaysPut DEF AllMove
<1>3. ASSUME NEW k \in Keys, WorkerWrites(k) PROVE jobs' \in Tables /\ AllMove(jobs, jobs')
  <2> DEFINE new == [jobs[k] EXCEPT !.files = "valid"]
  <2>1. new \in Job
    BY <1>1 DEF Job
  <2>2. Moves(jobs[k], new)
    BY <1>1, <1>3, <2>1 DEF WorkerWrites, Moves, Lawful, Sound, Filed, Job, TERMINAL, Pending
  <2>3. jobs' = [jobs EXCEPT ![k] = new]
    BY <1>3 DEF WorkerWrites
  <2> QED
    BY <1>2, <2>1, <2>2, <2>3
<1>4. ASSUME NEW k \in Keys, WorkerExits(k) PROVE jobs' \in Tables /\ AllMove(jobs, jobs')
  <2> DEFINE new == [jobs[k] EXCEPT !.process = "exit 0"]
  <2>1. new \in Job
    BY <1>1 DEF Job
  <2>2. Moves(jobs[k], new)
    BY <1>1, <1>4, <2>1 DEF WorkerExits, Moves, Lawful, Sound, Filed, Job, TERMINAL, Pending
  <2>3. jobs' = [jobs EXCEPT ![k] = new]
    BY <1>4 DEF WorkerExits
  <2> QED
    BY <1>2, <2>1, <2>2, <2>3
<1>5. ASSUME NEW k \in Keys, WorkerDies(k) PROVE jobs' \in Tables /\ AllMove(jobs, jobs')
  <2> DEFINE new == [jobs[k] EXCEPT !.process = "exit 1"]
  <2>1. new \in Job
    BY <1>1 DEF Job
  <2>2. Moves(jobs[k], new)
    BY <1>1, <1>5, <2>1 DEF WorkerDies, Moves, Lawful, Sound, Filed, Job, TERMINAL, Pending
  <2>3. jobs' = [jobs EXCEPT ![k] = new]
    BY <1>5 DEF WorkerDies
  <2> QED
    BY <1>2, <2>1, <2>2, <2>3
<1>6. ASSUME NEW k \in Keys, DeadlinePasses(k) PROVE jobs' \in Tables /\ AllMove(jobs, jobs')
  <2> DEFINE new == [jobs[k] EXCEPT !.late = TRUE]
  <2>1. new \in Job
    BY <1>1 DEF Job
  <2>2. Moves(jobs[k], new)
    BY <1>1, <2>1 DEF Moves, Lawful, Sound, Filed, Job, TERMINAL, Pending
  <2>3. jobs' = [jobs EXCEPT ![k] = new]
    BY <1>6 DEF DeadlinePasses
  <2> QED
    BY <1>2, <2>1, <2>2, <2>3
<1>7. ASSUME NEW k \in Keys, RetentionPasses(k) PROVE jobs' \in Tables /\ AllMove(jobs, jobs')
  <2> DEFINE new == [jobs[k] EXCEPT !.aged = TRUE]
  <2>1. new \in Job
    BY <1>1 DEF Job
  <2>2. Moves(jobs[k], new)
    BY <1>1, <2>1 DEF Moves, Lawful, Sound, Filed, Job, TERMINAL, Pending
  <2>3. jobs' = [jobs EXCEPT ![k] = new]
    BY <1>7 DEF RetentionPasses
  <2> QED
    BY <1>2, <2>1, <2>2, <2>3
<1>8. CASE Access
  BY <1>1, <1>8, ExpireMoves DEF Access, Base
<1>9. CASE Close
  <2>1. \A k \in Keys : jobs[k].state \in Pending =>
          Finish(jobs[k], "cancelled") \in Job /\ Moves(jobs[k], Finish(jobs[k], "cancelled"))
    BY <1>1, FinishTyped, EndingMoves DEF TERMINAL
  <2>2. jobs' = [k \in Keys |-> IF jobs[k].state \in Pending
                               THEN Finish(jobs[k], "cancelled") ELSE jobs[k]]
    BY <1>9 DEF Close
  <2> QED
    BY <1>1, <2>1, <2>2, StaysPut DEF Tables, AllMove
<1>10. CASE SupervisorEnds
  BY <1>1, <1>10, StaysPut DEF SupervisorEnds, AllMove
<1> QED
  BY <1>3, <1>4, <1>5, <1>6, <1>7, <1>8, <1>9, <1>10, AdvanceMoves, CancelMoves DEF Sweeping

\* What a session and its order of admission may do meanwhile.
Quiet ==
  /\ jobs' \in Tables /\ AllMove(jobs, jobs') /\ admitted' = admitted
  /\ session' \in {"open", "closing", "joined", "removed"}
  /\ session' = "removed" <=> session = "removed"
  /\ session = session' \/ session' # "open"
  /\ session' # "open" => session # "open" \/ \A k \in Keys : jobs'[k].state \notin Pending

LEMMA SweepingQuiet ==
  ASSUME Base, Sweeping
  PROVE  Quiet
<1>1. jobs' \in Tables /\ AllMove(jobs, jobs')
  BY SweepingMoves
<1>2. session \in {"open", "closing", "joined", "removed"}
  BY DEF Base, TypeOK
<1>3. CASE session' = session /\ admitted' = admitted
  BY <1>1, <1>2, <1>3 DEF Quiet
<1>4. CASE SupervisorEnds
  BY <1>1, <1>4 DEF Quiet, SupervisorEnds
<1>5. CASE Close
  <2>1. \A k \in Keys : jobs'[k].state \notin Pending
    <3>1. \A k \in Keys : jobs[k] \in Job
      BY DEF Base, TypeOK
    <3>2. \A k \in Keys : Finish(jobs[k], "cancelled").state = "cancelled"
      BY <3>1, FinishState DEF TERMINAL
    <3> QED
      BY <1>5, <3>2 DEF Close, Pending
  <2> QED
    BY <1>1, <1>5, <2>1 DEF Quiet, Close
<1> QED
  BY <1>3, <1>4, <1>5 DEF Sweeping, Cancel, WorkerWrites, WorkerExits, WorkerDies,
     DeadlinePasses, RetentionPasses, Access, Advance

-----------------------------------------------------------------------------
(* Admission.                                                              *)

\* The request k, or the import k, takes its place in the table.
Admits(k) ==
  /\ jobs' \in Tables /\ \A j \in Keys \ {k} : Moves(jobs[j], jobs'[j])
  /\ jobs[k].state = "absent" /\ jobs'[k].state # "absent"
  /\ Lawful(jobs[k], jobs'[k]) /\ Filed(jobs'[k])
  /\ session = "open" /\ session' = "open"
  /\ Len(admitted) < MaxJobs /\ admitted' = Append(admitted, k)

LEMMA ImportAdmits ==
  ASSUME Base, NEW k \in Imports, Import(k)
  PROVE  Admits(k) /\ jobs'[k].state = "completed"
<1> DEFINE e == Expire(jobs)
           new == [Absent EXCEPT !.state = "completed", !.files = "valid",
                     !.handle = TRUE, !.output = OutputCap]
<1>1. jobs \in Tables /\ k \in Keys
  BY DEF Base, TypeOK, Tables, Keys
<1>2. e \in Tables /\ AllMove(jobs, e)
  BY <1>1, ExpireMoves DEF Base
<1>3. jobs' = [e EXCEPT ![k] = new] /\ Len(admitted) < MaxJobs
  BY DEF Import, Roomy
<1>4. new \in Job /\ new.state = "completed" /\ Sound(new) /\ Filed(new)
  BY PolicyAssumption DEF Absent, Job, TERMINAL, Sound, Filed
<1>5. jobs[k] \in Job /\ jobs[k].state = "absent" /\ Sound(jobs[k])
  BY <1>1 DEF Import, Tables, Base, AllSound
<1> HIDE DEF e, new
<1>6. /\ jobs' \in Tables /\ jobs'[k] = new
      /\ \A j \in Keys \ {k} : jobs'[j] = e[j]
  BY <1>1, <1>2, <1>3, <1>4 DEF Tables
<1>7. Lawful(jobs[k], jobs'[k])
  BY <1>4, <1>5, <1>6 DEF Lawful, Sound, TERMINAL
<1> QED
  BY <1>2, <1>3, <1>4, <1>5, <1>6, <1>7 DEF Admits, Import, AllMove

Fresh(limits) ==
  [Absent EXCEPT !.state = "queued", !.files = "work",
     !.memory = limits.memory, !.output = limits.output]

LEMMA FreshTyped ==
  ASSUME NEW limits \in Allowances
  PROVE  /\ Fresh(limits) \in Job /\ Sound(Fresh(limits)) /\ Filed(Fresh(limits))
         /\ Fresh(limits).state = "queued" /\ ~Fresh(limits).late /\ ~Fresh(limits).handle
         /\ Fresh(limits).memory = limits.memory /\ Fresh(limits).output = limits.output
<1>1. limits.memory \in Nat /\ limits.output \in Nat
  BY PolicyAssumption
<1> QED
  BY <1>1 DEF Fresh, Absent, Job, Pending, Sound, Filed

\* What _admission sees: the table after its own _expire and _start_ready.
Ready(trouble) == StartReady(Expire(jobs), admitted, trouble)

LEMMA ReadyMoves ==
  ASSUME Base, NEW trouble
  PROVE  /\ Ready(trouble) \in Tables /\ AllMove(jobs, Ready(trouble))
         /\ Readied(Expire(jobs), Ready(trouble))
<1> DEFINE e == Expire(jobs)
           ready == Ready(trouble)
<1>1. jobs \in Tables /\ admitted \in Seq(Keys)
  BY BoundedSequences, PolicyAssumption DEF Base, TypeOK, Tables
<1>2. e \in Tables /\ AllSound(e)
  BY <1>1, ExpireMoves DEF Base
<1>3. ready \in Tables /\ Readied(e, ready)
  BY <1>1, <1>2, StartReadyEffect DEF Ready
<1> HIDE DEF e, ready
<1>4. ASSUME NEW j \in Keys, ready[j] # e[j]
      PROVE  e[j].state # "expired" /\ Moves(e[j], ready[j])
  <2>1. e[j] \in Job /\ Sound(e[j])
    BY <1>2 DEF Tables, AllSound
  <2> QED
    BY <1>3, <1>4, <2>1, OutcomeMoves DEF Readied
<1>5. AllMove(jobs, ready)
  BY <1>1, <1>4, MovesAfterExpire DEF Base, e, AllMove
<1> QED
  BY <1>3, <1>5 DEF e, ready

\* The two ends of a submission.
Refused(trouble) == jobs' = Ready(trouble) /\ admitted' = admitted /\ session' = session

Accepted(k, limits, trouble) ==
  /\ session = "open" /\ session' = session /\ jobs[k].state = "absent"
  /\ ~QueueFull(Ready(trouble), limits.memory)
  /\ Roomy(Ready(trouble), limits.output)
  /\ limits.memory <= MaxMemory
  /\ admitted' = Append(admitted, k)
  /\ jobs' = StartReady([Ready(trouble) EXCEPT ![k] = Fresh(limits)], admitted', trouble)

LEMMA SubmitSplits ==
  ASSUME NEW k \in Requests, NEW limits \in Allowances, Submit(k, limits)
  PROVE  \E trouble \in Troubles : Refused(trouble) \/ Accepted(k, limits, trouble)
BY DEF Submit, Refused, Accepted, Ready, Fresh

LEMMA RefusedQuiet ==
  ASSUME Base, NEW trouble, Refused(trouble)
  PROVE  Quiet
<1>1. jobs' \in Tables /\ AllMove(jobs, jobs')
  BY ReadyMoves DEF Refused
<1> QED
  BY <1>1 DEF Refused, Quiet, Base, TypeOK

\* The table with the new job in it, before _start_ready is called again.
Entered(k, limits, trouble) == [Ready(trouble) EXCEPT ![k] = Fresh(limits)]

LEMMA EnteredReadied ==
  ASSUME Base, NEW k \in Keys, NEW limits \in Allowances, NEW trouble,
         Accepted(k, limits, trouble)
  PROVE  /\ Entered(k, limits, trouble) \in Tables
         /\ Entered(k, limits, trouble)[k] = Fresh(limits)
         /\ \A j \in Keys \ {k} : Entered(k, limits, trouble)[j] = Ready(trouble)[j]
         /\ admitted \in Seq(Keys) /\ admitted' \in Seq(Keys)
         /\ jobs' = StartReady(Entered(k, limits, trouble), admitted', trouble)
         /\ jobs' \in Tables /\ Readied(Entered(k, limits, trouble), jobs')
<1> DEFINE t == Entered(k, limits, trouble)
<1>1. Ready(trouble) \in Tables
  BY ReadyMoves
<1>2. /\ t \in Tables /\ t[k] = Fresh(limits)
      /\ \A j \in Keys \ {k} : t[j] = Ready(trouble)[j]
  BY <1>1, FreshTyped DEF Entered, Tables
<1>3. admitted \in Seq(Keys)
  BY BoundedSequences, PolicyAssumption DEF Base, TypeOK
<1>4. admitted' \in Seq(Keys)
  BY <1>3 DEF Accepted
<1>5. jobs' = StartReady(t, admitted', trouble)
  BY DEF Accepted, Entered
<1> HIDE DEF t
<1>6. jobs' \in Tables /\ Readied(t, jobs')
  BY <1>2, <1>4, <1>5, StartReadyEffect
<1> QED
  BY <1>2, <1>3, <1>4, <1>5, <1>6 DEF t

LEMMA AcceptedAdmits ==
  ASSUME Base, NEW k \in Keys, NEW limits \in Allowances, NEW trouble,
         Accepted(k, limits, trouble)
  PROVE  Admits(k) /\ jobs'[k].output = limits.output
<1> DEFINE e == Expire(jobs)
           ready == Ready(trouble)
           t == Entered(k, limits, trouble)
<1>1. jobs \in Tables /\ e \in Tables /\ AllSound(e)
  BY ExpireMoves DEF Base, TypeOK, Tables
<1>2. ready \in Tables /\ Readied(e, ready)
  BY ReadyMoves
<1>3. /\ t \in Tables /\ t[k] = Fresh(limits) /\ jobs' \in Tables /\ Readied(t, jobs')
      /\ \A j \in Keys \ {k} : t[j] = ready[j]
  BY EnteredReadied
<1> HIDE DEF e, ready, t
<1>4. ASSUME NEW j \in Keys \ {k} PROVE Moves(jobs[j], jobs'[j])
  <2>1. ASSUME jobs'[j] # e[j] PROVE e[j].state # "expired" /\ Moves(e[j], jobs'[j])
    <3>1. e[j] \in Job /\ Sound(e[j])
      BY <1>1 DEF Tables, AllSound
    <3>2. ready[j] # e[j] => e[j].state = "queued" /\ ready[j] \in Outcomes(e[j])
      BY <1>2 DEF Readied
    <3>3. jobs'[j] # ready[j] => ready[j].state = "queued" /\ jobs'[j] \in Outcomes(ready[j])
      BY <1>3 DEF Readied
    <3>4. e[j].state = "queued" /\ jobs'[j] \in Outcomes(e[j])
      BY <1>1, <1>2, <2>1, <3>2, <3>3, ReadiedTwice
    <3> QED
      BY <3>1, <3>4, OutcomeMoves
  <2> QED
    BY <1>1, <2>1, MovesAfterExpire DEF Base, e
<1>5. Moves(Fresh(limits), jobs'[k])
  BY <1>3, FreshTyped, StaysPut, OutcomeMoves DEF Readied
<1>6. jobs[k].state = "absent" /\ jobs[k] \in Job /\ Sound(jobs[k])
  BY <1>1 DEF Accepted, Tables, Base, AllSound
<1>7. Lawful(jobs[k], jobs'[k]) /\ Filed(jobs'[k]) /\ jobs'[k].state # "absent"
  BY <1>5, <1>6, FreshTyped DEF Moves, Lawful, Sound, Filed, TERMINAL
<1>8. jobs'[k].output = limits.output
  BY <1>5, FreshTyped DEF Moves
<1> QED
  BY <1>3, <1>4, <1>6, <1>7, <1>8 DEF Admits, Accepted, Roomy

-----------------------------------------------------------------------------
(* The steps of Next, by what they do to the table.                        *)

LEMMA NextSplits ==
  ASSUME Base, [Next]_vars
  PROVE  Quiet \/ RemoveDirectory \/ \E k \in Keys : Admits(k)
<1>1. ASSUME NEW k \in Requests, NEW limits \in Allowances, Submit(k, limits)
      PROVE  Quiet \/ \E j \in Keys : Admits(j)
  <2>1. k \in Keys
    BY DEF Keys
  <2> QED
    BY <1>1, <2>1, SubmitSplits, RefusedQuiet, AcceptedAdmits
<1>2. ASSUME NEW k \in Imports, Import(k)
      PROVE  \E j \in Keys : Admits(j)
  BY <1>2, ImportAdmits DEF Keys
<1>3. CASE UNCHANGED vars
  BY <1>3, StaysPut DEF vars, Quiet, AllMove, Base, AllSound, TypeOK, Tables
<1>4. CASE Next
  BY <1>1, <1>2, <1>4, SweepingQuiet DEF Next, Sweeping
<1> QED
  BY <1>3, <1>4

LEMMA RangeAppend ==
  ASSUME NEW S, NEW s \in Seq(S), NEW x \in S
  PROVE  Range(Append(s, x)) = Range(s) \cup {x}
<1> DEFINE t == Append(s, x)
<1>1. /\ DOMAIN t = 1..(Len(s) + 1) /\ DOMAIN s = 1..Len(s) /\ Len(s) \in Nat
      /\ t[Len(s) + 1] = x /\ \A i \in 1..Len(s) : t[i] = s[i]
  OBVIOUS
<1> HIDE DEF t
<1>2. ASSUME NEW y \in Range(t) PROVE y \in Range(s) \cup {x}
  BY <1>1, <1>2 DEF Range
<1>3. ASSUME NEW y \in Range(s) PROVE y \in Range(t)
  <2>1. PICK i \in 1..Len(s) : y = s[i]
    BY <1>1, <1>3 DEF Range
  <2>2. i \in 1..(Len(s) + 1) /\ y = t[i]
    BY <1>1, <2>1
  <2> QED
    BY <1>1, <2>2 DEF Range
<1>4. x \in Range(t)
  <2>1. Len(s) + 1 \in 1..(Len(s) + 1)
    BY <1>1
  <2> QED
    BY <1>1, <2>1 DEF Range
<1> QED
  BY <1>2, <1>3, <1>4 DEF t

LEMMA RangeFinite ==
  ASSUME NEW S, NEW s \in Seq(S)
  PROVE  IsFiniteSet(Range(s))
<1>1. s \in Surjection(1..Len(s), Range(s)) /\ Len(s) \in Nat
  <2>1. DOMAIN s = 1..Len(s) /\ Len(s) \in Nat /\ s = [i \in 1..Len(s) |-> s[i]]
    OBVIOUS
  <2> QED
    BY <2>1 DEF Range, Surjection
<1>2. IsFiniteSet(1..Len(s))
  BY <1>1, FS_Interval
<1> QED
  BY <1>1, <1>2, FS_Surjection

-----------------------------------------------------------------------------
(* Type correctness, with what the other invariants rest on.               *)

LEMMA InitBase ==
  ASSUME Init
  PROVE  Base
<1>1. admitted \in BoundedSeq(Keys, MaxJobs)
  <2>1. admitted \in Seq(Keys) /\ Len(admitted) <= MaxJobs
    BY PolicyAssumption DEF Init
  <2> QED
    BY <2>1, BoundedSequences, PolicyAssumption
<1>2. Absent \in Job /\ Sound(Absent) /\ Filed(Absent) /\ Absent.state = "absent"
  BY DEF Absent, Job, Sound, Filed
<1>3. Range(admitted) = {}
  BY DEF Init, Range
<1> QED
  BY <1>1, <1>2, <1>3 DEF Init, Base, TypeOK, AllSound, Listed

LEMMA NextBase ==
  ASSUME Base, [Next]_vars
  PROVE  Base'
<1>1. /\ jobs \in Tables /\ admitted \in Seq(Keys) /\ Len(admitted) <= MaxJobs
      /\ MaxJobs \in Nat
  BY BoundedSequences, PolicyAssumption DEF Base, TypeOK, Tables
<1>2. CASE Quiet
  <2>1. AllSound(jobs)' /\ Listed'
    BY <1>2 DEF Quiet, AllMove, Moves, Lawful, AllSound, Base, Listed
  <2>2. session' # "removed" => \A k \in Keys : Filed(jobs'[k])
    BY <1>2 DEF Quiet, AllMove, Moves, Lawful, Base
  <2>3. TypeOK'
    BY <1>2 DEF Quiet, Tables, TypeOK, Base
  <2> QED
    BY <2>1, <2>2, <2>3 DEF Base
<1>3. ASSUME NEW k \in Keys, Admits(k) PROVE Base'
  <2>1. admitted' \in BoundedSeq(Keys, MaxJobs)
    <3>1. admitted' \in Seq(Keys) /\ Len(admitted') <= MaxJobs
      BY <1>1, <1>3 DEF Admits
    <3> QED
      BY <1>1, <3>1, BoundedSequences
  <2>2. Range(admitted') = Range(admitted) \cup {k}
    BY <1>1, <1>3, RangeAppend DEF Admits
  <2>3. Listed'
    BY <1>3, <2>2 DEF Admits, Moves, Base, Listed
  <2>4. AllSound(jobs)'
    BY <1>3 DEF Admits, Moves, Lawful, AllSound
  <2>5. \A j \in Keys : Filed(jobs'[j])
    BY <1>3 DEF Admits, Moves, Lawful, Base
  <2>6. TypeOK'
    BY <1>3, <2>1 DEF Admits, Tables, TypeOK
  <2> QED
    BY <2>3, <2>4, <2>5, <2>6 DEF Base
<1>4. CASE RemoveDirectory
  <2>1. \A k \in Keys :
          /\ jobs[k] \in Job /\ [jobs[k] EXCEPT !.files = "none"] \in Job
          /\ jobs'[k] = [jobs[k] EXCEPT !.files = "none"]
    BY <1>1, <1>4 DEF RemoveDirectory, Tables, Job
  <2>2. \A k \in Keys :
          /\ jobs'[k].state = jobs[k].state /\ jobs'[k].handle = jobs[k].handle
          /\ jobs'[k].process = jobs[k].process
    BY <2>1 DEF Job
  <2>3. AllSound(jobs)' /\ Listed'
    BY <1>4, <2>2 DEF RemoveDirectory, Base, AllSound, Sound, Listed
  <2>4. TypeOK'
    BY <1>4, <2>1 DEF RemoveDirectory, TypeOK, Base
  <2> QED
    BY <1>4, <2>3, <2>4 DEF Base, RemoveDirectory
<1> QED
  BY <1>2, <1>3, <1>4, NextSplits

\* However the operations of callers, the passes of the supervisor, the workers
\* and the clocks interleave, the table holds records of the right shape, at
\* most max_jobs of them are admitted, and a process belongs to a running job
\* and a receipt to a completed or an expired one (service.py).
THEOREM TypeCorrect == Spec => []TypeOK
<1>1. Init => Base
  BY InitBase
<1>2. Base /\ [Next]_vars => Base'
  BY NextBase
<1>3. Base => TypeOK
  BY DEF Base
<1> QED
  BY <1>1, <1>2, <1>3, PTL DEF Spec

LEMMA BaseAlways == Spec => []Base
<1>1. Init => Base
  BY InitBase
<1>2. Base /\ [Next]_vars => Base'
  BY NextBase
<1> QED
  BY <1>1, <1>2, PTL DEF Spec

-----------------------------------------------------------------------------
(* The first terminal state wins.                                          *)

FirstWins ==
  \A k \in Keys :
    /\ jobs[k].state \in TERMINAL =>
         jobs'[k].state \in {jobs[k].state, "expired"}
    /\ jobs[k].handle => jobs'[k].handle
    /\ jobs'[k].handle /\ ~jobs[k].handle => jobs'[k].state = "completed"
    /\ jobs'[k].state = "completed" /\ session' # "removed" =>
         jobs'[k].handle /\ jobs'[k].files = "valid"

LEMMA StepFirstWins ==
  ASSUME Base, [Next]_vars
  PROVE  FirstWins
<1>1. Base'
  BY NextBase
<1>2. ASSUME NEW k \in Keys
      PROVE  jobs'[k].state = "completed" /\ session' # "removed" =>
               jobs'[k].handle /\ jobs'[k].files = "valid"
  BY <1>1 DEF Base, AllSound, Sound, Filed
<1>3. CASE Quiet
  BY <1>2, <1>3 DEF Quiet, AllMove, Moves, Lawful, FirstWins
<1>4. ASSUME NEW k \in Keys, Admits(k) PROVE FirstWins
  BY <1>2, <1>4 DEF Admits, Moves, Lawful, FirstWins
<1>5. CASE RemoveDirectory
  <2>1. \A k \in Keys : jobs[k] \in Job /\ jobs'[k] = [jobs[k] EXCEPT !.files = "none"]
    BY <1>5 DEF RemoveDirectory, Base, TypeOK
  <2>2. \A k \in Keys : jobs'[k].state = jobs[k].state /\ jobs'[k].handle = jobs[k].handle
    BY <2>1 DEF Job
  <2> QED
    BY <1>2, <2>2 DEF FirstWins
<1> QED
  BY <1>3, <1>4, <1>5, NextSplits

\* Whatever races with the end of a job - a cancellation, its deadline, the exit
\* of its worker, close - the first terminal state stays, retention apart, and a
\* receipt is issued once, for a completed job whose result is there (_finish).
THEOREM TerminalStays == Spec => FirstTerminalWins
<1>1. Base /\ [Next]_vars => [FirstWins]_vars
  BY StepFirstWins
<1> QED
  BY <1>1, BaseAlways, PTL DEF Spec, FirstTerminalWins, FirstWins

-----------------------------------------------------------------------------
(* Nothing outlives close.                                                 *)

LEMMA InitClosed ==
  ASSUME Init
  PROVE  ClosedIsClean
BY DEF Init, ClosedIsClean

\* In a closed session no job can move to a pending state.
LEMMA NextClosed ==
  ASSUME Base, ClosedIsClean, [Next]_vars
  PROVE  ClosedIsClean'
<1>1. Base'
  BY NextBase
<1>2. session # "open" => \A k \in Keys : jobs[k].state \notin Pending
  BY DEF ClosedIsClean, Processes, In, Base, AllSound, Sound, Pending
<1>3. ASSUME session' # "open" => \A k \in Keys : jobs'[k].state \notin Pending,
             session' = "removed" => \A k \in Keys : jobs'[k].files = "none"
      PROVE  ClosedIsClean'
  BY <1>1, <1>3 DEF ClosedIsClean, Processes, In, Base, AllSound, Sound, Pending
<1>4. CASE Quiet
  <2>1. session' # "open" => \A k \in Keys : jobs'[k].state \notin Pending
    BY <1>2, <1>4 DEF Quiet, AllMove, Moves, Pending
  <2>2. session' = "removed" => \A k \in Keys : jobs'[k].files = "none"
    BY <1>4 DEF Quiet, AllMove, Moves, ClosedIsClean
  <2> QED
    BY <1>3, <2>1, <2>2
<1>5. ASSUME NEW k \in Keys, Admits(k) PROVE ClosedIsClean'
  BY <1>3, <1>5 DEF Admits
<1>6. CASE RemoveDirectory
  <2>1. \A k \in Keys : jobs[k] \in Job /\ jobs'[k] = [jobs[k] EXCEPT !.files = "none"]
    BY <1>6 DEF RemoveDirectory, Base, TypeOK
  <2>2. \A k \in Keys : jobs'[k].state = jobs[k].state /\ jobs'[k].files = "none"
    BY <2>1 DEF Job
  <2> QED
    BY <1>2, <1>3, <1>6, <2>2 DEF RemoveDirectory
<1> QED
  BY <1>4, <1>5, <1>6, NextSplits

\* Whoever was inside an operation, and wherever the worker processes were: when
\* close has begun none of them is left and no job waits for one, and when it
\* has returned no byte of the session is left (close).
THEOREM CloseLeavesNothing == Spec => []ClosedIsClean
<1>1. Init => ClosedIsClean
  BY InitClosed
<1>2. Base /\ ClosedIsClean /\ [Next]_vars => ClosedIsClean'
  BY NextClosed
<1> QED
  BY <1>1, <1>2, BaseAlways, PTL DEF Spec

-----------------------------------------------------------------------------
(* The queue is bounded, although a job is admitted to a full one when it  *)
(* can start at once.                                                      *)

LEMMA AdmittedFinite ==
  ASSUME Base, NEW state, state # "absent"
  PROVE  IsFiniteSet(In(jobs, state)) /\ Cardinality(In(jobs, state)) \in Nat
<1>1. admitted \in Seq(Keys)
  BY BoundedSequences, PolicyAssumption DEF Base, TypeOK
<1>2. In(jobs, state) \in SUBSET Range(admitted)
  BY DEF Base, Listed, In
<1> QED
  BY <1>1, <1>2, RangeFinite, FS_Subset, FS_CardinalityType

LEMMA QueueShrinks ==
  ASSUME Base, PendingBounded, In(jobs', "queued") \subseteq In(jobs, "queued")
  PROVE  PendingBounded'
<1>1. /\ IsFiniteSet(In(jobs, "queued")) /\ Cardinality(In(jobs, "queued")) \in Nat
      /\ In(jobs', "queued") \in SUBSET In(jobs, "queued")
  BY AdmittedFinite
<1>2. /\ Cardinality(In(jobs', "queued")) <= Cardinality(In(jobs, "queued"))
      /\ Cardinality(In(jobs', "queued")) \in Nat
  BY <1>1, FS_Subset, FS_CardinalityType
<1> QED
  BY <1>1, <1>2, PolicyAssumption DEF PendingBounded

\* Whether a job fits depends on the running jobs only.
LEMMA SameRoom ==
  ASSUME NEW t \in Tables, NEW u \in Tables, NEW memory \in Nat,
         IsFiniteSet(In(t, "running")), In(u, "running") = In(t, "running"),
         \A k \in In(t, "running") : u[k] = t[k]
  PROVE  CanStart(u, memory) <=> CanStart(t, memory)
<1> DEFINE a == [k \in Keys |-> t[k].memory]
           b == [k \in Keys |-> u[k].memory]
           S == In(t, "running")
<1>1. S \subseteq Keys /\ \A k \in S : a[k] = b[k] /\ a[k] \in Nat
  BY DEF In, Tables, Job
<1>2. Numbers(a, S)
  BY <1>1 DEF Numbers
<1>3. SumOf(a, S) = SumOf(b, S)
  <2> HIDE DEF a, b, S
  <2>1. IsFiniteSet(S) /\ \A k \in S : a[k] = b[k]
    BY <1>1 DEF S
  <2> QED
    BY <1>2, <2>1, SumAgree
<1>4. Memory(t, S) = SumOf(a, S) /\ Memory(u, S) = SumOf(b, S)
  BY DEF Memory, SumFunctionOnSet, SumOf
<1> QED
  BY <1>3, <1>4 DEF CanStart

LEMMA AcceptedPending ==
  ASSUME Base, PendingBounded, NEW k \in Keys, NEW limits \in Allowances, NEW trouble,
         Accepted(k, limits, trouble)
  PROVE  PendingBounded'
<1> DEFINE ready == Ready(trouble)
           t == Entered(k, limits, trouble)
           first == StartReady(t, admitted, trouble)
           waiting == In(ready, "queued")
<1>1. ready \in Tables /\ AllMove(jobs, ready) /\ jobs[k].state = "absent"
  BY ReadyMoves DEF Accepted
<1>2. /\ t \in Tables /\ t[k] = Fresh(limits)
      /\ \A j \in Keys \ {k} : t[j] = ready[j]
      /\ admitted \in Seq(Keys) /\ jobs' = StartReady(t, admitted', trouble)
      /\ Readied(t, jobs')
  BY EnteredReadied
<1>3. jobs' = Visit(first, k, trouble)
  BY <1>2, StartReadyLast DEF Accepted
<1>4. first \in Tables /\ Readied(t, first)
  BY <1>2, StartReadyEffect
<1>5. ready[k].state = "absent"
  BY <1>1 DEF AllMove, Moves
<1>6. ~QueueFull(ready, limits.memory)
  BY DEF Accepted
<1>7. Fresh(limits).state = "queued" /\ ~Fresh(limits).late /\ Fresh(limits) \in Job
      /\ Fresh(limits).memory = limits.memory
  BY FreshTyped
<1> HIDE DEF ready, t, first
\* The queue that _admission sees is bounded, and k is not in it yet.
<1>8. /\ waiting \subseteq In(jobs, "queued") /\ k \notin waiting
      /\ In(t, "queued") = waiting \cup {k}
  <2>1. waiting \subseteq In(jobs, "queued")
    BY <1>1 DEF AllMove, Moves, In
  <2>2. k \notin waiting
    BY <1>5 DEF In
  <2>3. \A j \in Keys : t[j].state = "queued" <=> j = k \/ ready[j].state = "queued"
    BY <1>2, <1>7
  <2> QED
    BY <2>1, <2>2, <2>3 DEF In
<1>9. /\ IsFiniteSet(waiting) /\ Cardinality(waiting) \in Nat
      /\ Cardinality(waiting) <= MaxQueued
  <2>1. IsFiniteSet(In(jobs, "queued")) /\ Cardinality(In(jobs, "queued")) \in Nat
    BY AdmittedFinite
  <2>2. IsFiniteSet(waiting) /\ Cardinality(waiting) <= Cardinality(In(jobs, "queued"))
    BY <1>8, <2>1, FS_Subset
  <2>3. Cardinality(waiting) \in Nat
    BY <2>2, FS_CardinalityType
  <2> QED
    BY <2>1, <2>2, <2>3, PolicyAssumption DEF PendingBounded
<1>10. \A j \in Keys : jobs'[j].state = "queued" => t[j].state = "queued" /\ jobs'[j] = t[j]
  BY <1>2, ReadiedKeeps
\* It is enough that one job of the new queue has left it.
<1>11. ASSUME NEW j \in waiting \cup {k}, jobs'[j].state # "queued" PROVE PendingBounded'
  <2>1. IsFiniteSet(waiting \cup {k}) /\ Cardinality(waiting \cup {k}) = Cardinality(waiting) + 1
    BY <1>8, <1>9, FS_AddElement
  <2>2. /\ IsFiniteSet((waiting \cup {k}) \ {j})
        /\ Cardinality((waiting \cup {k}) \ {j}) = Cardinality(waiting \cup {k}) - 1
    BY <1>11, <2>1, FS_RemoveElement
  <2>3. In(jobs', "queued") \in SUBSET ((waiting \cup {k}) \ {j})
    BY <1>8, <1>10, <1>11 DEF In
  <2>4. Cardinality(In(jobs', "queued")) <= Cardinality((waiting \cup {k}) \ {j})
        /\ Cardinality(In(jobs', "queued")) \in Nat
    BY <2>2, <2>3, FS_Subset, FS_CardinalityType
  <2> QED
    BY <1>9, <2>1, <2>2, <2>4, PolicyAssumption DEF PendingBounded
<1>12. CASE Cardinality(waiting) < MaxQueued
  <2>1. IsFiniteSet(waiting \cup {k}) /\ Cardinality(waiting \cup {k}) = Cardinality(waiting) + 1
    BY <1>8, <1>9, FS_AddElement
  <2>2. In(jobs', "queued") \in SUBSET (waiting \cup {k})
    BY <1>8, <1>10 DEF In
  <2>3. /\ Cardinality(In(jobs', "queued")) <= Cardinality(waiting \cup {k})
        /\ Cardinality(In(jobs', "queued")) \in Nat
    BY <2>1, <2>2, FS_Subset, FS_CardinalityType
  <2> QED
    BY <1>9, <1>12, <2>1, <2>3, PolicyAssumption DEF PendingBounded
\* A job that fits and finds everything as _admission saw it starts.
<1>13. CASE CanStart(ready, limits.memory)
  <2>1. CASE first = t
    <3>1. /\ In(t, "running") = In(ready, "running")
          /\ \A j \in In(ready, "running") : t[j] = ready[j]
      <4>1. \A j \in Keys : t[j].state = "running" <=> ready[j].state = "running"
        BY <1>2, <1>5, <1>7
      <4>2. \A j \in Keys : ready[j].state = "running" => t[j] = ready[j]
        BY <1>2, <1>5
      <4> QED
        BY <4>1, <4>2 DEF In
    <3>2. IsFiniteSet(In(ready, "running"))
      <4>1. In(ready, "running") \in SUBSET Range(admitted)
        BY <1>1 DEF AllMove, Moves, In, Base, Listed
      <4> QED
        BY <1>2, <4>1, RangeFinite, FS_Subset
    <3>3. limits.memory \in Nat
      BY <1>7 DEF Job
    <3>4. CanStart(t, limits.memory)
      BY <1>1, <1>2, <1>13, <3>1, <3>2, <3>3, SameRoom
    <3>5. \/ jobs' = [t EXCEPT ![k] = Finish(t[k], "failed")]
          \/ jobs' = [t EXCEPT ![k] = Started(t[k])]
      BY <1>2, <1>3, <1>7, <2>1, <3>4 DEF Visit, Started, Tables
    <3>6. jobs'[k] \in Outcomes(t[k])
      BY <1>2, <3>5 DEF Tables, Outcomes
    <3>7. jobs'[k].state # "queued"
      BY <1>2, <1>7, <3>6, OutcomeLeavesQueue
    <3> QED
      BY <1>11, <3>7
  <2>2. CASE first # t
    <3>1. PICK j \in Keys : first[j] # t[j]
      BY <1>2, <1>4, <2>2 DEF Tables
    <3>2. t[j].state = "queued" /\ first[j].state # "queued"
      BY <1>2, <1>4, <3>1, ReadiedKeeps
    <3>3. jobs'[j] = first[j]
      BY <1>3, <1>4, <3>2, VisitEffect
    <3>4. j \in waiting \cup {k}
      BY <1>8, <3>2 DEF In
    <3> QED
      BY <1>11, <3>2, <3>3, <3>4
  <2> QED
    BY <2>1, <2>2
<1>14. Cardinality(waiting) < MaxQueued \/ CanStart(ready, limits.memory)
  BY <1>6, <1>9, PolicyAssumption DEF QueueFull
<1> QED
  BY <1>12, <1>13, <1>14

LEMMA NextPending ==
  ASSUME Base, PendingBounded, [Next]_vars
  PROVE  PendingBounded'
<1>1. CASE Quiet
  <2>1. In(jobs', "queued") \subseteq In(jobs, "queued")
    BY <1>1 DEF Quiet, AllMove, Moves, In
  <2> QED
    BY <2>1, QueueShrinks
<1>2. ASSUME NEW k \in Requests, NEW limits \in Allowances, Submit(k, limits)
      PROVE  PendingBounded'
  <2>1. k \in Keys
    BY DEF Keys
  <2> QED
    BY <1>1, <1>2, <2>1, SubmitSplits, RefusedQuiet, AcceptedPending
<1>3. ASSUME NEW k \in Imports, Import(k) PROVE PendingBounded'
  <2>1. Admits(k) /\ jobs'[k].state = "completed"
    BY <1>3, ImportAdmits
  <2>2. In(jobs', "queued") \subseteq In(jobs, "queued")
    BY <2>1 DEF Admits, Moves, In
  <2> QED
    BY <2>2, QueueShrinks
<1>4. CASE RemoveDirectory
  <2>1. \A k \in Keys : jobs[k] \in Job /\ jobs'[k] = [jobs[k] EXCEPT !.files = "none"]
    BY <1>4 DEF RemoveDirectory, Base, TypeOK
  <2>2. \A k \in Keys : jobs'[k].state = jobs[k].state
    BY <2>1 DEF Job
  <2>3. In(jobs', "queued") \subseteq In(jobs, "queued")
    BY <2>2 DEF In
  <2> QED
    BY <2>3, QueueShrinks
<1>5. CASE UNCHANGED vars
  BY <1>5, QueueShrinks DEF vars
<1> QED
  BY <1>1, <1>2, <1>3, <1>4, <1>5, SweepingQuiet DEF Next, Sweeping

LEMMA InitPending ==
  ASSUME Init
  PROVE  PendingBounded
<1>1. In(jobs, "queued") = {}
  BY DEF Init, In, Absent
<1> QED
  BY <1>1, FS_EmptySet, PolicyAssumption DEF PendingBounded

\* No more than max_queued jobs wait, although _admission lets one into a full
\* queue when it could start at once: either the second call of _start_ready
\* takes another job from the queue, or it leaves the running jobs as they were
\* and the last job it visits, the new one, starts or fails.
THEOREM QueueNeverExceeds == Spec => []PendingBounded
<1>1. Init => PendingBounded
  BY InitPending
<1>2. Base /\ PendingBounded /\ [Next]_vars => PendingBounded'
  BY NextPending
<1> QED
  BY <1>1, <1>2, BaseAlways, PTL DEF Spec

-----------------------------------------------------------------------------
(* The other limits of the policy: running jobs, their memory, the bytes   *)
(* reserved for results.                                                   *)

Active(t) == {k \in Keys : t[k].state \in Pending}

Capped(t) ==
  /\ IsFiniteSet(Active(t))
  /\ Cardinality(In(t, "running")) <= MaxRunning
  /\ Memory(t, In(t, "running")) <= MaxMemory

LEMMA MemorySums ==
  ASSUME NEW t \in Tables, NEW S \in SUBSET Keys, IsFiniteSet(S)
  PROVE  /\ Memory(t, S) \in Nat /\ Output(t, S) \in Nat
         /\ \A P \in SUBSET S : Memory(t, P) <= Memory(t, S) /\ Output(t, P) <= Output(t, S)
         /\ \A k \in Keys \ S :
              /\ Memory(t, S \cup {k}) = Memory(t, S) + t[k].memory
              /\ Output(t, S \cup {k}) = Output(t, S) + t[k].output
         /\ \A u \in Tables :
              /\ (\A k \in S : u[k].memory = t[k].memory) => Memory(u, S) = Memory(t, S)
              /\ (\A k \in S : u[k].output = t[k].output) => Output(u, S) = Output(t, S)
<1> DEFINE a(u) == [k \in Keys |-> u[k].memory]
           b(u) == [k \in Keys |-> u[k].output]
<1>1. \A u, P : Memory(u, P) = SumOf(a(u), P) /\ Output(u, P) = SumOf(b(u), P)
  BY DEF Memory, Output, SumFunctionOnSet, SumOf
<1>2. \A u \in Tables, k \in Keys :
        /\ a(u)[k] = u[k].memory /\ a(u)[k] \in Nat
        /\ b(u)[k] = u[k].output /\ b(u)[k] \in Nat
  BY DEF Tables, Job
<1> HIDE DEF a, b
<1>3. \A u \in Tables : Numbers(a(u), S) /\ Numbers(b(u), S)
  BY <1>2 DEF Numbers
<1>4. Memory(t, S) \in Nat /\ Output(t, S) \in Nat
  BY <1>1, <1>3, SumType
<1>5. ASSUME NEW P \in SUBSET S
      PROVE  Memory(t, P) <= Memory(t, S) /\ Output(t, P) <= Output(t, S)
  BY <1>1, <1>3, SumMonotone
<1>6. ASSUME NEW k \in Keys \ S
      PROVE  /\ Memory(t, S \cup {k}) = Memory(t, S) + t[k].memory
             /\ Output(t, S \cup {k}) = Output(t, S) + t[k].output
  <2>1. SumOf(a(t), S \cup {k}) = SumOf(a(t), S) + a(t)[k]
    BY <1>2, <1>3, SumAdd
  <2>2. SumOf(b(t), S \cup {k}) = SumOf(b(t), S) + b(t)[k]
    BY <1>2, <1>3, SumAdd
  <2> QED
    BY <1>1, <1>2, <2>1, <2>2
<1>7. ASSUME NEW u \in Tables, \A k \in S : u[k].memory = t[k].memory
      PROVE  Memory(u, S) = Memory(t, S)
  <2>1. \A k \in S : a(u)[k] = a(t)[k]
    BY <1>2, <1>7
  <2>2. SumOf(a(u), S) = SumOf(a(t), S)
    BY <1>3, <2>1, SumAgree
  <2> QED
    BY <1>1, <2>2
<1>8. ASSUME NEW u \in Tables, \A k \in S : u[k].output = t[k].output
      PROVE  Output(u, S) = Output(t, S)
  <2>1. \A k \in S : b(u)[k] = b(t)[k]
    BY <1>2, <1>8
  <2>2. SumOf(b(u), S) = SumOf(b(t), S)
    BY <1>3, <2>1, SumAgree
  <2> QED
    BY <1>1, <2>2
<1> QED
  BY <1>4, <1>5, <1>6, <1>7, <1>8

LEMMA ActiveParts ==
  ASSUME NEW t, IsFiniteSet(Active(t)), NEW S \in SUBSET Active(t)
  PROVE  IsFiniteSet(S) /\ Cardinality(S) \in Nat
BY FS_Subset, FS_CardinalityType

\* A table in which nothing was started stays within the caps.
LEMMA CappedKept ==
  ASSUME NEW t \in Tables, NEW u \in Tables, Capped(t),
         \A k \in Keys : u[k].state \in Pending => t[k].state \in Pending,
         \A k \in Keys : u[k].state = "running" =>
           t[k].state = "running" /\ u[k].memory = t[k].memory
  PROVE  Capped(u)
<1> DEFINE S == In(t, "running")
           P == In(u, "running")
<1>1. P \in SUBSET S /\ S \in SUBSET Active(t) /\ S \in SUBSET Keys /\ P \in SUBSET Keys
  BY DEF In, Active, Pending
<1>2. Active(u) \in SUBSET Active(t)
  BY DEF Active
<1>3. /\ IsFiniteSet(Active(u)) /\ IsFiniteSet(S) /\ IsFiniteSet(P)
      /\ Cardinality(S) \in Nat /\ Cardinality(P) \in Nat /\ Cardinality(P) <= Cardinality(S)
  <2> HIDE DEF S, P
  <2> QED
    BY <1>1, <1>2, FS_Subset, FS_CardinalityType DEF Capped
<1>4. \A k \in P : u[k].memory = t[k].memory
  BY DEF In
<1>5. Memory(u, P) \in Nat /\ Memory(t, S) \in Nat /\ Memory(u, P) <= Memory(t, S)
  <2> HIDE DEF S, P
  <2>1. Memory(t, S) \in Nat /\ Memory(t, P) <= Memory(t, S)
    BY <1>1, <1>3, MemorySums
  <2>2. Memory(u, P) = Memory(t, P) /\ Memory(t, P) \in Nat
    BY <1>1, <1>3, <1>4, MemorySums
  <2> QED
    BY <2>1, <2>2
<1> QED
  BY <1>3, <1>5, PolicyAssumption DEF Capped

\* One visit: a job that is started fits.
LEMMA VisitCapped ==
  ASSUME NEW t \in Tables, Capped(t), NEW k \in Keys, NEW trouble
  PROVE  Capped(Visit(t, k, trouble))
<1> DEFINE u == Visit(t, k, trouble)
           S == In(t, "running")
<1>1. /\ u \in Tables
      /\ \A j \in Keys : u[j] # t[j] =>
           j = k /\ t[k].state = "queued" /\ u[k] \in Outcomes(t[k])
  BY VisitEffect
<1>2. t[k] \in Job
  BY DEF Tables
<1>3. \/ u = t
      \/ t[k].state = "queued" /\ u[k] \in {Finish(t[k], "expired"), Finish(t[k], "failed")}
      \/ t[k].state = "queued" /\ u[k] = Started(t[k]) /\ CanStart(t, t[k].memory)
  BY DEF Visit, Tables, Started
<1> HIDE DEF u
<1>4. CASE u = t
  BY <1>4 DEF u
<1>5. CASE t[k].state = "queued" /\ u[k] \in {Finish(t[k], "expired"), Finish(t[k], "failed")}
  <2>1. u[k].state \in {"expired", "failed"}
    BY <1>2, <1>5, FinishState DEF TERMINAL
  <2>2. \A j \in Keys : u[j].state \in Pending => u[j] = t[j]
    BY <1>1, <2>1 DEF Pending
  <2>3. Capped(u)
    BY <1>1, <2>2, CappedKept DEF Pending
  <2> QED
    BY <2>3 DEF u
<1>6. CASE t[k].state = "queued" /\ u[k] = Started(t[k]) /\ CanStart(t, t[k].memory)
  <2>1. u[k].state = "running" /\ u[k].memory = t[k].memory /\ t[k].memory \in Nat
    BY <1>2, <1>6 DEF Started, Job
  <2>2. Active(u) = Active(t) /\ k \notin S /\ In(u, "running") = S \cup {k}
    <3>1. \A j \in Keys : u[j].state \in Pending <=> t[j].state \in Pending
      BY <1>1, <1>6, <2>1 DEF Pending
    <3>2. \A j \in Keys : u[j].state = "running" <=> j = k \/ t[j].state = "running"
      BY <1>1, <2>1
    <3> QED
      BY <1>6, <3>1, <3>2 DEF Active, In
  <2>3. S \in SUBSET Active(t) /\ S \in SUBSET Keys
    BY DEF In, Active, Pending
  <2>4. \A j \in S : u[j].memory = t[j].memory
    BY <1>1, <2>1 DEF In
  <2>a. Cardinality(S) < MaxRunning /\ Memory(t, S) + t[k].memory <= MaxMemory
    BY <1>6 DEF CanStart
  <2> HIDE DEF S
  <2>5. IsFiniteSet(S) /\ Cardinality(S) \in Nat
    BY <2>3, ActiveParts DEF Capped
  <2>6. Cardinality(S \cup {k}) = Cardinality(S) + 1
    BY <2>2, <2>5, FS_AddElement
  <2>7. Memory(u, S \cup {k}) = Memory(u, S) + u[k].memory
    BY <1>1, <2>2, <2>3, <2>5, MemorySums
  <2>8. Memory(u, S) = Memory(t, S)
    BY <1>1, <2>3, <2>4, <2>5, MemorySums
  <2>9. Capped(u)
    BY <2>1, <2>2, <2>a, <2>5, <2>6, <2>7, <2>8, PolicyAssumption DEF Capped
  <2> QED
    BY <2>9 DEF u
<1> QED
  BY <1>3, <1>4, <1>5, <1>6

LEMMA StartReadyCapped ==
  ASSUME NEW table \in Tables, Capped(table), NEW order \in Seq(Keys), NEW trouble
  PROVE  Capped(StartReady(table, order, trouble))
<1> DEFINE n == Len(order)
<1>1. PICK run : Runs(run, table, order, trouble) /\ StartReady(table, order, trouble) = run[n]
  BY StartReadyRuns
<1> DEFINE Good == {i \in Nat : i <= n => Capped(run[i])}
<1>0. n \in Nat
  OBVIOUS
<1>2. 0 \in Good
  BY <1>1 DEF Runs
<1>3. ASSUME NEW i \in Nat, i \in Good PROVE i + 1 \in Good
  <2>1. SUFFICES ASSUME i + 1 <= n PROVE Capped(run[i + 1])
    OBVIOUS
  <2>2. i \in 0..n /\ i + 1 \in 1..n /\ (i + 1) - 1 = i /\ Capped(run[i])
    BY <1>0, <1>3, <2>1
  <2>3. run[i] \in Tables /\ order[i + 1] \in Keys
    BY <1>1, <2>2, RunsTyped
  <2>4. run[i + 1] = Visit(run[i], order[i + 1], trouble)
    BY <1>1, <2>2 DEF Runs
  <2> QED
    BY <2>2, <2>3, <2>4, VisitCapped
<1>4. n \in Good
  <2> HIDE DEF Good
  <2> QED
    BY <1>0, <1>2, <1>3, NatSetInduction
<1> QED
  BY <1>0, <1>1, <1>4

LEMMA ExpireCapped ==
  ASSUME NEW t \in Tables, Capped(t)
  PROVE  Expire(t) \in Tables /\ Capped(Expire(t))
<1>1. \A k \in Keys : t[k] \in Job
  BY DEF Tables
<1>2. Expire(t) \in Tables
  BY ExpireEffect
<1>3. \A k \in Keys : Expire(t)[k].state \in Pending => Expire(t)[k] = t[k]
  BY <1>1, ExpireEffect, FinishState DEF TERMINAL, Pending
<1> QED
  BY <1>2, <1>3, CappedKept DEF Pending

LEMMA SweepCapped ==
  ASSUME NEW t \in Tables, Capped(t), NEW trouble
  PROVE  Sweep(t, trouble) \in Tables /\ Capped(Sweep(t, trouble))
<1>1. \A k \in Keys : t[k] \in Job
  BY DEF Tables
<1>2. Sweep(t, trouble) \in Tables
  BY SweepEffect
<1>3. \A k \in Keys : Sweep(t, trouble)[k].state \in Pending => Sweep(t, trouble)[k] = t[k]
  BY <1>1, SweepEffect, FinishState DEF TERMINAL, Pending
<1> QED
  BY <1>2, <1>3, CappedKept DEF Pending

LEMMA ReadyCapped ==
  ASSUME Base, Capped(jobs), NEW trouble
  PROVE  Capped(Ready(trouble))
<1>1. jobs \in Tables /\ admitted \in Seq(Keys)
  BY BoundedSequences, PolicyAssumption DEF Base, TypeOK, Tables
<1>2. Expire(jobs) \in Tables /\ Capped(Expire(jobs))
  BY <1>1, ExpireCapped
<1> QED
  BY <1>1, <1>2, StartReadyCapped DEF Ready

LEMMA AcceptedCapped ==
  ASSUME Base, Capped(jobs), NEW k \in Keys, NEW limits \in Allowances, NEW trouble,
         Accepted(k, limits, trouble)
  PROVE  Capped(jobs')
<1> DEFINE ready == Ready(trouble)
           t == Entered(k, limits, trouble)
<1>1. ready \in Tables /\ Capped(ready)
  BY ReadyMoves, ReadyCapped
<1>2. /\ t \in Tables /\ t[k] = Fresh(limits) /\ \A j \in Keys \ {k} : t[j] = ready[j]
      /\ admitted' \in Seq(Keys) /\ jobs' = StartReady(t, admitted', trouble)
  BY EnteredReadied
<1>3. t[k].state = "queued"
  BY <1>2, FreshTyped
<1> HIDE DEF ready, t
<1>4. Active(t) \subseteq Active(ready) \cup {k}
  BY <1>2 DEF Active
<1>5. IsFiniteSet(Active(t))
  BY <1>1, <1>4, FS_AddElement, FS_Subset DEF Capped
<1>6. In(t, "running") \subseteq In(ready, "running")
  BY <1>2, <1>3 DEF In
\* The new job waits in it, the others are as they were.
<1>7. Capped(t)
  <2> DEFINE S == In(ready, "running")
             P == In(t, "running")
  <2>1. P \in SUBSET S /\ S \in SUBSET Active(ready) /\ S \in SUBSET Keys /\ P \in SUBSET Keys
    BY <1>6 DEF In, Active, Pending
  <2>2. \A j \in P : t[j].memory = ready[j].memory
    BY <1>2, <1>3 DEF In
  <2>a. /\ Cardinality(S) <= MaxRunning /\ Memory(ready, S) <= MaxMemory
        /\ IsFiniteSet(Active(ready))
    BY <1>1 DEF Capped
  <2> HIDE DEF S, P
  <2>3. /\ IsFiniteSet(S) /\ IsFiniteSet(P) /\ Cardinality(S) \in Nat
        /\ Cardinality(P) \in Nat /\ Cardinality(P) <= Cardinality(S)
    BY <2>1, <2>a, FS_Subset, FS_CardinalityType
  <2>4. Memory(ready, S) \in Nat /\ Memory(ready, P) \in Nat /\ Memory(ready, P) <= Memory(ready, S)
    BY <1>1, <2>1, <2>3, MemorySums
  <2>5. Memory(t, P) = Memory(ready, P)
    BY <1>1, <1>2, <2>1, <2>2, <2>3, MemorySums
  <2>6. Cardinality(P) <= MaxRunning /\ Memory(t, P) <= MaxMemory
    BY <2>a, <2>3, <2>4, <2>5, PolicyAssumption
  <2> QED
    BY <1>5, <2>6 DEF Capped, P
<1> QED
  BY <1>2, <1>7, StartReadyCapped

LEMMA NextCapped ==
  ASSUME Base, Capped(jobs), [Next]_vars
  PROVE  Capped(jobs')
<1>1. jobs \in Tables /\ jobs' \in Tables /\ admitted \in Seq(Keys)
  <2>1. Base'
    BY NextBase
  <2> QED
    BY <2>1, BoundedSequences, PolicyAssumption DEF Base, TypeOK, Tables
\* Most steps start nothing.
<1>2. ASSUME \A k \in Keys : jobs'[k].state \in Pending =>
               jobs'[k].state = jobs[k].state /\ jobs'[k].memory = jobs[k].memory
      PROVE  Capped(jobs')
  BY <1>1, <1>2, CappedKept DEF Pending
<1>3. ASSUME NEW k \in Requests, NEW limits \in Allowances, Submit(k, limits)
      PROVE  Capped(jobs')
  <2>1. k \in Keys
    BY DEF Keys
  <2> QED
    BY <1>3, <2>1, SubmitSplits, ReadyCapped, AcceptedCapped DEF Refused
<1>4. ASSUME NEW k \in Imports, Import(k) PROVE Capped(jobs')
  <2>1. Expire(jobs) \in Tables /\ Capped(Expire(jobs))
    BY <1>1, ExpireCapped
  <2>2. jobs'[k].state = "completed" /\ k \in Keys
    BY <1>4, ImportAdmits DEF Keys
  <2>3. \A j \in Keys \ {k} : jobs'[j] = Expire(jobs)[j]
    BY <1>4, <2>1 DEF Import, Tables
  <2>4. \A j \in Keys : jobs'[j].state \in Pending => jobs'[j] = Expire(jobs)[j]
    BY <2>2, <2>3 DEF Pending
  <2> QED
    BY <1>1, <2>1, <2>4, CappedKept DEF Pending
<1>5. ASSUME NEW k \in Keys, Cancel(k) PROVE Capped(jobs')
  <2>1. Expire(jobs) \in Tables /\ Capped(Expire(jobs))
    BY <1>1, ExpireCapped
  <2>2. /\ \A j \in Keys \ {k} : jobs'[j] = Expire(jobs)[j]
        /\ jobs'[k] = IF Expire(jobs)[k].state \in Pending
                      THEN Finish(Expire(jobs)[k], "cancelled") ELSE Expire(jobs)[k]
    BY <1>5, <2>1 DEF Cancel, Tables
  <2>3. Expire(jobs)[k] \in Job
    BY <2>1 DEF Tables
  <2>4. jobs'[k].state \notin Pending \/ jobs'[k] = Expire(jobs)[k]
    BY <2>2, <2>3, FinishState DEF TERMINAL, Pending
  <2>5. \A j \in Keys : jobs'[j].state \in Pending => jobs'[j] = Expire(jobs)[j]
    BY <2>2, <2>4
  <2> QED
    BY <1>1, <2>1, <2>5, CappedKept DEF Pending
<1>6. ASSUME NEW k \in Keys, NEW new \in Job, jobs' = [jobs EXCEPT ![k] = new],
             new.state = jobs[k].state, new.memory = jobs[k].memory
      PROVE  Capped(jobs')
  <2>1. \A j \in Keys : jobs'[j].state = jobs[j].state /\ jobs'[j].memory = jobs[j].memory
    BY <1>1, <1>6 DEF Tables
  <2> QED
    BY <1>2, <2>1
<1>a. \A k \in Keys : jobs[k] \in Job
  BY <1>1 DEF Tables
<1>7. ASSUME NEW k \in Keys, WorkerWrites(k) PROVE Capped(jobs')
  <2> DEFINE new == [jobs[k] EXCEPT !.files = "valid"]
  <2>1. new \in Job /\ new.state = jobs[k].state /\ new.memory = jobs[k].memory
    BY <1>a DEF Job
  <2>2. jobs' = [jobs EXCEPT ![k] = new]
    BY <1>7 DEF WorkerWrites
  <2> QED
    BY <1>6, <2>1, <2>2
<1>8. ASSUME NEW k \in Keys, WorkerExits(k) PROVE Capped(jobs')
  <2> DEFINE new == [jobs[k] EXCEPT !.process = "exit 0"]
  <2>1. new \in Job /\ new.state = jobs[k].state /\ new.memory = jobs[k].memory
    BY <1>a DEF Job
  <2>2. jobs' = [jobs EXCEPT ![k] = new]
    BY <1>8 DEF WorkerExits
  <2> QED
    BY <1>6, <2>1, <2>2
<1>9. ASSUME NEW k \in Keys, WorkerDies(k) PROVE Capped(jobs')
  <2> DEFINE new == [jobs[k] EXCEPT !.process = "exit 1"]
  <2>1. new \in Job /\ new.state = jobs[k].state /\ new.memory = jobs[k].memory
    BY <1>a DEF Job
  <2>2. jobs' = [jobs EXCEPT ![k] = new]
    BY <1>9 DEF WorkerDies
  <2> QED
    BY <1>6, <2>1, <2>2
<1>10. ASSUME NEW k \in Keys, DeadlinePasses(k) PROVE Capped(jobs')
  <2> DEFINE new == [jobs[k] EXCEPT !.late = TRUE]
  <2>1. new \in Job /\ new.state = jobs[k].state /\ new.memory = jobs[k].memory
    BY <1>a DEF Job
  <2>2. jobs' = [jobs EXCEPT ![k] = new]
    BY <1>10 DEF DeadlinePasses
  <2> QED
    BY <1>6, <2>1, <2>2
<1>11. ASSUME NEW k \in Keys, RetentionPasses(k) PROVE Capped(jobs')
  <2> DEFINE new == [jobs[k] EXCEPT !.aged = TRUE]
  <2>1. new \in Job /\ new.state = jobs[k].state /\ new.memory = jobs[k].memory
    BY <1>a DEF Job
  <2>2. jobs' = [jobs EXCEPT ![k] = new]
    BY <1>11 DEF RetentionPasses
  <2> QED
    BY <1>6, <2>1, <2>2
<1>12. CASE Access
  BY <1>1, <1>12, ExpireCapped DEF Access
<1>13. CASE Close
  <2>1. \A k \in Keys : jobs'[k].state \in Pending => jobs'[k] = jobs[k]
    <3>1. \A k \in Keys : Finish(jobs[k], "cancelled").state = "cancelled"
      BY <1>a, FinishState DEF TERMINAL
    <3> QED
      BY <1>13, <3>1 DEF Close, Pending
  <2> QED
    BY <1>2, <2>1
<1>14. CASE RemoveDirectory
  <2>1. \A k \in Keys : jobs'[k] = [jobs[k] EXCEPT !.files = "none"]
    BY <1>14 DEF RemoveDirectory
  <2>2. \A k \in Keys : jobs'[k].state = jobs[k].state /\ jobs'[k].memory = jobs[k].memory
    BY <1>a, <2>1 DEF Job
  <2> QED
    BY <1>2, <2>2
<1>15. CASE Advance
  <2>1. PICK trouble \in Troubles :
          jobs' = StartReady(Sweep(Expire(jobs), trouble), admitted, trouble)
    BY <1>15 DEF Advance
  <2> DEFINE e == Expire(jobs)
             w == Sweep(e, trouble)
  <2>2. e \in Tables /\ Capped(e)
    BY <1>1, ExpireCapped
  <2> HIDE DEF e
  <2>3. w \in Tables /\ Capped(w)
    BY <2>2, SweepCapped
  <2> HIDE DEF w
  <2>4. Capped(StartReady(w, admitted, trouble))
    BY <1>1, <2>3, StartReadyCapped
  <2> QED
    BY <2>1, <2>4 DEF e, w
<1>16. CASE SupervisorEnds \/ UNCHANGED vars
  BY <1>16 DEF SupervisorEnds, vars
<1> QED
  BY <1>3, <1>4, <1>5, <1>7, <1>8, <1>9, <1>10, <1>11, <1>12, <1>13, <1>14, <1>15, <1>16
     DEF Next

LEMMA InitCapped ==
  ASSUME Init
  PROVE  Capped(jobs)
<1>1. Active(jobs) = {} /\ In(jobs, "running") = {}
  BY DEF Init, In, Active, Absent, Pending
<1>2. Memory(jobs, {}) = 0
  BY SumEmpty DEF Memory, SumFunctionOnSet, SumOf
<1> QED
  BY <1>1, <1>2, FS_EmptySet, PolicyAssumption DEF Capped

\* What is reserved for results: everything admitted that retention has not taken.
Reserved(t, keys) == keys \ In(t, "expired")
Retained(t, keys) == Output(t, Reserved(t, keys)) <= MaxRetained

LEMMA NextRetained ==
  ASSUME Base, Retained(jobs, Range(admitted)), [Next]_vars
  PROVE  Retained(jobs, Range(admitted))'
<1>1. /\ jobs \in Tables /\ jobs' \in Tables /\ admitted \in Seq(Keys)
      /\ IsFiniteSet(Range(admitted)) /\ Range(admitted) \in SUBSET Keys
  <2>1. Base'
    BY NextBase
  <2>2. admitted \in Seq(Keys)
    BY BoundedSequences, PolicyAssumption DEF Base, TypeOK
  <2>3. Range(admitted) \in SUBSET Keys
    BY <2>2 DEF Range
  <2> QED
    BY <2>1, <2>2, <2>3, RangeFinite DEF Base, TypeOK, Tables
\* Outputs do not change, and what has expired stays so.
<1>2. ASSUME admitted' = admitted,
             \A k \in Keys : jobs'[k].output = jobs[k].output,
             \A k \in Keys : jobs[k].state = "expired" => jobs'[k].state = "expired"
      PROVE  Retained(jobs, Range(admitted))'
  <2> DEFINE S == Reserved(jobs, Range(admitted))
             P == Reserved(jobs', Range(admitted))
  <2>1. S \in SUBSET Range(admitted) /\ S \in SUBSET Keys
    BY <1>1 DEF Reserved
  <2>2. P \in SUBSET S
    BY <1>1, <1>2 DEF Reserved, In
  <2>a. Output(jobs, S) <= MaxRetained
    BY DEF Retained
  <2>b. Retained(jobs, Range(admitted))' <=> Output(jobs', P) <= MaxRetained
    BY <1>2 DEF Retained
  <2> HIDE DEF S, P
  <2>3. IsFiniteSet(S) /\ IsFiniteSet(P) /\ P \in SUBSET Keys
    BY <1>1, <2>1, <2>2, FS_Subset
  <2>4. Output(jobs, S) \in Nat /\ Output(jobs, P) \in Nat /\ Output(jobs, P) <= Output(jobs, S)
    BY <1>1, <2>1, <2>2, <2>3, MemorySums
  <2>5. Output(jobs', P) = Output(jobs, P)
    BY <1>1, <1>2, <2>3, MemorySums
  <2> QED
    BY <2>a, <2>b, <2>4, <2>5, PolicyAssumption
\* An admission was tested on a table t of which it keeps the other jobs.
<1>3. ASSUME NEW k \in Keys, NEW t \in Tables, AllMove(jobs, t),
             jobs[k].state = "absent", admitted' = Append(admitted, k),
             \A j \in Keys \ {k} : t[j].state = "expired" => jobs'[j].state = "expired",
             \A j \in Keys \ {k} : jobs'[j].output = t[j].output,
             Roomy(t, jobs'[k].output)
      PROVE  Retained(jobs, Range(admitted))'
  <2> DEFINE S == Reserved(t, Range(admitted))
             P == Reserved(jobs', Range(admitted'))
  <2>1. Output(t, S) + jobs'[k].output <= MaxRetained
    BY <1>3 DEF Roomy, Reserved
  <2>2. k \notin Range(admitted) /\ Range(admitted') = Range(admitted) \cup {k}
    BY <1>1, <1>3, RangeAppend DEF Base, Listed
  <2>3. S \in SUBSET Range(admitted) /\ S \in SUBSET Keys /\ k \notin S
    BY <1>1, <2>2 DEF Reserved
  <2>4. P \in SUBSET (S \cup {k}) /\ S \cup {k} \in SUBSET Keys
    BY <1>1, <1>3, <2>2, <2>3 DEF Reserved, In
  <2>a. Retained(jobs, Range(admitted))' <=> Output(jobs', P) <= MaxRetained
    BY DEF Retained
  <2>5. \A j \in S : jobs'[j].output = t[j].output
    BY <1>3, <2>3
  <2> HIDE DEF S, P
  <2>6. IsFiniteSet(S) /\ IsFiniteSet(S \cup {k})
    BY <1>1, <2>3, FS_Subset, FS_AddElement
  <2>7. Output(jobs', S) = Output(t, S)
    BY <1>1, <1>3, <2>3, <2>5, <2>6, MemorySums
  <2>8. Output(jobs', S \cup {k}) = Output(jobs', S) + jobs'[k].output
    BY <1>1, <2>3, <2>6, MemorySums
  <2>9. /\ Output(jobs', S \cup {k}) \in Nat /\ Output(jobs', P) \in Nat
        /\ Output(jobs', P) <= Output(jobs', S \cup {k})
    <3>1. IsFiniteSet(P) /\ P \in SUBSET Keys
      BY <2>4, <2>6, FS_Subset
    <3> QED
      BY <1>1, <2>4, <2>6, <3>1, MemorySums
  <2> QED
    BY <2>1, <2>a, <2>7, <2>8, <2>9, PolicyAssumption
<1>4. CASE Quiet
  BY <1>2, <1>4 DEF Quiet, AllMove, Moves, Lawful, TERMINAL
<1>5. CASE RemoveDirectory
  <2>1. \A k \in Keys : jobs[k] \in Job /\ jobs'[k] = [jobs[k] EXCEPT !.files = "none"]
    BY <1>5 DEF RemoveDirectory, Base, TypeOK
  <2>2. \A k \in Keys : jobs'[k].state = jobs[k].state /\ jobs'[k].output = jobs[k].output
    BY <2>1 DEF Job
  <2> QED
    BY <1>2, <1>5, <2>2 DEF RemoveDirectory
<1>6. ASSUME NEW k \in Imports, Import(k) PROVE Retained(jobs, Range(admitted))'
  <2> DEFINE e == Expire(jobs)
  <2>1. k \in Keys /\ e \in Tables /\ AllMove(jobs, e)
    BY <1>1, ExpireMoves DEF Base, Keys
  <2>2. jobs' = [e EXCEPT ![k] = [Absent EXCEPT !.state = "completed",
                   !.files = "valid", !.handle = TRUE, !.output = OutputCap]]
    BY <1>6 DEF Import
  <2>3. Roomy(e, OutputCap) /\ jobs[k].state = "absent" /\ admitted' = Append(admitted, k)
    BY <1>6 DEF Import
  <2> HIDE DEF e
  <2>4. jobs'[k].output = OutputCap /\ \A j \in Keys \ {k} : jobs'[j] = e[j]
    BY <2>1, <2>2 DEF Tables, Absent
  <2> QED
    BY <1>3, <2>1, <2>3, <2>4
<1>7. ASSUME NEW k \in Requests, NEW limits \in Allowances, Submit(k, limits)
      PROVE  Retained(jobs, Range(admitted))'
  <2>0. k \in Keys
    BY DEF Keys
  <2>1. PICK trouble \in Troubles : Refused(trouble) \/ Accepted(k, limits, trouble)
    BY <1>7, SubmitSplits
  <2>2. CASE Refused(trouble)
    BY <1>4, <2>2, RefusedQuiet
  <2>3. CASE Accepted(k, limits, trouble)
    <3> DEFINE ready == Ready(trouble)
               t == Entered(k, limits, trouble)
    <3>1. ready \in Tables /\ AllMove(jobs, ready)
      BY ReadyMoves
    <3>2. /\ t \in Tables /\ \A j \in Keys \ {k} : t[j] = ready[j]
          /\ Readied(t, jobs')
      BY <2>0, <2>3, EnteredReadied
    <3>3. /\ jobs[k].state = "absent" /\ admitted' = Append(admitted, k)
          /\ Roomy(ready, limits.output)
      BY <2>3 DEF Accepted
    <3>4. jobs'[k].output = limits.output /\ Admits(k)
      BY <2>0, <2>3, AcceptedAdmits
    <3> HIDE DEF ready, t
    <3>5. \A j \in Keys \ {k} : ready[j].state = "expired" => jobs'[j].state = "expired"
      BY <3>2, ReadiedKeeps
    <3>6. \A j \in Keys \ {k} : jobs'[j].output = ready[j].output
      BY <3>1, <3>4 DEF Admits, AllMove, Moves
    <3> QED
      BY <1>3, <2>0, <3>1, <3>3, <3>4, <3>5, <3>6
  <2> QED
    BY <2>1, <2>2, <2>3
<1>8. CASE UNCHANGED vars
  BY <1>2, <1>8 DEF vars
<1> QED
  BY <1>4, <1>5, <1>6, <1>7, <1>8, SweepingQuiet DEF Next, Sweeping

LEMMA InitRetained ==
  ASSUME Init
  PROVE  Retained(jobs, Range(admitted))
<1>1. Reserved(jobs, Range(admitted)) = {}
  BY DEF Init, Range, Reserved
<1>2. Output(jobs, {}) = 0
  BY SumEmpty DEF Output, SumFunctionOnSet, SumOf
<1> QED
  BY <1>1, <1>2, PolicyAssumption DEF Retained

\* All the limits of the policy hold together: every visit of _start_ready adds
\* a job that fits in what the visits before it left, a worker that is there
\* belongs to a running job, and the bytes of a job are counted from its admission
\* until retention takes it (_admission, _start_ready, _reap_worker, _expire).
THEOREM PolicyNeverBroken == Spec => []PolicyRespected
<1>1. Init => Capped(jobs) /\ Retained(jobs, Range(admitted))
  BY InitCapped, InitRetained
<1>2. /\ Base /\ [Next]_vars
      /\ Capped(jobs) /\ Retained(jobs, Range(admitted))
      => Capped(jobs)' /\ Retained(jobs, Range(admitted))'
  <2>1. SUFFICES ASSUME Base, [Next]_vars, Capped(jobs), Retained(jobs, Range(admitted))
                 PROVE  Capped(jobs)' /\ Retained(jobs, Range(admitted))'
    OBVIOUS
  <2>2. Capped(jobs') => Capped(jobs)'
    BY DEF Capped, Active, In, Memory
  <2> QED
    BY <2>1, <2>2, NextCapped, NextRetained
<1>3. /\ Base /\ PendingBounded
      /\ Capped(jobs) /\ Retained(jobs, Range(admitted))
      => PolicyRespected
  <2>1. Base => Processes \cup In(jobs, "running") = In(jobs, "running")
    BY DEF Base, AllSound, Sound, Processes, In
  <2> QED
    BY <2>1 DEF PolicyRespected, Capped, Retained, Reserved
<1> QED
  BY <1>1, <1>2, <1>3, BaseAlways, QueueNeverExceeds, PTL DEF Spec

-----------------------------------------------------------------------------
(* What AdmittedEnds asks of the steps.                                    *)

DeadlineKept ==
  \A k \in Keys : jobs[k].state \in Pending /\ jobs[k].late =>
    \/ jobs'[k].state \in TERMINAL
    \/ jobs'[k].state \in Pending /\ jobs'[k].late /\ ~Advance

LEMMA AdvanceEndsLate ==
  ASSUME Base, Advance, NEW k \in Keys, jobs[k].state \in Pending, jobs[k].late
  PROVE  jobs'[k].state \in TERMINAL
<1>1. PICK trouble \in Troubles :
        jobs' = StartReady(Sweep(Expire(jobs), trouble), admitted, trouble)
  BY DEF Advance
<1> DEFINE e == Expire(jobs)
           w == Sweep(e, trouble)
<1>2. jobs \in Tables /\ admitted \in Seq(Keys)
  BY BoundedSequences, PolicyAssumption DEF Base, TypeOK, Tables
<1>3. e \in Tables /\ e[k] = jobs[k]
  BY <1>2, ExpireEffect DEF TERMINAL, Pending
<1> HIDE DEF e
<1>4. w \in Tables /\ w[k] = Finish(e[k], "expired")
  <2>1. w \in Tables
    BY <1>3, SweepEffect
  <2>2. w[k] = Finish(e[k], "expired")
    BY <1>3 DEF Sweep
  <2> QED
    BY <2>1, <2>2
<1> HIDE DEF w
<1>5. w[k].state = "expired"
  BY <1>3, <1>4, FinishState DEF Tables, TERMINAL
<1>6. Readied(w, jobs')
  BY <1>1, <1>2, <1>4, StartReadyEffect DEF e, w
<1>7. jobs'[k] = w[k]
  BY <1>5, <1>6 DEF Readied
<1> QED
  BY <1>5, <1>7 DEF TERMINAL

LEMMA NextDeadline ==
  ASSUME Base, [Next]_vars
  PROVE  DeadlineKept
<1> SUFFICES ASSUME NEW k \in Keys, jobs[k].state \in Pending, jobs[k].late
             PROVE  \/ jobs'[k].state \in TERMINAL
                    \/ jobs'[k].state \in Pending /\ jobs'[k].late /\ ~Advance
  BY DEF DeadlineKept
<1>1. jobs[k].state # "absent" /\ jobs[k] \in Job
  BY DEF Pending, Base, TypeOK
<1>2. CASE Advance
  BY <1>2, AdvanceEndsLate
<1>3. ASSUME Moves(jobs[k], jobs'[k]), ~Advance
      PROVE  \/ jobs'[k].state \in TERMINAL
             \/ jobs'[k].state \in Pending /\ jobs'[k].late /\ ~Advance
  <2>1. jobs'[k].state \in TERMINAL \/ jobs'[k].state \in Pending
    BY <1>1, <1>3 DEF Moves, Lawful, Job
  <2> QED
    BY <1>3, <2>1 DEF Moves
<1>4. CASE Quiet /\ ~Advance
  BY <1>3, <1>4 DEF Quiet, AllMove
<1>5. ASSUME NEW j \in Keys, Admits(j), ~Advance PROVE Moves(jobs[k], jobs'[k])
  BY <1>1, <1>5 DEF Admits
<1>6. CASE RemoveDirectory /\ ~Advance
  <2>1. jobs'[k] = [jobs[k] EXCEPT !.files = "none"]
    BY <1>6 DEF RemoveDirectory
  <2>2. jobs'[k].state = jobs[k].state /\ jobs'[k].late = jobs[k].late
    BY <1>1, <2>1 DEF Job
  <2> QED
    BY <1>6, <2>2
<1> QED
  BY <1>2, <1>3, <1>4, <1>5, <1>6, NextSplits

\* A deadline that has passed is not forgotten while the job waits, is started or
\* runs, and the next pass of the supervisor ends the job, whether or not it fits
\* and whether or not its worker has finished (_advance, _start_ready).  This is
\* all that AdmittedEnds asks of the steps; the rest is fairness.
THEOREM DeadlineEnds == Spec => [][DeadlineKept]_vars
<1>1. Base /\ [Next]_vars => [DeadlineKept]_vars
  BY NextDeadline
<1> QED
  BY <1>1, BaseAlways, PTL DEF Spec
=============================================================================
