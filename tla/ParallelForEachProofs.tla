------------------------ MODULE ParallelForEachProofs ------------------------
(* Theorems about ParallelForEach for any number of threads and inputs and   *)
(* any queue size: what each worker got stays in order (DealtInOrder), and   *)
(* every step is a step of ForEach or leaves it alone.  That it returns is a *)
(* liveness property, which only the model checker shows.                    *)
EXTENDS ParallelForEach, TLAPS, SequenceTheorems

\* How many inputs a worker got so far.
Got(w) == HasCalled(w) + HasTaken(w) + HasQueued(w)

\* While it deals, the caller is in round r: the workers before the next one
\* have had their turn in it.
Rounds ==
    main = "dealing" =>
        /\ it <= InputCount
        /\ \E r \in Nat :
               /\ it = Dealt(worker, r + 1)
               /\ \A w \in Worker : Got(w) = IF w < worker THEN r + 1 ELSE r

\* Every input before the next one went to a worker.
AllDealt ==
    /\ \A i \in 1 .. (it - 1) : \E w \in Worker : \E k \in 1 .. Got(w) : i = Dealt(w, k)
    /\ main # "dealing" => it = InputCount + 1

\* A thread ends after the stop request, which comes after the last input, and
\* leaves nothing behind.
EndsEmpty ==
    \A w \in Worker :
        /\ main = "dealing" => ~stop[w]
        /\ at[w] \in {"draining", "finishing", "exited"} => main # "dealing"
        /\ at[w] \in {"draining", "finishing"} => stop[w]
        /\ at[w] \in {"testing", "waiting", "draining", "exited"} => buffer[w] = << >>
        /\ at[w] \in {"finishing", "exited"} => queue[w] = << >>

\* The workers before the current one have been joined.
Joined ==
    \A w \in Worker :
        (main \in {"stopping", "joining"} /\ w < worker) \/ main = "returned"
            => at[w] = "exited"

Inv == TypeOK /\ DealtInOrder /\ Rounds /\ AllDealt /\ EndsEmpty /\ Joined

-----------------------------------------------------------------------------
(* Numbers and sequences.                                                    *)

LEMMA DealtIsNat ==
    ASSUME NEW w \in Worker, NEW k \in Nat \ {0}
    PROVE  Dealt(w, k) \in Nat
<1>1. ThreadCount \in Nat /\ w \in Nat /\ k - 1 \in Nat
  BY CountsAssumption DEF Worker
<1>2. (k - 1) * ThreadCount \in Nat
  BY <1>1
<1> QED BY <1>1, <1>2 DEF Dealt

\* No input is dealt twice: it determines the worker and the round.
LEMMA DealtOnce ==
    ASSUME NEW v \in Worker, NEW w \in Worker, NEW j \in Nat \ {0}, NEW k \in Nat \ {0},
           Dealt(v, j) = Dealt(w, k)
    PROVE  v = w /\ j = k
<1>1. /\ ThreadCount \in Nat /\ ThreadCount > 0
      /\ v \in Int /\ 1 <= v /\ v <= ThreadCount
      /\ w \in Int /\ 1 <= w /\ w <= ThreadCount
  BY CountsAssumption DEF Worker
<1>2. v - w = (k - j) * ThreadCount
  <2>1. (k - j) * ThreadCount = (k - 1) * ThreadCount - (j - 1) * ThreadCount
    BY <1>1
  <2>2. (k - 1) * ThreadCount \in Int /\ (j - 1) * ThreadCount \in Int
    BY <1>1
  <2> QED BY <1>1, <2>1, <2>2 DEF Dealt
<1>3. CASE k = j
  BY <1>1, <1>2, <1>3
<1>4. CASE k > j
  <2>1. (k - j) * ThreadCount >= ThreadCount
    BY <1>1, <1>4
  <2> QED BY <1>1, <1>2, <2>1
<1>5. CASE k < j
  <2>1. (k - j) * ThreadCount <= - ThreadCount
    BY <1>1, <1>5
  <2> QED BY <1>1, <1>2, <2>1
<1> QED BY <1>3, <1>4, <1>5

LEMMA LengthIsNat ==
    ASSUME NEW s \in Seq(Inputs)
    PROVE  Len(s) \in Nat /\ \A k \in 1 .. Len(s) : s[k] \in Inputs
  BY LenProperties, ElementOfSeq

\* What is at hand about the sequences of a worker.
LEMMA SequencesOf ==
    ASSUME TypeOK, NEW w \in Worker
    PROVE  /\ calls[w] \in Seq(Inputs) /\ HasCalled(w) \in Nat
           /\ buffer[w] \in Seq(Inputs) /\ HasTaken(w) \in Nat
           /\ queue[w] \in Seq(Inputs) /\ HasQueued(w) \in Nat
           /\ Got(w) \in Nat
<1>1. calls[w] \in Seq(Inputs) /\ buffer[w] \in Seq(Inputs) /\ queue[w] \in Seq(Inputs)
  BY DEF TypeOK
<1>2. HasCalled(w) \in Nat /\ HasTaken(w) \in Nat /\ HasQueued(w) \in Nat
  BY <1>1, LengthIsNat DEF HasCalled, HasTaken, HasQueued
<1> QED BY <1>1, <1>2 DEF Got

-----------------------------------------------------------------------------
(* The steps.                                                                *)

LEMMA InitInv == Init => Inv
<1> SUFFICES ASSUME Init PROVE Inv
  OBVIOUS
<1>1. /\ ThreadCount \in Nat /\ 1 \in Worker /\ InputCount \in Nat
      /\ QueueSize \in Nat
  BY CountsAssumption DEF Worker
<1>2. /\ << >> \in Seq(Inputs) /\ Len(<< >>) = 0
  BY EmptySeq
<1>3. \A w \in Worker :
          /\ queue[w] = << >> /\ buffer[w] = << >> /\ calls[w] = << >> /\ stop[w] = FALSE
          /\ at[w] = IF InputCount = 0 THEN "exited" ELSE "testing"
  BY DEF Init
<1>4. \A w \in Worker : HasCalled(w) = 0 /\ HasTaken(w) = 0 /\ HasQueued(w) = 0 /\ Got(w) = 0
  <2>1. \A w \in Worker : HasCalled(w) = 0 /\ HasTaken(w) = 0 /\ HasQueued(w) = 0
    BY <1>2, <1>3 DEF HasCalled, HasTaken, HasQueued
  <2> QED BY <2>1 DEF Got
<1>5. TypeOK
  BY <1>1, <1>2, <1>4 DEF Init, TypeOK
<1>6. DealtInOrder
  BY <1>4 DEF DealtInOrder, InOrder
<1>7. Rounds
  <2> SUFFICES ASSUME main = "dealing"
               PROVE  /\ it <= InputCount
                      /\ \E r \in Nat :
                             /\ it = Dealt(worker, r + 1)
                             /\ \A w \in Worker : Got(w) = IF w < worker THEN r + 1 ELSE r
    BY DEF Rounds
  <2>1. it = 1 /\ worker = 1 /\ InputCount # 0
    BY DEF Init
  <2>2. it = Dealt(worker, 0 + 1)
    BY <1>1, <2>1 DEF Dealt
  <2>3. \A w \in Worker : Got(w) = IF w < worker THEN 0 + 1 ELSE 0
    BY <1>1, <1>4, <2>1 DEF Worker
  <2> QED BY <1>1, <2>1, <2>2, <2>3
<1>8. AllDealt
  BY <1>1 DEF Init, AllDealt
<1>9. EndsEmpty /\ Joined
  BY <1>3 DEF Init, EndsEmpty, Joined
<1> QED BY <1>5, <1>6, <1>7, <1>8, <1>9 DEF Inv

\* The caller deals an input.
LEMMA AddWorkInv == Inv /\ AddWork => Inv'
<1> SUFFICES ASSUME Inv, AddWork PROVE Inv'
  OBVIOUS
<1>1. /\ main = "dealing" /\ Len(queue[worker]) < QueueSize
      /\ queue' = [queue EXCEPT ![worker] = Append(queue[worker], it)]
      /\ it' = it + 1 /\ stop' = stop /\ at' = at /\ buffer' = buffer /\ calls' = calls
  BY DEF AddWork
<1>2. /\ ThreadCount \in Nat /\ ThreadCount > 0 /\ InputCount \in Nat /\ QueueSize \in Nat
      /\ worker \in Worker /\ it \in Inputs /\ it \in Nat
      /\ Worker = 1 .. ThreadCount
  BY <1>1, CountsAssumption DEF Inv, TypeOK, Rounds, Inputs, Worker
<1>3. /\ queue'[worker] \in Seq(Inputs)
      /\ Len(queue'[worker]) = Len(queue[worker]) + 1
      /\ \A k \in 1 .. HasQueued(worker) : queue'[worker][k] = queue[worker][k]
      /\ queue'[worker][HasQueued(worker) + 1] = it
  <2>1. queue[worker] \in Seq(Inputs) /\ queue'[worker] = Append(queue[worker], it)
    BY <1>1, <1>2 DEF Inv, TypeOK
  <2> QED BY <1>2, <2>1, AppendProperties DEF HasQueued
<1>4. \A w \in Worker : w # worker => queue'[w] = queue[w]
  BY <1>1 DEF Inv, TypeOK
<1>5. \A w \in Worker :
          /\ HasCalled(w)' = HasCalled(w) /\ HasTaken(w)' = HasTaken(w)
          /\ HasQueued(w)' = IF w = worker THEN HasQueued(w) + 1 ELSE HasQueued(w)
          /\ Got(w)' = IF w = worker THEN Got(w) + 1 ELSE Got(w)
  <2> SUFFICES ASSUME NEW w \in Worker
               PROVE  /\ HasCalled(w)' = HasCalled(w) /\ HasTaken(w)' = HasTaken(w)
                      /\ HasQueued(w)' = IF w = worker THEN HasQueued(w) + 1 ELSE HasQueued(w)
                      /\ Got(w)' = IF w = worker THEN Got(w) + 1 ELSE Got(w)
    OBVIOUS
  <2>1. HasCalled(w) \in Nat /\ HasTaken(w) \in Nat /\ HasQueued(w) \in Nat
    BY SequencesOf DEF Inv
  <2>2. HasCalled(w)' = HasCalled(w) /\ HasTaken(w)' = HasTaken(w)
    BY <1>1 DEF HasCalled, HasTaken
  <2>3. HasQueued(w)' = IF w = worker THEN HasQueued(w) + 1 ELSE HasQueued(w)
    BY <1>3, <1>4 DEF HasQueued
  <2> QED BY <2>1, <2>2, <2>3 DEF Got
<1>6. PICK r \in Nat : /\ it = Dealt(worker, r + 1)
                       /\ \A w \in Worker : Got(w) = IF w < worker THEN r + 1 ELSE r
  BY <1>1 DEF Inv, Rounds
<1>7. Got(worker) = r
  BY <1>2, <1>6
<1>8. TypeOK'
  <2>1. queue' \in [Worker -> Seq(Inputs)]
    BY <1>1, <1>2, <1>3 DEF Inv, TypeOK
  <2>2. \A w \in Worker : HasQueued(w)' <= QueueSize
    <3> SUFFICES ASSUME NEW w \in Worker PROVE HasQueued(w)' <= QueueSize
      OBVIOUS
    <3>1. HasQueued(w) \in Nat /\ HasQueued(w) <= QueueSize
      BY SequencesOf DEF Inv, TypeOK
    <3>2. HasQueued(worker) < QueueSize
      BY <1>1 DEF HasQueued
    <3> QED BY <1>2, <1>5, <3>1, <3>2
  <2>3. main' \in {"dealing", "stopping", "joining", "returned"}
    BY <1>1 DEF AddWork
  <2>4. it' \in 1 .. (InputCount + 1)
    BY <1>1, <1>2 DEF Inputs
  <2>5. worker' \in Worker
    BY <1>2 DEF AddWork, NextWorker
  <2> QED BY <1>1, <2>1, <2>2, <2>3, <2>4, <2>5 DEF Inv, TypeOK
<1>9. DealtInOrder'
  <2> SUFFICES ASSUME NEW w \in Worker PROVE InOrder(w)'
    BY DEF DealtInOrder
  <2>1. InOrder(w)
    BY DEF Inv, DealtInOrder
  <2>2. CASE w # worker
    BY <1>1, <1>4, <1>5, <2>1, <2>2 DEF InOrder, Dealt
  <2>3. CASE w = worker
    <3>1. HasCalled(w) \in Nat /\ HasTaken(w) \in Nat /\ HasQueued(w) \in Nat
      BY SequencesOf DEF Inv
    <3>2. it = Dealt(w, HasCalled(w) + HasTaken(w) + (HasQueued(w) + 1))
      <4>1. HasCalled(w) + HasTaken(w) + (HasQueued(w) + 1) = r + 1
        BY <1>7, <2>3, <3>1 DEF Got
      <4> QED BY <1>6, <2>3, <4>1
    <3>3. \A k \in 1 .. HasQueued(w)' :
              queue'[w][k] = Dealt(w, HasCalled(w) + HasTaken(w) + k)
      <4> SUFFICES ASSUME NEW k \in 1 .. (HasQueued(w) + 1)
                   PROVE  queue'[w][k] = Dealt(w, HasCalled(w) + HasTaken(w) + k)
        BY <1>5, <2>3
      <4>1. CASE k = HasQueued(w) + 1
        BY <1>3, <2>3, <3>2, <4>1
      <4>2. CASE k # HasQueued(w) + 1
        <5>1. k \in 1 .. HasQueued(w)
          BY <3>1, <4>2
        <5> QED BY <1>3, <2>1, <2>3, <5>1 DEF InOrder
      <4> QED BY <4>1, <4>2
    <3> QED BY <1>1, <1>5, <2>1, <3>3 DEF InOrder, Dealt
  <2> QED BY <2>2, <2>3
<1>10. Rounds'
  <2> SUFFICES ASSUME main' = "dealing"
               PROVE  /\ it' <= InputCount
                      /\ \E q \in Nat :
                             /\ it' = Dealt(worker', q + 1)
                             /\ \A w \in Worker : Got(w)' = IF w < worker' THEN q + 1 ELSE q
    BY DEF Rounds, Dealt
  <2>1. it # InputCount /\ worker' = NextWorker
    BY DEF AddWork
  <2>2. it' <= InputCount
    BY <1>1, <1>2, <2>1 DEF Inputs
  <2>3. CASE worker = ThreadCount
    <3>1. worker' = 1
      BY <2>1, <2>3 DEF NextWorker
    <3>2. it' = Dealt(worker', (r + 1) + 1)
      <4>1. it = ThreadCount + r * ThreadCount
        BY <1>2, <1>6, <2>3 DEF Dealt
      <4>2. (r + 1) * ThreadCount = r * ThreadCount + ThreadCount
        BY <1>2
      <4>3. Dealt(worker', (r + 1) + 1) = 1 + (r + 1) * ThreadCount
        BY <1>2, <3>1 DEF Dealt
      <4>4. r * ThreadCount \in Nat
        BY <1>2
      <4> QED BY <1>1, <1>2, <4>1, <4>2, <4>3, <4>4
    <3>3. \A w \in Worker : Got(w)' = IF w < worker' THEN (r + 1) + 1 ELSE r + 1
      BY <1>2, <1>5, <1>6, <2>3, <3>1
    <3> QED BY <2>2, <3>2, <3>3
  <2>4. CASE worker # ThreadCount
    <3>1. worker' = worker + 1
      BY <2>1, <2>4 DEF NextWorker
    <3>2. it' = Dealt(worker', r + 1)
      <4>1. r * ThreadCount \in Nat
        BY <1>2
      <4> QED BY <1>1, <1>2, <1>6, <3>1, <4>1 DEF Dealt
    <3>3. \A w \in Worker : Got(w)' = IF w < worker' THEN r + 1 ELSE r
      BY <1>2, <1>5, <1>6, <3>1
    <3> QED BY <2>2, <3>2, <3>3
  <2> QED BY <2>3, <2>4
<1>11. AllDealt'
  <2>1. main' # "dealing" => it' = InputCount + 1
    BY <1>1, <1>2 DEF AddWork
  <2>2. \A i \in 1 .. (it' - 1) : \E w \in Worker : \E k \in 1 .. Got(w)' : i = Dealt(w, k)
    <3> SUFFICES ASSUME NEW i \in 1 .. it
                 PROVE  \E w \in Worker : \E k \in 1 .. Got(w)' : i = Dealt(w, k)
      BY <1>1, <1>2
    <3>1. CASE i = it
      <4>1. PICK w \in Worker : w = worker
        BY <1>2
      <4>2. r + 1 \in 1 .. Got(w)' /\ i = Dealt(w, r + 1)
        BY <1>5, <1>6, <1>7, <3>1, <4>1
      <4> QED BY <4>2
    <3>2. CASE i # it
      <4>1. PICK w \in Worker : \E k \in 1 .. Got(w) : i = Dealt(w, k)
        BY <1>2, <3>2 DEF Inv, AllDealt
      <4>2. Got(w) \in Nat /\ (Got(w)' = Got(w) \/ Got(w)' = Got(w) + 1)
        BY <1>5, SequencesOf DEF Inv
      <4>3. \A k \in 1 .. Got(w) : k \in 1 .. Got(w)'
        BY <4>2
      <4> QED BY <4>1, <4>3
    <3> QED BY <3>1, <3>2
  <2> QED BY <2>1, <2>2 DEF AllDealt, Dealt
<1>12. EndsEmpty'
  <2> SUFFICES ASSUME NEW w \in Worker
               PROVE  /\ main' = "dealing" => ~stop'[w]
                      /\ at'[w] \in {"draining", "finishing", "exited"} => main' # "dealing"
                      /\ at'[w] \in {"draining", "finishing"} => stop'[w]
                      /\ at'[w] \in {"testing", "waiting", "draining", "exited"} => buffer'[w] = << >>
                      /\ at'[w] \in {"finishing", "exited"} => queue'[w] = << >>
    BY DEF EndsEmpty
  <2>1. /\ ~stop[w] /\ at[w] \notin {"draining", "finishing", "exited"}
        /\ at[w] \in {"testing", "waiting", "draining", "exited"} => buffer[w] = << >>
    BY <1>1 DEF Inv, EndsEmpty
  <2> QED BY <1>1, <2>1
<1>13. Joined'
  BY <1>1 DEF Inv, Joined, AddWork, Worker
<1> QED BY <1>8, <1>9, <1>10, <1>11, <1>12, <1>13 DEF Inv

\* A step that leaves the caller alone and moves what a worker got within it.
LEMMA MovingInv ==
    ASSUME Inv, UNCHANGED <<caller, stop>>,
           \A w \in Worker : Got(w)' = Got(w)
    PROVE  Rounds' /\ AllDealt'
<1>1. main' = main /\ it' = it /\ worker' = worker
  BY DEF caller
<1>2. Rounds'
  BY <1>1 DEF Inv, Rounds, Dealt
<1>3. AllDealt'
  BY <1>1 DEF Inv, AllDealt, Dealt
<1> QED BY <1>2, <1>3

\* pop_all and try_pop_all empty the queue into the buffer, which was empty.
LEMMA TakingInv ==
    ASSUME Inv, NEW v \in Worker, UNCHANGED <<caller, stop, calls>>,
           at[v] \in {"waiting", "draining"},
           buffer' = [buffer EXCEPT ![v] = queue[v]],
           queue' = [queue EXCEPT ![v] = << >>],
           at' = [at EXCEPT ![v] = IF at[v] = "waiting" THEN "calling" ELSE "finishing"]
    PROVE  Inv'
<1>1. /\ main' = main /\ it' = it /\ worker' = worker /\ stop' = stop /\ calls' = calls
      /\ buffer'[v] = queue[v] /\ queue'[v] = << >>
      /\ \A w \in Worker : w # v =>
             buffer'[w] = buffer[w] /\ queue'[w] = queue[w] /\ at'[w] = at[w]
      /\ at'[v] = IF at[v] = "waiting" THEN "calling" ELSE "finishing"
  BY DEF Inv, TypeOK, caller
<1>2. buffer[v] = << >>
  BY DEF Inv, EndsEmpty
<1>3. /\ << >> \in Seq(Inputs) /\ Len(<< >>) = 0 /\ QueueSize \in Nat
  BY EmptySeq, CountsAssumption
<1>4. \A w \in Worker :
          /\ HasCalled(w)' = HasCalled(w)
          /\ HasTaken(w)' = IF w = v THEN HasQueued(w) ELSE HasTaken(w)
          /\ HasQueued(w)' = IF w = v THEN 0 ELSE HasQueued(w)
  BY <1>1, <1>3 DEF HasCalled, HasTaken, HasQueued
<1>5. HasTaken(v) = 0
  BY <1>2, <1>3 DEF HasTaken
<1>6. \A w \in Worker : Got(w)' = Got(w)
  <2> SUFFICES ASSUME NEW w \in Worker PROVE Got(w)' = Got(w)
    OBVIOUS
  <2>1. HasCalled(w) \in Nat /\ HasTaken(w) \in Nat /\ HasQueued(w) \in Nat
    BY SequencesOf DEF Inv
  <2> QED BY <1>4, <1>5, <2>1 DEF Got
<1>7. TypeOK'
  <2>1. \A w \in Worker : HasQueued(w)' <= QueueSize
    <3>1. \A w \in Worker : HasQueued(w) <= QueueSize
      BY DEF Inv, TypeOK
    <3> QED BY <1>3, <1>4, <3>1
  <2>2. queue' \in [Worker -> Seq(Inputs)] /\ buffer' \in [Worker -> Seq(Inputs)]
    <3>1. queue[v] \in Seq(Inputs)
      BY DEF Inv, TypeOK
    <3>2. queue' \in [Worker -> Seq(Inputs)]
      BY <1>3 DEF Inv, TypeOK
    <3>3. buffer' \in [Worker -> Seq(Inputs)]
      BY <3>1 DEF Inv, TypeOK
    <3> QED BY <3>2, <3>3
  <2>3. at' \in [Worker -> {"testing", "waiting", "calling", "draining", "finishing", "exited"}]
    BY DEF Inv, TypeOK
  <2> QED BY <1>1, <2>1, <2>2, <2>3 DEF Inv, TypeOK
<1>8. DealtInOrder'
  <2> SUFFICES ASSUME NEW w \in Worker PROVE InOrder(w)'
    BY DEF DealtInOrder
  <2>1. InOrder(w)
    BY DEF Inv, DealtInOrder
  <2>2. CASE w # v
    BY <1>1, <1>4, <2>1, <2>2 DEF InOrder, Dealt
  <2>3. CASE w = v
    <3>1. HasCalled(w) \in Nat /\ HasTaken(w) = 0 /\ HasQueued(w) \in Nat
      BY <1>5, <2>3, SequencesOf DEF Inv
    <3>2. \A k \in 1 .. HasQueued(w) : queue[w][k] = Dealt(w, HasCalled(w) + k)
      BY <2>1, <3>1 DEF InOrder
    <3> QED BY <1>1, <1>4, <2>1, <2>3, <3>2 DEF InOrder, Dealt
  <2> QED BY <2>2, <2>3
<1>9. Rounds' /\ AllDealt'
  BY <1>6, MovingInv
<1>10. EndsEmpty' /\ Joined'
  BY <1>1 DEF Inv, EndsEmpty, Joined, Worker
<1> QED BY <1>7, <1>8, <1>9, <1>10 DEF Inv

\* The function is called for the first element of the buffer.
LEMMA CallInv ==
    ASSUME Inv, NEW v \in Worker, Call(v)
    PROVE  /\ Inv'
           /\ Head(buffer[v]) \in Inputs
           /\ Head(buffer[v]) = Dealt(v, HasCalled(v) + 1)
<1>1. /\ main' = main /\ it' = it /\ worker' = worker /\ stop' = stop
      /\ queue' = queue /\ at' = at
      /\ buffer' = [buffer EXCEPT ![v] = Tail(buffer[v])]
      /\ calls' = [calls EXCEPT ![v] = Append(calls[v], Head(buffer[v]))]
      /\ buffer[v] # << >> /\ at[v] \in {"calling", "finishing"}
  BY DEF Call, caller
<1>2. /\ buffer[v] \in Seq(Inputs) /\ calls[v] \in Seq(Inputs)
      /\ HasTaken(v) \in Nat /\ HasCalled(v) \in Nat
  BY SequencesOf DEF Inv
<1>3. /\ Head(buffer[v]) \in Inputs /\ Head(buffer[v]) = buffer[v][1]
      /\ Tail(buffer[v]) \in Seq(Inputs) /\ Len(Tail(buffer[v])) = HasTaken(v) - 1
      /\ \A k \in 1 .. (HasTaken(v) - 1) : Tail(buffer[v])[k] = buffer[v][k + 1]
      /\ HasTaken(v) >= 1
  BY <1>1, <1>2, HeadTailProperties, EmptySeq DEF HasTaken
<1>4. /\ Append(calls[v], Head(buffer[v])) \in Seq(Inputs)
      /\ Len(Append(calls[v], Head(buffer[v]))) = HasCalled(v) + 1
      /\ \A k \in 1 .. HasCalled(v) : Append(calls[v], Head(buffer[v]))[k] = calls[v][k]
      /\ Append(calls[v], Head(buffer[v]))[HasCalled(v) + 1] = Head(buffer[v])
  BY <1>2, <1>3, AppendProperties DEF HasCalled
<1>5. /\ calls'[v] = Append(calls[v], Head(buffer[v])) /\ buffer'[v] = Tail(buffer[v])
      /\ \A w \in Worker : w # v => calls'[w] = calls[w] /\ buffer'[w] = buffer[w]
  BY <1>1 DEF Inv, TypeOK
<1>6. \A w \in Worker :
          /\ HasCalled(w)' = IF w = v THEN HasCalled(w) + 1 ELSE HasCalled(w)
          /\ HasTaken(w)' = IF w = v THEN HasTaken(w) - 1 ELSE HasTaken(w)
          /\ HasQueued(w)' = HasQueued(w)
  <2>1. \A w \in Worker : HasCalled(w)' = IF w = v THEN HasCalled(w) + 1 ELSE HasCalled(w)
    BY <1>4, <1>5 DEF HasCalled
  <2>2. \A w \in Worker : HasTaken(w)' = IF w = v THEN HasTaken(w) - 1 ELSE HasTaken(w)
    BY <1>3, <1>5 DEF HasTaken
  <2>3. \A w \in Worker : HasQueued(w)' = HasQueued(w)
    BY <1>1 DEF HasQueued
  <2> QED BY <2>1, <2>2, <2>3
<1>7. \A w \in Worker : Got(w)' = Got(w)
  <2> SUFFICES ASSUME NEW w \in Worker PROVE Got(w)' = Got(w)
    OBVIOUS
  <2>1. HasCalled(w) \in Nat /\ HasTaken(w) \in Nat /\ HasQueued(w) \in Nat
    BY SequencesOf DEF Inv
  <2> QED BY <1>6, <2>1 DEF Got
<1>8. TypeOK'
  <2>1. calls' \in [Worker -> Seq(Inputs)] /\ buffer' \in [Worker -> Seq(Inputs)]
    BY <1>1, <1>3, <1>4 DEF Inv, TypeOK
  <2>2. \A w \in Worker : HasQueued(w)' <= QueueSize
    BY <1>6 DEF Inv, TypeOK
  <2> QED BY <1>1, <2>1, <2>2 DEF Inv, TypeOK
<1>9. Head(buffer[v]) = Dealt(v, HasCalled(v) + 1)
  BY <1>3, <1>2 DEF Inv, DealtInOrder, InOrder
<1>10. DealtInOrder'
  <2> SUFFICES ASSUME NEW w \in Worker PROVE InOrder(w)'
    BY DEF DealtInOrder
  <2>1. InOrder(w)
    BY DEF Inv, DealtInOrder
  <2>2. CASE w # v
    BY <1>1, <1>5, <1>6, <2>1, <2>2 DEF InOrder, Dealt
  <2>3. CASE w = v
    <3>1. HasCalled(w)' = HasCalled(v) + 1 /\ HasTaken(w)' = HasTaken(v) - 1
          /\ HasQueued(w)' = HasQueued(v)
      BY <1>6, <2>3
    <3>2. \A k \in 1 .. (HasCalled(v) + 1) : calls'[v][k] = Dealt(v, k)
      <4> SUFFICES ASSUME NEW k \in 1 .. (HasCalled(v) + 1) PROVE calls'[v][k] = Dealt(v, k)
        OBVIOUS
      <4>1. CASE k = HasCalled(v) + 1
        BY <1>4, <1>5, <1>9, <4>1
      <4>2. CASE k # HasCalled(v) + 1
        <5>1. k \in 1 .. HasCalled(v)
          BY <1>2, <4>2
        <5> QED BY <1>4, <1>5, <2>1, <2>3, <5>1 DEF InOrder
      <4> QED BY <4>1, <4>2
    <3>3. \A k \in 1 .. (HasTaken(v) - 1) : buffer'[v][k] = Dealt(v, (HasCalled(v) + 1) + k)
      <4> SUFFICES ASSUME NEW k \in 1 .. (HasTaken(v) - 1)
                   PROVE  buffer'[v][k] = Dealt(v, (HasCalled(v) + 1) + k)
        OBVIOUS
      <4>1. k + 1 \in 1 .. HasTaken(v) /\ HasCalled(v) + (k + 1) = (HasCalled(v) + 1) + k
        BY <1>2
      <4>2. buffer[v][k + 1] = Dealt(v, HasCalled(v) + (k + 1))
        BY <2>1, <2>3, <4>1 DEF InOrder
      <4> QED BY <1>3, <1>5, <4>1, <4>2
    <3>4. (HasCalled(v) + 1) + (HasTaken(v) - 1) = HasCalled(v) + HasTaken(v)
      BY <1>2
    <3>5. \A k \in 1 .. HasQueued(v) :
              queue'[v][k] = Dealt(v, (HasCalled(v) + 1) + (HasTaken(v) - 1) + k)
      BY <1>1, <2>1, <2>3, <3>4 DEF InOrder
    <3> QED BY <2>3, <3>1, <3>2, <3>3, <3>5 DEF InOrder, Dealt
  <2> QED BY <2>2, <2>3
<1>11. Rounds' /\ AllDealt'
  BY <1>1, <1>7, MovingInv DEF caller
<1>12. EndsEmpty' /\ Joined'
  BY <1>1, <1>5 DEF Inv, EndsEmpty, Joined, Worker
<1> QED BY <1>3, <1>8, <1>9, <1>10, <1>11, <1>12 DEF Inv

\* The steps that only move a thread or the caller along.
LEMMA MovesOn ==
    ASSUME Inv, UNCHANGED <<it, queue, buffer, calls>>, main # "dealing", main' # "dealing",
           TypeOK', EndsEmpty', Joined'
    PROVE  Inv'
<1>1. \A w \in Worker :
          /\ HasCalled(w)' = HasCalled(w) /\ HasTaken(w)' = HasTaken(w)
          /\ HasQueued(w)' = HasQueued(w)
  BY DEF HasCalled, HasTaken, HasQueued
<1>2. \A w \in Worker : Got(w)' = Got(w)
  BY <1>1 DEF Got
<1>3. DealtInOrder'
  BY <1>1 DEF Inv, DealtInOrder, InOrder, Dealt
<1>4. Rounds' /\ AllDealt'
  BY <1>2 DEF Inv, Rounds, AllDealt, Dealt
<1> QED BY <1>3, <1>4 DEF Inv

LEMMA ThreadMovesOn ==
    ASSUME Inv, UNCHANGED <<caller, queue, stop, buffer, calls>>,
           TypeOK', EndsEmpty', Joined'
    PROVE  Inv'
<1>1. \A w \in Worker :
          /\ HasCalled(w)' = HasCalled(w) /\ HasTaken(w)' = HasTaken(w)
          /\ HasQueued(w)' = HasQueued(w)
  BY DEF HasCalled, HasTaken, HasQueued
<1>2. \A w \in Worker : Got(w)' = Got(w)
  BY <1>1 DEF Got
<1>3. DealtInOrder'
  BY <1>1 DEF Inv, DealtInOrder, InOrder, Dealt
<1> QED BY <1>2, <1>3, MovingInv DEF Inv

\* A thread changes where it is: nothing else does.
LEMMA GoesTo ==
    ASSUME Inv, NEW v \in Worker, UNCHANGED <<caller, queue, stop, buffer, calls>>,
           NEW place \in {"testing", "waiting", "calling", "draining", "finishing", "exited"},
           at' = [at EXCEPT ![v] = place],
           at[v] # "exited",
           place \in {"draining", "finishing", "exited"} => main # "dealing",
           place \in {"draining", "finishing"} => stop[v],
           place \in {"testing", "waiting", "draining", "exited"} => buffer[v] = << >>,
           place \in {"finishing", "exited"} => queue[v] = << >>
    PROVE  Inv'
<1>1. /\ main' = main /\ it' = it /\ worker' = worker /\ stop' = stop /\ queue' = queue
      /\ buffer' = buffer /\ calls' = calls
      /\ at'[v] = place /\ \A w \in Worker : w # v => at'[w] = at[w]
  BY DEF Inv, TypeOK, caller
<1>2. TypeOK'
  <2>1. at' \in [Worker -> {"testing", "waiting", "calling", "draining", "finishing", "exited"}]
    BY DEF Inv, TypeOK
  <2>2. \A w \in Worker : HasQueued(w)' <= QueueSize
    BY <1>1 DEF Inv, TypeOK, HasQueued
  <2> QED BY <1>1, <2>1, <2>2 DEF Inv, TypeOK
<1>3. EndsEmpty'
  <2> SUFFICES ASSUME NEW w \in Worker
               PROVE  /\ main' = "dealing" => ~stop'[w]
                      /\ at'[w] \in {"draining", "finishing", "exited"} => main' # "dealing"
                      /\ at'[w] \in {"draining", "finishing"} => stop'[w]
                      /\ at'[w] \in {"testing", "waiting", "draining", "exited"} => buffer'[w] = << >>
                      /\ at'[w] \in {"finishing", "exited"} => queue'[w] = << >>
    BY DEF EndsEmpty
  <2>1. CASE w = v
    BY <1>1, <2>1 DEF Inv, EndsEmpty
  <2>2. CASE w # v
    BY <1>1, <2>2 DEF Inv, EndsEmpty
  <2> QED BY <2>1, <2>2
<1>4. Joined'
  BY <1>1 DEF Inv, Joined
<1> QED BY <1>2, <1>3, <1>4, ThreadMovesOn

LEMMA NextInv == Inv /\ [Next]_vars => Inv'
<1> SUFFICES ASSUME Inv, [Next]_vars PROVE Inv'
  OBVIOUS
<1>1. CASE AddWork
  BY <1>1, AddWorkInv
<1>2. CASE RequestStop
  <2>1. /\ main = "stopping" /\ main' = "joining" /\ stop' = [stop EXCEPT ![worker] = TRUE]
        /\ UNCHANGED <<it, worker, queue, at, buffer, calls>>
    BY <1>2 DEF RequestStop
  <2>2. TypeOK'
    <3>1. \A w \in Worker : HasQueued(w)' <= QueueSize
      BY <2>1 DEF Inv, TypeOK, HasQueued
    <3>2. stop' \in [Worker -> BOOLEAN]
      BY <2>1 DEF Inv, TypeOK
    <3> QED BY <2>1, <3>1, <3>2 DEF Inv, TypeOK
  <2>3. EndsEmpty'
    BY <2>1 DEF Inv, TypeOK, EndsEmpty
  <2>4. Joined'
    BY <2>1 DEF Inv, Joined
  <2> QED BY <2>1, <2>2, <2>3, <2>4, MovesOn
<1>3. CASE Join
  <2>1. /\ main = "joining" /\ at[worker] = "exited"
        /\ main' \in {"stopping", "returned"}
        /\ main' = "returned" => worker = ThreadCount
        /\ main' = "stopping" => worker' = worker + 1 /\ worker # ThreadCount
        /\ worker' \in {worker, worker + 1} /\ (worker' = worker + 1 => worker # ThreadCount)
        /\ UNCHANGED <<it, queue, stop, at, buffer, calls>>
    BY <1>3, CountsAssumption DEF Join, Inv, TypeOK, Worker
  <2>2. /\ ThreadCount \in Nat /\ worker \in Nat /\ worker \in Worker
        /\ Worker = 1 .. ThreadCount
    BY CountsAssumption DEF Inv, TypeOK, Worker
  <2>3. TypeOK'
    <3>1. \A w \in Worker : HasQueued(w)' <= QueueSize
      BY <2>1 DEF Inv, TypeOK, HasQueued
    <3>2. worker' \in Worker
      BY <2>1, <2>2
    <3> QED BY <2>1, <3>1, <3>2 DEF Inv, TypeOK
  <2>4. EndsEmpty'
    BY <2>1 DEF Inv, EndsEmpty
  <2>5. Joined'
    <3>1. \A w \in Worker : w <= worker => at[w] = "exited"
      BY <2>1, <2>2 DEF Inv, Joined
    <3> QED BY <2>1, <2>2, <3>1 DEF Joined
  <2> QED BY <2>1, <2>3, <2>4, <2>5, MovesOn
<1>4. ASSUME NEW w \in Worker, TestsToken(w)
      PROVE  Inv'
  <2>1. stop[w] => main # "dealing"
    BY DEF Inv, EndsEmpty
  <2>2. buffer[w] = << >>
    BY <1>4 DEF Inv, EndsEmpty, TestsToken
  <2> QED BY <1>4, <2>1, <2>2, GoesTo DEF TestsToken
<1>5. ASSUME NEW w \in Worker, PopAll(w)
      PROVE  Inv'
  BY <1>5, TakingInv DEF PopAll
<1>6. ASSUME NEW w \in Worker, StopsWaiting(w)
      PROVE  Inv'
  BY <1>6, GoesTo DEF StopsWaiting
<1>7. ASSUME NEW w \in Worker, Call(w)
      PROVE  Inv'
  BY <1>7, CallInv
<1>8. ASSUME NEW w \in Worker, BufferDone(w)
      PROVE  Inv'
  <2>1. at[w] = "finishing" => queue[w] = << >> /\ main # "dealing"
    BY DEF Inv, EndsEmpty
  <2> QED BY <1>8, <2>1, GoesTo DEF BufferDone
<1>9. ASSUME NEW w \in Worker, TryPopAll(w)
      PROVE  Inv'
  BY <1>9, TakingInv DEF TryPopAll
<1>10. CASE UNCHANGED vars
  <2>1. TypeOK' /\ EndsEmpty' /\ Joined'
    BY <1>10 DEF vars, caller, Inv, TypeOK, EndsEmpty, Joined, HasQueued
  <2> QED BY <1>10, <2>1, ThreadMovesOn DEF vars
<1> QED BY <1>1, <1>2, <1>3, <1>4, <1>5, <1>6, <1>7, <1>8, <1>9, <1>10
        DEF Next, Caller, Thread, Returned

-----------------------------------------------------------------------------
(* ParallelForEach takes the steps of ForEach.                               *)

LEMMA CalledIs ==
    ASSUME TypeOK
    PROVE  \A x : x \in Called <=> \E w \in Worker : \E k \in 1 .. HasCalled(w) : calls[w][k] = x
<1>1. \A w \in Worker : \A k \in 1 .. HasCalled(w) : calls[w][k] \in Inputs
  BY SequencesOf, LengthIsNat DEF HasCalled
<1> QED BY <1>1 DEF Called

LEMMA InitRefines == Init => Abstract!Init
<1> SUFFICES ASSUME Init PROVE Abstract!Init
  OBVIOUS
<1>1. TypeOK /\ \A w \in Worker : calls[w] = << >>
  BY InitInv DEF Inv, Init
<1>2. \A w \in Worker : HasCalled(w) = 0
  BY <1>1, EmptySeq DEF HasCalled
<1>3. Called = {}
  BY <1>1, <1>2, CalledIs
<1>4. (main = "returned") <=> Inputs = {}
  BY CountsAssumption DEF Init, Inputs
<1> QED BY <1>3, <1>4 DEF Abstract!Init

\* A call is a call for an input that was not called before.
LEMMA CallRefines ==
    ASSUME Inv, NEW v \in Worker, Call(v)
    PROVE  Abstract!Calls(Head(buffer[v]))
<1> DEFINE input == Head(buffer[v])
<1>1. /\ Inv' /\ input \in Inputs /\ input = Dealt(v, HasCalled(v) + 1)
  BY CallInv
<1>2. /\ calls' = [calls EXCEPT ![v] = Append(calls[v], input)]
      /\ at[v] \in {"calling", "finishing"} /\ main' = main
  BY DEF Call, caller
<1>3. main # "returned"
  BY <1>2 DEF Inv, Joined
<1>4. calls[v] \in Seq(Inputs) /\ HasCalled(v) \in Nat
  BY SequencesOf DEF Inv
<1> HIDE DEF input
<1>5. /\ \A w \in Worker : w # v => calls'[w] = calls[w] /\ HasCalled(w)' = HasCalled(w)
      /\ HasCalled(v)' = HasCalled(v) + 1
      /\ \A k \in 1 .. HasCalled(v) : calls'[v][k] = calls[v][k]
      /\ calls'[v][HasCalled(v) + 1] = input
  <2>1. calls'[v] = Append(calls[v], input)
    BY <1>2 DEF Inv, TypeOK
  <2>2. \A w \in Worker : w # v => calls'[w] = calls[w]
    BY <1>2 DEF Inv, TypeOK
  <2> QED BY <1>1, <1>4, <2>1, <2>2, AppendProperties DEF HasCalled
<1>6. input \notin Called
  <2> SUFFICES ASSUME input \in Called PROVE FALSE
    OBVIOUS
  <2>1. PICK w \in Worker : \E k \in 1 .. HasCalled(w) : calls[w][k] = input
    BY CalledIs DEF Inv
  <2>2. PICK k \in 1 .. HasCalled(w) : calls[w][k] = input
    BY <2>1
  <2>3. Dealt(w, k) = Dealt(v, HasCalled(v) + 1) /\ HasCalled(w) \in Nat
    BY <1>1, <2>2, SequencesOf DEF Inv, DealtInOrder, InOrder
  <2>4. k \in Nat \ {0} /\ HasCalled(v) + 1 \in Nat \ {0}
    BY <1>4, <2>2, <2>3
  <2>5. w = v /\ k = HasCalled(v) + 1
    BY <2>3, <2>4, DealtOnce
  <2> QED BY <1>4, <2>5
<1>7. \A x : x \in Called' <=>
          \E w \in Worker : \E k \in 1 .. HasCalled(w)' : calls'[w][k] = x
  <2>1. \A w \in Worker : \A k \in 1 .. HasCalled(w)' : calls'[w][k] \in Inputs
    <3> SUFFICES ASSUME NEW w \in Worker
                 PROVE  \A k \in 1 .. HasCalled(w)' : calls'[w][k] \in Inputs
      OBVIOUS
    <3>1. calls'[w] \in Seq(Inputs)
      BY <1>1 DEF Inv, TypeOK, Inputs
    <3> QED BY <3>1, LengthIsNat DEF HasCalled
  <2> QED BY <2>1 DEF Called, Inputs
<1>8. Called' = Called \union {input}
  <2>1. \A x : x \in Called => x \in Called'
    <3> SUFFICES ASSUME NEW x, x \in Called PROVE x \in Called'
      OBVIOUS
    <3>1. PICK w \in Worker : \E k \in 1 .. HasCalled(w) : calls[w][k] = x
      BY CalledIs DEF Inv
    <3>2. \E k \in 1 .. HasCalled(w)' : calls'[w][k] = x
      BY <1>4, <1>5, <3>1
    <3> QED BY <1>7, <3>2
  <2>2. input \in Called'
    <3>1. HasCalled(v) + 1 \in 1 .. HasCalled(v)'
      BY <1>4, <1>5
    <3> QED BY <1>5, <1>7, <3>1
  <2>3. \A x : x \in Called' => x \in Called \/ x = input
    <3> SUFFICES ASSUME NEW x, x \in Called' PROVE x \in Called \/ x = input
      OBVIOUS
    <3>1. PICK w \in Worker : \E k \in 1 .. HasCalled(w)' : calls'[w][k] = x
      BY <1>7
    <3>2. PICK k \in 1 .. HasCalled(w)' : calls'[w][k] = x
      BY <3>1
    <3>3. \A y : (\E u \in Worker : \E j \in 1 .. HasCalled(u) : calls[u][j] = y) => y \in Called
      BY CalledIs DEF Inv
    <3>4. CASE w # v
      BY <1>5, <3>2, <3>3, <3>4
    <3>5. CASE w = v /\ k = HasCalled(v) + 1
      BY <1>5, <3>2, <3>5
    <3>6. CASE w = v /\ k # HasCalled(v) + 1
      <4>1. k \in 1 .. HasCalled(v)
        BY <1>4, <1>5, <3>2, <3>6
      <4> QED BY <1>5, <3>2, <3>3, <3>6, <4>1
    <3> QED BY <3>4, <3>5, <3>6
  <2> QED BY <2>1, <2>2, <2>3
<1>9. input \in Inputs \ Called
  BY <1>1, <1>6
<1>10. /\ ~(main = "returned") /\ (main = "returned")' = (main = "returned")
  BY <1>2, <1>3
<1> QED BY <1>8, <1>9, <1>10 DEF Abstract!Calls, input

\* When the last worker is joined, every input has been called.
LEMMA ReturnRefines ==
    ASSUME Inv, Join, main' = "returned"
    PROVE  Abstract!Returns
<1>1. /\ main = "joining" /\ at[worker] = "exited" /\ worker = ThreadCount
      /\ calls' = calls
  BY DEF Join
<1>2. ThreadCount \in Nat /\ Worker = 1 .. ThreadCount
  BY CountsAssumption DEF Worker
<1>3. \A w \in Worker : at[w] = "exited"
  BY <1>1, <1>2 DEF Inv, Joined
<1>4. \A w \in Worker : Got(w) = HasCalled(w)
  <2> SUFFICES ASSUME NEW w \in Worker PROVE Got(w) = HasCalled(w)
    OBVIOUS
  <2>1. HasTaken(w) = 0 /\ HasQueued(w) = 0
    BY <1>3, EmptySeq DEF Inv, EndsEmpty, HasTaken, HasQueued
  <2>2. HasCalled(w) \in Nat
    BY SequencesOf DEF Inv
  <2> QED BY <2>1, <2>2 DEF Got
<1>5. it - 1 = InputCount
  BY <1>1, CountsAssumption DEF Inv, AllDealt
<1>6. ASSUME NEW i \in Inputs PROVE i \in Called
  <2>1. PICK w \in Worker : \E k \in 1 .. HasCalled(w) : i = Dealt(w, k)
    BY <1>4, <1>5 DEF Inv, AllDealt, Inputs
  <2>2. \E k \in 1 .. HasCalled(w) : calls[w][k] = i
    BY <2>1 DEF Inv, DealtInOrder, InOrder
  <2> QED BY <2>2, CalledIs DEF Inv
<1>7. ASSUME NEW x \in Called PROVE x \in Inputs
  <2>1. PICK w \in Worker : \E k \in 1 .. HasCalled(w) : calls[w][k] = x
    BY CalledIs DEF Inv
  <2>2. calls[w] \in Seq(Inputs)
    BY SequencesOf DEF Inv
  <2> QED BY <2>1, <2>2, LengthIsNat DEF HasCalled
<1>8. Called = Inputs
  BY <1>6, <1>7
<1>9. Called' = Called
  BY <1>1 DEF Called, HasCalled, Inputs
<1> QED BY <1>1, <1>8, <1>9 DEF Abstract!Returns

LEMMA StepRefines == Inv /\ [Next]_vars => [Abstract!Next]_(Abstract!vars)
<1> SUFFICES ASSUME Inv, [Next]_vars PROVE [Abstract!Next]_(Abstract!vars)
  OBVIOUS
<1>1. ASSUME NEW w \in Worker, Call(w)
      PROVE  Abstract!Next
  <2>1. Abstract!Calls(Head(buffer[w])) /\ Head(buffer[w]) \in Inputs
    BY <1>1, CallRefines, CallInv
  <2> QED BY <2>1 DEF Abstract!Next
<1>2. CASE Join /\ main' = "returned"
  BY <1>2, ReturnRefines DEF Abstract!Next
<1>3. ASSUME calls' = calls, (main' = "returned") <=> (main = "returned")
      PROVE  UNCHANGED Abstract!vars
  <2>1. Called' = Called
    BY <1>3 DEF Called, HasCalled, Inputs
  <2>2. (main = "returned")' = (main = "returned")
    BY <1>3
  <2> QED BY <2>1, <2>2 DEF Abstract!vars
<1>4. CASE Join /\ main' # "returned"
  BY <1>3, <1>4 DEF Join
<1>5. CASE AddWork \/ RequestStop \/ Returned \/ UNCHANGED vars
  <2>1. calls' = calls
    BY <1>5 DEF AddWork, RequestStop, Returned, vars
  <2>2. (main' = "returned") <=> (main = "returned")
    BY <1>5 DEF AddWork, RequestStop, Returned, vars, caller
  <2> QED BY <1>3, <2>1, <2>2
<1>6. ASSUME NEW w \in Worker,
             TestsToken(w) \/ PopAll(w) \/ StopsWaiting(w) \/ BufferDone(w) \/ TryPopAll(w)
      PROVE  UNCHANGED Abstract!vars
  <2>1. calls' = calls /\ main' = main
    BY <1>6 DEF TestsToken, PopAll, StopsWaiting, BufferDone, TryPopAll, caller
  <2> QED BY <1>3, <2>1
<1> QED BY <1>1, <1>2, <1>3, <1>4, <1>5, <1>6 DEF Next, Caller, Thread

-----------------------------------------------------------------------------
(* The theorems.                                                             *)

\* Inv holds in every reachable state.
THEOREM Invariance == Spec => []Inv
  BY InitInv, NextInv, PTL DEF Spec

\* Every variable keeps its type and no queue holds more than it may, for any
\* number of threads and inputs and any queue size.
THEOREM TypeCorrectness == Spec => []TypeOK
<1>1. Inv => TypeOK
  BY DEF Inv
<1> QED BY <1>1, Invariance, PTL

\* No input is lost, repeated or overtaken between the caller and the function.
THEOREM KeptInOrder == Spec => []DealtInOrder
<1>1. Inv => DealtInOrder
  BY DEF Inv
<1> QED BY <1>1, Invariance, PTL

\* The function is called at most once for each input, for none after the
\* return, and the return comes after all the calls: the safety part of
\* CalledOnceForEach.
THEOREM CallsOnceEach == Spec => Abstract!Init /\ [][Abstract!Next]_(Abstract!vars)
  BY InitRefines, StepRefines, Invariance, PTL DEF Spec

=============================================================================
