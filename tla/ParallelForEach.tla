--------------------------- MODULE ParallelForEach ---------------------------
(* parallel_for_each and its Workers (ps_usage_stats/parallel_for_each.cpp). *)
(* The calling thread deals the inputs out to the workers in turn, through a *)
(* bounded queue for each, and destroys the workers when there are no more.  *)
(* A Worker's jthread takes whatever is in its queue, calls the function for *)
(* each, and once it is asked to stop takes what is left.  The blocking      *)
(* queue is the library's: push waits for room, pop_all waits for an element *)
(* or a stop request, try_pop_all does not wait.                             *)
EXTENDS Naturals, Sequences

CONSTANTS ThreadCount, InputCount, QueueSize

ASSUME CountsAssumption ==
    /\ ThreadCount \in Nat \ {0}
    /\ InputCount \in Nat
    /\ QueueSize \in Nat \ {0}

Worker == 1 .. ThreadCount
Inputs == 1 .. InputCount

VARIABLES
    main,      \* the caller: "dealing", "stopping", "joining", "returned"
    it,        \* the next input
    worker,    \* the worker that it goes to, or that is being destroyed
    queue,     \* m_queue of each worker
    stop,      \* its stop token
    at,        \* where its thread is
    buffer,    \* what is left of the elements it took
    calls      \* the inputs it called the function for, in order

caller == <<main, it, worker>>
vars == <<caller, queue, stop, at, buffer, calls>>

Init ==
    /\ main = IF InputCount = 0 THEN "returned" ELSE "dealing"
    /\ it = 1
    /\ worker = 1
    /\ queue = [w \in Worker |-> << >>]
    /\ stop = [w \in Worker |-> FALSE]
    /\ at = [w \in Worker |-> IF InputCount = 0 THEN "exited" ELSE "testing"]
    /\ buffer = [w \in Worker |-> << >>]
    /\ calls = [w \in Worker |-> << >>]

-----------------------------------------------------------------------------
(* The caller.                                                               *)

\* The for loop over the workers starts again after the last one.
NextWorker == IF worker = ThreadCount THEN 1 ELSE worker + 1

\* add_work(*it): push blocks while the queue is full.
AddWork ==
    /\ main = "dealing"
    /\ Len(queue[worker]) < QueueSize
    /\ queue' = [queue EXCEPT ![worker] = Append(@, it)]
    /\ it' = it + 1
    /\ IF it = InputCount THEN main' = "stopping" /\ worker' = 1
                          ELSE main' = main /\ worker' = NextWorker
    /\ UNCHANGED <<stop, at, buffer, calls>>

\* ~Worker destroys m_thread first: ~jthread requests the stop ...
RequestStop ==
    /\ main = "stopping"
    /\ stop' = [stop EXCEPT ![worker] = TRUE]
    /\ main' = "joining"
    /\ UNCHANGED <<it, worker, queue, at, buffer, calls>>

\* ... and joins the thread.
Join ==
    /\ main = "joining"
    /\ at[worker] = "exited"
    /\ IF worker = ThreadCount THEN main' = "returned" /\ worker' = worker
                               ELSE main' = "stopping" /\ worker' = worker + 1
    /\ UNCHANGED <<it, queue, stop, at, buffer, calls>>

-----------------------------------------------------------------------------
(* The thread of worker w.                                                   *)

\* while (!token.stop_requested())
TestsToken(w) ==
    /\ at[w] = "testing"
    /\ at' = [at EXCEPT ![w] = IF stop[w] THEN "draining" ELSE "waiting"]
    /\ UNCHANGED <<caller, queue, stop, buffer, calls>>

\* pop_all(token, buffer) returns with everything in the queue ...
PopAll(w) ==
    /\ at[w] = "waiting"
    /\ queue[w] # << >>
    /\ buffer' = [buffer EXCEPT ![w] = queue[w]]
    /\ queue' = [queue EXCEPT ![w] = << >>]
    /\ at' = [at EXCEPT ![w] = "calling"]
    /\ UNCHANGED <<caller, stop, calls>>

\* ... or with nothing, once a stop is requested.
StopsWaiting(w) ==
    /\ at[w] = "waiting"
    /\ stop[w]
    /\ at' = [at EXCEPT ![w] = "calling"]
    /\ UNCHANGED <<caller, queue, stop, buffer, calls>>

\* Mutant: the newest element is taken first.
MutCall(w) ==
    /\ at[w] \in {"calling", "finishing"}
    /\ buffer[w] # << >>
    /\ LET last == Len(buffer[w]) IN
       /\ calls' = [calls EXCEPT ![w] = Append(@, buffer[w][last])]
       /\ buffer' = [buffer EXCEPT ![w] = SubSeq(@, 1, last - 1)]
    /\ UNCHANGED <<caller, queue, stop, at>>

\* call(result), in the loop or in the drain that follows it.
Call(w) ==
    /\ at[w] \in {"calling", "finishing"}
    /\ buffer[w] # << >>
    /\ calls' = [calls EXCEPT ![w] = Append(@, Head(buffer[w]))]
    /\ buffer' = [buffer EXCEPT ![w] = Tail(@)]
    /\ UNCHANGED <<caller, queue, stop, at>>

\* The buffer is done: back to the test, or out of the thread function.
BufferDone(w) ==
    /\ at[w] \in {"calling", "finishing"}
    /\ buffer[w] = << >>
    /\ at' = [at EXCEPT ![w] = IF at[w] = "calling" THEN "testing" ELSE "exited"]
    /\ UNCHANGED <<caller, queue, stop, buffer, calls>>

\* Mutant: the thread ends with the loop.
MutTryPopAll(w) ==
    /\ at[w] = "draining"
    /\ at' = [at EXCEPT ![w] = "finishing"]
    /\ UNCHANGED <<caller, queue, stop, buffer, calls>>

\* try_pop_all: what was pushed between the last pop_all and the stop request.
TryPopAll(w) ==
    /\ at[w] = "draining"
    /\ buffer' = [buffer EXCEPT ![w] = queue[w]]
    /\ queue' = [queue EXCEPT ![w] = << >>]
    /\ at' = [at EXCEPT ![w] = "finishing"]
    /\ UNCHANGED <<caller, stop, calls>>

-----------------------------------------------------------------------------
Caller == AddWork \/ RequestStop \/ Join

Thread(w) ==
    \/ TestsToken(w) \/ PopAll(w) \/ StopsWaiting(w)
    \/ Call(w) \/ BufferDone(w) \/ TryPopAll(w)

Returned == main = "returned" /\ UNCHANGED vars

Next == Caller \/ (\E w \in Worker : Thread(w)) \/ Returned

\* The operating system runs every thread that can go on.
Spec == Init /\ [][Next]_vars /\ WF_vars(Caller) /\ \A w \in Worker : WF_vars(Thread(w))

-----------------------------------------------------------------------------
(* The properties.                                                           *)

\* How many inputs a worker has dealt with, has taken and has yet to take.
HasCalled(w) == Len(calls[w])
HasTaken(w) == Len(buffer[w])
HasQueued(w) == Len(queue[w])

\* Every variable has its type; no queue holds more than it may.
TypeOK ==
    /\ main \in {"dealing", "stopping", "joining", "returned"}
    /\ it \in 1 .. (InputCount + 1) /\ worker \in Worker
    /\ queue \in [Worker -> Seq(Inputs)] /\ \A w \in Worker : HasQueued(w) <= QueueSize
    /\ stop \in [Worker -> BOOLEAN]
    /\ at \in [Worker -> {"testing", "waiting", "calling", "draining", "finishing", "exited"}]
    /\ buffer \in [Worker -> Seq(Inputs)]
    /\ calls \in [Worker -> Seq(Inputs)]

\* The k-th input that worker w gets.
Dealt(w, k) == w + (k - 1) * ThreadCount

\* What a worker called, took or still has in its queue is what it got, in order.
InOrder(w) ==
    /\ \A k \in 1 .. HasCalled(w) : calls[w][k] = Dealt(w, k)
    /\ \A k \in 1 .. HasTaken(w) : buffer[w][k] = Dealt(w, HasCalled(w) + k)
    /\ \A k \in 1 .. HasQueued(w) :
           queue[w][k] = Dealt(w, HasCalled(w) + HasTaken(w) + k)

\* No input is lost, repeated or overtaken on its way through a queue and a
\* buffer to the function, whenever the thread wakes up (lines 33-46).
DealtInOrder == \A w \in Worker : InOrder(w)

\* parallel_for_each implements ForEach.
Called == {i \in Inputs : \E w \in Worker : \E k \in 1 .. HasCalled(w) : calls[w][k] = i}

Abstract == INSTANCE ForEach WITH called <- Called, returned <- (main = "returned")

\* The function is called once for each input, all calls are over when
\* parallel_for_each returns, and it does return.
CalledOnceForEach == Abstract!Spec

=============================================================================
