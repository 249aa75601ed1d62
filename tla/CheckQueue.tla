----------------------------- MODULE CheckQueue ------------------------------
(***************************************************************************)
(* The script check queue (checkqueue.h): worker threads and, once it has  *)
(* handed over all the checks of a block, the thread that connects the     *)
(* block (the master) run the checks and collect one verdict.              *)
(*                                                                         *)
(* A step is one holding of the queue's mutex by a thread, from where it   *)
(* locks it to where it unlocks it or waits.  The checks a thread runs     *)
(* without the mutex touch nothing shared, so they are part of the step in *)
(* which the thread takes the mutex again.  The queue is a set: "the order *)
(* of booleans doesn't matter".                                            *)
(***************************************************************************)
EXTENDS Naturals, FiniteSets

CONSTANTS
    Workers,     \* the threads of ThreadScriptCheck
    Master,      \* the thread that holds controlMutex
    Checks,      \* script checks
    BadChecks,   \* the checks that return false
    nBatchSize

ASSUME QueueAssumption ==
    /\ Master \notin Workers
    /\ IsFiniteSet(Workers) /\ IsFiniteSet(Checks)
    /\ BadChecks \subseteq Checks
    /\ nBatchSize \in Nat \ {0}

Threads == Workers \cup {Master}

VARIABLES
    queue,
    nIdle,
    nTotal,
    fAllOk,
    nTodo,
    vChecks,      \* per thread: its own batch
    fOk,          \* per thread: fAllOk when it took its batch
    pc,           \* per thread
    interrupted,  \* the threads with an interruption request pending
    fShutdown,    \* threadGroup.interrupt_all() was called
    added,        \* the checks the master has handed over for this block
    verdict       \* what its last Wait returned

state  == <<queue, nIdle, nTotal, fAllOk, nTodo>>
local  == <<vChecks, fOk>>
signal == <<interrupted, fShutdown>>
vars   == <<state, local, pc, signal, added, verdict>>

\* A thread is "new" before its first turn of Loop's do, "busy" between two turns,
\* "waiting" in cond.wait, "woken" when it has to return from there; a worker can
\* have "ended", and the master be outside of the queue ("idle") or "adding".
Init ==
    /\ queue = {}
    /\ nIdle = 0 /\ nTotal = 0 /\ nTodo = 0
    /\ fAllOk = TRUE
    /\ vChecks = [t \in Threads |-> {}]
    /\ fOk = [t \in Threads |-> TRUE]
    /\ pc = [t \in Threads |-> IF t = Master THEN "idle" ELSE "new"]
    /\ interrupted = {} /\ fShutdown = FALSE
    /\ added = {}
    /\ verdict = TRUE

Waiting == {t \in Workers : pc[t] = "waiting"}

-----------------------------------------------------------------------------
\* The master

\* CCheckQueueControl's constructor; its assertions are ControlAsserts.
Control ==
    /\ pc[Master] = "idle"
    /\ added' = {}
    /\ pc' = [pc EXCEPT ![Master] = "adding"]
    /\ UNCHANGED <<state, local, signal, verdict>>

\* CCheckQueue::Add: one check wakes one worker, more wake all.
Add(checks) ==
    /\ pc[Master] = "adding"
    /\ checks \subseteq Checks \ added /\ checks # {}
    /\ queue' = queue \cup checks
    /\ nTodo' = nTodo + Cardinality(checks)
    /\ added' = added \cup checks
    /\ \E woken \in SUBSET Waiting :
        /\ IF Cardinality(checks) > 1 \/ Waiting = {} THEN woken = Waiting
           ELSE \E t \in Waiting : woken = {t}
        /\ pc' = [t \in Threads |-> IF t \in woken THEN "woken" ELSE pc[t]]
    /\ UNCHANGED <<nIdle, nTotal, fAllOk, local, signal, verdict>>

\* CCheckQueueControl::Wait, called by ConnectBlock or, when it returned early, by
\* the destructor.
Wait ==
    /\ pc[Master] = "adding"
    /\ pc' = [pc EXCEPT ![Master] = "new"]
    /\ UNCHANGED <<state, local, signal, added, verdict>>

-----------------------------------------------------------------------------
\* CCheckQueue::Loop, for the master and for the workers

\* How many checks to take at once, of a queue with n.
BatchSize(n, total, idle) ==
    LET share == n \div (total + idle + 1)
    IN  IF share > nBatchSize THEN nBatchSize ELSE IF share = 0 THEN 1 ELSE share

\* "Decide how many work units to process now", and leave the mutex with them.
Take(t, next, total, idle, todo, allOk) ==
    \E batch \in SUBSET queue :
        /\ Cardinality(batch) = BatchSize(Cardinality(queue), total, idle)
        /\ queue' = queue \ batch
        /\ vChecks' = [vChecks EXCEPT ![t] = batch]
        /\ fOk' = [fOk EXCEPT ![t] = allOk]
        /\ pc' = [next EXCEPT ![t] = "busy"]
        /\ nTotal' = total /\ nIdle' = idle /\ nTodo' = todo /\ fAllOk' = allOk
        /\ UNCHANGED <<interrupted, verdict>>

\* Mutant: the master stays counted as a worker.
Return_KeepsTotal(next, total, idle, todo, allOk) ==
    /\ verdict' = allOk
    /\ fAllOk' = TRUE
    /\ nTotal' = total /\ nIdle' = idle /\ nTodo' = todo
    /\ vChecks' = [vChecks EXCEPT ![Master] = {}]
    /\ pc' = [next EXCEPT ![Master] = "idle"]
    /\ UNCHANGED <<queue, fOk, interrupted>>

\* The master returns the verdict and resets it.
Return(next, total, idle, todo, allOk) ==
    /\ verdict' = allOk
    /\ fAllOk' = TRUE
    /\ nTotal' = total - 1 /\ nIdle' = idle /\ nTodo' = todo
    /\ vChecks' = [vChecks EXCEPT ![Master] = {}]
    /\ pc' = [next EXCEPT ![Master] = "idle"]
    /\ UNCHANGED <<queue, fOk, interrupted>>

\* The thread waits; if it was interrupted before, cond.wait() throws: see Throw.
Sleep(t, next, total, idle, todo, allOk) ==
    /\ nTotal' = total /\ nIdle' = idle + 1 /\ nTodo' = todo /\ fAllOk' = allOk
    /\ vChecks' = [vChecks EXCEPT ![t] = {}]
    /\ pc' = [next EXCEPT ![t] = "waiting"]
    /\ UNCHANGED <<queue, fOk, interrupted, verdict>>

\* "Logically, the do loop starts here."
Section(t, next, total, idle, todo, allOk) ==
    /\ IF queue # {} THEN Take(t, next, total, idle, todo, allOk)
       ELSE IF t = Master /\ todo = 0 THEN Return(next, total, idle, todo, allOk)
       ELSE Sleep(t, next, total, idle, todo, allOk)
    /\ UNCHANGED <<fShutdown, added>>

\* The first turn of the loop.
Enter(t) ==
    /\ pc[t] = "new"
    /\ Section(t, pc, nTotal + 1, nIdle, nTodo, fAllOk)

\* Mutant: the master is not told.
Finish_NoNotify(t) ==
    LET fOkNow == fOk[t] /\ vChecks[t] \cap BadChecks = {}
        todo   == nTodo - Cardinality(vChecks[t])
    IN  /\ pc[t] = "busy"
        /\ Section(t, pc, nTotal, nIdle, todo, fAllOk /\ fOkNow)

\* Mutant: the verdict of the last batch overwrites the others.
Finish_LastWins(t) ==
    LET fOkNow == vChecks[t] \cap BadChecks = {}
        todo   == nTodo - Cardinality(vChecks[t])
        next   == IF todo = 0 /\ pc[Master] = "waiting"
                  THEN [pc EXCEPT ![Master] = "woken"] ELSE pc
    IN  /\ pc[t] = "busy"
        /\ Section(t, next, nTotal, nIdle, todo, fOkNow)

\* The batch is done; the worker that completes the last one wakes the master.
Finish(t) ==
    LET fOkNow == fOk[t] /\ vChecks[t] \cap BadChecks = {}
        todo   == nTodo - Cardinality(vChecks[t])
        next   == IF todo = 0 /\ pc[Master] = "waiting"
                  THEN [pc EXCEPT ![Master] = "woken"] ELSE pc
    IN  /\ pc[t] = "busy"
        /\ Section(t, next, nTotal, nIdle, todo, fAllOk /\ fOkNow)

\* cond.wait() returns.
Wake(t) ==
    /\ pc[t] = "woken"
    /\ Section(t, pc, nTotal, nIdle - 1, nTodo, fAllOk)

\* cond.wait() may return without a notification.
Spurious(t) ==
    /\ pc[t] = "waiting"
    /\ pc' = [pc EXCEPT ![t] = "woken"]
    /\ UNCHANGED <<state, local, signal, added, verdict>>

\* cond.wait() throws: a worker ends, and in the master the destructor of the
\* control object calls Wait again.  The counters keep counting the lost call.
Throw(t) ==
    /\ t \in interrupted
    /\ pc[t] \in {"waiting", "woken"}
    /\ interrupted' = interrupted \ {t}
    /\ pc' = [pc EXCEPT ![t] = IF t = Master THEN "new" ELSE "ended"]
    /\ UNCHANGED <<state, local, fShutdown, added, verdict>>

\* Shutdown: threadGroup.interrupt_all().
InterruptAll ==
    /\ ~fShutdown
    /\ fShutdown' = TRUE
    /\ interrupted' = Threads
    /\ UNCHANGED <<state, local, pc, added, verdict>>

LoopStep(t) == Enter(t) \/ Finish(t) \/ Wake(t) \/ Throw(t)

Next ==
    \/ Control \/ Wait \/ InterruptAll
    \/ \E checks \in SUBSET Checks : Add(checks)
    \/ \E t \in Threads : LoopStep(t) \/ Spurious(t)

Spec == Init /\ [][Next]_vars

\* A script check ends, and boost's mutexes let every thread in.
FairSpec == Spec /\ \A t \in Threads : WF_vars(LoopStep(t))

-----------------------------------------------------------------------------
\* Properties

TypeOK ==
    /\ queue \subseteq Checks
    /\ nIdle \in Nat /\ nTotal \in Nat /\ nTodo \in Nat
    /\ fAllOk \in BOOLEAN
    /\ vChecks \in [Threads -> SUBSET Checks]
    /\ fOk \in [Threads -> BOOLEAN]
    /\ pc \in [Threads -> {"new", "busy", "waiting", "woken", "ended", "idle", "adding"}]
    /\ interrupted \subseteq Threads /\ fShutdown \in BOOLEAN
    /\ added \subseteq Checks
    /\ verdict \in BOOLEAN

\* The assertions of CCheckQueueControl's constructor hold whenever a thread may
\* construct one, also after workers, and a master, were interrupted: no thread is
\* still at work on the checks of an earlier block.
ControlAsserts ==
    pc[Master] = "idle" => nTotal = nIdle /\ nTodo = 0 /\ fAllOk

\* What Wait returns says whether all the checks handed over for the block
\* succeeded, whichever threads ran them, in whatever order and batches, and
\* whichever of them were skipped after a failure.
VerdictIsRight ==
    pc[Master] = "idle" => (verdict <=> added \cap BadChecks = {})

\* A thread that has called Wait returns from it, through spurious wake-ups and the
\* end of every worker.
WaitReturns == pc[Master] \in {"new", "busy", "waiting", "woken"} ~> pc[Master] = "idle"
=============================================================================
