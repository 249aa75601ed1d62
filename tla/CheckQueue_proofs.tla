-------------------------- MODULE CheckQueue_proofs --------------------------
(***************************************************************************)
(* For any number of workers, any checks and any batch size: the verdict   *)
(* Wait returns is right, and the assertions of CCheckQueueControl never   *)
(* fail.                                                                   *)
(***************************************************************************)
EXTENDS CheckQueue, FiniteSetTheorems, TLAPS

Busy == {t \in Threads : pc[t] = "busy"}

Sleepers == {t \in Threads : pc[t] \in {"waiting", "woken"}}

Held(ts) == UNION {vChecks[t] : t \in ts}

\* The checks that have not completed: "elements that are not anymore in queue, but
\* still in worker's own batches" included.
Pending == queue \cup Held(Threads)

BatchInv ==
    \A t \in Threads :
        /\ pc[t] = "busy" <=> vChecks[t] # {}
        /\ vChecks[t] \cap queue = {}
        /\ \A u \in Threads : u # t => vChecks[t] \cap vChecks[u] = {}

CountInv ==
    /\ nTodo = Cardinality(Pending)
    /\ nTotal = nIdle + Cardinality(Busy)
    /\ nIdle >= Cardinality(Sleepers)

VerdictInv ==
    /\ Pending \subseteq added
    /\ pc[Master] # "idle" =>
        /\ fAllOk => (added \ Pending) \cap BadChecks = {}
        /\ ~fAllOk => added \cap BadChecks # {}
    /\ \A t \in Busy : ~fOk[t] => ~fAllOk

IdleInv ==
    pc[Master] = "idle" => Pending = {} /\ fAllOk /\ VerdictIsRight

QInv == TypeOK /\ BatchInv /\ CountInv /\ VerdictInv /\ IdleInv

-----------------------------------------------------------------------------

\* The sets whose sizes nTodo, nTotal and nIdle count are finite.
LEMMA FiniteParts ==
    /\ IsFiniteSet(Threads)
    /\ \A S \in SUBSET Threads : IsFiniteSet(S) /\ Cardinality(S) \in Nat
    /\ \A S \in SUBSET Checks : IsFiniteSet(S) /\ Cardinality(S) \in Nat
<1>1. IsFiniteSet(Threads)
    BY QueueAssumption, FS_AddElement DEF Threads
<1>2. \A S \in SUBSET Threads : IsFiniteSet(S) /\ Cardinality(S) \in Nat
    BY <1>1, FS_Subset, FS_CardinalityType
<1>3. \A S \in SUBSET Checks : IsFiniteSet(S) /\ Cardinality(S) \in Nat
    BY QueueAssumption, FS_Subset, FS_CardinalityType
<1> QED
    BY <1>1, <1>2, <1>3

\* A batch has at least one check.
LEMMA BatchNotEmpty ==
    ASSUME NEW n \in Nat, NEW total \in Nat, NEW idle \in Nat
    PROVE  BatchSize(n, total, idle) # 0
BY QueueAssumption DEF BatchSize

\* What holds of the values a thread has worked out when it comes to the top of the
\* loop, its own batch done: Rest are the checks left.
Top(t, next, total, idle, todo, allOk) ==
    LET Rest == queue \cup Held(Threads \ {t})
    IN  /\ pc[t] \in {"new", "busy", "woken"}
        /\ \/ next = pc
           \/ t # Master /\ pc[Master] = "waiting" /\ next = [pc EXCEPT ![Master] = "woken"]
        /\ total \in Nat /\ idle \in Nat /\ todo \in Nat /\ allOk \in BOOLEAN
        /\ todo = Cardinality(Rest)
        /\ total = idle + Cardinality(Busy \ {t}) + 1
        /\ idle >= Cardinality(Sleepers \ {t})
        /\ pc[Master] # "idle" =>
            /\ allOk => (added \ Rest) \cap BadChecks = {}
            /\ ~allOk => added \cap BadChecks # {}
        /\ \A u \in Busy \ {t} : ~fOk[u] => ~allOk
        /\ pc[Master] = "idle" => Rest = {} /\ allOk

\* The critical section of Loop, which workers and master share, keeps the invariant.
LEMMA SectionInv ==
    ASSUME QInv, NEW t \in Threads, NEW next, NEW total, NEW idle, NEW todo, NEW allOk,
           Top(t, next, total, idle, todo, allOk),
           Section(t, next, total, idle, todo, allOk)
    PROVE  QInv'
<1> DEFINE Rest == queue \cup Held(Threads \ {t})
<1>1. /\ next \in [Threads -> {"new", "busy", "waiting", "woken", "ended", "idle", "adding"}]
      /\ \A u \in Threads \ {t} : /\ next[u] = "busy" <=> pc[u] = "busy"
                                  /\ next[u] = "idle" <=> pc[u] = "idle"
                                  /\ next[u] \in {"waiting", "woken"} <=>
                                        pc[u] \in {"waiting", "woken"}
    BY DEF Top, QInv, TypeOK
<1>2. /\ queue \in SUBSET Checks /\ Rest \in SUBSET Checks /\ Rest \subseteq added
      /\ Busy \ {t} \in SUBSET Threads /\ Sleepers \ {t} \in SUBSET Threads
    BY DEF QInv, TypeOK, VerdictInv, Pending, Held, Busy, Sleepers
<1>3. /\ IsFiniteSet(Busy \ {t}) /\ Cardinality(Busy \ {t}) \in Nat
      /\ IsFiniteSet(Sleepers \ {t}) /\ Cardinality(Sleepers \ {t}) \in Nat
      /\ IsFiniteSet(Rest) /\ Cardinality(Rest) \in Nat
      /\ IsFiniteSet(queue) /\ Cardinality(queue) \in Nat
    BY <1>2, FiniteParts
<1>4. CASE Take(t, next, total, idle, todo, allOk) /\ queue # {}
    <2>1. PICK batch \in SUBSET queue :
            /\ Cardinality(batch) = BatchSize(Cardinality(queue), total, idle)
            /\ queue' = queue \ batch
            /\ vChecks' = [vChecks EXCEPT ![t] = batch]
            /\ fOk' = [fOk EXCEPT ![t] = allOk]
            /\ pc' = [next EXCEPT ![t] = "busy"]
            /\ nTotal' = total /\ nIdle' = idle /\ nTodo' = todo /\ fAllOk' = allOk
            /\ UNCHANGED <<interrupted, verdict, fShutdown, added>>
        BY <1>4 DEF Take, Section
    <2>2. batch # {}
        BY <1>3, <2>1, BatchNotEmpty, FS_EmptySet DEF Top
    <2>3. Pending' = Rest
        BY <2>1 DEF Pending, Held, QInv, TypeOK
    <2>4. Busy' = (Busy \ {t}) \cup {t} /\ Sleepers' = Sleepers \ {t}
        BY <1>1, <2>1 DEF Busy, Sleepers
    <2>5. Cardinality(Busy') = Cardinality(Busy \ {t}) + 1
        BY <1>3, <2>4, FS_AddElement
    <2>6. pc'[Master] # "idle" /\ pc[Master] # "idle"
        <3>1. pc[Master] # "idle"
            BY <1>4 DEF Top
        <3> QED
            BY <3>1, <1>1, <2>1 DEF Threads
    <2>7. TypeOK'
        BY <1>1, <2>1 DEF QInv, TypeOK, Top
    <2>8. BatchInv'
        BY <1>1, <2>1, <2>2 DEF QInv, TypeOK, BatchInv
    <2>9. CountInv'
        BY <1>3, <2>1, <2>3, <2>4, <2>5 DEF CountInv, Top
    <2>10. VerdictInv'
        BY <1>2, <2>1, <2>3, <2>4, <2>6 DEF VerdictInv, Top, QInv, TypeOK, Busy
    <2>11. IdleInv'
        BY <2>6 DEF IdleInv
    <2> QED
        BY <2>7, <2>8, <2>9, <2>10, <2>11 DEF QInv
<1>5. CASE t = Master /\ todo = 0 /\ queue = {} /\ Return(next, total, idle, todo, allOk)
    <2>1. /\ verdict' = allOk /\ fAllOk' = TRUE
          /\ nTotal' = total - 1 /\ nIdle' = idle /\ nTodo' = todo
          /\ vChecks' = [vChecks EXCEPT ![t] = {}]
          /\ pc' = [next EXCEPT ![t] = "idle"]
          /\ UNCHANGED <<queue, fOk, interrupted, fShutdown, added>>
        BY <1>5 DEF Return, Section
    <2>2. Rest = {}
        BY <1>3, <1>5, FS_EmptySet DEF Top
    <2>3. Pending' = {}
        BY <2>1, <2>2 DEF Pending, Held, QInv, TypeOK
    <2>4. Busy' = Busy \ {t} /\ Sleepers' = Sleepers \ {t}
        BY <1>1, <2>1 DEF Busy, Sleepers
    <2>5. Busy \ {t} = {}
        BY <2>2 DEF Held, Busy, QInv, BatchInv
    <2>6. pc[Master] # "idle"
        BY <1>5 DEF Top
    <2>7. verdict' <=> added' \cap BadChecks = {}
        BY <1>2, <2>1, <2>2, <2>6 DEF Top
    <2>8. TypeOK'
        BY <1>1, <1>3, <2>1 DEF QInv, TypeOK, Top
    <2>9. BatchInv'
        BY <1>1, <2>1 DEF QInv, TypeOK, BatchInv
    <2>10. CountInv'
        BY <1>3, <1>5, <2>1, <2>3, <2>4, FS_EmptySet DEF CountInv, Top
    <2>11. VerdictInv'
        <3>1. pc'[Master] = "idle"
            BY <1>1, <1>5, <2>1
        <3> QED
            BY <2>3, <2>4, <2>5, <3>1 DEF VerdictInv
    <2>12. IdleInv'
        BY <2>1, <2>3, <2>7 DEF IdleInv, VerdictIsRight
    <2> QED
        BY <2>8, <2>9, <2>10, <2>11, <2>12 DEF QInv
<1>6. CASE queue = {} /\ Sleep(t, next, total, idle, todo, allOk)
    <2>1. /\ nTotal' = total /\ nIdle' = idle + 1 /\ nTodo' = todo /\ fAllOk' = allOk
          /\ vChecks' = [vChecks EXCEPT ![t] = {}]
          /\ pc' = [next EXCEPT ![t] = "waiting"]
          /\ UNCHANGED <<queue, fOk, interrupted, verdict, fShutdown, added>>
        BY <1>6 DEF Sleep, Section
    <2>2. Pending' = Rest
        BY <2>1 DEF Pending, Held, QInv, TypeOK
    <2>3. Busy' = Busy \ {t} /\ Sleepers' = (Sleepers \ {t}) \cup {t}
        BY <1>1, <2>1 DEF Busy, Sleepers
    <2>4. Cardinality(Sleepers') = Cardinality(Sleepers \ {t}) + 1
        BY <1>3, <2>3, FS_AddElement
    <2>5. pc'[Master] = "idle" <=> pc[Master] = "idle"
        BY <1>1, <2>1 DEF Top, Threads
    <2>6. TypeOK'
        BY <1>1, <2>1 DEF QInv, TypeOK, Top
    <2>7. BatchInv'
        BY <1>1, <2>1 DEF QInv, TypeOK, BatchInv
    <2>8. CountInv'
        BY <1>3, <2>1, <2>2, <2>3, <2>4 DEF CountInv, Top
    <2>9. VerdictInv'
        BY <1>2, <2>1, <2>2, <2>3, <2>5 DEF VerdictInv, Top, QInv, TypeOK
    <2>10. IdleInv'
        BY <2>1, <2>2, <2>5 DEF IdleInv, VerdictIsRight, Top, QInv
    <2> QED
        BY <2>6, <2>7, <2>8, <2>9, <2>10 DEF QInv
<1> QED
    BY <1>4, <1>5, <1>6 DEF Section

-----------------------------------------------------------------------------

\* A thread enters the loop: one more worker.
LEMMA EnterInv == ASSUME QInv, NEW t \in Threads, Enter(t)  PROVE QInv'
<1>1. /\ pc[t] = "new" /\ vChecks[t] = {}
      /\ Section(t, pc, nTotal + 1, nIdle, nTodo, fAllOk)
    BY DEF Enter, QInv, BatchInv
<1>2. Busy \ {t} = Busy /\ Sleepers \ {t} = Sleepers
    BY <1>1 DEF Busy, Sleepers
<1>3. queue \cup Held(Threads \ {t}) = Pending
    BY <1>1 DEF Pending, Held
<1>4. Busy \in SUBSET Threads /\ Cardinality(Busy) \in Nat
    BY FiniteParts DEF Busy
<1>5. /\ nTotal + 1 \in Nat /\ nTotal + 1 = nIdle + Cardinality(Busy) + 1
      /\ nIdle >= Cardinality(Sleepers) /\ nTodo = Cardinality(Pending)
    BY <1>4 DEF QInv, TypeOK, CountInv
<1>6. Top(t, pc, nTotal + 1, nIdle, nTodo, fAllOk)
    BY <1>1, <1>2, <1>3, <1>5 DEF Top, QInv, TypeOK, VerdictInv, IdleInv
<1> QED
    BY <1>1, <1>6, SectionInv

\* cond.wait() returns: one idle worker fewer.
LEMMA WakeInv == ASSUME QInv, NEW t \in Threads, Wake(t)  PROVE QInv'
<1>1. /\ pc[t] = "woken" /\ vChecks[t] = {}
      /\ Section(t, pc, nTotal, nIdle - 1, nTodo, fAllOk)
    BY DEF Wake, QInv, BatchInv
<1>2. Busy \ {t} = Busy /\ t \in Sleepers
    BY <1>1 DEF Busy, Sleepers
<1>3. queue \cup Held(Threads \ {t}) = Pending
    BY <1>1 DEF Pending, Held
<1>4. Busy \in SUBSET Threads /\ Sleepers \in SUBSET Threads
    BY DEF Busy, Sleepers
<1>5. /\ Cardinality(Busy) \in Nat /\ Cardinality(Sleepers) \in Nat
      /\ Cardinality(Sleepers \ {t}) \in Nat
      /\ Cardinality(Sleepers \ {t}) = Cardinality(Sleepers) - 1
    BY <1>2, <1>4, FiniteParts, FS_RemoveElement
<1>6. /\ nIdle \in Nat /\ nTotal \in Nat
      /\ nIdle >= Cardinality(Sleepers) /\ nTotal = nIdle + Cardinality(Busy)
    BY DEF QInv, TypeOK, CountInv
<1>7. /\ nIdle - 1 \in Nat /\ nIdle - 1 >= Cardinality(Sleepers \ {t})
      /\ nTotal = nIdle - 1 + Cardinality(Busy) + 1
    BY <1>5, <1>6
<1>8. Top(t, pc, nTotal, nIdle - 1, nTodo, fAllOk)
    BY <1>1, <1>2, <1>3, <1>7 DEF Top, QInv, TypeOK, CountInv, VerdictInv, IdleInv
<1> QED
    BY <1>1, <1>8, SectionInv

\* A thread has run its batch.
LEMMA FinishInv == ASSUME QInv, NEW t \in Threads, Finish(t)  PROVE QInv'
<1> DEFINE fOkNow == fOk[t] /\ vChecks[t] \cap BadChecks = {}
           todo   == nTodo - Cardinality(vChecks[t])
           next   == IF todo = 0 /\ pc[Master] = "waiting"
                     THEN [pc EXCEPT ![Master] = "woken"] ELSE pc
           Rest   == queue \cup Held(Threads \ {t})
<1>1. pc[t] = "busy" /\ Section(t, next, nTotal, nIdle, todo, fAllOk /\ fOkNow)
    BY DEF Finish
<1>2. /\ vChecks[t] \subseteq Pending /\ Rest = Pending \ vChecks[t]
      /\ Pending \in SUBSET Checks /\ Pending \subseteq added /\ vChecks[t] # {}
    BY <1>1 DEF Pending, Held, QInv, TypeOK, BatchInv, VerdictInv
<1>3. todo \in Nat /\ todo = Cardinality(Rest)
    <2>1. Pending \cap vChecks[t] = vChecks[t] /\ IsFiniteSet(Pending)
        BY <1>2, FiniteParts
    <2>2. /\ Rest \in SUBSET Checks
          /\ Cardinality(Rest) = Cardinality(Pending) - Cardinality(vChecks[t])
        BY <1>2, <2>1, FS_Difference
    <2> QED
        BY <2>2, FiniteParts DEF QInv, CountInv
<1>4. Sleepers \ {t} = Sleepers /\ t \in Busy
    BY <1>1 DEF Busy, Sleepers
<1>5. Busy \in SUBSET Threads
    BY DEF Busy
<1>6. /\ Cardinality(Busy) \in Nat /\ Cardinality(Busy \ {t}) \in Nat
      /\ Cardinality(Busy \ {t}) = Cardinality(Busy) - 1
    BY <1>4, <1>5, FiniteParts, FS_RemoveElement
<1>7. nTotal = nIdle + Cardinality(Busy \ {t}) + 1 /\ nTotal \in Nat /\ nIdle \in Nat
    BY <1>6 DEF QInv, CountInv, TypeOK
<1>8. pc[Master] # "idle"
    BY <1>2 DEF QInv, IdleInv
<1>9. \/ next = pc
      \/ t # Master /\ pc[Master] = "waiting" /\ next = [pc EXCEPT ![Master] = "woken"]
    BY <1>1
<1>10. fAllOk \in BOOLEAN /\ fOk[t] \in BOOLEAN
    BY DEF QInv, TypeOK
<1>11. fAllOk /\ fOkNow => (added \ Rest) \cap BadChecks = {}
    BY <1>2, <1>8 DEF QInv, VerdictInv
<1>12. ~(fAllOk /\ fOkNow) => added \cap BadChecks # {}
    BY <1>2, <1>4, <1>8, <1>10 DEF QInv, VerdictInv
<1>13. \A u \in Busy \ {t} : ~fOk[u] => ~(fAllOk /\ fOkNow)
    BY DEF QInv, VerdictInv
<1>14. nIdle >= Cardinality(Sleepers \ {t})
    BY <1>4 DEF QInv, CountInv
<1>15. (fAllOk /\ fOkNow) \in BOOLEAN
    OBVIOUS
<1> HIDE DEF fOkNow, todo, next
<1>16. Top(t, next, nTotal, nIdle, todo, fAllOk /\ fOkNow)
    BY <1>1, <1>3, <1>7, <1>8, <1>9, <1>11, <1>12, <1>13, <1>14, <1>15 DEF Top
<1> QED
    BY <1>1, <1>16, SectionInv

-----------------------------------------------------------------------------

\* So does the constructor of CCheckQueueControl,
LEMMA ControlInv == ASSUME QInv, Control  PROVE QInv'
<1>1. /\ pc[Master] = "idle" /\ added' = {}
      /\ pc' = [pc EXCEPT ![Master] = "adding"]
      /\ UNCHANGED <<queue, nIdle, nTotal, fAllOk, nTodo, vChecks, fOk, interrupted,
                     fShutdown, verdict>>
    BY DEF Control, state, local, signal
<1>2. Busy' = Busy /\ Sleepers' = Sleepers /\ pc'[Master] # "idle"
    BY <1>1 DEF Busy, Sleepers, QInv, TypeOK, Threads
<1>3. Pending' = Pending /\ Pending = {} /\ fAllOk
    BY <1>1 DEF Pending, Held, QInv, IdleInv
<1>4. TypeOK'
    BY <1>1 DEF QInv, TypeOK
<1>5. BatchInv'
    BY <1>1 DEF QInv, TypeOK, BatchInv
<1>6. CountInv'
    BY <1>1, <1>2, <1>3 DEF QInv, CountInv
<1>7. VerdictInv'
    BY <1>1, <1>2, <1>3 DEF QInv, VerdictInv
<1> QED
    BY <1>2, <1>4, <1>5, <1>6, <1>7 DEF QInv, IdleInv

\* and Add, which queues checks and counts them in nTodo,
LEMMA AddInv == ASSUME QInv, NEW checks \in SUBSET Checks, Add(checks)  PROVE QInv'
<1>1. /\ pc[Master] = "adding" /\ checks \cap added = {}
      /\ queue' = queue \cup checks
      /\ nTodo' = nTodo + Cardinality(checks)
      /\ added' = added \cup checks
      /\ UNCHANGED <<nIdle, nTotal, fAllOk, vChecks, fOk, interrupted, fShutdown, verdict>>
    BY DEF Add, local, signal
<1>2. PICK woken \in SUBSET Waiting :
        pc' = [u \in Threads |-> IF u \in woken THEN "woken" ELSE pc[u]]
    BY DEF Add
<1>3. /\ \A u \in Threads : pc'[u] = "busy" <=> pc[u] = "busy"
      /\ Busy' = Busy /\ Sleepers' = Sleepers /\ pc'[Master] # "idle"
    BY <1>1, <1>2, QueueAssumption DEF Busy, Sleepers, Waiting, Threads
<1>4. /\ Pending' = Pending \cup checks /\ Pending \cap checks = {}
      /\ Pending \in SUBSET Checks /\ queue \subseteq Pending
      /\ \A u \in Threads : vChecks[u] \subseteq Pending
    BY <1>1 DEF Pending, Held, QInv, TypeOK, VerdictInv
<1>5. /\ IsFiniteSet(Pending) /\ IsFiniteSet(checks)
      /\ Cardinality(Pending) \in Nat /\ Cardinality(checks) \in Nat
    BY <1>4, FiniteParts
<1>6. Cardinality(Pending') = Cardinality(Pending) + Cardinality(checks)
    <2>1. Cardinality(Pending \cap checks) = 0
        BY <1>4, FS_EmptySet
    <2>2. Cardinality(Pending \cup checks)
            = Cardinality(Pending) + Cardinality(checks) - Cardinality(Pending \cap checks)
        BY <1>5, FS_Union
    <2> QED
        BY <1>4, <1>5, <2>1, <2>2
<1>7. TypeOK'
    BY <1>1, <1>2, <1>5 DEF QInv, TypeOK
<1>8. BatchInv'
    BY <1>1, <1>3, <1>4 DEF QInv, BatchInv
<1>9. CountInv'
    BY <1>1, <1>3, <1>6 DEF QInv, CountInv
<1>10. VerdictInv'
    BY <1>1, <1>3, <1>4 DEF QInv, VerdictInv
<1> QED
    BY <1>3, <1>7, <1>8, <1>9, <1>10 DEF QInv, IdleInv

\* Steps that only move a thread's pc, none of them from or to "busy" or "idle", and
\* none of them to sleep.
LEMMA MoveInv ==
    ASSUME QInv, NEW t \in Threads,
           NEW to \in {"new", "woken", "ended", "adding"},
           pc[t] \notin {"busy", "idle"},
           to = "woken" => pc[t] = "waiting",
           pc' = [pc EXCEPT ![t] = to],
           interrupted' \subseteq Threads, fShutdown' \in BOOLEAN,
           UNCHANGED <<queue, nIdle, nTotal, fAllOk, nTodo, vChecks, fOk, added, verdict>>
    PROVE  QInv'
<1>1. /\ \A u \in Threads : pc'[u] = "busy" <=> pc[u] = "busy"
      /\ Busy' = Busy /\ Sleepers' \subseteq Sleepers
      /\ pc'[Master] = "idle" <=> pc[Master] = "idle"
    BY DEF Busy, Sleepers, QInv, TypeOK, Threads
<1>2. Pending' = Pending
    BY DEF Pending, Held
<1>3. Sleepers \in SUBSET Threads /\ Sleepers' \in SUBSET Threads
    BY <1>1 DEF Sleepers
<1>4. /\ Cardinality(Sleepers) \in Nat /\ Cardinality(Sleepers') \in Nat
      /\ Cardinality(Sleepers') <= Cardinality(Sleepers)
    BY <1>1, <1>3, FiniteParts, FS_Subset
<1>5. TypeOK'
    BY DEF QInv, TypeOK
<1>6. BatchInv'
    BY <1>1 DEF QInv, BatchInv
<1>7. CountInv'
    <2>1. nIdle' >= Cardinality(Sleepers')
        BY <1>4 DEF QInv, CountInv, TypeOK
    <2> QED
        BY <1>1, <1>2, <2>1 DEF QInv, CountInv
<1>8. VerdictInv'
    BY <1>1, <1>2 DEF QInv, VerdictInv
<1>9. IdleInv'
    BY <1>1, <1>2 DEF QInv, IdleInv, VerdictIsRight
<1> QED
    BY <1>5, <1>6, <1>7, <1>8, <1>9 DEF QInv

\* and the interruption of the threads.
LEMMA InterruptAllInv == ASSUME QInv, InterruptAll  PROVE QInv'
BY DEF InterruptAll, QInv, TypeOK, BatchInv, CountInv, VerdictInv, IdleInv, VerdictIsRight,
       Pending, Held, Busy, Sleepers, state, local

\* Nothing the invariant reads has changed.
LEMMA StutterInv == ASSUME QInv, UNCHANGED vars  PROVE QInv'
BY DEF QInv, TypeOK, BatchInv, CountInv, VerdictInv, IdleInv, VerdictIsRight, Pending, Held,
       Busy, Sleepers, vars, state, local, signal

\* The invariant holds of a new queue.
LEMMA InitInv == ASSUME Init  PROVE QInv
<1>1. /\ Pending = {} /\ Busy = {} /\ Sleepers = {}
      /\ \A t \in Threads : vChecks[t] = {} /\ pc[t] # "busy"
    BY DEF Init, Pending, Held, Busy, Sleepers
<1>2. pc[Master] = "idle"
    BY DEF Init, Threads
<1>3. Cardinality({}) = 0
    BY FS_EmptySet
<1>4. TypeOK
    BY DEF Init, TypeOK
<1>5. BatchInv /\ CountInv
    BY <1>1, <1>3 DEF Init, BatchInv, CountInv
<1>6. VerdictInv /\ IdleInv
    BY <1>1, <1>2 DEF Init, VerdictInv, IdleInv, VerdictIsRight
<1> QED
    BY <1>4, <1>5, <1>6 DEF QInv

\* Every step keeps the invariant.
LEMMA NextInv == ASSUME QInv, [Next]_vars  PROVE QInv'
<1>1. CASE Control
    BY <1>1, ControlInv
<1>2. CASE Wait
    <2>1. Master \in Threads
        BY DEF Threads
    <2> QED
        BY <1>2, <2>1, MoveInv DEF Wait, state, local, signal, QInv, TypeOK
<1>3. CASE InterruptAll
    BY <1>3, InterruptAllInv
<1>4. CASE \E checks \in SUBSET Checks : Add(checks)
    BY <1>4, AddInv
<1>5. ASSUME NEW t \in Threads, LoopStep(t) \/ Spurious(t)  PROVE QInv'
    <2>1. CASE Enter(t)
        BY <2>1, EnterInv
    <2>2. CASE Finish(t)
        BY <2>2, FinishInv
    <2>3. CASE Wake(t)
        BY <2>3, WakeInv
    <2>4. CASE Throw(t)
        BY <2>4, MoveInv DEF Throw, state, local, QInv, TypeOK
    <2>5. CASE Spurious(t)
        BY <2>5, MoveInv DEF Spurious, state, local, signal, QInv, TypeOK
    <2> QED
        BY <1>5, <2>1, <2>2, <2>3, <2>4, <2>5 DEF LoopStep
<1>6. CASE UNCHANGED vars
    BY <1>6, StutterInv
<1> QED
    BY <1>1, <1>2, <1>3, <1>4, <1>5, <1>6 DEF Next

\* QInv is inductive.
THEOREM QueueInvariance == Spec => []QInv
BY InitInv, NextInv, PTL DEF Spec

-----------------------------------------------------------------------------

\* The assertions of CCheckQueueControl's constructor never fail, whatever workers
\* and masters were interrupted: the counters of a thread that ended in cond.wait()
\* stay in nIdle and nTotal alike.
THEOREM AssertsHold == Spec => []ControlAsserts
<1>1. ASSUME QInv  PROVE ControlAsserts
    <2>1. SUFFICES ASSUME pc[Master] = "idle"
                   PROVE  nTotal = nIdle /\ nTodo = 0 /\ fAllOk
        BY DEF ControlAsserts
    <2>2. Pending = {} /\ fAllOk
        BY <1>1, <2>1 DEF QInv, IdleInv
    <2>3. Busy = {}
        BY <1>1, <2>2 DEF QInv, BatchInv, Pending, Held, Busy
    <2> QED
        BY <1>1, <2>2, <2>3, FS_EmptySet DEF QInv, CountInv, TypeOK
<1> QED
    BY <1>1, QueueInvariance, PTL

\* What Wait returns is the conjunction of all the checks of the block, whatever the
\* number of workers, the batches and the order in which they complete.
THEOREM VerdictsAreRight == Spec => []VerdictIsRight
<1>1. ASSUME QInv  PROVE VerdictIsRight
    BY <1>1 DEF QInv, IdleInv, VerdictIsRight
<1> QED
    BY <1>1, QueueInvariance, PTL
=============================================================================
