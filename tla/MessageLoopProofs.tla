------------------------- MODULE MessageLoopProofs -------------------------
(***************************************************************************)
(* Proofs about MessageLoop for any set of producers and any bounds, and   *)
(* about LoopLifecycle, the other view of the same class, for any threads. *)
(***************************************************************************)
EXTENDS MessageLoop, LoopLifecycle, TLAPS

\* Every step of the loop, of a task it runs and of a producer keeps the types.
LEMMA TypeStep == TypeOK /\ [Next]_vars => TypeOK'
<1> SUFFICES ASSUME TypeOK, [Next]_vars PROVE TypeOK'
  OBVIOUS
<1> USE LoopAssumption DEF TypeOK, LoopPC, ProducerPC, Sources
<1>1. CASE ThreadBegin
  BY <1>1 DEF ThreadBegin
<1>2. CASE WhileRunning
  BY <1>2 DEF WhileRunning, LoopUnchanged
<1>3. CASE Pump
  BY <1>3 DEF Pump
<1>4. CASE ReadEventFd
  BY <1>4 DEF ReadEventFd
<1>5. CASE ClearNotifyFlag
  BY <1>5, Zenon DEF ClearNotifyFlag
<1>6. ASSUME NEW p \in Producers, Dequeue(p) PROVE TypeOK'
  <2>1. Tail(scheduled_tasks[p]) \in Seq(Nat) /\ Head(scheduled_tasks[p]) \in Nat
    BY <1>6 DEF Dequeue
  <2>2. Append(ran[p], Head(scheduled_tasks[p])) \in Seq(Nat)
    BY <2>1
  <2>3. scheduled_tasks' \in [Producers -> Seq(Nat)] /\ ran' \in [Sources -> Seq(Nat)]
    BY <1>6, <2>1, <2>2 DEF Dequeue
  <2> QED
    BY <1>6, <2>3, Zenon DEF Dequeue
<1>7. ASSUME NEW p \in Producers, FindEmpty(p) PROVE TypeOK'
  BY <1>7 DEF FindEmpty
<1>8. CASE DrainEnd
  BY <1>8 DEF DrainEnd
<1>9. CASE TakeNested
  BY <1>9 DEF TakeNested
<1>10. CASE RunNested
  <2>1. Tail(nest_tasks) \in Seq(Nat) /\ Head(nest_tasks) \in Nat
    BY <1>10 DEF RunNested
  <2>2. ran' \in [Sources -> Seq(Nat)]
    BY <1>10, <2>1 DEF RunNested
  <2> QED
    BY <1>10, <2>1, <2>2 DEF RunNested
<1>11. CASE RunDelegate
  BY <1>11 DEF RunDelegate
<1>12. CASE BodyReturn
  BY <1>12 DEF BodyReturn
<1>13. CASE BodyPost
  <2>1. CASE running
    <3>1. posted[Loop] + 1 \in Nat
      OBVIOUS
    <3>2. in_loop_tasks' \in Seq(Nat)
      <4>1. in_loop_tasks' = Append(in_loop_tasks, posted[Loop] + 1)
        BY <1>13, <2>1 DEF BodyPost
      <4> QED
        BY <3>1, <4>1
    <3>3. posted' \in [Sources -> Nat]
      BY <1>13, <2>1, <3>1 DEF BodyPost
    <3> QED
      BY <1>13, <2>1, <3>2, <3>3 DEF BodyPost
  <2>2. CASE ~running
    BY <1>13, <2>2 DEF BodyPost
  <2> QED
    BY <2>1, <2>2
<1>14. CASE BodyQuit
  BY <1>14, Zenon DEF BodyQuit, QuitLoop, loopVars
<1>15. CASE OtherThreadQuits
  BY <1>15, Zenon DEF OtherThreadQuits, QuitLoop, loopVars
<1>16. ASSUME NEW p \in Producers, CheckRunning(p) PROVE TypeOK'
  BY <1>16, Zenon DEF CheckRunning, loopVars
<1>17. ASSUME NEW p \in Producers, Enqueue(p) PROVE TypeOK'
  <2>1. posted[p] + 1 \in Nat
    OBVIOUS
  <2>2. /\ scheduled_tasks' \in [Producers -> Seq(Nat)]
        /\ posted' \in [Sources -> Nat]
    BY <1>17, <2>1 DEF Enqueue
  <2> QED
    BY <1>17, <2>2 DEF Enqueue, loopVars
<1>18. ASSUME NEW p \in Producers, TestAndSet(p) PROVE TypeOK'
  BY <1>18 DEF TestAndSet, loopVars
<1>19. ASSUME NEW p \in Producers, WriteEventFd(p) PROVE TypeOK'
  <2>1. CASE eventfd < EventFdMax
    <3>1. eventfd' \in 0..EventFdMax
      BY <1>19, <2>1 DEF WriteEventFd
    <3> QED
      BY <1>19, <2>1, <3>1 DEF WriteEventFd, loopVars
  <2>2. CASE ~(eventfd < EventFdMax)
    BY <1>19, <2>2, Zenon DEF WriteEventFd, loopVars
  <2> QED
    BY <2>1, <2>2, Zenon
<1>20. ASSUME NEW p \in Producers, CallWakeUp(p) PROVE TypeOK'
  BY <1>20 DEF CallWakeUp, loopVars
<1>21. CASE BodyTestAndSet
  BY <1>21 DEF BodyTestAndSet
<1>22. CASE BodyWriteEventFd
  <2>1. CASE eventfd < EventFdMax
    <3>1. eventfd' \in 0..EventFdMax
      BY <1>22, <2>1 DEF BodyWriteEventFd
    <3> QED
      BY <1>22, <2>1, <3>1 DEF BodyWriteEventFd
  <2>2. CASE ~(eventfd < EventFdMax)
    BY <1>22, <2>2, Zenon DEF BodyWriteEventFd
  <2> QED
    BY <2>1, <2>2
<1>23. CASE UNCHANGED vars
  BY <1>23 DEF vars
<1> HIDE DEF TypeOK, LoopPC, ProducerPC, Sources
<1> QED
  BY <1>1, <1>2, <1>3, <1>4, <1>5, <1>6, <1>7, <1>8, <1>9, <1>10, <1>11, <1>12, <1>13,
     <1>14, <1>15, <1>16, <1>17, <1>18, <1>19, <1>20, <1>21, <1>22, <1>23, Zenon
  DEF Next, LoopStep, ProducerStep

\* The constructor leaves a well-typed loop behind.
LEMMA TypeInit == Init => TypeOK
<1> SUFFICES ASSUME Init PROVE TypeOK
  OBVIOUS
<1>1. scheduled_tasks \in [Producers -> Seq(Nat)] /\ ran \in [Sources -> Seq(Nat)]
  <2>1. <<>> \in Seq(Nat)
    OBVIOUS
  <2> QED
    BY <2>1 DEF Init
<1>2. /\ posted \in [Sources -> Nat]
      /\ accepted \in [Sources -> Nat]
      /\ ppc \in [Producers -> ProducerPC]
  BY DEF Init, ProducerPC
<1>3. eventfd \in 0..EventFdMax /\ pc \in LoopPC
  BY LoopAssumption DEF Init, LoopPC
<1>4. in_loop_tasks \in Seq(Nat) /\ nest_tasks \in Seq(Nat) /\ seen \in SUBSET Producers
  BY DEF Init
<1>5. running \in BOOLEAN /\ aborted \in BOOLEAN /\ notify_flag \in BOOLEAN
  BY Zenon DEF Init
<1>6. ret \in {"read", "drain", "nested", "run_nested", "while", "final_run_nested", "final_drain"}
  BY DEF Init
<1> QED
  BY <1>1, <1>2, <1>3, <1>4, <1>5, <1>6 DEF TypeOK

\* The state of a MessageLoop stays well typed, whatever its threads do.
THEOREM TypeCorrect == Spec => []TypeOK
  BY TypeInit, TypeStep, PTL DEF Spec

-----------------------------------------------------------------------------
(* The wake-up handshake.                                                  *)

\* notify_flag_ marks the one wake-up there is, through every step.
LEMMA OneWakeupStep == WakeupInv /\ [Next]_vars => OneWakeup' /\ ReadFindsOne'
<1> SUFFICES ASSUME WakeupInv, [Next]_vars PROVE OneWakeup' /\ ReadFindsOne'
  OBVIOUS
<1> USE LoopAssumption DEF WakeupInv, TypeOK, OneWakeup, ReadFindsOne, InBody, LoopPC, ProducerPC
<1>1. CASE ThreadBegin
  BY <1>1 DEF ThreadBegin
<1>2. CASE WhileRunning
  BY <1>2 DEF WhileRunning, LoopUnchanged
<1>3. CASE Pump
  BY <1>3 DEF Pump
<1>4. CASE ReadEventFd
  BY <1>4 DEF ReadEventFd
<1>5. CASE ClearNotifyFlag
  BY <1>5 DEF ClearNotifyFlag
<1>6. ASSUME NEW p \in Producers, Dequeue(p) PROVE OneWakeup' /\ ReadFindsOne'
  BY <1>6 DEF Dequeue
<1>7. ASSUME NEW p \in Producers, FindEmpty(p) PROVE OneWakeup' /\ ReadFindsOne'
  BY <1>7 DEF FindEmpty
<1>8. CASE DrainEnd
  BY <1>8 DEF DrainEnd
<1>9. CASE TakeNested
  BY <1>9 DEF TakeNested
<1>10. CASE RunNested
  BY <1>10 DEF RunNested
<1>11. CASE RunDelegate
  BY <1>11 DEF RunDelegate
<1>12. CASE BodyReturn
  BY <1>12 DEF BodyReturn
<1>13. CASE BodyPost
  BY <1>13 DEF BodyPost
<1>14. CASE BodyQuit
  BY <1>14 DEF BodyQuit, QuitLoop, loopVars
<1>15. CASE OtherThreadQuits
  BY <1>15 DEF OtherThreadQuits, QuitLoop, loopVars
<1>16. ASSUME NEW p \in Producers, CheckRunning(p) PROVE OneWakeup' /\ ReadFindsOne'
  <2>1. UNCHANGED <<eventfd, notify_flag, pc, ret>>
    BY <1>16 DEF CheckRunning, loopVars
  <2>2. \A q \in Producers : ppc'[q] = "write" <=> ppc[q] = "write"
    BY <1>16 DEF CheckRunning
  <2> QED
    BY <2>1, <2>2
<1>17. ASSUME NEW p \in Producers, Enqueue(p) PROVE OneWakeup' /\ ReadFindsOne'
  BY <1>17 DEF Enqueue, loopVars
<1>18. ASSUME NEW p \in Producers, TestAndSet(p) PROVE OneWakeup' /\ ReadFindsOne'
  BY <1>18 DEF TestAndSet, loopVars
<1>19. ASSUME NEW p \in Producers, WriteEventFd(p) PROVE OneWakeup' /\ ReadFindsOne'
  <2>1. eventfd = 0 /\ notify_flag /\ pc \notin {"clear", "body_write"}
    BY <1>19 DEF WriteEventFd
  <2>2. eventfd' = 1 /\ notify_flag' = notify_flag /\ pc' = pc /\ ret' = ret
    <3>1. eventfd < EventFdMax
      BY <2>1
    <3> QED
      BY <1>19, <2>1, <3>1 DEF WriteEventFd, loopVars
  <2>3. \A q \in Producers : ppc'[q] # "write"
    BY <1>19 DEF WriteEventFd
  <2> QED
    BY <2>1, <2>2, <2>3
<1>20. ASSUME NEW p \in Producers, CallWakeUp(p) PROVE OneWakeup' /\ ReadFindsOne'
  BY <1>20 DEF CallWakeUp, loopVars
<1>21. CASE BodyTestAndSet
  BY <1>21 DEF BodyTestAndSet
<1>22. CASE BodyWriteEventFd
  <2>1. eventfd = 0 /\ notify_flag /\ \A q \in Producers : ppc[q] # "write"
    BY <1>22 DEF BodyWriteEventFd
  <2>2. eventfd' = 1 /\ notify_flag' = notify_flag /\ pc' = "body" /\ ppc' = ppc
    <3>1. eventfd < EventFdMax
      BY <2>1
    <3> QED
      BY <1>22, <2>1, <3>1 DEF BodyWriteEventFd
  <2> QED
    BY <2>1, <2>2
<1>23. CASE UNCHANGED vars
  BY <1>23 DEF vars
<1> HIDE DEF WakeupInv, TypeOK, OneWakeup, ReadFindsOne, InBody, LoopPC, ProducerPC
<1> QED
  BY <1>1, <1>2, <1>3, <1>4, <1>5, <1>6, <1>7, <1>8, <1>9, <1>10, <1>11, <1>12, <1>13,
     <1>14, <1>15, <1>16, <1>17, <1>18, <1>19, <1>20, <1>21, <1>22, <1>23, Zenon
  DEF Next, LoopStep, ProducerStep

\* A task in scheduled_tasks_ stays announced: its poster is about to test the
\* flag, the flag is set, or the drain that follows the clear has yet to reach it.
LEMMA AnnouncedStep == WakeupInv /\ [Next]_vars => PendingIsAnnounced'
<1> SUFFICES ASSUME WakeupInv, [Next]_vars PROVE PendingIsAnnounced'
  OBVIOUS
<1> USE LoopAssumption DEF WakeupInv, TypeOK, OneWakeup, PendingIsAnnounced, Draining,
                           InBody, LoopPC, ProducerPC
<1>1. CASE ThreadBegin
  BY <1>1 DEF ThreadBegin
<1>2. CASE WhileRunning
  BY <1>2 DEF WhileRunning, LoopUnchanged
<1>3. CASE Pump
  BY <1>3 DEF Pump
<1>4. CASE ReadEventFd
  BY <1>4 DEF ReadEventFd
<1>5. CASE ClearNotifyFlag
  BY <1>5 DEF ClearNotifyFlag
<1>6. ASSUME NEW p \in Producers, Dequeue(p) PROVE PendingIsAnnounced'
  BY <1>6 DEF Dequeue
<1>7. ASSUME NEW p \in Producers, FindEmpty(p) PROVE PendingIsAnnounced'
  BY <1>7 DEF FindEmpty
<1>8. CASE DrainEnd
  BY <1>8 DEF DrainEnd
<1>9. CASE TakeNested
  BY <1>9 DEF TakeNested
<1>10. CASE RunNested
  BY <1>10 DEF RunNested
<1>11. CASE RunDelegate
  BY <1>11 DEF RunDelegate
<1>12. CASE BodyReturn
  BY <1>12 DEF BodyReturn
<1>13. CASE BodyPost
  BY <1>13 DEF BodyPost
<1>14. CASE BodyQuit
  BY <1>14 DEF BodyQuit, QuitLoop, loopVars
<1>15. CASE OtherThreadQuits
  BY <1>15 DEF OtherThreadQuits, QuitLoop, loopVars
<1>16. ASSUME NEW p \in Producers, CheckRunning(p) PROVE PendingIsAnnounced'
  BY <1>16 DEF CheckRunning, loopVars
<1>17. ASSUME NEW p \in Producers, Enqueue(p) PROVE PendingIsAnnounced'
  BY <1>17 DEF Enqueue, loopVars
<1>18. ASSUME NEW p \in Producers, TestAndSet(p) PROVE PendingIsAnnounced'
  BY <1>18 DEF TestAndSet, loopVars
<1>19. ASSUME NEW p \in Producers, WriteEventFd(p) PROVE PendingIsAnnounced'
  BY <1>19 DEF WriteEventFd, loopVars
<1>20. ASSUME NEW p \in Producers, CallWakeUp(p) PROVE PendingIsAnnounced'
  BY <1>20 DEF CallWakeUp, loopVars
<1>21. CASE BodyTestAndSet
  BY <1>21 DEF BodyTestAndSet
<1>22. CASE BodyWriteEventFd
  <2>1. eventfd < EventFdMax
    BY <1>22 DEF BodyWriteEventFd
  <2>2. notify_flag' /\ UNCHANGED <<scheduled_tasks, ppc>>
    BY <1>22, <2>1 DEF BodyWriteEventFd
  <2> QED
    BY <2>2
<1>23. CASE UNCHANGED vars
  BY <1>23 DEF vars
<1> HIDE DEF WakeupInv, TypeOK, OneWakeup, PendingIsAnnounced, Draining, InBody, LoopPC,
             ProducerPC
<1> QED
  BY <1>1, <1>2, <1>3, <1>4, <1>5, <1>6, <1>7, <1>8, <1>9, <1>10, <1>11, <1>12, <1>13,
     <1>14, <1>15, <1>16, <1>17, <1>18, <1>19, <1>20, <1>21, <1>22, <1>23, Zenon
  DEF Next, LoopStep, ProducerStep

\* WakeUpIfNeeded and RunCommandTask keep at most one wake-up under way and never
\* leave a task behind without one, for any number of producers.
THEOREM WakeupCorrect == Spec => [](OneWakeup /\ NoLostWakeup)
<1>1. Init => WakeupInv
  <2>1. Init => TypeOK
    BY TypeInit
  <2> QED
    BY <2>1 DEF Init, WakeupInv, OneWakeup, ReadFindsOne, InBody, PendingIsAnnounced
<1>2. WakeupInv /\ [Next]_vars => WakeupInv'
  BY TypeStep, OneWakeupStep, AnnouncedStep DEF WakeupInv
<1>3. WakeupInv => OneWakeup /\ NoLostWakeup
  BY DEF WakeupInv, OneWakeup, NoLostWakeup, PendingIsAnnounced, TypeOK
<1> QED
  BY <1>1, <1>2, <1>3, PTL DEF Spec

-----------------------------------------------------------------------------
(* Quitting.                                                               *)

\* No step loses a task or runs one that was not posted.
LEMMA AccountedStep == QuitInv /\ [Next]_vars => TasksAccounted'
<1> SUFFICES ASSUME QuitInv, [Next]_vars PROVE TasksAccounted'
  OBVIOUS
<1>1. /\ scheduled_tasks \in [Producers -> Seq(Nat)]
      /\ in_loop_tasks \in Seq(Nat) /\ nest_tasks \in Seq(Nat)
      /\ posted \in [Sources -> Nat] /\ accepted \in [Sources -> Nat]
      /\ ran \in [Sources -> Seq(Nat)]
  BY DEF QuitInv, TypeOK
<1>2. /\ \A p \in Producers : Len(ran[p]) + Len(scheduled_tasks[p]) = posted[p]
      /\ Len(ran[Loop]) + Len(nest_tasks) + Len(in_loop_tasks) = posted[Loop]
      /\ \A s \in Sources : accepted[s] <= posted[s]
  BY Zenon DEF QuitInv, TasksAccounted
<1>3. Loop \in Sources /\ Loop \notin Producers /\ \A p \in Producers : p \in Sources
  BY LoopAssumption DEF Sources
<1>4. ASSUME NEW p \in Producers, Dequeue(p) PROVE TasksAccounted'
  <2>1. /\ scheduled_tasks[p] # <<>>
        /\ ran' = [ran EXCEPT ![p] = Append(@, Head(scheduled_tasks[p]))]
        /\ scheduled_tasks' = [scheduled_tasks EXCEPT ![p] = Tail(@)]
        /\ UNCHANGED <<nest_tasks, in_loop_tasks, posted, accepted>>
    BY <1>4 DEF Dequeue
  <2>2. /\ Len(ran'[p]) = Len(ran[p]) + 1
        /\ Len(scheduled_tasks'[p]) = Len(scheduled_tasks[p]) - 1
        /\ Len(ran[p]) \in Nat /\ Len(scheduled_tasks[p]) \in Nat
    <3>1. ran[p] \in Seq(Nat) /\ scheduled_tasks[p] \in Seq(Nat) /\ scheduled_tasks[p] # <<>>
      BY <1>1, <1>3, <2>1, Zenon
    <3>2. ran'[p] = Append(ran[p], Head(scheduled_tasks[p])) /\ scheduled_tasks'[p] = Tail(scheduled_tasks[p])
      BY <1>1, <1>3, <2>1, Zenon
    <3> QED BY ONLY <3>1, <3>2
  <2>3. /\ \A q \in Sources : q # p => ran'[q] = ran[q]
        /\ \A q \in Producers : q # p => scheduled_tasks'[q] = scheduled_tasks[q]
    BY <1>1, <2>1
  <2>4. Len(ran'[p]) + Len(scheduled_tasks'[p]) = posted[p]
    <3> DEFINE a == Len(ran[p])
               b == Len(scheduled_tasks[p])
    <3>1. a \in Nat /\ b \in Nat /\ a + b = posted[p]
      BY <1>2, <2>2, Zenon
    <3>2. Len(ran'[p]) = a + 1 /\ Len(scheduled_tasks'[p]) = b - 1
      BY <2>2
    <3> HIDE DEF a, b
    <3> QED
      BY <3>1, <3>2
  <2> QED
    BY <1>2, <1>3, <2>1, <2>3, <2>4, Zenon DEF TasksAccounted
<1>5. ASSUME NEW p \in Producers, Enqueue(p) PROVE TasksAccounted'
  <2>1. /\ scheduled_tasks' = [scheduled_tasks EXCEPT ![p] = Append(@, posted[p] + 1)]
        /\ posted' = [posted EXCEPT ![p] = @ + 1]
        /\ UNCHANGED <<nest_tasks, in_loop_tasks, ran, accepted>>
    BY <1>5 DEF Enqueue, loopVars
  <2>2. /\ Len(scheduled_tasks'[p]) = Len(scheduled_tasks[p]) + 1
        /\ posted'[p] = posted[p] + 1
        /\ Len(ran[p]) \in Nat /\ Len(scheduled_tasks[p]) \in Nat
        /\ posted[p] \in Nat /\ accepted[p] \in Nat
    BY <1>1, <1>3, <2>1
  <2>3. /\ \A q \in Sources : q # p => posted'[q] = posted[q]
        /\ \A q \in Producers : q # p => scheduled_tasks'[q] = scheduled_tasks[q]
    BY <1>1, <2>1
  <2>4. Len(ran[p]) + Len(scheduled_tasks'[p]) = posted'[p] /\ accepted[p] <= posted'[p]
    <3> DEFINE a == Len(ran[p])
               b == Len(scheduled_tasks[p])
               n == posted[p]
    <3>1. a \in Nat /\ b \in Nat /\ a + b = n /\ accepted[p] \in Nat /\ accepted[p] <= n
      BY <1>2, <1>3, <2>2, Zenon
    <3>2. Len(ran[p]) = a /\ Len(scheduled_tasks'[p]) = b + 1 /\ posted'[p] = n + 1
      BY <2>2
    <3> HIDE DEF a, b, n
    <3> QED
      BY <3>1, <3>2
  <2> QED
    BY <1>2, <1>3, <2>1, <2>3, <2>4, Zenon DEF TasksAccounted
<1>6. CASE TakeNested
  <2>1. nest_tasks = <<>> /\ Len(nest_tasks) = 0 /\ Len(in_loop_tasks) \in Nat
    BY <1>1, <1>6 DEF TakeNested, QuitInv, FinalPhase
  <2>2. Len(nest_tasks') = Len(in_loop_tasks) /\ Len(in_loop_tasks') = 0
    BY <1>6 DEF TakeNested
  <2> QED
    BY <1>1, <1>2, <1>6, <2>1, <2>2 DEF TakeNested, TasksAccounted
<1>7. CASE RunNested
  <2>1. /\ nest_tasks # <<>> /\ nest_tasks' = Tail(nest_tasks)
        /\ ran' = [ran EXCEPT ![Loop] = Append(@, Head(nest_tasks))]
        /\ UNCHANGED <<scheduled_tasks, in_loop_tasks, posted, accepted>>
    BY <1>7 DEF RunNested
  <2>2. /\ Len(ran'[Loop]) = Len(ran[Loop]) + 1 /\ Len(nest_tasks') = Len(nest_tasks) - 1
        /\ Len(ran[Loop]) \in Nat /\ Len(nest_tasks) \in Nat /\ Len(in_loop_tasks) \in Nat
    BY <1>1, <1>3, <2>1
  <2>3. \A p \in Producers : ran'[p] = ran[p]
    BY <1>1, <1>3, <2>1
  <2>4. Len(ran'[Loop]) + Len(nest_tasks') + Len(in_loop_tasks) = posted[Loop]
    BY <1>2, <2>2
  <2> QED
    BY <1>2, <2>1, <2>3, <2>4, Zenon DEF TasksAccounted
<1>8. CASE BodyPost /\ running
  <2>1. /\ in_loop_tasks' = Append(in_loop_tasks, posted[Loop] + 1)
        /\ posted' = [posted EXCEPT ![Loop] = @ + 1]
        /\ UNCHANGED <<scheduled_tasks, nest_tasks, ran, accepted>>
    BY <1>8 DEF BodyPost
  <2>2. /\ Len(in_loop_tasks') = Len(in_loop_tasks) + 1 /\ posted'[Loop] = posted[Loop] + 1
        /\ Len(ran[Loop]) \in Nat /\ Len(nest_tasks) \in Nat /\ Len(in_loop_tasks) \in Nat
        /\ posted[Loop] \in Nat /\ accepted[Loop] \in Nat
    BY <1>1, <1>3, <2>1
  <2>3. \A s \in Sources : s # Loop => posted'[s] = posted[s]
    BY <1>1, <2>1
  <2>4. /\ Len(ran[Loop]) + Len(nest_tasks) + Len(in_loop_tasks') = posted'[Loop]
        /\ accepted[Loop] <= posted'[Loop]
    <3> DEFINE a == Len(ran[Loop])
               b == Len(nest_tasks)
               c == Len(in_loop_tasks)
               n == posted[Loop]
    <3>1. /\ a \in Nat /\ b \in Nat /\ c \in Nat /\ a + b + c = n
          /\ accepted[Loop] \in Nat /\ accepted[Loop] <= n
      BY <1>2, <1>3, <2>2
    <3>2. Len(ran[Loop]) = a /\ Len(nest_tasks) = b
      OBVIOUS
    <3>3. Len(in_loop_tasks') = c + 1 /\ posted'[Loop] = n + 1
      BY <2>2
    <3> HIDE DEF a, b, c, n
    <3> QED
      BY <3>1, <3>2, <3>3
  <2> QED
    BY <1>2, <1>3, <2>1, <2>3, <2>4, Zenon DEF TasksAccounted
<1>9. CASE BodyQuit \/ OtherThreadQuits
  <2>1. /\ UNCHANGED <<scheduled_tasks, in_loop_tasks, nest_tasks, posted, ran>>
        /\ accepted' = posted
    BY <1>9 DEF BodyQuit, OtherThreadQuits, QuitLoop, loopVars
  <2> QED
    BY <1>1, <1>2, <2>1 DEF TasksAccounted
<1>10. ASSUME \/ ThreadBegin \/ WhileRunning \/ Pump \/ ReadEventFd \/ ClearNotifyFlag
              \/ \E p \in Producers : FindEmpty(p) \/ CheckRunning(p) \/ CallWakeUp(p) \/ TestAndSet(p)
                                      \/ WriteEventFd(p)
              \/ DrainEnd \/ RunDelegate \/ BodyReturn \/ BodyTestAndSet \/ BodyWriteEventFd \/ (BodyPost /\ ~running)
              \/ UNCHANGED vars
      PROVE TasksAccounted'
  <2>1. UNCHANGED <<scheduled_tasks, in_loop_tasks, nest_tasks, posted, ran, accepted>>
    BY <1>10 DEF ThreadBegin, WhileRunning, Pump, ReadEventFd, ClearNotifyFlag, FindEmpty,
                 CheckRunning, CallWakeUp, TestAndSet, WriteEventFd, DrainEnd, RunDelegate,
                 BodyReturn, BodyTestAndSet, BodyWriteEventFd,
                 BodyPost, LoopUnchanged, loopVars, vars
  <2> QED
    BY <1>2, <2>1, Zenon DEF TasksAccounted
<1> QED
  BY <1>4, <1>5, <1>6, <1>7, <1>8, <1>9, <1>10 DEF Next, LoopStep, ProducerStep

\* What the end of ThreadMain relies on is kept by every step.
LEMMA FinalPhaseStep == QuitInv /\ [Next]_vars => FinalPhase'
<1> SUFFICES ASSUME QuitInv, [Next]_vars PROVE FinalPhase'
  OBVIOUS
<1> USE LoopAssumption DEF QuitInv, TypeOK, TasksAccounted, FinalPhase, PastFinalTake,
              PastFinalNested, InBody, Sources, LoopPC
<1>1. CASE ThreadBegin
  BY <1>1 DEF ThreadBegin
<1>2. CASE WhileRunning
  BY <1>2 DEF WhileRunning, LoopUnchanged
<1>3. CASE Pump
  BY <1>3 DEF Pump
<1>4. CASE ReadEventFd
  BY <1>4 DEF ReadEventFd
<1>5. CASE ClearNotifyFlag
  BY <1>5 DEF ClearNotifyFlag
<1>6. ASSUME NEW p \in Producers, Dequeue(p) PROVE FinalPhase'
  BY <1>6 DEF Dequeue
<1>7. ASSUME NEW p \in Producers, FindEmpty(p) PROVE FinalPhase'
  BY <1>7 DEF FindEmpty
<1>8. CASE DrainEnd
  BY <1>8 DEF DrainEnd
<1>9. CASE TakeNested
  BY <1>9 DEF TakeNested
<1>10. CASE RunNested
  BY <1>10 DEF RunNested
<1>11. CASE RunDelegate
  BY <1>11 DEF RunDelegate
<1>12. CASE BodyReturn
  BY <1>12 DEF BodyReturn
<1>13. CASE BodyPost
  BY <1>13 DEF BodyPost
<1>14. CASE BodyQuit
  BY <1>14 DEF BodyQuit, QuitLoop, loopVars
<1>15. CASE OtherThreadQuits
  BY <1>15 DEF OtherThreadQuits, QuitLoop, loopVars
<1>16. ASSUME NEW p \in Producers, CheckRunning(p) PROVE FinalPhase'
  BY <1>16, Zenon DEF CheckRunning, loopVars
<1>17. ASSUME NEW p \in Producers, Enqueue(p) PROVE FinalPhase'
  BY <1>17, Zenon DEF Enqueue, loopVars
<1>18. ASSUME NEW p \in Producers, TestAndSet(p) PROVE FinalPhase'
  BY <1>18 DEF TestAndSet, loopVars
<1>19. ASSUME NEW p \in Producers, WriteEventFd(p) PROVE FinalPhase'
  BY <1>19 DEF WriteEventFd, loopVars
<1>20. ASSUME NEW p \in Producers, CallWakeUp(p) PROVE FinalPhase'
  BY <1>20 DEF CallWakeUp, loopVars
<1>21. CASE BodyTestAndSet
  BY <1>21 DEF BodyTestAndSet
<1>22. CASE BodyWriteEventFd
  BY <1>22 DEF BodyWriteEventFd
<1>23. CASE UNCHANGED vars
  BY <1>23 DEF vars
<1> HIDE DEF QuitInv, TypeOK, TasksAccounted, FinalPhase, PastFinalTake, PastFinalNested,
             InBody, Sources, LoopPC
<1> QED
  BY <1>1, <1>2, <1>3, <1>4, <1>5, <1>6, <1>7, <1>8, <1>9, <1>10, <1>11, <1>12, <1>13,
     <1>14, <1>15, <1>16, <1>17, <1>18, <1>19, <1>20, <1>21, <1>22, <1>23, Zenon
  DEF Next, LoopStep, ProducerStep

\* The facts about quitting are an inductive invariant.
LEMMA QuitInvariant == Spec => []QuitInv
<1>1. Init => QuitInv
  BY TypeInit DEF Init, QuitInv, TasksAccounted, FinalPhase, PastFinalTake, PastFinalNested,
                  InBody, Sources
<1>2. QuitInv /\ [Next]_vars => QuitInv'
  BY TypeStep, AccountedStep, FinalPhaseStep DEF QuitInv
<1> QED
  BY <1>1, <1>2, PTL DEF Spec

\* Whichever thread calls QuitLoop and whenever it does, ThreadMain does not return
\* before it has run every task that was in a queue at that moment.
THEOREM QuitCorrect == Spec => []QuitRunsAccepted
<1>1. QuitInv => QuitRunsAccepted
  BY DEF QuitInv, QuitRunsAccepted, TypeOK, TasksAccounted, FinalPhase, PastFinalTake,
         PastFinalNested, InBody, Sources
<1> QED
  BY <1>1, QuitInvariant, PTL

-----------------------------------------------------------------------------
(* Refinement of TaskRunner.                                               *)

\* Taking the head off the first of two joined sequences.
LEMMA TailOfJoin ==
  ASSUME NEW s \in Seq(Nat), NEW t \in Seq(Nat), s # <<>>
  PROVE  /\ s \o t # <<>>
         /\ Head(s \o t) = Head(s)
         /\ Tail(s \o t) = Tail(s) \o t
<1>1. Len(s) > 0 /\ s \o t \in Seq(Nat) /\ Len(s \o t) = Len(s) + Len(t)
  OBVIOUS
<1>2. s \o t # <<>> /\ Head(s \o t) = Head(s)
  BY <1>1
<1>3. Tail(s \o t) \in Seq(Nat) /\ Tail(s) \o t \in Seq(Nat)
  BY <1>1
<1>4. Len(Tail(s \o t)) = Len(Tail(s) \o t)
  BY <1>1
<1>5. \A i \in 1..Len(Tail(s \o t)) : Tail(s \o t)[i] = (Tail(s) \o t)[i]
  BY <1>1
<1>6. Tail(s \o t) = Tail(s) \o t
  BY <1>3, <1>4, <1>5
<1> QED
  BY <1>2, <1>6

\* Appending to the second of two joined sequences.
LEMMA AppendToJoin ==
  ASSUME NEW s \in Seq(Nat), NEW t \in Seq(Nat), NEW n \in Nat
  PROVE  s \o Append(t, n) = Append(s \o t, n)
<1>1. s \o Append(t, n) \in Seq(Nat) /\ Append(s \o t, n) \in Seq(Nat)
  OBVIOUS
<1>2. Len(s \o Append(t, n)) = Len(Append(s \o t, n))
  OBVIOUS
<1>3. ASSUME NEW i \in 1..Len(s \o Append(t, n))
      PROVE  (s \o Append(t, n))[i] = Append(s \o t, n)[i]
  <2>1. CASE i <= Len(s)
    BY <2>1
  <2>2. CASE i > Len(s) /\ i <= Len(s) + Len(t)
    BY <2>2
  <2>3. CASE i = Len(s) + Len(t) + 1
    BY <2>3
  <2> QED
    BY <2>1, <2>2, <2>3
<1> QED
  BY <1>1, <1>2, <1>3

\* The vector swap of RunNestedTask leaves the queue of the loop as it was.
LEMMA JoinWithEmpty ==
  ASSUME NEW s \in Seq(Nat)
  PROVE  <<>> \o s = s \o <<>>
  OBVIOUS

\* A step that touches no queue and no history is a step TaskRunner does not see.
LEMMA RunnerStutter ==
  UNCHANGED <<scheduled_tasks, in_loop_tasks, nest_tasks, posted, ran>>
    => UNCHANGED <<posted, Pending, ran>>
  BY DEF Pending

\* Every step of the loop and its producers is a Post, a Run or a stutter of TaskRunner.
LEMMA RunnerStep == QuitInv /\ [Next]_vars => [Runner!Next]_<<posted, Pending, ran>>
<1> SUFFICES ASSUME QuitInv, [Next]_vars PROVE [Runner!Next]_<<posted, Pending, ran>>
  OBVIOUS
<1>1. ASSUME NEW p \in Producers, Enqueue(p) PROVE Runner!Next
  <2>1. p \in Sources /\ p # Loop
    BY LoopAssumption DEF Sources
  <2>2. Pending' = [Pending EXCEPT ![p] = Append(@, posted[p] + 1)]
    <3>1. UNCHANGED <<nest_tasks, in_loop_tasks>>
      BY <1>1 DEF Enqueue, loopVars
    <3>2. scheduled_tasks \in [Producers -> Seq(Nat)]
      BY DEF QuitInv, TypeOK
    <3>3. scheduled_tasks' = [scheduled_tasks EXCEPT ![p] = Append(@, posted[p] + 1)]
      BY <1>1 DEF Enqueue
    <3> QED
      BY <2>1, <3>1, <3>2, <3>3, Zenon DEF Pending, Sources
  <2>3. Runner!Post(p)
    BY <1>1, <2>2 DEF Enqueue, Runner!Post
  <2> QED
    BY <2>1, <2>3 DEF Runner!Next
<1>2. ASSUME NEW p \in Producers, Dequeue(p) PROVE Runner!Next
  <2>1. p \in Sources /\ p # Loop
    BY LoopAssumption DEF Sources
  <2>2. Pending[p] = scheduled_tasks[p]
    BY <2>1 DEF Pending
  <2>3. Pending' = [Pending EXCEPT ![p] = Tail(@)]
    <3>1. UNCHANGED <<nest_tasks, in_loop_tasks>>
      BY <1>2 DEF Dequeue
    <3>2. scheduled_tasks \in [Producers -> Seq(Nat)]
      BY DEF QuitInv, TypeOK
    <3>3. scheduled_tasks' = [scheduled_tasks EXCEPT ![p] = Tail(@)]
      BY <1>2 DEF Dequeue
    <3> QED
      BY <2>1, <3>1, <3>2, <3>3, Zenon DEF Pending, Sources
  <2>4. Runner!Run(p)
    BY <1>2, <2>2, <2>3 DEF Dequeue, Runner!Run
  <2> QED
    BY <2>1, <2>4 DEF Runner!Next
<1>3. ASSUME RunNested PROVE Runner!Next
  <2>1. Loop \in Sources /\ Pending[Loop] = nest_tasks \o in_loop_tasks
    BY DEF Sources, Pending
  <2>2. /\ Pending[Loop] # <<>>
        /\ Head(Pending[Loop]) = Head(nest_tasks)
        /\ Tail(Pending[Loop]) = Tail(nest_tasks) \o in_loop_tasks
    BY <1>3, <2>1, TailOfJoin, Zenon DEF RunNested, QuitInv, TypeOK
  <2>3. Pending' = [Pending EXCEPT ![Loop] = Tail(@)]
    BY <1>3, <2>1, <2>2, Zenon DEF RunNested, Pending
  <2>4. Runner!Run(Loop)
    BY <1>3, <2>2, <2>3, Zenon DEF RunNested, Runner!Run
  <2> QED
    BY <2>1, <2>4 DEF Runner!Next
<1>4. ASSUME BodyPost PROVE [Runner!Next]_<<posted, Pending, ran>>
  <2>1. CASE ~running
    BY <1>4, <2>1, RunnerStutter DEF BodyPost
  <2>2. CASE running
    <3>1. Loop \in Sources /\ Pending[Loop] = nest_tasks \o in_loop_tasks
      BY DEF Sources, Pending
    <3>2. posted[Loop] + 1 \in Nat
      <4>1. posted \in [Sources -> Nat]
        BY DEF QuitInv, TypeOK
      <4>2. posted[Loop] \in Nat
        BY <3>1, <4>1, Zenon
      <4> QED
        BY <4>2
    <3>3. nest_tasks \o Append(in_loop_tasks, posted[Loop] + 1)
            = Append(Pending[Loop], posted[Loop] + 1)
      <4>1. nest_tasks \in Seq(Nat) /\ in_loop_tasks \in Seq(Nat)
        BY DEF QuitInv, TypeOK
      <4>2. nest_tasks \o Append(in_loop_tasks, posted[Loop] + 1)
              = Append(nest_tasks \o in_loop_tasks, posted[Loop] + 1)
        BY <3>2, <4>1, AppendToJoin, Zenon
      <4> QED
        BY <3>1, <4>2, Zenon
    <3>4. Pending' = [Pending EXCEPT ![Loop] = Append(@, posted[Loop] + 1)]
      BY <1>4, <2>2, <3>1, <3>3, Zenon DEF BodyPost, Pending
    <3>5. Runner!Post(Loop)
      BY <1>4, <2>2, <3>4 DEF BodyPost, Runner!Post
    <3> QED
      BY <3>1, <3>5 DEF Runner!Next
  <2> QED
    BY <2>1, <2>2
<1>5. ASSUME TakeNested PROVE UNCHANGED <<posted, Pending, ran>>
  <2>1. nest_tasks = <<>>
    BY <1>5 DEF TakeNested, QuitInv, FinalPhase
  <2>2. nest_tasks' \o in_loop_tasks' = nest_tasks \o in_loop_tasks
    BY <1>5, <2>1, JoinWithEmpty DEF TakeNested, QuitInv, TypeOK
  <2> QED
    BY <1>5, <2>2, Zenon DEF TakeNested, Pending
<1>6. ASSUME \/ ThreadBegin \/ WhileRunning \/ Pump \/ ReadEventFd \/ ClearNotifyFlag
             \/ \E p \in Producers : FindEmpty(p) \/ CheckRunning(p) \/ CallWakeUp(p) \/ TestAndSet(p)
                                     \/ WriteEventFd(p)
             \/ DrainEnd \/ RunDelegate \/ BodyReturn \/ BodyTestAndSet \/ BodyWriteEventFd \/ BodyQuit \/ OtherThreadQuits
             \/ UNCHANGED vars
      PROVE UNCHANGED <<scheduled_tasks, in_loop_tasks, nest_tasks, posted, ran>>
  BY <1>6 DEF ThreadBegin, WhileRunning, Pump, ReadEventFd, ClearNotifyFlag, FindEmpty,
              CheckRunning, CallWakeUp, TestAndSet, WriteEventFd, DrainEnd, RunDelegate,
              BodyReturn, BodyTestAndSet, BodyWriteEventFd,
              BodyQuit, OtherThreadQuits, LoopUnchanged, loopVars, vars
<1> QED
  BY <1>1, <1>2, <1>3, <1>4, <1>5, <1>6, RunnerStutter DEF Next, LoopStep, ProducerStep

\* A MessageLoop runs the tasks of each source once each and in posting order: it
\* implements TaskRunner.
THEOREM RunnerCorrect == Spec => RunnerSpec
<1>1. Init => Runner!Init
  <2>1. ASSUME Init PROVE Pending = [s \in Sources |-> <<>>]
    BY <2>1 DEF Init, Pending, Sources
  <2> QED
    BY <2>1, Zenon DEF Init, Runner!Init
<1>2. Spec => []QuitInv
  BY QuitInvariant
<1> QED
  BY <1>1, <1>2, RunnerStep, PTL DEF Spec, RunnerSpec, Runner!Spec

-----------------------------------------------------------------------------
(* LoopLifecycle: starting, waiting for, quitting and destroying a loop.   *)

\* Places of the loop thread before running_ is set, and those where it may be true
Unborn == {"none", "begin"}
Running == {"notify_begin", "while", "pump"}

Seen == [call : Calls, lpc : MainPC]

LifeTypes ==
  /\ tpc \in [Threads -> ThreadPC] /\ call \in [Threads -> Calls]
  /\ saw \in [Threads -> Seen] /\ lpc \in MainPC /\ sleeping \subseteq Threads

\* The thread is spawned once.
SpawnInv ==
  /\ ~start_flag => lpc = "none"
  /\ \A t \in Threads : tpc[t] = "spawn" => start_flag /\ lpc = "none"
  /\ \A t, u \in Threads : tpc[t] = "spawn" /\ tpc[u] = "spawn" => t = u

\* running_ is true only between the first step of ThreadMain and the end of its loop.
RunInv == running_ => lpc \in Running

\* The loop thread has begun when a WaitLoopEnd waits and when a predicate has held;
\* that of a WaitLoopEnd still holds.
WaitInv ==
  /\ \A t \in sleeping : tpc[t] = "asleep"
  /\ \A t \in Threads : call[t] = "WaitLoopEnd" => lpc \notin Unborn
  /\ \A t \in Threads : tpc[t] = "unlock" => lpc \notin Unborn /\ (call[t] = "WaitLoopEnd" => ~running_)
  /\ \A t \in Threads : tpc[t] = "out" <=> call[t] = "none"

\* Under the destructor nobody else is in a call, and after the join the thread is gone.
DestroyInv ==
  /\ \A t \in Threads : tpc[t] \in {"notify", "join", "end_wait", "done"} <=> call[t] = "~MessageLoop"
  /\ \A t \in Threads : call[t] = "~MessageLoop" => t = Owner
  /\ call[Owner] = "~MessageLoop" => \A t \in Threads \ {Owner} : call[t] = "none"
  /\ tpc[Owner] \in {"end_wait", "done"} => lpc \in {"none", "exited"}

\* What the last call of each thread has seen
SawInv ==
  \A t \in Threads :
    /\ saw[t].call = "WaitLoopEnd" /\ saw[t].lpc \notin Unborn => ~running_ /\ lpc \notin Unborn
    /\ saw[t].call = "Start" => saw[t].lpc \notin Unborn

LifeInv == LifeTypes /\ SpawnInv /\ RunInv /\ WaitInv /\ DestroyInv /\ SawInv

\* The steps of the loop thread
LEMMA ThreadMainKeeps == ASSUME Owner \in Threads, LifeInv, MainStep PROVE LifeInv'
<1> USE DEF LifeInv
<1>1. CASE SetRunning
  <2>1. /\ lpc = "begin" /\ running_' = TRUE /\ lpc' = "notify_begin"
        /\ UNCHANGED <<start_flag, lock, sleeping, tpc, call, pipe, quit_task, saw>>
    BY <1>1 DEF SetRunning
  <2>2. LifeTypes' /\ RunInv'
    BY <2>1 DEF LifeTypes, RunInv, Running, MainPC
  <2>3. SpawnInv' /\ DestroyInv'
    BY <2>1 DEF SpawnInv, DestroyInv
  <2>4. WaitInv' /\ SawInv'
    BY <2>1 DEF WaitInv, SawInv, Unborn
  <2> QED BY <2>2, <2>3, <2>4
<1>2. CASE NotifyBegin \/ NotifyEnd
  <2>1. /\ \/ lpc = "notify_begin" /\ lpc' = "while"
           \/ lpc = "notify_end" /\ lpc' = "exited"
        /\ sleeping' = {} /\ tpc' = [t \in Threads |-> IF t \in sleeping THEN "lock" ELSE tpc[t]]
        /\ UNCHANGED <<start_flag, running_, lock, call, pipe, quit_task, saw>>
    BY <1>2 DEF NotifyBegin, NotifyEnd, NotifyAll
  <2>2. \A t \in Threads : tpc'[t] = tpc[t] \/ (tpc[t] = "asleep" /\ tpc'[t] = "lock")
    BY <2>1 DEF LifeTypes, WaitInv
  <2>3. LifeTypes'
    BY <2>1 DEF LifeTypes, MainPC, ThreadPC
  <2>4. RunInv' /\ SpawnInv'
    BY <2>1, <2>2 DEF RunInv, Running, SpawnInv
  <2>5. DestroyInv'
    BY <2>1, <2>2 DEF DestroyInv
  <2>6. WaitInv' /\ SawInv'
    BY <2>1, <2>2 DEF WaitInv, SawInv, Unborn
  <2> QED BY <2>3, <2>4, <2>5, <2>6
<1>3. CASE TestRunning \/ PumpAndRun \/ FinalTasks
  <2>1. /\ lpc \in {"while", "pump", "final"} /\ lpc' \in {"while", "pump", "final", "notify_end"}
        /\ running_' => running_ /\ lpc' \in Running
        /\ UNCHANGED <<start_flag, lock, sleeping, tpc, call, saw>>
    <3>1. CASE TestRunning
      BY <3>1 DEF TestRunning, Running
    <3>2. CASE PumpAndRun
      BY <3>2, Zenon DEF PumpAndRun, Running
    <3>3. CASE FinalTasks
      <4>1. ~running_
        BY <3>3 DEF FinalTasks, RunInv, Running
      <4> QED BY <3>3, <4>1, Zenon DEF FinalTasks
    <3> QED BY <1>3, <3>1, <3>2, <3>3
  <2>2. LifeTypes' /\ RunInv'
    BY <2>1 DEF LifeTypes, RunInv, MainPC
  <2>3. SpawnInv' /\ DestroyInv'
    BY <2>1 DEF SpawnInv, DestroyInv
  <2>4. WaitInv' /\ SawInv'
    BY <2>1 DEF WaitInv, SawInv, Unborn
  <2> QED BY <2>2, <2>3, <2>4
<1> QED BY <1>1, <1>2, <1>3 DEF MainStep

\* A thread that goes from one place inside a call to another; running_, the call and
\* what was seen stay.
LEMMA GotoKeeps ==
  ASSUME LifeInv, NEW t \in Threads, NEW to \in {"lock", "test", "block", "asleep", "unlock"},
         tpc[t] \in {"lock", "test", "block", "asleep"}, Goto(t, to),
         to = "unlock" => lpc \notin Unborn /\ (call[t] = "WaitLoopEnd" => ~running_),
         sleeping' \subseteq Threads, \A u \in sleeping' : (u = t /\ to = "asleep") \/ (u # t /\ u \in sleeping),
         UNCHANGED <<start_flag, running_, call, lpc, saw>>
  PROVE  LifeInv'
<1> USE DEF LifeInv
<1>1. tpc' = [tpc EXCEPT ![t] = to]
  BY DEF Goto
<1>2. LifeTypes'
  BY <1>1 DEF LifeTypes, ThreadPC
<1>3. SpawnInv' /\ RunInv' /\ SawInv'
  BY <1>1 DEF LifeTypes, SpawnInv, RunInv, SawInv
<1>4. DestroyInv'
  BY <1>1 DEF LifeTypes, DestroyInv
<1>5. WaitInv'
  BY <1>1 DEF LifeTypes, WaitInv
<1> QED BY <1>2, <1>3, <1>4, <1>5

\* A call of Start or WaitLoopEnd returns.
LEMMA ReturnKeeps ==
  ASSUME Owner \in Threads, LifeInv, NEW t \in Threads, NEW c \in {"Start", "WaitLoopEnd"}, Return(t, c),
         call[t] # "~MessageLoop", ~Destroyed,
         c = "Start" => lpc \notin Unborn, c = "WaitLoopEnd" => ~running_,
         tpc[t] # "asleep", UNCHANGED <<start_flag, running_, lpc, sleeping>>
  PROVE  LifeInv'
<1> USE DEF LifeInv
<1>1. /\ tpc' = [tpc EXCEPT ![t] = "out"] /\ call' = [call EXCEPT ![t] = "none"]
      /\ saw' = [saw EXCEPT ![t] = [call |-> c, lpc |-> lpc]]
  BY DEF Return, Goto
<1>2. LifeTypes'
  <2>1. [call |-> c, lpc |-> lpc] \in Seen
    BY DEF Seen, LifeTypes, Calls
  <2> QED BY <1>1, <2>1 DEF LifeTypes, ThreadPC, Calls
<1>3. SpawnInv' /\ RunInv'
  BY <1>1 DEF LifeTypes, SpawnInv, RunInv
<1>4. DestroyInv'
  BY <1>1 DEF LifeTypes, DestroyInv, Destroyed
<1>5. WaitInv'
  BY <1>1 DEF LifeTypes, WaitInv
<1>6. SawInv'
  <2>1. saw'[t].call = c /\ saw'[t].lpc = lpc /\ \A u \in Threads \ {t} : saw'[u] = saw[u]
    BY <1>1 DEF LifeTypes
  <2> QED BY <2>1 DEF SawInv
<1> QED BY <1>2, <1>3, <1>4, <1>5, <1>6

\* The steps of a thread that uses the loop
LEMMA ThreadKeeps ==
  ASSUME Owner \in Threads, LifeInv, NEW t \in Threads,
         \/ Start(t) \/ WaitLoopEnd(t) \/ CallQuitLoop(t) \/ PostQuit(t)
         \/ CallStep(t) \/ SpuriousWake(t)
  PROVE  LifeInv'
<1> USE DEF LifeInv
<1>1. CASE Start(t)
  <2>1. CASE start_flag
    <3>1. start_flag' = TRUE /\ UNCHANGED <<running_, lock, sleeping, tpc, call, lpc, pipe, quit_task, saw>>
      BY <1>1, <2>1 DEF Start
    <3> QED BY <2>1, <3>1 DEF LifeTypes, SpawnInv, RunInv, WaitInv, DestroyInv, SawInv
  <2>2. CASE ~start_flag
    <3>1. /\ start_flag' = TRUE /\ tpc[t] = "out" /\ call[Owner] # "~MessageLoop"
          /\ tpc' = [tpc EXCEPT ![t] = "spawn"] /\ call' = [call EXCEPT ![t] = "Start"]
          /\ UNCHANGED <<running_, sleeping, lpc, saw>>
      BY <1>1, <2>2 DEF Start, Goto, Destroyed
    <3>2. LifeTypes'
      BY <3>1 DEF LifeTypes, ThreadPC, Calls
    <3>3. RunInv' /\ SawInv'
      BY <3>1 DEF RunInv, SawInv
    <3>4. SpawnInv'
      BY <2>2, <3>1 DEF LifeTypes, SpawnInv
    <3>5. WaitInv'
      BY <3>1 DEF LifeTypes, WaitInv
    <3>6. DestroyInv'
      BY <3>1 DEF LifeTypes, DestroyInv
    <3> QED BY <3>2, <3>3, <3>4, <3>5, <3>6
  <2> QED BY <2>1, <2>2
<1>2. CASE WaitLoopEnd(t)
  <2>0. tpc[t] = "out" /\ call[t] = "none" /\ ~Destroyed /\ UNCHANGED <<start_flag, running_, lpc, sleeping>>
    BY <1>2 DEF WaitLoopEnd, WaitInv
  <2>1. CASE running_
    <3>1. /\ tpc' = [tpc EXCEPT ![t] = "lock"] /\ call' = [call EXCEPT ![t] = "WaitLoopEnd"]
          /\ saw' = saw /\ lpc \notin Unborn
      BY <1>2, <2>1 DEF WaitLoopEnd, Goto, RunInv, Running, Unborn
    <3>2. LifeTypes'
      BY <2>0, <3>1 DEF LifeTypes, ThreadPC, Calls
    <3>3. RunInv' /\ SawInv' /\ SpawnInv'
      BY <2>0, <3>1 DEF RunInv, SawInv, SpawnInv, LifeTypes
    <3>4. WaitInv'
      BY <2>0, <3>1 DEF LifeTypes, WaitInv
    <3>5. DestroyInv'
      BY <2>0, <3>1 DEF LifeTypes, DestroyInv, Destroyed
    <3> QED BY <3>2, <3>3, <3>4, <3>5
  <2>2. CASE ~running_
    <3>1. Return(t, "WaitLoopEnd")
      BY <1>2, <2>2 DEF WaitLoopEnd
    <3> QED BY <2>0, <2>2, <3>1, ReturnKeeps
  <2> QED BY <2>1, <2>2
<1>3. CASE CallQuitLoop(t)
  <2>1. running_' = FALSE /\ UNCHANGED <<start_flag, sleeping, tpc, call, lpc, saw>>
    BY <1>3 DEF CallQuitLoop
  <2> QED BY <2>1 DEF LifeTypes, SpawnInv, RunInv, WaitInv, DestroyInv, SawInv
<1>4. CASE PostQuit(t)
  <2>1. UNCHANGED <<running_, start_flag, sleeping, tpc, call, lpc, saw>>
    BY <1>4 DEF PostQuit
  <2> QED BY <2>1 DEF LifeTypes, SpawnInv, RunInv, WaitInv, DestroyInv, SawInv
<1>5. CASE Spawn(t)
  <2>1. /\ tpc[t] = "spawn" /\ lpc' = "begin" /\ tpc' = [tpc EXCEPT ![t] = "lock"]
        /\ UNCHANGED <<start_flag, running_, sleeping, call, saw>> /\ lpc = "none" /\ start_flag
    BY <1>5 DEF Spawn, Goto, SpawnInv
  <2>2. LifeTypes'
    BY <2>1 DEF LifeTypes, ThreadPC, MainPC
  <2>3. RunInv' /\ SawInv'
    BY <2>1 DEF RunInv, Running, SawInv, Unborn
  <2>4. SpawnInv'
    BY <2>1 DEF SpawnInv, LifeTypes
  <2>5. WaitInv'
    BY <2>1 DEF WaitInv, LifeTypes, Unborn
  <2>6. DestroyInv'
    <3>1. call[t] # "~MessageLoop" /\ call[t] # "none"
      BY <2>1 DEF DestroyInv, WaitInv
    <3>2. call[Owner] # "~MessageLoop"
      BY <3>1 DEF DestroyInv
    <3> QED BY <2>1, <3>1, <3>2 DEF DestroyInv, LifeTypes
  <2> QED BY <2>2, <2>3, <2>4, <2>5, <2>6
<1>6. CASE Lock(t)
  BY <1>6, GotoKeeps DEF Lock, LifeTypes, WaitInv
<1>7. CASE TestPredicate(t)
  <2>1. /\ tpc[t] = "test" /\ Goto(t, IF Awaited(t) THEN "unlock" ELSE "block")
        /\ UNCHANGED <<start_flag, running_, sleeping, call, lpc, saw>> /\ t \notin sleeping
    BY <1>7 DEF TestPredicate, WaitInv
  <2>a. sleeping' \subseteq Threads /\ \A u \in sleeping' : u # t /\ u \in sleeping
    BY <2>1 DEF LifeTypes
  <2>2. CASE ~Awaited(t)
    <3>1. Goto(t, "block")
      BY <2>1, <2>2
    <3> QED BY <2>1, <2>a, <3>1, GotoKeeps
  <2>3. CASE Awaited(t)
    <3>1. call[t] \in {"Start", "WaitLoopEnd"}
      BY <2>1 DEF LifeTypes, Calls, WaitInv, DestroyInv
    <3>2. lpc \notin Unborn /\ (call[t] = "WaitLoopEnd" => ~running_)
      BY <2>3, <3>1 DEF Awaited, WaitInv, RunInv, Running, Unborn
    <3>3. Goto(t, "unlock")
      BY <2>1, <2>3
    <3> QED BY <2>1, <2>a, <3>2, <3>3, GotoKeeps
  <2> QED BY <2>2, <2>3
<1>8. CASE Block(t)
  BY <1>8, GotoKeeps DEF Block, LifeTypes
<1>9. CASE Unlock(t)
  <2>1. /\ tpc[t] = "unlock" /\ Return(t, call[t]) /\ UNCHANGED <<start_flag, running_, lpc, sleeping>>
    BY <1>9 DEF Unlock
  <2>2. /\ call[t] \in {"Start", "WaitLoopEnd"} /\ lpc \notin Unborn
        /\ call[t] = "WaitLoopEnd" => ~running_
    BY <2>1 DEF LifeTypes, Calls, WaitInv, DestroyInv
  <2>3. ~Destroyed
    BY <2>2 DEF Destroyed, DestroyInv
  <2> QED BY <2>1, <2>2, <2>3, ReturnKeeps
<1>10. CASE SpuriousWake(t)
  BY <1>10, GotoKeeps DEF SpuriousWake, LifeTypes
<1> QED BY <1>1, <1>2, <1>3, <1>4, <1>5, <1>6, <1>7, <1>8, <1>9, <1>10 DEF CallStep

\* The destructor
LEMMA DestructorKeeps ==
  ASSUME Owner \in Threads, LifeInv, Destroy \/ DestroyStep
  PROVE  LifeInv'
<1> USE DEF LifeInv
<1>a. ASSUME NEW to \in {"notify", "join", "end_wait", "done"}, tpc' = [tpc EXCEPT ![Owner] = to],
             call' = [call EXCEPT ![Owner] = "~MessageLoop"], tpc[Owner] # "asleep",
             \A u \in Threads \ {Owner} : call[u] = "none",
             to \in {"end_wait", "done"} => lpc \in {"none", "exited"},
             running_' => running_, UNCHANGED <<start_flag, sleeping, lpc, saw>>
      PROVE  LifeInv'
  <2>1. LifeTypes'
    BY <1>a DEF LifeTypes, ThreadPC, Calls
  <2>2. SpawnInv' /\ RunInv' /\ SawInv'
    BY <1>a DEF LifeTypes, SpawnInv, RunInv, SawInv
  <2>3. WaitInv'
    BY <1>a DEF LifeTypes, WaitInv
  <2>4. DestroyInv'
    BY <1>a DEF LifeTypes, WaitInv, DestroyInv
  <2> QED BY <2>1, <2>2, <2>3, <2>4
<1>1. CASE Destroy
  BY <1>a, <1>1 DEF Destroy, Goto
<1>b. ASSUME call[Owner] = "~MessageLoop", call' = call
      PROVE  /\ call' = [call EXCEPT ![Owner] = "~MessageLoop"]
             /\ \A u \in Threads \ {Owner} : call[u] = "none"
  BY <1>b DEF LifeTypes, DestroyInv
<1>2. CASE DestroyNotify
  BY <1>a, <1>b, <1>2 DEF DestroyNotify, Goto, DestroyInv
<1>3. CASE DestroyJoin
  BY <1>a, <1>b, <1>3 DEF DestroyJoin, Goto, DestroyInv
<1>4. CASE DestroyWait
  <2>1. /\ tpc[Owner] = "end_wait" /\ lpc \in {"none", "exited"} /\ call[Owner] = "~MessageLoop"
        /\ \A u \in Threads \ {Owner} : call[u] = "none"
        /\ UNCHANGED <<start_flag, running_, sleeping, lpc>>
    BY <1>4 DEF DestroyWait, DestroyInv
  <2>2. ~running_
    BY <2>1 DEF RunInv, Running
  <2>3. /\ tpc' = [tpc EXCEPT ![Owner] = "done"] /\ call' = [call EXCEPT ![Owner] = "~MessageLoop"]
        /\ saw' = [saw EXCEPT ![Owner] = [call |-> "~MessageLoop", lpc |-> lpc]]
    BY <1>4, <2>2 DEF DestroyWait, Return, Goto
  <2>4. [call |-> "~MessageLoop", lpc |-> lpc] \in Seen
    BY DEF Seen, LifeTypes, Calls
  <2>5. LifeTypes'
    BY <2>1, <2>3, <2>4 DEF LifeTypes, ThreadPC, Calls
  <2>6. SpawnInv' /\ RunInv'
    BY <2>1, <2>3 DEF LifeTypes, SpawnInv, RunInv
  <2>7. WaitInv'
    BY <2>1, <2>3 DEF LifeTypes, WaitInv
  <2>8. DestroyInv'
    BY <2>1, <2>3 DEF LifeTypes, DestroyInv
  <2>9. SawInv'
    <3>1. saw'[Owner].call = "~MessageLoop" /\ \A u \in Threads \ {Owner} : saw'[u] = saw[u]
      BY <2>3 DEF LifeTypes
    <3> QED BY <2>1, <3>1 DEF SawInv
  <2> QED BY <2>5, <2>6, <2>7, <2>8, <2>9
<1> QED BY <1>1, <1>2, <1>3, <1>4 DEF DestroyStep

LEMMA LifeInvariant == LifeSpec => []LifeInv
<1>1. LifeInit => LifeInv
  <2> SUFFICES ASSUME LifeInit PROVE LifeInv
    OBVIOUS
  <2>1. [call |-> "none", lpc |-> "none"] \in Seen
    BY DEF Seen, Calls, MainPC
  <2>2. LifeTypes
    BY <2>1 DEF LifeInit, LifeTypes, ThreadPC, Calls, MainPC
  <2>3. SpawnInv /\ RunInv /\ WaitInv /\ DestroyInv
    BY DEF LifeInit, SpawnInv, RunInv, WaitInv, DestroyInv
  <2>4. SawInv
    BY DEF LifeInit, SawInv
  <2> QED BY <2>2, <2>3, <2>4 DEF LifeInv
<1>2. LifeInv /\ [LifeNext]_lifeVars => LifeInv'
  <2>1. ASSUME LifeInv, UNCHANGED lifeVars PROVE LifeInv'
    BY <2>1 DEF lifeVars, LifeInv, LifeTypes, SpawnInv, RunInv, WaitInv, DestroyInv, SawInv
  <2>2. ASSUME LifeInv, LifeNext PROVE LifeInv'
    BY <2>2, OwnerAssumption, ThreadMainKeeps, ThreadKeeps, DestructorKeeps, Zenon DEF LifeNext
  <2> QED BY <2>1, <2>2
<1> QED BY <1>1, <1>2, PTL DEF LifeSpec

\* When ~MessageLoop returns, ThreadMain has returned or was never started, no thread
\* sleeps on cv_ and running_ is false (message_loop.cc), for any number of threads
\* that start, wait for and quit the loop.
THEOREM DestroyedTheorem == LifeSpec => []DestroyedIsQuiet
<1>1. LifeInv => DestroyedIsQuiet
  <2> SUFFICES ASSUME LifeInv, tpc[Owner] = "done"
               PROVE  lpc \in {"none", "exited"} /\ sleeping = {} /\ ~running_
    BY DEF DestroyedIsQuiet
  <2>1. lpc \in {"none", "exited"} /\ call[Owner] = "~MessageLoop"
    BY OwnerAssumption DEF LifeInv, DestroyInv
  <2>2. ~running_
    BY <2>1 DEF LifeInv, RunInv, Running
  <2>3. \A t \in Threads : tpc[t] # "asleep"
    BY <2>1 DEF LifeInv, DestroyInv, WaitInv
  <2> QED BY <2>1, <2>2, <2>3 DEF LifeInv, LifeTypes, WaitInv
<1> QED BY <1>1, LifeInvariant, PTL

\* A WaitLoopEnd that began on a running loop returns only when running_ is false for
\* good, so that the loop's thread is bound to end; and the Start that spawned the
\* thread returns only after ThreadMain has set running_ (message_loop.cc).
THEOREM WaitTheorem == LifeSpec => [](WaitMeansQuit /\ StartedMeansRan)
<1>1. LifeInv => WaitMeansQuit /\ StartedMeansRan
  BY DEF LifeInv, SawInv, Unborn, WaitMeansQuit, StartedMeansRan
<1> QED BY <1>1, LifeInvariant, PTL
=============================================================================
