---------------------------- MODULE TpuQueueProofs ----------------------------
(***************************************************************************)
(* Proofs about TpuQueue for every set of threads and every value of       *)
(* MaxNodes, TASK_LIST_MAX and DONE_LIST_MAX.                              *)
(***************************************************************************)
EXTENDS TpuQueue, LeastElement, FiniteSetTheorems, SequenceTheorems, TLAPS

USE DEF DESNORMAL, DESSEC, PIOTDMA

-----------------------------------------------------------------------------
(* What the operators of the model return *)

\* get_from_done_list returns NULL or a node of done_list that matches.
LEMMA LookupType ==
    ASSUME TypeOK, NEW t \in Threads
    PROVE  get_from_done_list(t) = NoNode \/ get_from_done_list(t) \in Matches(t)
<1>1. CASE Matches(t) = {}
  BY <1>1 DEF get_from_done_list
<1>2. CASE Matches(t) # {}
  <2> DEFINE P == {node[n].pos : n \in Matches(t)}
  <2>1. \A n \in Matches(t) : node[n].pos \in Nat
    BY DEF TypeOK, MemoryType, NodeType, Matches
  <2>2. P \subseteq Nat /\ P # {}
    BY <1>2, <2>1
  <2>3. PICK p \in P : \A q \in P : p <= q
    BY <2>2, LeastNat
  <2>4. \E n \in Matches(t) : \A m \in Matches(t) : node[n].pos <= node[m].pos
    BY <2>3
  <2> QED
    BY <1>2, <2>4 DEF get_from_done_list
<1> QED
  BY <1>1, <1>2

\* The node a submit or PIO ioctl allocates and fills in is a task node.
LEMMA NewNodeType ==
    ASSUME NEW t \in Threads, NEW path \in SubmitPaths, NEW seq \in SeqNos
    PROVE  NewNode(t, path, seq) \in NodeType
  BY QueueAssumption DEF NewNode, DmabufNode, TeeNode, PioNode, ZeroNode, NodeType, Paths, Results

\* Freeing nodes keeps the types of what it touches.
LEMMA FreeType ==
    ASSUME TypeOK, NEW F, Free(F)
    PROVE  /\ heap' \subseteq Nodes
           /\ node' \in [Nodes -> NodeType]
           /\ job' \in [Nodes -> JobType]
<1>1. ZeroNode \in NodeType
  BY QueueAssumption DEF ZeroNode, NodeType, Paths, Results
<1>2. NoJob \in JobType
  BY DEF NoJob, JobType
<1> QED
  BY <1>1, <1>2 DEF TypeOK, MemoryType, HistType, Free

\* Writing one field of a task node or of an ioctl's argument keeps its type.
LEMMA FieldTypes ==
    /\ \A r \in NodeType, ret \in Results : Answered(r, ret) \in NodeType
    /\ \A r \in NodeType, k \in Nat : Placed(r, k) \in NodeType
    /\ \A j \in JobType, k \in Nat : Ticketed(j, k) \in JobType
    /\ \A j \in JobType, ret \in Results : Finished(j, ret) \in JobType
<1>1. ASSUME NEW r \in NodeType, NEW ret \in Results PROVE Answered(r, ret) \in NodeType
  BY DEF NodeType, Answered
<1>2. ASSUME NEW r \in NodeType, NEW k \in Nat PROVE Placed(r, k) \in NodeType
  BY DEF NodeType, Placed
<1>3. ASSUME NEW j \in JobType, NEW k \in Nat PROVE Ticketed(j, k) \in JobType
  BY DEF JobType, Ticketed
<1>4. ASSUME NEW j \in JobType, NEW ret \in Results PROVE Finished(j, ret) \in JobType
  BY DEF JobType, Finished
<1> QED
  BY <1>1, <1>2, <1>3, <1>4

\* What task_list holds are nodes.
LEMMA QueuedType ==
    ASSUME TypeOK
    PROVE  Queued \subseteq Nodes
  BY DEF TypeOK, MemoryType, Queued

-----------------------------------------------------------------------------
(* Type correctness *)

\* Without a driver there is no work thread.
UnboundGone == ~bound => wpc = "gone"

\* The work thread has a node in its hands exactly while it runs one.
RunningNode == wpc \in {"lock", "hw", "publish"} => wnode \in Nodes

\* The clock count stays a natural number only because enables and disables
\* pair up (ClockBalance), and that is inductive only because a new work thread
\* starts where the old one has gone (UnboundGone).
TypeInv == TypeOK /\ ClockBalance /\ UnboundGone /\ RunningNode

\* The state after probe satisfies the strengthened type invariant.
LEMMA TypeInit == Init => TypeInv
<1> SUFFICES ASSUME Init PROVE TypeInv
  OBVIOUS
<1>1. 1 \in 1..(MaxNodes + 1)
  BY QueueAssumption
<1>2. ZeroNode \in NodeType
  BY QueueAssumption DEF ZeroNode, NodeType, Paths, Results
<1>3. ThreadType
  BY QueueAssumption DEF Init, ThreadType, UserPcs, NoArg, Paths, NoNode
<1>4. MemoryType
  BY <1>1, <1>2 DEF Init, MemoryType
<1>5. WorkType
  BY DEF Init, WorkType, WorkPcs
<1>6. FlagType
  BY DEF Init, FlagType
<1>7. HistType
  BY DEF Init, HistType, NoJob, JobType
<1>8. ClockBalance /\ UnboundGone /\ RunningNode
  BY DEF Init, ClockBalance, UnboundGone, RunningNode
<1> QED
  BY <1>3, <1>4, <1>5, <1>6, <1>7, <1>8 DEF TypeInv, TypeOK

\* Every step of the ioctls, the work thread and removal preserves it.
LEMMA TypeStep == TypeInv /\ [Next]_vars => TypeInv'
<1> SUFFICES ASSUME TypeInv, [Next]_vars PROVE TypeInv'
  OBVIOUS
<1> USE QueueAssumption DEF TypeInv, TypeOK, ThreadType, MemoryType, WorkType, FlagType, HistType,
       ClockBalance, UnboundGone, RunningNode, vars, threadVars, nodeVars, listVars, workVars, histVars
<1>1. ASSUME NEW t \in Threads, Open(t) PROVE TypeInv'
  BY <1>1 DEF Open
<1>2. ASSUME NEW t \in Threads, Close(t) PROVE TypeInv'
  BY <1>2 DEF Close
<1>3. ASSUME NEW t \in Threads, ThreadExit(t) PROVE TypeInv'
  BY <1>3 DEF ThreadExit
<1>4. ASSUME NEW t \in Threads, ThreadStart(t) PROVE TypeInv'
  BY <1>4 DEF ThreadStart
<1>5. ASSUME NEW t \in Threads, SubmitStart(t) PROVE TypeInv'
  BY <1>5 DEF SubmitStart, Ioctl, NoArg, Paths, UserPcs
<1>6. ASSUME NEW t \in Threads, SubmitCount(t) PROVE TypeInv'
  <2>1. CountTasks(cnt[t]) \in 0..(TASK_LIST_MAX + 1)
    BY LenProperties DEF CountTasks
  <2>2. cnt' \in [Threads -> 0..(TASK_LIST_MAX + 1)]
    BY <1>6, <2>1, 0 \in 0..(TASK_LIST_MAX + 1) DEF SubmitCount
  <2>3. ThreadType'
    BY <1>6, <2>2 DEF SubmitCount, UserPcs
  <2>4. (MemoryType /\ WorkType /\ FlagType /\ HistType /\ ClockBalance /\ UnboundGone /\ RunningNode)'
    BY <1>6 DEF SubmitCount
  <2> QED
    BY <2>1, <2>2, <2>3, <2>4
<1>7. ASSUME NEW t \in Threads, SubmitQueue(t) PROVE TypeInv'
  <2>1. next \in Nodes /\ next + 1 \in 1..(MaxNodes + 1)
    BY <1>7, next <= MaxNodes DEF SubmitQueue, Nodes
  <2>2. ThreadType' /\ FlagType'
    BY <1>7 DEF SubmitQueue, Return, NoArg, Paths, UserPcs
  <2>3. node' \in [Nodes -> NodeType]
    BY <1>7, <2>1, NewNodeType DEF SubmitQueue
  <2>4. bufs' \subseteq Nodes
    BY <1>7, <2>1 DEF SubmitQueue, PrepareBuffer
  <2>5. task_list' \in Seq(Nodes)
    BY <1>7, <2>1 DEF SubmitQueue, list_add_tail
  <2>6. MemoryType'
    BY <1>7, <2>1, <2>3, <2>4, <2>5 DEF SubmitQueue
  <2>7. (WorkType /\ ClockBalance /\ UnboundGone /\ RunningNode)'
    BY <1>7 DEF SubmitQueue, WakeWorker, WorkPcs
  <2>8. job' \in [Nodes -> JobType]
    BY <1>7, <2>1, FieldTypes DEF SubmitQueue
  <2>9. HistType'
    BY <1>7, <2>8 DEF SubmitQueue
  <2> QED
    BY <2>1, <2>2, <2>3, <2>4, <2>5, <2>6, <2>7, <2>8, <2>9
<1>8. ASSUME NEW t \in Threads, SubmitNoMem(t) PROVE TypeInv'
  BY <1>8 DEF SubmitNoMem, Return, NoArg, Paths, UserPcs
<1>9. ASSUME NEW t \in Threads, WaitStart(t) PROVE TypeInv'
  BY <1>9 DEF WaitStart, Ioctl, WaitPaths, Paths, UserPcs
<1>10. ASSUME NEW t \in Threads, WaitCheck(t) PROVE TypeInv'
  BY <1>10 DEF WaitCheck, UserPcs
<1>11. ASSUME NEW t \in Threads, WaitInterrupted(t) PROVE TypeInv'
  BY <1>11 DEF WaitInterrupted, Return, NoArg, Paths, UserPcs
<1>12. ASSUME NEW t \in Threads, WaitGet(t) PROVE TypeInv'
  <2>1. get_from_done_list(t) \in Nodes \cup {NoNode}
    BY LookupType DEF Matches
  <2>2. pc' \in [Threads -> UserPcs] /\ arg' \in [Threads -> [path: Paths, seq: SeqNos \cup {0}]]
    <3>1. NoArg \in [path: Paths, seq: SeqNos \cup {0}]
      BY DEF NoArg, Paths
    <3>2. CASE get_from_done_list(t) = NoNode
      <4>1. Return(t)
        BY <1>12, <3>2, Zenon DEF WaitGet
      <4> QED
        BY <3>1, <4>1 DEF Return, UserPcs
    <3>3. CASE get_from_done_list(t) # NoNode
      BY <1>12, <3>3 DEF WaitGet, UserPcs
    <3> QED
      BY <3>2, <3>3
  <2>3. ThreadType'
    BY <1>12, <2>1, <2>2 DEF WaitGet
  <2>4. (MemoryType /\ WorkType /\ FlagType /\ HistType /\ ClockBalance /\ UnboundGone /\ RunningNode)'
    BY <1>12 DEF WaitGet
  <2> QED
    BY <2>1, <2>2, <2>3, <2>4
<1>13. ASSUME NEW t \in Threads, WaitFinish(t) PROVE TypeInv'
  <2>1. ThreadType' /\ FlagType'
    BY <1>13 DEF WaitFinish, Return, NoArg, NoNode, Paths, UserPcs
  <2>2. heap' \subseteq Nodes /\ node' \in [Nodes -> NodeType] /\ job' \in [Nodes -> JobType]
    BY <1>13, FreeType DEF WaitFinish
  <2>3. MemoryType' /\ HistType'
    BY <1>13, <2>2 DEF WaitFinish
  <2>4. (WorkType /\ ClockBalance /\ UnboundGone /\ RunningNode)'
    BY <1>13 DEF WaitFinish
  <2> QED
    BY <2>1, <2>2, <2>3, <2>4
<1>14. ASSUME NEW t \in Threads, WaitFault(t) PROVE TypeInv'
  BY <1>14 DEF WaitFault
<1>15. ASSUME NEW t \in Threads, TeeStart(t) PROVE TypeInv'
  BY <1>15 DEF TeeStart, Ioctl, NoArg, Paths, UserPcs
<1>16. ASSUME NEW t \in Threads, TeeLock(t) PROVE TypeInv'
  BY <1>16 DEF TeeLock, UserPcs
<1>17. ASSUME NEW t \in Threads, TeeDone(t) PROVE TypeInv'
  BY <1>17 DEF TeeDone, Return, NoArg, Paths, UserPcs, LockAfterFault
<1>18. ASSUME WorkLoop PROVE TypeInv'
  BY <1>18 DEF WorkLoop, WorkPcs
<1>19. ASSUME WorkWait PROVE TypeInv'
  BY <1>19 DEF WorkWait, WorkPcs
<1>20. ASSUME WorkIdle PROVE TypeInv'
  BY <1>20 DEF WorkIdle, WorkPcs
<1>21. ASSUME WorkTake PROVE TypeInv'
  BY <1>21 DEF WorkTake, WorkPcs
<1>22. ASSUME RunBegin PROVE TypeInv'
  BY <1>22 DEF RunBegin, WorkPcs, Worker
<1>23. ASSUME RunEnd PROVE TypeInv'
  <2>1. PICK ret \in HalResults(node[wnode].tpu_path) :
          /\ job' = [job EXCEPT ![wnode] = Finished(@, ret)]
          /\ node' = [node EXCEPT ![wnode] = Answered(@, ret)]
          /\ clk' = ClkAfterRun(ret)
          /\ timeouts' = IF ret = "etimedout" THEN timeouts + 1 ELSE timeouts
    BY <1>23 DEF RunEnd
  <2>2. node \in [Nodes -> NodeType] /\ wnode \in Nodes => node[wnode].tpu_path \in Paths
    BY DEF NodeType
  <2>3. wnode \in Nodes => ret \in Results
    BY <2>1, <2>2 DEF HalResults, Paths, Results
  <2>4. node' \in [Nodes -> NodeType] /\ job' \in [Nodes -> JobType]
    BY <1>23, <2>1, <2>3, FieldTypes DEF RunEnd
  <2>5. ThreadType' /\ FlagType'
    BY <1>23 DEF RunEnd
  <2>6. MemoryType'
    BY <1>23, <2>4 DEF RunEnd
  <2>7. clk = timeouts + 1
    BY <1>23 DEF RunEnd
  <2>8. clk' \in Nat /\ timeouts' \in Nat /\ clk' = timeouts'
    BY <2>1, <2>7 DEF ClkAfterRun
  <2>9. (WorkType /\ ClockBalance /\ UnboundGone /\ RunningNode)'
    BY <1>23, <2>8 DEF RunEnd, WorkPcs
  <2>10. HistType'
    BY <1>23, <2>4, <2>8 DEF RunEnd
  <2> QED
    BY <2>1, <2>2, <2>3, <2>4, <2>5, <2>6, <2>7, <2>8, <2>9, <2>10
<1>24. ASSUME RunOops PROVE TypeInv'
  BY <1>24 DEF RunOops
<1>25. ASSUME WorkPublish PROVE TypeInv'
  <2>1. wnode \in Nodes
    BY <1>25 DEF WorkPublish
  <2>2. node' \in [Nodes -> NodeType]
    BY <1>25, <2>1, FieldTypes DEF WorkPublish
  <2>3. MemoryType'
    BY <1>25, <2>1, <2>2 DEF WorkPublish, CleanupBuffer
  <2>4. (ThreadType /\ WorkType /\ FlagType /\ HistType /\ ClockBalance /\ UnboundGone /\ RunningNode)'
    BY <1>25 DEF WorkPublish, WorkPcs
  <2> QED
    BY <2>1, <2>2, <2>3, <2>4
<1>26. ASSUME WorkWake PROVE TypeInv'
  BY <1>26 DEF WorkWake, WakeAll, UserPcs, WorkPcs
<1>27. ASSUME WorkReap PROVE TypeInv'
  <2>1. heap' \subseteq Nodes /\ node' \in [Nodes -> NodeType] /\ job' \in [Nodes -> JobType]
    BY <1>27, FreeType DEF WorkReap
  <2>2. MemoryType' /\ HistType'
    BY <1>27, <2>1 DEF WorkReap
  <2>3. (ThreadType /\ WorkType /\ FlagType /\ ClockBalance /\ UnboundGone /\ RunningNode)'
    BY <1>27 DEF WorkReap, WorkPcs
  <2> QED
    BY <2>1, <2>2, <2>3
<1>28. ASSUME Remove PROVE TypeInv'
  BY <1>28 DEF Remove, WakeWorker, WorkPcs
<1>29. ASSUME WorkExit PROVE TypeInv'
  <2>1. heap' \subseteq Nodes /\ node' \in [Nodes -> NodeType] /\ job' \in [Nodes -> JobType]
    BY <1>29, FreeType DEF WorkExit
  <2>2. Queued \subseteq Nodes
    BY QueuedType
  <2>3. MemoryType' /\ HistType'
    BY <1>29, <2>1, <2>2 DEF WorkExit
  <2>4. (ThreadType /\ WorkType /\ FlagType /\ ClockBalance /\ UnboundGone /\ RunningNode)'
    BY <1>29 DEF WorkExit, WorkPcs
  <2> QED
    BY <2>1, <2>2, <2>3, <2>4
<1>30. ASSUME RemoveDone PROVE TypeInv'
  BY <1>30 DEF RemoveDone
<1>31. ASSUME Probe PROVE TypeInv'
  BY <1>31 DEF Probe, WorkPcs, Nobody
<1>32. CASE UNCHANGED vars
  BY <1>32
<1> QED
  BY <1>1, <1>2, <1>3, <1>4, <1>5, <1>6, <1>7, <1>8, <1>9, <1>10, <1>11, <1>12, <1>13,
     <1>14, <1>15, <1>16, <1>17, <1>18, <1>19, <1>20, <1>21, <1>22, <1>23, <1>24, <1>25,
     <1>26, <1>27, <1>28, <1>29, <1>30, <1>31, <1>32
     DEF Next, UserStart, UserStep, WorkStep, Halted

\* The variables keep their types and the clocks are never disabled more often
\* than enabled, whatever the threads, the work thread and the TEE ioctls do.
THEOREM TypeCorrect == Spec => [](TypeOK /\ ClockBalance)
<1>1. TypeInv => TypeOK /\ ClockBalance
  BY DEF TypeInv
<1> QED
  BY <1>1, TypeInit, TypeStep, PTL DEF Spec

-----------------------------------------------------------------------------
(* Backpressure: the bound on task_list *)

\* Where each thread is between the check and the insertion counts as an entry.
Backpressure == Len(task_list) + Cardinality(Passed) <= TASK_LIST_MAX + Cardinality(Threads)

\* No thread passes the check and the list does not grow.
Quiet ==
    /\ \A s \in Threads : pc'[s] = "queue" => pc[s] = "queue"
    /\ task_list' \in Seq(Nodes) /\ Len(task_list') <= Len(task_list)

\* The threads past the backlog test are finitely many, at most all of them.
LEMMA PassedFinite ==
    ASSUME NEW S \in SUBSET Threads
    PROVE  /\ IsFiniteSet(S)
           /\ Cardinality(S) \in Nat
           /\ Cardinality(Threads) \in Nat
           /\ Cardinality(S) <= Cardinality(Threads)
<1>1. IsFiniteSet(Threads)
  BY QueueAssumption
<1>2. IsFiniteSet(S) /\ Cardinality(S) <= Cardinality(Threads)
  BY <1>1, FS_Subset
<1> QED
  BY <1>1, <1>2, FS_CardinalityType

\* A step that adds neither an entry nor a thread past the test keeps the bound.
LEMMA QuietKeeps ==
    ASSUME TypeOK, Backpressure, Quiet
    PROVE  Backpressure'
<1>1. Passed' \subseteq Passed
  BY DEF Quiet, Passed
<1>2. Passed \in SUBSET Threads /\ Passed' \in SUBSET Threads
  BY DEF Passed
<1>3. Cardinality(Passed') <= Cardinality(Passed)
  BY <1>1, <1>2, PassedFinite, FS_Subset
<1>4. Cardinality(Passed) \in Nat /\ Cardinality(Passed') \in Nat /\ Cardinality(Threads) \in Nat
  BY <1>2, PassedFinite
<1>5. Len(task_list) \in Nat /\ Len(task_list') \in Nat /\ Len(task_list') <= Len(task_list)
  BY LenProperties DEF TypeOK, MemoryType, Quiet
<1> HIDE DEF Passed
<1> QED
  BY <1>3, <1>4, <1>5, QueueAssumption DEF Backpressure

\* Every step but the two of cvi_tpu_submit* is quiet.
LEMMA QuietSteps ==
    ASSUME TypeOK
    PROVE  /\ \A t \in Threads : UserStart(t) \/ SubmitNoMem(t) \/ TeeLock(t) \/ TeeDone(t)
                                 \/ WaitCheck(t) \/ WaitGet(t) \/ WaitFinish(t) \/ WaitFault(t) => Quiet
           /\ WorkStep \/ RunBegin \/ Remove \/ RemoveDone \/ Probe \/ Halted => Quiet
<1> USE DEF TypeOK, ThreadType, MemoryType, Quiet, threadVars, nodeVars, listVars, workVars, histVars
<1>1. Len(task_list) \in Nat
  BY LenProperties
<1>2. ASSUME NEW t \in Threads, UserStart(t) PROVE Quiet
  BY <1>1, <1>2 DEF UserStart, Open, Close, ThreadExit, ThreadStart, SubmitStart, WaitStart,
     WaitInterrupted, TeeStart, Ioctl, Return
<1>3. ASSUME NEW t \in Threads, SubmitNoMem(t) \/ TeeLock(t) \/ TeeDone(t) PROVE Quiet
  BY <1>1, <1>3 DEF SubmitNoMem, TeeLock, TeeDone, Return
<1>4. ASSUME NEW t \in Threads, WaitCheck(t) \/ WaitFinish(t) \/ WaitFault(t) PROVE Quiet
  BY <1>1, <1>4 DEF WaitCheck, WaitFinish, WaitFault, Return
<1>5. ASSUME NEW t \in Threads, WaitGet(t) PROVE Quiet
  <2>1. CASE get_from_done_list(t) = NoNode
    <3>1. Return(t) /\ task_list' = task_list
      BY <1>5, <2>1, Zenon DEF WaitGet
    <3> QED
      BY <1>1, <3>1 DEF Return
  <2>2. CASE get_from_done_list(t) # NoNode
    BY <1>1, <1>5, <2>2 DEF WaitGet
  <2> QED
    BY <2>1, <2>2
<1>6. ASSUME WorkTake PROVE Quiet
  <2>1. task_list # <<>> /\ task_list' = Tail(task_list) /\ pc' = pc
    BY <1>6 DEF WorkTake
  <2>2. Tail(task_list) \in Seq(Nodes) /\ Len(Tail(task_list)) = Len(task_list) - 1
    BY <2>1, HeadTailProperties
  <2> QED
    BY <1>1, <2>1, <2>2
<1>7. ASSUME WorkExit PROVE Quiet
  BY <1>1, <1>7, EmptySeq DEF WorkExit
<1>8. ASSUME WorkWake PROVE Quiet
  BY <1>1, <1>8 DEF WorkWake, WakeAll
<1>9. ASSUME WorkStep PROVE Quiet
  <2>1. ASSUME WorkLoop \/ WorkWait \/ WorkIdle \/ RunEnd \/ RunOops \/ WorkPublish \/ WorkReap
        PROVE  pc' = pc /\ task_list' = task_list
    BY <2>1 DEF WorkLoop, WorkWait, WorkIdle, RunEnd, RunOops, WorkPublish, WorkReap
  <2> QED
    BY <1>1, <1>6, <1>7, <1>8, <1>9, <2>1 DEF WorkStep
<1>10. ASSUME RunBegin \/ Remove \/ RemoveDone \/ Probe \/ Halted PROVE Quiet
  BY <1>1, <1>10 DEF RunBegin, Remove, RemoveDone, Probe, Halted, vars
<1> QED
  BY <1>2, <1>3, <1>4, <1>5, <1>9, <1>10

\* cvi_tpu_submit* found at most TASK_LIST_MAX tasks, or stays where it is.
LEMMA CountKeeps ==
    ASSUME TypeOK, Backpressure, NEW t \in Threads, SubmitCount(t)
    PROVE  Backpressure'
<1> USE QueueAssumption DEF TypeOK, ThreadType, MemoryType, listVars
<1>1. Len(task_list) \in Nat /\ task_list' = task_list
  BY LenProperties DEF SubmitCount
<1>2. CASE TooMuchTask(CountTasks(cnt[t]))
  <2>1. pc' = pc
    BY <1>2, Zenon DEF SubmitCount
  <2> QED
    BY <1>1, <2>1, QuietKeeps DEF Quiet
<1>3. CASE ~TooMuchTask(CountTasks(cnt[t]))
  <2>1. Len(task_list) <= TASK_LIST_MAX
    BY <1>1, <1>3 DEF TooMuchTask, CountTasks
  <2>2. Passed' \in SUBSET Threads
    BY DEF Passed
  <2>3. Cardinality(Passed') \in Nat /\ Cardinality(Threads) \in Nat
        /\ Cardinality(Passed') <= Cardinality(Threads)
    BY <2>2, PassedFinite
  <2> HIDE DEF Passed
  <2> QED
    BY <1>1, <2>1, <2>3 DEF Backpressure
<1> QED
  BY <1>2, <1>3

\* The thread that adds an entry no longer counts as one that is about to.
LEMMA QueueKeeps ==
    ASSUME TypeOK, Backpressure, NEW t \in Threads, SubmitQueue(t)
    PROVE  Backpressure'
<1> USE DEF TypeOK, ThreadType, MemoryType
<1>1. t \in Passed
  BY DEF SubmitQueue, Passed
<1>2. Passed' = Passed \ {t}
  BY DEF SubmitQueue, Return, Passed
<1>3. Passed \in SUBSET Threads
  BY DEF Passed
<1>4. Cardinality(Passed') = Cardinality(Passed) - 1
  BY <1>1, <1>2, <1>3, PassedFinite, FS_RemoveElement
<1>5. Cardinality(Passed) \in Nat /\ Cardinality(Threads) \in Nat
  BY <1>3, PassedFinite
<1>6. next \in Nodes /\ task_list' = Append(task_list, next)
  BY QueueAssumption DEF SubmitQueue, list_add_tail, Nodes
<1>7. Len(task_list) \in Nat /\ Len(task_list') = Len(task_list) + 1
  BY <1>6, LenProperties, AppendProperties
<1> HIDE DEF Passed
<1> QED
  BY <1>4, <1>5, <1>7, QueueAssumption DEF Backpressure

\* However many threads are between the check of cvi_tpu_submit* and the
\* insertion, task_list exceeds TASK_LIST_MAX by at most one entry per thread.
THEOREM BacklogBounded == Spec => []TaskListBounded
<1>1. Init => Backpressure
  <2> SUFFICES ASSUME Init PROVE Backpressure
    OBVIOUS
  <2>1. Len(task_list) = 0
    BY EmptySeq DEF Init
  <2>2. Passed \in SUBSET Threads
    BY DEF Passed
  <2>3. Cardinality(Passed) \in Nat /\ Cardinality(Threads) \in Nat
        /\ Cardinality(Passed) <= Cardinality(Threads)
    BY <2>2, PassedFinite
  <2> HIDE DEF Passed
  <2> QED
    BY <2>1, <2>3, QueueAssumption DEF Backpressure
<1>2. ASSUME TypeInv, Backpressure, [Next]_vars PROVE Backpressure'
  <2> USE <1>2 DEF TypeInv
  <2>1. CASE UNCHANGED vars
    BY <2>1 DEF Backpressure, Passed, vars, threadVars, listVars
  <2>2. CASE Next
    BY <2>2, QuietSteps, QuietKeeps, CountKeeps, QueueKeeps DEF Next, UserStep
  <2> QED
    BY <2>1, <2>2
<1>3. TypeInv /\ Backpressure => TaskListBounded
  <2> SUFFICES ASSUME TypeInv, Backpressure PROVE TaskListBounded
    OBVIOUS
  <2>1. Passed \in SUBSET Threads
    BY DEF Passed
  <2>2. Cardinality(Passed) \in Nat /\ Cardinality(Threads) \in Nat
    BY <2>1, PassedFinite
  <2>3. Len(task_list) \in Nat
    BY LenProperties DEF TypeInv, TypeOK, MemoryType
  <2> HIDE DEF Passed
  <2> QED
    BY <2>2, <2>3, QueueAssumption DEF Backpressure, TaskListBounded
<1> QED
  BY <1>1, <1>2, <1>3, TypeInit, TypeStep, PTL DEF Spec

-----------------------------------------------------------------------------
(* The device mutex *)

\* Who is inside a critical section owns dev_lock; it is initialised anew only
\* when nobody can be inside, because a removal waits for the last close.
LockInv ==
    /\ \A t \in Threads : pc[t] = "tee" => dev_lock = t
    /\ wpc = "hw" => dev_lock = Worker
    /\ \A t \in Threads : pc[t] # "idle" => t \in fd
    /\ stop => fd = {}
    /\ wpc = "gone" => stop

\* Every step keeps the discipline of dev_lock and the work thread's life.
LEMMA LockStep == TypeInv /\ LockInv /\ [Next]_vars => LockInv'
<1> SUFFICES ASSUME TypeInv, LockInv, [Next]_vars PROVE LockInv'
  OBVIOUS
<1>1. /\ Worker \notin Threads /\ Nobody \notin Threads /\ Worker # Nobody
      /\ pc \in [Threads -> UserPcs]
      /\ fd \subseteq Threads
      /\ ~bound => wpc = "gone"
  BY QueueAssumption DEF Worker, Nobody, TypeInv, TypeOK, ThreadType, UnboundGone
<1> USE <1>1 DEF LockInv, threadVars, nodeVars, listVars, workVars, histVars
<1>2. ASSUME NEW t \in Threads, Open(t) \/ Close(t) \/ ThreadExit(t) \/ ThreadStart(t)
      PROVE  LockInv'
  BY <1>2 DEF Open, Close, ThreadExit, ThreadStart
<1>3. ASSUME NEW t \in Threads, SubmitStart(t) \/ WaitStart(t) \/ TeeStart(t) PROVE LockInv'
  BY <1>3 DEF SubmitStart, WaitStart, TeeStart, Ioctl
<1>4. ASSUME NEW t \in Threads, WaitInterrupted(t) \/ SubmitNoMem(t) \/ WaitFinish(t)
      PROVE  LockInv'
  BY <1>4 DEF WaitInterrupted, SubmitNoMem, WaitFinish, Return
<1>5. ASSUME NEW t \in Threads, SubmitCount(t) PROVE LockInv'
  BY <1>5 DEF SubmitCount
<1>6. ASSUME NEW t \in Threads, SubmitQueue(t) PROVE LockInv'
  BY <1>6 DEF SubmitQueue, Return, WakeWorker
<1>7. ASSUME NEW t \in Threads, WaitCheck(t) \/ WaitFault(t) PROVE LockInv'
  BY <1>7 DEF WaitCheck, WaitFault
<1>8. ASSUME NEW t \in Threads, WaitGet(t) PROVE LockInv'
  <2>1. pc' = [pc EXCEPT ![t] = "idle"] \/ pc' = [pc EXCEPT ![t] = "copy"]
    BY <1>8, Zenon DEF WaitGet, Return
  <2> QED
    BY <1>8, <2>1 DEF WaitGet
<1>9. ASSUME NEW t \in Threads, TeeLock(t) PROVE LockInv'
  BY <1>9 DEF TeeLock
<1>10. ASSUME NEW t \in Threads, TeeDone(t) PROVE LockInv'
  BY <1>10 DEF TeeDone, Return, LockAfterFault
<1>11. ASSUME WorkLoop \/ WorkWait \/ WorkIdle \/ WorkTake \/ RunOops \/ WorkPublish \/ WorkReap \/ WorkExit
       PROVE  LockInv'
  BY <1>11 DEF WorkLoop, WorkWait, WorkIdle, WorkTake, RunOops, WorkPublish, WorkReap, WorkExit
<1>12. ASSUME RunBegin \/ RunEnd PROVE LockInv'
  BY <1>12 DEF RunBegin, RunEnd
<1>13. ASSUME WorkWake PROVE LockInv'
  BY <1>13 DEF WorkWake, WakeAll
<1>14. ASSUME Remove PROVE LockInv'
  BY <1>14 DEF Remove, WakeWorker
<1>15. ASSUME RemoveDone PROVE LockInv'
  BY <1>15 DEF RemoveDone
<1>16. ASSUME Probe PROVE LockInv'
  BY <1>16 DEF Probe
<1>17. CASE UNCHANGED vars
  BY <1>17 DEF vars
<1> QED
  BY <1>2, <1>3, <1>4, <1>5, <1>6, <1>7, <1>8, <1>9, <1>10, <1>11, <1>12, <1>13, <1>14,
     <1>15, <1>16, <1>17
     DEF Next, UserStart, UserStep, WorkStep, Halted

\* The hardware runs a job only under dev_lock, and never while a TEE ioctl is
\* between its lock and unlock, even across removal and re-probe of the driver.
THEOREM RunsExclusively == Spec => []HardwareExclusive
<1>1. Init => LockInv
  BY DEF Init, LockInv
<1>2. TypeInv /\ LockInv => HardwareExclusive
  BY QueueAssumption DEF LockInv, HardwareExclusive, Worker
<1> QED
  BY <1>1, <1>2, LockStep, TypeInit, TypeStep, PTL DEF Spec

-----------------------------------------------------------------------------
(* Ownership of the nodes *)

Allocated == heap \subseteq 1..(next - 1)

\* What a thread knows about the node it uses without a lock.
Held ==
    \A t \in Threads : pc[t] = "copy" =>
        /\ hold[t] \in 1..(next - 1)
        /\ hold[t] \in heap => hold[t] \in done_list /\ node[hold[t]].pid = t
        /\ t \in Leaders => hold[t] \in done_list

OpenAlive == fd \subseteq alive

OwnInv == NodeOwnership /\ Allocated /\ Held /\ OpenAlive

\* list_add_tail puts one node behind those already queued.
LEMMA QueuedAppend ==
    ASSUME TypeOK, NEW n \in Nodes, task_list' = Append(task_list, n)
    PROVE  /\ Queued' = Queued \cup {n}
           /\ Len(task_list') = Len(task_list) + 1
           /\ \A i \in 1..Len(task_list) : task_list'[i] = task_list[i]
           /\ task_list'[Len(task_list) + 1] = n
<1>1. task_list \in Seq(Nodes) /\ Len(task_list) \in Nat
  BY LenProperties DEF TypeOK, MemoryType
<1>2. /\ Len(task_list') = Len(task_list) + 1
      /\ \A i \in 1..Len(task_list) : task_list'[i] = task_list[i]
      /\ task_list'[Len(task_list) + 1] = n
  BY <1>1, AppendProperties
<1>3. \A i \in 1..Len(task_list') : i \in 1..Len(task_list) \/ i = Len(task_list) + 1
  BY <1>1, <1>2
<1>4. 1..Len(task_list) \subseteq 1..Len(task_list') /\ Len(task_list) + 1 \in 1..Len(task_list')
  BY <1>1, <1>2
<1>5. Queued' = Queued \cup {n}
  BY <1>2, <1>3, <1>4 DEF Queued
<1> QED
  BY <1>2, <1>5

\* list_del_init of the first entry leaves the others, one place further ahead.
LEMMA QueuedTail ==
    ASSUME TypeOK, task_list # <<>>, task_list' = Tail(task_list)
    PROVE  /\ Queued = {Head(task_list)} \cup Queued'
           /\ Head(task_list) = task_list[1]
           /\ Len(task_list') = Len(task_list) - 1
           /\ Len(task_list) \in Nat
           /\ \A i \in 1..Len(task_list') : i + 1 \in 1..Len(task_list) /\ task_list'[i] = task_list[i + 1]
<1>1. /\ task_list \in Seq(Nodes) /\ Len(task_list) \in Nat /\ Len(task_list) > 0
  BY LenProperties, EmptySeq DEF TypeOK, MemoryType
<1>2. /\ Head(task_list) = task_list[1]
      /\ Len(task_list') = Len(task_list) - 1
      /\ \A i \in 1..Len(task_list') : i + 1 \in 1..Len(task_list) /\ task_list'[i] = task_list[i + 1]
  BY <1>1
<1>3. /\ 1 \in 1..Len(task_list)
      /\ \A i \in 1..Len(task_list) :
           i = 1 \/ (i - 1 \in 1..Len(task_list') /\ task_list[i] = task_list'[i - 1])
  BY <1>1, <1>2
<1>4. Queued = {Head(task_list)} \cup Queued'
  BY <1>2, <1>3 DEF Queued
<1> QED
  BY <1>1, <1>2, <1>4

\* A step that touches neither lists nor memory nor what the work thread runs.
LEMMA OwnFrame ==
    ASSUME NodeOwnership, Allocated, UNCHANGED <<heap, next, task_list, done_list>>, Running' = Running
    PROVE  NodeOwnership' /\ Allocated'
  BY DEF NodeOwnership, Allocated, Queued

\* A step in which nobody starts to use a node and no node changes.
LEMMA HeldFrame ==
    ASSUME Held, UNCHANGED <<heap, next, done_list, node, hold>>,
           \A s \in Threads : pc'[s] = "copy" => pc[s] = "copy"
    PROVE  Held'
  BY DEF Held

\* The submitted node is fresh, so that nobody else owns it.
LEMMA SubmitOwn ==
    ASSUME TypeInv, OwnInv, NEW t \in Threads, SubmitQueue(t)
    PROVE  OwnInv'
<1> USE DEF TypeInv, TypeOK, ThreadType, MemoryType
<1>1. next \in Nodes /\ next \notin heap /\ next \in Nat
  BY QueueAssumption DEF SubmitQueue, OwnInv, Allocated, Nodes
<1>2. task_list' = Append(task_list, next) /\ heap' = heap \cup {next} /\ done_list' = done_list
      /\ next' = next + 1
  BY DEF SubmitQueue, list_add_tail
<1>3. Running' = Running
  BY DEF SubmitQueue, Running, WakeWorker
<1>4. Len(task_list) \in Nat
  BY LenProperties
<1>5. next \notin Queued
  BY <1>1 DEF OwnInv, NodeOwnership
<1>6. \A i \in 1..Len(task_list) : task_list[i] # next
  BY <1>5 DEF Queued
<1>7. \A i, j \in 1..Len(task_list') : task_list'[i] = task_list'[j] => i = j
  BY <1>1, <1>2, <1>4, <1>6, QueuedAppend DEF OwnInv, NodeOwnership
<1>8. Queued' = Queued \cup {next}
  BY <1>1, <1>2, QueuedAppend
<1>9. NodeOwnership'
  BY <1>1, <1>2, <1>3, <1>7, <1>8 DEF OwnInv, NodeOwnership
<1>10. Allocated'
  BY <1>1, <1>2 DEF OwnInv, Allocated
<1>11. Held'
  <2>1. \A s \in Threads : pc'[s] = "copy" => pc[s] = "copy" /\ hold'[s] = hold[s]
    BY DEF SubmitQueue, Return
  <2>2. \A n \in 1..(next - 1) : n # next /\ n \in 1..(next' - 1) /\ node'[n] = node[n]
    BY <1>1, <1>2, QueueAssumption DEF SubmitQueue, Nodes
  <2> QED
    BY <1>2, <2>1, <2>2 DEF OwnInv, Held
<1>12. OpenAlive'
  BY DEF SubmitQueue, OwnInv, OpenAlive
<1> QED
  BY <1>9, <1>10, <1>11, <1>12 DEF OwnInv

\* cvi_tpu_wait* frees only the node its own thread looked up.
LEMMA WaitFinishOwn ==
    ASSUME TypeInv, OwnInv, NEW t \in Threads, WaitFinish(t)
    PROVE  OwnInv'
<1> USE DEF TypeInv, TypeOK, ThreadType, MemoryType
<1>1. hold[t] \in heap /\ hold[t] \in done_list /\ node[hold[t]].pid = t
  BY DEF WaitFinish, OwnInv, Held
<1>2. heap' = heap \ {hold[t]} /\ done_list' = done_list \ {hold[t]} /\ next' = next
  BY DEF WaitFinish, Free
<1>3. Queued' = Queued /\ task_list' = task_list /\ Running' = Running
  BY DEF WaitFinish, Queued, Running, workVars
<1>4. NodeOwnership' /\ Allocated'
  BY <1>1, <1>2, <1>3 DEF OwnInv, NodeOwnership, Allocated
<1>5. Held'
  <2>1. ASSUME NEW s \in Threads, pc'[s] = "copy" PROVE s # t /\ pc[s] = "copy" /\ hold'[s] = hold[s]
    BY <2>1 DEF WaitFinish, Return
  <2>2. ASSUME NEW s \in Threads, pc'[s] = "copy" PROVE hold[s] # hold[t]
    BY <1>1, <2>1, <2>2 DEF OwnInv, Held
  <2>3. \A n \in heap : n # hold[t] => node'[n] = node[n]
    BY DEF WaitFinish, Free
  <2> QED
    BY <1>2, <2>1, <2>2, <2>3 DEF OwnInv, Held
<1>6. OpenAlive'
  BY DEF WaitFinish, OwnInv, OpenAlive
<1> QED
  BY <1>4, <1>5, <1>6 DEF OwnInv

\* cvi_tpu_wait* looks up a node of its own thread, that no other thread can hold.
LEMMA WaitGetOwn ==
    ASSUME TypeInv, OwnInv, NEW t \in Threads, WaitGet(t)
    PROVE  OwnInv'
<1> USE DEF TypeInv, TypeOK, ThreadType, MemoryType
<1>1. UNCHANGED <<heap, next, task_list, done_list, node, wpc, wnode, fd, alive>>
  BY DEF WaitGet, nodeVars, listVars, workVars
<1>2. NodeOwnership' /\ Allocated'
  BY <1>1, OwnFrame DEF OwnInv, Running
<1>3. OpenAlive'
  BY <1>1 DEF OwnInv, OpenAlive
<1>4. CASE get_from_done_list(t) = NoNode
  <2>1. pc' = [pc EXCEPT ![t] = "idle"] /\ hold' = [hold EXCEPT ![t] = NoNode]
    BY <1>4, Zenon DEF WaitGet, Return
  <2>2. Held'
    BY <1>1, <2>1 DEF OwnInv, Held
  <2> QED
    BY <1>2, <1>3, <2>2 DEF OwnInv
<1>5. CASE get_from_done_list(t) # NoNode
  <2> DEFINE n == get_from_done_list(t)
  <2>1. n \in done_list /\ node[n].pid = t
    BY <1>5, LookupType DEF Matches, Match
  <2>2. n \in 1..(next - 1)
    BY <2>1 DEF OwnInv, NodeOwnership, Allocated
  <2>3. pc' = [pc EXCEPT ![t] = "copy"] /\ hold' = [hold EXCEPT ![t] = n]
    BY <1>5, Zenon DEF WaitGet
  <2> HIDE DEF n
  <2>4. Held'
    BY <1>1, <2>1, <2>2, <2>3 DEF OwnInv, Held
  <2> QED
    BY <1>2, <1>3, <2>4 DEF OwnInv
<1> QED
  BY <1>4, <1>5

\* The work thread moves one node from task_list to itself.
LEMMA TakeOwn ==
    ASSUME TypeInv, OwnInv, WorkTake
    PROVE  OwnInv'
<1> USE DEF TypeInv, TypeOK, ThreadType, MemoryType
<1>1. /\ task_list # <<>> /\ task_list' = Tail(task_list)
      /\ UNCHANGED <<heap, next, done_list, node, hold, pc, fd, alive>>
  BY DEF WorkTake, threadVars, nodeVars
<1>2. Running = {} /\ Running' = {Head(task_list)}
  BY DEF WorkTake, Running
<1>3. \A i, j \in 1..Len(task_list) : task_list[i] = task_list[j] => i = j
  BY DEF OwnInv, NodeOwnership
<1>4. Queued = {Head(task_list)} \cup Queued'
  BY <1>1, QueuedTail
<1>5. \A i \in 1..Len(task_list') : task_list'[i] # Head(task_list)
  BY <1>1, <1>3, QueuedTail
<1>6. Head(task_list) \notin Queued'
  BY <1>5 DEF Queued
<1>7. \A i, j \in 1..Len(task_list') : task_list'[i] = task_list'[j] => i = j
  BY <1>1, <1>3, QueuedTail
<1>8. NodeOwnership'
  BY <1>1, <1>2, <1>4, <1>6, <1>7 DEF OwnInv, NodeOwnership
<1>9. Held' /\ Allocated' /\ OpenAlive'
  BY <1>1, HeldFrame DEF OwnInv, Allocated, OpenAlive
<1> QED
  BY <1>8, <1>9 DEF OwnInv

\* RunEnd writes to the node at hand, which nobody else looks at.
LEMMA RunOwn ==
    ASSUME TypeInv, OwnInv, RunEnd
    PROVE  OwnInv'
<1> USE DEF TypeInv, TypeOK, ThreadType, MemoryType
<1>1. UNCHANGED <<heap, next, task_list, done_list, hold, pc, fd, alive>> /\ Running = {wnode} /\ Running' = Running
  BY DEF RunEnd, threadVars, listVars, Running
<1>2. wnode \notin done_list
  BY <1>1 DEF OwnInv, NodeOwnership
<1>3. \A n \in done_list : node'[n] = node[n]
  BY <1>2 DEF RunEnd
<1>4. NodeOwnership' /\ Allocated'
  BY <1>1, OwnFrame DEF OwnInv
<1>5. Held' /\ OpenAlive'
  BY <1>1, <1>3 DEF OwnInv, Held, OpenAlive
<1> QED
  BY <1>4, <1>5 DEF OwnInv

\* The work thread hands the node it ran to done_list.
LEMMA PublishOwn ==
    ASSUME TypeInv, OwnInv, WorkPublish
    PROVE  OwnInv'
<1> USE DEF TypeInv, TypeOK, ThreadType, MemoryType
<1>1. UNCHANGED <<heap, next, task_list, hold, pc, fd, alive>> /\ Running = {wnode} /\ Running' = {}
      /\ done_list' = done_list \cup {wnode}
  BY DEF WorkPublish, threadVars, Running
<1>2. wnode \notin done_list /\ Queued' = Queued
  BY <1>1 DEF OwnInv, NodeOwnership, Queued
<1>3. \A n \in done_list : node'[n] = node[n]
  BY <1>2 DEF WorkPublish
<1>4. NodeOwnership' /\ Allocated'
  BY <1>1, <1>2 DEF OwnInv, NodeOwnership, Allocated
<1>5. Held' /\ OpenAlive'
  BY <1>1, <1>3 DEF OwnInv, Held, OpenAlive
<1> QED
  BY <1>4, <1>5 DEF OwnInv

\* cvi_tpu_cleanup_done_list spares the nodes of live thread-group leaders.
LEMMA ReapOwn ==
    ASSUME TypeInv, LockInv, OwnInv, WorkReap
    PROVE  OwnInv'
<1> USE DEF TypeInv, TypeOK, ThreadType, MemoryType
<1>1. /\ UNCHANGED <<next, task_list, hold, pc, fd, alive>> /\ Running = {} /\ Running' = {}
      /\ done_list' = done_list \ Reaped /\ heap' = heap \ Reaped
      /\ \A n \in heap \ Reaped : node'[n] = node[n]
  BY DEF WorkReap, threadVars, Running, Free
<1>2. Reaped \subseteq done_list /\ \A n \in Reaped : node[n].pid \notin alive \cap Leaders
  BY DEF Reaped, ProcessAlive
<1>3. Queued' = Queued
  BY <1>1 DEF Queued
<1> HIDE DEF Reaped
<1>4. NodeOwnership' /\ Allocated'
  BY <1>1, <1>2, <1>3 DEF OwnInv, NodeOwnership, Allocated
<1>5. ASSUME NEW t \in Threads, pc[t] = "copy", t \in Leaders
      PROVE  hold[t] \in heap /\ hold[t] \in done_list \ Reaped
  <2>1. t \in alive
    BY <1>5 DEF LockInv, OwnInv, OpenAlive
  <2>2. hold[t] \in done_list /\ hold[t] \in heap
    BY <1>5 DEF OwnInv, Held, NodeOwnership
  <2>3. node[hold[t]].pid = t
    BY <1>5, <2>2 DEF OwnInv, Held
  <2> QED
    BY <1>2, <1>5, <2>1, <2>2, <2>3
<1>6. Held'
  BY <1>1, <1>2, <1>5 DEF OwnInv, Held
<1>7. OpenAlive'
  BY <1>1 DEF OwnInv, OpenAlive
<1> QED
  BY <1>4, <1>6, <1>7 DEF OwnInv

\* The work thread frees both lists only once no file is open.
LEMMA ExitOwn ==
    ASSUME TypeInv, LockInv, OwnInv, WorkExit
    PROVE  OwnInv'
<1> USE DEF TypeInv, TypeOK, ThreadType, MemoryType
<1>1. /\ UNCHANGED <<next, hold, pc, fd, alive>> /\ Running = {} /\ Running' = {} /\ stop
      /\ done_list' = {} /\ task_list' = <<>> /\ heap' = heap \ (Queued \cup done_list)
  BY DEF WorkExit, threadVars, Running, Free
<1>2. Len(task_list') = 0 /\ Queued' = {}
  BY <1>1, EmptySeq DEF Queued
<1>3. NodeOwnership' /\ Allocated'
  BY <1>1, <1>2 DEF OwnInv, NodeOwnership, Allocated
<1>4. Held' /\ OpenAlive'
  BY <1>1 DEF OwnInv, LockInv, Held, OpenAlive
<1> QED
  BY <1>3, <1>4 DEF OwnInv

\* Every step preserves who owns which node.
LEMMA OwnStep == TypeInv /\ LockInv /\ OwnInv /\ [Next]_vars => OwnInv'
<1> SUFFICES ASSUME TypeInv, LockInv, OwnInv, [Next]_vars PROVE OwnInv'
  OBVIOUS
<1>1. pc \in [Threads -> UserPcs] /\ fd \subseteq alive /\ (~bound => wpc = "gone")
  BY DEF TypeInv, TypeOK, ThreadType, UnboundGone, OwnInv, OpenAlive
<1> DEFINE Keeps == /\ UNCHANGED <<heap, next, task_list, done_list, node, hold>>
                    /\ Running' = Running
                    /\ fd' \subseteq alive'
                    /\ \A s \in Threads : pc'[s] = "copy" => pc[s] = "copy"
<1>2. ASSUME Keeps PROVE OwnInv'
  BY <1>2, OwnFrame, HeldFrame DEF OwnInv, OpenAlive
<1> USE <1>1 DEF threadVars, nodeVars, listVars, workVars, histVars, Running
<1>3. ASSUME NEW t \in Threads, UserStart(t) PROVE Keeps
  BY <1>3 DEF UserStart, Open, Close, ThreadExit, ThreadStart, SubmitStart, WaitStart,
     WaitInterrupted, TeeStart, Ioctl, Return
<1>4. ASSUME NEW t \in Threads, SubmitCount(t) \/ SubmitNoMem(t) \/ WaitCheck(t) \/ WaitFault(t)
      PROVE  Keeps
  BY <1>4 DEF SubmitCount, SubmitNoMem, WaitCheck, WaitFault, Return
<1>5. ASSUME NEW t \in Threads, TeeLock(t) \/ TeeDone(t) PROVE Keeps
  BY <1>5 DEF TeeLock, TeeDone, Return
<1>6. ASSUME WorkLoop \/ WorkWait \/ WorkIdle \/ RunBegin \/ RunOops \/ WorkWake PROVE Keeps
  BY <1>6 DEF WorkLoop, WorkWait, WorkIdle, RunBegin, RunOops, WorkWake, WakeAll
<1>7. ASSUME Remove \/ RemoveDone \/ Probe PROVE Keeps
  BY <1>7 DEF Remove, RemoveDone, Probe, WakeWorker
<1>8. CASE UNCHANGED vars
  <2>1. Keeps
    BY <1>8 DEF vars
  <2> QED
    BY <1>2, <2>1
<1> HIDE DEF Keeps
<1> QED
  BY <1>2, <1>3, <1>4, <1>5, <1>6, <1>7, <1>8, SubmitOwn, WaitFinishOwn, WaitGetOwn, TakeOwn,
     RunOwn, PublishOwn, ReapOwn, ExitOwn
     DEF Next, UserStep, WorkStep, Halted

\* No node is freed while it is on a list or run, and none leaks; and a thread
\* group leader that has looked up its finished job can use it without the
\* lock, whatever other waiters, cvi_tpu_cleanup_done_list and the removal of
\* the driver do meanwhile.
THEOREM NodesOwned == Spec => [](NodeOwnership /\ LeaderKeepsNode)
<1>1. Init => LockInv
  BY DEF Init, LockInv
<1>2. Init => OwnInv
  <2> SUFFICES ASSUME Init PROVE OwnInv
    OBVIOUS
  <2>1. Len(task_list) = 0 /\ Queued = {}
    BY EmptySeq DEF Init, Queued
  <2>2. NodeOwnership
    BY <2>1 DEF Init, NodeOwnership, Running
  <2> QED
    BY <2>2 DEF Init, OwnInv, Allocated, Held, OpenAlive
<1>3. TypeInv /\ OwnInv => NodeOwnership /\ LeaderKeepsNode
  BY QueueAssumption DEF OwnInv, Held, LeaderKeepsNode
<1> QED
  BY <1>1, <1>2, <1>3, OwnStep, LockStep, TypeInit, TypeStep, PTL DEF Spec

-----------------------------------------------------------------------------
(* What is in the nodes: order, buffers, results *)

\* Only jobs user space gave a dma-buf to hold a reference on one.
BufferKind == \A n \in bufs \cap heap : node[n].tpu_path = DESNORMAL

\* Nodes dropped with the driver were allocated once.
DroppedOld == dropped \subseteq 1..(next - 1)

\* A node has the sequence number of its own kind only.
NumberKind ==
    \A n \in heap : IF node[n].tpu_path = PIOTDMA THEN node[n].seq_no = 0
                                                  ELSE node[n].pio_seq_no = 0

\* Nodes whose run is over.
Answers == done_list \cup (IF wpc = "publish" THEN {wnode} ELSE {})

\* What such a node says is what the hardware returned for it.
ResultKept == \A n \in Answers : node[n].ret = job[n].outcome

\* What a thread uses without the lock is still what it asked for.
HeldMatches ==
    \A t \in Threads : pc[t] = "copy" /\ hold[t] \in heap => Match(hold[t], t, arg[t].path, arg[t].seq)

DataInv == FifoOrder /\ BufferBalance /\ BufferKind /\ DroppedOld /\ NumberKind
           /\ ResultKept /\ HeldMatches

\* A step that changes neither nodes, lists nor what the work thread runs.
LEMMA DataFrame ==
    ASSUME DataInv, UNCHANGED <<heap, next, task_list, done_list, node, bufs, job, taken, queued,
                                dropped, hold>>,
           Running' = Running, Answers' = Answers,
           \A s \in Threads : pc'[s] = "copy" => pc[s] = "copy" /\ arg'[s] = arg[s]
    PROVE  DataInv'
  BY DEF DataInv, FifoOrder, BufferBalance, BufferKind, DroppedOld, NumberKind, ResultKept,
         HeldMatches, Match, Queued

\* A submitted node gets the next ticket and a buffer of its own.
LEMMA SubmitData ==
    ASSUME TypeInv, OwnInv, DataInv, NEW t \in Threads, SubmitQueue(t)
    PROVE  DataInv'
<1> USE DEF TypeInv, TypeOK, ThreadType, MemoryType
<1>1. next \in Nodes /\ next \notin heap /\ next \in Nat /\ next \notin dropped
  BY QueueAssumption DEF SubmitQueue, OwnInv, Allocated, Nodes, DataInv, DroppedOld
<1>2. PICK path \in SubmitPaths, seq \in SeqNos :
        /\ node' = [node EXCEPT ![next] = NewNode(t, path, seq)]
        /\ bufs' \in PrepareBuffer(next, path)
  BY DEF SubmitQueue
<1>3. /\ heap' = heap \cup {next} /\ next' = next + 1 /\ task_list' = Append(task_list, next)
      /\ queued' = queued + 1 /\ taken' = taken /\ done_list' = done_list /\ dropped' = dropped
      /\ job' = [job EXCEPT ![next] = Ticketed(@, queued + 1)]
      /\ hold' = hold /\ Running' = Running /\ Answers' = Answers
  BY DEF SubmitQueue, list_add_tail, Running, Answers, WakeWorker
<1>4. heap = Queued \cup Running \cup done_list
  BY DEF OwnInv, NodeOwnership
<1>5. Queued' = Queued \cup {next}
  BY <1>1, <1>3, QueuedAppend
<1>6. FifoOrder'
  <2>1. Len(task_list) \in Nat /\ taken \in Nat /\ queued \in Nat
    BY LenProperties DEF HistType
  <2>2. \A n \in heap : job'[n] = job[n]
    BY <1>1, <1>3 DEF HistType
  <2>3. job'[next].ticket = queued + 1
    BY <1>1, <1>3 DEF HistType, Ticketed, JobType
  <2>4. \A i \in 1..Len(task_list) : task_list[i] \in heap
    BY <1>4 DEF Queued
  <2>5. /\ Len(task_list') = Len(task_list) + 1
        /\ \A i \in 1..Len(task_list) : task_list'[i] = task_list[i]
        /\ task_list'[Len(task_list) + 1] = next
    BY <1>1, <1>3, QueuedAppend
  <2>6. queued = taken + Len(task_list)
    BY DEF DataInv, FifoOrder
  <2>7. ASSUME NEW i \in 1..Len(task_list') PROVE job'[task_list'[i]].ticket = taken' + i
    <3>1. CASE i \in 1..Len(task_list)
      BY <1>3, <2>2, <2>4, <2>5, <3>1 DEF DataInv, FifoOrder
    <3>2. CASE i = Len(task_list) + 1
      BY <1>3, <2>1, <2>3, <2>5, <2>6, <3>2
    <3>3. i \in 1..Len(task_list) \/ i = Len(task_list) + 1
      BY <2>1, <2>5
    <3> QED
      BY <3>1, <3>2, <3>3
  <2>8. \A n \in Running : job'[n].ticket = taken
    BY <1>4, <2>2 DEF DataInv, FifoOrder
  <2> QED
    BY <1>3, <2>1, <2>5, <2>6, <2>7, <2>8 DEF FifoOrder
<1>7. \A n \in heap : node'[n] = node[n]
  BY <1>1, <1>2
<1>8. /\ node'[next].tpu_path = path
      /\ IF path = PIOTDMA THEN node'[next].seq_no = 0 ELSE node'[next].pio_seq_no = 0
  BY <1>1, <1>2, QueueAssumption DEF NewNode, DmabufNode, TeeNode, PioNode, ZeroNode
<1>9. next \notin bufs
  BY <1>1, <1>4 DEF DataInv, BufferBalance
<1>10. /\ bufs \subseteq bufs' /\ bufs' \subseteq bufs \cup {next}
       /\ next \in bufs' => path = DESNORMAL
       /\ ~BadBuffers /\ path = DESNORMAL => next \in bufs'
  BY <1>2, <1>9 DEF PrepareBuffer
<1>11. BufferBalance' /\ BufferKind'
  BY <1>3, <1>4, <1>5, <1>7, <1>8, <1>10 DEF DataInv, BufferBalance, BufferKind
<1>12. DroppedOld'
  BY <1>1, <1>3 DEF DataInv, DroppedOld
<1>13. NumberKind'
  BY <1>3, <1>7, <1>8 DEF DataInv, NumberKind
<1>14. Answers \subseteq heap
  BY <1>4 DEF Answers, Running
<1>15. ResultKept'
  BY <1>1, <1>3, <1>7, <1>14 DEF DataInv, ResultKept, HistType
<1>16. HeldMatches'
  <2>1. \A s \in Threads : pc'[s] = "copy" => s # t /\ pc[s] = "copy" /\ arg'[s] = arg[s]
    BY DEF SubmitQueue, Return
  <2>2. \A s \in Threads : pc[s] = "copy" => hold[s] # next
    BY <1>1 DEF OwnInv, Held
  <2> QED
    BY <1>3, <1>7, <2>1, <2>2 DEF DataInv, HeldMatches, Match
<1> QED
  BY <1>6, <1>11, <1>12, <1>13, <1>15, <1>16 DEF DataInv

\* Freeing finished nodes touches no other.
LEMMA FreeData ==
    ASSUME TypeInv, OwnInv, DataInv, NEW F, F \subseteq done_list, Free(F),
           done_list' = done_list \ F, Running' = Running, Answers' = Answers \ F,
           UNCHANGED <<next, task_list, bufs, taken, queued, dropped>>,
           \A s \in Threads : pc'[s] = "copy" => pc[s] = "copy" /\ arg'[s] = arg[s] /\ hold'[s] = hold[s]
    PROVE  DataInv'
<1> USE DEF TypeInv, TypeOK, MemoryType
<1>1. heap' = heap \ F /\ \A n \in Nodes \ F : node'[n] = node[n] /\ job'[n] = job[n]
  BY DEF Free
<1>2. /\ heap = Queued \cup Running \cup done_list
      /\ (Queued \cup Running) \cap F = {}
      /\ Queued' = Queued
      /\ \A i \in 1..Len(task_list) : task_list[i] \in Queued
  BY DEF OwnInv, NodeOwnership, Queued
<1>3. \A n \in heap' : node'[n] = node[n] /\ job'[n] = job[n]
  BY <1>1
<1>4. Answers' \subseteq heap'
  BY <1>1, <1>2 DEF Answers, Running
<1>5. FifoOrder'
  BY <1>1, <1>2, <1>3 DEF DataInv, FifoOrder
<1>6. (BufferBalance /\ BufferKind /\ DroppedOld /\ NumberKind)'
  BY <1>1, <1>2, <1>3 DEF DataInv, BufferBalance, BufferKind, DroppedOld, NumberKind
<1>7. ResultKept'
  BY <1>3, <1>4 DEF DataInv, ResultKept
<1>8. HeldMatches'
  BY <1>1, <1>3 DEF DataInv, HeldMatches, Match
<1> QED
  BY <1>5, <1>6, <1>7, <1>8 DEF DataInv

\* The node a wait looks up is the one it asked for.
LEMMA WaitGetData ==
    ASSUME TypeInv, OwnInv, DataInv, NEW t \in Threads, WaitGet(t)
    PROVE  DataInv'
<1> USE DEF TypeInv, TypeOK, ThreadType
<1>1. UNCHANGED <<heap, next, task_list, done_list, node, bufs, job, taken, queued, dropped, wpc, wnode>>
  BY DEF WaitGet, nodeVars, listVars, workVars, histVars
<1>2. (FifoOrder /\ BufferBalance /\ BufferKind /\ DroppedOld /\ NumberKind /\ ResultKept)'
  BY <1>1 DEF DataInv, FifoOrder, BufferBalance, BufferKind, DroppedOld, NumberKind, ResultKept,
              Queued, Running, Answers
<1>3. CASE get_from_done_list(t) = NoNode
  <2>1. pc' = [pc EXCEPT ![t] = "idle"] /\ arg' = [arg EXCEPT ![t] = NoArg]
        /\ hold' = [hold EXCEPT ![t] = NoNode]
    BY <1>3, Zenon DEF WaitGet, Return
  <2>2. HeldMatches'
    BY <1>1, <2>1 DEF DataInv, HeldMatches, Match
  <2> QED
    BY <1>2, <2>2 DEF DataInv
<1>4. CASE get_from_done_list(t) # NoNode
  <2> DEFINE n == get_from_done_list(t)
  <2>1. Match(n, t, arg[t].path, arg[t].seq)
    BY <1>4, LookupType DEF Matches
  <2>2. pc' = [pc EXCEPT ![t] = "copy"] /\ hold' = [hold EXCEPT ![t] = n] /\ arg' = arg
    BY <1>4, Zenon DEF WaitGet
  <2> HIDE DEF n
  <2>3. HeldMatches'
    BY <1>1, <2>1, <2>2 DEF DataInv, HeldMatches, Match
  <2> QED
    BY <1>2, <2>3 DEF DataInv
<1> QED
  BY <1>3, <1>4

\* The work thread takes the job with the next ticket.
LEMMA TakeData ==
    ASSUME TypeInv, OwnInv, DataInv, WorkTake
    PROVE  DataInv'
<1> USE DEF TypeInv, TypeOK, ThreadType, MemoryType, HistType
<1>1. /\ task_list # <<>> /\ task_list' = Tail(task_list) /\ taken' = taken + 1
      /\ UNCHANGED <<heap, next, done_list, node, bufs, job, queued, dropped, hold, pc, arg>>
  BY DEF WorkTake, threadVars, nodeVars, histVars
<1>2. Running = {} /\ Running' = {Head(task_list)} /\ Answers' = Answers
  BY <1>1 DEF WorkTake, Running, Answers
<1>3. /\ Queued = {Head(task_list)} \cup Queued'
      /\ Head(task_list) = task_list[1]
      /\ Len(task_list') = Len(task_list) - 1
      /\ Len(task_list) \in Nat
      /\ \A i \in 1..Len(task_list') : i + 1 \in 1..Len(task_list) /\ task_list'[i] = task_list[i + 1]
  BY <1>1, QueuedTail
<1>4. 1 \in 1..Len(task_list)
  BY <1>1, <1>3, EmptySeq
<1>5. FifoOrder'
  <2>1. queued = taken + Len(task_list) /\ \A i \in 1..Len(task_list) : job[task_list[i]].ticket = taken + i
    BY DEF DataInv, FifoOrder
  <2>2. queued' = taken' + Len(task_list')
    BY <1>1, <1>3, <2>1
  <2>3. ASSUME NEW i \in 1..Len(task_list') PROVE job'[task_list'[i]].ticket = taken' + i
    <3>1. job[task_list[i + 1]].ticket = taken + (i + 1)
      BY <1>3, <2>1
    <3> QED
      BY <1>1, <1>3, <3>1
  <2>4. \A n \in Running' : job'[n].ticket = taken'
    BY <1>1, <1>2, <1>3, <1>4, <2>1
  <2> QED
    BY <2>2, <2>3, <2>4 DEF FifoOrder
<1>6. (BufferBalance /\ BufferKind /\ DroppedOld /\ NumberKind /\ ResultKept /\ HeldMatches)'
  BY <1>1, <1>2, <1>3 DEF DataInv, BufferBalance, BufferKind, DroppedOld, NumberKind, ResultKept,
                          HeldMatches, Match
<1> QED
  BY <1>5, <1>6 DEF DataInv

\* RunEnd answers the node at hand and leaves its ticket, kind and number alone.
LEMMA RunData ==
    ASSUME TypeInv, OwnInv, DataInv, RunEnd
    PROVE  DataInv'
<1> USE DEF TypeInv, TypeOK, ThreadType, MemoryType, HistType
<1>1. PICK ret \in HalResults(node[wnode].tpu_path) :
        /\ job' = [job EXCEPT ![wnode] = Finished(@, ret)]
        /\ node' = [node EXCEPT ![wnode] = Answered(@, ret)]
  BY DEF RunEnd
<1>2. /\ UNCHANGED <<heap, next, task_list, done_list, bufs, taken, queued, dropped, hold, pc, arg>>
      /\ Running = {wnode} /\ Running' = {wnode} /\ Answers = done_list /\ Answers' = done_list \cup {wnode}
      /\ wnode \in Nodes
  BY DEF RunEnd, threadVars, listVars, Running, Answers, RunningNode
<1>3. wnode \notin Queued /\ wnode \notin done_list /\ heap = Queued \cup {wnode} \cup done_list
  BY <1>2 DEF OwnInv, NodeOwnership
<1>4. /\ \A n \in Nodes : job'[n].ticket = job[n].ticket
      /\ \A n \in Nodes : /\ node'[n].tpu_path = node[n].tpu_path /\ node'[n].pid = node[n].pid
                          /\ node'[n].seq_no = node[n].seq_no /\ node'[n].pio_seq_no = node[n].pio_seq_no
      /\ \A n \in done_list : node'[n].ret = node[n].ret /\ job'[n].outcome = job[n].outcome
      /\ node'[wnode].ret = job'[wnode].outcome
  BY <1>1, <1>2, <1>3 DEF Finished, Answered, JobType, NodeType
<1>5. FifoOrder'
  <2>1. \A i \in 1..Len(task_list) : task_list[i] \in Nodes
    BY ElementOfSeq
  <2> QED
    BY <1>2, <1>4, <2>1 DEF DataInv, FifoOrder
<1>6. heap \subseteq Nodes /\ Queued' = Queued /\ Queued \subseteq Nodes
  BY <1>2, QueuedType DEF Queued
<1>7. (BufferBalance /\ BufferKind /\ DroppedOld /\ NumberKind)'
  BY <1>2, <1>4, <1>6, ZenonT(60) DEF DataInv, BufferBalance, BufferKind, DroppedOld, NumberKind
<1>8. ResultKept' /\ HeldMatches'
  BY <1>2, <1>4, <1>6, ZenonT(60) DEF DataInv, ResultKept, HeldMatches, Match
<1> QED
  BY <1>5, <1>7, <1>8 DEF DataInv

\* The finished job gives its buffer back before it is published.
LEMMA PublishData ==
    ASSUME TypeInv, OwnInv, DataInv, WorkPublish
    PROVE  DataInv'
<1> USE DEF TypeInv, TypeOK, ThreadType, MemoryType
<1>1. /\ UNCHANGED <<heap, next, task_list, job, taken, queued, dropped, hold, pc, arg>>
      /\ Running = {wnode} /\ Running' = {} /\ Answers' = Answers /\ wnode \in Nodes
      /\ node' = [node EXCEPT ![wnode] = Placed(@, taken)]
      /\ bufs' = CleanupBuffer(wnode) /\ done_list' = done_list \cup {wnode}
  BY DEF WorkPublish, threadVars, histVars, Running, Answers, RunningNode
<1>2. wnode \in heap /\ Queued' = Queued /\ Queued \subseteq Nodes /\ heap \subseteq Nodes
      /\ Answers \subseteq Nodes
  BY <1>1, QueuedType DEF OwnInv, NodeOwnership, Queued, Answers
<1>3. \A n \in Nodes : /\ node'[n].tpu_path = node[n].tpu_path /\ node'[n].pid = node[n].pid
                       /\ node'[n].seq_no = node[n].seq_no /\ node'[n].pio_seq_no = node[n].pio_seq_no
                       /\ node'[n].ret = node[n].ret
  BY <1>1 DEF Placed, NodeType
<1>4. bufs' = bufs \ {wnode}
  BY <1>1, <1>2 DEF CleanupBuffer, DataInv, BufferKind
<1>5. FifoOrder'
  BY <1>1 DEF DataInv, FifoOrder
<1>6. BufferBalance' /\ BufferKind'
  <2>1. wnode \notin Queued
    BY <1>1 DEF OwnInv, NodeOwnership
  <2> QED
    BY <1>1, <1>2, <1>3, <1>4, <2>1 DEF DataInv, BufferBalance, BufferKind
<1>7. (DroppedOld /\ NumberKind /\ ResultKept)'
  BY <1>1, <1>2, <1>3 DEF DataInv, DroppedOld, NumberKind, ResultKept
<1>8. HeldMatches'
  BY <1>1, <1>2, <1>3 DEF DataInv, HeldMatches, Match
<1> QED
  BY <1>5, <1>6, <1>7, <1>8 DEF DataInv

\* With the driver go all nodes; only references of unrun jobs remain.
LEMMA ExitData ==
    ASSUME TypeInv, OwnInv, DataInv, WorkExit
    PROVE  DataInv'
<1> USE DEF TypeInv, TypeOK, ThreadType, MemoryType, HistType
<1>1. /\ UNCHANGED <<next, bufs, queued, hold, pc, arg>> /\ Running = {} /\ Running' = {}
      /\ Answers' = {} /\ taken' = queued /\ dropped' = dropped \cup Queued
      /\ done_list' = {} /\ task_list' = <<>> /\ heap' = heap \ (Queued \cup done_list)
  BY DEF WorkExit, threadVars, Running, Answers, Free
<1>2. Len(task_list') = 0 /\ Queued' = {}
  BY <1>1, EmptySeq DEF Queued
<1>3. heap = Queued \cup done_list /\ Queued \subseteq 1..(next - 1)
  BY <1>1 DEF OwnInv, NodeOwnership, Allocated
<1>4. heap' = {}
  BY <1>1, <1>3
<1>5. FifoOrder'
  BY <1>1, <1>2 DEF FifoOrder
<1>6. (BufferBalance /\ BufferKind /\ DroppedOld /\ NumberKind /\ ResultKept /\ HeldMatches)'
  BY <1>1, <1>2, <1>3, <1>4 DEF DataInv, BufferBalance, BufferKind, DroppedOld, NumberKind,
                                ResultKept, HeldMatches
<1> QED
  BY <1>5, <1>6 DEF DataInv

\* Every step preserves order, buffers and results.
LEMMA DataStep == TypeInv /\ LockInv /\ OwnInv /\ DataInv /\ [Next]_vars => DataInv'
<1> SUFFICES ASSUME TypeInv, LockInv, OwnInv, DataInv, [Next]_vars PROVE DataInv'
  OBVIOUS
<1>1. pc \in [Threads -> UserPcs] /\ (~bound => wpc = "gone")
      /\ arg \in [Threads -> [path: Paths, seq: SeqNos \cup {0}]]
  BY DEF TypeInv, TypeOK, ThreadType, UnboundGone
<1> DEFINE Keeps == /\ UNCHANGED <<heap, next, task_list, done_list, node, bufs, job, taken, queued,
                                   dropped, hold>>
                    /\ Running' = Running /\ Answers' = Answers
                    /\ \A s \in Threads : pc'[s] = "copy" => pc[s] = "copy" /\ arg'[s] = arg[s]
<1>2. ASSUME Keeps PROVE DataInv'
  BY <1>2, DataFrame
<1> USE <1>1 DEF threadVars, nodeVars, listVars, workVars, histVars, Running, Answers
<1>3. ASSUME NEW t \in Threads, UserStart(t) PROVE Keeps
  BY <1>3 DEF UserStart, Open, Close, ThreadExit, ThreadStart, SubmitStart, WaitStart,
     WaitInterrupted, TeeStart, Ioctl, Return
<1>4. ASSUME NEW t \in Threads, SubmitCount(t) \/ SubmitNoMem(t) \/ WaitCheck(t) \/ WaitFault(t)
      PROVE  Keeps
  BY <1>4 DEF SubmitCount, SubmitNoMem, WaitCheck, WaitFault, Return
<1>5. ASSUME NEW t \in Threads, TeeLock(t) \/ TeeDone(t) PROVE Keeps
  BY <1>5 DEF TeeLock, TeeDone, Return
<1>6. ASSUME WorkLoop \/ WorkWait \/ WorkIdle \/ RunBegin \/ RunOops \/ WorkWake PROVE Keeps
  BY <1>6 DEF WorkLoop, WorkWait, WorkIdle, RunBegin, RunOops, WorkWake, WakeAll
<1>7. ASSUME Remove \/ RemoveDone \/ Probe PROVE Keeps
  BY <1>7 DEF Remove, RemoveDone, Probe, WakeWorker
<1>8. CASE UNCHANGED vars
  <2>1. Keeps
    BY <1>8 DEF vars
  <2> QED
    BY <1>2, <2>1
<1>9. ASSUME NEW t \in Threads, WaitFinish(t) PROVE DataInv'
  <2>1. hold[t] \in done_list
    BY <1>9 DEF WaitFinish, OwnInv, Held
  <2>2. ASSUME NEW s \in Threads, pc'[s] = "copy"
        PROVE  pc[s] = "copy" /\ arg'[s] = arg[s] /\ hold'[s] = hold[s]
    BY <1>9, <2>2 DEF WaitFinish, Return
  <2>3. wpc = "publish" => wnode # hold[t]
    BY <2>1 DEF OwnInv, NodeOwnership
  <2> QED
    BY <1>9, <2>1, <2>2, <2>3, FreeData DEF WaitFinish
<1>10. ASSUME WorkReap PROVE DataInv'
  <2>1. Reaped \subseteq done_list
    BY DEF Reaped
  <2> HIDE DEF Reaped
  <2> QED
    BY <1>10, <2>1, FreeData DEF WorkReap
<1> HIDE DEF Keeps
<1> QED
  BY <1>2, <1>3, <1>4, <1>5, <1>6, <1>7, <1>8, <1>9, <1>10, SubmitData, WaitGetData, TakeData,
     RunData, PublishData, ExitData
     DEF Next, UserStep, WorkStep, Halted

\* All of it together: what the theorems below rest on.
QueueInv == TypeInv /\ LockInv /\ OwnInv /\ DataInv

\* The state after probe satisfies it.
LEMMA QueueInit == Init => QueueInv
<1> SUFFICES ASSUME Init PROVE QueueInv
  OBVIOUS
<1>1. TypeInv
  BY TypeInit
<1>2. LockInv
  BY DEF Init, LockInv
<1>3. Len(task_list) = 0 /\ Queued = {} /\ Running = {} /\ Answers = {}
  BY EmptySeq DEF Init, Queued, Running, Answers
<1>4. OwnInv
  BY <1>3 DEF Init, NodeOwnership, OwnInv, Allocated, Held, OpenAlive
<1>5. FifoOrder
  BY <1>3 DEF Init, FifoOrder
<1>6. BufferBalance /\ BufferKind /\ DroppedOld /\ NumberKind /\ ResultKept /\ HeldMatches
  BY <1>3 DEF Init, BufferBalance, BufferKind, DroppedOld, NumberKind, ResultKept, HeldMatches
<1> QED
  BY <1>1, <1>2, <1>4, <1>5, <1>6 DEF QueueInv, DataInv

\* It is an invariant of the queue.
LEMMA QueueInvariant == Spec => []QueueInv
<1>1. QueueInv /\ [Next]_vars => QueueInv'
  BY TypeStep, LockStep, OwnStep, DataStep DEF QueueInv
<1> QED
  BY <1>1, QueueInit, PTL DEF Spec

\* The work thread takes every job exactly once and in the order in which
\* list_add_tail queued them, whichever ioctls submit and however the thread
\* sleeps, is stopped and started again.
THEOREM JobsInOrder == Spec => []FifoOrder
<1>1. QueueInv => FifoOrder
  BY DEF QueueInv, DataInv
<1> QED
  BY <1>1, QueueInvariant, PTL

\* Memory in use stays allocated: types, the node a leader has looked up, and
\* the balance of dma-buf references, through cvi_tpu_cleanup_buffer,
\* cvi_tpu_cleanup_done_list and work_thread_exit.
THEOREM MemoryKept == Spec => []MemoryInv
<1>1. QueueInv => MemoryInv
  BY QueueAssumption DEF QueueInv, TypeInv, OwnInv, DataInv, MemoryInv, Held, LeaderKeepsNode
<1> QED
  BY <1>1, QueueInvariant, PTL

\* What cvi_tpu_wait_dmabuf and cvi_tpu_wait_pio hand to user space is the
\* hardware's result of a job of the calling thread, of the kind and the number
\* it waited for.
THEOREM ResultsDelivered == Spec => []DeliveredResult
<1>1. QueueInv => DeliveredResult
  <2> SUFFICES ASSUME QueueInv, NEW t \in Threads, pc[t] = "copy", hold[t] \in heap
               PROVE  LET n == node[hold[t]] IN
                        /\ n.pid = t
                        /\ arg[t].seq = IF arg[t].path = PIOTDMA THEN n.pio_seq_no ELSE n.seq_no
                        /\ n.ret = job[hold[t]].outcome
                        /\ arg[t].seq # 0 => ((n.tpu_path = PIOTDMA) <=> (arg[t].path = PIOTDMA))
    BY DEF DeliveredResult
  <2>1. hold[t] \in Answers /\ node[hold[t]].pid = t
    BY DEF QueueInv, OwnInv, Held, Answers
  <2>2. node[hold[t]].ret = job[hold[t]].outcome
    BY <2>1 DEF QueueInv, DataInv, ResultKept
  <2>3. Match(hold[t], t, arg[t].path, arg[t].seq)
    BY DEF QueueInv, DataInv, HeldMatches
  <2>4. IF node[hold[t]].tpu_path = PIOTDMA THEN node[hold[t]].seq_no = 0
                                            ELSE node[hold[t]].pio_seq_no = 0
    BY DEF QueueInv, DataInv, NumberKind
  <2> QED
    BY <2>1, <2>2, <2>3, <2>4 DEF Match
<1> QED
  BY <1>1, QueueInvariant, PTL

\* No step takes a finished job off done_list but the wait of its own thread,
\* the clean-up of a full list when its thread is not a live group leader, and
\* the removal of the driver.
THEOREM ResultsKept == Spec => ResultNotLost
<1> DEFINE Rightly(n) == \/ \E t \in Threads : node[n].pid = t /\ hold[t] = n /\ hold'[t] = NoNode
                         \/ Cardinality(done_list) >= DONE_LIST_MAX /\ node[n].pid \notin alive \cap Leaders
                         \/ stop
<1>1. QueueInv /\ [Next]_vars => [\A n \in done_list \ done_list' : Rightly(n)]_vars
  <2> SUFFICES ASSUME QueueInv, [Next]_vars, NEW n \in done_list, n \notin done_list'
               PROVE  Rightly(n)
    OBVIOUS
  <2> USE DEF threadVars, nodeVars, listVars, workVars, histVars
  <2>1. ASSUME NEW t \in Threads, WaitFinish(t) PROVE Rightly(n)
    <3>1. n = hold[t] /\ hold'[t] = NoNode
      BY <2>1 DEF WaitFinish, QueueInv, TypeInv, TypeOK, ThreadType
    <3>2. node[n].pid = t
      BY <2>1, <3>1 DEF WaitFinish, QueueInv, OwnInv, Held
    <3> QED
      BY <3>1, <3>2
  <2>2. ASSUME WorkReap PROVE Rightly(n)
    <3>1. n \in Reaped
      BY <2>2 DEF WorkReap
    <3>2. Reaped # {} /\ node[n].pid \notin alive \cap Leaders
      BY <3>1 DEF Reaped, ProcessAlive
    <3>3. ~(Cardinality(done_list) < DONE_LIST_MAX)
      BY <3>2 DEF Reaped
    <3>4. Cardinality(done_list) \in Nat
      <4>1. IsFiniteSet(Nodes) /\ done_list \subseteq Nodes
        BY QueueAssumption, FS_Interval DEF Nodes, QueueInv, TypeInv, TypeOK, MemoryType
      <4> QED
        BY <4>1, FS_Subset, FS_CardinalityType
    <3> QED
      BY <3>2, <3>3, <3>4, QueueAssumption
  <2>3. ASSUME WorkExit PROVE Rightly(n)
    BY <2>3 DEF WorkExit
  <2>4. ASSUME NEW t \in Threads,
               UserStart(t) \/ SubmitCount(t) \/ SubmitQueue(t) \/ SubmitNoMem(t) \/ WaitCheck(t)
               \/ WaitGet(t) \/ WaitFault(t) \/ TeeDone(t) \/ TeeLock(t)
        PROVE  done_list' = done_list
    <3>1. ASSUME UserStart(t) PROVE done_list' = done_list
      BY <3>1 DEF UserStart, Open, Close, ThreadExit, ThreadStart, SubmitStart, WaitStart,
         WaitInterrupted, TeeStart, Ioctl
    <3> QED
      BY <2>4, <3>1 DEF SubmitCount, SubmitQueue, SubmitNoMem, WaitCheck, WaitGet, WaitFault,
         TeeDone, TeeLock
  <2>5. ASSUME WorkLoop \/ WorkWait \/ WorkIdle \/ WorkTake \/ RunEnd \/ RunOops \/ WorkPublish
               \/ WorkWake \/ RunBegin \/ Remove \/ RemoveDone \/ Probe \/ Halted \/ UNCHANGED vars
        PROVE  done_list \subseteq done_list'
    BY <2>5 DEF WorkLoop, WorkWait, WorkIdle, WorkTake, RunEnd, RunOops, WorkPublish, WorkWake,
       RunBegin, Remove, RemoveDone, Probe, Halted, vars
  <2> HIDE DEF Rightly
  <2> QED
    BY <2>1, <2>2, <2>3, <2>4, <2>5 DEF Next, UserStep, WorkStep
<1> QED
  BY <1>1, QueueInvariant, PTL DEF Spec, ResultNotLost

=============================================================================
