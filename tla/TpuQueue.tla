------------------------------- MODULE TpuQueue -------------------------------
(***************************************************************************)
(* The job queue of the TPU driver soph_tpu                                *)
(* (src/cvitek-tpu-vendor/common/cvi_tpu_interface.c).                     *)
(*                                                                         *)
(* User threads submit jobs through three ioctls (dmabuf, TEE, PIO), one   *)
(* kernel thread takes them from task_list, runs them on the hardware and  *)
(* moves them to done_list, and the submitters collect the results with    *)
(* the two wait ioctls.  A job is a `struct cvi_list_node`; what the       *)
(* hardware does with it is one step with a nondeterministic result        *)
(* (module TpuHal opens that step).                                        *)
(*                                                                         *)
(* A step of the model is a section under one spinlock, or code between    *)
(* two such sections.  A spinlock section is one step; the mutex dev_lock, *)
(* which is held across sleeps and by several ioctls, is a variable.       *)
(***************************************************************************)
EXTENDS Integers, Sequences, FiniteSets

CONSTANTS
    Threads,        \* user threads, identified by what the driver sees: current->pid
    Leaders,        \* the threads that lead their thread group (for_each_process)
    SubmitPaths,    \* the kinds of job user space submits
    SeqNos,         \* sequence numbers user space passes in
    MaxNodes,       \* bound: jobs that can be allocated before vmalloc fails
    TASK_LIST_MAX,
    DONE_LIST_MAX,
    CopyFaults,     \* may copy_from_user / copy_to_user fail in the TEE ioctls?
    BadBuffers      \* may cvi_tpu_prepare_buffer fail?

ASSUME QueueAssumption ==
    /\ IsFiniteSet(Threads)
    /\ Leaders \subseteq Threads
    /\ SubmitPaths \subseteq {"desnormal", "dessec", "piotdma"}
    /\ SeqNos \subseteq Nat
    /\ {0, "worker", "nobody"} \cap Threads = {}
    /\ MaxNodes \in Nat
    /\ TASK_LIST_MAX \in Nat
    /\ DONE_LIST_MAX \in Nat
    /\ CopyFaults \in BOOLEAN
    /\ BadBuffers \in BOOLEAN

Nodes  == 1..MaxNodes
NoNode == 0

\* enum tpu_submit_path
DESNORMAL == "desnormal"
DESSEC    == "dessec"
PIOTDMA   == "piotdma"
Paths     == {DESNORMAL, DESSEC, PIOTDMA}
WaitPaths == {DESNORMAL, PIOTDMA}

\* What the HAL returns: 0, -ETIMEDOUT, or another error (-1, -ERESTARTSYS).
Results == {"ok", "etimedout", "error"}

\* Owners of dev_lock.
Worker == "worker"
Nobody == "nobody"

VARIABLES
    alive,      \* threads that exist
    fd,         \* threads that hold the device open
    pc,         \* pc[t]: where thread t is in the driver
    arg,        \* arg[t]: the ioctl argument of thread t
    cnt,        \* cnt[t]: local task_list_count of cvi_tpu_submit*
    hold,       \* hold[t]: the node pointer thread t keeps in a local
    node,       \* contents of the allocated nodes
    heap,       \* nodes that are vmalloc'ed and not yet vfree'd
    next,       \* next node vmalloc hands out
    bufs,       \* nodes that hold a reference on their dma-buf
    task_list,
    done_list,  \* members of done_list; their order is node[n].pos
    dev_lock,
    clk,        \* enable count of the TPU clocks
    wpc,        \* where the work thread is
    wnode,      \* first_node of work_thread_run
    stop,       \* kthread_stop has been called
    bound,      \* the driver is probed
    oops,       \* the kernel has faulted; it is not followed any further
    taken,      \* nodes the work thread has taken so far
    queued,     \* history: nodes queued so far
    job,        \* history: job[n] is n's place in the queueing order and the HAL's result
    dropped,    \* history: nodes work_thread_exit freed from task_list
    timeouts    \* history: runs that ended with -ETIMEDOUT

threadVars == <<alive, fd, pc, arg, cnt, hold>>
nodeVars   == <<node, heap, next, bufs>>
listVars   == <<task_list, done_list, taken>>
workVars   == <<dev_lock, clk, wpc, wnode, stop, bound>>
histVars   == <<queued, job, dropped, timeouts>>
vars == <<threadVars, nodeVars, listVars, workVars, oops, histVars>>

\* memset(node, 0, ...)
ZeroNode == [pid |-> NoNode, seq_no |-> 0, pio_seq_no |-> 0,
             tpu_path |-> DESNORMAL, ret |-> "ok", pos |-> 0]

NodeType == [pid: Threads \cup {NoNode}, seq_no: SeqNos \cup {0},
             pio_seq_no: SeqNos \cup {0}, tpu_path: Paths, ret: Results, pos: Nat]

NoJob   == [ticket |-> 0, outcome |-> "none"]
JobType == [ticket: Nat, outcome: Results \cup {"none"}]

Answered(r, ret) == [r EXCEPT !.ret = ret]       \* first_node->ret = ret
Placed(r, pos)   == [r EXCEPT !.pos = pos]       \* its place in done_list
Ticketed(j, k)   == [j EXCEPT !.ticket = k]
Finished(j, ret) == [j EXCEPT !.outcome = ret]

NoArg == [path |-> DESNORMAL, seq |-> 0]

UserPcs == {"idle", "count", "queue", "wait", "asleep", "get", "copy", "teelock", "tee"}
WorkPcs == {"loop", "wait", "asleep", "check", "lock", "hw", "publish", "wake",
            "reap", "gone"}

ThreadType ==
    /\ alive \subseteq Threads
    /\ fd \subseteq Threads
    /\ pc \in [Threads -> UserPcs]
    /\ arg \in [Threads -> [path: Paths, seq: SeqNos \cup {0}]]
    /\ cnt \in [Threads -> 0..(TASK_LIST_MAX + 1)]
    /\ hold \in [Threads -> Nodes \cup {NoNode}]

MemoryType ==
    /\ node \in [Nodes -> NodeType]
    /\ heap \subseteq Nodes
    /\ next \in 1..(MaxNodes + 1)
    /\ bufs \subseteq Nodes
    /\ task_list \in Seq(Nodes)
    /\ done_list \subseteq Nodes
    /\ taken \in Nat

WorkType ==
    /\ dev_lock \in Threads \cup {Worker, Nobody}
    /\ clk \in Nat
    /\ wpc \in WorkPcs
    /\ wnode \in Nodes \cup {NoNode}

FlagType ==
    /\ stop \in BOOLEAN
    /\ bound \in BOOLEAN
    /\ oops \in BOOLEAN

HistType ==
    /\ queued \in Nat
    /\ job \in [Nodes -> JobType]
    /\ dropped \subseteq Nodes
    /\ timeouts \in Nat

\* Every variable keeps its type; in particular the enable count of the clocks
\* never becomes negative (clk_disable_unprepare without an enable).
TypeOK == ThreadType /\ MemoryType /\ WorkType /\ FlagType /\ HistType

\* cvi_tpu_probe and work_thread_init: empty lists, free mutex, work thread started.
Init ==
    /\ alive = Threads
    /\ fd = {}
    /\ pc = [t \in Threads |-> "idle"]
    /\ arg = [t \in Threads |-> NoArg]
    /\ cnt = [t \in Threads |-> 0]
    /\ hold = [t \in Threads |-> NoNode]
    /\ node = [n \in Nodes |-> ZeroNode]
    /\ heap = {}
    /\ next = 1
    /\ bufs = {}
    /\ task_list = <<>>
    /\ done_list = {}
    /\ dev_lock = Nobody
    /\ clk = 0
    /\ wpc = "loop"
    /\ wnode = NoNode
    /\ stop = FALSE
    /\ bound = TRUE
    /\ oops = FALSE
    /\ taken = 0
    /\ queued = 0
    /\ job = [n \in Nodes |-> NoJob]
    /\ dropped = {}
    /\ timeouts = 0

-----------------------------------------------------------------------------
(* Processes and file handles *)

\* cvi_tpu_open: platform_tpu_open always succeeds.  The module pins itself
\* (npu_fops.owner), so a module being removed cannot be opened.
Open(t) ==
    /\ t \in alive \ fd
    /\ pc[t] = "idle"
    /\ bound /\ ~stop
    /\ fd' = fd \cup {t}
    /\ UNCHANGED <<alive, pc, arg, cnt, hold, nodeVars, listVars, workVars, oops, histVars>>

\* cvi_tpu_close: only the use count changes; jobs of the closing process stay queued.
Close(t) ==
    /\ t \in fd
    /\ pc[t] = "idle"
    /\ fd' = fd \ {t}
    /\ UNCHANGED <<alive, pc, arg, cnt, hold, nodeVars, listVars, workVars, oops, histVars>>

\* A thread ends; the kernel closes its file.
ThreadExit(t) ==
    /\ t \in alive
    /\ pc[t] = "idle"
    /\ alive' = alive \ {t}
    /\ fd' = fd \ {t}
    /\ UNCHANGED <<pc, arg, cnt, hold, nodeVars, listVars, workVars, oops, histVars>>

\* A new thread gets the pid of one that ended.
ThreadStart(t) ==
    /\ t \in Threads \ alive
    /\ alive' = alive \cup {t}
    /\ UNCHANGED <<fd, pc, arg, cnt, hold, nodeVars, listVars, workVars, oops, histVars>>

-----------------------------------------------------------------------------
(* Submitting: cvi_tpu_submit, cvi_tpu_submit_tee, cvi_tpu_submit_pio *)

\* cvi_tpu_ioctl dispatches on cmd; the handler has copied its argument.
Ioctl(t, first, a) ==
    /\ t \in fd
    /\ pc[t] = "idle"
    /\ pc' = [pc EXCEPT ![t] = first]
    /\ arg' = [arg EXCEPT ![t] = a]
    /\ UNCHANGED <<alive, fd, cnt, hold, nodeVars, listVars, workVars, oops, histVars>>

\* The handler returns and its locals are gone.
Return(t) ==
    /\ pc' = [pc EXCEPT ![t] = "idle"]
    /\ arg' = [arg EXCEPT ![t] = NoArg]

\* The argument of a submit is first looked at when the node is filled in.
SubmitStart(t) == Ioctl(t, "count", NoArg)

\* mutants: no limit at all; an off-by-one limit
NeverTooMuch(c) == FALSE
TooMuchAtLimit(c) == c >= TASK_LIST_MAX

TooMuchTask(c) == c > TASK_LIST_MAX

\* task_list_count++ for every entry; the counter is not reset when the loop
\* comes round again.  Only whether it exceeds TASK_LIST_MAX matters, so it
\* saturates one above.
CountTasks(c) ==
    IF c + Len(task_list) > TASK_LIST_MAX THEN TASK_LIST_MAX + 1
                                          ELSE c + Len(task_list)

\* One turn of the while (1) loop: too many tasks, msleep(20) and count again.
SubmitCount(t) ==
    /\ pc[t] = "count"
    /\ IF TooMuchTask(CountTasks(cnt[t]))
       THEN cnt' = [cnt EXCEPT ![t] = CountTasks(cnt[t])] /\ pc' = pc
       ELSE cnt' = [cnt EXCEPT ![t] = 0] /\ pc' = [pc EXCEPT ![t] = "queue"]
    /\ UNCHANGED <<alive, fd, arg, hold, nodeVars, listVars, workVars, oops, histVars>>

\* The node as cvi_tpu_submit, cvi_tpu_submit_tee and cvi_tpu_submit_pio fill it in.
DmabufNode(t, seq) == [ZeroNode EXCEPT !.pid = t, !.seq_no = seq, !.tpu_path = DESNORMAL]
TeeNode(t, seq)    == [ZeroNode EXCEPT !.pid = t, !.seq_no = seq, !.tpu_path = DESSEC]
PioNode(t, seq)    == [ZeroNode EXCEPT !.pid = t, !.pio_seq_no = seq, !.tpu_path = PIOTDMA]

NewNode(t, path, seq) ==
    CASE path = DESNORMAL -> DmabufNode(t, seq)
      [] path = DESSEC    -> TeeNode(t, seq)
      [] path = PIOTDMA   -> PioNode(t, seq)

\* cvi_tpu_prepare_buffer: it either takes a reference on the dma-buf or
\* gives back whatever it took.  Only cvi_tpu_submit calls it.
PrepareBuffer(n, path) ==
    IF path # DESNORMAL THEN {bufs}
    ELSE {bufs \cup {n}} \cup (IF BadBuffers THEN {bufs} ELSE {})

\* mutant: list_add, a stack instead of a queue
list_add(s, n) == <<n>> \o s

list_add_tail(s, n) == Append(s, n)

\* mutant: the wake-up is forgotten
NoWakeWorker(w) == w

\* wake_up_interruptible(&task_wait_queue)
WakeWorker(w) == IF w = "asleep" THEN "wait" ELSE w

\* vmalloc, fill in the node, prepare the buffer (the result of
\* cvi_tpu_prepare_buffer is ignored), add the node to task_list.
SubmitQueue(t) ==
    /\ pc[t] = "queue"
    /\ next <= MaxNodes
    /\ \E path \in SubmitPaths, seq \in SeqNos :
         /\ node' = [node EXCEPT ![next] = NewNode(t, path, seq)]
         /\ bufs' \in PrepareBuffer(next, path)
    /\ heap' = heap \cup {next}
    /\ next' = next + 1
    /\ task_list' = list_add_tail(task_list, next)
    /\ queued' = queued + 1
    /\ job' = [job EXCEPT ![next] = Ticketed(@, queued + 1)]
    /\ wpc' = WakeWorker(wpc)
    /\ Return(t)
    /\ UNCHANGED <<alive, fd, cnt, hold, done_list, taken, dev_lock, clk, wnode,
                   stop, bound, oops, dropped, timeouts>>

\* vmalloc fails: -ENOMEM.
SubmitNoMem(t) ==
    /\ pc[t] = "queue"
    /\ next > MaxNodes
    /\ Return(t)
    /\ UNCHANGED <<alive, fd, cnt, hold, nodeVars, listVars, workVars, oops, histVars>>

-----------------------------------------------------------------------------
(* Collecting results: cvi_tpu_wait_dmabuf, cvi_tpu_wait_pio *)

\* mutant: a wait takes any finished job of the caller
MatchAnyNumber(n, t, path, seq) ==
    node[n].pid = t

\* The test of get_from_done_list: the pid, and the sequence number of the
\* kind the caller waits for.
Match(n, t, path, seq) ==
    /\ node[n].pid = t
    /\ IF path = PIOTDMA THEN node[n].pio_seq_no = seq ELSE node[n].seq_no = seq

Matches(t) == {n \in done_list : Match(n, t, arg[t].path, arg[t].seq)}

\* get_from_done_list: the first match in list order, or NULL.
get_from_done_list(t) ==
    IF Matches(t) = {} THEN NoNode
    ELSE CHOOSE n \in Matches(t) : \A m \in Matches(t) : node[n].pos <= node[m].pos

WaitStart(t) ==
    \E path \in WaitPaths, seq \in SeqNos : Ioctl(t, "wait", [path |-> path, seq |-> seq])

\* wait_event_interruptible evaluates its condition and goes to sleep if it is false.
WaitCheck(t) ==
    /\ pc[t] = "wait"
    /\ pc' = [pc EXCEPT ![t] = IF get_from_done_list(t) = NoNode THEN "asleep" ELSE "get"]
    /\ UNCHANGED <<alive, fd, arg, cnt, hold, nodeVars, listVars, workVars, oops, histVars>>

\* A signal ends the sleep: -EINTR.
WaitInterrupted(t) ==
    /\ pc[t] = "asleep"
    /\ Return(t)
    /\ UNCHANGED <<alive, fd, cnt, hold, nodeVars, listVars, workVars, oops, histVars>>

\* The second lookup, whose result is used without the lock; -EINVAL if it fails.
WaitGet(t) ==
    /\ pc[t] = "get"
    /\ hold' = [hold EXCEPT ![t] = get_from_done_list(t)]
    /\ IF get_from_done_list(t) = NoNode
       THEN Return(t)
       ELSE pc' = [pc EXCEPT ![t] = "copy"] /\ arg' = arg
    /\ UNCHANGED <<alive, fd, cnt, nodeVars, listVars, workVars, oops, histVars>>

\* vfree: what was in the nodes is gone.
Free(S) ==
    /\ heap' = heap \ S
    /\ node' = [n \in Nodes |-> IF n \in S THEN ZeroNode ELSE node[n]]
    /\ job' = [n \in Nodes |-> IF n \in S THEN NoJob ELSE job[n]]

\* mutant: the node is freed but stays on done_list
WaitFinishNoDel(t) ==
    /\ pc[t] = "copy"
    /\ hold[t] \in heap
    /\ Free({hold[t]})
    /\ hold' = [hold EXCEPT ![t] = NoNode]
    /\ Return(t)
    /\ UNCHANGED <<alive, fd, cnt, next, bufs, listVars, workVars, oops,
                   queued, dropped, timeouts>>

\* node->ret goes to user space (copy_to_user may fail, the node is removed
\* all the same); remove_from_done_list unlinks and frees the node.
WaitFinish(t) ==
    /\ pc[t] = "copy"
    /\ hold[t] \in heap
    /\ done_list' = done_list \ {hold[t]}
    /\ Free({hold[t]})
    /\ hold' = [hold EXCEPT ![t] = NoNode]
    /\ Return(t)
    /\ UNCHANGED <<alive, fd, cnt, next, bufs, task_list, taken, workVars, oops,
                   queued, dropped, timeouts>>

\* The node was freed meanwhile: reading or unlinking it faults.
WaitFault(t) ==
    /\ pc[t] = "copy"
    /\ hold[t] \notin heap
    /\ oops' = TRUE
    /\ UNCHANGED <<threadVars, nodeVars, listVars, workVars, histVars>>

-----------------------------------------------------------------------------
(* cvi_tpu_load_tee and cvi_tpu_unload_tee: the HAL calls are empty on this  *)
(* chip, what remains is the locking.                                        *)

TeeStart(t) == Ioctl(t, "teelock", NoArg)

\* mutex_lock(&ndev->dev_lock)
TeeLock(t) ==
    /\ pc[t] = "teelock"
    /\ dev_lock = Nobody
    /\ dev_lock' = t
    /\ pc' = [pc EXCEPT ![t] = "tee"]
    /\ UNCHANGED <<alive, fd, arg, cnt, hold, nodeVars, listVars,
                   clk, wpc, wnode, stop, bound, oops, histVars>>

\* What the failing copies leave in dev_lock: the early returns do not unlock it.
LockAfterFault == dev_lock

TeeDone(t) ==
    /\ pc[t] = "tee"
    /\ \/ dev_lock' = Nobody
       \/ CopyFaults /\ dev_lock' = LockAfterFault
    /\ Return(t)
    /\ UNCHANGED <<alive, fd, cnt, hold, nodeVars, listVars,
                   clk, wpc, wnode, stop, bound, oops, histVars>>

-----------------------------------------------------------------------------
(* The work thread: work_thread_main, work_thread_run *)

\* while (!kthread_should_stop())
WorkLoop ==
    /\ wpc = "loop"
    /\ ~stop
    /\ wpc' = "wait"
    /\ UNCHANGED <<threadVars, nodeVars, listVars, dev_lock, clk, wnode, stop, bound,
                   oops, histVars>>

\* mutant: the sleep does not look at kthread_should_stop
WorkWaitNoStop ==
    /\ wpc = "wait"
    /\ wpc' = IF task_list # <<>> THEN "check" ELSE "asleep"
    /\ UNCHANGED <<threadVars, nodeVars, listVars, dev_lock, clk, wnode, stop, bound,
                   oops, histVars>>

\* wait_event_interruptible(task_wait_queue, !task_list_empty || kthread_should_stop)
WorkWait ==
    /\ wpc = "wait"
    /\ wpc' = IF task_list # <<>> \/ stop THEN "check" ELSE "asleep"
    /\ UNCHANGED <<threadVars, nodeVars, listVars, dev_lock, clk, wnode, stop, bound,
                   oops, histVars>>

\* Nothing to do: back to the loop test.
WorkIdle ==
    /\ wpc = "check"
    /\ task_list = <<>>
    /\ wpc' = "loop"
    /\ UNCHANGED <<threadVars, nodeVars, listVars, dev_lock, clk, wnode, stop, bound,
                   oops, histVars>>

\* work_thread_run unlinks the head of task_list.
WorkTake ==
    /\ wpc = "check"
    /\ task_list # <<>>
    /\ wnode' = Head(task_list)
    /\ task_list' = Tail(task_list)
    /\ taken' = taken + 1
    /\ wpc' = "lock"
    /\ UNCHANGED <<threadVars, nodeVars, done_list, dev_lock, clk, stop, bound,
                   oops, histVars>>

\* mutant: dev_lock is taken without waiting for its owner
RunBeginUnlocked ==
    /\ wpc = "lock"
    /\ dev_lock' = Worker
    /\ clk' = clk + 1
    /\ wpc' = "hw"
    /\ UNCHANGED <<threadVars, nodeVars, listVars, wnode, stop, bound, oops, histVars>>

\* cvi_tpu_run_dmabuf: mutex_lock, platform_tpu_init enables the clocks.
RunBegin ==
    /\ wpc = "lock"
    /\ dev_lock = Nobody
    /\ dev_lock' = Worker
    /\ clk' = clk + 1
    /\ wpc' = "hw"
    /\ UNCHANGED <<threadVars, nodeVars, listVars, wnode, stop, bound, oops, histVars>>

\* platform_run_dmabuf reads the header through a pointer that a failed
\* cvi_tpu_prepare_buffer left NULL.
NullHeader(n) == node[n].tpu_path = DESNORMAL /\ n \notin bufs

\* platform_run_dmabuf, platform_run_dmabuf_tee (returns 0), platform_run_pio
HalResults(path) ==
    CASE path = DESNORMAL -> Results
      [] path = DESSEC    -> {"ok"}
      [] path = PIOTDMA   -> Results

\* mutant: every error leaves the clocks on
ClkOnAfterError(ret) == IF ret # "ok" THEN clk ELSE clk - 1

\* -ETIMEDOUT resets the TPU and leaves the clocks on; otherwise they are disabled.
ClkAfterRun(ret) == IF ret = "etimedout" THEN clk ELSE clk - 1

\* The HAL returns, cvi_tpu_run_dmabuf unlocks, first_node->ret = ret.
RunEnd ==
    /\ wpc = "hw"
    /\ ~NullHeader(wnode)
    /\ \E ret \in HalResults(node[wnode].tpu_path) :
         /\ job' = [job EXCEPT ![wnode] = Finished(@, ret)]
         /\ node' = [node EXCEPT ![wnode] = Answered(@, ret)]
         /\ clk' = ClkAfterRun(ret)
         /\ timeouts' = IF ret = "etimedout" THEN timeouts + 1 ELSE timeouts
    /\ dev_lock' = Nobody
    /\ wpc' = "publish"
    /\ UNCHANGED <<threadVars, heap, next, bufs, listVars, wnode, stop, bound, oops,
                   queued, dropped>>

RunOops ==
    /\ wpc = "hw"
    /\ NullHeader(wnode)
    /\ oops' = TRUE
    /\ UNCHANGED <<threadVars, nodeVars, listVars, workVars, histVars>>

\* cvi_tpu_cleanup_buffer
CleanupBuffer(n) == IF node[n].tpu_path = DESNORMAL THEN bufs \ {n} ELSE bufs

\* Release the buffer, then list_add_tail(done_list).
WorkPublish ==
    /\ wpc = "publish"
    /\ bufs' = CleanupBuffer(wnode)
    /\ done_list' = done_list \cup {wnode}
    /\ node' = [node EXCEPT ![wnode] = Placed(@, taken)]
    /\ wnode' = NoNode
    /\ wpc' = "wake"
    /\ UNCHANGED <<threadVars, heap, next, task_list, taken, dev_lock, clk, stop, bound,
                   oops, histVars>>

\* mutant: the wake-up is forgotten
NoWakeAll(t) == pc[t]

\* wake_up_all(&done_wait_queue): the sleepers look again.
WakeAll(t) == IF pc[t] = "asleep" THEN "wait" ELSE pc[t]

WorkWake ==
    /\ wpc = "wake"
    /\ pc' = [t \in Threads |-> WakeAll(t)]
    /\ wpc' = "reap"
    /\ UNCHANGED <<alive, fd, arg, cnt, hold, nodeVars, listVars, dev_lock, clk,
                   wnode, stop, bound, oops, histVars>>

\* mutant: no process is found alive
NoProcessAlive(p) == FALSE

\* for_each_process visits the leaders of the thread groups only.
ProcessAlive(p) == p \in alive \cap Leaders

\* mutant: done_list is cleaned up before it is full
ReapedAlways == {n \in done_list : ~ProcessAlive(node[n].pid)}

\* cvi_tpu_cleanup_done_list: the nodes it unlinks and frees.
Reaped ==
    IF Cardinality(done_list) < DONE_LIST_MAX THEN {}
    ELSE {n \in done_list : ~ProcessAlive(node[n].pid)}

WorkReap ==
    /\ wpc = "reap"
    /\ done_list' = done_list \ Reaped
    /\ Free(Reaped)
    /\ wpc' = "loop"
    /\ UNCHANGED <<threadVars, next, bufs, task_list, taken, dev_lock, clk, wnode,
                   stop, bound, oops, queued, dropped, timeouts>>

-----------------------------------------------------------------------------
(* Removing and probing the driver *)

\* cvi_tpu_remove calls kthread_stop, which also wakes the work thread.
\* npu_fops.owner keeps the module while the device is open.
Remove ==
    /\ bound /\ ~stop
    /\ fd = {}
    /\ stop' = TRUE
    /\ wpc' = WakeWorker(wpc)
    /\ UNCHANGED <<threadVars, nodeVars, listVars, dev_lock, clk, wnode, bound, oops, histVars>>

Queued == {task_list[i] : i \in 1..Len(task_list)}

\* work_thread_exit frees what is left on both lists; buffers of the unrun
\* jobs are not released.
WorkExit ==
    /\ wpc = "loop"
    /\ stop
    /\ Free(Queued \cup done_list)
    /\ dropped' = dropped \cup Queued
    /\ task_list' = <<>>
    /\ done_list' = {}
    /\ taken' = queued
    /\ wpc' = "gone"
    /\ UNCHANGED <<threadVars, next, bufs, dev_lock, clk, wnode, stop, bound,
                   oops, queued, timeouts>>

\* kthread_stop returns and the rest of cvi_tpu_remove takes the device away.
RemoveDone ==
    /\ bound
    /\ wpc = "gone"
    /\ bound' = FALSE
    /\ UNCHANGED <<threadVars, nodeVars, listVars, dev_lock, clk, wpc, wnode, stop, oops, histVars>>

\* cvi_tpu_probe of a new device: fresh lists, mutex and work thread.
Probe ==
    /\ ~bound
    /\ bound' = TRUE
    /\ stop' = FALSE
    /\ dev_lock' = Nobody
    /\ wpc' = "loop"
    /\ UNCHANGED <<threadVars, nodeVars, listVars, clk, wnode, oops, histVars>>

-----------------------------------------------------------------------------
\* The steps a thread takes on its own once it is inside the driver.
UserStep(t) ==
    \/ SubmitCount(t) \/ SubmitQueue(t) \/ SubmitNoMem(t)
    \/ WaitCheck(t) \/ WaitGet(t) \/ WaitFinish(t) \/ WaitFault(t)
    \/ TeeDone(t)

UserStart(t) ==
    \/ Open(t) \/ Close(t) \/ ThreadExit(t) \/ ThreadStart(t)
    \/ SubmitStart(t) \/ WaitStart(t) \/ WaitInterrupted(t) \/ TeeStart(t)

WorkStep ==
    \/ WorkLoop \/ WorkWait \/ WorkIdle \/ WorkTake
    \/ RunEnd \/ RunOops
    \/ WorkPublish \/ WorkWake \/ WorkReap \/ WorkExit

Halted == oops /\ UNCHANGED vars

Next ==
    \/ /\ ~oops
       /\ \/ \E t \in Threads : UserStart(t) \/ UserStep(t) \/ TeeLock(t)
          \/ WorkStep \/ RunBegin
          \/ Remove \/ RemoveDone \/ Probe
    \/ Halted

Spec == Init /\ [][Next]_vars

\* Threads inside the driver are scheduled, every HAL run ends (each of its
\* waits has a 60 s timeout), and dev_lock, a mutex with a FIFO wait list and
\* hand-off, is not withheld for ever from one that keeps asking.
Fairness ==
    /\ \A t \in Threads : WF_vars(~oops /\ UserStep(t)) /\ SF_vars(~oops /\ TeeLock(t))
    /\ WF_vars(~oops /\ WorkStep)
    /\ SF_vars(~oops /\ RunBegin)
    /\ WF_vars(~oops /\ RemoveDone)

FairSpec == Spec /\ Fairness

-----------------------------------------------------------------------------
(* Properties *)

\* Threads past the check of cvi_tpu_submit* and not yet in task_list.
Passed == {t \in Threads : pc[t] = "queue"}

\* The length of task_list is checked and the node added under two separate
\* lock sections, so submitters overtake one another; the list still never
\* exceeds TASK_LIST_MAX by more than one entry per thread.
TaskListBounded == Len(task_list) <= TASK_LIST_MAX + Cardinality(Threads)

Running == IF wpc \in {"lock", "hw", "publish"} THEN {wnode} ELSE {}

\* Every allocated node is in exactly one place: on task_list, being run, or on
\* done_list.  Nothing on a list has been freed, and no node leaks (vmalloc and
\* vfree against list_add_tail and list_del).
NodeOwnership ==
    /\ heap = Queued \cup Running \cup done_list
    /\ Queued \cap Running = {}
    /\ (Queued \cup Running) \cap done_list = {}
    /\ \A i, j \in 1..Len(task_list) : task_list[i] = task_list[j] => i = j

\* The node a wait ioctl uses after the second lookup has released the lock
\* is still allocated, if the caller leads its thread group: only then does
\* cvi_tpu_cleanup_done_list know that it is alive.
LeaderKeepsNode ==
    \A t \in Leaders : pc[t] = "copy" => hold[t] \in done_list

\* The work thread takes the jobs in the order they were queued, each once:
\* task_list holds exactly the tickets not yet taken, in order, and the job at
\* hand is the last one taken.
FifoOrder ==
    /\ queued = taken + Len(task_list)
    /\ \A i \in 1..Len(task_list) : job[task_list[i]].ticket = taken + i
    /\ \A n \in Running : job[n].ticket = taken

\* A dma-buf reference is held exactly while its job is queued or run; the only
\* references that outlive their job are those of jobs that work_thread_exit
\* dropped unrun.
BufferBalance ==
    /\ bufs \subseteq Queued \cup Running \cup dropped
    /\ ~BadBuffers => \A n \in Queued \cup Running :
                         node[n].tpu_path = DESNORMAL => n \in bufs

\* Types, nodes and buffer references together: whatever thread exits, interrupted
\* waits, failed buffers and removal do, memory that is in use stays allocated.
MemoryInv == TypeOK /\ LeaderKeepsNode /\ BufferBalance

\* clk_prepare_enable and clk_disable_unprepare pair up, except that each run
\* ending in -ETIMEDOUT leaves the clocks enabled once.
ClockBalance == clk = timeouts + (IF wpc = "hw" THEN 1 ELSE 0)

\* What a wait is about to return is the HAL's result of a job the same pid
\* submitted under the number asked for (cvi_tpu_interface.c:373), although done_list
\* changes between the two lookups and the copy, and of the kind waited for
\* unless the number is 0 (a dmabuf node carries pio_seq_no 0, a PIO node
\* seq_no 0).
DeliveredResult ==
    \A t \in Threads : pc[t] = "copy" /\ hold[t] \in heap =>
        LET n == node[hold[t]] IN
          /\ n.pid = t
          /\ arg[t].seq = IF arg[t].path = PIOTDMA THEN n.pio_seq_no ELSE n.seq_no
          /\ n.ret = job[hold[t]].outcome
          /\ arg[t].seq # 0 => ((n.tpu_path = PIOTDMA) <=> (arg[t].path = PIOTDMA))

\* While the hardware runs a job no TEE ioctl is between its lock and unlock.
HardwareExclusive ==
    wpc = "hw" => dev_lock = Worker /\ \A t \in Threads : pc[t] # "tee"

\* A finished job leaves done_list only into the hands of its own thread,
\* because that thread is not a live thread-group leader and the list is full,
\* or with the driver.  An interrupted wait loses nothing.
ResultNotLost ==
    [][\A n \in done_list \ done_list' :
         \/ \E t \in Threads : node[n].pid = t /\ hold[t] = n /\ hold'[t] = NoNode
         \/ Cardinality(done_list) >= DONE_LIST_MAX /\ node[n].pid \notin alive \cap Leaders
         \/ stop]_vars

LockLeaked == \E t \in Threads : dev_lock = t /\ pc[t] # "tee"

\* Every job that reaches task_list is eventually run and its result published,
\* unless the driver is removed, the kernel has faulted, or a TEE ioctl has left
\* dev_lock locked.
JobFinishes ==
    \A n \in Nodes :
        n \in Queued ~> n \notin Queued \cup Running \/ stop \/ oops \/ LockLeaked

\* A thread that sleeps in a wait ioctl while its job is queued or running is
\* eventually woken up and finds the result.
WaitReturns ==
    \A t \in Threads :
        (/\ pc[t] = "asleep"
         /\ \E n \in Queued \cup Running : Match(n, t, arg[t].path, arg[t].seq))
        ~> pc[t] # "asleep" \/ oops \/ LockLeaked

\* A submit ioctl returns, unless it once counted too many tasks.
SubmitReturns ==
    \A t \in Threads :
        pc[t] = "count" ~> pc[t] = "idle" \/ cnt[t] > TASK_LIST_MAX \/ oops

\* kthread_stop returns: after at most the job at hand the work thread leaves.
RemoveReturns == stop ~> ~bound \/ oops \/ LockLeaked

=============================================================================
