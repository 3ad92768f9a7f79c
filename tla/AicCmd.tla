-------------------------------- MODULE AicCmd --------------------------------
(***************************************************************************)
(* The command manager of the AIC8800 Wi-Fi driver                         *)
(* (src/aic8800-vendor/aic8800_fdrv/rwnx_cmds.c, rwnx_send_msg of          *)
(* rwnx_msg_tx.c) with the one command buffer below it and the part of the *)
(* SDIO transmit thread that sends it (aicwf_sdio.c).                      *)
(*                                                                         *)
(* Callers (cfg80211 operations, timers, works) send commands.  A command  *)
(* that finds the queue quiet is pushed by its caller, who then waits for  *)
(* the firmware's confirmation; a command that finds another one under way *)
(* is deferred: its caller returns and a work item pushes it later.  All   *)
(* messages go through one buffer, bus->cmd_buf.  A wait that times out    *)
(* marks the manager CRASHED for good.                                     *)
(*                                                                         *)
(* A command is identified by its slot in cmd_array.  A step is a section  *)
(* under cmd_mgr->lock or cmd_array_lock, or the code between two of them. *)
(* The flags of struct rwnx_cmd are one set of slots per flag.             *)
(***************************************************************************)
EXTENDS Integers, Sequences, FiniteSets, FiniteSetsExt, Functions

CONSTANTS
    Callers,      \* the threads that call rwnx_send_msg
    Kinds,        \* the kinds of message they send (see AllKinds)
    NSlots,       \* RWNX_CMD_ARRAY_SIZE
    MaxQueued,    \* RWNX_CMD_MAX_QUEUED
    BusFaults,    \* may flow control refuse, or the bus lose, a message?
    FwLoss,       \* may the firmware leave a command unanswered?
    WithRemove    \* may the driver be removed (bus stop, then deinit)?

\* "cfm":     confirmation wanted and copied to the caller's buffer (e2a_msg)
\* "plain":   confirmation wanted, no buffer
\* "traffic": ME_TRAFFIC_IND_REQ, confirmation wanted, always deferred
\* "note":    reqcfm = 0, handed straight to the bus
AllKinds == {"cfm", "plain", "traffic", "note"}

ASSUME CmdAssumption ==
    /\ IsFiniteSet(Callers)
    /\ "worker" \notin Callers
    /\ Kinds \subseteq AllKinds
    /\ MaxQueued \in Nat \ {0}
    /\ NSlots \in Nat
    /\ NSlots >= MaxQueued + Cardinality(Callers) + 1   \* one for the worker
    /\ {BusFaults, FwLoss, WithRemove} \subseteq BOOLEAN

Slots  == 1..NSlots
NoCmd  == 0
Worker == "worker"
Procs  == Callers \cup {Worker}

\* A message: the command it belongs to (none without confirmation), its kind.
NoMsg  == [c |-> NoCmd, k |-> "none"]
MsgOf(c, k) == [c |-> IF k = "note" THEN NoCmd ELSE c, k |-> k]

VARIABLES
    \* struct rwnx_cmd_mgr
    cmds,       \* the list of commands, oldest first
    queue_sz,
    state,      \* "INITED", "CRASHED", "DEINIT"
    work,       \* cmdWork is queued
    \* struct rwnx_cmd, by slot
    used,       \* slots taken from cmd_array
    kind,       \* what the command in a slot is
    waitPush,   \* RWNX_CMD_FLAG_WAIT_PUSH
    waitCfm,    \* RWNX_CMD_FLAG_WAIT_CFM
    done,       \* RWNX_CMD_FLAG_DONE
    completed,  \* slots whose completion has been signalled
    \* the processes
    pc,         \* where a caller or the worker is
    cmd,        \* the command it works on
    \* the bus
    bus,        \* bus_if->state: "up", "down"
    cmd_buf,    \* the message in bus->cmd_buf
    cmd_txstate,\* a message is handed to the transmit thread
    bustx_trgg, \* completions the transmit thread has not consumed
    tpc,        \* the transmit thread: "idle", "msg", "gone"
    fw,         \* messages the firmware has received and will confirm
    \* history
    unsent,     \* the content of cmd_buf has never been sent
    overwritten,\* a message was overwritten in cmd_buf before it was sent
    unlinked2   \* list_del ran on a command that was not in the list

mgrVars  == <<cmds, queue_sz, state, work>>
slotVars == <<used, kind, waitPush, waitCfm, done, completed>>
procVars == <<pc, cmd>>
busVars  == <<bus, cmd_buf, cmd_txstate, bustx_trgg, tpc, fw, unsent>>
histVars == <<overwritten, unlinked2>>
vars == <<mgrVars, slotVars, procVars, busVars, histVars>>

Init ==
    /\ cmds = <<>> /\ queue_sz = 0 /\ state = "INITED" /\ work = FALSE
    /\ used = {} /\ kind = [s \in Slots |-> "none"]
    /\ waitPush = {} /\ waitCfm = {} /\ done = {} /\ completed = {}
    /\ pc = [p \in Procs |-> "idle"] /\ cmd = [p \in Procs |-> NoCmd]
    /\ bus = "up" /\ cmd_buf = NoMsg /\ cmd_txstate = FALSE /\ bustx_trgg = 0
    /\ tpc = "idle" /\ fw = <<>>
    /\ unsent = FALSE /\ overwritten = FALSE /\ unlinked2 = FALSE

-----------------------------------------------------------------------------
(* rwnx_send_msg and cmd_mgr_queue: the caller's side *)

Return(p) ==
    /\ pc' = [pc EXCEPT ![p] = "idle"]
    /\ cmd' = [cmd EXCEPT ![p] = NoCmd]

\* rwnx_cmd_malloc takes the first free slot; the caller goes on to
\* cmd_mgr_queue, or for reqcfm = 0 straight to aicwf_set_cmd_tx.  With the
\* bus down rwnx_send_msg returns 0 at once.
SendMsg(p, k) ==
    /\ pc[p] = "idle" /\ bus = "up" /\ used # Slots
    /\ LET c == Min(Slots \ used) IN
       /\ used' = used \cup {c}
       /\ kind' = [kind EXCEPT ![c] = k]
       /\ cmd' = [cmd EXCEPT ![p] = c]
    /\ pc' = [pc EXCEPT ![p] = IF k = "note" THEN "settx" ELSE "queue"]
    /\ UNCHANGED <<mgrVars, waitPush, waitCfm, done, completed, busVars, histVars>>

\* -EPIPE when the manager has crashed, -ENOMEM when the queue is full; after
\* the unlock rwnx_send_msg frees the command and returns 0 (CmdFree).
QueueRefused(p) ==
    /\ pc[p] = "queue"
    /\ \/ state = "CRASHED"
       \/ /\ state = "INITED" /\ kind[cmd[p]] # "cfm"
          /\ cmds # <<>> /\ queue_sz = MaxQueued
    /\ pc' = [pc EXCEPT ![p] = "drop"]
    /\ UNCHANGED <<mgrVars, slotVars, cmd, busVars, histVars>>

\* mutant: looks at the first command of the list instead of the last
DeferPush_First(c) ==
    \/ cmds # <<>> /\ cmds[1] \in waitPush
    \/ kind[c] = "traffic"

\* The condition under which cmd_mgr_queue defers the push.
DeferPush(c) ==
    \/ cmds # <<>> /\ cmds[Len(cmds)] \in waitPush \cup waitCfm
    \/ kind[c] = "traffic"

\* The locked section that appends the command.  A caller with a confirmation
\* buffer polls until the list is empty and keeps the lock; the others do not
\* wait.  A deferred command wakes the worker (after the unlock) only if it is
\* alone in the list.
Queue(p) ==
    LET c == cmd[p] IN
    /\ pc[p] = "queue" /\ state = "INITED"
    /\ kind[c] = "cfm" => cmds = <<>>
    /\ cmds # <<>> => queue_sz # MaxQueued
    /\ cmds' = Append(cmds, c)
    /\ queue_sz' = queue_sz + 1
    /\ waitCfm' = waitCfm \cup {c}
    /\ completed' = completed \ {c}
    /\ IF DeferPush(c)
       THEN /\ waitPush' = waitPush \cup {c}
            /\ IF queue_sz + 1 <= 1
               THEN /\ pc' = [pc EXCEPT ![p] = "wakedefer"]
                    /\ cmd' = [cmd EXCEPT ![p] = NoCmd]
               ELSE Return(p)
       ELSE /\ pc' = [pc EXCEPT ![p] = "settx"]
            /\ UNCHANGED <<waitPush, cmd>>
    /\ UNCHANGED <<state, work, used, kind, done, busVars, histVars>>

\* mutant: a finished command does not wake the worker
Wake_Lost(p) ==
    /\ pc[p] \in {"wake", "wakedefer"}
    /\ work' = (work \/ pc[p] = "wakedefer")
    /\ Return(p)
    /\ UNCHANGED <<cmds, queue_sz, state, slotVars, busVars, histVars>>

\* WAKE_CMD_WORK after a deferred push, and after a finished command if the
\* list, read without the lock, is not empty.
Wake(p) ==
    /\ pc[p] \in {"wake", "wakedefer"}
    /\ work' = (work \/ pc[p] = "wakedefer" \/ cmds # <<>>)
    /\ Return(p)
    /\ UNCHANGED <<cmds, queue_sz, state, slotVars, busVars, histVars>>

-----------------------------------------------------------------------------
(* cmd_mgr_task_process: the work item *)

WorkStart ==
    /\ work /\ pc[Worker] = "idle"
    /\ work' = FALSE
    /\ pc' = [pc EXCEPT ![Worker] = "scan"]
    /\ UNCHANGED <<cmds, queue_sz, state, slotVars, cmd, busVars, histVars>>

\* mutant: takes any command that waits to be pushed
WorkScan_Any ==
    /\ pc[Worker] = "scan"
    /\ IF \E i \in DOMAIN cmds : cmds[i] \in waitPush
       THEN /\ pc' = [pc EXCEPT ![Worker] = "settx"]
            /\ cmd' = [cmd EXCEPT ![Worker] =
                         cmds[Min({i \in DOMAIN cmds : cmds[i] \in waitPush})]]
       ELSE Return(Worker)
    /\ UNCHANGED <<mgrVars, slotVars, busVars, histVars>>

\* Looks at the first command only; leaves if it is not waiting to be pushed.
WorkScan ==
    /\ pc[Worker] = "scan"
    /\ IF cmds # <<>> /\ Head(cmds) \in waitPush
       THEN /\ pc' = [pc EXCEPT ![Worker] = "settx"]
            /\ cmd' = [cmd EXCEPT ![Worker] = Head(cmds)]
       ELSE Return(Worker)
    /\ UNCHANGED <<mgrVars, slotVars, busVars, histVars>>

-----------------------------------------------------------------------------
(* Pushing a command and waiting for it: the same code in both places *)

\* aicwf_set_cmd_tx writes the message into the one buffer, without a lock
\* (the worker has just cleared WAIT_PUSH, without a lock as well).
SetCmdTx(p) ==
    /\ pc[p] = "settx"
    /\ waitPush' = waitPush \ {cmd[p]}
    /\ cmd_buf' = MsgOf(cmd[p], kind[cmd[p]])
    /\ overwritten' = (overwritten \/ unsent)
    /\ unsent' = TRUE
    /\ pc' = [pc EXCEPT ![p] = "txmsg"]
    /\ UNCHANGED <<mgrVars, used, kind, waitCfm, done, completed, cmd, bus,
                   cmd_txstate, bustx_trgg, tpc, fw, unlinked2>>

\* aicwf_sdio_bus_txmsg.  A message without confirmation is freed next.
BusTxMsg(p) ==
    /\ pc[p] = "txmsg"
    /\ cmd_txstate' = TRUE
    /\ bustx_trgg' = IF bus = "up" THEN bustx_trgg + 1 ELSE bustx_trgg
    /\ pc' = [pc EXCEPT ![p] = IF kind[cmd[p]] = "note" THEN "drop" ELSE "wait"]
    /\ UNCHANGED <<mgrVars, slotVars, cmd, bus, cmd_buf, tpc, fw, unsent, histVars>>

\* list_del, where it is in the list
Unlink(c) ==
    IF c \notin Range(cmds) THEN cmds
    ELSE LET n == CHOOSE i \in DOMAIN cmds : cmds[i] = c
         IN  SubSeq(cmds, 1, n - 1) \o SubSeq(cmds, n + 1, Len(cmds))

\* mutant: the command is not freed when it leaves the list
WaitDone_Leak(p) ==
    LET c == cmd[p] IN
    /\ pc[p] = "wait" /\ c \in completed
    /\ completed' = completed \ {c}
    /\ cmds' = Unlink(c)
    /\ unlinked2' = (unlinked2 \/ c \notin Range(cmds))
    /\ queue_sz' = queue_sz - 1
    /\ pc' = [pc EXCEPT ![p] = IF p = Worker THEN "scan" ELSE "wake"]
    /\ cmd' = [cmd EXCEPT ![p] = NoCmd]
    /\ UNCHANGED <<state, work, used, waitPush, waitCfm, done, kind, busVars, overwritten>>

\* The wait ended in time: list_del and queue_sz-- under cmd_mgr->lock.
WaitDone(p) ==
    LET c == cmd[p] IN
    /\ pc[p] = "wait" /\ c \in completed
    /\ completed' = completed \ {c}
    /\ cmds' = Unlink(c)
    /\ unlinked2' = (unlinked2 \/ c \notin Range(cmds))
    /\ queue_sz' = queue_sz - 1
    /\ pc' = [pc EXCEPT ![p] = "free"]
    /\ UNCHANGED <<state, work, used, kind, waitPush, waitCfm, done, cmd, busVars, overwritten>>

\* rwnx_cmd_free (used = 0, flags = 0), later and under cmd_array_lock: until
\* then the slot is taken although the command is in no list.  The kind of a
\* free slot is not read any more.  Then the worker looks for the next command,
\* a caller wakes the worker, and rwnx_send_msg returns if it was the one that
\* freed the command.
CmdFree(p) ==
    LET c == cmd[p] IN
    /\ pc[p] \in {"free", "drop"}
    /\ used' = used \ {c}
    /\ waitPush' = waitPush \ {c}
    /\ waitCfm' = waitCfm \ {c}
    /\ done' = done \ {c}
    /\ kind' = [kind EXCEPT ![c] = "none"]
    /\ pc' = [pc EXCEPT ![p] = IF pc[p] = "drop" THEN "idle"
                               ELSE IF p = Worker THEN "scan" ELSE "wake"]
    /\ cmd' = [cmd EXCEPT ![p] = NoCmd]
    /\ UNCHANGED <<mgrVars, completed, busVars, histVars>>

\* mutant: waits without a timeout (wait_for_completion)
WaitTimeout_Never(p) ==
    /\ pc[p] = "wait" /\ cmd[p] \in done /\ cmd[p] \notin completed
    /\ pc' = [pc EXCEPT ![p] = "tout"]
    /\ UNCHANGED <<mgrVars, slotVars, cmd, busVars, histVars>>

\* wait_for_completion_timeout returned 0 ...
WaitTimeout(p) ==
    /\ pc[p] = "wait" /\ cmd[p] \notin completed
    /\ pc' = [pc EXCEPT ![p] = "tout"]
    /\ UNCHANGED <<mgrVars, slotVars, cmd, busVars, histVars>>

\* cmd_complete: the completion is signalled only when nothing is awaited.
CmdComplete(c) ==
    /\ done' = done \cup {c}
    /\ completed' = IF c \in waitCfm' THEN completed ELSE completed \cup {c}
    /\ UNCHANGED <<cmds, queue_sz>>

\* mutant: a timeout leaves the manager in service
TimedOut_NoCrash(p) ==
    LET c == cmd[p] IN
    /\ pc[p] = "tout"
    /\ UNCHANGED waitCfm
    /\ IF c \in done THEN UNCHANGED <<done, completed, cmds, queue_sz>> ELSE CmdComplete(c)
    /\ pc' = [pc EXCEPT ![p] = IF p = Worker THEN "scan" ELSE "idle"]
    /\ cmd' = [cmd EXCEPT ![p] = NoCmd]
    /\ UNCHANGED <<state, work, used, kind, waitPush, busVars, histVars>>

\* ... and, under the lock, the manager is CRASHED.  The command stays in the
\* list: with WAIT_CFM set cmd_complete does not signal it.
TimedOut(p) ==
    LET c == cmd[p] IN
    /\ pc[p] = "tout"
    /\ state' = "CRASHED"
    /\ UNCHANGED waitCfm
    /\ IF c \in done THEN UNCHANGED <<done, completed, cmds, queue_sz>> ELSE CmdComplete(c)
    /\ pc' = [pc EXCEPT ![p] = IF p = Worker THEN "scan" ELSE "idle"]
    /\ cmd' = [cmd EXCEPT ![p] = NoCmd]
    /\ UNCHANGED <<work, used, kind, waitPush, busVars, histVars>>

-----------------------------------------------------------------------------
(* The transmit thread and the firmware *)

\* sdio_bustx_thread up to aicwf_sdio_tx_msg; it ends when the bus is down.
TxThreadWake ==
    /\ tpc = "idle" /\ bustx_trgg > 0
    /\ bustx_trgg' = bustx_trgg - 1
    /\ tpc' = IF bus = "down" THEN "gone" ELSE IF cmd_txstate THEN "msg" ELSE "idle"
    /\ UNCHANGED <<mgrVars, slotVars, procVars, bus, cmd_buf, cmd_txstate, fw, unsent, histVars>>

Received == IF cmd_buf.c # NoCmd THEN Append(fw, cmd_buf) ELSE fw

\* aicwf_sdio_tx_msg: sent; or lost by the bus (cmd_txstate is cleared all the
\* same); or refused by flow control (cmd_txstate stays set).
TxMsg ==
    /\ tpc = "msg"
    /\ tpc' = "idle"
    /\ \/ cmd_txstate' = FALSE /\ unsent' = FALSE /\ fw' = Received
       \/ BusFaults /\ cmd_txstate' = FALSE /\ unsent' = FALSE /\ fw' = fw
       \/ BusFaults /\ UNCHANGED <<cmd_txstate, unsent, fw>>
    /\ UNCHANGED <<mgrVars, slotVars, procVars, bus, cmd_buf, bustx_trgg, histVars>>

\* mutant: does not ask whether the command waits for a confirmation, and
\* takes the newest
Matching_Newest(k) ==
    LET m == {i \in DOMAIN cmds : kind[cmds[i]] = k}
    IN  IF m = {} THEN NoCmd ELSE cmds[Max(m)]

\* The command a confirmation of kind k is matched with: the first in the
\* list with this reqid that waits for a confirmation.
Matching(k) ==
    LET m == {i \in DOMAIN cmds : kind[cmds[i]] = k /\ cmds[i] \in waitCfm}
    IN  IF m = {} THEN NoCmd ELSE cmds[Min(m)]

\* The firmware confirms and cmd_mgr_msgind matches the confirmation.
MsgInd ==
    /\ fw # <<>>
    /\ fw' = Tail(fw)
    /\ LET c == Matching(Head(fw).k) IN
       IF c = NoCmd
       THEN UNCHANGED <<waitCfm, done, completed, cmds, queue_sz>>
       ELSE waitCfm' = waitCfm \ {c} /\ CmdComplete(c)
    /\ UNCHANGED <<state, work, used, kind, waitPush, procVars, bus, cmd_buf,
                   cmd_txstate, bustx_trgg, tpc, unsent, histVars>>

\* The firmware never answers.
FwIgnores ==
    /\ FwLoss /\ fw # <<>>
    /\ fw' = Tail(fw)
    /\ UNCHANGED <<mgrVars, slotVars, procVars, bus, cmd_buf, cmd_txstate,
                   bustx_trgg, tpc, unsent, histVars>>

-----------------------------------------------------------------------------
(* Removal: aicwf_sdio_bus_stop, then rwnx_cmd_mgr_deinit *)

BusStop ==
    /\ WithRemove /\ bus = "up"
    /\ bus' = "down"
    /\ UNCHANGED <<mgrVars, slotVars, procVars, cmd_buf, cmd_txstate,
                   bustx_trgg, tpc, fw, unsent, histVars>>

\* cmd_mgr_drain unlinks and completes every command; the memset that ends
\* rwnx_cmd_mgr_deinit is the state DEINIT.  Skipped when CRASHED.
Deinit ==
    /\ bus = "down" /\ state = "INITED"
    /\ cmds' = <<>>
    /\ queue_sz' = 0
    /\ completed' = completed \cup Range(cmds)
    /\ state' = "DEINIT"
    /\ UNCHANGED <<work, used, kind, waitPush, waitCfm, done, procVars, busVars, histVars>>

-----------------------------------------------------------------------------
ProcStep(p) ==
    \/ Queue(p) \/ QueueRefused(p) \/ Wake(p) \/ SetCmdTx(p) \/ BusTxMsg(p)
    \/ WaitDone(p) \/ CmdFree(p) \/ WaitTimeout(p) \/ TimedOut(p)

Next ==
    \/ \E p \in Callers, k \in Kinds : SendMsg(p, k)
    \/ \E p \in Procs : ProcStep(p)
    \/ WorkStart \/ WorkScan
    \/ TxThreadWake \/ TxMsg
    \/ MsgInd \/ FwIgnores
    \/ BusStop \/ Deinit

Spec == Init /\ [][Next]_vars

\* Runnable threads run, the workqueue runs queued work, a started wait times
\* out if nothing else ends it, the transmit thread handles its completions
\* and the firmware answers what it does not ignore.  Nobody has to send.
Fairness ==
    /\ \A p \in Procs : WF_vars(ProcStep(p))
    /\ WF_vars(WorkStart) /\ WF_vars(WorkScan)
    /\ WF_vars(TxThreadWake) /\ WF_vars(TxMsg)
    /\ WF_vars(MsgInd)

FairSpec == Spec /\ Fairness

-----------------------------------------------------------------------------
(* Properties *)

\* Types of the command slots, the flags and the transmit buffer (struct rwnx_cmd
\* and struct rwnx_cmd_mgr).
TypeOK ==
    /\ cmds \in Seq(Slots) /\ Len(cmds) <= MaxQueued
    /\ queue_sz \in Int
    /\ state \in {"INITED", "CRASHED", "DEINIT"}
    /\ work \in BOOLEAN
    /\ used \subseteq Slots
    /\ kind \in [Slots -> AllKinds \cup {"none"}]
    /\ {waitPush, waitCfm, done, completed} \subseteq SUBSET Slots
    /\ pc \in [Procs -> {"idle", "queue", "scan", "settx", "txmsg", "wait", "free", "drop", "tout",
                        "wake", "wakedefer"}]
    /\ cmd \in [Procs -> Slots \cup {NoCmd}]
    /\ bus \in {"up", "down"}
    /\ cmd_buf \in [c : Slots \cup {NoCmd}, k : AllKinds \cup {"none"}]
    /\ cmd_txstate \in BOOLEAN
    /\ bustx_trgg \in Nat
    /\ tpc \in {"idle", "msg", "gone"}
    /\ fw \in Seq([c : Slots, k : AllKinds])
    /\ {unsent, overwritten, unlinked2} \subseteq BOOLEAN

\* Commands pushed to the firmware and not confirmed yet.
InFlight == {c \in Range(cmds) : c \in waitCfm /\ c \notin waitPush}

\* At most one queued command is with the firmware, although pushes are made
\* by callers and by the work item and the deferral test (rwnx_cmds.c:185)
\* reads only the last command of the list.
OneInFlight == Cardinality(InFlight) <= 1

\* No message is overwritten in the one command buffer before it is sent:
\* aicwf_set_cmd_tx (rwnx_cmds.c:549) has no lock.  It holds among confirmed
\* commands, by OneInFlight; a message sent with reqcfm = 0 breaks it.
MessagesNotOverwritten == ~overwritten

\* Every confirmation on its way completes the command it answers: the match
\* by reqid (rwnx_cmds.c:453) never picks another command of the same kind.  (A
\* message with reqcfm = 0 can make a command go out twice and breaks this.)
CfmMatches ==
    \A i \in DOMAIN fw : Matching(fw[i].k) \in {NoCmd, fw[i].c}

\* Until the manager crashes, a command that a confirmation would copy into
\* its caller's buffer still has that caller waiting: e2a_msg points into the
\* caller's stack frame (memcpy at rwnx_cmds.c:467).
CfmBufferLive ==
    state = "INITED" =>
        \A c \in Range(cmds) : kind[c] = "cfm" /\ c \in waitCfm =>
            \E p \in Procs : cmd[p] = c /\ pc[p] \in {"settx", "txmsg", "wait", "tout"}

\* A taken slot is in the list or in the hands of a process, so cmd_array
\* (unchecked NULL at rwnx_msg_tx.c:358) always has a slot for a caller.  A
\* command that has left the list and is not freed yet counts as well, the
\* worker's too (rwnx_cmds.c:404): hence one slot more than queued commands and
\* callers.
ArrayNeverExhausted ==
    bus = "up" =>
        /\ used = Range(cmds) \cup {cmd[p] : p \in {q \in Procs : cmd[q] # NoCmd}}
        /\ \A p \in Callers : pc[p] = "idle" => used # Slots

\* list_del runs once per command as long as the driver is not being removed
\* (the waiters of the commands cmd_mgr_drain has unlinked unlink them again).
UnlinkedOnce == unlinked2 => bus = "down"

\* The slots of cmd_array through queueing, waiting, time-outs and removal: each
\* is typed, counted, linked once, and one command at most is with the firmware.
SlotInv == TypeOK /\ OneInFlight /\ ArrayNeverExhausted /\ UnlinkedOnce

\* A deferred command is pushed, or the manager goes out of service: the
\* worker is woken only by the command before it (or by being alone).
DeferredPushed ==
    \A c \in Slots : []<>(c \notin waitPush \/ state # "INITED")

\* A caller or the worker that waits for a confirmation stops waiting,
\* whatever the firmware leaves unanswered and the bus loses.
WaiterReturns == \A p \in Procs : []<>(pc[p] # "wait")

\* The commands not pushed yet are the end of the list.
PushedCount == Cardinality({i \in DOMAIN cmds : cmds[i] \notin waitPush})

\* The manager implements a first-in first-out line with one command in
\* flight (module AicCmdLine).
Line == INSTANCE AicCmdLine WITH
            Commands <- Slots,
            waiting  <- SubSeq(cmds, PushedCount + 1, Len(cmds)),
            flight   <- InFlight,
            open     <- state = "INITED"

ImplementsLine == Line!Spec
=============================================================================
