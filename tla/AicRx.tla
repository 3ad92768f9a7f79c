-------------------------------- MODULE AicRx --------------------------------
(***************************************************************************)
(* The SDIO receive path of the AIC8800 driver                             *)
(* (src/aic8800-vendor/aic8800_fdrv/aicwf_sdio.c, aicwf_txrxif.c): the     *)
(* interrupt handler reads a block of packets and queues it, the busrx     *)
(* thread takes blocks off and handles their packets.  The handler wakes   *)
(* the thread only when its block is the one block counted by rx_cnt.      *)
(*                                                                         *)
(* A packet is data, a confirmation of a command, or an indication.  The   *)
(* handler of an indication may send a command itself, and it runs on the  *)
(* very thread that takes confirmations (rwnx_rx_sm_external_auth_         *)
(* required_ind).  Commands are reduced to who waits for a confirmation;   *)
(* module AicCmd has the rest.                                             *)
(***************************************************************************)
EXTENDS Integers, Sequences, FiniteSets

CONSTANTS
    Blocks,      \* the blocks the firmware sends: sequences of packet kinds
    QMax,        \* MAX_RXQLEN
    MaxBlocks,   \* bound: blocks received and confirmations owed
    AllocFails,  \* may kmalloc fail for a message?
    IndSends     \* may an indication handler send a command?

Kinds == {"data", "cfm", "ind"}

ASSUME RxAssumption ==
    /\ Blocks \subseteq Seq(Kinds) \ {<<>>}
    /\ QMax \in Nat \ {0} /\ MaxBlocks \in Nat
    /\ {AllocFails, IndSends} \subseteq BOOLEAN

VARIABLES
    rxq,         \* blocks queued
    rx_cnt,
    busrx_trgg,  \* completions not yet consumed
    ipc,         \* the interrupt handler: "idle", "queued", "counted"
    rpc,         \* the busrx thread: "wait", "loop", "parse", "cfmwait", "gone"
    blk,         \* what is left of the block in its hands
    up,          \* bus_if->state # BUS_DOWN_ST
    waiter,      \* who waits for a confirmation: "none", "app", "rx"
    answers,     \* confirmations the firmware has yet to send
    crashed,     \* a wait timed out: RWNX_CMD_MGR_STATE_CRASHED
    received,    \* blocks received so far
    uncounted,   \* blocks dropped without rx_cnt being counted down
    cfmDropped   \* has a full queue dropped a block with a confirmation?

rxVars  == <<rxq, rx_cnt, busrx_trgg>>
histVars == <<received, uncounted, cfmDropped>>
cmdVars == <<waiter, answers, crashed>>
vars == <<rxVars, ipc, rpc, blk, up, cmdVars, histVars>>

Init ==
    /\ rxq = <<>> /\ rx_cnt = 0 /\ busrx_trgg = 0
    /\ ipc = "idle" /\ rpc = "wait" /\ blk = <<>> /\ up = TRUE
    /\ waiter = "none" /\ answers = 0 /\ crashed = FALSE
    /\ received = 0 /\ uncounted = 0 /\ cfmDropped = FALSE

-----------------------------------------------------------------------------
(* The interrupt handler: aicwf_sdio_hal_irqhandler *)

Cfms(b) == Cardinality({i \in DOMAIN b : b[i] = "cfm"})

\* A block is read and queued (aicwf_sdio_enq_rxpkt), or dropped if the queue
\* is full.  The firmware confirms only what it was sent.
Irq(b) ==
    /\ ipc = "idle" /\ up /\ Cfms(b) <= answers
    /\ received + answers - Cfms(b) < MaxBlocks
    /\ received' = received + 1
    /\ answers' = answers - Cfms(b)
    /\ IF Len(rxq) < QMax
       THEN rxq' = Append(rxq, b) /\ ipc' = "queued" /\ UNCHANGED cfmDropped
       ELSE /\ rxq' = rxq /\ ipc' = "counted"
            /\ cfmDropped' = (cfmDropped \/ Cfms(b) > 0)
    /\ UNCHANGED <<rx_cnt, busrx_trgg, rpc, blk, up, waiter, crashed, uncounted>>

\* The queued block is counted, after the lock is released.
IrqCount ==
    /\ ipc = "queued"
    /\ rx_cnt' = rx_cnt + 1
    /\ ipc' = "counted"
    /\ UNCHANGED <<rxq, busrx_trgg, rpc, blk, up, cmdVars, histVars>>

\* The thread is woken for the first block.
IrqWake ==
    /\ ipc = "counted"
    /\ busrx_trgg' = IF rx_cnt = 1 THEN busrx_trgg + 1 ELSE busrx_trgg
    /\ ipc' = "idle"
    /\ UNCHANGED <<rxq, rx_cnt, rpc, blk, up, cmdVars, histVars>>

-----------------------------------------------------------------------------
(* The busrx thread: sdio_busrx_thread, aicwf_process_rxframes *)

Woken ==
    /\ rpc = "wait" /\ busrx_trgg > 0
    /\ busrx_trgg' = busrx_trgg - 1
    /\ rpc' = IF up THEN "loop" ELSE "gone"
    /\ UNCHANGED <<rxq, rx_cnt, ipc, blk, up, cmdVars, histVars>>

\* Under rxqlock: the next block, or back to sleep.
TakeBlock ==
    /\ rpc = "loop"
    /\ IF rxq = <<>>
       THEN rpc' = "wait" /\ UNCHANGED <<rxq, blk>>
       ELSE rpc' = "parse" /\ blk' = Head(rxq) /\ rxq' = Tail(rxq)
    /\ UNCHANGED <<rx_cnt, busrx_trgg, ipc, up, cmdVars, histVars>>

\* Data is handed to the receive path (module AicReorder), or skipped when no
\* buffer can be had.
HandleData ==
    /\ rpc = "parse" /\ blk # <<>> /\ Head(blk) = "data"
    /\ blk' = Tail(blk)
    /\ UNCHANGED <<rxVars, ipc, rpc, up, cmdVars, histVars>>

\* A confirmation ends the wait it is for; with the bus down it is ignored.
HandleCfm ==
    /\ rpc = "parse" /\ blk # <<>> /\ Head(blk) = "cfm"
    /\ waiter' = IF up THEN "none" ELSE waiter
    /\ blk' = Tail(blk)
    /\ UNCHANGED <<rxVars, ipc, rpc, up, answers, crashed, histVars>>

\* An indication whose handler sends nothing, or whose command is deferred
\* behind another one or refused.
HandleInd ==
    /\ rpc = "parse" /\ blk # <<>> /\ Head(blk) = "ind"
    /\ blk' = Tail(blk)
    /\ UNCHANGED <<rxVars, ipc, rpc, up, cmdVars, histVars>>

\* An indication whose handler sends a command on a quiet queue: it is pushed
\* at once, and the thread waits for the confirmation.
HandleIndSends ==
    /\ IndSends /\ rpc = "parse" /\ blk # <<>> /\ Head(blk) = "ind"
    /\ up /\ waiter = "none" /\ ~ crashed /\ received + answers < MaxBlocks
    /\ waiter' = "rx"
    /\ answers' = answers + 1
    /\ rpc' = "cfmwait"
    /\ UNCHANGED <<rxVars, ipc, blk, up, crashed, histVars>>

\* The wait in cmd_mgr_queue ends: confirmed by then, or timed out, long after
\* the firmware has answered (if the bus is up).
CfmWaitEnds ==
    /\ rpc = "cfmwait" /\ (waiter = "rx" => answers = 0 \/ ~ up)
    /\ crashed' = (crashed \/ waiter = "rx")
    /\ waiter' = "none"
    /\ rpc' = "parse"
    /\ blk' = Tail(blk)
    /\ UNCHANGED <<rxVars, ipc, up, answers, histVars>>

\* No memory for a message: the block is dropped and the thread goes back to
\* sleep without counting it down.
NoMemory ==
    /\ AllocFails /\ rpc = "parse" /\ blk # <<>> /\ Head(blk) # "data"
    /\ blk' = <<>>
    /\ rpc' = "wait"
    /\ uncounted' = uncounted + 1
    /\ UNCHANGED <<rxVars, ipc, up, cmdVars, received, cfmDropped>>

\* mutant: the block is not counted down
BlockDone_NoCount ==
    /\ rpc = "parse" /\ blk = <<>>
    /\ rpc' = "loop"
    /\ UNCHANGED <<rxVars, ipc, blk, up, cmdVars, histVars>>

\* mutant: the thread goes back to sleep after every block
BlockDone_Sleeps ==
    /\ rpc = "parse" /\ blk = <<>>
    /\ rx_cnt' = rx_cnt - 1
    /\ rpc' = "wait"
    /\ UNCHANGED <<rxq, busrx_trgg, ipc, blk, up, cmdVars, histVars>>

BlockDone ==
    /\ rpc = "parse" /\ blk = <<>>
    /\ rx_cnt' = rx_cnt - 1
    /\ rpc' = "loop"
    /\ UNCHANGED <<rxq, busrx_trgg, ipc, blk, up, cmdVars, histVars>>

-----------------------------------------------------------------------------
(* Callers of rwnx_send_msg on other threads, and the end of the driver *)

\* A command is sent and its confirmation waited for.
AppSend ==
    /\ waiter = "none" /\ up /\ ~ crashed /\ received + answers < MaxBlocks
    /\ waiter' = "app"
    /\ answers' = answers + 1
    /\ UNCHANGED <<rxVars, ipc, rpc, blk, up, crashed, histVars>>

\* aicwf_sdio_bus_stop, and aicwf_rx_deinit wakes the thread for its exit.  It
\* does not ask whether a command is outstanding.
BusDown ==
    /\ up
    /\ up' = FALSE
    /\ busrx_trgg' = busrx_trgg + 1
    /\ UNCHANGED <<rxq, rx_cnt, ipc, rpc, blk, cmdVars, histVars>>

-----------------------------------------------------------------------------
Thread ==
    \/ Woken \/ TakeBlock \/ HandleData \/ HandleCfm \/ HandleInd \/ HandleIndSends
    \/ CfmWaitEnds \/ NoMemory \/ BlockDone

Next ==
    \/ \E b \in Blocks : Irq(b)
    \/ IrqCount \/ IrqWake
    \/ Thread
    \/ AppSend \/ BusDown

Spec == Init /\ [][Next]_vars

\* The thread and the interrupt handler run, and the firmware sends the
\* confirmations it owes.
Fairness ==
    /\ WF_vars(Thread) /\ WF_vars(IrqCount \/ IrqWake)
    /\ \A b \in Blocks : WF_vars(Cfms(b) > 0 /\ Irq(b))

FairSpec == Spec /\ Fairness

-----------------------------------------------------------------------------
(* Properties *)

\* Types of the receive queue, the wait counters and the threads.
TypeOK ==
    /\ rxq \in Seq(Blocks) /\ Len(rxq) <= QMax
    /\ rx_cnt \in -1..MaxBlocks /\ busrx_trgg \in 0..(MaxBlocks + 1)
    /\ ipc \in {"idle", "queued", "counted"}
    /\ rpc \in {"wait", "loop", "parse", "cfmwait", "gone"}
    /\ blk \in Seq(Kinds)
    /\ {up, crashed, cfmDropped} \subseteq BOOLEAN
    /\ waiter \in {"none", "app", "rx"} /\ answers \in 0..MaxBlocks
    /\ received \in 0..MaxBlocks /\ uncounted \in 0..MaxBlocks

\* rx_cnt counts the blocks queued or in the thread's hands, up to one the
\* handler has queued and not yet counted, and those a failed allocation left
\* counted: it may be negative for a moment, and never drifts otherwise.
RxCount ==
    rx_cnt + (IF ipc = "queued" THEN 1 ELSE 0)
        = Len(rxq) + (IF rpc \in {"parse", "cfmwait"} THEN 1 ELSE 0) + uncounted

\* Types and the counter together: rx_cnt stays exact through full queues, failed
\* allocations and the end of the driver.
CountInv == TypeOK /\ RxCount

\* The thread never sleeps over a queued block with nobody about to wake it,
\* although the block is counted after the queue's lock is released and the
\* thread may have handled it by then (aicwf_sdio.c:2776, :2910) - unless an
\* allocation for a message has failed (aicwf_txrxif.c:418): from then on
\* rx_cnt stays too high, "rx_cnt == 1" is never seen again and every later
\* block waits for ever.
NoLostWakeup ==
    rpc = "wait" /\ busrx_trgg = 0 /\ ipc = "idle" /\ up => rxq = <<>> \/ uncounted > 0

\* A firmware that answers every command never sees the command manager
\* crash: a command is confirmed before anybody gives it up.
NotCrashed == ~ crashed

\* A command sent on another thread is confirmed in the end, unless its
\* confirmation was in a block that found the queue full (aicwf_txrxif.c:817),
\* a failed allocation has stopped reception, or the bus was stopped meanwhile:
\* then the confirmation is ignored (aicwf_txrxif.c:425) and only the time-out
\* of the wait (module AicCmd) ends it.
AppAnswered == waiter = "app" ~> waiter = "none" \/ cfmDropped \/ uncounted > 0 \/ ~ up
=============================================================================
