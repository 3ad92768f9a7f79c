-------------------------------- MODULE AicTx --------------------------------
(***************************************************************************)
(* The SDIO transmit path of the AIC8800 driver                            *)
(* (src/aic8800-vendor/aic8800_fdrv/aicwf_sdio.c, aicwf_txrxif.c):         *)
(* senders put frames on a queue by priority, the bustx thread takes them  *)
(* off, gathers them into one aggregate and writes it when the firmware    *)
(* has buffers, and sends the pending command before data.                 *)
(*                                                                         *)
(* The decision that a frame is the last one, so that the aggregate must   *)
(* go out, rests on the counter tx_pktcnt; the test for an empty queue     *)
(* reads hi_prio and the lists without txqlock.                            *)
(*                                                                         *)
(* A frame is a number in the order of arrival.  The command is only a     *)
(* flag here; module AicCmd says what is in its buffer.                    *)
(***************************************************************************)
EXTENDS Integers, Sequences, FiniteSets, FiniteSetsExt

CONSTANTS
    Senders,     \* threads in aicwf_sdio_bus_txdata
    NumPrio,     \* priorities are 0..NumPrio - 1
    QMax,        \* TXQLEN
    Thresh,      \* DATA_FLOW_CTRL_THRESH
    AggrMax,     \* tx_aggr_counter
    FwMax,       \* buffers of the firmware
    MaxFrames,   \* bound: frames sent
    MaxCmds,     \* bound: commands sent
    FcMsgFails,  \* may flow control for a command run out of retries?
    FullMsg,     \* is a command exactly one firmware buffer long?
    WithStop     \* may the bus be stopped?

ASSUME TxAssumption ==
    /\ {NumPrio, QMax, AggrMax} \subseteq Nat \ {0}
    /\ {Thresh, FwMax, MaxFrames, MaxCmds} \subseteq Nat
    /\ FwMax > Thresh
    /\ {FcMsgFails, FullMsg, WithStop} \subseteq BOOLEAN
    /\ "none" \notin Senders

Prios == 0..(NumPrio - 1)
NoSender == "none"
NoFrame  == [f |-> 0, p |-> 0]

VARIABLES
    \* struct frame_queue txq
    queuelist,   \* frames waiting, by priority
    qcnt,
    hi_prio,
    txqlock,     \* the sender that holds the lock, or NoSender
    \* senders
    spc,         \* "idle", "queued", "prio", "unlocked"
    sending,     \* the frame and its priority
    cpc,         \* bus_txmsg: "idle", "set"
    \* tx_priv
    tx_pktcnt,
    aggr,        \* the frames in the aggregate
    fw_avail,    \* fw_avail_bufcnt
    cmd_txstate,
    bustx_trgg,  \* completions not yet consumed
    tpc,         \* the bustx thread
    bus,         \* "up", "down", "gone" (flushed)
    \* the firmware and history
    fw,          \* free buffers of the firmware, negative when overrun
    frames,      \* frames accepted so far
    ncmds,       \* commands handed over so far
    sent,        \* highest frame sent, by priority
    staleCmds,   \* commands sent since fw_avail was read
    refused      \* has flow control refused the pending command?

queueVars  == <<queuelist, qcnt, hi_prio, txqlock>>
senderVars == <<spc, sending, cpc>>
txVars     == <<tx_pktcnt, aggr, fw_avail, cmd_txstate>>
histVars   == <<frames, ncmds, sent, staleCmds, refused>>
vars == <<queueVars, senderVars, txVars, bustx_trgg, tpc, bus, fw, histVars>>

Init ==
    /\ queuelist = [p \in Prios |-> <<>>] /\ qcnt = 0 /\ hi_prio = 0
    /\ txqlock = NoSender
    /\ spc = [s \in Senders |-> "idle"] /\ sending = [s \in Senders |-> NoFrame]
    /\ cpc = "idle"
    /\ tx_pktcnt = 0 /\ aggr = <<>> /\ fw_avail = 0 /\ cmd_txstate = FALSE
    /\ bustx_trgg = 0 /\ tpc = "wait" /\ bus = "up"
    /\ fw = FwMax
    /\ frames = 0 /\ ncmds = 0 /\ sent = [p \in Prios |-> 0] /\ staleCmds = 0
    /\ refused = FALSE

-----------------------------------------------------------------------------
(* Senders: aicwf_sdio_bus_txdata *)

\* aicwf_frame_enq under txqlock, up to __skb_queue_tail and qcnt++ ...
TxData(s, p) ==
    /\ spc[s] = "idle" /\ bus = "up" /\ txqlock = NoSender /\ frames < MaxFrames
    /\ Len(queuelist[p]) < QMax /\ qcnt < QMax
    /\ frames' = frames + 1
    /\ queuelist' = [queuelist EXCEPT ![p] = Append(@, frames + 1)]
    /\ qcnt' = qcnt + 1
    /\ txqlock' = s
    /\ sending' = [sending EXCEPT ![s] = [f |-> frames + 1, p |-> p]]
    /\ spc' = [spc EXCEPT ![s] = "queued"]
    /\ UNCHANGED <<hi_prio, cpc, txVars, bustx_trgg, tpc, bus, fw, ncmds, sent, staleCmds,
                   refused>>

\* mutant: never raises hi_prio
RaisePrio_Never(s) ==
    /\ spc[s] = "queued"
    /\ spc' = [spc EXCEPT ![s] = "prio"]
    /\ UNCHANGED <<queueVars, sending, cpc, txVars, bustx_trgg, tpc, bus, fw, histVars>>

\* ... then hi_prio ...
RaisePrio(s) ==
    /\ spc[s] = "queued"
    /\ hi_prio' = Max({hi_prio, sending[s].p})
    /\ spc' = [spc EXCEPT ![s] = "prio"]
    /\ UNCHANGED <<queuelist, qcnt, txqlock, sending, cpc, txVars, bustx_trgg, tpc, bus,
                   fw, histVars>>

\* ... then the count, and the lock is given back ...
CountFrame(s) ==
    /\ spc[s] = "prio"
    /\ tx_pktcnt' = tx_pktcnt + 1
    /\ txqlock' = NoSender
    /\ spc' = [spc EXCEPT ![s] = "unlocked"]
    /\ UNCHANGED <<queuelist, qcnt, hi_prio, sending, cpc, aggr, fw_avail, cmd_txstate,
                   bustx_trgg, tpc, bus, fw, histVars>>

\* ... and the thread is triggered.
Trigger(s) ==
    /\ spc[s] = "unlocked"
    /\ bustx_trgg' = bustx_trgg + 1
    /\ spc' = [spc EXCEPT ![s] = "idle"]
    /\ sending' = [sending EXCEPT ![s] = NoFrame]
    /\ UNCHANGED <<queueVars, cpc, txVars, tpc, bus, fw, histVars>>

\* aicwf_sdio_bus_txmsg: the command is announced, then the thread triggered
\* (not if the bus has been stopped in between).
TxMsg ==
    /\ cpc = "idle" /\ bus = "up" /\ ncmds < MaxCmds
    /\ cmd_txstate' = TRUE
    /\ ncmds' = ncmds + 1
    /\ refused' = FALSE
    /\ cpc' = "set"
    /\ UNCHANGED <<queueVars, spc, sending, tx_pktcnt, aggr, fw_avail, bustx_trgg, tpc,
                   bus, fw, frames, sent, staleCmds>>

TriggerMsg ==
    /\ cpc = "set"
    /\ bustx_trgg' = IF bus = "up" THEN bustx_trgg + 1 ELSE bustx_trgg
    /\ cpc' = "idle"
    /\ UNCHANGED <<queueVars, spc, sending, txVars, tpc, bus, fw, histVars>>

-----------------------------------------------------------------------------
(* The bustx thread: sdio_bustx_thread, aicwf_sdio_tx_process *)

Goto(l) == tpc' = l
threadElse == <<senderVars, bus>>   \* what the thread never writes

\* A trigger is consumed; with the bus down the thread ends, without work
\* it waits again.
Woken ==
    /\ tpc = "wait" /\ bustx_trgg > 0
    /\ bustx_trgg' = bustx_trgg - 1
    /\ Goto(IF bus # "up" THEN "gone"
            ELSE IF tx_pktcnt > 0 \/ cmd_txstate THEN "cmd" ELSE "wait")
    /\ UNCHANGED <<queueVars, txVars, threadElse, fw, histVars>>

\* aicwf_sdio_tx_msg for the buffers it reads: too few, or a command as long
\* as all of them, and it gives up and leaves cmd_txstate set.  This is the
\* branch of AIC8801, AIC8800D80 (the chip of this board) and AIC8800D80X2;
\* AIC8800DC sends without asking (aicwf_sdio.c:1858-1862), any other chip is
\* always refused (1863-1867).
MsgFits == fw > (IF FullMsg THEN 1 ELSE 0)

\* The command, if there is one and the bus is still up.  A command that does
\* not fit is tried again (when FcMsgFails, the retries may run out first).
SendCmd ==
    /\ tpc = "cmd"
    /\ IF cmd_txstate /\ MsgFits
       THEN /\ cmd_txstate' = FALSE
            /\ fw' = fw - 1
            /\ staleCmds' = staleCmds + 1
       ELSE /\ cmd_txstate => FcMsgFails \/ fw > 0
            /\ UNCHANGED <<cmd_txstate, fw, staleCmds>>
    /\ refused' = (cmd_txstate /\ ~ MsgFits)
    /\ Goto("data")
    /\ UNCHANGED <<queueVars, tx_pktcnt, aggr, fw_avail, threadElse, bustx_trgg, frames,
                   ncmds, sent>>

\* aicwf_is_framequeue_empty, without txqlock
Empty == \A p \in 0..hi_prio : queuelist[p] = <<>>

\* The flow control register: an overrun firmware has no buffer to report.
FcReg == Max({fw, 0})

\* aicwf_sdio_flow_ctrl, if read
FlowCtrl(read) ==
    IF read THEN fw_avail' = (IF FcReg > Thresh THEN FcReg ELSE -FcReg) /\ staleCmds' = 0
    ELSE UNCHANGED <<fw_avail, staleCmds>>

\* The data part takes txctl_sema; flow control is read if a frame waits.
StartData ==
    /\ tpc = "data"
    /\ FlowCtrl(~ Empty)
    /\ Goto("loop")
    /\ UNCHANGED <<queueVars, tx_pktcnt, aggr, cmd_txstate, threadElse, bustx_trgg, fw,
                   frames, ncmds, sent, refused>>

\* The while loop's test: leaves when the queue looks empty or the bus is down.
LoopTest ==
    /\ tpc = "loop"
    /\ Goto(IF Empty \/ bus # "up" THEN "wait" ELSE "body")
    /\ UNCHANGED <<queueVars, txVars, threadElse, bustx_trgg, fw, histVars>>

\* No buffers: leave for a pending command, or ask the firmware again.
AwaitBuffers ==
    /\ tpc = "body" /\ fw_avail <= Thresh
    /\ FlowCtrl(~ cmd_txstate)
    /\ Goto(IF cmd_txstate THEN "wait" ELSE "loop")
    /\ UNCHANGED <<queueVars, tx_pktcnt, aggr, cmd_txstate, threadElse, bustx_trgg, fw,
                   frames, ncmds, sent, refused>>

\* mutant: lets the aggregate take all buffers of the firmware
Full_NoThresh(a) == Len(a) = fw_avail \/ Len(a) >= AggrMax

\* The aggregate holds all the firmware can take.
Full(a) == Len(a) = fw_avail - Thresh \/ Len(a) >= AggrMax

\* mutant: takes the newest frame of a priority
Dequeue_Newest(p) ==
    /\ queuelist' = [queuelist EXCEPT ![p] = SubSeq(@, 1, Len(@) - 1)]
    /\ aggr' = Append(aggr, [f |-> queuelist[p][Len(queuelist[p])], p |-> p])

\* aicwf_frame_dequeue and aicwf_sdio_aggr
Dequeue(p) ==
    /\ queuelist' = [queuelist EXCEPT ![p] = Tail(@)]
    /\ aggr' = Append(aggr, [f |-> Head(queuelist[p]), p |-> p])

\* aicwf_sdio_send up to the aggregation of the next frame: the highest
\* priority at or below hi_prio that has one.  (Only this thread takes frames
\* off, so the frame the loop saw is still there.)  A waiting command makes it
\* txnow.
TakeFrame ==
    LET p == Max({r \in 0..hi_prio : queuelist[r] # <<>>}) IN
    /\ tpc = "body" /\ fw_avail > Thresh /\ txqlock = NoSender
    /\ Dequeue(p)
    /\ hi_prio' = p
    /\ qcnt' = qcnt - 1
    /\ Goto(IF cmd_txstate THEN "now" ELSE "more")
    /\ UNCHANGED <<txqlock, tx_pktcnt, fw_avail, cmd_txstate, threadElse, bustx_trgg, fw, histVars>>

\* aicwf_sdio_aggr_send
AggrSend ==
    /\ aggr' = <<>>
    /\ fw_avail' = fw_avail - Len(aggr)
    /\ fw' = fw - Len(aggr)
    /\ sent' = [p \in Prios |-> Max({sent[p]} \cup {aggr[i].f : i \in
                                     {j \in DOMAIN aggr : aggr[j].p = p}})]

\* mutant: sends only when the aggregate is full or a command waits
LastFrame_Never == FALSE

\* No other frame is queued.
LastFrame == tx_pktcnt = 1

\* mutant: a frame that stays in the aggregate is not counted off
FrameTaken_NoCount ==
    /\ tpc \in {"now", "more"}
    /\ IF LastFrame \/ tpc = "now" \/ Full(aggr)
       THEN AggrSend /\ tx_pktcnt' = tx_pktcnt - 1
       ELSE UNCHANGED <<aggr, fw_avail, fw, sent, tx_pktcnt>>
    /\ Goto(IF tpc = "now" THEN "wait" ELSE "loop")
    /\ UNCHANGED <<queueVars, cmd_txstate, threadElse, bustx_trgg, frames, ncmds,
                   staleCmds, refused>>

\* The rest of aicwf_sdio_send: the aggregate goes out when this was the last
\* frame, a command waits or it is full; then the frame is counted off.
FrameTaken ==
    /\ tpc \in {"now", "more"}
    /\ IF LastFrame \/ tpc = "now" \/ Full(aggr)
       THEN AggrSend
       ELSE UNCHANGED <<aggr, fw_avail, fw, sent>>
    /\ tx_pktcnt' = tx_pktcnt - 1
    /\ Goto(IF tpc = "now" THEN "wait" ELSE "loop")
    /\ UNCHANGED <<queueVars, cmd_txstate, threadElse, bustx_trgg, frames, ncmds,
                   staleCmds, refused>>

-----------------------------------------------------------------------------
(* Bus stop and the firmware *)

\* aicwf_sdio_bus_stop: the state, ...
BusDown ==
    /\ WithStop /\ bus = "up"
    /\ bus' = "down"
    /\ UNCHANGED <<queueVars, senderVars, txVars, bustx_trgg, tpc, fw, histVars>>

\* ... then, once the thread has left the section under txctl_sema, the queue
\* is flushed (hi_prio and tx_pktcnt stay), and aicwf_bus_deinit triggers the
\* thread for the last time.
BusFlush ==
    /\ bus = "down" /\ tpc \notin {"loop", "body", "now", "more"}
    /\ queuelist' = [p \in Prios |-> <<>>]
    /\ qcnt' = 0
    /\ bus' = "gone"
    /\ bustx_trgg' = bustx_trgg + 1
    /\ UNCHANGED <<hi_prio, txqlock, senderVars, txVars, tpc, fw, histVars>>

\* The firmware has sent a frame and frees its buffer.
FwFree ==
    /\ fw < FwMax
    /\ fw' = fw + 1
    /\ UNCHANGED <<queueVars, senderVars, txVars, bustx_trgg, tpc, bus, histVars>>

-----------------------------------------------------------------------------
Sender(s) == (\E p \in Prios : TxData(s, p)) \/ RaisePrio(s) \/ CountFrame(s) \/ Trigger(s)

Thread == \/ Woken \/ SendCmd \/ StartData \/ LoopTest
          \/ AwaitBuffers \/ TakeFrame \/ FrameTaken

Next ==
    \/ \E s \in Senders : Sender(s)
    \/ TxMsg \/ TriggerMsg
    \/ Thread
    \/ BusDown \/ BusFlush \/ FwFree

Spec == Init /\ [][Next]_vars

\* The thread runs, whoever has begun to hand over a frame or a command goes
\* on, and the firmware gets rid of its frames.
Fairness ==
    /\ WF_vars(Thread) /\ WF_vars(TriggerMsg) /\ WF_vars(FwFree)
    /\ \A s \in Senders : WF_vars(RaisePrio(s) \/ CountFrame(s) \/ Trigger(s))

FairSpec == Spec /\ Fairness

-----------------------------------------------------------------------------
(* Properties *)

QueuedFrames == UNION {{queuelist[p][i] : i \in DOMAIN queuelist[p]} : p \in Prios}

\* Types of the queues, the credits and the aggregate buffer (struct aicwf_tx_priv).
TypeOK ==
    /\ queuelist \in [Prios -> Seq(1..MaxFrames)]
    /\ qcnt \in Nat
    /\ hi_prio \in Prios /\ txqlock \in Senders \cup {NoSender}
    /\ spc \in [Senders -> {"idle", "queued", "prio", "unlocked"}]
    /\ sending \in [Senders -> [f : 0..MaxFrames, p : Prios]]
    /\ cpc \in {"idle", "set"}
    /\ tx_pktcnt \in 0..MaxFrames
    /\ aggr \in Seq([f : 1..MaxFrames, p : Prios]) /\ Len(aggr) <= AggrMax
    /\ fw_avail \in (-Thresh)..FwMax
    /\ {cmd_txstate, refused} \subseteq BOOLEAN /\ bustx_trgg \in Nat
    /\ tpc \in {"wait", "cmd", "data", "loop", "body", "now", "more", "gone"}
    /\ bus \in {"up", "down", "gone"}
    /\ fw \in Int /\ fw <= FwMax
    /\ frames \in 0..MaxFrames /\ ncmds \in 0..MaxCmds
    /\ sent \in [Prios -> 0..MaxFrames] /\ staleCmds \in 0..MaxCmds

\* qcnt counts the frames on all lists (aicwf_frame_queue_penq, _pdeq, _flush).
QueueCount == qcnt = Cardinality(QueuedFrames)

\* tx_pktcnt counts the queued frames and the one in the thread's hands, up to
\* a sender that has queued its frame and not yet counted it: the test for the
\* last frame (aicwf_sdio.c:2138) looks at the queue as it is.
PktCount ==
    bus # "gone" =>
        tx_pktcnt + Cardinality({s \in Senders : spc[s] \in {"queued", "prio"}})
            = Cardinality(QueuedFrames) + (IF tpc \in {"now", "more"} THEN 1 ELSE 0)

\* Types and the counters together: the counts of qcnt and tx_pktcnt survive
\* every interleaving of senders, thread and bus stop within their types.
CountInv == TypeOK /\ QueueCount /\ PktCount

\* The thread never goes to sleep on an unsent aggregate: no frame stays in
\* the aggregation buffer until some later frame happens to come
\* (aicwf_sdio_send, aicwf_sdio.c:2065).
AggrSent == tpc = "wait" /\ bus = "up" => aggr = <<>>

Quiet == /\ tpc = "wait" /\ bustx_trgg = 0 /\ bus = "up"
         /\ cpc = "idle" /\ \A s \in Senders : spc[s] = "idle"

\* When the thread sleeps with no trigger left and nobody about to trigger it,
\* frames wait only behind a command that could not be sent, and a command
\* waits only because flow control refused it: no wake-up is lost although
\* the emptiness test reads hi_prio and the lists without the lock
\* (aicwf_is_framequeue_empty, aicwf_txrxif.c:737).  Nor is an aggregate left.
NoStranding ==
    /\ AggrSent
    /\ Quiet => /\ QueuedFrames = {} \/ cmd_txstate
                /\ cmd_txstate => refused

\* Frames of one priority leave in the order they came (aicwf_frame_enq at the
\* tail, aicwf_frame_dequeue at the head): along the aggregate and then the
\* list the numbers rise, above the highest one sent.
InOrder ==
    \A p \in Prios :
        LET q == queuelist[p]
            inAggr == {i \in DOMAIN aggr : aggr[i].p = p}
        IN  /\ \A i \in inAggr : aggr[i].f > sent[p]
            /\ \A k \in DOMAIN q : q[k] > sent[p]
            /\ \A i, j \in inAggr : i < j => aggr[i].f < aggr[j].f
            /\ \A i \in inAggr : \A k \in DOMAIN q : aggr[i].f < q[k]
            /\ \A k, l \in DOMAIN q : k < l => q[k] < q[l]

\* No step overruns the firmware while at most DATA_FLOW_CTRL_THRESH commands
\* have gone out since its buffers were counted.  fw_avail can be stale: it
\* is only read afresh when a frame waits at the start of a round
\* (aicwf_sdio.c:1930), and commands use buffers too; the threshold is the
\* room for them.  On the chips whose commands ask for a buffer (MsgFits).
FwNotOverrun == [][fw >= 0 /\ staleCmds <= Thresh => fw' >= 0]_vars

\* Whatever was queued is sent in the end, unless the bus is stopped or flow
\* control refuses the pending command for good: data waits behind it.
Drained ==
    \/ []<>(QueuedFrames = {} /\ aggr = <<>> /\ ~ cmd_txstate)
    \/ <>[](bus # "up") \/ <>[]cmd_txstate
=============================================================================
