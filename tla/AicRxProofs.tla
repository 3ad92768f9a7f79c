----------------------------- MODULE AicRxProofs ------------------------------
(***************************************************************************)
(* Proofs about AicRx for every set of blocks, every queue length and      *)
(* every number of blocks received.                                        *)
(***************************************************************************)
EXTENDS AicRx, FiniteSetTheorems, SequenceTheorems, TLAPS

InHand == IF rpc \in {"parse", "cfmwait"} THEN 1 ELSE 0

\* Blocks known to the driver were received, answers and blocks share the bound,
\* and each trigger belongs to a block or to the stop of the bus.
Bounds ==
    /\ Len(rxq) + InHand + uncounted <= received
    /\ received + answers <= MaxBlocks
    /\ busrx_trgg + (IF ipc = "idle" THEN 0 ELSE 1) <= received + (IF up THEN 0 ELSE 1)

\* A thread that waits inside an indication still has that indication in hand.
WaitsInBlock == rpc = "cfmwait" => blk # <<>>

\* While the thread sleeps over a block with no trigger left, that block is the
\* only one and the interrupt handler is still at it: it will see rx_cnt = 1.
SleepsOverOne ==
    rpc = "wait" /\ busrx_trgg = 0 /\ up /\ uncounted = 0 /\ rxq # <<>>
        => ipc # "idle" /\ Len(rxq) = 1

RxInv == TypeOK /\ RxCount /\ Bounds /\ WaitsInBlock /\ SleepsOverOne

\* The confirmations in a block are a finite number of its packets.
LEMMA CfmsType ==
    ASSUME NEW b \in Blocks
    PROVE  Cfms(b) \in Nat
<1>1. b \in Seq(Kinds)
  BY RxAssumption
<1>2. IsFiniteSet(DOMAIN b)
  BY <1>1, LenProperties, FS_Interval
<1>3. {i \in DOMAIN b : b[i] = "cfm"} \subseteq DOMAIN b
  OBVIOUS
<1> QED
  BY <1>2, <1>3, FS_Subset, FS_CardinalityType DEF Cfms

\* The state after aicwf_rx_init satisfies the invariant.
LEMMA RxInit == Init => RxInv
<1> SUFFICES ASSUME Init PROVE RxInv
  OBVIOUS
<1>1. <<>> \in Seq(Blocks) /\ <<>> \in Seq(Kinds) /\ Len(rxq) = 0
  BY EmptySeq DEF Init
<1>2. TypeOK
  <2>1. {up, crashed, cfmDropped} \subseteq BOOLEAN
    BY DEF Init
  <2>2. rxq \in Seq(Blocks) /\ Len(rxq) <= QMax /\ blk \in Seq(Kinds)
    BY <1>1, RxAssumption DEF Init
  <2> QED
    BY <2>1, <2>2, RxAssumption DEF Init, TypeOK
<1>3. RxCount /\ Bounds
  BY <1>1, RxAssumption DEF Init, RxCount, Bounds, InHand
<1>4. WaitsInBlock /\ SleepsOverOne
  BY DEF Init, WaitsInBlock, SleepsOverOne
<1> QED
  BY <1>2, <1>3, <1>4 DEF RxInv

\* The interrupt handler queues a block, or drops it.
LEMMA IrqStep ==
    ASSUME RxInv, NEW b \in Blocks, Irq(b)
    PROVE  RxInv'
<1> USE RxAssumption DEF RxInv, TypeOK, InHand
<1>1. Cfms(b) \in Nat /\ Cfms(b) <= answers /\ received + answers - Cfms(b) < MaxBlocks
  BY CfmsType DEF Irq
<1>2. Len(rxq) \in Nat /\ (rxq # <<>> => Len(rxq) > 0) /\ (rxq = <<>> => Len(rxq) = 0)
  BY LenProperties, EmptySeq
<1>3. /\ ipc = "idle" /\ up /\ received' = received + 1 /\ answers' = answers - Cfms(b)
      /\ UNCHANGED <<rx_cnt, busrx_trgg, rpc, blk, up, waiter, crashed, uncounted>>
  BY DEF Irq
<1>4. CASE Len(rxq) < QMax
  <2>1. rxq' = Append(rxq, b) /\ ipc' = "queued" /\ cfmDropped' = cfmDropped
    BY <1>4 DEF Irq
  <2>2. rxq' \in Seq(Blocks) /\ Len(rxq') = Len(rxq) + 1
    BY <2>1, AppendProperties
  <2>3. TypeOK'
    BY <1>1, <1>2, <1>3, <1>4, <2>1, <2>2 DEF RxCount, Bounds
  <2>4. RxCount'
    BY <1>2, <1>3, <2>1, <2>2 DEF RxCount
  <2>4a. Bounds'
    BY <1>1, <1>2, <1>3, <2>1, <2>2, SMTT(30) DEF Bounds
  <2>5. WaitsInBlock' /\ SleepsOverOne'
    BY <1>2, <1>3, <2>1, <2>2 DEF WaitsInBlock, SleepsOverOne
  <2> QED
    BY <2>3, <2>4, <2>4a, <2>5
<1>5. CASE ~(Len(rxq) < QMax)
  <2>1. rxq' = rxq /\ ipc' = "counted" /\ cfmDropped' \in BOOLEAN
    BY <1>5 DEF Irq
  <2>2. TypeOK' /\ RxCount' /\ Bounds'
    BY <1>1, <1>2, <1>3, <2>1, SMTT(30) DEF RxCount, Bounds
  <2>3. WaitsInBlock' /\ SleepsOverOne'
    BY <1>2, <1>3, <1>5, <2>1 DEF WaitsInBlock, SleepsOverOne
  <2> QED
    BY <2>2, <2>3
<1> QED
  BY <1>4, <1>5

\* The busrx thread takes a block or goes back to sleep over an empty queue.
LEMMA TakeStep ==
    ASSUME RxInv, TakeBlock
    PROVE  RxInv'
<1> USE RxAssumption DEF RxInv, TypeOK, InHand
<1>1. rpc = "loop" /\ UNCHANGED <<rx_cnt, busrx_trgg, ipc, up, cmdVars, histVars>>
  BY DEF TakeBlock
<1>2. CASE rxq = <<>>
  <2>1. rpc' = "wait" /\ rxq' = rxq /\ blk' = blk
    BY <1>2 DEF TakeBlock
  <2> QED
    BY <1>1, <1>2, <2>1, LenProperties, EmptySeq
       DEF RxCount, Bounds, WaitsInBlock, SleepsOverOne, cmdVars, histVars
<1>3. CASE rxq # <<>>
  <2>1. rpc' = "parse" /\ blk' = Head(rxq) /\ rxq' = Tail(rxq)
    BY <1>3 DEF TakeBlock
  <2>2. Head(rxq) \in Blocks /\ Tail(rxq) \in Seq(Blocks) /\ Len(Tail(rxq)) = Len(rxq) - 1
        /\ Len(rxq) \in Nat
    BY <1>3, HeadTailProperties, LenProperties
  <2>3. blk' \in Seq(Kinds)
    BY <2>1, <2>2
  <2> QED
    BY <1>1, <2>1, <2>2, <2>3 DEF RxCount, Bounds, WaitsInBlock, SleepsOverOne, cmdVars, histVars
<1> QED
  BY <1>2, <1>3

\* Handling a packet keeps the block in hand.
LEMMA PacketStep ==
    ASSUME RxInv, HandleData \/ HandleCfm \/ HandleInd \/ HandleIndSends \/ CfmWaitEnds
    PROVE  RxInv'
<1> USE RxAssumption DEF RxInv, TypeOK, InHand
<1>1. /\ rpc \in {"parse", "cfmwait"} /\ blk # <<>> /\ rpc' \in {"parse", "cfmwait"}
      /\ rpc' = "cfmwait" => blk' = blk
      /\ UNCHANGED <<rxVars, ipc, up, histVars>>
  BY DEF HandleData, HandleCfm, HandleInd, HandleIndSends, CfmWaitEnds, WaitsInBlock
<1>2. Tail(blk) \in Seq(Kinds)
  BY <1>1, HeadTailProperties
<1>3. blk' \in Seq(Kinds)
  BY <1>1, <1>2 DEF HandleData, HandleCfm, HandleInd, HandleIndSends, CfmWaitEnds
<1>4. Len(rxq) \in Nat
  BY LenProperties
<1>5. waiter' \in {"none", "app", "rx"} /\ crashed' \in BOOLEAN
  BY DEF HandleData, HandleCfm, HandleInd, HandleIndSends, CfmWaitEnds, cmdVars
<1>6. answers' \in 0..MaxBlocks /\ received + answers' <= MaxBlocks
  BY <1>4 DEF HandleData, HandleCfm, HandleInd, HandleIndSends, CfmWaitEnds, Bounds, cmdVars, histVars
<1> QED
  BY <1>1, <1>3, <1>4, <1>5, <1>6 DEF RxCount, Bounds, WaitsInBlock, SleepsOverOne, rxVars, histVars

\* Every step preserves the invariant.
LEMMA RxStep == RxInv /\ [Next]_vars => RxInv'
<1> SUFFICES ASSUME RxInv, [Next]_vars PROVE RxInv'
  OBVIOUS
<1>1. Len(rxq) \in Nat /\ (rxq # <<>> => Len(rxq) > 0) /\ <<>> \in Seq(Kinds)
  BY LenProperties, EmptySeq DEF RxInv, TypeOK
<1> USE <1>1, RxAssumption
    DEF RxInv, TypeOK, RxCount, Bounds, WaitsInBlock, SleepsOverOne, InHand, rxVars, cmdVars, histVars
<1>2. ASSUME IrqCount PROVE RxInv'
  BY <1>2 DEF IrqCount
<1>3. ASSUME IrqWake PROVE RxInv'
  <2>0. busrx_trgg' \in 0..(MaxBlocks + 1)
    BY <1>3 DEF IrqWake
  <2>1. TypeOK'
    BY <1>3, <2>0 DEF IrqWake
  <2>2. RxCount'
    BY <1>3 DEF IrqWake
  <2>3. Bounds'
    BY <1>3 DEF IrqWake
  <2>4. WaitsInBlock' /\ SleepsOverOne'
    <3>1. rpc = "wait" /\ uncounted = 0 /\ Len(rxq) = 1 => rx_cnt = 1
      BY <1>3 DEF IrqWake
    <3>2. busrx_trgg' = 0 => busrx_trgg = 0 /\ rx_cnt # 1
      BY <1>3 DEF IrqWake
    <3> QED
      BY <1>3, <3>1, <3>2 DEF IrqWake
  <2> QED
    BY <2>1, <2>2, <2>3, <2>4
<1>4. ASSUME Woken PROVE RxInv'
  BY <1>4 DEF Woken
<1>5. ASSUME NoMemory PROVE RxInv'
  BY <1>5 DEF NoMemory
<1>6. ASSUME BlockDone PROVE RxInv'
  BY <1>6 DEF BlockDone
<1>7. ASSUME AppSend PROVE RxInv'
  BY <1>7 DEF AppSend
<1>8. ASSUME BusDown PROVE RxInv'
  <2>0. busrx_trgg' \in 0..(MaxBlocks + 1)
    BY <1>8 DEF BusDown
  <2>1. TypeOK'
    BY <1>8, <2>0 DEF BusDown
  <2>2. RxCount'
    BY <1>8 DEF BusDown
  <2>3. Bounds'
    BY <1>8 DEF BusDown
  <2>4. WaitsInBlock' /\ SleepsOverOne'
    BY <1>8 DEF BusDown
  <2> QED
    BY <2>1, <2>2, <2>3, <2>4
<1>9. CASE UNCHANGED vars
  BY <1>9 DEF vars
<1> QED
  BY <1>2, <1>3, <1>4, <1>5, <1>6, <1>7, <1>8, <1>9, IrqStep, TakeStep, PacketStep DEF Next, Thread

\* rx_cnt stays exact, and every count in its range, for any queue length and
\* any number of blocks, full queues, failed allocations and the stop included.
THEOREM RxCountExact == Spec => []CountInv
<1>1. RxInv => CountInv
  BY DEF RxInv, CountInv
<1> QED
  BY <1>1, RxInit, RxStep, PTL DEF Spec

\* The busrx thread never sleeps over a queued block with nobody about to wake
\* it, unless a failed allocation has left rx_cnt too high.
THEOREM RxWakeupNotLost == Spec => []NoLostWakeup
<1>1. RxInv => NoLostWakeup
  BY DEF RxInv, TypeOK, SleepsOverOne, NoLostWakeup
<1> QED
  BY <1>1, RxInit, RxStep, PTL DEF Spec

=============================================================================
