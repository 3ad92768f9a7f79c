----------------------------- MODULE AicTxProofs -----------------------------
(***************************************************************************)
(* Proofs about AicTx for any number of senders, priorities, frames and    *)
(* buffers: the counters, the order of the frames, no stranded frame and   *)
(* no overrun of the firmware.                                             *)
(*                                                                         *)
(* The inductive invariant says who holds txqlock, why a frame above       *)
(* hi_prio can only be the one its sender is still queueing, and why an    *)
(* aggregate left open for the next frame always has one to come.          *)
(***************************************************************************)
EXTENDS AicTx, LeastElement, FiniteSetTheorems, SequenceTheorems, TLAPS

\* The parts of the type invariant.
ListType ==
    /\ queuelist \in [Prios -> Seq(1..MaxFrames)]
    /\ aggr \in Seq([f : 1..MaxFrames, p : Prios])
    /\ sent \in [Prios -> 0..MaxFrames]

SenderType ==
    /\ txqlock \in Senders \cup {NoSender}
    /\ spc \in [Senders -> {"idle", "queued", "prio", "unlocked"}]
    /\ sending \in [Senders -> [f : 0..MaxFrames, p : Prios]]

StepType ==
    /\ cpc \in {"idle", "set"} /\ bus \in {"up", "down", "gone"}
    /\ tpc \in {"wait", "cmd", "data", "loop", "body", "now", "more", "gone"}
    /\ cmd_txstate \in BOOLEAN /\ refused \in BOOLEAN

NumType ==
    /\ qcnt \in Nat /\ hi_prio \in Prios /\ tx_pktcnt \in 0..MaxFrames
    /\ fw_avail \in (-Thresh)..FwMax /\ bustx_trgg \in Nat
    /\ fw \in Int /\ fw <= FwMax
    /\ frames \in 0..MaxFrames /\ ncmds \in 0..MaxCmds /\ staleCmds \in 0..MaxCmds

\* The sender that holds txqlock has queued its frame and not counted it.
Lock == \A s \in Senders : spc[s] \in {"queued", "prio"} <=> txqlock = s

Pend == IF txqlock = NoSender THEN 0 ELSE 1
Hand == IF tpc \in {"now", "more"} THEN 1 ELSE 0

\* tx_pktcnt against qcnt; after the flush tx_pktcnt is not reset.
Count ==
    /\ bus # "gone" => tx_pktcnt + Pend = qcnt + Hand
    /\ bus # "gone" /\ Pend = 1 => qcnt >= 1
    /\ bus = "gone" => qcnt = 0 /\ tpc \notin {"body", "now", "more"}
    /\ tx_pktcnt + Pend <= frames

\* No frame is on the lists twice, and none has a number to come.
Distinct ==
    /\ \A p, q \in Prios : \A i \in DOMAIN queuelist[p], j \in DOMAIN queuelist[q] :
           queuelist[p][i] = queuelist[q][j] => p = q /\ i = j
    /\ \A p \in Prios : \A i \in DOMAIN queuelist[p] : queuelist[p][i] <= frames

\* A list above hi_prio holds one frame only, which its sender has queued and
\* is about to raise hi_prio for.
Hidden ==
    \A p \in Prios : p > hi_prio /\ queuelist[p] # <<>> =>
        /\ txqlock # NoSender /\ spc[txqlock] = "queued"
        /\ sending[txqlock].p = p /\ Len(queuelist[p]) = 1

\* An open aggregate in the loop has a frame to come; outside the section it
\* is only left when the bus goes down.
Open ==
    /\ tpc = "body" => ~ Empty
    /\ tpc = "loop" /\ aggr # <<>> => ~ Empty
    /\ tpc \in {"cmd", "data"} => aggr = <<>>
    /\ tpc = "wait" /\ bus = "up" => aggr = <<>>
    /\ tpc = "now" => cmd_txstate

\* What the aggregate holds fits the buffers counted, and DATA_FLOW_CTRL_THRESH
\* of them are kept back.
Room ==
    /\ Len(aggr) <= AggrMax
    /\ tpc \in {"loop", "body"} /\ aggr # <<>> =>
           Len(aggr) < fw_avail - Thresh /\ Len(aggr) < AggrMax
    /\ tpc \in {"now", "more"} => Len(aggr) <= fw_avail - Thresh

\* The buffers counted are there, up to the commands sent since.
Credit ==
    /\ fw_avail > 0 => fw >= fw_avail - staleCmds
    /\ staleCmds + (IF cmd_txstate THEN 1 ELSE 0) <= ncmds

\* Whoever has left a frame or a command will trigger the thread, or has.
Wake ==
    /\ tpc = "wait" /\ bus = "up" /\ qcnt > 0 /\ ~ cmd_txstate =>
           bustx_trgg > 0 \/ \E s \in Senders : spc[s] # "idle"
    /\ cmd_txstate /\ bus = "up" => refused \/ cpc = "set" \/ bustx_trgg > 0 \/ tpc = "cmd"

\* No frame taken or sent has a number to come.
Past ==
    /\ \A i \in DOMAIN aggr : aggr[i].f <= frames
    /\ \A p \in Prios : sent[p] <= frames

TxInv ==
    /\ ListType /\ SenderType /\ StepType /\ NumType
    /\ QueueCount /\ Lock /\ Count /\ Distinct /\ Hidden /\ Open /\ Room
    /\ Credit /\ Wake /\ InOrder /\ Past

-----------------------------------------------------------------------------
(* The frames on a table of lists *)

Lists == [Prios -> Seq(1..MaxFrames)]
FramesOf(ql) == UNION {{ql[p][i] : i \in DOMAIN ql[p]} : p \in Prios}

\* What a frame on the lists is.
LEMMA FramesOfIn ==
    ASSUME NEW ql, NEW x
    PROVE  x \in FramesOf(ql) <=> \E p \in Prios : \E i \in DOMAIN ql[p] : x = ql[p][i]
  BY DEF FramesOf

\* The lists hold finitely many frames.
LEMMA FramesFinite ==
    ASSUME NEW ql \in Lists
    PROVE  /\ IsFiniteSet(FramesOf(ql)) /\ Cardinality(FramesOf(ql)) \in Nat
           /\ Cardinality(FramesOf(ql)) = 0 <=> FramesOf(ql) = {}
<1>1. ASSUME NEW x \in FramesOf(ql) PROVE x \in 1..MaxFrames
  <2>1. PICK p \in Prios : \E i \in DOMAIN ql[p] : x = ql[p][i]
    BY FramesOfIn
  <2>2. ql[p] \in Seq(1..MaxFrames)
    BY DEF Lists
  <2>3. PICK i \in DOMAIN ql[p] : x = ql[p][i]
    BY <2>1
  <2>4. i \in 1..Len(ql[p])
    BY <2>2
  <2> QED
    BY <2>2, <2>3, <2>4, ElementOfSeq
<1>2. FramesOf(ql) \in SUBSET (1..MaxFrames)
  BY <1>1
<1>3. IsFiniteSet(1..MaxFrames)
  BY FS_Interval, TxAssumption
<1>4. IsFiniteSet(FramesOf(ql))
  BY <1>2, <1>3, FS_Subset
<1> QED
  BY <1>4, FS_CardinalityType, FS_EmptySet

\* A frame put at the tail of one list joins the others.
LEMMA EnqueueFrames ==
    ASSUME NEW ql \in Lists, NEW p \in Prios, NEW x
    PROVE  FramesOf([ql EXCEPT ![p] = Append(@, x)]) = FramesOf(ql) \cup {x}
<1> DEFINE m == [ql EXCEPT ![p] = Append(@, x)]
<1>1. ql[p] \in Seq(1..MaxFrames) /\ p \in DOMAIN ql
  BY DEF Lists
<1>2. /\ DOMAIN m[p] = DOMAIN ql[p] \cup {Len(ql[p]) + 1}
      /\ m[p][Len(ql[p]) + 1] = x
      /\ \A i \in DOMAIN ql[p] : m[p][i] = ql[p][i]
  BY <1>1
<1>3. \A q \in Prios : q # p => m[q] = ql[q]
  BY DEF Lists
<1> HIDE DEF m
<1>4. ASSUME NEW y PROVE y \in FramesOf(m) <=> y \in FramesOf(ql) \cup {x}
  <2>1. ASSUME y \in FramesOf(m) PROVE y \in FramesOf(ql) \cup {x}
    <3>1. PICK q \in Prios : \E i \in DOMAIN m[q] : y = m[q][i]
      BY <2>1, FramesOfIn
    <3>2. PICK i \in DOMAIN m[q] : y = m[q][i]
      BY <3>1
    <3>3. y = x \/ (i \in DOMAIN ql[q] /\ y = ql[q][i])
      BY <1>2, <1>3, <3>2
    <3> QED
      BY <3>3, FramesOfIn, Zenon
  <2>2. ASSUME y = x PROVE y \in FramesOf(m)
    <3>1. Len(ql[p]) + 1 \in DOMAIN m[p]
      BY <1>2
    <3> QED
      BY <1>2, <2>2, <3>1, FramesOfIn, Zenon
  <2>3. ASSUME y \in FramesOf(ql) PROVE y \in FramesOf(m)
    <3>1. PICK q \in Prios : \E i \in DOMAIN ql[q] : y = ql[q][i]
      BY <2>3, FramesOfIn
    <3>2. PICK i \in DOMAIN ql[q] : y = ql[q][i]
      BY <3>1
    <3>3. i \in DOMAIN m[q] /\ y = m[q][i]
      BY <1>2, <1>3, <3>2
    <3> QED
      BY <3>3, FramesOfIn, Zenon
  <2> QED
    BY <2>1, <2>2, <2>3
<1> QED
  BY <1>4 DEF m

DistinctIn(ql) ==
    \A p, q \in Prios : \A i \in DOMAIN ql[p], j \in DOMAIN ql[q] :
        ql[p][i] = ql[q][j] => p = q /\ i = j

\* A list with one more element.
LEMMA AppendOf ==
    ASSUME NEW S, NEW q \in Seq(S), NEW x \in S
    PROVE  /\ Append(q, x) \in Seq(S) /\ Len(Append(q, x)) = Len(q) + 1 /\ Len(q) \in Nat
           /\ DOMAIN q = 1..Len(q) /\ DOMAIN Append(q, x) = 1..(Len(q) + 1)
           /\ \A i \in DOMAIN q : Append(q, x)[i] = q[i]
           /\ Append(q, x)[Len(q) + 1] = x
  OBVIOUS

\* The tail of a list.
LEMMA TailOf ==
    ASSUME NEW S, NEW q \in Seq(S), q # <<>>
    PROVE  /\ Tail(q) \in Seq(S) /\ Len(Tail(q)) = Len(q) - 1 /\ 1 \in DOMAIN q
           /\ Head(q) = q[1] /\ Head(q) \in S
           /\ DOMAIN Tail(q) = 1..(Len(q) - 1) /\ DOMAIN q = 1..Len(q)
           /\ \A i \in DOMAIN Tail(q) : i + 1 \in DOMAIN q /\ Tail(q)[i] = q[i + 1]
  OBVIOUS

\* A frame taken off the head of one list leaves the others.
LEMMA DequeueFrames ==
    ASSUME NEW ql \in Lists, NEW p \in Prios, ql[p] # <<>>, DistinctIn(ql)
    PROVE  /\ Head(ql[p]) \in FramesOf(ql)
           /\ FramesOf([ql EXCEPT ![p] = Tail(@)]) = FramesOf(ql) \ {Head(ql[p])}
<1> DEFINE m == [ql EXCEPT ![p] = Tail(@)]
<1>1. ql[p] \in Seq(1..MaxFrames) /\ p \in DOMAIN ql
  BY DEF Lists
<1>2. m[p] = Tail(ql[p]) /\ \A q \in Prios : q # p => m[q] = ql[q]
  BY <1>1 DEF Lists
<1>3. /\ 1 \in DOMAIN ql[p] /\ Head(ql[p]) = ql[p][1]
      /\ DOMAIN m[p] = 1..(Len(ql[p]) - 1) /\ DOMAIN ql[p] = 1..Len(ql[p])
      /\ \A i \in DOMAIN m[p] : i + 1 \in DOMAIN ql[p] /\ m[p][i] = ql[p][i + 1]
      /\ Len(ql[p]) \in Nat
  <2>1. ql[p] # <<>>
    OBVIOUS
  <2> QED
    BY <1>1, <1>2, <2>1, TailOf, LenProperties
<1> HIDE DEF m
<1>4. Head(ql[p]) \in FramesOf(ql)
  BY <1>3, FramesOfIn, Zenon
<1>5. ASSUME NEW y \in FramesOf(m) PROVE y \in FramesOf(ql) /\ y # Head(ql[p])
  <2>1. PICK q \in Prios : \E i \in DOMAIN m[q] : y = m[q][i]
    BY FramesOfIn
  <2>2. PICK i \in DOMAIN m[q] : y = m[q][i]
    BY <2>1
  <2>3. CASE q = p
    <3>1. i + 1 \in DOMAIN ql[p] /\ y = ql[p][i + 1] /\ i + 1 # 1
      BY <1>3, <2>2, <2>3
    <3>2. y # ql[p][1]
      BY <1>3, <3>1 DEF DistinctIn
    <3> QED
      BY <1>3, <3>1, <3>2, FramesOfIn, Zenon
  <2>4. CASE q # p
    <3>1. i \in DOMAIN ql[q] /\ y = ql[q][i]
      BY <1>2, <2>2, <2>4
    <3>2. y # ql[p][1]
      BY <1>3, <3>1, <2>4, Zenon DEF DistinctIn
    <3> QED
      BY <1>3, <3>1, <3>2, FramesOfIn, Zenon
  <2> QED
    BY <2>3, <2>4
<1>6. ASSUME NEW y \in FramesOf(ql), y # Head(ql[p]) PROVE y \in FramesOf(m)
  <2>1. PICK q \in Prios : \E i \in DOMAIN ql[q] : y = ql[q][i]
    BY FramesOfIn
  <2>2. PICK i \in DOMAIN ql[q] : y = ql[q][i]
    BY <2>1
  <2>3. CASE q = p
    <3>1. i # 1 /\ i \in 1..Len(ql[p])
      BY <1>3, <1>6, <2>2, <2>3
    <3>2. i - 1 \in 1..(Len(ql[p]) - 1) /\ (i - 1) + 1 = i
      BY <1>3, <3>1
    <3>3. i - 1 \in DOMAIN m[p] /\ y = m[p][i - 1]
      BY <1>3, <2>2, <2>3, <3>2
    <3> QED
      BY <3>3, FramesOfIn, Zenon
  <2>4. CASE q # p
    <3>1. i \in DOMAIN m[q] /\ y = m[q][i]
      BY <1>2, <2>2, <2>4
    <3> QED
      BY <3>1, FramesOfIn, Zenon
  <2> QED
    BY <2>3, <2>4
<1>7. FramesOf(m) = FramesOf(ql) \ {Head(ql[p])}
  BY <1>5, <1>6, Zenon
<1> QED
  BY <1>4, <1>7 DEF m

\* One list with one frame, and the others empty: one frame.
LEMMA OneFrame ==
    ASSUME NEW ql \in Lists, NEW p \in Prios, Len(ql[p]) = 1,
           \A q \in Prios : q # p => ql[q] = <<>>
    PROVE  Cardinality(FramesOf(ql)) = 1
<1>1. ql[p] \in Seq(1..MaxFrames) /\ DOMAIN ql[p] = {1}
  BY DEF Lists
<1>2. ASSUME NEW y PROVE y \in FramesOf(ql) <=> y = ql[p][1]
  <2>1. \A q \in Prios : q # p => DOMAIN ql[q] = {}
    OBVIOUS
  <2> QED
    BY <1>1, <2>1, FramesOfIn
<1>3. FramesOf(ql) = {ql[p][1]}
  BY <1>2, Zenon
<1> QED
  BY <1>3, FS_Singleton

\* Empty lists hold no frame.
LEMMA NoFrames ==
    ASSUME NEW ql, \A q \in Prios : ql[q] = <<>>
    PROVE  FramesOf(ql) = {} /\ Cardinality(FramesOf(ql)) = 0
<1>1. \A q \in Prios : DOMAIN ql[q] = {}
  OBVIOUS
<1>2. \A y : ~ (y \in FramesOf(ql))
  BY <1>1, FramesOfIn, Zenon
<1>3. FramesOf(ql) = {}
  BY <1>2, Zenon
<1> QED
  BY <1>3, FS_EmptySet

-----------------------------------------------------------------------------
(* What the operators of the model return *)

\* The frames of the aggregate have numbers and priorities.
LEMMA AggrTypes ==
    ASSUME ListType
    PROVE  \A i \in DOMAIN aggr : aggr[i].f \in 1..MaxFrames /\ aggr[i].f \in Nat
                                   /\ aggr[i].p \in Prios
<1> SUFFICES ASSUME NEW i \in DOMAIN aggr
             PROVE  aggr[i].f \in 1..MaxFrames /\ aggr[i].p \in Prios
  OBVIOUS
<1>1. aggr \in Seq([f : 1..MaxFrames, p : Prios])
  BY DEF ListType
<1>2. i \in 1..Len(aggr)
  BY <1>1
<1>3. aggr[i] \in [f : 1..MaxFrames, p : Prios]
  BY <1>1, <1>2, ElementOfSeq
<1> QED
  BY <1>3

\* The register never reads below zero.
LEMMA FcRegValue ==
    ASSUME fw \in Int
    PROVE  FcReg = IF fw >= 0 THEN fw ELSE 0
<1>1. PICK n \in Int : n = fw
  OBVIOUS
<1>2. Max({n, 0}) = IF n >= 0 THEN n ELSE 0
  BY MaxOfTwo
<1> QED
  BY <1>1, <1>2 DEF FcReg

\* hi_prio after a sender has raised it.
LEMMA RaisedPrio ==
    ASSUME NumType, SenderType, NEW s \in Senders
    PROVE  Max({hi_prio, sending[s].p}) =
               IF hi_prio >= sending[s].p THEN hi_prio ELSE sending[s].p
<1>1. hi_prio \in Int /\ sending[s].p \in Int
  BY DEF NumType, SenderType, Prios
<1>2. PICK a \in Int, b \in Int : a = hi_prio /\ b = sending[s].p
  BY <1>1
<1>3. Max({a, b}) = IF a >= b THEN a ELSE b
  BY MaxOfTwo
<1> QED
  BY <1>2, <1>3

HighList == Max({r \in 0..hi_prio : queuelist[r] # <<>>})

\* The list the thread takes from is the highest one it can see.
LEMMA HighListIs ==
    ASSUME NumType, ~ Empty
    PROVE  /\ HighList \in Prios /\ HighList <= hi_prio /\ queuelist[HighList] # <<>>
           /\ \A r \in 0..hi_prio : queuelist[r] # <<>> => r <= HighList
<1>1. hi_prio \in Nat /\ 0..hi_prio \subseteq Prios
  BY TxAssumption DEF NumType, Prios
<1>a. PICK N \in Nat : N = hi_prio
  BY <1>1
<1>2. PICK T : T = {r \in 0..hi_prio : queuelist[r] # <<>>}
  OBVIOUS
<1>3. T \subseteq 0..N /\ T # {}
  BY <1>a, <1>2 DEF Empty
<1>4. Max(T) \in T /\ \A y \in T : Max(T) >= y
  BY <1>3, MaxIsGreatest
<1>5. Max(T) = HighList
  BY <1>2 DEF HighList
<1>6. HighList \in T /\ \A y \in T : HighList >= y
  BY <1>4, <1>5
<1> QED
  BY <1>1, <1>2, <1>6

\* The senders between queueing and counting.
LEMMA PendCount ==
    ASSUME SenderType, Lock
    PROVE  Cardinality({s \in Senders : spc[s] \in {"queued", "prio"}}) = Pend
<1> DEFINE S == {s \in Senders : spc[s] \in {"queued", "prio"}}
<1>1. CASE txqlock = NoSender
  <2>1. S = {}
    BY <1>1, TxAssumption DEF Lock, NoSender
  <2> QED
    BY <1>1, <2>1, FS_EmptySet DEF Pend
<1>2. CASE txqlock # NoSender
  <2>1. txqlock \in Senders
    BY <1>2 DEF SenderType
  <2>2. S = {txqlock}
    BY <2>1 DEF Lock
  <2>3. Cardinality({txqlock}) = 1
    BY FS_Singleton
  <2> QED
    BY <1>2, <2>2, <2>3 DEF Pend
<1> QED
  BY <1>1, <1>2

\* qcnt and the lists.
LEMMA CountedFrames ==
    ASSUME ListType, QueueCount
    PROVE  (qcnt = 0 <=> QueuedFrames = {}) /\ qcnt = Cardinality(FramesOf(queuelist))
<1>1. queuelist \in Lists
  BY DEF ListType, Lists
<1>2. QueuedFrames = FramesOf(queuelist)
  BY Zenon DEF QueuedFrames, FramesOf
<1> QED
  BY <1>1, <1>2, FramesFinite DEF QueueCount

\* A counted frame is one the thread can see: the emptiness test without the
\* lock misses only the frame of a sender that still holds it.
LEMMA Visible ==
    ASSUME ListType, NumType, QueueCount, Hidden, Empty
    PROVE  qcnt <= Pend
<1>1. queuelist \in Lists
  BY DEF ListType, Lists
<1>2. qcnt = Cardinality(FramesOf(queuelist))
  BY CountedFrames
<1>3. \A q \in Prios : queuelist[q] # <<>> => q > hi_prio
  BY DEF Empty, NumType, Prios
<1>4. CASE \A q \in Prios : queuelist[q] = <<>>
  BY <1>2, <1>4, NoFrames DEF Pend
<1>5. CASE \E q \in Prios : queuelist[q] # <<>>
  <2>1. PICK q \in Prios : queuelist[q] # <<>>
    BY <1>5
  <2>2. txqlock # NoSender /\ sending[txqlock].p = q /\ Len(queuelist[q]) = 1
    BY <1>3, <2>1 DEF Hidden
  <2>3. \A r \in Prios : r # q => queuelist[r] = <<>>
    BY <1>3, <2>2 DEF Hidden
  <2>4. Cardinality(FramesOf(queuelist)) = 1
    BY <1>1, <2>2, <2>3, OneFrame
  <2> QED
    BY <1>2, <2>2, <2>4 DEF Pend
<1> QED
  BY <1>4, <1>5

-----------------------------------------------------------------------------
(* Every step keeps the invariant *)

\* A frame is queued: its number is new, and its list is above hi_prio only if
\* it was empty.
LEMMA EnqKeeps ==
    ASSUME TxInv, NEW s \in Senders, NEW p \in Prios, TxData(s, p)
    PROVE  TxInv'
<1> USE TxAssumption DEF TxInv, txVars, NoSender
<1>1. /\ queuelist[p] \in Seq(1..MaxFrames) /\ frames + 1 \in 1..MaxFrames
      /\ frames \in Nat /\ txqlock = NoSender
  BY DEF ListType, NumType, TxData
<1>2. /\ \A q \in Prios : q # p => queuelist'[q] = queuelist[q]
      /\ queuelist'[p] = Append(queuelist[p], frames + 1)
      /\ queuelist' \in [Prios -> Seq(1..MaxFrames)]
  BY <1>1 DEF ListType, TxData
<1>3. /\ Len(queuelist'[p]) = Len(queuelist[p]) + 1
      /\ Len(queuelist[p]) \in Nat /\ DOMAIN queuelist[p] = 1..Len(queuelist[p])
      /\ DOMAIN queuelist'[p] = 1..(Len(queuelist[p]) + 1)
      /\ \A i \in DOMAIN queuelist[p] : queuelist'[p][i] = queuelist[p][i]
      /\ queuelist'[p][Len(queuelist[p]) + 1] = frames + 1
  <2>1. PICK q \in Seq(1..MaxFrames), x \in 1..MaxFrames : q = queuelist[p] /\ x = frames + 1
    BY <1>1
  <2>2. queuelist'[p] = Append(q, x)
    BY <1>2, <2>1
  <2> QED
    BY <2>1, <2>2, AppendOf, SMTT(30)
<1>4. ASSUME NEW q \in Prios, NEW i \in DOMAIN queuelist'[q]
      PROVE  \/ i \in DOMAIN queuelist[q] /\ queuelist'[q][i] = queuelist[q][i]
             \/ q = p /\ i = Len(queuelist[p]) + 1 /\ queuelist'[q][i] = frames + 1
  <2>1. CASE q # p
    BY <1>2, <2>1
  <2>2. CASE q = p
    <3>1. i \in 1..Len(queuelist[p]) \/ i = Len(queuelist[p]) + 1
      BY <1>3, <2>2, SMTT(30)
    <3> QED
      BY <1>3, <2>2, <3>1
  <2> QED
    BY <2>1, <2>2
<1>5. \A q \in Prios : \A i \in DOMAIN queuelist[q] :
          queuelist[q][i] <= frames /\ queuelist[q][i] \in Nat
  BY DEF Distinct, ListType
<1>6. ListType' /\ SenderType'
  <2>1. ListType'
    BY <1>2 DEF TxData, ListType
  <2>2. txqlock' \in Senders \cup {NoSender}
    BY DEF TxData
  <2>3. spc' \in [Senders -> {"idle", "queued", "prio", "unlocked"}]
    BY DEF TxData, SenderType
  <2>4. [f |-> frames + 1, p |-> p] \in [f : 0..MaxFrames, p : Prios]
    BY <1>1
  <2>5. sending' \in [Senders -> [f : 0..MaxFrames, p : Prios]]
    BY <2>4 DEF TxData, SenderType
  <2> QED
    BY <2>1, <2>2, <2>3, <2>5 DEF SenderType
<1>7. StepType' /\ NumType' /\ Room' /\ Credit' /\ Wake'
  BY SMTT(30) DEF TxData, StepType, SenderType, NumType, Room, Credit, Wake
<1>8. QueueCount'
  <2>1. PICK x : x = frames + 1
    OBVIOUS
  <2>2. PICK ql \in Lists : ql = queuelist
    BY DEF ListType, Lists
  <2>3. x \notin FramesOf(ql)
    BY <1>1, <1>5, <2>1, <2>2, FramesOfIn
  <2>4. queuelist' = [ql EXCEPT ![p] = Append(@, x)]
    BY <2>1, <2>2 DEF TxData
  <2>5. QueuedFrames' = FramesOf(queuelist') /\ QueuedFrames = FramesOf(ql)
    BY <2>2 DEF QueuedFrames, FramesOf
  <2>6. QueuedFrames' = FramesOf(ql) \cup {x}
    BY <2>4, <2>5, EnqueueFrames
  <2>7. Cardinality(FramesOf(ql) \cup {x}) = Cardinality(FramesOf(ql)) + 1
    BY <2>3, FramesFinite, FS_AddElement
  <2> QED
    BY <2>5, <2>6, <2>7 DEF TxData, QueueCount
<1>9. Lock'
  BY <1>1 DEF TxData, Lock, SenderType
<1>10. Count'
  BY <1>1, SMTT(30) DEF TxData, Count, Pend, Hand, NumType
<1>11. Distinct'
  <2>1. ASSUME NEW q \in Prios, NEW r \in Prios,
               NEW i \in DOMAIN queuelist'[q], NEW j \in DOMAIN queuelist'[r],
               queuelist'[q][i] = queuelist'[r][j]
        PROVE  q = r /\ i = j
    BY <1>1, <1>4, <1>5, <2>1 DEF Distinct
  <2>2. ASSUME NEW q \in Prios, NEW i \in DOMAIN queuelist'[q]
        PROVE  queuelist'[q][i] <= frames'
    BY <1>1, <1>4, <1>5, <2>2, SMTT(30) DEF TxData
  <2> QED
    BY <2>1, <2>2 DEF Distinct
<1>12. Hidden'
  <2> SUFFICES ASSUME NEW q \in Prios, q > hi_prio, queuelist'[q] # <<>>
               PROVE  spc'[s] = "queued" /\ sending'[s].p = q /\ Len(queuelist'[q]) = 1
    BY DEF Hidden, TxData
  <2>1. queuelist[q] = <<>>
    BY <1>1 DEF Hidden
  <2>2. q = p
    BY <1>2, <2>1
  <2> QED
    BY <1>3, <2>1, <2>2 DEF TxData, SenderType
<1>13. Open'
  <2>1. \A q \in Prios : queuelist[q] # <<>> => queuelist'[q] # <<>>
    BY <1>1, <1>2
  <2>2. ~ Empty => ~ Empty'
    <3>1. 0..hi_prio \subseteq Prios /\ hi_prio' = hi_prio
      BY SMTT(30) DEF TxData, NumType, Prios
    <3> QED
      BY <2>1, <3>1 DEF Empty
  <2> QED
    BY <2>2 DEF Open, TxData
<1>14. Past'
  <2>1. /\ \A i \in DOMAIN aggr : aggr[i].f \in Nat
        /\ \A q \in Prios : sent[q] \in Nat
    BY AggrTypes DEF ListType
  <2>2. frames' = frames + 1 /\ aggr' = aggr /\ sent' = sent
    BY DEF TxData
  <2> QED
    BY <1>1, <2>1, <2>2 DEF Past
<1>15. InOrder'
  <2> SUFFICES ASSUME NEW q \in Prios
               PROVE  /\ \A k \in DOMAIN queuelist'[q] : queuelist'[q][k] > sent[q]
                      /\ \A i \in DOMAIN aggr : aggr[i].p = q =>
                             \A k \in DOMAIN queuelist'[q] : aggr[i].f < queuelist'[q][k]
                      /\ \A k, l \in DOMAIN queuelist'[q] :
                             k < l => queuelist'[q][k] < queuelist'[q][l]
    BY DEF InOrder, TxData
  <2>1. CASE q # p
    BY <1>2, <2>1 DEF InOrder
  <2>2. CASE q = p
    <3>1. \A k \in DOMAIN queuelist'[p] : queuelist'[p][k] > sent[p]
      <4>1. sent[p] \in Nat /\ sent[p] <= frames
        BY DEF ListType, Past
      <4>2. \A k \in DOMAIN queuelist[p] : queuelist[p][k] > sent[p]
        BY DEF InOrder
      <4> QED
        BY <1>1, <1>4, <4>1, <4>2
    <3>2. ASSUME NEW i \in DOMAIN aggr, aggr[i].p = p, NEW k \in DOMAIN queuelist'[p]
          PROVE  aggr[i].f < queuelist'[p][k]
      <4>1. aggr[i].f \in Nat /\ aggr[i].f <= frames
        BY AggrTypes DEF Past
      <4>2. \A l \in DOMAIN queuelist[p] : aggr[i].f < queuelist[p][l]
        BY <3>2 DEF InOrder
      <4> QED
        BY <1>1, <1>4, <4>1, <4>2, SMTT(30)
    <3>3. ASSUME NEW k \in DOMAIN queuelist'[p], NEW l \in DOMAIN queuelist'[p], k < l
          PROVE  queuelist'[p][k] < queuelist'[p][l]
      <4>1. k \in DOMAIN queuelist[p] /\ queuelist'[p][k] = queuelist[p][k]
        BY <1>3, <3>3
      <4>2. CASE l \in DOMAIN queuelist[p]
        BY <1>3, <3>3, <4>1, <4>2 DEF InOrder
      <4>3. CASE l = Len(queuelist[p]) + 1
        BY <1>1, <1>3, <1>5, <4>1, <4>3, SMTT(30)
      <4> QED
        BY <1>3, <4>2, <4>3, SMTT(30)
    <3> QED
      BY <2>2, <3>1, <3>2, <3>3
  <2> QED
    BY <2>1, <2>2
<1> QED
  BY <1>6, <1>7, <1>8, <1>9, <1>10, <1>11, <1>12, <1>13, <1>14, <1>15

\* The lists and the aggregate, for the steps that leave them alone.
LEMMA ListsKept ==
    ASSUME TxInv, UNCHANGED <<queuelist, qcnt, aggr, sent, frames>>
    PROVE  ListType' /\ QueueCount' /\ Distinct' /\ InOrder' /\ Past'
<1> USE DEF TxInv
<1>1. ListType'
  BY DEF ListType
<1>2. QueueCount'
  BY DEF QueueCount, QueuedFrames
<1>3. Distinct'
  BY DEF Distinct
<1>4. InOrder'
  BY DEF InOrder
<1>5. Past'
  BY DEF Past
<1> QED
  BY <1>1, <1>2, <1>3, <1>4, <1>5

\* A sender goes on.
LEMMA SenderKeeps ==
    ASSUME TxInv, NEW s \in Senders, RaisePrio(s) \/ CountFrame(s) \/ Trigger(s)
    PROVE  TxInv'
<1> USE TxAssumption DEF TxInv, queueVars, senderVars, txVars, histVars, threadElse, Goto,
                         NoSender
<1>1. CASE RaisePrio(s)
  <2>1. ListType' /\ QueueCount' /\ Distinct' /\ InOrder' /\ Past'
    BY <1>1, ListsKept DEF RaisePrio
  <2>2. SenderType' /\ StepType' /\ Lock'
    BY <1>1 DEF RaisePrio, SenderType, Prios, StepType, Lock
  <2>3. Count' /\ Room' /\ Credit'
    BY <1>1 DEF RaisePrio, Count, Pend, Hand, Room, Credit
  <2>4. Wake'
    BY <1>1 DEF RaisePrio, Wake
  <2>5. NumType'
    BY <1>1, RaisedPrio DEF RaisePrio, NumType, SenderType, Prios
  <2>6. Hidden'
    <3>1. hi_prio' >= hi_prio /\ hi_prio' >= sending[s].p /\ txqlock = s
      BY <1>1, RaisedPrio DEF RaisePrio, NumType, SenderType, Prios, Lock
    <3>2. hi_prio' \in Int /\ hi_prio \in Int /\ sending[s].p \in Int
      BY <1>1, RaisedPrio DEF RaisePrio, NumType, SenderType, Prios
    <3>3. ASSUME NEW q \in Prios, q > hi_prio', queuelist[q] # <<>> PROVE FALSE
      <4>1. q \in Int /\ q > hi_prio /\ q # sending[s].p
        BY <3>1, <3>2, <3>3 DEF Prios
      <4> QED
        BY <3>1, <3>3, <4>1 DEF Hidden
    <3> QED
      BY <1>1, <3>3 DEF RaisePrio, Hidden
  <2>7. Open'
    <3>1. hi_prio' >= hi_prio /\ hi_prio' \in Nat
      BY <1>1, RaisedPrio DEF RaisePrio, NumType, SenderType, Prios
    <3>2. ~ Empty => ~ Empty'
      BY <1>1, <3>1 DEF RaisePrio, Empty, NumType, Prios
    <3> QED
      BY <1>1, <3>2 DEF RaisePrio, Open
  <2> QED
    BY <2>1, <2>2, <2>3, <2>4, <2>5, <2>6, <2>7
<1>2. CASE CountFrame(s)
  <2>1. ListType' /\ QueueCount' /\ Distinct' /\ InOrder' /\ Past'
    BY <1>2, ListsKept DEF CountFrame
  <2>2. SenderType' /\ StepType' /\ Open'
    BY <1>2 DEF CountFrame, SenderType, Prios, StepType, Open, Empty
  <2>3. Room' /\ Credit' /\ Wake'
    BY <1>2 DEF CountFrame, Room, Credit, Wake
  <2>4. NumType'
    <3>1. txqlock = s
      BY <1>2 DEF CountFrame, Lock
    <3> QED
      BY <1>2, <3>1 DEF CountFrame, Count, Pend, NumType
  <2>5. Lock'
    BY <1>2 DEF CountFrame, Lock, SenderType
  <2>6. Count'
    <3>1. txqlock = s
      BY <1>2 DEF CountFrame, Lock
    <3> QED
      BY <1>2, <3>1 DEF CountFrame, Count, Pend, Hand, NumType
  <2>7. Hidden'
    BY <1>2 DEF CountFrame, Hidden, ListType, SenderType, StepType, Lock, Past, Prios
  <2> QED
    BY <2>1, <2>2, <2>3, <2>4, <2>5, <2>6, <2>7
<1>3. CASE Trigger(s)
  <2>1. ListType' /\ QueueCount' /\ Distinct' /\ InOrder' /\ Past'
    BY <1>3, ListsKept DEF Trigger
  <2>2. SenderType' /\ StepType' /\ NumType'
    BY <1>3 DEF Trigger, SenderType, NoFrame, Prios, StepType, NumType
  <2>3. Lock' /\ Count' /\ Hidden'
    BY <1>3 DEF Trigger, Lock, NoFrame, Count, Pend, Hand, Hidden, Prios
  <2>4. Open' /\ Room' /\ Credit'
    BY <1>3 DEF Trigger, Open, NoFrame, Empty, Room, Credit
  <2>5. Wake'
    BY <1>3 DEF Trigger, Wake, ListType, SenderType, StepType, NumType, NoFrame, Prios
  <2> QED
    BY <2>1, <2>2, <2>3, <2>4, <2>5
<1> QED
  BY <1>1, <1>2, <1>3

\* The command.
LEMMA CmdKeeps ==
    ASSUME TxInv, TxMsg \/ TriggerMsg
    PROVE  TxInv'
<1> USE TxAssumption DEF TxInv, queueVars, senderVars, txVars, histVars, threadElse, Goto,
                         NoSender
<1>1. CASE TxMsg
  <2>1. ListType' /\ QueueCount' /\ Distinct' /\ InOrder' /\ Past'
    BY <1>1, ListsKept DEF TxMsg
  <2>2. SenderType' /\ NumType' /\ Lock'
    BY <1>1 DEF TxMsg, SenderType, Prios, NumType, Lock
  <2>3. Count' /\ Hidden' /\ Open'
    BY <1>1 DEF TxMsg, Count, Pend, Hand, Hidden, Prios, Open, Empty
  <2>4. Room' /\ Credit' /\ Wake'
    BY <1>1 DEF TxMsg, Room, ListType, SenderType, StepType, NumType, Prios, Credit, Wake
  <2>5. StepType'
    BY <1>1 DEF TxMsg, StepType
  <2> QED
    BY <2>1, <2>2, <2>3, <2>4, <2>5
<1>2. CASE TriggerMsg
  <2>1. ListType' /\ QueueCount' /\ Distinct' /\ InOrder' /\ Past'
    BY <1>2, ListsKept DEF TriggerMsg
  <2>2. SenderType' /\ StepType' /\ NumType'
    BY <1>2 DEF TriggerMsg, SenderType, Prios, StepType, NumType
  <2>3. Lock' /\ Count' /\ Hidden'
    BY <1>2 DEF TriggerMsg, Lock, Count, Pend, Hand, Hidden, Prios
  <2>4. Open' /\ Room' /\ Credit'
    BY <1>2 DEF TriggerMsg, Open, Empty, Room, Credit
  <2>5. Wake'
    BY <1>2 DEF TriggerMsg, Wake, ListType, SenderType, StepType, NumType, Prios
  <2> QED
    BY <2>1, <2>2, <2>3, <2>4, <2>5
<1> QED
  BY <1>1, <1>2

\* The thread up to the frames.
LEMMA ThreadKeeps ==
    ASSUME TxInv, Woken \/ SendCmd \/ StartData \/ LoopTest \/ AwaitBuffers
    PROVE  TxInv'
<1> USE TxAssumption DEF TxInv, queueVars, senderVars, txVars, histVars, threadElse, Goto,
                         NoSender
<1>1. CASE Woken
  <2>1. ListType' /\ QueueCount' /\ Distinct' /\ InOrder' /\ Past'
    BY <1>1, ListsKept DEF Woken
  <2>2. SenderType' /\ StepType' /\ NumType'
    BY <1>1 DEF Woken, SenderType, Prios, StepType, NumType
  <2>3. Lock' /\ Count' /\ Hidden'
    BY <1>1 DEF Woken, Lock, Count, Pend, Hand, Hidden, Prios
  <2>4. Open' /\ Room' /\ Credit'
    BY <1>1 DEF Woken, Open, Empty, Room, Credit
  <2>5. Wake'
    <3>1. CASE tpc' = "wait" /\ bus = "up"
      <4>1. tx_pktcnt = 0 /\ ~ cmd_txstate
        BY <1>1, <3>1 DEF Woken, NumType
      <4>2. qcnt > 0 => txqlock # NoSender
        BY <1>1, <3>1, <4>1 DEF Woken, Count, Pend, Hand, NumType
      <4>3. txqlock # NoSender => \E s \in Senders : spc[s] # "idle"
        BY DEF Lock, SenderType
      <4> QED
        BY <1>1, <4>1, <4>2, <4>3 DEF Woken, Wake
    <3>2. CASE ~ (tpc' = "wait" /\ bus = "up")
      BY <1>1, <3>2 DEF Woken, Wake, NumType
    <3> QED
      BY <3>1, <3>2
  <2> QED
    BY <2>1, <2>2, <2>3, <2>4, <2>5
<1>2. CASE SendCmd
  <2>1. ListType' /\ QueueCount' /\ Distinct' /\ InOrder' /\ Past'
    BY <1>2, ListsKept DEF SendCmd
  <2>2. SenderType' /\ Lock' /\ Count'
    BY <1>2 DEF SendCmd, SenderType, MsgFits, Prios, Lock, Count, Pend, Hand
  <2>3. Hidden' /\ Open' /\ Room'
    BY <1>2 DEF SendCmd, Hidden, MsgFits, Prios, Open, Empty, Room
  <2>4. Wake'
    BY <1>2 DEF SendCmd, Wake, MsgFits
  <2>5. StepType'
    BY <1>2 DEF SendCmd, StepType
  <2>6. NumType'
    <3>1. CASE cmd_txstate /\ MsgFits
      BY <1>2, <3>1 DEF SendCmd, NumType, Credit
    <3>2. CASE ~ (cmd_txstate /\ MsgFits)
      BY <1>2, <3>2 DEF SendCmd, NumType
    <3> QED
      BY <3>1, <3>2
  <2>7. Credit'
    <3>1. CASE cmd_txstate /\ MsgFits
      BY <1>2, <3>1 DEF SendCmd, Credit, NumType
    <3>2. CASE ~ (cmd_txstate /\ MsgFits)
      BY <1>2, <3>2 DEF SendCmd, Credit
    <3> QED
      BY <3>1, <3>2
  <2> QED
    BY <2>1, <2>2, <2>3, <2>4, <2>5, <2>6, <2>7
<1>3. CASE StartData
  <2>1. ListType' /\ QueueCount' /\ Distinct' /\ InOrder' /\ Past'
    BY <1>3, ListsKept DEF StartData
  <2>2. SenderType' /\ StepType' /\ Lock'
    BY <1>3 DEF StartData, SenderType, FlowCtrl, Empty, Prios, StepType, Lock
  <2>3. Count' /\ Hidden' /\ Open'
    BY <1>3 DEF StartData, Count, FlowCtrl, Empty, Pend, Hand, Hidden, Prios, Open
  <2>4. Wake'
    BY <1>3 DEF StartData, Wake, FlowCtrl, Empty
  <2>5. NumType'
    BY <1>3, FcRegValue DEF StartData, FlowCtrl, NumType
  <2>6. Room'
    BY <1>3 DEF StartData, Room, Open, FlowCtrl, Empty
  <2>7. Credit'
    BY <1>3, FcRegValue DEF StartData, FlowCtrl, Credit, NumType
  <2> QED
    BY <2>1, <2>2, <2>3, <2>4, <2>5, <2>6, <2>7
<1>4. CASE LoopTest
  <2>1. ListType' /\ QueueCount' /\ Distinct' /\ InOrder' /\ Past'
    BY <1>4, ListsKept DEF LoopTest
  <2>2. SenderType' /\ StepType' /\ NumType'
    BY <1>4 DEF LoopTest, SenderType, Empty, Prios, StepType, NumType
  <2>3. Lock' /\ Count' /\ Hidden'
    BY <1>4 DEF LoopTest, Lock, Empty, Count, Pend, Hand, Hidden, Prios
  <2>4. Open' /\ Room' /\ Credit'
    BY <1>4 DEF LoopTest, Open, Empty, Room, Credit
  <2>5. Wake'
    <3>1. CASE Empty /\ bus = "up"
      <4>1. qcnt > 0 => txqlock # NoSender
        BY <3>1, Visible DEF Pend, NumType
      <4>2. txqlock # NoSender => \E s \in Senders : spc[s] # "idle"
        BY DEF Lock, SenderType
      <4> QED
        BY <1>4, <3>1, <4>1, <4>2 DEF LoopTest, Wake
    <3>2. CASE ~ (Empty /\ bus = "up")
      BY <1>4, <3>2 DEF LoopTest, Wake
    <3> QED
      BY <3>1, <3>2
  <2> QED
    BY <2>1, <2>2, <2>3, <2>4, <2>5
<1>5. CASE AwaitBuffers
  <2>1. ListType' /\ QueueCount' /\ Distinct' /\ InOrder' /\ Past'
    BY <1>5, ListsKept DEF AwaitBuffers
  <2>2. SenderType' /\ StepType' /\ NumType'
    BY <1>5, FcRegValue DEF AwaitBuffers, SenderType, FlowCtrl, Prios, StepType, NumType
  <2>3. Lock' /\ Count' /\ Hidden'
    BY <1>5 DEF AwaitBuffers, Lock, FlowCtrl, Count, Pend, Hand, Hidden, Prios
  <2>4. Room' /\ Wake'
    BY <1>5, SMTT(30) DEF AwaitBuffers, Room, ListType, SenderType, StepType, NumType, FlowCtrl, Prios, Wake
  <2>5. Open'
    BY <1>5, SMTT(30) DEF AwaitBuffers, Open, ListType, SenderType, StepType, NumType, QueueCount, Lock,
        Count, Distinct, Hidden, Room, Credit, Wake, InOrder, Past, FlowCtrl, Empty, Prios,
        QueuedFrames, Pend, Hand
  <2>6. Credit'
    BY <1>5, FcRegValue DEF AwaitBuffers, FlowCtrl, Credit, NumType
  <2> QED
    BY <2>1, <2>2, <2>3, <2>4, <2>5, <2>6
<1> QED
  BY <1>1, <1>2, <1>3, <1>4, <1>5

\* A frame is taken: the lock is free, so every frame is visible, and the
\* highest list is the one to take from.
LEMMA TakeKeeps ==
    ASSUME TxInv, TakeFrame
    PROVE  TxInv'
<1> USE TxAssumption DEF TxInv, histVars, threadElse, senderVars, Goto, NoSender
<1>1. PICK h : h = HighList
  OBVIOUS
<1>2. txqlock = NoSender /\ ~ Empty /\ tpc = "body" /\ fw_avail > Thresh
  BY DEF TakeFrame, Open
<1>3. /\ h \in Prios /\ h <= hi_prio /\ queuelist[h] # <<>>
      /\ \A r \in 0..hi_prio : queuelist[r] # <<>> => r <= h
  BY <1>1, <1>2, HighListIs
<1>4. /\ hi_prio' = h /\ Dequeue(h) /\ qcnt' = qcnt - 1
      /\ tpc' \in {"now", "more"} /\ (tpc' = "now" => cmd_txstate)
      /\ UNCHANGED <<txqlock, tx_pktcnt, fw_avail, cmd_txstate, bustx_trgg, fw, spc, sending,
                     cpc, bus, frames, ncmds, sent, staleCmds, refused>>
  BY <1>1 DEF TakeFrame, HighList
<1>5. queuelist[h] \in Seq(1..MaxFrames) /\ Len(queuelist[h]) \in Nat
  BY <1>3 DEF ListType
<1>6. /\ Tail(queuelist[h]) \in Seq(1..MaxFrames) /\ 1 \in DOMAIN queuelist[h]
      /\ Head(queuelist[h]) = queuelist[h][1] /\ Head(queuelist[h]) \in 1..MaxFrames
      /\ DOMAIN Tail(queuelist[h]) = 1..(Len(queuelist[h]) - 1)
      /\ DOMAIN queuelist[h] = 1..Len(queuelist[h])
      /\ \A i \in DOMAIN Tail(queuelist[h]) :
             i + 1 \in DOMAIN queuelist[h] /\ Tail(queuelist[h])[i] = queuelist[h][i + 1]
  BY <1>3, <1>5, TailOf
<1>7. /\ queuelist'[h] = Tail(queuelist[h])
      /\ \A q \in Prios : q # h => queuelist'[q] = queuelist[q]
      /\ queuelist' \in [Prios -> Seq(1..MaxFrames)]
  BY <1>3, <1>4, <1>6 DEF Dequeue, ListType
<1>8. [f |-> Head(queuelist[h]), p |-> h] \in [f : 1..MaxFrames, p : Prios]
  BY <1>3, <1>6
<1>9. /\ aggr' \in Seq([f : 1..MaxFrames, p : Prios])
      /\ Len(aggr) \in Nat /\ Len(aggr') = Len(aggr) + 1 /\ DOMAIN aggr = 1..Len(aggr)
      /\ DOMAIN aggr' = 1..(Len(aggr) + 1)
      /\ \A i \in DOMAIN aggr : aggr'[i] = aggr[i]
      /\ aggr'[Len(aggr) + 1].f = queuelist[h][1] /\ aggr'[Len(aggr) + 1].p = h
  <2>1. PICK e \in [f : 1..MaxFrames, p : Prios] : e = [f |-> Head(queuelist[h]), p |-> h]
    BY <1>8
  <2>2. aggr' = Append(aggr, e)
    BY <1>4, <2>1 DEF Dequeue
  <2>3. aggr \in Seq([f : 1..MaxFrames, p : Prios])
    BY DEF ListType
  <2>4. e.f = queuelist[h][1] /\ e.p = h
    BY <1>6, <2>1
  <2> QED
    BY <2>2, <2>3, <2>4, AppendOf
<1>10. QueueCount' /\ qcnt' \in Nat
  <2>1. PICK ql \in Lists : ql = queuelist
    BY DEF ListType, Lists
  <2>2. queuelist' = [ql EXCEPT ![h] = Tail(@)] /\ queuelist' \in Lists
    BY <1>4, <1>7, <2>1 DEF Dequeue, Lists
  <2>3. QueuedFrames' = FramesOf(queuelist') /\ QueuedFrames = FramesOf(ql)
    BY <2>1 DEF QueuedFrames, FramesOf
  <2>4. DistinctIn(ql)
    BY <2>1 DEF Distinct, DistinctIn
  <2>5. PICK x : x = Head(ql[h])
    OBVIOUS
  <2>6. x \in FramesOf(ql) /\ QueuedFrames' = FramesOf(ql) \ {x}
    BY <1>3, <2>1, <2>2, <2>3, <2>4, <2>5, DequeueFrames
  <2>7. Cardinality(FramesOf(ql) \ {x}) = Cardinality(FramesOf(ql)) - 1
    BY <2>6, FramesFinite, FS_RemoveElement
  <2>8. QueueCount'
    BY <1>4, <2>3, <2>6, <2>7 DEF QueueCount
  <2>9. Cardinality(FramesOf(queuelist')) \in Nat
    BY <2>2, FramesFinite
  <2> QED
    BY <2>3, <2>8, <2>9 DEF QueueCount
<1>11. ListType' /\ SenderType' /\ StepType' /\ NumType'
  <2>1. ListType' /\ SenderType'
    BY <1>4, <1>7, <1>9 DEF ListType, SenderType
  <2>2. StepType'
    BY <1>4 DEF StepType
  <2>3. NumType'
    BY <1>3, <1>4, <1>10 DEF NumType
  <2> QED
    BY <2>1, <2>2, <2>3
<1>12. Lock' /\ Credit' /\ Wake' /\ Open'
  BY <1>2, <1>4 DEF Lock, Credit, Wake, Open
<1>13. Count'
  BY <1>2, <1>4 DEF Count, Pend, Hand, NumType, StepType
<1>14. Distinct'
  <2>1. ASSUME NEW q \in Prios, NEW i \in DOMAIN queuelist'[q]
        PROVE  \/ q # h /\ i \in DOMAIN queuelist[q] /\ queuelist'[q][i] = queuelist[q][i]
               \/ q = h /\ i + 1 \in DOMAIN queuelist[q] /\ i \in Int
                        /\ queuelist'[q][i] = queuelist[q][i + 1]
    <3>1. CASE q # h
      BY <1>7, <3>1
    <3>2. CASE q = h
      <4>1. i \in DOMAIN Tail(queuelist[h]) /\ queuelist'[h][i] = Tail(queuelist[h])[i]
        BY <1>7, <3>2
      <4> QED
        BY <1>6, <3>2, <4>1
    <3> QED
      BY <3>1, <3>2
  <2>2. ASSUME NEW q \in Prios, NEW r \in Prios,
               NEW i \in DOMAIN queuelist'[q], NEW j \in DOMAIN queuelist'[r],
               queuelist'[q][i] = queuelist'[r][j]
        PROVE  q = r /\ i = j
    <3>1. CASE q = h /\ r = h
      <4>1. i + 1 \in DOMAIN queuelist[q] /\ j + 1 \in DOMAIN queuelist[r] /\ i \in Int /\ j \in Int
        BY <2>1, <3>1
      <4>2. i + 1 = j + 1
        BY <2>1, <2>2, <3>1, <4>1 DEF Distinct
      <4> QED
        BY <3>1, <4>1, <4>2
    <3>2. CASE q # h \/ r # h
      BY <2>1, <2>2, <3>2 DEF Distinct
    <3> QED
      BY <3>1, <3>2
  <2>3. ASSUME NEW q \in Prios, NEW i \in DOMAIN queuelist'[q]
        PROVE  queuelist'[q][i] <= frames'
    BY <1>4, <2>1, <2>3 DEF Distinct
  <2> QED
    BY <2>2, <2>3 DEF Distinct
<1>15. Hidden'
  <2> SUFFICES ASSUME NEW q \in Prios, q > h, queuelist'[q] # <<>>
               PROVE  FALSE
    BY <1>4 DEF Hidden
  <2>1. queuelist[q] # <<>>
    BY <1>3, <1>7 DEF Prios
  <2>2. q <= hi_prio
    BY <1>2, <2>1 DEF Hidden, NumType, Prios
  <2>3. q \in 0..hi_prio
    BY <2>2 DEF Prios, NumType
  <2> QED
    BY <1>3, <2>1, <2>3 DEF Prios
<1>16. Room'
  <2>1. CASE aggr = <<>>
    <3>1. Len(aggr') = 1
      BY <1>9, <2>1
    <3> QED
      BY <1>2, <1>4, <3>1 DEF Room, NumType
  <2>2. CASE aggr # <<>>
    BY <1>2, <1>4, <1>9, <2>2, SMTT(30) DEF Room, NumType
  <2> QED
    BY <2>1, <2>2
<1>17. Past'
  <2>1. queuelist[h][1] <= frames
    BY <1>3, <1>6 DEF Distinct
  <2> QED
    BY <1>4, <1>9, <2>1 DEF Past
<1>18. InOrder'
  <2>1. ASSUME NEW i \in DOMAIN aggr'
        PROVE  \/ i \in DOMAIN aggr /\ aggr'[i] = aggr[i]
               \/ i = Len(aggr) + 1 /\ aggr'[i].f = queuelist[h][1] /\ aggr'[i].p = h
    BY <1>9
  <2>2. ASSUME NEW q \in Prios
        PROVE  /\ \A i \in DOMAIN aggr' : aggr'[i].p = q => aggr'[i].f > sent[q]
               /\ \A k \in DOMAIN queuelist'[q] : queuelist'[q][k] > sent[q]
               /\ \A i, j \in DOMAIN aggr' :
                      aggr'[i].p = q /\ aggr'[j].p = q /\ i < j => aggr'[i].f < aggr'[j].f
               /\ \A i \in DOMAIN aggr' : aggr'[i].p = q =>
                      \A k \in DOMAIN queuelist'[q] : aggr'[i].f < queuelist'[q][k]
               /\ \A k, l \in DOMAIN queuelist'[q] : k < l => queuelist'[q][k] < queuelist'[q][l]
    <3>1. /\ \A i \in DOMAIN aggr : aggr[i].p = q => aggr[i].f > sent[q]
          /\ \A k \in DOMAIN queuelist[q] : queuelist[q][k] > sent[q]
          /\ \A i, j \in DOMAIN aggr :
                 aggr[i].p = q /\ aggr[j].p = q /\ i < j => aggr[i].f < aggr[j].f
          /\ \A i \in DOMAIN aggr : aggr[i].p = q =>
                 \A k \in DOMAIN queuelist[q] : aggr[i].f < queuelist[q][k]
          /\ \A k, l \in DOMAIN queuelist[q] : k < l => queuelist[q][k] < queuelist[q][l]
      BY DEF InOrder
    <3>2. CASE q # h
      BY <1>7, <2>1, <3>1, <3>2
    <3>3. CASE q = h
      <4>1. ASSUME NEW k \in DOMAIN queuelist'[h]
            PROVE  k \in Nat /\ 1 < k + 1 /\ k + 1 \in DOMAIN queuelist[h]
                   /\ queuelist'[h][k] = queuelist[h][k + 1]
        BY <1>6, <1>7, SMTT(30)
      <4>2. \A i \in DOMAIN aggr' : aggr'[i].p = h => aggr'[i].f > sent[h]
        BY <1>6, <2>1, <3>1, <3>3
      <4>3. \A k \in DOMAIN queuelist'[h] : queuelist'[h][k] > sent[h]
        BY <3>1, <3>3, <4>1
      <4>4. ASSUME NEW i \in DOMAIN aggr', NEW j \in DOMAIN aggr',
                   aggr'[i].p = h, aggr'[j].p = h, i < j
            PROVE  aggr'[i].f < aggr'[j].f
        <5>1. i \in DOMAIN aggr /\ aggr'[i] = aggr[i]
          BY <1>9, <4>4
        <5> QED
          BY <1>6, <2>1, <3>1, <3>3, <4>4, <5>1
      <4>5. ASSUME NEW i \in DOMAIN aggr', aggr'[i].p = h, NEW k \in DOMAIN queuelist'[h]
            PROVE  aggr'[i].f < queuelist'[h][k]
        BY <1>6, <2>1, <3>1, <3>3, <4>1, <4>5
      <4>6. ASSUME NEW k \in DOMAIN queuelist'[h], NEW l \in DOMAIN queuelist'[h], k < l
            PROVE  queuelist'[h][k] < queuelist'[h][l]
        <5>1. k + 1 < l + 1
          BY <4>1, <4>6
        <5> QED
          BY <3>1, <3>3, <4>1, <5>1
      <4> QED
        BY <3>3, <4>2, <4>3, <4>4, <4>5, <4>6
    <3> QED
      BY <3>2, <3>3
  <2> QED
    BY <1>4, <2>2 DEF InOrder
<1> QED
  BY <1>10, <1>11, <1>12, <1>13, <1>14, <1>15, <1>16, <1>17, <1>18

SentTo(p) == {sent[p]} \cup {aggr[i].f : i \in {j \in DOMAIN aggr : aggr[j].p = p}}

\* The highest frame sent of a priority is one of those sent.
LEMMA SentIs ==
    ASSUME ListType, NEW p \in Prios
    PROVE  Max(SentTo(p)) \in SentTo(p) /\ SentTo(p) \subseteq 0..MaxFrames
<1>1. SentTo(p) \subseteq 0..MaxFrames /\ SentTo(p) # {}
  <2>1. sent[p] \in 0..MaxFrames
    BY DEF ListType
  <2>2. \A i \in DOMAIN aggr : aggr[i].f \in 0..MaxFrames
    BY AggrTypes, TxAssumption
  <2> QED
    BY <2>1, <2>2 DEF SentTo
<1>2. PICK T : T = SentTo(p)
  OBVIOUS
<1>3. Max(T) \in T
  BY <1>1, <1>2, MaxIsGreatest, TxAssumption
<1> QED
  BY <1>1, <1>2, <1>3

\* The frame in the thread's hands is counted off, and the aggregate goes out
\* or waits for a frame that is on the lists.
LEMMA SendKeeps ==
    ASSUME TxInv, FrameTaken
    PROVE  TxInv'
<1> USE TxAssumption DEF TxInv, queueVars, threadElse, senderVars, Goto, NoSender
<1> DEFINE Out == LastFrame \/ tpc = "now" \/ Full(aggr)
<1>1. /\ tpc \in {"now", "more"} /\ bus # "gone"
      /\ tpc' = (IF tpc = "now" THEN "wait" ELSE "loop")
      /\ tx_pktcnt' = tx_pktcnt - 1
      /\ UNCHANGED <<queuelist, qcnt, hi_prio, txqlock, cmd_txstate, spc, sending, cpc, bus,
                     bustx_trgg, frames, ncmds, staleCmds, refused>>
  BY DEF FrameTaken, Count
<1>2. Len(aggr) \in Nat /\ Len(aggr) <= fw_avail - Thresh /\ Len(aggr) <= AggrMax
  BY <1>1 DEF Room, ListType
<1>3. Out => /\ aggr' = <<>> /\ fw_avail' = fw_avail - Len(aggr) /\ fw' = fw - Len(aggr)
             /\ sent' = [p \in Prios |-> Max(SentTo(p))]
  BY DEF FrameTaken, AggrSend, SentTo
<1>4. ~ Out => /\ UNCHANGED <<aggr, fw_avail, fw, sent>>
               /\ tpc' = "loop" /\ tx_pktcnt # 1
               /\ Len(aggr) # fw_avail - Thresh /\ ~ (Len(aggr) >= AggrMax)
  BY DEF FrameTaken, LastFrame, Full
<1> HIDE DEF Out
<1>5. tx_pktcnt >= 1 /\ tx_pktcnt + Pend = qcnt + 1 /\ Pend \in {0, 1}
  BY <1>1 DEF Count, Hand, Pend, NumType
<1>6. SenderType' /\ StepType' /\ QueueCount' /\ Lock' /\ Distinct' /\ Hidden'
  BY <1>1 DEF SenderType, StepType, QueueCount, QueuedFrames, Lock, Distinct, Hidden
<1>7. ListType'
  <2>1. CASE Out
    <3>1. \A p \in Prios : Max(SentTo(p)) \in 0..MaxFrames
      BY SentIs
    <3>2. sent' \in [Prios -> 0..MaxFrames]
      BY <1>3, <2>1, <3>1
    <3>3. aggr' \in Seq([f : 1..MaxFrames, p : Prios])
      BY <1>3, <2>1
    <3> QED
      BY <1>1, <3>2, <3>3 DEF ListType
  <2>2. CASE ~ Out
    BY <1>1, <1>4, <2>2 DEF ListType
  <2> QED
    BY <2>1, <2>2
<1>8. NumType'
  <2>1. CASE Out
    BY <1>1, <1>2, <1>3, <1>5, <2>1, SMTT(30) DEF NumType
  <2>2. CASE ~ Out
    BY <1>1, <1>4, <1>5, <2>2 DEF NumType
  <2> QED
    BY <2>1, <2>2
<1>9. Count'
  BY <1>1, <1>5 DEF Count, Hand, Pend, NumType
<1>10. Open'
  <2>1. CASE Out
    BY <1>1, <1>3, <2>1 DEF Open
  <2>2. CASE ~ Out
    <3>1. qcnt > Pend
      BY <1>4, <1>5, <2>2 DEF NumType
    <3>2. ~ Empty
      BY <1>5, <3>1, Visible DEF NumType
    <3>3. ~ Empty'
      BY <1>1, <3>2 DEF Empty
    <3> QED
      BY <1>1, <1>4, <2>2, <3>3 DEF Open
  <2> QED
    BY <2>1, <2>2
<1>11. Room'
  <2>1. CASE Out
    BY <1>1, <1>3, <2>1 DEF Room
  <2>2. CASE ~ Out
    BY <1>1, <1>2, <1>4, <2>2 DEF Room, NumType
  <2> QED
    BY <2>1, <2>2
<1>12. Credit'
  <2>1. CASE Out
    BY <1>1, <1>2, <1>3, <2>1 DEF Credit, NumType
  <2>2. CASE ~ Out
    BY <1>1, <1>4, <2>2 DEF Credit
  <2> QED
    BY <2>1, <2>2
<1>13. Wake'
  BY <1>1 DEF Wake, Open
<1>14. Past'
  <2>1. CASE Out
    <3>1. \A p \in Prios : Max(SentTo(p)) <= frames
      BY SentIs DEF SentTo, Past
    <3> QED
      BY <1>1, <1>3, <2>1, <3>1 DEF Past
  <2>2. CASE ~ Out
    BY <1>1, <1>4, <2>2 DEF Past
  <2> QED
    BY <2>1, <2>2
<1>15. InOrder'
  <2>1. CASE Out
    <3>1. ASSUME NEW p \in Prios, NEW k \in DOMAIN queuelist[p]
          PROVE  queuelist[p][k] > Max(SentTo(p))
      <4>1. PICK m \in SentTo(p) : m = Max(SentTo(p))
        BY SentIs
      <4>2. m = sent[p] \/ \E i \in DOMAIN aggr : aggr[i].p = p /\ m = aggr[i].f
        BY <4>1 DEF SentTo
      <4>3. queuelist[p][k] > sent[p]
        BY DEF InOrder
      <4>4. \A i \in DOMAIN aggr : aggr[i].p = p => aggr[i].f < queuelist[p][k]
        BY DEF InOrder
      <4>5. queuelist[p][k] \in Nat /\ \A i \in DOMAIN aggr : aggr[i].f \in Nat
        BY AggrTypes DEF ListType
      <4> QED
        BY <4>1, <4>2, <4>3, <4>4, <4>5
    <3>2. \A p \in Prios : sent'[p] = Max(SentTo(p))
      BY <1>3, <2>1
    <3>3. DOMAIN aggr' = {}
      BY <1>3, <2>1
    <3> QED
      BY <1>1, <3>1, <3>2, <3>3 DEF InOrder
  <2>2. CASE ~ Out
    BY <1>1, <1>4, <2>2 DEF InOrder
  <2> QED
    BY <2>1, <2>2
<1> QED
  BY <1>6, <1>7, <1>8, <1>9, <1>10, <1>11, <1>12, <1>13, <1>14, <1>15

\* Bus stop and the firmware.
LEMMA StopKeeps ==
    ASSUME TxInv, BusDown \/ BusFlush \/ FwFree
    PROVE  TxInv'
<1> USE TxAssumption DEF TxInv, queueVars, senderVars, txVars, histVars, threadElse, Goto,
                         NoSender
<1>1. CASE BusDown
  <2>1. ListType' /\ QueueCount' /\ Distinct' /\ InOrder' /\ Past'
    BY <1>1, ListsKept DEF BusDown
  <2>2. SenderType' /\ StepType' /\ NumType'
    BY <1>1 DEF BusDown, SenderType, Prios, StepType, NumType
  <2>3. Lock' /\ Count' /\ Hidden'
    BY <1>1 DEF BusDown, Lock, Count, Pend, Hand, Hidden, Prios
  <2>4. Open' /\ Room' /\ Credit'
    BY <1>1 DEF BusDown, Open, Empty, Room, Credit
  <2>5. Wake'
    BY <1>1 DEF BusDown, Wake
  <2> QED
    BY <2>1, <2>2, <2>3, <2>4, <2>5
<1>2. CASE BusFlush
  <2>1. ListType' /\ SenderType' /\ StepType'
    BY <1>2 DEF BusFlush, ListType, Prios, SenderType, StepType
  <2>2. NumType' /\ Lock' /\ Count'
    BY <1>2 DEF BusFlush, NumType, Prios, Lock, Count, Pend, Hand
  <2>3. Distinct' /\ Hidden' /\ Open'
    BY <1>2 DEF BusFlush, Distinct, Prios, Hidden, Open, Empty
  <2>4. Room' /\ Credit' /\ Wake'
    BY <1>2 DEF BusFlush, Room, Prios, Credit, Wake
  <2>5. InOrder' /\ Past'
    BY <1>2 DEF BusFlush, InOrder, Prios, Past
  <2>6. QueueCount'
    <3>1. \A q \in Prios : queuelist'[q] = <<>>
      BY <1>2 DEF BusFlush
    <3>2. PICK m : m = queuelist'
      OBVIOUS
    <3>3. Cardinality(FramesOf(m)) = 0
      BY <3>1, <3>2, NoFrames
    <3> QED
      BY <1>2, <3>2, <3>3 DEF BusFlush, QueueCount, QueuedFrames, FramesOf
  <2> QED
    BY <2>1, <2>2, <2>3, <2>4, <2>5, <2>6
<1>3. CASE FwFree
  <2>1. ListType' /\ QueueCount' /\ Distinct' /\ InOrder' /\ Past'
    BY <1>3, ListsKept DEF FwFree
  <2>2. SenderType' /\ StepType' /\ NumType'
    BY <1>3 DEF FwFree, SenderType, Prios, StepType, NumType
  <2>3. Lock' /\ Count' /\ Hidden'
    BY <1>3 DEF FwFree, Lock, Count, Pend, Hand, Hidden, Prios
  <2>4. Open' /\ Room' /\ Credit'
    BY <1>3 DEF FwFree, Open, ListType, SenderType, StepType, NumType, Empty, Prios, Room, Credit
  <2>5. Wake'
    BY <1>3 DEF FwFree, Wake
  <2> QED
    BY <2>1, <2>2, <2>3, <2>4, <2>5
<1> QED
  BY <1>1, <1>2, <1>3

-----------------------------------------------------------------------------
(* The results *)

\* The initial state.
LEMMA TxInit ==
    ASSUME Init
    PROVE  TxInv
<1> USE TxAssumption DEF Init, NoSender
<1>1. \A q \in Prios : queuelist[q] = <<>> /\ DOMAIN queuelist[q] = {}
  OBVIOUS
<1>2. DOMAIN aggr = {} /\ Len(aggr) = 0
  OBVIOUS
<1>3. ListType
  BY DEF ListType
<1>4. SenderType
  BY DEF SenderType, NoFrame, Prios
<1>5. StepType /\ NumType
  <2>1. StepType
    BY DEF StepType
  <2>2. hi_prio \in Prios /\ MaxFrames \in Nat /\ MaxCmds \in Nat
    BY DEF Prios
  <2>3. NumType
    BY <2>2 DEF NumType
  <2> QED
    BY <2>1, <2>3
<1>6. QueueCount
  <2>1. PICK ql : ql = queuelist
    OBVIOUS
  <2>2. Cardinality(FramesOf(ql)) = 0
    BY <1>1, <2>1, NoFrames
  <2> QED
    BY <2>1, <2>2 DEF QueueCount, QueuedFrames, FramesOf
<1>7. Lock
  BY DEF Lock
<1>8. Count /\ Open /\ Room /\ Credit /\ Wake
  BY <1>2 DEF Count, Pend, Hand, Open, Room, Credit, Wake
<1>9. Distinct /\ Hidden /\ InOrder /\ Past
  BY <1>1, <1>2 DEF Distinct, Hidden, InOrder, Past
<1> QED
  BY <1>3, <1>4, <1>5, <1>6, <1>7, <1>8, <1>9 DEF TxInv

\* Every step.
LEMMA TxStep ==
    ASSUME TxInv, [Next]_vars
    PROVE  TxInv'
<1>1. ASSUME NEW s \in Senders, Sender(s) PROVE TxInv'
  BY <1>1, EnqKeeps, SenderKeeps DEF Sender
<1>2. CASE TxMsg \/ TriggerMsg
  BY <1>2, CmdKeeps
<1>3. CASE Thread
  BY <1>3, ThreadKeeps, TakeKeeps, SendKeeps DEF Thread
<1>4. CASE BusDown \/ BusFlush \/ FwFree
  BY <1>4, StopKeeps
<1>5. CASE UNCHANGED vars
  <2> USE <1>5 DEF vars, queueVars, senderVars, txVars, histVars
  <2>1. ListType' /\ QueueCount' /\ Distinct' /\ InOrder' /\ Past'
    BY ListsKept
  <2>2. SenderType' /\ StepType' /\ NumType'
    BY DEF TxInv, SenderType, StepType, NumType
  <2>3. Lock' /\ Count' /\ Hidden' /\ Open' /\ Room'
    BY DEF TxInv, Lock, Count, Pend, Hand, Hidden, Open, Empty, Room
  <2>4. Credit' /\ Wake'
    BY DEF TxInv, Credit, Wake
  <2> QED
    BY <2>1, <2>2, <2>3, <2>4 DEF TxInv
<1> QED
  BY <1>1, <1>2, <1>3, <1>4, <1>5 DEF Next

\* The invariant holds in every reachable state.
LEMMA TxInvariant == Spec => []TxInv
<1>1. Init => TxInv
  BY TxInit
<1>2. TxInv /\ [Next]_vars => TxInv'
  BY TxStep
<1> QED
  BY <1>1, <1>2, PTL DEF Spec

\* qcnt and tx_pktcnt count the frames, for any number of senders and whatever
\* the thread and the stop of the bus do in between (aicwf_frame_enq,
\* aicwf_sdio_send, aicwf_frame_queue_flush).
THEOREM TxCountExact == Spec => []CountInv
<1>1. TxInv => CountInv
  <2> SUFFICES ASSUME TxInv PROVE CountInv
    OBVIOUS
  <2>1. TypeOK
    <3>1. {cmd_txstate, refused} \subseteq BOOLEAN
      BY DEF TxInv, StepType
    <3> QED
      BY <3>1 DEF TxInv, TypeOK, ListType, SenderType, StepType, NumType, Room
  <2>2. Cardinality({s \in Senders : spc[s] \in {"queued", "prio"}}) = Pend
    BY PendCount DEF TxInv
  <2>3. PktCount
    BY <2>2 DEF TxInv, PktCount, Count, Hand, QueueCount
  <2> QED
    BY <2>1, <2>3 DEF TxInv, CountInv
<1> QED
  BY <1>1, TxInvariant, PTL

\* The thread never sleeps on an unsent aggregate, nor on frames or a command
\* nobody will wake it for, although it looks for frames without txqlock.
THEOREM NothingStranded == Spec => []NoStranding
<1>1. TxInv => NoStranding
  <2> SUFFICES ASSUME TxInv PROVE NoStranding
    OBVIOUS
  <2>1. AggrSent
    BY DEF TxInv, AggrSent, Open
  <2>2. ASSUME Quiet PROVE QueuedFrames = {} \/ cmd_txstate
    <3>1. qcnt = 0 <=> QueuedFrames = {}
      BY CountedFrames DEF TxInv
    <3>2. cmd_txstate \/ ~ (qcnt > 0)
      BY <2>2 DEF TxInv, Wake, Quiet, NumType
    <3>3. cmd_txstate \/ qcnt = 0
      BY <3>2 DEF TxInv, NumType
    <3> QED
      BY <3>1, <3>3
  <2>3. ASSUME Quiet, cmd_txstate PROVE refused
    BY <2>3 DEF TxInv, Wake, Quiet, NumType
  <2> QED
    BY <2>1, <2>2, <2>3 DEF NoStranding
<1> QED
  BY <1>1, TxInvariant, PTL

\* Frames of one priority leave in the order they came.
THEOREM FramesInOrder == Spec => []InOrder
<1>1. TxInv => InOrder
  BY DEF TxInv
<1> QED
  BY <1>1, TxInvariant, PTL

\* The firmware is not overrun as long as at most DATA_FLOW_CTRL_THRESH commands
\* have gone out since its buffers were counted, however stale the count is.
THEOREM FirmwareNotOverrun == Spec => FwNotOverrun
<1>1. TxInv /\ [Next]_vars => [fw >= 0 /\ staleCmds <= Thresh => fw' >= 0]_vars
  <2> SUFFICES ASSUME TxInv, [Next]_vars, fw >= 0, staleCmds <= Thresh
               PROVE  fw' >= 0
    OBVIOUS
  <2> USE TxAssumption
  <2>1. fw \in Int /\ staleCmds \in Nat /\ fw_avail \in Int
    BY DEF TxInv, NumType
  <2>2. CASE SendCmd
    <3>1. fw' = fw \/ (MsgFits /\ fw' = fw - 1)
      BY <2>2 DEF SendCmd
    <3> QED
      BY <2>1, <3>1 DEF MsgFits
  <2>3. CASE FrameTaken
    <3>1. Len(aggr) \in Nat /\ Len(aggr) <= fw_avail - Thresh
      BY <2>3 DEF FrameTaken, TxInv, Room, ListType
    <3>2. fw' = fw \/ fw' = fw - Len(aggr)
      BY <2>3 DEF FrameTaken, AggrSend
    <3>3. fw_avail > 0 => fw >= fw_avail - staleCmds
      BY DEF TxInv, Credit
    <3> QED
      BY <2>1, <3>1, <3>2, <3>3
  <2>4. CASE FwFree
    BY <2>1, <2>4 DEF FwFree
  <2>5. CASE fw' = fw
    BY <2>5
  <2>6. SendCmd \/ FrameTaken \/ FwFree \/ fw' = fw
    BY DEF Next, Sender, Thread, TxData, RaisePrio, CountFrame, Trigger, TxMsg, TriggerMsg, Woken,
           StartData, LoopTest, AwaitBuffers, TakeFrame, BusDown, BusFlush, vars
  <2> QED
    BY <2>2, <2>3, <2>4, <2>5, <2>6
<1> QED
  BY <1>1, TxInvariant, PTL DEF Spec, FwNotOverrun

=============================================================================
