----------------------------- MODULE AicCmdProofs -----------------------------
(***************************************************************************)
(* Proofs about AicCmd for any number of callers and slots: what holds for *)
(* every kind of message (CmdInv), what holds when every message wants a   *)
(* confirmation (PipeInv), and that the manager then implements the line   *)
(* of AicCmdLine.                                                          *)
(*                                                                         *)
(* The list of commands is always made of confirmed commands, then at most *)
(* one in flight, then those not pushed (Order).  That is what the test of *)
(* the last command only, in cmd_mgr_queue, and of the first command only, *)
(* in cmd_mgr_task_process, rely on.                                       *)
(***************************************************************************)
EXTENDS AicCmd, LeastElement, FiniteSetTheorems, SequenceTheorems, TLAPS

Listed == Range(cmds)
Flags  == waitPush \cup waitCfm

\* Steps of a process that has a command, and those that come after the queue.
Holding == {"queue", "settx", "txmsg", "wait", "tout", "free", "drop"}
Pushing == {"settx", "txmsg", "wait", "tout"}

\* cmd_mgr_drain has emptied the list.
Drained == cmds = <<>> /\ state # "INITED" /\ bus = "down"

\* The parts of the type invariant.
ListType == cmds \in Seq(Slots) /\ queue_sz \in Int

SlotType ==
    /\ used \subseteq Slots /\ waitPush \subseteq Slots /\ waitCfm \subseteq Slots
    /\ done \subseteq Slots /\ completed \subseteq Slots
    /\ kind \in [Slots -> AllKinds \cup {"none"}]

ProcType ==
    /\ pc \in [Procs -> {"idle", "queue", "scan", "settx", "txmsg", "wait", "free", "drop",
                         "tout", "wake", "wakedefer"}]
    /\ cmd \in [Procs -> Slots \cup {NoCmd}]
    /\ pc[Worker] \in {"idle", "scan", "settx", "txmsg", "wait", "tout", "free"}
    /\ \A p \in Procs : cmd[p] # NoCmd <=> pc[p] \in Holding

FlagType ==
    /\ state \in {"INITED", "CRASHED", "DEINIT"} /\ bus \in {"up", "down"}
    /\ tpc \in {"idle", "msg", "gone"}
    /\ work \in BOOLEAN /\ cmd_txstate \in BOOLEAN /\ unsent \in BOOLEAN
    /\ overwritten \in BOOLEAN /\ unlinked2 \in BOOLEAN /\ bustx_trgg \in Nat

BusType ==
    /\ cmd_buf \in [c : Slots \cup {NoCmd}, k : AllKinds \cup {"none"}]
    /\ cmd_buf.c # NoCmd => cmd_buf.k \in AllKinds
    /\ fw \in Seq([c : Slots, k : AllKinds])

\* queue_sz counts the list until it is drained.
Size ==
    /\ Len(cmds) <= MaxQueued
    /\ Drained \/ queue_sz = Len(cmds)

\* No command is in the list twice.
Once == \A i, j \in DOMAIN cmds : cmds[i] = cmds[j] => i = j

\* A command is in the hands of one process.
Own == \A p, q \in Procs : cmd[p] = cmd[q] /\ cmd[p] # NoCmd => p = q

\* Slots in the list, in a process's hands or flagged are taken; until the bus
\* is stopped no other one is.
Taken ==
    /\ Listed \subseteq used /\ Flags \subseteq used /\ done \subseteq used
    /\ \A p \in Procs : cmd[p] # NoCmd => cmd[p] \in used
    /\ \A c \in used : kind[c] \in AllKinds
    /\ bus = "up" => \A c \in used : c \in Listed \/ \E p \in Procs : cmd[p] = c

\* Where the command of a process is: before the queue unflagged and not in
\* the list, afterwards in the list until it is drained, and out of it when it
\* is about to be freed.
Place ==
    /\ \A p \in Procs : pc[p] = "queue" =>
           cmd[p] \notin Listed /\ cmd[p] \notin Flags /\ kind[cmd[p]] # "note"
    /\ \A p \in Procs : pc[p] \in Pushing /\ kind[cmd[p]] # "note" =>
           Drained \/ cmd[p] \in Listed
    /\ \A p \in Procs : cmd[p] # NoCmd /\ kind[cmd[p]] = "note" =>
           pc[p] \in {"settx", "txmsg", "drop"} /\ p # Worker
    /\ \A c \in Listed : kind[c] # "note"
    /\ \A p \in Procs : pc[p] \in {"free", "drop"} => cmd[p] \notin Listed

\* What a caller works on is not deferred; what the worker is about to push is
\* the first of the list.
Deferred ==
    /\ \A p \in Procs : cmd[p] # NoCmd /\ (p # Worker \/ pc[p] # "settx") => cmd[p] \notin waitPush
    /\ pc[Worker] = "settx" =>
           Drained \/ (cmds # <<>> /\ cmd[Worker] = cmds[1] /\ cmd[Worker] \in waitPush)

\* Confirmed commands, at most one in flight, then those not pushed.
Order == \A i, j \in DOMAIN cmds : i < j /\ cmds[i] \in Flags => cmds[j] \in waitPush

\* A command with a confirmation buffer has its caller waiting.
Attended ==
    state = "INITED" => \A c \in Listed : kind[c] = "cfm" =>
        \E p \in Procs : cmd[p] = c /\ pc[p] \in Pushing

\* A completion is signalled for a confirmed command, until the list is drained.
Signalled == \A c \in Listed : c \in completed => c \notin waitCfm

CmdInv ==
    /\ ListType /\ SlotType /\ ProcType /\ FlagType /\ BusType
    /\ Size /\ Once /\ Own /\ Taken /\ Place /\ Deferred /\ Order /\ Attended /\ Signalled
    /\ UnlinkedOnce

-----------------------------------------------------------------------------
(* Without messages that want no confirmation *)

\* A command on its way to the firmware is in the list and awaited.
Awaited(c) == c \in Listed /\ c \in waitCfm /\ c \notin waitPush

\* One message at a time between the process that pushes it and the firmware.
Pipe ==
    /\ \A p, q \in Procs : pc[p] \in {"settx", "txmsg"} /\ pc[q] \in {"settx", "txmsg"} => p = q
    /\ \A p \in Procs : pc[p] = "settx" => ~ unsent /\ fw = <<>>
    /\ \A p \in Procs : pc[p] = "txmsg" => unsent /\ ~ cmd_txstate /\ cmd_buf.c = cmd[p]
    /\ unsent => fw = <<>>
    /\ Len(fw) <= 1
    /\ cmd_txstate => unsent
    /\ tpc = "msg" => cmd_txstate
    /\ ~ overwritten

Link ==
    /\ \A c \in Slots : kind[c] # "note"
    /\ \A p \in Procs : pc[p] = "settx" => Drained \/ cmd[p] \in waitCfm
    /\ unsent => Drained \/ (Awaited(cmd_buf.c) /\ cmd_buf.k = kind[cmd_buf.c])
    /\ fw # <<>> => Drained \/ (Awaited(fw[1].c) /\ fw[1].k = kind[fw[1].c])
    /\ \A c \in Listed : c \in waitPush => c \in waitCfm

\* Out of service the list is drained, or the command that timed out stays in
\* it and nobody works on it.
Stuck ==
    state # "INITED" =>
        Drained \/ \E c \in Listed : c \notin waitPush /\ \A p \in Procs : cmd[p] # c

PipeInv == Pipe /\ Link /\ Stuck

-----------------------------------------------------------------------------
(* Constants, the list and the slots *)

\* What the constants are.
LEMMA Consts ==
    /\ NoCmd \notin Slots /\ Worker \in Procs /\ Worker \notin Callers
    /\ Procs = Callers \cup {Worker}
    /\ "none" \notin AllKinds /\ Kinds \subseteq AllKinds /\ AllKinds = {"cfm", "plain", "traffic", "note"}
    /\ MaxQueued \in Nat \ {0}
  BY CmdAssumption DEF NoCmd, Slots, Worker, Procs, AllKinds

\* What it is to be in the list.
LEMMA ListedIs ==
    ASSUME NEW c
    PROVE  c \in Listed <=> \E i \in DOMAIN cmds : c = cmds[i]
  BY DEF Listed, Range

\* Commands of the list are slots, and an empty list holds none.
LEMMA ListedSlots ==
    ASSUME ListType
    PROVE  /\ Listed \subseteq Slots
           /\ DOMAIN cmds = 1..Len(cmds) /\ Len(cmds) \in Nat
           /\ \A i \in DOMAIN cmds : cmds[i] \in Slots /\ cmds[i] \in Listed
           /\ (cmds = <<>> <=> Len(cmds) = 0) /\ (cmds = <<>> <=> Listed = {})
           /\ cmds # <<>> => 1 \in DOMAIN cmds /\ Len(cmds) \in DOMAIN cmds
<1>1. cmds \in Seq(Slots)
  BY DEF ListType
<1>2. DOMAIN cmds = 1..Len(cmds) /\ Len(cmds) \in Nat /\ (cmds = <<>> <=> Len(cmds) = 0)
  BY <1>1
<1>3. \A i \in DOMAIN cmds : cmds[i] \in Slots /\ cmds[i] \in Listed
  BY <1>1, <1>2, ElementOfSeq, ListedIs
<1>4. cmds # <<>> => 1 \in DOMAIN cmds /\ Len(cmds) \in DOMAIN cmds
  BY <1>2
<1>5. cmds = <<>> => DOMAIN cmds = {}
  BY <1>2
<1>6. cmds = <<>> <=> Listed = {}
  BY <1>3, <1>4, <1>5, ListedIs
<1> QED
  BY <1>2, <1>3, <1>4, <1>6, ListedIs

\* rwnx_cmd_malloc finds a free slot.
LEMMA FreshSlot ==
    ASSUME SlotType, used # Slots
    PROVE  Min(Slots \ used) \in Slots \ used
<1>1. PICK T : T = Slots \ used
  OBVIOUS
<1>2. T \subseteq Nat
  BY <1>1 DEF Slots
<1>3. T # {}
  BY <1>1 DEF SlotType
<1> QED
  BY <1>1, <1>2, <1>3, MinIsLeast

\* The list with a command appended.
LEMMA AppendedList ==
    ASSUME ListType, NEW c \in Slots, cmds' = Append(cmds, c)
    PROVE  /\ cmds' \in Seq(Slots) /\ Len(cmds') = Len(cmds) + 1
           /\ DOMAIN cmds' = 1..(Len(cmds) + 1) /\ cmds'[Len(cmds) + 1] = c
           /\ \A i \in DOMAIN cmds : i \in DOMAIN cmds' /\ cmds'[i] = cmds[i]
           /\ \A i \in DOMAIN cmds' : i \in DOMAIN cmds \/ i = Len(cmds) + 1
           /\ Listed' = Listed \cup {c}
<1>1. cmds \in Seq(Slots) /\ Len(cmds) \in Nat /\ DOMAIN cmds = 1..Len(cmds)
  BY DEF ListType
<1>2. /\ cmds' \in Seq(Slots) /\ Len(cmds') = Len(cmds) + 1
      /\ DOMAIN cmds' = 1..(Len(cmds) + 1) /\ cmds'[Len(cmds) + 1] = c
  BY <1>1
<1>3. \A i \in DOMAIN cmds : i \in DOMAIN cmds' /\ cmds'[i] = cmds[i]
  BY <1>1, <1>2
<1>4. \A i \in DOMAIN cmds' : i \in DOMAIN cmds \/ i = Len(cmds) + 1
  BY <1>1, <1>2
<1>5. Len(cmds) + 1 \in DOMAIN cmds'
  BY <1>1, <1>2
<1>6. Listed' = Listed \cup {c}
  <2>1. ASSUME NEW x \in Listed' PROVE x \in Listed \cup {c}
    BY <1>2, <1>3, <1>4 DEF Listed, Range
  <2>2. c \in Listed'
    BY <1>2, <1>5 DEF Listed, Range
  <2>3. ASSUME NEW x \in Listed PROVE x \in Listed'
    BY <1>3 DEF Listed, Range
  <2> QED
    BY <2>1, <2>2, <2>3
<1> QED
  BY <1>2, <1>3, <1>4, <1>6

\* The list without the command at one place.
LEMMA RemovedAt ==
    ASSUME NEW s \in Seq(Slots), NEW n \in DOMAIN s, NEW r,
           r = SubSeq(s, 1, n - 1) \o SubSeq(s, n + 1, Len(s))
    PROVE  /\ r \in Seq(Slots) /\ Len(r) = Len(s) - 1 /\ DOMAIN r = 1..(Len(s) - 1)
           /\ \A i \in 1..(Len(s) - 1) : r[i] = IF i < n THEN s[i] ELSE s[i + 1]
<1>1. Len(s) \in Nat /\ n \in 1..Len(s)
  OBVIOUS
<1>2. PICK a : a = SubSeq(s, 1, n - 1)
  OBVIOUS
<1>3. PICK b : b = SubSeq(s, n + 1, Len(s))
  OBVIOUS
<1>4. a \in Seq(Slots) /\ Len(a) = n - 1 /\ \A i \in 1..(n - 1) : a[i] = s[i]
  BY <1>1, <1>2
<1>5. b \in Seq(Slots) /\ Len(b) = Len(s) - n /\ \A i \in 1..(Len(s) - n) : b[i] = s[n + i]
  BY <1>1, <1>3
<1>0. r = a \o b
  BY <1>2, <1>3
<1>6. r \in Seq(Slots) /\ Len(r) = Len(s) - 1 /\ DOMAIN r = 1..(Len(s) - 1)
  BY <1>0, <1>1, <1>4, <1>5, SMTT(30)
<1>7. ASSUME NEW i \in 1..(Len(s) - 1) PROVE r[i] = IF i < n THEN s[i] ELSE s[i + 1]
  <2>1. CASE i < n
    BY <1>0, <1>1, <1>4, <1>5, <2>1
  <2>2. CASE ~ (i < n)
    <3>1. i - (n - 1) \in 1..(Len(s) - n)
      BY <1>1, <2>2
    <3>2. r[i] = b[i - (n - 1)]
      <4>1. i \in 1..(Len(a) + Len(b)) /\ i > Len(a) /\ i - (n - 1) = i - Len(a)
        BY <1>1, <1>4, <1>5, <2>2
      <4>2. (a \o b)[i] = IF i <= Len(a) THEN a[i] ELSE b[i - Len(a)]
        BY <1>4, <1>5, <4>1, ConcatProperties
      <4>3. ~ (i <= Len(a))
        BY <1>1, <1>4, <4>1
      <4> QED
        BY <1>0, <4>1, <4>2, <4>3
    <3>3. n + (i - (n - 1)) = i + 1
      BY <1>1
    <3> QED
      BY <1>5, <2>2, <3>1, <3>2, <3>3
  <2> QED
    BY <2>1, <2>2
<1> QED
  BY <1>6, <1>7

\* The list without a command.
LEMMA UnlinkedList ==
    ASSUME ListType, Once, NEW c \in Listed, cmds' = Unlink(c)
    PROVE  /\ cmds' \in Seq(Slots) /\ Len(cmds') = Len(cmds) - 1 /\ Listed' = Listed \ {c}
           /\ \E n \in DOMAIN cmds :
                  /\ cmds[n] = c /\ DOMAIN cmds' = 1..(Len(cmds) - 1)
                  /\ \A i \in 1..(Len(cmds) - 1) :
                         cmds'[i] = IF i < n THEN cmds[i] ELSE cmds[i + 1]
<1> DEFINE m == CHOOSE i \in DOMAIN cmds : cmds[i] = c
<1>1. cmds \in Seq(Slots) /\ Len(cmds) \in Nat /\ DOMAIN cmds = 1..Len(cmds)
  BY DEF ListType
<1>2. m \in DOMAIN cmds /\ cmds[m] = c
  BY ListedIs
<1>3. cmds' = SubSeq(cmds, 1, m - 1) \o SubSeq(cmds, m + 1, Len(cmds))
  BY DEF Unlink, Listed
<1> HIDE DEF m
<1>4. PICK n \in DOMAIN cmds : n = m
  BY <1>2
<1>5. cmds[n] = c
  BY <1>2, <1>4
<1>6. PICK s \in Seq(Slots) : s = cmds
  BY <1>1
<1>7. PICK r : r = cmds'
  OBVIOUS
<1>8. r = SubSeq(s, 1, n - 1) \o SubSeq(s, n + 1, Len(s))
  BY <1>3, <1>4, <1>6, <1>7
<1>9. /\ r \in Seq(Slots) /\ Len(r) = Len(s) - 1 /\ DOMAIN r = 1..(Len(s) - 1)
      /\ \A i \in 1..(Len(s) - 1) : r[i] = IF i < n THEN s[i] ELSE s[i + 1]
  <2>1. n \in DOMAIN s
    BY <1>6
  <2> QED
    BY <2>1, <1>8, RemovedAt
<1>10. /\ cmds' \in Seq(Slots) /\ Len(cmds') = Len(cmds) - 1 /\ DOMAIN cmds' = 1..(Len(cmds) - 1)
       /\ \A i \in 1..(Len(cmds) - 1) : cmds'[i] = IF i < n THEN cmds[i] ELSE cmds[i + 1]
  BY <1>6, <1>7, <1>9
<1>11. Listed' = Listed \ {c}
  <2>1. ASSUME NEW x \in Listed' PROVE x \in Listed /\ x # c
    <3>1. PICK i \in 1..(Len(cmds) - 1) : x = cmds'[i]
      BY <1>10 DEF Listed, Range
    <3>2. i \in DOMAIN cmds /\ i + 1 \in DOMAIN cmds
      BY <1>1, <3>1
    <3>3. CASE i < n
      <4>1. x = cmds[i] /\ i # n
        BY <1>1, <1>10, <3>1, <3>3
      <4> QED
        BY <1>5, <3>2, <4>1, ListedIs DEF Once
    <3>4. CASE ~ (i < n)
      <4>1. x = cmds[i + 1] /\ i + 1 # n
        BY <1>1, <1>10, <3>1, <3>4
      <4> QED
        BY <1>5, <3>2, <4>1, ListedIs DEF Once
    <3> QED
      BY <3>3, <3>4
  <2>2. ASSUME NEW x \in Listed, x # c PROVE x \in Listed'
    <3>1. PICK i \in DOMAIN cmds : x = cmds[i]
      BY ListedIs
    <3>2. i # n
      BY <1>5, <2>2, <3>1
    <3>3. CASE i < n
      <4>1. i \in 1..(Len(cmds) - 1) /\ cmds'[i] = x
        BY <1>1, <1>10, <3>1, <3>3
      <4> QED
        BY <1>10, <4>1 DEF Listed, Range
    <3>4. CASE i > n
      <4>1. i - 1 \in 1..(Len(cmds) - 1) /\ (i - 1) + 1 = i /\ ~ (i - 1 < n)
        BY <1>1, <3>4
      <4>2. cmds'[i - 1] = x
        BY <1>10, <3>1, <4>1
      <4> QED
        BY <1>10, <4>1, <4>2 DEF Listed, Range
    <3> QED
      BY <1>1, <3>2, <3>3, <3>4
  <2> QED
    BY <2>1, <2>2
<1> QED
  BY <1>5, <1>10, <1>11

\* cmd_mgr_msgind finds the first command of this kind that is awaited.
LEMMA MatchingIs ==
    ASSUME ListType, NEW k
    PROVE  \/ /\ Matching(k) = NoCmd
              /\ \A i \in DOMAIN cmds : ~ (kind[cmds[i]] = k /\ cmds[i] \in waitCfm)
           \/ \E i \in DOMAIN cmds :
                  /\ Matching(k) = cmds[i] /\ kind[cmds[i]] = k /\ cmds[i] \in waitCfm
                  /\ \A j \in DOMAIN cmds : kind[cmds[j]] = k /\ cmds[j] \in waitCfm => i <= j
<1>1. PICK m : m = {i \in DOMAIN cmds : kind[cmds[i]] = k /\ cmds[i] \in waitCfm}
  OBVIOUS
<1>2. m \subseteq Nat
  BY <1>1, ListedSlots
<1>3. Matching(k) = IF m = {} THEN NoCmd ELSE cmds[Min(m)]
  BY <1>1 DEF Matching
<1>4. CASE m = {}
  BY <1>1, <1>3, <1>4
<1>5. CASE m # {}
  <2>1. Min(m) \in m /\ \A y \in m : Min(m) <= y
    BY <1>2, <1>5, MinIsLeast
  <2>2. PICK i \in m : i = Min(m)
    BY <2>1
  <2>3. Matching(k) = cmds[i] /\ \A y \in m : i <= y
    BY <1>3, <1>5, <2>1, <2>2
  <2> QED
    BY <1>1, <2>2, <2>3
<1> QED
  BY <1>4, <1>5

-----------------------------------------------------------------------------
(* Every step keeps the invariant *)

\* A caller takes a free slot.
LEMMA SendMsgKeeps ==
    ASSUME CmdInv, NEW p \in Callers, NEW k \in Kinds, SendMsg(p, k)
    PROVE  CmdInv'
<1> USE Consts DEF CmdInv, mgrVars, busVars, histVars, Holding, Pushing, Flags
<1>1. PICK c : c = Min(Slots \ used)
  OBVIOUS
<1>2. c \in Slots /\ c \notin used
  BY <1>1, FreshSlot DEF SendMsg
<1>3. /\ pc[p] = "idle" /\ bus = "up" /\ p \in Procs /\ p # Worker
      /\ used' = used \cup {c} /\ kind' = [kind EXCEPT ![c] = k]
      /\ cmd' = [cmd EXCEPT ![p] = c]
      /\ pc' = [pc EXCEPT ![p] = IF k = "note" THEN "settx" ELSE "queue"]
      /\ UNCHANGED <<cmds, queue_sz, state, work, waitPush, waitCfm, done, completed, bus,
                     cmd_buf, cmd_txstate, bustx_trgg, tpc, fw, unsent, overwritten, unlinked2>>
  BY <1>1 DEF SendMsg
<1>4. /\ \A d \in Slots : d # c => kind'[d] = kind[d]
      /\ kind'[c] = k /\ k \in AllKinds
      /\ \A q \in Procs : q # p => cmd'[q] = cmd[q] /\ pc'[q] = pc[q]
      /\ cmd'[p] = c /\ pc'[p] = IF k = "note" THEN "settx" ELSE "queue"
      /\ Listed' = Listed /\ (Drained' <=> Drained) /\ Flags' = Flags
  BY <1>2, <1>3 DEF SlotType, ProcType, Listed, Drained, Flags
<1>5. c \notin Listed /\ c \notin Flags /\ \A q \in Procs : cmd[q] # c
  BY <1>2 DEF Taken
<1>6. ListType' /\ FlagType' /\ BusType' /\ Size' /\ Once' /\ Order' /\ Signalled'
      /\ UnlinkedOnce'
  BY <1>3, <1>4 DEF ListType, FlagType, BusType, Size, Once, Order, Signalled, UnlinkedOnce
<1>7. SlotType'
  BY <1>2, <1>3 DEF SlotType
<1>8. ProcType'
  <2>1. /\ pc' \in [Procs -> {"idle", "queue", "scan", "settx", "txmsg", "wait", "free", "drop",
                              "tout", "wake", "wakedefer"}]
        /\ cmd' \in [Procs -> Slots \cup {NoCmd}]
    BY <1>2, <1>3 DEF ProcType
  <2>2. pc'[Worker] \in {"idle", "scan", "settx", "txmsg", "wait", "tout", "free"}
    BY <1>3, <1>4 DEF ProcType
  <2>3. \A q \in Procs : cmd'[q] # NoCmd <=> pc'[q] \in Holding
    BY <1>2, <1>4 DEF ProcType
  <2> QED
    BY <2>1, <2>2, <2>3 DEF ProcType
<1>9. Own'
  BY <1>4, <1>5 DEF Own
<1>10. Taken'
  <2>1. \A d \in used' : kind'[d] \in AllKinds
    BY <1>3, <1>4 DEF Taken, SlotType
  <2>2. \A d \in used' : d \in Listed \/ \E q \in Procs : cmd'[q] = d
    <3>1. ASSUME NEW d \in used, d \notin Listed PROVE \E q \in Procs : cmd'[q] = d
      <4>1. PICK q \in Procs : cmd[q] = d
        BY <1>3, <3>1 DEF Taken
      <4>2. q # p
        BY <1>3, <4>1 DEF ProcType, SlotType
      <4> QED
        BY <1>4, <4>1, <4>2
    <3> QED
      BY <1>3, <1>4, <3>1
  <2> QED
    BY <1>3, <1>4, <2>1, <2>2 DEF Taken
<1>11. Place'
  <2>1. Listed \subseteq Slots
    BY ListedSlots
  <2>2. \A q \in Procs : q # p /\ cmd[q] # NoCmd => kind'[cmd'[q]] = kind[cmd[q]]
    BY <1>4, <1>5 DEF ProcType
  <2>3. \A d \in Listed : kind'[d] = kind[d]
    BY <1>4, <1>5, <2>1
  <2>4. \A q \in Procs : pc[q] \in Holding => cmd[q] # NoCmd
    BY DEF ProcType
  <2> QED
    BY <1>3, <1>4, <1>5, <2>2, <2>3, <2>4 DEF Place
<1>12. Deferred'
  BY <1>3, <1>4, <1>5 DEF Deferred, Drained
<1>13. Attended'
  <2>1. ASSUME NEW d \in Listed, state = "INITED", kind[d] = "cfm"
        PROVE  \E q \in Procs : cmd'[q] = d /\ pc'[q] \in Pushing
    <3>1. PICK q \in Procs : cmd[q] = d /\ pc[q] \in Pushing
      BY <2>1 DEF Attended
    <3>2. q # p
      BY <1>3, <3>1
    <3> QED
      BY <1>4, <3>1, <3>2
  <2>2. \A d \in Listed : kind'[d] = kind[d]
    BY <1>4, <1>5, ListedSlots
  <2> QED
    BY <1>3, <1>4, <2>1, <2>2 DEF Attended
<1> QED
  BY <1>6, <1>7, <1>8, <1>9, <1>10, <1>11, <1>12, <1>13

\* A command joins the list.
LEMMA QueueKeeps ==
    ASSUME CmdInv, NEW p \in Procs, Queue(p)
    PROVE  CmdInv'
<1> USE Consts DEF CmdInv, busVars, histVars, Holding, Pushing, Flags
<1>1. PICK c : c = cmd[p]
  OBVIOUS
<1>2. /\ pc[p] = "queue" /\ c \in Slots /\ c \notin Listed /\ c \notin Flags
      /\ kind[c] # "note" /\ p # Worker /\ c # NoCmd /\ c \in used
  BY <1>1 DEF Queue, ProcType, Place, Taken
<1>3. /\ state = "INITED" /\ (kind[c] = "cfm" => cmds = <<>>)
      /\ (cmds # <<>> => queue_sz # MaxQueued)
      /\ cmds' = Append(cmds, c) /\ queue_sz' = queue_sz + 1
      /\ waitCfm' = waitCfm \cup {c} /\ completed' = completed \ {c}
      /\ UNCHANGED <<state, work, used, kind, done, bus, cmd_buf, cmd_txstate, bustx_trgg, tpc,
                     fw, unsent, overwritten, unlinked2>>
  BY <1>1 DEF Queue
<1>4. \/ /\ DeferPush(c) /\ waitPush' = waitPush \cup {c}
         /\ pc' = [pc EXCEPT ![p] = pc'[p]] /\ pc'[p] \in {"idle", "wakedefer"}
         /\ cmd' = [cmd EXCEPT ![p] = NoCmd]
      \/ /\ ~ DeferPush(c) /\ waitPush' = waitPush
         /\ pc' = [pc EXCEPT ![p] = "settx"] /\ cmd' = cmd
  <2>1. CASE DeferPush(c)
    <3>1. waitPush' = waitPush \cup {c} /\ cmd' = [cmd EXCEPT ![p] = NoCmd]
      BY <1>1, <2>1 DEF Queue, Return
    <3>2. pc' = [pc EXCEPT ![p] = "wakedefer"] \/ pc' = [pc EXCEPT ![p] = "idle"]
      BY <1>1, <2>1 DEF Queue, Return
    <3>3. pc' = [pc EXCEPT ![p] = pc'[p]] /\ pc'[p] \in {"idle", "wakedefer"}
      BY <3>2 DEF ProcType
    <3> QED
      BY <2>1, <3>1, <3>3
  <2>2. CASE ~ DeferPush(c)
    BY <1>1, <2>2 DEF Queue
  <2> QED
    BY <2>1, <2>2
<1>5. /\ cmds' \in Seq(Slots) /\ Len(cmds') = Len(cmds) + 1
      /\ DOMAIN cmds' = 1..(Len(cmds) + 1) /\ cmds'[Len(cmds) + 1] = c
      /\ \A i \in DOMAIN cmds : i \in DOMAIN cmds' /\ cmds'[i] = cmds[i]
      /\ \A i \in DOMAIN cmds' : i \in DOMAIN cmds \/ i = Len(cmds) + 1
      /\ Listed' = Listed \cup {c}
  BY <1>2, <1>3, AppendedList
<1>6. /\ Len(cmds) \in Nat /\ DOMAIN cmds = 1..Len(cmds) /\ (cmds = <<>> <=> Len(cmds) = 0)
      /\ \A i \in DOMAIN cmds : cmds[i] \in Listed
  BY ListedSlots
<1>7. /\ ~ Drained /\ ~ Drained' /\ cmds' # <<>>
      /\ \A q \in Procs : q # p => cmd'[q] = cmd[q] /\ pc'[q] = pc[q] /\ cmd[q] # c
      /\ Flags' = Flags \cup {c}
  <2>1. ~ Drained /\ ~ Drained'
    BY <1>3 DEF Drained
  <2>2. cmds' # <<>>
    BY <1>5, <1>6
  <2>3. \A q \in Procs : q # p => cmd'[q] = cmd[q] /\ pc'[q] = pc[q]
    BY <1>4 DEF ProcType
  <2>4. \A q \in Procs : q # p => cmd[q] # c
    BY <1>1, <1>2 DEF Own
  <2>5. Flags' = Flags \cup {c}
    BY <1>3, <1>4
  <2> QED
    BY <2>1, <2>2, <2>3, <2>4, <2>5
<1>8. ListType' /\ SlotType' /\ FlagType' /\ BusType' /\ UnlinkedOnce'
  <2>1. ListType' /\ FlagType' /\ BusType' /\ UnlinkedOnce'
    BY <1>3, <1>5 DEF ListType, FlagType, BusType, UnlinkedOnce
  <2>2. waitPush' \subseteq Slots
    BY <1>2, <1>4 DEF SlotType
  <2>3. SlotType'
    BY <1>2, <1>3, <2>2 DEF SlotType
  <2> QED
    BY <2>1, <2>3
<1>9. ProcType'
  <2>1. /\ pc' \in [Procs -> {"idle", "queue", "scan", "settx", "txmsg", "wait", "free", "drop",
                              "tout", "wake", "wakedefer"}]
        /\ cmd' \in [Procs -> Slots \cup {NoCmd}]
    BY <1>4 DEF ProcType
  <2>2. pc'[Worker] \in {"idle", "scan", "settx", "txmsg", "wait", "tout", "free"}
    BY <1>2, <1>7 DEF ProcType
  <2>3. cmd'[p] # NoCmd <=> pc'[p] \in Holding
    BY <1>1, <1>2, <1>4 DEF ProcType
  <2>4. \A q \in Procs : cmd'[q] # NoCmd <=> pc'[q] \in Holding
    BY <1>7, <2>3 DEF ProcType
  <2> QED
    BY <2>1, <2>2, <2>4 DEF ProcType
<1>10. Size'
  <2>1. queue_sz = Len(cmds)
    BY <1>7 DEF Size
  <2>2. Len(cmds) + 1 <= MaxQueued
    <3>1. Len(cmds) <= MaxQueued /\ MaxQueued \in Nat /\ MaxQueued > 0
      BY Consts DEF Size
    <3>2. Len(cmds) # MaxQueued
      BY <1>3, <1>6, <2>1, <3>1
    <3>3. PICK n \in Nat : n = Len(cmds)
      BY <1>6
    <3>4. n <= MaxQueued /\ n # MaxQueued
      BY <3>1, <3>2, <3>3
    <3>5. n + 1 <= MaxQueued
      BY <3>1, <3>4
    <3> QED
      BY <3>3, <3>5
  <2> QED
    BY <1>3, <1>5, <2>1, <2>2 DEF Size
<1>11. Once'
  BY <1>2, <1>5, <1>6 DEF Once
<1>12. Own'
  BY <1>1, <1>4, <1>7 DEF Own, ProcType
<1>13. Taken'
  <2>1. ASSUME bus = "up", NEW d \in used, d \notin Listed'
        PROVE  \E q \in Procs : cmd'[q] = d
    <3>1. PICK q \in Procs : cmd[q] = d
      BY <1>5, <2>1 DEF Taken
    <3>2. q # p
      BY <1>1, <1>5, <2>1, <3>1
    <3> QED
      BY <1>7, <3>1, <3>2
  <2>2. \A q \in Procs : cmd'[q] # NoCmd => cmd'[q] \in used
    BY <1>4 DEF Taken, ProcType
  <2>3. Listed' \subseteq used /\ Flags' \subseteq used
    BY <1>2, <1>5, <1>7 DEF Taken
  <2> QED
    BY <1>3, <2>1, <2>2, <2>3 DEF Taken
<1>14. Place'
  <2>1. \A q \in Procs : pc'[q] = "queue" => q # p /\ cmd'[q] \notin Listed' /\ cmd'[q] \notin Flags'
                                             /\ kind[cmd'[q]] # "note"
    BY <1>4, <1>5, <1>7 DEF Place, ProcType
  <2>2. ASSUME NEW q \in Procs, pc'[q] \in Pushing, kind[cmd'[q]] # "note"
        PROVE  cmd'[q] \in Listed'
    <3>1. CASE q = p
      BY <1>1, <1>4, <1>5, <2>2, <3>1 DEF ProcType
    <3>2. CASE q # p
      BY <1>5, <1>7, <2>2, <3>2 DEF Place
    <3> QED
      BY <3>1, <3>2
  <2>3. ASSUME NEW q \in Procs, cmd'[q] # NoCmd, kind[cmd'[q]] = "note"
        PROVE  pc'[q] \in {"settx", "txmsg", "drop"} /\ q # Worker
    <3>1. CASE q = p
      BY <1>1, <1>2, <1>4, <2>3, <3>1 DEF ProcType
    <3>2. CASE q # p
      BY <1>7, <2>3, <3>2 DEF Place
    <3> QED
      BY <3>1, <3>2
  <2>4. \A d \in Listed' : kind[d] # "note"
    BY <1>2, <1>5 DEF Place
  <2>5. \A q \in Procs : pc'[q] \in {"free", "drop"} => cmd'[q] \notin Listed'
    BY <1>4, <1>5, <1>7 DEF Place, ProcType
  <2> QED
    BY <1>3, <2>1, <2>2, <2>3, <2>4, <2>5 DEF Place
<1>15. Deferred'
  <2>1. ASSUME NEW q \in Procs, cmd'[q] # NoCmd, q # Worker \/ pc'[q] # "settx"
        PROVE  cmd'[q] \notin waitPush'
    <3>1. CASE q = p
      BY <1>1, <1>2, <1>4, <2>1, <3>1 DEF ProcType
    <3>2. CASE q # p
      BY <1>4, <1>7, <2>1, <3>2 DEF Deferred
    <3> QED
      BY <3>1, <3>2
  <2>2. ASSUME pc'[Worker] = "settx"
        PROVE  cmds' # <<>> /\ cmd'[Worker] = cmds'[1] /\ cmd'[Worker] \in waitPush'
    <3>1. cmds # <<>> /\ cmd[Worker] = cmds[1] /\ cmd[Worker] \in waitPush
      BY <1>2, <1>7, <2>2 DEF Deferred
    <3>2. 1 \in DOMAIN cmds
      BY <1>6, <3>1
    <3> QED
      BY <1>2, <1>4, <1>5, <1>7, <3>1, <3>2
  <2> QED
    BY <2>1, <2>2 DEF Deferred
<1>16. Order'
  <2> SUFFICES ASSUME NEW i \in DOMAIN cmds', NEW j \in DOMAIN cmds', i < j,
                      cmds'[i] \in Flags'
               PROVE  cmds'[j] \in waitPush'
    BY DEF Order
  <2>1. i \in DOMAIN cmds /\ cmds'[i] = cmds[i] /\ cmds[i] \in Flags
    <3>1. i \in DOMAIN cmds
      BY <1>5, <1>6
    <3> QED
      BY <1>2, <1>5, <1>6, <1>7, <3>1
  <2>2. CASE j \in DOMAIN cmds
    BY <1>4, <1>5, <2>1, <2>2 DEF Order
  <2>3. CASE j = Len(cmds) + 1
    <3>1. cmds # <<>> /\ Len(cmds) \in DOMAIN cmds
      BY <1>6, <2>1
    <3>2. cmds[Len(cmds)] \in Flags
      <4>1. CASE i = Len(cmds)
        BY <2>1, <4>1
      <4>2. CASE i < Len(cmds)
        BY <2>1, <3>1, <4>2 DEF Order
      <4> QED
        BY <1>6, <2>1, <4>1, <4>2
    <3>3. DeferPush(c)
      BY <3>1, <3>2 DEF DeferPush
    <3> QED
      BY <1>4, <1>5, <2>3, <3>3
  <2> QED
    BY <1>5, <2>2, <2>3
<1>17. Attended'
  <2> SUFFICES ASSUME NEW d \in Listed', kind[d] = "cfm"
               PROVE  \E q \in Procs : cmd'[q] = d /\ pc'[q] \in Pushing
    BY <1>3 DEF Attended
  <2>1. CASE d = c
    <3>1. ~ DeferPush(c)
      BY <1>3, <2>1 DEF DeferPush
    <3>2. cmd'[p] = c /\ pc'[p] = "settx"
      BY <1>1, <1>4, <3>1 DEF ProcType
    <3> QED
      BY <2>1, <3>2
  <2>2. CASE d # c
    <3>1. PICK q \in Procs : cmd[q] = d /\ pc[q] \in Pushing
      BY <1>3, <1>5, <2>2 DEF Attended
    <3>2. q # p
      BY <1>1, <2>2, <3>1
    <3> QED
      BY <1>7, <3>1, <3>2
  <2> QED
    BY <2>1, <2>2
<1>18. Signalled'
  BY <1>3, <1>5 DEF Signalled
<1> QED
  BY <1>8, <1>9, <1>10, <1>11, <1>12, <1>13, <1>14, <1>15, <1>16, <1>17, <1>18

\* A command leaves the list, its slot still taken; after a drain it has left
\* already.
LEMMA WaitDoneKeeps ==
    ASSUME CmdInv, NEW p \in Procs, WaitDone(p)
    PROVE  CmdInv'
<1> USE Consts DEF CmdInv, busVars, Holding, Pushing, Flags
<1>1. PICK c : c = cmd[p]
  OBVIOUS
<1>2. /\ pc[p] = "wait" /\ c \in Slots /\ c \in completed /\ c \notin waitPush /\ c # NoCmd
      /\ kind[c] # "note"
  BY <1>1 DEF WaitDone, ProcType, Deferred, Place
<1>3. /\ cmds' = Unlink(c) /\ queue_sz' = queue_sz - 1 /\ completed' = completed \ {c}
      /\ unlinked2' = (unlinked2 \/ c \notin Range(cmds))
      /\ pc' = [pc EXCEPT ![p] = "free"]
      /\ UNCHANGED <<state, work, used, kind, waitPush, waitCfm, done, cmd, bus, cmd_buf,
                     cmd_txstate, bustx_trgg, tpc, fw, unsent, overwritten>>
  BY <1>1 DEF WaitDone
<1>4. /\ \A q \in Procs : q # p => pc'[q] = pc[q] /\ cmd[q] # c
      /\ pc'[p] = "free" /\ Flags' = Flags
  <2>1. \A q \in Procs : q # p => cmd[q] # c
    BY <1>1, <1>2 DEF Own
  <2> QED
    BY <1>3, <2>1 DEF ProcType
<1>5. /\ cmds' \in Seq(Slots) /\ Listed' = Listed \ {c}
      /\ \A i, j \in DOMAIN cmds' : \E k, l \in DOMAIN cmds :
             /\ cmds'[i] = cmds[k] /\ cmds'[j] = cmds[l]
             /\ (i = j <=> k = l) /\ (i < j => k < l)
      /\ cmds # <<>> /\ cmds[1] # c => cmds' # <<>> /\ cmds'[1] = cmds[1]
      /\ \/ c \notin Listed /\ cmds' = cmds /\ Drained
         \/ c \in Listed /\ Len(cmds') = Len(cmds) - 1
  <2>1. CASE c \in Listed
    <3>1. /\ cmds' \in Seq(Slots) /\ Len(cmds') = Len(cmds) - 1 /\ Listed' = Listed \ {c}
          /\ \E n \in DOMAIN cmds :
                 /\ cmds[n] = c /\ DOMAIN cmds' = 1..(Len(cmds) - 1)
                 /\ \A i \in 1..(Len(cmds) - 1) :
                        cmds'[i] = IF i < n THEN cmds[i] ELSE cmds[i + 1]
      BY <1>3, <2>1, UnlinkedList
    <3>2. PICK n \in DOMAIN cmds :
                 /\ cmds[n] = c /\ DOMAIN cmds' = 1..(Len(cmds) - 1)
                 /\ \A i \in 1..(Len(cmds) - 1) :
                        cmds'[i] = IF i < n THEN cmds[i] ELSE cmds[i + 1]
      BY <3>1
    <3>3. DOMAIN cmds = 1..Len(cmds) /\ Len(cmds) \in Nat
      BY ListedSlots
    <3> DEFINE at(i) == IF i < n THEN i ELSE i + 1
    <3>4. \A i \in DOMAIN cmds' : at(i) \in DOMAIN cmds /\ cmds'[i] = cmds[at(i)]
      BY <3>2, <3>3
    <3>5. \A i, j \in DOMAIN cmds' : (i = j <=> at(i) = at(j)) /\ (i < j => at(i) < at(j))
      BY <3>2, <3>3
    <3>6. ASSUME cmds # <<>>, cmds[1] # c PROVE cmds' # <<>> /\ cmds'[1] = cmds[1]
      <4>1. n # 1
        BY <3>2, <3>6
      <4>2. 1 \in DOMAIN cmds' /\ 1 < n
        BY <3>2, <3>3, <4>1
      <4> QED
        BY <3>1, <3>2, <3>3, <4>2
    <3> HIDE DEF at
    <3>7. \A i, j \in DOMAIN cmds' : \E k, l \in DOMAIN cmds :
             /\ cmds'[i] = cmds[k] /\ cmds'[j] = cmds[l]
             /\ (i = j <=> k = l) /\ (i < j => k < l)
      BY <3>4, <3>5
    <3> QED
      BY <2>1, <3>1, <3>6, <3>7
  <2>2. CASE c \notin Listed
    <3>1. cmds' = cmds /\ Drained
      BY <1>1, <1>2, <1>3, <2>2 DEF Unlink, Listed, Place
    <3>2. cmds = <<>> /\ DOMAIN cmds = {}
      BY <3>1 DEF Drained
    <3> QED
      BY <2>2, <3>1, <3>2 DEF ListType, Listed
  <2> QED
    BY <2>1, <2>2
<1>6. (Drained => Drained') /\ (c \notin Listed => Drained)
  BY <1>3, <1>5 DEF Drained, Unlink, Listed, Range
<1>7. ListType' /\ SlotType' /\ ProcType' /\ FlagType' /\ BusType'
  <2>1. ListType'
    BY <1>3, <1>5 DEF ListType
  <2>2. SlotType'
    BY <1>3 DEF SlotType
  <2>3. /\ pc' \in [Procs -> {"idle", "queue", "scan", "settx", "txmsg", "wait", "free", "drop",
                              "tout", "wake", "wakedefer"}]
        /\ cmd' \in [Procs -> Slots \cup {NoCmd}]
    BY <1>3 DEF ProcType
  <2>4. pc'[Worker] \in {"idle", "scan", "settx", "txmsg", "wait", "tout", "free"}
    BY <1>4 DEF ProcType
  <2>5. \A q \in Procs : cmd'[q] # NoCmd <=> pc'[q] \in Holding
    BY <1>2, <1>3, <1>4 DEF ProcType
  <2>6. FlagType' /\ BusType'
    BY <1>3 DEF FlagType, BusType
  <2> QED
    BY <2>1, <2>2, <2>3, <2>4, <2>5, <2>6 DEF ProcType
<1>8. Size'
  <2>1. CASE c \notin Listed
    BY <1>5, <1>6, <2>1 DEF Size
  <2>2. CASE c \in Listed
    <3>1. queue_sz = Len(cmds) /\ Len(cmds) \in Nat
      BY <2>2, ListedSlots DEF Size, Drained
    <3> QED
      BY <1>3, <1>5, <2>2, <3>1 DEF Size
  <2> QED
    BY <2>1, <2>2
<1>9. Once' /\ Own'
  BY <1>3, <1>5 DEF Once, Own
<1>10. Taken'
  <2>1. ASSUME bus = "up", NEW d \in used, d \notin Listed'
        PROVE  \E q \in Procs : cmd[q] = d
    BY <1>1, <1>5, <2>1 DEF Taken
  <2> QED
    BY <1>3, <1>4, <1>5, <2>1 DEF Taken
<1>11. Place'
  <2>1. ASSUME NEW q \in Procs, pc'[q] \in Pushing, kind[cmd[q]] # "note"
        PROVE  Drained' \/ cmd[q] \in Listed'
    <3>1. q # p /\ pc[q] \in Pushing /\ cmd[q] # c
      BY <1>4, <2>1
    <3>2. Drained \/ cmd[q] \in Listed
      BY <2>1, <3>1 DEF Place
    <3> QED
      BY <1>5, <1>6, <3>1, <3>2
  <2>2. ASSUME NEW q \in Procs, cmd[q] # NoCmd, kind[cmd[q]] = "note"
        PROVE  pc'[q] \in {"settx", "txmsg", "drop"} /\ q # Worker
    BY <1>1, <1>2, <1>4, <2>2 DEF Place
  <2>3. \A q \in Procs : pc'[q] \in {"free", "drop"} => cmd[q] \notin Listed'
    BY <1>1, <1>4, <1>5 DEF Place
  <2>4. ASSUME NEW q \in Procs, pc'[q] = "queue"
        PROVE  cmd[q] \notin Listed' /\ cmd[q] \notin Flags' /\ kind[cmd[q]] # "note"
    <3>1. pc[q] = "queue"
      BY <1>4, <2>4
    <3> QED
      BY <1>4, <1>5, <3>1 DEF Place
  <2>5. \A d \in Listed' : kind[d] # "note"
    BY <1>5 DEF Place
  <2> QED
    BY <1>3, <2>1, <2>2, <2>3, <2>4, <2>5 DEF Place
<1>12. Deferred'
  <2>1. ASSUME NEW q \in Procs, cmd[q] # NoCmd, q # Worker \/ pc'[q] # "settx"
        PROVE  cmd[q] \notin waitPush
    BY <1>1, <1>2, <1>4, <2>1 DEF Deferred
  <2>2. ASSUME pc'[Worker] = "settx", ~ Drained'
        PROVE  cmds' # <<>> /\ cmd[Worker] = cmds'[1] /\ cmd[Worker] \in waitPush
    <3>1. Worker # p /\ pc[Worker] = "settx" /\ cmd[Worker] # c
      BY <1>4, <2>2
    <3>2. cmds # <<>> /\ cmd[Worker] = cmds[1] /\ cmd[Worker] \in waitPush
      BY <1>6, <2>2, <3>1 DEF Deferred
    <3> QED
      BY <1>5, <3>1, <3>2
  <2> QED
    BY <1>3, <2>1, <2>2 DEF Deferred
<1>13. Order'
  <2> SUFFICES ASSUME NEW i \in DOMAIN cmds', NEW j \in DOMAIN cmds', i < j,
                      cmds'[i] \in Flags'
               PROVE  cmds'[j] \in waitPush'
    BY DEF Order
  <2>1. PICK k \in DOMAIN cmds, l \in DOMAIN cmds :
           cmds'[i] = cmds[k] /\ cmds'[j] = cmds[l] /\ k < l
    BY <1>5
  <2> QED
    BY <1>3, <1>4, <2>1 DEF Order
<1>14. Attended'
  <2> SUFFICES ASSUME state = "INITED", NEW d \in Listed', kind[d] = "cfm"
               PROVE  \E q \in Procs : cmd[q] = d /\ pc'[q] \in Pushing
    BY <1>3 DEF Attended
  <2>1. d \in Listed /\ d # c
    BY <1>5
  <2>2. PICK q \in Procs : cmd[q] = d /\ pc[q] \in Pushing
    BY <2>1 DEF Attended
  <2>3. q # p
    BY <1>1, <2>1, <2>2
  <2> QED
    BY <1>4, <2>2, <2>3
<1>15. Signalled' /\ UnlinkedOnce'
  <2>1. Signalled'
    BY <1>3, <1>5 DEF Signalled
  <2>2. UnlinkedOnce'
    BY <1>3, <1>6 DEF UnlinkedOnce, Listed, Drained
  <2> QED
    BY <2>1, <2>2
<1> QED
  BY <1>7, <1>8, <1>9, <1>10, <1>11, <1>12, <1>13, <1>14, <1>15

\* A slot is given back: its command is in no list and with no other process.
LEMMA CmdFreeKeeps ==
    ASSUME CmdInv, NEW p \in Procs, CmdFree(p)
    PROVE  CmdInv'
<1> USE Consts DEF CmdInv, mgrVars, busVars, histVars, Holding, Pushing
<1>1. PICK c : c = cmd[p]
  OBVIOUS
<1>2. /\ pc[p] \in {"free", "drop"} /\ c \in Slots /\ c # NoCmd /\ c \notin Listed
      /\ (p = Worker => pc[p] = "free")
  BY <1>1 DEF CmdFree, ProcType, Place
<1>3. /\ used' = used \ {c} /\ waitPush' = waitPush \ {c} /\ waitCfm' = waitCfm \ {c}
      /\ done' = done \ {c} /\ kind' = [kind EXCEPT ![c] = "none"]
      /\ pc' = [pc EXCEPT ![p] = pc'[p]] /\ cmd' = [cmd EXCEPT ![p] = NoCmd]
      /\ pc'[p] \in {"idle", "scan", "wake"} /\ (p = Worker => pc'[p] = "scan")
      /\ UNCHANGED <<cmds, queue_sz, state, work, completed, bus, cmd_buf, cmd_txstate,
                     bustx_trgg, tpc, fw, unsent, overwritten, unlinked2>>
  <2>1. PICK v \in {"idle", "scan", "wake"} :
           pc' = [pc EXCEPT ![p] = v] /\ (p = Worker => v = "scan")
    BY <1>2 DEF CmdFree
  <2>2. pc'[p] = v
    BY <2>1 DEF ProcType
  <2> QED
    BY <1>1, <2>1, <2>2 DEF CmdFree
<1>4. /\ \A q \in Procs : q # p => cmd'[q] = cmd[q] /\ pc'[q] = pc[q] /\ cmd[q] # c
      /\ cmd'[p] = NoCmd
      /\ \A d \in Slots : d # c => kind'[d] = kind[d]
      /\ Flags' = Flags \ {c} /\ Listed' = Listed /\ (Drained' <=> Drained)
  <2>1. \A q \in Procs : q # p => cmd[q] # c
    BY <1>1, <1>2 DEF Own
  <2>2. Flags' = Flags \ {c} /\ Listed' = Listed /\ (Drained' <=> Drained)
    BY <1>3 DEF Flags, Listed, Drained
  <2> QED
    BY <1>2, <1>3, <2>1, <2>2 DEF ProcType, SlotType
<1>5. /\ Listed \subseteq Slots /\ \A d \in Listed : d # c /\ kind'[d] = kind[d]
      /\ \A i \in DOMAIN cmds : cmds[i] \in Listed
  BY <1>2, <1>4, ListedSlots
<1>6. ListType' /\ SlotType' /\ FlagType' /\ BusType'
  BY <1>2, <1>3 DEF ListType, SlotType, FlagType, BusType
<1>7. ProcType'
  <2>1. /\ pc' \in [Procs -> {"idle", "queue", "scan", "settx", "txmsg", "wait", "free", "drop",
                              "tout", "wake", "wakedefer"}]
        /\ cmd' \in [Procs -> Slots \cup {NoCmd}]
    BY <1>3 DEF ProcType
  <2>2. pc'[Worker] \in {"idle", "scan", "settx", "txmsg", "wait", "tout", "free"}
    BY <1>3, <1>4 DEF ProcType
  <2>3. \A q \in Procs : cmd'[q] # NoCmd <=> pc'[q] \in Holding
    BY <1>3, <1>4 DEF ProcType
  <2> QED
    BY <2>1, <2>2, <2>3 DEF ProcType
<1>8. Size' /\ Once' /\ Own' /\ Signalled' /\ UnlinkedOnce'
  <2>1. Size' /\ Once' /\ UnlinkedOnce'
    BY <1>3, <1>4 DEF Size, Once, UnlinkedOnce
  <2>2. Own' /\ Signalled'
    BY <1>3, <1>4 DEF Own, Signalled
  <2> QED
    BY <2>1, <2>2
<1>9. Taken'
  <2>1. ASSUME bus = "up", NEW d \in used', d \notin Listed
        PROVE  \E q \in Procs : cmd'[q] = d
    <3>1. PICK q \in Procs : cmd[q] = d
      BY <1>3, <2>1 DEF Taken
    <3>2. q # p
      BY <1>1, <1>3, <2>1, <3>1
    <3> QED
      BY <1>4, <3>1, <3>2
  <2>2. \A q \in Procs : cmd'[q] # NoCmd => cmd'[q] \in used'
    BY <1>3, <1>4 DEF Taken
  <2>3. Listed' \subseteq used' /\ Flags' \subseteq used' /\ done' \subseteq used'
    BY <1>3, <1>4, <1>5 DEF Taken
  <2>4. \A d \in used' : kind'[d] \in AllKinds
    BY <1>3, <1>4 DEF Taken, SlotType
  <2> QED
    BY <1>3, <1>4, <2>1, <2>2, <2>3, <2>4 DEF Taken
<1>10. Place'
  <2>1. ASSUME NEW q \in Procs, pc'[q] \in Holding
        PROVE  /\ q # p /\ pc'[q] = pc[q] /\ cmd'[q] = cmd[q] /\ kind'[cmd'[q]] = kind[cmd[q]]
               /\ cmd[q] # c
    <3>1. q # p
      BY <1>3, <2>1
    <3> QED
      BY <1>4, <2>1, <3>1 DEF ProcType
  <2>2. \A q \in Procs : cmd'[q] # NoCmd => pc'[q] \in Holding
    BY <1>7 DEF ProcType
  <2>3. ASSUME NEW q \in Procs, pc'[q] = "queue"
        PROVE  cmd'[q] \notin Listed' /\ cmd'[q] \notin Flags' /\ kind'[cmd'[q]] # "note"
    BY <1>4, <2>1, <2>3 DEF Place
  <2>4. ASSUME NEW q \in Procs, pc'[q] \in Pushing, kind'[cmd'[q]] # "note"
        PROVE  Drained' \/ cmd'[q] \in Listed'
    BY <1>4, <2>1, <2>4 DEF Place
  <2>5. ASSUME NEW q \in Procs, cmd'[q] # NoCmd, kind'[cmd'[q]] = "note"
        PROVE  pc'[q] \in {"settx", "txmsg", "drop"} /\ q # Worker
    BY <1>4, <2>1, <2>2, <2>5 DEF Place
  <2>6. \A d \in Listed' : kind'[d] # "note"
    BY <1>4, <1>5 DEF Place
  <2>7. ASSUME NEW q \in Procs, pc'[q] \in {"free", "drop"} PROVE cmd'[q] \notin Listed'
    BY <1>4, <2>1, <2>7 DEF Place
  <2> QED
    BY <2>3, <2>4, <2>5, <2>6, <2>7 DEF Place
<1>11. Deferred'
  <2>1. ASSUME NEW q \in Procs, cmd'[q] # NoCmd, q # Worker \/ pc'[q] # "settx"
        PROVE  cmd'[q] \notin waitPush'
    BY <1>3, <1>4, <2>1 DEF Deferred
  <2>2. ASSUME pc'[Worker] = "settx", ~ Drained
        PROVE  cmds # <<>> /\ cmd'[Worker] = cmds[1] /\ cmd'[Worker] \in waitPush'
    <3>1. Worker # p
      BY <1>3, <2>2
    <3> QED
      BY <1>3, <1>4, <2>2, <3>1 DEF Deferred
  <2> QED
    BY <1>3, <1>4, <2>1, <2>2 DEF Deferred
<1>12. Order'
  BY <1>3, <1>4, <1>5 DEF Order
<1>13. Attended'
  <2> SUFFICES ASSUME state = "INITED", NEW d \in Listed, kind[d] = "cfm"
               PROVE  \E q \in Procs : cmd'[q] = d /\ pc'[q] \in Pushing
    BY <1>3, <1>4, <1>5 DEF Attended
  <2>1. PICK q \in Procs : cmd[q] = d /\ pc[q] \in Pushing
    BY DEF Attended
  <2> QED
    BY <1>1, <1>4, <1>5, <2>1
<1> QED
  BY <1>6, <1>7, <1>8, <1>9, <1>10, <1>11, <1>12, <1>13

\* The other steps of a process: refused, waking the worker, pushing, timing out.
LEMMA ProcKeeps ==
    ASSUME CmdInv, NEW p \in Procs,
        QueueRefused(p) \/ Wake(p) \/ SetCmdTx(p) \/ BusTxMsg(p) \/ WaitTimeout(p) \/ TimedOut(p)
    PROVE  CmdInv'
<1> USE Consts DEF CmdInv, mgrVars, slotVars, procVars, busVars, histVars, Listed, Flags, Holding, Pushing,
        Drained
<1>1. CASE QueueRefused(p)
  <2>0. p # Worker
    BY <1>1 DEF QueueRefused, ProcType
  <2>1. ListType' /\ SlotType' /\ ProcType'
    BY <1>1, <2>0 DEF QueueRefused, ListType, SlotType, ProcType
  <2>2. FlagType' /\ BusType' /\ Size'
    BY <1>1 DEF QueueRefused, FlagType, BusType, Size
  <2>3. Once' /\ Own' /\ Taken'
    BY <1>1 DEF QueueRefused, Once, Own, Taken
  <2>4. Deferred' /\ Order' /\ Attended'
    BY <1>1, <2>0 DEF QueueRefused, Deferred, Order, Attended
  <2>5. Signalled' /\ UnlinkedOnce'
    BY <1>1 DEF QueueRefused, Signalled, UnlinkedOnce
  <2>6. Place'
    BY <1>1, <2>0 DEF QueueRefused, Place, ProcType
  <2> QED
    BY <2>1, <2>2, <2>3, <2>4, <2>5, <2>6
<1>2. CASE Wake(p)
  <2>1. ListType' /\ SlotType' /\ ProcType'
    BY <1>2 DEF Wake, ListType, Return, SlotType, ProcType
  <2>2. FlagType' /\ BusType' /\ Size'
    BY <1>2 DEF Wake, FlagType, Return, BusType, Size
  <2>3. Once' /\ Own' /\ Taken'
    BY <1>2 DEF Wake, Once, ListType, SlotType, ProcType, FlagType, BusType, Return, Own, Taken
  <2>4. Place' /\ Deferred' /\ Order'
    BY <1>2 DEF Wake, Place, Return, Deferred, Order
  <2>5. Attended' /\ Signalled' /\ UnlinkedOnce'
    BY <1>2 DEF Wake, Attended, Return, Signalled, UnlinkedOnce
  <2> QED
    BY <2>1, <2>2, <2>3, <2>4, <2>5
<1>3. CASE SetCmdTx(p)
  <2>1. ListType' /\ SlotType' /\ ProcType'
    BY <1>3 DEF SetCmdTx, ListType, MsgOf, SlotType, ProcType
  <2>2. FlagType' /\ Size' /\ Once'
    BY <1>3 DEF SetCmdTx, FlagType, MsgOf, Size, Once
  <2>3. Own' /\ Taken' /\ Place'
    BY <1>3 DEF SetCmdTx, Own, MsgOf, Taken, Place
  <2>4. Deferred' /\ Attended' /\ Signalled'
    BY <1>3 DEF SetCmdTx, Deferred, ListType, SlotType, ProcType, FlagType, BusType, MsgOf,
        Attended, Signalled
  <2>5. UnlinkedOnce'
    BY <1>3 DEF SetCmdTx, UnlinkedOnce, MsgOf
  <2>6. BusType'
    BY <1>3 DEF SetCmdTx, BusType, ProcType, Taken, MsgOf
  <2>7. Order'
    BY <1>3 DEF SetCmdTx, Order, ProcType, Size, Once, Deferred, MsgOf
  <2> QED
    BY <2>1, <2>2, <2>3, <2>4, <2>5, <2>6, <2>7
<1>4. CASE BusTxMsg(p)
  <2>0. kind[cmd[p]] = "note" => p # Worker /\ cmd[p] \notin Listed
    BY <1>4 DEF BusTxMsg, Place, ProcType
  <2>1. ListType' /\ SlotType' /\ ProcType'
    BY <1>4, <2>0 DEF BusTxMsg, ListType, SlotType, ProcType
  <2>2. FlagType' /\ BusType' /\ Size'
    BY <1>4 DEF BusTxMsg, FlagType, BusType, Size
  <2>3. Once' /\ Own' /\ Taken'
    BY <1>4 DEF BusTxMsg, Once, Own, Taken
  <2>4. Deferred' /\ Order'
    BY <1>4 DEF BusTxMsg, Deferred, Order
  <2>5. Signalled' /\ UnlinkedOnce'
    BY <1>4 DEF BusTxMsg, Signalled, UnlinkedOnce
  <2>6. Place'
    BY <1>4, <2>0 DEF BusTxMsg, Place, ProcType
  <2>7. Attended'
    BY <1>4, <2>0 DEF BusTxMsg, Attended, ProcType
  <2> QED
    BY <2>1, <2>2, <2>3, <2>4, <2>5, <2>6, <2>7
<1>5. CASE WaitTimeout(p)
  <2>1. ListType' /\ SlotType' /\ ProcType'
    BY <1>5 DEF WaitTimeout, ListType, SlotType, ProcType
  <2>2. FlagType' /\ BusType' /\ Size'
    BY <1>5 DEF WaitTimeout, FlagType, BusType, Size
  <2>3. Once' /\ Own' /\ Taken'
    BY <1>5 DEF WaitTimeout, Once, Own, Taken
  <2>4. Place' /\ Deferred' /\ Order'
    BY <1>5 DEF WaitTimeout, Place, Deferred, Order
  <2>5. Attended' /\ Signalled' /\ UnlinkedOnce'
    BY <1>5 DEF WaitTimeout, Attended, Signalled, UnlinkedOnce
  <2> QED
    BY <2>1, <2>2, <2>3, <2>4, <2>5
<1>6. CASE TimedOut(p)
  <2>1. ListType' /\ SlotType' /\ ProcType'
    BY <1>6 DEF TimedOut, ListType, SlotType, ProcType, FlagType, BusType, CmdComplete
  <2>2. FlagType' /\ BusType' /\ Size'
    BY <1>6 DEF TimedOut, FlagType, CmdComplete, BusType, Size
  <2>3. Once' /\ Own' /\ Place'
    BY <1>6 DEF TimedOut, Once, ListType, SlotType, ProcType, FlagType, BusType, CmdComplete, Own,
        Place
  <2>4. Deferred' /\ Order' /\ Attended'
    BY <1>6 DEF TimedOut, Deferred, CmdComplete, Order, Attended
  <2>5. Signalled' /\ UnlinkedOnce'
    BY <1>6 DEF TimedOut, Signalled, CmdComplete, UnlinkedOnce
  <2>6. Taken'
    BY <1>6 DEF TimedOut, Taken, ProcType, Place, CmdComplete
  <2> QED
    BY <2>1, <2>2, <2>3, <2>4, <2>5, <2>6
<1> QED
  BY <1>1, <1>2, <1>3, <1>4, <1>5, <1>6

\* The worker, the transmit thread, the firmware and removal.
LEMMA RestKeeps ==
    ASSUME CmdInv,
        WorkStart \/ WorkScan \/ TxThreadWake \/ TxMsg \/ MsgInd \/ FwIgnores \/ BusStop \/ Deinit
    PROVE  CmdInv'
<1> USE Consts DEF CmdInv, mgrVars, slotVars, procVars, busVars, histVars, Listed, Flags, Holding, Pushing,
        Drained
<1>1. CASE WorkStart
  <2>1. ListType' /\ SlotType' /\ ProcType'
    BY <1>1 DEF WorkStart, ListType, SlotType, ProcType
  <2>2. BusType' /\ Size' /\ Once'
    BY <1>1 DEF WorkStart, BusType, Size, Once
  <2>3. Own' /\ Taken' /\ Place'
    BY <1>1 DEF WorkStart, Own, Taken, Place
  <2>4. Deferred' /\ Order' /\ Attended'
    BY <1>1 DEF WorkStart, Deferred, Order, Attended
  <2>5. Signalled' /\ UnlinkedOnce'
    BY <1>1 DEF WorkStart, Signalled, UnlinkedOnce
  <2>6. FlagType'
    <3>1. work' \in BOOLEAN
      BY <1>1 DEF WorkStart
    <3> QED
      BY <1>1, <3>1 DEF WorkStart, FlagType
  <2> QED
    BY <2>1, <2>2, <2>3, <2>4, <2>5, <2>6
<1>2. CASE WorkScan
  <2>1. ListType' /\ SlotType' /\ ProcType'
    BY <1>2 DEF WorkScan, ListType, SlotType, ProcType, FlagType, BusType, Return
  <2>2. FlagType' /\ BusType' /\ Size'
    BY <1>2 DEF WorkScan, FlagType, Return, BusType, Size
  <2>3. Once' /\ Taken' /\ Deferred'
    BY <1>2 DEF WorkScan, Once, ListType, SlotType, ProcType, FlagType, BusType, Return, Taken,
        Deferred
  <2>4. Order' /\ Attended' /\ Signalled'
    BY <1>2 DEF WorkScan, Order, ProcType, Attended, Return, Signalled
  <2>5. UnlinkedOnce'
    BY <1>2 DEF WorkScan, UnlinkedOnce, Return
  <2>6. Own'
    BY <1>2 DEF WorkScan, Own, ProcType, Deferred, Return
  <2>7. Place'
    <3>1. CASE cmds # <<>> /\ Head(cmds) \in waitPush
      <4>1. Head(cmds) = cmds[1] /\ cmds[1] \in Listed /\ cmds[1] \in Slots
        BY <3>1, ListedSlots DEF ListType
      <4>2. cmd' = [cmd EXCEPT ![Worker] = cmds[1]] /\ pc' = [pc EXCEPT ![Worker] = "settx"]
        BY <1>2, <3>1, <4>1 DEF WorkScan
      <4>3. kind[cmds[1]] # "note"
        BY <4>1 DEF Place
      <4> QED
        BY <1>2, <4>1, <4>2, <4>3 DEF WorkScan, Place, ProcType
    <3>2. CASE ~ (cmds # <<>> /\ Head(cmds) \in waitPush)
      BY <1>2, <3>2 DEF WorkScan, Return, Place, ProcType
    <3> QED
      BY <3>1, <3>2
  <2> QED
    BY <2>1, <2>2, <2>3, <2>4, <2>5, <2>6, <2>7
<1>3. CASE TxThreadWake
  <2>1. ListType' /\ SlotType' /\ ProcType'
    BY <1>3 DEF TxThreadWake, ListType, SlotType, ProcType
  <2>2. FlagType' /\ BusType' /\ Size'
    BY <1>3 DEF TxThreadWake, FlagType, BusType, Size
  <2>3. Once' /\ Own' /\ Taken'
    BY <1>3 DEF TxThreadWake, Once, Own, Taken
  <2>4. Place' /\ Deferred' /\ Order'
    BY <1>3 DEF TxThreadWake, Place, Deferred, Order
  <2>5. Attended' /\ Signalled' /\ UnlinkedOnce'
    BY <1>3 DEF TxThreadWake, Attended, Signalled, UnlinkedOnce
  <2> QED
    BY <2>1, <2>2, <2>3, <2>4, <2>5
<1>4. CASE TxMsg
  <2>1. ListType' /\ SlotType' /\ ProcType'
    BY <1>4 DEF TxMsg, ListType, Received, SlotType, ProcType
  <2>2. Size' /\ Once' /\ Own'
    BY <1>4 DEF TxMsg, Size, Received, Once, Own
  <2>3. Taken' /\ Place' /\ Deferred'
    BY <1>4 DEF TxMsg, Taken, Received, Place, Deferred
  <2>4. Order' /\ Attended' /\ Signalled'
    BY <1>4 DEF TxMsg, Order, Received, Attended, Signalled
  <2>5. UnlinkedOnce'
    BY <1>4 DEF TxMsg, UnlinkedOnce, Received
  <2>6. FlagType'
    <3>1. cmd_txstate' \in BOOLEAN /\ unsent' \in BOOLEAN
      BY <1>4 DEF TxMsg, FlagType
    <3>2. tpc' \in {"idle", "msg", "gone"}
      BY <1>4 DEF TxMsg
    <3> QED
      BY <1>4, <3>1, <3>2 DEF TxMsg, FlagType
  <2>7. BusType'
    <3>1. Received \in Seq([c : Slots, k : AllKinds])
      <4>1. CASE cmd_buf.c = NoCmd
        BY <4>1 DEF Received, BusType
      <4>2. CASE cmd_buf.c # NoCmd
        <5>1. cmd_buf \in [c : Slots, k : AllKinds]
          BY <4>2 DEF BusType
        <5> QED
          BY <4>2, <5>1 DEF Received, BusType
      <4> QED
        BY <4>1, <4>2
    <3>2. fw' \in Seq([c : Slots, k : AllKinds])
      BY <1>4, <3>1 DEF TxMsg, BusType
    <3> QED
      BY <1>4, <3>2 DEF TxMsg, BusType
  <2> QED
    BY <2>1, <2>2, <2>3, <2>4, <2>5, <2>6, <2>7
<1>5. CASE MsgInd
  <2>1. ListType' /\ ProcType' /\ FlagType'
    BY <1>5 DEF MsgInd, ListType, Matching, CmdComplete, ProcType, FlagType
  <2>2. BusType' /\ Size' /\ Once'
    BY <1>5 DEF MsgInd, BusType, Matching, CmdComplete, Size, Once
  <2>3. Own' /\ Place' /\ Deferred'
    BY <1>5 DEF MsgInd, Own, Matching, CmdComplete, Place, Deferred
  <2>4. Order' /\ Attended' /\ Signalled'
    BY <1>5 DEF MsgInd, Order, Matching, CmdComplete, Attended, Signalled
  <2>5. UnlinkedOnce'
    BY <1>5 DEF MsgInd, UnlinkedOnce, Matching, CmdComplete
  <2>6. SlotType'
    <3>1. PICK k : k = Head(fw).k
      OBVIOUS
    <3>2. Matching(k) # NoCmd => Matching(k) \in Slots
      BY MatchingIs, ListedSlots
    <3> QED
      BY <1>5, <3>1, <3>2 DEF MsgInd, CmdComplete, SlotType
  <2>7. Taken'
    <3>1. PICK k : k = Head(fw).k
      OBVIOUS
    <3>2. Matching(k) # NoCmd => Matching(k) \in Listed
      BY MatchingIs, ListedSlots
    <3>3. Matching(k) # NoCmd => Matching(k) \in used
      BY <3>2 DEF Taken
    <3> QED
      BY <1>5, <3>1, <3>3 DEF MsgInd, CmdComplete, Taken
  <2> QED
    BY <2>1, <2>2, <2>3, <2>4, <2>5, <2>6, <2>7
<1>6. CASE FwIgnores
  <2>1. ListType' /\ SlotType' /\ ProcType'
    BY <1>6 DEF FwIgnores, ListType, SlotType, ProcType
  <2>2. FlagType' /\ BusType' /\ Size'
    BY <1>6 DEF FwIgnores, FlagType, BusType, Size
  <2>3. Once' /\ Own' /\ Taken'
    BY <1>6 DEF FwIgnores, Once, Own, Taken
  <2>4. Place' /\ Deferred' /\ Order'
    BY <1>6 DEF FwIgnores, Place, Deferred, Order
  <2>5. Attended' /\ Signalled' /\ UnlinkedOnce'
    BY <1>6 DEF FwIgnores, Attended, Signalled, UnlinkedOnce
  <2> QED
    BY <2>1, <2>2, <2>3, <2>4, <2>5
<1>7. CASE BusStop
  <2>1. ListType' /\ SlotType' /\ ProcType'
    BY <1>7 DEF BusStop, ListType, SlotType, ProcType
  <2>2. FlagType' /\ BusType' /\ Size'
    BY <1>7 DEF BusStop, FlagType, BusType, Size
  <2>3. Once' /\ Own' /\ Taken'
    BY <1>7 DEF BusStop, Once, Own, Taken
  <2>4. Place' /\ Deferred' /\ Order'
    BY <1>7 DEF BusStop, Place, Deferred, Order
  <2>5. Attended' /\ Signalled' /\ UnlinkedOnce'
    BY <1>7 DEF BusStop, Attended, Signalled, UnlinkedOnce
  <2> QED
    BY <2>1, <2>2, <2>3, <2>4, <2>5
<1>8. CASE Deinit
  <2>1. ListType' /\ ProcType' /\ FlagType'
    BY <1>8 DEF Deinit, ListType, ProcType, FlagType
  <2>2. BusType' /\ Size' /\ Once'
    BY <1>8 DEF Deinit, BusType, Size, Once
  <2>3. Own' /\ Deferred' /\ Order'
    BY <1>8 DEF Deinit, Own, Deferred, Order
  <2>4. Attended' /\ UnlinkedOnce'
    BY <1>8 DEF Deinit, Attended, UnlinkedOnce
  <2>5. SlotType'
    BY <1>8 DEF Deinit, SlotType, Taken
  <2>6. Taken'
    <3>1. Listed' = {}
      BY <1>8 DEF Deinit, Range
    <3> HIDE DEF Listed
    <3> QED
      BY <1>8, <3>1 DEF Deinit, Taken, FlagType
  <2>7. Place'
    <3>1. Listed' = {} /\ Drained'
      BY <1>8 DEF Deinit, Range
    <3> HIDE DEF Listed, Drained
    <3> QED
      BY <1>8, <3>1 DEF Deinit, Place
  <2>8. Signalled'
    <3>1. Listed' = {}
      BY <1>8 DEF Deinit, Range
    <3> HIDE DEF Listed
    <3> QED
      BY <1>8, <3>1 DEF Deinit, Signalled
  <2> QED
    BY <2>1, <2>2, <2>3, <2>4, <2>5, <2>6, <2>7, <2>8
<1> QED
  BY <1>1, <1>2, <1>3, <1>4, <1>5, <1>6, <1>7, <1>8


\* The invariant holds initially.
LEMMA CmdInit == Init => CmdInv
<1> SUFFICES ASSUME Init PROVE CmdInv
  OBVIOUS
<1> USE Consts DEF Init, Listed, Flags, Holding, Pushing
<1>1. Listed = {} /\ DOMAIN cmds = {} /\ Len(cmds) = 0
  BY DEF Range
<1>2. ListType /\ SlotType /\ ProcType /\ FlagType
  <2>1. ListType /\ FlagType
    <3>1. ListType
      BY DEF ListType
    <3>2. bustx_trgg \in Nat
      OBVIOUS
    <3>3. /\ work \in BOOLEAN /\ cmd_txstate \in BOOLEAN /\ unsent \in BOOLEAN
          /\ overwritten \in BOOLEAN /\ unlinked2 \in BOOLEAN
      OBVIOUS
    <3>4. state = "INITED" /\ bus = "up" /\ tpc = "idle"
      OBVIOUS
    <3> HIDE DEF Init
    <3> QED
      BY <3>1, <3>2, <3>3, <3>4 DEF FlagType
  <2>2. SlotType
    BY DEF SlotType
  <2>3. ProcType
    BY DEF ProcType
  <2> QED
    BY <2>1, <2>2, <2>3
<1>3. BusType
  BY DEF BusType, NoMsg
<1>4. Size /\ Once /\ Own
  BY <1>1 DEF Size, Once, Own
<1>5. Taken /\ Place /\ Deferred /\ Order /\ Attended /\ Signalled /\ UnlinkedOnce
  BY <1>1 DEF Taken, Place, Deferred, Order, Attended, Signalled, UnlinkedOnce
<1> QED
  BY <1>2, <1>3, <1>4, <1>5 DEF CmdInv

\* Every step keeps it.
LEMMA CmdStep == CmdInv /\ [Next]_vars => CmdInv'
<1> SUFFICES ASSUME CmdInv, [Next]_vars PROVE CmdInv'
  OBVIOUS
<1>1. CASE Next
  <2>1. ASSUME NEW p \in Callers, NEW k \in Kinds, SendMsg(p, k) PROVE CmdInv'
    BY <2>1, SendMsgKeeps
  <2>2. ASSUME NEW p \in Procs, ProcStep(p) PROVE CmdInv'
    BY <2>2, QueueKeeps, WaitDoneKeeps, CmdFreeKeeps, ProcKeeps DEF ProcStep
  <2>3. CASE WorkStart \/ WorkScan \/ TxThreadWake \/ TxMsg \/ MsgInd \/ FwIgnores \/ BusStop
             \/ Deinit
    BY <2>3, RestKeeps
  <2> QED
    BY <1>1, <2>1, <2>2, <2>3 DEF Next
<1>2. CASE UNCHANGED vars
  <2> USE <1>2 DEF CmdInv, vars, mgrVars, slotVars, procVars, busVars, histVars, Listed, Flags,
                   Drained
  <2>1. ListType' /\ SlotType' /\ ProcType' /\ FlagType' /\ BusType' /\ Size' /\ Once' /\ Own'
    BY DEF ListType, SlotType, ProcType, FlagType, BusType, Size, Once, Own
  <2>2. Taken' /\ Place' /\ Deferred'
    BY DEF Taken, Place, Deferred
  <2>3. Order' /\ Attended' /\ Signalled' /\ UnlinkedOnce'
    BY DEF Order, Attended, Signalled, UnlinkedOnce
  <2> QED
    BY <2>1, <2>2, <2>3
<1> QED
  BY <1>1, <1>2

\* The invariant of every behaviour of the command manager.
THEOREM CmdInvariant == Spec => []CmdInv
  BY CmdInit, CmdStep, PTL DEF Spec

-----------------------------------------------------------------------------
(* The properties of every kind of message *)

\* The parts of the type invariant together.
LEMMA CmdTypes == CmdInv => TypeOK
<1> SUFFICES ASSUME CmdInv PROVE TypeOK
  OBVIOUS
<1>1. {waitPush, waitCfm, done, completed} \subseteq SUBSET Slots
  BY DEF CmdInv, SlotType
<1>2. {unsent, overwritten, unlinked2} \subseteq BOOLEAN
  BY DEF CmdInv, FlagType
<1>3. cmds \in Seq(Slots) /\ Len(cmds) <= MaxQueued /\ queue_sz \in Int
  BY DEF CmdInv, ListType, Size
<1>4. used \subseteq Slots /\ kind \in [Slots -> AllKinds \cup {"none"}]
  BY DEF CmdInv, SlotType
<1>5. /\ pc \in [Procs -> {"idle", "queue", "scan", "settx", "txmsg", "wait", "free", "drop",
                           "tout", "wake", "wakedefer"}]
      /\ cmd \in [Procs -> Slots \cup {NoCmd}]
  BY DEF CmdInv, ProcType
<1>6. /\ state \in {"INITED", "CRASHED", "DEINIT"} /\ bus \in {"up", "down"} /\ work \in BOOLEAN
      /\ cmd_txstate \in BOOLEAN /\ bustx_trgg \in Nat /\ tpc \in {"idle", "msg", "gone"}
  BY DEF CmdInv, FlagType
<1>7. /\ cmd_buf \in [c : Slots \cup {NoCmd}, k : AllKinds \cup {"none"}]
      /\ fw \in Seq([c : Slots, k : AllKinds])
  BY DEF CmdInv, BusType
<1> QED
  BY <1>1, <1>2, <1>3, <1>4, <1>5, <1>6, <1>7 DEF TypeOK

\* Two commands in flight are the same one.
LEMMA FlightIsOne ==
    ASSUME CmdInv, NEW c \in InFlight, NEW d \in InFlight
    PROVE  c = d
<1>1. PICK i \in DOMAIN cmds : c = cmds[i]
  BY DEF InFlight, Range
<1>2. PICK j \in DOMAIN cmds : d = cmds[j]
  BY DEF InFlight, Range
<1>3. i \in Int /\ j \in Int
  BY ListedSlots DEF CmdInv
<1>4. ~ (i < j)
  BY <1>1, <1>2 DEF CmdInv, Order, InFlight, Flags
<1>5. ~ (j < i)
  BY <1>1, <1>2 DEF CmdInv, Order, InFlight, Flags
<1>6. i = j
  BY <1>3, <1>4, <1>5
<1> QED
  BY <1>1, <1>2, <1>6

\* So there is at most one.
LEMMA FlightBound == CmdInv => OneInFlight
<1> SUFFICES ASSUME CmdInv PROVE OneInFlight
  OBVIOUS
<1>1. CASE InFlight = {}
  <2>1. Cardinality(InFlight) = 0
    BY <1>1, FS_EmptySet
  <2> QED
    BY <2>1 DEF OneInFlight
<1>2. CASE InFlight # {}
  <2>1. PICK c \in InFlight : TRUE
    BY <1>2
  <2>2. InFlight = {c}
    BY FlightIsOne
  <2>3. Cardinality(InFlight) = 1
    BY <2>2, FS_Singleton
  <2> QED
    BY <2>3 DEF OneInFlight
<1> QED
  BY <1>1, <1>2

\* A list has no more members than places.
LEMMA ListedBound ==
    ASSUME ListType
    PROVE  IsFiniteSet(Listed) /\ Cardinality(Listed) <= Len(cmds)
<1>1. DOMAIN cmds = 1..Len(cmds) /\ Len(cmds) \in Nat
  BY ListedSlots
<1>2. PICK D : D = 1..Len(cmds)
  OBVIOUS
<1>3. IsFiniteSet(D) /\ Cardinality(D) = Len(cmds)
  <2>1. PICK n \in Nat : n = Len(cmds)
    BY <1>1
  <2>2. IsFiniteSet(1..n) /\ Cardinality(1..n) = IF 1 > n THEN 0 ELSE n - 1 + 1
    BY FS_Interval
  <2> QED
    BY <1>2, <2>1, <2>2
<1>4. PICK T : T = Listed
  OBVIOUS
<1>5. PICK f : f = cmds
  OBVIOUS
<1>6. f \in Surjection(D, T)
  <2>1. DOMAIN f = D /\ f = [x \in D |-> f[x]]
    BY <1>1, <1>2, <1>5 DEF ListType
  <2>2. f \in [D -> T]
    BY <1>4, <1>5, <2>1, ListedIs
  <2>3. \A t \in T : \E x \in D : f[x] = t
    BY <1>4, <1>5, <2>1, ListedIs
  <2> QED
    BY <2>2, <2>3 DEF Surjection
<1>7. IsFiniteSet(T) /\ Cardinality(T) <= Cardinality(D)
  BY <1>3, <1>6, FS_Surjection
<1> QED
  BY <1>3, <1>4, <1>7

\* Every taken slot is in the list or with a process, and a caller that is idle
\* finds a free one: rwnx_cmd_malloc does not fail.  At most MaxQueued slots are
\* in the list, and the other processes, the worker among them, hold one each.
LEMMA SlotsSuffice == CmdInv => ArrayNeverExhausted
<1> SUFFICES ASSUME CmdInv, bus = "up" PROVE ArrayNeverExhausted
  BY DEF ArrayNeverExhausted
<1> DEFINE held == {cmd[p] : p \in {q \in Procs : cmd[q] # NoCmd}}
<1>1. used = Range(cmds) \cup held
  <2>1. Range(cmds) \subseteq used /\ held \subseteq used
    BY DEF CmdInv, Taken, Listed
  <2>2. ASSUME NEW d \in used, d \notin Listed PROVE d \in held
    <3>1. d # NoCmd
      BY Consts DEF CmdInv, SlotType
    <3>2. PICK q \in Procs : cmd[q] = d
      BY <2>2 DEF CmdInv, Taken
    <3> QED
      BY <3>1, <3>2
  <2> HIDE DEF held
  <2> QED
    BY <2>1, <2>2 DEF Listed
<1>2. ASSUME NEW p \in Callers, pc[p] = "idle", used = Slots PROVE FALSE
  <2>1. PICK C : C = Procs \ {p}
    OBVIOUS
  <2>2. IsFiniteSet(C) /\ Cardinality(C) = Cardinality(Callers)
    <3>1. IsFiniteSet(Procs) /\ Cardinality(Procs) = Cardinality(Callers) + 1
      BY CmdAssumption, Consts, FS_AddElement
    <3>2. p \in Procs
      BY Consts
    <3>3. IsFiniteSet(C) /\ Cardinality(C) = Cardinality(Procs) - 1
      BY <2>1, <3>1, <3>2, FS_RemoveElement
    <3>4. Cardinality(Callers) \in Nat
      BY CmdAssumption, FS_CardinalityType
    <3> QED
      BY <3>1, <3>3, <3>4
  <2>3. PICK H : H = {cmd[q] : q \in C}
    OBVIOUS
  <2>4. IsFiniteSet(H) /\ Cardinality(H) <= Cardinality(C)
    <3>1. PICK f : f = [q \in C |-> cmd[q]]
      OBVIOUS
    <3>2. f \in Surjection(C, H)
      BY <2>3, <3>1 DEF Surjection
    <3> QED
      BY <2>2, <3>2, FS_Surjection
  <2>5. Slots \subseteq Listed \cup H
    <3> SUFFICES ASSUME NEW d \in Slots, d \notin Listed PROVE d \in H
      OBVIOUS
    <3>1. d # NoCmd
      BY Consts
    <3>2. PICK q \in Procs : cmd[q] = d
      BY <1>2 DEF CmdInv, Taken
    <3>3. pc[q] \in Holding
      BY <3>1, <3>2 DEF CmdInv, ProcType
    <3>4. q # p
      BY <1>2, <3>3 DEF Holding
    <3> QED
      BY <2>1, <2>3, <3>2, <3>4
  <2>6. PICK L : L = Listed
    OBVIOUS
  <2>7. IsFiniteSet(L) /\ Cardinality(L) <= MaxQueued
    <3>1. IsFiniteSet(Listed) /\ Cardinality(Listed) <= Len(cmds)
      BY ListedBound DEF CmdInv
    <3>2. Cardinality(L) \in Nat
      BY <2>6, <3>1, FS_CardinalityType
    <3>3. Len(cmds) \in Nat /\ Len(cmds) <= MaxQueued
      BY ListedSlots DEF CmdInv, Size
    <3> QED
      BY <2>6, <3>1, <3>2, <3>3, Consts
  <2>8. /\ IsFiniteSet(L \cup H)
        /\ Cardinality(L \cup H) = Cardinality(L) + Cardinality(H) - Cardinality(L \cap H)
    BY <2>4, <2>7, FS_Union
  <2>9. IsFiniteSet(L \cap H)
    BY <2>7, FS_Subset
  <2>10. IsFiniteSet(Slots) /\ Cardinality(Slots) = NSlots
    <3>1. PICK n \in Nat : n = NSlots
      BY CmdAssumption
    <3>2. IsFiniteSet(1..n) /\ Cardinality(1..n) = IF 1 > n THEN 0 ELSE n - 1 + 1
      BY FS_Interval
    <3> QED
      BY <3>1, <3>2 DEF Slots
  <2>11. Cardinality(Slots) <= Cardinality(L \cup H)
    BY <2>5, <2>6, <2>8, FS_Subset
  <2>12. /\ Cardinality(L) \in Nat /\ Cardinality(H) \in Nat /\ Cardinality(L \cap H) \in Nat
         /\ Cardinality(C) \in Nat /\ Cardinality(Callers) \in Nat
    BY <2>2, <2>4, <2>7, <2>9, FS_CardinalityType, CmdAssumption
  <2> QED
    BY <2>2, <2>4, <2>7, <2>8, <2>10, <2>11, <2>12, CmdAssumption
<1> QED
  BY <1>1, <1>2 DEF ArrayNeverExhausted

\* The slots of cmd_array stay typed and counted, one command at most is with
\* the firmware, a caller always finds a slot, and list_del runs once per
\* command until the driver is removed.
THEOREM SlotsKept == Spec => []SlotInv
<1>1. CmdInv => SlotInv
  BY CmdTypes, FlightBound, SlotsSuffice DEF SlotInv, CmdInv
<1> QED
  BY <1>1, CmdInvariant, PTL

\* The confirmation of a command in service is copied into a buffer whose
\* owner still waits for it.
THEOREM BufferLive == Spec => []CfmBufferLive
<1>1. CmdInv => CfmBufferLive
  BY DEF CmdInv, Attended, CfmBufferLive, Listed, Pushing
<1> QED
  BY <1>1, CmdInvariant, PTL

-----------------------------------------------------------------------------
(* Without messages that want no confirmation *)

\* What a process pushes is in the list and awaited.
LEMMA PushedIs ==
    ASSUME CmdInv, PipeInv, ~ Drained, NEW p \in Procs
    PROVE  /\ pc[p] = "settx" => cmd[p] \in Listed /\ cmd[p] \in waitCfm
           /\ pc[p] = "settx" /\ p # Worker => Awaited(cmd[p])
           /\ pc[p] = "txmsg" => Awaited(cmd[p])
<1>1. ASSUME pc[p] \in {"settx", "txmsg"} PROVE cmd[p] \in Listed /\ cmd[p] # NoCmd
  <2>1. cmd[p] # NoCmd /\ cmd[p] \in Slots
    BY <1>1 DEF CmdInv, ProcType, Holding
  <2>2. kind[cmd[p]] # "note"
    BY <2>1 DEF PipeInv, Link
  <2> QED
    BY <1>1, <2>1, <2>2 DEF CmdInv, Place, Pushing
<1>2. ASSUME pc[p] = "settx" PROVE cmd[p] \in Listed /\ cmd[p] \in waitCfm
  BY <1>1, <1>2 DEF PipeInv, Link
<1>3. ASSUME pc[p] = "settx", p # Worker PROVE Awaited(cmd[p])
  BY <1>1, <1>2, <1>3 DEF CmdInv, Deferred, Awaited
<1>4. ASSUME pc[p] = "txmsg" PROVE Awaited(cmd[p])
  BY <1>1, <1>4 DEF PipeInv, Pipe, Link
<1> QED
  BY <1>2, <1>3, <1>4

\* If no command of the list is on its way, the buffer and the firmware have
\* nothing to do and no caller is about to push.
LEMMA Quiet ==
    ASSUME CmdInv, PipeInv, ~ Drained, \A c \in Listed : ~ Awaited(c)
    PROVE  /\ ~ unsent /\ fw = <<>>
           /\ \A p \in Procs : pc[p] # "txmsg" /\ (pc[p] = "settx" => p = Worker)
<1>1. \A c : ~ Awaited(c)
  BY DEF Awaited
<1>2. ~ unsent /\ fw = <<>>
  BY <1>1 DEF PipeInv, Link
<1> QED
  BY <1>1, <1>2, PushedIs

\* The confirmation the firmware is about to send is matched with the command
\* it answers: whatever is before that one in the list is not awaited.
LEMMA MatchIsFlight ==
    ASSUME CmdInv, PipeInv, fw # <<>>
    PROVE  \/ Drained /\ Matching(fw[1].k) = NoCmd
           \/ /\ Awaited(fw[1].c) /\ Matching(fw[1].k) = fw[1].c
<1>1. PICK k : k = fw[1].k
  OBVIOUS
<1>2. CASE Drained
  <2>1. \A i \in DOMAIN cmds : FALSE
    BY <1>2 DEF Drained
  <2> QED
    BY <1>1, <1>2, <2>1, MatchingIs DEF CmdInv
<1>3. CASE ~ Drained
  <2>1. Awaited(fw[1].c) /\ k = kind[fw[1].c]
    BY <1>1, <1>3 DEF PipeInv, Link
  <2>2. PICK i \in DOMAIN cmds : fw[1].c = cmds[i]
    BY <2>1 DEF Awaited, Listed, Range
  <2>3. kind[cmds[i]] = k /\ cmds[i] \in waitCfm /\ cmds[i] \notin waitPush
    BY <2>1, <2>2 DEF Awaited
  <2>4. PICK j \in DOMAIN cmds : Matching(k) = cmds[j] /\ cmds[j] \in waitCfm /\ j <= i
    BY <2>3, MatchingIs DEF CmdInv
  <2>5. ~ (j < i)
    BY <2>3, <2>4 DEF CmdInv, Order, Flags
  <2>6. i = j
    <3>1. i \in Int /\ j \in Int
      BY ListedSlots DEF CmdInv
    <3> QED
      BY <2>4, <2>5, <3>1
  <2> QED
    BY <1>1, <2>1, <2>2, <2>4, <2>6
<1> QED
  BY <1>2, <1>3

\* A caller takes a slot: nothing of it is in the list or on its way.
LEMMA SendMsgPipe ==
    ASSUME CmdInv, PipeInv, "note" \notin Kinds, NEW p \in Callers, NEW k \in Kinds,
           SendMsg(p, k)
    PROVE  PipeInv'
<1>1. PICK c : c = Min(Slots \ used)
  OBVIOUS
<1>2. c \in Slots /\ c \notin used
  BY <1>1, FreshSlot DEF SendMsg, CmdInv
<1>3. /\ pc[p] = "idle" /\ p \in Procs /\ k # "note"
      /\ kind' = [kind EXCEPT ![c] = k] /\ cmd' = [cmd EXCEPT ![p] = c]
      /\ pc' = [pc EXCEPT ![p] = "queue"]
      /\ UNCHANGED <<cmds, state, waitPush, waitCfm, bus, cmd_buf, cmd_txstate, tpc, fw, unsent,
                     overwritten>>
  BY <1>1, Consts DEF SendMsg, mgrVars, busVars, histVars
<1>4. /\ \A d \in Slots : d # c => kind'[d] = kind[d]
      /\ kind'[c] = k
      /\ \A q \in Procs : q # p => cmd'[q] = cmd[q] /\ pc'[q] = pc[q]
      /\ cmd'[p] = c /\ pc'[p] = "queue"
      /\ Listed' = Listed /\ (Drained' <=> Drained)
      /\ \A d : Awaited(d)' <=> Awaited(d)
  BY <1>2, <1>3 DEF CmdInv, SlotType, ProcType, Listed, Drained, Awaited
<1>5. c \notin Listed /\ Listed \subseteq Slots
  BY <1>2, ListedSlots DEF CmdInv, Taken
<1>6. Pipe'
  BY <1>3, <1>4 DEF PipeInv, Pipe
<1>7. Link'
  <2>1. \A d \in Slots : kind'[d] # "note"
    BY <1>3, <1>4 DEF PipeInv, Link
  <2>2. \A q \in Procs : pc'[q] = "settx" => Drained' \/ cmd'[q] \in waitCfm'
    BY <1>3, <1>4 DEF PipeInv, Link
  <2>3. \A d : Awaited(d) => kind'[d] = kind[d]
    BY <1>4, <1>5 DEF Awaited
  <2> QED
    BY <1>3, <1>4, <2>1, <2>2, <2>3 DEF PipeInv, Link
<1>8. Stuck'
  BY <1>3, <1>4, <1>5 DEF PipeInv, Stuck
<1> QED
  BY <1>6, <1>7, <1>8 DEF PipeInv

\* If the push is not deferred no command of the list is waiting.
LEMMA LastUnflagged ==
    ASSUME CmdInv, NEW c, ~ DeferPush(c)
    PROVE  \A d \in Listed : d \notin Flags
<1> SUFFICES ASSUME NEW d \in Listed, d \in Flags PROVE FALSE
  OBVIOUS
<1>1. PICK i \in DOMAIN cmds : d = cmds[i]
  BY ListedIs
<1>2. DOMAIN cmds = 1..Len(cmds) /\ Len(cmds) \in Nat /\ cmds # <<>>
  BY ListedSlots DEF CmdInv
<1>3. Len(cmds) \in DOMAIN cmds /\ i <= Len(cmds) /\ i \in Int
  BY <1>1, <1>2
<1>4. cmds[Len(cmds)] \in Flags
  <2>1. CASE i = Len(cmds)
    BY <1>1, <2>1
  <2>2. CASE i < Len(cmds)
    BY <1>1, <1>3, <2>2 DEF CmdInv, Order, Flags
  <2> QED
    BY <1>2, <1>3, <2>1, <2>2
<1> QED
  BY <1>2, <1>4 DEF DeferPush, Flags

\* A command joins the list; pushed at once only if nothing is on its way.
LEMMA QueuePipe ==
    ASSUME CmdInv, PipeInv, NEW p \in Procs, Queue(p)
    PROVE  PipeInv'
<1>1. PICK c : c = cmd[p]
  OBVIOUS
<1>2. /\ pc[p] = "queue" /\ c \in Slots /\ c \notin Listed /\ c \notin Flags /\ c # NoCmd
      /\ p # Worker
  BY <1>1, Consts DEF CmdInv, Queue, ProcType, Place, Holding
<1>3. /\ state = "INITED" /\ cmds' = Append(cmds, c) /\ waitCfm' = waitCfm \cup {c}
      /\ UNCHANGED <<state, used, kind, bus, cmd_buf, cmd_txstate, tpc, fw, unsent, overwritten>>
  BY <1>1 DEF Queue, busVars, histVars
<1>4. Listed' = Listed \cup {c} /\ ~ Drained /\ ~ Drained'
  BY <1>2, <1>3, AppendedList DEF CmdInv, Drained
<1>5. Stuck'
  BY <1>3 DEF Stuck
<1>6. CASE DeferPush(c)
  <2>1. /\ waitPush' = waitPush \cup {c} /\ cmd' = [cmd EXCEPT ![p] = NoCmd]
        /\ pc' = [pc EXCEPT ![p] = "wakedefer"] \/ pc' = [pc EXCEPT ![p] = "idle"]
    BY <1>1, <1>6 DEF Queue, Return
  <2>2. /\ \A q \in Procs : q # p => cmd'[q] = cmd[q] /\ pc'[q] = pc[q]
        /\ pc'[p] \in {"idle", "wakedefer"}
    BY <2>1 DEF CmdInv, ProcType
  <2>3. \A d : Awaited(d) => Awaited(d)'
    BY <1>2, <1>3, <1>4, <2>1 DEF Awaited
  <2>4. Pipe'
    BY <1>3, <2>2 DEF PipeInv, Pipe
  <2>5. Link'
    BY <1>3, <1>4, <2>1, <2>2, <2>3 DEF PipeInv, Link
  <2> QED
    BY <1>5, <2>4, <2>5 DEF PipeInv
<1>7. CASE ~ DeferPush(c)
  <2>1. waitPush' = waitPush /\ cmd' = cmd /\ pc' = [pc EXCEPT ![p] = "settx"]
    BY <1>1, <1>7 DEF Queue
  <2>2. \A d \in Listed : d \notin Flags
    BY <1>7, LastUnflagged
  <2>3. \A d \in Listed : ~ Awaited(d)
    BY <2>2 DEF Awaited, Flags
  <2>4. ~ unsent /\ fw = <<>> /\ \A q \in Procs : pc[q] # "txmsg" /\ (pc[q] = "settx" => q = Worker)
    BY <1>4, <2>3, Quiet
  <2>5. \A q \in Procs : pc[q] # "settx"
    <3>1. pc[Worker] = "settx" => cmd[Worker] \in Listed /\ cmd[Worker] \in Flags
      BY <1>4, PushedIs, Consts DEF Flags
    <3> QED
      BY <2>2, <2>4, <3>1
  <2>6. \A q \in Procs : (q # p => pc'[q] = pc[q]) /\ pc'[p] = "settx"
    BY <2>1 DEF CmdInv, ProcType
  <2>7. Pipe'
    BY <1>3, <2>4, <2>5, <2>6 DEF PipeInv, Pipe
  <2>8. Link'
    BY <1>1, <1>3, <1>4, <2>1, <2>2, <2>4, <2>5, <2>6 DEF PipeInv, Link, Flags
  <2> QED
    BY <1>5, <2>7, <2>8 DEF PipeInv
<1> QED
  BY <1>6, <1>7

\* A finished command is no longer awaited, nor is it the one that is stuck.
LEMMA WaitDonePipe ==
    ASSUME CmdInv, PipeInv, NEW p \in Procs, WaitDone(p)
    PROVE  PipeInv'
<1>1. PICK c : c = cmd[p]
  OBVIOUS
<1>2. pc[p] = "wait" /\ c \in Slots /\ c \in completed /\ c # NoCmd
  BY <1>1, Consts DEF CmdInv, WaitDone, ProcType, Holding
<1>3. /\ cmds' = Unlink(c) /\ pc' = [pc EXCEPT ![p] = "free"]
      /\ UNCHANGED <<state, kind, waitPush, waitCfm, cmd, bus, cmd_buf, cmd_txstate, tpc, fw,
                     unsent, overwritten>>
  BY <1>1 DEF WaitDone, busVars
<1>4. pc'[p] = "free" /\ \A q \in Procs : q # p => pc'[q] = pc[q]
  BY <1>3 DEF CmdInv, ProcType
<1>5. Listed' = Listed \ {c} /\ (Drained => Drained')
  <2>1. CASE c \in Listed
    <3>1. Listed' = Listed \ {c}
      BY <1>3, <2>1, UnlinkedList DEF CmdInv
    <3>2. ~ Drained
      BY <2>1, ListedSlots DEF CmdInv, Drained
    <3> QED
      BY <3>1, <3>2
  <2>2. CASE c \notin Listed
    BY <1>3, <2>2 DEF Unlink, Listed, Drained
  <2> QED
    BY <2>1, <2>2
<1>6. ~ Awaited(c)
  BY <1>2 DEF CmdInv, Signalled, Awaited
<1>7. \A d : Awaited(d) => Awaited(d)'
  BY <1>3, <1>5, <1>6 DEF Awaited
<1>8. Pipe'
  BY <1>3, <1>4 DEF PipeInv, Pipe
<1>9. Link'
  <2>1. \A q \in Procs : pc'[q] = "settx" => Drained' \/ cmd[q] \in waitCfm
    BY <1>4, <1>5 DEF PipeInv, Link
  <2>2. \A d \in Listed' : d \in waitPush => d \in waitCfm
    BY <1>5 DEF PipeInv, Link
  <2> QED
    BY <1>3, <1>5, <1>7, <2>1, <2>2 DEF PipeInv, Link
<1>10. Stuck'
  <2> SUFFICES ASSUME state # "INITED", ~ Drained
               PROVE  \E d \in Listed' : d \notin waitPush /\ \A q \in Procs : cmd[q] # d
    BY <1>3, <1>5 DEF Stuck
  <2>1. PICK d \in Listed : d \notin waitPush /\ \A q \in Procs : cmd[q] # d
    BY DEF PipeInv, Stuck
  <2>2. d # c
    BY <1>1, <2>1
  <2> QED
    BY <1>5, <2>1, <2>2
<1> QED
  BY <1>8, <1>9, <1>10 DEF PipeInv

\* A freed command is neither on its way nor the one that is stuck.
LEMMA CmdFreePipe ==
    ASSUME CmdInv, PipeInv, NEW p \in Procs, CmdFree(p)
    PROVE  PipeInv'
<1>1. PICK c : c = cmd[p]
  OBVIOUS
<1>2. c \in Slots /\ c # NoCmd /\ c \notin Listed /\ pc[p] \in {"free", "drop"}
  BY <1>1, Consts DEF CmdInv, CmdFree, ProcType, Holding, Place
<1>3. /\ waitPush' = waitPush \ {c} /\ waitCfm' = waitCfm \ {c}
      /\ kind' = [kind EXCEPT ![c] = "none"] /\ cmd' = [cmd EXCEPT ![p] = NoCmd]
      /\ \E v \in {"idle", "scan", "wake"} : pc' = [pc EXCEPT ![p] = v]
      /\ UNCHANGED <<cmds, state, bus, cmd_buf, cmd_txstate, tpc, fw, unsent, overwritten>>
  BY <1>1, <1>2 DEF CmdFree, mgrVars, busVars, histVars
<1>4. /\ \A q \in Procs : q # p => cmd'[q] = cmd[q] /\ pc'[q] = pc[q] /\ cmd[q] # c
      /\ pc'[p] \in {"idle", "scan", "wake"} /\ cmd'[p] = NoCmd
      /\ \A d \in Slots : d # c => kind'[d] = kind[d]
      /\ kind'[c] = "none" /\ Listed' = Listed /\ (Drained' <=> Drained)
  <2>1. \A q \in Procs : q # p => cmd[q] # c
    BY <1>1, <1>2 DEF CmdInv, Own
  <2> QED
    BY <1>2, <1>3, <2>1 DEF CmdInv, ProcType, SlotType, Listed, Drained
<1>5. \A d \in Listed : d # c /\ d \in Slots /\ kind'[d] = kind[d]
  BY <1>2, <1>4, ListedSlots DEF CmdInv
<1>6. \A d : Awaited(d) => Awaited(d)' /\ kind'[d] = kind[d]
  BY <1>3, <1>4, <1>5 DEF Awaited
<1>7. Pipe'
  BY <1>3, <1>4 DEF PipeInv, Pipe
<1>8. Link'
  <2>1. \A d \in Slots : kind'[d] # "note"
    BY <1>4 DEF PipeInv, Link
  <2>2. \A q \in Procs : pc'[q] = "settx" => Drained' \/ cmd'[q] \in waitCfm'
    BY <1>3, <1>4 DEF PipeInv, Link
  <2>3. \A d \in Listed' : d \in waitPush' => d \in waitCfm'
    BY <1>3, <1>4, <1>5 DEF PipeInv, Link
  <2> QED
    BY <1>3, <1>4, <1>6, <2>1, <2>2, <2>3 DEF PipeInv, Link
<1>9. Stuck'
  BY <1>3, <1>4, <1>5, Consts DEF PipeInv, Stuck
<1> QED
  BY <1>7, <1>8, <1>9 DEF PipeInv

\* The other steps of a process.
LEMMA ProcPipe ==
    ASSUME CmdInv, PipeInv, NEW p \in Procs,
        QueueRefused(p) \/ Wake(p) \/ SetCmdTx(p) \/ BusTxMsg(p) \/ WaitTimeout(p) \/ TimedOut(p)
    PROVE  PipeInv'
<1> USE Consts DEF PipeInv, mgrVars, slotVars, busVars, histVars
<1>1. CASE QueueRefused(p)
  <2>1. /\ UNCHANGED <<cmds, state, kind, waitPush, waitCfm, cmd, bus, cmd_buf, cmd_txstate, tpc,
                       fw, unsent, overwritten>>
        /\ Listed' = Listed /\ (Drained' <=> Drained) /\ \A d : Awaited(d)' <=> Awaited(d)
    BY <1>1 DEF QueueRefused, Listed, Drained, Awaited
  <2>2. \A q \in Procs : (q # p => pc'[q] = pc[q]) /\ pc'[p] = "drop"
    BY <1>1 DEF QueueRefused, CmdInv, ProcType
  <2>3. Pipe'
    BY <2>1, <2>2 DEF Pipe
  <2>4. Link' /\ Stuck'
    BY <2>1, <2>2 DEF Link, Stuck
  <2> QED
    BY <2>3, <2>4
<1>2. CASE Wake(p)
  <2>1. /\ UNCHANGED <<cmds, state, used, kind, waitPush, waitCfm, bus, cmd_buf, cmd_txstate, tpc,
                       fw, unsent, overwritten>>
        /\ Listed' = Listed /\ (Drained' <=> Drained) /\ \A d : Awaited(d)' <=> Awaited(d)
    BY <1>2 DEF Wake, Listed, Drained, Awaited
  <2>2. /\ \A q \in Procs : q # p => cmd'[q] = cmd[q] /\ pc'[q] = pc[q]
        /\ pc'[p] = "idle" /\ cmd'[p] = NoCmd
    BY <1>2 DEF Wake, Return, CmdInv, ProcType
  <2>3. Pipe'
    BY <2>1, <2>2 DEF Pipe
  <2>4. Link'
    BY <2>1, <2>2 DEF Link
  <2>5. Stuck'
    BY <2>1, <2>2, ListedSlots DEF Stuck, CmdInv
  <2> QED
    BY <2>3, <2>4, <2>5
<1>3. CASE SetCmdTx(p)
  <2>1. PICK c : c = cmd[p]
    OBVIOUS
  <2>2. pc[p] = "settx" /\ c \in Slots /\ kind[c] # "note" /\ ~ unsent /\ fw = <<>>
    BY <1>3, <2>1 DEF SetCmdTx, CmdInv, ProcType, Holding, Link, Pipe
  <2>3. /\ waitPush' = waitPush \ {c} /\ overwritten' = (overwritten \/ unsent) /\ unsent' = TRUE
        /\ cmd_buf' = [c |-> c, k |-> kind[c]]
        /\ pc' = [pc EXCEPT ![p] = "txmsg"]
        /\ UNCHANGED <<cmds, state, kind, waitCfm, cmd, bus, cmd_txstate, tpc, fw>>
    BY <1>3, <2>1, <2>2 DEF SetCmdTx, MsgOf
  <2>4. /\ \A q \in Procs : q # p => pc'[q] = pc[q]
        /\ pc'[p] = "txmsg" /\ cmd_buf'.c = c /\ cmd_buf'.k = kind[c]
        /\ Listed' = Listed /\ (Drained' <=> Drained)
    BY <2>3 DEF CmdInv, ProcType, Listed, Drained
  <2>5. Pipe'
    <3>1. \A q \in Procs : pc'[q] \in {"settx", "txmsg"} => q = p
      BY <2>2, <2>4 DEF Pipe
    <3>2. ~ cmd_txstate /\ tpc # "msg" /\ ~ overwritten
      BY <2>2 DEF Pipe
    <3>3. ~ overwritten'
      BY <2>2, <2>3, <3>2
    <3> QED
      BY <2>1, <2>2, <2>3, <2>4, <3>1, <3>2, <3>3 DEF Pipe
  <2>6. Link'
    <3>1. Drained' \/ Awaited(c)'
      BY <2>1, <2>2, <2>3, <2>4, PushedIs DEF Awaited
    <3> QED
      BY <2>2, <2>3, <2>4, <3>1 DEF Link, Pipe
  <2>7. Stuck'
    BY <2>3, <2>4 DEF Stuck
  <2> QED
    BY <2>5, <2>6, <2>7
<1>4. CASE BusTxMsg(p)
  <2>1. pc[p] = "txmsg" /\ cmd[p] \in Slots /\ kind[cmd[p]] # "note"
    BY <1>4 DEF BusTxMsg, CmdInv, ProcType, Holding, Link
  <2>2. /\ UNCHANGED <<cmds, state, kind, waitPush, waitCfm, cmd, bus, cmd_buf, tpc, fw, unsent,
                       overwritten>>
        /\ cmd_txstate' = TRUE /\ pc' = [pc EXCEPT ![p] = "wait"]
    BY <1>4, <2>1 DEF BusTxMsg
  <2>3. /\ Listed' = Listed /\ (Drained' <=> Drained) /\ \A d : Awaited(d)' <=> Awaited(d)
        /\ \A q \in Procs : (q # p => pc'[q] = pc[q]) /\ pc'[p] = "wait"
    BY <2>2 DEF CmdInv, ProcType, Listed, Drained, Awaited
  <2>4. unsent /\ \A q \in Procs : pc'[q] \notin {"settx", "txmsg"}
    BY <2>1, <2>3 DEF Pipe
  <2>5. Pipe'
    BY <2>2, <2>4 DEF Pipe
  <2>6. Link' /\ Stuck'
    BY <2>2, <2>3, <2>4 DEF Link, Stuck
  <2> QED
    BY <2>5, <2>6
<1>5. CASE WaitTimeout(p)
  <2>1. /\ UNCHANGED <<cmds, state, kind, waitPush, waitCfm, cmd, bus, cmd_buf, cmd_txstate, tpc,
                       fw, unsent, overwritten>>
        /\ Listed' = Listed /\ (Drained' <=> Drained) /\ \A d : Awaited(d)' <=> Awaited(d)
    BY <1>5 DEF WaitTimeout, Listed, Drained, Awaited
  <2>2. \A q \in Procs : (q # p => pc'[q] = pc[q]) /\ pc'[p] = "tout"
    BY <1>5 DEF WaitTimeout, CmdInv, ProcType
  <2>3. Pipe'
    BY <2>1, <2>2 DEF Pipe
  <2>4. Link' /\ Stuck'
    BY <2>1, <2>2 DEF Link, Stuck
  <2> QED
    BY <2>3, <2>4
<1>6. CASE TimedOut(p)
  <2>1. PICK c : c = cmd[p]
    OBVIOUS
  <2>2. pc[p] = "tout" /\ c \in Slots /\ c # NoCmd /\ kind[c] # "note" /\ c \notin waitPush
    BY <1>6, <2>1 DEF TimedOut, CmdInv, ProcType, Holding, Link, Deferred
  <2>3. /\ UNCHANGED <<cmds, kind, waitPush, waitCfm, bus, cmd_buf, cmd_txstate, tpc, fw, unsent,
                       overwritten>>
        /\ state' = "CRASHED" /\ cmd' = [cmd EXCEPT ![p] = NoCmd]
        /\ pc' = [pc EXCEPT ![p] = IF p = Worker THEN "scan" ELSE "idle"]
    BY <1>6 DEF TimedOut, CmdComplete
  <2>4. /\ \A q \in Procs : q # p => cmd'[q] = cmd[q] /\ pc'[q] = pc[q]
        /\ pc'[p] \in {"scan", "idle"} /\ cmd'[p] = NoCmd
        /\ Listed' = Listed /\ (Drained => Drained') /\ \A d : Awaited(d)' <=> Awaited(d)
    BY <2>3 DEF CmdInv, ProcType, Listed, Drained, Awaited
  <2>5. Pipe'
    BY <2>3, <2>4 DEF Pipe
  <2>6. Link'
    BY <2>3, <2>4 DEF Link
  <2>7. Stuck'
    <3>1. Drained \/ c \in Listed
      BY <2>1, <2>2 DEF CmdInv, Place, Pushing
    <3>2. \A q \in Procs : cmd'[q] # c
      BY <2>1, <2>2, <2>4 DEF CmdInv, Own
    <3> QED
      BY <2>2, <2>3, <2>4, <3>1, <3>2 DEF Stuck
  <2> QED
    BY <2>5, <2>6, <2>7
<1> QED
  BY <1>1, <1>2, <1>3, <1>4, <1>5, <1>6

\* The worker pushes the first command only if all are waiting, so nothing is
\* on its way.
LEMMA WorkScanPipe ==
    ASSUME CmdInv, PipeInv, WorkScan
    PROVE  PipeInv'
<1> USE Consts DEF PipeInv, mgrVars, slotVars, busVars, histVars
<1>1. /\ UNCHANGED <<cmds, state, kind, waitPush, waitCfm, bus, cmd_buf, cmd_txstate, tpc, fw,
                     unsent, overwritten>>
      /\ Listed' = Listed /\ (Drained' <=> Drained) /\ \A d : Awaited(d)' <=> Awaited(d)
  BY DEF WorkScan, Listed, Drained, Awaited
<1>2. CASE cmds # <<>> /\ Head(cmds) \in waitPush
  <2>1. /\ Head(cmds) = cmds[1] /\ cmds[1] \in Listed /\ cmds[1] \in Slots /\ ~ Drained
        /\ DOMAIN cmds = 1..Len(cmds) /\ Len(cmds) \in Nat /\ 1 \in DOMAIN cmds
    BY <1>2, ListedSlots DEF CmdInv, ListType, Drained
  <2>2. pc' = [pc EXCEPT ![Worker] = "settx"] /\ cmd' = [cmd EXCEPT ![Worker] = cmds[1]]
    BY <1>2, <2>1 DEF WorkScan
  <2>3. \A d \in Listed : d \in waitPush
    <3> SUFFICES ASSUME NEW d \in Listed PROVE d \in waitPush
      OBVIOUS
    <3>1. PICK i \in DOMAIN cmds : d = cmds[i]
      BY ListedIs
    <3>2. i = 1 \/ 1 < i
      BY <2>1
    <3> QED
      BY <1>2, <2>1, <3>1, <3>2 DEF CmdInv, Order, Flags
  <2>4. \A d \in Listed : ~ Awaited(d)
    BY <2>3 DEF Awaited
  <2>5. ~ unsent /\ fw = <<>> /\ \A q \in Procs : pc[q] # "txmsg" /\ (pc[q] = "settx" => q = Worker)
    BY <2>1, <2>4, Quiet
  <2>6. /\ \A q \in Procs : q # Worker => cmd'[q] = cmd[q] /\ pc'[q] = pc[q]
        /\ cmd'[Worker] = cmds[1] /\ pc'[Worker] = "settx"
    BY <2>2 DEF CmdInv, ProcType
  <2>7. Pipe'
    BY <1>1, <2>5, <2>6 DEF Pipe
  <2>8. Link'
    BY <1>1, <2>1, <2>3, <2>5, <2>6 DEF Link
  <2>9. Stuck'
    BY <1>1, <2>1, <2>3 DEF Stuck
  <2> QED
    BY <2>7, <2>8, <2>9
<1>3. CASE ~ (cmds # <<>> /\ Head(cmds) \in waitPush)
  <2>1. /\ \A q \in Procs : q # Worker => cmd'[q] = cmd[q] /\ pc'[q] = pc[q]
        /\ cmd'[Worker] = NoCmd /\ pc'[Worker] = "idle"
    BY <1>3 DEF WorkScan, Return, CmdInv, ProcType
  <2>2. Pipe'
    BY <1>1, <2>1 DEF Pipe
  <2>3. Link'
    BY <1>1, <2>1 DEF Link
  <2>4. Stuck'
    BY <1>1, <2>1, ListedSlots DEF Stuck, CmdInv
  <2> QED
    BY <2>2, <2>3, <2>4
<1> QED
  BY <1>2, <1>3

\* The transmit thread, the firmware and removal.
LEMMA RestPipe ==
    ASSUME CmdInv, PipeInv,
        WorkStart \/ TxThreadWake \/ TxMsg \/ MsgInd \/ FwIgnores \/ BusStop \/ Deinit
    PROVE  PipeInv'
<1> USE Consts DEF PipeInv, mgrVars, slotVars, procVars, busVars, histVars
<1>1. CASE WorkStart
  <2>1. /\ UNCHANGED <<cmds, state, kind, waitPush, waitCfm, cmd, bus, cmd_buf, cmd_txstate, tpc,
                       fw, unsent, overwritten>>
        /\ Listed' = Listed /\ (Drained' <=> Drained) /\ \A d : Awaited(d)' <=> Awaited(d)
    BY <1>1 DEF WorkStart, Listed, Drained, Awaited
  <2>2. \A q \in Procs : (q # Worker => pc'[q] = pc[q]) /\ pc'[Worker] = "scan"
    BY <1>1 DEF WorkStart, CmdInv, ProcType
  <2> QED
    BY <2>1, <2>2 DEF Pipe, Link, Stuck
<1>2. CASE TxThreadWake
  <2>1. /\ UNCHANGED <<cmds, state, kind, waitPush, waitCfm, pc, cmd, bus, cmd_buf, cmd_txstate,
                       fw, unsent, overwritten>>
        /\ Listed' = Listed /\ (Drained' <=> Drained) /\ \A d : Awaited(d)' <=> Awaited(d)
        /\ tpc' = "msg" => cmd_txstate
    BY <1>2 DEF TxThreadWake, Listed, Drained, Awaited
  <2> QED
    BY <2>1 DEF Pipe, Link, Stuck
<1>3. CASE TxMsg
  <2>1. /\ UNCHANGED <<cmds, state, kind, waitPush, waitCfm, pc, cmd, bus, cmd_buf, overwritten>>
        /\ tpc = "msg" /\ tpc' = "idle"
        /\ Listed' = Listed /\ (Drained' <=> Drained) /\ \A d : Awaited(d)' <=> Awaited(d)
    BY <1>3 DEF TxMsg, Listed, Drained, Awaited
  <2>2. unsent /\ cmd_txstate /\ fw = <<>> /\ \A q \in Procs : pc[q] \notin {"settx", "txmsg"}
    BY <2>1 DEF Pipe
  <2>3. CASE UNCHANGED <<cmd_txstate, unsent, fw>>
    BY <2>1, <2>3 DEF Pipe, Link, Stuck
  <2>4. CASE ~ cmd_txstate' /\ ~ unsent' /\ fw' \in {fw, Append(fw, cmd_buf)}
    <3>1. fw' = <<>> \/ (Len(fw') = 1 /\ fw'[1] = cmd_buf)
      <4>1. Append(<<>>, cmd_buf) = <<cmd_buf>>
        OBVIOUS
      <4> QED
        BY <2>2, <2>4, <4>1
    <3>2. Len(fw') <= 1
      <4>1. CASE fw' = <<>>
        BY <4>1
      <4>2. CASE Len(fw') = 1
        BY <4>2
      <4> QED
        BY <3>1, <4>1, <4>2
    <3>3. Pipe'
      BY <2>1, <2>2, <2>4, <3>2 DEF Pipe
    <3>4. Link'
      BY <2>1, <2>2, <2>4, <3>1 DEF Link
    <3> QED
      BY <2>1, <3>3, <3>4 DEF Stuck
  <2> QED
    BY <1>3, <2>3, <2>4 DEF TxMsg, Received
<1>4. CASE MsgInd
  <2>1. fw # <<>> /\ fw' = Tail(fw)
    BY <1>4 DEF MsgInd
  <2>2. fw' = <<>> /\ Head(fw) = fw[1]
    <3>1. Len(fw) = 1
      <4>1. fw \in Seq([c : Slots, k : AllKinds]) /\ Len(fw) <= 1
        BY DEF Pipe, CmdInv, BusType
      <4>2. PICK n \in Nat : n = Len(fw)
        BY <4>1
      <4>3. n # 0 /\ n <= 1
        BY <2>1, <4>1, <4>2
      <4> QED
        BY <4>2, <4>3
    <3> QED
      BY <2>1, <3>1 DEF CmdInv, BusType
  <2>3. ~ unsent /\ \A q \in Procs : pc[q] \notin {"settx", "txmsg"}
    BY <2>1 DEF Pipe
  <2>4. PICK c : c = Matching(fw[1].k)
    OBVIOUS
  <2>5. (c = NoCmd /\ waitCfm' = waitCfm) \/ waitCfm' = waitCfm \ {c}
    BY <1>4, <2>2, <2>4 DEF MsgInd
  <2>6. c = NoCmd \/ c \notin waitPush
    BY <2>1, <2>4, MatchIsFlight DEF Awaited
  <2>7. UNCHANGED <<cmds, state, kind, waitPush, pc, cmd, bus, cmd_buf, cmd_txstate, tpc, unsent,
                    overwritten>>
    BY <1>4 DEF MsgInd, CmdComplete
  <2>8. Listed' = Listed /\ (Drained' <=> Drained)
    BY <2>7 DEF Listed, Drained
  <2>9. Pipe'
    <3>1. Len(fw') <= 1
      BY <2>2
    <3> QED
      BY <2>2, <2>3, <2>7, <3>1 DEF Pipe
  <2>10. Link'
    <3>1. \A d \in Listed : d \in waitPush => d \in waitCfm'
      <4>1. ASSUME NEW d \in Listed, d \in waitPush PROVE d \in waitCfm /\ d # NoCmd
        BY <4>1, ListedSlots DEF Link, CmdInv
      <4> QED
        BY <2>5, <2>6, <4>1
    <3> QED
      BY <2>2, <2>3, <2>7, <2>8, <3>1 DEF Link
  <2>11. Stuck'
    BY <2>7, <2>8 DEF Stuck
  <2> QED
    BY <2>9, <2>10, <2>11
<1>5. CASE FwIgnores
  <2>1. fw # <<>> /\ fw' = Tail(fw)
    BY <1>5 DEF FwIgnores
  <2>2. fw' = <<>> /\ Len(fw') <= 1
    <3>1. Len(fw) = 1
      <4>1. fw \in Seq([c : Slots, k : AllKinds]) /\ Len(fw) <= 1
        BY DEF Pipe, CmdInv, BusType
      <4>2. PICK n \in Nat : n = Len(fw)
        BY <4>1
      <4>3. n # 0 /\ n <= 1
        BY <2>1, <4>1, <4>2
      <4> QED
        BY <4>2, <4>3
    <3> QED
      BY <2>1, <3>1 DEF CmdInv, BusType
  <2>3. /\ UNCHANGED <<cmds, state, kind, waitPush, waitCfm, pc, cmd, bus, cmd_buf, cmd_txstate,
                       tpc, unsent, overwritten>>
        /\ Listed' = Listed /\ (Drained' <=> Drained) /\ \A d : Awaited(d)' <=> Awaited(d)
    BY <1>5 DEF FwIgnores, Listed, Drained, Awaited
  <2> QED
    BY <2>2, <2>3 DEF Pipe, Link, Stuck
<1>6. CASE BusStop
  <2>1. /\ UNCHANGED <<cmds, state, kind, waitPush, waitCfm, pc, cmd, cmd_buf, cmd_txstate, tpc,
                       fw, unsent, overwritten>>
        /\ Listed' = Listed /\ (Drained => Drained') /\ \A d : Awaited(d)' <=> Awaited(d)
    BY <1>6 DEF BusStop, Listed, Drained, Awaited
  <2> QED
    BY <2>1 DEF Pipe, Link, Stuck
<1>7. CASE Deinit
  <2>1. /\ UNCHANGED <<kind, waitPush, waitCfm, pc, cmd, bus, cmd_buf, cmd_txstate, tpc, fw,
                       unsent, overwritten>>
        /\ Listed' = {} /\ Drained'
    BY <1>7 DEF Deinit, Listed, Drained, Range
  <2> QED
    BY <2>1 DEF Pipe, Link, Stuck
<1> QED
  BY <1>1, <1>2, <1>3, <1>4, <1>5, <1>6, <1>7

\* Initially nothing is on its way.
LEMMA PipeInit == Init => PipeInv
<1> SUFFICES ASSUME Init PROVE PipeInv
  OBVIOUS
<1>1. Listed = {} /\ Len(fw) = 0
  BY DEF Init, Listed, Range
<1>2. Pipe
  BY <1>1 DEF Init, Pipe
<1>3. Link /\ Stuck
  BY <1>1 DEF Init, Link, Stuck
<1> QED
  BY <1>2, <1>3 DEF PipeInv

\* Every step keeps the pipe.
LEMMA PipeStep ==
    ASSUME "note" \notin Kinds, CmdInv, PipeInv, [Next]_vars
    PROVE  PipeInv'
<1>1. CASE Next
  <2>1. ASSUME NEW p \in Callers, NEW k \in Kinds, SendMsg(p, k) PROVE PipeInv'
    BY <2>1, SendMsgPipe
  <2>2. ASSUME NEW p \in Procs, ProcStep(p) PROVE PipeInv'
    BY <2>2, QueuePipe, WaitDonePipe, CmdFreePipe, ProcPipe DEF ProcStep
  <2>3. CASE WorkStart \/ TxThreadWake \/ TxMsg \/ MsgInd \/ FwIgnores \/ BusStop \/ Deinit
    BY <2>3, RestPipe
  <2> QED
    BY <1>1, <2>1, <2>2, <2>3, WorkScanPipe DEF Next
<1>2. CASE UNCHANGED vars
  <2>1. /\ UNCHANGED <<cmds, state, kind, waitPush, waitCfm, pc, cmd, bus, cmd_buf, cmd_txstate,
                       tpc, fw, unsent, overwritten>>
        /\ Listed' = Listed /\ (Drained' <=> Drained) /\ \A d : Awaited(d)' <=> Awaited(d)
    BY <1>2 DEF vars, mgrVars, slotVars, procVars, busVars, histVars, Listed, Drained, Awaited
  <2> QED
    BY <2>1 DEF PipeInv, Pipe, Link, Stuck
<1> QED
  BY <1>1, <1>2

\* The invariant of a manager all of whose messages want a confirmation.
LEMMA PipeInvariant ==
    ASSUME "note" \notin Kinds
    PROVE  Spec => [](CmdInv /\ PipeInv)
<1>1. Init => CmdInv /\ PipeInv
  BY CmdInit, PipeInit
<1>2. CmdInv /\ PipeInv /\ [Next]_vars => (CmdInv /\ PipeInv)'
  BY CmdStep, PipeStep
<1> QED
  BY <1>1, <1>2, PTL DEF Spec

\* If every message wants a confirmation none is overwritten in bus->cmd_buf
\* before the transmit thread has sent it, although aicwf_set_cmd_tx takes no
\* lock.
THEOREM NothingOverwritten ==
    ASSUME "note" \notin Kinds
    PROVE  Spec => []MessagesNotOverwritten
<1>1. CmdInv /\ PipeInv => MessagesNotOverwritten
  BY DEF PipeInv, Pipe, MessagesNotOverwritten
<1> QED
  BY <1>1, PipeInvariant, PTL

\* If every message wants a confirmation, cmd_mgr_msgind completes the command
\* the firmware has answered and no other.
THEOREM CfmsMatched ==
    ASSUME "note" \notin Kinds
    PROVE  Spec => []CfmMatches
<1>1. CmdInv /\ PipeInv => CfmMatches
  <2> SUFFICES ASSUME CmdInv, PipeInv, NEW i \in DOMAIN fw
               PROVE  Matching(fw[i].k) \in {NoCmd, fw[i].c}
    BY DEF CfmMatches
  <2>1. fw \in Seq([c : Slots, k : AllKinds]) /\ Len(fw) <= 1
    BY DEF CmdInv, BusType, PipeInv, Pipe
  <2>2. i = 1 /\ fw # <<>>
    BY <2>1
  <2> QED
    BY <2>2, MatchIsFlight
<1> QED
  BY <1>1, PipeInvariant, PTL

-----------------------------------------------------------------------------
(* The manager implements the line *)

\* The line's view of the list.
Waiting == SubSeq(cmds, PushedCount + 1, Len(cmds))

\* The end of a list that starts after its first n commands.
LEMMA EndOfList ==
    ASSUME NEW s \in Seq(Slots), NEW W, NEW n \in 0..Len(s),
           \A i \in 1..Len(s) : s[i] \in W <=> i > n
    PROVE  Cardinality({i \in DOMAIN s : s[i] \notin W}) = n
<1>1. Len(s) \in Nat /\ DOMAIN s = 1..Len(s)
  OBVIOUS
<1>2. {i \in DOMAIN s : s[i] \notin W} = 1..n
  BY <1>1
<1>3. Cardinality(1..n) = IF 1 > n THEN 0 ELSE n - 1 + 1
  BY FS_Interval
<1>4. Cardinality(1..n) = n
  BY <1>3
<1> QED
  BY <1>2, <1>4

\* Two lists with the same places are the same.
LEMMA SameList ==
    ASSUME NEW s \in Seq(Slots), NEW t \in Seq(Slots), Len(s) = Len(t),
           \A i \in 1..Len(s) : s[i] = t[i]
    PROVE  s = t
  BY SeqEqual

\* What the end is.
LEMMA EndIs ==
    ASSUME NEW s \in Seq(Slots), NEW n \in 0..Len(s)
    PROVE  /\ SubSeq(s, n + 1, Len(s)) \in Seq(Slots)
           /\ Len(SubSeq(s, n + 1, Len(s))) = Len(s) - n
           /\ \A i \in 1..(Len(s) - n) : SubSeq(s, n + 1, Len(s))[i] = s[n + i]
<1>1. Len(s) \in Nat
  OBVIOUS
<1> QED
  BY <1>1

\* A step that changes nothing the line sees.
LEMMA Stutters ==
    ASSUME cmds' = cmds, waitPush' = waitPush, waitCfm' = waitCfm,
           state' = "INITED" <=> state = "INITED"
    PROVE  UNCHANGED Line!lineVars
  BY DEF Line!lineVars, PushedCount, InFlight

\* The line's view, given how many commands of the list have been pushed.
LEMMA WaitingIs ==
    ASSUME cmds \in Seq(Slots), NEW n \in 0..Len(cmds),
           \A i \in 1..Len(cmds) : cmds[i] \in waitPush <=> i > n
    PROVE  /\ Waiting \in Seq(Slots) /\ Len(Waiting) = Len(cmds) - n
           /\ \A i \in 1..(Len(cmds) - n) : Waiting[i] = cmds[n + i]
<1>1. PICK s : s = cmds
  OBVIOUS
<1>2. PICK W : W = waitPush
  OBVIOUS
<1>3. PushedCount = n
  BY <1>1, <1>2, EndOfList DEF PushedCount
<1>4. s \in Seq(Slots) /\ n \in 0..Len(s)
  BY <1>1
<1>5. /\ SubSeq(s, n + 1, Len(s)) \in Seq(Slots)
      /\ Len(SubSeq(s, n + 1, Len(s))) = Len(s) - n
      /\ \A i \in 1..(Len(s) - n) : SubSeq(s, n + 1, Len(s))[i] = s[n + i]
  BY <1>4, EndIs
<1> QED
  BY <1>1, <1>3, <1>5 DEF Waiting

\* The same of the next state.
LEMMA WaitingIsNext ==
    ASSUME cmds' \in Seq(Slots), NEW n \in 0..Len(cmds'),
           \A i \in 1..Len(cmds') : cmds'[i] \in waitPush' <=> i > n
    PROVE  /\ Waiting' \in Seq(Slots) /\ Len(Waiting') = Len(cmds') - n
           /\ \A i \in 1..(Len(cmds') - n) : Waiting'[i] = cmds'[n + i]
<1>1. PICK s : s = cmds'
  OBVIOUS
<1>2. PICK W : W = waitPush'
  OBVIOUS
<1>3. PushedCount' = n
  BY <1>1, <1>2, EndOfList DEF PushedCount
<1>4. s \in Seq(Slots) /\ n \in 0..Len(s)
  BY <1>1
<1>5. /\ SubSeq(s, n + 1, Len(s)) \in Seq(Slots)
      /\ Len(SubSeq(s, n + 1, Len(s))) = Len(s) - n
      /\ \A i \in 1..(Len(s) - n) : SubSeq(s, n + 1, Len(s))[i] = s[n + i]
  BY <1>4, EndIs
<1> QED
  BY <1>1, <1>3, <1>5 DEF Waiting

\* The commands not pushed are the end of the list.
LEMMA PushedFirst ==
    ASSUME CmdInv
    PROVE  \E n \in 0..Len(cmds) : \A i \in 1..Len(cmds) : cmds[i] \in waitPush <=> i > n
<1>1. DOMAIN cmds = 1..Len(cmds) /\ Len(cmds) \in Nat
  BY ListedSlots DEF CmdInv
<1>2. PICK T : T = {i \in 1..Len(cmds) : cmds[i] \in waitPush}
  OBVIOUS
<1>3. CASE T = {}
  <2>1. \A i \in 1..Len(cmds) : cmds[i] \notin waitPush /\ ~ (i > Len(cmds))
    BY <1>1, <1>2, <1>3
  <2>2. Len(cmds) \in 0..Len(cmds)
    BY <1>1
  <2> QED
    BY <2>1, <2>2
<1>4. CASE T # {}
  <2>1. T \subseteq Nat
    BY <1>1, <1>2
  <2>2. PICK x \in T : \A y \in T : x <= y
    BY <1>4, <2>1, LeastNat
  <2>3. x \in 1..Len(cmds) /\ cmds[x] \in waitPush
    BY <1>2, <2>2
  <2>4. ASSUME NEW i \in 1..Len(cmds) PROVE cmds[i] \in waitPush <=> i > x - 1
    <3>1. ASSUME i > x PROVE cmds[i] \in waitPush
      BY <1>1, <2>3, <3>1 DEF CmdInv, Order, Flags
    <3>2. ASSUME cmds[i] \in waitPush PROVE x <= i
      BY <1>2, <2>2, <3>2
    <3>3. (i > x - 1 <=> x <= i) /\ (x <= i <=> i > x \/ i = x)
      BY <1>1, <2>3
    <3> QED
      BY <2>3, <3>1, <3>2, <3>3
  <2>5. x - 1 \in 0..Len(cmds)
    BY <1>1, <2>3
  <2> QED
    BY <2>4, <2>5
<1> QED
  BY <1>3, <1>4

\* What the line knows is in the list.
LEMMA KnownListed ==
    ASSUME CmdInv
    PROVE  Line!Known \subseteq Listed
<1>1. PICK n \in 0..Len(cmds) : \A i \in 1..Len(cmds) : cmds[i] \in waitPush <=> i > n
  BY PushedFirst
<1>2. /\ Waiting \in Seq(Slots) /\ Len(Waiting) = Len(cmds) - n
      /\ \A i \in 1..(Len(cmds) - n) : Waiting[i] = cmds[n + i]
  BY <1>1, WaitingIs DEF CmdInv, ListType
<1>3. DOMAIN cmds = 1..Len(cmds) /\ Len(cmds) \in Nat
  BY ListedSlots DEF CmdInv
<1>4. \A i \in DOMAIN Waiting : Waiting[i] \in Listed
  <2> SUFFICES ASSUME NEW i \in DOMAIN Waiting PROVE Waiting[i] \in Listed
    OBVIOUS
  <2>1. i \in 1..(Len(cmds) - n)
    BY <1>2
  <2>2. n + i \in DOMAIN cmds
    BY <1>1, <1>3, <2>1
  <2> QED
    BY <1>2, <2>1, <2>2, ListedIs
<1> QED
  BY <1>4 DEF Line!Known, Waiting, InFlight, Listed

\* A command joins the list.
LEMMA QueueLine ==
    ASSUME CmdInv, PipeInv, NEW p \in Procs, Queue(p)
    PROVE  Line!Next
<1>1. PICK c : c = cmd[p]
  OBVIOUS
<1>2. pc[p] = "queue" /\ c \in Slots /\ c \notin Listed /\ c \notin Flags
  BY <1>1, Consts DEF CmdInv, Queue, ProcType, Place, Holding
<1>3. /\ state = "INITED" /\ state' = state /\ cmds' = Append(cmds, c)
      /\ waitCfm' = waitCfm \cup {c}
  BY <1>1 DEF Queue
<1>4. /\ cmds' \in Seq(Slots) /\ Len(cmds') = Len(cmds) + 1
      /\ DOMAIN cmds' = 1..(Len(cmds) + 1) /\ cmds'[Len(cmds) + 1] = c
      /\ \A i \in DOMAIN cmds : i \in DOMAIN cmds' /\ cmds'[i] = cmds[i]
      /\ \A i \in DOMAIN cmds' : i \in DOMAIN cmds \/ i = Len(cmds) + 1
      /\ Listed' = Listed \cup {c}
  BY <1>2, <1>3, AppendedList DEF CmdInv
<1>5. /\ DOMAIN cmds = 1..Len(cmds) /\ Len(cmds) \in Nat /\ cmds \in Seq(Slots)
      /\ \A i \in DOMAIN cmds : cmds[i] \in Listed
  BY ListedSlots DEF CmdInv, ListType
<1>6. c \notin Line!Known
  BY <1>2, KnownListed
<1>7. CASE DeferPush(c)
  <2>1. waitPush' = waitPush \cup {c}
    BY <1>1, <1>7 DEF Queue
  <2>2. InFlight' = InFlight
    BY <1>2, <1>3, <1>4, <2>1 DEF InFlight, Listed
  <2>3. PICK n \in 0..Len(cmds) : \A i \in 1..Len(cmds) : cmds[i] \in waitPush <=> i > n
    BY PushedFirst
  <2>4. /\ Waiting \in Seq(Slots) /\ Len(Waiting) = Len(cmds) - n
        /\ \A i \in 1..(Len(cmds) - n) : Waiting[i] = cmds[n + i]
    BY <1>5, <2>3, WaitingIs
  <2>5. n \in 0..Len(cmds') /\ \A i \in 1..Len(cmds') : cmds'[i] \in waitPush' <=> i > n
    <3>1. n \in 0..Len(cmds')
      BY <1>4, <1>5
    <3>2. ASSUME NEW i \in 1..Len(cmds') PROVE cmds'[i] \in waitPush' <=> i > n
      <4>1. CASE i = Len(cmds) + 1
        <5>1. i > n
          BY <1>5, <4>1
        <5> QED
          BY <1>4, <2>1, <4>1, <5>1
      <4>2. CASE i \in 1..Len(cmds)
        <5>1. cmds'[i] = cmds[i] /\ cmds[i] # c
          BY <1>2, <1>4, <1>5, <4>2
        <5> QED
          BY <2>1, <2>3, <4>2, <5>1
      <4> QED
        BY <1>4, <1>5, <3>2, <4>1, <4>2
    <3> QED
      BY <3>1, <3>2
  <2>6. /\ Waiting' \in Seq(Slots) /\ Len(Waiting') = Len(cmds') - n
        /\ \A i \in 1..(Len(cmds') - n) : Waiting'[i] = cmds'[n + i]
    BY <1>4, <2>5, WaitingIsNext
  <2>7. Waiting' = Append(Waiting, c)
    <3>1. PICK s \in Seq(Slots) : s = Waiting'
      BY <2>6
    <3>0. PICK w \in Seq(Slots) : w = Waiting
      BY <2>4
    <3>2. PICK t \in Seq(Slots) : t = Append(w, c)
      <4>1. Append(w, c) \in Seq(Slots)
        BY <1>2
      <4> QED
        BY <4>1
    <3>3. Len(s) = Len(t) /\ Len(s) = Len(cmds) - n + 1
      BY <1>4, <1>5, <2>4, <2>6, <3>0, <3>1, <3>2
    <3>4. ASSUME NEW i \in 1..Len(s) PROVE s[i] = t[i]
      <4>1. CASE i = Len(cmds) - n + 1
        <5>1. n + i = Len(cmds) + 1 /\ i \in 1..(Len(cmds') - n)
          BY <1>4, <1>5, <3>3, <4>1
        <5>2. s[i] = c
          BY <1>4, <2>6, <3>1, <5>1
        <5>3. t[i] = c
          <6>1. i = Len(w) + 1
            BY <2>4, <3>0, <4>1
          <6> QED
            BY <3>2, <6>1
        <5> QED
          BY <5>2, <5>3
      <4>2. CASE i \in 1..(Len(cmds) - n)
        <5>1. n + i \in DOMAIN cmds /\ i \in 1..(Len(cmds') - n)
          BY <1>4, <1>5, <4>2
        <5>2. s[i] = cmds[n + i]
          BY <1>4, <2>6, <3>1, <5>1
        <5>3. t[i] = Waiting[i]
          BY <2>4, <3>0, <3>2, <4>2
        <5> QED
          BY <2>4, <4>2, <5>2, <5>3
      <4>3. i = Len(cmds) - n + 1 \/ i \in 1..(Len(cmds) - n)
        BY <1>5, <3>3
      <4> QED
        BY <4>1, <4>2, <4>3
    <3>5. s = t
      BY <3>3, <3>4, SameList
    <3> QED
      BY <3>0, <3>1, <3>2, <3>5
  <2>8. Line!Accept(c)
    BY <1>3, <1>6, <2>2, <2>7 DEF Line!Accept, Waiting
  <2> QED
    BY <1>2, <2>8 DEF Line!Next
<1>8. CASE ~ DeferPush(c)
  <2>1. waitPush' = waitPush
    BY <1>1, <1>8 DEF Queue
  <2>2. \A d \in Listed : d \notin Flags
    BY <1>8, LastUnflagged
  <2>3. InFlight = {}
    BY <2>2 DEF InFlight, Listed, Flags
  <2>4. InFlight' = {c}
    BY <1>2, <1>3, <1>4, <2>1, <2>2 DEF InFlight, Listed, Flags
  <2>5. Waiting = <<>>
    <3>1. PICK n : n = Len(cmds)
      OBVIOUS
    <3>2. n \in 0..Len(cmds) /\ \A i \in 1..Len(cmds) : cmds[i] \in waitPush <=> i > n
      BY <1>5, <2>2, <3>1 DEF Flags
    <3>3. Waiting \in Seq(Slots) /\ Len(Waiting) = Len(cmds) - n
      BY <1>5, <3>2, WaitingIs
    <3>4. Len(Waiting) = 0
      BY <1>5, <3>1, <3>3
    <3> QED
      BY <3>3, <3>4
  <2>6. Waiting' = <<>>
    <3>1. PICK n : n = Len(cmds')
      OBVIOUS
    <3>2. n \in 0..Len(cmds') /\ n \in Nat
      BY <1>4, <1>5, <3>1
    <3>3. ASSUME NEW i \in 1..Len(cmds') PROVE cmds'[i] \notin waitPush'
      <4>1. cmds'[i] \in Listed \cup {c}
        BY <1>4, <1>5
      <4> QED
        BY <1>2, <2>1, <2>2, <4>1 DEF Flags
    <3>4. \A i \in 1..Len(cmds') : cmds'[i] \in waitPush' <=> i > n
      BY <3>1, <3>2, <3>3
    <3>5. Waiting' \in Seq(Slots) /\ Len(Waiting') = Len(cmds') - n
      BY <1>4, <3>2, <3>4, WaitingIsNext
    <3>6. Len(Waiting') = 0
      BY <3>1, <3>2, <3>5
    <3> QED
      BY <3>5, <3>6
  <2>7. Line!AcceptAndPush(c)
    BY <1>3, <1>6, <2>3, <2>4, <2>5, <2>6 DEF Line!AcceptAndPush, Waiting
  <2> QED
    BY <1>2, <2>7 DEF Line!Next
<1> QED
  BY <1>7, <1>8

\* Out of service, with commands left in the list, one of them has been pushed.
LEMMA OpenWhilePushing ==
    ASSUME PipeInv, ~ Drained, \A d \in Listed : d \in waitPush
    PROVE  state = "INITED"
  BY DEF PipeInv, Stuck

\* The worker pushes the first command of the line; for a caller the line has
\* seen the push when the command was queued.
LEMMA SetCmdTxLine ==
    ASSUME CmdInv, PipeInv, NEW p \in Procs, SetCmdTx(p)
    PROVE  Line!Next \/ UNCHANGED Line!lineVars
<1>1. PICK c : c = cmd[p]
  OBVIOUS
<1>2. pc[p] = "settx" /\ c \in Slots /\ c # NoCmd
  BY <1>1, Consts DEF SetCmdTx, CmdInv, ProcType, Holding
<1>3. waitPush' = waitPush \ {c} /\ UNCHANGED <<cmds, state, waitCfm>>
  BY <1>1 DEF SetCmdTx, mgrVars
<1>4. CASE c \notin waitPush
  BY <1>3, <1>4, Stutters
<1>5. CASE c \in waitPush /\ Drained
  <2>1. DOMAIN cmds = {} /\ Range(cmds) = {} /\ cmds = <<>>
    BY <1>5 DEF Drained, Range
  <2>2. InFlight' = InFlight /\ PushedCount' = PushedCount
    BY <1>3, <2>1 DEF InFlight, PushedCount, Range
  <2> QED
    BY <1>3, <2>2 DEF Line!lineVars
<1>6. CASE c \in waitPush /\ ~ Drained
  <2>1. p = Worker /\ cmds # <<>> /\ c = cmds[1]
    BY <1>1, <1>2, <1>6 DEF CmdInv, Deferred
  <2>2. /\ DOMAIN cmds = 1..Len(cmds) /\ Len(cmds) \in Nat /\ cmds \in Seq(Slots)
        /\ 1 \in DOMAIN cmds /\ \A i \in DOMAIN cmds : cmds[i] \in Listed
    BY <2>1, ListedSlots DEF CmdInv, ListType
  <2>3. \A d \in Listed : d \in waitPush
    <3> SUFFICES ASSUME NEW d \in Listed PROVE d \in waitPush
      OBVIOUS
    <3>1. PICK i \in DOMAIN cmds : d = cmds[i]
      BY ListedIs
    <3>2. i = 1 \/ 1 < i
      BY <2>2
    <3> QED
      BY <1>6, <2>1, <2>2, <3>1, <3>2 DEF CmdInv, Order, Flags
  <2>4. state = "INITED"
    BY <1>6, <2>3, OpenWhilePushing
  <2>5. InFlight = {}
    BY <2>3 DEF InFlight, Listed
  <2>6. InFlight' = {c}
    <3>1. c \in Listed /\ c \in waitCfm
      BY <2>1, <2>2, <2>3 DEF PipeInv, Link
    <3> QED
      BY <1>3, <2>3, <3>1 DEF InFlight, Listed
  <2>7. /\ Waiting \in Seq(Slots) /\ Len(Waiting) = Len(cmds)
        /\ \A i \in 1..Len(cmds) : Waiting[i] = cmds[i]
    <3>1. 0 \in 0..Len(cmds) /\ \A i \in 1..Len(cmds) : cmds[i] \in waitPush <=> i > 0
      BY <2>2, <2>3
    <3>2. /\ Waiting \in Seq(Slots) /\ Len(Waiting) = Len(cmds) - 0
          /\ \A i \in 1..(Len(cmds) - 0) : Waiting[i] = cmds[0 + i]
      BY <2>2, <3>1, WaitingIs
    <3>3. Len(cmds) - 0 = Len(cmds)
      BY <2>2
    <3>4. \A i \in 1..Len(cmds) : 0 + i = i
      BY <2>2
    <3> QED
      BY <3>2, <3>3, <3>4
  <2>8. /\ Waiting' \in Seq(Slots) /\ Len(Waiting') = Len(cmds) - 1
        /\ \A i \in 1..(Len(cmds) - 1) : Waiting'[i] = cmds[1 + i]
    <3>1. cmds' \in Seq(Slots) /\ 1 \in 0..Len(cmds')
      BY <1>3, <2>2
    <3>2. ASSUME NEW i \in 1..Len(cmds) PROVE cmds[i] \in waitPush' <=> i > 1
      <4>1. cmds[i] = c <=> i = 1
        BY <2>1, <2>2 DEF CmdInv, Once
      <4>2. cmds[i] \in waitPush
        BY <2>2, <2>3
      <4> QED
        BY <1>3, <2>2, <4>1, <4>2
    <3>3. \A i \in 1..Len(cmds') : cmds'[i] \in waitPush' <=> i > 1
      BY <1>3, <3>2
    <3> QED
      BY <1>3, <3>1, <3>3, WaitingIsNext
  <2>9. Waiting # <<>> /\ Head(Waiting) = c /\ Waiting' = Tail(Waiting)
    <3>1. PICK w \in Seq(Slots) : w = Waiting
      BY <2>7
    <3>2. Len(w) = Len(cmds) /\ Len(w) \in Nat \ {0} /\ w # <<>> /\ w[1] = c
      BY <2>1, <2>2, <2>7, <3>1
    <3>3. PICK t \in Seq(Slots) : t = Tail(w)
      <4>1. Tail(w) \in Seq(Slots)
        BY <3>2
      <4> QED
        BY <4>1
    <3>4. PICK s \in Seq(Slots) : s = Waiting'
      BY <2>8
    <3>5. Len(t) = Len(w) - 1 /\ \A i \in 1..(Len(w) - 1) : t[i] = w[i + 1]
      BY <3>2, <3>3
    <3>6. Len(s) = Len(t)
      BY <2>8, <3>2, <3>4, <3>5
    <3>7. ASSUME NEW i \in 1..Len(s) PROVE s[i] = t[i]
      <4>1. i \in 1..(Len(cmds) - 1) /\ i + 1 = 1 + i /\ 1 + i \in 1..Len(cmds)
        BY <2>2, <2>8, <3>4
      <4>2. s[i] = cmds[1 + i] /\ t[i] = w[1 + i]
        BY <2>8, <3>2, <3>4, <3>5, <4>1
      <4> QED
        BY <2>7, <3>1, <4>1, <4>2
    <3>8. s = t
      BY <3>6, <3>7, SameList
    <3>9. Head(w) = w[1]
      BY <3>2
    <3> QED
      BY <3>1, <3>2, <3>3, <3>4, <3>8, <3>9
  <2>10. Line!Push
    BY <1>3, <2>4, <2>5, <2>6, <2>9 DEF Line!Push, Waiting
  <2> QED
    BY <2>10 DEF Line!Next
<1> QED
  BY <1>4, <1>5, <1>6

\* The line has forgotten a command that leaves the list.
LEMMA WaitDoneLine ==
    ASSUME CmdInv, PipeInv, NEW p \in Procs, WaitDone(p)
    PROVE  UNCHANGED Line!lineVars
<1>1. PICK c : c = cmd[p]
  OBVIOUS
<1>2. pc[p] = "wait" /\ c \in Slots /\ c \in completed /\ c # NoCmd /\ c \notin waitPush
  BY <1>1, Consts DEF CmdInv, WaitDone, ProcType, Holding, Deferred
<1>3. cmds' = Unlink(c) /\ UNCHANGED <<waitPush, waitCfm, state>>
  BY <1>1 DEF WaitDone
<1>4. CASE c \notin Listed
  <2>1. cmds' = cmds /\ Drained
    <3>1. kind[c] # "note"
      BY <1>2 DEF PipeInv, Link
    <3> QED
      BY <1>1, <1>2, <1>3, <1>4, <3>1 DEF Unlink, Listed, CmdInv, Place, Pushing
  <2>2. DOMAIN cmds = {} /\ Range(cmds) = {}
    BY <2>1 DEF Drained, Range
  <2>3. InFlight' = InFlight /\ PushedCount' = PushedCount
    BY <1>3, <2>1, <2>2 DEF InFlight, PushedCount, Range
  <2> QED
    BY <1>3, <2>1, <2>3 DEF Line!lineVars
<1>5. CASE c \in Listed
  <2>1. c \notin waitCfm
    BY <1>2, <1>5 DEF CmdInv, Signalled
  <2>2. waitPush' = waitPush /\ waitCfm' = waitCfm
    BY <1>3
  <2>3. /\ cmds' \in Seq(Slots) /\ Len(cmds') = Len(cmds) - 1 /\ Listed' = Listed \ {c}
        /\ \E m \in DOMAIN cmds :
               /\ cmds[m] = c /\ DOMAIN cmds' = 1..(Len(cmds) - 1)
               /\ \A i \in 1..(Len(cmds) - 1) :
                      cmds'[i] = IF i < m THEN cmds[i] ELSE cmds[i + 1]
    BY <1>3, <1>5, UnlinkedList DEF CmdInv
  <2>4. InFlight' = InFlight
    BY <2>1, <2>2, <2>3 DEF InFlight, Listed
  <2>5. PICK m \in DOMAIN cmds :
               /\ cmds[m] = c /\ DOMAIN cmds' = 1..(Len(cmds) - 1)
               /\ \A i \in 1..(Len(cmds) - 1) :
                      cmds'[i] = IF i < m THEN cmds[i] ELSE cmds[i + 1]
    BY <2>3
  <2>6. DOMAIN cmds = 1..Len(cmds) /\ Len(cmds) \in Nat /\ cmds \in Seq(Slots)
    BY ListedSlots DEF CmdInv, ListType
  <2>7. PICK n \in 0..Len(cmds) : \A i \in 1..Len(cmds) : cmds[i] \in waitPush <=> i > n
    BY PushedFirst
  <2>8. m <= n /\ m \in 1..Len(cmds)
    BY <1>2, <2>5, <2>6, <2>7
  <2>9. /\ Waiting \in Seq(Slots) /\ Len(Waiting) = Len(cmds) - n
        /\ \A i \in 1..(Len(cmds) - n) : Waiting[i] = cmds[n + i]
    BY <2>6, <2>7, WaitingIs
  <2>10. PICK k : k = n - 1
    OBVIOUS
  <2>11. k \in 0..Len(cmds') /\ n = k + 1
    BY <2>3, <2>6, <2>7, <2>8, <2>10
  <2>12. \A i \in 1..Len(cmds') : cmds'[i] \in waitPush' <=> i > k
    <3> SUFFICES ASSUME NEW i \in 1..(Len(cmds) - 1) PROVE cmds'[i] \in waitPush <=> i > k
      BY <2>2, <2>3
    <3>1. i \in 1..Len(cmds) /\ i + 1 \in 1..Len(cmds)
      BY <2>6
    <3>2. CASE i < m
      <4>1. cmds'[i] = cmds[i] /\ ~ (i > n) /\ ~ (i > k)
        BY <2>5, <2>7, <2>8, <2>11, <3>1, <3>2
      <4> QED
        BY <2>7, <3>1, <4>1
    <3>3. CASE ~ (i < m)
      <4>1. cmds'[i] = cmds[i + 1] /\ (i + 1 > n <=> i > k)
        BY <2>5, <2>7, <2>8, <2>11, <3>1, <3>3
      <4> QED
        BY <2>7, <3>1, <4>1
    <3> QED
      BY <3>2, <3>3
  <2>13. /\ Waiting' \in Seq(Slots) /\ Len(Waiting') = Len(cmds') - k
         /\ \A i \in 1..(Len(cmds') - k) : Waiting'[i] = cmds'[k + i]
    BY <2>3, <2>11, <2>12, WaitingIsNext
  <2>14. Waiting' = Waiting
    <3>0. /\ n = k + 1 /\ k \in Nat /\ n \in Nat /\ Len(cmds) \in Nat
          /\ Len(cmds') - k = Len(cmds) - n
      <4>1. Len(cmds') = Len(cmds) - 1 /\ Len(cmds) \in Nat /\ n \in Nat
        BY <2>3, <2>6, <2>7
      <4>2. n = k + 1 /\ k \in Nat
        BY <2>8, <2>10, <4>1
      <4> QED
        BY <4>1, <4>2
    <3>1. PICK s \in Seq(Slots) : s = Waiting'
      BY <2>13
    <3>2. PICK t \in Seq(Slots) : t = Waiting
      BY <2>9
    <3>3. Len(s) = Len(t) /\ Len(s) = Len(cmds) - n
      <4>1. Len(s) = Len(cmds') - k /\ Len(t) = Len(cmds) - n
        BY <2>9, <2>13, <3>1, <3>2
      <4> QED
        BY <3>0, <4>1
    <3>4. ASSUME NEW i \in 1..Len(s) PROVE s[i] = t[i]
      <4>1. /\ i \in 1..(Len(cmds) - n) /\ i \in 1..(Len(cmds') - k)
            /\ k + i \in 1..(Len(cmds) - 1) /\ ~ (k + i < m) /\ (k + i) + 1 = n + i
        <5>1. i \in 1..(Len(cmds) - n) /\ m \in Int /\ m <= n
          BY <2>8, <3>3
        <5> QED
          BY <3>0, <5>1
      <4>2. s[i] = cmds'[k + i] /\ t[i] = cmds[n + i]
        BY <2>9, <2>13, <3>1, <3>2, <4>1
      <4>3. cmds'[k + i] = cmds[(k + i) + 1]
        BY <2>5, <4>1
      <4> QED
        BY <4>1, <4>2, <4>3
    <3>5. s = t
      BY <3>3, <3>4, SameList
    <3> QED
      BY <3>1, <3>2, <3>5
  <2> QED
    BY <1>3, <2>4, <2>14 DEF Line!lineVars, Waiting
<1> QED
  BY <1>4, <1>5

\* The line does not know a command that is freed.
LEMMA CmdFreeLine ==
    ASSUME CmdInv, NEW p \in Procs, CmdFree(p)
    PROVE  UNCHANGED Line!lineVars
<1>1. PICK c : c = cmd[p]
  OBVIOUS
<1>2. c \notin Listed /\ \A i \in DOMAIN cmds : cmds[i] \in Listed
  BY <1>1, ListedSlots DEF CmdInv, CmdFree, Place
<1>3. waitPush' = waitPush \ {c} /\ waitCfm' = waitCfm \ {c} /\ UNCHANGED <<cmds, state>>
  BY <1>1 DEF CmdFree, mgrVars
<1>4. \A i \in DOMAIN cmds : cmds[i] \in waitPush' <=> cmds[i] \in waitPush
  BY <1>2, <1>3
<1>5. PushedCount' = PushedCount
  BY <1>3, <1>4 DEF PushedCount
<1>6. InFlight' = InFlight
  BY <1>2, <1>3 DEF InFlight, Listed
<1> QED
  BY <1>3, <1>5, <1>6 DEF Line!lineVars

\* A confirmation takes the command in flight out of it.
LEMMA MsgIndLine ==
    ASSUME CmdInv, PipeInv, MsgInd
    PROVE  Line!Next \/ UNCHANGED Line!lineVars
<1>1. fw # <<>> /\ Head(fw) = fw[1]
  BY DEF MsgInd, CmdInv, BusType
<1>2. PICK c : c = Matching(fw[1].k)
  OBVIOUS
<1>3. UNCHANGED <<cmds, waitPush, state>>
  BY DEF MsgInd, CmdComplete
<1>4. CASE c = NoCmd
  BY <1>1, <1>2, <1>3, <1>4, Stutters DEF MsgInd
<1>5. CASE c # NoCmd
  <2>1. Awaited(c) /\ waitCfm' = waitCfm \ {c}
    BY <1>1, <1>2, <1>5, MatchIsFlight DEF MsgInd
  <2>2. c \in InFlight
    BY <2>1 DEF Awaited, InFlight, Listed
  <2>3. \A d \in InFlight : d = c
    BY <2>2, FlightIsOne
  <2>4. InFlight' = {}
    BY <1>3, <2>1, <2>3 DEF InFlight
  <2>5. PushedCount' = PushedCount
    BY <1>3 DEF PushedCount
  <2>6. Line!Confirm
    BY <1>3, <2>2, <2>4, <2>5 DEF Line!Confirm
  <2> QED
    BY <2>6 DEF Line!Next
<1> QED
  BY <1>4, <1>5

\* The steps the line does not see, and the crash.
LEMMA ProcLine ==
    ASSUME CmdInv, PipeInv, NEW p \in Procs,
        QueueRefused(p) \/ Wake(p) \/ BusTxMsg(p) \/ WaitTimeout(p) \/ TimedOut(p)
    PROVE  Line!Next \/ UNCHANGED Line!lineVars
<1> USE Consts DEF mgrVars, slotVars
<1>1. CASE QueueRefused(p) \/ Wake(p) \/ BusTxMsg(p) \/ WaitTimeout(p)
  BY <1>1, Stutters DEF QueueRefused, Wake, BusTxMsg, WaitTimeout
<1>2. CASE TimedOut(p)
  <2>1. UNCHANGED <<cmds, waitPush, waitCfm>> /\ state' = "CRASHED"
    BY <1>2 DEF TimedOut, CmdComplete
  <2>2. InFlight' = InFlight /\ PushedCount' = PushedCount
    BY <2>1 DEF InFlight, PushedCount
  <2>3. CASE state = "INITED"
    <3>1. Line!Crash
      BY <2>1, <2>2, <2>3 DEF Line!Crash
    <3> QED
      BY <3>1 DEF Line!Next
  <2>4. CASE state # "INITED"
    BY <2>1, <2>4, Stutters
  <2> QED
    BY <2>3, <2>4
<1> QED
  BY <1>1, <1>2

\* The drain empties the line.
LEMMA DeinitLine ==
    ASSUME Deinit
    PROVE  Line!Next
<1>1. cmds' = <<>> /\ state = "INITED" /\ state' = "DEINIT"
  BY DEF Deinit
<1>2. InFlight' = {} /\ PushedCount' = 0
  <2>1. DOMAIN cmds' = {}
    BY <1>1
  <2>2. {i \in DOMAIN cmds' : cmds'[i] \notin waitPush'} = {}
    BY <2>1
  <2> QED
    BY <2>1, <2>2, FS_EmptySet DEF InFlight, PushedCount, Range
<1>3. Waiting' = <<>>
  <2>1. Len(<<>>) = 0 /\ SubSeq(<<>>, 1, 0) = <<>>
    OBVIOUS
  <2>2. Waiting' = SubSeq(<<>>, 0 + 1, Len(<<>>))
    BY <1>1, <1>2 DEF Waiting
  <2> QED
    BY <2>1, <2>2
<1>4. Line!Drain
  BY <1>1, <1>2, <1>3 DEF Line!Drain, Waiting
<1> QED
  BY <1>4 DEF Line!Next

\* Initially the line is empty and open.
LEMMA LineInit == Init => Line!Init
<1> SUFFICES ASSUME Init PROVE Line!Init
  OBVIOUS
<1>1. cmds = <<>> /\ state = "INITED" /\ DOMAIN cmds = {}
  BY DEF Init
<1>2. InFlight = {} /\ PushedCount = 0
  <2>1. {i \in DOMAIN cmds : cmds[i] \notin waitPush} = {}
    BY <1>1
  <2> QED
    BY <1>1, <2>1, FS_EmptySet DEF InFlight, PushedCount, Range
<1>3. Waiting = <<>>
  <2>1. Len(<<>>) = 0 /\ SubSeq(<<>>, 1, 0) = <<>>
    OBVIOUS
  <2>2. Waiting = SubSeq(<<>>, 0 + 1, Len(<<>>))
    BY <1>1, <1>2 DEF Waiting
  <2> QED
    BY <2>1, <2>2
<1> QED
  BY <1>1, <1>2, <1>3 DEF Line!Init, Waiting

\* Every step is a step of the line or one it does not see.
LEMMA LineStep ==
    ASSUME CmdInv, PipeInv, [Next]_vars
    PROVE  Line!Next \/ UNCHANGED Line!lineVars
<1> USE DEF mgrVars, slotVars
<1>1. ASSUME NEW p \in Callers, NEW k \in Kinds, SendMsg(p, k)
      PROVE  UNCHANGED Line!lineVars
  BY <1>1, Stutters DEF SendMsg
<1>2. ASSUME NEW p \in Procs, ProcStep(p)
      PROVE  Line!Next \/ UNCHANGED Line!lineVars
  BY <1>2, QueueLine, SetCmdTxLine, WaitDoneLine, CmdFreeLine, ProcLine DEF ProcStep
<1>3. CASE WorkStart \/ WorkScan
  BY <1>3, Stutters DEF WorkStart, WorkScan
<1>4. CASE TxThreadWake \/ TxMsg \/ FwIgnores \/ BusStop
  BY <1>4, Stutters DEF TxThreadWake, TxMsg, FwIgnores, BusStop
<1>5. CASE UNCHANGED vars
  BY <1>5, Stutters DEF vars
<1> QED
  BY <1>1, <1>2, <1>3, <1>4, <1>5, MsgIndLine, DeinitLine DEF Next

\* If every message wants a confirmation, the manager, with its list, flags,
\* callers and work item, implements the first-in first-out line of AicCmdLine.
THEOREM LineImplemented ==
    ASSUME "note" \notin Kinds
    PROVE  Spec => ImplementsLine
<1>1. Init => Line!Init
  BY LineInit
<1>2. CmdInv /\ PipeInv /\ [Next]_vars => [Line!Next]_(Line!lineVars)
  BY LineStep
<1> QED
  BY <1>1, <1>2, PipeInvariant, PTL DEF Spec, ImplementsLine, Line!Spec

=============================================================================
