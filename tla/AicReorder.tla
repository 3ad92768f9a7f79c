------------------------------ MODULE AicReorder ------------------------------
(***************************************************************************)
(* Receive reordering of the AIC8800 driver                                *)
(* (src/aic8800-vendor/aic8800_fdrv/rwnx_rx.c, AICWF_RX_REORDER) for one   *)
(* peer and one TID: the receive thread, the reorder timer, its work item  *)
(* and the teardown when the peer leaves, in station mode (where teardown  *)
(* runs on the receive thread too).                                        *)
(*                                                                         *)
(* A frame is identified by the number its sender gave it, without wrap;   *)
(* the driver only sees the sequence number, SN(n) = n % Modulus.          *)
(***************************************************************************)
EXTENDS Integers, Sequences, FiniteSets

CONSTANTS
    Modulus,     \* of sequence numbers: 4096
    WSize,       \* AICWF_REORDER_WINSIZE
    Pool,        \* MAX_REORD_RXFRAME: frame descriptors
    MaxFrame,    \* bound: highest frame number the sender uses
    Starts,      \* numbers of the first frame received
    AllocFails   \* may reord_init_sta fail to allocate?

ASSUME ReorderAssumption ==
    /\ Modulus \in Nat \ {0} /\ Modulus % 2 = 0
    /\ WSize \in Nat \ {0}
    /\ 6 * WSize <= Modulus
    /\ Pool \in Nat
    /\ MaxFrame \in Nat
    /\ Starts \subseteq 0..MaxFrame
    /\ AllocFails \in BOOLEAN

Numbers == 0..MaxFrame
NoSN    == 16 * Modulus - 1       \* 0xffff: no frame seen yet
SN(n)   == n % Modulus

VARIABLES
    known,     \* the peer has a reord_ctrl_info
    enable,
    ind_sn,    \* the sequence number waited for
    reord_list,\* the frames held back, in list order
    timer,     \* reord_timer is pending
    firing,    \* reord_timeout_handler runs
    work,      \* reord_timer_work is pending
    rpc,       \* the receive thread: "idle", "locked" (frame looked up), "flush", "deinit"
    frame,     \* the frame it handles
    free,      \* descriptors in rxframes_freequeue
    leaked,    \* descriptors lost
    out,       \* frames handed up by the last step that handled frames
    top        \* environment: the highest frame number received

ctrlVars  == <<known, enable, ind_sn, reord_list>>
timerVars == <<timer, firing, work>>
envVars   == <<free, leaked, top>>
vars == <<ctrlVars, timerVars, rpc, frame, envVars, out>>

Nothing == -1

Init ==
    /\ known = FALSE /\ enable = FALSE /\ ind_sn = NoSN /\ reord_list = <<>>
    /\ timer = FALSE /\ firing = FALSE /\ work = FALSE
    /\ rpc = "idle" /\ frame = Nothing
    /\ free = Pool /\ leaked = 0
    /\ out = <<>>
    /\ top = Nothing

-----------------------------------------------------------------------------
(* Sequence arithmetic and list operations *)

\* mutant: compares sequence numbers as plain integers
SN_LESS_Plain(a, b) == a < b

\* ((a - b) & 0x800) != 0
SN_LESS(a, b) == (a - b) % Modulus >= Modulus \div 2

\* mutant: the window start is one too low, so the window holds a frame more
WindowStart_OffByOne(s) == (s - WSize) % Modulus

\* The start of a window that ends at s, as the code writes it.
WindowStart(s) ==
    IF s >= WSize - 1
    THEN s - (WSize - 1)
    ELSE (Modulus - 1) - (WSize - (s + 1)) + 1

\* reord_need_check: is the frame late, and the new ind_sn.
NeedCheck(s) ==
    LET wend == (ind_sn + WSize - 1) % Modulus
        ind  == IF ind_sn = NoSN THEN s ELSE ind_sn
    IN  IF SN_LESS(s, ind) THEN [late |-> TRUE, ind |-> ind]
        ELSE [late |-> FALSE,
              ind  |-> IF s = ind THEN (ind + 1) % Modulus
                       ELSE IF SN_LESS(wend, s) THEN WindowStart(s)
                       ELSE ind]

\* reord_rxframe_enqueue: the frames the new one goes behind, and whether
\* its number is there already.
Behind(l, s) ==
    LET goesOn(i) == SN_LESS(SN(l[i]), s)
    IN  CHOOSE k \in 0..Len(l) :
            (\A i \in 1..k : goesOn(i)) /\ (k < Len(l) => ~ goesOn(k + 1))
IsDuplicate(l, s) == LET k == Behind(l, s) IN k < Len(l) /\ SN(l[k + 1]) = s

Enqueue(l, n) ==
    LET k == Behind(l, SN(n)) IN SubSeq(l, 1, k) \o <<n>> \o SubSeq(l, k + 1, Len(l))

\* reord_rxframes_process: the walk over the sorted list moves ind over the
\* frames in sequence and stops at the first frame beyond a gap.
Process(l, ind) ==
    LET held(s) == \E i \in DOMAIN l : SN(l[i]) = s % Modulus
        run     == CHOOSE k \in 0..Len(l) :
                      (\A d \in 0..(k - 1) : held(ind + d)) /\ ~ held(ind + k)
        next    == IF run = 0 THEN ind ELSE (ind + run) % Modulus
    IN  [ind |-> next, inBuf |-> \E i \in DOMAIN l : SN_LESS(next, SN(l[i]))]

\* reord_rxframes_ind: how many frames at the head of the list are handed up.
Ready(l, ind) ==
    CHOOSE k \in 0..Len(l) :
        /\ \A i \in 1..k : ~ SN_LESS(ind, SN(l[i]))
        /\ k < Len(l) => SN_LESS(ind, SN(l[k + 1]))

\* Process and hand up list l from ind on: what the receive path and the work
\* item have in common.
Indicate(l, ind) == \E k \in {Ready(l, ind)} :
    /\ ind_sn' = ind
    /\ out' = SubSeq(l, 1, k)
    /\ reord_list' = SubSeq(l, k + 1, Len(l))
    /\ free' = free + k

-----------------------------------------------------------------------------
(* The receive thread *)

\* The sender's window: it never runs further ahead than WSize frames, and
\* repeats none older than two windows.
CanArrive(n) ==
    IF top = Nothing THEN n \in Starts
    ELSE n <= top + WSize /\ n > top - 2 * WSize

\* reord_process_unit up to the unlock of stas_reord_lock: a descriptor is
\* taken and the peer's state looked up, created or enabled again.  Without
\* a free descriptor the frame is dropped.
Receive(n) ==
    /\ rpc = "idle" /\ free > 0 /\ CanArrive(n)
    /\ free' = free - 1
    /\ frame' = n
    /\ known' = TRUE
    /\ enable' = TRUE
    /\ ind_sn' = IF known /\ enable THEN ind_sn ELSE NoSN
    /\ rpc' = "locked"
    /\ UNCHANGED <<reord_list, timerVars, leaked, top, out>>

\* reord_init_sta fails: the frame is dropped and its descriptor is lost.
ReceiveNoMem(n) ==
    /\ AllocFails /\ rpc = "idle" /\ free > 0 /\ CanArrive(n) /\ ~ known
    /\ free' = free - 1
    /\ leaked' = leaked + 1
    /\ UNCHANGED <<ctrlVars, timerVars, rpc, frame, top, out>>

\* After the frame: top is the environment's.
Handled ==
    /\ rpc' = "idle" /\ frame' = Nothing
    /\ top' = IF frame > top THEN frame ELSE top

\* A late frame is handed up at once (RTP: dropped).
LateFrame ==
    LET c == NeedCheck(SN(frame)) IN
    /\ rpc = "locked" /\ c.late
    /\ out' \in {<<frame>>, <<>>}
    /\ ind_sn' = c.ind
    /\ free' = free + 1
    /\ Handled
    /\ UNCHANGED <<known, enable, reord_list, timerVars, leaked>>

DuplicateFrame ==
    LET c == NeedCheck(SN(frame)) IN
    /\ rpc = "locked" /\ ~ c.late
    /\ IsDuplicate(reord_list, SN(frame))
    /\ ind_sn' = c.ind
    /\ out' = <<>>
    /\ free' = free + 1
    /\ Handled
    /\ UNCHANGED <<known, enable, reord_list, timerVars, leaked>>

\* mutant: the timer is not armed when a gap opens
ArmTimer_Never(gap) == timer' = (timer /\ gap)

\* The receive path arms the timer if it is not pending, or deletes it.
ArmTimer(gap) == timer' = gap

\* The frame is queued, the window moved, frames in sequence handed up.
QueueFrame ==
    LET c == NeedCheck(SN(frame)) IN
    /\ rpc = "locked" /\ ~ c.late
    /\ ~ IsDuplicate(reord_list, SN(frame))
    /\ \E l \in {Enqueue(reord_list, frame)} : \E w \in {Process(l, c.ind)} :
          ArmTimer(w.inBuf) /\ Indicate(l, w.ind)
    /\ Handled
    /\ UNCHANGED <<known, enable, firing, work, leaked>>

\* reord_flush_tid, for a QoS frame that needs no reordering: hands up what
\* is held and disables the control ...
FlushTid ==
    /\ rpc = "idle" /\ known /\ enable
    /\ out' = reord_list
    /\ reord_list' = <<>>
    /\ free' = free + Len(reord_list)
    /\ enable' = FALSE
    /\ rpc' = "flush"
    /\ UNCHANGED <<known, ind_sn, timerVars, frame, leaked, top>>

\* ... then stops the timer (only if it looks pending; the handler is then
\* waited for) and the work.
StopTimer ==
    /\ timer => ~ firing
    /\ timer' = FALSE
    /\ work' = FALSE
    /\ UNCHANGED firing

FlushStopTimer ==
    /\ rpc = "flush"
    /\ StopTimer
    /\ rpc' = "idle"
    /\ UNCHANGED <<ctrlVars, frame, envVars, out>>

\* reord_deinit_sta: stops the timer of an enabled control ...
DeinitStop ==
    /\ rpc = "idle" /\ known /\ enable
    /\ StopTimer
    /\ enable' = FALSE
    /\ rpc' = "deinit"
    /\ UNCHANGED <<known, ind_sn, reord_list, frame, envVars, out>>

DeinitStopped == rpc = "deinit" \/ (rpc = "idle" /\ known /\ ~ enable)

\* ... then drops the held frames and frees the control.  (A timer the work
\* item armed again in between is lost from view with the freed control.)
DeinitFree ==
    /\ DeinitStopped
    /\ known' = FALSE
    /\ ind_sn' = NoSN
    /\ free' = free + Len(reord_list)
    /\ reord_list' = <<>>
    /\ out' = <<>>
    /\ timer' = FALSE /\ firing' = FALSE /\ work' = FALSE
    /\ rpc' = "idle"
    /\ UNCHANGED <<enable, frame, leaked, top>>

-----------------------------------------------------------------------------
(* The timer and its work item *)

TimerExpires ==
    /\ timer /\ ~ firing
    /\ timer' = FALSE /\ firing' = TRUE
    /\ UNCHANGED <<ctrlVars, work, rpc, frame, envVars, out>>

\* reord_timeout_handler
TimeoutHandler ==
    /\ firing
    /\ firing' = FALSE /\ work' = TRUE
    /\ UNCHANGED <<ctrlVars, timer, rpc, frame, envVars, out>>

\* mutant: the work item does not arm the timer for the gaps that remain
TimeoutWorker_NoRearm ==
    /\ work
    /\ work' = FALSE
    /\ IF reord_list = <<>> THEN UNCHANGED <<ind_sn, reord_list, free, out>>
       ELSE LET w == Process(reord_list, SN(reord_list[1]))
            IN  Indicate(reord_list, w.ind)
    /\ UNCHANGED <<known, enable, timer, firing, rpc, frame, leaked, top>>

\* reord_timeout_worker: gives up the gap before the first frame, hands up
\* what is in sequence and arms the timer if another gap remains.
TimeoutWorker ==
    /\ work
    /\ work' = FALSE
    /\ IF reord_list = <<>>
       THEN UNCHANGED <<timer, ind_sn, reord_list, free, out>>
       ELSE \E w \in {Process(reord_list, SN(reord_list[1]))} :
            /\ timer' = (timer \/ w.inBuf)
            /\ Indicate(reord_list, w.ind)
    /\ UNCHANGED <<known, enable, firing, rpc, frame, leaked, top>>

-----------------------------------------------------------------------------
Next ==
    \/ \E n \in Numbers : Receive(n) \/ ReceiveNoMem(n)
    \/ LateFrame \/ DuplicateFrame \/ QueueFrame
    \/ FlushTid \/ FlushStopTimer \/ DeinitStop \/ DeinitFree
    \/ TimerExpires \/ TimeoutHandler \/ TimeoutWorker

Spec == Init /\ [][Next]_vars

\* The receive thread in the middle of something.
ReceiveGoesOn ==
    /\ rpc # "idle"
    /\ LateFrame \/ DuplicateFrame \/ QueueFrame \/ FlushStopTimer \/ DeinitFree

\* Timers expire, handlers and work items run, the receive thread finishes
\* what it has begun; frames need not arrive.
Fairness ==
    /\ WF_vars(TimerExpires) /\ WF_vars(TimeoutHandler) /\ WF_vars(TimeoutWorker)
    /\ WF_vars(ReceiveGoesOn)

FairSpec == Spec /\ Fairness

-----------------------------------------------------------------------------
(* Properties *)

\* Types of the window, the sorted list, the descriptor pool and the timer
\* (struct reord_ctrl_info).
TypeOK ==
    /\ {known, enable, timer, firing, work} \subseteq BOOLEAN
    /\ ind_sn \in (0..(Modulus - 1)) \cup {NoSN}
    /\ reord_list \in Seq(Numbers) /\ out \in Seq(Numbers)
    /\ rpc \in {"idle", "locked", "flush", "deinit"}
    /\ frame \in Numbers \cup {Nothing} /\ top \in Numbers \cup {Nothing}
    /\ free \in 0..Pool /\ leaked \in 0..Pool

\* A descriptor is free, holds a buffered frame, is in the receive thread's
\* hands or was lost by the failed allocation: no path through duplicates,
\* late frames, flush, timeout and teardown loses or doubles one
\* (reord_rxframe_free in rwnx_rx.c:1454).
PoolBalance ==
    free + Len(reord_list) + leaked + (IF rpc = "locked" THEN 1 ELSE 0) = Pool

\* Frames held back wait for a timer, its handler or its work item: none is
\* held for ever because nobody is left to give up the gap before it.
HeldHasTimer ==
    reord_list # <<>> /\ rpc # "deinit" => timer \/ firing \/ work

\* The window: less than WSize frames are held, in the sender's order.
WindowHolds ==
    /\ Len(reord_list) < WSize
    /\ \A i, j \in DOMAIN reord_list : i < j => reord_list[i] < reord_list[j]

\* Types, descriptor pool and window together: what the buffer holds is within
\* the window, in order, and accounted for in the pool.
BufferInv == TypeOK /\ PoolBalance /\ WindowHolds

\* Every held frame is handed up (or its peer is torn down): as only finitely
\* many frames arrive, the list runs empty again and again.
HeldIsReleased == []<>(reord_list = <<>>)

\* The frame number that ind_sn stands for: the one nearest to the frames
\* received.
NextNumber ==
    IF ~ known \/ (~ enable /\ rpc # "deinit") \/ ind_sn = NoSN THEN -1
    ELSE CHOOSE n \in (top - Modulus \div 2 + 1)..(top + Modulus \div 2) : n % Modulus = ind_sn

Unwrapped == INSTANCE ReorderBuffer WITH
                 next <- NextNumber,
                 held <- {reord_list[i] : i \in DOMAIN reord_list}

\* Working on sequence numbers that wrap (SN_LESS, the window start at
\* rwnx_rx.c:1996) the driver hands up exactly what it would hand up if the
\* numbers did not wrap (module ReorderBuffer), in the same order.
ImplementsUnwrapped == Unwrapped!Spec
=============================================================================
