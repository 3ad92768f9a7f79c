-------------------------------- MODULE SbiTlb --------------------------------
(***************************************************************************)
(* Remote fences of OpenSBI (src/opensbi/lib/sbi/sbi_tlb.c, sbi_ipi.c,     *)
(* sbi_fifo.c).  A hart that wants others to flush part of their TLBs puts *)
(* an entry on each one's FIFO, or merges it into an entry that is there,  *)
(* sends an IPI and waits until its counter tlb_sync is back at zero.      *)
(* While it waits, and when a FIFO is full, it works off its own FIFO.     *)
(*                                                                         *)
(* Addresses are page numbers modulo Space, the size of the address space; *)
(* a size of FlushAll, or start = size = 0, is the whole space.            *)
(***************************************************************************)
EXTENDS Integers, Sequences, FiniteSets, FiniteSetsExt

CONSTANTS
    Harts,      \* hart indices, naturals
    FifoSize,   \* tlb_num_entries
    Space,      \* pages of the address space
    Limit,      \* tlb_range_flush_limit
    Asids,      \* address space identifiers
    Requests,   \* fence requests made: [type, asid, start, size]
    Targets,    \* the sets of harts they are made to; an empty mask returns at once
    MaxReqs     \* bound: requests made

FlushAll == Space - 1      \* SBI_TLB_FLUSH_ALL, -1UL
Pages    == 0..(Space - 1)

ASSUME TlbAssumption ==
    /\ Harts \subseteq Nat /\ IsFiniteSet(Harts)
    /\ FifoSize \in Nat \ {0} /\ Space \in Nat \ {0} /\ Limit \in Nat
    /\ MaxReqs \in Nat /\ Targets \subseteq (SUBSET Harts) \ {{}}
    /\ Requests \subseteq [type : {"fence_i", "vma", "vma_asid"}, asid : Asids,
                           start : Pages, size : Pages]

NoHart  == -1
NoEntry == [type |-> "none"]

VARIABLES
    \* scratch space of each hart
    fifo,      \* requests to work off: the request and smask, who waits for it
    tlb_sync,  \* entries of its own request not yet worked off
    ipi_type,  \* the TLB event is set
    msip,      \* the IPI is pending at the hart
    \* the hart
    pc,        \* "smode": outside the firmware; else where it is in it
    req,       \* the request it makes
    todo,      \* target_mask: harts still to be told
    at,        \* the target of the current loop round
    busy,      \* the entry it works off
    nreqs,
    \* history
    owed       \* what a hart must yet flush for the current request of another

ipiVars  == <<ipi_type, msip>>
hartVars == <<req, todo, at, nreqs>>
vars == <<fifo, tlb_sync, ipiVars, pc, hartVars, busy, owed>>

NoReq == [type |-> "none"]

Init ==
    /\ fifo = [h \in Harts |-> <<>>]
    /\ tlb_sync = [h \in Harts |-> 0]
    /\ ipi_type = [h \in Harts |-> FALSE]
    /\ msip = [h \in Harts |-> FALSE]
    /\ pc = [h \in Harts |-> "smode"]
    /\ req = [h \in Harts |-> NoReq]
    /\ todo = [h \in Harts |-> {}]
    /\ at = [h \in Harts |-> NoHart]
    /\ busy = [h \in Harts |-> NoEntry]
    /\ nreqs = 0
    /\ owed = [h \in Harts |-> [t \in Harts |-> {}]]

-----------------------------------------------------------------------------
(* Requests and what they flush *)

\* The loop of the local fences; start = size = 0 and FlushAll mean all.
PagesOf(q) ==
    IF (q.start = 0 /\ q.size = 0) \/ q.size = FlushAll THEN Pages
    ELSE {(q.start + i) % Space : i \in 0..(q.size - 1)}

\* tlb_entry_local_process: what a request flushes at the hart that does it
Flushes(q) ==
    CASE q.type = "fence_i"  -> {<<"icache">>}
      [] q.type = "vma"      -> Asids \X PagesOf(q)
      [] q.type = "vma_asid" -> {q.asid} \X PagesOf(q)

\* sbi_tlb_request: large ranges become a full flush
Normalised(q) ==
    IF q.size > Limit THEN [q EXCEPT !.start = 0, !.size = FlushAll] ELSE q

End(q) == (q.start + q.size) % Space

\* tlb_update_cb: only fences of the same kind (and address space) are merged
SameKind(q, e) ==
    \/ q.type = "vma_asid" /\ e.type = "vma_asid" /\ q.asid = e.asid
    \/ q.type = "vma" /\ e.type = "vma"

\* mutant: takes an overlap for inclusion
Within_Overlap(q, e) == q.start >= e.start /\ q.start <= End(e)

\* tlb_range_check: the new request lies within the entry, or around it
Around(q, e) == q.start <= e.start /\ End(q) > End(e)
Within(q, e) == q.start >= e.start /\ End(q) <= End(e)

Merges(q, e) == SameKind(q, e) /\ (Around(q, e) \/ Within(q, e))

\* mutant: a request that is skipped is not waited for
Merged_NoMask(q, e, h) ==
    IF Around(q, e)
    THEN [e EXCEPT !.start = q.start, !.size = q.size, !.smask = @ \cup {h}]
    ELSE e

\* The entry after the merge; h waits for it too.
Merged(q, e, h) ==
    IF Around(q, e)
    THEN [e EXCEPT !.start = q.start, !.size = q.size, !.smask = @ \cup {h}]
    ELSE [e EXCEPT !.smask = @ \cup {h}]

Entry(q, h) == [type |-> q.type, asid |-> q.asid, start |-> q.start,
                size |-> q.size, smask |-> {h}]

-----------------------------------------------------------------------------
(* Sending: sbi_tlb_request, sbi_ipi_send_many *)

Goto(h, l) == pc' = [pc EXCEPT ![h] = l]

\* The round robin over the targets left.
NextTarget(S, t) ==
    IF S = {} THEN NoHart
    ELSE IF \E u \in S : u > t THEN Min({u \in S : u > t}) ELSE Min(S)

Request(h, q, T) ==
    LET n == Normalised(q) IN
    /\ pc[h] = "smode" /\ nreqs < MaxReqs
    /\ nreqs' = nreqs + 1
    /\ req' = [req EXCEPT ![h] = n]
    /\ todo' = [todo EXCEPT ![h] = T]
    /\ at' = [at EXCEPT ![h] = NextTarget(T, NoHart)]
    /\ owed' = [owed EXCEPT ![h] = [t \in Harts |-> IF t \in T THEN Flushes(q) ELSE {}]]
    /\ Goto(h, "update")
    /\ UNCHANGED <<fifo, tlb_sync, ipiVars, busy>>

\* What hart h flushes is no longer owed by it, to anybody.
Flushed(h, S) == owed' = [r \in Harts |-> [owed[r] EXCEPT ![h] = @ \ S]]

\* Goes on with the next target; done with t.
Done(h, t) ==
    LET left == todo[h] \ {t} IN
    /\ todo' = [todo EXCEPT ![h] = left]
    /\ at' = [at EXCEPT ![h] = NextTarget(left, t)]
    /\ Goto(h, IF left = {} THEN "sync" ELSE "update")

\* tlb_update for the hart itself
UpdateSelf(h) ==
    /\ pc[h] = "update" /\ at[h] = h
    /\ Flushed(h, Flushes(req[h]))
    /\ Done(h, h)
    /\ UNCHANGED <<fifo, tlb_sync, ipiVars, req, nreqs, busy>>

\* sbi_fifo_inplace_update: the first entry the request merges with ...
UpdateInPlace(h) ==
    LET t == at[h]
        M == {i \in DOMAIN fifo[t] : Merges(req[h], fifo[t][i])}
    IN
    /\ pc[h] = "update" /\ t \notin {h, NoHart}
    /\ IF M = {} THEN Goto(h, "enqueue") /\ UNCHANGED fifo
       ELSE /\ fifo' = [fifo EXCEPT ![t][Min(M)] = Merged(req[h], @, h)]
            /\ Goto(h, "count")
    /\ UNCHANGED <<tlb_sync, ipiVars, hartVars, busy, owed>>

\* ... else an entry of its own, if there is room ...
Enqueue(h) ==
    LET t == at[h] IN
    /\ pc[h] = "enqueue" /\ Len(fifo[t]) < FifoSize
    /\ fifo' = [fifo EXCEPT ![t] = Append(@, Entry(req[h], h))]
    /\ Goto(h, "count")
    /\ UNCHANGED <<tlb_sync, ipiVars, hartVars, busy, owed>>

\* mutant: waits for room without working off its own FIFO
FifoFull_Spins(h) ==
    LET t == at[h] IN
    /\ pc[h] = "enqueue" /\ Len(fifo[t]) >= FifoSize
    /\ at' = [at EXCEPT ![h] = NextTarget(todo[h], t)]
    /\ Goto(h, "update")
    /\ UNCHANGED <<fifo, tlb_sync, ipiVars, req, todo, nreqs, busy, owed>>

\* Takes the first entry off the hart's own FIFO, if it has one.
TakeOwn(h) ==
    IF fifo[h] = <<>> THEN UNCHANGED <<fifo, busy>>
    ELSE /\ fifo' = [fifo EXCEPT ![h] = Tail(@)]
         /\ busy' = [busy EXCEPT ![h] = Head(fifo[h])]

\* ... else the hart works off an entry of its own and tries the next target,
\* and this one again later.
FifoFull(h) ==
    LET t == at[h] IN
    /\ pc[h] = "enqueue" /\ Len(fifo[t]) >= FifoSize
    /\ TakeOwn(h)
    /\ at' = [at EXCEPT ![h] = NextTarget(todo[h], t)]
    /\ Goto(h, "update")
    /\ UNCHANGED <<tlb_sync, ipiVars, req, todo, nreqs, owed>>

\* The entry is counted, after the target may already have worked it off.
Count(h) ==
    /\ pc[h] = "count"
    /\ tlb_sync' = [tlb_sync EXCEPT ![h] = @ + 1]
    /\ Goto(h, "type")
    /\ UNCHANGED <<fifo, ipiVars, hartVars, busy, owed>>

\* sbi_ipi_send: the event is set; the interrupt is raised if none was ...
SetType(h) ==
    LET t == at[h] IN
    /\ pc[h] = "type"
    /\ ipi_type' = [ipi_type EXCEPT ![t] = TRUE]
    /\ IF ipi_type[t] THEN Done(h, t)
       ELSE Goto(h, "raise") /\ UNCHANGED <<todo, at>>
    /\ UNCHANGED <<fifo, tlb_sync, msip, req, nreqs, busy, owed>>

\* ... sbi_ipi_raw_send
Raise(h) ==
    /\ pc[h] = "raise"
    /\ msip' = [msip EXCEPT ![at[h]] = TRUE]
    /\ Done(h, at[h])
    /\ UNCHANGED <<fifo, tlb_sync, ipi_type, req, nreqs, busy, owed>>

\* tlb_sync: returns when the counter is not positive ...
SyncReturn(h) ==
    /\ pc[h] = "sync" /\ busy[h] = NoEntry
    /\ tlb_sync[h] <= 0
    /\ Goto(h, "smode")
    /\ req' = [req EXCEPT ![h] = NoReq]
    /\ UNCHANGED <<fifo, tlb_sync, ipiVars, todo, at, nreqs, busy, owed>>

\* ... until then the hart works off its own FIFO.
SyncWork(h) ==
    /\ pc[h] = "sync" /\ busy[h] = NoEntry
    /\ tlb_sync[h] > 0 /\ fifo[h] # <<>>
    /\ TakeOwn(h)
    /\ UNCHANGED <<tlb_sync, ipiVars, pc, hartVars, owed>>

-----------------------------------------------------------------------------
(* Working off entries: tlb_entry_process, sbi_ipi_process *)

\* The local fence; then everybody in smask is told.
Process(h) ==
    /\ busy[h] # NoEntry
    /\ Flushed(h, Flushes(busy[h]))
    /\ tlb_sync' = [r \in Harts |-> IF r \in busy[h].smask THEN tlb_sync[r] - 1
                                    ELSE tlb_sync[r]]
    /\ busy' = [busy EXCEPT ![h] = NoEntry]
    /\ UNCHANGED <<fifo, ipiVars, pc, hartVars>>

\* The software interrupt: the pending bit is cleared ...
IpiEnter(h) ==
    /\ pc[h] = "smode" /\ msip[h]
    /\ msip' = [msip EXCEPT ![h] = FALSE]
    /\ Goto(h, "xchg")
    /\ UNCHANGED <<fifo, tlb_sync, ipi_type, hartVars, busy, owed>>

\* mutant: reads the events without clearing them
IpiXchg_Keeps(h) ==
    /\ pc[h] = "xchg"
    /\ Goto(h, IF ipi_type[h] THEN "ipi" ELSE "smode")
    /\ UNCHANGED <<fifo, tlb_sync, ipiVars, hartVars, busy, owed>>

\* ... then the events are taken ...
IpiXchg(h) ==
    /\ pc[h] = "xchg"
    /\ ipi_type' = [ipi_type EXCEPT ![h] = FALSE]
    /\ Goto(h, IF ipi_type[h] THEN "ipi" ELSE "smode")
    /\ UNCHANGED <<fifo, tlb_sync, msip, hartVars, busy, owed>>

\* ... and the FIFO is worked off until it is empty.
IpiTake(h) ==
    /\ pc[h] = "ipi" /\ busy[h] = NoEntry /\ fifo[h] # <<>>
    /\ TakeOwn(h)
    /\ UNCHANGED <<tlb_sync, ipiVars, pc, hartVars, owed>>

IpiReturn(h) ==
    /\ pc[h] = "ipi" /\ busy[h] = NoEntry /\ fifo[h] = <<>>
    /\ Goto(h, "smode")
    /\ UNCHANGED <<fifo, tlb_sync, ipiVars, hartVars, busy, owed>>

-----------------------------------------------------------------------------
\* A hart works off the entry in its hands before it does anything else.
Step(h) ==
    \/ busy[h] = NoEntry /\ \/ UpdateSelf(h) \/ UpdateInPlace(h) \/ Enqueue(h)
                            \/ FifoFull(h) \/ Count(h) \/ SetType(h) \/ Raise(h)
    \/ SyncReturn(h) \/ SyncWork(h)
    \/ Process(h)
    \/ IpiEnter(h) \/ IpiXchg(h) \/ IpiTake(h) \/ IpiReturn(h)

Next ==
    \E h \in Harts :
        \/ \E q \in Requests, T \in Targets : Request(h, q, T)
        \/ Step(h)

Spec == Init /\ [][Next]_vars

\* A hart goes on with what it does in the firmware and takes its interrupts;
\* it need not make requests.
FairSpec == Spec /\ \A h \in Harts : WF_vars(Step(h))

-----------------------------------------------------------------------------
(* Properties *)

\* Types of the fence queues, the acknowledgement counts and the harts.
TypeOK ==
    /\ nreqs \in 0..MaxReqs
    /\ \A h \in Harts :
         /\ Len(fifo[h]) <= FifoSize
         /\ \A i \in DOMAIN fifo[h] : fifo[h][i].smask \in SUBSET Harts
         /\ tlb_sync[h] \in -1..Cardinality(Harts)
         /\ pc[h] \in {"smode", "update", "enqueue", "count", "type", "raise", "sync",
                       "xchg", "ipi"}
         /\ at[h] \in Harts \cup {NoHart} /\ todo[h] \subseteq Harts
         /\ {ipi_type[h], msip[h]} \subseteq BOOLEAN

\* A fence is complete when the request returns: each target has flushed,
\* since the request was made, all that was asked for.
FenceComplete ==
    \A h, t \in Harts : pc[h] \in {"smode", "xchg", "ipi"} => owed[h][t] = {}

\* An entry in the FIFO of t, or in its hands, carries the request of h.
Waits(t, h) ==
    \/ \E i \in DOMAIN fifo[t] : h \in fifo[t][i].smask
    \/ busy[t] # NoEntry /\ h \in busy[t].smask

\* No target carries the same request twice: it would decrement tlb_sync twice.
CarriedOnce ==
    \A t, h \in Harts :
        /\ \A i, j \in DOMAIN fifo[t] :
              h \in fifo[t][i].smask /\ h \in fifo[t][j].smask => i = j
        /\ busy[t] # NoEntry /\ h \in busy[t].smask =>
              \A i \in DOMAIN fifo[t] : h \notin fifo[t][i].smask

\* tlb_sync counts the targets that carry the hart's request, up to the one it
\* has queued or merged and not yet counted: it is decremented as often as it
\* is incremented, even where a target is faster than the count.
SyncCount ==
    \A h \in Harts :
        tlb_sync[h] + (IF pc[h] = "count" THEN 1 ELSE 0)
            = Cardinality({t \in Harts : Waits(t, h)})

\* Types and the counter together: the FIFOs keep to their size and tlb_sync is
\* exact, whoever merges, overtakes or works off entries while it waits.
SyncInv == TypeOK /\ CarriedOnce /\ SyncCount

\* Whoever has entries to work off is in the firmware's FIFO loop, has the
\* interrupt pending, or is about to get it: no entry is forgotten because
\* the interrupt is raised only on the first event.
NoLostIpi ==
    \A t \in Harts :
        fifo[t] # <<>> =>
            \/ pc[t] # "smode"
            \/ msip[t]
            \/ \E h \in Harts : at[h] = t /\ pc[h] \in {"count", "type", "raise"}

\* Every request returns: all harts are outside the firmware again and again.
\* The code fears that two harts that enqueue into each other's full FIFO "may
\* busy loop leading to a deadlock" (sbi_tlb.c:357-363); that each works off an
\* entry of its own before it tries again (tlb_process_once, :364) excludes it.
RequestReturns == []<>(\A h \in Harts : pc[h] = "smode")
=============================================================================
