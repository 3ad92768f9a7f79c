----------------------------- MODULE SbiTlbProofs -----------------------------
(***************************************************************************)
(* Proofs about SbiTlb for every set of harts, every FIFO size, address    *)
(* space, flush limit and set of requests.                                 *)
(***************************************************************************)
EXTENDS SbiTlb, LeastElement, FiniteSetTheorems, SequenceTheorems, TLAPS

-----------------------------------------------------------------------------
(* The inductive invariant *)

Kinds   == {"fence_i", "vma", "vma_asid"}
Ranges  == [type : Kinds, asid : Asids, start : Pages, size : Pages]
Entries == [type : Kinds, asid : Asids, start : Pages, size : Pages, smask : SUBSET Harts]

\* Where a hart makes its request, and where it goes through the targets.
Sending == {"update", "enqueue", "count", "type", "raise", "sync"}
Telling == {"update", "enqueue", "count", "type", "raise"}
Told    == {"count", "type", "raise"}

Shape ==
    /\ fifo \in [Harts -> Seq(Entries)] /\ busy \in [Harts -> Entries \cup {NoEntry}]
    /\ tlb_sync \in [Harts -> Int]
    /\ ipi_type \in [Harts -> BOOLEAN] /\ msip \in [Harts -> BOOLEAN]
    /\ pc \in [Harts -> Sending \cup {"smode", "xchg", "ipi"}]
    /\ req \in [Harts -> Ranges \cup {NoReq}]
    /\ todo \in [Harts -> SUBSET Harts] /\ at \in [Harts -> Harts \cup {NoHart}]
    /\ nreqs \in 0..MaxReqs
    /\ owed \in [Harts -> [Harts -> SUBSET ({<<"icache">>} \cup (Asids \X Pages))]]

Bounded == \A h \in Harts : Len(fifo[h]) <= FifoSize

\* The hart's place in its loop over the targets.
Loop ==
    \A h \in Harts :
        /\ pc[h] \in Sending => req[h] \in Ranges
        /\ pc[h] \in Telling => at[h] \in todo[h]
        /\ pc[h] \notin Telling => todo[h] = {}

\* Hart t has yet to be told of the request of h.
NotYet(h, t) == t \in todo[h] /\ ~ (at[h] = t /\ pc[h] \in Told)

\* Only a request under way is carried, and only by harts that were told of it:
\* a target is never given a request it carries already.
TellsOnce == \A h, t \in Harts : Waits(t, h) => pc[h] \in Sending /\ ~ NotYet(h, t)

\* Whoever has entries has the event set, is working them off, or is about to
\* have it set ...
EventSet ==
    \A t \in Harts : fifo[t] # <<>> =>
        ipi_type[t] \/ pc[t] = "ipi" \/ \E h \in Harts : at[h] = t /\ pc[h] \in {"count", "type"}

\* ... and an event that is set has its interrupt, was just taken, or is about
\* to have it raised.
EventRaised ==
    \A t \in Harts : ipi_type[t] =>
        msip[t] \/ pc[t] = "xchg" \/ \E h \in Harts : at[h] = t /\ pc[h] = "raise"

TlbInv == Shape /\ Bounded /\ Loop /\ TellsOnce /\ CarriedOnce /\ SyncCount /\ EventSet /\ EventRaised

\* A range that neither wraps nor is written as start = size = 0.
Plain(q) == q.type = "fence_i" \/ (q.size > 0 /\ q.start + q.size < Space)

\* All requests are such, but for those that become a full flush.
PlainRequests == \A q \in Requests : Plain(q) \/ q.size > Limit

PlainRanges ==
    \A h \in Harts :
        /\ pc[h] \in Sending => Plain(req[h])
        /\ \A i \in DOMAIN fifo[h] : Plain(fifo[h][i])
        /\ busy[h] # NoEntry => Plain(busy[h])

\* An entry that t has carries the request of h and flushes all of S.
Carries(t, h, S) ==
    \/ \E i \in DOMAIN fifo[t] : h \in fifo[t][i].smask /\ S \subseteq Flushes(fifo[t][i])
    \/ busy[t] # NoEntry /\ h \in busy[t].smask /\ S \subseteq Flushes(busy[t])

\* What t still has to flush for h is in an entry that t has, or t has yet to be told.
Owing ==
    \A h, t \in Harts :
        \/ owed[h][t] = {}
        \/ NotYet(h, t) /\ pc[h] \in Sending /\ owed[h][t] \subseteq Flushes(req[h])
        \/ Carries(t, h, owed[h][t])

FenceInv == TlbInv /\ PlainRanges /\ Owing

-----------------------------------------------------------------------------
(* What the operators of the model return *)

\* The round robin picks one of the targets that are left.
LEMMA NextTargetLeft ==
    ASSUME NEW S, S \subseteq Harts, S # {}, NEW t
    PROVE  NextTarget(S, t) \in S
<1> DEFINE U == {u \in S : u > t}
<1>1. S \subseteq Nat /\ U \subseteq Nat
  BY TlbAssumption
<1>2. Min(S) \in S
  BY <1>1, MinIsLeast
<1>3. U # {} => Min(U) \in U
  BY <1>1, MinIsLeast
<1> QED
  BY <1>2, <1>3, Zenon DEF NextTarget

LEMMA NormalisedType ==
    ASSUME NEW q \in Requests
    PROVE  q \in Ranges /\ Normalised(q) \in Ranges
<1>1. q \in Ranges
  BY TlbAssumption DEF Ranges, Kinds
<1>2. 0 \in Pages /\ FlushAll \in Pages
  BY TlbAssumption DEF Pages, FlushAll
<1> QED
  BY <1>1, <1>2 DEF Normalised, Ranges

LEMMA FlushesType ==
    ASSUME NEW q, q.type \in Kinds, q.asid \in Asids, q.start \in Pages, q.size \in Pages
    PROVE  Flushes(q) \subseteq {<<"icache">>} \cup (Asids \X Pages)
<1>1. PagesOf(q) \subseteq Pages
  BY TlbAssumption DEF PagesOf, Pages
<1>2. CASE q.type = "fence_i"
  BY <1>2 DEF Flushes
<1>3. CASE q.type = "vma"
  BY <1>1, <1>3 DEF Flushes
<1>4. CASE q.type = "vma_asid"
  BY <1>1, <1>4 DEF Flushes
<1> QED
  BY <1>2, <1>3, <1>4 DEF Kinds

\* A merged entry is an entry, carried for h as well.
LEMMA MergedType ==
    ASSUME NEW q \in Ranges, NEW e \in Entries, NEW h \in Harts
    PROVE  /\ Merged(q, e, h) \in Entries
           /\ Merged(q, e, h).smask = e.smask \cup {h}
           /\ Merged(q, e, h).type = e.type /\ Merged(q, e, h).asid = e.asid
           /\ Around(q, e) => Merged(q, e, h).start = q.start /\ Merged(q, e, h).size = q.size
           /\ ~ Around(q, e) => Merged(q, e, h).start = e.start /\ Merged(q, e, h).size = e.size
  BY DEF Merged, Ranges, Entries

LEMMA EntryType ==
    ASSUME NEW q \in Ranges, NEW h \in Harts
    PROVE  /\ Entry(q, h) \in Entries /\ Entry(q, h).smask = {h}
           /\ Entry(q, h).type = q.type /\ Entry(q, h).asid = q.asid
           /\ Entry(q, h).start = q.start /\ Entry(q, h).size = q.size
  BY DEF Entry, Ranges, Entries

LEMMA EntryNotNone ==
    ASSUME NEW e \in Entries
    PROVE  e # NoEntry
<1>1. e.type \in Kinds /\ NoEntry.type = "none"
  BY DEF Entries, NoEntry
<1> QED
  BY <1>1 DEF Kinds

-----------------------------------------------------------------------------
(* Who carries whose request *)

\* A hart that takes an entry off its FIFO carries what it carried before.
LEMMA TakeCarries ==
    ASSUME Shape, Bounded, CarriedOnce, NEW h \in Harts, busy[h] = NoEntry, TakeOwn(h)
    PROVE  /\ fifo' \in [Harts -> Seq(Entries)] /\ busy' \in [Harts -> Entries \cup {NoEntry}]
           /\ Bounded' /\ CarriedOnce'
           /\ \A t, r \in Harts : Waits(t, r)' <=> Waits(t, r)
           /\ \A t \in Harts : fifo'[t] # <<>> => fifo[t] # <<>>
           /\ \A S : \A t, r \in Harts : Carries(t, r, S) => Carries(t, r, S)'
<1>1. CASE fifo[h] = <<>>
  <2>1. fifo' = fifo /\ busy' = busy
    BY <1>1 DEF TakeOwn
  <2> QED
    BY <2>1 DEF Shape, Bounded, CarriedOnce, Waits, Carries
<1>2. CASE fifo[h] # <<>>
  <2> DEFINE s == fifo[h]
  <2>1. s \in Seq(Entries) /\ s # <<>>
    BY <1>2 DEF Shape
  <2>2. /\ Len(s) \in Nat \ {0} /\ DOMAIN s = 1..Len(s)
        /\ Tail(s) \in Seq(Entries) /\ DOMAIN Tail(s) = 1..(Len(s) - 1) /\ Len(Tail(s)) = Len(s) - 1
        /\ \A i \in 1..(Len(s) - 1) : Tail(s)[i] = s[i + 1]
        /\ Head(s) = s[1]
    BY <2>1, HeadTailProperties, LenProperties
  <2>3. s[1] \in Entries /\ s[1] # NoEntry
    BY <2>1, <2>2, ElementOfSeq, EntryNotNone
  <2>4. /\ fifo'[h] = Tail(s) /\ busy'[h] = s[1]
        /\ \A t \in Harts \ {h} : fifo'[t] = fifo[t] /\ busy'[t] = busy[t]
        /\ fifo' \in [Harts -> Seq(Entries)] /\ busy' \in [Harts -> Entries \cup {NoEntry}]
    BY <1>2, <2>2, <2>3 DEF TakeOwn, Shape
  <2> HIDE DEF s
  <2>5. Bounded'
    BY <2>2, <2>4, TlbAssumption DEF Bounded, Shape, s
  <2>6. \A r \in Harts :
           /\ \A i, j \in 1..Len(s) : r \in s[i].smask /\ r \in s[j].smask => i = j
           /\ Waits(h, r) <=> \E i \in 1..Len(s) : r \in s[i].smask
    BY <2>2 DEF CarriedOnce, Waits, s
  <2>7. \A r \in Harts :
           /\ \A i, j \in DOMAIN fifo'[h] : r \in fifo'[h][i].smask /\ r \in fifo'[h][j].smask => i = j
           /\ r \in busy'[h].smask => \A i \in DOMAIN fifo'[h] : r \notin fifo'[h][i].smask
    <3> TAKE r \in Harts
    <3>1. \A i \in DOMAIN fifo'[h] : i \in 1..(Len(s) - 1) /\ i + 1 \in 1..Len(s) /\ fifo'[h][i] = s[i + 1]
      BY <2>2, <2>4
    <3>2. 1 \in 1..Len(s)
      BY <2>2
    <3> QED
      BY <2>2, <2>4, <2>6, <3>1, <3>2
  <2>8. CarriedOnce'
    BY <2>4, <2>7 DEF CarriedOnce
  <2>9. ASSUME NEW i \in 1..Len(s)
        PROVE  (i = 1 /\ busy'[h] = s[i]) \/ (i - 1 \in DOMAIN fifo'[h] /\ fifo'[h][i - 1] = s[i])
    BY <2>2, <2>4
  <2>10. \A t, r \in Harts : Waits(t, r)' <=> Waits(t, r)
    <3> SUFFICES ASSUME NEW t \in Harts, NEW r \in Harts PROVE Waits(t, r)' <=> Waits(t, r)
      OBVIOUS
    <3>1. CASE t # h
      BY <2>4, <3>1 DEF Waits
    <3>2. CASE t = h
      <4>1. Waits(h, r)' => \E i \in 1..Len(s) : r \in s[i].smask
        BY <2>2, <2>4 DEF Waits
      <4>2. ASSUME NEW i \in 1..Len(s), r \in s[i].smask PROVE Waits(h, r)'
        BY <2>3, <2>4, <2>9, <4>2 DEF Waits
      <4> QED
        BY <2>6, <3>2, <4>1, <4>2
    <3> QED
      BY <3>1, <3>2
  <2>11. \A t \in Harts : fifo'[t] # <<>> => fifo[t] # <<>>
    BY <2>1, <2>4 DEF s
  <2>12. ASSUME NEW t \in Harts, NEW r \in Harts, NEW S, Carries(t, r, S) PROVE Carries(t, r, S)'
    <3>1. CASE t # h
      BY <2>4, <2>12, <3>1 DEF Carries
    <3>2. CASE t = h
      <4>1. PICK i \in 1..Len(s) : r \in s[i].smask /\ S \subseteq Flushes(s[i])
        BY <2>2, <2>12, <3>2 DEF Carries, s
      <4> QED
        BY <2>3, <2>4, <2>9, <3>2, <4>1 DEF Carries
    <3> QED
      BY <3>1, <3>2
  <2> QED
    BY <2>4, <2>5, <2>8, <2>10, <2>11, <2>12
<1> QED
  BY <1>1, <1>2

\* The request of h is added to one entry of t, which did not carry it.
LEMMA AddCarries ==
    ASSUME CarriedOnce, NEW h \in Harts, NEW t \in Harts, ~ Waits(t, h), busy' = busy,
           \A u \in Harts \ {t} : fifo'[u] = fifo[u],
           NEW m \in DOMAIN fifo'[t], DOMAIN fifo[t] \subseteq DOMAIN fifo'[t],
           \A i \in DOMAIN fifo'[t] : \A r \in Harts :
               r \in fifo'[t][i].smask <=>
                   (r = h /\ i = m) \/ (i \in DOMAIN fifo[t] /\ r \in fifo[t][i].smask)
    PROVE  /\ CarriedOnce'
           /\ \A u, r \in Harts : Waits(u, r)' <=> Waits(u, r) \/ (u = t /\ r = h)
<1>1. \A i \in DOMAIN fifo[t] : h \notin fifo[t][i].smask
  BY DEF Waits
<1>2. busy[t] # NoEntry => h \notin busy[t].smask
  BY DEF Waits
<1>3. \A r \in Harts :
         /\ \A i, j \in DOMAIN fifo'[t] : r \in fifo'[t][i].smask /\ r \in fifo'[t][j].smask => i = j
         /\ busy'[t] # NoEntry /\ r \in busy'[t].smask =>
               \A i \in DOMAIN fifo'[t] : r \notin fifo'[t][i].smask
  <2> TAKE r \in Harts
  <2>1. CASE r = h
    BY <1>1, <1>2, <2>1
  <2>2. CASE r # h
    BY <2>2 DEF CarriedOnce
  <2> QED
    BY <2>1, <2>2
<1>4. CarriedOnce'
  BY <1>3 DEF CarriedOnce
<1>5. \A r \in Harts : Waits(t, r)' <=> Waits(t, r) \/ r = h
  BY DEF Waits
<1>6. \A u \in Harts \ {t} : \A r \in Harts : Waits(u, r)' <=> Waits(u, r)
  BY DEF Waits
<1> QED
  BY <1>4, <1>5, <1>6

\* An entry of its own ...
LEMMA EnqueueCarries ==
    ASSUME Shape, CarriedOnce, NEW h \in Harts, NEW t \in Harts, ~ Waits(t, h), busy' = busy,
           req[h] \in Ranges, fifo' = [fifo EXCEPT ![t] = Append(@, Entry(req[h], h))]
    PROVE  /\ fifo' \in [Harts -> Seq(Entries)] /\ CarriedOnce'
           /\ Len(fifo'[t]) = Len(fifo[t]) + 1 /\ \A u \in Harts \ {t} : fifo'[u] = fifo[u]
           /\ \A i \in 1..Len(fifo[t]) : fifo'[t][i] = fifo[t][i]
           /\ fifo'[t][Len(fifo[t]) + 1] = Entry(req[h], h)
           /\ DOMAIN fifo'[t] = 1..(Len(fifo[t]) + 1) /\ DOMAIN fifo[t] = 1..Len(fifo[t])
           /\ Len(fifo[t]) \in Nat
           /\ \A u, r \in Harts : Waits(u, r)' <=> Waits(u, r) \/ (u = t /\ r = h)
<1> DEFINE s == fifo[t]  e == Entry(req[h], h)
<1>1. s \in Seq(Entries) /\ e \in Entries /\ e.smask = {h}
  BY EntryType DEF Shape
<1>2. fifo'[t] = Append(s, e) /\ \A u \in Harts \ {t} : fifo'[u] = fifo[u]
  BY DEF Shape
<1>3. /\ Append(s, e) \in Seq(Entries) /\ Len(Append(s, e)) = Len(s) + 1
      /\ \A i \in 1..Len(s) : Append(s, e)[i] = s[i]
      /\ Append(s, e)[Len(s) + 1] = e
      /\ DOMAIN Append(s, e) = 1..(Len(s) + 1) /\ DOMAIN s = 1..Len(s) /\ Len(s) \in Nat
  BY <1>1, AppendProperties, LenProperties
<1>4. fifo' \in [Harts -> Seq(Entries)]
  BY <1>3 DEF Shape
<1> HIDE DEF s, e
<1>5. \A i \in DOMAIN fifo'[t] : \A r \in Harts :
         r \in fifo'[t][i].smask <=> (r = h /\ i = Len(s) + 1) \/ (i \in DOMAIN s /\ r \in s[i].smask)
  BY <1>1, <1>2, <1>3
<1>6. Len(s) + 1 \in DOMAIN fifo'[t] /\ DOMAIN s \subseteq DOMAIN fifo'[t]
  BY <1>2, <1>3
<1>7. CarriedOnce' /\ \A u, r \in Harts : Waits(u, r)' <=> Waits(u, r) \/ (u = t /\ r = h)
  <2>0. PICK m : m = Len(s) + 1
    OBVIOUS
  <2>1. m \in DOMAIN fifo'[t] /\ DOMAIN fifo[t] \subseteq DOMAIN fifo'[t]
    BY <1>6, <2>0 DEF s
  <2>2. \A i \in DOMAIN fifo'[t] : \A r \in Harts :
           r \in fifo'[t][i].smask <=> (r = h /\ i = m) \/ (i \in DOMAIN fifo[t] /\ r \in fifo[t][i].smask)
    BY <1>5, <2>0 DEF s
  <2>3. \A u \in Harts \ {t} : fifo'[u] = fifo[u]
    BY <1>2
  <2> QED
    BY <2>1, <2>2, <2>3, AddCarries
<1> QED
  BY <1>2, <1>3, <1>4, <1>7 DEF s, e

\* ... or one that is there already.
LEMMA MergeCarries ==
    ASSUME Shape, CarriedOnce, NEW h \in Harts, NEW t \in Harts, ~ Waits(t, h), busy' = busy,
           req[h] \in Ranges, NEW m \in DOMAIN fifo[t],
           fifo' = [fifo EXCEPT ![t][m] = Merged(req[h], @, h)]
    PROVE  /\ fifo' \in [Harts -> Seq(Entries)] /\ CarriedOnce'
           /\ Len(fifo'[t]) = Len(fifo[t]) /\ \A u \in Harts \ {t} : fifo'[u] = fifo[u]
           /\ DOMAIN fifo'[t] = DOMAIN fifo[t]
           /\ \A i \in DOMAIN fifo[t] \ {m} : fifo'[t][i] = fifo[t][i]
           /\ fifo'[t][m] = Merged(req[h], fifo[t][m], h) /\ fifo[t][m] \in Entries
           /\ \A u, r \in Harts : Waits(u, r)' <=> Waits(u, r) \/ (u = t /\ r = h)
<1> DEFINE s == fifo[t]  e == Merged(req[h], s[m], h)
<1>1. s \in Seq(Entries) /\ s[m] \in Entries
  BY ElementOfSeq, LenProperties DEF Shape
<1>2. e \in Entries /\ e.smask = s[m].smask \cup {h}
  BY <1>1, MergedType
<1>3. fifo'[t] = [s EXCEPT ![m] = e] /\ \A u \in Harts \ {t} : fifo'[u] = fifo[u]
  BY DEF Shape
<1>4. /\ fifo'[t] \in Seq(Entries) /\ Len(fifo'[t]) = Len(s) /\ DOMAIN fifo'[t] = DOMAIN s
      /\ \A i \in DOMAIN s \ {m} : fifo'[t][i] = s[i]
      /\ fifo'[t][m] = e
  BY <1>1, <1>2, <1>3, ExceptSeq
<1>5. fifo' \in [Harts -> Seq(Entries)]
  BY <1>4 DEF Shape
<1> HIDE DEF s, e
<1>6. \A i \in DOMAIN fifo'[t] : \A r \in Harts :
         r \in fifo'[t][i].smask <=> (r = h /\ i = m) \/ (i \in DOMAIN s /\ r \in s[i].smask)
  BY <1>2, <1>4
<1>7. CarriedOnce' /\ \A u, r \in Harts : Waits(u, r)' <=> Waits(u, r) \/ (u = t /\ r = h)
  <2>1. m \in DOMAIN fifo'[t] /\ DOMAIN fifo[t] \subseteq DOMAIN fifo'[t]
    BY <1>4 DEF s
  <2>2. \A i \in DOMAIN fifo'[t] : \A r \in Harts :
           r \in fifo'[t][i].smask <=> (r = h /\ i = m) \/ (i \in DOMAIN fifo[t] /\ r \in fifo[t][i].smask)
    BY <1>6 DEF s
  <2> QED
    BY <1>3, <2>1, <2>2, AddCarries, Zenon
<1> QED
  BY <1>1, <1>3, <1>4, <1>5, <1>7 DEF s, e

\* A hart that has worked off its entry carries it no longer, and the others still.
LEMMA ProcessCarries ==
    ASSUME Shape, CarriedOnce, NEW h \in Harts, Process(h)
    PROVE  /\ CarriedOnce' /\ busy' \in [Harts -> Entries \cup {NoEntry}]
           /\ busy[h] \in Entries
           /\ \A t, r \in Harts : Waits(t, r)' <=> Waits(t, r) /\ ~ (t = h /\ r \in busy[h].smask)
           /\ \A r \in Harts : r \in busy[h].smask => Waits(h, r)
<1>1. busy[h] \in Entries /\ busy'[h] = NoEntry /\ fifo' = fifo
      /\ \A t \in Harts \ {h} : busy'[t] = busy[t]
  BY DEF Process, Shape
<1>2. busy' \in [Harts -> Entries \cup {NoEntry}]
  BY <1>1 DEF Process, Shape
<1>3. CarriedOnce'
  BY <1>1 DEF CarriedOnce
<1>4. \A t \in Harts \ {h} : \A r \in Harts : Waits(t, r)' <=> Waits(t, r)
  BY <1>1 DEF Waits
<1>5. busy[h] # NoEntry
  BY DEF Process
<1>6. \A r \in Harts : Waits(h, r)' <=> Waits(h, r) /\ r \notin busy[h].smask
  BY <1>1, <1>5 DEF Waits, CarriedOnce
<1>7. \A r \in Harts : r \in busy[h].smask => Waits(h, r)
  BY <1>5 DEF Waits
<1> QED
  BY <1>1, <1>2, <1>3, <1>4, <1>6, <1>7

-----------------------------------------------------------------------------
(* The steps *)

\* A step that changes neither who carries what nor where a hart stands in its
\* count keeps tlb_sync exact.
LEMMA SameCount ==
    ASSUME SyncCount, tlb_sync' = tlb_sync,
           \A t, r \in Harts : Waits(t, r)' <=> Waits(t, r),
           \A r \in Harts : pc'[r] = "count" <=> pc[r] = "count"
    PROVE  SyncCount'
<1>1. \A r \in Harts : {t \in Harts : Waits(t, r)'} = {t \in Harts : Waits(t, r)}
  OBVIOUS
<1> QED
  BY <1>1 DEF SyncCount

\* The targets that carry a request are finitely many.
LEMMA WaitersFinite ==
    ASSUME NEW h \in Harts
    PROVE  /\ IsFiniteSet({t \in Harts : Waits(t, h)})
           /\ Cardinality({t \in Harts : Waits(t, h)}) \in 0..Cardinality(Harts)
<1>1. IsFiniteSet(Harts) /\ {t \in Harts : Waits(t, h)} \subseteq Harts
  BY TlbAssumption
<1> QED
  BY <1>1, FS_Subset, FS_CardinalityType

\* A target that has been given the request of h counts once, as h will.
LEMMA AddCount ==
    ASSUME Shape, SyncCount, tlb_sync' = tlb_sync, NEW h \in Harts, NEW t \in Harts, ~ Waits(t, h),
           \A u, r \in Harts : Waits(u, r)' <=> Waits(u, r) \/ (u = t /\ r = h),
           pc[h] # "count", pc' = [pc EXCEPT ![h] = "count"]
    PROVE  SyncCount'
<1> DEFINE W(r) == {u \in Harts : Waits(u, r)}
           V(r) == {u \in Harts : Waits(u, r)'}
<1>1. \A r \in Harts \ {h} : V(r) = W(r)
  OBVIOUS
<1>2. V(h) = W(h) \cup {t} /\ t \notin W(h)
  OBVIOUS
<1>3. Cardinality(V(h)) = Cardinality(W(h)) + 1
  BY <1>2, WaitersFinite, FS_AddElement
<1>4. pc'[h] = "count" /\ \A r \in Harts \ {h} : pc'[r] = pc[r]
  BY DEF Shape
<1>5. \A r \in Harts : tlb_sync[r] + (IF pc[r] = "count" THEN 1 ELSE 0) = Cardinality(W(r))
  BY DEF SyncCount
<1>6. \A r \in Harts : tlb_sync'[r] \in Int
  BY DEF Shape
<1> HIDE DEF W, V
<1>7. \A r \in Harts : tlb_sync'[r] + (IF pc'[r] = "count" THEN 1 ELSE 0) = Cardinality(V(r))
  BY <1>1, <1>3, <1>4, <1>5, <1>6
<1> QED
  BY <1>7 DEF SyncCount, V

\* Everybody in smask is told, and is carried no longer.
LEMMA ProcessCount ==
    ASSUME Shape, CarriedOnce, SyncCount, NEW h \in Harts, Process(h)
    PROVE  SyncCount'
<1> DEFINE W(r) == {u \in Harts : Waits(u, r)}
           V(r) == {u \in Harts : Waits(u, r)'}
<1>1. ASSUME NEW r \in Harts, r \in busy[h].smask
      PROVE  Cardinality(V(r)) = Cardinality(W(r)) - 1
  <2>1. V(r) = W(r) \ {h} /\ h \in W(r)
    BY <1>1, ProcessCarries
  <2> QED
    BY <2>1, WaitersFinite, FS_RemoveElement
<1>2. ASSUME NEW r \in Harts, r \notin busy[h].smask
      PROVE  V(r) = W(r)
  BY <1>2, ProcessCarries
<1>3. \A r \in Harts : tlb_sync[r] + (IF pc[r] = "count" THEN 1 ELSE 0) = Cardinality(W(r))
  BY DEF SyncCount
<1>4. \A r \in Harts : tlb_sync'[r] = IF r \in busy[h].smask THEN tlb_sync[r] - 1 ELSE tlb_sync[r]
  BY DEF Process
<1>5. pc' = pc /\ \A r \in Harts : tlb_sync[r] \in Int
  BY DEF Process, Shape
<1> HIDE DEF W, V
<1>6. \A r \in Harts : tlb_sync'[r] + (IF pc'[r] = "count" THEN 1 ELSE 0) = Cardinality(V(r))
  BY <1>1, <1>2, <1>3, <1>4, <1>5
<1> QED
  BY <1>6 DEF SyncCount, V

\* The loop goes on with another target, or is over.
LEMMA DoneEffect ==
    ASSUME Shape, Loop, NEW h \in Harts, pc[h] \in Telling, Done(h, at[h])
    PROVE  /\ todo' \in [Harts -> SUBSET Harts] /\ at' \in [Harts -> Harts \cup {NoHart}]
           /\ pc' \in [Harts -> Sending \cup {"smode", "xchg", "ipi"}]
           /\ at[h] \in Harts /\ todo'[h] = todo[h] \ {at[h]}
           /\ \/ todo'[h] # {} /\ pc'[h] = "update" /\ at'[h] \in todo'[h]
              \/ todo'[h] = {} /\ pc'[h] = "sync"
           /\ \A r \in Harts \ {h} : todo'[r] = todo[r] /\ at'[r] = at[r] /\ pc'[r] = pc[r]
<1> DEFINE left == todo[h] \ {at[h]}
           n == NextTarget(left, at[h])
           l == IF left = {} THEN "sync" ELSE "update"
<1>1. left \subseteq Harts /\ at[h] \in Harts
  BY DEF Shape, Loop
<1>2. /\ todo' = [todo EXCEPT ![h] = left] /\ at' = [at EXCEPT ![h] = n]
      /\ pc' = [pc EXCEPT ![h] = l]
  BY DEF Done, Goto
<1>3. left # {} => n \in left
  BY <1>1, NextTargetLeft
<1>4. left = {} => n = NoHart
  BY DEF NextTarget
<1> HIDE DEF n
<1> QED
  BY <1>1, <1>2, <1>3, <1>4 DEF Shape, Sending

\* A hart goes on with the next target once this one needs nothing more.
LEMMA DoneStep ==
    ASSUME TlbInv, NEW h \in Harts, pc[h] \in Telling, Done(h, at[h]),
           \/ pc[h] = "update" /\ at[h] = h /\ UNCHANGED <<ipi_type, msip>>
           \/ pc[h] = "type" /\ ipi_type[at[h]] /\ UNCHANGED <<ipi_type, msip>>
           \/ pc[h] = "raise" /\ UNCHANGED ipi_type /\ msip' = [msip EXCEPT ![at[h]] = TRUE],
           UNCHANGED <<fifo, busy, tlb_sync, req, nreqs>>,
           owed' \in [Harts -> [Harts -> SUBSET ({<<"icache">>} \cup (Asids \X Pages))]]
    PROVE  TlbInv'
<1> USE DEF TlbInv
<1>1. \A t, r \in Harts : Waits(t, r)' <=> Waits(t, r)
  BY DEF Waits
<1>2. Shape'
  BY DoneEffect DEF Shape
<1>3. Bounded' /\ CarriedOnce'
  BY DEF Bounded, CarriedOnce
<1>4. Loop'
  BY DoneEffect DEF Loop, Sending, Telling
<1>5. ASSUME NEW r \in Harts, NEW t \in Harts, Waits(t, r)' PROVE pc'[r] \in Sending /\ ~ NotYet(r, t)'
  <2>1. pc[r] \in Sending /\ ~ NotYet(r, t)
    BY <1>1, <1>5 DEF TellsOnce
  <2>2. CASE r # h
    BY <2>1, <2>2, DoneEffect DEF NotYet
  <2>3. CASE r = h
    BY <2>1, <2>3, DoneEffect DEF NotYet, Sending, Told
  <2> QED
    BY <2>2, <2>3
<1>6. SyncCount'
  <2>1. \A r \in Harts : pc'[r] = "count" <=> pc[r] = "count"
    BY DoneEffect
  <2> QED
    BY <1>1, <2>1, SameCount
<1>7. EventSet'
  <2>1. ASSUME NEW t \in Harts, fifo'[t] # <<>>, ~ ipi_type'[t], pc'[t] # "ipi"
        PROVE  \E r \in Harts : at'[r] = t /\ pc'[r] \in {"count", "type"}
    <3>1. ~ ipi_type[t] /\ fifo[t] # <<>> /\ pc[t] # "ipi"
      BY <2>1, DoneEffect DEF Telling
    <3>2. PICK r \in Harts : at[r] = t /\ pc[r] \in {"count", "type"}
      BY <3>1 DEF EventSet
    <3>3. r # h
      BY <3>1, <3>2
    <3> QED
      BY <3>2, <3>3, DoneEffect
  <2> QED
    BY <2>1 DEF EventSet
<1>8. EventRaised'
  <2>1. ASSUME NEW t \in Harts, ipi_type'[t], ~ msip'[t], pc'[t] # "xchg"
        PROVE  \E r \in Harts : at'[r] = t /\ pc'[r] = "raise"
    <3>1. ipi_type[t] /\ ~ msip[t] /\ pc[t] # "xchg" /\ ~ (pc[h] = "raise" /\ at[h] = t)
      BY <2>1, DoneEffect, ZenonT(60) DEF Telling, Shape
    <3>2. PICK r \in Harts : at[r] = t /\ pc[r] = "raise"
      BY <3>1 DEF EventRaised
    <3> QED
      BY <3>1, <3>2, DoneEffect
  <2> QED
    BY <2>1 DEF EventRaised
<1> QED
  BY <1>2, <1>3, <1>4, <1>5, <1>6, <1>7, <1>8 DEF TellsOnce

LEMMA RequestStep ==
    ASSUME TlbInv, NEW h \in Harts, NEW q \in Requests, NEW T \in Targets, Request(h, q, T)
    PROVE  TlbInv'
<1> USE DEF TlbInv
<1> DEFINE n == NextTarget(T, NoHart)
           o == [t \in Harts |-> IF t \in T THEN Flushes(q) ELSE {}]
           F == {<<"icache">>} \cup (Asids \X Pages)
<1>1. T \subseteq Harts /\ T # {}
  BY TlbAssumption
<1>2. n \in T
  BY <1>1, NextTargetLeft
<1>3. o \in [Harts -> SUBSET F]
  <2>1. Flushes(q) \subseteq F
    BY NormalisedType, FlushesType DEF Ranges
  <2> QED
    BY <2>1
<1>4. /\ pc[h] = "smode" /\ nreqs < MaxReqs /\ nreqs' = nreqs + 1
      /\ req' = [req EXCEPT ![h] = Normalised(q)] /\ todo' = [todo EXCEPT ![h] = T]
      /\ at' = [at EXCEPT ![h] = n] /\ owed' = [owed EXCEPT ![h] = o]
      /\ pc' = [pc EXCEPT ![h] = "update"]
      /\ UNCHANGED <<fifo, tlb_sync, ipi_type, msip, busy>>
  BY DEF Request, Goto, ipiVars
<1> HIDE DEF n, o, F
<1>5. Shape'
  <2>1. owed' \in [Harts -> [Harts -> SUBSET F]]
    BY <1>3, <1>4 DEF Shape, F
  <2>2. nreqs' \in 0..MaxReqs
    BY <1>4, TlbAssumption DEF Shape
  <2> QED
    BY <1>1, <1>2, <1>4, <2>1, <2>2, NormalisedType DEF Shape, Sending, F
<1>6. \A t, r \in Harts : Waits(t, r)' <=> Waits(t, r)
  BY <1>4 DEF Waits
<1>7. Bounded' /\ CarriedOnce'
  BY <1>4 DEF Bounded, CarriedOnce
<1>8. Loop'
  BY <1>2, <1>4, NormalisedType DEF Loop, Shape, Sending, Telling
<1>9. TellsOnce'
  BY <1>4, <1>6 DEF TellsOnce, NotYet, Shape, Sending
<1>10. SyncCount'
  BY <1>4, <1>6, SameCount DEF Shape
<1>11. EventSet' /\ EventRaised'
  <2>1. \A r \in Harts \ {h} : at'[r] = at[r] /\ pc'[r] = pc[r]
    BY <1>4 DEF Shape
  <2>2. pc'[h] = "update"
    BY <1>4 DEF Shape
  <2>3. EventSet'
    BY <1>4, <2>1, <2>2 DEF EventSet
  <2>4. EventRaised'
    BY <1>4, <2>1, <2>2 DEF EventRaised
  <2> QED
    BY <2>3, <2>4
<1> QED
  BY <1>5, <1>7, <1>8, <1>9, <1>10, <1>11

LEMMA FlushedType ==
    ASSUME Shape, NEW h \in Harts, NEW S, Flushed(h, S)
    PROVE  owed' \in [Harts -> [Harts -> SUBSET ({<<"icache">>} \cup (Asids \X Pages))]]
  BY DEF Flushed, Shape

LEMMA UpdateSelfStep ==
    ASSUME TlbInv, NEW h \in Harts, UpdateSelf(h)
    PROVE  TlbInv'
<1>1. /\ pc[h] = "update" /\ at[h] = h /\ Done(h, at[h]) /\ UNCHANGED <<ipi_type, msip>>
      /\ UNCHANGED <<fifo, busy, tlb_sync, req, nreqs>>
  BY DEF UpdateSelf, ipiVars
<1>2. PICK S : Flushed(h, S)
  BY DEF UpdateSelf
<1>3. owed' \in [Harts -> [Harts -> SUBSET ({<<"icache">>} \cup (Asids \X Pages))]]
  BY <1>2, FlushedType DEF TlbInv
<1> QED
  BY <1>1, <1>3, DoneStep DEF Telling

\* One target is given the request, in an entry of its own or in a merged one.
LEMMA TellStep ==
    ASSUME TlbInv, NEW h \in Harts, pc[h] \in {"update", "enqueue"}, at[h] \in Harts,
           pc' = [pc EXCEPT ![h] = "count"],
           UNCHANGED <<tlb_sync, ipi_type, msip, req, todo, at, nreqs, busy, owed>>,
           fifo' \in [Harts -> Seq(Entries)], CarriedOnce', Bounded',
           \A u \in Harts \ {at[h]} : fifo'[u] = fifo[u],
           \A u, r \in Harts : Waits(u, r)' <=> Waits(u, r) \/ (u = at[h] /\ r = h)
    PROVE  TlbInv'
<1> USE DEF TlbInv
<1>1. pc'[h] = "count" /\ \A r \in Harts \ {h} : pc'[r] = pc[r]
  BY DEF Shape
<1>2. ~ Waits(at[h], h)
  BY DEF TellsOnce, NotYet, Loop, Telling, Told
<1>3. Shape'
  BY DEF Shape, Sending
<1>4. Loop'
  BY <1>1 DEF Loop, Sending, Telling
<1>5. ASSUME NEW r \in Harts, NEW t \in Harts, Waits(t, r)' PROVE pc'[r] \in Sending /\ ~ NotYet(r, t)'
  <2>1. CASE r = h
    <3>1. t = at[h] \/ ~ NotYet(h, t)
      BY <1>5, <2>1 DEF TellsOnce
    <3> QED
      BY <1>1, <2>1, <3>1 DEF NotYet, Told, Sending
  <2>2. CASE r # h
    <3>1. pc[r] \in Sending /\ ~ NotYet(r, t)
      BY <1>5, <2>2 DEF TellsOnce
    <3> QED
      BY <1>1, <2>2, <3>1 DEF NotYet
  <2> QED
    BY <2>1, <2>2
<1>6. SyncCount'
  <2>1. PICK t \in Harts : t = at[h]
    OBVIOUS
  <2>2. ~ Waits(t, h) /\ \A u, r \in Harts : Waits(u, r)' <=> Waits(u, r) \/ (u = t /\ r = h)
    BY <1>2, <2>1
  <2> QED
    BY <2>2, AddCount
<1>7. EventSet'
  BY <1>1 DEF EventSet
<1>8. EventRaised'
  BY <1>1 DEF EventRaised
<1> QED
  BY <1>3, <1>4, <1>5, <1>6, <1>7, <1>8 DEF TellsOnce

LEMMA UpdateInPlaceStep ==
    ASSUME TlbInv, NEW h \in Harts, UpdateInPlace(h)
    PROVE  TlbInv'
<1> USE DEF TlbInv
<1> DEFINE M == {i \in DOMAIN fifo[at[h]] : Merges(req[h], fifo[at[h]][i])}
<1>1. pc[h] = "update" /\ at[h] \in Harts /\ at[h] # h /\ req[h] \in Ranges
  BY DEF UpdateInPlace, Shape, Loop, Sending
<1>2. UNCHANGED <<tlb_sync, ipi_type, msip, req, todo, at, nreqs, busy, owed>>
  BY DEF UpdateInPlace, ipiVars, hartVars
<1>3. CASE M = {}
  <2>1. fifo' = fifo /\ pc' = [pc EXCEPT ![h] = "enqueue"]
    BY <1>3 DEF UpdateInPlace, Goto
  <2>2. pc'[h] = "enqueue" /\ \A r \in Harts \ {h} : pc'[r] = pc[r]
    BY <2>1 DEF Shape
  <2>3. \A t, r \in Harts : Waits(t, r)' <=> Waits(t, r)
    BY <1>2, <2>1 DEF Waits
  <2>4. Shape'
    BY <1>2, <2>1 DEF Shape, Sending
  <2>5. Bounded' /\ CarriedOnce' /\ Loop'
    BY <1>1, <1>2, <2>1, <2>2 DEF Bounded, CarriedOnce, Loop, Sending, Telling
  <2>6. TellsOnce'
    BY <1>1, <1>2, <2>2, <2>3 DEF TellsOnce, NotYet, Sending, Told
  <2>7. SyncCount'
    <3>1. \A r \in Harts : pc'[r] = "count" <=> pc[r] = "count"
      BY <1>1, <2>2
    <3> QED
      BY <1>2, <2>3, <3>1, SameCount
  <2>8. EventSet'
    BY <1>1, <1>2, <2>1, <2>2 DEF EventSet
  <2>9. EventRaised'
    BY <1>1, <1>2, <2>2 DEF EventRaised
  <2> QED
    BY <2>4, <2>5, <2>6, <2>7, <2>8, <2>9
<1>4. CASE M # {}
  <2>1. PICK t \in Harts : t = at[h]
    BY <1>1
  <2>2. M \subseteq Nat
    BY <1>1 DEF Shape
  <2>3. PICK m \in DOMAIN fifo[t] : m = Min(M)
    BY <1>4, <2>1, <2>2, MinIsLeast
  <2>4. fifo' = [fifo EXCEPT ![t][m] = Merged(req[h], @, h)] /\ pc' = [pc EXCEPT ![h] = "count"]
    BY <1>4, <2>1, <2>3 DEF UpdateInPlace, Goto
  <2>5. ~ Waits(t, h)
    BY <1>1, <2>1 DEF TellsOnce, NotYet, Loop, Telling, Told
  <2>6. /\ fifo' \in [Harts -> Seq(Entries)] /\ CarriedOnce'
        /\ Len(fifo'[t]) = Len(fifo[t]) /\ \A u \in Harts \ {t} : fifo'[u] = fifo[u]
        /\ \A u, r \in Harts : Waits(u, r)' <=> Waits(u, r) \/ (u = t /\ r = h)
    BY <1>1, <1>2, <2>4, <2>5, MergeCarries
  <2>7. Bounded'
    BY <2>6 DEF Bounded
  <2>8. /\ pc' = [pc EXCEPT ![h] = "count"] /\ \A u \in Harts \ {at[h]} : fifo'[u] = fifo[u]
        /\ \A u, r \in Harts : Waits(u, r)' <=> Waits(u, r) \/ (u = at[h] /\ r = h)
    BY <2>1, <2>4, <2>6
  <2> HIDE DEF M
  <2> QED
    BY <1>1, <1>2, <2>6, <2>7, <2>8, TellStep
<1> QED
  BY <1>3, <1>4

LEMMA EnqueueStep ==
    ASSUME TlbInv, NEW h \in Harts, Enqueue(h)
    PROVE  TlbInv'
<1> USE DEF TlbInv
<1>1. PICK t \in Harts : t = at[h]
  BY DEF Enqueue, Shape, Loop, Telling
<1>2. pc[h] = "enqueue" /\ req[h] \in Ranges /\ Len(fifo[t]) < FifoSize
  BY <1>1 DEF Enqueue, Loop, Sending
<1>3. /\ fifo' = [fifo EXCEPT ![t] = Append(@, Entry(req[h], h))] /\ pc' = [pc EXCEPT ![h] = "count"]
      /\ UNCHANGED <<tlb_sync, ipi_type, msip, req, todo, at, nreqs, busy, owed>>
  BY <1>1 DEF Enqueue, Goto, ipiVars, hartVars
<1>4. ~ Waits(t, h)
  BY <1>1, <1>2 DEF TellsOnce, NotYet, Loop, Telling, Told
<1>5. /\ fifo' \in [Harts -> Seq(Entries)] /\ CarriedOnce' /\ Len(fifo[t]) \in Nat
      /\ Len(fifo'[t]) = Len(fifo[t]) + 1 /\ \A u \in Harts \ {t} : fifo'[u] = fifo[u]
      /\ \A u, r \in Harts : Waits(u, r)' <=> Waits(u, r) \/ (u = t /\ r = h)
  BY <1>2, <1>3, <1>4, EnqueueCarries
<1>6. Bounded'
  BY <1>2, <1>5, TlbAssumption DEF Bounded
<1> QED
  BY <1>1, <1>2, <1>3, <1>5, <1>6, TellStep

\* A hart takes an entry off its FIFO; if it does so because another's is full,
\* it goes on with the next target and comes back to this one.
LEMMA TakeStep ==
    ASSUME TlbInv, NEW h \in Harts, busy[h] = NoEntry, FifoFull(h) \/ SyncWork(h) \/ IpiTake(h)
    PROVE  TlbInv'
<1> USE DEF TlbInv
<1>1. /\ TakeOwn(h) /\ UNCHANGED <<tlb_sync, ipi_type, msip, req, todo, nreqs, owed>>
      /\ \/ pc' = pc /\ at' = at
         \/ /\ pc[h] = "enqueue" /\ pc' = [pc EXCEPT ![h] = "update"]
            /\ at' = [at EXCEPT ![h] = NextTarget(todo[h], at[h])]
  BY DEF FifoFull, SyncWork, IpiTake, Goto, ipiVars, hartVars
<1>2. /\ fifo' \in [Harts -> Seq(Entries)] /\ busy' \in [Harts -> Entries \cup {NoEntry}]
      /\ Bounded' /\ CarriedOnce'
      /\ \A t, r \in Harts : Waits(t, r)' <=> Waits(t, r)
      /\ \A t \in Harts : fifo'[t] # <<>> => fifo[t] # <<>>
  BY <1>1, TakeCarries
<1>3. pc[h] = "enqueue" => NextTarget(todo[h], at[h]) \in todo[h]
  BY NextTargetLeft DEF Loop, Telling, Shape
<1>4. /\ \A r \in Harts \ {h} : pc'[r] = pc[r] /\ at'[r] = at[r]
      /\ \/ pc'[h] = pc[h] /\ at'[h] = at[h]
         \/ pc[h] = "enqueue" /\ pc'[h] = "update" /\ at'[h] \in todo[h]
  BY <1>1, <1>3 DEF Shape
<1>5. Shape'
  <2>1. pc' \in [Harts -> Sending \cup {"smode", "xchg", "ipi"}]
    BY <1>1 DEF Shape, Sending
  <2>2. at' \in [Harts -> Harts \cup {NoHart}]
    <3>1. pc[h] = "enqueue" => NextTarget(todo[h], at[h]) \in Harts
      BY <1>3 DEF Shape
    <3> QED
      BY <1>1, <3>1, ZenonT(60) DEF Shape
  <2> QED
    BY <1>1, <1>2, <2>1, <2>2 DEF Shape
<1>6. Loop'
  BY <1>1, <1>4 DEF Loop, Sending, Telling
<1>7. TellsOnce'
  BY <1>1, <1>2, <1>4 DEF TellsOnce, NotYet, Sending, Told
<1>8. SyncCount'
  <2>1. \A r \in Harts : pc'[r] = "count" <=> pc[r] = "count"
    BY <1>4
  <2> QED
    BY <1>1, <1>2, <2>1, SameCount
<1>9. EventSet'
  <2>1. ASSUME NEW t \in Harts, fifo'[t] # <<>>, ~ ipi_type'[t], pc'[t] # "ipi"
        PROVE  \E r \in Harts : at'[r] = t /\ pc'[r] \in {"count", "type"}
    <3>1. pc[t] # "ipi" /\ fifo[t] # <<>> /\ ~ ipi_type[t]
      BY <1>1, <1>2, <1>4, <2>1
    <3>2. PICK r \in Harts : at[r] = t /\ pc[r] \in {"count", "type"}
      BY <3>1 DEF EventSet
    <3> QED
      BY <1>4, <3>2
  <2> QED
    BY <2>1 DEF EventSet
<1>10. EventRaised'
  BY <1>1, <1>4 DEF EventRaised
<1> QED
  BY <1>2, <1>5, <1>6, <1>7, <1>8, <1>9, <1>10

LEMMA CountStep ==
    ASSUME TlbInv, NEW h \in Harts, Count(h)
    PROVE  TlbInv'
<1> USE DEF TlbInv
<1>1. /\ pc[h] = "count" /\ tlb_sync' = [tlb_sync EXCEPT ![h] = @ + 1] /\ pc' = [pc EXCEPT ![h] = "type"]
      /\ UNCHANGED <<fifo, ipi_type, msip, req, todo, at, nreqs, busy, owed>>
  BY DEF Count, Goto, ipiVars, hartVars
<1>2. pc'[h] = "type" /\ \A r \in Harts \ {h} : pc'[r] = pc[r]
  BY <1>1 DEF Shape
<1>3. \A t, r \in Harts : Waits(t, r)' <=> Waits(t, r)
  BY <1>1 DEF Waits
<1>4. Shape'
  BY <1>1 DEF Shape, Sending
<1>5. Bounded' /\ CarriedOnce' /\ Loop'
  BY <1>1, <1>2 DEF Bounded, CarriedOnce, Loop, Sending, Telling
<1>6. TellsOnce'
  BY <1>1, <1>2, <1>3 DEF TellsOnce, NotYet, Sending, Told
<1>7. SyncCount'
  <2>1. \A r \in Harts : {t \in Harts : Waits(t, r)'} = {t \in Harts : Waits(t, r)}
    BY <1>3
  <2>2. \A r \in Harts : tlb_sync'[r] + (IF pc'[r] = "count" THEN 1 ELSE 0)
                            = tlb_sync[r] + (IF pc[r] = "count" THEN 1 ELSE 0)
    BY <1>1, <1>2 DEF Shape
  <2> QED
    BY <2>1, <2>2 DEF SyncCount
<1>8. EventSet'
  BY <1>1, <1>2 DEF EventSet
<1>9. EventRaised'
  BY <1>1, <1>2 DEF EventRaised
<1> QED
  BY <1>4, <1>5, <1>6, <1>7, <1>8, <1>9

LEMMA SetTypeStep ==
    ASSUME TlbInv, NEW h \in Harts, SetType(h)
    PROVE  TlbInv'
<1> USE DEF TlbInv
<1>1. /\ pc[h] = "type" /\ at[h] \in Harts /\ ipi_type' = [ipi_type EXCEPT ![at[h]] = TRUE]
      /\ UNCHANGED <<fifo, tlb_sync, msip, req, nreqs, busy, owed>>
  BY DEF SetType, Shape, Loop, Telling
<1>2. CASE ipi_type[at[h]]
  <2>1. Done(h, at[h])
    BY <1>2 DEF SetType
  <2>2. ipi_type' = ipi_type
    BY <1>1, <1>2 DEF Shape
  <2>3. owed' \in [Harts -> [Harts -> SUBSET ({<<"icache">>} \cup (Asids \X Pages))]]
    BY <1>1 DEF Shape
  <2> QED
    BY <1>1, <1>2, <2>1, <2>2, <2>3, DoneStep DEF Telling
<1>3. CASE ~ ipi_type[at[h]]
  <2>1. pc' = [pc EXCEPT ![h] = "raise"] /\ UNCHANGED <<todo, at>>
    BY <1>3 DEF SetType, Goto
  <2>2. pc'[h] = "raise" /\ \A r \in Harts \ {h} : pc'[r] = pc[r]
    BY <2>1 DEF Shape
  <2>3. \A t, r \in Harts : Waits(t, r)' <=> Waits(t, r)
    BY <1>1 DEF Waits
  <2>4. Shape'
    BY <1>1, <2>1 DEF Shape, Sending
  <2>5. Bounded' /\ CarriedOnce' /\ Loop'
    BY <1>1, <2>1, <2>2 DEF Bounded, CarriedOnce, Loop, Sending, Telling
  <2>6. TellsOnce'
    BY <1>1, <2>1, <2>2, <2>3 DEF TellsOnce, NotYet, Sending, Told
  <2>7. SyncCount'
    <3>1. \A r \in Harts : pc'[r] = "count" <=> pc[r] = "count"
      BY <1>1, <2>2
    <3> QED
      BY <1>1, <2>3, <3>1, SameCount
  <2>8. /\ ipi_type'[at[h]] /\ \A t \in Harts \ {at[h]} : ipi_type'[t] = ipi_type[t]
    BY <1>1 DEF Shape
  <2>9. EventSet'
    BY <1>1, <2>1, <2>2, <2>8 DEF EventSet
  <2>10. EventRaised'
    BY <1>1, <2>1, <2>2, <2>8 DEF EventRaised
  <2> QED
    BY <2>4, <2>5, <2>6, <2>7, <2>9, <2>10
<1> QED
  BY <1>2, <1>3

LEMMA RaiseStep ==
    ASSUME TlbInv, NEW h \in Harts, Raise(h)
    PROVE  TlbInv'
<1>1. /\ pc[h] = "raise" /\ Done(h, at[h]) /\ msip' = [msip EXCEPT ![at[h]] = TRUE]
      /\ UNCHANGED <<fifo, tlb_sync, ipi_type, req, nreqs, busy, owed>>
  BY DEF Raise
<1>2. owed' \in [Harts -> [Harts -> SUBSET ({<<"icache">>} \cup (Asids \X Pages))]]
  BY <1>1 DEF TlbInv, Shape
<1> QED
  BY <1>1, <1>2, DoneStep DEF Telling

\* tlb_sync lets a hart go only when no target carries its request.
LEMMA SyncReturnStep ==
    ASSUME TlbInv, NEW h \in Harts, SyncReturn(h)
    PROVE  TlbInv' /\ \A t \in Harts : ~ Waits(t, h)
<1> USE DEF TlbInv
<1>1. /\ pc[h] = "sync" /\ tlb_sync[h] <= 0 /\ pc' = [pc EXCEPT ![h] = "smode"]
      /\ req' = [req EXCEPT ![h] = NoReq]
      /\ UNCHANGED <<fifo, tlb_sync, ipi_type, msip, todo, at, nreqs, busy, owed>>
  BY DEF SyncReturn, Goto, ipiVars
<1>2. pc'[h] = "smode" /\ \A r \in Harts \ {h} : pc'[r] = pc[r] /\ req'[r] = req[r]
  BY <1>1 DEF Shape
<1>3. \A t, r \in Harts : Waits(t, r)' <=> Waits(t, r)
  BY <1>1 DEF Waits
<1>4. \A t \in Harts : ~ Waits(t, h)
  <2> DEFINE W == {t \in Harts : Waits(t, h)}
  <2>1. Cardinality(W) = tlb_sync[h] + (IF pc[h] = "count" THEN 1 ELSE 0) /\ tlb_sync[h] \in Int
    BY DEF SyncCount, Shape
  <2>2. IsFiniteSet(W) /\ Cardinality(W) \in 0..Cardinality(Harts) /\ Cardinality(Harts) \in Nat
    BY WaitersFinite, TlbAssumption, FS_CardinalityType
  <2> HIDE DEF W
  <2>3. Cardinality(W) = 0
    BY <1>1, <2>1, <2>2
  <2>4. W = {}
    BY <2>2, <2>3, FS_EmptySet
  <2> QED
    BY <2>4 DEF W
<1>5. Shape'
  BY <1>1 DEF Shape, Sending
<1>6. Bounded' /\ CarriedOnce'
  BY <1>1 DEF Bounded, CarriedOnce
<1>7. Loop'
  BY <1>1, <1>2 DEF Loop, Sending, Telling
<1>8. TellsOnce'
  BY <1>1, <1>2, <1>3, <1>4 DEF TellsOnce, NotYet
<1>9. SyncCount'
  <2>1. \A r \in Harts : pc'[r] = "count" <=> pc[r] = "count"
    BY <1>1, <1>2
  <2> QED
    BY <1>1, <1>3, <2>1, SameCount
<1>10. EventSet'
  BY <1>1, <1>2 DEF EventSet
<1>11. EventRaised'
  BY <1>1, <1>2 DEF EventRaised
<1> QED
  BY <1>4, <1>5, <1>6, <1>7, <1>8, <1>9, <1>10, <1>11

LEMMA ProcessStep ==
    ASSUME TlbInv, NEW h \in Harts, Process(h)
    PROVE  TlbInv'
<1> USE DEF TlbInv
<1>1. UNCHANGED <<fifo, ipi_type, msip, pc, req, todo, at, nreqs>>
  BY DEF Process, ipiVars, hartVars
<1>2. /\ CarriedOnce' /\ busy' \in [Harts -> Entries \cup {NoEntry}]
      /\ \A t, r \in Harts : Waits(t, r)' => Waits(t, r)
  BY ProcessCarries
<1>3. Shape'
  <2>1. owed' \in [Harts -> [Harts -> SUBSET ({<<"icache">>} \cup (Asids \X Pages))]]
    <3>1. PICK S : Flushed(h, S)
      BY DEF Process
    <3> QED
      BY <3>1, FlushedType
  <2>2. tlb_sync' \in [Harts -> Int]
    BY DEF Process, Shape
  <2> QED
    BY <1>1, <1>2, <2>1, <2>2 DEF Shape
<1>4. Bounded' /\ Loop' /\ EventSet' /\ EventRaised'
  BY <1>1 DEF Bounded, Loop, EventSet, EventRaised
<1>5. TellsOnce'
  BY <1>1, <1>2 DEF TellsOnce, NotYet
<1>6. SyncCount'
  BY ProcessCount
<1> QED
  BY <1>2, <1>3, <1>4, <1>5, <1>6

\* The interrupt: the event is taken before the FIFO is looked at.
LEMMA IpiStep ==
    ASSUME TlbInv, NEW h \in Harts, IpiEnter(h) \/ IpiXchg(h) \/ IpiReturn(h)
    PROVE  TlbInv'
<1> USE DEF TlbInv
<1>1. /\ UNCHANGED <<fifo, tlb_sync, req, todo, at, nreqs, busy, owed>>
      /\ \/ /\ pc[h] = "smode" /\ msip' = [msip EXCEPT ![h] = FALSE] /\ ipi_type' = ipi_type
            /\ pc' = [pc EXCEPT ![h] = "xchg"]
         \/ /\ pc[h] = "xchg" /\ ipi_type' = [ipi_type EXCEPT ![h] = FALSE] /\ msip' = msip
            /\ pc' = [pc EXCEPT ![h] = IF ipi_type[h] THEN "ipi" ELSE "smode"]
         \/ /\ pc[h] = "ipi" /\ fifo[h] = <<>> /\ UNCHANGED <<ipi_type, msip>>
            /\ pc' = [pc EXCEPT ![h] = "smode"]
  BY DEF IpiEnter, IpiXchg, IpiReturn, Goto, ipiVars, hartVars
<1>2. /\ \A r \in Harts \ {h} : pc'[r] = pc[r] /\ ipi_type'[r] = ipi_type[r] /\ msip'[r] = msip[r]
      /\ \/ pc[h] = "smode" /\ pc'[h] = "xchg" /\ ipi_type'[h] = ipi_type[h]
         \/ pc[h] = "xchg" /\ ipi_type[h] /\ pc'[h] = "ipi" /\ ~ ipi_type'[h]
         \/ pc[h] = "xchg" /\ ~ ipi_type[h] /\ pc'[h] = "smode" /\ ~ ipi_type'[h]
         \/ /\ pc[h] = "ipi" /\ fifo[h] = <<>> /\ pc'[h] = "smode"
            /\ ipi_type'[h] = ipi_type[h] /\ msip'[h] = msip[h]
  BY <1>1 DEF Shape
<1>3. \A t, r \in Harts : Waits(t, r)' <=> Waits(t, r)
  BY <1>1 DEF Waits
<1>4. Shape'
  BY <1>1 DEF Shape, Sending
<1>5. Bounded' /\ CarriedOnce'
  BY <1>1 DEF Bounded, CarriedOnce
<1>6. Loop' /\ TellsOnce'
  BY <1>1, <1>2, <1>3 DEF Loop, TellsOnce, NotYet, Sending, Telling, Told
<1>7. SyncCount'
  <2>1. \A r \in Harts : pc'[r] = "count" <=> pc[r] = "count"
    BY <1>2
  <2> QED
    BY <1>1, <1>3, <2>1, SameCount
<1>8. EventSet'
  <2>1. ASSUME NEW t \in Harts, fifo'[t] # <<>>, ~ ipi_type'[t], pc'[t] # "ipi"
        PROVE  \E r \in Harts : at'[r] = t /\ pc'[r] \in {"count", "type"}
    <3>1. pc[t] # "ipi" /\ fifo[t] # <<>> /\ ~ ipi_type[t]
      BY <1>1, <1>2, <2>1
    <3>2. PICK r \in Harts : at[r] = t /\ pc[r] \in {"count", "type"}
      BY <3>1 DEF EventSet
    <3> QED
      BY <1>1, <1>2, <3>2
  <2> QED
    BY <2>1 DEF EventSet
<1>9. EventRaised'
  <2>1. ASSUME NEW t \in Harts, ipi_type'[t], ~ msip'[t], pc'[t] # "xchg"
        PROVE  \E r \in Harts : at'[r] = t /\ pc'[r] = "raise"
    <3>1. pc[t] # "xchg" /\ ipi_type[t] /\ ~ msip[t]
      BY <1>1, <1>2, <2>1
    <3>2. PICK r \in Harts : at[r] = t /\ pc[r] = "raise"
      BY <3>1 DEF EventRaised
    <3> QED
      BY <1>1, <1>2, <3>2
  <2> QED
    BY <2>1 DEF EventRaised
<1> QED
  BY <1>4, <1>5, <1>6, <1>7, <1>8, <1>9

-----------------------------------------------------------------------------
(* The theorems *)

LEMMA TlbInit == Init => TlbInv
<1> SUFFICES ASSUME Init PROVE TlbInv
  OBVIOUS
<1>1. \A h \in Harts : fifo[h] = <<>> /\ busy[h] = NoEntry /\ pc[h] = "smode" /\ tlb_sync[h] = 0
  BY DEF Init
<1>2. \A t, h \in Harts : ~ Waits(t, h)
  BY <1>1 DEF Waits
<1>3. Shape
  BY TlbAssumption DEF Init, Shape
<1>4. Bounded
  BY <1>1, TlbAssumption DEF Bounded
<1>5. Loop /\ TellsOnce /\ CarriedOnce
  BY <1>1, <1>2 DEF Init, Loop, TellsOnce, CarriedOnce, Sending, Telling
<1>6. SyncCount
  <2>1. \A h \in Harts : {t \in Harts : Waits(t, h)} = {}
    BY <1>2
  <2>2. Cardinality({}) = 0
    BY FS_EmptySet
  <2>3. \A h \in Harts : tlb_sync[h] + (IF pc[h] = "count" THEN 1 ELSE 0) = 0
    BY <1>1
  <2> QED
    BY <2>1, <2>2, <2>3 DEF SyncCount
<1>7. EventSet /\ EventRaised
  BY <1>1 DEF Init, EventSet, EventRaised
<1> QED
  BY <1>3, <1>4, <1>5, <1>6, <1>7 DEF TlbInv

LEMMA TlbStep == TlbInv /\ [Next]_vars => TlbInv'
<1> SUFFICES ASSUME TlbInv, [Next]_vars PROVE TlbInv'
  OBVIOUS
<1>1. ASSUME NEW h \in Harts, NEW q \in Requests, NEW T \in Targets, Request(h, q, T)
      PROVE  TlbInv'
  BY <1>1, RequestStep
<1>2. ASSUME NEW h \in Harts, Step(h)
      PROVE  TlbInv'
  <2>1. CASE busy[h] = NoEntry /\ (UpdateSelf(h) \/ UpdateInPlace(h) \/ Enqueue(h))
    BY <2>1, UpdateSelfStep, UpdateInPlaceStep, EnqueueStep
  <2>2. CASE busy[h] = NoEntry /\ (FifoFull(h) \/ Count(h) \/ SetType(h) \/ Raise(h))
    BY <2>2, TakeStep, CountStep, SetTypeStep, RaiseStep
  <2>3. CASE SyncReturn(h) \/ SyncWork(h) \/ IpiTake(h)
    BY <2>3, SyncReturnStep, TakeStep DEF SyncWork, IpiTake
  <2>4. CASE Process(h) \/ IpiEnter(h) \/ IpiXchg(h) \/ IpiReturn(h)
    BY <2>4, ProcessStep, IpiStep
  <2> QED
    BY <1>2, <2>1, <2>2, <2>3, <2>4 DEF Step
<1>3. CASE UNCHANGED vars
  <2>1. UNCHANGED <<fifo, tlb_sync, ipi_type, msip, pc, req, todo, at, nreqs, busy, owed>>
    BY <1>3 DEF vars, ipiVars, hartVars
  <2>2. \A t, r \in Harts : Waits(t, r)' <=> Waits(t, r)
    BY <2>1 DEF Waits
  <2>3. SyncCount'
    BY <2>1, <2>2, SameCount DEF TlbInv
  <2>4. Shape' /\ Bounded' /\ Loop'
    BY <2>1 DEF TlbInv, Shape, Bounded, Loop
  <2>5. TellsOnce' /\ CarriedOnce'
    BY <2>1, <2>2 DEF TlbInv, TellsOnce, NotYet, CarriedOnce
  <2>6. EventSet' /\ EventRaised'
    BY <2>1 DEF TlbInv, EventSet, EventRaised
  <2> QED
    BY <2>3, <2>4, <2>5, <2>6 DEF TlbInv
<1> QED
  BY <1>1, <1>2, <1>3 DEF Next

LEMMA TlbInvariant == Spec => []TlbInv
  BY TlbInit, TlbStep, PTL DEF Spec

\* tlb_sync is exact, whoever merges entries, works them off before they are
\* counted or is asked itself in the meantime; no FIFO exceeds its size.
THEOREM SyncExact == Spec => []SyncInv
<1>1. TlbInv => SyncInv
  <2> SUFFICES ASSUME TlbInv PROVE TypeOK
    BY DEF SyncInv, TlbInv
  <2> USE DEF TlbInv
  <2>1. ASSUME NEW h \in Harts PROVE tlb_sync[h] \in -1..Cardinality(Harts)
    <3> DEFINE W == {t \in Harts : Waits(t, h)}
    <3>1. tlb_sync[h] + (IF pc[h] = "count" THEN 1 ELSE 0) = Cardinality(W)
      BY DEF SyncCount
    <3>2. Cardinality(W) \in 0..Cardinality(Harts) /\ Cardinality(Harts) \in Nat
      BY WaitersFinite, TlbAssumption, FS_CardinalityType
    <3>3. tlb_sync[h] \in Int
      BY DEF Shape
    <3> HIDE DEF W
    <3> QED
      BY <3>1, <3>2, <3>3
  <2>2. ASSUME NEW h \in Harts, NEW i \in DOMAIN fifo[h] PROVE fifo[h][i].smask \in SUBSET Harts
    <3>1. fifo[h][i] \in Entries
      BY ElementOfSeq, LenProperties DEF Shape
    <3> QED
      BY <3>1 DEF Entries
  <2>3. \A h \in Harts :
           /\ pc[h] \in Sending \cup {"smode", "xchg", "ipi"}
           /\ at[h] \in Harts \cup {NoHart} /\ todo[h] \subseteq Harts
           /\ ipi_type[h] \in BOOLEAN /\ msip[h] \in BOOLEAN
    BY DEF Shape
  <2>4. nreqs \in 0..MaxReqs
    BY DEF Shape
  <2> QED
    BY <2>1, <2>2, <2>3, <2>4 DEF TypeOK, Bounded, Sending
<1> QED
  BY <1>1, TlbInvariant, PTL

\* No entry is forgotten because the interrupt is raised only for the first event.
THEOREM IpiNotLost == Spec => []NoLostIpi
<1>1. TlbInv => NoLostIpi
  <2> SUFFICES ASSUME TlbInv, NEW t \in Harts, fifo[t] # <<>>, pc[t] = "smode", ~ msip[t]
               PROVE  \E h \in Harts : at[h] = t /\ pc[h] \in {"count", "type", "raise"}
    BY DEF NoLostIpi
  <2>1. CASE ipi_type[t]
    BY <2>1 DEF TlbInv, EventRaised
  <2>2. CASE ~ ipi_type[t]
    BY <2>2 DEF TlbInv, EventSet
  <2> QED
    BY <2>1, <2>2
<1> QED
  BY <1>1, TlbInvariant, PTL

-----------------------------------------------------------------------------
(* Complete fences: requests on plain ranges *)

LEMMA ModSmall ==
    ASSUME NEW x \in Nat, x < Space
    PROVE  x % Space = x
  BY TlbAssumption

LEMMA PlainPages ==
    ASSUME NEW q, q.type # "fence_i", q.start \in Pages, q.size \in Pages, Plain(q)
    PROVE  /\ End(q) = q.start + q.size
           /\ PagesOf(q) = IF q.size = FlushAll THEN Pages ELSE q.start..(q.start + q.size - 1)
<1>1. q.start \in Nat /\ q.size \in Nat /\ q.size > 0 /\ q.start + q.size < Space
  BY TlbAssumption DEF Pages, Plain
<1>2. End(q) = q.start + q.size
  BY <1>1, ModSmall DEF End
<1>3. CASE q.size = FlushAll
  BY <1>2, <1>3 DEF PagesOf
<1>4. CASE q.size # FlushAll
  <2>1. PagesOf(q) = {(q.start + i) % Space : i \in 0..(q.size - 1)}
    BY <1>1, <1>4 DEF PagesOf
  <2>2. \A i \in 0..(q.size - 1) : (q.start + i) % Space = q.start + i
    BY <1>1, ModSmall, TlbAssumption
  <2>3. ASSUME NEW x \in q.start..(q.start + q.size - 1)
        PROVE  x \in PagesOf(q)
    <3>1. x - q.start \in 0..(q.size - 1) /\ x = q.start + (x - q.start)
      BY <1>1
    <3> QED
      BY <2>1, <2>2, <3>1
  <2>4. PagesOf(q) \subseteq q.start..(q.start + q.size - 1)
    BY <1>1, <2>1, <2>2
  <2> QED
    BY <1>2, <1>4, <2>3, <2>4
<1> QED
  BY <1>3, <1>4

\* A request above the limit flushes more than was asked for, never less.
LEMMA NormalisedCovers ==
    ASSUME NEW q \in Requests, PlainRequests
    PROVE  Plain(Normalised(q)) /\ Flushes(q) \subseteq Flushes(Normalised(q))
<1>1. q \in Ranges
  BY NormalisedType
<1>2. CASE q.size > Limit
  <2> DEFINE n == [q EXCEPT !.start = 0, !.size = FlushAll]
  <2>1. n.type = q.type /\ n.asid = q.asid /\ n.start = 0 /\ n.size = FlushAll /\ Normalised(q) = n
    BY <1>1, <1>2 DEF Ranges, Normalised
  <2>2. FlushAll \in Nat /\ FlushAll > 0 /\ FlushAll < Space
    BY <1>1, <1>2, TlbAssumption DEF FlushAll, Ranges, Pages
  <2>3. PagesOf(n) = Pages /\ PagesOf(q) \subseteq Pages
    BY <1>1, <2>1, TlbAssumption DEF PagesOf, Pages, Ranges
  <2> HIDE DEF n
  <2>4. Plain(n)
    BY <2>1, <2>2 DEF Plain
  <2>5. Flushes(q) \subseteq Flushes(n)
    <3>1. q.type \in Kinds
      BY <1>1 DEF Ranges
    <3>2. CASE q.type = "fence_i"
      BY <2>1, <3>2 DEF Flushes
    <3>3. CASE q.type = "vma"
      BY <2>1, <2>3, <3>3 DEF Flushes
    <3>4. CASE q.type = "vma_asid"
      BY <2>1, <2>3, <3>4 DEF Flushes
    <3> QED
      BY <3>1, <3>2, <3>3, <3>4 DEF Kinds
  <2> QED
    BY <2>1, <2>4, <2>5
<1>3. CASE ~ (q.size > Limit)
  BY <1>3 DEF Normalised, PlainRequests
<1> QED
  BY <1>2, <1>3

\* What is merged flushes all that either request asked for.
LEMMA MergeCovers ==
    ASSUME NEW q \in Ranges, NEW e \in Entries, NEW h \in Harts,
           Plain(q), Plain(e), Merges(q, e)
    PROVE  /\ Plain(Merged(q, e, h))
           /\ Flushes(q) \subseteq Flushes(Merged(q, e, h))
           /\ Flushes(e) \subseteq Flushes(Merged(q, e, h))
<1> DEFINE m == Merged(q, e, h)
<1>1. /\ m.type = e.type /\ m.asid = e.asid
      /\ Around(q, e) => m.start = q.start /\ m.size = q.size
      /\ ~ Around(q, e) => m.start = e.start /\ m.size = e.size
  BY MergedType
<1> HIDE DEF m
<1>2. /\ q.type = e.type /\ q.type \in {"vma", "vma_asid"}
      /\ q.type = "vma_asid" => q.asid = e.asid
  BY DEF Merges, SameKind
<1>3. Plain(m) /\ (Around(q, e) => PagesOf(m) = PagesOf(q)) /\ (~ Around(q, e) => PagesOf(m) = PagesOf(e))
  BY <1>1, <1>2 DEF Plain, PagesOf
<1>4. /\ q.start \in Pages /\ q.size \in Pages /\ e.start \in Pages /\ e.size \in Pages
      /\ q.size > 0 /\ e.size > 0 /\ q.start + q.size < Space /\ e.start + e.size < Space
  BY <1>2 DEF Ranges, Entries, Plain
<1>5. /\ End(q) = q.start + q.size /\ End(e) = e.start + e.size
      /\ PagesOf(q) = IF q.size = FlushAll THEN Pages ELSE q.start..(q.start + q.size - 1)
      /\ PagesOf(e) = IF e.size = FlushAll THEN Pages ELSE e.start..(e.start + e.size - 1)
  BY <1>2, <1>4, PlainPages
<1>6. PagesOf(q) \subseteq Pages /\ PagesOf(e) \subseteq Pages
  BY <1>4, <1>5, TlbAssumption, SMTT(30) DEF Pages
<1>7. CASE Around(q, e)
  <2>1. q.start <= e.start /\ q.start + q.size > e.start + e.size
    BY <1>5, <1>7 DEF Around
  <2>2. e.size # FlushAll
    BY <1>4, <2>1, TlbAssumption DEF FlushAll, Pages
  <2>3. PagesOf(e) \subseteq PagesOf(q)
    <3>1. CASE q.size = FlushAll
      BY <1>5, <1>6, <3>1
    <3>2. CASE q.size # FlushAll
      BY <1>4, <1>5, <2>1, <2>2, <3>2, TlbAssumption, SMTT(30) DEF Pages
    <3> QED
      BY <3>1, <3>2
  <2>4. PagesOf(q) \subseteq PagesOf(m) /\ PagesOf(e) \subseteq PagesOf(m)
    BY <1>3, <1>7, <2>3
  <2> QED
    BY <1>1, <1>2, <1>3, <2>4 DEF Flushes, m
<1>8. CASE ~ Around(q, e)
  <2>1. q.start >= e.start /\ q.start + q.size <= e.start + e.size
    BY <1>5, <1>8 DEF Merges, Within
  <2>2. PagesOf(q) \subseteq PagesOf(e)
    <3>1. CASE e.size = FlushAll
      BY <1>5, <1>6, <3>1
    <3>2. CASE e.size # FlushAll
      <4>1. q.size # FlushAll
        BY <1>4, <2>1, <3>2, TlbAssumption DEF Pages, FlushAll
      <4> QED
        BY <1>4, <1>5, <2>1, <3>2, <4>1, TlbAssumption, SMTT(30) DEF Pages
    <3> QED
      BY <3>1, <3>2
  <2>3. PagesOf(q) \subseteq PagesOf(m) /\ PagesOf(e) \subseteq PagesOf(m)
    BY <1>3, <1>8, <2>2
  <2> QED
    BY <1>1, <1>2, <1>3, <2>3 DEF Flushes, m
<1> QED
  BY <1>7, <1>8

\* What is owed stays accounted for where entries are kept and every target not
\* yet told stays so, is given an entry, or owes nothing any more.
LEMMA OwingFrame ==
    ASSUME Owing,
           \A r, t \in Harts : owed'[r][t] \subseteq owed[r][t],
           \A S : \A t, r \in Harts : Carries(t, r, S) => Carries(t, r, S)',
           \A r, t \in Harts : NotYet(r, t) /\ pc[r] \in Sending =>
               \/ NotYet(r, t)' /\ pc'[r] \in Sending /\ req'[r] = req[r]
               \/ owed[r][t] \subseteq Flushes(req[r]) => owed'[r][t] = {}
               \/ owed[r][t] \subseteq Flushes(req[r]) => Carries(t, r, owed[r][t])'
    PROVE  Owing'
<1> SUFFICES ASSUME NEW r \in Harts, NEW t \in Harts, owed'[r][t] # {}
             PROVE  \/ NotYet(r, t)' /\ pc'[r] \in Sending /\ owed'[r][t] \subseteq Flushes(req'[r])
                    \/ Carries(t, r, owed[r][t])'
  BY DEF Owing
<1>1. owed[r][t] # {}
  OBVIOUS
<1>2. CASE NotYet(r, t) /\ pc[r] \in Sending /\ owed[r][t] \subseteq Flushes(req[r])
  <2>1. CASE NotYet(r, t)' /\ pc'[r] \in Sending /\ req'[r] = req[r]
    <3>1. owed'[r][t] \subseteq Flushes(req'[r])
      BY <1>2, <2>1
    <3> QED
      BY <2>1, <3>1
  <2> QED
    BY <1>2, <2>1
<1>3. CASE Carries(t, r, owed[r][t])
  <2>1. PICK S : S = owed[r][t]
    OBVIOUS
  <2>2. Carries(t, r, S)' /\ owed'[r][t] \subseteq S
    BY <1>3, <2>1
  <2> QED
    BY <2>2 DEF Carries
<1> QED
  BY <1>1, <1>2, <1>3 DEF Owing

\* Where no entry changes.
LEMMA CarriesSame ==
    ASSUME UNCHANGED <<fifo, busy>>
    PROVE  \A S : \A t, r \in Harts : Carries(t, r, S) => Carries(t, r, S)'
  BY DEF Carries

LEMMA FlushedEffect ==
    ASSUME Shape, NEW h \in Harts, NEW S, Flushed(h, S)
    PROVE  /\ \A r, t \in Harts : t # h => owed'[r][t] = owed[r][t]
           /\ \A r \in Harts : owed'[r][h] = owed[r][h] \ S
  BY DEF Flushed, Shape

LEMMA RequestOwing ==
    ASSUME FenceInv, PlainRequests, NEW h \in Harts, NEW q \in Requests, NEW T \in Targets,
           Request(h, q, T)
    PROVE  PlainRanges' /\ Owing'
<1> USE DEF FenceInv, TlbInv
<1>1. /\ pc[h] = "smode" /\ req'[h] = Normalised(q) /\ todo'[h] = T /\ pc'[h] = "update"
      /\ \A t \in Harts : owed'[h][t] = IF t \in T THEN Flushes(q) ELSE {}
      /\ \A r \in Harts \ {h} : /\ req'[r] = req[r] /\ todo'[r] = todo[r] /\ at'[r] = at[r]
                               /\ pc'[r] = pc[r] /\ owed'[r] = owed[r]
      /\ UNCHANGED <<fifo, busy>>
  BY DEF Request, Goto, Shape
<1>2. PlainRanges'
  BY <1>1, NormalisedCovers DEF PlainRanges
<1>3. ASSUME NEW t \in Harts
      PROVE  owed'[h][t] = {} \/ (NotYet(h, t)' /\ owed'[h][t] \subseteq Flushes(req'[h]))
  BY <1>1, NormalisedCovers DEF NotYet, Told
<1>4. ASSUME NEW r \in Harts \ {h}, NEW t \in Harts
      PROVE  \/ owed'[r][t] = {}
             \/ NotYet(r, t)' /\ pc'[r] \in Sending /\ owed'[r][t] \subseteq Flushes(req'[r])
             \/ Carries(t, r, owed[r][t])'
  <2>1. owed'[r][t] = owed[r][t]
    BY <1>1
  <2>2. Carries(t, r, owed[r][t]) => Carries(t, r, owed[r][t])'
    BY <1>1, <2>1 DEF Carries
  <2>3. NotYet(r, t) /\ pc[r] \in Sending => NotYet(r, t)' /\ pc'[r] \in Sending /\ req'[r] = req[r]
    BY <1>1 DEF NotYet
  <2> QED
    BY <2>1, <2>2, <2>3 DEF Owing
<1> QED
  BY <1>1, <1>2, <1>3, <1>4 DEF Owing, Sending

\* Done with a target: it has been given the request, or has flushed itself.
LEMMA DoneOwing ==
    ASSUME FenceInv, NEW h \in Harts, pc[h] \in Telling, Done(h, at[h]), UNCHANGED <<fifo, busy, req>>,
           \A r, t \in Harts : owed'[r][t] \subseteq owed[r][t],
           pc[h] \in Told \/ (owed[h][at[h]] \subseteq Flushes(req[h]) => owed'[h][at[h]] = {})
    PROVE  PlainRanges' /\ Owing'
<1> USE DEF FenceInv, TlbInv
<1>1. PlainRanges'
  BY DoneEffect DEF PlainRanges, Sending, Telling
<1>2. ASSUME NEW r \in Harts, NEW t \in Harts, NotYet(r, t), pc[r] \in Sending
      PROVE  \/ NotYet(r, t)' /\ pc'[r] \in Sending /\ req'[r] = req[r]
             \/ owed[r][t] \subseteq Flushes(req[r]) => owed'[r][t] = {}
  <2>1. CASE r # h
    BY <1>2, <2>1, DoneEffect DEF NotYet
  <2>2. CASE r = h /\ t = at[h]
    BY <1>2, <2>2 DEF NotYet
  <2>3. CASE r = h /\ t # at[h]
    BY <1>2, <2>3, DoneEffect DEF NotYet, Sending, Told
  <2> QED
    BY <2>1, <2>2, <2>3
<1> QED
  BY <1>1, <1>2, CarriesSame, OwingFrame

\* The target is given an entry that flushes all that is asked for.
LEMMA EnqueueOwing ==
    ASSUME FenceInv, NEW h \in Harts, Enqueue(h)
    PROVE  PlainRanges' /\ Owing'
<1> USE DEF FenceInv, TlbInv
<1>1. PICK t \in Harts : t = at[h]
  BY DEF Enqueue, Shape, Loop, Telling
<1>2. pc[h] = "enqueue" /\ req[h] \in Ranges
  BY DEF Enqueue, Loop, Sending
<1>3. /\ fifo' = [fifo EXCEPT ![t] = Append(@, Entry(req[h], h))] /\ pc' = [pc EXCEPT ![h] = "count"]
      /\ UNCHANGED <<req, todo, at, busy, owed>>
  BY <1>1 DEF Enqueue, Goto, hartVars
<1>4. ~ Waits(t, h)
  BY <1>1, <1>2 DEF TellsOnce, NotYet, Loop, Telling, Told
<1>n. PICK n \in Nat : n = Len(fifo[t])
  BY LenProperties DEF Shape
<1>5. /\ \A u \in Harts \ {t} : fifo'[u] = fifo[u]
      /\ DOMAIN fifo[t] = 1..n /\ DOMAIN fifo'[t] = 1..(n + 1)
      /\ \A i \in 1..n : fifo'[t][i] = fifo[t][i]
      /\ fifo'[t][n + 1] = Entry(req[h], h)
  BY <1>2, <1>3, <1>4, <1>n, EnqueueCarries
<1>6. pc'[h] = "count" /\ \A r \in Harts \ {h} : pc'[r] = pc[r]
  BY <1>3 DEF Shape
<1> DEFINE e == Entry(req[h], h)
<1>7. h \in e.smask /\ Flushes(e) = Flushes(req[h]) /\ (Plain(req[h]) => Plain(e))
  <2>1. /\ e.smask = {h} /\ e.type = req[h].type /\ e.asid = req[h].asid
        /\ e.start = req[h].start /\ e.size = req[h].size
    BY <1>2, EntryType
  <2> HIDE DEF e
  <2>2. PagesOf(e) = PagesOf(req[h])
    BY <2>1 DEF PagesOf
  <2>3. Flushes(e) = Flushes(req[h])
    BY <2>1, <2>2, Zenon DEF Flushes
  <2> QED
    BY <2>1, <2>3 DEF Plain
<1> HIDE DEF e
<1>8. PlainRanges'
  <2>1. Plain(req[h]) /\ Plain(e)
    BY <1>2, <1>7 DEF PlainRanges, Sending
  <2>2. \A i \in DOMAIN fifo'[t] : Plain(fifo'[t][i])
    <3> TAKE i \in DOMAIN fifo'[t]
    <3>1. i \in 1..n \/ i = n + 1
      BY <1>5
    <3> QED
      BY <1>5, <2>1, <3>1 DEF PlainRanges, e
  <2>3. \A r \in Harts : pc'[r] \in Sending => Plain(req'[r])
    BY <1>2, <1>3, <1>6, <2>1 DEF PlainRanges
  <2> QED
    BY <1>3, <1>5, <2>2, <2>3 DEF PlainRanges
<1>9. ASSUME NEW S, NEW u \in Harts, NEW r \in Harts, Carries(u, r, S) PROVE Carries(u, r, S)'
  <2>1. CASE u # t
    BY <1>3, <1>5, <1>9, <2>1 DEF Carries
  <2>2. CASE u = t
    <3>1. \A i \in DOMAIN fifo[t] : i \in DOMAIN fifo'[t] /\ fifo'[t][i] = fifo[t][i]
      BY <1>5
    <3> QED
      BY <1>3, <1>9, <2>2, <3>1 DEF Carries
  <2> QED
    BY <2>1, <2>2
<1>10. ASSUME NEW r \in Harts, NEW u \in Harts, NotYet(r, u), pc[r] \in Sending
       PROVE  \/ NotYet(r, u)' /\ pc'[r] \in Sending /\ req'[r] = req[r]
              \/ owed[r][u] \subseteq Flushes(req[r]) => Carries(u, r, owed[r][u])'
  <2>1. CASE r # h
    BY <1>3, <1>6, <1>10, <2>1 DEF NotYet
  <2>2. CASE r = h /\ u # t
    BY <1>1, <1>3, <1>6, <1>10, <2>2 DEF NotYet, Sending
  <2>3. CASE r = h /\ u = t
    <3>1. n + 1 \in DOMAIN fifo'[t]
      BY <1>5
    <3>2. owed'[h][t] = owed[h][t]
      BY <1>3
    <3> QED
      BY <1>5, <1>7, <2>3, <3>1, <3>2 DEF Carries, e
  <2> QED
    BY <2>1, <2>2, <2>3
<1> QED
  BY <1>3, <1>8, <1>9, <1>10, OwingFrame

\* ... or the request is merged into one.
LEMMA MergeOwing ==
    ASSUME FenceInv, NEW h \in Harts, UpdateInPlace(h)
    PROVE  PlainRanges' /\ Owing'
<1> USE DEF FenceInv, TlbInv
<1> DEFINE M == {i \in DOMAIN fifo[at[h]] : Merges(req[h], fifo[at[h]][i])}
<1>1. PICK t \in Harts : t = at[h]
  BY DEF UpdateInPlace, Shape
<1>2. pc[h] = "update" /\ req[h] \in Ranges /\ Plain(req[h]) /\ UNCHANGED <<req, todo, at, busy, owed>>
  BY DEF UpdateInPlace, hartVars, Loop, Sending, PlainRanges
<1>3. CASE M = {}
  <2>1. fifo' = fifo /\ pc'[h] = "enqueue" /\ \A r \in Harts \ {h} : pc'[r] = pc[r]
    BY <1>3 DEF UpdateInPlace, Goto, Shape
  <2>2. PlainRanges'
    BY <1>2, <2>1 DEF PlainRanges
  <2>3. \A r, u \in Harts : NotYet(r, u) /\ pc[r] \in Sending =>
           NotYet(r, u)' /\ pc'[r] \in Sending /\ req'[r] = req[r]
    BY <1>2, <2>1 DEF NotYet, Sending, Told
  <2> QED
    BY <1>2, <2>1, <2>2, <2>3, CarriesSame, OwingFrame
<1>4. CASE M # {}
  <2>1. M \subseteq Nat
    BY <1>1 DEF Shape
  <2>2. PICK m \in DOMAIN fifo[t] : m = Min(M) /\ Merges(req[h], fifo[t][m])
    BY <1>1, <1>4, <2>1, MinIsLeast
  <2>3. fifo' = [fifo EXCEPT ![t][m] = Merged(req[h], @, h)] /\ pc' = [pc EXCEPT ![h] = "count"]
    BY <1>1, <1>4, <2>2 DEF UpdateInPlace, Goto
  <2> HIDE DEF M
  <2>4. ~ Waits(t, h)
    BY <1>1, <1>2 DEF TellsOnce, NotYet, Loop, Telling, Told
  <2>5. /\ \A u \in Harts \ {t} : fifo'[u] = fifo[u]
        /\ DOMAIN fifo'[t] = DOMAIN fifo[t]
        /\ \A i \in DOMAIN fifo[t] \ {m} : fifo'[t][i] = fifo[t][i]
        /\ fifo'[t][m] = Merged(req[h], fifo[t][m], h) /\ fifo[t][m] \in Entries
    BY <1>2, <2>3, <2>4, MergeCarries
  <2>6. /\ Plain(fifo'[t][m]) /\ Flushes(req[h]) \subseteq Flushes(fifo'[t][m])
        /\ Flushes(fifo[t][m]) \subseteq Flushes(fifo'[t][m])
        /\ fifo'[t][m].smask = fifo[t][m].smask \cup {h}
    <3>1. Plain(fifo[t][m])
      BY DEF PlainRanges
    <3> QED
      BY <1>2, <2>2, <2>5, <3>1, MergeCovers, MergedType
  <2>7. pc'[h] = "count" /\ \A r \in Harts \ {h} : pc'[r] = pc[r]
    BY <2>3 DEF Shape
  <2>8. PlainRanges'
    <3>1. \A i \in DOMAIN fifo'[t] : Plain(fifo'[t][i])
      BY <2>5, <2>6 DEF PlainRanges
    <3>2. \A r \in Harts : pc'[r] \in Sending => Plain(req'[r])
      BY <1>2, <2>7 DEF PlainRanges
    <3> QED
      BY <1>2, <2>5, <3>1, <3>2 DEF PlainRanges
  <2>9. ASSUME NEW S, NEW u \in Harts, NEW r \in Harts, Carries(u, r, S) PROVE Carries(u, r, S)'
    <3>1. CASE u # t
      BY <1>2, <2>5, <2>9, <3>1 DEF Carries
    <3>2. CASE u = t /\ busy[t] # NoEntry /\ r \in busy[t].smask /\ S \subseteq Flushes(busy[t])
      BY <1>2, <3>2 DEF Carries
    <3>3. CASE u = t /\ \E i \in DOMAIN fifo[t] : r \in fifo[t][i].smask /\ S \subseteq Flushes(fifo[t][i])
      <4>1. PICK i \in DOMAIN fifo[t] : r \in fifo[t][i].smask /\ S \subseteq Flushes(fifo[t][i])
        BY <3>3
      <4>2. r \in fifo'[t][i].smask /\ S \subseteq Flushes(fifo'[t][i]) /\ i \in DOMAIN fifo'[t]
        <5>1. CASE i = m
          BY <2>5, <2>6, <4>1, <5>1
        <5>2. CASE i # m
          BY <2>5, <4>1, <5>2
        <5> QED
          BY <5>1, <5>2
      <4> QED
        BY <3>3, <4>2 DEF Carries
    <3> QED
      BY <2>9, <3>1, <3>2, <3>3 DEF Carries
  <2>10. ASSUME NEW r \in Harts, NEW u \in Harts, NotYet(r, u), pc[r] \in Sending
         PROVE  \/ NotYet(r, u)' /\ pc'[r] \in Sending /\ req'[r] = req[r]
                \/ owed[r][u] \subseteq Flushes(req[r]) => Carries(u, r, owed[r][u])'
    <3>1. CASE r # h
      BY <1>2, <2>7, <2>10, <3>1 DEF NotYet
    <3>2. CASE r = h /\ u # t
      BY <1>1, <1>2, <2>7, <2>10, <3>2 DEF NotYet, Sending
    <3>3. CASE r = h /\ u = t
      <4>1. m \in DOMAIN fifo'[t] /\ owed'[h][t] = owed[h][t] /\ h \in fifo'[t][m].smask
        BY <1>2, <2>5, <2>6
      <4>2. owed[h][t] \subseteq Flushes(req[h]) => owed'[h][t] \subseteq Flushes(fifo'[t][m])
        BY <2>6, <4>1
      <4> QED
        BY <3>3, <4>1, <4>2 DEF Carries
    <3> QED
      BY <3>1, <3>2, <3>3
  <2> QED
    BY <1>2, <2>8, <2>9, <2>10, OwingFrame
<1> QED
  BY <1>3, <1>4

LEMMA TakeOwing ==
    ASSUME FenceInv, NEW h \in Harts, busy[h] = NoEntry, FifoFull(h) \/ SyncWork(h) \/ IpiTake(h)
    PROVE  PlainRanges' /\ Owing'
<1> USE DEF FenceInv, TlbInv
<1>1. /\ TakeOwn(h) /\ UNCHANGED <<req, todo, owed>>
      /\ \A r \in Harts \ {h} : pc'[r] = pc[r] /\ at'[r] = at[r]
      /\ \/ pc'[h] = pc[h] /\ at'[h] = at[h]
         \/ pc[h] = "enqueue" /\ pc'[h] = "update"
  BY DEF FifoFull, SyncWork, IpiTake, Goto, hartVars, Shape
<1>2. PlainRanges'
  <2>1. \A r \in Harts : pc'[r] \in Sending => Plain(req'[r])
    BY <1>1 DEF PlainRanges, Sending
  <2>2. CASE fifo[h] = <<>>
    BY <1>1, <2>1, <2>2 DEF PlainRanges, TakeOwn
  <2>3. CASE fifo[h] # <<>>
    <3> DEFINE s == fifo[h]
    <3>1. s \in Seq(Entries) /\ s # <<>>
      BY <2>3 DEF Shape
    <3>2. /\ Len(s) \in Nat \ {0} /\ DOMAIN s = 1..Len(s)
          /\ DOMAIN Tail(s) = 1..(Len(s) - 1)
          /\ \A i \in 1..(Len(s) - 1) : Tail(s)[i] = s[i + 1]
          /\ Head(s) = s[1]
      BY <3>1, HeadTailProperties, LenProperties
    <3>3. /\ fifo'[h] = Tail(s) /\ busy'[h] = s[1]
          /\ \A u \in Harts \ {h} : fifo'[u] = fifo[u] /\ busy'[u] = busy[u]
      BY <1>1, <2>3, <3>2 DEF TakeOwn, Shape
    <3> HIDE DEF s
    <3>4. \A i \in 1..Len(s) : Plain(s[i])
      BY <3>2 DEF PlainRanges, s
    <3>5. Plain(busy'[h]) /\ \A i \in DOMAIN fifo'[h] : Plain(fifo'[h][i])
      BY <3>2, <3>3, <3>4
    <3> QED
      BY <2>1, <3>3, <3>5 DEF PlainRanges
  <2> QED
    BY <2>2, <2>3
<1>3. \A S : \A t, r \in Harts : Carries(t, r, S) => Carries(t, r, S)'
  BY <1>1, TakeCarries
<1>4. \A r, u \in Harts : NotYet(r, u) /\ pc[r] \in Sending =>
         NotYet(r, u)' /\ pc'[r] \in Sending /\ req'[r] = req[r]
  BY <1>1 DEF NotYet, Sending, Told
<1> QED
  BY <1>1, <1>2, <1>3, <1>4, OwingFrame

\* The hart flushes what the entry says, for everybody who is owed it.
LEMMA ProcessOwing ==
    ASSUME FenceInv, NEW h \in Harts, Process(h)
    PROVE  PlainRanges' /\ Owing'
<1> USE DEF FenceInv, TlbInv
<1>1. /\ UNCHANGED <<fifo, pc, req, todo, at>> /\ busy[h] # NoEntry /\ busy'[h] = NoEntry
      /\ \A t \in Harts \ {h} : busy'[t] = busy[t]
  BY DEF Process, hartVars, Shape
<1>2. /\ \A r, t \in Harts : t # h => owed'[r][t] = owed[r][t]
      /\ \A r \in Harts : owed'[r][h] = owed[r][h] \ Flushes(busy[h])
  <2>1. PICK S : S = Flushes(busy[h])
    OBVIOUS
  <2> QED
    BY <2>1, FlushedEffect DEF Process
<1>3. PlainRanges'
  BY <1>1 DEF PlainRanges
<1>4. ASSUME NEW r \in Harts, NEW t \in Harts
      PROVE  \/ owed'[r][t] = {}
             \/ NotYet(r, t)' /\ pc'[r] \in Sending /\ owed'[r][t] \subseteq Flushes(req'[r])
             \/ Carries(t, r, owed[r][t])'
  <2>1. owed'[r][t] \subseteq owed[r][t]
    BY <1>2
  <2>2. CASE owed[r][t] = {}
    BY <2>1, <2>2
  <2>3. CASE NotYet(r, t) /\ pc[r] \in Sending /\ owed[r][t] \subseteq Flushes(req[r])
    <3>1. NotYet(r, t)' /\ pc'[r] \in Sending
      BY <1>1, <2>3 DEF NotYet
    <3> QED
      BY <1>1, <2>1, <2>3, <3>1
  <2>4. CASE \E i \in DOMAIN fifo[t] : r \in fifo[t][i].smask /\ owed[r][t] \subseteq Flushes(fifo[t][i])
    <3>1. \E i \in DOMAIN fifo'[t] : r \in fifo'[t][i].smask /\ owed'[r][t] \subseteq Flushes(fifo'[t][i])
      BY <1>1, <2>1, <2>4
    <3> QED
      BY <3>1 DEF Carries
  <2>5. CASE busy[t] # NoEntry /\ r \in busy[t].smask /\ owed[r][t] \subseteq Flushes(busy[t])
    <3>1. CASE t = h
      BY <1>2, <2>5, <3>1
    <3>2. CASE t # h
      BY <1>1, <1>2, <2>5, <3>2 DEF Carries
    <3> QED
      BY <3>1, <3>2
  <2> QED
    BY <2>2, <2>3, <2>4, <2>5 DEF Owing, Carries
<1> QED
  BY <1>3, <1>4 DEF Owing

\* The other steps leave entries and what is owed alone.
LEMMA OtherOwing ==
    ASSUME FenceInv, NEW h \in Harts,
           \/ Count(h) \/ SyncReturn(h) \/ IpiEnter(h) \/ IpiXchg(h) \/ IpiReturn(h)
           \/ SetType(h) /\ ~ ipi_type[at[h]]
    PROVE  PlainRanges' /\ Owing'
<1> USE DEF FenceInv, TlbInv
<1>1. UNCHANGED <<fifo, busy, todo, at, owed>>
  BY DEF Count, SyncReturn, IpiEnter, IpiXchg, IpiReturn, SetType, hartVars
<1>2. /\ \A r \in Harts \ {h} : pc'[r] = pc[r] /\ req'[r] = req[r]
      /\ \/ pc[h] = "count" /\ pc'[h] = "type" /\ req'[h] = req[h]
         \/ pc[h] = "type" /\ pc'[h] = "raise" /\ req'[h] = req[h]
         \/ pc[h] = "sync" /\ pc'[h] \notin Sending
         \/ pc[h] \notin Sending /\ pc'[h] \notin Sending
  <2>1. CASE Count(h) \/ (SetType(h) /\ ~ ipi_type[at[h]])
    BY <2>1 DEF Count, SetType, Goto, hartVars, Shape
  <2>2. CASE SyncReturn(h)
    BY <2>2 DEF SyncReturn, Goto, Shape, Sending
  <2>3. CASE IpiEnter(h) \/ IpiXchg(h) \/ IpiReturn(h)
    BY <2>3 DEF IpiEnter, IpiXchg, IpiReturn, Goto, hartVars, Shape, Sending
  <2> QED
    BY <2>1, <2>2, <2>3
<1>3. PlainRanges'
  BY <1>1, <1>2 DEF PlainRanges, Sending
<1>4. pc[h] = "sync" => \A u \in Harts : ~ NotYet(h, u)
  BY DEF Loop, NotYet, Telling
<1>5. \A r, u \in Harts : NotYet(r, u) /\ pc[r] \in Sending =>
         NotYet(r, u)' /\ pc'[r] \in Sending /\ req'[r] = req[r]
  BY <1>1, <1>2, <1>4 DEF NotYet, Sending, Told
<1> QED
  BY <1>1, <1>3, <1>5, CarriesSame, OwingFrame

LEMMA FenceInit == Init => FenceInv
<1> SUFFICES ASSUME Init PROVE FenceInv
  OBVIOUS
<1>1. TlbInv
  BY TlbInit
<1>2. PlainRanges
  BY DEF Init, PlainRanges, Sending
<1>3. Owing
  BY DEF Init, Owing
<1> QED
  BY <1>1, <1>2, <1>3 DEF FenceInv

LEMMA FenceStep ==
    ASSUME PlainRequests, FenceInv, [Next]_vars
    PROVE  FenceInv'
<1>1. TlbInv'
  BY TlbStep DEF FenceInv
<1>2. ASSUME NEW h \in Harts, NEW q \in Requests, NEW T \in Targets, Request(h, q, T)
      PROVE  PlainRanges' /\ Owing'
  BY <1>2, RequestOwing
<1>3. ASSUME NEW h \in Harts, Step(h)
      PROVE  PlainRanges' /\ Owing'
  <2>1. CASE UpdateSelf(h)
    <3>1. /\ pc[h] = "update" /\ at[h] = h /\ Done(h, at[h]) /\ UNCHANGED <<fifo, busy, req>>
      BY <2>1 DEF UpdateSelf
    <3>2. PICK S : S = Flushes(req[h])
      OBVIOUS
    <3>3. Flushed(h, S)
      BY <2>1, <3>2 DEF UpdateSelf
    <3>4. /\ \A r, t \in Harts : t # h => owed'[r][t] = owed[r][t]
          /\ \A r \in Harts : owed'[r][h] = owed[r][h] \ S
      BY <3>3, FlushedEffect DEF FenceInv, TlbInv
    <3>5. \A r, t \in Harts : owed'[r][t] \subseteq owed[r][t]
      BY <3>4
    <3>6. owed[h][at[h]] \subseteq Flushes(req[h]) => owed'[h][at[h]] = {}
      BY <3>1, <3>2, <3>4
    <3> QED
      BY <3>1, <3>5, <3>6, DoneOwing DEF Telling
  <2>2. CASE Raise(h) \/ (SetType(h) /\ ipi_type[at[h]])
    BY <2>2, DoneOwing DEF Raise, SetType, Telling, Told
  <2>3. CASE busy[h] = NoEntry /\ (UpdateInPlace(h) \/ Enqueue(h) \/ FifoFull(h))
    BY <2>3, MergeOwing, EnqueueOwing, TakeOwing
  <2>4. CASE SyncWork(h) \/ IpiTake(h) \/ Process(h)
    BY <2>4, TakeOwing, ProcessOwing DEF SyncWork, IpiTake
  <2>5. CASE \/ Count(h) \/ SyncReturn(h) \/ IpiEnter(h) \/ IpiXchg(h) \/ IpiReturn(h)
             \/ SetType(h) /\ ~ ipi_type[at[h]]
    BY <2>5, OtherOwing
  <2> QED
    BY <1>3, <2>1, <2>2, <2>3, <2>4, <2>5 DEF Step
<1>4. CASE UNCHANGED vars
  <2>1. UNCHANGED <<fifo, pc, req, todo, at, busy, owed>>
    BY <1>4 DEF vars, hartVars
  <2>2. PlainRanges'
    BY <2>1 DEF FenceInv, PlainRanges
  <2>3. \A r, u \in Harts : NotYet(r, u) => NotYet(r, u)'
    BY <2>1 DEF NotYet
  <2>4. Owing'
    BY <2>1, <2>3, CarriesSame, OwingFrame DEF FenceInv
  <2> QED
    BY <1>1, <2>2, <2>4 DEF FenceInv
<1> QED
  BY <1>1, <1>2, <1>3, <1>4 DEF Next, FenceInv

\* Whatever is merged, retried or worked off early: when a request returns, each
\* target has flushed, since it was made, all that was asked for.
THEOREM FencesComplete ==
    ASSUME PlainRequests
    PROVE  Spec => []FenceComplete
<1>1. FenceInv => FenceComplete
  <2> SUFFICES ASSUME FenceInv, NEW h \in Harts, NEW t \in Harts, pc[h] \in {"smode", "xchg", "ipi"}
               PROVE  owed[h][t] = {}
    BY DEF FenceComplete
  <2>1. ~ Waits(t, h)
    BY DEF FenceInv, TlbInv, TellsOnce, Sending
  <2>2. ~ Carries(t, h, owed[h][t])
    BY <2>1 DEF Waits, Carries
  <2> QED
    BY <2>2 DEF FenceInv, Owing, Sending
<1>2. FenceInv /\ [Next]_vars => FenceInv'
  BY FenceStep
<1> QED
  BY <1>1, <1>2, FenceInit, PTL DEF Spec

=============================================================================
