----------------------------- MODULE TpuHalProofs -----------------------------
(***************************************************************************)
(* Proofs about TpuHal for every set of jobs, every number of descriptors, *)
(* commands, openers, suspends and signals, with and without faults.       *)
(***************************************************************************)
EXTENDS TpuHal, SequenceTheorems, TLAPS

\* The registers are records of their types and the descriptor at hand exists.
RegType ==
    /\ tdma \in [on : BOOLEAN, left : Nat, id : Nat, err : BOOLEAN]
    /\ backup \in [id : Nat, tiu : {"off", "busy", "done"}, int : SUBSET IntBits]
    /\ wpc = "desc" => i >= 1
    /\ wpc \in {"fire", "wait", "poll"} => i >= 1 /\ i <= Len(job.descs)

\* An interrupt is raised or will be, if the clocks stay on.
Pending == TdmaBusy \/ int # {} \/ pmu = "flush"

\* One source of interrupts at a time, and none left once complete() was called:
\* a wait never sees the completion of an earlier descriptor.
OneInterrupt ==
    /\ tdma_done = 1 => ~Pending
    /\ int # {} => ~TdmaBusy /\ pmu # "flush"
    /\ TdmaBusy => pmu # "flush"
    /\ wpc \in {"begin", "desc", "fire", "poll", "pmu", "pmuoff", "pio", "piofire"} => ~Pending
    /\ wpc \in {"fire", "pmuoff", "piofire"} => tdma_done = 0

\* Resumes so far: one for each suspend, but for the one under way.
Resumes == IF spc = "awake" THEN sleeps ELSE sleeps - 1

\* Every clock enable beyond those of jobs that timed out is a job's or a resume's.
ClkBound ==
    /\ spc # "awake" => sleeps > 0
    /\ clk <= Resumes + (IF wpc = "init" THEN MaxClk - 1 ELSE MaxClk)

\* Until the first suspend or signal the clocks are on while a job runs, and
\* nothing is pending when it has ended.
ClkOn ==
    /\ handle_int => sleeps > 0
    /\ sleeps = 0 /\ wpc \notin {"idle", "init", "after"} => clk > 0
    /\ sleeps = 0 /\ signals = 0 /\ Pending =>
         wpc \in WaitPcs \/ (wpc = "end" /\ ret = "etimedout")

\* A run that is not disturbed: the device is open, the system awake, and the
\* registers are what the work thread has made of them.
Steady ==
    wpc # "idle" /\ ~disturbed =>
        /\ spc = "awake" /\ use_count > 0
        /\ wpc \in {"desc", "fire", "wait", "poll", "pmu", "pmuoff", "pmuwait"} => ~handle_int
        /\ ~bad

\* TDMA is at work on the descriptor at hand; what it has done and what it has
\* left add up, and the interrupt handler saw the final count.
OnTrack ==
    wpc # "idle" /\ ~disturbed =>
        /\ wpc = "wait" \/ (wpc = "poll" /\ Desc.tdma > 0) =>
              tdma.on /\ tdma.id + tdma.left = Desc.tdma /\ (tdma.err => faulted)
        /\ wpc = "wait" /\ tdma_done = 1 => backup.id = tdma.id
        /\ wpc = "poll" /\ Desc.tdma > 0 => backup.id = tdma.id
        /\ wpc \in {"wait", "poll"} /\ Desc.bd > 0 => tiu \in {"busy", "done"}
        /\ wpc = "piowait" => tdma.on /\ (tdma.err => faulted)

\* The PMU is on until it is switched off, and then flushes or has flushed.
PmuTrack ==
    wpc # "idle" /\ ~disturbed =>
        /\ wpc \in {"begin", "pio", "piofire", "piowait"} => pmu = "off"
        /\ wpc \in {"desc", "fire", "wait", "poll", "pmu", "pmuoff"} => pmu = IF job.pmu THEN "on" ELSE "off"
        /\ wpc \in {"pmu", "pmuoff"} => job.pmu
        /\ wpc = "pmuwait" => pmu \in {"flush", "off"}
        /\ wpc = "end" /\ ret = "ok" => pmu = "off"

\* Unless something failed, whoever waits has an answer or is about to get one.
Answering ==
    wpc # "idle" /\ ~disturbed /\ ~faulted =>
        /\ wpc \in WaitPcs => tdma_done = 1 \/ Pending
        /\ wpc = "end" /\ job.magic => ret = "ok"

\* The result is written once, where the run ends.
RetOk == wpc \notin {"end", "after"} => ret = "ok"

HungOnce == hung => sleeps > 0 \/ signals > 0

HalInv == TypeOK /\ RegType /\ OneInterrupt /\ ClkBound /\ ClkOn /\ Steady /\ OnTrack /\ PmuTrack
          /\ Answering /\ RetOk /\ HungOnce

LEMMA JobType ==
  ASSUME job \in Jobs \cup {NoJob}
  PROVE  /\ job.path \in {"desnormal", "dessec", "piotdma"}
         /\ job.pmu \in BOOLEAN /\ job.magic \in BOOLEAN
         /\ Len(job.descs) \in Nat
         /\ \A k \in 1..Len(job.descs) : job.descs[k].bd \in Nat /\ job.descs[k].tdma \in Nat
<1>1. /\ job.path \in {"desnormal", "dessec", "piotdma"}
      /\ job.pmu \in BOOLEAN /\ job.magic \in BOOLEAN
      /\ job.descs \in Seq([bd: Nat, tdma: Nat])
  <2>1. CASE job \in Jobs
    BY <2>1, HalAssumption
  <2>2. CASE job = NoJob
    BY <2>2 DEF NoJob
  <2> QED BY <2>1, <2>2
<1>2. Len(job.descs) \in Nat /\ DOMAIN job.descs = 1..Len(job.descs)
  BY <1>1
<1>3. \A k \in 1..Len(job.descs) : job.descs[k] \in [bd: Nat, tdma: Nat]
  BY <1>1, ElementOfSeq
<1> QED
  BY <1>1, <1>2, <1>3

LEMMA TdmaOffType == TdmaOff \in [on : BOOLEAN, left : Nat, id : Nat, err : BOOLEAN]
  BY DEF TdmaOff

-----------------------------------------------------------------------------
(* The steps *)

\* The hardware.
LEMMA HwKeeps ==
    ASSUME HalInv, ~hung, CpuOn, TdmaCommand \/ TdmaError \/ TiuDone \/ PmuFlushed
    PROVE  HalInv'
<1> USE HalAssumption, JobType DEF HalInv, swVars, regVars, hwVars, histVars, vars
<1>1. CASE TdmaCommand
  <2>1. OneInterrupt' /\ ClkBound' /\ ClkOn' /\ Steady' /\ PmuTrack' /\ RetOk' /\ HungOnce'
    BY <1>1 DEF TdmaCommand, OneInterrupt, TdmaBusy, Pending, ClkBound, Resumes, ClkOn, WaitPcs,
        Steady, PmuTrack, RetOk, HungOnce
  <2>2. TypeOK'
    <3>1. tdma.left - 1 \in Nat /\ tdma.id + 1 \in Nat
      BY <1>1 DEF TdmaCommand, TdmaBusy, RegType
    <3>2. tdma'.left \in Nat /\ tdma'.id \in Nat
      BY <1>1, <3>1 DEF TdmaCommand, RegType
    <3> QED
      BY <1>1, <3>2, SMTT(30) DEF TdmaCommand, TypeOK, WorkPcs, IntBits
  <2>3. RegType'
    <3>1. tdma.left \in Nat \ {0} /\ tdma.left - 1 \in Nat /\ tdma.id + 1 \in Nat
      BY <1>1 DEF TdmaCommand, TdmaBusy, RegType
    <3>2. tdma' \in [on : BOOLEAN, left : Nat, id : Nat, err : BOOLEAN]
      BY <1>1, <3>1 DEF TdmaCommand, RegType
    <3> QED
      BY <1>1, <3>2 DEF TdmaCommand, RegType, IntBits
  <2>4. OnTrack'
    BY <1>1 DEF TdmaCommand, OnTrack, RegType, OneInterrupt, TdmaBusy, Desc, IntBits, Pending
  <2>5. Answering'
    <3>1. tdma.left = 1 \/ tdma.left > 1
      BY <1>1 DEF TdmaCommand, TdmaBusy, RegType
    <3>2. tdma'.left = tdma.left - 1 /\ tdma'.on /\ ~ tdma'.err
      BY <1>1 DEF TdmaCommand, TdmaBusy, RegType
    <3>3. CASE tdma.left = 1
      <4>1. int' # {}
        BY <1>1, <3>3 DEF TdmaCommand
      <4> QED
        BY <1>1, <4>1 DEF TdmaCommand, Answering, WaitPcs, Pending
    <3>4. CASE tdma.left > 1
      <4>1. tdma'.left > 0
        BY <3>2, <3>4 DEF RegType
      <4>2. TdmaBusy'
        BY <3>2, <4>1 DEF TdmaBusy
      <4> QED
        BY <1>1, <4>2 DEF TdmaCommand, Answering, WaitPcs, Pending
    <3> QED
      BY <3>1, <3>3, <3>4
  <2> QED
    BY <2>1, <2>2, <2>3, <2>4, <2>5
<1>2. CASE TdmaError
  <2>1. TypeOK' /\ RegType'
    <3>1. tdma' \in [on : BOOLEAN, left : Nat, id : Nat, err : BOOLEAN]
      BY <1>2 DEF TdmaError, RegType
    <3> QED
      BY <1>2, <3>1 DEF TdmaError, TypeOK, RegType, WorkPcs, IntBits
  <2>2. ~ TdmaBusy' /\ tdma'.on = tdma.on /\ tdma'.left = tdma.left /\ tdma'.id = tdma.id
    BY <1>2 DEF TdmaError, TdmaBusy, RegType
  <2>3. OneInterrupt' /\ ClkBound' /\ ClkOn'
    BY <1>2, <2>2 DEF TdmaError, OneInterrupt, Pending, ClkBound, ClkOn, Resumes, WaitPcs
  <2>4. Steady' /\ PmuTrack' /\ Answering' /\ RetOk' /\ HungOnce'
    BY <1>2 DEF TdmaError, Steady, PmuTrack, Answering, RetOk, HungOnce
  <2>5. OnTrack'
    BY <1>2, <2>2 DEF TdmaError, OnTrack, Desc
  <2> QED
    BY <2>1, <2>3, <2>4, <2>5
<1>3. CASE TiuDone
  <2>1. TypeOK' /\ RegType' /\ OneInterrupt' /\ ClkBound' /\ ClkOn' /\ Steady' /\ OnTrack' /\
        PmuTrack' /\ Answering' /\ RetOk' /\ HungOnce'
    BY <1>3 DEF TiuDone, TypeOK, WorkPcs, NoJob, IntBits, RegType, OneInterrupt, Pending, TdmaBusy,
        ClkBound, Resumes, ClkOn, WaitPcs, Steady, OnTrack, Desc, PmuTrack, Answering, RetOk,
        HungOnce
  <2> QED
    BY <2>1
<1>4. CASE PmuFlushed
  <2>1. TypeOK' /\ RegType' /\ OneInterrupt' /\ ClkBound' /\ ClkOn' /\ Steady' /\ OnTrack' /\
        PmuTrack' /\ Answering' /\ RetOk' /\ HungOnce'
    BY <1>4 DEF PmuFlushed, TypeOK, WorkPcs, NoJob, IntBits, RegType, OneInterrupt, Pending,
        TdmaBusy, ClkBound, Resumes, ClkOn, WaitPcs, Steady, OnTrack, Desc, PmuTrack, Answering,
        RetOk, HungOnce
  <2> QED
    BY <2>1
<1> QED
  BY <1>1, <1>2, <1>3, <1>4

\* Processes, signals, and the next job.
LEMMA ProcessKeeps ==
    ASSUME HalInv, ~hung, CpuOn, Open \/ Close \/ Take \/ WaitInterrupted
    PROVE  HalInv'
<1> USE HalAssumption, JobType DEF HalInv, swVars, regVars, hwVars, histVars, vars
<1>1. CASE Open
  <2>1. TypeOK' /\ RegType' /\ OneInterrupt' /\ ClkBound' /\ ClkOn' /\ Steady' /\ OnTrack' /\
        PmuTrack' /\ Answering' /\ RetOk' /\ HungOnce'
    BY <1>1 DEF Open, TypeOK, RegType, WorkPcs, NoJob, IntBits, OneInterrupt, Pending, TdmaBusy,
        ClkBound, Resumes, ClkOn, WaitPcs, Steady, OnTrack, Desc, PmuTrack, Answering, RetOk,
        HungOnce
  <2> QED
    BY <2>1
<1>2. CASE Close
  <2>1. TypeOK' /\ RegType' /\ OneInterrupt' /\ ClkBound' /\ ClkOn' /\ OnTrack' /\ PmuTrack' /\
        Answering' /\ RetOk' /\ HungOnce'
    BY <1>2 DEF Close, TypeOK, RegType, WorkPcs, NoJob, IntBits, OneInterrupt, Pending, TdmaBusy,
        ClkBound, Resumes, ClkOn, WaitPcs, OnTrack, Desc, PmuTrack, Answering, RetOk, HungOnce
  <2>2. Steady'
    <3>1. CASE use_count = 1
      BY <1>2, <3>1 DEF Close, Steady
    <3>2. CASE use_count # 1
      <4>1. use_count' > 0 /\ (disturbed' => disturbed) /\ (disturbed => disturbed')
        BY <1>2, <3>2 DEF Close, TypeOK
      <4> QED
        BY <1>2, <4>1 DEF Close, Steady
    <3> QED
      BY <3>1, <3>2
  <2> QED
    BY <2>1, <2>2
<1>3. CASE Take
  <2>1. RegType' /\ OneInterrupt' /\ ClkBound' /\ ClkOn' /\ OnTrack' /\ PmuTrack' /\
        Answering' /\ RetOk' /\ HungOnce'
    BY <1>3 DEF Take, RegType, TypeOK, IntBits, WorkPcs, NoJob, OneInterrupt, Pending, TdmaBusy,
        ClkBound, Resumes, ClkOn, WaitPcs, OnTrack, Desc, PmuTrack, Answering, RetOk, HungOnce
  <2>2. TypeOK'
    <3>1. Len(job'.descs) \in Nat /\ job' \in Jobs
      BY <1>3 DEF Take
    <3>2. /\ wpc' \in WorkPcs /\ i' \in 0..(Len(job'.descs) + 1) /\ running_cnt' \in 0..1
          /\ ret' \in {"ok", "etimedout", "error"}
      BY <1>3, <3>1 DEF Take, WorkPcs
    <3>3. {hung', bad', disturbed', faulted'} \subseteq BOOLEAN
      <4>1. hung' \in BOOLEAN /\ bad' \in BOOLEAN /\ faulted' \in BOOLEAN
        BY <1>3 DEF Take, TypeOK
      <4>2. disturbed' \in BOOLEAN
        BY <1>3 DEF Take
      <4> QED
        BY <4>1, <4>2
    <3>4. UNCHANGED <<tdma_done, regVars, hwVars, use_count, clk, spc, sleeps, signals>>
      BY <1>3 DEF Take
    <3> QED
      BY <3>1, <3>2, <3>3, <3>4 DEF TypeOK
  <2>3. Steady'
    <3>1. disturbed' = TRUE \/ (use_count # 0 /\ spc = "awake")
      BY <1>3 DEF Take
    <3> QED
      BY <1>3, <3>1 DEF Take, Steady, TypeOK
  <2> QED
    BY <2>1, <2>2, <2>3
<1>4. CASE WaitInterrupted
  <2>1. TypeOK' /\ RegType' /\ OneInterrupt' /\ ClkBound' /\ ClkOn' /\ Steady' /\ OnTrack' /\
        PmuTrack' /\ Answering' /\ RetOk' /\ HungOnce'
    BY <1>4 DEF WaitInterrupted, TypeOK, RegType, WaitPcs, Finish, WorkPcs, NoJob, IntBits,
        OneInterrupt, Pending, TdmaBusy, ClkBound, Resumes, ClkOn, Steady, OnTrack, Desc, PmuTrack,
        Answering, RetOk, HungOnce
  <2> QED
    BY <2>1
<1> QED
  BY <1>1, <1>2, <1>3, <1>4

\* The interrupt handler.
LEMMA IrqKeeps ==
    ASSUME HalInv, ~hung, CpuOn, Irq \/ IrqHang
    PROVE  HalInv'
<1> USE HalAssumption, JobType DEF HalInv, swVars, regVars, hwVars, histVars, vars
<1>1. CASE Irq
  <2>1. OneInterrupt' /\ ClkBound' /\ ClkOn' /\ Steady' /\ OnTrack' /\ PmuTrack' /\ RetOk' /\
        HungOnce'
    BY <1>1 DEF Irq, OneInterrupt, CpuOn, Pending, TdmaBusy, ClkBound, Resumes, ClkOn, WaitPcs,
        Steady, OnTrack, Desc, PmuTrack, RetOk, HungOnce
  <2>2. TypeOK'
    BY <1>1 DEF Irq, TypeOK, OneInterrupt, Steady, CpuOn, WorkPcs, NoJob, IntBits, Pending, TdmaBusy
  <2>3. RegType'
    <3>1. backup' \in [id : Nat, tiu : {"off", "busy", "done"}, int : SUBSET IntBits]
      BY <1>1 DEF Irq, RegType, TypeOK
    <3> QED
      BY <1>1, <3>1 DEF Irq, RegType
  <2>4. Answering'
    BY <1>1 DEF Irq, Answering, TypeOK, OneInterrupt, CpuOn, WaitPcs, Pending, WorkPcs, NoJob,
        IntBits, TdmaBusy
  <2> QED
    BY <2>1, <2>2, <2>3, <2>4
<1>2. CASE IrqHang
  <2>1. TypeOK' /\ RegType' /\ OneInterrupt' /\ ClkBound' /\ ClkOn' /\ Steady' /\ OnTrack' /\
        PmuTrack' /\ Answering' /\ RetOk'
    BY <1>2 DEF IrqHang, TypeOK, CpuOn, WorkPcs, NoJob, IntBits, RegType, OneInterrupt, Pending,
        TdmaBusy, ClkBound, Resumes, ClkOn, WaitPcs, Steady, OnTrack, Desc, PmuTrack, Answering,
        RetOk
  <2>2. HungOnce'
    BY <1>2 DEF IrqHang, HungOnce, TypeOK, ClkOn, CpuOn, WorkPcs, NoJob, IntBits, Pending, WaitPcs,
        TdmaBusy
  <2> QED
    BY <2>1, <2>2
<1> QED
  BY <1>1, <1>2

\* The work thread.
LEMMA WorkKeeps ==
    ASSUME HalInv, ~hung, WorkStep
    PROVE  HalInv'
<1> USE HalAssumption, JobType DEF HalInv, swVars, regVars, hwVars, histVars, vars
<1>1. CASE RunInit /\ (TouchesRegister => clk > 0)
  <2>1. RegType' /\ OneInterrupt' /\ ClkOn' /\ Steady' /\ OnTrack' /\ PmuTrack' /\ RetOk' /\
        HungOnce'
    BY <1>1 DEF RunInit, RegType, TypeOK, HwReset, IntBits, WorkPcs, NoJob, TdmaOff, OneInterrupt,
        Pending, TdmaBusy, ClkOn, WaitPcs, Steady, OnTrack, Desc, PmuTrack, RetOk, HungOnce
  <2>2. ClkBound' /\ clk' \in 0..(MaxClk + sleeps')
    <3>1. wpc = "init" /\ wpc' # "init" /\ clk' = clk + 1 /\ UNCHANGED <<spc, sleeps>>
      BY <1>1 DEF RunInit, TypeOK
    <3>2. clk \in Nat /\ sleeps \in Nat /\ MaxClk \in Nat /\ Resumes \in Int /\ Resumes <= sleeps
      BY DEF TypeOK, Resumes
    <3>3. clk' <= Resumes + MaxClk /\ Resumes' = Resumes
      BY <3>1, <3>2 DEF ClkBound, Resumes
    <3> QED
      BY <3>1, <3>2, <3>3 DEF ClkBound
  <2>3. TypeOK'
    <3>1. wpc' \in WorkPcs
      BY <1>1 DEF RunInit, WorkPcs, TypeOK
    <3>2. tdma'.left \in Nat /\ tdma'.id \in Nat
      BY <1>1 DEF RunInit, HwReset, TdmaOff
    <3> QED
      BY <1>1, <2>2, <3>1, <3>2 DEF RunInit, HwReset, TypeOK
  <2>4. Answering'
    BY <1>1 DEF RunInit, Answering, TypeOK, RetOk, HwReset, WaitPcs, Pending, WorkPcs, NoJob,
        IntBits, TdmaOff, TdmaBusy
  <2> QED
    BY <2>1, <2>2, <2>3, <2>4
<1>2. CASE RunBegin /\ (TouchesRegister => clk > 0)
  <2>1. RegType' /\ OneInterrupt' /\ ClkBound' /\ ClkOn' /\ Steady' /\ OnTrack' /\ PmuTrack' /\
        Answering' /\ RetOk' /\ HungOnce'
    BY <1>2 DEF RunBegin, RegType, IntBits, OneInterrupt, Pending, TdmaBusy, ClkBound, Resumes,
        ClkOn, WaitPcs, Steady, OnTrack, Desc, PmuTrack, Answering, RetOk, HungOnce
  <2>2. TypeOK'
    <3>1. i' \in 0..(Len(job'.descs) + 1)
      BY <1>2 DEF RunBegin, TypeOK
    <3> QED
      BY <1>2, <3>1, ZenonT(60) DEF RunBegin, TypeOK, WorkPcs
  <2> QED
    BY <2>1, <2>2
<1>3. CASE RunBadMagic /\ (TouchesRegister => clk > 0)
  <2>1. TypeOK' /\ RegType' /\ OneInterrupt' /\ ClkBound' /\ ClkOn' /\ Steady' /\ OnTrack' /\
        PmuTrack' /\ Answering' /\ RetOk' /\ HungOnce'
    BY <1>3 DEF RunBadMagic, TypeOK, Finish, WorkPcs, NoJob, IntBits, RegType, OneInterrupt,
        Pending, TdmaBusy, ClkBound, Resumes, ClkOn, WaitPcs, Steady, OnTrack, Desc, PmuTrack,
        Answering, RetOk, HungOnce
  <2> QED
    BY <2>1
<1>4. CASE DescReinit /\ (TouchesRegister => clk > 0)
  <2>1. TypeOK' /\ RegType' /\ OneInterrupt' /\ ClkBound' /\ ClkOn' /\ Steady' /\ OnTrack' /\
        PmuTrack' /\ Answering' /\ RetOk' /\ HungOnce'
    BY <1>4 DEF DescReinit, TypeOK, WorkPcs, NoJob, IntBits, RegType, OneInterrupt, Pending,
        TdmaBusy, ClkBound, Resumes, ClkOn, WaitPcs, Steady, OnTrack, Desc, PmuTrack, Answering,
        RetOk, HungOnce
  <2> QED
    BY <2>1
<1>5. CASE DescsDone /\ (TouchesRegister => clk > 0)
  <2>1. TypeOK' /\ RegType' /\ OneInterrupt' /\ ClkBound' /\ ClkOn' /\ Steady' /\ OnTrack' /\
        PmuTrack' /\ Answering' /\ RetOk' /\ HungOnce'
    BY <1>5 DEF DescsDone, TypeOK, Finish, WorkPcs, NoJob, IntBits, RegType, OneInterrupt, Pending,
        TdmaBusy, ClkBound, Resumes, ClkOn, WaitPcs, Steady, OnTrack, Desc, PmuTrack, Answering,
        RetOk, HungOnce
  <2> QED
    BY <2>1
<1>6. CASE DescFire /\ (TouchesRegister => clk > 0)
  <2>1. OneInterrupt' /\ ClkBound' /\ ClkOn' /\ Steady' /\ PmuTrack' /\ Answering' /\ RetOk' /\
        HungOnce'
    BY <1>6 DEF DescFire, OneInterrupt, set_tiu_descriptor, Desc, set_tdma_descriptor_Fire,
        resync_cmd_id, Pending, TdmaBusy, TdmaOff, ClkBound, Resumes, ClkOn, WaitPcs, Steady,
        PmuTrack, Answering, RetOk, HungOnce
  <2>2. TypeOK'
    <3>1. Desc.tdma \in Nat
      BY <1>6 DEF DescFire, RegType, Desc, TypeOK
    <3>2. tdma' \in [on : BOOLEAN, left : Nat, id : Nat, err : BOOLEAN]
      BY <1>6, <3>1 DEF DescFire, set_tdma_descriptor_Fire, resync_cmd_id, TdmaOff
    <3> QED
      BY <1>6, <3>2 DEF DescFire, set_tiu_descriptor, resync_cmd_id, TypeOK, WorkPcs
  <2>3. RegType'
    <3>1. Desc.tdma \in Nat
      BY <1>6 DEF DescFire, RegType, Desc, TypeOK
    <3>2. tdma' \in [on : BOOLEAN, left : Nat, id : Nat, err : BOOLEAN]
      BY <1>6, <3>1 DEF DescFire, set_tdma_descriptor_Fire, resync_cmd_id, TdmaOff
    <3> QED
      BY <1>6, <3>2 DEF DescFire, RegType
  <2>4. OnTrack'
    <3>1. Desc.tdma \in Nat /\ Desc.bd \in Nat /\ Desc' = Desc
      BY <1>6 DEF DescFire, RegType, Desc, TypeOK
    <3>2. CASE Desc.tdma > 0
      <4>1. /\ tdma'.on /\ tdma'.left = Desc.tdma /\ tdma'.id = 0 /\ ~ tdma'.err /\ wpc' = "wait"
            /\ tdma_done' = 0
        BY <1>6, <3>2 DEF DescFire, set_tdma_descriptor_Fire, resync_cmd_id, TdmaOff, OneInterrupt
      <4>2. Desc.bd > 0 => tiu' = "busy"
        BY <1>6 DEF DescFire, set_tiu_descriptor
      <4>3. tdma'.id + tdma'.left = Desc.tdma
        BY <3>1, <4>1
      <4> QED
        BY <3>1, <4>1, <4>2, <4>3 DEF OnTrack
    <3>3. CASE ~ (Desc.tdma > 0)
      <4>1. wpc' = "poll" /\ (Desc.bd > 0 => tiu' = "busy")
        BY <1>6, <3>3 DEF DescFire, set_tiu_descriptor
      <4> QED
        BY <3>1, <3>3, <4>1 DEF OnTrack
    <3> QED
      BY <3>2, <3>3
  <2> QED
    BY <2>1, <2>2, <2>3, <2>4
<1>7. CASE DescWait /\ (TouchesRegister => clk > 0)
  <2>1. TypeOK' /\ RegType' /\ OneInterrupt' /\ ClkBound' /\ Steady' /\ OnTrack' /\ PmuTrack' /\
        Answering' /\ RetOk' /\ HungOnce'
    BY <1>7, SMTT(30) DEF DescWait, TypeOK, RegType, Waited, WorkPcs, NoJob, IntBits, OneInterrupt, Pending,
        TdmaBusy, ClkBound, Resumes, Steady, OnTrack, Desc, PmuTrack, Answering, WaitPcs, RetOk,
        HungOnce
  <2>2. ClkOn'
    BY <1>7 DEF DescWait, ClkOn, TypeOK, OneInterrupt, Waited, Pending, WaitPcs, WorkPcs, NoJob,
        IntBits, TdmaBusy
  <2> QED
    BY <2>1, <2>2
<1>8. CASE PollDone /\ (TouchesRegister => clk > 0)
  <2>1. TypeOK' /\ RegType' /\ OneInterrupt' /\ ClkBound' /\ ClkOn' /\ OnTrack' /\ PmuTrack' /\
        Answering' /\ RetOk' /\ HungOnce'
    BY <1>8, SMTT(30) DEF PollDone, TypeOK, RegType, TdmaIdShort, TiuReady, NextDesc, WorkPcs, NoJob, IntBits,
        Desc, TdmaFinished, OneInterrupt, Pending, TdmaBusy, ClkBound, Resumes, ClkOn, WaitPcs,
        OnTrack, PmuTrack, Answering, RetOk, HungOnce
  <2>2. Steady'
    <3>1. Desc.tdma \in Nat /\ Desc.bd \in Nat
      BY <1>8 DEF PollDone, RegType, Desc, TypeOK
    <3>2. ASSUME ~ disturbed, Desc.tdma > 0 PROVE TdmaFinished
      <4>1. /\ tdma.on /\ tdma.id + tdma.left = Desc.tdma /\ backup.id = tdma.id
            /\ ~ (backup.id < Desc.tdma) /\ tdma.left \in Nat /\ tdma.id \in Nat
        BY <1>8, <3>2 DEF PollDone, OnTrack, TdmaIdShort, RegType
      <4>2. tdma.left = 0
        BY <3>1, <4>1
      <4> QED
        BY <4>1, <4>2 DEF TdmaFinished
    <3>3. Desc.bd > 0 => tiu = "done"
      BY <1>8, <3>1 DEF PollDone, TiuReady
    <3>4. wpc = "poll" /\ wpc' = "desc" /\ UNCHANGED <<disturbed, spc, use_count, handle_int>>
      BY <1>8 DEF PollDone, NextDesc
    <3>5. ~ disturbed => ~ bad'
      BY <1>8, <3>2, <3>3, <3>4 DEF PollDone, NextDesc, Steady
    <3> QED
      BY <3>4, <3>5 DEF Steady
  <2> QED
    BY <2>1, <2>2
<1>9. CASE PollFails /\ (TouchesRegister => clk > 0)
  <2>1. TypeOK' /\ RegType' /\ OneInterrupt' /\ ClkBound' /\ ClkOn' /\ Steady' /\ OnTrack' /\
        PmuTrack' /\ RetOk' /\ HungOnce'
    BY <1>9, SMTT(30) DEF PollFails, TypeOK, TdmaIdShort, TiuReady, HwActive, Finish, WorkPcs, NoJob, IntBits,
        Desc, TdmaBusy, RegType, OneInterrupt, Pending, ClkBound, Resumes, ClkOn, WaitPcs, Steady,
        OnTrack, PmuTrack, RetOk, HungOnce
  <2>2. Answering'
    BY <1>9, SMTT(30) DEF PollFails, Answering, TypeOK, RegType, OneInterrupt, Steady, OnTrack, PmuTrack,
        RetOk, HungOnce, TdmaIdShort, TiuReady, HwActive, Finish, WaitPcs, Pending, WorkPcs, NoJob,
        IntBits, TdmaBusy, Desc
  <2> QED
    BY <2>1, <2>2
<1>10. CASE PollSkipped /\ (TouchesRegister => clk > 0)
  <2>1. TypeOK' /\ RegType' /\ OneInterrupt' /\ ClkBound' /\ ClkOn' /\ OnTrack' /\ PmuTrack' /\
        Answering' /\ RetOk' /\ HungOnce'
    BY <1>10, SMTT(30) DEF PollSkipped, TypeOK, RegType, NextDesc, WorkPcs, NoJob, IntBits, Desc,
        TdmaFinished, OneInterrupt, Pending, TdmaBusy, ClkBound, Resumes, ClkOn, WaitPcs, OnTrack,
        PmuTrack, Answering, RetOk, HungOnce
  <2>2. Steady'
    <3>1. wpc = "poll" /\ handle_int /\ wpc' = "desc" /\ disturbed' = disturbed /\ UNCHANGED job
      BY <1>10 DEF PollSkipped, NextDesc
    <3>2. disturbed'
      BY <3>1 DEF Steady
    <3> QED
      BY <3>2 DEF Steady
  <2> QED
    BY <2>1, <2>2
<1>11. CASE PmuReinit /\ (TouchesRegister => clk > 0)
  <2>1. TypeOK' /\ RegType' /\ OneInterrupt' /\ ClkBound' /\ ClkOn' /\ Steady' /\ OnTrack' /\
        PmuTrack' /\ Answering' /\ RetOk' /\ HungOnce'
    BY <1>11 DEF PmuReinit, TypeOK, WorkPcs, NoJob, IntBits, RegType, OneInterrupt, Pending,
        TdmaBusy, ClkBound, Resumes, ClkOn, WaitPcs, Steady, OnTrack, Desc, PmuTrack, Answering,
        RetOk, HungOnce
  <2> QED
    BY <2>1
<1>12. CASE PmuOff /\ (TouchesRegister => clk > 0)
  <2>1. TypeOK' /\ RegType' /\ OneInterrupt' /\ ClkBound' /\ ClkOn' /\ Steady' /\ OnTrack' /\
        RetOk' /\ HungOnce'
    BY <1>12 DEF PmuOff, TypeOK, Finish, WorkPcs, NoJob, IntBits, RegType, OneInterrupt, Pending,
        TdmaBusy, ClkBound, Resumes, ClkOn, WaitPcs, Steady, OnTrack, Desc, RetOk, HungOnce
  <2>2. PmuTrack'
    <3>1. wpc = "pmuoff" /\ disturbed' = disturbed
      BY <1>12 DEF PmuOff
    <3>2. ~ disturbed => wpc' = "pmuwait" /\ pmu' = "flush"
      BY <1>12, <3>1 DEF PmuOff, PmuTrack, Steady
    <3> QED
      BY <3>1, <3>2 DEF PmuTrack
  <2>3. Answering'
    BY <1>12 DEF PmuOff, Answering, PmuTrack, Finish, WaitPcs, Pending, TdmaBusy
  <2> QED
    BY <2>1, <2>2, <2>3
<1>13. CASE PmuWait /\ (TouchesRegister => clk > 0)
  <2>1. TypeOK' /\ RegType' /\ OneInterrupt' /\ ClkBound' /\ Steady' /\ OnTrack' /\
        Answering' /\ RetOk' /\ HungOnce'
    BY <1>13 DEF PmuWait, TypeOK, RegType, Waited, Finish, WorkPcs, NoJob, IntBits, OneInterrupt,
        Pending, TdmaBusy, ClkBound, Resumes, Steady, OnTrack, Desc, Answering, WaitPcs, RetOk,
        HungOnce
  <2>2. ClkOn'
    BY <1>13 DEF PmuWait, ClkOn, TypeOK, OneInterrupt, Waited, Finish, Pending, WaitPcs, WorkPcs,
        NoJob, IntBits, TdmaBusy
  <2>3. PmuTrack'
    BY <1>13 DEF PmuWait, PmuTrack, TypeOK, OneInterrupt, Waited, Finish, WorkPcs, NoJob, IntBits,
        Pending, TdmaBusy
  <2> QED
    BY <2>1, <2>2, <2>3
<1>14. CASE PioReinit /\ (TouchesRegister => clk > 0)
  <2>1. TypeOK' /\ RegType' /\ OneInterrupt' /\ ClkBound' /\ ClkOn' /\ Steady' /\ OnTrack' /\
        PmuTrack' /\ Answering' /\ RetOk' /\ HungOnce'
    BY <1>14 DEF PioReinit, TypeOK, WorkPcs, NoJob, IntBits, RegType, OneInterrupt, Pending,
        TdmaBusy, ClkBound, Resumes, ClkOn, WaitPcs, Steady, OnTrack, Desc, PmuTrack, Answering,
        RetOk, HungOnce
  <2> QED
    BY <2>1
<1>15. CASE PioFire /\ (TouchesRegister => clk > 0)
  <2>1. tdma' \in [on : BOOLEAN, left : Nat, id : Nat, err : BOOLEAN] /\ TdmaBusy' /\ tdma'.on /\ ~ tdma'.err
    <3>1. tdma' = [on |-> TRUE, left |-> 1, id |-> 0, err |-> FALSE]
      BY <1>15 DEF PioFire, resync_cmd_id, TdmaOff
    <3> QED
      BY <3>1 DEF TdmaBusy
  <2>2. TypeOK' /\ RegType'
    BY <1>15, <2>1, ZenonT(60) DEF PioFire, resync_cmd_id, TypeOK, RegType, WorkPcs
  <2>3. OneInterrupt'
    BY <1>15 DEF PioFire, resync_cmd_id, OneInterrupt, Pending
  <2>4. ClkBound' /\ ClkOn'
    BY <1>15 DEF PioFire, ClkBound, ClkOn, Resumes, WaitPcs
  <2>5. Steady' /\ PmuTrack' /\ RetOk' /\ HungOnce'
    BY <1>15 DEF PioFire, Steady, PmuTrack, RetOk, HungOnce
  <2>6. OnTrack' /\ Answering'
    BY <1>15, <2>1 DEF PioFire, OnTrack, Answering, Pending
  <2> QED
    BY <2>2, <2>3, <2>4, <2>5, <2>6
<1>16. CASE PioWait /\ (TouchesRegister => clk > 0)
  <2>1. TypeOK' /\ RegType' /\ OneInterrupt' /\ ClkBound' /\ Steady' /\ OnTrack' /\ PmuTrack' /\
        Answering' /\ RetOk' /\ HungOnce'
    BY <1>16 DEF PioWait, TypeOK, RegType, Waited, Finish, WorkPcs, NoJob, IntBits, OneInterrupt,
        Pending, TdmaBusy, ClkBound, Resumes, Steady, OnTrack, Desc, PmuTrack, Answering, WaitPcs,
        RetOk, HungOnce
  <2>2. ClkOn'
    BY <1>16 DEF PioWait, ClkOn, TypeOK, OneInterrupt, Waited, Finish, Pending, WaitPcs, WorkPcs,
        NoJob, IntBits, TdmaBusy
  <2> QED
    BY <2>1, <2>2
<1>17. CASE WaitExpires /\ (TouchesRegister => clk > 0)
  <2>1. TypeOK' /\ RegType' /\ OneInterrupt' /\ ClkBound' /\ ClkOn' /\ Steady' /\ OnTrack' /\
        PmuTrack' /\ RetOk' /\ HungOnce'
    BY <1>17 DEF WaitExpires, TypeOK, WaitPcs, HwActive, Finish, WorkPcs, NoJob, IntBits, TdmaBusy,
        RegType, OneInterrupt, Pending, ClkBound, Resumes, ClkOn, Steady, OnTrack, Desc, PmuTrack,
        RetOk, HungOnce
  <2>2. Answering'
    BY <1>17 DEF WaitExpires, Answering, TypeOK, Steady, WaitPcs, HwActive, Finish, Pending,
        WorkPcs, NoJob, IntBits, TdmaBusy
  <2> QED
    BY <2>1, <2>2
<1>18. CASE RunEnd /\ (TouchesRegister => clk > 0)
  <2>1. OneInterrupt' /\ ClkBound' /\ ClkOn' /\ Steady' /\ OnTrack' /\ PmuTrack' /\
        Answering' /\ RetOk' /\ HungOnce'
    BY <1>18 DEF RunEnd, OneInterrupt, TypeOK, RegType, HwReset, ClkDisable, Pending, TdmaBusy,
        WorkPcs, NoJob, IntBits, TdmaOff, ClkBound, Resumes, ClkOn, WaitPcs, Steady, OnTrack, Desc,
        PmuTrack, Answering, RetOk, HungOnce
  <2>2. TypeOK'
    <3>1. tdma' \in [on : BOOLEAN, left : Nat, id : Nat, err : BOOLEAN]
      <4>1. tdma' = TdmaOff \/ tdma' = tdma
        BY <1>18 DEF RunEnd, HwReset
      <4> QED
        BY <4>1, TdmaOffType DEF RegType
    <3>2. tiu' \in {"off", "busy", "done"} /\ pmu' \in {"off", "on", "flush"} /\ int' \subseteq IntBits
      BY <1>18 DEF RunEnd, HwReset, TypeOK
    <3>3. clk' \in 0..(MaxClk + sleeps')
      BY <1>18 DEF RunEnd, ClkDisable, TypeOK
    <3> QED
      BY <1>18, <3>1, <3>2, <3>3 DEF RunEnd, TypeOK, WorkPcs
  <2>3. RegType'
    <3>1. tdma' \in [on : BOOLEAN, left : Nat, id : Nat, err : BOOLEAN]
      <4>1. tdma' = TdmaOff \/ tdma' = tdma
        BY <1>18 DEF RunEnd, HwReset
      <4> QED
        BY <4>1, TdmaOffType DEF RegType
    <3> QED
      BY <1>18, <3>1 DEF RunEnd, RegType
  <2> QED
    BY <2>1, <2>2, <2>3
<1>19. CASE RunAfter /\ (TouchesRegister => clk > 0)
  <2>1. TypeOK' /\ RegType' /\ OneInterrupt' /\ ClkBound' /\ ClkOn' /\ Steady' /\ OnTrack' /\
        PmuTrack' /\ Answering' /\ RetOk' /\ HungOnce'
    BY <1>19 DEF RunAfter, TypeOK, NoJob, WorkPcs, IntBits, RegType, OneInterrupt, Pending,
        TdmaBusy, ClkBound, Resumes, ClkOn, WaitPcs, Steady, OnTrack, Desc, PmuTrack, Answering,
        RetOk, HungOnce
  <2> QED
    BY <2>1
<1>20. CASE WorkHang
  <2>1. TypeOK' /\ RegType' /\ OneInterrupt' /\ ClkBound' /\ ClkOn' /\ Steady' /\ OnTrack' /\
        PmuTrack' /\ Answering' /\ RetOk'
    BY <1>20, SMTT(30) DEF WorkHang, TypeOK, TouchesRegister, WorkPcs, NoJob, IntBits, Desc, RegType,
        OneInterrupt, Pending, TdmaBusy, ClkBound, Resumes, ClkOn, WaitPcs, Steady, OnTrack,
        PmuTrack, Answering, RetOk
  <2>2. HungOnce'
    BY <1>20, SMTT(30) DEF WorkHang, HungOnce, TypeOK, ClkOn, TouchesRegister, WorkPcs, NoJob, IntBits,
        Pending, WaitPcs, Desc, TdmaBusy
  <2> QED
    BY <2>1, <2>2
<1> QED
  BY <1>1, <1>2, <1>3, <1>4, <1>5, <1>6, <1>7, <1>8, <1>9, <1>10, <1>11, <1>12, <1>13, <1>14, <1>15,
        <1>16, <1>17, <1>18, <1>19, <1>20 DEF WorkStep

\* Suspend and resume.
LEMMA SuspendKeeps ==
    ASSUME HalInv, ~hung, SuspendBegin \/ SuspendStep
    PROVE  HalInv'
<1> USE HalAssumption, JobType DEF HalInv, swVars, regVars, hwVars, histVars, vars
<1>1. CASE SuspendBegin
  <2>1. TypeOK' /\ RegType' /\ OneInterrupt' /\ ClkBound' /\ ClkOn' /\ Steady' /\ OnTrack' /\
        PmuTrack' /\ Answering' /\ RetOk' /\ HungOnce'
    BY <1>1 DEF SuspendBegin, TypeOK, RegType, WorkPcs, NoJob, IntBits, OneInterrupt, Pending,
        TdmaBusy, ClkBound, Resumes, ClkOn, WaitPcs, Steady, OnTrack, Desc, PmuTrack, Answering,
        RetOk, HungOnce
  <2> QED
    BY <2>1
<1>2. CASE SuspendSave
  <2>1. TypeOK' /\ RegType' /\ OneInterrupt' /\ ClkBound' /\ ClkOn' /\ Steady' /\ OnTrack' /\
        PmuTrack' /\ Answering' /\ RetOk' /\ HungOnce'
    BY <1>2 DEF SuspendSave, TypeOK, RegType, SavedRegs, WorkPcs, NoJob, IntBits, OneInterrupt,
        Pending, TdmaBusy, ClkBound, Resumes, ClkOn, WaitPcs, Steady, OnTrack, Desc, PmuTrack,
        Answering, RetOk, HungOnce
  <2> QED
    BY <2>1
<1>3. CASE SuspendPollExpires
  <2>1. TypeOK' /\ RegType' /\ OneInterrupt' /\ ClkBound' /\ Steady' /\ OnTrack' /\ PmuTrack' /\
        Answering' /\ RetOk' /\ HungOnce'
    BY <1>3 DEF SuspendPollExpires, TypeOK, RegType, SavedRegs, WorkPcs, NoJob, IntBits,
        OneInterrupt, Pending, TdmaBusy, ClkBound, Resumes, Steady, OnTrack, Desc, PmuTrack,
        Answering, WaitPcs, RetOk, HungOnce
  <2>2. ClkOn'
    BY <1>3 DEF SuspendPollExpires, ClkOn, ClkBound, SavedRegs, Pending, WaitPcs, Resumes, TdmaBusy
  <2> QED
    BY <2>1, <2>2
<1>4. CASE SuspendHang
  <2>1. TypeOK' /\ RegType' /\ OneInterrupt' /\ ClkBound' /\ ClkOn' /\ Steady' /\ OnTrack' /\
        PmuTrack' /\ Answering' /\ RetOk'
    BY <1>4 DEF SuspendHang, TypeOK, WorkPcs, NoJob, IntBits, RegType, OneInterrupt, Pending,
        TdmaBusy, ClkBound, Resumes, ClkOn, WaitPcs, Steady, OnTrack, Desc, PmuTrack, Answering,
        RetOk
  <2>2. HungOnce'
    BY <1>4 DEF SuspendHang, HungOnce, ClkBound, Resumes
  <2> QED
    BY <2>1, <2>2
<1>5. CASE SuspendClkOff
  <2>1. TypeOK' /\ RegType' /\ OneInterrupt' /\ ClkBound' /\ Steady' /\ OnTrack' /\ PmuTrack' /\
        Answering' /\ RetOk' /\ HungOnce'
    BY <1>5 DEF SuspendClkOff, TypeOK, RegType, ClkDisable, WorkPcs, NoJob, IntBits, OneInterrupt,
        Pending, TdmaBusy, ClkBound, Resumes, Steady, OnTrack, Desc, PmuTrack, Answering, WaitPcs,
        RetOk, HungOnce
  <2>2. ClkOn'
    BY <1>5 DEF SuspendClkOff, ClkOn, ClkBound, ClkDisable, Pending, WaitPcs, Resumes, TdmaBusy
  <2> QED
    BY <2>1, <2>2
<1>6. CASE Sleep
  <2>1. OneInterrupt' /\ ClkBound' /\ ClkOn' /\ Steady' /\ RetOk' /\ HungOnce'
    BY <1>6 DEF Sleep, OneInterrupt, HwReset, Pending, TdmaBusy, TdmaOff, ClkBound, Resumes, ClkOn,
        WaitPcs, Steady, RetOk, HungOnce
  <2>2. TypeOK'
    <3>1. tdma' \in [on : BOOLEAN, left : Nat, id : Nat, err : BOOLEAN]
      <4>1. tdma' = TdmaOff \/ tdma' = tdma
        BY <1>6 DEF Sleep, HwReset
      <4> QED
        BY <4>1, TdmaOffType DEF RegType
    <3>2. tiu' \in {"off", "busy", "done"} /\ pmu' \in {"off", "on", "flush"} /\ int' \subseteq IntBits
      BY <1>6 DEF Sleep, HwReset, TypeOK
    <3> QED
      BY <1>6, <3>1, <3>2 DEF Sleep, TypeOK
  <2>3. RegType'
    <3>1. tdma' \in [on : BOOLEAN, left : Nat, id : Nat, err : BOOLEAN]
      <4>1. tdma' = TdmaOff \/ tdma' = tdma
        BY <1>6 DEF Sleep, HwReset
      <4> QED
        BY <4>1, TdmaOffType DEF RegType
    <3> QED
      BY <1>6, <3>1 DEF Sleep, RegType
  <2>4. OnTrack'
    BY <1>6 DEF Sleep, OnTrack, Steady, HwReset, Desc, TdmaOff
  <2>5. PmuTrack'
    BY <1>6 DEF Sleep, PmuTrack, Steady, HwReset, TdmaOff
  <2>6. Answering'
    BY <1>6 DEF Sleep, Answering, Steady, HwReset, WaitPcs, Pending, TdmaOff, TdmaBusy
  <2> QED
    BY <2>1, <2>2, <2>3, <2>4, <2>5, <2>6
<1>7. CASE Wake
  <2>1. TypeOK' /\ RegType' /\ OneInterrupt' /\ ClkBound' /\ ClkOn' /\ Steady' /\ OnTrack' /\
        PmuTrack' /\ Answering' /\ RetOk' /\ HungOnce'
    BY <1>7 DEF Wake, TypeOK, WorkPcs, NoJob, IntBits, RegType, OneInterrupt, Pending, TdmaBusy,
        ClkBound, Resumes, ClkOn, WaitPcs, Steady, OnTrack, Desc, PmuTrack, Answering, RetOk,
        HungOnce
  <2> QED
    BY <2>1
<1>8. CASE Resume
  <2>1. ClkBound' /\ clk' \in 0..(MaxClk + sleeps')
    <3>1. /\ spc = "resuming" /\ spc' = "awake" /\ (clk' = clk + 1 \/ clk' = clk)
          /\ UNCHANGED <<wpc, sleeps>>
      BY <1>8 DEF Resume
    <3>2. clk \in Nat /\ sleeps \in Nat /\ MaxClk \in Nat
      BY DEF TypeOK
    <3>3. Resumes = sleeps - 1 /\ Resumes' = sleeps
      BY <3>1 DEF Resumes
    <3> QED
      BY <3>1, <3>2, <3>3 DEF ClkBound
  <2>2. RegType' /\ TypeOK'
    <3>1. tdma' \in [on : BOOLEAN, left : Nat, id : Nat, err : BOOLEAN]
      BY <1>8 DEF Resume, RegType
    <3>2. tiu' \in {"off", "busy", "done"} /\ pmu' \in {"off", "on", "flush"} /\ int' \subseteq IntBits
      BY <1>8 DEF Resume, TypeOK
    <3> QED
      BY <1>8, <2>1, <3>1, <3>2 DEF Resume, RegType, TypeOK
  <2>3. OneInterrupt'
    <3>1. int' \subseteq int /\ pmu' = pmu /\ (TdmaBusy' <=> TdmaBusy)
      BY <1>8 DEF Resume, TdmaBusy, RegType
    <3>2. UNCHANGED <<wpc, tdma_done>>
      BY <1>8 DEF Resume
    <3>3. Pending' => Pending
      BY <3>1 DEF Pending
    <3> QED
      BY <3>1, <3>2, <3>3 DEF OneInterrupt
  <2>4. ClkOn'
    BY <1>8 DEF Resume, ClkOn, ClkBound, Pending, WaitPcs, Resumes, TdmaBusy
  <2>5. OnTrack'
    BY <1>8 DEF Resume, OnTrack, Steady, Desc
  <2>6. Answering'
    BY <1>8 DEF Resume, Answering, Steady, WaitPcs, Pending, TdmaBusy
  <2>7. Steady' /\ PmuTrack' /\ RetOk' /\ HungOnce'
    BY <1>8 DEF Resume, Steady, PmuTrack, RetOk, HungOnce
  <2> QED
    BY <2>1, <2>2, <2>3, <2>4, <2>5, <2>6, <2>7
<1> QED
  BY <1>1, <1>2, <1>3, <1>4, <1>5, <1>6, <1>7, <1>8 DEF SuspendStep

-----------------------------------------------------------------------------
(* The theorems *)

LEMMA HalInit == Init => HalInv
<1> SUFFICES ASSUME Init PROVE HalInv
  OBVIOUS
<1> USE HalAssumption DEF Init
<1>1. TypeOK
  <2>1. Len(job.descs) \in Nat
    BY JobType
  <2>2. backup.id \in Nat /\ backup.tiu \in {"off", "busy", "done"} /\ backup.int \subseteq IntBits
    BY DEF NoRegs
  <2>3. tdma.left \in Nat /\ tdma.id \in Nat
    BY DEF TdmaOff
  <2>4. {hung, bad, disturbed, faulted} \subseteq BOOLEAN
    OBVIOUS
  <2>5. /\ i \in 0..(Len(job.descs) + 1) /\ tdma_done \in 0..1 /\ running_cnt \in 0..1
        /\ use_count \in 0..MaxOpen /\ clk \in 0..(MaxClk + sleeps)
        /\ sleeps \in 0..MaxSleeps /\ signals \in 0..MaxSignals
    BY <2>1
  <2>6. /\ wpc \in WorkPcs /\ job \in Jobs \cup {NoJob} /\ ret \in {"ok", "etimedout", "error"}
        /\ sync_backup \in BOOLEAN /\ handle_int \in BOOLEAN
    BY DEF WorkPcs
  <2> QED
    BY <2>2, <2>3, <2>4, <2>5, <2>6 DEF TypeOK
<1>2. RegType
  BY DEF RegType, NoRegs, TdmaOff
<1>3. OneInterrupt
  BY DEF OneInterrupt, Pending, TdmaBusy, TdmaOff
<1>4. ClkBound /\ ClkOn
  BY DEF ClkBound, ClkOn, Resumes, Pending, TdmaBusy, TdmaOff
<1>5. Steady /\ OnTrack /\ PmuTrack /\ Answering /\ RetOk /\ HungOnce
  BY DEF Steady, OnTrack, PmuTrack, Answering, RetOk, HungOnce
<1> QED
  BY <1>1, <1>2, <1>3, <1>4, <1>5 DEF HalInv

LEMMA HalStep == HalInv /\ [Next]_vars => HalInv'
<1> SUFFICES ASSUME HalInv, [Next]_vars PROVE HalInv'
  OBVIOUS
<1>1. CASE ~ hung /\ HwStep
  BY <1>1, HwKeeps DEF HwStep
<1>2. CASE ~ hung /\ (Irq \/ IrqHang)
  BY <1>2, IrqKeeps DEF Irq, IrqHang
<1>3. CASE ~ hung /\ CpuOn /\ (Open \/ Close \/ Take \/ WaitInterrupted)
  BY <1>3, ProcessKeeps
<1>4. CASE ~ hung /\ WorkStep
  BY <1>4, WorkKeeps
<1>5. CASE ~ hung /\ (SuspendBegin \/ SuspendStep)
  BY <1>5, SuspendKeeps
<1>6. CASE UNCHANGED vars
  <2> USE <1>6 DEF vars, swVars, regVars, hwVars, histVars, HalInv
  <2>1. TypeOK' /\ RegType' /\ OneInterrupt'
    BY DEF TypeOK, RegType, OneInterrupt, Pending, TdmaBusy
  <2>2. ClkBound' /\ ClkOn' /\ Steady' /\ RetOk' /\ HungOnce'
    BY DEF ClkBound, ClkOn, Steady, RetOk, HungOnce, Resumes, Pending, TdmaBusy
  <2>3. OnTrack' /\ PmuTrack' /\ Answering'
    BY DEF OnTrack, PmuTrack, Answering, Desc, Pending, TdmaBusy
  <2> QED
    BY <2>1, <2>2, <2>3
<1> QED
  BY <1>1, <1>2, <1>3, <1>4, <1>5, <1>6 DEF Next, Hung

LEMMA HalInvariant == Spec => []HalInv
  BY HalInit, HalStep, PTL DEF Spec

\* Until the first suspend or signal every register access finds the clocks on,
\* however late an interrupt is and however a job ends; the counts keep to their
\* ranges always.
THEOREM BusSafe == Spec => []BusInv
<1>1. HalInv => BusInv
  BY DEF HalInv, BusInv, NoBusHang, HungOnce
<1> QED
  BY <1>1, HalInvariant, PTL

\* No late or error interrupt passes for the completion of a descriptor.
THEOREM SuccessIsReal == Spec => []NoFalseSuccess
<1>1. HalInv => NoFalseSuccess
  BY DEF HalInv, NoFalseSuccess, Steady
<1> QED
  BY <1>1, HalInvariant, PTL

\* A profiled job returns 0 only after the PMU has flushed its buffer.
THEOREM PmuFlushedBefore == Spec => []PmuComplete
<1>1. HalInv => PmuComplete
  BY DEF HalInv, PmuComplete, PmuTrack
<1> QED
  BY <1>1, HalInvariant, PTL

\* No completion is lost between programming an engine and waiting for it: an
\* undisturbed run on engines that work returns 0.
THEOREM HealthyRunsSucceed == Spec => []HealthySucceeds
<1>1. HalInv => HealthySucceeds
  BY DEF HalInv, HealthySucceeds, Answering
<1> QED
  BY <1>1, HalInvariant, PTL

=============================================================================
