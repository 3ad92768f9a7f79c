-------------------------------- MODULE TpuHal --------------------------------
(***************************************************************************)
(* One job of the TPU driver on the hardware                               *)
(* (src/cvitek-tpu-vendor/hal/mars/tpu_platform.c, with the interrupt      *)
(* handler, the open count and the suspend hooks of                        *)
(* common/cvi_tpu_interface.c).                                            *)
(*                                                                         *)
(* Four actors: the work thread that programs the engines and waits, the   *)
(* interrupt handler, the suspend/resume callbacks (the work thread is not *)
(* freezable and runs on beside them), and the hardware itself, which is   *)
(* external and known only through the registers the driver uses: TDMA     *)
(* counts finished commands and raises an interrupt at the end of its      *)
(* descriptor list or on an error, TIU sets a done bit, the PMU raises an  *)
(* interrupt when it has been switched off and has flushed its buffer.     *)
(* Touching a register with the clocks off hangs the bus.                  *)
(***************************************************************************)
EXTENDS Integers, Sequences, FiniteSets

CONSTANTS
    Jobs,       \* the jobs the queue hands down
    MaxOpen,    \* bound: processes that hold the device open
    MaxClk,     \* bound: no job starts once this many clock enables are left over
    MaxSleeps,  \* bound: system suspends
    MaxSignals, \* bound: signals that interrupt a wait of the work thread
    Faulty      \* may the engines hang or report errors?

\* A descriptor has bd TIU commands and tdma TDMA commands.
ASSUME HalAssumption ==
    /\ \A j \in Jobs :
         /\ j.path \in {"desnormal", "dessec", "piotdma"}
         /\ j.descs \in Seq([bd: Nat, tdma: Nat])
         /\ j.pmu \in BOOLEAN      \* pmubuf_offset and pmubuf_size are set
         /\ j.magic \in BOOLEAN    \* dmabuf_magic_m is right
    /\ MaxOpen \in Nat /\ MaxClk \in Nat /\ MaxSleeps \in Nat
    /\ MaxSignals \in Nat /\ Faulty \in BOOLEAN

VARIABLES
    wpc,            \* where the work thread is
    job,            \* the job at hand
    i,              \* index of the descriptor at hand
    ret,            \* what platform_run_dmabuf / platform_run_pio returns
    tdma_done,      \* the completion: calls of complete() not yet consumed
    running_cnt,    \* tpu_suspend.running_cnt
    use_count,
    sync_backup,    \* tpu_sync_backup: the interrupt of the last descriptor came
    handle_int,     \* tpu_suspend_handle_int
    backup,         \* tpu_reg_backup
    clk,            \* enable count of the clocks
    tdma,           \* TDMA: enabled, commands left, command counter, stopped by an error
    tiu,            \* TIU: off, busy, done
    pmu,            \* PMU: off, on, flushing
    int,            \* interrupt status bits; the line is level triggered
    spc,            \* where the suspend callbacks are
    sleeps,         \* suspends so far
    hung,           \* a register was touched with the clocks off
    bad,            \* history: a descriptor was passed over unfinished
    disturbed,      \* history: the run overlapped a suspend or an unused device
    signals,        \* signals so far
    faulted         \* history: an engine failed or was slow in this run, or a signal came

swVars   == <<wpc, job, i, ret, tdma_done, running_cnt>>
regVars  == <<sync_backup, handle_int, backup>>
hwVars   == <<tdma, tiu, pmu, int>>
histVars == <<bad, disturbed, signals, faulted>>
vars == <<swVars, regVars, hwVars, use_count, clk, spc, sleeps, hung, histVars>>

NoJob   == [path |-> "dessec", descs |-> <<>>, pmu |-> FALSE, magic |-> TRUE]
TdmaOff == [on |-> FALSE, left |-> 0, id |-> 0, err |-> FALSE]
NoRegs  == [id |-> 0, tiu |-> "off", int |-> {}]

WorkPcs == {"idle", "init", "begin", "desc", "fire", "wait", "poll", "pmu", "pmuoff",
            "pmuwait", "pio", "piofire", "piowait", "end", "after"}
IntBits == {"eod", "error", "eopmu"}

\* Every variable keeps its type; tdma_done never counts more than the
\* interrupts one descriptor and one PMU flush can raise.
TypeOK ==
    /\ wpc \in WorkPcs
    /\ job \in Jobs \cup {NoJob}
    /\ i \in 0..(Len(job.descs) + 1)
    /\ ret \in {"ok", "etimedout", "error"}
    /\ tdma_done \in 0..1
    /\ running_cnt \in 0..1
    /\ use_count \in 0..MaxOpen
    /\ sync_backup \in BOOLEAN /\ handle_int \in BOOLEAN
    /\ backup.id \in Nat /\ backup.tiu \in {"off", "busy", "done"} /\ backup.int \subseteq IntBits
    /\ clk \in 0..(MaxClk + sleeps)   \* each resume may add an enable
    /\ tdma.left \in Nat /\ tdma.id \in Nat
    /\ tiu \in {"off", "busy", "done"}
    /\ pmu \in {"off", "on", "flush"}
    /\ int \subseteq IntBits
    /\ spc \in {"awake", "save", "poll", "clkoff", "suspended", "off", "resuming"}
    /\ sleeps \in 0..MaxSleeps /\ signals \in 0..MaxSignals
    /\ {hung, bad, disturbed, faulted} \subseteq BOOLEAN

\* platform_tpu_probe_setting; the engines are off and nothing is open.
Init ==
    /\ wpc = "idle" /\ job = NoJob /\ i = 0 /\ ret = "ok"
    /\ tdma_done = 0 /\ running_cnt = 0 /\ use_count = 0
    /\ sync_backup = FALSE /\ handle_int = FALSE /\ backup = NoRegs
    /\ clk = 0
    /\ tdma = TdmaOff /\ tiu = "off" /\ pmu = "off" /\ int = {}
    /\ spc = "awake" /\ sleeps = 0 /\ hung = FALSE
    /\ bad = FALSE /\ disturbed = FALSE /\ signals = 0 /\ faulted = FALSE

Desc == job.descs[i]

\* The CPU runs: everything but deep sleep.
CpuOn == spc # "off"

\* clk_disable_unprepare; the clock core refuses to go below zero.
ClkDisable(c) == IF c > 0 THEN c - 1 ELSE 0

-----------------------------------------------------------------------------
(* The hardware (external) *)

TdmaBusy     == tdma.on /\ tdma.left > 0 /\ ~tdma.err
TdmaFinished == tdma.on /\ tdma.left = 0

\* platform_tpu_reset: assert and deassert the three reset lines.
HwReset == tdma' = TdmaOff /\ tiu' = "off" /\ pmu' = "off" /\ int' = {}

\* One more command; the last one raises the end-of-descriptors interrupt.
TdmaCommand ==
    /\ TdmaBusy /\ clk > 0
    /\ tdma' = [tdma EXCEPT !.left = @ - 1, !.id = @ + 1]
    /\ int' = IF tdma.left = 1 THEN int \cup {"eod"} ELSE int
    /\ UNCHANGED <<swVars, regVars, tiu, pmu, use_count, clk, spc, sleeps, hung, histVars>>

\* A command fails: an interrupt, and the engine stops.
TdmaError ==
    /\ Faulty
    /\ TdmaBusy /\ clk > 0
    /\ tdma' = [tdma EXCEPT !.err = TRUE]
    /\ int' = int \cup {"error"}
    /\ faulted' = TRUE
    /\ UNCHANGED <<swVars, regVars, tiu, pmu, use_count, clk, spc, sleeps, hung, bad, disturbed, signals>>

TiuDone ==
    /\ tiu = "busy" /\ clk > 0
    /\ tiu' = "done"
    /\ UNCHANGED <<swVars, regVars, tdma, pmu, int, use_count, clk, spc, sleeps, hung, histVars>>

PmuFlushed ==
    /\ pmu = "flush" /\ clk > 0
    /\ pmu' = "off"
    /\ int' = int \cup {"eopmu"}
    /\ UNCHANGED <<swVars, regVars, tdma, tiu, use_count, clk, spc, sleeps, hung, histVars>>

HwStep == CpuOn /\ (TdmaCommand \/ TdmaError \/ TiuDone \/ PmuFlushed)

\* The engines still have to answer, or their answer has not been delivered.
HwActive == TdmaBusy \/ tiu = "busy" \/ pmu = "flush" \/ (int # {} /\ use_count > 0)

-----------------------------------------------------------------------------
(* The interrupt handler: cvi_tpu_tdma_irq, platform_tdma_irq, platform_clear_int *)

\* mutant: the waiter is not told
IrqNoComplete ==
    /\ CpuOn
    /\ int # {} /\ use_count > 0
    /\ clk > 0
    /\ int' = {}
    /\ backup' = [backup EXCEPT !.id = tdma.id, !.tiu = tiu, !.int = {}]
    /\ sync_backup' = TRUE
    /\ UNCHANGED <<swVars, handle_int, tdma, tiu, pmu, use_count, clk, spc, sleeps, hung, histVars>>

\* Clear the status, keep the registers poll_cmdbuf_done will look at, complete().
Irq ==
    /\ CpuOn
    /\ int # {} /\ use_count > 0
    /\ clk > 0
    /\ int' = {}
    /\ backup' = [backup EXCEPT !.id = tdma.id, !.tiu = tiu, !.int = {}]
    /\ sync_backup' = TRUE
    /\ tdma_done' = tdma_done + 1
    /\ UNCHANGED <<wpc, job, i, ret, running_cnt, handle_int, tdma, tiu, pmu, use_count,
                   clk, spc, sleeps, hung, histVars>>

\* With use_count 0 the handler returns without clearing the status.
Storm == int # {} /\ use_count = 0

IrqHang ==
    /\ CpuOn
    /\ int # {} /\ use_count > 0
    /\ clk = 0
    /\ hung' = TRUE
    /\ UNCHANGED <<swVars, regVars, hwVars, use_count, clk, spc, sleeps, histVars>>

-----------------------------------------------------------------------------
(* Processes *)

\* cvi_tpu_open; user space is frozen during a suspend.
Open ==
    /\ spc = "awake"
    /\ use_count < MaxOpen
    /\ use_count' = use_count + 1
    /\ UNCHANGED <<swVars, regVars, hwVars, clk, spc, sleeps, hung, histVars>>

\* cvi_tpu_close; the job of the process that closes keeps running.
Close ==
    /\ spc = "awake"
    /\ use_count > 0
    /\ use_count' = use_count - 1
    /\ disturbed' = (disturbed \/ use_count = 1)
    /\ UNCHANGED <<swVars, regVars, hwVars, clk, spc, sleeps, hung, bad, signals, faulted>>

-----------------------------------------------------------------------------
(* The work thread *)

\* work_thread_run: a node is taken from task_list.
Take ==
    /\ wpc = "idle"
    /\ clk < MaxClk
    /\ job' \in Jobs
    /\ running_cnt' = 1
    /\ i' = 0 /\ ret' = "ok"
    /\ bad' = FALSE /\ faulted' = FALSE
    /\ disturbed' = (use_count = 0 \/ spc # "awake")
    /\ wpc' = "init"
    /\ UNCHANGED <<tdma_done, regVars, hwVars, use_count, clk, spc, sleeps, hung, signals>>

\* platform_tpu_init, and the switch of cvi_tpu_run_dmabuf.
RunInit ==
    /\ wpc = "init"
    /\ clk' = clk + 1
    /\ HwReset
    /\ wpc' = CASE job.path = "desnormal" -> "begin"
                [] job.path = "dessec"    -> "end"
                [] job.path = "piotdma"   -> "pio"
    /\ UNCHANGED <<job, i, ret, tdma_done, running_cnt, regVars, use_count,
                   spc, sleeps, hung, histVars>>

\* The function returns r.
Finish(r) == ret' = r /\ wpc' = "end"

\* platform_run_dmabuf up to its loop: the flags, the array bases, PMU on.
RunBegin ==
    /\ wpc = "begin"
    /\ job.magic
    /\ sync_backup' = FALSE
    /\ handle_int' = FALSE
    /\ pmu' = IF job.pmu THEN "on" ELSE pmu
    /\ i' = 1
    /\ wpc' = "desc"
    /\ UNCHANGED <<job, ret, tdma_done, running_cnt, backup, tdma, tiu, int, use_count, clk,
                   spc, sleeps, hung, histVars>>

RunBadMagic ==
    /\ wpc = "begin"
    /\ ~job.magic
    /\ Finish("error")
    /\ UNCHANGED <<job, i, tdma_done, running_cnt, regVars, hwVars, use_count, clk,
                   spc, sleeps, hung, histVars>>

\* reinit_completion before each descriptor.
DescReinit ==
    /\ wpc = "desc"
    /\ i <= Len(job.descs)
    /\ tdma_done' = 0
    /\ wpc' = "fire"
    /\ UNCHANGED <<job, i, ret, running_cnt, regVars, hwVars, use_count, clk,
                   spc, sleeps, hung, histVars>>

DescsDone ==
    /\ wpc = "desc"
    /\ i > Len(job.descs)
    /\ IF job.pmu THEN wpc' = "pmu" /\ ret' = ret ELSE Finish("ok")
    /\ UNCHANGED <<job, i, tdma_done, running_cnt, regVars, hwVars, use_count, clk,
                   spc, sleeps, hung, histVars>>

\* resync_cmd_id stops both engines and clears identifiers and status.
resync_cmd_id == [tdma |-> TdmaOff, tiu |-> "off", int |-> {}]

set_tiu_descriptor(num_bd) == IF num_bd > 0 THEN "busy" ELSE resync_cmd_id.tiu

set_tdma_descriptor_Fire(num_tdma) ==
    IF num_tdma > 0 THEN [resync_cmd_id.tdma EXCEPT !.on = TRUE, !.left = num_tdma]
                    ELSE resync_cmd_id.tdma

\* The engines are stopped and programmed with the descriptor at hand.
DescFire ==
    /\ wpc = "fire"
    /\ tiu' = set_tiu_descriptor(Desc.bd)
    /\ tdma' = set_tdma_descriptor_Fire(Desc.tdma)
    /\ int' = resync_cmd_id.int
    /\ sync_backup' = IF Desc.tdma > 0 THEN FALSE ELSE sync_backup
    /\ wpc' = IF Desc.tdma > 0 THEN "wait" ELSE "poll"
    /\ UNCHANGED <<job, i, ret, tdma_done, running_cnt, handle_int, backup, pmu, use_count, clk,
                   spc, sleeps, hung, histVars>>

WaitPcs == {"wait", "pmuwait", "piowait"}

\* wait_for_completion_interruptible_timeout is satisfied.
Waited(from) ==
    /\ wpc = from
    /\ tdma_done > 0
    /\ tdma_done' = tdma_done - 1

\* mutant: wait_for_completion, without a timeout
WaitNeverExpires == FALSE /\ UNCHANGED vars

\* It expires.  60 s are ample for engines that work: they have answered by then.
WaitExpires ==
    /\ wpc \in WaitPcs
    /\ tdma_done = 0
    /\ Faulty \/ ~HwActive
    /\ Finish("etimedout")
    /\ faulted' = (faulted \/ HwActive)
    /\ UNCHANGED <<job, i, tdma_done, running_cnt, regVars, hwVars, use_count, clk,
                   spc, sleeps, hung, bad, disturbed, signals>>

WaitInterrupted ==
    /\ wpc \in WaitPcs
    /\ signals < MaxSignals
    /\ signals' = signals + 1
    /\ Finish("error")
    /\ faulted' = TRUE
    /\ UNCHANGED <<job, i, tdma_done, running_cnt, regVars, hwVars, use_count, clk,
                   spc, sleeps, hung, bad, disturbed>>

DescWait ==
    /\ Waited("wait")
    /\ wpc' = "poll"
    /\ UNCHANGED <<job, i, ret, running_cnt, regVars, hwVars, use_count, clk,
                   spc, sleeps, hung, histVars>>

\* mutant: the command counter is not compared
NoIdCheck == FALSE

\* poll_cmdbuf_done: the TDMA counter the interrupt handler saw ...
TdmaIdShort == Desc.tdma > 0 /\ backup.id < Desc.tdma

\* ... and the done bit of TIU.
TiuReady == Desc.bd = 0 \/ tiu = "done"

\* The descriptor passes and the loop goes on.  bad remembers one whose
\* commands the engines have not finished.
NextDesc ==
    /\ i' = i + 1
    /\ wpc' = "desc"
    /\ bad' = (bad \/ (Desc.bd > 0 /\ tiu # "done") \/ (Desc.tdma > 0 /\ ~TdmaFinished))
    /\ UNCHANGED <<job, ret, tdma_done, running_cnt, regVars, hwVars, use_count, clk,
                   spc, sleeps, hung, disturbed, signals, faulted>>

PollDone ==
    /\ wpc = "poll"
    /\ ~handle_int
    /\ ~TdmaIdShort
    /\ TiuReady
    /\ NextDesc

\* poll_cmdbuf_done returns -1, or -ETIMEDOUT after 60 s; both end the run.
PollFails ==
    /\ wpc = "poll"
    /\ ~handle_int
    /\ TdmaIdShort \/ (~TiuReady /\ (Faulty \/ ~HwActive))
    /\ Finish("etimedout")
    /\ faulted' = (faulted \/ (~TdmaIdShort /\ HwActive))
    /\ UNCHANGED <<job, i, tdma_done, running_cnt, regVars, hwVars, use_count, clk,
                   spc, sleeps, hung, bad, disturbed, signals>>

\* A suspend has been there: nothing is checked.
PollSkipped ==
    /\ wpc = "poll"
    /\ handle_int
    /\ NextDesc

PmuReinit ==
    /\ wpc = "pmu"
    /\ tdma_done' = 0
    /\ wpc' = "pmuoff"
    /\ UNCHANGED <<job, i, ret, running_cnt, regVars, hwVars, use_count, clk,
                   spc, sleeps, hung, histVars>>

\* mutant: the flush is not awaited
PmuOffNoWait ==
    /\ wpc = "pmuoff"
    /\ pmu' = IF pmu = "on" THEN "flush" ELSE pmu
    /\ Finish("ok")
    /\ UNCHANGED <<job, i, tdma_done, running_cnt, regVars, tdma, tiu, int, use_count, clk,
                   spc, sleeps, hung, histVars>>

\* TPUPMU_Enable(&cfg, 0): the wait is left out after a suspend.
PmuOff ==
    /\ wpc = "pmuoff"
    /\ pmu' = IF pmu = "on" THEN "flush" ELSE pmu
    /\ IF handle_int THEN Finish("ok") ELSE wpc' = "pmuwait" /\ ret' = ret
    /\ UNCHANGED <<job, i, tdma_done, running_cnt, regVars, tdma, tiu, int, use_count, clk,
                   spc, sleeps, hung, histVars>>

PmuWait ==
    /\ Waited("pmuwait")
    /\ Finish("ok")
    /\ UNCHANGED <<job, i, running_cnt, regVars, hwVars, use_count, clk,
                   spc, sleeps, hung, histVars>>

\* platform_run_pio: reinit_completion, then set_tdma_pio fires one command.
PioReinit ==
    /\ wpc = "pio"
    /\ tdma_done' = 0
    /\ wpc' = "piofire"
    /\ UNCHANGED <<job, i, ret, running_cnt, regVars, hwVars, use_count, clk,
                   spc, sleeps, hung, histVars>>

PioFire ==
    /\ wpc = "piofire"
    /\ tdma' = [resync_cmd_id.tdma EXCEPT !.on = TRUE, !.left = 1]
    /\ tiu' = resync_cmd_id.tiu
    /\ int' = resync_cmd_id.int
    /\ wpc' = "piowait"
    /\ UNCHANGED <<job, i, ret, tdma_done, running_cnt, regVars, pmu, use_count, clk,
                   spc, sleeps, hung, histVars>>

\* Any interrupt will do: the command counter is not looked at.
PioWait ==
    /\ Waited("piowait")
    /\ Finish("ok")
    /\ UNCHANGED <<job, i, running_cnt, regVars, hwVars, use_count, clk,
                   spc, sleeps, hung, histVars>>

\* mutant: the clocks are switched off after a timeout too, before the reset
RunEndClkOff ==
    /\ wpc = "end"
    /\ clk' = ClkDisable(clk)
    /\ UNCHANGED hwVars
    /\ wpc' = "after"
    /\ UNCHANGED <<job, i, ret, tdma_done, running_cnt, regVars, use_count,
                   spc, sleeps, hung, histVars>>

\* The end of cvi_tpu_run_dmabuf: reset after a timeout, else clocks off.
RunEnd ==
    /\ wpc = "end"
    /\ IF ret = "etimedout" THEN HwReset /\ clk' = clk
                            ELSE clk' = ClkDisable(clk) /\ UNCHANGED hwVars
    /\ wpc' = "after"
    /\ UNCHANGED <<job, i, ret, tdma_done, running_cnt, regVars, use_count,
                   spc, sleeps, hung, histVars>>

\* running_cnt = 0; the node goes to done_list.
RunAfter ==
    /\ wpc = "after"
    /\ running_cnt' = 0
    /\ wpc' = "idle"
    /\ job' = NoJob /\ i' = 0 /\ ret' = "ok"
    /\ UNCHANGED <<tdma_done, regVars, hwVars, use_count, clk, spc, sleeps, hung, histVars>>

\* Where the work thread's next step touches a register.
TouchesRegister ==
    \/ wpc \in {"fire", "pmuoff", "piofire"}
    \/ wpc = "begin" /\ job.magic
    \/ wpc = "poll" /\ ~handle_int /\ Desc.bd > 0

WorkHang ==
    /\ TouchesRegister
    /\ clk = 0
    /\ hung' = TRUE
    /\ UNCHANGED <<swVars, regVars, hwVars, use_count, clk, spc, sleeps, histVars>>

WorkStep ==
    /\ CpuOn
    /\ \/ /\ TouchesRegister => clk > 0
          /\ \/ RunInit \/ RunBegin \/ RunBadMagic
             \/ DescReinit \/ DescsDone \/ DescFire \/ DescWait
             \/ PollDone \/ PollFails \/ PollSkipped
             \/ PmuReinit \/ PmuOff \/ PmuWait
             \/ PioReinit \/ PioFire \/ PioWait
             \/ WaitExpires \/ RunEnd \/ RunAfter
       \/ WorkHang

-----------------------------------------------------------------------------
(* Suspend and resume *)

\* cvi_tpu_suspend does something only while a job is running.
SuspendBegin ==
    /\ spc = "awake"
    /\ sleeps < MaxSleeps
    /\ sleeps' = sleeps + 1
    /\ spc' = IF running_cnt = 1 THEN "save" ELSE "suspended"
    /\ disturbed' = TRUE
    /\ UNCHANGED <<swVars, regVars, hwVars, use_count, clk, hung, bad, signals, faulted>>

SavedRegs == [id |-> tdma.id, tiu |-> tiu, int |-> int]

\* platform_tpu_suspend keeps the registers and decides whether to poll.
SuspendSave ==
    /\ spc = "save"
    /\ clk > 0
    /\ backup' = SavedRegs
    /\ spc' = IF tdma.on /\ ~sync_backup THEN "poll" ELSE "clkoff"
    /\ UNCHANGED <<swVars, sync_backup, handle_int, hwVars, use_count, clk, sleeps, hung, histVars>>

\* The polling loop has one way out: its 60 s are over.
SuspendPollExpires ==
    /\ spc = "poll"
    /\ clk > 0
    /\ backup' = SavedRegs
    /\ sync_backup' = TRUE
    /\ handle_int' = TRUE
    /\ spc' = "clkoff"
    /\ UNCHANGED <<swVars, hwVars, use_count, clk, sleeps, hung, histVars>>

SuspendHang ==
    /\ spc \in {"save", "poll"}
    /\ clk = 0
    /\ hung' = TRUE
    /\ UNCHANGED <<swVars, regVars, hwVars, use_count, clk, spc, sleeps, histVars>>

SuspendClkOff ==
    /\ spc = "clkoff"
    /\ clk' = ClkDisable(clk)
    /\ spc' = "suspended"
    /\ UNCHANGED <<swVars, regVars, hwVars, use_count, sleeps, hung, histVars>>

\* The system sleeps (external); the engines keep their state or lose it.
Sleep ==
    /\ spc = "suspended"
    /\ spc' = "off"
    /\ HwReset \/ UNCHANGED hwVars
    /\ UNCHANGED <<swVars, regVars, use_count, clk, sleeps, hung, histVars>>

Wake ==
    /\ spc = "off"
    /\ spc' = "resuming"
    /\ UNCHANGED <<swVars, regVars, hwVars, use_count, clk, sleeps, hung, histVars>>

\* cvi_tpu_resume, platform_tpu_resume: clocks on, registers back; the status
\* bits are cleared by writing them, TDMA_CTRL is not restored.
Resume ==
    /\ spc = "resuming"
    /\ spc' = "awake"
    /\ IF running_cnt = 1
       THEN /\ clk' = clk + 1
            /\ int' = int \ backup.int
            /\ tdma' = [tdma EXCEPT !.id = backup.id]
            /\ tiu' = backup.tiu
            /\ pmu' = pmu
       ELSE UNCHANGED <<clk, hwVars>>
    /\ UNCHANGED <<swVars, regVars, use_count, sleeps, hung, histVars>>

SuspendStep ==
    \/ SuspendSave \/ SuspendPollExpires \/ SuspendHang \/ SuspendClkOff
    \/ Sleep \/ Wake \/ Resume

-----------------------------------------------------------------------------
Hung == hung /\ UNCHANGED vars

Next ==
    \/ /\ ~hung
       /\ \/ HwStep
          \/ Irq \/ IrqHang
          \/ CpuOn /\ (Open \/ Close \/ Take \/ WaitInterrupted)
          \/ WorkStep
          \/ SuspendBegin \/ SuspendStep
    \/ Hung

Spec == Init /\ [][Next]_vars

\* The work thread is scheduled and its waits expire, pending interrupts are
\* taken, a suspend that has begun goes on and ends.  Nothing is assumed of the
\* engines unless they are known to work.
Fairness ==
    /\ WF_vars(~hung /\ WorkStep)
    /\ WF_vars(~hung /\ (Irq \/ IrqHang))
    /\ WF_vars(~hung /\ SuspendStep)
    /\ ~Faulty => WF_vars(~hung /\ HwStep)

FairSpec == Spec /\ Fairness

-----------------------------------------------------------------------------
(* Properties *)

\* A dmabuf job that returns 0 has had all its descriptors finished by both
\* engines: a late interrupt, an error interrupt or the registers of an earlier
\* descriptor never pass for its completion (unless a suspend came between, or
\* nobody held the device open).
NoFalseSuccess == wpc = "end" /\ ret = "ok" => ~bad \/ disturbed

\* When a profiled job returns 0 the PMU has flushed its buffer, so the clocks
\* are not switched off under it.
PmuComplete == wpc = "end" /\ ret = "ok" /\ job.pmu => pmu = "off" \/ disturbed

\* Until the first suspend or signal no register is touched with the clocks off, neither by
\* the work thread nor by an interrupt that comes late.
NoBusHang == hung => sleeps > 0 \/ signals > 0

\* Types and clocks together: counts stay in their ranges and every register access
\* finds the clocks on.
BusInv == TypeOK /\ NoBusHang

\* A well-formed job succeeds if the engines work while it runs, the device is
\* open and the system awake: no completion is lost between programming an engine
\* and waiting, and neither a suspend, an engine error nor a timeout of an earlier
\* job spoils it.
HealthySucceeds == wpc = "end" /\ job.magic => ret = "ok" \/ disturbed \/ faulted

\* Every run ends, whatever the engines, the signals and suspends do; except
\* that an interrupt nobody clears, because the device was closed, keeps the
\* processor busy.
RunEnds == wpc # "idle" ~> wpc = "idle" \/ hung \/ Storm

\* The loop of platform_tpu_suspend is there for "polling for waiting INT": it
\* runs into its expiry only if the descriptor at hand has not finished.
PollSeesInterrupt == [][SuspendPollExpires => ~TdmaFinished]_vars

=============================================================================
