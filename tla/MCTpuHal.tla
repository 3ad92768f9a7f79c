------------------------------- MODULE MCTpuHal -------------------------------
(***************************************************************************)
(* Small instances of TpuHal for TLC.                                      *)
(***************************************************************************)
EXTENDS TpuHal

Dmabuf(descs, withPmu, magicOk) ==
    [path |-> "desnormal", descs |-> descs, pmu |-> withPmu, magic |-> magicOk]
Other(p) == [path |-> p, descs |-> <<>>, pmu |-> FALSE, magic |-> TRUE]

\* Both engines, then TDMA alone with fewer commands; TIU alone, with PMU.
TwoDescs == Dmabuf(<<[bd |-> 1, tdma |-> 2], [bd |-> 0, tdma |-> 1]>>, FALSE, TRUE)
TiuOnly  == Dmabuf(<<[bd |-> 1, tdma |-> 0]>>, TRUE, TRUE)
BadMagic == Dmabuf(<<>>, FALSE, FALSE)

AllJobs  == {TwoDescs, TiuOnly, BadMagic, Other("dessec"), Other("piotdma")}
LongJobs == {TwoDescs, TiuOnly, Other("piotdma")}

=============================================================================
