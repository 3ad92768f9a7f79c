------------------------------ MODULE MCTpuQueue ------------------------------
(* Instances of TpuQueue for TLC. *)
EXTENDS TpuQueue, TLC

CONSTANTS t1, t2

\* Two processes, told apart by nothing but their pid.
TwoProcesses == {t1, t2}
\* t2 is a thread of a process whose leader is t1.
OneLeader == {t1}

AllPaths == Paths
BufferPath == {DESNORMAL}
TwoPaths == {DESNORMAL, PIOTDMA}

\* Bound: three nodes, timeouts, TEE ioctls and removal only while every job is
\* a dmabuf job with number 1; two nodes for the mixtures.
PlainJobs ==
    /\ \A n \in 1..(next - 1) : node[n].tpu_path = DESNORMAL /\ node[n].seq_no = 1
    /\ \A t \in Threads : arg[t] \in {NoArg, [path |-> DESNORMAL, seq |-> 1]}
MixedJobs ==
    /\ next <= 3 /\ timeouts = 0 /\ ~ stop /\ bound
    /\ \A t \in Threads : pc[t] \notin {"teelock", "tee"}
ThirdNodePlain == PlainJobs \/ MixedJobs

Symmetry == Permutations(TwoProcesses)

=============================================================================
