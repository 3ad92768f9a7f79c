------------------------------ MODULE MCSbiTlb ------------------------------
EXTENDS SbiTlb

VmaAsid(a, s, n) == [type |-> "vma_asid", asid |-> a, start |-> s, size |-> n]
Vma(s, n)        == [type |-> "vma", asid |-> 1, start |-> s, size |-> n]
FenceI           == [type |-> "fence_i", asid |-> 1, start |-> 0, size |-> 0]

\* Three harts ask two of them: each asks itself or is asked by two others.
MCTargets == {{0, 2}}

\* Ranges that contain each other and overlap, a range above the limit in
\* another address space, a range of all address spaces (merged only with
\* its like), and a fence that never merges.
MCRequests == {VmaAsid(1, 0, 2), VmaAsid(1, 0, 1), VmaAsid(1, 1, 2), VmaAsid(2, 0, 3), Vma(1, 2),
               FenceI}

\* Bound: the hart nobody asks makes two of these requests only.
ThirdHartBound == req[1] \in {NoReq, VmaAsid(1, 0, 2), FenceI}
=============================================================================
