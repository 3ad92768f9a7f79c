------------------------------- MODULE MCAicCmd -------------------------------
EXTENDS AicCmd, TLC

\* The callers run the same code: they may be permuted in the safety runs.
CallerSymmetry == Permutations(Callers)

\* Bound: completions of the transmit thread that may pile up.
TriggerBound == bustx_trgg <= 2

\* Bound: removal with at most two commands in use, and not after a crash (then
\* rwnx_cmd_mgr_deinit does nothing, and with the bus down no command is sent).
RemoveBound == bus = "down" => Cardinality(used) <= 2 /\ state # "CRASHED"

\* Bound: of two callers one sends the traffic messages, the other one the rest.
TrafficCaller  == CHOOSE p \in Callers : TRUE
TrafficByOne   == \A p \in Callers :
                     cmd[p] # NoCmd => (kind[cmd[p]] = "traffic" <=> p = TrafficCaller)
=============================================================================
