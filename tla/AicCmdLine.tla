------------------------------ MODULE AicCmdLine ------------------------------
(***************************************************************************)
(* What the command manager of the AIC8800 driver promises: commands are   *)
(* pushed to the firmware one at a time and in the order they were         *)
(* accepted; none is accepted or pushed once the line is closed.           *)
(***************************************************************************)
EXTENDS Sequences

CONSTANT Commands

VARIABLES
    waiting,   \* accepted commands that have not been pushed, in order
    flight,    \* the pushed command that has not been confirmed, if any
    open       \* the manager is in service

lineVars == <<waiting, flight, open>>

Known == {waiting[i] : i \in DOMAIN waiting} \cup flight

Init == waiting = <<>> /\ flight = {} /\ open = TRUE

\* A command joins the end of the line.
Accept(c) ==
    /\ open /\ c \notin Known
    /\ waiting' = Append(waiting, c)
    /\ UNCHANGED <<flight, open>>

\* A command finds the line idle and is pushed at once.
AcceptAndPush(c) ==
    /\ open /\ c \notin Known
    /\ waiting = <<>> /\ flight = {}
    /\ flight' = {c}
    /\ UNCHANGED <<waiting, open>>

\* The oldest waiting command is pushed when nothing is in flight.
Push ==
    /\ open /\ flight = {} /\ waiting # <<>>
    /\ flight' = {Head(waiting)}
    /\ waiting' = Tail(waiting)
    /\ UNCHANGED open

\* The command in flight is confirmed, late confirmations included.
Confirm ==
    /\ flight # {}
    /\ flight' = {}
    /\ UNCHANGED <<waiting, open>>

\* A command timed out: the line closes and keeps what it holds.
Crash ==
    /\ open
    /\ open' = FALSE
    /\ UNCHANGED <<waiting, flight>>

\* The driver is removed: the line closes empty.
Drain ==
    /\ open
    /\ waiting' = <<>> /\ flight' = {} /\ open' = FALSE

Next ==
    \/ \E c \in Commands : Accept(c) \/ AcceptAndPush(c)
    \/ Push \/ Confirm \/ Crash \/ Drain

Spec == Init /\ [][Next]_lineVars
=============================================================================
