---------------------------- MODULE ReorderBuffer -----------------------------
(***************************************************************************)
(* What the receive reordering of the AIC8800 driver promises, on frame    *)
(* numbers that never wrap: frames are handed up in ascending order, a gap *)
(* is waited for until the window moves past it or a timeout gives it up,  *)
(* and a frame that comes after its turn is handed up (or dropped) alone.  *)
(***************************************************************************)
EXTENDS Integers, Sequences

CONSTANTS
    WSize,    \* window size in frames
    Numbers   \* the frame numbers, a set of naturals

VARIABLES
    next,   \* the number of the frame waited for
    held,   \* numbers of the frames held back, all above next
    out     \* the frames handed up by the last step, in order

bufferVars == <<next, held, out>>

Unset == -1       \* no frame has been seen since the start or a flush

\* The first number from n on that is not in S: n, or the one after a member.
FirstGap(n, S) == CHOOSE m \in {n} \cup {k + 1 : k \in S} :
                     m >= n /\ m \notin S /\ \A k \in n..(m - 1) : k \in S

\* The frames of S are handed up, each once, in ascending order.
HandUp(S) ==
    /\ out' \in Seq(S)
    /\ \A m \in S : \E i \in DOMAIN out' : out'[i] = m
    /\ \A i, j \in DOMAIN out' : i < j => out'[i] < out'[j]

Init == next = Unset /\ held = {} /\ out = <<>>

\* The window starts at n: everything below it, and the run that starts at
\* it, is handed up.
Advance(n, S) ==
    /\ next' = FirstGap(n, S)
    /\ held' = {m \in S : m > next'}
    /\ HandUp({m \in S : m < next'})

Late(n) ==
    /\ next # Unset /\ n < next
    /\ out' \in {<<n>>, <<>>}
    /\ UNCHANGED <<next, held>>

Duplicate(n) ==
    /\ n \in held
    /\ out' = <<>>
    /\ UNCHANGED <<next, held>>

Fresh(n) ==
    /\ next = Unset \/ n >= next
    /\ n \notin held
    /\ Advance(IF next = Unset THEN n
               ELSE IF n > next + WSize - 1 THEN n - (WSize - 1)
               ELSE next, held \cup {n})

\* The timeout gives up the frames before the first one held.
GiveUp ==
    \E m \in held : (\A k \in held : m <= k) /\ Advance(m, held)

\* All held frames are handed up and the numbering starts afresh.
Flush ==
    /\ next' = Unset /\ held' = {} /\ HandUp(held)

\* All held frames are dropped (the station is gone).
Discard ==
    /\ next' = Unset /\ held' = {} /\ out' = <<>>

Next ==
    \/ \E n \in Numbers : Late(n) \/ Duplicate(n) \/ Fresh(n)
    \/ GiveUp \/ Flush \/ Discard

Spec == Init /\ [][Next]_bufferVars
=============================================================================
