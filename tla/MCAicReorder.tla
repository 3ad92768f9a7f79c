----------------------------- MODULE MCAicReorder -----------------------------
EXTENDS AicReorder

\* The first frame comes just below the wrap of the sequence numbers.
MCStarts == {Modulus - 2}
=============================================================================
