------------------------------- MODULE MCAicRx -------------------------------
EXTENDS AicRx

\* Data, confirmations and indications, alone and together in a block.
MCBlocks == {<<"data">>, <<"cfm">>, <<"ind">>, <<"data", "cfm">>, <<"ind", "data">>}
=============================================================================
