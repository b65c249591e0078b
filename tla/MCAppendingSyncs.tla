-------------------------- MODULE MCAppendingSyncs --------------------------
EXTENDS AppendingSyncs

\* DEFAULT_UNDERLYINGS and, under which the vendor lists nothing, SPXW.
MCUnderlyings == <<"SPY", "SPX">>
MCByHand == {<<"SPX">>, <<"SPXW">>}
=============================================================================
