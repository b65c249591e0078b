--------------------------- MODULE MCDerivedChain ---------------------------
EXTENDS DerivedChain

Expiry(root, dte, vol, paired, otm) ==
    [root |-> root, dte |-> dte, vol |-> vol, paired |-> paired, otm |-> otm]

\* A chain with, for SPY, a same-day expiry, one before a closed span, one
\* quoted on one side and two that price; for an index root, one of strikes
\* enough and one too thin for a smile.
MCChains == {{Expiry("SPY", 0, 0, TRUE, 2), Expiry("SPY", 1, 0, TRUE, 2),
              Expiry("SPY", 2, 1, FALSE, 2), Expiry("SPY", 3, 2, TRUE, 2),
              Expiry("SPY", 4, 3, TRUE, 2),
              Expiry("SPXW", 3, 2, TRUE, 2), Expiry("SPXW", 4, 3, TRUE, 1)}}

\* No calendar, one that ends before session 4, a right one, and one that calls
\* session 3 closed.
MCCalendars == {NoCalendar, [known |-> TRUE, excused |-> {}, unattested |-> {4}],
                [known |-> TRUE, excused |-> {}, unattested |-> {}],
                [known |-> TRUE, excused |-> {3}, unattested |-> {}]}
=============================================================================
