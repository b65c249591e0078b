------------------------- MODULE MCSessionCalendar -------------------------
EXTENDS SessionCalendar
=============================================================================
