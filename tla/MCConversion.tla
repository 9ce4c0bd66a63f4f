----------------------------- MODULE MCConversion -----------------------------
EXTENDS Conversion

CONSTANTS c1, c2

TwoCalls == {c1, c2}
==============================================================================
