----------------------------- MODULE MCResultPage -----------------------------
EXTENDS ResultPage

CONSTANTS i1, i2

TwoIds == {i1, i2}
==============================================================================
