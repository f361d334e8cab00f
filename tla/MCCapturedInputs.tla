-------------------------- MODULE MCCapturedInputs --------------------------
EXTENDS CapturedInputs

TwoIds == <<7, 8>>
NumbersAndText == {Number(-1), Number(1), Text(-1)}
=============================================================================
