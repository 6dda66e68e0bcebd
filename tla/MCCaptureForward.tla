-------------------------- MODULE MCCaptureForward --------------------------
EXTENDS CaptureForward, TLC

CONSTANTS r1, r2, c1, c2

MCTwoFull == c1 :> "full" @@ c2 :> "full"
=============================================================================
