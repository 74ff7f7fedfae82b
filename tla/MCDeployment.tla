---------------------------- MODULE MCDeployment ----------------------------
EXTENDS Deployment

DefaultLimits == [fee |-> 2, total |-> 2 * StepCount]
LowFee == [fee |-> 1, total |-> 2 * StepCount]
LowTotal == [fee |-> 2, total |-> 2]
MCLimits == {DefaultLimits, LowFee, LowTotal}
MCDeploySteps == {1}
=============================================================================
