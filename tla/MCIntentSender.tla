---------------------------- MODULE MCIntentSender ----------------------------
EXTENDS IntentSender, TLC

CONSTANTS f1, f2

Start(allowance, first, second, events) ==
  [allowance |-> allowance, submits |-> f1 :> first @@ f2 :> second, events |-> events]

MCStarts == {Start(0, 1, 1, 0), Start(0, 1, 0, 3), Start(1, 1, 0, 1), Start(0, 2, 0, 1)}
MCAmount == f1 :> 2 @@ f2 :> 1
===============================================================================
