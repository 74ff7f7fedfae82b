--------------------------- MODULE MCSplitRiskPool ---------------------------
(***************************************************************************)
(* Values for TLC: what the oracle may answer and the settings governance  *)
(* may choose, one group of definitions for each run.                      *)
(***************************************************************************)
EXTENDS SplitRiskPool

\* An undisputed answer with one price for every purpose
Priced(p) == [price |-> p, fee |-> p, closed |-> p, challenged |-> FALSE, opening |-> TRUE]

\* A pending dispute; a closed session, in which only same-asset exits have a price
Disputed(p) == [Priced(p) EXCEPT !.challenged = TRUE]
ClosedSession(p) == [price |-> 0, fee |-> 0, closed |-> p, challenged |-> FALSE, opening |-> FALSE]

OnePrice == {Priced(1)}
TwoPrices == {Priced(1), Priced(2)}
UnrulyPrices == {Priced(1), Priced(2), ClosedSession(2), Disputed(2)}
MissingPrices == {Priced(1), Priced(2), Priced(0)}

PlainConfig ==
  [shieldedMin |-> 1, shieldedMax |-> 4, backingMin |-> 2, backingMax |-> 4,
   maxTvl |-> 100, minimumPoolTime |-> 0, unlockDuration |-> 1, protocolFee |-> 1]

OneConfig == {PlainConfig}

\* An amount of 1 is too small for a deposit, but not for a partial exit.
FirmConfig == [PlainConfig EXCEPT !.shieldedMin = 2]
FirmConfigs == {FirmConfig}

\* Room for a deposit that is not a whole number of shares
RoomyConfig == [PlainConfig EXCEPT !.backingMax = 5]

\* Governance makes the notice longer and the least deposit of a protector larger.
ChangingConfigs == {RoomyConfig, [RoomyConfig EXCEPT !.unlockDuration = 2, !.backingMin = 3]}

\* How many receipts have been minted so far, at most
Receipts(shields, protectors) == nextShieldId <= shields + 1 /\ nextProtectorId <= protectors + 1

(***************************************************************************)
(* The scope of the run `epochs`: three protector receipts and two shields *)
(* as long as nothing else changes; two protectors and one shield with     *)
(* time, settings, a token that taxes transfers and tokens sent unasked.   *)
(***************************************************************************)
EpochsScope ==
  \/ /\ now <= 2 /\ config = RoomyConfig
     /\ ~transferIntegrityBroken
     /\ heldShielded = shieldedTokenBalance /\ heldBacking = totalBackingTokenBalance
  \/ Receipts(1, 2)

(***************************************************************************)
(* The scope of the run `exits`: two protectors and two shields while both *)
(* tokens have an undisputed price; one protector with disputes, closed    *)
(* sessions and a backing token without a price.                           *)
(***************************************************************************)
ExitsScope ==
  \/ shieldedQuote \in TwoPrices /\ backingQuote \in TwoPrices
  \/ Receipts(2, 1)

\* Governance drops the minimum of a shield position to nothing.
ZeroMinConfigs == {PlainConfig, [PlainConfig EXCEPT !.shieldedMin = 0]}
=============================================================================
