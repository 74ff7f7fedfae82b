-------------------------- MODULE IntentSenderProofs --------------------------
(***************************************************************************)
(* Proofs about IntentSender, for any number of forms, submissions, reads  *)
(* and interferences.                                                      *)
(***************************************************************************)
EXTENDS IntentSender, FiniteSetTheorems, TLAPS

USE SenderAssumption

-------------------------------------------------------------------------------
(* Nonces and the chain *)

\* The signer's blocks are counted one by one.
LEMMA OwnCount ==
  ASSUME NEW n \in Nat
  PROVE  /\ IsFiniteSet(OwnUpTo(n)) /\ Cardinality(OwnUpTo(n)) \in Nat
         /\ \A m \in 0..n : Cardinality(OwnUpTo(m)) <= Cardinality(OwnUpTo(n))
         /\ \A m \in 0..n : m < n /\ chain[n].tx.hash # 0
              => Cardinality(OwnUpTo(m)) < Cardinality(OwnUpTo(n))
<1>1. ASSUME NEW k \in Nat
      PROVE  IsFiniteSet(OwnUpTo(k)) /\ Cardinality(OwnUpTo(k)) \in Nat
  <2>1. IsFiniteSet(1..k)
    BY FS_Interval
  <2>2. OwnUpTo(k) \subseteq 1..k
    BY DEF OwnUpTo
  <2> QED
    BY <2>1, <2>2, FS_Subset, FS_CardinalityType
<1>2. ASSUME NEW m \in 0..n
      PROVE  /\ Cardinality(OwnUpTo(m)) <= Cardinality(OwnUpTo(n))
             /\ m < n /\ chain[n].tx.hash # 0 => Cardinality(OwnUpTo(m)) < Cardinality(OwnUpTo(n))
  <2>1. OwnUpTo(m) \subseteq OwnUpTo(n)
    BY DEF OwnUpTo
  <2>2. /\ Cardinality(OwnUpTo(m)) <= Cardinality(OwnUpTo(n))
        /\ Cardinality(OwnUpTo(m)) = Cardinality(OwnUpTo(n)) => OwnUpTo(m) = OwnUpTo(n)
    BY <1>1, <2>1, FS_Subset
  <2>3. m < n /\ chain[n].tx.hash # 0 => n \in OwnUpTo(n) /\ n \notin OwnUpTo(m)
    BY DEF OwnUpTo
  <2> QED
    BY <1>1, <2>2, <2>3
<1> QED
  BY <1>1, <1>2

\* Two blocks of the signer have different nonces.
LEMMA NonceOnce ==
  ASSUME ChainSound, chain \in Seq(Block),
         NEW n \in 1..Height, NEW m \in 1..Height,
         chain[n].tx.hash # 0, chain[n].tx.nonce = chain[m].tx.nonce
  PROVE  n = m
<1>1. ASSUME NEW k \in 1..Height, chain[k].tx.hash # 0
      PROVE  chain[k].tx.nonce = Cardinality(OwnUpTo(k)) /\ chain[k].tx.nonce > 0
  <2>1. Cardinality(OwnUpTo(0)) < Cardinality(OwnUpTo(k)) /\ Cardinality(OwnUpTo(0)) \in Nat
    BY <1>1, OwnCount DEF Height
  <2>2. chain[k].tx.nonce = Cardinality(OwnUpTo(k))
    BY <1>1 DEF ChainSound
  <2>3. k \in Nat /\ Cardinality(OwnUpTo(k)) \in Nat
    BY OwnCount DEF Height
  <2> QED
    BY <2>1, <2>2, <2>3
<1>2. chain[m].tx.hash # 0
  BY <1>1 DEF ChainSound
<1>3. Cardinality(OwnUpTo(n)) = Cardinality(OwnUpTo(m))
  BY <1>1, <1>2
<1>4. CASE n < m
  BY <1>2, <1>3, <1>4, OwnCount DEF Height
<1>5. CASE m < n
  BY <1>3, <1>5, OwnCount DEF Height
<1> QED
  BY <1>4, <1>5 DEF Height

-------------------------------------------------------------------------------
(* A block is added: to the chain, or to what is left of it without its last  *)

\* The chain keeps its first h blocks, and tx runs in a block after them.
Grows(h, tx) ==
  /\ h \in 1..Height /\ h + 1 >= Height
  /\ reorgs' \in Nat /\ reorgs' >= reorgs /\ (h < Height => reorgs' > reorgs)
  /\ chain' = Append(SubSeq(chain, 1, h), Executed(chain[h], tx, reorgs'))
  /\ \/ tx \in signed /\ tx.nonce = Cardinality(OwnUpTo(h)) + 1
     \/ \E fn \in {"toggle", "mint", "none"} : tx = Others(fn)
  /\ UNCHANGED <<signed, reviewed, flow, outcome>>

\* A transaction that runs leaves a block of the right type.
LEMMA ExecutedType ==
  ASSUME NEW parent \in Block, NEW tx \in Tx, NEW n \in Nat
  PROVE  Executed(parent, tx, n) \in Block
<1>1. tx.call \in Calls /\ tx.call.amount \in Nat /\ parent.allowance \in Nat
      /\ parent.open \in BOOLEAN /\ parent.minted \in Nat
  BY DEF Tx, Calls, Block
<1>2. Runs(parent, tx.call) \in BOOLEAN
  BY <1>1 DEF Runs
<1>3. Runs(parent, tx.call) /\ tx.call.fn = "deposit" => parent.allowance - tx.call.amount \in Nat
  BY <1>1 DEF Runs
<1>4. Executed(parent, tx, n).allowance \in Nat
  <2>1. CASE tx.call.fn = "approve"
    BY <1>1, <2>1 DEF Executed
  <2>2. CASE tx.call.fn # "approve" /\ ~(Runs(parent, tx.call) /\ tx.call.fn = "deposit")
    BY <1>1, <2>2 DEF Executed
  <2>3. CASE tx.call.fn # "approve" /\ Runs(parent, tx.call) /\ tx.call.fn = "deposit"
    <3>1. Executed(parent, tx, n).allowance = parent.allowance - tx.call.amount
      BY <2>3 DEF Executed
    <3> QED
      BY <1>3, <2>3, <3>1
  <2> QED
    BY <2>1, <2>2, <2>3
<1>5. Executed(parent, tx, n).open \in BOOLEAN
  <2>1. CASE tx.call.fn = "toggle"
    BY <2>1 DEF Executed
  <2>2. CASE tx.call.fn # "toggle"
    <3>1. Executed(parent, tx, n).open = parent.open
      BY <2>2 DEF Executed
    <3> QED
      BY <1>1, <3>1
  <2> QED
    BY <2>1, <2>2
<1>6. Executed(parent, tx, n).minted \in Nat
  BY <1>1 DEF Executed
<1> QED
  BY <1>2, <1>4, <1>5, <1>6 DEF Executed, Block

LEMMA OthersType ==
  ASSUME NEW fn \in {"toggle", "mint", "none"}
  PROVE  Others(fn) \in Tx /\ Others(fn).hash = 0 /\ Others(fn).nonce = 0
         /\ Others(fn).submission = 0 /\ Others(fn).call.fn = fn
BY DEF Others, Call, Tx, Calls

\* What the new chain looks like.
LEMMA GrownChain ==
  ASSUME TypeOK, NEW h, NEW tx, Grows(h, tx)
  PROVE  /\ chain' \in Seq(Block) /\ chain' # <<>>
         /\ Height' = h + 1 /\ Height \in Nat /\ h \in Nat \ {0}
         /\ \A n \in 1..h : chain'[n] = chain[n]
         /\ chain'[h + 1] = Executed(chain[h], tx, reorgs')
         /\ chain'[h + 1].tx = tx /\ chain'[h + 1].fork = reorgs'
         /\ tx \in Tx
<1> USE DEF TypeOK
<1>1. h \in 1..Len(chain) /\ chain[h] \in Block
  BY DEF Grows, Height
<1>2. tx \in Tx
  BY OthersType DEF Grows
<1>3. Executed(chain[h], tx, reorgs') \in Block
  BY <1>1, <1>2, ExecutedType DEF Grows
<1>4. /\ SubSeq(chain, 1, h) \in Seq(Block) /\ Len(SubSeq(chain, 1, h)) = h
      /\ \A n \in 1..h : SubSeq(chain, 1, h)[n] = chain[n]
  BY <1>1
<1>5. Executed(chain[h], tx, reorgs').tx = tx /\ Executed(chain[h], tx, reorgs').fork = reorgs'
  BY DEF Executed
<1>6. chain' = Append(SubSeq(chain, 1, h), Executed(chain[h], tx, reorgs'))
  BY DEF Grows
<1>7. /\ chain' \in Seq(Block) /\ Len(chain') = h + 1
      /\ \A n \in 1..h : chain'[n] = SubSeq(chain, 1, h)[n]
      /\ chain'[h + 1] = Executed(chain[h], tx, reorgs')
  BY <1>3, <1>4, <1>6
<1> QED
  BY <1>1, <1>2, <1>4, <1>5, <1>7 DEF Height

\* The nonces of the blocks stay in turn.
LEMMA GrownSound ==
  ASSUME TypeOK, ChainSound, SignedSound, NEW h, NEW tx, Grows(h, tx)
  PROVE  ChainSound'
<1>1. /\ Height' = h + 1 /\ h \in Nat \ {0} /\ h <= Height /\ Height \in Nat
      /\ \A n \in 1..h : chain'[n] = chain[n]
      /\ chain'[h + 1].tx = tx /\ chain'[h + 1].fork = reorgs'
  <2>1. h \in 1..Height
    BY DEF Grows
  <2> QED
    BY <2>1, GrownChain
<1>2. reorgs \in Nat /\ reorgs' \in Nat /\ reorgs <= reorgs' /\ signed' = signed
  BY DEF Grows, TypeOK
<1>3. ASSUME NEW n \in 1..h
      PROVE  OwnUpTo(n)' = OwnUpTo(n)
  BY <1>1, <1>3 DEF OwnUpTo
<1>4. ASSUME NEW n \in 1..h
      PROVE  /\ chain'[n].fork <= reorgs'
             /\ chain'[n].tx.hash # 0 =>
                  chain'[n].tx \in signed' /\ chain'[n].tx.nonce = Cardinality(OwnUpTo(n)')
             /\ chain'[n].tx.hash = 0 =>
                  chain'[n].tx.submission = 0 /\ chain'[n].tx.nonce = 0
                  /\ chain'[n].tx.call.fn # "deposit"
  <2>1. n \in 1..Height /\ chain[n].fork \in Nat
    <3>1. chain \in Seq(Block) /\ n \in 1..Height
      BY <1>1 DEF TypeOK
    <3>2. chain[n] \in Block
      BY <3>1 DEF Height
    <3> QED
      BY <3>1, <3>2 DEF Block
  <2> QED
    BY <1>1, <1>2, <1>3, <2>1 DEF ChainSound
<1>5. CASE tx \in signed /\ tx.nonce = Cardinality(OwnUpTo(h)) + 1
  <2>1. tx.hash # 0
    <3>1. tx.hash \in 1..Cardinality(signed)
      BY <1>5 DEF SignedSound
    <3> QED
      BY <3>1
  <2>2. OwnUpTo(h + 1)' = OwnUpTo(h) \cup {h + 1} /\ h + 1 \notin OwnUpTo(h)
    BY <1>1, <2>1 DEF OwnUpTo
  <2>3. Cardinality(OwnUpTo(h + 1)') = Cardinality(OwnUpTo(h)) + 1
    BY <1>1, <2>2, OwnCount, FS_AddElement
  <2> QED
    BY <1>1, <1>2, <1>4, <1>5, <2>1, <2>3 DEF ChainSound
<1>6. CASE \E fn \in {"toggle", "mint", "none"} : tx = Others(fn)
  <2>1. tx.hash = 0 /\ tx.submission = 0 /\ tx.nonce = 0 /\ tx.call.fn # "deposit"
    BY <1>6, OthersType
  <2> QED
    BY <1>1, <1>2, <1>4, <2>1 DEF ChainSound
<1> QED
  BY <1>5, <1>6 DEF Grows

\* Nothing that is final moves, and no point of the chain comes back.
LEMMA GrownFacts ==
  ASSUME TypeOK, ChainSound, SignedSound, NEW h, NEW tx, Grows(h, tx)
  PROVE  /\ Height' \in Nat /\ Height <= Height'
         /\ \A n \in Final : n \in Final' /\ n \in 1..h /\ chain'[n] = chain[n]
         /\ \A point : point.height \in 1..Height /\ point.fork <= reorgs /\ Canonical(point)'
              => point.height \in 1..h /\ Canonical(point)
         /\ \A n \in Final : chain[n].tx.nonce # 0 => tx.nonce # chain[n].tx.nonce
         /\ \A nonce : NonceFinal(nonce) => NonceFinal(nonce)'
         /\ \A s, i : Settled(s, i) => Settled(s, i)'
<1>1. /\ Height' = h + 1 /\ Height \in Nat /\ h \in Nat \ {0}
      /\ \A n \in 1..h : chain'[n] = chain[n]
      /\ chain'[h + 1].tx = tx /\ chain'[h + 1].fork = reorgs'
  BY GrownChain
<1>2. h <= Height /\ Height <= h + 1 /\ (h < Height => reorgs' > reorgs)
  <2>1. h \in 1..Height /\ h + 1 >= Height /\ (h < Height => reorgs' > reorgs)
    BY DEF Grows
  <2> QED
    BY <1>1, <2>1
<1>3. \A n \in Final : n \in Final' /\ n \in 1..h /\ chain'[n] = chain[n]
  BY <1>1, <1>2 DEF Final
<1>4. ASSUME NEW point, point.height \in 1..Height, point.fork <= reorgs, Canonical(point)'
      PROVE  point.height \in 1..h /\ Canonical(point)
  <2>1. chain'[point.height].fork = point.fork
    BY <1>4 DEF Canonical
  <2>2. reorgs \in Nat /\ reorgs' \in Nat
    BY DEF TypeOK, Grows
  <2>3. point.height # h + 1
    <3>1. SUFFICES ASSUME point.height = h + 1 PROVE FALSE
      OBVIOUS
    <3>2. point.fork = reorgs' /\ h < Height
      BY <1>1, <1>4, <2>1, <3>1
    <3> QED
      BY <1>2, <1>4, <2>2, <3>2
  <2>4. point.height \in 1..h
    BY <1>1, <1>2, <1>4, <2>3
  <2> QED
    BY <1>1, <1>4, <2>1, <2>4 DEF Canonical
<1>5. ASSUME NEW n \in Final, chain[n].tx.nonce # 0
      PROVE  tx.nonce # chain[n].tx.nonce
  <2>1. n \in 1..Height /\ n \in 0..h
    BY <1>1, <1>2 DEF Final
  <2>2. chain[n].tx.nonce = Cardinality(OwnUpTo(n))
    BY <1>5, <2>1 DEF ChainSound
  <2>3. /\ Cardinality(OwnUpTo(n)) <= Cardinality(OwnUpTo(h))
        /\ Cardinality(OwnUpTo(n)) \in Nat /\ Cardinality(OwnUpTo(h)) \in Nat
    <3>1. n \in Nat
      BY <2>1
    <3> QED
      BY <1>1, <2>1, <3>1, OwnCount
  <2>4. tx.nonce = Cardinality(OwnUpTo(h)) + 1 \/ tx.nonce = 0
    BY OthersType DEF Grows
  <2> QED
    BY <1>5, <2>2, <2>3, <2>4
<1>6. ASSUME NEW nonce, NonceFinal(nonce)
      PROVE  NonceFinal(nonce)'
  BY <1>3, <1>6 DEF NonceFinal
<1>7. ASSUME NEW s, NEW i, Settled(s, i)
      PROVE  Settled(s, i)'
  BY <1>3, <1>7 DEF Settled
<1> QED
  BY <1>1, <1>2, <1>3, <1>4, <1>5, <1>6, <1>7

\* What is known of a submission survives.
LEMMA GrownUnderWay ==
  ASSUME TypeOK, ChainSound, SignedSound, NEW h, NEW tx, Grows(h, tx),
         NEW r \in Flow, UnderWay(r)
  PROVE  UnderWay(r)'
<1>1. /\ Height' \in Nat /\ Height <= Height' /\ Height \in Nat
      /\ Height' = h + 1 /\ h \in Nat \ {0}
      /\ \A n \in 1..h : chain'[n] = chain[n]
      /\ chain'[h + 1].tx = tx
  BY GrownFacts, GrownChain
<1>2. /\ \A n \in Final : n \in Final' /\ n \in 1..h /\ chain'[n] = chain[n]
      /\ \A point : point.height \in 1..Height /\ point.fork <= reorgs /\ Canonical(point)'
           => point.height \in 1..h /\ Canonical(point)
      /\ \A n \in Final : chain[n].tx.nonce # 0 => tx.nonce # chain[n].tx.nonce
  BY GrownFacts
<1>3. UNCHANGED <<signed, reviewed, outcome>> /\ reorgs <= reorgs' /\ reorgs \in Nat /\ reorgs' \in Nat
  BY DEF Grows, TypeOK
<1>4. r.away => r.stage = "recheck" /\ ~reviewed'
  BY <1>3 DEF UnderWay
<1>5. Planned(r)'
  BY <1>3 DEF UnderWay, Planned
<1>6. Followed(r)'
  <2>1. SignedFor(r.id)' = SignedFor(r.id)
    BY <1>3 DEF SignedFor
  <2> QED
    BY <2>1, GrownFacts DEF UnderWay, Followed
<1>7. PinHolds(r)'
  <2> SUFFICES ASSUME r.stage \in Pinned
               PROVE  PinHolds(r)'
    BY DEF PinHolds
  <2>1. /\ r.pinned.height \in 1..Height /\ r.pinned.fork <= reorgs /\ r.pinned.fork \in Nat
        /\ Canonical(r.pinned) => chain[r.pinned.height].open
        /\ \A n \in 1..Height : chain[n].tx.submission = r.id => n <= r.pinned.height
    BY DEF UnderWay, PinHolds, Flow, Point
  <2>2. Canonical(r.pinned)' => chain'[r.pinned.height].open
    BY <1>1, <1>2, <2>1
  <2>3. tx.submission # r.id
    <3>1. SUFFICES ASSUME tx.submission = r.id
                   PROVE  FALSE
      OBVIOUS
    <3>2. r.id # 0 /\ tx \in signed
      BY <3>1, OthersType DEF UnderWay, Planned, Grows
    <3>3. tx \in SignedFor(r.id) /\ r.stage \in Unsigned
      BY <3>1, <3>2 DEF SignedFor, Pinned, Unsigned
    <3>4. NonceFinal(tx.nonce)
      <4>1. tx.step \in 1..r.step /\ tx.step # r.step /\ r.step \in Nat
        BY <3>3 DEF UnderWay, Followed, Flow
      <4> QED
        BY <3>3, <4>1 DEF UnderWay, Followed
    <3>5. tx.nonce # 0
      <4>1. tx.nonce \in 1..Cardinality(Nonces)
        BY <3>2 DEF SignedSound, Nonces
      <4> QED
        BY <4>1
    <3> QED
      BY <1>2, <3>4, <3>5 DEF NonceFinal
  <2>4. \A n \in 1..Height' : chain'[n].tx.submission = r.id => n <= r.pinned.height
    <3> TAKE n \in 1..Height'
    <3>1. CASE n = h + 1
      BY <1>1, <2>3, <3>1
    <3>2. CASE n \in 1..h
      <4>1. n \in 1..Height
        BY <1>1, <3>2, GrownChain DEF Grows
      <4> QED
        BY <1>1, <2>1, <3>2, <4>1
    <3> QED
      BY <1>1, <3>1, <3>2
  <2> QED
    BY <1>1, <1>3, <2>1, <2>2, <2>4 DEF PinHolds
<1>8. SignedStep(r)'
  <2>1. SignedFor(r.id)' = SignedFor(r.id)
    BY <1>3 DEF SignedFor
  <2> QED
    BY <2>1 DEF UnderWay, SignedStep
<1>9. SightHolds(r)'
  <2> SUFFICES ASSUME r.stage \in Sighted
               PROVE  SightHolds(r)'
    BY DEF SightHolds
  <2>1. /\ r.seen.height \in 1..Height /\ r.seen.fork <= reorgs /\ r.seen.fork \in Nat
        /\ Canonical(r.seen) =>
             chain[r.seen.height].tx.hash = r.hash /\ chain[r.seen.height].ok
        /\ "latest" \in r.read \/ r.stage \in {"fresh", "sealed"} => r.seen.height < Height
        /\ r.stage = "sealed" /\ Canonical(r.seen) => chain[r.seen.height].minted = r.position
    BY DEF UnderWay, SightHolds, Flow, Point
  <2>2. Canonical(r.seen)' => Canonical(r.seen) /\ chain'[r.seen.height] = chain[r.seen.height]
    BY <1>1, <1>2, <2>1
  <2>3. r.seen.height \in 1..Height' /\ r.seen.fork <= reorgs'
    BY <1>1, <1>3, <2>1
  <2>4. "latest" \in r.read \/ r.stage \in {"fresh", "sealed"} => r.seen.height < Height'
    BY <1>1, <2>1
  <2> QED
    BY <2>1, <2>2, <2>3, <2>4 DEF SightHolds
<1> QED
  BY <1>4, <1>5, <1>6, <1>7, <1>8, <1>9 DEF UnderWay

LEMMA GrownInv ==
  ASSUME SenderInv, NEW h, NEW tx, Grows(h, tx),
         budget' \in [allowance : Nat, submits : [Forms -> Nat], events : Nat]
  PROVE  SenderInv'
<1> USE DEF SenderInv
<1>1. UNCHANGED <<signed, reviewed, flow, outcome>> /\ reorgs' \in Nat
  BY DEF Grows
<1>2. TypeOK'
  BY <1>1, GrownChain DEF TypeOK
<1>3. ChainSound'
  BY GrownSound
<1>4. SignedSound'
  <2>1. Nonces' = Nonces
    BY <1>1 DEF Nonces
  <2> QED
    BY <1>1, <2>1 DEF SignedSound
<1>5. FlowSound'
  <2>1. ASSUME NEW f \in Forms
        PROVE  (IF At(f, "idle") THEN flow[f] = Idle ELSE UnderWay(flow[f]))'
    <3>1. CASE At(f, "idle")
      BY <1>1, <3>1 DEF FlowSound, At
    <3>2. CASE ~At(f, "idle")
      <4>1. UnderWay(flow[f]) /\ flow[f] \in Flow
        BY <3>2 DEF FlowSound, TypeOK
      <4>2. UnderWay(flow[f])'
        BY <1>1, <4>1, GrownUnderWay
      <4> QED
        BY <1>1, <3>2, <4>2 DEF At
    <3> QED
      BY <3>1, <3>2
  <2>2. (\A f, g \in Forms :
           f # g /\ ~At(f, "idle") /\ ~At(g, "idle") => flow[f].id # flow[g].id)'
    BY <1>1 DEF FlowSound, At
  <2> QED
    BY <2>1, <2>2 DEF FlowSound
<1>6. EndsSound'
  <2> SUFFICES ASSUME NEW s \in Submissions
               PROVE  EndSound(s)'
    BY DEF EndsSound
  <2>1. SignedFor(s)' = SignedFor(s) /\ outcome' = outcome
    BY <1>1 DEF SignedFor
  <2>2. \A n \in Final : n \in Final' /\ chain'[n] = chain[n]
    BY GrownFacts
  <2>3. (outcome[s].result = "unsent" => \A t \in SignedFor(s) : t.call.fn # "deposit")'
    BY <2>1 DEF EndsSound, EndSound
  <2>4. (outcome[s].result = "cancelled" =>
         \A t \in SignedFor(s) : t.call.fn = "deposit" =>
           \E n \in Final : chain[n].tx.nonce = t.nonce /\ chain[n].tx.call.fn # "deposit")'
    BY <2>1, <2>2 DEF EndsSound, EndSound
  <2>5. \A n \in Final \cap Deposits(s) : n \in Final' /\ n \in Deposits(s)' /\ chain'[n] = chain[n]
    <3> TAKE n \in Final \cap Deposits(s)
    <3>1. n \in Final' /\ chain'[n] = chain[n]
      BY <2>2
    <3>2. n \in 1..Height'
      BY <3>1, GrownFacts DEF Final
    <3> QED
      BY <3>1, <3>2 DEF Deposits
  <2>6. (outcome[s].result = "confirmed" =>
         \E n \in Final \cap Deposits(s) : chain[n].minted = outcome[s].position)'
    BY <2>1, <2>5 DEF EndsSound, EndSound
  <2> QED
    BY <2>3, <2>4, <2>6 DEF EndSound
<1> QED
  BY <1>2, <1>3, <1>4, <1>5, <1>6

\* The blocks of the signer, counted in a chain or in what is left of it.
LEMMA OwnBlocks ==
  ASSUME TypeOK
  PROVE  /\ Own(chain) = OwnUpTo(Height)
         /\ Height > 1 =>
              /\ Own(SubSeq(chain, 1, Height - 1)) = OwnUpTo(Height - 1)
              /\ SubSeq(chain, 1, Height - 1)[Height - 1] = chain[Height - 1]
<1>1. chain \in Seq(Block) /\ Height \in Nat \ {0}
  BY DEF TypeOK, Height
<1>2. Height > 1 =>
        /\ Len(SubSeq(chain, 1, Height - 1)) = Height - 1
        /\ \A n \in 1..Height - 1 : SubSeq(chain, 1, Height - 1)[n] = chain[n]
  BY <1>1 DEF Height
<1>3. Own(chain) = OwnUpTo(Height)
  BY DEF Own, OwnUpTo, Height
<1>4. Height > 1 => Own(SubSeq(chain, 1, Height - 1)) = OwnUpTo(Height - 1)
  BY <1>2 DEF Own, OwnUpTo
<1> QED
  BY <1>1, <1>2, <1>3, <1>4

LEMMA BudgetType ==
  ASSUME TypeOK, budget' = budget \/ Interference
  PROVE  budget' \in [allowance : Nat, submits : [Forms -> Nat], events : Nat]
BY DEF TypeOK, Interference

\* Every step of the chain adds one block, to the chain or in place of its latest.
LEMMA ChainGrows ==
  ASSUME SenderInv, Mine \/ Seal \/ ForeignTransaction \/ Reorganise
  PROVE  \E h, tx : Grows(h, tx)
<1>1. TypeOK /\ chain \in Seq(Block) /\ Height \in Nat \ {0} /\ reorgs \in Nat
  BY DEF SenderInv, TypeOK, Height
<1>2. SubSeq(chain, 1, Height) = chain
  BY <1>1 DEF Height
<1>3. ASSUME NEW tx, Extend(tx),
             \/ tx \in Mineable(chain)
             \/ \E fn \in {"toggle", "mint", "none"} : tx = Others(fn)
      PROVE  Grows(Height, tx)
  <2>1. tx \in Mineable(chain) => tx \in signed /\ tx.nonce = Cardinality(OwnUpTo(Height)) + 1
    BY <1>1, OwnBlocks DEF Mineable, NextNonce
  <2> QED
    BY <1>1, <1>2, <1>3, <2>1 DEF Extend, Latest, Grows
<1>4. CASE Mine \/ Seal \/ ForeignTransaction
  BY <1>3, <1>4 DEF Mine, Seal, ForeignTransaction
<1>5. CASE Reorganise
  <2>1. /\ Height > 1 /\ reorgs' = reorgs + 1
        /\ UNCHANGED <<signed, reviewed, flow, outcome>>
    BY <1>5 DEF Reorganise
  <2> DEFINE kept == SubSeq(chain, 1, Height - 1)
  <2>2. PICK tx \in Mineable(kept) \cup {Others("none")} :
          chain' = Append(kept, Executed(chain[Height - 1], tx, reorgs + 1))
    BY <1>1, <1>5, <2>1, OwnBlocks DEF Reorganise
  <2>3. tx \in Mineable(kept) => tx \in signed /\ tx.nonce = Cardinality(OwnUpTo(Height - 1)) + 1
    BY <1>1, <2>1, OwnBlocks DEF Mineable, NextNonce
  <2>4. Grows(Height - 1, tx)
    BY <1>1, <2>1, <2>2, <2>3 DEF Grows
  <2> QED
    BY <2>4
<1> QED
  BY <1>4, <1>5

LEMMA ChainStep ==
  ASSUME SenderInv, Mine \/ Seal \/ ForeignTransaction \/ Reorganise
  PROVE  SenderInv'
<1>1. PICK h, tx : Grows(h, tx)
  BY ChainGrows
<1>2. budget' \in [allowance : Nat, submits : [Forms -> Nat], events : Nat]
  BY BudgetType DEF SenderInv, Mine, Seal, ForeignTransaction, Reorganise
<1> QED
  BY <1>1, <1>2, GrownInv

-------------------------------------------------------------------------------
(* A transaction is signed *)

\* Another transaction for the nonce, and the step, of an old one: it does the
\* same or cancels.
Repeats(new, old) ==
  /\ new.nonce = old.nonce /\ new.submission = old.submission /\ new.step = old.step
  /\ new.call \in {old.call, Call("cancel", 0)}

\* The first transaction of a step, under the next nonce.
Starting(new) ==
  /\ new.nonce = Cardinality(Nonces) + 1
  /\ new.submission \in Submissions /\ outcome[new.submission].result # "none"
  /\ \A t \in SignedFor(new.submission) :
       t.step # new.step /\ ~(new.call.fn = "deposit" /\ t.call.fn = "deposit")

Signs(new) ==
  /\ new \in Tx /\ new.hash = Cardinality(signed) + 1
  /\ signed' = signed \cup {new}
  /\ UNCHANGED <<chain, reorgs, reviewed, outcome>>

LEMMA NoncesFinite ==
  ASSUME SignedSound
  PROVE  IsFiniteSet(Nonces) /\ Cardinality(Nonces) \in Nat
<1> DEFINE nonce == [t \in signed |-> t.nonce]
<1>1. nonce \in Surjection(signed, Nonces)
  BY DEF Nonces, Surjection
<1>2. IsFiniteSet(Nonces)
  BY <1>1, FS_Surjection DEF SignedSound
<1> QED
  BY <1>2, FS_CardinalityType

LEMMA SignedSoundGrows ==
  ASSUME TypeOK, SignedSound, NEW new, Signs(new),
         Starting(new) \/ \E old \in signed : Repeats(new, old)
  PROVE  SignedSound'
<1>1. IsFiniteSet(signed) /\ Cardinality(signed) \in Nat
  BY FS_CardinalityType DEF SignedSound
<1>2. new \notin signed /\ \A t \in signed : t.hash # new.hash
  BY <1>1 DEF SignedSound, Signs
<1>3. signed' = signed \cup {new} /\ outcome' = outcome /\ new.hash = Cardinality(signed) + 1
  BY DEF Signs
<1>4. IsFiniteSet(signed') /\ Cardinality(signed') = Cardinality(signed) + 1
  BY <1>1, <1>2, <1>3, FS_AddElement
<1>5. \A t \in signed : /\ t.hash \in 1..Cardinality(signed)
                        /\ t.nonce \in Nonces /\ t.submission \in Submissions
                        /\ outcome[t.submission].result # "none"
  BY DEF SignedSound, Nonces
<1>6. Nonces' = Nonces \cup {new.nonce}
  BY <1>3 DEF Nonces
<1>7. ASSUME NEW old \in signed, Repeats(new, old)
      PROVE  SignedSound'
  <2>1. Nonces' = Nonces
    BY <1>5, <1>6, <1>7 DEF Repeats
  <2>2. \A t \in signed' : /\ t.hash \in 1..Cardinality(signed')
                           /\ t.submission \in Submissions /\ outcome'[t.submission].result # "none"
    BY <1>1, <1>3, <1>4, <1>5, <1>7 DEF Repeats
  <2>3. \A t, u \in signed' : t.hash = u.hash => t = u
    BY <1>2, <1>3 DEF SignedSound
  <2>4. \A t \in signed : /\ t.nonce = new.nonce <=> t.submission = new.submission /\ t.step = new.step
                          /\ t.submission = new.submission /\ t.call.fn = "deposit"
                             /\ new.call.fn = "deposit" => t.step = new.step
    BY <1>7 DEF Repeats, SignedSound, Call
  <2>5. \A t, u \in signed' :
          t.nonce = u.nonce <=> t.submission = u.submission /\ t.step = u.step
    BY <1>3, <2>4 DEF SignedSound
  <2>6. \A t, u \in signed' :
          t.submission = u.submission /\ t.call.fn = "deposit" /\ u.call.fn = "deposit"
          => t.step = u.step
    BY <1>3, <2>4 DEF SignedSound
  <2>7. Nonces' = 1..Cardinality(Nonces')
    BY <2>1 DEF SignedSound
  <2> QED
    BY <1>4, <2>2, <2>3, <2>5, <2>6, <2>7 DEF SignedSound
<1>8. CASE Starting(new)
  <2>1. new.nonce = Cardinality(Nonces) + 1 /\ Nonces = 1..Cardinality(Nonces)
        /\ Cardinality(Nonces) \in Nat
    BY <1>8, NoncesFinite DEF Starting, SignedSound
  <2>2. new.nonce \notin Nonces
    BY <2>1
  <2>3. Nonces' = 1..Cardinality(Nonces')
    <3>1. IsFiniteSet(Nonces)
      BY NoncesFinite
    <3>2. Cardinality(Nonces') = Cardinality(Nonces) + 1
      BY <1>6, <2>2, <3>1, FS_AddElement
    <3>3. Nonces' = 1..Cardinality(Nonces) + 1
      BY <1>6, <2>1
    <3> QED
      BY <3>2, <3>3
  <2>4. \A t \in signed' : /\ t.hash \in 1..Cardinality(signed')
                           /\ t.submission \in Submissions /\ outcome'[t.submission].result # "none"
    BY <1>1, <1>3, <1>4, <1>5, <1>8 DEF Starting
  <2>5. \A t, u \in signed' : t.hash = u.hash => t = u
    BY <1>2, <1>3 DEF SignedSound
  <2>6. \A t \in signed : /\ t.nonce # new.nonce
                          /\ ~(t.submission = new.submission /\ t.step = new.step)
                          /\ ~(t.submission = new.submission /\ t.call.fn = "deposit"
                               /\ new.call.fn = "deposit")
    BY <1>5, <1>8, <2>2 DEF Starting, SignedFor
  <2>7. \A t, u \in signed' :
          t.nonce = u.nonce <=> t.submission = u.submission /\ t.step = u.step
    BY <1>3, <2>6 DEF SignedSound
  <2>8. \A t, u \in signed' :
          t.submission = u.submission /\ t.call.fn = "deposit" /\ u.call.fn = "deposit"
          => t.step = u.step
    BY <1>3, <2>6 DEF SignedSound
  <2> QED
    BY <1>4, <2>3, <2>4, <2>5, <2>7, <2>8 DEF SignedSound
<1> QED
  BY <1>7, <1>8

\* The blocks of the chain stay signed.
LEMMA SignedChain ==
  ASSUME ChainSound, NEW new, Signs(new)
  PROVE  ChainSound'
<1>1. signed \subseteq signed' /\ UNCHANGED <<chain, reorgs>>
  BY DEF Signs
<1>2. Height' = Height /\ \A n : OwnUpTo(n)' = OwnUpTo(n)
  BY <1>1 DEF Height, OwnUpTo
<1> QED
  BY <1>1, <1>2 DEF ChainSound

\* What is known of the submissions survives.
LEMMA SignedUnderWay ==
  ASSUME TypeOK, NEW new, Signs(new), NEW r \in Flow, UnderWay(r),
         new.submission = r.id => \E old \in signed : Repeats(new, old)
  PROVE  UnderWay(r)'
<1>1. signed' = signed \cup {new} /\ UNCHANGED <<chain, reorgs, reviewed, outcome>>
  BY DEF Signs
<1>2. UNCHANGED <<Height, Final>>
  BY <1>1 DEF Height, Final
<1>3. Planned(r)'
  BY <1>1 DEF UnderWay, Planned
<1>4. Followed(r)'
  <2>1. ASSUME NEW t \in SignedFor(r.id)'
        PROVE  /\ t.step \in 1..r.step
               /\ r.stage \in Unsigned => t.step # r.step
               /\ t.call \in {r.steps[t.step], Call("cancel", 0)}
               /\ t.step < r.step => NonceFinal(t.nonce)'
    <3>1. \E u \in SignedFor(r.id) : u.nonce = t.nonce /\ u.step = t.step
                                     /\ t.call \in {u.call, Call("cancel", 0)}
      BY <1>1, <2>1 DEF SignedFor, Repeats
    <3>2. \A nonce : NonceFinal(nonce)' <=> NonceFinal(nonce)
      BY <1>1, <1>2 DEF NonceFinal
    <3> QED
      BY <3>1, <3>2 DEF UnderWay, Followed
  <2>2. \A s, i : Settled(s, i)' <=> Settled(s, i)
    BY <1>1, <1>2 DEF Settled
  <2> QED
    BY <2>1, <2>2 DEF UnderWay, Followed
<1>5. \A point : Canonical(point)' <=> Canonical(point)
  BY <1>1, <1>2 DEF Canonical
<1>6. PinHolds(r)'
  BY <1>1, <1>2, <1>5 DEF UnderWay, PinHolds
<1>7. SignedStep(r)'
  BY <1>1 DEF UnderWay, SignedStep, SignedFor
<1>8. SightHolds(r)'
  BY <1>1, <1>2, <1>5 DEF UnderWay, SightHolds
<1> QED
  BY <1>1, <1>3, <1>4, <1>6, <1>7, <1>8 DEF UnderWay

LEMMA SignedEnds ==
  ASSUME TypeOK, EndsSound, NEW new, Signs(new),
         \/ outcome[new.submission].result \notin {"unsent", "cancelled"}
         \/ \E old \in signed : Repeats(new, old)
  PROVE  EndsSound'
<1>1. signed' = signed \cup {new} /\ UNCHANGED <<chain, outcome>>
  BY DEF Signs
<1>2. UNCHANGED <<Height, Final>>
  BY <1>1 DEF Height, Final
<1> SUFFICES ASSUME NEW s \in Submissions
             PROVE  EndSound(s)'
  BY DEF EndsSound
<1>3. EndSound(s)
  BY DEF EndsSound
<1>4. Deposits(s)' = Deposits(s)
  BY <1>1, <1>2 DEF Deposits
<1>5. outcome[s].result \in {"unsent", "cancelled"} =>
        \A t \in SignedFor(s)' : t.call.fn = "deposit" =>
          \E u \in SignedFor(s) : u.call.fn = "deposit" /\ u.nonce = t.nonce
  BY <1>1 DEF SignedFor, Repeats, Call
<1>6. (outcome[s].result = "unsent" => \A t \in SignedFor(s) : t.call.fn # "deposit")'
  BY <1>1, <1>3, <1>5 DEF EndSound
<1>7. (outcome[s].result = "cancelled" =>
       \A t \in SignedFor(s) : t.call.fn = "deposit" =>
         \E n \in Final : chain[n].tx.nonce = t.nonce /\ chain[n].tx.call.fn # "deposit")'
  BY <1>1, <1>2, <1>3, <1>5 DEF EndSound
<1>8. (outcome[s].result = "confirmed" =>
       \E n \in Final \cap Deposits(s) : chain[n].minted = outcome[s].position)'
  BY <1>1, <1>2, <1>3, <1>4 DEF EndSound
<1> QED
  BY <1>6, <1>7, <1>8 DEF EndSound

LEMMA ReplaceStep ==
  ASSUME SenderInv, Replace
  PROVE  SenderInv'
<1> USE DEF SenderInv
<1>1. UNCHANGED <<chain, reorgs, reviewed, flow, outcome>> /\ Interference
  BY DEF Replace
<1>2. PICK old \in signed : \E call \in {old.call, Call("cancel", 0)} :
        signed' = signed \cup {[old EXCEPT !.hash = NewHash, !.call = call]}
  BY DEF Replace
<1>3. PICK call \in {old.call, Call("cancel", 0)} :
        signed' = signed \cup {[old EXCEPT !.hash = NewHash, !.call = call]}
  BY <1>2
<1> DEFINE new == [old EXCEPT !.hash = NewHash, !.call = call]
<1>4. new \in Tx /\ new.hash = Cardinality(signed) + 1
  <2>1. old \in Tx /\ call \in Calls
    BY DEF TypeOK, Tx, Calls, Call
  <2>2. NewHash = Cardinality(signed) + 1 /\ NewHash \in Nat
    BY FS_CardinalityType DEF NewHash, SignedSound
  <2> QED
    BY <2>1, <2>2 DEF Tx
<1>5. Signs(new) /\ Repeats(new, old)
  <2>1. old \in Tx
    BY DEF TypeOK
  <2> QED
    BY <1>1, <1>3, <1>4, <2>1 DEF Signs, Repeats, Tx
<1> HIDE DEF new
<1>6. TypeOK'
  BY <1>1, <1>4, <1>5, BudgetType DEF TypeOK, Signs
<1>7. ChainSound' /\ SignedSound' /\ EndsSound'
  BY <1>5, SignedChain, SignedSoundGrows, SignedEnds
<1>8. FlowSound'
  <2>1. ASSUME NEW f \in Forms
        PROVE  (IF At(f, "idle") THEN flow[f] = Idle ELSE UnderWay(flow[f]))'
    <3>1. CASE At(f, "idle")
      BY <1>1, <3>1 DEF FlowSound, At
    <3>2. CASE ~At(f, "idle")
      <4>1. UnderWay(flow[f]) /\ flow[f] \in Flow
        BY <3>2 DEF FlowSound, TypeOK
      <4>2. UnderWay(flow[f])'
        BY <1>1, <1>5, <4>1, SignedUnderWay
      <4> QED
        BY <1>1, <3>2, <4>2 DEF At
    <3> QED
      BY <3>1, <3>2
  <2>2. (\A f, g \in Forms :
           f # g /\ ~At(f, "idle") /\ ~At(g, "idle") => flow[f].id # flow[g].id)'
    BY <1>1 DEF FlowSound, At
  <2> QED
    BY <2>1, <2>2 DEF FlowSound
<1> QED
  BY <1>6, <1>7, <1>8

-------------------------------------------------------------------------------
(* A submission moves on or ends *)

LEMMA StillUnderWay ==
  ASSUME UNCHANGED <<chain, reorgs, signed, reviewed>>, NEW r, UnderWay(r),
         outcome'[r.id] = outcome[r.id]
  PROVE  UnderWay(r)'
<1>1. UNCHANGED <<Height, Final>> /\ \A s : SignedFor(s)' = SignedFor(s)
  BY DEF Height, Final, SignedFor
<1>2. /\ \A point : Canonical(point)' <=> Canonical(point)
      /\ \A s, i : Settled(s, i)' <=> Settled(s, i)
      /\ \A nonce : NonceFinal(nonce)' <=> NonceFinal(nonce)
  BY <1>1 DEF Canonical, Settled, NonceFinal
<1>3. Planned(r)'
  BY DEF UnderWay, Planned
<1>4. Followed(r)'
  BY <1>1, <1>2 DEF UnderWay, Followed
<1>5. PinHolds(r)'
  BY <1>1, <1>2 DEF UnderWay, PinHolds
<1>6. SignedStep(r)'
  BY <1>1 DEF UnderWay, SignedStep
<1>7. SightHolds(r)'
  BY <1>1, <1>2 DEF UnderWay, SightHolds
<1> QED
  BY <1>3, <1>4, <1>5, <1>6, <1>7 DEF UnderWay

LEMMA StillSound ==
  ASSUME ChainSound, SignedSound, UNCHANGED <<chain, reorgs, signed>>,
         \A s \in Submissions : outcome[s].result # "none" => outcome'[s].result # "none"
  PROVE  ChainSound' /\ SignedSound'
<1>1. Height' = Height /\ Nonces' = Nonces /\ \A n : OwnUpTo(n)' = OwnUpTo(n)
  BY DEF Height, Nonces, OwnUpTo
<1>2. ChainSound'
  BY <1>1 DEF ChainSound
<1>3. SignedSound'
  BY <1>1 DEF SignedSound
<1> QED
  BY <1>2, <1>3

LEMMA StillEnded ==
  ASSUME UNCHANGED <<chain, signed>>, NEW s, EndSound(s), outcome'[s] = outcome[s]
  PROVE  EndSound(s)'
<1>1. UNCHANGED <<Height, Final>> /\ SignedFor(s)' = SignedFor(s)
  BY DEF Height, Final, SignedFor
<1>2. Deposits(s)' = Deposits(s)
  BY <1>1 DEF Deposits
<1> QED
  BY <1>1, <1>2 DEF EndSound

\* Form f goes on as q.
Goes(f, q) ==
  /\ flow' = [flow EXCEPT ![f] = q]
  /\ q \in Flow /\ q.stage # "idle" /\ q.id = flow[f].id
  /\ q.steps # <<>> => q.step \in 1..Len(q.steps)
  /\ UnderWay(q)

LEMMA GoesOn ==
  ASSUME SenderInv, NEW f \in Forms, ~At(f, "idle"), NEW q, Goes(f, q), Continues(f)
  PROVE  SenderInv'
<1> USE DEF SenderInv
<1>1. UNCHANGED <<chain, reorgs, signed, reviewed, budget, outcome>>
  BY DEF Continues, Quiet, external
<1>2. flow' \in [Forms -> Flow] /\ flow'[f] = q /\ \A g \in Forms : g # f => flow'[g] = flow[g]
  BY DEF Goes, TypeOK
<1>3. TypeOK'
  <2>1. \A g \in Forms : flow'[g].steps # <<>> => flow'[g].step \in 1..Len(flow'[g].steps)
    BY <1>2 DEF Goes, TypeOK
  <2> QED
    BY <1>1, <1>2, <2>1 DEF TypeOK
<1>4. ChainSound' /\ SignedSound'
  BY <1>1, StillSound
<1>5. FlowSound'
  <2>1. ASSUME NEW g \in Forms
        PROVE  (IF At(g, "idle") THEN flow[g] = Idle ELSE UnderWay(flow[g]))'
    <3>1. CASE g = f
      BY <1>1, <1>2, <3>1, StillUnderWay DEF Goes, At
    <3>2. CASE g # f /\ At(g, "idle")
      BY <1>2, <3>2 DEF FlowSound, At
    <3>3. CASE g # f /\ ~At(g, "idle")
      <4>1. UnderWay(flow[g])
        BY <3>3 DEF FlowSound
      <4>2. UnderWay(flow[g])'
        BY <1>1, <1>2, <3>3, <4>1, StillUnderWay
      <4> QED
        BY <1>2, <3>3, <4>2 DEF At
    <3> QED
      BY <3>1, <3>2, <3>3
  <2>2. (\A g, h \in Forms :
           g # h /\ ~At(g, "idle") /\ ~At(h, "idle") => flow[g].id # flow[h].id)'
    BY <1>2 DEF FlowSound, At, Goes
  <2> QED
    BY <2>1, <2>2 DEF FlowSound
<1>6. EndsSound'
  BY <1>1, StillEnded DEF EndsSound
<1> QED
  BY <1>3, <1>4, <1>5, <1>6

\* Form f is free again, and its submission ends with a result that is true of it.
LEMMA Ends ==
  ASSUME SenderInv, NEW f \in Forms, ~At(f, "idle"), Quiet(f),
         NEW result \in Outcomes \ {"none", "running"}, NEW position \in Nat,
         End(f, result, position),
         result = "unsent" => \A t \in SignedFor(flow[f].id) : t.call.fn # "deposit",
         result = "cancelled" =>
           \A t \in SignedFor(flow[f].id) : t.call.fn = "deposit" =>
             \E n \in Final : chain[n].tx.nonce = t.nonce /\ chain[n].tx.call.fn # "deposit",
         result = "confirmed" =>
           \E n \in Final \cap Deposits(flow[f].id) : chain[n].minted = position
  PROVE  SenderInv'
<1> USE DEF SenderInv
<1>1. UNCHANGED <<chain, reorgs, signed, reviewed, budget>>
  BY DEF Quiet, external
<1>2. Idle \in Flow /\ Idle.stage = "idle" /\ Idle.steps = <<>>
  BY DEF Idle, Flow, Stages, Point, Nowhere
<1>3. flow' \in [Forms -> Flow] /\ flow'[f] = Idle /\ \A g \in Forms : g # f => flow'[g] = flow[g]
  BY <1>2 DEF End, TypeOK
<1>4. flow[f].id \in Submissions /\ outcome[flow[f].id].result = "running"
  BY DEF FlowSound, UnderWay, Planned
<1>5. /\ outcome' \in [Submissions -> Report]
      /\ outcome'[flow[f].id] = [result |-> result, position |-> position]
      /\ \A s \in Submissions : s # flow[f].id => outcome'[s] = outcome[s]
  BY <1>4 DEF End, TypeOK, Report
<1>6. TypeOK'
  <2>1. \A g \in Forms : flow'[g].steps # <<>> => flow'[g].step \in 1..Len(flow'[g].steps)
    BY <1>2, <1>3 DEF TypeOK
  <2> QED
    BY <1>1, <1>3, <1>5, <2>1 DEF TypeOK
<1>7. ChainSound' /\ SignedSound'
  BY <1>1, <1>5, StillSound
<1>8. FlowSound'
  <2>1. ASSUME NEW g \in Forms
        PROVE  (IF At(g, "idle") THEN flow[g] = Idle ELSE UnderWay(flow[g]))'
    <3>1. CASE g = f
      BY <1>2, <1>3, <3>1 DEF At, Idle
    <3>2. CASE g # f /\ At(g, "idle")
      BY <1>3, <3>2 DEF FlowSound, At, Idle
    <3>3. CASE g # f /\ ~At(g, "idle")
      <4>1. UnderWay(flow[g]) /\ flow[g].id # flow[f].id /\ flow[g].id \in Submissions
        BY <3>3 DEF FlowSound, UnderWay, Planned
      <4>2. UnderWay(flow[g])'
        BY <1>1, <1>3, <1>5, <3>3, <4>1, StillUnderWay
      <4> QED
        BY <1>3, <3>3, <4>2 DEF At
    <3> QED
      BY <3>1, <3>2, <3>3
  <2>2. (\A g, h \in Forms :
           g # h /\ ~At(g, "idle") /\ ~At(h, "idle") => flow[g].id # flow[h].id)'
    BY <1>2, <1>3 DEF FlowSound, At
  <2> QED
    BY <2>1, <2>2 DEF FlowSound
<1>9. EndsSound'
  <2> SUFFICES ASSUME NEW s \in Submissions
               PROVE  EndSound(s)'
    BY DEF EndsSound
  <2>1. CASE s # flow[f].id
    BY <1>1, <1>5, <2>1, StillEnded DEF EndsSound
  <2>2. CASE s = flow[f].id
    <3>1. UNCHANGED <<Height, Final>> /\ SignedFor(s)' = SignedFor(s)
      BY <1>1 DEF Height, Final, SignedFor
    <3>2. Deposits(s)' = Deposits(s)
      BY <1>1, <3>1 DEF Deposits
    <3>3. outcome'[s].result = result /\ outcome'[s].position = position
      BY <1>5, <2>2
    <3> QED
      BY <1>1, <2>2, <3>1, <3>2, <3>3 DEF EndSound
  <2> QED
    BY <2>1, <2>2
<1> QED
  BY <1>6, <1>7, <1>8, <1>9

-------------------------------------------------------------------------------
(* One step of a submission after another *)

\* A form that is not idle: its record, and what is known of it.
LEMMA Busy ==
  ASSUME SenderInv, NEW f \in Forms, ~At(f, "idle")
  PROVE  /\ flow[f] \in Flow /\ UnderWay(flow[f])
         /\ flow[f].steps # <<>> => flow[f].step \in 1..Len(flow[f].steps)
         /\ flow[f].id \in Submissions /\ outcome[flow[f].id].result = "running"
BY DEF SenderInv, TypeOK, FlowSound, UnderWay, Planned

LEMMA FailUnsent ==
  ASSUME SenderInv, NEW f \in Forms, flow[f].stage \in Unsigned, Fail(f, "unsent"), Quiet(f)
  PROVE  SenderInv'
<1>1. ~At(f, "idle")
  BY DEF At, Unsigned
<1> DEFINE r == flow[f]
<1>2. r \in Flow /\ UnderWay(r) /\ (r.steps # <<>> => r.step \in 1..Len(r.steps))
  BY <1>1, Busy
<1>3. \A t \in SignedFor(r.id) :
        t.step \in 1..r.step /\ t.step # r.step /\ t.call \in {r.steps[t.step], Call("cancel", 0)}
  BY <1>2 DEF UnderWay, Followed
<1>4. \A t \in SignedFor(r.id) : t.call.fn # "deposit"
  <2> TAKE t \in SignedFor(r.id)
  <2>1. r.step \in Nat /\ r.stage # "plan"
    BY <1>2, <1>3 DEF Flow, UnderWay, Planned
  <2>2. t.step \in 1..Len(r.steps) /\ t.step # Len(r.steps)
    BY <1>2, <1>3, <2>1 DEF UnderWay, Planned, Flow
  <2>3. r.steps[t.step].fn # "deposit"
    BY <1>2, <2>1, <2>2 DEF UnderWay, Planned
  <2> QED
    BY <1>3, <2>3 DEF Call
<1> QED
  BY <1>1, <1>4, Ends DEF Fail, Outcomes

LEMMA FailUnconfirmed ==
  ASSUME SenderInv, NEW f \in Forms, ~At(f, "idle"), Fail(f, "unconfirmed"), Quiet(f)
  PROVE  SenderInv'
BY Ends DEF Fail, Outcomes

\* A record that keeps the plan keeps what is known of it.
LEMMA SamePlan ==
  ASSUME NEW r, NEW q, UnderWay(r), q.id = r.id, q.steps = r.steps, q.step = r.step,
         r.stage # "plan", q.stage # "plan", q.stage \in Unsigned => r.stage \in Unsigned
  PROVE  Planned(q) /\ Followed(q)
BY DEF UnderWay, Planned, Followed

LEMMA ApprovalsOnly ==
  ASSUME NEW allowance \in Nat, NEW amount \in Nat \ {0}
  PROVE  /\ Approvals(allowance, amount) \in Seq(Calls)
         /\ \A i \in 1..Len(Approvals(allowance, amount)) :
              Approvals(allowance, amount)[i].fn = "approve"
<1>1. \A n \in Nat : Call("approve", n) \in Calls /\ Call("approve", n).fn = "approve"
  BY DEF Call, Calls
<1>2. Call("approve", 0) \in Calls /\ Call("approve", amount) \in Calls
  BY <1>1
<1>3. CASE allowance >= amount
  <2>1. Approvals(allowance, amount) = <<>>
    BY <1>3 DEF Approvals
  <2> QED
    BY <2>1
<1>4. CASE ~(allowance >= amount) /\ allowance = 0
  <2>1. Approvals(allowance, amount) = <<Call("approve", amount)>>
    BY <1>4 DEF Approvals
  <2> QED
    BY <1>1, <1>2, <2>1
<1>5. CASE ~(allowance >= amount) /\ allowance # 0
  <2>1. Approvals(allowance, amount) = <<Call("approve", 0), Call("approve", amount)>>
    BY <1>5 DEF Approvals
  <2> QED
    BY <1>1, <1>2, <2>1
<1> QED
  BY <1>3, <1>4, <1>5

LEMMA PlanStep ==
  ASSUME SenderInv, NEW f \in Forms, Plan(f)
  PROVE  SenderInv'
<1>1. flow[f].stage = "plan" /\ ~At(f, "idle") /\ Quiet(f)
  BY DEF Plan, At
<1>2. CASE ~Latest.open
  BY <1>1, <1>2, FailUnsent DEF Plan, Unsigned
<1>3. CASE Latest.open
  <2> DEFINE r == flow[f]
             approvals == Approvals(Latest.allowance, Amount[f])
             q == [r EXCEPT !.stage = "preflight",
                            !.steps = Append(approvals, Call("deposit", Amount[f]))]
  <2>1. r \in Flow /\ UnderWay(r)
    BY <1>1, Busy
  <2>2. approvals \in Seq(Calls) /\ \A i \in 1..Len(approvals) : approvals[i].fn = "approve"
    <3>1. Latest \in Block
      BY DEF SenderInv, TypeOK, Latest, Height
    <3>2. Latest.allowance \in Nat /\ Amount[f] \in Nat \ {0}
      BY <3>1 DEF Block
    <3> QED
      BY <3>2, ApprovalsOnly
  <2>3. Call("deposit", Amount[f]) \in Calls /\ Call("deposit", Amount[f]).fn = "deposit"
    BY DEF Call, Calls
  <2> HIDE DEF approvals
  <2>4. /\ q \in Flow /\ q.stage = "preflight" /\ q.id = r.id /\ q.step = r.step
        /\ q.steps = Append(approvals, Call("deposit", Amount[f]))
        /\ q.away = r.away /\ q.read = r.read
    <3>1. Append(approvals, Call("deposit", Amount[f])) \in Seq(Calls)
      BY <2>2, <2>3
    <3> QED
      BY <2>1, <3>1 DEF Flow, Stages
  <2>5. flow' = [flow EXCEPT ![f] = q] /\ Continues(f)
    BY <1>1, <1>3 DEF Plan, Continues, approvals, SenderInv, TypeOK
  <2> HIDE DEF q
  <2>6. /\ Len(q.steps) = Len(approvals) + 1 /\ Len(approvals) \in Nat
        /\ \A i \in 1..Len(q.steps) :
             q.steps[i] = IF i = Len(q.steps) THEN Call("deposit", Amount[f]) ELSE approvals[i]
    BY <2>2, <2>3, <2>4
  <2>7. r.step = 1 /\ \A t \in SignedFor(r.id) : FALSE
    <3>1. r.step = 1
      BY <1>1, <2>1 DEF UnderWay, Planned
    <3>2. \A t \in SignedFor(r.id) : t.step \in 1..r.step /\ t.step # r.step
      BY <1>1, <2>1 DEF UnderWay, Followed, Unsigned
    <3> QED
      BY <3>1, <3>2
  <2>8. Planned(q)
    <3>1. q.steps # <<>>
      BY <2>6
    <3>2. \A i \in 1..Len(q.steps) : (q.steps[i].fn = "deposit" <=> i = Len(q.steps))
                                     /\ q.steps[i].fn # "cancel"
      <4> TAKE i \in 1..Len(q.steps)
      <4>1. CASE i = Len(q.steps)
        BY <2>3, <2>6, <4>1
      <4>2. CASE i # Len(q.steps)
        BY <2>2, <2>6, <4>2
      <4> QED
        BY <4>1, <4>2
    <3> QED
      BY <2>1, <2>4, <3>1, <3>2 DEF UnderWay, Planned
  <2>9. Followed(q)
    BY <2>4, <2>7 DEF Followed
  <2>10. UnderWay(q)
    BY <1>1, <2>1, <2>4, <2>8, <2>9
       DEF UnderWay, PinHolds, SignedStep, SightHolds, Pinned, Sighted
  <2>11. q.step \in 1..Len(q.steps)
    BY <2>4, <2>6, <2>7
  <2> QED
    BY <1>1, <2>4, <2>5, <2>10, <2>11, GoesOn DEF Goes
<1> QED
  BY <1>2, <1>3

LEMMA PreflightStep ==
  ASSUME SenderInv, NEW f \in Forms, Preflight(f)
  PROVE  SenderInv'
<1>1. flow[f].stage = "preflight" /\ ~At(f, "idle") /\ Quiet(f)
  BY DEF Preflight, At
<1>2. CASE ~Latest.open
  BY <1>1, <1>2, FailUnsent DEF Preflight, Unsigned
<1>3. CASE Latest.open
  <2> DEFINE r == flow[f]
             q == [r EXCEPT !.stage = "finish",
                            !.pinned = [height |-> Height, fork |-> Latest.fork]]
  <2>1. r \in Flow /\ UnderWay(r) /\ (r.steps # <<>> => r.step \in 1..Len(r.steps))
    BY <1>1, Busy
  <2>2. Height \in Nat \ {0} /\ Latest.fork \in Nat /\ Latest.fork <= reorgs
        /\ Latest = chain[Height]
    <3>1. Height \in Nat \ {0} /\ Latest \in Block
      BY DEF SenderInv, TypeOK, Latest, Height
    <3> QED
      BY <3>1 DEF SenderInv, ChainSound, Latest, Block
  <2>3. /\ q \in Flow /\ q.stage = "finish" /\ q.id = r.id /\ q.step = r.step
        /\ q.steps = r.steps /\ q.away = r.away /\ q.read = r.read
        /\ q.pinned.height = Height /\ q.pinned.fork = Latest.fork
    BY <2>1, <2>2 DEF Flow, Stages, Point
  <2>4. flow' = [flow EXCEPT ![f] = q] /\ Continues(f)
    BY <1>1, <1>3 DEF Preflight, Continues, SenderInv, TypeOK
  <2> HIDE DEF q
  <2>5. Planned(q) /\ Followed(q)
    BY <1>1, <2>1, <2>3, SamePlan DEF Unsigned
  <2>6. PinHolds(q)
    BY <1>3, <2>2, <2>3 DEF PinHolds
  <2>7. UnderWay(q)
    BY <1>1, <2>1, <2>3, <2>5, <2>6 DEF UnderWay, SignedStep, SightHolds, Sighted
  <2> QED
    BY <1>1, <2>1, <2>3, <2>4, <2>7, GoesOn DEF Goes
<1> QED
  BY <1>2, <1>3

\* From one stage to the next without a signature and without new evidence.
LEMMA CheckedStep ==
  ASSUME SenderInv, NEW f \in Forms, NEW stage \in Pinned, Continues(f),
         flow[f].stage \in Pinned, NEW away \in BOOLEAN,
         flow' = [flow EXCEPT ![f] = [@ EXCEPT !.stage = stage, !.away = away]],
         away => stage = "recheck" /\ ~reviewed
  PROVE  SenderInv'
<1> DEFINE r == flow[f]
           q == [r EXCEPT !.stage = stage, !.away = away]
<1>1. ~At(f, "idle")
  BY DEF At, Pinned
<1>2. r \in Flow /\ UnderWay(r) /\ (r.steps # <<>> => r.step \in 1..Len(r.steps))
  BY <1>1, Busy
<1>3. /\ q \in Flow /\ q.stage = stage /\ q.id = r.id /\ q.step = r.step /\ q.steps = r.steps
      /\ q.away = away /\ q.read = r.read /\ q.pinned = r.pinned
  BY <1>2 DEF Flow, Stages, Pinned
<1>4. flow' = [flow EXCEPT ![f] = q]
  BY DEF SenderInv, TypeOK
<1> HIDE DEF q
<1>5. Planned(q) /\ Followed(q)
  BY <1>2, <1>3, SamePlan DEF Unsigned, Pinned
<1>6. PinHolds(q)
  BY <1>2, <1>3 DEF UnderWay, PinHolds
<1>7. UnderWay(q)
  BY <1>2, <1>3, <1>5, <1>6 DEF UnderWay, SignedStep, SightHolds, Sighted, Pinned
<1> QED
  BY <1>1, <1>2, <1>3, <1>4, <1>7, GoesOn DEF Goes, Pinned

\* The same, when the wallet was not away.
LEMMA GotoStep ==
  ASSUME SenderInv, NEW f \in Forms, NEW stage \in Pinned, Continues(f),
         flow[f].stage \in Pinned, Goto(f, stage), ~flow[f].away
  PROVE  SenderInv'
<1>1. flow[f] \in Flow /\ flow \in [Forms -> Flow]
  BY DEF SenderInv, TypeOK
<1>2. [flow[f] EXCEPT !.stage = stage] = [flow[f] EXCEPT !.stage = stage, !.away = FALSE]
  BY <1>1 DEF Flow
<1>3. flow' = [flow EXCEPT ![f] = [@ EXCEPT !.stage = stage, !.away = FALSE]]
  BY <1>1, <1>2 DEF Goto
<1> QED
  BY <1>3, CheckedStep

LEMMA AwayOnly ==
  ASSUME SenderInv, NEW f \in Forms, ~At(f, "idle")
  PROVE  flow[f].away => flow[f].stage = "recheck" /\ ~reviewed
BY Busy DEF UnderWay

LEMMA CheckSteps ==
  ASSUME SenderInv, NEW f \in Forms,
         \/ FinishPreflight(f) \/ AssertSession(f, "session", "simulate") \/ Simulate(f)
         \/ AssertSession(f, "recheck", "prompt")
  PROVE  SenderInv'
<1>1. Quiet(f)
  BY DEF FinishPreflight, AssertSession, Simulate
<1>2. CASE FinishPreflight(f)
  <2>1. flow[f].stage = "finish" /\ ~At(f, "idle")
    BY <1>2 DEF FinishPreflight, At
  <2>2. CASE Canonical(flow[f].pinned)
    BY <1>1, <1>2, <2>1, <2>2, AwayOnly, GotoStep DEF FinishPreflight, Continues, Pinned
  <2>3. CASE ~Canonical(flow[f].pinned)
    BY <1>1, <1>2, <2>1, <2>3, FailUnsent DEF FinishPreflight, Unsigned
  <2> QED
    BY <2>2, <2>3
<1>3. CASE AssertSession(f, "session", "simulate")
  <2>1. flow[f].stage = "session" /\ ~At(f, "idle")
    BY <1>3 DEF AssertSession, At
  <2>2. CASE reviewed
    BY <1>1, <1>3, <2>1, <2>2, AwayOnly, GotoStep DEF AssertSession, Continues, Pinned
  <2>3. CASE ~reviewed
    BY <1>1, <1>3, <2>1, <2>3, FailUnsent DEF AssertSession, Unsigned
  <2> QED
    BY <2>2, <2>3
<1>4. CASE Simulate(f)
  <2>1. flow[f].stage = "simulate" /\ flow \in [Forms -> Flow] /\ reviewed \in BOOLEAN
    BY <1>4 DEF Simulate, At, SenderInv, TypeOK
  <2>2. CASE Runs(Latest, Step(f))
    <3>1. flow' = [flow EXCEPT ![f] = [@ EXCEPT !.stage = "recheck", !.away = ~reviewed]]
          /\ Continues(f)
      BY <1>1, <1>4, <2>1, <2>2 DEF Simulate, Continues
    <3> QED
      BY <2>1, <3>1, CheckedStep DEF Pinned
  <2>3. CASE ~Runs(Latest, Step(f))
    BY <1>1, <1>4, <2>1, <2>3, FailUnsent DEF Simulate, Unsigned
  <2> QED
    BY <2>2, <2>3
<1>5. CASE AssertSession(f, "recheck", "prompt")
  <2>1. flow[f].stage = "recheck" /\ ~At(f, "idle")
    BY <1>5 DEF AssertSession, At
  <2>2. CASE reviewed
    BY <1>1, <1>5, <2>1, <2>2, AwayOnly, GotoStep DEF AssertSession, Continues, Pinned
  <2>3. CASE ~reviewed
    BY <1>1, <1>5, <2>1, <2>3, FailUnsent DEF AssertSession, Unsigned
  <2> QED
    BY <2>2, <2>3
<1> QED
  BY <1>2, <1>3, <1>4, <1>5

LEMMA SignStep ==
  ASSUME SenderInv, NEW f \in Forms, Sign(f)
  PROVE  SenderInv'
<1> USE DEF SenderInv
<1> DEFINE r == flow[f]
<1> PICK new : new = [hash |-> NewHash, nonce |-> Cardinality({tx.nonce : tx \in signed}) + 1,
                      submission |-> r.id, step |-> r.step, call |-> Step(f)]
  OBVIOUS
<1> PICK q : q = [r EXCEPT !.stage = "wait", !.hash = NewHash, !.pinned = Nowhere,
                           !.away = FALSE]
  OBVIOUS
<1>1. /\ r.stage = "prompt" /\ ~At(f, "idle")
      /\ UNCHANGED <<chain, reorgs, reviewed, budget, outcome>>
      /\ signed' = signed \cup {new}
      /\ flow' = [flow EXCEPT ![f] = q]
  BY DEF Sign, At, external, TypeOK
<1>2. /\ r \in Flow /\ UnderWay(r) /\ r.id \in Submissions /\ outcome[r.id].result = "running"
      /\ r.steps # <<>> /\ r.step \in 1..Len(r.steps) /\ r.steps \in Seq(Calls)
  <2>1. /\ r \in Flow /\ UnderWay(r) /\ (r.steps # <<>> => r.step \in 1..Len(r.steps))
        /\ r.id \in Submissions /\ outcome[r.id].result = "running"
    BY <1>1, Busy
  <2>2. r.steps # <<>>
    BY <1>1, <2>1 DEF UnderWay, Planned
  <2> QED
    BY <2>1, <2>2 DEF Flow
<1>3. Step(f) = r.steps[r.step] /\ Step(f) \in Calls
  BY <1>2 DEF Step
<1>4. NewHash \in Nat /\ NewHash = Cardinality(signed) + 1
      /\ Cardinality({tx.nonce : tx \in signed}) = Cardinality(Nonces)
      /\ Cardinality(Nonces) \in Nat
  <2>1. {tx.nonce : tx \in signed} = Nonces
    BY DEF Nonces
  <2>2. Cardinality(signed) \in Nat
    BY FS_CardinalityType DEF SignedSound
  <2>3. NewHash \in Nat /\ NewHash = Cardinality(signed) + 1
    BY <2>2 DEF NewHash
  <2>4. Cardinality(Nonces) \in Nat
    BY NoncesFinite
  <2> QED
    BY <2>1, <2>3, <2>4
<1>5. /\ new \in Tx /\ new.hash = NewHash /\ new.nonce = Cardinality(Nonces) + 1
      /\ new.submission = r.id /\ new.step = r.step /\ new.call = r.steps[r.step]
  BY <1>2, <1>3, <1>4 DEF Tx, Flow
<1>6. /\ q \in Flow /\ q.stage = "wait" /\ q.id = r.id /\ q.step = r.step /\ q.steps = r.steps
      /\ q.hash = NewHash /\ q.away = FALSE /\ q.read = r.read
  BY <1>2, <1>4 DEF Flow, Stages, Point, Nowhere
<1>7. Signs(new)
  BY <1>1, <1>4, <1>5 DEF Signs
<1>8. ASSUME NEW t \in SignedFor(r.id)
      PROVE  /\ t.step \in 1..r.step - 1 /\ t.call \in {r.steps[t.step], Call("cancel", 0)}
             /\ NonceFinal(t.nonce) /\ t.call.fn # "deposit"
  <2>1. /\ t.step \in 1..r.step /\ t.step # r.step
        /\ t.call \in {r.steps[t.step], Call("cancel", 0)}
        /\ t.step < r.step => NonceFinal(t.nonce)
    BY <1>1, <1>2, <1>8 DEF UnderWay, Followed, Unsigned
  <2>2. r.step \in Nat /\ Len(r.steps) \in Nat
    BY <1>2
  <2>3. t.step \in 1..r.step - 1 /\ t.step < r.step
    BY <2>1, <2>2
  <2>4. t.step \in 1..Len(r.steps) /\ t.step # Len(r.steps)
    BY <1>2, <2>2, <2>3
  <2>5. r.steps[t.step].fn # "deposit"
    BY <1>1, <1>2, <2>4 DEF UnderWay, Planned
  <2> QED
    BY <2>1, <2>3, <2>5 DEF Call
<1>9. Starting(new)
  BY <1>2, <1>5, <1>8 DEF Starting
<1>10. flow' \in [Forms -> Flow] /\ flow'[f] = q /\ \A g \in Forms : g # f => flow'[g] = flow[g]
  BY <1>1, <1>6 DEF TypeOK
<1>11. TypeOK'
  <2>1. \A g \in Forms : flow'[g].steps # <<>> => flow'[g].step \in 1..Len(flow'[g].steps)
    BY <1>2, <1>6, <1>10 DEF TypeOK
  <2> QED
    BY <1>1, <1>5, <1>10, <2>1 DEF TypeOK
<1>12. ChainSound' /\ SignedSound' /\ EndsSound'
  BY <1>2, <1>5, <1>7, <1>9, SignedChain, SignedSoundGrows, SignedEnds
<1>13. UnderWay(q)'
  <2>1. Planned(q)'
    BY <1>1, <1>2, <1>6 DEF UnderWay, Planned
  <2>2. Followed(q)'
    <3>1. UNCHANGED <<Height, Final>>
      BY <1>1 DEF Height, Final
    <3>2. (\A nonce : NonceFinal(nonce)' <=> NonceFinal(nonce))
          /\ (\A s, i : Settled(s, i)' <=> Settled(s, i))
      BY <1>1, <3>1 DEF NonceFinal, Settled
    <3>3. SignedFor(q.id)' = SignedFor(r.id) \cup {new}
      BY <1>1, <1>5, <1>6 DEF SignedFor
    <3>4. r.step \in 1..r.step /\ r.step \in Nat
      BY <1>2
    <3>5. ASSUME NEW t \in SignedFor(q.id)'
          PROVE  /\ t.step \in 1..q.step
                 /\ t.call \in {q.steps[t.step], Call("cancel", 0)}
                 /\ t.step < q.step => NonceFinal(t.nonce)'
      <4>1. CASE t = new
        BY <1>5, <1>6, <3>4, <4>1
      <4>2. CASE t \in SignedFor(r.id)
        BY <1>6, <1>8, <3>2, <3>4, <4>2
      <4> QED
        BY <3>3, <3>5, <4>1, <4>2
    <3> QED
      BY <1>2, <1>6, <3>2, <3>5 DEF UnderWay, Followed, Unsigned
  <2>3. SignedStep(q)'
    <3>1. new \in SignedFor(q.id)'
      BY <1>1, <1>5, <1>6 DEF SignedFor
    <3> QED
      BY <1>5, <1>6, <3>1 DEF SignedStep
  <2>4. q.read # {} => q.stage = "details"
    BY <1>1, <1>2, <1>6 DEF UnderWay
  <2> QED
    BY <1>6, <2>1, <2>2, <2>3, <2>4 DEF UnderWay, PinHolds, SightHolds, Pinned, Sighted
<1>14. FlowSound'
  <2>1. ASSUME NEW g \in Forms
        PROVE  (IF At(g, "idle") THEN flow[g] = Idle ELSE UnderWay(flow[g]))'
    <3>1. CASE g = f
      BY <1>6, <1>10, <1>13, <3>1 DEF At
    <3>2. CASE g # f /\ At(g, "idle")
      BY <1>10, <3>2 DEF FlowSound, At, Idle
    <3>3. CASE g # f /\ ~At(g, "idle")
      <4>1. UnderWay(flow[g]) /\ flow[g].id # r.id /\ flow[g] \in Flow
        BY <1>1, <3>3 DEF FlowSound, TypeOK
      <4>2. UnderWay(flow[g])'
        BY <1>5, <1>7, <1>10, <3>3, <4>1, SignedUnderWay
      <4> QED
        BY <1>10, <3>3, <4>2 DEF At
    <3> QED
      BY <3>1, <3>2, <3>3
  <2>2. (\A g, h \in Forms :
           g # h /\ ~At(g, "idle") /\ ~At(h, "idle") => flow[g].id # flow[h].id)'
    BY <1>1, <1>6, <1>10 DEF FlowSound, At
  <2> QED
    BY <2>1, <2>2 DEF FlowSound
<1> QED
  BY <1>11, <1>12, <1>14

LEMMA SwitchStep ==
  ASSUME SenderInv, Switch
  PROVE  SenderInv'
<1> USE DEF SenderInv
<1>1. /\ UNCHANGED <<chain, reorgs, signed, outcome>> /\ Interference /\ reviewed' \in BOOLEAN
      /\ flow' = [g \in Forms |-> [flow[g] EXCEPT !.away = FALSE]]
  BY DEF Switch, TypeOK
<1>2. ASSUME NEW g \in Forms
      PROVE  /\ flow[g] \in Flow /\ flow'[g] = [flow[g] EXCEPT !.away = FALSE]
             /\ flow'[g] \in Flow /\ flow'[g].away = FALSE /\ flow'[g].stage = flow[g].stage
             /\ flow'[g].id = flow[g].id /\ flow'[g].steps = flow[g].steps
             /\ flow'[g].step = flow[g].step /\ flow'[g].hash = flow[g].hash
             /\ flow'[g].pinned = flow[g].pinned /\ flow'[g].seen = flow[g].seen
             /\ flow'[g].position = flow[g].position /\ flow'[g].read = flow[g].read
  <2>1. flow[g] \in Flow
    BY DEF TypeOK
  <2> QED
    BY <1>1, <2>1 DEF Flow
<1>3. TypeOK'
  <2>1. flow' \in [Forms -> Flow]
    BY <1>1, <1>2
  <2>2. \A g \in Forms : flow'[g].steps # <<>> => flow'[g].step \in 1..Len(flow'[g].steps)
    BY <1>2 DEF TypeOK
  <2> QED
    BY <1>1, <2>1, <2>2, BudgetType DEF TypeOK
<1>4. ChainSound' /\ SignedSound'
  BY <1>1, StillSound
<1>5. EndsSound'
  BY <1>1, StillEnded DEF EndsSound
<1>6. ASSUME NEW g \in Forms, ~At(g, "idle")
      PROVE  UnderWay(flow[g])'
  <2>1. UNCHANGED <<Height, Final>> /\ \A s : SignedFor(s)' = SignedFor(s)
    BY <1>1 DEF Height, Final, SignedFor
  <2>2. /\ \A point : Canonical(point)' <=> Canonical(point)
        /\ \A s, i : Settled(s, i)' <=> Settled(s, i)
        /\ \A nonce : NonceFinal(nonce)' <=> NonceFinal(nonce)
    BY <1>1, <2>1 DEF Canonical, Settled, NonceFinal
  <2>3. UnderWay(flow[g])
    BY <1>6 DEF FlowSound
  <2>4. Planned(flow[g])' /\ Followed(flow[g])'
    <3>1. Planned(flow[g])'
      <4> PICK r : r = flow[g]
        OBVIOUS
      <4>1. Planned(r)
        BY <2>3 DEF UnderWay
      <4>2. /\ flow'[g].id = r.id /\ flow'[g].stage = r.stage /\ flow'[g].step = r.step
            /\ flow'[g].steps = r.steps
        BY <1>2
      <4> QED
        BY <1>1, <4>1, <4>2 DEF Planned
    <3>2. Followed(flow[g])'
      BY <1>2, <1>6, <2>1, <2>2, <2>3 DEF UnderWay, Followed
    <3> QED
      BY <3>1, <3>2
  <2>5. PinHolds(flow[g])'
    BY <1>1, <1>2, <2>1, <2>2, <2>3 DEF UnderWay, PinHolds
  <2>6. SignedStep(flow[g])'
    BY <1>2, <2>1, <2>3 DEF UnderWay, SignedStep
  <2>7. SightHolds(flow[g])'
    BY <1>1, <1>2, <2>1, <2>2, <2>3 DEF UnderWay, SightHolds
  <2> QED
    BY <1>2, <2>3, <2>4, <2>5, <2>6, <2>7 DEF UnderWay
<1>7. FlowSound'
  <2>1. ASSUME NEW g \in Forms
        PROVE  (IF At(g, "idle") THEN flow[g] = Idle ELSE UnderWay(flow[g]))'
    <3>1. CASE At(g, "idle")
      <4>1. flow[g] = Idle
        BY <3>1 DEF FlowSound
      <4>2. flow'[g] = Idle
        <5>1. flow'[g] = [Idle EXCEPT !.away = FALSE]
          BY <1>2, <4>1
        <5> QED
          BY <5>1 DEF Idle
      <4> QED
        BY <4>2 DEF At, Idle
    <3>2. CASE ~At(g, "idle")
      BY <1>2, <1>6, <3>2 DEF At
    <3> QED
      BY <3>1, <3>2
  <2>2. (\A g, h \in Forms :
           g # h /\ ~At(g, "idle") /\ ~At(h, "idle") => flow[g].id # flow[h].id)'
    <3>1. \A g \in Forms : flow'[g].stage = flow[g].stage /\ flow'[g].id = flow[g].id
      BY <1>2
    <3> QED
      BY <3>1 DEF FlowSound, At
  <2> QED
    BY <2>1, <2>2 DEF FlowSound
<1> QED
  BY <1>3, <1>4, <1>5, <1>7

LEMMA SubmitStep ==
  ASSUME SenderInv, NEW f \in Forms, Submit(f)
  PROVE  SenderInv'
<1> USE DEF SenderInv
<1>1. PICK s \in Submissions :
        /\ outcome[s].result = "none"
        /\ flow' = [flow EXCEPT ![f] = [Idle EXCEPT !.stage = "plan", !.id = s]]
        /\ outcome' = [outcome EXCEPT ![s].result = "running"]
  BY DEF Submit
<1>2. /\ UNCHANGED <<chain, reorgs, signed, reviewed>> /\ At(f, "idle")
      /\ budget' = [budget EXCEPT !.submits[f] = @ - 1] /\ budget.submits[f] > 0
  BY DEF Submit
<1> PICK q : q = [Idle EXCEPT !.stage = "plan", !.id = s]
  OBVIOUS
<1>3. /\ q \in Flow /\ q.stage = "plan" /\ q.id = s /\ q.step = 1 /\ q.steps = <<>>
      /\ q.away = FALSE /\ q.read = {}
  <2>1. s \in Nat
    OBVIOUS
  <2>2. Idle \in Flow
    BY DEF Idle, Flow, Stages, Point, Nowhere
  <2>3. q \in Flow /\ q.stage = "plan" /\ q.id = s
    BY <2>1, <2>2 DEF Flow, Stages
  <2> QED
    BY <2>3 DEF Idle
<1>4. flow' \in [Forms -> Flow] /\ flow'[f] = q /\ \A g \in Forms : g # f => flow'[g] = flow[g]
  BY <1>1, <1>3 DEF TypeOK
<1>5. /\ outcome' \in [Submissions -> Report] /\ outcome'[s].result = "running"
      /\ \A u \in Submissions : u # s => outcome'[u] = outcome[u]
  <2>1. outcome[s] \in Report
    BY DEF TypeOK
  <2>2. [outcome[s] EXCEPT !.result = "running"] \in Report
        /\ [outcome[s] EXCEPT !.result = "running"].result = "running"
    BY <2>1 DEF Report, Outcomes
  <2> QED
    BY <1>1, <2>2 DEF TypeOK
<1>6. TypeOK'
  <2>1. \A g \in Forms : flow'[g].steps # <<>> => flow'[g].step \in 1..Len(flow'[g].steps)
    BY <1>3, <1>4 DEF TypeOK
  <2>2. budget' \in [allowance : Nat, submits : [Forms -> Nat], events : Nat]
    <3>1. budget \in [allowance : Nat, submits : [Forms -> Nat], events : Nat]
      BY DEF TypeOK
    <3>2. budget.submits \in [Forms -> Nat] /\ budget.submits[f] - 1 \in Nat
      BY <1>2, <3>1
    <3>3. [budget.submits EXCEPT ![f] = @ - 1] \in [Forms -> Nat]
      BY <3>2
    <3> QED
      BY <1>2, <3>1, <3>3
  <2> QED
    BY <1>2, <1>4, <1>5, <2>1, <2>2 DEF TypeOK
<1>7. ChainSound' /\ SignedSound'
  <2>1. \A u \in Submissions : outcome[u].result # "none" => outcome'[u].result # "none"
    BY <1>5
  <2> QED
    BY <1>2, <2>1, StillSound
<1>8. \A t \in signed : t.submission # s
  BY <1>1 DEF SignedSound
<1>9. UnderWay(q)'
  <2>1. Planned(q)'
    BY <1>3, <1>5 DEF Planned
  <2>2. Followed(q)'
    BY <1>2, <1>3, <1>8 DEF Followed, SignedFor
  <2> QED
    BY <1>3, <2>1, <2>2 DEF UnderWay, PinHolds, SignedStep, SightHolds, Pinned, Sighted
<1>10. FlowSound'
  <2>1. \A g \in Forms : ~At(g, "idle") => flow[g].id # s
    BY <1>1 DEF FlowSound, UnderWay, Planned
  <2>2. ASSUME NEW g \in Forms
        PROVE  (IF At(g, "idle") THEN flow[g] = Idle ELSE UnderWay(flow[g]))'
    <3>1. CASE g = f
      BY <1>3, <1>4, <1>9, <3>1 DEF At
    <3>2. CASE g # f /\ At(g, "idle")
      BY <1>4, <3>2 DEF FlowSound, At, Idle
    <3>3. CASE g # f /\ ~At(g, "idle")
      <4>1. UnderWay(flow[g]) /\ flow[g].id # s /\ flow[g].id \in Submissions
        BY <2>1, <3>3 DEF FlowSound, UnderWay, Planned
      <4>2. UnderWay(flow[g])'
        BY <1>2, <1>4, <1>5, <3>3, <4>1, StillUnderWay
      <4> QED
        BY <1>4, <3>3, <4>2 DEF At
    <3> QED
      BY <3>1, <3>2, <3>3
  <2>3. (\A g, h \in Forms :
           g # h /\ ~At(g, "idle") /\ ~At(h, "idle") => flow[g].id # flow[h].id)'
    <3> SUFFICES ASSUME NEW g \in Forms, NEW h \in Forms, g # h,
                        ~At(g, "idle")', ~At(h, "idle")'
                 PROVE  flow'[g].id # flow'[h].id
      OBVIOUS
    <3>1. CASE g = f
      BY <1>3, <1>4, <2>1, <3>1 DEF At
    <3>2. CASE h = f
      BY <1>3, <1>4, <2>1, <3>2 DEF At
    <3>3. CASE g # f /\ h # f
      BY <1>4, <3>3 DEF FlowSound, At
    <3> QED
      BY <3>1, <3>2, <3>3
  <2> QED
    BY <2>2, <2>3 DEF FlowSound
<1>11. EndsSound'
  <2> SUFFICES ASSUME NEW u \in Submissions
               PROVE  EndSound(u)'
    BY DEF EndsSound
  <2>1. CASE u # s
    BY <1>2, <1>5, <2>1, StillEnded DEF EndsSound
  <2>2. CASE u = s
    BY <1>5, <2>2 DEF EndSound
  <2> QED
    BY <2>1, <2>2
<1> QED
  BY <1>6, <1>7, <1>10, <1>11

-------------------------------------------------------------------------------
(* The confirmation *)

\* Two transactions with one hash are one; with one nonce, of one step.
LEMMA SignedOnce ==
  ASSUME SenderInv, NEW t \in signed
  PROVE  /\ SignedAs(t.hash) = t
         /\ t.hash # 0 /\ t.nonce # 0
         /\ \A n \in 1..Height : chain[n].tx.nonce = t.nonce => chain[n].tx \in signed
         /\ \A n \in 1..Height : chain[n].tx.hash = t.hash => chain[n].tx = t
         /\ \A u \in signed : u.nonce = t.nonce
              <=> u.submission = t.submission /\ u.step = t.step
<1>1. \A u \in signed : u.hash = t.hash => u = t
  BY DEF SenderInv, SignedSound
<1>2. SignedAs(t.hash) = t
  BY <1>1 DEF SignedAs
<1>3. t.hash # 0 /\ t.nonce # 0
  <2>1. t.hash \in 1..Cardinality(signed) /\ t.nonce \in 1..Cardinality(Nonces)
    BY DEF SenderInv, SignedSound, Nonces
  <2> QED
    BY <2>1
<1>4. ASSUME NEW n \in 1..Height
      PROVE  /\ chain[n].tx.nonce = t.nonce => chain[n].tx \in signed
             /\ chain[n].tx.hash = t.hash => chain[n].tx = t
  BY <1>1, <1>3 DEF SenderInv, ChainSound
<1>5. \A u \in signed : u.nonce = t.nonce <=> u.submission = t.submission /\ u.step = t.step
  BY DEF SenderInv, SignedSound
<1> QED
  BY <1>2, <1>3, <1>4, <1>5

\* The transaction that a form waits for.
LEMMA Awaited ==
  ASSUME SenderInv, NEW f \in Forms, flow[f].stage \in {"wait", "receipt"} \cup Sighted
  PROVE  /\ flow[f] \in Flow /\ UnderWay(flow[f]) /\ ~At(f, "idle") /\ flow[f].stage # "plan"
         /\ flow[f].steps # <<>> /\ flow[f].step \in 1..Len(flow[f].steps)
         /\ flow[f].steps \in Seq(Calls)
         /\ \E t \in signed : /\ t.submission = flow[f].id /\ t.hash = flow[f].hash
                              /\ t.step = flow[f].step /\ t.call = Step(f)
<1>1. ~At(f, "idle") /\ flow[f].stage # "plan"
  BY DEF At, Sighted
<1>2. flow[f] \in Flow /\ UnderWay(flow[f])
      /\ (flow[f].steps # <<>> => flow[f].step \in 1..Len(flow[f].steps))
  BY <1>1, Busy
<1>3. flow[f].steps # <<>>
  BY <1>1, <1>2 DEF UnderWay, Planned
<1>4. \E t \in SignedFor(flow[f].id) : /\ t.hash = flow[f].hash
                                       /\ t.step = flow[f].step /\ t.call = Step(f)
  BY <1>2 DEF UnderWay, SignedStep, Step
<1> QED
  BY <1>1, <1>2, <1>3, <1>4 DEF SignedFor, Flow

\* A form reads on as q, which confirms the same step.
Reads(f, q) ==
  /\ flow' = [flow EXCEPT ![f] = q]
  /\ q \in Flow /\ q.stage \in {"receipt"} \cup Sighted
  /\ q.id = flow[f].id /\ q.steps = flow[f].steps /\ q.step = flow[f].step
  /\ q.away = FALSE /\ (q.read # {} => q.stage = "details")
  /\ q.hash = flow[f].hash
     \/ \E t \in signed : /\ t.submission = q.id /\ t.hash = q.hash
                          /\ t.step = q.step /\ t.call = Step(f)
  /\ SightHolds(q)

LEMMA ReadsOn ==
  ASSUME SenderInv, NEW f \in Forms, flow[f].stage \in {"wait", "receipt"} \cup Sighted,
         NEW q, Reads(f, q), Continues(f)
  PROVE  SenderInv'
<1>1. /\ flow[f] \in Flow /\ UnderWay(flow[f]) /\ ~At(f, "idle") /\ flow[f].stage # "plan"
      /\ flow[f].steps # <<>> /\ flow[f].step \in 1..Len(flow[f].steps)
      /\ \E t \in signed : /\ t.submission = flow[f].id /\ t.hash = flow[f].hash
                           /\ t.step = flow[f].step /\ t.call = Step(f)
  BY Awaited
<1>2. q.stage # "plan" /\ q.stage # "idle" /\ q.stage \notin Unsigned /\ q.stage \notin Pinned
      /\ q.stage # "recheck"
  BY DEF Reads, Sighted, Unsigned, Pinned
<1>3. Planned(q) /\ Followed(q)
  BY <1>1, <1>2, SamePlan DEF Reads
<1>4. SignedStep(q)
  BY <1>1 DEF Reads, SignedStep, SignedFor, Step
<1>5. UnderWay(q)
  BY <1>2, <1>3, <1>4 DEF Reads, UnderWay, PinHolds
<1> QED
  BY <1>1, <1>2, <1>5, GoesOn DEF Reads, Goes

\* What a form that confirms has in common with the others.
LEMMA Confirming ==
  ASSUME SenderInv, NEW f \in Forms, flow[f].stage \in {"wait", "receipt"} \cup Sighted
  PROVE  /\ flow[f] \in Flow /\ flow \in [Forms -> Flow] /\ flow[f].away = FALSE
         /\ flow[f].read # {} => flow[f].stage = "details"
         /\ SightHolds(flow[f])
<1>1. flow[f] \in Flow /\ UnderWay(flow[f]) /\ flow \in [Forms -> Flow]
  BY Awaited DEF SenderInv, TypeOK
<1> QED
  BY <1>1 DEF UnderWay, Flow, Sighted

LEMMA WaiterStep ==
  ASSUME SenderInv, NEW f \in Forms, WaiterReturns(f) \/ WaiterFails(f)
  PROVE  SenderInv'
<1> DEFINE r == flow[f]
<1>1. r.stage = "wait" /\ Quiet(f)
  BY DEF WaiterReturns, WaiterFails, At, Continues
<1>2. /\ r \in Flow /\ UnderWay(r) /\ ~At(f, "idle") /\ r.stage # "plan"
      /\ r.steps # <<>> /\ r.step \in 1..Len(r.steps) /\ r.steps \in Seq(Calls)
      /\ r.away = FALSE /\ r.read = {} /\ flow \in [Forms -> Flow]
  BY <1>1, Awaited, Confirming
<1>3. PICK t \in signed : t.submission = r.id /\ t.hash = r.hash /\ t.step = r.step /\ t.call = Step(f)
  BY <1>1, Awaited
<1>4. CASE WaiterFails(f)
  <2> DEFINE q == [r EXCEPT !.stage = "receipt"]
  <2>1. /\ q \in Flow /\ q.stage = "receipt" /\ q.id = r.id /\ q.steps = r.steps
        /\ q.step = r.step /\ q.away = FALSE /\ q.read = {} /\ q.hash = r.hash
    BY <1>2 DEF Flow, Stages
  <2>2. flow' = [flow EXCEPT ![f] = q]
    BY <1>2, <1>4 DEF WaiterFails, Goto
  <2> HIDE DEF q
  <2>3. Reads(f, q) /\ Continues(f)
    BY <1>4, <2>1, <2>2 DEF Reads, SightHolds, Sighted, WaiterFails
  <2> QED
    BY <1>1, <2>3, ReadsOn
<1>5. CASE WaiterReturns(f)
  <2>1. PICK n \in Final :
          /\ chain[n].tx.nonce = SignedAs(r.hash).nonce
          /\ IF chain[n].tx.call = Step(f)
             THEN /\ flow' = [flow EXCEPT ![f].stage = "receipt", ![f].hash = chain[n].tx.hash]
                  /\ UNCHANGED outcome
             ELSE Fail(f, "cancelled")
    BY <1>5 DEF WaiterReturns
  <2>2. n \in 1..Height
    BY DEF Final, Height, SenderInv, TypeOK
  <2>3. /\ chain[n].tx \in signed /\ chain[n].tx.submission = r.id /\ chain[n].tx.step = r.step
        /\ chain[n].tx.nonce = t.nonce
    BY <1>3, <2>1, <2>2, SignedOnce
  <2>4. CASE chain[n].tx.call = Step(f)
    <3> DEFINE q == [r EXCEPT !.stage = "receipt", !.hash = chain[n].tx.hash]
    <3>1. chain[n].tx.hash \in Nat
      BY <2>3 DEF SenderInv, TypeOK, Tx
    <3>2. /\ q \in Flow /\ q.stage = "receipt" /\ q.id = r.id /\ q.steps = r.steps
          /\ q.step = r.step /\ q.away = FALSE /\ q.read = {} /\ q.hash = chain[n].tx.hash
      BY <1>2, <3>1 DEF Flow, Stages
    <3>3. flow' = [flow EXCEPT ![f] = q] /\ Continues(f)
      BY <1>1, <1>2, <2>1, <2>4 DEF Continues
    <3> HIDE DEF q
    <3>4. Reads(f, q)
      BY <2>3, <2>4, <3>2, <3>3 DEF Reads, SightHolds, Sighted
    <3> QED
      BY <1>1, <3>3, <3>4, ReadsOn
  <2>5. CASE chain[n].tx.call # Step(f)
    <3>1. ASSUME NEW v \in SignedFor(r.id)
          PROVE  v.step \in 1..r.step /\ v.call \in {r.steps[v.step], Call("cancel", 0)}
      BY <1>2, <3>1 DEF UnderWay, Followed
    <3>2. chain[n].tx.call = Call("cancel", 0)
      <4>1. chain[n].tx \in SignedFor(r.id)
        BY <2>3 DEF SignedFor
      <4> QED
        BY <2>3, <2>5, <3>1, <4>1 DEF Step
    <3>3. ASSUME NEW v \in SignedFor(r.id), v.call.fn = "deposit"
          PROVE  chain[n].tx.nonce = v.nonce
      <4>1. v.step \in 1..r.step /\ v.call = r.steps[v.step]
        BY <3>1, <3>3 DEF Call
      <4>2. v.step \in 1..Len(r.steps) /\ r.step \in Nat /\ Len(r.steps) \in Nat
        BY <1>2, <4>1
      <4>3. v.step = Len(r.steps)
        BY <1>2, <3>3, <4>1, <4>2 DEF UnderWay, Planned
      <4>4. v.step = r.step
        BY <1>2, <4>1, <4>2, <4>3
      <4> QED
        BY <1>3, <2>3, <4>4, SignedOnce DEF SignedFor
    <3>4. chain[n].tx.call.fn # "deposit"
      BY <3>2 DEF Call
    <3>5. End(f, "cancelled", 0)
      BY <2>1, <2>5 DEF Fail
    <3> QED
      BY <1>1, <1>2, <3>3, <3>4, <3>5, Ends DEF Outcomes
  <2> QED
    BY <2>4, <2>5
<1> QED
  BY <1>4, <1>5

LEMMA UnavailableStep ==
  ASSUME SenderInv, NEW f \in Forms, flow[f].stage \in {"receipt"} \cup Sighted,
         Unavailable(f), Quiet(f)
  PROVE  SenderInv'
<1> DEFINE r == flow[f]
           q == [r EXCEPT !.stage = "receipt", !.attempt = @ + 1,
                          !.seen = Nowhere, !.position = 0, !.read = {}]
<1>1. CASE r.attempt < Attempts
  <2>1. r \in Flow /\ flow \in [Forms -> Flow] /\ r.away = FALSE
    BY Confirming
  <2>2. /\ q \in Flow /\ q.stage = "receipt" /\ q.id = r.id /\ q.steps = r.steps
        /\ q.step = r.step /\ q.away = FALSE /\ q.read = {} /\ q.hash = r.hash
    <3>1. r.attempt + 1 \in Nat /\ Nowhere \in Point
      BY <2>1 DEF Flow, Point, Nowhere
    <3> QED
      BY <2>1, <3>1 DEF Flow, Stages
  <2>3. flow' = [flow EXCEPT ![f] = q] /\ Continues(f)
    <3>1. flow' = [flow EXCEPT ![f] = [r EXCEPT !.stage = "receipt", !.attempt = @ + 1,
                     !.seen = Nowhere, !.position = 0, !.read = {}]]
          /\ UNCHANGED outcome
      BY <1>1 DEF Unavailable
    <3>2. flow' = [flow EXCEPT ![f] = q]
      BY <2>1, <3>1
    <3> QED
      BY <3>1, <3>2 DEF Continues
  <2> HIDE DEF q
  <2>4. Reads(f, q)
    BY <2>2, <2>3 DEF Reads, SightHolds, Sighted
  <2> QED
    BY <2>3, <2>4, ReadsOn
<1>2. CASE ~(r.attempt < Attempts)
  <2>1. ~At(f, "idle")
    BY Awaited
  <2> QED
    BY <1>2, <2>1, FailUnconfirmed DEF Unavailable
<1> QED
  BY <1>1, <1>2

\* The block that holds the transaction of a form, by hash.
LEMMA PlaceFound ==
  ASSUME SenderInv, NEW hash, NEW n \in Places(hash)
  PROVE  /\ n \in 1..Height /\ n \in Nat /\ chain[n].tx.hash = hash
         /\ [height |-> n, fork |-> chain[n].fork] \in Point
         /\ chain[n].fork <= reorgs /\ chain[n].minted \in Nat
<1>1. n \in 1..Height /\ chain[n].tx.hash = hash
  BY DEF Places
<1>2. chain[n] \in Block /\ n \in Nat
  BY <1>1 DEF SenderInv, TypeOK, Height
<1> QED
  BY <1>1, <1>2 DEF Block, Point, SenderInv, ChainSound

LEMMA ReceiptStep ==
  ASSUME SenderInv, NEW f \in Forms, ReadReceipt(f)
  PROVE  SenderInv'
<1> DEFINE r == flow[f]
<1>1. r.stage = "receipt" /\ Quiet(f)
  BY DEF ReadReceipt, At
<1>2. r \in Flow /\ flow \in [Forms -> Flow] /\ r.away = FALSE /\ r.read = {} /\ ~At(f, "idle")
  BY <1>1, Confirming, Awaited
<1>3. CASE Places(r.hash) = {}
  BY <1>1, <1>3, UnavailableStep DEF ReadReceipt
<1>4. CASE Places(r.hash) # {}
  <2>1. PICK n \in Places(r.hash) :
          IF chain[n].ok
          THEN /\ flow' = [flow EXCEPT ![f].stage = "block",
                             ![f].seen = [height |-> n, fork |-> chain[n].fork]]
               /\ UNCHANGED outcome
          ELSE Fail(f, "unconfirmed")
    BY <1>4 DEF ReadReceipt
  <2>2. CASE ~chain[n].ok
    BY <1>1, <1>2, <2>1, <2>2, FailUnconfirmed
  <2>3. CASE chain[n].ok
    <3> DEFINE q == [r EXCEPT !.stage = "block", !.seen = [height |-> n, fork |-> chain[n].fork]]
    <3>1. /\ n \in 1..Height /\ n \in Nat /\ chain[n].tx.hash = r.hash /\ chain[n].fork <= reorgs
          /\ [height |-> n, fork |-> chain[n].fork] \in Point
      BY PlaceFound
    <3>2. /\ q \in Flow /\ q.stage = "block" /\ q.id = r.id /\ q.steps = r.steps
          /\ q.step = r.step /\ q.away = FALSE /\ q.read = {} /\ q.hash = r.hash
          /\ q.seen.height = n /\ q.seen.fork = chain[n].fork
      BY <1>2, <3>1 DEF Flow, Stages
    <3>3. flow' = [flow EXCEPT ![f] = q] /\ Continues(f)
      BY <1>1, <1>2, <2>1, <2>3 DEF Continues
    <3> HIDE DEF q
    <3>4. SightHolds(q)
      BY <2>3, <3>1, <3>2 DEF SightHolds
    <3>5. Reads(f, q)
      BY <3>2, <3>3, <3>4 DEF Reads, Sighted
    <3> QED
      BY <1>1, <3>3, <3>5, ReadsOn
  <2> QED
    BY <2>2, <2>3
<1> QED
  BY <1>3, <1>4

LEMMA VerifyStep ==
  ASSUME SenderInv, NEW f \in Forms,
         VerifyBlock(f, "block", Goto(f, "details") /\ UNCHANGED outcome)
  PROVE  SenderInv'
<1> DEFINE r == flow[f]
           q == [r EXCEPT !.stage = "details"]
<1>1. r.stage = "block" /\ Quiet(f)
  BY DEF VerifyBlock, At
<1>2. /\ r \in Flow /\ flow \in [Forms -> Flow] /\ r.away = FALSE /\ r.read = {} /\ ~At(f, "idle")
      /\ SightHolds(r)
  BY <1>1, Confirming, Awaited DEF Sighted
<1>3. CASE Unavailable(f)
  BY <1>1, <1>3, UnavailableStep DEF Sighted
<1>4. CASE Fail(f, "unconfirmed")
  BY <1>1, <1>2, <1>4, FailUnconfirmed
<1>5. CASE Goto(f, "details") /\ UNCHANGED outcome
  <2>1. /\ q \in Flow /\ q.stage = "details" /\ q.id = r.id /\ q.steps = r.steps
        /\ q.step = r.step /\ q.away = FALSE /\ q.read = {} /\ q.hash = r.hash /\ q.seen = r.seen
    BY <1>2 DEF Flow, Stages
  <2>2. flow' = [flow EXCEPT ![f] = q] /\ Continues(f)
    BY <1>1, <1>2, <1>5 DEF Continues, Goto
  <2> HIDE DEF q
  <2>3. SightHolds(q)
    BY <1>1, <1>2, <2>1 DEF SightHolds, Sighted
  <2>4. Reads(f, q)
    BY <2>1, <2>2, <2>3 DEF Reads, Sighted
  <2> QED
    BY <1>1, <2>2, <2>4, ReadsOn DEF Sighted
<1>6. Unavailable(f) \/ (Goto(f, "details") /\ UNCHANGED outcome) \/ Fail(f, "unconfirmed")
  BY DEF VerifyBlock
<1> QED
  BY <1>3, <1>4, <1>5, <1>6

\* One of the two reads of the details, and what the latest block has shown.
LEMMA DetailsStep ==
  ASSUME SenderInv, NEW f \in Forms, At(f, "details"), Quiet(f),
         NEW read \in {"transaction", "latest"}, Details(f, read),
         read = "latest" => flow[f].seen.height < Height
  PROVE  SenderInv'
<1> DEFINE r == flow[f]
<1>1. r.stage = "details"
  BY DEF At
<1>2. r \in Flow /\ flow \in [Forms -> Flow] /\ r.away = FALSE /\ SightHolds(r)
  BY <1>1, Confirming DEF Sighted
<1>3. r.read \in SUBSET {"transaction", "latest"}
  BY <1>2 DEF Flow
<1>4. "latest" \in r.read \cup {read} => r.seen.height < Height
  BY <1>1, <1>2 DEF SightHolds, Sighted
<1>5. CASE r.read \cup {read} = {"transaction", "latest"}
  <2> DEFINE q == [r EXCEPT !.stage = "fresh", !.read = {}]
  <2>1. /\ q \in Flow /\ q.stage = "fresh" /\ q.id = r.id /\ q.steps = r.steps
        /\ q.step = r.step /\ q.away = FALSE /\ q.read = {} /\ q.hash = r.hash /\ q.seen = r.seen
    BY <1>2 DEF Flow, Stages
  <2>2. flow' = [flow EXCEPT ![f] = q] /\ Continues(f)
    BY <1>2, <1>5 DEF Continues, Details
  <2> HIDE DEF q
  <2>3. SightHolds(q)
    BY <1>1, <1>2, <1>4, <1>5, <2>1 DEF SightHolds, Sighted
  <2>4. Reads(f, q)
    BY <2>1, <2>2, <2>3 DEF Reads, Sighted
  <2> QED
    BY <1>1, <2>2, <2>4, ReadsOn DEF Sighted
<1>6. CASE r.read \cup {read} # {"transaction", "latest"}
  <2> DEFINE q == [r EXCEPT !.read = r.read \cup {read}]
  <2>1. /\ q \in Flow /\ q.stage = "details" /\ q.id = r.id /\ q.steps = r.steps
        /\ q.step = r.step /\ q.away = FALSE /\ q.read = r.read \cup {read}
        /\ q.hash = r.hash /\ q.seen = r.seen
    <3>1. r.read \cup {read} \in SUBSET {"transaction", "latest"}
      BY <1>3
    <3> QED
      BY <1>1, <1>2, <3>1 DEF Flow, Stages
  <2>2. flow' = [flow EXCEPT ![f] = q] /\ Continues(f)
    BY <1>2, <1>6 DEF Continues, Details
  <2> HIDE DEF q
  <2>3. SightHolds(q)
    BY <1>1, <1>2, <1>4, <2>1 DEF SightHolds, Sighted
  <2>4. Reads(f, q)
    BY <2>1, <2>2, <2>3 DEF Reads, Sighted
  <2> QED
    BY <1>1, <2>2, <2>4, ReadsOn DEF Sighted
<1> QED
  BY <1>5, <1>6

LEMMA DetailReads ==
  ASSUME SenderInv, NEW f \in Forms, ReadTransaction(f) \/ ReadLatest(f)
  PROVE  SenderInv'
<1>1. At(f, "details") /\ flow[f].stage = "details" /\ Quiet(f) /\ ~At(f, "idle")
  BY DEF ReadTransaction, ReadLatest, At
<1>2. CASE Unavailable(f)
  BY <1>1, <1>2, UnavailableStep DEF Sighted
<1>3. CASE Fail(f, "unconfirmed")
  BY <1>1, <1>3, FailUnconfirmed
<1>4. CASE Details(f, "transaction")
  BY <1>1, <1>4, DetailsStep
<1>5. CASE Details(f, "latest") /\ Height > flow[f].seen.height
  <2>1. flow[f].seen.height \in Nat /\ Height \in Nat
    BY <1>1, Confirming DEF Sighted, Flow, Point, SenderInv, TypeOK, Height
  <2> QED
    BY <1>1, <1>5, <2>1, DetailsStep
<1> QED
  BY <1>2, <1>3, <1>4, <1>5 DEF ReadTransaction, ReadLatest

LEMMA FreshStep ==
  ASSUME SenderInv, NEW f \in Forms, ReadFreshReceipt(f)
  PROVE  SenderInv'
<1> DEFINE r == flow[f]
<1>1. r.stage = "fresh" /\ Quiet(f)
  BY DEF ReadFreshReceipt, At
<1>2. /\ r \in Flow /\ flow \in [Forms -> Flow] /\ r.away = FALSE /\ r.read = {} /\ ~At(f, "idle")
      /\ SightHolds(r)
  BY <1>1, Confirming, Awaited DEF Sighted
<1>3. CASE Places(r.hash) = {}
  BY <1>1, <1>3, UnavailableStep DEF ReadFreshReceipt, Sighted
<1>4. CASE Places(r.hash) # {}
  <2>1. PICK n \in Places(r.hash) :
          IF chain[n].ok /\ r.seen = [height |-> n, fork |-> chain[n].fork]
          THEN /\ flow' = [flow EXCEPT ![f].stage = "sealed", ![f].position = chain[n].minted]
               /\ UNCHANGED outcome
          ELSE Fail(f, "unconfirmed")
    BY <1>4 DEF ReadFreshReceipt
  <2>2. CASE ~(chain[n].ok /\ r.seen = [height |-> n, fork |-> chain[n].fork])
    BY <1>1, <1>2, <2>1, <2>2, FailUnconfirmed
  <2>3. CASE chain[n].ok /\ r.seen = [height |-> n, fork |-> chain[n].fork]
    <3> DEFINE q == [r EXCEPT !.stage = "sealed", !.position = chain[n].minted]
    <3>1. chain[n].minted \in Nat /\ r.seen.height = n
      BY <2>3, PlaceFound
    <3>2. /\ q \in Flow /\ q.stage = "sealed" /\ q.id = r.id /\ q.steps = r.steps
          /\ q.step = r.step /\ q.away = FALSE /\ q.read = {} /\ q.hash = r.hash
          /\ q.seen = r.seen /\ q.position = chain[n].minted
      BY <1>2, <3>1 DEF Flow, Stages
    <3>3. flow' = [flow EXCEPT ![f] = q] /\ Continues(f)
      BY <1>1, <1>2, <2>1, <2>3 DEF Continues
    <3> HIDE DEF q
    <3>4. SightHolds(q)
      BY <1>1, <1>2, <3>1, <3>2 DEF SightHolds, Sighted
    <3>5. Reads(f, q)
      BY <3>2, <3>3, <3>4 DEF Reads, Sighted
    <3> QED
      BY <1>1, <3>3, <3>5, ReadsOn DEF Sighted
  <2> QED
    BY <2>2, <2>3
<1> QED
  BY <1>3, <1>4

\* The sealed step took effect for good, and the next one may be looked at.
LEMMA NextStepStep ==
  ASSUME SenderInv, NEW f \in Forms, At(f, "sealed"), Canonical(flow[f].seen),
         NextStep(f), Quiet(f)
  PROVE  SenderInv'
<1> DEFINE r == flow[f]
<1>1. r.stage = "sealed"
  BY DEF At
<1>2. /\ r \in Flow /\ UnderWay(r) /\ ~At(f, "idle") /\ r.steps # <<>> /\ flow \in [Forms -> Flow]
      /\ r.step \in 1..Len(r.steps) /\ r.steps \in Seq(Calls) /\ SightHolds(r)
      /\ r.id \in Submissions /\ r.step \in Nat \ {0} /\ Len(r.steps) \in Nat
  <2>1. /\ r \in Flow /\ UnderWay(r) /\ ~At(f, "idle") /\ r.steps # <<>>
        /\ r.step \in 1..Len(r.steps) /\ r.steps \in Seq(Calls)
    BY <1>1, Awaited DEF Sighted
  <2>2. flow \in [Forms -> Flow] /\ SightHolds(r) /\ r.id \in Submissions
    BY <1>1, <2>1, Confirming, Busy DEF Sighted
  <2>3. Len(r.steps) \in Nat
    BY <2>1
  <2> QED
    BY <2>1, <2>2, <2>3
<1>3. PICK t \in signed : t.submission = r.id /\ t.hash = r.hash /\ t.step = r.step /\ t.call = Step(f)
  BY <1>1, Awaited DEF Sighted
<1> DEFINE n == r.seen.height
<1>4. /\ n \in 1..Height /\ n < Height /\ chain[n].tx.hash = r.hash /\ chain[n].ok
      /\ chain[n].minted = r.position
  BY <1>1, <1>2 DEF SightHolds, Sighted
<1>5. n \in Final /\ chain[n].tx = t
  <2>1. Height \in Nat
    BY DEF SenderInv, TypeOK, Height
  <2> QED
    BY <1>3, <1>4, <2>1, SignedOnce DEF Final
<1>6. t.call.fn # "cancel" /\ (t.call.fn = "deposit" <=> r.step = Len(r.steps))
  BY <1>1, <1>2, <1>3 DEF UnderWay, Planned, Step
<1>7. Settled(r.id, r.step)
  BY <1>3, <1>4, <1>5, <1>6 DEF Settled
<1>8. CASE r.step < Len(r.steps)
  <2> DEFINE q == [Idle EXCEPT !.stage = "preflight", !.id = r.id, !.steps = r.steps,
                               !.step = r.step + 1]
  <2>1. flow' = [flow EXCEPT ![f] = q] /\ Continues(f)
    BY <1>8 DEF NextStep, Continues
  <2>2. /\ q \in Flow /\ q.stage = "preflight" /\ q.id = r.id /\ q.steps = r.steps
        /\ q.step = r.step + 1 /\ q.away = FALSE /\ q.read = {}
    <3>1. Idle \in Flow /\ Idle.away = FALSE /\ Idle.read = {}
      BY DEF Idle, Flow, Stages, Point, Nowhere
    <3>2. r.id \in Nat
      BY <1>2 DEF Flow
    <3>3. r.step + 1 \in Nat
      BY <1>2
    <3> QED
      BY <1>2, <3>1, <3>2, <3>3 DEF Flow, Stages
  <2> HIDE DEF q
  <2>3. Planned(q)
    BY <1>1, <1>2, <2>2 DEF UnderWay, Planned
  <2>4. ASSUME NEW v \in SignedFor(r.id)
        PROVE  /\ v.step \in 1..r.step /\ v.call \in {r.steps[v.step], Call("cancel", 0)}
               /\ NonceFinal(v.nonce)
    <3>1. /\ v.step \in 1..r.step /\ v.call \in {r.steps[v.step], Call("cancel", 0)}
          /\ v.step < r.step => NonceFinal(v.nonce)
      BY <1>2, <2>4 DEF UnderWay, Followed
    <3>2. CASE v.step = r.step
      <4>1. v.nonce = t.nonce
        BY <1>3, <2>4, <3>2, SignedOnce DEF SignedFor
      <4> QED
        BY <1>5, <3>1, <4>1 DEF NonceFinal
    <3>3. CASE v.step # r.step
      BY <1>2, <3>1, <3>3
    <3> QED
      BY <3>2, <3>3
  <2>5. Followed(q)
    <3>1. \A v \in SignedFor(q.id) :
            /\ v.step \in 1..q.step /\ v.step # q.step
            /\ v.call \in {q.steps[v.step], Call("cancel", 0)}
            /\ NonceFinal(v.nonce)
      BY <1>2, <2>2, <2>4
    <3>2. \A i \in 1..q.step - 1 : Settled(q.id, i)
      <4> TAKE i \in 1..q.step - 1
      <4>1. i = r.step \/ i \in 1..r.step - 1
        BY <1>2, <2>2
      <4> QED
        BY <1>2, <1>7, <2>2, <4>1 DEF UnderWay, Followed
    <3> QED
      BY <3>1, <3>2 DEF Followed
  <2>6. UnderWay(q)
    BY <2>2, <2>3, <2>5 DEF UnderWay, PinHolds, SignedStep, SightHolds, Pinned, Sighted
  <2>7. q.step \in 1..Len(q.steps)
    BY <1>2, <1>8, <2>2
  <2> QED
    BY <1>2, <2>1, <2>2, <2>6, <2>7, GoesOn DEF Goes
<1>9. CASE ~(r.step < Len(r.steps))
  <2>1. End(f, "confirmed", r.position)
    BY <1>9 DEF NextStep
  <2>2. t.call.fn = "deposit"
    BY <1>2, <1>6, <1>9
  <2>3. n \in Final \cap Deposits(r.id) /\ chain[n].minted = r.position
    BY <1>3, <1>4, <1>5, <2>2 DEF Deposits
  <2>4. r.position \in Nat
    BY <1>2 DEF Flow
  <2> QED
    BY <1>2, <2>1, <2>3, <2>4, Ends DEF Outcomes
<1> QED
  BY <1>8, <1>9

LEMMA SealedStep ==
  ASSUME SenderInv, NEW f \in Forms, VerifyBlock(f, "sealed", NextStep(f))
  PROVE  SenderInv'
<1>1. At(f, "sealed") /\ flow[f].stage = "sealed" /\ Quiet(f) /\ ~At(f, "idle")
  BY DEF VerifyBlock, At
<1>2. flow[f].seen.height \in Nat /\ Height \in Nat
  BY <1>1, Confirming DEF Sighted, Flow, Point, SenderInv, TypeOK, Height
<1>3. CASE flow[f].seen.height > Height
  <2>1. ~Canonical(flow[f].seen)
    BY <1>2, <1>3 DEF Canonical
  <2>2. Unavailable(f)
    BY <1>3, <2>1 DEF VerifyBlock
  <2> QED
    BY <1>1, <2>2, UnavailableStep DEF Sighted
<1>4. CASE ~(flow[f].seen.height > Height) /\ Canonical(flow[f].seen)
  <2>1. NextStep(f)
    BY <1>4 DEF VerifyBlock
  <2> QED
    BY <1>1, <1>4, <2>1, NextStepStep
<1>5. CASE ~(flow[f].seen.height > Height) /\ ~Canonical(flow[f].seen)
  <2>1. Fail(f, "unconfirmed")
    BY <1>5 DEF VerifyBlock
  <2> QED
    BY <1>1, <2>1, FailUnconfirmed
<1> QED
  BY <1>3, <1>4, <1>5

LEMMA FailureSteps ==
  ASSUME SenderInv, NEW f \in Forms, GiveUp(f) \/ Reject(f) \/ ReadFails(f)
  PROVE  SenderInv'
<1>1. CASE GiveUp(f)
  BY <1>1, FailUnsent DEF GiveUp, Unsigned
<1>2. CASE Reject(f)
  BY <1>2, FailUnsent DEF Reject, At, Unsigned
<1>3. CASE ReadFails(f)
  BY <1>3, UnavailableStep DEF ReadFails, Sighted
<1> QED
  BY <1>1, <1>2, <1>3

-------------------------------------------------------------------------------
(* The invariant and what it implies *)

LEMMA InitInv == Init => SenderInv
<1> SUFFICES ASSUME Init
             PROVE  SenderInv
  OBVIOUS
<1> DEFINE first == [tx |-> Others("none"), fork |-> 0, ok |-> TRUE,
                     allowance |-> budget.allowance, open |-> TRUE, minted |-> 0]
<1>1. /\ budget \in [allowance : Nat, submits : [Forms -> Nat], events : Nat]
      /\ chain = <<first>> /\ reorgs = 0 /\ signed = {} /\ reviewed = TRUE
      /\ flow = [f \in Forms |-> Idle]
      /\ outcome = [s \in Submissions |-> [result |-> "none", position |-> 0]]
  BY DEF Init
<1>2. first \in Block /\ first.tx = Others("none") /\ first.fork = 0
  BY <1>1, OthersType DEF Block
<1> HIDE DEF first
<1>3. chain \in Seq(Block) /\ chain # <<>> /\ Height = 1 /\ chain[1] = first
  BY <1>1, <1>2 DEF Height
<1>4. Idle \in Flow /\ Idle.steps = <<>> /\ Idle.stage = "idle"
  BY DEF Idle, Flow, Stages, Point, Nowhere
<1>5. TypeOK
  BY <1>1, <1>3, <1>4 DEF TypeOK, Report, Outcomes
<1>6. ChainSound
  BY <1>1, <1>2, <1>3, OthersType DEF ChainSound
<1>7. SignedSound
  <2>1. Nonces = {}
    BY <1>1 DEF Nonces
  <2>2. IsFiniteSet(signed) /\ Cardinality(Nonces) = 0
    BY <1>1, <2>1, FS_EmptySet
  <2> QED
    BY <1>1, <2>1, <2>2 DEF SignedSound
<1>8. FlowSound
  BY <1>1, <1>4 DEF FlowSound, At
<1>9. EndsSound
  BY <1>1 DEF EndsSound, EndSound
<1> QED
  BY <1>5, <1>6, <1>7, <1>8, <1>9 DEF SenderInv

LEMMA Stutter ==
  ASSUME SenderInv, UNCHANGED vars
  PROVE  SenderInv'
<1> USE DEF SenderInv
<1>1. UNCHANGED <<chain, reorgs, signed, reviewed, budget, flow, outcome>>
  BY DEF vars
<1>2. TypeOK'
  BY <1>1 DEF TypeOK
<1>3. ChainSound' /\ SignedSound'
  BY <1>1, StillSound
<1>4. FlowSound'
  BY <1>1, StillUnderWay DEF FlowSound, At
<1>5. EndsSound'
  BY <1>1, StillEnded DEF EndsSound
<1> QED
  BY <1>2, <1>3, <1>4, <1>5

\* In every reachable state the submissions under way are followed step by step, and
\* what has ended tells the truth (react.tsx:253-375).
THEOREM Invariance == Spec => []SenderInv
<1>1. ASSUME SenderInv, [Next]_vars
      PROVE  SenderInv'
  <2>1. ASSUME NEW f \in Forms, Progress(f)
        PROVE  SenderInv'
    BY <1>1, <2>1, PlanStep, PreflightStep, CheckSteps, SignStep, WaiterStep, ReceiptStep,
       VerifyStep, DetailReads, FreshStep, SealedStep, FailureSteps DEF Progress
  <2>2. CASE Mine \/ Seal \/ ForeignTransaction \/ Reorganise
    BY <1>1, <2>2, ChainStep
  <2> QED
    BY <1>1, <2>1, <2>2, SubmitStep, ReplaceStep, SwitchStep, Stutter DEF Next, ChainMoves
<1> QED
  BY <1>1, InitInv, PTL DEF Spec

\* Every variable keeps its type, and a submission never looks past its plan
\* (react.tsx:302).
THEOREM TypeCorrect == Spec => []TypeOK
<1>1. SenderInv => TypeOK
  BY DEF SenderInv
<1> QED
  BY <1>1, Invariance, PTL

\* Whoever is asked for a signature, the pool was checked after the previous step and
\* the wallet had not been away since the simulation (react.tsx:309-323).
THEOREM PromptsAreChecked == Spec => []PromptsChecked
<1>1. ASSUME SenderInv
      PROVE  PromptsChecked
  <2> SUFFICES ASSUME NEW f \in Forms, At(f, "prompt")
               PROVE  /\ ~flow[f].away
                      /\ \A n \in 1..Height :
                           chain[n].tx.submission = flow[f].id => n <= flow[f].pinned.height
                      /\ Canonical(flow[f].pinned) => chain[flow[f].pinned.height].open
    BY DEF PromptsChecked
  <2>1. flow[f].stage = "prompt" /\ ~At(f, "idle")
    BY DEF At
  <2>2. UnderWay(flow[f])
    BY <1>1, <2>1, Busy
  <2> QED
    BY <2>1, <2>2 DEF UnderWay, PinHolds, Pinned
<1> QED
  BY <1>1, Invariance, PTL

\* Whatever blocks are replaced, a later step is looked at only when every earlier one
\* has taken effect for good, and success is the deposit's own position
\* (react.tsx:179-250, 353-360).
THEOREM StepsAreSettled == Spec => []StepsSettled
<1>1. ASSUME SenderInv
      PROVE  StepsSettled
  <2>1. ASSUME NEW f \in Forms, NEW i \in 1..flow[f].step - 1
        PROVE  Settled(flow[f].id, i)
    <3>1. CASE At(f, "idle")
      <4>1. flow[f].step = 1
        BY <1>1, <3>1 DEF SenderInv, FlowSound, Idle
      <4> QED
        BY <4>1
    <3>2. CASE ~At(f, "idle")
      BY <1>1, <2>1, <3>2, Busy DEF UnderWay, Followed
    <3> QED
      BY <3>1, <3>2
  <2>2. \A s \in Submissions : outcome[s].result = "confirmed" =>
          \E n \in Final \cap Deposits(s) : chain[n].minted = outcome[s].position
    BY <1>1 DEF SenderInv, EndsSound, EndSound
  <2> QED
    BY <2>1, <2>2 DEF StepsSettled
<1> QED
  BY <1>1, Invariance, PTL

\* However often a transaction is repriced, a block replaced or a confirmation read
\* again, one submission deposits at most once, and one that ends as unsent or
\* cancelled never (react.tsx:253, 350-357).
THEOREM OneDeposit == Spec => []DepositsOnce
<1>1. ASSUME SenderInv
      PROVE  DepositsOnce
  <2> SUFFICES ASSUME NEW s \in Submissions
               PROVE  /\ Cardinality(Deposits(s)) <= 1
                      /\ outcome[s].result \in {"unsent", "cancelled"} => Deposits(s) = {}
    BY DEF DepositsOnce
  <2>1. ASSUME NEW n \in Deposits(s)
        PROVE  /\ n \in 1..Height /\ chain[n].tx.hash # 0
               /\ chain[n].tx \in SignedFor(s) /\ chain[n].tx.call.fn = "deposit"
    <3>1. n \in 1..Height /\ chain[n].tx.submission = s /\ chain[n].tx.call.fn = "deposit"
      BY <2>1 DEF Deposits
    <3> QED
      BY <1>1, <3>1 DEF SenderInv, ChainSound, SignedFor
  <2>2. \A n, m \in Deposits(s) : n = m
    <3> TAKE n, m \in Deposits(s)
    <3>1. chain[n].tx.nonce = chain[m].tx.nonce
      BY <1>1, <2>1 DEF SenderInv, SignedSound, SignedFor
    <3> QED
      BY <1>1, <2>1, <3>1, NonceOnce DEF SenderInv, TypeOK
  <2>3. Cardinality(Deposits(s)) <= 1
    <3>1. CASE Deposits(s) = {}
      BY <3>1, FS_EmptySet
    <3>2. CASE Deposits(s) # {}
      <4>1. PICK n : n \in Deposits(s)
        BY <3>2
      <4>2. Deposits(s) = {n}
        BY <2>2, <4>1
      <4> QED
        BY <4>2, FS_Singleton
    <3> QED
      BY <3>1, <3>2
  <2>4. ASSUME outcome[s].result \in {"unsent", "cancelled"}, NEW n \in Deposits(s)
        PROVE  FALSE
    <3>1. EndSound(s)
      BY <1>1 DEF SenderInv, EndsSound
    <3>2. PICK m \in Final : chain[m].tx.nonce = chain[n].tx.nonce /\ chain[m].tx.call.fn # "deposit"
      BY <2>1, <2>4, <3>1 DEF EndSound
    <3>3. m \in 1..Height
      BY <1>1 DEF Final, Height, SenderInv, TypeOK
    <3>4. m = n
      BY <1>1, <2>1, <2>4, <3>2, <3>3, NonceOnce DEF SenderInv, TypeOK
    <3> QED
      BY <2>1, <2>4, <3>2, <3>4
  <2> QED
    BY <2>3, <2>4
<1> QED
  BY <1>1, Invariance, PTL

-------------------------------------------------------------------------------
(* Approvals *)

\* What a block leaves of the allowance.
LEMMA BlockAllowance ==
  ASSUME NEW parent \in Block, NEW tx \in Tx, NEW n \in Nat
  PROVE  LET b == Executed(parent, tx, n)
         IN  /\ b.allowance \in Nat /\ parent.allowance \in Nat /\ tx.call.amount \in Nat
             /\ tx.call.fn = "approve" => b.allowance = tx.call.amount
             /\ tx.call.fn # "approve" => b.allowance <= parent.allowance
             /\ tx.call.fn = "deposit" /\ b.ok => b.allowance + tx.call.amount <= parent.allowance
<1> DEFINE b == Executed(parent, tx, n)
<1>1. tx.call.amount \in Nat /\ parent.allowance \in Nat
  BY DEF Tx, Calls, Block
<1>2. b.allowance \in Nat
  BY ExecutedType DEF Block
<1>3. CASE tx.call.fn = "approve"
  <2>1. b.allowance = tx.call.amount
    BY <1>3 DEF Executed
  <2> QED
    BY <1>1, <1>2, <1>3, <2>1
<1>4. CASE tx.call.fn = "deposit" /\ Runs(parent, tx.call)
  <2>1. b.allowance = parent.allowance - tx.call.amount
    BY <1>4 DEF Executed
  <2> HIDE DEF b
  <2>2. b.allowance + tx.call.amount = parent.allowance /\ b.allowance <= parent.allowance
    BY <1>1, <1>2, <2>1
  <2>3. tx.call.fn # "approve"
    BY <1>4
  <2> QED
    BY <1>1, <1>2, <2>2, <2>3 DEF b
<1>5. CASE tx.call.fn # "approve" /\ ~(tx.call.fn = "deposit" /\ Runs(parent, tx.call))
  <2>1. b.allowance = parent.allowance /\ b.ok = Runs(parent, tx.call)
    BY <1>5 DEF Executed
  <2>2. tx.call.fn # "approve" /\ ~(tx.call.fn = "deposit" /\ b.ok)
    BY <1>5, <2>1
  <2> HIDE DEF b
  <2>3. b.allowance <= parent.allowance
    BY <1>1, <2>1
  <2> QED
    BY <1>1, <1>2, <2>2, <2>3 DEF b
<1> QED
  BY <1>3, <1>4, <1>5

LEMMA SpentGrown ==
  ASSUME SenderInv, AllowancesSpent, NEW h, NEW tx, Grows(h, tx)
  PROVE  AllowancesSpent'
<1>1. /\ Height' = h + 1 /\ Height \in Nat /\ h \in Nat \ {0} /\ h <= Height
      /\ \A n \in 1..h : chain'[n] = chain[n]
      /\ chain'[h + 1] = Executed(chain[h], tx, reorgs')
      /\ chain'[h + 1].tx = tx /\ tx \in Tx
  <2>1. h \in 1..Height
    BY DEF Grows
  <2> QED
    BY <2>1, GrownChain DEF SenderInv
<1>2. \A n \in 1..h : chain[n] \in Block /\ chain[n].allowance \in Nat /\ chain[n].tx.call.amount \in Nat
  <2>1. \A n \in 1..h : chain[n] \in Block
    BY <1>1 DEF SenderInv, TypeOK, Height
  <2>2. \A n \in 1..h : chain[n].allowance \in Nat /\ chain[n].tx \in Tx
    BY <2>1 DEF Block
  <2>3. \A n \in 1..h : chain[n].tx.call.amount \in Nat
    BY <2>2 DEF Tx, Calls
  <2> QED
    BY <2>1, <2>2, <2>3
<1> PICK b : b = chain'[h + 1]
  OBVIOUS
<1>3. /\ b.allowance \in Nat /\ tx.call.amount \in Nat /\ chain[h].allowance \in Nat
      /\ tx.call.fn = "approve" => b.allowance = tx.call.amount
      /\ tx.call.fn # "approve" => b.allowance <= chain[h].allowance
      /\ tx.call.fn = "deposit" /\ b.ok => b.allowance + tx.call.amount <= chain[h].allowance
  <2>1. chain[h] \in Block /\ reorgs' \in Nat
    BY <1>1, <1>2 DEF Grows
  <2> QED
    BY <1>1, <2>1, BlockAllowance
<1>4. tx.call.fn = "approve" => tx.hash # 0
  <2>1. CASE tx \in signed
    <3>1. tx.hash \in 1..Cardinality(signed)
      BY <2>1 DEF SenderInv, SignedSound
    <3> QED
      BY <3>1
  <2>2. CASE \E fn \in {"toggle", "mint", "none"} : tx = Others(fn)
    BY <2>2, OthersType
  <2> QED
    BY <2>1, <2>2 DEF Grows
<1>5. /\ \A n \in 1..h : Approves(n)' <=> Approves(n)
      /\ Approves(h + 1)' <=> tx.call.fn = "approve"
  BY <1>1 DEF Approves
<1>6. /\ \A n, m \in 1..h : NoneApproves(n, m)' <=> NoneApproves(n, m)
      /\ \A n \in 1..h : NoneApproves(n, h + 1)' <=> NoneApproves(n, h) /\ tx.call.fn # "approve"
      /\ NoneApproves(h + 1, h + 1)'
  <2>1. \A n, m \in 1..h : n + 1..m \subseteq 1..h
    BY <1>1
  <2>2. \A n \in 1..h : n + 1..h + 1 = (n + 1..h) \cup {h + 1} /\ n + 1..h \subseteq 1..h
    BY <1>1
  <2>3. h + 1 + 1..h + 1 = {}
    BY <1>1
  <2> QED
    BY <1>5, <2>1, <2>2, <2>3 DEF NoneApproves
<1>7. (\A n \in 1..Height : Approves(n) =>
        chain[n].tx.hash # 0 /\ chain[n].allowance = chain[n].tx.call.amount)'
  <2> SUFFICES ASSUME NEW n \in 1..h + 1, Approves(n)'
               PROVE  chain'[n].tx.hash # 0 /\ chain'[n].allowance = chain'[n].tx.call.amount
    BY <1>1
  <2>1. CASE n \in 1..h
    BY <1>1, <1>5, <2>1 DEF AllowancesSpent
  <2>2. CASE n = h + 1
    BY <1>1, <1>3, <1>4, <1>5, <2>2
  <2> QED
    BY <1>1, <2>1, <2>2
<1>8. (\A m \in 1..Height : \E n \in 1..m : (n = 1 \/ Approves(n)) /\ NoneApproves(n, m))'
  <2> SUFFICES ASSUME NEW m \in 1..h + 1
               PROVE  \E n \in 1..m : (n = 1 \/ Approves(n)') /\ NoneApproves(n, m)'
    BY <1>1
  <2>1. ASSUME NEW k \in 1..h
        PROVE  \E n \in 1..k : (n = 1 \/ Approves(n)') /\ NoneApproves(n, k)'
    <3>1. k \in 1..Height
      BY <1>1
    <3>2. PICK n \in 1..k : (n = 1 \/ Approves(n)) /\ NoneApproves(n, k)
      BY <3>1 DEF AllowancesSpent
    <3>3. n \in 1..h
      BY <1>1
    <3> QED
      BY <1>5, <1>6, <3>2, <3>3
  <2>2. CASE m = h + 1 /\ tx.call.fn = "approve"
    <3>1. m \in 1..m /\ Approves(m)' /\ NoneApproves(m, m)'
      BY <1>1, <1>5, <1>6, <2>2
    <3> QED
      BY <3>1
  <2>3. CASE m = h + 1 /\ tx.call.fn # "approve"
    <3>1. h \in 1..h
      BY <1>1
    <3>2. PICK n \in 1..h : (n = 1 \/ Approves(n)') /\ NoneApproves(n, h)'
      BY <2>1, <3>1
    <3>3. n \in 1..m /\ NoneApproves(n, m)'
      BY <1>1, <1>6, <2>3, <3>1, <3>2
    <3> QED
      BY <3>2, <3>3
  <2> QED
    BY <1>1, <2>1, <2>2, <2>3
<1>9. (\A m \in 1..Height : \A n \in 1..m : NoneApproves(n, m) =>
        /\ chain[m].allowance <= chain[n].allowance
        /\ \A k \in n + 1..m : chain[k].tx.call.fn = "deposit" /\ chain[k].ok =>
             chain[m].allowance + chain[k].tx.call.amount <= chain[n].allowance)'
  <2> SUFFICES ASSUME NEW m \in 1..h + 1, NEW n \in 1..m, NoneApproves(n, m)'
               PROVE  /\ chain'[m].allowance <= chain'[n].allowance
                      /\ \A k \in n + 1..m : chain'[k].tx.call.fn = "deposit" /\ chain'[k].ok =>
                           chain'[m].allowance + chain'[k].tx.call.amount <= chain'[n].allowance
    BY <1>1
  <2>1. ASSUME NEW i \in 1..h, NEW j \in 1..i, NoneApproves(j, i)
        PROVE  /\ chain[i].allowance <= chain[j].allowance
               /\ \A k \in j + 1..i : chain[k].tx.call.fn = "deposit" /\ chain[k].ok =>
                    chain[i].allowance + chain[k].tx.call.amount <= chain[j].allowance
    <3>1. i \in 1..Height
      BY <1>1
    <3> QED
      BY <2>1, <3>1 DEF AllowancesSpent
  <2>2. CASE m \in 1..h
    <3>1. n \in 1..h /\ \A k \in n + 1..m : k \in 1..h
      BY <1>1, <2>2
    <3>2. NoneApproves(n, m)
      BY <1>6, <2>2, <3>1
    <3> QED
      BY <1>1, <2>1, <2>2, <3>1, <3>2
  <2>3. CASE m = h + 1 /\ n = h + 1
    BY <1>1, <1>3, <2>3
  <2>4. CASE m = h + 1 /\ n \in 1..h
    <3>1. h \in 1..h /\ n \in 1..h
      BY <1>1, <2>4
    <3>2. NoneApproves(n, h) /\ tx.call.fn # "approve"
      BY <1>6, <2>4, <3>1
    <3>3. /\ chain[h].allowance <= chain[n].allowance
          /\ \A k \in n + 1..h : chain[k].tx.call.fn = "deposit" /\ chain[k].ok =>
               chain[h].allowance + chain[k].tx.call.amount <= chain[n].allowance
      BY <2>1, <3>1, <3>2
    <3>4. chain'[n] = chain[n] /\ chain'[m] = b /\ chain[n].allowance \in Nat
      BY <1>1, <1>2, <2>4
    <3>5. b.allowance <= chain[n].allowance
      BY <1>3, <3>2, <3>3, <3>4
    <3>6. ASSUME NEW k \in n + 1..m, chain'[k].tx.call.fn = "deposit", chain'[k].ok
          PROVE  b.allowance + chain'[k].tx.call.amount <= chain[n].allowance
      <4>1. CASE k \in n + 1..h
        <5>1. k \in 1..h
          BY <1>1, <4>1
        <5>2. chain'[k] = chain[k] /\ chain[k].tx.call.amount \in Nat
          BY <1>1, <1>2, <5>1
        <5>3. chain[h].allowance + chain[k].tx.call.amount <= chain[n].allowance
          BY <3>3, <3>6, <4>1, <5>2
        <5> QED
          BY <1>3, <3>2, <3>4, <5>2, <5>3
      <4>2. CASE k = m
        BY <1>1, <1>3, <2>4, <3>3, <3>4, <3>6, <4>2
      <4> QED
        BY <1>1, <2>4, <4>1, <4>2
    <3> QED
      BY <3>4, <3>5, <3>6
  <2> QED
    BY <1>1, <2>2, <2>3, <2>4
<1> QED
  BY <1>7, <1>8, <1>9 DEF AllowancesSpent

\* A plan is empty or kept, except where it is made.
PlanKept == \A f \in Forms : flow'[f].steps \in {flow[f].steps, <<>>}

LEMMA PlansStay ==
  ASSUME PlansExact, PlanKept
  PROVE  PlansExact'
<1> SUFFICES ASSUME NEW f \in Forms, NEW i \in 1..Len(flow'[f].steps)
             PROVE  flow'[f].steps[i].amount
                      \in IF i = Len(flow'[f].steps) THEN {Amount[f]} ELSE {0, Amount[f]}
  BY DEF PlansExact
<1>1. CASE flow'[f].steps = flow[f].steps
  BY <1>1 DEF PlansExact
<1>2. CASE flow'[f].steps = <<>>
  BY <1>2
<1> QED
  BY <1>1, <1>2 DEF PlanKept

\* No step of a submission but Plan touches what it will ask for.
LEMMA PlansFollowed ==
  ASSUME TypeOK, NEW f \in Forms, Submit(f) \/ Progress(f), ~Plan(f)
  PROVE  PlanKept
<1>1. Idle.steps = <<>> /\ flow \in [Forms -> Flow]
  BY DEF Idle, TypeOK
<1>2. ASSUME NEW q, flow' = [flow EXCEPT ![f] = q], q.steps \in {flow[f].steps, <<>>}
      PROVE  PlanKept
  BY <1>1, <1>2 DEF PlanKept
<1>3. flow[f] \in Flow
  BY <1>1
<1>4. ASSUME NEW result, NEW position, End(f, result, position)
      PROVE  PlanKept
  BY <1>1, <1>2, <1>4 DEF End
<1>5. ASSUME NEW result, Fail(f, result)
      PROVE  PlanKept
  BY <1>4, <1>5 DEF Fail
<1>6. ASSUME NEW stage, Goto(f, stage)
      PROVE  PlanKept
  BY <1>1, <1>6 DEF Goto, PlanKept, Flow
<1>7. ASSUME Unavailable(f)
      PROVE  PlanKept
  <2>1. CASE flow[f].attempt < Attempts
    <3> DEFINE q == [flow[f] EXCEPT !.stage = "receipt", !.attempt = @ + 1,
                       !.seen = Nowhere, !.position = 0, !.read = {}]
    <3>1. flow' = [flow EXCEPT ![f] = q]
      BY <1>7, <2>1 DEF Unavailable
    <3>2. q.steps = flow[f].steps
      BY <1>3 DEF Flow
    <3> QED
      BY <1>2, <3>1, <3>2
  <2>2. CASE ~(flow[f].attempt < Attempts)
    BY <1>5, <1>7, <2>2 DEF Unavailable
  <2> QED
    BY <2>1, <2>2
<1>8. CASE Submit(f)
  BY <1>1, <1>8 DEF Submit, PlanKept, Idle
<1>9. CASE Preflight(f) \/ FinishPreflight(f) \/ Simulate(f) \/ GiveUp(f) \/ Reject(f)
           \/ AssertSession(f, "session", "simulate") \/ AssertSession(f, "recheck", "prompt")
  <2>1. CASE Preflight(f)
    <3>1. CASE Latest.open
      <4> DEFINE q == [flow[f] EXCEPT !.stage = "finish",
                         !.pinned = [height |-> Height, fork |-> Latest.fork]]
      <4>1. flow' = [flow EXCEPT ![f] = q] /\ q.steps = flow[f].steps
        BY <1>1, <1>3, <2>1, <3>1 DEF Preflight, Flow
      <4> QED
        BY <1>2, <4>1
    <3>2. CASE ~Latest.open
      BY <1>5, <2>1, <3>2 DEF Preflight
    <3> QED
      BY <3>1, <3>2
  <2>2. CASE FinishPreflight(f)
    BY <1>5, <1>6, <2>2 DEF FinishPreflight
  <2>3. CASE Simulate(f)
    <3>1. CASE Runs(Latest, Step(f))
      <4> DEFINE q == [flow[f] EXCEPT !.stage = "recheck", !.away = ~reviewed]
      <4>1. flow' = [flow EXCEPT ![f] = q] /\ q.steps = flow[f].steps
        BY <1>1, <1>3, <2>3, <3>1 DEF Simulate, Flow
      <4> QED
        BY <1>2, <4>1
    <3>2. CASE ~Runs(Latest, Step(f))
      BY <1>5, <2>3, <3>2 DEF Simulate
    <3> QED
      BY <3>1, <3>2
  <2>4. CASE GiveUp(f) \/ Reject(f)
    BY <1>5, <2>4 DEF GiveUp, Reject
  <2>5. CASE AssertSession(f, "session", "simulate") \/ AssertSession(f, "recheck", "prompt")
    BY <1>5, <1>6, <2>5 DEF AssertSession
  <2> QED
    BY <1>9, <2>1, <2>2, <2>3, <2>4, <2>5
<1>10. CASE Sign(f) \/ WaiterReturns(f) \/ WaiterFails(f)
  <2>1. CASE Sign(f)
    BY <1>1, <2>1 DEF Sign, PlanKept, Flow
  <2>2. CASE WaiterReturns(f)
    <3>1. PICK n \in Final :
            IF chain[n].tx.call = Step(f)
            THEN /\ flow' = [flow EXCEPT ![f].stage = "receipt", ![f].hash = chain[n].tx.hash]
                 /\ UNCHANGED outcome
            ELSE Fail(f, "cancelled")
      BY <2>2 DEF WaiterReturns
    <3>2. CASE chain[n].tx.call = Step(f)
      <4> DEFINE q == [flow[f] EXCEPT !.stage = "receipt", !.hash = chain[n].tx.hash]
      <4>1. flow' = [flow EXCEPT ![f] = q] /\ q.steps = flow[f].steps
        BY <1>1, <1>3, <3>1, <3>2 DEF Flow
      <4> QED
        BY <1>2, <4>1
    <3>3. CASE chain[n].tx.call # Step(f)
      BY <1>5, <3>1, <3>3
    <3> QED
      BY <3>2, <3>3
  <2>3. CASE WaiterFails(f)
    BY <1>6, <2>3 DEF WaiterFails
  <2> QED
    BY <1>10, <2>1, <2>2, <2>3
<1>11. CASE ReadReceipt(f) \/ ReadFreshReceipt(f) \/ ReadFails(f)
  <2>1. CASE ReadReceipt(f)
    <3>1. CASE Places(flow[f].hash) = {}
      BY <1>7, <2>1, <3>1 DEF ReadReceipt
    <3>2. CASE Places(flow[f].hash) # {}
      <4>1. PICK n \in Places(flow[f].hash) :
              IF chain[n].ok
              THEN flow' = [flow EXCEPT ![f].stage = "block",
                             ![f].seen = [height |-> n, fork |-> chain[n].fork]]
              ELSE Fail(f, "unconfirmed")
        BY <2>1, <3>2 DEF ReadReceipt
      <4>2. CASE chain[n].ok
        <5> DEFINE q == [flow[f] EXCEPT !.stage = "block",
                           !.seen = [height |-> n, fork |-> chain[n].fork]]
        <5>1. flow' = [flow EXCEPT ![f] = q] /\ q.steps = flow[f].steps
          BY <1>1, <1>3, <4>1, <4>2 DEF Flow
        <5> QED
          BY <1>2, <5>1
      <4>3. CASE ~(chain[n].ok)
        BY <1>5, <4>1, <4>3
      <4> QED
        BY <4>2, <4>3
    <3> QED
      BY <3>1, <3>2
  <2>2. CASE ReadFreshReceipt(f)
    <3>1. CASE Places(flow[f].hash) = {}
      BY <1>7, <2>2, <3>1 DEF ReadFreshReceipt
    <3>2. CASE Places(flow[f].hash) # {}
      <4>1. PICK n \in Places(flow[f].hash) :
              IF chain[n].ok /\ flow[f].seen = [height |-> n, fork |-> chain[n].fork]
              THEN flow' = [flow EXCEPT ![f].stage = "sealed",
                             ![f].position = chain[n].minted]
              ELSE Fail(f, "unconfirmed")
        BY <2>2, <3>2 DEF ReadFreshReceipt
      <4>2. CASE chain[n].ok /\ flow[f].seen = [height |-> n, fork |-> chain[n].fork]
        <5> DEFINE q == [flow[f] EXCEPT !.stage = "sealed", !.position = chain[n].minted]
        <5>1. flow' = [flow EXCEPT ![f] = q] /\ q.steps = flow[f].steps
          BY <1>1, <1>3, <4>1, <4>2 DEF Flow
        <5> QED
          BY <1>2, <5>1
      <4>3. CASE ~(chain[n].ok /\ flow[f].seen = [height |-> n, fork |-> chain[n].fork])
        BY <1>5, <4>1, <4>3
      <4> QED
        BY <4>2, <4>3
    <3> QED
      BY <3>1, <3>2
  <2>3. CASE ReadFails(f)
    BY <1>7, <2>3 DEF ReadFails
  <2> QED
    BY <1>11, <2>1, <2>2, <2>3
<1>12. ASSUME NEW read, Details(f, read)
       PROVE  PlanKept
  BY <1>1, <1>12 DEF Details, PlanKept, Flow
<1>13. CASE ReadTransaction(f) \/ ReadLatest(f)
  BY <1>5, <1>7, <1>12, <1>13 DEF ReadTransaction, ReadLatest
<1>14. ASSUME NextStep(f)
       PROVE  PlanKept
  <2>1. CASE flow[f].step < Len(flow[f].steps)
    <3> DEFINE q == [Idle EXCEPT !.stage = "preflight", !.id = flow[f].id,
                       !.steps = flow[f].steps, !.step = flow[f].step + 1]
    <3>1. flow' = [flow EXCEPT ![f] = q]
      BY <1>14, <2>1 DEF NextStep
    <3>2. q.steps = flow[f].steps
      BY DEF Idle
    <3> QED
      BY <1>2, <3>1, <3>2
  <2>2. CASE ~(flow[f].step < Len(flow[f].steps))
    BY <1>4, <1>14, <2>2 DEF NextStep
  <2> QED
    BY <2>1, <2>2
<1>15. CASE VerifyBlock(f, "block", Goto(f, "details") /\ UNCHANGED outcome)
  BY <1>5, <1>6, <1>7, <1>15 DEF VerifyBlock
<1>16. CASE VerifyBlock(f, "sealed", NextStep(f))
  BY <1>5, <1>7, <1>14, <1>16 DEF VerifyBlock
<1> QED
  BY <1>8, <1>9, <1>10, <1>11, <1>13, <1>15, <1>16 DEF Progress

\* intents.ts:73-87: what is approved is deposited, or reset first.
LEMMA PlanExact ==
  ASSUME SenderInv, PlansExact, NEW f \in Forms, Plan(f)
  PROVE  PlansExact'
<1>1. flow[f].stage = "plan" /\ ~At(f, "idle") /\ flow \in [Forms -> Flow]
  BY DEF Plan, At, SenderInv, TypeOK
<1>2. CASE ~Latest.open
  <2>1. flow' = [flow EXCEPT ![f] = Idle] /\ Idle.steps = <<>>
    BY <1>2 DEF Plan, Fail, End, Idle
  <2>2. PlanKept
    BY <1>1, <2>1 DEF PlanKept
  <2> QED
    BY <2>2, PlansStay
<1>3. CASE Latest.open
  <2> DEFINE approvals == Approvals(Latest.allowance, Amount[f])
             steps == Append(approvals, Call("deposit", Amount[f]))
  <2>1. Latest.allowance \in Nat /\ Amount[f] \in Nat \ {0}
    <3>1. Latest \in Block
      BY DEF SenderInv, TypeOK, Latest, Height
    <3>2. Latest.allowance \in Nat
      BY <3>1 DEF Block
    <3>3. Amount[f] \in Nat \ {0}
      OBVIOUS
    <3> QED
      BY <3>2, <3>3
  <2>2. approvals \in Seq(Calls)
    BY <2>1, ApprovalsOnly
  <2>3. \A i \in 1..Len(approvals) : approvals[i].amount \in {0, Amount[f]}
    <3>1. CASE Latest.allowance >= Amount[f]
      <4>1. approvals = <<>>
        BY <2>1, <3>1 DEF Approvals
      <4> QED
        BY <4>1
    <3>2. CASE ~(Latest.allowance >= Amount[f]) /\ Latest.allowance = 0
      <4>1. approvals = <<Call("approve", Amount[f])>>
        BY <3>2 DEF Approvals
      <4> QED
        BY <4>1 DEF Call
    <3>3. CASE ~(Latest.allowance >= Amount[f]) /\ Latest.allowance # 0
      <4>1. approvals = <<Call("approve", 0), Call("approve", Amount[f])>>
        BY <3>3 DEF Approvals
      <4> HIDE DEF approvals
      <4> QED
        BY <4>1 DEF Call
    <3> QED
      BY <3>1, <3>2, <3>3
  <2>4. flow' = [flow EXCEPT ![f].stage = "preflight", ![f].steps = steps]
    BY <1>3 DEF Plan
  <2>5. flow'[f].steps = steps /\ \A g \in Forms : g # f => flow'[g] = flow[g]
    BY <1>1, <2>4 DEF Flow
  <2> HIDE DEF approvals
  <2>6. /\ Len(steps) = Len(approvals) + 1 /\ Len(approvals) \in Nat
        /\ \A i \in 1..Len(approvals) : steps[i] = approvals[i]
        /\ steps[Len(approvals) + 1] = Call("deposit", Amount[f])
    <3>1. Call("deposit", Amount[f]) \in Calls
      BY <2>1 DEF Call, Calls
    <3> QED
      BY <2>2, <3>1
  <2> HIDE DEF steps
  <2>7. \A i \in 1..Len(steps) :
          steps[i].amount \in IF i = Len(steps) THEN {Amount[f]} ELSE {0, Amount[f]}
    <3> TAKE i \in 1..Len(steps)
    <3>1. CASE i = Len(steps)
      BY <2>6, <3>1 DEF Call
    <3>2. CASE i # Len(steps)
      <4>1. i \in 1..Len(approvals)
        BY <2>6, <3>2
      <4> QED
        BY <2>3, <2>6, <3>2, <4>1
    <3> QED
      BY <3>1, <3>2
  <2> QED
    BY <2>5, <2>7 DEF PlansExact
<1> QED
  BY <1>2, <1>3

-------------------------------------------------------------------------------

\* A repriced transaction is as exact as the one that it replaces.
LEMMA ReplaceExact ==
  ASSUME SenderInv, SignedExact, Replace
  PROVE  SignedExact'
<1>1. PICK old \in signed : \E call \in {old.call, Call("cancel", 0)} :
        signed' = signed \cup {[old EXCEPT !.hash = NewHash, !.call = call]}
  BY DEF Replace
<1>2. PICK call \in {old.call, Call("cancel", 0)} :
        signed' = signed \cup {[old EXCEPT !.hash = NewHash, !.call = call]}
  BY <1>1
<1> PICK new : new = [old EXCEPT !.hash = NewHash, !.call = call]
  OBVIOUS
<1>3. /\ new.nonce = old.nonce /\ new.submission = old.submission /\ new.step = old.step
      /\ new.call \in {old.call, Call("cancel", 0)} /\ signed' = signed \cup {new}
  <2>1. old \in Tx
    BY DEF SenderInv, TypeOK
  <2> QED
    BY <1>2, <2>1 DEF Tx
<1>4. \A t \in signed' : \E u \in signed :
        /\ t.nonce = u.nonce /\ t.submission = u.submission /\ t.step = u.step
        /\ t.call.fn \in {"approve", "deposit"} => t.call = u.call
  <2> TAKE t \in signed'
  <2>1. CASE t \in signed
    BY <2>1
  <2>2. CASE t = new
    <3>1. old \in signed /\ (new.call.fn \in {"approve", "deposit"} => new.call = old.call)
      BY <1>3 DEF Call
    <3> QED
      BY <1>3, <2>2, <3>1
  <2> QED
    BY <1>3, <2>1, <2>2
<1>5. \A t \in signed' : t.call.fn = "approve" =>
        t.call.amount \in {0} \cup {Amount[f] : f \in Forms}
  BY <1>4 DEF SignedExact
<1>6. \A t, u \in signed' : t.submission = u.submission /\ t.step < u.step => t.nonce < u.nonce
  BY <1>4 DEF SignedExact
<1>7. \A t, u \in signed' :
        t.submission = u.submission /\ t.call.fn = "approve" /\ u.call.fn = "deposit"
        => t.step < u.step /\ t.call.amount <= u.call.amount
  BY <1>4 DEF SignedExact
<1> QED
  BY <1>5, <1>6, <1>7 DEF SignedExact

\* The next step of a plan is signed after every earlier one.
LEMMA SignExact ==
  ASSUME SenderInv, PlansExact, SignedExact, NEW f \in Forms, Sign(f)
  PROVE  SignedExact'
<1> DEFINE r == flow[f]
<1> PICK new : new = [hash |-> NewHash, nonce |-> Cardinality({tx.nonce : tx \in signed}) + 1,
                      submission |-> r.id, step |-> r.step, call |-> Step(f)]
  OBVIOUS
<1>1. /\ r.stage = "prompt" /\ ~At(f, "idle") /\ signed' = signed \cup {new}
      /\ new.submission = r.id /\ new.step = r.step /\ new.call = r.steps[r.step]
  BY DEF Sign, At, Step
<1>2. /\ r \in Flow /\ UnderWay(r) /\ r.step \in 1..Len(r.steps) /\ Len(r.steps) \in Nat
  <2>1. r \in Flow /\ UnderWay(r) /\ (r.steps # <<>> => r.step \in 1..Len(r.steps))
    BY <1>1, Busy
  <2>2. r.steps # <<>>
    BY <1>1, <2>1 DEF UnderWay, Planned
  <2> QED
    BY <2>1, <2>2 DEF Flow
<1>3. \A t \in signed : t.nonce < new.nonce
  <2>1. {tx.nonce : tx \in signed} = Nonces /\ Cardinality(Nonces) \in Nat
        /\ Nonces = 1..Cardinality(Nonces)
    BY NoncesFinite DEF Nonces, SenderInv, SignedSound
  <2>2. new.nonce = Cardinality(Nonces) + 1
    BY <2>1
  <2> TAKE t \in signed
  <2>3. t.nonce \in Nonces
    BY DEF Nonces
  <2> QED
    BY <2>1, <2>2, <2>3
<1> DEFINE calls == r.steps
           last == Len(calls)
<1>4. \A i \in 1..last : /\ calls[i].fn = "deposit" <=> i = last
                         /\ calls[i].fn # "cancel"
                         /\ calls[i].amount \in {0, Amount[f]}
                         /\ i = last => calls[i].amount = Amount[f]
  BY <1>1, <1>2 DEF UnderWay, Planned, PlansExact
<1> HIDE DEF calls
<1>5. \A t \in signed : t.submission = r.id =>
        /\ t.step \in 1..last /\ t.step < r.step
        /\ t.call \in {calls[t.step], Call("cancel", 0)}
  <2> SUFFICES ASSUME NEW t \in signed, t.submission = r.id
               PROVE  /\ t.step \in 1..last /\ t.step < r.step
                      /\ t.call \in {calls[t.step], Call("cancel", 0)}
    OBVIOUS
  <2>1. t \in SignedFor(r.id)
    BY DEF SignedFor
  <2>2. t.step \in 1..r.step /\ t.step # r.step /\ t.call \in {calls[t.step], Call("cancel", 0)}
    BY <1>1, <1>2, <2>1 DEF UnderWay, Followed, Unsigned, calls
  <2> QED
    BY <1>2, <2>2 DEF calls
<1>6. new.step = r.step /\ r.step \in 1..last /\ new.call = calls[r.step] /\ last \in Nat
  BY <1>1, <1>2 DEF calls
<1> HIDE DEF last, r
<1>7. \A t \in signed' : t.call.fn = "approve" =>
        t.call.amount \in {0} \cup {Amount[g] : g \in Forms}
  BY <1>1, <1>4, <1>6 DEF SignedExact
<1>8. \A t, u \in signed' : t.submission = u.submission /\ t.step < u.step => t.nonce < u.nonce
  <2> TAKE t, u \in signed'
  <2>1. CASE u = new /\ t \in signed
    BY <1>3, <2>1
  <2>2. CASE t = new /\ u \in signed
    BY <1>1, <1>5, <1>6, <2>2
  <2>3. CASE t \in signed /\ u \in signed
    BY <2>3 DEF SignedExact
  <2>4. CASE t = new /\ u = new
    BY <1>6, <2>4
  <2> QED
    BY <1>1, <2>1, <2>2, <2>3, <2>4
<1>9. \A t, u \in signed' :
        t.submission = u.submission /\ t.call.fn = "approve" /\ u.call.fn = "deposit"
        => t.step < u.step /\ t.call.amount <= u.call.amount
  <2> SUFFICES ASSUME NEW t \in signed', NEW u \in signed', t.submission = u.submission,
                      t.call.fn = "approve", u.call.fn = "deposit"
               PROVE  t.step < u.step /\ t.call.amount <= u.call.amount
    OBVIOUS
  <2>1. CASE u = new /\ t \in signed
    <3>1. t.step \in 1..last /\ t.step < r.step /\ t.call = calls[t.step]
      BY <1>1, <1>5, <2>1 DEF Call
    <3>2. u.call.amount = Amount[f] /\ u.step = r.step
      BY <1>4, <1>6, <2>1
    <3>3. t.call.amount \in {0, Amount[f]}
      BY <1>4, <3>1
    <3>4. Amount[f] \in Nat
      OBVIOUS
    <3> QED
      BY <2>1, <1>6, <3>1, <3>2, <3>3, <3>4
  <2>2. CASE t = new /\ u \in signed
    <3>1. u.step \in 1..last /\ u.step < r.step /\ u.call = calls[u.step]
      BY <1>1, <1>5, <2>2 DEF Call
    <3>2. u.step = last
      BY <1>4, <3>1
    <3> QED
      BY <1>6, <3>1, <3>2
  <2>3. CASE t \in signed /\ u \in signed
    BY <2>3 DEF SignedExact
  <2>4. CASE t = new /\ u = new
    BY <2>4
  <2> QED
    BY <1>1, <2>1, <2>2, <2>3, <2>4
<1> QED
  BY <1>7, <1>8, <1>9 DEF SignedExact

LEMMA SpentSame ==
  ASSUME AllowancesSpent, chain' = chain
  PROVE  AllowancesSpent'
<1>1. /\ Height' = Height /\ \A n : Approves(n)' <=> Approves(n)
      /\ \A n, m : NoneApproves(n, m)' <=> NoneApproves(n, m)
  BY DEF Height, Approves, NoneApproves
<1>2. (\A n \in 1..Height : Approves(n) =>
        chain[n].tx.hash # 0 /\ chain[n].allowance = chain[n].tx.call.amount)'
  BY <1>1 DEF AllowancesSpent
<1>3. (\A m \in 1..Height : \E n \in 1..m : (n = 1 \/ Approves(n)) /\ NoneApproves(n, m))'
  BY <1>1 DEF AllowancesSpent
<1>4. (\A m \in 1..Height : \A n \in 1..m : NoneApproves(n, m) =>
        /\ chain[m].allowance <= chain[n].allowance
        /\ \A k \in n + 1..m : chain[k].tx.call.fn = "deposit" /\ chain[k].ok =>
             chain[m].allowance + chain[k].tx.call.amount <= chain[n].allowance)'
  BY <1>1 DEF AllowancesSpent
<1> QED
  BY <1>2, <1>3, <1>4 DEF AllowancesSpent

LEMMA ApprovalInit == Init => ApprovalInv
<1> SUFFICES ASSUME Init
             PROVE  ApprovalInv
  OBVIOUS
<1>1. /\ Height = 1 /\ chain[1].tx = Others("none") /\ chain[1].allowance = budget.allowance
      /\ budget.allowance \in Nat /\ signed = {} /\ \A f \in Forms : flow[f].steps = <<>>
  <2>1. budget \in [allowance : Nat, submits : [Forms -> Nat], events : Nat]
    BY DEF Init
  <2>2. budget.allowance \in Nat
    BY <2>1
  <2> QED
    BY <2>2 DEF Init, Height, Idle
<1>2. ~Approves(1) /\ NoneApproves(1, 1)
  BY <1>1, OthersType DEF Approves, NoneApproves
<1>3. AllowancesSpent
  BY <1>1, <1>2 DEF AllowancesSpent
<1>4. PlansExact /\ SignedExact
  BY <1>1 DEF PlansExact, SignedExact
<1> QED
  BY <1>3, <1>4 DEF ApprovalInv

LEMMA ApprovalNext ==
  ASSUME SenderInv, ApprovalInv, [Next]_vars
  PROVE  ApprovalInv'
<1> USE DEF ApprovalInv
<1>1. TypeOK /\ flow \in [Forms -> Flow]
  BY DEF SenderInv, TypeOK
<1>2. ASSUME flow' = flow
      PROVE  PlansExact'
  BY <1>2, PlansStay DEF PlanKept
<1>3. ASSUME signed' = signed
      PROVE  SignedExact'
  BY <1>3 DEF SignedExact
<1>4. CASE ChainMoves \/ ForeignTransaction \/ Reorganise
  <2>1. PICK h, tx : Grows(h, tx)
    BY <1>4, ChainGrows DEF ChainMoves
  <2>2. flow' = flow /\ signed' = signed
    BY <2>1 DEF Grows
  <2> QED
    BY <1>2, <1>3, <2>1, <2>2, SpentGrown
<1>5. CASE Replace
  <2>1. flow' = flow /\ chain' = chain
    BY <1>5 DEF Replace
  <2> QED
    BY <1>2, <1>5, <2>1, ReplaceExact, SpentSame
<1>6. CASE Switch
  <2>1. /\ flow' = [g \in Forms |-> [flow[g] EXCEPT !.away = FALSE]]
        /\ UNCHANGED <<chain, signed>>
    BY <1>6 DEF Switch
  <2>2. \A g \in Forms : flow'[g].steps = flow[g].steps
    BY <1>1, <2>1 DEF Flow
  <2> QED
    BY <1>3, <2>1, <2>2, PlansStay, SpentSame DEF PlanKept
<1>7. ASSUME NEW f \in Forms, Submit(f) \/ Progress(f)
      PROVE  ApprovalInv'
  <2>1. chain' = chain
    <3>1. \A g \in Forms : Quiet(g) => chain' = chain
      BY DEF Quiet, external
    <3> QED
      BY <1>7, <3>1
         DEF Submit, Progress, Plan, Preflight, FinishPreflight, AssertSession, Simulate, GiveUp,
             Reject, Sign, WaiterReturns, WaiterFails, Continues, ReadReceipt, VerifyBlock,
             ReadTransaction, ReadLatest, ReadFreshReceipt, ReadFails, external
  <2>2. CASE Sign(f)
    BY <1>1, <2>1, <2>2, SignExact, SpentSame, PlansFollowed, PlansStay DEF Progress, Plan, Sign, At
  <2>3. CASE ~Sign(f)
    <3>1. signed' = signed
      BY <1>7, <2>3
         DEF Submit, Progress, Plan, Preflight, FinishPreflight, AssertSession, Simulate, GiveUp,
             Reject, WaiterReturns, WaiterFails, Continues, ReadReceipt, VerifyBlock,
             ReadTransaction, ReadLatest, ReadFreshReceipt, ReadFails, Quiet
    <3>2. PlansExact'
      BY <1>1, <1>7, PlanExact, PlansFollowed, PlansStay
    <3> QED
      BY <1>3, <2>1, <3>1, <3>2, SpentSame
  <2> QED
    BY <2>2, <2>3
<1>8. CASE UNCHANGED vars
  BY <1>2, <1>3, <1>8, SpentSame DEF vars
<1> QED
  BY <1>4, <1>5, <1>6, <1>7, <1>8 DEF Next

\* A deposit of a submission stands behind its approvals.
LEMMA DepositAfterApproval ==
  ASSUME SenderInv, ApprovalInv, NEW n \in 1..Height, NEW m \in 1..Height,
         Approves(n), chain[m].tx.call.fn = "deposit",
         chain[n].tx.submission = chain[m].tx.submission
  PROVE  n < m /\ chain[n].allowance <= chain[m].tx.call.amount
<1>1. chain[n].tx.hash # 0 /\ chain[n].allowance = chain[n].tx.call.amount
  BY DEF ApprovalInv, AllowancesSpent
<1>2. chain[m].tx.hash # 0
  BY DEF SenderInv, ChainSound
<1>3. /\ chain[n].tx \in signed /\ chain[m].tx \in signed
      /\ chain[n].tx.nonce = Cardinality(OwnUpTo(n))
      /\ chain[m].tx.nonce = Cardinality(OwnUpTo(m))
  BY <1>1, <1>2 DEF SenderInv, ChainSound
<1>4. chain[n].tx.step < chain[m].tx.step /\ chain[n].tx.call.amount <= chain[m].tx.call.amount
  BY <1>3 DEF ApprovalInv, SignedExact, Approves
<1>5. Cardinality(OwnUpTo(n)) < Cardinality(OwnUpTo(m))
  BY <1>3, <1>4 DEF ApprovalInv, SignedExact
<1>6. n \in Nat /\ m \in Nat
  BY DEF SenderInv, TypeOK, Height
<1>7. ~(m <= n)
  <2> SUFFICES ASSUME m <= n PROVE FALSE
    OBVIOUS
  <2>1. m \in 0..n
    BY <1>6
  <2>2. Cardinality(OwnUpTo(m)) <= Cardinality(OwnUpTo(n))
        /\ Cardinality(OwnUpTo(m)) \in Nat /\ Cardinality(OwnUpTo(n)) \in Nat
    BY <1>6, <2>1, OwnCount
  <2> QED
    BY <1>5, <2>2
<1> QED
  BY <1>1, <1>4, <1>6, <1>7

\* The pool may never spend more than an amount that somebody reviewed, and forms that
\* all report success leave nothing approved behind (intents.ts:73-87).
THEOREM ApprovalsAreExact == Spec => []ApprovalsExact
<1>1. ASSUME SenderInv, ApprovalInv
      PROVE  ApprovalsExact
  <2>1. chain \in Seq(Block) /\ Height \in Nat \ {0} /\ Height \in 1..Height /\ 1 \in 1..Height
    BY <1>1 DEF SenderInv, TypeOK, Height
  <2>2. \A n \in 1..Height : chain[n].allowance \in Nat /\ chain[n].tx \in Tx
    <3>1. \A n \in 1..Height : chain[n] \in Block
      BY <2>1 DEF Height
    <3> QED
      BY <3>1 DEF Block
  <2>3. PICK n \in 1..Height : (n = 1 \/ Approves(n)) /\ NoneApproves(n, Height)
    BY <1>1, <2>1 DEF ApprovalInv, AllowancesSpent
  <2>4. /\ Latest.allowance <= chain[n].allowance
        /\ \A k \in n + 1..Height : chain[k].tx.call.fn = "deposit" /\ chain[k].ok =>
             Latest.allowance + chain[k].tx.call.amount <= chain[n].allowance
    BY <1>1, <2>1, <2>3 DEF ApprovalInv, AllowancesSpent, Latest
  <2>5. Latest.allowance \in Nat /\ chain[1].allowance \in Nat /\ chain[n].allowance \in Nat
    BY <2>1, <2>2 DEF Latest
  <2>6. CASE n = 1
    BY <2>4, <2>5, <2>6 DEF ApprovalsExact
  <2>7. CASE Approves(n)
    <3>1. /\ chain[n].tx.hash # 0 /\ chain[n].allowance = chain[n].tx.call.amount
          /\ chain[n].tx \in signed
      BY <1>1, <2>7 DEF ApprovalInv, AllowancesSpent, SenderInv, ChainSound
    <3>2. chain[n].allowance \in {0} \cup {Amount[f] : f \in Forms}
      BY <1>1, <2>7, <3>1 DEF ApprovalInv, SignedExact, Approves
    <3>3. \/ Latest.allowance <= chain[1].allowance
          \/ \E f \in Forms : Latest.allowance <= Amount[f]
      <4>1. CASE chain[n].allowance = 0
        BY <2>4, <2>5, <4>1
      <4>2. CASE \E f \in Forms : chain[n].allowance = Amount[f]
        BY <2>4, <4>2
      <4> QED
        BY <3>2, <4>1, <4>2
    <3>4. ASSUME \A s \in Submissions : outcome[s].result \in {"none", "confirmed"}
          PROVE  Latest.allowance <= chain[1].allowance
      <4> DEFINE s == chain[n].tx.submission
      <4>1. s \in Submissions /\ outcome[s].result # "none"
        BY <1>1, <3>1 DEF SenderInv, SignedSound
      <4>2. PICK m \in Final \cap Deposits(s) : TRUE
        BY <1>1, <3>4, <4>1 DEF SenderInv, EndsSound, EndSound
      <4>3. m \in 1..Height /\ chain[m].tx.call.fn = "deposit" /\ chain[m].ok
            /\ chain[m].tx.submission = s
        BY <4>2 DEF Deposits
      <4>4. n < m /\ chain[n].allowance <= chain[m].tx.call.amount
        BY <1>1, <2>7, <4>3, DepositAfterApproval
      <4>5. m \in n + 1..Height
        BY <2>1, <4>3, <4>4
      <4>6. chain[m].tx.call.amount \in Nat
        BY <2>2, <4>3 DEF Tx, Calls
      <4>7. Latest.allowance + chain[m].tx.call.amount <= chain[n].allowance
        BY <2>4, <4>3, <4>5
      <4> QED
        BY <2>5, <4>4, <4>6, <4>7
    <3> QED
      BY <3>3, <3>4 DEF ApprovalsExact
  <2> QED
    BY <2>3, <2>6, <2>7
<1>2. Init => ApprovalInv
  BY ApprovalInit
<1>3. SenderInv /\ ApprovalInv /\ [Next]_vars => ApprovalInv'
  BY ApprovalNext
<1> QED
  BY <1>1, <1>2, <1>3, Invariance, PTL DEF Spec
=============================================================================
