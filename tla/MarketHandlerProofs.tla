------------------------- MODULE MarketHandlerProofs -------------------------
(***************************************************************************)
(* The answers of MarketHandler are current, for any clients and limits.   *)
(***************************************************************************)
EXTENDS MarketHandler, TLAPS

\* No complete read mixes blocks: a read that did has noticed the reorganisation.
MarketInv ==
  /\ TypeOK
  /\ ~snapshot.mixed
  /\ pending.mixed => pending.moved

LEMMA OlderInRange ==
  ASSUME NEW limit \in Nat, NEW age \in -1..limit + 1
  PROVE  Older(age, limit) \in -1..limit + 1 /\ (age >= 0 => Older(age, limit) >= 0)
  BY DEF Older

LEMMA FeedInRange ==
  ASSUME NEW age \in FeedAges
  PROVE  OlderFeed(age) \in FeedAges
  BY MarketAssumption, OlderInRange DEF OlderFeed, FeedAges

LEMMA InitHolds ==
  ASSUME Init
  PROVE  MarketInv
  BY MarketAssumption DEF Init, MarketInv, TypeOK, NoRead, NoSnapshot, Source, Read, Snapshot,
     BlockAges, FeedAges, Answers, Served

\* Every response is one of the answers.
LEMMA ResponseTyped ==
  ASSUME NEW s \in Snapshot
  PROVE  Response(s) \in Served \cup {"503"}
<1>1. s.feed \in Int /\ FeedAge \in Int
  BY MarketAssumption DEF Snapshot, FeedAges
<1>2. s.feed < 0 \/ (0 <= s.feed /\ s.feed <= FeedAge) \/ s.feed > FeedAge
  BY <1>1
<1>3. Label(s.feed) \in Served
  BY <1>1, <1>2 DEF Label, Served
<1> QED BY <1>3 DEF Response

LEMMA SettleTyped ==
  ASSUME TypeOK, NEW response \in Served \cup {"503"}, Settle(response)
  PROVE  request' \in [Requests -> {"idle", "waiting"}] /\ answer' \in [Requests -> Answers]
  BY DEF TypeOK, Settle, Answers

\* What a completed read saves is one block's.
LEMMA Completed ==
  ASSUME MarketInv, Complete
  PROVE  snapshot' \in Snapshot /\ ~snapshot'.mixed /\ snapshot'.held
<1>1. pending \in Read /\ ~pending.mixed
  BY DEF MarketInv, TypeOK, Complete, Read
<1> QED BY <1>1, MarketAssumption DEF Complete, Snapshot, Read

LEMMA StepKeeps ==
  ASSUME MarketInv, [Next]_vars
  PROVE  MarketInv'
<1>1. TypeOK /\ pending \in Read /\ snapshot \in Snapshot /\ source \in Source
  BY DEF MarketInv, TypeOK
<1>2. NoRead \in Read
  BY MarketAssumption DEF NoRead, Read, BlockAges, FeedAges
<1>3. CASE UNCHANGED vars
  BY <1>3 DEF vars, MarketInv, TypeOK
<1>4. ASSUME NEW r \in Requests, Serve(r)
      PROVE  MarketInv'
  <2>1. answer' \in [Requests -> Answers]
    BY <1>1, <1>4, ResponseTyped DEF Serve, TypeOK, Answers
  <2> QED BY <2>1, <1>4 DEF Serve, MarketInv, TypeOK
<1>5. ASSUME NEW r \in Requests, Join(r)
      PROVE  MarketInv'
  <2>1. request' \in [Requests -> {"idle", "waiting"}]
    BY <1>1, <1>5 DEF Join, TypeOK
  <2>2. [NoRead EXCEPT !.stage = "block"] \in Read /\ ~[NoRead EXCEPT !.stage = "block"].mixed
    BY <1>2 DEF Read, NoRead
  <2>3. pending' \in Read /\ (pending'.mixed => pending'.moved)
    BY <1>1, <1>5, <2>2 DEF Join, MarketInv
  <2> QED BY <2>1, <2>3, <1>5 DEF Join, MarketInv, TypeOK
<1>6. CASE ReadFails
  <2>1. request' \in [Requests -> {"idle", "waiting"}] /\ answer' \in [Requests -> Answers]
    BY <1>1, <1>6, SettleTyped DEF ReadFails
  <2>2. pending' \in Read /\ ~pending'.mixed
    BY <1>2, <1>6 DEF ReadFails, NoRead
  <2> QED BY <2>1, <2>2, <1>6 DEF ReadFails, MarketInv, TypeOK
<1>7. CASE ReadBlock
  <2>1. pending' \in Read /\ pending'.mixed = pending.mixed /\ pending'.moved = pending.moved
    BY <1>1, <1>7 DEF ReadBlock, Read, Source
  <2> QED BY <2>1, <1>7 DEF ReadBlock, MarketInv, TypeOK
<1>8. CASE ReadFeeds
  <2>1. pending' \in Read /\ pending'.mixed = pending.moved /\ pending'.moved = pending.moved
    BY <1>1, <1>8 DEF ReadFeeds, Read
  <2> QED BY <2>1, <1>8 DEF ReadFeeds, MarketInv, TypeOK
<1>9. CASE Complete
  <2>1. snapshot' \in Snapshot /\ ~snapshot'.mixed
    BY <1>9, Completed
  <2>2. Response(snapshot') \in Served \cup {"503"}
    BY <2>1, ResponseTyped
  <2>3. request' \in [Requests -> {"idle", "waiting"}] /\ answer' \in [Requests -> Answers]
    BY <1>1, <1>9, <2>2, SettleTyped DEF Complete
  <2>4. pending' \in Read /\ ~pending'.mixed
    BY <1>2, <1>9 DEF Complete, NoRead
  <2> QED BY <2>1, <2>3, <2>4, <1>9 DEF Complete, MarketInv, TypeOK
<1>10. CASE Tick
  <2>1. \A age \in BlockAges : Older(age, MaxAge) \in BlockAges
    BY MarketAssumption, OlderInRange DEF BlockAges
  <2>2. source' \in Source
    BY <1>1, <1>10, <2>1, FeedInRange DEF Tick, Source
  <2>3. pending' \in Read /\ pending'.mixed = pending.mixed /\ pending'.moved = pending.moved
    <3>1. CASE pending.stage = "none"
      BY <1>1, <1>10, <3>1 DEF Tick
    <3>2. CASE pending.stage # "none"
      <4>1. pending.elapsed + 1 \in 0..ReadLimit
        BY <1>1, <1>10, <3>2, MarketAssumption DEF Tick, Read
      <4>2. Older(pending.age, MaxAge) \in BlockAges /\ OlderFeed(pending.feed) \in FeedAges
        BY <1>1, <2>1, FeedInRange DEF Read
      <4>3. pending' = [pending EXCEPT !.age = Older(pending.age, MaxAge),
                          !.feed = OlderFeed(pending.feed), !.elapsed = pending.elapsed + 1]
        BY <1>10, <3>2 DEF Tick
      <4> QED BY <1>1, <4>1, <4>2, <4>3 DEF Read
    <3> QED BY <3>1, <3>2
  <2>4. snapshot' \in Snapshot /\ snapshot'.mixed = snapshot.mixed
    <3>1. CASE ~snapshot.held
      BY <1>1, <1>10, <3>1 DEF Tick
    <3>2. CASE snapshot.held
      <4>1. Older(snapshot.saved, CacheAge) \in 0..CacheAge + 1
        BY <1>1, MarketAssumption DEF Snapshot, Older
      <4>2. Older(snapshot.age, MaxAge) \in BlockAges /\ OlderFeed(snapshot.feed) \in FeedAges
        BY <1>1, <2>1, FeedInRange DEF Snapshot
      <4>3. snapshot' = [snapshot EXCEPT !.age = Older(snapshot.age, MaxAge),
                           !.feed = OlderFeed(snapshot.feed),
                           !.saved = Older(snapshot.saved, CacheAge)]
        BY <1>10, <3>2 DEF Tick
      <4> QED BY <1>1, <4>1, <4>2, <4>3 DEF Snapshot
    <3> QED BY <3>1, <3>2
  <2> QED BY <2>2, <2>3, <2>4, <1>10 DEF Tick, MarketInv, TypeOK
<1>11. CASE NewBlock
  <2>1. source' \in Source
    BY <1>1, <1>11, MarketAssumption DEF NewBlock, Source, BlockAges, FeedAges
  <2> QED BY <2>1, <1>11 DEF NewBlock, MarketInv, TypeOK
<1>12. CASE Reorganise
  <2>1. pending' \in Read /\ pending'.moved
    BY <1>1, <1>12 DEF Reorganise, Read
  <2> QED BY <2>1, <1>12 DEF Reorganise, MarketInv, TypeOK
<1>13. CASE Outage
  BY <1>13 DEF Outage, MarketInv, TypeOK
<1> QED BY <1>3, <1>4, <1>5, <1>6, <1>7, <1>8, <1>9, <1>10, <1>11, <1>12, <1>13
        DEF Next, ReadSteps

\* The inductive invariant: types, and no snapshot of two blocks.
THEOREM Invariance == Spec => []MarketInv
<1>1. Init => MarketInv
  BY InitHolds
<1>2. MarketInv /\ [Next]_vars => MarketInv'
  BY StepKeeps
<1> QED BY <1>1, <1>2, PTL DEF Spec

\* Every variable keeps its type.
THEOREM TypeCorrect == Spec => []TypeOK
<1>1. MarketInv => TypeOK
  BY DEF MarketInv
<1> QED BY <1>1, Invariance, PTL

\* A response with a label is from a held, valid snapshot, and the label is the feed's.
LEMMA ServedIsCurrent ==
  ASSUME NEW s \in Snapshot, Response(s) \in Served
  PROVE  /\ s.held /\ ValidBlock(s.age)
         /\ Response(s) = "reference-available" => s.feed \in 0..FeedAge
<1>1. s.held /\ ValidBlock(s.age)
  BY DEF Response, Served
<1>2. s.feed \in Int /\ FeedAge \in Nat
  BY MarketAssumption DEF Snapshot, FeedAges
<1>3. s.feed < 0 => Label(s.feed) = "unavailable"
  BY <1>2 DEF Label
<1>4. s.feed > FeedAge => Label(s.feed) = "stale"
  BY <1>2 DEF Label
<1>5. Response(s) = Label(s.feed)
  BY <1>1 DEF Response
<1> QED BY <1>1, <1>2, <1>3, <1>4, <1>5

\* The moments of sending: at once from the cache, or for all when the read settles.
LEMMA SentIsCurrent ==
  ASSUME MarketInv, MarketInv', [Next]_vars, NEW r \in Requests, Sends(r), answer'[r] \in Served
  PROVE  /\ snapshot'.held /\ ~snapshot'.mixed
         /\ ValidBlock(snapshot'.age)
         /\ answer'[r] = "reference-available" => snapshot'.feed \in 0..FeedAge
<1>1. snapshot' \in Snapshot /\ ~snapshot'.mixed
  BY DEF MarketInv, TypeOK
<1>2. answer'[r] = Response(snapshot')
  <2>1. CASE Serve(r)
    BY <2>1 DEF Serve, MarketInv, TypeOK
  <2>2. CASE request[r] = "waiting" /\ request'[r] = "idle"
    <3>1. request' # request
      BY <2>2
    <3>2. CASE ReadFails
      BY <2>2, <3>2 DEF ReadFails, Settle, Served
    <3>3. CASE Complete
      BY <2>2, <3>3 DEF Complete, Settle
    <3>4. ASSUME NEW q \in Requests, Join(q)
          PROVE  FALSE
      BY <2>2, <3>4 DEF Join, MarketInv, TypeOK
    <3> QED BY <3>1, <3>2, <3>3, <3>4
            DEF Next, ReadSteps, Serve, ReadBlock, ReadFeeds, Tick, NewBlock, Reorganise,
                Outage, vars
  <2> QED BY <2>1, <2>2 DEF Sends
<1> QED BY <1>1, <1>2, ServedIsCurrent

\* What is sent with status 200 is true when it is sent.
THEOREM AnswersAreCurrent == Spec => AnswersCurrent
<1>1. MarketInv /\ MarketInv' /\ [Next]_vars =>
        [\A r \in Requests : Sends(r) /\ answer'[r] \in Served =>
           /\ snapshot'.held /\ ~snapshot'.mixed
           /\ ValidBlock(snapshot'.age)
           /\ answer'[r] = "reference-available" => snapshot'.feed \in 0..FeedAge]_vars
  BY SentIsCurrent
<1> QED BY <1>1, Invariance, PTL DEF Spec, AnswersCurrent
=============================================================================
