---------------------------- MODULE MarketHandler ----------------------------
(***************************************************************************)
(* The reference price service of services/bnb-market-handler.mjs: requests *)
(* share one cached snapshot and at most one read of the BSC feeds in       *)
(* flight, while time passes, blocks are reorganised and the RPC node       *)
(* fails.                                                                  *)
(*                                                                         *)
(* Times are kept as ages, counted in ticks up to one past the limit they  *)
(* are compared with; a block stamped ahead of the local clock has age -1. *)
(* One feed stands for all: each is labelled on its own.  A read sees a    *)
(* reorganised block under a hash it has not seen before.                  *)
(***************************************************************************)
EXTENDS Integers

CONSTANTS
  Requests,    \* connections of clients, each with one request at a time
  MaxAge,      \* MAX_BLOCK_AGE_SECONDS
  CacheAge,    \* how long a snapshot answers without a new read
  FeedAge,     \* maxPriceAgeSeconds of the asset
  ReadLimit    \* ticks a read can take: the timeouts of its calls together

ASSUME MarketAssumption == {MaxAge, CacheAge, FeedAge, ReadLimit} \subseteq Nat

VARIABLES
  source,      \* the block ten below the tip, as a read would find it
  up,          \* the RPC node answers within its timeouts
  pending,     \* the read in flight
  snapshot,    \* the last complete read
  request,     \* which requests wait for the read in flight
  answer       \* the last answer of each request, as it was sent

vars == <<source, up, pending, snapshot, request, answer>>

BlockAges == -1..MaxAge + 1
FeedAges == -1..FeedAge + 1

\* feed: the age of the feed's last update, -1 while its round does not parse.
Source == [age : BlockAges, feed : FeedAges]
\* moved: the block was reorganised since it was read; mixed: so were readings.
Read == [stage : {"none", "block", "calls", "confirm"}, age : BlockAges, feed : FeedAges,
         moved : BOOLEAN, mixed : BOOLEAN, elapsed : 0..ReadLimit]
Snapshot == [held : BOOLEAN, age : BlockAges, feed : FeedAges, mixed : BOOLEAN,
             saved : 0..CacheAge + 1]
\* Status 200 with the label of the feed, 503, or none yet.
Served == {"unavailable", "stale", "reference-available"}
Answers == Served \cup {"503", "none"}

NoRead == [stage |-> "none", age |-> 0, feed |-> 0, moved |-> FALSE,
           mixed |-> FALSE, elapsed |-> 0]
NoSnapshot == [held |-> FALSE, age |-> 0, feed |-> 0, mixed |-> FALSE, saved |-> 0]

TypeOK ==
  /\ source \in Source
  /\ up \in BOOLEAN
  /\ pending \in Read
  /\ snapshot \in Snapshot
  /\ request \in [Requests -> {"idle", "waiting"}]
  /\ answer \in [Requests -> Answers]

Init ==
  /\ source = [age |-> 0, feed |-> 0]
  /\ up = TRUE
  /\ pending = NoRead
  /\ snapshot = NoSnapshot
  /\ request = [r \in Requests |-> "idle"]
  /\ answer = [r \in Requests |-> "none"]

-------------------------------------------------------------------------------
(* The handler *)

\* validateBlock: neither ahead of the clock nor too old.
ValidBlock(age) == 0 <= age /\ age <= MaxAge

Label(feed) ==
  CASE feed < 0 -> "unavailable"
    [] 0 <= feed /\ feed <= FeedAge -> "reference-available"
    [] feed > FeedAge -> "stale"

\* Variant that trusts the validation made when the block was read.
ResponseAsRead(s) == IF s.held THEN Label(s.feed) ELSE "503"

\* publicSnapshot: what is sensitive to time is evaluated for every response.
Response(s) == IF s.held /\ ValidBlock(s.age) THEN Label(s.feed) ELSE "503"

\* Variant that keeps a snapshot for good.
FreshForGood == snapshot.held

Fresh == snapshot.held /\ snapshot.saved <= CacheAge

\* A request with a fresh snapshot is answered at once.
Serve(r) ==
  /\ request[r] = "idle"
  /\ Fresh
  /\ answer' = [answer EXCEPT ![r] = Response(snapshot)]
  /\ UNCHANGED <<source, up, pending, snapshot, request>>

\* Any other joins the read in flight, or starts it.
Join(r) ==
  /\ request[r] = "idle"
  /\ ~Fresh
  /\ request' = [request EXCEPT ![r] = "waiting"]
  /\ pending' = IF pending.stage = "none" THEN [NoRead EXCEPT !.stage = "block"] ELSE pending
  /\ UNCHANGED <<source, up, snapshot, answer>>

\* All that wait for the read are answered with it.
Settle(response) ==
  /\ answer' = [r \in Requests |-> IF request[r] = "waiting" THEN response ELSE answer[r]]
  /\ request' = [r \in Requests |-> "idle"]

\* finally: the next request reads again; an old snapshot does not stand in.
ReadFails ==
  /\ pending.stage # "none"
  /\ \/ ~up
     \/ pending.stage = "block" /\ ~ValidBlock(source.age)
     \/ pending.stage = "confirm" /\ (pending.moved \/ ~ValidBlock(pending.age))
  /\ pending' = NoRead
  /\ Settle("503")
  /\ UNCHANGED <<source, up, snapshot>>

\* readSourceSnapshot: chain, tip and the pinned block ...
ReadBlock ==
  /\ up
  /\ pending.stage = "block"
  /\ ValidBlock(source.age)
  /\ pending' = [pending EXCEPT !.stage = "calls", !.age = source.age, !.feed = source.feed]
  /\ UNCHANGED <<source, up, snapshot, request, answer>>

\* ... the feeds at its number ...
ReadFeeds ==
  /\ up
  /\ pending.stage = "calls"
  /\ pending' = [pending EXCEPT !.stage = "confirm", !.mixed = pending.moved]
  /\ UNCHANGED <<source, up, snapshot, request, answer>>

\* ... and its hash and its age once more.
Complete ==
  /\ up
  /\ pending.stage = "confirm"
  /\ ~pending.moved
  /\ ValidBlock(pending.age)
  /\ snapshot' = [held |-> TRUE, age |-> pending.age, feed |-> pending.feed,
                  mixed |-> pending.mixed, saved |-> 0]
  /\ pending' = NoRead
  /\ Settle(Response(snapshot'))
  /\ UNCHANGED <<source, up>>

-------------------------------------------------------------------------------
(* The world *)

Older(age, limit) == IF age > limit THEN age ELSE age + 1
OlderFeed(age) == IF age < 0 THEN age ELSE Older(age, FeedAge)

\* Every call of a read has a timeout, so that a read has one.
Tick ==
  /\ pending.stage # "none" => pending.elapsed < ReadLimit
  /\ source' = [source EXCEPT !.age = Older(@, MaxAge), !.feed = OlderFeed(@)]
  /\ pending' = IF pending.stage = "none" THEN pending
                ELSE [pending EXCEPT !.age = Older(@, MaxAge), !.feed = OlderFeed(@),
                        !.elapsed = @ + 1]
  /\ snapshot' = IF ~snapshot.held THEN snapshot
                 ELSE [snapshot EXCEPT !.age = Older(@, MaxAge), !.feed = OlderFeed(@),
                         !.saved = Older(@, CacheAge)]
  /\ UNCHANGED <<up, request, answer>>

\* The chain grows; a feed may be updated in its blocks.
NewBlock ==
  /\ \E age \in -1..0, feed \in {-1, 0, source.feed} : source' = [age |-> age, feed |-> feed]
  /\ UNCHANGED <<up, pending, snapshot, request, answer>>

Reorganise ==
  /\ pending.stage \in {"calls", "confirm"}
  /\ pending' = [pending EXCEPT !.moved = TRUE]
  /\ UNCHANGED <<source, up, snapshot, request, answer>>

Outage == up' = ~up /\ UNCHANGED <<source, pending, snapshot, request, answer>>

ReadSteps == ReadFails \/ ReadBlock \/ ReadFeeds \/ Complete

Next ==
  \/ \E r \in Requests : Serve(r) \/ Join(r)
  \/ ReadSteps
  \/ Tick \/ NewBlock \/ Reorganise \/ Outage

Spec == Init /\ [][Next]_vars

\* Clients keep asking, and calls return or run into their timeouts.
FairSpec ==
  /\ Spec
  /\ WF_vars(ReadSteps) /\ WF_vars(Tick)
  /\ \A r \in Requests : WF_vars(Serve(r) \/ Join(r))

-------------------------------------------------------------------------------
(* What must hold *)

\* The moments at which a response is sent.
Sends(r) == Serve(r) \/ (request[r] = "waiting" /\ request'[r] = "idle")

(***************************************************************************)
(* Whatever is sent with status 200 is true when it is sent: its readings  *)
(* are all of the block it names, that block is no older than its limit,   *)
(* and no feed past its own limit is called available, though the snapshot *)
(* was read earlier and answers many requests (bnb-market-data.mjs:88-91,  *)
(* bnb-market-handler.mjs:31).                                             *)
(***************************************************************************)
AnswersCurrent ==
  [][\A r \in Requests : Sends(r) /\ answer'[r] \in Served =>
       /\ snapshot'.held /\ ~snapshot'.mixed
       /\ ValidBlock(snapshot'.age)
       /\ answer'[r] = "reference-available" => snapshot'.feed \in 0..FeedAge]_vars

\* The node answers within its time, from blocks young enough to be cached.
Healthy == up /\ ValidBlock(source.age) /\ source.age + ReadLimit + CacheAge <= MaxAge

(***************************************************************************)
(* A request is never left waiting, and once the node stays healthy every  *)
(* request is served, whatever reads failed before.                        *)
(***************************************************************************)
RequestsServed ==
  /\ \A r \in Requests : request[r] = "waiting" ~> request[r] = "idle"
  /\ <>[]Healthy /\ <>[][~Reorganise]_vars => <>[](\A r \in Requests : answer[r] \in Served)
=============================================================================
