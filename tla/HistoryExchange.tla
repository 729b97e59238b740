---------------------------- MODULE HistoryExchange ----------------------------
(***************************************************************************)
(* The exchange of recorded history between browsers                        *)
(* (dashboard/internal/webui/static/js/history-exchange.js), over the       *)
(* server's relay (internal/httpapi/history_exchange.go, historyexchange/   *)
(* hub.go).                                                                 *)
(*                                                                         *)
(* Every browser holds a stream of events from the hub and posts messages   *)
(* to it: it offers what it covers, asks the peer that has most of what it  *)
(* lacks, and answers.  A stream may end at any moment; the browser comes   *)
(* back under a new name.  Posts are handled in any order.  A handler that  *)
(* awaits something is two steps.                                           *)
(*                                                                         *)
(* One series, one tier and one closed bucket are modelled (the plan over   *)
(* buckets is HistoryCoverage); a coverage is the number of rows in it, a   *)
(* delivery is one message.                                                 *)
(***************************************************************************)
EXTENDS Integers, FiniteSets, Sequences, FiniteSetTheorems, TLAPS

CONSTANTS
  Browsers,
  Rows,       \* what may be recorded
  Absent,
  Stores,     \* what the browsers may hold at the beginning
  Modes,      \* the modes they may begin with
  Throws,     \* the posts that may end without any answer
  MaxJoins,   \* bound on the connections of a browser
  MaxQueue,   \* bound on the events waiting for one browser
  MaxEvents   \* bound on faults, user actions and new rows together

Ids == Browsers \X (1..MaxJoins)

ASSUME ExchangeAssumption ==
  /\ Absent \notin Ids
  /\ IsFiniteSet(Browsers) /\ IsFiniteSet(Rows) /\ Stores \subseteq [Browsers -> SUBSET Rows]
  /\ Modes \subseteq {"always", "on-demand"}
  /\ MaxJoins \in Nat /\ MaxQueue \in Nat /\ MaxEvents \in Nat

VARIABLES
  store,     \* rows of each browser
  mode,      \* "always" or "on-demand"
  serve,     \* whether it offers although it is on-demand
  watching,  \* whether a chart registered its range
  stream,    \* its open stream, or Absent
  peerId,    \* the name it was told, or Absent
  joins,     \* connections so far
  offers,    \* what it knows of the others: id -> coverage
  lastOffer, \* the coverage it offered last, or Absent
  pending,   \* peers it waits for
  timers,    \* peers whose time limit is running
  offering,  \* whether a refreshOffer waits for the coverage
  planning,  \* whether a plan waits for the coverage
  hub,       \* connected names
  queue,     \* events for each name
  posts,     \* messages on their way to the server
  events

userVars == <<mode, serve, watching>>
clientVars == <<stream, peerId, joins>>
knownVars == <<offers, lastOffer>>
waitVars == <<pending, timers>>
taskVars == <<offering, planning>>
hubVars == <<hub, queue>>
exchangeVars == <<store, userVars, clientVars, knownVars, waitVars, taskVars, hubVars, posts, events>>

Happens == events < MaxEvents /\ events' = events + 1

Serving(b) == mode[b] = "always" \/ serve[b]

\* Mutant: a row on the edge is counted twice.
MutCoverage(b) == Cardinality(store[b]) + 1

Coverage(b) == Cardinality(store[b])

NoOffers == [id \in {} |-> 0]

Without(f, id) == [x \in DOMAIN f \ {id} |-> f[x]]

With(f, id, value) == [x \in DOMAIN f \cup {id} |-> IF x = id THEN value ELSE f[x]]

--------------------------------------------------------------------------
(* The hub.                                                                 *)

\* An event for every connected name but one.
Broadcast(q, from, msg) == [id \in Ids |-> IF id \in hub \ {from} THEN Append(q[id], msg) ELSE q[id]]

Connect(b) ==
  /\ stream[b] = Absent /\ joins[b] < MaxJoins
  /\ LET id == <<b, joins[b] + 1>>
     IN /\ joins' = [joins EXCEPT ![b] = @ + 1]
        /\ stream' = [stream EXCEPT ![b] = id]
        /\ hub' = hub \cup {id}
        /\ queue' = Broadcast([queue EXCEPT ![id] = <<[event |-> "hello", peer |-> id]>>], id,
                              [event |-> "peer-joined", peer |-> id])
  /\ UNCHANGED <<store, userVars, peerId, knownVars, waitVars, taskVars, posts, events>>

\* The stream of a browser breaks, or the hub closes it because its queue is full.
StreamBreaks(b) ==
  /\ stream[b] # Absent /\ joins[b] < MaxJoins /\ Happens
  /\ stream' = [stream EXCEPT ![b] = Absent]
  /\ peerId' = [peerId EXCEPT ![b] = Absent]
  /\ UNCHANGED <<store, userVars, joins, knownVars, waitVars, taskVars, hubVars, posts>>

\* The server notices; it may notice after the browser is back.
Leave(id) ==
  /\ id \in hub /\ stream[id[1]] # id
  /\ hub' = hub \ {id}
  /\ queue' = Broadcast([queue EXCEPT ![id] = <<>>], id, [event |-> "peer-left", peer |-> id])
  /\ UNCHANGED <<store, userVars, clientVars, knownVars, waitVars, taskVars, posts, events>>

Room(id) == Len(queue[id]) < MaxQueue

\* Only a connected sender is heard; the asker learns whether its peer is connected.
Relay(post) ==
  /\ post \in posts /\ posts' = posts \ {post}
  /\ CASE post.from \notin hub -> UNCHANGED queue
       [] post.event = "offer" /\ post.from \in hub ->
            /\ \A id \in hub \ {post.from} : Room(id)
            /\ queue' = Broadcast(queue, post.from,
                                  [event |-> "offer", peer |-> post.from, coverage |-> post.coverage])
       [] OTHER -> IF post.to \in hub
                     THEN Room(post.to) /\ queue' = [queue EXCEPT ![post.to] = Append(@, post)]
                     ELSE UNCHANGED queue
  /\ LET b == post.from[1]
         sent == post.from \in hub /\ post.to \in hub
     IN IF post.event = "request"
          THEN /\ timers' = [timers EXCEPT ![b] = @ \cup {post.to}]
               /\ pending' = IF sent THEN pending ELSE [pending EXCEPT ![b] = @ \ {post.to}]
          ELSE UNCHANGED waitVars
  /\ UNCHANGED <<store, userVars, clientVars, knownVars, taskVars, hub, events>>

\* fetch() rejects: nothing after the post is run.
Thrown(post) ==
  /\ post \in posts /\ post.event \in Throws /\ Happens
  /\ posts' = posts \ {post}
  /\ UNCHANGED <<store, userVars, clientVars, knownVars, waitVars, taskVars, hubVars>>

--------------------------------------------------------------------------
(* A browser.                                                               *)

CanOffer(b) == peerId[b] # Absent /\ Serving(b)

\* refreshOffer after the coverage was counted: only a change is told.
Offer(b) ==
  /\ offering[b] /\ offering' = [offering EXCEPT ![b] = FALSE]
  /\ lastOffer' = [lastOffer EXCEPT ![b] = Coverage(b)]
  /\ posts' = IF Coverage(b) = lastOffer[b] \/ peerId[b] = Absent THEN posts
              ELSE posts \cup {[event |-> "offer", from |-> peerId[b], to |-> peerId[b],
                                coverage |-> Coverage(b)]}
  /\ UNCHANGED <<store, userVars, clientVars, offers, waitVars, planning, hubVars, events>>

\* Mutant: an offer that is one row ahead counts for nothing.
MutBest(b) == {id \in DOMAIN offers[b] : offers[b][id] > Coverage(b) + 1}

\* The peers with the largest surplus over what the browser holds.
Best(b) == {id \in DOMAIN offers[b] : /\ offers[b][id] > Coverage(b)
                                      /\ \A other \in DOMAIN offers[b] :
                                           offers[b][other] <= offers[b][id]}

\* requestFrom: one question per peer at a time.
Ask(b, id) ==
  IF id \in pending[b] \/ peerId[b] = Absent THEN UNCHANGED <<pending, posts>>
  ELSE /\ pending' = [pending EXCEPT ![b] = @ \cup {id}]
       /\ posts' = posts \cup {[event |-> "request", from |-> peerId[b], to |-> id]}

\* planAll, or planWatched, after the coverage was counted.
Plan(b) ==
  /\ planning[b] /\ planning' = [planning EXCEPT ![b] = FALSE]
  /\ IF Best(b) = {} THEN UNCHANGED <<pending, posts>> ELSE \E id \in Best(b) : Ask(b, id)
  /\ UNCHANGED <<store, userVars, clientVars, knownVars, timers, offering, hubVars, events>>

\* Mutant: a limit that ends leaves the question open.
MutTimeOut(b, id) ==
  /\ id \in timers[b]
  /\ timers' = [timers EXCEPT ![b] = @ \ {id}]
  /\ UNCHANGED <<store, userVars, clientVars, knownVars, pending, taskVars, hubVars, posts, events>>

TimeOut(b, id) ==
  /\ id \in timers[b]
  /\ timers' = [timers EXCEPT ![b] = @ \ {id}]
  /\ pending' = [pending EXCEPT ![b] = @ \ {id}]
  /\ UNCHANGED <<store, userVars, clientVars, knownVars, taskVars, hubVars, posts, events>>

Take(b) == queue' = [queue EXCEPT ![stream[b]] = Tail(@)]

Plans(b) == mode[b] = "always" \/ watching[b]

\* The newcomer does not know this browser's offer yet.
OnJoined(b, msg) ==
  /\ msg.event = "peer-joined"
  /\ lastOffer' = [lastOffer EXCEPT ![b] = Absent]
  /\ offering' = [offering EXCEPT ![b] = @ \/ CanOffer(b)]
  /\ UNCHANGED <<store, peerId, offers, waitVars, planning, posts>>

OnHello(b, msg) ==
  /\ msg.event = "hello"
  /\ peerId' = [peerId EXCEPT ![b] = msg.peer]
  /\ offers' = [offers EXCEPT ![b] = NoOffers]
  /\ lastOffer' = [lastOffer EXCEPT ![b] = Absent]
  /\ offering' = [offering EXCEPT ![b] = @ \/ Serving(b)]
  /\ UNCHANGED <<store, waitVars, planning, posts>>

OnLeft(b, msg) ==
  /\ msg.event = "peer-left"
  /\ offers' = [offers EXCEPT ![b] = Without(@, msg.peer)]
  /\ UNCHANGED <<store, peerId, lastOffer, waitVars, taskVars, posts>>

OnOffer(b, msg) ==
  /\ msg.event = "offer"
  /\ offers' = [offers EXCEPT ![b] = With(@, msg.peer, msg.coverage)]
  /\ planning' = [planning EXCEPT ![b] = @ \/ Plans(b)]
  /\ UNCHANGED <<store, peerId, lastOffer, waitVars, offering, posts>>

\* Whoever asks is answered, with nothing if there is nothing.
OnRequest(b, msg) ==
  /\ msg.event = "request"
  /\ posts' = posts \cup {[event |-> "deliver", from |-> peerId[b], to |-> msg.from,
                           rows |-> store[b]]}
  /\ UNCHANGED <<store, peerId, knownVars, waitVars, taskVars>>

\* Rows are added, the question is closed, and the new coverage is offered.
OnDeliver(b, msg) ==
  /\ msg.event = "deliver"
  /\ store' = [store EXCEPT ![b] = @ \cup msg.rows]
  /\ pending' = [pending EXCEPT ![b] = @ \ {msg.from}]
  /\ offering' = [offering EXCEPT ![b] = @ \/ CanOffer(b)]
  /\ UNCHANGED <<peerId, knownVars, timers, planning, posts>>

Receive(b) ==
  /\ stream[b] # Absent /\ queue[stream[b]] # <<>>
  /\ LET msg == Head(queue[stream[b]])
     IN \/ OnHello(b, msg) \/ OnJoined(b, msg) \/ OnLeft(b, msg)
        \/ OnOffer(b, msg) \/ OnRequest(b, msg) \/ OnDeliver(b, msg)
  /\ Take(b)
  /\ UNCHANGED <<userVars, stream, joins, hub, events>>

\* Nothing is on its way and no handler waits: what is sent arrives within a minute.
Quiet == /\ posts = {} /\ \A id \in Ids : queue[id] = <<>>
         /\ \A b \in Browsers : ~offering[b] /\ ~planning[b]

\* Maintenance offers again every minute: with the clock the window of the coverage moves.
Maintain(b) ==
  /\ CanOffer(b) /\ Quiet
  /\ offering' = [offering EXCEPT ![b] = TRUE]
  /\ lastOffer' = [lastOffer EXCEPT ![b] = Absent]
  /\ UNCHANGED <<store, userVars, clientVars, offers, waitVars, planning, hubVars, posts, events>>

Record(b, row) ==
  /\ row \notin store[b] /\ Happens
  /\ store' = [store EXCEPT ![b] = @ \cup {row}]
  /\ UNCHANGED <<userVars, clientVars, knownVars, waitVars, taskVars, hubVars, posts>>

\* A chart registers its range, or goes away; what is known is planned at once.
Watch(b) ==
  /\ Happens
  /\ watching' = [watching EXCEPT ![b] = ~@]
  /\ planning' = [planning EXCEPT ![b] = @ \/ (mode[b] = "on-demand" /\ ~watching[b]
                                                 /\ peerId[b] # Absent)]
  /\ UNCHANGED <<store, mode, serve, clientVars, knownVars, waitVars, offering, hubVars, posts>>

\* A change that makes it offer starts afresh.
SetMode(b) ==
  /\ Happens
  /\ mode' = [mode EXCEPT ![b] = IF @ = "always" THEN "on-demand" ELSE "always"]
  /\ LET offersNow == peerId[b] # Absent /\ (mode[b] = "on-demand" \/ serve[b])
     IN /\ lastOffer' = IF offersNow THEN [lastOffer EXCEPT ![b] = Absent] ELSE lastOffer
        /\ offering' = [offering EXCEPT ![b] = @ \/ offersNow]
        /\ planning' = [planning EXCEPT ![b] = @ \/ (peerId[b] # Absent /\ mode[b] = "on-demand")]
  /\ UNCHANGED <<store, serve, watching, clientVars, offers, waitVars, hubVars, posts>>

SetServe(b) ==
  /\ Happens
  /\ serve' = [serve EXCEPT ![b] = ~@]
  /\ LET offersNow == peerId[b] # Absent /\ ~Serving(b)
     IN /\ lastOffer' = IF offersNow THEN [lastOffer EXCEPT ![b] = Absent] ELSE lastOffer
        /\ offering' = [offering EXCEPT ![b] = @ \/ offersNow]
  /\ UNCHANGED <<store, mode, watching, clientVars, offers, waitVars, planning, hubVars, posts>>

--------------------------------------------------------------------------
ExchangeInit ==
  /\ store \in Stores
  /\ mode \in [Browsers -> Modes]
  /\ serve = [b \in Browsers |-> FALSE]
  /\ watching = [b \in Browsers |-> FALSE]
  /\ stream = [b \in Browsers |-> Absent] /\ peerId = stream
  /\ joins = [b \in Browsers |-> 0]
  /\ offers = [b \in Browsers |-> NoOffers]
  /\ lastOffer = [b \in Browsers |-> Absent]
  /\ pending = [b \in Browsers |-> {}] /\ timers = pending
  /\ offering = [b \in Browsers |-> FALSE] /\ planning = offering
  /\ hub = {} /\ queue = [id \in Ids |-> <<>>]
  /\ posts = {} /\ events = 0

\* What goes on by itself.
Works(b) ==
  \/ Connect(b) \/ Offer(b) \/ Plan(b) \/ Receive(b)
  \/ \E id \in Ids : TimeOut(b, id)

ExchangeNext ==
  \/ \E b \in Browsers : \/ Works(b) \/ Maintain(b) \/ StreamBreaks(b)
                         \/ Watch(b) \/ SetMode(b) \/ SetServe(b)
                         \/ \E row \in Rows : Record(b, row)
  \/ \E id \in Ids : Leave(id)
  \/ \E post \in posts : Relay(post) \/ Thrown(post)

ExchangeSpec == ExchangeInit /\ [][ExchangeNext]_exchangeVars

--------------------------------------------------------------------------
\* The names given out so far.
Joined == {id \in Ids : id[2] <= joins[id[1]]}

\* Every part has a value of its kind; a queue is never longer than its room and the
\* joins and leaves that come on top.
ExchangeTypeOK ==
  /\ store \in [Browsers -> SUBSET Rows]
  /\ mode \in [Browsers -> {"always", "on-demand"}] /\ serve \in [Browsers -> BOOLEAN]
  /\ watching \in [Browsers -> BOOLEAN]
  /\ stream \in [Browsers -> Ids \cup {Absent}] /\ peerId \in [Browsers -> Ids \cup {Absent}]
  /\ joins \in [Browsers -> 0..MaxJoins]
  /\ \A b \in Browsers : \A id \in DOMAIN offers[b] : id \in Ids /\ offers[b][id] \in 0..Cardinality(Rows)
  /\ lastOffer \in [Browsers -> 0..Cardinality(Rows) \cup {Absent}]
  /\ pending \in [Browsers -> SUBSET Ids] /\ timers \in [Browsers -> SUBSET Ids]
  /\ offering \in [Browsers -> BOOLEAN] /\ planning \in [Browsers -> BOOLEAN]
  /\ hub \subseteq Ids /\ \A id \in Ids :
       Len(queue[id]) <= MaxQueue + Cardinality(Joined) + Cardinality(Joined \ hub)

\* A question that is open has been sent and not answered, or its time limit runs: every
\* key is freed again ("die Frist den Schluessel wieder frei", history-exchange.js:151).
EveryQuestionEnds ==
  \A b \in Browsers : \A id \in pending[b] :
    \/ id \in timers[b]
    \/ \E post \in posts : post.event = "request" /\ post.from[1] = b /\ post.to = id

Caught(b, c) ==
  (peerId[b] # Absent /\ peerId[c] # Absent /\ Plans(b) /\ Serving(c)) => Coverage(b) >= Coverage(c)

\* When faults and changes are over, a connected browser that plans has as many rows as
\* any connected browser that offers.
Converges == \A b, c \in Browsers : <>[]Caught(b, c)

--------------------------------------------------------------------------
(***************************************************************************)
(* Proofs.                                                                  *)
(***************************************************************************)
Coverages == 0..Cardinality(Rows)

\* What browsers post.
Post ==
  [event : {"offer"}, from : Ids, to : Ids, coverage : Coverages]
  \cup [event : {"request"}, from : Ids, to : Ids]
  \cup [event : {"deliver"}, from : Ids, to : Ids, rows : SUBSET Rows]

\* What the hub sends to one name.
Message(id) ==
  [event : {"hello"}, peer : {id}]
  \cup [event : {"peer-joined", "peer-left"}, peer : Ids]
  \cup [event : {"offer"}, peer : Ids, coverage : Coverages]
  \cup {post \in Post : post.event # "offer"}

\* The browsers' part of ExchangeTypeOK.
StateInv ==
  /\ store \in [Browsers -> SUBSET Rows]
  /\ mode \in [Browsers -> {"always", "on-demand"}] /\ serve \in [Browsers -> BOOLEAN]
  /\ watching \in [Browsers -> BOOLEAN]
  /\ stream \in [Browsers -> Ids \cup {Absent}] /\ peerId \in [Browsers -> Ids \cup {Absent}]
  /\ joins \in [Browsers -> 0..MaxJoins]
  /\ lastOffer \in [Browsers -> Coverages \cup {Absent}]
  /\ pending \in [Browsers -> SUBSET Ids] /\ timers \in [Browsers -> SUBSET Ids]
  /\ offering \in [Browsers -> BOOLEAN] /\ planning \in [Browsers -> BOOLEAN]
  /\ DOMAIN offers = Browsers
  /\ \A b \in Browsers : \A id \in DOMAIN offers[b] : id \in Ids /\ offers[b][id] \in Coverages

\* A browser goes by its stream's name or by none, and until it has read the hello of its
\* stream that is the first event of its queue.
NamesInv ==
  /\ DOMAIN stream = Browsers /\ DOMAIN peerId = Browsers /\ DOMAIN queue = Ids
  /\ hub \subseteq Joined
  /\ posts \subseteq Post
  /\ \A id \in Ids : queue[id] \in Seq(Message(id))
  /\ \A b \in Browsers :
       /\ stream[b] # Absent => stream[b] \in Ids /\ stream[b][1] = b
       /\ peerId[b] \in {Absent, stream[b]}
       /\ stream[b] # Absent /\ peerId[b] = Absent =>
            queue[stream[b]] # <<>> /\ Head(queue[stream[b]]).event = "hello"

\* A message waits until there is room; joins and leaves come on top.
QueueInv ==
  \A id \in Ids : Len(queue[id]) <= MaxQueue + Cardinality(Joined) + Cardinality(Joined \ hub)

\* A browser never has more rows than there are.
LEMMA CoverageType ==
  ASSUME StateInv, NEW b \in Browsers
  PROVE  Coverage(b) \in Coverages
  <1>1. IsFiniteSet(Rows) /\ store[b] \in SUBSET Rows
    BY ExchangeAssumption DEF StateInv
  <1>2. IsFiniteSet(store[b]) /\ Cardinality(store[b]) <= Cardinality(Rows)
    BY <1>1, FS_Subset
  <1>3. Cardinality(store[b]) \in Nat /\ Cardinality(Rows) \in Nat
    BY <1>1, <1>2, FS_CardinalityType
  <1> QED BY <1>2, <1>3 DEF Coverage, Coverages

\* An event more, at the end.
LEMMA Appending ==
  ASSUME NEW S, NEW q \in Seq(S), NEW m \in S
  PROVE  /\ Append(q, m) \in Seq(S) /\ Append(q, m) # <<>>
         /\ Len(Append(q, m)) = Len(q) + 1
         /\ q # <<>> => Head(Append(q, m)) = Head(q)
  <1>1. Append(q, m) \in Seq(S) /\ Len(Append(q, m)) = Len(q) + 1 /\ Len(q) \in Nat
    OBVIOUS
  <1>2. Append(q, m) # <<>>
    BY <1>1
  <1>3. ASSUME q # <<>> PROVE Head(Append(q, m)) = Head(q)
    <2>1. Len(q) >= 1
      BY <1>1, <1>3
    <2>2. Append(q, m)[1] = q[1]
      BY <2>1
    <2>3. Head(q) = q[1] /\ Head(Append(q, m)) = Append(q, m)[1]
      BY <1>2, <1>3
    <2> QED BY <2>2, <2>3
  <1> QED BY <1>1, <1>2, <1>3

\* What the hub may tell everybody.
LEMMA Broadcasting ==
  ASSUME NEW q, NEW from, NEW msg, NEW id \in Ids,
         q[id] \in Seq(Message(id)), msg \in Message(id)
  PROVE  /\ Broadcast(q, from, msg)[id] \in Seq(Message(id))
         /\ q[id] # <<>> => /\ Broadcast(q, from, msg)[id] # <<>>
                            /\ Head(Broadcast(q, from, msg)[id]) = Head(q[id])
         /\ Len(Broadcast(q, from, msg)[id]) <= Len(q[id]) + 1
         /\ id \notin hub \/ id = from => Broadcast(q, from, msg)[id] = q[id]
  <1>1. CASE id \in hub \ {from}
    <2>1. Broadcast(q, from, msg)[id] = Append(q[id], msg)
      BY <1>1 DEF Broadcast
    <2> QED BY <1>1, <2>1, Appending
  <1>2. CASE id \notin hub \ {from}
    <2>1. Broadcast(q, from, msg)[id] = q[id]
      BY <1>2 DEF Broadcast
    <2>2. Len(q[id]) \in Nat
      OBVIOUS
    <2> QED BY <1>2, <2>1, <2>2
  <1> QED BY <1>1, <1>2

\* The name of a stream tells whose it is.
LEMMA OwnName ==
  ASSUME NamesInv, NEW id \in Ids
  PROVE  \A b \in Browsers : stream[b] = id => b = id[1] /\ id[1] \in Browsers
  BY ExchangeAssumption DEF NamesInv, Ids

\* What a browser has of the stream it holds when something comes from it.
LEMMA Receiving ==
  ASSUME NamesInv, NEW b \in Browsers, stream[b] # Absent, queue[stream[b]] # <<>>, Take(b)
  PROVE  /\ stream[b] \in Ids
         /\ Head(queue[stream[b]]) \in Message(stream[b])
         /\ DOMAIN queue' = Ids
         /\ Tail(queue[stream[b]]) \in Seq(Message(stream[b]))
         /\ Len(Tail(queue[stream[b]])) = Len(queue[stream[b]]) - 1
         /\ \A id \in Ids : queue'[id] = IF id = stream[b] THEN Tail(queue[id]) ELSE queue[id]
         /\ Head(queue[stream[b]]).event # "hello" => peerId[b] = stream[b]
  <1>1. stream[b] \in Ids /\ queue[stream[b]] \in Seq(Message(stream[b])) /\ DOMAIN queue = Ids
    BY DEF NamesInv
  <1>2. \A S : \A q \in Seq(S) : q # <<>> => Head(q) \in S /\ Tail(q) \in Seq(S) /\ Len(Tail(q)) = Len(q) - 1
    BY Z3
  <1>3. DOMAIN queue' = Ids /\ \A id \in Ids : queue'[id] = IF id = stream[b] THEN Tail(queue[id]) ELSE queue[id]
    BY <1>1 DEF Take
  <1>4. Head(queue[stream[b]]).event # "hello" => peerId[b] = stream[b]
    BY DEF NamesInv
  <1> QED BY <1>1, <1>2, <1>3, <1>4

\* A connection gives out one name more.
LEMMA Joining ==
  ASSUME StateInv, NEW b \in Browsers, Connect(b), NEW id, id = <<b, joins[b] + 1>>
  PROVE  /\ id \in Ids /\ id \notin Joined
         /\ Joined' = Joined \cup {id}
  <1>1. /\ joins[b] \in Nat /\ joins[b] + 1 \in 1..MaxJoins
        /\ joins' = [joins EXCEPT ![b] = @ + 1] /\ DOMAIN joins = Browsers
    BY ExchangeAssumption DEF Connect, StateInv
  <1>2. id \in Ids /\ id[1] = b /\ id[2] = joins[b] + 1
    BY <1>1 DEF Ids
  <1>3. ASSUME NEW x \in Ids
        PROVE  x[2] <= joins'[x[1]] <=> (x[2] <= joins[x[1]] \/ x = id)
    <2>1. x[1] \in Browsers /\ x[2] \in Nat /\ x = <<x[1], x[2]>>
      BY DEF Ids
    <2>2. CASE x[1] = b
      BY <1>1, <1>2, <2>1, <2>2
    <2>3. CASE x[1] # b
      BY <1>1, <1>2, <2>1, <2>3
    <2> QED BY <2>2, <2>3
  <1> QED BY <1>1, <1>2, <1>3 DEF Joined

\* Joining puts the hello first, and only the browser itself takes it off.
LEMMA NamesStep ==
  ASSUME StateInv, NamesInv, [ExchangeNext]_exchangeVars
  PROVE  NamesInv'
  <1> USE DEF NamesInv, userVars, clientVars, knownVars, waitVars, taskVars, hubVars
  <1>1. ASSUME NEW b \in Browsers, Connect(b) PROVE NamesInv'
    <2> DEFINE id == <<b, joins[b] + 1>>
               q == [queue EXCEPT ![id] = <<[event |-> "hello", peer |-> id]>>]
               msg == [event |-> "peer-joined", peer |-> id]
    <2>1. id \in Ids /\ id[1] = b /\ joins[b] \in Nat /\ id \notin Joined /\ stream[b] = Absent
      BY <1>1, ExchangeAssumption DEF Connect, StateInv, Ids, Joined
    <2>2. /\ stream' = [stream EXCEPT ![b] = id] /\ hub' = hub \cup {id}
          /\ joins' = [joins EXCEPT ![b] = @ + 1]
          /\ queue' = Broadcast(q, id, msg) /\ peerId' = peerId /\ posts' = posts
      BY <1>1 DEF Connect
    <2>3. Joined' = Joined \cup {id}
      BY <1>1, Joining
    <2>4. ASSUME NEW x \in Ids PROVE q[x] \in Seq(Message(x)) /\ msg \in Message(x)
      <3>1. msg \in Message(x)
        BY <2>1 DEF Message
      <3>2. [event |-> "hello", peer |-> id] \in Message(id)
        BY DEF Message
      <3>3. q[id] = <<[event |-> "hello", peer |-> id]>> /\ (x # id => q[x] = queue[x])
        BY <2>1
      <3> HIDE DEF id, msg
      <3>4. <<[event |-> "hello", peer |-> id]>> \in Seq(Message(id))
        BY <3>2
      <3> HIDE DEF q
      <3> QED BY <3>1, <3>3, <3>4
    <2>5. \A x \in Ids : x # id => q[x] = queue[x]
      BY <2>1
    <2>6. q[id] # <<>> /\ Head(q[id]).event = "hello" /\ q[id] = <<[event |-> "hello", peer |-> id]>>
      BY <2>1
    <2> HIDE DEF id, q, msg
    <2>7. \A x \in Ids :
            /\ queue'[x] \in Seq(Message(x))
            /\ q[x] # <<>> => queue'[x] # <<>> /\ Head(queue'[x]) = Head(q[x])
      BY <2>2, <2>4, Broadcasting
    <2>8. DOMAIN queue' = Ids
      BY <2>2 DEF Broadcast
    <2>9. ASSUME NEW c \in Browsers
          PROVE  /\ stream'[c] # Absent => stream'[c] \in Ids /\ stream'[c][1] = c
                 /\ peerId'[c] \in {Absent, stream'[c]}
                 /\ stream'[c] # Absent /\ peerId'[c] = Absent =>
                      queue'[stream'[c]] # <<>> /\ Head(queue'[stream'[c]]).event = "hello"
      <3>1. CASE c = b
        BY <2>1, <2>2, <2>6, <2>7, <3>1
      <3>2. CASE c # b
        <4>1. stream'[c] = stream[c] /\ (stream[c] # Absent => stream[c] # id)
          BY <2>1, <2>2, <3>2
        <4> QED BY <2>2, <2>5, <2>7, <4>1
      <3> QED BY <3>1, <3>2
    <2> QED BY <2>2, <2>3, <2>7, <2>8, <2>9
  <1>2. ASSUME NEW b \in Browsers, Offer(b) PROVE NamesInv'
    <2>1. Coverage(b) \in Coverages
      BY CoverageType
    <2>2. posts' \subseteq Post
      BY <1>2, <2>1 DEF Offer, Post
    <2> QED BY <1>2, <2>2 DEF Offer, Joined
  <1>3. ASSUME NEW b \in Browsers, Plan(b) PROVE NamesInv'
    <2>1. ASSUME NEW id \in Best(b), Ask(b, id) PROVE posts' \subseteq Post
      <3>1. id \in Ids
        BY DEF Best, StateInv
      <3> QED BY <2>1, <3>1 DEF Ask, Post
    <2>2. posts' \subseteq Post
      BY <1>3, <2>1 DEF Plan
    <2> QED BY <1>3, <2>2 DEF Plan, Joined
  <1>4. ASSUME NEW b \in Browsers, Receive(b) PROVE NamesInv'
    <2> DEFINE msg == Head(queue[stream[b]])
    <2>1. stream[b] # Absent /\ queue[stream[b]] # <<>> /\ Take(b)
      BY <1>4 DEF Receive
    <2>2. /\ stream[b] \in Ids /\ msg \in Message(stream[b]) /\ DOMAIN queue' = Ids
          /\ Tail(queue[stream[b]]) \in Seq(Message(stream[b]))
          /\ \A id \in Ids : queue'[id] = IF id = stream[b] THEN Tail(queue[id]) ELSE queue[id]
          /\ msg.event # "hello" => peerId[b] = stream[b]
      BY <2>1, Receiving
    <2>3. /\ OnHello(b, msg) \/ OnJoined(b, msg) \/ OnLeft(b, msg)
             \/ OnOffer(b, msg) \/ OnRequest(b, msg) \/ OnDeliver(b, msg)
          /\ UNCHANGED <<stream, joins, hub>>
      BY <1>4 DEF Receive
    <2> HIDE DEF msg
    <2>4. peerId'[b] = stream[b] /\ (\A c \in Browsers : c # b => peerId'[c] = peerId[c]) /\ DOMAIN peerId' = Browsers
      <3>1. CASE OnHello(b, msg)
        <4>1. msg.peer = stream[b]
          BY <2>2, <3>1 DEF OnHello, Message, Post
        <4> QED BY <3>1, <4>1 DEF OnHello
      <3>2. CASE ~OnHello(b, msg)
        <4>1. peerId' = peerId /\ msg.event # "hello"
          BY <2>3, <3>2 DEF OnJoined, OnLeft, OnOffer, OnRequest, OnDeliver
        <4> QED BY <2>2, <4>1
      <3> QED BY <3>1, <3>2
    <2>5. posts' \subseteq Post
      <3>1. CASE OnRequest(b, msg)
        <4>1. msg.from \in Ids /\ peerId[b] \in Ids /\ store[b] \in SUBSET Rows
          BY <2>2, <3>1 DEF OnRequest, Message, Post, StateInv
        <4> QED BY <3>1, <4>1 DEF OnRequest, Post
      <3>2. CASE ~OnRequest(b, msg)
        BY <2>3, <3>2 DEF OnHello, OnJoined, OnLeft, OnOffer, OnDeliver
      <3> QED BY <3>1, <3>2
    <2>6. ASSUME NEW c \in Browsers
          PROVE  /\ peerId'[c] \in {Absent, stream[c]}
                 /\ stream[c] # Absent /\ peerId'[c] = Absent =>
                      queue'[stream[c]] # <<>> /\ Head(queue'[stream[c]]).event = "hello"
      <3>1. CASE c = b
        BY <2>1, <2>4, <3>1
      <3>2. CASE c # b
        <4>1. stream[c] # Absent => stream[c] \in Ids /\ stream[c] # stream[b]
          BY <2>1, <3>2
        <4> QED BY <2>2, <2>4, <3>2, <4>1
      <3> QED BY <3>1, <3>2
    <2>7. ASSUME NEW id \in Ids PROVE queue'[id] \in Seq(Message(id))
      <3>1. CASE id = stream[b]
        <4>1. queue'[id] = Tail(queue[stream[b]])
          BY <2>2, <3>1
        <4> QED BY <2>2, <3>1, <4>1
      <3>2. CASE id # stream[b]
        <4>1. queue'[id] = queue[id]
          BY <2>2, <3>2
        <4> QED BY <4>1
      <3> QED BY <3>1, <3>2
    <2>8. Joined' = Joined
      BY <2>3 DEF Joined
    <2>9. hub' \subseteq Joined' /\ DOMAIN stream' = Browsers /\ stream' = stream
      BY <2>3, <2>8
    <2> QED BY <2>2, <2>4, <2>5, <2>6, <2>7, <2>9
  <1>5. ASSUME NEW b \in Browsers, NEW id \in Ids, TimeOut(b, id) PROVE NamesInv'
    BY <1>5 DEF TimeOut, Joined
  <1>6. ASSUME NEW b \in Browsers, Maintain(b) \/ Watch(b) \/ SetMode(b) \/ SetServe(b) PROVE NamesInv'
    BY <1>6 DEF Maintain, Watch, SetMode, SetServe, Joined
  <1>7. ASSUME NEW b \in Browsers, NEW row \in Rows, Record(b, row) PROVE NamesInv'
    BY <1>7 DEF Record, Joined
  <1>8. ASSUME NEW b \in Browsers, StreamBreaks(b) PROVE NamesInv'
    BY <1>8 DEF StreamBreaks, Joined
  <1>9. ASSUME NEW id \in Ids, Leave(id) PROVE NamesInv'
    <2> DEFINE q == [queue EXCEPT ![id] = <<>>]
               msg == [event |-> "peer-left", peer |-> id]
    <2>1. /\ hub' = hub \ {id} /\ queue' = Broadcast(q, id, msg) /\ stream[id[1]] # id
          /\ UNCHANGED <<stream, peerId, joins, posts>>
      BY <1>9 DEF Leave
    <2>2. \A x \in Ids : q[x] \in Seq(Message(x)) /\ msg \in Message(x)
      BY DEF Message
    <2>3. \A x \in Ids : x # id => q[x] = queue[x]
      OBVIOUS
    <2> HIDE DEF q, msg
    <2>4. \A x \in Ids :
            /\ queue'[x] \in Seq(Message(x))
            /\ q[x] # <<>> => queue'[x] # <<>> /\ Head(queue'[x]) = Head(q[x])
      BY <2>1, <2>2, Broadcasting
    <2>5. DOMAIN queue' = Ids
      BY <2>1 DEF Broadcast
    <2>6. \A c \in Browsers : stream[c] # Absent => stream[c] # id
      BY <2>1, OwnName
    <2> QED BY <2>1, <2>3, <2>4, <2>5, <2>6 DEF Joined
  <1>10. ASSUME NEW post \in posts, Relay(post) PROVE NamesInv'
    <2>1. UNCHANGED <<stream, peerId, joins, hub>> /\ posts' \subseteq Post /\ post \in Post
      BY <1>10 DEF Relay
    <2>2. ASSUME NEW x \in Ids
          PROVE  /\ queue'[x] \in Seq(Message(x))
                 /\ queue[x] # <<>> => queue'[x] # <<>> /\ Head(queue'[x]) = Head(queue[x])
      <3>1. CASE queue' = queue
        BY <3>1
      <3>2. CASE post.event = "offer" /\ queue' # queue
        <4> DEFINE msg == [event |-> "offer", peer |-> post.from, coverage |-> post.coverage]
        <4>1. queue' = Broadcast(queue, post.from, msg)
          BY <1>10, <3>2 DEF Relay
        <4>2. post.from \in Ids /\ post.coverage \in Coverages
          BY <2>1, <3>2 DEF Post
        <4>3. msg \in Message(x)
          BY <4>2 DEF Message
        <4> HIDE DEF msg
        <4> QED BY <4>1, <4>3, Broadcasting
      <3>3. CASE post.event # "offer" /\ queue' # queue
        <4>1. post.to \in Ids /\ queue' = [queue EXCEPT ![post.to] = Append(@, post)]
          BY <1>10, <3>3 DEF Relay, Joined
        <4>2. post \in Message(x)
          BY <2>1, <3>3 DEF Message
        <4>3. queue[x] \in Seq(Message(x)) /\ queue'[x] = IF x = post.to THEN Append(queue[x], post) ELSE queue[x]
          BY <4>1
        <4> QED BY <4>2, <4>3, Appending
      <3> QED BY <3>1, <3>2, <3>3
    <2>3. DOMAIN queue' = Ids
      BY <1>10 DEF Relay, Broadcast
    <2> QED BY <2>1, <2>2, <2>3 DEF Joined
  <1>11. ASSUME NEW post \in posts, Thrown(post) PROVE NamesInv'
    BY <1>11 DEF Thrown, Joined
  <1>12. CASE UNCHANGED exchangeVars
    BY <1>12 DEF exchangeVars, Joined
  <1> QED BY <1>1, <1>2, <1>3, <1>4, <1>5, <1>6, <1>7, <1>8, <1>9, <1>10, <1>11, <1>12
          DEF ExchangeNext, Works

\* Handlers and timers keep what a browser holds of its kind.
LEMMA StateStep ==
  ASSUME StateInv, NamesInv, [ExchangeNext]_exchangeVars
  PROVE  StateInv'
  <1> USE DEF StateInv, userVars, clientVars, knownVars, waitVars, taskVars, hubVars
  <1>1. ASSUME NEW b \in Browsers, Connect(b) PROVE StateInv'
    <2>1. joins[b] + 1 \in 0..MaxJoins
      BY <1>1, ExchangeAssumption DEF Connect
    <2>2. <<b, joins[b] + 1>> \in Ids
      BY <1>1, Joining
    <2>3. stream' \in [Browsers -> Ids \cup {Absent}]
      BY <1>1, <2>2 DEF Connect
    <2> QED BY <1>1, <2>1, <2>3 DEF Connect
  <1>2. ASSUME NEW b \in Browsers, Offer(b) PROVE StateInv'
    <2>1. Coverage(b) \in Coverages
      BY CoverageType
    <2> QED BY <1>2, <2>1 DEF Offer
  <1>3. ASSUME NEW b \in Browsers, Plan(b) PROVE StateInv'
    <2>1. pending' \in [Browsers -> SUBSET Ids]
      <3>1. ASSUME NEW id \in Best(b), Ask(b, id) PROVE pending' \in [Browsers -> SUBSET Ids]
        <4>1. id \in Ids
          BY DEF Best
        <4> QED BY <3>1, <4>1 DEF Ask
      <3> QED BY <1>3, <3>1 DEF Plan
    <2> QED BY <1>3, <2>1 DEF Plan
  <1>4. ASSUME NEW b \in Browsers, Receive(b) PROVE StateInv'
    <2> DEFINE msg == Head(queue[stream[b]])
    <2>1. /\ stream[b] # Absent /\ queue[stream[b]] # <<>> /\ Take(b)
          /\ OnHello(b, msg) \/ OnJoined(b, msg) \/ OnLeft(b, msg)
             \/ OnOffer(b, msg) \/ OnRequest(b, msg) \/ OnDeliver(b, msg)
          /\ UNCHANGED <<userVars, stream, joins, hub, events>>
      BY <1>4 DEF Receive
    <2>2. msg \in Message(stream[b]) /\ stream[b] \in Ids
      BY <2>1, Receiving
    <2> HIDE DEF msg
    <2>3. CASE OnHello(b, msg)
      <3>1. offers'[b] = NoOffers /\ DOMAIN NoOffers = {}
        BY <2>3 DEF OnHello, NoOffers
      <3>2. Serving(b) \in BOOLEAN
        BY DEF Serving
      <3>3. offering' \in [Browsers -> BOOLEAN]
        BY <2>3, <3>2 DEF OnHello
      <3>4. msg.peer \in Ids
        BY <2>2, <2>3 DEF OnHello, Message, Post
      <3>5. peerId' \in [Browsers -> Ids \cup {Absent}]
        BY <2>3, <3>4 DEF OnHello
      <3> QED BY <2>1, <2>3, <3>1, <3>3, <3>5 DEF OnHello
    <2>4. CASE OnJoined(b, msg)
      <3>1. offering' \in [Browsers -> BOOLEAN]
        BY <2>4 DEF OnJoined, CanOffer, Serving
      <3> QED BY <2>1, <2>4, <3>1 DEF OnJoined
    <2>5. CASE OnLeft(b, msg)
      <3>1. \A id \in DOMAIN offers'[b] : id \in Ids /\ offers'[b][id] \in Coverages
        BY <2>5 DEF OnLeft, Without
      <3> QED BY <2>1, <2>5, <3>1 DEF OnLeft
    <2>6. CASE OnOffer(b, msg)
      <3>1. msg.peer \in Ids /\ msg.coverage \in Coverages
        BY <2>2, <2>6 DEF OnOffer, Message, Post
      <3>2. \A id \in DOMAIN offers'[b] : id \in Ids /\ offers'[b][id] \in Coverages
        BY <2>6, <3>1 DEF OnOffer, With
      <3>3. planning' \in [Browsers -> BOOLEAN]
        BY <2>6 DEF OnOffer, Plans
      <3> QED BY <2>1, <2>6, <3>2, <3>3 DEF OnOffer
    <2>7. CASE OnRequest(b, msg)
      BY <2>1, <2>7 DEF OnRequest
    <2>8. CASE OnDeliver(b, msg)
      <3>1. msg.rows \in SUBSET Rows
        BY <2>2, <2>8 DEF OnDeliver, Message, Post
      <3>2. offering' \in [Browsers -> BOOLEAN]
        BY <2>8 DEF OnDeliver, CanOffer, Serving
      <3>3. store' \in [Browsers -> SUBSET Rows]
        BY <2>8, <3>1 DEF OnDeliver
      <3> QED BY <2>1, <2>8, <3>2, <3>3 DEF OnDeliver
    <2> QED BY <2>1, <2>3, <2>4, <2>5, <2>6, <2>7, <2>8
  <1>5. ASSUME NEW b \in Browsers, NEW id \in Ids, TimeOut(b, id) PROVE StateInv'
    BY <1>5 DEF TimeOut
  <1>6. ASSUME NEW b \in Browsers, Maintain(b) PROVE StateInv'
    BY <1>6 DEF Maintain
  <1>7. ASSUME NEW b \in Browsers, Watch(b) PROVE StateInv'
    <2>1. planning' \in [Browsers -> BOOLEAN]
      BY <1>7 DEF Watch
    <2> QED BY <1>7, <2>1 DEF Watch
  <1>8. ASSUME NEW b \in Browsers, SetMode(b) PROVE StateInv'
    <2>1. planning' \in [Browsers -> BOOLEAN] /\ offering' \in [Browsers -> BOOLEAN]
      BY <1>8 DEF SetMode
    <2>2. lastOffer' \in [Browsers -> Coverages \cup {Absent}]
      BY <1>8 DEF SetMode
    <2>3. mode' \in [Browsers -> {"always", "on-demand"}]
      BY <1>8 DEF SetMode
    <2> QED BY <1>8, <2>1, <2>2, <2>3 DEF SetMode
  <1>9. ASSUME NEW b \in Browsers, SetServe(b) PROVE StateInv'
    <2>1. offering' \in [Browsers -> BOOLEAN] /\ serve' \in [Browsers -> BOOLEAN]
      BY <1>9 DEF SetServe, Serving
    <2>2. lastOffer' \in [Browsers -> Coverages \cup {Absent}]
      BY <1>9 DEF SetServe
    <2> QED BY <1>9, <2>1, <2>2 DEF SetServe
  <1>10. ASSUME NEW b \in Browsers, NEW row \in Rows, Record(b, row) PROVE StateInv'
    BY <1>10 DEF Record
  <1>11. ASSUME NEW b \in Browsers, StreamBreaks(b) PROVE StateInv'
    BY <1>11 DEF StreamBreaks
  <1>12. ASSUME NEW id \in Ids, Leave(id) PROVE StateInv'
    BY <1>12 DEF Leave
  <1>13. ASSUME NEW post \in posts, Relay(post) PROVE StateInv'
    <2>1. post \in Post
      BY DEF NamesInv
    <2>2. CASE post.event = "request"
      <3>1. post.to \in Ids /\ post.from[1] \in Browsers
        BY <2>1, <2>2 DEF Post, Ids
      <3>2. /\ timers' = [timers EXCEPT ![post.from[1]] = @ \cup {post.to}]
            /\ \/ pending' = pending
               \/ pending' = [pending EXCEPT ![post.from[1]] = @ \ {post.to}]
        BY <1>13, <2>2 DEF Relay
      <3>3. timers' \in [Browsers -> SUBSET Ids] /\ pending' \in [Browsers -> SUBSET Ids]
        BY <3>1, <3>2
      <3> QED BY <1>13, <3>3 DEF Relay
    <2>3. CASE post.event # "request"
      BY <1>13, <2>3 DEF Relay
    <2> QED BY <2>2, <2>3
  <1>14. ASSUME NEW post \in posts, Thrown(post) PROVE StateInv'
    BY <1>14 DEF Thrown
  <1>15. CASE UNCHANGED exchangeVars
    BY <1>15 DEF exchangeVars
  <1> QED BY <1>1, <1>2, <1>3, <1>4, <1>5, <1>6, <1>7, <1>8, <1>9, <1>10, <1>11, <1>12, <1>13,
             <1>14, <1>15 DEF ExchangeNext, Works

\* A join comes on top of a queue once for every name that joins, a leave once for every
\* name that leaves.
LEMMA QueueStep ==
  ASSUME StateInv, NamesInv, QueueInv, [ExchangeNext]_exchangeVars
  PROVE  QueueInv'
  <1> USE DEF userVars, clientVars, knownVars, waitVars, taskVars, hubVars
  <1>1. IsFiniteSet(Ids) /\ Joined \subseteq Ids
    <2>1. IsFiniteSet(1..MaxJoins)
      BY ExchangeAssumption, FS_Interval
    <2> QED BY <2>1, ExchangeAssumption, FS_Product DEF Ids, Joined
  <1>2. /\ IsFiniteSet(Joined) /\ Cardinality(Joined) \in Nat
        /\ IsFiniteSet(Joined \ hub) /\ Cardinality(Joined \ hub) \in Nat
    <2>1. IsFiniteSet(Joined) /\ IsFiniteSet(Joined \ hub)
      BY <1>1, FS_Subset
    <2> QED BY <2>1, FS_CardinalityType
  <1>3. \A id \in Ids : Len(queue[id]) \in Nat
    BY DEF NamesInv
  <1>4. ASSUME UNCHANGED <<joins, hub>>, \A id \in Ids : Len(queue'[id]) <= Len(queue[id])
        PROVE  QueueInv'
    <2>1. Joined' = Joined /\ hub' = hub
      BY <1>4 DEF Joined
    <2>2. \A id \in Ids : Len(queue'[id]) \in Nat
      BY NamesStep DEF NamesInv
    <2>3. ASSUME NEW id \in Ids
          PROVE  Len(queue'[id]) <= MaxQueue + Cardinality(Joined') + Cardinality(Joined' \ hub')
      <3>1. MaxQueue \in Nat /\ Len(queue[id]) <= MaxQueue + Cardinality(Joined) + Cardinality(Joined \ hub)
        BY ExchangeAssumption DEF QueueInv
      <3> QED BY <1>2, <1>3, <1>4, <2>1, <2>2, <3>1
    <2> QED BY <2>3 DEF QueueInv
  <1>5. ASSUME NEW b \in Browsers, Connect(b) PROVE QueueInv'
    <2> DEFINE id == <<b, joins[b] + 1>>
               q == [queue EXCEPT ![id] = <<[event |-> "hello", peer |-> id]>>]
               msg == [event |-> "peer-joined", peer |-> id]
    <2>1. id \in Ids /\ id[1] = b /\ id[2] = joins[b] + 1 /\ joins[b] \in Nat /\ id \notin Joined
      BY <1>5, ExchangeAssumption DEF Connect, StateInv, Ids, Joined
    <2>2. /\ hub' = hub \cup {id} /\ joins' = [joins EXCEPT ![b] = @ + 1]
          /\ queue' = Broadcast(q, id, msg)
      BY <1>5 DEF Connect
    <2>3. Joined' = Joined \cup {id}
      BY <1>5, Joining
    <2>4. q[id] = <<[event |-> "hello", peer |-> id]>> /\ \A x \in Ids : x # id => q[x] = queue[x]
      BY <2>1 DEF NamesInv
    <2>5. Len(q[id]) = 1
      BY <2>4
    <2>6. ASSUME NEW x \in Ids
          PROVE  Len(queue'[x]) \in Nat /\ (x # id => Len(queue'[x]) <= Len(queue[x]) + 1)
                 /\ (x = id => Len(queue'[x]) = 1)
      <3>1. queue'[x] = q[x] \/ (x # id /\ queue'[x] = Append(q[x], msg))
        BY <2>2 DEF Broadcast
      <3>2. x # id => q[x] = queue[x] /\ queue[x] \in Seq(Message(x))
        BY <2>4 DEF NamesInv
      <3>3. msg \in Message(x)
        BY <2>1 DEF Message
      <3> HIDE DEF id, q, msg
      <3> QED BY <2>5, <3>1, <3>2, <3>3, Appending, <1>3
    <2> HIDE DEF id, q, msg
    <2>7. /\ Cardinality(Joined') = Cardinality(Joined) + 1
          /\ Cardinality(Joined' \ hub') = Cardinality(Joined \ hub)
      <3>1. Cardinality(Joined \cup {id}) = Cardinality(Joined) + 1
        BY <1>2, <2>1, FS_AddElement
      <3>2. Joined' \ hub' = Joined \ hub
        BY <2>1, <2>2, <2>3
      <3> QED BY <2>3, <3>1, <3>2
    <2>8. ASSUME NEW x \in Ids
          PROVE  Len(queue'[x]) <= MaxQueue + Cardinality(Joined') + Cardinality(Joined' \ hub')
      <3>1. MaxQueue \in Nat /\ Len(queue[x]) <= MaxQueue + Cardinality(Joined) + Cardinality(Joined \ hub)
        BY ExchangeAssumption DEF QueueInv
      <3>2. Len(queue[x]) \in Nat /\ Len(queue'[x]) \in Nat
        BY <1>3, <2>6
      <3>3. Len(queue'[x]) <= Len(queue[x]) + 1 \/ Len(queue'[x]) = 1
        BY <2>6
      <3>4. /\ Cardinality(Joined) \in Nat /\ Cardinality(Joined \ hub) \in Nat
            /\ Cardinality(Joined') = Cardinality(Joined) + 1
            /\ Cardinality(Joined' \ hub') = Cardinality(Joined \ hub)
        BY <1>2, <2>7
      <3>5. Len(queue'[x]) <= MaxQueue + (Cardinality(Joined) + 1) + Cardinality(Joined \ hub)
        <4>1. CASE Len(queue'[x]) <= Len(queue[x]) + 1
          BY <3>1, <3>2, <3>4, <4>1
        <4>2. CASE Len(queue'[x]) = 1
          BY <3>1, <3>4, <4>2
        <4> QED BY <3>3, <4>1, <4>2
      <3> QED BY <3>4, <3>5
    <2> QED BY <2>8 DEF QueueInv
  <1>6. ASSUME NEW id \in Ids, Leave(id) PROVE QueueInv'
    <2> DEFINE q == [queue EXCEPT ![id] = <<>>]
               msg == [event |-> "peer-left", peer |-> id]
    <2>1. id \in hub /\ hub' = hub \ {id} /\ joins' = joins /\ queue' = Broadcast(q, id, msg)
      BY <1>6 DEF Leave
    <2>2. q[id] = <<>> /\ \A x \in Ids : x # id => q[x] = queue[x]
      BY DEF NamesInv
    <2>3. ASSUME NEW x \in Ids
          PROVE  Len(queue'[x]) \in Nat /\ Len(queue'[x]) <= Len(queue[x]) + 1
      <3>1. queue'[x] = q[x] \/ (x # id /\ queue'[x] = Append(q[x], msg))
        BY <2>1 DEF Broadcast
      <3>2. x # id => q[x] = queue[x] /\ queue[x] \in Seq(Message(x))
        BY <2>2 DEF NamesInv
      <3>3. msg \in Message(x)
        BY DEF Message
      <3>4. Len(q[id]) = 0
        BY <2>2
      <3> HIDE DEF q, msg
      <3> QED BY <3>1, <3>2, <3>3, <3>4, Appending, <1>3
    <2>4. Joined' = Joined
      BY <2>1 DEF Joined
    <2>5. Cardinality(Joined \ hub') = Cardinality(Joined \ hub) + 1
      <3>1. Joined \ hub' = (Joined \ hub) \cup {id} /\ id \notin Joined \ hub
        BY <2>1 DEF NamesInv
      <3> QED BY <1>2, <3>1, FS_AddElement
    <2>6. ASSUME NEW x \in Ids
          PROVE  Len(queue'[x]) <= MaxQueue + Cardinality(Joined') + Cardinality(Joined' \ hub')
      <3>1. MaxQueue \in Nat /\ Len(queue[x]) <= MaxQueue + Cardinality(Joined) + Cardinality(Joined \ hub)
        BY ExchangeAssumption DEF QueueInv
      <3> QED BY <1>2, <1>3, <2>3, <2>4, <2>5, <3>1
    <2> QED BY <2>6 DEF QueueInv
  <1>7. ASSUME NEW post \in posts, Relay(post) PROVE QueueInv'
    <2>1. UNCHANGED <<joins, hub>>
      BY <1>7 DEF Relay
    <2>2. ASSUME NEW x \in Ids
          PROVE  Len(queue'[x]) <= Len(queue[x]) \/ Len(queue'[x]) <= MaxQueue
      <3>1. \/ queue'[x] = queue[x]
            \/ (Room(x) /\ \E m : queue'[x] = Append(queue[x], m))
        <4>1. CASE post.event = "offer" /\ queue' # queue
          BY <1>7, <4>1 DEF Relay, Broadcast
        <4>2. CASE post.event # "offer" /\ queue' # queue
          <5>1. /\ post.to \in Ids /\ Room(post.to)
                /\ queue' = [queue EXCEPT ![post.to] = Append(@, post)]
            BY <1>7, <4>2 DEF Relay, NamesInv, Joined
          <5>2. queue'[x] = IF x = post.to THEN Append(queue[x], post) ELSE queue[x]
            BY <5>1 DEF NamesInv
          <5> QED BY <5>1, <5>2
        <4>3. CASE queue' = queue
          BY <4>3
        <4> QED BY <4>1, <4>2, <4>3
      <3>2. \A m : Len(Append(queue[x], m)) = Len(queue[x]) + 1
        BY DEF NamesInv
      <3> QED BY <1>3, <3>1, <3>2, ExchangeAssumption DEF Room
    <2>3. Joined' = Joined /\ hub' = hub
      BY <2>1 DEF Joined
    <2>4. \A id \in Ids : Len(queue'[id]) \in Nat
      BY NamesStep DEF NamesInv
    <2>5. ASSUME NEW x \in Ids
          PROVE  Len(queue'[x]) <= MaxQueue + Cardinality(Joined') + Cardinality(Joined' \ hub')
      <3>1. MaxQueue \in Nat /\ Len(queue[x]) <= MaxQueue + Cardinality(Joined) + Cardinality(Joined \ hub)
        BY ExchangeAssumption DEF QueueInv
      <3> QED BY <1>2, <1>3, <2>2, <2>3, <2>4, <3>1
    <2> QED BY <2>5 DEF QueueInv
  <1>8. ASSUME NEW b \in Browsers, Receive(b) PROVE QueueInv'
    <2>1. stream[b] # Absent /\ queue[stream[b]] # <<>> /\ Take(b) /\ UNCHANGED <<joins, hub>>
      BY <1>8 DEF Receive
    <2>2. /\ stream[b] \in Ids
          /\ Len(Tail(queue[stream[b]])) = Len(queue[stream[b]]) - 1
          /\ \A id \in Ids : queue'[id] = IF id = stream[b] THEN Tail(queue[id]) ELSE queue[id]
      BY <2>1, Receiving
    <2>3. ASSUME NEW id \in Ids PROVE Len(queue'[id]) <= Len(queue[id])
      <3>1. CASE id = stream[b]
        <4>1. Len(queue'[id]) = Len(queue[id]) - 1
          BY <2>2, <3>1
        <4> QED BY <1>3, <4>1
      <3>2. CASE id # stream[b]
        <4>1. queue'[id] = queue[id]
          BY <2>2, <3>2
        <4> QED BY <1>3, <4>1
      <3> QED BY <3>1, <3>2
    <2> QED BY <1>4, <2>1, <2>3
  <1>9. CASE UNCHANGED <<joins, hub, queue>>
    BY <1>3, <1>4, <1>9
  <1> QED BY <1>5, <1>6, <1>7, <1>8, <1>9
          DEF ExchangeNext, Works, Offer, Plan, TimeOut, Maintain, Watch, SetMode, SetServe, Record,
              StreamBreaks, Thrown, exchangeVars

ExchangeInv == StateInv /\ NamesInv /\ QueueInv

\* Names, queues and state hold together.
LEMMA ExchangeInvariance == ExchangeSpec => []ExchangeInv
  <1>1. ExchangeInit => ExchangeInv
    <2> SUFFICES ASSUME ExchangeInit PROVE ExchangeInv
      OBVIOUS
    <2>1. StateInv
      <3>1. \A b \in Browsers : DOMAIN offers[b] = {}
        BY DEF ExchangeInit, NoOffers
      <3>2. store \in [Browsers -> SUBSET Rows] /\ mode \in [Browsers -> {"always", "on-demand"}]
        BY ExchangeAssumption DEF ExchangeInit
      <3>3. DOMAIN offers = Browsers /\ joins \in [Browsers -> 0..MaxJoins]
        BY ExchangeAssumption DEF ExchangeInit
      <3> QED BY <3>1, <3>2, <3>3 DEF ExchangeInit, StateInv
    <2>2. NamesInv
      BY DEF ExchangeInit, NamesInv
    <2>3. QueueInv
      <3>1. IsFiniteSet(1..MaxJoins)
        BY ExchangeAssumption, FS_Interval
      <3>2. IsFiniteSet(Ids)
        BY <3>1, ExchangeAssumption, FS_Product DEF Ids
      <3>3. IsFiniteSet(Joined) /\ IsFiniteSet(Joined \ hub)
        BY <3>2, FS_Subset DEF Joined
      <3>4. Cardinality(Joined) \in Nat /\ Cardinality(Joined \ hub) \in Nat
        BY <3>3, FS_CardinalityType
      <3>5. \A id \in Ids : Len(queue[id]) = 0
        BY DEF ExchangeInit
      <3> QED BY <3>4, <3>5, ExchangeAssumption DEF QueueInv
    <2> QED BY <2>1, <2>2, <2>3 DEF ExchangeInv
  <1>2. ExchangeInv /\ [ExchangeNext]_exchangeVars => ExchangeInv'
    BY StateStep, NamesStep, QueueStep DEF ExchangeInv
  <1> QED BY <1>1, <1>2, PTL DEF ExchangeSpec

\* Every part of the exchange keeps a value of its kind, and no queue outgrows its room, for
\* any browsers, rows and number of connections.
THEOREM ExchangeTyping == ExchangeSpec => []ExchangeTypeOK
  <1>1. ExchangeInv => ExchangeTypeOK
    <2> SUFFICES ASSUME ExchangeInv PROVE ExchangeTypeOK
      OBVIOUS
    <2>1. hub \subseteq Ids
      BY DEF ExchangeInv, NamesInv, Joined
    <2> QED BY <2>1 DEF ExchangeInv, ExchangeTypeOK, StateInv, QueueInv, Coverages
  <1> QED BY <1>1, ExchangeInvariance, PTL

\* What is open in `pending` is either on its way as a request or has its time limit
\* running: a plan opens a question and posts it in one step, the relay's answer turns the
\* request into a time limit, and an answer or the limit closes the question.
LEMMA QuestionsStep ==
  ASSUME "request" \notin Throws, StateInv, NamesInv, EveryQuestionEnds,
         [ExchangeNext]_exchangeVars
  PROVE  EveryQuestionEnds'
  <1> USE DEF userVars, clientVars, knownVars, waitVars, taskVars, hubVars
  <1> DEFINE Sent(b, id, set) ==
               \E post \in set : post.event = "request" /\ post.from[1] = b /\ post.to = id
  <1>1. ASSUME pending' = pending, timers' = timers, posts \subseteq posts'
        PROVE  EveryQuestionEnds'
    BY <1>1 DEF EveryQuestionEnds
  <1>2. ASSUME NEW b \in Browsers, NEW id, Ask(b, id), timers' = timers PROVE EveryQuestionEnds'
    <2>1. CASE UNCHANGED <<pending, posts>>
      BY <1>1, <1>2, <2>1
    <2>2. CASE ~UNCHANGED <<pending, posts>>
      <3> DEFINE post == [event |-> "request", from |-> peerId[b], to |-> id]
      <3>1. /\ peerId[b] # Absent
            /\ pending' = [pending EXCEPT ![b] = @ \cup {id}] /\ posts' = posts \cup {post}
        BY <1>2, <2>2 DEF Ask
      <3>2. peerId[b][1] = b
        BY <3>1 DEF NamesInv
      <3>3. post.event = "request" /\ post.from[1] = b /\ post.to = id
        BY <3>2
      <3> HIDE DEF post
      <3>4. ASSUME NEW c \in Browsers, NEW x \in pending'[c]
            PROVE  x \in timers'[c] \/ Sent(c, x, posts')
        <4>1. CASE x \in pending[c]
          BY <1>2, <3>1, <4>1 DEF EveryQuestionEnds
        <4>2. CASE x \notin pending[c]
          <5>1. c = b /\ x = id
            BY <3>1, <4>2 DEF StateInv
          <5> QED BY <3>1, <3>3, <5>1
        <4> QED BY <4>1, <4>2
      <3> QED BY <3>4 DEF EveryQuestionEnds
    <2> QED BY <2>1, <2>2
  <1>3. ASSUME NEW b \in Browsers, Plan(b) PROVE EveryQuestionEnds'
    BY <1>1, <1>2, <1>3 DEF Plan
  <1>4. ASSUME NEW b \in Browsers, NEW id \in Ids, TimeOut(b, id) PROVE EveryQuestionEnds'
    <2>1. /\ timers' = [timers EXCEPT ![b] = @ \ {id}]
          /\ pending' = [pending EXCEPT ![b] = @ \ {id}] /\ posts' = posts
      BY <1>4 DEF TimeOut
    <2>2. ASSUME NEW c \in Browsers, NEW x \in pending'[c]
          PROVE  x \in timers'[c] \/ Sent(c, x, posts')
      <3>1. x \in pending[c] /\ (c # b \/ x # id)
        BY <2>1 DEF StateInv
      <3>2. x \in timers[c] \/ Sent(c, x, posts)
        BY <3>1 DEF EveryQuestionEnds
      <3>3. x \in timers[c] => x \in timers'[c]
        BY <2>1, <3>1 DEF StateInv
      <3> QED BY <2>1, <3>2, <3>3
    <2> QED BY <2>2 DEF EveryQuestionEnds
  <1>5. ASSUME NEW b \in Browsers, Receive(b) PROVE EveryQuestionEnds'
    <2> DEFINE msg == Head(queue[stream[b]])
    <2>1. \/ OnHello(b, msg) \/ OnJoined(b, msg) \/ OnLeft(b, msg)
          \/ OnOffer(b, msg) \/ OnRequest(b, msg) \/ OnDeliver(b, msg)
      BY <1>5 DEF Receive
    <2> HIDE DEF msg
    <2>2. CASE OnDeliver(b, msg)
      <3>1. /\ pending' = [pending EXCEPT ![b] = @ \ {msg.from}]
            /\ timers' = timers /\ posts' = posts
        BY <2>2 DEF OnDeliver
      <3>2. \A c \in Browsers : pending'[c] \subseteq pending[c]
        BY <3>1 DEF StateInv
      <3> QED BY <3>1, <3>2 DEF EveryQuestionEnds
    <2>3. CASE ~OnDeliver(b, msg)
      <3>1. pending' = pending /\ timers' = timers /\ posts \subseteq posts'
        BY <2>1, <2>3 DEF OnHello, OnJoined, OnLeft, OnOffer, OnRequest
      <3> QED BY <1>1, <3>1
    <2> QED BY <2>2, <2>3
  <1>6. ASSUME NEW post \in posts, Relay(post) PROVE EveryQuestionEnds'
    <2>1. posts' = posts \ {post} /\ post \in Post
      BY <1>6 DEF Relay, NamesInv
    <2>2. CASE post.event = "request"
      <3> DEFINE b == post.from[1]
      <3>1. b \in Browsers
        BY <2>1, <2>2 DEF Post, Ids
      <3>2. /\ timers' = [timers EXCEPT ![b] = @ \cup {post.to}]
            /\ \/ pending' = pending
               \/ pending' = [pending EXCEPT ![b] = @ \ {post.to}]
        BY <1>6, <2>2 DEF Relay
      <3> HIDE DEF b
      <3>3. ASSUME NEW c \in Browsers, NEW x \in pending'[c]
            PROVE  x \in timers'[c] \/ Sent(c, x, posts')
        <4>1. x \in pending[c] /\ timers[c] \subseteq timers'[c]
          BY <3>1, <3>2 DEF StateInv
        <4>2. CASE x \in timers[c]
          BY <4>1, <4>2
        <4>3. CASE x \notin timers[c]
          <5>1. PICK other \in posts : /\ other.event = "request" /\ other.from[1] = c
                                       /\ other.to = x
            BY <4>1, <4>3 DEF EveryQuestionEnds
          <5>2. CASE other = post
            <6>1. c = b /\ x = post.to
              BY <5>1, <5>2 DEF b
            <6> QED BY <3>1, <3>2, <6>1 DEF StateInv
          <5>3. CASE other # post
            BY <2>1, <5>1, <5>3
          <5> QED BY <5>2, <5>3
        <4> QED BY <4>2, <4>3
      <3> QED BY <3>3 DEF EveryQuestionEnds
    <2>3. CASE post.event # "request"
      <3>1. pending' = pending /\ timers' = timers
        BY <1>6, <2>3 DEF Relay
      <3> QED BY <2>1, <2>3, <3>1 DEF EveryQuestionEnds
    <2> QED BY <2>2, <2>3
  <1>7. ASSUME NEW post \in posts, Thrown(post) PROVE EveryQuestionEnds'
    <2>1. /\ posts' = posts \ {post} /\ post.event # "request"
          /\ pending' = pending /\ timers' = timers
      BY <1>7 DEF Thrown
    <2> QED BY <2>1 DEF EveryQuestionEnds
  <1>8. ASSUME NEW b \in Browsers, Offer(b) PROVE EveryQuestionEnds'
    <2>1. pending' = pending /\ timers' = timers /\ posts \subseteq posts'
      BY <1>8 DEF Offer
    <2> QED BY <1>1, <2>1
  <1>9. CASE UNCHANGED <<pending, timers, posts>>
    BY <1>1, <1>9
  <1> QED BY <1>3, <1>4, <1>5, <1>6, <1>7, <1>8, <1>9
          DEF ExchangeNext, Works, Connect, Maintain, Watch, SetMode, SetServe, Record,
              StreamBreaks, Leave, exchangeVars

\* Every key of `pending` is freed again, as long as the post of a question gets some answer
\* from the server; requestFrom sets no time limit for a post whose fetch is rejected.
THEOREM QuestionsProof ==
  ASSUME "request" \notin Throws PROVE ExchangeSpec => []EveryQuestionEnds
  <1>1. ExchangeInit => EveryQuestionEnds
    BY DEF ExchangeInit, EveryQuestionEnds
  <1>2. ExchangeInv /\ EveryQuestionEnds /\ [ExchangeNext]_exchangeVars => EveryQuestionEnds'
    BY QuestionsStep DEF ExchangeInv
  <1> QED BY <1>1, <1>2, ExchangeInvariance, PTL DEF ExchangeSpec
==============================================================================
