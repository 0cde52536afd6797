---------------------------- MODULE MarketProofs ----------------------------
(***************************************************************************)
(* Proofs about what the server tells of the market and charges for it:    *)
(* OrderFeed, Fees, FeeKeeper and AnalyticsStore, for any orders, readers, *)
(* batches, journals and bounds.                                           *)
(***************************************************************************)
EXTENDS OrderFeed, Fees, FeeKeeper, AnalyticsStore, SharedLemmas

--------------------------------------------------------------------------------
(***************************************************************************)
(* OrderFeed.  The candles follow the trades, a finite set.  For what the  *)
(* readers show, the updates in a channel must be taken into account: with *)
(* none lost the last of an order's updates is its state, or a New that    *)
(* came late, and of an order whose New was not late each update follows   *)
(* the one before it.  "failed" is the last but for a New, losses or not.  *)
(***************************************************************************)
Updates == Orders \X Statuses
FinalWords == {"failed", "created"}

\* The positions of o's updates in a channel; the last, and the first.
LastOf(q, i) == \A j \in DOMAIN q : q[j][1] = q[i][1] => j <= i
FirstOf(q, i) == \A j \in DOMAIN q : q[j][1] = q[i][1] => i <= j
NextOf(q, i, j) ==
  /\ i < j /\ q[i][1] = q[j][1]
  /\ \A l \in DOMAIN q : i < l /\ l < j => q[l][1] # q[i][1]
Silent(q, o) == \A i \in DOMAIN q : q[i][1] # o

FeedTypes ==
  /\ life \in [Orders -> Statuses \cup {"none"}]
  /\ row \in [Orders -> Statuses \cup {"none"}]
  /\ buckets \in [Orders -> SUBSET Statuses]
  /\ inbox \in [Readers -> Seq(Updates)] /\ \A r \in Readers : Len(inbox[r]) <= FeedCapacity
  /\ halfTrade \in Orders \cup {NoOrder} /\ candles \in Nat
  /\ IsFiniteSet(trades) /\ lossy \in BOOLEAN
  /\ restarts \in Nat /\ (restarts > 0 => lossy)

LastTold ==
  ~ lossy =>
    \A r \in Readers : \A i \in DOMAIN inbox[r] :
      LastOf(inbox[r], i) =>
        \/ inbox[r][i][2] = life[inbox[r][i][1]]
        \/ inbox[r][i][2] = "created" /\ inbox[r][i][1] \in late

HistoryTold ==
  ~ lossy =>
    \A o \in Orders : Silent(inbox["history"], o) =>
      \/ row[o] = life[o]
      \/ row[o] = "created" /\ o \in late
      \/ row[o] = "none" /\ life[o] = "created"

\* An order that was never announced is nowhere.
Unheard ==
  \A o \in Orders :
    life[o] = "none" \/ (life[o] = "created" /\ o \notin heralded) =>
      buckets[o] = {} /\ \A r \in Readers : Silent(inbox[r], o)

InOrder ==
  ~ lossy =>
    /\ \A i, j \in DOMAIN inbox["index"] :
         NextOf(inbox["index"], i, j) /\ inbox["index"][i][1] \notin late =>
           inbox["index"][j][2] \in Follows(inbox["index"][i][2])
    /\ \A o \in Orders \ late :
         /\ \A s, t \in buckets[o] : s = t
         /\ \A i \in DOMAIN inbox["index"] :
              inbox["index"][i][1] = o /\ FirstOf(inbox["index"], i) =>
                \A s \in buckets[o] : inbox["index"][i][2] \in Follows(s)
         /\ Silent(inbox["index"], o) => \A s \in buckets[o] : s = life[o]

FailedIsLast ==
  /\ \A i, j \in DOMAIN inbox["index"] :
       i < j /\ inbox["index"][i] = <<inbox["index"][j][1], "failed">> =>
         inbox["index"][j][2] \in FinalWords
  /\ \A i \in DOMAIN inbox["index"] :
       inbox["index"][i][2] = "failed" => life[inbox["index"][i][1]] = "failed"
  /\ \A o \in Orders : "failed" \in buckets[o] =>
       /\ buckets[o] \subseteq FinalWords /\ life[o] = "failed"
       /\ \A i \in DOMAIN inbox["index"] :
            inbox["index"][i][1] = o => inbox["index"][i][2] \in FinalWords

FeedInv ==
  /\ FeedTypes /\ CandlesCountTradesOnce /\ LastTold /\ HistoryTold /\ Unheard
  /\ InOrder /\ FailedIsLast

\* a is channel q with one more update.
AddsTo(q, o, st, a) ==
  LET n == Len(q) + 1 IN
  /\ a \in Seq(Updates) /\ Len(a) = n /\ a # <<>>
  /\ n \in DOMAIN a /\ a[n][1] = o /\ a[n][2] = st
  /\ \A i \in DOMAIN a : i \in Nat /\ (i = n \/ i \in DOMAIN q)
  /\ \A i \in DOMAIN q : i \in DOMAIN a /\ i < n /\ a[i] = q[i]
  /\ \A p : Silent(a, p) <=> Silent(q, p) /\ p # o
  /\ \A i \in DOMAIN q : LastOf(a, i) => LastOf(q, i) /\ q[i][1] # o
  /\ \A i \in DOMAIN q : FirstOf(a, i) => FirstOf(q, i)
  /\ FirstOf(a, n) => Silent(q, o)
  /\ \A i, j \in DOMAIN q : NextOf(a, i, j) => NextOf(q, i, j)
  /\ \A i \in DOMAIN a : NextOf(a, i, n) => i \in DOMAIN q /\ LastOf(q, i) /\ q[i][1] = o
  /\ \A i \in DOMAIN a : ~ NextOf(a, n, i)

\* A channel after one more update.
LEMMA Appended ==
    ASSUME NEW q \in Seq(Updates), NEW o \in Orders, NEW st \in Statuses, NEW a,
           a = Append(q, <<o, st>>)
    PROVE  AddsTo(q, o, st, a)
<1> DEFINE n == Len(q) + 1
<1>1. Len(q) \in Nat /\ DOMAIN q = 1..Len(q) /\ <<o, st>> \in Updates
  BY DEF Updates
<1>2. /\ a \in Seq(Updates) /\ Len(a) = n /\ a # <<>> /\ DOMAIN a = 1..n /\ a[n] = <<o, st>>
      /\ \A i \in 1..Len(q) : a[i] = q[i]
  BY <1>1
<1>3. /\ n \in DOMAIN a /\ a[n][1] = o /\ a[n][2] = st
      /\ \A i \in DOMAIN a : i \in Nat /\ (i = n \/ i \in DOMAIN q)
      /\ \A i \in DOMAIN q : i \in DOMAIN a /\ i < n /\ a[i] = q[i]
  BY <1>1, <1>2
<1>4. n \in Nat
  BY <1>1
<1> HIDE DEF n
<1>5. /\ \A p : Silent(a, p) <=> Silent(q, p) /\ p # o
      /\ FirstOf(a, n) => Silent(q, o)
  BY <1>3, <1>4 DEF Silent, FirstOf
<1>6. /\ \A i \in DOMAIN q : LastOf(a, i) => LastOf(q, i) /\ q[i][1] # o
      /\ \A i \in DOMAIN q : FirstOf(a, i) => FirstOf(q, i)
  BY <1>3, <1>4 DEF LastOf, FirstOf
<1>7. \A i, j \in DOMAIN q : NextOf(a, i, j) => NextOf(q, i, j)
  BY <1>3 DEF NextOf
<1>8. ASSUME NEW i \in DOMAIN a, NextOf(a, i, n)
      PROVE  i \in DOMAIN q /\ LastOf(q, i) /\ q[i][1] = o
  <2>1. i \in DOMAIN q /\ q[i][1] = o
    BY <1>3, <1>4, <1>8 DEF NextOf
  <2>2. ASSUME NEW j \in DOMAIN q, q[j][1] = q[i][1] PROVE j <= i
    <3>1. j \in DOMAIN a /\ a[j][1] = a[i][1] /\ j < n /\ j \in Nat /\ i \in Nat
      BY <1>3, <2>1, <2>2
    <3>2. ~ (i < j)
      BY <1>8, <3>1 DEF NextOf
    <3> QED
      BY <3>1, <3>2
  <2> QED
    BY <2>1, <2>2 DEF LastOf
<1>9. \A i \in DOMAIN a : ~ NextOf(a, n, i)
  BY <1>3, <1>4 DEF NextOf
<1> QED
  BY <1>2, <1>3, <1>5, <1>6, <1>7, <1>8, <1>9 DEF n, AddsTo

\* t is channel q without its first update.
TailOf(q, t) ==
  /\ t \in Seq(Updates) /\ 1 \in DOMAIN q /\ Head(q) = q[1]
  /\ q[1][1] \in Orders /\ q[1][2] \in Statuses
  /\ FirstOf(q, 1)
  /\ \A i \in DOMAIN t : i \in Nat /\ i + 1 \in DOMAIN q /\ t[i] = q[i + 1] /\ 1 < i + 1
  /\ \A p : p # q[1][1] /\ Silent(t, p) => Silent(q, p)
  /\ \A p : Silent(q, p) => Silent(t, p)
  /\ Silent(t, q[1][1]) => LastOf(q, 1)
  /\ \A i \in DOMAIN t : LastOf(t, i) => LastOf(q, i + 1)
  /\ \A i \in DOMAIN t : FirstOf(t, i) /\ t[i][1] # q[1][1] => FirstOf(q, i + 1)
  /\ \A i \in DOMAIN t : FirstOf(t, i) /\ t[i][1] = q[1][1] => NextOf(q, 1, i + 1)
  /\ \A i, j \in DOMAIN t : NextOf(t, i, j) => NextOf(q, i + 1, j + 1)

\* A channel after its first update is read.
LEMMA Taken ==
    ASSUME NEW q \in Seq(Updates), q # <<>>, NEW t, t = Tail(q)
    PROVE  TailOf(q, t)
<1>1. Len(q) \in Nat \ {0} /\ DOMAIN q = 1..Len(q)
  OBVIOUS
<1>2. /\ t \in Seq(Updates) /\ 1 \in DOMAIN q /\ Head(q) = q[1] /\ q[1] \in Updates
      /\ \A i \in DOMAIN t : i \in Nat /\ i + 1 \in DOMAIN q /\ t[i] = q[i + 1] /\ 1 < i + 1
      /\ \A i \in DOMAIN q : i \in Nat /\ (i = 1 \/ (1 < i /\ i - 1 \in DOMAIN t /\ q[i] = t[i - 1]))
  <2>1. t \in Seq(Updates) /\ Head(q) = q[1] /\ q[1] \in Updates /\ 1 \in DOMAIN q
    BY <1>1
  <2>2. DOMAIN t = 1..(Len(q) - 1) /\ \A i \in 1..(Len(q) - 1) : t[i] = q[i + 1]
    BY <1>1
  <2>3. \A i \in DOMAIN q : i # 1 => i - 1 \in DOMAIN t /\ (i - 1) + 1 = i
    BY <1>1, <2>2
  <2> QED
    BY <1>1, <2>1, <2>2, <2>3
<1>3. q[1][1] \in Orders /\ q[1][2] \in Statuses
  BY <1>2 DEF Updates
<1>4. FirstOf(q, 1)
  BY <1>2 DEF FirstOf
<1>5. /\ \A p : p # q[1][1] /\ Silent(t, p) => Silent(q, p)
      /\ \A p : Silent(q, p) => Silent(t, p)
  BY <1>2 DEF Silent
<1>6. ASSUME Silent(t, q[1][1]) PROVE LastOf(q, 1)
  <2>1. ASSUME NEW j \in DOMAIN q, j # 1 PROVE q[j][1] # q[1][1]
    <3>1. j - 1 \in DOMAIN t /\ q[j] = t[j - 1]
      BY <1>2, <2>1
    <3> QED
      BY <1>6, <3>1 DEF Silent
  <2> QED
    BY <1>2, <2>1 DEF LastOf
<1>7. ASSUME NEW i \in DOMAIN t, LastOf(t, i) PROVE LastOf(q, i + 1)
  <2>1. ASSUME NEW j \in DOMAIN q, q[j][1] = q[i + 1][1], j # 1 PROVE j <= i + 1
    <3>1. j - 1 \in DOMAIN t /\ t[j - 1][1] = t[i][1]
      BY <1>2, <2>1
    <3>2. j - 1 <= i
      BY <1>7, <3>1 DEF LastOf
    <3> QED
      BY <1>2, <3>2
  <2> QED
    BY <1>2, <2>1 DEF LastOf
<1>8. ASSUME NEW i \in DOMAIN t, FirstOf(t, i)
      PROVE  \A j \in DOMAIN q : q[j][1] = q[i + 1][1] /\ j # 1 => i + 1 <= j
  <2>1. ASSUME NEW j \in DOMAIN q, q[j][1] = q[i + 1][1], j # 1 PROVE i + 1 <= j
    <3>1. j - 1 \in DOMAIN t /\ t[j - 1][1] = t[i][1]
      BY <1>2, <2>1
    <3>2. i <= j - 1
      BY <1>8, <3>1 DEF FirstOf
    <3> QED
      BY <1>2, <3>2
  <2> QED
    BY <2>1
<1>9. \A i \in DOMAIN t : FirstOf(t, i) /\ t[i][1] # q[1][1] => FirstOf(q, i + 1)
  BY <1>2, <1>8 DEF FirstOf
<1>10. ASSUME NEW i \in DOMAIN t, FirstOf(t, i), t[i][1] = q[1][1] PROVE NextOf(q, 1, i + 1)
  <2>1. 1 < i + 1 /\ q[i + 1][1] = q[1][1]
    BY <1>2, <1>10
  <2>2. ASSUME NEW l \in DOMAIN q, 1 < l, l < i + 1 PROVE q[l][1] # q[1][1]
    <3>1. l \in Nat /\ l # 1 /\ ~ (i + 1 <= l)
      BY <1>2, <2>2
    <3> QED
      BY <1>8, <1>10, <2>1, <3>1
  <2> QED
    BY <2>1, <2>2 DEF NextOf
<1>11. ASSUME NEW i \in DOMAIN t, NEW j \in DOMAIN t, NextOf(t, i, j) PROVE NextOf(q, i + 1, j + 1)
  <2>1. i + 1 < j + 1 /\ q[i + 1][1] = q[j + 1][1]
    BY <1>2, <1>11 DEF NextOf
  <2>2. ASSUME NEW l \in DOMAIN q, i + 1 < l, l < j + 1 PROVE q[l][1] # q[i + 1][1]
    <3>1. l - 1 \in DOMAIN t /\ q[l] = t[l - 1] /\ i < l - 1 /\ l - 1 < j
      BY <1>2, <2>2
    <3>2. t[l - 1][1] # t[i][1]
      BY <1>11, <3>1 DEF NextOf
    <3> QED
      BY <1>2, <3>1, <3>2
  <2> QED
    BY <2>1, <2>2 DEF NextOf
<1> QED
  BY <1>2, <1>3, <1>4, <1>5, <1>6, <1>7, <1>9, <1>10, <1>11 DEF TailOf

\* What a published update does to the channels.
LEMMA Published ==
    ASSUME FeedTypes, NEW o \in Orders, NEW st \in Statuses, Publish(o, st)
    PROVE  /\ inbox' \in [Readers -> Seq(Updates)]
           /\ \A r \in Readers : Len(inbox'[r]) <= FeedCapacity
           /\ lossy' \in BOOLEAN /\ (lossy => lossy')
           /\ ~ lossy' => \A r \in Readers : inbox'[r] = Append(inbox[r], <<o, st>>)
           /\ \A r \in Readers : \A p : p # o /\ Silent(inbox[r], p) => Silent(inbox'[r], p)
           /\ \A r \in Readers : \E d \in Nat : \A i \in DOMAIN inbox'[r] :
                /\ i \in Nat /\ i + d \in DOMAIN Append(inbox[r], <<o, st>>)
                /\ inbox'[r][i] = Append(inbox[r], <<o, st>>)[i + d]
<1> DEFINE A(r) == Append(inbox[r], <<o, st>>)
<1>1. /\ inbox' = [r \in Readers |-> IF Len(A(r)) > FeedCapacity THEN Tail(A(r)) ELSE A(r)]
      /\ lossy' = (lossy \/ \E r \in Readers : Len(inbox[r]) = FeedCapacity)
  BY DEF Publish
<1>2. \A r \in Readers : inbox[r] \in Seq(Updates)
  BY DEF FeedTypes
<1>3. ASSUME NEW r \in Readers
      PROVE  /\ A(r) \in Seq(Updates) /\ A(r) # <<>> /\ Len(A(r)) = Len(inbox[r]) + 1
             /\ \A p : p # o /\ Silent(inbox[r], p) => Silent(A(r), p)
  <2> DEFINE q == inbox[r]
             a == A(r)
  <2>1. q \in Seq(Updates) /\ a = Append(q, <<o, st>>)
    BY <1>2
  <2> HIDE DEF q, a
  <2>2. /\ a \in Seq(Updates) /\ Len(a) = Len(q) + 1 /\ a # <<>>
        /\ \A p : Silent(a, p) <=> Silent(q, p) /\ p # o
    <3>1. AddsTo(q, o, st, a)
      BY <2>1, Appended
    <3> QED
      BY <3>1 DEF AddsTo
  <2> QED
    BY <2>2 DEF q, a
<1>4. ASSUME NEW r \in Readers
      PROVE  /\ inbox'[r] \in Seq(Updates)
             /\ \A p : p # o /\ Silent(inbox[r], p) => Silent(inbox'[r], p)
             /\ \E d \in Nat : \A i \in DOMAIN inbox'[r] :
                  i \in Nat /\ i + d \in DOMAIN A(r) /\ inbox'[r][i] = A(r)[i + d]
  <2>1. inbox'[r] = A(r) \/ inbox'[r] = Tail(A(r))
    BY <1>1
  <2>2. A(r) \in Seq(Updates) /\ A(r) # <<>>
        /\ \A p : p # o /\ Silent(inbox[r], p) => Silent(A(r), p)
    BY <1>3
  <2> HIDE DEF A
  <2>3. CASE inbox'[r] = A(r)
    <3>1. \A i \in DOMAIN inbox'[r] : i \in Nat /\ i + 0 \in DOMAIN A(r) /\ inbox'[r][i] = A(r)[i + 0]
      BY <2>2, <2>3
    <3> QED
      BY <2>2, <2>3, <3>1
  <2>4. CASE inbox'[r] = Tail(A(r))
    <3> DEFINE t == Tail(A(r))
    <3>1. /\ t \in Seq(Updates) /\ \A p : Silent(A(r), p) => Silent(t, p)
          /\ \A i \in DOMAIN t : i \in Nat /\ i + 1 \in DOMAIN A(r) /\ t[i] = A(r)[i + 1]
      BY <2>2, Taken DEF TailOf
    <3> HIDE DEF t
    <3>2. inbox'[r] = t
      BY <2>4 DEF t
    <3> QED
      BY <2>2, <3>1, <3>2
  <2> QED
    BY <2>1, <2>3, <2>4
<1>5. ASSUME ~ lossy', NEW r \in Readers PROVE inbox'[r] = A(r)
  <2>1. Len(inbox[r]) # FeedCapacity
    BY <1>1, <1>5
  <2>2. Len(inbox[r]) \in Nat /\ Len(inbox[r]) <= FeedCapacity /\ FeedCapacity \in Nat
    BY <1>2, FeedAssumption DEF FeedTypes
  <2>3. ~ (Len(A(r)) > FeedCapacity)
    BY <1>3, <2>1, <2>2
  <2> HIDE DEF A
  <2> QED
    BY <1>1, <2>3
<1>6. ASSUME NEW r \in Readers PROVE Len(inbox'[r]) <= FeedCapacity
  <2>1. Len(inbox[r]) \in Nat /\ Len(inbox[r]) <= FeedCapacity /\ FeedCapacity \in Nat
    BY <1>2, FeedAssumption DEF FeedTypes
  <2>2. Len(A(r)) = Len(inbox[r]) + 1 /\ A(r) # <<>> /\ A(r) \in Seq(Updates)
    BY <1>3
  <2>3. inbox'[r] = IF Len(A(r)) > FeedCapacity THEN Tail(A(r)) ELSE A(r)
    BY <1>1
  <2> HIDE DEF A
  <2>4. Len(Tail(A(r))) = Len(A(r)) - 1
    BY <2>2
  <2> QED
    BY <2>1, <2>2, <2>3, <2>4
<1>7. /\ inbox' \in [Readers -> Seq(Updates)] /\ lossy' \in BOOLEAN /\ (lossy => lossy')
  BY <1>1, <1>4 DEF FeedTypes
<1> QED
  BY <1>4, <1>5, <1>6, <1>7

\* A publisher of o's status st: what it may change, and how st fits o's life.
Publisher(o, st) ==
  /\ Publish(o, st) /\ UNCHANGED <<row, trades, candles, halfTrade, buckets, restarts>>
  /\ life' \in [Orders -> Statuses \cup {"none"}]
  /\ \A p \in Orders : p # o => /\ life'[p] = life[p]
                                /\ p \in late' <=> p \in late
                                /\ p \in heralded' <=> p \in heralded
  /\ o \in late => o \in late'
  /\ life'[o] # "none" /\ (life'[o] = "created" => o \in heralded')
  /\ st = life'[o] \/ (st = "created" /\ o \in late')
  /\ life[o] = "failed" => st \in FinalWords /\ life'[o] = "failed"
  /\ st = "failed" => life'[o] = "failed"
  /\ ~ lossy' /\ o \notin late' =>
       \/ st \in Follows(life[o])
       \/ buckets[o] = {} /\ Silent(inbox["index"], o)

\* An update is published, in order or lost to a lagging reader.
LEMMA PublishKeeps ==
    ASSUME FeedInv, NEW o \in Orders, NEW st \in Statuses, Publisher(o, st)
    PROVE  FeedInv'
<1> USE DEF Publisher
<1>1. /\ inbox' \in [Readers -> Seq(Updates)]
      /\ \A r \in Readers : Len(inbox'[r]) <= FeedCapacity
      /\ lossy' \in BOOLEAN /\ (lossy => lossy')
      /\ ~ lossy' => \A r \in Readers : inbox'[r] = Append(inbox[r], <<o, st>>)
      /\ \A r \in Readers : \A p : p # o /\ Silent(inbox[r], p) => Silent(inbox'[r], p)
      /\ \A r \in Readers : \E d \in Nat : \A i \in DOMAIN inbox'[r] :
           /\ i \in Nat /\ i + d \in DOMAIN Append(inbox[r], <<o, st>>)
           /\ inbox'[r][i] = Append(inbox[r], <<o, st>>)[i + d]
  BY Published DEF FeedInv
<1>2. ASSUME NEW r \in Readers
      PROVE  inbox[r] \in Seq(Updates) /\ AddsTo(inbox[r], o, st, Append(inbox[r], <<o, st>>))
  <2>1. inbox[r] \in Seq(Updates)
    BY DEF FeedInv, FeedTypes
  <2> QED
    BY <2>1, Appended
<1>3. "history" \in Readers /\ "index" \in Readers
  BY DEF Readers
<1>4. FeedTypes'
  BY <1>1 DEF FeedInv, FeedTypes
<1>5. CandlesCountTradesOnce'
  BY DEF FeedInv, CandlesCountTradesOnce
<1>6. ASSUME ~ lossy', NEW r \in Readers
      PROVE  inbox[r] \in Seq(Updates) /\ AddsTo(inbox[r], o, st, inbox'[r])
  BY <1>1, <1>2, <1>6
<1>7. LastTold'
  <2>1. SUFFICES ASSUME ~ lossy', NEW r \in Readers, NEW i \in DOMAIN inbox'[r], LastOf(inbox'[r], i)
                 PROVE  \/ inbox'[r][i][2] = life'[inbox'[r][i][1]]
                        \/ inbox'[r][i][2] = "created" /\ inbox'[r][i][1] \in late'
    BY DEF LastTold
  <2> DEFINE q == inbox[r]
             a == inbox'[r]
             n == Len(q) + 1
  <2>2. AddsTo(q, o, st, a) /\ q \in Seq(Updates)
    BY <1>6, <2>1
  <2>3. CASE i = n
    <3>1. a[i][1] = o /\ a[i][2] = st
      BY <2>2, <2>3 DEF AddsTo
    <3> QED
      BY <3>1
  <2>4. CASE i # n
    <3>1. i \in DOMAIN q /\ LastOf(q, i) /\ q[i][1] # o /\ a[i] = q[i]
      BY <2>1, <2>2, <2>4 DEF AddsTo
    <3>2. q[i] \in Updates
      BY <2>2, <3>1
    <3>3. q[i][1] \in Orders
      BY <3>2 DEF Updates
    <3>4. q[i][2] = life[q[i][1]] \/ (q[i][2] = "created" /\ q[i][1] \in late)
      BY <1>1, <2>1, <3>1 DEF FeedInv, LastTold
    <3> QED
      BY <3>1, <3>3, <3>4
  <2> QED
    BY <2>3, <2>4
<1>8. HistoryTold'
  <2>1. SUFFICES ASSUME ~ lossy', NEW p \in Orders, Silent(inbox'["history"], p)
                 PROVE  \/ row[p] = life'[p]
                        \/ row[p] = "created" /\ p \in late'
                        \/ row[p] = "none" /\ life'[p] = "created"
    BY DEF HistoryTold
  <2>2. Silent(inbox["history"], p) /\ p # o
    BY <1>3, <1>6, <2>1 DEF AddsTo
  <2> QED
    BY <1>1, <2>1, <2>2 DEF FeedInv, HistoryTold
<1>9. Unheard'
  <2>1. ASSUME NEW p \in Orders, life'[p] = "none" \/ (life'[p] = "created" /\ p \notin heralded')
        PROVE  buckets[p] = {} /\ \A r \in Readers : Silent(inbox'[r], p)
    <3>1. p # o
      BY <2>1
    <3> QED
      BY <1>1, <2>1, <3>1 DEF FeedInv, Unheard
  <2> QED
    BY <2>1 DEF Unheard
<1>10. InOrder'
  <2> DEFINE q == inbox["index"]
             a == inbox'["index"]
             n == Len(q) + 1
  <2>1. SUFFICES ASSUME ~ lossy'
        PROVE
          /\ \A i, j \in DOMAIN a :
               NextOf(a, i, j) /\ a[i][1] \notin late' => a[j][2] \in Follows(a[i][2])
          /\ \A p \in Orders \ late' :
               /\ \A s, t \in buckets[p] : s = t
               /\ \A i \in DOMAIN a :
                    a[i][1] = p /\ FirstOf(a, i) => \A s \in buckets[p] : a[i][2] \in Follows(s)
               /\ Silent(a, p) => \A s \in buckets[p] : s = life'[p]
    BY DEF InOrder
  <2>2. AddsTo(q, o, st, a) /\ q \in Seq(Updates) /\ ~ lossy
    BY <1>1, <1>3, <1>6, <2>1
  <2>3. /\ \A i, j \in DOMAIN q :
             NextOf(q, i, j) /\ q[i][1] \notin late => q[j][2] \in Follows(q[i][2])
        /\ \A p \in Orders \ late :
             /\ \A s, t \in buckets[p] : s = t
             /\ \A i \in DOMAIN q :
                  q[i][1] = p /\ FirstOf(q, i) => \A s \in buckets[p] : q[i][2] \in Follows(s)
             /\ Silent(q, p) => \A s \in buckets[p] : s = life[p]
    BY <2>2 DEF FeedInv, InOrder
  <2>4. \A i \in DOMAIN q : q[i][1] \in Orders
    <3>1. \A i \in DOMAIN q : q[i] \in Updates
      BY <2>2
    <3> QED
      BY <3>1 DEF Updates
  <2>5. \A p \in Orders : p \notin late' => p \notin late
    OBVIOUS
  <2>6. \A i \in DOMAIN q : LastOf(q, i) /\ q[i][1] = o /\ o \notin late' => q[i][2] = life[o]
    BY <1>3, <2>2, <2>5 DEF FeedInv, LastTold
  <2>7. ASSUME NEW i \in DOMAIN a, NEW j \in DOMAIN a, NextOf(a, i, j), a[i][1] \notin late'
        PROVE  a[j][2] \in Follows(a[i][2])
    <3>1. CASE j = n
      <4>1. i \in DOMAIN q /\ LastOf(q, i) /\ q[i][1] = o /\ a[i] = q[i] /\ a[j][2] = st
        BY <2>2, <2>7, <3>1 DEF AddsTo
      <4>2. o \notin late' /\ q[i][2] = life[o]
        BY <2>6, <2>7, <4>1
      <4>3. ~ Silent(q, o)
        BY <4>1 DEF Silent
      <4> QED
        BY <2>1, <4>1, <4>2, <4>3
    <3>2. CASE j # n
      <4>1. i # n
        BY <2>2, <2>7 DEF AddsTo
      <4>2. i \in DOMAIN q /\ j \in DOMAIN q
        BY <2>2, <2>7, <3>2, <4>1 DEF AddsTo
      <4>3. NextOf(q, i, j) /\ a[i] = q[i] /\ a[j] = q[j]
        BY <2>2, <2>7, <4>2 DEF AddsTo
      <4> QED
        BY <2>3, <2>4, <2>5, <2>7, <4>2, <4>3
    <3> QED
      BY <3>1, <3>2
  <2>8. ASSUME NEW p \in Orders \ late', NEW i \in DOMAIN a, a[i][1] = p, FirstOf(a, i),
               NEW s \in buckets[p]
        PROVE  a[i][2] \in Follows(s)
    <3>1. CASE i = n
      <4>1. p = o /\ Silent(q, o) /\ a[i][2] = st
        BY <2>2, <2>8, <3>1 DEF AddsTo
      <4>2. s = life[o]
        BY <2>3, <2>5, <2>8, <4>1
      <4> QED
        BY <2>1, <2>8, <4>1, <4>2
    <3>2. CASE i # n
      <4>1. i \in DOMAIN q /\ FirstOf(q, i) /\ a[i] = q[i]
        BY <2>2, <2>8, <3>2 DEF AddsTo
      <4> QED
        BY <2>3, <2>5, <2>8, <4>1
    <3> QED
      BY <3>1, <3>2
  <2>9. ASSUME NEW p \in Orders \ late', Silent(a, p), NEW s \in buckets[p] PROVE s = life'[p]
    <3>1. Silent(q, p) /\ p # o
      BY <2>2, <2>9 DEF AddsTo
    <3> QED
      BY <2>3, <2>5, <2>9, <3>1
  <2> QED
    BY <2>3, <2>5, <2>7, <2>8, <2>9
<1>11. FailedIsLast'
  <2> DEFINE q == inbox["index"]
             a == Append(q, <<o, st>>)
             b == inbox'["index"]
             n == Len(q) + 1
  <2>1. AddsTo(q, o, st, a) /\ q \in Seq(Updates)
    BY <1>2, <1>3
  <2>2. PICK d \in Nat : \A i \in DOMAIN b : i \in Nat /\ i + d \in DOMAIN a /\ b[i] = a[i + d]
    BY <1>1, <1>3
  <2>3. /\ \A i, j \in DOMAIN q : i < j /\ q[i] = <<q[j][1], "failed">> => q[j][2] \in FinalWords
        /\ \A i \in DOMAIN q : q[i][2] = "failed" => life[q[i][1]] = "failed"
        /\ \A p \in Orders : "failed" \in buckets[p] =>
             /\ buckets[p] \subseteq FinalWords /\ life[p] = "failed"
             /\ \A i \in DOMAIN q : q[i][1] = p => q[i][2] \in FinalWords
    BY DEF FeedInv, FailedIsLast
  <2>4. \A i \in DOMAIN q : q[i][1] \in Orders
    <3>1. \A i \in DOMAIN q : q[i] \in Updates
      BY <2>1
    <3> QED
      BY <3>1 DEF Updates
  <2> HIDE DEF a, b, q
  <2>5. ASSUME NEW i \in DOMAIN a, NEW j \in DOMAIN a, i < j, a[i] = <<a[j][1], "failed">>
        PROVE  a[j][2] \in FinalWords
    <3>1. i \in DOMAIN q /\ a[i] = q[i]
      BY <2>1, <2>5 DEF AddsTo
    <3>2. CASE j \in DOMAIN q
      <4>1. a[j] = q[j]
        BY <2>1, <3>2 DEF AddsTo
      <4> QED
        BY <2>3, <2>5, <3>1, <3>2, <4>1
    <3>3. CASE j \notin DOMAIN q
      <4>1. a[j][1] = o /\ a[j][2] = st
        BY <2>1, <2>5, <3>3 DEF AddsTo
      <4>2. life[o] = "failed"
        BY <2>3, <2>5, <3>1, <4>1
      <4> QED
        BY <4>1, <4>2
    <3> QED
      BY <3>2, <3>3
  <2>6. ASSUME NEW i \in DOMAIN a, a[i][2] = "failed" PROVE life'[a[i][1]] = "failed"
    <3>1. CASE i \in DOMAIN q
      <4>1. a[i] = q[i]
        BY <2>1, <3>1 DEF AddsTo
      <4>2. life[q[i][1]] = "failed"
        BY <2>3, <2>6, <3>1, <4>1
      <4> QED
        BY <2>4, <3>1, <4>1, <4>2
    <3>2. CASE i \notin DOMAIN q
      BY <2>1, <2>6, <3>2 DEF AddsTo
    <3> QED
      BY <3>1, <3>2
  <2>7. ASSUME NEW p \in Orders, "failed" \in buckets[p]
        PROVE  /\ buckets[p] \subseteq FinalWords /\ life'[p] = "failed"
               /\ \A i \in DOMAIN a : a[i][1] = p => a[i][2] \in FinalWords
    <3>1. buckets[p] \subseteq FinalWords /\ life[p] = "failed"
      BY <2>3, <2>7
    <3>2. life'[p] = "failed"
      BY <3>1
    <3>3. ASSUME NEW i \in DOMAIN a, a[i][1] = p PROVE a[i][2] \in FinalWords
      <4>1. CASE i \in DOMAIN q
        BY <2>1, <2>3, <2>7, <3>3, <4>1 DEF AddsTo
      <4>2. CASE i \notin DOMAIN q
        <5>1. p = o /\ a[i][2] = st
          BY <2>1, <3>3, <4>2 DEF AddsTo
        <5> QED
          BY <3>1, <5>1
      <4> QED
        BY <4>1, <4>2
    <3> QED
      BY <3>1, <3>2, <3>3
  <2>8. ASSUME NEW i \in DOMAIN b, NEW j \in DOMAIN b, i < j, b[i] = <<b[j][1], "failed">>
        PROVE  b[j][2] \in FinalWords
    <3>1. i + d \in DOMAIN a /\ j + d \in DOMAIN a /\ i + d < j + d
          /\ b[i] = a[i + d] /\ b[j] = a[j + d]
      BY <2>2, <2>8
    <3> QED
      BY <2>5, <2>8, <3>1
  <2>9. \A i \in DOMAIN b : b[i][2] = "failed" => life'[b[i][1]] = "failed"
    BY <2>2, <2>6
  <2>10. \A p \in Orders : "failed" \in buckets[p] =>
           \A i \in DOMAIN b : b[i][1] = p => b[i][2] \in FinalWords
    BY <2>2, <2>7
  <2> QED
    BY <2>7, <2>8, <2>9, <2>10 DEF FailedIsLast, b
<1> QED
  BY <1>4, <1>5, <1>7, <1>8, <1>9, <1>10, <1>11 DEF FeedInv

\* The end of order_new: a New is in time, and the first, or late.
LEMMA PublishNewKeeps == ASSUME FeedInv, NEW o \in Orders, PublishNew(o) PROVE FeedInv'
<1>1. /\ life[o] # "none" /\ o \notin heralded /\ heralded' = heralded \cup {o}
      /\ late' = IF life[o] = "created" THEN late ELSE late \cup {o}
      /\ Publish(o, "created")
      /\ UNCHANGED <<life, row, trades, candles, halfTrade, buckets, restarts>>
  BY DEF PublishNew
<1>2. life[o] = "created" => buckets[o] = {} /\ Silent(inbox["index"], o)
  BY <1>1 DEF FeedInv, Unheard, Readers
<1>3. life \in [Orders -> Statuses \cup {"none"}]
  BY DEF FeedInv, FeedTypes
<1>4. Publisher(o, "created") /\ "created" \in Statuses
  BY <1>1, <1>2, <1>3 DEF Publisher, FinalWords, Statuses
<1> QED
  BY <1>4, PublishKeeps

\* An order moves on and says so.
LEMMA AdvanceKeeps ==
    ASSUME FeedInv, NEW o \in Orders, NEW st \in Statuses, Advance(o, st)
    PROVE  FeedInv'
<1>1. /\ life[o] # "none" /\ st \in Follows(life[o]) /\ life' = [life EXCEPT ![o] = st]
      /\ Publish(o, st)
      /\ UNCHANGED <<heralded, row, trades, candles, halfTrade, buckets, late, restarts>>
  BY DEF Advance
<1>2. life \in [Orders -> Statuses \cup {"none"}]
  BY DEF FeedInv, FeedTypes
<1>3. st # "created" /\ st # "none" /\ life[o] # "failed"
  BY <1>1 DEF Follows, Statuses
<1>4. /\ life' \in [Orders -> Statuses \cup {"none"}] /\ life'[o] = st
      /\ \A p \in Orders : p # o => life'[p] = life[p]
  BY <1>1, <1>2
<1>5. Publisher(o, st)
  BY <1>1, <1>3, <1>4 DEF Publisher
<1> QED
  BY <1>5, PublishKeeps

\* An announcement that is repeated comes after a restart, which lost some.
LEMMA RepublishKeeps == ASSUME FeedInv, NEW o \in Orders, Republish(o) PROVE FeedInv'
<1>1. /\ restarts > 0 /\ life[o] \in {"processing", "confirmed", "failed"}
      /\ Publish(o, life[o])
      /\ UNCHANGED <<life, heralded, row, trades, candles, halfTrade, buckets, late, restarts>>
  BY DEF Republish
<1>2. life \in [Orders -> Statuses \cup {"none"}] /\ lossy
  BY <1>1 DEF FeedInv, FeedTypes
<1>3. life[o] \in Statuses
  BY <1>1 DEF Statuses
<1>4. lossy'
  BY <1>2, <1>1 DEF Publish
<1>5. Publisher(o, life[o])
  BY <1>1, <1>2, <1>4 DEF Publisher, FinalWords
<1> QED
  BY <1>3, <1>5, PublishKeeps

\* A new order, with its New before or after what it announces.
LEMMA AdmitKeeps == ASSUME FeedInv, NEW o \in Orders, Admit(o) PROVE FeedInv'
<1>1. /\ life[o] = "none" /\ life' = [life EXCEPT ![o] = "created"]
      /\ UNCHANGED <<heralded, inbox, row, trades, candles, halfTrade, buckets, late, lossy, restarts>>
  BY DEF Admit
<1>2. life \in [Orders -> Statuses \cup {"none"}] /\ inbox \in [Readers -> Seq(Updates)]
  BY DEF FeedInv, FeedTypes
<1>3. /\ life' \in [Orders -> Statuses \cup {"none"}] /\ life'[o] = "created"
      /\ \A p \in Orders : p # o => life'[p] = life[p]
  BY <1>1, <1>2 DEF Statuses
<1>4. buckets[o] = {} /\ \A r \in Readers : Silent(inbox[r], o)
  BY <1>1 DEF FeedInv, Unheard
<1>5. \A r \in Readers : \A i \in DOMAIN inbox[r] : inbox[r][i][1] \in Orders /\ inbox[r][i][1] # o
  <2>1. \A r \in Readers : \A i \in DOMAIN inbox[r] : inbox[r][i] \in Updates
    BY <1>2
  <2> QED
    BY <1>4, <2>1 DEF Updates, Silent
<1>6. "history" \in Readers /\ "index" \in Readers
  BY DEF Readers
<1>7. FeedTypes' /\ CandlesCountTradesOnce'
  BY <1>1, <1>3 DEF FeedInv, FeedTypes, CandlesCountTradesOnce
<1>8. LastTold'
  BY <1>1, <1>3, <1>5 DEF FeedInv, LastTold
<1>9. HistoryTold'
  BY <1>1, <1>3, <1>4, <1>6 DEF FeedInv, HistoryTold
<1>10. Unheard'
  BY <1>1, <1>3, <1>4 DEF FeedInv, Unheard
<1>11. InOrder'
  BY <1>1, <1>3, <1>4 DEF FeedInv, InOrder
<1>12. FailedIsLast'
  BY <1>1, <1>3, <1>4, <1>5, <1>6 DEF FeedInv, FailedIsLast
<1> QED
  BY <1>7, <1>8, <1>9, <1>10, <1>11, <1>12 DEF FeedInv

\* What a reader that takes the first update leaves of the channels.
Takes(r) ==
  /\ inbox[r] # <<>> /\ inbox' = [inbox EXCEPT ![r] = Tail(@)]
  /\ UNCHANGED <<life, heralded, late, lossy, restarts>>

\* Reading an update from a channel.
LEMMA TakeKeeps ==
    ASSUME FeedInv, NEW r \in Readers, Takes(r)
    PROVE  /\ inbox' \in [Readers -> Seq(Updates)]
           /\ \A x \in Readers : Len(inbox'[x]) <= FeedCapacity
           /\ TailOf(inbox[r], inbox'[r]) /\ \A x \in Readers : x # r => inbox'[x] = inbox[x]
           /\ LastTold' /\ \A x \in Readers : \A p : Silent(inbox[x], p) => Silent(inbox'[x], p)
<1>1. inbox \in [Readers -> Seq(Updates)] /\ \A x \in Readers : Len(inbox[x]) <= FeedCapacity
  BY DEF FeedInv, FeedTypes
<1>2. /\ inbox'[r] = Tail(inbox[r]) /\ inbox[r] # <<>>
      /\ \A x \in Readers : x # r => inbox'[x] = inbox[x]
  BY <1>1 DEF Takes
<1>3. TailOf(inbox[r], inbox'[r])
  <2> DEFINE q == inbox[r]
             t == inbox'[r]
  <2>1. q \in Seq(Updates) /\ q # <<>> /\ t = Tail(q)
    BY <1>1, <1>2
  <2> HIDE DEF q, t
  <2>2. TailOf(q, t)
    BY <2>1, Taken
  <2> QED
    BY <2>2 DEF q, t
<1>4. inbox' \in [Readers -> Seq(Updates)]
  BY <1>1, <1>3 DEF Takes, TailOf
<1>5. Len(inbox'[r]) <= FeedCapacity
  <2>1. Len(inbox'[r]) = Len(inbox[r]) - 1 /\ Len(inbox[r]) \in Nat
    BY <1>1, <1>2
  <2> QED
    BY <1>1, <2>1, FeedAssumption
<1>6. \A x \in Readers : \A p : Silent(inbox[x], p) => Silent(inbox'[x], p)
  BY <1>2, <1>3 DEF TailOf
<1>7. LastTold'
  <2>1. SUFFICES ASSUME ~ lossy, NEW x \in Readers, NEW i \in DOMAIN inbox'[x], LastOf(inbox'[x], i)
                 PROVE  \/ inbox'[x][i][2] = life[inbox'[x][i][1]]
                        \/ inbox'[x][i][2] = "created" /\ inbox'[x][i][1] \in late
    BY DEF LastTold, Takes
  <2>2. \E j \in DOMAIN inbox[x] : inbox'[x][i] = inbox[x][j] /\ LastOf(inbox[x], j)
    <3>1. CASE x = r
      BY <1>3, <2>1, <3>1 DEF TailOf
    <3>2. CASE x # r
      BY <1>2, <2>1, <3>2
    <3> QED
      BY <3>1, <3>2
  <2> QED
    BY <2>1, <2>2 DEF FeedInv, LastTold
<1> QED
  BY <1>1, <1>2, <1>3, <1>4, <1>5, <1>6, <1>7

\* The history worker writes the row, and the trade of an execution.
LEMMA HistoryStepKeeps == ASSUME FeedInv, HistoryStep PROVE FeedInv'
<1> DEFINE q == inbox["history"]
           t == inbox'["history"]
           o == Head(q)[1]
           st == Head(q)[2]
<1>1. /\ q # <<>> /\ halfTrade = NoOrder /\ row' = [row EXCEPT ![o] = st]
      /\ IF st = "confirmed" THEN RecordTrade(o) ELSE UNCHANGED <<trades, halfTrade>>
      /\ UNCHANGED <<candles, buckets>> /\ Takes("history")
  BY DEF HistoryStep, PersistOrderUpdate, IsPublicTrade, Takes
<1>2. /\ "history" \in Readers /\ "index" \in Readers /\ "index" # "history"
      /\ UNCHANGED <<life, heralded, late, lossy, restarts>>
  BY <1>1 DEF Readers, Takes
<1>3. /\ inbox' \in [Readers -> Seq(Updates)]
      /\ \A x \in Readers : Len(inbox'[x]) <= FeedCapacity
      /\ TailOf(q, t) /\ inbox'["index"] = inbox["index"]
      /\ LastTold' /\ \A x \in Readers : \A p : Silent(inbox[x], p) => Silent(inbox'[x], p)
  BY <1>1, <1>2, TakeKeeps
<1>4. o = q[1][1] /\ st = q[1][2] /\ o \in Orders /\ st \in Statuses /\ 1 \in DOMAIN q
  BY <1>3 DEF TailOf
<1> HIDE DEF q, t, o, st
<1>5. /\ row' \in [Orders -> Statuses \cup {"none"}] /\ row'[o] = st
      /\ \A p \in Orders : p # o => row'[p] = row[p]
  BY <1>1, <1>4 DEF FeedInv, FeedTypes
<1>6. /\ IsFiniteSet(trades') /\ halfTrade' \in Orders \cup {NoOrder}
      /\ CandlesCountTradesOnce'
  <2>1. /\ IsFiniteSet(trades) /\ Cardinality(trades) \in Nat /\ candles \in Nat
        /\ candles <= Cardinality(trades)
    BY <1>1, FS_CardinalityType DEF FeedInv, FeedTypes, CandlesCountTradesOnce
  <2>2. CASE UNCHANGED <<trades, halfTrade>>
    BY <1>1, <2>1, <2>2 DEF CandlesCountTradesOnce
  <2>3. CASE RecordTrade(o) /\ o \in trades
    <3>1. trades' = trades /\ halfTrade' = NoOrder
      BY <2>3 DEF RecordTrade
    <3> QED
      BY <1>1, <2>1, <3>1 DEF CandlesCountTradesOnce
  <2>4. CASE RecordTrade(o) /\ o \notin trades
    <3>1. trades' = trades \cup {o} /\ halfTrade' = o /\ o # NoOrder
      BY <1>4, <2>4, FeedAssumption DEF RecordTrade
    <3>2. IsFiniteSet(trades') /\ Cardinality(trades') = Cardinality(trades) + 1
      BY <2>1, <2>4, <3>1, FS_AddElement
    <3>3. candles' + 1 <= Cardinality(trades')
      BY <1>1, <2>1, <3>2
    <3> QED
      BY <1>4, <3>1, <3>2, <3>3 DEF CandlesCountTradesOnce
  <2> QED
    BY <1>1, <2>2, <2>3, <2>4
<1>7. FeedTypes'
  BY <1>1, <1>2, <1>3, <1>5, <1>6 DEF FeedInv, FeedTypes
<1>8. HistoryTold'
  <2>1. SUFFICES ASSUME ~ lossy, NEW p \in Orders, Silent(t, p)
                 PROVE  \/ row'[p] = life[p]
                        \/ row'[p] = "created" /\ p \in late
                        \/ row'[p] = "none" /\ life[p] = "created"
    BY <1>2 DEF HistoryTold, t
  <2>2. CASE p = o
    <3>1. LastOf(q, 1)
      BY <1>3, <1>4, <2>1, <2>2 DEF TailOf
    <3>2. q[1][2] = life[q[1][1]] \/ (q[1][2] = "created" /\ q[1][1] \in late)
      BY <1>2, <1>4, <2>1, <3>1 DEF FeedInv, LastTold, q
    <3> QED
      BY <1>4, <1>5, <2>2, <3>2
  <2>3. CASE p # o
    <3>1. Silent(q, p)
      BY <1>3, <1>4, <2>1, <2>3 DEF TailOf
    <3> QED
      BY <1>5, <2>1, <2>3, <3>1 DEF FeedInv, HistoryTold, q
  <2> QED
    BY <2>2, <2>3
<1>9. Unheard'
  BY <1>1, <1>2, <1>3 DEF FeedInv, Unheard
<1>10. InOrder' /\ FailedIsLast'
  BY <1>1, <1>2, <1>3 DEF FeedInv, InOrder, FailedIsLast
<1> QED
  BY <1>3, <1>6, <1>7, <1>8, <1>9, <1>10 DEF FeedInv

\* An update leaves its predecessor's map, "failed" every map.
LEMMA LeavesPredecessor ==
    /\ \A s, st \in Statuses : st \in Follows(s) => s \in Leaves(st)
    /\ Leaves("failed") = Statuses
<1>1. ASSUME NEW s \in Statuses, NEW st \in Follows(s) PROVE s \in Leaves(st)
  <2>1. \/ s = "created" /\ st = "processing"
        \/ s = "processing" /\ st \in {"processed", "failed"}
        \/ s = "processed" /\ st \in {"submitted", "failed"}
        \/ s = "submitted" /\ st \in {"confirmed", "failed"}
    BY <1>1 DEF Follows, Statuses
  <2> QED
    BY <2>1 DEF Leaves, Statuses
<1> QED
  BY <1>1 DEF Leaves

\* The broker moves the order between its buckets.
LEMMA ApplyUpdateKeeps == ASSUME FeedInv, ApplyOrderUpdate PROVE FeedInv'
<1> DEFINE q == inbox["index"]
           t == inbox'["index"]
           o == Head(q)[1]
           st == Head(q)[2]
<1>1. /\ q # <<>> /\ buckets' = [buckets EXCEPT ![o] = (@ \ Leaves(st)) \cup {st}]
      /\ UNCHANGED <<row, trades, candles, halfTrade>> /\ Takes("index")
  BY DEF ApplyOrderUpdate, Takes
<1>2. /\ "history" \in Readers /\ "index" \in Readers /\ "index" # "history"
      /\ UNCHANGED <<life, heralded, late, lossy, restarts>>
  BY <1>1 DEF Readers, Takes
<1>3. /\ inbox' \in [Readers -> Seq(Updates)]
      /\ \A x \in Readers : Len(inbox'[x]) <= FeedCapacity
      /\ TailOf(q, t) /\ inbox'["history"] = inbox["history"]
      /\ LastTold' /\ \A x \in Readers : \A p : Silent(inbox[x], p) => Silent(inbox'[x], p)
  BY <1>1, <1>2, TakeKeeps
<1>4. o = q[1][1] /\ st = q[1][2] /\ o \in Orders /\ st \in Statuses /\ 1 \in DOMAIN q
  BY <1>3 DEF TailOf
<1> HIDE DEF q, t, o, st
<1>5. /\ buckets' \in [Orders -> SUBSET Statuses]
      /\ buckets'[o] = (buckets[o] \ Leaves(st)) \cup {st}
      /\ buckets[o] \subseteq Statuses
      /\ \A p \in Orders : p # o => buckets'[p] = buckets[p]
  BY <1>1, <1>4 DEF FeedInv, FeedTypes
<1>6. FeedTypes' /\ CandlesCountTradesOnce' /\ HistoryTold'
  BY <1>1, <1>2, <1>3, <1>5 DEF FeedInv, FeedTypes, CandlesCountTradesOnce, HistoryTold
<1>7. Unheard'
  <2>1. ASSUME NEW p \in Orders, life[p] = "none" \/ (life[p] = "created" /\ p \notin heralded)
        PROVE  buckets'[p] = {} /\ \A r \in Readers : Silent(inbox'[r], p)
    <3>1. buckets[p] = {} /\ \A r \in Readers : Silent(inbox[r], p)
      BY <2>1 DEF FeedInv, Unheard
    <3>2. p # o
      BY <1>2, <1>4, <3>1 DEF Silent, q
    <3> QED
      BY <1>3, <1>5, <3>1, <3>2
  <2> QED
    BY <1>2, <2>1 DEF Unheard
<1>8. InOrder'
  <2>1. SUFFICES ASSUME ~ lossy
        PROVE
          /\ \A i, j \in DOMAIN t :
               NextOf(t, i, j) /\ t[i][1] \notin late => t[j][2] \in Follows(t[i][2])
          /\ \A p \in Orders \ late :
               /\ \A s, u \in buckets'[p] : s = u
               /\ \A i \in DOMAIN t :
                    t[i][1] = p /\ FirstOf(t, i) => \A s \in buckets'[p] : t[i][2] \in Follows(s)
               /\ Silent(t, p) => \A s \in buckets'[p] : s = life[p]
    BY <1>2 DEF InOrder, t
  <2>2. /\ \A i, j \in DOMAIN q :
             NextOf(q, i, j) /\ q[i][1] \notin late => q[j][2] \in Follows(q[i][2])
        /\ \A p \in Orders \ late :
             /\ \A s, u \in buckets[p] : s = u
             /\ \A i \in DOMAIN q :
                  q[i][1] = p /\ FirstOf(q, i) => \A s \in buckets[p] : q[i][2] \in Follows(s)
             /\ Silent(q, p) => \A s \in buckets[p] : s = life[p]
    BY <2>1 DEF FeedInv, InOrder, q
  <2>3. ASSUME NEW i \in DOMAIN t, NEW j \in DOMAIN t, NextOf(t, i, j), t[i][1] \notin late
        PROVE  t[j][2] \in Follows(t[i][2])
    <3>1. /\ i + 1 \in DOMAIN q /\ j + 1 \in DOMAIN q /\ NextOf(q, i + 1, j + 1)
          /\ t[i] = q[i + 1] /\ t[j] = q[j + 1]
      BY <1>3, <2>3 DEF TailOf
    <3> QED
      BY <2>2, <2>3, <3>1
  <2>4. ASSUME o \notin late PROVE buckets'[o] = {st}
    <3>1. FirstOf(q, 1)
      BY <1>3 DEF TailOf
    <3>2. \A s \in buckets[o] : st \in Follows(s)
      BY <1>4, <2>2, <2>4, <3>1
    <3>3. \A s \in buckets[o] : s \in Leaves(st)
      BY <1>4, <1>5, <3>2, LeavesPredecessor
    <3> QED
      BY <1>5, <3>3
  <2>5. ASSUME NEW p \in Orders \ late
        PROVE  /\ \A s, u \in buckets'[p] : s = u
               /\ \A i \in DOMAIN t :
                    t[i][1] = p /\ FirstOf(t, i) => \A s \in buckets'[p] : t[i][2] \in Follows(s)
               /\ Silent(t, p) => \A s \in buckets'[p] : s = life[p]
    <3>1. CASE p = o
      <4>1. buckets'[p] = {st}
        BY <2>4, <2>5, <3>1
      <4>2. ASSUME NEW i \in DOMAIN t, t[i][1] = p, FirstOf(t, i) PROVE t[i][2] \in Follows(st)
        <5>1. NextOf(q, 1, i + 1) /\ i + 1 \in DOMAIN q /\ t[i] = q[i + 1]
          BY <1>3, <1>4, <3>1, <4>2 DEF TailOf
        <5> QED
          BY <1>4, <2>2, <2>5, <3>1, <5>1
      <4>3. Silent(t, p) => st = life[p]
        <5>1. SUFFICES ASSUME Silent(t, p) PROVE st = life[p]
          OBVIOUS
        <5>2. LastOf(q, 1)
          BY <1>3, <1>4, <3>1, <5>1 DEF TailOf
        <5>3. q[1][2] = life[q[1][1]] \/ (q[1][2] = "created" /\ q[1][1] \in late)
          BY <1>2, <1>4, <2>1, <5>2 DEF FeedInv, LastTold, q
        <5> QED
          BY <1>4, <2>5, <3>1, <5>3
      <4> QED
        BY <4>1, <4>2, <4>3
    <3>2. CASE p # o
      <4>1. buckets'[p] = buckets[p]
        BY <1>5, <2>5, <3>2
      <4>2. \A i \in DOMAIN t : t[i][1] = p /\ FirstOf(t, i) =>
              i + 1 \in DOMAIN q /\ t[i] = q[i + 1] /\ FirstOf(q, i + 1)
        BY <1>3, <1>4, <3>2 DEF TailOf
      <4>3. Silent(t, p) => Silent(q, p)
        BY <1>3, <1>4, <3>2 DEF TailOf
      <4> QED
        BY <2>2, <2>5, <4>1, <4>2, <4>3
    <3> QED
      BY <3>1, <3>2
  <2> QED
    BY <2>3, <2>5
<1>9. FailedIsLast'
  <2>1. /\ \A i, j \in DOMAIN q : i < j /\ q[i] = <<q[j][1], "failed">> => q[j][2] \in FinalWords
        /\ \A i \in DOMAIN q : q[i][2] = "failed" => life[q[i][1]] = "failed"
        /\ \A p \in Orders : "failed" \in buckets[p] =>
             /\ buckets[p] \subseteq FinalWords /\ life[p] = "failed"
             /\ \A i \in DOMAIN q : q[i][1] = p => q[i][2] \in FinalWords
    BY DEF FeedInv, FailedIsLast, q
  <2>2. \A i \in DOMAIN t : i \in Nat /\ i + 1 \in DOMAIN q /\ t[i] = q[i + 1] /\ 1 < i + 1
    BY <1>3 DEF TailOf
  <2>3. \A i, j \in DOMAIN t : i < j /\ t[i] = <<t[j][1], "failed">> => t[j][2] \in FinalWords
    <3>1. ASSUME NEW i \in DOMAIN t, NEW j \in DOMAIN t, i < j, t[i] = <<t[j][1], "failed">>
          PROVE  t[j][2] \in FinalWords
      <4>1. i + 1 < j + 1 /\ q[i + 1] = <<q[j + 1][1], "failed">> /\ t[j] = q[j + 1]
        BY <2>2, <3>1
      <4> QED
        BY <2>1, <2>2, <4>1
    <3> QED
      BY <3>1
  <2>4. \A i \in DOMAIN t : t[i][2] = "failed" => life[t[i][1]] = "failed"
    BY <2>1, <2>2
  <2>5. ASSUME NEW p \in Orders, "failed" \in buckets'[p]
        PROVE  /\ buckets'[p] \subseteq FinalWords /\ life[p] = "failed"
               /\ \A i \in DOMAIN t : t[i][1] = p => t[i][2] \in FinalWords
    <3>1. CASE "failed" \in buckets[p]
      <4>1. buckets[p] \subseteq FinalWords /\ life[p] = "failed"
            /\ \A i \in DOMAIN q : q[i][1] = p => q[i][2] \in FinalWords
        BY <2>1, <3>1
      <4>2. p = o => st \in FinalWords
        BY <1>4, <4>1
      <4>3. buckets'[p] \subseteq FinalWords
        BY <1>5, <4>1, <4>2
      <4> QED
        BY <2>2, <4>1, <4>3
    <3>2. CASE "failed" \notin buckets[p]
      <4>1. p = o /\ st = "failed"
        BY <1>5, <2>5, <3>2
      <4>2. buckets'[p] = {"failed"}
        BY <1>5, <4>1, LeavesPredecessor
      <4>3. life[p] = "failed"
        BY <1>4, <2>1, <4>1
      <4>4. q[1] = <<p, "failed">>
        <5>1. q[1] \in Updates
          BY <1>2, <1>4 DEF FeedInv, FeedTypes, q
        <5>2. PICK x \in Orders, y \in Statuses : q[1] = <<x, y>>
          BY <5>1 DEF Updates
        <5>3. q[1][1] = x /\ q[1][2] = y
          BY <5>2
        <5>4. x = p /\ y = "failed"
          BY <1>4, <4>1, <5>3
        <5> QED
          BY <5>2, <5>4
      <4>5. \A i \in DOMAIN t : t[i][1] = p => t[i][2] \in FinalWords
        BY <1>4, <2>1, <2>2, <4>4
      <4> QED
        BY <4>2, <4>3, <4>5 DEF FinalWords
    <3> QED
      BY <3>1, <3>2
  <2> QED
    BY <1>2, <2>3, <2>4, <2>5 DEF FailedIsLast, t
<1> QED
  BY <1>3, <1>6, <1>7, <1>8, <1>9 DEF FeedInv

\* The second half of a trade: its candles.
LEMMA CandlesKeep == ASSUME FeedInv, UpsertCandles PROVE FeedInv'
<1>1. /\ halfTrade # NoOrder /\ candles' = candles + 1 /\ halfTrade' = NoOrder
      /\ UNCHANGED <<life, heralded, inbox, row, trades, buckets, late, lossy, restarts>>
  BY DEF UpsertCandles
<1>2. FeedTypes' /\ CandlesCountTradesOnce'
  BY <1>1 DEF FeedInv, FeedTypes, CandlesCountTradesOnce
<1>3. LastTold' /\ HistoryTold' /\ Unheard' /\ InOrder' /\ FailedIsLast'
  BY <1>1 DEF FeedInv, LastTold, HistoryTold, Unheard, InOrder, FailedIsLast
<1> QED
  BY <1>2, <1>3 DEF FeedInv

\* A restart empties the channels and the index; the history stays.
LEMMA RestartKeeps == ASSUME FeedInv, Restart PROVE FeedInv'
<1>1. /\ restarts' = 1 /\ inbox' = [r \in Readers |-> <<>>] /\ buckets' = [o \in Orders |-> {}]
      /\ halfTrade' = NoOrder /\ lossy' = TRUE
      /\ UNCHANGED <<life, heralded, row, trades, candles, late>>
  BY DEF Restart
<1>2. FeedTypes'
  BY <1>1, FeedAssumption DEF FeedInv, FeedTypes
<1>3. CandlesCountTradesOnce'
  <2>1. Cardinality(trades) \in Nat /\ candles \in Nat
    BY FS_CardinalityType DEF FeedInv, FeedTypes
  <2> QED
    BY <1>1, <2>1 DEF FeedInv, CandlesCountTradesOnce
<1>4. LastTold' /\ HistoryTold' /\ InOrder'
  BY <1>1 DEF LastTold, HistoryTold, InOrder
<1>5. Unheard' /\ FailedIsLast'
  BY <1>1 DEF Unheard, FailedIsLast, Silent, Readers
<1> QED
  BY <1>2, <1>3, <1>4, <1>5 DEF FeedInv

\* Every step keeps the invariant.
LEMMA FeedStep == FeedInv /\ [FeedNext]_feedVars => FeedInv'
<1> SUFFICES ASSUME FeedInv, [FeedNext]_feedVars PROVE FeedInv'
  OBVIOUS
<1>1. CASE UNCHANGED feedVars
  BY <1>1 DEF feedVars, FeedInv, FeedTypes, CandlesCountTradesOnce, LastTold, HistoryTold,
     Unheard, InOrder, FailedIsLast
<1> QED
  BY <1>1, AdmitKeeps, PublishNewKeeps, RepublishKeeps, AdvanceKeeps, HistoryStepKeeps,
     CandlesKeep, ApplyUpdateKeeps, RestartKeeps DEF FeedNext

\* An empty history satisfies it.
LEMMA FeedStart == FeedInit => FeedInv
<1> SUFFICES ASSUME FeedInit PROVE FeedInv
  OBVIOUS
<1> USE DEF FeedInit
<1>1. FeedTypes
  <2>1. inbox \in [Readers -> Seq(Updates)] /\ \A r \in Readers : Len(inbox[r]) <= FeedCapacity
    BY FeedAssumption
  <2>2. IsFiniteSet(trades) /\ candles \in Nat /\ halfTrade = NoOrder /\ restarts = 0 /\ ~ lossy
    BY FS_EmptySet
  <2>3. /\ life \in [Orders -> Statuses \cup {"none"}] /\ row \in [Orders -> Statuses \cup {"none"}]
        /\ buckets \in [Orders -> SUBSET Statuses] /\ lossy \in BOOLEAN
    OBVIOUS
  <2> QED
    BY <2>1, <2>2, <2>3 DEF FeedTypes
<1>2. CandlesCountTradesOnce
  BY FS_EmptySet DEF CandlesCountTradesOnce
<1>3. LastTold /\ HistoryTold /\ Unheard /\ InOrder /\ FailedIsLast
  BY DEF LastTold, HistoryTold, Unheard, InOrder, FailedIsLast, Silent, Readers
<1> QED
  BY <1>1, <1>2, <1>3 DEF FeedInv

\* The invariant says of an empty channel and of the index what their readers rely on.
LEMMA ReadersFromInv == FeedInv => ReadersCurrent
<1> SUFFICES ASSUME FeedInv PROVE HistoryCurrent /\ IndexUnambiguous
  BY DEF ReadersCurrent
<1>1. HistoryCurrent
  BY DEF HistoryCurrent, FeedInv, HistoryTold, Silent
<1>2. ASSUME NEW o \in Orders, ~ lossy, o \notin late PROVE Cardinality(buckets[o]) <= 1
  <2>1. \A s, u \in buckets[o] : s = u
    BY <1>2 DEF FeedInv, InOrder
  <2>2. buckets[o] = {} \/ \E s : buckets[o] = {s}
    BY <2>1
  <2>3. CASE buckets[o] = {}
    BY <2>3, FS_EmptySet
  <2>4. ASSUME NEW s, buckets[o] = {s} PROVE Cardinality(buckets[o]) = 1
    BY <2>4, FS_Singleton
  <2> QED
    BY <2>2, <2>3, <2>4
<1>3. IndexUnambiguous
  BY <1>2 DEF IndexUnambiguous, FeedInv, FailedIsLast, FinalWords
<1> QED
  BY <1>1, <1>3

\* The candles never count a trade twice, whatever outcomes a restart announces
\* again (record_trade, upsert_candles).
THEOREM CandlesExact == FeedSpec => []CandlesCountTradesOnce
<1>1. FeedInv => CandlesCountTradesOnce
  BY DEF FeedInv
<1> QED
  BY <1>1, FeedStart, FeedStep, PTL DEF FeedSpec

\* The history's row and the executor's index show each order's state but for a New
\* that came late, for any number of orders and any capacity (run_history, Orders).
THEOREM ReadersShowState == FeedSpec => []ReadersCurrent
  BY FeedStart, FeedStep, ReadersFromInv, PTL DEF FeedSpec

\* The sets of orders, and the one restart.
FeedSets ==
  /\ heralded \subseteq Orders /\ late \subseteq Orders /\ trades \subseteq Orders
  /\ restarts \in 0..1

\* Only known orders are announced or traded.
LEMMA FeedSetsStep == FeedInv /\ FeedSets /\ [FeedNext]_feedVars => FeedSets'
<1> SUFFICES ASSUME FeedInv, FeedSets, [FeedNext]_feedVars PROVE FeedSets'
  OBVIOUS
<1>1. CASE HistoryStep
  <2>1. inbox["history"] \in Seq(Updates) /\ inbox["history"] # <<>>
    BY <1>1 DEF FeedInv, FeedTypes, HistoryStep, Readers
  <2>2. Head(inbox["history"]) \in Updates
    BY <2>1
  <2>3. Head(inbox["history"])[1] \in Orders
    BY <2>2 DEF Updates
  <2> QED
    BY <1>1, <2>3 DEF HistoryStep, RecordTrade, FeedSets
<1>2. CASE Restart
  BY <1>2 DEF Restart, FeedSets
<1> QED
  BY <1>1, <1>2 DEF FeedNext, Admit, PublishNew, Republish, Advance, UpsertCandles,
     ApplyOrderUpdate, FeedSets, feedVars

\* The rows, the maps of the index and the channels within their capacity
\* (OrderUpdates, Orders, the tables of history.rs).
THEOREM FeedTypeCorrect == FeedSpec => []FeedTypeOK
<1>1. FeedInit => FeedSets
  BY DEF FeedInit, FeedSets
<1>2. FeedInv /\ FeedSets => FeedTypeOK
  BY DEF FeedInv, FeedTypes, FeedSets, FeedTypeOK, Updates
<1> QED
  BY <1>1, <1>2, FeedStart, FeedStep, FeedSetsStep, PTL DEF FeedSpec

--------------------------------------------------------------------------------
(***************************************************************************)
(* Fees.  Every fee on its way to the engine names a batch and ends no     *)
(* later than that batch may; batches are only added, and one that is      *)
(* changed keeps its issued_at.                                            *)
(***************************************************************************)
Batches == [source : {"automatic", "manual"}, issued : Nat, until : Int,
            status : {"active", "superseded", "expired", "cleared"}]
FeeStates == [version : Nat, until : Int]

Ends(v) == batches[v].issued + Validity
HonestFee(f) == f.version # 0 => f.version \in DOMAIN batches /\ f.until <= Ends(f.version)

FeeTypes ==
  /\ now \in Int /\ batches \in Seq(Batches)
  /\ calls \in [Callers -> [does : {"rest", "read", "announce"}, fee : FeeStates]]
  /\ feeNews \in Seq(FeeStates) /\ inForce \in FeeStates

FeesHonest ==
  /\ \A v \in DOMAIN batches : batches[v].until <= Ends(v)
  /\ \A c \in Callers : HonestFee(calls[c].fee)
  /\ \A i \in DOMAIN feeNews : HonestFee(feeNews[i])
  /\ HonestFee(inForce)

FeeInv == FeeTypes /\ FeesHonest

\* The batches that were there are there, issued when they were.
Grown ==
  /\ batches' \in Seq(Batches) /\ DOMAIN batches \subseteq DOMAIN batches'
  /\ \A v \in DOMAIN batches : batches'[v].issued = batches[v].issued
  /\ \A v \in DOMAIN batches' : batches'[v].until <= batches'[v].issued + Validity

\* A fee outlives the growth of the batches.
LEMMA GrownKeepsFees ==
    ASSUME Grown, NEW f, HonestFee(f)
    PROVE  f.version # 0 =>
             f.version \in DOMAIN batches' /\ f.until <= batches'[f.version].issued + Validity
  BY DEF Grown, HonestFee, Ends

\* A step that only adds to the batches, or changes what is not their issued_at.
LEMMA BatchStep ==
    ASSUME FeeInv, Grown, now' \in Int, UNCHANGED <<feeNews, inForce>>,
           calls' \in [Callers -> [does : {"rest", "read", "announce"}, fee : FeeStates]],
           \A c \in Callers : calls'[c].fee = calls[c].fee \/ calls'[c].fee = NoFee
    PROVE  FeeInv'
<1>1. FeeTypes'
  BY DEF FeeInv, FeeTypes, Grown
<1>2. \A f : HonestFee(f) =>
        (f.version # 0 =>
           f.version \in DOMAIN batches' /\ f.until <= batches'[f.version].issued + Validity)
  BY GrownKeepsFees
<1>3. \A c \in Callers : HonestFee(calls[c].fee)
  BY DEF FeeInv, FeesHonest
<1>4. HonestFee(NoFee)
  BY DEF HonestFee, NoFee
<1>5. \A c \in Callers : HonestFee(calls'[c].fee)
  BY <1>3, <1>4
<1>6. FeesHonest'
  <2>1. \A v \in DOMAIN batches' : batches'[v].until <= batches'[v].issued + Validity
    BY DEF Grown
  <2>2. \A i \in DOMAIN feeNews : HonestFee(feeNews[i])
    BY DEF FeeInv, FeesHonest
  <2>3. HonestFee(inForce)
    BY DEF FeeInv, FeesHonest
  <2> QED
    BY <1>2, <1>5, <2>1, <2>2, <2>3 DEF FeesHonest, HonestFee, Ends
<1> QED
  BY <1>1, <1>6 DEF FeeInv

\* What the store answers.
LEMMA ActiveHonest == FeeInv => ActiveFee \in FeeStates /\ HonestFee(ActiveFee)
<1> SUFFICES ASSUME FeeInv PROVE ActiveFee \in FeeStates /\ HonestFee(ActiveFee)
  OBVIOUS
<1>1. NoFee \in FeeStates /\ HonestFee(NoFee)
  BY DEF NoFee, FeeStates, HonestFee
<1>2. CASE Active \ Lapsed # {}
  <2> DEFINE v == CHOOSE v \in Active \ Lapsed : TRUE
  <2>1. v \in DOMAIN batches
    BY <1>2 DEF Active
  <2>2. ActiveFee = [version |-> v, until |-> batches[v].until]
    BY <1>2 DEF ActiveFee
  <2> HIDE DEF v
  <2>3. v \in Nat /\ batches[v] \in Batches
    BY <2>1 DEF FeeInv, FeeTypes
  <2>4. batches[v].until <= Ends(v)
    BY <2>1 DEF FeeInv, FeesHonest
  <2> QED
    BY <2>1, <2>2, <2>3, <2>4 DEF FeeStates, HonestFee, Batches
<1> QED
  BY <1>1, <1>2 DEF ActiveFee

\* The batches as the steps below need them.
LEMMA BatchTypes ==
    ASSUME FeeInv
    PROVE  /\ DOMAIN batches = 1..Len(batches) /\ Len(batches) \in Nat
           /\ \A v \in DOMAIN batches : batches[v] \in Batches /\ batches[v].until <= Ends(v)
  BY DEF FeeInv, FeeTypes, FeesHonest

\* A batch with another status.
LEMMA Restated ==
    ASSUME NEW b \in Batches, NEW s \in {"active", "superseded", "expired", "cleared"}
    PROVE  /\ [b EXCEPT !.status = s] \in Batches
           /\ [b EXCEPT !.status = s].issued = b.issued
           /\ [b EXCEPT !.status = s].until = b.until
  BY DEF Batches

\* A batch that ends earlier.
LEMMA Cleared ==
    ASSUME NEW b \in Batches, NEW u \in Int
    PROVE  LET e == [b EXCEPT !.status = "cleared", !.until = u]
           IN  e \in Batches /\ e.issued = b.issued /\ e.until = u
  BY DEF Batches

\* store_batch adds a batch and restates the others.
LEMMA StoreStep ==
    ASSUME FeeInv, NEW b \in Batches, b.until <= b.issued + Validity, batches' = Stored(b)
    PROVE  Grown
<1> DEFINE F == [v \in DOMAIN batches |->
                   CASE v \in Lapsed -> [batches[v] EXCEPT !.status = "expired"]
                     [] v \in Active \ Lapsed -> [batches[v] EXCEPT !.status = "superseded"]
                     [] OTHER -> batches[v]]
           n == Len(batches)
<1>1. DOMAIN batches = 1..n /\ n \in Nat
      /\ \A v \in DOMAIN batches : batches[v] \in Batches /\ batches[v].until <= Ends(v)
  BY BatchTypes
<1>2. \A v \in 1..n : /\ F[v] \in Batches /\ F[v].issued = batches[v].issued
                      /\ F[v].until = batches[v].until
  BY <1>1, Restated
<1>3. batches' = Append(F, b)
  BY DEF Stored
<1>4. DOMAIN F = 1..n
  BY <1>1
<1> HIDE DEF F, n
<1>5. F \in Seq(Batches) /\ Len(F) = n
  <2>1. F \in [1..n -> Batches]
    <3>1. F = [v \in 1..n |-> F[v]]
      BY <1>4 DEF F
    <3> QED
      BY <1>2, <3>1
  <2> QED
    BY <1>1, <2>1
<1>6. /\ batches' \in Seq(Batches) /\ DOMAIN batches' = 1..(n + 1)
      /\ \A v \in 1..n : batches'[v] = F[v]
      /\ batches'[n + 1] = b
  BY <1>1, <1>3, <1>5
<1>7. \A v \in 1..n : batches'[v].until <= batches'[v].issued + Validity
  BY <1>1, <1>2, <1>6 DEF Ends
<1>8. ASSUME NEW v \in 1..(n + 1) PROVE v \in 1..n \/ v = n + 1
  BY <1>1
<1> QED
  BY <1>1, <1>2, <1>6, <1>7, <1>8 DEF Grown

\* The same batches, some of them changed.
LEMMA ChangeStep ==
    ASSUME FeeInv, DOMAIN batches' = DOMAIN batches,
           batches' = [v \in DOMAIN batches |-> batches'[v]],
           \A v \in DOMAIN batches : /\ batches'[v] \in Batches
                                     /\ batches'[v].issued = batches[v].issued
                                     /\ batches'[v].until <= batches[v].until
    PROVE  Grown
<1>1. /\ DOMAIN batches = 1..Len(batches) /\ Len(batches) \in Nat
      /\ \A v \in DOMAIN batches : batches[v] \in Batches /\ batches[v].until <= Ends(v)
  BY BatchTypes
<1>2. batches' \in Seq(Batches)
  <2>1. batches' \in [1..Len(batches) -> Batches]
    BY <1>1
  <2> QED
    BY <1>1, <2>1
<1>3. \A v \in DOMAIN batches :
        /\ batches'[v].until \in Int /\ batches[v].until \in Int /\ batches[v].issued \in Nat
        /\ batches[v].until <= batches[v].issued + Validity
  BY <1>1 DEF Batches, Ends
<1>4. Validity \in Nat
  BY FeesAssumption
<1> QED
  BY <1>2, <1>3, <1>4 DEF Grown

\* A caller goes on to its next step.
LEMMA CallStep ==
    ASSUME FeeInv, NEW c \in Callers, NEW d \in {"rest", "read", "announce"},
           calls' = [calls EXCEPT ![c].does = d]
    PROVE  /\ calls' \in [Callers -> [does : {"rest", "read", "announce"}, fee : FeeStates]]
           /\ \A e \in Callers : calls'[e].fee = calls[e].fee
  BY DEF FeeInv, FeeTypes

\* A caller applies a batch.
LEMMA ApplyBatchKeeps ==
    ASSUME FeeInv, NEW c \in Callers, NEW src \in {"automatic", "manual"}, NEW issued \in Nat,
           ApplyBatch(c, Batch(src, issued)), UNCHANGED <<now, feeNews, newsLost, inForce>>
    PROVE  FeeInv'
<1> DEFINE b == Batch(src, issued)
<1>1. b \in Batches /\ b.until <= b.issued + Validity
  BY FeesAssumption DEF Batch, Batches
<1>2. batches' = Stored(b) /\ calls' = [calls EXCEPT ![c].does = "read"]
  BY DEF ApplyBatch
<1> HIDE DEF b
<1>3. Grown
  BY <1>1, <1>2, StoreStep
<1>4. /\ calls' \in [Callers -> [does : {"rest", "read", "announce"}, fee : FeeStates]]
      /\ \A e \in Callers : calls'[e].fee = calls[e].fee
  BY <1>2, CallStep
<1> QED
  BY <1>3, <1>4, BatchStep DEF FeeInv, FeeTypes

\* Lapsed batches are marked.
LEMMA ExpireGrows ==
    ASSUME FeeInv, batches' = WithStatus(Lapsed, "expired")
    PROVE  Grown
<1>1. \A v \in DOMAIN batches : batches[v] \in Batches
  BY BatchTypes
<1>2. DOMAIN batches' = DOMAIN batches /\ batches' = [v \in DOMAIN batches |-> batches'[v]]
  BY DEF WithStatus
<1>3. ASSUME NEW v \in DOMAIN batches
      PROVE  /\ batches'[v] \in Batches /\ batches'[v].issued = batches[v].issued
             /\ batches'[v].until <= batches[v].until
  <2> DEFINE e == [batches[v] EXCEPT !.status = "expired"]
  <2>1. batches'[v] = IF v \in Lapsed THEN e ELSE batches[v]
    BY DEF WithStatus
  <2>2. batches[v] \in Batches /\ batches[v].until \in Int
    BY <1>1 DEF Batches
  <2>3. e \in Batches /\ e.issued = batches[v].issued /\ e.until = batches[v].until
    BY <2>2, Restated
  <2> HIDE DEF e
  <2> QED
    BY <2>1, <2>2, <2>3
<1> QED
  BY <1>2, <1>3, ChangeStep

\* clear_manual restates batches.
LEMMA ClearGrows == ASSUME FeeInv, ClearManual PROVE Grown
<1> DEFINE Cut(v) == IF now < batches[v].until THEN now ELSE batches[v].until
<1>1. \A v \in DOMAIN batches : batches[v] \in Batches
  BY BatchTypes
<1>2. /\ DOMAIN batches' = DOMAIN batches
      /\ \A v \in DOMAIN batches :
           batches'[v] = IF v \in Active /\ batches[v].source = "manual"
                         THEN [batches[v] EXCEPT !.status = "cleared", !.until = Cut(v)]
                         ELSE batches[v]
      /\ batches' = [v \in DOMAIN batches |-> batches'[v]]
  BY DEF ClearManual
<1>3. ASSUME NEW v \in DOMAIN batches
      PROVE  /\ batches'[v] \in Batches /\ batches'[v].issued = batches[v].issued
             /\ batches'[v].until <= batches[v].until
  <2>1. batches[v] \in Batches /\ batches[v].until \in Int /\ now \in Int
    BY <1>1 DEF Batches, FeeInv, FeeTypes
  <2>2. Cut(v) \in Int /\ Cut(v) <= batches[v].until
    BY <2>1
  <2> DEFINE e == [batches[v] EXCEPT !.status = "cleared", !.until = Cut(v)]
  <2>3. e \in Batches /\ e.issued = batches[v].issued /\ e.until = Cut(v)
    BY <2>1, <2>2, Cleared
  <2>4. batches'[v] = e \/ batches'[v] = batches[v]
    BY <1>2
  <2> HIDE DEF Cut, e
  <2> QED
    BY <2>1, <2>2, <2>3, <2>4
<1> QED
  BY <1>2, <1>3, ChangeStep

\* Steps that leave the batches alone and hand an honest fee on.
LEMMA NewsStep ==
    ASSUME FeeInv, FeeTypes', UNCHANGED batches,
           \A c \in Callers : HonestFee(calls'[c].fee),
           \A i \in DOMAIN feeNews' : HonestFee(feeNews'[i]),
           HonestFee(inForce')
    PROVE  FeeInv'
  BY DEF FeeInv, FeesHonest, HonestFee, Ends

\* Every step keeps the invariant.
LEMMA FeeStep == FeeInv /\ [FeeNext]_feeVars => FeeInv'
<1> SUFFICES ASSUME FeeInv, [FeeNext]_feeVars PROVE FeeInv'
  OBVIOUS
<1> DEFINE CallSet == [Callers -> [does : {"rest", "read", "announce"}, fee : FeeStates]]
<1>1. /\ now \in Int /\ calls \in CallSet /\ feeNews \in Seq(FeeStates) /\ inForce \in FeeStates
      /\ batches \in Seq(Batches)
  BY DEF FeeInv, FeeTypes
<1>2. /\ \A c \in Callers : HonestFee(calls[c].fee)
      /\ \A i \in DOMAIN feeNews : HonestFee(feeNews[i])
      /\ HonestFee(inForce)
  BY DEF FeeInv, FeesHonest
<1>3. ActiveFee \in FeeStates /\ HonestFee(ActiveFee) /\ NoFee \in FeeStates /\ HonestFee(NoFee)
  BY ActiveHonest DEF NoFee, FeeStates, HonestFee
<1>4. ASSUME NEW issued \in 0..(MaxNow + FutureSlack),
             ApplyManualBatch(issued) \/ ApplyAutomaticBatch(issued)
      PROVE  FeeInv'
  <2>1. issued \in Nat /\ "admin" \in Callers /\ "keeper" \in Callers
    BY DEF Callers
  <2> QED
    BY <1>4, <2>1, ApplyBatchKeeps DEF ApplyManualBatch, ApplyAutomaticBatch
<1>5. CASE RepeatManualBatch \/ ClearManual
  <2>1. Grown
    BY <1>5, ExpireGrows, ClearGrows DEF RepeatManualBatch
  <2>2. /\ calls' = [calls EXCEPT !["admin"].does = "read"] /\ "admin" \in Callers
        /\ UNCHANGED <<now, feeNews, inForce>>
    BY <1>5 DEF RepeatManualBatch, ClearManual, Callers
  <2>3. calls' \in CallSet /\ \A e \in Callers : calls'[e].fee = calls[e].fee
    BY <2>2, CallStep
  <2> QED
    BY <1>1, <2>1, <2>2, <2>3, BatchStep
<1>6. CASE ExpireFees
  <2>1. Grown
    BY <1>6, ExpireGrows DEF ExpireFees
  <2>2. /\ calls' = [calls EXCEPT !["expiry"] = [does |-> "announce", fee |-> NoFee]]
        /\ UNCHANGED <<now, feeNews, inForce>>
    BY <1>6 DEF ExpireFees
  <2>3. calls' \in CallSet /\ \A e \in Callers : calls'[e].fee = calls[e].fee \/ calls'[e].fee = NoFee
    BY <1>1, <1>3, <2>2
  <2> QED
    BY <1>1, <2>1, <2>2, <2>3, BatchStep
<1>7. ASSUME NEW c \in Callers, ReadActive(c) PROVE FeeInv'
  <2>1. /\ calls' = [calls EXCEPT ![c] = [does |-> "announce", fee |-> ActiveFee]]
        /\ UNCHANGED <<now, batches, feeNews, inForce>>
    BY <1>7 DEF ReadActive
  <2>2. calls' \in CallSet /\ \A e \in Callers : calls'[e].fee = calls[e].fee \/ calls'[e].fee = ActiveFee
    BY <1>1, <1>3, <2>1
  <2>3. FeeTypes'
    BY <1>1, <2>1, <2>2 DEF FeeTypes
  <2> QED
    BY <1>2, <1>3, <2>1, <2>2, <2>3, NewsStep
<1>8. ASSUME NEW c \in Callers, BroadcastFeeState(c) PROVE FeeInv'
  <2> DEFINE f == calls[c].fee
  <2>1. /\ calls' = [calls EXCEPT ![c] = AtRest] /\ UNCHANGED <<now, batches, inForce>>
        /\ feeNews' = Append(feeNews, f) \/ (feeNews # <<>> /\ feeNews' = Append(Tail(feeNews), f))
    <3>1. Len(feeNews) < NewsCapacity \/ feeNews # <<>>
      BY <1>1, FeesAssumption
    <3> QED
      BY <1>8, <3>1 DEF BroadcastFeeState
  <2>2. f \in FeeStates /\ HonestFee(f) /\ AtRest \in [does : {"rest", "read", "announce"}, fee : FeeStates]
        /\ AtRest.fee = NoFee
    BY <1>1, <1>2, <1>3 DEF AtRest
  <2> HIDE DEF f
  <2>3. calls' \in CallSet /\ \A e \in Callers : calls'[e].fee = calls[e].fee \/ calls'[e].fee = NoFee
    BY <1>1, <2>1, <2>2
  <2>4. /\ feeNews' \in Seq(FeeStates)
        /\ \A i \in DOMAIN feeNews' : feeNews'[i] = f \/ \E j \in DOMAIN feeNews : feeNews'[i] = feeNews[j]
    <3>1. CASE feeNews' = Append(feeNews, f)
      BY <1>1, <2>2, <3>1
    <3>2. CASE feeNews # <<>> /\ feeNews' = Append(Tail(feeNews), f)
      <4> DEFINE t == Tail(feeNews)
      <4>1. t \in Seq(FeeStates) /\ Len(t) = Len(feeNews) - 1
            /\ \A i \in 1..Len(t) : t[i] = feeNews[i + 1] /\ i + 1 \in DOMAIN feeNews
        BY <1>1, <3>2
      <4>2. feeNews' = Append(t, f)
        BY <3>2
      <4> HIDE DEF t
      <4>3. /\ feeNews' \in Seq(FeeStates)
            /\ \A i \in DOMAIN feeNews' : feeNews'[i] = f \/ (i \in 1..Len(t) /\ feeNews'[i] = t[i])
        BY <2>2, <4>1, <4>2
      <4> QED
        BY <4>1, <4>3
    <3> QED
      BY <2>1, <3>1, <3>2
  <2>5. FeeTypes'
    BY <1>1, <2>1, <2>3, <2>4 DEF FeeTypes
  <2>6. \A i \in DOMAIN feeNews' : HonestFee(feeNews'[i])
    BY <1>2, <2>2, <2>4
  <2> QED
    BY <1>2, <1>3, <2>1, <2>3, <2>5, <2>6, NewsStep
<1>9. CASE ApplyFeeState
  <2>1. /\ feeNews # <<>> /\ inForce' = Head(feeNews) /\ feeNews' = Tail(feeNews)
        /\ UNCHANGED <<now, batches, calls>>
    BY <1>9 DEF ApplyFeeState
  <2>2. /\ inForce' = feeNews[1] /\ 1 \in DOMAIN feeNews /\ inForce' \in FeeStates
        /\ feeNews' \in Seq(FeeStates)
        /\ \A i \in DOMAIN feeNews' : i + 1 \in DOMAIN feeNews /\ feeNews'[i] = feeNews[i + 1]
    BY <1>1, <2>1
  <2>3. FeeTypes'
    BY <1>1, <2>1, <2>2 DEF FeeTypes
  <2> QED
    BY <1>2, <2>1, <2>2, <2>3, NewsStep
<1>10. CASE RecoverFeeState
  <2>1. inForce' = ActiveFee /\ UNCHANGED <<now, batches, calls, feeNews>>
    BY <1>10 DEF RecoverFeeState
  <2>2. FeeTypes'
    BY <1>1, <1>3, <2>1 DEF FeeTypes
  <2> QED
    BY <1>2, <1>3, <2>1, <2>2, NewsStep
<1>11. CASE FeeRestart
  <2>1. /\ calls' = [c \in Callers |-> AtRest] /\ feeNews' = <<>> /\ inForce' = ActiveFee
        /\ UNCHANGED <<now, batches>>
    BY <1>11 DEF FeeRestart
  <2>2. AtRest \in [does : {"rest", "read", "announce"}, fee : FeeStates] /\ AtRest.fee = NoFee
    BY <1>3 DEF AtRest
  <2>3. FeeTypes'
    BY <1>1, <1>3, <2>1, <2>2 DEF FeeTypes
  <2> QED
    BY <1>3, <2>1, <2>2, <2>3, NewsStep
<1>12. CASE FeeTick \/ UNCHANGED feeVars
  <2>1. UNCHANGED <<batches, calls, feeNews, inForce>> /\ now' \in Int
    BY <1>1, <1>12 DEF FeeTick, ClockAdvances, feeStore, feeVars
  <2>2. FeeTypes'
    BY <1>1, <2>1 DEF FeeTypes
  <2> QED
    BY <1>2, <2>1, <2>2, NewsStep
<1> QED
  BY <1>4, <1>5, <1>6, <1>7, <1>8, <1>9, <1>10, <1>11, <1>12 DEF FeeNext

\* No batch and no surcharge satisfy it.
LEMMA FeeStart == now = 0 /\ FeeInit => FeeInv
<1> SUFFICES ASSUME now = 0, FeeInit PROVE FeeInv
  OBVIOUS
<1>1. NoFee \in FeeStates /\ HonestFee(NoFee) /\ AtRest.fee = NoFee
      /\ AtRest \in [does : {"rest", "read", "announce"}, fee : FeeStates]
  BY DEF NoFee, FeeStates, HonestFee, AtRest
<1>2. FeeTypes
  BY <1>1 DEF FeeInit, FeeTypes
<1>3. FeesHonest
  BY <1>1 DEF FeeInit, FeesHonest
<1> QED
  BY <1>2, <1>3 DEF FeeInv

\* No trade pays a surcharge past the validity of its batch, whatever the senders,
\* the expiry task and the engine do in between (quote_swap, apply_batch).
THEOREM SurchargeEnds == FeeSpec => []SurchargesExpire
<1>1. FeeInv => SurchargesExpire
  <2> SUFFICES ASSUME FeeInv, SurchargeDue
               PROVE  batches[inForce.version].issued + Validity >= now
    BY DEF SurchargesExpire
  <2>1. /\ inForce.version \in DOMAIN batches /\ inForce.until >= now
        /\ inForce.until <= batches[inForce.version].issued + Validity
    BY DEF SurchargeDue, FeeInv, FeesHonest, HonestFee, Ends
  <2>2. inForce.until \in Int /\ now \in Int
    BY DEF FeeInv, FeeTypes, FeeStates
  <2>3. batches[inForce.version] \in Batches
    BY <2>1 DEF FeeInv, FeeTypes
  <2>4. batches[inForce.version].issued \in Nat /\ Validity \in Nat
    BY <2>3, FeesAssumption DEF Batches
  <2> QED
    BY <2>1, <2>2, <2>4
<1> QED
  BY <1>1, FeeStart, FeeStep, PTL DEF FeeSpec

\* At most one batch is active, and the store and the channel keep to their bounds.
FeeBounds ==
  /\ \A v, w \in Active : v = w
  /\ Len(batches) <= MaxBatches
  /\ Len(feeNews) <= NewsCapacity /\ newsLost \in BOOLEAN

\* A batch that is stored ends whichever was active.
LEMMA StoredAlone ==
    ASSUME FeeInv, FeeBounds, NEW c, NEW b, ApplyBatch(c, b),
           UNCHANGED <<now, feeNews, newsLost, inForce>>
    PROVE  FeeBounds'
<1> DEFINE F == [v \in DOMAIN batches |->
                   CASE v \in Lapsed -> [batches[v] EXCEPT !.status = "expired"]
                     [] v \in Active \ Lapsed -> [batches[v] EXCEPT !.status = "superseded"]
                     [] OTHER -> batches[v]]
           n == Len(batches)
<1>1. /\ DOMAIN batches = 1..n /\ n \in Nat
      /\ \A v \in DOMAIN batches : batches[v] \in Batches
  BY BatchTypes
<1>2. \A v \in 1..n : F[v].status # "active"
  BY <1>1 DEF Active, Lapsed, Batches
<1>3. batches' = Append(F, b) /\ n < MaxBatches
  BY DEF ApplyBatch, Stored
<1>4. DOMAIN F = 1..n
  BY <1>1
<1> HIDE DEF F, n
<1>5. /\ DOMAIN batches' = 1..(n + 1) /\ Len(batches') = n + 1
      /\ \A v \in 1..n : batches'[v] = F[v]
  <2>1. F = [v \in 1..n |-> F[v]]
    BY <1>4 DEF F
  <2>2. F \in Seq({F[v] : v \in 1..n}) /\ Len(F) = n
    <3>1. F \in [1..n -> {F[v] : v \in 1..n}]
      BY <2>1
    <3> QED
      BY <1>1, <3>1
  <2> QED
    BY <1>1, <1>3, <2>2
<1>6. ASSUME NEW v \in Active' PROVE v = n + 1
  <2>1. v \in 1..(n + 1) /\ batches'[v].status = "active"
    BY <1>5, <1>6 DEF Active
  <2>2. v \notin 1..n
    BY <1>2, <1>5, <2>1
  <2> QED
    BY <1>1, <2>1, <2>2
<1> QED
  BY <1>1, <1>3, <1>5, <1>6, FeesAssumption DEF FeeBounds

\* A change of statuses that makes none active leaves at most one.
LEMMA NoneRevived ==
    ASSUME FeeBounds, DOMAIN batches' = DOMAIN batches, Len(batches') = Len(batches),
           \A v \in DOMAIN batches : batches'[v].status = "active" => batches[v].status = "active",
           UNCHANGED <<feeNews, newsLost>>
    PROVE  FeeBounds'
<1>1. Active' \subseteq Active
  BY DEF Active
<1> QED
  BY <1>1 DEF FeeBounds

\* Every step keeps the bounds.
LEMMA FeeBoundsStep == FeeInv /\ FeeBounds /\ [FeeNext]_feeVars => FeeBounds'
<1> SUFFICES ASSUME FeeInv, FeeBounds, [FeeNext]_feeVars PROVE FeeBounds'
  OBVIOUS
<1>1. /\ batches \in Seq(Batches) /\ feeNews \in Seq(FeeStates)
      /\ calls \in [Callers -> [does : {"rest", "read", "announce"}, fee : FeeStates]]
      /\ NewsCapacity \in Nat \ {0}
  BY FeesAssumption DEF FeeInv, FeeTypes
<1>2. /\ DOMAIN batches = 1..Len(batches) /\ Len(batches) \in Nat
      /\ \A v \in DOMAIN batches : batches[v] \in Batches
  BY BatchTypes
<1>3. ASSUME NEW issued \in 0..(MaxNow + FutureSlack),
             ApplyManualBatch(issued) \/ ApplyAutomaticBatch(issued)
      PROVE  FeeBounds'
  BY <1>3, StoredAlone DEF ApplyManualBatch, ApplyAutomaticBatch
<1>4. ASSUME DOMAIN batches' = DOMAIN batches, batches' = [v \in DOMAIN batches |-> batches'[v]]
      PROVE  Len(batches') = Len(batches)
  <2>1. batches' \in [1..Len(batches) -> {batches'[v] : v \in DOMAIN batches}]
    BY <1>2, <1>4
  <2> QED
    BY <1>2, <2>1
<1>5. CASE RepeatManualBatch \/ ExpireFees
  <2>1. /\ DOMAIN batches' = DOMAIN batches /\ batches' = [v \in DOMAIN batches |-> batches'[v]]
        /\ UNCHANGED <<feeNews, newsLost>>
    BY <1>5 DEF RepeatManualBatch, ExpireFees, WithStatus
  <2>2. \A v \in DOMAIN batches : batches'[v].status = "active" => batches[v].status = "active"
    BY <1>2, <1>5 DEF RepeatManualBatch, ExpireFees, WithStatus, Batches
  <2> QED
    BY <1>4, <2>1, <2>2, NoneRevived
<1>6. CASE ClearManual
  <2>1. /\ DOMAIN batches' = DOMAIN batches /\ batches' = [v \in DOMAIN batches |-> batches'[v]]
        /\ UNCHANGED <<feeNews, newsLost>>
    BY <1>6 DEF ClearManual
  <2>2. ASSUME NEW v \in DOMAIN batches, batches'[v].status = "active"
        PROVE  batches[v].status = "active"
    <3>1. PICK u : batches'[v] = batches[v] \/ batches'[v] = [batches[v] EXCEPT !.status = "cleared", !.until = u]
      BY <1>6 DEF ClearManual
    <3> QED
      BY <1>2, <2>2, <3>1 DEF Batches
  <2> QED
    BY <1>4, <2>1, <2>2, NoneRevived
<1>7. ASSUME NEW c \in Callers, BroadcastFeeState(c) PROVE FeeBounds'
  <2>1. UNCHANGED batches
    BY <1>7 DEF BroadcastFeeState
  <2>2. PICK f \in FeeStates :
          IF Len(feeNews) < NewsCapacity
          THEN feeNews' = Append(feeNews, f) /\ UNCHANGED newsLost
          ELSE feeNews' = Append(Tail(feeNews), f) /\ newsLost' = TRUE
    BY <1>1, <1>7 DEF BroadcastFeeState
  <2>3. Len(feeNews') <= NewsCapacity
    <3>1. CASE Len(feeNews) < NewsCapacity
      BY <1>1, <2>2, <3>1
    <3>2. CASE ~ (Len(feeNews) < NewsCapacity)
      <4>1. feeNews # <<>> /\ Len(feeNews) = NewsCapacity
        BY <1>1, <3>2 DEF FeeBounds
      <4>2. Tail(feeNews) \in Seq(FeeStates) /\ Len(Tail(feeNews)) = NewsCapacity - 1
        BY <1>1, <4>1
      <4> QED
        BY <1>1, <2>2, <3>2, <4>2
    <3> QED
      BY <3>1, <3>2
  <2>4. newsLost' \in BOOLEAN
    BY <2>2 DEF FeeBounds
  <2> QED
    BY <2>1, <2>3, <2>4 DEF FeeBounds, Active
<1>8. CASE ApplyFeeState
  <2>1. UNCHANGED <<batches, newsLost>> /\ feeNews # <<>> /\ feeNews' = Tail(feeNews)
    BY <1>8 DEF ApplyFeeState
  <2>2. Len(feeNews') <= NewsCapacity
    BY <1>1, <2>1 DEF FeeBounds
  <2> QED
    BY <2>1, <2>2 DEF FeeBounds, Active
<1>9. CASE FeeRestart
  <2>1. UNCHANGED batches /\ feeNews' = <<>> /\ newsLost' \in BOOLEAN
    BY <1>9 DEF FeeRestart
  <2>2. Len(feeNews') <= NewsCapacity
    BY <1>1, <2>1
  <2> QED
    BY <2>1, <2>2 DEF FeeBounds, Active
<1>10. CASE RecoverFeeState
  BY <1>10 DEF RecoverFeeState, FeeBounds, Active
<1>11. ASSUME NEW c \in Callers, ReadActive(c) PROVE FeeBounds'
  BY <1>11 DEF ReadActive, FeeBounds, Active
<1>12. CASE FeeTick \/ UNCHANGED feeVars
  BY <1>12 DEF FeeTick, feeStore, feeVars, FeeBounds, Active
<1> QED
  BY <1>3, <1>5, <1>6, <1>7, <1>8, <1>9, <1>10, <1>11, <1>12 DEF FeeNext

\* One batch at most is active at a time, whichever of the two senders and the
\* expiry task was last, and the engine's fee names a stored one (fee_store.rs).
THEOREM FeeTypeCorrect == FeeSpec => []FeeTypeOK
<1>1. now = 0 /\ FeeInit => FeeBounds
  <2> SUFFICES ASSUME FeeInit PROVE FeeBounds
    OBVIOUS
  <2>1. Len(<<>>) = 0 /\ MaxBatches \in Nat /\ NewsCapacity \in Nat
    BY FeesAssumption
  <2>2. Active = {}
    BY DEF Active, FeeInit
  <2>3. Len(batches) <= MaxBatches /\ Len(feeNews) <= NewsCapacity
    BY <2>1 DEF FeeInit
  <2> QED
    BY <2>2, <2>3 DEF FeeInit, FeeBounds
<1>2. FeeInv /\ FeeBounds => FeeTypeOK
  <2> SUFFICES ASSUME FeeInv, FeeBounds PROVE FeeTypeOK
    OBVIOUS
  <2>1. Cardinality(Active) <= 1
    <3>1. CASE Active = {}
      BY <3>1, FS_EmptySet
    <3>2. ASSUME NEW v \in Active PROVE Cardinality(Active) <= 1
      <4>1. Active = {v}
        BY <3>2 DEF FeeBounds
      <4> QED
        BY <4>1, FS_Singleton
    <3> QED
      BY <3>1, <3>2
  <2>2. \A v \in DOMAIN batches : batches[v] \in Batches
    BY BatchTypes
  <2>3. inForce.version \in 0..Len(batches)
    <3>1. DOMAIN batches = 1..Len(batches) /\ Len(batches) \in Nat
      BY BatchTypes
    <3> QED
      BY <3>1 DEF FeeInv, FeesHonest, HonestFee
  <2>4. calls \in [Callers -> [does : {"rest", "read", "announce"}, fee : FeeStates]]
    BY DEF FeeInv, FeeTypes
  <2> QED
    BY <2>1, <2>2, <2>3, <2>4 DEF FeeTypeOK, FeeBounds, Batches
<1> QED
  BY <1>1, <1>2, FeeStart, FeeStep, FeeBoundsStep, PTL DEF FeeSpec

--------------------------------------------------------------------------------
(***************************************************************************)
(* FeeKeeper.  spike_active rises only with mark_pushed, which a stored    *)
(* batch for a spike precedes; while it is up nothing takes the answer     *)
(* back.                                                                   *)
(***************************************************************************)
KeeperInv == KeeperTypeOK /\ SpikesAnswered

\* A keeper at rest satisfies it.
LEMMA KeeperStart == KeeperInit => KeeperInv
<1> SUFFICES ASSUME KeeperInit PROVE KeeperInv
  OBVIOUS
<1>1. 0 \in 0..(Warmup + 1) /\ 0 \in 0..(MaxSampleAge + 1)
  BY KeeperAssumption
<1>2. ~ keeper.active /\ ~ keeper.sends
  BY DEF KeeperInit
<1>3. keeper \in [pushed : BOOLEAN, active : BOOLEAN, sends : BOOLEAN, spike : BOOLEAN]
  BY DEF KeeperInit
<1>4. estimate \in [prices : 0..(Warmup + 1), age : 0..(MaxSampleAge + 1), spike : BOOLEAN]
  BY <1>1 DEF KeeperInit
<1> QED
  BY <1>2, <1>3, <1>4 DEF KeeperInv, KeeperTypeOK, SpikesAnswered, KeeperInit

\* Every step keeps the invariant.
LEMMA KeeperStep == KeeperInv /\ [KeeperNext]_keeperVars => KeeperInv'
<1> SUFFICES ASSUME KeeperInv, [KeeperNext]_keeperVars PROVE KeeperInv'
  OBVIOUS
<1> USE KeeperAssumption DEF KeeperInv
<1>1. ASSUME NEW b \in BOOLEAN, SamplePrice(b) PROVE KeeperInv'
  <2> DEFINE n == IF estimate.prices > Warmup THEN Warmup + 1 ELSE estimate.prices + 1
  <2>1. n \in 0..(Warmup + 1) /\ (estimate.prices > Warmup => n > Warmup)
    BY DEF KeeperTypeOK
  <2>2. estimate' = [prices |-> n, age |-> 0, spike |-> b] /\ UNCHANGED <<keeper, answered>>
    BY <1>1 DEF SamplePrice
  <2> QED
    BY <2>1, <2>2 DEF KeeperTypeOK, SpikesAnswered
<1>2. CASE SampleAges
  <2> DEFINE a == IF estimate.age > MaxSampleAge THEN estimate.age ELSE estimate.age + 1
  <2>1. /\ estimate' = [prices |-> estimate.prices, age |-> a, spike |-> estimate.spike]
        /\ a \in 0..(MaxSampleAge + 1)
        /\ UNCHANGED <<keeper, answered>>
    BY <1>2 DEF SampleAges, KeeperTypeOK
  <2> QED
    BY <2>1 DEF KeeperTypeOK, SpikesAnswered
<1>3. ASSUME NEW b \in BOOLEAN, SendBatch(b) PROVE KeeperInv'
  <2>1. /\ keeper' = [pushed |-> keeper.pushed, active |-> keeper.active, sends |-> TRUE,
                      spike |-> estimate.spike]
        /\ estimate.prices > Warmup /\ UNCHANGED <<estimate, answered>>
    BY <1>3 DEF SendBatch, Usable, KeeperTypeOK
  <2> QED
    BY <2>1 DEF KeeperTypeOK, SpikesAnswered
<1>4. CASE NoChange
  <2>1. /\ keeper' = [pushed |-> keeper.pushed, active |-> estimate.spike, sends |-> keeper.sends,
                      spike |-> keeper.spike]
        /\ estimate.prices > Warmup /\ UNCHANGED estimate
        /\ answered' = (answered /\ estimate.spike)
        /\ estimate.spike => keeper.active
    BY <1>4 DEF NoChange, Usable, PushDue, KeeperTypeOK
  <2>2. KeeperTypeOK'
    BY <2>1 DEF KeeperTypeOK
  <2>3. SpikesAnswered'
    BY <2>1 DEF SpikesAnswered
  <2> QED
    BY <2>2, <2>3
<1>5. CASE MarkPushed
  <2>1. /\ keeper' = [pushed |-> TRUE, active |-> keeper.spike, sends |-> FALSE, spike |-> FALSE]
        /\ answered' = keeper.spike /\ UNCHANGED estimate /\ keeper.sends
    BY <1>5 DEF MarkPushed, Pushed
  <2>2. keeper.spike \in BOOLEAN /\ estimate.prices > Warmup
    BY <2>1 DEF KeeperTypeOK
  <2>3. KeeperTypeOK'
    BY <2>1, <2>2 DEF KeeperTypeOK
  <2>4. SpikesAnswered'
    BY <2>1 DEF SpikesAnswered
  <2> QED
    BY <2>3, <2>4
<1>6. CASE AnswerLost \/ PushFails
  <2>1. /\ keeper' = [pushed |-> keeper.pushed, active |-> keeper.active, sends |-> FALSE,
                      spike |-> FALSE]
        /\ UNCHANGED estimate
    BY <1>6 DEF AnswerLost, PushFails, GivenUp
  <2>2. answered' \in BOOLEAN /\ (answered => answered')
    BY <1>6 DEF AnswerLost, PushFails, KeeperTypeOK
  <2>3. /\ keeper.pushed \in BOOLEAN /\ keeper.active \in BOOLEAN
        /\ keeper.active => estimate.prices > Warmup
    BY DEF KeeperTypeOK
  <2>4. KeeperTypeOK'
    BY <2>1, <2>2, <2>3 DEF KeeperTypeOK
  <2>5. SpikesAnswered'
    BY <2>1, <2>2 DEF SpikesAnswered
  <2> QED
    BY <2>4, <2>5
<1>7. CASE UNCHANGED keeperVars
  BY <1>7 DEF keeperVars, KeeperTypeOK, SpikesAnswered
<1> QED
  BY <1>1, <1>2, <1>3, <1>4, <1>5, <1>6, <1>7 DEF KeeperNext

\* The keeper takes a spike for answered only if a batch for it is stored, whatever
\* pushes are refused, fail or lose their answer (evaluate, mark_pushed).
THEOREM SpikeEdgeKept == KeeperSpec => []SpikesAnswered
<1>1. KeeperInv => SpikesAnswered
  BY DEF KeeperInv
<1> QED
  BY <1>1, KeeperStart, KeeperStep, PTL DEF KeeperSpec

\* A keeper that answers a spike is warmed up (FeeKeeper).
THEOREM KeeperTypeCorrect == KeeperSpec => []KeeperTypeOK
<1>1. KeeperInv => KeeperTypeOK
  BY DEF KeeperInv
<1> QED
  BY <1>1, KeeperStart, KeeperStep, PTL DEF KeeperSpec

--------------------------------------------------------------------------------
(***************************************************************************)
(* AnalyticsStore.  While no opening basis was made up for a user, what    *)
(* was realized is the cost still invested, plus what was withdrawn, less  *)
(* what was deposited and the fees, whatever the average cost rounded to.  *)
(* An empty position has no cost left, so the positions a summary leaves   *)
(* out for want of a mark cost nothing.                                    *)
(***************************************************************************)
RealizedBy(ps, u) == [a \in Assets |-> ps[<<u, a, Usd>>].realized]
CostBy(ps, u) == [a \in Assets |-> ps[<<u, a, Usd>>].cost]
FeesBy(ps, u) == [a \in Assets |-> ps[<<u, a, Usd>>].fees]
Keys == Holders \X Assets \X Quotes
Books == [Keys -> PositionRows]

\* What was realized and paid for less what is invested.
Balance(ps, u) ==
  IntTotal(RealizedBy(ps, u)) - Total(CostBy(ps, u)) + Total(FeesBy(ps, u))
EmptyIsFree(ps) == \A p \in Keys : ps[p].quantity = 0 => ps[p].cost = 0

Reconciled ==
  \A u \in Holders : ~ coverage[u].opening =>
    Balance(positions, u) = cash[<<u, Usd>>].redeem - cash[<<u, Usd>>].fund
SwapsPay == \A s \in Swaps : SwapOf[s].amountOut > 0
LedgerInv ==
  /\ SwapsPay /\ now \in Nat /\ StoreTypeOK
  /\ EmptyIsFree(positions) /\ Reconciled

\* The mark a valuation takes is one of the asset's.
LEMMA LatestMarkTyped ==
    ASSUME StoreTypeOK, NEW a \in Assets, NEW at \in Nat, MarksAsOf(a, at) # {}
    PROVE  LatestMark(a, at).price \in Nat
<1> DEFINE m == marks[a]
           I == MarksAsOf(a, at)
           T == {m[i].time : i \in I}
<1>1. m \in Seq(Marks) /\ I \subseteq DOMAIN m /\ \A i \in I : m[i].time <= at
  BY DEF StoreTypeOK, MarksAsOf
<1>2. /\ \A i \in DOMAIN m : m[i].time \in Nat /\ m[i].price \in Nat /\ i \in Nat /\ i <= Len(m)
      /\ Len(m) \in Nat
  <2> HIDE DEF m
  <2>1. Len(m) \in Nat /\ \A i \in DOMAIN m : m[i] \in Marks /\ i \in Nat /\ i <= Len(m)
    BY <1>1
  <2> QED
    BY <2>1 DEF Marks
<1> HIDE DEF m, I
<1>3. \E x \in T : \A y \in T : y <= x
  <2>1. T \subseteq Nat /\ T # {} /\ \A x \in T : x <= at
    BY <1>1, <1>2 DEF I
  <2> HIDE DEF T
  <2> QED
    BY <2>1, LargestBelow
<1>4. PICK k \in I : \A j \in I : m[j].time <= m[k].time
  BY <1>3
<1> DEFINE J == {i \in I : m[i].time = m[k].time}
<1>5. \E x \in J : \A y \in J : y <= x
  <2>1. J \subseteq Nat /\ J # {} /\ \A x \in J : x <= Len(m)
    BY <1>1, <1>2
  <2> HIDE DEF J
  <2> QED
    BY <1>2, <2>1, LargestBelow
<1>6. PICK i \in I : m[i].time = m[k].time /\ \A j \in I : m[j].time = m[k].time => j <= i
  BY <1>5
<1>7. \A j \in I : m[j].time < m[i].time \/ (m[j].time = m[i].time /\ j <= i)
  BY <1>1, <1>2, <1>4, <1>6
<1> DEFINE c == CHOOSE i1 \in I : \A j \in I :
                  m[j].time < m[i1].time \/ (m[j].time = m[i1].time /\ j <= i1)
<1>8. c \in I
  BY <1>7
<1>9. LatestMark(a, at) = m[c]
  BY DEF LatestMark, m, I
<1> HIDE DEF c
<1> QED
  BY <1>1, <1>2, <1>8, <1>9

\* One position of a user changes.
LEMMA BalanceMoves ==
    ASSUME NEW ps \in Books, NEW u \in Holders, NEW a \in Assets, NEW entry \in PositionRows,
           NEW v \in Holders
    PROVE  LET qs == [ps EXCEPT ![<<u, a, Usd>>] = entry]
               old == ps[<<u, a, Usd>>]
           IN  /\ qs \in Books /\ Balance(ps, v) \in Int
               /\ Balance(qs, v) =
                    Balance(ps, v)
                      + (IF v = u THEN (entry.realized - old.realized) - (entry.cost - old.cost)
                                         + (entry.fees - old.fees)
                                  ELSE 0)
<1> DEFINE p == <<u, a, Usd>>
           qs == [ps EXCEPT ![p] = entry]
           old == ps[p]
<1>1. p \in Keys /\ old \in PositionRows /\ \A b \in Assets, w \in Holders : <<w, b, Usd>> \in Keys
  BY DEF Keys, Books, Quotes
<1>2. /\ qs \in Books /\ qs[p] = entry
      /\ \A b \in Assets, w \in Holders : b # a \/ w # u => qs[<<w, b, Usd>>] = ps[<<w, b, Usd>>]
  BY <1>1 DEF Books
<1>3. /\ \A k \in Keys : ps[k] \in PositionRows
      /\ \A k \in Keys : qs[k] \in PositionRows
  BY <1>2 DEF Books
<1> HIDE DEF qs
<1>4. ASSUME NEW rs, \A k \in Keys : rs[k] \in PositionRows
      PROVE  /\ RealizedBy(rs, v) \in [Assets -> Int] /\ CostBy(rs, v) \in [Assets -> Nat]
             /\ FeesBy(rs, v) \in [Assets -> Nat]
  <2>1. \A b \in Assets : rs[<<v, b, Usd>>] \in PositionRows
    BY <1>1, <1>4
  <2>2. \A b \in Assets : /\ rs[<<v, b, Usd>>].realized \in Int /\ rs[<<v, b, Usd>>].cost \in Nat
                          /\ rs[<<v, b, Usd>>].fees \in Nat
    BY <2>1 DEF PositionRows
  <2> QED
    BY <2>2 DEF RealizedBy, CostBy, FeesBy
<1>5. /\ RealizedBy(ps, v) \in [Assets -> Int] /\ CostBy(ps, v) \in [Assets -> Nat]
      /\ FeesBy(ps, v) \in [Assets -> Nat]
      /\ RealizedBy(qs, v) \in [Assets -> Int] /\ CostBy(qs, v) \in [Assets -> Nat]
      /\ FeesBy(qs, v) \in [Assets -> Nat]
  BY <1>3, <1>4
<1>6. \A b \in Assets : b # a \/ v # u =>
        /\ RealizedBy(qs, v)[b] = RealizedBy(ps, v)[b] /\ CostBy(qs, v)[b] = CostBy(ps, v)[b]
        /\ FeesBy(qs, v)[b] = FeesBy(ps, v)[b]
  BY <1>2 DEF RealizedBy, CostBy, FeesBy
<1>7. IsFiniteSet(Assets)
  BY AnalyticsAssumption
<1>8. /\ IntTotal(RealizedBy(ps, v)) \in Int /\ IntTotal(RealizedBy(qs, v)) \in Int
      /\ IntTotal(RealizedBy(qs, v)) = IntTotal(RealizedBy(ps, v))
                                         + (RealizedBy(qs, v)[a] - RealizedBy(ps, v)[a])
  BY <1>5, <1>6, <1>7, IntTotalChange
<1>9. /\ Total(CostBy(ps, v)) \in Nat /\ Total(CostBy(qs, v)) \in Nat
      /\ Total(CostBy(qs, v)) = Total(CostBy(ps, v)) + (CostBy(qs, v)[a] - CostBy(ps, v)[a])
  BY <1>5, <1>6, <1>7, TotalMoves
<1>10. /\ Total(FeesBy(ps, v)) \in Nat /\ Total(FeesBy(qs, v)) \in Nat
       /\ Total(FeesBy(qs, v)) = Total(FeesBy(ps, v)) + (FeesBy(qs, v)[a] - FeesBy(ps, v)[a])
  BY <1>5, <1>6, <1>7, TotalMoves
<1>11. Balance(ps, v) \in Int
  BY <1>8, <1>9, <1>10 DEF Balance
<1>12. CASE v = u
  <2>1. /\ RealizedBy(qs, v)[a] = entry.realized /\ RealizedBy(ps, v)[a] = old.realized
        /\ CostBy(qs, v)[a] = entry.cost /\ CostBy(ps, v)[a] = old.cost
        /\ FeesBy(qs, v)[a] = entry.fees /\ FeesBy(ps, v)[a] = old.fees
    BY <1>2, <1>12 DEF RealizedBy, CostBy, FeesBy
  <2>2. /\ entry.realized \in Int /\ old.realized \in Int /\ entry.cost \in Nat /\ old.cost \in Nat
        /\ entry.fees \in Nat /\ old.fees \in Nat
    BY <1>1 DEF PositionRows
  <2>3. Balance(qs, v) = Balance(ps, v) + ((entry.realized - old.realized) - (entry.cost - old.cost)
                                             + (entry.fees - old.fees))
    BY <1>8, <1>9, <1>10, <2>1, <2>2 DEF Balance
  <2> QED
    BY <1>2, <1>11, <1>12, <2>3 DEF qs
<1>13. CASE v # u
  <2>1. /\ RealizedBy(qs, v)[a] = RealizedBy(ps, v)[a] /\ CostBy(qs, v)[a] = CostBy(ps, v)[a]
        /\ FeesBy(qs, v)[a] = FeesBy(ps, v)[a]
    BY <1>6, <1>13
  <2>2. /\ RealizedBy(ps, v)[a] \in Int /\ CostBy(ps, v)[a] \in Nat /\ FeesBy(ps, v)[a] \in Nat
    BY <1>5
  <2>3. Balance(qs, v) = Balance(ps, v) + 0
    BY <1>8, <1>9, <1>10, <2>1, <2>2 DEF Balance
  <2> QED
    BY <1>2, <1>11, <1>13, <2>3 DEF qs
<1> QED
  BY <1>12, <1>13

\* A cost in proportion to what is disposed of is at most the whole cost.
LEMMA AllocatedPart ==
    ASSUME NEW entry \in PositionRows, NEW m \in Nat, m <= entry.quantity
    PROVE  /\ AllocatedCost(entry, m) \in Nat /\ AllocatedCost(entry, m) <= entry.cost
           /\ entry.quantity = m => AllocatedCost(entry, m) = entry.cost
<1>1. entry.quantity \in Nat /\ entry.cost \in Nat
  BY DEF PositionRows
<1>2. CASE entry.quantity = m
  BY <1>1, <1>2 DEF AllocatedCost
<1>3. CASE entry.quantity # m
  <2>1. entry.quantity > 0 /\ m * entry.cost = entry.cost * m
    BY <1>1, <1>3
  <2>2. /\ (m * entry.cost) \div entry.quantity \in Nat
        /\ (m * entry.cost) \div entry.quantity <= entry.cost
    BY <1>1, <2>1, ShareOf
  <2> QED
    BY <1>1, <1>3, <2>1, <2>2 DEF AllocatedCost
<1> QED
  BY <1>2, <1>3

\* What acquiring, disposing and the metrics of a fill do to one position.
LEMMA AcquireRow ==
    ASSUME NEW ps \in Books, NEW p \in Keys, NEW m \in Nat, NEW c \in Nat
    PROVE  \E entry \in PositionRows :
             /\ Acquire(ps, p, m, c) = [ps EXCEPT ![p] = entry]
             /\ entry.quantity = ps[p].quantity + m /\ entry.cost = ps[p].cost + c
             /\ entry.realized = ps[p].realized /\ entry.fees = ps[p].fees
<1> DEFINE old == ps[p]
           q == old.quantity + m
           k == old.cost + c
           entry == [old EXCEPT !.quantity = q, !.cost = k]
           r1 == [old EXCEPT !.quantity = q]
           r2 == [r1 EXCEPT !.cost = k]
<1>1. old \in PositionRows
  BY DEF Books
<1>2. Acquire(ps, p, m, c) = [ps EXCEPT ![p] = entry]
  BY DEF Acquire
<1> HIDE DEF old
<1>3. q \in Nat /\ k \in Nat
  BY <1>1 DEF PositionRows
<1> HIDE DEF q, k
<1>4. entry = r2
  BY <1>1, <1>3 DEF PositionRows
<1>5. /\ r1 \in PositionRows /\ r1.quantity = q
      /\ r1.realized = old.realized /\ r1.fees = old.fees
  BY <1>1, <1>3 DEF PositionRows
<1> HIDE DEF r1, entry
<1>6. /\ r2 \in PositionRows /\ r2.quantity = r1.quantity /\ r2.cost = k
      /\ r2.realized = r1.realized /\ r2.fees = r1.fees
  BY <1>3, <1>5 DEF PositionRows
<1> HIDE DEF r2
<1> QED
  BY <1>2, <1>4, <1>5, <1>6 DEF old, q, k

LEMMA DisposeRow ==
    ASSUME NEW ps \in Books, NEW p \in Keys, NEW m \in Nat, m <= ps[p].quantity,
           NEW v \in Nat, NEW f \in Nat
    PROVE  LET d == AllocatedCost(ps[p], m) IN
           \E entry \in PositionRows :
             /\ Dispose(ps, p, m, v, f) = [ps EXCEPT ![p] = entry]
             /\ entry.quantity = ps[p].quantity - m /\ entry.cost = ps[p].cost - d
             /\ entry.realized = ps[p].realized + ((v - f) - d) /\ entry.fees = ps[p].fees
             /\ d \in Nat /\ (entry.quantity = 0 => entry.cost = 0)
<1> DEFINE old == ps[p]
           d == AllocatedCost(ps[p], m)
           q == old.quantity - m
           k == old.cost - d
           z == old.realized + ((v - f) - d)
           entry == [old EXCEPT !.quantity = q, !.cost = k, !.realized = z]
           r1 == [old EXCEPT !.quantity = q]
           r2 == [r1 EXCEPT !.cost = k]
           r3 == [r2 EXCEPT !.realized = z]
<1>1. old \in PositionRows
  BY DEF Books
<1>2. d \in Nat /\ d <= old.cost /\ (old.quantity = m => d = old.cost)
  BY <1>1, AllocatedPart
<1>3. Dispose(ps, p, m, v, f) = [ps EXCEPT ![p] = entry]
  BY DEF Dispose
<1> HIDE DEF old, d
<1>4. q \in Nat /\ k \in Nat /\ z \in Int /\ (q = 0 => k = 0)
  BY <1>1, <1>2 DEF PositionRows, old
<1> HIDE DEF q, k, z
<1>5. entry = r3
  BY <1>1, <1>4 DEF PositionRows
<1>6. r1 \in PositionRows /\ r1.quantity = q /\ r1.fees = old.fees
  BY <1>1, <1>4 DEF PositionRows
<1> HIDE DEF r1, entry
<1>7. /\ r2 \in PositionRows /\ r2.quantity = r1.quantity /\ r2.cost = k /\ r2.fees = r1.fees
  BY <1>4, <1>6 DEF PositionRows
<1> HIDE DEF r2
<1>8. /\ r3 \in PositionRows /\ r3.quantity = r2.quantity /\ r3.cost = r2.cost
      /\ r3.realized = z /\ r3.fees = r2.fees
  BY <1>4, <1>7 DEF PositionRows
<1> HIDE DEF r3
<1>9. /\ Dispose(ps, p, m, v, f) = [ps EXCEPT ![p] = r3] /\ r3.fees = old.fees
      /\ r3.quantity = q /\ r3.cost = k /\ (r3.quantity = 0 => r3.cost = 0)
  BY <1>3, <1>4, <1>5, <1>6, <1>7, <1>8
<1> QED
  BY <1>2, <1>8, <1>9 DEF old, q, k, z, d

LEMMA FillRow ==
    ASSUME NEW ps \in Books, NEW p \in Keys, NEW s, s.value \in Nat, s.fee \in Nat, s.amountOut \in Nat
    PROVE  \E entry \in PositionRows :
             /\ FillMetrics(ps, p, s) = [ps EXCEPT ![p] = entry]
             /\ entry.quantity = ps[p].quantity /\ entry.cost = ps[p].cost
             /\ entry.realized = ps[p].realized /\ entry.fees = ps[p].fees + s.fee
<1> DEFINE old == ps[p]
           v == old.volume + s.value
           f == old.fees + s.fee
           n == old.fills + 1
           m == old.filled + s.amountOut
           entry == [old EXCEPT !.volume = v, !.fees = f, !.fills = n, !.filled = m]
           r1 == [old EXCEPT !.volume = v]
           r2 == [r1 EXCEPT !.fees = f]
           r3 == [r2 EXCEPT !.fills = n]
           r4 == [r3 EXCEPT !.filled = m]
<1>1. old \in PositionRows
  BY DEF Books
<1>2. FillMetrics(ps, p, s) = [ps EXCEPT ![p] = entry]
  BY DEF FillMetrics
<1> HIDE DEF old
<1>3. v \in Nat /\ f \in Nat /\ n \in Nat /\ m \in Nat
  BY <1>1 DEF PositionRows
<1> HIDE DEF v, f, n, m
<1>4. entry = r4
  BY <1>1, <1>3 DEF PositionRows
<1>5. /\ r1 \in PositionRows /\ r1.quantity = old.quantity /\ r1.cost = old.cost
      /\ r1.realized = old.realized
  BY <1>1, <1>3 DEF PositionRows
<1> HIDE DEF r1, entry
<1>6. /\ r2 \in PositionRows /\ r2.quantity = r1.quantity /\ r2.cost = r1.cost
      /\ r2.realized = r1.realized /\ r2.fees = f
  BY <1>3, <1>5 DEF PositionRows
<1> HIDE DEF r2
<1>7. /\ r3 \in PositionRows /\ r3.quantity = r2.quantity /\ r3.cost = r2.cost
      /\ r3.realized = r2.realized /\ r3.fees = r2.fees
  BY <1>3, <1>6 DEF PositionRows
<1> HIDE DEF r3
<1>8. /\ r4 \in PositionRows /\ r4.quantity = r3.quantity /\ r4.cost = r3.cost
      /\ r4.realized = r3.realized /\ r4.fees = r3.fees
  BY <1>3, <1>7 DEF PositionRows
<1> HIDE DEF r4
<1> QED
  BY <1>2, <1>4, <1>5, <1>6, <1>7, <1>8 DEF old, f

\* A change of a user's positions that moves the balance by d.
Moved(ps, qs, u, d) ==
  /\ qs \in Books /\ EmptyIsFree(qs)
  /\ \A v \in Holders : /\ Balance(ps, v) \in Int
                        /\ Balance(qs, v) = Balance(ps, v) + (IF v = u THEN d ELSE 0)

\* Only the positions kept in dollars count.
LEMMA RowMoves ==
    ASSUME NEW ps \in Books, EmptyIsFree(ps), NEW u \in Holders, NEW a \in Assets, NEW q \in Quotes,
           NEW entry \in PositionRows, entry.quantity = 0 => entry.cost = 0
    PROVE  LET old == ps[<<u, a, q>>]
           IN  Moved(ps, [ps EXCEPT ![<<u, a, q>>] = entry], u,
                     IF q = Usd THEN (entry.realized - old.realized) - (entry.cost - old.cost)
                                       + (entry.fees - old.fees)
                                ELSE 0)
<1> DEFINE p == <<u, a, q>>
           qs == [ps EXCEPT ![p] = entry]
           old == ps[p]
<1>1. p \in Keys
  BY DEF Keys
<1>2. /\ qs \in Books /\ qs[p] = entry
      /\ \A k \in Keys : k # p => qs[k] = ps[k]
  BY <1>1 DEF Books
<1>3. EmptyIsFree(qs)
  <2> HIDE DEF qs
  <2> QED
    BY <1>2 DEF EmptyIsFree
<1>4. CASE q = Usd
  <2>1. \A v \in Holders :
          /\ Balance(ps, v) \in Int
          /\ Balance(qs, v) =
               Balance(ps, v)
                 + (IF v = u THEN (entry.realized - old.realized) - (entry.cost - old.cost)
                                    + (entry.fees - old.fees)
                             ELSE 0)
    BY <1>4, BalanceMoves
  <2> QED
    BY <1>2, <1>3, <1>4, <2>1 DEF Moved
<1>5. CASE q # Usd
  <2>1. \A v \in Holders : Balance(ps, v) \in Int
    BY BalanceMoves
  <2>2. \A v \in Holders, b \in Assets : qs[<<v, b, Usd>>] = ps[<<v, b, Usd>>]
    BY <1>2, <1>5 DEF Keys, Quotes
  <2> HIDE DEF qs
  <2>3. \A v \in Holders : /\ RealizedBy(qs, v) = RealizedBy(ps, v) /\ CostBy(qs, v) = CostBy(ps, v)
                           /\ FeesBy(qs, v) = FeesBy(ps, v)
    BY <2>2 DEF RealizedBy, CostBy, FeesBy
  <2>4. \A v \in Holders : Balance(qs, v) = Balance(ps, v)
    BY <2>3 DEF Balance
  <2>5. Moved(ps, qs, u, 0)
    BY <1>2, <1>3, <2>1, <2>4 DEF Moved
  <2> QED
    BY <1>5, <2>5 DEF qs
<1> QED
  BY <1>4, <1>5

\* Acquiring for a cost, disposing for a value and a fee, and counting a fee.
LEMMA AcquireMoves ==
    ASSUME NEW ps \in Books, EmptyIsFree(ps), NEW u \in Holders, NEW a \in Assets, NEW q \in Quotes,
           NEW m \in Nat, NEW c \in Nat, m = 0 => c = 0
    PROVE  LET qs == Acquire(ps, <<u, a, q>>, m, c)
           IN  /\ Moved(ps, qs, u, IF q = Usd THEN 0 - c ELSE 0)
               /\ qs[<<u, a, q>>].quantity = ps[<<u, a, q>>].quantity + m
<1> DEFINE p == <<u, a, q>>
           old == ps[p]
<1>1. p \in Keys
  BY DEF Keys
<1> HIDE DEF p
<1>2. PICK entry \in PositionRows :
             /\ Acquire(ps, p, m, c) = [ps EXCEPT ![p] = entry]
             /\ entry.quantity = ps[p].quantity + m /\ entry.cost = ps[p].cost + c
             /\ entry.realized = ps[p].realized /\ entry.fees = ps[p].fees
  BY <1>1, AcquireRow
<1>3. /\ old.quantity \in Nat /\ old.cost \in Nat /\ old.realized \in Int /\ old.fees \in Nat
      /\ old.quantity = 0 => old.cost = 0
  BY <1>1 DEF Books, PositionRows, EmptyIsFree
<1>4. entry.quantity = 0 => entry.cost = 0
  BY <1>2, <1>3
<1>5. [ps EXCEPT ![p] = entry][p].quantity = old.quantity + m
  BY <1>1, <1>2 DEF Books
<1>6. (entry.realized - old.realized) - (entry.cost - old.cost) + (entry.fees - old.fees) = 0 - c
  BY <1>2, <1>3
<1>7. Moved(ps, [ps EXCEPT ![p] = entry], u,
            IF q = Usd THEN (entry.realized - old.realized) - (entry.cost - old.cost)
                              + (entry.fees - old.fees)
                       ELSE 0)
  BY <1>4, RowMoves DEF p
<1> HIDE DEF old
<1>8. Moved(ps, [ps EXCEPT ![p] = entry], u, IF q = Usd THEN 0 - c ELSE 0)
  BY <1>6, <1>7
<1> QED
  BY <1>2, <1>5, <1>8 DEF p, old

LEMMA DisposeMoves ==
    ASSUME NEW ps \in Books, EmptyIsFree(ps), NEW u \in Holders, NEW a \in Assets, NEW q \in Quotes,
           NEW m \in Nat, m <= ps[<<u, a, q>>].quantity, NEW v \in Nat, NEW f \in Nat
    PROVE  Moved(ps, Dispose(ps, <<u, a, q>>, m, v, f), u, IF q = Usd THEN v - f ELSE 0)
<1> DEFINE p == <<u, a, q>>
           old == ps[p]
           d == AllocatedCost(ps[p], m)
<1>1. p \in Keys /\ m <= ps[p].quantity
  BY DEF Keys
<1> HIDE DEF p
<1>2. PICK entry \in PositionRows :
             /\ Dispose(ps, p, m, v, f) = [ps EXCEPT ![p] = entry]
             /\ entry.quantity = ps[p].quantity - m /\ entry.cost = ps[p].cost - d
             /\ entry.realized = ps[p].realized + ((v - f) - d) /\ entry.fees = ps[p].fees
             /\ d \in Nat /\ (entry.quantity = 0 => entry.cost = 0)
  BY <1>1, DisposeRow
<1> HIDE DEF d
<1>3. /\ old.quantity \in Nat /\ old.cost \in Nat /\ old.realized \in Int /\ old.fees \in Nat
  BY <1>1 DEF Books, PositionRows
<1>4. (entry.realized - old.realized) - (entry.cost - old.cost) + (entry.fees - old.fees) = v - f
  BY <1>2, <1>3
<1>5. Moved(ps, [ps EXCEPT ![p] = entry], u,
            IF q = Usd THEN (entry.realized - old.realized) - (entry.cost - old.cost)
                              + (entry.fees - old.fees)
                       ELSE 0)
  BY <1>2, RowMoves DEF p
<1> HIDE DEF old
<1>6. Moved(ps, [ps EXCEPT ![p] = entry], u, IF q = Usd THEN v - f ELSE 0)
  BY <1>4, <1>5
<1> QED
  BY <1>2, <1>6 DEF p

LEMMA FillMoves ==
    ASSUME NEW ps \in Books, EmptyIsFree(ps), NEW u \in Holders, NEW a \in Assets,
           NEW s, s.value \in Nat, s.fee \in Nat, s.amountOut \in Nat
    PROVE  Moved(ps, FillMetrics(ps, <<u, a, Usd>>, s), u, s.fee)
<1> DEFINE p == <<u, a, Usd>>
           old == ps[p]
<1>1. p \in Keys /\ Usd \in Quotes
  BY DEF Keys, Quotes
<1> HIDE DEF p
<1>2. PICK entry \in PositionRows :
             /\ FillMetrics(ps, p, s) = [ps EXCEPT ![p] = entry]
             /\ entry.quantity = ps[p].quantity /\ entry.cost = ps[p].cost
             /\ entry.realized = ps[p].realized /\ entry.fees = ps[p].fees + s.fee
  BY <1>1, FillRow
<1>3. /\ old.quantity \in Nat /\ old.cost \in Nat /\ old.realized \in Int /\ old.fees \in Nat
      /\ entry.quantity = 0 => entry.cost = 0
  BY <1>1, <1>2 DEF Books, PositionRows, EmptyIsFree
<1>4. (entry.realized - old.realized) - (entry.cost - old.cost) + (entry.fees - old.fees) = s.fee
  BY <1>2, <1>3
<1>5. Moved(ps, [ps EXCEPT ![p] = entry], u,
            IF Usd = Usd THEN (entry.realized - old.realized) - (entry.cost - old.cost)
                              + (entry.fees - old.fees)
                       ELSE 0)
  BY <1>1, <1>3, RowMoves DEF p
<1> HIDE DEF old
<1>6. Moved(ps, [ps EXCEPT ![p] = entry], u, s.fee)
  BY <1>4, <1>5
<1> QED
  BY <1>2, <1>6 DEF p

\* Changes one after the other add up.
LEMMA MovedOn ==
    ASSUME NEW ps, NEW qs, NEW rs, NEW u, NEW d \in Int, NEW e \in Int,
           Moved(ps, qs, u, d), Moved(qs, rs, u, e)
    PROVE  Moved(ps, rs, u, d + e)
BY DEF Moved

\* A swap: what is realized on the one leg less the fee becomes the cost of the
\* other, and a basis that had to be made up is on record.
LEMMA SwapKeepsLedger ==
    ASSUME LedgerInv, NEW id \in Swaps, RecordSwap(id)
    PROVE  LedgerInv'
<1> DEFINE s == SwapOf[id]
           u == s.user
           sold == <<s.user, s.assetIn, Usd>>
           bought == <<s.user, s.assetOut, Usd>>
           missing == Missing(sold, s.amountIn)
           c == SeedCost(s, missing)
           basis == Acquire(positions, sold, missing, c)
           disposed == Dispose(basis, sold, s.amountIn, s.value, s.fee)
           acquired == Acquire(disposed, bought, s.amountOut, s.value)
           filled == FillMetrics(acquired, bought, s)
<1>1. /\ s.user \in Holders /\ s.assetIn \in Assets /\ s.assetOut \in Assets
      /\ s.amountIn \in Nat /\ s.amountIn > 0 /\ s.amountOut \in Nat /\ s.amountOut > 0
      /\ s.value \in Nat /\ s.fee \in Nat /\ Usd \in Quotes
  BY AnalyticsAssumption DEF LedgerInv, SwapsPay, Quotes
<1>2. /\ events' = events \cup {id} /\ positions' = filled
      /\ coverage' = [coverage EXCEPT ![u].opening = @ \/ missing > 0, ![u].trades = TRUE]
      /\ now' = now /\ marks' = marks /\ cash' = cash
  BY DEF RecordSwap
<1>3. positions \in Books /\ EmptyIsFree(positions)
  BY DEF LedgerInv, StoreTypeOK, Books, Keys
<1>4. sold \in Keys /\ positions[sold].quantity \in Nat
  BY <1>1, <1>3 DEF Keys, Books, PositionRows
<1> HIDE DEF s
<1>5. missing \in Nat /\ s.amountIn <= positions[sold].quantity + missing
  <2> HIDE DEF sold
  <2> QED
    BY <1>1, <1>4 DEF Missing
<1> HIDE DEF missing
<1>6. c \in Nat /\ (missing = 0 => c = 0)
  <2>1. s.value * missing \in Nat /\ (missing = 0 => s.value * missing = 0)
    BY <1>1, <1>5
  <2> QED
    BY <1>1, <2>1, DivFloor DEF SeedCost
<1> HIDE DEF c
<1>7. /\ Moved(positions, basis, u, 0 - c)
      /\ basis[sold].quantity = positions[sold].quantity + missing
  BY <1>1, <1>3, <1>5, <1>6, AcquireMoves
<1> HIDE DEF basis
<1>8. Moved(basis, disposed, u, s.value - s.fee)
  <2>1. basis \in Books /\ EmptyIsFree(basis) /\ s.amountIn <= basis[sold].quantity
    BY <1>5, <1>7 DEF Moved
  <2> QED
    BY <1>1, <2>1, DisposeMoves
<1> HIDE DEF disposed
<1>9. Moved(disposed, acquired, u, 0 - s.value)
  <2>1. disposed \in Books /\ EmptyIsFree(disposed)
    BY <1>8 DEF Moved
  <2> QED
    BY <1>1, <2>1, AcquireMoves
<1> HIDE DEF acquired
<1>10. Moved(acquired, filled, u, s.fee)
  <2>1. acquired \in Books /\ EmptyIsFree(acquired)
    BY <1>9 DEF Moved
  <2> QED
    BY <1>1, <2>1, FillMoves
<1> HIDE DEF filled
<1>11. Moved(positions, filled, u, 0 - c)
  <2>1. /\ 0 - c \in Int /\ s.value - s.fee \in Int /\ 0 - s.value \in Int /\ s.fee \in Int
        /\ (0 - c) + (s.value - s.fee) \in Int
        /\ ((0 - c) + (s.value - s.fee)) + (0 - s.value) \in Int
        /\ (((0 - c) + (s.value - s.fee)) + (0 - s.value)) + s.fee = 0 - c
    BY <1>1, <1>6
  <2>2. Moved(positions, disposed, u, (0 - c) + (s.value - s.fee))
    BY <1>7, <1>8, <2>1, MovedOn
  <2>3. Moved(positions, acquired, u, ((0 - c) + (s.value - s.fee)) + (0 - s.value))
    BY <1>9, <2>1, <2>2, MovedOn
  <2>4. Moved(positions, filled, u, (((0 - c) + (s.value - s.fee)) + (0 - s.value)) + s.fee)
    BY <1>10, <2>1, <2>3, MovedOn
  <2> QED
    BY <2>1, <2>4
<1>12. positions' \in Books /\ EmptyIsFree(positions')
  BY <1>2, <1>11 DEF Moved
<1>13. /\ coverage' \in [Holders -> [opening : BOOLEAN, trades : BOOLEAN, cash : BOOLEAN]]
       /\ \A v \in Holders : ~ coverage'[v].opening => ~ coverage[v].opening /\ (v = u => ~ (missing > 0))
  <2> DEFINE m == missing > 0
  <2>1. m \in BOOLEAN
    OBVIOUS
  <2>2. /\ coverage \in [Holders -> [opening : BOOLEAN, trades : BOOLEAN, cash : BOOLEAN]]
        /\ coverage' = [coverage EXCEPT ![u].opening = @ \/ m, ![u].trades = TRUE]
    BY <1>2 DEF LedgerInv, StoreTypeOK
  <2> HIDE DEF m
  <2>3. coverage' \in [Holders -> [opening : BOOLEAN, trades : BOOLEAN, cash : BOOLEAN]]
    BY <1>1, <2>1, <2>2
  <2>4. \A v \in Holders : ~ coverage'[v].opening => ~ coverage[v].opening /\ (v = u => ~ m)
    BY <1>1, <2>1, <2>2
  <2> QED
    BY <2>3, <2>4 DEF m
<1>14. Reconciled'
  <2> SUFFICES ASSUME NEW v \in Holders, ~ coverage'[v].opening
               PROVE  Balance(positions', v) = cash'[<<v, Usd>>].redeem - cash'[<<v, Usd>>].fund
    BY DEF Reconciled
  <2>1. Balance(positions, v) = cash[<<v, Usd>>].redeem - cash[<<v, Usd>>].fund
    BY <1>13 DEF LedgerInv, Reconciled
  <2>2. v = u => c = 0
    BY <1>5, <1>6, <1>13
  <2>3. Balance(positions', v) = Balance(positions, v)
    BY <1>2, <1>11, <2>2 DEF Moved
  <2> QED
    BY <1>2, <2>1, <2>3
<1>15. StoreTypeOK'
  BY <1>2, <1>12, <1>13 DEF LedgerInv, StoreTypeOK, Books, Keys
<1> QED
  BY <1>2, <1>12, <1>14, <1>15 DEF LedgerInv, SwapsPay

\* A cash flow: a deposit is invested, what is withdrawn is realized.
LEMMA FlowKeepsLedger ==
    ASSUME LedgerInv, NEW n \in Flows, RecordCashFlow(n)
    PROVE  LedgerInv'
<1> DEFINE f == FlowOf[n]
           u == f.user
           marked == MarksAsOf(f.asset, f.time) # {}
           quote == IF marked THEN Usd ELSE f.asset
           price == LatestMark(f.asset, f.time).price
           value == IF marked THEN (f.amount * price) \div PriceScale ELSE f.amount
           p == <<f.user, f.asset, quote>>
           missing == Missing(p, f.amount)
           topped == Acquire(positions, p, missing, 0)
           d == IF quote = Usd THEN (IF f.kind = "fund" THEN 0 - value
                                     ELSE IF f.kind = "redeem" THEN value ELSE 0)
                ELSE 0
<1>1. /\ f.user \in Holders /\ f.asset \in Assets /\ f.amount \in Nat /\ f.time \in Nat
      /\ f.kind \in {"fund", "init_redeem", "redeem"}
      /\ PriceScale \in Nat /\ PriceScale > 0
  BY AnalyticsAssumption DEF CashKinds
<1>2. quote \in Quotes
  BY <1>1 DEF Quotes
<1>3. value \in Nat /\ (f.amount = 0 => value = 0)
  <2>1. CASE marked
    <3>1. price \in Nat
      BY <1>1, <2>1, LatestMarkTyped DEF LedgerInv
    <3> HIDE DEF price
    <3>2. f.amount * price \in Nat /\ (f.amount = 0 => f.amount * price = 0)
      BY <1>1, <3>1
    <3>3. (f.amount * price) \div PriceScale \in Nat
      BY <1>1, <3>2, DivFloor
    <3>4. 0 \div PriceScale = 0
      BY <1>1
    <3> QED
      BY <2>1, <3>2, <3>3, <3>4
  <2> QED
    BY <1>1, <2>1
<1>4. /\ events' = events \cup {n} /\ cash' = [cash EXCEPT ![<<u, quote>>][f.kind] = @ + value]
      /\ f.kind = "fund" => positions' = Acquire(positions, p, f.amount, value)
      /\ f.kind = "redeem" => positions' = Dispose(topped, p, f.amount, value, 0)
      /\ f.kind = "init_redeem" => positions' = positions
      /\ coverage' = [coverage EXCEPT ![u].cash = TRUE]
      /\ now' = now /\ marks' = marks
  BY <1>1 DEF RecordCashFlow
<1>5. positions \in Books /\ EmptyIsFree(positions)
  BY DEF LedgerInv, StoreTypeOK, Books, Keys
<1> HIDE DEF f, marked, quote, price, value
<1>6. p \in Keys /\ positions[p].quantity \in Nat
  BY <1>1, <1>2, <1>5 DEF Keys, Books, PositionRows
<1>7. missing \in Nat /\ f.amount <= positions[p].quantity + missing
  <2> HIDE DEF p
  <2> QED
    BY <1>1, <1>6 DEF Missing
<1> HIDE DEF missing
<1>8. Moved(positions, positions', u, d)
  <2>1. CASE f.kind = "fund"
    <3>1. Moved(positions, Acquire(positions, p, f.amount, value), u, IF quote = Usd THEN 0 - value ELSE 0)
      BY <1>1, <1>2, <1>3, <1>5, AcquireMoves
    <3> QED
      BY <1>4, <2>1, <3>1
  <2>2. CASE f.kind = "redeem"
    <3> DEFINE e == IF quote = Usd THEN value - 0 ELSE 0
               z == IF quote = Usd THEN 0 - 0 ELSE 0
    <3>1. /\ Moved(positions, topped, u, z)
          /\ topped[p].quantity = positions[p].quantity + missing
      BY <1>1, <1>2, <1>5, <1>7, AcquireMoves
    <3> HIDE DEF topped
    <3>2. topped \in Books /\ EmptyIsFree(topped) /\ f.amount <= topped[p].quantity
      BY <1>7, <3>1 DEF Moved
    <3>3. Moved(topped, Dispose(topped, p, f.amount, value, 0), u, e)
      BY <1>1, <1>2, <1>3, <3>2, DisposeMoves
    <3>4. e \in Int /\ z \in Int /\ z + e = d
      BY <1>3, <2>2
    <3> HIDE DEF e, z, d
    <3>5. Moved(positions, Dispose(topped, p, f.amount, value, 0), u, z + e)
      BY <3>1, <3>3, <3>4, MovedOn
    <3> QED
      BY <1>4, <2>2, <3>4, <3>5
  <2>3. CASE f.kind = "init_redeem"
    <3>1. \A v \in Holders : Balance(positions, v) \in Int
      <4>1. positions[p] \in PositionRows
        BY <1>5, <1>6 DEF Books
      <4> QED
        BY <1>1, <1>5, <4>1, BalanceMoves
    <3>2. d = 0
      BY <2>3
    <3> QED
      BY <1>4, <1>5, <2>3, <3>1, <3>2 DEF Moved
  <2> QED
    BY <1>1, <2>1, <2>2, <2>3
<1>9. positions' \in Books /\ EmptyIsFree(positions')
  BY <1>8 DEF Moved
<1>10. /\ cash' \in [Holders \X Quotes -> [fund : Nat, init_redeem : Nat, redeem : Nat]]
       /\ \A v \in Holders :
            cash'[<<v, Usd>>].redeem - cash'[<<v, Usd>>].fund
              = (cash[<<v, Usd>>].redeem - cash[<<v, Usd>>].fund) + (IF v = u THEN d ELSE 0)
  <2> DEFINE k == <<u, quote>>
             r == cash[k]
  <2>1. /\ cash \in [Holders \X Quotes -> [fund : Nat, init_redeem : Nat, redeem : Nat]]
        /\ k \in Holders \X Quotes /\ r \in [fund : Nat, init_redeem : Nat, redeem : Nat]
    BY <1>1, <1>2 DEF LedgerInv, StoreTypeOK
  <2>2. \A v \in Holders : /\ <<v, Usd>> \in Holders \X Quotes
                           /\ cash[<<v, Usd>>].redeem \in Nat /\ cash[<<v, Usd>>].fund \in Nat
    BY <2>1 DEF Quotes
  <2>3. PICK t \in [fund : Nat, init_redeem : Nat, redeem : Nat] :
          /\ cash' = [cash EXCEPT ![k] = t]
          /\ quote = Usd => t.redeem - t.fund = (r.redeem - r.fund) + d
    <3>1. CASE f.kind = "fund"
      <4> DEFINE t == [r EXCEPT !.fund = @ + value]
      <4>1. cash' = [cash EXCEPT ![k] = t]
        BY <1>4, <2>1, <3>1
      <4>2. t \in [fund : Nat, init_redeem : Nat, redeem : Nat] /\ t.redeem = r.redeem
            /\ t.fund = r.fund + value /\ r.fund \in Nat /\ r.redeem \in Nat
        BY <1>3, <2>1
      <4> HIDE DEF t, r
      <4>3. quote = Usd => t.redeem - t.fund = (r.redeem - r.fund) + d
        BY <1>3, <3>1, <4>2
      <4> QED
        BY <4>1, <4>2, <4>3
    <3>2. CASE f.kind = "redeem"
      <4> DEFINE t == [r EXCEPT !.redeem = @ + value]
      <4>1. cash' = [cash EXCEPT ![k] = t]
        BY <1>4, <2>1, <3>2
      <4>2. t \in [fund : Nat, init_redeem : Nat, redeem : Nat] /\ t.fund = r.fund
            /\ t.redeem = r.redeem + value /\ r.fund \in Nat /\ r.redeem \in Nat
        BY <1>3, <2>1
      <4> HIDE DEF t, r
      <4>3. quote = Usd => t.redeem - t.fund = (r.redeem - r.fund) + d
        BY <1>3, <3>2, <4>2
      <4> QED
        BY <4>1, <4>2, <4>3
    <3>3. CASE f.kind = "init_redeem"
      <4> DEFINE t == [r EXCEPT !.init_redeem = @ + value]
      <4>1. cash' = [cash EXCEPT ![k] = t]
        BY <1>4, <2>1, <3>3
      <4>2. t \in [fund : Nat, init_redeem : Nat, redeem : Nat] /\ t.fund = r.fund
            /\ t.redeem = r.redeem /\ r.fund \in Nat /\ r.redeem \in Nat
        BY <1>3, <2>1
      <4> HIDE DEF t, r
      <4>3. quote = Usd => t.redeem - t.fund = (r.redeem - r.fund) + d
        BY <3>3, <4>2
      <4> QED
        BY <4>1, <4>2, <4>3
    <3> QED
      BY <1>1, <3>1, <3>2, <3>3
  <2>4. cash' \in [Holders \X Quotes -> [fund : Nat, init_redeem : Nat, redeem : Nat]]
    BY <2>1, <2>3
  <2>5. ASSUME NEW v \in Holders
        PROVE  cash'[<<v, Usd>>].redeem - cash'[<<v, Usd>>].fund
                 = (cash[<<v, Usd>>].redeem - cash[<<v, Usd>>].fund) + (IF v = u THEN d ELSE 0)
    <3>1. CASE <<v, Usd>> = k
      <4>1. v = u /\ quote = Usd /\ cash'[<<v, Usd>>] = t
        BY <2>1, <2>3, <3>1
      <4> QED
        BY <2>3, <3>1, <4>1
    <3>2. CASE <<v, Usd>> # k
      <4>1. cash'[<<v, Usd>>] = cash[<<v, Usd>>]
        BY <2>1, <2>2, <2>3, <3>2
      <4>2. v = u => d = 0
        BY <3>2
      <4> HIDE DEF d
      <4> QED
        BY <2>2, <2>5, <4>1, <4>2
    <3> QED
      BY <3>1, <3>2
  <2> QED
    BY <2>4, <2>5
<1> HIDE DEF d
<1>11. /\ coverage' \in [Holders -> [opening : BOOLEAN, trades : BOOLEAN, cash : BOOLEAN]]
       /\ \A v \in Holders : ~ coverage'[v].opening => ~ coverage[v].opening
  <2>1. coverage \in [Holders -> [opening : BOOLEAN, trades : BOOLEAN, cash : BOOLEAN]]
    BY DEF LedgerInv, StoreTypeOK
  <2> QED
    BY <1>1, <1>4, <2>1
<1>12. Reconciled'
  <2> SUFFICES ASSUME NEW v \in Holders, ~ coverage'[v].opening
               PROVE  Balance(positions', v) = cash'[<<v, Usd>>].redeem - cash'[<<v, Usd>>].fund
    BY DEF Reconciled
  <2>1. Balance(positions, v) = cash[<<v, Usd>>].redeem - cash[<<v, Usd>>].fund
    BY <1>11 DEF LedgerInv, Reconciled
  <2> QED
    BY <1>8, <1>10, <2>1 DEF Moved
<1>13. StoreTypeOK'
  BY <1>4, <1>9, <1>10, <1>11 DEF LedgerInv, StoreTypeOK, Books, Keys
<1> QED
  BY <1>4, <1>9, <1>12, <1>13 DEF LedgerInv, SwapsPay

\* The clock is no part of StoreTypeOK.
StoreTyped == now \in Nat /\ StoreTypeOK

\* A position that is replaced by a row leaves the table one of rows.
LEMMA RowsStay ==
    ASSUME NEW ps \in Books, NEW p \in Keys, NEW entry \in PositionRows
    PROVE  [ps EXCEPT ![p] = entry] \in Books /\ [ps EXCEPT ![p] = entry][p] = entry
BY DEF Books

\* The empty tables.
LEMMA InitTyped == ASSUME StoreInit PROVE StoreTypeOK
<1>1. EmptyPosition \in PositionRows
  BY DEF EmptyPosition, PositionRows
<1>2. NoCash \in [fund : Nat, init_redeem : Nat, redeem : Nat]
  BY DEF NoCash
<1>3. NoCoverage \in [opening : BOOLEAN, trades : BOOLEAN, cash : BOOLEAN]
  BY DEF NoCoverage
<1>4. positions \in Books
  BY <1>1 DEF StoreInit, Books, Keys
<1>5. marks \in [Assets -> Seq(Marks)] /\ \A a \in Assets : Len(marks[a]) <= MaxMarks
  BY AnalyticsAssumption DEF StoreInit
<1>6. events \subseteq Flows \cup Swaps
  BY DEF StoreInit
<1>7. cash \in [Holders \X Quotes -> [fund : Nat, init_redeem : Nat, redeem : Nat]]
  BY <1>2 DEF StoreInit
<1>8. coverage \in [Holders -> [opening : BOOLEAN, trades : BOOLEAN, cash : BOOLEAN]]
  BY <1>3 DEF StoreInit
<1> QED
  BY <1>4, <1>5, <1>6, <1>7, <1>8 DEF StoreTypeOK, Books, Keys

\* What a swap makes of the positions are rows, whatever was missing.
LEMMA SwapTyped ==
    ASSUME StoreTyped, NEW id \in Swaps, RecordSwap(id)
    PROVE  StoreTyped'
<1> DEFINE s == SwapOf[id]
           u == s.user
           sold == <<s.user, s.assetIn, Usd>>
           bought == <<s.user, s.assetOut, Usd>>
           missing == Missing(sold, s.amountIn)
           c == SeedCost(s, missing)
           basis == Acquire(positions, sold, missing, c)
           disposed == Dispose(basis, sold, s.amountIn, s.value, s.fee)
           acquired == Acquire(disposed, bought, s.amountOut, s.value)
           filled == FillMetrics(acquired, bought, s)
<1>1. /\ s.user \in Holders /\ s.assetIn \in Assets /\ s.assetOut \in Assets
      /\ s.amountIn \in Nat /\ s.amountIn > 0 /\ s.amountOut \in Nat
      /\ s.value \in Nat /\ s.fee \in Nat /\ Usd \in Quotes
  BY AnalyticsAssumption DEF Quotes
<1>2. /\ events' = events \cup {id} /\ positions' = filled
      /\ coverage' = [coverage EXCEPT ![u].opening = @ \/ missing > 0, ![u].trades = TRUE]
      /\ now' = now /\ marks' = marks /\ cash' = cash
  BY DEF RecordSwap
<1>3. positions \in Books /\ sold \in Keys /\ bought \in Keys
  BY <1>1 DEF StoreTyped, StoreTypeOK, Books, Keys
<1>4. positions[sold].quantity \in Nat
  BY <1>3 DEF Books, PositionRows
<1> HIDE DEF s, sold, bought
<1>5. missing \in Nat /\ s.amountIn <= positions[sold].quantity + missing
  BY <1>1, <1>4 DEF Missing
<1> HIDE DEF missing
<1>6. c \in Nat
  <2>1. s.value * missing \in Nat
    BY <1>1, <1>5
  <2> QED
    BY <1>1, <2>1, DivFloor DEF SeedCost
<1> HIDE DEF c
<1>7. basis \in Books /\ s.amountIn <= basis[sold].quantity
  <2>1. PICK entry \in PositionRows :
          /\ basis = [positions EXCEPT ![sold] = entry]
          /\ entry.quantity = positions[sold].quantity + missing
    BY <1>3, <1>5, <1>6, AcquireRow
  <2> HIDE DEF basis
  <2>2. basis \in Books /\ basis[sold] = entry
    BY <1>3, <2>1, RowsStay
  <2> QED
    BY <1>5, <2>1, <2>2
<1> HIDE DEF basis
<1>8. disposed \in Books
  BY <1>1, <1>3, <1>7, DisposeRow, RowsStay
<1> HIDE DEF disposed
<1>9. acquired \in Books
  BY <1>1, <1>3, <1>8, AcquireRow, RowsStay
<1> HIDE DEF acquired
<1>10. filled \in Books
  BY <1>1, <1>3, <1>9, FillRow, RowsStay
<1> HIDE DEF filled
<1>11. coverage' \in [Holders -> [opening : BOOLEAN, trades : BOOLEAN, cash : BOOLEAN]]
  <2> DEFINE m == missing > 0
  <2>1. m \in BOOLEAN
    OBVIOUS
  <2>2. /\ coverage \in [Holders -> [opening : BOOLEAN, trades : BOOLEAN, cash : BOOLEAN]]
        /\ coverage' = [coverage EXCEPT ![u].opening = @ \/ m, ![u].trades = TRUE]
    BY <1>2 DEF StoreTyped, StoreTypeOK
  <2> HIDE DEF m
  <2> QED
    BY <1>1, <2>1, <2>2
<1> QED
  BY <1>2, <1>10, <1>11 DEF StoreTyped, StoreTypeOK, Books, Keys

\* So is what a cash flow makes of them, and its value, at whatever mark, is one.
LEMMA CashTyped ==
    ASSUME StoreTyped, NEW n \in Flows, RecordCashFlow(n)
    PROVE  StoreTyped'
<1> DEFINE f == FlowOf[n]
           u == f.user
           marked == MarksAsOf(f.asset, f.time) # {}
           quote == IF marked THEN Usd ELSE f.asset
           price == LatestMark(f.asset, f.time).price
           value == IF marked THEN (f.amount * price) \div PriceScale ELSE f.amount
           p == <<f.user, f.asset, quote>>
           missing == Missing(p, f.amount)
           topped == Acquire(positions, p, missing, 0)
           k == <<u, quote>>
<1>1. /\ f.user \in Holders /\ f.asset \in Assets /\ f.amount \in Nat /\ f.time \in Nat
      /\ f.kind \in {"fund", "init_redeem", "redeem"}
      /\ PriceScale \in Nat /\ PriceScale > 0
  BY AnalyticsAssumption DEF CashKinds
<1>2. quote \in Quotes
  BY <1>1 DEF Quotes
<1>3. value \in Nat
  <2>1. CASE marked
    <3>1. price \in Nat
      BY <1>1, <2>1, LatestMarkTyped DEF StoreTyped
    <3> HIDE DEF price
    <3>2. f.amount * price \in Nat
      BY <1>1, <3>1
    <3> QED
      BY <1>1, <2>1, <3>2, DivFloor
  <2> QED
    BY <1>1, <2>1
<1>4. /\ events' = events \cup {n} /\ cash' = [cash EXCEPT ![k][f.kind] = @ + value]
      /\ f.kind = "fund" => positions' = Acquire(positions, p, f.amount, value)
      /\ f.kind = "redeem" => positions' = Dispose(topped, p, f.amount, value, 0)
      /\ f.kind = "init_redeem" => positions' = positions
      /\ coverage' = [coverage EXCEPT ![u].cash = TRUE]
      /\ now' = now /\ marks' = marks
  BY <1>1 DEF RecordCashFlow
<1>5. positions \in Books /\ p \in Keys /\ k \in Holders \X Quotes
  BY <1>1, <1>2 DEF StoreTyped, StoreTypeOK, Books, Keys
<1>6. positions[p].quantity \in Nat
  BY <1>5 DEF Books, PositionRows
<1> HIDE DEF f, p, quote, value, k
<1>7. missing \in Nat /\ f.amount <= positions[p].quantity + missing
  BY <1>1, <1>6 DEF Missing
<1> HIDE DEF missing
<1>8. topped \in Books /\ f.amount <= topped[p].quantity
  <2>1. PICK entry \in PositionRows :
          /\ topped = [positions EXCEPT ![p] = entry]
          /\ entry.quantity = positions[p].quantity + missing
    BY <1>5, <1>7, AcquireRow
  <2> HIDE DEF topped
  <2>2. topped \in Books /\ topped[p] = entry
    BY <1>5, <2>1 DEF Books
  <2> QED
    BY <1>7, <2>1, <2>2
<1> HIDE DEF topped
<1>9. positions' \in Books
  <2>1. Acquire(positions, p, f.amount, value) \in Books
    BY <1>1, <1>3, <1>5, AcquireRow, RowsStay
  <2>2. Dispose(topped, p, f.amount, value, 0) \in Books
    <3>1. PICK entry \in PositionRows :
            Dispose(topped, p, f.amount, value, 0) = [topped EXCEPT ![p] = entry]
      <4>1. 0 \in Nat /\ f.amount \in Nat
        BY <1>1
      <4> QED
        BY <1>3, <1>5, <1>8, <4>1, DisposeRow
    <3> QED
      BY <1>5, <1>8, <3>1 DEF Books
  <2> QED
    BY <1>1, <1>4, <1>5, <2>1, <2>2
<1>10. cash' \in [Holders \X Quotes -> [fund : Nat, init_redeem : Nat, redeem : Nat]]
  <2>1. cash \in [Holders \X Quotes -> [fund : Nat, init_redeem : Nat, redeem : Nat]]
    BY DEF StoreTyped, StoreTypeOK
  <2>2. cash[k] \in [fund : Nat, init_redeem : Nat, redeem : Nat]
    BY <1>5, <2>1
  <2> DEFINE w == cash[k][f.kind] + value
  <2>3. w \in Nat
    BY <1>1, <1>3, <2>2
  <2>4. cash' = [cash EXCEPT ![k] = [cash[k] EXCEPT ![f.kind] = w]]
    BY <1>4, <1>5, <2>1
  <2> HIDE DEF w
  <2>5. [cash[k] EXCEPT ![f.kind] = w] \in [fund : Nat, init_redeem : Nat, redeem : Nat]
    BY <1>1, <2>2, <2>3
  <2> QED
    BY <1>5, <2>1, <2>4, <2>5
<1>11. coverage' \in [Holders -> [opening : BOOLEAN, trades : BOOLEAN, cash : BOOLEAN]]
  BY <1>1, <1>4 DEF StoreTyped, StoreTypeOK
<1> QED
  BY <1>4, <1>9, <1>10, <1>11 DEF StoreTyped, StoreTypeOK, Books, Keys

\* A mark is one of the asset's, up to the bound.
LEMMA MarkTyped ==
    ASSUME StoreTyped, NEW a \in Assets, NEW price \in Prices, RecordMark(a, price)
    PROVE  StoreTyped'
<1> DEFINE e == [time |-> now, price |-> price]
           m == Append(marks[a], e)
<1>1. /\ Len(marks[a]) < MaxMarks /\ marks' = [marks EXCEPT ![a] = m]
      /\ now' = now /\ events' = events /\ positions' = positions /\ cash' = cash
      /\ coverage' = coverage
  BY DEF RecordMark
<1>2. e \in Marks
  BY AnalyticsAssumption DEF Marks, StoreTyped
<1>3. /\ marks \in [Assets -> Seq(Marks)] /\ MaxMarks \in Nat
      /\ \A b \in Assets : Len(marks[b]) <= MaxMarks
  BY AnalyticsAssumption DEF StoreTyped, StoreTypeOK
<1> HIDE DEF e
<1>4. m \in Seq(Marks) /\ Len(m) <= MaxMarks
  <2>1. marks[a] \in Seq(Marks)
    BY <1>3
  <2> QED
    BY <1>1, <1>2, <1>3, <2>1
<1> HIDE DEF m
<1>5. marks' \in [Assets -> Seq(Marks)] /\ \A b \in Assets : Len(marks'[b]) <= MaxMarks
  BY <1>1, <1>3, <1>4
<1> QED
  BY <1>1, <1>5 DEF StoreTyped, StoreTypeOK

\* No sale, withdrawal or rounding of average cost takes a position's quantity, its cost
\* or the fees below zero, whatever opening basis was missing (apply_acquire,
\* apply_dispose, record_swap, record_cash_flow).
THEOREM StoreTypeCorrect == StoreSpec => []StoreTypeOK
<1>1. StoreTyped /\ [StoreNext]_<<now, storeVars>> => StoreTyped'
  <2> SUFFICES ASSUME StoreTyped, [StoreNext]_<<now, storeVars>> PROVE StoreTyped'
    OBVIOUS
  <2>1. CASE StoreTick \/ UNCHANGED <<now, storeVars>>
    <3>1. /\ now' \in Nat
          /\ marks' = marks /\ events' = events /\ positions' = positions /\ cash' = cash
          /\ coverage' = coverage
      BY <2>1 DEF StoreTick, ClockAdvances, storeVars, StoreTyped
    <3> QED
      BY <3>1 DEF StoreTyped, StoreTypeOK
  <2> QED
    BY <2>1, MarkTyped, SwapTyped, CashTyped DEF StoreNext
<1>2. now = 0 /\ StoreInit => StoreTyped
  BY InitTyped DEF StoreTyped
<1> QED
  BY <1>1, <1>2, PTL DEF StoreSpec, StoreTyped

\* Every step keeps the ledger.
LEMMA StepLedger == LedgerInv /\ [StoreNext]_<<now, storeVars>> => LedgerInv'
<1> SUFFICES ASSUME LedgerInv, [StoreNext]_<<now, storeVars>> PROVE LedgerInv'
  OBVIOUS
<1>1. ASSUME NEW a \in Assets, NEW price \in Prices, RecordMark(a, price) PROVE LedgerInv'
  <2>1. /\ Len(marks[a]) < MaxMarks
        /\ marks' = [marks EXCEPT ![a] = Append(marks[a], [time |-> now, price |-> price])]
        /\ now' = now /\ events' = events /\ positions' = positions /\ cash' = cash
        /\ coverage' = coverage
    BY <1>1 DEF RecordMark
  <2>2. StoreTypeOK'
    BY <1>1, MarkTyped DEF StoreTyped, LedgerInv
  <2> QED
    BY <2>1, <2>2 DEF LedgerInv, SwapsPay, Reconciled
<1>2. ASSUME NEW id \in Swaps, RecordSwap(id) PROVE LedgerInv'
  BY <1>2, SwapKeepsLedger
<1>3. ASSUME NEW n \in Flows, RecordCashFlow(n) PROVE LedgerInv'
  BY <1>3, FlowKeepsLedger
<1>4. CASE StoreTick
  <2>1. /\ now' \in Nat
        /\ marks' = marks /\ events' = events /\ positions' = positions /\ cash' = cash
        /\ coverage' = coverage
    BY <1>4 DEF StoreTick, ClockAdvances, storeVars, LedgerInv
  <2>2. StoreTypeOK'
    BY <2>1 DEF LedgerInv, StoreTypeOK
  <2> QED
    BY <2>1, <2>2 DEF LedgerInv, SwapsPay, Reconciled
<1>5. CASE UNCHANGED <<now, storeVars>>
  <2>1. /\ now' = now
        /\ marks' = marks /\ events' = events /\ positions' = positions /\ cash' = cash
        /\ coverage' = coverage
    BY <1>5 DEF storeVars
  <2>2. StoreTypeOK'
    BY <2>1 DEF LedgerInv, StoreTypeOK
  <2> QED
    BY <2>1, <2>2 DEF LedgerInv, SwapsPay, Reconciled
<1> QED
  BY <1>1, <1>2, <1>3, <1>4, <1>5 DEF StoreNext

\* The empty journal balances.
LEMMA InitLedger == SwapsPay /\ now = 0 /\ StoreInit => LedgerInv
<1> SUFFICES ASSUME SwapsPay, now = 0, StoreInit PROVE LedgerInv
  OBVIOUS
<1>1. /\ EmptyPosition \in PositionRows /\ EmptyPosition.quantity = 0 /\ EmptyPosition.cost = 0
      /\ EmptyPosition.realized = 0 /\ EmptyPosition.fees = 0
  BY DEF EmptyPosition, PositionRows
<1>2. /\ NoCash \in [fund : Nat, init_redeem : Nat, redeem : Nat]
      /\ NoCash.fund = 0 /\ NoCash.redeem = 0
  BY DEF NoCash
<1>3. NoCoverage \in [opening : BOOLEAN, trades : BOOLEAN, cash : BOOLEAN]
  BY DEF NoCoverage
<1>4. positions \in Books /\ \A k \in Keys : positions[k] = EmptyPosition
  BY <1>1 DEF StoreInit, Books, Keys
<1>5. EmptyIsFree(positions)
  BY <1>1, <1>4 DEF EmptyIsFree
<1>6. StoreTypeOK
  BY InitTyped
<1>7. Reconciled
  <2> SUFFICES ASSUME NEW u \in Holders
               PROVE  Balance(positions, u) = cash[<<u, Usd>>].redeem - cash[<<u, Usd>>].fund
    BY DEF Reconciled
  <2> DEFINE zero == [a \in Assets |-> 0]
  <2>1. \A a \in Assets : <<u, a, Usd>> \in Keys
    BY DEF Keys, Quotes
  <2>2. RealizedBy(positions, u) = zero /\ CostBy(positions, u) = zero /\ FeesBy(positions, u) = zero
    BY <1>1, <1>4, <2>1 DEF RealizedBy, CostBy, FeesBy
  <2>3. Total(zero) = 0
    <3>1. Units(zero) = {}
      BY DEF Units
    <3> QED
      BY <3>1, FS_EmptySet DEF Total
  <2>4. IntTotal(zero) = 0
    <3>1. /\ [x \in DOMAIN zero |-> Above(zero[x])] = zero
          /\ [x \in DOMAIN zero |-> Below(zero[x])] = zero
      BY DEF Above, Below
    <3> HIDE DEF zero
    <3> QED
      BY <2>3, <3>1 DEF IntTotal
  <2> HIDE DEF zero
  <2>5. Balance(positions, u) = 0
    BY <2>2, <2>3, <2>4 DEF Balance
  <2>6. cash[<<u, Usd>>] = NoCash
    BY DEF StoreInit, Quotes
  <2> QED
    BY <1>2, <2>5, <2>6
<1> QED
  BY <1>5, <1>6, <1>7 DEF LedgerInv

\* What a summary leaves out for want of a mark is empty, and so has no cost.
LEMMA LedgerReconciles == LedgerInv => BooksReconcile
<1> SUFFICES ASSUME LedgerInv, NEW u \in Holders, ~ coverage[u].opening, AllMarked(u)
             PROVE  TotalPnl(u) = ((Worth(u) + cash[<<u, Usd>>].redeem) - cash[<<u, Usd>>].fund)
                                    - FeesPaid(u)
  BY DEF BooksReconcile
<1>1. /\ positions \in Books
      /\ \A a \in Assets : <<u, a, Usd>> \in Keys /\ positions[<<u, a, Usd>>] \in PositionRows
  BY DEF LedgerInv, StoreTypeOK, Books, Keys, Quotes
<1>2. \A a \in Assets : /\ positions[<<u, a, Usd>>].quantity \in Nat
                        /\ positions[<<u, a, Usd>>].cost \in Nat
                        /\ positions[<<u, a, Usd>>].realized \in Int
                        /\ positions[<<u, a, Usd>>].fees \in Nat
  BY <1>1 DEF PositionRows
<1>3. \A a \in Assets : ~ Marked(a) => positions[<<u, a, Usd>>].cost = 0
  <2> SUFFICES ASSUME NEW a \in Assets, ~ Marked(a) PROVE positions[<<u, a, Usd>>].cost = 0
    OBVIOUS
  <2>1. positions[<<u, a, Usd>>].quantity = 0
    BY <1>2 DEF AllMarked
  <2> QED
    BY <1>1, <2>1 DEF LedgerInv, EmptyIsFree
<1>4. Invested(u) = Total(CostBy(positions, u))
  <2>1. [a \in Assets |-> IF Marked(a) THEN positions[<<u, a, Usd>>].cost ELSE 0]
          = CostBy(positions, u)
    BY <1>2, <1>3 DEF CostBy
  <2> QED
    BY <2>1 DEF Invested
<1>5. Realized(u) = IntTotal(RealizedBy(positions, u)) /\ FeesPaid(u) = Total(FeesBy(positions, u))
  BY DEF Realized, RealizedBy, FeesPaid, FeesBy
<1>6. /\ RealizedBy(positions, u) \in [Assets -> Int] /\ CostBy(positions, u) \in [Assets -> Nat]
      /\ FeesBy(positions, u) \in [Assets -> Nat] /\ IsFiniteSet(Assets)
  BY <1>2, AnalyticsAssumption DEF RealizedBy, CostBy, FeesBy
<1>7. Total(CostBy(positions, u)) \in Nat /\ Total(FeesBy(positions, u)) \in Nat
  BY <1>6, TotalFinite
<1>8. IntTotal(RealizedBy(positions, u)) \in Int
  <2> DEFINE g == RealizedBy(positions, u)
             ga == [x \in Assets |-> Above(g[x])]
             gb == [x \in Assets |-> Below(g[x])]
  <2>1. ga \in [Assets -> Nat] /\ gb \in [Assets -> Nat] /\ DOMAIN g = Assets
    BY <1>6 DEF Above, Below
  <2> HIDE DEF ga, gb
  <2>2. Total(ga) \in Nat /\ Total(gb) \in Nat
    BY <1>6, <2>1, TotalFinite
  <2>3. IntTotal(g) = Total(ga) - Total(gb)
    BY <2>1 DEF IntTotal, ga, gb
  <2> QED
    BY <2>2, <2>3
<1>9. Worth(u) \in Nat
  <2> DEFINE w == [a \in Assets |-> IF Marked(a) THEN MarkValue(a, positions[<<u, a, Usd>>].quantity)
                                                ELSE 0]
  <2>1. ASSUME NEW a \in Assets, Marked(a) PROVE MarkValue(a, positions[<<u, a, Usd>>].quantity) \in Nat
    <3> DEFINE price == LatestMark(a, now).price
               q == positions[<<u, a, Usd>>].quantity
    <3>1. price \in Nat
      BY <2>1, LatestMarkTyped DEF LedgerInv, Marked
    <3>2. q \in Nat
      BY <1>2
    <3> HIDE DEF price, q
    <3>3. q * price \in Nat /\ PriceScale \in Nat /\ PriceScale > 0
      BY <3>1, <3>2, AnalyticsAssumption
    <3>4. (q * price) \div PriceScale \in Nat
      BY <3>3, DivFloor
    <3> QED
      BY <3>4 DEF MarkValue, price, q
  <2>2. w \in [Assets -> Nat]
    BY <2>1
  <2> HIDE DEF w
  <2>3. Total(w) \in Nat
    BY <1>6, <2>2, TotalFinite
  <2> QED
    BY <2>3 DEF Worth, w
<1>10. /\ Balance(positions, u) = cash[<<u, Usd>>].redeem - cash[<<u, Usd>>].fund
       /\ cash[<<u, Usd>>].redeem \in Nat /\ cash[<<u, Usd>>].fund \in Nat
  <2>1. Balance(positions, u) = cash[<<u, Usd>>].redeem - cash[<<u, Usd>>].fund
    BY DEF LedgerInv, Reconciled
  <2>2. cash[<<u, Usd>>] \in [fund : Nat, init_redeem : Nat, redeem : Nat]
    BY DEF LedgerInv, StoreTypeOK, Quotes
  <2> QED
    BY <2>1, <2>2
<1> QED
  BY <1>4, <1>5, <1>7, <1>8, <1>9, <1>10 DEF TotalPnl, Balance

\* Whatever the order of the events, the marks and the rounding of average cost,
\* the profit a summary reports is what the positions are worth, plus what was
\* withdrawn, less what was deposited and the fees, for every user no opening
\* basis was made up for, when every swap in the journal paid something out: one
\* that paid nothing, into an asset without a mark, would leave a cost behind that
\* the summary does not read (record_swap, record_cash_flow, user_summary).
THEOREM ProfitReconciles == SwapsPay /\ StoreSpec => []BooksReconcile
BY InitLedger, StepLedger, LedgerReconciles, PTL DEF StoreSpec
=============================================================================
