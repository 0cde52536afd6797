---------------------------- MODULE WorkersProofs ----------------------------
(***************************************************************************)
(* Proofs about the background workers that follow the chain, place the    *)
(* pools and pass the prices on: CashFlows, Liquidity, Provisioning and    *)
(* PriceFeed, for any notes, shards, tapes, crashes and bounds.            *)
(***************************************************************************)
EXTENDS CashFlows, Liquidity, Provisioning, PriceFeed, SharedLemmas

--------------------------------------------------------------------------------
(***************************************************************************)
(* CashFlows.  The cursor moves to the note the worker is at, which is the *)
(* first unread one and in the journal.  The channel holds each flow once, *)
(* and none that is still to be announced, so a flow is either outstanding *)
(* or the engine has had its one chance to count it.  The mirror counts    *)
(* the flows that are not outstanding, those of twice once more, and not   *)
(* those of missed; a step changes the count of one flow at most.          *)
(***************************************************************************)
CashNotes == {n \in VaultNotes : NoteOf[n].kind \in FlowKinds}
Before(m, n) == After(Key(n), Key(m))
Announcing(n) == worker = [note |-> n, step |-> "announce"]
InNews(n) == \E i \in DOMAIN news : news[i] = n

FlowTypes ==
  /\ tip \in Nat /\ visible \in Nat /\ visible <= tip
  /\ cursor \in Nat \X Nat /\ cursor[1] <= visible
  /\ DOMAIN journal \subseteq CashNotes
  /\ worker = Idle \/ worker \in [note : CashNotes, step : {"announce", "advance"}]
  /\ news \in Seq(CashNotes)

WorkerAtNext ==
  worker # Idle => worker.note \in NextNote /\ worker.note \in DOMAIN journal

JournalSeen == \A n \in DOMAIN journal : NoteOf[n].block <= visible

NewsOnce ==
  /\ \A i \in DOMAIN news : news[i] \in DOMAIN journal
  /\ \A i, j \in DOMAIN news : news[i] = news[j] => i = j
  /\ \A n : Announcing(n) => ~ InNews(n)

ReaderInv == FlowTypes /\ WorkerAtNext /\ NoFlowPassedOver /\ JournalSeen /\ NewsOnce

\* How often the mirror counts each flow.
Counted ==
  [n \in Moves |-> IF n \notin FlowsUpTo(tip) \ missed THEN 0
                   ELSE (IF n \in Outstanding THEN 0 ELSE 1) + (IF n \in twice THEN 1 ELSE 0)]

MirrorCounted ==
  /\ mirror \in Nat \cup {Cold} /\ clipped \in Nat
  /\ twice \subseteq FlowsUpTo(tip) /\ missed \subseteq FlowsUpTo(tip) \ Outstanding
  /\ mirror = Cold \/ mirror = clipped + BalanceOf(Counted)

FlowInv == ReaderInv /\ MirrorCounted

\* NoteCursor's order on the notes is total and strict, and follows the blocks.
LEMMA NoteOrder ==
    /\ \A m, n \in VaultNotes : m # n => Before(m, n) \/ Before(n, m)
    /\ \A m, n \in VaultNotes :
         Before(m, n) => m # n /\ ~ Before(n, m) /\ NoteOf[m].block <= NoteOf[n].block
    /\ \A m, n \in VaultNotes : NoteOf[m].block < NoteOf[n].block => Before(m, n)
    /\ \A l, m, n \in VaultNotes : Before(l, m) /\ Before(m, n) => Before(l, n)
<1>1. \A n \in VaultNotes : n \in Nat /\ NoteOf[n].block \in Nat
  BY CashFlowsAssumption
<1>2. \A m, n \in VaultNotes :
        Before(m, n) <=> \/ NoteOf[n].block > NoteOf[m].block
                         \/ NoteOf[n].block = NoteOf[m].block /\ n > m
  BY DEF Before, After, Key
<1> QED
  BY <1>1, <1>2

\* Every cash flow before the next note is in the journal.
LEMMA BeforeNext ==
    ASSUME FlowTypes, NoFlowPassedOver, NEW n \in NextNote, NEW m \in CashNotes, Before(m, n)
    PROVE  m \in DOMAIN journal
<1>1. n \in VaultNotes /\ m \in VaultNotes /\ NoteOf[n].block <= visible
  BY DEF NextNote, Unread, CashNotes
<1>2. NoteOf[m].block <= NoteOf[n].block /\ m # n /\ ~ Before(n, m)
  BY <1>1, NoteOrder
<1>3. NoteOf[m].block <= visible
  <2>1. NoteOf[m].block \in Nat /\ NoteOf[n].block \in Nat /\ visible \in Nat
    BY <1>1, CashFlowsAssumption DEF FlowTypes
  <2> QED
    BY <2>1, <1>1, <1>2
<1>4. ~ After(Key(m), cursor)
  BY <1>1, <1>2, <1>3 DEF NextNote, Unread, Before
<1> QED
  BY <1>1, <1>4 DEF NoFlowPassedOver, CashNotes

\* A cursor at the next note passes nothing over, if the note itself is done.
LEMMA CursorMoves ==
    ASSUME FlowTypes, NoFlowPassedOver, NEW n \in NextNote, cursor' = Key(n), journal' = journal,
           n \in CashNotes => n \in DOMAIN journal
    PROVE  /\ NoFlowPassedOver'
           /\ cursor' \in Nat \X Nat /\ cursor'[1] <= visible
<1>1. n \in VaultNotes /\ NoteOf[n].block <= visible /\ n \in Nat /\ NoteOf[n].block \in Nat
  BY CashFlowsAssumption DEF NextNote, Unread
<1>2. ASSUME NEW m \in VaultNotes, NoteOf[m].kind \in FlowKinds, ~ After(Key(m), cursor')
      PROVE  m \in DOMAIN journal
  <2>1. m \in CashNotes /\ ~ Before(n, m)
    BY <1>2 DEF CashNotes, Before
  <2>2. m = n \/ Before(m, n)
    BY <1>1, <2>1, NoteOrder
  <2> QED
    BY <2>1, <2>2, BeforeNext
<1>3. NoFlowPassedOver'
  BY <1>2 DEF NoFlowPassedOver, Key, After
<1> QED
  BY <1>1, <1>3 DEF Key

\* The flows outstanding, in terms of the worker and the channel.
LEMMA OutstandingIs ==
    Outstanding = {n \in FlowsUpTo(tip) : n \notin DOMAIN journal \/ Announcing(n) \/ InNews(n)}
BY DEF Outstanding, Announcing, InNews

\* A mirror that is left alone stays right as long as no flow is heard of.
LEMMA MirrorKept ==
    ASSUME MirrorCounted, UNCHANGED <<engineVars, tip>>, Outstanding' = Outstanding
    PROVE  MirrorCounted'
<1>1. UNCHANGED <<mirror, twice, missed, clipped, tip>> /\ FlowsUpTo(tip)' = FlowsUpTo(tip)
  BY DEF engineVars, FlowsUpTo
<1>2. Counted' = Counted
  BY <1>1 DEF Counted
<1>3. BalanceOf(Counted)' = BalanceOf(Counted)
  BY <1>2 DEF BalanceOf
<1> QED
  BY <1>1, <1>3 DEF MirrorCounted

\* Steps that touch none of what the invariant is about.
LEMMA ViewKeeps ==
    ASSUME FlowInv, UNCHANGED <<journal, cursor, worker, news, engineVars, tip>>,
           visible' = visible \/ (worker = Idle /\ visible' = tip)
    PROVE  FlowInv'
<1>1. visible \in Nat /\ tip \in Nat /\ visible <= visible' /\ visible' <= tip' /\ visible' \in Nat
  BY DEF FlowInv, ReaderInv, FlowTypes
<1>2. FlowTypes'
  <2>1. cursor[1] \in Nat /\ cursor[1] <= visible
    BY DEF FlowInv, ReaderInv, FlowTypes
  <2>2. cursor[1] <= visible'
    BY <1>1, <2>1
  <2> QED
    BY <1>1, <2>2 DEF FlowInv, ReaderInv, FlowTypes
<1>3. WorkerAtNext'
  BY DEF FlowInv, ReaderInv, WorkerAtNext, NextNote, Unread, Idle
<1>4. JournalSeen'
  <2>1. \A n \in DOMAIN journal : NoteOf[n].block \in Nat
    BY CashFlowsAssumption DEF FlowInv, ReaderInv, FlowTypes, CashNotes
  <2> QED
    BY <1>1, <2>1 DEF FlowInv, ReaderInv, JournalSeen
<1>5. NoFlowPassedOver' /\ NewsOnce' /\ Outstanding' = Outstanding
  BY DEF FlowInv, ReaderInv, NoFlowPassedOver, NewsOnce, InNews, Announcing, Outstanding, FlowsUpTo
<1>6. MirrorCounted'
  BY <1>5, MirrorKept DEF FlowInv
<1> QED
  BY <1>2, <1>3, <1>4, <1>5, <1>6 DEF FlowInv, ReaderInv

\* The flows of a new block are outstanding.
LEMMA BlockProducedKeeps == ASSUME FlowInv, BlockProduced PROVE FlowInv'
<1>1. UNCHANGED <<journal, cursor, worker, news, visible, mirror, twice, missed, clipped>>
      /\ tip' = tip + 1
  BY DEF BlockProduced, engineVars
<1>2. visible \in Nat /\ tip \in Nat /\ tip' \in Nat /\ visible <= tip /\ visible <= tip'
  BY <1>1 DEF FlowInv, ReaderInv, FlowTypes
<1>3. ReaderInv'
  BY <1>1, <1>2 DEF FlowInv, ReaderInv, FlowTypes, WorkerAtNext, NextNote, Unread, JournalSeen,
     NoFlowPassedOver, NewsOnce, InNews, Announcing
<1>4. \A n \in Moves : n \in VaultNotes /\ NoteOf[n].block \in Nat
  BY CashFlowsAssumption DEF Moves
<1>5. FlowsUpTo(tip) \subseteq FlowsUpTo(tip)'
  BY <1>1, <1>2, <1>4 DEF FlowsUpTo
<1>6. \A n \in Moves : n \notin FlowsUpTo(tip) => n \notin DOMAIN journal
  BY <1>2, <1>4 DEF FlowInv, ReaderInv, JournalSeen, FlowsUpTo
<1>7. \A n \in Moves : n \in Outstanding' <=>
        n \in Outstanding \/ n \in FlowsUpTo(tip)' \ FlowsUpTo(tip)
  BY <1>1, <1>5, <1>6 DEF Outstanding, FlowsUpTo
<1>8. Counted' = Counted
  <2>1. twice \subseteq FlowsUpTo(tip) /\ missed \subseteq FlowsUpTo(tip)
    BY DEF FlowInv, MirrorCounted
  <2> QED
    BY <1>1, <1>5, <1>7, <2>1 DEF Counted
<1>9. BalanceOf(Counted)' = BalanceOf(Counted)
  BY <1>8 DEF BalanceOf
<1>10. MirrorCounted'
  <2>1. missed \subseteq Moves /\ missed \cap Outstanding = {} /\ missed \subseteq FlowsUpTo(tip)
    BY DEF FlowInv, MirrorCounted, FlowsUpTo
  <2>2. missed' \subseteq FlowsUpTo(tip)' \ Outstanding'
    BY <1>1, <1>5, <1>7, <2>1
  <2> QED
    BY <1>1, <1>5, <1>9, <2>2 DEF FlowInv, MirrorCounted
<1> QED
  BY <1>3, <1>10 DEF FlowInv

LEMMA SkipKeeps == ASSUME FlowInv, SkipNote PROVE FlowInv'
<1>1. PICK n \in NextNote : NoteOf[n].kind \in {"foreign", "malformed"} /\ cursor' = Key(n)
  BY DEF SkipNote
<1>2. worker = Idle /\ UNCHANGED <<journal, tip, visible, worker, news, engineVars>>
  BY DEF SkipNote
<1>3. n \notin CashNotes
  BY <1>1 DEF CashNotes, FlowKinds
<1>4. NoFlowPassedOver' /\ cursor' \in Nat \X Nat /\ cursor'[1] <= visible
  BY <1>1, <1>2, <1>3, CursorMoves DEF FlowInv, ReaderInv
<1>5. FlowTypes' /\ WorkerAtNext' /\ JournalSeen' /\ NewsOnce'
  BY <1>2, <1>4 DEF FlowInv, ReaderInv, FlowTypes, WorkerAtNext, JournalSeen, NewsOnce, InNews,
     Announcing
<1>6. MirrorCounted'
  BY <1>2, MirrorKept DEF FlowInv, Outstanding, FlowsUpTo
<1> QED
  BY <1>4, <1>5, <1>6 DEF FlowInv, ReaderInv

\* The flow that is recorded was outstanding and is still to be announced.
LEMMA RecordFlowKeeps == ASSUME FlowInv, RecordNote PROVE FlowInv'
<1>1. PICK n \in NextNote :
        /\ NoteOf[n].kind \in FlowKinds /\ n \notin DOMAIN journal
        /\ worker' = [note |-> n, step |-> "announce"]
        /\ journal' = [e \in DOMAIN journal \cup {n} |->
                        IF e = n THEN EventTime(n) ELSE journal[e]]
  BY DEF RecordNote
<1>2. worker = Idle /\ UNCHANGED <<tip, visible, cursor, news, engineVars>>
  BY DEF RecordNote
<1>3. DOMAIN journal' = DOMAIN journal \cup {n}
  BY <1>1
<1>4. n \in CashNotes /\ NoteOf[n].block <= visible
  BY <1>1 DEF CashNotes, NextNote, Unread
<1>5. (\A m : ~ Announcing(m)) /\ \A m : Announcing(m)' <=> m = n
  BY <1>1, <1>2 DEF Announcing, Idle
<1>6. \A m : InNews(m)' <=> InNews(m)
  BY <1>2 DEF InNews
<1>7. ~ InNews(n)
  BY <1>1 DEF FlowInv, ReaderInv, NewsOnce, InNews
<1>8. FlowTypes'
  BY <1>1, <1>2, <1>3, <1>4 DEF FlowInv, ReaderInv, FlowTypes
<1>9. WorkerAtNext' /\ NoFlowPassedOver' /\ JournalSeen'
  <2>1. NextNote' = NextNote
    BY <1>2 DEF NextNote, Unread
  <2> QED
    BY <1>1, <1>2, <1>3, <1>4, <2>1 DEF FlowInv, ReaderInv, WorkerAtNext, NoFlowPassedOver, JournalSeen
<1>10. NewsOnce'
  BY <1>2, <1>3, <1>5, <1>6, <1>7 DEF FlowInv, ReaderInv, NewsOnce
<1>11. Outstanding' = Outstanding
  BY <1>2, <1>3, <1>5, <1>6, <1>1, OutstandingIs DEF Outstanding, FlowsUpTo, Announcing, InNews
<1> QED
  BY <1>2, <1>8, <1>9, <1>10, <1>11, MirrorKept DEF FlowInv, ReaderInv

\* A flow that is there already goes on to the cursor without an announcement.
LEMMA ReplayKeeps == ASSUME FlowInv, ReplayNote PROVE FlowInv'
<1>1. PICK n \in NextNote : /\ NoteOf[n].kind \in FlowKinds /\ n \in DOMAIN journal
                            /\ worker' = [note |-> n, step |-> "advance"]
  BY DEF ReplayNote
<1>2. worker = Idle /\ UNCHANGED <<journal, tip, visible, cursor, news, engineVars>>
  BY DEF ReplayNote
<1>3. \A m : ~ Announcing(m) /\ ~ Announcing(m)'
  BY <1>1, <1>2 DEF Announcing, Idle
<1>4. FlowTypes' /\ WorkerAtNext' /\ NoFlowPassedOver' /\ JournalSeen'
  BY <1>1, <1>2 DEF FlowInv, ReaderInv, FlowTypes, WorkerAtNext, NoFlowPassedOver, JournalSeen,
     NextNote, Unread, CashNotes
<1>5. \A m : InNews(m)' <=> InNews(m)
  BY <1>2 DEF InNews
<1>6. NewsOnce'
  BY <1>2, <1>3, <1>5 DEF FlowInv, ReaderInv, NewsOnce
<1>7. Outstanding' = Outstanding
  BY <1>2, <1>3, <1>5 DEF Outstanding, FlowsUpTo, Announcing, InNews
<1> QED
  BY <1>2, <1>4, <1>6, <1>7, MirrorKept DEF FlowInv, ReaderInv

\* The announced flow goes to the end of the channel.
LEMMA AnnounceKeeps == ASSUME FlowInv, Announce PROVE FlowInv'
<1> DEFINE n == worker.note
<1>1. /\ worker = [note |-> n, step |-> "announce"] /\ n \in CashNotes
      /\ worker' = [note |-> n, step |-> "advance"]
  BY DEF FlowInv, ReaderInv, FlowTypes, Announce, Idle
<1>2. news' = Append(news, n) /\ UNCHANGED <<journal, tip, visible, cursor, engineVars>>
  BY DEF Announce
<1>3. n \in NextNote /\ n \in DOMAIN journal
  BY <1>1 DEF FlowInv, ReaderInv, WorkerAtNext, Idle
<1>4. Announcing(n) /\ (\A m : Announcing(m) <=> m = n) /\ \A m : ~ Announcing(m)'
  BY <1>1 DEF Announcing
<1>5. ~ InNews(n)
  BY <1>4 DEF FlowInv, ReaderInv, NewsOnce
<1> HIDE DEF n
<1>6. /\ news \in Seq(CashNotes) /\ Len(news) \in Nat /\ DOMAIN news = 1..Len(news)
      /\ news' \in Seq(CashNotes) /\ DOMAIN news' = 1..(Len(news) + 1)
      /\ \A i \in DOMAIN news : news'[i] = news[i]
      /\ news'[Len(news) + 1] = n
  BY <1>1, <1>2 DEF FlowInv, ReaderInv, FlowTypes
<1>7. \A m : InNews(m)' <=> InNews(m) \/ m = n
  BY <1>6 DEF InNews
<1>8. FlowTypes'
  BY <1>1, <1>2, <1>6 DEF FlowInv, ReaderInv, FlowTypes
<1>9. WorkerAtNext' /\ NoFlowPassedOver' /\ JournalSeen'
  BY <1>1, <1>2, <1>3 DEF FlowInv, ReaderInv, WorkerAtNext, NoFlowPassedOver, JournalSeen, NextNote,
     Unread
<1>10. NewsOnce'
  <2>1. \A i \in DOMAIN news' : news'[i] \in DOMAIN journal'
    BY <1>2, <1>3, <1>6 DEF FlowInv, ReaderInv, NewsOnce
  <2>2. \A i \in DOMAIN news' : i \in DOMAIN news \/ i = Len(news) + 1
    BY <1>6
  <2>3. \A i, j \in DOMAIN news' : news'[i] = news'[j] => i = j
    BY <1>5, <1>6, <2>2 DEF FlowInv, ReaderInv, NewsOnce, InNews
  <2> QED
    BY <1>4, <2>1, <2>3 DEF NewsOnce
<1>11. Outstanding' = Outstanding
  BY <1>2, <1>4, <1>7, OutstandingIs DEF Outstanding, FlowsUpTo, Announcing, InNews
<1> QED
  BY <1>2, <1>8, <1>9, <1>10, <1>11, MirrorKept DEF FlowInv, ReaderInv

\* The cursor follows the note that is done.
LEMMA SetNoteCursorKeeps == ASSUME FlowInv, SetNoteCursor PROVE FlowInv'
<1> DEFINE n == worker.note
<1>1. /\ worker = [note |-> n, step |-> "advance"] /\ n \in NextNote /\ n \in DOMAIN journal
      /\ cursor' = Key(n) /\ worker' = Idle
      /\ UNCHANGED <<journal, tip, visible, news, engineVars>>
  BY DEF FlowInv, ReaderInv, FlowTypes, WorkerAtNext, SetNoteCursor, Idle
<1>2. \A m : ~ Announcing(m) /\ ~ Announcing(m)'
  BY <1>1 DEF Announcing, Idle
<1> HIDE DEF n
<1>3. NoFlowPassedOver' /\ cursor' \in Nat \X Nat /\ cursor'[1] <= visible
  BY <1>1, CursorMoves DEF FlowInv, ReaderInv
<1>4. FlowTypes' /\ WorkerAtNext' /\ JournalSeen'
  BY <1>1, <1>3 DEF FlowInv, ReaderInv, FlowTypes, WorkerAtNext, JournalSeen
<1>5. \A m : InNews(m)' <=> InNews(m)
  BY <1>1 DEF InNews
<1>6. NewsOnce'
  BY <1>1, <1>2, <1>5 DEF FlowInv, ReaderInv, NewsOnce
<1>7. Outstanding' = Outstanding
  BY <1>1, <1>2, <1>5 DEF Outstanding, FlowsUpTo, Announcing, InNews
<1> QED
  BY <1>1, <1>3, <1>4, <1>6, <1>7, MirrorKept DEF FlowInv, ReaderInv

\* After a crash the worker starts over from the cursor, with a cold mirror.
LEMMA CrashKeeps == ASSUME FlowInv, WorkerCrash PROVE FlowInv'
<1>1. /\ worker' = Idle /\ news' = <<>> /\ mirror' = Cold
      /\ twice' = {} /\ missed' = {} /\ clipped' = 0
      /\ UNCHANGED <<journal, tip, visible, cursor>>
  BY DEF WorkerCrash
<1>2. FlowTypes' /\ WorkerAtNext' /\ NoFlowPassedOver' /\ JournalSeen'
  BY <1>1 DEF FlowInv, ReaderInv, FlowTypes, WorkerAtNext, NoFlowPassedOver, JournalSeen
<1>3. NewsOnce' /\ MirrorCounted'
  BY <1>1 DEF NewsOnce, MirrorCounted, Announcing, Idle, InNews
<1> QED
  BY <1>2, <1>3 DEF FlowInv, ReaderInv

\* A balance is an integer, and changes by a flow's amount with its count.
LEMMA BalanceChange ==
    ASSUME NEW f \in [Moves -> Int], NEW g \in [Moves -> Int], NEW n \in Moves,
           \A m \in Moves : m # n => g[m] = f[m], g[n] = f[n] + 1
    PROVE  /\ BalanceOf(f) \in Int /\ BalanceOf(g) \in Int /\ NoteOf[n].amount \in Nat
           /\ BalanceOf(g) = BalanceOf(f) + IF NoteOf[n].kind = "fund" THEN NoteOf[n].amount
                                            ELSE - NoteOf[n].amount
<1> DEFINE a(m) == IF NoteOf[m].kind = "fund" THEN NoteOf[m].amount ELSE - NoteOf[m].amount
           F == [m \in Moves |-> f[m] * a(m)]
           G == [m \in Moves |-> g[m] * a(m)]
<1>1. IsFiniteSet(Moves) /\ \A m \in Moves : NoteOf[m].amount \in Nat /\ a(m) \in Int
  <2>1. Moves \subseteq VaultNotes
    BY DEF Moves
  <2>2. IsFiniteSet(Moves)
    BY <2>1, CashFlowsAssumption, FS_Subset
  <2> QED
    BY <2>1, <2>2, CashFlowsAssumption
<1>2. F \in [Moves -> Int] /\ G \in [Moves -> Int]
  <2>1. \A m \in Moves : f[m] \in Int /\ g[m] \in Int /\ a(m) \in Int
    BY <1>1
  <2> HIDE DEF a
  <2> QED
    BY <2>1
<1>3. \A m \in Moves : m # n => G[m] = F[m]
  OBVIOUS
<1>4. G[n] - F[n] = a(n)
  <2>1. f[n] \in Int /\ g[n] = f[n] + 1 /\ a(n) \in Int
    BY <1>1
  <2>2. G[n] = g[n] * a(n) /\ F[n] = f[n] * a(n)
    OBVIOUS
  <2> HIDE DEF a, F, G
  <2>3. (f[n] + 1) * a(n) = f[n] * a(n) + a(n)
    BY <2>1
  <2>4. f[n] * a(n) \in Int
    BY <2>1
  <2> QED
    BY <2>1, <2>2, <2>3, <2>4
<1>5. BalanceOf(f) = IntTotal(F) /\ BalanceOf(g) = IntTotal(G)
  BY DEF BalanceOf
<1>6. a(n) = IF NoteOf[n].kind = "fund" THEN NoteOf[n].amount ELSE - NoteOf[n].amount
  OBVIOUS
<1> HIDE DEF a, F, G
<1>7. IntTotal(F) \in Int /\ IntTotal(G) \in Int /\ IntTotal(G) = IntTotal(F) + (G[n] - F[n])
  BY <1>1, <1>2, <1>3, IntTotalChange
<1> QED
  BY <1>1, <1>4, <1>5, <1>6, <1>7

\* Nothing counted is nothing.
LEMMA BalanceOfNone == BalanceOf([n \in Moves |-> 0]) = 0
<1> DEFINE F == [m \in Moves |-> 0]
<1>1. \A n \in Moves : NoteOf[n].amount \in Nat
  BY CashFlowsAssumption DEF Moves
<1>2. \A n \in Moves : 0 * (IF NoteOf[n].kind = "fund" THEN NoteOf[n].amount
                             ELSE - NoteOf[n].amount) = 0
  BY <1>1
<1>3. BalanceOf([n \in Moves |-> 0]) = IntTotal(F)
  BY <1>2 DEF BalanceOf
<1>4. [x \in DOMAIN F |-> Above(F[x])] = F /\ [x \in DOMAIN F |-> Below(F[x])] = F
  BY DEF Above, Below
<1>5. F \in [Moves -> Nat] /\ \A x \in Moves : F[x] = 0
  OBVIOUS
<1>6. Total(F) = 0
  <2> HIDE DEF F
  <2> QED
    BY <1>5, TotalZero
<1> QED
  BY <1>3, <1>4, <1>6 DEF IntTotal

\* A nonempty set of notes has a last one in the order of NoteCursor: the one that
\* the most come before.
LEMMA LastNote ==
    ASSUME NEW S, S \subseteq VaultNotes, S # {}
    PROVE  \E n \in S : \A m \in S : m = n \/ Before(m, n)
<1> DEFINE Under(n) == {l \in S : Before(l, n)}
           T == {Cardinality(Under(n)) : n \in S}
<1>1. IsFiniteSet(S) /\ Cardinality(S) \in Nat
  BY CashFlowsAssumption, FS_Subset, FS_CardinalityType
<1>2. \A n \in S : /\ IsFiniteSet(Under(n)) /\ Cardinality(Under(n)) \in Nat
                   /\ Cardinality(Under(n)) <= Cardinality(S)
  <2> SUFFICES ASSUME NEW n \in S
               PROVE  /\ IsFiniteSet(Under(n)) /\ Cardinality(Under(n)) \in Nat
                      /\ Cardinality(Under(n)) <= Cardinality(S)
    OBVIOUS
  <2>1. Under(n) \subseteq S
    OBVIOUS
  <2> HIDE DEF Under
  <2> QED
    BY <1>1, <2>1, FS_Subset, FS_CardinalityType
<1>3. \E x \in T : \A y \in T : y <= x
  <2>1. T \subseteq Nat /\ T # {} /\ \A x \in T : x <= Cardinality(S)
    BY <1>2
  <2> HIDE DEF T
  <2> QED
    BY <1>1, <2>1, LargestBelow
<1>4. PICK n \in S : \A m \in S : Cardinality(Under(m)) <= Cardinality(Under(n))
  BY <1>3
<1>5. ASSUME NEW m \in S, m # n, ~ Before(m, n) PROVE FALSE
  <2>1. m \in VaultNotes /\ n \in VaultNotes /\ Before(n, m) /\ ~ Before(n, n)
    BY <1>5, NoteOrder
  <2>2. n \notin Under(n) /\ Under(n) \cup {n} \subseteq Under(m)
    <3>1. \A l \in S : Before(l, n) => Before(l, m)
      BY <2>1, NoteOrder
    <3> QED
      BY <2>1, <3>1
  <2>3. /\ IsFiniteSet(Under(n)) /\ IsFiniteSet(Under(m))
        /\ Cardinality(Under(n)) \in Nat /\ Cardinality(Under(m)) \in Nat
        /\ Cardinality(Under(m)) <= Cardinality(Under(n))
    BY <1>2, <1>4, <1>5
  <2> HIDE DEF Under
  <2>4. Cardinality(Under(n) \cup {n}) = Cardinality(Under(n)) + 1
    BY <2>2, <2>3, FS_AddElement
  <2>5. Cardinality(Under(n) \cup {n}) <= Cardinality(Under(m))
    BY <2>2, <2>3, FS_Subset
  <2> QED
    BY <2>3, <2>4, <2>5
<1> QED
  BY <1>5

\* The vault's answer is never negative: what is consumed at any height is all there is
\* up to the block of its last note, and the vault has not overdrawn there.
LEMMA ChainSolvent == ASSUME tip \in Nat PROVE ChainBalance \in Nat
<1> DEFINE S == FlowsUpTo(tip)
<1>1. S \subseteq VaultNotes /\ \A n \in VaultNotes : NoteOf[n].block \in Nat
  BY CashFlowsAssumption DEF FlowsUpTo, Moves
<1>2. CASE S = {}
  <2>1. Once(S) = [n \in Moves |-> 0]
    BY <1>2 DEF Once
  <2>2. BalanceOf(Once(S)) = 0
    BY <2>1, BalanceOfNone
  <2> QED
    BY <2>2 DEF ChainBalance
<1>3. CASE S # {}
  <2>1. PICK n \in S : \A m \in S : m = n \/ Before(m, n)
    <3> HIDE DEF S
    <3> QED
      BY <1>1, <1>3, LastNote
  <2>2. n \in VaultNotes /\ NoteOf[n].block <= tip /\ NoteOf[n].block \in Nat
    BY <1>1 DEF FlowsUpTo
  <2>3. FlowsUpTo(NoteOf[n].block) = S
    <3>1. ASSUME NEW m \in S PROVE NoteOf[m].block <= NoteOf[n].block
      BY <1>1, <2>1, <2>2, <3>1, NoteOrder
    <3>2. \A m \in Moves : NoteOf[m].block \in Nat
      BY <1>1 DEF Moves
    <3> QED
      BY <2>2, <3>1, <3>2 DEF FlowsUpTo
  <2>4. BalanceOf(Once(S)) >= 0
    BY <2>2, <2>3, SolventAssumption
  <2>5. BalanceOf(Once(S)) \in Int
    <3> DEFINE f == Once(S)
               g == [f EXCEPT ![n] = f[n] + 1]
    <3>1. n \in Moves /\ f \in [Moves -> Int] /\ g \in [Moves -> Int] /\ g[n] = f[n] + 1
          /\ \A m \in Moves : m # n => g[m] = f[m]
      BY DEF Once, FlowsUpTo
    <3> HIDE DEF f, g
    <3>2. BalanceOf(f) \in Int
      BY <3>1, BalanceChange
    <3> QED
      BY <3>2 DEF f
  <2> QED
    BY <2>4, <2>5 DEF ChainBalance
<1> QED
  BY <1>2, <1>3

\* A balance read from the chain counts every consumed flow once, and those that
\* are outstanding will come again.
LEMMA HydrateKeeps == ASSUME FlowInv, Hydrate PROVE FlowInv'
<1>1. /\ mirror' = ChainBalance /\ twice' = Outstanding /\ missed' = {} /\ clipped' = 0
      /\ UNCHANGED <<journal, tip, visible, cursor, worker, news>>
  BY DEF Hydrate
<1>2. ReaderInv'
  BY <1>1 DEF FlowInv, ReaderInv, FlowTypes, WorkerAtNext, NoFlowPassedOver, JournalSeen, NewsOnce,
     NextNote, Unread, InNews, Announcing
<1>3. Outstanding' = Outstanding /\ FlowsUpTo(tip)' = FlowsUpTo(tip)
  BY <1>1 DEF Outstanding, FlowsUpTo
<1>4. Counted' = Once(FlowsUpTo(tip))
  BY <1>1, <1>3 DEF Counted, Once
<1>5. BalanceOf(Counted)' = ChainBalance
  <2>1. BalanceOf(Counted)' = BalanceOf(Counted')
    BY DEF BalanceOf
  <2> QED
    BY <1>4, <2>1 DEF ChainBalance
<1>6. ChainBalance \in Nat
  BY ChainSolvent DEF FlowInv, ReaderInv, FlowTypes
<1>7. Outstanding \subseteq FlowsUpTo(tip)
  BY DEF Outstanding
<1>8. MirrorCounted'
  BY <1>1, <1>3, <1>5, <1>6, <1>7 DEF MirrorCounted
<1> QED
  BY <1>2, <1>8 DEF FlowInv

\* Taking the head of the channel ends the wait of that flow and of no other.
LEMMA HeadHeard ==
    ASSUME FlowInv, news # <<>>, news' = Tail(news),
           UNCHANGED <<journal, tip, visible, cursor, worker>>, NEW n, n = Head(news)
    PROVE  /\ ReaderInv' /\ n \in CashNotes /\ NoteOf[n].amount \in Nat
           /\ FlowsUpTo(tip)' = FlowsUpTo(tip)
           /\ Outstanding' = Outstanding \ {n}
           /\ n \in Moves => n \in Outstanding /\ n \in FlowsUpTo(tip)
<1>1. /\ news \in Seq(CashNotes) /\ Len(news) \in Nat /\ DOMAIN news = 1..Len(news)
      /\ news' \in Seq(CashNotes) /\ DOMAIN news' = 1..(Len(news) - 1)
      /\ \A i \in DOMAIN news' : i + 1 \in DOMAIN news /\ news'[i] = news[i + 1]
      /\ 1 \in DOMAIN news /\ n = news[1] /\ Len(news) >= 1
  BY DEF FlowInv, ReaderInv, FlowTypes
<1>2. n \in CashNotes /\ n \in DOMAIN journal /\ InNews(n)
  BY <1>1 DEF FlowInv, ReaderInv, NewsOnce, InNews
<1>3. \A m : InNews(m)' <=> InNews(m) /\ m # n
  <2>1. ASSUME NEW m, InNews(m)' PROVE InNews(m) /\ m # n
    <3>1. PICK i \in DOMAIN news' : news'[i] = m
      BY <2>1 DEF InNews
    <3>2. i + 1 \in DOMAIN news /\ news[i + 1] = m /\ i + 1 # 1
      BY <1>1, <3>1
    <3> QED
      BY <1>1, <3>2 DEF FlowInv, ReaderInv, NewsOnce, InNews
  <2>2. ASSUME NEW m, InNews(m), m # n PROVE InNews(m)'
    <3>1. PICK i \in DOMAIN news : news[i] = m
      BY <2>2 DEF InNews
    <3>2. i - 1 \in DOMAIN news' /\ news'[i - 1] = m
      <4>1. i # 1 /\ i \in 1..Len(news)
        BY <1>1, <2>2, <3>1
      <4>2. i - 1 \in DOMAIN news'
        BY <1>1, <4>1
      <4> QED
        BY <1>1, <3>1, <4>1, <4>2
    <3> QED
      BY <3>2 DEF InNews
  <2> QED
    BY <2>1, <2>2
<1>4. \A m : Announcing(m)' <=> Announcing(m)
  BY DEF Announcing
<1>5. ~ Announcing(n)
  BY <1>2 DEF FlowInv, ReaderInv, NewsOnce
<1>6. NewsOnce'
  <2>1. \A i \in DOMAIN news' : news'[i] \in DOMAIN journal'
    BY <1>1 DEF FlowInv, ReaderInv, NewsOnce
  <2>2. ASSUME NEW i \in DOMAIN news', NEW j \in DOMAIN news', news'[i] = news'[j] PROVE i = j
    <3>1. i + 1 = j + 1
      BY <1>1, <2>2 DEF FlowInv, ReaderInv, NewsOnce
    <3>2. i \in Nat /\ j \in Nat
      BY <1>1
    <3> QED
      BY <3>1, <3>2
  <2>3. \A m : Announcing(m)' => ~ InNews(m)'
    BY <1>3, <1>4 DEF FlowInv, ReaderInv, NewsOnce
  <2> QED
    BY <2>1, <2>2, <2>3 DEF NewsOnce
<1>7. ReaderInv'
  BY <1>1, <1>6 DEF FlowInv, ReaderInv, FlowTypes, WorkerAtNext, NoFlowPassedOver, JournalSeen,
     NextNote, Unread
<1>8. FlowsUpTo(tip)' = FlowsUpTo(tip)
  BY DEF FlowsUpTo
<1>9. n \in Moves => n \in FlowsUpTo(tip)
  <2>1. NoteOf[n].block <= visible /\ NoteOf[n].block \in Nat /\ visible \in Nat /\ tip \in Nat
        /\ visible <= tip
    BY <1>2, CashFlowsAssumption DEF FlowInv, ReaderInv, FlowTypes, JournalSeen, CashNotes
  <2> QED
    BY <2>1 DEF FlowsUpTo
<1>10. n \in Moves => n \in Outstanding
  BY <1>2, <1>9, OutstandingIs
<1>11. Outstanding' = {m \in FlowsUpTo(tip)' : m \notin DOMAIN journal' \/ Announcing(m)' \/ InNews(m)'}
  BY DEF Outstanding, Announcing, InNews
<1>12. Outstanding' = Outstanding \ {n}
  BY <1>2, <1>3, <1>4, <1>5, <1>8, <1>11, OutstandingIs
<1>13. NoteOf[n].amount \in Nat
  BY <1>2, CashFlowsAssumption DEF CashNotes
<1> QED
  BY <1>2, <1>7, <1>8, <1>9, <1>10, <1>12, <1>13

\* The count of the flow that is applied goes up by one, or starts from nothing.
LEMMA ApplyKeeps == ASSUME FlowInv, ApplyCashFlow PROVE FlowInv'
<1> DEFINE n == Head(news)
           a == NoteOf[n].amount
<1>1. /\ ReaderInv' /\ n \in CashNotes /\ a \in Nat /\ FlowsUpTo(tip)' = FlowsUpTo(tip)
      /\ Outstanding' = Outstanding \ {n}
      /\ n \in Moves => n \in Outstanding /\ n \in FlowsUpTo(tip)
  BY HeadHeard DEF ApplyCashFlow
<1>2. n \in VaultNotes
  BY <1>1 DEF CashNotes
<1>3. /\ mirror \in Nat \cup {Cold} /\ clipped \in Nat /\ twice \subseteq FlowsUpTo(tip)
      /\ missed \subseteq FlowsUpTo(tip) \ Outstanding
      /\ mirror = Cold \/ mirror = clipped + BalanceOf(Counted)
  BY DEF FlowInv, MirrorCounted
<1>4. UNCHANGED tip
  BY DEF ApplyCashFlow
<1>5. BalanceOf(Counted)' = BalanceOf(Counted')
  BY DEF BalanceOf
<1>6. CASE NoteOf[n].kind = "fund" /\ mirror = Cold
  <2>1. mirror' = a /\ missed' = FlowsUpTo(tip) \ Outstanding /\ twice' = {} /\ clipped' = 0
    BY <1>6 DEF ApplyCashFlow
  <2>2. n \in Moves
    BY <1>2, <1>6 DEF Moves
  <2>3. Counted' = [m \in Moves |-> IF m = n THEN 1 ELSE 0]
    BY <1>1, <1>4, <2>1, <2>2 DEF Counted
  <2> DEFINE none == [m \in Moves |-> 0]
  <2>4. /\ none \in [Moves -> Int] /\ Counted' \in [Moves -> Int]
        /\ Counted'[n] = none[n] + 1 /\ \A m \in Moves : m # n => Counted'[m] = none[m]
    BY <2>2, <2>3
  <2>5. BalanceOf(none) = 0
    BY BalanceOfNone
  <2> HIDE DEF none
  <2>6. BalanceOf(Counted') = BalanceOf(none) + a
    BY <1>6, <2>2, <2>4, BalanceChange
  <2>7. mirror' = clipped' + BalanceOf(Counted)'
    BY <1>1, <1>5, <2>1, <2>5, <2>6
  <2>8. missed' \subseteq FlowsUpTo(tip)' \ Outstanding'
    BY <1>1, <2>1
  <2>9. mirror' \in Nat \cup {Cold} /\ clipped' \in Nat /\ twice' \subseteq FlowsUpTo(tip)'
    BY <1>1, <2>1
  <2> QED
    BY <1>1, <2>7, <2>8, <2>9 DEF FlowInv, MirrorCounted
<1>7. CASE mirror # Cold /\ NoteOf[n].kind \in {"fund", "init_redeem"}
  <2> DEFINE amt == IF NoteOf[n].kind = "fund" THEN a ELSE - a
  <2>1. UNCHANGED <<twice, missed>> /\ n \in Moves /\ n \in Outstanding /\ n \in FlowsUpTo(tip)
    BY <1>1, <1>2, <1>7 DEF ApplyCashFlow, Moves
  <2>2. n \notin missed
    BY <1>3, <2>1
  <2>3. /\ Counted \in [Moves -> Int] /\ Counted' \in [Moves -> Int]
        /\ Counted'[n] = Counted[n] + 1 /\ \A m \in Moves : m # n => Counted'[m] = Counted[m]
    BY <1>1, <1>4, <2>1, <2>2 DEF Counted
  <2>4. /\ BalanceOf(Counted) \in Int /\ BalanceOf(Counted') \in Int
        /\ BalanceOf(Counted') = BalanceOf(Counted) + amt
    BY <2>1, <2>3, BalanceChange
  <2>5. mirror \in Nat /\ mirror = clipped + BalanceOf(Counted)
    BY <1>3, <1>7
  <2>6. \/ NoteOf[n].kind = "fund" /\ mirror' = mirror + a /\ clipped' = clipped
        \/ /\ NoteOf[n].kind = "init_redeem" /\ mirror' = Minus(mirror, a)
           /\ clipped' = clipped + (mirror' - (mirror - a))
    BY <1>7 DEF ApplyCashFlow
  <2> HIDE DEF n, a
  <2>7. mirror' \in Nat /\ clipped' \in Nat /\ mirror' = clipped' + BalanceOf(Counted')
    <3>1. CASE NoteOf[n].kind = "fund"
      BY <1>1, <1>3, <2>4, <2>5, <2>6, <3>1
    <3>2. CASE NoteOf[n].kind = "init_redeem" /\ mirror < a
      <4>1. mirror' = 0 /\ clipped' = clipped + (0 - (mirror - a))
        BY <2>6, <3>2 DEF Minus
      <4>2. a \in Nat /\ clipped \in Nat /\ amt = - a
        BY <1>1, <1>3, <3>2
      <4> QED
        BY <2>4, <2>5, <3>2, <4>1, <4>2
    <3>3. CASE NoteOf[n].kind = "init_redeem" /\ ~ mirror < a
      <4>1. mirror' = mirror - a /\ clipped' = clipped + ((mirror - a) - (mirror - a))
        BY <2>6, <3>3 DEF Minus
      <4>2. a \in Nat /\ clipped \in Nat /\ amt = - a
        BY <1>1, <1>3, <3>3
      <4> QED
        BY <2>4, <2>5, <3>3, <4>1, <4>2
    <3> QED
      BY <2>6, <3>1, <3>2, <3>3
  <2>8. MirrorCounted'
    <3>1. missed' \subseteq FlowsUpTo(tip)' \ Outstanding' /\ twice' \subseteq FlowsUpTo(tip)'
      BY <1>1, <1>3, <2>1
    <3> QED
      BY <1>5, <2>7, <3>1 DEF MirrorCounted
  <2> QED
    BY <1>1, <2>8 DEF FlowInv
<1>8. CASE NoteOf[n].kind = "redeem" \/ (NoteOf[n].kind = "init_redeem" /\ mirror = Cold)
  <2>1. UNCHANGED <<mirror, twice, missed, clipped>>
    BY <1>8 DEF ApplyCashFlow, engineVars
  <2>2. missed' \subseteq FlowsUpTo(tip)' \ Outstanding' /\ twice' \subseteq FlowsUpTo(tip)'
    BY <1>1, <1>3, <2>1
  <2>3. CASE mirror = Cold
    BY <1>1, <1>3, <2>1, <2>2, <2>3 DEF FlowInv, MirrorCounted
  <2>4. CASE mirror # Cold
    <3>1. n \notin Moves
      BY <1>8, <2>4 DEF Moves
    <3>2. Outstanding' = Outstanding
      BY <1>1, <3>1 DEF Outstanding, FlowsUpTo
    <3> QED
      BY <1>1, <1>4, <2>1, <3>2, MirrorKept DEF FlowInv, engineVars
  <2> QED
    BY <2>3, <2>4
<1> QED
  BY <1>1, <1>6, <1>7, <1>8 DEF CashNotes, FlowKinds

\* A lost flow is one that the mirror misses, or has counted when it was read.
LEMMA LoseKeeps == ASSUME FlowInv, LoseNews PROVE FlowInv'
<1> DEFINE n == Head(news)
<1>1. /\ ReaderInv' /\ FlowsUpTo(tip)' = FlowsUpTo(tip) /\ Outstanding' = Outstanding \ {n}
      /\ n \in Moves => n \in Outstanding /\ n \in FlowsUpTo(tip)
  BY HeadHeard DEF LoseNews
<1>2. UNCHANGED <<mirror, clipped, tip>>
  BY DEF LoseNews
<1>3. /\ mirror \in Nat \cup {Cold} /\ clipped \in Nat /\ twice \subseteq FlowsUpTo(tip)
      /\ missed \subseteq FlowsUpTo(tip) \ Outstanding
      /\ mirror = Cold \/ mirror = clipped + BalanceOf(Counted)
  BY DEF FlowInv, MirrorCounted
<1>4. CASE mirror = Cold
  <2>1. UNCHANGED <<twice, missed>>
    BY <1>4 DEF LoseNews
  <2>2. missed' \subseteq FlowsUpTo(tip)' \ Outstanding' /\ twice' \subseteq FlowsUpTo(tip)'
    BY <1>1, <1>3, <2>1
  <2> QED
    BY <1>1, <1>2, <1>3, <1>4, <2>2 DEF FlowInv, MirrorCounted
<1>5. CASE mirror # Cold
  <2>1. /\ missed' = missed \cup (({n} \cap Moves) \ twice)
        /\ twice' = twice \ ({n} \cap Moves)
    BY <1>5 DEF LoseNews
  <2>2. missed' \subseteq FlowsUpTo(tip)' \ Outstanding' /\ twice' \subseteq FlowsUpTo(tip)'
    BY <1>1, <1>3, <2>1
  <2>3. n \in Moves => n \notin missed
    BY <1>1, <1>3
  <2>4. Counted' = Counted
    BY <1>1, <1>2, <2>1, <2>3 DEF Counted
  <2>5. BalanceOf(Counted)' = BalanceOf(Counted)
    BY <2>4 DEF BalanceOf
  <2> QED
    BY <1>1, <1>2, <1>3, <2>2, <2>5 DEF FlowInv, MirrorCounted
<1> QED
  BY <1>4, <1>5

\* Every step keeps the invariant.
LEMMA FlowStep == FlowInv /\ [FlowNext]_flowVars => FlowInv'
<1> SUFFICES ASSUME FlowInv, [FlowNext]_flowVars PROVE FlowInv'
  OBVIOUS
<1>1. CASE FirstMark \/ SyncState \/ FlowTick \/ UNCHANGED flowVars
  <2>1. /\ UNCHANGED <<journal, cursor, worker, news, engineVars, tip>>
        /\ visible' = visible \/ (worker = Idle /\ visible' = tip)
    BY <1>1 DEF FirstMark, SyncState, FlowTick, flowVars
  <2> QED
    BY <2>1, ViewKeeps
<1> QED
  BY <1>1, BlockProducedKeeps, SkipKeeps, RecordFlowKeeps, ReplayKeeps, AnnounceKeeps,
     SetNoteCursorKeeps, CrashKeeps, HydrateKeeps, ApplyKeeps, LoseKeeps DEF FlowNext, WorkerStep

\* An empty journal satisfies it.
LEMMA FlowStart == now = 0 /\ FlowInit => FlowInv
<1> SUFFICES ASSUME FlowInit PROVE FlowInv
  OBVIOUS
<1> USE DEF FlowInit
<1>1. FlowTypes /\ WorkerAtNext /\ JournalSeen
  BY DEF FlowTypes, WorkerAtNext, JournalSeen
<1>2. NoFlowPassedOver
  <2>1. \A n \in VaultNotes : After(Key(n), cursor)
    BY CashFlowsAssumption DEF After, Key
  <2> QED
    BY <2>1 DEF NoFlowPassedOver
<1>3. NewsOnce /\ MirrorCounted
  BY DEF NewsOnce, MirrorCounted, InNews, Announcing, Idle
<1> QED
  BY <1>1, <1>2, <1>3 DEF FlowInv, ReaderInv

\* At rest no flow is outstanding.
LEMMA AtRest == FlowInv => MirrorFollowsChain
<1> DEFINE f == [n \in Moves |-> IF n \notin FlowsUpTo(tip) \ missed THEN 0
                                 ELSE IF n \in twice THEN 2 ELSE 1]
<1> SUFFICES ASSUME FlowInv, news = <<>>, worker = Idle, Unread = {}, visible = tip, mirror # Cold
             PROVE  mirror = clipped + BalanceOf(f)
  BY DEF MirrorFollowsChain
<1>1. \A n : ~ InNews(n) /\ ~ Announcing(n)
  BY DEF InNews, Announcing, Idle
<1>2. \A n \in FlowsUpTo(tip) : n \in DOMAIN journal
  BY DEF FlowsUpTo, Moves, Unread, FlowInv, ReaderInv, NoFlowPassedOver, FlowKinds
<1>3. Outstanding = {}
  BY <1>1, <1>2, OutstandingIs
<1>4. Counted = f
  BY <1>3 DEF Counted
<1> QED
  BY <1>4 DEF FlowInv, MirrorCounted

\* The cursor passes no cash flow that is not recorded, for every set of notes, every
\* order of blocks and every point a crash can come at (sync_notes, NoteCursor).
THEOREM FlowsRecorded == FlowSpec => []NoFlowPassedOver
<1>1. FlowInv => NoFlowPassedOver
  BY DEF FlowInv, ReaderInv
<1> QED
  BY <1>1, FlowStart, FlowStep, PTL DEF FlowSpec

\* A caught-up engine answers from a mirror that counts each flow of the chain once, but
\* for flows outstanding when it was read (twice), announcements that were lost or came
\* after a fund on a cold mirror (missed) and deductions cut off at zero (clipped); for
\* every set of notes the vault can have consumed, in every order of execution within a
\* block (balance_of, apply_vault_cashflow_to_balances, sync_notes).
THEOREM MirrorExactAtRest == FlowSpec => []MirrorFollowsChain
  BY FlowStart, FlowStep, AtRest, PTL DEF FlowSpec

\* What the invariant leaves out of FlowTypeOK.
FlowTyped == skips \subseteq VaultNotes /\ crashes \in 0..MaxCrashes /\ priced \in BOOLEAN

LEMMA FlowTypedStep == FlowInv /\ FlowTyped /\ [FlowNext]_flowVars => FlowTyped'
<1> SUFFICES ASSUME FlowInv, FlowTyped, [FlowNext]_flowVars PROVE FlowTyped'
  OBVIOUS
<1>1. CASE SkipNote
  BY <1>1 DEF SkipNote, NextNote, Unread, FlowTyped
<1>2. CASE WorkerCrash
  <2>1. crashes' \in 0..MaxCrashes
    BY <1>2, CashFlowsAssumption DEF WorkerCrash, FlowTyped
  <2> QED
    BY <1>2, <2>1 DEF WorkerCrash, FlowTyped
<1> QED
  BY <1>1, <1>2 DEF FlowNext, FirstMark, BlockProduced, WorkerStep, SyncState, RecordNote,
     ReplayNote, Announce, SetNoteCursor, Hydrate, ApplyCashFlow, LoseNews, FlowTick, flowVars,
     FlowTyped

\* The mirror never falls below zero: neither when it is read from the chain, at
\* whatever height, nor when a withdrawal is more than it holds (balance_of,
\* apply_vault_cashflow_to_balances), and the cursor stays behind the chain.
THEOREM FlowTypeCorrect == FlowSpec => []FlowTypeOK
<1>1. FlowInit => FlowTyped
  <2>1. 0 \in 0..MaxCrashes
    BY CashFlowsAssumption
  <2> QED
    BY <2>1 DEF FlowInit, FlowTyped
<1>2. FlowInv /\ FlowTyped => FlowTypeOK
  BY DEF FlowInv, ReaderInv, MirrorCounted, FlowTypes, FlowTyped, FlowTypeOK, CashNotes, Idle,
     FlowsUpTo, Moves
<1> QED
  BY <1>1, <1>2, FlowStart, FlowStep, FlowTypedStep, PTL DEF FlowSpec

--------------------------------------------------------------------------------
(***************************************************************************)
(* Liquidity.  The cursor moves to where the pass is, so the pass must not *)
(* have gone by a note either; it has a horizon, and what the chain        *)
(* consumes while it runs is beyond both.                                  *)
(***************************************************************************)
Marks == Nat \X Nat

LpTypes ==
  /\ height \in Nat /\ consumedAt \in [LpNotes -> 0..height]
  /\ ops \in [LpNotes -> {"none", "confirmed", "applied", "failed"}]
  /\ fresh \in LpNotes \cup {NoLpNote}
  /\ lpCursor \in Marks /\ lpCursor[1] <= height
  /\ pass.does = "scan" => /\ pass = [does |-> "scan", at |-> pass.at, upTo |-> pass.upTo]
                           /\ pass.at \in Marks /\ pass.at[1] <= height
                           /\ pass.upTo \in 0..height

\* Every note that is not beyond the mark has its row.
JournalledTo(mark) ==
  \A n \in Decodable \ baselined :
    consumedAt[n] > 0 /\ ~ Beyond(LpKey(n), mark) => ops[n] # "none"

LpInv ==
  /\ LpTypes /\ JournalledTo(lpCursor)
  /\ pass.does = "scan" => JournalledTo(pass.at)

\* The key of a note is a mark, and two marks are ordered.
LEMMA MarkFacts ==
    ASSUME LpTypes
    PROVE  /\ \A n \in LpNotes : /\ n \in Nat /\ consumedAt[n] \in Nat /\ consumedAt[n] <= height
                                 /\ LpKey(n) \in Marks
                                 /\ LpKey(n)[1] = consumedAt[n] /\ LpKey(n)[2] = n
           /\ Decodable \subseteq LpNotes
BY LiquidityAssumption DEF LpTypes, LpKey, Marks, Decodable

\* A step that leaves the chain and the marks alone and loses no row.
LEMMA RowsOnly ==
    ASSUME LpInv, UNCHANGED <<height, consumedAt, lpCursor, baselined>>,
           ops' \in [LpNotes -> {"none", "confirmed", "applied", "failed"}],
           \A n \in LpNotes : ops[n] # "none" => ops'[n] # "none",
           fresh' \in LpNotes \cup {NoLpNote},
           pass' = pass \/ pass'.does # "scan"
    PROVE  LpInv'
<1>1. LpTypes'
  BY DEF LpInv, LpTypes
<1>2. Decodable \subseteq LpNotes
  BY DEF Decodable
<1>3. JournalledTo(lpCursor)'
  BY <1>2 DEF LpInv, JournalledTo, LpKey
<1>4. pass'.does = "scan" => JournalledTo(pass.at)'
  BY <1>2 DEF LpInv, JournalledTo, LpKey
<1> QED
  BY <1>1, <1>3, <1>4 DEF LpInv

\* What a new block consumes is beyond the cursor and beyond the pass.
LEMMA BlockKeeps == ASSUME LpInv, NEW ns \in SUBSET LpNotes, ProduceBlock(ns) PROVE LpInv'
<1>1. /\ height \in Nat /\ height' = height + 1
      /\ consumedAt' = [n \in LpNotes |-> IF n \in ns THEN height + 1 ELSE consumedAt[n]]
      /\ UNCHANGED <<lpCursor, ops, pass, fresh, baselined>>
  BY DEF LpInv, LpTypes, ProduceBlock, lpStore, lpWorker, lpRest
<1>2. consumedAt' \in [LpNotes -> 0..height']
  BY <1>1 DEF LpInv, LpTypes
<1>3. LpTypes'
  <2>1. 0..height \subseteq 0..height' /\ \A i \in Int : i <= height => i <= height'
    BY <1>1
  <2>2. lpCursor[1] \in Int /\ (pass.does = "scan" => pass.at[1] \in Int)
    BY DEF LpInv, LpTypes, Marks
  <2> QED
    BY <1>1, <1>2, <2>1, <2>2 DEF LpInv, LpTypes
<1>4. ASSUME NEW mark \in Marks, mark[1] <= height, JournalledTo(mark)
      PROVE  JournalledTo(mark)'
  <2>1. ASSUME NEW n \in LpNotes, n \in ns PROVE Beyond(LpKey(n)', mark)
    <3>1. LpKey(n)'[1] = height + 1 /\ mark[1] \in Nat
      BY <1>1, <2>1 DEF LpKey, Marks
    <3> QED
      BY <1>1, <1>4, <3>1 DEF Beyond
  <2>2. ASSUME NEW n \in LpNotes, n \notin ns PROVE LpKey(n)' = LpKey(n) /\ consumedAt'[n] = consumedAt[n]
    BY <1>1, <2>2 DEF LpKey
  <2>3. Decodable \subseteq LpNotes
    BY DEF Decodable
  <2>4. ASSUME NEW n \in Decodable \ baselined, consumedAt'[n] > 0, ~ Beyond(LpKey(n)', mark)
        PROVE  ops'[n] # "none"
    BY <1>1, <1>4, <2>1, <2>2, <2>3, <2>4 DEF JournalledTo
  <2> QED
    BY <1>1, <2>4 DEF JournalledTo, Beyond
<1>5. JournalledTo(lpCursor)'
  <2>1. lpCursor \in Marks /\ lpCursor[1] <= height /\ JournalledTo(lpCursor) /\ lpCursor' = lpCursor
    BY <1>1 DEF LpInv, LpTypes
  <2> QED
    BY <2>1, <1>4 DEF JournalledTo
<1>6. pass'.does = "scan" => JournalledTo(pass.at)'
  <2>1. ASSUME pass'.does = "scan" PROVE JournalledTo(pass.at)'
    <3>1. pass.at \in Marks /\ pass.at[1] <= height /\ JournalledTo(pass.at) /\ pass' = pass
      BY <1>1, <2>1 DEF LpInv, LpTypes
    <3> QED
      BY <3>1, <1>4 DEF JournalledTo
  <2> QED
    BY <2>1
<1> QED
  BY <1>3, <1>5, <1>6 DEF LpInv

\* A pass starts at the cursor.
LEMMA StartPassKeeps == ASSUME LpInv, StartPass PROVE LpInv'
<1>1. /\ pass' = [does |-> "scan", at |-> lpCursor, upTo |-> height]
      /\ UNCHANGED <<height, consumedAt, lpCursor, ops, fresh, baselined>>
  BY DEF StartPass, lpChain, lpStore, lpRest
<1>2. LpTypes'
  BY <1>1 DEF LpInv, LpTypes
<1>3. JournalledTo(lpCursor)' /\ JournalledTo(pass.at)'
  BY <1>1 DEF LpInv, JournalledTo, LpKey
<1> QED
  BY <1>2, <1>3 DEF LpInv

\* The next note of a pass: nothing before it is without a row, and it gets one.
LEMMA RecordKeeps == ASSUME LpInv, RecordConfirmed PROVE LpInv'
<1>1. PICK n \in NextLpNote :
        /\ pass' = [pass EXCEPT !.at = LpKey(n)]
        /\ IF n \in Decodable /\ ops[n] = "none"
           THEN ops' = [ops EXCEPT ![n] = "confirmed"] /\ fresh' = n
           ELSE UNCHANGED <<ops, fresh>>
  BY DEF RecordConfirmed
<1>2. /\ pass.does = "scan" /\ pass = [does |-> "scan", at |-> pass.at, upTo |-> pass.upTo]
      /\ pass.at \in Marks /\ pass.upTo \in 0..height /\ height \in Nat
      /\ JournalledTo(pass.at) /\ JournalledTo(lpCursor)
      /\ UNCHANGED <<height, consumedAt, lpCursor, baselined>>
  BY DEF LpInv, LpTypes, RecordConfirmed, lpChain, lpRest
<1>3. /\ n \in LpNotes /\ n \in ConsumedBy(pass.upTo)
      /\ \A m \in ConsumedBy(pass.upTo) :
           m # n /\ Beyond(LpKey(m), pass.at) => Beyond(LpKey(m), LpKey(n))
  BY DEF NextLpNote, Ahead, ConsumedBy
<1>4. pass' = [does |-> "scan", at |-> LpKey(n), upTo |-> pass.upTo]
  BY <1>1, <1>2
<1>5. /\ ops' \in [LpNotes -> {"none", "confirmed", "applied", "failed"}]
      /\ fresh' \in LpNotes \cup {NoLpNote}
      /\ \A m \in LpNotes : ops[m] # "none" => ops'[m] # "none"
      /\ n \in Decodable => ops'[n] # "none"
  BY <1>1, <1>3 DEF LpInv, LpTypes
<1>6. LpTypes'
  <2>1. LpKey(n) \in Marks /\ LpKey(n)[1] <= height
    BY <1>3, MarkFacts DEF LpInv
  <2> QED
    BY <1>2, <1>4, <1>5, <2>1 DEF LpInv, LpTypes
<1>7. JournalledTo(lpCursor)'
  <2>1. Decodable \subseteq LpNotes
    BY DEF Decodable
  <2> QED
    BY <1>2, <1>5, <2>1 DEF JournalledTo, LpKey
<1>8. JournalledTo(pass.at)'
  <2>1. ASSUME NEW m \in Decodable \ baselined, consumedAt[m] > 0, ~ Beyond(LpKey(m), LpKey(n))
        PROVE  ops'[m] # "none"
    <3>1. m \in LpNotes /\ m \in Nat /\ n \in Nat /\ consumedAt[m] \in Nat /\ consumedAt[n] \in Nat
      BY <1>3, MarkFacts DEF LpInv
    <3>2. LpKey(m)[1] = consumedAt[m] /\ LpKey(n)[1] = consumedAt[n]
      BY DEF LpKey
    <3>3. consumedAt[n] <= pass.upTo /\ pass.upTo \in Nat
      BY <1>2, <1>3, <3>1 DEF ConsumedBy
    <3>4. CASE m = n
      BY <3>4, <1>5
    <3>5. CASE m # n /\ ~ Beyond(LpKey(m), pass.at)
      BY <3>5, <1>2, <1>5, <2>1, <3>1 DEF JournalledTo
    <3>6. CASE m # n /\ Beyond(LpKey(m), pass.at)
      <4>1. m \notin ConsumedBy(pass.upTo)
        BY <3>6, <1>3, <2>1
      <4>2. consumedAt[m] > pass.upTo
        BY <4>1, <2>1, <3>1, <3>3 DEF ConsumedBy
      <4>3. Beyond(LpKey(m), LpKey(n))
        BY <3>1, <3>2, <3>3, <4>2 DEF Beyond
      <4> QED
        BY <4>3, <2>1
    <3> QED
      BY <3>4, <3>5, <3>6
  <2>2. pass'.at = LpKey(n) /\ UNCHANGED <<consumedAt, baselined>>
    BY <1>2, <1>4
  <2> QED
    BY <2>1, <2>2 DEF JournalledTo, LpKey
<1> QED
  BY <1>6, <1>7, <1>8 DEF LpInv

\* The cursor goes where the pass is.
LEMMA SetCursorKeeps == ASSUME LpInv, SetSyncCursor PROVE LpInv'
<1>1. /\ lpCursor' = pass.at /\ pass.does = "scan" /\ pass' = LpResting
      /\ UNCHANGED <<height, consumedAt, ops, fresh, baselined>>
  BY DEF SetSyncCursor, lpChain, lpRest
<1>2. LpTypes'
  BY <1>1 DEF LpInv, LpTypes, LpResting
<1>3. JournalledTo(lpCursor)'
  BY <1>1 DEF LpInv, JournalledTo, LpKey
<1> QED
  BY <1>1, <1>2, <1>3 DEF LpInv, LpResting

\* A start keeps the cursor, or takes all that is consumed as the baseline.
LEMMA RebootKeeps == ASSUME LpInv, Reboot PROVE LpInv'
<1>1. pass' = LpResting /\ fresh' = NoLpNote /\ UNCHANGED <<height, consumedAt, ops>>
  BY DEF Reboot, lpChain
<1>2. CASE UNCHANGED <<lpCursor, baselined>>
  BY <1>1, <1>2, RowsOnly DEF LpResting, LpInv, LpTypes
<1>3. CASE ~ UNCHANGED <<lpCursor, baselined>>
  <2>1. baselined' = ConsumedBy(height) /\ \E n \in ConsumedBy(height) : lpCursor' = LpKey(n)
    BY <1>3 DEF Reboot
  <2>2. PICK n \in ConsumedBy(height) : lpCursor' = LpKey(n)
    BY <2>1
  <2>3. lpCursor' \in Marks /\ lpCursor'[1] <= height
    BY <2>2, MarkFacts DEF LpInv, ConsumedBy
  <2>4. LpTypes'
    BY <1>1, <2>3 DEF LpInv, LpTypes, LpResting
  <2>5. \A m \in Decodable : consumedAt[m] > 0 => m \in ConsumedBy(height)
    BY MarkFacts DEF LpInv, ConsumedBy, LpTypes
  <2>6. JournalledTo(lpCursor)'
    BY <1>1, <2>1, <2>5 DEF JournalledTo
  <2> QED
    BY <1>1, <2>4, <2>6 DEF LpInv, LpResting
<1> QED
  BY <1>2, <1>3

\* A step between the worker's passes or of the engine alone.
LEMMA AsideKeeps ==
    ASSUME LpInv, UNCHANGED <<height, consumedAt, lpCursor, ops, fresh, baselined>>,
           pass' = pass \/ pass'.does # "scan"
    PROVE  LpInv'
BY RowsOnly DEF LpInv, LpTypes

\* The steps of a checkpoint.
LEMMA CheckpointKeeps ==
    ASSUME LpInv, HearPools \/ ValuePosition \/ ReadVault \/ CheckpointEntitlement \/ RecordCheckpoint
    PROVE  LpInv'
<1>1. UNCHANGED <<height, consumedAt, lpCursor, ops, fresh, baselined>>
  BY DEF HearPools, ValuePosition, ReadVault, CheckpointEntitlement, RecordCheckpoint, lpChain,
         lpStore, lpRest
<1>2. CASE HearPools
  BY <1>1, <1>2, AsideKeeps DEF HearPools
<1>3. CASE ValuePosition \/ RecordCheckpoint
  <2>1. \E at : pass' = LpResting \/ pass' = [does |-> "value", at |-> at, upTo |-> 0]
    BY <1>3 DEF ValuePosition, RecordCheckpoint
  <2> QED
    BY <1>1, <2>1, AsideKeeps DEF LpResting
<1>4. CASE ReadVault \/ CheckpointEntitlement
  <2>1. \/ \E does \in {"send", "record"} : \E upTo :
               pass' = [does |-> does, at |-> pass.at, upTo |-> upTo]
        \/ pass' = LpResting
    BY <1>4 DEF ReadVault, CheckpointEntitlement
  <2> QED
    BY <1>1, <2>1, AsideKeeps DEF LpResting
<1> QED
  BY <1>2, <1>3, <1>4

\* The steps of the engine, which leave the worker alone.
LEMMA EngineKeeps == ASSUME LpInv, LpEngineStep \/ SwapsStart \/ SwapsEnd PROVE LpInv'
<1>1. ASSUME NEW n \in LpNotes, ApplyOperation(n) PROVE LpInv'
  BY <1>1, RowsOnly DEF ApplyOperation, LpInv, LpTypes, lpChain, lpWorker, lpRest
<1>2. ASSUME NEW n \in LpNotes, SaveLpApplication(n) PROVE LpInv'
  BY <1>2, AsideKeeps DEF SaveLpApplication, lpChain, lpStore, lpWorker, lpRest
<1>3. CASE StartVisit \/ DeferVisit \/ VisitFails \/ VisitDone \/ Reconciled \/ SwapsStart \/ SwapsEnd
  <2>1. UNCHANGED <<lpChain, lpStore, lpWorker, lpRest>>
    BY <1>3 DEF StartVisit, DeferVisit, VisitFails, VisitDone, Reconciled, SwapsStart, SwapsEnd
  <2> QED
    BY <2>1, AsideKeeps DEF lpChain, lpStore, lpWorker, lpRest
<1>4. CASE StartupFails
  BY <1>4, RebootKeeps DEF StartupFails
<1> QED
  BY <1>1, <1>2, <1>3, <1>4 DEF LpEngineStep

\* Every step keeps the invariant.
LEMMA LpNextKeeps == LpInv /\ [LpNext]_lpAll => LpInv'
<1> SUFFICES ASSUME LpInv, [LpNext]_lpAll PROVE LpInv'
  OBVIOUS
<1>1. ASSUME NEW n \in LpNotes, NEW m \in LpNotes, ProduceBlock({n, m}) PROVE LpInv'
  BY <1>1, BlockKeeps
<1>2. CASE MarkFailed
  BY <1>2, RowsOnly DEF MarkFailed, LpInv, LpTypes, lpChain, lpRest
<1>3. CASE BroadcastLpChain
  BY <1>3, RowsOnly DEF BroadcastLpChain, LpInv, LpTypes, lpChain, lpStore, lpRest
<1>4. CASE HearPools \/ ValuePosition \/ ReadVault \/ CheckpointEntitlement \/ RecordCheckpoint
  BY <1>4, CheckpointKeeps
<1>5. CASE LpEngineStep \/ SwapsStart \/ SwapsEnd
  BY <1>5, EngineKeeps
<1>6. CASE LpRestart
  BY <1>6, RebootKeeps DEF LpRestart
<1>7. CASE UNCHANGED lpAll
  BY <1>7, AsideKeeps DEF lpAll, lpChain, lpStore, lpWorker, lpRest
<1> QED
  BY <1>1, <1>2, <1>3, <1>4, <1>5, <1>6, <1>7, StartPassKeeps, RecordKeeps, SetCursorKeeps
     DEF LpNext, LpWorkerStep

\* Nothing is consumed yet.
LEMMA LpStart == LpInit => LpInv
BY LiquidityAssumption DEF LpInit, LpInv, LpTypes, JournalledTo, LpResting, Marks, Decodable

\* sync_lp_notes of lp.rs leaves no LP note behind its cursor unrecorded, for any
\* notes, blocks, passes and restarts.
THEOREM LpNotesRecorded == LpSpec => []NoLpNoteMissed
<1>1. LpSpec => []LpInv
  BY LpStart, LpNextKeeps, PTL DEF LpSpec
<1>2. LpInv => NoLpNoteMissed
  BY DEF LpInv, JournalledTo, NoLpNoteMissed
<1> QED
  BY <1>1, <1>2, PTL

\* Who writes the status of a row, the markers and the list of a visit: no row is
\* taken back, a marker is put for a note of the list, and the list is read from the
\* confirmed rows.
LEMMA LpWrites ==
    ASSUME LpInv, [LpNext]_lpAll
    PROVE  /\ \A n \in LpNotes : ops[n] = "failed" => ops'[n] = "failed"
           /\ DOMAIN noted' \subseteq DOMAIN noted \cup visit.todo
           /\ visit'.todo \subseteq visit.todo \cup Confirmed
<1>0. ops \in [LpNotes -> {"none", "confirmed", "applied", "failed"}]
  BY DEF LpInv, LpTypes
<1> DEFINE Done == /\ \A n \in LpNotes : ops[n] = "failed" => ops'[n] = "failed"
                   /\ DOMAIN noted' \subseteq DOMAIN noted \cup visit.todo
                   /\ visit'.todo \subseteq visit.todo \cup Confirmed
<1>1. CASE \E n, m \in LpNotes : ProduceBlock({n, m})
  BY <1>1 DEF ProduceBlock, lpStore, lpEngine, lpBooks
<1>2. CASE RecordConfirmed \/ MarkFailed
  <2>1. UNCHANGED lpEngine
    BY <1>2 DEF RecordConfirmed, MarkFailed
  <2>2. \A n \in LpNotes : ops[n] = "failed" => ops'[n] = "failed"
    <3>1. CASE RecordConfirmed
      BY <1>0, <3>1 DEF RecordConfirmed
    <3>2. CASE MarkFailed
      BY <1>0, <3>2 DEF MarkFailed
    <3> QED
      BY <1>2, <3>1, <3>2
  <2> QED
    BY <2>1, <2>2 DEF lpEngine, lpBooks
<1>3. CASE StartPass \/ BroadcastLpChain \/ SetSyncCursor \/ HearPools \/ ValuePosition \/ ReadVault
           \/ CheckpointEntitlement \/ RecordCheckpoint \/ UNCHANGED lpAll
  <2>1. UNCHANGED <<ops, lpEngine>>
    BY <1>3 DEF StartPass, BroadcastLpChain, SetSyncCursor, HearPools, ValuePosition, ReadVault,
       CheckpointEntitlement, RecordCheckpoint, lpAll, lpStore
  <2> QED
    BY <2>1 DEF lpEngine, lpBooks
<1>4. CASE StartVisit \/ DeferVisit \/ VisitFails \/ VisitDone \/ SwapsStart \/ SwapsEnd \/ Reconciled
  <2>1. UNCHANGED <<ops, noted>>
    BY <1>4 DEF StartVisit, DeferVisit, VisitFails, VisitDone, SwapsStart, SwapsEnd, Reconciled,
       lpStore, lpEngine, lpBooks
  <2>2. visit' = visit \/ visit'.todo \subseteq Confirmed
    BY <1>4 DEF StartVisit, DeferVisit, VisitFails, VisitDone, SwapsStart, SwapsEnd, Reconciled,
       VisitJournal, NoVisit, lpEngine
  <2> QED
    BY <2>1, <2>2
<1>5. CASE Reboot
  BY <1>5 DEF Reboot
<1>6. ASSUME NEW n \in LpNotes, SaveLpApplication(n) PROVE Done
  <2>1. n \in visit.todo /\ DOMAIN noted' = DOMAIN noted \cup {n}
    BY <1>6 DEF SaveLpApplication, Mark, FirstOf
  <2> QED
    BY <1>6, <2>1 DEF SaveLpApplication, lpStore
<1>7. ASSUME NEW n \in LpNotes, ApplyOperation(n) PROVE Done
  <2>1. ops[n] = "confirmed" /\ ops' = [ops EXCEPT ![n] = "applied"] /\ UNCHANGED lpBooks
    BY <1>7 DEF ApplyOperation
  <2>2. visit'.todo = visit.todo \ {n} \/ visit'.todo = visit.todo
    BY <1>7 DEF ApplyOperation
  <2> QED
    BY <1>0, <2>1, <2>2 DEF lpBooks
<1> HIDE DEF Done
<1>8. Done
  BY <1>1, <1>2, <1>3, <1>4, <1>5, <1>6, <1>7
  DEF Done, LpNext, LpWorkerStep, LpEngineStep, LpRestart, StartupFails
<1> QED
  BY <1>8 DEF Done

\* A deposit the worker has rejected stays rejected, gets no shares and is not visited
\* again, unless a visit under way has read its row before the rejection: that one may
\* still mark it (mark_failed, confirmed_operations, apply_lp_chain_event).
THEOREM RejectedStayRejected == LpSpec => RejectionsHold
<1>1. ASSUME LpInv, [LpNext]_lpAll
      PROVE  [\A n \in LpNotes \ visit.todo :
                ops[n] = "failed" /\ n \notin DOMAIN noted =>
                  ops'[n] = "failed" /\ n \notin DOMAIN noted' \cup visit'.todo]_lpAll
  BY <1>1, LpWrites DEF Confirmed
<1>2. LpSpec => []LpInv
  BY LpStart, LpNextKeeps, PTL DEF LpSpec
<1> QED
  BY <1>1, <1>2, PTL DEF LpSpec, RejectionsHold

\* Only a note that decodes has a row: one of neither kind would be burnt unchecked.
RowsDecode == \A n \in LpNotes : ops[n] # "none" => LpNoteOf[n].kind # "malformed"

\* The counters of the vault, and what a checkpoint under way has read.
VaultTyped ==
  /\ withdrawn \in Nat /\ entitlement \in Nat /\ withdrawn <= entitlement
  /\ pass.does \in {"rest", "scan", "value", "send", "record"}
  /\ pass.does \in {"value", "send", "record"} => pass.at \in Nat \X Int
  /\ pass.does = "send" => pass.upTo \in Int

\* The positions and the engine's books.
BooksTyped ==
  /\ position \in [shares : Nat, cpShares : Nat, cpValue : Int]
  /\ DOMAIN noted \subseteq LpNotes /\ \A n \in DOMAIN noted : noted[n] \in Nat
  /\ lpPool \in LpPools /\ told \in LpPools /\ lpLedger \in Nat
  /\ visit \in [does : {"rest", "visit", "reconcile", "recover"}, todo : SUBSET LpNotes]
  /\ lpWoken \in {"no", "event", "retry"} /\ swapsOpen \in BOOLEAN
  /\ lpCrashes \in 0..MaxLpCrashes

LpTyped == RowsDecode /\ VaultTyped /\ BooksTyped

\* The notes of a block are worth a natural number.
LEMMA BlockSum ==
    ASSUME NEW n \in LpNotes, NEW m \in LpNotes, NEW kind
    PROVE  SumOf(Of(kind, {n, m})) \in Nat
<1> DEFINE ns == Of(kind, {n, m})
           f == [l \in ns |-> LpNoteOf[l].amount]
<1>1. ns \subseteq {n} \cup {m} /\ ns \subseteq LpNotes
  BY DEF Of
<1>2. IsFiniteSet({n} \cup {m})
  BY FS_Singleton, FS_Union
<1> HIDE DEF ns
<1>3. IsFiniteSet(ns)
  BY <1>1, <1>2, FS_Subset
<1>4. f \in [ns -> Nat]
  BY <1>1, LiquidityAssumption
<1> QED
  BY <1>3, <1>4, TotalFinite DEF SumOf, ns

\* A row is written for a note that decodes.
LEMMA RowsDecodeStep == LpInv /\ RowsDecode /\ [LpNext]_lpAll => RowsDecode'
<1> SUFFICES ASSUME LpInv, RowsDecode, [LpNext]_lpAll PROVE RowsDecode'
  OBVIOUS
<1>0. ops \in [LpNotes -> {"none", "confirmed", "applied", "failed"}]
  BY DEF LpInv, LpTypes
<1>1. CASE RecordConfirmed
  BY <1>0, <1>1 DEF RecordConfirmed, RowsDecode, Decodable
<1>2. CASE MarkFailed
  BY <1>0, <1>2 DEF MarkFailed, TooSmall, RowsDecode
<1>3. ASSUME NEW n \in LpNotes, ApplyOperation(n) PROVE RowsDecode'
  BY <1>0, <1>3 DEF ApplyOperation, RowsDecode
<1>4. CASE UNCHANGED ops
  BY <1>4 DEF RowsDecode
<1>5. RecordConfirmed \/ MarkFailed \/ (\E n \in LpNotes : ApplyOperation(n)) \/ UNCHANGED ops
  BY DEF LpNext, ProduceBlock, LpWorkerStep, StartPass, BroadcastLpChain, SetSyncCursor, HearPools,
     ValuePosition, ReadVault, CheckpointEntitlement, RecordCheckpoint, LpEngineStep, StartVisit,
     DeferVisit, VisitFails, VisitDone, Reconciled, StartupFails, Reboot, LpRestart,
     SaveLpApplication, SwapsStart, SwapsEnd, lpStore, lpAll
<1> QED
  BY <1>1, <1>2, <1>3, <1>4, <1>5

\* What some shares are worth.
LEMMA PayoutInt ==
    ASSUME NEW pool \in LpPools, NEW s \in Int PROVE Payout(pool, s) \in Int
<1>1. CASE pool.supply = 0
  BY <1>1 DEF Payout
<1>2. CASE pool.supply # 0
  <2>1. pool.supply \in Nat /\ pool.supply > 0 /\ s * pool.worth \in Int
    BY <1>2 DEF LpPools
  <2> QED
    BY <1>2, <2>1 DEF Payout
<1> QED
  BY <1>1, <1>2

\* The shares a deposit gets.
LEMMA MintedNat ==
    ASSUME lpPool \in LpPools, NEW n \in LpNotes PROVE Minted(n) \in Nat
<1>1. LpNoteOf[n].amount \in Nat /\ lpPool.supply \in Nat /\ lpPool.worth \in Int
  BY LiquidityAssumption DEF LpPools
<1>2. LpNoteOf[n].amount * lpPool.supply \in Nat
  BY <1>1
<1> QED
  BY <1>1, <1>2, DivFloor DEF Minted

\* The vault pays within the entitlement, and a checkpoint only raises it.
LEMMA VaultTypedStep == LpInv /\ LpTyped /\ [LpNext]_lpAll => VaultTyped'
<1> SUFFICES ASSUME LpInv, LpTyped, [LpNext]_lpAll PROVE VaultTyped'
  OBVIOUS
<1>1. ASSUME NEW n \in LpNotes, NEW m \in LpNotes, ProduceBlock({n, m}) PROVE VaultTyped'
  <2> DEFINE paid == SumOf(Of("withdraw", {n, m}))
             put == SumOf(Of("deposit", {n, m}))
  <2>1. paid \in Nat /\ put \in Nat
    BY BlockSum
  <2>2. /\ entitlement' = entitlement + put /\ withdrawn' = withdrawn + paid
        /\ withdrawn' <= entitlement' /\ UNCHANGED pass
    BY <1>1 DEF ProduceBlock, lpWorker
  <2> HIDE DEF paid, put
  <2> QED
    BY <2>1, <2>2 DEF LpTyped, VaultTyped
<1>2. CASE RecordConfirmed
  <2>1. PICK at : pass' = [pass EXCEPT !.at = at]
    BY <1>2 DEF RecordConfirmed
  <2>2. pass'.does = "scan"
    BY <1>2, <2>1 DEF RecordConfirmed, LpInv, LpTypes
  <2>3. UNCHANGED lpChain
    BY <1>2 DEF RecordConfirmed
  <2> QED
    BY <2>2, <2>3 DEF LpTyped, VaultTyped, lpChain
<1>3. CASE ReadVault
  <2>1. pass.at \in Nat \X Int /\ pass.at[2] \in Int /\ withdrawn \in Nat
    BY <1>3 DEF ReadVault, LpTyped, VaultTyped
  <2>2. \E does \in {"send", "record"} :
          pass' = [does |-> does, at |-> pass.at, upTo |-> withdrawn + pass.at[2]]
    BY <1>3 DEF ReadVault
  <2>3. withdrawn + pass.at[2] \in Int /\ UNCHANGED lpChain
    BY <1>3, <2>1 DEF ReadVault
  <2> QED
    BY <2>1, <2>2, <2>3 DEF LpTyped, VaultTyped, lpChain
<1>4. CASE CheckpointEntitlement
  <2>1. pass.at \in Nat \X Int /\ pass.upTo \in Int
    BY <1>4 DEF CheckpointEntitlement, LpTyped, VaultTyped
  <2>2. entitlement' \in Nat /\ withdrawn' \in Nat /\ withdrawn' <= entitlement'
    BY <1>4, <2>1 DEF CheckpointEntitlement, LpTyped, VaultTyped
  <2>3. pass' = LpResting \/ pass' = [does |-> "record", at |-> pass.at, upTo |-> pass.upTo]
    BY <1>4 DEF CheckpointEntitlement
  <2> QED
    BY <2>1, <2>2, <2>3 DEF VaultTyped, LpResting
<1>5. CASE ValuePosition
  <2>1. pass' = [does |-> "value", upTo |-> 0,
                 at |-> <<position.shares, Payout(told, position.shares)>>]
    BY <1>5 DEF ValuePosition
  <2>2. position.shares \in Nat /\ Payout(told, position.shares) \in Int
    BY PayoutInt DEF LpTyped, BooksTyped
  <2>3. UNCHANGED lpChain
    BY <1>5 DEF ValuePosition
  <2> QED
    BY <2>1, <2>2, <2>3 DEF LpTyped, VaultTyped, lpChain
<1>6. CASE StartPass \/ SetSyncCursor \/ RecordCheckpoint \/ Reboot
  <2>1. pass'.does \in {"rest", "scan"} /\ UNCHANGED lpChain
    BY <1>6 DEF StartPass, SetSyncCursor, RecordCheckpoint, Reboot, LpResting
  <2> QED
    BY <2>1 DEF LpTyped, VaultTyped, lpChain
<1>7. CASE UNCHANGED <<lpChain, pass>>
  BY <1>7 DEF LpTyped, VaultTyped, lpChain
<1>8. ASSUME NEW n \in LpNotes, SaveLpApplication(n) \/ ApplyOperation(n) PROVE UNCHANGED <<lpChain, pass>>
  BY <1>8 DEF SaveLpApplication, ApplyOperation, lpWorker
<1>9. CASE StartVisit \/ DeferVisit \/ VisitFails \/ VisitDone \/ Reconciled \/ SwapsStart \/ SwapsEnd
           \/ MarkFailed \/ BroadcastLpChain \/ HearPools \/ UNCHANGED lpAll
  <2>1. UNCHANGED <<lpChain, pass>>
    BY <1>9 DEF StartVisit, DeferVisit, VisitFails, VisitDone, Reconciled, SwapsStart, SwapsEnd,
       MarkFailed, BroadcastLpChain, HearPools, lpWorker, lpAll
  <2> QED
    BY <2>1, <1>7
<1> QED
  BY <1>1, <1>2, <1>3, <1>4, <1>5, <1>6, <1>7, <1>8, <1>9
  DEF LpNext, LpWorkerStep, LpEngineStep, LpRestart, StartupFails

\* No position and no ledger is burnt below zero, and a pool keeps its numbers.
LEMMA BooksTypedStep == LpInv /\ LpTyped /\ [LpNext]_lpAll => BooksTyped'
<1> SUFFICES ASSUME LpInv, LpTyped, [LpNext]_lpAll PROVE BooksTyped'
  OBVIOUS
<1>0. BooksTyped /\ Confirmed \subseteq LpNotes /\ visit = [does |-> visit.does, todo |-> visit.todo]
  BY DEF LpTyped, BooksTyped, Confirmed
<1>1. ASSUME NEW n \in LpNotes, SaveLpApplication(n) PROVE BooksTyped'
  <2>1. UNCHANGED <<position, told, visit, swapsOpen, lpWoken, lpCrashes>>
    BY <1>1 DEF SaveLpApplication, lpStore, lpWorker, lpRest
  <2>2. ASSUME NEW s \in Nat, NEW pool \in LpPools, Mark(n, s, pool), lpLedger' \in Nat PROVE BooksTyped'
    <3>1. /\ DOMAIN noted' = DOMAIN noted \cup {n}
          /\ \A m \in DOMAIN noted' : noted'[m] = (IF m = n THEN s ELSE noted[m])
      BY <2>2 DEF Mark
    <3>2. DOMAIN noted' \subseteq LpNotes /\ \A m \in DOMAIN noted' : noted'[m] \in Nat
      BY <1>0, <3>1 DEF BooksTyped
    <3> QED
      BY <1>0, <2>1, <2>2, <3>2 DEF BooksTyped, Mark
  <2>3. /\ lpPool.supply \in Nat /\ lpPool.worth \in Int /\ lpLedger \in Nat /\ Minted(n) \in Nat
        /\ LpNoteOf[n].amount \in Nat
    BY <1>0, MintedNat, LiquidityAssumption DEF BooksTyped, LpPools
  <2>4. CASE LpNoteOf[n].kind = "deposit"
    <3>1. /\ Mark(n, Minted(n), [supply |-> lpPool.supply + Minted(n),
                                 worth |-> lpPool.worth + LpNoteOf[n].amount])
          /\ lpLedger' = lpLedger + Minted(n)
      BY <1>1, <2>4 DEF SaveLpApplication
    <3>2. [supply |-> lpPool.supply + Minted(n), worth |-> lpPool.worth + LpNoteOf[n].amount] \in LpPools
      BY <2>3 DEF LpPools
    <3>3. lpLedger' \in Nat
      BY <2>3, <3>1
    <3> QED
      BY <2>2, <2>3, <3>1, <3>2, <3>3
  <2>5. CASE LpNoteOf[n].kind = "withdraw"
    <3>1. PICK s \in Burnt(n) :
            /\ Mark(n, s, [supply |-> IF s < lpPool.supply THEN lpPool.supply - s ELSE 0,
                           worth |-> lpPool.worth - Payout(lpPool, s)])
            /\ lpLedger' = lpLedger - s
      BY <1>1, <2>5 DEF SaveLpApplication
    <3>2. s \in 1..lpLedger
      BY <3>1 DEF Burnt
    <3>3. Payout(lpPool, s) \in Int
      BY <1>0, <3>2, <2>3, PayoutInt DEF BooksTyped
    <3>4. [supply |-> IF s < lpPool.supply THEN lpPool.supply - s ELSE 0,
           worth |-> lpPool.worth - Payout(lpPool, s)] \in LpPools
      BY <2>3, <3>2, <3>3 DEF LpPools
    <3>5. s \in Nat /\ lpLedger' \in Nat
      BY <2>3, <3>1, <3>2
    <3> QED
      BY <2>2, <3>1, <3>4, <3>5
  <2> QED
    BY <1>1, <2>4, <2>5 DEF SaveLpApplication
<1>2. ASSUME NEW n \in LpNotes, ApplyOperation(n) PROVE BooksTyped'
  <2>1. LpNoteOf[n].kind # "deposit" => LpNoteOf[n].kind = "withdraw"
    BY <1>2, LiquidityAssumption DEF ApplyOperation, LpTyped, RowsDecode
  <2>2. /\ n \in DOMAIN noted /\ noted[n] \in Nat /\ position.shares \in Nat
        /\ LpNoteOf[n].kind = "withdraw" => noted[n] <= position.shares
    BY <1>0, <1>2 DEF ApplyOperation, Owned, BooksTyped
  <2> DEFINE left == IF LpNoteOf[n].kind = "deposit" THEN position.shares + noted[n]
                     ELSE position.shares - noted[n]
  <2>3. left \in Nat
    BY <2>1, <2>2
  <2>4. position' = [position EXCEPT !.shares = left]
    BY <1>2 DEF ApplyOperation
  <2> HIDE DEF left
  <2>5. position' \in [shares : Nat, cpShares : Nat, cpValue : Int]
    BY <1>0, <2>3, <2>4 DEF BooksTyped
  <2>6. visit' = [does |-> visit.does, todo |-> visit.todo \ {n}]
    BY <1>0, <1>2 DEF ApplyOperation
  <2>7. UNCHANGED <<noted, lpPool, told, lpLedger, swapsOpen, lpWoken, lpCrashes>>
    BY <1>2 DEF ApplyOperation, lpBooks, lpWorker, lpRest
  <2> QED
    BY <1>0, <2>5, <2>6, <2>7 DEF BooksTyped
<1>3. CASE RecordCheckpoint
  <2>1. pass.at \in Nat \X Int
    BY <1>3 DEF RecordCheckpoint, LpTyped, VaultTyped
  <2>2. position' \in [shares : Nat, cpShares : Nat, cpValue : Int]
    BY <1>0, <1>3, <2>1 DEF RecordCheckpoint, BooksTyped
  <2>3. UNCHANGED <<lpEngine, told, lpWoken, lpRest>>
    BY <1>3 DEF RecordCheckpoint
  <2> QED
    BY <1>0, <2>2, <2>3 DEF BooksTyped, lpEngine, lpBooks, lpRest
<1>4. CASE StartVisit \/ DeferVisit \/ VisitFails \/ VisitDone \/ SwapsEnd
  <2>1. UNCHANGED <<lpStore, lpWorker, lpBooks, lpRest>> /\ swapsOpen' \in BOOLEAN
    BY <1>0, <1>4 DEF StartVisit, DeferVisit, VisitFails, VisitDone, SwapsEnd, lpEngine, BooksTyped
  <2>2. /\ visit' \in [does : {"rest", "visit", "reconcile", "recover"}, todo : SUBSET LpNotes]
        /\ lpWoken' \in {"no", "event", "retry"}
    BY <1>0, <1>4 DEF StartVisit, DeferVisit, VisitFails, VisitDone, SwapsEnd, lpEngine, BooksTyped,
       VisitJournal, NoVisit
  <2> QED
    BY <1>0, <2>1, <2>2 DEF BooksTyped, lpStore, lpWorker, lpBooks, lpRest
<1>5. CASE Reconciled
  <2>1. lpLedger' \in Nat /\ visit' = [does |-> "recover", todo |-> Confirmed]
    BY <1>0, <1>5 DEF Reconciled, BooksTyped
  <2>2. UNCHANGED <<lpStore, lpWorker, noted, lpPool, swapsOpen, lpWoken, lpRest>>
    BY <1>5 DEF Reconciled
  <2> QED
    BY <1>0, <2>1, <2>2 DEF BooksTyped, lpStore, lpWorker, lpRest
<1>6. CASE SwapsStart
  <2>1. lpPool' = lpPool \/ lpPool' = [lpPool EXCEPT !.worth = @ + 1]
    BY <1>6 DEF SwapsStart
  <2>2. lpPool' \in LpPools
    BY <1>0, <2>1 DEF BooksTyped, LpPools
  <2>3. UNCHANGED <<lpStore, lpWorker, noted, lpLedger, visit, lpWoken, lpRest>> /\ swapsOpen' = TRUE
    BY <1>6 DEF SwapsStart
  <2> QED
    BY <1>0, <2>2, <2>3 DEF BooksTyped, lpStore, lpWorker, lpRest
<1>7. CASE LpRestart \/ StartupFails
  <2>1. /\ visit' = [does |-> "reconcile", todo |-> Confirmed \cap DOMAIN noted]
        /\ told' = lpPool /\ lpLedger' = 0 /\ lpWoken' = "no" /\ swapsOpen' = FALSE
        /\ UNCHANGED <<position, noted, lpPool>>
    BY <1>7 DEF LpRestart, StartupFails, Reboot
  <2>2. lpCrashes' \in 0..MaxLpCrashes
    BY <1>0, <1>7, LiquidityAssumption DEF LpRestart, StartupFails, BooksTyped
  <2> QED
    BY <1>0, <2>1, <2>2 DEF BooksTyped
<1>8. CASE BroadcastLpChain
  <2>1. lpWoken' \in {"no", "event", "retry"}
    BY <1>0, <1>8 DEF BroadcastLpChain, BooksTyped
  <2>2. UNCHANGED <<lpStore, told, lpEngine, lpRest>>
    BY <1>8 DEF BroadcastLpChain
  <2> QED
    BY <1>0, <2>1, <2>2 DEF BooksTyped, lpStore, lpEngine, lpBooks, lpRest
<1>9. CASE HearPools
  <2>1. told' = lpPool /\ UNCHANGED <<lpStore, lpEngine, lpWoken, lpRest>>
    BY <1>9 DEF HearPools
  <2> QED
    BY <1>0, <2>1 DEF BooksTyped, lpStore, lpEngine, lpBooks, lpRest
<1>10. CASE RecordConfirmed \/ MarkFailed \/ StartPass \/ SetSyncCursor \/ ValuePosition \/ ReadVault
            \/ CheckpointEntitlement \/ UNCHANGED lpAll
  <2>1. UNCHANGED <<position, told, lpEngine, lpWoken, lpCrashes>>
    BY <1>10 DEF RecordConfirmed, MarkFailed, StartPass, SetSyncCursor, ValuePosition, ReadVault,
       CheckpointEntitlement, lpAll, lpStore, lpWorker, lpRest
  <2> QED
    BY <1>0, <2>1 DEF BooksTyped, lpEngine, lpBooks
<1>11. ASSUME NEW n \in LpNotes, NEW m \in LpNotes, ProduceBlock({n, m}) PROVE BooksTyped'
  <2>1. UNCHANGED <<position, told, lpEngine, lpWoken, lpCrashes>>
    BY <1>11 DEF ProduceBlock, lpStore, lpWorker, lpRest
  <2> QED
    BY <1>0, <2>1 DEF BooksTyped, lpEngine, lpBooks
<1> QED
  BY <1>1, <1>2, <1>3, <1>4, <1>5, <1>6, <1>7, <1>8, <1>9, <1>10, <1>11
  DEF LpNext, LpWorkerStep, LpEngineStep

\* The vault never pays past an entitlement, no position and no ledger is burnt below zero
\* and no pool has a negative supply, whatever the checkpoints and crashes come between
\* (checkpoint_entitlement, apply_operation, get_withdraw_asset_amount_out).
THEOREM LpTypeCorrect == LpSpec => []LpTypeOK
<1>1. LpInit => LpTyped
  <2> SUFFICES ASSUME LpInit PROVE LpTyped
    OBVIOUS
  <2>1. 0 \in 0..MaxLpCrashes /\ SeedPool \in LpPools
    BY LiquidityAssumption
  <2>2. RowsDecode
    BY DEF LpInit, RowsDecode
  <2>3. VaultTyped
    BY DEF LpInit, VaultTyped, LpResting
  <2>4. noted = [n \in {} |-> 0] /\ DOMAIN noted = {}
    BY DEF LpInit
  <2>5. BooksTyped
    <3>1. position \in [shares : Nat, cpShares : Nat, cpValue : Int]
      BY DEF LpInit
    <3>2. visit \in [does : {"rest", "visit", "reconcile", "recover"}, todo : SUBSET LpNotes]
      BY DEF LpInit, NoVisit
    <3>3. DOMAIN noted \subseteq LpNotes /\ \A n \in DOMAIN noted : noted[n] \in Nat
      BY <2>4
    <3>4. /\ lpPool \in LpPools /\ told \in LpPools /\ lpLedger \in Nat /\ lpCrashes \in 0..MaxLpCrashes
          /\ lpWoken \in {"no", "event", "retry"} /\ swapsOpen \in BOOLEAN
      BY <2>1 DEF LpInit
    <3> QED
      BY <3>1, <3>2, <3>3, <3>4 DEF BooksTyped
  <2> QED
    BY <2>2, <2>3, <2>5 DEF LpTyped
<1>2. LpInv /\ LpTyped => LpTypeOK
  BY DEF LpInv, LpTypes, LpTyped, VaultTyped, BooksTyped, LpTypeOK
<1>3. LpInv /\ LpTyped /\ [LpNext]_lpAll => LpTyped'
  BY RowsDecodeStep, VaultTypedStep, BooksTypedStep DEF LpTyped
<1> QED
  BY <1>1, <1>2, <1>3, LpStart, LpNextKeeps, PTL DEF LpSpec

--------------------------------------------------------------------------------
(***************************************************************************)
(* Provisioning.  A shard is published before it can be activated, and a   *)
(* save of an older copy that drops it is accounted for in overwritten; so *)
(* what the provisioner or a tool is about to activate is on record.       *)
(***************************************************************************)
OnRecord == listed \cup overwritten

ProvTypes ==
  /\ deployed \in Shards /\ active \in 1..deployed
  /\ placed \in [Shards -> 0..UserCapacity]
  /\ listed \subseteq 1..deployed /\ registry \subseteq 1..deployed
  /\ row \in [status : {"none", "deploying", "published", "attached"}, shard : 0..deployed]
  /\ run \in [step : {"rest", "deploy", "name", "publish", "append", "register", "wait",
                      "activate", "finish"},
              shard : 0..deployed, copy : SUBSET (1..deployed)]
  /\ tool \in [does : {"none", "publish", "append", "activate", "save"}, shard : 0..deployed,
               copy : SUBSET (1..deployed)]
  /\ ready \in [Shards -> SUBSET Workers] /\ faults \in 0..MaxFaults

\* From its naming on, the shard of a run is the one of its row.
RunNamed ==
  /\ run.step = "name" => run.shard # NoShard
  /\ run.step \in {"publish", "append", "register", "wait", "activate", "finish"} =>
       run.shard # NoShard /\ row.shard = run.shard
  /\ row.status \in {"published", "attached"} => row.shard # NoShard

\* What is about to be activated is on record, and attached unless by hand.
HandsOnRecord ==
  /\ run.step \in {"register", "wait", "activate", "finish"} => run.shard \in OnRecord
  /\ run.step = "activate" => ready[run.shard] = Workers
  /\ tool.does \in {"publish", "append", "activate"} => tool.shard # NoShard
  /\ tool.does = "activate" => tool.shard \in OnRecord

ProvInv ==
  ProvTypes /\ RunNamed /\ HandsOnRecord /\ PlacedShardsListed /\ ActiveShardServed

\* The shard numbers are positive integers.
LEMMA ShardFacts ==
    ASSUME ProvTypes
    PROVE  /\ deployed \in Nat /\ deployed >= 1 /\ deployed <= MaxShards /\ MaxShards \in Nat
           /\ 1..deployed \subseteq Shards /\ active \in Shards
           /\ UserCapacity \in Nat /\ MaxFaults \in Nat /\ faults \in Nat
BY ProvisioningAssumption DEF ProvTypes, Shards

\* What a step that neither deploys, places nor activates has to show.
LEMMA SameChain ==
    ASSUME ProvInv, UNCHANGED <<shardChain, byHand>>, ProvTypes', RunNamed', HandsOnRecord',
           OnRecord \subseteq OnRecord',
           active \in byHand \cup overwritten' \/ ready'[active] = Workers
    PROVE  ProvInv'
<1>1. PlacedShardsListed' /\ ActiveShardServed'
  BY DEF ProvInv, PlacedShardsListed, ActiveShardServed, OnRecord, shardChain
<1> QED
  BY <1>1 DEF ProvInv

\* The vault places the user on the active shard, which is on record.
LEMMA RegisterKeeps == ASSUME ProvInv, RegisterUser PROVE ProvInv'
<1>1. /\ UNCHANGED <<deployed, active, listed, server, tool, byHand, overwritten, faults>>
      /\ active \in Shards /\ placed' \in [Shards -> 0..UserCapacity]
      /\ \A s \in Shards : s # active => placed'[s] = placed[s]
  BY ShardFacts DEF RegisterUser, ProvInv, ProvTypes
<1>2. ProvTypes'
  BY <1>1 DEF ProvInv, ProvTypes, server
<1>3. RunNamed' /\ HandsOnRecord' /\ ActiveShardServed'
  BY <1>1 DEF ProvInv, RunNamed, HandsOnRecord, ActiveShardServed, OnRecord, server
<1>4. PlacedShardsListed'
  BY <1>1 DEF ProvInv, PlacedShardsListed
<1> QED
  BY <1>2, <1>3, <1>4 DEF ProvInv

\* spawn_pool lists its shard before it activates it.
LEMMA SpawnKeeps == ASSUME ProvInv, SpawnPool PROVE ProvInv'
<1> USE DEF NoShard
<1>1. UNCHANGED <<placed, server>>
  BY DEF SpawnPool
<1>2. CASE tool = Off
  <2>1. /\ deployed < MaxShards /\ deployed' = deployed + 1 /\ faults' = faults + 1
        /\ faults < MaxFaults /\ UNCHANGED <<active, listed, byHand, overwritten>>
        /\ tool' = [does |-> "publish", shard |-> deployed + 1, copy |-> {}]
    BY <1>2 DEF SpawnPool, Off, KeepFile
  <2>2. deployed' \in Shards /\ 1..deployed \subseteq 1..deployed' /\ 0..deployed \subseteq 0..deployed'
        /\ SUBSET (1..deployed) \subseteq SUBSET (1..deployed') /\ faults' \in 0..MaxFaults /\ deployed + 1 \in 0..deployed' /\ deployed + 1 # 0
    BY <2>1, ShardFacts DEF ProvInv, Shards
  <2>3. ProvTypes'
    BY <1>1, <2>1, <2>2 DEF ProvInv, ProvTypes, server
  <2>4. RunNamed' /\ HandsOnRecord'
    BY <1>1, <2>1, <2>2 DEF ProvInv, RunNamed, HandsOnRecord, OnRecord, server
  <2>5. PlacedShardsListed' /\ ActiveShardServed'
    BY <1>1, <2>1 DEF ProvInv, PlacedShardsListed, ActiveShardServed, server
  <2> QED
    BY <2>3, <2>4, <2>5 DEF ProvInv
<1>3. CASE tool # Off /\ tool.does = "publish"
  <2>1. /\ UNCHANGED <<deployed, active, listed, byHand, overwritten, faults>>
        /\ tool' = [does |-> "append", shard |-> tool.shard, copy |-> listed]
    BY <1>3 DEF SpawnPool, KeepFile, ProvInv, ProvTypes
  <2>2. ProvTypes'
    BY <1>1, <1>3, <2>1 DEF ProvInv, ProvTypes, server
  <2>3. RunNamed' /\ HandsOnRecord'
    BY <1>1, <1>3, <2>1 DEF ProvInv, RunNamed, HandsOnRecord, OnRecord, server
  <2> QED
    BY <1>1, <2>1, <2>2, <2>3, SameChain DEF OnRecord, shardChain, server, ProvInv, ActiveShardServed
<1>5. CASE tool # Off /\ tool.does = "append"
  <2>1. /\ Save(tool.copy \cup {tool.shard}) /\ UNCHANGED <<deployed, active, byHand, faults>>
        /\ tool' = [does |-> "activate", shard |-> tool.shard, copy |-> {}]
    BY <1>5 DEF SpawnPool, ProvInv, ProvTypes
  <2>2. tool.shard \in 1..deployed /\ tool.copy \in SUBSET (1..deployed)
    BY <1>5, ShardFacts DEF ProvInv, ProvTypes, HandsOnRecord
  <2>3. /\ OnRecord \subseteq OnRecord' /\ overwritten \subseteq overwritten'
        /\ tool.shard \in OnRecord' /\ listed' \subseteq 1..deployed
    BY <2>1, <2>2 DEF Save, OnRecord
  <2>4. ProvTypes'
    BY <1>1, <2>1, <2>2, <2>3 DEF ProvInv, ProvTypes, server
  <2>5. RunNamed' /\ HandsOnRecord'
    BY <1>1, <2>1, <2>2, <2>3, ShardFacts DEF ProvInv, RunNamed, HandsOnRecord, server
  <2> QED
    BY <1>1, <2>1, <2>3, <2>4, <2>5, SameChain DEF shardChain, server, ProvInv, ActiveShardServed
<1>4. CASE tool # Off /\ tool.does = "activate"
  <2>1. /\ active' = tool.shard /\ byHand' = byHand \cup {tool.shard}
        /\ tool' = Off /\ UNCHANGED <<deployed, listed, overwritten, faults>>
    BY <1>4 DEF SpawnPool, KeepFile
  <2>2. tool.shard \in 1..deployed /\ tool.shard \in listed \cup overwritten
    BY <1>4, ShardFacts DEF ProvInv, ProvTypes, HandsOnRecord, OnRecord
  <2>3. ProvTypes'
    BY <1>1, <2>1, <2>2, ShardFacts DEF ProvInv, ProvTypes, server, Off
  <2>4. RunNamed' /\ HandsOnRecord'
    BY <1>1, <2>1 DEF ProvInv, RunNamed, HandsOnRecord, OnRecord, server, Off
  <2>5. PlacedShardsListed' /\ ActiveShardServed'
    BY <1>1, <2>1, <2>2 DEF ProvInv, PlacedShardsListed, ActiveShardServed, server
  <2> QED
    BY <2>3, <2>4, <2>5 DEF ProvInv
<1> QED
  BY <1>2, <1>3, <1>4, <1>5 DEF SpawnPool

\* A file written back over newer entries leaves their names in overwritten.
LEMMA AddAssetKeeps == ASSUME ProvInv, AddAsset PROVE ProvInv'
<1> USE DEF NoShard
<1>1. UNCHANGED <<shardChain, server, byHand>>
  BY DEF AddAsset
<1>2. CASE tool = Off
  <2>1. /\ faults < MaxFaults /\ faults' = faults + 1 /\ UNCHANGED <<listed, overwritten>>
        /\ tool' = [does |-> "save", shard |-> 0, copy |-> listed]
    BY <1>2 DEF AddAsset, Off, KeepFile
  <2>2. ProvTypes'
    BY <1>1, <2>1, ShardFacts DEF ProvInv, ProvTypes, server, shardChain
  <2>3. RunNamed' /\ HandsOnRecord'
    BY <1>1, <2>1 DEF ProvInv, RunNamed, HandsOnRecord, OnRecord, server
  <2> QED
    BY <1>1, <2>1, <2>2, <2>3, SameChain DEF OnRecord, server, ProvInv, ActiveShardServed
<1>3. CASE tool # Off
  <2>1. /\ tool.does = "save" /\ listed' = tool.copy /\ tool' = Off /\ UNCHANGED faults
        /\ overwritten' = overwritten \cup (listed \ tool.copy)
    BY <1>3 DEF AddAsset, Save
  <2>2. OnRecord \subseteq OnRecord' /\ overwritten \subseteq overwritten'
    BY <2>1 DEF OnRecord
  <2>3. ProvTypes'
    BY <1>1, <2>1, ShardFacts DEF ProvInv, ProvTypes, server, shardChain, Off
  <2>4. RunNamed' /\ HandsOnRecord'
    BY <1>1, <2>1, <2>2 DEF ProvInv, RunNamed, HandsOnRecord, server, Off
  <2> QED
    BY <1>1, <2>2, <2>3, <2>4, SameChain DEF server, ProvInv, ActiveShardServed
<1> QED
  BY <1>2, <1>3

\* A tool that stops leaves the file as it is.
LEMMA StopKeeps == ASSUME ProvInv, ToolStops PROVE ProvInv'
<1> USE DEF NoShard
<1>1. UNCHANGED <<shardChain, listed, server, byHand, overwritten, faults>> /\ tool' = Off
  BY DEF ToolStops
<1>2. ProvTypes'
  BY <1>1, ShardFacts DEF ProvInv, ProvTypes, server, shardChain, Off
<1>3. RunNamed' /\ HandsOnRecord'
  BY <1>1 DEF ProvInv, RunNamed, HandsOnRecord, OnRecord, server, Off
<1> QED
  BY <1>1, <1>2, <1>3, SameChain DEF OnRecord, server, ProvInv, ActiveShardServed

\* The workers and the registry only add.
LEMMA RegistryKeeps ==
    ASSUME ProvInv, NEW s \in Shards, (\E w \in Workers : Attach(w, s)) \/ EnsureFromDeployment(s)
    PROVE  ProvInv'
<1> DEFINE OnlyAdds ==
             /\ UNCHANGED <<shardChain, listed, row, run, tool, byHand, overwritten, faults>>
             /\ registry' \subseteq 1..deployed
             /\ ready' \in [Shards -> SUBSET Workers]
             /\ \A x \in Shards : ready[x] = Workers => ready'[x] = Workers
<1>1. OnlyAdds
  <2>1. ASSUME NEW w \in Workers, Attach(w, s) PROVE OnlyAdds
    BY <2>1 DEF Attach, ProvInv, ProvTypes
  <2>2. ASSUME EnsureFromDeployment(s) PROVE OnlyAdds
    BY <2>2 DEF EnsureFromDeployment, ProvInv, ProvTypes
  <2> QED
    BY <2>1, <2>2
<1>2. ProvTypes'
  BY <1>1 DEF ProvInv, ProvTypes, shardChain
<1>3. RunNamed' /\ HandsOnRecord'
  BY <1>1, ShardFacts DEF ProvInv, ProvTypes, RunNamed, HandsOnRecord, OnRecord, NoShard
<1> QED
  BY <1>1, <1>2, <1>3, ShardFacts, SameChain DEF OnRecord, ProvInv, ActiveShardServed

\* The provisioner's steps up to the publication of its shard.
LEMMA DeployKeeps ==
    ASSUME ProvInv, BeginDeploying \/ Resume \/ DeployPoolShard \/ SetPoolId
    PROVE  ProvInv'
<1> USE DEF NoShard, KeepWorld, KeepFile, RunAt
<1>1. CASE BeginDeploying
  <2>1. /\ row' = [status |-> "deploying", shard |-> 0] /\ run' = [step |-> "deploy", shard |-> 0, copy |-> {}]
        /\ UNCHANGED <<shardChain, listed, registry, ready, tool, byHand, overwritten, faults>>
    BY <1>1 DEF BeginDeploying, NoRow, shardChain
  <2>2. ProvTypes'
    BY <2>1, ShardFacts DEF ProvInv, ProvTypes, shardChain
  <2>3. RunNamed' /\ HandsOnRecord'
    BY <2>1 DEF ProvInv, RunNamed, HandsOnRecord, OnRecord
  <2> QED
    BY <2>1, <2>2, <2>3, SameChain DEF OnRecord, ProvInv, ActiveShardServed
<1>2. CASE Resume
  <2>1. /\ run' = [step |-> IF row.shard = 0 THEN "deploy" ELSE "publish", shard |-> row.shard, copy |-> {}]
        /\ UNCHANGED <<shardChain, listed, row, registry, ready, tool, byHand, overwritten, faults>>
    BY <1>2 DEF Resume, shardChain
  <2>2. ProvTypes'
    BY <2>1, ShardFacts DEF ProvInv, ProvTypes, shardChain
  <2>3. RunNamed' /\ HandsOnRecord'
    BY <2>1 DEF ProvInv, RunNamed, HandsOnRecord, OnRecord
  <2> QED
    BY <2>1, <2>2, <2>3, SameChain DEF OnRecord, ProvInv, ActiveShardServed
<1>3. CASE DeployPoolShard
  <2>1. /\ deployed < MaxShards /\ deployed' = deployed + 1
        /\ run' = [step |-> "name", shard |-> deployed + 1, copy |-> {}]
        /\ UNCHANGED <<active, placed, listed, row, registry, ready, tool, byHand, overwritten,
                       faults>>
    BY <1>3 DEF DeployPoolShard
  <2>2. deployed' \in Shards /\ 1..deployed \subseteq 1..deployed' /\ 0..deployed \subseteq 0..deployed'
        /\ SUBSET (1..deployed) \subseteq SUBSET (1..deployed')
        /\ deployed + 1 \in 0..deployed' /\ deployed + 1 # 0
    BY <2>1, ShardFacts DEF ProvInv, Shards
  <2>3. ProvTypes'
    BY <2>1, <2>2 DEF ProvInv, ProvTypes
  <2>4. RunNamed' /\ HandsOnRecord'
    BY <2>1, <2>2 DEF ProvInv, RunNamed, HandsOnRecord, OnRecord
  <2>5. PlacedShardsListed' /\ ActiveShardServed'
    BY <2>1 DEF ProvInv, PlacedShardsListed, ActiveShardServed
  <2> QED
    BY <2>3, <2>4, <2>5 DEF ProvInv
<1>4. CASE SetPoolId
  <2>1. /\ run.step = "name" /\ row' = [status |-> row.status, shard |-> run.shard]
        /\ run' = [step |-> "publish", shard |-> run.shard, copy |-> {}]
        /\ UNCHANGED <<shardChain, listed, registry, ready, tool, byHand, overwritten, faults>>
    BY <1>4 DEF SetPoolId, ProvInv, ProvTypes, shardChain
  <2>2. ProvTypes'
    BY <2>1, ShardFacts DEF ProvInv, ProvTypes, shardChain
  <2>3. RunNamed' /\ HandsOnRecord'
    BY <2>1 DEF ProvInv, RunNamed, HandsOnRecord, OnRecord
  <2> QED
    BY <2>1, <2>2, <2>3, SameChain DEF OnRecord, ProvInv, ActiveShardServed
<1> QED
  BY <1>1, <1>2, <1>3, <1>4

\* Published in the file, then in the registry, then awaited.
LEMMA PublishKeeps ==
    ASSUME ProvInv, PublishPoolToDeployment \/ AppendToDeployment \/ PublishToRegistry \/ WaitReady
    PROVE  ProvInv'
<1> USE DEF NoShard, KeepWorld, KeepFile, RunAt
<1>1. CASE PublishPoolToDeployment
  <2>1. /\ run.step = "publish"
        /\ \/ /\ run.shard \in listed
              /\ run' = [step |-> "register", shard |-> run.shard, copy |-> {}]
           \/ run' = [step |-> "append", shard |-> run.shard, copy |-> listed]
        /\ UNCHANGED <<shardChain, listed, row, registry, ready, tool, byHand, overwritten, faults>>
    BY <1>1 DEF PublishPoolToDeployment, shardChain
  <2>2. run.shard \in 1..deployed /\ row.shard = run.shard
    BY <2>1, ShardFacts DEF ProvInv, ProvTypes, RunNamed
  <2>3. ProvTypes'
    BY <2>1, <2>2, ShardFacts DEF ProvInv, ProvTypes, shardChain
  <2>4. RunNamed' /\ HandsOnRecord'
    BY <2>1, <2>2, ShardFacts DEF ProvInv, RunNamed, HandsOnRecord, OnRecord
  <2> QED
    BY <2>1, <2>3, <2>4, SameChain DEF OnRecord, ProvInv, ActiveShardServed
<1>4. CASE AppendToDeployment
  <2>1. /\ run.step = "append" /\ Save(run.copy \cup {run.shard})
        /\ run' = [step |-> "register", shard |-> run.shard, copy |-> {}]
        /\ UNCHANGED <<shardChain, row, registry, ready, tool, byHand, faults>>
    BY <1>4 DEF AppendToDeployment, shardChain
  <2>2. run.shard \in 1..deployed /\ row.shard = run.shard /\ run.copy \in SUBSET (1..deployed)
    BY <2>1, ShardFacts DEF ProvInv, ProvTypes, RunNamed
  <2>3. /\ OnRecord \subseteq OnRecord' /\ overwritten \subseteq overwritten'
        /\ run.shard \in OnRecord' /\ listed' \subseteq 1..deployed
    BY <2>1, <2>2 DEF Save, OnRecord
  <2>4. ProvTypes'
    BY <2>1, <2>2, <2>3, ShardFacts DEF ProvInv, ProvTypes, shardChain
  <2>5. RunNamed' /\ HandsOnRecord'
    BY <2>1, <2>2, <2>3, ShardFacts DEF ProvInv, RunNamed, HandsOnRecord
  <2> QED
    BY <2>1, <2>3, <2>4, <2>5, SameChain DEF ProvInv, ActiveShardServed
<1>2. CASE PublishToRegistry
  <2>1. /\ run.step = "register" /\ run' = [step |-> "wait", shard |-> run.shard, copy |-> {}]
        /\ row' = [status |-> "published", shard |-> row.shard]
        /\ registry' = registry \cup {run.shard}
        /\ UNCHANGED <<shardChain, listed, ready, tool, byHand, overwritten, faults>>
    BY <1>2 DEF PublishToRegistry, ProvInv, ProvTypes, shardChain
  <2>2. run.shard \in 1..deployed /\ row.shard = run.shard
    BY <2>1, ShardFacts DEF ProvInv, ProvTypes, RunNamed
  <2>3. ProvTypes'
    BY <2>1, <2>2, ShardFacts DEF ProvInv, ProvTypes, shardChain
  <2>4. RunNamed' /\ HandsOnRecord'
    BY <2>1, <2>2, ShardFacts DEF ProvInv, RunNamed, HandsOnRecord, OnRecord
  <2> QED
    BY <2>1, <2>3, <2>4, SameChain DEF OnRecord, ProvInv, ActiveShardServed
<1>3. CASE WaitReady
  <2>1. /\ run.step = "wait" /\ ready[run.shard] = Workers
        /\ run' = [step |-> "activate", shard |-> run.shard, copy |-> {}]
        /\ row' = [status |-> "attached", shard |-> row.shard]
        /\ UNCHANGED <<shardChain, listed, registry, ready, tool, byHand, overwritten, faults>>
    BY <1>3 DEF WaitReady, ProvInv, ProvTypes, shardChain
  <2>2. run.shard \in 1..deployed /\ row.shard = run.shard
    BY <2>1, ShardFacts DEF ProvInv, ProvTypes, RunNamed
  <2>3. ProvTypes'
    BY <2>1, <2>2, ShardFacts DEF ProvInv, ProvTypes, shardChain
  <2>4. RunNamed' /\ HandsOnRecord'
    BY <2>1, <2>2, ShardFacts DEF ProvInv, RunNamed, HandsOnRecord, OnRecord
  <2> QED
    BY <2>1, <2>3, <2>4, SameChain DEF OnRecord, ProvInv, ActiveShardServed
<1> QED
  BY <1>1, <1>2, <1>3, <1>4

\* The shard that becomes active is on record and attached.
LEMMA ActivateKeeps == ASSUME ProvInv, ActivatePoolShard PROVE ProvInv'
<1> USE DEF NoShard, KeepWorld, KeepFile, RunAt
<1>1. /\ run.step = "activate" /\ run' = [step |-> "finish", shard |-> run.shard, copy |-> {}]
      /\ active' = run.shard
      /\ UNCHANGED <<deployed, placed, listed, row, registry, ready, tool, byHand, overwritten,
                     faults>>
  BY DEF ActivatePoolShard
<1>2. /\ run.shard \in 1..deployed /\ row.shard = run.shard
      /\ run.shard \in OnRecord /\ ready[run.shard] = Workers
  BY <1>1, ShardFacts DEF ProvInv, ProvTypes, RunNamed, HandsOnRecord
<1>3. ProvTypes'
  BY <1>1, <1>2, ShardFacts DEF ProvInv, ProvTypes
<1>4. RunNamed' /\ HandsOnRecord'
  BY <1>1, <1>2, ShardFacts DEF ProvInv, RunNamed, HandsOnRecord, OnRecord
<1>5. PlacedShardsListed' /\ ActiveShardServed'
  BY <1>1, <1>2 DEF ProvInv, PlacedShardsListed, ActiveShardServed, OnRecord
<1> QED
  BY <1>3, <1>4, <1>5 DEF ProvInv

\* The end of a run, by success, failure or restart.  A restarted server serves
\* what the file lists, and the active shard is in it or was dropped by a save.
LEMMA EndKeeps == ASSUME ProvInv, AdvanceActivated \/ ProvisionFails \/ ServerRestart PROVE ProvInv'
<1> USE DEF NoShard, KeepWorld, KeepFile, Resting
<1>1. CASE AdvanceActivated \/ ProvisionFails
  <2>1. /\ run' = [step |-> "rest", shard |-> 0, copy |-> {}] /\ row' = [status |-> "none", shard |-> 0]
        /\ UNCHANGED <<shardChain, listed, registry, ready, tool, byHand, overwritten>>
        /\ faults' = faults \/ (faults < MaxFaults /\ faults' = faults + 1)
    BY <1>1 DEF AdvanceActivated, ProvisionFails, NoRow, shardChain
  <2>2. ProvTypes'
    BY <2>1, ShardFacts DEF ProvInv, ProvTypes, shardChain
  <2>3. RunNamed' /\ HandsOnRecord'
    BY <2>1 DEF ProvInv, RunNamed, HandsOnRecord, OnRecord
  <2> QED
    BY <2>1, <2>2, <2>3, SameChain DEF OnRecord, ProvInv, ActiveShardServed
<1>2. CASE ServerRestart
  <2>1. /\ run' = [step |-> "rest", shard |-> 0, copy |-> {}] /\ registry' = listed
        /\ ready' = [s \in Shards |-> IF s \in listed THEN Workers ELSE {}]
        /\ UNCHANGED <<shardChain, listed, row, tool, byHand, overwritten>>
        /\ faults < MaxFaults /\ faults' = faults + 1
    BY <1>2 DEF ServerRestart
  <2>2. ProvTypes'
    BY <2>1, ShardFacts DEF ProvInv, ProvTypes, shardChain
  <2>3. RunNamed' /\ HandsOnRecord'
    BY <2>1 DEF ProvInv, RunNamed, HandsOnRecord, OnRecord
  <2>4. active \in overwritten \/ ready'[active] = Workers
    BY <2>1, ShardFacts DEF ProvInv, PlacedShardsListed
  <2> QED
    BY <2>1, <2>2, <2>3, <2>4, SameChain DEF OnRecord
<1> QED
  BY <1>1, <1>2

\* Every step keeps the invariant.
LEMMA ProvNextKeeps == ProvInv /\ [ProvNext]_provVars => ProvInv'
<1> SUFFICES ASSUME ProvInv, [ProvNext]_provVars PROVE ProvInv'
  OBVIOUS
<1>1. CASE UNCHANGED provVars
  BY <1>1 DEF provVars, shardChain, server, ProvInv, ProvTypes, RunNamed, HandsOnRecord, OnRecord,
     PlacedShardsListed, ActiveShardServed
<1>2. CASE ProvisionStep
  BY <1>2, DeployKeeps, PublishKeeps, ActivateKeeps, EndKeeps DEF ProvisionStep
<1>3. CASE AttachStep
  BY <1>3, RegistryKeeps DEF AttachStep
<1> QED
  BY <1>1, <1>2, <1>3, RegisterKeeps, SpawnKeeps, AddAssetKeeps, StopKeeps, RegistryKeeps, EndKeeps DEF ProvNext

\* The first shard is listed and served.
LEMMA ProvStart == ProvInit => ProvInv
<1> SUFFICES ASSUME ProvInit PROVE ProvInv
  OBVIOUS
<1> USE DEF NoShard, ProvInit
<1>1. ProvTypes
  BY ProvisioningAssumption DEF ProvTypes, Shards, NoRow, Resting, Off
<1>2. RunNamed /\ HandsOnRecord
  BY DEF RunNamed, HandsOnRecord, NoRow, Resting, Off
<1>3. PlacedShardsListed /\ ActiveShardServed
  BY <1>1 DEF ProvTypes, PlacedShardsListed, ActiveShardServed
<1> QED
  BY <1>1, <1>2, <1>3 DEF ProvInv

\* run_provision of pool_manager.rs never lets the vault place a user on a shard
\* that is not listed or not served, whatever fails or restarts, for any number of
\* shards, users and faults; except on one that spawn_pool activated by hand, or
\* that the save of a copy loaded earlier dropped from the deployment file.
THEOREM PlacementsServed == ProvSpec => []PlacedShardsServed
<1>1. ProvSpec => []ProvInv
  BY ProvStart, ProvNextKeeps, PTL DEF ProvSpec
<1>2. ProvInv => PlacedShardsServed
  BY DEF ProvInv, PlacedShardsServed
<1> QED
  BY <1>1, <1>2, PTL

\* No shard beyond those deployed is listed, served or activated, and no row past
\* its publication is without a shard (run_provision, PoolRegistry).
THEOREM ProvTypeCorrect == ProvSpec => []ProvTypeOK
<1>1. ProvInv => ProvTypeOK
  BY DEF ProvInv, ProvTypes, RunNamed, ProvTypeOK
<1> QED
  BY <1>1, ProvStart, ProvNextKeeps, PTL DEF ProvSpec

--------------------------------------------------------------------------------
(***************************************************************************)
(* PriceFeed.  The newest price handed to the broker is the last of the    *)
(* channel; once taken from it, it is held back or was the last emitted;   *)
(* and what was emitted last is queued, in the slot, or has been passed.   *)
(***************************************************************************)
PriceTypes ==
  /\ published \in Ticks /\ stream \in {"open", "closed"} /\ since \in 0..MinInterval
  /\ {quoted, emitted, pending, slot, shown, reached} \subseteq 0..published
  /\ channel \in Seq(1..published) /\ Len(channel) <= BrokerCapacity
  /\ backlog \in Seq(1..published) /\ Len(backlog) <= BacklogCapacity

Queued(k) == \E i \in DOMAIN backlog : backlog[i] = k

NewestHeld ==
  IF channel # <<>> THEN channel[Len(channel)] = quoted
  ELSE quoted = IF pending # 0 THEN pending ELSE emitted
EmittedHeld == emitted <= reached \/ slot = emitted \/ Queued(emitted)

PriceInv == PriceTypes /\ NewestHeld /\ EmittedHeld

\* The newest price handed to the broker has reached the client, or is somewhere on
\* its way to it.
NewestOnItsWay ==
  \/ quoted <= reached
  \/ \E i \in DOMAIN channel : channel[i] = quoted
  \/ quoted \in {pending, slot} \/ Queued(quoted)

\* The bounds of the components.
LEMMA PriceBounds ==
    ASSUME PriceTypes
    PROVE  /\ published \in Nat /\ Len(Tape) \in Nat /\ published <= Len(Tape)
           /\ BrokerCapacity \in Nat /\ BrokerCapacity >= 1
           /\ BacklogCapacity \in Nat /\ BacklogCapacity >= 1 /\ MinInterval \in Nat
<1>1. Len(Tape) \in Nat
  BY PriceFeedAssumption
<1>2. /\ BrokerCapacity \in Nat /\ BrokerCapacity # 0
      /\ BacklogCapacity \in Nat /\ BacklogCapacity # 0 /\ MinInterval \in Nat
  BY PriceFeedAssumption
<1>3. published \in 0..Len(Tape)
  BY DEF PriceTypes, Ticks
<1> QED
  BY <1>1, <1>2, <1>3

\* A full receiver makes room for the newest.
LEMMA OfferedLast ==
    ASSUME NEW S, NEW q \in Seq(S), NEW k \in S, Len(q) <= BrokerCapacity
    PROVE  /\ Offer(q, k) \in Seq(S) /\ Len(Offer(q, k)) <= BrokerCapacity
           /\ Offer(q, k) # <<>> /\ Offer(q, k)[Len(Offer(q, k))] = k
<1>1. BrokerCapacity \in Nat /\ BrokerCapacity >= 1
  BY PriceFeedAssumption
<1>2. CASE Len(q) < BrokerCapacity
  <2>1. Offer(q, k) = Append(q, k)
    BY <1>2 DEF Offer
  <2> QED
    BY <1>1, <1>2, <2>1
<1>3. CASE ~ (Len(q) < BrokerCapacity)
  <2>1. Offer(q, k) = Append(Tail(q), k)
    BY <1>3 DEF Offer
  <2>2. Tail(q) \in Seq(S) /\ Len(Tail(q)) = BrokerCapacity - 1
    BY <1>1, <1>3
  <2> HIDE DEF Offer
  <2> QED
    BY <1>1, <2>1, <2>2
<1> QED
  BY <1>2, <1>3

\* The head and the tail of a queue.
LEMMA HeadAndTail ==
    ASSUME NEW S, NEW q \in Seq(S), q # <<>>
    PROVE  /\ Head(q) \in S /\ Head(q) = q[1] /\ Tail(q) \in Seq(S)
           /\ Len(Tail(q)) = Len(q) - 1 /\ Len(q) \in Nat /\ Len(q) >= 1
           /\ \A i \in 1..(Len(q) - 1) : Tail(q)[i] = q[i + 1]
           /\ Tail(q) = <<>> => Len(q) = 1
           /\ Tail(q) # <<>> => Tail(q)[Len(q) - 1] = q[Len(q)]
<1>1. /\ Len(q) \in Nat /\ Len(q) >= 1 /\ Head(q) = q[1] /\ Head(q) \in S
      /\ Tail(q) \in Seq(S) /\ Len(Tail(q)) = Len(q) - 1
  OBVIOUS
<1>2. \A i \in 1..(Len(q) - 1) : Tail(q)[i] = q[i + 1]
  OBVIOUS
<1>3. Tail(q) = <<>> => Len(q) = 1
  BY <1>1
<1>4. Tail(q) # <<>> => Tail(q)[Len(q) - 1] = q[Len(q)]
  <2>1. Tail(q) # <<>> => Len(q) - 1 \in 1..(Len(q) - 1) /\ (Len(q) - 1) + 1 = Len(q)
    BY <1>1
  <2> QED
    BY <1>2, <2>1
<1> QED
  BY <1>1, <1>2, <1>3, <1>4

\* A price that is emitted is queued or in the slot.
LEMMA EmitKeeps ==
    ASSUME PriceInv, NEW k \in 1..published, Emit(k), UNCHANGED <<published, stream, quoted>>,
           channel' \in Seq(1..published), Len(channel') <= BrokerCapacity,
           channel' # <<>> => channel'[Len(channel')] = quoted, channel' = <<>> => quoted = k
    PROVE  PriceInv'
<1>1. /\ published \in Nat /\ backlog \in Seq(1..published) /\ Len(backlog) <= BacklogCapacity
      /\ BacklogCapacity \in Nat /\ MinInterval \in Nat /\ k \in 0..published
  BY PriceBounds DEF PriceInv, PriceTypes
<1>2. emitted' = k /\ since' = 0 /\ pending' = 0 /\ shown' = shown /\ reached' = reached
  BY DEF Emit, BroadcastToChannel
<1>3. CASE backlog' = Append(backlog, k) /\ Len(backlog) < BacklogCapacity /\ slot' = slot
  <2>1. backlog' \in Seq(1..published) /\ Len(backlog') <= BacklogCapacity
    BY <1>1, <1>3
  <2>2. Len(backlog) + 1 \in DOMAIN backlog' /\ backlog'[Len(backlog) + 1] = k
    BY <1>1, <1>3
  <2>3. Queued(emitted)'
    BY <1>2, <2>2 DEF Queued
  <2>4. PriceTypes'
    BY <1>1, <1>2, <1>3, <2>1 DEF PriceInv, PriceTypes, Ticks
  <2> QED
    BY <1>2, <2>3, <2>4 DEF PriceInv, NewestHeld, EmittedHeld
<1>4. CASE slot' = k /\ backlog' = backlog
  <2>1. PriceTypes'
    BY <1>1, <1>2, <1>4 DEF PriceInv, PriceTypes, Ticks
  <2> QED
    BY <1>2, <1>4, <2>1 DEF PriceInv, NewestHeld, EmittedHeld
<1> QED
  BY <1>3, <1>4 DEF Emit, BroadcastToChannel

\* The oracle only adds to the channel.
LEMMA TapeKeeps == ASSUME PriceInv, PublishPrice PROVE PriceInv'
<1> DEFINE p == published + 1
<1>1. /\ published \in Nat /\ published' = p /\ p \in Ticks
      /\ UNCHANGED <<stream, emitted, since, pending, backlog, slot, shown, reached>>
  BY PriceBounds DEF PriceInv, PublishPrice, throttleVars, clientVars, Ticks
<1>2. 0..published \subseteq 0..p /\ 1..published \subseteq 1..p /\ p \in 1..p
  BY <1>1
<1> HIDE DEF p
<1>3. channel \in Seq(1..p) /\ backlog \in Seq(1..p) /\ Len(channel) <= BrokerCapacity
  <2>1. /\ channel \in Seq(1..published) /\ backlog \in Seq(1..published)
        /\ Len(channel) <= BrokerCapacity
    BY DEF PriceInv, PriceTypes
  <2>2. ASSUME NEW A, NEW B, A \subseteq B PROVE Seq(A) \subseteq Seq(B)
    BY <2>2
  <2> QED
    BY <1>2, <2>1, <2>2
<1>4. /\ {emitted, pending, slot, shown, reached} \subseteq 0..p
      /\ EmittedHeld'
  BY <1>1, <1>2 DEF PriceInv, PriceTypes, EmittedHeld, Queued
<1>5. CASE quoted' = p /\ channel' = Offer(channel, p)
  <2>1. /\ channel' \in Seq(1..p) /\ Len(channel') <= BrokerCapacity
        /\ channel' # <<>> /\ channel'[Len(channel')] = p
    BY <1>2, <1>3, <1>5, OfferedLast
  <2>2. PriceTypes' /\ NewestHeld'
    BY <1>1, <1>2, <1>3, <1>4, <1>5, <2>1 DEF PriceInv, PriceTypes, NewestHeld
  <2> QED
    BY <1>4, <2>2 DEF PriceInv
<1>6. CASE UNCHANGED <<quoted, channel>>
  <2>1. PriceTypes' /\ NewestHeld'
    BY <1>1, <1>2, <1>3, <1>4, <1>6 DEF PriceInv, PriceTypes, NewestHeld, Ticks
  <2> QED
    BY <1>4, <2>1 DEF PriceInv
<1> QED
  BY <1>1, <1>5, <1>6 DEF PublishPrice

\* What is taken from the channel is emitted or held back.
LEMMA PushKeeps == ASSUME PriceInv, PushPrice PROVE PriceInv'
<1> DEFINE k == Head(channel)
           rest == Tail(channel)
<1>1. /\ channel \in Seq(1..published) /\ channel # <<>> /\ channel' = rest
      /\ UNCHANGED <<published, stream, quoted>>
      /\ Len(channel) <= BrokerCapacity /\ BrokerCapacity \in Nat
      /\ channel[Len(channel)] = quoted
  BY PriceBounds DEF PriceInv, PriceTypes, NewestHeld, PushPrice
<1>2. /\ k \in 1..published /\ rest \in Seq(1..published) /\ Len(rest) <= BrokerCapacity
      /\ rest # <<>> => rest[Len(rest)] = quoted
      /\ rest = <<>> => quoted = k
  <2>1. PICK S : S = 1..published
    OBVIOUS
  <2>2. /\ k \in S /\ k = channel[1] /\ rest \in Seq(S)
        /\ Len(rest) = Len(channel) - 1 /\ Len(channel) \in Nat /\ Len(channel) >= 1
        /\ rest = <<>> => Len(channel) = 1
        /\ rest # <<>> => rest[Len(channel) - 1] = channel[Len(channel)]
    <3>1. channel \in Seq(S) /\ channel # <<>>
      BY <1>1, <2>1
    <3> QED
      BY <3>1, HeadAndTail
  <2> HIDE DEF k, rest
  <2> QED
    BY <1>1, <2>1, <2>2
<1>3. Emit(k) \/ (pending' = k /\ UNCHANGED <<emitted, since, clientVars>>)
  BY DEF PushPrice
<1> HIDE DEF k, rest
<1>4. CASE Emit(k)
  BY <1>1, <1>2, <1>4, EmitKeeps
<1>5. CASE pending' = k /\ UNCHANGED <<emitted, since, clientVars>>
  <2>1. k \in 0..published /\ k # 0
    BY <1>2, PriceBounds DEF PriceInv
  <2>2. PriceTypes'
    BY <1>1, <1>2, <1>5, <2>1 DEF PriceInv, PriceTypes, clientVars, Ticks
  <2>3. NewestHeld'
    BY <1>1, <1>2, <1>5, <2>1 DEF NewestHeld
  <2>4. EmittedHeld'
    BY <1>5 DEF PriceInv, EmittedHeld, Queued, clientVars
  <2> QED
    BY <2>2, <2>3, <2>4 DEF PriceInv
<1> QED
  BY <1>3, <1>4, <1>5

\* What the client gets is never behind what it got.
LEMMA ShownKeeps == ASSUME PriceInv, SendQueued \/ TakeCoalesced PROVE PriceInv'
<1>1. /\ UNCHANGED <<published, stream, quoted, channel, emitted, since, pending>>
      /\ published \in Nat
  BY PriceBounds DEF PriceInv, SendQueued, TakeCoalesced, tapeVars, throttleVars
<1>2. /\ backlog \in Seq(1..published) /\ Len(backlog) <= BacklogCapacity
      /\ BacklogCapacity \in Nat /\ {emitted, reached, slot} \subseteq 0..published
  BY PriceBounds DEF PriceInv, PriceTypes
<1>3. ASSUME NEW k \in 0..published, Show(k)
      PROVE  /\ shown' = k /\ reached' \in 0..published /\ reached <= reached' /\ k <= reached'
  BY <1>1, <1>2, <1>3 DEF Show
<1>4. CASE SendQueued
  <2> DEFINE k == Head(backlog)
             rest == Tail(backlog)
  <2>1. /\ backlog # <<>> /\ Show(k) /\ backlog' = rest /\ slot' = slot
    BY <1>4 DEF SendQueued
  <2>2. /\ k \in 1..published /\ rest \in Seq(1..published) /\ Len(rest) <= BacklogCapacity
        /\ \A i \in DOMAIN backlog : backlog[i] = k \/ \E j \in DOMAIN rest : rest[j] = backlog[i]
    <3>1. /\ k \in 1..published /\ rest \in Seq(1..published) /\ Len(rest) <= BacklogCapacity
          /\ Len(rest) = Len(backlog) - 1 /\ backlog[1] = k
          /\ \A i \in 1..(Len(backlog) - 1) : rest[i] = backlog[i + 1]
      <4>1. PICK S : S = 1..published
        OBVIOUS
      <4>2. backlog \in Seq(S) /\ backlog # <<>>
        BY <1>2, <2>1, <4>1
      <4>3. /\ k \in S /\ rest \in Seq(S) /\ Len(rest) = Len(backlog) - 1 /\ backlog[1] = k
            /\ Len(backlog) \in Nat
            /\ \A i \in 1..(Len(backlog) - 1) : rest[i] = backlog[i + 1]
        BY <4>2, HeadAndTail
      <4> HIDE DEF k, rest
      <4> QED
        BY <1>2, <4>1, <4>3
    <3> HIDE DEF k, rest
    <3>2. ASSUME NEW i \in DOMAIN backlog, i # 1 PROVE i - 1 \in DOMAIN rest /\ rest[i - 1] = backlog[i]
      <4>1. i - 1 \in 1..(Len(backlog) - 1) /\ (i - 1) + 1 = i /\ DOMAIN rest = 1..Len(rest)
        BY <1>2, <3>1, <3>2
      <4> QED
        BY <3>1, <4>1
    <3> QED
      BY <3>1, <3>2
  <2>3. k \in 0..published
    BY <1>1, <2>2
  <2> HIDE DEF k, rest
  <2>4. shown' = k /\ reached' \in 0..published /\ reached <= reached' /\ k <= reached'
    BY <1>3, <2>1, <2>3
  <2>5. PriceTypes'
    BY <1>1, <2>1, <2>2, <2>3, <2>4 DEF PriceInv, PriceTypes
  <2>6. EmittedHeld'
    <3>1. CASE emitted <= reached
      <4>1. emitted' <= reached'
        BY <1>1, <1>2, <2>4, <3>1
      <4> QED
        BY <4>1 DEF EmittedHeld
    <3>2. CASE slot = emitted
      BY <1>1, <2>1, <3>2 DEF EmittedHeld
    <3>3. ASSUME NEW i \in DOMAIN backlog, backlog[i] = emitted PROVE EmittedHeld'
      BY <1>1, <2>1, <2>2, <2>4, <3>3 DEF EmittedHeld, Queued
    <3> QED
      BY <3>1, <3>2, <3>3 DEF PriceInv, EmittedHeld, Queued
  <2> QED
    BY <1>1, <2>5, <2>6 DEF PriceInv, NewestHeld
<1>5. CASE TakeCoalesced
  <2>1. Show(slot) /\ slot' = 0 /\ backlog' = backlog
    BY <1>5 DEF TakeCoalesced
  <2>2. shown' = slot /\ reached' \in 0..published /\ reached <= reached' /\ slot <= reached'
    BY <1>2, <1>3, <2>1
  <2>3. PriceTypes'
    BY <1>1, <1>2, <2>1, <2>2 DEF PriceInv, PriceTypes
  <2>4. EmittedHeld'
    <3>1. CASE emitted <= reached \/ slot = emitted
      <4>1. emitted' <= reached'
        BY <1>1, <1>2, <2>2, <3>1
      <4> QED
        BY <4>1 DEF EmittedHeld
    <3>2. CASE Queued(emitted)
      BY <1>1, <2>1, <3>2 DEF EmittedHeld, Queued
    <3> QED
      BY <3>1, <3>2 DEF PriceInv, EmittedHeld
  <2> QED
    BY <1>1, <2>3, <2>4 DEF PriceInv, NewestHeld
<1> QED
  BY <1>4, <1>5

\* Every step keeps the invariant.
LEMMA PriceStep == PriceInv /\ [PriceNext]_priceVars => PriceInv'
<1> SUFFICES ASSUME PriceInv, [PriceNext]_priceVars PROVE PriceInv'
  OBVIOUS
<1>1. CASE FlushDue
  <2>1. /\ pending # 0 /\ Emit(pending) /\ UNCHANGED <<published, stream, quoted, channel>>
    BY <1>1 DEF FlushDue, tapeVars
  <2>2. /\ pending \in 1..published /\ channel \in Seq(1..published)
        /\ Len(channel) <= BrokerCapacity
        /\ channel # <<>> => channel[Len(channel)] = quoted
        /\ channel = <<>> => quoted = pending
    BY <2>1, PriceBounds DEF PriceInv, PriceTypes, NewestHeld
  <2>3. PICK k : k = pending
    OBVIOUS
  <2> QED
    BY <2>1, <2>2, <2>3, EmitKeeps
<1>2. CASE StreamDrops \/ StreamReopens \/ TimePasses \/ UNCHANGED priceVars
  <2>1. /\ UNCHANGED <<published, quoted, channel, emitted, pending, backlog, slot, shown, reached>>
        /\ stream' = stream \/ stream' \in {"open", "closed"}
        /\ since' = since \/ (since < MinInterval /\ since' = since + 1)
    <3>1. CASE StreamDrops \/ StreamReopens
      BY <3>1 DEF StreamDrops, StreamReopens, throttleVars, clientVars
    <3>2. CASE TimePasses
      BY <3>2 DEF TimePasses, tapeVars, clientVars
    <3>3. CASE UNCHANGED priceVars
      BY <3>3 DEF priceVars, tapeVars, throttleVars, clientVars
    <3> QED
      BY <1>2, <3>1, <3>2, <3>3
  <2>2. since' \in 0..MinInterval
    BY <2>1, PriceBounds DEF PriceInv, PriceTypes
  <2>3. PriceTypes'
    BY <2>1, <2>2 DEF PriceInv, PriceTypes
  <2> QED
    BY <2>1, <2>3 DEF PriceInv, NewestHeld, EmittedHeld, Queued
<1> QED
  BY <1>1, <1>2, TapeKeeps, PushKeeps, ShownKeeps DEF PriceNext, ForwardStep

\* Nothing is on its way at the start.
LEMMA PriceStart == PriceInit => PriceInv
<1> SUFFICES ASSUME PriceInit PROVE PriceInv
  OBVIOUS
<1>1. 0 \in Ticks /\ 0 \in 0..MinInterval /\ 0 \in 0..0 /\ 0 <= 0
  BY PriceFeedAssumption DEF Ticks
<1>2. <<>> \in Seq(1..0) /\ Len(<<>>) = 0 /\ 0 <= BrokerCapacity /\ 0 <= BacklogCapacity
  BY PriceFeedAssumption
<1>3. PriceTypes
  BY <1>1, <1>2 DEF PriceInit, PriceTypes
<1> QED
  BY <1>1, <1>3 DEF PriceInit, PriceInv, NewestHeld, EmittedHeld

\* Channel and queue keep to their capacities, and nobody handles a price that was
\* not published (push, broadcast_to_channel).
THEOREM PriceTypeCorrect == PriceSpec => []PriceTypeOK
<1>1. PriceInv => PriceTypeOK
  <2> SUFFICES ASSUME PriceInv PROVE PriceTypeOK
    OBVIOUS
  <2>1. published \in Nat /\ 0..published \subseteq Ticks /\ published \in Ticks
    BY PriceBounds DEF PriceInv, Ticks
  <2>2. ASSUME NEW k \in Ticks, k > published
        PROVE  k \notin {quoted, emitted, pending, slot, shown}
    <3>1. k \notin 0..published
      BY <2>1, <2>2 DEF Ticks
    <3> QED
      BY <3>1 DEF PriceInv, PriceTypes
  <2> QED
    BY <2>1, <2>2 DEF PriceInv, PriceTypes, PriceTypeOK
<1> QED
  BY <1>1, PriceStart, PriceStep, PTL DEF PriceSpec

\* The newest price handed to the broker is never dropped on its way: not by a lagging
\* receiver, nor by the throttle, nor by a full queue, for any tape, capacities and
\* intervals.  It is what PricesReachClients needs to hold (push, flush_due,
\* broadcast_to_channel, take_coalesced).
THEOREM NewestNeverDropped == PriceSpec => []NewestOnItsWay
<1>1. PriceInv => NewestOnItsWay
  <2> SUFFICES ASSUME PriceInv PROVE NewestOnItsWay
    OBVIOUS
  <2>1. CASE channel # <<>>
    <3>1. Len(channel) \in DOMAIN channel /\ channel[Len(channel)] = quoted
      BY <2>1 DEF PriceInv, PriceTypes, NewestHeld
    <3> QED
      BY <3>1 DEF NewestOnItsWay
  <2>2. CASE channel = <<>>
    BY <2>2 DEF PriceInv, NewestHeld, EmittedHeld, NewestOnItsWay
  <2> QED
    BY <2>1, <2>2
<1> QED
  BY <1>1, PriceStart, PriceStep, PTL DEF PriceSpec
================================================================================
