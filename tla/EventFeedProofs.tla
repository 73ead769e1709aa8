--------------------------- MODULE EventFeedProofs ---------------------------
(***************************************************************************)
(* No announced change is lost between the outbox and the screen, and the  *)
(* activity list has each plan event once: for any number of writes and    *)
(* faults, any batch and any queue, and any ring that holds a batch.       *)
(***************************************************************************)
EXTENDS EventFeed, FiniteSetTheorems, SequenceTheorems, WellFoundedInduction, TLAPS

-----------------------------------------------------------------------------
(* Largest numbers *)

\* A set of numbers with an upper bound has a largest one: the intervals from its
\* members to the bound are well-founded by inclusion.
LEMMA LargestNumber ==
  ASSUME NEW b \in Nat, NEW S \in SUBSET (0..b), S # {}
  PROVE  \E m \in S : \A n \in S : n <= m
<1>. DEFINE U == 0..b
            T == {k..b : k \in S}
            R == StrictSubsetOrdering(U)
<1>1. IsFiniteSet(U)
  BY FS_Interval
<1>2. IsWellFoundedOn(R, FiniteSubsetsOf(U))
  BY FS_StrictSubsetOrderingWellFounded
<1>3. T \subseteq FiniteSubsetsOf(U)
  <2>. SUFFICES ASSUME NEW k \in S
                PROVE  k..b \in FiniteSubsetsOf(U)
    OBVIOUS
  <2>1. IsFiniteSet(k..b)
    BY FS_Interval
  <2>. QED  BY <2>1 DEF FiniteSubsetsOf
<1>4. T # {}
  OBVIOUS
<1>. HIDE DEF R, T
<1>5. \E x \in T : \A y \in T : ~ (<<y, x>> \in R)
  BY <1>2, <1>3, <1>4, WFMin
<1>6. PICK m \in S : \A y \in T : ~ (<<y, m..b>> \in R)
  BY <1>5 DEF T
<1>7. ASSUME NEW k \in S, m < k
      PROVE  FALSE
  <2>1. k..b \in T /\ k..b \in SUBSET U /\ m..b \in SUBSET U
    BY <1>7 DEF T
  <2>2. m \in m..b /\ m \notin k..b /\ k..b \subseteq m..b
    BY <1>7
  <2>3. <<k..b, m..b>> \in R
    BY <2>1, <2>2 DEF R, StrictSubsetOrdering
  <2>. QED  BY <1>6, <2>1, <2>3
<1>. QED  BY <1>6, <1>7

-----------------------------------------------------------------------------
(* What a query would return *)

\* The last write of a history that touches a query.
LastIn(h, q) == SelectLastInSeq(h, LAMBDA kind : q \in Touches(kind))

LEMMA TruthIsLast == ASSUME NEW q PROVE Truth(q) = LastIn(history, q)
  BY DEF Truth, LastIn

\* It is in the history, it touches the query, and no later one does.
LEMMA LastInIs ==
  ASSUME NEW h \in Seq(Kind), NEW q
  PROVE  /\ LastIn(h, q) \in 0..Len(h)
         /\ LastIn(h, q) # 0 => q \in Touches(h[LastIn(h, q)])
         /\ \A n \in 1..Len(h) : q \in Touches(h[n]) => n <= LastIn(h, q)
<1>. DEFINE I == {n \in 1..Len(h) : q \in Touches(h[n])}
<1>1. Len(h) \in Nat /\ I \in SUBSET (0..Len(h))
  OBVIOUS
<1>2. CASE I = {}
  <2>1. LastIn(h, q) = 0
    BY <1>2 DEF LastIn, SelectLastInSeq
  <2>. QED  BY <1>1, <1>2, <2>1
<1>3. CASE I # {}
  <2>1. LastIn(h, q) = CHOOSE x \in I : \A y \in I : x >= y
    BY <1>3 DEF LastIn, SelectLastInSeq, Max
  <2>. HIDE DEF I
  <2>2. \E m \in I : \A n \in I : n <= m
    BY <1>1, <1>3, LargestNumber
  <2>3. \E m \in I : \A n \in I : m >= n
    BY <1>1, <2>2
  <2>4. LastIn(h, q) \in I /\ \A n \in I : LastIn(h, q) >= n
    BY <2>1, <2>3
  <2>. QED  BY <2>4 DEF I
<1>. QED  BY <1>2, <1>3

\* A new write is the last one of the queries that it touches, and of no other.
LEMMA LastInAppend ==
  ASSUME NEW h \in Seq(Kind), NEW kind \in Kind, NEW q
  PROVE  LastIn(Append(h, kind), q)
           = IF q \in Touches(kind) THEN Len(h) + 1 ELSE LastIn(h, q)
<1>. DEFINE g == Append(h, kind)
<1>1. /\ g \in Seq(Kind) /\ Len(g) = Len(h) + 1 /\ Len(h) \in Nat
      /\ g[Len(h) + 1] = kind /\ \A n \in 1..Len(h) : g[n] = h[n]
  BY AppendProperties
<1>. HIDE DEF g
<1>2. /\ LastIn(g, q) \in 0..Len(g)
      /\ LastIn(g, q) # 0 => q \in Touches(g[LastIn(g, q)])
      /\ \A n \in 1..Len(g) : q \in Touches(g[n]) => n <= LastIn(g, q)
  BY <1>1, LastInIs
<1>3. /\ LastIn(h, q) \in 0..Len(h)
      /\ LastIn(h, q) # 0 => q \in Touches(h[LastIn(h, q)])
      /\ \A n \in 1..Len(h) : q \in Touches(h[n]) => n <= LastIn(h, q)
  BY LastInIs
<1>4. LastIn(g, q) = IF q \in Touches(kind) THEN Len(h) + 1 ELSE LastIn(h, q)
  BY <1>1, <1>2, <1>3
<1>. QED  BY <1>4 DEF g

-----------------------------------------------------------------------------
(* Where the writes are *)

\* The rows of a pass are those after the last published one, without a gap; every row
\* that is on its way, listed or waiting for its response was committed.
Located ==
    /\ marked <= published /\ published <= Len(history) /\ cursor <= Len(history)
    /\ due \subseteq OutboxRows
    /\ \A n \in due : published < n
    /\ \A n \in due : \A k \in OutboxRows : published < k /\ k <= n => k \in due
    /\ pass # "outbox" => due = {} /\ published = marked
    /\ ToSet(queue) \cup ToSet(ring) \cup ToSet(buffer) \cup acks \subseteq 1..Len(history)

\* A connection that is not open has no queue, and one that broke says so.
Linked ==
    /\ conn # "open" => queue = <<>>
    /\ hadError <=> conn = "retrying"

Basic == TypeOK /\ Located /\ Linked

Entry == [known : BOOLEAN, data : 0..MaxWrites, stale : BOOLEAN,
          fetch : {"idle", "asked", "read"}, reply : 0..MaxWrites]

\* What a sequence holds after a row was added or taken.
LEMMA HoldsAppended ==
  ASSUME NEW S, NEW s \in Seq(S), NEW n \in S
  PROVE  /\ Append(s, n) \in Seq(S) /\ Len(Append(s, n)) = Len(s) + 1
         /\ ToSet(Append(s, n)) = ToSet(s) \cup {n}
         /\ s \o <<n>> = Append(s, n)
<1>1. Append(s, n) \in Seq(S) /\ Len(Append(s, n)) = Len(s) + 1
  BY AppendProperties
<1>2. \A i \in 1..Len(s) : Append(s, n)[i] = s[i]
  BY AppendProperties
<1>3. Append(s, n)[Len(s) + 1] = n
  BY AppendProperties
<1>4. Len(s) \in Nat /\ DOMAIN s = 1..Len(s) /\ DOMAIN Append(s, n) = 1..(Len(s) + 1)
  BY <1>1
<1>. HIDE <1>1
<1>5. ToSet(Append(s, n)) = ToSet(s) \cup {n}
  BY <1>2, <1>3, <1>4 DEF ToSet
<1>6. s \o <<n>> = Append(s, n)
  BY AppendIsConcat
<1>. QED  BY <1>1, <1>5, <1>6

\* What it held before its head was taken.
LEMMA HoldsTail ==
  ASSUME NEW S, NEW s \in Seq(S), s # <<>>
  PROVE  /\ Tail(s) \in Seq(S) /\ Len(Tail(s)) = Len(s) - 1 /\ Len(s) >= 1
         /\ Head(s) \in S /\ Head(s) \in ToSet(s)
         /\ ToSet(s) = ToSet(Tail(s)) \cup {Head(s)}
<1>1. /\ Tail(s) \in Seq(S) /\ Len(Tail(s)) = Len(s) - 1
      /\ Head(s) = s[1] /\ Len(s) \in Nat /\ Len(s) >= 1
      /\ \A i \in 1..Len(Tail(s)) : Tail(s)[i] = s[i + 1]
  BY HeadTailProperties
<1>2. DOMAIN s = 1..Len(s) /\ DOMAIN Tail(s) = 1..(Len(s) - 1)
  BY <1>1
<1>3. ToSet(Tail(s)) \subseteq ToSet(s)
  BY <1>1, <1>2 DEF ToSet
<1>4. Head(s) \in ToSet(s)
  BY <1>1, <1>2 DEF ToSet
<1>5. ASSUME NEW i \in 1..Len(s)
      PROVE  s[i] \in ToSet(Tail(s)) \cup {Head(s)}
  <2>1. CASE i = 1
    BY <1>1, <2>1
  <2>2. CASE i # 1
    <3>1. i - 1 \in DOMAIN Tail(s) /\ Tail(s)[i - 1] = s[i]
      BY <1>1, <1>2, <2>2
    <3>. QED  BY <3>1 DEF ToSet
  <2>. QED  BY <2>1, <2>2
<1>6. ToSet(s) \subseteq ToSet(Tail(s)) \cup {Head(s)}
  BY <1>2, <1>5 DEF ToSet
<1>7. s[1] \in S
  BY <1>1
<1>. QED  BY <1>1, <1>3, <1>4, <1>6, <1>7

LEMMA HoldsNothing == ToSet(<<>>) = {}
  BY DEF ToSet

\* What Invalidate writes is an entry of the cache.
LEMMA InvalidateTyped ==
  ASSUME NEW Q, cache \in [Query -> Entry], Invalidate(Q)
  PROVE  cache' \in [Query -> Entry]
<1>1. \A q \in Query : cache[q] \in Entry
  OBVIOUS
<1>2. 0 \in 0..MaxWrites
  BY FeedAssumption
<1>. QED  BY <1>1, <1>2 DEF Invalidate, Invalidated, Entry

\* What a publication does to the queue.
LEMMA PublishIs ==
  ASSUME TypeOK, Located, NEW n \in 1..Len(history), Publish(n)
  PROVE  /\ queue' \in Seq(1..MaxWrites) /\ Len(queue') <= QueueSize
         /\ ToSet(queue') \subseteq ToSet(queue) \cup {n}
         /\ conn # "open" => queue' = queue
         /\ missed \subseteq missed' /\ missed' \subseteq Query
         /\ n \in ToSet(queue') \/ Query \cap Announces(history[n]) \subseteq missed'
         /\ ToSet(queue) \subseteq ToSet(queue')
<1>. DEFINE S == 1..MaxWrites
<1>1. n \in S /\ queue \in Seq(S)
  BY FeedAssumption DEF TypeOK
<1>. HIDE DEF S
<1>2. /\ Append(queue, n) \in Seq(S) /\ Len(Append(queue, n)) = Len(queue) + 1
      /\ ToSet(Append(queue, n)) = ToSet(queue) \cup {n}
  BY <1>1, HoldsAppended
<1>3. Len(queue) \in Nat /\ Len(queue) <= QueueSize /\ QueueSize \in Nat
  BY <1>1, FeedAssumption DEF TypeOK
<1>4. CASE conn = "open" /\ Len(queue) < QueueSize
  <2>1. queue' = Append(queue, n) /\ missed' = missed
    BY <1>4 DEF Publish
  <2>. QED  BY <1>2, <1>3, <1>4, <2>1 DEF TypeOK, S
<1>5. CASE ~(conn = "open" /\ Len(queue) < QueueSize)
  <2>1. queue' = queue /\ missed' = missed \cup (Query \cap Announces(history[n]))
    BY <1>5 DEF Publish
  <2>. QED  BY <1>1, <1>3, <2>1 DEF TypeOK, S
<1>. QED  BY <1>4, <1>5

-----------------------------------------------------------------------------
(* The basic invariant, action by action *)

LEMMA InitBasic == Init => Basic
<1>. SUFFICES ASSUME Init
              PROVE  Basic
  OBVIOUS
<1>1. Empty \in Entry /\ Mounted(Empty) \in Entry
  <2>1. 0 \in 0..MaxWrites
    BY FeedAssumption
  <2>2. Empty \in Entry
    BY <2>1 DEF Empty, Entry
  <2>3. Mounted(Empty) \in Entry
    BY <2>1 DEF Empty, Mounted, Entry
  <2>. QED  BY <2>2, <2>3
<1>2. cache \in [Query -> Entry]
  BY <1>1 DEF Init
<1>3. /\ history \in Seq(Kind) /\ queue \in Seq(1..MaxWrites)
      /\ ring \in Seq(1..MaxWrites) /\ buffer \in Seq(1..MaxWrites)
      /\ Len(history) = 0 /\ Len(queue) = 0 /\ Len(ring) = 0
  BY DEF Init
<1>4. TypeOK
  <2>1. 0 \in 0..MaxWrites /\ 0 \in 0..MaxFaults /\ 0 <= QueueSize /\ 0 <= RingSize
    BY FeedAssumption
  <2>2. /\ marked = 0 /\ published = 0 /\ cursor = 0 /\ faults = 0
        /\ pass = "start" /\ due = {} /\ conn = "connecting" /\ hadError = FALSE
        /\ page = "plan" /\ acks = {} /\ missed = {}
    BY DEF Init
  <2>3. Len(history) <= MaxWrites
    BY <1>3, FeedAssumption
  <2>. QED  BY <1>2, <1>3, <2>1, <2>2, <2>3 DEF TypeOK, Entry
<1>5. Located
  BY <1>3, HoldsNothing DEF Init, Located
<1>. QED  BY <1>4, <1>5 DEF Init, Basic, Linked

\* A commit, of whoever it is, adds a row after all others.
LEMMA CommitKeeps ==
  ASSUME Basic, NEW kind \in Kind, Len(history) < MaxWrites,
         history' = Append(history, kind),
         acks' = acks \/ acks' = {Len(history) + 1},
         NEW extra \in SUBSET Query, missed' = missed \cup extra,
         UNCHANGED <<marked, published, pass, due, cursor, ring, buffer, page, cache, faults>>,
         UNCHANGED linkVars
  PROVE  Basic'
<1>. USE DEF linkVars
<1>. DEFINE n == Len(history)
<1>1. /\ history' \in Seq(Kind) /\ Len(history') = n + 1 /\ n \in Nat
      /\ \A i \in 1..n : history'[i] = history[i]
  BY AppendProperties DEF Basic, TypeOK
<1>2. 1..n \subseteq 1..(n + 1) /\ n + 1 \in 1..(n + 1) /\ n + 1 <= MaxWrites
  BY <1>1, FeedAssumption
<1>3. acks' \subseteq 1..(n + 1) /\ acks' \subseteq 1..MaxWrites
  BY <1>1, <1>2, FeedAssumption DEF Basic, TypeOK, Located
<1>4. TypeOK'
  BY <1>1, <1>2, <1>3 DEF Basic, TypeOK
<1>5. DOMAIN history = 1..n /\ DOMAIN history' = 1..(n + 1)
  BY <1>1 DEF Basic, TypeOK
<1>6. /\ OutboxRows \subseteq OutboxRows'
      /\ \A k \in OutboxRows' : k <= n => k \in OutboxRows
  BY <1>1, <1>2, <1>5 DEF OutboxRows, InOutbox
<1>7. /\ due' \subseteq OutboxRows'
      /\ \A m \in due' : \A k \in OutboxRows' : published' < k /\ k <= m => k \in due'
  <2>1. due \subseteq 1..n
    BY <1>5 DEF Basic, Located, OutboxRows
  <2>2. OutboxRows' \subseteq 1..(n + 1)
    BY <1>5 DEF OutboxRows
  <2>3. \A m \in due : \A k \in OutboxRows' : k <= m => k \in OutboxRows
    BY <1>1, <1>6, <2>1, <2>2
  <2>. QED  BY <1>6, <2>1, <2>3 DEF Basic, Located
<1>8. marked <= n + 1 /\ published <= n + 1 /\ cursor <= n + 1
  BY <1>1 DEF Basic, TypeOK, Located
<1>9. ToSet(queue) \cup ToSet(ring) \cup ToSet(buffer) \subseteq 1..(n + 1)
  BY <1>2 DEF Basic, Located
<1>10. Located'
  BY <1>1, <1>3, <1>7, <1>8, <1>9 DEF Basic, Located
<1>. QED  BY <1>4, <1>10 DEF Basic, Linked

LEMMA RelayStartsKeeps == ASSUME Basic, RelayStarts PROVE Basic'
<1>. USE DEF linkVars, clientVars
<1>1. due' \subseteq OutboxRows /\ \A n \in due' : marked < n
  BY DEF RelayStarts
<1>2. OutboxRows \subseteq 1..Len(history) /\ 1..Len(history) \subseteq 1..MaxWrites
  BY FeedAssumption DEF OutboxRows, Basic, TypeOK
<1>3. pass' # "outbox" => due' = {}
  BY DEF RelayStarts
<1>4. published = marked
  BY DEF RelayStarts, Basic, Located
<1>5. ASSUME NEW n \in due', NEW k \in OutboxRows, marked < k, k <= n
      PROVE  k \in due'
  <2>. DEFINE Before(m) == {j \in OutboxRows : marked < j /\ j < m}
  <2>1. IsFiniteSet(Before(n))
    <3>1. IsFiniteSet(1..Len(history))
      BY FS_Interval DEF Basic, TypeOK
    <3>. QED  BY <1>2, <3>1, FS_Subset
  <2>2. Before(k) \subseteq Before(n)
    <3>1. k \in Nat /\ n \in Nat /\ \A j \in OutboxRows : j \in Nat
      BY <1>1, <1>2, <1>5
    <3>2. \A j \in OutboxRows : j < k => j < n
      BY <1>5, <3>1
    <3>. QED  BY <3>2
  <2>3. Cardinality(Before(k)) <= Cardinality(Before(n)) /\ IsFiniteSet(Before(k))
    BY <2>1, <2>2, FS_Subset
  <2>4. Cardinality(Before(n)) \in Nat /\ Cardinality(Before(k)) \in Nat
    BY <2>1, <2>3, FS_CardinalityType
  <2>5. Cardinality(Before(n)) < Batch
    BY DEF RelayStarts
  <2>6. Cardinality(Before(k)) < Batch
    BY <2>3, <2>4, <2>5, FeedAssumption
  <2>. QED  BY <1>5, <2>6 DEF RelayStarts
<1>6. TypeOK'
  BY <1>1, <1>2 DEF RelayStarts, Basic, TypeOK
<1>7. /\ OutboxRows' = OutboxRows
      /\ UNCHANGED <<history, marked, published, cursor, queue, ring, buffer, acks, conn, hadError>>
  BY DEF RelayStarts, OutboxRows, InOutbox
<1>8. Located'
  BY <1>1, <1>3, <1>4, <1>5, <1>7 DEF Basic, Located
<1>. QED  BY <1>6, <1>7, <1>8 DEF Basic, Linked

LEMMA RowsAreWrites == ASSUME Basic PROVE /\ OutboxRows \subseteq 1..Len(history)
                                          /\ AgentRows \subseteq 1..Len(history)
                                          /\ 1..Len(history) \subseteq 1..MaxWrites
                                          /\ Len(history) \in Nat
  BY FeedAssumption DEF OutboxRows, AgentRows, Basic, TypeOK

LEMMA RelayRowKeeps == ASSUME Basic, RelayRow PROVE Basic'
<1>. USE DEF clientVars
<1>1. PICK n \in Following(due, 0) : due' = due \ {n} /\ published' = n /\ Publish(n)
  BY DEF RelayRow
<1>2. n \in due /\ n \in OutboxRows /\ \A k \in due : 0 < k => n <= k
  BY <1>1 DEF Following, Basic, Located
<1>3. n \in 1..Len(history) /\ n \in 1..MaxWrites /\ due \subseteq 1..Len(history)
  BY <1>2, RowsAreWrites DEF Basic, Located
<1>4. /\ queue' \in Seq(1..MaxWrites) /\ Len(queue') <= QueueSize
      /\ ToSet(queue') \subseteq ToSet(queue) \cup {n}
      /\ conn # "open" => queue' = queue
      /\ missed' \subseteq Query
  BY <1>1, <1>3, PublishIs DEF Basic
<1>5. UNCHANGED <<history, marked, pass, cursor, conn, hadError, faults,
                  ring, buffer, page, cache, acks>>
  BY DEF RelayRow
<1>6. TypeOK'
  <2>1. published' \in 0..MaxWrites /\ due' \subseteq 1..MaxWrites
    BY <1>1, <1>3 DEF Basic, TypeOK
  <2>. QED  BY <1>4, <1>5, <2>1 DEF Basic, TypeOK
<1>7. Located'
  <2>1. OutboxRows' = OutboxRows
    BY <1>5 DEF OutboxRows, InOutbox
  <2>2. \A k \in due : k # n => n < k
    BY <1>2, <1>3
  <2>3. marked <= n /\ published < n /\ n <= Len(history)
    BY <1>2, <1>3 DEF Basic, Located, TypeOK
  <2>4. \A m \in due : \A k \in OutboxRows : n < k /\ k <= m => k \in due
    <3>1. \A k \in OutboxRows : n < k => published < k
      BY <2>3, <1>3, RowsAreWrites DEF Basic, TypeOK
    <3>. QED  BY <3>1 DEF Basic, Located
  <2>5. pass = "outbox"
    BY <1>2 DEF Basic, Located
  <2>6. /\ \A m \in due' : published' < m
        /\ \A m \in due' : \A k \in OutboxRows' : published' < k /\ k <= m => k \in due'
    <3>1. \A k \in OutboxRows : n < k => k # n
      BY <1>3
    <3>. QED  BY <1>1, <2>1, <2>2, <2>4, <3>1
  <2>7. ToSet(queue') \subseteq 1..Len(history)
    BY <1>3, <1>4 DEF Basic, Located
  <2>. QED  BY <1>1, <1>5, <2>1, <2>3, <2>5, <2>6, <2>7 DEF Basic, Located
<1>8. Linked'
  BY <1>4, <1>5 DEF Basic, Linked
<1>. QED  BY <1>6, <1>7, <1>8 DEF Basic

LEMMA RelayCommitsKeeps == ASSUME Basic, RelayCommits PROVE Basic'
<1>. USE DEF linkVars, clientVars
<1>1. OutboxRows' = OutboxRows
  BY DEF RelayCommits, OutboxRows, InOutbox
<1>2. TypeOK'
  BY DEF RelayCommits, Basic, TypeOK
<1>3. Located'
  BY <1>1 DEF RelayCommits, Basic, Located, TypeOK
<1>. QED  BY <1>2, <1>3 DEF RelayCommits, Basic, Linked

LEMMA RelayAgentEventKeeps == ASSUME Basic, RelayAgentEvent PROVE Basic'
<1>. USE DEF clientVars
<1>1. PICK n \in Following(AgentRows, cursor) : cursor' = n /\ Publish(n)
  BY DEF RelayAgentEvent
<1>2. n \in 1..Len(history) /\ n \in 1..MaxWrites
  BY <1>1, RowsAreWrites DEF Following
<1>3. /\ queue' \in Seq(1..MaxWrites) /\ Len(queue') <= QueueSize
      /\ ToSet(queue') \subseteq ToSet(queue) \cup {n}
      /\ conn # "open" => queue' = queue
      /\ missed' \subseteq Query
  BY <1>1, <1>2, PublishIs DEF Basic
<1>4. UNCHANGED <<history, marked, published, pass, due, conn, hadError, faults,
                  ring, buffer, page, cache, acks>>
  BY DEF RelayAgentEvent
<1>5. TypeOK'
  BY <1>1, <1>2, <1>3, <1>4 DEF Basic, TypeOK
<1>6. OutboxRows' = OutboxRows
  BY <1>4 DEF OutboxRows, InOutbox
<1>7. ToSet(queue') \subseteq 1..Len(history)
  BY <1>2, <1>3 DEF Basic, Located
<1>8. cursor' <= Len(history)
  BY <1>1, <1>2
<1>9. Located'
  BY <1>4, <1>6, <1>7, <1>8 DEF Basic, Located
<1>. QED  BY <1>3, <1>4, <1>5, <1>9 DEF Basic, Linked

LEMMA RelayFailsKeeps == ASSUME Basic, RelayFails PROVE Basic'
<1>. USE DEF linkVars, clientVars
<1>1. TypeOK'
  BY FeedAssumption DEF RelayFails, Basic, TypeOK
<1>2. marked <= Len(history)
  BY DEF Basic, TypeOK, Located
<1>3. Located'
  BY <1>2 DEF RelayFails, Basic, Located, TypeOK
<1>. QED  BY <1>1, <1>3 DEF RelayFails, Basic, Linked

\* A response that is lost leaves nothing under way, and misses queries only.
LEMMA UnansweredTyped == ASSUME Basic, NEW lost \in SUBSET acks, Unanswered(lost)
                         PROVE  /\ acks' \subseteq acks
                                /\ missed \subseteq missed' /\ missed' \subseteq Query
<1>1. \A n \in lost : Unrefreshed(n) \subseteq Query
  BY DEF Unrefreshed
<1>. QED  BY <1>1 DEF Unanswered, Basic, TypeOK

LEMMA ApiRestartsKeeps == ASSUME Basic, ApiRestarts PROVE Basic'
<1>0. acks' \subseteq acks /\ missed' \subseteq Query
  BY UnansweredTyped DEF ApiRestarts
<1>1. <<>> \in Seq(1..MaxWrites) /\ Len(<<>>) = 0 /\ ToSet(<<>>) = {}
  BY HoldsNothing
<1>2. TypeOK'
  BY <1>0, <1>1, FeedAssumption DEF ApiRestarts, Basic, TypeOK
<1>3. marked <= Len(history) /\ 0 <= Len(history) /\ marked <= marked
  BY DEF Basic, TypeOK, Located
<1>4. Located'
  BY <1>0, <1>1, <1>3 DEF ApiRestarts, Basic, Located
<1>. QED  BY <1>2, <1>4 DEF ApiRestarts, Basic, Linked

LEMMA BreaksKeeps == ASSUME Basic, Breaks PROVE Basic'
<1>. USE DEF clientVars, serverVars
<1>1. <<>> \in Seq(1..MaxWrites) /\ Len(<<>>) = 0 /\ ToSet(<<>>) = {}
  BY HoldsNothing
<1>2. TypeOK'
  BY <1>1, FeedAssumption DEF Breaks, Basic, TypeOK
<1>3. OutboxRows' = OutboxRows
  BY DEF Breaks, OutboxRows, InOutbox
<1>4. Located'
  BY <1>1, <1>3 DEF Breaks, Basic, Located
<1>. QED  BY <1>2, <1>4 DEF Breaks, Basic, Linked

\* A step of the tab that leaves the rows, the link and the lists alone.
LEMMA TabKeeps ==
  ASSUME Basic, UNCHANGED serverVars, UNCHANGED <<conn, hadError, ring, buffer>>,
         queue' = queue \/ queue' = <<>>, acks' \subseteq acks,
         page' \in {"plan", "plans"}, cache' \in [Query -> Entry],
         missed' \subseteq Query, faults' \in 0..MaxFaults
  PROVE  Basic'
<1>. USE DEF serverVars
<1>1. <<>> \in Seq(1..MaxWrites) /\ Len(<<>>) = 0 /\ ToSet(<<>>) = {}
  BY HoldsNothing
<1>2. TypeOK'
  <2>1. queue' \in Seq(1..MaxWrites) /\ Len(queue') <= QueueSize
    <3>1. queue \in Seq(1..MaxWrites) /\ Len(queue) <= QueueSize
      BY DEF Basic, TypeOK
    <3>2. 0 <= QueueSize
      BY FeedAssumption
    <3>. QED  BY <1>1, <3>1, <3>2
  <2>2. UNCHANGED <<history, marked, published, pass, due, cursor, conn, hadError, ring, buffer>>
    OBVIOUS
  <2>3. acks' \subseteq 1..MaxWrites
    BY DEF Basic, TypeOK
  <2>. QED  BY <2>1, <2>2, <2>3 DEF Basic, TypeOK, Entry
<1>3. OutboxRows' = OutboxRows
  BY DEF OutboxRows, InOutbox
<1>4. Located'
  BY <1>1, <1>3 DEF Basic, Located
<1>. QED  BY <1>2, <1>4 DEF Basic, Linked


LEMMA Cached == ASSUME Basic PROVE cache \in [Query -> Entry]
  BY DEF Basic, TypeOK, Entry

LEMMA MissedAreQueries == ASSUME NEW Q, missed \subseteq Query PROVE StillMissed(Q) \subseteq Query
  BY DEF StillMissed, Swallowed

LEMMA OpensKeeps == ASSUME Basic, Opens PROVE Basic'
<1>. USE DEF serverVars
<1>1. <<>> \in Seq(1..MaxWrites) /\ Len(<<>>) = 0 /\ ToSet(<<>>) = {}
  BY HoldsNothing
<1>2. cache' \in [Query -> Entry] /\ missed' \subseteq Query
  BY Cached, InvalidateTyped, MissedAreQueries DEF Opens, Basic, TypeOK
<1>3. TypeOK'
  <2>1. queue' \in Seq(1..MaxWrites) /\ Len(queue') <= QueueSize
    BY <1>1, FeedAssumption DEF Opens
  <2>2. UNCHANGED <<history, marked, published, pass, due, cursor, ring, buffer, page, acks, faults>>
    BY DEF Opens
  <2>3. conn' = "open" /\ hadError' = FALSE
    BY DEF Opens
  <2>. QED  BY <1>2, <2>1, <2>2, <2>3 DEF Basic, TypeOK, Entry
<1>4. OutboxRows' = OutboxRows
  BY DEF Opens, OutboxRows, InOutbox
<1>5. Located'
  BY <1>1, <1>4 DEF Opens, Basic, Located
<1>. QED  BY <1>3, <1>5 DEF Opens, Basic, Linked

\* What the arrival of the row at the head of the queue does to ring and list.
LEMMA DeliveredIs ==
  ASSUME Basic, Delivered
  PROVE  /\ Head(queue) \in 1..Len(history) /\ Head(queue) \in 1..MaxWrites
         /\ queue' \in Seq(1..MaxWrites) /\ Len(queue') <= QueueSize
         /\ ToSet(queue) = ToSet(queue') \cup {Head(queue)}
         /\ ring' \in Seq(1..MaxWrites) /\ Len(ring') <= RingSize
         /\ ToSet(ring') \subseteq ToSet(ring) \cup {Head(queue)}
         /\ buffer' \in Seq(1..MaxWrites)
         /\ ToSet(buffer') \subseteq ToSet(buffer) \cup {Head(queue)}
<1>. DEFINE S == 1..MaxWrites
<1>1. queue \in Seq(S) /\ ring \in Seq(S) /\ buffer \in Seq(S) /\ queue # <<>> /\ queue' = Tail(queue)
  BY DEF Basic, TypeOK, Delivered
<1>. DEFINE n == Head(queue)
<1>2. n \in 1..Len(history)
  BY <1>1, HoldsTail DEF Basic, Located
<1>3. n \in S
  BY <1>2, RowsAreWrites
<1>. HIDE DEF S
<1>4. /\ queue' \in Seq(S) /\ Len(queue') = Len(queue) - 1 /\ ToSet(queue) = ToSet(queue') \cup {n}
  BY <1>1, HoldsTail
<1>5. Len(queue) \in Nat /\ Len(queue) <= QueueSize /\ Len(ring) \in Nat /\ Len(ring) <= RingSize
  BY <1>1 DEF Basic, TypeOK
<1>6. CASE n \in ToSet(ring)
  <2>1. ring' = ring /\ buffer' = buffer
    BY <1>6 DEF Delivered
  <2>. QED  BY <1>1, <1>2, <1>3, <1>4, <1>5, <2>1, FeedAssumption DEF S
<1>7. CASE n \notin ToSet(ring)
  <2>. DEFINE kept == IF Len(ring) < RingSize THEN ring ELSE Tail(ring)
  <2>1. ring' = kept \o <<n>> /\ buffer' = Append(buffer, n)
    BY <1>7 DEF Delivered
  <2>2. kept \in Seq(S) /\ Len(kept) < RingSize /\ ToSet(kept) \subseteq ToSet(ring)
    <3>1. CASE Len(ring) < RingSize
      BY <1>1, <3>1
    <3>2. CASE ~(Len(ring) < RingSize)
      <4>1. Len(ring) = RingSize /\ RingSize >= 1
        BY <1>5, <3>2, FeedAssumption
      <4>2. ring # <<>>
        BY <4>1
      <4>. QED  BY <1>1, <1>5, <3>2, <4>1, <4>2, HoldsTail
    <3>. QED  BY <3>1, <3>2
  <2>. HIDE DEF kept
  <2>. HIDE DEF n
  <2>3. /\ ring' \in Seq(S) /\ Len(ring') = Len(kept) + 1 /\ ToSet(ring') = ToSet(kept) \cup {n}
    <3>1. /\ Append(kept, n) \in Seq(S) /\ Len(Append(kept, n)) = Len(kept) + 1
          /\ ToSet(Append(kept, n)) = ToSet(kept) \cup {n} /\ kept \o <<n>> = Append(kept, n)
      BY <1>3, <2>2, HoldsAppended
    <3>. QED  BY <2>1, <3>1
  <2>5. buffer' \in Seq(S) /\ ToSet(buffer') = ToSet(buffer) \cup {n}
    BY <1>1, <1>3, <2>1, HoldsAppended
  <2>4. Len(kept) \in Nat
    BY <2>2
  <2>. QED  BY <1>2, <1>3, <1>4, <1>5, <2>2, <2>3, <2>4, <2>5, FeedAssumption DEF S, n
<1>. QED  BY <1>6, <1>7

LEMMA DeliveredKeeps == ASSUME Basic, Delivered PROVE Basic'
<1>. USE DEF serverVars
<1>1. UNCHANGED <<history, marked, published, pass, due, cursor, conn, hadError, page, acks, faults>>
  BY DEF Delivered
<1>2. cache' \in [Query -> Entry] /\ missed' \subseteq Query
  BY Cached, InvalidateTyped, MissedAreQueries DEF Delivered, Basic, TypeOK
<1>3. TypeOK'
  BY <1>1, <1>2, DeliveredIs DEF Basic, TypeOK, Entry
<1>4. OutboxRows' = OutboxRows
  BY <1>1 DEF OutboxRows, InOutbox
<1>5. Located'
  BY <1>1, <1>4, DeliveredIs DEF Basic, Located
<1>6. Linked'
  BY <1>1 DEF Delivered, Basic, Linked
<1>. QED  BY <1>3, <1>5, <1>6 DEF Basic

LEMMA MountedIsEntry == ASSUME NEW e \in Entry PROVE Mounted(e) \in Entry
  BY DEF Mounted, Entry

LEMMA NavigateKeeps == ASSUME Basic, NEW p \in {"plan", "plans"}, Navigate(p) PROVE Basic'
<1>. USE DEF linkVars
<1>1. cache' \in [Query -> Entry]
  BY Cached, MountedIsEntry DEF Navigate
<1>2. /\ page' \in {"plan", "plans"} /\ missed' \subseteq Query /\ faults' \in 0..MaxFaults
      /\ acks' \subseteq acks
  BY DEF Navigate, Basic, TypeOK
<1>. QED  BY <1>1, <1>2, TabKeeps DEF Navigate

\* What the truth is for a query, it is a write.
LEMMA TruthIsWrite == ASSUME Basic, NEW q PROVE Truth(q) \in 0..Len(history) /\ Truth(q) \in 0..MaxWrites
<1>1. Truth(q) \in 0..Len(history)
  <2>1. history \in Seq(Kind)
    BY DEF Basic, TypeOK
  <2>2. LastIn(history, q) \in 0..Len(history)
    BY <2>1, LastInIs
  <2>. QED  BY <2>2, TruthIsLast
<1>2. Len(history) <= MaxWrites /\ Len(history) \in Nat
  BY DEF Basic, TypeOK
<1>. QED  BY <1>1, <1>2, FeedAssumption

LEMMA FetchReadsKeeps == ASSUME Basic, NEW q \in Query, FetchReads(q) PROVE Basic'
<1>. USE DEF linkVars
<1>1. Truth(q) \in 0..MaxWrites
  BY TruthIsWrite
<1>2. cache' \in [Query -> Entry]
  BY <1>1, Cached DEF FetchReads, Entry
<1>3. /\ page' \in {"plan", "plans"} /\ missed' \subseteq Query /\ faults' \in 0..MaxFaults
      /\ acks' \subseteq acks
  BY DEF FetchReads, Basic, TypeOK
<1>. QED  BY <1>2, <1>3, TabKeeps DEF FetchReads

LEMMA FetchLandsKeeps == ASSUME Basic, NEW q \in Query, FetchLands(q) PROVE Basic'
<1>. USE DEF linkVars
<1>1. 0 \in 0..MaxWrites
  BY FeedAssumption
<1>2. cache' \in [Query -> Entry]
  BY <1>1, Cached DEF FetchLands, Entry
<1>3. /\ page' \in {"plan", "plans"} /\ missed' \subseteq Query /\ faults' \in 0..MaxFaults
      /\ acks' \subseteq acks
  BY DEF FetchLands, Basic, TypeOK
<1>. QED  BY <1>2, <1>3, TabKeeps DEF FetchLands

LEMMA FetchFailsKeeps == ASSUME Basic, NEW q \in Query, FetchFails(q) PROVE Basic'
<1>. USE DEF linkVars
<1>1. cache' \in [Query -> Entry]
  BY Cached DEF FetchFails, Entry
<1>2. /\ page' \in {"plan", "plans"} /\ missed' \subseteq Query /\ faults' \in 0..MaxFaults
      /\ acks' \subseteq acks
  BY FeedAssumption DEF FetchFails, Basic, TypeOK
<1>. QED  BY <1>1, <1>2, TabKeeps DEF FetchFails

LEMMA ResyncKeeps == ASSUME Basic, Resync PROVE Basic'
<1>. USE DEF linkVars
<1>1. cache' \in [Query -> Entry] /\ missed' \subseteq Query
  BY Cached, InvalidateTyped, MissedAreQueries DEF Resync, Basic, TypeOK
<1>2. page' \in {"plan", "plans"} /\ faults' \in 0..MaxFaults /\ acks' \subseteq acks
  BY DEF Resync, Basic, TypeOK
<1>. QED  BY <1>1, <1>2, TabKeeps DEF Resync

LEMMA AcknowledgedKeeps == ASSUME Basic, NEW n \in acks, Acknowledged(n) PROVE Basic'
<1>. USE DEF linkVars
<1>1. cache' \in [Query -> Entry] /\ missed' \subseteq Query
  BY Cached, InvalidateTyped, MissedAreQueries DEF Acknowledged, Basic, TypeOK
<1>2. page' \in {"plan", "plans"} /\ faults' \in 0..MaxFaults /\ acks' \subseteq acks
  BY DEF Acknowledged, Basic, TypeOK
<1>. QED  BY <1>1, <1>2, TabKeeps DEF Acknowledged

LEMMA ResponseLostKeeps == ASSUME Basic, NEW n \in acks, ResponseLost(n) PROVE Basic'
<1>. USE DEF linkVars
<1>1. acks' \subseteq acks /\ missed' \subseteq Query
  BY UnansweredTyped DEF ResponseLost
<1>2. page' \in {"plan", "plans"} /\ faults' \in 0..MaxFaults /\ cache' \in [Query -> Entry]
  BY Cached, FeedAssumption DEF ResponseLost, Basic, TypeOK
<1>. QED  BY <1>1, <1>2, TabKeeps DEF ResponseLost

LEMMA WriteKeeps == ASSUME Basic, NEW kind \in Others, Write(kind) PROVE Basic'
<1>1. kind \in Kind /\ Query \cap (Touches(kind) \ Announces(kind)) \in SUBSET Query
  BY FeedAssumption DEF Kind
<1>. QED  BY <1>1, CommitKeeps DEF Write, clientVars

LEMMA CommandKeeps == ASSUME Basic, NEW kind \in Own, Command(kind) PROVE Basic'
<1>1. /\ kind \in Kind
      /\ Query \cap (Touches(kind) \ (Announces(kind) \cup Refreshes(kind))) \in SUBSET Query
  BY FeedAssumption DEF Kind
<1>. QED  BY <1>1, CommitKeeps DEF Command

LEMMA BasicKept == Basic /\ [Next]_vars => Basic'
<1>. SUFFICES ASSUME Basic, [Next]_vars
              PROVE  Basic'
  OBVIOUS
<1>1. CASE UNCHANGED vars
  <2>1. UNCHANGED serverVars /\ UNCHANGED <<conn, hadError, ring, buffer>>
    BY <1>1 DEF vars, serverVars
  <2>2. /\ queue' = queue /\ acks' = acks /\ page' = page /\ cache' = cache
        /\ missed' = missed /\ faults' = faults
    BY <1>1 DEF vars
  <2>3. page \in {"plan", "plans"} /\ missed \subseteq Query /\ faults \in 0..MaxFaults
    BY DEF Basic, TypeOK
  <2>. QED  BY <2>1, <2>2, <2>3, Cached, TabKeeps
<1>2. CASE Next
  BY <1>2, RelayStartsKeeps, RelayRowKeeps, RelayCommitsKeeps, RelayAgentEventKeeps,
     RelayFailsKeeps, ApiRestartsKeeps, OpensKeeps, BreaksKeeps, DeliveredKeeps,
     NavigateKeeps, FetchReadsKeeps, FetchLandsKeeps, FetchFailsKeeps, ResyncKeeps,
     AcknowledgedKeeps, ResponseLostKeeps, WriteKeeps, CommandKeeps DEF Next
<1>. QED  BY <1>1, <1>2

-----------------------------------------------------------------------------
(* What is cached *)

\* What is cached of a query is the truth or stale, and so is what is on its way.
Settled(q) ==
    /\ cache[q].known => cache[q].data = Truth(q) \/ cache[q].stale
    /\ cache[q].fetch = "read" => cache[q].reply = Truth(q)

Fine(q) == q \in missed \/ Settled(q)

\* A known query is fetched only while it is stale, and neither a reply nor what is
\* cached is ahead of the truth.
Coherent ==
    \A q \in Query :
        /\ cache[q].known /\ cache[q].fetch # "idle" => cache[q].stale
        /\ cache[q].fetch = "read" => cache[q].reply <= Truth(q)
        /\ cache[q].known => cache[q].data <= Truth(q)

\* While the connection has not broken, what is not settled will be announced, except
\* for what nobody announces.
Pending == ~hadError => \A q \in Query : Fine(q) \/ Announced(q)

\* A row in the ring has done its work: if no later write touched a query that it
\* announced, the query is settled. Its repetition may be dropped.
Heard ==
    \A n \in ToSet(ring) : \A q \in Query \cap Announces(history[n]) :
        Truth(q) <= n => Fine(q)

CacheInv == Coherent /\ Pending /\ Heard

\* The announcement of a query by one write.
AnnouncedBy(q, n) ==
    /\ Truth(q) <= n
    /\ \/ q \in Announces(history[n]) /\ n \in ToSet(queue)
       \/ q \in Announces(history[n]) /\ InOutbox(n) /\ published < n
       \/ q \in Announces(history[n]) /\ history[n] = "agent" /\ cursor < n
       \/ q \in Refreshes(history[n]) \ Announces(history[n]) /\ n \in acks

LEMMA AnnouncedIs == ASSUME Basic, NEW q
                     PROVE Announced(q) <=> \E n \in 1..Len(history) : AnnouncedBy(q, n)
<1>1. DOMAIN history = 1..Len(history)
  BY DEF Basic, TypeOK
<1>. QED  BY <1>1 DEF Announced, AnnouncedBy

LEMMA TruthKept == ASSUME history' = history, NEW q PROVE Truth(q)' = Truth(q)
  BY DEF Truth, SelectLastInSeq, Max

LEMMA SettledKept == ASSUME history' = history, NEW q \in Query, cache'[q] = cache[q]
                     PROVE Settled(q)' = Settled(q)
  BY TruthKept DEF Settled

LEMMA FineKept == ASSUME history' = history, NEW q \in Query, cache'[q] = cache[q],
                         missed \subseteq missed', Fine(q)
                  PROVE  Fine(q)'
  BY SettledKept DEF Fine

\* An invalidation leaves its queries settled, but for those that it swallows.
LEMMA InvalidateSettles ==
  ASSUME Basic, Coherent, NEW Q, Invalidate(Q), history' = history,
         missed' = StillMissed(Q), NEW q \in Query \cap Q
  PROVE  Fine(q)'
<1>1. cache[q] \in Entry /\ cache'[q] = Invalidated(cache[q], q \in Active(page))
  BY Cached DEF Invalidate
<1>2. Truth(q)' = Truth(q) /\ Truth(q) \in 0..MaxWrites
  BY TruthKept, TruthIsWrite
<1>3. cache'[q].stale
  BY <1>1 DEF Invalidated, Entry
<1>4. CASE q \in Active(page) /\ ~(~cache[q].known /\ cache[q].fetch # "idle")
  <2>1. cache'[q].fetch = "asked"
    BY <1>1, <1>4 DEF Invalidated, Entry
  <2>. QED  BY <1>3, <2>1 DEF Fine, Settled
<1>5. CASE q \notin Active(page) \/ ~cache[q].known
  <2>1. CASE q \in Swallowed(Q)
    BY <2>1 DEF Fine, StillMissed
  <2>2. CASE q \notin Swallowed(Q) /\ cache[q].fetch = "read"
    <3>1. ~(cache[q].reply < Truth(q)) /\ cache[q].reply <= Truth(q)
      BY <1>5, <2>2 DEF Swallowed, Coherent
    <3>2. cache[q].reply \in 0..MaxWrites
      BY <1>1 DEF Entry
    <3>3. cache[q].reply = Truth(q)
      BY <1>2, <3>1, <3>2, FeedAssumption
    <3>4. cache'[q].fetch = "read" => cache'[q].reply = cache[q].reply
      BY <1>1, <2>2 DEF Invalidated, Entry
    <3>. QED  BY <1>2, <1>3, <3>3, <3>4 DEF Fine, Settled
  <2>3. CASE cache[q].fetch # "read"
    <3>1. cache'[q].fetch # "read"
      BY <1>1, <2>3 DEF Invalidated, Entry
    <3>. QED  BY <1>3, <3>1 DEF Fine, Settled
  <2>. QED  BY <2>1, <2>2, <2>3
<1>. QED  BY <1>4, <1>5

LEMMA InvalidateFine ==
  ASSUME Basic, Coherent, NEW Q, Invalidate(Q), history' = history,
         missed' = StillMissed(Q), NEW q \in Query, Fine(q)
  PROVE  Fine(q)'
<1>1. CASE q \in Q
  BY <1>1, InvalidateSettles
<1>2. CASE q \notin Q
  <2>1. cache'[q] = cache[q] /\ (q \in missed => q \in missed')
    BY <1>2 DEF Invalidate, StillMissed
  <2>. QED  BY <2>1, SettledKept DEF Fine
<1>. QED  BY <1>1, <1>2

LEMMA InvalidateCoherent ==
  ASSUME Basic, Coherent, NEW Q, Invalidate(Q), history' = history
  PROVE  Coherent'
<1>. SUFFICES ASSUME NEW q \in Query
              PROVE  /\ cache'[q].known /\ cache'[q].fetch # "idle" => cache'[q].stale
                     /\ cache'[q].fetch = "read" => cache'[q].reply <= Truth(q)'
                     /\ cache'[q].known => cache'[q].data <= Truth(q)'
  BY DEF Coherent
<1>1. cache[q] \in Entry
  BY Cached
<1>2. Truth(q)' = Truth(q)
  BY TruthKept
<1>3. CASE cache'[q] = cache[q]
  BY <1>2, <1>3 DEF Coherent
<1>4. CASE cache'[q] = Invalidated(cache[q], q \in Active(page))
  <2>1. cache'[q].stale
    BY <1>1, <1>4 DEF Invalidated, Entry
  <2>2. /\ cache'[q].fetch = "read" => cache'[q].reply = cache[q].reply /\ cache[q].fetch = "read"
        /\ cache'[q].known = cache[q].known /\ cache'[q].data = cache[q].data
    BY <1>1, <1>4 DEF Invalidated, Entry
  <2>. QED  BY <1>2, <2>1, <2>2 DEF Coherent
<1>. QED  BY <1>3, <1>4 DEF Invalidate

LEMMA CoherentKept ==
  ASSUME Coherent, history' = history, cache' = cache
  PROVE  Coherent'
<1>1. \A q \in Query : Truth(q)' = Truth(q)
  BY TruthKept
<1>. QED  BY <1>1 DEF Coherent

\* An announcement outlives a step that keeps its row in the queue, before the relay or
\* among the responses.
LEMMA AnnouncedKept ==
  ASSUME Basic, history' = history, NEW q, NEW n \in 1..Len(history), AnnouncedBy(q, n),
         n \in ToSet(queue) => n \in ToSet(queue'),
         InOutbox(n) /\ published < n => published' < n \/ n \in ToSet(queue'),
         history[n] = "agent" /\ cursor < n => cursor' < n \/ n \in ToSet(queue'),
         n \in acks => n \in acks'
  PROVE  Announced(q)'
<1>1. DOMAIN history = 1..Len(history)
  BY DEF Basic, TypeOK
<1>2. Truth(q)' = Truth(q)
  BY TruthKept
<1>. QED  BY <1>1, <1>2 DEF Announced, AnnouncedBy, InOutbox

\* An announcement by an event outlives the responses.
LEMMA AnnouncedByEvent ==
  ASSUME Basic, history' = history, NEW q, NEW n \in 1..Len(history), AnnouncedBy(q, n),
         q \notin Refreshes(history[n]) \ Announces(history[n]),
         n \in ToSet(queue) => n \in ToSet(queue'),
         InOutbox(n) /\ published < n => published' < n \/ n \in ToSet(queue'),
         history[n] = "agent" /\ cursor < n => cursor' < n \/ n \in ToSet(queue')
  PROVE  Announced(q)'
<1>1. DOMAIN history = 1..Len(history)
  BY DEF Basic, TypeOK
<1>2. Truth(q)' = Truth(q)
  BY TruthKept
<1>. QED  BY <1>1, <1>2 DEF Announced, AnnouncedBy, InOutbox

\* A step that neither commits nor fetches nor invalidates keeps the cache invariant if
\* no announcement gets lost while the connection holds.
LEMMA ServerKeeps ==
  ASSUME Basic, CacheInv, history' = history, cache' = cache, ring' = ring,
         missed \subseteq missed',
         ~hadError' => ~hadError /\ \A q \in Query : \A n \in 1..Len(history) :
                                      AnnouncedBy(q, n) => Fine(q)' \/ Announced(q)'
  PROVE  CacheInv'
<1>1. \A q \in Query : Fine(q) => Fine(q)'
  BY FineKept
<1>2. Coherent'
  BY CoherentKept DEF CacheInv
<1>3. \A q \in Query : Truth(q)' = Truth(q)
  BY TruthKept
<1>4. Heard'
  BY <1>1, <1>3 DEF CacheInv, Heard
<1>5. Pending'
  <2>. SUFFICES ASSUME ~hadError', NEW q \in Query
                PROVE  Fine(q)' \/ Announced(q)'
    BY DEF Pending
  <2>1. Fine(q) \/ Announced(q)
    BY DEF CacheInv, Pending
  <2>. QED  BY <1>1, <2>1, AnnouncedIs
<1>. QED  BY <1>2, <1>4, <1>5 DEF CacheInv

LEMMA RelayStartsCache == ASSUME Basic, CacheInv, RelayStarts PROVE CacheInv'
<1>. USE DEF linkVars, clientVars
<1>1. /\ UNCHANGED <<history, cache, ring, missed, hadError, queue, published, cursor, acks>>
  BY DEF RelayStarts
<1>2. \A q \in Query : \A n \in 1..Len(history) : AnnouncedBy(q, n) => Announced(q)'
  BY <1>1, AnnouncedKept
<1>. QED  BY <1>1, <1>2, ServerKeeps

LEMMA RelayCommitsCache == ASSUME Basic, CacheInv, RelayCommits PROVE CacheInv'
<1>. USE DEF linkVars, clientVars
<1>1. UNCHANGED <<history, cache, ring, missed, hadError, queue, published, cursor, acks>>
  BY DEF RelayCommits
<1>2. \A q \in Query : \A n \in 1..Len(history) : AnnouncedBy(q, n) => Announced(q)'
  BY <1>1, AnnouncedKept
<1>. QED  BY <1>1, <1>2, ServerKeeps

LEMMA RelayFailsCache == ASSUME Basic, CacheInv, RelayFails PROVE CacheInv'
<1>. USE DEF linkVars, clientVars
<1>1. UNCHANGED <<history, cache, ring, missed, hadError, queue, cursor, acks>>
  BY DEF RelayFails
<1>2. published' = marked /\ marked <= published /\ marked \in Nat /\ published \in Nat
  BY FeedAssumption DEF RelayFails, Basic, Located, TypeOK
<1>3. \A n \in 1..Len(history) : published < n => published' < n
  BY <1>2, RowsAreWrites
<1>4. \A q \in Query : \A n \in 1..Len(history) : AnnouncedBy(q, n) => Announced(q)'
  BY <1>1, <1>3, AnnouncedKept
<1>. QED  BY <1>1, <1>4, ServerKeeps

\* Of a query that a lost response alone would have invalidated, the loss is recorded,
\* or what the tab has of it was read after the command.
LEMMA UnrefreshedOrFine ==
  ASSUME Basic, Coherent, NEW lost \in SUBSET acks, Unanswered(lost),
         UNCHANGED <<history, cache>>, NEW n \in lost, NEW q \in Query,
         q \in Refreshes(history[n]) \ Announces(history[n]), Truth(q) <= n
  PROVE  Fine(q)'
<1>1. cache[q] \in Entry /\ cache'[q] = cache[q] /\ Truth(q)' = Truth(q)
  BY Cached, TruthKept
<1>2. Truth(q) \in Nat /\ n \in Nat /\ cache[q].data \in Nat /\ cache[q].reply \in Nat
  BY <1>1, TruthIsWrite, FeedAssumption DEF Entry, Basic, TypeOK
<1>3. CASE q \in Unrefreshed(n)
  BY <1>3 DEF Unanswered, Fine
<1>4. CASE q \notin Unrefreshed(n) /\ cache[q].fetch = "read"
  <2>1. cache[q].reply = Truth(q)
    BY <1>2, <1>4 DEF Unrefreshed, Coherent
  <2>2. cache[q].known => cache[q].stale
    BY <1>4 DEF Coherent
  <2>. QED  BY <1>1, <2>1, <2>2 DEF Fine, Settled
<1>5. CASE q \notin Unrefreshed(n) /\ cache[q].fetch # "read"
  <2>1. ASSUME cache[q].known, ~cache[q].stale
        PROVE  cache[q].data = Truth(q)
    <3>1. cache[q].fetch = "idle"
      BY <2>1 DEF Coherent
    <3>. QED  BY <1>2, <1>5, <2>1, <3>1 DEF Unrefreshed, Coherent
  <2>. QED  BY <1>1, <1>5, <2>1 DEF Fine, Settled
<1>. QED  BY <1>3, <1>4, <1>5

\* Whoever lost the queue was open and has to reconnect; who was still connecting had
\* no queue.
LEMMA ApiRestartsCache == ASSUME Basic, CacheInv, ApiRestarts PROVE CacheInv'
<1>1. UNCHANGED <<history, cache, ring>>
  BY DEF ApiRestarts
<1>2. published' = marked /\ marked <= published /\ marked \in Nat /\ published \in Nat
  BY FeedAssumption DEF ApiRestarts, Basic, Located, TypeOK
<1>3. cursor' = 0 /\ \A n \in 1..Len(history) : 0 < n /\ (published < n => published' < n)
  BY <1>2, RowsAreWrites DEF ApiRestarts
<1>4. ASSUME ~hadError'
      PROVE  ~hadError /\ queue = <<>>
  BY <1>4 DEF ApiRestarts, Basic, Linked
<1>5. PICK lost \in SUBSET acks : Unanswered(lost)
  BY DEF ApiRestarts
<1>6. acks' = acks \ lost /\ missed \subseteq missed'
  BY <1>5 DEF Unanswered
<1>7. ASSUME ~hadError', NEW q \in Query, NEW n \in 1..Len(history), AnnouncedBy(q, n)
      PROVE  Fine(q)' \/ Announced(q)'
  <2>1. queue = <<>> /\ ToSet(queue) = {}
    BY <1>4, <1>7, HoldsNothing
  <2>2. CASE n \in lost /\ q \in Refreshes(history[n]) \ Announces(history[n])
    BY <1>1, <1>5, <1>7, <2>2, UnrefreshedOrFine DEF CacheInv, AnnouncedBy
  <2>3. CASE n \notin lost
    BY <1>1, <1>3, <1>6, <1>7, <2>1, <2>3, AnnouncedKept
  <2>4. CASE q \notin Refreshes(history[n]) \ Announces(history[n])
    BY <1>1, <1>3, <1>7, <2>1, <2>4, AnnouncedByEvent
  <2>. QED  BY <2>2, <2>3, <2>4
<1>. QED  BY <1>1, <1>4, <1>6, <1>7, ServerKeeps

LEMMA BreaksCache == ASSUME Basic, CacheInv, Breaks PROVE CacheInv'
<1>. USE DEF clientVars, serverVars
<1>1. UNCHANGED <<history, cache, ring, missed>> /\ hadError'
  BY DEF Breaks
<1>. QED  BY <1>1, ServerKeeps

\* A published row is in the queue, or what it announces is missed.
LEMMA RelayRowCache == ASSUME Basic, CacheInv, RelayRow PROVE CacheInv'
<1>. USE DEF clientVars
<1>1. PICK m \in Following(due, 0) : due' = due \ {m} /\ published' = m /\ Publish(m)
  BY DEF RelayRow
<1>2. m \in due /\ \A k \in due : 0 < k => m <= k
  BY <1>1 DEF Following
<1>3. m \in 1..Len(history) /\ due \subseteq 1..Len(history) /\ m \in OutboxRows
  BY <1>2, RowsAreWrites DEF Basic, Located
<1>4. /\ missed \subseteq missed' /\ ToSet(queue) \subseteq ToSet(queue')
      /\ m \in ToSet(queue') \/ Query \cap Announces(history[m]) \subseteq missed'
  BY <1>1, <1>3, PublishIs DEF Basic
<1>5. UNCHANGED <<history, cursor, hadError, ring, cache, acks>>
  BY DEF RelayRow
<1>6. ASSUME NEW q \in Query, NEW n \in 1..Len(history), AnnouncedBy(q, n)
      PROVE  Fine(q)' \/ Announced(q)'
  <2>1. CASE n = m /\ m \notin ToSet(queue')
    <3>1. CASE q \in Announces(history[n])
      BY <1>4, <2>1, <3>1 DEF Fine
    <3>2. CASE q \notin Announces(history[n])
      <4>1. n \in acks /\ q \in Refreshes(history[n]) \ Announces(history[n]) /\ Truth(q) <= n
        BY <1>6, <3>2 DEF AnnouncedBy
      <4>2. Truth(q)' = Truth(q) /\ DOMAIN history = 1..Len(history)
        BY <1>5, TruthKept DEF Basic, TypeOK
      <4>. QED  BY <1>5, <4>1, <4>2 DEF Announced
    <3>. QED  BY <3>1, <3>2
  <2>2. CASE n = m /\ m \in ToSet(queue')
    BY <1>4, <1>5, <1>6, <2>2, AnnouncedKept
  <2>3. CASE n # m
    <3>1. InOutbox(n) /\ published < n => published' < n
      <4>. SUFFICES ASSUME InOutbox(n), published < n, ~(m < n)
                    PROVE  FALSE
        BY <1>1
      <4>1. n <= m /\ n \in OutboxRows /\ 0 < n
        BY <1>3, <2>3 DEF OutboxRows, Basic, TypeOK
      <4>2. n \in due
        BY <1>2, <4>1 DEF Basic, Located
      <4>. QED  BY <1>2, <1>3, <2>3, <4>1, <4>2
    <3>. QED  BY <1>4, <1>5, <1>6, <3>1, AnnouncedKept
  <2>. QED  BY <2>1, <2>2, <2>3
<1>. QED  BY <1>4, <1>5, <1>6, ServerKeeps

LEMMA RelayAgentEventCache == ASSUME Basic, CacheInv, RelayAgentEvent PROVE CacheInv'
<1>. USE DEF clientVars
<1>1. PICK m \in Following(AgentRows, cursor) : cursor' = m /\ Publish(m)
  BY DEF RelayAgentEvent
<1>2. m \in AgentRows /\ \A k \in AgentRows : cursor < k => m <= k
  BY <1>1 DEF Following
<1>3. m \in 1..Len(history)
  BY <1>2, RowsAreWrites
<1>4. /\ missed \subseteq missed' /\ ToSet(queue) \subseteq ToSet(queue')
      /\ m \in ToSet(queue') \/ Query \cap Announces(history[m]) \subseteq missed'
  BY <1>1, <1>3, PublishIs DEF Basic
<1>5. UNCHANGED <<history, published, hadError, ring, cache, acks>>
  BY DEF RelayAgentEvent
<1>6. ASSUME NEW q \in Query, NEW n \in 1..Len(history), AnnouncedBy(q, n)
      PROVE  Fine(q)' \/ Announced(q)'
  <2>1. CASE n = m /\ m \notin ToSet(queue')
    <3>1. CASE q \in Announces(history[n])
      BY <1>4, <2>1, <3>1 DEF Fine
    <3>2. CASE q \notin Announces(history[n])
      <4>1. n \in acks /\ q \in Refreshes(history[n]) \ Announces(history[n]) /\ Truth(q) <= n
        BY <1>6, <3>2 DEF AnnouncedBy
      <4>2. Truth(q)' = Truth(q) /\ DOMAIN history = 1..Len(history)
        BY <1>5, TruthKept DEF Basic, TypeOK
      <4>. QED  BY <1>5, <4>1, <4>2 DEF Announced
    <3>. QED  BY <3>1, <3>2
  <2>2. CASE n = m /\ m \in ToSet(queue')
    BY <1>4, <1>5, <1>6, <2>2, AnnouncedKept
  <2>3. CASE n # m
    <3>1. history[n] = "agent" /\ cursor < n => cursor' < n
      <4>. SUFFICES ASSUME history[n] = "agent", cursor < n
                    PROVE  m < n
        BY <1>1
      <4>1. n \in AgentRows
        BY DEF AgentRows, Basic, TypeOK
      <4>. QED  BY <1>2, <1>3, <2>3, <4>1
    <3>. QED  BY <1>4, <1>5, <1>6, <3>1, AnnouncedKept
  <2>. QED  BY <2>1, <2>2, <2>3
<1>. QED  BY <1>4, <1>5, <1>6, ServerKeeps

\* An invalidation keeps the cache invariant if the announcements that end with it are
\* of queries that it invalidates, and the rows that are heard are heard before or
\* invalidated by it.
LEMMA InvalidateKeeps ==
  ASSUME Basic, CacheInv, NEW Q, Invalidate(Q), missed' = StillMissed(Q),
         history' = history,
         \A n \in ToSet(ring') \ ToSet(ring) : Announces(history[n]) \subseteq Q,
         ~hadError' => \/ Query \subseteq Q
                       \/ /\ ~hadError
                          /\ \A q \in Query : \A n \in 1..Len(history) :
                                AnnouncedBy(q, n) => Fine(q)' \/ Announced(q)'
  PROVE  CacheInv'
<1>1. \A q \in Query : Fine(q) => Fine(q)'
  BY InvalidateFine DEF CacheInv
<1>2. \A q \in Query \cap Q : Fine(q)'
  BY InvalidateSettles DEF CacheInv
<1>3. Coherent'
  BY InvalidateCoherent DEF CacheInv
<1>4. \A q \in Query : Truth(q)' = Truth(q)
  BY TruthKept
<1>5. Heard'
  <2>. SUFFICES ASSUME NEW n \in ToSet(ring'), NEW q \in Query \cap Announces(history[n]),
                       Truth(q) <= n
                PROVE  Fine(q)'
    BY <1>4 DEF Heard
  <2>1. CASE n \in ToSet(ring)
    BY <1>1, <2>1 DEF CacheInv, Heard
  <2>2. CASE n \notin ToSet(ring)
    BY <1>2, <2>2
  <2>. QED  BY <2>1, <2>2
<1>6. Pending'
  <2>. SUFFICES ASSUME ~hadError', NEW q \in Query
                PROVE  Fine(q)' \/ Announced(q)'
    BY DEF Pending
  <2>1. CASE Query \subseteq Q
    BY <1>2, <2>1
  <2>2. CASE ~(Query \subseteq Q)
    <3>1. Fine(q) \/ Announced(q)
      BY <2>2 DEF CacheInv, Pending
    <3>. QED  BY <1>1, <2>2, <3>1, AnnouncedIs
  <2>. QED  BY <2>1, <2>2
<1>. QED  BY <1>3, <1>5, <1>6 DEF CacheInv

\* Whoever reconnects fetches everything again, and a first connection had no queue.
LEMMA OpensCache == ASSUME Basic, CacheInv, Opens PROVE CacheInv'
<1>. USE DEF serverVars
<1>1. UNCHANGED <<history, published, cursor, ring, acks>>
  BY DEF Opens
<1>2. CASE hadError
  <2>1. Invalidate(Query) /\ missed' = StillMissed(Query)
    BY <1>2 DEF Opens
  <2>. QED  BY <1>1, <2>1, InvalidateKeeps
<1>3. CASE ~hadError
  <2>1. cache' = cache /\ missed' = missed /\ queue = <<>>
    BY <1>3 DEF Opens, Basic, Linked
  <2>2. \A q \in Query : \A n \in 1..Len(history) : AnnouncedBy(q, n) => Announced(q)'
    BY <1>1, <2>1, HoldsNothing, AnnouncedKept
  <2>. QED  BY <1>1, <1>3, <2>1, <2>2, ServerKeeps
<1>. QED  BY <1>2, <1>3

\* A row that arrives invalidates what it announces; one that is in the ring has.
LEMMA DeliveredCache == ASSUME Basic, CacheInv, Delivered PROVE CacheInv'
<1>. USE DEF serverVars
<1>. DEFINE m == Head(queue)
<1>1. UNCHANGED <<history, published, cursor, hadError, acks>>
  BY DEF Delivered
<1>2. m \in 1..Len(history) /\ ToSet(queue) = ToSet(queue') \cup {m}
  BY DeliveredIs
<1>3. ASSUME NEW q \in Query, NEW n \in 1..Len(history), AnnouncedBy(q, n),
             n = m /\ q \in Announces(history[m]) => Fine(q)'
      PROVE  Fine(q)' \/ Announced(q)'
  <2>1. CASE n \in ToSet(queue) => n \in ToSet(queue')
    BY <1>1, <1>3, <2>1, AnnouncedKept
  <2>2. CASE n = m /\ q \notin Announces(history[m])
    <3>1. n \in acks /\ q \in Refreshes(history[n]) \ Announces(history[n]) /\ Truth(q) <= n
      BY <1>3, <2>2 DEF AnnouncedBy
    <3>2. Truth(q)' = Truth(q) /\ DOMAIN history = 1..Len(history)
      BY <1>1, TruthKept DEF Basic, TypeOK
    <3>. QED  BY <1>1, <3>1, <3>2 DEF Announced
  <2>. QED  BY <1>2, <1>3, <2>1, <2>2
<1>4. CASE m \in ToSet(ring)
  <2>1. ring' = ring /\ cache' = cache /\ missed' = missed
    BY <1>4 DEF Delivered
  <2>2. ASSUME NEW q \in Query, AnnouncedBy(q, m), q \in Announces(history[m])
        PROVE  Fine(q)'
    <3>1. Fine(q)
      BY <1>4, <2>2 DEF CacheInv, Heard, AnnouncedBy
    <3>. QED  BY <1>1, <2>1, <3>1, FineKept
  <2>. HIDE DEF m
  <2>3. \A q \in Query : \A n \in 1..Len(history) : AnnouncedBy(q, n) => Fine(q)' \/ Announced(q)'
    BY <1>3, <2>2
  <2>. QED  BY <1>1, <2>1, <2>3, ServerKeeps
<1>5. CASE m \notin ToSet(ring)
  <2>1. Invalidate(Announces(history[m])) /\ missed' = StillMissed(Announces(history[m]))
    BY <1>5 DEF Delivered
  <2>2. ToSet(ring') \subseteq ToSet(ring) \cup {m}
    BY DeliveredIs
  <2>. HIDE DEF m
  <2>3. \A q \in Query \cap Announces(history[m]) : Fine(q)'
    BY <1>1, <2>1, InvalidateSettles DEF CacheInv
  <2>4. \A q \in Query : \A n \in 1..Len(history) : AnnouncedBy(q, n) => Fine(q)' \/ Announced(q)'
    BY <1>3, <2>3
  <2>5. \A n \in ToSet(ring') \ ToSet(ring) : Announces(history[n]) \subseteq Announces(history[m])
    BY <2>2
  <2>. QED  BY <1>1, <2>1, <2>4, <2>5, InvalidateKeeps
<1>. QED  BY <1>4, <1>5

LEMMA ResyncCache == ASSUME Basic, CacheInv, Resync PROVE CacheInv'
  BY InvalidateKeeps DEF Resync, serverVars

\* The response invalidates what its command refreshes.
LEMMA AcknowledgedCache == ASSUME Basic, CacheInv, NEW m \in acks, Acknowledged(m) PROVE CacheInv'
<1>. USE DEF serverVars, linkVars
<1>. DEFINE Q == Refreshes(history[m])
<1>1. /\ UNCHANGED <<history, published, cursor, hadError, queue, ring>> /\ acks' = acks \ {m}
      /\ Invalidate(Q) /\ missed' = StillMissed(Q)
  BY DEF Acknowledged
<1>. HIDE DEF Q
<1>2. \A q \in Query \cap Q : Fine(q)'
  BY <1>1, InvalidateSettles DEF CacheInv
<1>3. ASSUME NEW q \in Query, NEW n \in 1..Len(history), AnnouncedBy(q, n)
      PROVE  Fine(q)' \/ Announced(q)'
  <2>1. CASE n # m
    BY <1>1, <1>3, <2>1, AnnouncedKept
  <2>2. CASE n = m /\ q \in Q
    BY <1>2, <2>2
  <2>3. CASE n = m /\ q \notin Q
    <3>1. /\ Truth(q) <= n
          /\ \/ q \in Announces(history[n]) /\ n \in ToSet(queue)
             \/ q \in Announces(history[n]) /\ InOutbox(n) /\ published < n
             \/ q \in Announces(history[n]) /\ history[n] = "agent" /\ cursor < n
      BY <1>3, <2>3 DEF AnnouncedBy, Q
    <3>2. Truth(q)' = Truth(q) /\ DOMAIN history = 1..Len(history)
      BY <1>1, TruthKept DEF Basic, TypeOK
    <3>. QED  BY <1>1, <3>1, <3>2 DEF Announced, InOutbox
  <2>. QED  BY <2>1, <2>2, <2>3
<1>4. ToSet(ring') \ ToSet(ring) = {}
  BY <1>1
<1>. QED  BY <1>1, <1>3, <1>4, InvalidateKeeps DEF CacheInv, Pending

\* The loss of a response is recorded, unless an event or a later fetch makes up for it.
LEMMA ResponseLostCache == ASSUME Basic, CacheInv, NEW m \in acks, ResponseLost(m) PROVE CacheInv'
<1>. USE DEF serverVars, linkVars
<1>1. /\ UNCHANGED <<history, published, cursor, hadError, queue, ring, cache>>
      /\ Unanswered({m}) /\ acks' = acks \ {m} /\ missed \subseteq missed'
  BY DEF ResponseLost, Unanswered
<1>2. ASSUME NEW q \in Query, NEW n \in 1..Len(history), AnnouncedBy(q, n)
      PROVE  Fine(q)' \/ Announced(q)'
  <2>1. CASE n # m
    BY <1>1, <1>2, <2>1, AnnouncedKept
  <2>2. CASE n = m /\ q \in Refreshes(history[n]) \ Announces(history[n])
    BY <1>1, <1>2, <2>2, UnrefreshedOrFine DEF CacheInv, AnnouncedBy
  <2>3. CASE q \notin Refreshes(history[n]) \ Announces(history[n])
    BY <1>1, <1>2, <2>3, AnnouncedByEvent
  <2>. QED  BY <2>1, <2>2, <2>3
<1>. QED  BY <1>1, <1>2, ServerKeeps

\* Pages and fetches: a query's entry changes, and stays or becomes settled.
LEMMA EntriesKeep ==
  ASSUME Basic, CacheInv, UNCHANGED <<history, published, cursor, hadError, queue, ring, acks>>,
         \A q \in Query : /\ cache'[q].known /\ cache'[q].fetch # "idle" => cache'[q].stale
                          /\ cache'[q].fetch = "read" => cache'[q].reply <= Truth(q)
                          /\ cache'[q].known => cache'[q].data <= Truth(q)
                          /\ Fine(q) => Fine(q)'
  PROVE  CacheInv'
<1>1. \A q \in Query : Truth(q)' = Truth(q)
  BY TruthKept
<1>2. Coherent'
  BY <1>1 DEF Coherent
<1>3. Heard'
  BY <1>1 DEF CacheInv, Heard
<1>4. \A q \in Query : \A n \in 1..Len(history) : AnnouncedBy(q, n) => Announced(q)'
  BY AnnouncedKept
<1>5. Pending'
  BY <1>4, AnnouncedIs DEF CacheInv, Pending
<1>. QED  BY <1>2, <1>3, <1>5 DEF CacheInv

LEMMA NavigateCache == ASSUME Basic, CacheInv, NEW p, Navigate(p) PROVE CacheInv'
<1>. USE DEF linkVars, serverVars
<1>1. UNCHANGED <<history, published, cursor, hadError, queue, ring, acks, missed>>
  BY DEF Navigate
<1>2. ASSUME NEW q \in Query
      PROVE  /\ cache'[q].known /\ cache'[q].fetch # "idle" => cache'[q].stale
             /\ cache'[q].fetch = "read" => cache'[q].reply <= Truth(q)
             /\ cache'[q].known => cache'[q].data <= Truth(q)
             /\ Fine(q) => Fine(q)'
  <2>1. cache[q] \in Entry /\ (cache'[q] = cache[q] \/ cache'[q] = Mounted(cache[q]))
    BY Cached DEF Navigate
  <2>2. Truth(q)' = Truth(q)
    BY <1>1, TruthKept
  <2>3. CASE cache'[q] = cache[q]
    BY <1>1, <2>3, FineKept DEF CacheInv, Coherent
  <2>4. CASE cache'[q] # cache[q]
    <3>1. /\ cache'[q].fetch = "asked" /\ (~cache[q].known \/ cache[q].stale)
          /\ cache'[q].known = cache[q].known /\ cache'[q].stale = cache[q].stale
          /\ cache'[q].data = cache[q].data
      BY <2>1, <2>4 DEF Mounted, Entry
    <3>2. cache[q].known => cache[q].data <= Truth(q)
      BY DEF CacheInv, Coherent
    <3>3. Fine(q) => Fine(q)'
      BY <1>1, <2>2, <3>1 DEF Fine, Settled
    <3>. QED  BY <2>2, <3>1, <3>2, <3>3
  <2>. QED  BY <2>3, <2>4
<1>. QED  BY <1>1, <1>2, EntriesKeep

\* What the server reads is the truth; nothing is missed any more.
LEMMA FetchReadsCache == ASSUME Basic, CacheInv, NEW r \in Query, FetchReads(r) PROVE CacheInv'
<1>. USE DEF linkVars, serverVars
<1>1. UNCHANGED <<history, published, cursor, hadError, queue, ring, acks>>
  BY DEF FetchReads
<1>2. \A q \in Query : Truth(q)' = Truth(q) /\ Truth(q) \in 0..MaxWrites
  BY <1>1, TruthKept, TruthIsWrite
<1>3. /\ cache[r].known => cache[r].stale
      /\ cache[r] \in Entry /\ cache[r].fetch = "asked"
  BY Cached DEF CacheInv, Coherent, FetchReads
<1>4. /\ cache'[r].fetch = "read" /\ cache'[r].reply = Truth(r)
      /\ cache'[r].known = cache[r].known /\ cache'[r].stale = cache[r].stale
      /\ cache'[r].data = cache[r].data
  BY <1>3, Cached DEF FetchReads, Entry
<1>5. Fine(r)'
  BY <1>2, <1>3, <1>4 DEF Fine, Settled
<1>6. ASSUME NEW q \in Query, q # r
      PROVE  /\ cache'[q].known /\ cache'[q].fetch # "idle" => cache'[q].stale
             /\ cache'[q].fetch = "read" => cache'[q].reply <= Truth(q)
             /\ cache'[q].known => cache'[q].data <= Truth(q)
             /\ Fine(q) => Fine(q)'
  <2>1. cache'[q] = cache[q] /\ (q \in missed => q \in missed')
    BY <1>6, Cached DEF FetchReads
  <2>2. Settled(q)' = Settled(q)
    BY <1>1, <2>1, SettledKept
  <2>. QED  BY <2>1, <2>2 DEF CacheInv, Coherent, Fine
<1>7. Truth(r) <= Truth(r)
  BY <1>2, FeedAssumption
<1>8. \A q \in Query : /\ cache'[q].known /\ cache'[q].fetch # "idle" => cache'[q].stale
                       /\ cache'[q].fetch = "read" => cache'[q].reply <= Truth(q)
                       /\ cache'[q].known => cache'[q].data <= Truth(q)
                       /\ Fine(q) => Fine(q)'
  BY <1>3, <1>4, <1>5, <1>6, <1>7 DEF CacheInv, Coherent
<1>. QED  BY <1>1, <1>8, EntriesKeep

LEMMA FetchLandsCache == ASSUME Basic, CacheInv, NEW r \in Query, FetchLands(r) PROVE CacheInv'
<1>. USE DEF linkVars, serverVars
<1>1. UNCHANGED <<history, published, cursor, hadError, queue, ring, acks, missed>>
  BY DEF FetchLands
<1>2. /\ cache[r].fetch = "read" /\ cache'[r].fetch = "idle" /\ cache'[r].data = cache[r].reply
  BY Cached DEF FetchLands
<1>3. Fine(r) => Fine(r)'
  BY <1>1, <1>2, TruthKept DEF Fine, Settled
<1>4. ASSUME NEW q \in Query, q # r
      PROVE  cache'[q] = cache[q] /\ (Fine(q) => Fine(q)')
  BY <1>1, <1>4, Cached, FineKept DEF FetchLands
<1>5. \A q \in Query : /\ cache'[q].known /\ cache'[q].fetch # "idle" => cache'[q].stale
                       /\ cache'[q].fetch = "read" => cache'[q].reply <= Truth(q)
                       /\ cache'[q].known => cache'[q].data <= Truth(q)
                       /\ Fine(q) => Fine(q)'
  BY <1>2, <1>3, <1>4 DEF CacheInv, Coherent
<1>. QED  BY <1>1, <1>5, EntriesKeep

LEMMA FetchFailsCache == ASSUME Basic, CacheInv, NEW r \in Query, FetchFails(r) PROVE CacheInv'
<1>. USE DEF linkVars, serverVars
<1>1. UNCHANGED <<history, published, cursor, hadError, queue, ring, acks, missed>>
  BY DEF FetchFails
<1>2. /\ cache'[r].fetch = "idle" /\ cache'[r].stale
      /\ cache'[r].known = cache[r].known /\ cache'[r].data = cache[r].data
  BY Cached DEF FetchFails, Entry
<1>3. Fine(r)'
  BY <1>2 DEF Fine, Settled
<1>4. ASSUME NEW q \in Query, q # r
      PROVE  cache'[q] = cache[q] /\ (Fine(q) => Fine(q)')
  BY <1>1, <1>4, Cached, FineKept DEF FetchFails
<1>5. \A q \in Query : /\ cache'[q].known /\ cache'[q].fetch # "idle" => cache'[q].stale
                       /\ cache'[q].fetch = "read" => cache'[q].reply <= Truth(q)
                       /\ cache'[q].known => cache'[q].data <= Truth(q)
                       /\ Fine(q) => Fine(q)'
  BY <1>2, <1>3, <1>4 DEF CacheInv, Coherent
<1>. QED  BY <1>1, <1>5, EntriesKeep

\* A commit is the truth of what it touches, and leaves the rest.
LEMMA TruthCommitted ==
  ASSUME Basic, NEW kind \in Kind, history' = Append(history, kind), NEW q
  PROVE  Truth(q)' = IF q \in Touches(kind) THEN Len(history) + 1 ELSE Truth(q)
<1>1. Truth(q)' = LastIn(history', q)
  BY DEF Truth, LastIn, SelectLastInSeq, Max
<1>2. LastIn(Append(history, kind), q)
        = IF q \in Touches(kind) THEN Len(history) + 1 ELSE LastIn(history, q)
  BY LastInAppend DEF Basic, TypeOK
<1>. QED  BY <1>1, <1>2, TruthIsLast

\* A commit is announced by its row, by the response to its command, or by nobody.
LEMMA CommitCache ==
  ASSUME Basic, CacheInv, NEW kind \in Kind, history' = Append(history, kind),
         acks \subseteq acks', missed \subseteq missed',
         \A q \in (Query \cap Touches(kind)) \ Announces(kind) :
             q \in missed' \/ (q \in Refreshes(kind) /\ Len(history) + 1 \in acks'),
         UNCHANGED <<published, cursor, hadError, queue, ring, cache>>
  PROVE  CacheInv'
<1>. DEFINE last == Len(history) + 1
<1>1. /\ DOMAIN history' = 1..last /\ history'[last] = kind /\ Len(history) \in Nat
      /\ \A i \in 1..Len(history) : history'[i] = history[i]
  BY AppendProperties DEF Basic, TypeOK
<1>2. \A q \in Query : /\ Truth(q)' = IF q \in Touches(kind) THEN last ELSE Truth(q)
                       /\ Truth(q) \in 0..Len(history)
  BY TruthCommitted, TruthIsWrite
<1>. HIDE DEF last
<1>3. /\ ToSet(ring) \subseteq 1..Len(history) /\ ToSet(queue) \subseteq 1..Len(history)
      /\ published < last /\ cursor < last
  BY <1>1 DEF Basic, Located, TypeOK, last
<1>4. ASSUME NEW q \in Query, q \in Touches(kind)
      PROVE  Fine(q)' \/ Announced(q)'
  <2>1. Truth(q)' = last /\ last \in 1..last /\ last <= last
    BY <1>1, <1>2, <1>4 DEF last
  <2>2. CASE q \in Announces(kind)
    <3>1. kind \notin {"operation", "edit", "cancel"}
      BY <2>2 DEF Announces, Kind
    <3>. QED  BY <1>1, <1>3, <2>1, <2>2, <3>1 DEF Announced, InOutbox
  <2>3. CASE q \notin Announces(kind)
    <3>1. q \in missed' \/ (q \in Refreshes(kind) /\ last \in acks')
      BY <1>4, <2>3 DEF last
    <3>. QED  BY <1>1, <2>1, <2>3, <3>1 DEF Announced, Fine
  <2>. QED  BY <2>2, <2>3
<1>5. ASSUME NEW q \in Query, q \notin Touches(kind), Fine(q)
      PROVE  Fine(q)'
  BY <1>2, <1>5 DEF Fine, Settled
<1>6. ASSUME NEW q \in Query, q \notin Touches(kind), Announced(q)
      PROVE  Announced(q)'
  <2>1. PICK n \in 1..Len(history) : AnnouncedBy(q, n)
    BY <1>6, AnnouncedIs
  <2>2. history'[n] = history[n] /\ n \in 1..last /\ Truth(q)' = Truth(q)
    BY <1>1, <1>2, <1>6 DEF last
  <2>. QED  BY <1>1, <2>1, <2>2 DEF Announced, AnnouncedBy, InOutbox
<1>7. Pending'
  BY <1>4, <1>5, <1>6 DEF CacheInv, Pending
<1>8. Coherent'
  <2>1. \A q \in Query : /\ cache[q].reply <= Truth(q) => cache[q].reply <= Truth(q)'
                         /\ cache[q].data <= Truth(q) => cache[q].data <= Truth(q)'
    <3>1. \A q \in Query : cache[q].reply \in Nat /\ cache[q].data \in Nat
      BY Cached, FeedAssumption DEF Entry
    <3>. QED  BY <1>1, <1>2, <3>1 DEF last
  <2>. QED  BY <2>1 DEF CacheInv, Coherent
<1>9. Heard'
  <2>. SUFFICES ASSUME NEW n \in ToSet(ring), NEW q \in Query \cap Announces(history'[n]),
                       Truth(q)' <= n
                PROVE  Fine(q)'
    BY DEF Heard
  <2>1. n \in 1..Len(history) /\ history'[n] = history[n] /\ ~(last <= n)
    BY <1>1, <1>3 DEF last
  <2>2. q \notin Touches(kind) /\ Truth(q) <= n
    BY <1>2, <2>1
  <2>. QED  BY <1>5, <2>1, <2>2 DEF CacheInv, Heard
<1>. QED  BY <1>7, <1>8, <1>9 DEF CacheInv

LEMMA WriteCache == ASSUME Basic, CacheInv, NEW kind \in Others, Write(kind) PROVE CacheInv'
<1>1. kind \in Kind
  BY FeedAssumption DEF Kind
<1>2. /\ history' = Append(history, kind) /\ acks' = acks
      /\ missed' = missed \cup (Query \cap (Touches(kind) \ Announces(kind)))
      /\ UNCHANGED <<published, cursor, hadError, queue, ring, cache>>
  BY DEF Write, linkVars, clientVars
<1>3. \A q \in (Query \cap Touches(kind)) \ Announces(kind) :
         q \in missed' \/ (q \in Refreshes(kind) /\ Len(history) + 1 \in acks')
  <2>1. \A q \in (Query \cap Touches(kind)) \ Announces(kind) : q \in missed'
    BY <1>2
  <2>. QED  BY <2>1
<1>4. acks \subseteq acks' /\ missed \subseteq missed'
  BY <1>2
<1>. QED  BY <1>1, <1>2, <1>3, <1>4, CommitCache

LEMMA CommandCache == ASSUME Basic, CacheInv, NEW kind \in Own, Command(kind) PROVE CacheInv'
<1>1. kind \in Kind
  BY FeedAssumption DEF Kind
<1>2. /\ history' = Append(history, kind) /\ acks = {} /\ acks' = {Len(history) + 1}
      /\ missed' = missed \cup (Query \cap (Touches(kind) \ (Announces(kind) \cup Refreshes(kind))))
      /\ UNCHANGED <<published, cursor, hadError, queue, ring, cache>>
  BY DEF Command, linkVars
<1>3. \A q \in (Query \cap Touches(kind)) \ Announces(kind) :
         q \in missed' \/ (q \in Refreshes(kind) /\ Len(history) + 1 \in acks')
  BY <1>2
<1>. QED  BY <1>1, <1>2, <1>3, CommitCache

LEMMA InitCache == Init => CacheInv
<1>. SUFFICES ASSUME Init
              PROVE  CacheInv
  OBVIOUS
<1>1. \A q \in Query : ~cache[q].known /\ cache[q].fetch # "read"
  BY DEF Init, Empty, Mounted
<1>2. ToSet(ring) = {}
  BY HoldsNothing DEF Init
<1>. QED  BY <1>1, <1>2 DEF CacheInv, Coherent, Pending, Heard, Fine, Settled

LEMMA CacheKept == Basic /\ CacheInv /\ [Next]_vars => CacheInv'
<1>. SUFFICES ASSUME Basic, CacheInv, [Next]_vars
              PROVE  CacheInv'
  OBVIOUS
<1>1. CASE UNCHANGED vars
  <2>1. UNCHANGED <<history, published, cursor, hadError, queue, ring, acks, cache, missed>>
    BY <1>1 DEF vars
  <2>. QED  BY <2>1, FineKept, EntriesKeep DEF CacheInv, Coherent
<1>2. CASE Next
  BY <1>2, RelayStartsCache, RelayRowCache, RelayCommitsCache, RelayAgentEventCache,
     RelayFailsCache, ApiRestartsCache, OpensCache, BreaksCache, DeliveredCache,
     NavigateCache, FetchReadsCache, FetchLandsCache, FetchFailsCache, ResyncCache,
     AcknowledgedCache, ResponseLostCache, WriteCache, CommandCache DEF Next
<1>. QED  BY <1>1, <1>2

\* The types, and the limits of the queue and of the ring.
THEOREM FeedTypeOK == Spec => []TypeOK
<1>1. Basic => TypeOK
  BY DEF Basic
<1>. QED  BY <1>1, InitBasic, BasicKept, PTL DEF Spec

\* What is on screen is the truth, or stale, or about to be replaced, or of the changes
\* recorded as missed: whatever fails between the outbox and the screen, or between a
\* command's commit and its response, for any number of writes and faults.
THEOREM FeedNoLostInvalidation == Spec => []NoLostInvalidation
<1>1. Basic /\ CacheInv => NoLostInvalidation
  BY DEF Basic, Linked, CacheInv, Pending, Fine, Settled, NoLostInvalidation
<1>2. Init => Basic /\ CacheInv
  BY InitBasic, InitCache
<1>3. Basic /\ CacheInv /\ [Next]_vars => (Basic /\ CacheInv)'
  BY BasicKept, CacheKept
<1>. QED  BY <1>1, <1>2, <1>3, PTL DEF Spec

-----------------------------------------------------------------------------
(* What is listed *)

RowsOf(h) == {n \in 1..Len(h) : h[n] \notin {"operation", "edit", "cancel", "agent"}}

\* The rows of a history that a pass reads which starts behind a marked row.
Window(h, m) ==
    {n \in RowsOf(h) : m < n /\ Cardinality({k \in RowsOf(h) : m < k /\ k < n}) < Batch}

\* What the tab has let through, and what it will be sent, in the order of arrival.
Stream == buffer \o queue

\* Between two arrivals of a plan event lie plan events only, and of few rows: an event
\* is repeated by the pass that repeats its batch.
RepeatsIn(h, s) ==
    \A i, j \in 1..Len(s) :
        i < j /\ s[i] = s[j] /\ s[i] \in RowsOf(h) =>
            /\ \A k \in i..j : s[k] \in RowsOf(h)
            /\ Cardinality({s[k] : k \in i..j}) <= Batch

\* Behind a row that may be published again lie rows of the same batch.
RecentIn(h, m, s) ==
    \A i \in 1..Len(s) :
        s[i] \in RowsOf(h) /\ m < s[i] => \A k \in i..Len(s) : s[k] \in Window(h, m)

\* A pass publishes a batch behind the marked row, in order, and reaches the agent events
\* when every row that it sent is marked.
Paced ==
    /\ pass = "outbox" =>
           /\ due \subseteq Window(history, marked)
           /\ \A n \in ToSet(Stream) \cap RowsOf(history) : n <= published \/ n \in due
    /\ pass = "agents" => \A n \in ToSet(Stream) \cap RowsOf(history) : n <= marked

\* The ring holds the last rows of the list.
RingIsTail ==
    /\ Len(ring) = IF Len(buffer) < RingSize THEN Len(buffer) ELSE RingSize
    /\ \A i \in 1..Len(ring) : ring[i] = buffer[Len(buffer) - Len(ring) + i]

Ordered == RepeatsIn(history, Stream) /\ RecentIn(history, marked, Stream)

ListInv == Ordered /\ Paced /\ RingIsTail /\ ListedOnce

\* A pass reads no more rows than a batch.
LEMMA WindowSmall ==
  ASSUME NEW h \in Seq(Kind), NEW m \in Nat
  PROVE  /\ IsFiniteSet(Window(h, m)) /\ Cardinality(Window(h, m)) <= Batch
         /\ Window(h, m) \subseteq RowsOf(h)
<1>1. Len(h) \in Nat /\ Window(h, m) \subseteq RowsOf(h) /\ RowsOf(h) \subseteq 1..Len(h)
  BY DEF Window, RowsOf
<1>2. IsFiniteSet(RowsOf(h)) /\ IsFiniteSet(Window(h, m))
  <2>1. IsFiniteSet(1..Len(h))
    BY <1>1, FS_Interval
  <2>2. IsFiniteSet(RowsOf(h))
    BY <1>1, <2>1, FS_Subset
  <2>. QED  BY <1>1, <2>2, FS_Subset
<1>3. CASE Window(h, m) = {}
  <2>1. Cardinality(Window(h, m)) = 0
    BY <1>3, FS_EmptySet
  <2>. QED  BY <1>1, <1>2, <2>1, FeedAssumption
<1>4. CASE Window(h, m) # {}
  <2>1. Window(h, m) \in SUBSET (0..Len(h))
    BY <1>1
  <2>2. PICK last \in Window(h, m) : \A n \in Window(h, m) : n <= last
    BY <1>1, <1>4, <2>1, LargestNumber
  <2>. DEFINE Before == {k \in RowsOf(h) : m < k /\ k < last}
  <2>3. Cardinality(Before) < Batch
    BY DEF Window
  <2>4. \A n \in Window(h, m) : m < n
    BY DEF Window
  <2>5. Window(h, m) \ {last} \subseteq Before
    BY <1>1, <2>1, <2>2, <2>4
  <2>6. IsFiniteSet(Before)
    BY <1>2, FS_Subset
  <2>. HIDE DEF Before
  <2>7. Cardinality(Window(h, m) \ {last}) <= Cardinality(Before) /\ Cardinality(Before) \in Nat
    BY <2>5, <2>6, FS_Subset, FS_CardinalityType
  <2>8. Cardinality(Window(h, m) \ {last}) = Cardinality(Window(h, m)) - 1
    BY <1>2, <2>2, FS_RemoveElement
  <2>9. Cardinality(Window(h, m)) \in Nat
    BY <1>2, FS_CardinalityType
  <2>. QED  BY <1>1, <1>2, <2>3, <2>7, <2>8, <2>9, FeedAssumption
<1>. QED  BY <1>3, <1>4

\* A commit adds a row behind all others.
LEMMA RowsAppended ==
  ASSUME NEW h \in Seq(Kind), NEW kind \in Kind
  PROVE  /\ \A n \in 1..Len(h) : n \in RowsOf(Append(h, kind)) <=> n \in RowsOf(h)
         /\ RowsOf(h) \subseteq RowsOf(Append(h, kind))
         /\ RowsOf(Append(h, kind)) \subseteq RowsOf(h) \cup {Len(h) + 1}
<1>1. /\ Len(Append(h, kind)) = Len(h) + 1 /\ Len(h) \in Nat
      /\ \A n \in 1..Len(h) : Append(h, kind)[n] = h[n]
  BY AppendProperties
<1>. QED  BY <1>1 DEF RowsOf

\* No row leaves the window through a commit.
LEMMA WindowAppended ==
  ASSUME NEW h \in Seq(Kind), NEW kind \in Kind, NEW m \in Nat
  PROVE  Window(h, m) \subseteq Window(Append(h, kind), m)
<1>. DEFINE g == Append(h, kind)
<1>. SUFFICES ASSUME NEW n \in Window(h, m)
              PROVE  n \in Window(g, m)
  OBVIOUS
<1>1. n \in RowsOf(h) /\ n \in 1..Len(h) /\ Len(h) \in Nat
  BY DEF Window, RowsOf
<1>2. n \in RowsOf(g) /\ RowsOf(h) \subseteq RowsOf(g) /\ RowsOf(g) \subseteq RowsOf(h) \cup {Len(h) + 1}
  BY <1>1, RowsAppended
<1>. HIDE DEF g
<1>3. {k \in RowsOf(g) : m < k /\ k < n} = {k \in RowsOf(h) : m < k /\ k < n}
  <2>1. ~(Len(h) + 1 < n)
    BY <1>1
  <2>. QED  BY <1>2, <2>1
<1>. QED  BY <1>2, <1>3 DEF Window

\* A part of a sequence that keeps its order.
Thins(t, s) ==
    \E f \in [1..Len(t) -> 1..Len(s)] :
        /\ \A i, j \in 1..Len(t) : i < j => f[i] < f[j]
        /\ \A i \in 1..Len(t) : t[i] = s[f[i]]

\* A stretch of a sequence holds finitely many values.
LEMMA FewValues ==
  ASSUME NEW s, NEW a \in Int, NEW b \in Int
  PROVE  IsFiniteSet({s[k] : k \in a..b})
<1>. DEFINE T == {s[k] : k \in a..b}
            f == [k \in a..b |-> s[k]]
<1>1. IsFiniteSet(a..b)
  BY FS_Interval
<1>2. f \in Surjection(a..b, T)
  BY DEF Surjection
<1>. HIDE DEF f, T
<1>3. IsFiniteSet(T)
  BY <1>1, <1>2, FS_Surjection
<1>. QED  BY <1>3 DEF T

\* What is said of repetitions and of the window holds of every part.
LEMMA ThinRepeats ==
  ASSUME NEW h, NEW S, NEW s \in Seq(S), NEW t \in Seq(S), Thins(t, s), RepeatsIn(h, s)
  PROVE  RepeatsIn(h, t)
<1>1. PICK f \in [1..Len(t) -> 1..Len(s)] :
          /\ \A i, j \in 1..Len(t) : i < j => f[i] < f[j]
          /\ \A i \in 1..Len(t) : t[i] = s[f[i]]
  BY DEF Thins
<1>. SUFFICES ASSUME NEW i \in 1..Len(t), NEW j \in 1..Len(t),
                     i < j, t[i] = t[j], t[i] \in RowsOf(h)
              PROVE  /\ \A k \in i..j : t[k] \in RowsOf(h)
                     /\ Cardinality({t[k] : k \in i..j}) <= Batch
  BY DEF RepeatsIn
<1>. DEFINE All == {s[k] : k \in f[i]..f[j]}
<1>2. Len(s) \in Nat /\ Len(t) \in Nat /\ \A k \in 1..Len(t) : f[k] \in Nat
  OBVIOUS
<1>3. \A k \in i..j : f[k] \in f[i]..f[j] /\ t[k] = s[f[k]]
  <2>. SUFFICES ASSUME NEW k \in i..j
                PROVE  f[k] \in f[i]..f[j] /\ t[k] = s[f[k]]
    OBVIOUS
  <2>1. k \in 1..Len(t)
    BY <1>2
  <2>2. f[i] <= f[k] /\ f[k] <= f[j]
    BY <1>1, <1>2, <2>1
  <2>. QED  BY <1>1, <1>2, <2>1, <2>2
<1>4. /\ \A k \in f[i]..f[j] : s[k] \in RowsOf(h)
      /\ Cardinality(All) <= Batch
  <2>1. f[i] < f[j] /\ s[f[i]] = s[f[j]] /\ s[f[i]] \in RowsOf(h)
    BY <1>1
  <2>. QED  BY <1>1, <2>1 DEF RepeatsIn
<1>5. {t[k] : k \in i..j} \subseteq All
  BY <1>3
<1>6. IsFiniteSet(All)
  <2>1. f[i] \in Int /\ f[j] \in Int
    BY <1>2
  <2>. QED  BY <2>1, FewValues
<1>. HIDE DEF All
<1>7. /\ Cardinality({t[k] : k \in i..j}) <= Cardinality(All)
      /\ Cardinality(All) \in Nat /\ Cardinality({t[k] : k \in i..j}) \in Nat
  BY <1>5, <1>6, FS_Subset, FS_CardinalityType
<1>. QED  BY <1>3, <1>4, <1>7, FeedAssumption

LEMMA ThinRecent ==
  ASSUME NEW h, NEW m, NEW S, NEW s \in Seq(S), NEW t \in Seq(S), Thins(t, s), RecentIn(h, m, s)
  PROVE  RecentIn(h, m, t)
<1>1. PICK f \in [1..Len(t) -> 1..Len(s)] :
          /\ \A i, j \in 1..Len(t) : i < j => f[i] < f[j]
          /\ \A i \in 1..Len(t) : t[i] = s[f[i]]
  BY DEF Thins
<1>. SUFFICES ASSUME NEW i \in 1..Len(t), t[i] \in RowsOf(h), m < t[i], NEW k \in i..Len(t)
              PROVE  t[k] \in Window(h, m)
  BY DEF RecentIn
<1>2. k \in 1..Len(t) /\ Len(s) \in Nat
  OBVIOUS
<1>3. f[k] \in f[i]..Len(s)
  <2>1. f[k] \in 1..Len(s) /\ f[i] \in 1..Len(s)
    BY ONLY <1>2, i \in 1..Len(t), f \in [1..Len(t) -> 1..Len(s)]
  <2>2. k = i \/ i < k
    OBVIOUS
  <2>3. i < k => f[i] < f[k]
    BY <1>1, <1>2
  <2>. QED  BY ONLY <1>2, <2>1, <2>2, <2>3
<1>4. f[i] \in 1..Len(s) /\ t[i] = s[f[i]] /\ t[k] = s[f[k]]
  BY <1>1, <1>2
<1>5. s[f[i]] \in RowsOf(h) /\ m < s[f[i]]
  BY <1>4
<1>6. \A n \in f[i]..Len(s) : s[n] \in Window(h, m)
  BY ONLY <1>4, <1>5, RecentIn(h, m, s) DEF RecentIn
<1>. QED  BY <1>3, <1>4, <1>6


\* A sequence grows by a row of the window, or by one that is not of a plan event.
LEMMA GrowRepeats ==
  ASSUME NEW h \in Seq(Kind), NEW m \in Nat, NEW S, NEW s \in Seq(S), NEW n \in S,
         RepeatsIn(h, s), RecentIn(h, m, s), n \in Window(h, m) \/ n \notin RowsOf(h)
  PROVE  RepeatsIn(h, Append(s, n))
<1>. DEFINE t == Append(s, n)
<1>1. /\ Len(t) = Len(s) + 1 /\ Len(s) \in Nat /\ t[Len(s) + 1] = n
      /\ \A i \in 1..Len(s) : t[i] = s[i]
  BY AppendProperties
<1>. HIDE DEF t
<1>. SUFFICES ASSUME NEW i \in 1..Len(t), NEW j \in 1..Len(t),
                     i < j, t[i] = t[j], t[i] \in RowsOf(h)
              PROVE  /\ \A k \in i..j : t[k] \in RowsOf(h)
                     /\ Cardinality({t[k] : k \in i..j}) <= Batch
  BY DEF RepeatsIn, t
<1>2. i \in 1..Len(s)
  BY <1>1
<1>3. CASE j \in 1..Len(s)
  <2>1. \A k \in i..j : t[k] = s[k]
    BY <1>1, <1>2, <1>3
  <2>2. {t[k] : k \in i..j} = {s[k] : k \in i..j}
    BY <2>1
  <2>. QED  BY <1>1, <1>2, <1>3, <2>1, <2>2 DEF RepeatsIn
<1>4. CASE j = Len(s) + 1
  <2>1. n \in Window(h, m) /\ m < n /\ s[i] = n
    BY <1>1, <1>2, <1>4 DEF Window
  <2>2. \A k \in i..Len(s) : s[k] \in Window(h, m)
    BY <1>1, <1>2, <2>1 DEF RecentIn, Window
  <2>3. \A k \in i..j : t[k] \in Window(h, m)
    <3>. SUFFICES ASSUME NEW k \in i..j
                  PROVE  t[k] \in Window(h, m)
      OBVIOUS
    <3>1. CASE k = Len(s) + 1
      BY <1>1, <2>1, <3>1
    <3>2. CASE k # Len(s) + 1
      <4>1. k \in i..Len(s) /\ k \in 1..Len(s)
        BY <1>1, <1>2, <1>4, <3>2
      <4>. QED  BY <1>1, <2>2, <4>1
    <3>. QED  BY <3>1, <3>2
  <2>4. {t[k] : k \in i..j} \subseteq Window(h, m)
    BY <2>3
  <2>5. /\ IsFiniteSet(Window(h, m)) /\ Cardinality(Window(h, m)) <= Batch
        /\ Window(h, m) \subseteq RowsOf(h)
    BY WindowSmall
  <2>6. /\ Cardinality({t[k] : k \in i..j}) <= Cardinality(Window(h, m))
        /\ IsFiniteSet({t[k] : k \in i..j})
    BY <2>4, <2>5, FS_Subset
  <2>7. Cardinality({t[k] : k \in i..j}) \in Nat /\ Cardinality(Window(h, m)) \in Nat
    BY <2>5, <2>6, FS_CardinalityType
  <2>. QED  BY <2>3, <2>5, <2>6, <2>7, FeedAssumption
<1>. QED  BY <1>1, <1>3, <1>4

LEMMA GrowRecent ==
  ASSUME NEW h \in Seq(Kind), NEW m \in Nat, NEW S, NEW s \in Seq(S), NEW n \in S,
         RecentIn(h, m, s),
         \/ n \in Window(h, m)
         \/ n \notin RowsOf(h) /\ \A i \in 1..Len(s) : s[i] \in RowsOf(h) => ~(m < s[i])
  PROVE  RecentIn(h, m, Append(s, n))
<1>. DEFINE t == Append(s, n)
<1>1. /\ Len(t) = Len(s) + 1 /\ Len(s) \in Nat /\ t[Len(s) + 1] = n
      /\ \A i \in 1..Len(s) : t[i] = s[i]
  BY AppendProperties
<1>. HIDE DEF t
<1>. SUFFICES ASSUME NEW i \in 1..Len(t), t[i] \in RowsOf(h), m < t[i], NEW k \in i..Len(t)
              PROVE  t[k] \in Window(h, m)
  BY DEF RecentIn, t
<1>2. n \in Window(h, m)
  BY <1>1
<1>3. CASE k = Len(s) + 1
  BY <1>1, <1>2, <1>3
<1>4. CASE k # Len(s) + 1
  <2>1. i \in 1..Len(s) /\ k \in i..Len(s) /\ k \in 1..Len(s)
    BY <1>1, <1>4
  <2>. QED  BY <1>1, <2>1 DEF RecentIn
<1>. QED  BY <1>3, <1>4

\* A commit changes nothing for the rows before it.
LEMMA CommitRepeats ==
  ASSUME NEW h \in Seq(Kind), NEW kind \in Kind, NEW s \in Seq(1..Len(h)), RepeatsIn(h, s)
  PROVE  RepeatsIn(Append(h, kind), s)
<1>1. \A i \in 1..Len(s) : s[i] \in 1..Len(h)
  OBVIOUS
<1>2. \A i \in 1..Len(s) : s[i] \in RowsOf(Append(h, kind)) <=> s[i] \in RowsOf(h)
  BY <1>1, RowsAppended
<1>3. RowsOf(h) \subseteq RowsOf(Append(h, kind))
  BY RowsAppended
<1>. QED  BY <1>2, <1>3 DEF RepeatsIn

LEMMA CommitRecent ==
  ASSUME NEW h \in Seq(Kind), NEW kind \in Kind, NEW m \in Nat, NEW s \in Seq(1..Len(h)),
         RecentIn(h, m, s)
  PROVE  RecentIn(Append(h, kind), m, s)
<1>1. \A i \in 1..Len(s) : s[i] \in 1..Len(h)
  OBVIOUS
<1>2. \A i \in 1..Len(s) : s[i] \in RowsOf(Append(h, kind)) <=> s[i] \in RowsOf(h)
  BY <1>1, RowsAppended
<1>3. Window(h, m) \subseteq Window(Append(h, kind), m)
  BY WindowAppended
<1>. QED  BY <1>2, <1>3 DEF RecentIn

LEMMA RowsAreOutbox == ASSUME Basic PROVE /\ OutboxRows = RowsOf(history)
                                          /\ \A n \in 1..Len(history) : InOutbox(n) <=> n \in RowsOf(history)
  BY DEF OutboxRows, RowsOf, InOutbox, Basic, TypeOK

\* The elements of a sequence may be among fewer values.
LEMMA Narrowed == ASSUME NEW S, NEW T, NEW s \in Seq(S), ToSet(s) \subseteq T PROVE s \in Seq(T)
<1>1. \A i \in 1..Len(s) : s[i] \in T
  BY DEF ToSet
<1>. QED  BY <1>1, SeqDef

\* What a concatenation holds, and where.
LEMMA Concatenated ==
  ASSUME NEW S, NEW s \in Seq(S), NEW t \in Seq(S)
  PROVE  /\ s \o t \in Seq(S) /\ Len(s \o t) = Len(s) + Len(t)
         /\ Len(s) \in Nat /\ Len(t) \in Nat
         /\ \A i \in 1..Len(s) : (s \o t)[i] = s[i]
         /\ \A i \in 1..Len(t) : (s \o t)[Len(s) + i] = t[i]
         /\ ToSet(s \o t) = ToSet(s) \cup ToSet(t)
<1>. DEFINE u == s \o t
<1>1. /\ u \in Seq(S) /\ Len(u) = Len(s) + Len(t) /\ Len(s) \in Nat /\ Len(t) \in Nat
      /\ \A i \in 1..Len(s) : u[i] = s[i]
  BY ConcatProperties
<1>2. \A i \in 1..Len(t) : u[Len(s) + i] = t[i]
  BY ConcatProperties
<1>3. DOMAIN u = 1..(Len(s) + Len(t)) /\ DOMAIN s = 1..Len(s) /\ DOMAIN t = 1..Len(t)
  BY <1>1
<1>. HIDE DEF u
<1>4. ToSet(s) \cup ToSet(t) \subseteq ToSet(u)
  <2>1. \A i \in 1..Len(s) : i \in DOMAIN u
    BY <1>1, <1>3
  <2>2. \A i \in 1..Len(t) : Len(s) + i \in DOMAIN u
    BY <1>1, <1>3
  <2>. QED  BY <1>1, <1>2, <1>3, <2>1, <2>2 DEF ToSet
<1>5. ASSUME NEW i \in DOMAIN u
      PROVE  u[i] \in ToSet(s) \cup ToSet(t)
  <2>1. CASE i <= Len(s)
    <3>1. i \in 1..Len(s)
      BY <1>1, <1>3, <2>1
    <3>. QED  BY <1>1, <1>3, <3>1 DEF ToSet
  <2>2. CASE ~(i <= Len(s))
    <3>1. i - Len(s) \in 1..Len(t) /\ Len(s) + (i - Len(s)) = i
      BY <1>1, <1>3, <2>2
    <3>2. u[i] = t[i - Len(s)]
      BY <1>2, <3>1
    <3>. QED  BY <1>3, <3>1, <3>2 DEF ToSet
  <2>. QED  BY <2>1, <2>2
<1>6. ToSet(u) \subseteq ToSet(s) \cup ToSet(t)
  BY <1>5 DEF ToSet
<1>. QED  BY <1>1, <1>2, <1>4, <1>6 DEF u

LEMMA StreamIs ==
  ASSUME Basic
  PROVE  /\ buffer \in Seq(1..Len(history)) /\ queue \in Seq(1..Len(history))
         /\ ring \in Seq(1..Len(history)) /\ history \in Seq(Kind) /\ marked \in Nat
         /\ Stream \in Seq(1..Len(history)) /\ ToSet(Stream) = ToSet(buffer) \cup ToSet(queue)
<1>1. /\ buffer \in Seq(1..MaxWrites) /\ queue \in Seq(1..MaxWrites) /\ ring \in Seq(1..MaxWrites)
      /\ history \in Seq(Kind) /\ marked \in Nat
  BY FeedAssumption DEF Basic, TypeOK
<1>2. /\ ToSet(buffer) \subseteq 1..Len(history) /\ ToSet(queue) \subseteq 1..Len(history)
      /\ ToSet(ring) \subseteq 1..Len(history)
  BY DEF Basic, Located
<1>3. buffer \in Seq(1..Len(history)) /\ queue \in Seq(1..Len(history)) /\ ring \in Seq(1..Len(history))
  BY <1>1, <1>2, Narrowed
<1>4. /\ Stream \in Seq(1..Len(history)) /\ ToSet(Stream) = ToSet(buffer) \cup ToSet(queue)
  <2>. DEFINE S == 1..Len(history)
  <2>. HIDE DEF S
  <2>1. buffer \in Seq(S) /\ queue \in Seq(S)
    BY <1>3 DEF S
  <2>2. Stream \in Seq(S) /\ ToSet(Stream) = ToSet(buffer) \cup ToSet(queue)
    BY <2>1, Concatenated DEF Stream
  <2>. QED  BY <2>2 DEF S
<1>. QED  BY <1>1, <1>3, <1>4

LEMMA StreamTyped == Basic => Stream \in Seq(1..Len(history))
  BY StreamIs

LEMMA ThinOrdered ==
  ASSUME Basic, Basic', Ordered, history' = history, marked' = marked, Thins(Stream', Stream)
  PROVE  Ordered'
<1>1. Stream \in Seq(1..Len(history)) /\ Stream' \in Seq(1..Len(history))
  <2>1. (Basic => Stream \in Seq(1..Len(history)))'
    BY StreamTyped, PTL
  <2>. QED  BY <2>1, StreamIs
<1>2. RepeatsIn(history, Stream')
  BY <1>1, ThinRepeats DEF Ordered
<1>3. RecentIn(history, marked, Stream')
  BY <1>1, ThinRecent DEF Ordered
<1>. QED  BY <1>2, <1>3 DEF Ordered

LEMMA Same == ASSUME NEW S, NEW s \in Seq(S) PROVE Thins(s, s)
<1>. DEFINE f == [i \in 1..Len(s) |-> i]
<1>1. f \in [1..Len(s) -> 1..Len(s)] /\ \A i \in 1..Len(s) : f[i] = i
  OBVIOUS
<1>. HIDE DEF f
<1>. QED  BY <1>1 DEF Thins

\* A queue that is lost.
LEMMA Shorter == ASSUME Basic, buffer' = buffer, queue' = <<>> PROVE Thins(Stream', Stream)
<1>. DEFINE S == 1..Len(history)
            f == [i \in 1..Len(buffer) |-> i]
<1>1. buffer \in Seq(S) /\ queue \in Seq(S)
  BY StreamIs
<1>. HIDE DEF S
<1>2. /\ Len(Stream) = Len(buffer) + Len(queue) /\ Len(buffer) \in Nat /\ Len(queue) \in Nat
      /\ \A i \in 1..Len(buffer) : Stream[i] = buffer[i]
  BY <1>1, Concatenated DEF Stream
<1>3. Stream' = buffer
  BY <1>1, ConcatEmptySeq DEF Stream
<1>4. f \in [1..Len(buffer) -> 1..Len(Stream)] /\ \A i \in 1..Len(buffer) : f[i] = i
  BY <1>2
<1>. HIDE DEF f
<1>. QED  BY <1>2, <1>3, <1>4 DEF Thins


\* A step that keeps the list, the rows and the ring, and may lose the queue.
LEMMA ListKept ==
  ASSUME Basic, Basic', ListInv, UNCHANGED <<history, marked, ring, buffer>>,
         queue' = queue \/ queue' = <<>>, Paced'
  PROVE  ListInv'
<1>1. Thins(Stream', Stream)
  <2>1. CASE queue' = queue
    <3>1. Stream' = Stream
      BY <2>1 DEF Stream
    <3>. QED  BY <3>1, Same, StreamIs
  <2>2. CASE queue' = <<>>
    BY <2>2, Shorter
  <2>. QED  BY <2>1, <2>2
<1>2. Ordered'
  BY <1>1, ThinOrdered DEF ListInv
<1>3. RingIsTail' /\ ListedOnce'
  BY DEF ListInv, RingIsTail, ListedOnce, InOutbox
<1>. QED  BY <1>2, <1>3 DEF ListInv

\* What the stream holds after the queue was kept or lost.
LEMMA StreamHolds ==
  ASSUME Basic, buffer' = buffer, queue' = queue \/ queue' = <<>>
  PROVE  ToSet(Stream') \subseteq ToSet(Stream)
<1>1. CASE queue' = queue
  BY <1>1 DEF Stream
<1>2. CASE queue' = <<>>
  <2>1. buffer \in Seq(1..Len(history))
    BY StreamIs
  <2>2. Stream' = buffer
    BY <1>2, <2>1, ConcatEmptySeq DEF Stream
  <2>. QED  BY <2>2, StreamIs
<1>. QED  BY <1>1, <1>2

\* A row behind the marked one that was sent is in the window.
LEMMA SentIsRecent ==
  ASSUME Basic, Ordered, NEW n \in ToSet(Stream) \cap RowsOf(history), marked < n
  PROVE  n \in Window(history, marked)
<1>1. PICK i \in 1..Len(Stream) : Stream[i] = n
  <2>1. Stream \in Seq(1..Len(history))
    BY StreamIs
  <2>. QED  BY <2>1 DEF ToSet
<1>2. i \in i..Len(Stream)
  OBVIOUS
<1>. QED  BY <1>1, <1>2 DEF Ordered, RecentIn

LEMMA RelayStartsList == ASSUME Basic, Basic', ListInv, RelayStarts PROVE ListInv'
<1>. USE DEF linkVars, clientVars
<1>1. UNCHANGED <<history, marked, published, ring, buffer, queue>>
  BY DEF RelayStarts
<1>2. due' = Window(history, marked)
  BY RowsAreOutbox DEF RelayStarts, Window
<1>3. published = marked
  BY DEF RelayStarts, Basic, Located
<1>4. \A n \in ToSet(Stream) \cap RowsOf(history) : n <= marked \/ n \in due'
  <2>. SUFFICES ASSUME NEW n \in ToSet(Stream) \cap RowsOf(history), ~(n <= marked)
                PROVE  n \in due'
    OBVIOUS
  <2>1. n \in Nat /\ marked \in Nat
    BY StreamIs DEF RowsOf
  <2>2. marked < n
    BY <2>1
  <2>. QED  BY <1>2, <2>2, SentIsRecent DEF ListInv
<1>5. pass' = "agents" => due' = {}
  BY DEF RelayStarts
<1>6. Stream' = Stream
  BY <1>1 DEF Stream
<1>7. Paced'
  BY <1>1, <1>2, <1>3, <1>4, <1>5, <1>6 DEF Paced
<1>. QED  BY <1>1, <1>7, ListKept

\* A step in which the relay fails or does nothing.
LEMMA UnpacedList ==
  ASSUME Basic, Basic', ListInv, UNCHANGED <<history, marked, ring, buffer>>,
         queue' = queue \/ queue' = <<>>,
         pass' = "start" \/ UNCHANGED <<pass, due, published>>
  PROVE  ListInv'
<1>1. Paced'
  <2>1. CASE pass' = "start"
    BY <2>1 DEF Paced
  <2>2. CASE UNCHANGED <<pass, due, published>>
    BY <2>2, StreamHolds DEF ListInv, Paced
  <2>. QED  BY <2>1, <2>2
<1>. QED  BY <1>1, ListKept

\* When the marks of a pass are committed, every row that was sent is marked.
LEMMA RelayCommitsList == ASSUME Basic, Basic', ListInv, RelayCommits PROVE ListInv'
<1>. USE DEF linkVars, clientVars
<1>1. UNCHANGED <<history, published, ring, buffer, queue>> /\ marked' = published /\ pass' = "agents"
  BY DEF RelayCommits
<1>2. \A n \in ToSet(Stream) \cap RowsOf(history) : n <= published
  BY DEF RelayCommits, ListInv, Paced
<1>3. Stream' = Stream /\ Stream \in Seq(1..Len(history))
  BY <1>1, StreamIs DEF Stream
<1>4. Paced'
  BY <1>1, <1>2, <1>3 DEF Paced
<1>5. RecentIn(history, published, Stream)
  <2>1. \A i \in 1..Len(Stream) : Stream[i] \in ToSet(Stream) /\ Stream[i] \in Nat
    BY <1>3 DEF ToSet
  <2>2. published \in Nat
    BY FeedAssumption DEF Basic, TypeOK
  <2>3. \A i \in 1..Len(Stream) : Stream[i] \in RowsOf(history) => ~(published < Stream[i])
    BY <1>2, <2>1, <2>2
  <2>. QED  BY <2>3 DEF RecentIn
<1>6. Ordered'
  BY <1>1, <1>3, <1>5 DEF ListInv, Ordered
<1>7. RingIsTail' /\ ListedOnce'
  BY <1>1 DEF ListInv, RingIsTail, ListedOnce, InOutbox
<1>. QED  BY <1>4, <1>6, <1>7 DEF ListInv

\* A publication adds its row at the end of the stream, or nothing.
LEMMA StreamGrows ==
  ASSUME Basic, NEW n \in 1..Len(history), Publish(n), buffer' = buffer
  PROVE  Stream' = Stream \/ Stream' = Append(Stream, n)
<1>. DEFINE S == 1..Len(history)
<1>1. buffer \in Seq(S) /\ queue \in Seq(S) /\ n \in S
  BY StreamIs
<1>. HIDE DEF S
<1>2. buffer \o Append(queue, n) = Append(buffer \o queue, n)
  <2>1. Append(queue, n) = queue \o <<n>> /\ <<n>> \in Seq(S)
    BY <1>1, AppendIsConcat
  <2>2. buffer \o (queue \o <<n>>) = (buffer \o queue) \o <<n>>
    BY <1>1, <2>1, ConcatAssociative
  <2>3. buffer \o queue \in Seq(S)
    BY <1>1, Concatenated
  <2>4. Append(buffer \o queue, n) = (buffer \o queue) \o <<n>>
    BY <1>1, <2>3, AppendIsConcat
  <2>. QED  BY <2>1, <2>2, <2>4
<1>3. queue' = queue \/ queue' = Append(queue, n)
  BY DEF Publish
<1>. QED  BY <1>2, <1>3 DEF Stream

\* It keeps the list invariant if its row is of the window, or no row sent is unmarked.
LEMMA PublishList ==
  ASSUME Basic, Basic', ListInv, NEW n \in 1..Len(history), Publish(n),
         UNCHANGED <<history, marked, ring, buffer>>, Paced',
         \/ n \in Window(history, marked)
         \/ n \notin RowsOf(history) /\ \A k \in ToSet(Stream) \cap RowsOf(history) : k <= marked
  PROVE  ListInv'
<1>1. CASE Stream' = Stream
  <2>1. Ordered'
    BY <1>1 DEF ListInv, Ordered
  <2>. QED  BY <2>1 DEF ListInv, RingIsTail, ListedOnce, InOutbox
<1>2. CASE Stream' = Append(Stream, n)
  <2>1. Stream \in Seq(1..Len(history)) /\ history \in Seq(Kind) /\ marked \in Nat
    BY StreamIs
  <2>2. RepeatsIn(history, Append(Stream, n))
    BY <2>1, GrowRepeats DEF ListInv, Ordered
  <2>3. \/ n \in Window(history, marked)
        \/ /\ n \notin RowsOf(history)
           /\ \A i \in 1..Len(Stream) : Stream[i] \in RowsOf(history) => ~(marked < Stream[i])
    <3>1. \A i \in 1..Len(Stream) : Stream[i] \in ToSet(Stream) /\ Stream[i] \in Nat
      BY <2>1 DEF ToSet
    <3>2. \A k \in Nat : k <= marked => ~(marked < k)
      BY <2>1
    <3>. QED  BY <3>1, <3>2
  <2>4. RecentIn(history, marked, Append(Stream, n))
    BY <2>1, <2>3, GrowRecent DEF ListInv, Ordered
  <2>5. Ordered'
    BY <1>2, <2>2, <2>4 DEF Ordered
  <2>. QED  BY <2>5 DEF ListInv, RingIsTail, ListedOnce, InOutbox
<1>. QED  BY <1>1, <1>2, StreamGrows

LEMMA RelayRowList == ASSUME Basic, Basic', ListInv, RelayRow PROVE ListInv'
<1>. USE DEF clientVars
<1>1. PICK n \in Following(due, 0) : due' = due \ {n} /\ published' = n /\ Publish(n)
  BY DEF RelayRow
<1>2. n \in due /\ pass = "outbox" /\ published < n
  BY <1>1 DEF Following, Basic, Located
<1>3. n \in Window(history, marked) /\ due \subseteq Window(history, marked)
  BY <1>2 DEF ListInv, Paced
<1>4. n \in 1..Len(history) /\ n \in Nat /\ published \in Nat
  BY <1>3, FeedAssumption DEF Window, RowsOf, Basic, TypeOK
<1>5. UNCHANGED <<history, marked, pass, ring, buffer>>
  BY DEF RelayRow
<1>6. ToSet(Stream') \subseteq ToSet(Stream) \cup {n}
  <2>. DEFINE S == 1..Len(history)
  <2>1. Stream \in Seq(S) /\ n \in S
    BY <1>4, StreamIs
  <2>. HIDE DEF S
  <2>2. ToSet(Append(Stream, n)) = ToSet(Stream) \cup {n}
    BY <2>1, HoldsAppended
  <2>. QED  BY <1>1, <1>4, <1>5, <2>2, StreamGrows
<1>7. \A k \in ToSet(Stream') \cap RowsOf(history) : k <= n \/ k \in due'
  <2>. SUFFICES ASSUME NEW k \in ToSet(Stream') \cap RowsOf(history), k # n
                PROVE  k <= n \/ k \in due'
    BY <1>4
  <2>1. k <= published \/ k \in due
    BY <1>2, <1>6 DEF ListInv, Paced
  <2>2. k \in Nat
    BY DEF RowsOf
  <2>. QED  BY <1>1, <1>2, <1>4, <2>1, <2>2
<1>8. Paced'
  BY <1>1, <1>2, <1>3, <1>5, <1>7 DEF Paced
<1>. QED  BY <1>1, <1>3, <1>4, <1>5, <1>8, PublishList

LEMMA RelayAgentEventList == ASSUME Basic, Basic', ListInv, RelayAgentEvent PROVE ListInv'
<1>. USE DEF clientVars
<1>1. PICK n \in Following(AgentRows, cursor) : cursor' = n /\ Publish(n)
  BY DEF RelayAgentEvent
<1>2. n \in 1..Len(history) /\ n \notin RowsOf(history)
  BY <1>1, RowsAreWrites DEF Following, AgentRows, RowsOf
<1>3. UNCHANGED <<history, marked, published, pass, due, ring, buffer>> /\ pass = "agents"
  BY DEF RelayAgentEvent
<1>4. \A k \in ToSet(Stream) \cap RowsOf(history) : k <= marked
  BY <1>3 DEF ListInv, Paced
<1>5. ToSet(Stream') \subseteq ToSet(Stream) \cup {n}
  <2>. DEFINE S == 1..Len(history)
  <2>1. Stream \in Seq(S) /\ n \in S
    BY <1>2, StreamIs
  <2>. HIDE DEF S
  <2>2. ToSet(Append(Stream, n)) = ToSet(Stream) \cup {n}
    BY <2>1, HoldsAppended
  <2>. QED  BY <1>1, <1>2, <1>3, <2>2, StreamGrows
<1>6. Paced'
  BY <1>2, <1>3, <1>4, <1>5 DEF Paced
<1>. QED  BY <1>1, <1>2, <1>3, <1>4, <1>6, PublishList

\* A commit: the new row is in neither the stream nor the pass.
LEMMA CommitList ==
  ASSUME Basic, ListInv, NEW kind \in Kind, history' = Append(history, kind),
         UNCHANGED <<marked, published, pass, due, queue, ring, buffer>>
  PROVE  ListInv'
<1>1. /\ Stream \in Seq(1..Len(history)) /\ history \in Seq(Kind) /\ marked \in Nat
      /\ Stream' = Stream /\ buffer \in Seq(1..Len(history))
  BY StreamIs DEF Stream
<1>2. Ordered'
  <2>1. RepeatsIn(Append(history, kind), Stream)
    BY <1>1, CommitRepeats DEF ListInv, Ordered
  <2>2. RecentIn(Append(history, kind), marked, Stream)
    BY <1>1, CommitRecent DEF ListInv, Ordered
  <2>. QED  BY <1>1, <2>1, <2>2 DEF Ordered
<1>3. \A n \in 1..Len(history) : n \in RowsOf(history') <=> n \in RowsOf(history)
  BY <1>1, RowsAppended
<1>4. Paced'
  <2>1. ToSet(Stream) \subseteq 1..Len(history)
    BY <1>1 DEF ToSet
  <2>2. ToSet(Stream) \cap RowsOf(history') = ToSet(Stream) \cap RowsOf(history)
    BY <1>3, <2>1
  <2>3. Window(history, marked) \subseteq Window(history', marked)
    BY <1>1, WindowAppended
  <2>. QED  BY <1>1, <2>2, <2>3 DEF ListInv, Paced
<1>5. RingIsTail'
  BY DEF ListInv, RingIsTail
<1>6. ListedOnce'
  <2>1. \A i \in DOMAIN buffer : buffer[i] \in 1..Len(history)
    BY <1>1
  <2>2. \A n \in 1..Len(history) : history'[n] = history[n]
    BY <1>1, AppendProperties
  <2>. QED  BY <2>1, <2>2 DEF ListInv, ListedOnce, InOutbox
<1>. QED  BY <1>2, <1>4, <1>5, <1>6 DEF ListInv

LEMMA ThinHolds ==
  ASSUME NEW S, NEW s \in Seq(S), NEW t \in Seq(S), Thins(t, s)
  PROVE  ToSet(t) \subseteq ToSet(s)
<1>1. DOMAIN t = 1..Len(t) /\ DOMAIN s = 1..Len(s)
  OBVIOUS
<1>. QED  BY <1>1 DEF Thins, ToSet

\* The arrival of a row moves it to the list, or takes it from the stream.
LEMMA DeliveredThins ==
  ASSUME Basic, Delivered
  PROVE  Thins(Stream', Stream)
<1>. DEFINE S == 1..Len(history)
            B == Len(buffer)
            Q == Len(queue)
            n == Head(queue)
<1>1. buffer \in Seq(S) /\ queue \in Seq(S) /\ queue # <<>> /\ queue' = Tail(queue)
  BY StreamIs DEF Delivered
<1>. HIDE DEF S
<1>2. /\ Tail(queue) \in Seq(S) /\ Len(Tail(queue)) = Q - 1 /\ Q >= 1 /\ n = queue[1] /\ n \in S
      /\ \A i \in 1..(Q - 1) : Tail(queue)[i] = queue[i + 1]
  BY <1>1, HeadTailProperties
<1>3. /\ Len(Stream) = B + Q /\ B \in Nat /\ Q \in Nat
      /\ \A i \in 1..B : Stream[i] = buffer[i]
      /\ \A i \in 1..Q : Stream[B + i] = queue[i]
  BY <1>1, Concatenated DEF Stream
<1>4. CASE n \in ToSet(ring)
  <2>. DEFINE u == buffer \o Tail(queue)
  <2>1. Stream' = u
    BY <1>1, <1>4 DEF Delivered, Stream
  <2>2. /\ Len(u) = B + (Q - 1)
        /\ \A i \in 1..B : u[i] = buffer[i]
        /\ \A i \in 1..(Q - 1) : u[B + i] = Tail(queue)[i]
    BY <1>1, <1>2, Concatenated
  <2>. HIDE DEF u, B, Q, n
  <2>. DEFINE f == [i \in 1..Len(u) |-> IF i <= B THEN i ELSE i + 1]
  <2>3. f \in [1..Len(u) -> 1..Len(Stream)]
    BY <1>2, <1>3, <2>2
  <2>4. \A i, j \in 1..Len(u) : i < j => f[i] < f[j]
    BY <1>2, <1>3, <2>2
  <2>5. ASSUME NEW i \in 1..Len(u)
        PROVE  u[i] = Stream[f[i]]
    <3>1. CASE i <= B
      BY <1>3, <2>2, <3>1
    <3>2. CASE ~(i <= B)
      <4>1. i - B \in 1..(Q - 1) /\ B + (i - B) = i /\ (i - B) + 1 \in 1..Q
        BY <1>2, <1>3, <2>2, <3>2
      <4>2. u[i] = queue[(i - B) + 1]
        BY <1>2, <2>2, <4>1
      <4>3. Stream[B + ((i - B) + 1)] = queue[(i - B) + 1] /\ B + ((i - B) + 1) = i + 1
        BY <1>3, <4>1
      <4>. QED  BY <3>2, <4>2, <4>3
    <3>. QED  BY <3>1, <3>2
  <2>. HIDE DEF f
  <2>. QED  BY <2>1, <2>3, <2>4, <2>5 DEF Thins
<1>5. CASE n \notin ToSet(ring)
  <2>. DEFINE u == Append(buffer, n) \o Tail(queue)
  <2>1. Stream' = u
    BY <1>1, <1>5 DEF Delivered, Stream
  <2>2. /\ Append(buffer, n) \in Seq(S) /\ Len(Append(buffer, n)) = B + 1
        /\ Append(buffer, n)[B + 1] = n /\ \A i \in 1..B : Append(buffer, n)[i] = buffer[i]
    BY <1>1, <1>2, AppendProperties
  <2>3. /\ Len(u) = (B + 1) + (Q - 1)
        /\ \A i \in 1..(B + 1) : u[i] = Append(buffer, n)[i]
        /\ \A i \in 1..(Q - 1) : u[(B + 1) + i] = Tail(queue)[i]
    BY <1>2, <2>2, Concatenated
  <2>. HIDE DEF u, B, Q, n
  <2>. DEFINE f == [i \in 1..Len(u) |-> i]
  <2>4. Len(u) = Len(Stream) /\ B + 1 \in 1..(B + 1) /\ 1 \in 1..Q
    BY <1>2, <1>3, <2>3
  <2>5. f \in [1..Len(u) -> 1..Len(Stream)] /\ \A i \in 1..Len(u) : f[i] = i
    BY <2>4
  <2>6. ASSUME NEW i \in 1..Len(u)
        PROVE  u[i] = Stream[i]
    <3>1. CASE i <= B
      <4>1. i \in 1..B /\ i \in 1..(B + 1)
        BY <1>3, <3>1
      <4>. QED  BY <1>3, <2>2, <2>3, <4>1
    <3>2. CASE i = B + 1
      BY <1>2, <1>3, <2>2, <2>3, <2>4, <3>2
    <3>3. CASE ~(i <= B + 1)
      <4>1. /\ i - (B + 1) \in 1..(Q - 1) /\ (B + 1) + (i - (B + 1)) = i
            /\ (i - (B + 1)) + 1 \in 1..Q /\ B + ((i - (B + 1)) + 1) = i
        BY <1>2, <1>3, <2>3, <3>3
      <4>2. u[i] = queue[(i - (B + 1)) + 1]
        BY <1>2, <2>3, <4>1
      <4>3. Stream[B + ((i - (B + 1)) + 1)] = queue[(i - (B + 1)) + 1]
        BY <1>3, <4>1
      <4>. QED  BY <4>1, <4>2, <4>3
    <3>. QED  BY <1>3, <2>3, <3>1, <3>2, <3>3
  <2>. HIDE DEF f
  <2>. QED  BY <2>1, <2>5, <2>6 DEF Thins
<1>. QED  BY <1>4, <1>5

\* A row that was listed and is repeated within its batch is still in the ring.
LEMMA RepeatedIsInRing ==
  ASSUME Basic, ListInv, queue # <<>>, Head(queue) \in RowsOf(history),
         NEW i \in 1..Len(buffer), buffer[i] = Head(queue)
  PROVE  Head(queue) \in ToSet(ring)
<1>. DEFINE S == 1..Len(history)
            B == Len(buffer)
            n == Head(queue)
            T == {Stream[k] : k \in i..(B + 1)}
<1>1. buffer \in Seq(S) /\ queue \in Seq(S) /\ ring \in Seq(S)
  BY StreamIs
<1>. HIDE DEF S
<1>2. Len(queue) >= 1 /\ n = queue[1]
  BY <1>1, HeadTailProperties
<1>3. /\ Len(Stream) = B + Len(queue) /\ B \in Nat /\ Len(queue) \in Nat
      /\ \A k \in 1..B : Stream[k] = buffer[k]
      /\ \A k \in 1..Len(queue) : Stream[B + k] = queue[k]
  BY <1>1, Concatenated DEF Stream
<1>4. /\ i \in 1..Len(Stream) /\ B + 1 \in 1..Len(Stream) /\ i < B + 1
      /\ Stream[i] = n /\ Stream[B + 1] = n /\ 1 \in 1..Len(queue)
  BY <1>2, <1>3
<1>5. (\A k \in i..(B + 1) : Stream[k] \in RowsOf(history)) /\ Cardinality(T) <= Batch
  BY <1>4 DEF ListInv, Ordered, RepeatsIn
<1>6. ASSUME NEW j \in i..B, NEW k \in i..B, j # k
      PROVE  Stream[j] # Stream[k]
  <2>1. j \in 1..B /\ k \in 1..B /\ j \in DOMAIN buffer /\ k \in DOMAIN buffer /\ j \in i..(B + 1)
    BY <1>1, <1>3
  <2>2. buffer[j] \in RowsOf(history) /\ buffer[j] \in 1..Len(history)
    BY <1>3, <1>5, <2>1 DEF RowsOf
  <2>3. InOutbox(buffer[j])
    BY <2>2, RowsAreOutbox
  <2>. QED  BY <1>3, <1>6, <2>1, <2>3 DEF ListInv, ListedOnce
<1>7. Cardinality(i..B) <= Cardinality(T) /\ IsFiniteSet(T)
  <2>. DEFINE g == [k \in i..B |-> Stream[k]]
  <2>1. IsFiniteSet(T)
    <3>1. i \in Int /\ B + 1 \in Int
      BY <1>3
    <3>. QED  BY <3>1, FewValues
  <2>2. g \in [i..B -> T]
    <3>1. \A k \in i..B : k \in i..(B + 1)
      BY <1>3
    <3>. QED  BY <3>1
  <2>3. \A j, k \in i..B : g[j] = g[k] => j = k
    BY <1>6
  <2>. DEFINE I == i..B
  <2>. HIDE DEF g, T, I
  <2>4. g \in Injection(I, T)
    <3>1. g \in [I -> T] /\ \A j, k \in I : g[j] = g[k] => j = k
      BY <2>2, <2>3 DEF I
    <3>. QED  BY <3>1, Zenon DEF Injection, IsInjective
  <2>. QED  BY <2>1, <2>4, FS_Injection DEF I
<1>8. Cardinality(i..B) = B - i + 1 /\ i <= B /\ i >= 1 /\ i \in Nat
  <2>1. i \in Int /\ B \in Int /\ i <= B /\ i >= 1
    BY <1>3
  <2>. QED  BY <2>1, FS_Interval
<1>9. B - i + 1 <= RingSize
  <2>1. Cardinality(T) \in Nat
    BY <1>7, FS_CardinalityType
  <2>. HIDE DEF T
  <2>. QED  BY <1>3, <1>5, <1>7, <1>8, <2>1, FeedAssumption
<1>10. /\ Len(ring) = IF B < RingSize THEN B ELSE RingSize
       /\ \A k \in 1..Len(ring) : ring[k] = buffer[B - Len(ring) + k]
  BY DEF ListInv, RingIsTail
<1>11. Len(ring) \in Nat /\ B - i + 1 <= Len(ring) /\ Len(ring) <= B
  BY <1>1, <1>3, <1>8, <1>9, <1>10, FeedAssumption
<1>. DEFINE r == i - (B - Len(ring))
<1>12. r \in 1..Len(ring) /\ B - Len(ring) + r = i
  BY <1>3, <1>8, <1>11
<1>. HIDE DEF r, B, n
<1>13. ring[r] = buffer[i] /\ r \in DOMAIN ring
  BY <1>1, <1>10, <1>12
<1>. QED  BY <1>13 DEF ToSet, n

\* The arrival of a row that is not in the ring adds it to the ring and to the list.
LEMMA RingFollows ==
  ASSUME Basic, RingIsTail, Delivered, Head(queue) \notin ToSet(ring)
  PROVE  RingIsTail'
<1>. DEFINE S == 1..Len(history)
            B == Len(buffer)
            n == Head(queue)
            kept == IF Len(ring) < RingSize THEN ring ELSE Tail(ring)
<1>1. buffer \in Seq(S) /\ queue \in Seq(S) /\ ring \in Seq(S) /\ queue # <<>>
  BY StreamIs DEF Delivered
<1>. HIDE DEF S
<1>2. n \in S
  BY <1>1, HoldsTail
<1>3. ring' = kept \o <<n>> /\ buffer' = Append(buffer, n)
  BY DEF Delivered
<1>4. /\ Len(ring) \in Nat /\ B \in Nat /\ RingSize \in Nat /\ RingSize >= 1
      /\ Len(ring) = IF B < RingSize THEN B ELSE RingSize
      /\ \A i \in 1..Len(ring) : ring[i] = buffer[B - Len(ring) + i]
  <2>1. Len(ring) \in Nat /\ B \in Nat
    BY <1>1
  <2>2. RingSize \in Nat /\ RingSize >= 1
    BY FeedAssumption
  <2>. QED  BY <2>1, <2>2 DEF RingIsTail
<1>5. /\ Len(buffer') = B + 1 /\ buffer'[B + 1] = n
      /\ \A i \in 1..B : buffer'[i] = buffer[i]
  BY <1>1, <1>2, <1>3, AppendProperties
<1>6. kept \in Seq(S)
  <2>1. Len(ring) >= RingSize => ring # <<>>
    BY <1>4
  <2>. QED  BY <1>1, <1>4, <2>1, HoldsTail
<1>. DEFINE K == Len(kept)
<1>7. /\ Len(ring') = K + 1 /\ ring'[K + 1] = n /\ K \in Nat
      /\ \A i \in 1..K : ring'[i] = kept[i]
  <2>. HIDE DEF kept, n
  <2>1. kept \o <<n>> = Append(kept, n)
    BY <1>2, <1>6, HoldsAppended
  <2>. QED  BY <1>2, <1>3, <1>6, <2>1, AppendProperties
<1>8. CASE Len(ring) < RingSize
  <2>1. kept = ring /\ K = B /\ Len(ring) = B
    BY <1>4, <1>8
  <2>. HIDE DEF kept, B, n
  <2>2. Len(ring') = IF Len(buffer') < RingSize THEN Len(buffer') ELSE RingSize
    BY <1>4, <1>5, <1>7, <1>8, <2>1
  <2>3. ASSUME NEW i \in 1..Len(ring')
        PROVE  ring'[i] = buffer'[Len(buffer') - Len(ring') + i]
    <3>1. Len(buffer') - Len(ring') + i = i
      <4>1. Len(buffer') = B + 1 /\ Len(ring') = B + 1 /\ B \in Nat
        BY <1>4, <1>5, <1>7, <2>1
      <4>. QED  BY <4>1
    <3>2. CASE i = B + 1
      BY <1>5, <1>7, <2>1, <3>1, <3>2
    <3>3. CASE i # B + 1
      <4>1. i \in 1..B
        BY <1>4, <1>7, <2>1, <3>3
      <4>2. B - Len(ring) + i = i
        BY <1>4, <2>1, <4>1
      <4>. QED  BY <1>4, <1>5, <1>7, <2>1, <3>1, <4>1, <4>2
    <3>. QED  BY <3>2, <3>3
  <2>. QED  BY <2>2, <2>3 DEF RingIsTail
<1>9. CASE ~(Len(ring) < RingSize)
  <2>1. kept = Tail(ring) /\ Len(ring) = RingSize /\ B >= RingSize
    BY <1>4, <1>9
  <2>2. K = RingSize - 1 /\ \A i \in 1..K : kept[i] = ring[i + 1]
    <3>1. ring # <<>>
      BY <1>4, <2>1
    <3>. QED  BY <1>1, <2>1, <3>1, HeadTailProperties
  <2>. HIDE DEF kept, B, n, K
  <2>3. Len(ring') = IF Len(buffer') < RingSize THEN Len(buffer') ELSE RingSize
    BY <1>4, <1>5, <1>7, <2>1, <2>2
  <2>4. ASSUME NEW i \in 1..Len(ring')
        PROVE  ring'[i] = buffer'[Len(buffer') - Len(ring') + i]
    <3>1. Len(buffer') - Len(ring') + i = B - RingSize + (i + 1) /\ Len(ring') = RingSize
      BY <1>4, <1>5, <1>7, <2>2
    <3>2. CASE i = RingSize
      <4>1. B - RingSize + (i + 1) = B + 1 /\ i = K + 1
        BY <1>4, <2>2, <3>2
      <4>. QED  BY <1>5, <1>7, <3>1, <4>1
    <3>3. CASE i # RingSize
      <4>1. i \in 1..K /\ i + 1 \in 1..Len(ring) /\ B - RingSize + (i + 1) \in 1..B
        BY <1>4, <2>1, <2>2, <3>1, <3>3
      <4>2. ring'[i] = ring[i + 1]
        BY <1>7, <2>2, <4>1
      <4>3. ring[i + 1] = buffer[B - RingSize + (i + 1)]
        BY <1>4, <2>1, <4>1
      <4>. QED  BY <1>5, <3>1, <4>1, <4>2, <4>3
    <3>. QED  BY <3>2, <3>3
  <2>. QED  BY <2>3, <2>4 DEF RingIsTail
<1>. QED  BY <1>8, <1>9

LEMMA DeliveredList == ASSUME Basic, Basic', ListInv, Delivered PROVE ListInv'
<1>. USE DEF serverVars
<1>1. UNCHANGED <<history, marked, published, pass, due>> /\ queue # <<>>
  BY DEF Delivered
<1>2. Thins(Stream', Stream)
  BY DeliveredThins
<1>3. Ordered'
  BY <1>1, <1>2, ThinOrdered DEF ListInv
<1>4. Paced'
  <2>1. Stream \in Seq(1..Len(history)) /\ Stream' \in Seq(1..Len(history))
    <3>1. (Basic => Stream \in Seq(1..Len(history)))'
      BY StreamTyped, PTL
    <3>. QED  BY <1>1, <3>1, StreamIs
  <2>2. ToSet(Stream') \subseteq ToSet(Stream)
    BY <1>2, <2>1, ThinHolds
  <2>. QED  BY <1>1, <2>2 DEF ListInv, Paced
<1>5. CASE Head(queue) \in ToSet(ring)
  <2>1. ring' = ring /\ buffer' = buffer
    BY <1>5 DEF Delivered
  <2>2. RingIsTail' /\ ListedOnce'
    BY <1>1, <2>1 DEF ListInv, RingIsTail, ListedOnce, InOutbox
  <2>. QED  BY <1>3, <1>4, <2>2 DEF ListInv
<1>6. CASE Head(queue) \notin ToSet(ring)
  <2>1. RingIsTail'
    BY <1>6, RingFollows DEF ListInv
  <2>. DEFINE n == Head(queue)
              B == Len(buffer)
  <2>2. n \in 1..Len(history) /\ buffer \in Seq(1..Len(history)) /\ buffer' = Append(buffer, n)
    BY <1>6, DeliveredIs, StreamIs DEF Delivered
  <2>3. /\ DOMAIN buffer = 1..B /\ DOMAIN buffer' = 1..(B + 1) /\ B \in Nat
        /\ buffer'[B + 1] = n /\ \A i \in 1..B : buffer'[i] = buffer[i]
    BY <2>2, AppendProperties
  <2>4. ASSUME InOutbox(n), NEW i \in 1..B
        PROVE  buffer[i] # n
    <3>1. n \in RowsOf(history)
      BY <2>2, <2>4, RowsAreOutbox
    <3>. QED  BY <1>1, <1>6, <3>1, RepeatedIsInRing
  <2>. HIDE DEF n, B
  <2>5. ASSUME NEW i \in 1..(B + 1), NEW j \in 1..(B + 1), i # j, InOutbox(buffer'[i])
        PROVE  buffer'[i] # buffer'[j]
    <3>1. CASE i \in 1..B /\ j \in 1..B
      BY <2>3, <2>5, <3>1 DEF ListInv, ListedOnce
    <3>2. CASE i = B + 1 /\ j \in 1..B
      BY <2>3, <2>4, <2>5, <3>2
    <3>3. CASE j = B + 1 /\ i \in 1..B
      <4>1. buffer'[i] = buffer[i] /\ buffer'[j] = n
        BY <2>3, <3>3
      <4>2. SUFFICES ASSUME buffer[i] = n
                     PROVE  FALSE
        BY <4>1
      <4>. QED  BY <2>4, <2>5, <3>3, <4>1, <4>2
    <3>. QED  BY <2>3, <2>5, <3>1, <3>2, <3>3
  <2>6. ListedOnce'
    BY <1>1, <2>3, <2>5 DEF ListedOnce, InOutbox
  <2>. QED  BY <1>3, <1>4, <2>1, <2>6 DEF ListInv
<1>. QED  BY <1>5, <1>6

LEMMA InitList == Init => ListInv
<1>. SUFFICES ASSUME Init
              PROVE  ListInv
  OBVIOUS
<1>1. buffer = <<>> /\ queue = <<>> /\ ring = <<>> /\ pass = "start"
  BY DEF Init
<1>2. Stream = <<>>
  BY <1>1, ConcatEmptySeq, EmptySeq DEF Stream
<1>3. Len(<<>>) = 0 /\ DOMAIN <<>> = {}
  OBVIOUS
<1>4. Ordered
  BY <1>2, <1>3 DEF Ordered, RepeatsIn, RecentIn
<1>5. RingIsTail
  BY <1>1, <1>3, FeedAssumption DEF RingIsTail
<1>6. ListedOnce
  BY <1>1, <1>3 DEF ListedOnce
<1>. QED  BY <1>1, <1>4, <1>5, <1>6 DEF ListInv, Paced

LEMMA ListKeptByNext == Basic /\ Basic' /\ ListInv /\ [Next]_vars => ListInv'
<1>. SUFFICES ASSUME Basic, Basic', ListInv, [Next]_vars
              PROVE  ListInv'
  OBVIOUS
<1>. USE DEF serverVars, linkVars, clientVars
<1>1. CASE UNCHANGED vars
  BY <1>1, UnpacedList DEF vars
<1>2. CASE RelayFails \/ ApiRestarts
  BY <1>2, UnpacedList DEF RelayFails, ApiRestarts
<1>3. CASE Opens \/ Breaks
  BY <1>3, UnpacedList DEF Opens, Breaks
<1>4. CASE (\E p \in {"plan", "plans"} : Navigate(p)) \/ Resync \/ (\E n \in acks : Acknowledged(n) \/ ResponseLost(n))
  BY <1>4, UnpacedList DEF Navigate, Resync, Acknowledged, ResponseLost
<1>5. CASE \E q \in Query : FetchReads(q) \/ FetchLands(q) \/ FetchFails(q)
  BY <1>5, UnpacedList DEF FetchReads, FetchLands, FetchFails
<1>6. ASSUME NEW kind \in Others \cup Own, Write(kind) \/ Command(kind)
      PROVE  ListInv'
  <2>1. kind \in Kind
    BY FeedAssumption DEF Kind
  <2>. QED  BY <1>6, <2>1, CommitList DEF Write, Command
<1>. QED  BY <1>1, <1>2, <1>3, <1>4, <1>5, <1>6, RelayStartsList, RelayRowList, RelayCommitsList,
             RelayAgentEventList, DeliveredList DEF Next

\* A plan event that is published again, by a pass that failed or a process that
\* restarted, is still in the ring when it arrives, if the ring holds a batch: the
\* activity list shows each plan event once.
THEOREM FeedListedOnce == Spec => []ListedOnce
<1>1. ListInv => ListedOnce
  BY DEF ListInv
<1>2. Init => Basic /\ ListInv
  BY InitBasic, InitList
<1>3. Basic /\ ListInv /\ [Next]_vars => (Basic /\ ListInv)'
  BY BasicKept, ListKeptByNext
<1>. QED  BY <1>1, <1>2, <1>3, PTL DEF Spec
=============================================================================
