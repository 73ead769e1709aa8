------------------------------ MODULE EventFeed ------------------------------
(***************************************************************************)
(* How a browser learns that a plan changed: every transaction appends its *)
(* events to the outbox, a relay publishes them at least once, a broker    *)
(* gives each client a bounded queue, an EventSource reconnects, the store *)
(* drops duplicates, and each event invalidates queries of the cache,      *)
(* which are then fetched again. No page polls the plan.                   *)
(*                                                                         *)
(* A write is its number in the order of commits; what a query would       *)
(* return is the number of the last write that touched it.                 *)
(***************************************************************************)
EXTENDS Naturals, Sequences, FiniteSets, SequencesExt

CONSTANTS Batch,       \* rows per pass of the relay
          QueueSize,   \* _CLIENT_QUEUE_MAXSIZE
          RingSize,    \* SEEN_IDS_MAX
          Others,      \* the kinds of writes of workers and other operators
          Own,         \* the kinds of this client's commands
          Query,       \* the queries of the cache that are followed
          MaxWrites,   \* bound: commits
          MaxFaults    \* bound: failed passes and requests, broken connections, restarts

ASSUME FeedAssumption ==
    /\ Batch \in Nat \ {0} /\ QueueSize \in Nat \ {0} /\ RingSize \in Nat
    /\ Batch <= RingSize
    /\ Query \subseteq {"plan", "plans", "timeline"}
    /\ Others \cup Own \subseteq {"state", "task", "failed", "replan", "planning",
                              "operation", "edit", "cancel", "agent"}
    /\ MaxWrites \in Nat /\ MaxFaults \in Nat

VARIABLES history,     \* the kinds of the writes, in the order of their commits
          marked,      \* the last outbox row marked delivered
          published,   \* the last row published, marked or not
          pass,        \* where the relay is: before a pass, in its outbox rows or its agent rows
          due,         \* the outbox rows this pass has read and not yet published
          cursor,      \* the relay's position in the agent events
          conn,        \* the EventSource: "connecting", "open" or "retrying"
          hadError,    \* has it failed since it was last open?
          queue,       \* the broker's queue of this client
          ring,        \* seenEventIds
          buffer,      \* events: what the Activity view lists
          page,        \* what is on screen: "plan" or "plans"
          cache,       \* the queries
          acks,        \* the client's own commands whose response is under way
          missed,      \* the queries of which a change was not announced to this client, nor made up for
          faults

vars == <<history, marked, published, pass, due, cursor, conn, hadError, queue, ring, buffer,
          page, cache, acks, missed, faults>>
serverVars == <<history, marked, published, pass, due, cursor>>
linkVars   == <<conn, hadError, queue>>
clientVars == <<ring, buffer, page, cache, acks>>

Kind  == {"state", "task", "failed", "replan", "planning", "operation", "edit", "cancel", "agent"}

\* What a write of a kind changes. The timeline shows attempts and planning
\* operations. An edit or a rebinding, the cancelling of a proposal or a draft and the
\* start of a planning operation add no event.
Touches(kind) ==
    CASE kind \in {"state", "replan", "cancel"} -> {"plan", "plans"}
      [] kind \in {"task", "failed", "planning"} -> {"plan", "plans", "timeline"}
      [] kind = "edit"  -> {"plan"}
      [] kind \in {"operation", "agent"} -> {"timeline"}

\* What useSSEBridge invalidates for an event of a kind.
Announces(kind) ==
    CASE kind \in {"state", "planning"} -> {"plan", "plans"}
      [] kind = "task"   -> {"plan", "plans", "timeline"}
      [] kind = "failed" -> {"plan", "timeline"}
      [] kind = "replan" -> {"plan"}
      [] kind = "agent"  -> {"timeline"}
      [] OTHER           -> {}

\* What the mutation behind a command invalidates when its response arrives.
Refreshes(command) ==
    CASE command = "edit" -> {"plan"}
      [] command = "task" -> {"plan", "plans", "timeline"}
      [] OTHER            -> {"plan", "plans"}

InOutbox(n) == history[n] \notin {"operation", "edit", "cancel", "agent"}
Truth(q) == SelectLastInSeq(history, LAMBDA kind : q \in Touches(kind))
Following(rows, n) == {m \in rows : n < m /\ \A k \in rows : n < k => m <= k}
OutboxRows == {n \in DOMAIN history : InOutbox(n)}
AgentRows  == {n \in DOMAIN history : history[n] = "agent"}

(***************************************************************************)
(* The cache: a query is unknown until its first fetch lands; an           *)
(* invalidation marks it stale and, if it is on screen, fetches it: a      *)
(* fetch under way is cancelled for a new one, but the first one is joined.*)
(***************************************************************************)
Active(p) == IF p = "plan" THEN {"plan", "timeline"} ELSE {"plans"}

Invalidated(entry, active) ==
    IF ~active THEN [entry EXCEPT !.stale = TRUE]
    ELSE IF ~entry.known /\ entry.fetch # "idle" THEN [entry EXCEPT !.stale = TRUE]
    ELSE [entry EXCEPT !.stale = TRUE, !.fetch = "asked", !.reply = 0]

Invalidate(queries) ==
    cache' = [q \in Query |-> IF q \in queries
                              THEN Invalidated(cache[q], q \in Active(page))
                              ELSE cache[q]]

\* An announcement that leaves a fetch alone whose reply is older is used up: when
\* that reply lands, it clears the mark.
Swallowed(queries) ==
    {q \in Query \cap queries : /\ q \notin Active(page) \/ ~cache[q].known
                     /\ cache[q].fetch = "read" /\ cache[q].reply < Truth(q)}

\* What is still missed after it: for every other query it makes up for what was.
StillMissed(queries) == (missed \ queries) \cup Swallowed(queries)

(***************************************************************************)
(* The responses to this client's commands.                                *)
(***************************************************************************)
\* What only the response of command n would have invalidated, and shows as current,
\* or is about to, what was read before it.
Unrefreshed(n) ==
    {q \in Query \cap (Refreshes(history[n]) \ Announces(history[n])) :
        LET e == cache[q]
        IN  IF e.fetch = "read" THEN e.reply < n
            ELSE e.fetch = "idle" /\ e.known /\ ~e.stale /\ e.data < n}

\* onError of a command that was committed: a toast, and nothing is invalidated.
Unanswered(lost) ==
    /\ acks' = acks \ lost
    /\ missed' = missed \cup UNION {Unrefreshed(n) : n \in lost}

(***************************************************************************)
(* The server.                                                             *)
(***************************************************************************)
\* A transaction of a worker or of another operator.
Write(kind) ==
    /\ Len(history) < MaxWrites
    /\ history' = Append(history, kind)
    /\ missed' = missed \cup (Query \cap (Touches(kind) \ Announces(kind)))
    /\ UNCHANGED <<marked, published, pass, due, cursor, faults>>
    /\ UNCHANGED linkVars /\ UNCHANGED clientVars

\* Not the code: a broker whose queues have no limit.
PublishUnbounded(n) ==
    /\ queue' = IF conn = "open" THEN Append(queue, n) ELSE queue
    /\ missed' = IF conn = "open" THEN missed ELSE missed \cup (Query \cap Announces(history[n]))

\* broker.publish: a full queue or an absent client does not get the event, and
\* nobody is told.
Publish(n) ==
    LET taken == conn = "open" /\ Len(queue) < QueueSize
    IN  /\ queue' = IF taken THEN Append(queue, n) ELSE queue
        /\ missed' = IF taken THEN missed ELSE missed \cup (Query \cap Announces(history[n]))

\* relay_once: a pass reads a batch of undelivered rows, publishes each, commits
\* their marks, and only then looks at agent events.
RelayStarts ==
    /\ pass # "outbox"
    /\ pass' = IF \E n \in OutboxRows : marked < n THEN "outbox" ELSE "agents"
    /\ pass' # pass
    /\ due' = {n \in OutboxRows : /\ marked < n
                                 /\ Cardinality({k \in OutboxRows : marked < k /\ k < n}) < Batch}
    /\ UNCHANGED <<history, marked, published, cursor, missed, faults>>
    /\ UNCHANGED linkVars /\ UNCHANGED clientVars

RelayRow ==
    /\ \E n \in Following(due, 0) : due' = due \ {n} /\ published' = n /\ Publish(n)
    /\ UNCHANGED <<history, marked, pass, cursor, conn, hadError, faults>>
    /\ UNCHANGED clientVars

RelayCommits ==
    /\ pass = "outbox" /\ due = {}
    /\ pass' = "agents"
    /\ marked' = published
    /\ UNCHANGED <<history, published, due, cursor, missed, faults>>
    /\ UNCHANGED linkVars /\ UNCHANGED clientVars

RelayAgentEvent ==
    /\ pass = "agents"
    /\ \E n \in Following(AgentRows, cursor) : cursor' = n /\ Publish(n)
    /\ UNCHANGED <<history, marked, published, pass, due, conn, hadError, faults>>
    /\ UNCHANGED clientVars

\* A pass that raises is rolled back: its rows are published again.
RelayFails ==
    /\ pass = "outbox" /\ faults < MaxFaults
    /\ pass' = "start" /\ due' = {} /\ published' = marked
    /\ faults' = faults + 1
    /\ UNCHANGED <<history, marked, cursor, missed>>
    /\ UNCHANGED linkVars /\ UNCHANGED clientVars

\* The queue goes with the API process, and with it, perhaps, the responses under way;
\* the agent cursor starts at zero.
ApiRestarts ==
    /\ faults < MaxFaults
    /\ faults' = faults + 1
    /\ pass' = "start" /\ due' = {} /\ published' = marked /\ cursor' = 0
    /\ queue' = <<>>
    /\ conn' = IF conn = "open" THEN "retrying" ELSE conn
    /\ hadError' = (hadError \/ conn = "open")
    /\ \E lost \in SUBSET acks : Unanswered(lost)
    /\ UNCHANGED <<history, marked, ring, buffer, page, cache>>

(***************************************************************************)
(* subscribeToEvents.                                                      *)
(***************************************************************************)
\* Not the code: a new connection starts with an empty store.
OpensFresh ==
    /\ conn # "open"
    /\ conn' = "open" /\ hadError' = FALSE
    /\ queue' = <<>> /\ ring' = <<>>
    /\ IF hadError THEN Invalidate(Query) /\ missed' = StillMissed(Query)
                   ELSE UNCHANGED <<cache, missed>>
    /\ UNCHANGED <<buffer, page, acks, faults>> /\ UNCHANGED serverVars

\* Not the code: onReconnect forgets to fetch again.
OpensQuietly ==
    /\ conn # "open"
    /\ conn' = "open" /\ hadError' = FALSE
    /\ queue' = <<>>
    /\ missed' = IF hadError THEN StillMissed(Query) ELSE missed
    /\ UNCHANGED <<ring, buffer, page, cache, acks, faults>> /\ UNCHANGED serverVars

\* onopen: after an error everything is fetched again (onReconnect), the first
\* time nothing is (onOpen).
Opens ==
    /\ conn # "open"
    /\ conn' = "open" /\ hadError' = FALSE
    /\ queue' = <<>>
    /\ IF hadError THEN Invalidate(Query) /\ missed' = StillMissed(Query)
                   ELSE UNCHANGED <<cache, missed>>
    /\ UNCHANGED <<ring, buffer, page, acks, faults>> /\ UNCHANGED serverVars

\* onerror: EventSource retries by itself, or gave up and is made anew.
Breaks ==
    /\ faults < MaxFaults
    /\ conn' = "retrying" /\ hadError' = TRUE
    /\ queue' = <<>>
    /\ faults' = faults + 1
    /\ UNCHANGED missed /\ UNCHANGED serverVars /\ UNCHANGED clientVars

\* onEvent: pushEvent lets an event through once, as long as its id is in the ring.
Delivered ==
    /\ conn = "open" /\ queue # <<>>
    /\ queue' = Tail(queue)
    /\ LET n == Head(queue)
       IN  IF n \in ToSet(ring)
           THEN UNCHANGED <<ring, buffer, cache, missed>>
           ELSE /\ ring' = (IF Len(ring) < RingSize THEN ring ELSE Tail(ring)) \o <<n>>
                /\ buffer' = Append(buffer, n)
                /\ Invalidate(Announces(history[n]))
                /\ missed' = StillMissed(Announces(history[n]))
    /\ UNCHANGED <<conn, hadError, page, acks, faults>> /\ UNCHANGED serverVars

(***************************************************************************)
(* The pages.                                                              *)
(***************************************************************************)
\* A query that comes on screen is fetched if it is unknown or stale.
Mounted(entry) ==
    IF (~entry.known \/ entry.stale) /\ entry.fetch = "idle"
    THEN [entry EXCEPT !.fetch = "asked"] ELSE entry

Navigate(p) ==
    /\ p # page
    /\ page' = p
    /\ cache' = [q \in Query |-> IF q \in Active(p) THEN Mounted(cache[q]) ELSE cache[q]]
    /\ UNCHANGED <<ring, buffer, acks, missed, faults>>
    /\ UNCHANGED linkVars /\ UNCHANGED serverVars

\* The server reads, and its reply lands later.
FetchReads(q) ==
    /\ cache[q].fetch = "asked"
    /\ cache' = [cache EXCEPT ![q].fetch = "read", ![q].reply = Truth(q)]
    /\ missed' = missed \ {q}
    /\ UNCHANGED <<ring, buffer, page, acks, faults>>
    /\ UNCHANGED linkVars /\ UNCHANGED serverVars

FetchLands(q) ==
    /\ cache[q].fetch = "read"
    /\ cache' = [cache EXCEPT ![q] = [known |-> TRUE, data |-> cache[q].reply, stale |-> FALSE,
                                      fetch |-> "idle", reply |-> 0]]
    /\ UNCHANGED <<ring, buffer, page, acks, missed, faults>>
    /\ UNCHANGED linkVars /\ UNCHANGED serverVars

\* A failed fetch leaves the query stale; the next mount, the resync button or the
\* window's focus fetches it again.
FetchFails(q) ==
    /\ cache[q].fetch = "asked" /\ faults < MaxFaults
    /\ faults' = faults + 1
    /\ cache' = [cache EXCEPT ![q].fetch = "idle", ![q].stale = TRUE]
    /\ UNCHANGED <<ring, buffer, page, acks, missed>>
    /\ UNCHANGED linkVars /\ UNCHANGED serverVars

Resync ==
    /\ Invalidate(Query)
    /\ cache' # cache
    /\ missed' = StillMissed(Query)
    /\ UNCHANGED <<ring, buffer, page, acks, faults>>
    /\ UNCHANGED linkVars /\ UNCHANGED serverVars

\* A command of this client, and its response.
Command(kind) ==
    /\ Len(history) < MaxWrites /\ acks = {}
    /\ history' = Append(history, kind)
    /\ acks' = {Len(history) + 1}
    /\ missed' = missed \cup (Query \cap (Touches(kind) \ (Announces(kind) \cup Refreshes(kind))))
    /\ UNCHANGED <<marked, published, pass, due, cursor, ring, buffer, page, cache, faults>>
    /\ UNCHANGED linkVars

Acknowledged(n) ==
    /\ acks' = acks \ {n}
    /\ Invalidate(Refreshes(history[n]))
    /\ missed' = StillMissed(Refreshes(history[n]))
    /\ UNCHANGED <<ring, buffer, page, faults>>
    /\ UNCHANGED linkVars /\ UNCHANGED serverVars

ResponseLost(n) ==
    /\ faults < MaxFaults
    /\ faults' = faults + 1
    /\ Unanswered({n})
    /\ UNCHANGED <<ring, buffer, page, cache>>
    /\ UNCHANGED linkVars /\ UNCHANGED serverVars

Empty == [known |-> FALSE, data |-> 0, stale |-> FALSE, fetch |-> "idle", reply |-> 0]
Init ==
    /\ history = <<>> /\ marked = 0 /\ published = 0 /\ cursor = 0
    /\ pass = "start" /\ due = {}
    /\ conn = "connecting" /\ hadError = FALSE /\ queue = <<>>
    /\ ring = <<>> /\ buffer = <<>> /\ page = "plan"
    /\ cache = [q \in Query |-> IF q \in Active("plan") THEN Mounted(Empty) ELSE Empty]
    /\ acks = {} /\ missed = {} /\ faults = 0

Next ==
    \/ \E kind \in Others : Write(kind)
    \/ RelayStarts \/ RelayRow \/ RelayCommits \/ RelayAgentEvent \/ RelayFails \/ ApiRestarts
    \/ Opens \/ Breaks
    \/ Delivered
    \/ \E p \in {"plan", "plans"} : Navigate(p)
    \/ \E q \in Query : FetchReads(q) \/ FetchLands(q) \/ FetchFails(q)
    \/ Resync
    \/ \E kind \in Own : Command(kind)
    \/ \E n \in acks : Acknowledged(n) \/ ResponseLost(n)

Spec == Init /\ [][Next]_vars

(***************************************************************************)
(* Properties.                                                             *)
(***************************************************************************)
\* The types; the queue and the ring keep to their limits.
TypeOK ==
    /\ history \in Seq(Kind) /\ Len(history) <= MaxWrites
    /\ marked \in 0..MaxWrites /\ published \in 0..MaxWrites /\ cursor \in 0..MaxWrites
    /\ pass \in {"start", "outbox", "agents"} /\ due \subseteq 1..MaxWrites
    /\ conn \in {"connecting", "open", "retrying"} /\ hadError \in BOOLEAN
    /\ Len(queue) <= QueueSize /\ Len(ring) <= RingSize
    /\ queue \in Seq(1..MaxWrites) /\ ring \in Seq(1..MaxWrites) /\ buffer \in Seq(1..MaxWrites)
    /\ page \in {"plan", "plans"}
    /\ cache \in [Query -> [known : BOOLEAN, data : 0..MaxWrites, stale : BOOLEAN,
                            fetch : {"idle", "asked", "read"}, reply : 0..MaxWrites]]
    /\ acks \subseteq 1..MaxWrites /\ missed \subseteq Query /\ faults \in 0..MaxFaults

\* What will invalidate q for the last write that touched it: an event not yet
\* published or on its way, or, where there is no event, a response under way.
Announced(q) ==
    \E n \in DOMAIN history :
        /\ Truth(q) <= n
        /\ \/ q \in Announces(history[n]) /\ n \in ToSet(queue)
           \/ q \in Announces(history[n]) /\ InOutbox(n) /\ published < n
           \/ q \in Announces(history[n]) /\ history[n] = "agent" /\ cursor < n
           \/ q \in Refreshes(history[n]) \ Announces(history[n]) /\ n \in acks

\* What is on screen is the truth, or it is known to be stale, or a fetch or an
\* announcement that will replace it is under way, or the change is one of those
\* that this client is not told of (see missed): a write without an event whose
\* response is lost or that is another's, an event that met a full queue, an
\* announcement that was used up by a fetch; and nothing has made up for it since, as
\* a reconnection does. No other is lost between the commit, the relay, the queue, the
\* ring, the responses and the fetches under way.
NoLostInvalidation ==
    conn = "open" =>
        \A q \in Query : cache[q].known =>
            \/ cache[q].data = Truth(q)
            \/ cache[q].stale
            \/ q \in missed
            \/ Announced(q)

\* Publishing comes before marking, passes are repeated and clients reconnect, so that
\* events arrive twice; the Activity view still lists each plan event once. (Not in the
\* order of commits: a client that missed the first row of a failed pass gets it from
\* the repetition, behind the rows it has already listed.)
ListedOnce ==
    \A i, j \in DOMAIN buffer :
        i # j /\ InOutbox(buffer[i]) => buffer[i] # buffer[j]
=============================================================================
