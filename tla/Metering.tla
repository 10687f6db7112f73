------------------------------ MODULE Metering ------------------------------
(***************************************************************************)
(* Traffic on its way from the gateway to the bill (internal/metering):    *)
(* the meter's open buckets, one per workload and minute, the connections  *)
(* that were hijacked for WebSockets, and the reporter that drains them    *)
(* every minute into an outbox and posts that to the website in batches.   *)
(*                                                                         *)
(* Units stand for traffic: a finished request with its bytes, or bytes    *)
(* carried by an open connection.  Counters are modelled by the set of     *)
(* units counted in them, so that a unit that was lost, or that is in two  *)
(* places, shows.  The website is external: it adds up the aggregates it   *)
(* takes and ignores those whose id it has seen.                           *)
(***************************************************************************)
EXTENDS Integers, Sequences, FiniteSets, Functions

CONSTANTS
    Units,       \* traffic; each unit is recorded at most once
    Requests,    \* the units that are requests; the others are bytes of connections
    Workloads,
    Conns,       \* hijacked connections
    Owner,       \* the workload of each
    MaxBatch,    \* aggregates in one request
    MaxPending,  \* aggregates the outbox keeps
    Buffer,      \* minutes it keeps them for
    LastMinute   \* bound on the clock

ASSUME MeteringAssumption ==
    /\ Owner \in [Conns -> Workloads] /\ Requests \subseteq Units
    /\ MaxBatch \in Nat \ {0} /\ MaxPending \in Nat \ {0}
    /\ Buffer \in Nat \ {0} /\ LastMinute \in Nat \ {0}

VARIABLES
    minute,    \* the clock
    recorded,  \* history: the traffic there has been
    finished,  \* history: the requests among it, each with its minute and workload
    adding,    \* counts on their way into a bucket, their minute already read
    conn,      \* each connection: "new", "live" (tracked) or "closed"
    carried,   \* the connections' counters
    buckets,   \* the meter's buckets, by minute and workload
    at,        \* where the reporter's goroutine is
    limit,     \* Drain's: buckets before this minute are taken
    shards,    \* Drain's: workloads whose shard it has still to visit
    drained,   \* Drain's result
    outbox,    \* aggregates waiting to be sent, oldest first
    ids,       \* how many aggregate ids were made
    backoff,   \* nextTry: "none", "waiting" (in the future) or "due" (past)
    woken,     \* the minute the reporter last woke in
    target,    \* the settings name a URL to report to
    stopping,  \* ctx is cancelled: orchd is shutting down
    accepted,  \* the website's aggregates
    sent, dropped, discarded \* what the reporter has counted as sent, as
                             \* dropped, and thrown away while it had no target

meter    == <<adding, conn, carried, buckets>>
drain    == <<limit, shards, drained>>
filing   == <<outbox, ids, sent, dropped, discarded>>
reporter == <<at, backoff, woken, drain, filing>>
world    == <<minute, recorded, finished, target, stopping, accepted>>
vars     == <<meter, reporter, world>>

---------------------------------------------------------------------------
Minutes    == 0..LastMinute
Counts     == [minute : Minutes, workload : Workloads, units : SUBSET Units]
Aggregates == [id : Nat, minute : Minutes, workload : Workloads, units : SUBSET Units]

MeterOK ==
    /\ adding \subseteq Counts
    /\ conn \in [Conns -> {"new", "live", "closed"}]
    /\ carried \in [Conns -> SUBSET Units]
    /\ buckets \in [Minutes \X Workloads -> SUBSET Units]

DrainOK ==
    /\ limit \in 0..(LastMinute + 1)
    /\ shards \subseteq Workloads
    /\ drained \subseteq Counts

FilingOK ==
    /\ outbox \in Seq(Aggregates) /\ Len(outbox) <= MaxPending
    /\ ids \in Nat
    /\ sent \subseteq Aggregates /\ dropped \subseteq Aggregates
    /\ discarded \subseteq Counts

WorldOK ==
    /\ minute \in 1..LastMinute
    /\ recorded \subseteq Units /\ finished \subseteq Counts
    /\ target \in BOOLEAN /\ stopping \in BOOLEAN
    /\ accepted \subseteq Aggregates

TypeOK ==
    /\ MeterOK /\ DrainOK /\ FilingOK /\ WorldOK
    /\ at \in {"sleep", "conns", "shards", "collect", "begin", "send", "stopped"}
    /\ backoff \in {"none", "waiting", "due"}
    /\ woken \in Minutes

Init ==
    /\ minute = 1 /\ woken = 1
    /\ recorded = {} /\ finished = {} /\ adding = {}
    /\ conn = [c \in Conns |-> "new"]
    /\ carried = [c \in Conns |-> {}]
    /\ buckets = [k \in Minutes \X Workloads |-> {}]
    /\ at = "sleep"
    /\ limit = 0 /\ shards = {} /\ drained = {}
    /\ outbox = <<>> /\ ids = 0
    /\ backoff = "none"
    /\ target \in BOOLEAN /\ stopping = FALSE
    /\ accepted = {} /\ sent = {} /\ dropped = {} /\ discarded = {}

---------------------------------------------------------------------------
\* The meter, on the gateway's goroutines.

New(S) == CHOOSE u \in S : u \notin recorded

\* Record: a request has finished; the minute is read before the bucket's lock.
Finish(w) ==
    /\ Requests \ recorded # {}
    /\ recorded' = recorded \cup {New(Requests)}
    /\ LET x == [minute |-> minute, workload |-> w, units |-> {New(Requests)}] IN
          adding' = adding \cup {x} /\ finished' = finished \cup {x}
    /\ UNCHANGED <<conn, carried, buckets, reporter, minute, target, stopping, accepted>>

\* The locked half of Meter.add
Add(x) ==
    /\ x \in adding
    /\ adding' = adding \ {x}
    /\ buckets' = [buckets EXCEPT ![<<x.minute, x.workload>>] = @ \cup x.units]
    /\ UNCHANGED <<conn, carried, reporter, world>>

Track(c) ==
    /\ conn[c] = "new"
    /\ conn' = [conn EXCEPT ![c] = "live"]
    /\ UNCHANGED <<adding, carried, buckets, reporter, world>>

\* Bytes read or written are counted after the fact: a copy that was under way
\* when the connection was closed still adds to its counter.
Carry(c) ==
    /\ conn[c] # "new"
    /\ (Units \ Requests) \ recorded # {}
    /\ recorded' = recorded \cup {New(Units \ Requests)}
    /\ carried' = [carried EXCEPT ![c] = @ \cup {New(Units \ Requests)}]
    /\ UNCHANGED <<adding, conn, buckets, reporter, minute, finished, target, stopping, accepted>>

\* untrack, once: what was carried since the last drain, at the current minute.
Untrack(c) ==
    /\ conn[c] = "live"
    /\ conn' = [conn EXCEPT ![c] = "closed"]
    /\ carried' = [carried EXCEPT ![c] = {}]
    /\ adding' = IF carried[c] = {} THEN adding
                 ELSE adding \cup {[minute |-> minute, workload |-> Owner[c],
                                    units |-> carried[c]]}
    /\ UNCHANGED <<buckets, reporter, world>>

---------------------------------------------------------------------------
\* The reporter's loop.

Final == limit = LastMinute + 1    \* Drain's zero time: everything is taken

\* The timer: just after the next boundary, or at nextTry if that is earlier.
\* (The last minute stands for those that follow it, too.)
Wake ==
    /\ at = "sleep"
    /\ minute > woken \/ minute = LastMinute \/ (backoff = "due" /\ outbox # <<>>)
    /\ at' = "conns"
    /\ limit' = minute
    /\ woken' = minute
    /\ UNCHANGED <<meter, backoff, shards, drained, filing, world>>

\* ctx.Done(): drain everything, make one last attempt.
Flush ==
    /\ at = "sleep" /\ stopping
    /\ at' = "conns"
    /\ limit' = LastMinute + 1
    /\ UNCHANGED <<meter, backoff, woken, shards, drained, filing, world>>

\* Drain's first half: what open connections carried goes into the minute just
\* ended, at shutdown into the current one.
DrainConns ==
    LET m == IF Final THEN minute ELSE minute - 1
        Live(w) == {c \in Conns : conn[c] = "live" /\ Owner[c] = w} IN
    /\ at = "conns"
    /\ buckets' = [k \in Minutes \X Workloads |->
                      IF k[1] = m THEN buckets[k] \cup UNION {carried[c] : c \in Live(k[2])}
                      ELSE buckets[k]]
    /\ carried' = [c \in Conns |-> IF conn[c] = "live" THEN {} ELSE carried[c]]
    /\ at' = "shards"
    /\ shards' = Workloads
    /\ UNCHANGED <<adding, conn, backoff, woken, limit, drained, filing, world>>

\* Mutant: the minute that is not over is taken too.
DrainShardOpen(w) ==
    LET Taken == {m \in Minutes : m <= limit /\ buckets[<<m, w>>] # {}} IN
    /\ at = "shards" /\ w \in shards
    /\ drained' = drained \cup
          {[minute |-> m, workload |-> w, units |-> buckets[<<m, w>>]] : m \in Taken}
    /\ buckets' = [k \in Minutes \X Workloads |->
                      IF k[2] = w /\ k[1] <= limit THEN {} ELSE buckets[k]]
    /\ shards' = shards \ {w}
    /\ at' = IF shards' = {} THEN "collect" ELSE at
    /\ UNCHANGED <<adding, conn, carried, backoff, woken, limit, filing, world>>

\* Mutant: the shard is emptied, not only of what was taken.
DrainShardClears(w) ==
    LET Taken == {m \in Minutes : m < limit /\ buckets[<<m, w>>] # {}} IN
    /\ at = "shards" /\ w \in shards
    /\ drained' = drained \cup
          {[minute |-> m, workload |-> w, units |-> buckets[<<m, w>>]] : m \in Taken}
    /\ buckets' = [k \in Minutes \X Workloads |-> IF k[2] = w THEN {} ELSE buckets[k]]
    /\ shards' = shards \ {w}
    /\ at' = IF shards' = {} THEN "collect" ELSE at
    /\ UNCHANGED <<adding, conn, carried, backoff, woken, limit, filing, world>>

\* Its second half, one shard's lock at a time.
DrainShard(w) ==
    LET Taken == {m \in Minutes : m < limit /\ buckets[<<m, w>>] # {}} IN
    /\ at = "shards" /\ w \in shards
    /\ drained' = drained \cup
          {[minute |-> m, workload |-> w, units |-> buckets[<<m, w>>]] : m \in Taken}
    /\ buckets' = [k \in Minutes \X Workloads |->
                      IF k[2] = w /\ k[1] < limit THEN {} ELSE buckets[k]]
    /\ shards' = shards \ {w}
    /\ at' = IF shards' = {} THEN "collect" ELSE at
    /\ UNCHANGED <<adding, conn, carried, backoff, woken, limit, filing, world>>

\* The order buckets come out of a map in is any.
Orders(S) == Bijection(1..Cardinality(S), S)

\* newUUID gives every aggregate an id of its own.
Aggregate(b, i) ==
    [id |-> ids + i, minute |-> b.minute, workload |-> b.workload, units |-> b.units]

\* a.Minute is before now - Buffer; the reporter wakes after a minute's start.
TooOld(a) == a.minute + Buffer <= minute

\* Mutant: off by one.
SurplusOffByOne(n) == n > MaxPending + 1

Surplus(n) == n > MaxPending

\* pruneLocked stops at the first aggregate it may keep.
Dropped(q) ==
    CHOOSE d \in 0..Len(q) :
        /\ \A i \in 1..d : TooOld(q[i]) \/ Surplus(Len(q) - i + 1)
        /\ d < Len(q) => ~TooOld(q[d + 1]) /\ ~Surplus(Len(q) - d)

\* Without a target the drained minutes are discarded, and nothing is pruned.
CollectOff ==
    /\ at = "collect" /\ ~target
    /\ discarded' = discarded \cup drained
    /\ drained' = {}
    /\ at' = "begin"
    /\ UNCHANGED <<meter, backoff, woken, limit, shards, outbox, ids, sent, dropped, world>>

Collect ==
    /\ at = "collect" /\ target
    /\ \E order \in Orders(drained) :
          LET q == outbox \o [i \in DOMAIN order |-> Aggregate(order[i], i)]
              d == Dropped(q) IN
          /\ outbox' = SubSeq(q, d + 1, Len(q))
          /\ dropped' = dropped \cup Range(SubSeq(q, 1, d))
    /\ ids' = ids + Cardinality(drained)
    /\ drained' = {}
    /\ at' = "begin"
    /\ UNCHANGED <<meter, backoff, woken, limit, shards, sent, discarded, world>>

---------------------------------------------------------------------------
\* send

Asleep == IF Final THEN "stopped" ELSE "sleep"

\* The target is read once, before the first batch.
SendBegin ==
    /\ at = "begin"
    /\ at' = IF target THEN "send" ELSE Asleep
    /\ UNCHANGED <<meter, backoff, woken, drain, filing, world>>

\* Mutant: a failure keeps the reporter waiting for ever.
MayPostFirstOnly == outbox # <<>> /\ (Final \/ backoff = "none")

MayPost == outbox # <<>> /\ (Final \/ backoff # "waiting")

SendEnd ==
    /\ at = "send" /\ ~MayPost
    /\ at' = Asleep
    /\ UNCHANGED <<meter, backoff, woken, drain, filing, world>>

BatchLen == IF Len(outbox) < MaxBatch THEN Len(outbox) ELSE MaxBatch
Batch    == SubSeq(outbox, 1, BatchLen)
Rest     == SubSeq(outbox, BatchLen + 1, Len(outbox))

\* The request gets out: the last attempt has a context of its own.
Connected == Final \/ ~stopping

Posted ==
    /\ at = "send" /\ MayPost /\ Connected
    /\ accepted' = accepted \cup Range(Batch)
    /\ sent' = sent \cup Range(Batch)
    /\ outbox' = Rest
    /\ backoff' = "none"
    /\ UNCHANGED <<meter, at, woken, drain, ids, dropped, discarded,
                   minute, recorded, finished, target, stopping>>

\* 400: "the website rejects the whole request and a retry would only be refused again"
Refused ==
    /\ at = "send" /\ MayPost /\ Connected
    /\ dropped' = dropped \cup Range(Batch)
    /\ outbox' = Rest
    /\ backoff' = "none"
    /\ UNCHANGED <<meter, at, woken, drain, ids, sent, discarded, world>>

\* Mutant: every attempt sends new ids.
PostFailedNewIds ==
    /\ at = "send" /\ MayPost
    /\ accepted' \in {accepted} \cup (IF Connected THEN {accepted \cup Range(Batch)} ELSE {})
    /\ outbox' = [i \in DOMAIN outbox |-> [outbox[i] EXCEPT !.id = ids + i]]
    /\ ids' = ids + Len(outbox)
    /\ backoff' = "waiting"
    /\ at' = Asleep
    /\ UNCHANGED <<meter, woken, drain, sent, dropped, discarded,
                   minute, recorded, finished, target, stopping>>

\* No answer, or another status: the website may have taken the batch all the
\* same.  It is kept, ids and all.
PostFailed ==
    /\ at = "send" /\ MayPost
    /\ accepted' \in {accepted} \cup (IF Connected THEN {accepted \cup Range(Batch)} ELSE {})
    /\ backoff' = "waiting"
    /\ at' = Asleep
    /\ UNCHANGED <<meter, woken, drain, filing, minute, recorded, finished, target, stopping>>

---------------------------------------------------------------------------
\* Time, settings and shutdown.

Tick ==
    /\ minute < LastMinute
    /\ minute' = minute + 1
    /\ UNCHANGED <<meter, reporter, recorded, finished, target, stopping, accepted>>

RetryDue ==
    /\ backoff = "waiting"
    /\ backoff' = "due"
    /\ UNCHANGED <<meter, at, woken, drain, filing, world>>

SetTarget ==
    /\ target' = ~target
    /\ UNCHANGED <<meter, reporter, minute, recorded, finished, stopping, accepted>>

Shutdown ==
    /\ ~stopping /\ stopping' = TRUE
    /\ UNCHANGED <<meter, reporter, minute, recorded, finished, target, accepted>>

---------------------------------------------------------------------------
Loop ==
    \/ Wake \/ Flush \/ DrainConns \/ CollectOff \/ Collect
    \/ SendBegin \/ SendEnd \/ PostFailed
    \/ \E w \in Workloads : DrainShard(w)

Answered == Posted \/ Refused

Next ==
    \/ \E w \in Workloads : Finish(w)
    \/ \E x \in adding : Add(x)
    \/ \E c \in Conns : Track(c) \/ Carry(c) \/ Untrack(c)
    \/ Loop \/ Answered
    \/ Tick \/ RetryDue \/ SetTarget \/ Shutdown

Spec == Init /\ [][Next]_vars

(***************************************************************************)
(* Fairness: the reporter's goroutine goes on, time passes, a backoff runs *)
(* out, and a website that is asked again and again answers some time      *)
(* (strong).                                                               *)
(***************************************************************************)
FairSpec == Spec /\ WF_vars(Loop) /\ WF_vars(Tick) /\ WF_vars(RetryDue) /\ SF_vars(Answered)

---------------------------------------------------------------------------
\* Properties.

Filed  == Range(outbox) \cup sent \cup dropped
Pieces == adding \cup drained \cup discarded \cup Filed
Kept   == (UNION {p.units : p \in Pieces}) \cup (UNION {carried[c] : c \in Conns})
          \cup (UNION {buckets[k] : k \in Minutes \X Workloads})

\* No traffic is lost between the gateway and the reporter's books, however
\* records, drains, closing connections and sends interleave: what was recorded
\* is in a connection's counter, on its way to a bucket, in a bucket, drained,
\* in the outbox, sent, or counted as dropped or discarded.  (Bytes counted
\* after their connection was closed stay in its counter for good.)
NothingLost == recorded = Kept

\* No traffic is billed twice, though a batch whose answer was lost is sent
\* again: the aggregates the website has taken have different ids and share no
\* traffic (collect's newUUID, send's retry).
BilledOnce ==
    \A a, b \in accepted : a # b => a.id # b.id /\ a.units \cap b.units = {}

\* A request is billed to its workload, for the minute it finished in, and only when
\* that minute is over (the last drain of a shutdown aside): whatever time passes
\* between its record, its bucket's lock, the drain and the retries, and also when the
\* reporter wakes in the middle of a minute.
BilledInTime ==
    \A a \in accepted :
        /\ a.minute < minute \/ Final
        /\ \A f \in finished : f.units \subseteq a.units =>
              f.minute = a.minute /\ f.workload = a.workload

\* While there is a target and orchd runs, a failing website only delays: the
\* outbox gets empty again and again.
OutboxEmpties == []<>(outbox = <<>> \/ ~target \/ stopping)
=============================================================================
