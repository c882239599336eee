------------------------- MODULE SignatureVersions --------------------------
(***************************************************************************)
(* The signature versions of the AV management API                         *)
(* (routers/signatures.py): POST /update fetches a rule archive from a     *)
(* feed and registers it as a row, GET / lists the rows, newest first.     *)
(*                                                                         *)
(* Requests are coroutines over one asyncpg pool and interleave at each    *)
(* await.  The feed is outside: it releases archives one after the other,  *)
(* serves the newest, and answers when it likes, if at all, for the read   *)
(* timeout bounds the gap between two chunks and not a response.  The      *)
(* API's wall clock is taken not to be set back.                           *)
(***************************************************************************)
EXTENDS Integers, FiniteSets

CONSTANTS
    Update,      \* POST /update calls: the bound on them
    Listing,     \* GET / calls: the bound on them
    Limit,       \* values of the parameter `limit', which nothing validates
    PoolSize,    \* max_size of the pool
    Attempts,    \* stop_after_attempt(3)
    MaxReleases  \* bound on what the feed releases

ASSUME SignatureAssumption ==
    /\ Limit \subseteq Int
    /\ PoolSize \in Nat \ {0} /\ Attempts \in Nat \ {0}
    /\ MaxReleases \in Nat

VARIABLES
    released,  \* the feed's newest release
    clock,     \* the latest released_at handed out
    rows,      \* signature_versions; version_id is drawn for an update
    update,    \* update[u]: where the handler of u is
    listing    \* listing[l]: where the handler of l is

vars == <<released, clock, rows, update, listing>>

Release == 0..MaxReleases
Row == [id: Update, released_at: Nat, content: Release]

\* `after', a history, is the updates accepted before the call came in.
Updating == [pc: {"idle", "fetch", "reply", "acquire", "insert", "done"},
             tried: Nat, content: Release, now: Nat,
             answer: {"none", "accepted", "refused", "bad_gateway",
                      "unreachable", "error"},
             after: SUBSET Update]
Asking == [pc: {"idle", "acquire", "select", "done"}, limit: Int,
           shown: SUBSET Row, answer: {"none", "ok", "error"},
           after: SUBSET Update]
NoUpdate == [pc |-> "idle", tried |-> 0, content |-> 0, now |-> 0,
             answer |-> "none", after |-> {}]
NoListing == [pc |-> "idle", limit |-> 0, shown |-> {}, answer |-> "none",
              after |-> {}]

Init ==
    /\ released = 0
    /\ clock = 0
    /\ rows = {}
    /\ update = [u \in Update |-> NoUpdate]
    /\ listing = [l \in Listing |-> NoListing]

-----------------------------------------------------------------------------
Accepted == {u \in Update : update[u].answer = "accepted"}
Selecting == {l \in Listing : listing[l].pc = "select"}

\* Mutant of Connected: pool.acquire() around the fetch.
ConnectedWhileFetching ==
    Selecting \cup {u \in Update : update[u].pc \in {"fetch", "reply", "insert"}}

Connected == Selecting \cup {u \in Update : update[u].pc = "insert"}

At(u, pc) == update[u].pc = pc
Goto(u, pc) == update' = [update EXCEPT ![u].pc = pc]
Answer(u, answer) ==
    update' = [update EXCEPT ![u].pc = "done", ![u].answer = answer]

\* The feed's owner publishes an archive.
Publish ==
    /\ released < MaxReleases
    /\ released' = released + 1
    /\ UNCHANGED <<clock, rows, update, listing>>

\* A feed_url that is not https is refused.
Arrive(u) ==
    /\ At(u, "idle")
    /\ \/ update' = [update EXCEPT ![u].pc = "fetch", ![u].after = Accepted]
       \/ Answer(u, "refused")
    /\ UNCHANGED <<released, clock, rows, listing>>

\* The feed answers an attempt with its newest archive.
Serve(u) ==
    /\ At(u, "fetch")
    /\ update' = [update EXCEPT ![u].pc = "reply", ![u].content = released]
    /\ UNCHANGED <<released, clock, rows, listing>>

\* Another try after a TransportError, while there are fewer than `max'.
FailedAttempt(u, max) ==
    /\ update[u].pc \in {"fetch", "reply"}
    /\ IF update[u].tried + 1 < max
       THEN update' = [update EXCEPT ![u].pc = "fetch", ![u].tried = @ + 1]
       ELSE Answer(u, "unreachable")
    /\ UNCHANGED <<released, clock, rows, listing>>

\* Mutant of TransportError: three retries instead of three attempts.
TransportErrorRetries(u) == FailedAttempt(u, Attempts + 1)

TransportError(u) == FailedAttempt(u, Attempts)

\* raise_for_status: not retried.
StatusError(u) ==
    /\ At(u, "fetch")
    /\ Answer(u, "bad_gateway")
    /\ UNCHANGED <<released, clock, rows, listing>>

\* The archive is there: the version gets its id and its time.
Stamp(u) ==
    /\ At(u, "reply")
    /\ clock' = clock + 1
    /\ update' = [update EXCEPT ![u].pc = "acquire", ![u].now = clock + 1]
    /\ UNCHANGED <<released, rows, listing>>

Acquire(u) ==
    /\ At(u, "acquire")
    /\ Cardinality(Connected) < PoolSize
    /\ Goto(u, "insert")
    /\ UNCHANGED <<released, clock, rows, listing>>

RowOf(u) == [id |-> u, released_at |-> update[u].now,
             content |-> update[u].content]

\* INSERT INTO signature_versions; its reply may be lost.
Insert(u) ==
    /\ At(u, "insert")
    /\ rows' = rows \cup {RowOf(u)}
    /\ Answer(u, "accepted") \/ Answer(u, "error")
    /\ UNCHANGED <<released, clock, listing>>

Unanswered(u) == update[u].pc \notin {"idle", "done"}

\* Mutant of Fail: the PostgresError is logged and no more.
FailLogged(u) ==
    /\ Unanswered(u)
    /\ Answer(u, IF At(u, "insert") THEN "accepted" ELSE "error")
    /\ UNCHANGED <<released, clock, rows, listing>>

\* Any other error before the row is written: a body that does not decode,
\* no connection, a statement that fails, this process killed.
Fail(u) ==
    /\ Unanswered(u)
    /\ Answer(u, "error")
    /\ UNCHANGED <<released, clock, rows, listing>>

-----------------------------------------------------------------------------
Ask(l, limit) ==
    /\ listing[l].pc = "idle"
    /\ listing' = [listing EXCEPT ![l].pc = "acquire", ![l].limit = limit,
                                  ![l].after = Accepted]
    /\ UNCHANGED <<released, clock, rows, update>>

ListAcquire(l) ==
    /\ listing[l].pc = "acquire"
    /\ Cardinality(Connected) < PoolSize
    /\ listing' = [listing EXCEPT ![l].pc = "select"]
    /\ UNCHANGED <<released, clock, rows, update>>

\* Mutant of Newest: ORDER BY released_at.
Oldest(limit) ==
    {r \in rows : Cardinality({s \in rows : s.released_at < r.released_at})
                     < limit}

\* ORDER BY released_at DESC LIMIT: the order is that of released_at.
Newest(limit) ==
    {r \in rows : Cardinality({s \in rows : s.released_at > r.released_at})
                     < limit}

Shown(l, shown, answer) ==
    /\ listing' = [listing EXCEPT ![l].pc = "done", ![l].shown = shown,
                                  ![l].answer = answer]
    /\ UNCHANGED <<released, clock, rows, update>>

\* PostgreSQL refuses a negative LIMIT.
ListSelect(l) ==
    /\ listing[l].pc = "select"
    /\ LET limit == listing[l].limit
       IN  IF limit < 0 THEN Shown(l, {}, "error")
           ELSE Shown(l, Newest(limit), "ok")

ListFail(l) ==
    /\ listing[l].pc \in {"acquire", "select"}
    /\ Shown(l, {}, "error")

-----------------------------------------------------------------------------
Database(u) == Acquire(u) \/ Insert(u)
Read(l) == ListAcquire(l) \/ ListSelect(l)

Next ==
    \/ Publish
    \/ \E u \in Update : \/ Arrive(u) \/ Serve(u) \/ TransportError(u)
                         \/ StatusError(u) \/ Stamp(u) \/ Database(u) \/ Fail(u)
    \/ \E l \in Listing : \/ \E limit \in Limit : Ask(l, limit)
                          \/ Read(l) \/ ListFail(l)

Spec == Init /\ [][Next]_vars

(* The pool hands a free connection to a waiter, and command_timeout ends  *)
(* a statement; nothing makes a feed answer.                               *)
Fairness ==
    /\ \A u \in Update : WF_vars(Database(u))
    /\ \A l \in Listing : WF_vars(Read(l))

FairSpec == Spec /\ Fairness

-----------------------------------------------------------------------------
TypeOK ==
    /\ released \in Release
    /\ clock \in Nat
    /\ rows \subseteq Row
    /\ update \in [Update -> Updating]
    /\ \A u \in Update : update[u].tried < Attempts
    /\ listing \in [Listing -> Asking]

(* A 202 means a row with the archive the feed served, no row comes of an  *)
(* update answered 422, 502 or 504, and a 500 says neither               *)
(* (signatures.py:206-233).                                                *)
RowsMatchAnswers ==
    /\ \A u \in Accepted : RowOf(u) \in rows
    /\ \A r \in rows : /\ update[r.id].answer \in {"accepted", "error"}
                       /\ r = RowOf(r.id)

(* "List available signature versions, most recent first"                  *)
(* (signatures.py:118), although released_at is taken after the fetch and  *)
(* before the wait for a connection (signatures.py:204): whoever asks      *)
(* after an update was accepted finds it, or one registered after it, on   *)
(* top; and what is on top is an older archive than it only if the two     *)
(* updates overlapped.                                                     *)
LatestNotStale ==
    \A l \in Listing : listing[l].answer = "ok" /\ listing[l].limit > 0 =>
       \A a \in listing[l].after :
          \E top \in listing[l].shown :
             /\ \A r \in listing[l].shown : r.released_at <= top.released_at
             /\ top.released_at >= update[a].now
             /\ \/ top.content >= update[a].content
                \/ a \notin update[top.id].after

(* No connection is held during a fetch: a feed that never answers, or     *)
(* dribbles for ever, keeps neither the listings nor the other updates     *)
(* from their answers, however small the pool.                             *)
FeedsDelayNobody ==
    /\ \A l \in Listing : listing[l].pc = "acquire" ~> listing[l].pc = "done"
    /\ \A u \in Update : At(u, "acquire") ~> At(u, "done")
=============================================================================
