---------------------- MODULE SignatureVersionsProofs -----------------------
(***************************************************************************)
(* Proofs about the signature versions: the answers of the updates are     *)
(* true of the rows, and no listing begun after an update was accepted     *)
(* puts an older archive on top, for any number of updates and listings.   *)
(***************************************************************************)
EXTENDS SignatureVersions, FiniteSetTheorems, TLAPS

\* Where the handler is tells whether it has a time and an answer.
Place(c) ==
    /\ c.pc \in {"idle", "fetch", "reply"} => c.now = 0
    /\ c.pc \in {"acquire", "insert"} => c.now > 0
    /\ c.pc # "done" => c.answer = "none"
    /\ c.answer = "accepted" => c.now > 0

\* Times and contents have been handed out.
Stamps ==
    \A u \in Update : /\ Place(update[u])
                      /\ update[u].now <= clock
                      /\ update[u].content <= released

\* A step of u's handler makes its record c.
Becomes(u, c) ==
    /\ update' = [update EXCEPT ![u] = c]
    /\ UNCHANGED <<released, listing>>

\* What such a step may do to the record, the clock and the rows.
Effect(u, c) ==
    LET o == update[u]
    IN  /\ o.pc # "done" /\ c.pc # "idle"
        /\ c.tried < Attempts
        /\ Place(c)
        /\ \/ c.after = o.after
           \/ o.pc = "idle" /\ c.after = Accepted
        /\ \/ c.now = o.now /\ clock' = clock
           \/ o.pc = "reply" /\ c.now = clock + 1 /\ clock' = clock + 1
        /\ IF c.pc = "reply" THEN o.pc = "fetch" /\ c.content = released
           ELSE c.content = o.content
        /\ c.now > 0 /\ o.now = 0 => o.pc = "reply"
        /\ \/ rows' = rows /\ c.answer # "accepted"
           \/ /\ rows' = rows \cup {RowOf(u)}
              /\ o.pc = "insert" /\ c.pc = "done"
              /\ c.answer \in {"accepted", "error"}
              /\ c.now = o.now /\ c.after = o.after

UpdateAction(u) ==
    \/ Arrive(u) \/ Serve(u) \/ TransportError(u) \/ StatusError(u)
    \/ Stamp(u) \/ Acquire(u) \/ Insert(u) \/ Fail(u)

ListingAction(l) ==
    \/ \E limit \in Limit : Ask(l, limit)
    \/ ListAcquire(l) \/ ListSelect(l) \/ ListFail(l)

-----------------------------------------------------------------------------
\* A call comes in after updates that were accepted.
Past ==
    /\ \A u \in Update : update[u].after \subseteq Accepted
    /\ \A l \in Listing : listing[l].after \subseteq Accepted

\* An update fetches an archive no older than those registered before it.
Order ==
    \A u \in Update :
       update[u].now > 0 \/ update[u].pc = "reply" =>
          \A a \in update[u].after : update[u].content >= update[a].content

\* There is a newest row, and what was shown stays in the table.
Latest(top) == \A r \in rows : r.released_at <= top.released_at
Topped == rows # {} => \E top \in rows : Latest(top)
ShownRows == \A l \in Listing : listing[l].shown \subseteq rows

\* Until it is over a listing has shown nothing.
Blank ==
    \A l \in Listing : listing[l].pc # "done" =>
       listing[l].answer = "none" /\ listing[l].shown = {}

IInv ==
    /\ TypeOK /\ Stamps /\ Past /\ Order /\ Topped /\ ShownRows /\ Blank
    /\ RowsMatchAnswers /\ LatestNotStale

LEMMA NextCases ==
    ASSUME [Next]_vars
    PROVE  \/ Publish \/ UNCHANGED vars
           \/ \E u \in Update : UpdateAction(u)
           \/ \E l \in Listing : ListingAction(l)
BY DEF Next, UpdateAction, ListingAction, Database, Read

-----------------------------------------------------------------------------
\* What the fields of an update's record hold.
LEMMA Fields ==
    ASSUME NEW o \in Updating
    PROVE  /\ o.pc \in {"idle", "fetch", "reply", "acquire", "insert", "done"}
           /\ o.tried \in Nat /\ o.content \in Release /\ o.now \in Nat
           /\ o.answer \in {"none", "accepted", "refused", "bad_gateway",
                            "unreachable", "error"}
           /\ o.after \subseteq Update
BY DEF Updating

\* Ending a call.
LEMMA AnswerEffect ==
    ASSUME TypeOK, Stamps, NEW u \in Update, update[u].pc # "done",
           NEW said \in {"refused", "bad_gateway", "unreachable", "error"},
           Answer(u, said), UNCHANGED <<released, clock, rows, listing>>
    PROVE  \E c \in Updating : Becomes(u, c) /\ Effect(u, c)
<1>7. PICK c : c = [update[u] EXCEPT !.pc = "done", !.answer = said]
  OBVIOUS
<1>1. update[u] \in Updating /\ clock \in Nat /\ update[u].tried < Attempts
  BY DEF TypeOK
<1>2. c \in Updating
  BY <1>7, <1>1 DEF Updating
<1>3. Becomes(u, c)
  BY <1>7 DEF Becomes, Answer
<1>4. /\ c.pc = "done" /\ c.answer = said /\ c.now = update[u].now
      /\ c.content = update[u].content /\ c.after = update[u].after
      /\ c.tried = update[u].tried
  BY <1>7, <1>1 DEF Updating
<1>5. Effect(u, c)
  BY <1>1, <1>2, <1>4, Fields DEF Effect, Place
<1>6. QED
  BY <1>2, <1>3, <1>5

LEMMA UpdateEffect ==
    ASSUME TypeOK, Stamps, NEW u \in Update, UpdateAction(u)
    PROVE  \E c \in Updating : Becomes(u, c) /\ Effect(u, c)
<1>1. /\ update[u] \in Updating /\ Place(update[u])
      /\ clock \in Nat /\ released \in Release /\ update[u].tried < Attempts
  BY DEF TypeOK, Stamps
<1>2. /\ update[u].tried \in Nat /\ update[u].now \in Nat
      /\ update[u].after \subseteq Update
  BY <1>1, Fields
<1>3. CASE Arrive(u)
  <2>1. CASE update' = [update EXCEPT ![u].pc = "fetch", ![u].after = Accepted]
    <3>7. PICK c : c = [update[u] EXCEPT !.pc = "fetch", !.after = Accepted]
      OBVIOUS
    <3>1. c \in Updating
      BY <3>7, <1>1, <1>2, <2>1 DEF Updating, Accepted
    <3>2. Becomes(u, c)
      BY <3>7, <1>3, <2>1 DEF Becomes, Arrive
    <3>3. /\ c.pc = "fetch" /\ c.answer = update[u].answer
          /\ c.now = update[u].now /\ c.content = update[u].content
          /\ c.after = Accepted
          /\ c.tried = update[u].tried
      BY <3>7, <1>1 DEF Updating
    <3>4. Effect(u, c)
      BY <1>1, <1>2, <1>3, <3>1, <3>3, Fields DEF Effect, Place, Arrive, At
    <3>5. QED
      BY <3>1, <3>2, <3>4
  <2>2. QED
    BY <1>3, <2>1, AnswerEffect DEF Arrive, At
<1>4. CASE Serve(u)
  <2>7. PICK c : c = [update[u] EXCEPT !.pc = "reply", !.content = released]
    OBVIOUS
  <2>1. c \in Updating
    BY <2>7, <1>1, <1>2 DEF Updating
  <2>2. Becomes(u, c)
    BY <2>7, <1>4 DEF Becomes, Serve
  <2>3. /\ c.pc = "reply" /\ c.answer = update[u].answer
        /\ c.now = update[u].now /\ c.content = released
        /\ c.after = update[u].after
        /\ c.tried = update[u].tried
    BY <2>7, <1>1 DEF Updating
  <2>4. Effect(u, c)
    BY <1>1, <1>2, <1>4, <2>1, <2>3, Fields DEF Effect, Place, Serve, At
  <2>5. QED
    BY <2>1, <2>2, <2>4
<1>5. CASE TransportError(u)
  <2>1. CASE update[u].tried + 1 < Attempts
    <3> DEFINE next == update[u].tried + 1
    <3>6. next \in Nat
      BY <1>2
    <3> HIDE DEF next
    <3>7. PICK c : c = [update[u] EXCEPT !.pc = "fetch", !.tried = next]
      OBVIOUS
    <3>1. c \in Updating
      BY <3>7, <1>1, <1>2, <2>1, <3>6 DEF Updating
    <3>2. Becomes(u, c)
      BY <3>7, <1>5, <2>1 DEF next, Becomes, TransportError, FailedAttempt
    <3>3. /\ c.pc = "fetch" /\ c.answer = update[u].answer
          /\ c.now = update[u].now /\ c.content = update[u].content
          /\ c.after = update[u].after
          /\ c.tried = next
      BY <3>7, <1>1 DEF Updating
    <3>4. Effect(u, c)
      BY <1>1, <1>2, <1>5, <2>1, <3>1, <3>3, Fields
         DEF next, Effect, Place, TransportError, FailedAttempt
    <3>5. QED
      BY <3>1, <3>2, <3>4
  <2>2. QED
    BY <1>5, <2>1, AnswerEffect DEF TransportError, FailedAttempt
<1>6. CASE StatusError(u)
  BY <1>6, AnswerEffect DEF StatusError, At
<1>7. CASE Stamp(u)
  <2> DEFINE next == clock + 1
  <2>6. next \in Nat
    BY <1>1
  <2> HIDE DEF next
  <2>7. PICK c : c = [update[u] EXCEPT !.pc = "acquire", !.now = next]
    OBVIOUS
  <2>1. c \in Updating
    BY <2>7, <1>1, <1>2, <2>6 DEF Updating
  <2>2. Becomes(u, c)
    BY <2>7, <1>7 DEF next, Becomes, Stamp
  <2>3. /\ c.pc = "acquire" /\ c.answer = update[u].answer
        /\ c.now = next /\ c.content = update[u].content
        /\ c.after = update[u].after
        /\ c.tried = update[u].tried
    BY <2>7, <1>1 DEF Updating
  <2>4. Effect(u, c)
    BY <1>1, <1>2, <1>7, <2>1, <2>3, Fields DEF next, Effect, Place, Stamp, At
  <2>5. QED
    BY <2>1, <2>2, <2>4
<1>8. CASE Acquire(u)
  <2>7. PICK c : c = [update[u] EXCEPT !.pc = "insert"]
    OBVIOUS
  <2>1. c \in Updating
    BY <2>7, <1>1, <1>2 DEF Updating
  <2>2. Becomes(u, c)
    BY <2>7, <1>8 DEF Becomes, Acquire, Goto
  <2>3. /\ c.pc = "insert" /\ c.answer = update[u].answer
        /\ c.now = update[u].now /\ c.content = update[u].content
        /\ c.after = update[u].after
        /\ c.tried = update[u].tried
    BY <2>7, <1>1 DEF Updating
  <2>4. Effect(u, c)
    BY <1>1, <1>2, <1>8, <2>1, <2>3, Fields DEF Effect, Place, Acquire, At
  <2>5. QED
    BY <2>1, <2>2, <2>4
<1>9. CASE Insert(u)
  <2>0. PICK said \in {"accepted", "error"} : Answer(u, said)
    BY <1>9 DEF Insert
  <2>7. PICK c : c = [update[u] EXCEPT !.pc = "done", !.answer = said]
    OBVIOUS
  <2>1. c \in Updating
    BY <2>7, <1>1, <1>2, <2>0 DEF Updating
  <2>2. Becomes(u, c)
    BY <2>7, <1>9, <2>0 DEF Becomes, Insert, Answer
  <2>3. /\ c.pc = "done" /\ c.answer = said
        /\ c.now = update[u].now /\ c.content = update[u].content
        /\ c.after = update[u].after
        /\ c.tried = update[u].tried
    BY <2>7, <1>1 DEF Updating
  <2>4. Effect(u, c)
    BY <1>1, <1>2, <1>9, <2>1, <2>3, Fields DEF Effect, Place, Insert, At
  <2>5. QED
    BY <2>1, <2>2, <2>4
<1>10. CASE Fail(u)
  BY <1>10, AnswerEffect DEF Fail, Unanswered
<1>11. QED
  BY <1>3, <1>4, <1>5, <1>6, <1>7, <1>8, <1>9, <1>10 DEF UpdateAction

-----------------------------------------------------------------------------
\* A step of u's handler, with its effect on everything else.
StepOf(u, c) == c \in Updating /\ Becomes(u, c) /\ Effect(u, c)

\* What a step of u's handler does to the records.
LEMMA Records ==
    ASSUME TypeOK, NEW u \in Update, NEW c, StepOf(u, c)
    PROVE  /\ update'[u] = c
           /\ \A a \in Update \ {u} : update'[a] = update[a]
           /\ update' \in [Update -> Updating]
           /\ released' = released /\ listing' = listing
BY DEF TypeOK, StepOf, Becomes

\* An accepted update is over.
LEMMA AcceptedDone ==
    ASSUME Stamps, NEW a \in Accepted
    PROVE  a \in Update /\ update[a].pc = "done" /\ update[a].now > 0
BY DEF Stamps, Place, Accepted

\* So is one with a row.
LEMMA RowDone ==
    ASSUME TypeOK, Stamps, RowsMatchAnswers, NEW r \in rows
    PROVE  /\ r.id \in Update /\ update[r.id].pc = "done"
           /\ r = RowOf(r.id)
<1>1. r.id \in Update
  BY DEF TypeOK, Row
<1>2. update[r.id].answer \in {"accepted", "error"} /\ r = RowOf(r.id)
  BY DEF RowsMatchAnswers
<1>3. QED
  BY <1>1, <1>2 DEF Stamps, Place

\* Nothing changes about an update that is over.
LEMMA DoneStays ==
    ASSUME TypeOK, NEW u \in Update, NEW c, StepOf(u, c),
           NEW a \in Update, update[a].pc = "done"
    PROVE  a # u /\ update'[a] = update[a]
BY Records DEF StepOf, Effect

LEMMA AcceptedGrows ==
    ASSUME TypeOK, Stamps, NEW u \in Update, NEW c, StepOf(u, c)
    PROVE  Accepted \subseteq Accepted'
<1>1. SUFFICES ASSUME NEW a \in Accepted
               PROVE  a \in Accepted'
  OBVIOUS
<1>2. a \in Update /\ update'[a] = update[a] /\ update[a].answer = "accepted"
  BY AcceptedDone, DoneStays DEF Accepted
<1>3. QED
  BY <1>2 DEF Accepted

\* The rows after a step of u's handler.
LEMMA RowsAfter ==
    ASSUME NEW u \in Update, NEW c, StepOf(u, c)
    PROVE  /\ rows \subseteq rows'
           /\ \A r \in rows' : r \in rows \/ r = RowOf(u)
           /\ rows' = rows => c.answer # "accepted" \/ RowOf(u) \in rows
BY DEF StepOf, Effect

LEMMA UpdateType ==
    ASSUME TypeOK, NEW u \in Update, NEW c, StepOf(u, c)
    PROVE  TypeOK'
<1>1. update' \in [Update -> Updating]
  BY Records
<1>2. \A a \in Update : update'[a].tried < Attempts
  BY Records DEF TypeOK, StepOf, Effect
<1>3. clock' \in Nat
  BY DEF TypeOK, StepOf, Effect
<1>4. RowOf(u) \in Row
  <2>1. update[u].now \in Nat /\ update[u].content \in Release
    BY Fields DEF TypeOK
  <2>2. QED
    BY <2>1 DEF RowOf, Row
<1>5. rows' \subseteq Row
  BY <1>4, RowsAfter DEF TypeOK
<1>6. QED
  BY <1>1, <1>2, <1>3, <1>5, Records DEF TypeOK

LEMMA UpdateStamps ==
    ASSUME TypeOK, Stamps, NEW u \in Update, NEW c, StepOf(u, c)
    PROVE  Stamps'
<1>1. /\ clock \in Nat /\ released \in Nat /\ c \in Updating
      /\ update \in [Update -> Updating]
  BY DEF TypeOK, StepOf, Release
<1>2. clock' \in Nat /\ clock <= clock' /\ c.now <= clock'
  <2>1. update[u].now \in Nat /\ update[u].now <= clock
    BY <1>1, Fields DEF Stamps
  <2>2. \/ c.now = update[u].now /\ clock' = clock
        \/ c.now = clock + 1 /\ clock' = clock + 1
    BY DEF StepOf, Effect
  <2>3. QED
    BY <1>1, <2>1, <2>2
<1>3. c.content <= released /\ Place(c)
  BY <1>1 DEF StepOf, Effect, Stamps
<1>4. SUFFICES ASSUME NEW a \in Update
               PROVE  /\ Place(update'[a]) /\ update'[a].now <= clock'
                      /\ update'[a].content <= released
  BY Records DEF Stamps, Place
<1>5. CASE a = u
  BY <1>2, <1>3, <1>5, Records
<1>6. CASE a # u
  <2>1. /\ update'[a] = update[a] /\ update[a].now \in Nat
        /\ Place(update[a]) /\ update[a].now <= clock
        /\ update[a].content <= released
    BY <1>1, <1>6, Records, Fields DEF Stamps
  <2>2. QED
    BY <1>1, <1>2, <2>1
<1>7. QED
  BY <1>5, <1>6

LEMMA UpdatePast ==
    ASSUME TypeOK, Stamps, Past, NEW u \in Update, NEW c, StepOf(u, c)
    PROVE  Past'
<1>1. Accepted \subseteq Accepted'
  BY AcceptedGrows
<1>2. c.after \subseteq Accepted
  BY DEF StepOf, Effect, Past
<1>3. \A a \in Update : update'[a].after \subseteq Accepted
  BY <1>2, Records DEF Past
<1>4. \A l \in Listing : listing'[l].after \subseteq Accepted
  BY Records DEF Past
<1>5. QED
  BY <1>1, <1>3, <1>4 DEF Past

LEMMA UpdateOrder ==
    ASSUME TypeOK, Stamps, Past, Order, NEW u \in Update, NEW c, StepOf(u, c)
    PROVE  Order'
<1>1. SUFFICES ASSUME NEW b \in Update,
                      update'[b].now > 0 \/ update'[b].pc = "reply",
                      NEW a \in update'[b].after
               PROVE  update'[b].content >= update'[a].content
  BY DEF Order
<1>2. CASE b # u
  <2>1. update'[b] = update[b] /\ a \in Accepted
    BY <1>2, Records DEF Past
  <2>2. a \in Update /\ update'[a] = update[a]
    BY <2>1, AcceptedDone, DoneStays
  <2>3. QED
    BY <1>1, <2>1, <2>2 DEF Order
<1>3. CASE b = u
  <2>1. update'[u] = c /\ a \in c.after
    BY <1>1, <1>3, Records
  <2>2. a \in Accepted
    BY <2>1 DEF StepOf, Effect, Past
  <2>3. a \in Update /\ update'[a] = update[a]
    BY <2>2, AcceptedDone, DoneStays
  <2>4. CASE c.pc = "reply"
    <3>1. c.content = released /\ update[a].content <= released
      BY <2>3, <2>4 DEF StepOf, Effect, Stamps
    <3>2. released \in Int /\ update[a].content \in Int
      BY <2>3, Fields DEF TypeOK, Release
    <3>3. QED
      BY <1>3, <2>1, <2>3, <3>1, <3>2
  <2>5. CASE c.pc # "reply"
    <3>1. c.now > 0 /\ c.content = update[u].content
      BY <1>1, <1>3, <2>1, <2>5 DEF StepOf, Effect
    <3>2. update[u].now > 0 \/ update[u].pc = "reply"
      <4>1. c.now > 0 /\ update[u].now = 0 => update[u].pc = "reply"
        BY DEF StepOf, Effect
      <4>2. update[u].now \in Nat
        BY Fields DEF TypeOK
      <4>3. QED
        BY <3>1, <4>1, <4>2
    <3>3. c.after = update[u].after
      <4>1. update[u].pc # "idle"
        <5>1. Place(update[u])
          BY DEF Stamps
        <5>2. QED
          BY <3>2, <5>1 DEF Place
      <4>2. QED
        BY <4>1 DEF StepOf, Effect
    <3>4. update[u].content >= update[a].content
      BY <2>1, <3>2, <3>3 DEF Order
    <3>5. QED
      BY <1>3, <2>1, <2>3, <3>1, <3>4
  <2>6. QED
    BY <2>4, <2>5
<1>4. QED
  BY <1>2, <1>3

LEMMA UpdateTopped ==
    ASSUME TypeOK, Topped, NEW u \in Update, NEW c, StepOf(u, c)
    PROVE  Topped'
<1>1. rows' = rows \/ rows' = rows \cup {RowOf(u)}
  BY DEF StepOf, Effect
<1>2. \A r \in rows \cup {RowOf(u)} : r.released_at \in Nat
  <2>1. update[u].now \in Nat
    BY Fields DEF TypeOK
  <2>2. QED
    BY <2>1 DEF TypeOK, Row, RowOf
<1>3. CASE rows' = rows
  BY <1>3 DEF Topped, Latest
<1>4. CASE rows' = rows \cup {RowOf(u)}
  <2>1. CASE rows = {}
    <3>1. rows' = {RowOf(u)} /\ RowOf(u).released_at \in Nat
      BY <1>2, <1>4, <2>1
    <3>2. QED
      BY <3>1 DEF Topped, Latest
  <2>2. CASE rows # {}
    <3>1. PICK top \in rows : \A r \in rows : r.released_at <= top.released_at
      BY <2>2 DEF Topped, Latest
    <3>2. CASE RowOf(u).released_at <= top.released_at
      <4>1. \A r \in rows' : r.released_at <= top.released_at
        BY <1>4, <3>1, <3>2
      <4>2. QED
        BY <1>4, <4>1 DEF Topped, Latest
    <3>3. CASE ~(RowOf(u).released_at <= top.released_at)
      <4>1. \A r \in rows' : r.released_at <= RowOf(u).released_at
        BY <1>2, <1>4, <3>1, <3>3
      <4>2. RowOf(u) \in rows'
        BY <1>4
      <4>3. QED
        BY <4>1, <4>2 DEF Topped, Latest
    <3>4. QED
      BY <3>2, <3>3
  <2>3. QED
    BY <2>1, <2>2
<1>5. QED
  BY <1>1, <1>3, <1>4

LEMMA UpdateRows ==
    ASSUME TypeOK, Stamps, RowsMatchAnswers,
           NEW u \in Update, NEW c, StepOf(u, c)
    PROVE  RowsMatchAnswers'
<1>1. /\ update[u].pc # "done" /\ update'[u] = c
      /\ rows' = rows \/ rows' = rows \cup {RowOf(u)}
  BY Records DEF StepOf, Effect
<1>2. \A a \in Update : update[a].pc = "done" => update'[a] = update[a]
  BY DoneStays
<1>3. CASE rows' = rows /\ c.answer # "accepted"
  <2>1. \A a \in Accepted' : a # u /\ update'[a] = update[a]
    BY <1>1, <1>3, Records DEF Accepted
  <2>2. \A a \in Accepted' : RowOf(a)' \in rows'
    BY <1>3, <2>1 DEF RowOf, Accepted, RowsMatchAnswers
  <2>3. \A r \in rows' : update'[r.id] = update[r.id]
    BY <1>2, <1>3, RowDone
  <2>4. \A r \in rows' : /\ update'[r.id].answer \in {"accepted", "error"}
                         /\ r = RowOf(r.id)'
    BY <1>3, <2>3 DEF RowOf, RowsMatchAnswers
  <2>5. QED
    BY <2>2, <2>4 DEF RowsMatchAnswers
<1>4. CASE /\ rows' = rows \cup {RowOf(u)}
           /\ c.answer \in {"accepted", "error"}
           /\ c.now = update[u].now /\ c.content = update[u].content
  <2>1. RowOf(u)' = RowOf(u) /\ RowOf(u).id = u
    BY <1>1, <1>4 DEF RowOf
  <2>2. \A a \in Accepted' : RowOf(a)' \in rows'
    <3>1. SUFFICES ASSUME NEW a \in Accepted'
                   PROVE  RowOf(a)' \in rows'
      OBVIOUS
    <3>2. CASE a = u
      BY <1>4, <2>1, <3>2
    <3>3. CASE a # u
      <4>1. a \in Accepted /\ update'[a] = update[a]
        BY <3>3, Records DEF Accepted
      <4>2. QED
        BY <1>4, <4>1 DEF RowOf, RowsMatchAnswers
    <3>4. QED
      BY <3>2, <3>3
  <2>3. \A r \in rows : update'[r.id] = update[r.id]
    BY <1>2, RowDone
  <2>4. \A r \in rows : /\ update'[r.id].answer \in {"accepted", "error"}
                        /\ r = RowOf(r.id)'
    BY <2>3 DEF RowOf, RowsMatchAnswers
  <2>5. QED
    BY <1>1, <1>4, <2>1, <2>2, <2>4 DEF RowsMatchAnswers
<1>5. QED
  BY <1>3, <1>4 DEF StepOf, Effect

\* What a listing showed stays true of the table.
LEMMA UpdateLatest ==
    ASSUME TypeOK, Stamps, Past, ShownRows, RowsMatchAnswers, LatestNotStale,
           NEW u \in Update, NEW c, StepOf(u, c)
    PROVE  ShownRows' /\ LatestNotStale'
<1>1. listing' = listing /\ rows \subseteq rows'
  BY Records, RowsAfter
<1>2. ShownRows'
  BY <1>1 DEF ShownRows
<1>3. SUFFICES ASSUME NEW l \in Listing, listing[l].answer = "ok",
                      listing[l].limit > 0, NEW a \in listing[l].after
               PROVE  \E top \in listing[l].shown :
                        /\ \A r \in listing[l].shown :
                              r.released_at <= top.released_at
                        /\ top.released_at >= update'[a].now
                        /\ \/ top.content >= update'[a].content
                           \/ a \notin update'[top.id].after
  BY <1>1, <1>2 DEF LatestNotStale
<1>4. PICK top \in listing[l].shown :
        /\ \A r \in listing[l].shown : r.released_at <= top.released_at
        /\ top.released_at >= update[a].now
        /\ top.content >= update[a].content \/ a \notin update[top.id].after
  BY <1>3 DEF LatestNotStale
<1>5. update'[a] = update[a]
  BY <1>3, AcceptedDone, DoneStays DEF Past
<1>6. update'[top.id] = update[top.id]
  BY <1>4, RowDone, DoneStays DEF ShownRows
<1>7. QED
  BY <1>4, <1>5, <1>6

-----------------------------------------------------------------------------
\* What LatestNotStale says of one listing, were it to show `shown'.
TopOf(l, shown) ==
    \A a \in listing[l].after :
       \E top \in shown :
          /\ \A r \in shown : r.released_at <= top.released_at
          /\ top.released_at >= update[a].now
          /\ top.content >= update[a].content \/ a \notin update[top.id].after

\* The newest row is among any positive number of the newest, and is not
\* older than what was accepted before.
LEMMA NewestOnTop ==
    ASSUME IInv, NEW l \in Listing, NEW limit \in Int, limit > 0
    PROVE  TopOf(l, Newest(limit))
<1>1. SUFFICES ASSUME NEW a \in listing[l].after
               PROVE  \E top \in Newest(limit) :
                        /\ \A r \in Newest(limit) :
                              r.released_at <= top.released_at
                        /\ top.released_at >= update[a].now
                        /\ \/ top.content >= update[a].content
                           \/ a \notin update[top.id].after
  BY DEF TopOf
<1>2. a \in Accepted /\ RowOf(a) \in rows
  BY DEF IInv, Past, RowsMatchAnswers
<1>3. PICK top \in rows : \A r \in rows : r.released_at <= top.released_at
  BY <1>2 DEF IInv, Topped, Latest
<1>4. \A r \in rows : r.released_at \in Nat
  BY DEF IInv, TypeOK, Row
<1>5. {s \in rows : s.released_at > top.released_at} = {}
  BY <1>3, <1>4
<1>6. top \in Newest(limit)
  BY <1>5, FS_EmptySet DEF Newest
<1>7. \A r \in Newest(limit) : r.released_at <= top.released_at
  BY <1>3 DEF Newest
<1>8. top.released_at >= update[a].now
  <2>1. RowOf(a).released_at <= top.released_at /\ RowOf(a).released_at \in Nat
    BY <1>2, <1>3, <1>4
  <2>2. QED
    BY <1>4, <2>1 DEF RowOf
<1>9. top.content >= update[a].content \/ a \notin update[top.id].after
  <2>1. top.id \in Update /\ top = RowOf(top.id)
    BY RowDone DEF IInv
  <2>2. top.content = update[top.id].content
        /\ top.released_at = update[top.id].now
    BY <2>1 DEF RowOf
  <2>3. update[top.id].now > 0
    <3>1. update[a].now > 0 /\ update[a].now \in Nat
      BY <1>2, AcceptedDone, Fields DEF IInv, TypeOK
    <3>2. QED
      BY <1>4, <1>8, <2>2, <3>1
  <2>4. QED
    BY <2>1, <2>2, <2>3 DEF IInv, Order
<1>10. QED
  BY <1>6, <1>7, <1>8, <1>9

-----------------------------------------------------------------------------
\* A step that leaves the updates and the rows alone.
Still == clock' = clock /\ rows' = rows /\ update' = update

\* What it preserves, whatever the feed or the listings do.
LEMMA StillKeeps ==
    ASSUME IInv, Still
    PROVE  Order' /\ Topped' /\ RowsMatchAnswers' /\ Accepted' = Accepted
<1>1. Order'
  BY DEF Still, IInv, Order
<1>2. Topped'
  BY DEF Still, IInv, Topped, Latest
<1>3. Accepted' = Accepted
  BY DEF Still, Accepted
<1>4. RowsMatchAnswers'
  BY <1>3 DEF Still, IInv, RowsMatchAnswers, RowOf
<1>5. QED
  BY <1>1, <1>2, <1>3, <1>4

LEMMA PublishKeeps ==
    ASSUME IInv, Publish
    PROVE  IInv'
<1>1. /\ released \in Release /\ released' = released + 1
      /\ released < MaxReleases /\ MaxReleases \in Nat
      /\ Still /\ listing' = listing
  BY SignatureAssumption DEF Publish, Still, IInv, TypeOK
<1>2. released' \in Release /\ released <= released'
  BY <1>1 DEF Release
<1>3. TypeOK'
  BY <1>1, <1>2 DEF IInv, TypeOK, Still
<1>4. Stamps'
  <2>1. SUFFICES ASSUME NEW u \in Update
                 PROVE  update[u].content <= released'
    BY <1>1 DEF IInv, Stamps, Still, Place
  <2>2. update[u].content <= released /\ update[u].content \in Release
    BY Fields DEF IInv, Stamps, TypeOK
  <2>3. QED
    BY <1>1, <1>2, <2>2 DEF Release
<1>5. Past'
  BY <1>1, StillKeeps DEF IInv, Past, Still
<1>6. ShownRows' /\ Blank'
  BY <1>1 DEF IInv, ShownRows, Blank, Still
<1>7. LatestNotStale'
  BY <1>1 DEF IInv, LatestNotStale, Still
<1>8. QED
  BY <1>1, <1>3, <1>4, <1>5, <1>6, <1>7, StillKeeps DEF IInv

\* A step of l's handler makes its record c.
Asked(l, c) ==
    /\ listing' = [listing EXCEPT ![l] = c]
    /\ released' = released /\ Still
    /\ c.after = listing[l].after \/ c.after = Accepted
    /\ \/ c.answer = "none" /\ c.shown = {}
       \/ c.answer = "error" /\ c.shown = {} /\ c.pc = "done"
       \/ /\ c.answer = "ok" /\ c.after = listing[l].after /\ c.pc = "done"
          /\ c.shown \subseteq rows
          /\ c.limit > 0 => TopOf(l, c.shown)

LEMMA ListingFields ==
    ASSUME NEW o \in Asking
    PROVE  /\ o.pc \in {"idle", "acquire", "select", "done"}
           /\ o.limit \in Int /\ o.shown \subseteq Row
           /\ o.answer \in {"none", "ok", "error"} /\ o.after \subseteq Update
BY DEF Asking

LEMMA ErrorEffect ==
    ASSUME IInv, NEW l \in Listing, Shown(l, {}, "error")
    PROVE  \E c \in Asking : Asked(l, c)
<1>1. listing[l] \in Asking
  BY DEF IInv, TypeOK
<1>2. PICK c : c = [listing[l] EXCEPT !.pc = "done", !.shown = {},
                                      !.answer = "error"]
  OBVIOUS
<1>3. c \in Asking
  BY <1>1, <1>2 DEF Asking
<1>4. /\ c.pc = "done" /\ c.shown = {} /\ c.answer = "error"
      /\ c.after = listing[l].after
  BY <1>1, <1>2 DEF Asking
<1>5. listing' = [listing EXCEPT ![l] = c]
  BY <1>2 DEF Shown
<1>6. released' = released /\ Still
  BY DEF Shown, Still
<1>7. QED
  BY <1>3, <1>4, <1>5, <1>6 DEF Asked

LEMMA ListingEffect ==
    ASSUME IInv, NEW l \in Listing, ListingAction(l)
    PROVE  \E c \in Asking : Asked(l, c)
<1>1. /\ listing[l] \in Asking /\ listing[l].limit \in Int
      /\ listing[l].pc # "done" =>
           listing[l].answer = "none" /\ listing[l].shown = {}
  BY ListingFields DEF IInv, TypeOK, Blank
<1>2. CASE \E limit \in Limit : Ask(l, limit)
  <2>1. PICK limit \in Limit : Ask(l, limit)
    BY <1>2
  <2>2. PICK c : c = [listing[l] EXCEPT !.pc = "acquire", !.limit = limit,
                                        !.after = Accepted]
    OBVIOUS
  <2>3. c \in Asking
    BY <1>1, <2>2, SignatureAssumption DEF Asking, Accepted
  <2>4. /\ c.after = Accepted /\ c.answer = listing[l].answer
        /\ c.shown = listing[l].shown
    BY <1>1, <2>2 DEF Asking
  <2>5. listing' = [listing EXCEPT ![l] = c]
    BY <2>1, <2>2 DEF Ask
  <2>6. released' = released /\ Still /\ listing[l].pc # "done"
    BY <2>1 DEF Ask, Still
  <2>7. QED
    BY <1>1, <2>3, <2>4, <2>5, <2>6 DEF Asked
<1>3. CASE ListAcquire(l)
  <2>2. PICK c : c = [listing[l] EXCEPT !.pc = "select"]
    OBVIOUS
  <2>3. c \in Asking
    BY <1>1, <2>2 DEF Asking
  <2>4. /\ c.after = listing[l].after /\ c.answer = listing[l].answer
        /\ c.shown = listing[l].shown
    BY <1>1, <2>2 DEF Asking
  <2>5. listing' = [listing EXCEPT ![l] = c]
    BY <1>3, <2>2 DEF ListAcquire
  <2>6. released' = released /\ Still /\ listing[l].pc # "done"
    BY <1>3 DEF ListAcquire, Still
  <2>7. QED
    BY <1>1, <2>3, <2>4, <2>5, <2>6 DEF Asked
<1>4. CASE ListSelect(l)
  <2>1. CASE listing[l].limit < 0
    BY <1>4, <2>1, ErrorEffect DEF ListSelect
  <2>2. CASE ~(listing[l].limit < 0)
    <3> DEFINE shown == Newest(listing[l].limit)
    <3>1. shown \subseteq rows /\ shown \subseteq Row
      BY DEF Newest, IInv, TypeOK
    <3>2. listing[l].limit > 0 => TopOf(l, shown)
      BY <1>1, NewestOnTop
    <3>3. Shown(l, shown, "ok")
      BY <1>4, <2>2 DEF ListSelect
    <3> HIDE DEF shown
    <3>4. PICK c : c = [listing[l] EXCEPT !.pc = "done", !.shown = shown,
                                          !.answer = "ok"]
      OBVIOUS
    <3>5. c \in Asking
      BY <1>1, <3>1, <3>4 DEF Asking
    <3>6. /\ c.pc = "done" /\ c.shown = shown /\ c.answer = "ok"
          /\ c.after = listing[l].after /\ c.limit = listing[l].limit
      BY <1>1, <3>4 DEF Asking
    <3>7. listing' = [listing EXCEPT ![l] = c]
      BY <3>3, <3>4 DEF Shown
    <3>8. released' = released /\ Still
      BY <3>3 DEF Shown, Still
    <3>9. QED
      BY <3>1, <3>2, <3>5, <3>6, <3>7, <3>8 DEF Asked
  <2>3. QED
    BY <2>1, <2>2
<1>5. CASE ListFail(l)
  BY <1>5, ErrorEffect DEF ListFail
<1>6. QED
  BY <1>2, <1>3, <1>4, <1>5 DEF ListingAction

LEMMA ListingKeeps ==
    ASSUME IInv, NEW l \in Listing, NEW c \in Asking, Asked(l, c)
    PROVE  IInv'
<1>1. /\ listing' \in [Listing -> Asking] /\ listing'[l] = c
      /\ \A m \in Listing \ {l} : listing'[m] = listing[m]
  BY DEF Asked, IInv, TypeOK
<1>2. released' = released /\ Still
  BY DEF Asked
<1>3. Accepted' = Accepted
  BY <1>2, StillKeeps
<1>4. TypeOK'
  BY <1>1, <1>2 DEF IInv, TypeOK, Still
<1>5. Stamps'
  BY <1>2 DEF IInv, Stamps, Still, Place
<1>6. Past'
  <2>1. \A m \in Listing : listing'[m].after \subseteq Accepted
    BY <1>1 DEF IInv, Past, Asked
  <2>2. QED
    BY <1>2, <1>3, <2>1 DEF IInv, Past, Still
<1>7. ShownRows'
  <2>1. c.shown \subseteq rows
    BY DEF Asked
  <2>2. QED
    BY <1>1, <1>2, <2>1 DEF IInv, ShownRows, Still
<1>8. Blank'
  <2>1. c.pc # "done" => c.answer = "none" /\ c.shown = {}
    BY DEF Asked
  <2>2. QED
    BY <1>1, <2>1 DEF IInv, Blank
<1>9. LatestNotStale'
  <2>1. SUFFICES ASSUME NEW m \in Listing, listing'[m].answer = "ok",
                        listing'[m].limit > 0, NEW a \in listing'[m].after
                 PROVE  \E top \in listing'[m].shown :
                          /\ \A r \in listing'[m].shown :
                                r.released_at <= top.released_at
                          /\ top.released_at >= update[a].now
                          /\ \/ top.content >= update[a].content
                             \/ a \notin update[top.id].after
    BY <1>2 DEF LatestNotStale, Still
  <2>2. CASE m = l
    <3>1. c.answer = "ok" /\ c.limit > 0 /\ a \in c.after
      BY <1>1, <2>1, <2>2
    <3>2. TopOf(l, c.shown) /\ a \in listing[l].after
      BY <3>1 DEF Asked
    <3>3. QED
      BY <1>1, <2>2, <3>2 DEF TopOf
  <2>3. CASE m # l
    <3>1. listing'[m] = listing[m]
      BY <1>1, <2>3
    <3>2. QED
      BY <2>1, <3>1 DEF IInv, LatestNotStale
  <2>4. QED
    BY <2>2, <2>3
<1>10. QED
  BY <1>2, <1>4, <1>5, <1>6, <1>7, <1>8, <1>9, StillKeeps DEF IInv

LEMMA UpdateKeeps ==
    ASSUME IInv, NEW u \in Update, UpdateAction(u)
    PROVE  IInv'
<1>1. PICK c : StepOf(u, c)
  BY UpdateEffect DEF IInv, StepOf
<1>2. Blank'
  BY <1>1, Records DEF IInv, Blank
<1>3. TypeOK' /\ Stamps' /\ Past' /\ Order'
  BY <1>1, UpdateType, UpdateStamps, UpdatePast, UpdateOrder DEF IInv
<1>4. Topped' /\ RowsMatchAnswers'
  BY <1>1, UpdateTopped, UpdateRows DEF IInv
<1>5. ShownRows' /\ LatestNotStale'
  BY <1>1, UpdateLatest DEF IInv
<1>6. QED
  BY <1>2, <1>3, <1>4, <1>5 DEF IInv

LEMMA Starts == Init => IInv
<1>1. SUFFICES ASSUME Init
               PROVE  IInv
  OBVIOUS
<1>2. /\ released = 0 /\ clock = 0 /\ rows = {}
  BY <1>1 DEF Init
<1>3. \A u \in Update :
        /\ update[u].pc = "idle" /\ update[u].tried = 0 /\ update[u].now = 0
        /\ update[u].content = 0 /\ update[u].answer = "none"
        /\ update[u].after = {}
  BY <1>1 DEF Init, NoUpdate
<1>4. \A l \in Listing :
        /\ listing[l].answer = "none" /\ listing[l].shown = {}
        /\ listing[l].after = {}
  BY <1>1 DEF Init, NoListing
<1>5. TypeOK
  <2>1. 0 \in Release /\ 0 < Attempts
    BY SignatureAssumption DEF Release
  <2>2. NoUpdate \in Updating /\ NoListing \in Asking
    BY <2>1 DEF NoUpdate, Updating, NoListing, Asking
  <2>3. QED
    BY <1>1, <1>2, <1>3, <2>1, <2>2 DEF Init, TypeOK
<1>6. Stamps /\ Past /\ Order
  BY <1>2, <1>3, <1>4 DEF Stamps, Place, Past, Order
<1>7. Topped /\ ShownRows /\ Blank
  BY <1>2, <1>4 DEF Topped, ShownRows, Blank
<1>8. RowsMatchAnswers /\ LatestNotStale
  BY <1>2, <1>3, <1>4 DEF RowsMatchAnswers, Accepted, LatestNotStale
<1>9. QED
  BY <1>5, <1>6, <1>7, <1>8 DEF IInv

LEMMA StepKeeps ==
    ASSUME IInv, [Next]_vars
    PROVE  IInv'
<1>1. CASE UNCHANGED vars
  BY <1>1 DEF vars, IInv, TypeOK, Stamps, Place, Past, Accepted, Order, Topped,
              Latest, ShownRows, Blank, RowsMatchAnswers, RowOf, LatestNotStale
<1>2. CASE \E l \in Listing : ListingAction(l)
  BY <1>2, ListingEffect, ListingKeeps
<1>3. CASE \E u \in Update : UpdateAction(u)
  BY <1>3, UpdateKeeps
<1>4. QED
  BY <1>1, <1>2, <1>3, NextCases, PublishKeeps

LEMMA Invariant == Spec => []IInv
BY Starts, StepKeeps, PTL DEF Spec

\* The versions never leave their types, and no update tries more often than
\* stop_after_attempt allows.
THEOREM TypeCorrect == Spec => []TypeOK
<1>1. IInv => TypeOK
  BY DEF IInv
<1>2. QED
  BY <1>1, Invariant, PTL

\* An accepted update has its row and a refused one has none, whatever is lost
\* or interleaved.
THEOREM AnswersAreTrue == Spec => []RowsMatchAnswers
<1>1. IInv => RowsMatchAnswers
  BY DEF IInv
<1>2. QED
  BY <1>1, Invariant, PTL

\* A listing begun after an update was accepted has it or a later one on top,
\* and an older archive only of an update that overlapped it.
THEOREM LatestIsCurrent == Spec => []LatestNotStale
<1>1. IInv => LatestNotStale
  BY DEF IInv
<1>2. QED
  BY <1>1, Invariant, PTL
=============================================================================
