-------------------------- MODULE AgentLoopProofs ---------------------------
(***************************************************************************)
(* Proofs about the agent: its LRU cache never falls out of step or grows  *)
(* beyond its bound; every file it hashed whose name is UTF-8 is dealt     *)
(* with, in hand, in the offline queue, or lost to a failure; and what its *)
(* cached verdicts and quarantines rest on.                                *)
(***************************************************************************)
EXTENDS AgentLoop, FiniteSetTheorems, SequenceTheorems, TLAPS

-----------------------------------------------------------------------------
(* The cache.                                                              *)

\* push_back of a digest the order does not list.
LEMMA AppendInStep ==
    ASSUME NEW order \in Seq(Digest), NEW h \in Digest, IsInjective(order),
           h \notin Range(order)
    PROVE  /\ Append(order, h) \in Seq(Digest)
           /\ IsInjective(Append(order, h))
           /\ Range(Append(order, h)) = Range(order) \cup {h}
<1> DEFINE longer == Append(order, h)
<1>1. /\ longer \in Seq(Digest) /\ Len(longer) = Len(order) + 1
      /\ \A i \in 1..Len(order) : longer[i] = order[i]
      /\ longer[Len(order) + 1] = h
  OBVIOUS
<1>2. \A i \in 1..Len(order) : order[i] # h
  BY DEF Range
<1>3. \A i, j \in 1..Len(order) : order[i] = order[j] => i = j
  BY DEF IsInjective
<1> HIDE DEF longer
<1>4. IsInjective(longer)
  <2>1. SUFFICES ASSUME NEW i \in 1..Len(longer), NEW j \in 1..Len(longer),
                        longer[i] = longer[j]
                 PROVE  i = j
    BY <1>1 DEF IsInjective
  <2>2. QED
    BY <2>1, <1>1, <1>2, <1>3
<1>5. Range(longer) \subseteq Range(order) \cup {h}
  BY <1>1 DEF Range
<1>6. ASSUME NEW d \in Range(order)
      PROVE  d \in Range(longer)
  <2>1. PICK i \in 1..Len(order) : order[i] = d
    BY DEF Range
  <2>2. i \in 1..Len(longer) /\ longer[i] = d
    BY <2>1, <1>1
  <2>3. QED
    BY <2>2, <1>1 DEF Range
<1>7. h \in Range(longer)
  BY <1>1 DEF Range
<1>8. QED
  BY <1>1, <1>4, <1>5, <1>6, <1>7 DEF longer

\* touch keeps every digest, and adds the one it is given, once.
LEMMA TouchedInStep ==
    ASSUME NEW order \in Seq(Digest), NEW h \in Digest, IsInjective(order)
    PROVE  /\ Touched(order, h) \in Seq(Digest)
           /\ IsInjective(Touched(order, h))
           /\ Range(Touched(order, h)) = Range(order) \cup {h}
<1> DEFINE rest == RemoveFirst(order, h)
<1>1. /\ rest \in Seq(Digest)
      /\ IsInjective(rest)
      /\ Range(rest) = Range(order) \ {h}
  <2>1. CASE h \notin Range(order)
    <3>1. rest = order
      BY <2>1 DEF RemoveFirst, Range
    <3>2. QED
      BY <2>1, <3>1
  <2>2. CASE h \in Range(order)
    <3> DEFINE k == SelectInSeq(order, LAMBDA v : v = h)
    <3>1. \E i \in 1..Len(order) : order[i] = h
      BY <2>2 DEF Range
    <3>2. k \in 1..Len(order) /\ order[k] = h
      <4> DEFINE I == {i \in 1..Len(order) : order[i] = h}
      <4>1. PICK i \in 1..Len(order) : order[i] = h
        BY <3>1
      <4>2. I = {i}
        BY <4>1 DEF IsInjective
      <4>3. Min(I) = i
        BY <4>2, <4>1 DEF Min
      <4>4. k = i
        BY <4>2, <4>3 DEF SelectInSeq
      <4>5. QED
        BY <4>1, <4>4
    <3>3. rest = RemoveAt(order, k)
      BY <3>1 DEF RemoveFirst
    <3> HIDE DEF k
    <3>4. /\ Len(rest) = Len(order) - 1
          /\ \A j \in 1..Len(rest) : rest[j] = IF j < k THEN order[j] ELSE order[j + 1]
          /\ rest \in Seq(Digest)
      <4> DEFINE left == SubSeq(order, 1, k - 1)
                 right == SubSeq(order, k + 1, Len(order))
      <4>1. /\ left \in Seq(Digest) /\ Len(left) = k - 1
            /\ \A j \in 1..(k - 1) : left[j] = order[j]
        BY <3>2
      <4>2. /\ right \in Seq(Digest) /\ Len(right) = Len(order) - k
            /\ \A j \in 1..(Len(order) - k) : right[j] = order[k + j]
        BY <3>2
      <4>3. rest = left \o right
        BY <3>3 DEF RemoveAt
      <4> HIDE DEF left, right, rest
      <4>4. /\ rest \in Seq(Digest) /\ Len(rest) = Len(left) + Len(right)
            /\ \A j \in 1..Len(rest) :
                  rest[j] = IF j <= Len(left) THEN left[j] ELSE right[j - Len(left)]
        <5>1. /\ left \o right \in Seq(Digest)
              /\ Len(left \o right) = Len(left) + Len(right)
              /\ \A j \in 1..Len(left) + Len(right) :
                    (left \o right)[j] = IF j <= Len(left) THEN left[j]
                                         ELSE right[j - Len(left)]
          BY <4>1, <4>2, ConcatProperties, Zenon
        <5>2. QED
          BY <5>1, <4>3
      <4>5. ASSUME NEW j \in 1..Len(rest)
            PROVE  rest[j] = IF j < k THEN order[j] ELSE order[j + 1]
        <5>1. CASE j < k
          <6>1. j \in 1..(k - 1) /\ j <= Len(left)
            BY <5>1, <4>1, <4>4, <3>2
          <6>2. QED
            BY <5>1, <6>1, <4>1, <4>4
        <5>2. CASE j >= k
          <6>1. j - (k - 1) \in 1..(Len(order) - k)
            BY <5>2, <4>1, <4>2, <4>4, <3>2
          <6>2. right[j - (k - 1)] = order[k + (j - (k - 1))]
            BY <6>1, <4>2
          <6>3. k + (j - (k - 1)) = j + 1
            BY <3>2
          <6>4. rest[j] = right[j - (k - 1)]
            BY <5>2, <4>1, <4>4, <3>2
          <6>5. QED
            BY <6>2, <6>3, <6>4, <5>2, <3>2
        <5>3. QED
          BY <5>1, <5>2, <3>2
      <4>6. QED
        BY <4>1, <4>2, <4>4, <4>5, <3>2
    <3> HIDE DEF rest
    <3>5. IsInjective(rest)
      <4>1. SUFFICES ASSUME NEW i \in 1..Len(rest), NEW j \in 1..Len(rest), rest[i] = rest[j]
                     PROVE  i = j
        BY <3>4 DEF IsInjective
      <4>2. \A x, y \in 1..Len(order) : order[x] = order[y] => x = y
        BY DEF IsInjective
      <4>3. rest[i] = (IF i < k THEN order[i] ELSE order[i + 1])
        BY <3>4
      <4>4. rest[j] = (IF j < k THEN order[j] ELSE order[j + 1])
        BY <3>4
      <4> DEFINE from(x) == IF x < k THEN x ELSE x + 1
      <4>5. /\ from(i) \in 1..Len(order) /\ from(j) \in 1..Len(order)
            /\ rest[i] = order[from(i)] /\ rest[j] = order[from(j)]
        BY <4>3, <4>4, <3>2, <3>4
      <4>6. from(i) = from(j)
        BY <4>1, <4>2, <4>5
      <4>7. QED
        BY <4>6, <3>2
    <3>6. h \notin Range(rest)
      BY <3>2, <3>4 DEF IsInjective, Range
    <3>7. Range(rest) \subseteq Range(order)
      BY <3>2, <3>4 DEF Range
    <3>8. ASSUME NEW d \in Range(order), d # h
          PROVE  d \in Range(rest)
      <4>1. PICK j \in 1..Len(order) : order[j] = d
        BY DEF Range
      <4>2. CASE j < k
        BY <4>1, <4>2, <3>2, <3>4 DEF Range
      <4>3. CASE j > k
        <5>1. j - 1 \in 1..Len(rest) /\ rest[j - 1] = d
          BY <4>1, <4>3, <3>2, <3>4
        <5>2. QED
          BY <5>1, <3>4 DEF Range
      <4>4. QED
        BY <4>1, <4>2, <4>3, <3>2, <3>8
    <3>9. QED
      BY <3>4, <3>5, <3>6, <3>7, <3>8
  <2>3. QED
    BY <2>1, <2>2
<1>2. Touched(order, h) = Append(rest, h)
  BY DEF Touched
<1> HIDE DEF rest
<1>3. h \notin Range(rest)
  BY <1>1
<1>4. QED
  BY <1>1, <1>2, <1>3, AppendInStep

\* pop_front takes out of the order what is taken out of the map.
LEMMA EvictedInStep ==
    ASSUME NEW c \in Cache, InStep(c), Held(c) # {}
    PROVE  /\ Evicted(c) \in Cache
           /\ InStep(Evicted(c))
           /\ Held(Evicted(c)) \subseteq Held(c)
           /\ Cardinality(Held(Evicted(c))) = Cardinality(Held(c)) - 1
<1> DEFINE oldest == Head(c.order)
           rest == Tail(c.order)
           e == Evicted(c)
<1>1. /\ c.order \in Seq(Digest) /\ c.verdict \in [Digest -> Verdict]
      /\ \A i, j \in 1..Len(c.order) : c.order[i] = c.order[j] => i = j
      /\ Range(c.order) = Held(c)
  BY DEF Cache, InStep, IsInjective
<1>2. c.order # <<>>
  BY <1>1 DEF Range
<1>3. /\ oldest = c.order[1] /\ oldest \in Digest /\ 1 \in 1..Len(c.order)
      /\ rest \in Seq(Digest) /\ Len(rest) = Len(c.order) - 1
      /\ \A i \in 1..Len(rest) : rest[i] = c.order[i + 1]
  BY <1>1, <1>2
<1>4. e = [verdict |-> [c.verdict EXCEPT ![oldest] = NoVerdict], order |-> rest]
  BY <1>2 DEF Evicted
<1> HIDE DEF oldest, rest, e
<1>5. e \in Cache
  BY <1>1, <1>3, <1>4 DEF Cache, Verdict
<1>6. Held(e) = Held(c) \ {oldest}
  BY <1>1, <1>3, <1>4 DEF Held
<1>7. oldest \in Held(c)
  BY <1>1, <1>3 DEF Range
<1>8. IsInjective(rest)
  <2>1. SUFFICES ASSUME NEW i \in 1..Len(rest), NEW j \in 1..Len(rest), rest[i] = rest[j]
                 PROVE  i = j
    BY <1>3 DEF IsInjective
  <2>2. /\ i + 1 \in 1..Len(c.order) /\ j + 1 \in 1..Len(c.order)
        /\ c.order[i + 1] = c.order[j + 1]
    BY <2>1, <1>3
  <2>3. i + 1 = j + 1
    BY <2>2, <1>1
  <2>4. QED
    BY <2>3
<1>9. oldest \notin Range(rest) /\ Range(rest) \subseteq Range(c.order)
  <2>1. ASSUME NEW i \in 1..Len(rest)
        PROVE  rest[i] # oldest /\ rest[i] \in Range(c.order)
    <3>1. i + 1 \in 1..Len(c.order) /\ rest[i] = c.order[i + 1] /\ i + 1 # 1
      BY <1>3
    <3>2. QED
      BY <3>1, <1>1, <1>3 DEF Range
  <2>2. \A d \in Range(rest) : d # oldest /\ d \in Range(c.order)
    <3>1. SUFFICES ASSUME NEW d \in Range(rest)
                   PROVE  d # oldest /\ d \in Range(c.order)
      OBVIOUS
    <3>2. PICK i \in 1..Len(rest) : rest[i] = d
      BY <1>3 DEF Range
    <3>3. QED
      BY <3>2, <2>1
  <2>3. QED
    BY <2>2, Zenon
<1>10. ASSUME NEW d \in Held(c), d # oldest
       PROVE  d \in Range(rest)
  <2>1. PICK i \in 1..Len(c.order) : c.order[i] = d
    <3>1. DOMAIN c.order = 1..Len(c.order)
      BY <1>1
    <3>2. \E i \in DOMAIN c.order : c.order[i] = d
      <4>1. d \in Range(c.order)
        BY <1>1
      <4>2. QED
        BY <4>1, Zenon DEF Range
    <3>3. QED
      BY <3>1, <3>2
  <2>2. i # 1
    <3>1. SUFFICES ASSUME i = 1
                   PROVE  FALSE
      OBVIOUS
    <3>2. c.order[i] = oldest
      BY <3>1, <1>3
    <3>3. QED
      BY <3>2, <2>1, <1>10
  <2>3. i \in Nat /\ Len(c.order) \in Nat /\ 1 <= i /\ i <= Len(c.order)
    BY <2>1, <1>1
  <2>4. i - 1 \in 1..Len(rest) /\ (i - 1) + 1 = i
    BY <2>2, <2>3, <1>3
  <2>5. rest[i - 1] = d
    BY <2>1, <2>4, <1>3
  <2>6. QED
    BY <2>4, <2>5, <1>3 DEF Range
<1>11. InStep(e)
  <2>1. Range(rest) = Held(e)
    BY <1>1, <1>6, <1>9, <1>10
  <2>2. e.order = rest
    BY <1>4
  <2>3. QED
    BY <2>1, <2>2, <1>8 DEF InStep
<1>12. IsFiniteSet(Held(c))
  BY CacheAssumption, FS_Subset DEF Held
<1>13. Cardinality(Held(e)) = Cardinality(Held(c)) - 1
  BY <1>6, <1>7, <1>12, FS_RemoveElement
<1>14. QED
  BY <1>5, <1>6, <1>11, <1>13 DEF e

\* An insertion keeps map and order in step and the cache within its bound.
LEMMA StoredInStep ==
    ASSUME NEW c \in Cache, InStep(c), Bounded(c), NEW h \in Digest, NEW v \in Class
    PROVE  Stored(c, h, v) \in Cache /\ InStep(Stored(c, h, v)) /\ Bounded(Stored(c, h, v))
<1> DEFINE s == Stored(c, h, v)
<1>1. /\ c.order \in Seq(Digest) /\ c.verdict \in [Digest -> Verdict]
      /\ IsInjective(c.order) /\ Range(c.order) = Held(c)
      /\ v # NoVerdict /\ v \in Verdict
  BY CacheAssumption DEF Cache, InStep, Verdict
<1>2. CASE h \in Held(c)
  <2>1. s = [verdict |-> [c.verdict EXCEPT ![h] = v], order |-> Touched(c.order, h)]
    BY <1>2 DEF Stored
  <2>2. /\ Touched(c.order, h) \in Seq(Digest) /\ IsInjective(Touched(c.order, h))
        /\ Range(Touched(c.order, h)) = Range(c.order) \cup {h}
    BY <1>1, TouchedInStep
  <2>3. Held(s) = Held(c)
    BY <2>1, <1>1, <1>2 DEF Held
  <2>4. s \in Cache
    BY <2>1, <2>2, <1>1 DEF Cache
  <2>5. s.order = Touched(c.order, h) /\ Range(c.order) \cup {h} = Held(s)
    BY <2>1, <2>3, <1>1, <1>2
  <2>6. InStep(s)
    BY <2>2, <2>5 DEF InStep
  <2>7. Bounded(s)
    BY <2>3 DEF Bounded
  <2>8. QED
    BY <2>4, <2>6, <2>7
<1>3. CASE h \notin Held(c)
  <2> DEFINE room == MakeRoom(c)
  <2>1. /\ room \in Cache /\ InStep(room) /\ h \notin Held(room)
        /\ Cardinality(Held(room)) + 1 <= IF Capacity = 0 THEN 1 ELSE Capacity
    <3>1. IsFiniteSet(Held(c)) /\ Cardinality(Held(c)) \in Nat
      BY CacheAssumption, FS_Subset, FS_CardinalityType DEF Held
    <3>2. CASE Cardinality(Held(c)) < Capacity
      BY <3>1, <3>2, <1>3, CacheAssumption DEF MakeRoom
    <3>3. CASE Cardinality(Held(c)) >= Capacity /\ Held(c) # {}
      <4>1. room = Evicted(c)
        BY <3>3 DEF MakeRoom
      <4>2. /\ Evicted(c) \in Cache /\ InStep(Evicted(c))
            /\ Held(Evicted(c)) \subseteq Held(c)
            /\ Cardinality(Held(Evicted(c))) = Cardinality(Held(c)) - 1
        BY <3>3, EvictedInStep
      <4>3. Cardinality(Held(c)) <= IF Capacity = 0 THEN 1 ELSE Capacity
        BY DEF Bounded
      <4>4. QED
        BY <4>1, <4>2, <4>3, <3>1, <1>3, CacheAssumption
    <3>4. CASE Cardinality(Held(c)) >= Capacity /\ Held(c) = {}
      <4>1. c.order = <<>>
        <5>1. c.order # <<>> => 1 \in DOMAIN c.order
          BY <1>1
        <5>2. c.order # <<>> => c.order[1] \in Range(c.order)
          BY <5>1 DEF Range
        <5>3. QED
          BY <5>2, <3>4, <1>1
      <4>2. room = c
        BY <4>1 DEF MakeRoom, Evicted
      <4>3. Cardinality(Held(c)) = 0
        BY <3>4, FS_EmptySet
      <4>4. QED
        BY <4>2, <4>3, <3>4, <1>3, CacheAssumption
    <3>5. QED
      BY <3>1, <3>2, <3>3, <3>4, CacheAssumption
  <2>2. s = [verdict |-> [room.verdict EXCEPT ![h] = v], order |-> Append(room.order, h)]
    BY <1>3 DEF Stored
  <2> HIDE DEF room
  <2>3. /\ room.order \in Seq(Digest) /\ room.verdict \in [Digest -> Verdict]
        /\ IsInjective(room.order) /\ Range(room.order) = Held(room)
    BY <2>1 DEF Cache, InStep
  <2>4. /\ Append(room.order, h) \in Seq(Digest) /\ IsInjective(Append(room.order, h))
        /\ Range(Append(room.order, h)) = Range(room.order) \cup {h}
    BY <2>1, <2>3, AppendInStep
  <2>5. Held(s) = Held(room) \cup {h}
    BY <2>2, <2>3, <1>1 DEF Held
  <2>6. s \in Cache
    BY <2>2, <2>3, <2>4, <1>1 DEF Cache
  <2>7. InStep(s)
    <3>1. s.order = Append(room.order, h)
      BY <2>2
    <3>2. Range(s.order) = Held(s)
      BY <3>1, <2>3, <2>4, <2>5
    <3>3. QED
      BY <3>1, <3>2, <2>4 DEF InStep
  <2>8. Cardinality(Held(s)) = Cardinality(Held(room)) + 1
    <3>1. IsFiniteSet(Held(room))
      BY CacheAssumption, FS_Subset DEF Held
    <3>2. QED
      BY <3>1, <2>1, <2>5, FS_AddElement
  <2>9. QED
    BY <2>1, <2>6, <2>7, <2>8 DEF Bounded
<1>4. QED
  BY <1>2, <1>3

\* get moves a digest that is held to the back, and nothing else.
LEMMA ReadInStep ==
    ASSUME NEW c \in Cache, InStep(c), Bounded(c), NEW h \in Held(c)
    PROVE  Read(c, h) \in Cache /\ InStep(Read(c, h)) /\ Bounded(Read(c, h))
<1>1. /\ c.order \in Seq(Digest) /\ IsInjective(c.order) /\ Range(c.order) = Held(c)
      /\ h \in Digest
  BY DEF Cache, InStep, Held
<1>2. /\ Touched(c.order, h) \in Seq(Digest) /\ IsInjective(Touched(c.order, h))
      /\ Range(Touched(c.order, h)) = Range(c.order)
  <2>1. Range(Touched(c.order, h)) = Range(c.order) \cup {h}
    BY <1>1, TouchedInStep
  <2>2. QED
    BY <2>1, <1>1, TouchedInStep
<1>3. Read(c, h) \in Cache /\ Read(c, h).order = Touched(c.order, h)
      /\ Held(Read(c, h)) = Held(c)
  BY <1>2 DEF Read, Cache, Held
<1>4. QED
  BY <1>1, <1>2, <1>3 DEF InStep, Bounded

LEMMA EmptyInStep == EmptyCache \in Cache /\ InStep(EmptyCache) /\ Bounded(EmptyCache)
<1>1. Held(EmptyCache) = {}
  BY DEF Held, EmptyCache
<1>2. Cardinality(Held(EmptyCache)) = 0
  BY <1>1, FS_EmptySet
<1>3. Bounded(EmptyCache)
  BY <1>2, CacheAssumption DEF Bounded
<1>4. EmptyCache \in Cache
  BY DEF EmptyCache, Cache, Verdict
<1>5. EmptyCache.order = <<>>
  BY DEF EmptyCache
<1>6. InStep(EmptyCache)
  BY <1>1, <1>5 DEF InStep, IsInjective, Range
<1>7. QED
  BY <1>3, <1>4, <1>6

-----------------------------------------------------------------------------
(* Types.  The cache's own invariant is part of the induction: only a      *)
(* cache in step keeps its type through an eviction.                       *)

CacheInv == cache \in Cache /\ InStep(cache) /\ Bounded(cache)

World ==
    /\ file \in [Path -> Digest \cup {Nothing}]
    /\ notices \in Seq(Path) /\ Len(notices) <= NoticeSize
    /\ channel \in Seq(Path) /\ Len(channel) <= ChannelSize
    /\ faults \in 0..MaxFaults
    /\ others \in 0..MaxOthers

BackendTypes ==
    /\ status \in [Digest -> {"none", "completed"} \cup Backend!Progress]
    /\ grounds \in [Digest -> SUBSET Class]
    /\ known \in [Digest -> SUBSET Class]

Control ==
    /\ pc \in {"recv", "flush", "flush_lookup", "hash", "yara", "yara_hit",
               "cache", "lookup", "upload", "poll", "enqueue"}
    /\ event \in Event \cup {NoEvent}
    /\ (event = NoEvent) <=> (pc = "recv")
    /\ (event.sha = Nothing) <=> (pc \in {"recv", "flush", "flush_lookup", "hash"})
    /\ pc = "poll" => event.sent # Nothing
    /\ pc = "flush_lookup" => todo # <<>>
    /\ tries \in 0..(UploadAttempts + PollAttempts)

QueueTypes ==
    /\ todo \in Seq(Entry) /\ kept \in Seq(Entry)
    /\ queue \in Seq(Entry)
    /\ tail \in {"clean", "open", "partial"}
    /\ tail = "open" => queue # <<>>

History ==
    /\ owed \subseteq Entry /\ lost \subseteq Entry
    /\ missed \subseteq Path
    /\ misread \subseteq [sha: Digest, read: Digest]

LEMMA TypeParts ==
    TypeOK <=> /\ World /\ BackendTypes /\ Control /\ QueueTypes /\ History
               /\ cache \in Cache
BY DEF TypeOK, World, BackendTypes, Control, QueueTypes, History

\* A path and a digest the loop has in hand are ones.
LEMMA HandTypes ==
    ASSUME Control
    PROVE  /\ pc # "recv" => event \in Event /\ event.path \in Path
           /\ pc \notin {"recv", "flush", "flush_lookup", "hash"} =>
                 event.sha \in Digest /\ InHand \in Entry /\ Queued \in Entry
           /\ pc = "poll" => event.sent \in Digest
BY AgentAssumption DEF Control, Event, InHand, Queued, Entry

LEMMA HeadIsEntry ==
    ASSUME Control, QueueTypes, pc = "flush_lookup"
    PROVE  Head(todo) \in Entry /\ Head(todo).path \in Path /\ Head(todo).sha \in Digest
<1>1. todo \in Seq(Entry) /\ todo # <<>>
  BY DEF Control, QueueTypes
<1>2. Head(todo) \in Entry
  BY <1>1
<1>3. QED
  BY <1>2 DEF Entry

LEMMA CacheStep ==
    ASSUME TypeOK, CacheInv, [Next]_vars
    PROVE  CacheInv'
<1>1. World /\ BackendTypes /\ Control /\ QueueTypes
  BY TypeParts
<1>2. CASE UNCHANGED cache
  BY <1>2 DEF CacheInv, InStep, Bounded
<1>3. ASSUME NEW h \in Digest, NEW v \in Class, cache' = Stored(cache, h, v)
      PROVE  CacheInv'
  <2>1. Stored(cache, h, v) \in Cache /\ InStep(Stored(cache, h, v)) /\ Bounded(Stored(cache, h, v))
    BY StoredInStep DEF CacheInv
  <2>2. QED
    BY <1>3, <2>1 DEF CacheInv, InStep, Bounded
<1>4. CASE FlushFound
  BY <1>1, <1>3, <1>4, HeadIsEntry DEF FlushFound, BackendTypes,
                                       FlushVerdictAt, FlushVerdict, envVars,
                                       history
<1>5. CASE YaraEnforce
  BY <1>1, <1>3, <1>5, HandTypes, AgentAssumption DEF YaraEnforce, Conclude
<1>6. CASE CacheHit
  <2>1. Read(cache, event.sha) \in Cache /\ InStep(Read(cache, event.sha))
        /\ Bounded(Read(cache, event.sha))
    BY <1>6, ReadInStep DEF CacheHit, CacheInv, envVars, history
  <2>2. QED
    BY <1>6, <2>1 DEF CacheHit, CacheInv, InStep, Bounded, envVars, history
<1>7. CASE LookupFound
  BY <1>1, <1>3, <1>7, HandTypes DEF LookupFound, Conclude, BackendTypes,
                                     envVars, history
<1>8. CASE PollCompleted
  BY <1>1, <1>3, <1>8, HandTypes DEF PollCompleted, Conclude, BackendTypes,
                                     envVars, history
<1>9. CASE Crash
  BY <1>9, EmptyInStep DEF Crash, CacheInv, InStep, Bounded, envVars, history
<1>10. QED
  BY <1>2, <1>4, <1>5, <1>6, <1>7, <1>8, <1>9
     DEF Next, LoopStep, LoopFailure, Environment, Users, vars, fileVars,
         flushVars,
         queueVars, backendVars, Receive, FlushGone, FlushAsk, FlushUnknown,
         Rewrite, HashFile, YaraMatch, YaraPasses, CacheMiss, LookupMiss,
         UploadOk,
         UploadFails, PollAgain, Enqueue, RewriteFails, HashFails,
         LookupFails, PollGivesUp, EnqueueFails, Write, CloseWrite,
         ChangeQuietly,
         Notify, Deliver, DeliverFails, Analyse, Elsewhere, agentVars, Passed,
         FlushNoVerdict, envVars,
         history

\* What an event of the users does to the kernel's queue.
LEMMA NotifyTypes ==
    ASSUME World, History, NEW p \in Path, Notify(p)
    PROVE  /\ notices' \in Seq(Path) /\ Len(notices') <= NoticeSize
           /\ missed' \subseteq Path
<1>1. notices \in Seq(Path) /\ Len(notices) <= NoticeSize /\ missed \subseteq Path
  BY DEF World, History
<1>2. CASE Len(notices) < NoticeSize
  <2>1. notices' = Append(notices, p) /\ missed' = missed \ {p}
    BY <1>2 DEF Notify
  <2>2. Append(notices, p) \in Seq(Path) /\ Len(Append(notices, p)) = Len(notices) + 1
    BY <1>1
  <2>3. QED
    BY <1>1, <1>2, <2>1, <2>2, AgentAssumption
<1>3. CASE ~(Len(notices) < NoticeSize)
  BY <1>1, <1>3 DEF Notify, Overlooked
<1>4. QED
  BY <1>2, <1>3

\* What a later read of the file in hand adds to the history.
LEMMA ReadAgainTypes ==
    ASSUME History, event.sha \in Digest, NEW bytes \in Digest, ReadAgain(bytes)
    PROVE  misread' \subseteq [sha: Digest, read: Digest]
BY DEF ReadAgain, History

\* The watcher has a path in hand.
LEMMA HeadIsPath ==
    ASSUME World, notices # <<>>
    PROVE  Head(notices) \in Path
BY DEF World

\* The world the agent lives in keeps its types.
LEMMA WorldStep ==
    ASSUME TypeOK, [Next]_vars
    PROVE  World'
<1>0. World /\ Control /\ QueueTypes /\ History
  BY TypeParts
<1>1. CASE Receive
  BY <1>0, AgentAssumption, <1>1
     DEF Receive, World, Fault, fileVars, backendVars, envVars, history
<1>2. CASE FlushGone
  BY <1>0, AgentAssumption, <1>2
     DEF FlushGone, World, Fault, fileVars, backendVars, envVars, history
<1>3. CASE FlushAsk
  BY <1>0, AgentAssumption, <1>3
     DEF FlushAsk, World, Fault, fileVars, backendVars, envVars, history
<1>4. CASE FlushFound
  BY <1>0, AgentAssumption, <1>4, HeadIsEntry
     DEF FlushFound, ApplyPolicy, Enforce, World, Fault, fileVars,
         backendVars, FlushVerdictAt, FlushVerdict, envVars, history
<1>5. CASE FlushUnknown
  BY <1>0, AgentAssumption, <1>5
     DEF FlushUnknown, World, Fault, fileVars, backendVars, FlushNoVerdict,
         envVars, history
<1>6. CASE Rewrite
  BY <1>0, AgentAssumption, <1>6
     DEF Rewrite, World, Fault, fileVars, backendVars, envVars, history
<1>7. CASE HashFile
  BY <1>0, AgentAssumption, <1>7
     DEF HashFile, World, Fault, fileVars, backendVars, envVars, history
<1>8. CASE YaraMatch
  BY <1>0, AgentAssumption, <1>8
     DEF YaraMatch, Enforce, World, Fault, fileVars, backendVars, envVars,
         history
<1>9. CASE YaraPasses
  BY <1>0, AgentAssumption, <1>9
     DEF YaraPasses, World, Fault, fileVars, backendVars, envVars, history
<1>10. CASE CacheHit
  BY <1>0, AgentAssumption, <1>10
     DEF CacheHit, ApplyPolicy, Enforce, World, Fault, fileVars, backendVars,
         envVars, history
<1>11. CASE CacheMiss
  BY <1>0, AgentAssumption, <1>11
     DEF CacheMiss, World, Fault, fileVars, backendVars, envVars, history
<1>12. CASE LookupFound
  BY <1>0, AgentAssumption, <1>12
     DEF LookupFound, Conclude, ApplyPolicy, Enforce, World, Fault, fileVars,
         backendVars, envVars, history
<1>13. CASE LookupMiss
  BY <1>0, AgentAssumption, <1>13
     DEF LookupMiss, World, Fault, fileVars, backendVars, envVars, history
<1>14. CASE UploadOk
  BY <1>0, AgentAssumption, <1>14
     DEF UploadOk, World, Fault, fileVars, backendVars, envVars, history
<1>15. CASE UploadFails
  BY <1>0, AgentAssumption, <1>15
     DEF UploadFails, World, Fault, fileVars, backendVars, envVars, history
<1>16. CASE PollCompleted
  BY <1>0, AgentAssumption, <1>16
     DEF PollCompleted, Conclude, ApplyPolicy, Enforce, World, Fault,
         fileVars, backendVars, envVars, history
<1>17. CASE PollAgain
  BY <1>0, AgentAssumption, <1>17
     DEF PollAgain, World, Fault, fileVars, backendVars, envVars, history
<1>18. CASE Enqueue
  BY <1>0, AgentAssumption, <1>18
     DEF Enqueue, World, Fault, fileVars, backendVars, envVars, history
<1>19. CASE RewriteFails
  BY <1>0, AgentAssumption, <1>19
     DEF RewriteFails, World, Fault, fileVars, backendVars, envVars, history
<1>20. CASE HashFails
  BY <1>0, AgentAssumption, <1>20
     DEF HashFails, World, Fault, fileVars, backendVars, envVars, history
<1>21. CASE LookupFails
  BY <1>0, AgentAssumption, <1>21
     DEF LookupFails, World, Fault, fileVars, backendVars, envVars, history
<1>22. CASE PollGivesUp
  BY <1>0, AgentAssumption, <1>22
     DEF PollGivesUp, World, Fault, fileVars, backendVars, envVars, history
<1>23. CASE EnqueueFails
  BY <1>0, AgentAssumption, <1>23
     DEF EnqueueFails, World, Fault, fileVars, backendVars, envVars, history
<1>24. CASE Crash
  BY <1>0, AgentAssumption, <1>24 DEF Crash, World, Fault, fileVars,
                                      backendVars, envVars, history
<1>25. ASSUME NEW p \in Path, NEW content \in Digest, Write(p, content)
       PROVE  World'
  BY <1>0, NotifyTypes, AgentAssumption, <1>25
     DEF Write, Another, World, Fault, fileVars, backendVars, Verdict, envVars,
         history
<1>26. ASSUME NEW p \in Path, CloseWrite(p)
       PROVE  World'
  BY <1>0, NotifyTypes, AgentAssumption, <1>26
     DEF CloseWrite, World, Fault, fileVars, backendVars, Verdict, envVars,
         history
<1>27. CASE Deliver
  BY <1>0, AgentAssumption, <1>27
     DEF Deliver, World, Fault, fileVars, backendVars, Verdict, Passed,
         envVars, history
<1>28. ASSUME NEW h \in Digest, Analyse(h)
       PROVE  World'
  BY <1>0, AgentAssumption, <1>28
     DEF Analyse, agentVars, World, Fault, fileVars, backendVars, Verdict,
         envVars,
         history
<1>29. CASE Elsewhere
  BY <1>0, AgentAssumption, <1>29
     DEF Elsewhere, Another, agentVars, World, Fault, fileVars, backendVars,
         Verdict, envVars,
         history
<1>30. CASE UNCHANGED vars
  BY <1>0, AgentAssumption, <1>30
     DEF vars, World, Fault, fileVars, backendVars, Verdict, envVars, history
<1>31. CASE YaraEnforce
  BY <1>0, AgentAssumption, <1>31
     DEF YaraEnforce, Conclude, ApplyPolicy, Enforce, Done, World, Fault,
         fileVars, backendVars, envVars, history
<1>32. ASSUME NEW p \in Path, NEW content \in Digest \cup {Nothing},
              ChangeQuietly(p, content)
       PROVE  World'
  BY <1>0, AgentAssumption, <1>32
     DEF ChangeQuietly, Another, World, Fault, fileVars, backendVars, Verdict,
         envVars, history
<1>33. CASE DeliverFails
  BY <1>0, AgentAssumption, <1>33
     DEF DeliverFails, Fault, World, fileVars, backendVars, Verdict, Passed,
         envVars, history
<1>34. QED
  BY <1>1, <1>2, <1>3, <1>4, <1>5, <1>6, <1>7, <1>8, <1>9, <1>10, <1>11,
     <1>12, <1>13, <1>14, <1>15, <1>16, <1>17, <1>18, <1>19, <1>20, <1>21,
     <1>22, <1>23, <1>24, <1>25, <1>26, <1>27, <1>28, <1>29, <1>30, <1>31,
     <1>32, <1>33
     DEF Next, LoopStep, LoopFailure, Environment, Users

\* What is uploaded is a content.
LEMMA UploadTypes ==
    ASSUME TypeOK, pc = "upload", file[event.path] # Nothing
    PROVE  file[event.path] \in Digest
<1>1. World /\ Control
  BY TypeParts
<1>2. QED
  BY <1>1, HandTypes DEF World

(* The agent's uploads are submissions, the analyses end as the service    *)
(* says, and nothing else of the agent's touches the backend.              *)
LEMMA ServiceStep ==
    ASSUME TypeOK, [Next]_vars
    PROVE  [Backend!Next]_(Backend!serviceVars)
<1>1. ASSUME NEW h \in Digest, Analyse(h)
      PROVE  Backend!Next
  BY <1>1 DEF Analyse, Backend!Settle, Backend!Next, Backend!Progress
<1>2. ASSUME NEW h \in Digest, Submitted(h)
      PROVE  [Backend!Next]_(Backend!serviceVars)
  BY <1>2 DEF Submitted, Backend!Next, Backend!serviceVars, backendVars
<1>3. CASE UNCHANGED backendVars
  BY <1>3 DEF backendVars, Backend!serviceVars
<1>4. CASE UploadOk
  BY <1>2, <1>4, UploadTypes DEF UploadOk
<1>5. CASE UploadFails
  BY <1>2, <1>3, <1>5, UploadTypes DEF UploadFails
<1>6. CASE Elsewhere
  BY <1>6 DEF Elsewhere
<1>7. QED
  BY <1>1, <1>3, <1>4, <1>5, <1>6
     DEF Next, LoopStep, LoopFailure, Environment, Users, vars, Receive,
         FlushGone,
         FlushAsk, FlushFound, FlushVerdictAt, FlushVerdict, FlushUnknown,
         FlushNoVerdict,
         Rewrite, HashFile, YaraMatch, YaraEnforce, YaraPasses, CacheHit,
         CacheMiss,
         LookupFound, LookupMiss, Conclude, PollCompleted, PollAgain,
         PollGivesUp, Enqueue, RewriteFails, HashFails, LookupFails,
         EnqueueFails, Crash, Write, CloseWrite, ChangeQuietly, Notify,
         Deliver, DeliverFails, Passed, envVars,
         backendVars

\* The backend keeps its types.
LEMMA BackendStep ==
    ASSUME TypeOK, [Next]_vars
    PROVE  BackendTypes'
<1>1. BackendTypes
  BY TypeParts
<1>2. [Backend!Next]_(Backend!serviceVars)
  BY ServiceStep
<1>3. QED
  BY <1>1, <1>2
     DEF BackendTypes, Backend!Next, Backend!Submit, Backend!Judge,
         Backend!Track, Backend!Revise, Backend!Progress, Backend!serviceVars

\* The loop's position and the event in hand fit each other.
LEMMA ControlStep ==
    ASSUME TypeOK, [Next]_vars
    PROVE  Control'
<1>0. World /\ Control /\ QueueTypes
  BY TypeParts
<1>1. CASE Receive
  BY <1>0, AgentAssumption, HandTypes, <1>1
     DEF Receive, World, Control, Event, NoEvent, flushVars, envVars, history
<1>2. CASE FlushGone
  BY <1>0, AgentAssumption, HandTypes, <1>2
     DEF FlushGone, Control, Event, NoEvent, flushVars, envVars, history
<1>3. CASE FlushAsk
  BY <1>0, AgentAssumption, HandTypes, <1>3
     DEF FlushAsk, Control, Event, NoEvent, flushVars, envVars, history
<1>4. CASE FlushFound
  BY <1>0, AgentAssumption, HandTypes, <1>4
     DEF FlushFound, Control, Event, NoEvent, flushVars, FlushVerdictAt,
         FlushVerdict,
         envVars, history
<1>5. CASE FlushUnknown
  BY <1>0, AgentAssumption, HandTypes, <1>5
     DEF FlushUnknown, Control, Event, NoEvent, flushVars, FlushNoVerdict,
         envVars, history
<1>6. CASE Rewrite
  BY <1>0, AgentAssumption, HandTypes, <1>6
     DEF Rewrite, Control, Event, NoEvent, flushVars, envVars, history
<1>7. CASE HashFile
  <2>0. event \in Event /\ event.path \in Path
    BY <1>0, HandTypes, <1>7 DEF HashFile
  <2>1. CASE file[event.path] = Nothing
    BY <1>0, AgentAssumption, <1>7, <2>1 DEF HashFile, Done, Control, NoEvent
  <2>2. CASE file[event.path] # Nothing
    <3>1. /\ event' = [event EXCEPT !.sha = file[event.path]]
          /\ pc' = "yara" /\ tries' = tries /\ todo' = todo
          /\ file[event.path] \in Digest
      BY <1>0, <1>7, <2>0, <2>2 DEF HashFile, World, flushVars
    <3>2. event' \in Event /\ event'.path \in Path /\ event'.sha # Nothing
      BY <2>0, <2>2, <3>1 DEF Event
    <3>3. event' # NoEvent
      BY <3>2, AgentAssumption DEF NoEvent
    <3>4. QED
      BY <1>0, <3>1, <3>2, <3>3 DEF Control
  <2>3. QED
    BY <2>1, <2>2
<1>8. CASE YaraMatch
  BY <1>0, AgentAssumption, HandTypes, <1>8
     DEF YaraMatch, Done, Control, Event, NoEvent, flushVars, envVars, history
<1>9. CASE YaraPasses
  BY <1>0, AgentAssumption, HandTypes, <1>9
     DEF YaraPasses, Control, Event, NoEvent, flushVars, envVars, history
<1>10. CASE CacheHit
  BY <1>0, AgentAssumption, HandTypes, <1>10
     DEF CacheHit, Done, Control, Event, NoEvent, flushVars, envVars, history
<1>11. CASE CacheMiss
  BY <1>0, AgentAssumption, HandTypes, <1>11
     DEF CacheMiss, Control, Event, NoEvent, flushVars, envVars, history
<1>12. CASE LookupFound
  BY <1>0, AgentAssumption, HandTypes, <1>12
     DEF LookupFound, Conclude, Done, Control, Event, NoEvent, flushVars,
         envVars, history
<1>13. CASE LookupMiss
  BY <1>0, AgentAssumption, HandTypes, <1>13
     DEF LookupMiss, Control, Event, NoEvent, flushVars, envVars, history
<1>14. CASE UploadOk
  <2>1. /\ event' = [event EXCEPT !.sent = file[event.path]]
        /\ event \in Event /\ event.path \in Path /\ event.sha # Nothing
        /\ file[event.path] \in Digest
    BY <1>0, HandTypes, <1>14
       DEF UploadOk, World, Control, Event, NoEvent
  <2>2. /\ event' \in Event /\ event'.path \in Path /\ event'.sha # Nothing
        /\ event'.sent # Nothing
    BY <2>1, AgentAssumption DEF Event
  <2>3. event' # NoEvent
    BY <2>2, AgentAssumption DEF NoEvent
  <2> QED
    BY <1>14, <2>2, <2>3, AgentAssumption DEF UploadOk, Control
<1>15. CASE UploadFails
  BY <1>0, AgentAssumption, HandTypes, <1>15
     DEF UploadFails, Control, Event, NoEvent, flushVars, envVars, history
<1>16. CASE PollCompleted
  BY <1>0, AgentAssumption, HandTypes, <1>16
     DEF PollCompleted, Conclude, Done, Control, Event, NoEvent, flushVars,
         envVars, history
<1>17. CASE PollAgain
  BY <1>0, AgentAssumption, HandTypes, <1>17
     DEF PollAgain, Control, Event, NoEvent, flushVars, envVars, history
<1>18. CASE Enqueue
  BY <1>0, AgentAssumption, HandTypes, <1>18
     DEF Enqueue, Done, Control, Event, NoEvent, flushVars, envVars, history
<1>19. CASE RewriteFails
  BY <1>0, AgentAssumption, HandTypes, <1>19
     DEF RewriteFails, Control, Event, NoEvent, flushVars, envVars, history
<1>20. CASE HashFails
  BY <1>0, AgentAssumption, HandTypes, <1>20
     DEF HashFails, Done, Control, Event, NoEvent, flushVars, envVars, history
<1>21. CASE LookupFails
  BY <1>0, AgentAssumption, HandTypes, <1>21
     DEF LookupFails, Control, Event, NoEvent, flushVars, envVars, history
<1>22. CASE PollGivesUp
  BY <1>0, AgentAssumption, HandTypes, <1>22
     DEF PollGivesUp, Control, Event, NoEvent, flushVars, envVars, history
<1>23. CASE EnqueueFails
  BY <1>0, AgentAssumption, HandTypes, <1>23
     DEF EnqueueFails, Done, Control, Event, NoEvent, flushVars, envVars,
         history
<1>24. CASE Crash
  BY <1>0, AgentAssumption, HandTypes, <1>24
     DEF Crash, Done, Control, Event, NoEvent, flushVars, envVars, history
<1>25. ASSUME NEW p \in Path, NEW content \in Digest, Write(p, content)
       PROVE  Control'
  BY <1>0, AgentAssumption, HandTypes, <1>25
     DEF Write, Notify, Control, Event, NoEvent, flushVars, envVars, history
<1>26. ASSUME NEW p \in Path, CloseWrite(p)
       PROVE  Control'
  BY <1>0, AgentAssumption, HandTypes, <1>26
     DEF CloseWrite, Notify, Control, Event, NoEvent, flushVars, envVars,
         history
<1>27. CASE Deliver
  BY <1>0, AgentAssumption, HandTypes, <1>27
     DEF Deliver, Control, Event, NoEvent, flushVars, Passed, envVars, history
<1>28. ASSUME NEW h \in Digest, Analyse(h)
       PROVE  Control'
  BY <1>0, AgentAssumption, HandTypes, <1>28
     DEF Analyse, agentVars, Control, Event, NoEvent, flushVars, envVars,
         history
<1>29. CASE Elsewhere
  BY <1>0, AgentAssumption, HandTypes, <1>29
     DEF Elsewhere, agentVars, Control, Event, NoEvent, flushVars, envVars,
         history
<1>30. CASE UNCHANGED vars
  BY <1>0, AgentAssumption, HandTypes, <1>30
     DEF vars, Control, Event, NoEvent, flushVars, envVars, history
<1>31. CASE YaraEnforce
  BY <1>0, AgentAssumption, HandTypes, <1>31
     DEF YaraEnforce, Conclude, ApplyPolicy, Enforce, Done, Control, Event,
         NoEvent, flushVars, envVars, history
<1>32. ASSUME NEW p \in Path, NEW content \in Digest \cup {Nothing},
              ChangeQuietly(p, content)
       PROVE  Control'
  BY <1>0, AgentAssumption, HandTypes, <1>32
     DEF ChangeQuietly, Control, Event, NoEvent, flushVars, envVars, history
<1>33. CASE DeliverFails
  BY <1>0, AgentAssumption, HandTypes, <1>33
     DEF DeliverFails, Fault, Control, Event, NoEvent, flushVars, Passed,
         envVars, history
<1>34. QED
  BY <1>1, <1>2, <1>3, <1>4, <1>5, <1>6, <1>7, <1>8, <1>9, <1>10, <1>11,
     <1>12, <1>13, <1>14, <1>15, <1>16, <1>17, <1>18, <1>19, <1>20, <1>21,
     <1>22, <1>23, <1>24, <1>25, <1>26, <1>27, <1>28, <1>29, <1>30, <1>31,
     <1>32, <1>33
     DEF Next, LoopStep, LoopFailure, Environment, Users
\* What a cut write of the queue file leaves is still a queue file.
LEMMA RewriteCutTypes ==
    ASSUME QueueTypes, RewriteCut
    PROVE  /\ queue' \in Seq(Entry) /\ tail' \in {"clean", "open", "partial"}
           /\ tail' = "open" => queue' # <<>>
<1>1. CASE UNCHANGED queueVars
  BY <1>1 DEF queueVars, QueueTypes
<1>2. ASSUME NEW n \in 0..Len(kept), NEW end \in {"clean", "open", "partial"},
             queue' = SubSeq(kept, 1, n), tail' = end, end = "open" => n > 0
      PROVE  /\ queue' \in Seq(Entry) /\ tail' \in {"clean", "open", "partial"}
             /\ tail' = "open" => queue' # <<>>
  <2>1. SubSeq(kept, 1, n) \in Seq(Entry) /\ Len(SubSeq(kept, 1, n)) = n
    BY DEF QueueTypes
  <2>2. QED
    BY <1>2, <2>1
<1>3. QED
  BY <1>1, <1>2 DEF RewriteCut

LEMMA AppendedTypes ==
    ASSUME QueueTypes, NEW e \in Entry
    PROVE  /\ Appended(queue, tail, e) \in Seq(Entry)
           /\ tail = "clean" => Appended(queue, tail, e) # <<>>
           /\ tail = "open" => Appended(queue, tail, e) = Front(queue) /\ Front(queue) \in Seq(Entry)
<1>1. tail = "open" => Front(queue) \in Seq(Entry)
  BY DEF QueueTypes, Front
<1>2. /\ tail = "clean" => Appended(queue, tail, e) = Append(queue, e)
      /\ tail = "open" => Appended(queue, tail, e) = Front(queue)
      /\ tail = "partial" => Appended(queue, tail, e) = queue
  BY DEF Appended
<1>3. Append(queue, e) \in Seq(Entry) /\ Append(queue, e) # <<>>
  BY DEF QueueTypes
<1>4. QED
  BY <1>1, <1>2, <1>3 DEF QueueTypes

LEMMA EnqueueCutTypes ==
    ASSUME QueueTypes, Queued \in Entry, EnqueueCut
    PROVE  /\ queue' \in Seq(Entry) /\ tail' \in {"clean", "open", "partial"}
           /\ tail' = "open" => queue' # <<>>
BY AppendedTypes DEF EnqueueCut, QueueTypes, queueVars

\* The offline queue and the flush over it keep their types.
LEMMA QueueStep ==
    ASSUME TypeOK, [Next]_vars
    PROVE  QueueTypes'
<1>0. World /\ Control /\ QueueTypes
  BY TypeParts
<1>1. CASE Receive
  <2>1. kept' = kept /\ queue' = queue /\ tail' = tail
    BY <1>1 DEF Receive, queueVars
  <2>2. todo' = queue \/ todo' = <<>>
    BY <1>1 DEF Receive
  <2>3. <<>> \in Seq(Entry)
    OBVIOUS
  <2>4. QED
    BY <1>0, <2>1, <2>2, <2>3 DEF QueueTypes
<1>2. CASE FlushGone
  BY <1>0, <1>2 DEF FlushGone, QueueTypes, flushVars, queueVars, envVars,
                    history
<1>3. CASE FlushAsk
  BY <1>0, <1>3 DEF FlushAsk, QueueTypes, flushVars, queueVars, envVars,
                    history
<1>4. CASE FlushFound
  BY <1>0, <1>4 DEF FlushFound, Control, QueueTypes, flushVars, queueVars,
                    FlushVerdictAt, FlushVerdict, envVars, history
<1>5. CASE FlushUnknown
  BY <1>0, <1>5, HeadIsEntry
     DEF FlushUnknown, Control, QueueTypes, flushVars, queueVars,
         FlushNoVerdict, envVars, history
<1>6. CASE Rewrite
  BY <1>0, <1>6 DEF Rewrite, QueueTypes, flushVars, queueVars, envVars,
                    history
<1>7. CASE HashFile
  BY <1>0, <1>7 DEF HashFile, QueueTypes, flushVars, queueVars, envVars,
                    history
<1>8. CASE YaraMatch
  BY <1>0, <1>8 DEF YaraMatch, QueueTypes, flushVars, queueVars, envVars,
                    history
<1>9. CASE YaraPasses
  BY <1>0, <1>9 DEF YaraPasses, QueueTypes, flushVars, queueVars, envVars,
                    history
<1>10. CASE CacheHit
  BY <1>0, <1>10 DEF CacheHit, QueueTypes, flushVars, queueVars, envVars,
                     history
<1>11. CASE CacheMiss
  BY <1>0, <1>11 DEF CacheMiss, QueueTypes, flushVars, queueVars, envVars,
                     history
<1>12. CASE LookupFound
  BY <1>0, <1>12 DEF LookupFound, Conclude, QueueTypes, flushVars, queueVars,
                     envVars, history
<1>13. CASE LookupMiss
  BY <1>0, <1>13 DEF LookupMiss, QueueTypes, flushVars, queueVars, envVars,
                     history
<1>14. CASE UploadOk
  BY <1>0, <1>14 DEF UploadOk, QueueTypes, flushVars, queueVars, envVars,
                     history
<1>15. CASE UploadFails
  BY <1>0, <1>15 DEF UploadFails, QueueTypes, flushVars, queueVars, envVars,
                     history
<1>16. CASE PollCompleted
  BY <1>0, <1>16 DEF PollCompleted, Conclude, QueueTypes, flushVars,
                     queueVars, envVars, history
<1>17. CASE PollAgain
  BY <1>0, <1>17 DEF PollAgain, QueueTypes, flushVars, queueVars, envVars,
                     history
<1>18. CASE Enqueue
  BY <1>0, <1>18, HandTypes, AppendedTypes
     DEF Enqueue, QueueTypes, flushVars, queueVars, envVars, history
<1>19. CASE RewriteFails
  BY <1>0, <1>19, RewriteCutTypes
     DEF RewriteFails, QueueTypes, flushVars, queueVars, envVars, history
<1>20. CASE HashFails
  BY <1>0, <1>20 DEF HashFails, QueueTypes, flushVars, queueVars, envVars,
                     history
<1>21. CASE LookupFails
  BY <1>0, <1>21 DEF LookupFails, QueueTypes, flushVars, queueVars, envVars,
                     history
<1>22. CASE PollGivesUp
  BY <1>0, <1>22 DEF PollGivesUp, QueueTypes, flushVars, queueVars, envVars,
                     history
<1>23. CASE EnqueueFails
  BY <1>0, <1>23, HandTypes, EnqueueCutTypes
     DEF EnqueueFails, QueueTypes, flushVars, queueVars, envVars, history
<1>24. CASE Crash
  BY <1>0, <1>24, HandTypes, RewriteCutTypes, EnqueueCutTypes
     DEF Crash, QueueTypes, flushVars, queueVars, envVars, history
<1>25. ASSUME NEW p \in Path, NEW content \in Digest, Write(p, content)
       PROVE  QueueTypes'
  BY <1>0, <1>25
     DEF Write, Notify, QueueTypes, flushVars, queueVars, envVars, history
<1>26. ASSUME NEW p \in Path, CloseWrite(p)
       PROVE  QueueTypes'
  BY <1>0, <1>26
     DEF CloseWrite, Notify, QueueTypes, flushVars, queueVars, envVars,
                     history
<1>27. CASE Deliver
  BY <1>0, <1>27 DEF Deliver, QueueTypes, flushVars, queueVars, Passed,
                     envVars, history
<1>28. ASSUME NEW h \in Digest, Analyse(h)
       PROVE  QueueTypes'
  BY <1>0, <1>28
     DEF Analyse, agentVars, QueueTypes, flushVars, queueVars, envVars,
                     history
<1>29. CASE Elsewhere
  BY <1>0, <1>29
     DEF Elsewhere, agentVars, QueueTypes, flushVars, queueVars, envVars,
                     history
<1>30. CASE UNCHANGED vars
  BY <1>0, <1>30 DEF vars, QueueTypes, flushVars, queueVars, envVars, history
<1>31. CASE YaraEnforce
  BY <1>0, <1>31
     DEF YaraEnforce, Conclude, ApplyPolicy, Enforce, Done, QueueTypes,
         flushVars, queueVars, envVars, history
<1>32. ASSUME NEW p \in Path, NEW content \in Digest \cup {Nothing},
              ChangeQuietly(p, content)
       PROVE  QueueTypes'
  BY <1>0, <1>32
     DEF ChangeQuietly, QueueTypes, flushVars, queueVars, envVars, history
<1>33. CASE DeliverFails
  BY <1>0, <1>33
     DEF DeliverFails, Fault, QueueTypes, flushVars, queueVars, Passed,
         envVars, history
<1>34. QED
  BY <1>1, <1>2, <1>3, <1>4, <1>5, <1>6, <1>7, <1>8, <1>9, <1>10, <1>11,
     <1>12, <1>13, <1>14, <1>15, <1>16, <1>17, <1>18, <1>19, <1>20, <1>21,
     <1>22, <1>23, <1>24, <1>25, <1>26, <1>27, <1>28, <1>29, <1>30, <1>31,
     <1>32, <1>33
     DEF Next, LoopStep, LoopFailure, Environment, Users

\* What the agent has still to hash are paths.
LEMMA PendingTypes ==
    ASSUME World, Control
    PROVE  Pending \subseteq Path
BY HandTypes DEF Pending, World, Range

\* What is owed and what is lost are paths with digests.
LEMMA HistoryStep ==
    ASSUME TypeOK, [Next]_vars
    PROVE  History'
<1>0. World /\ Control /\ QueueTypes /\ History
  BY TypeParts
<1>1. CASE Receive
  BY <1>0, <1>1 DEF Receive, History, envVars, history
<1>2. CASE FlushGone
  BY <1>0, <1>2 DEF FlushGone, History, envVars, history
<1>3. CASE FlushAsk
  BY <1>0, <1>3 DEF FlushAsk, History, envVars, history
<1>4. CASE FlushFound
  BY <1>0, <1>4
     DEF FlushFound, History, FlushVerdictAt, FlushVerdict, envVars, history
<1>5. CASE FlushUnknown
  BY <1>0, <1>5 DEF FlushUnknown, History, FlushNoVerdict, envVars, history
<1>6. CASE Rewrite
  BY <1>0, <1>6 DEF Rewrite, History, envVars, history
<1>7. CASE HashFile
  BY <1>0, <1>7, HandTypes DEF HashFile, World, Entry, History, envVars,
                               history
<1>8. CASE YaraMatch
  <2>1. event.sha \in Digest /\ file[Scanned] \in Digest /\ ReadAgain(file[Scanned])
    BY <1>0, <1>8, HandTypes, AgentAssumption DEF YaraMatch
  <2>2. QED
    BY <1>0, <1>8, <2>1, ReadAgainTypes DEF YaraMatch, History
<1>9. CASE YaraPasses
  BY <1>0, <1>9 DEF YaraPasses, History, envVars, history
<1>10. CASE CacheHit
  BY <1>0, <1>10 DEF CacheHit, History, envVars, history
<1>11. CASE CacheMiss
  BY <1>0, <1>11 DEF CacheMiss, History, envVars, history
<1>12. CASE LookupFound
  BY <1>0, <1>12 DEF LookupFound, Conclude, History, envVars, history
<1>13. CASE LookupMiss
  BY <1>0, <1>13 DEF LookupMiss, History, envVars, history
<1>14. CASE UploadOk
  <2>1. /\ event.sha \in Digest /\ file[event.path] \in Digest
        /\ ReadAgain(file[event.path])
    BY <1>0, <1>14, HandTypes, UploadTypes DEF UploadOk
  <2>2. QED
    BY <1>0, <1>14, <2>1, ReadAgainTypes DEF UploadOk, History
<1>15. CASE UploadFails
  BY <1>0, <1>15 DEF UploadFails, History, envVars, history
<1>16. CASE PollCompleted
  BY <1>0, <1>16 DEF PollCompleted, Conclude, History, envVars, history
<1>17. CASE PollAgain
  BY <1>0, <1>17 DEF PollAgain, History, envVars, history
<1>18. CASE Enqueue
  BY <1>0, <1>18 DEF Enqueue, Forgotten, History, envVars, history
<1>19. CASE RewriteFails
  BY <1>0, <1>19 DEF RewriteFails, Forgotten, History, envVars, history
<1>20. CASE HashFails
  BY <1>0, <1>20, HandTypes DEF HashFails, Overlooked, History
<1>21. CASE LookupFails
  BY <1>0, <1>21 DEF LookupFails, History, envVars, history
<1>22. CASE PollGivesUp
  BY <1>0, <1>22 DEF PollGivesUp, History, envVars, history
<1>23. CASE EnqueueFails
  BY <1>0, <1>23 DEF EnqueueFails, Forgotten, History, envVars, history
<1>24. CASE Crash
  BY <1>0, <1>24, PendingTypes DEF Crash, History, envVars, history
<1>25. ASSUME NEW p \in Path, NEW content \in Digest, Write(p, content)
       PROVE  History'
  BY <1>0, <1>25, NotifyTypes DEF Write, History
<1>26. ASSUME NEW p \in Path, CloseWrite(p)
       PROVE  History'
  BY <1>0, <1>26, NotifyTypes DEF CloseWrite, History
<1>27. CASE Deliver
  BY <1>0, <1>27 DEF Deliver, History, Passed, envVars, history
<1>28. ASSUME NEW h \in Digest, Analyse(h)
       PROVE  History'
  BY <1>0, <1>28 DEF Analyse, agentVars, History, envVars, history
<1>29. CASE Elsewhere
  BY <1>0, <1>29 DEF Elsewhere, agentVars, History, envVars, history
<1>30. CASE UNCHANGED vars
  BY <1>0, <1>30 DEF vars, History, envVars, history
<1>31. CASE YaraEnforce
  BY <1>0, <1>31, HandTypes
     DEF YaraEnforce, Conclude, ApplyPolicy, Enforce, Done, History, envVars,
         history
<1>32. ASSUME NEW p \in Path, NEW content \in Digest \cup {Nothing},
              ChangeQuietly(p, content)
       PROVE  History'
  BY <1>0, <1>32 DEF ChangeQuietly, History, envVars, history
<1>33. CASE DeliverFails
  BY <1>0, <1>33, HeadIsPath DEF DeliverFails, Overlooked, History, Passed
<1>34. QED
  BY <1>1, <1>2, <1>3, <1>4, <1>5, <1>6, <1>7, <1>8, <1>9, <1>10, <1>11,
     <1>12, <1>13, <1>14, <1>15, <1>16, <1>17, <1>18, <1>19, <1>20, <1>21,
     <1>22, <1>23, <1>24, <1>25, <1>26, <1>27, <1>28, <1>29, <1>30, <1>31,
     <1>32, <1>33
     DEF Next, LoopStep, LoopFailure, Environment, Users

LEMMA InitTypes == Init => TypeOK /\ CacheInv
BY AgentAssumption, EmptyInStep
   DEF Init, TypeOK, CacheInv, InStep, Bounded, NoEvent, Verdict, Event,
       Backend!Init

-----------------------------------------------------------------------------
(* The agent's variables keep their types for any paths, digests, cache    *)
(* capacity, channel size, numbers of attempts and faults; in particular   *)
(* the channel never holds more than it may, and pc says what is in hand.  *)
THEOREM TypeCorrect == Spec => []TypeOK
<1>1. Init => TypeOK /\ CacheInv
  BY InitTypes
<1>2. TypeOK /\ CacheInv /\ [Next]_vars => (TypeOK /\ CacheInv)'
  <2>1. SUFFICES ASSUME TypeOK, CacheInv, [Next]_vars
                 PROVE  (TypeOK /\ CacheInv)'
    OBVIOUS
  <2>2. World' /\ BackendTypes' /\ Control' /\ QueueTypes' /\ History'
    BY <2>1, WorldStep, BackendStep, ControlStep, QueueStep, HistoryStep
  <2>3. CacheInv'
    BY <2>1, CacheStep
  <2>4. QED
    BY <2>2, <2>3
       DEF TypeOK, CacheInv, World, BackendTypes, Control, QueueTypes, History
<1>3. QED
  BY <1>1, <1>2, PTL DEF Spec

(* CacheInStep for every capacity: an insertion, an overwrite or a get     *)
(* never leaves a digest in the map and not in the order, in the order and *)
(* not in the map, or in the order twice.                                  *)
THEOREM CacheInStepAlways == Spec => []CacheInStep
<1>1. Init => TypeOK /\ CacheInv
  BY InitTypes
<1>2. TypeOK /\ CacheInv /\ [Next]_vars => CacheInv'
  BY CacheStep
<1>3. CacheInv => CacheInStep
  BY DEF CacheInv, CacheInStep
<1>4. QED
  BY <1>1, <1>2, <1>3, TypeCorrect, PTL DEF Spec

\* CacheBounded for every capacity, 0 included.
THEOREM CacheBoundedAlways == Spec => []CacheBounded
<1>1. Init => TypeOK /\ CacheInv
  BY InitTypes
<1>2. TypeOK /\ CacheInv /\ [Next]_vars => CacheInv'
  BY CacheStep
<1>3. CacheInv => CacheBounded
  BY DEF CacheInv, CacheBounded
<1>4. QED
  BY <1>1, <1>2, <1>3, TypeCorrect, PTL DEF Spec
-----------------------------------------------------------------------------
(* Accounted is not inductive: the rewrite of the queue file throws away   *)
(* what the flush did not keep.  FlushInv says that this was dealt with:   *)
(* an entry of the file that is still owed, and that no failure has lost,  *)
(* has been kept or is to come.                                            *)
Flushing == pc \in {"flush", "flush_lookup"}

FlushInv ==
    Flushing => (owed \cap Range(queue)) \ lost \subseteq Range(todo) \cup Range(kept)

LEMMA EmptyRange == Range(<<>>) = {}
BY DEF Range

LEMMA RangeTail ==
    ASSUME NEW S, NEW s \in Seq(S), s # <<>>
    PROVE  Range(s) \subseteq Range(Tail(s)) \cup {Head(s)}
<1>1. SUFFICES ASSUME NEW i \in 1..Len(s), i # 1
               PROVE  s[i] \in Range(Tail(s))
  BY DEF Range
<1>2. /\ Tail(s) \in Seq(S) /\ Len(Tail(s)) = Len(s) - 1
      /\ \A j \in 1..Len(Tail(s)) : Tail(s)[j] = s[j + 1]
  OBVIOUS
<1> DEFINE rest == Tail(s)
<1> HIDE DEF rest
<1>3. i - 1 \in 1..Len(rest) /\ rest[i - 1] = s[i] /\ rest \in Seq(S)
  BY <1>1, <1>2 DEF rest
<1>4. rest[i - 1] \in Range(rest)
  BY <1>3 DEF Range
<1>5. QED
  BY <1>3, <1>4 DEF rest

LEMMA TailInRange ==
    ASSUME NEW S, NEW s \in Seq(S), s # <<>>
    PROVE  Range(Tail(s)) \subseteq Range(s)
<1> DEFINE rest == Tail(s)
<1>1. /\ rest \in Seq(S) /\ Len(rest) = Len(s) - 1
      /\ \A j \in 1..Len(rest) : rest[j] = s[j + 1]
  OBVIOUS
<1> HIDE DEF rest
<1>2. ASSUME NEW j \in 1..Len(rest)
      PROVE  rest[j] \in Range(s)
  <2>1. j + 1 \in 1..Len(s) /\ rest[j] = s[j + 1]
    BY <1>1
  <2>2. QED
    BY <2>1 DEF Range
<1>3. Range(rest) \subseteq Range(s)
  BY <1>1, <1>2 DEF Range
<1>4. QED
  BY <1>3 DEF rest

LEMMA RangeAppend ==
    ASSUME NEW S, NEW s \in Seq(S), NEW x \in S
    PROVE  Range(Append(s, x)) = Range(s) \cup {x}
<1>1. /\ DOMAIN Append(s, x) = 1..(Len(s) + 1)
      /\ \A i \in 1..Len(s) : Append(s, x)[i] = s[i]
      /\ Append(s, x)[Len(s) + 1] = x
  OBVIOUS
<1>2. Range(s) \subseteq Range(Append(s, x))
  <2>1. ASSUME NEW i \in 1..Len(s)
        PROVE  s[i] \in Range(Append(s, x))
    BY <1>1 DEF Range
  <2>2. QED
    BY <2>1 DEF Range
<1>3. x \in Range(Append(s, x))
  BY <1>1 DEF Range
<1>4. Range(Append(s, x)) \subseteq Range(s) \cup {x}
  BY <1>1 DEF Range
<1>5. QED
  BY <1>2, <1>3, <1>4

\* What the flush looks at next is at the head of what it has still to do.
LEMMA FlushHead ==
    ASSUME QueueTypes, todo # <<>>
    PROVE  Range(todo) \subseteq Range(Tail(todo)) \cup {Head(todo)}
BY RangeTail DEF QueueTypes


LEMMA KeptGrows ==
    ASSUME Control, QueueTypes, pc = "flush_lookup"
    PROVE  todo # <<>> /\ Range(Append(kept, Head(todo))) = Range(kept) \cup {Head(todo)}
BY HeadIsEntry, RangeAppend DEF QueueTypes, Control

\* The flush drops an entry only when it has dealt with it.
LEMMA FlushStep ==
    ASSUME TypeOK, FlushInv, [Next]_vars
    PROVE  FlushInv'
<1>0. World /\ Control /\ QueueTypes
  BY TypeParts
<1>1. CASE Receive
  BY <1>0, <1>1 DEF Receive, FlushInv, Flushing, flushVars, queueVars,
                    envVars, history
<1>2. CASE FlushGone
  BY <1>0, <1>2, FlushHead
     DEF FlushGone, FlushInv, Flushing, flushVars, queueVars, envVars, history
<1>3. CASE FlushAsk
  BY <1>0, <1>3 DEF FlushAsk, FlushInv, Flushing, flushVars, queueVars,
                    envVars, history
<1>4. CASE FlushFound
  BY <1>0, <1>4, FlushHead
     DEF FlushFound, Control, FlushInv, Flushing, flushVars, queueVars,
         FlushVerdictAt, FlushVerdict, envVars, history
<1>5. CASE FlushUnknown
  BY <1>0, <1>5, FlushHead, KeptGrows
     DEF FlushUnknown, FlushInv, Flushing, flushVars, queueVars,
         FlushNoVerdict, envVars, history
<1>6. CASE Rewrite
  BY <1>0, <1>6 DEF Rewrite, FlushInv, Flushing, flushVars, queueVars,
                    envVars, history
<1>7. CASE HashFile
  BY <1>0, <1>7 DEF HashFile, Done, FlushInv, Flushing, flushVars, queueVars,
                    envVars, history
<1>8. CASE YaraMatch
  BY <1>0, <1>8 DEF YaraMatch, Done, FlushInv, Flushing, flushVars, queueVars,
                    envVars, history
<1>9. CASE YaraPasses
  BY <1>0, <1>9 DEF YaraPasses, FlushInv, Flushing, flushVars, queueVars,
                    envVars, history
<1>10. CASE CacheHit
  BY <1>0, <1>10 DEF CacheHit, Done, FlushInv, Flushing, flushVars, queueVars,
                     envVars, history
<1>11. CASE CacheMiss
  BY <1>0, <1>11 DEF CacheMiss, FlushInv, Flushing, flushVars, queueVars,
                     envVars, history
<1>12. CASE LookupFound
  BY <1>0, <1>12
     DEF LookupFound, Conclude, Done, FlushInv, Flushing, flushVars,
         queueVars, envVars, history
<1>13. CASE LookupMiss
  BY <1>0, <1>13 DEF LookupMiss, FlushInv, Flushing, flushVars, queueVars,
                     envVars, history
<1>14. CASE UploadOk
  BY <1>0, <1>14 DEF UploadOk, FlushInv, Flushing, flushVars, queueVars,
                     envVars, history
<1>15. CASE UploadFails
  BY <1>0, <1>15 DEF UploadFails, FlushInv, Flushing, flushVars, queueVars,
                     envVars, history
<1>16. CASE PollCompleted
  BY <1>0, <1>16
     DEF PollCompleted, Conclude, Done, FlushInv, Flushing, flushVars,
         queueVars, envVars, history
<1>17. CASE PollAgain
  BY <1>0, <1>17 DEF PollAgain, FlushInv, Flushing, flushVars, queueVars,
                     envVars, history
<1>18. CASE Enqueue
  BY <1>0, <1>18 DEF Enqueue, Done, FlushInv, Flushing, flushVars, queueVars,
                     envVars, history
<1>19. CASE RewriteFails
  BY <1>0, <1>19 DEF RewriteFails, FlushInv, Flushing, flushVars, queueVars,
                     envVars, history
<1>20. CASE HashFails
  BY <1>0, <1>20 DEF HashFails, Done, FlushInv, Flushing, flushVars,
                     queueVars, envVars, history
<1>21. CASE LookupFails
  BY <1>0, <1>21 DEF LookupFails, FlushInv, Flushing, flushVars, queueVars,
                     envVars, history
<1>22. CASE PollGivesUp
  BY <1>0, <1>22 DEF PollGivesUp, FlushInv, Flushing, flushVars, queueVars,
                     envVars, history
<1>23. CASE EnqueueFails
  BY <1>0, <1>23
     DEF EnqueueFails, Done, FlushInv, Flushing, flushVars, queueVars,
         envVars, history
<1>24. CASE Crash
  BY <1>0, <1>24 DEF Crash, Done, FlushInv, Flushing, flushVars, queueVars,
                     envVars, history
<1>25. ASSUME NEW p \in Path, NEW content \in Digest, Write(p, content)
       PROVE  FlushInv'
  BY <1>0, <1>25
     DEF Write, Notify, FlushInv, Flushing, flushVars, queueVars, envVars,
                     history
<1>26. ASSUME NEW p \in Path, CloseWrite(p)
       PROVE  FlushInv'
  BY <1>0, <1>26
     DEF CloseWrite, Notify, FlushInv, Flushing, flushVars, queueVars,
                     envVars, history
<1>27. CASE Deliver
  BY <1>0, <1>27 DEF Deliver, FlushInv, Flushing, flushVars, queueVars,
                     Passed, envVars, history
<1>28. ASSUME NEW h \in Digest, Analyse(h)
       PROVE  FlushInv'
  BY <1>0, <1>28
     DEF Analyse, agentVars, FlushInv, Flushing, flushVars, queueVars,
                     envVars, history
<1>29. CASE Elsewhere
  BY <1>0, <1>29
     DEF Elsewhere, agentVars, FlushInv, Flushing, flushVars, queueVars,
                     envVars, history
<1>30. CASE UNCHANGED vars
  BY <1>0, <1>30 DEF vars, FlushInv, Flushing, flushVars, queueVars, envVars,
                     history
<1>31. CASE YaraEnforce
  BY <1>0, <1>31
     DEF YaraEnforce, Conclude, ApplyPolicy, Enforce, Done, FlushInv, Flushing,
         flushVars, queueVars, envVars, history
<1>32. ASSUME NEW p \in Path, NEW content \in Digest \cup {Nothing},
              ChangeQuietly(p, content)
       PROVE  FlushInv'
  BY <1>0, <1>32
     DEF ChangeQuietly, FlushInv, Flushing, flushVars, queueVars, envVars,
                     history
<1>33. CASE DeliverFails
  BY <1>0, <1>33
     DEF DeliverFails, Fault, FlushInv, Flushing, flushVars, queueVars, Passed,
         envVars, history
<1>34. QED
  BY <1>1, <1>2, <1>3, <1>4, <1>5, <1>6, <1>7, <1>8, <1>9, <1>10, <1>11,
     <1>12, <1>13, <1>14, <1>15, <1>16, <1>17, <1>18, <1>19, <1>20, <1>21,
     <1>22, <1>23, <1>24, <1>25, <1>26, <1>27, <1>28, <1>29, <1>30, <1>31,
     <1>32, <1>33
     DEF Next, LoopStep, LoopFailure, Environment, Users

LEMMA AppendHand ==
    ASSUME Control, QueueTypes, pc = "enqueue"
    PROVE  Range(Append(queue, Queued)) = Range(queue) \cup {Queued}
BY HandTypes, RangeAppend DEF QueueTypes

\* No step forgets a file it owes.
LEMMA AccountedStep ==
    ASSUME TypeOK, FlushInv, Accounted, [Next]_vars
    PROVE  Accounted'
<1>0. World /\ Control /\ QueueTypes
  BY TypeParts
<1>1. CASE Receive
  BY <1>0, <1>1 DEF Receive, NoEvent, Control, Accounted, InHand, queueVars,
                    envVars, history
<1>2. CASE FlushGone
  BY <1>0, <1>2 DEF FlushGone, Control, Accounted, InHand, queueVars, envVars,
                    history
<1>3. CASE FlushAsk
  BY <1>0, <1>3 DEF FlushAsk, Accounted, InHand, queueVars, envVars, history
<1>4. CASE FlushFound
  BY <1>0, <1>4 DEF FlushFound, Control, Accounted, InHand, queueVars,
                    FlushVerdictAt, FlushVerdict, envVars, history
<1>5. CASE FlushUnknown
  BY <1>0, <1>5 DEF FlushUnknown, Accounted, InHand, queueVars,
                    FlushNoVerdict, envVars, history
<1>6. CASE Rewrite
  <2>1. \A e \in owed : Named[e.path] = e.path => e \in lost \cup Range(queue)
    BY <1>0, <1>6 DEF Rewrite, Control, Accounted
  <2>2. (owed \cap Range(queue)) \ lost \subseteq Range(kept)
    BY <1>6, EmptyRange DEF Rewrite, FlushInv, Flushing
  <2>3. queue' = kept /\ owed' = owed /\ lost' = lost
    BY <1>6 DEF Rewrite, history
  <2>4. QED
    BY <2>1, <2>2, <2>3 DEF Accounted
<1>7. CASE HashFile
  <2>1. \A e \in owed : Named[e.path] = e.path => e \in lost \cup Range(queue)
    BY <1>0, <1>7 DEF HashFile, Control, Accounted
  <2>2. queue' = queue
    BY <1>7 DEF HashFile, queueVars
  <2>3. CASE file[event.path] = Nothing
    BY <1>7, <2>1, <2>2, <2>3 DEF HashFile, Accounted
  <2>4. CASE file[event.path] # Nothing
    <3> DEFINE e == [path |-> event.path, sha |-> file[event.path]]
    <3>1. event \in Event
      BY <1>0, <1>7, HandTypes DEF HashFile, envVars, history
    <3>2. event' = [event EXCEPT !.sha = e.sha] /\ owed' = owed \cup {e} /\ lost' = lost \ {e}
      BY <1>7, <2>4 DEF HashFile, envVars, history
    <3>3. event'.path = event.path /\ event'.sha = e.sha /\ e.sha # Nothing
      BY <3>1, <3>2, <2>4 DEF Event
    <3>4. InHand' = e /\ (event.sha)' # Nothing
      BY <3>3 DEF InHand
    <3>5. QED
      BY <2>1, <2>2, <3>2, <3>4 DEF Accounted
  <2>5. QED
    BY <2>3, <2>4
<1>8. CASE YaraMatch
  BY <1>0, <1>8 DEF YaraMatch, Done, NoEvent, Accounted, InHand, queueVars,
                    envVars, history
<1>9. CASE YaraPasses
  BY <1>0, <1>9 DEF YaraPasses, Accounted, InHand, queueVars, envVars, history
<1>10. CASE CacheHit
  BY <1>0, <1>10 DEF CacheHit, Done, NoEvent, Accounted, InHand, queueVars,
                     envVars, history
<1>11. CASE CacheMiss
  BY <1>0, <1>11 DEF CacheMiss, Accounted, InHand, queueVars, envVars, history
<1>12. CASE LookupFound
  BY <1>0, <1>12
     DEF LookupFound, Conclude, Done, NoEvent, Accounted, InHand, queueVars,
         envVars, history
<1>13. CASE LookupMiss
  BY <1>0, <1>13 DEF LookupMiss, Accounted, InHand, queueVars, envVars,
                     history
<1>14. CASE UploadOk
  BY <1>0, <1>14 DEF UploadOk, Control, Event, Accounted, InHand, queueVars,
                     envVars, history
<1>15. CASE UploadFails
  BY <1>0, <1>15 DEF UploadFails, Accounted, InHand, queueVars, envVars,
                     history
<1>16. CASE PollCompleted
  BY <1>0, <1>16
     DEF PollCompleted, Conclude, Done, NoEvent, Accounted, InHand, queueVars,
         envVars, history
<1>17. CASE PollAgain
  BY <1>0, <1>17 DEF PollAgain, Accounted, InHand, queueVars, envVars, history
<1>queued. ASSUME pc = "enqueue", owed' = owed,
              lost' = lost \cup Forgotten(Append(queue, Queued))
       PROVE  Accounted'
  <2>1. SUFFICES ASSUME NEW e \in owed, Named[e.path] = e.path
                 PROVE  e \in lost' \cup Range(queue')
    BY <1>queued DEF Accounted
  <2>2. e \in lost \cup Range(queue) \cup {InHand}
    BY <2>1 DEF Accounted
  <2>3. e = InHand => e = Queued
    BY <2>1 DEF InHand, Queued
  <2>4. Range(Append(queue, Queued)) = Range(queue) \cup {Queued}
    BY <1>0, <1>queued, AppendHand
  <2>5. QED
    BY <1>queued, <2>1, <2>2, <2>3, <2>4 DEF Forgotten
<1>18. CASE Enqueue
  BY <1>18, <1>queued DEF Enqueue
<1>19. CASE RewriteFails
  BY <1>0, <1>19
     DEF RewriteFails, Control, Forgotten, Accounted, InHand, queueVars,
         envVars, history
<1>20. CASE HashFails
  BY <1>0, <1>20
     DEF HashFails, Done, NoEvent, Control, Accounted, InHand, queueVars,
         envVars, history
<1>21. CASE LookupFails
  BY <1>0, <1>21 DEF LookupFails, Accounted, InHand, queueVars, envVars,
                     history
<1>22. CASE PollGivesUp
  BY <1>0, <1>22 DEF PollGivesUp, Accounted, InHand, queueVars, envVars,
                     history
<1>23. CASE EnqueueFails
  BY <1>23, <1>queued DEF EnqueueFails
<1>24. CASE Crash
  BY <1>0, <1>24 DEF Crash, Done, NoEvent, Accounted, InHand, queueVars,
                     envVars, history
<1>25. ASSUME NEW p \in Path, NEW content \in Digest, Write(p, content)
       PROVE  Accounted'
  BY <1>0, <1>25
     DEF Write, Notify, Accounted, InHand, queueVars, envVars, history
<1>26. ASSUME NEW p \in Path, CloseWrite(p)
       PROVE  Accounted'
  BY <1>0, <1>26 DEF CloseWrite, Notify, Accounted, InHand, queueVars, envVars,
                     history
<1>27. CASE Deliver
  BY <1>0, <1>27 DEF Deliver, Accounted, InHand, queueVars, Passed, envVars,
                     history
<1>28. ASSUME NEW h \in Digest, Analyse(h)
       PROVE  Accounted'
  BY <1>0, <1>28
     DEF Analyse, agentVars, Accounted, InHand, queueVars, envVars, history
<1>29. CASE Elsewhere
  BY <1>0, <1>29
     DEF Elsewhere, agentVars, Accounted, InHand, queueVars, envVars, history
<1>30. CASE UNCHANGED vars
  BY <1>0, <1>30 DEF vars, Accounted, InHand, queueVars, envVars, history
<1>31. CASE YaraEnforce
  BY <1>0, <1>31
     DEF YaraEnforce, Conclude, ApplyPolicy, Enforce, Done, NoEvent, Accounted,
         InHand, queueVars, envVars, history
<1>32. ASSUME NEW p \in Path, NEW content \in Digest \cup {Nothing},
              ChangeQuietly(p, content)
       PROVE  Accounted'
  BY <1>0, <1>32
     DEF ChangeQuietly, Accounted, InHand, queueVars, envVars, history
<1>33. CASE DeliverFails
  BY <1>0, <1>33
     DEF DeliverFails, Fault, Accounted, InHand, queueVars, Passed, envVars,
         history
<1>34. QED
  BY <1>1, <1>2, <1>3, <1>4, <1>5, <1>6, <1>7, <1>8, <1>9, <1>10, <1>11,
     <1>12, <1>13, <1>14, <1>15, <1>16, <1>17, <1>18, <1>19, <1>20, <1>21,
     <1>22, <1>23, <1>24, <1>25, <1>26, <1>27, <1>28, <1>29, <1>30, <1>31,
     <1>32, <1>33
     DEF Next, LoopStep, LoopFailure, Environment, Users

(* Accounted for every instance: what the agent has hashed under a UTF-8   *)
(* name is dealt with, in hand, in the queue file or lost to a failure,    *)
(* however flushes, rewrites, crashes and users interleave                 *)
(* (main.rs:306-352).  FlushInv carries an entry through a flush until the *)
(* rewrite.                                                                *)
THEOREM AccountedAlways == Spec => []Accounted
<1>1. Init => FlushInv /\ Accounted
  BY DEF Init, FlushInv, Flushing, Accounted
<1>2. TypeOK /\ FlushInv /\ Accounted /\ [Next]_vars => (FlushInv /\ Accounted)'
  <2>1. SUFFICES ASSUME TypeOK, FlushInv, Accounted, [Next]_vars
                 PROVE  FlushInv' /\ Accounted'
    OBVIOUS
  <2>2. QED
    BY <2>1, FlushStep, AccountedStep
<1>3. QED
  BY <1>1, <1>2, TypeCorrect, PTL DEF Spec
-----------------------------------------------------------------------------
(* The verdicts of the cache.  What the agent stores is what the backend   *)
(* answered or a rule said; that the answer is about the digest it is      *)
(* stored under takes the service's promise, and that the content uploaded *)
(* is the one hashed unless a reading disagreed.                           *)
AnswersSupported == \A h \in Digest : known[h] \subseteq grounds[h]

SentIsHashed ==
    pc = "poll" =>
        \/ event.sent = event.sha
        \/ [sha |-> event.sha, read |-> event.sent] \in misread

\* Where a rule has matched, it matched the bytes last read for the digest.
HitIsRead ==
    pc = "yara_hit" =>
        \/ event.sha \in YaraHits
        \/ \E m \in misread : m.sha = event.sha /\ m.read \in YaraHits

\* The flush looks at entries of the queue file as it is.
TodoQueued == Flushing => Range(todo) \subseteq Range(queue)

VerdictInv ==
    /\ AnswersSupported
    /\ SentIsHashed
    /\ HitIsRead
    /\ TodoQueued
    /\ CachedVerdictSupported

\* The service's promise: what it may answer, its evidence supports.
LEMMA AnswersStep ==
    ASSUME TypeOK, AnswersSupported, [Next]_vars
    PROVE  /\ AnswersSupported'
           /\ \A h \in Digest : grounds[h] \subseteq grounds'[h]
<1>1. BackendTypes
  BY TypeParts
<1>2. [Backend!Next]_(Backend!serviceVars)
  BY ServiceStep
<1>3. ASSUME NEW h \in Digest, Backend!Judge(h)
      PROVE  AnswersSupported' /\ grounds' = grounds
  <2>1. PICK k \in (SUBSET grounds[h]) \ {{}} : known' = [known EXCEPT ![h] = k]
    BY <1>3 DEF Backend!Judge
  <2>2. grounds' = grounds
    BY <1>3 DEF Backend!Judge
  <2>3. QED
    BY <1>1, <2>1, <2>2 DEF AnswersSupported, BackendTypes
<1>4. ASSUME Backend!Revise
      PROVE  AnswersSupported' /\ \A h \in Digest : grounds[h] \subseteq grounds'[h]
  BY <1>4 DEF Backend!Revise, AnswersSupported
<1>5. ASSUME known' = known, grounds' = grounds
      PROVE  AnswersSupported'
  BY <1>5 DEF AnswersSupported
<1>6. QED
  BY <1>2, <1>3, <1>4, <1>5
     DEF Backend!Next, Backend!Submit, Backend!Track, Backend!serviceVars

\* An insertion changes no other verdict that stays.
LEMMA StoredVerdicts ==
    ASSUME NEW c \in Cache, NEW h \in Digest, NEW v \in Class,
           NEW d \in Held(Stored(c, h, v))
    PROVE  \/ d = h /\ Stored(c, h, v).verdict[d] = v
           \/ d \in Held(c) /\ Stored(c, h, v).verdict[d] = c.verdict[d]
<1> DEFINE room == MakeRoom(c)
<1>1. c.verdict \in [Digest -> Verdict] /\ d \in Digest
  BY DEF Cache, Held
<1>2. CASE h \in Held(c)
  BY <1>1, <1>2 DEF Stored, Held
<1>3. CASE h \notin Held(c)
  <2>1. room = c \/ \E x : room.verdict = [c.verdict EXCEPT ![x] = NoVerdict]
    BY DEF MakeRoom, Evicted
  <2>2. Stored(c, h, v).verdict = [room.verdict EXCEPT ![h] = v]
    BY <1>3 DEF Stored
  <2> HIDE DEF room
  <2>3. Stored(c, h, v).verdict[d] # NoVerdict
    BY DEF Held
  <2>4. QED
    BY <1>1, <2>1, <2>2, <2>3 DEF Held
<1>4. QED
  BY <1>2, <1>3

\* What could be said of a digest can still be said of it.
LEMMA SupportKept ==
    ASSUME misread \subseteq misread', TypeOK, History',
           \A h \in Digest : grounds[h] \subseteq grounds'[h]
    PROVE  \A h \in Digest, class \in Class :
              TakenToSupport(h, class) => TakenToSupport(h, class)'
<1>1. ASSUME NEW h \in Digest, NEW class \in Class, Supports(h, class)
      PROVE  Supports(h, class)'
  BY <1>1 DEF Supports
<1>2. SUFFICES ASSUME NEW h \in Digest, NEW class \in Class, TakenToSupport(h, class)
               PROVE  TakenToSupport(h, class)'
  OBVIOUS
<1>3. CASE Supports(h, class)
  BY <1>1, <1>3 DEF TakenToSupport
<1>4. ASSUME NEW m \in misread, m.sha = h, Supports(m.read, class)
      PROVE  TakenToSupport(h, class)'
  <2>1. m \in misread' /\ m.read \in Digest
    BY <1>4 DEF History
  <2>2. Supports(m.read, class)'
    BY <1>1, <1>4, <2>1
  <2>3. QED
    BY <1>4, <2>1, <2>2 DEF TakenToSupport
<1>5. QED
  BY <1>2, <1>3, <1>4 DEF TakenToSupport

\* What it is to prove of the cache after a step, digest by digest.
LEMMA CachedNext ==
    ASSUME \A d \in Held(cache'), v \in Class :
              v = cache'.verdict[d] => TakenToSupport(d, v)',
           cache' \in Cache
    PROVE  CachedVerdictSupported'
<1>1. SUFFICES ASSUME NEW d \in Held(cache')
               PROVE  \E v \in Class : v = cache'.verdict[d] /\ TakenToSupport(d, v)'
  BY DEF CachedVerdictSupported, TakenToSupport, Supports, Held
<1>2. cache'.verdict[d] \in Class
  BY DEF Held, Cache, Verdict
<1>3. QED
  BY <1>2

\* A supported verdict may be stored, and what was supported stays so.
LEMMA SupportedKept ==
    ASSUME TypeOK, History', cache' \in Cache, CachedVerdictSupported,
           misread \subseteq misread',
           \A h \in Digest : grounds[h] \subseteq grounds'[h]
    PROVE  /\ UNCHANGED cache => CachedVerdictSupported'
           /\ \A h \in Held(cache) : cache' = Read(cache, h) => CachedVerdictSupported'
           /\ \A h \in Digest, v \in Class :
                 cache' = Stored(cache, h, v) /\ TakenToSupport(h, v) => CachedVerdictSupported'
<1>1. cache \in Cache
  BY TypeParts
<1>2. ASSUME NEW d \in Held(cache), NEW v \in Class, v = cache.verdict[d]
      PROVE  TakenToSupport(d, v)'
  <2>1. d \in Digest /\ TakenToSupport(d, v)
    BY <1>2 DEF Held, CachedVerdictSupported
  <2>2. QED
    BY <2>1, SupportKept
<1>3. UNCHANGED cache => CachedVerdictSupported'
  BY <1>2, CachedNext
<1>4. ASSUME NEW h \in Held(cache), cache' = Read(cache, h)
      PROVE  CachedVerdictSupported'
  <2>1. cache'.verdict = cache.verdict
    BY <1>1, <1>4 DEF Read, Cache
  <2>2. Held(cache') = Held(cache)
    BY <2>1 DEF Held
  <2>3. QED
    BY <1>2, <2>1, <2>2, CachedNext
<1>5. ASSUME NEW h \in Digest, NEW class \in Class,
             cache' = Stored(cache, h, class), TakenToSupport(h, class)
      PROVE  CachedVerdictSupported'
  <2>1. ASSUME NEW d \in Held(cache'), NEW v \in Class, v = cache'.verdict[d]
        PROVE  TakenToSupport(d, v)'
    <3>1. \/ d = h /\ v = class
          \/ d \in Held(cache) /\ v = cache.verdict[d]
      BY <1>1, <1>5, <2>1, StoredVerdicts
    <3>2. CASE d = h /\ v = class
      BY <1>5, <3>2, SupportKept
    <3>3. QED
      BY <3>1, <3>2, <1>2
  <2>2. QED
    BY <2>1, CachedNext
<1>6. QED
  BY <1>3, <1>4, <1>5

\* A verdict on what was uploaded is one on what was read for the digest.
LEMMA SentSupports ==
    ASSUME SentIsHashed, pc = "poll", NEW v \in grounds[event.sent]
    PROVE  TakenToSupport(event.sha, v)
<1>1. CASE event.sent = event.sha
  BY <1>1 DEF TakenToSupport, Supports
<1>2. CASE [sha |-> event.sha, read |-> event.sent] \in misread
  BY <1>2 DEF TakenToSupport, Supports
<1>3. QED
  BY <1>1, <1>2 DEF SentIsHashed

\* So is the word of a rule.
LEMMA HitSupports ==
    ASSUME HitIsRead, pc = "yara_hit"
    PROVE  TakenToSupport(event.sha, Malicious)
BY DEF HitIsRead, TakenToSupport, Supports

LEMMA SentStep ==
    ASSUME TypeOK, SentIsHashed, [Next]_vars
    PROVE  SentIsHashed'
<1>0. World /\ Control
  BY TypeParts
<1>1. CASE UploadOk
  <2>1. event \in Event /\ event' = [event EXCEPT !.sent = file[event.path]]
    BY <1>0, <1>1, HandTypes DEF UploadOk
  <2>2. event'.sent = file[event.path] /\ event'.sha = event.sha
    BY <2>1 DEF Event
  <2>3. QED
    BY <1>1, <2>2 DEF UploadOk, ReadAgain, SentIsHashed
<1>2. CASE PollAgain
  BY <1>2 DEF PollAgain, SentIsHashed, envVars, history
<1>3. ASSUME UNCHANGED <<pc, event, misread>>
      PROVE  SentIsHashed'
  BY <1>3 DEF SentIsHashed
<1>4. ASSUME pc' # "poll"
      PROVE  SentIsHashed'
  BY <1>4 DEF SentIsHashed
<1>5. CASE UploadFails
  BY <1>5 DEF UploadFails, SentIsHashed, history
<1>6. QED
  BY <1>1, <1>2, <1>3, <1>4, <1>5
     DEF Next, LoopStep, LoopFailure, Environment, Users, vars, Receive,
         FlushGone, FlushAsk, FlushFound, FlushVerdict, FlushVerdictAt,
         FlushUnknown, FlushNoVerdict, Rewrite, HashFile, YaraMatch,
         YaraEnforce, YaraPasses, CacheHit, CacheMiss, LookupFound,
         LookupMiss, Conclude, PollCompleted, PollGivesUp, Enqueue,
         RewriteFails, HashFails, LookupFails, EnqueueFails, Crash, Done,
         Write, CloseWrite, ChangeQuietly, Deliver, DeliverFails, Passed,
         Analyse, Elsewhere, agentVars, history

LEMMA HitStep ==
    ASSUME TypeOK, HitIsRead, [Next]_vars
    PROVE  HitIsRead'
<1>1. CASE YaraMatch
  <2>1. /\ event' = event /\ file[Scanned] \in YaraHits
        /\ misread' = misread \cup {[sha |-> h, read |-> file[Scanned]] :
                                       h \in {event.sha} \ {file[Scanned]}}
    BY <1>1 DEF YaraMatch, ReadAgain
  <2>2. CASE event.sha = file[Scanned]
    BY <2>1, <2>2 DEF HitIsRead
  <2>3. CASE event.sha # file[Scanned]
    <3>1. [sha |-> event.sha, read |-> file[Scanned]] \in misread'
      BY <2>1, <2>3
    <3>2. QED
      BY <2>1, <3>1 DEF HitIsRead
  <2>4. QED
    BY <2>2, <2>3
<1>2. ASSUME UNCHANGED <<pc, event, misread>>
      PROVE  HitIsRead'
  BY <1>2 DEF HitIsRead
<1>3. ASSUME pc' # "yara_hit"
      PROVE  HitIsRead'
  BY <1>3 DEF HitIsRead
<1>4. QED
  BY <1>1, <1>2, <1>3
     DEF Next, LoopStep, LoopFailure, Environment, Users, vars, Receive,
         FlushGone, FlushAsk, FlushFound, FlushVerdict, FlushVerdictAt,
         FlushUnknown, FlushNoVerdict, Rewrite, HashFile, YaraEnforce,
         YaraPasses, CacheHit, CacheMiss, LookupFound, LookupMiss, Conclude,
         UploadOk, UploadFails, PollCompleted, PollAgain, PollGivesUp,
         Enqueue, RewriteFails, HashFails, LookupFails, EnqueueFails, Crash,
         Done, Write, CloseWrite, ChangeQuietly, Deliver, DeliverFails,
         Passed, Analyse, Elsewhere, agentVars, history

LEMMA TodoStep ==
    ASSUME TypeOK, TodoQueued, [Next]_vars
    PROVE  TodoQueued'
<1>0. QueueTypes /\ Control
  BY TypeParts
<1>1. CASE Receive
  BY <1>1, EmptyRange DEF Receive, TodoQueued, queueVars
<1>2. ASSUME Flushing, todo # <<>>, todo' = Tail(todo), queue' = queue
      PROVE  TodoQueued'
  <2>1. Range(Tail(todo)) \subseteq Range(todo)
    BY <1>0, <1>2, TailInRange DEF QueueTypes
  <2>2. QED
    BY <1>2, <2>1 DEF TodoQueued
<1>3. CASE FlushGone
  BY <1>2, <1>3 DEF FlushGone, Flushing, queueVars
<1>4. CASE FlushAsk
  BY <1>4 DEF FlushAsk, TodoQueued, Flushing, flushVars, queueVars
<1>5. CASE FlushFound
  BY <1>0, <1>2, <1>5
     DEF FlushFound, FlushVerdict, FlushVerdictAt, Control, Flushing, queueVars
<1>6. CASE FlushUnknown
  BY <1>0, <1>2, <1>6
     DEF FlushUnknown, FlushNoVerdict, Control, Flushing, queueVars
<1>7. ASSUME pc' \notin {"flush", "flush_lookup"}
      PROVE  TodoQueued'
  BY <1>7 DEF TodoQueued, Flushing
<1>8. ASSUME UNCHANGED <<pc, todo, queue>>
      PROVE  TodoQueued'
  BY <1>8 DEF TodoQueued, Flushing
<1>9. CASE UploadFails
  BY <1>9 DEF UploadFails, TodoQueued, Flushing
<1>10. QED
  BY <1>1, <1>3, <1>4, <1>5, <1>6, <1>7, <1>8, <1>9
     DEF Next, LoopStep, LoopFailure, Environment, Users, vars, flushVars,
         queueVars,
         Rewrite, HashFile, YaraMatch, YaraEnforce, YaraPasses, CacheHit,
         CacheMiss,
         LookupFound, LookupMiss, UploadOk, Conclude, PollCompleted,
         PollAgain, PollGivesUp, Enqueue, RewriteFails, HashFails,
         LookupFails, EnqueueFails, Crash, Done, Write, CloseWrite,
         ChangeQuietly, Deliver, DeliverFails, Passed, Analyse, Elsewhere,
         agentVars

\* What a step stores is supported when it is stored.
LEMMA CachedStep ==
    ASSUME TypeOK, VerdictInv, History', cache' \in Cache, [Next]_vars
    PROVE  CachedVerdictSupported'
<1>0. World /\ BackendTypes /\ Control /\ QueueTypes /\ CachedVerdictSupported
  BY TypeParts DEF VerdictInv
<1>1. /\ \A h \in Digest : known[h] \subseteq grounds[h]
      /\ \A h \in Digest : grounds[h] \subseteq grounds'[h]
  BY AnswersStep DEF VerdictInv, AnswersSupported
<1>2. CASE Crash
  <2>1. Held(EmptyCache) = {}
    BY DEF Held, EmptyCache
  <2>2. QED
    BY <1>2, <2>1 DEF Crash, CachedVerdictSupported
<1>3. CASE FlushFound
  <2>1. PICK v \in known[Head(todo).sha] : cache' = Stored(cache, Head(todo).sha, v)
    BY <1>3 DEF FlushFound, FlushVerdict, FlushVerdictAt
  <2>2. Head(todo).sha \in Digest /\ misread' = misread
    BY <1>0, <1>3, HeadIsEntry DEF FlushFound, FlushVerdict, FlushVerdictAt
  <2>3. v \in Class /\ TakenToSupport(Head(todo).sha, v)
    BY <1>0, <1>1, <2>2 DEF BackendTypes, TakenToSupport, Supports
  <2>4. QED
    BY <1>0, <1>1, <2>1, <2>2, <2>3, SupportedKept
<1>4. CASE CacheHit
  BY <1>0, <1>1, <1>4, SupportedKept DEF CacheHit
<1>5. ASSUME NEW v \in Class, Conclude(v), event.sha \in Digest,
             TakenToSupport(event.sha, v)
      PROVE  CachedVerdictSupported'
  <2>1. cache' = Stored(cache, event.sha, v) /\ misread' = misread
    BY <1>5 DEF Conclude
  <2>2. QED
    BY <1>0, <1>1, <1>5, <2>1, SupportedKept
<1>6. CASE YaraEnforce
  <2>1. event.sha \in Digest /\ Malicious \in Class
    BY <1>0, <1>6, HandTypes, AgentAssumption DEF YaraEnforce
  <2>2. QED
    BY <1>5, <1>6, <2>1, HitSupports DEF YaraEnforce, VerdictInv
<1>7. CASE LookupFound
  BY <1>0, <1>1, <1>5, <1>7, HandTypes
     DEF LookupFound, BackendTypes, TakenToSupport, Supports
<1>8. CASE PollCompleted
  <2>1. PICK v \in known[event.sent] : Conclude(v)
    BY <1>8 DEF PollCompleted
  <2>2. event.sha \in Digest /\ event.sent \in Digest /\ pc = "poll"
    BY <1>0, <1>8, HandTypes DEF PollCompleted
  <2>3. v \in Class /\ v \in grounds[event.sent]
    BY <1>0, <1>1, <2>2 DEF BackendTypes
  <2>4. QED
    BY <1>5, <2>1, <2>2, <2>3, SentSupports DEF VerdictInv
<1>9. ASSUME UNCHANGED cache, misread \subseteq misread'
      PROVE  CachedVerdictSupported'
  BY <1>0, <1>1, <1>9, SupportedKept
<1>10. QED
  BY <1>2, <1>3, <1>4, <1>6, <1>7, <1>8, <1>9
     DEF Next, LoopStep, LoopFailure, Environment, Users, vars, history,
         Receive, FlushGone, FlushAsk, FlushUnknown, FlushNoVerdict, Rewrite,
         HashFile, YaraMatch, YaraPasses, CacheMiss, LookupMiss, UploadOk,
         UploadFails, ReadAgain, PollAgain, PollGivesUp, Enqueue,
         RewriteFails, HashFails, LookupFails, EnqueueFails, Write,
         CloseWrite, ChangeQuietly, Deliver, DeliverFails, Passed, Analyse,
         Elsewhere, agentVars

LEMMA VerdictInvariant == Spec => []VerdictInv
<1>1. Init => VerdictInv
  <2>1. Held(EmptyCache) = {}
    BY DEF Held, EmptyCache
  <2>2. QED
    BY <2>1 DEF Init, Backend!Init, VerdictInv, AnswersSupported, SentIsHashed,
                HitIsRead, TodoQueued, Flushing, CachedVerdictSupported
<1>2. TypeOK /\ TypeOK' /\ VerdictInv /\ [Next]_vars => VerdictInv'
  <2>1. SUFFICES ASSUME TypeOK, TypeOK', VerdictInv, [Next]_vars
                 PROVE  VerdictInv'
    OBVIOUS
  <2>2. AnswersSupported'
    BY <2>1, AnswersStep DEF VerdictInv
  <2>3. SentIsHashed' /\ HitIsRead'
    BY <2>1, SentStep, HitStep DEF VerdictInv
  <2>4. TodoQueued'
    BY <2>1, TodoStep DEF VerdictInv
  <2>5. CachedVerdictSupported'
    <3>1. History' /\ cache' \in Cache
      BY <2>1 DEF TypeOK, History
    <3>2. QED
      BY <2>1, <3>1, CachedStep
  <2>6. QED
    BY <2>2, <2>3, <2>4, <2>5 DEF VerdictInv
<1>3. QED
  BY <1>1, <1>2, TypeCorrect, PTL DEF Spec

(* CachedVerdictSupported for every instance: a verdict the cache keeps    *)
(* for a digest is one that evidence or a rule supports, for the digest or *)
(* for other bytes read in its place.                                      *)
THEOREM CachedVerdictSupportedAlways == Spec => []CachedVerdictSupported
<1>1. VerdictInv => CachedVerdictSupported
  BY DEF VerdictInv
<1>2. QED
  BY <1>1, VerdictInvariant, PTL

-----------------------------------------------------------------------------
\* Enforcement touches the path it is given, and a class other than
\* malicious touches none.
LEMMA PolicyTakes ==
    ASSUME NEW q \in Path, NEW h, NEW class, NEW p \in Path,
           file \in [Path -> Digest \cup {Nothing}],
           ApplyPolicy(q, h, class), file'[p] # file[p]
    PROVE  p = q /\ class = Malicious
BY DEF ApplyPolicy, Enforce

(* TakenForCause for every instance: a file the agent takes from a path is *)
(* taken for an event in hand or an entry of the queue that names the path *)
(* and whose digest is convicted, or had convicted bytes read in its place *)
(* once, at this path or at another (main.rs:149-234, 331-342).            *)
THEOREM TakenForCauseAlways == Spec => TakenForCause
<1> DEFINE Cause(p) ==
      \E e \in Range(queue) \cup {i \in {InHand} : event.sha # Nothing} :
         e.path = p /\ TakenToSupport(e.sha, Malicious)
<1>1. ASSUME TypeOK, VerdictInv, [Next]_vars, NEW p \in Path, Taken(p)
      PROVE  Cause(p)
  <2>0. /\ World /\ BackendTypes /\ Control /\ QueueTypes
        /\ \A h \in Digest : known[h] \subseteq grounds[h]
    BY <1>1, TypeParts DEF VerdictInv, AnswersSupported
  <2>1. file'[p] # file[p] /\ others' = others
    BY <1>1 DEF Taken
  <2>2. CASE FlushFound
    <3>1. PICK v \in known[Head(todo).sha] :
             ApplyPolicy(Head(todo).path, Head(todo).sha, v)
      BY <2>2 DEF FlushFound, FlushVerdict, FlushVerdictAt
    <3>2. Head(todo).path \in Path /\ Head(todo).sha \in Digest /\ todo # <<>>
      BY <2>0, <2>2, HeadIsEntry
         DEF FlushFound, FlushVerdict, FlushVerdictAt, Control
    <3>3. p = Head(todo).path /\ v = Malicious
      BY <2>0, <2>1, <3>1, <3>2, PolicyTakes DEF World
    <3>4. Head(todo) \in Range(queue)
      <4>1. Head(todo) \in Range(todo)
        BY <2>0, <3>2 DEF QueueTypes, Range
      <4>2. QED
        BY <1>1, <2>2, <4>1
           DEF FlushFound, FlushVerdict, FlushVerdictAt, VerdictInv,
               TodoQueued, Flushing
    <3>5. TakenToSupport(Head(todo).sha, Malicious)
      BY <2>0, <3>2, <3>3 DEF TakenToSupport, Supports
    <3>6. QED
      BY <3>3, <3>4, <3>5
  <2>3. ASSUME event.path \in Path, event.sha \in Digest, NEW class,
               ApplyPolicy(event.path, event.sha, class),
               class = Malicious => TakenToSupport(event.sha, Malicious)
        PROVE  Cause(p)
    <3>1. p = event.path /\ class = Malicious
      BY <2>0, <2>1, <2>3, PolicyTakes DEF World
    <3>2. InHand.path = p /\ InHand.sha = event.sha /\ event.sha # Nothing
      BY <2>3, <3>1, AgentAssumption DEF InHand
    <3>3. QED
      BY <2>3, <3>1, <3>2
  <2>4. CASE YaraEnforce
    BY <1>1, <2>0, <2>3, <2>4, HandTypes, HitSupports
       DEF YaraEnforce, Conclude, VerdictInv
  <2>5. CASE CacheHit
    <3>1. event.path \in Path /\ event.sha \in Digest /\ event.sha \in Held(cache)
      BY <2>0, <2>5, HandTypes DEF CacheHit
    <3>2. TakenToSupport(event.sha, cache.verdict[event.sha])
      BY <1>1, <3>1 DEF VerdictInv, CachedVerdictSupported
    <3>3. ApplyPolicy(event.path, event.sha, cache.verdict[event.sha])
      BY <2>5 DEF CacheHit
    <3>4. QED
      BY <2>3, <3>1, <3>2, <3>3
  <2>6. CASE LookupFound
    <3>1. PICK v \in known[event.sha] : ApplyPolicy(event.path, event.sha, v)
      BY <2>6 DEF LookupFound, Conclude
    <3>2. event.path \in Path /\ event.sha \in Digest
      BY <2>0, <2>6, HandTypes DEF LookupFound
    <3>3. TakenToSupport(event.sha, v)
      BY <2>0, <3>2 DEF TakenToSupport, Supports
    <3>4. QED
      BY <2>3, <3>1, <3>2, <3>3
  <2>7. CASE PollCompleted
    <3>1. PICK v \in known[event.sent] : ApplyPolicy(event.path, event.sha, v)
      BY <2>7 DEF PollCompleted, Conclude
    <3>2. event.path \in Path /\ event.sha \in Digest /\ event.sent \in Digest
      BY <2>0, <2>7, HandTypes DEF PollCompleted
    <3>3. TakenToSupport(event.sha, v)
      BY <1>1, <2>0, <2>7, <3>2, SentSupports DEF PollCompleted, VerdictInv
    <3>4. QED
      BY <2>3, <3>1, <3>2, <3>3
  <2>8. ASSUME NEW q \in Path, NEW content,
               Write(q, content) \/ ChangeQuietly(q, content)
        PROVE  FALSE
    BY <2>0, <2>1, <2>8 DEF Write, ChangeQuietly, Another, World
  <2>9. file' # file
    BY <2>1
  <2>10. QED
    BY <1>1, <2>2, <2>4, <2>5, <2>6, <2>7, <2>8, <2>9
       DEF Next, LoopStep, LoopFailure, Environment, Users, vars, fileVars,
           envVars, Receive, FlushGone, FlushAsk, FlushUnknown,
           FlushNoVerdict, Rewrite, HashFile, YaraMatch, YaraPasses,
           CacheMiss, LookupMiss, UploadOk, UploadFails, PollAgain,
           PollGivesUp, Enqueue, RewriteFails, HashFails, LookupFails,
           EnqueueFails, Crash, CloseWrite, Deliver, DeliverFails, Passed,
           Analyse, Elsewhere, agentVars
<1>2. TypeOK /\ VerdictInv /\ [Next]_vars =>
         [\A p \in Path : Taken(p) => Cause(p)]_vars
  BY <1>1
<1>3. QED
  BY <1>2, TypeCorrect, VerdictInvariant, PTL DEF Spec, TakenForCause
=============================================================================
