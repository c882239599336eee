----------------------------- MODULE LocalCache -----------------------------
(***************************************************************************)
(* The agent's LRU cache of verdicts (LocalCache, hash_engine.rs): a       *)
(* HashMap from digests to verdicts beside a VecDeque of the digests, the  *)
(* least recently used first.  The two are separate fields the code has to *)
(* keep in step; so they are here.                                         *)
(***************************************************************************)
EXTENDS Integers, SequencesExt

CONSTANTS
    Digest,      \* SHA-256 digests
    Class,       \* classifications
    NoVerdict,   \* no verdict
    Capacity     \* cache_capacity; the configuration may say 0

ASSUME CacheAssumption ==
    /\ IsFiniteSet(Digest)
    /\ NoVerdict \notin Class
    /\ Capacity \in Nat

Verdict == Class \cup {NoVerdict}
Cache == [verdict: [Digest -> Verdict], order: Seq(Digest)]

EmptyCache == [verdict |-> [h \in Digest |-> NoVerdict], order |-> <<>>]

Held(c) == {h \in Digest : c.verdict[h] # NoVerdict}

\* Mutant: the digest is pushed back without being taken out of its place.
TouchedTwice(order, h) == Append(order, h)

\* touch: the first occurrence, if there is one, goes to the back.
Touched(order, h) == Append(RemoveFirst(order, h), h)

\* get of a digest that is held.
Read(c, h) == [c EXCEPT !.order = Touched(c.order, h)]

\* pop_front, and the verdict of what it returned.
Evicted(c) ==
    IF c.order = <<>> THEN c
    ELSE [verdict |-> [c.verdict EXCEPT ![Head(c.order)] = NoVerdict],
          order   |-> Tail(c.order)]

\* Mutant: the length is compared with > instead of >=.
MakeRoomLate(c) == IF Cardinality(Held(c)) > Capacity THEN Evicted(c) ELSE c

MakeRoom(c) == IF Cardinality(Held(c)) >= Capacity THEN Evicted(c) ELSE c

Stored(c, h, v) ==
    IF h \in Held(c)
    THEN [verdict |-> [c.verdict EXCEPT ![h] = v], order |-> Touched(c.order, h)]
    ELSE LET room == MakeRoom(c)
         IN  [verdict |-> [room.verdict EXCEPT ![h] = v],
              order   |-> Append(room.order, h)]

(* The order lists every digest that is held, and each once.               *)
InStep(c) ==
    /\ IsInjective(c.order)
    /\ Range(c.order) = Held(c)

(* A cache of capacity 0 holds one verdict all the same: nothing can be    *)
(* popped from the empty order, and the insertion goes on.                 *)
Bounded(c) == Cardinality(Held(c)) <= IF Capacity = 0 THEN 1 ELSE Capacity
=============================================================================
