------------------------------ MODULE LruCache ------------------------------
(***************************************************************************)
(* The least-recently-used cache of src/daemon/lru_cache.h, shared by the  *)
(* worker threads without a lock: a thread that does not find its key      *)
(* evaluates the cached function and inserts the result only then.  Each   *)
(* operation on the container is taken to be atomic.                       *)
(***************************************************************************)
EXTENDS Naturals, Sequences

CONSTANTS
  Workers,     \* threads that use the cache
  Keys,        \* keys of the cached function
  Capacity     \* _capacity

\* assert(_capacity!=0) in the constructor
ASSUME CapacityAssumption == Capacity \in Nat \ {0}

VARIABLES
  order,       \* _container: the keys, least recently used first
  pc,          \* pc[w]: what w does next
  key,         \* key[w]: the key w asked for
  uses,        \* history: all keys ever served, by their last use
  contended    \* history: a key was inserted that was there already

vars == <<order, pc, key, uses, contended>>

Has(s, k) == \E i \in 1..Len(s) : s[i] = k
IndexOf(s, k) == CHOOSE i \in 1..Len(s) : s[i] = k

\* _container.right.relocate(end, it)
relocate(s, i) ==
  [j \in 1..Len(s) |-> IF j < i THEN s[j] ELSE IF j < Len(s) THEN s[j + 1] ELSE s[i]]

\* Mutation: the test comes one element late.
purgeLate(s) == IF Len(s) > Capacity THEN [j \in 1..(Len(s) - 1) |-> s[j + 1]] ELSE s

\* the element at the front is erased when the container is full
purge(s) == IF Len(s) = Capacity THEN [j \in 1..(Len(s) - 1) |-> s[j + 1]] ELSE s

\* the bimap refuses a key it holds already
insert(s, k) ==
  LET room == purge(s)
  IN  IF Has(room, k) THEN room
      ELSE [j \in 1..(Len(room) + 1) |-> IF j <= Len(room) THEN room[j] ELSE k]

Touch(s, k) ==
  IF Has(s, k) THEN relocate(s, IndexOf(s, k)) ELSE Append(s, k)

Init ==
  /\ order = <<>>
  /\ pc = [w \in Workers |-> "idle"]
  /\ key \in [Workers -> Keys]
  /\ uses = <<>>
  /\ contended = FALSE

\* Mutation: the access is not recorded.
HitInPlace(w, k) ==
  /\ pc[w] = "idle" /\ Has(order, k)
  /\ key' = [key EXCEPT ![w] = k]
  /\ uses' = Touch(uses, k)
  /\ UNCHANGED <<order, pc, contended>>

\* operator()(k) finds the record
Hit(w, k) ==
  /\ pc[w] = "idle" /\ Has(order, k)
  /\ order' = relocate(order, IndexOf(order, k))
  /\ key' = [key EXCEPT ![w] = k]
  /\ uses' = Touch(uses, k)
  /\ UNCHANGED <<pc, contended>>

\* operator()(k) does not find it
Miss(w, k) ==
  /\ pc[w] = "idle" /\ ~Has(order, k)
  /\ pc' = [pc EXCEPT ![w] = "load"]
  /\ key' = [key EXCEPT ![w] = k]
  /\ UNCHANGED <<order, uses, contended>>

\* the function returns a value, or throws and leaves the cache alone
Load(w) ==
  /\ pc[w] = "load"
  /\ \E next \in {"insert", "idle"} : pc' = [pc EXCEPT ![w] = next]
  /\ UNCHANGED <<order, key, uses, contended>>

Insert(w) ==
  /\ pc[w] = "insert"
  /\ order' = insert(order, key[w])
  /\ pc' = [pc EXCEPT ![w] = "idle"]
  /\ uses' = Touch(uses, key[w])
  /\ contended' = (contended \/ Has(order, key[w]))
  /\ UNCHANGED key

Next ==
  \E w \in Workers :
    \/ \E k \in Keys : Hit(w, k) \/ Miss(w, k)
    \/ Load(w)
    \/ Insert(w)

Spec == Init /\ [][Next]_vars
-----------------------------------------------------------------------------
\* The types of the variables.
TypeOK ==
  /\ order \in Seq(Keys) /\ uses \in Seq(Keys)
  /\ pc \in [Workers -> {"idle", "load", "insert"}]
  /\ key \in [Workers -> Keys]
  /\ contended \in BOOLEAN

\* assert(_container.size()<=_capacity) in insert holds whatever misses
\* overlap, and no key is in the cache twice.
Bounded ==
  /\ Len(order) <= Capacity
  /\ \A i, j \in 1..Len(order) : order[i] = order[j] => i = j

\* The cache holds the most recently used keys in the order of their last use,
\* so what insert purges is the least recently used, until two threads that
\* missed the same key have both inserted it.
KeepsMostRecent ==
  ~contended => \E n \in 0..Len(uses) :
                  /\ order = SubSeq(uses, n + 1, Len(uses))
                  /\ n > 0 => Len(order) = Capacity
=============================================================================
