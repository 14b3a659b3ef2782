-------------------------- MODULE LayeredCacheProofs --------------------------
(***************************************************************************)
(* The layered cache for all keys, callers, sizes and TTLs: a hit of an    *)
(* undisturbed key returns the value it was last given, and not longer     *)
(* than the two TTLs; and the map and the list of L1 always agree.  The    *)
(* list plays no part in the first two: whatever an eviction removes, a    *)
(* removal never makes a hit wrong.  Its own invariant, ListShape, needs   *)
(* only the types and the shape of the map.                                *)
(***************************************************************************)
EXTENDS LayeredCache, SequenceTheorems, FiniteSetTheorems, TLAPS

Calls == [pc : {"idle", "l1", "expire", "l2", "backfill", "hit"} \cup Writing,
          key : Keys \cup {None}, val : Values \cup {None}, ttl : 0..MaxTTL,
          elem : Slots \cup {None}, clean : BOOLEAN]

\* TypeOK without the list.
DataOK ==
    /\ elem \in [Slots -> Items \cup {None}]
    /\ items \in [Keys -> Slots \cup {None}]
    /\ l2 \in [Keys -> Entries \cup {None}]
    /\ op \in [Callers -> Calls]
    /\ last \in [Keys -> Values \cup {None}]
    /\ due \in [Keys -> -L1MaxTTL..MaxTTL]
    /\ excused \subseteq Keys

\* s is an element in use, with an item of the key k.
ItemOf(s, k) == elem[s] \in Items /\ elem[s].key = k

MapShape == \A k \in Keys : items[k] # None => ItemOf(items[k], k)

CallShape ==
    \A c \in Callers :
       /\ op[c].pc = "idle" => op[c].key = None
       /\ op[c].pc # "idle" => op[c].key \in Keys
       /\ op[c].pc = "l1" <=> op[c].elem # None
       /\ op[c].elem # None => ItemOf(op[c].elem, op[c].key)
       /\ op[c].pc \in {"backfill", "setL2"} => op[c].val \in Values
       /\ op[c].pc = "setL2" => op[c].ttl \in 1..MaxTTL

\* A write is clean, and then the only call of its key, or its key is excused.
WriteShape ==
    \A c \in Callers :
       /\ op[c].pc \in Writing => op[c].clean \/ op[c].key \in excused
       /\ op[c].clean =>
            /\ op[c].pc \in Writing
            /\ \A d \in Callers : op[d].key = op[c].key => d = c

\* A copy of k in L1 with the value v and t left of its TTL.
GoodCopy(k, v, t) == v = last[k] /\ (t >= 0 => due[k] > t - L1MaxTTL)

L2Good == \A k \in Keys \ excused :
            l2[k] # None => l2[k].val = last[k] /\ l2[k].ttl <= due[k]

\* L1 is ahead of last while a write is between its two layers.
L1Good ==
    \A k \in Keys \ excused :
       items[k] # None /\ ~Busy(k, Writing) =>
          GoodCopy(k, elem[items[k]].val, elem[items[k]].ttl)

WriteGood ==
    \A c \in Callers :
       /\ op[c].pc = "setL2" /\ op[c].clean /\ items[op[c].key] # None =>
            /\ elem[items[op[c].key]].val = op[c].val
            /\ elem[items[op[c].key]].ttl <= L1TTL(op[c].ttl)
       /\ op[c].pc = "deleteL2" /\ op[c].clean => items[op[c].key] = None

ReadGood ==
    \A c \in Callers : op[c].key \notin excused =>
       /\ op[c].pc = "l1" =>
            GoodCopy(op[c].key, elem[op[c].elem].val, elem[op[c].elem].ttl)
       /\ op[c].pc = "backfill" => op[c].val = last[op[c].key] /\ due[op[c].key] > 0
       /\ op[c].pc = "hit" => GoodCopy(op[c].key, op[c].val, 0)

Shape == DataOK /\ MapShape /\ CallShape /\ WriteShape
Good  == L2Good /\ L1Good /\ WriteGood /\ ReadGood
IInv  == Shape /\ Good

-------------------------------------------------------------------------------
\* What a step does to L1 when it writes only copies of the keys K: the other keys
\* keep their copies or lose them, and so do the calls that hold an element.
L1Frame(K) ==
    /\ items' \in [Keys -> Slots \cup {None}]
    /\ elem' \in [Slots -> Items \cup {None}]
    /\ \A j \in Keys \ K : items'[j] # None =>
         items'[j] = items[j] /\ elem'[items[j]] = elem[items[j]]
    /\ \A c \in Callers, s \in Slots : op'[c].elem = s /\ elem[s] # None =>
         /\ elem'[s] # None /\ elem'[s].key = elem[s].key
         /\ elem[s].key \notin K => elem'[s] = elem[s]

\* An element in the map or held by a call is not garbage.
LEMMA CollectKeeps ==
    ASSUME NEW e \in [Slots -> Items \cup {None}], Collect(e)
    PROVE  /\ elem' \in [Slots -> Items \cup {None}]
           /\ \A k \in Keys : items'[k] \in Slots => elem'[items'[k]] = e[items'[k]]
           /\ \A c \in Callers, s \in Slots : op'[c].elem = s => elem'[s] = e[s]
  BY DEF Collect

\* Removing keys leaves the rest of L1 as it is.
LEMMA RemovalFrame ==
    ASSUME DataOK, Collect(elem),
           items' \in [Keys -> Slots \cup {None}],
           \A k \in Keys : items'[k] \in {items[k], None}
    PROVE  L1Frame({})
<1>1. elem \in [Slots -> Items \cup {None}] /\ items \in [Keys -> Slots \cup {None}]
  BY DEF DataOK
<1>2. /\ elem' \in [Slots -> Items \cup {None}]
      /\ \A k \in Keys : items'[k] \in Slots => elem'[items'[k]] = elem[items'[k]]
      /\ \A c \in Callers, s \in Slots : op'[c].elem = s => elem'[s] = elem[s]
  BY <1>1, CollectKeeps
<1> QED
  BY <1>1, <1>2 DEF L1Frame

\* RemoveKey removes one key.
LEMMA RemoveKeyFrame ==
    ASSUME DataOK, NEW k \in Keys, RemoveKey(k), Collect(elem)
    PROVE  L1Frame({}) /\ items'[k] = None
<1>1. /\ items \in [Keys -> Slots \cup {None}]
      /\ items' = [items EXCEPT ![k] = None]
  BY DEF DataOK, RemoveKey
<1>2. /\ items' \in [Keys -> Slots \cup {None}] /\ items'[k] = None
      /\ \A j \in Keys : items'[j] \in {items[j], None}
  BY <1>1
<1> QED
  BY <1>2, RemovalFrame

\* MemoryCache.Set writes the copy of its key and may evict another one.
LEMMA PutFrame ==
    ASSUME DataOK, MapShape, NEW k \in Keys, NEW v \in Values, NEW t \in -1..MaxTTL, PutL1(k, v, t)
    PROVE  /\ L1Frame({k})
           /\ items'[k] # None => elem'[items'[k]] = [key |-> k, val |-> v, ttl |-> t]
           /\ \A c \in Callers, s \in Slots : op'[c].elem = s /\ elem[s] # None =>
                elem'[s] \in {elem[s], [key |-> k, val |-> v, ttl |-> t]}
<1> DEFINE new == [key |-> k, val |-> v, ttl |-> t]
<1>1. /\ elem \in [Slots -> Items \cup {None}] /\ items \in [Keys -> Slots \cup {None}]
      /\ new \in Items
  BY DEF DataOK, Items
<1>2. CASE items[k] # None
  <2>1. items[k] \in Slots /\ elem[items[k]] \in Items /\ elem[items[k]].key = k
    BY <1>1, <1>2 DEF MapShape, ItemOf
  <2>2. Updated(elem[items[k]], v, t) = new
    BY <2>1 DEF Updated
  <2> DEFINE e == [elem EXCEPT ![items[k]] = new]
  <2>3. e \in [Slots -> Items \cup {None}] /\ Collect(e) /\ items' = items
    BY <1>1, <1>2, <2>1, <2>2 DEF PutL1
  <2> HIDE DEF e
  <2>4. /\ elem' \in [Slots -> Items \cup {None}]
        /\ \A j \in Keys : items'[j] \in Slots => elem'[items'[j]] = e[items'[j]]
        /\ \A c \in Callers, s \in Slots : op'[c].elem = s => elem'[s] = e[s]
    BY <2>3, CollectKeeps
  <2>5. /\ e[items[k]] = new
        /\ \A s \in Slots : s # items[k] => e[s] = elem[s]
    BY <1>1, <2>1 DEF e
  <2>6. \A j \in Keys : j # k /\ items[j] # None => items[j] # items[k]
    BY <2>1 DEF MapShape, ItemOf
  <2>7. new # None /\ new.key = k
    BY <1>1, NoneAssumption
  <2> QED
    BY <1>1, <1>2, <2>1, <2>3, <2>4, <2>5, <2>6, <2>7 DEF L1Frame
<1>3. CASE items[k] = None
  <2> DEFINE grown(s) == <<s>> \o lru
             e(s)     == [elem EXCEPT ![s] = new]
             old(s)   == e(s)[Last(grown(s))].key
             added(s) == [items EXCEPT ![k] = s]
  <2>1. PICK s \in Free :
          /\ items' = IF Overfull(grown(s)) THEN [added(s) EXCEPT ![old(s)] = None]
                      ELSE added(s)
          /\ Collect(e(s))
    BY <1>3 DEF PutL1
  <2>2. s \in Slots /\ elem[s] = None
    BY DEF Free
  <2>3. e(s) \in [Slots -> Items \cup {None}]
    BY <1>1, <2>2
  <2>4. /\ items' \in [Keys -> Slots \cup {None}] /\ items'[k] \in {s, None}
        /\ \A j \in Keys \ {k} : items'[j] \in {items[j], None}
    <3> HIDE DEF old
    <3> QED
      BY <1>1, <2>1, <2>2
  <2>5. /\ elem' \in [Slots -> Items \cup {None}]
        /\ \A j \in Keys : items'[j] \in Slots => elem'[items'[j]] = e(s)[items'[j]]
        /\ \A c \in Callers, r \in Slots : op'[c].elem = r => elem'[r] = e(s)[r]
    <3> HIDE DEF e
    <3> QED
      BY <2>1, <2>3, CollectKeeps
  <2>6. /\ e(s)[s] = new
        /\ \A r \in Slots : r # s => e(s)[r] = elem[r]
    BY <1>1, <2>2
  <2>7. \A j \in Keys : items[j] # None => elem[items[j]] # None
    BY <1>1, NoneAssumption DEF MapShape, ItemOf
  <2> HIDE DEF e
  <2> QED
    BY <1>1, <2>2, <2>4, <2>5, <2>6, <2>7 DEF L1Frame
<1> QED
  BY <1>2, <1>3
-------------------------------------------------------------------------------
\* What a Get may hold at its place without having been disturbed.
ReadMayHold(call) ==
    call.key \notin excused =>
       /\ call.pc = "backfill" => call.val = last[call.key] /\ due[call.key] > 0
       /\ call.pc = "hit" => GoodCopy(call.key, call.val, 0)

\* A step of the loop of a Get from one place to the next that at most removes
\* keys from L1 keeps the invariant.
LEMMA ReadStep ==
    ASSUME IInv, NEW c \in Callers, NEW r \in Calls,
           op' = [op EXCEPT ![c] = r],
           op[c].pc \notin Writing, r.elem = None, r.clean = FALSE,
           \/ r.pc = "idle" /\ r.key = None
           \/ /\ r.pc \in {"expire", "l2", "backfill", "hit"}
              /\ r.key = op[c].key /\ r.key \in Keys,
           r.pc = "backfill" => r.val \in Values,
           ReadMayHold(r),
           L1Frame({}), UNCHANGED <<l2, history>>
    PROVE  IInv'
<1> USE NoneAssumption DEF IInv, Shape, Good
<1>1. /\ op' \in [Callers -> Calls]
      /\ op'[c] = r
      /\ \A d \in Callers : d # c => op'[d] = op[d]
      /\ op \in [Callers -> Calls]
      /\ \A d \in Callers : op'[d].pc \in Writing <=> op[d].pc \in Writing
      /\ \A d \in Callers : op'[d].pc \in Writing => op'[d] = op[d]
      /\ last' = last /\ due' = due /\ excused' = excused /\ l2' = l2
  BY DEF DataOK, history, Writing
<1>2. \A k \in Keys : Busy(k, Writing)' <=> Busy(k, Writing)
  BY <1>1 DEF Busy
<1>3. DataOK'
  BY <1>1 DEF DataOK, L1Frame
<1>4. MapShape'
  BY <1>1 DEF MapShape, L1Frame, ItemOf
<1>5. CallShape'
  BY <1>1 DEF CallShape, L1Frame, ItemOf, Calls, DataOK
<1>6. WriteShape'
  BY <1>1 DEF WriteShape, CallShape
<1>7. L2Good'
  BY <1>1 DEF L2Good
<1>8. L1Good'
  BY <1>1, <1>2 DEF L1Good, L1Frame, GoodCopy
<1>9. WriteGood'
  BY <1>1 DEF WriteGood, L1Frame, CallShape, L1TTL, Writing
<1>10. ReadGood'
  <2> SUFFICES ASSUME NEW d \in Callers, op'[d].key \notin excused
               PROVE  /\ op'[d].pc = "l1" =>
                            GoodCopy(op'[d].key, elem'[op'[d].elem].val,
                                     elem'[op'[d].elem].ttl)
                      /\ ReadMayHold(op'[d])
    BY <1>1 DEF ReadGood, GoodCopy, ReadMayHold
  <2> QED
    BY <1>1 DEF ReadGood, GoodCopy, ReadMayHold, CallShape, ItemOf, L1Frame, Calls, DataOK
<1> QED
  BY <1>3, <1>4, <1>5, <1>6, <1>7, <1>8, <1>9, <1>10
\* A Get that leaves its element, reads L2 or ends, removing at most its key.
LEMMA GetMovesIInv ==
    ASSUME IInv, NEW c \in Callers,
           \/ GetL1Hit(c) \/ GetL1Expired(c) \/ GetRemovesExpired(c)
           \/ GetL2Hit(c) \/ GetL2Misses(c) \/ GetReturns(c)
    PROVE  IInv'
<1> DEFINE k == op[c].key
<1>1. /\ DataOK /\ CallShape /\ op[c] \in Calls
      /\ items \in [Keys -> Slots \cup {None}]
      /\ k \notin excused /\ op[c].pc = "l1" =>
           GoodCopy(k, elem[op[c].elem].val, elem[op[c].elem].ttl)
  BY DEF IInv, Shape, Good, DataOK, ReadGood
<1>2. ASSUME Collect(elem), UNCHANGED items PROVE L1Frame({})
  BY <1>1, <1>2, RemovalFrame
<1>3. CASE GetL1Hit(c)
  <2> DEFINE v == elem[op[c].elem].val
             r == Read("hit", k, v, None)
  <2>1. /\ k \in Keys /\ op[c].pc = "l1" /\ elem[op[c].elem] \in Items
        /\ elem[op[c].elem].ttl >= 0 /\ elem[op[c].elem].ttl \in Int
    BY <1>1, <1>3, NoneAssumption DEF GetL1Hit, At, CallShape, ItemOf, Items
  <2>2. r \in Calls /\ op' = [op EXCEPT ![c] = r]
    BY <1>3, <2>1, CacheAssumption DEF GetL1Hit, Goto, Read, Calls, Items
  <2>3. ReadMayHold(r)
    <3>1. ASSUME k \notin excused PROVE GoodCopy(k, v, 0)
      <4>1. due[k] \in Int
        BY <2>1, <1>1, CacheAssumption DEF DataOK
      <4> QED
        BY <1>1, <2>1, <3>1, <4>1, CacheAssumption DEF GoodCopy
    <3> QED
      BY <3>1 DEF ReadMayHold, Read
  <2>4. L1Frame({}) /\ UNCHANGED <<l2, history>>
    BY <1>2, <1>3 DEF GetL1Hit
  <2>5. op[c].pc \notin Writing
    BY <2>1 DEF Writing
  <2>6. r.elem = None /\ r.clean = FALSE /\ r.pc = "hit" /\ r.key = k
    BY DEF Read
  <2> HIDE DEF r
  <2> QED
    BY <2>1, <2>2, <2>3, <2>4, <2>5, <2>6, ReadStep
<1>4. CASE GetL1Expired(c)
  <2> DEFINE r == Read("expire", k, None, None)
  <2>1. k \in Keys /\ op[c].pc = "l1" /\ op[c].pc \notin Writing
    BY <1>1, <1>4 DEF GetL1Expired, At, CallShape, Writing
  <2>2. r \in Calls /\ op' = [op EXCEPT ![c] = r]
    BY <1>4, <2>1, CacheAssumption DEF GetL1Expired, Goto, Read, Calls
  <2>3. /\ r.elem = None /\ r.clean = FALSE /\ r.pc = "expire" /\ r.key = k
        /\ ReadMayHold(r)
    BY DEF Read, ReadMayHold
  <2>4. L1Frame({}) /\ UNCHANGED <<l2, history>>
    BY <1>2, <1>4 DEF GetL1Expired
  <2> HIDE DEF r
  <2> QED
    BY <2>1, <2>2, <2>3, <2>4, ReadStep
<1>5. CASE GetRemovesExpired(c)
  <2> DEFINE r == Read("l2", k, None, None)
  <2>1. k \in Keys /\ op[c].pc = "expire" /\ op[c].pc \notin Writing
    BY <1>1, <1>5 DEF GetRemovesExpired, At, CallShape, Writing
  <2>2. r \in Calls /\ op' = [op EXCEPT ![c] = r]
    BY <1>5, <2>1, CacheAssumption DEF GetRemovesExpired, Goto, Read, Calls
  <2>3. /\ r.elem = None /\ r.clean = FALSE /\ r.pc = "l2" /\ r.key = k
        /\ ReadMayHold(r)
    BY DEF Read, ReadMayHold
  <2>4. L1Frame({}) /\ UNCHANGED <<l2, history>>
    BY <1>1, <1>5, <2>1, RemoveKeyFrame DEF GetRemovesExpired
  <2> HIDE DEF r
  <2> QED
    BY <2>1, <2>2, <2>3, <2>4, ReadStep
<1>6. CASE GetL2Hit(c)
  <2> DEFINE r == Read("backfill", k, l2[k].val, None)
  <2>1. /\ k \in Keys /\ op[c].pc = "l2" /\ op[c].pc \notin Writing
        /\ l2[k] # None /\ UNCHANGED l1 /\ UNCHANGED <<l2, history>>
    BY <1>1, <1>6 DEF GetL2Hit, At, CallShape, Writing
  <2>2. l2[k] \in Entries
    BY <1>1, <2>1 DEF DataOK
  <2>3. r \in Calls /\ op' = [op EXCEPT ![c] = r]
    BY <1>6, <2>1, <2>2, CacheAssumption
       DEF GetL2Hit, Goto, Read, Calls, Entries
  <2>4. ReadMayHold(r)
    <3>1. k \notin excused => l2[k].val = last[k] /\ l2[k].ttl <= due[k]
      BY <2>1 DEF IInv, Good, L2Good
    <3>2. due[k] \in Int /\ l2[k].ttl \in Int /\ l2[k].ttl > 0
      BY <1>1, <2>1, <2>2, CacheAssumption DEF DataOK, Entries
    <3> QED
      BY <3>1, <3>2 DEF ReadMayHold, Read
  <2>5. r.elem = None /\ r.clean = FALSE /\ r.pc = "backfill" /\ r.key = k
        /\ r.val \in Values
    BY <2>2 DEF Read, Entries
  <2>6. L1Frame({})
    BY <1>1, <2>1, <2>3, <2>5 DEF L1Frame, l1, DataOK
  <2> HIDE DEF r
  <2> QED
    BY <2>1, <2>3, <2>4, <2>5, <2>6, ReadStep
<1>7. CASE GetL2Misses(c) \/ GetReturns(c)
  <2>1. /\ op[c].pc \notin Writing /\ op' = [op EXCEPT ![c] = Idle]
        /\ UNCHANGED l1 /\ UNCHANGED <<l2, history>>
    BY <1>7 DEF GetL2Misses, GetReturns, At, Return, Writing
  <2>2. /\ Idle \in Calls /\ Idle.elem = None /\ Idle.clean = FALSE
        /\ Idle.pc = "idle" /\ Idle.key = None /\ ReadMayHold(Idle)
    BY CacheAssumption DEF Idle, Read, Calls, ReadMayHold
  <2>3. L1Frame({})
    BY <1>1, <2>1, <2>2 DEF L1Frame, l1, DataOK
  <2> QED
    BY <2>1, <2>2, <2>3, ReadStep
<1> QED
  BY <1>3, <1>4, <1>5, <1>6, <1>7
\* A call that begins changes only the cleanness of the others.
LEMMA DisturbedCalls ==
    ASSUME op \in [Callers -> Calls], NEW k
    PROVE  /\ Disturbed(k) \in [Callers -> Calls]
           /\ \A d \in Callers :
                /\ Disturbed(k)[d].pc = op[d].pc /\ Disturbed(k)[d].key = op[d].key
                /\ Disturbed(k)[d].val = op[d].val /\ Disturbed(k)[d].ttl = op[d].ttl
                /\ Disturbed(k)[d].elem = op[d].elem
                /\ Disturbed(k)[d].clean <=> op[d].clean /\ op[d].key # k
<1>1. \A d \in Callers :
        /\ Disturbed(k)[d] \in Calls
        /\ Disturbed(k)[d].pc = op[d].pc /\ Disturbed(k)[d].key = op[d].key
        /\ Disturbed(k)[d].val = op[d].val /\ Disturbed(k)[d].ttl = op[d].ttl
        /\ Disturbed(k)[d].elem = op[d].elem
        /\ Disturbed(k)[d].clean <=> op[d].clean /\ op[d].key # k
  BY DEF Disturbed, Calls
<1>2. Disturbed(k) \in [Callers -> Calls]
  BY <1>1 DEF Disturbed
<1> QED
  BY <1>1, <1>2

\* A Get begins: it holds the element of its key, or goes to L2.
LEMMA GetStartIInv ==
    ASSUME IInv, NEW c \in Callers, NEW k \in Keys, GetStart(c, k)
    PROVE  IInv'
<1> DEFINE r == Read(IF items[k] = None THEN "l2" ELSE "l1", k, None, items[k])
<1>1. /\ r \in Calls /\ r.key = k /\ r.elem = items[k] /\ r.clean = FALSE
      /\ r.pc = IF items[k] = None THEN "l2" ELSE "l1"
  BY NoneAssumption, CacheAssumption DEF Read, Calls, DataOK, IInv, Shape
<1>2. /\ op' = [Disturbed(k) EXCEPT ![c] = r]
      /\ op \in [Callers -> Calls] /\ op[c].pc = "idle" /\ op[c].key = None
      /\ excused' = IF Busy(k, Writing) THEN excused \cup {k} ELSE excused
      /\ elem' = elem /\ items' = items /\ l2' = l2 /\ last' = last /\ due' = due
  BY DEF GetStart, At, DataOK, CallShape, l1, IInv, Shape
<1> HIDE DEF r
<1>3. /\ op' \in [Callers -> Calls]
      /\ op'[c] = r
      /\ \A d \in Callers \ {c} :
           /\ op'[d].pc = op[d].pc /\ op'[d].key = op[d].key
           /\ op'[d].val = op[d].val /\ op'[d].ttl = op[d].ttl
           /\ op'[d].elem = op[d].elem
           /\ op'[d].clean <=> op[d].clean /\ op[d].key # k
  BY <1>1, <1>2, DisturbedCalls
<1> USE NoneAssumption, CacheAssumption DEF IInv, Shape, Good
<1>4. /\ \A j \in Keys : Busy(j, Writing)' <=> Busy(j, Writing)
      /\ r.pc \notin Writing /\ op[c].pc \notin Writing
  BY <1>1, <1>2, <1>3 DEF Busy, Writing
<1>5. DataOK'
  BY <1>2, <1>3 DEF DataOK
<1>6. MapShape'
  BY <1>2 DEF MapShape, ItemOf
<1>7. CallShape'
  BY <1>1, <1>2, <1>3 DEF CallShape, MapShape, ItemOf
<1>8. WriteShape'
  <2>1. \A d \in Callers : op[d].key = k /\ op[d].pc \in Writing => k \in excused'
    BY <1>2 DEF Busy
  <2> QED
    BY <1>1, <1>2, <1>3, <1>4, <2>1 DEF WriteShape
<1>9. L2Good'
  BY <1>2 DEF L2Good
<1>10. L1Good'
  BY <1>2, <1>4 DEF L1Good, GoodCopy
<1>11. WriteGood'
  BY <1>1, <1>2, <1>3, <1>4 DEF WriteGood, L1TTL, Writing
<1>12. ReadGood'
  <2>1. k \notin excused' /\ items[k] # None =>
          GoodCopy(k, elem[items[k]].val, elem[items[k]].ttl)
    BY <1>2 DEF L1Good
  <2> QED
    BY <1>1, <1>2, <1>3, <2>1 DEF ReadGood, GoodCopy
<1> QED
  BY <1>5, <1>6, <1>7, <1>8, <1>9, <1>10, <1>11, <1>12

\* The backfill writes the value that L2 held; no write of the key is under way
\* unless the key is excused.
LEMMA GetBackfillsIInv ==
    ASSUME IInv, NEW c \in Callers, GetBackfills(c)
    PROVE  IInv'
<1> DEFINE k == op[c].key
           v == op[c].val
           r == Read("hit", k, v, None)
<1>1. /\ op \in [Callers -> Calls] /\ op[c].pc = "backfill" /\ k \in Keys
      /\ op[c].pc \notin Writing
      /\ op' = [op EXCEPT ![c] = r] /\ PutL1(k, v, L1MaxTTL)
      /\ l2' = l2 /\ last' = last /\ due' = due /\ excused' = excused
  BY DEF GetBackfills, At, Goto, BackfillTTL, DataOK, CallShape, history, Writing,
         IInv, Shape
<1>2. /\ v \in Values /\ L1MaxTTL \in -1..MaxTTL /\ DataOK /\ MapShape
  BY <1>1, CacheAssumption DEF CallShape, IInv, Shape, Calls
<1>3. /\ r \in Calls /\ r.key = k /\ r.elem = None /\ r.clean = FALSE
      /\ r.pc = "hit" /\ r.val = v
  BY <1>1, <1>2, CacheAssumption DEF Read, Calls
<1>4. /\ L1Frame({k})
      /\ items'[k] # None => elem'[items'[k]] = [key |-> k, val |-> v, ttl |-> L1MaxTTL]
      /\ \A d \in Callers, s \in Slots : op'[d].elem = s /\ elem[s] # None =>
           elem'[s] \in {elem[s], [key |-> k, val |-> v, ttl |-> L1MaxTTL]}
  <2> HIDE DEF k, v, r
  <2> QED
    BY <1>1, <1>2, PutFrame
<1> USE NoneAssumption, CacheAssumption DEF IInv, Shape, Good
<1>5. k \notin excused => v = last[k] /\ due[k] > 0
  BY <1>1 DEF ReadGood
<1> HIDE DEF r
<1>6. /\ op' \in [Callers -> Calls] /\ op'[c] = r
      /\ \A d \in Callers \ {c} : op'[d] = op[d]
      /\ \A d \in Callers : op'[d].pc \in Writing <=> op[d].pc \in Writing
      /\ \A d \in Callers : op'[d].key = op[d].key
  BY <1>1, <1>3 DEF Writing
<1>7. \A j \in Keys : Busy(j, Writing)' <=> Busy(j, Writing)
  BY <1>6 DEF Busy
<1>8. \A d \in Callers : op[d].clean => op[d].key # k
  BY <1>1 DEF WriteShape
<1>9. DataOK'
  BY <1>1, <1>6, <1>4 DEF DataOK, L1Frame
<1>10. MapShape'
  <2>1. \A s \in Slots : items'[k] = s => elem'[s] \in Items /\ elem'[s].key = k
    BY <1>1, <1>4, <1>2 DEF L1Frame, ItemOf, Items
  <2> QED
    BY <2>1, <1>4, <1>1 DEF MapShape, ItemOf, L1Frame
<1>11. CallShape'
  BY <1>1, <1>3, <1>4, <1>6 DEF CallShape, L1Frame, ItemOf, DataOK, Calls
<1>12. WriteShape'
  BY <1>1, <1>3, <1>6 DEF WriteShape
<1>13. L2Good'
  BY <1>1 DEF L2Good
<1>14. L1Good'
  <2>1. k \notin excused => GoodCopy(k, v, L1MaxTTL)
    BY <1>5, <1>1 DEF GoodCopy
  <2> QED
    BY <1>1, <1>4, <1>7, <2>1 DEF L1Good, L1Frame, GoodCopy
<1>15. WriteGood'
  BY <1>1, <1>3, <1>4, <1>6, <1>8 DEF WriteGood, L1Frame, CallShape, L1TTL, Writing
<1>16. ReadGood'
  <2>1. k \notin excused => GoodCopy(k, v, 0)
    BY <1>5, <1>1 DEF GoodCopy, DataOK
  <2>2. ASSUME NEW d \in Callers \ {c}, op[d].key \notin excused, op[d].pc = "l1"
        PROVE  GoodCopy(op[d].key, elem'[op[d].elem].val, elem'[op[d].elem].ttl)
    <3> DEFINE s == op[d].elem
    <3>1. /\ op[d].key \in Keys /\ s \in Slots /\ elem[s] \in Items
          /\ elem[s].key = op[d].key /\ elem[s] # None /\ op'[d].elem = s
      BY <2>2, <1>6 DEF CallShape, ItemOf, DataOK, Calls
    <3>2. CASE elem'[s] = elem[s]
      BY <3>2, <2>2 DEF ReadGood
    <3>3. CASE elem'[s] = [key |-> k, val |-> v, ttl |-> L1MaxTTL]
      <4>1. elem'[s].key = op[d].key
        BY <3>1, <1>4 DEF L1Frame
      <4> QED
        BY <4>1, <3>3, <2>2, <1>5 DEF GoodCopy
    <3> QED
      BY <3>1, <3>2, <3>3, <1>4
  <2> QED
    BY <1>1, <1>3, <1>6, <2>1, <2>2 DEF ReadGood, GoodCopy
<1> QED
  BY <1>9, <1>10, <1>11, <1>12, <1>13, <1>14, <1>15, <1>16
-------------------------------------------------------------------------------
\* What the beginning of a write does to the calls and the excuses.
LEMMA BeginFacts ==
    ASSUME IInv, NEW c \in Callers, NEW k \in Keys, NEW v \in Values \cup {None},
           NEW t \in 0..MaxTTL, NEW pc \in Writing,
           At(c, "idle"), BeginWrite(c, k, v, t, pc), last' = last, due' = due
    PROVE  /\ op' \in [Callers -> Calls] /\ excused' \subseteq Keys
           /\ op'[c].pc = pc /\ op'[c].key = k /\ op'[c].val = v /\ op'[c].ttl = t
           /\ op'[c].elem = None
           /\ \A d \in Callers \ {c} :
                /\ op'[d].pc = op[d].pc /\ op'[d].key = op[d].key
                /\ op'[d].val = op[d].val /\ op'[d].ttl = op[d].ttl
                /\ op'[d].elem = op[d].elem
                /\ op'[d].clean <=> op[d].clean /\ op[d].key # k
                /\ op[d].key = k => k \in excused'
           /\ \A j \in Keys \ {k} : /\ j \in excused' <=> j \in excused
                                    /\ Busy(j, Writing)' <=> Busy(j, Writing)
           /\ k \in excused => k \in excused'
           /\ WriteShape'
<1> DEFINE r == [pc |-> pc, key |-> k, val |-> v, elem |-> None,
                 ttl |-> t, clean |-> ~InUse(k)]
<1>1. /\ op \in [Callers -> Calls] /\ op[c].pc = "idle" /\ op[c].key = None
      /\ excused \subseteq Keys /\ WriteShape
      /\ \A d \in Callers : op[d].clean \in BOOLEAN
      /\ k # None
  BY NoneAssumption DEF IInv, Shape, DataOK, CallShape, At, Calls
<1>2. /\ r \in Calls /\ r.pc = pc /\ r.key = k /\ r.val = v /\ r.ttl = t
      /\ r.elem = None
      /\ r.clean <=> ~InUse(k)
  BY DEF Calls, Writing
<1>3. /\ op' = [Disturbed(k) EXCEPT ![c] = r]
      /\ excused' = IF InUse(k) THEN excused \cup {k} ELSE excused
  BY DEF BeginWrite
<1> HIDE DEF r
<1>4. /\ Disturbed(k) \in [Callers -> Calls]
      /\ \A d \in Callers :
           /\ Disturbed(k)[d].pc = op[d].pc /\ Disturbed(k)[d].key = op[d].key
           /\ Disturbed(k)[d].val = op[d].val /\ Disturbed(k)[d].ttl = op[d].ttl
           /\ Disturbed(k)[d].elem = op[d].elem
           /\ Disturbed(k)[d].clean <=> op[d].clean /\ op[d].key # k
  BY <1>1, DisturbedCalls
<1>5. /\ op' \in [Callers -> Calls] /\ op'[c] = r
      /\ \A d \in Callers \ {c} : op'[d] = Disturbed(k)[d]
  BY <1>2, <1>3, <1>4
<1>6. \A d \in Callers : op[d].key = k => InUse(k) /\ k \in excused'
  BY <1>3 DEF InUse
<1>7. \A j \in Keys \ {k} : /\ j \in excused' <=> j \in excused
                            /\ Busy(j, Writing)' <=> Busy(j, Writing)
  BY <1>1, <1>2, <1>3, <1>4, <1>5, NoneAssumption DEF Busy
<1>8. WriteShape'
  <2>1. ASSUME NEW d \in Callers
        PROVE  op'[d].pc \in Writing => op'[d].clean \/ op'[d].key \in excused'
    BY <1>1, <1>2, <1>3, <1>4, <1>5, <1>6 DEF WriteShape
  <2>2. ASSUME NEW d \in Callers, op'[d].clean
        PROVE  op'[d].pc \in Writing
    BY <2>2, <1>1, <1>2, <1>4, <1>5 DEF WriteShape
  <2>3. ASSUME NEW d \in Callers, op'[d].clean, NEW b \in Callers, op'[b].key = op'[d].key
        PROVE  b = d
    <3>1. CASE d = c
      <4>1. ~InUse(k) /\ op'[b].key = k
        BY <3>1, <2>3, <1>2, <1>5
      <4>2. b # c => op[b].key = k
        BY <4>1, <1>4, <1>5
      <4> QED
        BY <3>1, <4>1, <4>2, <1>6
    <3>2. CASE d # c
      <4>1. op[d].clean /\ op[d].key # k /\ op'[d].key = op[d].key
        BY <3>2, <2>3, <1>4, <1>5
      <4>2. b # c /\ op[b].key = op[d].key
        BY <4>1, <2>3, <1>2, <1>4, <1>5
      <4> QED
        BY <4>1, <4>2, <1>1 DEF WriteShape
    <3> QED
      BY <3>1, <3>2
  <2> QED
    BY <2>1, <2>2, <2>3 DEF WriteShape
<1>9. \A d \in Callers \ {c} :
        /\ op'[d].pc = op[d].pc /\ op'[d].key = op[d].key
        /\ op'[d].val = op[d].val /\ op'[d].ttl = op[d].ttl
        /\ op'[d].elem = op[d].elem
        /\ op'[d].clean <=> op[d].clean /\ op[d].key # k
        /\ op[d].key = k => k \in excused'
  BY <1>4, <1>5, <1>6
<1>10. excused' \subseteq Keys /\ (k \in excused => k \in excused')
  BY <1>1, <1>3
<1>11. /\ op'[c].pc = pc /\ op'[c].key = k /\ op'[c].val = v /\ op'[c].ttl = t
       /\ op'[c].elem = None /\ op' \in [Callers -> Calls]
  BY <1>2, <1>5
<1> QED
  BY <1>7, <1>8, <1>9, <1>10, <1>11

\* Set writes L1: from here on, only its own copy of the key is in the map.
LEMMA SetL1IInv ==
    ASSUME IInv, NEW c \in Callers, NEW k \in Keys, NEW v \in Values,
           NEW t \in 1..MaxTTL, SetL1(c, k, v, t)
    PROVE  IInv'
<1>1. /\ At(c, "idle") /\ BeginWrite(c, k, v, t, "setL2") /\ PutL1(k, v, L1TTL(t))
      /\ l2' = l2 /\ last' = last /\ due' = due
      /\ DataOK /\ MapShape /\ CallShape /\ "setL2" \in Writing
  BY DEF SetL1, IInv, Shape, Writing
<1>2. L1TTL(t) \in -1..MaxTTL
  BY CacheAssumption DEF L1TTL
<1>3. /\ L1Frame({k})
      /\ items'[k] # None => elem'[items'[k]] = [key |-> k, val |-> v, ttl |-> L1TTL(t)]
  BY <1>1, <1>2, PutFrame
<1>4. /\ op' \in [Callers -> Calls] /\ excused' \subseteq Keys
      /\ op'[c].pc = "setL2" /\ op'[c].key = k /\ op'[c].val = v /\ op'[c].ttl = t
      /\ op'[c].elem = None
      /\ \A d \in Callers \ {c} :
           /\ op'[d].pc = op[d].pc /\ op'[d].key = op[d].key
           /\ op'[d].val = op[d].val /\ op'[d].ttl = op[d].ttl
           /\ op'[d].elem = op[d].elem
           /\ op'[d].clean <=> op[d].clean /\ op[d].key # k
           /\ op[d].key = k => k \in excused'
      /\ \A j \in Keys \ {k} : /\ j \in excused' <=> j \in excused
                               /\ Busy(j, Writing)' <=> Busy(j, Writing)
      /\ k \in excused => k \in excused'
      /\ WriteShape'
  BY <1>1, BeginFacts
<1> USE NoneAssumption, CacheAssumption DEF IInv, Shape, Good
<1>5. DataOK'
  BY <1>1, <1>3, <1>4 DEF DataOK, L1Frame
<1>6. MapShape'
  <2>1. \A s \in Slots : items'[k] = s => elem'[s] \in Items /\ elem'[s].key = k
    <3> DEFINE new == [key |-> k, val |-> v, ttl |-> L1TTL(t)]
    <3>1. new \in Items /\ new.key = k
      BY <1>2 DEF Items
    <3>2. \A s \in Slots : items'[k] = s => elem'[s] = new
      BY <1>3
    <3> HIDE DEF new
    <3> QED
      BY <3>1, <3>2
  <2> QED
    BY <2>1, <1>3 DEF MapShape, ItemOf, L1Frame
<1>7. CallShape'
  BY <1>3, <1>4 DEF CallShape, L1Frame, ItemOf, DataOK, Calls
<1>8. L2Good'
  BY <1>1, <1>4 DEF L2Good
<1>9. L1Good'
  <2>1. Busy(k, Writing)'
    BY <1>1, <1>4 DEF Busy
  <2> QED
    BY <1>1, <1>3, <1>4, <2>1 DEF L1Good, L1Frame, GoodCopy
<1>10. WriteGood'
  <2>1. ASSUME NEW d \in Callers \ {c}, op'[d].clean
        PROVE  /\ op[d].clean /\ op[d].pc \in Writing /\ op[d].key \in Keys \ {k}
               /\ items'[op[d].key] # None =>
                     /\ items'[op[d].key] = items[op[d].key]
                     /\ elem'[items[op[d].key]] = elem[items[op[d].key]]
    BY <2>1, <1>3, <1>4 DEF WriteShape, CallShape, L1Frame, Writing
  <2>2. ASSUME NEW d \in Callers, op'[d].pc = "setL2", op'[d].clean,
               items'[op'[d].key] # None
        PROVE  /\ elem'[items'[op'[d].key]].val = op'[d].val
               /\ elem'[items'[op'[d].key]].ttl <= L1TTL(op'[d].ttl)
    <3>1. CASE d = c
      BY <3>1, <2>2, <1>2, <1>3, <1>4
    <3>2. CASE d # c
      BY <3>2, <2>1, <2>2, <1>4 DEF WriteGood
    <3> QED
      BY <3>1, <3>2
  <2>3. ASSUME NEW d \in Callers, op'[d].pc = "deleteL2", op'[d].clean
        PROVE  items'[op'[d].key] = None
    BY <2>1, <2>3, <1>4 DEF WriteGood
  <2> QED
    BY <2>2, <2>3 DEF WriteGood, L1TTL
<1>11. ReadGood'
  <2>1. ASSUME NEW d \in Callers \ {c}, op[d].key \notin excused', op[d].pc = "l1"
        PROVE  GoodCopy(op[d].key, elem'[op[d].elem].val, elem'[op[d].elem].ttl)
    <3> DEFINE s == op[d].elem
    <3>1. /\ op[d].key \in Keys \ {k} /\ s \in Slots /\ elem[s] \in Items
          /\ elem[s].key = op[d].key /\ elem[s] # None /\ op'[d].elem = s
          /\ op[d].key \notin excused
      BY <2>1, <1>4 DEF CallShape, ItemOf, DataOK, Calls
    <3>2. elem'[s] = elem[s]
      BY <3>1, <1>3 DEF L1Frame
    <3> QED
      BY <2>1, <3>1, <3>2 DEF ReadGood
  <2> QED
    BY <1>1, <1>4, <2>1 DEF ReadGood, GoodCopy, CallShape
<1> QED
  BY <1>4, <1>5, <1>6, <1>7, <1>8, <1>9, <1>10, <1>11

\* Delete removes the key from L1.
LEMMA DeleteL1IInv ==
    ASSUME IInv, NEW c \in Callers, NEW k \in Keys, DeleteL1(c, k)
    PROVE  IInv'
<1>1. /\ At(c, "idle") /\ BeginWrite(c, k, None, 0, "deleteL2")
      /\ RemoveKey(k) /\ Collect(elem)
      /\ l2' = l2 /\ last' = last /\ due' = due
      /\ DataOK /\ MapShape /\ CallShape /\ "deleteL2" \in Writing /\ 0 \in 0..MaxTTL
  BY CacheAssumption DEF DeleteL1, IInv, Shape, Writing
<1>2. L1Frame({}) /\ items'[k] = None
  BY <1>1, RemoveKeyFrame
<1>3. /\ op' \in [Callers -> Calls] /\ excused' \subseteq Keys
      /\ op'[c].pc = "deleteL2" /\ op'[c].key = k /\ op'[c].elem = None
      /\ \A d \in Callers \ {c} :
           /\ op'[d].pc = op[d].pc /\ op'[d].key = op[d].key
           /\ op'[d].val = op[d].val /\ op'[d].ttl = op[d].ttl
           /\ op'[d].elem = op[d].elem
           /\ op'[d].clean <=> op[d].clean /\ op[d].key # k
           /\ op[d].key = k => k \in excused'
      /\ \A j \in Keys \ {k} : /\ j \in excused' <=> j \in excused
                               /\ Busy(j, Writing)' <=> Busy(j, Writing)
      /\ k \in excused => k \in excused'
      /\ WriteShape'
  BY <1>1, BeginFacts
<1> USE NoneAssumption, CacheAssumption DEF IInv, Shape, Good
<1>4. DataOK'
  BY <1>1, <1>2, <1>3 DEF DataOK, L1Frame
<1>5. MapShape'
  BY <1>2 DEF MapShape, ItemOf, L1Frame
<1>6. CallShape'
  BY <1>2, <1>3 DEF CallShape, L1Frame, ItemOf, DataOK, Calls
<1>7. L2Good'
  BY <1>1, <1>3 DEF L2Good
<1>8. L1Good'
  BY <1>1, <1>2, <1>3 DEF L1Good, L1Frame, GoodCopy
<1>9. WriteGood'
  <2>1. ASSUME NEW d \in Callers \ {c}, op'[d].clean
        PROVE  /\ op[d].clean /\ op[d].key \in Keys
               /\ items'[op[d].key] # None =>
                     /\ items'[op[d].key] = items[op[d].key]
                     /\ elem'[items[op[d].key]] = elem[items[op[d].key]]
    BY <2>1, <1>2, <1>3 DEF WriteShape, CallShape, L1Frame, Writing
  <2> QED
    BY <2>1, <1>2, <1>3 DEF WriteGood, L1TTL
<1>10. ReadGood'
  <2>1. ASSUME NEW d \in Callers \ {c}, op[d].key \notin excused', op[d].pc = "l1"
        PROVE  GoodCopy(op[d].key, elem'[op[d].elem].val, elem'[op[d].elem].ttl)
    <3> DEFINE s == op[d].elem
    <3>1. /\ op[d].key \in Keys \ {k} /\ s \in Slots /\ elem[s] \in Items
          /\ elem[s] # None /\ op'[d].elem = s /\ op[d].key \notin excused
      BY <2>1, <1>3 DEF CallShape, ItemOf, DataOK, Calls
    <3>2. elem'[s] = elem[s]
      BY <3>1, <1>2 DEF L1Frame
    <3> QED
      BY <2>1, <3>1, <3>2 DEF ReadGood
  <2> QED
    BY <1>1, <1>3, <2>1 DEF ReadGood, GoodCopy, CallShape
<1> QED
  BY <1>3, <1>4, <1>5, <1>6, <1>7, <1>8, <1>9, <1>10
\* A write ends.  If its key is not excused afterwards, it was the only call of the
\* key, and both layers hold what the key was last given.
LEMMA EndStep ==
    ASSUME IInv, NEW c \in Callers, NEW k \in Keys, k = op[c].key,
           op[c].pc \in Writing, Return(c), UNCHANGED l1,
           l2' \in [Keys -> Entries \cup {None}],
           last' \in [Keys -> Values \cup {None}],
           due' \in [Keys -> -L1MaxTTL..MaxTTL],
           excused' \subseteq Keys,
           \A j \in Keys \ {k} :
              /\ l2'[j] = l2[j] /\ last'[j] = last[j] /\ due'[j] = due[j]
              /\ j \in excused' <=> j \in excused,
           k \notin excused' =>
              /\ op[c].clean
              /\ l2'[k] # None => l2'[k].val = last'[k] /\ l2'[k].ttl <= due'[k]
              /\ items[k] # None =>
                    /\ elem[items[k]].val = last'[k]
                    /\ elem[items[k]].ttl >= 0 => due'[k] > elem[items[k]].ttl - L1MaxTTL
    PROVE  IInv'
<1> USE NoneAssumption, CacheAssumption DEF IInv, Shape, Good
<1>1. /\ Idle \in Calls /\ Idle.pc = "idle" /\ Idle.key = None /\ Idle.elem = None
      /\ Idle.clean = FALSE
  BY DEF Idle, Read, Calls
<1>2. /\ op' \in [Callers -> Calls] /\ op'[c] = Idle
      /\ \A d \in Callers \ {c} : op'[d] = op[d]
      /\ elem' = elem /\ items' = items
  BY <1>1 DEF Return, DataOK, l1
<1>3. k \notin excused' => \A d \in Callers \ {c} : op[d].key # k
  BY DEF WriteShape
<1>4. \A j \in Keys \ {k} : Busy(j, Writing)' <=> Busy(j, Writing)
  BY <1>1, <1>2 DEF Busy
<1>5. DataOK'
  BY <1>2 DEF DataOK
<1>6. MapShape'
  BY <1>2 DEF MapShape, ItemOf
<1>7. CallShape'
  BY <1>1, <1>2 DEF CallShape, ItemOf
<1>8. WriteShape'
  <2>1. ASSUME NEW d \in Callers, op'[d].pc \in Writing, ~op'[d].clean
        PROVE  op'[d].key \in excused'
    <3>1. d # c /\ op'[d] = op[d]
      BY <1>1, <1>2, <2>1 DEF Writing
    <3> QED
      BY <3>1, <2>1, <1>3 DEF WriteShape, CallShape, Writing
  <2>2. ASSUME NEW d \in Callers, op'[d].clean
        PROVE  op'[d].pc \in Writing /\ \A b \in Callers : op'[b].key = op'[d].key => b = d
    <3>1. d # c /\ op'[d] = op[d] /\ op[d].key \in Keys
      BY <1>1, <1>2, <2>2 DEF WriteShape, CallShape, Writing
    <3> QED
      BY <3>1, <2>2, <1>1, <1>2 DEF WriteShape
  <2> QED
    BY <2>1, <2>2 DEF WriteShape
<1>9. L2Good'
  BY DEF L2Good
<1>10. L1Good'
  BY <1>2, <1>4 DEF L1Good, GoodCopy
<1>11. WriteGood'
  BY <1>1, <1>2 DEF WriteGood, L1TTL
<1>12. ReadGood'
  <2> SUFFICES ASSUME NEW d \in Callers, op'[d].key \notin excused'
               PROVE  /\ op'[d].pc = "l1" =>
                            GoodCopy(op[d].key, elem[op[d].elem].val,
                                     elem[op[d].elem].ttl)'
                      /\ op'[d].pc = "backfill" =>
                            op'[d].val = last'[op'[d].key] /\ due'[op'[d].key] > 0
                      /\ op'[d].pc = "hit" => GoodCopy(op[d].key, op[d].val, 0)'
    BY DEF ReadGood, GoodCopy
  <2>1. CASE d = c
    BY <1>1, <1>2, <2>1
  <2>2. CASE op'[d].pc = "idle"
    BY <2>2
  <2>3. CASE d # c /\ op'[d].pc # "idle"
    <3>1. op'[d] = op[d] /\ op[d].key \in Keys \ {k} /\ op[d].key \notin excused
      BY <2>3, <1>2, <1>3 DEF CallShape
    <3> QED
      BY <3>1, <1>2 DEF ReadGood, GoodCopy
  <2> QED
    BY <2>1, <2>2, <2>3
<1> QED
  BY <1>5, <1>6, <1>7, <1>8, <1>9, <1>10, <1>11, <1>12

\* The four ways a write ends.
LEMMA WriteEndsIInv ==
    ASSUME IInv, NEW c \in Callers,
           SetL2(c) \/ SetL2Fails(c) \/ DeleteL2(c) \/ DeleteL2Fails(c)
    PROVE  IInv'
<1> USE NoneAssumption, CacheAssumption
<1> DEFINE k == op[c].key
<1>1. /\ op[c].pc \in Writing /\ k \in Keys /\ UNCHANGED l1 /\ Return(c)
      /\ DataOK /\ WriteShape /\ CallShape /\ WriteGood /\ L2Good
  BY DEF SetL2, SetL2Fails, DeleteL2, DeleteL2Fails, At, Writing, IInv, Shape, Good,
         CallShape, EndWrite
<1>2. /\ k \notin excused => op[c].clean
      /\ op[c].clean \in BOOLEAN /\ op[c].val \in Values \cup {None}
      /\ items[k] # None => elem[items[k]].ttl \in Int
  <2>1. MapShape
    BY DEF IInv, Shape
  <2>2. items[k] # None => elem[items[k]] \in Items
    BY <1>1, <2>1 DEF MapShape, ItemOf
  <2> QED
    BY <1>1, <2>2 DEF WriteShape, DataOK, Calls, Items
<1>3. CASE SetL2(c) \/ SetL2Fails(c)
  <2> DEFINE v == op[c].val
             t == op[c].ttl
             e == [val |-> v, ttl |-> t]
  <2>1. /\ op[c].pc = "setL2" /\ v \in Values /\ t \in 1..MaxTTL /\ e \in Entries
        /\ t \in -L1MaxTTL..MaxTTL
    BY <1>1, <1>3 DEF SetL2, SetL2Fails, At, CallShape, Entries
  <2>2. /\ last' = [last EXCEPT ![k] = v] /\ due' = [due EXCEPT ![k] = t]
        /\ l2' = l2 \/ l2' = [l2 EXCEPT ![k] = e]
        /\ excused' \in {excused, excused \ {k}, excused \cup {k}}
        /\ k \notin excused' => op[c].clean /\ l2' = [l2 EXCEPT ![k] = e]
    BY <1>2, <1>3 DEF SetL2, SetL2Fails, EndWrite
  <2>3. op[c].clean /\ items[k] # None =>
          /\ elem[items[k]].val = v
          /\ elem[items[k]].ttl >= 0 => t > elem[items[k]].ttl - L1MaxTTL
    <3>1. L1TTL(t) <= L1MaxTTL /\ L1TTL(t) \in Int
      BY <2>1 DEF L1TTL
    <3> QED
      BY <1>1, <1>2, <2>1, <3>1 DEF WriteGood
  <2>4. /\ last' \in [Keys -> Values \cup {None}] /\ last'[k] = v
        /\ due' \in [Keys -> -L1MaxTTL..MaxTTL] /\ due'[k] = t
        /\ l2' \in [Keys -> Entries \cup {None}] /\ excused' \subseteq Keys
        /\ k \notin excused' => l2'[k] = e
        /\ \A j \in Keys \ {k} :
             /\ l2'[j] = l2[j] /\ last'[j] = last[j] /\ due'[j] = due[j]
             /\ j \in excused' <=> j \in excused
    BY <1>1, <2>1, <2>2 DEF DataOK
  <2>5. k \notin excused' =>
          /\ op[c].clean
          /\ l2'[k] # None => l2'[k].val = last'[k] /\ l2'[k].ttl <= due'[k]
          /\ items[k] # None =>
                /\ elem[items[k]].val = last'[k]
                /\ elem[items[k]].ttl >= 0 => due'[k] > elem[items[k]].ttl - L1MaxTTL
    BY <2>1, <2>2, <2>3, <2>4
  <2> HIDE DEF v, t, e
  <2> QED
    BY <1>1, <2>4, <2>5, EndStep
<1>4. CASE DeleteL2(c) \/ DeleteL2Fails(c)
  <2>1. /\ op[c].pc = "deleteL2" /\ 0 \in -L1MaxTTL..MaxTTL
        /\ op[c].clean => items[k] = None
    BY <1>1, <1>4 DEF DeleteL2, DeleteL2Fails, At, WriteGood
  <2>2. \/ /\ last' = [last EXCEPT ![k] = None] /\ due' = [due EXCEPT ![k] = 0]
           /\ excused' \in {excused, excused \ {k}}
           /\ l2' = [l2 EXCEPT ![k] = None]
           /\ k \notin excused' => op[c].clean
        \/ /\ UNCHANGED history
           /\ l2' = l2 \/ l2' = [l2 EXCEPT ![k] = None]
           /\ k \notin excused' => op[c].clean
    BY <1>2, <1>4 DEF DeleteL2, DropL2, DeleteL2Fails, EndWrite, history
  <2>3. /\ last' \in [Keys -> Values \cup {None}]
        /\ due' \in [Keys -> -L1MaxTTL..MaxTTL]
        /\ l2' \in [Keys -> Entries \cup {None}] /\ excused' \subseteq Keys
        /\ \A j \in Keys \ {k} :
             /\ l2'[j] = l2[j] /\ last'[j] = last[j] /\ due'[j] = due[j]
             /\ j \in excused' <=> j \in excused
    BY <1>1, <2>1, <2>2 DEF DataOK, history
  <2>4. k \notin excused' =>
          /\ op[c].clean /\ items[k] = None
          /\ l2'[k] # None => l2'[k].val = last'[k] /\ l2'[k].ttl <= due'[k]
    BY <1>1, <2>1, <2>2 DEF DataOK, history, L2Good
  <2> QED
    BY <1>1, <2>3, <2>4, EndStep
<1> QED
  BY <1>3, <1>4

\* Invalidation and cleanup remove keys from L1 and touch no call.
LEMMA RemovalIInv ==
    ASSUME IInv, (\E k \in Keys : InvalidateL1(k)) \/ Cleanup
    PROVE  IInv'
<1> USE NoneAssumption, CacheAssumption DEF IInv, Shape, Good
<1>1. UNCHANGED <<l2, op, history>>
  BY DEF InvalidateL1, Cleanup
<1>2. L1Frame({})
  <2>1. CASE \E k \in Keys : InvalidateL1(k)
    BY <2>1, RemoveKeyFrame DEF InvalidateL1
  <2>2. CASE Cleanup
    <3> DEFINE dead == {s \in ToSet(lru) : elem[s].ttl < 0}
    <3>1. /\ items' = [k \in Keys |-> IF items[k] \in dead THEN None ELSE items[k]]
          /\ Collect(elem) /\ items \in [Keys -> Slots \cup {None}]
      BY <2>2 DEF Cleanup, DataOK
    <3> HIDE DEF dead
    <3>2. /\ items' \in [Keys -> Slots \cup {None}]
          /\ \A k \in Keys : items'[k] \in {items[k], None}
      BY <3>1
    <3> QED
      BY <3>1, <3>2, RemovalFrame
  <2> QED
    BY <2>1, <2>2
<1>3. /\ op' = op /\ l2' = l2 /\ last' = last /\ due' = due /\ excused' = excused
      /\ op \in [Callers -> Calls]
      /\ \A k \in Keys : Busy(k, Writing)' <=> Busy(k, Writing)
  BY <1>1 DEF history, Busy, DataOK
<1>4. DataOK'
  BY <1>2, <1>3 DEF DataOK, L1Frame
<1>5. MapShape' /\ CallShape' /\ WriteShape'
  <2>1. MapShape'
    BY <1>2 DEF MapShape, L1Frame, ItemOf
  <2>2. CallShape'
    BY <1>2, <1>3 DEF CallShape, L1Frame, ItemOf, Calls
  <2>3. WriteShape'
    BY <1>3 DEF WriteShape
  <2> QED
    BY <2>1, <2>2, <2>3
<1>6. L2Good' /\ L1Good'
  BY <1>2, <1>3 DEF L2Good, L1Good, L1Frame, GoodCopy
<1>7. WriteGood'
  BY <1>2, <1>3 DEF WriteGood, L1Frame, CallShape, L1TTL
<1>8. ReadGood'
  BY <1>2, <1>3 DEF ReadGood, GoodCopy, CallShape, ItemOf, L1Frame, Calls
<1> QED
  BY <1>4, <1>5, <1>6, <1>7, <1>8
\* Time passes: what is left of every copy shrinks with what is due, and calls that
\* have taken a copy are excused.
LEMMA TickIInv == ASSUME IInv, Tick PROVE IInv'
<1> USE NoneAssumption, CacheAssumption DEF IInv, Shape, Good
<1>1. /\ items' = items /\ last' = last
      /\ elem \in [Slots -> Items \cup {None}] /\ op \in [Callers -> Calls]
      /\ due \in [Keys -> -L1MaxTTL..MaxTTL]
      /\ excused' = excused \cup {k \in Keys : Busy(k, Delayed)}
  BY DEF Tick, DataOK
<1>2. /\ elem' \in [Slots -> Items \cup {None}]
      /\ \A s \in Slots : elem[s] # None =>
           /\ elem'[s] # None /\ elem'[s].key = elem[s].key
           /\ elem'[s].val = elem[s].val
           /\ elem'[s].ttl = IF elem[s].ttl > -1 THEN elem[s].ttl - 1 ELSE -1
  <2>1. ASSUME NEW s \in Slots, elem[s] # None
        PROVE  /\ elem'[s] = [elem[s] EXCEPT !.ttl = Less(elem[s].ttl, -1)]
               /\ elem'[s] \in Items /\ elem'[s].key = elem[s].key
               /\ elem'[s].val = elem[s].val
               /\ elem'[s].ttl = IF elem[s].ttl > -1 THEN elem[s].ttl - 1 ELSE -1
    <3>1. elem'[s] = [elem[s] EXCEPT !.ttl = Less(elem[s].ttl, -1)]
      BY <2>1 DEF Tick
    <3>2. elem[s] \in Items
      BY <1>1, <2>1
    <3>3. Less(elem[s].ttl, -1) \in -1..MaxTTL
      BY <3>2 DEF Items, Less
    <3> QED
      BY <3>1, <3>2, <3>3 DEF Items, Less
  <2>2. \A s \in Slots : elem[s] = None => elem'[s] = None
    BY DEF Tick
  <2>3. elem' = [s \in Slots |-> elem'[s]]
    BY DEF Tick
  <2>4. \A s \in Slots : elem'[s] \in Items \cup {None}
    BY <2>1, <2>2
  <2>5. elem' \in [Slots -> Items \cup {None}]
    BY <2>3, <2>4
  <2> QED
    BY <2>1, <2>5
<1>3. /\ due' \in [Keys -> -L1MaxTTL..MaxTTL]
      /\ \A k \in Keys : due'[k] = IF due[k] > -L1MaxTTL THEN due[k] - 1 ELSE -L1MaxTTL
  <2>1. due' = [k \in Keys |-> IF due[k] > -L1MaxTTL THEN due[k] - 1 ELSE -L1MaxTTL]
    BY DEF Tick, Less
  <2> QED
    BY <1>1, <2>1
<1>4. /\ l2' \in [Keys -> Entries \cup {None}]
      /\ \A k \in Keys : l2'[k] # None =>
           l2[k] # None /\ l2'[k].val = l2[k].val /\ l2'[k].ttl = l2[k].ttl - 1
  <2>1. l2' = [k \in Keys |-> IF l2[k] = None \/ l2[k].ttl = 1 THEN None
                              ELSE [l2[k] EXCEPT !.ttl = l2[k].ttl - 1]]
    BY DEF Tick
  <2>2. ASSUME NEW k \in Keys, l2[k] # None, l2[k].ttl # 1
        PROVE  /\ [l2[k] EXCEPT !.ttl = l2[k].ttl - 1] \in Entries
               /\ [l2[k] EXCEPT !.ttl = l2[k].ttl - 1].val = l2[k].val
               /\ [l2[k] EXCEPT !.ttl = l2[k].ttl - 1].ttl = l2[k].ttl - 1
    <3>1. l2[k] \in Entries
      BY <2>2 DEF DataOK
    <3> QED
      BY <3>1, <2>2 DEF Entries
  <2> QED
    BY <2>1, <2>2
<1>5. /\ op' \in [Callers -> Calls]
      /\ \A c \in Callers :
           /\ op'[c].pc = op[c].pc /\ op'[c].key = op[c].key
           /\ op'[c].val = op[c].val /\ op'[c].ttl = op[c].ttl
           /\ op'[c].elem = op[c].elem
           /\ op'[c].clean = FALSE
  <2>1. op' = [c \in Callers |-> [op[c] EXCEPT !.clean = FALSE]]
    BY DEF Tick
  <2>2. \A c \in Callers :
          /\ [op[c] EXCEPT !.clean = FALSE] \in Calls
          /\ [op[c] EXCEPT !.clean = FALSE].pc = op[c].pc
          /\ [op[c] EXCEPT !.clean = FALSE].key = op[c].key
          /\ [op[c] EXCEPT !.clean = FALSE].val = op[c].val
          /\ [op[c] EXCEPT !.clean = FALSE].ttl = op[c].ttl
          /\ [op[c] EXCEPT !.clean = FALSE].elem = op[c].elem
          /\ [op[c] EXCEPT !.clean = FALSE].clean = FALSE
    BY <1>1 DEF Calls
  <2> QED
    BY <2>1, <2>2
<1>6. \A c \in Callers : op[c].pc \in Delayed => op[c].key \in excused'
  BY <1>1 DEF Busy, CallShape, Delayed, Writing
<1>7. \A k \in Keys : Busy(k, Writing)' <=> Busy(k, Writing)
  BY <1>5 DEF Busy
<1>8. ASSUME NEW k \in Keys, NEW s \in Slots, elem[s] # None,
             GoodCopy(k, elem[s].val, elem[s].ttl)
      PROVE  GoodCopy(k, elem[s].val, elem[s].ttl)'
  <2>1. elem[s].ttl \in -1..MaxTTL
    BY <1>1, <1>8 DEF Items
  <2> QED
    BY <2>1, <1>1, <1>2, <1>3, <1>8 DEF GoodCopy
<1>9. DataOK'
  BY <1>1, <1>2, <1>3, <1>4, <1>5 DEF DataOK
<1>10. MapShape' /\ CallShape' /\ WriteShape'
  <2>1. \A s \in Slots, k \in Keys : ItemOf(s, k) => elem'[s] \in Items /\ elem'[s].key = k
    BY <1>2 DEF ItemOf
  <2>2. MapShape'
    BY <2>1, <1>1 DEF MapShape, ItemOf, DataOK
  <2>3. CallShape'
    BY <2>1, <1>5 DEF CallShape, ItemOf, Calls
  <2>4. WriteShape'
    BY <1>5, <1>6 DEF WriteShape, Delayed
  <2> QED
    BY <2>2, <2>3, <2>4
<1>11. L2Good'
  <2>1. \A k \in Keys : l2[k] # None => l2[k].ttl \in Int /\ l2[k].ttl >= 1
    BY DEF DataOK, Entries
  <2> QED
    BY <2>1, <1>1, <1>3, <1>4 DEF L2Good
<1>12. L1Good'
  <2> SUFFICES ASSUME NEW k \in Keys, k \notin excused', items[k] # None,
                      ~Busy(k, Writing)
               PROVE  GoodCopy(k, elem[items[k]].val, elem[items[k]].ttl)'
    BY <1>1, <1>7 DEF L1Good
  <2>1. items[k] \in Slots /\ elem[items[k]] # None /\ k \notin excused
    BY <1>1 DEF MapShape, ItemOf, DataOK
  <2>2. GoodCopy(k, elem[items[k]].val, elem[items[k]].ttl)
    BY <2>1 DEF L1Good
  <2> QED
    BY <1>1, <1>2, <1>8, <2>1, <2>2 DEF GoodCopy
<1>13. WriteGood'
  BY <1>5 DEF WriteGood, L1TTL
<1>14. ReadGood'
  <2>1. ASSUME NEW c \in Callers, op[c].key \notin excused', op[c].pc = "l1"
        PROVE  GoodCopy(op[c].key, elem[op[c].elem].val, elem[op[c].elem].ttl)'
    <3>1. /\ op[c].elem \in Slots /\ elem[op[c].elem] # None
          /\ op[c].key \in Keys /\ op[c].key \notin excused
      BY <1>1, <2>1 DEF CallShape, ItemOf, Calls
    <3>2. GoodCopy(op[c].key, elem[op[c].elem].val, elem[op[c].elem].ttl)
      BY <2>1, <3>1 DEF ReadGood
    <3> QED
      BY <1>1, <1>2, <1>5, <1>8, <3>1, <3>2 DEF GoodCopy
  <2>2. \A c \in Callers : op[c].key \notin excused' => op[c].pc \notin {"backfill", "hit"}
    BY <1>6 DEF Delayed
  <2> QED
    BY <1>5, <2>1, <2>2 DEF ReadGood, GoodCopy
<1> QED
  BY <1>9, <1>10, <1>11, <1>12, <1>13, <1>14

\* A new process has an empty L1 and no call, at the start and after a restart.
NewProcess ==
    /\ elem = [s \in Slots |-> None]
    /\ items = [k \in Keys |-> None]
    /\ op = [c \in Callers |-> Idle]
    /\ l2 \in [Keys -> Entries \cup {None}]
    /\ last \in [Keys -> Values \cup {None}]
    /\ due \in [Keys -> -L1MaxTTL..MaxTTL]
    /\ excused \subseteq Keys
    /\ L2Good

\* Whatever the history, it starts from what Redis holds.
LEMMA NewProcessIInv == NewProcess => IInv
<1> SUFFICES ASSUME NewProcess PROVE IInv
  OBVIOUS
<1> USE NoneAssumption, CacheAssumption DEF NewProcess
<1>1. /\ Idle \in Calls /\ Idle.pc = "idle" /\ Idle.key = None /\ Idle.elem = None
      /\ Idle.clean = FALSE
  BY DEF Idle, Read, Calls
<1>2. op \in [Callers -> Calls] /\ \A c \in Callers : op[c] = Idle
  BY <1>1
<1>3. DataOK /\ MapShape /\ L1Good
  BY <1>2 DEF DataOK, MapShape, L1Good
<1>4. CallShape /\ WriteShape /\ WriteGood /\ ReadGood
  BY <1>1, <1>2 DEF CallShape, WriteShape, WriteGood, ReadGood, Writing
<1> QED
  BY <1>3, <1>4 DEF IInv, Shape, Good

\* The first process satisfies the invariant.
LEMMA InitIInv == Init => IInv
<1> SUFFICES ASSUME Init PROVE IInv
  OBVIOUS
<1> USE NoneAssumption, CacheAssumption DEF Init
<1>1. \A k \in Keys : l2[k] # None => l2[k] \in Entries
  OBVIOUS
<1>2. /\ last \in [Keys -> Values \cup {None}]
      /\ due \in [Keys -> -L1MaxTTL..MaxTTL]
      /\ L2Good
  BY <1>1 DEF L2Good, Entries
<1> QED
  BY <1>2, NewProcessIInv DEF NewProcess

-------------------------------------------------------------------------------
\* The list of L1.  First what its operations do to a list without repetitions.

\* A list without one of its elements.
LEMMA RemoveFacts ==
    ASSUME NEW S, NEW q \in Seq(S), NEW s, IsInjective(q)
    PROVE  LET r == RemoveFirst(q, s)
           IN  /\ r \in Seq(S) /\ Len(r) <= Len(q)
               /\ ToSet(r) = ToSet(q) \ {s} /\ IsInjective(r)
               /\ s \in ToSet(q) => Len(r) = Len(q) - 1
<1> DEFINE r == RemoveFirst(q, s)
<1>1. PICK n \in Nat : n = Len(q) /\ q \in [1..n -> S]
  BY LenProperties
<1>2. CASE s \notin ToSet(q)
  <2>1. r = q
    BY <1>1, <1>2 DEF RemoveFirst, ToSet
  <2> QED
    BY <1>2, <2>1
<1>3. CASE s \in ToSet(q)
  <2>1. PICK i \in 1..n : q[i] = s
    BY <1>1, <1>3 DEF ToSet
  <2>2. SelectInSeq(q, LAMBDA v : v = s) = i
    <3>1. {j \in 1..n : q[j] = s} = {i}
      BY <1>1, <2>1 DEF IsInjective
    <3>2. Min({i}) = i
      BY DEF Min
    <3> QED
      BY <1>1, <3>1, <3>2 DEF SelectInSeq
  <2>3. r = RemoveAt(q, i)
    BY <1>1, <2>1, <2>2 DEF RemoveFirst
  <2> DEFINE a == SubSeq(q, 1, i - 1)
             b == SubSeq(q, i + 1, n)
  <2>4. /\ a \in Seq(S) /\ Len(a) = i - 1
        /\ \A j \in 1..i-1 : a[j] = q[j]
    BY <1>1, SubSeqProperties
  <2>5. /\ b \in Seq(S) /\ Len(b) = n - i
        /\ \A j \in 1..n-i : b[j] = q[i + j]
    <3>1. i + 1 \in Int /\ n \in Int /\ \A j \in i+1..n : q[j] \in S
      BY <1>1
    <3>2. /\ b \in Seq(S) /\ Len(b) = IF i + 1 <= n THEN n - (i + 1) + 1 ELSE 0
          /\ \A j \in 1..n-(i+1)+1 : b[j] = q[(i + 1) + j - 1]
      BY <3>1, SubSeqProperties
    <3>3. /\ (IF i + 1 <= n THEN n - (i + 1) + 1 ELSE 0) = n - i
          /\ n - (i + 1) + 1 = n - i
      OBVIOUS
    <3>4. \A j \in 1..n-i : (i + 1) + j - 1 = i + j
      OBVIOUS
    <3> HIDE DEF b
    <3> QED
      BY <3>2, <3>3, <3>4
  <2>6. r = a \o b
    BY <1>1, <2>3 DEF RemoveAt
  <2> HIDE DEF a, b, r
  <2>7. /\ r \in Seq(S) /\ Len(r) = n - 1
        /\ \A j \in 1..n-1 : r[j] = IF j < i THEN q[j] ELSE q[j + 1]
    <3>1. /\ r \in Seq(S) /\ Len(r) = (i - 1) + (n - i)
          /\ \A j \in 1..(i - 1) + (n - i) :
               r[j] = IF j <= i - 1 THEN a[j] ELSE b[j - (i - 1)]
      <4>1. /\ a \o b \in Seq(S) /\ Len(a \o b) = Len(a) + Len(b)
            /\ \A j \in 1..Len(a) + Len(b) :
                 (a \o b)[j] = IF j <= Len(a) THEN a[j] ELSE b[j - Len(a)]
        BY <2>4, <2>5, ConcatProperties
      <4> QED
        BY <2>4, <2>5, <2>6, <4>1
    <3>2. (i - 1) + (n - i) = n - 1
      BY <1>1
    <3>3. ASSUME NEW j \in 1..n-1 PROVE r[j] = IF j < i THEN q[j] ELSE q[j + 1]
      <4>1. CASE j < i
        BY <2>4, <3>1, <3>2, <4>1
      <4>2. CASE ~(j < i)
        <5>1. j - (i - 1) \in 1..n-i /\ i + (j - (i - 1)) = j + 1 /\ ~(j <= i - 1)
          BY <4>2
        <5> QED
          BY <2>5, <3>1, <3>2, <4>2, <5>1
      <4> QED
        BY <4>1, <4>2
    <3> QED
      BY <3>1, <3>2, <3>3
  <2>8. r \in [1..n-1 -> S]
    BY <1>1, <2>7, LenProperties
  <2>9. IsInjective(r)
    BY <1>1, <2>7, <2>8 DEF IsInjective
  <2>10. ToSet(r) = ToSet(q) \ {s}
    <3>1. ToSet(r) = {r[j] : j \in 1..n-1} /\ ToSet(q) = {q[j] : j \in 1..n}
      BY <1>1, <2>8 DEF ToSet
    <3>2. ASSUME NEW x \in ToSet(r) PROVE x \in ToSet(q) \ {s}
      BY <1>1, <2>1, <2>7, <3>1, <3>2 DEF IsInjective
    <3>3. ASSUME NEW x \in ToSet(q), x # s PROVE x \in ToSet(r)
      <4>1. PICK j \in 1..n : x = q[j] /\ j # i
        BY <2>1, <3>1, <3>3
      <4>2. CASE j < i
        BY <4>1, <4>2, <2>7, <3>1
      <4>3. CASE j > i
        <5>1. j - 1 \in 1..n-1 /\ ~(j - 1 < i) /\ (j - 1) + 1 = j
          BY <4>1, <4>3
        <5> QED
          BY <4>1, <5>1, <2>7, <3>1
      <4> QED
        BY <4>1, <4>2, <4>3
    <3> QED
      BY <3>2, <3>3
  <2> QED
    BY <1>1, <2>7, <2>9, <2>10 DEF r
<1> QED
  BY <1>2, <1>3

\* A list with a new element in front.
LEMMA ConsFacts ==
    ASSUME NEW S, NEW q \in Seq(S), NEW s \in S, s \notin ToSet(q), IsInjective(q)
    PROVE  LET r == <<s>> \o q
           IN  /\ r \in Seq(S) /\ Len(r) = Len(q) + 1
               /\ ToSet(r) = ToSet(q) \cup {s} /\ IsInjective(r)
               /\ q # << >> => Last(r) \in ToSet(q)
<1> DEFINE r == <<s>> \o q
<1>1. PICK n \in Nat : n = Len(q) /\ q \in [1..n -> S]
  BY LenProperties
<1>2. <<s>> \in Seq(S) /\ Len(<<s>>) = 1 /\ <<s>>[1] = s
  OBVIOUS
<1>3. /\ r \in Seq(S) /\ Len(r) = 1 + n
      /\ \A j \in 1..1 + n : r[j] = IF j <= 1 THEN <<s>>[j] ELSE q[j - 1]
  <2>1. /\ <<s>> \o q \in Seq(S) /\ Len(<<s>> \o q) = Len(<<s>>) + Len(q)
        /\ \A j \in 1..Len(<<s>>) + Len(q) :
             (<<s>> \o q)[j] = IF j <= Len(<<s>>) THEN <<s>>[j] ELSE q[j - Len(<<s>>)]
    BY <1>2, ConcatProperties
  <2> QED
    BY <1>1, <1>2, <2>1
<1> HIDE DEF r
<1>4. r \in [1..n+1 -> S] /\ r[1] = s /\ \A j \in 2..n+1 : r[j] = q[j - 1]
  BY <1>1, <1>2, <1>3, LenProperties
<1>5. ToSet(r) = ToSet(q) \cup {s}
  <2>1. ToSet(r) = {r[j] : j \in 1..n+1} /\ ToSet(q) = {q[j] : j \in 1..n}
    BY <1>1, <1>4 DEF ToSet
  <2>2. ASSUME NEW x \in ToSet(r) PROVE x \in ToSet(q) \cup {s}
    <3>1. PICK j \in 1..n+1 : x = r[j]
      BY <2>1, <2>2
    <3>2. CASE j # 1
      <4>1. j \in 2..n+1 /\ j - 1 \in 1..n
        BY <1>1, <3>2
      <4> QED
        BY <1>4, <2>1, <3>1, <4>1
    <3> QED
      BY <1>4, <3>1, <3>2
  <2>3. ASSUME NEW x \in ToSet(q) PROVE x \in ToSet(r)
    <3>1. PICK j \in 1..n : x = q[j]
      BY <2>1, <2>3
    <3>2. j + 1 \in 2..n+1 /\ j + 1 \in 1..n+1 /\ (j + 1) - 1 = j
      BY <1>1
    <3> QED
      BY <1>4, <2>1, <3>1, <3>2
  <2>4. s \in ToSet(r)
    BY <1>1, <1>4, <2>1
  <2> QED
    BY <2>2, <2>3, <2>4
<1>6. IsInjective(r)
  <2> SUFFICES ASSUME NEW i \in 1..n+1, NEW j \in 1..n+1, r[i] = r[j], i < j
               PROVE  FALSE
    BY <1>1, <1>4 DEF IsInjective
  <2>1. j \in 2..n+1 /\ j - 1 \in 1..n /\ r[j] = q[j - 1] /\ q[j - 1] \in ToSet(q)
    BY <1>1, <1>4 DEF ToSet
  <2>2. i # 1
    BY <1>4, <2>1
  <2>3. i \in 2..n+1 /\ i - 1 \in 1..n /\ r[i] = q[i - 1] /\ i - 1 # j - 1
    BY <1>1, <1>4, <2>2
  <2> QED
    BY <1>1, <2>1, <2>3 DEF IsInjective
<1>7. ASSUME q # << >> PROVE Last(r) \in ToSet(q)
  <2>1. n >= 1
    BY <1>1, <1>7, EmptySeq
  <2>2. Last(r) = r[n + 1] /\ n + 1 \in 2..n+1 /\ (n + 1) - 1 = n /\ n \in 1..n
    BY <1>1, <1>3, <2>1 DEF Last
  <2> QED
    BY <1>1, <1>4, <2>2 DEF ToSet
<1> QED
  BY <1>1, <1>3, <1>5, <1>6, <1>7 DEF r

\* A list without its last element.
LEMMA FrontFacts ==
    ASSUME NEW S, NEW q \in Seq(S), Len(q) > 0, IsInjective(q)
    PROVE  /\ Front(q) \in Seq(S) /\ Len(Front(q)) = Len(q) - 1
           /\ ToSet(Front(q)) = ToSet(q) \ {Last(q)} /\ IsInjective(Front(q))
           /\ Last(q) \in ToSet(q)
<1> DEFINE r == Front(q)
<1>1. PICK n \in Nat : n = Len(q) /\ q \in [1..n -> S] /\ n > 0
  BY LenProperties
<1>0. n > 0
  BY <1>1
<1>2. /\ r \in Seq(S) /\ Len(r) = n - 1
      /\ \A j \in 1..n-1 : r[j] = q[j]
  <2>1. /\ 1 \in Int /\ n - 1 \in Int /\ \A j \in 1..n-1 : q[j] \in S
    BY <1>1
  <2>2. /\ SubSeq(q, 1, n - 1) \in Seq(S)
        /\ Len(SubSeq(q, 1, n - 1)) = IF 1 <= n - 1 THEN (n - 1) - 1 + 1 ELSE 0
        /\ \A j \in 1..(n - 1) - 1 + 1 : SubSeq(q, 1, n - 1)[j] = q[1 + j - 1]
    BY <2>1, SubSeqProperties
  <2>3. r = SubSeq(q, 1, n - 1)
    BY <1>1 DEF Front
  <2> HIDE DEF r
  <2>4. /\ (IF 1 <= n - 1 THEN (n - 1) - 1 + 1 ELSE 0) = n - 1
        /\ (n - 1) - 1 + 1 = n - 1 /\ \A j \in 1..n-1 : 1 + j - 1 = j
    BY <1>1
  <2> QED
    BY <2>2, <2>3, <2>4
<1> HIDE DEF r
<1>3. r \in [1..n-1 -> S] /\ Last(q) = q[n]
  BY <1>1, <1>2, LenProperties DEF Last
<1>4. IsInjective(r)
  BY <1>1, <1>2, <1>3 DEF IsInjective
<1>5. ToSet(r) = {r[j] : j \in 1..n-1} /\ ToSet(q) = {q[j] : j \in 1..n}
  BY <1>1, <1>3 DEF ToSet
<1>6. ToSet(r) = ToSet(q) \ {q[n]}
  <2>1. ASSUME NEW x \in ToSet(r) PROVE x \in ToSet(q) /\ x # q[n]
    <3>1. PICK j \in 1..n-1 : x = r[j]
      BY <1>5, <2>1
    <3>2. j \in 1..n /\ j # n /\ n \in 1..n
      BY <1>0
    <3>3. x = q[j]
      BY <1>2, <3>1
    <3> QED
      BY <1>1, <1>5, <3>2, <3>3 DEF IsInjective
  <2>2. ASSUME NEW x \in ToSet(q), x # q[n] PROVE x \in ToSet(r)
    <3>1. PICK j \in 1..n : x = q[j] /\ j # n
      BY <1>5, <2>2
    <3>2. j \in 1..n-1
      BY <3>1
    <3> QED
      BY <1>2, <1>5, <3>1, <3>2
  <2> QED
    BY <2>1, <2>2
<1>7. q[n] \in ToSet(q)
  BY <1>1, <1>5
<1> QED
  BY <1>1, <1>2, <1>3, <1>4, <1>6, <1>7 DEF r

\* The type of the list, and its agreement with the map.
ListShape == lru \in Seq(Slots) /\ Len(lru) <= MaxSize /\ MapAndListAgree

\* MoveToFront only reorders the list.
LEMMA ToFrontFacts ==
    ASSUME ListShape, NEW s, ToFront(s)
    PROVE  /\ lru' \in Seq(Slots) /\ Len(lru') <= MaxSize
           /\ ToSet(lru') = ToSet(lru) /\ IsInjective(lru')
<1> USE DEF ListShape
<1>1. CASE Contains(lru, s)
  <2> DEFINE r == RemoveFirst(lru, s)
  <2>1. s \in ToSet(lru) /\ s \in Slots
    BY <1>1, LenProperties DEF Contains, ToSet
  <2>2. /\ r \in Seq(Slots) /\ ToSet(r) = ToSet(lru) \ {s} /\ IsInjective(r)
        /\ Len(r) = Len(lru) - 1
    BY <2>1, RemoveFacts DEF MapAndListAgree
  <2>3. lru' = <<s>> \o r
    BY <1>1 DEF ToFront
  <2> HIDE DEF r
  <2>4. /\ lru' \in Seq(Slots) /\ Len(lru') = Len(r) + 1
        /\ ToSet(lru') = ToSet(r) \cup {s} /\ IsInjective(lru')
    BY <2>1, <2>2, <2>3, ConsFacts
  <2>5. Len(lru) \in Nat
    BY LenProperties
  <2> QED
    BY <2>1, <2>2, <2>4, <2>5
<1>2. CASE ~Contains(lru, s)
  BY <1>2 DEF ToFront, MapAndListAgree
<1> QED
  BY <1>1, <1>2

\* The list of the next state agrees with the map when the elements D have left both,
\* and the others keep their keys.
LEMMA Trimmed ==
    ASSUME Shape, ListShape, NEW D,
           lru' \in Seq(Slots), Len(lru') <= MaxSize, IsInjective(lru'),
           ToSet(lru') = ToSet(lru) \ D,
           \A k \in Keys : items'[k] = IF items[k] \in D THEN None ELSE items[k],
           \A s \in ToSet(lru') : elem'[s] # None /\ elem'[s].key = elem[s].key
    PROVE  ListShape'
<1>1. \A l \in Seq(Slots), s \in Slots : Contains(l, s) <=> s \in ToSet(l)
  BY LenProperties DEF Contains, ToSet
<1>2. /\ items \in [Keys -> Slots \cup {None}] /\ lru \in Seq(Slots)
      /\ elem \in [Slots -> Items \cup {None}]
  BY DEF Shape, DataOK, ListShape
<1>3. ASSUME NEW k \in Keys, items'[k] # None
      PROVE  Contains(lru', items'[k]) /\ elem'[items'[k]].key = k
  <2>1. items'[k] = items[k] /\ items[k] \notin D /\ items[k] \in Slots
    BY <1>2, <1>3
  <2>2. items[k] \in ToSet(lru) /\ elem[items[k]].key = k
    BY <1>1, <1>2, <1>3, <2>1 DEF ListShape, MapAndListAgree
  <2>3. items[k] \in ToSet(lru')
    BY <2>1, <2>2
  <2> QED
    BY <1>1, <2>1, <2>2, <2>3
<1>4. ASSUME NEW s \in ToSet(lru') PROVE elem'[s] # None /\ items'[elem'[s].key] = s
  <2>1. s \in ToSet(lru) /\ s \notin D /\ elem'[s] # None /\ elem'[s].key = elem[s].key
    BY <1>4
  <2>2. elem[s] # None /\ items[elem[s].key] = s /\ s \in Slots
    BY <1>2, <2>1, LenProperties DEF ListShape, MapAndListAgree, ToSet
  <2>3. elem[s].key \in Keys
    BY <1>2, <2>2 DEF Items
  <2> QED
    BY <2>1, <2>2, <2>3
<1> QED
  BY <1>3, <1>4 DEF ListShape, MapAndListAgree

\* Neither is an element of the list garbage.
LEMMA CollectKeepsList ==
    ASSUME NEW e \in [Slots -> Items \cup {None}], Collect(e), lru' \in Seq(Slots)
    PROVE  \A s \in ToSet(lru') : elem'[s] = e[s]
<1> SUFFICES ASSUME NEW i \in DOMAIN lru' PROVE elem'[lru'[i]] = e[lru'[i]]
  BY DEF ToSet
<1>1. lru'[i] \in Slots
  BY LenProperties
<1> QED
  BY <1>1 DEF Collect

\* A Get of L1 moves its element, or leaves the list.
LEMMA ReorderedList ==
    ASSUME Shape, ListShape, UNCHANGED items, Collect(elem),
           (\E s : ToFront(s)) \/ UNCHANGED lru
    PROVE  ListShape'
<1>0. PICK D : D = {}
  OBVIOUS
<1>1. /\ lru' \in Seq(Slots) /\ Len(lru') <= MaxSize
      /\ ToSet(lru') = ToSet(lru) \ D /\ IsInjective(lru')
  BY <1>0, ToFrontFacts DEF ListShape, MapAndListAgree
<1>2. elem \in [Slots -> Items \cup {None}]
  BY DEF Shape, DataOK
<1>3. \A s \in ToSet(lru') : elem'[s] = elem[s] /\ elem[s] # None
  BY <1>1, <1>2, CollectKeepsList DEF ListShape, MapAndListAgree
<1>4. /\ \A k \in Keys : items'[k] = IF items[k] \in D THEN None ELSE items[k]
      /\ \A s \in ToSet(lru') : elem'[s] # None /\ elem'[s].key = elem[s].key
  BY <1>0, <1>3
<1> QED
  BY <1>1, <1>4, Trimmed

\* remove takes the element out of the map and out of the list.
LEMMA RemovedFromList ==
    ASSUME Shape, ListShape, NEW k \in Keys, RemoveKey(k), Collect(elem)
    PROVE  ListShape'
<1>1. /\ items \in [Keys -> Slots \cup {None}] /\ elem \in [Slots -> Items \cup {None}]
      /\ lru' = RemoveFirst(lru, items[k]) /\ items' = [items EXCEPT ![k] = None]
  BY DEF Shape, DataOK, RemoveKey
<1>2. /\ lru' \in Seq(Slots) /\ Len(lru') <= MaxSize
      /\ ToSet(lru') = ToSet(lru) \ {items[k]} /\ IsInjective(lru')
  <2>1. lru \in Seq(Slots) /\ Len(lru) <= MaxSize /\ Len(lru) \in Nat /\ IsInjective(lru)
    BY LenProperties DEF ListShape, MapAndListAgree
  <2>2. /\ lru' \in Seq(Slots) /\ Len(lru') <= Len(lru)
        /\ ToSet(lru') = ToSet(lru) \ {items[k]} /\ IsInjective(lru')
    BY <1>1, <2>1, RemoveFacts
  <2>3. Len(lru') \in Nat
    BY <2>2, LenProperties
  <2> QED
    BY <2>1, <2>2, <2>3, CacheAssumption
<1>3. \A s \in ToSet(lru') : elem'[s] = elem[s] /\ elem[s] # None
  BY <1>1, <1>2, CollectKeepsList DEF ListShape, MapAndListAgree
<1>4. \A j \in Keys : items'[j] = IF items[j] \in {items[k]} THEN None ELSE items[j]
  <2>1. \A j \in Keys : items[j] # None /\ items[j] = items[k] => j = k
    BY DEF ListShape, MapAndListAgree
  <2> QED
    BY <1>1, <2>1
<1> QED
  BY <1>2, <1>3, <1>4, Trimmed

\* cleanupExpired keeps the live elements of the list, each once.
LEMMA CleanedFacts ==
    ASSUME ListShape, Cleanup, NEW dead, dead = {s \in ToSet(lru) : elem[s].ttl < 0}
    PROVE  /\ lru' \in Seq(Slots) /\ Len(lru') <= MaxSize
           /\ ToSet(lru') = ToSet(lru) \ dead /\ IsInjective(lru')
<1> DEFINE live == {i \in DOMAIN lru : lru[i] \notin dead}
<1>1. PICK n \in Nat : n = Len(lru) /\ lru \in [1..n -> Slots]
  BY LenProperties DEF ListShape
<1>2. live \subseteq 1..n /\ \A i \in 1..n : i \in live <=> lru[i] \notin dead
  BY <1>1
<1>3. PICK at \in Bijection(1..Cardinality(live), live) :
        lru' = [i \in DOMAIN at |-> lru[at[i]]]
  BY DEF Cleanup
<1> HIDE DEF live
<1>4. PICK m \in Nat : m = Cardinality(live) /\ m <= n
  <2>1. IsFiniteSet(1..n) /\ Cardinality(1..n) = n
    <3>1. IsFiniteSet(1..n) /\ Cardinality(1..n) = IF 1 > n THEN 0 ELSE n - 1 + 1
      BY FS_Interval, 1 \in Int, n \in Int
    <3>2. (IF 1 > n THEN 0 ELSE n - 1 + 1) = n
      OBVIOUS
    <3> QED
      BY <3>1, <3>2
  <2>2. IsFiniteSet(live) /\ Cardinality(live) <= Cardinality(1..n)
    BY <1>2, <2>1, FS_Subset
  <2>3. Cardinality(live) \in Nat
    BY <2>2, FS_CardinalityType
  <2> QED
    BY <2>1, <2>2, <2>3
<1>5. /\ at \in [1..m -> live]
      /\ \A i, j \in 1..m : at[i] = at[j] => i = j
      /\ \A t \in live : \E i \in 1..m : at[i] = t
  BY <1>3, <1>4 DEF Bijection, Injection, Surjection, IsInjective
<1>6. /\ lru' \in [1..m -> Slots]
      /\ \A i \in 1..m : at[i] \in live /\ lru'[i] = lru[at[i]]
  BY <1>1, <1>2, <1>3, <1>5
<1>7. lru' \in Seq(Slots) /\ Len(lru') = m
  BY <1>6, LenProperties
<1>8. IsInjective(lru')
  <2> SUFFICES ASSUME NEW i \in 1..m, NEW j \in 1..m, lru'[i] = lru'[j] PROVE i = j
    BY <1>6 DEF IsInjective
  <2>1. lru[at[i]] = lru[at[j]] /\ at[i] \in 1..n /\ at[j] \in 1..n
    BY <1>2, <1>6
  <2>2. at[i] = at[j]
    BY <1>1, <2>1 DEF ListShape, MapAndListAgree, IsInjective
  <2> QED
    BY <1>5, <2>2
<1>9. ToSet(lru') = ToSet(lru) \ dead
  <2>1. ToSet(lru') = {lru'[i] : i \in 1..m} /\ ToSet(lru) = {lru[i] : i \in 1..n}
    BY <1>1, <1>6 DEF ToSet
  <2>2. ASSUME NEW x \in ToSet(lru') PROVE x \in ToSet(lru) \ dead
    <3>1. PICK i \in 1..m : x = lru'[i]
      BY <2>1, <2>2
    <3>2. at[i] \in 1..n /\ x = lru[at[i]] /\ lru[at[i]] \notin dead
      BY <1>2, <1>6, <3>1
    <3> QED
      BY <2>1, <3>2
  <2>3. ASSUME NEW x \in ToSet(lru), x \notin dead PROVE x \in ToSet(lru')
    <3>1. PICK t \in 1..n : x = lru[t] /\ t \in live
      BY <1>2, <2>1, <2>3
    <3>2. PICK i \in 1..m : at[i] = t
      BY <1>5, <3>1
    <3> QED
      BY <1>6, <2>1, <3>1, <3>2
  <2> QED
    BY <2>2, <2>3
<1> QED
  BY <1>1, <1>4, <1>7, <1>8, <1>9, CacheAssumption DEF ListShape

\* The dead elements leave the map and the list together.
LEMMA CleanedList == ASSUME Shape, ListShape, Cleanup PROVE ListShape'
<1>1. PICK dead : dead = {s \in ToSet(lru) : elem[s].ttl < 0}
  OBVIOUS
<1>2. /\ elem \in [Slots -> Items \cup {None}] /\ items \in [Keys -> Slots \cup {None}]
      /\ Collect(elem)
      /\ items' = [k \in Keys |-> IF items[k] \in dead THEN None ELSE items[k]]
  BY <1>1 DEF Shape, DataOK, Cleanup
<1>3. /\ lru' \in Seq(Slots) /\ Len(lru') <= MaxSize
      /\ ToSet(lru') = ToSet(lru) \ dead /\ IsInjective(lru')
  BY <1>1, CleanedFacts
<1>4. \A s \in ToSet(lru') : elem'[s] = elem[s] /\ elem[s] # None
  BY <1>2, <1>3, CollectKeepsList DEF ListShape, MapAndListAgree
<1> QED
  BY <1>2, <1>3, <1>4, Trimmed

\* MemoryCache.Set of a key of the map moves its element; a new one is put in front,
\* and the last one evicted when there are too many.
LEMMA PutInList ==
    ASSUME Shape, ListShape, NEW k \in Keys, NEW v \in Values, NEW t \in -1..MaxTTL,
           PutL1(k, v, t)
    PROVE  ListShape'
<1> DEFINE new == [key |-> k, val |-> v, ttl |-> t]
<1>1. /\ elem \in [Slots -> Items \cup {None}] /\ items \in [Keys -> Slots \cup {None}]
      /\ new \in Items /\ new # None /\ new.key = k
  BY NoneAssumption DEF Shape, DataOK, Items
<1>2. CASE items[k] # None
  <2> DEFINE e == [elem EXCEPT ![items[k]] = Updated(elem[items[k]], v, t)]
  <2>0. PICK D : D = {}
    OBVIOUS
  <2>1. items[k] \in Slots /\ elem[items[k]] \in Items /\ elem[items[k]].key = k
    BY <1>1, <1>2 DEF Shape, MapShape, ItemOf
  <2>2. Updated(elem[items[k]], v, t) = new
    BY <2>1 DEF Updated
  <2>3. /\ e \in [Slots -> Items \cup {None}] /\ e[items[k]] = new
        /\ \A s \in Slots : s # items[k] => e[s] = elem[s]
    BY <1>1, <2>1, <2>2
  <2>4. Collect(e) /\ items' = items /\ ToFront(items[k])
    BY <1>2 DEF PutL1
  <2> HIDE DEF e
  <2>5. /\ lru' \in Seq(Slots) /\ Len(lru') <= MaxSize
        /\ ToSet(lru') = ToSet(lru) \ D /\ IsInjective(lru')
    BY <2>0, <2>4, ToFrontFacts
  <2>6. \A s \in ToSet(lru') : s \in Slots /\ elem'[s] = e[s] /\ elem[s] # None
    <3>1. \A s \in ToSet(lru') : s \in Slots
      BY <2>5, LenProperties DEF ToSet
    <3>2. \A s \in ToSet(lru') : elem'[s] = e[s]
      BY <2>3, <2>4, <2>5, CollectKeepsList
    <3> QED
      BY <2>0, <2>5, <3>1, <3>2 DEF ListShape, MapAndListAgree
  <2>7. \A s \in ToSet(lru') : elem'[s] # None /\ elem'[s].key = elem[s].key
    BY <1>1, <2>1, <2>3, <2>6
  <2>8. \A j \in Keys : items'[j] = IF items[j] \in D THEN None ELSE items[j]
    BY <2>0, <2>4
  <2> QED
    BY <2>5, <2>7, <2>8, Trimmed
<1>3. CASE items[k] = None
  <2> DEFINE grown(s) == <<s>> \o lru
             e(s)     == [elem EXCEPT ![s] = new]
             old(s)   == e(s)[Last(grown(s))].key
             added(s) == [items EXCEPT ![k] = s]
  <2>1. PICK s \in Free :
          /\ lru' = IF Overfull(grown(s)) THEN Front(grown(s)) ELSE grown(s)
          /\ items' = IF Overfull(grown(s)) THEN [added(s) EXCEPT ![old(s)] = None]
                      ELSE added(s)
          /\ Collect(e(s))
    BY <1>3 DEF PutL1
  <2> DEFINE g == grown(s)
             E == e(s)
             a == added(s)
             o == old(s)
  <2>2. s \in Slots /\ elem[s] = None
    BY DEF Free
  <2>3. /\ E \in [Slots -> Items \cup {None}] /\ E[s] = new
        /\ \A r \in Slots : r # s => E[r] = elem[r]
    BY <1>1, <2>2
  <2>4. /\ lru \in Seq(Slots) /\ Len(lru) <= MaxSize /\ Len(lru) \in Nat
        /\ IsInjective(lru) /\ s \notin ToSet(lru) /\ ToSet(lru) \subseteq Slots
    BY <2>2, LenProperties DEF ListShape, MapAndListAgree, ToSet
  <2>5. /\ g \in Seq(Slots) /\ Len(g) = Len(lru) + 1 /\ IsInjective(g)
        /\ ToSet(g) = ToSet(lru) \cup {s} /\ (lru # << >> => Last(g) \in ToSet(lru))
    BY <2>2, <2>4, ConsFacts
  <2>6. a \in [Keys -> Slots \cup {None}] /\ a[k] = s /\ \A j \in Keys \ {k} : a[j] = items[j]
    BY <1>1, <2>2
  \* The map and the list with the new element.
  <2>7. \A j \in Keys : a[j] # None => a[j] \in ToSet(g) /\ E[a[j]].key = j
    <3>1. \A j \in Keys : items[j] # None =>
             items[j] \in ToSet(lru) /\ elem[items[j]].key = j
      BY <2>4, LenProperties DEF ListShape, MapAndListAgree, Contains, ToSet
    <3> HIDE DEF g, E, a
    <3> QED
      BY <1>1, <2>2, <2>3, <2>4, <2>5, <2>6, <3>1
  <2>8. \A r \in ToSet(g) : E[r] # None /\ E[r].key \in Keys /\ a[E[r].key] = r
    <3>1. \A r \in ToSet(lru) : elem[r] # None /\ items[elem[r].key] = r
      BY DEF ListShape, MapAndListAgree
    <3>2. \A r \in ToSet(lru) : r \in Slots /\ elem[r].key \in Keys /\ elem[r].key # k
      BY <1>1, <1>3, <2>4, <3>1, NoneAssumption DEF Items
    <3> HIDE DEF g, E, a
    <3> QED
      BY <1>1, <2>2, <2>3, <2>4, <2>5, <2>6, <3>1, <3>2
  <2>9. \A x \in Slots : elem'[x] = E[x] \/ x \notin ToSet(lru') \/ lru' \notin Seq(Slots)
    BY <2>1, <2>3, CollectKeepsList
  <2>10. \A l \in Seq(Slots), x \in Slots : Contains(l, x) <=> x \in ToSet(l)
    BY LenProperties DEF Contains, ToSet
  <2>11. CASE ~Overfull(g)
    <3>1. lru' = g /\ items' = a /\ Len(g) <= MaxSize
      BY <2>1, <2>4, <2>5, <2>11, CacheAssumption DEF Overfull
    <3> HIDE DEF g, E, a
    <3> QED
      BY <2>2, <2>3, <2>4, <2>5, <2>6, <2>7, <2>8, <2>9, <2>10, <3>1
         DEF ListShape, MapAndListAgree
  <2>12. CASE Overfull(g)
    <3>1. lru' = Front(g) /\ items' = [a EXCEPT ![o] = None] /\ o = E[Last(g)].key
      BY <2>1, <2>12
    <3>2. lru # << >> /\ Len(lru') <= MaxSize /\ Len(g) > 0
      <4>1. Len(g) = MaxSize + 1 /\ Len(lru) > 0
        BY <2>4, <2>5, <2>12, CacheAssumption DEF Overfull
      <4>2. Len(Front(g)) = Len(g) - 1
        <5>1. Len(g) > 0 /\ g \in Seq(Slots) /\ IsInjective(g)
          BY <2>5, <4>1, CacheAssumption
        <5> HIDE DEF g
        <5> QED
          BY <5>1, FrontFacts
      <4> QED
        BY <3>1, <4>1, <4>2, CacheAssumption, EmptySeq
    <3>3. /\ lru' \in Seq(Slots) /\ IsInjective(lru') /\ Last(g) \in ToSet(g)
          /\ ToSet(lru') = ToSet(g) \ {Last(g)}
      BY <2>5, <3>1, <3>2, FrontFacts
    <3>4. o \in Keys /\ a[o] = Last(g)
      BY <2>8, <3>1, <3>3
    <3> HIDE DEF g, E, a, o
    <3>5. /\ items' \in [Keys -> Slots \cup {None}]
          /\ \A j \in Keys : items'[j] = IF j = o THEN None ELSE a[j]
      BY <2>6, <3>1, <3>4
    <3>6. \A r \in ToSet(lru') : r \in Slots /\ r \in ToSet(g) /\ elem'[r] = E[r]
      BY <2>2, <2>4, <2>5, <2>9, <3>3
    <3>7. ASSUME NEW j \in Keys, items'[j] # None
          PROVE  Contains(lru', items'[j]) /\ elem'[items'[j]].key = j
      <4>1. j # o /\ items'[j] = a[j] /\ a[j] \in ToSet(g) /\ E[a[j]].key = j
        BY <2>7, <3>5, <3>7
      <4>2. a[j] # Last(g)
        BY <3>1, <4>1
      <4>3. a[j] \in ToSet(lru')
        BY <3>3, <4>1, <4>2
      <4> QED
        BY <2>10, <3>3, <3>6, <4>1, <4>3
    <3>8. ASSUME NEW r \in ToSet(lru') PROVE elem'[r] # None /\ items'[elem'[r].key] = r
      <4>1. /\ r # Last(g) /\ r \in ToSet(g) /\ elem'[r] = E[r] /\ E[r] # None
            /\ E[r].key \in Keys /\ a[E[r].key] = r
        BY <2>8, <3>3, <3>6
      <4>2. E[r].key # o
        BY <3>4, <4>1
      <4> QED
        BY <3>5, <4>1, <4>2
    <3> QED
      BY <3>2, <3>3, <3>7, <3>8 DEF ListShape, MapAndListAgree
  <2> QED
    BY <2>11, <2>12
<1> QED
  BY <1>2, <1>3

-------------------------------------------------------------------------------
\* Every step of every call, the cleanup, the clock and a restart keep it.
LEMMA NextIInv == ASSUME IInv, [Next]_vars PROVE IInv'
<1>1. ASSUME NEW c \in Callers, Get(c) PROVE IInv'
  BY <1>1, GetStartIInv, GetMovesIInv, GetBackfillsIInv DEF Get
<1>2. ASSUME NEW c \in Callers, Set(c) PROVE IInv'
  BY <1>2, SetL1IInv, WriteEndsIInv DEF Set
<1>3. ASSUME NEW c \in Callers, Delete(c) PROVE IInv'
  BY <1>3, DeleteL1IInv, WriteEndsIInv DEF Delete
<1>4. CASE (\E k \in Keys : InvalidateL1(k)) \/ Cleanup
  BY <1>4, RemovalIInv
<1>5. CASE Tick
  BY <1>5, TickIInv
<1>6. CASE Restart
  <2>1. /\ elem' = [s \in Slots |-> None] /\ items' = [k \in Keys |-> None]
        /\ op' = [c \in Callers |-> Idle']
        /\ l2' = l2 /\ last' = last /\ due' = due /\ excused' = excused
    BY <1>6 DEF Restart, history, Idle, Read
  <2>2. L2Good' /\ l2' \in [Keys -> Entries \cup {None}]
        /\ last' \in [Keys -> Values \cup {None}]
        /\ due' \in [Keys -> -L1MaxTTL..MaxTTL] /\ excused' \subseteq Keys
    BY <2>1 DEF L2Good, IInv, Shape, Good, DataOK
  <2>3. NewProcess'
    BY <2>1, <2>2 DEF NewProcess
  <2> QED
    BY <2>3, NewProcessIInv, PTL
<1>7. CASE UNCHANGED vars
  <2>1. /\ elem' = elem /\ items' = items /\ op' = op
        /\ l2' = l2 /\ last' = last /\ due' = due /\ excused' = excused
    BY <1>7 DEF vars, l1, history
  <2> QED
    BY <2>1 DEF IInv, Shape, Good, DataOK, MapShape, CallShape, WriteShape, L2Good,
                L1Good, WriteGood, ReadGood, ItemOf, GoodCopy, Busy
<1> QED
  BY <1>1, <1>2, <1>3, <1>4, <1>5, <1>6, <1>7 DEF Next

\* A step that leaves L1 alone, or shortens its TTLs, leaves the list as it is.
LEMMA UntouchedList ==
    ASSUME Shape, ListShape, UNCHANGED <<items, lru>>,
           \A s \in Slots : elem[s] # None => elem'[s] # None /\ elem'[s].key = elem[s].key
    PROVE  ListShape'
<1>1. /\ items' = items /\ lru' = lru /\ lru \in Seq(Slots) /\ Len(lru) <= MaxSize
      /\ IsInjective(lru)
  BY DEF ListShape, MapAndListAgree
<1>2. \A s \in ToSet(lru) : s \in Slots /\ elem[s] # None
  BY LenProperties DEF ListShape, MapAndListAgree, ToSet
<1>3. PICK D : D = {}
  OBVIOUS
<1>4. /\ ToSet(lru') = ToSet(lru) \ D
      /\ \A k \in Keys : items'[k] = IF items[k] \in D THEN None ELSE items[k]
      /\ \A s \in ToSet(lru') : elem'[s] # None /\ elem'[s].key = elem[s].key
  BY <1>1, <1>2, <1>3
<1> QED
  BY <1>1, <1>4, Trimmed

\* A new process starts with an empty list.
LEMMA EmptyList ==
    ASSUME items = [k \in Keys |-> None], lru = << >>
    PROVE  ListShape
  BY EmptySeq, CacheAssumption DEF ListShape, MapAndListAgree, ToSet, IsInjective

\* Every step keeps the list well formed and in agreement with the map.
LEMMA NextListShape == ASSUME IInv, ListShape, [Next]_vars PROVE ListShape'
<1> USE DEF IInv
<1>1. Shape /\ CallShape
  BY DEF Shape
<1>2. ASSUME UNCHANGED l1 PROVE ListShape'
  BY <1>1, <1>2, UntouchedList DEF l1
<1>3. ASSUME NEW c \in Callers, Get(c) PROVE ListShape'
  <2>1. CASE GetL1Hit(c)
    BY <1>1, <2>1, ReorderedList DEF GetL1Hit
  <2>2. CASE GetL1Expired(c)
    BY <1>1, <2>2, ReorderedList DEF GetL1Expired
  <2>3. CASE GetRemovesExpired(c)
    BY <1>1, <2>3, RemovedFromList DEF GetRemovesExpired, At, CallShape
  <2>4. CASE GetBackfills(c)
    <3>1. /\ op[c].key \in Keys /\ op[c].val \in Values /\ BackfillTTL \in -1..MaxTTL
          /\ PutL1(op[c].key, op[c].val, BackfillTTL)
      BY <1>1, <2>4, CacheAssumption DEF GetBackfills, At, CallShape, BackfillTTL
    <3> QED
      BY <1>1, <3>1, PutInList
  <2>5. CASE (\E k \in Keys : GetStart(c, k)) \/ GetL2Hit(c) \/ GetL2Misses(c) \/ GetReturns(c)
    BY <1>2, <2>5 DEF GetStart, GetL2Hit, GetL2Misses, GetReturns
  <2> QED
    BY <1>3, <2>1, <2>2, <2>3, <2>4, <2>5 DEF Get
<1>4. ASSUME NEW c \in Callers, Set(c) PROVE ListShape'
  <2>1. ASSUME NEW k \in Keys, NEW v \in Values, NEW t \in 1..MaxTTL, SetL1(c, k, v, t)
        PROVE  ListShape'
    <3>1. L1TTL(t) \in -1..MaxTTL /\ PutL1(k, v, L1TTL(t))
      BY <2>1, CacheAssumption DEF SetL1, L1TTL
    <3> QED
      BY <1>1, <3>1, PutInList
  <2>2. CASE SetL2(c) \/ SetL2Fails(c)
    BY <1>2, <2>2 DEF SetL2, SetL2Fails
  <2> QED
    BY <1>4, <2>1, <2>2 DEF Set
<1>5. ASSUME NEW c \in Callers, Delete(c) PROVE ListShape'
  <2>1. ASSUME NEW k \in Keys, DeleteL1(c, k) PROVE ListShape'
    BY <1>1, <2>1, RemovedFromList DEF DeleteL1
  <2>2. CASE DeleteL2(c) \/ DeleteL2Fails(c)
    BY <1>2, <2>2 DEF DeleteL2, DeleteL2Fails
  <2> QED
    BY <1>5, <2>1, <2>2 DEF Delete
<1>6. ASSUME NEW k \in Keys, InvalidateL1(k) PROVE ListShape'
  BY <1>1, <1>6, RemovedFromList DEF InvalidateL1
<1>7. CASE Cleanup
  BY <1>1, <1>7, CleanedList
<1>8. CASE Tick
  <2>1. \A s \in Slots : elem[s] # None => elem'[s] # None /\ elem'[s].key = elem[s].key
    <3> SUFFICES ASSUME NEW s \in Slots, elem[s] # None
                 PROVE  elem'[s] # None /\ elem'[s].key = elem[s].key
      OBVIOUS
    <3>1. elem[s] \in Items /\ elem'[s] = [elem[s] EXCEPT !.ttl = Less(elem[s].ttl, -1)]
      BY <1>1, <1>8 DEF Tick, Shape, DataOK
    <3>2. Less(elem[s].ttl, -1) \in -1..MaxTTL
      BY <3>1, CacheAssumption DEF Items, Less
    <3>3. elem'[s] \in Items /\ elem'[s].key = elem[s].key
      BY <3>1, <3>2 DEF Items
    <3> QED
      BY <3>3, NoneAssumption
  <2> QED
    BY <1>1, <1>8, <2>1, UntouchedList DEF Tick
<1>9. CASE Restart
  <2>1. items' = [k \in Keys |-> None] /\ lru' = << >>
    BY <1>9 DEF Restart
  <2> QED
    BY <2>1, EmptySeq, CacheAssumption DEF ListShape, MapAndListAgree, ToSet, IsInjective
<1>10. CASE UNCHANGED vars
  BY <1>2, <1>10 DEF vars
<1> QED
  BY <1>3, <1>4, <1>5, <1>6, <1>7, <1>8, <1>9, <1>10 DEF Next

\* The invariant holds throughout.
THEOREM Invariance == Spec => []IInv
  BY InitIInv, NextIInv, PTL DEF Spec

\* So does the shape of the list.
THEOREM ListInvariance == Spec => []ListShape
<1>1. Init => ListShape
  BY EmptyList DEF Init
<1> QED
  BY <1>1, Invariance, NextListShape, PTL DEF Spec

\* Every variable keeps its type; L1 is never longer than its limit.
THEOREM TypeCorrect == Spec => []TypeOK
<1>1. IInv /\ ListShape => TypeOK
  BY DEF IInv, Shape, DataOK, ListShape, TypeOK, Calls
<1> QED
  BY <1>1, Invariance, ListInvariance, PTL

\* The map and the list of L1 hold the same elements, each once and under its own
\* key, for every number of callers that move and remove what they have read in an
\* earlier critical section.
THEOREM MapAndListAgreed == Spec => []MapAndListAgree
<1>1. ListShape => MapAndListAgree
  BY DEF ListShape
<1> QED
  BY <1>1, ListInvariance, PTL

\* A hit of a key that is not excused returns the value the key was last given, and
\* none after it has been deleted, for every number of keys, callers and elements.
THEOREM HitsAreLast == Spec => []HitIsLast
<1>1. IInv => HitIsLast
  BY DEF IInv, Good, ReadGood, GoodCopy, HitIsLast, At
<1> QED
  BY <1>1, Invariance, PTL

\* Such a hit returns the value for less than its TTL and l1MaxTTL together.
THEOREM HitsWithinTTLs == Spec => []HitWithinTTLs
<1>1. IInv => HitWithinTTLs
  <2> SUFFICES ASSUME IInv, NEW c \in Callers, At(c, "hit"), op[c].key \notin excused
               PROVE  due[op[c].key] > -L1MaxTTL
    BY DEF HitWithinTTLs
  <2>1. GoodCopy(op[c].key, op[c].val, 0)
    BY DEF IInv, Good, ReadGood, At
  <2> QED
    BY <2>1, CacheAssumption DEF GoodCopy
<1> QED
  BY <1>1, Invariance, PTL
===============================================================================
