----------------------------- MODULE LayeredCache -----------------------------
(***************************************************************************)
(* The two-layer cache in front of Binance and Uniswap                     *)
(* (internal/platform/cache/{memory,layered,redis}.go).  L1 is a map from  *)
(* keys to elements of an LRU list; an element is an object of its own, so *)
(* that a Get may still hold one that has been removed.  L2 is Redis.      *)
(*                                                                         *)
(* A call is a step per critical section of L1 and per request to L2.      *)
(* Time is what is left of each TTL; an L1 item is expired below zero      *)
(* (time.Now().After), Redis drops a key at zero.                          *)
(*                                                                         *)
(* HISTORY.  last and due are the value a key was last given, and what is  *)
(* left of its TTL.  The code promises nothing of a key whose Sets and     *)
(* Deletes overlap other calls, whose calls last longer than a tick of the *)
(* clock, or whose copy in L2 could not be written: excused holds these    *)
(* keys until one undisturbed, successful Set or Delete.                   *)
(***************************************************************************)
EXTENDS Integers, FiniteSets, SequencesExt

CONSTANTS Keys, Values, None,
          Callers,      \* goroutines that call the cache
          Slots,        \* bound: elements in use at a time
          MaxSize,      \* maxSize of L1
          L1MaxTTL,     \* l1MaxTTL
          MaxTTL        \* bound: the longest TTL given to Set

ASSUME CacheAssumption ==
    /\ MaxSize \in Nat \ {0} /\ L1MaxTTL \in Nat \ {0}
    /\ MaxTTL \in Nat /\ MaxTTL >= L1MaxTTL
    /\ IsFiniteSet(Slots)
    /\ Cardinality(Slots) >= MaxSize + Cardinality(Callers)

VARIABLES
    elem,       \* element -> its item, None when unused
    items,      \* key -> element or None
    lru,        \* elements, most recently used first
    l2,         \* key -> value and remaining TTL, or None
    op,         \* caller -> the call in progress
    last, due, excused          \* history

l1      == <<elem, items, lru>>
history == <<last, due, excused>>
vars    == <<l1, l2, op, history>>

Items   == [key : Keys, val : Values, ttl : -1..MaxTTL]
Entries == [val : Values, ttl : 1..MaxTTL]

ASSUME NoneAssumption == None \notin Keys \cup Values \cup Slots \cup Items \cup Entries


\* A Get of the key k that is at pc with the value v or the element e.
Read(pc, k, v, e) == [pc |-> pc, key |-> k, val |-> v, elem |-> e,
                      ttl |-> 0, clean |-> FALSE]
Idle == Read("idle", None, None, None)

Writing == {"setL2", "deleteL2"}
Delayed == Writing \cup {"backfill", "hit"}     \* after a copy has been taken
Busy(k, pcs)  == \E c \in Callers : op[c].key = k /\ op[c].pc \in pcs
InUse(k)      == \E c \in Callers : op[c].key = k
At(c, pc)     == op[c].pc = pc
Goto(c, pc, v) == op' = [op EXCEPT ![c] = Read(pc, op[c].key, v, None)]
Return(c)      == op' = [op EXCEPT ![c] = Idle]

\* The calls, once another one of the key k has begun.
Disturbed(k) == [c \in Callers |-> [op[c] EXCEPT !.clean = @ /\ op[c].key # k]]

\* A new process over what an earlier one has left in Redis.
Init ==
    /\ elem = [s \in Slots |-> None]
    /\ items = [k \in Keys |-> None]
    /\ lru = << >>
    /\ l2 \in [Keys -> Entries \cup {None}]
    /\ op = [c \in Callers |-> Idle]
    /\ last = [k \in Keys |-> IF l2[k] = None THEN None ELSE l2[k].val]
    /\ due = [k \in Keys |-> IF l2[k] = None THEN 0 ELSE l2[k].ttl]
    /\ excused = {}

-------------------------------------------------------------------------------
\* The critical sections of L1.

Free == {s \in Slots : elem[s] = None}

\* Elements no longer in the map and held by no call are garbage; e are the
\* items otherwise.
Collect(e) ==
    elem' = [s \in Slots |->
                IF \/ \E k \in Keys : items'[k] = s
                   \/ \E i \in DOMAIN lru' : lru'[i] = s
                   \/ \E c \in Callers : op'[c].elem = s
                THEN e[s] ELSE None]

\* Mutant: an element that is no longer in the list is put back.
ToFrontAlways(s) == lru' = <<s>> \o RemoveFirst(lru, s)

\* list.MoveToFront does nothing to an element that is no longer in the list.
ToFront(s) == lru' = IF Contains(lru, s) THEN <<s>> \o RemoveFirst(lru, s) ELSE lru

\* remove: by key, whatever element the key has by now.
RemoveKey(k) ==
    /\ lru' = RemoveFirst(lru, items[k])
    /\ items' = [items EXCEPT ![k] = None]

\* Mutant: the list may grow one longer than its limit.
OverfullLate(list) == Len(list) > MaxSize + 1

Overfull(list) == Len(list) > MaxSize

\* The item of an existing key is updated in place.
Updated(item, v, t) == [key |-> item.key, val |-> v, ttl |-> t]

\* MemoryCache.Set, with the eviction of the oldest element.  It is used after
\* op' is known.
PutL1(k, v, t) ==
    IF items[k] # None
    THEN /\ ToFront(items[k])
         /\ UNCHANGED items
         /\ Collect([elem EXCEPT ![items[k]] = Updated(elem[items[k]], v, t)])
    ELSE \E s \in Free :
           LET grown == <<s>> \o lru
               new   == [elem EXCEPT ![s] = [key |-> k, val |-> v, ttl |-> t]]
               full  == Overfull(grown)
               old   == new[Last(grown)].key
               added == [items EXCEPT ![k] = s]
           IN /\ lru'   = IF full THEN Front(grown) ELSE grown
              /\ items' = IF full THEN [added EXCEPT ![old] = None] ELSE added
              /\ Collect(new)

\* cleanupExpired, once a minute: the live elements stay in their order.
Cleanup ==
    LET dead == {s \in ToSet(lru) : elem[s].ttl < 0}
        live == {i \in DOMAIN lru : lru[i] \notin dead}
    IN /\ dead # {}
       /\ \E at \in Bijection(1..Cardinality(live), live) :
             /\ \A i, j \in DOMAIN at : i < j => at[i] < at[j]
             /\ lru' = [i \in DOMAIN at |-> lru[at[i]]]
       /\ items' = [k \in Keys |-> IF items[k] \in dead THEN None ELSE items[k]]
       /\ UNCHANGED <<l2, op, history>>
       /\ Collect(elem)

-------------------------------------------------------------------------------
\* LayeredCache.Get: L1, then L2, then the backfill of L1.

\* The element is looked up under the read lock ...
GetStart(c, k) ==
    /\ At(c, "idle")
    /\ op' = [Disturbed(k) EXCEPT ![c] =
                 Read(IF items[k] = None THEN "l2" ELSE "l1", k, None, items[k])]
    /\ excused' = IF Busy(k, Writing) THEN excused \cup {k} ELSE excused
    /\ UNCHANGED <<l1, l2, last, due>>

\* ... and read without a lock.  The value is read after another critical
\* section, which only moves the element.
GetL1Hit(c) ==
    /\ At(c, "l1")
    /\ elem[op[c].elem].ttl >= 0
    /\ Goto(c, "hit", elem[op[c].elem].val)
    /\ ToFront(op[c].elem)
    /\ UNCHANGED <<items, l2, history>>
    /\ Collect(elem)

GetL1Expired(c) ==
    /\ At(c, "l1")
    /\ elem[op[c].elem].ttl < 0
    /\ Goto(c, "expire", None)
    /\ UNCHANGED <<items, lru, l2, history>>
    /\ Collect(elem)

\* The expired item is removed by its key under the lock: by now the key may
\* have another element, or a new value in this one.
GetRemovesExpired(c) ==
    /\ At(c, "expire")
    /\ Goto(c, "l2", None)
    /\ RemoveKey(op[c].key)
    /\ UNCHANGED <<l2, history>>
    /\ Collect(elem)

\* The value decodes into the type it was stored as: those the program caches are
\* registered (pricing/adapters.go).
GetL2Hit(c) ==
    /\ At(c, "l2")
    /\ l2[op[c].key] # None
    /\ Goto(c, "backfill", l2[op[c].key].val)
    /\ UNCHANGED <<l1, l2, history>>

\* ErrNotFound, or any other error of L2 that is passed on.
GetL2Misses(c) ==
    /\ At(c, "l2")
    /\ Return(c)
    /\ UNCHANGED <<l1, l2, history>>

\* Mutant: the copy is kept as long as any value may be.
BackfillTTLUncapped == MaxTTL

\* The remaining TTL of L2 is not known; the copy gets the longest of L1.
BackfillTTL == L1MaxTTL

GetBackfills(c) ==
    /\ At(c, "backfill")
    /\ Goto(c, "hit", op[c].val)
    /\ PutL1(op[c].key, op[c].val, BackfillTTL)
    /\ UNCHANGED <<l2, history>>

\* The caller has its value.
GetReturns(c) ==
    /\ At(c, "hit")
    /\ Return(c)
    /\ UNCHANGED <<l1, l2, history>>

-------------------------------------------------------------------------------
\* LayeredCache.Set and Delete: L1, then L2.

\* A write begins; it is clean if no other call of its key is in progress.
BeginWrite(c, k, v, t, pc) ==
    /\ op' = [Disturbed(k) EXCEPT ![c] =
                 [pc |-> pc, key |-> k, val |-> v, elem |-> None, ttl |-> t,
                  clean |-> ~InUse(k)]]
    /\ excused' = IF InUse(k) THEN excused \cup {k} ELSE excused

\* It ends: the key has the value v for the time t.
EndWrite(c, v, t) ==
    LET k == op[c].key
    IN /\ Return(c)
       /\ last' = [last EXCEPT ![k] = v]
       /\ due'  = [due EXCEPT ![k] = t]
       /\ excused' = IF op[c].clean THEN excused \ {k} ELSE excused

L1TTL(t) == IF t > L1MaxTTL THEN L1MaxTTL ELSE t

SetL1(c, k, v, t) ==
    /\ At(c, "idle")
    /\ BeginWrite(c, k, v, t, "setL2")
    /\ PutL1(k, v, L1TTL(t))
    /\ UNCHANGED <<l2, last, due>>

SetL2(c) ==
    /\ At(c, "setL2")
    /\ l2' = [l2 EXCEPT ![op[c].key] = [val |-> op[c].val, ttl |-> op[c].ttl]]
    /\ EndWrite(c, op[c].val, op[c].ttl)
    /\ UNCHANGED l1

\* L2 fails, after it has written or without: Set reports success, as L1 has
\* the value.
SetL2Fails(c) ==
    /\ At(c, "setL2")
    /\ \/ l2' = [l2 EXCEPT ![op[c].key] = [val |-> op[c].val, ttl |-> op[c].ttl]]
       \/ UNCHANGED l2
    /\ Return(c)
    /\ last' = [last EXCEPT ![op[c].key] = op[c].val]
    /\ due'  = [due EXCEPT ![op[c].key] = op[c].ttl]
    /\ excused' = excused \cup {op[c].key}
    /\ UNCHANGED l1

DeleteL1(c, k) ==
    /\ At(c, "idle")
    /\ BeginWrite(c, k, None, 0, "deleteL2")
    /\ RemoveKey(k)
    /\ UNCHANGED <<l2, last, due>>
    /\ Collect(elem)

\* Mutant: Delete leaves the copy in L2, as InvalidateL1 does.
DropL2Never(k) == UNCHANGED l2

DropL2(k) == l2' = [l2 EXCEPT ![k] = None]

DeleteL2(c) ==
    /\ At(c, "deleteL2")
    /\ DropL2(op[c].key)
    /\ EndWrite(c, None, 0)
    /\ UNCHANGED l1

\* L2 fails, and so does Delete: the value may still be there, and is not
\* deleted as far as the caller knows.
DeleteL2Fails(c) ==
    /\ At(c, "deleteL2")
    /\ l2' \in {l2, [l2 EXCEPT ![op[c].key] = None]}
    /\ Return(c)
    /\ UNCHANGED <<l1, history>>

\* InvalidateL1 is one critical section of L1.
InvalidateL1(k) ==
    /\ items[k] # None
    /\ RemoveKey(k)
    /\ UNCHANGED <<l2, op, history>>
    /\ Collect(elem)

-------------------------------------------------------------------------------
\* The environment.

Less(n, floor) == IF n > floor THEN n - 1 ELSE floor

\* Time passes.  Calls that have taken a copy are late with it.
Tick ==
    /\ elem' = [s \in Slots |-> IF elem[s] = None THEN None
                                ELSE [elem[s] EXCEPT !.ttl = Less(@, -1)]]
    /\ l2' = [k \in Keys |-> IF l2[k] = None \/ l2[k].ttl = 1 THEN None
                             ELSE [l2[k] EXCEPT !.ttl = @ - 1]]
    /\ due' = [k \in Keys |-> Less(due[k], -L1MaxTTL)]
    /\ excused' = excused \cup {k \in Keys : Busy(k, Delayed)}
    /\ op' = [c \in Callers |-> [op[c] EXCEPT !.clean = FALSE]]
    /\ UNCHANGED <<items, lru, last>>

\* The process is restarted; Redis is not.
Restart ==
    /\ elem' = [s \in Slots |-> None]
    /\ items' = [k \in Keys |-> None]
    /\ lru' = << >>
    /\ op' = [c \in Callers |-> Idle]
    /\ UNCHANGED <<l2, last, due, excused>>

Get(c) ==
    \/ \E k \in Keys : GetStart(c, k)
    \/ GetL1Hit(c) \/ GetL1Expired(c) \/ GetRemovesExpired(c)
    \/ GetL2Hit(c) \/ GetL2Misses(c) \/ GetBackfills(c) \/ GetReturns(c)

Set(c) ==
    \/ \E k \in Keys, v \in Values, t \in 1..MaxTTL : SetL1(c, k, v, t)
    \/ SetL2(c) \/ SetL2Fails(c)

Delete(c) ==
    \/ \E k \in Keys : DeleteL1(c, k)
    \/ DeleteL2(c) \/ DeleteL2Fails(c)

Next ==
    \/ \E c \in Callers : Get(c) \/ Set(c) \/ Delete(c)
    \/ \E k \in Keys : InvalidateL1(k)
    \/ Cleanup \/ Tick \/ Restart

Spec == Init /\ [][Next]_vars

-------------------------------------------------------------------------------
TypeOK ==
    /\ elem \in [Slots -> Items \cup {None}]
    /\ items \in [Keys -> Slots \cup {None}]
    /\ lru \in Seq(Slots) /\ Len(lru) <= MaxSize
    /\ l2 \in [Keys -> Entries \cup {None}]
    /\ op \in [Callers ->
                [pc : {"idle", "l1", "expire", "l2", "backfill", "hit"} \cup Writing,
                 key : Keys \cup {None}, val : Values \cup {None}, ttl : 0..MaxTTL,
                 elem : Slots \cup {None}, clean : BOOLEAN]]
    /\ last \in [Keys -> Values \cup {None}]
    /\ due \in [Keys -> -L1MaxTTL..MaxTTL]
    /\ excused \subseteq Keys

\* The map and the list of L1 hold the same elements, each once and under its own
\* key, although Get moves an element it has looked up in an earlier critical
\* section and removes by a key it has read without the lock.
MapAndListAgree ==
    /\ \A k \in Keys : items[k] # None =>
         Contains(lru, items[k]) /\ elem[items[k]].key = k
    /\ \A s \in ToSet(lru) : elem[s] # None /\ items[elem[s].key] = s
    /\ IsInjective(lru)

\* A hit returns the value the key was last given, and none once the key has been
\* deleted: no older value comes back out of the other layer, after eviction,
\* expiry, invalidation, restart or overlapping backfills, unless the key is
\* excused.
HitIsLast ==
    \A c \in Callers : At(c, "hit") /\ op[c].key \notin excused =>
        op[c].val = last[op[c].key]

\* A value is returned for less than its TTL and the longest TTL of L1 together:
\* a backfilled copy outlives the original, but copies are not made of copies.
HitWithinTTLs ==
    \A c \in Callers : At(c, "hit") /\ op[c].key \notin excused =>
        due[op[c].key] > -L1MaxTTL
===============================================================================
