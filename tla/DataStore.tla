----------------------------- MODULE DataStore -----------------------------
(***************************************************************************)
(* The in-memory DataStorage of storage/memory/storage.go: a sync.Map from *)
(* a context name to a *sync.Map of entries.  Each sync.Map call is atomic;*)
(* a Put or Delete of several entries is a loop of such calls, so          *)
(* concurrent callers interleave between them.  Put finds the context's    *)
(* map with LoadOrStore(ctx, new(sync.Map)), so two Puts that race to      *)
(* create it end up using the same one.                                    *)
(*                                                                         *)
(* Keys are comparable strings here (asKey returns them unchanged); the    *)
(* fmt.Sprint fallback for non-comparable keys is not modelled.  Contains  *)
(* and Load only read; they are operators over the state.                 *)
(***************************************************************************)
EXTENDS Integers, Sequences, FiniteSets, Functions, TLC

CONSTANTS Ctxs, Keys, Values, Workers, MaxLen,
  Nil  \* the nil interface Load returns for a missing entry

VARIABLES
  ds,       \* the outer sync.Map: ctx -> id of its inner map
  inner,    \* id -> the inner sync.Map: key -> value
  worker,   \* callers: [pc, ctx, todo, m]
  written   \* the entries as the calls so far wrote them: ctx -> key -> value

vars == <<ds, inner, worker, written>>

EmptyMap == [x \in {} |-> 0]
Upsert(f, k, v) == (k :> v) @@ f
Without(f, k) == Restrict(f, DOMAIN f \ {k})
NewMapId == Cardinality(DOMAIN inner) + 1

Idle == [pc |-> "idle", ctx |-> CHOOSE c \in Ctxs: TRUE, todo |-> <<>>, m |-> 0]

\* Non-empty argument lists of up to MaxLen elements.
Lists(S) == UNION {[1 .. n -> S] : n \in 1 .. MaxLen}

Init ==
  /\ ds = EmptyMap
  /\ inner = EmptyMap
  /\ worker = [w \in Workers |-> Idle]
  /\ written = [c \in Ctxs |-> EmptyMap]

\* Put(ctx, values...) and Delete(ctx, keys...) with "len(...) > 0"; an
\* empty argument list returns at once.
CallPut(w) ==
  /\ worker[w].pc = "idle"
  /\ \E c \in Ctxs, es \in Lists(Keys \X Values):
       worker' = [worker EXCEPT ![w] = [pc |-> "loadorstore", ctx |-> c, todo |-> es, m |-> 0]]
  /\ UNCHANGED <<ds, inner, written>>

CallDelete(w) ==
  /\ worker[w].pc = "idle"
  /\ \E c \in Ctxs, ks \in Lists(Keys):
       worker' = [worker EXCEPT ![w] = [pc |-> "load", ctx |-> c, todo |-> ks, m |-> 0]]
  /\ UNCHANGED <<ds, inner, written>>

\* Mutant: "ds.Store(ctx, new(sync.Map))" replaces the context's map.
PutStoreNew(w) ==
  /\ worker[w].pc = "loadorstore"
  /\ ds' = Upsert(ds, worker[w].ctx, NewMapId)
  /\ inner' = Upsert(inner, NewMapId, EmptyMap)
  /\ worker' = [worker EXCEPT ![w].pc = "store", ![w].m = NewMapId]
  /\ UNCHANGED written

\* "c, _ := ds.LoadOrStore(ctx, new(sync.Map))".
PutLoadOrStore(w) ==
  LET c == worker[w].ctx IN
  /\ worker[w].pc = "loadorstore"
  /\ IF c \in DOMAIN ds
     THEN /\ worker' = [worker EXCEPT ![w].pc = "store", ![w].m = ds[c]]
          /\ UNCHANGED <<ds, inner>>
     ELSE /\ ds' = Upsert(ds, c, NewMapId)
          /\ inner' = Upsert(inner, NewMapId, EmptyMap)
          /\ worker' = [worker EXCEPT ![w].pc = "store", ![w].m = NewMapId]
  /\ UNCHANGED written

\* One iteration of "for _, p := range values { m.Store(asKey(p.Key), p.Value) }".
PutEntry(w) ==
  LET e == Head(worker[w].todo)
      m == worker[w].m
  IN /\ worker[w].pc = "store"
     /\ inner' = [inner EXCEPT ![m] = Upsert(@, e[1], e[2])]
     /\ written' = [written EXCEPT ![worker[w].ctx] = Upsert(@, e[1], e[2])]
     /\ worker' = [worker EXCEPT ![w] = IF Len(@.todo) = 1 THEN Idle
                                        ELSE [@ EXCEPT !.todo = Tail(@)]]
     /\ UNCHANGED ds

\* "if m, found := ds.Map.Load(ctx); found { ... }".
DeleteLoad(w) ==
  LET c == worker[w].ctx IN
  /\ worker[w].pc = "load"
  /\ worker' = [worker EXCEPT ![w] = IF c \in DOMAIN ds
                                     THEN [@ EXCEPT !.pc = "delete", !.m = ds[c]]
                                     ELSE Idle]
  /\ UNCHANGED <<ds, inner, written>>

\* One iteration of "for _, k := range keys { m.Delete(asKey(k)) }".
DeleteEntry(w) ==
  LET k == Head(worker[w].todo)
      m == worker[w].m
  IN /\ worker[w].pc = "delete"
     /\ inner' = [inner EXCEPT ![m] = Without(@, k)]
     /\ written' = [written EXCEPT ![worker[w].ctx] = Without(@, k)]
     /\ worker' = [worker EXCEPT ![w] = IF Len(@.todo) = 1 THEN Idle
                                        ELSE [@ EXCEPT !.todo = Tail(@)]]
     /\ UNCHANGED ds

Next ==
  \E w \in Workers:
    \/ CallPut(w) \/ CallDelete(w)
    \/ PutLoadOrStore(w) \/ PutEntry(w)
    \/ DeleteLoad(w) \/ DeleteEntry(w)

Spec == Init /\ [][Next]_vars

----------------------------------------------------------------------------
\* Contains: "if m, found := ds.Map.Load(ctx); found { _, exist = m.Load(key) }".
Contains(c, k) == c \in DOMAIN ds /\ k \in DOMAIN inner[ds[c]]

\* Load: the stored value, or nil when the context or the key is missing.
Load(c, k) == IF Contains(c, k) THEN inner[ds[c]][k] ELSE Nil

\* Contains(ctx, key) and Load(ctx, key) see what the Puts and Deletes wrote,
\* last writer winning: no entry stored by a Put is lost to another Put
\* that raced it to create the context's map, and a context Load finds is
\* the one every writer used.
StoreKeepsWrites ==
  \A c \in Ctxs, k \in Keys:
    /\ Contains(c, k) <=> k \in DOMAIN written[c]
    /\ Load(c, k) = IF k \in DOMAIN written[c] THEN written[c][k] ELSE Nil
=============================================================================
