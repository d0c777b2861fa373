------------------------ MODULE ServerInformerProofs ------------------------
(***************************************************************************)
(* Writing back whole objects as they were decoded changes no config: the  *)
(* copy an accepted update was made from is the decoded stored object,     *)
(* because a resourceVersion is never used twice.  And no change is lost   *)
(* between the API server and the worker: what was watched has reached     *)
(* every server that is not in the queue.                                  *)
(***************************************************************************)
EXTENDS ServerInformer, SequenceTheorems, TLAPS

Elements(q) == {q[i] : i \in 1..Len(q)}

(* resourceVersions in their order *)
Before(v, w) == v[1] < w[1] \/ (v[1] = w[1] /\ v[2] < w[2])

IsObject(o) ==
  /\ o = [rv |-> o.rv, value |-> o.value, finalizer |-> o.finalizer,
          deleting |-> o.deleting]
  /\ o.rv = <<o.rv[1], o.rv[2]>>
  /\ o.rv[1] \in 0..edits /\ o.rv[2] \in Nat

(* A copy of a stored object, or of an earlier one of its name *)
IsCopy(s, o) ==
  /\ IsObject(o)
  /\ server[s] # None => o.rv = server[s].rv \/ Before(o.rv, server[s].rv)

Functional ==
  /\ server = [s \in Servers |-> server[s]]
  /\ cache = [s \in Servers |-> cache[s]]
  /\ edits \in Nat
  /\ \E S : events \in Seq(S)

StoredOK == \A s \in Servers : server[s] # None => IsObject(server[s])

CacheOK ==
  \A s \in Servers : cache[s] # None =>
    /\ IsCopy(s, cache[s])
    /\ server[s] # None /\ cache[s].rv = server[s].rv
         => Readable(server[s]) /\ cache[s] = Decoded(server[s])

EventOK(s, o) ==
  /\ s \in Servers
  /\ o # None =>
       /\ IsCopy(s, o)
       /\ server[s] # None /\ o.rv = server[s].rv => o = server[s]

EventsOK == \A e \in Elements(events) : EventOK(e[1], e[2])

(* What makes ConfigSurvives hold: a copy with the version of the stored   *)
(* object is a copy of that object.                                        *)
VersionsTell == Functional /\ StoredOK /\ CacheOK /\ EventsOK

-----------------------------------------------------------------------------
LEMMA ElementsOfAppend ==
  ASSUME NEW S, NEW q \in Seq(S), NEW e
  PROVE  /\ \E T : Append(q, e) \in Seq(T)
         /\ Elements(Append(q, e)) \subseteq Elements(q) \cup {e}
<1> DEFINE T == S \cup {e}
<1>1. q \in Seq(T) /\ e \in T
  OBVIOUS
<1> HIDE DEF T
<1>2. /\ Append(q, e) \in Seq(T)
      /\ Len(Append(q, e)) = Len(q) + 1
      /\ \A i \in 1..Len(q) : Append(q, e)[i] = q[i]
      /\ Append(q, e)[Len(q) + 1] = e
  BY <1>1, AppendProperties
<1>3. Len(q) \in Nat
  BY <1>1, LenProperties
<1> QED BY <1>2, <1>3 DEF Elements

LEMMA ElementsOfTail ==
  ASSUME NEW S, NEW q \in Seq(S), q # <<>>
  PROVE  /\ Tail(q) \in Seq(S)
         /\ Elements(Tail(q)) \subseteq Elements(q)
         /\ Head(q) \in Elements(q)
<1>1. /\ Tail(q) \in Seq(S)
      /\ Len(Tail(q)) = Len(q) - 1
      /\ \A i \in 1..Len(Tail(q)) : Tail(q)[i] = q[i + 1]
  BY HeadTailProperties
<1>2. Len(q) \in Nat /\ Len(q) # 0
  BY LenProperties, EmptySeq
<1>3. Head(q) = q[1]
  OBVIOUS
<1> QED BY <1>1, <1>2, <1>3 DEF Elements

LEMMA DecodedObject ==
  ASSUME NEW o, IsObject(o), o # None
  PROVE  /\ IsObject(Decoded(o)) /\ Decoded(o).rv = o.rv
         /\ Decoded(o).value = UnmarshalJSON(o.value)
<1>1. Decoded(o) = [rv |-> o.rv, value |-> UnmarshalJSON(o.value),
                    finalizer |-> o.finalizer, deleting |-> o.deleting]
  BY DEF Decoded, IsObject
<1> QED BY <1>1 DEF IsObject

LEMMA VersionsUnchanged ==
  ASSUME VersionsTell, UNCHANGED <<server, cache, events, edits>>
  PROVE  VersionsTell'
<1>1. Functional'
  BY DEF VersionsTell, Functional
<1>2. \A o : IsObject(o)' <=> IsObject(o)
  BY DEF IsObject
<1>3. \A s, o : IsCopy(s, o)' <=> IsCopy(s, o)
  BY <1>2 DEF IsCopy
<1>4. StoredOK'
  BY <1>2 DEF VersionsTell, StoredOK
<1>5. CacheOK'
  BY <1>3 DEF VersionsTell, CacheOK, Readable, Decoded
<1>6. \A s, o : EventOK(s, o)' <=> EventOK(s, o)
  BY <1>3 DEF EventOK
<1>7. Elements(events)' = Elements(events)
  BY DEF Elements
<1>8. EventsOK'
  BY <1>6, <1>7 DEF VersionsTell, EventsOK
<1> QED BY <1>1, <1>4, <1>5, <1>8 DEF VersionsTell

(* What a user or the worker stores is newer than every copy there is. *)
LEMMA StoreStep ==
  ASSUME VersionsTell, NEW s \in Servers, NEW n, Store(s, n),
         edits' \in Nat, edits <= edits', cache' = cache,
         n # None => /\ IsObject(n)'
                     /\ \A o : IsCopy(s, o) => Before(o.rv, n.rv)
  PROVE  VersionsTell'
<1> USE DEF VersionsTell
<1>1. /\ server' = [server EXCEPT ![s] = n]
      /\ events' \in {events, Append(events, <<s, n>>)}
  BY DEF Store
<1>2. /\ server'[s] = n
      /\ \A t \in Servers : t # s => server'[t] = server[t]
      /\ server' = [t \in Servers |-> server'[t]]
  BY <1>1 DEF Functional
<1>3. ASSUME NEW o, IsObject(o)
      PROVE  IsObject(o)' /\ o.rv[1] \in Nat /\ o.rv[2] \in Nat
  BY <1>3 DEF IsObject, Functional
<1>4. ASSUME NEW t \in Servers, NEW o, IsCopy(t, o)
      PROVE  IsCopy(t, o)' /\ o.rv[1] \in Nat /\ o.rv[2] \in Nat
  <2>1. IsObject(o)' /\ o.rv[1] \in Nat /\ o.rv[2] \in Nat
    BY <1>3, <1>4 DEF IsCopy
  <2>2. server'[t] # None => o.rv = server'[t].rv \/ Before(o.rv, server'[t].rv)
    BY <1>2, <1>4 DEF IsCopy
  <2> QED BY <2>1, <2>2 DEF IsCopy
<1>5. ASSUME NEW o, IsCopy(s, o), n # None
      PROVE  o.rv # n.rv
  BY <1>4, <1>5 DEF Before
<1>6. StoredOK'
  <2> SUFFICES ASSUME NEW t \in Servers, server'[t] # None
               PROVE  IsObject(server[t])'
    BY DEF StoredOK
  <2>1. CASE t = s
    BY <1>2, <2>1
  <2>2. CASE t # s
    BY <1>2, <1>3, <2>2 DEF StoredOK
  <2> QED BY <2>1, <2>2
<1>7. CacheOK'
  <2> SUFFICES ASSUME NEW t \in Servers, cache[t] # None
               PROVE  /\ IsCopy(t, cache[t])'
                      /\ server'[t] # None /\ cache[t].rv = server'[t].rv
                           => /\ Readable(server'[t])
                              /\ cache[t] = Decoded(server'[t])
    BY DEF CacheOK
  <2>1. IsCopy(t, cache[t])
    BY DEF CacheOK
  <2>2. CASE t = s
    BY <1>2, <1>4, <1>5, <2>1, <2>2
  <2>3. CASE t # s
    BY <1>2, <1>4, <2>1, <2>3 DEF CacheOK
  <2> QED BY <2>2, <2>3
<1>8. ASSUME NEW t, NEW o, EventOK(t, o)
      PROVE  EventOK(t, o)'
  <2>1. CASE t = s
    BY <1>2, <1>4, <1>5, <1>8, <2>1 DEF EventOK
  <2>2. CASE t # s
    BY <1>2, <1>4, <1>8, <2>2 DEF EventOK
  <2> QED BY <2>1, <2>2
<1>9. EventOK(s, n)'
  BY <1>2 DEF EventOK, IsCopy
<1>10. PICK S : events \in Seq(S)
  BY DEF Functional
<1>11. /\ \E T : events' \in Seq(T)
       /\ Elements(events') \subseteq Elements(events) \cup {<<s, n>>}
  <2>1. CASE events' = events
    BY <1>10, <2>1
  <2>2. CASE events' = Append(events, <<s, n>>)
    BY <1>10, <2>2, ElementsOfAppend
  <2> QED BY <1>1, <2>1, <2>2
<1>12. EventsOK'
  BY <1>8, <1>9, <1>11 DEF EventsOK
<1>13. Functional'
  BY <1>2, <1>11 DEF Functional
<1> QED BY <1>6, <1>7, <1>12, <1>13

LEMMA UserStep ==
  ASSUME VersionsTell, UserNext
  PROVE  VersionsTell'
<1>1. /\ edits \in Nat /\ edits' = edits + 1 /\ cache' = cache
  BY DEF VersionsTell, Functional, UserNext, CreateServer, EditServer,
         DeleteServer, UserActs
<1>2. ASSUME NEW n, n = [rv |-> <<edits', 0>>, value |-> n.value,
                         finalizer |-> n.finalizer, deleting |-> n.deleting]
      PROVE  IsObject(n)' /\ \A s, o : IsCopy(s, o) => Before(o.rv, n.rv)
  <2>1. n.rv = <<edits', 0>> /\ n.rv[1] = edits' /\ n.rv[2] = 0
    BY <1>2
  <2>2. IsObject(n)'
    BY <1>1, <1>2, <2>1 DEF IsObject
  <2>3. ASSUME NEW s, NEW o, IsCopy(s, o)
        PROVE  Before(o.rv, n.rv)
    BY <1>1, <2>1, <2>3 DEF IsCopy, IsObject, Before
  <2> QED BY <2>2, <2>3
<1>3. \E s \in Servers : \E n :
        /\ Store(s, n)
        /\ n # None => n = [rv |-> <<edits', 0>>, value |-> n.value,
                            finalizer |-> n.finalizer, deleting |-> n.deleting]
  <2>1. PICK s \in Servers : CreateServer(s) \/ EditServer(s) \/ DeleteServer(s)
    BY DEF UserNext
  <2>2. CASE CreateServer(s)
    BY <2>2 DEF CreateServer
  <2>3. ASSUME server[s] # None, NEW o,
               \/ \E v : o = [server[s] EXCEPT !.value = v]
               \/ o = [server[s] EXCEPT !.deleting = TRUE]
        PROVE  LET n == [o EXCEPT !.rv = <<edits', 0>>]
               IN  n = [rv |-> <<edits', 0>>, value |-> n.value,
                        finalizer |-> n.finalizer, deleting |-> n.deleting]
    <3>1. IsObject(server[s])
      BY <2>3 DEF VersionsTell, StoredOK
    <3>2. o = [rv |-> o.rv, value |-> o.value, finalizer |-> o.finalizer,
               deleting |-> o.deleting]
      BY <2>3, <3>1 DEF IsObject
    <3> QED BY <3>2
  <2>4. CASE EditServer(s)
    <3>1. PICK v : /\ server[s] # None
                   /\ Store(s, [server[s] EXCEPT !.value = v, !.rv = <<edits', 0>>])
      BY <2>4 DEF EditServer
    <3> DEFINE o == [server[s] EXCEPT !.value = v]
    <3>2. Store(s, [o EXCEPT !.rv = <<edits', 0>>])
      BY <3>1
    <3>3. server[s] # None /\ \E w : o = [server[s] EXCEPT !.value = w]
      BY <3>1
    <3> HIDE DEF o
    <3> QED BY <2>3, <3>2, <3>3
  <2>5. CASE DeleteServer(s)
    <3>1. /\ server[s] # None
          /\ \/ Store(s, [server[s] EXCEPT !.deleting = TRUE, !.rv = <<edits', 0>>])
             \/ Store(s, None)
      BY <2>5 DEF DeleteServer
    <3> DEFINE o == [server[s] EXCEPT !.deleting = TRUE]
    <3>2. Store(s, [o EXCEPT !.rv = <<edits', 0>>]) \/ Store(s, None)
      BY <3>1
    <3>3. o = [server[s] EXCEPT !.deleting = TRUE]
      OBVIOUS
    <3> HIDE DEF o
    <3> QED BY <2>3, <3>1, <3>2, <3>3
  <2> QED BY <2>1, <2>2, <2>4, <2>5
<1> QED BY <1>1, <1>2, <1>3, StoreStep

-----------------------------------------------------------------------------
(* The reflector: what it delivers was stored *)

LEMMA ReflectorStep ==
  ASSUME VersionsTell, List \/ Deliver \/ WatchBreaks \/ Restart
  PROVE  VersionsTell'
<1> USE DEF VersionsTell
<1>1. UNCHANGED <<server, edits>>
  BY DEF List, Deliver, WatchBreaks, Restart
<1>2. \A o : IsObject(o) <=> IsObject(o)'
  BY <1>1 DEF IsObject
<1>3. \A s, o : IsCopy(s, o) <=> IsCopy(s, o)'
  BY <1>1, <1>2 DEF IsCopy
<1>4. \A s, o : EventOK(s, o) <=> EventOK(s, o)'
  BY <1>1, <1>3 DEF EventOK
<1>5. StoredOK'
  BY <1>1, <1>2 DEF StoredOK
<1>6. PICK S : events \in Seq(S)
  BY DEF Functional
<1>7. events' \in Seq(S) /\ Elements(events') \subseteq Elements(events)
  <2>1. <<>> \in Seq(S) /\ Elements(<<>>) = {}
    BY DEF Elements
  <2>2. events' = events \/ events' = <<>> \/ (events # <<>> /\ events' = Tail(events))
    BY DEF List, Deliver, WatchBreaks, Restart
  <2> QED BY <1>6, <2>1, <2>2, ElementsOfTail
<1>8. EventsOK'
  BY <1>4, <1>7 DEF EventsOK
<1>9. ASSUME NEW s \in Servers, NEW o, EventOK(s, o), o # None, Readable(o)
      PROVE  LET c == Decoded(o)
             IN  /\ IsCopy(s, c)
                 /\ server[s] # None /\ c.rv = server[s].rv
                      => Readable(server[s]) /\ c = Decoded(server[s])
  BY <1>9, DecodedObject DEF EventOK, IsCopy
<1>10. /\ cache' = [s \in Servers |-> cache'[s]]
       /\ \A s \in Servers : cache'[s] # None =>
            \/ cache'[s] = cache[s]
            \/ \E o : EventOK(s, o) /\ o # None /\ Readable(o) /\ cache'[s] = Decoded(o)
  <2>1. CASE List
    <3>1. \A s \in Servers : server[s] # None => EventOK(s, server[s])
      BY DEF EventOK, IsCopy, StoredOK
    <3>2. \A s \in Servers : cache'[s] = Decoded(server[s]) /\ Readable(server[s])
      BY <2>1 DEF List
    <3> QED BY <2>1, <3>1, <3>2 DEF List, Decoded
  <2>2. CASE Deliver
    <3> DEFINE s == Head(events)[1]
               o == Head(events)[2]
    <3>1. EventOK(s, o)
      BY <1>6, <2>2, ElementsOfTail DEF Deliver, EventsOK
    <3>2. \/ cache' = [cache EXCEPT ![s] = Decoded(o)] /\ Readable(o)
          \/ cache' = cache
      BY <2>2 DEF Deliver
    <3> HIDE DEF s, o
    <3>3. CASE cache' = [cache EXCEPT ![s] = Decoded(o)] /\ Readable(o)
      <4>1. /\ cache' = [t \in Servers |-> cache'[t]]
            /\ \A t \in Servers : cache'[t] = IF t = s THEN Decoded(o) ELSE cache[t]
        BY <3>3 DEF Functional
      <4>2. Decoded(o) # None => o # None
        BY DEF Decoded
      <4>3. ASSUME NEW t \in Servers, cache'[t] # None
            PROVE  \/ cache'[t] = cache[t]
                   \/ EventOK(t, o) /\ o # None /\ Readable(o) /\ cache'[t] = Decoded(o)
        BY <3>1, <3>3, <4>1, <4>2, <4>3
      <4> QED BY <4>1, <4>3
    <3>4. CASE cache' = cache
      BY <3>4 DEF Functional
    <3> QED BY <3>2, <3>3, <3>4
  <2>3. CASE WatchBreaks
    BY <2>3 DEF WatchBreaks, Functional
  <2>4. CASE Restart
    BY <2>4 DEF Restart
  <2> QED BY <2>1, <2>2, <2>3, <2>4
<1>11. CacheOK'
  <2> SUFFICES ASSUME NEW s \in Servers, cache'[s] # None
               PROVE  /\ IsCopy(s, cache'[s])
                      /\ server[s] # None /\ cache'[s].rv = server[s].rv
                           => /\ Readable(server[s])
                              /\ cache'[s] = Decoded(server[s])
    BY <1>1, <1>3 DEF CacheOK
  <2>1. CASE cache'[s] = cache[s]
    BY <2>1 DEF CacheOK
  <2>2. CASE \E o : EventOK(s, o) /\ o # None /\ Readable(o) /\ cache'[s] = Decoded(o)
    BY <1>9, <2>2
  <2> QED BY <1>10, <2>1, <2>2
<1>12. Functional'
  BY <1>1, <1>7, <1>10 DEF Functional
<1> QED BY <1>5, <1>8, <1>11, <1>12

-----------------------------------------------------------------------------
(* The worker *)

LEMMA Finalized ==
  ASSUME NEW c, NEW t, NEW v, NEW w,
         c = [rv |-> c.rv, value |-> c.value, finalizer |-> c.finalizer,
              deleting |-> c.deleting]
  PROVE  [c EXCEPT !.finalizer = t, !.value = v, !.rv = w] =
           [rv |-> w, value |-> v, finalizer |-> t, deleting |-> c.deleting]
<1> DEFINE a == [c EXCEPT !.finalizer = t]
           b == [a EXCEPT !.value = v]
<1>1. a = [rv |-> c.rv, value |-> c.value, finalizer |-> t, deleting |-> c.deleting]
  OBVIOUS
<1> HIDE DEF a
<1>2. b = [rv |-> c.rv, value |-> v, finalizer |-> t, deleting |-> c.deleting]
  BY <1>1
<1> HIDE DEF b
<1>3. [b EXCEPT !.rv = w] = [rv |-> w, value |-> v, finalizer |-> t,
                             deleting |-> c.deleting]
  BY <1>2
<1> QED BY <1>3 DEF a, b

(* A finalizer that is added leaves the meaning of the config as it was. *)
LEMMA AddFinalizerStep ==
  ASSUME VersionsTell, NEW s \in Servers, AddFinalizer(s)
  PROVE  /\ VersionsTell'
         /\ server'[s] # None => Meaning(server'[s].value) = Meaning(server[s].value)
<1> USE DEF VersionsTell
<1> DEFINE c == cache[s]
           n == [c EXCEPT !.finalizer = TRUE, !.value = Marshal(@),
                          !.rv = <<@[1], @[2] + 1>>]
<1>1. c # None /\ Update(s, n, TRUE) /\ UNCHANGED <<cache, edits>>
  BY DEF AddFinalizer, Taken
<1>2. IsObject(c)
  BY <1>1 DEF CacheOK, IsCopy
<1>3. n = [rv |-> <<c.rv[1], c.rv[2] + 1>>, value |-> Marshal(c.value),
           finalizer |-> TRUE, deleting |-> c.deleting]
  <2>1. c = [rv |-> c.rv, value |-> c.value, finalizer |-> c.finalizer,
             deleting |-> c.deleting]
    BY <1>2 DEF IsObject
  <2>2. n = [c EXCEPT !.finalizer = TRUE, !.value = Marshal(c.value),
                      !.rv = <<c.rv[1], c.rv[2] + 1>>]
    OBVIOUS
  <2> HIDE DEF n
  <2> QED BY <2>1, <2>2, Finalized
<1>4. PICK m : m = n
  OBVIOUS
<1>5. /\ m = [rv |-> <<c.rv[1], c.rv[2] + 1>>, value |-> Marshal(c.value),
              finalizer |-> TRUE, deleting |-> c.deleting]
      /\ Update(s, m, TRUE)
  BY <1>1, <1>3, <1>4
<1>6. CASE server[s] # None /\ server[s].rv = c.rv
  <2>1. Store(s, m)
    BY <1>6, <1>5 DEF Update
  <2>2. edits \in Nat /\ edits' = edits
    BY <1>1 DEF Functional
  <2>3. c.rv[1] \in 0..edits /\ c.rv[2] \in Nat
    BY <1>2 DEF IsObject
  <2>4. /\ m.rv = <<c.rv[1], c.rv[2] + 1>>
        /\ m.rv[1] = c.rv[1] /\ m.rv[2] = c.rv[2] + 1
    BY <1>5
  <2>5. IsObject(m)'
    <3>1. m = [rv |-> m.rv, value |-> m.value, finalizer |-> m.finalizer,
               deleting |-> m.deleting]
      BY <1>5
    <3>2. m.rv = <<m.rv[1], m.rv[2]>> /\ m.rv[1] \in 0..edits' /\ m.rv[2] \in Nat
      BY <2>2, <2>3, <2>4
    <3> QED BY <3>1, <3>2 DEF IsObject
  <2>6. ASSUME NEW o, IsCopy(s, o)
        PROVE  Before(o.rv, m.rv)
    <3>1. o.rv[1] \in 0..edits /\ o.rv[2] \in Nat
      BY <2>6 DEF IsCopy, IsObject
    <3>2. o.rv = c.rv \/ Before(o.rv, c.rv)
      BY <1>6, <2>6 DEF IsCopy
    <3>3. CASE o.rv = c.rv
      BY <2>3, <2>4, <3>3 DEF Before
    <3>4. CASE Before(o.rv, c.rv)
      BY <2>2, <2>3, <2>4, <3>1, <3>4 DEF Before
    <3> QED BY <3>2, <3>3, <3>4
  <2>7. edits' \in Nat /\ edits <= edits' /\ cache' = cache
    BY <1>1, <2>2
  <2>8. VersionsTell'
    <3> HIDE DEF VersionsTell
    <3> QED BY <2>1, <2>5, <2>6, <2>7, StoreStep
  <2>9. Readable(server[s]) /\ c = Decoded(server[s])
    BY <1>1, <1>6 DEF CacheOK
  <2>10. c.value = UnmarshalJSON(server[s].value)
    BY <1>6, <2>9, DecodedObject DEF StoredOK
  <2>11. server'[s] = m
    BY <2>1 DEF Store, Functional
  <2>12. Meaning(m.value) = c.value
    BY <1>5 DEF Meaning, Marshal, Decodable, UnmarshalJSON
  <2> QED BY <1>6, <2>8, <2>9, <2>10, <2>11, <2>12 DEF Meaning, Readable
<1>7. CASE ~(server[s] # None /\ server[s].rv = c.rv)
  <2>1. UNCHANGED <<server, cache, events, edits>>
    BY <1>1, <1>7 DEF Update
  <2>2. VersionsTell'
    <3> HIDE DEF VersionsTell
    <3> QED BY <2>1, VersionsUnchanged
  <2> QED BY <2>1, <2>2
<1> QED BY <1>6, <1>7

LEMMA ReconcileStep ==
  ASSUME VersionsTell, NEW s \in Servers, Reconcile(s)
  PROVE  /\ VersionsTell'
         /\ server[s] # None /\ server'[s] # None
              => Meaning(server'[s].value) = Meaning(server[s].value)
<1>1. CASE AddFinalizer(s)
  BY <1>1, AddFinalizerStep
<1>2. CASE UNCHANGED <<server, cache, events, edits>>
  BY <1>2, VersionsUnchanged
<1>3. CASE Store(s, None) /\ UNCHANGED <<cache, edits>>
  <2>1. VersionsTell'
    BY <1>3, StoreStep DEF VersionsTell, Functional
  <2>2. server'[s] = None
    BY <1>3 DEF VersionsTell, Functional, Store
  <2> QED BY <2>1, <2>2
<1>4. CASE ReconcileGone(s) \/ ReconcileChildren(s)
  BY <1>2, <1>4 DEF ReconcileGone, ReconcileChildren, Leave, Taken
<1>5. CASE HandleDeletion(s)
  BY <1>2, <1>3, <1>5 DEF HandleDeletion, Update, Leave, Taken
<1> QED BY <1>1, <1>4, <1>5 DEF Reconcile

-----------------------------------------------------------------------------
LEMMA VersionsInit == Init => VersionsTell
<1> SUFFICES ASSUME Init
             PROVE  VersionsTell
  OBVIOUS
<1>1. events = <<>> /\ <<>> \in Seq({}) /\ Elements(<<>>) = {}
  BY DEF Init, Elements
<1>2. \A s \in Servers : server[s] = None /\ cache[s] = None
  BY DEF Init
<1> QED BY <1>1, <1>2 DEF Init, VersionsTell, Functional, StoredOK, CacheOK,
                          EventsOK

LEMMA VersionsStep ==
  ASSUME VersionsTell, [Next]_vars
  PROVE  VersionsTell'
<1>1. CASE UNCHANGED vars
  BY <1>1, VersionsUnchanged DEF vars, informer
<1>2. CASE Next
  BY <1>2, UserStep, ReflectorStep, ReconcileStep DEF Next
<1> QED BY <1>1, <1>2

(* The inductive invariant: a resourceVersion tells which object it is of. *)
THEOREM VersionsTellCorrect == Spec => []VersionsTell
<1>1. VersionsTell /\ [Next]_vars => VersionsTell'
  BY VersionsStep
<1> QED BY VersionsInit, <1>1, PTL DEF Spec

(* No write of the operator changes what a user has configured, for any    *)
(* servers, any values and any number of edits, broken watches and         *)
(* restarts.                                                               *)
THEOREM ConfigSurvivesCorrect == Spec => ConfigSurvives
<1>1. ASSUME VersionsTell, [Next]_vars
      PROVE  [\A s \in Servers :
                Reconcile(s) /\ server[s] # None /\ server'[s] # None
                  => Meaning(server'[s].value) = Meaning(server[s].value)]_vars
  BY <1>1, ReconcileStep
<1> QED BY <1>1, VersionsTellCorrect, PTL DEF Spec, ConfigSurvives

-----------------------------------------------------------------------------
(* Nothing is missed between the API server and the worker *)

AppliedTo == applied = [s \in Servers |-> applied[s]]

LEMMA AppliedToAll == Spec => []AppliedTo
<1>1. Init => AppliedTo
  BY DEF Init, AppliedTo
<1>2. AppliedTo /\ [Next]_vars => AppliedTo'
  <2> SUFFICES ASSUME AppliedTo, [Next]_vars
               PROVE  AppliedTo'
    OBVIOUS
  <2>1. CASE \E s \in Servers : \E n : Store(s, n)
    BY <2>1 DEF Store, AppliedTo
  <2>2. CASE \E s \in Servers : ReconcileChildren(s)
    BY <2>2 DEF ReconcileChildren, AppliedTo
  <2>3. CASE UNCHANGED applied
    BY <2>3 DEF AppliedTo
  <2>4. CASE Next
    <3>1. CASE UserNext
      BY <2>1, <3>1 DEF UserNext, CreateServer, EditServer, DeleteServer
    <3>2. CASE List \/ Deliver \/ WatchBreaks \/ Restart
      BY <2>3, <3>2 DEF List, Deliver, WatchBreaks, Restart
    <3>3. CASE \E s \in Servers : Reconcile(s)
      BY <2>1, <2>2, <2>3, <3>3
         DEF Reconcile, ReconcileGone, HandleDeletion, AddFinalizer, Update
    <3> QED BY <2>4, <3>1, <3>2, <3>3 DEF Next
  <2> QED BY <2>3, <2>4 DEF vars
<1> QED BY <1>1, <1>2, PTL DEF Spec

LEMMA PendingOfAppend ==
  ASSUME NEW S, events \in Seq(S), NEW e, events' = Append(events, e), NEW s
  PROVE  /\ Len(events) \in Nat
         /\ \A i : i \in Pending(s)' <=>
                    i \in Pending(s) \/ (i = Len(events) + 1 /\ e[1] = s)
         /\ \A i \in Pending(s) : events'[i] = events[i] /\ i <= Len(events)
         /\ events'[Len(events) + 1] = e
<1> DEFINE T == S \cup {e}
<1>1. events \in Seq(T) /\ e \in T
  OBVIOUS
<1> HIDE DEF T
<1>2. /\ Len(events') = Len(events) + 1
      /\ \A i \in 1..Len(events) : events'[i] = events[i]
      /\ events'[Len(events) + 1] = e
  BY <1>1, AppendProperties
<1>3. Len(events) \in Nat
  BY <1>1, LenProperties
<1> QED BY <1>2, <1>3 DEF Pending

LEMMA PendingOfTail ==
  ASSUME NEW S, events \in Seq(S), events # <<>>, events' = Tail(events), NEW s
  PROVE  /\ \A i \in Pending(s)' : i + 1 \in Pending(s) /\ events'[i] = events[i + 1]
         /\ \A j \in Pending(s) : j = 1 \/ j - 1 \in Pending(s)'
         /\ 1 \in Pending(s) <=> Head(events)[1] = s
         /\ events[1] = Head(events)
         /\ Pending(s) \subseteq Nat
<1>1. /\ Len(events') = Len(events) - 1
      /\ \A i \in 1..Len(events') : events'[i] = events[i + 1]
  BY HeadTailProperties
<1>2. Len(events) \in Nat /\ Len(events) # 0
  BY LenProperties, EmptySeq
<1>3. Head(events) = events[1]
  OBVIOUS
<1> QED BY <1>1, <1>2, <1>3 DEF Pending

(* What is stored is told, and the copy is older than it. *)
LEMMA StoreMissesNothing ==
  ASSUME Functional, NothingMissed, NEW s \in Servers, NEW n, Store(s, n),
         UNCHANGED <<cache, watching>>,
         n # None => /\ n.deleting => n.finalizer
                     /\ cache[s] # None => cache[s].rv # n.rv,
         queue' = queue \/ (n = None /\ queue' = queue \ {s})
  PROVE  NothingMissed'
<1>1. /\ server'[s] = n
      /\ \A t \in Servers : t # s => /\ server'[t] = server[t]
                                     /\ applied'[t] = applied[t]
                                     /\ t \in queue' <=> t \in queue
  BY DEF Store, Functional
<1>2. applied' = [applied EXCEPT ![s] = IF n = None THEN None ELSE @]
  BY DEF Store
<1>3. Awaited(s)' /\ ActedOn(s)'
  BY <1>1 DEF Awaited, ActedOn
<1>4. ASSUME NEW t \in Servers, t # s
      PROVE  Awaited(t)' /\ ActedOn(t)'
  BY <1>1, <1>4 DEF NothingMissed, Awaited, ActedOn
<1>5. ASSUME NEW t \in Servers, watching
      PROVE  Told(t)'
  <2>1. PICK S : events \in Seq(S)
    BY DEF Functional
  <2> DEFINE e == <<s, n>>
  <2>2. events' = Append(events, e) /\ e[1] = s /\ e[2] = n
    BY <1>5 DEF Store
  <2> HIDE DEF e
  <2>3. CASE t = s
    <3>1. /\ Len(events) \in Nat
          /\ \A i : i \in Pending(s)' <=> i \in Pending(s) \/ i = Len(events) + 1
          /\ \A i \in Pending(s) : i <= Len(events)
          /\ events'[Len(events) + 1] = e
      BY <2>1, <2>2, PendingOfAppend
    <3>2. Pending(s) \subseteq Nat
      BY DEF Pending
    <3>3. ASSUME NEW i \in Pending(s)', \A j \in Pending(s)' : j <= i
          PROVE  events'[i][2] = server'[s]
      <4>1. i = Len(events) + 1
        BY <3>1, <3>2, <3>3
      <4> QED BY <1>1, <2>2, <3>1, <4>1
    <3> QED BY <2>3, <3>1, <3>3 DEF Told
  <2>4. CASE t # s
    <3>1. /\ \A i : i \in Pending(t)' <=> i \in Pending(t)
          /\ \A i \in Pending(t) : events'[i] = events[i]
      BY <2>1, <2>2, <2>4, PendingOfAppend
    <3>2. server'[t] = server[t] /\ cache'[t] = cache[t]
      BY <1>1, <2>4
    <3>3. Told(t)
      BY DEF NothingMissed
    <3>4. Pending(t)' = Pending(t)
      BY <3>1
    <3> QED BY <1>5, <3>1, <3>2, <3>3, <3>4 DEF Told, Readable, Decoded
  <2> QED BY <2>3, <2>4
<1>6. ~watching => \A t \in Servers : Told(t)'
  BY DEF Told
<1> QED BY <1>3, <1>4, <1>5, <1>6 DEF NothingMissed

LEMMA Marked ==
  ASSUME NEW c, NEW d,
         c = [rv |-> c.rv, value |-> c.value, finalizer |-> c.finalizer,
              deleting |-> c.deleting]
  PROVE  [c EXCEPT !.deleting = d] =
           [rv |-> c.rv, value |-> c.value, finalizer |-> c.finalizer,
            deleting |-> d]
OBVIOUS

LEMMA UserMissesNothing ==
  ASSUME VersionsTell, NothingMissed, UserNext
  PROVE  NothingMissed'
<1>1. /\ edits \in Nat /\ edits' = edits + 1
      /\ UNCHANGED <<cache, watching, queue>>
  BY DEF VersionsTell, Functional, UserNext, CreateServer, EditServer,
         DeleteServer, UserActs
<1>2. \E s \in Servers : \E n :
        /\ Store(s, n)
        /\ n # None => n.rv = <<edits', 0>> /\ (n.deleting => n.finalizer)
  <2>1. PICK s \in Servers : CreateServer(s) \/ EditServer(s) \/ DeleteServer(s)
    BY DEF UserNext
  <2>2. CASE CreateServer(s)
    BY <2>2 DEF CreateServer
  <2>3. ASSUME server[s] # None
        PROVE  /\ server[s] = [rv |-> server[s].rv, value |-> server[s].value,
                               finalizer |-> server[s].finalizer,
                               deleting |-> server[s].deleting]
               /\ server[s].deleting => server[s].finalizer
    BY <2>3 DEF VersionsTell, StoredOK, IsObject, NothingMissed, Awaited
  <2>4. CASE EditServer(s)
    <3>1. PICK v : /\ server[s] # None
                   /\ Store(s, [server[s] EXCEPT !.value = v, !.rv = <<edits', 0>>])
      BY <2>4 DEF EditServer
    <3> DEFINE o == [server[s] EXCEPT !.value = v]
    <3>2. /\ o = [rv |-> server[s].rv, value |-> v,
                  finalizer |-> server[s].finalizer, deleting |-> server[s].deleting]
          /\ Store(s, [o EXCEPT !.rv = <<edits', 0>>])
      BY <2>3, <3>1
    <3> HIDE DEF o
    <3> DEFINE n == [o EXCEPT !.rv = <<edits', 0>>]
    <3>3. n.rv = <<edits', 0>> /\ (n.deleting => n.finalizer)
      BY <2>3, <3>1, <3>2
    <3>4. Store(s, n)
      BY <3>2
    <3> HIDE DEF n
    <3> QED BY <3>3, <3>4
  <2>5. CASE DeleteServer(s) /\ server[s].finalizer
    <3>1. /\ server[s] # None
          /\ Store(s, [server[s] EXCEPT !.deleting = TRUE, !.rv = <<edits', 0>>])
      BY <2>5 DEF DeleteServer
    <3> DEFINE o == [server[s] EXCEPT !.deleting = TRUE]
    <3>2. o = [rv |-> server[s].rv, value |-> server[s].value,
               finalizer |-> server[s].finalizer, deleting |-> TRUE]
      BY <2>3, <3>1, Marked
    <3>3. Store(s, [o EXCEPT !.rv = <<edits', 0>>])
      BY <3>1
    <3> HIDE DEF o
    <3> DEFINE n == [o EXCEPT !.rv = <<edits', 0>>]
    <3>4. n.rv = <<edits', 0>> /\ (n.deleting => n.finalizer)
      BY <2>5, <3>2
    <3>5. Store(s, n)
      BY <3>3
    <3> HIDE DEF n
    <3> QED BY <3>4, <3>5
  <2>6. CASE DeleteServer(s) /\ ~server[s].finalizer
    BY <2>6 DEF DeleteServer
  <2> QED BY <2>1, <2>2, <2>4, <2>5, <2>6
<1>3. PICK s \in Servers : \E n :
        /\ Store(s, n)
        /\ n # None => n.rv = <<edits', 0>> /\ (n.deleting => n.finalizer)
  BY <1>2
<1>4. PICK n :
        /\ Store(s, n)
        /\ n # None => n.rv = <<edits', 0>> /\ (n.deleting => n.finalizer)
  BY <1>3
<1>5. ASSUME cache[s] # None, n # None
      PROVE  cache[s].rv # n.rv
  <2>1. cache[s].rv[1] \in 0..edits
    BY <1>5 DEF VersionsTell, CacheOK, IsCopy, IsObject
  <2>2. n.rv[1] = edits'
    BY <1>4, <1>5
  <2> QED BY <1>1, <2>1, <2>2
<1> QED BY <1>1, <1>4, <1>5, StoreMissesNothing DEF VersionsTell

LEMMA ReflectorMissesNothing ==
  ASSUME Functional, NothingMissed, List \/ Deliver \/ WatchBreaks \/ Restart
  PROVE  NothingMissed'
<1>1. /\ UNCHANGED <<server, applied>>
      /\ \A s \in Servers : /\ cache'[s] # None /\ s \notin queue'
                                 => cache'[s] = cache[s] /\ s \notin queue
  <2>1. CASE List
    BY <2>1 DEF List
  <2>2. CASE Deliver
    BY <2>2 DEF Deliver, Functional
  <2>3. CASE WatchBreaks
    BY <2>3 DEF WatchBreaks
  <2>4. CASE Restart
    BY <2>4 DEF Restart
  <2> QED BY <2>1, <2>2, <2>3, <2>4
<1>2. \A s \in Servers : Awaited(s)' /\ ActedOn(s)'
  BY <1>1 DEF NothingMissed, Awaited, ActedOn
<1>3. ASSUME NEW s \in Servers, watching'
      PROVE  Told(s)'
  <2>1. CASE List
    <3>1. Pending(s)' = {}
      BY <2>1 DEF List, Pending
    <3>2. cache'[s] = Decoded(server'[s]) /\ Readable(server'[s])
      BY <2>1 DEF List, Decoded
    <3> QED BY <3>1, <3>2 DEF Told
  <2>2. CASE Deliver
    <3> DEFINE t == Head(events)[1]
               o == Head(events)[2]
    <3>1. /\ events # <<>> /\ events' = Tail(events) /\ watching
          /\ cache' = [cache EXCEPT ![t] = Decoded(o)] /\ Readable(o)
      BY <1>3, <2>2 DEF Deliver
    <3>2. PICK S : events \in Seq(S)
      BY DEF Functional
    <3>3. /\ \A i \in Pending(s)' : i + 1 \in Pending(s) /\ events'[i] = events[i + 1]
          /\ \A j \in Pending(s) : j = 1 \/ j - 1 \in Pending(s)'
          /\ 1 \in Pending(s) <=> t = s
          /\ events[1][2] = o
          /\ Pending(s) \subseteq Nat
      BY <3>1, <3>2, PendingOfTail
    <3>4. Pending(s)' \subseteq Nat
      BY DEF Pending
    <3>5. /\ Pending(s) = {} => Readable(server[s]) /\ cache[s] = Decoded(server[s])
          /\ \A i \in Pending(s) :
               (\A j \in Pending(s) : j <= i) => events[i][2] = server[s]
      BY <3>1 DEF NothingMissed, Told
    <3> HIDE DEF t, o
    <3>6. ASSUME Pending(s)' = {}
          PROVE  Readable(server'[s]) /\ cache'[s] = Decoded(server'[s])
      <4>1. CASE t = s
        <5>1. 1 \in Pending(s) /\ \A j \in Pending(s) : j <= 1
          BY <3>3, <3>6, <4>1
        <5>2. server[s] = o
          BY <3>3, <3>5, <5>1
        <5> QED BY <1>1, <3>1, <4>1, <5>2 DEF Functional, Readable, Decoded
      <4>2. CASE t # s
        <5>1. Pending(s) = {}
          BY <3>3, <3>6, <4>2
        <5>2. cache'[s] = cache[s]
          BY <3>1, <4>2 DEF Functional
        <5> QED BY <1>1, <3>5, <5>1, <5>2 DEF Readable, Decoded
      <4> QED BY <4>1, <4>2
    <3>7. ASSUME NEW i \in Pending(s)', \A j \in Pending(s)' : j <= i
          PROVE  events'[i][2] = server'[s]
      <4>1. i + 1 \in Pending(s) /\ events'[i] = events[i + 1]
        BY <3>3
      <4>2. \A j \in Pending(s) : j <= i + 1
        BY <3>3, <3>4, <3>7
      <4> QED BY <1>1, <3>5, <4>1, <4>2
    <3> QED BY <3>6, <3>7 DEF Told
  <2>3. CASE WatchBreaks \/ Restart
    BY <1>3, <2>3 DEF WatchBreaks, Restart
  <2> QED BY <2>1, <2>2, <2>3
<1>4. ~watching' => \A s \in Servers : Told(s)'
  BY DEF Told
<1> QED BY <1>2, <1>3, <1>4 DEF NothingMissed

LEMMA WorkerMissesNothing ==
  ASSUME VersionsTell, AppliedTo, NothingMissed, NEW s \in Servers, Reconcile(s)
  PROVE  NothingMissed'
<1>1. UNCHANGED <<cache, watching>>
  BY DEF Reconcile, ReconcileGone, HandleDeletion, AddFinalizer,
         ReconcileChildren, Taken
<1>2. CASE Store(s, None) /\ (queue' = queue \/ queue' = queue \ {s})
  BY <1>1, <1>2, StoreMissesNothing DEF VersionsTell
<1>3. CASE UNCHANGED <<server, events, applied, queue>>
  BY <1>1, <1>3 DEF NothingMissed, Awaited, ActedOn, Told, Pending, Readable,
                    Decoded
<1>4. ASSUME UNCHANGED <<server, events>>, queue' = queue \ {s}, ActedOn(s)',
             \A t \in Servers : t # s => applied'[t] = applied[t]
      PROVE  NothingMissed'
  <2>1. ASSUME NEW t \in Servers
        PROVE  Awaited(t)' /\ Told(t)'
    BY <1>1, <1>4 DEF NothingMissed, Awaited, Told, Pending, Readable, Decoded
  <2>2. ASSUME NEW t \in Servers, t # s
        PROVE  ActedOn(t)'
    BY <1>1, <1>4, <2>2 DEF NothingMissed, ActedOn
  <2> QED BY <1>4, <2>1, <2>2 DEF NothingMissed
<1>5. CASE ReconcileGone(s)
  <2>1. ActedOn(s)'
    BY <1>1, <1>5 DEF ReconcileGone, ActedOn
  <2> QED BY <1>4, <1>5, <2>1 DEF ReconcileGone, Leave
<1>6. CASE HandleDeletion(s) /\ cache[s].finalizer
  BY <1>2, <1>3, <1>6 DEF HandleDeletion, Update
<1>7. CASE HandleDeletion(s) /\ ~cache[s].finalizer
  <2>1. /\ cache[s] # None /\ cache[s].deleting
        /\ Leave(s) /\ UNCHANGED applied
    BY <1>7 DEF HandleDeletion
  <2>2. ASSUME server[s] # None, cache[s].rv = server[s].rv
        PROVE  FALSE
    <3>1. cache[s] = Decoded(server[s]) /\ IsObject(server[s])
      BY <2>1, <2>2 DEF VersionsTell, CacheOK, StoredOK
    <3>2. /\ cache[s].deleting = server[s].deleting
          /\ cache[s].finalizer = server[s].finalizer
      BY <2>2, <3>1 DEF Decoded, IsObject
    <3> QED BY <1>7, <2>1, <2>2, <3>2 DEF NothingMissed, Awaited
  <2>3. ActedOn(s)'
    BY <1>1, <2>1, <2>2 DEF Leave, ActedOn
  <2> QED BY <1>4, <2>1, <2>3 DEF Leave
<1>8. CASE AddFinalizer(s)
  <2> DEFINE c == cache[s]
             n == [c EXCEPT !.finalizer = TRUE, !.value = Marshal(@),
                            !.rv = <<@[1], @[2] + 1>>]
  <2>1. c # None /\ Update(s, n, TRUE)
    BY <1>8 DEF AddFinalizer
  <2>2. IsObject(c)
    BY <2>1 DEF VersionsTell, CacheOK, IsCopy
  <2>3. n = [rv |-> <<c.rv[1], c.rv[2] + 1>>, value |-> Marshal(c.value),
             finalizer |-> TRUE, deleting |-> c.deleting]
    <3>1. c = [rv |-> c.rv, value |-> c.value, finalizer |-> c.finalizer,
               deleting |-> c.deleting]
      BY <2>2 DEF IsObject
    <3>2. n = [c EXCEPT !.finalizer = TRUE, !.value = Marshal(c.value),
                        !.rv = <<c.rv[1], c.rv[2] + 1>>]
      OBVIOUS
    <3> HIDE DEF n
    <3> QED BY <3>1, <3>2, Finalized
  <2>4. PICK m : m = n
    OBVIOUS
  <2>5. /\ m = [rv |-> <<c.rv[1], c.rv[2] + 1>>, value |-> Marshal(c.value),
                finalizer |-> TRUE, deleting |-> c.deleting]
        /\ Update(s, m, TRUE)
    BY <2>1, <2>3, <2>4
  <2>6. m.finalizer /\ m.rv[2] = c.rv[2] + 1 /\ c.rv[2] \in Nat
    BY <2>2, <2>5 DEF IsObject
  <2>7. m.finalizer /\ c.rv # m.rv
    BY <2>6
  <2>8. \/ Store(s, m) /\ queue' = queue
        \/ UNCHANGED <<server, events, applied, queue>>
    BY <2>5 DEF Update
  <2> HIDE DEF n
  <2> QED BY <1>1, <1>3, <2>7, <2>8, StoreMissesNothing DEF VersionsTell
<1>9. CASE ReconcileChildren(s)
  <2>1. /\ ~cache[s].deleting /\ cache[s].finalizer
        /\ applied' = [applied EXCEPT ![s] = cache[s].value]
        /\ Leave(s)
    BY <1>9 DEF ReconcileChildren
  <2>2. ActedOn(s)'
    BY <1>1, <2>1 DEF ActedOn, AppliedTo
  <2> QED BY <1>4, <2>1, <2>2 DEF Leave
<1> QED BY <1>5, <1>6, <1>7, <1>8, <1>9 DEF Reconcile

LEMMA NothingMissedInit == Init => NothingMissed
<1> SUFFICES ASSUME Init, NEW s \in Servers
             PROVE  Awaited(s) /\ ActedOn(s) /\ Told(s)
  BY DEF NothingMissed
<1>1. server[s] = None /\ cache[s] = None /\ Pending(s) = {}
  BY DEF Init, Pending
<1> QED BY <1>1 DEF Awaited, ActedOn, Told, Readable, Decoded

(* The inductive invariant: no change is lost between the API server and   *)
(* the worker, for any servers, any values and any number of edits, broken *)
(* watches and restarts.                                                   *)
THEOREM NothingMissedCorrect == Spec => []NothingMissed
<1>1. ASSUME VersionsTell, AppliedTo, NothingMissed, [Next]_vars
      PROVE  NothingMissed'
  <2>1. CASE UNCHANGED vars
    BY <1>1, <2>1 DEF vars, informer, NothingMissed, Awaited, ActedOn, Told,
                      Pending, Readable, Decoded
  <2>2. CASE Next
    BY <1>1, <2>2, UserMissesNothing, ReflectorMissesNothing, WorkerMissesNothing
       DEF Next, VersionsTell
  <2> QED BY <1>1, <2>1, <2>2
<1> QED BY VersionsTellCorrect, AppliedToAll, NothingMissedInit, <1>1, PTL DEF Spec

(* None stands for an object that was not found *)
NoObjectIsNone ==
  \A rv, value, finalizer, deleting :
    [rv |-> rv, value |-> value, finalizer |-> finalizer,
     deleting |-> deleting] # None

LEMMA SettledFollows ==
  ASSUME NoObjectIsNone, VersionsTell, NothingMissed
  PROVE  SettledServed
<1> SUFFICES ASSUME watching, events = <<>>, NEW s \in Servers, s \notin queue,
                    server[s] # None
             PROVE  ~server[s].deleting /\ applied[s] = Meaning(server[s].value)
  BY DEF SettledServed, Served
<1>1. Pending(s) = {}
  BY DEF Pending
<1>2. Readable(server[s]) /\ cache[s] = Decoded(server[s])
  BY <1>1 DEF NothingMissed, Told
<1>3. IsObject(server[s])
  BY DEF VersionsTell, StoredOK
<1>4. cache[s] = [rv |-> server[s].rv, value |-> UnmarshalJSON(server[s].value),
                  finalizer |-> server[s].finalizer,
                  deleting |-> server[s].deleting]
  BY <1>2, <1>3 DEF Decoded, IsObject
<1>5. cache[s] # None
  BY <1>4 DEF NoObjectIsNone
<1>6. ~cache[s].deleting /\ applied[s] = cache[s].value
  BY <1>4, <1>5 DEF NothingMissed, ActedOn
<1> QED BY <1>2, <1>4, <1>6 DEF Meaning, Readable

(* Once all that was watched has been delivered, every server outside the  *)
(* queue is served: its resources are made of the config its user wants.   *)
THEOREM SettledServedCorrect == NoObjectIsNone => (Spec => []SettledServed)
<1> SUFFICES ASSUME NoObjectIsNone
             PROVE  Spec => []SettledServed
  OBVIOUS
<1>1. VersionsTell /\ NothingMissed => SettledServed
  BY SettledFollows
<1> QED BY VersionsTellCorrect, NothingMissedCorrect, <1>1, PTL
=============================================================================
