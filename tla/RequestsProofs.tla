--------------------------- MODULE RequestsProofs ---------------------------
(***************************************************************************)
(* What holds of the way of a request: of the connections that any number  *)
(* of requests take from a pool of any size, of the tests that a request   *)
(* has passed, whatever it carries, and of the two side by side.           *)
(***************************************************************************)
EXTENDS MCRequests, FiniteSetTheorems, SequenceTheorems, TLAPS

-----------------------------------------------------------------------------
(***************************************************************************)
(* Connections.  Those of the pool are free, held by a session, held by a  *)
(* store or being opened; the line is made of the requests that wait, each *)
(* once, and nobody is in it while a connection is free.                   *)
(***************************************************************************)
Waits == {"forSession", "forStore"}
Steps == {"new", "running", "forSession", "forStore"} \cup Ended

On(holds) == {h \in Handlers : holds[h]}
Opening == IF growing THEN 1 ELSE 0

PoolTypes ==
  /\ opened \in 0..MaxSize /\ free \in Nat /\ growing \in BOOLEAN
  /\ waiting \in Seq(Handlers)
  /\ session \in [Handlers -> BOOLEAN] /\ store \in [Handlers -> BOOLEAN]
  /\ handler \in [Handlers -> Steps]

\* Who waits is in line, once.
LineFits(line, at) ==
  /\ \A i, j \in 1..Len(line) : line[i] = line[j] => i = j
  /\ \A h \in Handlers : at[h] \in Waits <=> \E i \in 1..Len(line) : line[i] = h

\* Nobody asks for what he has; who has not begun or has ended holds nothing.
HandlerFits(h, at, sessions, stores) ==
  /\ at[h] = "forSession" => h \notin sessions /\ h \notin stores
  /\ at[h] = "forStore" => h \notin stores
  /\ at[h] \in {"new"} \cup Ended => h \notin sessions /\ h \notin stores

Counted ==
  /\ IsFiniteSet(On(session)) /\ IsFiniteSet(On(store))
  /\ opened = free + Cardinality(On(session)) + Cardinality(On(store)) + Opening

PoolInv ==
  /\ PoolTypes
  /\ LineFits(waiting, handler)
  /\ \A h \in Handlers : HandlerFits(h, handler, On(session), On(store))
  /\ Counted
  /\ waiting # <<>> => free = 0

\* One more in a set, and one less.
LEMMA OneMoreOrLess ==
  ASSUME NEW S, NEW x, IsFiniteSet(S)
  PROVE  /\ Cardinality(S) \in Nat
         /\ IsFiniteSet(S \cup {x}) /\ IsFiniteSet(S \ {x})
         /\ x \notin S => Cardinality(S \cup {x}) = Cardinality(S) + 1
         /\ x \in S => Cardinality(S \ {x}) = Cardinality(S) - 1
BY FS_CardinalityType, FS_AddElement, FS_RemoveElement

\* A connection that is handed on is held by a session or by a store, once.
LEMMA HandedCounts ==
  ASSUME NEW S, NEW T, IsFiniteSet(S), IsFiniteSet(T), NEW k, NEW what \in Waits,
         what = "forSession" => k \notin S, what = "forStore" => k \notin T
  PROVE  LET S2 == IF what = "forSession" THEN S \cup {k} ELSE S
             T2 == IF what = "forStore" THEN T \cup {k} ELSE T
         IN /\ IsFiniteSet(S2) /\ IsFiniteSet(T2)
            /\ Cardinality(S) \in Nat /\ Cardinality(T) \in Nat
            /\ Cardinality(S2) + Cardinality(T2) = Cardinality(S) + Cardinality(T) + 1
<1> DEFINE S2 == IF what = "forSession" THEN S \cup {k} ELSE S
           T2 == IF what = "forStore" THEN T \cup {k} ELSE T
<1>1. Cardinality(S) \in Nat /\ Cardinality(T) \in Nat
  BY OneMoreOrLess
<1>2. CASE what = "forSession"
  <2>1. S2 = S \cup {k} /\ T2 = T /\ k \notin S
    BY <1>2
  <2>2. IsFiniteSet(S2) /\ Cardinality(S2) = Cardinality(S) + 1
    BY <2>1, OneMoreOrLess
  <2> HIDE DEF S2, T2
  <2>3. /\ IsFiniteSet(S2) /\ IsFiniteSet(T2)
        /\ Cardinality(S2) + Cardinality(T2) = Cardinality(S) + Cardinality(T) + 1
    BY <1>1, <2>1, <2>2
  <2> QED
    BY <1>1, <2>3 DEF S2, T2
<1>3. CASE what = "forStore"
  <2>1. S2 = S /\ T2 = T \cup {k} /\ k \notin T
    BY <1>3
  <2>2. IsFiniteSet(T2) /\ Cardinality(T2) = Cardinality(T) + 1
    BY <2>1, OneMoreOrLess
  <2> HIDE DEF S2, T2
  <2>3. /\ IsFiniteSet(S2) /\ IsFiniteSet(T2)
        /\ Cardinality(S2) + Cardinality(T2) = Cardinality(S) + Cardinality(T) + 1
    BY <1>1, <2>1, <2>2
  <2> QED
    BY <1>1, <2>3 DEF S2, T2
<1> QED
  BY <1>2, <1>3 DEF Waits

\* Who asks in vain goes to the end of the line.
LEMMA LineJoined ==
  ASSUME NEW line \in Seq(Handlers), NEW at \in [Handlers -> Steps], LineFits(line, at),
         NEW h \in Handlers, at[h] \notin Waits, NEW what \in Waits
  PROVE  /\ Append(line, h) \in Seq(Handlers) /\ Append(line, h) # <<>>
         /\ LineFits(Append(line, h), [at EXCEPT ![h] = what])
<1> DEFINE longer == Append(line, h)
           there == [at EXCEPT ![h] = what]
<1>1. /\ longer \in Seq(Handlers) /\ Len(longer) = Len(line) + 1 /\ longer[Len(line) + 1] = h
      /\ \A i \in 1..Len(line) : longer[i] = line[i]
      /\ Len(line) \in Nat /\ longer # <<>>
  OBVIOUS
<1>2. \A i \in 1..Len(line) : line[i] # h /\ line[i] \in Handlers
  BY DEF LineFits
<1>3. there[h] \in Waits /\ \A k \in Handlers \ {h} : there[k] = at[k]
  OBVIOUS
<1> HIDE DEF longer, there
<1>4. \A i, j \in 1..Len(longer) : longer[i] = longer[j] => i = j
  BY <1>1, <1>2 DEF LineFits
<1>5. \A k \in Handlers : there[k] \in Waits <=> \E i \in 1..Len(longer) : longer[i] = k
  <2> TAKE k \in Handlers
  <2>1. CASE k = h
    BY <1>1, <1>3, <2>1
  <2>2. CASE k # h
    <3>1. (\E i \in 1..Len(longer) : longer[i] = k) <=> \E i \in 1..Len(line) : line[i] = k
      BY <1>1, <2>2
    <3> QED
      BY <1>3, <2>2, <3>1 DEF LineFits
  <2> QED
    BY <2>1, <2>2
<1>6. LineFits(longer, there)
  BY <1>4, <1>5 DEF LineFits
<1> QED
  BY <1>1, <1>6 DEF longer, there

\* Who leaves the line, from wherever he is in it, waits no more.
LEMMA LineLeft ==
  ASSUME NEW line \in Seq(Handlers), NEW at \in [Handlers -> Steps], LineFits(line, at),
         NEW i \in 1..Len(line), NEW h, h = line[i], NEW to \in Steps \ Waits
  PROVE  /\ h \in Handlers /\ at[h] \in Waits
         /\ RemoveAt(line, i) \in Seq(Handlers)
         /\ LineFits(RemoveAt(line, i), [at EXCEPT ![h] = to])
<1> DEFINE shorter == RemoveAt(line, i)
           there == [at EXCEPT ![h] = to]
<1>1. h \in Handlers /\ at[h] \in Waits /\ Len(line) \in Nat
  BY DEF LineFits
<1>2. /\ shorter \in Seq(Handlers) /\ Len(shorter) = Len(line) - 1
      /\ \A j \in 1..(Len(line) - 1) : shorter[j] = IF j < i THEN line[j] ELSE line[j + 1]
  <2>1. /\ SubSeq(line, 1, i - 1) \in Seq(Handlers) /\ Len(SubSeq(line, 1, i - 1)) = i - 1
        /\ \A j \in 1..(i - 1) : SubSeq(line, 1, i - 1)[j] = line[j]
    OBVIOUS
  <2>2. /\ SubSeq(line, i + 1, Len(line)) \in Seq(Handlers)
        /\ Len(SubSeq(line, i + 1, Len(line))) = Len(line) - i
        /\ \A j \in 1..(Len(line) - i) : SubSeq(line, i + 1, Len(line))[j] = line[j + i]
    BY <1>1
  <2> DEFINE front == SubSeq(line, 1, i - 1)
             back == SubSeq(line, i + 1, Len(line))
  <2>3. shorter = front \o back
    BY DEF RemoveAt
  <2> HIDE DEF front, back
  <2>4. /\ front \in Seq(Handlers) /\ Len(front) = i - 1 /\ \A j \in 1..(i - 1) : front[j] = line[j]
        /\ back \in Seq(Handlers) /\ Len(back) = Len(line) - i /\ \A j \in 1..(Len(line) - i) : back[j] = line[j + i]
    BY <2>1, <2>2 DEF front, back
  <2>5. /\ front \o back \in Seq(Handlers) /\ Len(front \o back) = Len(line) - 1
        /\ \A j \in 1..(Len(line) - 1) :
             (front \o back)[j] = IF j <= Len(front) THEN front[j] ELSE back[j - Len(front)]
    <3>1. Len(front) + Len(back) = Len(line) - 1
      BY <1>1, <2>4
    <3>2. /\ front \o back \in Seq(Handlers) /\ Len(front \o back) = Len(front) + Len(back)
          /\ \A j \in 1..(Len(front) + Len(back)) :
               (front \o back)[j] = IF j <= Len(front) THEN front[j] ELSE back[j - Len(front)]
      <4>1. front \in Seq(Handlers) /\ back \in Seq(Handlers)
        BY <2>4
      <4> QED
        BY <4>1, ConcatProperties
    <3> QED
      BY <3>1, <3>2
  <2>6. ASSUME NEW j \in 1..(Len(line) - 1)
        PROVE  (front \o back)[j] = IF j < i THEN line[j] ELSE line[j + 1]
    <3>1. CASE j < i
      BY <1>1, <2>4, <2>5, <3>1
    <3>2. CASE ~(j < i)
      <4>1. j - (i - 1) \in 1..(Len(line) - i) /\ j - (i - 1) + i = j + 1
        BY <1>1, <3>2
      <4> QED
        BY <2>4, <2>5, <3>2, <4>1
    <3> QED
      BY <3>1, <3>2
  <2> QED
    BY <2>3, <2>5, <2>6
<1> HIDE DEF shorter
<1>3. \A k \in Handlers : there[k] = IF k = h THEN to ELSE at[k]
  OBVIOUS
<1> HIDE DEF there
<1>4. ASSUME NEW j \in 1..Len(shorter)
      PROVE  \E m \in 1..Len(line) : m # i /\ shorter[j] = line[m] /\ m = IF j < i THEN j ELSE j + 1
  BY <1>1, <1>2
<1>5. \A j, m \in 1..Len(shorter) : shorter[j] = shorter[m] => j = m
  <2> TAKE j, m \in 1..Len(shorter)
  <2>1. PICK j1 \in 1..Len(line) : shorter[j] = line[j1] /\ j1 = IF j < i THEN j ELSE j + 1
    BY <1>4
  <2>2. PICK m1 \in 1..Len(line) : shorter[m] = line[m1] /\ m1 = IF m < i THEN m ELSE m + 1
    BY <1>4
  <2> HAVE shorter[j] = shorter[m]
  <2>3. j1 = m1
    BY <2>1, <2>2 DEF LineFits
  <2> QED
    BY <1>1, <1>2, <2>1, <2>2, <2>3
<1>6. \A k \in Handlers : there[k] \in Waits <=> \E j \in 1..Len(shorter) : shorter[j] = k
  <2> TAKE k \in Handlers
  <2>1. CASE k = h
    <3>1. there[k] \notin Waits
      BY <1>3, <2>1
    <3>2. ~\E j \in 1..Len(shorter) : shorter[j] = h
      BY <1>4 DEF LineFits
    <3> QED
      BY <2>1, <3>1, <3>2
  <2>2. CASE k # h
    <3>1. ASSUME NEW m \in 1..Len(line), line[m] = k
          PROVE  \E j \in 1..Len(shorter) : shorter[j] = k
      <4>1. m # i
        BY <2>2, <3>1
      <4>2. CASE m < i
        BY SMTT(30), <1>1, <1>2, <3>1, <4>2
      <4>3. CASE m > i
        <5>1. m - 1 \in 1..(Len(line) - 1) /\ ~(m - 1 < i) /\ m - 1 + 1 = m
          BY <1>1, <4>3
        <5>2. shorter[m - 1] = line[m]
          BY <1>2, <5>1
        <5> QED
          BY <1>2, <3>1, <5>1, <5>2
      <4> QED
        BY <4>1, <4>2, <4>3
    <3>2. (\E j \in 1..Len(shorter) : shorter[j] = k) => \E m \in 1..Len(line) : line[m] = k
      BY <1>4
    <3> QED
      BY <1>3, <2>2, <3>1, <3>2 DEF LineFits
  <2> QED
    BY <2>1, <2>2
<1>7. LineFits(shorter, there)
  BY <1>5, <1>6 DEF LineFits
<1> QED
  BY <1>1, <1>2, <1>7 DEF shorter, there

\* The first in line is served and leaves it.
LEMMA LineServed ==
  ASSUME NEW line \in Seq(Handlers), NEW at \in [Handlers -> Steps], LineFits(line, at), line # <<>>,
         NEW k, k = Head(line), NEW to \in Steps \ Waits
  PROVE  /\ k \in Handlers /\ at[k] \in Waits /\ Tail(line) \in Seq(Handlers)
         /\ LineFits(Tail(line), [at EXCEPT ![k] = to])
<1>1. 1 \in 1..Len(line) /\ line[1] = k
  OBVIOUS
<1>2. RemoveAt(line, 1) = Tail(line)
  <2>1. SubSeq(line, 1, 1 - 1) = <<>> /\ SubSeq(line, 2, Len(line)) = Tail(line)
    OBVIOUS
  <2>2. RemoveAt(line, 1) = SubSeq(line, 1, 1 - 1) \o SubSeq(line, 1 + 1, Len(line)) /\ 1 + 1 = 2
    BY DEF RemoveAt
  <2>3. <<>> \o Tail(line) = Tail(line)
    OBVIOUS
  <2> QED
    BY <2>1, <2>2, <2>3
<1>3. PICK i \in 1..Len(line) : i = 1
  BY <1>1
<1>4. /\ k \in Handlers /\ at[k] \in Waits /\ RemoveAt(line, i) \in Seq(Handlers)
      /\ LineFits(RemoveAt(line, i), [at EXCEPT ![k] = to])
  BY <1>1, <1>3, LineLeft
<1> QED
  BY <1>2, <1>3, <1>4

\* Who does not wait, and goes on without waiting, is not looked for in the line.
LEMMA LineKept ==
  ASSUME NEW line \in Seq(Handlers), NEW at \in [Handlers -> Steps], LineFits(line, at),
         NEW h \in Handlers, at[h] \notin Waits, NEW to \in Steps \ Waits
  PROVE  LineFits(line, [at EXCEPT ![h] = to])
<1>1. \A k \in Handlers : [at EXCEPT ![h] = to][k] \in Waits <=> at[k] \in Waits
  OBVIOUS
<1> QED
  BY <1>1 DEF LineFits

\* A connection that is given back, or n = 0 of them, with nobody to take it.
LEMMA Kept ==
  ASSUME NEW n \in {0, 1}, free \in Nat, free' = free + n, n = 0 \/ waiting' = <<>>,
         LineFits(waiting, handler)', waiting' # <<>> => free = 0,
         (opened \in 0..MaxSize /\ growing \in BOOLEAN /\ waiting \in Seq(Handlers))',
         (session \in [Handlers -> BOOLEAN] /\ store \in [Handlers -> BOOLEAN])',
         (handler \in [Handlers -> Steps])',
         \A k \in Handlers : HandlerFits(k, handler, On(session), On(store))',
         IsFiniteSet(On(session)') /\ IsFiniteSet(On(store)'),
         opened' = free + Cardinality(On(session)') + Cardinality(On(store)') + n + Opening'
  PROVE  PoolInv'
<1>1. PoolTypes'
  BY DEF PoolTypes
<1>2. Cardinality(On(session)') \in Nat /\ Cardinality(On(store)') \in Nat /\ Opening' \in Nat
  BY FS_CardinalityType DEF Opening
<1>3. Counted'
  BY <1>2 DEF Counted
<1>4. (waiting # <<>> => free = 0)'
  OBVIOUS
<1> QED
  BY <1>1, <1>3, <1>4 DEF PoolInv

\* A connection that is given back goes to the first in line: S and T are the
\* sessions and the stores that hold one before.
LEMMA HandedOn ==
  ASSUME NEW line \in Seq(Handlers), NEW at \in [Handlers -> Steps], LineFits(line, at), line # <<>>,
         NEW first, first = Head(line),
         NEW S, NEW T, IsFiniteSet(S), IsFiniteSet(T),
         \A k \in Handlers : HandlerFits(k, at, S, T),
         free = 0, free' = free, waiting' = Tail(line), handler' = [at EXCEPT ![first] = "running"],
         On(session)' = IF at[first] = "forSession" THEN S \cup {first} ELSE S,
         On(store)' = IF at[first] = "forStore" THEN T \cup {first} ELSE T,
         opened' \in 0..MaxSize, growing' \in BOOLEAN,
         session' \in [Handlers -> BOOLEAN], store' \in [Handlers -> BOOLEAN],
         opened' = free + Cardinality(S) + Cardinality(T) + 1 + Opening'
  PROVE  PoolInv'
<1>1. "running" \in Steps \ Waits
  BY DEF Steps, Waits, Ended
<1>2. /\ first \in Handlers /\ at[first] \in Waits /\ waiting' \in Seq(Handlers)
      /\ LineFits(waiting', handler')
  BY <1>1, LineServed
<1>3. handler' \in [Handlers -> Steps]
  BY <1>1
<1>4. \A k \in Handlers : HandlerFits(k, handler', On(session)', On(store)')
  <2> TAKE k \in Handlers
  <2>1. CASE k = first
    BY <1>2, <2>1 DEF HandlerFits, Ended
  <2>2. CASE k # first
    <3>1. handler'[k] = at[k] /\ (k \in On(session)' <=> k \in S) /\ (k \in On(store)' <=> k \in T)
      BY <2>2
    <3>2. HandlerFits(k, at, S, T)
      OBVIOUS
    <3> QED
      BY <3>1, <3>2 DEF HandlerFits
  <2> QED
    BY <2>1, <2>2
<1>5. (at[first] = "forSession" => first \notin S) /\ (at[first] = "forStore" => first \notin T)
  BY <1>2 DEF HandlerFits
<1> DEFINE what == at[first]
           S2 == IF what = "forSession" THEN S \cup {first} ELSE S
           T2 == IF what = "forStore" THEN T \cup {first} ELSE T
<1>6. On(session)' = S2 /\ On(store)' = T2
  OBVIOUS
<1>7. what \in Waits /\ (what = "forSession" => first \notin S) /\ (what = "forStore" => first \notin T)
  BY <1>2, <1>5
<1> HIDE DEF what
<1>8. /\ IsFiniteSet(S2) /\ IsFiniteSet(T2) /\ Cardinality(S) \in Nat /\ Cardinality(T) \in Nat
      /\ Cardinality(S2) + Cardinality(T2) = Cardinality(S) + Cardinality(T) + 1
  <2>1. Cardinality(S) \in Nat /\ Cardinality(T) \in Nat
    BY FS_CardinalityType
  <2>2. CASE what = "forSession"
    <3>1. S2 = S \cup {first} /\ T2 = T /\ first \notin S
      BY <1>7, <2>2
    <3>2. IsFiniteSet(S \cup {first}) /\ Cardinality(S \cup {first}) = Cardinality(S) + 1
      BY <3>1, OneMoreOrLess
    <3> HIDE DEF S2, T2
    <3> QED
      BY <2>1, <3>1, <3>2
  <2>3. CASE what = "forStore"
    <3>1. S2 = S /\ T2 = T \cup {first} /\ first \notin T
      BY <1>7, <2>3
    <3>2. IsFiniteSet(T \cup {first}) /\ Cardinality(T \cup {first}) = Cardinality(T) + 1
      BY <3>1, OneMoreOrLess
    <3> HIDE DEF S2, T2
    <3> QED
      BY <2>1, <3>1, <3>2
  <2> QED
    BY <1>7, <2>2, <2>3 DEF Waits
<1> HIDE DEF S2, T2
<1>9. Cardinality(S2) \in Nat /\ Cardinality(T2) \in Nat /\ Opening' \in Nat
  BY <1>8, FS_CardinalityType DEF Opening
<1>10. opened' = free' + Cardinality(S2) + Cardinality(T2) + Opening'
  BY <1>8, <1>9
<1>11. Counted'
  BY <1>6, <1>8, <1>10 DEF Counted
<1>12. PoolTypes'
  BY <1>2, <1>3 DEF PoolTypes
<1>13. LineFits(waiting, handler)'
  BY <1>2
<1>14. \A k \in Handlers : HandlerFits(k, handler, On(session), On(store))'
  BY <1>4
<1>15. (waiting # <<>> => free = 0)'
  OBVIOUS
<1>16. PoolInv'
  BY <1>11, <1>12, <1>13, <1>14, <1>15 DEF PoolInv
<1> QED
  BY <1>16

\* A request that begins takes nothing yet.
LEMMA BeginHolds ==
  ASSUME PoolInv, NEW h \in Handlers, Begin(h)
  PROVE  PoolInv'
<1> USE DEF PoolInv, PoolTypes, Begin
<1>1. "running" \in Steps \ Waits /\ handler[h] \notin Waits
  BY DEF Steps, Waits, Ended
<1>2. LineFits(waiting, handler)'
  BY <1>1, LineKept
<1>3. On(session)' = On(session) /\ On(store)' = On(store) /\ Opening' = Opening
  BY DEF On, Opening
<1>4. \A k \in Handlers : HandlerFits(k, handler, On(session), On(store))'
  BY <1>3 DEF HandlerFits, Ended
<1>5. Counted'
  BY <1>3 DEF Counted
<1>6. PoolTypes'
  BY <1>1
<1>7. (waiting # <<>> => free = 0)'
  OBVIOUS
<1> QED
  BY <1>2, <1>4, <1>5, <1>6, <1>7

\* A request that asks for a connection takes a free one or joins the line.
LEMMA AcquireHolds ==
  ASSUME PoolInv, NEW h \in Handlers, handler[h] = "running", NEW where \in Waits,
         h \notin On(store), where = "forSession" => h \notin On(session), Acquire(h, where)
  PROVE  PoolInv'
<1>0. /\ opened \in 0..MaxSize /\ free \in Nat /\ growing \in BOOLEAN /\ waiting \in Seq(Handlers)
      /\ session \in [Handlers -> BOOLEAN] /\ store \in [Handlers -> BOOLEAN]
      /\ handler \in [Handlers -> Steps] /\ LineFits(waiting, handler) /\ Counted
      /\ \A k \in Handlers : HandlerFits(k, handler, On(session), On(store))
      /\ waiting # <<>> => free = 0
  BY DEF PoolInv, PoolTypes
<1>1. "running" \in Steps \ Waits /\ handler[h] \notin Waits /\ Waits \subseteq Steps
  BY <1>0 DEF Steps, Waits, Ended
<1>2. CASE free > 0
  <2> DEFINE S2 == IF where = "forSession" THEN On(session) \cup {h} ELSE On(session)
             T2 == IF where = "forStore" THEN On(store) \cup {h} ELSE On(store)
  <2>1. /\ free' = free - 1
        /\ session' = [session EXCEPT ![h] = @ \/ where = "forSession"]
        /\ store' = [store EXCEPT ![h] = @ \/ where = "forStore"]
        /\ handler' = [handler EXCEPT ![h] = "running"]
        /\ UNCHANGED <<opened, growing, waiting>>
    BY <1>2 DEF Acquire
  <2>2. /\ session' \in [Handlers -> BOOLEAN] /\ On(session)' = S2
        /\ store' \in [Handlers -> BOOLEAN] /\ On(store)' = T2
    <3>1. \A k \in Handlers : /\ session'[k] <=> (session[k] \/ (k = h /\ where = "forSession"))
                              /\ store'[k] <=> (store[k] \/ (k = h /\ where = "forStore"))
      BY <1>0, <2>1
    <3> QED
      BY <1>0, <2>1, <3>1 DEF On
  <2>3. /\ S2 = IF where = "forSession" THEN On(session) \cup {h} ELSE On(session)
        /\ T2 = IF where = "forStore" THEN On(store) \cup {h} ELSE On(store)
    BY DEF S2, T2
  <2>4. /\ IsFiniteSet(S2) /\ IsFiniteSet(T2)
        /\ Cardinality(On(session)) \in Nat /\ Cardinality(On(store)) \in Nat
        /\ Cardinality(S2) + Cardinality(T2) = Cardinality(On(session)) + Cardinality(On(store)) + 1
    <3>1. IsFiniteSet(On(session)) /\ IsFiniteSet(On(store))
      BY <1>0 DEF Counted
    <3>2. (where = "forSession" => h \notin On(session)) /\ (where = "forStore" => h \notin On(store))
      OBVIOUS
    <3> QED
      BY <3>1, <3>2, HandedCounts
  <2> HIDE DEF S2, T2
  <2>5. Cardinality(S2) \in Nat /\ Cardinality(T2) \in Nat /\ Opening \in Nat /\ Opening' = Opening
    BY <1>0, <2>1, <2>4, FS_CardinalityType DEF Opening
  <2>6. opened' = free' + Cardinality(S2) + Cardinality(T2) + Opening'
    BY SMTT(30), <1>0, <2>1, <2>4, <2>5 DEF Counted
  <2>7. Counted'
    BY <2>2, <2>4, <2>6 DEF Counted
  <2>8. LineFits(waiting, handler)'
    BY <1>0, <1>1, <2>1, LineKept
  <2>9. PoolTypes'
    BY <1>0, <1>1, <1>2, <2>1, <2>2 DEF PoolTypes
  <2>10. \A k \in Handlers : HandlerFits(k, handler, On(session), On(store))'
    BY <1>0, <2>1, <2>2, <2>3 DEF HandlerFits, Ended
  <2>11. (waiting # <<>> => free = 0)'
    BY <1>0, <1>2, <2>1
  <2> QED
    BY <2>7, <2>8, <2>9, <2>10, <2>11 DEF PoolInv
<1>3. CASE ~(free > 0)
  <2>1. /\ waiting' = Append(waiting, h)
        /\ handler' = [handler EXCEPT ![h] = where]
        /\ growing' = (growing \/ opened < MaxSize)
        /\ opened' = IF ~growing /\ opened < MaxSize THEN opened + 1 ELSE opened
        /\ UNCHANGED <<free, session, store>>
    BY <1>3 DEF Acquire
  <2>2. waiting' \in Seq(Handlers) /\ LineFits(waiting', handler')
    BY <1>0, <1>1, <2>1, LineJoined
  <2>3. On(session)' = On(session) /\ On(store)' = On(store)
    BY <2>1 DEF On
  <2>4. \A k \in Handlers : HandlerFits(k, handler, On(session), On(store))'
    <3> TAKE k \in Handlers
    <3>1. HandlerFits(k, handler, On(session), On(store))
      BY <1>0
    <3> QED
      BY <1>0, <2>1, <2>3, <3>1 DEF HandlerFits, Ended, Waits
  <2>5. growing' \in BOOLEAN
    BY <1>0, <2>1
  <2>6. /\ opened' \in 0..MaxSize /\ Opening \in Nat /\ Opening' \in Nat
        /\ opened' + Opening = opened + Opening'
    <3>1. MaxSize \in Nat /\ opened \in 0..MaxSize
      BY <1>0, PoolAssumption
    <3>2. CASE growing \/ ~(opened < MaxSize)
      <4>0. (growing' <=> growing) /\ growing' \in BOOLEAN
        BY <1>0, <2>1, <3>2, Zenon
      <4>1. growing' = growing /\ opened' = opened
        BY <1>0, <2>1, <3>2, <4>0
      <4> QED
        BY <1>0, <3>1, <4>1 DEF Opening
    <3>3. CASE ~growing /\ opened < MaxSize
      <4>1. growing' = TRUE /\ opened' = opened + 1
        BY <2>1, <3>3
      <4> QED
        BY <3>1, <3>3, <4>1 DEF Opening
    <3> QED
      BY <3>2, <3>3
  <2>7. Cardinality(On(session)) \in Nat /\ Cardinality(On(store)) \in Nat
    BY <1>0, FS_CardinalityType DEF Counted
  <2>8. opened' = free' + Cardinality(On(session)) + Cardinality(On(store)) + Opening'
    <3>1. opened = free + Cardinality(On(session)) + Cardinality(On(store)) + Opening /\ free' = free
      BY <1>0, <2>1 DEF Counted
    <3>2. opened \in Nat /\ opened' \in Nat /\ free \in Nat
      BY <1>0, <2>6, PoolAssumption
    <3> QED
      BY <2>6, <2>7, <3>1, <3>2
  <2>9. Counted'
    BY <1>0, <2>3, <2>8 DEF Counted
  <2>10. handler' \in [Handlers -> Steps]
    BY <1>0, <1>1, <2>1
  <2>11. PoolTypes'
    BY <1>0, <2>1, <2>2, <2>5, <2>6, <2>10 DEF PoolTypes
  <2>12. LineFits(waiting, handler)' /\ (waiting # <<>> => free = 0)'
    BY <1>0, <1>3, <2>1, <2>2
  <2> QED
    BY <2>4, <2>9, <2>11, <2>12 DEF PoolInv
<1> QED
  BY <1>2, <1>3

\* What PoolInv says, one fact at a time.
LEMMA PoolFacts ==
  ASSUME PoolInv
  PROVE  /\ opened \in 0..MaxSize /\ free \in Nat /\ growing \in BOOLEAN /\ waiting \in Seq(Handlers)
         /\ session \in [Handlers -> BOOLEAN] /\ store \in [Handlers -> BOOLEAN]
         /\ handler \in [Handlers -> Steps] /\ LineFits(waiting, handler)
         /\ \A k \in Handlers : HandlerFits(k, handler, On(session), On(store))
         /\ waiting # <<>> => free = 0
         /\ IsFiniteSet(On(session)) /\ IsFiniteSet(On(store))
         /\ Cardinality(On(session)) \in Nat /\ Cardinality(On(store)) \in Nat
         /\ Opening \in Nat /\ opened \in Nat /\ MaxSize \in Nat
         /\ opened = free + Cardinality(On(session)) + Cardinality(On(store)) + Opening
<1>1. IsFiniteSet(On(session)) /\ IsFiniteSet(On(store))
  BY DEF PoolInv, Counted
<1>2. Cardinality(On(session)) \in Nat /\ Cardinality(On(store)) \in Nat
  BY <1>1, FS_CardinalityType
<1>3. Opening \in Nat /\ opened \in Nat /\ MaxSize \in Nat
  BY PoolAssumption DEF PoolInv, PoolTypes, Opening
<1> QED
  BY <1>1, <1>2, <1>3 DEF PoolInv, PoolTypes, Counted

\* A connection that has been opened is free or goes to the first in line.
LEMMA GrowHolds ==
  ASSUME PoolInv, Grow
  PROVE  PoolInv'
<1>0. /\ opened \in 0..MaxSize /\ free \in Nat /\ growing \in BOOLEAN /\ waiting \in Seq(Handlers)
      /\ session \in [Handlers -> BOOLEAN] /\ store \in [Handlers -> BOOLEAN]
      /\ handler \in [Handlers -> Steps] /\ LineFits(waiting, handler)
      /\ \A k \in Handlers : HandlerFits(k, handler, On(session), On(store))
      /\ waiting # <<>> => free = 0
      /\ IsFiniteSet(On(session)) /\ IsFiniteSet(On(store))
      /\ Cardinality(On(session)) \in Nat /\ Cardinality(On(store)) \in Nat
      /\ Opening \in Nat /\ opened \in Nat /\ MaxSize \in Nat
      /\ opened = free + Cardinality(On(session)) + Cardinality(On(store)) + Opening
  BY PoolFacts
<1>1. growing = TRUE /\ Opening = 1
  BY <1>0 DEF Grow, Opening
<1>2. CASE waiting = <<>>
  <2>1. free' = free + 1 /\ growing' = FALSE /\ UNCHANGED <<opened, waiting, session, store, handler>>
    BY <1>2 DEF Grow
  <2>2. On(session)' = On(session) /\ On(store)' = On(store) /\ Opening' = 0
    BY <2>1 DEF On, Opening
  <2>3. opened' = free + Cardinality(On(session)') + Cardinality(On(store)') + 1 + Opening'
    BY <1>0, <1>1, <2>1, <2>2
  <2>4. LineFits(waiting, handler)' /\ (waiting' # <<>> => free = 0)
    BY <1>0, <1>2, <2>1
  <2>5. \A k \in Handlers : HandlerFits(k, handler, On(session), On(store))'
    BY <1>0, <2>1, <2>2 DEF HandlerFits
  <2>6. Counted'
    BY <1>0, <1>1, <2>1, <2>2, <2>3 DEF Counted
  <2>7. PoolTypes'
    <3>1. (free \in Nat)' /\ (growing \in BOOLEAN)'
      <4>1. free \in Nat /\ free' = free + 1 /\ growing' = FALSE
        BY <1>0, <2>1
      <4>2. free' \in Nat
        BY <4>1
      <4> QED
        BY <4>1, <4>2
    <3>2. (opened \in 0..MaxSize)' /\ (waiting \in Seq(Handlers))' /\ (handler \in [Handlers -> Steps])'
      BY <1>0, <2>1
    <3>3. (session \in [Handlers -> BOOLEAN])' /\ (store \in [Handlers -> BOOLEAN])'
      BY <1>0, <2>1
    <3> QED
      BY <3>1, <3>2, <3>3 DEF PoolTypes
  <2> QED
    BY <1>2, <2>1, <2>4, <2>5, <2>6, <2>7 DEF PoolInv
<1>3. CASE waiting # <<>>
  <2> DEFINE first == Head(waiting)
  <2>1. /\ session' = [session EXCEPT ![first] = @ \/ handler[first] = "forSession"]
        /\ store' = [store EXCEPT ![first] = @ \/ handler[first] = "forStore"]
        /\ handler' = [handler EXCEPT ![first] = "running"]
        /\ waiting' = Tail(waiting) /\ free' = free
        /\ growing' = (Len(waiting) > 1 /\ opened < MaxSize)
        /\ opened' = IF growing' THEN opened + 1 ELSE opened
    BY <1>3 DEF Grow, Handed
  <2>2. first \in Handlers
    BY <1>0, <1>3
  <2> HIDE DEF first
  <2>3. /\ session' \in [Handlers -> BOOLEAN] /\ store' \in [Handlers -> BOOLEAN]
        /\ On(session)' = IF handler[first] = "forSession" THEN On(session) \cup {first} ELSE On(session)
        /\ On(store)' = IF handler[first] = "forStore" THEN On(store) \cup {first} ELSE On(store)
    <3>1. \A k \in Handlers : /\ session'[k] <=> (session[k] \/ (k = first /\ handler[first] = "forSession"))
                              /\ store'[k] <=> (store[k] \/ (k = first /\ handler[first] = "forStore"))
      BY <1>0, <2>1
    <3>2. session' \in [Handlers -> BOOLEAN] /\ store' \in [Handlers -> BOOLEAN]
      BY <1>0, <2>1
    <3> QED
      BY <1>0, <2>2, <3>1, <3>2 DEF On
  <2>4. growing' \in BOOLEAN
    BY <2>1
  <2>5. opened' \in 0..MaxSize /\ opened' = opened + Opening'
    <3>1. CASE growing' = TRUE
      <4>1. opened < MaxSize
        BY <2>1, <3>1, Zenon
      <4>2. opened' = opened + 1 /\ Opening' = 1
        BY <2>1, <3>1, Zenon DEF Opening
      <4> QED
        BY <1>0, <4>1, <4>2
    <3>2. CASE growing' = FALSE
      <4>1. opened' = opened /\ Opening' = 0
        BY <2>1, <3>2, Zenon DEF Opening
      <4> QED
        BY <1>0, <4>1
    <3> QED
      BY <2>4, <3>1, <3>2
  <2>6. Opening' \in Nat
    BY DEF Opening
  <2>7. opened' = free + Cardinality(On(session)) + Cardinality(On(store)) + 1 + Opening'
    BY <1>0, <1>1, <2>5, <2>6
  <2>8. free = 0 /\ first = Head(waiting)
    BY <1>0, <1>3 DEF first
  <2> QED
    BY <1>0, <1>3, <2>1, <2>3, <2>4, <2>5, <2>7, <2>8, HandedOn
<1> QED
  BY <1>2, <1>3

\* Whom n = 0 or 1 connections that come back are handed to.
LEMMA ServedFirst ==
  ASSUME NEW n \in {0, 1}, waiting \in Seq(Handlers)
  PROVE  /\ n = 0 \/ waiting = <<>> => /\ Served(n) = {} /\ Cardinality(Served(n)) = 0
                                       /\ SubSeq(waiting, 1, Len(waiting)) = waiting
         /\ n = 1 /\ waiting # <<>> => /\ Served(n) = {Head(waiting)} /\ Cardinality(Served(n)) = 1
                                       /\ SubSeq(waiting, 2, Len(waiting)) = Tail(waiting)
<1>1. Len(waiting) \in Nat /\ (waiting = <<>> <=> Len(waiting) = 0)
  OBVIOUS
<1>2. CASE n = 0 \/ waiting = <<>>
  <2>1. (IF n < Len(waiting) THEN n ELSE Len(waiting)) = 0
    BY <1>1, <1>2
  <2>2. Served(n) = {waiting[i] : i \in 1..0}
    BY <2>1 DEF Served
  <2>3. Served(n) = {}
    BY <2>2
  <2>4. Cardinality(Served(n)) = 0
    BY <2>3, FS_EmptySet
  <2>5. SubSeq(waiting, 1, Len(waiting)) = waiting
    OBVIOUS
  <2> QED
    BY <1>1, <1>2, <2>3, <2>4, <2>5
<1>3. CASE n = 1 /\ waiting # <<>>
  <2>1. (IF n < Len(waiting) THEN n ELSE Len(waiting)) = 1
    <3>1. n = 1 /\ (Len(waiting) = 1 \/ 1 < Len(waiting))
      BY <1>1, <1>3
    <3> QED
      BY <3>1
  <2>2. Served(n) = {waiting[i] : i \in 1..1}
    BY <2>1 DEF Served
  <2>3. Served(n) = {Head(waiting)}
    BY <1>3, <2>2
  <2>4. Cardinality(Served(n)) = 1
    BY <2>3, FS_Singleton
  <2>5. SubSeq(waiting, 2, Len(waiting)) = Tail(waiting)
    BY <1>3
  <2> QED
    BY <1>3, <2>3, <2>4, <2>5
<1> QED
  BY <1>2, <1>3

\* What a request gives back, and never two at once, is free or handed on.
LEMMA GiveBackHolds ==
  ASSUME PoolInv, NEW h \in Handlers, handler[h] = "running",
         NEW sessions \in BOOLEAN, NEW stores \in BOOLEAN, NEW to \in {"running"} \cup Ended,
         ~(session[h] /\ sessions /\ store[h] /\ stores),
         to \in Ended => (session[h] => sessions) /\ (store[h] => stores),
         GiveBack(h, sessions, stores, to)
  PROVE  PoolInv'
<1>0. /\ opened \in 0..MaxSize /\ free \in Nat /\ growing \in BOOLEAN /\ waiting \in Seq(Handlers)
      /\ session \in [Handlers -> BOOLEAN] /\ store \in [Handlers -> BOOLEAN]
      /\ handler \in [Handlers -> Steps] /\ LineFits(waiting, handler)
      /\ \A k \in Handlers : HandlerFits(k, handler, On(session), On(store))
      /\ waiting # <<>> => free = 0
      /\ IsFiniteSet(On(session)) /\ IsFiniteSet(On(store))
      /\ Cardinality(On(session)) \in Nat /\ Cardinality(On(store)) \in Nat
      /\ Opening \in Nat /\ opened \in Nat /\ MaxSize \in Nat
      /\ opened = free + Cardinality(On(session)) + Cardinality(On(store)) + Opening
  BY PoolFacts
<1> DEFINE a == IF session[h] /\ sessions THEN 1 ELSE 0
           b == IF store[h] /\ stores THEN 1 ELSE 0
           n == a + b
           S0 == IF sessions THEN On(session) \ {h} ELSE On(session)
           T0 == IF stores THEN On(store) \ {h} ELSE On(store)
           base == [handler EXCEPT ![h] = to]
<1>1. /\ session' = [k \in Handlers |->
            IF k = h THEN session[h] /\ ~sessions
            ELSE session[k] \/ (k \in Served(n) /\ handler[k] = "forSession")]
      /\ store' = [k \in Handlers |->
            IF k = h THEN store[h] /\ ~stores
            ELSE store[k] \/ (k \in Served(n) /\ handler[k] = "forStore")]
      /\ handler' = [k \in Handlers |->
            IF k = h THEN to ELSE IF k \in Served(n) THEN "running" ELSE handler[k]]
      /\ free' = free + n - Cardinality(Served(n))
      /\ waiting' = SubSeq(waiting, Cardinality(Served(n)) + 1, Len(waiting))
      /\ UNCHANGED <<opened, growing>>
  BY DEF GiveBack
<1>2. /\ n \in {0, 1} /\ IsFiniteSet(S0) /\ IsFiniteSet(T0)
      /\ Cardinality(S0) \in Nat /\ Cardinality(T0) \in Nat
      /\ Cardinality(S0) + Cardinality(T0) + n = Cardinality(On(session)) + Cardinality(On(store))
  <2>1. IsFiniteSet(S0) /\ Cardinality(S0) \in Nat /\ a \in Nat /\ Cardinality(S0) + a = Cardinality(On(session))
    <3>1. CASE session[h] /\ sessions
      <4>1. S0 = On(session) \ {h} /\ h \in On(session) /\ a = 1
        BY <3>1 DEF On
      <4>2. /\ IsFiniteSet(On(session) \ {h})
            /\ Cardinality(On(session) \ {h}) = Cardinality(On(session)) - 1
        BY <1>0, <4>1, OneMoreOrLess
      <4>3. Cardinality(On(session) \ {h}) \in Nat
        BY <4>2, FS_CardinalityType
      <4> HIDE DEF S0, a
      <4> QED
        BY <1>0, <4>1, <4>2, <4>3
    <3>2. CASE ~(session[h] /\ sessions)
      <4>1. S0 = On(session) /\ a = 0
        BY <3>2 DEF On
      <4> HIDE DEF S0, a
      <4> QED
        BY <1>0, <4>1
    <3> QED
      BY <3>1, <3>2
  <2>2. IsFiniteSet(T0) /\ Cardinality(T0) \in Nat /\ b \in Nat /\ Cardinality(T0) + b = Cardinality(On(store))
    <3>1. CASE store[h] /\ stores
      <4>1. T0 = On(store) \ {h} /\ h \in On(store) /\ b = 1
        BY <3>1 DEF On
      <4>2. /\ IsFiniteSet(On(store) \ {h})
            /\ Cardinality(On(store) \ {h}) = Cardinality(On(store)) - 1
        BY <1>0, <4>1, OneMoreOrLess
      <4>3. Cardinality(On(store) \ {h}) \in Nat
        BY <4>2, FS_CardinalityType
      <4> HIDE DEF T0, b
      <4> QED
        BY <1>0, <4>1, <4>2, <4>3
    <3>2. CASE ~(store[h] /\ stores)
      <4>1. T0 = On(store) /\ b = 0
        BY <3>2 DEF On
      <4> HIDE DEF T0, b
      <4> QED
        BY <1>0, <4>1
    <3> QED
      BY <3>1, <3>2
  <2>3. n \in {0, 1}
    OBVIOUS
  <2> HIDE DEF S0, T0, a, b
  <2> QED
    BY <2>1, <2>2, <2>3
<1>3. h \in Handlers /\ handler[h] \notin Waits /\ to \in Steps \ Waits
  BY DEF Steps, Waits, Ended
<1>4. base \in [Handlers -> Steps] /\ LineFits(waiting, base)
  BY <1>0, <1>3, LineKept
<1>5. \A k \in Handlers : HandlerFits(k, base, S0, T0)
  <2> TAKE k \in Handlers
  <2>1. CASE k = h
    <3>1. base[k] = to
      BY <1>0, <2>1
    <3>2. to \in Ended => k \notin S0 /\ k \notin T0
      BY <2>1 DEF On
    <3>3. to \notin {"new", "forSession", "forStore"}
      BY DEF Ended
    <3> HIDE DEF S0, T0
    <3> QED
      BY <3>1, <3>2, <3>3 DEF HandlerFits
  <2>2. CASE k # h
    <3>1. base[k] = handler[k] /\ (k \in S0 => k \in On(session)) /\ (k \in T0 => k \in On(store))
      BY <1>0, <2>2
    <3>2. HandlerFits(k, handler, On(session), On(store))
      BY <1>0
    <3> HIDE DEF S0, T0, base
    <3> QED
      BY <3>1, <3>2 DEF HandlerFits
  <2> QED
    BY <2>1, <2>2
<1>6. session' \in [Handlers -> BOOLEAN] /\ store' \in [Handlers -> BOOLEAN]
  <2>1. \A k \in Handlers : session[k] \in BOOLEAN /\ store[k] \in BOOLEAN
    BY <1>0
  <2> HIDE DEF n
  <2> QED
    BY <1>1, <2>1
<1>7. /\ \A k \in Handlers : session'[k] <=> (k \in S0 \/ (k # h /\ k \in Served(n) /\ handler[k] = "forSession"))
      /\ \A k \in Handlers : store'[k] <=> (k \in T0 \/ (k # h /\ k \in Served(n) /\ handler[k] = "forStore"))
  <2> HIDE DEF n
  <2> QED
    BY <1>1 DEF On
<1>8. /\ \A k \in S0 : k \in Handlers
      /\ \A k \in T0 : k \in Handlers
  BY DEF On
<1>9. /\ opened' \in 0..MaxSize /\ growing' \in BOOLEAN /\ Opening' = Opening
      /\ opened' = free + Cardinality(S0) + Cardinality(T0) + n + Opening'
  <2>1. opened' = opened /\ growing' = growing /\ Opening' = Opening
    BY <1>1 DEF Opening
  <2> HIDE DEF S0, T0, n
  <2>2. opened = free + Cardinality(S0) + Cardinality(T0) + n + Opening
    <3>1. /\ opened = free + Cardinality(On(session)) + Cardinality(On(store)) + Opening
          /\ free \in Nat /\ Opening \in Nat
          /\ Cardinality(On(session)) \in Nat /\ Cardinality(On(store)) \in Nat
      BY <1>0
    <3>2. /\ Cardinality(S0) \in Nat /\ Cardinality(T0) \in Nat /\ n \in Nat
          /\ Cardinality(S0) + Cardinality(T0) + n = Cardinality(On(session)) + Cardinality(On(store))
      BY <1>2
    <3> QED
      BY <3>1, <3>2
  <2> QED
    BY <1>0, <2>1, <2>2
<1> HIDE DEF S0, T0, n
<1>10. CASE n = 0 \/ waiting = <<>>
  <2>1. Served(n) = {} /\ free' = free + n /\ waiting' = waiting
    <3>1. Served(n) = {} /\ Cardinality(Served(n)) = 0 /\ SubSeq(waiting, 1, Len(waiting)) = waiting
      BY <1>0, <1>2, <1>10, ServedFirst
    <3>2. free' = free + n - 0 /\ waiting' = SubSeq(waiting, 0 + 1, Len(waiting)) /\ n \in Nat
      BY <1>1, <1>2, <3>1
    <3> QED
      BY <1>0, <3>1, <3>2
  <2>2. handler' = base
    BY <1>0, <1>1, <2>1
  <2> HIDE DEF base
  <2>3. On(session)' = S0 /\ On(store)' = T0
    BY <1>7, <1>8, <2>1 DEF On
  <2>4. LineFits(waiting, handler)' /\ (waiting' # <<>> => free = 0)
    BY <1>0, <1>4, <2>1, <2>2
  <2>5. \A k \in Handlers : HandlerFits(k, handler, On(session), On(store))'
    BY <1>5, <2>2, <2>3
  <2>6. (waiting # <<>> => free = 0)'
    BY <1>0, <1>2, <1>10, <2>1
  <2>7. Counted'
    <3>1. free \in Nat /\ n \in Nat /\ Opening' \in Nat
      BY <1>0, <1>2, <1>9
    <3>2. opened' = free' + Cardinality(S0) + Cardinality(T0) + Opening'
      BY <1>2, <1>9, <2>1, <3>1
    <3> QED
      BY <1>2, <2>3, <3>2 DEF Counted
  <2>8. PoolTypes'
    <3>1. free' \in Nat
      BY <1>0, <1>2, <2>1
    <3> QED
      BY <1>0, <1>4, <1>6, <1>9, <2>1, <2>2, <3>1 DEF PoolTypes
  <2> QED
    BY <2>4, <2>5, <2>6, <2>7, <2>8 DEF PoolInv
<1>11. CASE n = 1 /\ waiting # <<>>
  <2> DEFINE first == Head(waiting)
  <2>1. /\ Served(n) = {first} /\ free' = free /\ waiting' = Tail(waiting) /\ free = 0
    <3>1. /\ Served(n) = {first} /\ Cardinality(Served(n)) = 1
          /\ SubSeq(waiting, 2, Len(waiting)) = Tail(waiting)
      BY <1>0, <1>2, <1>11, ServedFirst
    <3>2. free' = free + 1 - 1 /\ waiting' = SubSeq(waiting, 1 + 1, Len(waiting))
      BY <1>1, <1>11, <3>1
    <3> QED
      BY <1>0, <1>11, <3>1, <3>2
  <2>2. first \in Handlers /\ handler[first] \in Waits /\ first # h
    <3>1. first \in Handlers /\ 1 \in 1..Len(waiting) /\ waiting[1] = first
      BY <1>0, <1>11
    <3>2. handler[first] \in Waits
      BY <1>0, <3>1 DEF LineFits
    <3> QED
      BY <1>3, <3>1, <3>2
  <2> HIDE DEF first
  <2>3. handler' = [base EXCEPT ![first] = "running"] /\ base[first] = handler[first]
    BY <1>0, <1>1, <2>1, <2>2
  <2> HIDE DEF base
  <2>4. /\ On(session)' = IF base[first] = "forSession" THEN S0 \cup {first} ELSE S0
        /\ On(store)' = IF base[first] = "forStore" THEN T0 \cup {first} ELSE T0
    BY <1>7, <1>8, <2>1, <2>2, <2>3 DEF On
  <2>5. first = Head(waiting) /\ waiting # <<>>
    BY <1>11 DEF first
  <2>6. opened' = free + Cardinality(S0) + Cardinality(T0) + 1 + Opening'
    BY <1>9, <1>11
  <2> QED
    BY <1>0, <1>2, <1>4, <1>5, <1>6, <1>9, <2>1, <2>3, <2>4, <2>5, <2>6, HandedOn
<1> QED
  BY <1>2, <1>10, <1>11

\* A request that has waited too long leaves the line, and its session's
\* connection is free or handed on.
LEMMA TimeOutHolds ==
  ASSUME PoolInv, NEW h \in Handlers, TimeOut(h)
  PROVE  PoolInv'
<1>0. /\ opened \in 0..MaxSize /\ free \in Nat /\ growing \in BOOLEAN /\ waiting \in Seq(Handlers)
      /\ session \in [Handlers -> BOOLEAN] /\ store \in [Handlers -> BOOLEAN]
      /\ handler \in [Handlers -> Steps] /\ LineFits(waiting, handler)
      /\ \A k \in Handlers : HandlerFits(k, handler, On(session), On(store))
      /\ waiting # <<>> => free = 0
      /\ IsFiniteSet(On(session)) /\ IsFiniteSet(On(store))
      /\ Cardinality(On(session)) \in Nat /\ Cardinality(On(store)) \in Nat
      /\ Opening \in Nat /\ opened \in Nat /\ MaxSize \in Nat
      /\ opened = free + Cardinality(On(session)) + Cardinality(On(store)) + Opening
  BY PoolFacts
<1>1. PICK i \in DOMAIN waiting : waiting[i] = h /\
        LET left == RemoveAt(waiting, i)
            passed == session[h] /\ left # <<>>
            next == Head(left)
        IN /\ session' = [k \in Handlers |->
                  IF k = h THEN FALSE
                  ELSE session[k] \/ (passed /\ k = next /\ handler[k] = "forSession")]
           /\ store' = [k \in Handlers |->
                  store[k] \/ (passed /\ k = next /\ handler[k] = "forStore")]
           /\ handler' = [k \in Handlers |->
                  IF k = h THEN "failed" ELSE IF passed /\ k = next THEN "running" ELSE handler[k]]
           /\ waiting' = IF passed THEN Tail(left) ELSE left
           /\ free' = IF session[h] /\ ~passed THEN free + 1 ELSE free
  BY DEF TimeOut
<1>2. i \in 1..Len(waiting) /\ opened' = opened /\ growing' = growing /\ Opening' = Opening
  BY <1>0 DEF TimeOut, Opening
<1> DEFINE left == RemoveAt(waiting, i)
           passed == session[h] /\ left # <<>>
           first == Head(left)
           base == [handler EXCEPT ![h] = "failed"]
           S0 == On(session) \ {h}
           n == IF session[h] THEN 1 ELSE 0
<1>3. "failed" \in Steps \ Waits
  BY DEF Steps, Waits, Ended
<1>4. left \in Seq(Handlers) /\ LineFits(left, base) /\ base \in [Handlers -> Steps] /\ handler[h] \in Waits
  <2>1. waiting[i] = h
    BY <1>1
  <2>2. h \in Handlers /\ handler[h] \in Waits /\ RemoveAt(waiting, i) \in Seq(Handlers)
        /\ LineFits(RemoveAt(waiting, i), [handler EXCEPT ![h] = "failed"])
    BY <1>0, <1>2, <1>3, <2>1, LineLeft
  <2> QED
    BY <1>0, <1>3, <2>2
<1>5. waiting # <<>> /\ free = 0
  BY <1>0, <1>2
<1>6. h \notin On(store)
  BY <1>0, <1>4 DEF HandlerFits, Waits
<1>7. /\ n \in {0, 1} /\ (session[h] <=> n = 1) /\ IsFiniteSet(S0) /\ Cardinality(S0) \in Nat
      /\ Cardinality(S0) + n = Cardinality(On(session))
  <2>1. CASE session[h]
    <3>1. /\ h \in On(session) /\ n = 1 /\ IsFiniteSet(S0)
          /\ Cardinality(S0) = Cardinality(On(session)) - 1
      BY <1>0, <2>1, OneMoreOrLess DEF On
    <3>2. Cardinality(S0) \in Nat
      BY <3>1, FS_CardinalityType
    <3> HIDE DEF S0, n
    <3> QED
      BY <1>0, <2>1, <3>1, <3>2
  <2>2. CASE ~session[h]
    <3>1. S0 = On(session) /\ n = 0
      BY <2>2 DEF On
    <3> HIDE DEF S0, n
    <3> QED
      BY <1>0, <2>2, <3>1
  <2> QED
    BY <2>1, <2>2
<1>8. \A k \in Handlers : HandlerFits(k, base, S0, On(store))
  <2> TAKE k \in Handlers
  <2>1. CASE k = h
    BY <1>0, <1>6, <2>1 DEF HandlerFits
  <2>2. CASE k # h
    <3>1. base[k] = handler[k] /\ (k \in S0 => k \in On(session))
      BY <1>0, <2>2
    <3>2. HandlerFits(k, handler, On(session), On(store))
      BY <1>0
    <3> HIDE DEF S0, base
    <3> QED
      BY <3>1, <3>2 DEF HandlerFits
  <2> QED
    BY <2>1, <2>2
<1>9. /\ session' = [k \in Handlers |->
            IF k = h THEN FALSE
            ELSE session[k] \/ (passed /\ k = first /\ handler[k] = "forSession")]
      /\ store' = [k \in Handlers |->
            store[k] \/ (passed /\ k = first /\ handler[k] = "forStore")]
      /\ handler' = [k \in Handlers |->
            IF k = h THEN "failed" ELSE IF passed /\ k = first THEN "running" ELSE handler[k]]
      /\ waiting' = IF passed THEN Tail(left) ELSE left
      /\ free' = IF session[h] /\ ~passed THEN free + 1 ELSE free
  BY <1>1
<1>10. passed <=> session[h] /\ left # <<>>
  OBVIOUS
<1>11. first = Head(left)
  OBVIOUS
<1>12. opened' = free + Cardinality(S0) + Cardinality(On(store)) + n + Opening'
  <2>1. /\ opened = free + Cardinality(On(session)) + Cardinality(On(store)) + Opening
        /\ free \in Nat /\ Opening \in Nat /\ Cardinality(On(store)) \in Nat
    BY <1>0
  <2> HIDE DEF S0, n
  <2> QED
    BY <1>2, <1>7, <2>1
<1> HIDE DEF left, passed, first, n
<1>13. session' \in [Handlers -> BOOLEAN] /\ store' \in [Handlers -> BOOLEAN]
  <2>1. \A k \in Handlers : session[k] \in BOOLEAN /\ store[k] \in BOOLEAN
    BY <1>0
  <2> QED
    BY <1>9, <2>1
<1>14. /\ \A k \in Handlers : session'[k] <=> (k \in S0 \/ (k # h /\ passed /\ k = first /\ handler[k] = "forSession"))
       /\ \A k \in Handlers : store'[k] <=> (k \in On(store) \/ (passed /\ k = first /\ handler[k] = "forStore"))
       /\ \A k \in S0 : k \in Handlers
  BY <1>9 DEF On
<1> HIDE DEF S0
<1>15. CASE passed
  <2>1. /\ first \in Handlers /\ base[first] \in Waits /\ first # h /\ left # <<>>
    <3>1. left # <<>> /\ first \in Handlers /\ 1 \in 1..Len(left) /\ left[1] = first
      BY <1>4, <1>10, <1>11, <1>15
    <3>2. base[first] \in Waits
      BY <1>4, <3>1 DEF LineFits
    <3>3. base[h] \notin Waits
      BY <1>0, <1>3
    <3> HIDE DEF base
    <3> QED
      BY <3>1, <3>2, <3>3
  <2>2. handler' = [base EXCEPT ![first] = "running"] /\ base[first] = handler[first]
    BY <1>0, <1>9, <1>15, <2>1
  <2> HIDE DEF base
  <2>3. /\ On(session)' = IF base[first] = "forSession" THEN S0 \cup {first} ELSE S0
        /\ On(store)' = IF base[first] = "forStore" THEN On(store) \cup {first} ELSE On(store)
    BY <1>14, <1>15, <2>1, <2>2 DEF On
  <2>4. waiting' = Tail(left) /\ free' = free /\ n = 1
    BY <1>7, <1>9, <1>10, <1>15
  <2>5. opened' = free + Cardinality(S0) + Cardinality(On(store)) + 1 + Opening'
    BY <1>12, <2>4
  <2> QED
    BY <1>0, <1>2, <1>4, <1>5, <1>7, <1>8, <1>11, <1>13, <2>1, <2>2, <2>3, <2>4, <2>5, HandedOn
<1>16. CASE ~passed
  <2>1. handler' = base
    BY <1>0, <1>9, <1>16
  <2> HIDE DEF base
  <2>2. On(session)' = S0 /\ On(store)' = On(store)
    BY <1>14, <1>16 DEF On
  <2>3. waiting' = left /\ free' = free + n /\ (n = 1 => left = <<>>)
    <3>1. waiting' = left /\ (n = 1 => left = <<>>)
      BY <1>7, <1>9, <1>10, <1>16
    <3>2. CASE session[h]
      BY <1>7, <1>9, <1>16, <3>1, <3>2
    <3>3. CASE ~session[h]
      <4>1. free' = free /\ n = 0 /\ free \in Nat
        BY <1>0, <1>7, <1>9, <3>3
      <4> QED
        BY <3>1, <4>1
    <3> QED
      BY <3>2, <3>3
  <2>4. Counted'
    <3>1. free \in Nat /\ n \in Nat /\ Opening' \in Nat /\ Cardinality(On(store)) \in Nat
      BY <1>0, <1>2, <1>7
    <3>2. opened' = free' + Cardinality(S0) + Cardinality(On(store)) + Opening'
      BY <1>7, <1>12, <2>3, <3>1
    <3>3. IsFiniteSet(S0) /\ IsFiniteSet(On(store))
      BY <1>0, <1>7
    <3> QED
      BY <2>2, <3>2, <3>3 DEF Counted
  <2>5. PoolTypes'
    <3>1. free' \in Nat
      BY <1>0, <1>7, <2>3
    <3>2. opened' \in 0..MaxSize /\ growing' \in BOOLEAN
      BY <1>0, <1>2
    <3> QED
      BY <1>4, <1>13, <2>1, <2>3, <3>1, <3>2 DEF PoolTypes
  <2>6. LineFits(waiting, handler)'
    BY <1>4, <2>1, <2>3
  <2>7. \A k \in Handlers : HandlerFits(k, handler, On(session), On(store))'
    BY <1>8, <2>1, <2>2
  <2>8. (waiting # <<>> => free = 0)'
    BY <1>5, <1>7, <2>3
  <2> QED
    BY <2>4, <2>5, <2>6, <2>7, <2>8 DEF PoolInv
<1> QED
  BY <1>15, <1>16

\* At the start everything is free and nobody waits.
LEMMA PoolBegins ==
  ASSUME PoolInit
  PROVE  PoolInv
<1>1. On(session) = {} /\ On(store) = {} /\ Opening = 0
  BY DEF PoolInit, On, Opening
<1>2. IsFiniteSet({}) /\ Cardinality({}) = 0
  BY FS_EmptySet
<1>3. MinSize \in Nat /\ MaxSize \in Nat /\ MinSize <= MaxSize
  BY PoolAssumption
<1>4. Counted
  <2>1. opened = free /\ free \in Nat
    BY <1>3 DEF PoolInit
  <2>2. opened = free + 0 + 0 + 0
    BY <2>1
  <2> QED
    BY <1>1, <1>2, <2>2 DEF Counted
<1>5. \A h \in Handlers : HandlerFits(h, handler, On(session), On(store))
  BY <1>1 DEF HandlerFits
<1>6. LineFits(waiting, handler)
  BY DEF PoolInit, LineFits, Waits
<1>7. PoolTypes
  <2>1. opened \in 0..MaxSize /\ free \in Nat
    BY <1>3 DEF PoolInit
  <2>2. growing \in BOOLEAN /\ waiting \in Seq(Handlers) /\ handler \in [Handlers -> Steps]
    <3>1. "new" \in Steps
      BY DEF Steps
    <3>2. growing = FALSE /\ waiting = <<>> /\ handler = [h \in Handlers |-> "new"]
      BY DEF PoolInit
    <3>3. <<>> \in Seq(Handlers)
      OBVIOUS
    <3>4. [h \in Handlers |-> "new"] \in [Handlers -> Steps]
      BY <3>1
    <3> QED
      BY <3>2, <3>3, <3>4
  <2>3. session \in [Handlers -> BOOLEAN] /\ store \in [Handlers -> BOOLEAN]
    BY DEF PoolInit
  <2> QED
    BY <2>1, <2>2, <2>3 DEF PoolTypes
<1> QED
  BY <1>4, <1>5, <1>6, <1>7 DEF PoolInv, PoolInit

\* Every step of the pool or of a request keeps the invariant.
LEMMA PoolGoesOn ==
  ASSUME PoolInv, PoolNext
  PROVE  PoolInv'
<1>1. CASE Grow
  BY <1>1, GrowHolds
<1>2. ASSUME NEW h \in Handlers, Handle(h)
      PROVE  PoolInv'
  <2>0. /\ \A k \in Handlers : HandlerFits(k, handler, On(session), On(store))
        /\ session[h] \in BOOLEAN /\ store[h] \in BOOLEAN
    BY PoolFacts
  <2>1. CASE Begin(h)
    BY <2>1, BeginHolds
  <2>2. CASE OpenTransaction(h)
    <3>1. /\ handler[h] = "running" /\ h \notin On(store) /\ h \notin On(session) /\ "forSession" \in Waits
          /\ Acquire(h, "forSession")
      BY <2>2 DEF OpenTransaction, On, Waits
    <3> QED
      BY <3>1, AcquireHolds
  <2>3. CASE CallStore(h)
    <3>1. /\ handler[h] = "running" /\ h \notin On(store) /\ "forStore" \in Waits
          /\ Acquire(h, "forStore")
      BY <2>3 DEF CallStore, On, Waits
    <3> QED
      BY <3>1, AcquireHolds
  <2>4. CASE Commit(h)
    <3>1. /\ handler[h] = "running" /\ ~store[h] /\ "running" \notin Ended
          /\ GiveBack(h, TRUE, FALSE, "running")
      BY <2>4 DEF Commit, Ended
    <3> QED
      BY <3>1, GiveBackHolds
  <2>5. CASE LeaveStore(h)
    <3>1. /\ handler[h] = "running" /\ "running" \notin Ended
          /\ GiveBack(h, FALSE, TRUE, "running")
      BY <2>5 DEF LeaveStore, Ended
    <3> QED
      BY <3>1, GiveBackHolds
  <2>6. CASE TearDown(h)
    <3>1. PICK outcome \in Ended : GiveBack(h, TRUE, TRUE, outcome)
      BY <2>6 DEF TearDown
    <3>2. handler[h] = "running" /\ ~store[h]
      BY <2>6 DEF TearDown
    <3> QED
      BY <3>1, <3>2, GiveBackHolds
  <2>7. CASE TimeOut(h)
    BY <2>7, TimeOutHolds
  <2> QED
    BY <1>2, <2>1, <2>2, <2>3, <2>4, <2>5, <2>6, <2>7 DEF Handle
<1> QED
  BY <1>1, <1>2 DEF PoolNext

\* A step that is none of these changes nothing.
LEMMA PoolStaysPut ==
  ASSUME PoolInv, UNCHANGED poolVars
  PROVE  PoolInv'
<1> USE DEF poolVars
<1>1. On(session)' = On(session) /\ On(store)' = On(store) /\ Opening' = Opening
  BY DEF On, Opening
<1>2. \A h \in Handlers : HandlerFits(h, handler, On(session), On(store))'
  BY <1>1 DEF PoolInv, HandlerFits
<1>3. Counted'
  BY <1>1 DEF PoolInv, Counted
<1>4. LineFits(waiting, handler)'
  BY DEF PoolInv
<1>5. PoolTypes'
  BY DEF PoolInv, PoolTypes
<1> QED
  BY <1>2, <1>3, <1>4, <1>5 DEF PoolInv

\* The inductive invariant of the pool holds, whatever its size and however
\* many requests use it.
THEOREM PoolAlways == PoolSpec => []PoolInv
<1>1. PoolInit => PoolInv
  BY PoolBegins
<1>2. PoolInv /\ [PoolNext]_poolVars => PoolInv'
  BY PoolGoesOn, PoolStaysPut
<1> QED
  BY <1>1, <1>2, PTL DEF PoolSpec

\* No connection is lost or lent twice, whoever waits, times out or is cut
\* off; an ended request keeps none; nobody waits while one is free.
THEOREM NoConnectionIsLost == PoolSpec => []ConnectionsComeBack
<1>1. PoolInv => ConnectionsComeBack
  <2> SUFFICES ASSUME PoolInv PROVE ConnectionsComeBack
    OBVIOUS
  <2>1. On(session) = {h \in Handlers : session[h]} /\ On(store) = {h \in Handlers : store[h]}
    BY DEF On
  <2>2. opened = free + Cardinality(On(session)) + Cardinality(On(store)) + (IF growing THEN 1 ELSE 0)
    BY DEF PoolInv, Counted, Opening
  <2>3. \A h \in Handlers : handler[h] \in Ended => h \notin On(session) /\ h \notin On(store)
    BY DEF PoolInv, HandlerFits
  <2>4. \A h \in Handlers : handler[h] \in Ended => ~session[h] /\ ~store[h]
    BY <2>1, <2>3
  <2>5. waiting # <<>> => free = 0
    BY DEF PoolInv
  <2> QED
    BY <2>1, <2>2, <2>4, <2>5, Zenon DEF ConnectionsComeBack
<1> QED
  BY <1>1, PoolAlways, PTL

-----------------------------------------------------------------------------
(***************************************************************************)
(* The tests of a request.  What it carries does not change, and each test *)
(* that it has passed leaves something that holds from there on.           *)
(***************************************************************************)
HarmShows(files) == \A k \in DOMAIN files : files[k].harmful => ImageViolations(files[k]) # {}

\* What a request carries, the model it names and who sends it.
Carried ==
  /\ caller.authorization \in {"absent", "valid", "stale", "invalid"}
  /\ caller.anonymousId \in {None, NoId, GuestId} /\ caller.bypasser \in BOOLEAN
  /\ config.lower \in Nat /\ config.default \in Nat /\ config.upper \in Nat
  /\ "files" \in DOMAIN request /\ DOMAIN request.files \subseteq Nat /\ HarmShows(request.files)

Verdicts == {"safe", "unsafe", "unknown"}

\* The tests that come after another.
PastImages == {"conclude"}
PastVideos == {"images"} \cup PastImages
PastText == {"kinds", "videos"} \cup PastVideos
PastPermission == {"text"} \cup PastText
PastLimits == {"captcha", "permission"} \cup PastPermission
PastMerge == {"model", "files", "parameters"} \cup PastLimits

OptionsMerged == options = Merged(Asked)
OptionsLimited == IsWithinLimits(options)
TextTold == verdict.text = "unsafe" \/ (Asked.content # None /\ Violations(Asked.content) # {} => verdict.text = "unknown")
VideosTold == verdict.videos /\ settings.blockingVideoCheck => \A k \in Declared("video") : ~Asked.files[k].harmful
ImagesTold == verdict.images = "unsafe" \/ \A k \in Declared("image") : Asked.files[k].harmful => k > verdict.seen

TestsInv ==
  /\ Carried
  /\ verdict \in [text : Verdicts, images : Verdicts, seen : Nat, videos : BOOLEAN]
  /\ step \in PastMerge => OptionsMerged
  /\ step \in PastLimits => OptionsLimited
  /\ step \in PastPermission => ~Asked.bypass
  /\ step \in PastText => TextTold
  /\ step \in PastVideos => VideosTold
  /\ step \in PastImages => ImagesTold
  /\ Passed => /\ step = "answered" /\ OptionsMerged /\ OptionsLimited /\ (Asked.bypass => MayBypass)
               /\ Asked.bypass \/ /\ TextTold /\ verdict.text # "unsafe"
                                  /\ ImagesTold /\ verdict.images # "unsafe"
                                  /\ VideosTold /\ verdict.videos

\* What depends on nothing but what a request carries stays as it is.
LEMMA TestsFrame ==
  ASSUME UNCHANGED <<caller, request, above, config, settings>>
  PROVE  /\ Carried => Carried'
         /\ Asked' = Asked /\ (MayBypass' <=> MayBypass)
         /\ options' = options => (OptionsMerged => OptionsMerged') /\ (OptionsLimited => OptionsLimited')
         /\ verdict'.text = verdict.text => (TextTold => TextTold')
         /\ verdict'.videos = verdict.videos => (VideosTold => VideosTold')
         /\ verdict'.images = verdict.images /\ verdict'.seen = verdict.seen => (ImagesTold => ImagesTold')
<1>1. Carried => Carried'
  BY DEF Carried, HarmShows, ImageViolations
<1>2. Asked' = Asked /\ (HasParent' <=> HasParent)
  BY DEF Asked, HasParent
<1>3. MayBypass' <=> MayBypass
  BY DEF MayBypass, IsAnonymous
<1>4. ASSUME options' = options
      PROVE  (OptionsMerged => OptionsMerged') /\ (OptionsLimited => OptionsLimited')
  <2>1. OptionsLimited => OptionsLimited'
    BY <1>4 DEF OptionsLimited, IsWithinLimits
  <2>2. OptionsMerged => OptionsMerged'
    BY <1>2, <1>4 DEF OptionsMerged, Merged, HasParent
  <2> QED
    BY <2>1, <2>2
<1>5. Declared("video")' = Declared("video") /\ Declared("image")' = Declared("image")
  BY <1>2 DEF Declared
<1>6. verdict'.text = verdict.text => (TextTold => TextTold')
  BY <1>2 DEF TextTold
<1>7. verdict'.videos = verdict.videos => (VideosTold => VideosTold')
  BY <1>2, <1>5 DEF VideosTold
<1>8. verdict'.images = verdict.images /\ verdict'.seen = verdict.seen => (ImagesTold => ImagesTold')
  BY <1>2, <1>5 DEF ImagesTold
<1> QED
  BY <1>1, <1>2, <1>3, <1>4, <1>6, <1>7, <1>8

\* An answer other than 200 ends the request, and no fact is needed any more.
LEMMA TurnedAway ==
  ASSUME TestsInv, NEW code \in {400, 401, 403, 500}, Answer(code),
         verdict' \in [text : Verdicts, images : Verdicts, seen : Nat, videos : BOOLEAN]
  PROVE  TestsInv'
<1>1. status' = code /\ step' = "answered" /\ UNCHANGED <<caller, request, above, config, settings>>
  BY DEF Answer
<1>2. Carried'
  BY <1>1, TestsFrame DEF TestsInv
<1>3. ~Passed'
  BY <1>1 DEF Passed
<1>4. step' \notin PastMerge /\ step' \notin PastLimits /\ step' \notin PastPermission
      /\ step' \notin PastText /\ step' \notin PastVideos /\ step' \notin PastImages
  BY <1>1 DEF PastMerge, PastLimits, PastPermission, PastText, PastVideos, PastImages
<1> QED
  BY <1>2, <1>3, <1>4 DEF TestsInv

\* A test that only looks, and goes on to one that asks for no more.
LEMMA WentOn ==
  ASSUME TestsInv, NEW next, Go(next), status = None, UNCHANGED verdict,
         options' = options \/ next \notin PastMerge,
         next \in PastMerge => step \in PastMerge,
         next \in PastLimits => OptionsLimited,
         next \in PastPermission => ~Asked.bypass,
         next \in PastText => step \in PastText,
         next \in PastVideos => step \in PastVideos,
         next \in PastImages => step \in PastImages
  PROVE  TestsInv'
<1>1. step' = next /\ status' = status /\ UNCHANGED <<caller, request, above, config, settings>>
  BY DEF Go
<1>2. /\ Carried' /\ Asked' = Asked
      /\ options' = options => (OptionsMerged => OptionsMerged') /\ (OptionsLimited => OptionsLimited')
      /\ (TextTold => TextTold') /\ (VideosTold => VideosTold') /\ (ImagesTold => ImagesTold')
  BY <1>1, TestsFrame DEF TestsInv
<1>3. ~Passed'
  BY <1>1, GateAssumption DEF Passed
<1>4. PastLimits \subseteq PastMerge
  BY DEF PastMerge
<1>5. /\ step' \in PastMerge => OptionsMerged'
      /\ step' \in PastLimits => OptionsLimited'
  BY <1>1, <1>2, <1>4 DEF TestsInv
<1>6. /\ step' \in PastPermission => ~Asked'.bypass
      /\ step' \in PastText => TextTold'
      /\ step' \in PastVideos => VideosTold'
      /\ step' \in PastImages => ImagesTold'
  BY <1>1, <1>2 DEF TestsInv
<1>7. verdict' \in [text : Verdicts, images : Verdicts, seen : Nat, videos : BOOLEAN]
  BY DEF TestsInv
<1> QED
  BY <1>2, <1>3, <1>5, <1>6, <1>7 DEF TestsInv

\* Each of the tests that look at what is asked, and not at its contents.
LEMMA EarlyTestsHold ==
  ASSUME TestsInv, Protect \/ Parse \/ LookUp \/ Merge \/ CheckModel \/ CheckFiles
  PROVE  TestsInv'
<1> USE DEF PastMerge, PastLimits, PastPermission, PastText, PastVideos, PastImages
<1>0. verdict \in [text : Verdicts, images : Verdicts, seen : Nat, videos : BOOLEAN]
  BY DEF TestsInv
<1>1. CASE Protect
  <2>1. status = None /\ UNCHANGED <<options, verdict>> /\ (Go("parse") \/ Answer(401))
    BY <1>1 DEF Protect, At, Demand
  <2> QED
    BY <1>0, <2>1, TurnedAway, WentOn
<1>2. CASE Parse
  <2>1. status = None /\ UNCHANGED <<options, verdict>> /\ (Go("lookUp") \/ Answer(400))
    BY <1>2 DEF Parse, At, Demand
  <2> QED
    BY <1>0, <2>1, TurnedAway, WentOn
<1>3. CASE LookUp
  <2>1. status = None /\ UNCHANGED <<options, verdict>> /\ (Go("merge") \/ Answer(400) \/ Answer(401))
    BY <1>3 DEF LookUp, At, Demand
  <2> QED
    BY <1>0, <2>1, TurnedAway, WentOn
<1>4. CASE Merge
  <2>1. /\ status = None /\ UNCHANGED verdict /\ options' = Merged(Asked)
        /\ Go("model") \/ Answer(400) \/ Answer(403)
    BY <1>4 DEF Merge, At, Demand
  <2>2. CASE Go("model")
    <3>1. step' = "model" /\ status' = None /\ UNCHANGED <<caller, request, above, config, settings>>
      BY <2>1, <2>2 DEF Go
    <3>2. Carried'
      BY <3>1, TestsFrame DEF TestsInv
    <3>3. OptionsMerged'
      BY <2>1, <3>1 DEF OptionsMerged, Merged, Asked, HasParent
    <3>4. ~Passed'
      BY <3>1, GateAssumption DEF Passed
    <3>5. verdict' \in [text : Verdicts, images : Verdicts, seen : Nat, videos : BOOLEAN]
      BY <1>0, <2>1
    <3> QED
      BY <3>1, <3>2, <3>3, <3>4, <3>5 DEF TestsInv
  <2> QED
    BY <1>0, <2>1, <2>2, TurnedAway
<1>5. CASE CheckModel
  <2>1. /\ status = None /\ step = "model" /\ UNCHANGED <<options, verdict>>
        /\ Go("files") \/ Answer(400)
    BY <1>5 DEF CheckModel, At, Demand
  <2> QED
    BY <1>0, <2>1, TurnedAway, WentOn
<1>6. CASE CheckFiles
  <2>1. /\ status = None /\ step = "files" /\ UNCHANGED <<options, verdict>>
        /\ Go("parameters") \/ Answer(400) \/ Answer(500)
    BY <1>6 DEF CheckFiles, At, Demand
  <2> QED
    BY <1>0, <2>1, TurnedAway, WentOn
<1> QED
  BY <1>1, <1>2, <1>3, <1>4, <1>5, <1>6

\* Parameters, captcha, permission and the kinds of the files.
LEMMA MiddleTestsHold ==
  ASSUME TestsInv, CheckParameters \/ CheckCaptcha \/ CheckPermission \/ CheckKinds
  PROVE  TestsInv'
<1> USE DEF PastMerge, PastLimits, PastPermission, PastText, PastVideos, PastImages
<1>0. verdict \in [text : Verdicts, images : Verdicts, seen : Nat, videos : BOOLEAN]
  BY DEF TestsInv
<1>1. CASE CheckParameters
  <2>1. /\ status = None /\ step = "parameters" /\ UNCHANGED <<options, verdict>>
        /\ (Go("captcha") /\ OptionsLimited) \/ Answer(400)
    BY <1>1 DEF CheckParameters, At, Demand, OptionsLimited
  <2> QED
    BY <1>0, <2>1, TurnedAway, WentOn
<1>2. CASE CheckCaptcha
  <2>1. /\ status = None /\ step = "captcha" /\ UNCHANGED <<options, verdict>>
        /\ Go("permission") \/ Answer(400) \/ Answer(500)
    BY <1>2 DEF CheckCaptcha, At, Demand
  <2>2. OptionsLimited
    BY <2>1 DEF TestsInv
  <2> QED
    BY <1>0, <2>1, <2>2, TurnedAway, WentOn
<1>3. CASE CheckPermission
  <2>1. /\ status = None /\ step = "permission" /\ UNCHANGED <<options, verdict>>
        /\ (Go("text") /\ ~Asked.bypass) \/ (Answer(200) /\ MayBypass /\ Asked.bypass) \/ Answer(403)
    BY <1>3 DEF CheckPermission, At
  <2>2. OptionsLimited /\ OptionsMerged
    BY <2>1 DEF TestsInv
  <2>3. CASE Answer(200) /\ MayBypass /\ Asked.bypass
    <3>1. status' = 200 /\ step' = "answered" /\ UNCHANGED <<caller, request, above, config, settings>>
      BY <2>3 DEF Answer
    <3>2. Carried' /\ Asked' = Asked /\ MayBypass' /\ OptionsMerged' /\ OptionsLimited'
      BY <2>1, <2>2, <2>3, <3>1, TestsFrame DEF TestsInv
    <3>3. verdict' \in [text : Verdicts, images : Verdicts, seen : Nat, videos : BOOLEAN]
      BY <1>0, <2>1
    <3> QED
      BY <2>3, <3>1, <3>2, <3>3 DEF TestsInv
  <2> QED
    BY <1>0, <2>1, <2>2, <2>3, TurnedAway, WentOn
<1>4. CASE CheckKinds
  <2>1. /\ status = None /\ step = "kinds" /\ UNCHANGED <<options, verdict>>
        /\ Go("videos") \/ Answer(400)
    BY <1>4 DEF CheckKinds, At, Demand
  <2>2. OptionsLimited /\ ~Asked.bypass
    BY <2>1 DEF TestsInv
  <2> QED
    BY <1>0, <2>1, <2>2, TurnedAway, WentOn
<1> QED
  BY <1>1, <1>2, <1>3, <1>4

\* The safety checks, each of which says its part of the verdict.
LEMMA SafetyTestsHold ==
  ASSUME TestsInv, CheckText \/ CheckVideos \/ CheckImages
  PROVE  TestsInv'
<1> USE DEF PastMerge, PastLimits, PastPermission, PastText, PastVideos, PastImages
<1>0. verdict \in [text : Verdicts, images : Verdicts, seen : Nat, videos : BOOLEAN]
  BY DEF TestsInv
<1>1. CASE CheckText
  <2>1. /\ status = None /\ step = "text" /\ UNCHANGED options
        /\ step' = "kinds" /\ status' = None /\ UNCHANGED <<caller, request, above, config, settings>>
    BY <1>1 DEF CheckText, At, Go
  <2>2. PICK text \in {"unknown", TextVerdict(Asked.content)} : verdict' = [verdict EXCEPT !.text = text]
    BY <1>1 DEF CheckText
  <2>3. /\ Carried' /\ Asked' = Asked /\ OptionsMerged' /\ OptionsLimited' /\ ~Asked.bypass
    BY <2>1, TestsFrame DEF TestsInv
  <2>4. text \in {"unknown", "unsafe", "safe"} /\ (text = "safe" => ~(Asked.content # None /\ Violations(Asked.content) # {}))
    BY <2>2 DEF TextVerdict
  <2>5. /\ verdict' \in [text : Verdicts, images : Verdicts, seen : Nat, videos : BOOLEAN]
        /\ verdict'.text = text
    BY <1>0, <2>2, <2>4 DEF Verdicts
  <2>6. TextTold'
    BY <2>3, <2>4, <2>5 DEF TextTold
  <2>7. ~Passed'
    BY <2>1, GateAssumption DEF Passed
  <2> QED
    BY <2>1, <2>3, <2>5, <2>6, <2>7 DEF TestsInv
<1>2. CASE CheckVideos
  <2>1. /\ status = None /\ step = "videos" /\ UNCHANGED options
        /\ step' = "images" /\ status' = None /\ UNCHANGED <<caller, request, above, config, settings>>
    BY <1>2 DEF CheckVideos, At, Go
  <2>2. PICK broken \in SUBSET Declared("video") :
          verdict' = [verdict EXCEPT !.videos = \A k \in Declared("video") :
            k \notin broken /\ (settings.blockingVideoCheck => ~Asked.files[k].harmful)]
    BY <1>2 DEF CheckVideos
  <2> DEFINE sound == \A k \in Declared("video") :
                        k \notin broken /\ (settings.blockingVideoCheck => ~Asked.files[k].harmful)
  <2>3. sound \in BOOLEAN /\ verdict' = [verdict EXCEPT !.videos = sound]
    BY <2>2
  <2>4. sound /\ settings.blockingVideoCheck => \A k \in Declared("video") : ~Asked.files[k].harmful
    OBVIOUS
  <2> HIDE DEF sound
  <2>5. /\ verdict' \in [text : Verdicts, images : Verdicts, seen : Nat, videos : BOOLEAN]
        /\ verdict'.text = verdict.text /\ verdict'.videos = sound
    BY <1>0, <2>3
  <2>6. /\ Carried' /\ Asked' = Asked /\ OptionsMerged' /\ OptionsLimited' /\ ~Asked.bypass /\ TextTold'
    BY <2>1, <2>5, TestsFrame DEF TestsInv
  <2>7. Declared("video")' = Declared("video") /\ settings' = settings
    BY <2>1, <2>6 DEF Declared
  <2>8. VideosTold'
    BY <2>4, <2>5, <2>6, <2>7 DEF VideosTold
  <2>9. ~Passed'
    BY <2>1, GateAssumption DEF Passed
  <2> QED
    BY <2>1, <2>5, <2>6, <2>8, <2>9 DEF TestsInv
<1>3. CASE CheckImages
  <2>1. /\ status = None /\ step = "images" /\ UNCHANGED options
        /\ step' = "conclude" /\ status' = None /\ UNCHANGED <<caller, request, above, config, settings>>
    BY <1>3 DEF CheckImages, At, Go
  <2>2. PICK seen \in {0} \cup Declared("image") :
          /\ \A k \in Declared("image") : k <= seen => IsLookedAt(Asked.files[k])
          /\ verdict' = [verdict EXCEPT
               !.seen = seen,
               !.images = IF \E k \in {k \in Declared("image") : ImageViolations(Asked.files[k]) # {}} : k <= seen
                          THEN "unsafe"
                          ELSE IF \E k \in Declared("image") : k > seen THEN "unknown" ELSE "safe"]
    BY <1>3 DEF CheckImages
  <2>3. HarmShows(Asked.files) /\ DOMAIN Asked.files \subseteq Nat
    <3>1. CASE request.route = "agents"
      <4>1. Asked.files = <<>>
        BY <3>1 DEF TestsInv, Carried, Asked, OfAgent
      <4> QED
        BY <4>1 DEF HarmShows
    <3>2. CASE request.route # "agents"
      BY <3>2 DEF TestsInv, Carried, Asked
    <3> QED
      BY <3>1, <3>2
  <2>4. \A k \in Declared("image") : k \in DOMAIN Asked.files /\ k \in Nat
    BY <2>3 DEF Declared
  <2> DEFINE unsafeSeen == \E k \in {k \in Declared("image") : ImageViolations(Asked.files[k]) # {}} : k <= seen
             said == IF unsafeSeen THEN "unsafe"
                     ELSE IF \E k \in Declared("image") : k > seen THEN "unknown" ELSE "safe"
  <2>5. said \in Verdicts /\ verdict' = [verdict EXCEPT !.seen = seen, !.images = said]
    BY <2>2 DEF Verdicts
  <2>6. said = "unsafe" \/ \A k \in Declared("image") : Asked.files[k].harmful => k > seen
    <3> SUFFICES ASSUME said # "unsafe", NEW k \in Declared("image"), Asked.files[k].harmful
                 PROVE  k > seen
      BY Zenon
    <3>1. ImageViolations(Asked.files[k]) # {}
      BY <2>3, <2>4 DEF HarmShows
    <3>2. ~(k <= seen)
      BY <3>1
    <3>3. k \in Nat /\ seen \in Nat
      BY <2>2, <2>4
    <3> QED
      BY <3>2, <3>3
  <2>7. seen \in Nat
    BY <2>2, <2>4
  <2> HIDE DEF said
  <2>8. /\ verdict' \in [text : Verdicts, images : Verdicts, seen : Nat, videos : BOOLEAN]
        /\ verdict'.text = verdict.text /\ verdict'.videos = verdict.videos
        /\ verdict'.images = said /\ verdict'.seen = seen
    BY <1>0, <2>5, <2>7
  <2>9. /\ Carried' /\ Asked' = Asked /\ OptionsMerged' /\ OptionsLimited' /\ ~Asked.bypass
        /\ TextTold' /\ VideosTold'
    BY <2>1, <2>8, TestsFrame DEF TestsInv
  <2>10. Declared("image")' = Declared("image")
    BY <2>9 DEF Declared
  <2>11. ImagesTold'
    BY <2>6, <2>8, <2>9, <2>10 DEF ImagesTold
  <2>12. ~Passed'
    BY <2>1, GateAssumption DEF Passed
  <2> QED
    BY <2>1, <2>8, <2>9, <2>11, <2>12 DEF TestsInv
<1> QED
  BY <1>1, <1>2, <1>3

\* The last test goes by the verdict.
LEMMA ConcludeHolds ==
  ASSUME TestsInv, Conclude
  PROVE  TestsInv'
<1>0. verdict \in [text : Verdicts, images : Verdicts, seen : Nat, videos : BOOLEAN]
  BY DEF TestsInv
<1>1. status = None /\ step = "conclude" /\ UNCHANGED <<options, verdict>>
  BY DEF Conclude, At
<1>2. CASE verdict.text = "unsafe" \/ verdict.images = "unsafe" \/ ~verdict.videos
  <2>1. Answer(400)
    BY <1>2 DEF Conclude
  <2> QED
    BY <1>0, <1>1, <2>1, TurnedAway
<1>3. CASE ~(verdict.text = "unsafe" \/ verdict.images = "unsafe" \/ ~verdict.videos)
  <2>1. status' = 200 /\ step' = "answered" /\ UNCHANGED <<caller, request, above, config, settings>>
    BY <1>3 DEF Conclude, Answer
  <2>2. OptionsMerged /\ OptionsLimited /\ ~Asked.bypass /\ TextTold /\ VideosTold /\ ImagesTold /\ Carried
    BY <1>1 DEF TestsInv, PastMerge, PastLimits, PastPermission, PastText, PastVideos, PastImages
  <2>3. /\ Carried' /\ Asked' = Asked /\ OptionsMerged' /\ OptionsLimited'
        /\ TextTold' /\ VideosTold' /\ ImagesTold'
    BY <1>1, <2>1, <2>2, TestsFrame
  <2>4. /\ verdict' \in [text : Verdicts, images : Verdicts, seen : Nat, videos : BOOLEAN]
        /\ verdict'.text # "unsafe" /\ verdict'.images # "unsafe" /\ verdict'.videos
    BY <1>0, <1>1, <1>3
  <2> QED
    BY <2>1, <2>2, <2>3, <2>4 DEF TestsInv, PastMerge, PastLimits, PastPermission, PastText, PastVideos, PastImages
<1> QED
  BY <1>2, <1>3

\* The three ids are told apart.
LEMMA IdsDiffer == MemberId # GuestId /\ MemberId # NoId /\ GuestId # NoId
<1>1. \A a, b : Cardinality({a, b}) \in {1, 2}
  <2> TAKE a, b
  <2>1. IsFiniteSet({a}) /\ Cardinality({a}) = 1
    BY FS_Singleton
  <2>2. {a} \cup {b} = {a, b}
    OBVIOUS
  <2>3. Cardinality({a} \cup {b}) = 1 \/ Cardinality({a} \cup {b}) = 2
    BY <2>1, FS_AddElement
  <2> QED
    BY <2>2, <2>3
<1>2. MemberId = GuestId => {MemberId, GuestId, NoId} = {MemberId, NoId}
  OBVIOUS
<1>3. MemberId = NoId => {MemberId, GuestId, NoId} = {MemberId, GuestId}
  OBVIOUS
<1>4. GuestId = NoId => {MemberId, GuestId, NoId} = {MemberId, GuestId}
  OBVIOUS
<1>5. Cardinality({MemberId, GuestId, NoId}) = 3
  BY GateAssumption
<1>6. Cardinality({MemberId, NoId}) # 3 /\ Cardinality({MemberId, GuestId}) # 3
  <2>1. Cardinality({MemberId, NoId}) \in {1, 2} /\ Cardinality({MemberId, GuestId}) \in {1, 2}
    BY <1>1
  <2> QED
    BY <2>1
<1> QED
  BY <1>2, <1>3, <1>4, <1>5, <1>6

\* The requests that are looked at are ones that a client can send.
LEMMA TestsBegin ==
  ASSUME GateInit
  PROVE  TestsInv
<1>1. /\ step = "protect" /\ status = None
      /\ verdict = [text |-> "safe", images |-> "safe", seen |-> 0, videos |-> TRUE]
  BY DEF GateInit
<1>2. ~Passed
  BY <1>1, GateAssumption DEF Passed
<1>3. verdict \in [text : Verdicts, images : Verdicts, seen : Nat, videos : BOOLEAN]
  BY <1>1 DEF Verdicts
<1> DEFINE Callers == [authorization : {"absent", "valid", "stale", "invalid"}, anonymousId : {None, NoId, GuestId},
                       bypasser : BOOLEAN]
<1>4. Signed \in Callers /\ Anonymous \in Callers
  BY DEF Signed, Anonymous
<1>5. /\ PlainModel.lower = 0 /\ PlainModel.default = 1 /\ PlainModel.upper = MaxOption
      /\ 0 \in Nat /\ 1 \in Nat /\ MaxOption \in Nat /\ 0 <= 1 /\ 1 <= MaxOption
  BY GateAssumption DEF PlainModel
<1>6. Plain.files = <<>> /\ "files" \in DOMAIN Plain
  BY DEF Plain
<1>7. /\ caller \in Callers
      /\ config.lower \in Nat /\ config.default \in Nat /\ config.upper \in Nat
      /\ "files" \in DOMAIN request
      /\ request.files = <<>> \/ request.files \in BoundedSeq(Files, 2)
  <2>1. CASE AnyCaller
    <3>1. caller \in Callers /\ config = PlainModel
      BY <2>1 DEF AnyCaller
    <3>2. PICK route \in {"threads", "agents"}, target \in {"known", "unknown", "modelless"}, bypass \in BOOLEAN :
            request = [Plain EXCEPT !.route = route, !.target = target, !.bypass = bypass]
      BY <2>1 DEF AnyCaller
    <3>3. request.files = <<>> /\ "files" \in DOMAIN request
      BY <1>6, <3>2
    <3> QED
      BY <1>5, <3>1, <3>3
  <2>2. CASE AnyPlace
    <3>1. caller \in Callers /\ config = PlainModel
      BY <1>4, <2>2 DEF AnyPlace
    <3>2. PICK route \in {"threads", "agents"}, parent \in {"none", "unknown", "rootless", "known"},
               role \in {"user", "assistant", "system", "tool_call_result"}, private \in BOOLEAN,
               original \in BOOLEAN, toolCallId \in BOOLEAN :
            request = [Plain EXCEPT !.route = route, !.parent = parent, !.role = role, !.private = private,
                                    !.original = original, !.toolCallId = toolCallId]
      BY <2>2 DEF AnyPlace
    <3>3. request.files = <<>> /\ "files" \in DOMAIN request
      BY <1>6, <3>2
    <3> QED
      BY <1>5, <3>1, <3>3
  <2>3. CASE AnyOptions
    <3>1. caller \in Callers
      BY <1>4, <2>3 DEF AnyOptions
    <3>2. PICK parent, option : request = [Plain EXCEPT !.parent = parent, !.option = option]
      BY <2>3 DEF AnyOptions
    <3>3. request.files = <<>> /\ "files" \in DOMAIN request
      BY <1>6, <3>2
    <3>4. PICK kind \in {"text_only", "files_only"}, default \in 0..MaxOption, lower \in 0..1,
               upper \in 1..MaxOption :
            config = [PlainModel EXCEPT !.kind = kind, !.default = default, !.lower = lower, !.upper = upper]
      BY <2>3 DEF AnyOptions
    <3>5. config.lower = lower /\ config.upper = upper /\ config.default = default
      BY <3>4 DEF PlainModel
    <3>6. lower \in Nat /\ upper \in Nat /\ default \in Nat
      BY <1>5
    <3> QED
      BY <3>1, <3>3, <3>5, <3>6
  <2>4. CASE AnyContent
    <3>1. caller \in Callers /\ config = PlainModel
      BY <1>4, <2>4 DEF AnyContent
    <3>2. PICK route \in {"threads", "agents"}, body \in {"object", "other"}, content \in {None, {}, Harmless, Harmful},
               points \in 0..2, captcha \in {"none", "invalid", "good"} :
            request = [Plain EXCEPT !.route = route, !.body = body, !.content = content, !.points = points,
                                    !.captcha = captcha]
      BY <2>4 DEF AnyContent
    <3>3. request.files = <<>> /\ "files" \in DOMAIN request
      BY <1>6, <3>2
    <3> QED
      BY <1>5, <3>1, <3>3
  <2>5. CASE AnyFiles
    <3>1. caller \in Callers
      BY <1>4, <2>5 DEF AnyFiles
    <3>2. PICK parent \in {"none", "known"}, files \in BoundedSeq(Files, 2) :
            request = [Plain EXCEPT !.parent = parent, !.files = files]
      BY <2>5 DEF AnyFiles
    <3>3. request.files \in BoundedSeq(Files, 2) /\ "files" \in DOMAIN request
      BY <1>6, <3>2
    <3>4. PICK accepted \in {{}, {"image"}}, most \in {None, 1},
               required \in {"no_requirement", "first_message", "all_messages"}, allowed \in BOOLEAN :
            config = [PlainModel EXCEPT !.accepted = accepted, !.maxFiles = most, !.maxSize = most,
                                        !.required = required, !.allowInFollowups = allowed]
      BY <2>5 DEF AnyFiles
    <3>5. config.lower = PlainModel.lower /\ config.upper = PlainModel.upper /\ config.default = PlainModel.default
      BY <3>4 DEF PlainModel
    <3> QED
      BY <1>5, <3>1, <3>3, <3>5
  <2> QED
    BY <2>1, <2>2, <2>3, <2>4, <2>5 DEF GateInit
<1>8. DOMAIN request.files \subseteq Nat /\ HarmShows(request.files)
  <2>1. CASE request.files = <<>>
    BY <2>1 DEF HarmShows
  <2>2. CASE request.files \in BoundedSeq(Files, 2)
    <3>1. PICK m \in 0..2 : request.files \in [1..m -> Files]
      BY <2>2 DEF BoundedSeq, SeqOf
    <3>2. \A file \in Files : file.harmful => ImageViolations(file) # {}
      <4> TAKE file \in Files
      <4> HAVE file.harmful
      <4>1. PICK declared, holds : file = File(declared, holds, TRUE)
        BY DEF Files, File
      <4>2. "racy" \in DOMAIN file.likelihood /\ file.likelihood["racy"] = "VERY_LIKELY"
        BY <4>1 DEF File
      <4> QED
        BY <4>2 DEF ImageViolations
    <3> QED
      BY <3>1, <3>2 DEF HarmShows
  <2> QED
    BY <1>7, <2>1, <2>2
<1>9. Carried
  BY <1>7, <1>8 DEF Carried, Callers
<1> QED
  BY <1>1, <1>2, <1>3, <1>9 DEF TestsInv, PastMerge, PastLimits, PastPermission, PastText, PastVideos, PastImages

\* No step takes back what a test has left.
LEMMA TestsHold ==
  ASSUME TestsInv, [GateNext]_gateVars
  PROVE  TestsInv'
<1>1. CASE UNCHANGED gateVars
  <2>1. /\ UNCHANGED <<caller, request, above, config, settings>>
        /\ step' = step /\ status' = status /\ options' = options /\ verdict' = verdict
    BY <1>1 DEF gateVars
  <2>2. /\ Carried' /\ Asked' = Asked /\ (MayBypass' <=> MayBypass)
        /\ (OptionsMerged => OptionsMerged') /\ (OptionsLimited => OptionsLimited')
        /\ (TextTold => TextTold') /\ (VideosTold => VideosTold') /\ (ImagesTold => ImagesTold')
    BY <2>1, TestsFrame DEF TestsInv
  <2>3. Passed' <=> Passed
    BY <2>1 DEF Passed
  <2> QED
    BY <2>1, <2>2, <2>3 DEF TestsInv
<1>2. CASE GateNext
  <2>1. \/ Protect \/ Parse \/ LookUp \/ Merge \/ CheckModel \/ CheckFiles
        \/ CheckParameters \/ CheckCaptcha \/ CheckPermission \/ CheckKinds
        \/ CheckText \/ CheckVideos \/ CheckImages \/ Conclude
    BY <1>2 DEF GateNext
  <2> QED
    BY <2>1, EarlyTestsHold, MiddleTestsHold, SafetyTestsHold, ConcludeHolds
<1> QED
  BY <1>1, <1>2

\* The inductive invariant of the tests holds, whatever the three ids and the
\* range of the options are.
THEOREM TestsAlways == GateSpec => []TestsInv
<1>1. GateInit => TestsInv
  BY TestsBegin
<1>2. TestsInv /\ [GateNext]_gateVars => TestsInv'
  BY TestsHold
<1> QED
  BY <1>1, <1>2, PTL DEF GateSpec

\* What a request that passes has left at the tests of its content.
LEMMA HarmTold == ASSUME TestsInv PROVE WhatPassesWasLookedAt
BY DEF TestsInv, WhatPassesWasLookedAt, TextTold, VideosTold, ImagesTold

\* A request that passes has nothing harmful in it that the checks could have
\* seen, unless its caller was allowed to bypass them.
THEOREM HarmIsSeen == GateSpec => []WhatPassesWasLookedAt
BY HarmTold, TestsAlways, PTL

\* ... at the tests of its options ...
LEMMA OptionsTold == ASSUME TestsInv PROVE OptionsFitTheModel
<1> SUFFICES ASSUME Passed PROVE OptionsFitTheModel
  BY DEF OptionsFitTheModel
<1> DEFINE given == IF Asked.option # None THEN Asked.option
                    ELSE IF HasParent THEN above.option ELSE None
<1>1. /\ config.default \in Nat /\ config.lower \in Nat /\ config.upper \in Nat /\ None \notin Nat
      /\ options = None \/ (config.lower <= options /\ options <= config.upper)
      /\ options = Merged(Asked)
  BY GateAssumption DEF TestsInv, Carried, OptionsMerged, OptionsLimited, IsWithinLimits
<1>2. given # 0 => config.lower <= Setting(options) /\ Setting(options) <= config.upper
  <2>1. CASE given = None
    <3>1. options = config.default
      BY <1>1, <2>1 DEF Merged
    <3>2. Setting(options) = config.default
      BY <1>1, <3>1 DEF Setting
    <3> QED
      BY <1>1, <3>1, <3>2
  <2>2. CASE given \notin {None, 0}
    <3>1. options = given
      BY <1>1, <2>2 DEF Merged
    <3> QED
      BY <1>1, <2>2, <3>1 DEF Setting
  <2> QED
    BY <2>1, <2>2
<1>3. given \notin {None, 0} => Setting(options) = given
  BY <1>1 DEF Merged, Setting
<1> HIDE DEF given
<1> QED
  BY <1>2, <1>3 DEF OptionsFitTheModel, given

\* A reply is made with options within the limits of its model, and they are
\* the ones that were asked for, whatever the model's row holds, unless those
\* are zero.
THEOREM OptionsAlwaysFit == GateSpec => []OptionsFitTheModel
BY OptionsTold, TestsAlways, PTL

\* ... and what two services make of one caller.
LEMMA CallersTold == ASSUME TestsInv PROVE CallersAgree
<1>1. /\ caller.authorization \in {"absent", "valid", "stale", "invalid"}
      /\ caller.anonymousId \in {None, NoId, GuestId} /\ caller.bypasser \in BOOLEAN
  BY DEF TestsInv, Carried
<1>2. CASE IsToken(caller.authorization)
  <2>1. FlaskClient(caller) = MemberId /\ FastApiClient(caller) = MemberId
    BY <1>1, <1>2 DEF FlaskClient, FastApiClient, IsToken
  <2>2. \A client : FastApiPermits(client) <=> (client = MemberId /\ caller.bypasser)
    BY DEF FastApiPermits
  <2>3. MayBypass <=> caller.bypasser
    BY <1>2 DEF MayBypass, IsAnonymous
  <2>4. Admitted(MemberId, caller) \in {None, MemberId}
    BY DEF Admitted
  <2> QED
    BY <2>1, <2>2, <2>3, <2>4 DEF CallersAgree
<1>3. CASE ~IsToken(caller.authorization)
  <2>1. FlaskClient(caller) \in {None, caller.anonymousId}
    BY <1>1, <1>3 DEF FlaskClient, IsToken
  <2>2. FastApiClient(caller) \in {None, caller.anonymousId}
    BY <1>3 DEF FastApiClient
  <2>3. \A client : Admitted(client, caller) \in {None, client}
    BY DEF Admitted
  <2>4. ~MayBypass
    BY <1>3 DEF MayBypass, IsAnonymous
  <2>5. caller.anonymousId # None => ~FastApiPermits(caller.anonymousId)
    BY <1>1, IdsDiffer DEF FastApiPermits
  <2> DEFINE flask == Admitted(FlaskClient(caller), caller)
             fastApi == Admitted(FastApiClient(caller), caller)
  <2>6. flask \in {None, caller.anonymousId} /\ fastApi \in {None, caller.anonymousId}
    BY <2>1, <2>2, <2>3
  <2> HIDE DEF flask, fastApi
  <2>7. flask # None /\ fastApi # None => flask = fastApi /\ (MayBypass <=> FastApiPermits(fastApi))
    BY <2>4, <2>5, <2>6
  <2> QED
    BY <2>7 DEF CallersAgree, flask, fastApi
<1> QED
  BY <1>2, <1>3

\* Whoever both services let in is the same client to both, and may do the same.
THEOREM CallersAlwaysAgree == GateSpec => []CallersAgree
BY CallersTold, TestsAlways, PTL

-----------------------------------------------------------------------------
(***************************************************************************)
(* The parts side by side.                                                 *)
(***************************************************************************)
\* A gate with nothing to do has let nothing pass.
LEMMA NoRequestPasses ==
  ASSUME NoRequest
  PROVE  TestsInv
<1>1. /\ caller = Signed /\ request = Plain /\ config = PlainModel
      /\ step = "answered" /\ status = None
      /\ verdict = [text |-> "safe", images |-> "safe", seen |-> 0, videos |-> TRUE]
  BY DEF NoRequest
<1>2. ~Passed
  BY <1>1, GateAssumption DEF Passed
<1>3. verdict \in [text : Verdicts, images : Verdicts, seen : Nat, videos : BOOLEAN]
  BY <1>1 DEF Verdicts
<1>4. Carried
  <2>1. /\ caller.authorization = "valid" /\ caller.anonymousId \in {None, NoId, GuestId}
        /\ caller.bypasser \in BOOLEAN
    BY <1>1 DEF Signed
  <2>2. /\ config.lower = 0 /\ config.default = 1 /\ config.upper = MaxOption
        /\ MaxOption \in Nat /\ 1 <= MaxOption
    BY <1>1, GateAssumption DEF PlainModel
  <2>3. "files" \in DOMAIN request /\ request.files = <<>>
    BY <1>1 DEF Plain
  <2>4. DOMAIN request.files = {}
    BY <2>3
  <2> QED
    BY <2>1, <2>2, <2>3, <2>4 DEF Carried, HarmShows
<1>5. /\ step \notin PastMerge /\ step \notin PastLimits /\ step \notin PastPermission
      /\ step \notin PastText /\ step \notin PastVideos /\ step \notin PastImages
  BY <1>1 DEF PastMerge, PastLimits, PastPermission, PastText, PastVideos, PastImages
<1> QED
  BY <1>2, <1>3, <1>4, <1>5 DEF TestsInv

\* Requests at the gate, exchanges with providers and inquiries at the index take
\* no connection out of turn: the pool behaves beside them as it does alone.
THEOREM PoolIsApart == RequestsSpec => PoolSpec
<1>1. RequestsInit => PoolInit
  BY DEF RequestsInit
<1>2. [RequestsNext]_requestsVars => [PoolNext]_poolVars
  BY DEF RequestsNext, requestsVars
<1> QED
  BY <1>1, <1>2, PTL DEF RequestsSpec, PoolSpec

\* Whatever else goes on, connections come back (ConnectionsComeBack), and a request
\* that passes was looked at (WhatPassesWasLookedAt), has options that fit its model
\* (OptionsFitTheModel) and a caller whom both services know as one (CallersAgree).
THEOREM RequestsHold ==
  RequestsSpec => [](ConnectionsComeBack /\ WhatPassesWasLookedAt /\ OptionsFitTheModel /\ CallersAgree)
<1>1. RequestsInit => TestsInv
  BY TestsBegin, NoRequestPasses DEF RequestsInit
<1>2. TestsInv /\ [RequestsNext]_requestsVars => TestsInv'
  <2>1. [RequestsNext]_requestsVars => [GateNext]_gateVars
    BY DEF RequestsNext, requestsVars
  <2> QED
    BY <2>1, TestsHold
<1>3. TestsInv => WhatPassesWasLookedAt /\ OptionsFitTheModel /\ CallersAgree
  BY HarmTold, OptionsTold, CallersTold
<1> QED
  BY <1>1, <1>2, <1>3, PoolIsApart, NoConnectionIsLost, PTL DEF RequestsSpec

=============================================================================
