----------------------- MODULE MatchingEngine_proofs -----------------------
(***************************************************************************)
(* Type correctness of the matching engine, the agreement of the levels    *)
(* with id_map_, and the assertion of match_limit: for every set of ids,   *)
(* prices, orders and amendments and any number of orders, when clients    *)
(* keep both rules of Discipline.                                          *)
(*                                                                         *)
(* The inductive invariant Inv has three parts: the types, the book on its *)
(* own (Sound: live queue entries are the orders placed there, no level is *)
(* without one), and what is outside the book (Apart: a pending stop, a    *)
(* stop in a `working` vector and an order being matched are all different *)
(* orders, and none of them has an entry in the book, dead or alive).      *)
(* Apart is what lets a triggered stop come to rest without meeting itself.*)
(***************************************************************************)
EXTENDS MatchingEngine, SequenceTheorems, WellFoundedInduction, TLAPS

(* A non-empty set of natural numbers has a least element. *)
LEMMA LeastNat ==
  ASSUME NEW S, S \subseteq Nat, S # {}
  PROVE  \E n \in S : \A m \in S : n <= m
<1> DEFINE R == OpToRel(<, Nat)
<1>1. IsWellFoundedOn(R, Nat)
  BY NatLessThanWellFounded
<1>2. \E n \in S : \A m \in S : <<m, n>> \notin R
  <2> HIDE DEF R
  <2> QED BY <1>1, WFMin
<1>3. \A m, n \in Nat : <<m, n>> \notin R => n <= m
  BY DEF OpToRel
<1> QED BY <1>2, <1>3

(* The loop of drain_cancelled ends: there is a number of entries it pops. *)
LEMMA DrainCountType ==
  ASSUME NEW level \in Levels
  PROVE  /\ DrainCount(level) \in 0..Len(level.queue)
         /\ \A i \in 1..DrainCount(level) : DrainableAt(level, i)
         /\ DrainCount(level) < Len(level.queue) =>
              ~DrainableAt(level, DrainCount(level) + 1)
<1> DEFINE len == Len(level.queue)
           Stops == {n \in 0..len : n < len => ~DrainableAt(level, n + 1)}
<1>1. len \in Nat
  BY DEF Levels
<1>2. len \in Stops /\ Stops \subseteq Nat
  BY <1>1
<1>3. PICK n \in Stops : \A m \in Stops : n <= m
  <2> HIDE DEF Stops
  <2> QED BY <1>2, LeastNat
<1>4. \A i \in 1..n : DrainableAt(level, i)
  <2> SUFFICES ASSUME NEW i \in 1..n, ~DrainableAt(level, i) PROVE FALSE
    OBVIOUS
  <2>1. n \in Nat /\ i \in Nat /\ i - 1 < n
    BY <1>2
  <2>2. i - 1 \in Stops
    BY <2>1, <1>1
  <2> HIDE DEF Stops
  <2>3. n <= i - 1
    BY <2>2, <1>3
  <2> QED BY <2>1, <2>3
<1> QED BY <1>3, <1>4 DEF DrainCount

LEMMA DrainType ==
  ASSUME NEW level \in Levels
  PROVE  drain_cancelled(level) \in Levels
<1>1. DrainCount(level) \in 0..Len(level.queue)
  BY DrainCountType
<1>2. level.queue \in Seq(Ids) /\ Len(level.queue) \in Nat
  BY DEF Levels
<1>3. SubSeq(level.queue, DrainCount(level) + 1, Len(level.queue)) \in Seq(Ids)
  BY <1>1, <1>2, SubSeqProperties, ElementOfSeq
<1> QED BY <1>3 DEF drain_cancelled, Levels

-----------------------------------------------------------------------------
(* A level on its own: no id is queued twice and only queued ids are       *)
(* marked.  What the operations of PriceLevel do is then said by what they *)
(* do to the set of live ids.                                              *)
Queued(level) == {level.queue[i] : i \in 1..Len(level.queue)}
Alive(level) == Queued(level) \ level.cancelled
Proper(level) ==
  /\ level \in Levels
  /\ \A i, j \in 1..Len(level.queue) : level.queue[i] = level.queue[j] => i = j
  /\ level.cancelled \subseteq Queued(level)

(* Draining changes no live id, and leaves a live one in front. *)
LEMMA DrainAlive ==
  ASSUME NEW level, Proper(level)
  PROVE  /\ Proper(drain_cancelled(level))
         /\ Alive(drain_cancelled(level)) = Alive(level)
         /\ Queued(drain_cancelled(level)) \subseteq Queued(level)
         /\ Alive(level) # {} => drain_cancelled(level).queue # <<>>
         /\ drain_cancelled(level).queue # <<>> =>
              drain_cancelled(level).queue[1] \in Alive(level)
<1> DEFINE n    == DrainCount(level)
           q    == level.queue
           rest == SubSeq(q, n + 1, Len(q))
           popped == {q[i] : i \in 1..n}
           drained == drain_cancelled(level)
<1>1. /\ level \in Levels /\ q \in Seq(Ids) /\ Len(q) \in Nat
      /\ level.cancelled \subseteq Queued(level)
      /\ \A i, j \in 1..Len(q) : q[i] = q[j] => i = j
  BY DEF Proper, Levels
<1>2. /\ n \in 0..Len(q)
      /\ \A i \in 1..n : q[i] \in level.cancelled
      /\ n < Len(q) => q[n + 1] \notin level.cancelled
  <2>1. /\ n \in 0..Len(q)
        /\ \A i \in 1..n : DrainableAt(level, i)
        /\ n < Len(q) => ~DrainableAt(level, n + 1)
    BY <1>1, DrainCountType
  <2> HIDE DEF n
  <2> QED BY <2>1, <1>1 DEF DrainableAt
<1>3. drained \in Levels /\ drained.queue = rest /\ drained.cancelled = level.cancelled \ popped
  <2>1. drained \in Levels
    BY <1>1, DrainType
  <2>2. drained = [level EXCEPT !.queue = rest, !.cancelled = level.cancelled \ popped]
    BY DEF drain_cancelled
  <2> HIDE DEF drained, rest, popped
  <2> QED BY <1>1, <2>1, <2>2 DEF Levels
<1> HIDE DEF n, drained
<1>4. /\ rest \in Seq(Ids)
      /\ Len(rest) = Len(q) - n
      /\ \A i \in 1..(Len(q) - n) : rest[i] = q[n + i]
  <2>1. n + 1 \in Int /\ Len(q) \in Int /\ n \in Int
    BY <1>1, <1>2
  <2>2. \A i \in (n + 1)..Len(q) : q[i] \in Ids
    BY <1>1, <1>2, ElementOfSeq
  <2>3. /\ rest \in Seq(Ids)
        /\ Len(rest) = IF n + 1 <= Len(q) THEN Len(q) - (n + 1) + 1 ELSE 0
        /\ \A i \in 1..(Len(q) - (n + 1) + 1) : rest[i] = q[(n + 1) + i - 1]
    BY <2>1, <2>2, SubSeqProperties
  <2> HIDE DEF rest
  <2> QED BY <2>1, <2>3, <1>2
<1> HIDE DEF rest
<1>5. Queued(drained) = {q[i] : i \in (n + 1)..Len(q)}
  <2>1. \A x : x \in Queued(drained) <=> \E i \in 1..(Len(q) - n) : x = q[n + i]
    BY <1>3, <1>4 DEF Queued
  <2>2. ASSUME NEW i \in (n + 1)..Len(q)
        PROVE  i - n \in 1..(Len(q) - n) /\ n + (i - n) = i
    BY <1>1, <1>2
  <2>3. ASSUME NEW i \in 1..(Len(q) - n)
        PROVE  n + i \in (n + 1)..Len(q)
    BY <1>1, <1>2
  <2>4. ASSUME NEW x
        PROVE  x \in Queued(drained) <=> x \in {q[i] : i \in (n + 1)..Len(q)}
    BY <2>1, <2>2, <2>3
  <2> QED BY <2>4
<1>6. Queued(level) = popped \cup Queued(drained)
  <2>1. \A i \in 1..Len(q) : i \in 1..n \/ i \in (n + 1)..Len(q)
    BY <1>1, <1>2
  <2>2. 1..n \subseteq 1..Len(q) /\ (n + 1)..Len(q) \subseteq 1..Len(q)
    BY <1>1, <1>2
  <2> QED BY <2>1, <2>2, <1>5 DEF Queued
<1>7. popped \cap Queued(drained) = {}
  BY <1>5, <1>1, <1>2
<1>8. popped \subseteq level.cancelled
  BY <1>2
<1> HIDE DEF popped
<1>9. Alive(drained) = Alive(level) /\ drained.cancelled \subseteq Queued(drained)
  BY <1>1, <1>3, <1>6, <1>7, <1>8 DEF Alive
<1>10. \A i, j \in 1..Len(rest) : rest[i] = rest[j] => i = j
  BY <1>1, <1>2, <1>4
<1>11. Proper(drained)
  BY <1>3, <1>9, <1>10 DEF Proper
<1>12. Alive(drained) # {} => rest # <<>>
  BY <1>3 DEF Alive, Queued
<1>13. ASSUME rest # <<>> PROVE rest[1] \in Alive(level)
  <2>1. n < Len(q) /\ rest[1] = q[n + 1]
    BY <1>13, <1>1, <1>2, <1>4
  <2> QED BY <2>1, <1>1, <1>2 DEF Alive, Queued
<1> QED BY <1>3, <1>6, <1>9, <1>11, <1>12, <1>13 DEF drained

(* A level with a live id, once drained, has nothing more to drain. *)
LEMMA DrainTwice ==
  ASSUME NEW level, Proper(level), Alive(level) # {}
  PROVE  drain_cancelled(drain_cancelled(level)).queue = drain_cancelled(level).queue
<1> DEFINE drained == drain_cancelled(level)
<1>1. /\ Proper(drained) /\ drained.queue # <<>>
      /\ drained.queue[1] \in Alive(drained)
  BY DrainAlive
<1> HIDE DEF drained
<1>2. /\ drained \in Levels /\ drained.queue \in Seq(Ids)
      /\ Len(drained.queue) \in Nat \ {0}
      /\ drained.queue[1] \notin drained.cancelled
  BY <1>1 DEF Proper, Levels, Alive
<1>3. DrainCount(drained) = 0
  BY <1>2, DrainCountType DEF DrainableAt
<1>4. drain_cancelled(drained).queue = drained.queue
  BY <1>2, <1>3, SubSeqFull DEF drain_cancelled, Levels
<1> QED BY <1>4 DEF drained

LEMMA PushAlive ==
  ASSUME NEW level, Proper(level), NEW id \in Ids, id \notin Queued(level),
         NEW qty \in Nat
  PROVE  /\ Proper(push_back(level, id, qty))
         /\ Alive(push_back(level, id, qty)) = Alive(level) \cup {id}
         /\ Queued(push_back(level, id, qty)) = Queued(level) \cup {id}
<1> DEFINE q == level.queue
           longer == Append(q, id)
           pushed == push_back(level, id, qty)
<1>1. /\ level \in Levels /\ q \in Seq(Ids) /\ Len(q) \in Nat
      /\ level.total_volume \in Nat /\ level.cancelled \subseteq Ids
      /\ level.cancelled \subseteq Queued(level)
      /\ \A i, j \in 1..Len(q) : q[i] = q[j] => i = j
  BY DEF Proper, Levels
<1>2. /\ longer \in Seq(Ids) /\ Len(longer) = Len(q) + 1
      /\ \A i \in 1..Len(q) : longer[i] = q[i]
      /\ longer[Len(q) + 1] = id
  BY <1>1, AppendProperties
<1> HIDE DEF longer
<1>3. pushed \in Levels /\ pushed.queue = longer /\ pushed.cancelled = level.cancelled
  <2>1. pushed = [level EXCEPT !.queue = longer,
                               !.total_volume = level.total_volume + qty]
    BY DEF push_back, longer
  <2>2. level.total_volume + qty \in Nat
    BY <1>1
  <2> HIDE DEF pushed
  <2> QED BY <1>1, <1>2, <2>1, <2>2 DEF Levels
<1> HIDE DEF pushed
<1>4. \A i \in 1..(Len(q) + 1) : i \in 1..Len(q) \/ i = Len(q) + 1
  BY <1>1
<1>5. 1..Len(q) \subseteq 1..(Len(q) + 1) /\ Len(q) + 1 \in 1..(Len(q) + 1)
  BY <1>1
<1>6. Queued(pushed) = Queued(level) \cup {id}
  BY <1>2, <1>3, <1>4, <1>5 DEF Queued
<1>7. \A i \in 1..Len(q) : q[i] # id
  BY DEF Queued
<1>8. \A i, j \in 1..(Len(q) + 1) : longer[i] = longer[j] => i = j
  BY <1>1, <1>2, <1>4, <1>7
<1>9. Proper(pushed)
  BY <1>1, <1>2, <1>3, <1>6, <1>8 DEF Proper
<1>10. Alive(pushed) = Alive(level) \cup {id}
  BY <1>1, <1>3, <1>6 DEF Alive
<1> QED BY <1>6, <1>9, <1>10 DEF pushed

LEMMA ReduceAlive ==
  ASSUME NEW level, Proper(level), NEW qty \in Nat
  PROVE  /\ Proper(reduce_front_volume(level, qty))
         /\ Alive(reduce_front_volume(level, qty)) = Alive(level)
         /\ Queued(reduce_front_volume(level, qty)) = Queued(level)
<1> DEFINE less == reduce_front_volume(level, qty)
<1>1. level \in Levels /\ ClampedMinus(level.total_volume, qty) \in Nat
  BY DEF ClampedMinus, Levels, Proper
<1>2. less \in Levels /\ less.queue = level.queue /\ less.cancelled = level.cancelled
  BY <1>1 DEF reduce_front_volume, Levels
<1> HIDE DEF less
<1>3. Proper(less) /\ Alive(less) = Alive(level) /\ Queued(less) = Queued(level)
  BY <1>2 DEF Proper, Alive, Queued
<1> QED BY <1>3 DEF less

LEMMA RemoveAlive ==
  ASSUME NEW level, Proper(level), NEW id \in Queued(level), NEW qty \in Nat
  PROVE  /\ Proper(remove(level, id, qty))
         /\ Alive(remove(level, id, qty)) = Alive(level) \ {id}
         /\ Queued(remove(level, id, qty)) = Queued(level)
<1> DEFINE marked == [level EXCEPT !.cancelled = level.cancelled \cup {id}]
<1>1. level \in Levels /\ id \in Ids
  BY ElementOfSeq DEF Proper, Levels, Queued
<1>2. /\ marked \in Levels /\ marked.queue = level.queue
      /\ marked.cancelled = level.cancelled \cup {id}
  BY <1>1 DEF Levels
<1> HIDE DEF marked
<1>3. Proper(marked) /\ Alive(marked) = Alive(level) \ {id} /\ Queued(marked) = Queued(level)
  BY <1>2 DEF Proper, Alive, Queued
<1> QED BY <1>3, ReduceAlive DEF remove, marked

(* An iceberg leaves the front and comes back behind the others. *)
LEMMA PopPushAlive ==
  ASSUME NEW level, Proper(level), Alive(level) # {},
         NEW qty \in Nat, NEW peak \in Nat
  PROVE  LET id  == drain_cancelled(level).queue[1]
             new == push_back(pop_front(level, qty), id, peak)
         IN  /\ Proper(new)
             /\ Alive(new) = Alive(level)
             /\ Queued(new) \subseteq Queued(level)
<1> DEFINE drained == drain_cancelled(level)
           q       == drained.queue
           id      == q[1]
           tail    == [drained EXCEPT !.queue = Tail(q)]
           popped  == pop_front(level, qty)
           new     == push_back(popped, id, peak)
<1>1. /\ Proper(drained) /\ Alive(drained) = Alive(level)
      /\ Queued(drained) \subseteq Queued(level)
      /\ q # <<>> /\ id \in Alive(drained)
  BY DrainAlive
<1> HIDE DEF drained
<1>2. /\ drained \in Levels /\ q \in Seq(Ids) /\ Len(q) \in Nat \ {0}
      /\ drained.cancelled \subseteq Queued(drained)
      /\ \A i, j \in 1..Len(q) : q[i] = q[j] => i = j
  BY <1>1 DEF Proper, Levels
<1>3. /\ Tail(q) \in Seq(Ids) /\ Len(Tail(q)) = Len(q) - 1
      /\ \A i \in 1..(Len(q) - 1) : Tail(q)[i] = q[i + 1]
  BY <1>1, <1>2, HeadTailProperties
<1>4. tail \in Levels /\ tail.queue = Tail(q) /\ tail.cancelled = drained.cancelled
  BY <1>2, <1>3 DEF Levels
<1> HIDE DEF tail
<1>5. Queued(drained) = Queued(tail) \cup {id} /\ id \notin Queued(tail)
  <2>1. \A i \in 1..Len(q) : i = 1 \/ (i - 1 \in 1..(Len(q) - 1) /\ (i - 1) + 1 = i)
    BY <1>2
  <2>2. \A i \in 1..(Len(q) - 1) : i + 1 \in 1..Len(q) /\ i + 1 # 1
    BY <1>2
  <2>3. 1 \in 1..Len(q)
    BY <1>2
  <2>4. Queued(tail) = {q[i + 1] : i \in 1..(Len(q) - 1)}
    BY <1>3, <1>4 DEF Queued
  <2>5. id \notin Queued(tail)
    BY <2>2, <2>3, <2>4, <1>2
  <2>6. Queued(drained) = Queued(tail) \cup {id}
    BY <2>1, <2>2, <2>3, <2>4 DEF Queued
  <2> QED BY <2>5, <2>6
<1>6. id \in Ids /\ id \notin drained.cancelled
  BY <1>1, <1>2 DEF Alive, Levels
<1>7. \A i, j \in 1..(Len(q) - 1) : Tail(q)[i] = Tail(q)[j] => i = j
  <2>1. \A i \in 1..(Len(q) - 1) : i + 1 \in 1..Len(q)
    BY <1>2
  <2>2. \A i, j \in 1..(Len(q) - 1) : i + 1 = j + 1 => i = j
    BY <1>2
  <2> QED BY <1>2, <1>3, <2>1, <2>2
<1>8. Proper(tail) /\ Alive(drained) = Alive(tail) \cup {id}
  BY <1>2, <1>3, <1>4, <1>5, <1>6, <1>7 DEF Proper, Alive
<1>9. Proper(popped) /\ Alive(popped) = Alive(tail) /\ Queued(popped) = Queued(tail)
  BY <1>8, ReduceAlive DEF pop_front, tail, drained
<1> HIDE DEF id, popped
<1>10. Proper(new) /\ Alive(new) = Alive(popped) \cup {id} /\ Queued(new) = Queued(popped) \cup {id}
  BY <1>5, <1>6, <1>9, PushAlive
<1>11. Proper(new) /\ Alive(new) = Alive(level) /\ Queued(new) \subseteq Queued(level)
  BY <1>1, <1>5, <1>8, <1>9, <1>10
<1> QED BY <1>11 DEF new, popped, id, drained

-----------------------------------------------------------------------------
(* The book: the live ids of every level are exactly the orders id_map_    *)
(* places there, and a level without any is not in the map.                *)
Located(b, side, price) ==
  {id \in DOMAIN b.id_map : b.id_map[id].side = side /\ b.id_map[id].price = price}

LevelSound(b, side, price) ==
  IF HasLevel(b, side, price)
  THEN /\ Proper(b.levels[side][price])
       /\ Alive(b.levels[side][price]) = Located(b, side, price)
       /\ Located(b, side, price) # {}
  ELSE Located(b, side, price) = {}

Sound(b) ==
  /\ IsBook(b)
  /\ \A id \in DOMAIN b.id_map : b.id_map[id].id = id
  /\ \A side \in Sides : \A price \in Prices : LevelSound(b, side, price)

(* Nothing in the book knows the id. *)
Absent(b, id) ==
  /\ ~has_order(b, id)
  /\ \A side \in Sides : \A price \in DOMAIN b.levels[side] :
       id \notin Queued(b.levels[side][price])

LEMMA PutType ==
  ASSUME NEW Keys, NEW Values, NEW map, IsMap(map, Keys, Values),
         NEW key \in Keys, NEW value \in Values
  PROVE  /\ IsMap(Put(map, key, value), Keys, Values)
         /\ DOMAIN Put(map, key, value) = DOMAIN map \cup {key}
         /\ Put(map, key, value)[key] = value
         /\ \A k \in DOMAIN map : k # key => Put(map, key, value)[k] = map[k]
  BY DEF IsMap, Put

LEMMA EraseType ==
  ASSUME NEW Keys, NEW Values, NEW map, IsMap(map, Keys, Values), NEW key
  PROVE  /\ IsMap(Erase(map, key), Keys, Values)
         /\ DOMAIN Erase(map, key) = DOMAIN map \ {key}
         /\ \A k \in DOMAIN map : k # key => Erase(map, key)[k] = map[k]
  BY DEF IsMap, Erase, Restrict

LEMMA LevelType ==
  ASSUME NEW b, IsBook(b), NEW side \in Sides, NEW price, HasLevel(b, side, price)
  PROVE  b.levels[side][price] \in Levels /\ price \in Prices
  BY DEF IsBook, IsMap, HasLevel

LEMMA OrderInBook ==
  ASSUME NEW b, IsBook(b), NEW id, has_order(b, id)
  PROVE  b.id_map[id] \in Orders /\ id \in Ids
  BY DEF IsBook, IsMap, has_order

LEMMA OrderFields ==
  ASSUME NEW order \in Orders
  PROVE  /\ order.id \in Ids /\ order.side \in Sides /\ order.price \in Prices
         /\ order.quantity \in Nat /\ order.reserve_qty \in Nat
         /\ order.peak_qty \in Nat /\ visible_qty(order) \in Nat
  BY DEF visible_qty, Orders

LEMMA SetLevelFields ==
  ASSUME NEW b, IsBook(b), NEW side \in Sides, NEW price \in Prices,
         NEW level \in Levels
  PROVE  LET c == SetLevel(b, side, price, level)
         IN  /\ IsBook(c) /\ c.id_map = b.id_map
             /\ HasLevel(c, side, price) /\ c.levels[side][price] = level
             /\ \A s \in Sides : \A p : <<s, p>> # <<side, price>> =>
                  /\ HasLevel(c, s, p) <=> HasLevel(b, s, p)
                  /\ HasLevel(b, s, p) => c.levels[s][p] = b.levels[s][p]
<1> DEFINE put == Put(b.levels[side], price, level)
           c == SetLevel(b, side, price, level)
<1>1. /\ IsMap(put, Prices, Levels)
      /\ DOMAIN put = DOMAIN b.levels[side] \cup {price}
      /\ put[price] = level
      /\ \A k \in DOMAIN b.levels[side] : k # price => put[k] = b.levels[side][k]
  BY PutType DEF IsBook
<1> HIDE DEF put
<1>2. c = [b EXCEPT !.levels = [b.levels EXCEPT ![side] = put]]
  BY DEF SetLevel, put
<1> HIDE DEF c
<1>3. /\ IsBook(c) /\ c.id_map = b.id_map
      /\ c.levels[side] = put
      /\ \A s \in Sides : s # side => c.levels[s] = b.levels[s]
  BY <1>1, <1>2 DEF IsBook
<1>4. HasLevel(c, side, price) /\ c.levels[side][price] = level
  BY <1>1, <1>3 DEF HasLevel
<1>5. ASSUME NEW s \in Sides, NEW p, <<s, p>> # <<side, price>>
      PROVE  /\ HasLevel(c, s, p) <=> HasLevel(b, s, p)
             /\ HasLevel(b, s, p) => c.levels[s][p] = b.levels[s][p]
  BY <1>1, <1>3, <1>5 DEF HasLevel
<1> QED BY <1>3, <1>4, <1>5 DEF c

LEMMA EraseLevelFields ==
  ASSUME NEW b, IsBook(b), NEW side \in Sides, NEW price
  PROVE  LET c == EraseLevel(b, side, price)
         IN  /\ IsBook(c) /\ c.id_map = b.id_map
             /\ ~HasLevel(c, side, price)
             /\ \A s \in Sides : \A p : <<s, p>> # <<side, price>> =>
                  /\ HasLevel(c, s, p) <=> HasLevel(b, s, p)
                  /\ HasLevel(b, s, p) => c.levels[s][p] = b.levels[s][p]
<1> DEFINE less == Erase(b.levels[side], price)
           c == EraseLevel(b, side, price)
<1>1. /\ IsMap(less, Prices, Levels)
      /\ DOMAIN less = DOMAIN b.levels[side] \ {price}
      /\ \A k \in DOMAIN b.levels[side] : k # price => less[k] = b.levels[side][k]
  <2>1. IsMap(b.levels[side], Prices, Levels)
    BY DEF IsBook
  <2> QED BY <2>1 DEF IsMap, Erase, Restrict
<1> HIDE DEF less
<1>2. c = [b EXCEPT !.levels = [b.levels EXCEPT ![side] = less]]
  BY DEF EraseLevel, less
<1> HIDE DEF c
<1>3. /\ IsBook(c) /\ c.id_map = b.id_map
      /\ c.levels[side] = less
      /\ \A s \in Sides : s # side => c.levels[s] = b.levels[s]
  BY <1>1, <1>2 DEF IsBook
<1>4. ~HasLevel(c, side, price)
  BY <1>1, <1>3 DEF HasLevel
<1>5. ASSUME NEW s \in Sides, NEW p, <<s, p>> # <<side, price>>
      PROVE  /\ HasLevel(c, s, p) <=> HasLevel(b, s, p)
             /\ HasLevel(b, s, p) => c.levels[s][p] = b.levels[s][p]
  BY <1>1, <1>3, <1>5 DEF HasLevel
<1> QED BY <1>3, <1>4, <1>5 DEF c

LEMMA SetOrdersFields ==
  ASSUME NEW b, IsBook(b), NEW map, IsMap(map, Ids, Orders)
  PROVE  LET c == [b EXCEPT !.id_map = map]
         IN  IsBook(c) /\ c.levels = b.levels /\ c.id_map = map
<1> DEFINE c == [b EXCEPT !.id_map = map]
<1>1. c = [levels |-> b.levels, id_map |-> map, last_trade_price |-> b.last_trade_price]
  BY DEF IsBook
<1> HIDE DEF c
<1>2. IsBook(c) /\ c.levels = b.levels /\ c.id_map = map
  BY <1>1 DEF IsBook
<1> QED BY <1>2 DEF c

(* A level may change as long as its live ids stay. *)
LEMMA SetLevelSound ==
  ASSUME NEW b, Sound(b), NEW side \in Sides, NEW price, HasLevel(b, side, price),
         NEW level, Proper(level), Alive(level) = Alive(b.levels[side][price]),
         Queued(level) \subseteq Queued(b.levels[side][price])
  PROVE  LET c == SetLevel(b, side, price, level)
         IN  /\ Sound(c) /\ c.id_map = b.id_map
             /\ HasLevel(c, side, price) /\ c.levels[side][price] = level
             /\ \A id : Absent(b, id) => Absent(c, id)
<1> DEFINE c == SetLevel(b, side, price, level)
<1>1. IsBook(b) /\ level \in Levels /\ price \in Prices
  BY LevelType DEF Sound, Proper
<1>2. /\ IsBook(c) /\ c.id_map = b.id_map
      /\ HasLevel(c, side, price) /\ c.levels[side][price] = level
      /\ \A s \in Sides : \A p : <<s, p>> # <<side, price>> =>
           /\ HasLevel(c, s, p) <=> HasLevel(b, s, p)
           /\ HasLevel(b, s, p) => c.levels[s][p] = b.levels[s][p]
  BY <1>1, SetLevelFields
<1> HIDE DEF c
<1>3. \A s, p : Located(c, s, p) = Located(b, s, p)
  BY <1>2 DEF Located
<1>4. ASSUME NEW s \in Sides, NEW p \in Prices
      PROVE  LevelSound(c, s, p)
  <2>1. LevelSound(b, s, p)
    BY DEF Sound
  <2>2. CASE <<s, p>> = <<side, price>>
    BY <2>1, <2>2, <1>2, <1>3 DEF LevelSound
  <2>3. CASE <<s, p>> # <<side, price>>
    BY <2>1, <2>3, <1>2, <1>3 DEF LevelSound
  <2> QED BY <2>2, <2>3
<1>5. Sound(c)
  BY <1>2, <1>4 DEF Sound
<1>6. ASSUME NEW id, Absent(b, id) PROVE Absent(c, id)
  <2>1. ~has_order(c, id)
    BY <1>2, <1>6 DEF Absent, has_order
  <2>2. ASSUME NEW s \in Sides, NEW p \in DOMAIN c.levels[s]
        PROVE  id \notin Queued(c.levels[s][p])
    BY <1>2, <1>6 DEF Absent, HasLevel
  <2> QED BY <2>1, <2>2 DEF Absent
<1> QED BY <1>2, <1>5, <1>6 DEF c

LEMMA ReduceLevelSound ==
  ASSUME NEW b, Sound(b), NEW side \in Sides, NEW price, NEW delta \in Nat
  PROVE  LET c == reduce_level_volume(b, side, price, delta)
         IN  /\ Sound(c) /\ c.id_map = b.id_map
             /\ \A id : Absent(b, id) => Absent(c, id)
<1>1. CASE HasLevel(b, side, price)
  <2>1. Proper(b.levels[side][price])
    BY <1>1, LevelType DEF Sound, LevelSound
  <2> QED BY <1>1, <2>1, ReduceAlive, SetLevelSound DEF reduce_level_volume
<1>2. CASE ~HasLevel(b, side, price)
  BY <1>2 DEF reduce_level_volume
<1> QED BY <1>1, <1>2

(* An order may change where it stands. *)
LEMMA UpdateSound ==
  ASSUME NEW b, Sound(b), NEW order \in Orders, has_order(b, order.id),
         order.side = b.id_map[order.id].side, order.price = b.id_map[order.id].price
  PROVE  LET c == update_order(b, order)
         IN  /\ Sound(c) /\ c.levels = b.levels
             /\ has_order(c, order.id) /\ c.id_map[order.id] = order
             /\ \A id : Absent(b, id) => Absent(c, id)
<1> DEFINE c == update_order(b, order)
           map == Put(b.id_map, order.id, order)
<1>1. IsBook(b) /\ IsMap(b.id_map, Ids, Orders) /\ order.id \in Ids
  BY OrderFields DEF Sound, IsBook
<1>2. /\ IsMap(map, Ids, Orders)
      /\ DOMAIN map = DOMAIN b.id_map
      /\ map[order.id] = order
      /\ \A k \in DOMAIN b.id_map : k # order.id => map[k] = b.id_map[k]
  BY <1>1 DEF IsMap, Put, has_order
<1>3. IsBook(c) /\ c.levels = b.levels /\ c.id_map = map
  BY <1>1, <1>2, SetOrdersFields DEF update_order
<1> HIDE DEF c, map
<1>4. \A s, p : Located(c, s, p) = Located(b, s, p)
  BY <1>2, <1>3 DEF Located
<1>5. \A s, p : LevelSound(b, s, p) <=> LevelSound(c, s, p)
  BY <1>3, <1>4 DEF LevelSound, HasLevel
<1>6. \A id \in DOMAIN c.id_map : c.id_map[id].id = id
  BY <1>2, <1>3 DEF Sound
<1>7. Sound(c)
  BY <1>3, <1>5, <1>6 DEF Sound
<1>8. \A id : Absent(b, id) => Absent(c, id)
  BY <1>2, <1>3 DEF Absent, has_order
<1> QED BY <1>2, <1>3, <1>7, <1>8 DEF c, has_order

(* What insert_order leaves, c, of a book b: the level the order joins,    *)
(* which may be a new one, with the id at its end, and the other levels as *)
(* they were.                                                              *)
Inserts(b, order, level, entry, c) ==
  /\ order.id \in Ids /\ order.side \in Sides /\ order.price \in Prices
  /\ visible_qty(order) \in Nat
  /\ Proper(level) /\ Alive(level) = Located(b, order.side, order.price)
  /\ order.id \notin Queued(level)
  /\ Proper(entry)
  /\ Alive(entry) = Located(b, order.side, order.price) \cup {order.id}
  /\ Queued(entry) = Queued(level) \cup {order.id}
  /\ IsBook(c)
  /\ DOMAIN c.id_map = DOMAIN b.id_map \cup {order.id}
  /\ c.id_map[order.id] = order
  /\ \A k \in DOMAIN b.id_map : k # order.id => c.id_map[k] = b.id_map[k]
  /\ HasLevel(c, order.side, order.price) /\ c.levels[order.side][order.price] = entry
  /\ \A s \in Sides : \A p : <<s, p>> # <<order.side, order.price>> =>
       /\ HasLevel(c, s, p) <=> HasLevel(b, s, p)
       /\ HasLevel(b, s, p) => c.levels[s][p] = b.levels[s][p]

LEMMA InsertFields ==
  ASSUME NEW b, Sound(b), NEW order \in Orders, ~has_order(b, order.id),
         HasLevel(b, order.side, order.price) =>
           order.id \notin Queued(b.levels[order.side][order.price])
  PROVE  LET level == IF HasLevel(b, order.side, order.price)
                      THEN b.levels[order.side][order.price] ELSE EmptyLevel
             entry == push_back(level, order.id, visible_qty(order))
         IN  Inserts(b, order, level, entry, insert_order(b, order))
<1> DEFINE side  == order.side
           price == order.price
           level == IF HasLevel(b, side, price) THEN b.levels[side][price] ELSE EmptyLevel
           entry == push_back(level, order.id, visible_qty(order))
           set   == SetLevel(b, side, price, entry)
           map   == Put(b.id_map, order.id, order)
           c     == [set EXCEPT !.id_map = map]
<1>1. /\ IsBook(b) /\ IsMap(b.id_map, Ids, Orders) /\ order.id \in Ids
      /\ side \in Sides /\ price \in Prices /\ visible_qty(order) \in Nat
  BY OrderFields DEF Sound, IsBook
<1>2. /\ Proper(level) /\ Alive(level) = Located(b, side, price)
      /\ order.id \notin Queued(level)
  <2>1. LevelSound(b, side, price)
    BY <1>1 DEF Sound
  <2>2. CASE HasLevel(b, side, price)
    BY <2>1, <2>2 DEF LevelSound
  <2>3. CASE ~HasLevel(b, side, price)
    <3>1. Proper(EmptyLevel) /\ Queued(EmptyLevel) = {} /\ Alive(EmptyLevel) = {}
      BY DEF EmptyLevel, Proper, Levels, Queued, Alive
    <3> QED BY <2>1, <2>3, <3>1 DEF LevelSound
  <2> QED BY <2>2, <2>3
<1>3. /\ Proper(entry) /\ Alive(entry) = Located(b, side, price) \cup {order.id}
      /\ Queued(entry) = Queued(level) \cup {order.id}
  <2> HIDE DEF level
  <2> QED BY <1>1, <1>2, PushAlive
<1>4. /\ IsMap(map, Ids, Orders)
      /\ DOMAIN map = DOMAIN b.id_map \cup {order.id}
      /\ map[order.id] = order
      /\ \A k \in DOMAIN b.id_map : k # order.id => map[k] = b.id_map[k]
  <2> DEFINE old == b.id_map
             key == order.id
  <2>1. IsMap(old, Ids, Orders) /\ key \in Ids /\ order \in Orders /\ map = Put(old, key, order)
    BY <1>1
  <2> HIDE DEF old, key, map
  <2>2. /\ IsMap(map, Ids, Orders)
        /\ DOMAIN map = DOMAIN old \cup {key}
        /\ map[key] = order
        /\ \A k \in DOMAIN old : k # key => map[k] = old[k]
    BY <2>1 DEF IsMap, Put
  <2> QED BY <2>2 DEF old, key
<1> HIDE DEF entry
<1>5. /\ IsBook(set)
      /\ HasLevel(set, side, price) /\ set.levels[side][price] = entry
      /\ \A s \in Sides : \A p : <<s, p>> # <<side, price>> =>
           /\ HasLevel(set, s, p) <=> HasLevel(b, s, p)
           /\ HasLevel(b, s, p) => set.levels[s][p] = b.levels[s][p]
  BY <1>1, <1>3, SetLevelFields DEF Proper
<1> HIDE DEF set, map
<1>6. IsBook(c) /\ c.levels = set.levels /\ c.id_map = map
  BY <1>4, <1>5, SetOrdersFields
<1> HIDE DEF c
<1>7. /\ HasLevel(c, side, price) /\ c.levels[side][price] = entry
      /\ \A s \in Sides : \A p : <<s, p>> # <<side, price>> =>
           /\ HasLevel(c, s, p) <=> HasLevel(b, s, p)
           /\ HasLevel(b, s, p) => c.levels[s][p] = b.levels[s][p]
  BY <1>5, <1>6 DEF HasLevel
<1>8. c = insert_order(b, order)
  BY DEF c, set, map, entry, insert_order
<1> HIDE DEF level
<1>9. Inserts(b, order, level, entry, c)
  BY <1>1, <1>2, <1>3, <1>4, <1>6, <1>7 DEF Inserts
<1> QED BY <1>8, <1>9 DEF entry, level

LEMMA InsertSound ==
  ASSUME NEW b, Sound(b), NEW order \in Orders, ~has_order(b, order.id),
         HasLevel(b, order.side, order.price) =>
           order.id \notin Queued(b.levels[order.side][order.price])
  PROVE  LET c == insert_order(b, order)
         IN  /\ Sound(c)
             /\ \A id : Absent(b, id) /\ id # order.id => Absent(c, id)
<1> DEFINE side  == order.side
           price == order.price
           level == IF HasLevel(b, side, price) THEN b.levels[side][price] ELSE EmptyLevel
           entry == push_back(level, order.id, visible_qty(order))
           c     == insert_order(b, order)
<1>0. Inserts(b, order, level, entry, c)
  BY InsertFields
<1> HIDE DEF level, entry, c
<1>1. /\ side \in Sides
      /\ Proper(entry) /\ Alive(entry) = Located(b, side, price) \cup {order.id}
      /\ Queued(entry) = Queued(level) \cup {order.id}
      /\ IsBook(c) /\ DOMAIN c.id_map = DOMAIN b.id_map \cup {order.id}
      /\ c.id_map[order.id] = order
      /\ \A k \in DOMAIN b.id_map : k # order.id => c.id_map[k] = b.id_map[k]
      /\ HasLevel(c, side, price) /\ c.levels[side][price] = entry
      /\ \A s \in Sides : \A p : <<s, p>> # <<side, price>> =>
           /\ HasLevel(c, s, p) <=> HasLevel(b, s, p)
           /\ HasLevel(b, s, p) => c.levels[s][p] = b.levels[s][p]
  BY <1>0 DEF Inserts
<1>2. /\ Located(c, side, price) = Located(b, side, price) \cup {order.id}
      /\ \A s, p : <<s, p>> # <<side, price>> => Located(c, s, p) = Located(b, s, p)
  BY <1>1 DEF Located, has_order
<1>3. ASSUME NEW s \in Sides, NEW p \in Prices PROVE LevelSound(c, s, p)
  <2>1. LevelSound(b, s, p)
    BY DEF Sound
  <2>2. CASE <<s, p>> = <<side, price>>
    BY <2>2, <1>1, <1>2 DEF LevelSound
  <2>3. CASE <<s, p>> # <<side, price>>
    BY <2>1, <2>3, <1>1, <1>2 DEF LevelSound
  <2> QED BY <2>2, <2>3
<1>4. \A id \in DOMAIN c.id_map : c.id_map[id].id = id
  BY <1>1 DEF Sound
<1>5. Sound(c)
  BY <1>1, <1>3, <1>4 DEF Sound
<1>6. ASSUME NEW id, Absent(b, id), id # order.id PROVE Absent(c, id)
  <2>1. ~has_order(c, id)
    BY <1>1, <1>6 DEF Absent, has_order
  <2>2. id \notin Queued(entry)
    <3>1. Queued(EmptyLevel) = {}
      BY DEF EmptyLevel, Queued
    <3> QED BY <1>1, <1>6, <3>1 DEF Absent, HasLevel, level
  <2>3. ASSUME NEW s \in Sides, NEW p \in DOMAIN c.levels[s]
        PROVE  id \notin Queued(c.levels[s][p])
    BY <2>2, <1>1, <1>6 DEF Absent, HasLevel
  <2> QED BY <2>1, <2>3 DEF Absent
<1> QED BY <1>5, <1>6 DEF c

(* What cancel_order leaves, c, of a book b: the level of the order with   *)
(* its id marked and drained, unless no live id is left, and the other     *)
(* levels as they were.                                                    *)
Cancels(b, order, marked, c) ==
  /\ order.id \in DOMAIN b.id_map /\ order.side \in Sides /\ order.price \in Prices
  /\ visible_qty(order) \in Nat
  /\ HasLevel(b, order.side, order.price)
  /\ Proper(b.levels[order.side][order.price])
  /\ order.id \in Queued(b.levels[order.side][order.price])
  /\ Proper(marked)
  /\ Alive(marked) = Located(b, order.side, order.price) \ {order.id}
  /\ Queued(marked) \subseteq Queued(b.levels[order.side][order.price])
  /\ IsBook(c)
  /\ DOMAIN c.id_map = DOMAIN b.id_map \ {order.id}
  /\ \A k \in DOMAIN b.id_map : k # order.id => c.id_map[k] = b.id_map[k]
  /\ HasLevel(c, order.side, order.price) <=> Alive(marked) # {}
  /\ HasLevel(c, order.side, order.price) => c.levels[order.side][order.price] = marked
  /\ \A s \in Sides : \A p : <<s, p>> # <<order.side, order.price>> =>
       /\ HasLevel(c, s, p) <=> HasLevel(b, s, p)
       /\ HasLevel(b, s, p) => c.levels[s][p] = b.levels[s][p]

LEMMA CancelFields ==
  ASSUME NEW b, Sound(b), NEW id, has_order(b, id)
  PROVE  LET order  == b.id_map[id]
             level  == b.levels[order.side][order.price]
             marked == drain_cancelled(remove(level, order.id, visible_qty(order)))
         IN  order.id = id /\ Cancels(b, order, marked, cancel_order(b, id))
<1> DEFINE order == b.id_map[id]
           side  == order.side
           price == order.price
           level == b.levels[side][price]
           marked == drain_cancelled(remove(level, order.id, visible_qty(order)))
           left  == LeaveLevel(b, order)
           map   == Erase(b.id_map, id)
           c     == [left EXCEPT !.id_map = map]
<1>1. /\ IsBook(b) /\ IsMap(b.id_map, Ids, Orders) /\ order \in Orders
      /\ order.id = id
  BY OrderInBook DEF Sound, IsBook, has_order
<1>2. side \in Sides /\ price \in Prices /\ visible_qty(order) \in Nat
  BY <1>1, OrderFields
<1>3. /\ id \in Located(b, side, price) /\ HasLevel(b, side, price)
      /\ Proper(level) /\ Alive(level) = Located(b, side, price)
  <2>1. id \in Located(b, side, price)
    BY DEF Located, has_order
  <2>2. LevelSound(b, side, price)
    BY <1>2 DEF Sound
  <2> QED BY <2>1, <2>2 DEF LevelSound
<1>4. /\ Proper(marked) /\ Alive(marked) = Located(b, side, price) \ {id}
      /\ Queued(marked) \subseteq Queued(level)
      /\ marked.queue = <<>> <=> Alive(marked) = {}
  <2> DEFINE removed == remove(level, order.id, visible_qty(order))
  <2>1. id \in Queued(level)
    BY <1>3 DEF Alive
  <2> HIDE DEF level, order
  <2>2. /\ Proper(removed) /\ Alive(removed) = Located(b, side, price) \ {id}
        /\ Queued(removed) = Queued(level)
    BY <1>1, <1>2, <1>3, <2>1, RemoveAlive
  <2> HIDE DEF removed
  <2>3. /\ Proper(drain_cancelled(removed))
        /\ Alive(drain_cancelled(removed)) = Alive(removed)
        /\ Queued(drain_cancelled(removed)) \subseteq Queued(removed)
        /\ drain_cancelled(removed).queue = <<>> <=> Alive(removed) = {}
    BY <2>2, DrainAlive
  <2> QED BY <2>2, <2>3 DEF removed
<1>5. /\ IsMap(map, Ids, Orders)
      /\ DOMAIN map = DOMAIN b.id_map \ {id}
      /\ \A k \in DOMAIN b.id_map : k # id => map[k] = b.id_map[k]
  BY <1>1 DEF IsMap, Erase, Restrict
<1>6. /\ IsBook(left)
      /\ HasLevel(left, side, price) <=> Alive(marked) # {}
      /\ HasLevel(left, side, price) => left.levels[side][price] = marked
      /\ \A s \in Sides : \A p : <<s, p>> # <<side, price>> =>
           /\ HasLevel(left, s, p) <=> HasLevel(b, s, p)
           /\ HasLevel(b, s, p) => left.levels[s][p] = b.levels[s][p]
  <2>1. left = IF marked.queue = <<>> THEN EraseLevel(b, side, price)
               ELSE SetLevel(b, side, price, marked)
    BY DEF LeaveLevel
  <2>2. marked \in Levels
    BY <1>4 DEF Proper
  <2> HIDE DEF left, marked, side, price
  <2>3. CASE marked.queue = <<>>
    BY <2>1, <2>3, <1>1, <1>2, <1>4, EraseLevelFields
  <2>4. CASE marked.queue # <<>>
    BY <2>1, <2>2, <2>4, <1>1, <1>2, <1>4, SetLevelFields
  <2> QED BY <2>3, <2>4
<1>7. c = cancel_order(b, id)
  BY <1>3 DEF cancel_order
<1> HIDE DEF left, map, marked
<1>8. IsBook(c) /\ c.levels = left.levels /\ c.id_map = map
  BY <1>5, <1>6, SetOrdersFields
<1> HIDE DEF c
<1>9. /\ HasLevel(c, side, price) <=> Alive(marked) # {}
      /\ HasLevel(c, side, price) => c.levels[side][price] = marked
      /\ \A s \in Sides : \A p : <<s, p>> # <<side, price>> =>
           /\ HasLevel(c, s, p) <=> HasLevel(b, s, p)
           /\ HasLevel(b, s, p) => c.levels[s][p] = b.levels[s][p]
  BY <1>6, <1>8 DEF HasLevel
<1> HIDE DEF order, side, price, level
<1>10. id \in Queued(level) /\ id \in DOMAIN b.id_map
  BY <1>3 DEF Alive, has_order
<1>11. Cancels(b, order, marked, c)
  BY <1>1, <1>2, <1>3, <1>4, <1>5, <1>8, <1>9, <1>10 DEF Cancels, side, price, level
<1> QED BY <1>1, <1>7, <1>11 DEF marked, order, side, price, level

LEMMA CancelSound ==
  ASSUME NEW b, Sound(b), NEW id, has_order(b, id)
  PROVE  LET c == cancel_order(b, id)
         IN  /\ Sound(c)
             /\ ~has_order(c, id)
             /\ \A x : Absent(b, x) => Absent(c, x)
<1> DEFINE order  == b.id_map[id]
           side   == order.side
           price  == order.price
           level  == b.levels[side][price]
           marked == drain_cancelled(remove(level, order.id, visible_qty(order)))
           c      == cancel_order(b, id)
<1>0. order.id = id /\ Cancels(b, order, marked, c)
  BY CancelFields
<1> HIDE DEF marked, c
<1>1. /\ side \in Sides /\ HasLevel(b, side, price)
      /\ Proper(marked) /\ Alive(marked) = Located(b, side, price) \ {id}
      /\ Queued(marked) \subseteq Queued(level)
      /\ IsBook(c) /\ DOMAIN c.id_map = DOMAIN b.id_map \ {id}
      /\ \A k \in DOMAIN b.id_map : k # id => c.id_map[k] = b.id_map[k]
      /\ HasLevel(c, side, price) <=> Alive(marked) # {}
      /\ HasLevel(c, side, price) => c.levels[side][price] = marked
      /\ \A s \in Sides : \A p : <<s, p>> # <<side, price>> =>
           /\ HasLevel(c, s, p) <=> HasLevel(b, s, p)
           /\ HasLevel(b, s, p) => c.levels[s][p] = b.levels[s][p]
  <2> HIDE DEF order
  <2> QED BY <1>0 DEF Cancels
<1>2. /\ Located(c, side, price) = Located(b, side, price) \ {id}
      /\ \A s, p : <<s, p>> # <<side, price>> => Located(c, s, p) = Located(b, s, p)
  BY <1>1 DEF Located, has_order
<1> HIDE DEF order, side, price, level
<1>3. ASSUME NEW s \in Sides, NEW p \in Prices PROVE LevelSound(c, s, p)
  <2>1. LevelSound(b, s, p)
    BY DEF Sound
  <2>2. CASE <<s, p>> = <<side, price>>
    BY <2>2, <1>1, <1>2 DEF LevelSound
  <2>3. CASE <<s, p>> # <<side, price>>
    BY <2>1, <2>3, <1>1, <1>2 DEF LevelSound
  <2> QED BY <2>2, <2>3
<1>4. \A k \in DOMAIN c.id_map : c.id_map[k].id = k
  BY <1>1 DEF Sound
<1>5. Sound(c)
  BY <1>1, <1>3, <1>4 DEF Sound
<1>6. ~has_order(c, id)
  BY <1>1 DEF has_order
<1>7. ASSUME NEW x, Absent(b, x) PROVE Absent(c, x)
  <2>1. ~has_order(c, x)
    BY <1>1, <1>7 DEF Absent, has_order
  <2>2. x \notin Queued(level)
    BY <1>1, <1>7 DEF Absent, HasLevel, level
  <2>3. ASSUME NEW s \in Sides, NEW p \in DOMAIN c.levels[s]
        PROVE  x \notin Queued(c.levels[s][p])
    BY <2>2, <1>1, <1>7 DEF Absent, HasLevel
  <2> QED BY <2>1, <2>3 DEF Absent
<1> QED BY <1>5, <1>6, <1>7 DEF c

(* execute_fill against the front of a level. *)
LEMMA FillSound ==
  ASSUME NEW b, Sound(b), NEW side \in Sides, NEW price, HasLevel(b, side, price),
         NEW qty \in Nat, qty <= b.id_map[FrontId(b, side, price)].quantity
  PROVE  LET id      == FrontId(b, side, price)
             passive == [b.id_map[id] EXCEPT !.quantity = b.id_map[id].quantity - qty]
             c       == AfterFill(FrontDrained(b, side, price), passive, qty)
         IN  /\ has_order(b, id)
             /\ Sound(c)
             /\ \A x : Absent(b, x) => Absent(c, x)
<1> DEFINE id      == FrontId(b, side, price)
           order   == b.id_map[id]
           passive == [order EXCEPT !.quantity = order.quantity - qty]
           level   == b.levels[side][price]
           drained == drain_cancelled(level)
           d       == FrontDrained(b, side, price)
           peak    == IF passive.peak_qty <= passive.reserve_qty
                      THEN passive.peak_qty ELSE passive.reserve_qty
           next    == [passive EXCEPT !.reserve_qty = passive.reserve_qty - peak,
                                      !.quantity = peak]
           moved   == push_back(pop_front(drained, qty), passive.id, peak)
           m       == SetLevel(d, side, price, moved)
           c       == AfterFill(d, passive, qty)
<1>1. IsBook(b) /\ price \in Prices
  BY LevelType DEF Sound
<1>2. Proper(level) /\ Alive(level) = Located(b, side, price) /\ Alive(level) # {}
  BY <1>1 DEF Sound, LevelSound
<1>3. /\ Proper(drained) /\ Alive(drained) = Alive(level)
      /\ Queued(drained) \subseteq Queued(level)
      /\ id \in Alive(level) /\ id = drained.queue[1]
  BY <1>2, DrainAlive DEF FrontId
<1>4. /\ has_order(b, id) /\ order.side = side /\ order.price = price
      /\ order \in Orders /\ order.id = id /\ id \in Ids
  <2>1. id \in Located(b, side, price)
    BY <1>2, <1>3
  <2> HIDE DEF id
  <2>2. has_order(b, id) /\ order.side = side /\ order.price = price
    BY <2>1 DEF Located, has_order
  <2> QED BY <2>2, <1>1, OrderInBook DEF Sound, has_order
<1> HIDE DEF id, order
<1>5. /\ passive \in Orders /\ passive.id = id /\ passive.side = side
      /\ passive.price = price
  <2>1. order.quantity - qty \in Nat
    BY <1>4, OrderFields DEF order, id
  <2> QED BY <1>4, <2>1 DEF Orders
<1> HIDE DEF passive
<1>6. /\ Sound(d) /\ d.id_map = b.id_map /\ HasLevel(d, side, price)
      /\ d.levels[side][price] = drained
      /\ \A x : Absent(b, x) => Absent(d, x)
  <2> HIDE DEF level, drained
  <2>1. d = SetLevel(b, side, price, drained)
    BY DEF FrontDrained, level, drained
  <2>2. level = b.levels[side][price]
    BY DEF level
  <2> QED BY <1>2, <1>3, <2>1, <2>2, SetLevelSound
<1>7. has_order(d, passive.id) /\ d.id_map[passive.id] = order
  BY <1>4, <1>5, <1>6 DEF has_order, order
<1> HIDE DEF d
<1>8. CASE passive.quantity = 0 /\ is_iceberg(passive) /\ passive.reserve_qty > 0
  <2>1. peak \in Nat /\ next \in Orders /\ next.id = id /\ next.side = side /\ next.price = price
    <3>1. peak \in Nat /\ passive.reserve_qty - peak \in Nat
      BY <1>5, OrderFields
    <3> HIDE DEF peak
    <3> QED BY <1>5, <3>1 DEF Orders
  <2>2. drain_cancelled(drained).queue[1] = id
    BY <1>2, <1>3, DrainTwice
  <2>3. /\ Proper(moved) /\ Alive(moved) = Alive(drained)
        /\ Queued(moved) \subseteq Queued(drained)
    <3> HIDE DEF drained, peak
    <3> QED BY <1>2, <1>3, <1>5, <2>1, <2>2, PopPushAlive
  <2>4. /\ Sound(m) /\ m.id_map = d.id_map
        /\ \A x : Absent(d, x) => Absent(m, x)
    <3> HIDE DEF moved, drained
    <3> QED BY <1>6, <2>3, SetLevelSound
  <2>5. c = update_order(m, next)
    BY <1>5, <1>6, <1>8 DEF AfterFill, replenish_iceberg
  <2> HIDE DEF m, next, c
  <2>6. /\ Sound(c) /\ \A x : Absent(m, x) => Absent(c, x)
    BY <1>4, <1>5, <1>7, <2>1, <2>4, <2>5, UpdateSound DEF has_order
  <2> QED BY <1>4, <1>6, <2>4, <2>6 DEF c, d, passive, order, id
<1>9. CASE passive.quantity = 0 /\ ~(is_iceberg(passive) /\ passive.reserve_qty > 0)
  <2> DEFINE u == update_order(d, passive)
  <2>1. c = cancel_order(u, passive.id)
    BY <1>9 DEF AfterFill
  <2>2. /\ Sound(u) /\ has_order(u, passive.id)
        /\ \A x : Absent(d, x) => Absent(u, x)
    BY <1>4, <1>5, <1>6, <1>7, UpdateSound
  <2> HIDE DEF u, c
  <2>3. /\ Sound(c) /\ \A x : Absent(u, x) => Absent(c, x)
    BY <2>1, <2>2, CancelSound
  <2> QED BY <1>4, <1>6, <2>2, <2>3 DEF c, d, passive, order, id
<1>10. CASE passive.quantity # 0
  <2> DEFINE r == reduce_level_volume(d, side, price, qty)
  <2>1. c = update_order(r, passive)
    BY <1>5, <1>10 DEF AfterFill
  <2>2. /\ Sound(r) /\ r.id_map = d.id_map
        /\ \A x : Absent(d, x) => Absent(r, x)
    BY <1>6, ReduceLevelSound
  <2> HIDE DEF r, c
  <2>3. /\ Sound(c) /\ \A x : Absent(r, x) => Absent(c, x)
    BY <1>4, <1>5, <1>7, <2>1, <2>2, UpdateSound DEF has_order
  <2> QED BY <1>4, <1>6, <2>2, <2>3 DEF c, d, passive, order, id
<1> QED BY <1>8, <1>9, <1>10

-----------------------------------------------------------------------------
(* The orders that are not in the book: pending stops are at the places    *)
(* <<0, i>>, the order of activation f is at <<f, 0>> and the rest of its  *)
(* `working` vector at <<f, i>>.  No two places hold the same id, and the  *)
(* book knows none of them.                                                *)
IsPlace(ps, st, f, i) ==
  IF f = 0 THEN i \in 1..Len(ps)
           ELSE f \in 1..Len(st) /\ i \in 0..Len(st[f].working)

IdAt(ps, st, f, i) ==
  IF f = 0 THEN ps[i].id
           ELSE IF i = 0 THEN st[f].order.id ELSE st[f].working[i].id

Apart(b, ps, st) ==
  /\ \A f, g, i, j \in Nat :
       /\ IsPlace(ps, st, f, i) /\ IsPlace(ps, st, g, j)
       /\ IdAt(ps, st, f, i) = IdAt(ps, st, g, j)
       => f = g /\ i = j
  /\ \A f, i \in Nat : IsPlace(ps, st, f, i) => Absent(b, IdAt(ps, st, f, i))

LEMMA ApartBook ==
  ASSUME NEW b, NEW c, NEW ps, NEW st, Apart(b, ps, st),
         \A x : Absent(b, x) => Absent(c, x)
  PROVE  Apart(c, ps, st)
  BY DEF Apart

LEMMA ApartPending ==
  ASSUME NEW b, NEW ps \in Seq(Orders), Apart(b, ps, <<>>),
         NEW order \in Orders, Absent(b, order.id),
         \A i \in 1..Len(ps) : ps[i].id # order.id
  PROVE  Apart(b, Append(ps, order), <<>>)
<1> DEFINE qs == Append(ps, order)
<1>1. /\ Len(ps) \in Nat /\ Len(qs) = Len(ps) + 1
      /\ \A i \in 1..Len(ps) : qs[i] = ps[i]
      /\ qs[Len(ps) + 1] = order
  BY AppendProperties
<1> HIDE DEF qs
<1>2. ASSUME NEW f \in Nat, NEW i \in Nat, IsPlace(qs, <<>>, f, i)
      PROVE  /\ f = 0
             /\ \/ IsPlace(ps, <<>>, 0, i) /\ IdAt(qs, <<>>, 0, i) = IdAt(ps, <<>>, 0, i)
                                           /\ IdAt(qs, <<>>, 0, i) # order.id
                \/ i = Len(ps) + 1 /\ IdAt(qs, <<>>, 0, i) = order.id
  BY <1>1, <1>2 DEF IsPlace, IdAt
<1>3. Apart(b, qs, <<>>)
  BY <1>2 DEF Apart
<1> QED BY <1>3 DEF qs

LEMMA ApartEnter ==
  ASSUME NEW b, NEW ps \in Seq(Orders), Apart(b, ps, <<>>),
         NEW order \in Orders, Absent(b, order.id),
         \A i \in 1..Len(ps) : ps[i].id # order.id
  PROVE  Apart(b, ps, <<Activation(order)>>)
<1> DEFINE st == <<Activation(order)>>
<1>1. /\ Len(st) = 1 /\ st[1].order = order /\ st[1].working = <<>>
      /\ Len(st[1].working) = 0
  BY DEF Activation
<1> HIDE DEF st
<1>2. ASSUME NEW f \in Nat, NEW i \in Nat, IsPlace(ps, st, f, i)
      PROVE  \/ /\ f = 0 /\ IsPlace(ps, <<>>, 0, i)
                /\ IdAt(ps, st, 0, i) = IdAt(ps, <<>>, 0, i)
                /\ IdAt(ps, st, 0, i) # order.id
             \/ f = 1 /\ i = 0 /\ IdAt(ps, st, f, i) = order.id
  BY <1>1, <1>2 DEF IsPlace, IdAt
<1>3. Apart(b, ps, st)
  BY <1>2 DEF Apart
<1> QED BY <1>3 DEF st

LEMMA RemoveAtFields ==
  ASSUME NEW S, NEW s \in Seq(S), NEW i \in 1..Len(s)
  PROVE  /\ RemoveAt(s, i) \in Seq(S)
         /\ Len(RemoveAt(s, i)) = Len(s) - 1
         /\ \A j \in 1..(Len(s) - 1) :
              RemoveAt(s, i)[j] = IF j < i THEN s[j] ELSE s[j + 1]
<1> DEFINE l == SubSeq(s, 1, i - 1)
           r == SubSeq(s, i + 1, Len(s))
<1>1. Len(s) \in Nat /\ i \in Int /\ i - 1 \in Int /\ i + 1 \in Int /\ 1 \in Int
  OBVIOUS
<1>2. l \in Seq(S) /\ Len(l) = i - 1 /\ \A j \in 1..(i - 1) : l[j] = s[j]
  <2>1. \A j \in 1..(i - 1) : s[j] \in S
    BY ElementOfSeq
  <2>2. /\ l \in Seq(S) /\ Len(l) = IF 1 <= i - 1 THEN (i - 1) - 1 + 1 ELSE 0
        /\ \A j \in 1..((i - 1) - 1 + 1) : l[j] = s[1 + j - 1]
    BY <1>1, <2>1, SubSeqProperties
  <2> HIDE DEF l
  <2> QED BY <1>1, <2>2
<1>3. /\ r \in Seq(S) /\ Len(r) = Len(s) - i
      /\ \A j \in 1..(Len(s) - i) : r[j] = s[i + j]
  <2>1. \A j \in (i + 1)..Len(s) : s[j] \in S
    BY ElementOfSeq
  <2>2. /\ r \in Seq(S) /\ Len(r) = IF i + 1 <= Len(s) THEN Len(s) - (i + 1) + 1 ELSE 0
        /\ \A j \in 1..(Len(s) - (i + 1) + 1) : r[j] = s[(i + 1) + j - 1]
    BY <1>1, <2>1, SubSeqProperties
  <2> HIDE DEF r
  <2> QED BY <1>1, <2>2
<1> HIDE DEF l, r
<1> DEFINE cat == l \o r
<1>4. /\ cat \in Seq(S) /\ Len(cat) = Len(l) + Len(r)
      /\ \A j \in 1..(Len(l) + Len(r)) :
           cat[j] = IF j <= Len(l) THEN l[j] ELSE r[j - Len(l)]
  BY <1>2, <1>3, ConcatProperties
<1> HIDE DEF cat
<1>5. ASSUME NEW j \in 1..(Len(s) - 1)
      PROVE  cat[j] = IF j < i THEN s[j] ELSE s[j + 1]
  <2>1. CASE j < i
    <3>1. j \in 1..(i - 1) /\ j \in 1..(Len(l) + Len(r)) /\ j <= Len(l)
      BY <1>1, <1>2, <1>3, <2>1
    <3> QED BY <3>1, <1>2, <1>4, <2>1
  <2>2. CASE j >= i
    <3>1. j - (i - 1) \in 1..(Len(s) - i) /\ i + (j - (i - 1)) = j + 1
      BY <1>1, <2>2
    <3>2. j \in 1..(Len(l) + Len(r)) /\ ~(j <= Len(l)) /\ ~(j < i)
      BY <1>1, <1>2, <1>3, <2>2
    <3>3. cat[j] = r[j - (i - 1)]
      BY <1>2, <1>4, <3>2
    <3>4. r[j - (i - 1)] = s[j + 1]
      BY <1>3, <3>1
    <3> QED BY <3>2, <3>3, <3>4
  <2>3. j < i \/ j >= i
    BY <1>1
  <2> QED BY <2>1, <2>2, <2>3
<1>6. Len(cat) = Len(s) - 1
  BY <1>1, <1>2, <1>3, <1>4
<1>7. cat = RemoveAt(s, i)
  BY DEF RemoveAt, cat, l, r
<1> QED BY <1>4, <1>5, <1>6, <1>7

LEMMA ApartCancel ==
  ASSUME NEW b, NEW ps \in Seq(Orders), Apart(b, ps, <<>>), NEW k \in 1..Len(ps)
  PROVE  Apart(b, RemoveAt(ps, k), <<>>)
<1> DEFINE qs == RemoveAt(ps, k)
<1>1. /\ Len(ps) \in Nat /\ Len(qs) = Len(ps) - 1
      /\ \A j \in 1..(Len(ps) - 1) : qs[j] = IF j < k THEN ps[j] ELSE ps[j + 1]
  BY RemoveAtFields
<1> HIDE DEF qs
<1>2. ASSUME NEW f \in Nat, NEW i \in Nat, IsPlace(qs, <<>>, f, i)
      PROVE  /\ f = 0
             /\ \/ /\ i < k /\ IsPlace(ps, <<>>, 0, i)
                   /\ IdAt(qs, <<>>, 0, i) = IdAt(ps, <<>>, 0, i)
                \/ /\ i >= k /\ IsPlace(ps, <<>>, 0, i + 1)
                   /\ IdAt(qs, <<>>, 0, i) = IdAt(ps, <<>>, 0, i + 1)
  BY <1>1, <1>2 DEF IsPlace, IdAt
<1>3. \A i, j \in Nat : i + 1 = j + 1 => i = j
  OBVIOUS
<1>4. Apart(b, qs, <<>>)
  BY <1>2, <1>3 DEF Apart
<1> QED BY <1>4 DEF qs

LEMMA ReplaceTop ==
  ASSUME NEW st \in Seq(Frames), st # <<>>, NEW fr \in Frames
  PROVE  LET new == [st EXCEPT ![1] = fr]
         IN  /\ new \in Seq(Frames) /\ Len(new) = Len(st) /\ Len(st) \in Nat \ {0}
             /\ new[1] = fr
             /\ \A f \in 1..Len(st) : f # 1 => new[f] = st[f]
<1>1. Len(st) \in Nat \ {0}
  OBVIOUS
<1> DEFINE new == [st EXCEPT ![1] = fr]
<1>2. new \in Seq(Frames) /\ Len(new) = Len(st)
  BY <1>1, ExceptSeq
<1>3. new[1] = fr /\ \A f \in 1..Len(st) : f # 1 => new[f] = st[f]
  BY <1>1
<1> QED BY <1>1, <1>2, <1>3

(* A fill: either nothing is evaluated, or all pending stops are. *)
LEMMA ApartFill ==
  ASSUME NEW b, NEW ps \in Seq(Orders), NEW st \in Seq(Frames), Apart(b, ps, st),
         st # <<>>, st[1].working = <<>>,
         NEW fr \in Frames, fr.order.id = st[1].order.id
  PROVE  /\ fr.working = <<>> => Apart(b, ps, [st EXCEPT ![1] = fr])
         /\ fr.working = ps => Apart(b, <<>>, [st EXCEPT ![1] = fr])
<1> DEFINE new == [st EXCEPT ![1] = fr]
<1>1. /\ Len(new) = Len(st) /\ Len(st) \in Nat \ {0} /\ new[1] = fr
      /\ \A f \in 1..Len(st) : f # 1 => new[f] = st[f]
      /\ Len(ps) \in Nat
  BY ReplaceTop
<1> HIDE DEF new
<1>2. ASSUME fr.working = <<>> PROVE Apart(b, ps, new)
  <2>1. ASSUME NEW f \in Nat, NEW i \in Nat, IsPlace(ps, new, f, i)
        PROVE  IsPlace(ps, st, f, i) /\ IdAt(ps, new, f, i) = IdAt(ps, st, f, i)
    BY <1>1, <1>2, <2>1 DEF IsPlace, IdAt
  <2> QED BY <2>1 DEF Apart
<1>3. ASSUME fr.working = ps PROVE Apart(b, <<>>, new)
  <2>1. ASSUME NEW f \in Nat, NEW i \in Nat, IsPlace(<<>>, new, f, i)
        PROVE  \/ /\ f = 1 /\ i # 0 /\ IsPlace(ps, st, 0, i)
                  /\ IdAt(<<>>, new, f, i) = IdAt(ps, st, 0, i)
               \/ /\ f # 0 /\ ~(f = 1 /\ i # 0) /\ IsPlace(ps, st, f, i)
                  /\ IdAt(<<>>, new, f, i) = IdAt(ps, st, f, i)
    BY <1>1, <1>3, <2>1 DEF IsPlace, IdAt
  <2> QED BY <2>1 DEF Apart
<1> QED BY <1>2, <1>3 DEF new

LEMMA AdvancedFields ==
  ASSUME NEW st \in Seq(Frames), st # <<>>, st[1].working # <<>>
  PROVE  LET adv == [st EXCEPT ![1].working = Tail(st[1].working)]
         IN  /\ adv \in Seq(Frames) /\ Len(adv) = Len(st) /\ Len(st) \in Nat \ {0}
             /\ adv[1].order = st[1].order
             /\ Len(adv[1].working) = Len(st[1].working) - 1
             /\ Len(st[1].working) \in Nat \ {0}
             /\ \A i \in 1..(Len(st[1].working) - 1) :
                  adv[1].working[i] = st[1].working[i + 1]
             /\ Head(st[1].working) = st[1].working[1]
             /\ Head(st[1].working) \in Orders
             /\ \A f \in 1..Len(st) : f # 1 => adv[f] = st[f]
<1> DEFINE w  == st[1].working
           fr == [st[1] EXCEPT !.working = Tail(w)]
           adv == [st EXCEPT ![1] = fr]
<1>1. st[1] \in Frames
  BY ElementOfSeq
<1>2. w \in Seq(Orders) /\ w # <<>>
  BY <1>1 DEF Frames
<1> HIDE DEF w
<1>3. /\ Tail(w) \in Seq(Orders) /\ Len(Tail(w)) = Len(w) - 1
      /\ Len(w) \in Nat \ {0} /\ Head(w) \in Orders /\ Head(w) = w[1]
      /\ \A i \in 1..(Len(w) - 1) : Tail(w)[i] = w[i + 1]
  BY <1>2, HeadTailProperties
<1>4. fr \in Frames /\ fr.working = Tail(w) /\ fr.order = st[1].order
  BY <1>1, <1>3 DEF Frames
<1> HIDE DEF fr
<1>5. /\ adv \in Seq(Frames) /\ Len(adv) = Len(st) /\ Len(st) \in Nat \ {0}
      /\ adv[1] = fr
      /\ \A f \in 1..Len(st) : f # 1 => adv[f] = st[f]
  BY <1>4, ReplaceTop
<1>6. adv = [st EXCEPT ![1].working = Tail(st[1].working)]
  BY DEF fr, w
<1> HIDE DEF adv
<1>7. /\ adv[1].order = st[1].order /\ Len(adv[1].working) = Len(w) - 1
      /\ \A i \in 1..(Len(w) - 1) : adv[1].working[i] = w[i + 1]
  BY <1>3, <1>4, <1>5
<1> QED BY <1>3, <1>5, <1>6, <1>7 DEF w

(* The next stop of the innermost evaluation returns to the pending ones. *)
LEMMA ApartKeep ==
  ASSUME NEW b, NEW ps \in Seq(Orders), NEW st \in Seq(Frames), Apart(b, ps, st),
         st # <<>>, st[1].working # <<>>
  PROVE  Apart(b, Append(ps, Head(st[1].working)),
               [st EXCEPT ![1].working = Tail(st[1].working)])
<1> DEFINE w   == st[1].working
           adv == [st EXCEPT ![1].working = Tail(st[1].working)]
           qs  == Append(ps, Head(w))
<1>1. /\ Len(adv) = Len(st) /\ Len(st) \in Nat \ {0}
      /\ adv[1].order = st[1].order
      /\ Len(adv[1].working) = Len(w) - 1 /\ Len(w) \in Nat \ {0}
      /\ \A i \in 1..(Len(w) - 1) : adv[1].working[i] = w[i + 1]
      /\ Head(w) = w[1] /\ Head(w) \in Orders
      /\ \A f \in 1..Len(st) : f # 1 => adv[f] = st[f]
  BY AdvancedFields
<1>2. /\ Len(ps) \in Nat /\ Len(qs) = Len(ps) + 1
      /\ \A i \in 1..Len(ps) : qs[i] = ps[i]
      /\ qs[Len(ps) + 1] = w[1]
  BY <1>1, AppendProperties
<1> HIDE DEF adv, qs
<1>3. ASSUME NEW f \in Nat, NEW i \in Nat, IsPlace(qs, adv, f, i)
      PROVE  \/ /\ f = 0 /\ i = Len(ps) + 1 /\ IsPlace(ps, st, 1, 1)
                /\ IdAt(qs, adv, f, i) = IdAt(ps, st, 1, 1)
             \/ /\ f = 1 /\ i # 0 /\ IsPlace(ps, st, 1, i + 1)
                /\ IdAt(qs, adv, f, i) = IdAt(ps, st, 1, i + 1)
             \/ /\ ~(f = 1 /\ i # 0) /\ IsPlace(ps, st, f, i)
                /\ IdAt(qs, adv, f, i) = IdAt(ps, st, f, i)
  <2>1. CASE f = 0
    BY <1>1, <1>2, <1>3, <2>1 DEF IsPlace, IdAt
  <2>2. CASE f = 1
    <3>1. i \in 0..(Len(w) - 1) /\ 1 \in 1..Len(st)
      BY <1>1, <1>3, <2>2 DEF IsPlace
    <3>2. CASE i = 0
      <4>1. IsPlace(ps, st, 1, 0)
        BY <1>1, <3>1 DEF IsPlace
      <4>2. IdAt(qs, adv, 1, 0) = IdAt(ps, st, 1, 0)
        BY <1>1 DEF IdAt
      <4> QED BY <2>2, <3>2, <4>1, <4>2
    <3>3. CASE i # 0
      <4>1. i \in 1..(Len(w) - 1) /\ i + 1 \in 0..Len(w) /\ i + 1 # 0
        BY <1>1, <3>1, <3>3
      <4>2. IsPlace(ps, st, 1, i + 1)
        BY <3>1, <4>1 DEF IsPlace
      <4>3. IdAt(qs, adv, 1, i) = IdAt(ps, st, 1, i + 1)
        BY <1>1, <3>3, <4>1 DEF IdAt
      <4> QED BY <2>2, <3>3, <4>2, <4>3
    <3> QED BY <3>2, <3>3
  <2>3. CASE f # 0 /\ f # 1
    BY <1>1, <1>3, <2>3 DEF IsPlace, IdAt
  <2> QED BY <2>1, <2>2, <2>3
<1>4. \A i, j \in Nat : i + 1 = j + 1 => i = j
  OBVIOUS
<1>5. \A i \in Nat : i # 0 => i + 1 \in Nat /\ i + 1 # 1 /\ i + 1 # 0
  OBVIOUS
<1>6. Apart(b, qs, adv)
  <2>1. ASSUME NEW f \in Nat, NEW g \in Nat, NEW i \in Nat, NEW j \in Nat,
               IsPlace(qs, adv, f, i), IsPlace(qs, adv, g, j),
               IdAt(qs, adv, f, i) = IdAt(qs, adv, g, j)
        PROVE  f = g /\ i = j
    <3>1. \A x, y, k, l \in Nat :
            /\ IsPlace(ps, st, x, k) /\ IsPlace(ps, st, y, l)
            /\ IdAt(ps, st, x, k) = IdAt(ps, st, y, l)
            => x = y /\ k = l
      BY DEF Apart
    <3> QED BY <3>1, <2>1, <1>3, <1>4, <1>5, SMTT(60)
  <2>2. ASSUME NEW f \in Nat, NEW i \in Nat, IsPlace(qs, adv, f, i)
        PROVE  Absent(b, IdAt(qs, adv, f, i))
    BY <2>2, <1>3, <1>5 DEF Apart
  <2> QED BY <2>1, <2>2 DEF Apart
<1> QED BY <1>6 DEF qs, adv

(* The next stop of the innermost evaluation becomes an activation. *)
LEMMA ApartTrigger ==
  ASSUME NEW b, NEW ps \in Seq(Orders), NEW st \in Seq(Frames), Apart(b, ps, st),
         st # <<>>, st[1].working # <<>>,
         NEW fr \in Frames, fr.working = <<>>, fr.order.id = Head(st[1].working).id
  PROVE  LET new == <<fr>> \o [st EXCEPT ![1].working = Tail(st[1].working)]
         IN  new \in Seq(Frames) /\ Apart(b, ps, new)
<1> DEFINE w   == st[1].working
           adv == [st EXCEPT ![1].working = Tail(st[1].working)]
           new == <<fr>> \o adv
<1>1. /\ adv \in Seq(Frames) /\ Len(adv) = Len(st) /\ Len(st) \in Nat \ {0}
      /\ adv[1].order = st[1].order
      /\ Len(adv[1].working) = Len(w) - 1 /\ Len(w) \in Nat \ {0}
      /\ \A i \in 1..(Len(w) - 1) : adv[1].working[i] = w[i + 1]
      /\ Head(w) = w[1]
      /\ \A f \in 1..Len(st) : f # 1 => adv[f] = st[f]
  BY AdvancedFields
<1> HIDE DEF adv
<1>2. /\ new \in Seq(Frames) /\ Len(new) = Len(st) + 1 /\ new[1] = fr
      /\ \A f \in 1..Len(st) : new[f + 1] = adv[f]
  BY <1>1
<1> HIDE DEF new
<1>3. ASSUME NEW f \in Nat, NEW i \in Nat, IsPlace(ps, new, f, i)
      PROVE  \/ /\ f = 1 /\ i = 0 /\ IsPlace(ps, st, 1, 1)
                /\ IdAt(ps, new, f, i) = IdAt(ps, st, 1, 1)
             \/ /\ f = 2 /\ i # 0 /\ IsPlace(ps, st, 1, i + 1)
                /\ IdAt(ps, new, f, i) = IdAt(ps, st, 1, i + 1)
             \/ /\ f = 0 /\ IsPlace(ps, st, 0, i)
                /\ IdAt(ps, new, f, i) = IdAt(ps, st, 0, i)
             \/ /\ f - 1 \in Nat /\ f - 1 # 0 /\ ~(f = 2 /\ i # 0)
                /\ IsPlace(ps, st, f - 1, i)
                /\ IdAt(ps, new, f, i) = IdAt(ps, st, f - 1, i)
  <2>1. CASE f = 0
    BY <1>3, <2>1 DEF IsPlace, IdAt
  <2>2. CASE f = 1
    BY <1>1, <1>2, <1>3, <2>2 DEF IsPlace, IdAt
  <2>3. CASE f = 2
    <3>1. new[2] = adv[1]
      BY <1>1, <1>2
    <3>2. i \in 0..(Len(w) - 1)
      BY <1>1, <1>2, <1>3, <2>3, <3>1 DEF IsPlace
    <3>3. CASE i = 0
      <4>1. IsPlace(ps, st, 1, 0)
        BY <1>1, <3>2 DEF IsPlace
      <4>2. IdAt(ps, new, 2, 0) = IdAt(ps, st, 1, 0)
        BY <1>1, <3>1 DEF IdAt
      <4> QED BY <2>3, <3>3, <4>1, <4>2
    <3>4. CASE i # 0
      <4>1. i \in 1..(Len(w) - 1) /\ i + 1 \in 0..Len(w) /\ i + 1 # 0
        BY <1>1, <3>2, <3>4
      <4>2. IsPlace(ps, st, 1, i + 1)
        BY <1>1, <4>1 DEF IsPlace
      <4>3. IdAt(ps, new, 2, i) = IdAt(ps, st, 1, i + 1)
        BY <1>1, <3>1, <3>4, <4>1 DEF IdAt
      <4> QED BY <2>3, <3>4, <4>2, <4>3
    <3> QED BY <3>3, <3>4
  <2>4. CASE f > 2
    <3>1. f - 1 \in 1..Len(st) /\ f - 1 # 1 /\ (f - 1) + 1 = f
      BY <1>1, <1>2, <1>3, <2>4 DEF IsPlace
    <3>2. new[f] = st[f - 1]
      BY <1>1, <1>2, <3>1
    <3> QED BY <1>1, <1>2, <1>3, <2>4, <3>1, <3>2 DEF IsPlace, IdAt
  <2> QED BY <2>1, <2>2, <2>3, <2>4
<1>4. \A i, j \in Nat : i + 1 = j + 1 => i = j
  OBVIOUS
<1>5. \A i, j \in Nat : i - 1 = j - 1 => i = j
  OBVIOUS
<1>6. \A i \in Nat : i # 0 => i + 1 \in Nat /\ i + 1 # 1 /\ i + 1 # 0
  OBVIOUS
<1>7. Apart(b, ps, new)
  <2>1. ASSUME NEW f \in Nat, NEW g \in Nat, NEW i \in Nat, NEW j \in Nat,
               IsPlace(ps, new, f, i), IsPlace(ps, new, g, j),
               IdAt(ps, new, f, i) = IdAt(ps, new, g, j)
        PROVE  f = g /\ i = j
    <3>1. \A x, y, k, l \in Nat :
            /\ IsPlace(ps, st, x, k) /\ IsPlace(ps, st, y, l)
            /\ IdAt(ps, st, x, k) = IdAt(ps, st, y, l)
            => x = y /\ k = l
      BY DEF Apart
    <3> QED BY <3>1, <2>1, <1>3, <1>4, <1>5, <1>6, SMTT(60)
  <2>2. ASSUME NEW f \in Nat, NEW i \in Nat, IsPlace(ps, new, f, i)
        PROVE  Absent(b, IdAt(ps, new, f, i))
    BY <2>2, <1>3, <1>6 DEF Apart
  <2> QED BY <2>1, <2>2 DEF Apart
<1> QED BY <1>2, <1>7 DEF new, adv

(* An activation ends; its order may have come to rest. *)
LEMMA ApartFinish ==
  ASSUME NEW b, NEW c, NEW ps \in Seq(Orders), NEW st \in Seq(Frames),
         Apart(b, ps, st), st # <<>>,
         \A x : Absent(b, x) /\ x # st[1].order.id => Absent(c, x)
  PROVE  Tail(st) \in Seq(Frames) /\ Apart(c, ps, Tail(st))
<1> DEFINE new == Tail(st)
<1>1. /\ new \in Seq(Frames) /\ Len(new) = Len(st) - 1 /\ Len(st) \in Nat \ {0}
      /\ \A f \in 1..(Len(st) - 1) : new[f] = st[f + 1]
  BY HeadTailProperties
<1> HIDE DEF new
<1>2. ASSUME NEW f \in Nat, NEW i \in Nat, IsPlace(ps, new, f, i)
      PROVE  \/ /\ f = 0 /\ IsPlace(ps, st, 0, i)
                /\ IdAt(ps, new, f, i) = IdAt(ps, st, 0, i)
             \/ /\ f # 0 /\ f + 1 # 1 /\ f + 1 # 0 /\ IsPlace(ps, st, f + 1, i)
                /\ IdAt(ps, new, f, i) = IdAt(ps, st, f + 1, i)
  BY <1>1, <1>2 DEF IsPlace, IdAt
<1>3. /\ \A i, j \in Nat : i + 1 = j + 1 => i = j
      /\ \A i \in Nat : i + 1 \in Nat
  OBVIOUS
<1>4. IsPlace(ps, st, 1, 0) /\ IdAt(ps, st, 1, 0) = st[1].order.id
  <2>1. st[1] \in Frames
    BY <1>1, ElementOfSeq
  <2>2. Len(st[1].working) \in Nat
    BY <2>1 DEF Frames
  <2> QED BY <1>1, <2>2 DEF IsPlace, IdAt
<1>5. ASSUME NEW f \in Nat, NEW i \in Nat, IsPlace(ps, new, f, i)
      PROVE  Absent(c, IdAt(ps, new, f, i))
  <2>1. Absent(b, IdAt(ps, new, f, i)) /\ IdAt(ps, new, f, i) # st[1].order.id
    BY <1>2, <1>3, <1>4, <1>5 DEF Apart
  <2> QED BY <2>1
<1>6. Apart(c, ps, new)
  BY <1>2, <1>3, <1>5 DEF Apart
<1> QED BY <1>1, <1>6 DEF new

-----------------------------------------------------------------------------
(* The inductive invariant, for clients that keep both rules. *)
Inv ==
  /\ TypeOK
  /\ Sound(book)
  /\ Apart(book, pending_stops, stack)

LEMMA InitInv == Init => Inv
<1> SUFFICES ASSUME Init PROVE Inv
  OBVIOUS
<1>1. /\ book.levels = [side \in Sides |-> EmptyMap] /\ book.id_map = EmptyMap
      /\ book.last_trade_price = 0
      /\ book = [levels |-> book.levels, id_map |-> book.id_map,
                 last_trade_price |-> book.last_trade_price]
  BY DEF Init, EmptyBook
<1>2. DOMAIN EmptyMap = {} /\ \A K, V : IsMap(EmptyMap, K, V)
  BY DEF EmptyMap, IsMap
<1>3. IsBook(book)
  BY <1>1, <1>2, PricesAssumption DEF IsBook
<1>4. Sound(book)
  BY <1>1, <1>2, <1>3 DEF Sound, LevelSound, Located, HasLevel
<1>5. TypeOK
  <2>1. result \in Results
    BY DEF Init, EmptyResult, Results
  <2>2. ledger \in [Ids -> [orig : Int, filled : Nat, gone : Nat]]
    BY DEF Init, NoEntry
  <2>3. pending_stops \in Seq(Orders) /\ stack \in Seq(Frames) /\ stop_arrivals \in Seq(Ids)
    BY DEF Init
  <2>4. accepted \in Nat
    BY DEF Init
  <2> QED BY <1>3, <2>1, <2>2, <2>3, <2>4 DEF TypeOK
<1>6. Apart(book, pending_stops, stack)
  BY DEF Init, Apart, IsPlace
<1> QED BY <1>4, <1>5, <1>6 DEF Inv

LEMMA WithIdType ==
  ASSUME NEW t \in NewOrders, NEW id \in Ids
  PROVE  WithId(t, id) \in Orders /\ WithId(t, id).id = id
<1>1. t \in Templates
  BY NewOrdersAssumption
<1> QED BY <1>1 DEF WithId, Templates, Orders

LEMMA ActivationType ==
  ASSUME NEW order \in Orders
  PROVE  /\ Activation(order) \in Frames
         /\ Activation(order).order = order /\ Activation(order).working = <<>>
  BY PricesAssumption DEF Activation, Frames

LEMMA EnterType ==
  ASSUME NEW order \in Orders
  PROVE  \E o \in Orders : Enter(order) = Activation(o) /\ o.id = order.id
<1>1. Converted(order) \in Orders /\ Converted(order).id = order.id
  BY PricesAssumption DEF Converted, Orders, OrderTypes
<1>2. SplitIceberg(order) \in Orders /\ SplitIceberg(order).id = order.id
  <2>1. (order.quantity - order.peak_qty) % QtyMod \in Nat
    BY QtyModAssumption DEF Orders
  <2> QED BY <2>1 DEF SplitIceberg, Orders
<1>3. CASE order.type \in StopTypes
  BY <1>1, <1>3 DEF Enter, StopTypes
<1>4. CASE order.type = "Iceberg"
  BY <1>2, <1>4 DEF Enter, StopTypes
<1>5. CASE order.type \notin StopTypes /\ order.type # "Iceberg"
  BY <1>5 DEF Enter
<1> QED BY <1>3, <1>4, <1>5

LEMMA RemoveFirstType ==
  ASSUME NEW S, NEW s \in Seq(S), NEW e
  PROVE  RemoveFirst(s, e) \in Seq(S)
<1> DEFINE I == {i \in 1..Len(s) : s[i] = e}
<1>1. CASE I = {}
  BY <1>1 DEF RemoveFirst
<1>2. CASE I # {}
  <2>1. I \subseteq Nat
    OBVIOUS
  <2>2. \E n \in I : \A m \in I : n <= m
    <3> HIDE DEF I
    <3> QED BY <1>2, <2>1, LeastNat
  <2>3. Min(I) \in I
    <3> HIDE DEF I
    <3> QED BY <2>2 DEF Min
  <2>4. RemoveFirst(s, e) = RemoveAt(s, Min(I))
    BY <1>2 DEF RemoveFirst, SelectInSeq
  <2> QED BY <2>3, <2>4, RemoveAtFields
<1> QED BY <1>1, <1>2

LEMMA CleanIsAbsent ==
  ASSUME NEW b, NEW id, CleanIn(b, id)
  PROVE  Absent(b, id) /\ \A i \in 1..Len(pending_stops) : pending_stops[i].id # id
  BY DEF CleanIn, Absent, HasEntry, HasLevel, Queued

LEMMA LedgerTypes ==
  ASSUME NEW entries \in [Ids -> [orig : Int, filled : Nat, gone : Nat]],
         NEW order \in Orders, NEW id \in Ids, NEW delta \in Int
  PROVE  /\ Opened(entries, order) \in [Ids -> [orig : Int, filled : Nat, gone : Nat]]
         /\ Withdrawn(entries, order) \in [Ids -> [orig : Int, filled : Nat, gone : Nat]]
         /\ Resized(entries, id, delta) \in [Ids -> [orig : Int, filled : Nat, gone : Nat]]
<1> DEFINE E == [orig : Int, filled : Nat, gone : Nat]
<1>1. order.id \in Ids /\ order.quantity \in Nat /\ order.reserve_qty \in Nat
  BY OrderFields
<1>2. entries[order.id] \in E /\ entries[id] \in E
  BY <1>1
<1>3. [NoEntry EXCEPT !.orig = order.quantity] \in E
  BY <1>1 DEF NoEntry
<1>4. [entries[order.id] EXCEPT !.gone = @ + order.quantity + order.reserve_qty] \in E
  BY <1>1, <1>2
<1>5. [entries[id] EXCEPT !.orig = @ + delta] \in E
  BY <1>2
<1>6. Opened(entries, order) \in [Ids -> E]
  BY <1>3 DEF Opened
<1>7. Withdrawn(entries, order) \in [Ids -> E]
  BY <1>4 DEF Withdrawn
<1>8. Resized(entries, id, delta) \in [Ids -> E]
  BY <1>5 DEF Resized
<1> QED BY <1>6, <1>7, <1>8

-----------------------------------------------------------------------------
(* submit(): new orders and replacements. *)
LEMMA FreshOrderInv ==
  ASSUME Inv, Idle, NEW b, Sound(b), \A x : Absent(book, x) => Absent(b, x),
         NEW order \in Orders, Absent(b, order.id),
         \A i \in 1..Len(pending_stops) : pending_stops[i].id # order.id,
         process_new_order(b, order),
         ledger' \in [Ids -> [orig : Int, filled : Nat, gone : Nat]]
  PROVE  Inv'
<1>1. /\ pending_stops \in Seq(Orders) /\ stack = <<>> /\ stop_arrivals \in Seq(Ids)
      /\ accepted \in Nat /\ Apart(b, pending_stops, <<>>)
  BY ApartBook DEF Inv, TypeOK, Idle
<1>2. book' = b /\ result' = EmptyResult /\ accepted' = accepted + 1
  BY DEF process_new_order
<1>3. /\ Absent(b, order.id)
      /\ \A i \in 1..Len(pending_stops) : pending_stops[i].id # order.id
  OBVIOUS
<1>4. order.id \in Ids
  BY OrderFields
<1>5. IsBook(book') /\ result' \in Results /\ accepted' \in Nat
  BY <1>1, <1>2 DEF Sound, EmptyResult, Results
<1>6. CASE Waits(b, order)
  <2>1. /\ pending_stops' = Append(pending_stops, order) /\ stack' = <<>>
        /\ stop_arrivals' = Append(stop_arrivals, order.id)
    BY <1>1, <1>6 DEF process_new_order
  <2>2. Apart(b, Append(pending_stops, order), <<>>)
    BY <1>1, <1>3, ApartPending
  <2>3. pending_stops' \in Seq(Orders) /\ stack' \in Seq(Frames) /\ stop_arrivals' \in Seq(Ids)
    BY <2>1, <1>1, <1>4
  <2> QED BY <1>2, <1>5, <2>1, <2>2, <2>3 DEF Inv, TypeOK
<1>7. CASE ~Waits(b, order)
  <2>1. /\ pending_stops' = pending_stops /\ stop_arrivals' = stop_arrivals
        /\ stack' = <<Enter(order)>>
    BY <1>7 DEF process_new_order
  <2>2. PICK o \in Orders : Enter(order) = Activation(o) /\ o.id = order.id
    BY EnterType
  <2>3. Activation(o) \in Frames
    BY ActivationType
  <2>4. Apart(b, pending_stops, <<Activation(o)>>)
    BY <1>1, <1>3, <2>2, ApartEnter
  <2>5. stack' \in Seq(Frames)
    BY <2>1, <2>2, <2>3
  <2> QED BY <1>1, <1>2, <1>5, <2>1, <2>2, <2>4, <2>5 DEF Inv, TypeOK
<1> QED BY <1>6, <1>7

LEMMA NewOrderInv ==
  ASSUME Inv, Idle, "ids" \in Discipline, NEW b, Sound(b),
         \A x : Absent(book, x) => Absent(b, x),
         NEW order \in Orders, process_new_order(b, order),
         ledger' \in [Ids -> [orig : Int, filled : Nat, gone : Nat]]
  PROVE  Inv'
<1>1. /\ Absent(b, order.id)
      /\ \A i \in 1..Len(pending_stops) : pending_stops[i].id # order.id
  BY CleanIsAbsent DEF process_new_order
<1> QED BY <1>1, FreshOrderInv

LEMMA SubmitNewInv ==
  ASSUME Inv, "ids" \in Discipline, NEW order \in Orders, SubmitNew(order)
  PROVE  Inv'
<1>1. Idle /\ process_new_order(book, order) /\ ledger' = Opened(ledger, order)
  BY DEF SubmitNew
<1>2. ledger' \in [Ids -> [orig : Int, filled : Nat, gone : Nat]]
  <2>1. order.id \in Ids /\ 0 \in Int
    BY OrderFields
  <2> QED BY <1>1, <2>1, LedgerTypes DEF Inv, TypeOK
<1> QED BY <1>1, <1>2, NewOrderInv DEF Inv

LEMMA ReplaceOrderInv ==
  ASSUME Inv, "ids" \in Discipline, NEW old, NEW order \in Orders,
         ReplaceOrder(old, order)
  PROVE  Inv'
<1>1. /\ Idle /\ has_order(book, old)
      /\ process_new_order(cancel_order(book, old), order)
      /\ ledger' = Opened(Withdrawn(ledger, book.id_map[old]), order)
  BY DEF ReplaceOrder
<1>2. /\ Sound(cancel_order(book, old))
      /\ \A x : Absent(book, x) => Absent(cancel_order(book, old), x)
  BY <1>1, CancelSound DEF Inv
<1>3. ledger' \in [Ids -> [orig : Int, filled : Nat, gone : Nat]]
  <2>1. book.id_map[old] \in Orders /\ order.id \in Ids /\ 0 \in Int
    BY <1>1, OrderInBook, OrderFields DEF Inv, TypeOK
  <2>2. Withdrawn(ledger, book.id_map[old]) \in [Ids -> [orig : Int, filled : Nat, gone : Nat]]
    BY <2>1, LedgerTypes DEF Inv, TypeOK
  <2> QED BY <1>1, <2>1, <2>2, LedgerTypes
<1> QED BY <1>1, <1>2, <1>3, NewOrderInv

LEMMA EmptyResultType == EmptyResult \in Results
  BY DEF EmptyResult, Results

LEMMA RejectInv ==
  ASSUME Inv, NEW id \in Ids, Reject(id, "OrderNotFound")
  PROVE  Inv'
<1>1. /\ result' = [EmptyResult EXCEPT !.rejections = <<Rejected(id, "OrderNotFound")>>]
      /\ UNCHANGED <<book, pending_stops, stack, ledger, stop_arrivals, accepted>>
  BY DEF Reject
<1>2. result' \in Results
  <2> DEFINE only == <<Rejected(id, "OrderNotFound")>>
  <2>1. Rejected(id, "OrderNotFound") \in Rejections
    BY DEF Rejected, Rejections
  <2>2. only \in Seq(Rejections)
    BY <2>1
  <2> HIDE DEF only
  <2>3. [EmptyResult EXCEPT !.rejections = only] \in Results
    BY <2>2, EmptyResultType DEF Results
  <2> QED BY <1>1, <2>3 DEF only
<1> QED BY <1>1, <1>2 DEF Inv, TypeOK

-----------------------------------------------------------------------------
(* submit(): cancel and modify. *)
LEMMA ReportType ==
  ASSUME NEW order \in Orders
  PROVE  [EmptyResult EXCEPT !.reports = <<Report(order)>>] \in Results
<1>1. Report(order) \in Reports
  BY OrderFields DEF Report, Reports
<1> DEFINE only == <<Report(order)>>
<1>2. only \in Seq(Reports)
  BY <1>1
<1> HIDE DEF only
<1>3. [EmptyResult EXCEPT !.reports = only] \in Results
  BY <1>2, EmptyResultType DEF Results
<1> QED BY <1>3 DEF only

LEMMA CancelPendingInv ==
  ASSUME Inv, NEW id \in Ids, CancelPending(id)
  PROVE  Inv'
<1>1. PICK i \in 1..Len(pending_stops) :
        /\ pending_stops' = RemoveAt(pending_stops, i)
        /\ stop_arrivals' = RemoveFirst(stop_arrivals, id)
        /\ result' = [EmptyResult EXCEPT !.reports = <<Report(pending_stops[i])>>]
        /\ ledger' = Withdrawn(ledger, pending_stops[i])
  BY DEF CancelPending
<1>2. /\ stack = <<>> /\ book' = book /\ stack' = stack /\ accepted' = accepted
      /\ TypeOK /\ Sound(book) /\ Apart(book, pending_stops, <<>>)
  BY DEF CancelPending, Idle, Inv
<1>3. pending_stops \in Seq(Orders) /\ pending_stops[i] \in Orders
  BY <1>2, ElementOfSeq DEF TypeOK
<1>4. Apart(book, RemoveAt(pending_stops, i), <<>>) /\ pending_stops' \in Seq(Orders)
  BY <1>1, <1>2, <1>3, ApartCancel, RemoveAtFields
<1>5. stop_arrivals' \in Seq(Ids) /\ result' \in Results
  BY <1>1, <1>2, <1>3, RemoveFirstType, ReportType DEF TypeOK
<1>6. ledger' \in [Ids -> [orig : Int, filled : Nat, gone : Nat]]
  <2>1. 0 \in Int
    OBVIOUS
  <2> QED BY <1>1, <1>2, <1>3, <2>1, LedgerTypes DEF TypeOK
<1> QED BY <1>1, <1>2, <1>4, <1>5, <1>6 DEF Inv, TypeOK

LEMMA CancelRestingInv ==
  ASSUME Inv, NEW id \in Ids, CancelResting(id)
  PROVE  Inv'
<1>1. /\ has_order(book, id)
      /\ book' = cancel_order(book, id)
      /\ result' = [EmptyResult EXCEPT !.reports = <<Report(book.id_map[id])>>]
      /\ ledger' = Withdrawn(ledger, book.id_map[id])
      /\ UNCHANGED <<pending_stops, stack, stop_arrivals, accepted>>
  BY DEF CancelResting
<1>2. TypeOK /\ Sound(book) /\ Apart(book, pending_stops, stack)
  BY DEF Inv
<1>3. book.id_map[id] \in Orders
  BY <1>1, <1>2, OrderInBook DEF TypeOK
<1>4. Sound(book') /\ Apart(book', pending_stops, stack)
  BY <1>1, <1>2, CancelSound, ApartBook
<1>5. result' \in Results
  BY <1>1, <1>3, ReportType
<1>6. ledger' \in [Ids -> [orig : Int, filled : Nat, gone : Nat]]
  <2>1. 0 \in Int
    OBVIOUS
  <2> QED BY <1>1, <1>2, <1>3, <2>1, LedgerTypes DEF TypeOK
<1> QED BY <1>1, <1>2, <1>4, <1>5, <1>6 DEF Inv, TypeOK, Sound

LEMMA AmendedType ==
  ASSUME NEW order \in Orders, NEW m \in Amendments
  PROVE  /\ Amended(order, m) \in Orders
         /\ Amended(order, m).id = order.id /\ Amended(order, m).side = order.side
<1>1. m.new_price \in Prices /\ m.new_quantity \in Nat
  BY AmendmentsAssumption
<1> QED BY <1>1 DEF Amended, Orders

LEMMA ModifyRequeueInv ==
  ASSUME Inv, "requeues" \in Discipline, NEW id \in Ids, NEW m \in Amendments,
         ModifyRequeue(id, m)
  PROVE  Inv'
<1> DEFINE order == book.id_map[id]
           moved == Amended(order, m)
           left  == cancel_order(book, id)
<1>1. /\ has_order(book, id)
      /\ ~HasEntry(left, order.side, moved.price, id)
      /\ book' = insert_order(left, moved)
      /\ ledger' = Resized(ledger, id, moved.quantity - order.quantity)
      /\ result' = EmptyResult
      /\ UNCHANGED <<pending_stops, stack, stop_arrivals, accepted>>
  BY DEF ModifyRequeue
<1>2. TypeOK /\ Sound(book) /\ Apart(book, pending_stops, stack)
  BY DEF Inv
<1>3. order \in Orders /\ order.id = id
  BY <1>1, <1>2, OrderInBook DEF Sound, has_order
<1> HIDE DEF order
<1>4. moved \in Orders /\ moved.id = id /\ moved.side = order.side
  BY <1>3, AmendedType
<1> HIDE DEF moved
<1>5. /\ Sound(left) /\ ~has_order(left, id)
      /\ \A x : Absent(book, x) => Absent(left, x)
  BY <1>1, <1>2, CancelSound
<1> HIDE DEF left
<1>6. HasLevel(left, moved.side, moved.price) =>
        moved.id \notin Queued(left.levels[moved.side][moved.price])
  BY <1>1, <1>4 DEF HasEntry, Queued
<1>7. /\ Sound(book')
      /\ \A x : Absent(left, x) /\ x # id => Absent(book', x)
  BY <1>1, <1>4, <1>5, <1>6, InsertSound
<1>8. \A x : Absent(book, x) => Absent(book', x)
  BY <1>1, <1>5, <1>7 DEF Absent
<1>9. Apart(book', pending_stops, stack)
  BY <1>2, <1>8, ApartBook
<1>10. ledger' \in [Ids -> [orig : Int, filled : Nat, gone : Nat]]
  <2>1. moved.quantity - order.quantity \in Int
    BY <1>3, <1>4, OrderFields
  <2> QED BY <1>1, <1>2, <1>3, <2>1, LedgerTypes DEF TypeOK
<1>11. result' \in Results
  BY <1>1 DEF EmptyResult, Results
<1> QED BY <1>1, <1>2, <1>7, <1>9, <1>10, <1>11 DEF Inv, TypeOK, Sound

LEMMA ModifyInPlaceInv ==
  ASSUME Inv, NEW id \in Ids, NEW m \in Amendments, ModifyInPlace(id, m)
  PROVE  Inv'
<1> DEFINE order == book.id_map[id]
           moved == Amended(order, m)
           delta == order.quantity - moved.quantity
           set   == update_order(book, moved)
<1>1. /\ has_order(book, id) /\ ~LosesPriority(order, m)
      /\ book' = reduce_level_volume(set, order.side, order.price, delta)
      /\ ledger' = Resized(ledger, id, -delta)
      /\ result' = EmptyResult
      /\ UNCHANGED <<pending_stops, stack, stop_arrivals, accepted>>
  BY DEF ModifyInPlace
<1>2. TypeOK /\ Sound(book) /\ Apart(book, pending_stops, stack)
  BY DEF Inv
<1>3. order \in Orders /\ order.id = id
  BY <1>1, <1>2, OrderInBook DEF Sound, has_order
<1>4. moved \in Orders /\ moved.id = id /\ moved.side = order.side
  <2> HIDE DEF order
  <2> QED BY <1>3, AmendedType
<1>5. moved.price = order.price /\ delta \in Nat
  <2> HIDE DEF order
  <2>1. m.new_price \in Prices /\ m.new_quantity \in Nat
    BY AmendmentsAssumption
  <2>2. /\ moved.price = IF m.new_price # 0 THEN m.new_price ELSE order.price
        /\ moved.quantity = IF m.new_quantity # 0 THEN m.new_quantity ELSE order.quantity
    BY <1>3 DEF Amended, Orders
  <2>3. order.quantity \in Nat
    BY <1>3, OrderFields
  <2> HIDE DEF moved
  <2>4. moved.price = order.price
    BY <1>1, <2>2 DEF LosesPriority
  <2>5. m.new_quantity # 0 => m.new_quantity <= order.quantity
    BY <1>1, <2>1, <2>3 DEF LosesPriority
  <2> QED BY <2>1, <2>2, <2>3, <2>4, <2>5
<1>6. order.side \in Sides
  BY <1>3, OrderFields
<1>7. Sound(set) /\ \A x : Absent(book, x) => Absent(set, x)
  <2> HIDE DEF moved
  <2> QED BY <1>1, <1>2, <1>4, <1>5, UpdateSound DEF order
<1> HIDE DEF set, delta, moved, order
<1>8. Sound(book') /\ \A x : Absent(set, x) => Absent(book', x)
  BY <1>1, <1>5, <1>6, <1>7, ReduceLevelSound
<1>9. Apart(book', pending_stops, stack)
  BY <1>2, <1>7, <1>8, ApartBook
<1>10. ledger' \in [Ids -> [orig : Int, filled : Nat, gone : Nat]]
  <2>1. -delta \in Int
    BY <1>5
  <2> QED BY <1>1, <1>2, <1>3, <2>1, LedgerTypes DEF TypeOK
<1>11. result' \in Results
  BY <1>1 DEF EmptyResult, Results
<1> QED BY <1>1, <1>2, <1>8, <1>9, <1>10, <1>11 DEF Inv, TypeOK, Sound

-----------------------------------------------------------------------------
(* The matching loop. *)
LEMMA TopType ==
  ASSUME Inv, ~Idle
  PROVE  /\ stack \in Seq(Frames) /\ stack # <<>> /\ Top = stack[1] /\ Top \in Frames
         /\ Top.order \in Orders /\ Top.working \in Seq(Orders)
<1>1. stack \in Seq(Frames) /\ stack # <<>> /\ Top = stack[1]
  BY DEF Inv, TypeOK, Idle, Top
<1>2. Top \in Frames
  BY <1>1, ElementOfSeq
<1> QED BY <1>1, <1>2 DEF Frames

LEMMA TradePriceSound ==
  ASSUME NEW b, Sound(b), NEW price \in Prices
  PROVE  LET c == [b EXCEPT !.last_trade_price = price]
         IN  Sound(c) /\ \A x : Absent(b, x) => Absent(c, x)
<1> DEFINE c == [b EXCEPT !.last_trade_price = price]
<1>1. c = [levels |-> b.levels, id_map |-> b.id_map, last_trade_price |-> price]
  BY DEF Sound, IsBook
<1> HIDE DEF c
<1>2. IsBook(c) /\ c.levels = b.levels /\ c.id_map = b.id_map
  BY <1>1 DEF Sound, IsBook
<1>3. \A s, p : LevelSound(b, s, p) <=> LevelSound(c, s, p)
  BY <1>2 DEF LevelSound, HasLevel, Located
<1>4. Sound(c)
  BY <1>2, <1>3 DEF Sound
<1>5. \A x : Absent(b, x) => Absent(c, x)
  BY <1>2 DEF Absent, has_order
<1> QED BY <1>4, <1>5 DEF c

LEMMA FilledType ==
  ASSUME NEW entries \in [Ids -> [orig : Int, filled : Nat, gone : Nat]],
         NEW a \in Ids, NEW p \in Ids, NEW qty \in Nat
  PROVE  [entries EXCEPT ![a].filled = @ + qty, ![p].filled = @ + qty]
           \in [Ids -> [orig : Int, filled : Nat, gone : Nat]]
<1> DEFINE E == [orig : Int, filled : Nat, gone : Nat]
           once == [entries EXCEPT ![a].filled = @ + qty]
<1>1. \A x \in E : [x EXCEPT !.filled = @ + qty] \in E
  OBVIOUS
<1> HIDE DEF E
<1>2. entries \in [Ids -> E]
  BY DEF E
<1>3. once \in [Ids -> E]
  BY <1>1, <1>2
<1> HIDE DEF once
<1>4. [once EXCEPT ![p].filled = @ + qty] \in [Ids -> E]
  BY <1>1, <1>3
<1> QED BY <1>4 DEF once, E

LEMMA FillInv ==
  ASSUME Inv, Fill
  PROVE  Inv'
<1> DEFINE side      == Opposite(Top.order.side)
           aggressor == Top.order
<1>1. ~Idle /\ Top.working = <<>>
  BY DEF Fill, Matching
<1>2. /\ stack \in Seq(Frames) /\ stack # <<>> /\ Top = stack[1]
      /\ aggressor \in Orders /\ side \in Sides
      /\ aggressor.id \in Ids /\ aggressor.quantity \in Nat /\ aggressor.side \in Sides
  BY <1>1, TopType, OrderFields DEF Opposite, Sides
<1>3. TypeOK /\ Sound(book) /\ Apart(book, pending_stops, stack)
  BY DEF Inv
<1>4. PICK price \in DOMAIN book.levels[side] :
        LET drained   == FrontDrained(book, side, price)
            id        == FrontId(book, side, price)
            standing  == book.id_map[id]
            fill_qty  == Lesser(aggressor.quantity, standing.quantity)
            passive   == [standing EXCEPT !.quantity = standing.quantity - fill_qty]
            resting   == AfterFill(drained, passive, fill_qty)
            left      == [aggressor EXCEPT !.quantity = aggressor.quantity - fill_qty]
            trade     == [aggressor_id |-> aggressor.id, passive_id |-> id,
                          price |-> standing.price, quantity |-> fill_qty,
                          aggressor_side |-> aggressor.side]
        IN  /\ book' = [resting EXCEPT !.last_trade_price = standing.price]
            /\ result' = [result EXCEPT !.trades = Append(result.trades, trade)]
            /\ ledger' = [ledger EXCEPT ![aggressor.id].filled = @ + fill_qty,
                                        ![id].filled = @ + fill_qty]
            /\ \/ /\ stack' = [stack EXCEPT ![1] =
                                 [order |-> left, working |-> pending_stops,
                                  last_price |-> standing.price]]
                  /\ pending_stops' = <<>>
               \/ /\ stack' = [stack EXCEPT ![1] = Activation(left)]
                  /\ pending_stops' = pending_stops
  BY DEF Fill
<1> DEFINE id        == FrontId(book, side, price)
           standing  == book.id_map[id]
           fill_qty  == Lesser(aggressor.quantity, standing.quantity)
           passive   == [standing EXCEPT !.quantity = standing.quantity - fill_qty]
           resting   == AfterFill(FrontDrained(book, side, price), passive, fill_qty)
           left      == [aggressor EXCEPT !.quantity = aggressor.quantity - fill_qty]
           trade     == [aggressor_id |-> aggressor.id, passive_id |-> id,
                         price |-> standing.price, quantity |-> fill_qty,
                         aggressor_side |-> aggressor.side]
           frame     == [order |-> left, working |-> pending_stops,
                         last_price |-> standing.price]
<1>5. HasLevel(book, side, price) /\ UNCHANGED <<stop_arrivals, accepted>>
  BY DEF HasLevel, Fill
<1>6. has_order(book, id)
  <2>1. 0 \in Nat
    OBVIOUS
  <2>2. Alive(book.levels[side][price]) = Located(book, side, price)
        /\ Proper(book.levels[side][price]) /\ Located(book, side, price) # {}
    BY <1>2, <1>3, <1>5, LevelType DEF Sound, LevelSound
  <2>3. id \in Located(book, side, price)
    BY <2>2, DrainAlive DEF FrontId
  <2> QED BY <2>3 DEF Located, has_order
<1>7. /\ standing \in Orders /\ id \in Ids /\ standing.quantity \in Nat
      /\ standing.price \in Prices
  BY <1>3, <1>6, OrderInBook, OrderFields DEF Sound
<1> HIDE DEF id, standing
<1>8. /\ fill_qty \in Nat /\ fill_qty <= standing.quantity
      /\ fill_qty <= aggressor.quantity
  BY <1>2, <1>7 DEF Lesser
<1>9. left \in Orders /\ left.id = aggressor.id
  <2>1. aggressor.quantity - fill_qty \in Nat
    BY <1>2, <1>8
  <2> HIDE DEF fill_qty, aggressor
  <2> QED BY <1>2, <2>1 DEF Orders
<1> HIDE DEF fill_qty
<1>10. Sound(resting) /\ \A x : Absent(book, x) => Absent(resting, x)
  BY <1>2, <1>3, <1>5, <1>8, FillSound DEF standing, id
<1> HIDE DEF resting
<1>11. Sound(book') /\ \A x : Absent(book, x) => Absent(book', x)
  <2>1. book' = [resting EXCEPT !.last_trade_price = standing.price]
    BY <1>4 DEF resting, fill_qty, standing, id
  <2> QED BY <2>1, <1>7, <1>10, TradePriceSound
<1>12. Apart(book', pending_stops, stack)
  BY <1>3, <1>11, ApartBook
<1>13. result' \in Results
  <2>1. trade \in Trades
    BY <1>2, <1>7, <1>8 DEF Trades
  <2> HIDE DEF trade
  <2>2. result' = [result EXCEPT !.trades = Append(result.trades, trade)]
    BY <1>4 DEF trade, fill_qty, standing, id
  <2>3. result \in Results /\ result.trades \in Seq(Trades)
    BY <1>3 DEF TypeOK, Results
  <2>4. Append(result.trades, trade) \in Seq(Trades)
    BY <2>1, <2>3
  <2> QED BY <2>2, <2>3, <2>4 DEF Results
<1>14. ledger' \in [Ids -> [orig : Int, filled : Nat, gone : Nat]]
  <2>1. ledger' = [ledger EXCEPT ![aggressor.id].filled = @ + fill_qty,
                                 ![id].filled = @ + fill_qty]
    BY <1>4 DEF fill_qty, standing, id
  <2>2. ledger \in [Ids -> [orig : Int, filled : Nat, gone : Nat]]
    BY <1>3 DEF TypeOK
  <2> DEFINE aid == aggressor.id
  <2>3. aid \in Ids
    BY <1>2
  <2> HIDE DEF aid
  <2>4. [ledger EXCEPT ![aid].filled = @ + fill_qty, ![id].filled = @ + fill_qty]
          \in [Ids -> [orig : Int, filled : Nat, gone : Nat]]
    BY <2>2, <2>3, <1>7, <1>8, FilledType
  <2> QED BY <2>1, <2>4 DEF aid
<1>15. \/ stack' = [stack EXCEPT ![1] = frame] /\ pending_stops' = <<>>
       \/ stack' = [stack EXCEPT ![1] = Activation(left)] /\ pending_stops' = pending_stops
  BY <1>4 DEF fill_qty, standing, id
<1>16. pending_stops \in Seq(Orders)
  BY <1>3 DEF TypeOK
<1>17. stack' \in Seq(Frames) /\ pending_stops' \in Seq(Orders)
       /\ Apart(book', pending_stops', stack')
  <2>1. CASE stack' = [stack EXCEPT ![1] = frame] /\ pending_stops' = <<>>
    <3>1. /\ frame \in Frames /\ frame.order.id = stack[1].order.id
          /\ frame.working = pending_stops
      <4> HIDE DEF left
      <4> QED BY <1>2, <1>7, <1>9, <1>16 DEF Frames
    <3> HIDE DEF frame
    <3>2. [stack EXCEPT ![1] = frame] \in Seq(Frames)
      BY <1>2, <3>1, ReplaceTop
    <3>3. Apart(book', <<>>, [stack EXCEPT ![1] = frame])
      BY <1>1, <1>2, <1>12, <1>16, <3>1, ApartFill
    <3> QED BY <2>1, <3>2, <3>3
  <2>2. CASE stack' = [stack EXCEPT ![1] = Activation(left)] /\ pending_stops' = pending_stops
    <3> DEFINE act == Activation(left)
    <3>1. act \in Frames /\ act.order.id = stack[1].order.id /\ act.working = <<>>
      <4> HIDE DEF left
      <4> QED BY <1>2, <1>9, ActivationType
    <3> HIDE DEF act
    <3>2. [stack EXCEPT ![1] = act] \in Seq(Frames)
      BY <1>2, <3>1, ReplaceTop
    <3>3. Apart(book', pending_stops, [stack EXCEPT ![1] = act])
      BY <1>1, <1>2, <1>12, <1>16, <3>1, ApartFill
    <3> QED BY <2>2, <3>2, <3>3, <1>16 DEF act
  <2> QED BY <1>15, <2>1, <2>2
<1> QED BY <1>3, <1>5, <1>11, <1>13, <1>14, <1>17 DEF Inv, TypeOK, Sound

LEMMA TriggerStopInv ==
  ASSUME Inv, TriggerStop
  PROVE  Inv'
<1>1. /\ ~Idle /\ Top.working # <<>>
      /\ stack' = <<Enter(Head(Top.working))>> \o Advanced
      /\ stop_arrivals' = RemoveFirst(stop_arrivals, Head(Top.working).id)
      /\ UNCHANGED <<book, pending_stops, result, ledger, accepted>>
  BY DEF TriggerStop, Evaluating
<1>2. /\ TypeOK /\ Sound(book) /\ Apart(book, pending_stops, stack)
      /\ pending_stops \in Seq(Orders)
  BY DEF Inv, TypeOK
<1>3. /\ stack \in Seq(Frames) /\ stack # <<>> /\ Top = stack[1]
      /\ stack[1].working # <<>>
      /\ Head(stack[1].working) \in Orders
  BY <1>1, TopType, HeadTailProperties
<1>4. PICK o \in Orders :
        Enter(Head(stack[1].working)) = Activation(o) /\ o.id = Head(stack[1].working).id
  BY <1>3, EnterType
<1> DEFINE act == Activation(o)
<1>5. act \in Frames /\ act.working = <<>> /\ act.order.id = Head(stack[1].working).id
  BY <1>4, ActivationType
<1>6. stack' = <<act>> \o [stack EXCEPT ![1].working = Tail(stack[1].working)]
  BY <1>1, <1>3, <1>4 DEF Advanced
<1> HIDE DEF act
<1>7. stack' \in Seq(Frames) /\ Apart(book, pending_stops, stack')
  BY <1>2, <1>3, <1>5, <1>6, ApartTrigger
<1>8. stop_arrivals' \in Seq(Ids)
  BY <1>1, <1>2, RemoveFirstType DEF TypeOK
<1> QED BY <1>1, <1>2, <1>7, <1>8 DEF Inv, TypeOK

LEMMA KeepStopInv ==
  ASSUME Inv, KeepStop
  PROVE  Inv'
<1>1. /\ ~Idle /\ Top.working # <<>>
      /\ stack' = Advanced
      /\ pending_stops' = Append(pending_stops, Head(Top.working))
      /\ UNCHANGED <<book, result, ledger, stop_arrivals, accepted>>
  BY DEF KeepStop, Evaluating
<1>2. /\ TypeOK /\ Sound(book) /\ Apart(book, pending_stops, stack)
      /\ pending_stops \in Seq(Orders)
  BY DEF Inv, TypeOK
<1>3. /\ stack \in Seq(Frames) /\ stack # <<>> /\ Top = stack[1]
      /\ stack[1].working # <<>>
      /\ Head(stack[1].working) \in Orders
  BY <1>1, TopType, HeadTailProperties
<1>4. stack' = [stack EXCEPT ![1].working = Tail(stack[1].working)]
  BY <1>1, <1>3 DEF Advanced
<1>5. stack' \in Seq(Frames)
  BY <1>3, <1>4, AdvancedFields
<1>6. Apart(book, pending_stops', stack')
  <2>1. Apart(book, Append(pending_stops, Head(stack[1].working)),
              [stack EXCEPT ![1].working = Tail(stack[1].working)])
    BY <1>2, <1>3, ApartKeep
  <2>2. pending_stops' = Append(pending_stops, Head(stack[1].working))
    BY <1>1, <1>3
  <2> QED BY <2>1, <2>2, <1>4
<1>7. pending_stops' \in Seq(Orders)
  BY <1>1, <1>2, <1>3
<1> QED BY <1>1, <1>2, <1>5, <1>6, <1>7 DEF Inv, TypeOK

LEMMA FinishRestingInv ==
  ASSUME Inv, FinishResting
  PROVE  Inv'
<1>1. /\ ~Idle /\ book' = insert_order(book, Top.order) /\ stack' = Tail(stack)
      /\ UNCHANGED <<pending_stops, result, ledger, stop_arrivals, accepted>>
  BY DEF FinishResting, LoopEnded, Matching
<1>2. /\ TypeOK /\ Sound(book) /\ Apart(book, pending_stops, stack)
      /\ pending_stops \in Seq(Orders)
  BY DEF Inv, TypeOK
<1>3. /\ stack \in Seq(Frames) /\ stack # <<>> /\ Top = stack[1] /\ Top.order \in Orders
      /\ Top.working \in Seq(Orders)
  BY <1>1, TopType
<1>4. Absent(book, Top.order.id)
  <2>1. /\ IsPlace(pending_stops, stack, 1, 0)
        /\ IdAt(pending_stops, stack, 1, 0) = Top.order.id
    BY <1>3 DEF IsPlace, IdAt
  <2> QED BY <1>2, <2>1 DEF Apart
<1>5. Top.order.side \in Sides
  BY <1>3, OrderFields
<1>6. /\ ~has_order(book, Top.order.id)
      /\ HasLevel(book, Top.order.side, Top.order.price) =>
           Top.order.id \notin Queued(book.levels[Top.order.side][Top.order.price])
  BY <1>4, <1>5 DEF Absent, HasLevel
<1>7. /\ Sound(book')
      /\ \A x : Absent(book, x) /\ x # stack[1].order.id => Absent(book', x)
  BY <1>1, <1>2, <1>3, <1>6, InsertSound
<1>8. stack' \in Seq(Frames) /\ Apart(book', pending_stops, stack')
  BY <1>1, <1>2, <1>3, <1>7, ApartFinish
<1> QED BY <1>1, <1>2, <1>7, <1>8 DEF Inv, TypeOK, Sound

LEMMA FinishOtherInv ==
  ASSUME Inv, FinishExhausted \/ FinishFilled
  PROVE  Inv'
<1>1. /\ ~Idle /\ stack' = Tail(stack)
      /\ UNCHANGED <<book, pending_stops, stop_arrivals, accepted>>
  BY DEF FinishExhausted, FinishFilled, LoopEnded, Matching
<1>2. /\ TypeOK /\ Sound(book) /\ Apart(book, pending_stops, stack)
      /\ pending_stops \in Seq(Orders)
  BY DEF Inv, TypeOK
<1>3. stack \in Seq(Frames) /\ stack # <<>> /\ Top.order \in Orders
  BY <1>1, TopType
<1>4. stack' \in Seq(Frames) /\ Apart(book, pending_stops, stack')
  BY <1>1, <1>2, <1>3, ApartFinish
<1>5. /\ result' \in Results
      /\ ledger' \in [Ids -> [orig : Int, filled : Nat, gone : Nat]]
  <2>1. CASE FinishExhausted
    <3> DEFINE rejected == Rejected(Top.order.id, "MarketExhausted")
    <3>1. rejected \in Rejections
      BY <1>3, OrderFields DEF Rejected, Rejections
    <3> HIDE DEF rejected
    <3>2. result \in Results /\ result.rejections \in Seq(Rejections)
      BY <1>2 DEF TypeOK, Results
    <3>3. Append(result.rejections, rejected) \in Seq(Rejections)
      BY <3>1, <3>2
    <3>4. /\ result' = [result EXCEPT !.rejections = Append(result.rejections, rejected)]
          /\ ledger' = Withdrawn(ledger, Top.order)
      BY <2>1 DEF FinishExhausted, rejected
    <3>5. result' \in Results
      BY <3>2, <3>3, <3>4 DEF Results
    <3>6. Top.order.id \in Ids /\ 0 \in Int
      BY <1>3, OrderFields
    <3>7. ledger' \in [Ids -> [orig : Int, filled : Nat, gone : Nat]]
      BY <1>2, <1>3, <3>4, <3>6, LedgerTypes DEF TypeOK
    <3> QED BY <3>5, <3>7
  <2>2. CASE FinishFilled
    BY <1>2, <2>2 DEF FinishFilled, TypeOK
  <2> QED BY <2>1, <2>2
<1> QED BY <1>1, <1>2, <1>4, <1>5 DEF Inv, TypeOK

-----------------------------------------------------------------------------
(* The events of the gateway, for which only the first rule matters. *)
LEMMA GatewayNextInv ==
  ASSUME "ids" \in Discipline, Inv, [GatewayNext]_vars
  PROVE  Inv'
<1>1. CASE Submit
  <2>1. ASSUME NEW id \in Ids, NEW t \in NewOrders, SubmitNew(WithId(t, id)) PROVE Inv'
    BY <2>1, WithIdType, SubmitNewInv
  <2>2. ASSUME NEW id \in Ids, CancelPending(id) PROVE Inv'
    BY <2>2, CancelPendingInv
  <2>3. ASSUME NEW id \in Ids, CancelResting(id) PROVE Inv'
    BY <2>3, CancelRestingInv
  <2>4. ASSUME NEW id \in Ids, CancelUnknown(id) PROVE Inv'
    BY <2>4, RejectInv DEF CancelUnknown
  <2> QED BY <1>1, <2>1, <2>2, <2>3, <2>4 DEF Submit
<1>2. CASE Step
  BY <1>2, FillInv, TriggerStopInv, KeepStopInv, FinishRestingInv, FinishOtherInv DEF Step
<1>3. CASE UNCHANGED vars
  BY <1>3 DEF vars, Inv, TypeOK
<1> QED BY <1>1, <1>2, <1>3 DEF GatewayNext

LEMMA NextInv ==
  ASSUME {"ids", "requeues"} \subseteq Discipline, Inv, [Next]_vars
  PROVE  Inv'
<1>0. "ids" \in Discipline /\ "requeues" \in Discipline
  OBVIOUS
<1>1. CASE [GatewayNext]_vars
  BY <1>0, <1>1, GatewayNextInv
<1>2. CASE Amend
  <2>1. ASSUME NEW id \in Ids, NEW m \in Amendments, ModifyRequeue(id, m) PROVE Inv'
    BY <1>0, <2>1, ModifyRequeueInv
  <2>2. ASSUME NEW id \in Ids, NEW m \in Amendments, ModifyInPlace(id, m) PROVE Inv'
    BY <2>2, ModifyInPlaceInv
  <2>3. ASSUME NEW id \in Ids, ModifyUnknown(id) PROVE Inv'
    BY <2>3, RejectInv DEF ModifyUnknown
  <2>4. ASSUME NEW old \in Ids, NEW id \in Ids, NEW t \in NewOrders,
               ReplaceOrder(old, WithId(t, id))
        PROVE  Inv'
    BY <1>0, <2>4, WithIdType, ReplaceOrderInv
  <2>5. ASSUME NEW old \in Ids, ReplaceUnknown(old) PROVE Inv'
    BY <2>5, RejectInv DEF ReplaceUnknown
  <2> QED BY <1>2, <2>1, <2>2, <2>3, <2>4, <2>5 DEF Amend
<1> QED BY <1>1, <1>2 DEF Next, GatewayNext

(* What the invariant says of the book is what docs/testing.md asks for. *)
LEMMA SoundIsConsistent ==
  ASSUME Sound(book)
  PROVE  BookConsistent
<1>1. ASSUME NEW side \in Sides, NEW p \in DOMAIN book.levels[side]
      PROVE  LevelConsistent(book, side, p)
  <2>1. HasLevel(book, side, p)
    BY DEF HasLevel
  <2>2. p \in Prices
    BY <2>1, LevelType DEF Sound
  <2>3. /\ Proper(book.levels[side][p])
        /\ Alive(book.levels[side][p]) = Located(book, side, p)
        /\ Located(book, side, p) # {}
    BY <2>1, <2>2 DEF Sound, LevelSound
  <2>4. \A id \in Alive(book.levels[side][p]) :
          /\ has_order(book, id)
          /\ book.id_map[id].side = side /\ book.id_map[id].price = p
    BY <2>3 DEF Located, has_order
  <2>5. \A id \in book.levels[side][p].cancelled :
          has_order(book, id) => book.id_map[id].side # side \/ book.id_map[id].price # p
    BY <2>3 DEF Located, has_order, Alive
  <2> QED BY <2>3, <2>4, <2>5 DEF LevelConsistent, Proper, Alive, Queued
<1>2. ASSUME NEW id \in DOMAIN book.id_map
      PROVE  /\ book.id_map[id].id = id
             /\ HasEntry(book, book.id_map[id].side, book.id_map[id].price, id)
  <2> DEFINE side == book.id_map[id].side
             p    == book.id_map[id].price
  <2>1. book.id_map[id] \in Orders
    BY OrderInBook DEF Sound, has_order
  <2>2. side \in Sides /\ p \in Prices
    BY <2>1, OrderFields
  <2>3. id \in Located(book, side, p)
    BY DEF Located
  <2>4. HasLevel(book, side, p) /\ id \in Queued(book.levels[side][p])
    BY <2>2, <2>3 DEF Sound, LevelSound, Alive
  <2> QED BY <2>4 DEF HasEntry, Queued, Sound
<1> QED BY <1>1, <1>2 DEF BookConsistent, IdsConsistent

LEMMA SoundFrontKnown ==
  ASSUME Inv
  PROVE  FrontIsKnown
<1> SUFFICES ASSUME Matching, NEW p \in DOMAIN book.levels[Opposite(Top.order.side)]
             PROVE  has_order(book, FrontId(book, Opposite(Top.order.side), p))
  BY DEF FrontIsKnown
<1> DEFINE side == Opposite(Top.order.side)
           level == book.levels[side][p]
<1>1. side \in Sides
  BY DEF Opposite, Sides
<1>2. HasLevel(book, side, p)
  BY DEF HasLevel
<1>3. Proper(level) /\ Alive(level) = Located(book, side, p) /\ Located(book, side, p) # {}
  BY <1>1, <1>2, LevelType DEF Inv, Sound, LevelSound
<1>4. FrontId(book, side, p) \in Located(book, side, p)
  BY <1>3, DrainAlive DEF FrontId
<1> QED BY <1>4 DEF Located, has_order

-----------------------------------------------------------------------------
(* The theorems.  They hold for every set of ids, prices, orders and       *)
(* amendments and any number of orders, when clients keep both rules: no   *)
(* order enters with the id of an order the book still knows, and no       *)
(* modify event queues an order again behind a dead entry of its own.      *)

(* The inductive invariant holds in every reachable state of the engine. *)
THEOREM Invariance ==
  ASSUME {"ids", "requeues"} \subseteq Discipline
  PROVE  Spec => []Inv
<1>1. Init => Inv
  BY InitInv
<1>2. Inv /\ [Next]_vars => Inv'
  BY NextInv
<1> QED BY <1>1, <1>2, PTL DEF Spec

(* Type correctness: no unsigned subtraction of the matching loop or of    *)
(* process_modify goes below zero, and pop_front never meets an empty      *)
(* deque.                                                                  *)
THEOREM TypeCorrect ==
  ASSUME {"ids", "requeues"} \subseteq Discipline
  PROVE  Spec => []TypeOK
<1>1. Inv => TypeOK
  BY DEF Inv
<1> QED BY <1>1, Invariance, PTL

(* The levels and id_map_ agree at all times, also in the middle of a      *)
(* cascade of stops: docs/testing.md "ID map consistency".                 *)
THEOREM Consistency ==
  ASSUME {"ids", "requeues"} \subseteq Discipline
  PROVE  Spec => []BookConsistent
<1>1. Inv => BookConsistent
  BY SoundIsConsistent DEF Inv
<1> QED BY <1>1, Invariance, PTL

(* The assertion of match_limit, and the unchecked dereference of          *)
(* match_market, never meet an id the book does not know.                  *)
THEOREM FrontKnown ==
  ASSUME {"ids", "requeues"} \subseteq Discipline
  PROVE  Spec => []FrontIsKnown
<1>1. Inv => FrontIsKnown
  BY SoundFrontKnown
<1> QED BY <1>1, Invariance, PTL

LEMMA InvExclusive ==
  ASSUME Inv
  PROVE  Exclusive
<1>1. Apart(book, pending_stops, stack) /\ pending_stops \in Seq(Orders)
      /\ stack \in Seq(Frames)
  BY DEF Inv, TypeOK
<1>2. ASSUME NEW p \in Places
      PROVE  /\ p = <<p[1], p[2]>> /\ p[1] \in Nat /\ p[2] \in Nat
             /\ IsPlace(pending_stops, stack, p[1], p[2])
             /\ PlacedId(p) = IdAt(pending_stops, stack, p[1], p[2])
  <2>1. CASE p \in {0} \X (1..Len(pending_stops))
    BY <1>1, <2>1 DEF IsPlace, IdAt, PlacedId, PlacedOrder
  <2>2. CASE \E f \in 1..Len(stack) : p \in {f} \X (0..Len(stack[f].working))
    <3>1. PICK f \in 1..Len(stack) : p \in {f} \X (0..Len(stack[f].working))
      BY <2>2
    <3>2. stack[f].working \in Seq(Orders)
      <4>1. stack[f] \in Frames
        BY <1>1
      <4> QED BY <4>1 DEF Frames
    <3>3. f \in Nat /\ f # 0 /\ Len(stack[f].working) \in Nat
      BY <1>1, <3>2
    <3> QED BY <3>1, <3>3 DEF IsPlace, IdAt, PlacedId, PlacedOrder
  <2> QED BY <2>1, <2>2 DEF Places
<1>3. ASSUME NEW p \in Places, NEW q \in Places, PlacedId(p) = PlacedId(q)
      PROVE  p = q
  <2>1. p[1] = q[1] /\ p[2] = q[2]
    BY <1>1, <1>2, <1>3 DEF Apart
  <2> QED BY <1>2, <2>1
<1>4. ASSUME NEW p \in Places PROVE ~has_order(book, PlacedId(p))
  BY <1>1, <1>2 DEF Apart, Absent
<1> QED BY <1>3, <1>4 DEF Exclusive

(* An order outside the book - pending, waiting in a nested evaluation or  *)
(* being matched - is there once, and not in the book: docs/testing.md     *)
(* "Stop list exclusivity", also in the middle of a cascade.               *)
THEOREM Exclusivity ==
  ASSUME {"ids", "requeues"} \subseteq Discipline
  PROVE  Spec => []Exclusive
<1>1. Inv => Exclusive
  BY InvExclusive
<1> QED BY <1>1, Invariance, PTL

=============================================================================
