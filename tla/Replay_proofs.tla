--------------------------- MODULE Replay_proofs ---------------------------
(***************************************************************************)
(* Snapshots, for every book the engine can be in: what save() writes is a *)
(* file whose counts are right, so that a file cut short is never loaded,  *)
(* and what load() makes of a whole file is the book that was saved.       *)
(*                                                                         *)
(* The count save() writes is that of id_map_, the orders are those the    *)
(* queues of the levels hold.  The two agree because every order rests on  *)
(* exactly one live queue entry, which is what Sound says of the book.     *)
(* load() inserts the orders one by one; that this gives back each queue   *)
(* in its order is an induction over the number of orders inserted.        *)
(***************************************************************************)
EXTENDS Replay, EngineTotals_proofs

OnSide(b, side) == {id \in DOMAIN b.id_map : b.id_map[id].side = side}

(* A written entry is the place of an order, and every order has one. *)
LEMMA EntryFacts ==
  ASSUME NEW b, Sound(b), NEW side \in Sides
  PROVE  /\ \A e \in WrittenEntries(b, side) :
              /\ e = <<e[1], e[2]>> /\ e[1] \in DOMAIN b.levels[side]
              /\ e[2] \in 1..Len(b.levels[side][e[1]].queue)
              /\ EntryId(b, side, e) = b.levels[side][e[1]].queue[e[2]]
              /\ EntryId(b, side, e) \in Located(b, side, e[1])
         /\ \A p \in DOMAIN b.levels[side] : \A k \in 1..Len(b.levels[side][p].queue) :
              b.levels[side][p].queue[k] \in Located(b, side, p) =>
                <<p, k>> \in WrittenEntries(b, side)
<1> DEFINE Pairs == UNION {{p} \X (1..Len(b.levels[side][p].queue)) : p \in DOMAIN b.levels[side]}
<1>1. \A p \in DOMAIN b.levels[side] :
        /\ p \in Prices /\ Proper(b.levels[side][p])
        /\ Alive(b.levels[side][p]) = Located(b, side, p)
  <2>1. \A p \in DOMAIN b.levels[side] : p \in Prices
    BY DEF Sound, IsBook, IsMap
  <2> QED BY <2>1 DEF Sound, LevelSound, HasLevel
<1>2. \A e \in Pairs : /\ e = <<e[1], e[2]>> /\ e[1] \in DOMAIN b.levels[side]
                       /\ e[2] \in 1..Len(b.levels[side][e[1]].queue)
  OBVIOUS
<1>3. \A p \in DOMAIN b.levels[side] : \A k \in 1..Len(b.levels[side][p].queue) :
        <<p, k>> \in Pairs /\ <<p, k>>[1] = p /\ <<p, k>>[2] = k
  OBVIOUS
<1>4. \A p \in DOMAIN b.levels[side] : \A k \in 1..Len(b.levels[side][p].queue) :
        b.levels[side][p].queue[k] \in Located(b, side, p) <=>
          b.levels[side][p].queue[k] \notin b.levels[side][p].cancelled
  BY <1>1 DEF Alive, Queued
<1>5. WrittenEntries(b, side) =
        {e \in Pairs : /\ EntryId(b, side, e) \notin b.levels[side][e[1]].cancelled
                       /\ has_order(b, EntryId(b, side, e))}
  BY DEF WrittenEntries
<1> HIDE DEF Pairs
<1>6. ASSUME NEW e \in WrittenEntries(b, side)
      PROVE  /\ e = <<e[1], e[2]>> /\ e[1] \in DOMAIN b.levels[side]
             /\ e[2] \in 1..Len(b.levels[side][e[1]].queue)
             /\ EntryId(b, side, e) = b.levels[side][e[1]].queue[e[2]]
             /\ EntryId(b, side, e) \in Located(b, side, e[1])
  <2>1. e \in Pairs /\ EntryId(b, side, e) \notin b.levels[side][e[1]].cancelled
    BY <1>5
  <2> QED BY <1>2, <1>4, <2>1 DEF EntryId
<1>7. ASSUME NEW p \in DOMAIN b.levels[side], NEW k \in 1..Len(b.levels[side][p].queue),
             b.levels[side][p].queue[k] \in Located(b, side, p)
      PROVE  <<p, k>> \in WrittenEntries(b, side)
  <2>1. EntryId(b, side, <<p, k>>) = b.levels[side][p].queue[k]
    BY <1>3 DEF EntryId
  <2>2. has_order(b, b.levels[side][p].queue[k])
    BY <1>7 DEF Located, has_order
  <2> QED BY <1>3, <1>4, <1>5, <1>7, <2>1, <2>2
<1> QED BY <1>6, <1>7

(* The entries of a side are as many as its orders. *)
LEMMA EntriesCount ==
  ASSUME NEW b, Sound(b), IsFiniteSet(DOMAIN b.id_map), NEW side \in Sides
  PROVE  /\ IsFiniteSet(WrittenEntries(b, side)) /\ IsFiniteSet(OnSide(b, side))
         /\ Cardinality(WrittenEntries(b, side)) = Cardinality(OnSide(b, side))
<1> DEFINE W == WrittenEntries(b, side)
           S == OnSide(b, side)
           f == [e \in W |-> EntryId(b, side, e)]
<1>1. IsFiniteSet(S)
  BY FS_Subset DEF OnSide
<1>2. \A e \in W : /\ e = <<e[1], e[2]>> /\ e[1] \in DOMAIN b.levels[side]
                   /\ e[2] \in 1..Len(b.levels[side][e[1]].queue)
                   /\ EntryId(b, side, e) = b.levels[side][e[1]].queue[e[2]]
                   /\ EntryId(b, side, e) \in Located(b, side, e[1])
  BY EntryFacts
<1>3. \A p \in DOMAIN b.levels[side] : \A k \in 1..Len(b.levels[side][p].queue) :
        b.levels[side][p].queue[k] \in Located(b, side, p) => <<p, k>> \in W
  BY EntryFacts
<1> HIDE DEF W
<1>4. f \in [W -> S]
  BY <1>2 DEF Located, OnSide
<1>5. ASSUME NEW x \in W, NEW y \in W, f[x] = f[y] PROVE x = y
  <2>1. EntryId(b, side, x) = EntryId(b, side, y)
    BY <1>5
  <2>2. x[1] = y[1]
    BY <1>2, <2>1 DEF Located
  <2>3. Proper(b.levels[side][x[1]])
    <3>1. x[1] \in Prices /\ HasLevel(b, side, x[1])
      BY <1>2 DEF Sound, IsBook, IsMap, HasLevel
    <3> QED BY <3>1 DEF Sound, LevelSound
  <2>4. x[2] = y[2]
    BY <1>2, <2>1, <2>2, <2>3 DEF Proper
  <2> QED BY <1>2, <2>2, <2>4
<1>6. ASSUME NEW id \in S PROVE \E e \in W : f[e] = id
  <2> DEFINE p == b.id_map[id].price
  <2>1. id \in Located(b, side, p) /\ p \in Prices
    <3>1. id \in DOMAIN b.id_map /\ b.id_map[id].side = side
      BY DEF OnSide
    <3>2. b.id_map[id] \in Orders
      BY <3>1 DEF Sound, IsBook, IsMap
    <3> QED BY <3>1, <3>2, OrderFields DEF Located
  <2> HIDE DEF p
  <2>2. HasLevel(b, side, p) /\ id \in Alive(b.levels[side][p])
    BY <2>1 DEF Sound, LevelSound
  <2>3. PICK k \in 1..Len(b.levels[side][p].queue) : b.levels[side][p].queue[k] = id
    BY <2>2 DEF Alive, Queued
  <2>4. <<p, k>> \in W /\ EntryId(b, side, <<p, k>>) = id
    BY <1>3, <2>1, <2>2, <2>3 DEF HasLevel, EntryId
  <2>5. f[<<p, k>>] = id
    BY <2>4
  <2> QED BY <2>4, <2>5
<1>7. f \in Injection(W, S)
  BY <1>4, <1>5 DEF Injection, IsInjective
<1>8. f \in Surjection(W, S)
  BY <1>4, <1>6 DEF Surjection
<1>9. IsFiniteSet(W) /\ Cardinality(W) = Cardinality(S)
  BY <1>1, <1>7, <1>8, FS_Injection
<1> QED BY <1>1, <1>9 DEF W

LEMMA DisjointCount ==
  ASSUME NEW S, NEW T, IsFiniteSet(S), IsFiniteSet(T), S \cap T = {}
  PROVE  Cardinality(S \cup T) = Cardinality(S) + Cardinality(T)
<1>1. Cardinality(S \cap T) = 0
  BY FS_EmptySet
<1>2. Cardinality(S \cup T) = Cardinality(S) + Cardinality(T) - Cardinality(S \cap T)
  BY FS_Union
<1>3. Cardinality(S) \in Nat /\ Cardinality(T) \in Nat
  BY FS_CardinalityType
<1> QED BY <1>1, <1>2, <1>3

(* Sequences of whatever. *)
IsList(s) == \E S : s \in Seq(S)

LEMMA ListOf ==
  ASSUME NEW n \in Nat, NEW s, s = [i \in 1..n |-> s[i]]
  PROVE  IsList(s) /\ Len(s) = n
<1>1. s \in [1..n -> {s[i] : i \in 1..n}]
  OBVIOUS
<1>2. s \in Seq({s[i] : i \in 1..n})
  BY <1>1
<1>3. IsList(s)
  <2> DEFINE T == {s[i] : i \in 1..n}
  <2>1. s \in Seq(T)
    BY <1>2
  <2> HIDE DEF T
  <2> QED BY <2>1, Zenon DEF IsList
<1>4. Len(s) = n
  <2>1. DOMAIN s = 1..n
    BY <1>1
  <2>2. DOMAIN s = 1..Len(s) /\ Len(s) \in Nat
    BY <1>2
  <2> QED BY <2>1, <2>2
<1> QED BY <1>3, <1>4

(* The number of orders that follow the count is the count. *)
LEMMA OrdersCounted ==
  ASSUME NEW b, Sound(b), IsFiniteSet(DOMAIN b.id_map)
  PROVE  /\ Cardinality(DOMAIN b.id_map) \in Nat
         /\ \A side \in Sides : IsList(OrdersOf(b, side))
         /\ \A side \in Sides : Len(OrdersOf(b, side)) = Cardinality(WrittenEntries(b, side))
         /\ \A side \in Sides : Len(OrdersOf(b, side)) \in Nat
         /\ Len(OrdersOf(b, Buy)) + Len(OrdersOf(b, Sell)) = Cardinality(DOMAIN b.id_map)
<1> DEFINE S(side) == OnSide(b, side)
           N(side) == Cardinality(WrittenEntries(b, side))
<1>1. \A side \in Sides : /\ IsFiniteSet(S(side)) /\ Cardinality(S(side)) = N(side)
                          /\ N(side) \in Nat
  BY EntriesCount, FS_CardinalityType
<1>2. ASSUME NEW side \in Sides
      PROVE  Len(OrdersOf(b, side)) = N(side) /\ IsList(OrdersOf(b, side))
  <2>1. N(side) \in Nat
    BY <1>1
  <2> DEFINE entries == WrittenEntries(b, side)
             Nth(i)  == CHOOSE entry \in entries :
                          Cardinality({x \in entries : WrittenBefore(side, x, entry)}) = i - 1
             orders  == [i \in 1..N(side) |-> b.id_map[EntryId(b, side, Nth(i))]]
  <2>2. OrdersOf(b, side) = orders
    BY DEF OrdersOf
  <2> HIDE DEF Nth, N
  <2>3. DOMAIN orders = 1..N(side) /\ orders = [i \in 1..N(side) |-> orders[i]]
    OBVIOUS
  <2> HIDE DEF orders
  <2>4. IsList(orders) /\ Len(orders) = N(side)
    BY <2>1, <2>3, ListOf
  <2> QED BY <2>2, <2>4
<1>3. S(Buy) \cup S(Sell) = DOMAIN b.id_map /\ S(Buy) \cap S(Sell) = {}
  <2>1. \A id \in DOMAIN b.id_map : b.id_map[id].side \in Sides
    BY OrderFields DEF Sound, IsBook, IsMap
  <2> QED BY <2>1 DEF OnSide, Sides, Buy, Sell
<1>4. Buy \in Sides /\ Sell \in Sides
  BY DEF Sides
<1> HIDE DEF S, N
<1>5. Cardinality(DOMAIN b.id_map) = Cardinality(S(Buy)) + Cardinality(S(Sell))
  <2>1. IsFiniteSet(S(Buy)) /\ IsFiniteSet(S(Sell))
    BY <1>1, <1>4
  <2>2. Cardinality(S(Buy) \cup S(Sell)) = Cardinality(S(Buy)) + Cardinality(S(Sell))
    BY <1>3, <2>1, DisjointCount
  <2> QED BY <1>3, <2>2
<1>6. Cardinality(DOMAIN b.id_map) = N(Buy) + N(Sell) /\ Cardinality(DOMAIN b.id_map) \in Nat
  BY <1>1, <1>4, <1>5
<1>7. \A side \in Sides : Len(OrdersOf(b, side)) = N(side) /\ N(side) \in Nat
  BY <1>1, <1>2
<1>8. \A side \in Sides : IsList(OrdersOf(b, side))
  BY <1>2
<1>9. Len(OrdersOf(b, Buy)) + Len(OrdersOf(b, Sell)) = Cardinality(DOMAIN b.id_map)
  BY <1>4, <1>6, <1>7
<1>10. \A side \in Sides : N(side) = Cardinality(WrittenEntries(b, side))
  BY DEF N
<1>11. \A side \in Sides : /\ Len(OrdersOf(b, side)) = Cardinality(WrittenEntries(b, side))
                           /\ Len(OrdersOf(b, side)) \in Nat
  BY <1>7, <1>10
<1>12. Cardinality(DOMAIN b.id_map) \in Nat
  BY <1>6
<1> QED BY <1>8, <1>9, <1>11, <1>12

-----------------------------------------------------------------------------
(* Concatenation. *)
Joined(c, s, t, m, n) ==
  /\ IsList(c) /\ m \in Nat /\ n \in Nat /\ Len(c) = m + n
  /\ \A i \in 1..m : c[i] = s[i]
  /\ \A i \in 1..n : c[m + i] = t[i]

LEMMA ListConcat ==
  ASSUME NEW s, NEW t, IsList(s), IsList(t)
  PROVE  Joined(s \o t, s, t, Len(s), Len(t))
<1>1. PICK S : s \in Seq(S)
  BY DEF IsList
<1>2. PICK T : t \in Seq(T)
  BY DEF IsList
<1>3. s \in Seq(S \cup T) /\ t \in Seq(S \cup T)
  BY <1>1, <1>2
<1>4. /\ s \o t \in Seq(S \cup T) /\ Len(s \o t) = Len(s) + Len(t)
      /\ \A i \in 1..Len(s) + Len(t) :
           (s \o t)[i] = IF i <= Len(s) THEN s[i] ELSE t[i - Len(s)]
  BY <1>3, ConcatProperties
<1>5. Len(s) \in Nat /\ Len(t) \in Nat
  BY <1>3
<1>6. \A i \in 1..Len(s) : (s \o t)[i] = s[i]
  BY <1>4, <1>5
<1>7. \A i \in 1..Len(t) : (s \o t)[Len(s) + i] = t[i]
  <2> DEFINE m == Len(s)
             n == Len(t)
             c == s \o t
  <2> HIDE DEF m, n, c
  <2>1. m \in Nat /\ n \in Nat /\ \A i \in 1..m + n : c[i] = IF i <= m THEN s[i] ELSE t[i - m]
    BY <1>4, <1>5 DEF m, n, c
  <2>2. \A i \in 1..n : m + i \in 1..m + n /\ ~(m + i <= m) /\ (m + i) - m = i
    BY <2>1
  <2>3. \A i \in 1..n : c[m + i] = t[i]
    BY <2>1, <2>2
  <2> QED BY <2>3 DEF m, n, c
<1> QED BY <1>4, <1>5, <1>6, <1>7 DEF IsList, Joined

LEMMA Concat ==
  ASSUME NEW s, NEW t, IsList(s), IsList(t), NEW m, Len(s) = m, NEW n, Len(t) = n,
         NEW c, c = s \o t
  PROVE  Joined(c, s, t, m, n)
<1>1. Joined(s \o t, s, t, Len(s), Len(t))
  BY ListConcat, Zenon
<1> QED BY <1>1, Zenon

(* What the file holds, field by field. *)
Saved(b) == OrdersOf(b, Buy) \o OrdersOf(b, Sell)

IsImage(f, b, stops) ==
  LET n == Cardinality(DOMAIN b.id_map)
  IN  /\ n \in Nat /\ Len(stops) \in Nat
      /\ IsList(f) /\ Len(f) = 5 + n + Len(stops)
      /\ f[1] = Field("magic", 1)
      /\ f[3] = Field("ltp", b.last_trade_price)
      /\ f[4] = Field("order_count", n)
      /\ Len(Saved(b)) = n
      /\ \A i \in 1..n : f[4 + i] = Field("order", Saved(b)[i])
      /\ f[5 + n] = Field("stop_count", Len(stops))
      /\ \A i \in 1..Len(stops) : f[5 + n + i] = Field("stop", stops[i])

LEMMA EachList ==
  ASSUME NEW name, NEW s, Len(s) \in Nat
  PROVE  /\ IsList(Each(name, s)) /\ Len(Each(name, s)) = Len(s)
         /\ \A i \in 1..Len(s) : Each(name, s)[i] = Field(name, s[i])
<1> DEFINE e == Each(name, s)
           n == Len(s)
<1>1. e = [i \in 1..n |-> e[i]] /\ \A i \in 1..n : e[i] = Field(name, s[i])
  BY DEF Each
<1> HIDE DEF e
<1>2. IsList(e) /\ Len(e) = n
  BY <1>1, ListOf
<1> QED BY <1>1, <1>2 DEF e

LEMMA ImageIsImage ==
  ASSUME NEW b, Sound(b), IsFiniteSet(DOMAIN b.id_map), NEW stops, IsList(stops)
  PROVE  IsImage(Image(b, stops), b, stops)
<1> DEFINE n  == Cardinality(DOMAIN b.id_map)
           m  == Len(stops)
           h  == <<Field("magic", 1), Field("sequence", 0), Field("ltp", b.last_trade_price),
                   Field("order_count", n)>>
           o  == Each("order", Saved(b))
           c  == <<Field("stop_count", m)>>
           s  == Each("stop", stops)
           x  == h \o o
           y  == x \o c
           f  == y \o s
<1>1. /\ n \in Nat /\ IsList(Saved(b)) /\ Len(Saved(b)) = n
  <2>1. Buy \in Sides /\ Sell \in Sides
    BY DEF Sides
  <2>2. IsList(OrdersOf(b, Buy)) /\ IsList(OrdersOf(b, Sell))
    BY <2>1, OrdersCounted
  <2>3. Joined(Saved(b), OrdersOf(b, Buy), OrdersOf(b, Sell), Len(OrdersOf(b, Buy)),
               Len(OrdersOf(b, Sell)))
    BY <2>2, ListConcat DEF Saved
  <2> QED BY <2>1, <2>3, OrdersCounted DEF Joined
<1>2. m \in Nat
  BY DEF IsList
<1>3. /\ IsList(h) /\ Len(h) = 4
      /\ h[1] = Field("magic", 1) /\ h[3] = Field("ltp", b.last_trade_price)
      /\ h[4] = Field("order_count", n)
  <2>1. Len(h) = 4 /\ h = [i \in 1..4 |-> h[i]]
    OBVIOUS
  <2>2. IsList(h)
    <3> HIDE DEF h
    <3> QED BY <2>1, ListOf
  <2> QED BY <2>1, <2>2
<1>4. IsList(c) /\ Len(c) = 1 /\ c[1] = Field("stop_count", m)
  <2>1. Len(c) = 1 /\ c = [i \in 1..1 |-> c[i]] /\ c[1] = Field("stop_count", m)
    OBVIOUS
  <2>2. IsList(c)
    <3> HIDE DEF c
    <3> QED BY <2>1, ListOf
  <2> QED BY <2>1, <2>2
<1>5. /\ IsList(o) /\ Len(o) = n
      /\ \A i \in 1..n : o[i] = Field("order", Saved(b)[i])
  BY <1>1, EachList
<1>6. /\ IsList(s) /\ Len(s) = m
      /\ \A i \in 1..m : s[i] = Field("stop", stops[i])
  BY <1>2, EachList
<1>7. Image(b, stops) = f
  BY Zenon DEF Image, Saved
<1>x. x = h \o o /\ y = x \o c /\ f = y \o s
  OBVIOUS
<1> HIDE DEF n, m, h, o, c, s, x, y, f
<1>8. /\ IsList(x) /\ Len(x) = 4 + n
      /\ x[1] = h[1] /\ x[3] = h[3] /\ x[4] = h[4]
      /\ \A i \in 1..n : x[4 + i] = o[i]
  <2>1. /\ IsList(x) /\ Len(x) = 4 + n /\ \A i \in 1..4 : x[i] = h[i]
        /\ \A i \in 1..n : x[4 + i] = o[i]
    <3>1. Joined(x, h, o, 4, n)
      BY <1>3, <1>5, <1>x, Concat, Zenon
    <3> QED BY <3>1 DEF Joined
  <2>2. 1 \in 1..4 /\ 3 \in 1..4 /\ 4 \in 1..4
    OBVIOUS
  <2> QED BY <2>1, <2>2
<1>9. /\ IsList(y) /\ Len(y) = 5 + n
      /\ y[1] = h[1] /\ y[3] = h[3] /\ y[4] = h[4]
      /\ \A i \in 1..n : y[4 + i] = o[i]
      /\ y[5 + n] = c[1]
  <2>0. Joined(y, x, c, 4 + n, 1)
    BY <1>4, <1>8, <1>x, Concat, Zenon
  <2>1. IsList(y) /\ Len(y) = (4 + n) + 1 /\ \A i \in 1..(4 + n) : y[i] = x[i]
    BY <2>0 DEF Joined
  <2>2. y[(4 + n) + 1] = c[1]
    BY <2>0 DEF Joined
  <2>3. (4 + n) + 1 = 5 + n /\ 1 \in 1..(4 + n) /\ 3 \in 1..(4 + n) /\ 4 \in 1..(4 + n)
        /\ \A i \in 1..n : 4 + i \in 1..(4 + n)
    BY <1>1
  <2> QED BY <1>8, <2>1, <2>2, <2>3
<1>10. /\ IsList(f) /\ Len(f) = 5 + n + m
       /\ f[1] = h[1] /\ f[3] = h[3] /\ f[4] = h[4]
       /\ \A i \in 1..n : f[4 + i] = o[i]
       /\ f[5 + n] = c[1]
       /\ \A i \in 1..m : f[5 + n + i] = s[i]
  <2>1. /\ IsList(f) /\ Len(f) = (5 + n) + m /\ \A i \in 1..(5 + n) : f[i] = y[i]
        /\ \A i \in 1..m : f[(5 + n) + i] = s[i]
    <3>1. Joined(f, y, s, 5 + n, m)
      BY <1>6, <1>9, <1>x, Concat, Zenon
    <3> QED BY <3>1 DEF Joined
  <2>2. /\ 1 \in 1..(5 + n) /\ 3 \in 1..(5 + n) /\ 4 \in 1..(5 + n) /\ 5 + n \in 1..(5 + n)
        /\ \A i \in 1..n : 4 + i \in 1..(5 + n)
    BY <1>1
  <2> QED BY <1>9, <2>1, <2>2
<1>11. IsImage(f, b, stops)
  BY <1>1, <1>2, <1>3, <1>4, <1>5, <1>6, <1>10 DEF IsImage, n, m
<1> QED BY <1>7, <1>11

(* load() succeeds on the whole file, and on no part of it: the count that *)
(* a cut file lacks, or the last order or stop that it lacks, makes a read *)
(* fail.                                                                   *)
LEMMA PrefixLoads ==
  ASSUME NEW b, NEW stops, NEW f, IsImage(f, b, stops), NEW w \in Nat, w <= Len(f)
  PROVE  Loads(SubSeq(f, 1, w)) <=> w = Len(f)
<1> DEFINE n == Cardinality(DOMAIN b.id_map)
           m == Len(stops)
           g == SubSeq(f, 1, w)
<1>1. /\ n \in Nat /\ m \in Nat /\ Len(f) = 5 + n + m
      /\ f[1] = Field("magic", 1) /\ f[4] = Field("order_count", n)
      /\ f[5 + n] = Field("stop_count", m)
  BY DEF IsImage
<1>2. Len(g) = w /\ (\A i \in 1..w : g[i] = f[i]) /\ (w = 0 => g = <<>>) /\ (w # 0 => g # <<>>)
  <2>1. PICK S : f \in Seq(S)
    BY DEF IsImage, IsList
  <2>2. g \in Seq(S) /\ Len(g) = w /\ \A i \in 1..w : g[i] = f[i]
    BY <2>1
  <2> QED BY <2>2
<1> HIDE DEF n, m, g
<1>3. HasMagic(g) <=> w # 0
  BY <1>1, <1>2 DEF HasMagic
<1>4. OrderCount(g) = IF w >= 4 THEN n ELSE 0
  BY <1>1, <1>2 DEF OrderCount, Read, Field
<1>5. CASE w < 4
  <2>1. OrderCount(g) = 0 /\ StopCount(g) = 0
    BY <1>2, <1>4, <1>5 DEF StopCount, Read
  <2> QED BY <1>1, <1>2, <1>5, <2>1 DEF Loads, g
<1>6. CASE w >= 4 /\ w < 5 + n
  <2>1. OrderCount(g) = n /\ StopCount(g) = 0
    BY <1>1, <1>2, <1>4, <1>6 DEF StopCount, Read
  <2> QED BY <1>1, <1>2, <1>6, <2>1 DEF Loads, g
<1>7. CASE w >= 5 + n
  <2>1. OrderCount(g) = n
    BY <1>1, <1>4, <1>7
  <2>2. 5 + n <= Len(g) /\ g[5 + n] = Field("stop_count", m)
    BY <1>1, <1>2, <1>7
  <2>3. StopCount(g) = m
    BY <2>1, <2>2 DEF StopCount, Read, Field
  <2>4. Loads(g) <=> w >= 5 + n + m
    BY <1>1, <1>2, <1>3, <1>7, <2>1, <2>3 DEF Loads
  <2> QED BY <1>1, <1>7, <2>4 DEF g
<1> QED BY <1>1, <1>5, <1>6, <1>7

(* What a whole file gives back. *)
LEMMA WholeFile ==
  ASSUME NEW b, NEW stops, IsList(stops), NEW f, IsImage(f, b, stops)
  PROVE  LoadedStops(f) = stops /\ Read(f, 3, 0) = b.last_trade_price
         /\ OrderCount(f) = Cardinality(DOMAIN b.id_map)
         /\ \A i \in 1..OrderCount(f) : Read(f, 4 + i, DefaultOrder) = Saved(b)[i]
<1> DEFINE n == Cardinality(DOMAIN b.id_map)
           m == Len(stops)
<1>1. /\ n \in Nat /\ m \in Nat /\ Len(f) = 5 + n + m
      /\ f[3] = Field("ltp", b.last_trade_price) /\ f[4] = Field("order_count", n)
      /\ \A i \in 1..n : f[4 + i] = Field("order", Saved(b)[i])
      /\ f[5 + n] = Field("stop_count", m)
      /\ \A i \in 1..m : f[5 + n + i] = Field("stop", stops[i])
  BY DEF IsImage
<1>2. stops = [i \in 1..m |-> stops[i]]
  BY DEF IsList
<1> HIDE DEF n, m
<1>3. OrderCount(f) = n /\ Read(f, 3, 0) = b.last_trade_price
  BY <1>1 DEF OrderCount, Read, Field
<1>4. StopCount(f) = m
  <2>1. 5 + n <= Len(f)
    BY <1>1
  <2> QED BY <1>1, <1>3, <2>1 DEF StopCount, Read, Field
<1>5. \A i \in 1..n : Read(f, 4 + i, DefaultOrder) = Saved(b)[i]
  BY <1>1 DEF Read, Field
<1>6. \A i \in 1..m : Read(f, 5 + n + i, DefaultOrder) = stops[i]
  <2>1. \A i \in 1..m : 5 + n + i <= Len(f)
    BY <1>1
  <2> QED BY <1>1, <2>1 DEF Read, Field
<1>7. LoadedStops(f) = stops
  BY <1>2, <1>3, <1>4, <1>6 DEF LoadedStops
<1> QED BY <1>3, <1>5, <1>7 DEF n

-----------------------------------------------------------------------------
(* The order in which save() writes a side. *)
LEMMA WrittenOrder ==
  ASSUME NEW b, Sound(b), NEW side \in Sides
  PROVE  \A x, y, z \in WrittenEntries(b, side) :
           /\ ~WrittenBefore(side, x, x)
           /\ WrittenBefore(side, x, y) /\ WrittenBefore(side, y, z) => WrittenBefore(side, x, z)
           /\ x # y => WrittenBefore(side, x, y) \/ WrittenBefore(side, y, x)
<1>1. \A e \in WrittenEntries(b, side) : e = <<e[1], e[2]>> /\ e[1] \in Int /\ e[2] \in Int
  <2>1. \A e \in WrittenEntries(b, side) :
          /\ e = <<e[1], e[2]>> /\ e[1] \in DOMAIN b.levels[side]
          /\ e[2] \in 1..Len(b.levels[side][e[1]].queue)
    BY EntryFacts
  <2>2. DOMAIN b.levels[side] \subseteq Int
    BY PricesAssumption DEF Sound, IsBook, IsMap
  <2> QED BY <2>1, <2>2
<1> QED BY <1>1 DEF WrittenBefore

EntriesBefore(b, side, entry) == {x \in WrittenEntries(b, side) : WrittenBefore(side, x, entry)}
NthEntry(b, side, i) ==
  CHOOSE entry \in WrittenEntries(b, side) : Cardinality(EntriesBefore(b, side, entry)) = i - 1

LEMMA RanksIncrease ==
  ASSUME NEW b, Sound(b), IsFiniteSet(DOMAIN b.id_map), NEW side \in Sides,
         NEW x \in WrittenEntries(b, side)
  PROVE  /\ Cardinality(EntriesBefore(b, side, x)) \in Nat
         /\ Cardinality(EntriesBefore(b, side, x)) < Cardinality(WrittenEntries(b, side))
         /\ \A y \in WrittenEntries(b, side) :
              WrittenBefore(side, x, y) =>
                Cardinality(EntriesBefore(b, side, x)) < Cardinality(EntriesBefore(b, side, y))
<1> DEFINE W == WrittenEntries(b, side)
           B(e) == EntriesBefore(b, side, e)
<1>1. IsFiniteSet(W) /\ Cardinality(W) \in Nat
  BY EntriesCount, FS_CardinalityType
<1>2. \A e \in W : B(e) \subseteq W
  BY DEF EntriesBefore
<1>3. \A e \in W : IsFiniteSet(B(e)) /\ Cardinality(B(e)) \in Nat
  BY <1>1, <1>2, FS_Subset, FS_CardinalityType
<1>4. x \notin B(x)
  BY WrittenOrder DEF EntriesBefore
<1>5. Cardinality(B(x)) < Cardinality(W)
  <2>1. B(x) # W
    BY <1>4
  <2> HIDE DEF B, W
  <2>2. Cardinality(B(x)) <= Cardinality(W) /\ Cardinality(W) # Cardinality(B(x))
    <3>1. x \in W
      BY DEF W
    <3>2. B(x) \in SUBSET W
      BY <1>2, <3>1
    <3> QED BY <1>1, <2>1, <3>2, FS_Subset
  <2>3. Cardinality(B(x)) \in Nat
    BY <1>3 DEF W
  <2> QED BY <1>1, <2>2, <2>3
<1>6. ASSUME NEW y \in W, WrittenBefore(side, x, y)
      PROVE  Cardinality(B(x)) < Cardinality(B(y))
  <2>1. x \in B(y)
    BY <1>6 DEF EntriesBefore
  <2>2. B(x) \in SUBSET B(y)
    BY <1>6, WrittenOrder DEF EntriesBefore
  <2>3. B(x) # B(y)
    BY <1>4, <2>1
  <2>4. /\ IsFiniteSet(B(y)) /\ Cardinality(B(x)) \in Nat /\ Cardinality(B(y)) \in Nat
    BY <1>3
  <2> HIDE DEF B, W
  <2>5. Cardinality(B(x)) <= Cardinality(B(y)) /\ Cardinality(B(x)) # Cardinality(B(y))
    BY <2>2, <2>3, <2>4, FS_Subset
  <2> QED BY <2>4, <2>5
<1> QED BY <1>3, <1>5, <1>6

Enumeration(b, side, n) ==
  /\ \A i \in 1..n : NthEntry(b, side, i) \in WrittenEntries(b, side)
  /\ \A i, j \in 1..n :
       i < j => WrittenBefore(side, NthEntry(b, side, i), NthEntry(b, side, j))
  /\ \A e \in WrittenEntries(b, side) : \E i \in 1..n : e = NthEntry(b, side, i)

(* The ranks are those from 0 on, so each entry is the one after as many   *)
(* others as it has before it: save() writes every entry exactly once.     *)
LEMMA Enumerated ==
  ASSUME NEW b, Sound(b), IsFiniteSet(DOMAIN b.id_map), NEW side \in Sides
  PROVE  Enumeration(b, side, Cardinality(WrittenEntries(b, side)))
<1> DEFINE W == WrittenEntries(b, side)
           N == Cardinality(W)
           R(e) == Cardinality(EntriesBefore(b, side, e))
           At(i) == NthEntry(b, side, i)
           f == [e \in W |-> R(e) + 1]
<1>1. IsFiniteSet(W) /\ N \in Nat
  BY EntriesCount, FS_CardinalityType
<1>2. \A x \in W : R(x) \in Nat /\ R(x) < N
  BY RanksIncrease
<1>3. \A x, y \in W : WrittenBefore(side, x, y) => R(x) < R(y)
  BY RanksIncrease
<1>4. \A x, y \in W : R(x) = R(y) => x = y
  <2>1. \A x, y \in W : x # y => WrittenBefore(side, x, y) \/ WrittenBefore(side, y, x)
    BY WrittenOrder
  <2> HIDE DEF W, R
  <2> QED BY <1>2, <1>3, <2>1
<1>5. \A i : At(i) = CHOOSE e \in W : R(e) = i - 1
  BY DEF NthEntry
<1>6. \A x, y \in W : R(x) < R(y) => WrittenBefore(side, x, y)
  <2>1. \A x, y \in W : x # y => WrittenBefore(side, x, y) \/ WrittenBefore(side, y, x)
    BY WrittenOrder
  <2> HIDE DEF W, R
  <2> QED BY <1>2, <1>3, <2>1
<1>0. Cardinality(WrittenEntries(b, side)) = N
  OBVIOUS
<1> HIDE DEF W, N, R, At
<1>7. f \in Injection(W, 1..N)
  <2>1. f \in [W -> 1..N]
    BY <1>1, <1>2
  <2>2. \A x, y \in W : f[x] = f[y] => x = y
    BY <1>2, <1>4
  <2> HIDE DEF f
  <2> QED BY <2>1, <2>2 DEF Injection, IsInjective
<1>8. f \in Surjection(W, 1..N)
  <2>1. IsFiniteSet(1..N) /\ Cardinality(1..N) = N
    <3>1. IsFiniteSet(1..N) /\ Cardinality(1..N) = IF 1 > N THEN 0 ELSE N - 1 + 1
      BY <1>1, FS_Interval
    <3> QED BY <1>1, <3>1
  <2>2. Cardinality(W) = Cardinality(1..N)
    BY <2>1 DEF N
  <2> HIDE DEF f
  <2> QED BY <1>7, <2>1, <2>2, FS_Injection
<1>9. \A i \in 1..N : \E e \in W : R(e) = i - 1
  <2>1. \A i \in 1..N : \E e \in W : f[e] = i
    <3> HIDE DEF f
    <3> QED BY <1>8 DEF Surjection
  <2>2. \A e \in W : f[e] = R(e) + 1
    OBVIOUS
  <2> HIDE DEF f
  <2>3. \A e \in W : \A i \in 1..N : f[e] = i => R(e) = i - 1
    BY <1>1, <1>2, <2>2
  <2> QED BY <2>1, <2>3
<1>10. \A i \in 1..N : At(i) \in W /\ R(At(i)) = i - 1
  BY <1>5, <1>9
<1>11. \A i, j \in 1..N : i < j => WrittenBefore(side, At(i), At(j))
  <2>1. \A i, j \in 1..N : i < j => R(At(i)) < R(At(j))
    BY <1>1, <1>10
  <2> QED BY <1>6, <1>10, <2>1
<1>12. \A e \in W : \E i \in 1..N : e = At(i)
  <2> SUFFICES ASSUME NEW e \in W PROVE \E i \in 1..N : e = At(i)
    OBVIOUS
  <2>1. R(e) + 1 \in 1..N /\ (R(e) + 1) - 1 = R(e)
    BY <1>1, <1>2
  <2>2. e = At(R(e) + 1)
    BY <1>4, <1>10, <2>1
  <2> QED BY <2>1, <2>2
<1>13. Enumeration(b, side, N)
  BY <1>10, <1>11, <1>12 DEF Enumeration, W, At
<1> QED BY <1>0, <1>13

(* Each order of a set once, and of two in a queue the older one first. *)
ListsOnce(o, n, b, S) ==
  /\ \A i \in 1..n : o[i].id \in S /\ o[i] = b.id_map[o[i].id]
  /\ \A id \in S : \E i \in 1..n : o[i] = b.id_map[id]
  /\ \A i, j \in 1..n : o[i].id = o[j].id => i = j
  /\ \A i, j \in 1..n : IsAhead(b, o[i].id, o[j].id) => i < j

LEMMA SideInOrder ==
  ASSUME NEW b, Sound(b), IsFiniteSet(DOMAIN b.id_map), NEW side \in Sides
  PROVE  ListsOnce(OrdersOf(b, side), Len(OrdersOf(b, side)), b, OnSide(b, side))
<1> DEFINE W == WrittenEntries(b, side)
           n == Cardinality(W)
           E(i) == NthEntry(b, side, i)
           I(e) == EntryId(b, side, e)
           o == OrdersOf(b, side)
           S == OnSide(b, side)
<1>1. n \in Nat /\ Len(o) = n
  BY OrdersCounted, EntriesCount, FS_CardinalityType
<1>2. /\ \A i \in 1..n : E(i) \in W
      /\ \A i, j \in 1..n : i < j => WrittenBefore(side, E(i), E(j))
      /\ \A e \in W : \E i \in 1..n : e = E(i)
  BY Enumerated DEF Enumeration
<1>3. \A i \in 1..n : o[i] = b.id_map[I(E(i))]
  BY DEF OrdersOf, NthEntry, EntriesBefore
<1>4. \A e \in W : /\ e = <<e[1], e[2]>> /\ e[1] \in DOMAIN b.levels[side]
                   /\ e[2] \in 1..Len(b.levels[side][e[1]].queue)
                   /\ I(e) = b.levels[side][e[1]].queue[e[2]]
                   /\ I(e) \in Located(b, side, e[1])
  BY EntryFacts
<1>5. \A p \in DOMAIN b.levels[side] : \A k \in 1..Len(b.levels[side][p].queue) :
        b.levels[side][p].queue[k] \in Located(b, side, p) => <<p, k>> \in W
  BY EntryFacts
<1>6. \A e \in W : I(e) \in S /\ b.id_map[I(e)].id = I(e) /\ b.id_map[I(e)].price = e[1]
  BY <1>4 DEF Located, OnSide, Sound
<1>7. \A x, y \in W : I(x) = I(y) => x = y
  <2> SUFFICES ASSUME NEW x \in W, NEW y \in W, I(x) = I(y) PROVE x = y
    OBVIOUS
  <2>1. x[1] = y[1]
    BY <1>6
  <2>2. Proper(b.levels[side][x[1]])
    <3>1. x[1] \in Prices /\ HasLevel(b, side, x[1])
      BY <1>4 DEF Sound, IsBook, IsMap, HasLevel
    <3> QED BY <3>1 DEF Sound, LevelSound
  <2>3. x[2] = y[2]
    BY <1>4, <2>1, <2>2 DEF Proper
  <2> QED BY <1>4, <2>1, <2>3
<1>8. \A id \in S : \E e \in W : I(e) = id
  <2> SUFFICES ASSUME NEW id \in S PROVE \E e \in W : I(e) = id
    OBVIOUS
  <2> DEFINE p == b.id_map[id].price
  <2>1. id \in Located(b, side, p) /\ p \in Prices
    <3>1. id \in DOMAIN b.id_map /\ b.id_map[id].side = side
      BY DEF OnSide
    <3>2. b.id_map[id] \in Orders
      BY <3>1 DEF Sound, IsBook, IsMap
    <3> QED BY <3>1, <3>2, OrderFields DEF Located
  <2> HIDE DEF p
  <2>2. HasLevel(b, side, p) /\ id \in Alive(b.levels[side][p])
    BY <2>1 DEF Sound, LevelSound
  <2>3. PICK k \in 1..Len(b.levels[side][p].queue) : b.levels[side][p].queue[k] = id
    BY <2>2 DEF Alive, Queued
  <2>4. <<p, k>> \in W /\ I(<<p, k>>) = id
    BY <1>5, <2>1, <2>2, <2>3 DEF HasLevel, EntryId
  <2> HIDE DEF W, I
  <2> QED BY <2>4
<1> HIDE DEF W, n, E, I, o, S
<1>0. \A i, j \in 1..n : i < j \/ i = j \/ j < i
  BY <1>1
<1>9. \A i \in 1..n : o[i].id = I(E(i)) /\ o[i].id \in S /\ o[i] = b.id_map[o[i].id]
  BY <1>2, <1>3, <1>6
<1>10. \A id \in S : \E i \in 1..n : o[i] = b.id_map[id]
  BY <1>2, <1>3, <1>8
<1>11. \A i, j \in 1..n : o[i].id = o[j].id => i = j
  <2> SUFFICES ASSUME NEW i \in 1..n, NEW j \in 1..n, o[i].id = o[j].id, i # j PROVE FALSE
    OBVIOUS
  <2>1. E(i) = E(j)
    BY <1>2, <1>7, <1>9
  <2>2. WrittenBefore(side, E(i), E(i))
    <3>1. i < j \/ j < i
      BY <1>1
    <3> QED BY <1>2, <2>1, <3>1
  <2>3. E(i) \in W
    BY <1>2
  <2> QED BY <2>2, <2>3, WrittenOrder DEF W
<1>12. \A i, j \in 1..n : IsAhead(b, o[i].id, o[j].id) => i < j
  <2> SUFFICES ASSUME NEW i \in 1..n, NEW j \in 1..n, IsAhead(b, o[i].id, o[j].id), ~(i < j)
               PROVE  FALSE
    OBVIOUS
  <2> DEFINE x == o[i].id
             y == o[j].id
             p == b.id_map[x].price
  <2>1. /\ x \in S /\ x \in DOMAIN b.id_map /\ b.id_map[x].side = side
        /\ y \in DOMAIN b.id_map
    BY <1>9 DEF S, OnSide
  <2>2. p = E(i)[1] /\ p = E(j)[1]
    <3>1. p = E(i)[1] /\ b.id_map[y].price = E(j)[1]
      BY <1>2, <1>6, <1>9
    <3>2. b.id_map[y].price = p
      BY <2>1 DEF IsAhead, PlaceIn, has_order
    <3> QED BY <3>1, <3>2
  <2>3. PICK k \in 1..Len(b.levels[side][p].queue), l \in 1..Len(b.levels[side][p].queue) :
          k < l /\ b.levels[side][p].queue[k] = x /\ b.levels[side][p].queue[l] = y
    BY <2>1 DEF IsAhead, QueuedBefore
  <2>4. Proper(b.levels[side][p])
    <3>1. E(i) \in W
      BY <1>2
    <3>2. p \in Prices /\ HasLevel(b, side, p)
      BY <1>4, <2>2, <3>1 DEF Sound, IsBook, IsMap, HasLevel
    <3> QED BY <3>2 DEF Sound, LevelSound
  <2>5. /\ b.levels[side][p].queue[E(i)[2]] = x /\ E(i)[2] \in 1..Len(b.levels[side][p].queue)
        /\ b.levels[side][p].queue[E(j)[2]] = y /\ E(j)[2] \in 1..Len(b.levels[side][p].queue)
    BY <1>2, <1>4, <1>9, <2>2
  <2>6. E(i)[2] = k /\ E(j)[2] = l
    BY <2>3, <2>4, <2>5 DEF Proper
  <2>7. WrittenBefore(side, E(i), E(j))
    BY <2>2, <2>3, <2>6 DEF WrittenBefore
  <2>8. E(i) \in W /\ E(j) \in W
    BY <1>2
  <2>9. i = j \/ j < i
    BY <1>0, Zenon
  <2>10. ~WrittenBefore(side, E(j), E(i)) /\ E(i) # E(j)
    BY <2>7, <2>8, WrittenOrder DEF W
  <2> QED BY <1>2, <2>9, <2>10
<1>13. ListsOnce(o, n, b, S)
  BY <1>9, <1>10, <1>11, <1>12 DEF ListsOnce
<1> QED BY <1>1, <1>13 DEF o, S

LEMMA SavedInOrder ==
  ASSUME NEW b, Sound(b), IsFiniteSet(DOMAIN b.id_map)
  PROVE  ListsOnce(Saved(b), Cardinality(DOMAIN b.id_map), b, DOMAIN b.id_map)
<1> DEFINE s == OrdersOf(b, Buy)
           t == OrdersOf(b, Sell)
           m == Len(s)
           k == Len(t)
           n == Cardinality(DOMAIN b.id_map)
           c == Saved(b)
           D == DOMAIN b.id_map
           S == OnSide(b, Buy)
           T == OnSide(b, Sell)
<1>0. Buy \in Sides /\ Sell \in Sides
  BY DEF Sides
<1>1. ListsOnce(s, m, b, S) /\ ListsOnce(t, k, b, T)
  BY <1>0, SideInOrder
<1>2. m \in Nat /\ k \in Nat /\ n = m + k
  BY <1>0, OrdersCounted
<1>3. /\ \A i \in 1..m : c[i] = s[i]
      /\ \A i \in 1..k : c[m + i] = t[i]
  <2>1. IsList(s) /\ IsList(t)
    BY <1>0, OrdersCounted
  <2>2. Joined(c, s, t, m, k)
    BY <2>1, ListConcat DEF Saved
  <2> HIDE DEF c, s, t, m, k
  <2> QED BY <2>2 DEF Joined
<1>4. D = S \cup T /\ S \cap T = {}
  <2>1. \A id \in DOMAIN b.id_map : b.id_map[id].side \in Sides
    BY OrderFields DEF Sound, IsBook, IsMap
  <2> QED BY <2>1 DEF OnSide, Sides, Buy, Sell
<1>5. \A x \in S, y \in T : ~IsAhead(b, x, y) /\ ~IsAhead(b, y, x)
  <2>1. \A x \in S, y \in T : PlaceIn(b, x) # PlaceIn(b, y)
    BY DEF OnSide, PlaceIn, has_order, Buy, Sell
  <2> QED BY <2>1 DEF IsAhead
<1> HIDE DEF s, t, m, k, n, c, D, S, T
<1>6. \A i \in 1..n : i \in 1..m \/ \E j \in 1..k : i = m + j
  <2> SUFFICES ASSUME NEW i \in 1..n, i \notin 1..m PROVE \E j \in 1..k : i = m + j
    OBVIOUS
  <2>1. i - m \in 1..k /\ i = m + (i - m)
    BY <1>2
  <2> QED BY <2>1
<1>7. \A i \in 1..m : /\ i \in 1..n /\ c[i] = s[i] /\ s[i].id \in S
                      /\ s[i] = b.id_map[s[i].id]
  BY <1>1, <1>2, <1>3 DEF ListsOnce
<1>8. \A j \in 1..k : /\ m + j \in 1..n /\ c[m + j] = t[j] /\ t[j].id \in T
                      /\ t[j] = b.id_map[t[j].id]
  BY <1>1, <1>2, <1>3 DEF ListsOnce
<1>9. \A i \in 1..n : c[i].id \in D /\ c[i] = b.id_map[c[i].id]
  BY <1>4, <1>6, <1>7, <1>8
<1>10. \A id \in D : \E i \in 1..n : c[i] = b.id_map[id]
  <2>1. \A id \in S : \E i \in 1..n : c[i] = b.id_map[id]
    BY <1>1, <1>7 DEF ListsOnce
  <2>2. \A id \in T : \E i \in 1..n : c[i] = b.id_map[id]
    BY <1>1, <1>8 DEF ListsOnce
  <2> QED BY <1>4, <2>1, <2>2
<1>11. ASSUME NEW i \in 1..n, NEW j \in 1..n
       PROVE  /\ c[i].id = c[j].id => i = j
              /\ IsAhead(b, c[i].id, c[j].id) => i < j
  <2>1. CASE i \in 1..m /\ j \in 1..m
    BY <1>1, <1>7, <2>1 DEF ListsOnce
  <2>2. CASE i \in 1..m /\ j \notin 1..m
    <3>1. c[i].id \in S /\ c[j].id \in T
      BY <1>6, <1>7, <1>8, <2>2
    <3> QED BY <1>4, <1>5, <3>1
  <2>3. CASE i \notin 1..m /\ j \in 1..m
    <3>1. c[i].id \in T /\ c[j].id \in S
      BY <1>6, <1>7, <1>8, <2>3
    <3> QED BY <1>4, <1>5, <3>1
  <2>4. CASE i \notin 1..m /\ j \notin 1..m
    <3>1. PICK x \in 1..k : i = m + x
      BY <1>6, <2>4
    <3>2. PICK y \in 1..k : j = m + y
      BY <1>6, <2>4
    <3>3. c[i] = t[x] /\ c[j] = t[y]
      BY <1>8, <3>1, <3>2
    <3>4. /\ c[i].id = c[j].id => x = y
          /\ IsAhead(b, c[i].id, c[j].id) => x < y
      BY <1>1, <3>3 DEF ListsOnce
    <3>5. x < y => i < j
      BY <1>2, <3>1, <3>2
    <3> QED BY <3>1, <3>2, <3>4, <3>5
  <2> QED BY <2>1, <2>2, <2>3, <2>4
<1>12. ListsOnce(c, n, b, D)
  BY <1>9, <1>10, <1>11 DEF ListsOnce
<1> QED BY <1>12 DEF c, n, D

-----------------------------------------------------------------------------
(* What load() reads of the file is what is in the engine. *)
OrdersRead(f) == [i \in 1..OrderCount(f) |-> Read(f, 4 + i, DefaultOrder)]
Holds(f, b, stops) ==
  /\ Loads(f)
  /\ Read(f, 3, 0) = b.last_trade_price
  /\ LoadedStops(f) = stops
  /\ OrderCount(f) \in Nat
  /\ ListsOnce(OrdersRead(f), OrderCount(f), b, DOMAIN b.id_map)

LEMMA SameListing ==
  ASSUME NEW o, NEW s, NEW n, NEW b, NEW S, \A i \in 1..n : o[i] = s[i], ListsOnce(s, n, b, S)
  PROVE  ListsOnce(o, n, b, S)
<1>1. /\ \A i \in 1..n : s[i].id \in S /\ s[i] = b.id_map[s[i].id]
      /\ \A id \in S : \E i \in 1..n : s[i] = b.id_map[id]
      /\ \A i, j \in 1..n : s[i].id = s[j].id => i = j
      /\ \A i, j \in 1..n : IsAhead(b, s[i].id, s[j].id) => i < j
  BY DEF ListsOnce
<1>2. \A i \in 1..n : o[i].id = s[i].id
  OBVIOUS
<1>3. \A i \in 1..n : o[i].id \in S /\ o[i] = b.id_map[o[i].id]
  BY <1>1
<1>4. \A id \in S : \E i \in 1..n : o[i] = b.id_map[id]
  BY <1>1
<1>5. \A i, j \in 1..n : o[i].id = o[j].id => i = j
  BY <1>1, <1>2
<1>6. \A i, j \in 1..n : IsAhead(b, o[i].id, o[j].id) => i < j
  BY <1>1, <1>2
<1> QED BY <1>3, <1>4, <1>5, <1>6 DEF ListsOnce

LEMMA FileHolds ==
  ASSUME NEW b, Sound(b), IsFiniteSet(DOMAIN b.id_map), NEW stops, IsList(stops), NEW w,
         NEW f, w \in Nat, w <= Len(Image(b, stops)), f = SubSeq(Image(b, stops), 1, w)
  PROVE  /\ w = Len(Image(b, stops)) => Holds(f, b, stops)
         /\ w < Len(Image(b, stops)) => ~Loads(f)
<1> DEFINE i == Image(b, stops)
           n == Cardinality(DOMAIN b.id_map)
<1>1. IsImage(i, b, stops)
  BY ImageIsImage
<1>2. Loads(f) <=> w = Len(i)
  BY <1>1, PrefixLoads
<1>3. Len(i) \in Nat
  BY <1>1 DEF IsImage
<1>4. ASSUME w = Len(i) PROVE Holds(f, b, stops)
  <2>1. f = i
    <3> HIDE DEF i
    <3>1. PICK S : i \in Seq(S)
      BY <1>1 DEF IsImage, IsList
    <3>2. f = SubSeq(i, 1, Len(i))
      BY <1>4 DEF i
    <3> QED BY <3>1, <3>2
  <2> HIDE DEF i
  <2>2. /\ LoadedStops(f) = stops /\ Read(f, 3, 0) = b.last_trade_price
        /\ OrderCount(f) = n
        /\ \A k \in 1..OrderCount(f) : Read(f, 4 + k, DefaultOrder) = Saved(b)[k]
    BY <1>1, <2>1, WholeFile
  <2>3. ListsOnce(Saved(b), n, b, DOMAIN b.id_map)
    BY SavedInOrder
  <2>4. n \in Nat
    BY FS_CardinalityType
  <2> HIDE DEF n
  <2>5. \A k \in 1..n : OrdersRead(f)[k] = Saved(b)[k]
    BY <2>2 DEF OrdersRead
  <2>6. ListsOnce(OrdersRead(f), n, b, DOMAIN b.id_map)
    BY <2>3, <2>5, SameListing
  <2> QED BY <1>2, <1>4, <2>2, <2>4, <2>6 DEF Holds
<1> QED BY <1>2, <1>3, <1>4

-----------------------------------------------------------------------------
(* The file is complete exactly when the event file starts at it, and is   *)
(* the engine's state until the next event.                                *)
FileInv ==
  /\ Loads(file) <=> since = "snapshot"
  /\ tool \in {"reading", "submitting"} => since # "nowhere"
  /\ since = "snapshot" /\ lines_left = MaxLines => Idle /\ Holds(file, book, pending_stops)
  /\ lines_left \in Int /\ lines_left <= MaxLines

ReplayInv == Inv /\ FiniteBook /\ FileInv

LEMMA InitReplay == ReplayInit => ReplayInv
<1> SUFFICES ASSUME ReplayInit PROVE ReplayInv
  OBVIOUS
<1>1. Inv /\ FiniteBook
  <2>1. DOMAIN book.id_map = {}
    BY DEF ReplayInit, Init, EmptyBook, EmptyMap
  <2> QED BY <2>1, InitInv, FS_EmptySet DEF FiniteBook, ReplayInit
<1>2. ~Loads(file)
  BY DEF ReplayInit, Loads, HasMagic
<1> QED BY <1>1, <1>2, MaxLinesAssumption DEF ReplayInv, FileInv, ReplayInit

LEMMA EngineMoves ==
  ASSUME {"ids", "requeues"} \subseteq Discipline, Inv, FiniteBook, [Next]_vars
  PROVE  Inv' /\ FiniteBook'
BY NextInv, NextFinite

LEMMA LiveMoves ==
  ASSUME {"ids", "requeues"} \subseteq Discipline, ReplayInv, [Next]_vars,
         UNCHANGED <<file, since, tool>>, tool = "off",
         \/ since # "nowhere" /\ lines_left > 0 /\ lines_left' = lines_left - 1
         \/ since = "nowhere" /\ lines_left' = lines_left
  PROVE  ReplayInv'
<1>1. Inv' /\ FiniteBook'
  BY EngineMoves DEF ReplayInv
<1>3. FileInv'
  BY MaxLinesAssumption DEF ReplayInv, FileInv
<1> QED BY <1>1, <1>3 DEF ReplayInv

(* Nothing of the live engine or of its files changes. *)
LEMMA OthersMove ==
  ASSUME ReplayInv, UNCHANGED <<vars, file, since, lines_left>>,
         tool' \in {"reading", "submitting"} => since # "nowhere"
  PROVE  ReplayInv'
<1>1. UNCHANGED <<book, pending_stops, stack>>
  BY DEF vars
<1>2. Inv' /\ FiniteBook'
  BY <1>1 DEF ReplayInv, Inv, TypeOK, FiniteBook, vars
<1>3. FileInv'
  BY <1>1 DEF ReplayInv, FileInv, Idle
<1> QED BY <1>2, <1>3 DEF ReplayInv

LEMMA SaveMoves ==
  ASSUME ReplayInv, NEW written \in Nat, Save(written)
  PROVE  ReplayInv'
<1> DEFINE image == Image(book, pending_stops)
<1>1. /\ Sound(book) /\ IsFiniteSet(DOMAIN book.id_map) /\ IsList(pending_stops)
  BY DEF ReplayInv, Inv, TypeOK, FiniteBook, IsList
<1>2. /\ written <= Len(image) /\ file' = SubSeq(image, 1, written)
      /\ \/ written = Len(image) /\ since' = "snapshot"
         \/ written < Len(image) /\ since' = since
      /\ since = "nowhere" /\ Idle /\ tool = "off" /\ tool' = tool /\ lines_left' = lines_left
      /\ UNCHANGED <<book, pending_stops, stack>>
  BY DEF Save, vars, toolVars
<1>3. /\ written = Len(image) => Holds(file', book, pending_stops)
      /\ written < Len(image) => ~Loads(file')
  BY <1>1, <1>2, FileHolds
<1> HIDE DEF image
<1>4. Inv' /\ FiniteBook'
  BY <1>2 DEF Save, ReplayInv, Inv, TypeOK, FiniteBook, vars
<1>5. FileInv'
  <2>1. CASE written = Len(image) /\ since' = "snapshot"
    BY <1>2, <1>3, <2>1 DEF FileInv, ReplayInv, Holds, Idle
  <2>2. CASE written < Len(image) /\ since' = since
    BY <1>2, <1>3, <2>2 DEF FileInv, ReplayInv
  <2> QED BY <1>2, <2>1, <2>2
<1> QED BY <1>4, <1>5 DEF ReplayInv

LEMMA NextReplay ==
  ASSUME {"ids", "requeues"} \subseteq Discipline, ReplayInv, [ReplayNext]_replayVars
  PROVE  ReplayInv'
<1>1. CASE LiveNew
  <2>1. [Next]_vars
    BY <1>1 DEF LiveNew, Live, Next, Submit
  <2> QED BY <1>1, <2>1, LiveMoves DEF LiveNew, Live, toolVars
<1>2. CASE LiveCancel
  <2>1. [Next]_vars
    BY <1>2 DEF LiveCancel, Live, Next, Submit
  <2> QED BY <1>2, <2>1, LiveMoves DEF LiveCancel, Live, toolVars
<1>3. CASE LiveModify
  <2>1. [Next]_vars
    BY <1>3 DEF LiveModify, Live, Next, Amend
  <2> QED BY <1>3, <2>1, LiveMoves DEF LiveModify, Live, toolVars
<1>4. CASE LiveStep
  <2>1. [Next]_vars /\ ~Idle
    <3>1. Step
      BY <1>4 DEF LiveStep
    <3>2. ~Idle
      BY <3>1 DEF Step, Fill, TriggerStop, KeepStop, FinishResting, FinishExhausted,
                  FinishFilled, Matching, Evaluating, LoopEnded
    <3> QED BY <3>1, <3>2 DEF Next
  <2>2. UNCHANGED <<file, since, lines_left, tool>>
    BY <1>4 DEF LiveStep, toolVars
  <2>3. Inv' /\ FiniteBook'
    BY <2>1, EngineMoves DEF ReplayInv
  <2>4. FileInv'
    BY <2>1, <2>2 DEF ReplayInv, FileInv
  <2> QED BY <2>3, <2>4 DEF ReplayInv
<1>5. CASE RecordFromStart
  <2>1. /\ UNCHANGED <<book, pending_stops, stack, file, tool, lines_left>>
        /\ since = "nowhere" /\ since' = "start"
    BY <1>5 DEF RecordFromStart, vars, toolVars
  <2>2. Inv' /\ FiniteBook'
    BY <1>5, <2>1 DEF RecordFromStart, ReplayInv, Inv, TypeOK, FiniteBook, vars
  <2>3. FileInv'
    BY <2>1 DEF ReplayInv, FileInv
  <2> QED BY <2>2, <2>3 DEF ReplayInv
<1>6. CASE \E written \in 0..(5 + MaxOrders) : Save(written)
  BY <1>6, SaveMoves, MaxOrdersAssumption
<1>7. CASE RunTool
  <2>1. UNCHANGED <<vars, file, since, lines_left>>
    BY <1>7 DEF RunTool, fileVars
  <2>2. tool' \in {"reading", "submitting"} => since # "nowhere"
    BY <1>7 DEF RunTool, LoadSnapshot, LoadFails, NoSnapshot, Exit, ReplayInv, FileInv
  <2> QED BY <2>1, <2>2, OthersMove
<1>8. CASE SubmitLine
  BY <1>8, OthersMove DEF SubmitLine, fileVars, ReplayInv, FileInv
<1>9. CASE RestoredStep
  BY <1>9, OthersMove DEF RestoredStep, fileVars, toolVars, ReplayInv, FileInv
<1>10. CASE CollectTrades
  BY <1>10, OthersMove DEF CollectTrades, fileVars, ReplayInv, FileInv
<1>11. CASE Compare
  BY <1>11, OthersMove DEF Compare, Exit, fileVars, ReplayInv, FileInv
<1>12. CASE UNCHANGED replayVars
  BY <1>12, OthersMove DEF replayVars, fileVars, toolVars, ReplayInv, FileInv
<1> QED BY <1>1, <1>2, <1>3, <1>4, <1>5, <1>6, <1>7, <1>8, <1>9, <1>10, <1>11, <1>12
           DEF ReplayNext, Exited

(* A snapshot cut short by a crash in save(), wherever it was cut, is      *)
(* never replayed from.                                                    *)
THEOREM CompleteLoaded ==
  ASSUME {"ids", "requeues"} \subseteq Discipline
  PROVE  ReplaySpec => []OnlyCompleteLoaded
<1>1. ReplayInit => ReplayInv
  BY InitReplay
<1>2. ReplayInv /\ [ReplayNext]_replayVars => ReplayInv'
  BY NextReplay
<1>3. ReplayInv => OnlyCompleteLoaded
  BY DEF ReplayInv, FileInv, OnlyCompleteLoaded
<1> QED BY <1>1, <1>2, <1>3, PTL DEF ReplaySpec

-----------------------------------------------------------------------------
(* What load() builds: FoldLeft, on the set of the indices.  The recursion *)
(* exists, by induction on the size of the set, and goes from the first    *)
(* order to the last.                                                      *)
IsFold(g, base, o, S) ==
  g = [s \in SUBSET S |-> IF s = {} THEN base ELSE insert_order(g[s \ {Max(s)}], o[Max(s)])]

Inserted(base, o) == FoldLeft(insert_order, base, o)

LEMMA FoldIsFold ==
  ASSUME NEW base, NEW o, NEW g, IsFold(g, base, o, DOMAIN o)
  PROVE  \E h : IsFold(h, base, o, DOMAIN o) /\ Inserted(base, o) = h[DOMAIN o]
<1> DEFINE h == CHOOSE h : IsFold(h, base, o, DOMAIN o)
<1>1. IsFold(h, base, o, DOMAIN o)
  OBVIOUS
<1>2. Inserted(base, o) = h[DOMAIN o]
  BY DEF Inserted, FoldLeft, MapThenFoldSet, IsFold
<1> QED BY <1>1, <1>2

LEMMA MaxMember ==
  ASSUME NEW n \in Nat
  PROVE  \A T \in SUBSET (1..n) : T # {} => Max(T) \in T
<1> DEFINE G == {T \in SUBSET (1..n) : T # {} => \E x \in T : \A y \in T : x >= y}
<1>1. IsFiniteSet(1..n)
  BY FS_Interval
<1>2. ASSUME NEW T \in SUBSET (1..n), \A x \in T : T \ {x} \in G PROVE T \in G
  <2> SUFFICES ASSUME T # {} PROVE \E x \in T : \A y \in T : x >= y
    OBVIOUS
  <2>1. PICK x \in T : TRUE
    OBVIOUS
  <2>2. CASE T \ {x} = {}
    BY <2>1, <2>2
  <2>3. CASE T \ {x} # {}
    <3>1. PICK z \in T \ {x} : \A y \in T \ {x} : z >= y
      BY <1>2, <2>1, <2>3
    <3>2. x \in Nat /\ z \in Nat /\ \A y \in T : y \in Nat
      BY <2>1, <3>1
    <3>3. CASE x >= z
      BY <3>1, <3>2, <3>3
    <3>4. CASE ~(x >= z)
      BY <3>1, <3>2, <3>4
    <3> QED BY <3>3, <3>4
  <2> QED BY <2>2, <2>3
<1>3. \A T \in SUBSET (1..n) : T \in G
  <2> HIDE DEF G
  <2> QED BY <1>1, <1>2, FiniteInduct
<1>4. ASSUME NEW T \in SUBSET (1..n), T # {} PROVE Max(T) \in T
  <2>1. \E x \in T : \A y \in T : x >= y
    BY <1>3, <1>4
  <2> QED BY <2>1 DEF Max
<1> QED BY <1>4

LEMMA FoldExists ==
  ASSUME NEW base, NEW o, NEW n \in Nat
  PROVE  \E g : IsFold(g, base, o, 1..n)
<1> DEFINE S == 1..n
           Value(g, T) == IF T = {} THEN base ELSE insert_order(g[T \ {Max(T)}], o[Max(T)])
           Upto(g, k) == /\ g = [T \in SUBSET S |-> g[T]]
                         /\ \A T \in SUBSET S : Cardinality(T) <= k => g[T] = Value(g, T)
           N == {k \in Nat : \E g : Upto(g, k)}
<1>0. IsFiniteSet(S)
  BY FS_Interval
<1>a. \A T \in SUBSET S : T # {} => Max(T) \in T
  BY MaxMember
<1> HIDE DEF S
<1>1. \A T \in SUBSET S : IsFiniteSet(T) /\ Cardinality(T) \in Nat /\ Cardinality(T) <= Cardinality(S)
  BY <1>0, FS_Subset, FS_CardinalityType
<1>2. \A T \in SUBSET S : T # {} => /\ T \ {Max(T)} \in SUBSET S
                                    /\ Cardinality(T \ {Max(T)}) = Cardinality(T) - 1
  BY <1>1, <1>a, FS_RemoveElement
<1>3. 0 \in N
  <2> DEFINE g == [T \in SUBSET S |-> base]
  <2>1. \A T \in SUBSET S : Cardinality(T) <= 0 => T = {}
    BY <1>1, FS_EmptySet
  <2>2. Upto(g, 0)
    BY <2>1
  <2> QED BY <2>2
<1>4. ASSUME NEW k \in Nat, k \in N PROVE k + 1 \in N
  <2>1. PICK g : Upto(g, k)
    BY <1>4
  <2> DEFINE h == [T \in SUBSET S |-> IF Cardinality(T) = k + 1 THEN Value(g, T) ELSE g[T]]
  <2>2. \A T \in SUBSET S : T # {} /\ Cardinality(T) <= k + 1 =>
          h[T \ {Max(T)}] = g[T \ {Max(T)}]
    BY <1>1, <1>2
  <2>3. ASSUME NEW T \in SUBSET S, Cardinality(T) <= k + 1 PROVE h[T] = Value(g, T)
    <3>1. CASE Cardinality(T) = k + 1
      BY <3>1
    <3>2. CASE Cardinality(T) # k + 1
      <4>1. Cardinality(T) <= k
        BY <1>1, <2>3, <3>2
      <4>2. h[T] = g[T]
        BY <3>2
      <4> HIDE DEF h, Value
      <4> QED BY <2>1, <4>1, <4>2
    <3> QED BY <3>1, <3>2
  <2>4. Upto(h, k + 1)
    <3>1. \A T \in SUBSET S : Cardinality(T) <= k + 1 => Value(g, T) = Value(h, T)
      BY <2>2
    <3>2. h = [T \in SUBSET S |-> h[T]]
      OBVIOUS
    <3> HIDE DEF h, Value
    <3> QED BY <2>3, <3>1, <3>2
  <2>5. k + 1 \in Nat
    OBVIOUS
  <2> HIDE DEF h, Upto
  <2> QED BY <2>4, <2>5
<1>5. \A k \in Nat : k \in N
  <2> HIDE DEF N
  <2> QED BY <1>3, <1>4, Induct
<1>6. Cardinality(S) \in Nat
  BY <1>0, FS_CardinalityType
<1>7. PICK g : Upto(g, Cardinality(S))
  BY <1>5, <1>6
<1>8. \A T \in SUBSET S : g[T] = Value(g, T)
  BY <1>1, <1>7
<1>9. IsFold(g, base, o, S)
  BY <1>7, <1>8 DEF IsFold
<1> QED BY <1>9 DEF S

(* The book after the first k orders. *)
LEMMA FoldSteps ==
  ASSUME NEW base, NEW o, NEW n \in Nat, DOMAIN o = 1..n
  PROVE  \E h : /\ h[0] = base
                /\ \A k \in 0..(n - 1) : h[k + 1] = insert_order(h[k], o[k + 1])
                /\ Inserted(base, o) = h[n]
<1>1. PICK g : IsFold(g, base, o, 1..n) /\ Inserted(base, o) = g[1..n]
  BY FoldExists, FoldIsFold
<1> DEFINE h == [k \in 0..n |-> g[1..k]]
<1>2. h[0] = base
  <2>1. 1..0 = {} /\ 0 \in 0..n
    OBVIOUS
  <2>2. g[{}] = base
    BY <1>1 DEF IsFold
  <2> QED BY <2>1, <2>2
<1>3. ASSUME NEW k \in 0..(n - 1) PROVE h[k + 1] = insert_order(h[k], o[k + 1])
  <2> DEFINE T == 1..(k + 1)
  <2>1. T \in SUBSET (1..n) /\ T # {} /\ T \ {k + 1} = 1..k
    OBVIOUS
  <2>2. Max(T) = k + 1
    <3>1. k + 1 \in T /\ \A y \in T : k + 1 >= y
      OBVIOUS
    <3>2. \A x \in T : (\A y \in T : x >= y) => x = k + 1
      BY <3>1
    <3> HIDE DEF T
    <3> QED BY <3>1, <3>2 DEF Max
  <2>3. g[T] = insert_order(g[T \ {Max(T)}], o[Max(T)])
    <3> HIDE DEF T
    <3> QED BY <1>1, <2>1 DEF IsFold
  <2>4. h[k + 1] = g[T] /\ h[k] = g[1..k]
    OBVIOUS
  <2> HIDE DEF T, h
  <2> QED BY <2>1, <2>2, <2>3, <2>4
<1>4. h[n] = g[1..n]
  OBVIOUS
<1> HIDE DEF h
<1> QED BY <1>1, <1>2, <1>3, <1>4

(* The book c after the first k orders of o, each of another id: it holds  *)
(* those orders and no dead queue entry, each queue in their order.        *)
Built(c, o, k, price) ==
  /\ Sound(c) /\ c.last_trade_price = price
  /\ \A x : ~has_order(c, x) => Absent(c, x)
  /\ \A x : has_order(c, x) <=> \E i \in 1..k : o[i].id = x
  /\ \A i \in 1..k : c.id_map[o[i].id] = o[i]
  /\ \A i, j \in 1..k :
       IsAhead(c, o[i].id, o[j].id) <=>
         i < j /\ o[i].side = o[j].side /\ o[i].price = o[j].price

LEMMA BuiltMore ==
  ASSUME NEW c, NEW o, NEW k \in Nat, NEW price, Built(c, o, k, price), o[k + 1] \in Orders,
         \A i \in 1..k : o[i].id # o[k + 1].id
  PROVE  Built(insert_order(c, o[k + 1]), o, k + 1, price)
<1> DEFINE new == o[k + 1]
           d == insert_order(c, new)
<1>0. /\ Sound(c) /\ c.last_trade_price = price
      /\ \A x : ~has_order(c, x) => Absent(c, x)
      /\ \A x : has_order(c, x) <=> \E i \in 1..k : o[i].id = x
      /\ \A i \in 1..k : c.id_map[o[i].id] = o[i]
      /\ \A i, j \in 1..k :
           IsAhead(c, o[i].id, o[j].id) <=>
             i < j /\ o[i].side = o[j].side /\ o[i].price = o[j].price
  BY DEF Built
<1>1. new \in Orders /\ ~has_order(c, new.id)
  BY <1>0
<1>2. /\ Absent(c, new.id)
      /\ HasLevel(c, new.side, new.price) => new.id \notin Queued(c.levels[new.side][new.price])
  <2>1. Absent(c, new.id)
    BY <1>0, <1>1
  <2>2. new.side \in Sides
    BY <1>1, OrderFields
  <2> QED BY <2>1, <2>2 DEF Absent, HasLevel
<1>3. Sound(d) /\ \A x : Absent(c, x) /\ x # new.id => Absent(d, x)
  BY <1>0, <1>1, <1>2, InsertSound
<1>4. /\ \A x : has_order(d, x) <=> has_order(c, x) \/ x = new.id
      /\ d.id_map[new.id] = new
      /\ \A x : has_order(c, x) /\ x # new.id => d.id_map[x] = c.id_map[x]
  BY <1>0, InsertOrders
<1>5. \A x, y : IsAhead(d, x, y) <=>
                  \/ IsAhead(c, x, y)
                  \/ x \in Located(c, new.side, new.price) /\ y = new.id
  BY <1>0, <1>1, <1>2, InsertAhead
<1>6. d.last_trade_price = price
  <2>1. d.last_trade_price = c.last_trade_price
    BY <1>0 DEF insert_order, SetLevel, Sound, IsBook
  <2> QED BY <1>0, <2>1
<1>7. \A x, y : IsAhead(c, x, y) => has_order(c, x) /\ has_order(c, y)
  BY DEF IsAhead
<1> DEFINE Sits(x) == x \in Located(c, new.side, new.price)
<1>8. \A i \in 1..k : Sits(o[i].id) <=> o[i].side = new.side /\ o[i].price = new.price
  <2>1. \A i \in 1..k : o[i].id \in DOMAIN c.id_map
    BY <1>0 DEF has_order
  <2> QED BY <1>0, <2>1 DEF Located
<1>9. ~Sits(new.id)
  BY <1>1 DEF Located, has_order
<1>10. \A i \in 1..(k + 1) : i \in 1..k \/ i = k + 1
  OBVIOUS
<1>11. \A i \in 1..k : i \in 1..(k + 1) /\ i < k + 1 /\ ~(k + 1 < i)
  OBVIOUS
<1>12. k + 1 \in 1..(k + 1) /\ ~(k + 1 < k + 1)
  OBVIOUS
<1>13. o[k + 1] = new
  OBVIOUS
<1> HIDE DEF new, d, Sits
<1>14. \A x : ~has_order(d, x) => Absent(d, x)
  BY <1>0, <1>3, <1>4
<1>15. \A x : has_order(d, x) <=> \E i \in 1..(k + 1) : o[i].id = x
  BY <1>0, <1>4, <1>10, <1>11, <1>12, <1>13
<1>16. \A i \in 1..(k + 1) : d.id_map[o[i].id] = o[i]
  <2>1. \A i \in 1..k : has_order(c, o[i].id) /\ o[i].id # new.id
    BY <1>0, <1>13
  <2> QED BY <1>0, <1>4, <1>10, <1>13, <2>1
<1>17. ASSUME NEW i \in 1..(k + 1), NEW j \in 1..(k + 1)
       PROVE  IsAhead(d, o[i].id, o[j].id) <=>
                i < j /\ o[i].side = o[j].side /\ o[i].price = o[j].price
  <2>1. IsAhead(d, o[i].id, o[j].id) <=>
          IsAhead(c, o[i].id, o[j].id) \/ (Sits(o[i].id) /\ o[j].id = new.id)
    BY <1>5 DEF Sits
  <2>2. CASE i \in 1..k /\ j \in 1..k
    BY <1>0, <1>13, <2>1, <2>2
  <2>3. CASE i \in 1..k /\ j = k + 1
    BY <1>1, <1>7, <1>8, <1>11, <1>13, <2>1, <2>3
  <2>4. CASE i = k + 1
    <3>1. ~(i < j)
      BY <2>4
    <3> QED BY <1>1, <1>7, <1>9, <1>13, <2>1, <2>4, <3>1
  <2> QED BY <1>10, <2>2, <2>3, <2>4
<1>18. Built(d, o, k + 1, price)
  BY <1>3, <1>6, <1>14, <1>15, <1>16, <1>17 DEF Built
<1> QED BY <1>18 DEF d, new

LEMMA BuiltNone ==
  ASSUME NEW o, NEW price \in Prices
  PROVE  Built([EmptyBook EXCEPT !.last_trade_price = price], o, 0, price)
<1> DEFINE c == [EmptyBook EXCEPT !.last_trade_price = price]
<1>1. /\ c.levels = [side \in Sides |-> EmptyMap] /\ c.id_map = EmptyMap
      /\ c.last_trade_price = price
      /\ c = [levels |-> c.levels, id_map |-> c.id_map, last_trade_price |-> c.last_trade_price]
  BY DEF EmptyBook
<1>2. DOMAIN EmptyMap = {}
  BY DEF EmptyMap
<1> HIDE DEF c
<1>3. IsBook(c)
  BY <1>1, <1>2 DEF IsBook, IsMap
<1>4. \A side, p : Located(c, side, p) = {}
  BY <1>1, <1>2 DEF Located
<1>5. \A side \in Sides : \A p : ~HasLevel(c, side, p)
  BY <1>1, <1>2 DEF HasLevel
<1>6. Sound(c)
  BY <1>1, <1>2, <1>3, <1>4, <1>5 DEF Sound, LevelSound
<1>7. \A x : ~has_order(c, x) /\ Absent(c, x)
  BY <1>1, <1>2 DEF has_order, Absent
<1>8. 1..0 = {}
  OBVIOUS
<1>9. Built(c, o, 0, price)
  BY <1>1, <1>6, <1>7, <1>8 DEF Built
<1> QED BY <1>9 DEF c

LEMMA BuiltAll ==
  ASSUME NEW o, NEW n \in Nat, NEW price \in Prices, DOMAIN o = 1..n,
         \A i \in 1..n : o[i] \in Orders,
         \A i, j \in 1..n : o[i].id = o[j].id => i = j
  PROVE  Built(Inserted([EmptyBook EXCEPT !.last_trade_price = price], o), o, n, price)
<1> DEFINE base == [EmptyBook EXCEPT !.last_trade_price = price]
<1>1. Built(base, o, 0, price)
  BY BuiltNone
<1> HIDE DEF base
<1>2. PICK h : /\ h[0] = base
               /\ \A k \in 0..(n - 1) : h[k + 1] = insert_order(h[k], o[k + 1])
               /\ Inserted(base, o) = h[n]
  BY FoldSteps
<1> DEFINE N == {k \in Nat : k <= n => Built(h[k], o, k, price)}
<1>3. 0 \in N
  BY <1>1, <1>2
<1>4. ASSUME NEW k \in Nat, k \in N PROVE k + 1 \in N
  <2> SUFFICES ASSUME k + 1 <= n PROVE Built(h[k + 1], o, k + 1, price)
    OBVIOUS
  <2>1. /\ k \in 0..(n - 1) /\ k + 1 \in 1..n
        /\ \A i \in 1..k : i \in 1..n /\ i # k + 1
    OBVIOUS
  <2>2. Built(h[k], o, k, price)
    BY <1>4
  <2>3. h[k + 1] = insert_order(h[k], o[k + 1])
    BY <1>2, <2>1
  <2>4. o[k + 1] \in Orders /\ \A i \in 1..k : o[i].id # o[k + 1].id
    BY <2>1
  <2> QED BY <2>2, <2>3, <2>4, BuiltMore
<1>5. \A k \in Nat : k \in N
  <2> HIDE DEF N
  <2> QED BY <1>3, <1>4, Induct
<1>6. Built(h[n], o, n, price)
  BY <1>5
<1> QED BY <1>2, <1>6 DEF base

-----------------------------------------------------------------------------
(* As far as a decision of the engine can tell, the same resting orders:   *)
(* the same orders with the same quantities, the same order in each queue, *)
(* the same last trade price.                                              *)
SameOrders(c, b) ==
  /\ c.id_map = b.id_map
  /\ c.last_trade_price = b.last_trade_price
  /\ \A x, y : IsAhead(c, x, y) <=> IsAhead(b, x, y)

(* Two orders of a level are in one order or the other. *)
LEMMA OneIsAhead ==
  ASSUME NEW b, Sound(b), NEW x, NEW y, x # y, has_order(b, x), has_order(b, y),
         PlaceIn(b, x) = PlaceIn(b, y)
  PROVE  IsAhead(b, x, y) \/ IsAhead(b, y, x)
<1> DEFINE side == b.id_map[x].side
           p == b.id_map[x].price
           level == b.levels[side][p]
<1>1. /\ x \in DOMAIN b.id_map /\ y \in DOMAIN b.id_map
      /\ b.id_map[y].side = side /\ b.id_map[y].price = p
  BY DEF has_order, PlaceIn
<1>2. side \in Sides /\ p \in Prices
  BY <1>1, OrderFields DEF Sound, IsBook, IsMap
<1>3. x \in Located(b, side, p) /\ y \in Located(b, side, p)
  BY <1>1 DEF Located
<1>4. Alive(level) = Located(b, side, p) /\ Proper(level)
  BY <1>2, <1>3 DEF Sound, LevelSound
<1> HIDE DEF level
<1>5. PICK i \in 1..Len(level.queue) : level.queue[i] = x
  BY <1>3, <1>4 DEF Alive, Queued
<1>6. PICK j \in 1..Len(level.queue) : level.queue[j] = y
  BY <1>3, <1>4 DEF Alive, Queued
<1>7. i < j \/ j < i
  BY <1>5, <1>6
<1>8. QueuedBefore(level, x, y) \/ QueuedBefore(level, y, x)
  BY <1>5, <1>6, <1>7 DEF QueuedBefore
<1> QED BY <1>1, <1>8 DEF IsAhead, level

LEMMA LoadedSame ==
  ASSUME NEW f, NEW b, Sound(b), NEW stops, Holds(f, b, stops)
  PROVE  SameOrders(LoadedBook(f), b)
<1> DEFINE n == OrderCount(f)
           o == OrdersRead(f)
           D == DOMAIN b.id_map
           c == LoadedBook(f)
           price == b.last_trade_price
<1>1. /\ n \in Nat /\ Read(f, 3, 0) = price
      /\ ListsOnce(o, n, b, D)
  BY DEF Holds
<1>2. c = Inserted([EmptyBook EXCEPT !.last_trade_price = price], o)
  BY <1>1 DEF LoadedBook, Inserted, OrdersRead
<1>3. DOMAIN o = 1..n
  BY DEF OrdersRead
<1>4. /\ \A i \in 1..n : o[i].id \in D /\ o[i] = b.id_map[o[i].id]
      /\ \A id \in D : \E i \in 1..n : o[i] = b.id_map[id]
      /\ \A i, j \in 1..n : o[i].id = o[j].id => i = j
      /\ \A i, j \in 1..n : IsAhead(b, o[i].id, o[j].id) => i < j
  BY <1>1 DEF ListsOnce
<1>5. /\ price \in Prices
      /\ \A x \in D : b.id_map[x] \in Orders /\ b.id_map[x].id = x
      /\ b.id_map = [x \in D |-> b.id_map[x]]
  BY DEF Sound, IsBook, IsMap
<1> HIDE DEF n, o, c, price
<1>6. Built(c, o, n, price)
  <2>1. \A i \in 1..n : o[i] \in Orders
    BY <1>4, <1>5
  <2> QED BY <1>1, <1>2, <1>3, <1>4, <1>5, <2>1, BuiltAll
<1>7. /\ Sound(c) /\ c.last_trade_price = price
      /\ \A x : has_order(c, x) <=> \E i \in 1..n : o[i].id = x
      /\ \A i \in 1..n : c.id_map[o[i].id] = o[i]
      /\ \A i, j \in 1..n :
           IsAhead(c, o[i].id, o[j].id) <=>
             i < j /\ o[i].side = o[j].side /\ o[i].price = o[j].price
  BY <1>6 DEF Built
<1>8. \A x \in D : \E i \in 1..n : o[i].id = x
  BY <1>4, <1>5
<1>9. c.id_map = b.id_map
  <2>1. DOMAIN c.id_map = D
    <3>1. \A x : x \in DOMAIN c.id_map <=> has_order(c, x)
      BY DEF has_order
    <3>2. \A x : x \in D <=> \E i \in 1..n : o[i].id = x
      BY <1>4, <1>8
    <3> HIDE DEF D
    <3>3. \A x : x \in DOMAIN c.id_map <=> x \in D
      BY <1>7, <3>1, <3>2
    <3> QED BY <3>3
  <2>2. \A x \in D : c.id_map[x] = b.id_map[x]
    BY <1>4, <1>7, <1>8
  <2>3. c.id_map = [x \in DOMAIN c.id_map |-> c.id_map[x]]
    BY <1>7 DEF Sound, IsBook, IsMap
  <2> QED BY <1>5, <2>1, <2>2, <2>3
<1>10. ASSUME NEW x, NEW y PROVE IsAhead(c, x, y) <=> IsAhead(b, x, y)
  <2>1. IsAhead(c, x, y) \/ IsAhead(b, x, y) => x \in D /\ y \in D
    BY <1>9 DEF IsAhead, has_order
  <2> SUFFICES ASSUME x \in D, y \in D PROVE IsAhead(c, x, y) <=> IsAhead(b, x, y)
    BY <2>1
  <2>2. PICK i \in 1..n : o[i].id = x
    BY <1>8
  <2>3. PICK j \in 1..n : o[j].id = y
    BY <1>8
  <2>4. /\ o[i] = b.id_map[x] /\ o[j] = b.id_map[y] /\ has_order(b, x) /\ has_order(b, y)
    BY <1>4, <2>2, <2>3 DEF has_order
  <2>5. PlaceIn(b, x) = PlaceIn(b, y) <=> o[i].side = o[j].side /\ o[i].price = o[j].price
    BY <2>4 DEF PlaceIn
  <2>6. IsAhead(c, x, y) <=> i < j /\ PlaceIn(b, x) = PlaceIn(b, y)
    BY <1>7, <2>2, <2>3, <2>5
  <2>7. IsAhead(b, x, y) => i < j /\ PlaceIn(b, x) = PlaceIn(b, y)
    BY <1>4, <2>2, <2>3 DEF IsAhead
  <2>8. ASSUME i < j, PlaceIn(b, x) = PlaceIn(b, y) PROVE IsAhead(b, x, y)
    <3>1. x # y /\ ~(j < i)
      BY <1>1, <1>4, <2>2, <2>3, <2>8
    <3>2. ~IsAhead(b, y, x)
      BY <1>4, <2>2, <2>3, <3>1
    <3> QED BY <2>4, <2>8, <3>1, <3>2, OneIsAhead
  <2> QED BY <2>6, <2>7, <2>8
<1> QED BY <1>7, <1>9, <1>10 DEF SameOrders, c, price

(* Whatever state the engine was saved in - dead queue entries, orders     *)
(* requeued and replenished, pending stops - a load of the file before the *)
(* next event gives back the same resting orders in the same priority, the *)
(* same pending stops in the same order and the same last trade price.     *)
THEOREM SnapshotRestores ==
  ASSUME {"ids", "requeues"} \subseteq Discipline
  PROVE  ReplaySpec => [](since = "snapshot" /\ lines_left = MaxLines =>
                            /\ Loads(file)
                            /\ SameOrders(LoadedBook(file), book)
                            /\ LoadedStops(file) = pending_stops)
<1> DEFINE Restores == since = "snapshot" /\ lines_left = MaxLines =>
                         /\ Loads(file)
                         /\ SameOrders(LoadedBook(file), book)
                         /\ LoadedStops(file) = pending_stops
<1>1. ReplayInit => ReplayInv
  BY InitReplay
<1>2. ReplayInv /\ [ReplayNext]_replayVars => ReplayInv'
  BY NextReplay
<1>3. ReplayInv => Restores
  <2> SUFFICES ASSUME ReplayInv, since = "snapshot", lines_left = MaxLines
               PROVE  /\ Loads(file)
                      /\ SameOrders(LoadedBook(file), book)
                      /\ LoadedStops(file) = pending_stops
    OBVIOUS
  <2>1. Sound(book) /\ Holds(file, book, pending_stops)
    BY DEF ReplayInv, Inv, FileInv
  <2>2. SameOrders(LoadedBook(file), book)
    BY <2>1, LoadedSame
  <2> QED BY <2>1, <2>2 DEF Holds
<1> QED BY <1>1, <1>2, <1>3, PTL DEF ReplaySpec

=============================================================================
