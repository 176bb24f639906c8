------------------------ MODULE EngineSafety_proofs ------------------------
(***************************************************************************)
(* What the matching engine does with orders and quantities, for every set *)
(* of ids, prices and orders: no quantity is created or lost, the book is  *)
(* not crossed by what the gateway sends, the nested evaluations keep the  *)
(* stops in the order of their arrival, and the queues, with their dead    *)
(* entries, implement the price-time priority of PriceTimeBook.            *)
(*                                                                         *)
(* The invariant Inv of MatchingEngine_proofs says where orders are.  Here *)
(* the orders outside the book are looked at as two sets, the stops that   *)
(* wait and the orders that are being matched, and every action is said by *)
(* what it does to the two sets and to id_map_.                            *)
(***************************************************************************)
EXTENDS MatchingEngine_proofs

Members(seq) == {seq[i] : i \in 1..Len(seq)}
WorkingIn(st) == UNION {Members(st[f].working) : f \in 1..Len(st)}
Waiting(ps, st) == Members(ps) \cup WorkingIn(st)
Active(st) == {st[f].order : f \in 1..Len(st)}
Outside(ps, st) == Waiting(ps, st) \cup Active(st)

LEMMA MembersEmpty ==
  /\ Members(<<>>) = {} /\ WorkingIn(<<>>) = {} /\ Active(<<>>) = {}
  BY DEF Members, WorkingIn, Active

LEMMA MembersType ==
  ASSUME NEW S, NEW s \in Seq(S)
  PROVE  Members(s) \subseteq S
  BY ElementOfSeq DEF Members

LEMMA MembersAppend ==
  ASSUME NEW S, NEW s \in Seq(S), NEW x \in S
  PROVE  Members(Append(s, x)) = Members(s) \cup {x}
<1> DEFINE t == Append(s, x)
<1>1. /\ Len(t) = Len(s) + 1 /\ Len(s) \in Nat
      /\ \A i \in 1..Len(s) : t[i] = s[i]
      /\ t[Len(s) + 1] = x
  BY AppendProperties
<1> HIDE DEF t
<1>2. \A i \in 1..(Len(s) + 1) : i \in 1..Len(s) \/ i = Len(s) + 1
  BY <1>1
<1>3. 1..Len(s) \subseteq 1..(Len(s) + 1) /\ Len(s) + 1 \in 1..(Len(s) + 1)
  BY <1>1
<1>4. Members(t) = Members(s) \cup {x}
  BY <1>1, <1>2, <1>3 DEF Members
<1> QED BY <1>4 DEF t

LEMMA MembersRemoveAt ==
  ASSUME NEW S, NEW s \in Seq(S), NEW k \in 1..Len(s)
  PROVE  Members(RemoveAt(s, k)) = {s[i] : i \in 1..Len(s) \ {k}}
<1> DEFINE t == RemoveAt(s, k)
<1>1. /\ Len(t) = Len(s) - 1 /\ Len(s) \in Nat
      /\ \A j \in 1..(Len(s) - 1) : t[j] = IF j < k THEN s[j] ELSE s[j + 1]
  BY RemoveAtFields
<1> HIDE DEF t
<1>2. ASSUME NEW j \in 1..(Len(s) - 1)
      PROVE  \E i \in 1..Len(s) \ {k} : t[j] = s[i]
  <2>1. CASE j < k
    BY <1>1, <2>1
  <2>2. CASE ~(j < k)
    <3>1. j + 1 \in 1..Len(s) \ {k}
      BY <1>1, <2>2
    <3> QED BY <1>1, <2>2, <3>1
  <2> QED BY <2>1, <2>2
<1>3. ASSUME NEW i \in 1..Len(s) \ {k}
      PROVE  \E j \in 1..(Len(s) - 1) : t[j] = s[i]
  <2>1. CASE i < k
    BY <1>1, <2>1
  <2>2. CASE i > k
    <3>1. i - 1 \in 1..(Len(s) - 1) /\ ~(i - 1 < k) /\ (i - 1) + 1 = i
      BY <1>1, <2>2
    <3> QED BY <1>1, <3>1
  <2> QED BY <2>1, <2>2
<1>4. Members(t) = {t[j] : j \in 1..(Len(s) - 1)}
  BY <1>1 DEF Members
<1>5. ASSUME NEW x
      PROVE  x \in Members(t) <=> x \in {s[i] : i \in 1..Len(s) \ {k}}
  <2> DEFINE I == 1..Len(s) \ {k}
             J == 1..(Len(s) - 1)
  <2>1. /\ \A j \in J : \E i \in I : t[j] = s[i]
        /\ \A i \in I : \E j \in J : t[j] = s[i]
        /\ x \in Members(t) <=> \E j \in J : x = t[j]
    BY <1>2, <1>3, <1>4
  <2> HIDE DEF I, J
  <2>2. x \in Members(t) <=> x \in {s[i] : i \in I}
    BY <2>1
  <2> QED BY <2>2 DEF I
<1> QED BY <1>5 DEF t

LEMMA MembersTail ==
  ASSUME NEW S, NEW s \in Seq(S), s # <<>>
  PROVE  /\ Members(s) = {Head(s)} \cup Members(Tail(s))
         /\ Head(s) \in S /\ Tail(s) \in Seq(S) /\ Head(s) = s[1]
<1>1. /\ Tail(s) \in Seq(S) /\ Len(Tail(s)) = Len(s) - 1 /\ Len(s) \in Nat \ {0}
      /\ Head(s) \in S /\ Head(s) = s[1]
      /\ \A i \in 1..(Len(s) - 1) : Tail(s)[i] = s[i + 1]
  BY HeadTailProperties
<1>2. \A i \in 1..Len(s) : i = 1 \/ (i - 1 \in 1..(Len(s) - 1) /\ (i - 1) + 1 = i)
  BY <1>1
<1>3. \A i \in 1..(Len(s) - 1) : i + 1 \in 1..Len(s)
  BY <1>1
<1>4. 1 \in 1..Len(s)
  BY <1>1
<1> DEFINE t == Tail(s)
<1>5. Len(t) = Len(s) - 1 /\ \A i \in 1..(Len(s) - 1) : t[i] = s[i + 1]
  BY <1>1
<1> HIDE DEF t
<1>6. ASSUME NEW x \in Members(s) PROVE x = s[1] \/ x \in Members(t)
  <2>1. PICK i \in 1..Len(s) : x = s[i]
    BY DEF Members
  <2>2. i = 1 \/ (i - 1 \in 1..Len(t) /\ t[i - 1] = s[i])
    BY <1>2, <1>5
  <2> QED BY <2>1, <2>2 DEF Members
<1>7. ASSUME NEW x \in Members(t) PROVE x \in Members(s)
  <2>1. PICK i \in 1..Len(t) : x = t[i]
    BY DEF Members
  <2>2. i + 1 \in 1..Len(s) /\ t[i] = s[i + 1]
    BY <1>3, <1>5
  <2> QED BY <2>1, <2>2 DEF Members
<1>8. s[1] \in Members(s)
  BY <1>4 DEF Members
<1>9. Members(s) = {s[1]} \cup Members(t)
  BY <1>6, <1>7, <1>8
<1> QED BY <1>1, <1>9 DEF t

(* The innermost activation and the ones below it. *)
LEMMA StackParts ==
  ASSUME NEW st \in Seq(Frames), st # <<>>
  PROVE  /\ WorkingIn(st) = Members(st[1].working) \cup WorkingIn(Tail(st))
         /\ Active(st) = {st[1].order} \cup Active(Tail(st))
         /\ Tail(st) \in Seq(Frames) /\ st[1] \in Frames
<1>1. /\ Tail(st) \in Seq(Frames) /\ Len(Tail(st)) = Len(st) - 1 /\ Len(st) \in Nat \ {0}
      /\ \A i \in 1..(Len(st) - 1) : Tail(st)[i] = st[i + 1]
  BY HeadTailProperties
<1>2. \A i \in 1..Len(st) : i = 1 \/ (i - 1 \in 1..(Len(st) - 1) /\ (i - 1) + 1 = i)
  BY <1>1
<1>3. \A i \in 1..(Len(st) - 1) : i + 1 \in 1..Len(st)
  BY <1>1
<1>4. 1 \in 1..Len(st)
  BY <1>1
<1>5. Active(st) = {st[1].order} \cup Active(Tail(st))
  BY <1>1, <1>2, <1>3, <1>4 DEF Active
<1>6. ASSUME NEW x
      PROVE  x \in WorkingIn(st) <=> x \in Members(st[1].working) \cup WorkingIn(Tail(st))
  <2>1. x \in WorkingIn(st) <=> \E f \in 1..Len(st) : x \in Members(st[f].working)
    BY DEF WorkingIn
  <2>2. x \in WorkingIn(Tail(st)) <=>
          \E f \in 1..(Len(st) - 1) : x \in Members(st[f + 1].working)
    BY <1>1 DEF WorkingIn
  <2> QED BY <1>2, <1>3, <1>4, <2>1, <2>2
<1>7. st[1] \in Frames
  BY <1>4, ElementOfSeq
<1> QED BY <1>1, <1>5, <1>6, <1>7

LEMMA ReplaceTopTail ==
  ASSUME NEW st \in Seq(Frames), st # <<>>, NEW fr \in Frames
  PROVE  LET new == [st EXCEPT ![1] = fr]
         IN  /\ new \in Seq(Frames) /\ new # <<>> /\ new[1] = fr
             /\ Tail(new) = Tail(st)
<1> DEFINE new == [st EXCEPT ![1] = fr]
<1>1. /\ new \in Seq(Frames) /\ Len(new) = Len(st) /\ Len(st) \in Nat \ {0}
      /\ new[1] = fr
      /\ \A f \in 1..Len(st) : f # 1 => new[f] = st[f]
  BY ReplaceTop
<1> HIDE DEF new
<1>2. new # <<>>
  BY <1>1
<1>3. /\ Tail(st) \in Seq(Frames) /\ Len(Tail(st)) = Len(st) - 1
      /\ \A i \in 1..(Len(st) - 1) : Tail(st)[i] = st[i + 1]
  BY HeadTailProperties
<1>4. /\ Tail(new) \in Seq(Frames) /\ Len(Tail(new)) = Len(st) - 1
      /\ \A i \in 1..(Len(st) - 1) : Tail(new)[i] = new[i + 1]
  BY <1>1, <1>2, HeadTailProperties
<1>5. \A i \in 1..(Len(st) - 1) : new[i + 1] = st[i + 1]
  <2>1. \A i \in 1..(Len(st) - 1) : i + 1 \in 1..Len(st) /\ i + 1 # 1
    BY <1>1
  <2> QED BY <1>1, <2>1
<1>6. Tail(new) = Tail(st)
  <2>1. \A i \in 1..Len(Tail(st)) : Tail(new)[i] = Tail(st)[i]
    BY <1>3, <1>4, <1>5
  <2>2. Len(Tail(new)) = Len(Tail(st))
    BY <1>3, <1>4
  <2> HIDE DEF new
  <2> QED BY <1>3, <1>4, <2>1, <2>2, SeqEqual
<1> QED BY <1>1, <1>2, <1>6 DEF new

LEMMA PushTail ==
  ASSUME NEW st \in Seq(Frames), NEW fr \in Frames
  PROVE  LET new == <<fr>> \o st
         IN  new \in Seq(Frames) /\ new # <<>> /\ new[1] = fr /\ Tail(new) = st
<1> DEFINE new == <<fr>> \o st
<1>1. /\ new \in Seq(Frames) /\ Len(new) = Len(st) + 1 /\ new[1] = fr /\ Len(st) \in Nat
      /\ \A f \in 1..Len(st) : new[f + 1] = st[f]
  OBVIOUS
<1> HIDE DEF new
<1>2. new # <<>>
  BY <1>1
<1>3. /\ Tail(new) \in Seq(Frames) /\ Len(Tail(new)) = Len(st)
      /\ \A i \in 1..Len(st) : Tail(new)[i] = new[i + 1]
  BY <1>1, <1>2, HeadTailProperties
<1>4. Tail(new) = st
  BY <1>1, <1>3, SeqEqual
<1> QED BY <1>1, <1>2, <1>4 DEF new

-----------------------------------------------------------------------------
(* What Apart says of the two sets: no order in one has the id of one in   *)
(* the other, the book knows none of them, and the order on top of the     *)
(* stack is not further down.                                              *)
LEMMA ApartSets ==
  ASSUME NEW b, NEW ps \in Seq(Orders), NEW st \in Seq(Frames), Apart(b, ps, st)
  PROVE  /\ \A o \in Outside(ps, st) : o \in Orders /\ Absent(b, o.id)
         /\ \A o \in Waiting(ps, st), a \in Active(st) : o.id # a.id
         /\ st # <<>> => \A a \in Active(Tail(st)) : a.id # st[1].order.id
         /\ \A i, j \in 1..Len(ps) : ps[i].id = ps[j].id => i = j
<1>1. \A f \in 1..Len(st) : st[f].order \in Orders /\ st[f].working \in Seq(Orders)
  <2>1. \A f \in 1..Len(st) : st[f] \in Frames
    BY ElementOfSeq
  <2> QED BY <2>1 DEF Frames
<1>2. Len(ps) \in Nat /\ Len(st) \in Nat /\ \A f \in 1..Len(st) : Len(st[f].working) \in Nat
  BY <1>1
<1>3. ASSUME NEW o \in Waiting(ps, st)
      PROVE  /\ o \in Orders
             /\ \E f, i \in Nat : /\ IsPlace(ps, st, f, i) /\ IdAt(ps, st, f, i) = o.id
                                  /\ f = 0 \/ i # 0
  <2>1. CASE o \in Members(ps)
    <3>1. PICK i \in 1..Len(ps) : o = ps[i]
      BY <2>1 DEF Members
    <3>2. o \in Orders
      BY <3>1, ElementOfSeq
    <3>3. IsPlace(ps, st, 0, i) /\ IdAt(ps, st, 0, i) = o.id /\ i \in Nat
      BY <1>2, <3>1 DEF IsPlace, IdAt
    <3> QED BY <3>2, <3>3
  <2>2. CASE o \in WorkingIn(st)
    <3>1. PICK f \in 1..Len(st) : o \in Members(st[f].working)
      BY <2>2 DEF WorkingIn
    <3>2. PICK i \in 1..Len(st[f].working) : o = st[f].working[i]
      BY <3>1 DEF Members
    <3>3. o \in Orders
      BY <1>1, <3>2, ElementOfSeq
    <3>4. f \in Nat /\ f # 0 /\ i \in Nat /\ i # 0 /\ i \in 0..Len(st[f].working)
      BY <1>2
    <3>5. IsPlace(ps, st, f, i) /\ IdAt(ps, st, f, i) = o.id
      BY <3>2, <3>4 DEF IsPlace, IdAt
    <3> QED BY <3>3, <3>4, <3>5
  <2> QED BY <2>1, <2>2 DEF Waiting
<1>4. ASSUME NEW a \in Active(st)
      PROVE  /\ a \in Orders
             /\ \E f \in Nat : /\ IsPlace(ps, st, f, 0) /\ IdAt(ps, st, f, 0) = a.id
                               /\ f # 0
  <2>1. PICK f \in 1..Len(st) : a = st[f].order
    BY DEF Active
  <2>2. f \in Nat /\ f # 0 /\ 0 \in 0..Len(st[f].working)
    BY <1>2
  <2> QED BY <1>1, <2>1, <2>2 DEF IsPlace, IdAt
<1>5. \A o \in Outside(ps, st) : o \in Orders /\ Absent(b, o.id)
  <2>1. 0 \in Nat
    OBVIOUS
  <2> QED BY <1>3, <1>4, <2>1 DEF Apart, Outside
<1>6. \A o \in Waiting(ps, st), a \in Active(st) : o.id # a.id
  <2>1. 0 \in Nat
    OBVIOUS
  <2> QED BY <1>3, <1>4, <2>1 DEF Apart
<1>7. ASSUME st # <<>>, NEW a \in Active(Tail(st)) PROVE a.id # st[1].order.id
  <2>1. /\ Len(Tail(st)) = Len(st) - 1 /\ Len(st) \in Nat \ {0}
        /\ \A i \in 1..(Len(st) - 1) : Tail(st)[i] = st[i + 1]
    BY <1>7, HeadTailProperties
  <2>2. PICK f \in 1..(Len(st) - 1) : a = st[f + 1].order
    BY <2>1 DEF Active
  <2>3. /\ f + 1 \in 1..Len(st) /\ f + 1 \in Nat /\ f + 1 # 1 /\ f + 1 # 0
        /\ 1 \in 1..Len(st) /\ 0 \in Nat /\ 1 \in Nat
    BY <2>1
  <2>4. 0 \in 0..Len(st[f + 1].working) /\ 0 \in 0..Len(st[1].working)
    BY <1>2, <2>3
  <2>5. /\ IsPlace(ps, st, f + 1, 0) /\ IdAt(ps, st, f + 1, 0) = a.id
        /\ IsPlace(ps, st, 1, 0) /\ IdAt(ps, st, 1, 0) = st[1].order.id
    BY <2>2, <2>3, <2>4 DEF IsPlace, IdAt
  <2> QED BY <2>3, <2>5 DEF Apart
<1>8. ASSUME NEW i \in 1..Len(ps), NEW j \in 1..Len(ps), ps[i].id = ps[j].id PROVE i = j
  <2>1. /\ IsPlace(ps, st, 0, i) /\ IdAt(ps, st, 0, i) = ps[i].id
        /\ IsPlace(ps, st, 0, j) /\ IdAt(ps, st, 0, j) = ps[j].id
    BY DEF IsPlace, IdAt
  <2>2. i \in Nat /\ j \in Nat /\ 0 \in Nat
    BY <1>2
  <2> QED BY <1>8, <2>1, <2>2 DEF Apart
<1> QED BY <1>5, <1>6, <1>7, <1>8

-----------------------------------------------------------------------------
(* What the operations of the book do to id_map_. *)
LEMMA CancelOrders ==
  ASSUME NEW b, Sound(b), NEW id, has_order(b, id)
  PROVE  LET c == cancel_order(b, id)
         IN  /\ \A x : has_order(c, x) <=> has_order(b, x) /\ x # id
             /\ \A x : has_order(c, x) => c.id_map[x] = b.id_map[x]
<1> DEFINE order == b.id_map[id]
           left == IF HasLevel(b, order.side, order.price) THEN LeaveLevel(b, order) ELSE b
           map  == Erase(b.id_map, id)
           c    == cancel_order(b, id)
<1>1. b = [levels |-> b.levels, id_map |-> b.id_map, last_trade_price |-> b.last_trade_price]
  BY DEF Sound, IsBook
<1>2. \E l : left = [levels |-> l, id_map |-> b.id_map, last_trade_price |-> b.last_trade_price]
  <2> DEFINE marked == drain_cancelled(remove(b.levels[order.side][order.price],
                                              order.id, visible_qty(order)))
             erased == [b.levels EXCEPT ![order.side] = Erase(b.levels[order.side], order.price)]
             set == [b.levels EXCEPT ![order.side] = Put(b.levels[order.side], order.price, marked)]
  <2>1. \/ left = b
        \/ left = [b EXCEPT !.levels = erased]
        \/ left = [b EXCEPT !.levels = set]
    BY DEF LeaveLevel, EraseLevel, SetLevel
  <2> HIDE DEF left, erased, set
  <2> QED BY <1>1, <2>1
<1>3. c = [left EXCEPT !.id_map = map]
  BY DEF cancel_order
<1>4. /\ DOMAIN map = DOMAIN b.id_map \ {id}
      /\ \A x \in DOMAIN map : map[x] = b.id_map[x]
  BY DEF Erase, Restrict
<1> HIDE DEF left, map, c
<1>5. c.id_map = map
  BY <1>2, <1>3
<1>6. /\ \A x : has_order(c, x) <=> has_order(b, x) /\ x # id
      /\ \A x : has_order(c, x) => c.id_map[x] = b.id_map[x]
  BY <1>4, <1>5 DEF has_order
<1> QED BY <1>6 DEF c

LEMMA InsertOrders ==
  ASSUME NEW b, Sound(b), NEW order
  PROVE  LET c == insert_order(b, order)
         IN  /\ \A x : has_order(c, x) <=> has_order(b, x) \/ x = order.id
             /\ c.id_map[order.id] = order
             /\ \A x : has_order(b, x) /\ x # order.id => c.id_map[x] = b.id_map[x]
<1> DEFINE map == Put(b.id_map, order.id, order)
           level == IF HasLevel(b, order.side, order.price)
                    THEN b.levels[order.side][order.price] ELSE EmptyLevel
           entry == push_back(level, order.id, visible_qty(order))
           levels == [b.levels EXCEPT ![order.side] = Put(b.levels[order.side], order.price, entry)]
           c == insert_order(b, order)
<1>1. b = [levels |-> b.levels, id_map |-> b.id_map, last_trade_price |-> b.last_trade_price]
  BY DEF Sound, IsBook
<1>2. c = [[b EXCEPT !.levels = levels] EXCEPT !.id_map = map]
  BY DEF insert_order, SetLevel
<1>3. /\ DOMAIN map = DOMAIN b.id_map \cup {order.id}
      /\ map[order.id] = order
      /\ \A x \in DOMAIN b.id_map : x # order.id => map[x] = b.id_map[x]
  BY DEF Put
<1> HIDE DEF map, levels, c
<1>4. c.id_map = map
  BY <1>1, <1>2
<1>5. /\ \A x : has_order(c, x) <=> has_order(b, x) \/ x = order.id
      /\ c.id_map[order.id] = order
      /\ \A x : has_order(b, x) /\ x # order.id => c.id_map[x] = b.id_map[x]
  BY <1>3, <1>4 DEF has_order
<1> QED BY <1>5 DEF c

LEMMA UpdateOrders ==
  ASSUME NEW b, Sound(b), NEW order, has_order(b, order.id)
  PROVE  LET c == update_order(b, order)
         IN  /\ \A x : has_order(c, x) <=> has_order(b, x)
             /\ c.id_map[order.id] = order
             /\ \A x : has_order(b, x) /\ x # order.id => c.id_map[x] = b.id_map[x]
<1> DEFINE map == Put(b.id_map, order.id, order)
           c == update_order(b, order)
<1>1. b = [levels |-> b.levels, id_map |-> b.id_map, last_trade_price |-> b.last_trade_price]
  BY DEF Sound, IsBook
<1>2. c = [b EXCEPT !.id_map = map]
  BY DEF update_order
<1>3. /\ DOMAIN map = DOMAIN b.id_map
      /\ map[order.id] = order
      /\ \A x \in DOMAIN b.id_map : x # order.id => map[x] = b.id_map[x]
  BY DEF Put, has_order
<1> HIDE DEF map, c
<1>4. c.id_map = map
  BY <1>1, <1>2
<1>5. /\ \A x : has_order(c, x) <=> has_order(b, x)
      /\ c.id_map[order.id] = order
      /\ \A x : has_order(b, x) /\ x # order.id => c.id_map[x] = b.id_map[x]
  BY <1>3, <1>4 DEF has_order
<1> QED BY <1>5 DEF c

(* execute_fill: the passive order gives up the quantity, and leaves the   *)
(* book only with nothing to show and no reserve it could replenish from.  *)
LEMMA FillOrders ==
  ASSUME NEW b, Sound(b), NEW side \in Sides, NEW price, HasLevel(b, side, price),
         NEW qty \in Nat, qty <= b.id_map[FrontId(b, side, price)].quantity
  PROVE  LET id      == FrontId(b, side, price)
             s       == b.id_map[id]
             passive == [s EXCEPT !.quantity = s.quantity - qty]
             c       == AfterFill(FrontDrained(b, side, price), passive, qty)
             n       == c.id_map[id]
         IN  /\ has_order(b, id) /\ s \in Orders /\ s.id = id
             /\ s.side = side /\ s.price = price
             /\ \A x : x # id => (has_order(c, x) <=> has_order(b, x))
             /\ \A x : x # id /\ has_order(b, x) => c.id_map[x] = b.id_map[x]
             /\ ~has_order(c, id) => s.quantity = qty /\ ~(s.peak_qty > 0 /\ s.reserve_qty > 0)
             /\ has_order(c, id) =>
                  /\ n.side = side /\ n.price = price /\ n.type = s.type
                  /\ n.peak_qty = s.peak_qty /\ n.reserve_qty <= s.reserve_qty
                  /\ n.quantity + n.reserve_qty = (s.quantity - qty) + s.reserve_qty
<1> DEFINE id      == FrontId(b, side, price)
           s       == b.id_map[id]
           passive == [s EXCEPT !.quantity = s.quantity - qty]
           level   == b.levels[side][price]
           drained == drain_cancelled(level)
           d       == FrontDrained(b, side, price)
           peak    == IF passive.peak_qty <= passive.reserve_qty
                      THEN passive.peak_qty ELSE passive.reserve_qty
           next    == [passive EXCEPT !.reserve_qty = passive.reserve_qty - peak,
                                      !.quantity = peak]
           c       == AfterFill(d, passive, qty)
<1>1. IsBook(b) /\ price \in Prices
  BY LevelType DEF Sound
<1>2. Proper(level) /\ Alive(level) = Located(b, side, price) /\ Alive(level) # {}
  BY <1>1 DEF Sound, LevelSound
<1>3. /\ Proper(drained) /\ Alive(drained) = Alive(level)
      /\ Queued(drained) \subseteq Queued(level)
      /\ id \in Alive(level) /\ id = drained.queue[1]
  BY <1>2, DrainAlive DEF FrontId
<1>4. /\ has_order(b, id) /\ s.side = side /\ s.price = price
      /\ s \in Orders /\ s.id = id /\ id \in Ids
  <2>1. id \in Located(b, side, price)
    BY <1>2, <1>3
  <2> HIDE DEF id
  <2>2. has_order(b, id) /\ s.side = side /\ s.price = price
    BY <2>1 DEF Located, has_order
  <2> QED BY <2>2, <1>1, OrderInBook DEF Sound, has_order
<1>5. qty <= s.quantity /\ s.quantity \in Nat /\ s.reserve_qty \in Nat /\ s.peak_qty \in Nat
  BY <1>4, OrderFields
<1> HIDE DEF id, s
<1>6. /\ passive \in Orders /\ passive.id = id /\ passive.side = side
      /\ passive.price = price /\ passive.type = s.type
      /\ passive.quantity = s.quantity - qty /\ passive.quantity \in Nat
      /\ passive.peak_qty = s.peak_qty /\ passive.reserve_qty = s.reserve_qty
  <2>1. s.quantity - qty \in Nat
    BY <1>5
  <2> QED BY <1>4, <2>1 DEF Orders
<1> HIDE DEF passive
<1>7. /\ Sound(d) /\ d.id_map = b.id_map /\ HasLevel(d, side, price)
      /\ d.levels[side][price] = drained
  <2> HIDE DEF level, drained
  <2>1. d = SetLevel(b, side, price, drained)
    BY DEF FrontDrained, level, drained
  <2>2. level = b.levels[side][price]
    BY DEF level
  <2> QED BY <1>2, <1>3, <2>1, <2>2, SetLevelSound
<1>8. has_order(d, passive.id)
  BY <1>4, <1>6, <1>7 DEF has_order
<1> HIDE DEF d
<1> DEFINE n == c.id_map[id]
           Others == /\ \A x : x # id => (has_order(c, x) <=> has_order(b, x))
                     /\ \A x : x # id /\ has_order(b, x) => c.id_map[x] = b.id_map[x]
           Gone == s.quantity = qty /\ ~(s.peak_qty > 0 /\ s.reserve_qty > 0)
           Stays == /\ n.side = side /\ n.price = price /\ n.type = s.type
                    /\ n.peak_qty = s.peak_qty /\ n.reserve_qty <= s.reserve_qty
                    /\ n.quantity + n.reserve_qty = (s.quantity - qty) + s.reserve_qty
<1>9. Others /\ (~has_order(c, id) => Gone) /\ (has_order(c, id) => Stays)
  <2>1. CASE passive.quantity = 0 /\ is_iceberg(passive) /\ passive.reserve_qty > 0
    <3> DEFINE moved == push_back(pop_front(drained, qty), passive.id, peak)
               levels == [d.levels EXCEPT ![side] = Put(d.levels[side], price, moved)]
               map == Put(d.id_map, next.id, next)
    <3>1. /\ next.id = id /\ next.side = side /\ next.price = price /\ next.type = s.type
          /\ next.peak_qty = s.peak_qty /\ next.reserve_qty <= s.reserve_qty
          /\ next.quantity + next.reserve_qty = (s.quantity - qty) + s.reserve_qty
      <4>1. peak \in Nat /\ passive.reserve_qty - peak \in Nat /\ passive.reserve_qty \in Nat
        BY <1>5, <1>6
      <4> HIDE DEF peak
      <4>2. /\ next.id = id /\ next.side = side /\ next.price = price /\ next.type = s.type
            /\ next.peak_qty = s.peak_qty /\ next.quantity = peak
            /\ next.reserve_qty = passive.reserve_qty - peak
        BY <1>6, <4>1 DEF Orders
      <4> HIDE DEF next
      <4> QED BY <4>1, <4>2, <1>5, <1>6, <2>1
    <3> HIDE DEF next
    <3>2. d = [levels |-> d.levels, id_map |-> d.id_map, last_trade_price |-> d.last_trade_price]
      BY <1>7 DEF Sound, IsBook
    <3>3. c = [[d EXCEPT !.levels = levels] EXCEPT !.id_map = Put([d EXCEPT !.levels = levels].id_map, next.id, next)]
      BY <1>6, <1>7, <2>1 DEF AfterFill, replenish_iceberg, update_order, SetLevel, next
    <3> HIDE DEF levels, c
    <3>4. [d EXCEPT !.levels = levels].id_map = d.id_map
      BY <3>2
    <3>5. c = [[d EXCEPT !.levels = levels] EXCEPT !.id_map = map]
      BY <3>3, <3>4
    <3>6. /\ DOMAIN map = DOMAIN b.id_map
          /\ map[id] = next
          /\ \A x \in DOMAIN b.id_map : x # id => map[x] = b.id_map[x]
      BY <1>4, <1>7, <3>1 DEF Put, has_order
    <3> HIDE DEF map
    <3>7. c.id_map = map
      BY <3>2, <3>5
    <3>8. Others
      BY <3>6, <3>7 DEF has_order
    <3>9. has_order(c, id) /\ n = next
      BY <1>4, <3>6, <3>7 DEF has_order
    <3> QED BY <3>1, <3>8, <3>9
  <2>2. CASE passive.quantity = 0 /\ ~(is_iceberg(passive) /\ passive.reserve_qty > 0)
    <3> DEFINE u == update_order(d, passive)
    <3>1. c = cancel_order(u, id)
      BY <1>6, <2>2 DEF AfterFill
    <3>2. /\ Sound(u) /\ has_order(u, id)
      <4>1. passive.side = d.id_map[passive.id].side /\ passive.price = d.id_map[passive.id].price
        BY <1>4, <1>6, <1>7 DEF s
      <4> QED BY <1>6, <1>7, <1>8, <4>1, UpdateSound
    <3>3. /\ \A x : has_order(u, x) <=> has_order(d, x)
          /\ \A x : has_order(d, x) /\ x # id => u.id_map[x] = d.id_map[x]
      BY <1>6, <1>7, <1>8, UpdateOrders
    <3> HIDE DEF u, c
    <3>4. /\ \A x : has_order(c, x) <=> has_order(u, x) /\ x # id
          /\ \A x : has_order(c, x) => c.id_map[x] = u.id_map[x]
      BY <3>1, <3>2, CancelOrders
    <3>5. Others /\ ~has_order(c, id)
      BY <1>7, <3>3, <3>4 DEF has_order
    <3>6. Gone
      BY <1>5, <1>6, <2>2 DEF is_iceberg
    <3> QED BY <3>5, <3>6
  <2>3. CASE passive.quantity # 0
    <3> DEFINE r == reduce_level_volume(d, side, price, qty)
    <3>1. c = update_order(r, passive)
      BY <1>6, <2>3 DEF AfterFill
    <3>2. Sound(r) /\ r.id_map = d.id_map
      BY <1>7, ReduceLevelSound
    <3> HIDE DEF r, c
    <3>3. has_order(r, passive.id)
      BY <1>8, <3>2 DEF has_order
    <3>4. /\ \A x : has_order(c, x) <=> has_order(r, x)
          /\ c.id_map[passive.id] = passive
          /\ \A x : has_order(r, x) /\ x # passive.id => c.id_map[x] = r.id_map[x]
      BY <3>1, <3>2, <3>3, UpdateOrders
    <3>5. Others
      BY <1>6, <1>7, <3>2, <3>4 DEF has_order
    <3>6. has_order(c, id) /\ n = passive
      BY <1>6, <3>3, <3>4
    <3>7. Stays
      BY <1>5, <1>6, <3>6
    <3> QED BY <3>5, <3>6, <3>7
  <2> QED BY <2>1, <2>2, <2>3
<1>10. /\ has_order(b, id) /\ s \in Orders /\ s.id = id
       /\ s.side = side /\ s.price = price
       /\ \A x : x # id => (has_order(c, x) <=> has_order(b, x))
       /\ \A x : x # id /\ has_order(b, x) => c.id_map[x] = b.id_map[x]
       /\ ~has_order(c, id) => s.quantity = qty /\ ~(s.peak_qty > 0 /\ s.reserve_qty > 0)
       /\ has_order(c, id) =>
            /\ n.side = side /\ n.price = price /\ n.type = s.type
            /\ n.peak_qty = s.peak_qty /\ n.reserve_qty <= s.reserve_qty
            /\ n.quantity + n.reserve_qty = (s.quantity - qty) + s.reserve_qty
  <2> HIDE DEF c
  <2> QED BY <1>4, <1>9
<1> QED BY <1>10 DEF c, d, passive, s, id

-----------------------------------------------------------------------------
(* The actions, by what they do to the two sets and to id_map_. *)
LEMMA NewEffect ==
  ASSUME Inv, Idle, NEW b, NEW order \in Orders, process_new_order(b, order)
  PROVE  /\ Active(stack) = {}
         /\ \/ /\ Waits(b, order)
               /\ Waiting(pending_stops', stack') = Waiting(pending_stops, stack) \cup {order}
               /\ Active(stack') = {}
            \/ /\ ~Waits(b, order)
               /\ Waiting(pending_stops', stack') = Waiting(pending_stops, stack)
               /\ Active(stack') = {Enter(order).order}
<1>1. stack = <<>> /\ pending_stops \in Seq(Orders)
  BY DEF Idle, Inv, TypeOK
<1>2. CASE Waits(b, order)
  <2>1. pending_stops' = Append(pending_stops, order) /\ stack' = <<>>
    BY <1>1, <1>2 DEF process_new_order
  <2> QED BY <1>1, <1>2, <2>1, MembersAppend, MembersEmpty DEF Waiting
<1>3. CASE ~Waits(b, order)
  <2>1. pending_stops' = pending_stops /\ stack' = <<Enter(order)>>
    BY <1>3 DEF process_new_order
  <2>2. PICK o \in Orders : Enter(order) = Activation(o)
    BY EnterType
  <2> DEFINE act == Activation(o)
  <2>3. act \in Frames /\ act.working = <<>> /\ act.order = o
    BY ActivationType
  <2> HIDE DEF act
  <2>4. WorkingIn(<<act>>) = {} /\ Active(<<act>>) = {act.order}
    BY <2>3, MembersEmpty DEF WorkingIn, Active
  <2> QED BY <1>1, <1>3, <2>1, <2>2, <2>4, MembersEmpty DEF Waiting, act
<1> QED BY <1>2, <1>3

LEMMA CancelPendingEffect ==
  ASSUME Inv, NEW id \in Ids, CancelPending(id)
  PROVE  /\ Active(stack) = {} /\ Active(stack') = {} /\ book' = book
         /\ \E stop \in Waiting(pending_stops, stack) :
              /\ stop.id = id /\ stop \in Orders
              /\ ledger' = Withdrawn(ledger, stop)
              /\ Waiting(pending_stops, stack) = Waiting(pending_stops', stack') \cup {stop}
              /\ \A o \in Waiting(pending_stops', stack') : o.id # id
<1>1. PICK i \in 1..Len(pending_stops) :
        /\ pending_stops[i].id = id
        /\ pending_stops' = RemoveAt(pending_stops, i)
        /\ ledger' = Withdrawn(ledger, pending_stops[i])
  BY DEF CancelPending, IsFirstPending
<1>2. /\ stack = <<>> /\ stack' = <<>> /\ pending_stops \in Seq(Orders) /\ book' = book
      /\ stack \in Seq(Frames) /\ Apart(book, pending_stops, stack)
  BY DEF CancelPending, Idle, Inv, TypeOK
<1> DEFINE stop == pending_stops[i]
           rest == {pending_stops[j] : j \in 1..Len(pending_stops) \ {i}}
<1>3. Members(pending_stops') = rest
  BY <1>1, <1>2, MembersRemoveAt
<1>4. Members(pending_stops) = rest \cup {stop}
  BY DEF Members
<1>5. \A o \in rest : o.id # id
  BY <1>1, <1>2, ApartSets
<1>6. stop \in Orders
  BY <1>2, ElementOfSeq
<1> HIDE DEF stop, rest
<1>7. /\ Waiting(pending_stops, stack) = rest \cup {stop}
      /\ Waiting(pending_stops', stack') = rest
  BY <1>2, <1>3, <1>4, MembersEmpty DEF Waiting
<1>8. stop.id = id /\ ledger' = Withdrawn(ledger, stop)
  BY <1>1 DEF stop
<1> QED BY <1>2, <1>5, <1>6, <1>7, <1>8, MembersEmpty

(* A fill of the order on top of the stack with the resting order id. *)
Fills(id, qty) ==
  LET a    == Top.order
      s    == book.id_map[id]
      left == [a EXCEPT !.quantity = a.quantity - qty]
      n    == book'.id_map[id]
  IN  /\ a \in Orders /\ a \in Active(stack) /\ a.id # id
      /\ has_order(book, id) /\ s \in Orders /\ s.id = id /\ s.side = Opposite(a.side)
      /\ qty <= a.quantity /\ qty <= s.quantity
      /\ ledger' = [ledger EXCEPT ![a.id].filled = @ + qty, ![id].filled = @ + qty]
      /\ result' = [result EXCEPT !.trades =
                      Append(result.trades,
                             [aggressor_id |-> a.id, passive_id |-> id, price |-> s.price,
                              quantity |-> qty, aggressor_side |-> a.side])]
      /\ Waiting(pending_stops', stack') = Waiting(pending_stops, stack)
      /\ Active(stack') = Active(Tail(stack)) \cup {left}
      /\ Active(stack) = Active(Tail(stack)) \cup {a}
      /\ \A o \in Waiting(pending_stops, stack) \cup Active(Tail(stack)) : o.id # a.id
      /\ \A x : x # id => (has_order(book', x) <=> has_order(book, x))
      /\ \A x : x # id /\ has_order(book, x) => book'.id_map[x] = book.id_map[x]
      /\ ~has_order(book', id) => s.quantity = qty /\ ~(s.peak_qty > 0 /\ s.reserve_qty > 0)
      /\ has_order(book', id) =>
           /\ n.side = s.side /\ n.price = s.price /\ n.type = s.type
           /\ n.peak_qty = s.peak_qty /\ n.reserve_qty <= s.reserve_qty
           /\ n.quantity + n.reserve_qty = (s.quantity - qty) + s.reserve_qty
      /\ \A x : Absent(book, x) => Absent(book', x)

LEMMA FillEffect ==
  ASSUME Inv, Fill
  PROVE  \E id \in Ids, qty \in Nat : Fills(id, qty)
<1> DEFINE side      == Opposite(Top.order.side)
           aggressor == Top.order
<1>1. ~Idle /\ Top.working = <<>>
  BY DEF Fill, Matching
<1>2. /\ stack \in Seq(Frames) /\ stack # <<>> /\ Top = stack[1]
      /\ aggressor \in Orders /\ side \in Sides
      /\ aggressor.id \in Ids /\ aggressor.quantity \in Nat /\ aggressor.side \in Sides
  BY <1>1, TopType, OrderFields DEF Opposite, Sides
<1>3. /\ TypeOK /\ Sound(book) /\ Apart(book, pending_stops, stack)
      /\ pending_stops \in Seq(Orders)
  BY DEF Inv, TypeOK
<1>4. PICK price \in DOMAIN book.levels[side] :
        LET drained   == FrontDrained(book, side, price)
            id        == FrontId(book, side, price)
            standing  == book.id_map[id]
            fill_qty  == Lesser(aggressor.quantity, standing.quantity)
            passive   == [standing EXCEPT !.quantity = standing.quantity - fill_qty]
            resting   == AfterFill(drained, passive, fill_qty)
            left      == [aggressor EXCEPT !.quantity = aggressor.quantity - fill_qty]
            trade     == [aggressor_id |-> aggressor.id, passive_id |-> id,
                          price |-> standing.price, quantity |-> fill_qty,
                          aggressor_side |-> aggressor.side]
        IN  /\ book' = [resting EXCEPT !.last_trade_price = standing.price]
            /\ result' = [result EXCEPT !.trades = Append(result.trades, trade)]
            /\ ledger' = [ledger EXCEPT ![aggressor.id].filled = @ + fill_qty,
                                        ![id].filled = @ + fill_qty]
            /\ \/ /\ stack' = [stack EXCEPT ![1] =
                                 [order |-> left, working |-> pending_stops,
                                  last_price |-> standing.price]]
                  /\ pending_stops' = <<>>
               \/ /\ stack' = [stack EXCEPT ![1] = Activation(left)]
                  /\ pending_stops' = pending_stops
  BY DEF Fill
<1> DEFINE id        == FrontId(book, side, price)
           standing  == book.id_map[id]
           fill_qty  == Lesser(aggressor.quantity, standing.quantity)
           passive   == [standing EXCEPT !.quantity = standing.quantity - fill_qty]
           resting   == AfterFill(FrontDrained(book, side, price), passive, fill_qty)
           left      == [aggressor EXCEPT !.quantity = aggressor.quantity - fill_qty]
           trade     == [aggressor_id |-> aggressor.id, passive_id |-> id,
                         price |-> standing.price, quantity |-> fill_qty,
                         aggressor_side |-> aggressor.side]
           frame     == [order |-> left, working |-> pending_stops,
                         last_price |-> standing.price]
<1>5. HasLevel(book, side, price)
  BY DEF HasLevel
<1>6. has_order(book, id)
  <2>1. /\ Alive(book.levels[side][price]) = Located(book, side, price)
        /\ Proper(book.levels[side][price]) /\ Located(book, side, price) # {}
    BY <1>2, <1>3, <1>5, LevelType DEF Sound, LevelSound
  <2>2. id \in Located(book, side, price)
    BY <2>1, DrainAlive DEF FrontId
  <2> QED BY <2>2 DEF Located, has_order
<1>7. /\ standing \in Orders /\ id \in Ids /\ standing.quantity \in Nat
      /\ standing.price \in Prices
  BY <1>3, <1>6, OrderInBook, OrderFields DEF Sound
<1>8. /\ fill_qty \in Nat /\ fill_qty <= standing.quantity
      /\ fill_qty <= aggressor.quantity
  <2> HIDE DEF standing
  <2> QED BY <1>2, <1>7 DEF Lesser
<1> HIDE DEF id, standing
<1>9. left \in Orders
  <2>1. aggressor.quantity - fill_qty \in Nat
    BY <1>2, <1>8
  <2> HIDE DEF fill_qty, aggressor
  <2> QED BY <1>2, <2>1 DEF Orders
<1> HIDE DEF fill_qty
<1> DEFINE n == resting.id_map[id]
<1>10. /\ standing.id = id /\ standing.side = side
       /\ \A x : x # id => (has_order(resting, x) <=> has_order(book, x))
       /\ \A x : x # id /\ has_order(book, x) => resting.id_map[x] = book.id_map[x]
       /\ ~has_order(resting, id) =>
            /\ standing.quantity = fill_qty
            /\ ~(standing.peak_qty > 0 /\ standing.reserve_qty > 0)
       /\ has_order(resting, id) =>
            /\ n.side = side /\ n.price = standing.price /\ n.type = standing.type
            /\ n.peak_qty = standing.peak_qty /\ n.reserve_qty <= standing.reserve_qty
            /\ n.quantity + n.reserve_qty =
                 (standing.quantity - fill_qty) + standing.reserve_qty
  <2> DEFINE Others == /\ \A x : x # id => (has_order(resting, x) <=> has_order(book, x))
                       /\ \A x : x # id /\ has_order(book, x) => resting.id_map[x] = book.id_map[x]
             Gone == /\ standing.quantity = fill_qty
                     /\ ~(standing.peak_qty > 0 /\ standing.reserve_qty > 0)
             Stays == /\ n.side = side /\ n.price = price /\ n.type = standing.type
                      /\ n.peak_qty = standing.peak_qty /\ n.reserve_qty <= standing.reserve_qty
                      /\ n.quantity + n.reserve_qty =
                           (standing.quantity - fill_qty) + standing.reserve_qty
  <2>1. fill_qty <= book.id_map[FrontId(book, side, price)].quantity
    BY <1>8 DEF standing, id
  <2>2. /\ standing.id = id /\ standing.side = side /\ standing.price = price
        /\ Others /\ (~has_order(resting, id) => Gone) /\ (has_order(resting, id) => Stays)
    <3> HIDE DEF side
    <3> QED BY <1>2, <1>3, <1>5, <1>8, <2>1, FillOrders DEF standing, id
  <2> QED BY <2>2
<1>11. Sound(resting) /\ \A x : Absent(book, x) => Absent(resting, x)
  BY <1>2, <1>3, <1>5, <1>8, FillSound DEF standing, id
<1> HIDE DEF resting
<1>12. book'.id_map = resting.id_map
  <2>1. book' = [resting EXCEPT !.last_trade_price = standing.price]
    BY <1>4 DEF resting, fill_qty, standing, id
  <2>2. resting = [levels |-> resting.levels, id_map |-> resting.id_map,
                   last_trade_price |-> resting.last_trade_price]
    BY <1>11 DEF Sound, IsBook
  <2> QED BY <2>1, <2>2
<1>13. /\ \A x : x # id => (has_order(book', x) <=> has_order(book, x))
       /\ \A x : x # id /\ has_order(book, x) => book'.id_map[x] = book.id_map[x]
       /\ ~has_order(book', id) =>
            /\ standing.quantity = fill_qty
            /\ ~(standing.peak_qty > 0 /\ standing.reserve_qty > 0)
       /\ has_order(book', id) =>
            LET m == book'.id_map[id]
            IN  /\ m.side = standing.side /\ m.price = standing.price /\ m.type = standing.type
                /\ m.peak_qty = standing.peak_qty /\ m.reserve_qty <= standing.reserve_qty
                /\ m.quantity + m.reserve_qty =
                     (standing.quantity - fill_qty) + standing.reserve_qty
  BY <1>10, <1>12 DEF has_order
<1>14. /\ result' = [result EXCEPT !.trades = Append(result.trades, trade)]
       /\ ledger' = [ledger EXCEPT ![aggressor.id].filled = @ + fill_qty,
                                   ![id].filled = @ + fill_qty]
  BY <1>4 DEF fill_qty, standing, id
<1>15. \/ stack' = [stack EXCEPT ![1] = frame] /\ pending_stops' = <<>>
       \/ stack' = [stack EXCEPT ![1] = Activation(left)] /\ pending_stops' = pending_stops
  BY <1>4 DEF fill_qty, standing, id
<1>16. /\ WorkingIn(stack) = WorkingIn(Tail(stack))
       /\ Active(stack) = {aggressor} \cup Active(Tail(stack))
  BY <1>1, <1>2, StackParts, MembersEmpty
<1>17. /\ \A o \in Waiting(pending_stops, stack) \cup Active(Tail(stack)) :
            o.id # aggressor.id
       /\ aggressor.id # id
  <2>1. aggressor \in Active(stack)
    BY <1>16
  <2>2. \A o \in Waiting(pending_stops, stack) : o.id # aggressor.id
    BY <1>2, <1>3, <2>1, ApartSets
  <2>3. \A o \in Active(Tail(stack)) : o.id # aggressor.id
    BY <1>2, <1>3, ApartSets
  <2>4. Absent(book, aggressor.id)
    BY <1>2, <1>3, <2>1, ApartSets DEF Outside
  <2> QED BY <1>6, <2>2, <2>3, <2>4 DEF Absent
<1>18. /\ Waiting(pending_stops', stack') = Waiting(pending_stops, stack)
       /\ Active(stack') = Active(Tail(stack)) \cup {left}
  <2>1. CASE stack' = [stack EXCEPT ![1] = frame] /\ pending_stops' = <<>>
    <3>1. frame \in Frames /\ frame.order = left /\ frame.working = pending_stops
      <4> HIDE DEF left
      <4> QED BY <1>3, <1>7, <1>9 DEF Frames
    <3> HIDE DEF frame, left
    <3>2. stack' \in Seq(Frames) /\ stack' # <<>> /\ stack'[1] = frame /\ Tail(stack') = Tail(stack)
      BY <1>2, <2>1, <3>1, ReplaceTopTail
    <3>3. /\ WorkingIn(stack') = Members(pending_stops) \cup WorkingIn(Tail(stack))
          /\ Active(stack') = {left} \cup Active(Tail(stack))
      BY <3>1, <3>2, StackParts
    <3> QED BY <1>16, <2>1, <3>3, MembersEmpty DEF Waiting
  <2>2. CASE stack' = [stack EXCEPT ![1] = Activation(left)] /\ pending_stops' = pending_stops
    <3> DEFINE act == Activation(left)
    <3>1. act \in Frames /\ act.order = left /\ act.working = <<>>
      <4> HIDE DEF left
      <4> QED BY <1>9, ActivationType
    <3> HIDE DEF act, left
    <3>2. stack' \in Seq(Frames) /\ stack' # <<>> /\ stack'[1] = act /\ Tail(stack') = Tail(stack)
      BY <1>2, <2>2, <3>1, ReplaceTopTail DEF act
    <3>3. /\ WorkingIn(stack') = WorkingIn(Tail(stack))
          /\ Active(stack') = {left} \cup Active(Tail(stack))
      BY <3>1, <3>2, StackParts, MembersEmpty
    <3> QED BY <1>16, <2>2, <3>3 DEF Waiting
  <2> QED BY <1>15, <2>1, <2>2
<1>19. \A x : Absent(book, x) => Absent(book', x)
  <2>1. book' = [resting EXCEPT !.last_trade_price = standing.price]
    BY <1>4 DEF resting, fill_qty, standing, id
  <2> QED BY <1>7, <1>11, <2>1, TradePriceSound
<1>20. Fills(id, fill_qty)
  <2> HIDE DEF trade, left
  <2> QED BY <1>2, <1>6, <1>7, <1>8, <1>10, <1>13, <1>14, <1>16, <1>17, <1>18, <1>19
          DEF Fills, standing, trade, left
<1> QED BY <1>7, <1>8, <1>20

LEMMA TriggerEffect ==
  ASSUME Inv, TriggerStop
  PROVE  \E stop \in Waiting(pending_stops, stack) :
           /\ stop \in Orders /\ stop = Head(stack[1].working)
           /\ Waiting(pending_stops, stack) = Waiting(pending_stops', stack') \cup {stop}
           /\ \A o \in Waiting(pending_stops', stack') : o.id # stop.id
           /\ Active(stack') = Active(stack) \cup {Enter(stop).order}
           /\ book' = book /\ ledger' = ledger /\ result' = result
<1>1. /\ ~Idle /\ Top.working # <<>>
      /\ stack' = <<Enter(Head(Top.working))>> \o Advanced
      /\ UNCHANGED <<book, pending_stops, result, ledger, accepted>>
  BY DEF TriggerStop, Evaluating
<1>2. pending_stops \in Seq(Orders)
  BY DEF Inv, TypeOK
<1> DEFINE stop == Head(stack[1].working)
           rest == Tail(stack[1].working)
           fr   == [stack[1] EXCEPT !.working = rest]
<1>3. /\ stack \in Seq(Frames) /\ stack # <<>> /\ Top = stack[1]
      /\ stack[1] \in Frames /\ stack[1].working \in Seq(Orders)
      /\ Members(stack[1].working) = {stop} \cup Members(rest)
      /\ stop \in Orders /\ rest \in Seq(Orders) /\ stop = Head(stack[1].working)
  BY <1>1, TopType, MembersTail
<1>4. PICK o \in Orders : Enter(stop) = Activation(o) /\ o.id = stop.id
  BY <1>3, EnterType
<1> DEFINE act == Activation(o)
<1>5. act \in Frames /\ act.working = <<>> /\ act.order = o
  BY ActivationType
<1>6. stack' = <<act>> \o [stack EXCEPT ![1] = fr]
  BY <1>1, <1>3, <1>4 DEF Advanced
<1>7. fr \in Frames /\ fr.order = stack[1].order /\ fr.working = rest
  <2> HIDE DEF rest
  <2> QED BY <1>3 DEF Frames
<1>8. Inv'
  BY TriggerStopInv
<1> HIDE DEF act, fr, stop, rest
<1> DEFINE adv == [stack EXCEPT ![1] = fr]
<1>9. adv \in Seq(Frames) /\ adv # <<>> /\ adv[1] = fr /\ Tail(adv) = Tail(stack)
  BY <1>3, <1>7, ReplaceTopTail
<1> HIDE DEF adv
<1>10. stack' \in Seq(Frames) /\ stack' # <<>> /\ stack'[1] = act /\ Tail(stack') = adv
  BY <1>5, <1>6, <1>9, PushTail DEF adv
<1>11. /\ WorkingIn(stack') = WorkingIn(adv) /\ Active(stack') = {o} \cup Active(adv)
       /\ WorkingIn(adv) = Members(rest) \cup WorkingIn(Tail(stack))
       /\ Active(adv) = {stack[1].order} \cup Active(Tail(stack))
       /\ WorkingIn(stack) = {stop} \cup Members(rest) \cup WorkingIn(Tail(stack))
       /\ Active(stack) = {stack[1].order} \cup Active(Tail(stack))
  <2>1. /\ WorkingIn(stack') = Members(act.working) \cup WorkingIn(adv)
        /\ Active(stack') = {act.order} \cup Active(adv)
    BY <1>10, StackParts
  <2>2. WorkingIn(stack') = WorkingIn(adv) /\ Active(stack') = {o} \cup Active(adv)
    BY <1>5, <2>1, MembersEmpty
  <2>3. /\ WorkingIn(adv) = Members(rest) \cup WorkingIn(Tail(stack))
        /\ Active(adv) = {stack[1].order} \cup Active(Tail(stack))
    BY <1>7, <1>9, StackParts
  <2>4. /\ WorkingIn(stack) = Members(stack[1].working) \cup WorkingIn(Tail(stack))
        /\ Active(stack) = {stack[1].order} \cup Active(Tail(stack))
    BY <1>3, StackParts
  <2> QED BY <1>3, <2>2, <2>3, <2>4
<1>12. /\ Waiting(pending_stops, stack) = Waiting(pending_stops', stack') \cup {stop}
       /\ Active(stack') = Active(stack) \cup {Enter(stop).order}
  <2>1. Enter(stop).order = o
    BY <1>4, <1>5 DEF act
  <2> QED BY <1>1, <1>11, <2>1 DEF Waiting
<1>13. \A x \in Waiting(pending_stops', stack') : x.id # stop.id
  <2>1. /\ Apart(book', pending_stops', stack') /\ pending_stops' \in Seq(Orders)
        /\ stack' \in Seq(Frames)
    BY <1>8 DEF Inv, TypeOK
  <2>2. o \in Active(stack')
    BY <1>11
  <2> QED BY <2>1, <2>2, <1>4, ApartSets
<1> QED BY <1>1, <1>3, <1>12, <1>13

LEMMA KeepEffect ==
  ASSUME Inv, KeepStop
  PROVE  /\ Waiting(pending_stops', stack') = Waiting(pending_stops, stack)
         /\ Active(stack') = Active(stack)
         /\ book' = book /\ ledger' = ledger /\ result' = result
<1>1. /\ ~Idle /\ Top.working # <<>>
      /\ stack' = Advanced
      /\ pending_stops' = Append(pending_stops, Head(Top.working))
      /\ UNCHANGED <<book, result, ledger, stop_arrivals, accepted>>
  BY DEF KeepStop, Evaluating
<1>2. pending_stops \in Seq(Orders)
  BY DEF Inv, TypeOK
<1> DEFINE stop == Head(stack[1].working)
           rest == Tail(stack[1].working)
           fr   == [stack[1] EXCEPT !.working = rest]
<1>3. /\ stack \in Seq(Frames) /\ stack # <<>> /\ Top = stack[1]
      /\ stack[1] \in Frames /\ stack[1].working \in Seq(Orders)
      /\ Members(stack[1].working) = {stop} \cup Members(rest)
      /\ stop \in Orders /\ rest \in Seq(Orders)
  BY <1>1, TopType, MembersTail
<1>4. stack' = [stack EXCEPT ![1] = fr] /\ pending_stops' = Append(pending_stops, stop)
  BY <1>1, <1>3 DEF Advanced
<1>5. fr \in Frames /\ fr.order = stack[1].order /\ fr.working = rest
  <2> HIDE DEF rest
  <2> QED BY <1>3 DEF Frames
<1> HIDE DEF fr, stop, rest
<1>6. stack' \in Seq(Frames) /\ stack' # <<>> /\ stack'[1] = fr /\ Tail(stack') = Tail(stack)
  BY <1>3, <1>4, <1>5, ReplaceTopTail
<1>7. /\ WorkingIn(stack') = Members(rest) \cup WorkingIn(Tail(stack))
      /\ Active(stack') = {stack[1].order} \cup Active(Tail(stack))
      /\ WorkingIn(stack) = {stop} \cup Members(rest) \cup WorkingIn(Tail(stack))
      /\ Active(stack) = {stack[1].order} \cup Active(Tail(stack))
  BY <1>3, <1>5, <1>6, StackParts
<1>8. Members(pending_stops') = Members(pending_stops) \cup {stop}
  BY <1>2, <1>3, <1>4, MembersAppend
<1> QED BY <1>1, <1>7, <1>8 DEF Waiting

LEMMA FinishEffect ==
  ASSUME Inv, LoopEnded, stack' = Tail(stack), pending_stops' = pending_stops
  PROVE  /\ Waiting(pending_stops', stack') = Waiting(pending_stops, stack)
         /\ Active(stack) = Active(stack') \cup {Top.order}
         /\ Top.order \in Orders
         /\ \A o \in Waiting(pending_stops', stack') \cup Active(stack') : o.id # Top.order.id
         /\ Absent(book, Top.order.id)
<1>1. ~Idle /\ Top.working = <<>>
  BY DEF LoopEnded, Matching
<1>2. /\ stack \in Seq(Frames) /\ stack # <<>> /\ Top = stack[1] /\ Top.order \in Orders
      /\ pending_stops \in Seq(Orders) /\ Apart(book, pending_stops, stack)
  BY <1>1, TopType DEF Inv, TypeOK
<1>3. /\ WorkingIn(stack) = WorkingIn(Tail(stack))
      /\ Active(stack) = {Top.order} \cup Active(Tail(stack))
  BY <1>1, <1>2, StackParts, MembersEmpty
<1>4. \A o \in Waiting(pending_stops, stack) \cup Active(Tail(stack)) : o.id # Top.order.id
  BY <1>2, <1>3, ApartSets
<1>5. Absent(book, Top.order.id)
  BY <1>2, <1>3, ApartSets DEF Outside
<1> QED BY <1>2, <1>3, <1>4, <1>5 DEF Waiting

-----------------------------------------------------------------------------
(* Conservation of quantity. *)

(* Icebergs for which the peak is a part of the quantity.  The engine does *)
(* not check it: a peak of 0 leaves an order that shows nothing and is     *)
(* cancelled with its reserve by the first fill, and a peak larger than    *)
(* the quantity wraps the reserve (matching_engine.cpp:54).                *)
PeaksFit ==
  \A t \in NewOrders : t.type = "Iceberg" =>
    0 < t.peak_qty /\ t.peak_qty <= t.quantity /\ t.quantity < QtyMod

Open(order) == order.quantity + order.reserve_qty
Left(entry) == entry.orig - entry.filled - entry.gone
Entries == [Ids -> [orig : Int, filled : Nat, gone : Nat]]

(* A stop that waits has no reserve, only an iceberg being matched has     *)
(* one, and only an order with a peak rests with one.                      *)
Kinds(w, a, b) ==
  /\ \A o \in w : o.type \in StopTypes /\ o.reserve_qty = 0
  /\ \A o \in a : /\ o.type \notin StopTypes
                  /\ o.reserve_qty > 0 => o.type = "Iceberg" /\ o.peak_qty > 0
  /\ \A id : has_order(b, id) /\ b.id_map[id].reserve_qty > 0 => b.id_map[id].peak_qty > 0

(* What is open of an order, wherever it is, is what is left of it. *)
Balanced(out, b, entries) ==
  \A id \in Ids :
    /\ \A o \in out : o.id = id => Open(o) = Left(entries[id])
    /\ has_order(b, id) => Open(b.id_map[id]) = Left(entries[id])
    /\ ~has_order(b, id) /\ (\A o \in out : o.id # id) => Left(entries[id]) = 0

Conserved ==
  /\ Kinds(Waiting(pending_stops, stack), Active(stack), book)
  /\ Balanced(Outside(pending_stops, stack), book, ledger)

(* The order that enters the matching loop has the quantity of the order   *)
(* that was submitted, or of the stop that was triggered.                  *)
LEMMA EnterKind ==
  ASSUME NEW order \in Orders, order.reserve_qty = 0,
         order.type = "Iceberg" =>
           0 < order.peak_qty /\ order.peak_qty <= order.quantity /\ order.quantity < QtyMod
  PROVE  LET e == Enter(order).order
         IN  /\ e \in Orders /\ e.id = order.id /\ e.side = order.side
             /\ e.type \notin StopTypes
             /\ e.reserve_qty > 0 => e.type = "Iceberg" /\ e.peak_qty > 0
             /\ order.type # "Iceberg" => e.type # "Iceberg"
             /\ Open(e) = Open(order)
<1> DEFINE e == Enter(order).order
<1>1. order.quantity \in Nat /\ order.peak_qty \in Nat /\ order.type \in OrderTypes
  BY DEF Orders
<1>2. CASE order.type \in StopTypes
  <2>1. e = Converted(order)
    BY <1>2 DEF Enter, Activation, StopTypes
  <2>2. /\ e \in Orders /\ e.id = order.id /\ e.side = order.side /\ e.quantity = order.quantity
        /\ e.reserve_qty = 0 /\ e.type \in {"Market", "Limit"}
    <3> HIDE DEF e
    <3> QED BY <2>1, PricesAssumption DEF Converted, Orders, OrderTypes
  <2> HIDE DEF e
  <2>3. /\ e.type \notin StopTypes /\ e.type # "Iceberg" /\ Open(e) = Open(order)
    BY <2>2 DEF Open, StopTypes
  <2> QED BY <2>2, <2>3 DEF e
<1>3. CASE order.type = "Iceberg"
  <2>1. e = SplitIceberg(order)
    BY <1>3 DEF Enter, Activation, StopTypes
  <2>2. (order.quantity - order.peak_qty) % QtyMod = order.quantity - order.peak_qty
    <3>1. \A n, m \in Nat : n < m => n % m = n
      OBVIOUS
    <3>2. order.quantity - order.peak_qty \in Nat /\ order.quantity - order.peak_qty < QtyMod
      BY <1>1, <1>3, QtyModAssumption
    <3> QED BY <3>1, <3>2, QtyModAssumption
  <2>3. e = [order EXCEPT !.reserve_qty = order.quantity - order.peak_qty,
                          !.quantity = order.peak_qty]
    BY <2>1, <2>2 DEF SplitIceberg
  <2>4. order.quantity - order.peak_qty \in Nat
    BY <1>1, <1>3
  <2> HIDE DEF e
  <2>5. /\ e \in Orders /\ e.id = order.id /\ e.side = order.side /\ e.type = "Iceberg"
        /\ e.quantity = order.peak_qty /\ e.peak_qty = order.peak_qty
        /\ e.reserve_qty = order.quantity - order.peak_qty
    BY <1>3, <2>3, <2>4 DEF Orders
  <2>6. Open(e) = Open(order) /\ e.peak_qty > 0
    BY <1>1, <1>3, <2>5 DEF Open
  <2> QED BY <1>3, <2>5, <2>6 DEF e, StopTypes
<1>4. CASE order.type \notin StopTypes /\ order.type # "Iceberg"
  <2>1. e = order
    BY <1>4 DEF Enter, Activation
  <2> QED BY <1>4, <2>1
<1> QED BY <1>2, <1>3, <1>4

LEMMA LedgerFacts ==
  ASSUME NEW entries \in Entries, NEW order \in Orders, NEW x \in Ids, NEW delta \in Int
  PROVE  /\ Left(Opened(entries, order)[order.id]) = order.quantity
         /\ x # order.id => Opened(entries, order)[x] = entries[x]
         /\ Left(Withdrawn(entries, order)[order.id]) = Left(entries[order.id]) - Open(order)
         /\ x # order.id => Withdrawn(entries, order)[x] = entries[x]
         /\ Left(Resized(entries, x, delta)[x]) = Left(entries[x]) + delta
         /\ \A y \in Ids : y # x => Resized(entries, x, delta)[y] = entries[y]
         /\ Opened(entries, order) \in Entries /\ Withdrawn(entries, order) \in Entries
<1> DEFINE E == [orig : Int, filled : Nat, gone : Nat]
           id == order.id
<1>1. id \in Ids /\ order.quantity \in Nat /\ order.reserve_qty \in Nat
  BY OrderFields
<1>2. entries[id] \in E /\ entries[x] \in E
  BY <1>1 DEF Entries
<1>3. /\ Opened(entries, order)[id] = [NoEntry EXCEPT !.orig = order.quantity]
      /\ x # id => Opened(entries, order)[x] = entries[x]
  BY <1>1 DEF Opened, Entries
<1>4. Left(Opened(entries, order)[id]) = order.quantity
  BY <1>1, <1>3 DEF NoEntry, Left
<1>5. /\ Withdrawn(entries, order)[id] =
           [entries[id] EXCEPT !.gone = @ + order.quantity + order.reserve_qty]
      /\ x # id => Withdrawn(entries, order)[x] = entries[x]
  BY <1>1 DEF Withdrawn, Entries
<1>6. Left(Withdrawn(entries, order)[id]) = Left(entries[id]) - Open(order)
  BY <1>1, <1>2, <1>5 DEF Left, Open
<1>7. /\ Resized(entries, x, delta)[x] = [entries[x] EXCEPT !.orig = @ + delta]
      /\ \A y \in Ids : y # x => Resized(entries, x, delta)[y] = entries[y]
  BY DEF Resized, Entries
<1>8. Left(Resized(entries, x, delta)[x]) = Left(entries[x]) + delta
  BY <1>2, <1>7 DEF Left
<1>9. Opened(entries, order) \in Entries /\ Withdrawn(entries, order) \in Entries
  BY LedgerTypes DEF Entries
<1> QED BY <1>3, <1>4, <1>5, <1>6, <1>7, <1>8, <1>9

(* What Fill does to the two entries. *)
Credited(entries, a, p, qty) ==
  [entries EXCEPT ![a].filled = @ + qty, ![p].filled = @ + qty]

LEMMA FilledFacts ==
  ASSUME NEW entries \in Entries, NEW a \in Ids, NEW p \in Ids, a # p, NEW qty \in Nat
  PROVE  /\ Left(Credited(entries, a, p, qty)[a]) = Left(entries[a]) - qty
         /\ Left(Credited(entries, a, p, qty)[p]) = Left(entries[p]) - qty
         /\ \A x \in Ids : x # a /\ x # p => Credited(entries, a, p, qty)[x] = entries[x]
<1> DEFINE E == [orig : Int, filled : Nat, gone : Nat]
           new == Credited(entries, a, p, qty)
<1>1. entries[a] \in E /\ entries[p] \in E
  BY DEF Entries
<1>2. /\ new[a] = [entries[a] EXCEPT !.filled = @ + qty]
      /\ new[p] = [entries[p] EXCEPT !.filled = @ + qty]
      /\ \A x \in Ids : x # a /\ x # p => new[x] = entries[x]
  BY DEF Entries, Credited
<1> HIDE DEF new
<1>3. Left(new[a]) = Left(entries[a]) - qty /\ Left(new[p]) = Left(entries[p]) - qty
  BY <1>1, <1>2 DEF Left
<1> QED BY <1>2, <1>3 DEF new

LEMMA LeftType ==
  ASSUME NEW entries \in Entries, NEW id \in Ids
  PROVE  Left(entries[id]) \in Int
<1>1. entries[id] \in [orig : Int, filled : Nat, gone : Nat]
  BY DEF Entries
<1> QED BY <1>1 DEF Left

(* How the balance is kept when an order enters, leaves, or is resized. *)
LEMMA BalanceEnters ==
  ASSUME NEW out, NEW b, NEW entries \in Entries, Balanced(out, b, entries),
         NEW order \in Orders, order.reserve_qty = 0, ~has_order(b, order.id),
         \A o \in out : o.id # order.id,
         NEW e, e.id = order.id, Open(e) = Open(order)
  PROVE  Balanced(out \cup {e}, b, Opened(entries, order))
<1> DEFINE new == Opened(entries, order)
<1>1. /\ Left(new[order.id]) = order.quantity
      /\ \A x \in Ids : x # order.id => new[x] = entries[x]
  BY LedgerFacts, OrderFields DEF Entries
<1>2. Open(e) = order.quantity
  BY OrderFields DEF Open
<1> HIDE DEF new
<1>3. ASSUME NEW id \in Ids
      PROVE  /\ \A o \in out \cup {e} : o.id = id => Open(o) = Left(new[id])
             /\ has_order(b, id) => Open(b.id_map[id]) = Left(new[id])
             /\ ~has_order(b, id) /\ (\A o \in out \cup {e} : o.id # id) => Left(new[id]) = 0
  <2>1. CASE id = order.id
    BY <1>1, <1>2, <2>1
  <2>2. CASE id # order.id
    BY <1>1, <2>2 DEF Balanced
  <2> QED BY <2>1, <2>2
<1> QED BY <1>3 DEF Balanced, new

LEMMA BalanceLeaves ==
  ASSUME NEW out, NEW b, NEW entries \in Entries, NEW order \in Orders,
         Balanced(out \cup {order}, b, entries), ~has_order(b, order.id),
         \A o \in out : o.id # order.id
  PROVE  Balanced(out, b, Withdrawn(entries, order))
<1> DEFINE new == Withdrawn(entries, order)
<1>1. /\ Left(new[order.id]) = Left(entries[order.id]) - Open(order)
      /\ \A x \in Ids : x # order.id => new[x] = entries[x]
      /\ order.id \in Ids
  <2>1. order.id \in Ids /\ 0 \in Int
    BY OrderFields
  <2> QED BY <2>1, LedgerFacts
<1>2. Left(new[order.id]) = 0
  <2>1. Open(order) = Left(entries[order.id])
    BY <1>1 DEF Balanced
  <2>2. Open(order) \in Int
    BY OrderFields DEF Open
  <2> QED BY <1>1, <2>1, <2>2
<1> HIDE DEF new
<1>3. ASSUME NEW id \in Ids
      PROVE  /\ \A o \in out : o.id = id => Open(o) = Left(new[id])
             /\ has_order(b, id) => Open(b.id_map[id]) = Left(new[id])
             /\ ~has_order(b, id) /\ (\A o \in out : o.id # id) => Left(new[id]) = 0
  <2>1. CASE id = order.id
    BY <1>2, <2>1
  <2>2. CASE id # order.id
    BY <1>1, <2>2 DEF Balanced
  <2> QED BY <2>1, <2>2
<1> QED BY <1>3 DEF Balanced, new

LEMMA BalanceCancels ==
  ASSUME NEW out, NEW b, Sound(b), NEW entries \in Entries, Balanced(out, b, entries),
         NEW id, has_order(b, id), \A o \in out : o.id # id
  PROVE  Balanced(out, cancel_order(b, id), Withdrawn(entries, b.id_map[id]))
<1> DEFINE order == b.id_map[id]
           c == cancel_order(b, id)
<1>1. order \in Orders /\ order.id = id /\ id \in Ids
  BY OrderInBook DEF Sound, has_order
<1>2. /\ \A x : has_order(c, x) <=> has_order(b, x) /\ x # id
      /\ \A x : has_order(c, x) => c.id_map[x] = b.id_map[x]
  BY CancelOrders
<1>3. Open(order) = Left(entries[id])
  BY <1>1 DEF Balanced
<1> HIDE DEF order, c
<1>4. Balanced(out \cup {order}, c, entries)
  <2> SUFFICES ASSUME NEW x \in Ids
      PROVE  /\ \A o \in out \cup {order} : o.id = x => Open(o) = Left(entries[x])
             /\ has_order(c, x) => Open(c.id_map[x]) = Left(entries[x])
             /\ ~has_order(c, x) /\ (\A o \in out \cup {order} : o.id # x) => Left(entries[x]) = 0
    BY DEF Balanced
  <2>1. CASE x = id
    BY <1>1, <1>2, <1>3, <2>1
  <2>2. CASE x # id
    BY <1>1, <1>2, <2>2 DEF Balanced
  <2> QED BY <2>1, <2>2
<1>5. ~has_order(c, order.id) /\ \A o \in out : o.id # order.id
  BY <1>1, <1>2
<1>6. Balanced(out, c, Withdrawn(entries, order))
  BY <1>1, <1>4, <1>5, BalanceLeaves
<1> QED BY <1>6 DEF order, c

LEMMA BalanceResizes ==
  ASSUME NEW out, NEW b, NEW c, NEW entries \in Entries, Balanced(out, b, entries),
         NEW id \in Ids, has_order(b, id), b.id_map[id] \in Orders, \A o \in out : o.id # id,
         NEW moved \in Orders, moved.reserve_qty = b.id_map[id].reserve_qty,
         \A x : has_order(c, x) <=> has_order(b, x), c.id_map[id] = moved,
         \A x : has_order(b, x) /\ x # id => c.id_map[x] = b.id_map[x]
  PROVE  Balanced(out, c, Resized(entries, id, moved.quantity - b.id_map[id].quantity))
<1> DEFINE order == b.id_map[id]
           delta == moved.quantity - order.quantity
           new == Resized(entries, id, delta)
<1>1. /\ delta \in Int /\ Open(order) \in Int /\ Open(moved) = Open(order) + delta
  BY OrderFields DEF Open
<1>2. /\ Left(new[id]) = Left(entries[id]) + delta
      /\ \A x \in Ids : x # id => new[x] = entries[x]
  <2> HIDE DEF delta
  <2> QED BY <1>1, LedgerFacts DEF Entries
<1>3. Open(order) = Left(entries[id])
  BY DEF Balanced
<1> HIDE DEF new, delta, order
<1>4. ASSUME NEW x \in Ids
      PROVE  /\ \A o \in out : o.id = x => Open(o) = Left(new[x])
             /\ has_order(c, x) => Open(c.id_map[x]) = Left(new[x])
             /\ ~has_order(c, x) /\ (\A o \in out : o.id # x) => Left(new[x]) = 0
  <2>1. CASE x = id
    BY <1>1, <1>2, <1>3, <2>1
  <2>2. CASE x # id
    BY <1>2, <2>2 DEF Balanced
  <2> QED BY <2>1, <2>2
<1> QED BY <1>4 DEF Balanced, new, delta, order

-----------------------------------------------------------------------------
(* The actions conserve quantity. *)
LEMMA NewOrderKind ==
  ASSUME PeaksFit, NEW t \in NewOrders, NEW id \in Ids
  PROVE  LET order == WithId(t, id)
         IN  /\ order \in Orders /\ order.id = id /\ order.reserve_qty = 0
             /\ order.type = "Iceberg" => /\ 0 < order.peak_qty
                                          /\ order.peak_qty <= order.quantity
                                          /\ order.quantity < QtyMod
  BY WithIdType DEF WithId, PeaksFit

LEMMA NewConserves ==
  ASSUME Inv, Idle, "ids" \in Discipline, PeaksFit, NEW b, NEW entries \in Entries,
         Kinds(Waiting(pending_stops, stack), Active(stack), b),
         Balanced(Outside(pending_stops, stack), b, entries),
         NEW t \in NewOrders, NEW id \in Ids, process_new_order(b, WithId(t, id)),
         ledger' = Opened(entries, WithId(t, id))
  PROVE  Conserved'
<1> DEFINE order == WithId(t, id)
           w == Waiting(pending_stops, stack)
           e == Enter(order).order
<1>1. /\ order \in Orders /\ order.id = id /\ order.reserve_qty = 0
      /\ order.type = "Iceberg" => /\ 0 < order.peak_qty
                                   /\ order.peak_qty <= order.quantity
                                   /\ order.quantity < QtyMod
  BY NewOrderKind
<1> HIDE DEF order
<1>2. /\ e.id = id /\ Open(e) = Open(order) /\ e.type \notin StopTypes
      /\ e.reserve_qty > 0 => e.type = "Iceberg" /\ e.peak_qty > 0
  BY <1>1, EnterKind
<1>3. book' = b /\ ledger' = Opened(entries, order)
  BY DEF process_new_order, order
<1>4. ~has_order(b, id) /\ \A o \in w : o.id # id
  <2>1. Absent(b, id) /\ \A i \in 1..Len(pending_stops) : pending_stops[i].id # id
    BY <1>1, CleanIsAbsent DEF process_new_order, order
  <2>2. w = Members(pending_stops)
    BY MembersEmpty DEF Waiting, Idle
  <2> QED BY <2>1, <2>2 DEF Absent, Members
<1>5. /\ Active(stack) = {}
      /\ \/ /\ Waits(b, order)
            /\ Waiting(pending_stops', stack') = w \cup {order}
            /\ Active(stack') = {}
         \/ /\ ~Waits(b, order)
            /\ Waiting(pending_stops', stack') = w
            /\ Active(stack') = {e}
  BY <1>1, NewEffect DEF order
<1> HIDE DEF e, w
<1>6. Outside(pending_stops, stack) = w
  BY <1>5 DEF Outside, w
<1>7. CASE Waits(b, order)
  <2>1. Waiting(pending_stops', stack') = w \cup {order} /\ Active(stack') = {}
    BY <1>5, <1>7
  <2>2. Balanced(w \cup {order}, b, Opened(entries, order))
    BY <1>1, <1>4, <1>6, BalanceEnters
  <2>3. Kinds(w \cup {order}, {}, b)
    BY <1>1, <1>7 DEF Kinds, Waits, w
  <2> QED BY <1>3, <2>1, <2>2, <2>3 DEF Conserved, Outside
<1>8. CASE ~Waits(b, order)
  <2>1. Waiting(pending_stops', stack') = w /\ Active(stack') = {e}
    BY <1>5, <1>8
  <2>2. Balanced(w \cup {e}, b, Opened(entries, order))
    BY <1>1, <1>2, <1>4, <1>6, BalanceEnters
  <2>3. Kinds(w, {e}, b)
    BY <1>2 DEF Kinds, w
  <2> QED BY <1>3, <2>1, <2>2, <2>3 DEF Conserved, Outside
<1> QED BY <1>7, <1>8

(* The book of a Sound state, and what is outside it, share no id. *)
LEMMA OutsideUnknown ==
  ASSUME Inv, NEW id, has_order(book, id)
  PROVE  /\ \A o \in Outside(pending_stops, stack) : o.id # id
         /\ book.id_map[id] \in Orders /\ book.id_map[id].id = id /\ id \in Ids
         /\ ledger \in Entries
<1>1. /\ pending_stops \in Seq(Orders) /\ stack \in Seq(Frames) /\ Sound(book)
      /\ Apart(book, pending_stops, stack) /\ ledger \in Entries
  BY DEF Inv, TypeOK, Entries
<1>2. \A o \in Outside(pending_stops, stack) : o.id # id
  <2>1. \A o \in Outside(pending_stops, stack) : Absent(book, o.id)
    BY <1>1, ApartSets
  <2> QED BY <2>1 DEF Absent
<1>3. book.id_map[id] \in Orders /\ book.id_map[id].id = id /\ id \in Ids
  BY <1>1, OrderInBook DEF Sound, has_order
<1> QED BY <1>1, <1>2, <1>3

LEMMA CancelKinds ==
  ASSUME NEW w, NEW a, NEW b, Sound(b), Kinds(w, a, b), NEW id, has_order(b, id)
  PROVE  Kinds(w, a, cancel_order(b, id))
<1> DEFINE c == cancel_order(b, id)
<1>1. /\ \A x : has_order(c, x) <=> has_order(b, x) /\ x # id
      /\ \A x : has_order(c, x) => c.id_map[x] = b.id_map[x]
  BY CancelOrders
<1> HIDE DEF c
<1>2. Kinds(w, a, c)
  BY <1>1 DEF Kinds
<1> QED BY <1>2 DEF c

LEMMA SubmitConserves ==
  ASSUME "ids" \in Discipline, PeaksFit, Inv, Conserved, Submit
  PROVE  Conserved'
<1>0. "ids" \in Discipline /\ ledger \in Entries /\ Sound(book)
  BY DEF Inv, TypeOK, Entries
<1>1. ASSUME NEW id \in Ids, NEW t \in NewOrders, SubmitNew(WithId(t, id)) PROVE Conserved'
  BY <1>0, <1>1, NewConserves DEF SubmitNew, Conserved
<1>2. ASSUME NEW id \in Ids, CancelPending(id) PROVE Conserved'
  <2> DEFINE w == Waiting(pending_stops, stack)
             v == Waiting(pending_stops', stack')
  <2>1. Active(stack) = {} /\ Active(stack') = {} /\ book' = book
    BY <1>2, CancelPendingEffect
  <2>2. PICK stop \in w : /\ stop.id = id /\ stop \in Orders
                          /\ ledger' = Withdrawn(ledger, stop)
                          /\ w = v \cup {stop}
                          /\ \A o \in v : o.id # id
    BY <1>2, CancelPendingEffect
  <2>3. ~has_order(book, id)
    <3>1. stop \in Outside(pending_stops, stack)
      BY DEF Outside
    <3> QED BY <2>2, <3>1, OutsideUnknown
  <2> HIDE DEF w, v
  <2>4. Kinds(w, {}, book) /\ Balanced(w, book, ledger)
    BY <2>1 DEF Conserved, Outside, w
  <2>5. Kinds(v, {}, book) /\ Balanced(v, book, ledger')
    <3>1. Balanced(v, book, Withdrawn(ledger, stop))
      BY <1>0, <2>2, <2>3, <2>4, BalanceLeaves
    <3> QED BY <2>2, <2>4, <3>1 DEF Kinds
  <2> QED BY <2>1, <2>5 DEF Conserved, Outside, v
<1>3. ASSUME NEW id \in Ids, CancelResting(id) PROVE Conserved'
  <2>1. /\ has_order(book, id) /\ book' = cancel_order(book, id)
        /\ ledger' = Withdrawn(ledger, book.id_map[id])
        /\ UNCHANGED <<pending_stops, stack>>
    BY <1>3 DEF CancelResting
  <2>2. \A o \in Outside(pending_stops, stack) : o.id # id
    BY <2>1, OutsideUnknown
  <2>3. Kinds(Waiting(pending_stops, stack), Active(stack), book')
    BY <1>0, <2>1, CancelKinds DEF Conserved
  <2>4. Balanced(Outside(pending_stops, stack), book', ledger')
    BY <1>0, <2>1, <2>2, BalanceCancels DEF Conserved
  <2> QED BY <2>1, <2>3, <2>4 DEF Conserved
<1>4. ASSUME NEW id \in Ids, CancelUnknown(id) PROVE Conserved'
  BY <1>4 DEF CancelUnknown, Reject, Conserved
<1> QED BY <1>1, <1>2, <1>3, <1>4 DEF Submit

LEMMA AmendConserves ==
  ASSUME {"ids", "requeues"} \subseteq Discipline, PeaksFit, Inv, Conserved, Amend
  PROVE  Conserved'
<1>0. "ids" \in Discipline /\ ledger \in Entries /\ Sound(book)
  BY DEF Inv, TypeOK, Entries
<1> DEFINE w == Waiting(pending_stops, stack)
           a == Active(stack)
           out == Outside(pending_stops, stack)
(* An order changed in id_map_, with its reserve and its peak. *)
<1>1. ASSUME NEW id \in Ids, has_order(book, id), NEW moved \in Orders,
             moved.reserve_qty = book.id_map[id].reserve_qty,
             moved.peak_qty = book.id_map[id].peak_qty,
             \A x : has_order(book', x) <=> has_order(book, x),
             book'.id_map[id] = moved,
             \A x : has_order(book, x) /\ x # id => book'.id_map[x] = book.id_map[x],
             ledger' = Resized(ledger, id, moved.quantity - book.id_map[id].quantity),
             UNCHANGED <<pending_stops, stack>>
      PROVE  Conserved'
  <2>1. (\A o \in out : o.id # id) /\ book.id_map[id] \in Orders
    BY <1>1, OutsideUnknown
  <2> HIDE DEF w, a, out
  <2>2. Balanced(out, book, ledger) /\ Kinds(w, a, book)
    BY DEF Conserved, w, a, out
  <2>3. Balanced(out, book', ledger')
    BY <1>0, <1>1, <2>1, <2>2, BalanceResizes
  <2>4. Kinds(w, a, book')
    BY <1>1, <2>2 DEF Kinds
  <2> QED BY <1>1, <2>3, <2>4 DEF Conserved, w, a, out
<1>2. ASSUME NEW id \in Ids, NEW m \in Amendments, has_order(book, id)
      PROVE  LET order == book.id_map[id]
                 moved == Amended(order, m)
             IN  /\ order \in Orders /\ order.id = id
                 /\ moved \in Orders /\ moved.id = id /\ moved.side = order.side
                 /\ moved.reserve_qty = order.reserve_qty /\ moved.peak_qty = order.peak_qty
  <2> DEFINE order == book.id_map[id]
  <2>1. order \in Orders /\ order.id = id
    BY <1>2, OutsideUnknown
  <2> HIDE DEF order
  <2>2. Amended(order, m) \in Orders /\ Amended(order, m).id = id
        /\ Amended(order, m).side = order.side
    BY <2>1, AmendedType
  <2>3. /\ Amended(order, m).reserve_qty = order.reserve_qty
        /\ Amended(order, m).peak_qty = order.peak_qty
    BY <2>1 DEF Amended, Orders
  <2> QED BY <2>1, <2>2, <2>3 DEF order
<1>3. ASSUME NEW id \in Ids, NEW m \in Amendments, ModifyRequeue(id, m) PROVE Conserved'
  <2> DEFINE order == book.id_map[id]
             moved == Amended(order, m)
             left  == cancel_order(book, id)
  <2>1. /\ has_order(book, id)
        /\ book' = insert_order(left, moved)
        /\ ledger' = Resized(ledger, id, moved.quantity - order.quantity)
        /\ UNCHANGED <<pending_stops, stack>>
    BY <1>3 DEF ModifyRequeue
  <2>2. /\ moved \in Orders /\ moved.id = id
        /\ moved.reserve_qty = order.reserve_qty /\ moved.peak_qty = order.peak_qty
    BY <1>2, <2>1
  <2> HIDE DEF moved, order
  <2>3. Sound(left) /\ \A x : has_order(left, x) <=> has_order(book, x) /\ x # id
    BY <1>0, <2>1, CancelSound, CancelOrders
  <2>4. \A x : has_order(left, x) => left.id_map[x] = book.id_map[x]
    BY <1>0, <2>1, CancelOrders
  <2> HIDE DEF left
  <2>5. /\ \A x : has_order(book', x) <=> has_order(left, x) \/ x = moved.id
        /\ book'.id_map[moved.id] = moved
        /\ \A x : has_order(left, x) /\ x # moved.id => book'.id_map[x] = left.id_map[x]
    BY <2>1, <2>3, InsertOrders
  <2>6. /\ \A x : has_order(book', x) <=> has_order(book, x)
        /\ book'.id_map[id] = moved
        /\ \A x : has_order(book, x) /\ x # id => book'.id_map[x] = book.id_map[x]
    BY <2>1, <2>2, <2>3, <2>4, <2>5
  <2> QED BY <1>1, <2>1, <2>2, <2>6 DEF order
<1>4. ASSUME NEW id \in Ids, NEW m \in Amendments, ModifyInPlace(id, m) PROVE Conserved'
  <2> DEFINE order == book.id_map[id]
             moved == Amended(order, m)
             delta == order.quantity - moved.quantity
             set   == update_order(book, moved)
  <2>1. /\ has_order(book, id)
        /\ book' = reduce_level_volume(set, order.side, order.price, delta)
        /\ ledger' = Resized(ledger, id, -delta)
        /\ UNCHANGED <<pending_stops, stack>>
    BY <1>4 DEF ModifyInPlace
  <2>2. /\ order \in Orders /\ moved \in Orders /\ moved.id = id
        /\ moved.reserve_qty = order.reserve_qty /\ moved.peak_qty = order.peak_qty
    BY <1>2, <2>1
  <2>3. /\ \A x : has_order(set, x) <=> has_order(book, x)
        /\ set.id_map[id] = moved
        /\ \A x : has_order(book, x) /\ x # id => set.id_map[x] = book.id_map[x]
    BY <1>0, <2>1, <2>2, UpdateOrders
  <2>4. book'.id_map = set.id_map
    <3> DEFINE new(l) == [set.levels EXCEPT ![order.side] =
                            Put(set.levels[order.side], order.price, l)]
    <3>1. set = [levels |-> set.levels, id_map |-> set.id_map,
                 last_trade_price |-> set.last_trade_price]
      BY <1>0 DEF Sound, IsBook, update_order
    <3> HIDE DEF set
    <3>2. \/ book' = set
          \/ \E l : book' = [set EXCEPT !.levels = new(l)]
      BY <2>1 DEF reduce_level_volume, SetLevel
    <3> HIDE DEF new
    <3> QED BY <3>1, <3>2
  <2> HIDE DEF set
  <2>5. -delta = moved.quantity - order.quantity
    BY <2>2, OrderFields
  <2> HIDE DEF moved, order, delta
  <2>6. /\ \A x : has_order(book', x) <=> has_order(book, x)
        /\ book'.id_map[id] = moved
        /\ \A x : has_order(book, x) /\ x # id => book'.id_map[x] = book.id_map[x]
    BY <2>3, <2>4 DEF has_order
  <2> QED BY <1>1, <2>1, <2>2, <2>5, <2>6 DEF order
<1>5. ASSUME NEW old \in Ids, NEW id \in Ids, NEW t \in NewOrders,
             ReplaceOrder(old, WithId(t, id))
      PROVE  Conserved'
  <2> DEFINE b == cancel_order(book, old)
             entries == Withdrawn(ledger, book.id_map[old])
  <2>1. /\ Idle /\ has_order(book, old)
        /\ process_new_order(b, WithId(t, id))
        /\ ledger' = Opened(entries, WithId(t, id))
    BY <1>5 DEF ReplaceOrder
  <2>2. (\A o \in out : o.id # old) /\ book.id_map[old] \in Orders
    BY <2>1, OutsideUnknown
  <2>3. Kinds(w, a, b) /\ Balanced(out, b, entries)
    BY <1>0, <2>1, <2>2, CancelKinds, BalanceCancels DEF Conserved
  <2>4. entries \in Entries
    BY <1>0, <2>2, LedgerTypes DEF Entries
  <2> HIDE DEF b, entries
  <2> QED BY <1>0, <2>1, <2>3, <2>4, NewConserves
<1>6. ASSUME NEW id \in Ids, ModifyUnknown(id) \/ ReplaceUnknown(id) PROVE Conserved'
  BY <1>6 DEF ModifyUnknown, ReplaceUnknown, Reject, Conserved
<1> QED BY <1>3, <1>4, <1>5, <1>6 DEF Amend

LEMMA FillConserves ==
  ASSUME Inv, Conserved, Fill
  PROVE  Conserved'
<1>1. PICK p \in Ids, qty \in Nat : Fills(p, qty)
  BY FillEffect
<1> DEFINE a    == Top.order
           s    == book.id_map[p]
           left == [a EXCEPT !.quantity = a.quantity - qty]
           n    == book'.id_map[p]
           w    == Waiting(pending_stops, stack)
           rest == Active(Tail(stack))
<1>2. /\ a \in Orders /\ a \in Active(stack) /\ a.id # p
      /\ has_order(book, p) /\ s \in Orders /\ s.id = p
      /\ qty <= a.quantity /\ qty <= s.quantity
      /\ ledger' = [ledger EXCEPT ![a.id].filled = @ + qty, ![p].filled = @ + qty]
      /\ Waiting(pending_stops', stack') = w
      /\ Active(stack') = rest \cup {left}
      /\ Active(stack) = rest \cup {a}
      /\ \A o \in w \cup rest : o.id # a.id
  BY <1>1 DEF Fills
<1>3. /\ \A x : x # p => (has_order(book', x) <=> has_order(book, x))
      /\ \A x : x # p /\ has_order(book, x) => book'.id_map[x] = book.id_map[x]
      /\ ~has_order(book', p) => s.quantity = qty /\ ~(s.peak_qty > 0 /\ s.reserve_qty > 0)
      /\ has_order(book', p) =>
           /\ n.peak_qty = s.peak_qty /\ n.reserve_qty <= s.reserve_qty
           /\ n.quantity + n.reserve_qty = (s.quantity - qty) + s.reserve_qty
  BY <1>1 DEF Fills
<1>4. /\ a.id \in Ids /\ a.quantity \in Nat /\ a.reserve_qty \in Nat
      /\ s.quantity \in Nat /\ s.reserve_qty \in Nat
  BY <1>2, OrderFields
<1>5. /\ left.id = a.id /\ left.type = a.type /\ left.reserve_qty = a.reserve_qty
      /\ left.peak_qty = a.peak_qty /\ left.quantity = a.quantity - qty
  BY <1>2 DEF Orders
<1>6. ledger \in Entries /\ (\A o \in w \cup rest \cup {a} : o.id # p) /\ ~has_order(book, a.id)
  <2>1. Outside(pending_stops, stack) = w \cup rest \cup {a}
    BY <1>2 DEF Outside
  <2>2. ledger \in Entries /\ \A o \in w \cup rest \cup {a} : o.id # p
    BY <1>2, <2>1, OutsideUnknown
  <2>3. ~has_order(book, a.id)
    BY <2>1, OutsideUnknown
  <2> QED BY <2>2, <2>3
<1>7. /\ Left(ledger'[a.id]) = Left(ledger[a.id]) - qty
      /\ Left(ledger'[p]) = Left(ledger[p]) - qty
      /\ \A x \in Ids : x # a.id /\ x # p => ledger'[x] = ledger[x]
  <2>1. ledger' = Credited(ledger, a.id, p, qty)
    BY <1>2 DEF Credited
  <2> HIDE DEF a
  <2>2. a.id \in Ids /\ a.id # p /\ ledger \in Entries
    BY <1>2, <1>4, <1>6
  <2> QED BY <2>1, <2>2, FilledFacts
<1> HIDE DEF w, rest, left, n, s, a
<1>8. Kinds(w, rest \cup {a}, book) /\ Balanced(w \cup rest \cup {a}, book, ledger)
  BY <1>2 DEF Conserved, Outside, w
<1>9. Kinds(w, rest \cup {left}, book')
  <2>1. \A o \in rest \cup {left} :
          /\ o.type \notin StopTypes
          /\ o.reserve_qty > 0 => o.type = "Iceberg" /\ o.peak_qty > 0
    BY <1>5, <1>8 DEF Kinds
  <2>2. ASSUME NEW x, has_order(book', x), book'.id_map[x].reserve_qty > 0
        PROVE  book'.id_map[x].peak_qty > 0
    <3>1. CASE x = p
      <4>1. n.reserve_qty > 0 /\ n.peak_qty = s.peak_qty /\ n.reserve_qty <= s.reserve_qty
        BY <1>3, <2>2, <3>1 DEF n
      <4>2. n.reserve_qty \in Nat
        <5>1. Inv'
          BY FillInv
        <5>2. n \in Orders
          BY <2>2, <3>1, <5>1, OrderInBook DEF Inv, TypeOK, n
        <5> QED BY <5>2, OrderFields
      <4>3. s.reserve_qty > 0
        BY <1>4, <4>1, <4>2
      <4>4. s.peak_qty > 0
        BY <1>2, <1>8, <4>3 DEF Kinds, s
      <4> QED BY <3>1, <4>1, <4>4 DEF n
    <3>2. CASE x # p
      BY <1>3, <1>8, <2>2, <3>2 DEF Kinds
    <3> QED BY <3>1, <3>2
  <2> QED BY <1>8, <2>1, <2>2 DEF Kinds
<1>10. Balanced(w \cup rest \cup {left}, book', ledger')
  <2>1. Open(a) = Left(ledger[a.id]) /\ Open(s) = Left(ledger[p])
    BY <1>2, <1>4, <1>8 DEF Balanced, s
  <2>2. Open(left) = Left(ledger'[a.id])
    BY <1>4, <1>5, <1>7, <2>1 DEF Open
  <2>3. has_order(book', p) => Open(n) = Left(ledger'[p])
    BY <1>3, <1>4, <1>7, <2>1 DEF Open
  <2>4. ~has_order(book', p) => Left(ledger'[p]) = 0
    <3>1. s.reserve_qty > 0 => s.peak_qty > 0
      BY <1>2, <1>8 DEF Kinds, s
    <3>2. ~has_order(book', p) => s.reserve_qty = 0 /\ s.quantity = qty
      BY <1>3, <1>4, <3>1
    <3> QED BY <1>4, <1>7, <2>1, <3>2 DEF Open
  <2> SUFFICES ASSUME NEW x \in Ids
      PROVE  /\ \A o \in w \cup rest \cup {left} : o.id = x => Open(o) = Left(ledger'[x])
             /\ has_order(book', x) => Open(book'.id_map[x]) = Left(ledger'[x])
             /\ ~has_order(book', x) /\ (\A o \in w \cup rest \cup {left} : o.id # x)
                  => Left(ledger'[x]) = 0
    BY DEF Balanced
  <2>5. CASE x = p
    <3>1. \A o \in w \cup rest \cup {left} : o.id # p
      BY <1>5, <1>6
    <3> QED BY <2>3, <2>4, <2>5, <3>1 DEF n
  <2>6. CASE x = a.id
    <3>1. ~has_order(book', x)
      BY <1>2, <1>3, <1>6, <2>6
    <3>2. \A o \in w \cup rest : o.id # x
      BY <1>2, <2>6
    <3> QED BY <1>5, <2>2, <2>6, <3>1, <3>2
  <2>7. CASE x # p /\ x # a.id
    <3>1. ledger'[x] = ledger[x]
      BY <1>7, <2>7
    <3>2. has_order(book', x) <=> has_order(book, x)
      BY <1>3, <2>7
    <3>3. has_order(book, x) => book'.id_map[x] = book.id_map[x]
      BY <1>3, <2>7
    <3>4. left.id # x /\ a.id # x
      BY <1>5, <2>7
    <3> QED BY <1>8, <3>1, <3>2, <3>3, <3>4 DEF Balanced
  <2> QED BY <2>5, <2>6, <2>7
<1> QED BY <1>2, <1>9, <1>10 DEF Conserved, Outside

LEMMA TriggerConserves ==
  ASSUME Inv, Conserved, TriggerStop
  PROVE  Conserved'
<1> DEFINE w == Waiting(pending_stops, stack)
           v == Waiting(pending_stops', stack')
<1>1. PICK stop \in w :
        /\ stop \in Orders
        /\ w = v \cup {stop}
        /\ \A o \in v : o.id # stop.id
        /\ Active(stack') = Active(stack) \cup {Enter(stop).order}
        /\ book' = book /\ ledger' = ledger
  BY TriggerEffect
<1> DEFINE e == Enter(stop).order
           a == Active(stack)
<1> HIDE DEF w, v
<1>2. Kinds(w, a, book) /\ Balanced(w \cup a, book, ledger)
  BY DEF Conserved, Outside, w
<1>3. stop.type \in StopTypes /\ stop.reserve_qty = 0 /\ stop.type # "Iceberg"
  BY <1>1, <1>2 DEF Kinds, StopTypes
<1>4. /\ e.id = stop.id /\ Open(e) = Open(stop) /\ e.type \notin StopTypes
      /\ e.reserve_qty > 0 => e.type = "Iceberg" /\ e.peak_qty > 0
  BY <1>1, <1>3, EnterKind
<1> HIDE DEF e, a
<1>5. Kinds(v, a \cup {e}, book)
  BY <1>1, <1>2, <1>4 DEF Kinds
<1>6. Balanced(v \cup (a \cup {e}), book, ledger)
  <2> SUFFICES ASSUME NEW x \in Ids
      PROVE  /\ \A o \in v \cup (a \cup {e}) : o.id = x => Open(o) = Left(ledger[x])
             /\ has_order(book, x) => Open(book.id_map[x]) = Left(ledger[x])
             /\ ~has_order(book, x) /\ (\A o \in v \cup (a \cup {e}) : o.id # x)
                  => Left(ledger[x]) = 0
    BY DEF Balanced
  <2>1. /\ \A o \in w \cup a : o.id = x => Open(o) = Left(ledger[x])
        /\ has_order(book, x) => Open(book.id_map[x]) = Left(ledger[x])
        /\ ~has_order(book, x) /\ (\A o \in w \cup a : o.id # x) => Left(ledger[x]) = 0
    BY <1>2 DEF Balanced
  <2> QED BY <1>1, <1>4, <2>1
<1> QED BY <1>1, <1>5, <1>6 DEF Conserved, Outside, v, a, e

LEMMA FinishConserves ==
  ASSUME Inv, Conserved, FinishResting \/ FinishExhausted \/ FinishFilled
  PROVE  Conserved'
<1> DEFINE w == Waiting(pending_stops, stack)
           a == Active(stack')
           o == Top.order
<1>1. LoopEnded /\ stack' = Tail(stack) /\ pending_stops' = pending_stops
  BY DEF FinishResting, FinishExhausted, FinishFilled
<1>2. /\ Waiting(pending_stops', stack') = w
      /\ Active(stack) = a \cup {o}
      /\ o \in Orders
      /\ \A x \in w \cup a : x.id # o.id
      /\ Absent(book, o.id)
  BY <1>1, FinishEffect
<1>3. /\ o.id \in Ids /\ o.type \in OrderTypes /\ o.quantity \in Nat /\ o.reserve_qty \in Nat
      /\ ledger \in Entries /\ ~has_order(book, o.id) /\ Sound(book)
  BY <1>2, OrderFields DEF Absent, Inv, TypeOK, Entries, Orders
<1> HIDE DEF w, a
<1>4. Kinds(w, a \cup {o}, book) /\ Balanced((w \cup a) \cup {o}, book, ledger)
  BY <1>2 DEF Conserved, Outside, w
<1>5. Kinds(w, a, book)
  BY <1>4 DEF Kinds
<1>6. CASE FinishResting
  <2>1. book' = insert_order(book, o) /\ ledger' = ledger
    BY <1>6 DEF FinishResting
  <2>2. /\ \A x : has_order(book', x) <=> has_order(book, x) \/ x = o.id
        /\ book'.id_map[o.id] = o
        /\ \A x : has_order(book, x) /\ x # o.id => book'.id_map[x] = book.id_map[x]
    BY <1>3, <2>1, InsertOrders
  <2> HIDE DEF o
  <2>3. Kinds(w, a, book')
    BY <1>4, <2>2 DEF Kinds
  <2>4. Balanced(w \cup a, book', ledger)
    <3> SUFFICES ASSUME NEW x \in Ids
        PROVE  /\ \A y \in w \cup a : y.id = x => Open(y) = Left(ledger[x])
               /\ has_order(book', x) => Open(book'.id_map[x]) = Left(ledger[x])
               /\ ~has_order(book', x) /\ (\A y \in w \cup a : y.id # x) => Left(ledger[x]) = 0
      BY DEF Balanced
    <3>1. CASE x = o.id
      BY <1>2, <1>4, <2>2, <3>1 DEF Balanced
    <3>2. CASE x # o.id
      BY <1>4, <2>2, <3>2 DEF Balanced
    <3> QED BY <3>1, <3>2
  <2> QED BY <1>2, <2>1, <2>3, <2>4 DEF Conserved, Outside, a
<1>7. CASE FinishExhausted
  <2>1. book' = book /\ ledger' = Withdrawn(ledger, o)
    BY <1>7 DEF FinishExhausted
  <2> HIDE DEF o
  <2>2. Balanced(w \cup a, book, Withdrawn(ledger, o))
    BY <1>2, <1>3, <1>4, BalanceLeaves
  <2> QED BY <1>2, <1>5, <2>1, <2>2 DEF Conserved, Outside, a
<1>8. CASE FinishFilled
  <2>1. book' = book /\ ledger' = ledger /\ ~Rests(o) /\ ~Exhausted(o)
    BY <1>8 DEF FinishFilled
  <2> HIDE DEF o
  <2>2. o.type \notin StopTypes /\ (o.reserve_qty > 0 => o.type = "Iceberg")
    BY <1>4 DEF Kinds
  <2>3. o.type \in {"Limit", "Market", "Iceberg"}
    BY <1>3, <2>2 DEF OrderTypes, StopTypes
  <2>4. o.quantity = 0 /\ o.reserve_qty = 0
    BY <1>3, <2>1, <2>2, <2>3 DEF Rests, Exhausted
  <2>5. Left(ledger[o.id]) = 0
    <3>1. Open(o) = Left(ledger[o.id])
      BY <1>3, <1>4 DEF Balanced
    <3> QED BY <2>4, <3>1 DEF Open
  <2>6. Balanced(w \cup a, book, ledger)
    <3> SUFFICES ASSUME NEW x \in Ids
        PROVE  /\ \A y \in w \cup a : y.id = x => Open(y) = Left(ledger[x])
               /\ has_order(book, x) => Open(book.id_map[x]) = Left(ledger[x])
               /\ ~has_order(book, x) /\ (\A y \in w \cup a : y.id # x) => Left(ledger[x]) = 0
      BY DEF Balanced
    <3>1. CASE x = o.id
      BY <1>2, <1>3, <2>5, <3>1
    <3>2. CASE x # o.id
      BY <1>4, <3>2 DEF Balanced
    <3> QED BY <3>1, <3>2
  <2> QED BY <1>2, <1>5, <2>1, <2>6 DEF Conserved, Outside, a
<1> QED BY <1>6, <1>7, <1>8

LEMMA NextConserves ==
  ASSUME {"ids", "requeues"} \subseteq Discipline, PeaksFit, Inv, Conserved, [Next]_vars
  PROVE  Conserved'
<1>1. CASE Submit
  BY <1>1, SubmitConserves
<1>2. CASE Amend
  BY <1>2, AmendConserves
<1>3. CASE Step
  <2>1. CASE KeepStop
    BY <2>1, KeepEffect DEF Conserved, Outside
  <2> QED BY <1>3, <2>1, FillConserves, TriggerConserves, FinishConserves DEF Step
<1>4. CASE UNCHANGED vars
  BY <1>4 DEF vars, Conserved
<1> QED BY <1>1, <1>2, <1>3, <1>4 DEF Next

LEMMA InitConserves ==
  ASSUME Init
  PROVE  Conserved
<1>1. pending_stops = <<>> /\ stack = <<>> /\ ledger = [id \in Ids |-> NoEntry]
  BY DEF Init
<1>2. \A id : ~has_order(book, id)
  BY DEF Init, EmptyBook, EmptyMap, has_order
<1>3. Waiting(pending_stops, stack) = {} /\ Active(stack) = {}
  BY <1>1, MembersEmpty DEF Waiting
<1>4. \A id \in Ids : Left(ledger[id]) = 0
  BY <1>1 DEF Left, NoEntry
<1> QED BY <1>2, <1>3, <1>4 DEF Conserved, Kinds, Balanced, Outside

(* The places of MatchingEngine hold exactly the orders outside the book. *)
LEMMA PlacesOutside ==
  ASSUME Inv
  PROVE  {PlacedOrder(p) : p \in Places} = Outside(pending_stops, stack)
<1>1. /\ pending_stops \in Seq(Orders) /\ stack \in Seq(Frames)
      /\ Len(pending_stops) \in Nat /\ Len(stack) \in Nat
  BY DEF Inv, TypeOK
<1>2. \A f \in 1..Len(stack) : Len(stack[f].working) \in Nat /\ f \in Nat /\ f # 0
  <2>1. \A f \in 1..Len(stack) : stack[f] \in Frames
    BY <1>1, ElementOfSeq
  <2> QED BY <1>1, <2>1 DEF Frames
<1>3. ASSUME NEW p \in Places PROVE PlacedOrder(p) \in Outside(pending_stops, stack)
  <2>1. CASE p \in {0} \X (1..Len(pending_stops))
    <3>1. PlacedOrder(p) \in Members(pending_stops)
      BY <2>1 DEF PlacedOrder, Members
    <3> QED BY <3>1 DEF Outside, Waiting
  <2>2. CASE \E f \in 1..Len(stack) : p \in {f} \X (0..Len(stack[f].working))
    <3>1. PICK f \in 1..Len(stack) : p \in {f} \X (0..Len(stack[f].working))
      BY <2>2
    <3>2. p[1] = f /\ p[2] \in 0..Len(stack[f].working) /\ f # 0
      BY <1>2, <3>1
    <3>3. CASE p[2] = 0
      <4>1. PlacedOrder(p) = stack[f].order
        BY <3>2, <3>3 DEF PlacedOrder
      <4> QED BY <4>1 DEF Outside, Active
    <3>4. CASE p[2] # 0
      <4>1. PlacedOrder(p) = stack[f].working[p[2]] /\ p[2] \in 1..Len(stack[f].working)
        BY <1>2, <3>2, <3>4 DEF PlacedOrder
      <4>2. PlacedOrder(p) \in Members(stack[f].working)
        BY <4>1 DEF Members
      <4> QED BY <4>2 DEF Outside, Waiting, WorkingIn
    <3> QED BY <3>3, <3>4
  <2> QED BY <2>1, <2>2 DEF Places
<1>4. ASSUME NEW o \in Outside(pending_stops, stack) PROVE \E p \in Places : o = PlacedOrder(p)
  <2>1. CASE o \in Members(pending_stops)
    <3>1. PICK i \in 1..Len(pending_stops) : o = pending_stops[i]
      BY <2>1 DEF Members
    <3>2. <<0, i>> \in Places /\ PlacedOrder(<<0, i>>) = o
      BY <3>1 DEF Places, PlacedOrder
    <3> QED BY <3>2
  <2>2. CASE o \in WorkingIn(stack)
    <3>1. PICK f \in 1..Len(stack) : o \in Members(stack[f].working)
      BY <2>2 DEF WorkingIn
    <3>2. PICK i \in 1..Len(stack[f].working) : o = stack[f].working[i]
      BY <3>1 DEF Members
    <3>3. i \in 0..Len(stack[f].working) /\ i # 0 /\ f # 0
      BY <1>2
    <3>4. <<f, i>> \in {f} \X (0..Len(stack[f].working))
      BY <3>3
    <3>5. <<f, i>> \in Places
      BY <3>4 DEF Places
    <3>6. PlacedOrder(<<f, i>>) = o
      BY <3>2, <3>3 DEF PlacedOrder
    <3> QED BY <3>5, <3>6
  <2>3. CASE o \in Active(stack)
    <3>1. PICK f \in 1..Len(stack) : o = stack[f].order
      BY <2>3 DEF Active
    <3>2. 0 \in 0..Len(stack[f].working) /\ f # 0
      BY <1>2
    <3>3. <<f, 0>> \in {f} \X (0..Len(stack[f].working))
      BY <3>2
    <3>4. <<f, 0>> \in Places
      BY <3>3 DEF Places
    <3>5. PlacedOrder(<<f, 0>>) = o
      BY <3>1, <3>2 DEF PlacedOrder
    <3> QED BY <3>4, <3>5
  <2> QED BY <2>1, <2>2, <2>3 DEF Outside, Waiting
<1> QED BY <1>3, <1>4

LEMMA ConservedIsConserved ==
  ASSUME Inv, Conserved
  PROVE  QuantityConserved
<1> SUFFICES ASSUME NEW id \in Ids
             PROVE  OpenIs(id, ledger[id].orig - ledger[id].filled - ledger[id].gone)
  BY DEF QuantityConserved
<1> DEFINE qty == Left(ledger[id])
           Out == Outside(pending_stops, stack)
           open == {order \in OpenOrders : order.id = id}
<1>1. OpenOrders = Out \cup {book.id_map[x] : x \in DOMAIN book.id_map}
  BY PlacesOutside DEF OpenOrders
<1>2. \A x \in DOMAIN book.id_map : book.id_map[x].id = x
  BY DEF Inv, Sound
<1>3. /\ \A o \in Out : o.id = id => Open(o) = qty
      /\ has_order(book, id) => Open(book.id_map[id]) = qty
      /\ ~has_order(book, id) /\ (\A o \in Out : o.id # id) => qty = 0
  BY DEF Conserved, Balanced
<1> HIDE DEF qty, Out
<1>4. \A order \in open : order.quantity + order.reserve_qty = qty
  BY <1>1, <1>2, <1>3 DEF Open, has_order
<1>5. open = {} => qty = 0
  <2> SUFFICES ASSUME open = {} PROVE qty = 0
    OBVIOUS
  <2>1. \A order \in OpenOrders : order.id # id
    OBVIOUS
  <2>2. ~has_order(book, id)
    BY <1>1, <1>2, <2>1 DEF has_order
  <2> QED BY <1>1, <1>3, <2>1, <2>2
<1>6. qty = ledger[id].orig - ledger[id].filled - ledger[id].gone
  BY DEF qty, Left
<1> QED BY <1>4, <1>5, <1>6 DEF OpenIs

(* What an order asked for is what it traded, what was cancelled or        *)
(* exhausted, and what is open of it, in every state of the engine - also  *)
(* inside a cascade, and for icebergs whose peak is a proper part of them. *)
THEOREM Conservation ==
  ASSUME {"ids", "requeues"} \subseteq Discipline, PeaksFit
  PROVE  Spec => []QuantityConserved
<1>1. Init => Inv /\ Conserved
  BY InitInv, InitConserves
<1>2. Inv /\ Conserved /\ [Next]_vars => Inv' /\ Conserved'
  BY NextInv, NextConserves
<1>3. Inv /\ Conserved => QuantityConserved
  BY ConservedIsConserved
<1> QED BY <1>1, <1>2, <1>3, PTL DEF Spec

-----------------------------------------------------------------------------
(* No crossed book.  An iceberg that has spent its peak as aggressor rests *)
(* without being matched further, so it can rest at a price that crosses   *)
(* (matching_engine.cpp:57): the theorem is about clients that send none.  *)
NoIcebergs == \A t \in NewOrders : t.type # "Iceberg"

Plain(w, a) ==
  /\ \A o \in w : o.type \in StopTypes
  /\ \A o \in a : o.type \in {"Limit", "Market"}

Uncrossed(b) ==
  \A x, y : has_order(b, x) /\ has_order(b, y) /\ b.id_map[x].side = Buy
              /\ b.id_map[y].side = Sell => b.id_map[x].price < b.id_map[y].price

Separated ==
  /\ Plain(Waiting(pending_stops, stack), Active(stack))
  /\ Uncrossed(book)

LEMMA EnterPlain ==
  ASSUME NEW order \in Orders, order.type # "Iceberg"
  PROVE  Enter(order).order.type \in {"Limit", "Market"}
<1>1. order.type \in OrderTypes
  BY DEF Orders
<1>2. CASE order.type \in StopTypes
  <2>1. Enter(order).order = Converted(order)
    BY <1>2 DEF Enter, Activation, StopTypes
  <2> QED BY <2>1 DEF Converted, Orders
<1>3. CASE order.type \notin StopTypes
  <2>1. Enter(order).order = order
    BY <1>3 DEF Enter, Activation
  <2> QED BY <1>1, <1>3, <2>1 DEF OrderTypes, StopTypes
<1> QED BY <1>2, <1>3

LEMMA UncrossedKept ==
  ASSUME NEW b, NEW c, Uncrossed(b),
         \A x : has_order(c, x) =>
                  /\ has_order(b, x)
                  /\ c.id_map[x].side = b.id_map[x].side
                  /\ c.id_map[x].price = b.id_map[x].price
  PROVE  Uncrossed(c)
  BY DEF Uncrossed

LEMMA SubmitSeparated ==
  ASSUME NoIcebergs, Inv, Separated, Submit
  PROVE  Separated'
<1> DEFINE w == Waiting(pending_stops, stack)
           a == Active(stack)
<1>1. ASSUME NEW id \in Ids, NEW t \in NewOrders, SubmitNew(WithId(t, id)) PROVE Separated'
  <2> DEFINE order == WithId(t, id)
  <2>1. order \in Orders /\ order.type # "Iceberg"
    BY WithIdType DEF WithId, NoIcebergs
  <2>2. Idle /\ process_new_order(book, order) /\ book' = book
    BY <1>1 DEF SubmitNew, process_new_order
  <2> HIDE DEF order
  <2>3. Enter(order).order.type \in {"Limit", "Market"}
    BY <2>1, EnterPlain
  <2>4. /\ Active(stack) = {}
        /\ \/ /\ Waits(book, order)
              /\ Waiting(pending_stops', stack') = w \cup {order}
              /\ Active(stack') = {}
           \/ /\ ~Waits(book, order)
              /\ Waiting(pending_stops', stack') = w
              /\ Active(stack') = {Enter(order).order}
    BY <2>1, <2>2, NewEffect
  <2>5. Plain(Waiting(pending_stops', stack'), Active(stack'))
    BY <2>3, <2>4 DEF Plain, Waits, Separated
  <2> QED BY <2>2, <2>5 DEF Separated
<1>2. ASSUME NEW id \in Ids, CancelPending(id) PROVE Separated'
  <2>1. /\ Active(stack') = {} /\ book' = book
        /\ \E stop : w = Waiting(pending_stops', stack') \cup {stop}
    BY <1>2, CancelPendingEffect
  <2>2. Plain(Waiting(pending_stops', stack'), Active(stack'))
    BY <2>1 DEF Plain, Separated
  <2> QED BY <2>1, <2>2 DEF Separated
<1>3. ASSUME NEW id \in Ids, CancelResting(id) PROVE Separated'
  <2>1. /\ has_order(book, id) /\ book' = cancel_order(book, id)
        /\ UNCHANGED <<pending_stops, stack>>
    BY <1>3 DEF CancelResting
  <2>2. /\ \A x : has_order(book', x) <=> has_order(book, x) /\ x # id
        /\ \A x : has_order(book', x) => book'.id_map[x] = book.id_map[x]
    BY <2>1, CancelOrders DEF Inv
  <2>3. Uncrossed(book')
    BY <2>2 DEF Separated, Uncrossed
  <2> QED BY <2>1, <2>3 DEF Separated
<1>4. ASSUME NEW id \in Ids, CancelUnknown(id) PROVE Separated'
  BY <1>4 DEF CancelUnknown, Reject, Separated
<1> QED BY <1>1, <1>2, <1>3, <1>4 DEF Submit

LEMMA RestingSeparated ==
  ASSUME Inv, Separated, FinishResting
  PROVE  Uncrossed(book')
<1> DEFINE o == Top.order
<1>1. /\ LoopEnded /\ Rests(o) /\ book' = insert_order(book, o)
      /\ stack' = Tail(stack) /\ pending_stops' = pending_stops
  BY DEF FinishResting
<1>2. o \in Orders /\ Active(stack) = Active(stack') \cup {o} /\ Absent(book, o.id)
  BY <1>1, FinishEffect
<1>3. o.type \in {"Limit", "Market"}
  BY <1>2 DEF Separated, Plain
<1>4. /\ o.type = "Limit" /\ o.quantity > 0
      /\ \A p \in DOMAIN book.levels[Opposite(o.side)] : ~Crosses(o, p)
  BY <1>1, <1>2, <1>3, OrderFields DEF Rests, LoopEnded
<1>5. /\ \A x : has_order(book', x) <=> has_order(book, x) \/ x = o.id
      /\ book'.id_map[o.id] = o
      /\ \A x : has_order(book, x) /\ x # o.id => book'.id_map[x] = book.id_map[x]
  BY <1>1, InsertOrders DEF Inv
<1>6. o.price \in Int /\ o.side \in {Buy, Sell} /\ ~has_order(book, o.id)
  BY <1>2, OrderFields, PricesAssumption DEF Sides, Absent
<1> HIDE DEF o
<1>7. ASSUME NEW y, has_order(book, y), book.id_map[y].side = Opposite(o.side)
      PROVE  IF o.side = Buy THEN o.price < book.id_map[y].price
                             ELSE book.id_map[y].price < o.price
  <2> DEFINE p == book.id_map[y].price
  <2>1. p \in Int
    BY <1>7, OutsideUnknown, OrderFields, PricesAssumption
  <2>2. p \in DOMAIN book.levels[Opposite(o.side)]
    <3>1. BookConsistent
      BY SoundIsConsistent DEF Inv
    <3> QED BY <1>7, <3>1 DEF BookConsistent, IdsConsistent, HasEntry, HasLevel, has_order
  <2>3. ~Crosses(o, p)
    BY <1>4, <2>2
  <2> QED BY <1>4, <1>6, <2>1, <2>3 DEF Crosses
<1> SUFFICES ASSUME NEW x, NEW y, has_order(book', x), has_order(book', y),
                    book'.id_map[x].side = Buy, book'.id_map[y].side = Sell
             PROVE  book'.id_map[x].price < book'.id_map[y].price
  BY DEF Uncrossed
<1>8. Buy # Sell
  BY DEF Buy, Sell
<1>9. CASE x = o.id
  <2>1. y # o.id /\ has_order(book, y) /\ book'.id_map[y] = book.id_map[y] /\ o.side = Buy
    BY <1>5, <1>8, <1>9
  <2>2. book.id_map[y].side = Opposite(o.side)
    BY <2>1 DEF Opposite
  <2> QED BY <1>5, <1>7, <1>9, <2>1, <2>2
<1>10. CASE y = o.id
  <2>1. x # o.id /\ has_order(book, x) /\ book'.id_map[x] = book.id_map[x] /\ o.side = Sell
    BY <1>5, <1>8, <1>10
  <2>2. book.id_map[x].side = Opposite(o.side)
    BY <1>8, <2>1 DEF Opposite
  <2> QED BY <1>5, <1>7, <1>8, <1>10, <2>1, <2>2
<1>11. CASE x # o.id /\ y # o.id
  BY <1>5, <1>11 DEF Separated, Uncrossed
<1> QED BY <1>9, <1>10, <1>11

LEMMA StepSeparated ==
  ASSUME Inv, Separated, Step
  PROVE  Separated'
<1>1. CASE Fill
  <2>1. PICK p \in Ids, qty \in Nat : Fills(p, qty)
    BY <1>1, FillEffect
  <2> DEFINE a    == Top.order
             left == [a EXCEPT !.quantity = a.quantity - qty]
  <2>2. /\ a \in Orders /\ has_order(book, p)
        /\ Waiting(pending_stops', stack') = Waiting(pending_stops, stack)
        /\ Active(stack') = Active(Tail(stack)) \cup {left}
        /\ Active(stack) = Active(Tail(stack)) \cup {a}
    BY <2>1 DEF Fills
  <2>3. /\ \A x : x # p => (has_order(book', x) <=> has_order(book, x))
        /\ \A x : x # p /\ has_order(book, x) => book'.id_map[x] = book.id_map[x]
        /\ has_order(book', p) => /\ book'.id_map[p].side = book.id_map[p].side
                                  /\ book'.id_map[p].price = book.id_map[p].price
    BY <2>1 DEF Fills
  <2>4. left.type = a.type
    BY <2>2 DEF Orders
  <2> HIDE DEF a, left
  <2>5. Plain(Waiting(pending_stops', stack'), Active(stack'))
    BY <2>2, <2>4 DEF Separated, Plain
  <2>6. \A x : has_order(book', x) =>
                 /\ has_order(book, x)
                 /\ book'.id_map[x].side = book.id_map[x].side
                 /\ book'.id_map[x].price = book.id_map[x].price
    BY <2>2, <2>3
  <2>7. Uncrossed(book')
    BY <2>6, UncrossedKept DEF Separated
  <2> QED BY <2>5, <2>7 DEF Separated
<1>2. CASE TriggerStop
  <2>1. PICK stop \in Waiting(pending_stops, stack) :
           /\ stop \in Orders
           /\ Waiting(pending_stops, stack) = Waiting(pending_stops', stack') \cup {stop}
           /\ Active(stack') = Active(stack) \cup {Enter(stop).order}
           /\ book' = book
    BY <1>2, TriggerEffect
  <2>2. stop.type # "Iceberg"
    BY <2>1 DEF Separated, Plain, StopTypes
  <2>3. Enter(stop).order.type \in {"Limit", "Market"}
    BY <2>1, <2>2, EnterPlain
  <2> QED BY <2>1, <2>3 DEF Separated, Plain
<1>3. CASE KeepStop
  BY <1>3, KeepEffect DEF Separated
<1>4. CASE FinishResting \/ FinishExhausted \/ FinishFilled
  <2>1. LoopEnded /\ stack' = Tail(stack) /\ pending_stops' = pending_stops
    BY <1>4 DEF FinishResting, FinishExhausted, FinishFilled
  <2>2. /\ Waiting(pending_stops', stack') = Waiting(pending_stops, stack)
        /\ Active(stack) = Active(stack') \cup {Top.order}
    BY <2>1, FinishEffect
  <2>3. Plain(Waiting(pending_stops', stack'), Active(stack'))
    BY <2>2 DEF Separated, Plain
  <2>4. Uncrossed(book')
    <3>1. CASE FinishResting
      BY <3>1, RestingSeparated
    <3>2. CASE FinishExhausted \/ FinishFilled
      BY <3>2 DEF FinishExhausted, FinishFilled, Separated
    <3> QED BY <1>4, <3>1, <3>2
  <2> QED BY <2>3, <2>4 DEF Separated
<1> QED BY <1>1, <1>2, <1>3, <1>4 DEF Step

LEMMA UncrossedLevels ==
  ASSUME Inv, Uncrossed(book)
  PROVE  NoCrossedBook
<1> SUFFICES ASSUME NEW bid \in DOMAIN book.levels[Buy], NEW ask \in DOMAIN book.levels[Sell]
             PROVE  bid < ask
  BY DEF NoCrossedBook
<1>1. ASSUME NEW side \in Sides, NEW p \in DOMAIN book.levels[side]
      PROVE  \E id : has_order(book, id) /\ book.id_map[id].side = side
                       /\ book.id_map[id].price = p
  <2>1. HasLevel(book, side, p) /\ p \in Prices
    BY LevelType DEF HasLevel, Inv, Sound
  <2>2. Located(book, side, p) # {}
    BY <2>1 DEF Inv, Sound, LevelSound
  <2> QED BY <2>2 DEF Located, has_order
<1>2. Buy \in Sides /\ Sell \in Sides
  BY DEF Sides
<1> QED BY <1>1, <1>2 DEF Uncrossed

(* docs/testing.md "No crossed book", in every state of the engine - also  *)
(* between two trades of a cascade - for the events the gateway sends      *)
(* (modify events reinsert without matching), without icebergs.            *)
THEOREM Uncrossing ==
  ASSUME "ids" \in Discipline, NoIcebergs
  PROVE  GatewaySpec => []NoCrossedBook
<1>1. Init => Inv /\ Separated
  <2> SUFFICES ASSUME Init PROVE Inv /\ Separated
    OBVIOUS
  <2>1. pending_stops = <<>> /\ stack = <<>>
    BY DEF Init
  <2>2. \A id : ~has_order(book, id)
    BY DEF Init, EmptyBook, EmptyMap, has_order
  <2>3. Waiting(pending_stops, stack) = {} /\ Active(stack) = {}
    BY <2>1, MembersEmpty DEF Waiting
  <2> QED BY <2>2, <2>3, InitInv DEF Separated, Plain, Uncrossed
<1>2. Inv /\ Separated /\ [GatewayNext]_vars => Inv' /\ Separated'
  <2> SUFFICES ASSUME Inv, Separated, [GatewayNext]_vars PROVE Inv' /\ Separated'
    OBVIOUS
  <2>1. Inv'
    BY GatewayNextInv
  <2>2. CASE UNCHANGED vars
    BY <2>1, <2>2 DEF vars, Separated
  <2> QED BY <2>1, <2>2, SubmitSeparated, StepSeparated DEF GatewayNext
<1>3. Inv /\ Separated => NoCrossedBook
  BY UncrossedLevels DEF Separated
<1> QED BY <1>1, <1>2, <1>3, PTL DEF GatewaySpec

-----------------------------------------------------------------------------
(* The order of the stops.  Row 0 is the pending stops, row f the rest of  *)
(* the `working` vector of stack[f]; the stops stand in line row by row.   *)
Row(ps, st, f) == IF f = 0 THEN ps ELSE st[f].working
InLine(ps, st, f, i) == f \in 0..Len(st) /\ i \in 1..Len(Row(ps, st, f))
LineId(ps, st, f, i) == Row(ps, st, f)[i].id
Ahead(f, i, g, j) == f < g \/ (f = g /\ i < j)

NamesIn(ps, st) == {o.id : o \in Waiting(ps, st)}
Line(ps, st) ==
  {p \in NamesIn(ps, st) \X NamesIn(ps, st) :
     \E f, i, g, j \in Nat :
       /\ InLine(ps, st, f, i) /\ LineId(ps, st, f, i) = p[1]
       /\ InLine(ps, st, g, j) /\ LineId(ps, st, g, j) = p[2]
       /\ Ahead(f, i, g, j)}

(* arr lists the names of a set, once each and in the order of a relation. *)
Lists(arr, names, rel) ==
  /\ \A k \in 1..Len(arr) : arr[k] \in names
  /\ \A x \in names : \E k \in 1..Len(arr) : arr[k] = x
  /\ \A k, l \in 1..Len(arr) : arr[k] = arr[l] => k = l
  /\ \A k, l \in 1..Len(arr) : k < l <=> <<arr[k], arr[l]>> \in rel

Arrived == Lists(stop_arrivals, NamesIn(pending_stops, stack), Line(pending_stops, stack))

LEMMA ListsAppend ==
  ASSUME NEW arr \in Seq(Ids), NEW names, NEW rel, Lists(arr, names, rel),
         NEW x \in Ids, x \notin names, NEW rel2,
         \A y, z \in names : <<y, z>> \in rel2 <=> <<y, z>> \in rel,
         \A y \in names : <<y, x>> \in rel2 /\ <<x, y>> \notin rel2,
         <<x, x>> \notin rel2
  PROVE  Lists(Append(arr, x), names \cup {x}, rel2)
<1> DEFINE new == Append(arr, x)
           n == Len(arr)
<1>1. /\ Len(new) = n + 1 /\ n \in Nat
      /\ \A k \in 1..n : new[k] = arr[k]
      /\ new[n + 1] = x
  BY AppendProperties
<1> HIDE DEF new
<1>2. \A k \in 1..(n + 1) : k \in 1..n \/ k = n + 1
  BY <1>1
<1>3. 1..n \subseteq 1..(n + 1) /\ n + 1 \in 1..(n + 1)
  BY <1>1
<1>4. \A k \in 1..n : k < n + 1 /\ ~(n + 1 < k) /\ k # n + 1
  BY <1>1
<1>5. \A k \in 1..n : arr[k] \in names
  BY DEF Lists
<1> HIDE DEF n
<1>6. \A k \in 1..(n + 1) : new[k] \in names \cup {x}
  BY <1>1, <1>2, <1>5
<1>7. \A y \in names \cup {x} : \E k \in 1..(n + 1) : new[k] = y
  BY <1>1, <1>3 DEF Lists, n
<1>8. ASSUME NEW k \in 1..(n + 1), NEW l \in 1..(n + 1)
      PROVE  /\ new[k] = new[l] => k = l
             /\ k < l <=> <<new[k], new[l]>> \in rel2
  <2>1. CASE k \in 1..n /\ l \in 1..n
    BY <1>1, <1>5, <2>1 DEF Lists, n
  <2>2. CASE k \in 1..n /\ l = n + 1
    BY <1>1, <1>4, <1>5, <2>2
  <2>3. CASE k = n + 1 /\ l \in 1..n
    BY <1>1, <1>4, <1>5, <2>3
  <2>4. CASE k = n + 1 /\ l = n + 1
    <3>1. ~(n + 1 < n + 1)
      BY <1>1
    <3> QED BY <1>1, <2>4, <3>1
  <2> QED BY <1>2, <2>1, <2>2, <2>3, <2>4
<1> QED BY <1>1, <1>6, <1>7, <1>8 DEF Lists, new

LEMMA ListsRemove ==
  ASSUME NEW arr \in Seq(Ids), NEW names, NEW rel, Lists(arr, names, rel),
         NEW x \in names, NEW rest, names = rest \cup {x}, x \notin rest, NEW rel2,
         \A y, z \in rest : <<y, z>> \in rel2 <=> <<y, z>> \in rel
  PROVE  Lists(RemoveFirst(arr, x), rest, rel2)
<1> DEFINE n == Len(arr)
           S == {i \in 1..n : arr[i] = x}
<1>1. PICK m \in 1..n : arr[m] = x
  BY DEF Lists
<1>2. S = {m} /\ n \in Nat
  BY <1>1 DEF Lists
<1>3. RemoveFirst(arr, x) = RemoveAt(arr, m)
  <2>1. RemoveFirst(arr, x) = RemoveAt(arr, Min(S))
    BY <1>1 DEF RemoveFirst, SelectInSeq
  <2>2. Min(S) = m
    BY <1>1, <1>2 DEF Min
  <2> QED BY <2>1, <2>2
<1> DEFINE new == RemoveAt(arr, m)
<1>4. /\ Len(new) = n - 1
      /\ \A j \in 1..(n - 1) : new[j] = IF j < m THEN arr[j] ELSE arr[j + 1]
  BY RemoveAtFields
<1> HIDE DEF new
<1> DEFINE old == [j \in 1..(n - 1) |-> IF j < m THEN j ELSE j + 1]
<1>5. \A j \in 1..(n - 1) : old[j] \in 1..n /\ old[j] # m /\ new[j] = arr[old[j]]
  BY <1>2, <1>4
<1>6. \A j, k \in 1..(n - 1) : /\ j < k <=> old[j] < old[k]
                               /\ old[j] = old[k] => j = k
  BY <1>2
<1>7. ASSUME NEW i \in 1..n, i # m PROVE \E j \in 1..(n - 1) : old[j] = i
  <2>1. CASE i < m
    <3>1. i \in 1..(n - 1) /\ old[i] = i
      BY <1>2, <2>1
    <3> QED BY <3>1
  <2>2. CASE i > m
    <3>1. i - 1 \in 1..(n - 1) /\ old[i - 1] = i
      BY <1>2, <2>2
    <3> QED BY <3>1
  <2> QED BY <1>7, <2>1, <2>2
<1> HIDE DEF old
<1>8. \A i \in 1..n : i # m => arr[i] \in rest
  BY <1>1 DEF Lists
<1>9. \A j \in 1..(n - 1) : new[j] \in rest
  BY <1>5, <1>8
<1>10. \A y \in rest : \E j \in 1..(n - 1) : new[j] = y
  <2> SUFFICES ASSUME NEW y \in rest PROVE \E j \in 1..(n - 1) : new[j] = y
    OBVIOUS
  <2>1. PICK i \in 1..n : arr[i] = y
    BY DEF Lists
  <2>2. i # m
    BY <1>1, <2>1
  <2> QED BY <1>5, <1>7, <2>1, <2>2
<1>11. ASSUME NEW j \in 1..(n - 1), NEW k \in 1..(n - 1)
       PROVE  /\ new[j] = new[k] => j = k
              /\ j < k <=> <<new[j], new[k]>> \in rel2
  <2>1. arr[old[j]] = arr[old[k]] => old[j] = old[k]
    BY <1>5 DEF Lists
  <2>2. old[j] < old[k] <=> <<arr[old[j]], arr[old[k]]>> \in rel
    BY <1>5 DEF Lists
  <2> QED BY <1>5, <1>6, <1>9, <2>1, <2>2
<1> QED BY <1>3, <1>4, <1>9, <1>10, <1>11 DEF Lists, new

LEMMA RowType ==
  ASSUME NEW ps \in Seq(Orders), NEW st \in Seq(Frames), NEW f \in 0..Len(st)
  PROVE  Row(ps, st, f) \in Seq(Orders) /\ Len(st) \in Nat /\ f \in Nat
<1>1. Len(st) \in Nat /\ f \in Nat
  OBVIOUS
<1>2. CASE f = 0
  BY <1>1, <1>2 DEF Row
<1>3. CASE f # 0
  <2>1. f \in 1..Len(st)
    BY <1>1, <1>3
  <2>2. st[f] \in Frames
    BY <2>1, ElementOfSeq
  <2> QED BY <1>1, <1>3, <2>2 DEF Row, Frames
<1> QED BY <1>2, <1>3

LEMMA LineNames ==
  ASSUME NEW ps \in Seq(Orders), NEW st \in Seq(Frames), NEW x
  PROVE  x \in NamesIn(ps, st) <=>
           \E f, i \in Nat : InLine(ps, st, f, i) /\ LineId(ps, st, f, i) = x
<1>1. Len(st) \in Nat /\ Len(ps) \in Nat /\ \A f \in 0..Len(st) : Row(ps, st, f) \in Seq(Orders)
  BY RowType
<1>2. ASSUME NEW o \in Waiting(ps, st)
      PROVE  \E f, i \in Nat : InLine(ps, st, f, i) /\ LineId(ps, st, f, i) = o.id
  <2>1. CASE o \in Members(ps)
    <3>1. PICK i \in 1..Len(ps) : o = ps[i]
      BY <2>1 DEF Members
    <3>2. 0 \in 0..Len(st) /\ i \in Nat /\ 0 \in Nat
      BY <1>1
    <3> QED BY <3>1, <3>2 DEF InLine, LineId, Row
  <2>2. CASE o \in WorkingIn(st)
    <3>1. PICK f \in 1..Len(st) : o \in Members(st[f].working)
      BY <2>2 DEF WorkingIn
    <3>2. PICK i \in 1..Len(st[f].working) : o = st[f].working[i]
      BY <3>1 DEF Members
    <3>3. f \in 0..Len(st) /\ f \in Nat /\ f # 0
      BY <1>1
    <3>4. Row(ps, st, f) = st[f].working
      BY <3>3 DEF Row
    <3>5. i \in Nat
      BY <1>1, <3>3, <3>4
    <3> QED BY <3>2, <3>3, <3>4, <3>5 DEF InLine, LineId
  <2> QED BY <2>1, <2>2 DEF Waiting
<1>3. ASSUME NEW f \in Nat, NEW i \in Nat, InLine(ps, st, f, i)
      PROVE  Row(ps, st, f)[i] \in Waiting(ps, st)
  <2>1. CASE f = 0
    <3>1. Row(ps, st, f)[i] \in Members(ps)
      BY <1>3, <2>1 DEF InLine, Row, Members
    <3> QED BY <3>1 DEF Waiting
  <2>2. CASE f # 0
    <3>1. f \in 1..Len(st) /\ Row(ps, st, f) = st[f].working /\ i \in 1..Len(st[f].working)
      BY <1>1, <1>3, <2>2 DEF InLine, Row
    <3>2. Row(ps, st, f)[i] \in Members(st[f].working)
      BY <3>1 DEF Members
    <3> QED BY <3>1, <3>2 DEF Waiting, WorkingIn
  <2> QED BY <2>1, <2>2
<1> QED BY <1>2, <1>3 DEF NamesIn, LineId

LEMMA LineUnique ==
  ASSUME NEW b, NEW ps \in Seq(Orders), NEW st \in Seq(Frames), Apart(b, ps, st),
         NEW f \in Nat, NEW i \in Nat, NEW g \in Nat, NEW j \in Nat,
         InLine(ps, st, f, i), InLine(ps, st, g, j),
         LineId(ps, st, f, i) = LineId(ps, st, g, j)
  PROVE  f = g /\ i = j
<1>1. ASSUME NEW h \in Nat, NEW k \in Nat, InLine(ps, st, h, k)
      PROVE  IsPlace(ps, st, h, k) /\ IdAt(ps, st, h, k) = LineId(ps, st, h, k)
  <2>1. Len(st) \in Nat /\ Len(Row(ps, st, h)) \in Nat
    BY <1>1, RowType DEF InLine
  <2>2. CASE h = 0
    BY <1>1, <2>2 DEF InLine, LineId, Row, IsPlace, IdAt
  <2>3. CASE h # 0
    <3>1. h \in 1..Len(st) /\ k # 0 /\ k \in 1..Len(st[h].working)
      BY <1>1, <2>1, <2>3 DEF InLine, Row
    <3>2. k \in 0..Len(st[h].working)
      BY <2>1, <2>3, <3>1 DEF Row
    <3> QED BY <2>3, <3>1, <3>2 DEF LineId, Row, IsPlace, IdAt
  <2> QED BY <2>2, <2>3
<1> QED BY <1>1 DEF Apart

(* A step that moves stops from row to row and changes the order of none:  *)
(* any two stops were in line before, and in the same order.               *)
SameOrder(ps, st, qs, tt, g, j, h, k) ==
  \E f1, i1, f2, i2 \in Nat :
    /\ InLine(ps, st, f1, i1) /\ LineId(ps, st, f1, i1) = LineId(qs, tt, g, j)
    /\ InLine(ps, st, f2, i2) /\ LineId(ps, st, f2, i2) = LineId(qs, tt, h, k)
    /\ Ahead(g, j, h, k) <=> Ahead(f1, i1, f2, i2)

LEMMA LineMoves ==
  ASSUME NEW b, NEW ps \in Seq(Orders), NEW st \in Seq(Frames), Apart(b, ps, st),
         NEW qs \in Seq(Orders), NEW tt \in Seq(Frames),
         \A g, j, h, k \in Nat : InLine(qs, tt, g, j) /\ InLine(qs, tt, h, k) =>
           SameOrder(ps, st, qs, tt, g, j, h, k)
  PROVE  \A x, y \in NamesIn(qs, tt) : <<x, y>> \in Line(qs, tt) <=> <<x, y>> \in Line(ps, st)
<1> SUFFICES ASSUME NEW x \in NamesIn(qs, tt), NEW y \in NamesIn(qs, tt)
             PROVE  <<x, y>> \in Line(qs, tt) <=> <<x, y>> \in Line(ps, st)
  OBVIOUS
<1>1. ASSUME NEW g \in Nat, NEW j \in Nat, NEW h \in Nat, NEW k \in Nat,
             InLine(qs, tt, g, j), LineId(qs, tt, g, j) = x,
             InLine(qs, tt, h, k), LineId(qs, tt, h, k) = y
      PROVE  <<x, y>> \in Line(ps, st) <=> Ahead(g, j, h, k)
  <2>1. PICK f1 \in Nat, i1 \in Nat, f2 \in Nat, i2 \in Nat :
          /\ InLine(ps, st, f1, i1) /\ LineId(ps, st, f1, i1) = x
          /\ InLine(ps, st, f2, i2) /\ LineId(ps, st, f2, i2) = y
          /\ Ahead(g, j, h, k) <=> Ahead(f1, i1, f2, i2)
    <3>1. SameOrder(ps, st, qs, tt, g, j, h, k)
      BY <1>1
    <3> QED BY <1>1, <3>1 DEF SameOrder
  <2>2. x \in NamesIn(ps, st) /\ y \in NamesIn(ps, st)
    <3>1. /\ \E f, i \in Nat : InLine(ps, st, f, i) /\ LineId(ps, st, f, i) = x
          /\ \E f, i \in Nat : InLine(ps, st, f, i) /\ LineId(ps, st, f, i) = y
      BY <2>1
    <3> QED BY <3>1, LineNames
  <2>3. <<x, y>> \in Line(ps, st) <=>
          \E a, m, c, n \in Nat : /\ InLine(ps, st, a, m) /\ LineId(ps, st, a, m) = x
                                  /\ InLine(ps, st, c, n) /\ LineId(ps, st, c, n) = y
                                  /\ Ahead(a, m, c, n)
    BY <2>2 DEF Line
  <2>4. ASSUME NEW a \in Nat, NEW m \in Nat, InLine(ps, st, a, m), LineId(ps, st, a, m) = x
        PROVE  a = f1 /\ m = i1
    BY <2>1, <2>4, LineUnique
  <2>5. ASSUME NEW a \in Nat, NEW m \in Nat, InLine(ps, st, a, m), LineId(ps, st, a, m) = y
        PROVE  a = f2 /\ m = i2
    BY <2>1, <2>5, LineUnique
  <2>6. Ahead(f1, i1, f2, i2) => <<x, y>> \in Line(ps, st)
    BY <2>1, <2>3
  <2>7. <<x, y>> \in Line(ps, st) => Ahead(f1, i1, f2, i2)
    BY <2>3, <2>4, <2>5
  <2> QED BY <2>1, <2>6, <2>7
<1>2. <<x, y>> \in Line(qs, tt) <=>
        \E a, m, c, n \in Nat : /\ InLine(qs, tt, a, m) /\ LineId(qs, tt, a, m) = x
                                /\ InLine(qs, tt, c, n) /\ LineId(qs, tt, c, n) = y
                                /\ Ahead(a, m, c, n)
  BY DEF Line
<1>3. PICK g \in Nat, j \in Nat : InLine(qs, tt, g, j) /\ LineId(qs, tt, g, j) = x
  BY LineNames
<1>4. PICK h \in Nat, k \in Nat : InLine(qs, tt, h, k) /\ LineId(qs, tt, h, k) = y
  BY LineNames
<1> QED BY <1>1, <1>2, <1>3, <1>4

(* The steps that move stops. *)
LEMMA LineCancel ==
  ASSUME NEW b, NEW ps \in Seq(Orders), Apart(b, ps, <<>>), NEW m \in 1..Len(ps)
  PROVE  LET qs == RemoveAt(ps, m)
         IN  \A x, y \in NamesIn(qs, <<>>) :
               <<x, y>> \in Line(qs, <<>>) <=> <<x, y>> \in Line(ps, <<>>)
<1> DEFINE qs == RemoveAt(ps, m)
           st == <<>>
           I(j) == IF j < m THEN j ELSE j + 1
<1>1. /\ Len(ps) \in Nat /\ Len(qs) = Len(ps) - 1 /\ qs \in Seq(Orders) /\ m \in Nat
      /\ \A j \in 1..(Len(ps) - 1) : qs[j] = IF j < m THEN ps[j] ELSE ps[j + 1]
  BY RemoveAtFields
<1> HIDE DEF qs
<1>2. st \in Seq(Frames) /\ Len(st) = 0 /\ 0 \in 0..Len(st) /\ 0 \in Nat
  OBVIOUS
<1> HIDE DEF st
<1>3. Row(ps, st, 0) = ps /\ Row(qs, st, 0) = qs
  BY DEF Row
<1>4. ASSUME NEW g \in Nat, NEW j \in Nat, InLine(qs, st, g, j)
      PROVE  /\ g = 0 /\ I(j) \in Nat
             /\ InLine(ps, st, 0, I(j)) /\ LineId(ps, st, 0, I(j)) = LineId(qs, st, g, j)
  <2>1. g = 0 /\ j \in 1..(Len(ps) - 1)
    BY <1>1, <1>2, <1>4 DEF InLine, Row
  <2>2. I(j) \in 1..Len(ps) /\ I(j) \in Nat /\ qs[j] = ps[I(j)]
    BY <1>1, <2>1
  <2> HIDE DEF I
  <2> QED BY <1>2, <1>3, <2>1, <2>2 DEF InLine, LineId
<1>5. ASSUME NEW g \in Nat, NEW j \in Nat, NEW h \in Nat, NEW k \in Nat,
             InLine(qs, st, g, j), InLine(qs, st, h, k)
      PROVE  SameOrder(ps, st, qs, st, g, j, h, k)
  <2>1. Ahead(g, j, h, k) <=> Ahead(0, I(j), 0, I(k))
    <3>1. g = 0 /\ h = 0
      BY <1>4, <1>5
    <3> QED BY <1>1, <3>1 DEF Ahead
  <2> HIDE DEF I
  <2> QED BY <1>2, <1>4, <1>5, <2>1 DEF SameOrder
<1>6. Apart(b, ps, st)
  BY DEF st
<1>7. \A x, y \in NamesIn(qs, st) : <<x, y>> \in Line(qs, st) <=> <<x, y>> \in Line(ps, st)
  BY <1>1, <1>2, <1>5, <1>6, LineMoves
<1> QED BY <1>7 DEF qs, st

LEMMA LineFill ==
  ASSUME NEW b, NEW ps \in Seq(Orders), NEW st \in Seq(Frames), Apart(b, ps, st),
         st # <<>>, st[1].working = <<>>, NEW fr \in Frames, NEW qs,
         \/ fr.working = <<>> /\ qs = ps
         \/ fr.working = ps /\ qs = <<>>
  PROVE  LET tt == [st EXCEPT ![1] = fr]
         IN  \A x, y \in NamesIn(qs, tt) :
               <<x, y>> \in Line(qs, tt) <=> <<x, y>> \in Line(ps, st)
<1> DEFINE tt == [st EXCEPT ![1] = fr]
           F(g) == IF g = 1 THEN 0 ELSE g
<1>1. /\ Len(tt) = Len(st) /\ Len(st) \in Nat \ {0} /\ tt[1] = fr /\ tt \in Seq(Frames)
      /\ \A f \in 1..Len(st) : f # 1 => tt[f] = st[f]
  BY ReplaceTop
<1>2. qs \in Seq(Orders) /\ Len(<<>>) = 0
  <2>1. <<>> \in Seq(Orders) /\ Len(<<>>) = 0
    OBVIOUS
  <2> QED BY <2>1
<1> HIDE DEF tt
<1>3. ASSUME NEW g \in Nat, NEW j \in Nat, InLine(qs, tt, g, j), g # 0, g # 1
      PROVE  InLine(ps, st, g, j) /\ LineId(ps, st, g, j) = LineId(qs, tt, g, j)
  <2>1. g \in 1..Len(st) /\ g \in 0..Len(st)
    BY <1>1, <1>3 DEF InLine
  <2>2. Row(qs, tt, g) = Row(ps, st, g)
    BY <1>1, <1>3, <2>1 DEF Row
  <2> QED BY <1>3, <2>1, <2>2 DEF InLine, LineId
<1>4. CASE fr.working = <<>> /\ qs = ps
  <2>1. ASSUME NEW g \in Nat, NEW j \in Nat, InLine(qs, tt, g, j)
        PROVE  InLine(ps, st, g, j) /\ LineId(ps, st, g, j) = LineId(qs, tt, g, j)
    <3>1. CASE g = 0
      BY <1>1, <1>4, <2>1, <3>1 DEF InLine, LineId, Row
    <3>2. CASE g = 1
      BY <1>1, <1>2, <1>4, <2>1, <3>2 DEF InLine, Row
    <3> QED BY <1>3, <2>1, <3>1, <3>2
  <2>2. ASSUME NEW g \in Nat, NEW j \in Nat, NEW h \in Nat, NEW k \in Nat,
               InLine(qs, tt, g, j), InLine(qs, tt, h, k)
        PROVE  SameOrder(ps, st, qs, tt, g, j, h, k)
    BY <2>1, <2>2 DEF SameOrder
  <2>3. \A x, y \in NamesIn(qs, tt) : <<x, y>> \in Line(qs, tt) <=> <<x, y>> \in Line(ps, st)
    BY <1>1, <1>2, <2>2, LineMoves
  <2> QED BY <2>3 DEF tt
<1>5. CASE fr.working = ps /\ qs = <<>>
  <2>1. ASSUME NEW g \in Nat, NEW j \in Nat, InLine(qs, tt, g, j)
        PROVE  /\ g # 0 /\ F(g) \in Nat
               /\ InLine(ps, st, F(g), j) /\ LineId(ps, st, F(g), j) = LineId(qs, tt, g, j)
    <3>1. g # 0
      BY <1>2, <1>5, <2>1 DEF InLine, Row
    <3>2. CASE g = 1
      <4>1. Row(qs, tt, g) = ps /\ Row(ps, st, 0) = ps /\ F(g) = 0 /\ 0 \in 0..Len(st)
        BY <1>1, <1>5, <3>2 DEF Row
      <4> HIDE DEF F
      <4> QED BY <2>1, <3>1, <4>1 DEF InLine, LineId
    <3>3. CASE g # 1
      BY <1>3, <2>1, <3>1, <3>3
    <3> QED BY <3>2, <3>3
  <2>2. ASSUME NEW g \in Nat, NEW j \in Nat, NEW h \in Nat, NEW k \in Nat,
               InLine(qs, tt, g, j), InLine(qs, tt, h, k)
        PROVE  SameOrder(ps, st, qs, tt, g, j, h, k)
    <3>1. Ahead(g, j, h, k) <=> Ahead(F(g), j, F(h), k)
      <4>1. g # 0 /\ h # 0
        BY <2>1, <2>2
      <4> QED BY <4>1 DEF Ahead
    <3> HIDE DEF F
    <3> QED BY <2>1, <2>2, <3>1 DEF SameOrder
  <2>3. \A x, y \in NamesIn(qs, tt) : <<x, y>> \in Line(qs, tt) <=> <<x, y>> \in Line(ps, st)
    BY <1>1, <1>2, <2>2, LineMoves
  <2> QED BY <2>3 DEF tt
<1> QED BY <1>4, <1>5

LEMMA LineKeep ==
  ASSUME NEW b, NEW ps \in Seq(Orders), NEW st \in Seq(Frames), Apart(b, ps, st),
         st # <<>>, st[1].working # <<>>
  PROVE  LET qs == Append(ps, Head(st[1].working))
             tt == [st EXCEPT ![1].working = Tail(st[1].working)]
         IN  \A x, y \in NamesIn(qs, tt) :
               <<x, y>> \in Line(qs, tt) <=> <<x, y>> \in Line(ps, st)
<1> DEFINE w  == st[1].working
           tt == [st EXCEPT ![1].working = Tail(st[1].working)]
           qs == Append(ps, Head(w))
           n  == Len(ps)
           F(g, j) == IF g = 0 /\ j = n + 1 THEN 1 ELSE g
           I(g, j) == IF g = 0 /\ j = n + 1 THEN 1 ELSE IF g = 1 THEN j + 1 ELSE j
<1>1. /\ tt \in Seq(Frames) /\ Len(tt) = Len(st) /\ Len(st) \in Nat \ {0}
      /\ Len(tt[1].working) = Len(w) - 1 /\ Len(w) \in Nat \ {0}
      /\ \A i \in 1..(Len(w) - 1) : tt[1].working[i] = w[i + 1]
      /\ Head(w) = w[1] /\ Head(w) \in Orders
      /\ \A f \in 1..Len(st) : f # 1 => tt[f] = st[f]
  BY AdvancedFields
<1>2. /\ n \in Nat /\ Len(qs) = n + 1 /\ qs \in Seq(Orders)
      /\ \A i \in 1..n : qs[i] = ps[i]
      /\ qs[n + 1] = w[1]
  BY <1>1, AppendProperties
<1>3. /\ Row(qs, tt, 0) = qs /\ Row(ps, st, 0) = ps
      /\ Row(qs, tt, 1) = tt[1].working /\ Row(ps, st, 1) = w
      /\ 0 \in 0..Len(st) /\ 1 \in 0..Len(st)
  BY <1>1 DEF Row
<1> HIDE DEF tt, qs, w
<1>4. ASSUME NEW g \in Nat, NEW j \in Nat, InLine(qs, tt, g, j)
      PROVE  /\ j # 0 /\ (g = 0 => j <= n + 1) /\ F(g, j) \in Nat /\ I(g, j) \in Nat
             /\ InLine(ps, st, F(g, j), I(g, j))
             /\ LineId(ps, st, F(g, j), I(g, j)) = LineId(qs, tt, g, j)
  <2>1. g \in 0..Len(st) /\ j \in 1..Len(Row(qs, tt, g)) /\ j # 0
    BY <1>1, <1>4 DEF InLine
  <2>2. F(g, j) \in Nat /\ I(g, j) \in Nat
    OBVIOUS
  <2>3. CASE g = 0
    <3>1. j \in 1..(n + 1)
      BY <1>2, <1>3, <2>1, <2>3
    <3>2. CASE j = n + 1
      <4>1. F(g, j) = 1 /\ I(g, j) = 1 /\ 1 \in 1..Len(w) /\ qs[j] = w[1]
        BY <1>1, <1>2, <2>3, <3>2
      <4> HIDE DEF F, I
      <4> QED BY <1>2, <1>3, <2>1, <2>2, <2>3, <3>1, <3>2, <4>1 DEF InLine, LineId
    <3>3. CASE j # n + 1
      <4>1. F(g, j) = 0 /\ I(g, j) = j /\ j \in 1..n /\ qs[j] = ps[j] /\ j <= n + 1
        BY <1>2, <2>3, <3>1, <3>3
      <4> HIDE DEF F, I
      <4> QED BY <1>3, <2>1, <2>2, <2>3, <4>1 DEF InLine, LineId
    <3> QED BY <3>2, <3>3
  <2>4. CASE g = 1
    <3>1. j \in 1..(Len(w) - 1) /\ j + 1 \in 1..Len(w) /\ F(g, j) = 1 /\ I(g, j) = j + 1
      BY <1>1, <1>3, <2>1, <2>4
    <3> HIDE DEF F, I
    <3> QED BY <1>1, <1>3, <2>1, <2>2, <2>4, <3>1 DEF InLine, LineId
  <2>5. CASE g # 0 /\ g # 1
    <3>1. g \in 1..Len(st) /\ F(g, j) = g /\ I(g, j) = j
      BY <1>1, <2>1, <2>5
    <3>2. Row(qs, tt, g) = Row(ps, st, g)
      BY <1>1, <2>5, <3>1 DEF Row
    <3> HIDE DEF F, I
    <3> QED BY <2>1, <2>2, <2>5, <3>1, <3>2 DEF InLine, LineId
  <2> QED BY <2>3, <2>4, <2>5
<1>5. ASSUME NEW g \in Nat, NEW j \in Nat, NEW h \in Nat, NEW k \in Nat,
             InLine(qs, tt, g, j), InLine(qs, tt, h, k)
      PROVE  SameOrder(ps, st, qs, tt, g, j, h, k)
  <2>1. Ahead(g, j, h, k) <=> Ahead(F(g, j), I(g, j), F(h, k), I(h, k))
    <3>1. (g = 0 => j <= n + 1) /\ (h = 0 => k <= n + 1) /\ j # 0 /\ k # 0
      BY <1>4, <1>5
    <3> HIDE DEF n
    <3> QED BY <1>2, <3>1 DEF Ahead
  <2> HIDE DEF F, I
  <2> QED BY <1>4, <1>5, <2>1 DEF SameOrder
<1>6. \A x, y \in NamesIn(qs, tt) : <<x, y>> \in Line(qs, tt) <=> <<x, y>> \in Line(ps, st)
  BY <1>1, <1>2, <1>5, LineMoves
<1> QED BY <1>6 DEF tt, qs, w

LEMMA LineTrigger ==
  ASSUME NEW b, NEW ps \in Seq(Orders), NEW st \in Seq(Frames), Apart(b, ps, st),
         st # <<>>, st[1].working # <<>>, NEW fr \in Frames, fr.working = <<>>
  PROVE  LET tt == <<fr>> \o [st EXCEPT ![1].working = Tail(st[1].working)]
         IN  \A x, y \in NamesIn(ps, tt) :
               <<x, y>> \in Line(ps, tt) <=> <<x, y>> \in Line(ps, st)
<1> DEFINE w   == st[1].working
           adv == [st EXCEPT ![1].working = Tail(st[1].working)]
           tt  == <<fr>> \o adv
           F(g) == IF g = 0 THEN 0 ELSE g - 1
           I(g, j) == IF g = 2 THEN j + 1 ELSE j
<1>1. /\ adv \in Seq(Frames) /\ Len(adv) = Len(st) /\ Len(st) \in Nat \ {0}
      /\ Len(adv[1].working) = Len(w) - 1 /\ Len(w) \in Nat \ {0}
      /\ \A i \in 1..(Len(w) - 1) : adv[1].working[i] = w[i + 1]
      /\ \A f \in 1..Len(st) : f # 1 => adv[f] = st[f]
  BY AdvancedFields
<1> HIDE DEF adv
<1>2. /\ tt \in Seq(Frames) /\ Len(tt) = Len(st) + 1 /\ tt[1] = fr
      /\ \A f \in 1..Len(st) : tt[f + 1] = adv[f]
  BY <1>1
<1> HIDE DEF tt, w
<1>3. /\ Row(ps, tt, 0) = ps /\ Row(ps, st, 0) = ps
      /\ Row(ps, tt, 1) = <<>> /\ Row(ps, st, 1) = w
      /\ Row(ps, tt, 2) = adv[1].working
      /\ 0 \in 0..Len(st) /\ 1 \in 0..Len(st) /\ Len(<<>>) = 0
  <2>1. tt[2] = adv[1]
    BY <1>1, <1>2
  <2> QED BY <1>1, <1>2, <2>1 DEF Row, w
<1>4. ASSUME NEW g \in Nat, NEW j \in Nat, InLine(ps, tt, g, j)
      PROVE  /\ g # 1 /\ F(g) \in Nat /\ I(g, j) \in Nat
             /\ InLine(ps, st, F(g), I(g, j))
             /\ LineId(ps, st, F(g), I(g, j)) = LineId(ps, tt, g, j)
  <2>1. g \in 0..(Len(st) + 1) /\ j \in 1..Len(Row(ps, tt, g))
    BY <1>2, <1>4 DEF InLine
  <2>2. F(g) \in Nat /\ I(g, j) \in Nat
    OBVIOUS
  <2>3. g # 1
    BY <1>3, <2>1
  <2>4. CASE g = 0
    <3>1. F(g) = 0 /\ I(g, j) = j
      BY <2>4
    <3> HIDE DEF F, I
    <3> QED BY <1>3, <2>1, <2>2, <2>3, <2>4, <3>1 DEF InLine, LineId
  <2>5. CASE g = 2
    <3>1. j \in 1..(Len(w) - 1) /\ j + 1 \in 1..Len(w) /\ F(g) = 1 /\ I(g, j) = j + 1
      BY <1>1, <1>3, <2>1, <2>5
    <3> HIDE DEF F, I
    <3> QED BY <1>1, <1>3, <2>1, <2>2, <2>3, <2>5, <3>1 DEF InLine, LineId
  <2>6. CASE g # 0 /\ g # 2
    <3>1. /\ g - 1 \in 1..Len(st) /\ g - 1 # 1 /\ g - 1 # 0 /\ (g - 1) + 1 = g
          /\ F(g) = g - 1 /\ I(g, j) = j /\ g - 1 \in 0..Len(st)
      BY <1>1, <2>1, <2>3, <2>6
    <3>2. tt[g] = st[g - 1]
      BY <1>1, <1>2, <3>1
    <3>3. Row(ps, tt, g) = Row(ps, st, g - 1)
      BY <2>6, <3>1, <3>2 DEF Row
    <3> HIDE DEF F, I
    <3> QED BY <2>1, <2>2, <2>3, <3>1, <3>3 DEF InLine, LineId
  <2> QED BY <2>4, <2>5, <2>6
<1>5. ASSUME NEW g \in Nat, NEW j \in Nat, NEW h \in Nat, NEW k \in Nat,
             InLine(ps, tt, g, j), InLine(ps, tt, h, k)
      PROVE  SameOrder(ps, st, ps, tt, g, j, h, k)
  <2>1. Ahead(g, j, h, k) <=> Ahead(F(g), I(g, j), F(h), I(h, k))
    <3>1. g # 1 /\ h # 1
      BY <1>4, <1>5
    <3> QED BY <3>1 DEF Ahead
  <2> HIDE DEF F, I
  <2> QED BY <1>4, <1>5, <2>1 DEF SameOrder
<1>6. \A x, y \in NamesIn(ps, tt) : <<x, y>> \in Line(ps, tt) <=> <<x, y>> \in Line(ps, st)
  BY <1>2, <1>5, LineMoves
<1> QED BY <1>6 DEF tt, adv

LEMMA LineFinish ==
  ASSUME NEW b, NEW ps \in Seq(Orders), NEW st \in Seq(Frames), Apart(b, ps, st),
         st # <<>>
  PROVE  \A x, y \in NamesIn(ps, Tail(st)) :
           <<x, y>> \in Line(ps, Tail(st)) <=> <<x, y>> \in Line(ps, st)
<1> DEFINE tt == Tail(st)
           F(g) == IF g = 0 THEN 0 ELSE g + 1
<1>1. /\ tt \in Seq(Frames) /\ Len(tt) = Len(st) - 1 /\ Len(st) \in Nat \ {0}
      /\ \A f \in 1..(Len(st) - 1) : tt[f] = st[f + 1]
  BY HeadTailProperties
<1> HIDE DEF tt
<1>2. ASSUME NEW g \in Nat, NEW j \in Nat, InLine(ps, tt, g, j)
      PROVE  /\ F(g) \in Nat
             /\ InLine(ps, st, F(g), j) /\ LineId(ps, st, F(g), j) = LineId(ps, tt, g, j)
  <2>1. g \in 0..(Len(st) - 1) /\ j \in 1..Len(Row(ps, tt, g)) /\ F(g) \in Nat
    BY <1>1, <1>2 DEF InLine
  <2>2. F(g) \in 0..Len(st)
    BY <1>1, <2>1
  <2>3. Row(ps, tt, g) = Row(ps, st, F(g))
    <3>1. CASE g = 0
      BY <3>1 DEF Row
    <3>2. CASE g # 0
      <4>1. g \in 1..(Len(st) - 1) /\ g + 1 # 0
        BY <1>1, <2>1, <3>2
      <4> QED BY <1>1, <3>2, <4>1 DEF Row
    <3> QED BY <3>1, <3>2
  <2> HIDE DEF F
  <2> QED BY <2>1, <2>2, <2>3 DEF InLine, LineId
<1>3. ASSUME NEW g \in Nat, NEW j \in Nat, NEW h \in Nat, NEW k \in Nat,
             InLine(ps, tt, g, j), InLine(ps, tt, h, k)
      PROVE  SameOrder(ps, st, ps, tt, g, j, h, k)
  <2>1. Ahead(g, j, h, k) <=> Ahead(F(g), j, F(h), k)
    BY DEF Ahead
  <2> HIDE DEF F
  <2> QED BY <1>2, <1>3, <2>1 DEF SameOrder
<1>4. \A x, y \in NamesIn(ps, tt) : <<x, y>> \in Line(ps, tt) <=> <<x, y>> \in Line(ps, st)
  BY <1>1, <1>3, LineMoves
<1> QED BY <1>4 DEF tt

(* A new stop is last in line. *)
LEMMA LineAppend ==
  ASSUME NEW ps \in Seq(Orders), NEW order \in Orders, order.id \notin NamesIn(ps, <<>>),
         NEW b, Apart(b, ps, <<>>)
  PROVE  LET qs == Append(ps, order)
             x  == order.id
         IN  /\ \A y, z \in NamesIn(ps, <<>>) :
                  <<y, z>> \in Line(qs, <<>>) <=> <<y, z>> \in Line(ps, <<>>)
             /\ \A y \in NamesIn(ps, <<>>) : <<y, x>> \in Line(qs, <<>>) /\ <<x, y>> \notin Line(qs, <<>>)
             /\ <<x, x>> \notin Line(qs, <<>>)
<1> DEFINE qs == Append(ps, order)
           x  == order.id
           st == <<>>
           n  == Len(ps)
<1>1. /\ n \in Nat /\ Len(qs) = n + 1 /\ qs \in Seq(Orders)
      /\ \A i \in 1..n : qs[i] = ps[i]
      /\ qs[n + 1] = order
  BY AppendProperties
<1>2. st \in Seq(Frames) /\ Len(st) = 0 /\ 0 \in 0..Len(st) /\ 0 \in Nat /\ 0..Len(st) = {0}
  OBVIOUS
<1>3. NamesIn(qs, st) = NamesIn(ps, st) \cup {x}
  BY MembersAppend, MembersEmpty DEF NamesIn, Waiting
<1> HIDE DEF qs, st, x
(* In line means among the pending stops. *)
<1>4. ASSUME NEW rs \in Seq(Orders), NEW f \in Nat, NEW i \in Nat
      PROVE  /\ InLine(rs, st, f, i) <=> f = 0 /\ i \in 1..Len(rs)
             /\ LineId(rs, st, 0, i) = rs[i].id
  BY <1>2 DEF InLine, LineId, Row
<1>5. ASSUME NEW rs \in Seq(Orders), NEW y \in NamesIn(rs, st), NEW z \in NamesIn(rs, st)
      PROVE  <<y, z>> \in Line(rs, st) <=>
               \E i, j \in 1..Len(rs) : rs[i].id = y /\ rs[j].id = z /\ i < j
  <2>1. <<y, z>> \in Line(rs, st) <=>
          \E f, i, g, j \in Nat : /\ InLine(rs, st, f, i) /\ LineId(rs, st, f, i) = y
                                  /\ InLine(rs, st, g, j) /\ LineId(rs, st, g, j) = z
                                  /\ Ahead(f, i, g, j)
    BY DEF Line
  <2>2. \A i, j \in Nat : Ahead(0, i, 0, j) <=> i < j
    BY DEF Ahead
  <2>3. 1..Len(rs) \subseteq Nat
    BY <1>2
  <2>4. <<y, z>> \in Line(rs, st) =>
          \E i, j \in 1..Len(rs) : rs[i].id = y /\ rs[j].id = z /\ i < j
    BY <1>4, <2>1, <2>2
  <2>5. ASSUME NEW i \in 1..Len(rs), NEW j \in 1..Len(rs), rs[i].id = y, rs[j].id = z, i < j
        PROVE  <<y, z>> \in Line(rs, st)
    <3>1. /\ InLine(rs, st, 0, i) /\ LineId(rs, st, 0, i) = y
          /\ InLine(rs, st, 0, j) /\ LineId(rs, st, 0, j) = z
          /\ Ahead(0, i, 0, j) /\ i \in Nat /\ j \in Nat
      BY <1>4, <2>2, <2>3, <2>5
    <3> QED BY <1>2, <2>1, <3>1
  <2> QED BY <2>4, <2>5
<1>5a. \A y, z \in NamesIn(qs, st) : <<y, z>> \in Line(qs, st) <=>
         \E i, j \in 1..Len(qs) : qs[i].id = y /\ qs[j].id = z /\ i < j
  BY <1>1, <1>5
<1>6. \A i \in 1..n : ps[i].id \in NamesIn(ps, st)
  BY DEF NamesIn, Waiting, Members
<1>7. \A y \in NamesIn(ps, st) : \E i \in 1..n : ps[i].id = y
  BY MembersEmpty DEF NamesIn, Waiting, Members, st
<1>8. x \notin NamesIn(ps, st)
  BY DEF x, st
<1>9. /\ \A i \in 1..(n + 1) : i \in 1..n \/ i = n + 1
      /\ 1..n \subseteq 1..(n + 1) /\ n + 1 \in 1..(n + 1)
      /\ \A i \in 1..n : i < n + 1
      /\ \A i \in 1..(n + 1) : ~(n + 1 < i)
  BY <1>1
<1>10. qs[n + 1].id = x /\ \A i \in 1..n : qs[i].id # x
  BY <1>1, <1>6, <1>8 DEF x
<1> HIDE DEF n
<1>11. ASSUME NEW y \in NamesIn(ps, st), NEW z \in NamesIn(ps, st)
       PROVE  <<y, z>> \in Line(qs, st) <=> <<y, z>> \in Line(ps, st)
  <2>1. <<y, z>> \in Line(qs, st) <=>
          \E i, j \in 1..(n + 1) : qs[i].id = y /\ qs[j].id = z /\ i < j
    BY <1>1, <1>3, <1>5a
  <2>2. <<y, z>> \in Line(ps, st) <=>
          \E i, j \in 1..n : ps[i].id = y /\ ps[j].id = z /\ i < j
    BY <1>5 DEF n
  <2> QED BY <1>1, <1>8, <1>9, <1>10, <2>1, <2>2
<1>12. ASSUME NEW y \in NamesIn(ps, st)
       PROVE  <<y, x>> \in Line(qs, st) /\ <<x, y>> \notin Line(qs, st)
  <2>0. x \in NamesIn(qs, st) /\ y \in NamesIn(qs, st)
    BY <1>3
  <2>1. <<y, x>> \in Line(qs, st) <=>
          \E i, j \in 1..Len(qs) : qs[i].id = y /\ qs[j].id = x /\ i < j
    BY <1>5a, <2>0
  <2>5. <<x, y>> \in Line(qs, st) <=>
          \E i, j \in 1..Len(qs) : qs[i].id = x /\ qs[j].id = y /\ i < j
    BY <1>5a, <2>0
  <2>2. PICK i \in 1..n : ps[i].id = y
    BY <1>7
  <2>3. <<y, x>> \in Line(qs, st)
    BY <1>1, <1>9, <1>10, <2>1, <2>2
  <2>4. <<x, y>> \notin Line(qs, st)
    BY <1>1, <1>9, <1>10, <2>5
  <2> QED BY <2>3, <2>4
<1>13. <<x, x>> \notin Line(qs, st)
  <2>0. x \in NamesIn(qs, st)
    BY <1>3
  <2>1. <<x, x>> \in Line(qs, st) <=>
          \E i, j \in 1..Len(qs) : qs[i].id = x /\ qs[j].id = x /\ i < j
    BY <1>5a, <2>0
  <2>2. \A i \in 1..Len(qs) : qs[i].id = x => ~(i < i) /\ i = n + 1
    BY <1>1, <1>9, <1>10
  <2> QED BY <2>1, <2>2
<1> QED BY <1>11, <1>12, <1>13 DEF qs, st, x

(* The order that enters the matching loop is not in line. *)
LEMMA LineEnter ==
  ASSUME NEW b, NEW ps \in Seq(Orders), Apart(b, ps, <<>>),
         NEW fr \in Frames, fr.working = <<>>
  PROVE  \A x, y \in NamesIn(ps, <<fr>>) :
           <<x, y>> \in Line(ps, <<fr>>) <=> <<x, y>> \in Line(ps, <<>>)
<1> DEFINE tt == <<fr>>
           st == <<>>
<1>1. /\ tt \in Seq(Frames) /\ Len(tt) = 1 /\ tt[1] = fr
      /\ st \in Seq(Frames) /\ Len(st) = 0 /\ Len(<<>>) = 0
  OBVIOUS
<1>2. Apart(b, ps, st)
  OBVIOUS
<1> HIDE DEF tt, st
<1>3. ASSUME NEW g \in Nat, NEW j \in Nat, InLine(ps, tt, g, j)
      PROVE  InLine(ps, st, g, j) /\ LineId(ps, st, g, j) = LineId(ps, tt, g, j)
  <2>1. g = 0 \/ g = 1
    BY <1>1, <1>3 DEF InLine
  <2>2. g # 1
    BY <1>1, <1>3 DEF InLine, Row
  <2>3. g = 0 /\ 0 \in 0..Len(st)
    BY <1>1, <2>1, <2>2
  <2> QED BY <1>3, <2>3 DEF InLine, LineId, Row
<1>4. ASSUME NEW g \in Nat, NEW j \in Nat, NEW h \in Nat, NEW k \in Nat,
             InLine(ps, tt, g, j), InLine(ps, tt, h, k)
      PROVE  SameOrder(ps, st, ps, tt, g, j, h, k)
  BY <1>3, <1>4 DEF SameOrder
<1>5. \A x, y \in NamesIn(ps, tt) : <<x, y>> \in Line(ps, tt) <=> <<x, y>> \in Line(ps, st)
  BY <1>1, <1>2, <1>4, LineMoves
<1> QED BY <1>5 DEF tt, st

LEMMA ListsSame ==
  ASSUME NEW arr, NEW names, NEW rel, Lists(arr, names, rel), NEW rel2,
         \A x, y \in names : <<x, y>> \in rel2 <=> <<x, y>> \in rel
  PROVE  Lists(arr, names, rel2)
  BY DEF Lists

LEMMA NewArrived ==
  ASSUME "ids" \in Discipline, Inv, Arrived, Idle, NEW b, NEW order \in Orders,
         process_new_order(b, order)
  PROVE  Arrived'
<1>1. /\ stack = <<>> /\ pending_stops \in Seq(Orders) /\ stop_arrivals \in Seq(Ids)
      /\ Apart(book, pending_stops, <<>>) /\ order.id \in Ids
  BY OrderFields DEF Idle, Inv, TypeOK
<1>2. CASE Waits(b, order)
  <2>1. /\ pending_stops' = Append(pending_stops, order) /\ stack' = <<>>
        /\ stop_arrivals' = Append(stop_arrivals, order.id)
    BY <1>1, <1>2 DEF process_new_order
  <2>2. Waiting(pending_stops', stack') = Waiting(pending_stops, stack) \cup {order}
    BY <1>2, NewEffect
  <2> DEFINE names == NamesIn(pending_stops, <<>>)
             x     == order.id
             rel2  == Line(Append(pending_stops, order), <<>>)
  <2>3. x \notin names
    <3>1. \A i \in 1..Len(pending_stops) : pending_stops[i].id # x
      BY DEF process_new_order, CleanIn
    <3> QED BY <3>1, MembersEmpty DEF NamesIn, Waiting, Members
  <2>4. /\ \A y, z \in names : <<y, z>> \in rel2 <=> <<y, z>> \in Line(pending_stops, <<>>)
        /\ \A y \in names : <<y, x>> \in rel2 /\ <<x, y>> \notin rel2
        /\ <<x, x>> \notin rel2
    BY <1>1, <2>3, LineAppend
  <2>5. Lists(stop_arrivals, names, Line(pending_stops, <<>>))
    BY <1>1 DEF Arrived
  <2>6. NamesIn(pending_stops', stack') = names \cup {x}
    BY <1>1, <2>2 DEF NamesIn
  <2> HIDE DEF names, rel2, x
  <2>7. x \in Ids
    BY <1>1 DEF x
  <2>8. Lists(Append(stop_arrivals, x), names \cup {x}, rel2)
    BY <1>1, <2>3, <2>4, <2>5, <2>7, ListsAppend
  <2> QED BY <2>1, <2>6, <2>8 DEF Arrived, rel2, x
<1>3. CASE ~Waits(b, order)
  <2>1. /\ pending_stops' = pending_stops /\ stack' = <<Enter(order)>>
        /\ stop_arrivals' = stop_arrivals
    BY <1>3 DEF process_new_order
  <2>2. Waiting(pending_stops', stack') = Waiting(pending_stops, stack)
    BY <1>3, NewEffect
  <2>3. PICK o \in Orders : Enter(order) = Activation(o)
    BY EnterType
  <2> DEFINE act == Enter(order)
  <2>4. act \in Frames /\ act.working = <<>>
    BY <2>3, ActivationType
  <2> HIDE DEF act
  <2>5. \A x, y \in NamesIn(pending_stops, <<act>>) :
          <<x, y>> \in Line(pending_stops, <<act>>) <=> <<x, y>> \in Line(pending_stops, <<>>)
    BY <1>1, <2>4, LineEnter
  <2>6. NamesIn(pending_stops, <<act>>) = NamesIn(pending_stops, <<>>)
    BY <1>1, <2>1, <2>2 DEF NamesIn, act
  <2>7. Lists(stop_arrivals, NamesIn(pending_stops, <<act>>), Line(pending_stops, <<act>>))
    BY <1>1, <2>5, <2>6, ListsSame DEF Arrived
  <2> QED BY <2>1, <2>7 DEF Arrived, act
<1> QED BY <1>2, <1>3

LEMMA CancelArrived ==
  ASSUME Inv, Arrived, NEW id \in Ids, CancelPending(id)
  PROVE  Arrived'
<1>1. PICK i \in 1..Len(pending_stops) :
        /\ pending_stops' = RemoveAt(pending_stops, i)
        /\ stop_arrivals' = RemoveFirst(stop_arrivals, id)
  BY DEF CancelPending
<1>2. /\ stack = <<>> /\ stack' = <<>> /\ pending_stops \in Seq(Orders)
      /\ stop_arrivals \in Seq(Ids) /\ Apart(book, pending_stops, <<>>)
  BY DEF CancelPending, Idle, Inv, TypeOK
<1> DEFINE names == NamesIn(pending_stops, <<>>)
           qs    == RemoveAt(pending_stops, i)
           rest  == NamesIn(qs, <<>>)
<1>3. names = rest \cup {id} /\ id \notin rest
  <2>1. PICK stop \in Waiting(pending_stops, stack) :
          /\ stop.id = id
          /\ Waiting(pending_stops, stack) = Waiting(pending_stops', stack') \cup {stop}
          /\ \A o \in Waiting(pending_stops', stack') : o.id # id
    BY CancelPendingEffect
  <2> QED BY <1>1, <1>2, <2>1 DEF NamesIn
<1>4. \A x, y \in rest : <<x, y>> \in Line(qs, <<>>) <=> <<x, y>> \in Line(pending_stops, <<>>)
  BY <1>2, LineCancel
<1>5. Lists(stop_arrivals, names, Line(pending_stops, <<>>))
  BY <1>2 DEF Arrived
<1> HIDE DEF names, rest, qs
<1>6. Lists(RemoveFirst(stop_arrivals, id), rest, Line(qs, <<>>))
  BY <1>2, <1>3, <1>4, <1>5, ListsRemove
<1> QED BY <1>1, <1>2, <1>6 DEF Arrived, rest, qs

LEMMA FillArrived ==
  ASSUME Inv, Arrived, Fill, Inv'
  PROVE  Arrived'
<1>1. ~Idle /\ Top.working = <<>> /\ stop_arrivals' = stop_arrivals
  BY DEF Fill, Matching
<1>2. /\ stack \in Seq(Frames) /\ stack # <<>> /\ stack[1].working = <<>>
      /\ pending_stops \in Seq(Orders) /\ Apart(book, pending_stops, stack)
      /\ stack' \in Seq(Frames)
  BY <1>1, TopType DEF Inv, TypeOK, Top
<1>3. PICK fr : /\ stack' = [stack EXCEPT ![1] = fr]
                /\ \/ fr.working = <<>> /\ pending_stops' = pending_stops
                   \/ fr.working = pending_stops /\ pending_stops' = <<>>
  <2>1. \E left, last :
          \/ /\ stack' = [stack EXCEPT ![1] =
                            [order |-> left, working |-> pending_stops, last_price |-> last]]
             /\ pending_stops' = <<>>
          \/ /\ stack' = [stack EXCEPT ![1] = Activation(left)]
             /\ pending_stops' = pending_stops
    BY Zenon DEF Fill
  <2>2. PICK left, last :
          \/ /\ stack' = [stack EXCEPT ![1] =
                            [order |-> left, working |-> pending_stops, last_price |-> last]]
             /\ pending_stops' = <<>>
          \/ /\ stack' = [stack EXCEPT ![1] = Activation(left)]
             /\ pending_stops' = pending_stops
    BY <2>1
  <2> DEFINE frame == [order |-> left, working |-> pending_stops, last_price |-> last]
             act   == Activation(left)
  <2>3. frame.working = pending_stops /\ act.working = <<>>
    BY DEF Activation
  <2>4. \/ stack' = [stack EXCEPT ![1] = frame] /\ pending_stops' = <<>>
        \/ stack' = [stack EXCEPT ![1] = act] /\ pending_stops' = pending_stops
    BY <2>2
  <2> HIDE DEF frame, act
  <2> QED BY <2>3, <2>4
<1>4. fr \in Frames
  <2>1. Len(stack) \in Nat \ {0} /\ DOMAIN stack = 1..Len(stack)
    BY <1>2
  <2>2. stack'[1] = fr /\ DOMAIN stack' = 1..Len(stack) /\ 1 \in 1..Len(stack)
    BY <1>3, <2>1
  <2>3. Len(stack') = Len(stack)
    BY <1>2, <2>1, <2>2
  <2> QED BY <1>2, <2>2, <2>3, ElementOfSeq
<1>5. \A x, y \in NamesIn(pending_stops', stack') :
        <<x, y>> \in Line(pending_stops', stack') <=> <<x, y>> \in Line(pending_stops, stack)
  BY <1>2, <1>3, <1>4, LineFill
<1>6. NamesIn(pending_stops', stack') = NamesIn(pending_stops, stack)
  <2>1. PICK id \in Ids, qty \in Nat : Fills(id, qty)
    BY FillEffect
  <2> QED BY <2>1 DEF Fills, NamesIn
<1> DEFINE names == NamesIn(pending_stops, stack)
           rel2 == Line(pending_stops', stack')
<1>7. Lists(stop_arrivals, names, rel2)
  <2>1. \A x, y \in names : <<x, y>> \in rel2 <=> <<x, y>> \in Line(pending_stops, stack)
    BY <1>5, <1>6
  <2>2. Lists(stop_arrivals, names, Line(pending_stops, stack))
    BY DEF Arrived
  <2> HIDE DEF names, rel2
  <2> QED BY <2>1, <2>2, ListsSame
<1> QED BY <1>1, <1>6, <1>7 DEF Arrived

LEMMA KeepArrived ==
  ASSUME Inv, Arrived, KeepStop
  PROVE  Arrived'
<1>1. /\ ~Idle /\ Top.working # <<>> /\ stack' = Advanced
      /\ pending_stops' = Append(pending_stops, Head(Top.working))
      /\ stop_arrivals' = stop_arrivals
  BY DEF KeepStop, Evaluating
<1>2. /\ stack \in Seq(Frames) /\ stack # <<>> /\ stack[1].working # <<>>
      /\ pending_stops \in Seq(Orders) /\ Apart(book, pending_stops, stack)
  BY <1>1, TopType DEF Inv, TypeOK, Top
<1> DEFINE names == NamesIn(pending_stops, stack)
           qs    == Append(pending_stops, Head(stack[1].working))
           tt    == [stack EXCEPT ![1].working = Tail(stack[1].working)]
<1>3. \A x, y \in NamesIn(qs, tt) :
        <<x, y>> \in Line(qs, tt) <=> <<x, y>> \in Line(pending_stops, stack)
  BY <1>2, LineKeep
<1>4. pending_stops' = qs /\ stack' = tt
  BY <1>1 DEF Advanced, Top
<1> HIDE DEF qs, tt
<1>5. NamesIn(qs, tt) = names
  BY <1>4, KeepEffect DEF NamesIn
<1>6. Lists(stop_arrivals, names, Line(qs, tt))
  BY <1>3, <1>5, ListsSame DEF Arrived
<1> QED BY <1>1, <1>4, <1>5, <1>6 DEF Arrived

LEMMA TriggerArrived ==
  ASSUME Inv, Arrived, TriggerStop
  PROVE  Arrived'
<1> DEFINE stop == Head(stack[1].working)
           adv  == [stack EXCEPT ![1].working = Tail(stack[1].working)]
           act  == Enter(stop)
           tt   == <<act>> \o adv
<1>1. /\ ~Idle /\ stack[1].working # <<>> /\ stack' = tt
      /\ pending_stops' = pending_stops
      /\ stop_arrivals' = RemoveFirst(stop_arrivals, stop.id)
  BY DEF TriggerStop, Evaluating, Advanced, Top
<1>2. /\ stack \in Seq(Frames) /\ stack # <<>> /\ stack[1].working \in Seq(Orders)
      /\ pending_stops \in Seq(Orders) /\ Apart(book, pending_stops, stack)
      /\ stop_arrivals \in Seq(Ids)
  BY <1>1, TopType DEF Inv, TypeOK, Top
<1>3. stop \in Orders /\ stop \in Members(stack[1].working)
  BY <1>1, <1>2, MembersTail
<1>4. act \in Frames /\ act.working = <<>>
  <2>1. PICK o \in Orders : act = Activation(o)
    BY <1>3, EnterType
  <2> QED BY <2>1, ActivationType
<1> HIDE DEF act
<1>5. \A x, y \in NamesIn(pending_stops, tt) :
        <<x, y>> \in Line(pending_stops, tt) <=> <<x, y>> \in Line(pending_stops, stack)
  BY <1>1, <1>2, <1>4, LineTrigger
<1> HIDE DEF tt, stop
<1> DEFINE names == NamesIn(pending_stops, stack)
           rest  == NamesIn(pending_stops, tt)
           id    == stop.id
<1>6. names = rest \cup {id} /\ id \notin rest
  <2>1. PICK s \in Waiting(pending_stops, stack) :
          /\ Waiting(pending_stops, stack) = Waiting(pending_stops, tt) \cup {s}
          /\ \A o \in Waiting(pending_stops, tt) : o.id # s.id
          /\ s = stop
    BY <1>1, TriggerEffect DEF stop
  <2> QED BY <2>1 DEF NamesIn
<1>7. Lists(stop_arrivals, names, Line(pending_stops, stack))
  BY DEF Arrived
<1>8. id \in Ids
  BY <1>3, OrderFields
<1> HIDE DEF names, rest, id
<1>9. Lists(RemoveFirst(stop_arrivals, id), rest, Line(pending_stops, tt))
  BY <1>2, <1>5, <1>6, <1>7, <1>8, ListsRemove DEF rest
<1> QED BY <1>1, <1>9 DEF Arrived, rest, id

LEMMA FinishArrived ==
  ASSUME Inv, Arrived, LoopEnded, stack' = Tail(stack),
         UNCHANGED <<pending_stops, stop_arrivals>>
  PROVE  Arrived'
<1>1. /\ stack \in Seq(Frames) /\ stack # <<>>
      /\ pending_stops \in Seq(Orders) /\ Apart(book, pending_stops, stack)
  BY TopType DEF Inv, TypeOK, LoopEnded, Matching
<1> DEFINE names == NamesIn(pending_stops, stack)
           tt    == Tail(stack)
<1>2. \A x, y \in NamesIn(pending_stops, tt) :
        <<x, y>> \in Line(pending_stops, tt) <=> <<x, y>> \in Line(pending_stops, stack)
  BY <1>1, LineFinish
<1>3. NamesIn(pending_stops, tt) = names
  BY FinishEffect DEF NamesIn
<1> HIDE DEF tt
<1>4. Lists(stop_arrivals, names, Line(pending_stops, tt))
  BY <1>2, <1>3, ListsSame DEF Arrived
<1> QED BY <1>3, <1>4 DEF Arrived, tt

LEMMA NextArrived ==
  ASSUME "ids" \in Discipline, Inv, Arrived, [Next]_vars, Inv'
  PROVE  Arrived'
<1>1. ASSUME UNCHANGED <<pending_stops, stack, stop_arrivals>> PROVE Arrived'
  BY <1>1 DEF Arrived
<1>2. CASE UNCHANGED vars
  BY <1>1, <1>2 DEF vars
<1>3. CASE Submit
  <2>1. ASSUME NEW id \in Ids, NEW t \in NewOrders, SubmitNew(WithId(t, id)) PROVE Arrived'
    <3>1. WithId(t, id) \in Orders
      BY WithIdType
    <3> QED BY <2>1, <3>1, NewArrived DEF SubmitNew
  <2>2. ASSUME NEW id \in Ids, CancelResting(id) \/ CancelUnknown(id) PROVE Arrived'
    BY <1>1, <2>2 DEF CancelResting, CancelUnknown, Reject
  <2> QED BY <1>3, <2>1, <2>2, CancelArrived DEF Submit
<1>4. CASE Amend
  <2>1. ASSUME NEW old \in Ids, NEW id \in Ids, NEW t \in NewOrders,
               ReplaceOrder(old, WithId(t, id)) PROVE Arrived'
    <3>1. WithId(t, id) \in Orders
      BY WithIdType
    <3> QED BY <2>1, <3>1, NewArrived DEF ReplaceOrder
  <2>2. ASSUME NEW id \in Ids, NEW m \in Amendments,
               ModifyRequeue(id, m) \/ ModifyInPlace(id, m) \/ ModifyUnknown(id)
        PROVE  Arrived'
    BY <1>1, <2>2 DEF ModifyRequeue, ModifyInPlace, ModifyUnknown, Reject
  <2>3. ASSUME NEW old \in Ids, ReplaceUnknown(old) PROVE Arrived'
    BY <1>1, <2>3 DEF ReplaceUnknown, Reject
  <2> QED BY <1>4, <2>1, <2>2, <2>3 DEF Amend
<1>5. CASE Step
  <2>1. CASE FinishResting \/ FinishExhausted \/ FinishFilled
    BY <2>1, FinishArrived DEF FinishResting, FinishExhausted, FinishFilled
  <2> QED BY <1>5, <2>1, FillArrived, TriggerArrived, KeepArrived DEF Step
<1> QED BY <1>2, <1>3, <1>4, <1>5 DEF Next

LEMMA ArrivedInOrder ==
  ASSUME Inv, Arrived
  PROVE  StopsInArrivalOrder
<1> DEFINE ps == pending_stops
           st == stack
           arr == stop_arrivals
           names == NamesIn(ps, st)
<1>1. ps \in Seq(Orders) /\ st \in Seq(Frames) /\ Apart(book, ps, st) /\ Len(st) \in Nat
  BY DEF Inv, TypeOK
(* The places that wait are the places in line. *)
<1>2. ASSUME NEW p \in WaitingPlaces
      PROVE  /\ p[1] \in Nat /\ p[2] \in Nat /\ InLine(ps, st, p[1], p[2])
             /\ LineId(ps, st, p[1], p[2]) = PlacedId(p)
  <2>1. CASE p \in {0} \X (1..Len(pending_stops))
    <3>1. p[1] = 0 /\ p[2] \in 1..Len(ps) /\ 0 \in 0..Len(st) /\ p[2] \in Nat
      BY <1>1, <2>1
    <3> QED BY <3>1 DEF InLine, LineId, Row, PlacedId, PlacedOrder
  <2>2. CASE \E f \in 1..Len(stack) : p \in {f} \X (0..Len(stack[f].working))
    <3>1. PICK f \in 1..Len(stack) : p \in {f} \X (0..Len(stack[f].working))
      BY <2>2
    <3>2. /\ p[1] = f /\ p[2] \in 0..Len(st[f].working) /\ f # 0 /\ f \in 0..Len(st)
          /\ f \in Nat
      BY <1>1, <3>1
    <3>3. p[2] > 0 /\ Row(ps, st, f) = st[f].working /\ Row(ps, st, f) \in Seq(Orders)
      BY <1>1, <3>2, RowType DEF WaitingPlaces, Row
    <3>4. p[2] \in 1..Len(st[f].working) /\ p[2] \in Nat /\ p[2] # 0
      BY <3>2, <3>3
    <3> QED BY <3>2, <3>3, <3>4 DEF InLine, LineId, PlacedId, PlacedOrder
  <2> QED BY <2>1, <2>2 DEF WaitingPlaces, Places
<1>3. ASSUME NEW f \in Nat, NEW i \in Nat, InLine(ps, st, f, i)
      PROVE  /\ <<f, i>> \in WaitingPlaces
             /\ LineId(ps, st, f, i) = PlacedId(<<f, i>>)
  <2>1. f \in 0..Len(st) /\ i \in 1..Len(Row(ps, st, f)) /\ i > 0
    BY <1>1, <1>3, RowType DEF InLine
  <2>2. CASE f = 0
    BY <2>1, <2>2 DEF Row, LineId, PlacedId, PlacedOrder, WaitingPlaces, Places
  <2>3. CASE f # 0
    <3>1. f \in 1..Len(st) /\ Row(ps, st, f) = st[f].working /\ Row(ps, st, f) \in Seq(Orders)
      BY <1>1, <2>1, <2>3, RowType DEF Row
    <3>2. i \in 0..Len(st[f].working)
      BY <2>1, <3>1
    <3>3. <<f, i>> \in Places
      BY <3>1, <3>2 DEF Places
    <3> QED BY <2>1, <2>3, <3>1, <3>3 DEF LineId, PlacedId, PlacedOrder, WaitingPlaces
  <2> QED BY <2>2, <2>3
<1>4. {PlacedId(p) : p \in WaitingPlaces} = names
  <2>1. ASSUME NEW p \in WaitingPlaces PROVE PlacedId(p) \in names
    BY <1>1, <1>2, <2>1, LineNames
  <2>2. ASSUME NEW x \in names PROVE \E p \in WaitingPlaces : PlacedId(p) = x
    <3>1. PICK f \in Nat, i \in Nat : InLine(ps, st, f, i) /\ LineId(ps, st, f, i) = x
      BY <1>1, LineNames
    <3> QED BY <1>3, <3>1
  <2> QED BY <2>1, <2>2
<1>5. {arr[k] : k \in 1..Len(arr)} = names
  BY DEF Arrived, Lists
<1>6. ASSUME NEW p \in WaitingPlaces, NEW q \in WaitingPlaces,
             NEW k \in 1..Len(arr), NEW l \in 1..Len(arr),
             arr[k] = PlacedId(p), arr[l] = PlacedId(q)
      PROVE  k < l <=> IsBefore(p, q)
  <2>1. k < l <=> <<PlacedId(p), PlacedId(q)>> \in Line(ps, st)
    BY <1>6 DEF Arrived, Lists
  <2>2. <<PlacedId(p), PlacedId(q)>> \in Line(ps, st) <=>
          \E f, i, g, j \in Nat :
            /\ InLine(ps, st, f, i) /\ LineId(ps, st, f, i) = PlacedId(p)
            /\ InLine(ps, st, g, j) /\ LineId(ps, st, g, j) = PlacedId(q)
            /\ Ahead(f, i, g, j)
    <3>1. PlacedId(p) \in names /\ PlacedId(q) \in names
      BY <1>4
    <3> QED BY <3>1 DEF Line
  <2>3. IsBefore(p, q) <=> Ahead(p[1], p[2], q[1], q[2])
    BY DEF IsBefore, Ahead
  <2>4. ASSUME NEW f \in Nat, NEW i \in Nat, InLine(ps, st, f, i)
        PROVE  /\ LineId(ps, st, f, i) = PlacedId(p) => f = p[1] /\ i = p[2]
               /\ LineId(ps, st, f, i) = PlacedId(q) => f = q[1] /\ i = q[2]
    <3>1. ASSUME NEW w \in WaitingPlaces, LineId(ps, st, f, i) = PlacedId(w)
          PROVE  f = w[1] /\ i = w[2]
      <4>1. /\ w[1] \in Nat /\ w[2] \in Nat /\ InLine(ps, st, w[1], w[2])
            /\ LineId(ps, st, w[1], w[2]) = LineId(ps, st, f, i)
        BY <1>2, <3>1
      <4> DEFINE g == w[1]
                 j == w[2]
      <4> HIDE DEF g, j
      <4>2. g \in Nat /\ j \in Nat /\ InLine(ps, st, g, j)
            /\ LineId(ps, st, f, i) = LineId(ps, st, g, j)
        BY <4>1 DEF g, j
      <4>3. f = g /\ i = j
        BY <1>1, <2>4, <4>2, LineUnique
      <4> QED BY <4>3 DEF g, j
    <3> QED BY <3>1
  <2>5. IsBefore(p, q) => <<PlacedId(p), PlacedId(q)>> \in Line(ps, st)
    BY <1>2, <2>2, <2>3
  <2>6. <<PlacedId(p), PlacedId(q)>> \in Line(ps, st) => IsBefore(p, q)
    BY <2>2, <2>3, <2>4
  <2> QED BY <2>1, <2>5, <2>6
<1> QED BY <1>4, <1>5, <1>6 DEF StopsInArrivalOrder

(* The nested evaluations of a cascade of stops neither lose a stop nor    *)
(* trigger one twice, and stops keep the order of their arrival however    *)
(* often evaluate_stop_triggers swaps them out and back.                   *)
THEOREM ArrivalOrder ==
  ASSUME {"ids", "requeues"} \subseteq Discipline
  PROVE  Spec => []StopsInArrivalOrder
<1>0. "ids" \in Discipline
  OBVIOUS
<1>1. Init => Inv /\ Arrived
  <2> SUFFICES ASSUME Init PROVE Inv /\ Arrived
    OBVIOUS
  <2>1. pending_stops = <<>> /\ stack = <<>> /\ stop_arrivals = <<>>
    BY DEF Init
  <2>2. NamesIn(pending_stops, stack) = {}
    BY <2>1, MembersEmpty DEF NamesIn, Waiting
  <2>3. 1..Len(stop_arrivals) = {}
    BY <2>1
  <2> QED BY <2>2, <2>3, InitInv DEF Arrived, Lists
<1>2. Inv /\ Arrived /\ [Next]_vars => Inv' /\ Arrived'
  BY <1>0, NextInv, NextArrived
<1>3. Inv /\ Arrived => StopsInArrivalOrder
  BY ArrivedInOrder
<1> QED BY <1>1, <1>2, <1>3, PTL DEF Spec

-----------------------------------------------------------------------------
(***************************************************************************)
(* The engine implements the abstract book of PriceTimeBook: for every set *)
(* of ids, prices, orders and amendments and any number of orders, each    *)
(* trade is with the oldest order at the best price, and between trades    *)
(* the queues change only as the abstract book allows.                     *)
(*                                                                         *)
(* The queues hold dead entries the abstract book does not know, and       *)
(* front(), pop_front and empty() drain them at moments of their own.  So  *)
(* the argument is about the order of the live ids alone: first what each  *)
(* operation of a level does to it, then each operation of the book, then  *)
(* the actions.                                                            *)
(***************************************************************************)

(* One live id of a level is served before another. *)
Precedence(level, x, y) ==
  x \in Alive(level) /\ y \in Alive(level) /\ QueuedBefore(level, x, y)

(* The queue after draining is the queue without some dead entries at its  *)
(* front.                                                                  *)
LEMMA DrainQueue ==
  ASSUME NEW level, Proper(level)
  PROVE  \E n \in 0..Len(level.queue) :
           /\ Len(drain_cancelled(level).queue) = Len(level.queue) - n
           /\ \A i \in 1..(Len(level.queue) - n) :
                drain_cancelled(level).queue[i] = level.queue[n + i]
           /\ \A i \in 1..n : level.queue[i] \in level.cancelled
<1> DEFINE n    == DrainCount(level)
           q    == level.queue
           rest == SubSeq(q, n + 1, Len(q))
           popped == {q[i] : i \in 1..n}
<1>1. level \in Levels /\ q \in Seq(Ids) /\ Len(q) \in Nat
  BY DEF Proper, Levels
<1>2. n \in 0..Len(q) /\ \A i \in 1..n : q[i] \in level.cancelled
  <2>1. n \in 0..Len(q) /\ \A i \in 1..n : DrainableAt(level, i)
    BY <1>1, DrainCountType
  <2> HIDE DEF n
  <2> QED BY <2>1 DEF DrainableAt
<1>3. drain_cancelled(level).queue = rest
  <2>1. drain_cancelled(level) = [level EXCEPT !.queue = rest, !.cancelled = level.cancelled \ popped]
    BY DEF drain_cancelled
  <2> HIDE DEF rest, popped
  <2> QED BY <1>1, <2>1 DEF Levels
<1> HIDE DEF n
<1>4. /\ Len(rest) = Len(q) - n
      /\ \A i \in 1..(Len(q) - n) : rest[i] = q[n + i]
  <2>1. n + 1 \in Int /\ Len(q) \in Int /\ n \in Int
    BY <1>1, <1>2
  <2>2. \A i \in (n + 1)..Len(q) : q[i] \in Ids
    BY <1>1, <1>2, ElementOfSeq
  <2>3. /\ Len(rest) = IF n + 1 <= Len(q) THEN Len(q) - (n + 1) + 1 ELSE 0
        /\ \A i \in 1..(Len(q) - (n + 1) + 1) : rest[i] = q[(n + 1) + i - 1]
    BY <2>1, <2>2, SubSeqProperties
  <2> HIDE DEF rest
  <2> QED BY <2>1, <2>3, <1>2
<1> HIDE DEF rest
<1> QED BY <1>2, <1>3, <1>4

(* Draining keeps the order of the live ids, and nothing is before the one *)
(* it brings to the front.                                                 *)
LEMMA DrainOrder ==
  ASSUME NEW level, Proper(level)
  PROVE  /\ \A x, y : Precedence(drain_cancelled(level), x, y) <=> Precedence(level, x, y)
         /\ drain_cancelled(level).queue # <<>> =>
              \A x : ~Precedence(level, x, drain_cancelled(level).queue[1])
<1> DEFINE drained == drain_cancelled(level)
           q == level.queue
           r == drained.queue
<1>1. Proper(drained) /\ Alive(drained) = Alive(level)
  BY DrainAlive
<1>2. PICK n \in 0..Len(q) :
        /\ Len(r) = Len(q) - n
        /\ \A i \in 1..(Len(q) - n) : r[i] = q[n + i]
        /\ \A i \in 1..n : q[i] \in level.cancelled
  BY DrainQueue
<1>3. Len(q) \in Nat
  BY DEF Proper, Levels
<1> HIDE DEF drained
<1>4. ASSUME NEW x \in Alive(level), NEW y \in Alive(level)
      PROVE  QueuedBefore(drained, x, y) <=> QueuedBefore(level, x, y)
  <2>1. ASSUME NEW i \in 1..Len(r), NEW j \in 1..Len(r), i < j, r[i] = x, r[j] = y
        PROVE  QueuedBefore(level, x, y)
    <3>1. n + i \in 1..Len(q) /\ n + j \in 1..Len(q) /\ n + i < n + j
      BY <1>2, <1>3, <2>1
    <3>2. q[n + i] = x /\ q[n + j] = y
      BY <1>2, <1>3, <2>1
    <3> QED BY <3>1, <3>2 DEF QueuedBefore
  <2>2. ASSUME NEW i \in 1..Len(q), NEW j \in 1..Len(q), i < j, q[i] = x, q[j] = y
        PROVE  QueuedBefore(drained, x, y)
    <3>1. i \notin 1..n
      BY <1>2, <2>2 DEF Alive
    <3>2. i - n \in 1..Len(r) /\ j - n \in 1..Len(r) /\ i - n < j - n
      BY <1>2, <1>3, <2>2, <3>1
    <3>3. n + (i - n) = i /\ n + (j - n) = j
      BY <1>2, <1>3
    <3>4. r[i - n] = x /\ r[j - n] = y
      BY <1>2, <2>2, <3>2, <3>3
    <3> QED BY <3>2, <3>4 DEF QueuedBefore
  <2> QED BY <2>1, <2>2 DEF QueuedBefore
<1>5. ASSUME r # <<>>, NEW x PROVE ~QueuedBefore(drained, x, r[1])
  <2>1. r \in Seq(Ids) /\ \A i, j \in 1..Len(r) : r[i] = r[j] => i = j
    BY <1>1 DEF Proper, Levels
  <2>2. 1 \in 1..Len(r) /\ Len(r) \in Nat
    BY <1>5, <2>1
  <2> SUFFICES ASSUME NEW i \in 1..Len(r), NEW j \in 1..Len(r), i < j, r[j] = r[1]
               PROVE  FALSE
    BY DEF QueuedBefore
  <2>3. j = 1
    BY <2>1, <2>2
  <2> QED BY <2>2, <2>3
<1>6. \A x, y : Precedence(drained, x, y) <=> Precedence(level, x, y)
  BY <1>1, <1>4 DEF Precedence
<1>7. r # <<>> => \A x : ~Precedence(level, x, r[1])
  BY <1>5, <1>6 DEF Precedence
<1> QED BY <1>6, <1>7 DEF drained

(* A pushed id comes after all the others. *)
LEMMA PushOrder ==
  ASSUME NEW level, Proper(level), NEW id \in Ids, id \notin Queued(level),
         NEW qty \in Nat
  PROVE  \A x, y : Precedence(push_back(level, id, qty), x, y) <=>
                     Precedence(level, x, y) \/ (x \in Alive(level) /\ y = id)
<1> DEFINE q == level.queue
           r == Append(q, id)
           pushed == push_back(level, id, qty)
<1>1. /\ level \in Levels /\ q \in Seq(Ids) /\ Len(q) \in Nat
  BY DEF Proper, Levels
<1>2. /\ Len(r) = Len(q) + 1
      /\ \A i \in 1..Len(q) : r[i] = q[i]
      /\ r[Len(q) + 1] = id
  BY <1>1, AppendProperties
<1> HIDE DEF r
<1>3. pushed.queue = r
  BY <1>1 DEF push_back, r, Levels
<1>4. Alive(pushed) = Alive(level) \cup {id}
  BY PushAlive
<1> HIDE DEF pushed
<1>5. \A i \in 1..(Len(q) + 1) : i \in 1..Len(q) \/ i = Len(q) + 1
  BY <1>1
<1>6. \A i \in 1..Len(q) : q[i] # id
  BY DEF Queued
<1>7. ASSUME NEW x, NEW y, Precedence(pushed, x, y)
      PROVE  Precedence(level, x, y) \/ (x \in Alive(level) /\ y = id)
  <2>1. PICK i \in 1..(Len(q) + 1), j \in 1..(Len(q) + 1) : i < j /\ r[i] = x /\ r[j] = y
    BY <1>2, <1>3, <1>7 DEF Precedence, QueuedBefore
  <2>2. i \in 1..Len(q) /\ q[i] = x /\ x # id
    BY <1>1, <1>2, <1>6, <2>1
  <2>3. x \in Alive(level)
    BY <1>4, <1>7, <2>2 DEF Precedence
  <2>4. CASE j = Len(q) + 1
    BY <1>2, <2>1, <2>3, <2>4
  <2>5. CASE j \in 1..Len(q)
    <3>1. q[j] = y /\ y # id
      BY <1>2, <1>6, <2>1, <2>5
    <3>2. y \in Alive(level)
      BY <1>4, <1>7, <3>1 DEF Precedence
    <3> QED BY <2>1, <2>2, <2>3, <2>5, <3>1, <3>2 DEF Precedence, QueuedBefore
  <2> QED BY <1>5, <2>4, <2>5
<1>8. ASSUME NEW x, NEW y, Precedence(level, x, y) PROVE Precedence(pushed, x, y)
  <2>1. PICK i \in 1..Len(q), j \in 1..Len(q) : i < j /\ q[i] = x /\ q[j] = y
    BY <1>8 DEF Precedence, QueuedBefore
  <2>2. i \in 1..Len(r) /\ j \in 1..Len(r) /\ r[i] = x /\ r[j] = y
    BY <1>1, <1>2, <2>1
  <2> QED BY <1>3, <1>4, <1>8, <2>1, <2>2 DEF Precedence, QueuedBefore
<1>9. ASSUME NEW x \in Alive(level) PROVE Precedence(pushed, x, id)
  <2>1. PICK i \in 1..Len(q) : q[i] = x
    BY <1>9 DEF Alive, Queued
  <2>2. i \in 1..Len(r) /\ Len(q) + 1 \in 1..Len(r) /\ i < Len(q) + 1 /\ r[i] = x
    BY <1>1, <1>2, <2>1
  <2> QED BY <1>2, <1>3, <1>4, <2>2 DEF Precedence, QueuedBefore
<1>10. \A x, y : Precedence(pushed, x, y) <=>
                   Precedence(level, x, y) \/ (x \in Alive(level) /\ y = id)
  BY <1>7, <1>8, <1>9
<1> QED BY <1>10 DEF pushed

LEMMA ReduceOrder ==
  ASSUME NEW level, Proper(level), NEW qty \in Nat
  PROVE  \A x, y : Precedence(reduce_front_volume(level, qty), x, y) <=> Precedence(level, x, y)
<1> DEFINE less == reduce_front_volume(level, qty)
<1>1. Alive(less) = Alive(level)
  BY ReduceAlive
<1>2. less.queue = level.queue
  BY DEF reduce_front_volume, Proper, Levels
<1> HIDE DEF less
<1>3. \A x, y : Precedence(less, x, y) <=> Precedence(level, x, y)
  BY <1>1, <1>2 DEF Precedence, QueuedBefore
<1> QED BY <1>3 DEF less

LEMMA RemoveOrder ==
  ASSUME NEW level, Proper(level), NEW id \in Queued(level), NEW qty \in Nat
  PROVE  \A x, y : Precedence(remove(level, id, qty), x, y) <=>
                     Precedence(level, x, y) /\ x # id /\ y # id
<1> DEFINE marked == remove(level, id, qty)
<1>1. Alive(marked) = Alive(level) \ {id}
  BY RemoveAlive
<1>2. marked.queue = level.queue
  BY DEF remove, reduce_front_volume, Proper, Levels
<1> HIDE DEF marked
<1>3. \A x, y : Precedence(marked, x, y) <=> Precedence(level, x, y) /\ x # id /\ y # id
  BY <1>1, <1>2 DEF Precedence, QueuedBefore
<1> QED BY <1>3 DEF marked

(* The id in front goes behind the others, which keep their order. *)
LEMMA PopPushOrder ==
  ASSUME NEW level, Proper(level), Alive(level) # {},
         NEW qty \in Nat, NEW peak \in Nat
  PROVE  LET id  == drain_cancelled(level).queue[1]
             new == push_back(pop_front(level, qty), id, peak)
         IN  \A x, y : Precedence(new, x, y) <=>
               \/ Precedence(level, x, y) /\ x # id /\ y # id
               \/ x \in Alive(level) /\ x # id /\ y = id
<1> DEFINE drained == drain_cancelled(level)
           q       == drained.queue
           id      == q[1]
           tail    == [drained EXCEPT !.queue = Tail(q)]
           popped  == pop_front(level, qty)
           new     == push_back(popped, id, peak)
<1>1. /\ Proper(drained) /\ Alive(drained) = Alive(level)
      /\ q # <<>> /\ id \in Alive(drained)
  BY DrainAlive
<1>2. \A x, y : Precedence(drained, x, y) <=> Precedence(level, x, y)
  BY DrainOrder
<1> HIDE DEF drained
<1>3. /\ drained \in Levels /\ q \in Seq(Ids) /\ Len(q) \in Nat \ {0}
      /\ drained.cancelled \subseteq Queued(drained)
      /\ \A i, j \in 1..Len(q) : q[i] = q[j] => i = j
  BY <1>1 DEF Proper, Levels
<1>4. /\ Tail(q) \in Seq(Ids) /\ Len(Tail(q)) = Len(q) - 1
      /\ \A i \in 1..(Len(q) - 1) : Tail(q)[i] = q[i + 1]
  BY <1>1, <1>3, HeadTailProperties
<1>5. tail \in Levels /\ tail.queue = Tail(q) /\ tail.cancelled = drained.cancelled
  BY <1>3, <1>4 DEF Levels
<1> HIDE DEF tail
<1>6. /\ \A i \in 1..Len(q) : i = 1 \/ (i - 1 \in 1..(Len(q) - 1) /\ (i - 1) + 1 = i)
      /\ \A i \in 1..(Len(q) - 1) : i + 1 \in 1..Len(q) /\ i + 1 # 1
      /\ 1 \in 1..Len(q)
  BY <1>3
<1>7. Queued(tail) = {q[i + 1] : i \in 1..(Len(q) - 1)}
  BY <1>4, <1>5 DEF Queued
<1>8. Queued(drained) = Queued(tail) \cup {id} /\ id \notin Queued(tail)
  <2>1. id \notin Queued(tail)
    BY <1>3, <1>6, <1>7
  <2>2. Queued(drained) = Queued(tail) \cup {id}
    BY <1>6, <1>7 DEF Queued
  <2> QED BY <2>1, <2>2
<1>9. id \in Ids /\ id \notin drained.cancelled
  BY <1>1, <1>3 DEF Alive, Levels
<1>10. Proper(tail) /\ Alive(tail) = Alive(level) \ {id}
  <2>1. \A i, j \in 1..(Len(q) - 1) : Tail(q)[i] = Tail(q)[j] => i = j
    <3>1. \A i, j \in 1..(Len(q) - 1) : i + 1 = j + 1 => i = j
      BY <1>3
    <3> QED BY <1>3, <1>4, <1>6, <3>1
  <2> QED BY <2>1, <1>1, <1>3, <1>4, <1>5, <1>8, <1>9 DEF Proper, Alive
<1>11. ASSUME NEW x, NEW y
       PROVE  Precedence(tail, x, y) <=> Precedence(drained, x, y) /\ x # id /\ y # id
  <2>1. ASSUME Precedence(tail, x, y) PROVE Precedence(drained, x, y) /\ x # id /\ y # id
    <3>1. PICK i \in 1..(Len(q) - 1), j \in 1..(Len(q) - 1) :
            i < j /\ q[i + 1] = x /\ q[j + 1] = y
      BY <1>4, <1>5, <2>1 DEF Precedence, QueuedBefore
    <3>2. i + 1 < j + 1
      BY <1>3, <3>1
    <3>3. QueuedBefore(drained, x, y)
      BY <1>6, <3>1, <3>2 DEF QueuedBefore
    <3> QED BY <1>1, <1>10, <2>1, <3>3 DEF Precedence
  <2>2. ASSUME Precedence(drained, x, y), x # id, y # id PROVE Precedence(tail, x, y)
    <3>1. PICK i \in 1..Len(q), j \in 1..Len(q) : i < j /\ q[i] = x /\ q[j] = y
      BY <2>2 DEF Precedence, QueuedBefore
    <3>2. /\ i - 1 \in 1..(Len(q) - 1) /\ (i - 1) + 1 = i
          /\ j - 1 \in 1..(Len(q) - 1) /\ (j - 1) + 1 = j
      BY <1>6, <2>2, <3>1
    <3>3. i - 1 < j - 1
      BY <1>3, <3>1
    <3>4. Tail(q)[i - 1] = x /\ Tail(q)[j - 1] = y
      BY <1>4, <3>1, <3>2
    <3>5. QueuedBefore(tail, x, y)
      BY <1>4, <1>5, <3>2, <3>3, <3>4 DEF QueuedBefore
    <3> QED BY <1>1, <1>10, <2>2, <3>5 DEF Precedence
  <2> QED BY <2>1, <2>2
<1>12. /\ popped = reduce_front_volume(tail, qty)
  BY DEF pop_front, tail, drained
<1>13. Proper(popped) /\ Alive(popped) = Alive(tail) /\ Queued(popped) = Queued(tail)
  BY <1>10, <1>12, ReduceAlive
<1>14. \A x, y : Precedence(popped, x, y) <=> Precedence(tail, x, y)
  BY <1>10, <1>12, ReduceOrder
<1> HIDE DEF id, popped
<1>15. \A x, y : Precedence(new, x, y) <=>
                   Precedence(popped, x, y) \/ (x \in Alive(popped) /\ y = id)
  BY <1>8, <1>9, <1>13, PushOrder
<1> HIDE DEF new
<1>16. \A x, y : Precedence(new, x, y) <=>
                   \/ Precedence(level, x, y) /\ x # id /\ y # id
                   \/ x \in Alive(level) /\ x # id /\ y = id
  BY <1>2, <1>10, <1>11, <1>13, <1>14, <1>15
<1> QED BY <1>16 DEF new, popped, id, drained

-----------------------------------------------------------------------------
(* The book.  IsAhead compares two orders of the same level; for a book    *)
(* that is sound it is the order of the live ids of that level.            *)
ServedAt(b, side, price, x, y) ==
  HasLevel(b, side, price) /\ Precedence(b.levels[side][price], x, y)

LEMMA AheadAt ==
  ASSUME NEW b, Sound(b), NEW side \in Sides, NEW price \in Prices, NEW x, NEW y
  PROVE  /\ ServedAt(b, side, price, x, y) <=>
              IsAhead(b, x, y) /\ x \in Located(b, side, price)
         /\ ServedAt(b, side, price, x, y) <=>
              IsAhead(b, x, y) /\ y \in Located(b, side, price)
<1>1. LevelSound(b, side, price)
  BY DEF Sound
<1>2. ASSUME ServedAt(b, side, price, x, y)
      PROVE  IsAhead(b, x, y) /\ x \in Located(b, side, price) /\ y \in Located(b, side, price)
  <2>1. /\ Alive(b.levels[side][price]) = Located(b, side, price)
        /\ Precedence(b.levels[side][price], x, y)
    BY <1>1, <1>2 DEF ServedAt, LevelSound
  <2>2. x \in Located(b, side, price) /\ y \in Located(b, side, price)
    BY <2>1 DEF Precedence
  <2>3. PlaceIn(b, x) = <<side, price>> /\ PlaceIn(b, y) = <<side, price>>
    BY <2>2 DEF PlaceIn, Located, has_order
  <2> QED BY <2>1, <2>2, <2>3 DEF IsAhead, Precedence, Located, has_order
<1>3. ASSUME IsAhead(b, x, y), x \in Located(b, side, price) \/ y \in Located(b, side, price)
      PROVE  ServedAt(b, side, price, x, y)
  <2>1. has_order(b, x) /\ has_order(b, y) /\ PlaceIn(b, x) = PlaceIn(b, y)
    BY <1>3 DEF IsAhead
  <2>2. b.id_map[x].side = b.id_map[y].side /\ b.id_map[x].price = b.id_map[y].price
    BY <2>1 DEF PlaceIn
  <2>3. x \in Located(b, side, price) /\ y \in Located(b, side, price)
    BY <1>3, <2>1, <2>2 DEF Located, has_order
  <2>4. HasLevel(b, side, price) /\ Alive(b.levels[side][price]) = Located(b, side, price)
    BY <1>1, <2>3 DEF LevelSound
  <2>5. QueuedBefore(b.levels[side][price], x, y)
    BY <1>3, <2>3 DEF IsAhead, Located
  <2> QED BY <2>3, <2>4, <2>5 DEF ServedAt, Precedence
<1> QED BY <1>2, <1>3

LEMMA AheadSomewhere ==
  ASSUME NEW b, Sound(b), NEW x, NEW y, IsAhead(b, x, y)
  PROVE  \E s \in Sides, p \in Prices : ServedAt(b, s, p, x, y)
<1> DEFINE s == b.id_map[x].side
           p == b.id_map[x].price
<1>1. has_order(b, x)
  BY DEF IsAhead
<1>2. s \in Sides /\ p \in Prices
  BY <1>1, OrderInBook, OrderFields DEF Sound
<1>3. x \in Located(b, s, p)
  BY <1>1 DEF Located, has_order
<1> HIDE DEF s, p
<1> QED BY <1>2, <1>3, AheadAt

(* When one level changes, the orders of the other levels keep their       *)
(* order.                                                                  *)
LEMMA AheadElsewhere ==
  ASSUME NEW b, Sound(b), NEW c, Sound(c), NEW side \in Sides, NEW price \in Prices,
         \A s \in Sides : \A p : <<s, p>> # <<side, price>> =>
           /\ HasLevel(c, s, p) <=> HasLevel(b, s, p)
           /\ HasLevel(b, s, p) => c.levels[s][p] = b.levels[s][p],
         NEW x, NEW y
  PROVE  IsAhead(c, x, y) <=>
           \/ ServedAt(c, side, price, x, y)
           \/ IsAhead(b, x, y) /\ ~ServedAt(b, side, price, x, y)
<1>1. ASSUME NEW s \in Sides, NEW p \in Prices, <<s, p>> # <<side, price>>
      PROVE  /\ ServedAt(c, s, p, x, y) <=> ServedAt(b, s, p, x, y)
             /\ ~(ServedAt(b, s, p, x, y) /\ ServedAt(b, side, price, x, y))
  <2>1. ServedAt(c, s, p, x, y) <=> ServedAt(b, s, p, x, y)
    BY <1>1 DEF ServedAt
  <2>2. ASSUME x \in Located(b, s, p), x \in Located(b, side, price) PROVE FALSE
    BY <1>1, <2>2 DEF Located
  <2> QED BY <2>1, <2>2, AheadAt
<1>2. ASSUME IsAhead(c, x, y), ~ServedAt(c, side, price, x, y)
      PROVE  IsAhead(b, x, y) /\ ~ServedAt(b, side, price, x, y)
  <2>1. PICK s \in Sides, p \in Prices : ServedAt(c, s, p, x, y)
    BY <1>2, AheadSomewhere
  <2>2. <<s, p>> # <<side, price>>
    BY <1>2, <2>1
  <2> QED BY <1>1, <2>1, <2>2, AheadAt
<1>3. ASSUME IsAhead(b, x, y), ~ServedAt(b, side, price, x, y)
      PROVE  IsAhead(c, x, y)
  <2>1. PICK s \in Sides, p \in Prices : ServedAt(b, s, p, x, y)
    BY <1>3, AheadSomewhere
  <2>2. <<s, p>> # <<side, price>>
    BY <1>3, <2>1
  <2> QED BY <1>1, <2>1, <2>2, AheadAt
<1>4. ServedAt(c, side, price, x, y) => IsAhead(c, x, y)
  BY AheadAt
<1> QED BY <1>2, <1>3, <1>4

LEMMA CancelAhead ==
  ASSUME NEW b, Sound(b), NEW id, has_order(b, id), NEW x, NEW y
  PROVE  IsAhead(cancel_order(b, id), x, y) <=> IsAhead(b, x, y) /\ x # id /\ y # id
<1> DEFINE order  == b.id_map[id]
           side   == order.side
           price  == order.price
           level  == b.levels[side][price]
           removed == remove(level, order.id, visible_qty(order))
           marked == drain_cancelled(removed)
           c      == cancel_order(b, id)
<1>1. order.id = id /\ Cancels(b, order, marked, c)
  BY CancelFields
<1>2. Sound(c)
  BY CancelSound
<1>3. id \in Located(b, side, price)
  BY DEF Located, has_order
<1> HIDE DEF order, c
<1>4. /\ side \in Sides /\ price \in Prices /\ visible_qty(order) \in Nat
      /\ HasLevel(b, side, price) /\ Proper(level) /\ id \in Queued(level)
      /\ HasLevel(c, side, price) <=> Alive(marked) # {}
      /\ HasLevel(c, side, price) => c.levels[side][price] = marked
      /\ \A s \in Sides : \A p : <<s, p>> # <<side, price>> =>
           /\ HasLevel(c, s, p) <=> HasLevel(b, s, p)
           /\ HasLevel(b, s, p) => c.levels[s][p] = b.levels[s][p]
  <2> HIDE DEF marked
  <2> QED BY <1>1 DEF Cancels
<1>5. Precedence(marked, x, y) <=> Precedence(level, x, y) /\ x # id /\ y # id
  <2> HIDE DEF level
  <2>1. Proper(removed)
    BY <1>1, <1>4, RemoveAlive
  <2>2. Precedence(removed, x, y) <=> Precedence(level, x, y) /\ x # id /\ y # id
    BY <1>1, <1>4, RemoveOrder
  <2> QED BY <2>1, <2>2, DrainOrder
<1> HIDE DEF side, price, level, marked
<1>6. ServedAt(c, side, price, x, y) <=> ServedAt(b, side, price, x, y) /\ x # id /\ y # id
  <2>1. Precedence(marked, x, y) => Alive(marked) # {}
    BY DEF Precedence
  <2> QED BY <1>4, <1>5, <2>1 DEF ServedAt, level
<1>7. IsAhead(c, x, y) <=>
        \/ ServedAt(c, side, price, x, y)
        \/ IsAhead(b, x, y) /\ ~ServedAt(b, side, price, x, y)
  BY <1>2, <1>4, AheadElsewhere
<1>8. IsAhead(b, x, y) /\ (x = id \/ y = id) => ServedAt(b, side, price, x, y)
  BY <1>3, <1>4, AheadAt
<1>9. ServedAt(b, side, price, x, y) => IsAhead(b, x, y)
  BY <1>4, AheadAt
<1> QED BY <1>6, <1>7, <1>8, <1>9 DEF c

LEMMA InsertAhead ==
  ASSUME NEW b, Sound(b), NEW order \in Orders, ~has_order(b, order.id),
         HasLevel(b, order.side, order.price) =>
           order.id \notin Queued(b.levels[order.side][order.price]),
         NEW x, NEW y
  PROVE  IsAhead(insert_order(b, order), x, y) <=>
           \/ IsAhead(b, x, y)
           \/ x \in Located(b, order.side, order.price) /\ y = order.id
<1> DEFINE side  == order.side
           price == order.price
           level == IF HasLevel(b, side, price) THEN b.levels[side][price] ELSE EmptyLevel
           entry == push_back(level, order.id, visible_qty(order))
           c     == insert_order(b, order)
<1>0. Inserts(b, order, level, entry, c)
  BY InsertFields
<1>1. /\ order.id \in Ids /\ side \in Sides /\ price \in Prices
      /\ visible_qty(order) \in Nat
      /\ Proper(level) /\ Alive(level) = Located(b, side, price)
      /\ order.id \notin Queued(level)
      /\ HasLevel(c, side, price) /\ c.levels[side][price] = entry
      /\ \A s \in Sides : \A p : <<s, p>> # <<side, price>> =>
           /\ HasLevel(c, s, p) <=> HasLevel(b, s, p)
           /\ HasLevel(b, s, p) => c.levels[s][p] = b.levels[s][p]
  <2> HIDE DEF level, entry, c
  <2> QED BY <1>0 DEF Inserts
<1>2. Sound(c)
  BY InsertSound
<1>3. Precedence(entry, x, y) <=>
        Precedence(level, x, y) \/ (x \in Alive(level) /\ y = order.id)
  <2> HIDE DEF level
  <2> QED BY <1>1, PushOrder
<1>4. ~HasLevel(b, side, price) => Alive(level) = {}
  BY DEF Alive, Queued, EmptyLevel
<1>5. ServedAt(b, side, price, x, y) <=> Precedence(level, x, y)
  BY <1>4 DEF ServedAt, Precedence
<1> HIDE DEF level, entry, c
<1>6. ServedAt(c, side, price, x, y) <=>
        ServedAt(b, side, price, x, y) \/ (x \in Located(b, side, price) /\ y = order.id)
  BY <1>1, <1>3, <1>5 DEF ServedAt
<1> HIDE DEF side, price
<1>7. IsAhead(c, x, y) <=>
        \/ ServedAt(c, side, price, x, y)
        \/ IsAhead(b, x, y) /\ ~ServedAt(b, side, price, x, y)
  BY <1>1, <1>2, AheadElsewhere
<1>8. ServedAt(b, side, price, x, y) => IsAhead(b, x, y)
  BY <1>1, AheadAt
<1> QED BY <1>6, <1>7, <1>8 DEF c, side, price

(* A level may be drained, or lose volume. *)
LEMMA SetLevelAhead ==
  ASSUME NEW b, Sound(b), NEW side \in Sides, NEW price, HasLevel(b, side, price),
         NEW level, Proper(level), Alive(level) = Alive(b.levels[side][price]),
         Queued(level) \subseteq Queued(b.levels[side][price]), NEW x, NEW y
  PROVE  IsAhead(SetLevel(b, side, price, level), x, y) <=>
           \/ Precedence(level, x, y)
           \/ IsAhead(b, x, y) /\ ~Precedence(b.levels[side][price], x, y)
<1> DEFINE c == SetLevel(b, side, price, level)
<1>1. /\ IsBook(b) /\ price \in Prices /\ level \in Levels
  BY LevelType DEF Sound, Proper
<1>2. Sound(c)
  BY SetLevelSound
<1>3. /\ HasLevel(c, side, price) /\ c.levels[side][price] = level
      /\ \A s \in Sides : \A p : <<s, p>> # <<side, price>> =>
           /\ HasLevel(c, s, p) <=> HasLevel(b, s, p)
           /\ HasLevel(b, s, p) => c.levels[s][p] = b.levels[s][p]
  BY <1>1, SetLevelFields
<1> HIDE DEF c
<1>4. IsAhead(c, x, y) <=>
        \/ ServedAt(c, side, price, x, y)
        \/ IsAhead(b, x, y) /\ ~ServedAt(b, side, price, x, y)
  BY <1>1, <1>2, <1>3, AheadElsewhere
<1> QED BY <1>3, <1>4 DEF ServedAt, c

LEMMA ReduceLevelAhead ==
  ASSUME NEW b, Sound(b), NEW side \in Sides, NEW price, NEW delta \in Nat, NEW x, NEW y
  PROVE  IsAhead(reduce_level_volume(b, side, price, delta), x, y) <=> IsAhead(b, x, y)
<1>1. CASE HasLevel(b, side, price)
  <2> DEFINE level == b.levels[side][price]
             less  == reduce_front_volume(level, delta)
  <2>1. Proper(level) /\ price \in Prices
    BY <1>1, LevelType DEF Sound, LevelSound
  <2>2. /\ Proper(less) /\ Alive(less) = Alive(level) /\ Queued(less) = Queued(level)
        /\ Precedence(less, x, y) <=> Precedence(level, x, y)
    <3> HIDE DEF level
    <3> QED BY <2>1, ReduceAlive, ReduceOrder
  <2>3. reduce_level_volume(b, side, price, delta) = SetLevel(b, side, price, less)
    BY <1>1 DEF reduce_level_volume
  <2> HIDE DEF less
  <2>4. Precedence(level, x, y) => IsAhead(b, x, y)
    BY <1>1, <2>1, AheadAt DEF ServedAt
  <2> QED BY <1>1, <2>2, <2>3, <2>4, SetLevelAhead
<1>2. CASE ~HasLevel(b, side, price)
  BY <1>2 DEF reduce_level_volume
<1> QED BY <1>1, <1>2

LEMMA UpdateAhead ==
  ASSUME NEW b, Sound(b), NEW order \in Orders, has_order(b, order.id),
         order.side = b.id_map[order.id].side, order.price = b.id_map[order.id].price,
         NEW x, NEW y
  PROVE  IsAhead(update_order(b, order), x, y) <=> IsAhead(b, x, y)
<1> DEFINE c == update_order(b, order)
<1>1. c.levels = b.levels
  BY UpdateSound
<1>2. /\ \A z : has_order(c, z) <=> has_order(b, z)
      /\ c.id_map[order.id] = order
      /\ \A z : has_order(b, z) /\ z # order.id => c.id_map[z] = b.id_map[z]
  BY UpdateOrders
<1> HIDE DEF c
<1>3. \A z : has_order(b, z) => c.id_map[z].side = b.id_map[z].side
                                /\ c.id_map[z].price = b.id_map[z].price
  BY <1>2
<1>4. \A z : PlaceIn(c, z) = PlaceIn(b, z)
  BY <1>2, <1>3 DEF PlaceIn
<1>5. IsAhead(c, x, y) <=> IsAhead(b, x, y)
  BY <1>1, <1>2, <1>3, <1>4 DEF IsAhead
<1> QED BY <1>5 DEF c

(* The order of the live ids when one order leaves its place, and when it  *)
(* goes behind the others that rest at a place.                            *)
AheadWithout(b, c, id) ==
  \A x, y : IsAhead(c, x, y) <=> IsAhead(b, x, y) /\ x # id /\ y # id
AheadOfLast(b, c, id, side, price) ==
  \A x, y : IsAhead(c, x, y) <=>
    \/ IsAhead(b, x, y) /\ x # id /\ y # id
    \/ x \in Located(b, side, price) /\ x # id /\ y = id
AheadKept(b, c) == \A x, y : IsAhead(c, x, y) <=> IsAhead(b, x, y)

(* execute_fill: the passive order was first, and it leaves, keeps its     *)
(* place with something to show, or goes behind the others with a new      *)
(* peak.                                                                   *)
(* What a book holds of an order. *)
Retains(b, id, quantity, reserve, peak) ==
  /\ b.id_map[id].quantity = quantity
  /\ b.id_map[id].reserve_qty = reserve
  /\ b.id_map[id].peak_qty = peak

LEMMA FillAhead ==
  ASSUME NEW b, Sound(b), NEW side \in Sides, NEW price, HasLevel(b, side, price),
         NEW qty \in Nat, qty <= b.id_map[FrontId(b, side, price)].quantity
  PROVE  LET id      == FrontId(b, side, price)
             s       == b.id_map[id]
             passive == [s EXCEPT !.quantity = s.quantity - qty]
             c       == AfterFill(FrontDrained(b, side, price), passive, qty)
             peak    == Lesser(s.peak_qty, s.reserve_qty)
         IN  /\ \A x : ~IsAhead(b, x, id)
             /\ \/ ~has_order(c, id) /\ AheadWithout(b, c, id)
                \/ /\ has_order(c, id) /\ qty < s.quantity /\ AheadKept(b, c)
                   /\ Retains(c, id, s.quantity - qty, s.reserve_qty, s.peak_qty)
                \/ /\ has_order(c, id) /\ qty = s.quantity /\ s.reserve_qty > 0
                   /\ AheadOfLast(b, c, id, side, price)
                   /\ Retains(c, id, peak, s.reserve_qty - peak, s.peak_qty)
<1> DEFINE id      == FrontId(b, side, price)
           order   == b.id_map[id]
           passive == [order EXCEPT !.quantity = order.quantity - qty]
           level   == b.levels[side][price]
           drained == drain_cancelled(level)
           d       == FrontDrained(b, side, price)
           peak    == Lesser(passive.peak_qty, passive.reserve_qty)
           next    == [passive EXCEPT !.reserve_qty = passive.reserve_qty - peak,
                                      !.quantity = peak]
           moved   == push_back(pop_front(drained, qty), passive.id, peak)
           m       == SetLevel(d, side, price, moved)
           c       == AfterFill(d, passive, qty)
<1>1. IsBook(b) /\ price \in Prices
  BY LevelType DEF Sound
<1>2. Proper(level) /\ Alive(level) = Located(b, side, price) /\ Alive(level) # {}
  BY <1>1 DEF Sound, LevelSound
<1>3. /\ Proper(drained) /\ Alive(drained) = Alive(level)
      /\ Queued(drained) \subseteq Queued(level)
      /\ id \in Alive(level) /\ id = drained.queue[1] /\ drained.queue # <<>>
  BY <1>2, DrainAlive DEF FrontId
<1>4. /\ \A x, y : Precedence(drained, x, y) <=> Precedence(level, x, y)
      /\ \A x : ~Precedence(level, x, id)
  <2> HIDE DEF level
  <2> QED BY <1>2, <1>3, DrainOrder
<1>5. /\ has_order(b, id) /\ order.side = side /\ order.price = price
      /\ order \in Orders /\ order.id = id /\ id \in Ids
      /\ id \in Located(b, side, price)
  <2>1. id \in Located(b, side, price)
    BY <1>2, <1>3
  <2> HIDE DEF id
  <2>2. has_order(b, id) /\ order.side = side /\ order.price = price
    BY <2>1 DEF Located, has_order
  <2> QED BY <2>1, <2>2, <1>1, OrderInBook DEF Sound, has_order
<1>6. /\ qty <= order.quantity /\ order.quantity \in Nat
      /\ order.reserve_qty \in Nat /\ order.peak_qty \in Nat
  BY <1>5, OrderFields
<1> HIDE DEF id, order
<1>7. /\ passive \in Orders /\ passive.id = id /\ passive.side = side
      /\ passive.price = price /\ passive.quantity = order.quantity - qty
      /\ passive.reserve_qty = order.reserve_qty /\ passive.peak_qty = order.peak_qty
  <2>1. order.quantity - qty \in Nat
    BY <1>6
  <2> QED BY <1>5, <2>1 DEF Orders
<1> HIDE DEF passive
<1>8. \A x, y : Precedence(level, x, y) => IsAhead(b, x, y)
  BY <1>1, AheadAt DEF ServedAt
<1>9. \A x, y : IsAhead(b, x, y) /\ (x = id \/ y = id) => Precedence(level, x, y)
  BY <1>1, <1>5, AheadAt DEF ServedAt
<1>10. \A x : ~IsAhead(b, x, id)
  BY <1>4, <1>9
<1>11. /\ Sound(d) /\ d.id_map = b.id_map /\ HasLevel(d, side, price)
       /\ d.levels[side][price] = drained /\ AheadKept(b, d)
  <2> HIDE DEF drained
  <2>1. d = SetLevel(b, side, price, drained)
    BY DEF FrontDrained, level, drained
  <2>2. /\ Sound(d) /\ d.id_map = b.id_map /\ HasLevel(d, side, price)
        /\ d.levels[side][price] = drained
    BY <1>2, <1>3, <2>1, SetLevelSound
  <2>3. \A x, y : IsAhead(d, x, y) <=>
                    \/ Precedence(drained, x, y)
                    \/ IsAhead(b, x, y) /\ ~Precedence(level, x, y)
    BY <1>2, <1>3, <2>1, SetLevelAhead
  <2> HIDE DEF d, level
  <2> QED BY <1>4, <1>8, <2>2, <2>3 DEF AheadKept
<1>12. has_order(d, passive.id) /\ d.id_map[passive.id] = order
  BY <1>5, <1>7, <1>11 DEF has_order, order
<1> HIDE DEF d
<1> DEFINE fresh == Lesser(order.peak_qty, order.reserve_qty)
           Outcome == \/ ~has_order(c, id) /\ AheadWithout(b, c, id)
                      \/ /\ has_order(c, id) /\ qty < order.quantity /\ AheadKept(b, c)
                         /\ Retains(c, id, order.quantity - qty, order.reserve_qty, order.peak_qty)
                      \/ /\ has_order(c, id) /\ qty = order.quantity /\ order.reserve_qty > 0
                         /\ AheadOfLast(b, c, id, side, price)
                         /\ Retains(c, id, fresh, order.reserve_qty - fresh, order.peak_qty)
<1>13. ASSUME passive.quantity = 0 /\ is_iceberg(passive) /\ passive.reserve_qty > 0
       PROVE  Outcome
  <2>1. /\ peak \in Nat /\ next \in Orders /\ next.id = id /\ next.side = side /\ next.price = price
        /\ next.quantity = fresh /\ next.reserve_qty = order.reserve_qty - fresh
        /\ next.peak_qty = order.peak_qty
    <3>1. peak \in Nat /\ passive.reserve_qty - peak \in Nat
      BY <1>7, OrderFields DEF Lesser
    <3>2. peak = fresh
      BY <1>7
    <3> HIDE DEF peak, fresh
    <3> QED BY <1>7, <3>1, <3>2 DEF Orders
  <2>2. drain_cancelled(drained).queue[1] = id
    BY <1>2, <1>3, DrainTwice
  <2> HIDE DEF level, peak
  <2>3. /\ Proper(moved) /\ Alive(moved) = Alive(drained)
        /\ Queued(moved) \subseteq Queued(drained)
    <3> HIDE DEF drained
    <3> QED BY <1>2, <1>3, <1>7, <2>1, <2>2, PopPushAlive
  <2>4. \A x, y : Precedence(moved, x, y) <=>
                    \/ Precedence(drained, x, y) /\ x # id /\ y # id
                    \/ x \in Alive(drained) /\ x # id /\ y = id
    <3> HIDE DEF drained
    <3> DEFINE front == drain_cancelled(drained).queue[1]
    <3>1. Proper(drained) /\ Alive(drained) # {}
      BY <1>2, <1>3
    <3>2. \A x, y : Precedence(push_back(pop_front(drained, qty), front, peak), x, y) <=>
                      \/ Precedence(drained, x, y) /\ x # front /\ y # front
                      \/ x \in Alive(drained) /\ x # front /\ y = front
      BY <2>1, <3>1, PopPushOrder
    <3> HIDE DEF front
    <3>3. front = id /\ passive.id = id
      BY <1>7, <2>2 DEF front
    <3> QED BY <3>2, <3>3
  <2> HIDE DEF moved, drained
  <2>5. Sound(m) /\ m.id_map = d.id_map
    BY <1>11, <2>3, SetLevelSound
  <2>6. \A x, y : IsAhead(m, x, y) <=>
                    \/ Precedence(moved, x, y)
                    \/ IsAhead(d, x, y) /\ ~Precedence(drained, x, y)
    BY <1>11, <2>3, SetLevelAhead
  <2>7. AheadOfLast(b, m, id, side, price)
    BY <1>2, <1>3, <1>4, <1>8, <1>9, <1>11, <2>4, <2>6 DEF AheadOfLast, AheadKept
  <2>8. c = update_order(m, next)
    BY <1>7, <1>11, <1>13 DEF AfterFill, replenish_iceberg, moved, peak, Lesser
  <2> HIDE DEF m, next, c
  <2>9. /\ has_order(m, next.id) /\ m.id_map[next.id].side = next.side
        /\ m.id_map[next.id].price = next.price
    BY <1>5, <1>7, <1>12, <2>1, <2>5 DEF has_order
  <2>10. AheadKept(m, c) /\ has_order(c, id) /\ c.id_map[id] = next
    BY <2>1, <2>5, <2>8, <2>9, UpdateAhead, UpdateOrders DEF AheadKept
  <2>11. qty = order.quantity /\ order.reserve_qty > 0
    BY <1>6, <1>7, <1>13
  <2>12. Retains(c, id, fresh, order.reserve_qty - fresh, order.peak_qty)
    BY <2>1, <2>10 DEF Retains
  <2> HIDE DEF fresh
  <2> QED BY <2>7, <2>10, <2>11, <2>12 DEF AheadOfLast, AheadKept
<1>14. ASSUME passive.quantity = 0 /\ ~(is_iceberg(passive) /\ passive.reserve_qty > 0)
       PROVE  Outcome
  <2> DEFINE u == update_order(d, passive)
  <2>1. c = cancel_order(u, id)
    BY <1>7, <1>14 DEF AfterFill
  <2>2. Sound(u) /\ has_order(u, id)
    BY <1>5, <1>7, <1>11, <1>12, UpdateSound
  <2>3. AheadKept(d, u)
    BY <1>5, <1>7, <1>11, <1>12, UpdateAhead DEF AheadKept
  <2> HIDE DEF u, c
  <2>4. ~has_order(c, id) /\ AheadWithout(u, c, id)
    BY <2>1, <2>2, CancelSound, CancelAhead DEF AheadWithout
  <2> QED BY <1>11, <2>3, <2>4 DEF AheadWithout, AheadKept
<1>15. ASSUME passive.quantity # 0
       PROVE  Outcome
  <2> DEFINE r == reduce_level_volume(d, side, price, qty)
  <2>1. c = update_order(r, passive)
    BY <1>7, <1>15 DEF AfterFill
  <2>2. Sound(r) /\ r.id_map = d.id_map /\ AheadKept(d, r)
    BY <1>11, ReduceLevelSound, ReduceLevelAhead DEF AheadKept
  <2> HIDE DEF r, c
  <2>3. has_order(r, passive.id) /\ r.id_map[passive.id] = order
    BY <1>12, <2>2 DEF has_order
  <2>4. has_order(c, id) /\ AheadKept(r, c) /\ c.id_map[id] = passive
    BY <1>5, <1>7, <2>1, <2>2, <2>3, UpdateAhead, UpdateOrders DEF AheadKept
  <2>5. qty < order.quantity
    BY <1>6, <1>7, <1>15
  <2>6. Retains(c, id, order.quantity - qty, order.reserve_qty, order.peak_qty)
    BY <1>7, <2>4 DEF Retains
  <2> QED BY <1>11, <2>2, <2>4, <2>5, <2>6 DEF AheadKept
<1> HIDE DEF c
<1>16. Outcome
  BY <1>13, <1>14, <1>15 DEF c
<1> QED BY <1>10, <1>16 DEF c, d, passive, order, id

(* An order comes to rest, or is queued again after a cancel. *)
LEMMA InsertLast ==
  ASSUME NEW b, Sound(b), NEW order \in Orders, ~has_order(b, order.id),
         HasLevel(b, order.side, order.price) =>
           order.id \notin Queued(b.levels[order.side][order.price])
  PROVE  AheadOfLast(b, insert_order(b, order), order.id, order.side, order.price)
<1>1. \A x, y : IsAhead(insert_order(b, order), x, y) <=>
                  \/ IsAhead(b, x, y)
                  \/ x \in Located(b, order.side, order.price) /\ y = order.id
  BY InsertAhead
<1>2. \A x, y : IsAhead(b, x, y) => x # order.id /\ y # order.id
  BY DEF IsAhead
<1>3. order.id \notin Located(b, order.side, order.price)
  BY DEF Located, has_order
<1> QED BY <1>1, <1>2, <1>3 DEF AheadOfLast

LEMMA RequeueLast ==
  ASSUME NEW b, Sound(b), NEW id, has_order(b, id), NEW order \in Orders, order.id = id,
         ~HasEntry(cancel_order(b, id), order.side, order.price, id)
  PROVE  AheadOfLast(b, insert_order(cancel_order(b, id), order), id, order.side, order.price)
<1> DEFINE left == cancel_order(b, id)
           c    == insert_order(left, order)
<1>1. /\ Sound(left) /\ ~has_order(left, id)
      /\ \A x : has_order(left, x) <=> has_order(b, x) /\ x # id
      /\ \A x : has_order(left, x) => left.id_map[x] = b.id_map[x]
  BY CancelSound, CancelOrders
<1>2. \A x, y : IsAhead(left, x, y) <=> IsAhead(b, x, y) /\ x # id /\ y # id
  BY CancelAhead
<1> HIDE DEF left
<1>3. HasLevel(left, order.side, order.price) =>
        order.id \notin Queued(left.levels[order.side][order.price])
  BY DEF HasEntry, Queued, left
<1>4. AheadOfLast(left, c, id, order.side, order.price)
  BY <1>1, <1>3, InsertLast
<1>5. Located(left, order.side, order.price) = Located(b, order.side, order.price) \ {id}
  BY <1>1 DEF Located, has_order
<1> HIDE DEF c
<1>6. AheadOfLast(b, c, id, order.side, order.price)
  BY <1>2, <1>4, <1>5 DEF AheadOfLast
<1> QED BY <1>6 DEF c, left

-----------------------------------------------------------------------------
(* The variables of the abstract book, of a book b. *)
AtIn(b) == [id \in Ids |-> PlaceIn(b, id)]
AheadIn(b) == {pair \in Ids \X Ids : IsAhead(b, pair[1], pair[2])}
LotsIn(b) == [id \in Ids |-> LotIn(b, id)]

OthersKept(b, c, id) ==
  /\ \A x : x # id => (has_order(c, x) <=> has_order(b, x))
  /\ \A x : x # id /\ has_order(b, x) => c.id_map[x] = b.id_map[x]

LEMMA MapsKept ==
  ASSUME NEW b, NEW c, NEW id \in Ids, OthersKept(b, c, id)
  PROVE  /\ AtIn(c) = [AtIn(b) EXCEPT ![id] = PlaceIn(c, id)]
         /\ LotsIn(c) = [LotsIn(b) EXCEPT ![id] = LotIn(c, id)]
<1>1. \A x \in Ids : x # id => PlaceIn(c, x) = PlaceIn(b, x) /\ LotIn(c, x) = LotIn(b, x)
  BY DEF OthersKept, PlaceIn, LotIn
<1> QED BY <1>1 DEF AtIn, LotsIn

LEMMA PairsLeft ==
  ASSUME NEW b, NEW c, NEW id, AheadWithout(b, c, id)
  PROVE  AheadIn(c) = {pair \in AheadIn(b) : id \notin {pair[1], pair[2]}}
  BY DEF AheadIn, AheadWithout

LEMMA PairsKept ==
  ASSUME NEW b, NEW c, AheadKept(b, c)
  PROVE  AheadIn(c) = AheadIn(b)
  BY DEF AheadIn, AheadKept

LEMMA RestingThere ==
  ASSUME NEW b, Sound(b), NEW side, NEW price
  PROVE  Located(b, side, price) = {x \in Ids : AtIn(b)[x] = <<side, price>>}
<1>1. DOMAIN b.id_map \subseteq Ids
  BY DEF Sound, IsBook, IsMap
<1>2. ASSUME NEW x \in Ids
      PROVE  AtIn(b)[x] = <<side, price>> <=> x \in Located(b, side, price)
  BY DEF AtIn, PlaceIn, Located, has_order
<1> QED BY <1>1, <1>2 DEF Located

LEMMA PairsLast ==
  ASSUME NEW b, Sound(b), NEW c, NEW id \in Ids, NEW side, NEW price,
         AheadOfLast(b, c, id, side, price)
  PROVE  AheadIn(c) = {pair \in AheadIn(b) : id \notin {pair[1], pair[2]}}
                        \cup {<<x, id>> : x \in {z \in Ids : AtIn(b)[z] = <<side, price>>} \ {id}}
<1> DEFINE There == {z \in Ids : AtIn(b)[z] = <<side, price>>}
           New == {<<x, id>> : x \in There \ {id}}
           Old == {pair \in AheadIn(b) : id \notin {pair[1], pair[2]}}
<1>1. Located(b, side, price) = There /\ There \subseteq Ids
  BY RestingThere
<1> HIDE DEF There
<1>2. ASSUME NEW x \in Ids, NEW y \in Ids
      PROVE  <<x, y>> \in AheadIn(c) <=> <<x, y>> \in Old \/ <<x, y>> \in New
  <2>1. <<x, y>> \in AheadIn(c) <=> IsAhead(c, x, y)
    BY DEF AheadIn
  <2>2. <<x, y>> \in Old <=> IsAhead(b, x, y) /\ x # id /\ y # id
    BY DEF AheadIn
  <2>3. <<x, y>> \in New <=> x \in There /\ x # id /\ y = id
    OBVIOUS
  <2> QED BY <1>1, <2>1, <2>2, <2>3 DEF AheadOfLast
<1>3. \A pair \in Ids \X Ids : \E x, y \in Ids : pair = <<x, y>>
  OBVIOUS
<1>4. AheadIn(c) \subseteq Ids \X Ids /\ Old \subseteq Ids \X Ids /\ New \subseteq Ids \X Ids
  BY <1>1 DEF AheadIn
<1> HIDE DEF Old, New
<1>5. AheadIn(c) = Old \cup New
  BY <1>2, <1>3, <1>4
<1> QED BY <1>5 DEF Old, New, There

-----------------------------------------------------------------------------
(* The actions. *)
LEMMA NothingAsked ==
  ASSUME book' = book, result'.trades = <<>>
  PROVE  AbstractBook!ClientEvent
  BY DEF AbstractBook!ClientEvent

LEMMA NothingHappens ==
  ASSUME book' = book, result'.trades = result.trades
  PROVE  UNCHANGED AbstractBook!bookVars
  BY DEF AbstractBook!bookVars

LEMMA CancelWithdraws ==
  ASSUME Inv, NEW id \in Ids, has_order(book, id), book' = cancel_order(book, id),
         result'.trades = <<>>
  PROVE  AbstractBook!ClientEvent
<1>1. Sound(book)
  BY DEF Inv
<1>2. /\ \A x : has_order(book', x) <=> has_order(book, x) /\ x # id
      /\ \A x : has_order(book', x) => book'.id_map[x] = book.id_map[x]
  BY <1>1, CancelOrders
<1>3. AheadWithout(book, book', id)
  BY <1>1, CancelAhead DEF AheadWithout
<1>4. /\ AtIn(book') = [AtIn(book) EXCEPT ![id] = <<>>]
      /\ LotsIn(book') = [LotsIn(book) EXCEPT ![id] = AbstractBook!NoLot]
      /\ AheadIn(book') = {pair \in AheadIn(book) : id \notin {pair[1], pair[2]}}
  <2>1. OthersKept(book, book', id)
    BY <1>2 DEF OthersKept
  <2>2. PlaceIn(book', id) = <<>> /\ LotIn(book', id) = AbstractBook!NoLot
    BY <1>2 DEF PlaceIn, LotIn, AbstractBook!NoLot, AbstractBook!Lot
  <2> QED BY <1>3, <2>1, <2>2, MapsKept, PairsLeft
<1>5. AtIn(book)[id] # <<>>
  BY DEF AtIn, PlaceIn
<1>6. AbstractBook!Withdraw(id)
  BY <1>4, <1>5 DEF AbstractBook!Withdraw, AbstractBook!Leaves, AbstractBook!Nowhere,
     AbstractBook!PairsWithout, AtIn, LotsIn, AheadIn
<1> QED BY <1>6 DEF AbstractBook!ClientEvent

LEMMA RestingPlaced ==
  ASSUME Inv, FinishResting
  PROVE  AbstractBook!ComesToRest
<1> DEFINE order == Top.order
           place == <<order.side, order.price>>
<1>1. /\ ~Idle /\ book' = insert_order(book, order) /\ result' = result /\ Rests(order)
  BY DEF FinishResting, LoopEnded, Matching
<1>2. /\ Sound(book) /\ Apart(book, pending_stops, stack)
  BY DEF Inv
<1>3. /\ stack \in Seq(Frames) /\ stack # <<>> /\ Top = stack[1] /\ order \in Orders
      /\ Top.working \in Seq(Orders)
  BY <1>1, TopType
<1>4. Absent(book, order.id)
  <2>1. /\ IsPlace(pending_stops, stack, 1, 0)
        /\ IdAt(pending_stops, stack, 1, 0) = order.id
    BY <1>3 DEF IsPlace, IdAt
  <2> QED BY <1>2, <2>1 DEF Apart
<1>5. /\ order.side \in Sides /\ order.price \in Prices /\ order.id \in Ids
      /\ order.quantity \in Nat /\ order.reserve_qty \in Nat
  BY <1>3, OrderFields
<1> HIDE DEF order
<1>6. /\ ~has_order(book, order.id)
      /\ HasLevel(book, order.side, order.price) =>
           order.id \notin Queued(book.levels[order.side][order.price])
  BY <1>4, <1>5 DEF Absent, HasLevel
<1>7. AheadOfLast(book, book', order.id, order.side, order.price)
  BY <1>1, <1>2, <1>3, <1>6, InsertLast
<1>8. /\ \A x : has_order(book', x) <=> has_order(book, x) \/ x = order.id
      /\ book'.id_map[order.id] = order
      /\ \A x : has_order(book, x) /\ x # order.id => book'.id_map[x] = book.id_map[x]
  BY <1>1, <1>2, InsertOrders
<1> DEFINE id  == order.id
           lot == LotIn(book', id)
<1>9. /\ AtIn(book') = [AtIn(book) EXCEPT ![id] = place]
      /\ LotsIn(book') = [LotsIn(book) EXCEPT ![id] = lot]
      /\ AheadIn(book') = {pair \in AheadIn(book) : id \notin {pair[1], pair[2]}}
           \cup {<<x, id>> : x \in {z \in Ids : AtIn(book)[z] = place} \ {id}}
  <2>1. OthersKept(book, book', id)
    BY <1>8 DEF OthersKept
  <2>2. PlaceIn(book', id) = place
    BY <1>8 DEF PlaceIn
  <2> QED BY <1>2, <1>5, <1>7, <2>1, <2>2, MapsKept, PairsLast
<1>10. lot.shown + lot.hidden > 0
  <2>1. lot.shown = order.quantity /\ lot.hidden = order.reserve_qty
    BY <1>8 DEF LotIn
  <2> QED BY <1>1, <1>5, <2>1 DEF Rests
<1>11. AtIn(book)[id] = <<>> /\ place \in {"Buy", "Sell"} \X Prices /\ LotsIn(book')[id] = lot
  BY <1>5, <1>6 DEF AtIn, PlaceIn, Sides, Buy, Sell, LotsIn
<1> HIDE DEF place, lot, id
<1>12. id \in Ids
  BY <1>5 DEF id
<1>13. AbstractBook!Place(id, place, lot)
  BY <1>9, <1>10, <1>11, <1>12 DEF AbstractBook!Place, AbstractBook!Queues, AbstractBook!Nowhere,
     AbstractBook!PairsWithout, AbstractBook!RestingAt, AtIn, LotsIn, AheadIn
<1>14. lot = [x \in Ids |-> LotIn(book', x)][id]
  BY <1>11 DEF LotsIn
<1>15. AbstractBook!ComesToRest
  BY <1>1, <1>11, <1>12, <1>13, <1>14 DEF AbstractBook!ComesToRest, AbstractBook!BookPlaces
<1> QED BY <1>15

LEMMA AmendedFields ==
  ASSUME NEW order \in Orders, NEW m \in Amendments
  PROVE  /\ Amended(order, m).reserve_qty = order.reserve_qty
         /\ Amended(order, m).peak_qty = order.peak_qty
         /\ Amended(order, m).quantity > 0 \/ Amended(order, m).quantity = order.quantity
         /\ IF LosesPriority(order, m)
            THEN \/ Amended(order, m).price # order.price
                 \/ Amended(order, m).quantity > order.quantity
            ELSE /\ Amended(order, m).price = order.price
                 /\ Amended(order, m).quantity <= order.quantity
<1> DEFINE moved == Amended(order, m)
<1>1. m.new_price \in Prices /\ m.new_quantity \in Nat /\ order.quantity \in Nat
  BY AmendmentsAssumption, OrderFields
<1>2. /\ moved.price = IF m.new_price # 0 THEN m.new_price ELSE order.price
      /\ moved.quantity = IF m.new_quantity # 0 THEN m.new_quantity ELSE order.quantity
      /\ moved.reserve_qty = order.reserve_qty /\ moved.peak_qty = order.peak_qty
  BY DEF Amended, Orders
<1> HIDE DEF moved
<1>3. moved.quantity > 0 \/ moved.quantity = order.quantity
  BY <1>1, <1>2
<1>4. ASSUME LosesPriority(order, m)
      PROVE  moved.price # order.price \/ moved.quantity > order.quantity
  BY <1>1, <1>2, <1>4 DEF LosesPriority
<1>5. ASSUME ~LosesPriority(order, m)
      PROVE  moved.price = order.price /\ moved.quantity <= order.quantity
  BY <1>1, <1>2, <1>5 DEF LosesPriority
<1> QED BY <1>2, <1>3, <1>4, <1>5 DEF moved

LEMMA ModifyRequeues ==
  ASSUME Inv, "requeues" \in Discipline, NEW id \in Ids, NEW m \in Amendments,
         ModifyRequeue(id, m)
  PROVE  AbstractBook!ClientEvent
<1> DEFINE order == book.id_map[id]
           moved == Amended(order, m)
           left  == cancel_order(book, id)
           place == <<moved.side, moved.price>>
<1>1. /\ has_order(book, id) /\ LosesPriority(order, m)
      /\ ~HasEntry(left, order.side, moved.price, id)
      /\ book' = insert_order(left, moved)
      /\ result' = EmptyResult
  BY DEF ModifyRequeue
<1>2. Sound(book)
  BY DEF Inv
<1>3. order \in Orders /\ order.id = id
  BY <1>1, <1>2, OrderInBook DEF Sound, has_order
<1>4. /\ PlaceIn(book, id) = <<order.side, order.price>>
      /\ LotIn(book, id) = AbstractBook!Lot(order.quantity, order.reserve_qty, order.peak_qty)
  BY <1>1 DEF PlaceIn, LotIn, AbstractBook!Lot
<1> HIDE DEF order
<1>5. /\ moved \in Orders /\ moved.id = id /\ moved.side = order.side
      /\ moved.reserve_qty = order.reserve_qty /\ moved.peak_qty = order.peak_qty
      /\ moved.quantity > 0 \/ moved.quantity = order.quantity
      /\ moved.price # order.price \/ moved.quantity > order.quantity
  BY <1>1, <1>3, AmendedType, AmendedFields
<1> HIDE DEF moved
<1>6. moved.side \in Sides /\ moved.price \in Prices
  BY <1>5, OrderFields
<1>7. AheadOfLast(book, book', id, moved.side, moved.price)
  BY <1>1, <1>2, <1>5, RequeueLast
<1>8. /\ Sound(left) /\ ~has_order(left, id)
      /\ \A x : has_order(left, x) <=> has_order(book, x) /\ x # id
      /\ \A x : has_order(left, x) => left.id_map[x] = book.id_map[x]
  BY <1>1, <1>2, CancelSound, CancelOrders
<1> HIDE DEF left
<1>9. /\ \A x : has_order(book', x) <=> has_order(left, x) \/ x = id
      /\ book'.id_map[id] = moved
      /\ \A x : has_order(left, x) /\ x # id => book'.id_map[x] = left.id_map[x]
  BY <1>1, <1>5, <1>8, InsertOrders
<1> DEFINE qty == moved.quantity
           lot == AbstractBook!Lot(qty, order.reserve_qty, order.peak_qty)
<1>10. /\ AtIn(book') = [AtIn(book) EXCEPT ![id] = place]
       /\ LotsIn(book') = [LotsIn(book) EXCEPT ![id] = lot]
       /\ AheadIn(book') = {pair \in AheadIn(book) : id \notin {pair[1], pair[2]}}
            \cup {<<x, id>> : x \in {z \in Ids : AtIn(book)[z] = place} \ {id}}
  <2>1. OthersKept(book, book', id)
    BY <1>8, <1>9 DEF OthersKept
  <2>2. PlaceIn(book', id) = place /\ LotIn(book', id) = lot
    BY <1>5, <1>9 DEF PlaceIn, LotIn, AbstractBook!Lot
  <2> QED BY <1>2, <1>7, <2>1, <2>2, MapsKept, PairsLast
<1>11. /\ LotsIn(book)[id] = AbstractBook!Lot(order.quantity, order.reserve_qty, order.peak_qty)
       /\ LotsIn(book')[id] = lot
  BY <1>4, <1>10 DEF LotsIn
<1>12. /\ AtIn(book)[id] # <<>> /\ place[1] = AtIn(book)[id][1]
       /\ place \in {"Buy", "Sell"} \X Prices
       /\ place # AtIn(book)[id] \/ qty > order.quantity
       /\ qty > 0 \/ qty = order.quantity
  <2>1. AtIn(book)[id] = <<order.side, order.price>>
    BY <1>4 DEF AtIn
  <2>2. place[1] = order.side /\ place \in {"Buy", "Sell"} \X Prices
    BY <1>5, <1>6 DEF Sides, Buy, Sell
  <2>3. moved.price # order.price => place # <<order.side, order.price>>
    OBVIOUS
  <2> QED BY <1>5, <2>1, <2>2, <2>3
<1>13. /\ LotsIn(book)[id].shown = order.quantity
       /\ LotsIn(book)[id].hidden = order.reserve_qty
       /\ LotsIn(book)[id].peak = order.peak_qty
       /\ LotsIn(book')[id].shown = qty
  BY <1>11 DEF AbstractBook!Lot
<1> HIDE DEF place, qty, lot
<1>14. AbstractBook!Queues(id, place, AbstractBook!Lot(qty, LotsIn(book)[id].hidden, LotsIn(book)[id].peak))
  BY <1>10, <1>13 DEF AbstractBook!Queues, AbstractBook!PairsWithout, AbstractBook!RestingAt,
     AtIn, LotsIn, AheadIn, lot
<1>15. AbstractBook!Requeue(id, place, LotsIn(book')[id].shown)
  BY <1>12, <1>13, <1>14 DEF AbstractBook!Requeue, AbstractBook!Nowhere, AtIn, LotsIn
<1>16. result'.trades = <<>>
  BY <1>1 DEF EmptyResult
<1> QED BY <1>12, <1>15, <1>16 DEF AbstractBook!ClientEvent, AbstractBook!BookPlaces, LotsIn

LEMMA ModifyShrinks ==
  ASSUME Inv, NEW id \in Ids, NEW m \in Amendments, ModifyInPlace(id, m)
  PROVE  AbstractBook!ClientEvent
<1> DEFINE order == book.id_map[id]
           moved == Amended(order, m)
           delta == order.quantity - moved.quantity
           set   == update_order(book, moved)
<1>1. /\ has_order(book, id) /\ ~LosesPriority(order, m)
      /\ book' = reduce_level_volume(set, order.side, order.price, delta)
      /\ result' = EmptyResult
  BY DEF ModifyInPlace
<1>2. Sound(book)
  BY DEF Inv
<1>3. order \in Orders /\ order.id = id
  BY <1>1, <1>2, OrderInBook DEF Sound, has_order
<1>4. /\ PlaceIn(book, id) = <<order.side, order.price>>
      /\ LotIn(book, id) = AbstractBook!Lot(order.quantity, order.reserve_qty, order.peak_qty)
  BY <1>1 DEF PlaceIn, LotIn, AbstractBook!Lot
<1>5. /\ moved \in Orders /\ moved.id = id /\ moved.side = order.side
      /\ moved.price = order.price /\ moved.quantity <= order.quantity
      /\ moved.quantity > 0 \/ moved.quantity = order.quantity
      /\ moved.reserve_qty = order.reserve_qty /\ moved.peak_qty = order.peak_qty
  <2> HIDE DEF order
  <2> QED BY <1>1, <1>3, AmendedType, AmendedFields
<1>6. /\ order.side \in Sides /\ delta \in Nat
      /\ order.quantity \in Nat /\ moved.quantity \in Nat
  <2>1. order.quantity \in Nat /\ moved.quantity \in Nat /\ order.side \in Sides
    BY <1>3, <1>5, OrderFields
  <2> HIDE DEF order, moved
  <2> QED BY <1>5, <2>1
<1>7. /\ Sound(set) /\ AheadKept(book, set)
      /\ \A x : has_order(set, x) <=> has_order(book, x)
      /\ set.id_map[id] = moved
      /\ \A x : has_order(book, x) /\ x # id => set.id_map[x] = book.id_map[x]
  <2> HIDE DEF moved
  <2>1. has_order(book, moved.id) /\ moved.side = book.id_map[moved.id].side
        /\ moved.price = book.id_map[moved.id].price
    BY <1>1, <1>5 DEF order
  <2>2. /\ Sound(set) /\ AheadKept(book, set)
    BY <1>2, <1>5, <2>1, UpdateSound, UpdateAhead DEF AheadKept
  <2>3. /\ \A x : has_order(set, x) <=> has_order(book, x)
        /\ set.id_map[moved.id] = moved
        /\ \A x : has_order(book, x) /\ x # moved.id => set.id_map[x] = book.id_map[x]
    BY <1>2, <2>1, UpdateOrders
  <2> QED BY <1>5, <2>2, <2>3
<1> HIDE DEF set, delta, moved, order
<1>8. book'.id_map = set.id_map /\ AheadKept(set, book')
  BY <1>1, <1>6, <1>7, ReduceLevelSound, ReduceLevelAhead DEF AheadKept
<1> DEFINE qty == moved.quantity
           lot == AbstractBook!Lot(qty, order.reserve_qty, order.peak_qty)
<1>9. /\ AtIn(book') = AtIn(book)
      /\ LotsIn(book') = [LotsIn(book) EXCEPT ![id] = lot]
      /\ AheadIn(book') = AheadIn(book)
  <2>1. OthersKept(book, book', id)
    BY <1>7, <1>8 DEF OthersKept, has_order
  <2>2. PlaceIn(book', id) = PlaceIn(book, id)
    BY <1>1, <1>4, <1>5, <1>7, <1>8 DEF PlaceIn, has_order
  <2>3. LotIn(book', id) = lot
    BY <1>1, <1>5, <1>7, <1>8 DEF LotIn, AbstractBook!Lot, has_order
  <2>4. AheadKept(book, book')
    BY <1>7, <1>8 DEF AheadKept
  <2>5. [AtIn(book) EXCEPT ![id] = PlaceIn(book, id)] = AtIn(book)
    BY DEF AtIn
  <2> QED BY <2>1, <2>2, <2>3, <2>4, <2>5, MapsKept, PairsKept
<1>10. /\ LotsIn(book)[id] = AbstractBook!Lot(order.quantity, order.reserve_qty, order.peak_qty)
       /\ LotsIn(book')[id] = lot
  BY <1>4, <1>9 DEF LotsIn
<1>11. /\ LotsIn(book)[id].shown = order.quantity
       /\ LotsIn(book)[id].hidden = order.reserve_qty
       /\ LotsIn(book)[id].peak = order.peak_qty
       /\ LotsIn(book')[id].shown = qty
  BY <1>10 DEF AbstractBook!Lot
<1>12. AtIn(book)[id] # <<>>
  <2>1. AtIn(book)[id] = <<order.side, order.price>>
    BY <1>4 DEF AtIn
  <2> QED BY <2>1
<1>13. result'.trades = <<>>
  BY <1>1 DEF EmptyResult
<1>14. CASE qty = order.quantity
  <2>1. LotsIn(book') = LotsIn(book)
    BY <1>9, <1>10, <1>14 DEF LotsIn
  <2> QED BY <1>9, <1>13, <2>1 DEF AbstractBook!ClientEvent, AtIn, LotsIn, AheadIn
<1>15. CASE qty # order.quantity
  <2>1. 0 < qty /\ qty < order.quantity
    BY <1>5, <1>6, <1>15
  <2> HIDE DEF qty, lot
  <2>2. AbstractBook!Stays(id, AbstractBook!Lot(qty, LotsIn(book)[id].hidden, LotsIn(book)[id].peak))
    BY <1>9, <1>11 DEF AbstractBook!Stays, AtIn, LotsIn, AheadIn, lot
  <2>3. AbstractBook!Shrink(id, LotsIn(book')[id].shown)
    BY <1>11, <1>12, <2>1, <2>2 DEF AbstractBook!Shrink, AbstractBook!Nowhere, AtIn, LotsIn
  <2> QED BY <1>13, <2>3 DEF AbstractBook!ClientEvent, LotsIn
<1> QED BY <1>14, <1>15

(* A fill is a trade with the oldest order at the best price. *)
LEMMA FillTrades ==
  ASSUME Inv, Conserved, Fill
  PROVE  AbstractBook!Trades
<1> DEFINE side      == Opposite(Top.order.side)
           aggressor == Top.order
<1>1. ~Idle /\ Top.working = <<>> /\ aggressor.quantity > 0
  BY DEF Fill, Matching
<1>2. /\ aggressor \in Orders /\ side \in Sides /\ side # aggressor.side
      /\ aggressor.id \in Ids /\ aggressor.quantity \in Nat /\ aggressor.side \in Sides
  BY <1>1, TopType, OrderFields DEF Opposite, Sides, Buy, Sell
<1>3. TypeOK /\ Sound(book) /\ IsBook(book)
  BY DEF Inv, Sound
<1>4. PICK price \in DOMAIN book.levels[side] :
        LET id        == FrontId(book, side, price)
            standing  == book.id_map[id]
            fill_qty  == Lesser(aggressor.quantity, standing.quantity)
            passive   == [standing EXCEPT !.quantity = standing.quantity - fill_qty]
            resting   == AfterFill(FrontDrained(book, side, price), passive, fill_qty)
            trade     == [aggressor_id |-> aggressor.id, passive_id |-> id,
                          price |-> standing.price, quantity |-> fill_qty,
                          aggressor_side |-> aggressor.side]
        IN  /\ IsBest(book, side, price)
            /\ book' = [resting EXCEPT !.last_trade_price = standing.price]
            /\ result' = [result EXCEPT !.trades = Append(result.trades, trade)]
  BY DEF Fill
<1> DEFINE id        == FrontId(book, side, price)
           standing  == book.id_map[id]
           fill_qty  == Lesser(aggressor.quantity, standing.quantity)
           passive   == [standing EXCEPT !.quantity = standing.quantity - fill_qty]
           resting   == AfterFill(FrontDrained(book, side, price), passive, fill_qty)
           trade     == [aggressor_id |-> aggressor.id, passive_id |-> id,
                         price |-> standing.price, quantity |-> fill_qty,
                         aggressor_side |-> aggressor.side]
<1>5. HasLevel(book, side, price) /\ price \in Prices
  BY <1>2, <1>3, LevelType DEF HasLevel
<1> HIDE DEF aggressor, side
<1>6. id \in Located(book, side, price)
  <2>1. /\ Alive(book.levels[side][price]) = Located(book, side, price)
        /\ Proper(book.levels[side][price]) /\ Located(book, side, price) # {}
    BY <1>2, <1>3, <1>5 DEF Sound, LevelSound
  <2> QED BY <2>1, DrainAlive DEF FrontId
<1> HIDE DEF id
<1>7. /\ has_order(book, id) /\ standing \in Orders /\ id \in Ids
      /\ standing.side = side /\ standing.price = price
      /\ standing.quantity \in Nat /\ standing.reserve_qty \in Nat
      /\ standing.peak_qty \in Nat
  <2>1. has_order(book, id) /\ standing.side = side /\ standing.price = price
    BY <1>6 DEF Located, has_order
  <2> QED BY <1>3, <2>1, OrderInBook, OrderFields
<1> HIDE DEF standing
<1>8. /\ fill_qty \in Nat /\ fill_qty <= standing.quantity
      /\ fill_qty > 0 \/ standing.quantity = 0
  BY <1>1, <1>2, <1>7 DEF Lesser
<1> HIDE DEF fill_qty
<1>9. fill_qty <= book.id_map[FrontId(book, side, price)].quantity
  BY <1>8 DEF standing, id
<1> DEFINE n == resting.id_map[id]
           peak == Lesser(standing.peak_qty, standing.reserve_qty)
<1>10. /\ OthersKept(book, resting, id)
       /\ ~has_order(resting, id) =>
            standing.quantity = fill_qty /\ ~(standing.peak_qty > 0 /\ standing.reserve_qty > 0)
       /\ has_order(resting, id) => n.side = side /\ n.price = price
  <2> DEFINE Stays == /\ n.side = side /\ n.price = price /\ n.type = standing.type
                      /\ n.peak_qty = standing.peak_qty /\ n.reserve_qty <= standing.reserve_qty
                      /\ n.quantity + n.reserve_qty =
                           (standing.quantity - fill_qty) + standing.reserve_qty
             Gone == standing.quantity = fill_qty
                     /\ ~(standing.peak_qty > 0 /\ standing.reserve_qty > 0)
  <2>1. /\ \A x : x # id => (has_order(resting, x) <=> has_order(book, x))
        /\ \A x : x # id /\ has_order(book, x) => resting.id_map[x] = book.id_map[x]
        /\ (~has_order(resting, id) => Gone) /\ (has_order(resting, id) => Stays)
    BY <1>2, <1>3, <1>5, <1>8, <1>9, FillOrders DEF standing, id
  <2> HIDE DEF resting
  <2> QED BY <2>1 DEF OthersKept
<1>11. /\ \A x : ~IsAhead(book, x, id)
       /\ \/ ~has_order(resting, id) /\ AheadWithout(book, resting, id)
          \/ /\ has_order(resting, id) /\ fill_qty < standing.quantity
             /\ AheadKept(book, resting)
             /\ Retains(resting, id, standing.quantity - fill_qty, standing.reserve_qty,
                      standing.peak_qty)
          \/ /\ has_order(resting, id) /\ fill_qty = standing.quantity
             /\ standing.reserve_qty > 0
             /\ AheadOfLast(book, resting, id, side, price)
             /\ Retains(resting, id, peak, standing.reserve_qty - peak, standing.peak_qty)
  BY <1>2, <1>3, <1>5, <1>8, <1>9, FillAhead DEF standing, id
<1>12. Sound(resting)
  BY <1>2, <1>3, <1>5, <1>8, <1>9, FillSound DEF standing, id
<1>13. /\ book' = [resting EXCEPT !.last_trade_price = standing.price]
       /\ result' = [result EXCEPT !.trades = Append(result.trades, trade)]
       /\ IsBest(book, side, price)
  BY <1>4 DEF fill_qty, standing, id
<1> HIDE DEF resting
<1>14. book'.id_map = resting.id_map /\ book'.levels = resting.levels
  <2>1. resting = [levels |-> resting.levels, id_map |-> resting.id_map,
                   last_trade_price |-> resting.last_trade_price]
    BY <1>12 DEF Sound, IsBook
  <2> QED BY <1>13, <2>1
<1>15. /\ \A x : has_order(book', x) <=> has_order(resting, x)
       /\ \A x : PlaceIn(book', x) = PlaceIn(resting, x)
       /\ \A x, y : IsAhead(book', x, y) <=> IsAhead(resting, x, y)
       /\ OthersKept(book, book', id)
  BY <1>10, <1>14 DEF has_order, PlaceIn, IsAhead, OthersKept
<1>16. standing.reserve_qty > 0 => standing.peak_qty > 0
  BY <1>7 DEF Conserved, Kinds, standing
<1> DEFINE place == <<side, price>>
           Held(quantity, reserve) == AbstractBook!Lot(quantity, reserve, standing.peak_qty)
           less == Held(standing.quantity - fill_qty, standing.reserve_qty)
           new  == Held(peak, standing.reserve_qty - peak)
<1>17. /\ AtIn(book)[id] = place
       /\ LotsIn(book)[id] = Held(standing.quantity, standing.reserve_qty)
  BY <1>7 DEF AtIn, LotsIn, PlaceIn, LotIn, standing, AbstractBook!Lot
<1>18. /\ has_order(book', id) => PlaceIn(book', id) = place
       /\ ~has_order(book', id) =>
            PlaceIn(book', id) = <<>> /\ LotIn(book', id) = AbstractBook!NoLot
  BY <1>10, <1>14, <1>15 DEF PlaceIn, LotIn, AbstractBook!NoLot, AbstractBook!Lot
<1>19. /\ LotsIn(book') = [LotsIn(book) EXCEPT ![id] = LotIn(book', id)]
       /\ AtIn(book') = [AtIn(book) EXCEPT ![id] = PlaceIn(book', id)]
  BY <1>7, <1>15, MapsKept
<1> DEFINE Without == {pair \in AheadIn(book) : id \notin {pair[1], pair[2]}}
           There   == {z \in Ids : AtIn(book)[z] = place}
           Lots(lot) == LotsIn(book') = [LotsIn(book) EXCEPT ![id] = lot]
<1>20. \/ /\ fill_qty = standing.quantity /\ standing.reserve_qty = 0
          /\ AtIn(book') = [AtIn(book) EXCEPT ![id] = <<>>]
          /\ AheadIn(book') = Without
          /\ Lots(AbstractBook!NoLot)
       \/ /\ fill_qty < standing.quantity
          /\ AtIn(book') = AtIn(book) /\ AheadIn(book') = AheadIn(book)
          /\ Lots(less)
       \/ /\ fill_qty = standing.quantity /\ standing.reserve_qty > 0
          /\ AtIn(book') = [AtIn(book) EXCEPT ![id] = place]
          /\ AheadIn(book') = Without \cup {<<x, id>> : x \in There \ {id}}
          /\ Lots(new)
  <2>1. CASE ~has_order(resting, id) /\ AheadWithout(book, resting, id)
    <3>1. fill_qty = standing.quantity /\ standing.reserve_qty = 0
      BY <1>7, <1>10, <1>16, <2>1
    <3>2. AheadWithout(book, book', id)
      BY <1>15, <2>1 DEF AheadWithout
    <3>3. PlaceIn(book', id) = <<>> /\ LotIn(book', id) = AbstractBook!NoLot
      BY <1>15, <1>18, <2>1
    <3>4. AheadIn(book') = Without
      BY <3>2, PairsLeft
    <3> QED BY <1>19, <3>1, <3>3, <3>4
  <2>2. CASE /\ has_order(resting, id) /\ fill_qty < standing.quantity
             /\ AheadKept(book, resting)
             /\ Retains(resting, id, standing.quantity - fill_qty, standing.reserve_qty,
                      standing.peak_qty)
    <3>1. LotIn(book', id) = less
      BY <1>14, <1>15, <2>2 DEF LotIn, Retains, AbstractBook!Lot
    <3>2. AheadKept(book, book')
      BY <1>15, <2>2 DEF AheadKept
    <3>3. [AtIn(book) EXCEPT ![id] = place] = AtIn(book)
      BY <1>17 DEF AtIn
    <3> HIDE DEF less
    <3> QED BY <1>15, <1>18, <1>19, <2>2, <3>1, <3>2, <3>3, PairsKept
  <2>3. CASE /\ has_order(resting, id) /\ fill_qty = standing.quantity
             /\ standing.reserve_qty > 0
             /\ AheadOfLast(book, resting, id, side, price)
             /\ Retains(resting, id, peak, standing.reserve_qty - peak, standing.peak_qty)
    <3>1. LotIn(book', id) = new
      BY <1>14, <1>15, <2>3 DEF LotIn, Retains, AbstractBook!Lot
    <3>2. AheadOfLast(book, book', id, side, price)
      BY <1>15, <2>3 DEF AheadOfLast
    <3>3. PlaceIn(book', id) = place
      BY <1>15, <1>18, <2>3
    <3>4. AheadIn(book') = Without \cup {<<x, id>> : x \in There \ {id}}
      BY <1>3, <1>7, <3>2, PairsLast
    <3> HIDE DEF Without, There, place, new
    <3> QED BY <1>19, <2>3, <3>1, <3>3, <3>4
  <2> QED BY <1>11, <2>1, <2>2, <2>3
<1>21. \A x \in Ids : <<x, id>> \notin AheadIn(book)
  BY <1>11 DEF AheadIn
<1>22. ASSUME NEW x \in Ids, AtIn(book)[x] # <<>>, AtIn(book)[x][1] = AtIn(book)[id][1]
       PROVE  IF AtIn(book)[id][1] = "Buy" THEN AtIn(book)[x][2] <= AtIn(book)[id][2]
                                           ELSE AtIn(book)[x][2] >= AtIn(book)[id][2]
  <2>1. has_order(book, x) /\ AtIn(book)[x] = <<book.id_map[x].side, book.id_map[x].price>>
    BY <1>22 DEF AtIn, PlaceIn
  <2> DEFINE p == book.id_map[x].price
  <2>2. book.id_map[x].side = side /\ AtIn(book)[x][2] = p
    BY <1>17, <1>22, <2>1
  <2>3. p \in Prices
    BY <1>3, <2>1, OrderInBook, OrderFields
  <2>4. x \in Located(book, side, p)
    BY <2>1, <2>2 DEF Located, has_order
  <2> HIDE DEF p
  <2>5. p \in DOMAIN book.levels[side]
    BY <1>2, <1>3, <2>3, <2>4 DEF Sound, LevelSound, HasLevel
  <2>6. AtIn(book)[id][1] = side /\ AtIn(book)[id][2] = price
    BY <1>17
  <2> QED BY <1>13, <2>2, <2>5, <2>6 DEF IsBest, Buy
<1>23. /\ trade.passive_id = id /\ trade.quantity = fill_qty /\ trade.price = price
       /\ trade.aggressor_side = aggressor.side
  BY <1>7
<1> HIDE DEF trade
<1>24. /\ result'.trades = Append(result.trades, trade)
       /\ Len(result'.trades) > 0
       /\ result'.trades[Len(result'.trades)] = trade
  <2>1. result \in Results /\ result.trades \in Seq(Trades)
    BY <1>3 DEF TypeOK, Results
  <2>2. result'.trades = Append(result.trades, trade)
    BY <1>13, <2>1 DEF Results
  <2> QED BY <2>1, <2>2, AppendProperties
<1>25. /\ AtIn(book)[id] # <<>> /\ AtIn(book)[id][1] # trade.aggressor_side
       /\ AtIn(book)[id][2] = trade.price
  BY <1>2, <1>17, <1>23
<1>26. AbstractBook!Oldest(id)
  BY <1>21 DEF AbstractBook!Oldest, AheadIn
<1>27. AbstractBook!BestPriced(id)
  BY <1>22 DEF AbstractBook!BestPriced, AbstractBook!Nowhere, AtIn
<1>28. /\ LotsIn(book)[id].shown = standing.quantity
       /\ LotsIn(book)[id].hidden = standing.reserve_qty
       /\ LotsIn(book)[id].peak = standing.peak_qty
       /\ AbstractBook!NewPeak(LotsIn(book)[id]) = peak
  <2>1. /\ LotsIn(book)[id].shown = standing.quantity
        /\ LotsIn(book)[id].hidden = standing.reserve_qty
        /\ LotsIn(book)[id].peak = standing.peak_qty
    BY <1>17 DEF AbstractBook!Lot
  <2> QED BY <2>1 DEF AbstractBook!NewPeak, Lesser
<1> DEFINE lot == LotsIn(book)[id]
<1>29. \/ /\ fill_qty < lot.shown
          /\ AbstractBook!Stays(id, AbstractBook!Lot(lot.shown - fill_qty, lot.hidden, lot.peak))
       \/ /\ fill_qty = lot.shown /\ lot.hidden = 0
          /\ AbstractBook!Leaves(id)
       \/ /\ fill_qty = lot.shown /\ lot.hidden > 0
          /\ AbstractBook!Queues(id, AtIn(book)[id],
                AbstractBook!Lot(AbstractBook!NewPeak(lot),
                                 lot.hidden - AbstractBook!NewPeak(lot), lot.peak))
  <2> HIDE DEF peak
  <2> USE DEF AtIn, AheadIn, LotsIn
  <2>1. CASE /\ fill_qty = standing.quantity /\ standing.reserve_qty = 0
             /\ AtIn(book') = [AtIn(book) EXCEPT ![id] = <<>>]
             /\ AheadIn(book') = Without
             /\ Lots(AbstractBook!NoLot)
    BY <1>28, <2>1 DEF AbstractBook!Leaves, AbstractBook!Nowhere, AbstractBook!PairsWithout
  <2>2. CASE /\ fill_qty < standing.quantity
             /\ AtIn(book') = AtIn(book) /\ AheadIn(book') = AheadIn(book)
             /\ Lots(less)
    BY <1>28, <2>2 DEF AbstractBook!Stays
  <2>3. CASE /\ fill_qty = standing.quantity /\ standing.reserve_qty > 0
             /\ AtIn(book') = [AtIn(book) EXCEPT ![id] = place]
             /\ AheadIn(book') = Without \cup {<<x, id>> : x \in There \ {id}}
             /\ Lots(new)
    <3>1. AbstractBook!PairsWithout(id) = Without /\ AbstractBook!RestingAt(place) = There
      BY DEF AbstractBook!PairsWithout, AbstractBook!RestingAt
    <3>2. AbstractBook!Lot(AbstractBook!NewPeak(lot), lot.hidden - AbstractBook!NewPeak(lot),
                           lot.peak) = new
      BY <1>28
    <3> HIDE DEF Without, There, place, new, lot
    <3>3. AbstractBook!Queues(id, place, new)
      BY <2>3, <3>1 DEF AbstractBook!Queues
    <3>4. AtIn(book)[id] = place /\ fill_qty = lot.shown /\ lot.hidden > 0
      BY <1>17, <1>28, <2>3 DEF lot
    <3> QED BY <3>2, <3>3, <3>4
  <2> QED BY <1>20, <2>1, <2>2, <2>3
<1>30. fill_qty \in 0..lot.shown /\ (fill_qty > 0 \/ lot.shown = 0)
  BY <1>7, <1>8, <1>28
<1>31. AbstractBook!Trade(trade)
  BY <1>23, <1>24, <1>25, <1>26, <1>27, <1>29, <1>30
     DEF AbstractBook!Trade, AbstractBook!Nowhere, AtIn, LotsIn
<1> QED BY <1>24, <1>31 DEF AbstractBook!Trades

Abstractly == [AbstractBook!Next]_(AbstractBook!bookVars)

LEMMA QuietIsAllowed ==
  ASSUME book' = book,
         result'.trades = <<>> \/ result'.trades = result.trades
  PROVE  Abstractly
<1>1. CASE result'.trades = <<>>
  BY <1>1, NothingAsked DEF Abstractly, AbstractBook!Next
<1>2. CASE result'.trades = result.trades
  BY <1>2, NothingHappens DEF Abstractly
<1> QED BY <1>1, <1>2

LEMMA EmptyTape ==
  /\ EmptyResult.trades = <<>>
  /\ \A r : [EmptyResult EXCEPT !.reports = r].trades = <<>>
  /\ \A r : [EmptyResult EXCEPT !.rejections = r].trades = <<>>
  BY DEF EmptyResult

LEMMA SubmitAllowed ==
  ASSUME Inv, Submit
  PROVE  Abstractly
<1>1. ASSUME NEW order, SubmitNew(order) PROVE Abstractly
  BY <1>1, EmptyTape, QuietIsAllowed DEF SubmitNew, process_new_order
<1>2. ASSUME NEW id \in Ids, CancelPending(id) PROVE Abstractly
  <2>1. book' = book /\ result'.trades = <<>>
    BY <1>2, EmptyTape DEF CancelPending
  <2> QED BY <2>1, QuietIsAllowed
<1>3. ASSUME NEW id \in Ids, CancelResting(id) PROVE Abstractly
  <2>1. has_order(book, id) /\ book' = cancel_order(book, id) /\ result'.trades = <<>>
    BY <1>3, EmptyTape DEF CancelResting
  <2> QED BY <2>1, CancelWithdraws DEF Abstractly, AbstractBook!Next
<1>4. ASSUME NEW id \in Ids, CancelUnknown(id) PROVE Abstractly
  BY <1>4, EmptyTape, QuietIsAllowed DEF CancelUnknown, Reject
<1> QED BY <1>1, <1>2, <1>3, <1>4 DEF Submit

LEMMA AmendAllowed ==
  ASSUME "requeues" \in Discipline, Inv, Amend
  PROVE  Abstractly
<1>1. ASSUME NEW id \in Ids, NEW m \in Amendments, ModifyRequeue(id, m)
      PROVE  Abstractly
  BY <1>1, ModifyRequeues DEF Abstractly, AbstractBook!Next
<1>2. ASSUME NEW id \in Ids, NEW m \in Amendments, ModifyInPlace(id, m)
      PROVE  Abstractly
  BY <1>2, ModifyShrinks DEF Abstractly, AbstractBook!Next
<1>3. ASSUME NEW id \in Ids, ModifyUnknown(id) PROVE Abstractly
  BY <1>3, EmptyTape, QuietIsAllowed DEF ModifyUnknown, Reject
<1>4. ASSUME NEW old \in Ids, NEW order, ReplaceOrder(old, order)
      PROVE  Abstractly
  <2>1. has_order(book, old) /\ book' = cancel_order(book, old) /\ result'.trades = <<>>
    BY <1>4, EmptyTape DEF ReplaceOrder, process_new_order
  <2> QED BY <2>1, CancelWithdraws DEF Abstractly, AbstractBook!Next
<1>5. ASSUME NEW old \in Ids, ReplaceUnknown(old) PROVE Abstractly
  BY <1>5, EmptyTape, QuietIsAllowed DEF ReplaceUnknown, Reject
<1> QED BY <1>1, <1>2, <1>3, <1>4, <1>5 DEF Amend

LEMMA StepAllowed ==
  ASSUME Inv, Conserved, Step
  PROVE  Abstractly
<1>1. CASE Fill
  BY <1>1, FillTrades DEF Abstractly, AbstractBook!Next
<1>2. CASE FinishResting
  BY <1>2, RestingPlaced DEF Abstractly, AbstractBook!Next
<1>3. CASE FinishExhausted
  <2>1. result \in Results
    BY DEF Inv, TypeOK
  <2>2. book' = book /\ result'.trades = result.trades
    BY <1>3, <2>1 DEF FinishExhausted, Results
  <2> QED BY <2>2, QuietIsAllowed
<1>4. CASE TriggerStop \/ KeepStop \/ FinishFilled
  <2>1. book' = book /\ result' = result
    BY <1>4 DEF TriggerStop, KeepStop, FinishFilled
  <2> QED BY <2>1, QuietIsAllowed
<1> QED BY <1>1, <1>2, <1>3, <1>4 DEF Step

(* Every step of the engine is a step the abstract book allows, or leaves  *)
(* it as it is.                                                            *)
LEMMA NextAllowed ==
  ASSUME {"ids", "requeues"} \subseteq Discipline, Inv, Conserved, [Next]_vars
  PROVE  Abstractly
<1>1. CASE Submit
  BY <1>1, SubmitAllowed
<1>2. CASE Amend
  BY <1>2, AmendAllowed
<1>3. CASE Step
  BY <1>3, StepAllowed
<1>4. CASE UNCHANGED vars
  BY <1>4, QuietIsAllowed DEF vars
<1> QED BY <1>1, <1>2, <1>3, <1>4 DEF Next

LEMMA InitAllowed ==
  ASSUME Init
  PROVE  AbstractBook!Init
<1>1. \A id : ~has_order(book, id)
  BY DEF Init, EmptyBook, EmptyMap, has_order
<1>2. result.trades = <<>>
  BY EmptyTape DEF Init
<1>3. \A id : PlaceIn(book, id) = <<>> /\ LotIn(book, id) = AbstractBook!NoLot
  BY <1>1 DEF PlaceIn, LotIn, AbstractBook!NoLot, AbstractBook!Lot
<1>4. \A x, y : ~IsAhead(book, x, y)
  BY <1>1 DEF IsAhead
<1> QED BY <1>1, <1>2, <1>3, <1>4 DEF AbstractBook!Init, AbstractBook!Nowhere

(* Price-time priority: the engine implements the abstract book.  Each     *)
(* trade of match_limit and match_market is with the order that came first *)
(* to the best price of the other side, at that order's price, and takes   *)
(* from it exactly what the trade reports; only a client's cancel, modify  *)
(* or replace event, or coming to rest, moves or removes a resting order   *)
(* otherwise.  An order that changes price, grows or shows a new peak goes *)
(* to the back; one that shrinks or is partly filled keeps its place.      *)
(* It is about clients that do not reuse a live id and do not modify an    *)
(* order back to a price where its old queue entry still is (the run       *)
(* requeue shows what happens otherwise), and about icebergs whose peak is *)
(* not larger than their quantity.                                         *)
THEOREM PriceTime ==
  ASSUME {"ids", "requeues"} \subseteq Discipline, PeaksFit
  PROVE  Spec => PriceTimePriority
<1>1. Init => Inv /\ Conserved /\ AbstractBook!Init
  BY InitInv, InitConserves, InitAllowed
<1>2. Inv /\ Conserved /\ [Next]_vars =>
        /\ Inv' /\ Conserved'
        /\ [AbstractBook!Next]_(AbstractBook!bookVars)
  BY NextInv, NextConserves, NextAllowed DEF Abstractly
<1> QED BY <1>1, <1>2, PTL DEF Spec, PriceTimePriority, AbstractBook!Spec

=============================================================================
