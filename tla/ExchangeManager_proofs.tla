----------------------- MODULE ExchangeManager_proofs -----------------------
(***************************************************************************)
(* The exchange as its clients see it, for clients that never reuse the id *)
(* of an order the engine still knows.                                     *)
(*                                                                         *)
(* First, the manager drives the engine through the gateway's events only: *)
(* ManagerSpec implements GatewaySpec and Spec, so what is proved of the   *)
(* engine holds of the exchange.  Then the side of every published trade:  *)
(* while a result is on its way the orders it names go on trading, rest,   *)
(* or leave, and the invariant Named says that no order on its way is on   *)
(* the other side of a trade that names it.                                *)
(*                                                                         *)
(* Then the event stream: Accounts follows what a subscriber has worked    *)
(* out so far together with what the result still holds for it.  Then the  *)
(* snapshots, which rest on the accounts and on the volumes of the levels, *)
(* and last the orders that nobody acknowledges.                           *)
(***************************************************************************)
EXTENDS ExchangeManager, EngineTotals_proofs

-----------------------------------------------------------------------------
(* A step of the exchange is, on the engine, an event from the gateway, a  *)
(* step of the call in progress, or nothing.                               *)
LEMMA ManagerStep ==
  ASSUME [ManagerNext]_exchangeVars
  PROVE  [GatewayNext]_vars
<1>1. ASSUME NEW id \in Ids, NEW t \in NewOrders, ProcessNew(WithId(t, id))
      PROVE  Submit
  BY <1>1 DEF ProcessNew, Process, Submit
<1>2. ASSUME NEW id \in Ids, ProcessCancel(id)
      PROVE  Submit
  BY <1>2 DEF ProcessCancel, Process, Submit
<1>3. CASE EngineStep
  BY <1>3 DEF EngineStep, GatewayNext
<1>4. CASE Translate \/ TakeSnapshot \/ UNCHANGED exchangeVars
  BY <1>4 DEF Translate, TakeSnapshot, exchangeVars
<1> QED BY <1>1, <1>2, <1>3, <1>4 DEF ManagerNext, GatewayNext

(* process() and snapshot_all() use the engine as its gateway interface    *)
(* allows: the exchange implements the engine's specification, on the      *)
(* engine's own state.                                                     *)
THEOREM ManagerImplementsEngine == ManagerSpec => GatewaySpec /\ Spec
<1>1. ManagerInit => Init
  BY DEF ManagerInit
<1>2. [ManagerNext]_exchangeVars => [GatewayNext]_vars
  BY ManagerStep
<1>3. [GatewayNext]_vars => [Next]_vars
  BY DEF GatewayNext, Next
<1> QED BY <1>1, <1>2, <1>3, PTL DEF ManagerSpec, GatewaySpec, Spec

-----------------------------------------------------------------------------
(* No order in the set, and none in the book b, has this id and is on the  *)
(* other side.                                                             *)
OnlyOn(orders, b, id, side) ==
  /\ \A o \in orders : o.id = id => o.side = side
  /\ has_order(b, id) => b.id_map[id].side = side

TradeNamed(orders, b, trade) ==
  /\ OnlyOn(orders, b, trade.aggressor_id, trade.aggressor_side)
  /\ OnlyOn(orders, b, trade.passive_id, Opposite(trade.aggressor_side))
EventNamed(orders, b, e) ==
  e.kind = "TRADE" => /\ OnlyOn(orders, b, e.buy_order_id, Buy)
                      /\ OnlyOn(orders, b, e.sell_order_id, Sell)
ResultNamed(orders, b, res) ==
  \A i \in 1..Len(res.trades) : TradeNamed(orders, b, res.trades[i])
EventsNamed(orders, b, events) ==
  \A i \in 1..Len(events) : EventNamed(orders, b, events[i])

Named ==
  /\ ResultNamed(Outside(pending_stops, stack), book, result)
  /\ EventsNamed(Outside(pending_stops, stack), book, out)

(* From one state of the orders to another no order changes its side. *)
SidesKept(orders, b, orders2, b2) ==
  \A id, side : OnlyOn(orders, b, id, side) => OnlyOn(orders2, b2, id, side)

LEMMA KeptNamed ==
  ASSUME NEW orders, NEW b, NEW orders2, NEW b2, SidesKept(orders, b, orders2, b2)
  PROVE  /\ \A res : ResultNamed(orders, b, res) => ResultNamed(orders2, b2, res)
         /\ \A events : EventsNamed(orders, b, events) => EventsNamed(orders2, b2, events)
<1>1. \A trade : TradeNamed(orders, b, trade) => TradeNamed(orders2, b2, trade)
  BY DEF SidesKept, TradeNamed
<1>2. \A e : EventNamed(orders, b, e) => EventNamed(orders2, b2, e)
  BY DEF SidesKept, EventNamed
<1> QED BY <1>1, <1>2 DEF ResultNamed, EventsNamed

LEMMA EnterSide ==
  ASSUME NEW order \in Orders
  PROVE  Enter(order).order.id = order.id /\ Enter(order).order.side = order.side
<1>1. /\ Converted(order).id = order.id /\ Converted(order).side = order.side
      /\ SplitIceberg(order).id = order.id /\ SplitIceberg(order).side = order.side
  BY DEF Orders, Converted, SplitIceberg
<1> DEFINE e == CASE order.type \in StopTypes -> Converted(order)
                  [] order.type = "Iceberg"   -> SplitIceberg(order)
                  [] OTHER                    -> order
<1>2. e.id = order.id /\ e.side = order.side
  BY <1>1, Zenon
<1>3. Enter(order).order = e
  BY DEF Enter, Activation
<1> QED BY <1>2, <1>3

(* A fill reports the sides its two orders are on, and changes neither. *)
LEMMA FillNamed ==
  ASSUME Inv, Fill
  PROVE  /\ SidesKept(Outside(pending_stops, stack), book,
                      Outside(pending_stops', stack'), book')
         /\ \E trade : /\ result'.trades = Append(result.trades, trade)
                       /\ TradeNamed(Outside(pending_stops, stack), book, trade)
<1>1. PICK p \in Ids, qty \in Nat : Fills(p, qty)
  BY FillEffect
<1> DEFINE a     == Top.order
           left  == [a EXCEPT !.quantity = a.quantity - qty]
           trade == [aggressor_id |-> a.id, passive_id |-> p,
                     price |-> book.id_map[p].price, quantity |-> qty,
                     aggressor_side |-> a.side]
<1>2. /\ a \in Orders /\ has_order(book, p) /\ a.id # p
      /\ a \in Active(stack)
      /\ book.id_map[p].side = Opposite(a.side)
      /\ Waiting(pending_stops', stack') = Waiting(pending_stops, stack)
      /\ Active(stack') = Active(Tail(stack)) \cup {left}
      /\ Active(stack) = Active(Tail(stack)) \cup {a}
      /\ \A o \in Waiting(pending_stops, stack) \cup Active(Tail(stack)) : o.id # a.id
  BY <1>1 DEF Fills
<1>3. /\ \A x : x # p => (has_order(book', x) <=> has_order(book, x))
      /\ \A x : x # p /\ has_order(book, x) => book'.id_map[x] = book.id_map[x]
      /\ has_order(book', p) => book'.id_map[p].side = book.id_map[p].side
  BY <1>1 DEF Fills
<1>4. result' = [result EXCEPT !.trades = Append(result.trades, trade)]
  BY <1>1 DEF Fills
<1>5. left.id = a.id /\ left.side = a.side
  BY <1>2 DEF Orders
<1>6. result'.trades = Append(result.trades, trade)
  BY <1>4 DEF Inv, TypeOK, Results
<1>7. trade.aggressor_id = a.id /\ trade.passive_id = p /\ trade.aggressor_side = a.side
  OBVIOUS
<1> HIDE DEF a, left, trade
<1>8. SidesKept(Outside(pending_stops, stack), book, Outside(pending_stops', stack'), book')
  BY <1>2, <1>3, <1>5 DEF SidesKept, OnlyOn, Outside
<1>9. ~has_order(book, a.id)
  BY <1>2, OutsideUnknown DEF Outside
<1>10. \A o \in Outside(pending_stops, stack) : o.id # p
  BY <1>2, OutsideUnknown
<1>11. TradeNamed(Outside(pending_stops, stack), book, trade)
  BY <1>2, <1>7, <1>9, <1>10 DEF TradeNamed, OnlyOn, Outside
<1> QED BY <1>6, <1>8, <1>11

(* No step of the engine puts an order on another side. *)
LEMMA StepKeepsSides ==
  ASSUME Inv, TriggerStop \/ KeepStop \/ FinishResting \/ FinishExhausted \/ FinishFilled
  PROVE  /\ SidesKept(Outside(pending_stops, stack), book,
                      Outside(pending_stops', stack'), book')
         /\ result'.trades = result.trades
<1>1. CASE TriggerStop
  <2>1. PICK stop \in Waiting(pending_stops, stack) :
           /\ stop \in Orders
           /\ Waiting(pending_stops, stack) = Waiting(pending_stops', stack') \cup {stop}
           /\ Active(stack') = Active(stack) \cup {Enter(stop).order}
           /\ book' = book /\ result' = result
    BY <1>1, TriggerEffect
  <2>2. Enter(stop).order.id = stop.id /\ Enter(stop).order.side = stop.side
    BY <2>1, EnterSide
  <2> QED BY <2>1, <2>2 DEF SidesKept, OnlyOn, Outside
<1>2. CASE KeepStop
  BY <1>2, KeepEffect DEF SidesKept, Outside
<1>3. CASE FinishResting \/ FinishExhausted \/ FinishFilled
  <2>1. LoopEnded /\ stack' = Tail(stack) /\ pending_stops' = pending_stops
    BY <1>3 DEF FinishResting, FinishExhausted, FinishFilled
  <2>2. /\ Waiting(pending_stops', stack') = Waiting(pending_stops, stack)
        /\ Active(stack) = Active(stack') \cup {Top.order}
    BY <2>1, FinishEffect
  <2>3. CASE FinishResting
    <3>1. book' = insert_order(book, Top.order) /\ result' = result
      BY <2>3 DEF FinishResting
    <3>2. /\ \A x : has_order(book', x) <=> has_order(book, x) \/ x = Top.order.id
          /\ book'.id_map[Top.order.id] = Top.order
          /\ \A x : has_order(book, x) /\ x # Top.order.id =>
               book'.id_map[x] = book.id_map[x]
      BY <3>1, InsertOrders DEF Inv
    <3> QED BY <2>2, <3>1, <3>2 DEF SidesKept, OnlyOn, Outside
  <2>4. CASE FinishExhausted \/ FinishFilled
    <3>1. book' = book
      BY <2>4 DEF FinishExhausted, FinishFilled
    <3>2. result'.trades = result.trades
      BY <2>4 DEF FinishExhausted, FinishFilled, Inv, TypeOK, Results
    <3> QED BY <2>2, <3>1, <3>2 DEF SidesKept, OnlyOn, Outside
  <2> QED BY <1>3, <2>3, <2>4
<1> QED BY <1>1, <1>2, <1>3

LEMMA StepNamed ==
  ASSUME Inv, Named, Step, out' = out
  PROVE  Named'
<1> DEFINE orders  == Outside(pending_stops, stack)
           orders2 == Outside(pending_stops', stack')
<1>1. CASE Fill
  <2>1. SidesKept(orders, book, orders2, book')
    BY <1>1, FillNamed
  <2>2. PICK trade : /\ result'.trades = Append(result.trades, trade)
                     /\ TradeNamed(orders, book, trade)
    BY <1>1, FillNamed
  <2>3. result.trades \in Seq(Trades)
    BY DEF Inv, TypeOK, Results
  <2> HIDE DEF orders, orders2
  <2>4. \A i \in 1..Len(result'.trades) :
          result'.trades[i] = trade \/ \E j \in 1..Len(result.trades) :
                                         result'.trades[i] = result.trades[j]
    BY <2>2, <2>3
  <2>5. ResultNamed(orders, book, result')
    BY <2>2, <2>4 DEF Named, ResultNamed, orders
  <2>6. ResultNamed(orders2, book', result') /\ EventsNamed(orders2, book', out)
    BY <2>1, <2>5, KeptNamed DEF Named, orders
  <2> QED BY <2>6 DEF Named, orders2
<1>2. CASE TriggerStop \/ KeepStop \/ FinishResting \/ FinishExhausted \/ FinishFilled
  <2>1. SidesKept(orders, book, orders2, book') /\ result'.trades = result.trades
    BY <1>2, StepKeepsSides
  <2> HIDE DEF orders, orders2
  <2>2. ResultNamed(orders, book, result')
    BY <2>1 DEF Named, ResultNamed, orders
  <2>3. ResultNamed(orders2, book', result') /\ EventsNamed(orders2, book', out)
    BY <2>1, <2>2, KeptNamed DEF Named, orders
  <2> QED BY <2>3 DEF Named, orders2
<1> QED BY <1>1, <1>2 DEF Step

-----------------------------------------------------------------------------
(* Every TRADE that translate_result publishes is a trade of the result,   *)
(* with its aggressor on the side it was on.                               *)
AllNamed(orders, b, seq) ==
  /\ seq \in Seq(Members(seq))
  /\ \A e \in Members(seq) : EventNamed(orders, b, e)

LEMMA ListNamed ==
  ASSUME NEW orders, NEW b, NEW n \in Nat, NEW s, s = [i \in 1..n |-> s[i]],
         \A i \in 1..n : EventNamed(orders, b, s[i])
  PROVE  AllNamed(orders, b, s)
<1> DEFINE S == {s[i] : i \in 1..n}
<1>1. \A i \in 1..n : s[i] \in S
  OBVIOUS
<1> HIDE DEF S
<1>2. s \in [1..n -> S]
  BY <1>1
<1>3. s \in Seq(S) /\ Len(s) = n
  BY <1>2
<1>4. Members(s) = S
  BY <1>3 DEF Members, S
<1>5. \A e \in S : EventNamed(orders, b, e)
  BY DEF S
<1> QED BY <1>3, <1>4, <1>5 DEF AllNamed

LEMMA ConcatNamed ==
  ASSUME NEW orders, NEW b, NEW s, NEW t, AllNamed(orders, b, s), AllNamed(orders, b, t)
  PROVE  AllNamed(orders, b, s \o t)
<1> DEFINE S == Members(s) \cup Members(t)
<1>1. s \in Seq(S) /\ t \in Seq(S)
  BY DEF AllNamed
<1> DEFINE c == s \o t
<1>2. c \in Seq(S) /\ Len(c) \in Nat /\ DOMAIN c = 1..Len(c)
  <2>1. c \in Seq(S)
    BY <1>1
  <2> HIDE DEF c, S
  <2> QED BY <2>1
<1>3. \A e \in S : EventNamed(orders, b, e)
  BY DEF AllNamed
<1> HIDE DEF S, c
<1>4. \A i \in 1..Len(c) : c[i] \in S
  BY <1>2, ElementOfSeq
<1>5. c = [i \in 1..Len(c) |-> c[i]]
  BY <1>2
<1>6. AllNamed(orders, b, c)
  BY <1>2, <1>3, <1>4, <1>5, ListNamed
<1> QED BY <1>6 DEF c

LEMMA SingleNamed ==
  ASSUME NEW orders, NEW b, NEW e, EventNamed(orders, b, e)
  PROVE  AllNamed(orders, b, <<e>>) /\ AllNamed(orders, b, <<>>)
BY DEF AllNamed, Members

LEMMA TranslateNamed ==
  ASSUME NEW orders, NEW b, NEW res \in Results, ResultNamed(orders, b, res), NEW m, NEW bb
  PROVE  EventsNamed(orders, b, translate_result(m, res, bb))
<1> DEFINE rejected == Each(RejectedEvent, res.rejections)
           canceled == Each(CanceledEvent, res.reports)
           traded   == Each(TradeEvent, res.trades)
           accepted_ == IF m.action = "NewOrder" /\ res.rejections = <<>>
                        THEN <<AcceptedEvent(m.order)>> ELSE <<>>
           last     == <<BookEvent(bb)>>
<1>1. /\ res.rejections \in Seq(Rejections) /\ res.reports \in Seq(Reports)
      /\ res.trades \in Seq(Trades)
  BY DEF Results
<1>2. /\ Len(res.rejections) \in Nat /\ Len(res.reports) \in Nat /\ Len(res.trades) \in Nat
  BY <1>1
<1>3. AllNamed(orders, b, rejected)
  <2>1. rejected = [i \in 1..Len(res.rejections) |-> RejectedEvent(res.rejections[i])]
    BY DEF Each
  <2>2. \A i \in 1..Len(res.rejections) : rejected[i].kind = "REJECTED"
    BY DEF Each, RejectedEvent
  <2>3. rejected = [i \in 1..Len(res.rejections) |-> rejected[i]]
    BY <2>1
  <2> HIDE DEF rejected
  <2>4. \A i \in 1..Len(res.rejections) : EventNamed(orders, b, rejected[i])
    BY <2>2 DEF EventNamed
  <2> QED BY <1>2, <2>3, <2>4, ListNamed
<1>4. AllNamed(orders, b, canceled)
  <2>1. canceled = [i \in 1..Len(res.reports) |-> CanceledEvent(res.reports[i])]
    BY DEF Each
  <2>2. \A i \in 1..Len(res.reports) : canceled[i].kind = "CANCELED"
    BY DEF Each, CanceledEvent
  <2>3. canceled = [i \in 1..Len(res.reports) |-> canceled[i]]
    BY <2>1
  <2> HIDE DEF canceled
  <2>4. \A i \in 1..Len(res.reports) : EventNamed(orders, b, canceled[i])
    BY <2>2 DEF EventNamed
  <2> QED BY <1>2, <2>3, <2>4, ListNamed
<1>5. AllNamed(orders, b, traded)
  <2>1. traded = [i \in 1..Len(res.trades) |-> TradeEvent(res.trades[i])]
    BY DEF Each
  <2>2. ASSUME NEW i \in 1..Len(res.trades)
        PROVE  EventNamed(orders, b, TradeEvent(res.trades[i]))
    <3> DEFINE t == res.trades[i]
    <3>1. t \in Trades
      BY <1>1, ElementOfSeq
    <3>2. TradeNamed(orders, b, t)
      BY DEF ResultNamed
    <3>3. t.aggressor_side \in Sides
      BY <3>1 DEF Trades
    <3>4. /\ t.aggressor_side = Buy =>
               TradeEvent(t).buy_order_id = t.aggressor_id
                 /\ TradeEvent(t).sell_order_id = t.passive_id
          /\ t.aggressor_side # Buy =>
               TradeEvent(t).buy_order_id = t.passive_id
                 /\ TradeEvent(t).sell_order_id = t.aggressor_id
      BY DEF TradeEvent
    <3> HIDE DEF t
    <3>5. EventNamed(orders, b, TradeEvent(t))
      BY <3>2, <3>3, <3>4 DEF TradeNamed, EventNamed, Sides, Opposite, Buy, Sell
    <3> QED BY <3>5 DEF t
  <2>3. traded = [i \in 1..Len(res.trades) |-> traded[i]]
    BY <2>1
  <2>4. \A i \in 1..Len(res.trades) : EventNamed(orders, b, traded[i])
    BY <2>1, <2>2
  <2> HIDE DEF traded
  <2> QED BY <1>2, <2>3, <2>4, ListNamed
<1>6. AllNamed(orders, b, accepted_)
  <2>1. AcceptedEvent(m.order).kind = "ACCEPTED"
    BY DEF AcceptedEvent
  <2>2. EventNamed(orders, b, AcceptedEvent(m.order))
    BY <2>1 DEF EventNamed
  <2> QED BY <2>2, SingleNamed
<1>7. AllNamed(orders, b, last)
  <2>1. BookEvent(bb).kind = "BOOK"
    BY DEF BookEvent
  <2>2. EventNamed(orders, b, BookEvent(bb))
    BY <2>1 DEF EventNamed
  <2> QED BY <2>2, SingleNamed
<1>8. translate_result(m, res, bb) = rejected \o canceled \o traded \o accepted_ \o last
  BY DEF translate_result
<1> HIDE DEF rejected, canceled, traded, accepted_, last
<1>9. AllNamed(orders, b, translate_result(m, res, bb))
  BY <1>3, <1>4, <1>5, <1>6, <1>7, <1>8, ConcatNamed
<1> QED BY <1>9 DEF AllNamed, EventsNamed, Members

-----------------------------------------------------------------------------
LEMMA ManagerNamed ==
  ASSUME Inv, Named, [ManagerNext]_exchangeVars
  PROVE  Named'
<1>1. ASSUME result'.trades = <<>>, out' = <<>>
      PROVE  Named'
  BY <1>1 DEF Named, ResultNamed, EventsNamed
<1>2. EmptyResult.trades = <<>>
  BY DEF EmptyResult
<1>3. ASSUME NEW order, ProcessNew(order)
      PROVE  Named'
  BY <1>1, <1>2, <1>3 DEF ProcessNew, Process, SubmitNew, process_new_order
<1>4. ASSUME NEW id, ProcessCancel(id)
      PROVE  Named'
  <2>1. result'.trades = <<>>
    BY <1>4 DEF ProcessCancel, Process, CancelPending, CancelResting, CancelUnknown,
                Reject, EmptyResult
  <2> QED BY <1>1, <1>4, <2>1 DEF ProcessCancel, Process
<1>5. CASE EngineStep
  BY <1>5, StepNamed DEF EngineStep
<1>6. CASE Translate
  <2>1. UNCHANGED <<book, pending_stops, stack, result>>
    BY <1>6 DEF Translate, vars
  <2>2. out' = translate_result(msg, result, book)
    BY <1>6 DEF Translate
  <2>3. EventsNamed(Outside(pending_stops, stack), book, out')
    BY <2>2, TranslateNamed DEF Named, Inv, TypeOK
  <2> QED BY <2>1, <2>3 DEF Named
<1>7. CASE TakeSnapshot
  <2>1. UNCHANGED <<book, pending_stops, stack, result>>
    BY <1>7 DEF TakeSnapshot, vars
  <2>2. out' = <<snapshot(book)>> /\ snapshot(book).kind = "SNAPSHOT"
    BY <1>7 DEF TakeSnapshot, snapshot
  <2>3. EventsNamed(Outside(pending_stops, stack), book, out')
    BY <2>2 DEF EventsNamed, EventNamed
  <2> QED BY <2>1, <2>3 DEF Named
<1>8. CASE UNCHANGED exchangeVars
  BY <1>8 DEF exchangeVars, vars, Named
<1> QED BY <1>3, <1>4, <1>5, <1>6, <1>7, <1>8 DEF ManagerNext

LEMMA NamedSides ==
  ASSUME Inv, Named
  PROVE  TradesNameTheSides
<1>1. ASSUME NEW i \in 1..Len(pending_stops)
      PROVE  pending_stops[i] \in Outside(pending_stops, stack)
  BY DEF Outside, Waiting, Members
<1>2. ASSUME NEW id, NEW side, OnlyOn(Outside(pending_stops, stack), book, id, side),
             NEW other, other # side
      PROVE  ~IsOn(id, other)
  BY <1>1, <1>2 DEF OnlyOn, IsOn
<1>3. Buy # Sell
  BY DEF Buy, Sell
<1> QED BY <1>2, <1>3 DEF Named, EventsNamed, EventNamed, TradesNameTheSides

(* Also across a cascade - the aggressor may itself be a triggered stop,   *)
(* or an order that traded before it rested - the buyer of a published     *)
(* TRADE is not an order on the sell side, nor the seller one on the buy   *)
(* side.                                                                   *)
THEOREM SidesNamed ==
  ASSUME "ids" \in Discipline
  PROVE  ManagerSpec => []TradesNameTheSides
<1>1. ManagerInit => Inv /\ Named
  <2> SUFFICES ASSUME ManagerInit PROVE Inv /\ Named
    OBVIOUS
  <2>1. Init /\ out = <<>>
    BY DEF ManagerInit
  <2>2. result.trades = <<>>
    BY <2>1 DEF Init, EmptyResult
  <2> QED BY <2>1, <2>2, InitInv DEF Named, ResultNamed, EventsNamed
<1>2. Inv /\ Named /\ [ManagerNext]_exchangeVars => Inv' /\ Named'
  BY ManagerStep, GatewayNextInv, ManagerNamed
<1>3. Inv /\ Named => TradesNameTheSides
  BY NamedSides
<1> QED BY <1>1, <1>2, <1>3, PTL DEF ManagerSpec

(* Under the same rule the exchange keeps the engine's book consistent and *)
(* every order at one place, in every state of a call: the rule about      *)
(* modify events is not needed, since the gateway sends none.              *)
THEOREM ExchangeConsistent ==
  ASSUME "ids" \in Discipline
  PROVE  ManagerSpec => [](BookConsistent /\ FrontIsKnown /\ Exclusive)
<1>1. Init => Inv
  BY InitInv
<1>2. Inv /\ [GatewayNext]_vars => Inv'
  BY GatewayNextInv
<1>3. Inv => BookConsistent /\ FrontIsKnown
  BY SoundIsConsistent, SoundFrontKnown DEF Inv
<1>4. Inv => Exclusive
  BY InvExclusive
<1> QED BY <1>1, <1>2, <1>3, <1>4, ManagerImplementsEngine, PTL DEF GatewaySpec

-----------------------------------------------------------------------------
(* What a list of events adds to the quantity a subscriber takes to be     *)
(* open of an order.                                                       *)
Changes(s, id) == [i \in 1..Len(s) |-> Change(s[i], id)]
Net(s, id) == Sum(Changes(s, id), 1..Len(s))
Counted(s, id) == s \in Seq(Members(s)) /\ IntOn(Changes(s, id), 1..Len(s))

LEMMA ListCounted ==
  ASSUME NEW id, NEW n \in Nat, NEW s, s = [i \in 1..n |-> s[i]],
         \A i \in 1..n : Change(s[i], id) \in Int
  PROVE  Counted(s, id) /\ Len(s) = n
<1> DEFINE S == {s[i] : i \in 1..n}
<1>1. \A i \in 1..n : s[i] \in S
  OBVIOUS
<1> HIDE DEF S
<1>2. s \in [1..n -> S]
  BY <1>1
<1>3. s \in Seq(S) /\ Len(s) = n
  BY <1>2
<1>4. Members(s) = S
  BY <1>3 DEF Members, S
<1>5. IntOn(Changes(s, id), 1..n)
  BY <1>3 DEF IntOn, Changes
<1> QED BY <1>3, <1>4, <1>5 DEF Counted

LEMMA NetZero ==
  ASSUME NEW id, NEW s, Counted(s, id), \A i \in 1..Len(s) : Change(s[i], id) = 0
  PROVE  Net(s, id) = 0
<1> DEFINE f == Changes(s, id)
           S == 1..Len(s)
           G == {T \in SUBSET S : Sum(f, T) = 0}
<1>1. Len(s) \in Nat /\ IntOn(f, S)
  BY DEF Counted
<1>2. IsFiniteSet(S) /\ \A i \in S : f[i] = 0
  BY <1>1, FS_Interval DEF Changes
<1> HIDE DEF f, S
<1>3. ASSUME NEW T \in SUBSET S, \A x \in T : T \ {x} \in G PROVE T \in G
  <2>1. CASE T = {}
    BY <1>1, <1>2, <2>1, SumType
  <2>2. CASE T # {}
    <3>1. PICK x \in T : TRUE
      BY <2>2
    <3>2. IsFiniteSet(T) /\ IntOn(f, T)
      BY <1>1, <1>2, FS_Subset DEF IntOn
    <3>3. Sum(f, T) = f[x] + Sum(f, T \ {x})
      BY <3>2, SumWithout
    <3>4. f[x] = 0 /\ Sum(f, T \ {x}) = 0
      BY <1>2, <1>3
    <3>5. Sum(f, T) = 0
      BY <3>3, <3>4
    <3> QED BY <3>5
  <2> QED BY <2>1, <2>2
<1>4. \A T \in SUBSET S : T \in G
  <2> HIDE DEF G
  <2> QED BY <1>2, <1>3, FiniteInduct
<1> QED BY <1>4 DEF Net, f, S

LEMMA NetSingle ==
  ASSUME NEW id, NEW e, Change(e, id) \in Int
  PROVE  Counted(<<e>>, id) /\ Net(<<e>>, id) = Change(e, id)
<1> DEFINE s == <<e>>
           f == Changes(s, id)
<1>1. s = [i \in 1..1 |-> s[i]] /\ Len(s) = 1 /\ s[1] = e
  OBVIOUS
<1> HIDE DEF s
<1>2. Counted(s, id)
  <2>1. 1 \in Nat /\ \A i \in 1..1 : Change(s[i], id) \in Int
    BY <1>1
  <2> QED BY <1>1, <2>1, ListCounted
<1>3. f[1] = Change(e, id) /\ 1..Len(s) = {} \cup {1}
  BY <1>1 DEF Changes
<1> HIDE DEF f
<1>4. IntOn(f, {} \cup {1}) /\ IsFiniteSet({})
  BY <1>3, FS_EmptySet DEF IntOn
<1>5. Sum(f, {} \cup {1}) = Sum(f, {}) + f[1] /\ Sum(f, {}) = 0
  <2>1. Sum(f, {}) = 0
    BY <1>4, SumType DEF IntOn
  <2> DEFINE E == {}
  <2>2. IsFiniteSet(E) /\ IntOn(f, E \cup {1}) /\ 1 \notin E
    BY <1>4
  <2> HIDE DEF E
  <2>3. Sum(f, E \cup {1}) = Sum(f, E) + f[1]
    BY <2>2, SumWith
  <2> QED BY <2>1, <2>3 DEF E
<1>6. Net(s, id) = Change(e, id)
  <2>1. Net(s, id) = Sum(f, {} \cup {1})
    BY <1>3 DEF Net, f
  <2>2. Sum(f, {} \cup {1}) = 0 + Change(e, id)
    BY <1>3, <1>5
  <2> QED BY <2>1, <2>2
<1> QED BY <1>2, <1>6 DEF s

LEMMA NetEmpty ==
  ASSUME NEW id
  PROVE  Counted(<<>>, id) /\ Net(<<>>, id) = 0
<1> DEFINE s == <<>>
<1>1. Len(s) = 0 /\ s \in Seq(Members(s))
  BY DEF Members
<1> HIDE DEF s
<1>2. Counted(s, id)
  BY <1>1 DEF Counted, IntOn
<1>3. Net(s, id) = 0
  BY <1>1, <1>2, NetZero
<1> QED BY <1>2, <1>3 DEF s

LEMMA NetConcat ==
  ASSUME NEW id, NEW s, NEW t, Counted(s, id), Counted(t, id)
  PROVE  /\ Counted(s \o t, id)
         /\ Net(s, id) \in Int /\ Net(t, id) \in Int
         /\ Net(s \o t, id) = Net(s, id) + Net(t, id)
<1> DEFINE S == Members(s) \cup Members(t)
           c == s \o t
           m == Len(s)
           n == Len(t)
<1>1. s \in Seq(S) /\ t \in Seq(S)
  BY DEF Counted
<1>2. /\ m \in Nat /\ n \in Nat /\ Len(c) = m + n
      /\ \A i \in 1..m : c[i] = s[i]
      /\ \A i \in 1..n : c[i + m] = t[i]
      /\ c = [i \in 1..(m + n) |-> c[i]]
  <2>1. /\ m \in Nat /\ n \in Nat /\ Len(c) = m + n /\ c \in Seq(S)
        /\ \A i \in 1..m : c[i] = s[i]
    <3> HIDE DEF S
    <3> QED BY <1>1
  <2>2. \A i \in 1..n : c[i + m] = t[i]
    <3> HIDE DEF S
    <3> QED BY <1>1
  <2> HIDE DEF c, S
  <2> QED BY <2>1, <2>2
<1>3. /\ \A i \in 1..m : Change(s[i], id) \in Int
      /\ \A i \in 1..n : Change(t[i], id) \in Int
  BY DEF Counted, IntOn, Changes
<1> HIDE DEF c, S, m, n
<1>4. \A i \in 1..(m + n) : Change(c[i], id) \in Int
  <2>1. \A i \in 1..(m + n) : i \notin 1..m => i - m \in 1..n /\ i = (i - m) + m
    BY <1>2
  <2> QED BY <1>2, <1>3, <2>1
<1>5. Counted(c, id)
  <2>1. m + n \in Nat
    BY <1>2
  <2> QED BY <1>2, <1>4, <2>1, ListCounted
<1> DEFINE f == Changes(c, id)
           high == {i + m : i \in 1..n}
           h == [i \in 1..n |-> i + m]
<1>6. /\ \A i \in 1..m : f[i] = Changes(s, id)[i]
      /\ \A i \in 1..n : f[i + m] = Changes(t, id)[i]
  <2>1. \A i \in 1..m : i \in 1..(m + n)
    BY <1>2
  <2>2. \A i \in 1..n : i + m \in 1..(m + n)
    BY <1>2
  <2>3. \A i \in 1..m : f[i] = Changes(s, id)[i]
    BY <1>2, <2>1 DEF Changes, m
  <2>4. \A i \in 1..n : f[i + m] = Changes(t, id)[i]
    BY <1>2, <2>2 DEF Changes, n
  <2> QED BY <2>3, <2>4
<1>7. /\ IntOn(Changes(s, id), 1..m) /\ IntOn(Changes(t, id), 1..n)
      /\ IsFiniteSet(1..m) /\ IsFiniteSet(1..n)
  <2>1. IntOn(Changes(s, id), 1..m) /\ IntOn(Changes(t, id), 1..n)
    BY DEF Counted, m, n
  <2>2. IsFiniteSet(1..m) /\ IsFiniteSet(1..n)
    <3>1. 1 \in Int /\ m \in Int /\ n \in Int
      BY <1>2
    <3> QED BY <3>1, FS_Interval
  <2> QED BY <2>1, <2>2
<1> HIDE DEF f
<1>8. Sum(Changes(s, id), 1..m) = Sum(f, 1..m)
  BY <1>6, <1>7, SumSame
<1>9. Sum(Changes(t, id), 1..n) = Sum(f, high)
  <2>1. {h[i] : i \in 1..n} = high
    OBVIOUS
  <2>2. \A x, y \in 1..n : h[x] = h[y] => x = y
    BY <1>2
  <2>3. \A x \in 1..n : f[h[x]] = Changes(t, id)[x]
    BY <1>6
  <2> DEFINE g == Changes(t, id)
             T == 1..n
  <2>4. /\ IsFiniteSet(T) /\ IntOn(g, T) /\ {h[i] : i \in T} = high
        /\ \A x, y \in T : h[x] = h[y] => x = y
        /\ \A x \in T : f[h[x]] = g[x]
    BY <1>7, <2>1, <2>2, <2>3
  <2> HIDE DEF h, high, g, T
  <2>5. Sum(g, T) = Sum(f, {h[i] : i \in T})
    BY <2>4, SumRenamed
  <2> QED BY <2>4, <2>5 DEF g, T
<1>10. 1..(m + n) = (1..m) \cup high /\ (1..m) \cap high = {}
  <2>1. \A i \in 1..(m + n) : i \in 1..m \/ (i - m \in 1..n /\ i = (i - m) + m)
    BY <1>2
  <2>2. \A i \in high : i \in 1..(m + n) /\ i \notin 1..m
    BY <1>2
  <2>3. \A i \in 1..m : i \in 1..(m + n)
    BY <1>2
  <2>4. \A i \in 1..(m + n) : i \in 1..m \/ i \in high
    BY <2>1
  <2> HIDE DEF high
  <2> QED BY <2>2, <2>3, <2>4
<1>11. IsFiniteSet(high) /\ IntOn(f, 1..m) /\ IntOn(f, high)
  <2>1. IsFiniteSet(1..(m + n)) /\ high \subseteq 1..(m + n)
    <3>1. m + n \in Nat
      BY <1>2
    <3> HIDE DEF high
    <3> QED BY <1>10, <3>1, FS_Interval
  <2>2. IsFiniteSet(high)
    <3> HIDE DEF high
    <3> QED BY <2>1, FS_Subset
  <2> QED BY <1>6, <1>7, <2>2 DEF IntOn
<1> HIDE DEF high
<1>12. /\ Sum(f, 1..m) \in Int /\ Sum(f, high) \in Int
       /\ Sum(f, (1..m) \cup high) = Sum(f, 1..m) + Sum(f, high)
  <2> DEFINE low == 1..m
  <2>1. IsFiniteSet(low) /\ IsFiniteSet(high) /\ IntOn(f, low) /\ IntOn(f, high) /\ low \cap high = {}
    BY <1>7, <1>10, <1>11
  <2> HIDE DEF low
  <2>2. /\ Sum(f, low) \in Int /\ Sum(f, high) \in Int
        /\ Sum(f, low \cup high) = Sum(f, low) + Sum(f, high)
    BY <2>1, SumUnion
  <2> QED BY <2>2 DEF low
<1>13. /\ Net(s, id) \in Int /\ Net(t, id) \in Int
       /\ Net(c, id) = Net(s, id) + Net(t, id)
  BY <1>2, <1>8, <1>9, <1>10, <1>12 DEF Net, f, m, n
<1> QED BY <1>5, <1>13 DEF c

LEMMA ChangeFacts ==
  ASSUME NEW id
  PROVE  /\ \A r \in Rejections : Change(RejectedEvent(r), id) = 0
         /\ \A r \in Reports : /\ r.order_id = id => Change(CanceledEvent(r), id) = -r.remaining_qty
                               /\ r.order_id # id => Change(CanceledEvent(r), id) = 0
                               /\ Change(CanceledEvent(r), id) \in Int
         /\ \A t \in Trades :
              /\ id \in {t.aggressor_id, t.passive_id} => Change(TradeEvent(t), id) = -t.quantity
              /\ id \notin {t.aggressor_id, t.passive_id} => Change(TradeEvent(t), id) = 0
              /\ Change(TradeEvent(t), id) \in Int
         /\ \A o \in Orders : /\ o.id = id => Change(AcceptedEvent(o), id) = o.quantity
                              /\ o.id # id => Change(AcceptedEvent(o), id) = 0
         /\ \A b : Change(BookEvent(b), id) = 0
<1>1. ASSUME NEW r \in Rejections PROVE Change(RejectedEvent(r), id) = 0
  <2> DEFINE e == RejectedEvent(r)
  <2>1. e.kind = "REJECTED"
    BY DEF RejectedEvent
  <2> HIDE DEF e
  <2>2. Change(e, id) = 0
    BY <2>1 DEF Change
  <2> QED BY <2>2 DEF e
<1>2. ASSUME NEW b PROVE Change(BookEvent(b), id) = 0
  <2> DEFINE e == BookEvent(b)
  <2>1. e.kind = "BOOK"
    BY DEF BookEvent
  <2> HIDE DEF e
  <2>2. Change(e, id) = 0
    BY <2>1 DEF Change
  <2> QED BY <2>2 DEF e
<1>3. ASSUME NEW r \in Reports
      PROVE  /\ r.order_id = id => Change(CanceledEvent(r), id) = -r.remaining_qty
             /\ r.order_id # id => Change(CanceledEvent(r), id) = 0
             /\ Change(CanceledEvent(r), id) \in Int
  <2> DEFINE e == CanceledEvent(r)
  <2>1. e.kind = "CANCELED" /\ e.order_id = r.order_id /\ e.remaining_qty = r.remaining_qty
    BY DEF CanceledEvent
  <2>2. -r.remaining_qty \in Int
    BY DEF Reports
  <2> HIDE DEF e
  <2>3. /\ r.order_id = id => Change(e, id) = -r.remaining_qty
        /\ r.order_id # id => Change(e, id) = 0
    BY <2>1 DEF Change
  <2> QED BY <2>2, <2>3 DEF e
<1>4. ASSUME NEW t \in Trades
      PROVE  /\ id \in {t.aggressor_id, t.passive_id} => Change(TradeEvent(t), id) = -t.quantity
             /\ id \notin {t.aggressor_id, t.passive_id} => Change(TradeEvent(t), id) = 0
             /\ Change(TradeEvent(t), id) \in Int
  <2> DEFINE e == TradeEvent(t)
  <2>1. /\ e.kind = "TRADE" /\ e.quantity = t.quantity
        /\ {e.buy_order_id, e.sell_order_id} = {t.aggressor_id, t.passive_id}
    BY DEF TradeEvent
  <2>2. -t.quantity \in Int
    BY DEF Trades
  <2> HIDE DEF e
  <2>3. /\ id \in {e.buy_order_id, e.sell_order_id} => Change(e, id) = -e.quantity
        /\ id \notin {e.buy_order_id, e.sell_order_id} => Change(e, id) = 0
    BY <2>1 DEF Change
  <2>4. /\ id \in {t.aggressor_id, t.passive_id} => Change(e, id) = -t.quantity
        /\ id \notin {t.aggressor_id, t.passive_id} => Change(e, id) = 0
    BY <2>1, <2>3
  <2> QED BY <2>2, <2>4 DEF e
<1>5. ASSUME NEW o \in Orders
      PROVE  /\ o.id = id => Change(AcceptedEvent(o), id) = o.quantity
             /\ o.id # id => Change(AcceptedEvent(o), id) = 0
  <2> DEFINE e == AcceptedEvent(o)
  <2>1. e.kind = "ACCEPTED" /\ e.order_id = o.id /\ e.quantity = o.quantity
    BY DEF AcceptedEvent
  <2> HIDE DEF e
  <2>2. /\ o.id = id => Change(e, id) = o.quantity
        /\ o.id # id => Change(e, id) = 0
    BY <2>1 DEF Change
  <2> QED BY <2>2 DEF e
<1> QED BY <1>1, <1>2, <1>3, <1>4, <1>5

(* The lists translate_result makes of a result. *)
LEMMA EachCounted ==
  ASSUME NEW id, NEW rejections \in Seq(Rejections), NEW reports \in Seq(Reports),
         NEW trades \in Seq(Trades)
  PROVE  /\ Counted(Each(RejectedEvent, rejections), id)
         /\ Net(Each(RejectedEvent, rejections), id) = 0
         /\ Counted(Each(CanceledEvent, reports), id)
         /\ Counted(Each(TradeEvent, trades), id)
<1>1. /\ Len(rejections) \in Nat /\ Len(reports) \in Nat /\ Len(trades) \in Nat
      /\ \A i \in 1..Len(rejections) : rejections[i] \in Rejections
      /\ \A i \in 1..Len(reports) : reports[i] \in Reports
      /\ \A i \in 1..Len(trades) : trades[i] \in Trades
  BY ElementOfSeq
<1>2. Counted(Each(RejectedEvent, rejections), id) /\ Net(Each(RejectedEvent, rejections), id) = 0
  <2> DEFINE s == Each(RejectedEvent, rejections)
             n == Len(rejections)
  <2>1. s = [i \in 1..n |-> s[i]] /\ \A i \in 1..n : s[i] = RejectedEvent(rejections[i])
    BY DEF Each
  <2>2. \A i \in 1..n : Change(s[i], id) = 0
    BY <1>1, <2>1, ChangeFacts
  <2> HIDE DEF s
  <2>3. Counted(s, id) /\ Len(s) = n
    <3>1. \A i \in 1..n : Change(s[i], id) \in Int
      BY <2>2
    <3> QED BY <1>1, <2>1, <3>1, ListCounted
  <2>4. Net(s, id) = 0
    BY <2>2, <2>3, NetZero
  <2> QED BY <2>3, <2>4 DEF s
<1>3. Counted(Each(CanceledEvent, reports), id)
  <2> DEFINE s == Each(CanceledEvent, reports)
             n == Len(reports)
  <2>1. s = [i \in 1..n |-> s[i]] /\ \A i \in 1..n : s[i] = CanceledEvent(reports[i])
    BY DEF Each
  <2>2. \A i \in 1..n : Change(s[i], id) \in Int
    BY <1>1, <2>1, ChangeFacts
  <2> HIDE DEF s
  <2>3. Counted(s, id)
    BY <1>1, <2>1, <2>2, ListCounted
  <2> QED BY <2>3 DEF s
<1>4. Counted(Each(TradeEvent, trades), id)
  <2> DEFINE s == Each(TradeEvent, trades)
             n == Len(trades)
  <2>1. s = [i \in 1..n |-> s[i]] /\ \A i \in 1..n : s[i] = TradeEvent(trades[i])
    BY DEF Each
  <2>2. \A i \in 1..n : Change(s[i], id) \in Int
    BY <1>1, <2>1, ChangeFacts
  <2> HIDE DEF s
  <2>3. Counted(s, id)
    BY <1>1, <2>1, <2>2, ListCounted
  <2> QED BY <2>3 DEF s
<1> QED BY <1>2, <1>3, <1>4

(* One more trade, and one report. *)
LEMMA TradeCounted ==
  ASSUME NEW id, NEW trades \in Seq(Trades), NEW trade \in Trades
  PROVE  /\ Net(Each(TradeEvent, trades), id) \in Int
         /\ Net(Each(TradeEvent, Append(trades, trade)), id)
              = Net(Each(TradeEvent, trades), id) + Change(TradeEvent(trade), id)
<1> DEFINE s == Each(TradeEvent, trades)
           n == Len(trades)
           e == TradeEvent(trade)
           more == Append(trades, trade)
           t == Each(TradeEvent, more)
           c == s \o <<e>>
<1>1. n \in Nat /\ Len(more) = n + 1 /\ more[n + 1] = trade /\ \A i \in 1..n : more[i] = trades[i]
  OBVIOUS
<1>2. s = [i \in 1..n |-> TradeEvent(trades[i])]
  BY DEF Each
<1>3. t = [i \in 1..(n + 1) |-> TradeEvent(more[i])]
  <2> HIDE DEF more
  <2> QED BY <1>1 DEF Each
<1>4. Counted(s, id)
  <2>1. <<>> \in Seq(Rejections) /\ <<>> \in Seq(Reports)
    OBVIOUS
  <2> QED BY <2>1, EachCounted
<1>5. Counted(<<e>>, id) /\ Net(<<e>>, id) = Change(e, id)
  BY ChangeFacts, NetSingle
<1>6. Net(s, id) \in Int /\ Net(c, id) = Net(s, id) + Change(e, id)
  <2> HIDE DEF s, e
  <2> QED BY <1>4, <1>5, NetConcat
<1>7. t = c
  <2>1. s \in Seq(Members(s)) /\ Len(s) = n
    <3>1. s = [i \in 1..n |-> s[i]] /\ \A i \in 1..n : Change(s[i], id) \in Int
      BY <1>2, ChangeFacts, ElementOfSeq
    <3> HIDE DEF s
    <3> QED BY <1>1, <3>1, ListCounted DEF Counted
  <2> DEFINE S == Members(s) \cup {e}
  <2>2. s \in Seq(S) /\ <<e>> \in Seq(S)
    <3> HIDE DEF s, e
    <3>1. Members(s) \subseteq S /\ e \in S
      OBVIOUS
    <3> HIDE DEF S
    <3> QED BY <2>1, <3>1
  <2> HIDE DEF S, s, e
  <2>3. /\ Len(c) = n + 1 /\ c \in Seq(S)
        /\ \A i \in 1..n : c[i] = s[i]
        /\ c[n + 1] = e
    BY <1>1, <2>1, <2>2
  <2> HIDE DEF c, more
  <2>4. c = [i \in 1..(n + 1) |-> c[i]]
    BY <2>3
  <2>5. \A i \in 1..n : s[i] = TradeEvent(more[i])
    BY <1>1, <1>2
  <2>6. e = TradeEvent(more[n + 1])
    BY <1>1 DEF e
  <2>7. \A i \in 1..(n + 1) : i \in 1..n \/ i = n + 1
    BY <1>1
  <2>8. \A i \in 1..(n + 1) : c[i] = TradeEvent(more[i])
    BY <2>3, <2>5, <2>6, <2>7
  <2> HIDE DEF t
  <2> QED BY <1>3, <2>4, <2>8
<1> QED BY <1>6, <1>7

LEMMA NamesConcat ==
  ASSUME NEW id, NEW kind, NEW s, NEW t, s \in Seq(Members(s)), t \in Seq(Members(t))
  PROVE  Names(s \o t, kind, id) <=> Names(s, kind, id) \/ Names(t, kind, id)
<1> DEFINE S == Members(s) \cup Members(t)
           c == s \o t
           m == Len(s)
           n == Len(t)
<1>1. s \in Seq(S) /\ t \in Seq(S)
  <2>1. Members(s) \subseteq S /\ Members(t) \subseteq S
    OBVIOUS
  <2> HIDE DEF S
  <2> QED BY <2>1
<1> HIDE DEF S
<1>2. /\ m \in Nat /\ n \in Nat /\ Len(c) = m + n
      /\ \A i \in 1..m : c[i] = s[i]
      /\ \A i \in 1..n : c[i + m] = t[i]
  <2>1. /\ m \in Nat /\ n \in Nat /\ Len(c) = m + n
        /\ \A i \in 1..m : c[i] = s[i]
    BY <1>1
  <2>2. \A i \in 1..n : c[i + m] = t[i]
    BY <1>1
  <2> QED BY <2>1, <2>2
<1> HIDE DEF c, m, n
<1>3. /\ \A i \in 1..m : i \in 1..(m + n)
      /\ \A i \in 1..n : i + m \in 1..(m + n)
      /\ \A i \in 1..(m + n) : i \in 1..m \/ (i - m \in 1..n /\ i = (i - m) + m)
  BY <1>2
<1>4. Names(s, kind, id) \/ Names(t, kind, id) => Names(c, kind, id)
  <2>1. ASSUME Names(s, kind, id) PROVE Names(c, kind, id)
    <3>1. PICK i \in 1..m : s[i].kind = kind /\ s[i].order_id = id
      BY <2>1 DEF Names, m
    <3>2. c[i].kind = kind /\ c[i].order_id = id /\ i \in 1..Len(c)
      BY <1>2, <1>3, <3>1
    <3> QED BY <3>2 DEF Names
  <2>2. ASSUME Names(t, kind, id) PROVE Names(c, kind, id)
    <3>1. PICK i \in 1..n : t[i].kind = kind /\ t[i].order_id = id
      BY <2>2 DEF Names, n
    <3>2. c[i + m].kind = kind /\ c[i + m].order_id = id /\ i + m \in 1..Len(c)
      BY <1>2, <1>3, <3>1
    <3> QED BY <3>2 DEF Names
  <2> QED BY <2>1, <2>2
<1>5. Names(c, kind, id) => Names(s, kind, id) \/ Names(t, kind, id)
  <2>1. SUFFICES ASSUME Names(c, kind, id) PROVE Names(s, kind, id) \/ Names(t, kind, id)
    OBVIOUS
  <2>2. PICK i \in 1..(m + n) : c[i].kind = kind /\ c[i].order_id = id
    BY <1>2, <2>1 DEF Names
  <2>3. CASE i \in 1..m
    <3>1. s[i].kind = kind /\ s[i].order_id = id
      BY <1>2, <2>2, <2>3
    <3> QED BY <2>3, <3>1 DEF Names, m
  <2>4. CASE i - m \in 1..n /\ i = (i - m) + m
    <3> DEFINE j == i - m
    <3>1. j \in 1..n /\ i = j + m
      BY <2>4
    <3> HIDE DEF j
    <3>2. t[j].kind = kind /\ t[j].order_id = id
      BY <1>2, <2>2, <3>1
    <3> QED BY <3>1, <3>2 DEF Names, n
  <2> QED BY <1>3, <2>3, <2>4
<1> QED BY <1>4, <1>5 DEF c

Refused(res, id) == \E i \in 1..Len(res.rejections) : res.rejections[i].order_id = id

(* What the result of a call has taken off an order so far. *)
Settled(res, id) ==
  Net(Each(CanceledEvent, res.reports), id) + Net(Each(TradeEvent, res.trades), id)

(* translate_result, by what a subscriber reads off it. *)
LEMMA TranslateCounted ==
  ASSUME NEW id, NEW res \in Results, NEW b, NEW m,
         m.action = "NewOrder" => m.order \in Orders
  PROVE  LET events == translate_result(m, res, b)
             new == m.action = "NewOrder" /\ res.rejections = <<>> /\ m.order.id = id
         IN  /\ events # <<>>
             /\ Names(events, "REJECTED", id) <=> Refused(res, id)
             /\ Names(events, "ACCEPTED", id) <=> new
             /\ ~Names(events, "SNAPSHOT", id)
             /\ Settled(res, id) \in Int
             /\ new => Net(events, id) = Settled(res, id) + m.order.quantity
             /\ ~new => Net(events, id) = Settled(res, id)
<1> DEFINE rejected  == Each(RejectedEvent, res.rejections)
           canceled  == Each(CanceledEvent, res.reports)
           traded    == Each(TradeEvent, res.trades)
           accepts   == m.action = "NewOrder" /\ res.rejections = <<>>
           accepted_ == IF accepts THEN <<AcceptedEvent(m.order)>> ELSE <<>>
           last      == <<BookEvent(b)>>
           new       == accepts /\ m.order.id = id
           events    == translate_result(m, res, b)
<1>1. /\ res.rejections \in Seq(Rejections) /\ res.reports \in Seq(Reports)
      /\ res.trades \in Seq(Trades)
  BY DEF Results
<1>2. /\ Counted(rejected, id) /\ Net(rejected, id) = 0
      /\ Counted(canceled, id) /\ Counted(traded, id)
  BY <1>1, EachCounted
<1>3. Counted(last, id) /\ Net(last, id) = 0
  <2>1. Change(BookEvent(b), id) = 0 /\ 0 \in Int
    BY ChangeFacts
  <2> QED BY <2>1, NetSingle
<1>4. /\ Counted(accepted_, id)
      /\ new => Net(accepted_, id) = m.order.quantity
      /\ ~new => Net(accepted_, id) = 0
  <2>1. CASE accepts
    <3> DEFINE e == AcceptedEvent(m.order)
    <3>1. /\ m.order.id = id => Change(e, id) = m.order.quantity
          /\ m.order.id # id => Change(e, id) = 0
          /\ m.order.quantity \in Nat
      BY <2>1, ChangeFacts, OrderFields
    <3>2. Change(e, id) \in Int
      BY <3>1
    <3>3. Counted(<<e>>, id) /\ Net(<<e>>, id) = Change(e, id)
      BY <3>2, NetSingle
    <3>4. accepted_ = <<e>>
      BY <2>1
    <3> HIDE DEF e, accepted_
    <3> QED BY <2>1, <3>1, <3>3, <3>4
  <2>2. CASE ~accepts
    <3>1. accepted_ = <<>>
      BY <2>2
    <3> HIDE DEF accepted_
    <3> QED BY <2>2, <3>1, NetEmpty
  <2> QED BY <2>1, <2>2
<1>5. events = (((rejected \o canceled) \o traded) \o accepted_) \o last
  BY DEF translate_result
<1>6. /\ \A kind : Names(last, kind, id) => kind = "BOOK"
      /\ last # <<>> /\ Len(last) = 1
  <2>1. BookEvent(b).kind = "BOOK"
    BY DEF BookEvent
  <2> QED BY <2>1 DEF Names
<1>7. /\ \A kind : Names(accepted_, kind, id) => kind = "ACCEPTED" /\ new
      /\ new => Names(accepted_, "ACCEPTED", id)
  <2> DEFINE e == AcceptedEvent(m.order)
  <2>1. e.kind = "ACCEPTED" /\ e.order_id = m.order.id
    BY DEF AcceptedEvent
  <2>2. Len(<<e>>) = 1 /\ <<e>>[1] = e /\ Len(<<>>) = 0
    OBVIOUS
  <2>3. CASE accepts
    <3>1. accepted_ = <<e>>
      BY <2>3
    <3> HIDE DEF e, accepted_, accepts
    <3>2. Len(accepted_) = 1 /\ accepted_[1] = e /\ 1 \in 1..1 /\ \A i \in 1..1 : i = 1
      BY <2>2, <3>1
    <3> QED BY <2>1, <2>3, <3>2 DEF Names
  <2>4. CASE ~accepts
    <3>1. accepted_ = <<>>
      BY <2>4
    <3> HIDE DEF accepted_, accepts
    <3> QED BY <2>2, <2>4, <3>1 DEF Names
  <2> QED BY <2>3, <2>4
<1>8. /\ \A kind : Names(traded, kind, id) => kind = "TRADE"
      /\ \A kind : Names(canceled, kind, id) => kind = "CANCELED"
      /\ \A kind : Names(rejected, kind, id) => kind = "REJECTED"
      /\ Names(rejected, "REJECTED", id) <=> Refused(res, id)
  <2>1. \A kind : Names(traded, kind, id) => kind = "TRADE"
    <3>1. Len(traded) = Len(res.trades) /\ \A i \in 1..Len(traded) : traded[i].kind = "TRADE"
      BY <1>1 DEF Each, TradeEvent
    <3> HIDE DEF traded
    <3> QED BY <3>1 DEF Names
  <2>2. \A kind : Names(canceled, kind, id) => kind = "CANCELED"
    <3>1. Len(canceled) = Len(res.reports) /\ \A i \in 1..Len(canceled) : canceled[i].kind = "CANCELED"
      BY <1>1 DEF Each, CanceledEvent
    <3> HIDE DEF canceled
    <3> QED BY <3>1 DEF Names
  <2>3. /\ \A kind : Names(rejected, kind, id) => kind = "REJECTED"
        /\ Names(rejected, "REJECTED", id) <=> Refused(res, id)
    <3>1. /\ Len(rejected) = Len(res.rejections)
          /\ \A i \in 1..Len(rejected) : /\ rejected[i].kind = "REJECTED"
                                         /\ rejected[i].order_id = res.rejections[i].order_id
      BY <1>1 DEF Each, RejectedEvent
    <3> HIDE DEF rejected
    <3> QED BY <3>1 DEF Names, Refused
  <2> QED BY <2>1, <2>2, <2>3
<1> HIDE DEF rejected, canceled, traded, accepted_, last, accepts
<1> DEFINE c1 == rejected \o canceled
           c2 == c1 \o traded
           c3 == c2 \o accepted_
           c4 == c3 \o last
<1>9. /\ Counted(c1, id) /\ Net(c1, id) = Net(rejected, id) + Net(canceled, id)
      /\ Net(canceled, id) \in Int
      /\ \A kind : Names(c1, kind, id) <=> Names(rejected, kind, id) \/ Names(canceled, kind, id)
  BY <1>2, NetConcat, NamesConcat DEF Counted
<1> HIDE DEF c1
<1>10. /\ Counted(c2, id) /\ Net(c2, id) = Net(c1, id) + Net(traded, id)
       /\ Net(traded, id) \in Int
       /\ \A kind : Names(c2, kind, id) <=> Names(c1, kind, id) \/ Names(traded, kind, id)
  BY <1>2, <1>9, NetConcat, NamesConcat DEF Counted
<1> HIDE DEF c2
<1>11. /\ Counted(c3, id) /\ Net(c3, id) = Net(c2, id) + Net(accepted_, id)
       /\ Net(accepted_, id) \in Int
       /\ \A kind : Names(c3, kind, id) <=> Names(c2, kind, id) \/ Names(accepted_, kind, id)
  BY <1>4, <1>10, NetConcat, NamesConcat DEF Counted
<1> HIDE DEF c3
<1>12. /\ Counted(c4, id) /\ Net(c4, id) = Net(c3, id) + Net(last, id)
       /\ Net(c3, id) \in Int
       /\ \A kind : Names(c4, kind, id) <=> Names(c3, kind, id) \/ Names(last, kind, id)
  BY <1>3, <1>11, NetConcat, NamesConcat DEF Counted
<1>13. c4 # <<>>
  <2> DEFINE S == Members(c3) \cup Members(last)
  <2>1. c3 \in Seq(S) /\ last \in Seq(S)
    <3>1. c3 \in Seq(Members(c3)) /\ last \in Seq(Members(last))
      BY <1>3, <1>11 DEF Counted
    <3>2. Members(c3) \subseteq S /\ Members(last) \subseteq S
      OBVIOUS
    <3> HIDE DEF S
    <3> QED BY <3>1, <3>2
  <2> HIDE DEF S
  <2>2. Len(c4) = Len(c3) + Len(last) /\ Len(c3) \in Nat
    BY <2>1
  <2>3. Len(c4) # 0
    BY <1>6, <2>2
  <2> HIDE DEF c4
  <2>4. Len(<<>>) = 0
    OBVIOUS
  <2> QED BY <2>3, <2>4
<1>14. events = c4
  BY <1>5 DEF c1, c2, c3
<1> HIDE DEF c4, events
<1>15. /\ Names(c4, "REJECTED", id) <=> Refused(res, id)
       /\ Names(c4, "ACCEPTED", id) <=> new
       /\ ~Names(c4, "SNAPSHOT", id)
  <2>1. \A kind : Names(c4, kind, id) <=>
          \/ Names(rejected, kind, id) \/ Names(canceled, kind, id)
          \/ Names(traded, kind, id) \/ Names(accepted_, kind, id) \/ Names(last, kind, id)
    BY <1>9, <1>10, <1>11, <1>12
  <2> HIDE DEF new
  <2> QED BY <1>6, <1>7, <1>8, <2>1
<1>16. /\ Settled(res, id) = Net(canceled, id) + Net(traded, id)
  BY DEF Settled, canceled, traded
<1>17. Settled(res, id) \in Int /\ Net(c4, id) = Settled(res, id) + Net(accepted_, id)
  BY <1>2, <1>3, <1>9, <1>10, <1>11, <1>12, <1>16
<1>18. /\ new => Net(c4, id) = Settled(res, id) + m.order.quantity
       /\ ~new => Net(c4, id) = Settled(res, id)
  BY <1>4, <1>17
<1> QED BY <1>13, <1>14, <1>15, <1>17, <1>18 DEF events, new, accepts

-----------------------------------------------------------------------------
(* The accounts of a subscriber.  Between two calls, what it takes to be   *)
(* open of an order that was answered is what is left of it in the ledger. *)
(* During a call it differs by what the result, not yet published, has     *)
(* settled - and the ids already refused have left the engine for good.    *)
Departed(id) ==
  ~has_order(book, id) /\ \A o \in Outside(pending_stops, stack) : o.id # id

Submits(m, id) == m.action = "NewOrder" /\ m.order.id = id
Due(m, v, id) == IF Submits(m, id) THEN m.order.quantity ELSE v[id]
Answerable(m, ids, id) == id \notin ids \/ Submits(m, id)

Accounted(id) ==
  IF Refused(result, id) THEN Departed(id)
  ELSE Answerable(msg, mute, id) =>
         Left(ledger[id]) = Due(msg, view, id) + Settled(result, id)

IsMessage(m) ==
  \/ m = NoMessage
  \/ \E o \in Orders : m = NewOrder(o)
  \/ \E id \in Ids : m = CancelOrder(id)

Accounts ==
  /\ view \in [Ids -> Int] /\ IsMessage(msg)
  /\ ~Calling => Idle /\ \A id \in Ids \ mute : view[id] = Left(ledger[id])
  /\ Calling => \A id \in Ids : Accounted(id)

(* A cancel reports the visible quantity only, so the account of an order  *)
(* with a hidden reserve would not close: the clients send no icebergs,    *)
(* and then no order has a reserve.                                        *)
Flat == \A id : has_order(book, id) => book.id_map[id].reserve_qty = 0

LEMMA OutsideOrders ==
  ASSUME Inv
  PROVE  \A o \in Outside(pending_stops, stack) : o \in Orders
<1>1. pending_stops \in Seq(Orders) /\ stack \in Seq(Frames)
  BY DEF Inv, TypeOK
<1>2. \A o \in Members(pending_stops) : o \in Orders
  BY <1>1, MembersType
<1>3. \A f \in 1..Len(stack) : stack[f].order \in Orders /\ stack[f].working \in Seq(Orders)
  <2>1. \A f \in 1..Len(stack) : stack[f] \in Frames
    BY <1>1, ElementOfSeq
  <2> QED BY <2>1 DEF Frames
<1>4. \A o \in Active(stack) : o \in Orders
  BY <1>3 DEF Active
<1>5. \A o \in WorkingIn(stack) : o \in Orders
  <2>1. \A f \in 1..Len(stack) : \A o \in Members(stack[f].working) : o \in Orders
    BY <1>3, MembersType
  <2> QED BY <2>1 DEF WorkingIn
<1> QED BY <1>2, <1>4, <1>5 DEF Outside, Waiting

LEMMA OutsideFlat ==
  ASSUME Inv, Conserved, Separated
  PROVE  \A o \in Outside(pending_stops, stack) : o \in Orders /\ o.reserve_qty = 0
<1> SUFFICES ASSUME NEW o \in Outside(pending_stops, stack)
             PROVE  o \in Orders /\ o.reserve_qty = 0
  OBVIOUS
<1>1. o \in Orders /\ o.reserve_qty \in Nat
  BY OutsideOrders, OrderFields
<1>2. CASE o \in Waiting(pending_stops, stack)
  BY <1>1, <1>2 DEF Conserved, Kinds
<1>3. CASE o \in Active(stack)
  <2>1. o.type \in {"Limit", "Market"}
    BY <1>3 DEF Separated, Plain
  <2>2. ~(o.reserve_qty > 0)
    BY <1>3, <2>1 DEF Conserved, Kinds
  <2> QED BY <1>1, <2>2
<1> QED BY <1>2, <1>3 DEF Outside

LEMMA SubmitFlat ==
  ASSUME Inv, Flat, Submit
  PROVE  Flat'
<1>1. ASSUME NEW id \in Ids, CancelResting(id) PROVE Flat'
  <2>1. has_order(book, id) /\ book' = cancel_order(book, id) /\ Sound(book)
    BY <1>1 DEF CancelResting, Inv
  <2>2. /\ \A x : has_order(book', x) <=> has_order(book, x) /\ x # id
        /\ \A x : has_order(book', x) => book'.id_map[x] = book.id_map[x]
    BY <2>1, CancelOrders
  <2> QED BY <2>2 DEF Flat
<1>2. CASE book' = book
  BY <1>2 DEF Flat
<1> QED BY <1>1, <1>2 DEF Submit, SubmitNew, process_new_order, CancelPending, CancelUnknown, Reject

LEMMA StepFlat ==
  ASSUME Inv, Conserved, Separated, Flat, Step
  PROVE  Flat'
<1>1. CASE Fill
  <2>1. PICK p \in Ids, qty \in Nat : Fills(p, qty)
    BY <1>1, FillEffect
  <2> DEFINE s == book.id_map[p]
             n == book'.id_map[p]
  <2>2. /\ has_order(book, p)
        /\ \A x : x # p => (has_order(book', x) <=> has_order(book, x))
        /\ \A x : x # p /\ has_order(book, x) => book'.id_map[x] = book.id_map[x]
        /\ has_order(book', p) => n.reserve_qty <= s.reserve_qty
    BY <2>1 DEF Fills
  <2>3. ASSUME has_order(book', p) PROVE n.reserve_qty = 0
    <3>1. Inv'
      BY <1>1, FillInv
    <3>2. n \in Orders
      BY <2>3, <3>1, OrderInBook DEF Inv, TypeOK
    <3>3. n.reserve_qty \in Nat
      BY <3>2, OrderFields
    <3>4. s.reserve_qty = 0
      BY <2>2 DEF Flat
    <3> QED BY <2>2, <2>3, <3>3, <3>4
  <2> QED BY <2>2, <2>3 DEF Flat
<1>2. CASE FinishResting
  <2>1. /\ book' = insert_order(book, Top.order) /\ LoopEnded /\ stack' = Tail(stack)
        /\ pending_stops' = pending_stops /\ Sound(book)
    BY <1>2 DEF FinishResting, Inv
  <2>2. Top.order \in Active(stack) /\ Absent(book, Top.order.id) /\ Top.order \in Orders
    BY <2>1, FinishEffect
  <2>3. Top.order.reserve_qty = 0
    BY <2>2, OutsideFlat DEF Outside
  <2>4. /\ \A x : has_order(book', x) <=> has_order(book, x) \/ x = Top.order.id
        /\ book'.id_map[Top.order.id] = Top.order
        /\ \A x : has_order(book, x) /\ x # Top.order.id => book'.id_map[x] = book.id_map[x]
    BY <2>1, <2>2, InsertOrders
  <2> QED BY <2>3, <2>4 DEF Flat
<1>3. CASE book' = book
  BY <1>3 DEF Flat
<1> QED BY <1>1, <1>2, <1>3 DEF Step, TriggerStop, KeepStop, FinishExhausted, FinishFilled

LEMMA StepDeparted ==
  ASSUME Inv, Step, NEW id, Departed(id)
  PROVE  Departed(id)'
<1>1. CASE Fill
  <2>1. PICK p \in Ids, qty \in Nat : Fills(p, qty)
    BY <1>1, FillEffect
  <2> DEFINE a == Top.order
             left == [a EXCEPT !.quantity = a.quantity - qty]
  <2>2. /\ a \in Orders /\ a \in Active(stack) /\ has_order(book, p)
        /\ Waiting(pending_stops', stack') = Waiting(pending_stops, stack)
        /\ Active(stack') = Active(Tail(stack)) \cup {left}
        /\ Active(stack) = Active(Tail(stack)) \cup {a}
        /\ \A x : x # p => (has_order(book', x) <=> has_order(book, x))
    BY <2>1 DEF Fills
  <2>3. left.id = a.id
    BY <2>2 DEF Orders
  <2> HIDE DEF a, left
  <2> QED BY <2>2, <2>3 DEF Departed, Outside
<1>2. CASE TriggerStop
  <2>1. PICK stop \in Waiting(pending_stops, stack) :
           /\ stop \in Orders
           /\ Waiting(pending_stops, stack) = Waiting(pending_stops', stack') \cup {stop}
           /\ Active(stack') = Active(stack) \cup {Enter(stop).order}
           /\ book' = book
    BY <1>2, TriggerEffect
  <2>2. Enter(stop).order.id = stop.id
    BY <2>1, EnterSide
  <2> QED BY <2>1, <2>2 DEF Departed, Outside
<1>3. CASE KeepStop
  BY <1>3, KeepEffect DEF Departed, Outside
<1>4. CASE FinishResting \/ FinishExhausted \/ FinishFilled
  <2>1. LoopEnded /\ stack' = Tail(stack) /\ pending_stops' = pending_stops
    BY <1>4 DEF FinishResting, FinishExhausted, FinishFilled
  <2>2. /\ Waiting(pending_stops', stack') = Waiting(pending_stops, stack)
        /\ Active(stack) = Active(stack') \cup {Top.order}
        /\ Absent(book, Top.order.id) /\ Top.order \in Orders
    BY <2>1, FinishEffect
  <2>3. id # Top.order.id
    BY <2>2 DEF Departed, Outside
  <2>4. ~has_order(book', id)
    <3>1. CASE FinishResting
      <4>1. book' = insert_order(book, Top.order) /\ Sound(book)
        BY <3>1 DEF FinishResting, Inv
      <4>2. \A x : has_order(book', x) <=> has_order(book, x) \/ x = Top.order.id
        BY <2>2, <4>1, InsertOrders
      <4> QED BY <2>3, <4>2 DEF Departed
    <3>2. CASE book' = book
      BY <3>2 DEF Departed
    <3> QED BY <1>4, <3>1, <3>2 DEF FinishExhausted, FinishFilled
  <2> QED BY <2>2, <2>4 DEF Departed, Outside
<1> QED BY <1>1, <1>2, <1>3, <1>4 DEF Step

LEMMA SettledType ==
  ASSUME NEW id, NEW res \in Results
  PROVE  /\ Net(Each(CanceledEvent, res.reports), id) \in Int
         /\ Net(Each(TradeEvent, res.trades), id) \in Int
         /\ Settled(res, id) \in Int
<1> DEFINE s == Each(CanceledEvent, res.reports)
           t == Each(TradeEvent, res.trades)
<1>1. /\ res.rejections \in Seq(Rejections) /\ res.reports \in Seq(Reports)
      /\ res.trades \in Seq(Trades)
  BY DEF Results
<1>2. Counted(s, id) /\ Counted(t, id)
  BY <1>1, EachCounted
<1> HIDE DEF s, t
<1>3. Net(s, id) \in Int /\ Net(t, id) \in Int
  BY <1>2, NetConcat
<1>4. Settled(res, id) = Net(s, id) + Net(t, id)
  BY DEF Settled, s, t
<1>5. Settled(res, id) \in Int
  BY <1>3, <1>4
<1> QED BY <1>3, <1>5 DEF s, t

LEMMA DueType ==
  ASSUME NEW m, IsMessage(m), NEW v \in [Ids -> Int], NEW id \in Ids
  PROVE  Due(m, v, id) \in Int
<1>1. ASSUME Submits(m, id) PROVE m.order.quantity \in Int
  <2>1. m.action = "NewOrder"
    BY <1>1 DEF Submits
  <2>2. PICK o \in Orders : m = NewOrder(o)
    BY <2>1 DEF IsMessage, NoMessage, CancelOrder
  <2>3. m.order = o
    BY <2>2 DEF NewOrder
  <2> QED BY <2>3, OrderFields
<1> QED BY <1>1 DEF Due

(* A fill takes the same from the ledger and from the account of both its  *)
(* orders.                                                                 *)
LEMMA FillSettles ==
  ASSUME Inv, Fill, NEW id \in Ids
  PROVE  /\ result'.rejections = result.rejections
         /\ Left(ledger'[id]) - Left(ledger[id]) = Settled(result', id) - Settled(result, id)
<1>1. PICK p \in Ids, qty \in Nat : Fills(p, qty)
  BY FillEffect
<1> DEFINE a     == Top.order
           s     == book.id_map[p]
           trade == [aggressor_id |-> a.id, passive_id |-> p, price |-> s.price,
                     quantity |-> qty, aggressor_side |-> a.side]
<1>2. /\ a \in Orders /\ a.id # p /\ s \in Orders /\ has_order(book, p)
      /\ ledger' = Credited(ledger, a.id, p, qty)
      /\ result' = [result EXCEPT !.trades = Append(result.trades, trade)]
  BY <1>1 DEF Fills, Credited
<1>3. /\ a.id \in Ids /\ ledger \in Entries /\ trade \in Trades
      /\ trade.aggressor_id = a.id /\ trade.passive_id = p /\ trade.quantity = qty
  <2>1. a.id \in Ids /\ a.side \in Sides /\ s.price \in Prices
    BY <1>2 DEF Orders
  <2>2. ledger \in Entries
    BY DEF Inv, TypeOK, Entries
  <2> QED BY <2>1, <2>2 DEF Trades
<1>4. /\ result \in Results /\ result.trades \in Seq(Trades)
      /\ result'.trades = Append(result.trades, trade)
      /\ result'.reports = result.reports /\ result'.rejections = result.rejections
  BY <1>2 DEF Inv, TypeOK, Results
<1> HIDE DEF a, s, trade
<1>5. /\ Left(ledger'[a.id]) = Left(ledger[a.id]) - qty
      /\ Left(ledger'[p]) = Left(ledger[p]) - qty
      /\ \A x \in Ids : x # a.id /\ x # p => ledger'[x] = ledger[x]
  BY <1>2, <1>3, FilledFacts
<1>6. /\ id \in {a.id, p} => Change(TradeEvent(trade), id) = -qty
      /\ id \notin {a.id, p} => Change(TradeEvent(trade), id) = 0
  <2>1. /\ id \in {trade.aggressor_id, trade.passive_id} =>
             Change(TradeEvent(trade), id) = -trade.quantity
        /\ id \notin {trade.aggressor_id, trade.passive_id} => Change(TradeEvent(trade), id) = 0
    BY <1>3, ChangeFacts
  <2> QED BY <1>3, <2>1
<1> DEFINE d == Change(TradeEvent(trade), id)
           old == Net(Each(TradeEvent, result.trades), id)
           reported == Net(Each(CanceledEvent, result.reports), id)
<1>7. old \in Int /\ reported \in Int
  BY <1>4, SettledType
<1>8. Net(Each(TradeEvent, result'.trades), id) = old + d
  BY <1>3, <1>4, TradeCounted
<1>9. Settled(result, id) = reported + old /\ Settled(result', id) = reported + (old + d)
  BY <1>4, <1>8 DEF Settled
<1>10. Left(ledger[id]) \in Int
  BY <1>3, LeftType
<1>11. d \in Int /\ Left(ledger'[id]) = Left(ledger[id]) + d
  <2>1. CASE id \in {a.id, p}
    BY <1>5, <1>6, <1>10, <2>1
  <2>2. CASE id \notin {a.id, p}
    BY <1>5, <1>6, <1>10, <2>2
  <2> QED BY <2>1, <2>2
<1> HIDE DEF d, old, reported
<1>12. Left(ledger'[id]) - Left(ledger[id]) = Settled(result', id) - Settled(result, id)
  BY <1>7, <1>9, <1>10, <1>11
<1> QED BY <1>4, <1>12

LEMMA StepAccounted ==
  ASSUME Inv, Step, UNCHANGED <<msg, view, mute>>, IsMessage(msg), view \in [Ids -> Int],
         NEW id \in Ids, Accounted(id)
  PROVE  Accounted(id)'
<1> DEFINE due == Due(msg, view, id)
           able == Answerable(msg, mute, id)
<1>0. due \in Int /\ ledger \in Entries /\ result \in Results
  BY DueType DEF Inv, TypeOK, Entries
<1>1. Inv'
  BY FillInv, TriggerStopInv, KeepStopInv, FinishRestingInv, FinishOtherInv DEF Step
<1>2. ledger' \in Entries /\ result' \in Results
  BY <1>1 DEF Inv, TypeOK, Entries
<1>3. /\ Left(ledger[id]) \in Int /\ Left(ledger'[id]) \in Int
      /\ Settled(result, id) \in Int /\ Settled(result', id) \in Int
  BY <1>0, <1>2, LeftType, SettledType
<1>4. Due(msg', view', id) = due /\ Answerable(msg', mute', id) = able
  OBVIOUS
(* Nobody is refused, and ledger and result move together. *)
<1>5. ASSUME result'.rejections = result.rejections,
             Left(ledger'[id]) - Left(ledger[id]) = Settled(result', id) - Settled(result, id)
      PROVE  Accounted(id)'
  <2>1. Refused(result', id) <=> Refused(result, id)
    BY <1>5 DEF Refused
  <2>2. CASE Refused(result, id)
    <3>1. Departed(id)'
      BY <2>2, StepDeparted DEF Accounted
    <3> QED BY <2>1, <2>2, <3>1 DEF Accounted
  <2>3. CASE ~Refused(result, id)
    <3>1. able => Left(ledger[id]) = due + Settled(result, id)
      BY <2>3 DEF Accounted
    <3> HIDE DEF due, able
    <3>2. able => Left(ledger'[id]) = due + Settled(result', id)
      BY <1>0, <1>3, <1>5, <3>1
    <3> QED BY <1>4, <2>1, <2>3, <3>2 DEF Accounted
  <2> QED BY <2>2, <2>3
<1>6. CASE Fill
  BY <1>5, <1>6, FillSettles
<1>7. ASSUME result' = result, ledger' = ledger PROVE Accounted(id)'
  BY <1>3, <1>5, <1>7
<1>8. CASE TriggerStop
  BY <1>7, <1>8 DEF TriggerStop
<1>9. CASE KeepStop \/ FinishResting \/ FinishFilled
  BY <1>7, <1>9 DEF KeepStop, FinishResting, FinishFilled
<1>10. CASE FinishExhausted
  <2> DEFINE o == Top.order
             r == Rejected(o.id, "MarketExhausted")
  <2>1. /\ LoopEnded /\ stack' = Tail(stack) /\ pending_stops' = pending_stops /\ book' = book
        /\ ledger' = Withdrawn(ledger, o)
        /\ result' = [result EXCEPT !.rejections = Append(result.rejections, r)]
    BY <1>10 DEF FinishExhausted
  <2>2. /\ o \in Orders /\ Absent(book, o.id)
        /\ \A x \in Waiting(pending_stops', stack') \cup Active(stack') : x.id # o.id
    BY <2>1, FinishEffect
  <2>3. /\ result.rejections \in Seq(Rejections)
        /\ result'.rejections = Append(result.rejections, r)
        /\ result'.reports = result.reports /\ result'.trades = result.trades
    BY <1>0, <2>1 DEF Results
  <2>4. r.order_id = o.id
    BY DEF Rejected
  <2> HIDE DEF o, r
  <2>5. Refused(result', id) <=> Refused(result, id) \/ id = o.id
    <3> DEFINE old == result.rejections
               new == result'.rejections
               n == Len(old)
    <3>1. /\ n \in Nat /\ Len(new) = n + 1 /\ new[n + 1] = r
          /\ \A i \in 1..n : new[i] = old[i]
      BY <2>3
    <3> HIDE DEF new, old
    <3>2. n + 1 \in 1..(n + 1) /\ \A i \in 1..(n + 1) : i \in 1..n \/ i = n + 1
      BY <3>1
    <3>3. \A i \in 1..n : i \in 1..(n + 1)
      BY <3>1
    <3>4. (\E i \in 1..Len(new) : new[i].order_id = id)
            <=> (\E i \in 1..n : old[i].order_id = id) \/ id = o.id
      BY <2>4, <3>1, <3>2, <3>3
    <3> QED BY <3>4 DEF Refused, new, old
  <2>6. CASE id = o.id
    <3>1. Departed(id)'
      BY <2>1, <2>2, <2>6 DEF Departed, Outside, Absent
    <3> QED BY <2>5, <2>6, <3>1 DEF Accounted
  <2>7. CASE id # o.id
    <3>1. ledger'[id] = ledger[id]
      <4>1. 0 \in Int
        OBVIOUS
      <4> QED BY <1>0, <2>1, <2>2, <2>7, <4>1, LedgerFacts
    <3>2. Settled(result', id) = Settled(result, id)
      BY <2>3 DEF Settled
    <3>3. CASE Refused(result, id)
      <4>1. Departed(id)'
        BY <3>3, StepDeparted DEF Accounted
      <4> QED BY <2>5, <3>3, <4>1 DEF Accounted
    <3>4. CASE ~Refused(result, id)
      BY <1>4, <2>5, <2>7, <3>1, <3>2, <3>4 DEF Accounted
    <3> QED BY <3>3, <3>4
  <2> QED BY <2>6, <2>7
<1> QED BY <1>6, <1>8, <1>9, <1>10 DEF Step

(* A call begins: the account of every id, with what the event has already *)
(* done to it.                                                             *)
LEMMA CancelAccounted ==
  ASSUME Inv, NEW order \in Orders, order.reserve_qty = 0,
         result' = [EmptyResult EXCEPT !.reports = <<Report(order)>>],
         ledger' = Withdrawn(ledger, order), UNCHANGED <<view, mute>>,
         \A x \in Ids \ mute : view[x] = Left(ledger[x]),
         NEW c \in Ids, msg' = CancelOrder(c),
         NEW id \in Ids
  PROVE  Accounted(id)'
<1> DEFINE r == Report(order)
<1>1. /\ result'.reports = <<r>> /\ result'.trades = <<>> /\ result'.rejections = <<>>
  BY DEF EmptyResult
<1>2. r \in Reports /\ r.order_id = order.id /\ r.remaining_qty = order.quantity
      /\ order.quantity \in Nat /\ order.id \in Ids
  BY OrderFields DEF Report, Reports
<1> HIDE DEF r
<1>3. ~Refused(result', id)
  BY <1>1 DEF Refused
<1>4. Net(Each(TradeEvent, result'.trades), id) = 0
  <2>1. Each(TradeEvent, <<>>) = <<>>
    BY DEF Each
  <2> QED BY <1>1, <2>1, NetEmpty
<1>5. Net(Each(CanceledEvent, result'.reports), id) = Change(CanceledEvent(r), id)
  <2> DEFINE e == CanceledEvent(r)
  <2>1. Each(CanceledEvent, <<r>>) = <<e>>
    BY DEF Each
  <2>2. Change(e, id) \in Int
    BY <1>2, ChangeFacts
  <2> HIDE DEF e
  <2>3. Net(<<e>>, id) = Change(e, id)
    BY <2>2, NetSingle
  <2> QED BY <1>1, <2>1, <2>3 DEF e
<1>6. /\ id = order.id => Settled(result', id) = -order.quantity
      /\ id # order.id => Settled(result', id) = 0
  <2>1. /\ id = order.id => Change(CanceledEvent(r), id) = -order.quantity
        /\ id # order.id => Change(CanceledEvent(r), id) = 0
    BY <1>2, ChangeFacts
  <2> QED BY <1>2, <1>4, <1>5, <2>1 DEF Settled
<1>7. ledger \in Entries
  BY DEF Inv, TypeOK, Entries
<1>8. /\ id = order.id => Left(ledger'[id]) = Left(ledger[id]) - order.quantity
      /\ id # order.id => Left(ledger'[id]) = Left(ledger[id])
  <2>1. Open(order) = order.quantity
    BY <1>2 DEF Open
  <2>2. 0 \in Int
    OBVIOUS
  <2> QED BY <1>2, <1>7, <2>1, <2>2, LedgerFacts
<1>9. ~Submits(msg', id)
  BY DEF Submits, CancelOrder
<1>10. Left(ledger[id]) \in Int
  BY <1>7, LeftType
<1>11. Answerable(msg', mute', id) => Left(ledger'[id]) = Due(msg', view', id) + Settled(result', id)
  <2>1. SUFFICES ASSUME Answerable(msg', mute', id)
                 PROVE  Left(ledger'[id]) = Due(msg', view', id) + Settled(result', id)
    OBVIOUS
  <2>2. Due(msg', view', id) = Left(ledger[id])
    BY <1>9, <2>1 DEF Due, Answerable
  <2>3. CASE id = order.id
    BY <1>2, <1>6, <1>8, <1>10, <2>2, <2>3
  <2>4. CASE id # order.id
    BY <1>6, <1>8, <1>10, <2>2, <2>4
  <2> QED BY <2>3, <2>4
<1> QED BY <1>3, <1>11 DEF Accounted

LEMMA NothingSettled ==
  ASSUME NEW id, NEW res, res.reports = <<>>, res.trades = <<>>
  PROVE  Settled(res, id) = 0
<1>1. Each(TradeEvent, <<>>) = <<>> /\ Each(CanceledEvent, <<>>) = <<>>
  BY DEF Each
<1> QED BY <1>1, NetEmpty DEF Settled

LEMMA NewAccounted ==
  ASSUME Inv, NEW order \in Orders, result' = EmptyResult, ledger' = Opened(ledger, order),
         UNCHANGED <<view, mute>>, \A x \in Ids \ mute : view[x] = Left(ledger[x]),
         msg' = NewOrder(order), NEW id \in Ids
  PROVE  Accounted(id)'
<1>1. result'.reports = <<>> /\ result'.trades = <<>> /\ result'.rejections = <<>>
  BY DEF EmptyResult
<1>2. ~Refused(result', id) /\ Settled(result', id) = 0
  BY <1>1, NothingSettled DEF Refused
<1>3. ledger \in Entries /\ order.id \in Ids /\ order.quantity \in Nat /\ 0 \in Int
  BY OrderFields DEF Inv, TypeOK, Entries
<1>4. /\ Left(ledger'[order.id]) = order.quantity
      /\ id # order.id => ledger'[id] = ledger[id]
  BY <1>3, LedgerFacts
<1>5. (Submits(msg', id) <=> id = order.id) /\ msg'.order = order
  BY DEF Submits, NewOrder
<1>6. Left(ledger[id]) \in Int
  BY <1>3, LeftType
<1>7. ASSUME Answerable(msg', mute', id)
      PROVE  Left(ledger'[id]) = Due(msg', view', id) + Settled(result', id)
  <2>1. CASE id = order.id
    BY <1>2, <1>3, <1>4, <1>5, <2>1 DEF Due
  <2>2. CASE id # order.id
    <3>1. view'[id] = Left(ledger[id])
      BY <1>5, <1>7, <2>2 DEF Answerable
    <3> QED BY <1>2, <1>4, <1>5, <1>6, <2>2, <3>1 DEF Due
  <2> QED BY <2>1, <2>2
<1> QED BY <1>2, <1>7 DEF Accounted

LEMMA UnknownAccounted ==
  ASSUME Inv, NEW c \in Ids, CancelUnknown(c), UNCHANGED <<view, mute>>,
         \A x \in Ids \ mute : view[x] = Left(ledger[x]),
         msg' = CancelOrder(c), NEW id \in Ids
  PROVE  Accounted(id)'
<1> DEFINE r == Rejected(c, "OrderNotFound")
<1>1. /\ Idle /\ ~IsPending(c) /\ ~has_order(book, c)
      /\ result' = [EmptyResult EXCEPT !.rejections = <<r>>]
      /\ UNCHANGED <<book, pending_stops, stack, ledger>>
  BY DEF CancelUnknown, Reject
<1>2. r.order_id = c
  BY DEF Rejected
<1> HIDE DEF r
<1>3. result'.reports = <<>> /\ result'.trades = <<>> /\ result'.rejections = <<r>>
  BY <1>1 DEF EmptyResult
<1>4. (Refused(result', id) <=> id = c) /\ Settled(result', id) = 0
  <2>1. Len(<<r>>) = 1 /\ <<r>>[1] = r /\ 1 \in 1..1 /\ \A i \in 1..1 : i = 1
    OBVIOUS
  <2>2. Refused(result', id) <=> id = c
    BY <1>2, <1>3, <2>1 DEF Refused
  <2> QED BY <1>3, <2>2, NothingSettled
<1>5. CASE id = c
  <2>1. Outside(pending_stops, stack) = Members(pending_stops)
    BY <1>1, MembersEmpty DEF Outside, Waiting, Idle
  <2>2. Departed(id)'
    BY <1>1, <1>5, <2>1 DEF Departed, IsPending, Members
  <2> QED BY <1>4, <1>5, <2>2 DEF Accounted
<1>6. CASE id # c
  <2>1. ~Submits(msg', id)
    BY DEF Submits, CancelOrder
  <2>2. Left(ledger[id]) \in Int
    BY LeftType DEF Inv, TypeOK, Entries
  <2>3. ASSUME Answerable(msg', mute', id)
        PROVE  Left(ledger'[id]) = Due(msg', view', id) + Settled(result', id)
    <3>1. view'[id] = Left(ledger[id])
      BY <2>1, <2>3 DEF Answerable
    <3> QED BY <1>1, <1>4, <2>1, <2>2, <3>1 DEF Due
  <2> QED BY <1>4, <1>6, <2>3 DEF Accounted
<1> QED BY <1>5, <1>6

LEMMA ProcessAccounts ==
  ASSUME Inv, Conserved, Separated, Flat, Accounts,
         \/ \E id \in Ids, t \in NewOrders : ProcessNew(WithId(t, id))
         \/ \E id \in Ids : ProcessCancel(id)
  PROVE  Accounts'
<1>1. ASSUME out' = <<>>, UNCHANGED view, msg' # NoMessage, IsMessage(msg'),
             \A x \in Ids : Accounted(x)'
      PROVE  Accounts'
  BY <1>1 DEF Accounts, Calling
<1>2. ASSUME ~Calling
      PROVE  \A x \in Ids \ mute : view[x] = Left(ledger[x])
  BY <1>2 DEF Accounts
<1>3. ASSUME NEW id \in Ids, NEW t \in NewOrders, ProcessNew(WithId(t, id))
      PROVE  Accounts'
  <2> DEFINE order == WithId(t, id)
  <2>1. order \in Orders
    BY WithIdType
  <2>2. /\ ~Calling /\ result' = EmptyResult /\ ledger' = Opened(ledger, order)
        /\ msg' = NewOrder(order) /\ out' = <<>> /\ UNCHANGED <<view, mute>>
    BY <1>3 DEF ProcessNew, Process, SubmitNew, process_new_order
  <2> HIDE DEF order
  <2>3. msg' # NoMessage /\ IsMessage(msg')
    BY <2>1, <2>2 DEF IsMessage, NewOrder, NoMessage
  <2>4. \A x \in Ids : Accounted(x)'
    BY <1>2, <2>1, <2>2, NewAccounted
  <2> QED BY <1>1, <2>2, <2>3, <2>4
<1>4. ASSUME NEW id \in Ids, ProcessCancel(id)
      PROVE  Accounts'
  <2>1. /\ ~Calling /\ msg' = CancelOrder(id) /\ out' = <<>> /\ UNCHANGED <<view, mute>>
        /\ CancelPending(id) \/ CancelResting(id) \/ CancelUnknown(id)
    BY <1>4 DEF ProcessCancel, Process
  <2>2. msg' # NoMessage /\ IsMessage(msg')
    BY <2>1 DEF IsMessage, CancelOrder, NoMessage
  <2>3. CASE CancelPending(id)
    <3>1. PICK i \in 1..Len(pending_stops) :
            /\ result' = [EmptyResult EXCEPT !.reports = <<Report(pending_stops[i])>>]
            /\ ledger' = Withdrawn(ledger, pending_stops[i])
      BY <2>3 DEF CancelPending
    <3>2. pending_stops[i] \in Outside(pending_stops, stack)
      BY DEF Outside, Waiting, Members
    <3> DEFINE stop == pending_stops[i]
    <3>3. stop \in Orders /\ stop.reserve_qty = 0
      BY <3>2, OutsideFlat
    <3>4. \A x \in Ids : Accounted(x)'
      <4> HIDE DEF stop
      <4>1. /\ result' = [EmptyResult EXCEPT !.reports = <<Report(stop)>>]
            /\ ledger' = Withdrawn(ledger, stop)
        BY <3>1 DEF stop
      <4> QED BY <1>2, <2>1, <3>3, <4>1, CancelAccounted
    <3> QED BY <1>1, <2>1, <2>2, <3>4
  <2>4. CASE CancelResting(id)
    <3> DEFINE order == book.id_map[id]
    <3>1. /\ has_order(book, id)
          /\ result' = [EmptyResult EXCEPT !.reports = <<Report(order)>>]
          /\ ledger' = Withdrawn(ledger, order)
      BY <2>4 DEF CancelResting
    <3>2. order \in Orders /\ order.reserve_qty = 0
      BY <3>1, OutsideUnknown DEF Flat
    <3>3. \A x \in Ids : Accounted(x)'
      <4> HIDE DEF order
      <4> QED BY <1>2, <2>1, <3>1, <3>2, CancelAccounted
    <3> QED BY <1>1, <2>1, <2>2, <3>3
  <2>5. CASE CancelUnknown(id)
    <3>1. \A x \in Ids : Accounted(x)'
      BY <1>2, <2>1, <2>5, UnknownAccounted
    <3> QED BY <1>1, <2>1, <2>2, <3>1
  <2> QED BY <2>1, <2>3, <2>4, <2>5
<1> QED BY <1>3, <1>4

LEMMA TranslateAccounts ==
  ASSUME Inv, Conserved, Accounts, Translate
  PROVE  Accounts'
<1> DEFINE events == translate_result(msg, result, book)
<1>1. /\ Calling /\ Idle /\ out' = events /\ view' = Viewed(view, events)
      /\ mute' = Muted(mute, msg, events)
      /\ UNCHANGED <<book, pending_stops, stack, result, ledger, msg>>
  BY DEF Translate, vars
<1>2. result \in Results /\ ledger \in Entries
  BY DEF Inv, TypeOK, Entries
<1>3. msg.action = "NewOrder" => msg.order \in Orders
  BY DEF Accounts, IsMessage, NoMessage, NewOrder, CancelOrder
<1>4. ASSUME NEW id \in Ids
      PROVE  LET new == msg.action = "NewOrder" /\ result.rejections = <<>> /\ msg.order.id = id
             IN  /\ events # <<>>
                 /\ Names(events, "REJECTED", id) <=> Refused(result, id)
                 /\ Names(events, "ACCEPTED", id) <=> new
                 /\ Settled(result, id) \in Int
                 /\ new => Net(events, id) = Settled(result, id) + msg.order.quantity
                 /\ ~new => Net(events, id) = Settled(result, id)
  BY <1>2, <1>3, TranslateCounted
<1>5. events # <<>>
  BY <1>2, <1>3, TranslateCounted
<1> HIDE DEF events
<1>6. ASSUME NEW id \in Ids
      PROVE  /\ Names(events, "REJECTED", id) => view'[id] = 0
             /\ ~Names(events, "REJECTED", id) /\ Names(events, "ACCEPTED", id) =>
                  view'[id] = 0 + Net(events, id)
             /\ ~Names(events, "REJECTED", id) /\ ~Names(events, "ACCEPTED", id) =>
                  view'[id] = view[id] + Net(events, id)
  <2>1. SumFunction([i \in 1..Len(events) |-> Change(events[i], id)]) = Net(events, id)
    <3>1. DOMAIN Changes(events, id) = 1..Len(events)
      BY DEF Changes
    <3>2. SumFunction(Changes(events, id)) = Net(events, id)
      BY <3>1, Zenon DEF SumFunction, Net, Sum
    <3> QED BY <3>2 DEF Changes
  <2>2. view'[id] = IF Names(events, "REJECTED", id) THEN 0
                    ELSE (IF Names(events, "ACCEPTED", id) THEN 0 ELSE view[id]) + Net(events, id)
    BY <1>1, <2>1 DEF Viewed
  <2> QED BY <2>2
<1>7. ASSUME NEW id \in Ids
      PROVE  Net(events, id) \in Int
  <2>1. msg.action = "NewOrder" => msg.order.quantity \in Nat
    BY <1>3, OrderFields
  <2> QED BY <1>4, <2>1
<1>8. view' \in [Ids -> Int]
  <2>1. \A id \in Ids : view'[id] \in Int
    BY <1>6, <1>7 DEF Accounts
  <2>2. view' = [id \in Ids |-> view'[id]]
    BY <1>1 DEF Viewed
  <2> QED BY <2>1, <2>2
<1>9. ~Calling' /\ Idle' /\ IsMessage(msg')
  BY <1>1, <1>5 DEF Calling, Idle, Accounts
<1>10. ASSUME NEW id \in Ids \ mute' PROVE view'[id] = Left(ledger'[id])
  <2>1. Accounted(id) /\ Left(ledger[id]) \in Int /\ ledger' = ledger
    BY <1>1, <1>2, LeftType DEF Accounts
  <2>2. CASE Refused(result, id)
    <3>1. Departed(id)
      BY <2>1, <2>2 DEF Accounted
    <3>2. Left(ledger[id]) = 0
      BY <3>1 DEF Departed, Conserved, Balanced
    <3> QED BY <1>4, <1>6, <2>1, <2>2, <3>2
  <2>3. CASE ~Refused(result, id)
    <3>1. Answerable(msg, mute, id) => Left(ledger[id]) = Due(msg, view, id) + Settled(result, id)
      BY <2>1, <2>3 DEF Accounted
    <3>2. ~Names(events, "REJECTED", id)
      BY <1>4, <2>3
    <3>3. CASE Names(events, "ACCEPTED", id)
      <4>1. /\ Submits(msg, id) /\ msg.order.quantity \in Nat
            /\ Net(events, id) = Settled(result, id) + msg.order.quantity
            /\ Settled(result, id) \in Int
        BY <1>3, <1>4, <3>3, OrderFields DEF Submits
      <4>2. Left(ledger[id]) = msg.order.quantity + Settled(result, id)
        BY <3>1, <4>1 DEF Answerable, Due
      <4>3. view'[id] = 0 + Net(events, id)
        BY <1>6, <3>2, <3>3
      <4> QED BY <2>1, <4>1, <4>2, <4>3
    <3>4. CASE ~Names(events, "ACCEPTED", id)
      <4>1. id \notin mute /\ ~Submits(msg, id)
        BY <1>1, <3>2, <3>4 DEF Muted, Submits
      <4>2. Net(events, id) = Settled(result, id)
        BY <1>4, <3>4
      <4>3. Left(ledger[id]) = view[id] + Settled(result, id)
        BY <3>1, <4>1 DEF Answerable, Due
      <4>4. view'[id] = view[id] + Net(events, id)
        BY <1>6, <3>2, <3>4
      <4> QED BY <2>1, <4>2, <4>3, <4>4
    <3> QED BY <3>3, <3>4
  <2> QED BY <2>2, <2>3
<1> QED BY <1>8, <1>9, <1>10 DEF Accounts

LEMMA StepAccounts ==
  ASSUME Inv, Accounts, EngineStep
  PROVE  Accounts'
<1>1. Step /\ UNCHANGED <<msg, out, view, mute>>
  BY DEF EngineStep
<1>2. ~Idle
  BY <1>1 DEF Step, Fill, TriggerStop, KeepStop, FinishResting, FinishExhausted, FinishFilled,
             LoopEnded, Matching, Evaluating
<1>3. Calling /\ Calling'
  BY <1>1, <1>2 DEF Accounts, Calling
<1>4. view \in [Ids -> Int] /\ IsMessage(msg) /\ \A id \in Ids : Accounted(id)
  BY <1>3 DEF Accounts
<1>5. \A id \in Ids : Accounted(id)'
  BY <1>1, <1>4, StepAccounted
<1> QED BY <1>1, <1>3, <1>4, <1>5 DEF Accounts

Reconciled == Conserved /\ Separated /\ Flat /\ Accounts

LEMMA PlainPeaksFit ==
  ASSUME NoIcebergs
  PROVE  PeaksFit
BY DEF NoIcebergs, PeaksFit

LEMMA ManagerReconciled ==
  ASSUME "ids" \in Discipline, NoIcebergs, Inv, Reconciled, [ManagerNext]_exchangeVars
  PROVE  Reconciled'
<1>0. Conserved /\ Separated /\ Flat /\ Accounts /\ PeaksFit
  BY PlainPeaksFit DEF Reconciled
<1>1. ASSUME \/ \E id \in Ids, t \in NewOrders : ProcessNew(WithId(t, id))
             \/ \E id \in Ids : ProcessCancel(id)
      PROVE  Reconciled'
  <2>1. Submit
    BY <1>1 DEF ProcessNew, ProcessCancel, Process, Submit
  <2>2. Conserved' /\ Separated' /\ Flat'
    BY <1>0, <2>1, SubmitConserves, SubmitSeparated, SubmitFlat
  <2>3. Accounts'
    BY <1>0, <1>1, ProcessAccounts
  <2> QED BY <2>2, <2>3 DEF Reconciled
<1>2. CASE EngineStep
  <2>1. Step
    BY <1>2 DEF EngineStep
  <2>2. Conserved'
    <3>1. CASE KeepStop
      BY <1>0, <3>1, KeepEffect DEF Conserved, Outside
    <3> QED BY <1>0, <2>1, <3>1, FillConserves, TriggerConserves, FinishConserves DEF Step
  <2>3. Separated' /\ Flat'
    BY <1>0, <2>1, StepSeparated, StepFlat
  <2>4. Accounts'
    BY <1>0, <1>2, StepAccounts
  <2> QED BY <2>2, <2>3, <2>4 DEF Reconciled
<1>3. ASSUME UNCHANGED vars PROVE Conserved' /\ Separated' /\ Flat'
  BY <1>0, <1>3 DEF vars, Conserved, Separated, Flat
<1>4. CASE Translate
  <2>1. UNCHANGED vars
    BY <1>4 DEF Translate
  <2>2. Accounts'
    BY <1>0, <1>4, TranslateAccounts
  <2> QED BY <1>3, <2>1, <2>2 DEF Reconciled
<1>5. CASE TakeSnapshot
  <2>1. ~Calling /\ msg' = NoMessage /\ UNCHANGED <<vars, view, mute>>
    BY <1>5 DEF TakeSnapshot
  <2>2. Accounts'
    BY <1>0, <2>1 DEF Accounts, Calling, IsMessage, vars, Idle
  <2> QED BY <1>3, <2>1, <2>2 DEF Reconciled
<1>6. CASE UNCHANGED exchangeVars
  <2>1. UNCHANGED <<vars, msg, out, view, mute>>
    BY <1>6 DEF exchangeVars
  <2>2. UNCHANGED <<book, pending_stops, stack, result, ledger>>
    BY <2>1 DEF vars
  <2>3. Accounts'
    BY <1>0, <2>1, <2>2 DEF Accounts, Calling, Idle, Accounted, Departed
  <2> QED BY <1>3, <2>1, <2>3 DEF Reconciled
<1> QED BY <1>1, <1>2, <1>4, <1>5, <1>6 DEF ManagerNext

LEMMA InitReconciled ==
  ASSUME ManagerInit
  PROVE  Inv /\ Reconciled
<1>1. Init /\ msg = NoMessage /\ view = [id \in Ids |-> 0] /\ mute = {}
  BY DEF ManagerInit
<1>2. Inv /\ Conserved
  BY <1>1, InitInv, InitConserves
<1>3. (\A id : ~has_order(book, id)) /\ stack = <<>> /\ pending_stops = <<>>
  BY <1>1 DEF Init, EmptyBook, EmptyMap, has_order
<1>4. Flat /\ Separated
  <2>1. Waiting(pending_stops, stack) = {} /\ Active(stack) = {}
    BY <1>3, MembersEmpty DEF Waiting
  <2> QED BY <1>3, <2>1 DEF Flat, Separated, Plain, Uncrossed
<1>5. \A id \in Ids : Left(ledger[id]) = 0
  BY <1>1 DEF Init, Left, NoEntry
<1>6. Accounts
  BY <1>1, <1>3, <1>5 DEF Accounts, Calling, IsMessage, Idle
<1> QED BY <1>2, <1>4, <1>6 DEF Reconciled

(* The event stream is complete, whatever the clients send (new orders     *)
(* without hidden reserve, cancels of anything), however far the stops     *)
(* cascade: the subscriber's open quantity of an answered order is the     *)
(* engine's, between any two calls.                                        *)
THEOREM StreamComplete ==
  ASSUME "ids" \in Discipline, NoIcebergs
  PROVE  ManagerSpec => []StreamAccounts
<1>1. ManagerInit => Inv /\ Reconciled
  BY InitReconciled
<1>2. Inv /\ Reconciled /\ [ManagerNext]_exchangeVars => Inv' /\ Reconciled'
  BY ManagerStep, GatewayNextInv, ManagerReconciled
<1>3. Inv /\ Reconciled => StreamAccounts
  <2> SUFFICES ASSUME Inv, Reconciled, ~Calling, NEW id \in Ids \ mute
               PROVE  OpenIs(id, view[id])
    BY DEF StreamAccounts
  <2>1. view[id] = Left(ledger[id])
    BY DEF Reconciled, Accounts
  <2>2. OpenIs(id, ledger[id].orig - ledger[id].filled - ledger[id].gone)
    BY ConservedIsConserved DEF Reconciled, QuantityConserved
  <2> QED BY <2>1, <2>2 DEF Left
<1> QED BY <1>1, <1>2, <1>3, PTL DEF ManagerSpec

-----------------------------------------------------------------------------
(* The snapshot.  It is published between two calls and shows the book as  *)
(* it is until the next call.                                              *)
Pictured ==
  \A i \in 1..Len(out) : out[i].kind = "SNAPSHOT" =>
    out[i].bids = Depth(book, Buy) /\ out[i].asks = Depth(book, Sell)

LEMMA ManagerPictured ==
  ASSUME Inv, Accounts, Pictured, [ManagerNext]_exchangeVars
  PROVE  Pictured'
<1>1. ASSUME out' = <<>> PROVE Pictured'
  BY <1>1 DEF Pictured
<1>2. ASSUME NEW id, ProcessCancel(id) PROVE Pictured'
  BY <1>1, <1>2 DEF ProcessCancel, Process
<1>3. ASSUME NEW order, ProcessNew(order) PROVE Pictured'
  BY <1>1, <1>3 DEF ProcessNew, Process
<1>4. CASE EngineStep
  <2>1. Step /\ UNCHANGED <<msg, out>>
    BY <1>4 DEF EngineStep
  <2>2. ~Idle
    BY <2>1 DEF Step, Fill, TriggerStop, KeepStop, FinishResting, FinishExhausted,
               FinishFilled, LoopEnded, Matching, Evaluating
  <2>3. out' = <<>>
    BY <2>1, <2>2 DEF Accounts, Calling
  <2> QED BY <1>1, <2>3
<1>5. CASE Translate
  <2> DEFINE events == translate_result(msg, result, book)
  <2>1. out' = events
    BY <1>5 DEF Translate
  <2>2. result \in Results /\ (msg.action = "NewOrder" => msg.order \in Orders)
    BY DEF Inv, TypeOK, Accounts, IsMessage, NoMessage, NewOrder, CancelOrder
  <2>3. \A id : ~Names(events, "SNAPSHOT", id)
    BY <2>2, TranslateCounted
  <2> HIDE DEF events
  <2>4. \A i \in 1..Len(events) : events[i].kind # "SNAPSHOT"
    BY <2>3 DEF Names
  <2> QED BY <2>1, <2>4 DEF Pictured
<1>6. CASE TakeSnapshot
  <2> DEFINE e == snapshot(book)
  <2>1. out' = <<e>> /\ book' = book
    BY <1>6 DEF TakeSnapshot, vars
  <2>2. e.bids = Depth(book, Buy) /\ e.asks = Depth(book, Sell)
    BY DEF snapshot
  <2> HIDE DEF e
  <2>3. Len(out') = 1 /\ out'[1] = e /\ \A i \in 1..1 : i = 1
    BY <2>1
  <2> QED BY <2>1, <2>2, <2>3 DEF Pictured
<1>7. CASE UNCHANGED exchangeVars
  BY <1>7 DEF exchangeVars, vars, Pictured
<1> QED BY <1>2, <1>3, <1>4, <1>5, <1>6, <1>7 DEF ManagerNext

(* A side of the book, seen from between two calls. *)
LEMMA DepthShowsOpen ==
  ASSUME Inv, Reconciled, Peakless, Covered(book), ~Calling, NEW side \in Sides
  PROVE  DepthIsOpen(side, Depth(book, side))
<1> DEFINE depth == Depth(book, side)
<1>1. DOMAIN depth = DOMAIN book.levels[side] /\ Sound(book) /\ IsBook(book)
  BY DEF Depth, Inv, Sound
<1>2. \A p \in DOMAIN depth : p \in Prices
  <2>1. \A p \in DOMAIN book.levels[side] : HasLevel(book, side, p)
    BY DEF HasLevel
  <2> QED BY <1>1, <2>1, LevelType
<1>3. ASSUME NEW p PROVE RestingAt(side, p) = Located(book, side, p)
  BY DEF RestingAt, Located
<1>4. ASSUME NEW p \in DOMAIN depth PROVE RestingAt(side, p) # {}
  BY <1>1, <1>2, <1>3 DEF Sound, LevelSound, HasLevel
<1>5. ASSUME NEW p \in Prices, RestingAt(side, p) # {}
      PROVE  /\ p \in DOMAIN depth
             /\ depth[p] >= SumFunctionOnSet(view, RestingAt(side, p) \ mute)
  <2> DEFINE S == RestingAt(side, p)
             R == S \ mute
             g == Visible(book)
             volume == VolumeAt(book, side, p)
  <2>1. p \in DOMAIN depth
    BY <1>1, <1>3, <1>5 DEF Sound, LevelSound, HasLevel
  <2>2. depth[p] = volume
    BY <1>1, <2>1 DEF Depth, VolumeAt, HasLevel
  <2>3. volume >= Sum(g, S) /\ IsFiniteSet(S) /\ IntOn(g, S) /\ volume \in Nat
    <3>1. S = Located(book, side, p)
      BY <1>3
    <3> QED BY <1>1, <3>1, LocatedFinite DEF Covered, CoveredAt
  <2>4. ASSUME NEW id \in S
        PROVE  g[id] \in Nat /\ (id \in R => g[id] = view[id])
    <3> DEFINE o == book.id_map[id]
    <3>1. has_order(book, id)
      BY DEF RestingAt, has_order
    <3>2. o \in Orders /\ id \in Ids /\ o.quantity \in Nat /\ o.reserve_qty = 0 /\ o.peak_qty = 0
      BY <3>1, OutsideUnknown, OrderFields DEF Reconciled, Flat, Peakless
    <3>3. g[id] = visible_qty(o)
      BY <3>1 DEF Visible, has_order
    <3>4. Open(o) = Left(ledger[id])
      BY <3>1, <3>2 DEF Reconciled, Conserved, Balanced
    <3>5. id \in R => view[id] = Left(ledger[id])
      BY <3>2 DEF Reconciled, Accounts
    <3> HIDE DEF o, g
    <3>6. visible_qty(o) = o.quantity /\ Open(o) = o.quantity
      BY <3>2 DEF visible_qty, is_iceberg, Open
    <3> QED BY <3>2, <3>3, <3>4, <3>5, <3>6
  <2> HIDE DEF g, S, volume
  <2>5. R \in SUBSET S /\ \A x \in S \ R : g[x] >= 0
    BY <2>4
  <2> HIDE DEF R
  <2>6. Sum(g, R) <= Sum(g, S)
    BY <2>3, <2>5, SumSubset
  <2>7. IsFiniteSet(R) /\ IntOn(g, R)
    BY <2>3, <2>5, FS_Subset DEF IntOn
  <2>8. Sum(g, R) = Sum(view, R)
    BY <2>4, <2>5, <2>7, SumSame
  <2>9. Sum(g, R) \in Int /\ Sum(g, S) \in Int
    BY <2>3, <2>7, SumType
  <2>10. volume >= Sum(view, R)
    BY <2>3, <2>6, <2>8, <2>9
  <2> QED BY <2>1, <2>2, <2>10 DEF Sum, R, S
<1> QED BY <1>4, <1>5 DEF DepthIsOpen

(* A snapshot never hides an order: it lists exactly the prices at which   *)
(* an order rests, with at least what the subscribers of the event stream  *)
(* take to be open there.  The clients use no icebergs and no peaks.       *)
THEOREM SnapshotComplete ==
  ASSUME "ids" \in Discipline, NoIcebergs, NoPeaks
  PROVE  ManagerSpec => []SnapshotShowsOpen
<1> DEFINE I == Inv /\ Reconciled /\ Peakless /\ Covered(book) /\ Pictured
<1>1. ManagerInit => I
  <2> SUFFICES ASSUME ManagerInit PROVE I
    OBVIOUS
  <2>1. Init /\ out = <<>>
    BY DEF ManagerInit
  <2> QED BY <2>1, InitReconciled, InitCovers DEF Pictured
<1>2. I /\ [ManagerNext]_exchangeVars => I'
  <2> SUFFICES ASSUME I, [ManagerNext]_exchangeVars PROVE I'
    OBVIOUS
  <2>1. [GatewayNext]_vars
    BY ManagerStep
  <2>2. Inv' /\ Reconciled'
    BY <2>1, GatewayNextInv, ManagerReconciled
  <2>3. Peakless' /\ Covered(book)'
    <3>1. CASE UNCHANGED vars
      BY <3>1 DEF vars, Peakless
    <3> QED BY <2>1, <3>1, SubmitCovers, StepCovers DEF GatewayNext
  <2>4. Pictured'
    BY ManagerPictured DEF Reconciled
  <2> QED BY <2>2, <2>3, <2>4
<1>3. I => SnapshotShowsOpen
  <2> SUFFICES ASSUME I, NEW i \in 1..Len(out), out[i].kind = "SNAPSHOT"
               PROVE  DepthIsOpen(Buy, out[i].bids) /\ DepthIsOpen(Sell, out[i].asks)
    BY DEF SnapshotShowsOpen
  <2>1. ~Calling
    BY DEF Calling
  <2>2. Buy \in Sides /\ Sell \in Sides
    BY DEF Sides
  <2> QED BY <2>1, <2>2, DepthShowsOpen DEF Pictured
<1> QED BY <1>1, <1>2, <1>3, PTL DEF ManagerSpec

-----------------------------------------------------------------------------
(* Every new order is named in an event of its call.  Until the order has  *)
(* traded, the call is alone with it: no stop has been evaluated, so every *)
(* activation and every rejection is its own.                              *)
HasTraded(res, id) == \E i \in 1..Len(res.trades) : res.trades[i].aggressor_id = id
Alone(st, res, id) ==
  /\ \A f \in 1..Len(st) : st[f].order.id = id /\ st[f].working = <<>>
  /\ \A i \in 1..Len(res.rejections) : res.rejections[i].order_id = id
Followed ==
  /\ msg.action = "NewOrder" => msg.order \in Orders
  /\ Calling /\ msg.action = "NewOrder" =>
       HasTraded(result, msg.order.id) \/ Alone(stack, result, msg.order.id)

LEMMA ConcatCarries ==
  ASSUME NEW S, NEW s \in Seq(S), NEW t \in Seq(S)
  PROVE  /\ s \o t \in Seq(S)
         /\ \A i \in 1..Len(s) : i \in 1..Len(s \o t) /\ (s \o t)[i] = s[i]
         /\ \A i \in 1..Len(t) : i + Len(s) \in 1..Len(s \o t) /\ (s \o t)[i + Len(s)] = t[i]
<1> DEFINE c == s \o t
           m == Len(s)
           n == Len(t)
<1>1. c \in Seq(S) /\ m \in Nat /\ n \in Nat /\ Len(c) = m + n
  OBVIOUS
<1>2. \A i \in 1..m : c[i] = s[i]
  OBVIOUS
<1>3. \A i \in 1..n : c[i + m] = t[i]
  OBVIOUS
<1> HIDE DEF c, m, n
<1>4. /\ \A i \in 1..m : i \in 1..(m + n)
      /\ \A i \in 1..n : i + m \in 1..(m + n)
  BY <1>1
<1>5. /\ \A i \in 1..m : i \in 1..Len(c) /\ c[i] = s[i]
      /\ \A i \in 1..n : i + m \in 1..Len(c) /\ c[i + m] = t[i]
  BY <1>1, <1>2, <1>3, <1>4
<1> QED BY <1>1, <1>5 DEF c, m, n

LEMMA EventsType ==
  ASSUME NEW S, NEW n \in Nat, NEW s, s = [i \in 1..n |-> s[i]], \A i \in 1..n : s[i] \in S
  PROVE  s \in Seq(S) /\ Len(s) = n
<1>1. s \in [1..n -> S]
  OBVIOUS
<1> QED BY <1>1

(* translate_result publishes every trade of the result. *)
LEMMA TranslateTrades ==
  ASSUME NEW res \in Results, NEW m, NEW b, NEW i \in 1..Len(res.trades)
  PROVE  LET events == translate_result(m, res, b)
         IN  \E k \in 1..Len(events) : events[k] = TradeEvent(res.trades[i])
<1> DEFINE rejected  == Each(RejectedEvent, res.rejections)
           canceled  == Each(CanceledEvent, res.reports)
           traded    == Each(TradeEvent, res.trades)
           accepted_ == IF m.action = "NewOrder" /\ res.rejections = <<>>
                        THEN <<AcceptedEvent(m.order)>> ELSE <<>>
           last      == <<BookEvent(b)>>
           S == {rejected[j] : j \in 1..Len(res.rejections)}
                  \cup {canceled[j] : j \in 1..Len(res.reports)}
                  \cup {traded[j] : j \in 1..Len(res.trades)}
                  \cup {AcceptedEvent(m.order), BookEvent(b)}
<1>1. /\ Len(res.rejections) \in Nat /\ Len(res.reports) \in Nat /\ Len(res.trades) \in Nat
  BY DEF Results
<1>2. /\ rejected = [j \in 1..Len(res.rejections) |-> rejected[j]]
      /\ canceled = [j \in 1..Len(res.reports) |-> canceled[j]]
      /\ traded = [j \in 1..Len(res.trades) |-> traded[j]]
      /\ traded[i] = TradeEvent(res.trades[i])
  BY DEF Each
<1>3. translate_result(m, res, b) = rejected \o canceled \o traded \o accepted_ \o last
  BY DEF translate_result
<1>4. accepted_ \in Seq(S) /\ last \in Seq(S)
  <2>1. AcceptedEvent(m.order) \in S /\ BookEvent(b) \in S
    OBVIOUS
  <2> HIDE DEF S
  <2>2. <<AcceptedEvent(m.order)>> \in Seq(S) /\ <<>> \in Seq(S)
    BY <2>1
  <2> QED BY <2>1, <2>2
<1> HIDE DEF rejected, canceled, traded, accepted_, last
<1>5. /\ \A j \in 1..Len(res.rejections) : rejected[j] \in S
      /\ \A j \in 1..Len(res.reports) : canceled[j] \in S
      /\ \A j \in 1..Len(res.trades) : traded[j] \in S
  OBVIOUS
<1> HIDE DEF S
<1>6. rejected \in Seq(S) /\ canceled \in Seq(S) /\ traded \in Seq(S) /\ Len(traded) = Len(res.trades)
  BY <1>1, <1>2, <1>5, EventsType
<1> DEFINE before == rejected \o canceled
           k == i + Len(before)
           upto  == before \o traded
           most  == upto \o accepted_
<1>7. before \in Seq(S)
  BY <1>6, ConcatCarries
<1> HIDE DEF before
<1>8. upto \in Seq(S) /\ k \in 1..Len(upto) /\ upto[k] = traded[i]
  BY <1>6, <1>7, ConcatCarries
<1> HIDE DEF upto, k
<1>9. most \in Seq(S) /\ k \in 1..Len(most) /\ most[k] = traded[i]
  BY <1>4, <1>8, ConcatCarries
<1> HIDE DEF most
<1>10. k \in 1..Len(most \o last) /\ (most \o last)[k] = traded[i]
  BY <1>4, <1>9, ConcatCarries
<1>11. translate_result(m, res, b) = most \o last
  BY <1>3 DEF before, upto, most
<1> QED BY <1>2, <1>10, <1>11

LEMMA StepFollowed ==
  ASSUME Inv, NEW id, HasTraded(result, id) \/ Alone(stack, result, id), Step
  PROVE  HasTraded(result', id) \/ Alone(stack', result', id)
<1>1. /\ result \in Results /\ result.trades \in Seq(Trades)
      /\ result.rejections \in Seq(Rejections) /\ stack \in Seq(Frames)
  BY DEF Inv, TypeOK, Results
<1>2. CASE Fill
  <2>1. PICK p \in Ids, qty \in Nat : Fills(p, qty)
    BY <1>2, FillEffect
  <2> DEFINE trade == [aggressor_id |-> Top.order.id, passive_id |-> p,
                       price |-> book.id_map[p].price, quantity |-> qty,
                       aggressor_side |-> Top.order.side]
  <2>2. result' = [result EXCEPT !.trades = Append(result.trades, trade)]
    BY <2>1 DEF Fills
  <2>3. result'.trades = Append(result.trades, trade)
    BY <1>1, <2>2 DEF Results
  <2>4. trade.aggressor_id = Top.order.id
    OBVIOUS
  <2> HIDE DEF trade
  <2>5. /\ Len(result'.trades) = Len(result.trades) + 1 /\ Len(result.trades) \in Nat
        /\ \A i \in 1..Len(result.trades) : result'.trades[i] = result.trades[i]
        /\ result'.trades[Len(result.trades) + 1] = trade
    BY <1>1, <2>3, AppendProperties
  <2>6. CASE HasTraded(result, id)
    <3>1. PICK i \in 1..Len(result.trades) : result.trades[i].aggressor_id = id
      BY <2>6 DEF HasTraded
    <3>2. i \in 1..Len(result'.trades) /\ result'.trades[i].aggressor_id = id
      BY <2>5, <3>1
    <3> QED BY <3>2 DEF HasTraded
  <2>7. CASE Alone(stack, result, id)
    <3>1. stack # <<>>
      BY <1>2 DEF Fill, Matching, Idle
    <3>2. 1 \in 1..Len(stack)
      BY <1>1, <3>1
    <3>3. Top.order.id = id
      BY <2>7, <3>2 DEF Alone, Top
    <3>4. Len(result.trades) + 1 \in 1..Len(result'.trades)
      BY <2>5
    <3> QED BY <2>4, <2>5, <3>3, <3>4 DEF HasTraded
  <2> QED BY <2>6, <2>7
<1>3. CASE TriggerStop \/ KeepStop
  <2>1. result' = result /\ stack # <<>> /\ Top.working # <<>>
    BY <1>3 DEF TriggerStop, KeepStop, Evaluating, Idle
  <2>2. 1 \in 1..Len(stack)
    BY <1>1, <2>1
  <2>3. ~Alone(stack, result, id)
    BY <2>1, <2>2 DEF Alone, Top
  <2> QED BY <2>1, <2>3
<1>4. CASE FinishResting \/ FinishExhausted \/ FinishFilled
  <2>1. stack' = Tail(stack) /\ stack # <<>>
    BY <1>4 DEF FinishResting, FinishExhausted, FinishFilled, LoopEnded, Matching, Idle
  <2>2. /\ Len(Tail(stack)) = Len(stack) - 1 /\ Len(stack) \in Nat \ {0}
        /\ \A f \in 1..(Len(stack) - 1) : Tail(stack)[f] = stack[f + 1]
    BY <1>1, <2>1, HeadTailProperties
  <2>3. \A f \in 1..Len(stack') : stack'[f] = stack[f + 1] /\ f + 1 \in 1..Len(stack)
    BY <2>1, <2>2
  <2>4. 1 \in 1..Len(stack)
    BY <2>2
  <2>5. CASE result' = result
    BY <2>3, <2>5 DEF Alone
  <2>6. CASE FinishExhausted
    <3> DEFINE r == Rejected(Top.order.id, "MarketExhausted")
    <3>1. result' = [result EXCEPT !.rejections = Append(result.rejections, r)]
      BY <2>6 DEF FinishExhausted
    <3>2. result'.trades = result.trades /\ result'.rejections = Append(result.rejections, r)
      BY <1>1, <3>1 DEF Results
    <3>3. r.order_id = Top.order.id
      BY DEF Rejected
    <3> HIDE DEF r
    <3>4. /\ Len(result'.rejections) = Len(result.rejections) + 1
          /\ Len(result.rejections) \in Nat
          /\ \A i \in 1..Len(result.rejections) : result'.rejections[i] = result.rejections[i]
          /\ result'.rejections[Len(result.rejections) + 1] = r
      BY <1>1, <3>2, AppendProperties
    <3>5. \A i \in 1..Len(result'.rejections) :
             i \in 1..Len(result.rejections) \/ i = Len(result.rejections) + 1
      BY <3>4
    <3>6. CASE HasTraded(result, id)
      BY <3>2, <3>6 DEF HasTraded
    <3>7. CASE Alone(stack, result, id)
      <4>1. Top.order.id = id
        BY <2>4, <3>7 DEF Alone, Top
      <4>2. \A i \in 1..Len(result'.rejections) : result'.rejections[i].order_id = id
        BY <3>3, <3>4, <3>5, <3>7, <4>1 DEF Alone
      <4> QED BY <2>3, <3>7, <4>2 DEF Alone
    <3> QED BY <3>6, <3>7
  <2> QED BY <1>4, <2>5, <2>6 DEF FinishResting, FinishFilled
<1> QED BY <1>2, <1>3, <1>4 DEF Step

LEMMA TranslateHeard ==
  ASSUME Inv, Followed, Translate
  PROVE  EveryOrderHeard'
<1> DEFINE events == translate_result(msg, result, book)
           id == msg.order.id
<1>1. Calling /\ Idle /\ out' = events /\ msg' = msg /\ mute' = Muted(mute, msg, events)
  BY DEF Translate, vars
<1>2. result \in Results /\ result.rejections \in Seq(Rejections)
  BY DEF Inv, TypeOK, Results
<1>3. SUFFICES ASSUME msg.action = "NewOrder"
               PROVE  \/ \E kind \in {"ACCEPTED", "REJECTED"} : Names(events, kind, id)
                      \/ /\ id \in mute'
                         /\ \E k \in 1..Len(events) :
                              /\ events[k].kind = "TRADE"
                              /\ id \in {events[k].buy_order_id, events[k].sell_order_id}
  BY <1>1 DEF EveryOrderHeard
<1>4. msg.order \in Orders
  BY <1>3 DEF Followed
<1>5. /\ Names(events, "REJECTED", id) <=> Refused(result, id)
      /\ Names(events, "ACCEPTED", id) <=> result.rejections = <<>>
  BY <1>2, <1>3, <1>4, TranslateCounted
<1>6. CASE HasTraded(result, id)
  <2>1. PICK i \in 1..Len(result.trades) : result.trades[i].aggressor_id = id
    BY <1>6 DEF HasTraded
  <2>2. PICK k \in 1..Len(events) : events[k] = TradeEvent(result.trades[i])
    BY <1>2, <2>1, TranslateTrades
  <2> DEFINE e == TradeEvent(result.trades[i])
  <2>3. e.kind = "TRADE" /\ id \in {e.buy_order_id, e.sell_order_id}
    BY <2>1 DEF TradeEvent
  <2> HIDE DEF e, events, id
  <2>4. (\E kind \in {"ACCEPTED", "REJECTED"} : Names(events, kind, id)) \/ id \in mute'
    BY <1>1, <1>3 DEF Muted, id
  <2> QED BY <2>2, <2>3, <2>4 DEF e
<1>7. CASE Alone(stack, result, id)
  <2>1. CASE result.rejections = <<>>
    BY <1>5, <2>1
  <2>2. CASE result.rejections # <<>>
    <3>1. 1 \in 1..Len(result.rejections)
      BY <1>2, <2>2
    <3>2. Refused(result, id)
      BY <1>7, <3>1 DEF Alone, Refused
    <3> QED BY <1>5, <3>2
  <2> QED BY <2>1, <2>2
<1> QED BY <1>1, <1>3, <1>6, <1>7 DEF Followed

LEMMA ManagerFollowed ==
  ASSUME Inv, Followed, EveryOrderHeard, [ManagerNext]_exchangeVars
  PROVE  Followed' /\ EveryOrderHeard'
<1>1. ASSUME NEW x \in Ids, NEW t \in NewOrders, ProcessNew(WithId(t, x))
      PROVE  Followed' /\ EveryOrderHeard'
  <2> DEFINE order == WithId(t, x)
  <2>1. order \in Orders
    BY WithIdType
  <2> HIDE DEF order
  <2>2. msg' = NewOrder(order) /\ out' = <<>> /\ SubmitNew(order)
    BY <1>1 DEF ProcessNew, Process, order
  <2>3. msg'.action = "NewOrder" /\ msg'.order = order
    BY <2>2 DEF NewOrder
  <2>4. result' = EmptyResult /\ (stack' = <<Enter(order)>> \/ stack' = <<>>)
    BY <2>2 DEF SubmitNew, process_new_order, Idle
  <2>5. result'.rejections = <<>>
    BY <2>4 DEF EmptyResult
  <2>6. Enter(order).order.id = order.id /\ Enter(order).working = <<>>
    BY <2>1, EnterSide DEF Enter, Activation
  <2>7. Alone(stack', result', order.id)
    BY <2>4, <2>5, <2>6 DEF Alone
  <2> QED BY <2>1, <2>2, <2>3, <2>7 DEF Followed, EveryOrderHeard
<1>2. ASSUME msg' = NoMessage \/ \E x \in Ids : msg' = CancelOrder(x)
      PROVE  Followed' /\ EveryOrderHeard'
  <2>1. msg'.action # "NewOrder"
    BY <1>2 DEF NoMessage, CancelOrder
  <2> QED BY <2>1 DEF Followed, EveryOrderHeard
<1>3. ASSUME NEW x \in Ids, ProcessCancel(x) PROVE Followed' /\ EveryOrderHeard'
  BY <1>2, <1>3 DEF ProcessCancel, Process
<1>4. CASE EngineStep
  <2>1. Step /\ UNCHANGED <<msg, out, mute>>
    BY <1>4 DEF EngineStep
  <2>2. Calling' <=> Calling
    BY <2>1 DEF Calling
  <2>3. Followed'
    BY <2>1, <2>2, StepFollowed DEF Followed
  <2> QED BY <2>1, <2>3 DEF EveryOrderHeard
<1>5. CASE Translate
  <2>1. out' # <<>> /\ msg' = msg
    <3>1. /\ out' = translate_result(msg, result, book) /\ msg' = msg /\ result \in Results
      BY <1>5 DEF Translate, Inv, TypeOK
    <3>2. msg.action = "NewOrder" => msg.order \in Orders
      BY DEF Followed
    <3> QED BY <3>1, <3>2, TranslateCounted
  <2>2. Followed'
    BY <2>1 DEF Followed, Calling
  <2> QED BY <1>5, <2>2, TranslateHeard
<1>6. CASE TakeSnapshot
  BY <1>2, <1>6 DEF TakeSnapshot
<1>7. CASE UNCHANGED exchangeVars
  BY <1>7 DEF exchangeVars, vars, Followed, EveryOrderHeard, Calling
<1> QED BY <1>1, <1>3, <1>4, <1>5, <1>6, <1>7 DEF ManagerNext

(* No order disappears: whatever cascade it sets off, a new order is named *)
(* in its own call by an ACCEPTED, by a REJECTED, or by a TRADE when the   *)
(* rejection of a stop it triggered suppresses its ACCEPTED.               *)
THEOREM NoOrderUnheard ==
  ASSUME "ids" \in Discipline
  PROVE  ManagerSpec => []EveryOrderHeard
<1>1. ManagerInit => Inv /\ Followed /\ EveryOrderHeard
  <2> SUFFICES ASSUME ManagerInit PROVE Inv /\ Followed /\ EveryOrderHeard
    OBVIOUS
  <2>1. Init /\ msg = NoMessage
    BY DEF ManagerInit
  <2>2. msg.action # "NewOrder"
    BY <2>1 DEF NoMessage
  <2> QED BY <2>1, <2>2, InitInv DEF Followed, EveryOrderHeard
<1>2. Inv /\ Followed /\ EveryOrderHeard /\ [ManagerNext]_exchangeVars
        => Inv' /\ Followed' /\ EveryOrderHeard'
  BY ManagerStep, GatewayNextInv, ManagerFollowed
<1> QED BY <1>1, <1>2, PTL DEF ManagerSpec

=============================================================================
