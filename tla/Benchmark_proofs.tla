-------------------------- MODULE Benchmark_proofs --------------------------
(***************************************************************************)
(* The benchmark keeps the rule about ids without being told: the          *)
(* generator numbers its orders, so BenchmarkSpec needs no Discipline.     *)
(*                                                                         *)
(* The invariant relates the generator's list of live orders to the        *)
(* engine: every order in the book or in flight is on the list once, and   *)
(* of an order on the list nothing was withdrawn.  Conserved then says     *)
(* that an order on the list that the engine does not know has traded in   *)
(* full, which is the only reason for a rejected cancellation.             *)
(*                                                                         *)
(* The second part is about the latencies: the buckets cover them without  *)
(* gaps and in order, count them, and so the percentiles are the latencies *)
(* of their ranks, up to the resolution.                                   *)
(***************************************************************************)
EXTENDS Benchmark, EngineTotals_proofs

Distinct(seq) == \A i, j \in 1..Len(seq) : seq[i] = seq[j] => i = j

(* The generator: ids are below the next one and drawn from a list without *)
(* repetitions.                                                            *)
Generated ==
  /\ next_order_id \in Nat \ {0} /\ event_count \in 0..MaxEvents
  /\ next_order_id <= event_count + 1
  /\ live_orders \in Seq(Nat) /\ Distinct(live_orders)
  /\ \A id \in Members(live_orders) : 1 <= id /\ id < next_order_id

(* No level has an entry, dead or alive, of an id still to come. *)
Fresh == \A n \in Nat : n >= next_order_id => Absent(book, n)

(* All orders are limit orders. *)
Limits ==
  /\ Waiting(pending_stops, stack) = {}
  /\ \A o \in Active(stack) : o.type = "Limit"

(* Every order the engine knows is on the list. *)
Tracked ==
  /\ \A o \in Outside(pending_stops, stack) : o.id \in Members(live_orders)
  /\ \A id : has_order(book, id) => id \in Members(live_orders)

(* An order on the list has not been cancelled. *)
Unspent ==
  \A id \in Members(live_orders) : ledger[id].orig > 0 /\ ledger[id].gone = 0

(* A call that is still running has rejected nothing. *)
Quiet == result.rejections # <<>> => Idle

BenchmarkInv ==
  /\ Inv /\ Conserved
  /\ Generated /\ Fresh /\ Limits /\ Tracked /\ Unspent
  /\ Quiet /\ OnlyFilledRejected

-----------------------------------------------------------------------------
(* Swap-and-pop takes out the chosen element and no other. *)
LEMMA WithoutOrderMembers ==
  ASSUME NEW seq \in Seq(Nat), Distinct(seq), NEW idx \in 1..Len(seq)
  PROVE  LET rest == WithoutOrder(seq, idx)
         IN  /\ rest \in Seq(Nat) /\ Distinct(rest)
             /\ Members(rest) = Members(seq) \ {seq[idx]}
<1> DEFINE n    == Len(seq)
           swap == [seq EXCEPT ![idx] = seq[n]]
           rest == SubSeq(swap, 1, n - 1)
<1>1. n \in Nat \ {0} /\ idx \in 1..n /\ \A i \in 1..n : seq[i] \in Nat
  BY ElementOfSeq
<1>2. swap \in Seq(Nat) /\ Len(swap) = n
  BY <1>1
<1>3. \A i \in 1..n : swap[i] = IF i = idx THEN seq[n] ELSE seq[i]
  BY <1>1
<1>4. WithoutOrder(seq, idx) = rest
  BY <1>2 DEF WithoutOrder, Front, Last
<1> HIDE DEF swap
<1>5. rest \in Seq(Nat) /\ Len(rest) = n - 1 /\ \A i \in 1..n - 1 : rest[i] = swap[i]
  <2>1. 1 \in Int /\ n - 1 \in Int /\ \A i \in 1..(n - 1) : swap[i] \in Nat
    <3> HIDE DEF n, rest
    <3>1. \A i \in 1..(n - 1) : i \in 1..n
      BY <1>1
    <3> QED BY <1>1, <1>2, <3>1, ElementOfSeq
  <2>2. /\ rest \in Seq(Nat)
        /\ Len(rest) = IF 1 <= n - 1 THEN (n - 1) - 1 + 1 ELSE 0
        /\ \A i \in 1..((n - 1) - 1 + 1) : rest[i] = swap[1 + i - 1]
    BY <2>1, SubSeqProperties
  <2> HIDE DEF rest, n
  <2> QED BY <1>1, <2>2
<1> HIDE DEF rest, n
<1>6. \A i \in 1..n - 1 : i \in 1..n /\ rest[i] = IF i = idx THEN seq[n] ELSE seq[i]
  BY <1>1, <1>3, <1>5
<1>7. \A i, j \in 1..n : seq[i] = seq[j] => i = j
  BY DEF Distinct, n
<1>8. Distinct(rest)
  <2>1. ASSUME NEW i \in 1..n - 1, NEW j \in 1..n - 1, rest[i] = rest[j]
        PROVE  i = j
    <3>1. i \in 1..n /\ j \in 1..n /\ i # n /\ j # n /\ n \in 1..n
      BY <1>1
    <3> QED BY <1>6, <1>7, <2>1, <3>1
  <2> QED BY <1>5, <2>1 DEF Distinct
<1>9. \A i \in 1..n - 1 : rest[i] \in Members(seq) \ {seq[idx]}
  <2>1. SUFFICES ASSUME NEW i \in 1..n - 1
                 PROVE  rest[i] \in Members(seq) \ {seq[idx]}
    OBVIOUS
  <2>2. i \in 1..n /\ n \in 1..n /\ i # n
    BY <1>1
  <2>3. \A k \in 1..n : seq[k] \in Members(seq)
    BY DEF Members, n
  <2> QED BY <1>1, <1>6, <1>7, <2>2, <2>3
<1>10. ASSUME NEW i \in 1..n, i # idx
       PROVE  \E j \in 1..n - 1 : rest[j] = seq[i]
  <2>1. CASE i = n
    <3>1. idx \in 1..n - 1
      BY <1>1, <1>10, <2>1
    <3> QED BY <1>6, <2>1, <3>1
  <2>2. CASE i # n
    <3>1. i \in 1..n - 1
      BY <1>1, <1>10, <2>2
    <3> QED BY <1>6, <1>10, <3>1
  <2> QED BY <2>1, <2>2
<1>11. Members(rest) = Members(seq) \ {seq[idx]}
  <2>1. Members(rest) = {rest[j] : j \in 1..n - 1} /\ Members(seq) = {seq[i] : i \in 1..n}
    BY <1>5 DEF Members, n
  <2>2. Members(rest) \subseteq Members(seq) \ {seq[idx]}
    BY <1>9, <2>1
  <2>3. ASSUME NEW x \in Members(seq), x # seq[idx] PROVE x \in Members(rest)
    <3>1. PICK i \in 1..n : x = seq[i]
      BY <2>1
    <3>2. PICK j \in 1..n - 1 : rest[j] = seq[i]
      BY <1>10, <2>3, <3>1
    <3> QED BY <2>1, <3>1, <3>2
  <2> QED BY <2>2, <2>3
<1> QED BY <1>4, <1>5, <1>8, <1>11

(* The generator's orders are orders. *)
LEMMA PricesDrawn ==
  ASSUME NEW side \in Sides, NEW price \in GeneratorPrices(side)
  PROVE  market_maker_mode \in BOOLEAN => price \in Prices
<1> SUFFICES ASSUME market_maker_mode \in BOOLEAN PROVE price \in Prices
  OBVIOUS
<1>1. CASE ~market_maker_mode
  <2>1. GeneratorPrices(side) = {IF MidPrice + d >= 1 THEN MidPrice + d ELSE 1 : d \in Offsets}
    BY <1>1 DEF GeneratorPrices
  <2> QED BY <2>1, DomainsAssumption
<1>2. CASE market_maker_mode
  <2>1. \/ GeneratorPrices(side) = {MidPrice - d : d \in Spreads}
        \/ GeneratorPrices(side) = {MidPrice + d : d \in Spreads}
    BY <1>2 DEF GeneratorPrices, Sides, Buy, Sell
  <2> QED BY <2>1, DomainsAssumption
<1> QED BY <1>1, <1>2

LEMMA LiveIds ==
  ASSUME Generated
  PROVE  /\ Members(live_orders) \subseteq Ids
         /\ event_count < MaxEvents => next_order_id \in Ids
<1>1. Members(live_orders) \subseteq Nat
  BY MembersType DEF Generated
<1>2. MaxEvents \in Nat /\ \A n \in Nat : 1 <= n /\ n <= MaxEvents => n \in Ids
  BY DomainsAssumption, DrawsAssumption
<1>3. \A n \in Nat : 1 <= n /\ n < next_order_id => n \in Ids
  BY <1>2 DEF Generated
<1>4. event_count < MaxEvents => next_order_id \in Ids
  BY <1>2 DEF Generated
<1>5. \A id \in Members(live_orders) : 1 <= id /\ id < next_order_id
  BY DEF Generated
<1> QED BY <1>1, <1>3, <1>4, <1>5

LEMMA EnterLimit ==
  ASSUME NEW order, order.type = "Limit"
  PROVE  Enter(order).order = order
BY DEF Enter, Activation, StopTypes

LEMMA StepInv ==
  ASSUME Inv, Conserved, Step
  PROVE  Inv' /\ Conserved'
<1>1. CASE KeepStop
  BY <1>1, KeepStopInv, KeepEffect DEF Conserved, Outside
<1> QED BY <1>1, FillInv, TriggerStopInv, FinishRestingInv, FinishOtherInv,
           FillConserves, TriggerConserves, FinishConserves DEF Step

(* The steps of a call. *)
LEMMA CallFill ==
  ASSUME BenchmarkInv, Fill, UNCHANGED <<next_order_id, live_orders>>
  PROVE  Fresh' /\ Limits' /\ Tracked' /\ Unspent' /\ Quiet' /\ OnlyFilledRejected'
<1>1. Inv /\ Fresh /\ Limits /\ Tracked /\ Unspent /\ Quiet
  BY DEF BenchmarkInv
<1>2. PICK p \in Ids, qty \in Nat : Fills(p, qty)
  BY <1>1, FillEffect
<1> DEFINE a     == Top.order
           left  == [a EXCEPT !.quantity = a.quantity - qty]
           trade == [aggressor_id |-> a.id, passive_id |-> p,
                     price |-> book.id_map[p].price, quantity |-> qty,
                     aggressor_side |-> a.side]
<1>3. /\ a \in Orders /\ has_order(book, p)
      /\ Waiting(pending_stops', stack') = Waiting(pending_stops, stack)
      /\ Active(stack') = Active(Tail(stack)) \cup {left}
      /\ Active(stack) = Active(Tail(stack)) \cup {a}
      /\ ledger' = [ledger EXCEPT ![a.id].filled = @ + qty, ![p].filled = @ + qty]
      /\ result' = [result EXCEPT !.trades = Append(result.trades, trade)]
      /\ \A x : x # p => (has_order(book', x) <=> has_order(book, x))
      /\ \A x : Absent(book, x) => Absent(book', x)
  BY <1>2 DEF Fills
<1>4. left.id = a.id /\ left.type = a.type
  BY <1>3 DEF Orders
<1>5. result'.rejections = result.rejections
  BY <1>1, <1>3 DEF Inv, TypeOK, Results
<1>6. ~Idle
  BY DEF Fill, Matching
<1>7. \A x \in Ids : ledger'[x].orig = ledger[x].orig /\ ledger'[x].gone = ledger[x].gone
  <2>1. ledger \in [Ids -> [orig : Int, filled : Nat, gone : Nat]]
    BY <1>1 DEF Inv, TypeOK
  <2>2. a.id \in Ids
    BY <1>3, OrderFields
  <2> QED BY <1>3, <2>1, <2>2
<1>8. Members(live_orders) \subseteq Ids
  BY LiveIds DEF BenchmarkInv
<1> HIDE DEF a, left, trade
<1>9. Fresh' /\ Limits'
  BY <1>1, <1>3, <1>4 DEF Fresh, Limits
<1>10. Tracked'
  BY <1>1, <1>3, <1>4 DEF Tracked, Outside
<1>11. Unspent'
  BY <1>1, <1>7, <1>8 DEF Unspent
<1>12. result'.rejections = <<>>
  BY <1>1, <1>5, <1>6 DEF Quiet
<1> QED BY <1>9, <1>10, <1>11, <1>12 DEF Quiet, OnlyFilledRejected

LEMMA CallFinish ==
  ASSUME BenchmarkInv, FinishResting \/ FinishExhausted \/ FinishFilled,
         UNCHANGED <<next_order_id, live_orders>>
  PROVE  Fresh' /\ Limits' /\ Tracked' /\ Unspent' /\ Quiet' /\ OnlyFilledRejected'
<1>1. Inv /\ Fresh /\ Limits /\ Tracked /\ Unspent /\ Quiet /\ Generated
  BY DEF BenchmarkInv
<1>2. LoopEnded /\ stack' = Tail(stack) /\ pending_stops' = pending_stops /\ ~Idle
  BY DEF FinishResting, FinishExhausted, FinishFilled, LoopEnded, Matching
<1>3. /\ Waiting(pending_stops', stack') = Waiting(pending_stops, stack)
      /\ Active(stack) = Active(stack') \cup {Top.order}
      /\ Top.order \in Orders /\ Absent(book, Top.order.id)
  BY <1>1, <1>2, FinishEffect
<1>4. Top.order.type = "Limit" /\ Top.order.id \in Members(live_orders)
  BY <1>1, <1>3 DEF Limits, Tracked, Outside
<1>5. ~FinishExhausted
  BY <1>4 DEF FinishExhausted, Exhausted
<1>6. ledger' = ledger /\ result' = result
  BY <1>5 DEF FinishResting, FinishFilled
<1>7. /\ \A n \in Nat : n >= next_order_id => Absent(book', n)
      /\ \A id : has_order(book', id) => has_order(book, id) \/ id = Top.order.id
  <2>1. CASE FinishResting
    <3>1. book' = insert_order(book, Top.order)
      BY <2>1 DEF FinishResting
    <3>2. HasLevel(book, Top.order.side, Top.order.price) =>
            Top.order.id \notin Queued(book.levels[Top.order.side][Top.order.price])
      <4>1. Top.order.side \in Sides
        BY <1>3, OrderFields
      <4> QED BY <1>3, <4>1 DEF Absent, HasLevel
    <3>3. \A id : Absent(book, id) /\ id # Top.order.id => Absent(book', id)
      BY <1>1, <1>3, <3>1, <3>2, InsertSound DEF Inv, Absent
    <3>4. \A n \in Nat : n >= next_order_id => n # Top.order.id
      BY <1>1, <1>4 DEF Generated
    <3>5. \A id : has_order(book', id) => has_order(book, id) \/ id = Top.order.id
      BY <1>1, <3>1, InsertOrders DEF Inv
    <3> QED BY <1>1, <3>3, <3>4, <3>5 DEF Fresh
  <2>2. CASE FinishFilled
    BY <1>1, <2>2 DEF FinishFilled, Fresh
  <2> QED BY <1>5, <2>1, <2>2
<1>8. Fresh' /\ Limits'
  BY <1>1, <1>3, <1>7 DEF Fresh, Limits
<1>9. Tracked' /\ Unspent'
  BY <1>1, <1>3, <1>4, <1>6, <1>7 DEF Tracked, Unspent, Outside
<1>10. result'.rejections = <<>>
  BY <1>1, <1>2, <1>6 DEF Quiet
<1> QED BY <1>8, <1>9, <1>10 DEF Quiet, OnlyFilledRejected

LEMMA CallStep ==
  ASSUME BenchmarkInv, Step, UNCHANGED generatorVars
  PROVE  BenchmarkInv'
<1>1. Inv' /\ Conserved'
  BY StepInv DEF BenchmarkInv
<1>2. Generated' /\ UNCHANGED <<next_order_id, live_orders>>
  BY DEF BenchmarkInv, generatorVars, Generated
<1>3. ~TriggerStop
  BY TriggerEffect DEF BenchmarkInv, Limits
<1>4. CASE KeepStop
  <2>1. /\ Waiting(pending_stops', stack') = Waiting(pending_stops, stack)
        /\ Active(stack') = Active(stack)
        /\ book' = book /\ ledger' = ledger /\ result' = result /\ ~Idle
    BY <1>4, KeepEffect DEF BenchmarkInv, KeepStop, Evaluating
  <2>2. result'.rejections = <<>>
    BY <2>1 DEF BenchmarkInv, Quiet
  <2>3. Fresh' /\ Limits' /\ Tracked' /\ Unspent'
    BY <1>2, <2>1 DEF BenchmarkInv, Fresh, Limits, Tracked, Unspent, Outside
  <2> QED BY <1>1, <1>2, <2>2, <2>3 DEF BenchmarkInv, Quiet, OnlyFilledRejected
<1>5. CASE Fill
  BY <1>1, <1>2, <1>5, CallFill DEF BenchmarkInv
<1>6. CASE FinishResting \/ FinishExhausted \/ FinishFilled
  BY <1>1, <1>2, <1>6, CallFinish DEF BenchmarkInv
<1> QED BY <1>3, <1>4, <1>5, <1>6 DEF Step

-----------------------------------------------------------------------------
(* SyntheticGenerator::next and the start of submit(). *)
LEMMA NewKeeps ==
  ASSUME BenchmarkInv, market_maker_mode \in BOOLEAN, NEW side \in Sides,
         NEW price \in GeneratorPrices(side), NEW quantity \in Quantities,
         GenerateNew(side, price, quantity)
  PROVE  BenchmarkInv'
<1> DEFINE order == [id |-> next_order_id, side |-> side, type |-> "Limit", price |-> price,
                     stop_price |-> 0, quantity |-> quantity, peak_qty |-> 0,
                     reserve_qty |-> 0]
<1>1. /\ Inv /\ Conserved /\ Generated /\ Fresh /\ Limits /\ Tracked /\ Unspent
  BY DEF BenchmarkInv
<1>2. /\ Idle /\ process_new_order(book, order) /\ ledger' = Opened(ledger, order)
      /\ next_order_id' = next_order_id + 1
      /\ live_orders' = Append(live_orders, order.id)
      /\ event_count < MaxEvents /\ event_count' = event_count + 1
  BY DEF GenerateNew, Generates, SubmitNew
<1>3. next_order_id \in Ids /\ next_order_id \in Nat
  BY <1>1, <1>2, LiveIds DEF Generated
<1>4. price \in Prices /\ quantity \in Nat /\ quantity > 0 /\ 0 \in Prices
  BY PricesDrawn, DrawsAssumption, PricesAssumption
<1>5. order \in Orders
  BY <1>3, <1>4 DEF Orders, OrderTypes
<1>6. /\ order.id = next_order_id /\ order.type = "Limit" /\ order.quantity = quantity
      /\ order.reserve_qty = 0
  OBVIOUS
<1> HIDE DEF order
<1>7. Enter(order).order = order
  BY <1>6, EnterLimit
<1>8. ~Waits(book, order)
  BY <1>6 DEF Waits, StopTypes
<1>9. /\ Active(stack) = {} /\ Waiting(pending_stops, stack) = {}
      /\ Waiting(pending_stops', stack') = {}
      /\ Active(stack') = {order}
  BY <1>1, <1>2, <1>5, <1>7, <1>8, NewEffect DEF Limits
<1>10. book' = book /\ result' = EmptyResult
  BY <1>2 DEF process_new_order
<1>11. Absent(book, order.id) /\ ~has_order(book, order.id)
  <2>1. Absent(book, next_order_id)
    BY <1>1, <1>3 DEF Fresh
  <2> QED BY <1>6, <2>1 DEF Absent
<1>12. ledger \in Entries
  BY <1>1 DEF Inv, TypeOK, Entries
<1>13. Inv'
  <2>1. \A i \in 1..Len(pending_stops) : pending_stops[i].id # order.id
    BY <1>9 DEF Waiting, Members
  <2>2. ledger' \in [Ids -> [orig : Int, filled : Nat, gone : Nat]]
    BY <1>2, <1>3, <1>5, <1>12, LedgerFacts DEF Entries
  <2> QED BY <1>1, <1>2, <1>5, <1>11, <2>1, <2>2, FreshOrderInv DEF Inv
<1>14. Conserved'
  <2>1. Balanced({} \cup {order}, book, Opened(ledger, order))
    <3>1. Balanced({}, book, ledger)
      BY <1>1, <1>9 DEF Conserved, Outside
    <3> QED BY <1>5, <1>6, <1>11, <1>12, <3>1, BalanceEnters
  <2>2. Kinds({}, {order}, book)
    BY <1>1, <1>6 DEF Conserved, Kinds, StopTypes
  <2>3. Balanced({order}, book, Opened(ledger, order))
    BY <2>1
  <2> QED BY <1>2, <1>9, <1>10, <2>2, <2>3 DEF Conserved, Outside
<1>15. /\ live_orders \in Seq(Nat) /\ Distinct(live_orders) /\ Len(live_orders) \in Nat
       /\ \A id \in Members(live_orders) : 1 <= id /\ id < next_order_id
       /\ Members(live_orders) \subseteq Nat
  BY <1>1, MembersType DEF Generated
<1>16. Members(live_orders') = Members(live_orders) \cup {next_order_id}
  BY <1>2, <1>3, <1>6, <1>15, MembersAppend
<1>17. Distinct(live_orders')
  <2>1. \A i \in 1..Len(live_orders) : live_orders[i] # next_order_id
    <3>1. \A i \in 1..Len(live_orders) : live_orders[i] \in Members(live_orders)
      BY DEF Members
    <3> QED BY <1>3, <1>15, <3>1
  <2>2. /\ Len(live_orders') = Len(live_orders) + 1
        /\ \A i \in 1..Len(live_orders) : live_orders'[i] = live_orders[i]
        /\ live_orders'[Len(live_orders) + 1] = next_order_id
    BY <1>2, <1>3, <1>6, <1>15, AppendProperties
  <2>3. \A i \in 1..Len(live_orders') : i \in 1..Len(live_orders) \/ i = Len(live_orders) + 1
    BY <1>15, <2>2
  <2> QED BY <1>15, <2>1, <2>2, <2>3 DEF Distinct
<1>18. Generated'
  <2>1. live_orders' \in Seq(Nat)
    BY <1>2, <1>3, <1>6, <1>15, AppendProperties
  <2>2. \A id \in Members(live_orders') : 1 <= id /\ id < next_order_id + 1
    BY <1>1, <1>3, <1>15, <1>16 DEF Generated
  <2>3. /\ next_order_id + 1 \in Nat \ {0} /\ event_count + 1 \in 0..MaxEvents
        /\ next_order_id + 1 <= event_count + 1 + 1
    BY <1>1, <1>2, DrawsAssumption DEF Generated
  <2> QED BY <1>2, <1>17, <2>1, <2>2, <2>3 DEF Generated
<1>19. Fresh' /\ Limits'
  BY <1>1, <1>2, <1>3, <1>6, <1>9, <1>10 DEF Fresh, Limits
<1>20. Tracked'
  BY <1>1, <1>6, <1>9, <1>10, <1>16 DEF Tracked, Outside
<1>21. Unspent'
  <2>1. \A x \in Ids : x # next_order_id => ledger'[x] = ledger[x]
    BY <1>2, <1>5, <1>6, <1>12, LedgerFacts
  <2>2. ledger'[next_order_id] = [NoEntry EXCEPT !.orig = quantity]
    BY <1>2, <1>3, <1>6, <1>12 DEF Opened, Entries
  <2>3. ledger'[next_order_id].orig > 0 /\ ledger'[next_order_id].gone = 0
    BY <1>4, <2>2 DEF NoEntry
  <2>4. Members(live_orders) \subseteq Ids
    BY <1>1, LiveIds
  <2> QED BY <1>1, <1>16, <2>1, <2>3, <2>4 DEF Unspent
<1>22. result'.rejections = <<>>
  BY <1>10 DEF EmptyResult
<1> QED BY <1>13, <1>14, <1>18, <1>19, <1>20, <1>21, <1>22
        DEF BenchmarkInv, Quiet, OnlyFilledRejected

LEMMA CancelKeeps ==
  ASSUME BenchmarkInv, NEW idx \in 1..Len(live_orders), GenerateCancel(idx)
  PROVE  BenchmarkInv'
<1> DEFINE id == live_orders[idx]
<1>1. /\ Inv /\ Conserved /\ Generated /\ Fresh /\ Limits /\ Tracked /\ Unspent
  BY DEF BenchmarkInv
<1>2. /\ live_orders' = WithoutOrder(live_orders, idx) /\ next_order_id' = next_order_id
      /\ event_count < MaxEvents /\ event_count' = event_count + 1
      /\ CancelPending(id) \/ CancelResting(id) \/ CancelUnknown(id)
  BY DEF GenerateCancel, Generates
<1>3. id \in Members(live_orders)
  BY DEF Members
<1>4. /\ live_orders' \in Seq(Nat) /\ Distinct(live_orders')
      /\ Members(live_orders') = Members(live_orders) \ {id}
  BY <1>1, <1>2, WithoutOrderMembers DEF Generated
<1> HIDE DEF id
<1>5. id \in Ids /\ Members(live_orders) \subseteq Ids
  BY <1>1, <1>3, LiveIds
<1>6. Generated'
  BY <1>1, <1>2, <1>4, DrawsAssumption DEF Generated
<1>7. ~CancelPending(id)
  BY <1>1, <1>5, CancelPendingEffect DEF Limits
<1>8. Idle /\ Active(stack) = {} /\ Outside(pending_stops, stack) = {}
  BY <1>1, <1>2, <1>7, MembersEmpty DEF CancelResting, CancelUnknown, Idle, Limits, Outside
<1>9. pending_stops' = pending_stops /\ stack' = stack
  BY <1>2, <1>7 DEF CancelResting, CancelUnknown, Reject
<1>10. Limits' /\ Outside(pending_stops', stack') = {}
  BY <1>1, <1>8, <1>9 DEF Limits
<1>11. CASE CancelResting(id)
  <2>1. /\ has_order(book, id) /\ book' = cancel_order(book, id)
        /\ ledger' = Withdrawn(ledger, book.id_map[id])
        /\ result' = [EmptyResult EXCEPT !.reports = <<Report(book.id_map[id])>>]
    BY <1>11 DEF CancelResting
  <2>2. Inv'
    BY <1>1, <1>5, <1>11, CancelRestingInv
  <2>3. /\ \A x : Absent(book, x) => Absent(book', x)
        /\ \A x : has_order(book', x) <=> has_order(book, x) /\ x # id
    BY <1>1, <2>1, CancelSound, CancelOrders DEF Inv
  <2>4. ledger \in Entries /\ book.id_map[id] \in Orders /\ book.id_map[id].id = id
    BY <1>1, <2>1, OutsideUnknown
  <2>5. Conserved'
    <3>1. Balanced({}, book', ledger')
      BY <1>1, <1>8, <2>1, <2>4, BalanceCancels DEF Inv, Conserved
    <3>2. Kinds(Waiting(pending_stops, stack), Active(stack), book')
      BY <1>1, <2>1, CancelKinds DEF Inv, Conserved
    <3> QED BY <1>9, <1>10, <3>1, <3>2 DEF Conserved
  <2>6. Fresh' /\ Tracked'
    BY <1>1, <1>2, <1>4, <1>10, <2>3 DEF Fresh, Tracked
  <2>7. Unspent'
    <3>1. \A x \in Ids : x # id => ledger'[x] = ledger[x]
      BY <2>1, <2>4, LedgerFacts
    <3> QED BY <1>1, <1>4, <1>5, <3>1 DEF Unspent
  <2>8. result'.rejections = <<>>
    BY <2>1 DEF EmptyResult
  <2> QED BY <1>6, <1>10, <2>2, <2>5, <2>6, <2>7, <2>8
          DEF BenchmarkInv, Quiet, OnlyFilledRejected
<1>12. CASE CancelUnknown(id)
  <2>1. /\ ~has_order(book, id) /\ book' = book /\ ledger' = ledger
        /\ result' = [EmptyResult EXCEPT !.rejections = <<Rejected(id, "OrderNotFound")>>]
    BY <1>12 DEF CancelUnknown, Reject
  <2>2. Inv'
    BY <1>1, <1>5, <1>12, RejectInv DEF CancelUnknown
  <2>3. Conserved'
    BY <1>1, <1>9, <2>1 DEF Conserved
  <2>4. Fresh' /\ Tracked' /\ Unspent'
    BY <1>1, <1>2, <1>4, <1>10, <2>1 DEF Fresh, Tracked, Unspent
  <2>5. Left(ledger[id]) = 0
    BY <1>1, <1>5, <1>8, <2>1 DEF Conserved, Balanced
  <2>6. ledger[id].orig > 0 /\ ledger[id].filled = ledger[id].orig
    <3>1. ledger[id] \in [orig : Int, filled : Nat, gone : Nat]
      BY <1>1, <1>5 DEF Inv, TypeOK
    <3>2. ledger[id].orig > 0 /\ ledger[id].gone = 0
      BY <1>1, <1>3 DEF Unspent
    <3> QED BY <2>5, <3>1, <3>2 DEF Left
  <2>7. result'.rejections = <<Rejected(id, "OrderNotFound")>>
    BY <2>1 DEF EmptyResult
  <2>8. \A i \in 1..Len(result'.rejections) : result'.rejections[i].order_id = id
    BY <2>7 DEF Rejected
  <2>9. OnlyFilledRejected'
    BY <2>1, <2>6, <2>8 DEF OnlyFilledRejected
  <2>10. Quiet'
    BY <1>8, <1>9 DEF Quiet, Idle
  <2> QED BY <1>6, <1>10, <2>2, <2>3, <2>4, <2>9, <2>10 DEF BenchmarkInv
<1> QED BY <1>2, <1>7, <1>11, <1>12

-----------------------------------------------------------------------------
Mode == market_maker_mode \in BOOLEAN

LEMMA BenchmarkInitInv ==
  ASSUME BenchmarkInit
  PROVE  BenchmarkInv /\ Mode
<1>1. Inv /\ Conserved
  BY InitInv, InitConserves DEF BenchmarkInit
<1>2. /\ pending_stops = <<>> /\ stack = <<>> /\ result = EmptyResult
      /\ book = EmptyBook
      /\ next_order_id = 1 /\ event_count = 0 /\ live_orders = <<>>
  BY DEF BenchmarkInit, Init
<1>3. Waiting(pending_stops, stack) = {} /\ Active(stack) = {} /\ Members(live_orders) = {}
  BY <1>2, MembersEmpty DEF Waiting
<1>4. \A n : Absent(book, n) /\ ~has_order(book, n)
  BY <1>2 DEF Absent, EmptyBook, EmptyMap, has_order
<1>5. result.rejections = <<>>
  BY <1>2 DEF EmptyResult
<1>6. Generated
  BY <1>2, <1>3, DrawsAssumption DEF Generated, Distinct
<1> QED BY <1>1, <1>3, <1>4, <1>5, <1>6
        DEF BenchmarkInv, Fresh, Limits, Tracked, Unspent, Quiet, OnlyFilledRejected,
            Outside, Mode, BenchmarkInit

LEMMA BenchmarkNextInv ==
  ASSUME BenchmarkInv, Mode, [BenchmarkNext]_benchmarkVars
  PROVE  BenchmarkInv' /\ Mode'
<1>1. ASSUME NEW side \in Sides, NEW price \in GeneratorPrices(side),
             NEW quantity \in Quantities, GenerateNew(side, price, quantity)
      PROVE  BenchmarkInv' /\ Mode'
  <2>1. market_maker_mode' = market_maker_mode
    BY <1>1 DEF GenerateNew, Generates
  <2> QED BY <1>1, <2>1, NewKeeps DEF Mode
<1>2. ASSUME NEW idx \in 1..Len(live_orders), GenerateCancel(idx)
      PROVE  BenchmarkInv' /\ Mode'
  <2>1. market_maker_mode' = market_maker_mode
    BY <1>2 DEF GenerateCancel, Generates
  <2> QED BY <1>2, <2>1, CancelKeeps DEF Mode
<1>3. CASE EngineStep
  <2>1. Step /\ UNCHANGED generatorVars
    BY <1>3 DEF EngineStep
  <2> QED BY <2>1, CallStep DEF Mode, generatorVars
<1>4. CASE UNCHANGED <<vars, generatorVars>>
  <2>1. Inv' /\ Conserved'
    BY <1>4 DEF BenchmarkInv, Inv, TypeOK, Conserved, vars
  <2> QED BY <1>4, <2>1 DEF BenchmarkInv, Generated, Fresh, Limits, Tracked, Unspent, Quiet,
             OnlyFilledRejected, Idle, Mode, vars, generatorVars
<1>5. CASE RecordLatency \/ GeneratorEnds \/ Reported \/ UNCHANGED benchmarkVars
  BY <1>4, <1>5 DEF RecordLatency, GeneratorEnds, Reported, benchmarkVars
<1> QED BY <1>1, <1>2, <1>3, <1>5 DEF BenchmarkNext

(* What the benchmark keeps true whatever is drawn, swapped and popped,    *)
(* without any rule for the clients.                                       *)
THEOREM BenchmarkInvariance == BenchmarkSpec => [](BenchmarkInv /\ Mode)
<1>1. BenchmarkInit => BenchmarkInv /\ Mode
  BY BenchmarkInitInv
<1>2. BenchmarkInv /\ Mode /\ [BenchmarkNext]_benchmarkVars => (BenchmarkInv /\ Mode)'
  BY BenchmarkNextInv
<1> QED BY <1>1, <1>2, PTL DEF BenchmarkSpec

(* The book the benchmark measures is a consistent one: the ids the        *)
(* generator counts up never meet a dead queue entry.                      *)
THEOREM BenchmarkConsistent == BenchmarkSpec => []BookConsistent
<1>1. BenchmarkInv => BookConsistent
  BY SoundIsConsistent DEF BenchmarkInv, Inv
<1> QED BY <1>1, BenchmarkInvariance, PTL

(* Every resting order can be drawn for a cancellation, by one index only: *)
(* the swap-and-pop of live_orders_ loses and doubles none.                *)
THEOREM Drawable == BenchmarkSpec => []RestingCanBeDrawn
<1>1. BenchmarkInv => RestingCanBeDrawn
  BY DEF BenchmarkInv, Generated, Distinct, Tracked, has_order, Members, RestingCanBeDrawn
<1> QED BY <1>1, BenchmarkInvariance, PTL

(* A cancellation of the generator is rejected only when its order has     *)
(* traded in full.                                                         *)
THEOREM RejectedWereFilled == BenchmarkSpec => []OnlyFilledRejected
<1>1. BenchmarkInv => OnlyFilledRejected
  BY DEF BenchmarkInv
<1> QED BY <1>1, BenchmarkInvariance, PTL

-----------------------------------------------------------------------------
(* The buckets of the latency histogram, for every latency: which of them  *)
(* have a bucket, and how far the value a percentile reports for a bucket  *)
(* is from the latencies counted in it.                                    *)

(* bucket_to_ns undoes bucket_index up to the resolution of the range: the *)
(* value reported for a bucket is at most the latency, and less than the   *)
(* resolution below it.  Latencies below 9 ms have a bucket, and no other. *)
THEOREM BucketBounds ==
  ASSUME NEW ns \in Nat
  PROVE  /\ bucket_index(ns) < kBuckets <=> ns < 9000000
         /\ bucket_index(ns) < kBuckets =>
              /\ bucket_to_ns(bucket_index(ns)) <= ns
              /\ ns - bucket_to_ns(bucket_index(ns)) < Resolution(ns)
<1>1. CASE ns < 1000
  BY <1>1, SMT DEF bucket_index, bucket_to_ns, kBuckets, Resolution
<1>2. CASE ns >= 1000 /\ ns < 1000000
  BY <1>2, SMT DEF bucket_index, bucket_to_ns, kBuckets, Resolution
<1>3. CASE ns >= 1000000 /\ ns < 10000000
  BY <1>3, SMT DEF bucket_index, bucket_to_ns, kBuckets, Resolution
<1>4. CASE ns >= 10000000
  BY <1>4, SMT DEF bucket_index, bucket_to_ns, kBuckets, Resolution
<1> QED BY <1>1, <1>2, <1>3, <1>4, SMT

(* A latency that is not longer than one with a bucket has a bucket, and   *)
(* none that comes later: cumulative counts rank the latencies that are    *)
(* counted, and those that are not are longer than all of them.            *)
THEOREM BucketsInOrder ==
  ASSUME NEW m \in Nat, NEW n \in Nat, m <= n, bucket_index(n) < kBuckets
  PROVE  bucket_index(m) <= bucket_index(n)
<1>1. CASE n < 1000
  BY <1>1, SMT DEF bucket_index
<1>2. CASE n >= 1000 /\ n < 1000000
  <2>1. CASE m < 1000
    BY <1>2, <2>1, SMT DEF bucket_index
  <2>2. CASE m >= 1000
    BY <1>2, <2>2, SMT DEF bucket_index
  <2> QED BY <2>1, <2>2, SMT
<1>3. CASE n >= 1000000 /\ n < 10000000
  <2>1. CASE m < 1000
    BY <1>3, <2>1, SMT DEF bucket_index
  <2>2. CASE m >= 1000 /\ m < 1000000
    BY <1>3, <2>2, SMT DEF bucket_index
  <2>3. CASE m >= 1000000
    BY <1>3, <2>3, SMT DEF bucket_index
  <2> QED BY <2>1, <2>2, <2>3, SMT
<1>4. CASE n >= 10000000
  BY <1>4, SMT DEF bucket_index, kBuckets
<1> QED BY <1>1, <1>2, <1>3, <1>4, SMT

-----------------------------------------------------------------------------
(* The latency histogram counts the samples, bucket by bucket. *)

(* The samples among the first n latencies of t that fall into bucket j. *)
In(t, n, j) == {i \in 1..n : bucket_index(t[i]) = j}

(* What the histogram knows of the first n latencies: how many there are,  *)
(* the longest, and of every bucket how many fell into it.                 *)
Pictures(h, t, n) ==
  /\ h.count = n
  /\ h.max \in Nat /\ \A i \in 1..n : t[i] <= h.max
  /\ n = 0 => h.max = 0
  /\ n > 0 => \E i \in 1..n : t[i] = h.max
  /\ \A j : j \in DOMAIN h.buckets <=> j < kBuckets /\ \E i \in 1..n : bucket_index(t[i]) = j
  /\ \A j \in DOMAIN h.buckets : h.buckets[j] = Cardinality(In(t, n, j))

LEMMA BucketType ==
  ASSUME NEW ns \in Nat
  PROVE  bucket_index(ns) \in Nat
<1>1. CASE ns < 1000
  BY <1>1, SMT DEF bucket_index
<1>2. CASE ns >= 1000 /\ ns < 1000000
  BY <1>2, SMT DEF bucket_index
<1>3. CASE ns >= 1000000 /\ ns < 10000000
  BY <1>3, SMT DEF bucket_index
<1>4. CASE ns >= 10000000
  BY <1>4, SMT DEF bucket_index, kBuckets
<1> QED BY <1>1, <1>2, <1>3, <1>4, SMT

LEMMA CountedType ==
  ASSUME NEW n \in Nat, NEW T \in SUBSET (1..n)
  PROVE  IsFiniteSet(T) /\ Cardinality(T) \in Nat /\ Cardinality(T) <= n
<1>1. IsFiniteSet(1..n) /\ Cardinality(1..n) = n
  BY FS_Interval
<1> QED BY <1>1, FS_Subset, FS_CardinalityType

(* A subset has at most as many elements. *)
LEMMA CountedLess ==
  ASSUME NEW n \in Nat, NEW T \in SUBSET (1..n), NEW U \in SUBSET T
  PROVE  /\ Cardinality(T) \in Nat /\ Cardinality(U) \in Nat
         /\ Cardinality(U) <= Cardinality(T)
<1>1. IsFiniteSet(T) /\ IsFiniteSet(U) /\ Cardinality(T) \in Nat /\ Cardinality(U) \in Nat
  BY CountedType
<1> QED BY <1>1, FS_Subset

(* record() adds one sample to the picture. *)
LEMMA RecordPictures ==
  ASSUME NEW t \in Seq(Nat), NEW n \in Nat, n + 1 <= Len(t),
         NEW h, Pictures(h, t, n)
  PROVE  Pictures(record(h, t[n + 1]), t, n + 1)
<1> DEFINE ns  == t[n + 1]
           idx == bucket_index(ns)
           m   == IF ns > h.max THEN ns ELSE h.max
           all == DOMAIN h.buckets \cup {idx}
           bs  == IF idx >= kBuckets THEN h.buckets
                  ELSE [i \in all |-> InBucket(h, i) + (IF i = idx THEN 1 ELSE 0)]
           g   == record(h, ns)
<1>1. ns \in Nat /\ idx \in Nat /\ kBuckets \in Nat /\ h.max \in Nat
  <2>1. n + 1 \in 1..Len(t)
    OBVIOUS
  <2>2. ns \in Nat
    BY <2>1, ElementOfSeq
  <2> HIDE DEF ns
  <2>3. idx \in Nat
    BY <2>2, BucketType
  <2> QED BY <2>2, <2>3 DEF kBuckets, Pictures
<1>2. g.count = h.count + 1 /\ g.max = m /\ g.buckets = bs
  BY DEF record
<1>3. /\ \A i \in 1..n + 1 : i \in 1..n \/ i = n + 1
      /\ \A i \in 1..n : i \in 1..n + 1
      /\ n + 1 \in 1..n + 1 /\ n + 1 \notin 1..n /\ n + 1 > 0 /\ n \in Nat
  OBVIOUS
<1>4. \A i \in 1..n : t[i] \in Nat
  BY ElementOfSeq
<1> HIDE DEF g, idx, ns
<1>5. m \in Nat /\ \A i \in 1..n + 1 : t[i] <= m
  <2>1. ns <= m /\ h.max <= m /\ m \in Nat
    BY <1>1
  <2>2. \A i \in 1..n : t[i] <= m
    <3> HIDE DEF m
    <3>1. h.max \in Nat /\ \A i \in 1..n : t[i] <= h.max
      BY DEF Pictures
    <3> QED BY <1>4, <2>1, <3>1
  <2> HIDE DEF m
  <2> QED BY <1>3, <2>1, <2>2 DEF ns
<1>6. \E i \in 1..n + 1 : t[i] = m
  <2>1. m = ns \/ (m = h.max /\ n > 0)
    BY <1>1, <1>3 DEF Pictures
  <2>2. CASE m = ns
    BY <1>3, <2>2 DEF ns
  <2>3. CASE m = h.max /\ n > 0
    <3> HIDE DEF m
    <3> QED BY <1>3, <2>3 DEF Pictures
  <2> QED BY <2>1, <2>2, <2>3
<1> HIDE DEF m
<1>7. \A j : (\E i \in 1..n + 1 : bucket_index(t[i]) = j) <=>
             j = idx \/ \E i \in 1..n : bucket_index(t[i]) = j
  BY <1>3 DEF idx, ns
<1>8. DOMAIN bs = IF idx < kBuckets THEN all ELSE DOMAIN h.buckets
  <2>1. idx >= kBuckets <=> ~(idx < kBuckets)
    BY <1>1
  <2> QED BY <2>1
<1>9. \A j : j \in DOMAIN bs <=> j < kBuckets /\ \E i \in 1..n + 1 : bucket_index(t[i]) = j
  <2>1. \A j : j \in DOMAIN h.buckets <=>
                 j < kBuckets /\ \E i \in 1..n : bucket_index(t[i]) = j
    BY DEF Pictures
  <2> HIDE DEF bs
  <2> QED BY <1>7, <1>8, <2>1
<1>10. ASSUME NEW j \in DOMAIN bs
       PROVE  bs[j] = Cardinality(In(t, n + 1, j))
  <2> DEFINE old == In(t, n, j)
             new == In(t, n + 1, j)
  <2>1. new = IF j = idx THEN old \cup {n + 1} ELSE old
    BY <1>3 DEF In, idx, ns
  <2>2. IsFiniteSet(old) /\ Cardinality(old) \in Nat /\ n + 1 \notin old
    BY <1>3, CountedType DEF In
  <2> HIDE DEF old, new
  <2>3. Cardinality(new) = Cardinality(old) + (IF j = idx THEN 1 ELSE 0)
    <3>1. CASE j = idx
      <4>1. Cardinality(old \cup {n + 1}) = Cardinality(old) + 1
        BY <2>2, FS_AddElement
      <4> QED BY <2>1, <3>1, <4>1
    <3>2. CASE j # idx
      BY <2>1, <2>2, <3>2
    <3> QED BY <3>1, <3>2
  <2>4. InBucket(h, j) = Cardinality(old)
    <3>1. CASE j \in DOMAIN h.buckets
      BY <3>1 DEF InBucket, Pictures, old
    <3>2. CASE j \notin DOMAIN h.buckets
      <4>1. j < kBuckets
        BY <1>9
      <4>2. old = {}
        BY <3>2, <4>1 DEF Pictures, old, In
      <4> QED BY <3>2, <4>2, FS_EmptySet DEF InBucket
    <3> QED BY <3>1, <3>2
  <2>5. bs[j] = InBucket(h, j) + (IF j = idx THEN 1 ELSE 0)
    <3>1. CASE idx < kBuckets
      <4>1. ~(idx >= kBuckets) /\ j \in all
        BY <1>1, <1>8, <3>1
      <4> QED BY <4>1
    <3>2. CASE ~(idx < kBuckets)
      <4>1. bs = h.buckets /\ j \in DOMAIN h.buckets
        BY <1>1, <1>8, <3>2
      <4>2. j # idx
        BY <3>2, <4>1 DEF Pictures
      <4>3. bs[j] = Cardinality(old)
        BY <4>1 DEF Pictures, old
      <4> QED BY <2>2, <2>4, <4>2, <4>3
    <3> QED BY <3>1, <3>2
  <2> QED BY <2>3, <2>4, <2>5 DEF new
<1> HIDE DEF bs
<1>11. g.count = n + 1
  BY <1>2 DEF Pictures
<1>12. n + 1 # 0 /\ n + 1 > 0
  OBVIOUS
<1>13. Pictures(g, t, n + 1)
  BY <1>2, <1>5, <1>6, <1>9, <1>10, <1>11, <1>12 DEF Pictures
<1> QED BY <1>13 DEF g, ns

(* The counts of some buckets add up to the samples in them. *)
LEMMA BucketsAddUp ==
  ASSUME NEW t, NEW n \in Nat, NEW h, Pictures(h, t, n),
         NEW J, IsFiniteSet(J), J \subseteq DOMAIN h.buckets
  PROVE  Sum(h.buckets, J) = Cardinality({i \in 1..n : bucket_index(t[i]) \in J})
<1> DEFINE f    == h.buckets
           C(T) == {i \in 1..n : bucket_index(t[i]) \in T}
           G    == {T \in SUBSET J : Sum(f, T) = Cardinality(C(T))}
<1>1. \A j \in J : f[j] = Cardinality(In(t, n, j))
  BY DEF Pictures
<1>2. \A T : IsFiniteSet(C(T)) /\ Cardinality(C(T)) \in Nat
  BY CountedType
<1>3. \A j : IsFiniteSet(In(t, n, j)) /\ Cardinality(In(t, n, j)) \in Nat
  BY CountedType DEF In
<1>4. IntOn(f, J)
  BY <1>1, <1>3 DEF IntOn
<1> HIDE DEF f
<1>5. ASSUME NEW T \in SUBSET J, \A x \in T : T \ {x} \in G PROVE T \in G
  <2>1. CASE T = {}
    <3>1. Sum(f, {}) = 0
      BY <1>4, SumType
    <3>2. C(T) = {}
      BY <2>1
    <3>3. Cardinality(C(T)) = 0
      BY <3>2, FS_EmptySet
    <3> QED BY <2>1, <3>1, <3>3
  <2>2. CASE T # {}
    <3>1. PICK j \in T : TRUE
      BY <2>2
    <3>2. IsFiniteSet(T) /\ IntOn(f, T)
      BY <1>4, FS_Subset DEF IntOn
    <3>3. Sum(f, T) = f[j] + Sum(f, T \ {j})
      BY <3>2, SumWithout
    <3>4. Sum(f, T \ {j}) = Cardinality(C(T \ {j}))
      BY <1>5
    <3>5. C(T) = In(t, n, j) \cup C(T \ {j}) /\ In(t, n, j) \cap C(T \ {j}) = {}
      BY DEF In
    <3> DEFINE A == In(t, n, j)
               B == C(T \ {j})
    <3>6. /\ IsFiniteSet(A) /\ IsFiniteSet(B) /\ Cardinality(A) \in Nat /\ Cardinality(B) \in Nat
          /\ C(T) = A \cup B /\ A \cap B = {}
      BY <1>2, <1>3, <3>5
    <3>7. f[j] = Cardinality(A) /\ Sum(f, T \ {j}) = Cardinality(B)
      BY <1>1, <3>4
    <3> HIDE DEF A, B, C
    <3>8. Cardinality(A \cup B) = Cardinality(A) + Cardinality(B)
      <4>1. Cardinality(A \cap B) = 0
        BY <3>6, FS_EmptySet
      <4>2. Cardinality(A \cup B) = Cardinality(A) + Cardinality(B) - Cardinality(A \cap B)
        BY <3>6, FS_Union
      <4> QED BY <3>6, <4>1, <4>2
    <3> QED BY <3>3, <3>6, <3>7, <3>8
  <2> QED BY <2>1, <2>2
<1>6. \A T \in SUBSET J : T \in G
  <2> HIDE DEF G
  <2> QED BY <1>5, FiniteInduct
<1> QED BY <1>6 DEF f

(* What the loop of percentile() has counted at bucket k: the samples that *)
(* have a bucket, up to k.                                                 *)
LEMMA CumulativeCounts ==
  ASSUME NEW t \in Seq(Nat), NEW n \in Nat, n <= Len(t), NEW h, Pictures(h, t, n),
         NEW k \in Nat
  PROVE  Cumulative(h, k) =
           Cardinality({i \in 1..n : bucket_index(t[i]) < kBuckets /\ bucket_index(t[i]) <= k})
<1> DEFINE J == {j \in DOMAIN h.buckets : j <= k}
<1>1. \A i \in 1..n : bucket_index(t[i]) \in Nat
  <2>1. ASSUME NEW i \in 1..n PROVE bucket_index(t[i]) \in Nat
    <3>1. i \in 1..Len(t)
      OBVIOUS
    <3>2. t[i] \in Nat
      BY <3>1, ElementOfSeq
    <3> QED BY <3>2, BucketType
  <2> QED BY <2>1
<1>2. \A j \in J : j \in 0..k
  BY <1>1 DEF Pictures
<1>3. IsFiniteSet(J)
  <2>1. IsFiniteSet(0..k)
    BY FS_Interval
  <2>2. J \in SUBSET (0..k)
    BY <1>2
  <2> QED BY <2>1, <2>2, FS_Subset
<1>4. Cumulative(h, k) = Sum(h.buckets, J)
  BY DEF Cumulative, Sum
<1>5. \A i \in 1..n : bucket_index(t[i]) \in J <=>
                        bucket_index(t[i]) < kBuckets /\ bucket_index(t[i]) <= k
  BY DEF Pictures
<1>6. J \subseteq DOMAIN h.buckets
  OBVIOUS
<1> HIDE DEF J
<1>7. Sum(h.buckets, J) = Cardinality({i \in 1..n : bucket_index(t[i]) \in J})
  BY <1>3, <1>6, BucketsAddUp
<1> QED BY <1>4, <1>5, <1>7

(* Among n samples there is one of every rank from 1 to n. *)
OfRank(t, n, ns, r) ==
  /\ Cardinality({i \in 1..n : t[i] < ns}) < r
  /\ Cardinality({i \in 1..n : t[i] <= ns}) >= r

LEMMA RankExists ==
  ASSUME NEW t \in Seq(Nat), NEW n \in Nat, n <= Len(t), NEW top \in Nat,
         \A i \in 1..n : t[i] <= top, NEW r \in 1..n
  PROVE  \E x \in 1..n : OfRank(t, n, t[x], r)
<1> DEFINE Upto(m)  == {i \in 1..n : t[i] <= m}
           Below(m) == {i \in 1..n : t[i] < m}
           M        == {m \in Nat : Cardinality(Upto(m)) >= r}
<1>1. \A i \in 1..n : t[i] \in Nat
  BY ElementOfSeq
<1>2. \A m : Cardinality(Upto(m)) \in Nat /\ Cardinality(Below(m)) \in Nat
  BY CountedType
<1>3. top \in M
  <2>1. Upto(top) = 1..n
    OBVIOUS
  <2>2. Cardinality(1..n) = n
    BY FS_Interval
  <2>3. Cardinality(Upto(top)) = n
    BY <2>1, <2>2
  <2> HIDE DEF Upto
  <2> QED BY <2>3
<1>4. PICK m \in M : \A k \in M : m <= k
  <2>1. M \subseteq Nat /\ M # {}
    BY <1>3
  <2> HIDE DEF M
  <2> QED BY <2>1, LeastNat
<1>5. Cardinality(Below(m)) < r
  <2>1. CASE m = 0
    <3>1. Below(m) = {}
      BY <1>1, <2>1
    <3>2. Cardinality(Below(m)) = 0
      BY <3>1, FS_EmptySet
    <3> QED BY <3>2
  <2>2. CASE m # 0
    <3>1. m - 1 \in Nat /\ m - 1 \notin M
      <4>1. m \in Nat /\ \A k \in M : m <= k
        BY <1>4
      <4> HIDE DEF M
      <4> QED BY <2>2, <4>1
    <3>2. Below(m) = Upto(m - 1)
      BY <1>1
    <3>3. ~(Cardinality(Upto(m - 1)) >= r)
      BY <3>1
    <3>4. Cardinality(Upto(m - 1)) \in Nat /\ Cardinality(Below(m)) = Cardinality(Upto(m - 1))
      BY <1>2, <3>2
    <3> HIDE DEF Upto, Below
    <3> QED BY <3>3, <3>4
  <2> QED BY <2>1, <2>2
<1>6. Cardinality(Upto(m)) >= r
  OBVIOUS
<1>7. PICK x \in 1..n : t[x] = m
  <2>1. SUFFICES ASSUME \A x \in 1..n : t[x] # m PROVE FALSE
    OBVIOUS
  <2>2. Upto(m) = Below(m)
    BY <1>1, <2>1
  <2> HIDE DEF Upto, Below
  <2> QED BY <1>2, <1>5, <1>6, <2>2
<1> QED BY <1>5, <1>6, <1>7 DEF OfRank

LEMMA LimitType == Limit \in Nat
BY SMT DEF Limit

LEMMA LimitOverflow == Overflow \in Nat /\ Limit <= Overflow
BY SMT DEF Limit, Overflow

LEMMA BucketLimit ==
  ASSUME NEW ns \in Nat
  PROVE  /\ bucket_index(ns) < kBuckets <=> ns < Limit
         /\ ns < Limit =>
              /\ bucket_to_ns(bucket_index(ns)) <= ns
              /\ ns - bucket_to_ns(bucket_index(ns)) < Resolution(ns)
BY BucketBounds, SMT DEF Limit

ReachedAt(h, r) == {k \in DOMAIN h.buckets \cup {0} : Cumulative(h, k) >= r}

(* The value the loop returns for a rank that a sample x has. *)
LEMMA RankReported ==
  ASSUME NEW t \in Seq(Nat), NEW n \in Nat \ {0}, n <= Len(t), NEW h, Pictures(h, t, n),
         NEW r \in Nat \ {0}, NEW x \in 1..n, OfRank(t, n, t[x], r)
  PROVE  /\ t[x] < Limit => ReachedAt(h, r) # {} /\ Min(ReachedAt(h, r)) = bucket_index(t[x])
         /\ t[x] >= Limit => ReachedAt(h, r) = {}
<1> DEFINE R  == ReachedAt(h, r)
           ns == t[x]
           b(i) == bucket_index(t[i])
           Count(k) == {i \in 1..n : b(i) < kBuckets /\ b(i) <= k}
           Upto  == {i \in 1..n : t[i] <= ns}
           Below == {i \in 1..n : t[i] < ns}
<1>1. n \in Nat /\ \A i \in 1..n : t[i] \in Nat /\ b(i) \in Nat
  <2>1. ASSUME NEW i \in 1..n PROVE t[i] \in Nat /\ b(i) \in Nat
    <3>1. i \in 1..Len(t)
      OBVIOUS
    <3>2. t[i] \in Nat
      BY <3>1, ElementOfSeq
    <3> QED BY <3>2, BucketType
  <2> QED BY <2>1
<1>2. \A i \in 1..n : b(i) < kBuckets <=> t[i] < Limit
  BY <1>1, BucketLimit
<1>3. \A i, j \in 1..n : t[i] <= t[j] /\ b(j) < kBuckets => b(i) <= b(j)
  BY <1>1, BucketsInOrder
<1>4. \A k \in Nat : Cumulative(h, k) = Cardinality(Count(k))
  BY <1>1, CumulativeCounts
<1>5. \A k \in R : k \in Nat
  <2>1. \A k \in DOMAIN h.buckets : \E i \in 1..n : b(i) = k
    BY DEF Pictures
  <2>2. \A k \in DOMAIN h.buckets : k \in Nat
    <3> HIDE DEF b
    <3> QED BY <1>1, <2>1
  <2>3. 0 \in Nat /\ \A k \in R : k \in DOMAIN h.buckets \/ k = 0
    BY DEF ReachedAt
  <2> HIDE DEF R
  <2> QED BY <2>2, <2>3
<1>6. /\ Cardinality(Below) < r /\ Cardinality(Upto) >= r
      /\ Cardinality(Below) \in Nat /\ Cardinality(Upto) \in Nat
  BY <1>1, CountedType DEF OfRank
<1>7. \A k \in Nat : Cardinality(Count(k)) \in Nat
  BY <1>1, CountedType
(* No bucket is reached with fewer samples than the rank. *)
<1>8. ASSUME NEW k \in R, Count(k) \subseteq Below PROVE FALSE
  <2>1. Count(k) \in SUBSET Below /\ Below \in SUBSET (1..n)
    BY <1>8
  <2>2. Cumulative(h, k) >= r /\ Cumulative(h, k) = Cardinality(Count(k))
    BY <1>4, <1>5 DEF ReachedAt
  <2> HIDE DEF Count, Below
  <2>3. Cardinality(Count(k)) <= Cardinality(Below)
    BY <1>1, <2>1, CountedLess
  <2>4. Cardinality(Count(k)) \in Nat
    BY <1>5, <1>7
  <2>5. Cardinality(Count(k)) >= r
    BY <2>2
  <2> QED BY <1>6, <2>3, <2>4, <2>5
<1>9. CASE ns < Limit
  <2>1. b(x) < kBuckets /\ b(x) \in Nat
    BY <1>1, <1>2, <1>9
  <2>2. b(x) \in DOMAIN h.buckets
    BY <2>1 DEF Pictures
  <2>3. Upto \subseteq Count(b(x))
    <3>1. ASSUME NEW i \in Upto PROVE i \in Count(b(x))
      <4>1. i \in 1..n /\ t[i] <= t[x]
        OBVIOUS
      <4> HIDE DEF b, Upto, Count
      <4>2. t[i] \in Nat /\ t[x] \in Nat
        BY <1>1, <4>1
      <4>3. t[i] < Limit
        BY <1>9, <4>1, <4>2, LimitType
      <4>4. b(i) < kBuckets /\ b(i) <= b(x)
        BY <1>2, <1>3, <2>1, <4>1, <4>3
      <4> QED BY <4>1, <4>4 DEF Count
    <3> QED BY <3>1
  <2>4. Cumulative(h, b(x)) >= r
    <3>1. Upto \in SUBSET Count(b(x)) /\ Count(b(x)) \in SUBSET (1..n)
      BY <2>3
    <3>2. Cumulative(h, b(x)) = Cardinality(Count(b(x)))
      BY <1>4, <2>1
    <3> HIDE DEF Count, Upto
    <3>3. Cardinality(Upto) <= Cardinality(Count(b(x)))
      BY <1>1, <3>1, CountedLess
    <3>4. Cardinality(Count(b(x))) \in Nat
      BY <1>7, <2>1
    <3>5. Cardinality(Count(b(x))) >= r
      BY <1>6, <3>3, <3>4
    <3> QED BY <3>2, <3>5
  <2>5. b(x) \in R
    BY <2>2, <2>4 DEF ReachedAt
  <2>6. ASSUME NEW k \in R PROVE b(x) <= k
    <3>1. SUFFICES ASSUME k < b(x) PROVE FALSE
      BY <1>5, <2>1
    <3>2. ASSUME NEW i \in Count(k) PROVE i \in Below
      <4> HIDE DEF b, R, Below, Upto
      <4>1. i \in 1..n /\ b(i) < kBuckets /\ b(i) <= k
        OBVIOUS
      <4> HIDE DEF Count
      <4>2. b(i) \in Nat /\ k \in Nat
        BY <1>1, <1>5, <4>1
      <4>3. b(i) < b(x) /\ ~(b(x) <= b(i))
        BY <2>1, <3>1, <4>1, <4>2
      <4>4. ~(t[x] <= t[i])
        BY <1>1, <1>3, <4>1, <4>3
      <4>5. t[i] \in Nat /\ t[x] \in Nat
        BY <1>1, <4>1
      <4>6. t[i] < t[x]
        BY <4>4, <4>5
      <4> QED BY <4>1, <4>6 DEF Below
    <3>3. Count(k) \subseteq Below
      BY <3>2
    <3> QED BY <1>8, <3>3
  <2>7. \A k \in R : (\A j \in R : k <= j) => k = b(x)
    <3> HIDE DEF b
    <3> QED BY <1>5, <2>1, <2>5, <2>6
  <2>8. Min(R) = b(x)
    <3> HIDE DEF b
    <3> QED BY <2>5, <2>6, <2>7 DEF Min
  <2> QED BY <1>1, <1>9, <2>5, <2>8, LimitType
<1>10. CASE ns >= Limit
  <2>1. ASSUME NEW k \in R PROVE FALSE
    <3>1. ASSUME NEW i \in Count(k) PROVE i \in Below
      <4>1. i \in 1..n /\ b(i) < kBuckets
        OBVIOUS
      <4> HIDE DEF b, Count
      <4>2. t[i] < Limit
        BY <1>2, <4>1
      <4>3. t[i] \in Nat /\ t[x] \in Nat
        BY <1>1, <4>1
      <4>4. t[i] < t[x]
        BY <1>10, <4>2, <4>3, LimitType
      <4> QED BY <4>1, <4>4
    <3>2. Count(k) \subseteq Below
      BY <3>1
    <3> QED BY <1>8, <3>2
  <2>2. R = {}
    BY <2>1
  <2> QED BY <1>1, <1>10, <2>2, LimitType
<1> QED BY <1>1, <1>9, <1>10, LimitType

Rank(n, p) == (n * p) \div 100

LEMMA RankBound ==
  ASSUME NEW n \in Nat, NEW p \in 0..100
  PROVE  Rank(n, p) \in 0..n
<1>1. n * p \in Nat /\ n * p <= n * 100
  BY SMT
<1> DEFINE a == n * p
<1>2. a \in Nat /\ a <= n * 100
  BY <1>1
<1> HIDE DEF a
<1>3. a \div 100 \in 0..n
  BY <1>2, SMT
<1> QED BY <1>3 DEF a, Rank

(* What percentile() computes, for every sequence of latencies. *)
Ranks(t, n, h, p, r) ==
  /\ r = 0 => percentile(h, p) = 0
  /\ r > 0 =>
       \E x \in 1..n :
         /\ OfRank(t, n, t[x], r)
         /\ t[x] < Limit =>
              percentile(h, p) <= t[x] /\ t[x] - percentile(h, p) < Resolution(t[x])
         /\ t[x] >= Limit => percentile(h, p) = h.max

LEMMA PercentileRanks ==
  ASSUME NEW t \in Seq(Nat), NEW n \in Nat, n <= Len(t), NEW h, Pictures(h, t, n),
         NEW p \in 0..100, NEW r, r = Rank(n, p)
  PROVE  Ranks(t, n, h, p, r)
<1> DEFINE R == ReachedAt(h, r)
<1>1. r \in 0..n /\ h.count = n
  BY RankBound DEF Pictures
<1>2. n > 0 => percentile(h, p) = IF R = {} THEN h.max ELSE bucket_to_ns(Min(R))
  BY <1>1 DEF percentile, ReachedAt, Rank
<1>3. \A i \in 1..n : t[i] \in Nat
  BY ElementOfSeq
<1>4. ASSUME r = 0 PROVE percentile(h, p) = 0
  <2>1. CASE n = 0
    BY <1>1, <2>1 DEF percentile
  <2>2. CASE n > 0
    <3>1. \A k \in DOMAIN h.buckets : k \in Nat
      BY <1>3, BucketType DEF Pictures
    <3>2. Cumulative(h, 0) >= 0
      <4>1. Cumulative(h, 0) =
              Cardinality({i \in 1..n : bucket_index(t[i]) < kBuckets /\ bucket_index(t[i]) <= 0})
        BY CumulativeCounts
      <4>2. Cumulative(h, 0) \in Nat
        BY <4>1, CountedType
      <4> QED BY <4>2
    <3>3. 0 \in R /\ \A k \in R : k \in Nat
      BY <1>4, <3>1, <3>2 DEF ReachedAt
    <3> HIDE DEF R
    <3>4. Min(R) = 0
      BY <3>3 DEF Min
    <3> QED BY <1>2, <2>2, <3>3, <3>4 DEF bucket_to_ns
  <2> QED BY <2>1, <2>2
<1>5. ASSUME r > 0
      PROVE  \E x \in 1..n :
                /\ OfRank(t, n, t[x], r)
                /\ t[x] < Limit =>
                     percentile(h, p) <= t[x] /\ t[x] - percentile(h, p) < Resolution(t[x])
                /\ t[x] >= Limit => percentile(h, p) = h.max
  <2>1. r \in 1..n /\ n \in Nat \ {0} /\ r \in Nat \ {0} /\ n > 0
    BY <1>1, <1>5
  <2>2. PICK x \in 1..n : OfRank(t, n, t[x], r)
    <3>1. h.max \in Nat /\ \A i \in 1..n : t[i] <= h.max
      BY DEF Pictures
    <3> QED BY <2>1, <3>1, RankExists
  <2>3. /\ t[x] < Limit => R # {} /\ Min(R) = bucket_index(t[x])
        /\ t[x] >= Limit => R = {}
    BY <2>1, <2>2, RankReported
  <2> HIDE DEF R
  <2>4. t[x] < Limit =>
          percentile(h, p) <= t[x] /\ t[x] - percentile(h, p) < Resolution(t[x])
    <3>1. ASSUME t[x] < Limit PROVE percentile(h, p) = bucket_to_ns(bucket_index(t[x]))
      BY <1>2, <2>1, <2>3, <3>1
    <3>2. t[x] \in Nat
      BY <1>3
    <3> QED BY <3>1, <3>2, BucketLimit
  <2>5. t[x] >= Limit => percentile(h, p) = h.max
    BY <1>2, <2>1, <2>3
  <2> QED BY <2>2, <2>4, <2>5
<1> QED BY <1>4, <1>5 DEF Ranks

-----------------------------------------------------------------------------
(* The latencies the benchmark has recorded: one for each call that has    *)
(* returned, in the order of the calls.                                    *)
Recorded ==
  /\ timing \in Seq(Nat) /\ Len(timing) >= MaxEvents
  /\ latency.count \in 0..event_count
  /\ runner = "submit" => latency.count < event_count
  /\ Pictures(latency, timing, latency.count)

LEMMA InitRecorded ==
  ASSUME BenchmarkInit
  PROVE  Recorded
<1>1. /\ timing \in Seq(Nat) /\ Len(timing) >= MaxEvents
      /\ latency = EmptyHistogram /\ event_count = 0 /\ runner = "next"
  BY DrawsAssumption DEF BenchmarkInit
<1>2. latency.count = 0 /\ latency.max = 0 /\ DOMAIN latency.buckets = {}
  BY <1>1 DEF EmptyHistogram
<1>3. Pictures(latency, timing, 0)
  BY <1>2 DEF Pictures
<1> QED BY <1>1, <1>2, <1>3 DEF Recorded

LEMMA NextRecorded ==
  ASSUME Generated, Recorded, [BenchmarkNext]_benchmarkVars
  PROVE  Recorded'
<1>1. event_count \in 0..MaxEvents /\ MaxEvents \in Nat
  BY DrawsAssumption DEF Generated
<1>2. ASSUME Generates PROVE Recorded'
  <2>1. /\ event_count' = event_count + 1
        /\ UNCHANGED <<latency, timing>>
    BY <1>2 DEF Generates
  <2> QED BY <1>1, <2>1 DEF Recorded
<1>3. ASSUME UNCHANGED <<event_count, latency, timing>>, runner' = runner \/ runner' # "submit"
      PROVE  Recorded'
  BY <1>3 DEF Recorded
<1>4. CASE RecordLatency
  <2> DEFINE n == latency.count
  <2>1. /\ timing' = timing /\ event_count' = event_count /\ runner' # "submit"
        /\ latency' = record(latency, timing[n + 1]) /\ runner = "submit"
    BY <1>4 DEF RecordLatency, generatorVars
  <2>2. n \in Nat /\ n + 1 <= event_count /\ n + 1 <= Len(timing)
    BY <1>1, <2>1 DEF Recorded
  <2>3. Pictures(latency', timing, n + 1)
    BY <2>1, <2>2, RecordPictures DEF Recorded
  <2>4. latency'.count = n + 1
    BY <2>3 DEF Pictures
  <2> HIDE DEF n
  <2> QED BY <1>1, <2>1, <2>2, <2>3, <2>4 DEF Recorded
<1>5. CASE \/ \E side \in Sides : \E price \in GeneratorPrices(side), quantity \in Quantities :
                GenerateNew(side, price, quantity)
           \/ \E idx \in 1..Len(live_orders) : GenerateCancel(idx)
  BY <1>2, <1>5 DEF GenerateNew, GenerateCancel
<1>6. CASE EngineStep \/ GeneratorEnds \/ Reported \/ UNCHANGED benchmarkVars
  BY <1>3, <1>6 DEF EngineStep, GeneratorEnds, Reported, benchmarkVars, generatorVars
<1> QED BY <1>4, <1>5, <1>6 DEF BenchmarkNext

(* The percentiles that report() prints, for every clock and every number  *)
(* of calls: the latency of the rank, rounded down to the resolution of    *)
(* its range, when that is shorter than 9 ms, and the longest latency when *)
(* it is 10 ms or more.                                                    *)
THEOREM PercentilesRank == BenchmarkSpec => []PercentileIsRank
<1>1. BenchmarkInit => Recorded
  BY InitRecorded
<1>2. BenchmarkInv /\ Recorded /\ [BenchmarkNext]_benchmarkVars => Recorded'
  BY NextRecorded DEF BenchmarkInv
<1>3. Generated /\ Recorded => PercentileIsRank
  <2> DEFINE n == latency.count
             samples == {timing[i] : i \in 1..n}
  <2>1. SUFFICES ASSUME Generated, Recorded, NEW p \in 0..100, NEW r, r = Rank(n, p)
                 PROVE  /\ r = 0 => percentile(latency, p) = 0
                        /\ r > 0 =>
                             \E ns \in samples :
                               /\ IsOfRank(ns, r)
                               /\ ns < Limit => /\ percentile(latency, p) <= ns
                                                /\ ns - percentile(latency, p) < Resolution(ns)
                               /\ ns >= Overflow => percentile(latency, p) = Max(samples)
    BY DEF PercentileIsRank, PercentilesReported, Rank
  <2>2. /\ timing \in Seq(Nat) /\ n \in Nat /\ n <= Len(timing)
        /\ Pictures(latency, timing, n)
    BY <2>1, DrawsAssumption DEF Recorded, Generated
  <2>3. Ranks(timing, n, latency, p, r)
    <3> HIDE DEF n
    <3> QED BY <2>1, <2>2, PercentileRanks
  <2>4. n > 0 => Max(samples) = latency.max
    <3>1. SUFFICES ASSUME n > 0 PROVE Max(samples) = latency.max
      OBVIOUS
    <3>2. latency.max \in samples /\ \A s \in samples : s \in Nat /\ s <= latency.max
      BY <2>2, <3>1, ElementOfSeq DEF Pictures
    <3>3. latency.max \in Nat
      BY <2>2 DEF Pictures
    <3> HIDE DEF samples
    <3>4. \A s \in samples : (\A u \in samples : s >= u) => s = latency.max
      BY <3>2, <3>3
    <3>5. \A u \in samples : latency.max >= u
      BY <3>2, <3>3
    <3> QED BY <3>2, <3>4, <3>5 DEF Max
  <2>5. ASSUME r > 0
        PROVE  \E ns \in samples :
                 /\ IsOfRank(ns, r)
                 /\ ns < Limit => /\ percentile(latency, p) <= ns
                                  /\ ns - percentile(latency, p) < Resolution(ns)
                 /\ ns >= Overflow => percentile(latency, p) = Max(samples)
    <3>1. PICK x \in 1..n :
             /\ OfRank(timing, n, timing[x], r)
             /\ timing[x] < Limit =>
                  /\ percentile(latency, p) <= timing[x]
                  /\ timing[x] - percentile(latency, p) < Resolution(timing[x])
             /\ timing[x] >= Limit => percentile(latency, p) = latency.max
      BY <2>3, <2>5 DEF Ranks
    <3>2. n > 0
      BY <2>2, <3>1
    <3>3. timing[x] \in samples /\ timing[x] \in Nat
      BY <2>2, ElementOfSeq
    <3>4. IsOfRank(timing[x], r)
      BY <3>1 DEF IsOfRank, OfRank
    <3> HIDE DEF samples
    <3>5. timing[x] >= Overflow => timing[x] >= Limit
      BY <3>3, LimitType, LimitOverflow
    <3> QED BY <2>4, <3>1, <3>2, <3>3, <3>4, <3>5
  <2> QED BY <2>3, <2>5 DEF Ranks
<1>4. BenchmarkInv => Generated
  BY DEF BenchmarkInv
<1> QED BY <1>1, <1>2, <1>3, <1>4, BenchmarkInvariance, PTL DEF BenchmarkSpec

=============================================================================
