------------------------------- MODULE Replay -------------------------------
(***************************************************************************)
(* Snapshots and replay: a live engine, the file SnapshotManager           *)
(* (src/src/snapshot/snapshot.cpp) writes of it, the event file of what it *)
(* was sent afterwards, and the replay tool (src/tools/replay.cpp), which  *)
(* loads the snapshot into a second engine, submits the events that        *)
(* CsvReplayReader (src/src/feed/csv_replay.cpp) reads from the event file *)
(* and compares the trades with the expected ones.                         *)
(*                                                                         *)
(* The snapshot file is a sequence of fields.  A crash of the process that *)
(* saves, or a full disk, leaves a prefix of it; a field cut in two reads  *)
(* like a missing one, because both make the read fail.  Left out:         *)
(* sequence_, which is only printed, and files that cannot be opened.      *)
(***************************************************************************)
EXTENDS MatchingEngine

CONSTANTS
  Noise,    \* what an event file starts with: lines that the reader skips
  MaxLines  \* bound: events after the snapshot

ASSUME MaxLinesAssumption == MaxLines \in Nat

VARIABLES
  file,         \* the snapshot file, <<>> if there is none or nothing in it
  since,        \* where the event file starts: "start", "snapshot", or "nowhere"
  events,       \* the lines of the event file, after its header
  lines_left,   \* bound: the events still to come
  expected,     \* the trade lines of the live engine since the snapshot
  tool,         \* where the replay tool is
  lines,        \* the lines that reader has not read yet
  trade_lines,  \* trade_lines
  verdict,      \* the exit code, and the expected file it was given
  r_book, r_pending_stops, r_stack, r_result,  \* the tool's engine
  r_ledger, r_stop_arrivals, r_accepted        \* and its history

fileVars == <<file, since, events, lines_left, expected>>
toolVars == <<tool, lines, trade_lines, verdict>>
restoredVars == <<r_book, r_pending_stops, r_stack, r_result, r_ledger,
                  r_stop_arrivals, r_accepted>>
replayVars == <<vars, fileVars, toolVars, restoredVars>>

(* The tool's engine takes every event: no rule is imposed on it. *)
Restored == INSTANCE MatchingEngine WITH
  Discipline <- {},
  book <- r_book, pending_stops <- r_pending_stops, stack <- r_stack,
  result <- r_result, ledger <- r_ledger, stop_arrivals <- r_stop_arrivals,
  accepted <- r_accepted

NoVerdict == [code |-> -1, given |-> <<>>]

ReplayInit ==
  /\ Init
  /\ file = <<>> /\ since = "nowhere"
  /\ events = <<>> /\ lines_left = MaxLines /\ expected = <<>>
  /\ tool = "off" /\ lines = <<>> /\ trade_lines = <<>> /\ verdict = NoVerdict
  /\ Restored!Init

-----------------------------------------------------------------------------
(* SnapshotManager. *)

(* The queue entries of a side that order_ids() returns and id_map_ knows, *)
(* as pairs of a price and a position.                                     *)
EntryId(b, side, entry) == b.levels[side][entry[1]].queue[entry[2]]
WrittenEntries(b, side) ==
  {entry \in UNION {{p} \X (1..Len(b.levels[side][p].queue)) : p \in DOMAIN b.levels[side]} :
     /\ EntryId(b, side, entry) \notin b.levels[side][entry[1]].cancelled
     /\ has_order(b, EntryId(b, side, entry))}

(* Levels come in the order of the side's std::map, entries in that of the *)
(* queue.                                                                  *)
WrittenBefore(side, x, y) ==
  IF x[1] = y[1] THEN x[2] < y[2] ELSE IF side = Buy THEN x[1] > y[1] ELSE x[1] < y[1]

(* write_orders_from_side: the i-th order is the one after i - 1 others. *)
OrdersOf(b, side) ==
  LET entries == WrittenEntries(b, side)
      Nth(i) == CHOOSE entry \in entries :
                  Cardinality({x \in entries : WrittenBefore(side, x, entry)}) = i - 1
  IN  [i \in 1..Cardinality(entries) |-> b.id_map[EntryId(b, side, Nth(i))]]

Field(name, value) == <<name, value>>
Each(name, seq) == [i \in 1..Len(seq) |-> Field(name, seq[i])]

(* What save() writes: the count is that of id_map_, the orders are those  *)
(* the queues hold.                                                        *)
Image(b, stops) ==
  <<Field("magic", 1), Field("sequence", 0), Field("ltp", b.last_trade_price),
    Field("order_count", Cardinality(DOMAIN b.id_map))>>
    \o Each("order", OrdersOf(b, Buy) \o OrdersOf(b, Sell))
    \o <<Field("stop_count", Len(stops))>>
    \o Each("stop", stops)

(* save(): opening the file has emptied it, then the fields are written.  *)
(* A process that crashes in it leaves the part that is already written.   *)
Save(written) ==
  /\ tool = "off" /\ Idle
  /\ file = <<>> /\ since = "nowhere"
  /\ LET image == Image(book, pending_stops)
     IN  /\ written <= Len(image)
         /\ file' = SubSeq(image, 1, written)
         /\ \/ written = Len(image) /\ since' = "snapshot" /\ events' \in Noise
            \/ written < Len(image) /\ UNCHANGED <<since, events>>
  /\ UNCHANGED <<vars, lines_left, expected, toolVars, restoredVars>>

(* load(): the n-th read of the file, or the initial value of the variable *)
(* read into when the file has ended.                                      *)
HasMagic(f) == f # <<>> /\ f[1] = Field("magic", 1)
Read(f, n, initially) == IF n <= Len(f) THEN f[n][2] ELSE initially
DefaultOrder == [id |-> 0, side |-> Buy, type |-> "Limit", price |-> 0, stop_price |-> 0,
                 quantity |-> 0, peak_qty |-> 0, reserve_qty |-> 0]

OrderCount(f) == Read(f, 4, 0)
StopCount(f) == Read(f, 5 + OrderCount(f), 0)

(* A fault: the last trade price stays that of a new engine. *)
LoadedBook_NoPrice(f) ==
  FoldLeft(insert_order, EmptyBook,
           [i \in 1..OrderCount(f) |-> Read(f, 4 + i, DefaultOrder)])

LoadedBook(f) ==
  FoldLeft(insert_order, [EmptyBook EXCEPT !.last_trade_price = Read(f, 3, 0)],
           [i \in 1..OrderCount(f) |-> Read(f, 4 + i, DefaultOrder)])
LoadedStops(f) ==
  [i \in 1..StopCount(f) |-> Read(f, 5 + OrderCount(f) + i, DefaultOrder)]

(* A fault: the stream is not looked at after the stops. *)
Loads_Unchecked(f) == HasMagic(f) /\ Len(f) >= 5 + OrderCount(f)

(* The return value: no read met the end of the file. *)
Loads(f) == HasMagic(f) /\ Len(f) >= 5 + OrderCount(f) + StopCount(f)

-----------------------------------------------------------------------------
(* The live engine, and the event file its events are written to. *)

(* An empty field of a line is <<>>, any other <<value>>. *)
Optional(n) == IF n = 0 THEN <<>> ELSE <<n>>
NewLine(id, t) == [event_type |-> "NEW", order_id |-> id, order |-> t]
CancelLine(id) == [event_type |-> "CANCEL", order_id |-> id]
ModifyLine(id, m) ==
  [event_type |-> "MODIFY", order_id |-> id,
   price |-> Optional(m.new_price), quantity |-> Optional(m.new_quantity)]

trade_to_csv(trade) == <<trade.aggressor_id, trade.passive_id, trade.price, trade.quantity>>
TradeLines(trades) == [i \in 1..Len(trades) |-> trade_to_csv(trades[i])]

(* The event file can also start with the first event of all. *)
RecordFromStart ==
  /\ tool = "off" /\ Idle
  /\ file = <<>> /\ since = "nowhere"
  /\ accepted = 0
  /\ since' = "start"
  /\ events' \in Noise
  /\ UNCHANGED <<vars, file, lines_left, expected, toolVars, restoredVars>>

(* Every event from then on becomes a line. *)
Live(line, Event) ==
  /\ tool = "off"
  /\ Event
  /\ \/ /\ since # "nowhere"
        /\ lines_left > 0
        /\ lines_left' = lines_left - 1
        /\ events' = Append(events, line)
     \/ /\ since = "nowhere" /\ file = <<>>
        /\ UNCHANGED <<lines_left, events>>
  /\ UNCHANGED <<file, since, expected, toolVars, restoredVars>>

LiveNew == \E id \in Ids, t \in NewOrders : Live(NewLine(id, t), SubmitNew(WithId(t, id)))
LiveCancel ==
  \E id \in Ids :
    Live(CancelLine(id), CancelPending(id) \/ CancelResting(id) \/ CancelUnknown(id))
LiveModify ==
  \E id \in Ids, m \in Amendments :
    Live(ModifyLine(id, m), ModifyRequeue(id, m) \/ ModifyInPlace(id, m) \/ ModifyUnknown(id))

LiveStep ==
  /\ Step
  /\ expected' =
       IF since = "nowhere" THEN expected
       ELSE expected \o TradeLines(SubSeq(result'.trades, Len(result.trades) + 1,
                                          Len(result'.trades)))
  /\ UNCHANGED <<file, since, events, lines_left, toolVars, restoredVars>>

-----------------------------------------------------------------------------
(* The replay tool. *)

Exit(code, given) ==
  /\ tool' = "exited"
  /\ verdict' = [code |-> code, given |-> given]

(* A fault: the tool forgets `engine.pending_stops() = stops`. *)
LoadSnapshot_NoStops ==
  /\ Loads(file)
  /\ tool' = "reading"
  /\ r_book' = LoadedBook(file)
  /\ UNCHANGED <<verdict, r_pending_stops, r_stop_arrivals>>

LoadSnapshot ==
  /\ Loads(file)
  /\ tool' = "reading"
  /\ r_book' = LoadedBook(file)
  /\ r_pending_stops' = LoadedStops(file)
  /\ r_stop_arrivals' = [i \in 1..StopCount(file) |-> LoadedStops(file)[i].id]
  /\ UNCHANGED verdict

(* A file with the magic number has changed the book when the load fails. *)
LoadFails ==
  /\ ~Loads(file)
  /\ Exit(1, <<>>)
  /\ r_book' = IF HasMagic(file) THEN LoadedBook(file) ELSE r_book
  /\ UNCHANGED <<r_pending_stops, r_stop_arrivals>>

NoSnapshot ==
  /\ tool' = "reading"
  /\ UNCHANGED <<verdict, r_book, r_pending_stops, r_stop_arrivals>>

(* main() up to its loop. *)
RunTool ==
  /\ tool = "off" /\ Idle
  /\ lines' = events
  /\ \/ since = "start" /\ NoSnapshot
     \/ since # "start" /\ (LoadSnapshot \/ LoadFails)
  /\ UNCHANGED <<vars, fileVars, trade_lines, r_stack, r_result, r_ledger, r_accepted>>

(* CsvReplayReader::next: blank lines are skipped, lines that do not parse *)
(* are counted and skipped, the first event is returned.                   *)
EventTypes == {"NEW", "CANCEL", "MODIFY"}
IsNext(i) ==
  /\ i \in 1..Len(lines)
  /\ lines[i].event_type \in EventTypes
  /\ \A j \in 1..(i - 1) : lines[j].event_type \notin EventTypes

(* An empty price or quantity of a MODIFY line reads as 0. *)
Parsed(field) == IF field = <<>> THEN 0 ELSE field[1]
Submitted(line) ==
  LET id == line.order_id
  IN  \/ /\ line.event_type = "NEW"
         /\ Restored!SubmitNew(WithId(line.order, id))
      \/ /\ line.event_type = "CANCEL"
         /\ Restored!CancelPending(id) \/ Restored!CancelResting(id) \/ Restored!CancelUnknown(id)
      \/ /\ line.event_type = "MODIFY"
         /\ LET m == [new_price |-> Parsed(line.price), new_quantity |-> Parsed(line.quantity)]
            IN  Restored!ModifyRequeue(id, m) \/ Restored!ModifyInPlace(id, m)
                  \/ Restored!ModifyUnknown(id)

(* One iteration of the loop of main(): submit, its steps, its trades. *)
SubmitLine ==
  /\ tool = "reading"
  /\ \E i \in 1..Len(lines) :
       /\ IsNext(i)
       /\ Submitted(lines[i])
       /\ lines' = SubSeq(lines, i + 1, Len(lines))
  /\ tool' = "submitting"
  /\ UNCHANGED <<vars, fileVars, trade_lines, verdict>>

RestoredStep == Restored!Step /\ UNCHANGED <<vars, fileVars, toolVars>>

CollectTrades ==
  /\ tool = "submitting" /\ Restored!Idle
  /\ trade_lines' = trade_lines \o TradeLines(r_result.trades)
  /\ tool' = "reading"
  /\ UNCHANGED <<vars, fileVars, lines, verdict, restoredVars>>

(* A fault: trades beyond the expected ones are not noticed. *)
Matches_Prefix(got, wanted) ==
  \A i \in 1..Len(wanted) : i <= Len(got) /\ got[i] = wanted[i]

(* The comparison: line by line, then the number of lines. *)
Matches(got, wanted) ==
  /\ \A i \in 1..Len(wanted) : i <= Len(got) /\ got[i] = wanted[i]
  /\ Len(wanted) = Len(got)

(* The expected file, without its header: what the live engine traded      *)
(* after a blank line, <<>>, or one line more, or one line less.           *)
ExpectedFiles ==
  {<<<<>>>> \o expected, Append(expected, <<0, 0, 0, 0>>)}
    \cup (IF expected = <<>> THEN {} ELSE {Front(expected)})
NotBlank(seq) == SelectSeq(seq, LAMBDA line : line # <<>>)

Compare ==
  /\ tool = "reading"
  /\ \A i \in 1..Len(lines) : ~IsNext(i)
  /\ \E given \in ExpectedFiles :
       Exit(IF Matches(trade_lines, NotBlank(given)) THEN 0 ELSE 1, NotBlank(given))
  /\ lines' = <<>>
  /\ UNCHANGED <<vars, fileVars, trade_lines, restoredVars>>

Exited == tool = "exited" /\ UNCHANGED replayVars

ReplayNext ==
  \/ LiveNew \/ LiveCancel \/ LiveModify \/ LiveStep
  \/ RecordFromStart
  \/ \E written \in 0..(5 + MaxOrders) : Save(written)
  \/ RunTool \/ SubmitLine \/ RestoredStep \/ CollectTrades \/ Compare
  \/ Exited

ReplaySpec == ReplayInit /\ [][ReplayNext]_replayVars

-----------------------------------------------------------------------------
(* Properties *)

(* docs/engine-design.md "replay from a snapshot + remaining events        *)
(* produces the same output as replay from scratch": whatever state the    *)
(* engine was saved in - dead queue entries, replenished icebergs, pending *)
(* stops - and whatever NEW, CANCEL and MODIFY events followed, the        *)
(* replayed trades are the trades of the live engine, in their order, and  *)
(* the tool exits with 0.  A REPLACE cannot be replayed: the reader does   *)
(* not know the event and skips its line.                                  *)
ReplayReproduces ==
  tool = "exited" /\ verdict.given = expected /\ since # "nowhere" =>
    verdict.code = 0 /\ trade_lines = expected

(* docs/testing.md "Exit code 0 means all trades match": an expected file  *)
(* with a trade less, a trade more or none of them is always told apart.   *)
VerdictExact == verdict.code = 0 => verdict.given = expected

(* A snapshot cut short by a crash in save() is never replayed from. *)
OnlyCompleteLoaded == tool \in {"reading", "submitting"} => since # "nowhere"

(* The engine of the tool ends as the live engine has: the same queues     *)
(* with the same open quantities, the same stops pending in the same       *)
(* order, the same last trade price.  Only what no decision depends on,    *)
(* dead queue entries and level volumes, may differ.                       *)
Queues(b) ==
  [side \in Sides |-> [p \in DOMAIN b.levels[side] |-> order_ids(b.levels[side][p])]]
RestoredAgrees ==
  tool = "reading" /\ (\A i \in 1..Len(lines) : ~IsNext(i)) =>
    /\ Queues(r_book) = Queues(book)
    /\ r_book.id_map = book.id_map
    /\ r_book.last_trade_price = book.last_trade_price
    /\ r_pending_stops = pending_stops

=============================================================================
