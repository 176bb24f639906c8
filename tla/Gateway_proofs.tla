--------------------------- MODULE Gateway_proofs ---------------------------
(***************************************************************************)
(* The order in which stop() ends the threads of the gateway, for rings of *)
(* any size and any traffic: a consumer ends only when its producer has    *)
(* and its ring is empty, and at most one order is left in the inbound     *)
(* ring, whose producer T1 is not joined before its consumer T2 is told to *)
(* stop.                                                                   *)
(*                                                                         *)
(* Neither property is inductive.  The invariant adds how far the main     *)
(* thread has come when a flag is cleared (Flags), what the threads have   *)
(* seen of the flags (Seen), and what T1 still has in hand when T2 has     *)
(* ended (Stranded).                                                       *)
(*                                                                         *)
(* Then the accounts of the gateway (Counted): what went into a ring has   *)
(* come out, is in it or was counted as dropped, in increasing order, and  *)
(* what T2 has in hand is exactly what it has still to hand over.          *)
(***************************************************************************)
EXTENDS Gateway, SequenceTheorems, TLAPS

Ending == {"join_t1", "join_t2", "join_t3", "join_t4", "stopped"}

(* A flag that is not set has not been set yet, or main has cleared it. *)
Flags ==
  /\ t2 # "off" /\ ~running => main \in Ending
  /\ t3 # "off" /\ ~d_running => main \in {"join_t3", "join_t4", "stopped"}
  /\ t4 # "off" /\ ~r_running => main \in {"join_t4", "stopped"}
  /\ main \in {"join_t3", "join_t4", "stopped"} => t2 = "done"

(* A thread that is to be started is off. *)
Unstarted ==
  /\ main = "start_t1" => t1 = "off"
  /\ main = "start_t2" => t1 = "off" /\ t2 = "off"
  /\ main \in {"start_dispatcher", "start_replay", "bind_pull"} =>
       t1 = "off" /\ t2 = "off" /\ t3 = "off"
  /\ main \in {"start_replay", "bind_pull"} => t4 = "off"

(* A thread in its last round has seen its flag cleared. *)
Seen ==
  /\ t2_last => ~running /\ t2 # "off"
  /\ t2 = "done" => t2_last
  /\ t3_last => ~d_running /\ t3 # "off"
  /\ t3 = "done" => t3_last /\ outbound = <<>>
  /\ t4_last => ~r_running /\ t4 # "off"
  /\ t4 = "done" => t4_last /\ replay = <<>>
  /\ t2 \notin {"emit", "snapshots"} => emit = <<>>

(* When T2 has ended, T1 has at most one more order to push. *)
Stranded ==
  t2 = "done" =>
    /\ Len(inbound) <= 1
    /\ t1 \in {"receive", "push"} => inbound = <<>>

Numbered == inbound \in Seq(Nat) /\ received \in Nat
Booleans ==
  /\ running \in BOOLEAN /\ d_running \in BOOLEAN /\ r_running \in BOOLEAN
  /\ t2_last \in BOOLEAN /\ t3_last \in BOOLEAN /\ t4_last \in BOOLEAN

Inv == Flags /\ Unstarted /\ Seen /\ Stranded /\ Numbered /\ Booleans

LEMMA InitInv == Init => Inv
<1> SUFFICES ASSUME Init PROVE Inv
  OBVIOUS
<1>1. /\ t1 = "off" /\ t2 = "off" /\ t3 = "off" /\ t4 = "off"
      /\ running = FALSE /\ d_running = FALSE /\ r_running = FALSE
      /\ t2_last = FALSE /\ t3_last = FALSE /\ t4_last = FALSE
      /\ main = "bind_pull" /\ emit = <<>> /\ received = 0 /\ inbound = <<>>
  BY DEF Init, Inbound!Init
<1>2. Flags /\ Unstarted /\ Seen /\ Stranded
  BY <1>1 DEF Flags, Unstarted, Seen, Stranded, Ending
<1>3. Numbered
  BY <1>1 DEF Numbered
<1>4. Booleans
  BY <1>1, Zenon DEF Booleans
<1> QED BY <1>2, <1>3, <1>4 DEF Inv

LEMMA MainInv == Inv /\ Main => Inv'
<1> SUFFICES ASSUME Inv, Main PROVE Inv'
  OBVIOUS
<1> USE DEF Inv, Flags, Unstarted, Seen, Stranded, Numbered, Booleans, Ending, MainMoves,
            OthersStay, flagVars, clientVars, t1Vars, t2Vars, t3Vars, t4Vars, queueVars,
            inboundVars, outboundVars, replayVars
<1>1. CASE BindPull BY <1>1 DEF BindPull
<1>2. CASE StartReplay BY <1>2 DEF StartReplay
<1>3. CASE StartDispatcher BY <1>3 DEF StartDispatcher
<1>4. CASE StartT2 BY <1>4 DEF StartT2
<1>5. CASE StartT1 BY <1>5 DEF StartT1
<1>6. CASE StopBegins BY <1>6 DEF StopBegins
<1>7. CASE JoinT1 BY <1>7 DEF JoinT1
<1>8. CASE JoinT2 BY <1>8 DEF JoinT2
<1>9. CASE JoinT3 BY <1>9 DEF JoinT3
<1>10. CASE JoinT4 BY <1>10 DEF JoinT4
<1> QED BY <1>1, <1>2, <1>3, <1>4, <1>5, <1>6, <1>7, <1>8, <1>9, <1>10 DEF Main

LEMMA T1Inv == Inv /\ T1 => Inv'
<1> SUFFICES ASSUME Inv, T1 PROVE Inv'
  OBVIOUS
<1> USE DEF Inv, Flags, Unstarted, Seen, Stranded, Numbered, Booleans, T1Stays, flagVars,
            t2Vars, t3Vars, t4Vars, inboundVars, outboundVars, replayVars
<1>1. CASE T1Test BY <1>1 DEF T1Test
<1>2. CASE T1Receive BY <1>2 DEF T1Receive
<1>3. CASE T1Push
  <2>1. /\ inbound' \in Seq(Nat)
        /\ Len(inbound') <= Len(inbound) + 1 /\ Len(inbound) \in Nat
        /\ Len(inbound') \in Nat
    BY <1>3 DEF T1Push, Inbound!Offer, Inbound!Put, Inbound!Drop
  <2>2. inbound = <<>> => Len(inbound) = 0
    OBVIOUS
  <2> QED BY <1>3, <2>1, <2>2 DEF T1Push
<1> QED BY <1>1, <1>2, <1>3 DEF T1

LEMMA T2Inv == Inv /\ T2 => Inv'
<1> SUFFICES ASSUME Inv, T2 PROVE Inv'
  OBVIOUS
<1> USE DEF Inv, Flags, Unstarted, Seen, Stranded, Numbered, Booleans, T2Stays, flagVars,
            t1Vars, t3Vars, t4Vars, queueVars, inboundVars, outboundVars, replayVars
<1>1. CASE T2Test BY <1>1 DEF T2Test
<1>2. CASE T2Process
  <2>1. inbound' \in Seq(Nat)
    BY <1>2 DEF T2Process, Inbound!Take
  <2> QED BY <1>2, <2>1 DEF T2Process
<1>3. CASE T2Drained
  <2>1. Len(inbound) <= 1 /\ inbound = <<>>
    BY <1>3 DEF T2Drained
  <2> QED BY <1>3, <2>1 DEF T2Drained
<1>4. CASE T2Emit
  <2>1. t3 # "done" /\ t4 # "done"
    BY <1>4 DEF T2Emit
  <2> QED BY <1>4, <2>1 DEF T2Emit
<1>5. CASE T2Emitted BY <1>5 DEF T2Emitted
<1>6. CASE T2Timer BY <1>6 DEF T2Timer
<1> QED BY <1>1, <1>2, <1>3, <1>4, <1>5, <1>6 DEF T2

LEMMA T3Inv == Inv /\ T3 => Inv'
<1> SUFFICES ASSUME Inv, T3 PROVE Inv'
  OBVIOUS
<1> USE DEF Inv, Flags, Unstarted, Seen, Stranded, Numbered, Booleans, T3Stays, flagVars,
            t1Vars, t2Vars, t3Vars, t4Vars, inboundVars, outboundVars, replayVars
<1>1. CASE T3SeesStop BY <1>1 DEF T3SeesStop
<1>2. CASE T3Publish BY <1>2 DEF T3Publish
<1>3. CASE T3Exit BY <1>3 DEF T3Exit
<1> QED BY <1>1, <1>2, <1>3 DEF T3

LEMMA T4Inv == Inv /\ T4 => Inv'
<1> SUFFICES ASSUME Inv, T4 PROVE Inv'
  OBVIOUS
<1> USE DEF Inv, Flags, Unstarted, Seen, Stranded, Numbered, Booleans, T4Stays, flagVars,
            t1Vars, t2Vars, t3Vars, t4Vars, inboundVars, outboundVars, replayVars
<1>1. CASE T4SeesStop BY <1>1 DEF T4SeesStop
<1>2. CASE T4Write BY <1>2 DEF T4Write
<1>3. CASE T4Exit BY <1>3 DEF T4Exit
<1> QED BY <1>1, <1>2, <1>3 DEF T4

LEMMA NextInv == Inv /\ [Next]_vars => Inv'
<1> SUFFICES ASSUME Inv, [Next]_vars PROVE Inv'
  OBVIOUS
<1> USE DEF Inv, Flags, Unstarted, Seen, Stranded, Numbered, Booleans, OthersStay, vars,
            flagVars, clientVars, t1Vars, t2Vars, t3Vars, t4Vars, queueVars, inboundVars,
            outboundVars, replayVars
<1>1. CASE Signal BY <1>1 DEF Signal
<1>2. CASE IntervalExpires BY <1>2 DEF IntervalExpires
<1>3. CASE Arrive BY <1>3 DEF Arrive
<1>4. CASE UNCHANGED vars BY <1>4
<1> QED BY <1>1, <1>2, <1>3, <1>4, MainInv, T1Inv, T2Inv, T3Inv, T4Inv DEF Next, Ended

-----------------------------------------------------------------------------
(* The inductive invariant holds in every reachable state of the gateway. *)
THEOREM Invariance == Spec => []Inv
<1>1. Init => Inv
  BY InitInv
<1>2. Inv /\ [Next]_vars => Inv'
  BY NextInv
<1> QED BY <1>1, <1>2, PTL DEF Spec

(* stop() loses no event: the publisher and the log's writer end only      *)
(* after the exchange thread, with nothing left for them, for rings of any *)
(* size and whenever the signal comes.                                     *)
THEOREM EndLast == Spec => []ConsumersEndLast
<1>1. Inv => ConsumersEndLast
  BY DEF Inv, Flags, Seen, ConsumersEndLast
<1> QED BY <1>1, Invariance, PTL

(* The final drain of exchange_loop leaves at most one order behind, the   *)
(* one receiver_loop had in hand when stop() cleared their common flag.    *)
THEOREM OneStranded == Spec => []AtMostOneStranded
<1>1. Inv => AtMostOneStranded
  BY DEF Inv, Stranded, AtMostOneStranded
<1> QED BY <1>1, Invariance, PTL

-----------------------------------------------------------------------------
(* A ring: what came out of it and what is in it is a list of numbers in   *)
(* increasing order, none above the number of items handed to the ring.    *)
Handed(q, tk, dr) == Len(tk) + Len(q) + dr
Ring(q, tk, dr) ==
  /\ q \in Seq(Nat) /\ tk \in Seq(Nat) /\ dr \in Nat
  /\ Increasing(tk \o q)
  /\ \A i \in 1..Len(tk \o q) : (tk \o q)[i] <= Handed(q, tk, dr)

LEMMA NextNumber ==
  ASSUME NEW m \in Nat, NEW h \in Nat, NEW s, NEW t,
         \A i \in 1..m : t[i] = s[i] /\ s[i] \in Nat /\ s[i] <= h,
         t[m + 1] = h + 1,
         \A i, j \in 1..m : i < j => s[i] < s[j]
  PROVE  /\ \A i \in 1..(m + 1) : t[i] <= h + 1
         /\ \A i, j \in 1..(m + 1) : i < j => t[i] < t[j]
<1>1. \A i \in 1..(m + 1) : i \in 1..m \/ i = m + 1
  OBVIOUS
<1>2. \A i \in 1..(m + 1) : t[i] <= h + 1
  BY <1>1
<1>3. ASSUME NEW i \in 1..(m + 1), NEW j \in 1..(m + 1), i < j PROVE t[i] < t[j]
  <2>1. i \in 1..m
    BY <1>3
  <2>2. CASE j \in 1..m
    BY <1>3, <2>1, <2>2
  <2>3. CASE j = m + 1
    <3>1. t[i] \in Nat /\ t[i] <= h
      BY <2>1
    <3> QED BY <2>3, <3>1
  <2> QED BY <1>1, <2>2, <2>3
<1> QED BY <1>2, <1>3

(* The item offered is the next number. *)
LEMMA RingOffer ==
  ASSUME NEW q, NEW tk, NEW dr, Ring(q, tk, dr), NEW n, n = Handed(q, tk, dr) + 1,
         NEW q2, NEW dr2,
         \/ q2 = Append(q, n) /\ dr2 = dr
         \/ q2 = q /\ dr2 = dr + 1
  PROVE  Ring(q2, tk, dr2) /\ Handed(q2, tk, dr2) = n /\ n \in Nat
<1>1. /\ q \in Seq(Nat) /\ tk \in Seq(Nat) /\ dr \in Nat /\ Len(q) \in Nat /\ Len(tk) \in Nat
      /\ n \in Nat /\ Handed(q, tk, dr) \in Nat
  BY DEF Ring, Handed
<1>2. tk \o q \in Seq(Nat) /\ Len(tk \o q) = Len(tk) + Len(q)
  BY <1>1, ConcatProperties
<1>3. CASE q2 = q /\ dr2 = dr + 1
  <2>1. Handed(q2, tk, dr2) = n
    BY <1>1, <1>3 DEF Handed
  <2>2. \A i \in 1..Len(tk \o q) : (tk \o q)[i] \in Nat /\ (tk \o q)[i] <= Handed(q, tk, dr)
    BY <1>2, ElementOfSeq DEF Ring
  <2>3. \A i \in 1..Len(tk \o q2) : (tk \o q2)[i] <= n
    <3> DEFINE s == tk \o q
    <3>1. \A i \in 1..Len(s) : s[i] \in Nat /\ s[i] <= Handed(q, tk, dr)
      BY <2>2
    <3> HIDE DEF s
    <3>2. \A i \in 1..Len(s) : s[i] <= n
      BY <1>1, <3>1
    <3> QED BY <1>3, <3>2 DEF s
  <2> QED BY <1>1, <1>3, <2>1, <2>3 DEF Ring
<1>4. CASE q2 = Append(q, n) /\ dr2 = dr
  <2> DEFINE s == tk \o q
             t == tk \o q2
             m == Len(s)
  <2>1. /\ q2 \in Seq(Nat) /\ Len(q2) = Len(q) + 1
        /\ \A i \in 1..Len(q) : q2[i] = q[i]
        /\ q2[Len(q) + 1] = n
    BY <1>1, <1>4, AppendProperties
  <2>2. Handed(q2, tk, dr2) = n
    BY <1>1, <1>4, <2>1 DEF Handed
  <2>3. /\ Len(t) = m + 1 /\ m \in Nat /\ t \in Seq(Nat)
        /\ \A i \in 1..m : t[i] = s[i]
        /\ t[m + 1] = n
    <3>1. /\ Len(t) = Len(tk) + Len(q2) /\ t \in Seq(Nat)
          /\ \A i \in 1..Len(tk) + Len(q2) : t[i] = IF i <= Len(tk) THEN tk[i] ELSE q2[i - Len(tk)]
      BY <1>1, <2>1, ConcatProperties
    <3>2. \A i \in 1..Len(tk) + Len(q) : s[i] = IF i <= Len(tk) THEN tk[i] ELSE q[i - Len(tk)]
      BY <1>1, ConcatProperties
    <3>3. Len(s) = Len(tk) + Len(q)
      BY <1>2
    <3> HIDE DEF s, t
    <3>4. Len(t) = m + 1 /\ m \in Nat /\ m = Len(tk) + Len(q)
      BY <1>1, <2>1, <3>1, <3>3
    <3>5. ASSUME NEW i \in 1..m PROVE t[i] = s[i]
      <4>1. i \in 1..Len(tk) + Len(q2) /\ i \in 1..Len(tk) + Len(q)
        BY <1>1, <2>1, <3>4
      <4>2. ~(i <= Len(tk)) => i - Len(tk) \in 1..Len(q)
        BY <1>1, <3>4
      <4> QED BY <2>1, <3>1, <3>2, <4>1, <4>2
    <3>6. t[m + 1] = n
      <4>1. /\ m + 1 \in 1..Len(tk) + Len(q2) /\ ~(m + 1 <= Len(tk))
            /\ m + 1 - Len(tk) = Len(q) + 1
        BY <1>1, <2>1, <3>4
      <4>2. t[m + 1] = q2[m + 1 - Len(tk)]
        BY <3>1, <4>1
      <4> QED BY <2>1, <4>1, <4>2
    <3> QED BY <3>1, <3>4, <3>5, <3>6
  <2> HIDE DEF s, t
  <2> DEFINE h == Handed(q, tk, dr)
  <2>4. \A i \in 1..m : s[i] \in Nat /\ s[i] <= h
    BY <1>2, ElementOfSeq DEF Ring, s
  <2>5. \A i, j \in 1..m : i < j => s[i] < s[j]
    BY DEF Ring, Increasing, s
  <2>6. h \in Nat /\ n = h + 1
    BY <1>1
  <2> HIDE DEF m, h
  <2>7. /\ \A i \in 1..(m + 1) : t[i] <= n
        /\ \A i, j \in 1..(m + 1) : i < j => t[i] < t[j]
    <3>1. t[m + 1] = h + 1
      BY <2>3, <2>6
    <3>2. \A i \in 1..m : t[i] = s[i] /\ s[i] \in Nat /\ s[i] <= h
      BY <2>3, <2>4
    <3>3. /\ \A i \in 1..(m + 1) : t[i] <= h + 1
          /\ \A i, j \in 1..(m + 1) : i < j => t[i] < t[j]
      BY <2>3, <2>5, <2>6, <3>1, <3>2, NextNumber
    <3> QED BY <2>6, <3>3
  <2>8. Increasing(t)
    BY <2>3, <2>7 DEF Increasing
  <2> QED BY <1>1, <1>4, <2>1, <2>2, <2>3, <2>7, <2>8 DEF Ring, t
<1> QED BY <1>1, <1>3, <1>4

LEMMA RingTake ==
  ASSUME NEW q, NEW tk, NEW dr, Ring(q, tk, dr), q # <<>>
  PROVE  LET tk2 == Append(tk, Head(q))
         IN  Ring(Tail(q), tk2, dr) /\ Handed(Tail(q), tk2, dr) = Handed(q, tk, dr)
<1> DEFINE tk2 == Append(tk, Head(q))
           q2  == Tail(q)
           s   == tk \o q
           t   == tk2 \o q2
<1>1. /\ q \in Seq(Nat) /\ tk \in Seq(Nat) /\ dr \in Nat /\ Len(q) \in Nat /\ Len(tk) \in Nat
  BY DEF Ring
<1>2. /\ q2 \in Seq(Nat) /\ Len(q2) = Len(q) - 1 /\ Head(q) \in Nat /\ Head(q) = q[1]
      /\ Len(q) # 0
      /\ \A i \in 1..(Len(q) - 1) : q2[i] = q[i + 1]
  BY <1>1, HeadTailProperties
<1>3. /\ tk2 \in Seq(Nat) /\ Len(tk2) = Len(tk) + 1
      /\ \A i \in 1..Len(tk) : tk2[i] = tk[i]
      /\ tk2[Len(tk) + 1] = q[1]
  BY <1>1, <1>2, AppendProperties
<1> HIDE DEF tk2, q2
<1>4. /\ Len(t) = Len(tk2) + Len(q2)
      /\ \A i \in 1..Len(tk2) + Len(q2) :
           t[i] = IF i <= Len(tk2) THEN tk2[i] ELSE q2[i - Len(tk2)]
  BY <1>2, <1>3, ConcatProperties
<1>5. /\ Len(s) = Len(tk) + Len(q)
      /\ \A i \in 1..Len(tk) + Len(q) : s[i] = IF i <= Len(tk) THEN tk[i] ELSE q[i - Len(tk)]
  BY <1>1, ConcatProperties
<1> HIDE DEF s, t
<1>6. Len(t) = Len(s) /\ Len(s) \in Nat
  BY <1>1, <1>2, <1>3, <1>4, <1>5
<1>7. ASSUME NEW i \in 1..Len(s) PROVE t[i] = s[i]
  <2>0. i \in 1..Len(tk2) + Len(q2) /\ i \in 1..Len(tk) + Len(q) /\ i \in Nat
    BY <1>1, <1>2, <1>3, <1>5
  <2>1. CASE i <= Len(tk)
    <3>1. i <= Len(tk2) /\ i \in 1..Len(tk)
      BY <1>1, <1>3, <2>0, <2>1
    <3> QED BY <1>3, <1>4, <1>5, <2>0, <2>1, <3>1
  <2>2. CASE i = Len(tk) + 1
    <3>1. i <= Len(tk2) /\ ~(i <= Len(tk)) /\ i - Len(tk) = 1
      BY <1>1, <1>3, <2>0, <2>2
    <3> QED BY <1>3, <1>4, <1>5, <2>0, <2>2, <3>1
  <2>3. CASE i > Len(tk) + 1
    <3>1. /\ i - Len(tk2) \in 1..(Len(q) - 1) /\ (i - Len(tk2)) + 1 = i - Len(tk)
          /\ ~(i <= Len(tk2)) /\ ~(i <= Len(tk))
      BY <1>1, <1>2, <1>3, <1>5, <2>3
    <3>2. t[i] = q2[i - Len(tk2)] /\ s[i] = q[i - Len(tk)]
      BY <1>4, <1>5, <2>0, <3>1
    <3> QED BY <1>2, <3>1, <3>2
  <2> QED BY <1>1, <2>0, <2>1, <2>2, <2>3
<1>8. Handed(q2, tk2, dr) = Handed(q, tk, dr)
  BY <1>1, <1>2, <1>3 DEF Handed
<1>9. Increasing(t) /\ \A i \in 1..Len(t) : t[i] <= Handed(q, tk, dr)
  <2>1. /\ \A i, j \in 1..Len(s) : i < j => s[i] < s[j]
        /\ \A i \in 1..Len(s) : s[i] <= Handed(q, tk, dr)
    BY DEF Ring, Increasing, s
  <2> QED BY <1>6, <1>7, <2>1 DEF Increasing
<1> QED BY <1>1, <1>2, <1>3, <1>8, <1>9 DEF Ring, t, tk2, q2

-----------------------------------------------------------------------------
(* What T2 has in hand: for the log the events after the log-th, for the   *)
(* dispatcher the ones after the out-th, each up to the n-th; and an event *)
(* is followed by younger ones, or on its way from the log to the          *)
(* dispatcher by itself.                                                   *)
Held(em, ring) == {em[i][2] : i \in {j \in 1..Len(em) : em[j][1] = ring}}
Follows(a, b) == a[2] < b[2] \/ (a[1] = "replay" /\ b[1] = "outbound")
InHand(em, out, log, n) ==
  /\ em \in Seq(Emits)
  /\ out \in Nat /\ log \in Nat /\ n \in Nat
  /\ out <= log /\ log <= n
  /\ Held(em, "outbound") = (out + 1)..n
  /\ Held(em, "replay") = (log + 1)..n
  /\ \A i, j \in 1..Len(em) : i < j => Follows(em[i], em[j])

LEMMA HeldTail ==
  ASSUME NEW em \in Seq(Emits), em # <<>>
  PROVE  /\ Tail(em) \in Seq(Emits) /\ Head(em) = em[1] /\ Head(em) \in Emits
         /\ \A r : Held(em, r) = Held(Tail(em), r)
                                   \cup (IF Head(em)[1] = r THEN {Head(em)[2]} ELSE {})
         /\ (\A i, j \in 1..Len(em) : i < j => Follows(em[i], em[j])) =>
              /\ \A i, j \in 1..Len(Tail(em)) : i < j => Follows(Tail(em)[i], Tail(em)[j])
              /\ \A i \in 1..Len(Tail(em)) : Follows(Head(em), Tail(em)[i])
<1> DEFINE rest == Tail(em)
           n    == Len(em) - 1
<1>1. /\ rest \in Seq(Emits) /\ Len(rest) = n /\ Len(em) \in Nat \ {0} /\ n \in Nat
      /\ Head(em) = em[1] /\ Head(em) \in Emits
      /\ \A i \in 1..n : rest[i] = em[i + 1]
  BY HeadTailProperties
<1> HIDE DEF rest
<1>2. \A i \in 1..Len(em) : i = 1 \/ (i - 1 \in 1..n /\ (i - 1) + 1 = i)
  BY <1>1
<1>3. /\ 1 \in 1..Len(em)
      /\ \A i \in 1..n : i + 1 \in 1..Len(em) /\ 1 < i + 1
      /\ \A i, j \in 1..n : i < j => i + 1 < j + 1
  BY <1>1
<1> HIDE DEF n
<1>4. ASSUME NEW r
      PROVE  Held(em, r) = Held(rest, r) \cup (IF Head(em)[1] = r THEN {Head(em)[2]} ELSE {})
  <2>1. ASSUME NEW i \in 1..Len(em), em[i][1] = r, i # 1 PROVE em[i][2] \in Held(rest, r)
    <3>1. i - 1 \in 1..Len(rest) /\ rest[i - 1] = em[i]
      BY <1>1, <1>2, <2>1
    <3> QED BY <2>1, <3>1 DEF Held
  <2>2. ASSUME NEW i \in 1..Len(rest), rest[i][1] = r PROVE rest[i][2] \in Held(em, r)
    <3>1. i + 1 \in 1..Len(em) /\ rest[i] = em[i + 1]
      BY <1>1, <1>3
    <3> QED BY <2>2, <3>1 DEF Held
  <2>3. em[1][1] = r => em[1][2] \in Held(em, r)
    BY <1>3 DEF Held
  <2>4. ASSUME NEW x \in Held(em, r)
        PROVE  x \in Held(rest, r) \/ (Head(em)[1] = r /\ x = Head(em)[2])
    <3>1. PICK i \in 1..Len(em) : em[i][1] = r /\ x = em[i][2]
      BY DEF Held
    <3> QED BY <1>1, <2>1, <3>1
  <2>5. ASSUME NEW x \in Held(rest, r) PROVE x \in Held(em, r)
    <3>1. PICK i \in 1..Len(rest) : rest[i][1] = r /\ x = rest[i][2]
      BY DEF Held
    <3> QED BY <2>2, <3>1
  <2>6. Head(em)[1] = r => Head(em)[2] \in Held(em, r)
    BY <1>1, <2>3
  <2> HIDE DEF Held
  <2> QED BY <2>4, <2>5, <2>6
<1>5. ASSUME \A i, j \in 1..Len(em) : i < j => Follows(em[i], em[j])
      PROVE  /\ \A i, j \in 1..Len(rest) : i < j => Follows(rest[i], rest[j])
             /\ \A i \in 1..Len(rest) : Follows(Head(em), rest[i])
  BY <1>1, <1>3, <1>5
<1> QED BY <1>1, <1>4, <1>5 DEF rest

LEMMA HeldType ==
  ASSUME NEW em \in Seq(Emits), NEW r
  PROVE  Held(em, r) \subseteq Nat
  BY ElementOfSeq DEF Held, Emits

(* The event at the head of what T2 holds for a ring is the next one. *)
LEMMA EmitNext ==
  ASSUME NEW em, NEW out, NEW log, NEW n, InHand(em, out, log, n), em # <<>>
  PROVE  LET to == Head(em)
         IN  \/ /\ to[1] = "replay" /\ to[2] = log + 1
                /\ InHand(Tail(em), out, log + 1, n)
             \/ /\ to[1] = "outbound" /\ to[2] = out + 1
                /\ InHand(Tail(em), out + 1, log, n)
<1> DEFINE to   == Head(em)
           rest == Tail(em)
           R    == Held(rest, "replay")
           O    == Held(rest, "outbound")
<1>1. em \in Seq(Emits) /\ out \in Nat /\ log \in Nat /\ n \in Nat /\ out <= log /\ log <= n
  BY DEF InHand
<1>2. /\ rest \in Seq(Emits) /\ to \in Emits
      /\ \A i, j \in 1..Len(rest) : i < j => Follows(rest[i], rest[j])
      /\ \A i \in 1..Len(rest) : Follows(to, rest[i])
      /\ Held(em, "replay") = R \cup (IF to[1] = "replay" THEN {to[2]} ELSE {})
      /\ Held(em, "outbound") = O \cup (IF to[1] = "outbound" THEN {to[2]} ELSE {})
  BY <1>1, HeldTail DEF InHand
<1>3. (to[1] = "replay" \/ to[1] = "outbound") /\ to[2] \in Nat
  BY <1>2 DEF Emits
<1> HIDE DEF to, rest
<1>4. /\ \A x \in R : Follows(to, <<"replay", x>>)
      /\ \A x \in O : Follows(to, <<"outbound", x>>)
  BY <1>2 DEF Held, Follows
<1> HIDE DEF R, O
<1>5. R \cup (IF to[1] = "replay" THEN {to[2]} ELSE {}) = (log + 1)..n
  BY <1>2 DEF InHand
<1>6. O \cup (IF to[1] = "outbound" THEN {to[2]} ELSE {}) = (out + 1)..n
  BY <1>2 DEF InHand
<1>7. CASE to[1] = "replay"
  <2>1. \A x \in R : to[2] < x
    BY <1>4, <1>7 DEF Follows
  <2>2. R \cup {to[2]} = (log + 1)..n /\ O = (out + 1)..n
    BY <1>5, <1>6, <1>7
  <2>3. to[2] = log + 1 /\ log + 1 <= n
    <3>1. to[2] \in (log + 1)..n
      BY <2>2
    <3>2. log + 1 \in R \cup {to[2]}
      BY <1>1, <1>3, <2>2, <3>1
    <3> QED BY <1>1, <1>3, <2>1, <3>1, <3>2
  <2>4. R = (log + 2)..n
    <3>1. \A x \in R : x \in (log + 2)..n
      <4>1. \A x \in R : x \in (log + 1)..n /\ to[2] < x
        BY <2>1, <2>2
      <4> QED BY <1>1, <2>3, <4>1
    <3>2. \A x \in (log + 2)..n : x \in R
      <4>1. \A x \in (log + 2)..n : x \in (log + 1)..n /\ x # log + 1
        BY <1>1
      <4> QED BY <2>2, <2>3, <4>1
    <3> QED BY <3>1, <3>2
  <2>5. (log + 1) + 1 = log + 2 /\ log + 1 \in Nat /\ out <= log + 1
    BY <1>1
  <2>6. InHand(rest, out, log + 1, n)
    BY <1>1, <1>2, <2>2, <2>3, <2>4, <2>5 DEF InHand, R, O
  <2> QED BY <1>7, <2>3, <2>6 DEF to, rest
<1>8. CASE to[1] = "outbound"
  <2>1. /\ \A x \in R : to[2] < x
        /\ \A x \in O : to[2] < x
    BY <1>4, <1>8 DEF Follows
  <2>2. R = (log + 1)..n /\ O \cup {to[2]} = (out + 1)..n
    BY <1>5, <1>6, <1>8
  <2>3. to[2] = out + 1 /\ out + 1 <= n
    <3>1. to[2] \in (out + 1)..n
      BY <2>2
    <3>2. out + 1 \in O \cup {to[2]}
      BY <1>1, <1>3, <2>2, <3>1
    <3> QED BY <1>1, <1>3, <2>1, <3>1, <3>2
  <2>4. O = (out + 2)..n
    <3>1. \A x \in O : x \in (out + 2)..n
      <4>1. \A x \in O : x \in (out + 1)..n /\ to[2] < x
        BY <2>1, <2>2
      <4> QED BY <1>1, <2>3, <4>1
    <3>2. \A x \in (out + 2)..n : x \in O
      <4>1. \A x \in (out + 2)..n : x \in (out + 1)..n /\ x # out + 1
        BY <1>1
      <4> QED BY <2>2, <2>3, <4>1
    <3> QED BY <3>1, <3>2
  <2>5. out + 1 <= log
    <3>1. CASE log = n
      BY <1>1, <2>3, <3>1
    <3>2. CASE log # n
      <4>1. log + 1 \in R
        BY <1>1, <2>2, <3>2
      <4> QED BY <1>1, <2>1, <2>3, <4>1
    <3> QED BY <3>1, <3>2
  <2>6. (out + 1) + 1 = out + 2 /\ out + 1 \in Nat
    BY <1>1
  <2>7. InHand(rest, out + 1, log, n)
    BY <1>1, <1>2, <2>2, <2>4, <2>5, <2>6 DEF InHand, R, O
  <2> QED BY <1>8, <2>3, <2>7 DEF to, rest
<1> QED BY <1>3, <1>7, <1>8

LEMMA EmptyHands ==
  ASSUME NEW out, NEW log, NEW n, InHand(<<>>, out, log, n)
  PROVE  out = n /\ log = n
<1>1. Held(<<>>, "outbound") = {} /\ Held(<<>>, "replay") = {}
  BY DEF Held
<1>2. out \in Nat /\ log \in Nat /\ n \in Nat /\ out <= log /\ log <= n
  BY DEF InHand
<1>3. (out + 1)..n = {} /\ (log + 1)..n = {}
  BY <1>1 DEF InHand
<1>4. out + 1 \notin (out + 1)..n
  BY <1>3
<1> QED BY <1>2, <1>4

(* What T2 takes in hand when it has handed over everything. *)
LEMMA NewEvents ==
  ASSUME NEW em \in Seq(Emits), NEW n \in Nat, NEW k \in Nat,
         \A i \in 1..Len(em) : em[i][2] \in (n + 1)..(n + k),
         \A r \in {"replay", "outbound"} : \A x \in (n + 1)..(n + k) :
           \E i \in 1..Len(em) : em[i][1] = r /\ em[i][2] = x,
         \A i, j \in 1..Len(em) : i < j => Follows(em[i], em[j])
  PROVE  InHand(em, n, n, n + k)
<1>1. ASSUME NEW r \in {"replay", "outbound"} PROVE Held(em, r) = (n + 1)..(n + k)
  <2> DEFINE S == (n + 1)..(n + k)
  <2>1. /\ \A i \in 1..Len(em) : em[i][2] \in S
        /\ \A x \in S : \E i \in 1..Len(em) : em[i][1] = r /\ em[i][2] = x
    BY <1>1
  <2> HIDE DEF S
  <2>2. Held(em, r) = S
    BY <2>1 DEF Held
  <2> QED BY <2>2 DEF S
<1>2. n <= n + k /\ n + k \in Nat /\ n <= n
  OBVIOUS
<1> QED BY <1>1, <1>2 DEF InHand

(* The events of process(): first all to the log, then all to the          *)
(* dispatcher.                                                             *)
LEMMA BatchInHand ==
  ASSUME NEW k \in Nat, produced \in Nat
  PROVE  LET events == Numbers(k)
         IN  /\ InHand(To("replay", events) \o To("outbound", events),
                       produced, produced, produced + k)
             /\ Len(events) = k
<1> DEFINE n  == produced
           ev == Numbers(k)
           L  == To("replay", ev)
           P  == To("outbound", ev)
           em == L \o P
<1>1. ev \in Seq(Nat) /\ Len(ev) = k /\ \A i \in 1..k : ev[i] = n + i
  BY DEF Numbers
<1> HIDE DEF ev
<1>2. ASSUME NEW r \in {"replay", "outbound"}
      PROVE  /\ To(r, ev) \in Seq(Emits) /\ Len(To(r, ev)) = k
             /\ \A i \in 1..k : To(r, ev)[i] = <<r, n + i>>
  <2>1. To(r, ev) = [i \in 1..k |-> <<r, n + i>>]
    BY <1>1 DEF To
  <2>2. \A i \in 1..k : <<r, n + i>> \in Emits
    BY DEF Emits
  <2> DEFINE f == [i \in 1..k |-> <<r, n + i>>]
  <2>3. /\ f \in Seq(Emits) /\ Len(f) = k
        /\ \A i \in 1..k : f[i] = <<r, n + i>>
    BY <2>2
  <2> HIDE DEF f
  <2> QED BY <2>1, <2>3 DEF f
<1>3. /\ L \in Seq(Emits) /\ Len(L) = k /\ P \in Seq(Emits) /\ Len(P) = k
      /\ \A i \in 1..k : L[i] = <<"replay", n + i>>
      /\ \A i \in 1..k : P[i] = <<"outbound", n + i>>
  BY <1>2
<1> HIDE DEF L, P
<1>4. /\ em \in Seq(Emits) /\ Len(em) = k + k
      /\ \A i \in 1..(k + k) : em[i] = IF i <= k THEN L[i] ELSE P[i - k]
  <2>1. /\ L \o P \in Seq(Emits) /\ Len(L \o P) = Len(L) + Len(P)
        /\ \A i \in 1..Len(L) + Len(P) :
             (L \o P)[i] = IF i <= Len(L) THEN L[i] ELSE P[i - Len(L)]
    BY <1>3, ConcatProperties
  <2> QED BY <1>3, <2>1
<1> HIDE DEF em, n
<1>5. \A i \in 1..k : i \in 1..(k + k) /\ em[i] = <<"replay", n + i>>
  BY <1>3, <1>4
<1>6. \A i \in 1..k : k + i \in 1..(k + k) /\ em[k + i] = <<"outbound", n + i>>
  <2> SUFFICES ASSUME NEW i \in 1..k
               PROVE  k + i \in 1..(k + k) /\ em[k + i] = <<"outbound", n + i>>
    OBVIOUS
  <2>1. k + i \in 1..(k + k) /\ ~(k + i <= k) /\ (k + i) - k = i
    OBVIOUS
  <2> QED BY <1>3, <1>4, <2>1
<1>7. \A i \in 1..(k + k) : i \in 1..k \/ (i - k \in 1..k /\ k + (i - k) = i)
  OBVIOUS
<1>8. n \in Nat
  BY DEF n
<1>9. \A i \in 1..k : n + i \in (n + 1)..(n + k)
  BY <1>8
<1>10. ASSUME NEW i \in 1..Len(em) PROVE em[i][2] \in (n + 1)..(n + k)
  <2>1. i \in 1..(k + k)
    BY <1>4
  <2>2. CASE i \in 1..k
    BY <1>5, <1>9, <2>2
  <2>3. CASE i - k \in 1..k /\ k + (i - k) = i
    <3>1. em[i] = <<"outbound", n + (i - k)>> /\ n + (i - k) \in (n + 1)..(n + k)
      BY <1>6, <1>9, <2>3
    <3> QED BY <3>1
  <2> QED BY <1>7, <2>1, <2>2, <2>3
<1>11. ASSUME NEW r \in {"replay", "outbound"}, NEW x \in (n + 1)..(n + k)
       PROVE  \E i \in 1..Len(em) : em[i][1] = r /\ em[i][2] = x
  <2>1. x - n \in 1..k /\ n + (x - n) = x
    BY <1>8
  <2>2. /\ x - n \in 1..Len(em) /\ em[x - n] = <<"replay", x>>
        /\ k + (x - n) \in 1..Len(em) /\ em[k + (x - n)] = <<"outbound", x>>
    BY <1>4, <1>5, <1>6, <2>1
  <2>3. CASE r = "replay"
    BY <2>2, <2>3
  <2>4. CASE r = "outbound"
    BY <2>2, <2>4
  <2> QED BY <2>3, <2>4
<1>12. ASSUME NEW i \in 1..Len(em), NEW j \in 1..Len(em), i < j PROVE Follows(em[i], em[j])
  <2>1. i \in 1..(k + k) /\ j \in 1..(k + k)
    BY <1>4
  <2>2. CASE i \in 1..k /\ j \in 1..k
    <3>1. em[i][2] = n + i /\ em[j][2] = n + j
      BY <1>5, <2>2
    <3> QED BY <1>8, <1>12, <3>1 DEF Follows
  <2>3. CASE i \in 1..k /\ j - k \in 1..k /\ k + (j - k) = j
    <3>1. em[i][1] = "replay" /\ em[j] = <<"outbound", n + (j - k)>>
      BY <1>5, <1>6, <2>3
    <3> QED BY <3>1 DEF Follows
  <2>4. CASE i - k \in 1..k /\ k + (i - k) = i /\ j - k \in 1..k /\ k + (j - k) = j
    <3>1. em[i] = <<"outbound", n + (i - k)>> /\ em[j] = <<"outbound", n + (j - k)>>
      BY <1>6, <2>4
    <3>2. n + (i - k) < n + (j - k)
      BY <1>8, <1>12, <2>1
    <3> QED BY <3>1, <3>2 DEF Follows
  <2>5. ~(i \notin 1..k /\ j \in 1..k)
    BY <1>12, <2>1
  <2> QED BY <1>7, <2>1, <2>2, <2>3, <2>4, <2>5
<1>13. InHand(em, n, n, n + k)
  BY <1>4, <1>8, <1>10, <1>11, <1>12, NewEvents
<1> QED BY <1>1, <1>13 DEF em, L, P, ev, n

(* The snapshots: each to the log and then to the dispatcher. *)
LEMMA SnapshotsInHand ==
  ASSUME NEW k \in Nat, NEW n \in Nat
  PROVE  InHand([i \in 1..(2 * k) |-> <<IF i % 2 = 1 THEN "replay" ELSE "outbound",
                                        n + (i + 1) \div 2>>], n, n, n + k)
<1> DEFINE em == [i \in 1..(2 * k) |-> <<IF i % 2 = 1 THEN "replay" ELSE "outbound",
                                         n + (i + 1) \div 2>>]
<1>1. ASSUME NEW i \in 1..(2 * k)
      PROVE  \E m \in 1..k : \/ i = 2 * m - 1 /\ i % 2 = 1 /\ (i + 1) \div 2 = m
                             \/ i = 2 * m /\ i % 2 # 1 /\ (i + 1) \div 2 = m
  <2> DEFINE m == (i + 1) \div 2
  <2>1. /\ m \in 1..k
        /\ \/ i = 2 * m - 1 /\ i % 2 = 1
           \/ i = 2 * m /\ i % 2 # 1
    OBVIOUS
  <2> QED BY <2>1
<1>2. /\ \A m \in 1..k : /\ 2 * m - 1 \in 1..(2 * k) /\ (2 * m - 1) % 2 = 1
                         /\ ((2 * m - 1) + 1) \div 2 = m
      /\ \A m \in 1..k : /\ 2 * m \in 1..(2 * k) /\ (2 * m) % 2 = 0
                         /\ (2 * m + 1) \div 2 = m
  OBVIOUS
<1>3. Len(em) = 2 * k /\ \A i \in 1..(2 * k) :
        em[i] = <<IF i % 2 = 1 THEN "replay" ELSE "outbound", n + (i + 1) \div 2>>
  OBVIOUS
<1>4. em \in Seq(Emits)
  <2>1. \A i \in 1..(2 * k) :
          <<IF i % 2 = 1 THEN "replay" ELSE "outbound", n + (i + 1) \div 2>> \in Emits
    BY <1>1 DEF Emits
  <2>2. 2 * k \in Nat
    OBVIOUS
  <2> QED BY <2>1, <2>2
<1> HIDE DEF em
<1>5. /\ \A m \in 1..k : 2 * m - 1 \in 1..Len(em) /\ em[2 * m - 1] = <<"replay", n + m>>
      /\ \A m \in 1..k : 2 * m \in 1..Len(em) /\ em[2 * m] = <<"outbound", n + m>>
  <2>1. ASSUME NEW m \in 1..k
        PROVE  2 * m - 1 \in 1..Len(em) /\ em[2 * m - 1] = <<"replay", n + m>>
    <3> DEFINE i == 2 * m - 1
    <3>1. i \in 1..(2 * k) /\ i % 2 = 1 /\ (i + 1) \div 2 = m
      BY <1>2
    <3> HIDE DEF i
    <3>2. i \in 1..Len(em) /\ em[i] = <<"replay", n + m>>
      BY <1>3, <3>1
    <3> QED BY <3>2 DEF i
  <2>2. ASSUME NEW m \in 1..k
        PROVE  2 * m \in 1..Len(em) /\ em[2 * m] = <<"outbound", n + m>>
    <3> DEFINE i == 2 * m
    <3>1. i \in 1..(2 * k) /\ i % 2 # 1 /\ (i + 1) \div 2 = m
      BY <1>2
    <3> HIDE DEF i
    <3>2. i \in 1..Len(em) /\ em[i] = <<"outbound", n + m>>
      BY <1>3, <3>1
    <3> QED BY <3>2 DEF i
  <2> QED BY <2>1, <2>2
<1>6. ASSUME NEW i \in 1..Len(em)
      PROVE  \E m \in 1..k : \/ i = 2 * m - 1 /\ em[i] = <<"replay", n + m>>
                             \/ i = 2 * m /\ em[i] = <<"outbound", n + m>>
  BY <1>1, <1>3, <1>5
<1>7. \A m \in 1..k : n + m \in (n + 1)..(n + k)
  OBVIOUS
<1>8. \A i \in 1..Len(em) : em[i][2] \in (n + 1)..(n + k)
  BY <1>6, <1>7
<1>9. ASSUME NEW r \in {"replay", "outbound"}, NEW x \in (n + 1)..(n + k)
      PROVE  \E i \in 1..Len(em) : em[i][1] = r /\ em[i][2] = x
  <2>1. x - n \in 1..k /\ n + (x - n) = x
    OBVIOUS
  <2>2. /\ 2 * (x - n) - 1 \in 1..Len(em) /\ em[2 * (x - n) - 1] = <<"replay", x>>
        /\ 2 * (x - n) \in 1..Len(em) /\ em[2 * (x - n)] = <<"outbound", x>>
    BY <1>5, <2>1
  <2> DEFINE i == 2 * (x - n)
             j == 2 * (x - n) - 1
  <2>5. /\ j \in 1..Len(em) /\ em[j] = <<"replay", x>>
        /\ i \in 1..Len(em) /\ em[i] = <<"outbound", x>>
    BY <2>2
  <2> HIDE DEF i, j
  <2>3. CASE r = "replay"
    BY <2>3, <2>5
  <2>4. CASE r = "outbound"
    BY <2>4, <2>5
  <2> QED BY <2>3, <2>4
<1>10. ASSUME NEW i \in 1..Len(em), NEW j \in 1..Len(em), i < j PROVE Follows(em[i], em[j])
  <2>1. PICK a \in 1..k : \/ i = 2 * a - 1 /\ em[i] = <<"replay", n + a>>
                          \/ i = 2 * a /\ em[i] = <<"outbound", n + a>>
    BY <1>6
  <2>2. PICK b \in 1..k : \/ j = 2 * b - 1 /\ em[j] = <<"replay", n + b>>
                          \/ j = 2 * b /\ em[j] = <<"outbound", n + b>>
    BY <1>6
  <2>3. em[i][2] = n + a /\ em[j][2] = n + b
    BY <2>1, <2>2
  <2>4. a < b \/ (a = b /\ i = 2 * a - 1 /\ j = 2 * b)
    BY <1>10, <2>1, <2>2
  <2>5. CASE a < b
    BY <2>3, <2>5 DEF Follows
  <2>6. CASE a = b /\ i = 2 * a - 1 /\ j = 2 * b
    <3>1. 2 * a - 1 # 2 * a
      OBVIOUS
    <3>2. em[i][1] = "replay" /\ em[j][1] = "outbound"
      BY <2>1, <2>2, <2>6, <3>1
    <3> QED BY <3>2 DEF Follows
  <2> QED BY <2>4, <2>5, <2>6
<1>11. InHand(em, n, n, n + k)
  BY <1>4, <1>8, <1>9, <1>10, NewEvents
<1> QED BY <1>11 DEF em

-----------------------------------------------------------------------------
(* The invariant behind EverythingCounted and InOrder: the three rings,    *)
(* what T2 has in hand, what T1 has in hand, and that the orders have an   *)
(* EventCount.                                                             *)
InboundCounted ==
  /\ Ring(inbound, processed, inbound_drops)
  /\ received = Handed(inbound, processed, inbound_drops) + (IF t1 = "push" THEN 1 ELSE 0)
EventsCounted ==
  /\ Ring(outbound, published, outbound_drops)
  /\ Ring(replay, logged, replay_drops)
  /\ InHand(emit, Handed(outbound, published, outbound_drops),
            Handed(replay, logged, replay_drops), produced)
OrdersBounded ==
  /\ traffic \in Seq(Kinds) /\ wire \in Seq(Kinds)
  /\ Len(traffic) + Len(wire) + received <= MaxOrders
  /\ inbound \in Seq(1..MaxOrders)
Counted == InboundCounted /\ EventsCounted /\ OrdersBounded

LEMMA HandedType ==
  ASSUME NEW q, NEW tk, NEW dr, Ring(q, tk, dr)
  PROVE  Handed(q, tk, dr) \in Nat
  BY DEF Ring, Handed

LEMMA InboundStays ==
  ASSUME Counted, UNCHANGED <<inboundVars, received, traffic, wire>>,
         t1' = "push" <=> t1 = "push"
  PROVE  InboundCounted' /\ OrdersBounded'
  BY DEF Counted, InboundCounted, OrdersBounded, inboundVars

LEMMA EventsStay ==
  ASSUME Counted, UNCHANGED <<outboundVars, replayVars, emit, produced>>
  PROVE  EventsCounted'
  BY DEF Counted, EventsCounted, outboundVars, replayVars

LEMMA InitCounted == Init => Counted
<1> SUFFICES ASSUME Init PROVE Counted
  OBVIOUS
<1>1. /\ inbound = <<>> /\ processed = <<>> /\ inbound_drops = 0
      /\ outbound = <<>> /\ published = <<>> /\ outbound_drops = 0
      /\ replay = <<>> /\ logged = <<>> /\ replay_drops = 0
      /\ received = 0 /\ produced = 0 /\ emit = <<>> /\ t1 = "off"
      /\ traffic \in Traffic /\ wire = <<>>
  BY DEF Init, Inbound!Init, Outbound!Init, Replay!Init
<1>2. Ring(<<>>, <<>>, 0) /\ Handed(<<>>, <<>>, 0) = 0
  <2>1. /\ <<>> \in Seq(Nat) /\ Len(<<>>) = 0 /\ <<>> \o <<>> = <<>>
        /\ 1..Len(<<>>) = {}
    OBVIOUS
  <2> QED BY <2>1 DEF Ring, Handed, Increasing
<1>3. InHand(<<>>, 0, 0, 0)
  <2>1. <<>> \in Seq(Emits) /\ Len(<<>>) = 0 /\ 1..0 = {} /\ (0 + 1)..0 = {}
    OBVIOUS
  <2>2. \A r : Held(<<>>, r) = {}
    BY <2>1 DEF Held
  <2> QED BY <2>1, <2>2 DEF InHand
<1>4. OrdersBounded
  <2>1. traffic \in Seq(Kinds) /\ Len(traffic) <= MaxOrders /\ Len(traffic) \in Nat
    BY <1>1, BoundsAssumption
  <2> QED BY <1>1, <2>1 DEF OrdersBounded
<1>5. InboundCounted
  BY <1>1, <1>2 DEF InboundCounted
<1>6. EventsCounted
  BY <1>1, <1>2, <1>3 DEF EventsCounted
<1> QED BY <1>4, <1>5, <1>6 DEF Counted

LEMMA MainCounted == Inv /\ Counted /\ Main => Counted'
<1> SUFFICES ASSUME Inv, Counted, Main PROVE Counted'
  OBVIOUS
<1>1. UNCHANGED <<inboundVars, outboundVars, replayVars, emit, produced, received, traffic, wire>>
  BY DEF Main, BindPull, StartReplay, StartDispatcher, StartT2, StartT1, StopBegins, JoinT1,
         JoinT2, JoinT3, JoinT4, OthersStay, clientVars, t1Vars, t2Vars, queueVars
<1>2. t1' = "push" <=> t1 = "push"
  <2>1. CASE StartT1
    BY <2>1 DEF StartT1, MainMoves, Inv, Unstarted
  <2>2. CASE ~StartT1
    BY <2>2 DEF Main, BindPull, StartReplay, StartDispatcher, StartT2, StopBegins, JoinT1,
         JoinT2, JoinT3, JoinT4, OthersStay, t1Vars
  <2> QED BY <2>1, <2>2
<1> QED BY <1>1, <1>2, InboundStays, EventsStay DEF Counted

LEMMA T1Counted == Counted /\ T1 => Counted'
<1> SUFFICES ASSUME Counted, T1 PROVE Counted'
  OBVIOUS
<1>0. /\ InboundCounted /\ OrdersBounded /\ Ring(inbound, processed, inbound_drops)
      /\ Handed(inbound, processed, inbound_drops) \in Nat /\ MaxOrders \in Nat
      /\ wire \in Seq(Kinds) /\ traffic \in Seq(Kinds)
  BY HandedType, BoundsAssumption DEF Counted, InboundCounted, OrdersBounded
<1>1. EventsCounted'
  BY EventsStay DEF T1, T1Test, T1Receive, T1Push, T1Stays, t2Vars
<1>2. CASE T1Test
  <2>1. UNCHANGED <<inboundVars, received, traffic, wire>> /\ t1 # "push" /\ t1' # "push"
    BY <1>2 DEF T1Test, T1Stays
  <2> QED BY <1>1, <2>1, InboundStays DEF Counted
<1>3. CASE T1Receive
  <2>1. UNCHANGED <<inboundVars, traffic>> /\ t1 = "receive"
    BY <1>3 DEF T1Receive, T1Stays
  <2>2. received \in Nat /\ received = Handed(inbound, processed, inbound_drops)
    BY <1>0, <2>1 DEF InboundCounted
  <2>3. \/ wire' = wire /\ received' = received /\ t1' = "loop"
        \/ wire # <<>> /\ wire' = Tail(wire) /\ received' = received /\ t1' = "loop"
        \/ wire # <<>> /\ wire' = Tail(wire) /\ received' = received + 1 /\ t1' = "push"
    BY <1>3 DEF T1Receive
  <2>4. wire # <<>> => Tail(wire) \in Seq(Kinds) /\ Len(Tail(wire)) = Len(wire) - 1
    BY <1>0, HeadTailProperties
  <2>5. Len(wire) \in Nat /\ Len(traffic) \in Nat /\ Len(traffic) + Len(wire) + received <= MaxOrders
    BY <1>0 DEF OrdersBounded
  <2>6. wire' \in Seq(Kinds) /\ Len(traffic) + Len(wire') + received' <= MaxOrders
    <3> DEFINE a == Len(traffic)
               w == Len(wire)
    <3>1. a \in Nat /\ w \in Nat /\ a + w + received <= MaxOrders
      BY <2>5
    <3>2. CASE wire' = wire
      BY <1>0, <2>3, <2>5, <3>2
    <3>3. CASE wire # <<>> /\ wire' = Tail(wire)
      <4>1. wire' \in Seq(Kinds) /\ Len(wire') = w - 1
        BY <2>4, <3>3
      <4>2. received' = received \/ received' = received + 1
        BY <2>3
      <4> HIDE DEF a, w
      <4>3. a + (w - 1) + received' <= MaxOrders
        BY <1>0, <2>2, <3>1, <4>2
      <4> QED BY <4>1, <4>3 DEF a
    <3> QED BY <2>3, <3>2, <3>3
  <2>7. received' = Handed(inbound, processed, inbound_drops) + (IF t1' = "push" THEN 1 ELSE 0)
    <3>1. received' = received + (IF t1' = "push" THEN 1 ELSE 0)
      <4>1. CASE t1' = "push"
        BY <2>2, <2>3, <4>1
      <4>2. CASE t1' # "push"
        BY <2>2, <2>3, <4>2
      <4> QED BY <4>1, <4>2
    <3> QED BY <2>2, <3>1
  <2>8. OrdersBounded'
    BY <1>0, <2>1, <2>6 DEF OrdersBounded, inboundVars
  <2>9. InboundCounted'
    BY <1>0, <2>1, <2>7 DEF InboundCounted, inboundVars
  <2> QED BY <1>1, <2>8, <2>9 DEF Counted
<1>4. CASE T1Push
  <2>1. /\ t1 = "push" /\ t1' = "loop" /\ UNCHANGED <<wire, traffic, received>>
        /\ processed' = processed
        /\ \/ inbound' = Append(inbound, received) /\ inbound_drops' = inbound_drops
           \/ inbound' = inbound /\ inbound_drops' = inbound_drops + 1
    BY <1>4 DEF T1Push, T1Stays, Inbound!Offer, Inbound!Put, Inbound!Drop
  <2>2. received = Handed(inbound, processed, inbound_drops) + 1
    BY <1>0, <2>1 DEF InboundCounted
  <2>3. /\ Ring(inbound', processed, inbound_drops')
        /\ Handed(inbound', processed, inbound_drops') = received
        /\ received \in Nat
    BY <1>0, <2>1, <2>2, RingOffer
  <2>4. received \in 1..MaxOrders
    <3>1. Len(traffic) \in Nat /\ Len(wire) \in Nat /\ Len(traffic) + Len(wire) + received <= MaxOrders
      BY <1>0 DEF OrdersBounded
    <3> QED BY <1>0, <2>2, <2>3, <3>1
  <2>5. inbound' \in Seq(1..MaxOrders)
    <3>1. inbound \in Seq(1..MaxOrders)
      BY <1>0 DEF OrdersBounded
    <3>2. Append(inbound, received) \in Seq(1..MaxOrders)
      BY <2>4, <3>1, AppendProperties
    <3> QED BY <2>1, <3>1, <3>2
  <2>6. OrdersBounded'
    BY <1>0, <2>1, <2>5 DEF OrdersBounded
  <2>7. InboundCounted'
    BY <2>1, <2>3 DEF InboundCounted
  <2> QED BY <1>1, <2>6, <2>7 DEF Counted
<1> QED BY <1>2, <1>3, <1>4 DEF T1

LEMMA T2Counted == Inv /\ Counted /\ T2 => Counted'
<1> SUFFICES ASSUME Inv, Counted, T2 PROVE Counted'
  OBVIOUS
<1> DEFINE out == Handed(outbound, published, outbound_drops)
           log == Handed(replay, logged, replay_drops)
<1>0. /\ Ring(inbound, processed, inbound_drops)
      /\ Ring(outbound, published, outbound_drops) /\ Ring(replay, logged, replay_drops)
      /\ InHand(emit, out, log, produced) /\ produced \in Nat
      /\ received = Handed(inbound, processed, inbound_drops) + (IF t1 = "push" THEN 1 ELSE 0)
  BY DEF Counted, InboundCounted, EventsCounted, InHand
<1>1. emit = <<>> => out = produced /\ log = produced
  BY <1>0, EmptyHands
<1>2. UNCHANGED <<t1, received, traffic, wire>>
  BY DEF T2, T2Test, T2Process, T2Drained, T2Emit, T2Emitted, T2Timer, T2Stays, t1Vars, clientVars
<1>3. CASE T2Test \/ T2Drained \/ T2Emitted
  <2>1. UNCHANGED <<inboundVars, outboundVars, replayVars, emit, produced>>
    BY <1>3 DEF T2Test, T2Drained, T2Emitted, queueVars
  <2> QED BY <1>2, <2>1, InboundStays, EventsStay DEF Counted
<1>4. CASE T2Process
  <2>1. /\ emit = <<>> /\ inbound # <<>> /\ inbound' = Tail(inbound)
        /\ processed' = Append(processed, Head(inbound)) /\ inbound_drops' = inbound_drops
        /\ UNCHANGED <<outboundVars, replayVars>>
    BY <1>4 DEF T2Process, Inbound!Take, Inv, Seen
  <2>2. /\ inbound \in Seq(1..MaxOrders) /\ Head(inbound) \in 1..MaxOrders
        /\ Tail(inbound) \in Seq(1..MaxOrders)
    BY <2>1, HeadTailProperties DEF Counted, OrdersBounded
  <2> DEFINE k == EventCount[Head(inbound)]
             events == Numbers(k)
  <2>3. k \in Nat
    BY <2>2, BoundsAssumption
  <2>4. /\ emit' = To("replay", events) \o To("outbound", events)
        /\ produced' = produced + Len(events)
    BY <1>4 DEF T2Process
  <2> HIDE DEF k
  <2>5. InHand(emit', produced, produced, produced')
    BY <1>0, <2>3, <2>4, BatchInHand
  <2>6. EventsCounted'
    BY <1>0, <1>1, <2>1, <2>5 DEF EventsCounted, outboundVars, replayVars
  <2>7. /\ Ring(inbound', processed', inbound_drops')
        /\ Handed(inbound', processed', inbound_drops') = Handed(inbound, processed, inbound_drops)
    BY <1>0, <2>1, RingTake
  <2>8. InboundCounted'
    BY <1>0, <1>2, <2>7 DEF InboundCounted
  <2>9. OrdersBounded'
    BY <1>2, <2>1, <2>2 DEF Counted, OrdersBounded
  <2> QED BY <2>6, <2>8, <2>9 DEF Counted
<1>5. CASE T2Emit
  <2> DEFINE to == Head(emit)
  <2>1. /\ emit # <<>> /\ emit' = Tail(emit) /\ produced' = produced
        /\ UNCHANGED inboundVars
    BY <1>5 DEF T2Emit
  <2>2. \/ /\ to[1] = "replay" /\ to[2] = log + 1
           /\ InHand(Tail(emit), out, log + 1, produced)
        \/ /\ to[1] = "outbound" /\ to[2] = out + 1
           /\ InHand(Tail(emit), out + 1, log, produced)
    BY <1>0, <2>1, EmitNext
  <2>3. InboundCounted' /\ OrdersBounded'
    BY <1>2, <2>1, InboundStays
  <2>4. CASE to[1] = "replay"
    <3>1. to[2] = log + 1 /\ InHand(Tail(emit), out, log + 1, produced)
      BY <2>2, <2>4
    <3>2. /\ \/ replay' = Append(replay, to[2]) /\ replay_drops' = replay_drops
             \/ replay' = replay /\ replay_drops' = replay_drops + 1
          /\ logged' = logged /\ UNCHANGED outboundVars
      BY <1>5, <2>4 DEF T2Emit, Replay!Offer, Replay!Put, Replay!Drop
    <3> HIDE DEF to
    <3>3. /\ Ring(replay', logged, replay_drops')
          /\ Handed(replay', logged, replay_drops') = to[2]
      BY <1>0, <3>1, <3>2, RingOffer
    <3>4. EventsCounted'
      BY <1>0, <2>1, <3>1, <3>2, <3>3 DEF EventsCounted, outboundVars
    <3> QED BY <2>3, <3>4 DEF Counted
  <2>5. CASE to[1] = "outbound"
    <3>0. to[1] # "replay"
      BY <2>5
    <3>1. to[2] = out + 1 /\ InHand(Tail(emit), out + 1, log, produced)
      BY <2>2, <2>5
    <3>2. /\ \/ outbound' = Append(outbound, to[2]) /\ outbound_drops' = outbound_drops
             \/ outbound' = outbound /\ outbound_drops' = outbound_drops + 1
          /\ published' = published /\ UNCHANGED replayVars
      BY <1>5, <3>0 DEF T2Emit, Outbound!Offer, Outbound!Put, Outbound!Drop
    <3> HIDE DEF to
    <3>3. /\ Ring(outbound', published, outbound_drops')
          /\ Handed(outbound', published, outbound_drops') = to[2]
      BY <1>0, <3>1, <3>2, RingOffer
    <3>4. EventsCounted'
      BY <1>0, <2>1, <3>1, <3>2, <3>3 DEF EventsCounted, replayVars
    <3> QED BY <2>3, <3>4 DEF Counted
  <2> QED BY <2>2, <2>4, <2>5
<1>6. CASE T2Timer
  <2>1. emit = <<>> /\ UNCHANGED <<inboundVars, outboundVars, replayVars>>
    BY <1>6 DEF T2Timer, queueVars, Inv, Seen
  <2>2. InboundCounted' /\ OrdersBounded'
    BY <1>2, <2>1, InboundStays
  <2>3. CASE due
    <3>1. /\ produced' = produced + Instruments
          /\ emit' = [i \in 1..(2 * Instruments) |->
                        <<IF i % 2 = 1 THEN "replay" ELSE "outbound",
                          produced + (i + 1) \div 2>>]
      BY <1>6, <2>3 DEF T2Timer
    <3>2. InHand(emit', produced, produced, produced')
      BY <1>0, <3>1, SnapshotsInHand, BoundsAssumption
    <3>3. EventsCounted'
      BY <1>0, <1>1, <2>1, <3>2 DEF EventsCounted, outboundVars, replayVars
    <3> QED BY <2>2, <3>3 DEF Counted
  <2>4. CASE ~due
    <3>1. UNCHANGED <<produced, emit>>
      BY <1>6, <2>4 DEF T2Timer
    <3> QED BY <2>1, <2>2, <3>1, EventsStay DEF Counted
  <2> QED BY <2>3, <2>4
<1> QED BY <1>3, <1>4, <1>5, <1>6 DEF T2

LEMMA ReaderCounted == Counted /\ (T3 \/ T4) => Counted'
<1> SUFFICES ASSUME Counted, T3 \/ T4 PROVE Counted'
  OBVIOUS
<1>0. /\ Ring(outbound, published, outbound_drops) /\ Ring(replay, logged, replay_drops)
      /\ InHand(emit, Handed(outbound, published, outbound_drops),
                Handed(replay, logged, replay_drops), produced)
  BY DEF Counted, EventsCounted
<1>1. UNCHANGED <<inboundVars, t1, received, traffic, wire, emit, produced>>
  BY DEF T3, T3SeesStop, T3Publish, T3Exit, T3Stays, T4, T4SeesStop, T4Write, T4Exit, T4Stays,
         t1Vars, t2Vars, clientVars
<1>2. InboundCounted' /\ OrdersBounded'
  BY <1>1, InboundStays
<1>3. CASE T3Publish
  <2>1. /\ outbound # <<>> /\ outbound' = Tail(outbound) /\ outbound_drops' = outbound_drops
        /\ published' = Append(published, Head(outbound)) /\ UNCHANGED replayVars
    BY <1>3 DEF T3Publish, T3Stays, Outbound!Take
  <2>2. /\ Ring(outbound', published', outbound_drops')
        /\ Handed(outbound', published', outbound_drops') =
             Handed(outbound, published, outbound_drops)
    BY <1>0, <2>1, RingTake
  <2> QED BY <1>0, <1>1, <1>2, <2>1, <2>2 DEF Counted, EventsCounted, replayVars
<1>4. CASE T4Write
  <2>1. /\ replay # <<>> /\ replay' = Tail(replay) /\ replay_drops' = replay_drops
        /\ logged' = Append(logged, Head(replay)) /\ UNCHANGED outboundVars
    BY <1>4 DEF T4Write, T4Stays, Replay!Take
  <2>2. /\ Ring(replay', logged', replay_drops')
        /\ Handed(replay', logged', replay_drops') = Handed(replay, logged, replay_drops)
    BY <1>0, <2>1, RingTake
  <2> QED BY <1>0, <1>1, <1>2, <2>1, <2>2 DEF Counted, EventsCounted, outboundVars
<1>5. CASE UNCHANGED <<outboundVars, replayVars>>
  BY <1>1, <1>2, <1>5, EventsStay DEF Counted
<1> QED BY <1>3, <1>4, <1>5 DEF T3, T3SeesStop, T3Exit, T3Stays, T4, T4SeesStop, T4Exit, T4Stays

LEMMA NextCounted == Inv /\ Counted /\ [Next]_vars => Counted'
<1> SUFFICES ASSUME Inv, Counted, [Next]_vars PROVE Counted'
  OBVIOUS
<1>1. CASE Signal \/ IntervalExpires \/ UNCHANGED vars
  <2>1. UNCHANGED <<inboundVars, outboundVars, replayVars, t1, received, traffic, wire, emit, produced>>
    BY <1>1 DEF Signal, IntervalExpires, OthersStay, vars, queueVars, t1Vars, t2Vars, clientVars
  <2> QED BY <2>1, InboundStays, EventsStay DEF Counted
<1>2. CASE Arrive
  <2>1. /\ UNCHANGED <<inboundVars, outboundVars, replayVars, t1, received, emit, produced>>
        /\ traffic # <<>> /\ traffic' = Tail(traffic) /\ wire' = Append(wire, Head(traffic))
    BY <1>2 DEF Arrive, queueVars, t1Vars, t2Vars
  <2>2. traffic \in Seq(Kinds) /\ wire \in Seq(Kinds) /\ Len(traffic) \in Nat /\ Len(wire) \in Nat
    BY DEF Counted, OrdersBounded
  <2>3. /\ traffic' \in Seq(Kinds) /\ Len(traffic') = Len(traffic) - 1
        /\ wire' \in Seq(Kinds) /\ Len(wire') = Len(wire) + 1
    <3>1. /\ Tail(traffic) \in Seq(Kinds) /\ Len(Tail(traffic)) = Len(traffic) - 1
          /\ Head(traffic) \in Kinds
      BY <2>1, <2>2, HeadTailProperties
    <3>2. /\ Append(wire, Head(traffic)) \in Seq(Kinds)
          /\ Len(Append(wire, Head(traffic))) = Len(wire) + 1
      BY <2>2, <3>1, AppendProperties
    <3> QED BY <2>1, <3>1, <3>2
  <2>4. Len(traffic') + Len(wire') = Len(traffic) + Len(wire)
    BY <2>2, <2>3
  <2>5. OrdersBounded'
    BY <2>1, <2>3, <2>4 DEF Counted, OrdersBounded, inboundVars
  <2>6. InboundCounted'
    BY <2>1 DEF Counted, InboundCounted, inboundVars
  <2> QED BY <2>1, <2>5, <2>6, EventsStay DEF Counted
<1> QED BY <1>1, <1>2, MainCounted, T1Counted, T2Counted, ReaderCounted DEF Next, Ended

(* The invariant of the accounts holds in every reachable state. *)
THEOREM CountedInvariance == Spec => [](Inv /\ Counted)
<1>1. Init => Inv /\ Counted
  BY InitInv, InitCounted
<1>2. Inv /\ Counted /\ [Next]_vars => Inv' /\ Counted'
  BY NextInv, NextCounted
<1> QED BY <1>1, <1>2, PTL DEF Spec

(* No order and no event disappears uncounted, for rings of any size, any  *)
(* traffic and any number of events per order: of the events that T2 has   *)
(* produced, exactly those not handed to a ring are still in its hands.    *)
THEOREM Accounting == Spec => []EverythingCounted
<1>1. Counted => EverythingCounted
  <2> SUFFICES ASSUME Counted PROVE EverythingCounted
    OBVIOUS
  <2> DEFINE out == Handed(outbound, published, outbound_drops)
             log == Handed(replay, logged, replay_drops)
  <2>1. InHand(emit, out, log, produced) /\ InboundCounted
    BY DEF Counted, EventsCounted
  <2>2. HandedTo("replay") = log /\ HandedTo("outbound") = out
    BY DEF HandedTo, Handed
  <2>3. \A r : InHandFor(r) = Held(emit, r)
    BY DEF InHandFor, Held
  <2> HIDE DEF out, log
  <2>4. /\ out <= produced /\ log <= produced
        /\ Held(emit, "replay") = (log + 1)..produced
        /\ Held(emit, "outbound") = (out + 1)..produced
    BY <2>1 DEF InHand
  <2>5. received = Len(processed) + Len(inbound) + inbound_drops
                     + (IF t1 = "push" THEN 1 ELSE 0)
    BY <2>1 DEF InboundCounted, Handed
  <2> QED BY <2>2, <2>3, <2>4, <2>5 DEF EverythingCounted
<1> QED BY <1>1, CountedInvariance, PTL

(* Orders are processed, and events published and logged, in the order in  *)
(* which they were produced and none twice, and no event is published      *)
(* before it was offered to the log, whatever the rings drop.              *)
THEOREM Ordering == Spec => []InOrder
<1>1. Counted => InOrder
  <2> SUFFICES ASSUME Counted PROVE InOrder
    OBVIOUS
  <2> DEFINE out == Handed(outbound, published, outbound_drops)
             log == Handed(replay, logged, replay_drops)
             s   == published \o outbound
  <2>1. /\ InHand(emit, out, log, produced)
        /\ Ring(outbound, published, outbound_drops)
    BY DEF Counted, EventsCounted
  <2>2. Increasing(processed \o inbound) /\ Increasing(s) /\ Increasing(logged \o replay)
    BY DEF Counted, EventsCounted, InboundCounted, Ring
  <2>3. ASSUME NEW j \in 1..Len(emit) PROVE emit[j][2] \in Nat /\ out < emit[j][2]
    <3>1. emit[j] \in Emits
      BY <2>1, ElementOfSeq DEF InHand
    <3>2. (emit[j][1] = "replay" \/ emit[j][1] = "outbound") /\ emit[j][2] \in Nat
      BY <3>1 DEF Emits
    <3>3. emit[j][2] \in Held(emit, emit[j][1])
      BY DEF Held
    <3> HIDE DEF out, log
    <3>4. out \in Nat /\ log \in Nat /\ out <= log /\ produced \in Nat
      BY <2>1 DEF InHand
    <3>5. emit[j][2] \in (log + 1)..produced \/ emit[j][2] \in (out + 1)..produced
      BY <2>1, <3>2, <3>3 DEF InHand
    <3> QED BY <3>2, <3>4, <3>5
  <2>4. ASSUME NEW i \in 1..Len(emit), NEW j \in 1..Len(emit), i < j, emit[i][1] = emit[j][1]
        PROVE  emit[i][2] < emit[j][2]
    <3>1. Follows(emit[i], emit[j])
      BY <2>1, <2>4 DEF InHand
    <3> QED BY <2>4, <3>1 DEF Follows
  <2>5. ASSUME NEW i \in 1..Len(s) PROVE s[i] \in Nat /\ s[i] <= out
    <3>1. s \in Seq(Nat)
      BY <2>1, ConcatProperties DEF Ring
    <3>2. s[i] \in Nat
      BY <3>1, ElementOfSeq
    <3> QED BY <2>1, <3>2 DEF Ring
  <2>6. out \in Nat
    BY <2>1 DEF InHand
  <2> HIDE DEF out
  <2>7. \A i \in 1..Len(s), j \in 1..Len(emit) : s[i] < emit[j][2]
    <3> HIDE DEF s
    <3> QED BY <2>3, <2>5, <2>6
  <2> QED BY <2>2, <2>4, <2>7 DEF InOrder
<1> QED BY <1>1, CountedInvariance, PTL

=============================================================================
