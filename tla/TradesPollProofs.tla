-------------------------- MODULE TradesPollProofs --------------------------
(***************************************************************************)
(* The safety properties of TradesPoll, for every set of tickers and       *)
(* trades, every cap of the ladder and any number of faults.               *)
(***************************************************************************)
EXTENDS TradesPoll, TLAPS

Ladders == [date : {0} \cup Days, silent : [Tickers -> 0..BackoffMax],
            wait : [Tickers -> 0..BackoffMax]]

LEMMA LoadTyped ==
    ASSUME TypeOK
    PROVE  /\ LoadLadder(today) \in Ladders
           /\ \A t \in Tickers : LoadLadder(today).wait[t] \in 0..BackoffMax
<1> USE TradesAssumption DEF TypeOK, Ladders
<1>1. CASE ladder.date # today
  BY <1>1 DEF LoadLadder, NoLadder, Fresh
<1>2. CASE ladder.date = today
  BY <1>2 DEF LoadLadder, MaxOf
<1> QED
  BY <1>1, <1>2

LEMMA NextDueTyped ==
    ASSUME NEW l \in Ladders, NEW t \in Tickers, NEW n \in Nat
    PROVE  NextDue(l, t, n) \in Ladders
<1>1. /\ MinOf(n, BackoffMax) \in 0..BackoffMax
      /\ MinOf(MaxOf(n, 1), BackoffMax) \in 0..BackoffMax
  BY TradesAssumption DEF MinOf, MaxOf
<1> QED
  BY <1>1 DEF NextDue, Ladders

LEMMA TypeInit == Init => TypeOK
<1> SUFFICES ASSUME Init PROVE TypeOK
  OBVIOUS
<1> USE TradesAssumption
<1>1. NoLadder \in Ladders /\ 1 \in Days
  BY DEF NoLadder, Ladders, Fresh, Days
<1>2. ladder \in Ladders /\ lad \in Ladders
  BY <1>1 DEF Init
<1>3. \A W \in {watched, keep, due, polled, failed, rewound} : W \subseteq Tickers
  BY DEF Init
<1>4. cursors \in [Tickers -> Nat] /\ cur \in [Tickers -> Nat] /\ skips \in [Tickers -> Nat]
  BY DEF Init, NoCursors
<1>5. faults \in 0..MaxFaults /\ dark \in Nat
  BY DEF Init
<1>6. outage \in BOOLEAN
  BY DEF Init
<1>7. /\ today \in Days /\ day \in Days
      /\ published \subseteq Trades /\ overtaken \subseteq Trades /\ got \subseteq Trades
      /\ flat \in [Days -> {"none", "file", "recorded"}]
      /\ pc \in {"idle", "poll", "land", "save"}
      /\ parts \subseteq Days
      /\ landed \subseteq Trades /\ twice \subseteq Trades
  BY <1>1 DEF Init
<1> QED
  BY <1>2, <1>3, <1>4, <1>5, <1>6, <1>7 DEF TypeOK, Ladders

LEMMA TypeStep == TypeOK /\ [Next]_vars => TypeOK'
<1> SUFFICES ASSUME TypeOK, [Next]_vars PROVE TypeOK'
  OBVIOUS
<1> USE TradesAssumption DEF TypeOK
<1>1. NoLadder \in Ladders /\ NoCursors \in [Tickers -> Nat] /\ 1 \in Days
  BY DEF NoLadder, Ladders, Fresh, NoCursors, Days
<1>2. ASSUME Forget
      PROVE  /\ pc' = "idle" /\ day' \in Days /\ cur' \in [Tickers -> Nat]
             /\ lad' \in Ladders
             /\ watched' = {} /\ keep' = {} /\ due' = {} /\ polled' = {}
             /\ failed' = {} /\ got' = {} /\ parts' = {}
  BY <1>1, <1>2 DEF Forget
<1>3. ASSUME NEW tr \in Trades, Publish(tr) PROVE TypeOK'
  BY <1>3 DEF Publish, run, buffer
<1>4. CASE NextDay
  BY <1>4 DEF NextDay, run, buffer, judged, Days
<1>5. CASE Outage \/ OutageEnds
  <2>1. faults' \in 0..MaxFaults
    BY <1>5 DEF Outage, OutageEnds
  <2>2. outage' \in BOOLEAN
    BY <1>5, Zenon DEF Outage, OutageEnds
  <2> QED
    BY <1>5, <2>1, <2>2 DEF Outage, OutageEnds, run, buffer, judged
<1>6. ASSUME NEW d \in Days, FlatFile(d) PROVE TypeOK'
  BY <1>6 DEF FlatFile, vendor, run, buffer, judged
<1>7. ASSUME NEW W \in Watchlists, NEW lim \in BOOLEAN, NEW closing \in BOOLEAN,
             Start(W, lim, closing)
      PROVE  TypeOK'
  <2>1. lad' \in Ladders /\ due' \subseteq Tickers /\ watched' \subseteq Tickers
        /\ keep' \subseteq Tickers
    BY <1>7, LoadTyped DEF Start, DueTickers
  <2> QED
    BY <1>7, <2>1 DEF Start, vendor, judged, Ladders
<1>8. ASSUME NEW t \in Tickers, NEW S \in SUBSET Trades, Poll(t, S) PROVE TypeOK'
  <2>1. lad' \in Ladders
    BY <1>8, NextDueTyped DEF Poll, Ladders
  <2>2. cur' \in [Tickers -> Nat] /\ overtaken' \subseteq Trades
    BY <1>8 DEF Poll, Trade, Past
  <2>3. faults' \in 0..MaxFaults
    BY <1>8 DEF Poll
  <2> QED
    BY <1>8, <2>1, <2>2, <2>3 DEF Poll, Polled, vendor, Ladders
<1>9. ASSUME NEW t \in Tickers, PollSilent(t) PROVE TypeOK'
  <2>1. lad' \in Ladders
    <3>1. lad \in Ladders /\ lad.silent[t] + 1 \in Nat
      BY DEF Ladders
    <3> QED
      BY <1>9, <3>1, NextDueTyped DEF PollSilent
  <2> QED
    BY <1>9, <2>1 DEF PollSilent, Polled, vendor, Ladders
<1>10. ASSUME NEW t \in Tickers, PollFails(t) PROVE TypeOK'
  <2>1. lad' \in Ladders
    <3>1. lad \in Ladders /\ 0 \in 0..BackoffMax /\ 1 \in 0..BackoffMax
      BY DEF Ladders
    <3> QED
      BY <1>10, <3>1 DEF PollFails, Ladders
  <2>2. faults' \in 0..MaxFaults
    BY <1>10 DEF PollFails, Fails
  <2> QED
    BY <1>10, <2>1, <2>2 DEF PollFails, Fails, Polled, vendor, Ladders
<1>11. CASE AllFailed
  BY <1>11, <1>2 DEF AllFailed, vendor, Ladders
<1>12. CASE Split
  <2>1. ASSUME NEW f \in [Tickers -> 0..BackoffMax]
        PROVE  Keep(f) \in [Tickers -> 0..BackoffMax]
    BY DEF Keep
  <2>2. lad' \in Ladders
    <3>1. lad \in Ladders
      BY DEF Ladders
    <3> QED
      BY <1>12, <2>1, <3>1 DEF Split, Ladders
  <2>3. cur' \in [Tickers -> Nat]
    BY <1>12 DEF Split, Keep
  <2>4. parts' \subseteq Days
    BY <1>12 DEF Split, Trade
  <2> QED
    BY <1>12, <2>2, <2>3, <2>4 DEF Split, vendor, judged, Ladders
<1>13. CASE Land
  BY <1>13 DEF Land, vendor
<1>14. CASE SaveCursors
  BY <1>14 DEF SaveCursors, vendor, run, buffer
<1>15. CASE SaveLadder
  <2>1. dark' \in Nat /\ skips' \in [Tickers -> Nat]
    BY <1>15 DEF SaveLadder
  <2> QED
    BY <1>15, <1>2, <2>1 DEF SaveLadder, vendor, Ladders
<1>16. CASE Crash
  <2>1. faults' \in 0..MaxFaults /\ rewound' \subseteq Tickers
    BY <1>16 DEF Crash, Fault, Trade
  <2> QED
    BY <1>16, <1>2, <2>1 DEF Crash, vendor, Ladders
<1>17. CASE LoseCursors
  BY <1>17, <1>1 DEF LoseCursors, Fault, vendor, run, buffer
<1>18. CASE LoseLadder
  BY <1>18, <1>1 DEF LoseLadder, Fault, vendor, run, buffer, judged, Ladders
<1>19. CASE UNCHANGED vars
  BY <1>19 DEF vars, vendor, run, buffer, judged
<1> QED
  BY <1>3, <1>4, <1>5, <1>6, <1>7, <1>8, <1>9, <1>10, <1>11, <1>12, <1>13, <1>14,
     <1>15, <1>16, <1>17, <1>18, <1>19 DEF Next, Begin, Step

\* TypeOK: the state of the polls and their files keeps its shape.
THEOREM PollTypes == Spec => []TypeOK
  BY TypeInit, TypeStep, PTL DEF Spec
-----------------------------------------------------------------------------
\* What the run fetched is on its way to clean/option_trades until its day is
\* written; that is what keeps a saved cursor from running ahead of the data.
Pending(tr) == pc \in {"poll", "land"} /\ tr \in got /\ (pc = "land" => tr.day \in parts)

Behind ==
    \A tr \in published \ overtaken :
        tr.at <= cur[tr.ticker] => Accounted(tr) \/ Pending(tr)

GapInv == TypeOK /\ NeverGaps /\ Behind

LEMMA GapStep == GapInv /\ [Next]_vars => NeverGaps' /\ Behind'
<1> SUFFICES ASSUME GapInv, [Next]_vars PROVE NeverGaps' /\ Behind'
  OBVIOUS
<1> USE TradesAssumption DEF GapInv, TypeOK
<1>1. \A tr \in Trades : tr.at \in Nat \ {0} /\ tr.ticker \in Tickers /\ tr.day \in Days
  BY DEF Trade
<1>2. ASSUME Forget, UNCHANGED <<published, overtaken, flat, landed>> PROVE Behind'
  BY <1>1, <1>2 DEF Forget, Behind, NoCursors
<1>3. ASSUME NEW tr \in Trades, Publish(tr) PROVE NeverGaps' /\ Behind'
  <2>1. tr \notin overtaken' => tr.at > cursors[tr.ticker] /\ tr.at > cur[tr.ticker]
    BY <1>1, <1>3 DEF Publish, MaxOf
  <2> QED
    BY <1>1, <1>3, <2>1 DEF Publish, run, buffer, NeverGaps, Behind, Accounted, Pending
<1>4. CASE NextDay
  BY <1>4 DEF NextDay, run, buffer, judged, NeverGaps, Behind, Accounted, Pending
<1>5. CASE Outage \/ OutageEnds
  BY <1>5 DEF Outage, OutageEnds, run, buffer, judged, NeverGaps, Behind, Accounted,
              Pending
<1>6. ASSUME NEW d \in Days, FlatFile(d) PROVE NeverGaps' /\ Behind'
  BY <1>1, <1>6 DEF FlatFile, vendor, run, buffer, judged, NeverGaps, Behind, Accounted,
                    Pending
<1>7. ASSUME NEW W \in Watchlists, NEW lim \in BOOLEAN, NEW closing \in BOOLEAN,
             Start(W, lim, closing)
      PROVE  NeverGaps' /\ Behind'
  BY <1>7 DEF Start, vendor, judged, NeverGaps, Behind, Accounted
<1>8. ASSUME NEW t \in Tickers, NEW S \in SUBSET Trades, Poll(t, S)
      PROVE  NeverGaps' /\ Behind'
  <2>1. UNCHANGED <<published, flat, landed, cursors, pc, parts>> /\ pc = "poll"
    BY <1>8 DEF Poll, Polled, vendor
  <2>2. NeverGaps'
    BY <1>8, <2>1 DEF Poll, NeverGaps, Accounted
  <2>3. ASSUME NEW tr \in published \ overtaken', tr.at <= cur'[tr.ticker]
        PROVE  Accounted(tr)' \/ Pending(tr)'
    <3>1. tr \in published \ overtaken
      BY <1>8, <2>3 DEF Poll
    <3>2. CASE tr.at <= cur[tr.ticker]
      BY <1>8, <2>1, <3>1, <3>2 DEF Poll, Behind, Accounted, Pending
    <3>3. CASE ~(tr.at <= cur[tr.ticker])
      <4>1. PICK last \in S :
               /\ \A o \in Past(t) \ S : o.at >= last.at
               /\ cur' = [cur EXCEPT ![t] = last.at]
               /\ overtaken' = overtaken \cup {o \in Past(t) \ S : o.at = last.at}
        BY <1>8 DEF Poll
      <4>2. tr.ticker = t /\ tr.at <= last.at
        BY <1>1, <2>3, <3>3, <4>1
      <4>3. tr \in Past(t)
        BY <1>1, <3>1, <3>3, <4>2 DEF Past
      <4>4. tr \in S
        BY <1>1, <2>3, <4>1, <4>2, <4>3
      <4> QED
        BY <1>8, <2>1, <4>4 DEF Poll, Pending
    <3> QED
      BY <3>2, <3>3
  <2> QED
    BY <2>1, <2>2, <2>3 DEF Behind
<1>9. ASSUME NEW t \in Tickers, PollSilent(t) \/ PollFails(t)
      PROVE  NeverGaps' /\ Behind'
  BY <1>9 DEF PollSilent, PollFails, Fails, Polled, vendor, NeverGaps, Behind,
              Accounted, Pending
<1>10. CASE AllFailed
  BY <1>10, <1>2 DEF AllFailed, vendor, NeverGaps, Accounted
<1>11. CASE Split
  <2>1. NeverGaps'
    BY <1>11 DEF Split, vendor, judged, NeverGaps, Accounted
  <2>2. ASSUME NEW tr \in published \ overtaken, tr.at <= cur'[tr.ticker]
        PROVE  Accounted(tr)' \/ Pending(tr)'
    <3>1. tr.at <= cur[tr.ticker]
      BY <1>1, <1>11, <2>2 DEF Split, Keep
    <3>2. Accounted(tr) \/ tr \in got
      BY <2>2, <3>1 DEF Behind, Pending
    <3>3. tr.day \in Covered => Accounted(tr)
      BY DEF Covered, Accounted
    <3> QED
      BY <1>1, <1>11, <3>2, <3>3 DEF Split, Accounted, Pending
  <2> QED
    BY <1>11, <2>1, <2>2 DEF Split, Behind, vendor, judged
<1>12. CASE Land
  BY <1>12 DEF Land, vendor, NeverGaps, Behind, Accounted, Pending
<1>13. CASE SaveCursors
  BY <1>13 DEF SaveCursors, vendor, run, buffer, NeverGaps, Behind, Accounted, Pending
<1>14. CASE SaveLadder
  BY <1>14, <1>2 DEF SaveLadder, vendor, NeverGaps, Accounted
<1>15. CASE Crash
  BY <1>15, <1>2 DEF Crash, vendor, NeverGaps, Accounted
<1>16. CASE LoseCursors
  BY <1>1, <1>16 DEF LoseCursors, NoCursors, vendor, run, buffer, NeverGaps, Behind,
                     Accounted, Pending
<1>17. CASE LoseLadder
  BY <1>17 DEF LoseLadder, vendor, run, buffer, judged, NeverGaps, Behind, Accounted,
               Pending
<1>18. CASE UNCHANGED vars
  BY <1>18 DEF vars, vendor, run, buffer, judged, NeverGaps, Behind, Accounted, Pending
<1> QED
  BY <1>3, <1>4, <1>5, <1>6, <1>7, <1>8, <1>9, <1>10, <1>11, <1>12, <1>13, <1>14,
     <1>15, <1>16, <1>17, <1>18 DEF Next, Begin, Step

\* NeverGaps: a trade the saved cursor is past is landed, or in the flat file
\* of its day.
THEOREM CursorsNeverSkip == Spec => []NeverGaps
<1>1. Init => GapInv
  <2>1. Init => published = {}
    BY DEF Init
  <2> QED
    BY <2>1, TypeInit DEF GapInv, NeverGaps, Behind
<1>2. GapInv /\ [Next]_vars => GapInv'
  BY TypeStep, GapStep DEF GapInv
<1>3. GapInv => NeverGaps
  BY DEF GapInv
<1> QED
  BY <1>1, <1>2, <1>3, PTL DEF Spec
-----------------------------------------------------------------------------
\* Which tickers a run has polled, and which it still has to.
Shape ==
    /\ pc = "idle" => watched = {} /\ due = {} /\ polled = {} /\ failed = {} /\ got = {}
    /\ failed \subseteq polled /\ polled \cup due \subseteq watched /\ watched \subseteq keep
    /\ due \cap polled = {}
    /\ pc \in {"land", "save"} => due = {}
    /\ \A tr \in got : tr.ticker \in polled

\* The ladder keeps count of the skips it still allows, in the file and, for a
\* ticker this run skips, in memory.
Allowed ==
    /\ \A t \in Tickers : skips[t] < BackoffMax /\ skips[t] + ladder.wait[t] <= BackoffMax
    /\ \A t \in watched \ (due \cup polled) :
         lad.wait[t] >= 1 /\ skips[t] + lad.wait[t] + 1 <= BackoffMax

\* Every run that no ticker answered brings the slots of those it skipped one
\* nearer, and the others' to the next run.
Dimming ==
    /\ dark < BackoffMax
    /\ dark > 0 => \A t \in Tickers : ladder.wait[t] + dark <= BackoffMax
    /\ \A t \in Tickers \ polled :
         pc # "idle" /\ lad.wait[t] >= 1 => lad.wait[t] + dark + 1 <= BackoffMax
    /\ \A t \in failed : lad.wait[t] = 1
    /\ pc \in {"land", "save"} /\ polled = failed /\ polled # {} =>
         dark + 2 <= BackoffMax

LadderInv == TypeOK /\ Shape /\ Allowed /\ Dimming

\* A step that leaves the run alone.
Outside == \/ \E tr \in Trades : Publish(tr)
           \/ NextDay \/ Outage \/ OutageEnds
           \/ \E d \in Days : FlatFile(d)

LEMMA ShapeStep == TypeOK /\ Shape /\ [Next]_vars => Shape'
<1> SUFFICES ASSUME TypeOK, Shape, [Next]_vars PROVE Shape'
  OBVIOUS
<1> USE TradesAssumption DEF TypeOK, Shape
<1>1. ASSUME Forget PROVE Shape'
  BY <1>1 DEF Forget
<1>2. CASE Outside \/ LoseCursors \/ LoseLadder \/ UNCHANGED vars
  BY <1>2 DEF Outside, Publish, NextDay, Outage, OutageEnds, FlatFile, LoseCursors,
              LoseLadder, vars, run, buffer
<1>3. ASSUME NEW W \in Watchlists, NEW lim \in BOOLEAN, NEW closing \in BOOLEAN,
             Start(W, lim, closing)
      PROVE  Shape'
  <2>1. due' \subseteq W
    BY <1>3 DEF Start, DueTickers
  <2> QED
    BY <1>3, <2>1 DEF Start
<1>4. ASSUME NEW t \in Tickers,
             (\E S \in SUBSET Trades : Poll(t, S)) \/ PollSilent(t) \/ PollFails(t)
      PROVE  Shape'
  <2>1. Polled(t)
    BY <1>4 DEF Poll, PollSilent, PollFails, Fails
  <2>2. failed' \subseteq failed \cup {t}
    BY <1>4 DEF Poll, PollSilent, PollFails, Fails
  <2>3. \A tr \in got' : tr \in got \/ tr.ticker = t
    BY <1>4 DEF Poll, PollSilent, PollFails, Fails, Past
  <2> QED
    BY <2>1, <2>2, <2>3 DEF Polled
<1>5. CASE AllFailed \/ SaveLadder \/ Crash
  BY <1>1, <1>5 DEF AllFailed, SaveLadder, Crash
<1>6. CASE Split
  BY <1>6 DEF Split
<1>7. CASE Land
  BY <1>7 DEF Land
<1>8. CASE SaveCursors
  BY <1>8 DEF SaveCursors, run, buffer
<1> QED
  BY <1>2, <1>3, <1>4, <1>5, <1>6, <1>7, <1>8 DEF Next, Begin, Step, Outside

LEMMA LadderStep == LadderInv /\ [Next]_vars => Allowed' /\ Dimming'
<1> SUFFICES ASSUME LadderInv, [Next]_vars PROVE Allowed' /\ Dimming'
  OBVIOUS
<1> USE TradesAssumption DEF LadderInv
<1>1. /\ ladder \in Ladders /\ lad \in Ladders
      /\ \A t \in Tickers : /\ ladder.wait[t] \in 0..BackoffMax
                            /\ lad.wait[t] \in 0..BackoffMax
                            /\ skips[t] \in Nat
      /\ dark \in Nat
  BY DEF TypeOK, Ladders
<1>2. ASSUME Forget, UNCHANGED <<ladder, skips>>, dark' = dark \/ dark' = 0
      PROVE  Allowed' /\ Dimming'
  BY <1>1, <1>2 DEF Forget, Allowed, Dimming
<1>3. CASE Outside \/ LoseCursors \/ UNCHANGED vars
  BY <1>3 DEF Outside, Publish, NextDay, Outage, OutageEnds, FlatFile, LoseCursors,
              vars, run, buffer, judged, Allowed, Dimming
<1>4. CASE LoseLadder
  <2>1. \A t \in Tickers : ladder'.wait[t] = 0
    BY <1>4 DEF LoseLadder, NoLadder, Fresh
  <2> QED
    BY <1>1, <1>4, <2>1 DEF LoseLadder, run, buffer, judged, Allowed, Dimming
<1>5. ASSUME NEW W \in Watchlists, NEW lim \in BOOLEAN, NEW closing \in BOOLEAN,
             Start(W, lim, closing)
      PROVE  Allowed' /\ Dimming'
  <2>1. \A t \in Tickers :
           /\ lad'.wait[t] \in 0..BackoffMax
           /\ lad'.wait[t] >= 1 => lad'.wait[t] + 1 = ladder.wait[t]
    <3>1. CASE ladder.date # today
      BY <1>5, <3>1 DEF Start, LoadLadder, NoLadder, Fresh
    <3>2. CASE ladder.date = today
      <4>1. lad' = [ladder EXCEPT !.wait = [t \in Tickers |-> MaxOf(0, ladder.wait[t] - 1)]]
        BY <1>5, <3>2 DEF Start, LoadLadder
      <4>2. \A t \in Tickers : lad'.wait[t] = MaxOf(0, ladder.wait[t] - 1)
        BY <1>1, <4>1 DEF Ladders
      <4> QED
        BY <1>1, <4>2 DEF MaxOf
    <3> QED
      BY <3>1, <3>2
  <2>2. \A t \in watched' \ due' : t \in Tickers /\ lad'.wait[t] # 0
    BY <1>5 DEF Start, DueTickers
  <2>3. UNCHANGED <<ladder, skips, dark, polled, failed>> /\ polled = {} /\ failed = {}
        /\ pc' = "poll"
    BY <1>5 DEF Start, judged, Shape
  <2>4. Allowed'
    BY <1>1, <2>1, <2>2, <2>3 DEF Allowed
  <2>5. Dimming'
    BY <1>1, <2>1, <2>3 DEF Dimming
  <2> QED
    BY <2>4, <2>5
<1>6. ASSUME NEW t \in Tickers, Polled(t), failed' \subseteq failed \cup {t},
             lad' \in Ladders, \A u \in Tickers \ {t} : lad'.wait[u] = lad.wait[u],
             t \in failed' => lad'.wait[t] = 1
      PROVE  Allowed' /\ Dimming'
  <2>1. /\ UNCHANGED <<ladder, skips, dark, watched, pc>> /\ pc = "poll"
        /\ due' = due \ {t} /\ polled' = polled \cup {t} /\ watched \subseteq Tickers
    BY <1>6 DEF Polled, TypeOK
  <2>2. Allowed'
    BY <1>6, <2>1 DEF Allowed
  <2>3. failed \subseteq Tickers
    BY DEF TypeOK
  <2>4. Dimming'
    BY <1>6, <2>1, <2>3 DEF Dimming
  <2> QED
    BY <2>2, <2>4
<1>7. ASSUME NEW t \in Tickers, NEW S \in SUBSET Trades, Poll(t, S)
      PROVE  Allowed' /\ Dimming'
  <2>1. lad' \in Ladders
    BY <1>1, <1>7, NextDueTyped DEF Poll
  <2>2. \A u \in Tickers \ {t} : lad'.wait[u] = lad.wait[u]
    BY <1>1, <1>7 DEF Poll, NextDue, Ladders
  <2>3. t \notin failed' /\ failed' = failed /\ Polled(t)
    BY <1>7 DEF Poll, Polled, Shape
  <2> QED
    BY <1>6, <2>1, <2>2, <2>3
<1>8. ASSUME NEW t \in Tickers, PollSilent(t) PROVE Allowed' /\ Dimming'
  <2>1. lad' \in Ladders
    <3>1. lad.silent[t] + 1 \in Nat
      BY <1>1 DEF Ladders
    <3> QED
      BY <1>1, <1>8, <3>1, NextDueTyped DEF PollSilent
  <2>2. \A u \in Tickers \ {t} : lad'.wait[u] = lad.wait[u]
    BY <1>1, <1>8 DEF PollSilent, NextDue, Ladders
  <2>3. t \notin failed' /\ failed' = failed /\ Polled(t)
    BY <1>8 DEF PollSilent, Polled, Shape
  <2> QED
    BY <1>6, <2>1, <2>2, <2>3
<1>9. ASSUME NEW t \in Tickers, PollFails(t) PROVE Allowed' /\ Dimming'
  <2>1. lad' = [lad EXCEPT !.silent[t] = 0, !.wait[t] = 1]
    BY <1>9 DEF PollFails
  <2>2. /\ lad' \in Ladders /\ lad'.wait[t] = 1
        /\ \A u \in Tickers \ {t} : lad'.wait[u] = lad.wait[u]
    <3>1. 0 \in 0..BackoffMax /\ 1 \in 0..BackoffMax
      OBVIOUS
    <3> QED
      BY <1>1, <2>1, <3>1 DEF Ladders
  <2>3. failed' \subseteq failed \cup {t} /\ Polled(t)
    BY <1>9 DEF PollFails, Fails
  <2> QED
    BY <1>6, <2>2, <2>3
<1>10. CASE AllFailed
  BY <1>10, <1>2 DEF AllFailed
<1>11. CASE Split
  <2>1. \A t \in Tickers : lad'.wait[t] = IF t \in keep THEN lad.wait[t] ELSE 0
    BY <1>1, <1>11 DEF Split, Keep, Ladders
  <2>2. /\ UNCHANGED <<ladder, skips, dark, watched, keep, due, polled, failed>>
        /\ pc = "poll" /\ pc' = "land" /\ due = {} /\ watched \subseteq Tickers
        /\ watched = {} \/ failed # watched
    BY <1>11 DEF Split, judged, TypeOK
  <2>3. Allowed'
    BY <2>1, <2>2 DEF Allowed, Shape
  <2>4. ASSUME polled = failed, polled # {} PROVE dark + 2 <= BackoffMax
    <3>1. PICK t \in watched : t \notin polled
      BY <2>2, <2>4 DEF Shape
    <3>2. lad.wait[t] >= 1
      BY <2>2, <3>1 DEF Allowed
    <3> QED
      BY <1>1, <2>2, <3>1, <3>2 DEF Dimming
  <2>5. Dimming'
    BY <1>1, <2>1, <2>2, <2>4 DEF Dimming, Shape
  <2> QED
    BY <2>3, <2>5
<1>12. CASE Land
  BY <1>12 DEF Land, Allowed, Dimming
<1>13. CASE SaveCursors
  BY <1>13 DEF SaveCursors, run, buffer, Allowed, Dimming
<1>14. CASE SaveLadder
  <2>1. /\ Forget /\ pc = "save" /\ due = {} /\ ladder' = lad
        /\ dark' = IF polled = {} THEN dark ELSE IF failed = polled THEN dark + 1 ELSE 0
        /\ \A t \in Tickers : skips'[t] = IF t \in polled \/ t \notin watched THEN 0
                                          ELSE skips[t] + 1
    BY <1>14 DEF SaveLadder, Shape
  <2>2. watched' = {} /\ failed' = {} /\ pc' = "idle"
    BY <2>1 DEF Forget
  <2>3. Allowed'
    BY <1>1, <2>1, <2>2 DEF Allowed
  <2>4. dark' < BackoffMax /\ \A t \in Tickers : dark' > 0 => lad.wait[t] + dark' <= BackoffMax
    BY <1>1, <2>1 DEF Dimming
  <2> QED
    BY <2>1, <2>2, <2>3, <2>4 DEF Dimming
<1>15. CASE Crash
  BY <1>15, <1>2 DEF Crash
<1> QED
  BY <1>3, <1>4, <1>5, <1>7, <1>8, <1>9, <1>10, <1>11, <1>12, <1>13, <1>14, <1>15
  DEF Next, Begin, Step, Outside

LEMMA LadderInvariance == Spec => []LadderInv
<1>1. Init => LadderInv
  <2> SUFFICES ASSUME Init PROVE Shape /\ Allowed /\ Dimming
    BY TypeInit DEF LadderInv
  <2>1. \A t \in Tickers : ladder.wait[t] = 0 /\ skips[t] = 0
    BY DEF Init, NoLadder, Fresh
  <2> QED
    BY <2>1, TradesAssumption DEF Init, Shape, Allowed, Dimming
<1>2. LadderInv /\ [Next]_vars => LadderInv'
  BY TypeStep, ShapeStep, LadderStep DEF LadderInv
<1> QED
  BY <1>1, <1>2, PTL DEF Spec

\* SkippedLessThanCap: backoff never skips a ticker BACKOFF_MAX runs in a row.
THEOREM BackoffIsBounded == Spec => []SkippedLessThanCap
<1>1. LadderInv => SkippedLessThanCap
  BY DEF LadderInv, Allowed, SkippedLessThanCap
<1> QED
  BY <1>1, LadderInvariance, PTL

\* OutageSurfaces: fewer than BACKOFF_MAX runs in a row hide an outage.
THEOREM OutagesAreReported == Spec => []OutageSurfaces
<1>1. LadderInv => OutageSurfaces
  BY DEF LadderInv, Dimming, OutageSurfaces
<1> QED
  BY <1>1, LadderInvariance, PTL
-----------------------------------------------------------------------------
\* As long as its cursor does not fall back, what a run fetches of a ticker
\* lies past the saved cursor, and what is landed does not.
Fresher ==
    /\ \A tr \in got : pc \in {"poll", "land"} => tr.at <= cur[tr.ticker]
    /\ \A t \in due \ rewound : cur[t] = cursors[t]
    /\ \A tr \in got : pc \in {"poll", "land"} /\ tr.ticker \notin rewound =>
         tr.at > cursors[tr.ticker]

Written(tr) == pc = "land" /\ tr \in got /\ tr.day \notin parts

Older == \A tr \in landed :
           tr.ticker \notin rewound => tr.at <= cursors[tr.ticker] \/ Written(tr)

OnceInv == TypeOK /\ Shape /\ Fresher /\ Older /\ OnceUnlessRewound

LEMMA OnceStep ==
    OnceInv /\ [Next]_vars => Fresher' /\ Older' /\ OnceUnlessRewound'
<1> SUFFICES ASSUME OnceInv, [Next]_vars PROVE Fresher' /\ Older' /\ OnceUnlessRewound'
  OBVIOUS
<1> USE TradesAssumption DEF OnceInv, TypeOK, OnceUnlessRewound
<1>1. \A tr \in Trades : tr.at \in Nat \ {0} /\ tr.ticker \in Tickers /\ tr.day \in Days
  BY DEF Trade
<1>2. ASSUME Forget, UNCHANGED <<cursors, landed, twice>>, rewound \subseteq rewound',
             \A tr \in landed : Written(tr) => tr.ticker \in rewound'
      PROVE  Fresher' /\ Older' /\ OnceUnlessRewound'
  BY <1>1, <1>2 DEF Forget, Fresher, Older
<1>3. CASE Outside \/ LoseLadder \/ UNCHANGED vars
  BY <1>3 DEF Outside, Publish, NextDay, Outage, OutageEnds, FlatFile, LoseLadder,
              vars, vendor, run, buffer, judged, Fresher, Older, Written
<1>4. CASE LoseCursors
  <2>1. /\ UNCHANGED <<cur, got, due, pc, parts, landed, twice>>
        /\ \A t \in Tickers \ rewound' : t \notin rewound /\ cursors[t] = 0 /\ cursors'[t] = 0
        /\ rewound' \subseteq Tickers
    BY <1>4 DEF LoseCursors, run, buffer, NoCursors
  <2> QED
    BY <1>1, <2>1 DEF Fresher, Older, Written
<1>5. ASSUME NEW W \in Watchlists, NEW lim \in BOOLEAN, NEW closing \in BOOLEAN,
             Start(W, lim, closing)
      PROVE  Fresher' /\ Older' /\ OnceUnlessRewound'
  BY <1>5 DEF Start, judged, Shape, Fresher, Older, Written
<1>6. ASSUME NEW t \in Tickers, NEW S \in SUBSET Trades, Poll(t, S)
      PROVE  Fresher' /\ Older' /\ OnceUnlessRewound'
  <2>1. /\ UNCHANGED <<cursors, pc, parts, landed, rewound, twice>> /\ pc = "poll"
        /\ t \in due /\ due' = due \ {t} /\ got' = got \cup S
    BY <1>6 DEF Poll, Polled
  <2>2. \A tr \in S : tr.ticker = t /\ tr.at > cur[t]
    BY <1>6 DEF Poll, Past
  <2>3. PICK last \in S : /\ \A tr \in S : tr.at <= last.at
                          /\ cur' = [cur EXCEPT ![t] = last.at]
    BY <1>6 DEF Poll
  <2>4. \A tr \in got : tr.ticker # t
    BY <2>1 DEF Shape
  <2>5. Fresher'
    <3>1. \A tr \in got' : tr.at <= cur'[tr.ticker]
      BY <1>1, <2>1, <2>2, <2>3, <2>4 DEF Fresher
    <3>2. \A u \in due' \ rewound' : cur'[u] = cursors'[u]
      BY <2>1, <2>3 DEF Fresher
    <3>3. \A tr \in got' : tr.ticker \notin rewound' => tr.at > cursors'[tr.ticker]
      BY <2>1, <2>2 DEF Fresher
    <3> QED
      BY <3>1, <3>2, <3>3 DEF Fresher
  <2> QED
    BY <2>1, <2>5 DEF Older, Written
<1>7. ASSUME NEW t \in Tickers, PollSilent(t) \/ PollFails(t)
      PROVE  Fresher' /\ Older' /\ OnceUnlessRewound'
  BY <1>7 DEF PollSilent, PollFails, Fails, Polled, Fresher, Older, Written
<1>8. CASE AllFailed
  BY <1>8, <1>2 DEF AllFailed, Written
<1>9. CASE Split
  <2>1. /\ UNCHANGED <<cursors, got, due, landed, rewound, twice>>
        /\ pc = "poll" /\ pc' = "land" /\ due = {}
        /\ \A t \in keep \cap Tickers : cur'[t] = cur[t]
    BY <1>9 DEF Split, judged, Keep
  <2>2. \A tr \in got : tr.ticker \in keep
    BY DEF Shape
  <2> QED
    BY <1>1, <2>1, <2>2 DEF Fresher, Older, Written
<1>10. CASE Land
  <2>1. PICK d \in parts :
           /\ parts' = parts \ {d}
           /\ landed' = landed \cup {tr \in got : tr.day = d}
           /\ twice' = twice \cup {tr \in {o \in got : o.day = d} \cap landed :
                                     tr.ticker \notin rewound}
    BY <1>10 DEF Land
  <2>2. UNCHANGED <<cursors, pc, cur, got, due, rewound>> /\ pc = "land"
    BY <1>10 DEF Land
  <2>3. \A tr \in got \cap landed : tr.day = d => tr.ticker \in rewound
    BY <1>1, <2>1, <2>2 DEF Fresher, Older, Written
  <2> QED
    BY <1>1, <2>1, <2>2, <2>3 DEF Fresher, Older, Written
<1>11. CASE SaveCursors
  <2>1. /\ UNCHANGED <<cur, got, due, landed, twice>> /\ pc' = "save" /\ pc = "land"
        /\ due = {} /\ cursors' = cur
        /\ \A t \in Tickers : t \notin rewound' => t \notin rewound /\ ~(cur[t] < cursors[t])
    BY <1>11 DEF SaveCursors, run, buffer, Shape
  <2> QED
    BY <1>1, <2>1 DEF Fresher, Older, Written
<1>12. CASE SaveLadder
  BY <1>12, <1>2 DEF SaveLadder, Written
<1>13. CASE Crash
  BY <1>1, <1>13, <1>2 DEF Crash, Written
<1> QED
  BY <1>3, <1>4, <1>5, <1>6, <1>7, <1>8, <1>9, <1>10, <1>11, <1>12, <1>13
  DEF Next, Begin, Step, Outside

\* OnceUnlessRewound: no trade is landed twice unless its cursor fell back.
THEOREM NoDuplicates == Spec => []OnceUnlessRewound
<1>1. Init => OnceInv
  BY TypeInit DEF Init, OnceInv, Shape, Fresher, Older, OnceUnlessRewound
<1>2. OnceInv /\ [Next]_vars => OnceInv'
  BY TypeStep, ShapeStep, OnceStep DEF OnceInv
<1>3. OnceInv => OnceUnlessRewound
  BY DEF OnceInv
<1> QED
  BY <1>1, <1>2, <1>3, PTL DEF Spec
=============================================================================
