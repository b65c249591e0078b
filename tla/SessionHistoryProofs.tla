------------------------ MODULE SessionHistoryProofs ------------------------
(***************************************************************************)
(* What history_audit makes of the archive, for any number of days and     *)
(* datasets, any order in which the vendor publishes, any hand-run audits  *)
(* and any number of deaths.                                               *)
(***************************************************************************)
EXTENDS SessionHistory, TLAPS

NothingKnown == [d \in Days |-> "unknown"]

\* The audit under way ends on a day of the calendar.
Bounded == until \in 0..LastDay

LEMMA TypeInit == Init => TypeOK /\ Bounded
<1> SUFFICES ASSUME Init PROVE TypeOK /\ Bounded
  OBVIOUS
<1>1. 0 \in 0..MaxFaults /\ 0 \in 0..LastDay
  BY HistoryAssumption
<1>2. [d \in Days |-> "unknown"] \in [Days -> Answer] /\ [d \in Days |-> {}] \in [Days -> SUBSET Datasets]
  BY DEF Answer
<1> QED
  BY <1>1, <1>2 DEF Init, TypeOK, Bounded

LEMMA DaysCount == /\ Days \subseteq Nat /\ Days \subseteq 0..LastDay
                   /\ \A d \in Nat : d # 0 /\ d <= LastDay => d \in Days
  BY HistoryAssumption DEF Days

\* A file of the archive is of one of the datasets.
LEMMA RowsTyped == \A d \in Days, i \in Datasets : Rows(d, i) \subseteq Datasets
  BY DEF Rows

\* The steps of the vendor, the clock and the pulls touch no variable of an
\* audit; those of an audit leave the archive alone.
LEMMA AuditFrame ==
    \/ Midnight \/ Capture \/ PullDaily \/ (\E d \in Days : PullDate(d)) \/ PullGoesOn
    \/ \E d \in Days, i \in Datasets : Publish(d, i) \/ PullFails(d, i)
    => UNCHANGED <<calVars, auditVars>>
  BY DEF Midnight, Capture, PullDaily, PullDate, Launch, PullGoesOn, Missing, Land,
         Publish, PullFails

LEMMA ArchiveFrame ==
    \/ AuditWeekly \/ (\E f, l \in Days : AuditRange(f, l))
    \/ AuditGoesOn \/ AuditUnanswered \/ AuditDies
    => UNCHANGED <<published, part>>
  BY DEF AuditWeekly, AuditRange, AuditBegins, AuditGoesOn, AuditPresent, AuditKnown,
         AuditProbe, AuditUnanswered, AuditEnds, AuditDies, Step, pullVars

\* The types, and the bound of an audit, are kept.
LEMMA TypeStep == TypeOK /\ Bounded /\ [Next]_vars => (TypeOK /\ Bounded)'
<1> SUFFICES ASSUME TypeOK, Bounded, [Next]_vars PROVE (TypeOK /\ Bounded)'
  OBVIOUS
<1> USE HistoryAssumption, DaysCount DEF TypeOK, Bounded
<1>1. NothingKnown \in [Days -> Answer]
  BY DEF NothingKnown, Answer
<1>2. CASE Midnight
  BY <1>2 DEF Midnight, pullVars, calVars, auditVars
<1>3. CASE Capture
  BY <1>3 DEF Capture, calVars, auditVars
<1>4. ASSUME NEW d \in Days, NEW i \in Datasets, Publish(d, i) PROVE (TypeOK /\ Bounded)'
  BY <1>4 DEF Publish, pullVars, calVars, auditVars
<1>5. ASSUME NEW d \in Days, NEW i \in Datasets, PullFails(d, i) PROVE (TypeOK /\ Bounded)'
  <2>1. [part EXCEPT ![d] = @ \cup Rows(d, i)] \in [Days -> SUBSET Datasets]
    BY RowsTyped
  <2>2. faults' \in 0..MaxFaults
    BY <1>5 DEF PullFails, Fault
  <2> QED
    BY <1>5, <2>1, <2>2 DEF PullFails, calVars, auditVars
<1>6. ASSUME NEW work \in SUBSET (Days \X Datasets), Launch(work)
      PROVE  (TypeOK /\ Bounded)'
  BY <1>6 DEF Launch, calVars, auditVars
<1>7. CASE PullDaily
  <2>1. \A d \in Days : Incomplete(d) \cup ({d} \X Datasets) \in SUBSET (Days \X Datasets)
    BY DEF Incomplete, Recent, Known
  <2> QED
    BY <1>6, <1>7, <2>1 DEF PullDaily
<1>8. ASSUME NEW d \in Days, PullDate(d) PROVE (TypeOK /\ Bounded)'
  <2>1. {d} \X Datasets \in SUBSET (Days \X Datasets)
    OBVIOUS
  <2> QED
    BY <1>6, <1>8, <2>1 DEF PullDate
<1>9. ASSUME NEW d \in Days, NEW i \in Datasets, Missing(d, i) PROVE (TypeOK /\ Bounded)'
  BY <1>9 DEF Missing, calVars, auditVars
<1>10. ASSUME NEW d \in Days, NEW i \in Datasets, Land(d, i) PROVE (TypeOK /\ Bounded)'
  <2>1. [part EXCEPT ![d] = @ \cup Rows(d, i)] \in [Days -> SUBSET Datasets]
    BY RowsTyped
  <2> QED
    BY <1>10, <2>1 DEF Land, calVars, auditVars
<1>11. ASSUME NEW f \in Days, NEW l \in Days, AuditBegins(f, l) PROVE (TypeOK /\ Bounded)'
  <2>1. f \in Nat /\ l \in Nat /\ l \in 0..LastDay
    OBVIOUS
  <2>2. mem' \in [Days -> Answer]
    BY <1>1, <1>11 DEF AuditBegins, NothingKnown
  <2> QED
    BY <1>11, <2>1, <2>2 DEF AuditBegins, pullVars, calVars
<1>12. CASE AuditWeekly
  BY <1>11, <1>12 DEF AuditWeekly
<1>13. ASSUME NEW f \in Days, NEW l \in Days, AuditRange(f, l) PROVE (TypeOK /\ Bounded)'
  BY <1>11, <1>13 DEF AuditRange
<1>14. Turn => cursor \in Days
  <2>1. Turn => cursor <= LastDay /\ cursor # 0
    BY DEF Turn
  <2> QED
    BY <2>1
<1>15. CASE AuditPresent \/ AuditKnown \/ AuditProbe
  <2>1. /\ mem' \in [Days -> Answer] /\ bad' \subseteq Days /\ excused' \subseteq Days
        /\ UNCHANGED faults
    BY <1>14, <1>15 DEF AuditPresent, AuditKnown, AuditProbe, Answer
  <2>2. Step
    BY <1>15 DEF AuditPresent, AuditKnown, AuditProbe
  <2> QED
    BY <2>1, <2>2 DEF Step, pullVars, calVars
<1>16. CASE AuditUnanswered
  BY <1>16 DEF AuditUnanswered, Step, Fault, pullVars, calVars
<1>17. CASE AuditEnds
  <2>1. mem' \in [Days -> Answer] /\ cursor' = 0 /\ until' = 0 /\ bad' = {}
    BY <1>1, <1>17 DEF AuditEnds, AuditOff, NothingKnown
  <2>2. 0 \in 0..LastDay
    OBVIOUS
  <2> QED
    BY <1>17, <2>1, <2>2 DEF AuditEnds, pullVars
<1>18. CASE AuditDies
  <2>1. mem' \in [Days -> Answer] /\ cursor' = 0 /\ until' = 0 /\ bad' = {}
    BY <1>1, <1>18 DEF AuditDies, AuditOff, NothingKnown
  <2>2. 0 \in 0..LastDay /\ faults' \in 0..MaxFaults
    BY <1>18 DEF AuditDies, Fault
  <2>3. torn' \in {torn, TRUE}
    BY <1>18 DEF AuditDies
  <2> QED
    BY <1>18, <2>1, <2>2, <2>3 DEF AuditDies, pullVars
<1>19. CASE UNCHANGED vars
  BY <1>19 DEF vars, pullVars, calVars, auditVars
<1> QED
  BY <1>2, <1>3, <1>4, <1>5, <1>7, <1>8, <1>9, <1>10, <1>12, <1>13, <1>15, <1>16,
     <1>17, <1>18, <1>19 DEF Next, PullGoesOn, AuditGoesOn

\* Every variable keeps its type.  (flatfile_pull, history_audit)
THEOREM HistoryTypes == Spec => []TypeOK
<1> QED
  BY TypeInit, TypeStep, PTL DEF Spec
-----------------------------------------------------------------------------
(***************************************************************************)
(* The calendar.  Only files of sessions are published, so only sessions   *)
(* have rows; an audit's copy is honest while it runs, because a day with  *)
(* rows is a session and a day it takes for closed on a 404 is none or is  *)
(* excused; and so are the days it fails over.                             *)
(***************************************************************************)
SessionsOnly == /\ published \subseteq Sessions \X Datasets
                /\ \A d \in Days : part[d] # {} => d \in Sessions

AuditHonest == /\ \A d \in Days : Honest(mem, d)
               /\ bad \subseteq Sessions

HistoryInv == SessionsOnly /\ AuditHonest /\ CalendarHonest

LEMMA HistoryInit == Init => HistoryInv
  BY DEF Init, HistoryInv, SessionsOnly, AuditHonest, CalendarHonest, Honest

LEMMA SessionsOnlyStep == TypeOK /\ SessionsOnly /\ [Next]_vars => SessionsOnly'
<1> SUFFICES ASSUME TypeOK, SessionsOnly, [Next]_vars PROVE SessionsOnly'
  OBVIOUS
<1> USE DEF TypeOK, SessionsOnly
<1>1. CASE UNCHANGED <<published, part>>
  BY <1>1
<1>2. CASE Capture
  BY <1>2, HistoryAssumption DEF Capture
<1>3. ASSUME NEW d \in Days, NEW i \in Datasets, Publish(d, i) PROVE SessionsOnly'
  BY <1>3 DEF Publish, pullVars
<1>4. ASSUME NEW d \in Days, NEW i \in Datasets, <<d, i>> \in published,
             part' \in {part, [part EXCEPT ![d] = @ \cup Rows(d, i)]},
             UNCHANGED published
      PROVE  SessionsOnly'
  BY <1>4
<1>5. ASSUME NEW d \in Days, NEW i \in Datasets, PullFails(d, i) \/ Land(d, i)
      PROVE  SessionsOnly'
  <2>1. /\ <<d, i>> \in published /\ UNCHANGED published
        /\ part' \in {part, [part EXCEPT ![d] = @ \cup Rows(d, i)]}
    BY <1>5 DEF PullFails, Land
  <2> QED
    BY <1>4, <2>1
<1>6. CASE Midnight \/ PullDaily \/ (\E d \in Days : PullDate(d))
           \/ (\E d \in Days, i \in Datasets : Missing(d, i))
  BY <1>1, <1>6 DEF Midnight, PullDaily, PullDate, Launch, Missing, pullVars
<1> QED
  BY <1>1, <1>2, <1>3, <1>5, <1>6, ArchiveFrame DEF Next, PullGoesOn, vars, pullVars

LEMMA HistoryStep == TypeOK /\ Bounded /\ HistoryInv /\ [Next]_vars => HistoryInv'
<1> SUFFICES ASSUME TypeOK, Bounded, HistoryInv, [Next]_vars PROVE HistoryInv'
  OBVIOUS
<1>1. SessionsOnly'
  BY SessionsOnlyStep DEF HistoryInv
<1>2. Turn => cursor \in Days
  <2>1. Turn => cursor \in Nat /\ cursor <= LastDay /\ cursor # 0
    BY HistoryAssumption DEF Turn, TypeOK, Bounded
  <2> QED
    BY <2>1, DaysCount
<1> USE DEF TypeOK, HistoryInv, AuditHonest, CalendarHonest, Honest
<1>3. CASE UNCHANGED <<calVars, auditVars>>
  BY <1>1, <1>3 DEF calVars, auditVars
<1>4. ASSUME NEW f, NEW l, AuditBegins(f, l) PROVE HistoryInv'
  BY <1>1, <1>4 DEF AuditBegins, calVars
<1>5. CASE AuditWeekly \/ \E f, l \in Days : AuditRange(f, l)
  BY <1>4, <1>5 DEF AuditWeekly, AuditRange
<1>6. CASE AuditPresent
  <2>1. cursor \in Sessions
    BY <1>2, <1>6 DEF AuditPresent, SessionsOnly
  <2> QED
    BY <1>1, <1>2, <1>6, <2>1 DEF AuditPresent, Step, calVars
<1>7. CASE AuditKnown
  <2>1. mem[cursor] = "session" => cursor \in Sessions
    BY <1>2, <1>7 DEF AuditKnown
  <2> QED
    BY <1>1, <1>7, <2>1 DEF AuditKnown, Step, calVars
<1>8. CASE AuditProbe
  <2>1. <<cursor, Oracle>> \in published => cursor \in Sessions
    BY DEF SessionsOnly
  <2>2. <<cursor, Oracle>> \notin published => cursor \notin Sessions \/ cursor \in excused'
    BY <1>8 DEF AuditProbe
  <2>3. excused \subseteq excused'
    BY <1>8 DEF AuditProbe
  <2>4. /\ mem' = [mem EXCEPT ![cursor] = IF <<cursor, Oracle>> \in published
                                           THEN "session" ELSE "closed"]
        /\ bad' = IF <<cursor, Oracle>> \in published THEN bad \cup {cursor} ELSE bad
        /\ UNCHANGED <<cal, red>>
    BY <1>8 DEF AuditProbe, Step, calVars
  <2> QED
    BY <1>1, <2>1, <2>2, <2>3, <2>4
<1>9. CASE AuditUnanswered
  BY <1>1, <1>9 DEF AuditUnanswered, Step, calVars
<1>10. CASE AuditEnds
  BY <1>1, <1>10 DEF AuditEnds, AuditOff
<1>11. CASE AuditDies
  BY <1>1, <1>11 DEF AuditDies, AuditOff
<1>12. CASE UNCHANGED vars
  BY <1>3, <1>12 DEF vars
<1> QED
  BY <1>3, <1>5, <1>6, <1>7, <1>8, <1>9, <1>10, <1>11, <1>12, AuditFrame
     DEF Next, AuditGoesOn

\* The accumulated calendar holds no day for a session that was none, and none
\* for a holiday that was a session unless its probe came before the vendor
\* published it; and no audit fails over a day the market was closed.
\* (audit_range's override by rows on disk, its probe, save_calendar)
THEOREM CalendarIsHonest == Spec => []CalendarHonest
<1>1. Init => TypeOK /\ Bounded /\ HistoryInv
  BY TypeInit, HistoryInit
<1>2. (TypeOK /\ Bounded /\ HistoryInv) /\ [Next]_vars => (TypeOK /\ Bounded /\ HistoryInv)'
  BY TypeStep, HistoryStep
<1>3. HistoryInv => CalendarHonest
  BY DEF HistoryInv
<1> QED
  BY <1>1, <1>2, <1>3, PTL DEF Spec
=============================================================================
