------------------------- MODULE DerivedChainProofs -------------------------
(***************************************************************************)
(* The partitions of DerivedChain, for any number of sessions, strikes,    *)
(* windows, archive passes and deaths: what the files and the processes    *)
(* are, that a readable session stays readable, that a run which met no    *)
(* other writer leaves its own file and nothing else, that no forecast     *)
(* rests on a return its calendar does not vouch for, and that a pass fits *)
(* what the daily job fits.                                                *)
(***************************************************************************)
EXTENDS DerivedChain, FiniteSetTheorems, TLAPS

(***************************************************************************)
(* What part, proc and pass are made of.                                   *)
(***************************************************************************)

IsFile(f) == /\ f = [id |-> f.id, whole |-> f.whole, rows |-> f.rows]
             /\ f.id \in Nat /\ f.whole \in BOOLEAN

Shaped(t) == t = [s \in Stages |-> [e \in Sessions |-> t[s][e]]]

IsProc(w) ==
    /\ w = [at |-> w.at, st |-> w.st, d |-> w.d, rows |-> w.rows,
            prior |-> w.prior, id |-> w.id, alone |-> w.alone]
    /\ w.at \in {"off", "ready", "snapped", "writing", "retiring"}
    /\ w.st \in Stages /\ w.d \in Sessions
    /\ w.id \in Nat /\ w.alone \in BOOLEAN

PartTyped == /\ Shaped(part)
             /\ \A s \in Stages, e \in Sessions : \A f \in part[s][e] :
                    IsFile(f) /\ f.id \in 1..stamp[s][e]
ProcTyped == /\ proc = [p \in Procs |-> proc[p]]
             /\ \A p \in Procs :
                    /\ IsProc(proc[p])
                    /\ proc[p].prior \subseteq 1..stamp[proc[p].st][proc[p].d]
Calendar == [known : BOOLEAN, excused : SUBSET Sessions, unattested : SUBSET Sessions]

PassTyped == /\ pass = [st |-> pass.st, force |-> pass.force, todo |-> pass.todo,
                        fits |-> pass.fits, under |-> pass.under]
             /\ pass.st \in Stages /\ pass.todo \subseteq Sessions
             /\ pass.under \in Calendar

\* What TypeOK says of the rest.
RestTyped == /\ yesterday \in Sessions
             /\ chain \in [Sessions -> Chains \cup {{}}]
             /\ close \in [Sessions -> BOOLEAN]
             /\ stamp \in [Stages -> [Sessions -> Nat \ {0}]]
             /\ due \in [Stages -> -1..Burst]
             /\ passes \in 0..MaxPasses /\ deaths \in 0..MaxDeaths

Typed == PartTyped /\ ProcTyped /\ PassTyped /\ RestTyped

LEMMA CalendarIs ==
    /\ Calendars \subseteq Calendar /\ NoCalendar \in Calendar
    /\ \A cal \in Calendar :
        /\ Answered(cal) \in Calendar
        /\ Answered(cal).known = cal.known /\ Answered(cal).excused = cal.excused
  BY DerivedAssumption DEF Calendar, NoCalendar, Answered

LEMMA TypedTypeOK == Typed => TypeOK
  BY DEF Typed, TypeOK, PartTyped, ProcTyped, RestTyped, IsFile, IsProc

Put(t, st, d, new) == [t EXCEPT ![st][d] = new]

\* Writing one partition leaves the others as they were.
LEMMA Update ==
    ASSUME NEW t, Shaped(t), NEW st \in Stages, NEW d \in Sessions, NEW new
    PROVE  /\ Shaped(Put(t, st, d, new)) /\ Put(t, st, d, new)[st][d] = new
           /\ \A s \in Stages, e \in Sessions :
                 ~(s = st /\ e = d) => Put(t, st, d, new)[s][e] = t[s][e]
<1>0. PICK u : u = Put(t, st, d, new)
  OBVIOUS
<1>1. \A s \in Stages : t[s] = [e \in Sessions |-> t[s][e]]
  BY DEF Shaped
<1>2. u = [s \in Stages |-> IF s = st THEN [t[st] EXCEPT ![d] = new] ELSE t[s]]
  BY <1>0 DEF Shaped, Put
<1>3. [t[st] EXCEPT ![d] = new] = [e \in Sessions |-> IF e = d THEN new ELSE t[st][e]]
  BY <1>1
<1>4. \A s \in Stages : u[s] = IF s = st
          THEN [e \in Sessions |-> IF e = d THEN new ELSE t[st][e]] ELSE t[s]
  BY <1>2, <1>3
<1>5. \A s \in Stages, e \in Sessions :
          u[s][e] = IF s = st /\ e = d THEN new ELSE t[s][e]
  <2> TAKE s \in Stages, e \in Sessions
  <2>1. CASE s = st
    <3>1. u[s] = [x \in Sessions |-> IF x = d THEN new ELSE t[s][x]]
      BY <2>1, <1>4
    <3> QED
      BY <3>1, <2>1
  <2>2. CASE s # st
    BY <2>2, <1>4
  <2> QED
    BY <2>1, <2>2
<1>6. \A s \in Stages : u[s] = [e \in Sessions |-> u[s][e]]
  BY <1>1, <1>4
<1>7. u = [s \in Stages |-> u[s]]
  BY <1>2
<1> QED
  BY <1>0, <1>5, <1>6, <1>7 DEF Shaped

LEMMA FirstSession == 1 \in Sessions
  BY DerivedAssumption DEF Sessions

LEMMA OffTyped == IsProc(Off) /\ Off.prior = {} /\ Off.at = "off" /\ Off.alone = FALSE
  BY FirstSession DEF IsProc, Off, Stages

LEMMA ReadyTyped ==
    ASSUME NEW st \in Stages, NEW d \in Sessions, NEW rows
    PROVE  /\ IsProc(Ready(st, d, rows)) /\ Ready(st, d, rows).prior = {}
           /\ Ready(st, d, rows).at = "ready" /\ Ready(st, d, rows).alone = FALSE
<1>1. PICK w : w = [Off EXCEPT !.at = "ready", !.st = st, !.d = d, !.rows = rows]
  OBVIOUS
<1>2. w = [at |-> "ready", st |-> st, d |-> d, rows |-> rows,
           prior |-> {}, id |-> 0, alone |-> FALSE]
  BY <1>1 DEF Off
<1>3. w = Ready(st, d, rows)
  BY <1>1 DEF Ready
<1>4. /\ w.at = "ready" /\ w.st = st /\ w.d = d /\ w.rows = rows /\ w.prior = {}
      /\ w.id = 0 /\ w.alone = FALSE
  BY <1>2
<1>5. IsProc(w)
  BY <1>2, <1>4 DEF IsProc
<1> QED
  BY <1>3, <1>4, <1>5

LEMMA TypedInit == Init => Typed
<1> SUFFICES ASSUME Init PROVE Typed
  OBVIOUS
<1>1. PICK old \in Chains :
        /\ chain = [d \in Sessions |-> IF d < FirstDaily THEN old ELSE {}]
        /\ part = [st \in Stages |-> [d \in Sessions |->
            IF d < FirstDaily THEN Landed(st, old) ELSE {}]]
  BY DEF Init
<1>2. \A st \in Stages : \A f \in Landed(st, old) : IsFile(f) /\ f.id = 1
  <2> TAKE st \in Stages
  <2> TAKE f \in Landed(st, old)
  <2>1. PICK rows : f = File(1, rows)
    BY DEF Landed
  <2> QED
    BY <2>1 DEF File, IsFile
<1>3. PartTyped
  <2>1. Shaped(part)
    BY <1>1 DEF Shaped
  <2>2. stamp = [st \in Stages |-> [d \in Sessions |-> 1]]
    BY DEF Init
  <2> QED
    BY <1>1, <1>2, <2>1, <2>2 DEF PartTyped
<1>4. ProcTyped
  BY OffTyped DEF Init, ProcTyped
<1>5. PassTyped
  BY CalendarIs DEF Init, PassTyped, NoPass, Stages
<1>6. RestTyped
  BY <1>1, DerivedAssumption DEF Init, RestTyped, Sessions
<1> QED
  BY <1>3, <1>4, <1>5, <1>6 DEF Typed

(***************************************************************************)
(* What each step of a writer does to its partition and to the processes.  *)
(***************************************************************************)

LEMMA SetProc ==
    ASSUME ProcTyped, NEW p \in Procs, NEW w, proc' = [proc EXCEPT ![p] = w]
    PROVE  /\ proc' = [q \in Procs |-> proc'[q]] /\ proc'[p] = w
           /\ \A q \in Procs \ {p} : proc'[q] = proc[q]
  BY DEF ProcTyped

LEMMA Snapped ==
    ASSUME NEW w, IsProc(w), NEW ids, NEW lone, NEW v,
           v = [w EXCEPT !.at = "snapped", !.prior = ids, !.alone = lone]
    PROVE  v = [at |-> "snapped", st |-> w.st, d |-> w.d, rows |-> w.rows,
                prior |-> ids, id |-> w.id, alone |-> lone]
  BY DEF IsProc

LEMMA SnapshotEffect ==
    ASSUME Typed, NEW p \in Procs, Snapshot(p)
    PROVE  LET w == proc[p]
               v == proc'[p]
           IN  /\ part' = part /\ stamp' = stamp /\ w.at = "ready"
               /\ proc' = [q \in Procs |-> proc'[q]]
               /\ IsProc(v) /\ v.at = "snapped" /\ v.st = w.st /\ v.d = w.d
               /\ v.rows = w.rows
               /\ v.prior = {f.id : f \in part[w.st][w.d]}
               /\ v.alone = (\A r \in Procs \ {p} : ~Busy(r, w.st, w.d))
               /\ \A q \in Procs \ {p} :
                    /\ IsProc(proc'[q]) /\ proc'[q].at = proc[q].at
                    /\ proc'[q].st = proc[q].st /\ proc'[q].d = proc[q].d
                    /\ proc'[q].rows = proc[q].rows /\ proc'[q].id = proc[q].id
                    /\ proc'[q].prior = proc[q].prior
                    /\ proc'[q].alone = (proc[q].alone /\ ~Busy(q, w.st, w.d))
<1> DEFINE w == proc[p]
           lone == \A r \in Procs \ {p} : ~Busy(r, w.st, w.d)
           ids == {f.id : f \in part[w.st][w.d]}
<1>1. /\ proc[p].at = "ready" /\ UNCHANGED <<part, stamp>>
      /\ proc' = [q \in Procs |->
            IF q = p THEN [w EXCEPT !.at = "snapped", !.prior = ids, !.alone = lone]
            ELSE [proc[q] EXCEPT !.alone = @ /\ ~Busy(q, w.st, w.d)]]
  BY DEF Snapshot, inputs, archive
<1>2. \A q \in Procs : IsProc(proc[q])
  BY DEF Typed, ProcTyped
<1>3. PICK v : v = [w EXCEPT !.at = "snapped", !.prior = ids, !.alone = lone]
  OBVIOUS
<1>4. /\ v = [at |-> "snapped", st |-> w.st, d |-> w.d, rows |-> w.rows,
              prior |-> ids, id |-> w.id, alone |-> lone]
  BY <1>2, <1>3, Snapped
<1>5. /\ v.at = "snapped" /\ v.st = w.st /\ v.d = w.d /\ v.rows = w.rows
      /\ v.prior = ids /\ v.id = w.id /\ v.alone = lone
  BY <1>4
<1>6. w.st \in Stages /\ w.d \in Sessions /\ w.id \in Nat /\ lone \in BOOLEAN
  BY <1>2 DEF IsProc
<1>7. IsProc(v)
  BY <1>4, <1>5, <1>6 DEF IsProc
<1>8. ASSUME NEW q \in Procs \ {p}
      PROVE  /\ IsProc(proc'[q]) /\ proc'[q].at = proc[q].at
             /\ proc'[q].st = proc[q].st /\ proc'[q].d = proc[q].d
             /\ proc'[q].rows = proc[q].rows /\ proc'[q].id = proc[q].id
             /\ proc'[q].prior = proc[q].prior
             /\ proc'[q].alone = (proc[q].alone /\ ~Busy(q, w.st, w.d))
  <2> DEFINE x == proc[q]
             one == x.alone /\ ~Busy(q, w.st, w.d)
  <2>1. PICK y : y = [x EXCEPT !.alone = one]
    OBVIOUS
  <2>2. proc'[q] = y
    BY <1>1, <2>1
  <2>3. IsProc(x)
    BY <1>2
  <2>4. y = [at |-> x.at, st |-> x.st, d |-> x.d, rows |-> x.rows,
             prior |-> x.prior, id |-> x.id, alone |-> one]
    BY <2>1, <2>3 DEF IsProc
  <2>5. /\ y.at = x.at /\ y.st = x.st /\ y.d = x.d /\ y.rows = x.rows
        /\ y.prior = x.prior /\ y.id = x.id /\ y.alone = one
    BY <2>4
  <2>6. IsProc(y)
    BY <2>3, <2>4, <2>5 DEF IsProc
  <2> QED
    BY <2>2, <2>5, <2>6
<1>9. proc'[p] = v
  BY <1>1, <1>3
<1>10. proc' = [q \in Procs |-> proc'[q]]
  BY <1>1
<1> QED
  BY <1>1, <1>5, <1>7, <1>8, <1>9, <1>10

LEMMA OpenEffect ==
    ASSUME Typed, NEW p \in Procs, Open(p)
    PROVE  LET w == proc[p]
               v == proc'[p]
               f == [id |-> v.id, whole |-> FALSE, rows |-> w.rows]
           IN  /\ w.at = "snapped" /\ v.id = stamp[w.st][w.d] + 1
               /\ part' = [part EXCEPT ![w.st][w.d] = @ \cup {f}]
               /\ stamp' = [stamp EXCEPT ![w.st][w.d] = v.id]
               /\ proc' = [q \in Procs |-> proc'[q]]
               /\ IsProc(v) /\ v.at = "writing" /\ v.st = w.st /\ v.d = w.d
               /\ v.prior = w.prior /\ v.rows = w.rows /\ v.alone = w.alone
               /\ \A q \in Procs \ {p} : proc'[q] = proc[q]
<1> DEFINE w == proc[p]
           id == stamp[w.st][w.d] + 1
<1>1. IsProc(w) /\ ProcTyped
  BY DEF Typed, ProcTyped
<1>2. PICK v : v = [w EXCEPT !.at = "writing", !.id = id]
  OBVIOUS
<1>3. proc' = [proc EXCEPT ![p] = v]
  BY <1>1, <1>2 DEF Open, ProcTyped
<1>4. /\ proc' = [q \in Procs |-> proc'[q]] /\ proc'[p] = v
      /\ \A q \in Procs \ {p} : proc'[q] = proc[q]
  BY <1>1, <1>3, SetProc
<1>5. v = [at |-> "writing", st |-> w.st, d |-> w.d, rows |-> w.rows,
           prior |-> w.prior, id |-> id, alone |-> w.alone]
  BY <1>1, <1>2 DEF IsProc
<1>6. /\ v.at = "writing" /\ v.st = w.st /\ v.d = w.d /\ v.rows = w.rows
      /\ v.prior = w.prior /\ v.id = id /\ v.alone = w.alone
  BY <1>5
<1>7. id \in Nat
  BY <1>1 DEF Typed, RestTyped, IsProc
<1>8. IsProc(v)
  BY <1>1, <1>5, <1>6, <1>7 DEF IsProc
<1>9. /\ w.at = "snapped"
      /\ part' = [part EXCEPT ![w.st][w.d] =
            @ \cup {[id |-> id, whole |-> FALSE, rows |-> w.rows]}]
      /\ stamp' = [stamp EXCEPT ![w.st][w.d] = id]
  BY DEF Open
<1> QED
  BY <1>4, <1>6, <1>8, <1>9

LEMMA FinishEffect ==
    ASSUME Typed, NEW p \in Procs, Finish(p)
    PROVE  LET w == proc[p]
               v == proc'[p]
           IN  /\ w.at = "writing" /\ stamp' = stamp
               /\ part' = [part EXCEPT ![w.st][w.d] =
                    {IF f.id = w.id THEN [f EXCEPT !.whole = TRUE] ELSE f : f \in @}]
               /\ proc' = [q \in Procs |-> proc'[q]]
               /\ IsProc(v) /\ v.at = "retiring" /\ v.st = w.st /\ v.d = w.d
               /\ v.prior = w.prior /\ v.rows = w.rows /\ v.alone = w.alone
               /\ v.id = w.id
               /\ \A q \in Procs \ {p} : proc'[q] = proc[q]
<1> DEFINE w == proc[p]
<1>1. IsProc(w) /\ ProcTyped
  BY DEF Typed, ProcTyped
<1>2. PICK v : v = [w EXCEPT !.at = "retiring"]
  OBVIOUS
<1>3. proc' = [proc EXCEPT ![p] = v]
  BY <1>1, <1>2 DEF Finish, ProcTyped
<1>4. /\ proc' = [q \in Procs |-> proc'[q]] /\ proc'[p] = v
      /\ \A q \in Procs \ {p} : proc'[q] = proc[q]
  BY <1>1, <1>3, SetProc
<1>5. v = [at |-> "retiring", st |-> w.st, d |-> w.d, rows |-> w.rows,
           prior |-> w.prior, id |-> w.id, alone |-> w.alone]
  BY <1>1, <1>2 DEF IsProc
<1>6. /\ v.at = "retiring" /\ v.st = w.st /\ v.d = w.d /\ v.rows = w.rows
      /\ v.prior = w.prior /\ v.id = w.id /\ v.alone = w.alone
  BY <1>5
<1>8. IsProc(v)
  BY <1>1, <1>5, <1>6 DEF IsProc
<1>9. /\ w.at = "writing" /\ stamp' = stamp
      /\ part' = [part EXCEPT ![w.st][w.d] =
            {IF f.id = w.id THEN [f EXCEPT !.whole = TRUE] ELSE f : f \in @}]
  BY DEF Finish
<1> QED
  BY <1>4, <1>6, <1>8, <1>9

LEMMA RetireEffect ==
    ASSUME Typed, NEW p \in Procs, Retire(p)
    PROVE  LET w == proc[p]
               v == proc'[p]
           IN  /\ w.at = "retiring" /\ stamp' = stamp
               /\ \E id \in w.prior :
                    /\ part' = [part EXCEPT ![w.st][w.d] = {f \in @ : f.id # id}]
                    /\ v.prior = w.prior \ {id}
               /\ proc' = [q \in Procs |-> proc'[q]]
               /\ IsProc(v) /\ v.at = "retiring" /\ v.st = w.st /\ v.d = w.d
               /\ v.rows = w.rows /\ v.alone = w.alone /\ v.id = w.id
               /\ \A q \in Procs \ {p} : proc'[q] = proc[q]
<1> DEFINE w == proc[p]
<1>1. IsProc(w) /\ ProcTyped
  BY DEF Typed, ProcTyped
<1>2. PICK id \in w.prior :
        /\ part' = [part EXCEPT ![w.st][w.d] = {f \in @ : f.id # id}]
        /\ proc' = [proc EXCEPT ![p].prior = @ \ {id}]
  BY DEF Retire
<1>3. PICK v : v = [w EXCEPT !.prior = w.prior \ {id}]
  OBVIOUS
<1>4. proc' = [proc EXCEPT ![p] = v]
  BY <1>1, <1>2, <1>3 DEF ProcTyped
<1>5. /\ proc' = [q \in Procs |-> proc'[q]] /\ proc'[p] = v
      /\ \A q \in Procs \ {p} : proc'[q] = proc[q]
  BY <1>1, <1>4, SetProc
<1>6. v = [at |-> w.at, st |-> w.st, d |-> w.d, rows |-> w.rows,
           prior |-> w.prior \ {id}, id |-> w.id, alone |-> w.alone]
  BY <1>1, <1>3 DEF IsProc
<1>7. /\ v.at = w.at /\ v.st = w.st /\ v.d = w.d /\ v.rows = w.rows
      /\ v.prior = w.prior \ {id} /\ v.id = w.id /\ v.alone = w.alone
  BY <1>6
<1>8. IsProc(v)
  BY <1>1, <1>6, <1>7 DEF IsProc
<1>9. w.at = "retiring" /\ stamp' = stamp
  BY DEF Retire
<1> QED
  BY <1>2, <1>5, <1>7, <1>8, <1>9

(***************************************************************************)
(* Typing is kept.                                                         *)
(***************************************************************************)

LEMMA ProcSet ==
    ASSUME Typed, stamp' = stamp, NEW p \in Procs, NEW w, IsProc(w),
           w.prior \subseteq 1..stamp[w.st][w.d], proc' = [proc EXCEPT ![p] = w]
    PROVE  ProcTyped'
<1>1. /\ proc' = [q \in Procs |-> proc'[q]] /\ proc'[p] = w
      /\ \A q \in Procs \ {p} : proc'[q] = proc[q]
  BY SetProc DEF Typed
<1>2. \A q \in Procs : /\ IsProc(proc'[q])
                       /\ proc'[q].prior \subseteq 1..stamp'[proc'[q].st][proc'[q].d]
  BY <1>1 DEF Typed, ProcTyped
<1> QED
  BY <1>1, <1>2 DEF ProcTyped, IsProc

LEMMA SnapshotTyped == ASSUME Typed, NEW p \in Procs, Snapshot(p) PROVE Typed'
<1> DEFINE w == proc[p]
<1>1. IsProc(w)
  BY DEF Typed, ProcTyped
<1>2. PartTyped' /\ PassTyped' /\ RestTyped'
  <2>1. /\ part' = part /\ stamp' = stamp /\ pass' = pass /\ yesterday' = yesterday
        /\ chain' = chain /\ close' = close /\ due' = due /\ passes' = passes
        /\ deaths' = deaths
    BY DEF Snapshot, inputs, archive
  <2> QED
    BY <2>1 DEF Typed, PartTyped, PassTyped, RestTyped, IsFile, Shaped
<1>3. {f.id : f \in part[w.st][w.d]} \subseteq 1..stamp[w.st][w.d]
  BY <1>1 DEF Typed, PartTyped, IsProc
<1>4. \A q \in Procs : /\ IsProc(proc'[q])
                       /\ proc'[q].prior \subseteq 1..stamp'[proc'[q].st][proc'[q].d]
  <2> TAKE q \in Procs
  <2>1. stamp' = stamp /\ ProcTyped
    BY SnapshotEffect DEF Typed
  <2>2. CASE q = p
    BY <1>3, <2>1, <2>2, SnapshotEffect
  <2>3. CASE q # p
    <3>1. q \in Procs \ {p}
      BY <2>3
    <3>2. /\ IsProc(proc'[q]) /\ proc'[q].prior = proc[q].prior
          /\ proc'[q].st = proc[q].st /\ proc'[q].d = proc[q].d
      BY <3>1, SnapshotEffect, ZenonT(40)
    <3> QED
      BY <2>1, <3>2 DEF ProcTyped
  <2> QED
    BY <2>2, <2>3
<1>5. proc' = [q \in Procs |-> proc'[q]]
  BY SnapshotEffect
<1> QED
  BY <1>2, <1>4, <1>5 DEF Typed, ProcTyped, IsProc

LEMMA OpenFiles ==
    ASSUME Typed, NEW p \in Procs, Open(p)
    PROVE  LET w == proc[p]
               f == [id |-> proc'[p].id, whole |-> FALSE, rows |-> w.rows]
           IN  /\ Shaped(part')
               /\ \A s \in Stages, e \in Sessions :
                    part'[s][e] = IF s = w.st /\ e = w.d THEN part[s][e] \cup {f}
                                  ELSE part[s][e]
<1> DEFINE w == proc[p]
           f == [id |-> proc'[p].id, whole |-> FALSE, rows |-> w.rows]
<1>1. w.st \in Stages /\ w.d \in Sessions /\ Shaped(part)
  BY DEF Typed, ProcTyped, PartTyped, IsProc
<1>2. PICK new : new = part[w.st][w.d] \cup {f}
  OBVIOUS
<1>3. part' = Put(part, w.st, w.d, new)
  BY <1>2, OpenEffect, <1>1 DEF Shaped, Put
<1>4. /\ Shaped(part') /\ part'[w.st][w.d] = new
      /\ \A s \in Stages, e \in Sessions :
            ~(s = w.st /\ e = w.d) => part'[s][e] = part[s][e]
  BY <1>1, <1>3, Update
<1> QED
  BY <1>2, <1>4

LEMMA OpenTyped == ASSUME Typed, NEW p \in Procs, Open(p) PROVE Typed'
<1> DEFINE w == proc[p]
           st == w.st
           d  == w.d
           id == stamp[st][d] + 1
<1>1. IsProc(w) /\ st \in Stages /\ d \in Sessions
  BY DEF Typed, ProcTyped, IsProc
<1>2. /\ stamp' \in [Stages -> [Sessions -> Nat \ {0}]]
      /\ stamp'[st][d] = id
      /\ \A s \in Stages, e \in Sessions : 1..stamp[s][e] \subseteq 1..stamp'[s][e]
  <2>1. stamp \in [Stages -> [Sessions -> Nat \ {0}]]
    BY DEF Typed, RestTyped
  <2>2. stamp' = [stamp EXCEPT ![st][d] = id]
    BY OpenEffect
  <2>3. id \in Nat \ {0} /\ id >= stamp[st][d]
    BY <1>1, <2>1
  <2>4. stamp' \in [Stages -> [Sessions -> Nat \ {0}]]
    BY <1>1, <2>1, <2>2, <2>3
  <2>5. \A s \in Stages, e \in Sessions :
          stamp'[s][e] = IF s = st /\ e = d THEN id ELSE stamp[s][e]
    BY <1>1, <2>1, <2>2
  <2>6. \A s \in Stages, e \in Sessions : stamp[s][e] \in Nat
    BY <2>1
  <2> QED
    BY <1>1, <2>3, <2>4, <2>5, <2>6
<1>3. PassTyped' /\ RestTyped'
  BY <1>2 DEF Typed, Open, PassTyped, RestTyped, inputs, archive
<1>4. PartTyped'
  <2> DEFINE f == [id |-> id, whole |-> FALSE, rows |-> w.rows]
  <2>1. IsFile(f) /\ f.id = id /\ id \in 1..stamp'[st][d]
    BY <1>1, <1>2 DEF IsFile, Typed, RestTyped
  <2>3. /\ Shaped(part') /\ part'[st][d] = part[st][d] \cup {f}
        /\ \A s \in Stages, e \in Sessions :
              ~(s = st /\ e = d) => part'[s][e] = part[s][e]
    <3>1. proc'[p].id = id
      BY OpenEffect
    <3>2. PICK g : g = [id |-> proc'[p].id, whole |-> FALSE, rows |-> w.rows]
      OBVIOUS
    <3>3. /\ Shaped(part')
          /\ \A s \in Stages, e \in Sessions :
               part'[s][e] = IF s = st /\ e = d THEN part[s][e] \cup {g} ELSE part[s][e]
      BY <3>2, OpenFiles
    <3>4. g = f
      BY <3>1, <3>2
    <3> QED
      BY <1>1, <3>3, <3>4
  <2>4. ASSUME NEW s \in Stages, NEW e \in Sessions, NEW g \in part'[s][e]
        PROVE  IsFile(g) /\ g.id \in 1..stamp'[s][e]
    <3>1. g \in part[s][e] \/ (g = f /\ s = st /\ e = d)
      BY <2>3, <2>4
    <3>2. CASE g \in part[s][e]
      BY <3>2, <1>2 DEF Typed, PartTyped
    <3>3. CASE g = f /\ s = st /\ e = d
      BY <3>3, <2>1
    <3> QED
      BY <3>1, <3>2, <3>3
  <2> QED
    BY <2>3, <2>4 DEF PartTyped, IsFile, Shaped
<1>5. ProcTyped'
  <2>1. \A q \in Procs : IsProc(proc'[q])
    BY OpenEffect DEF Typed, ProcTyped
  <2>2. ASSUME NEW q \in Procs
        PROVE  proc'[q].prior \subseteq 1..stamp'[proc'[q].st][proc'[q].d]
    <3>1. /\ proc[q].prior \subseteq 1..stamp[proc[q].st][proc[q].d]
          /\ proc[q].st \in Stages /\ proc[q].d \in Sessions
      BY DEF Typed, ProcTyped, IsProc
    <3>2. /\ proc'[q].prior = proc[q].prior
          /\ proc'[q].st = proc[q].st /\ proc'[q].d = proc[q].d
      BY OpenEffect
    <3> QED
      BY <3>1, <3>2, <1>2
  <2>3. proc' = [q \in Procs |-> proc'[q]]
    BY OpenEffect
  <2> QED
    BY <2>1, <2>2, <2>3 DEF ProcTyped, IsProc
<1> QED
  BY <1>3, <1>4, <1>5 DEF Typed

LEMMA FinishFiles ==
    ASSUME Typed, NEW p \in Procs, Finish(p), NEW s \in Stages, NEW e \in Sessions
    PROVE  /\ Shaped(part')
           /\ ~(s = proc[p].st /\ e = proc[p].d) => part'[s][e] = part[s][e]
           /\ \A f \in part[s][e] : \E g \in part'[s][e] :
                /\ g.id = f.id /\ g.rows = f.rows
                /\ f.whole => g.whole
                /\ (s = proc[p].st /\ e = proc[p].d /\ f.id = proc[p].id) => g.whole
           /\ \A g \in part'[s][e] : \E f \in part[s][e] :
                /\ IsFile(g) /\ g.id = f.id /\ g.rows = f.rows
                /\ (s = proc[p].st /\ e = proc[p].d /\ f.id = proc[p].id) => g.whole
<1> DEFINE w  == proc[p]
           Done(f) == IF f.id = w.id THEN [f EXCEPT !.whole = TRUE] ELSE f
<1>1. w.st \in Stages /\ w.d \in Sessions /\ Shaped(part)
  BY DEF Typed, ProcTyped, PartTyped, IsProc
<1>2. /\ Shaped(part') /\ part'[w.st][w.d] = {Done(f) : f \in part[w.st][w.d]}
      /\ \A x \in Stages, y \in Sessions :
            ~(x = w.st /\ y = w.d) => part'[x][y] = part[x][y]
  <2>1. PICK new : new = {Done(f) : f \in part[w.st][w.d]}
    OBVIOUS
  <2>2. part' = Put(part, w.st, w.d, new)
    BY <2>1, FinishEffect, <1>1 DEF Shaped, Put
  <2>3. /\ Shaped(part') /\ part'[w.st][w.d] = new
        /\ \A x \in Stages, y \in Sessions :
              ~(x = w.st /\ y = w.d) => part'[x][y] = part[x][y]
    BY <1>1, <2>2, Update
  <2> QED
    BY <2>1, <2>3
<1>3. \A f \in part[s][e] : IsFile(f)
  BY DEF Typed, PartTyped
<1>4. ASSUME NEW f, IsFile(f)
      PROVE  /\ IsFile(Done(f)) /\ Done(f).id = f.id /\ Done(f).rows = f.rows
             /\ f.whole => Done(f).whole
             /\ f.id = w.id => Done(f).whole
  <2>1. CASE f.id = w.id
    <3>1. PICK g : g = [f EXCEPT !.whole = TRUE]
      OBVIOUS
    <3>2. g = [id |-> f.id, whole |-> TRUE, rows |-> f.rows]
      BY <3>1, <1>4 DEF IsFile
    <3>3. g.id = f.id /\ g.whole = TRUE /\ g.rows = f.rows
      BY <3>2
    <3>4. IsFile(g)
      BY <3>2, <3>3, <1>4 DEF IsFile
    <3> QED
      BY <2>1, <3>1, <3>3, <3>4
  <2>2. CASE f.id # w.id
    BY <2>2, <1>4
  <2> QED
    BY <2>1, <2>2
<1> HIDE DEF Done
<1>5. CASE s = w.st /\ e = w.d
  <2>1. part'[s][e] = {Done(f) : f \in part[s][e]}
    BY <1>2, <1>5
  <2> QED
    BY <2>1, <1>2, <1>3, <1>4, <1>5
<1>6. CASE ~(s = w.st /\ e = w.d)
  BY <1>2, <1>3, <1>6
<1> QED
  BY <1>5, <1>6

LEMMA FinishTyped == ASSUME Typed, NEW p \in Procs, Finish(p) PROVE Typed'
<1>1. PassTyped' /\ RestTyped'
  BY DEF Typed, Finish, PassTyped, RestTyped, inputs, archive
<1>2. PartTyped'
  <2>1. Shaped(part')
    BY FinishFiles, FirstSession DEF Stages
  <2>2. ASSUME NEW s \in Stages, NEW e \in Sessions, NEW g \in part'[s][e]
        PROVE  IsFile(g) /\ g.id \in 1..stamp'[s][e]
    <3>1. PICK f \in part[s][e] : IsFile(g) /\ g.id = f.id
      BY FinishFiles
    <3>2. stamp' = stamp
      BY FinishEffect
    <3> QED
      BY <3>1, <3>2 DEF Typed, PartTyped
  <2> QED
    BY <2>1, <2>2 DEF PartTyped, IsFile, Shaped
<1>3. ProcTyped'
  <2>1. \A q \in Procs : /\ IsProc(proc'[q])
                         /\ proc'[q].prior \subseteq 1..stamp'[proc'[q].st][proc'[q].d]
    BY FinishEffect DEF Typed, ProcTyped
  <2>2. proc' = [q \in Procs |-> proc'[q]]
    BY FinishEffect
  <2> QED
    BY <2>1, <2>2 DEF ProcTyped, IsProc
<1> QED
  BY <1>1, <1>2, <1>3 DEF Typed

LEMMA RetireFiles ==
    ASSUME Typed, NEW p \in Procs, Retire(p)
    PROVE  \E id \in proc[p].prior :
             /\ proc'[p].prior = proc[p].prior \ {id}
             /\ Shaped(part')
             /\ \A s \in Stages, e \in Sessions :
                  part'[s][e] = IF s = proc[p].st /\ e = proc[p].d
                                THEN {f \in part[s][e] : f.id # id} ELSE part[s][e]
<1> DEFINE w  == proc[p]
<1>1. w.st \in Stages /\ w.d \in Sessions /\ Shaped(part)
  BY DEF Typed, ProcTyped, PartTyped, IsProc
<1>2. PICK id \in w.prior :
        /\ part' = [part EXCEPT ![w.st][w.d] = {f \in @ : f.id # id}]
        /\ proc'[p].prior = w.prior \ {id}
  BY RetireEffect
<1>3. PICK new : new = {f \in part[w.st][w.d] : f.id # id}
  OBVIOUS
<1>4. part' = Put(part, w.st, w.d, new)
  BY <1>1, <1>2, <1>3 DEF Shaped, Put
<1>5. /\ Shaped(part') /\ part'[w.st][w.d] = new
      /\ \A x \in Stages, y \in Sessions :
            ~(x = w.st /\ y = w.d) => part'[x][y] = part[x][y]
  BY <1>1, <1>4, Update
<1>6. ASSUME NEW s \in Stages, NEW e \in Sessions
      PROVE  part'[s][e] = IF s = w.st /\ e = w.d
                           THEN {f \in part[s][e] : f.id # id} ELSE part[s][e]
  BY <1>3, <1>5
<1> QED
  BY <1>2, <1>5, <1>6

LEMMA RetireTyped == ASSUME Typed, NEW p \in Procs, Retire(p) PROVE Typed'
<1>1. PassTyped' /\ RestTyped'
  BY DEF Typed, Retire, PassTyped, RestTyped, inputs, archive
<1>2. PartTyped'
  <2>1. stamp' = stamp
    BY RetireEffect
  <2>2. /\ Shaped(part')
        /\ \A s \in Stages, e \in Sessions : part'[s][e] \subseteq part[s][e]
    BY RetireFiles, ZenonT(40)
  <2> QED
    BY <2>1, <2>2 DEF Typed, PartTyped, IsFile, Shaped
<1>3. ProcTyped'
  <2>1. \A q \in Procs : /\ IsProc(proc'[q])
                         /\ proc'[q].prior \subseteq 1..stamp'[proc'[q].st][proc'[q].d]
    BY RetireEffect DEF Typed, ProcTyped
  <2>2. proc' = [q \in Procs |-> proc'[q]]
    BY RetireEffect
  <2> QED
    BY <2>1, <2>2 DEF ProcTyped, IsProc
<1> QED
  BY <1>1, <1>2, <1>3 DEF Typed

LEMMA SameFiles == ASSUME Typed, part' = part, stamp' = stamp PROVE PartTyped'
  BY DEF Typed, PartTyped, IsFile, Shaped

LEMMA SameProcs == ASSUME Typed, proc' = proc, stamp' = stamp PROVE ProcTyped'
  BY DEF Typed, ProcTyped, IsProc

\* A process that turns to a stage and session, or goes off.
LEMMA ReadyStep ==
    ASSUME Typed, stamp' = stamp, NEW p \in Procs, NEW st \in Stages,
           NEW d \in Sessions, NEW rows, proc' = [proc EXCEPT ![p] = Ready(st, d, rows)]
    PROVE  ProcTyped'
  BY ReadyTyped, ProcSet

LEMMA OffStep ==
    ASSUME Typed, stamp' = stamp, NEW p \in Procs, proc' = [proc EXCEPT ![p] = Off]
    PROVE  ProcTyped'
  BY OffTyped, ProcSet

LEMMA RunDailyTyped == ASSUME Typed, NEW st \in Stages, RunDaily(st) PROVE Typed'
<1>1. /\ part' = part /\ stamp' = stamp /\ pass' = pass /\ yesterday' = yesterday
      /\ chain' = chain /\ close' = close /\ passes' = passes /\ deaths' = deaths
      /\ due[st] > 0 /\ due' = [due EXCEPT ![st] = @ - 1]
  BY DEF RunDaily, inputs, archive
<1>2. PICK rows : proc' \in {proc, [proc EXCEPT ![st] = Ready(st, yesterday, rows)]}
  BY DEF RunDaily
<1>3. ProcTyped'
  BY <1>1, <1>2, ReadyStep, SameProcs DEF Typed, RestTyped, Procs
<1>4. RestTyped'
  BY <1>1, DerivedAssumption DEF Typed, RestTyped
<1>5. PassTyped'
  BY <1>1 DEF Typed, PassTyped
<1> QED
  BY <1>1, <1>3, <1>4, <1>5, SameFiles DEF Typed

LEMMA NextOfPassTyped == ASSUME Typed, NextOfPass PROVE Typed'
<1>1. /\ part' = part /\ stamp' = stamp /\ due' = due /\ passes' = passes
      /\ UNCHANGED <<yesterday, chain, close, deaths>>
  BY DEF NextOfPass, inputs
<1>2. PICK d \in pass.todo :
        /\ pass' = [pass EXCEPT !.todo = @ \ {d}]
        /\ \E rows : proc' \in {proc, [proc EXCEPT !["archive"] = Ready(pass.st, d, rows)]}
  BY DEF NextOfPass
<1>3. ProcTyped'
  <2>1. d \in Sessions /\ pass.st \in Stages /\ "archive" \in Procs
    BY DEF Typed, PassTyped, Procs
  <2> QED
    BY <1>1, <1>2, <2>1, ReadyStep, SameProcs
<1>4. PassTyped'
  BY <1>2 DEF Typed, PassTyped
<1>5. RestTyped'
  BY <1>1 DEF Typed, RestTyped
<1> QED
  BY <1>1, <1>3, <1>4, <1>5, SameFiles DEF Typed

LEMMA ExitTyped == ASSUME Typed, NEW p \in Procs, Exit(p) PROVE Typed'
<1>1. /\ part' = part /\ stamp' = stamp /\ proc' = [proc EXCEPT ![p] = Off]
      /\ due' = [st \in Stages |-> IF st = p THEN 0 ELSE due[st]]
      /\ UNCHANGED <<yesterday, chain, close, pass, passes, deaths>>
  BY DEF Exit, inputs, archive
<1>2. RestTyped' /\ PassTyped'
  BY <1>1, DerivedAssumption DEF Typed, RestTyped, PassTyped
<1> QED
  BY <1>1, <1>2, OffStep, SameFiles DEF Typed

LEMMA KillTyped == ASSUME Typed, NEW p \in Procs, Kill(p) PROVE Typed'
<1>1. /\ part' = part /\ stamp' = stamp /\ proc' = [proc EXCEPT ![p] = Off]
      /\ UNCHANGED <<yesterday, chain, close, passes>>
      /\ deaths < MaxDeaths /\ deaths' = deaths + 1
      /\ pass' \in {pass, NoPass}
  BY DEF Kill, inputs
<1>2. due' \in [Stages -> -1..Burst]
  <2>1. PICK left \in {0, 1} :
          due' = [st \in Stages |-> IF st = p THEN left * due[st] ELSE due[st]]
    BY DEF Kill
  <2>2. due \in [Stages -> -1..Burst]
    BY DEF Typed, RestTyped
  <2>3. \A st \in Stages : left * due[st] \in -1..Burst
    BY <2>2, DerivedAssumption
  <2> QED
    BY <2>1, <2>2, <2>3
<1>3. RestTyped'
  BY <1>1, <1>2, DerivedAssumption DEF Typed, RestTyped
<1>4. PassTyped'
  <2>1. CASE pass' = pass
    BY <2>1 DEF Typed, PassTyped
  <2>2. CASE pass' = NoPass
    BY <2>2, CalendarIs DEF PassTyped, NoPass, Stages
  <2> QED
    BY <1>1, <2>1, <2>2
<1> QED
  BY <1>1, <1>3, <1>4, OffStep, SameFiles DEF Typed

\* The steps that leave partitions and processes alone.
LEMMA QuietTyped ==
    ASSUME Typed,
           \/ \E d \in FirstDaily..yesterday : Land(d)
           \/ Tomorrow \/ (\E st \in Stages : Timer(st))
           \/ StartWalk \/ StartFit \/ EndPass \/ UNCHANGED vars
    PROVE  Typed' /\ part' = part /\ proc' = proc
<1>1. part' = part /\ stamp' = stamp /\ proc' = proc
  BY DEF Land, Tomorrow, Timer, StartWalk, StartFit, EndPass, vars
<1>2. PartTyped' /\ ProcTyped'
  BY <1>1, SameFiles, SameProcs
<1>3. ASSUME NEW d \in FirstDaily..yesterday, Land(d) PROVE PassTyped' /\ RestTyped'
  <2>1. d \in Sessions
    BY DerivedAssumption DEF Typed, RestTyped, Sessions
  <2>2. PICK bars \in Chains \cup {{}}, bar \in BOOLEAN :
          /\ chain' = [chain EXCEPT ![d] = bars] /\ close' = [close EXCEPT ![d] = bar]
    BY <1>3 DEF Land
  <2>3. UNCHANGED <<yesterday, stamp, due, pass, passes, deaths>>
    BY <1>3 DEF Land, archive
  <2> QED
    BY <2>1, <2>2, <2>3 DEF Typed, PassTyped, RestTyped
<1>4. ASSUME Tomorrow PROVE PassTyped' /\ RestTyped'
  <2>1. /\ yesterday < LastSession /\ yesterday' = yesterday + 1
        /\ due' = [st \in Stages |-> -1]
        /\ UNCHANGED <<chain, close, stamp, pass, passes, deaths>>
    BY <1>4 DEF Tomorrow, archive
  <2>2. yesterday' \in Sessions
    BY <2>1, DerivedAssumption DEF Typed, RestTyped, Sessions
  <2>3. due' \in [Stages -> -1..Burst]
    BY <2>1, DerivedAssumption
  <2> QED
    BY <2>1, <2>2, <2>3 DEF Typed, PassTyped, RestTyped
<1>5. ASSUME NEW st \in Stages, Timer(st) PROVE PassTyped' /\ RestTyped'
  <2>1. /\ due' = [due EXCEPT ![st] = Burst]
        /\ UNCHANGED <<yesterday, chain, close, stamp, pass, passes, deaths>>
    BY <1>5 DEF Timer, inputs, archive
  <2> QED
    BY <2>1, DerivedAssumption DEF Typed, PassTyped, RestTyped
<1>6. ASSUME StartWalk \/ StartFit PROVE PassTyped' /\ RestTyped'
  <2>1. /\ passes < MaxPasses /\ passes' = passes + 1
        /\ UNCHANGED <<yesterday, chain, close, stamp, due, deaths>>
    BY <1>6 DEF StartWalk, StartFit, inputs
  <2>2. \A a \in Starts : a..yesterday \subseteq Sessions
    BY DerivedAssumption DEF Typed, RestTyped, Sessions
  <2>3. PassTyped'
    <3>1. PICK st, force, start, todo, fits, under :
            /\ st \in Stages /\ force \in BOOLEAN /\ start \in Starts
            /\ pass' = [st |-> st, force |-> force, todo |-> todo, fits |-> fits,
                        under |-> under]
            /\ todo \subseteq start..yesterday /\ under \in Calendar
      <4>1. CASE StartWalk
        <5>1. PICK st \in Rebuilt \ {"rv_forecast"}, force \in BOOLEAN, start \in Starts :
                pass' = [st |-> st, force |-> force, todo |-> start..yesterday,
                         fits |-> <<>>, under |-> NoCalendar]
          BY <4>1 DEF StartWalk
        <5>2. st \in Stages
          BY <5>1, DerivedAssumption
        <5> QED
          BY <5>1, <5>2, CalendarIs, ZenonT(40)
      <4>2. CASE StartFit
        <5>1. PICK force \in BOOLEAN, start \in Starts, cal \in Calendars :
                LET fits    == Series(part["spy_spot"], yesterday)
                    origins == {d \in start..yesterday : ForecastRows(fits, d, cal) # {}}
                IN pass' = [st |-> "rv_forecast", force |-> force, todo |-> origins,
                            fits |-> fits, under |-> Answered(cal)]
          BY <4>2 DEF StartFit
        <5>2. \E fits : pass' = [st |-> "rv_forecast", force |-> force,
                   todo |-> {d \in start..yesterday : ForecastRows(fits, d, cal) # {}},
                   fits |-> fits, under |-> Answered(cal)]
          BY <5>1
        <5>3. PICK fits : pass' = [st |-> "rv_forecast", force |-> force,
                   todo |-> {d \in start..yesterday : ForecastRows(fits, d, cal) # {}},
                   fits |-> fits, under |-> Answered(cal)]
          BY <5>2
        <5>4. PICK todo : /\ todo = {d \in start..yesterday : ForecastRows(fits, d, cal) # {}}
                          /\ todo \subseteq start..yesterday
          OBVIOUS
        <5>5. "rv_forecast" \in Stages /\ Answered(cal) \in Calendar
          BY <5>1, CalendarIs DEF Stages
        <5>6. pass' = [st |-> "rv_forecast", force |-> force, todo |-> todo,
                       fits |-> fits, under |-> Answered(cal)]
          BY <5>3, <5>4
        <5> QED
          BY <5>1, <5>4, <5>5, <5>6
      <4> QED
        BY <1>6, <4>1, <4>2
    <3> QED
      BY <2>2, <3>1 DEF PassTyped
  <2> QED
    BY <2>1, <2>3, DerivedAssumption DEF Typed, RestTyped
<1>7. ASSUME EndPass PROVE PassTyped' /\ RestTyped'
  <2>1. pass' = NoPass /\ UNCHANGED <<yesterday, chain, close, stamp, due, passes, deaths>>
    BY <1>7 DEF EndPass, inputs
  <2>2. PassTyped'
    BY <2>1, CalendarIs DEF PassTyped, NoPass, Stages
  <2> QED
    BY <2>1, <2>2 DEF Typed, RestTyped
<1>8. ASSUME UNCHANGED vars PROVE PassTyped' /\ RestTyped'
  <2>1. UNCHANGED <<yesterday, chain, close, stamp, due, pass, passes, deaths>>
    BY <1>8 DEF vars, inputs, archive
  <2> QED
    BY <2>1 DEF Typed, PassTyped, RestTyped
<1> QED
  BY <1>1, <1>2, <1>3, <1>4, <1>5, <1>6, <1>7, <1>8 DEF Typed

LEMMA TypedStep == Typed /\ [Next]_vars => Typed'
<1> SUFFICES ASSUME Typed, [Next]_vars PROVE Typed'
  OBVIOUS
<1>1. ASSUME NEW p \in Procs,
             Snapshot(p) \/ Open(p) \/ Finish(p) \/ Retire(p) \/ Exit(p) \/ Kill(p)
      PROVE  Typed'
  BY <1>1, SnapshotTyped, OpenTyped, FinishTyped, RetireTyped, ExitTyped, KillTyped
<1> QED
  BY <1>1, QuietTyped, RunDailyTyped, NextOfPassTyped DEF Next

\* Every partition holds files and every process works on one, whatever
\* overlaps and whoever dies: the partitions, processes and counters of
\* the reductions are what TypeOK says.  (write_rows, the daily units)
THEOREM TypeCorrect == Spec => []TypeOK
<1>1. Spec => []Typed
  BY TypedInit, TypedStep, PTL DEF Spec
<1> QED
  BY <1>1, TypedTypeOK, PTL

(***************************************************************************)
(* A readable session stays readable.  A writer moves aside only files     *)
(* older than its own, and there is always a whole file at least as new as *)
(* its own: its own, or one of whoever moved that aside.                   *)
(***************************************************************************)

Guarded ==
    \A p \in Procs :
        LET w == proc[p] IN
        /\ w.at \in {"writing", "retiring"} => \A i \in w.prior : i < w.id
        /\ w.at = "writing" => \E f \in part[w.st][w.d] :
                f.id = w.id \/ (f.whole /\ f.id >= w.id)
        /\ w.at = "retiring" => \E f \in part[w.st][w.d] : f.whole /\ f.id >= w.id

\* The other steps leave the files alone, and a process where it is or idle.
LEMMA OtherSteps ==
    ASSUME Typed, [Next]_vars,
           \A p \in Procs : ~(Snapshot(p) \/ Open(p) \/ Finish(p) \/ Retire(p))
    PROVE  /\ part' = part
           /\ \A q \in Procs : proc'[q] = proc[q] \/ proc'[q].at \in {"off", "ready"}
<1>1. ASSUME NEW st \in Stages, RunDaily(st)
      PROVE  /\ part' = part
             /\ \A q \in Procs : proc'[q] = proc[q] \/ proc'[q].at \in {"off", "ready"}
  <2>1. /\ part' = part /\ yesterday \in Sessions /\ ProcTyped /\ st \in Procs
    BY <1>1 DEF RunDaily, Typed, RestTyped, Procs
  <2>2. PICK rows : proc' \in {proc, [proc EXCEPT ![st] = Ready(st, yesterday, rows)]}
    BY <1>1 DEF RunDaily
  <2>3. PICK r : r = Ready(st, yesterday, rows) /\ r.at = "ready"
    BY <2>1, ReadyTyped
  <2>4. CASE proc' = [proc EXCEPT ![st] = r]
    BY <2>1, <2>3, <2>4, SetProc
  <2> QED
    BY <2>1, <2>2, <2>3, <2>4
<1>2. ASSUME NextOfPass
      PROVE  /\ part' = part
             /\ \A q \in Procs : proc'[q] = proc[q] \/ proc'[q].at \in {"off", "ready"}
  <2>1. PICK d \in pass.todo :
          \E rows : proc' \in {proc, [proc EXCEPT !["archive"] = Ready(pass.st, d, rows)]}
    BY <1>2 DEF NextOfPass
  <2>2. /\ part' = part /\ ProcTyped /\ "archive" \in Procs
        /\ d \in Sessions /\ pass.st \in Stages
    BY <1>2 DEF NextOfPass, Typed, PassTyped, Procs
  <2>3. PICK rows : proc' \in {proc, [proc EXCEPT !["archive"] = Ready(pass.st, d, rows)]}
    BY <2>1
  <2>4. PICK r : r = Ready(pass.st, d, rows) /\ r.at = "ready"
    <3>1. PICK st \in Stages : st = pass.st
      BY <2>2
    <3>2. Ready(st, d, rows).at = "ready"
      BY <2>2, ReadyTyped
    <3> QED
      BY <3>1, <3>2
  <2>5. CASE proc' = [proc EXCEPT !["archive"] = r]
    BY <2>2, <2>4, <2>5, SetProc
  <2> QED
    BY <2>2, <2>3, <2>4, <2>5
<1>3. ASSUME NEW p \in Procs, Exit(p) \/ Kill(p)
      PROVE  /\ part' = part
             /\ \A q \in Procs : proc'[q] = proc[q] \/ proc'[q].at \in {"off", "ready"}
  <2>1. part' = part /\ ProcTyped /\ proc' = [proc EXCEPT ![p] = Off]
    BY <1>3 DEF Exit, Kill, Typed
  <2> QED
    BY <2>1, SetProc, OffTyped
<1> QED
  BY <1>1, <1>2, <1>3, QuietTyped DEF Next

LEMMA GuardedStep == Typed /\ Guarded /\ [Next]_vars => Guarded'
<1> SUFFICES ASSUME Typed, Guarded, [Next]_vars, NEW p \in Procs
             PROVE  LET v == proc'[p] IN
                    /\ v.at \in {"writing", "retiring"} => \A i \in v.prior : i < v.id
                    /\ v.at = "writing" => \E f \in part'[v.st][v.d] :
                            f.id = v.id \/ (f.whole /\ f.id >= v.id)
                    /\ v.at = "retiring" =>
                            \E f \in part'[v.st][v.d] : f.whole /\ f.id >= v.id
  BY DEF Guarded
<1> DEFINE w == proc[p]
           v == proc'[p]
<1>1. /\ IsProc(w) /\ w.st \in Stages /\ w.d \in Sessions
      /\ w.prior \subseteq 1..stamp[w.st][w.d]
      /\ stamp[w.st][w.d] \in Nat
      /\ \A f \in part[w.st][w.d] : IsFile(f) /\ f.id \in Nat
      /\ w.id \in Nat
  BY DEF Typed, ProcTyped, PartTyped, RestTyped, IsProc, IsFile
<1>2. /\ w.at \in {"writing", "retiring"} => \A i \in w.prior : i < w.id
      /\ w.at = "writing" => \E f \in part[w.st][w.d] :
            f.id = w.id \/ (f.whole /\ f.id >= w.id)
      /\ w.at = "retiring" => \E f \in part[w.st][w.d] : f.whole /\ f.id >= w.id
  BY DEF Guarded
<1>3. ASSUME NEW q \in Procs, Snapshot(q)
      PROVE  /\ part' = part
             /\ q # p => /\ v.at = w.at /\ v.st = w.st /\ v.d = w.d
                         /\ v.id = w.id /\ v.prior = w.prior
             /\ q = p => v.at = "snapped"
  <2>1. part' = part /\ proc'[q].at = "snapped"
    BY <1>3, SnapshotEffect
  <2>2. CASE q # p
    <3>1. p \in Procs \ {q}
      BY <2>2
    <3> QED
      BY <1>3, <2>1, <2>2, <3>1, SnapshotEffect, ZenonT(40)
  <2> QED
    BY <2>1, <2>2
<1>4. ASSUME NEW q \in Procs, Open(q)
      PROVE  /\ part[w.st][w.d] \subseteq part'[w.st][w.d]
             /\ q # p => v = w
             /\ q = p => /\ v.at = "writing" /\ v.st = w.st /\ v.d = w.d
                         /\ v.prior = w.prior /\ v.id = stamp[w.st][w.d] + 1
                         /\ \E f \in part'[w.st][w.d] : f.id = v.id
  <2> DEFINE x == proc[q]
             f == [id |-> proc'[q].id, whole |-> FALSE, rows |-> x.rows]
  <2>1. x.st \in Stages /\ x.d \in Sessions
    BY DEF Typed, ProcTyped, IsProc
  <2>5. part[w.st][w.d] \subseteq part'[w.st][w.d]
    BY <1>1, <1>4, OpenFiles, ZenonT(40)
  <2>6. f \in part'[x.st][x.d] /\ f.id = proc'[q].id
    <3>1. \A s \in Stages, e \in Sessions :
            part'[s][e] = IF s = x.st /\ e = x.d THEN part[s][e] \cup {f} ELSE part[s][e]
      BY <1>4, OpenFiles
    <3> QED
      BY <2>1, <3>1
  <2> QED
    BY <1>4, <2>5, <2>6, OpenEffect, ZenonT(40)
<1>5. ASSUME NEW q \in Procs, Finish(q)
      PROVE  /\ \A f \in part[w.st][w.d] : \E g \in part'[w.st][w.d] :
                    g.id = f.id /\ (f.whole => g.whole)
                    /\ (q = p /\ f.id = w.id => g.whole)
             /\ q # p => v = w
             /\ q = p => /\ w.at = "writing" /\ v.at = "retiring" /\ v.st = w.st
                         /\ v.d = w.d /\ v.prior = w.prior /\ v.id = w.id
  <2>1. \A f \in part[w.st][w.d] : \E g \in part'[w.st][w.d] :
            g.id = f.id /\ (f.whole => g.whole)
            /\ (q = p /\ f.id = w.id => g.whole)
    BY <1>1, <1>5, FinishFiles
  <2> QED
    BY <1>5, <2>1, FinishEffect
<1>6. ASSUME NEW q \in Procs, Retire(q)
      PROVE  /\ \A f \in part[w.st][w.d] : \E g \in part'[w.st][w.d] :
                    (g = f \/ (g.whole /\ g.id >= f.id))
             /\ q # p => v = w
             /\ q = p => /\ w.at = "retiring" /\ v.at = "retiring" /\ v.st = w.st
                         /\ v.d = w.d /\ v.prior \subseteq w.prior /\ v.id = w.id
  <2> DEFINE x == proc[q]
  <2>1. PICK id \in x.prior :
          /\ proc'[q].prior = x.prior \ {id}
          /\ \A s \in Stages, e \in Sessions :
               part'[s][e] = IF s = x.st /\ e = x.d
                             THEN {f \in part[s][e] : f.id # id} ELSE part[s][e]
    BY <1>6, RetireFiles
  <2>2. x.at = "retiring"
    BY <1>6, RetireEffect
  <2>3. /\ id < x.id
        /\ \E f \in part[x.st][x.d] : f.whole /\ f.id >= x.id
    BY <2>2 DEF Guarded
  <2>4. ASSUME NEW f \in part[w.st][w.d]
        PROVE  \E g \in part'[w.st][w.d] : (g = f \/ (g.whole /\ g.id >= f.id))
    <3>1. CASE w.st = x.st /\ w.d = x.d /\ f.id = id
      <4>1. PICK g \in part[w.st][w.d] : g.whole /\ g.id >= x.id
        BY <2>3, <3>1
      <4>2. x.id \in Nat /\ id \in Nat /\ g.id \in Nat
        BY <1>1, <3>1 DEF Typed, ProcTyped, IsProc
      <4>3. g.id > id /\ g.id # id
        BY <2>3, <4>1, <4>2
      <4>4. g \in part'[w.st][w.d]
        <5>1. w.st \in Stages /\ w.d \in Sessions
          BY <1>1
        <5>2. part'[w.st][w.d] = {h \in part[w.st][w.d] : h.id # id}
          BY <2>1, <3>1, <5>1
        <5> QED
          BY <4>1, <4>3, <5>2
      <4> QED
        BY <3>1, <4>1, <4>2, <4>3, <4>4
    <3>2. CASE ~(w.st = x.st /\ w.d = x.d /\ f.id = id)
      <4>1. f \in part'[w.st][w.d]
        BY <1>1, <2>1, <3>2
      <4> QED
        BY <4>1
    <3> QED
      BY <3>1, <3>2
  <2> QED
    BY <1>6, <2>1, <2>4, RetireEffect
<1>7. ASSUME NEW q \in Procs, Snapshot(q)
      PROVE  /\ v.at \in {"writing", "retiring"} => \A i \in v.prior : i < v.id
             /\ v.at = "writing" => \E f \in part'[v.st][v.d] :
                            f.id = v.id \/ (f.whole /\ f.id >= v.id)
             /\ v.at = "retiring" =>
                            \E f \in part'[v.st][v.d] : f.whole /\ f.id >= v.id
  BY <1>2, <1>3, <1>7
<1>8. ASSUME NEW q \in Procs, Open(q)
      PROVE  /\ v.at \in {"writing", "retiring"} => \A i \in v.prior : i < v.id
             /\ v.at = "writing" => \E f \in part'[v.st][v.d] :
                            f.id = v.id \/ (f.whole /\ f.id >= v.id)
             /\ v.at = "retiring" =>
                            \E f \in part'[v.st][v.d] : f.whole /\ f.id >= v.id
  <2>1. CASE q = p
    BY <1>1, <1>4, <1>8, <2>1
  <2>2. CASE q # p
    BY <1>2, <1>4, <1>8, <2>2
  <2> QED
    BY <2>1, <2>2
<1>9. ASSUME NEW q \in Procs, Finish(q)
      PROVE  /\ v.at \in {"writing", "retiring"} => \A i \in v.prior : i < v.id
             /\ v.at = "writing" => \E f \in part'[v.st][v.d] :
                            f.id = v.id \/ (f.whole /\ f.id >= v.id)
             /\ v.at = "retiring" =>
                            \E f \in part'[v.st][v.d] : f.whole /\ f.id >= v.id
  <2>1. CASE q = p
    <3>1. PICK f \in part[w.st][w.d] : f.id = w.id \/ (f.whole /\ f.id >= w.id)
      BY <1>2, <1>5, <1>9, <2>1
    <3>2. PICK g \in part'[w.st][w.d] : /\ g.id = f.id /\ (f.whole => g.whole)
                                        /\ f.id = w.id => g.whole
      BY <1>5, <1>9, <2>1, <3>1
    <3>3. g.whole /\ g.id >= w.id
      BY <1>1, <3>1, <3>2
    <3> QED
      BY <1>2, <1>5, <1>9, <2>1, <3>2, <3>3
  <2>2. CASE q # p
    BY <1>2, <1>5, <1>9, <2>2
  <2> QED
    BY <2>1, <2>2
<1>10. ASSUME NEW q \in Procs, Retire(q)
       PROVE  /\ v.at \in {"writing", "retiring"} => \A i \in v.prior : i < v.id
              /\ v.at = "writing" => \E f \in part'[v.st][v.d] :
                            f.id = v.id \/ (f.whole /\ f.id >= v.id)
              /\ v.at = "retiring" =>
                            \E f \in part'[v.st][v.d] : f.whole /\ f.id >= v.id
  <2>1. \A f \in part[w.st][w.d] : \E g \in part'[w.st][w.d] :
            (g = f \/ (g.whole /\ g.id >= f.id))
    BY <1>6, <1>10
  <2>2. \A g \in part'[w.st][w.d] : g.id \in Nat
    BY <1>1, <1>10, RetireFiles, ZenonT(40)
  <2>3. /\ w.at = "writing" => \E f \in part'[w.st][w.d] :
              f.id = w.id \/ (f.whole /\ f.id >= w.id)
        /\ w.at = "retiring" => \E f \in part'[w.st][w.d] : f.whole /\ f.id >= w.id
    BY <1>1, <1>2, <2>1, <2>2
  <2>4. /\ v.at = w.at /\ v.st = w.st /\ v.d = w.d /\ v.id = w.id
        /\ v.prior \subseteq w.prior
    BY <1>6, <1>10
  <2> QED
    BY <1>2, <2>3, <2>4
<1>11. CASE \A q \in Procs : ~(Snapshot(q) \/ Open(q) \/ Finish(q) \/ Retire(q))
  <2>1. part' = part /\ (v = w \/ v.at \in {"off", "ready"})
    BY <1>11, OtherSteps
  <2> QED
    BY <1>2, <2>1
<1> QED
  BY <1>7, <1>8, <1>9, <1>10, <1>11

LEMMA EmptiedStep ==
    ASSUME Typed, Guarded, [Next]_vars, NEW st \in Stages, NEW d \in Sessions,
           HasWhole(part[st][d])
    PROVE  HasWhole(part'[st][d])
<1> USE DEF HasWhole
<1>1. ASSUME NEW q \in Procs, Snapshot(q) \/ Open(q) PROVE HasWhole(part'[st][d])
  BY <1>1, SnapshotEffect, OpenFiles, ZenonT(40)
<1>2. ASSUME NEW q \in Procs, Finish(q) PROVE HasWhole(part'[st][d])
  <2>1. \A f \in part[st][d] : \E g \in part'[st][d] : f.whole => g.whole
    BY <1>2, FinishFiles
  <2> QED
    BY <2>1
<1>3. ASSUME NEW q \in Procs, Retire(q) PROVE HasWhole(part'[st][d])
  <2> DEFINE x == proc[q]
  <2>1. PICK id \in x.prior : \A s \in Stages, e \in Sessions :
               part'[s][e] = IF s = x.st /\ e = x.d
                             THEN {f \in part[s][e] : f.id # id} ELSE part[s][e]
    BY <1>3, RetireFiles, ZenonT(40)
  <2>2. CASE st = x.st /\ d = x.d
    <3>1. x.at = "retiring"
      BY <1>3, RetireEffect
    <3>2. PICK g \in part[st][d] : g.whole /\ g.id >= x.id
      BY <2>2, <3>1 DEF Guarded
    <3>3. id < x.id
      BY <3>1 DEF Guarded
    <3>4. id \in Nat /\ x.id \in Nat /\ g.id \in Nat
      BY <2>2, <3>2 DEF Typed, ProcTyped, PartTyped, IsProc, IsFile
    <3>5. g.id # id
      BY <3>2, <3>3, <3>4
    <3> QED
      BY <2>1, <2>2, <3>2, <3>5
  <2>3. CASE ~(st = x.st /\ d = x.d)
    BY <2>1, <2>3
  <2> QED
    BY <2>2, <2>3
<1>4. CASE \A q \in Procs : ~(Snapshot(q) \/ Open(q) \/ Finish(q) \/ Retire(q))
  BY <1>4, OtherSteps
<1> QED
  BY <1>1, <1>2, <1>3, <1>4

LEMMA GuardedInit == Init => Guarded
  BY OffTyped DEF Init, Guarded

\* A partition that holds a whole file goes on holding one, however many
\* writers overlap in it and wherever they die.  (the write-then-quarantine
\* order of write_rows)
THEOREM StaysReadable == Spec => NeverEmptied
<1>1. Spec => [](Typed /\ Guarded)
  BY TypedInit, TypedStep, GuardedInit, GuardedStep, PTL DEF Spec
<1>2. Typed /\ Guarded /\ [Next]_vars =>
        [\A st \in Stages, d \in Sessions :
            HasWhole(part[st][d]) => HasWhole(part'[st][d])]_vars
  BY EmptiedStep
<1> QED
  BY <1>1, <1>2, PTL DEF Spec, NeverEmptied

(***************************************************************************)
(* A run that met no other writer of its partition: every file there is one *)
(* it saw before it wrote, or its own.                                     *)
(***************************************************************************)

Draft(w) == [id |-> w.id, whole |-> FALSE, rows |-> w.rows]

Mine(w, files) ==
    /\ w.at = "snapped"  => \A f \in files : f.id \in w.prior
    /\ w.at = "writing"  => /\ Draft(w) \in files
                            /\ \A f \in files : f.id \in w.prior \/ f = Draft(w)
    /\ w.at = "retiring" =>
            /\ File(w.id, w.rows) \in files
            /\ \A f \in files : f.id \in w.prior \/ f = File(w.id, w.rows)

\* Busy, of a process record.
In(w, st, d) == w.at \in {"snapped", "writing", "retiring"} /\ w.st = st /\ w.d = d

Sole ==
    \A p \in Procs :
        LET w == proc[p] IN
        w.alone /\ In(w, w.st, w.d) =>
            /\ \A q \in Procs \ {p} : ~In(proc[q], w.st, w.d)
            /\ Mine(w, part[w.st][w.d])

\* Another writer's step is in another partition.
LEMMA Elsewhere ==
    ASSUME Typed, Sole, NEW p \in Procs, NEW q \in Procs \ {p},
           proc[p].alone, In(proc[p], proc[p].st, proc[p].d),
           In(proc[q], proc[q].st, proc[q].d),
           proc'[q].st = proc[q].st, proc'[q].d = proc[q].d,
           \A r \in Procs \ {q} : proc'[r] = proc[r],
           \A s \in Stages, e \in Sessions :
               ~(s = proc[q].st /\ e = proc[q].d) => part'[s][e] = part[s][e]
    PROVE  /\ \A r \in Procs \ {p} : ~In(proc'[r], proc[p].st, proc[p].d)
           /\ Mine(proc'[p], part'[proc[p].st][proc[p].d])
<1> DEFINE w == proc[p]
<1>1. /\ w.st \in Stages /\ w.d \in Sessions /\ proc'[p] = w
  BY DEF Typed, ProcTyped, IsProc
<1>2. /\ \A r \in Procs \ {p} : ~In(proc[r], w.st, w.d)
      /\ Mine(w, part[w.st][w.d])
  BY DEF Sole
<1>3. ~(w.st = proc[q].st /\ w.d = proc[q].d)
  BY <1>2 DEF In
<1>4. ~In(proc'[q], w.st, w.d)
  BY <1>3 DEF In
<1> QED
  BY <1>1, <1>2, <1>3, <1>4

LEMMA SoleStep == Typed /\ Guarded /\ Sole /\ [Next]_vars => Sole'
<1> SUFFICES ASSUME Typed, Guarded, Sole, [Next]_vars, NEW p \in Procs,
                    proc'[p].alone, In(proc'[p], proc'[p].st, proc'[p].d)
             PROVE  /\ \A q \in Procs \ {p} : ~In(proc'[q], proc'[p].st, proc'[p].d)
                    /\ Mine(proc'[p], part'[proc'[p].st][proc'[p].d])
  BY DEF Sole
<1> DEFINE w == proc[p]
           v == proc'[p]
           Goal == /\ \A q \in Procs \ {p} : ~In(proc'[q], v.st, v.d)
                   /\ Mine(v, part'[v.st][v.d])
<1>1. /\ w.st \in Stages /\ w.d \in Sessions
      /\ \A f \in part[w.st][w.d] : IsFile(f)
  BY DEF Typed, ProcTyped, PartTyped, IsProc
<1>2. w.alone /\ In(w, w.st, w.d) =>
            /\ \A q \in Procs \ {p} : ~In(proc[q], w.st, w.d)
            /\ Mine(w, part[w.st][w.d])
  BY DEF Sole
<1>3. CASE Snapshot(p)
  <2>1. /\ part' = part /\ v.at = "snapped" /\ v.st = w.st /\ v.d = w.d
        /\ v.prior = {f.id : f \in part[w.st][w.d]}
        /\ \A r \in Procs \ {p} : ~Busy(r, w.st, w.d)
        /\ \A q \in Procs \ {p} : /\ proc'[q].at = proc[q].at
                                  /\ proc'[q].st = proc[q].st /\ proc'[q].d = proc[q].d
    BY <1>3, SnapshotEffect
  <2> QED
    BY <2>1 DEF In, Busy, Mine
<1>4. ASSUME NEW q \in Procs \ {p}, Snapshot(q) PROVE Goal
  <2> DEFINE x == proc[q]
  <2>1. /\ part' = part /\ v.at = w.at /\ v.st = w.st /\ v.d = w.d
        /\ v.rows = w.rows /\ v.id = w.id /\ v.prior = w.prior
        /\ w.alone /\ ~Busy(p, x.st, x.d)
    BY <1>4, SnapshotEffect
  <2>2. proc'[q].st = x.st /\ proc'[q].d = x.d
    BY <1>4, SnapshotEffect
  <2>3. \A r \in Procs \ {q} : /\ proc'[r].at = proc[r].at
                               /\ proc'[r].st = proc[r].st /\ proc'[r].d = proc[r].d
    BY <1>4, SnapshotEffect
  <2>4. In(w, w.st, w.d)
    BY <2>1 DEF In
  <2>5. ~In(proc'[q], w.st, w.d)
    BY <2>1, <2>2, <2>4 DEF In, Busy
  <2>6. \A r \in Procs \ {p} : ~In(proc'[r], w.st, w.d)
    BY <1>2, <2>1, <2>3, <2>4, <2>5 DEF In
  <2>7. Mine(v, part'[w.st][w.d])
    BY <1>2, <2>1, <2>4 DEF Mine, Draft
  <2> QED
    BY <2>1, <2>6, <2>7
<1>5. CASE Open(p)
  <2>1. /\ w.at = "snapped" /\ v.at = "writing" /\ v.st = w.st /\ v.d = w.d
        /\ v.prior = w.prior /\ v.rows = w.rows /\ w.alone
        /\ \A q \in Procs \ {p} : proc'[q] = proc[q]
    BY <1>5, OpenEffect
  <2>2. part'[w.st][w.d] = part[w.st][w.d] \cup {Draft(v)}
    <3>1. PICK g : g = [id |-> v.id, whole |-> FALSE, rows |-> w.rows]
      OBVIOUS
    <3>2. part'[w.st][w.d] = part[w.st][w.d] \cup {g}
      BY <1>1, <1>5, <3>1, OpenFiles
    <3>3. g = Draft(v)
      BY <2>1, <3>1 DEF Draft
    <3> QED
      BY <3>2, <3>3
  <2>3. In(w, w.st, w.d)
    BY <2>1 DEF In
  <2>4. Mine(v, part'[v.st][v.d])
    BY <1>2, <2>1, <2>2, <2>3 DEF Mine
  <2> QED
    BY <1>2, <2>1, <2>3, <2>4
<1>6. CASE Finish(p)
  <2>1. /\ w.at = "writing" /\ v.at = "retiring" /\ v.st = w.st /\ v.d = w.d
        /\ v.prior = w.prior /\ v.rows = w.rows /\ w.alone /\ v.id = w.id
        /\ \A q \in Procs \ {p} : proc'[q] = proc[q]
    BY <1>6, FinishEffect
  <2>2. In(w, w.st, w.d)
    BY <2>1 DEF In
  <2>3. /\ Draft(w) \in part[w.st][w.d]
        /\ \A f \in part[w.st][w.d] : f.id \in w.prior \/ f = Draft(w)
    BY <1>2, <2>1, <2>2 DEF Mine
  <2>4. Draft(w).id = w.id /\ Draft(w).rows = w.rows
    BY DEF Draft
  <2>5. ASSUME NEW g, IsFile(g), g.id = w.id, g.rows = w.rows, g.whole
        PROVE  g = File(w.id, w.rows)
    BY <2>5 DEF IsFile, File
  <2>6. \A g \in part'[w.st][w.d] : \E f \in part[w.st][w.d] :
            /\ IsFile(g) /\ g.id = f.id /\ g.rows = f.rows
            /\ f.id = w.id => g.whole
    BY <1>1, <1>6, FinishFiles
  <2>7. \A g \in part'[w.st][w.d] : g.id \in w.prior \/ g = File(w.id, w.rows)
    BY <2>3, <2>4, <2>5, <2>6
  <2>8. File(w.id, w.rows) \in part'[w.st][w.d]
    <3>1. PICK g \in part'[w.st][w.d] : g.id = w.id /\ g.rows = w.rows /\ g.whole
      BY <1>1, <1>6, <2>3, <2>4, FinishFiles
    <3> QED
      BY <2>5, <2>6, <3>1
  <2> QED
    BY <1>2, <2>1, <2>2, <2>7, <2>8 DEF Mine
<1>7. CASE Retire(p)
  <2>1. /\ w.at = "retiring" /\ v.at = "retiring" /\ v.st = w.st /\ v.d = w.d
        /\ v.rows = w.rows /\ w.alone /\ v.id = w.id
        /\ \A q \in Procs \ {p} : proc'[q] = proc[q]
    BY <1>7, RetireEffect
  <2>2. In(w, w.st, w.d)
    BY <2>1 DEF In
  <2>3. PICK id \in w.prior :
          /\ v.prior = w.prior \ {id}
          /\ part'[w.st][w.d] = {f \in part[w.st][w.d] : f.id # id}
    BY <1>1, <1>7, RetireFiles
  <2>4. /\ File(w.id, w.rows) \in part[w.st][w.d]
        /\ \A f \in part[w.st][w.d] : f.id \in w.prior \/ f = File(w.id, w.rows)
    BY <1>2, <2>1, <2>2 DEF Mine
  <2>5. id < w.id /\ id \in Nat /\ w.id \in Nat
    BY <2>1 DEF Guarded, Typed, ProcTyped, IsProc
  <2>6. File(w.id, w.rows).id # id
    BY <2>5 DEF File
  <2>7. Mine(v, part'[v.st][v.d])
    BY <2>1, <2>3, <2>4, <2>6 DEF Mine
  <2> QED
    BY <1>2, <2>1, <2>2, <2>7
<1>8. ASSUME NEW q \in Procs \ {p}, Open(q) \/ Finish(q) \/ Retire(q) PROVE Goal
  <2> DEFINE x == proc[q]
  <2>1. /\ x.at \in {"snapped", "writing", "retiring"}
        /\ proc'[q].st = x.st /\ proc'[q].d = x.d
        /\ \A r \in Procs \ {q} : proc'[r] = proc[r]
    BY <1>8, OpenEffect, FinishEffect, RetireEffect
  <2>2. \A s \in Stages, e \in Sessions :
               ~(s = x.st /\ e = x.d) => part'[s][e] = part[s][e]
    <3>1. CASE Open(q)
      <4> DEFINE f == [id |-> proc'[q].id, whole |-> FALSE, rows |-> x.rows]
      <4>2. \A s \in Stages, e \in Sessions :
               part'[s][e] = IF s = x.st /\ e = x.d THEN part[s][e] \cup {f}
                             ELSE part[s][e]
        BY <3>1, OpenFiles
      <4> QED
        BY <4>2
    <3>2. CASE Finish(q)
      BY <3>2, FinishFiles
    <3>3. CASE Retire(q)
      <4>1. q \in Procs
        OBVIOUS
      <4>2. PICK id \in x.prior :
               /\ proc'[q].prior = x.prior \ {id}
               /\ Shaped(part')
               /\ \A s \in Stages, e \in Sessions :
                    part'[s][e] = IF s = x.st /\ e = x.d
                                  THEN {f \in part[s][e] : f.id # id} ELSE part[s][e]
        BY <3>3, <4>1, RetireFiles
      <4> QED
        BY <4>2
    <3> QED
      BY <1>8, <3>1, <3>2, <3>3
  <2>3. v = w
    BY <2>1
  <2>4. In(x, x.st, x.d)
    BY <2>1 DEF In
  <2> QED
    BY <2>1, <2>2, <2>3, <2>4, Elsewhere
<1>9. CASE \A q \in Procs : ~(Snapshot(q) \/ Open(q) \/ Finish(q) \/ Retire(q))
  <2>1. part' = part /\ \A q \in Procs : proc'[q] = proc[q] \/ proc'[q].at \in {"off", "ready"}
    BY <1>9, OtherSteps
  <2>2. v = w
    BY <2>1 DEF In
  <2> QED
    BY <1>2, <2>1, <2>2 DEF In
<1> QED
  BY <1>3, <1>4, <1>5, <1>6, <1>7, <1>8, <1>9

LEMMA SoleInit == Init => Sole
  BY OffTyped DEF Init, Sole

\* What is left when such a run is over.
LEMMA HealedStep ==
    ASSUME Typed, Sole, [Next]_vars, NEW p \in Procs,
           proc[p].at = "retiring", proc[p].prior = {}, proc[p].alone,
           proc'[p].at = "off"
    PROVE  LET w == proc[p] IN
           /\ part'[w.st][w.d] = {File(w.id, w.rows)}
           /\ w.st = "surface" =>
                \A d \in Sessions : d = w.d => LoadSurface(d)' = w.rows
<1> DEFINE w == proc[p]
           f == File(w.id, w.rows)
<1>1. part' = part
  <2>1. ASSUME NEW q \in Procs, Snapshot(q) \/ Open(q) \/ Finish(q) \/ Retire(q)
        PROVE  FALSE
    <3>1. CASE q = p
      BY <2>1, <3>1, SnapshotEffect, OpenEffect, FinishEffect, RetireEffect
    <3>2. CASE q # p
      BY <2>1, <3>2, SnapshotEffect, OpenEffect, FinishEffect, RetireEffect, ZenonT(40)
    <3> QED
      BY <3>1, <3>2
  <2> QED
    BY <2>1, OtherSteps
<1>2. part[w.st][w.d] = {f}
  BY DEF Sole, In, Mine
<1>3. f.whole = TRUE /\ f.rows = w.rows
  BY DEF File
<1>4. ASSUME w.st = "surface", NEW d \in Sessions, d = w.d
      PROVE  LoadSurface(d)' = w.rows
  <2>1. part'["surface"][d] = {f}
    BY <1>1, <1>2, <1>4
  <2>2. Readable({f}) /\ Cardinality({f}) = 1
    BY <1>3, FS_Singleton DEF Readable
  <2>3. Rows({f}) = w.rows
    BY <1>3 DEF Rows
  <2>4. LoadSurface(d)' = Rows({f})
    BY <2>1, <2>2 DEF LoadSurface, FromRows
  <2> QED
    BY <2>3, <2>4
<1> QED
  BY <1>1, <1>2, <1>4

\* A run that met no other writer of its partition leaves its own file and
\* nothing else, whatever earlier runs left there, and a surface reads back
\* as what that run reduced.  (write_rows, quarantine_prior, load_surface)
THEOREM Heals == Spec => QuietRunHeals
<1>1. Spec => [](Typed /\ Guarded /\ Sole)
  BY TypedInit, TypedStep, GuardedInit, GuardedStep, SoleInit, SoleStep, PTL DEF Spec
<1>2. Typed /\ Guarded /\ Sole /\ [Next]_vars =>
        [\A p \in Procs :
            LET w == proc[p] IN
            w.at = "retiring" /\ w.prior = {} /\ w.alone /\ proc'[p].at = "off" =>
                /\ part'[w.st][w.d] = {File(w.id, w.rows)}
                /\ w.st = "surface" =>
                    \A d \in Sessions : d = w.d => LoadSurface(d)' = w.rows]_vars
  BY HealedStep
<1> QED
  BY <1>1, <1>2, PTL DEF Spec, QuietRunHeals

(***************************************************************************)
(* What a forecast rests on.  A series holds the sessions of the landed    *)
(* spots in order, so the rows up to a session are the first ones, and     *)
(* every window a fit at a row looks through ends at or before that row.   *)
(***************************************************************************)

Ordered(series) ==
    /\ series \in Seq(Int)
    /\ \A i, j \in 1..Len(series) : i <= j => series[i] <= series[j]

\* The rows landed up to a session can be counted.
LEMMA HeldCounts ==
    ASSUME NEW spots, NEW d \in Int, \A e \in 1..d : IsFiniteSet(spots[e])
    PROVE  /\ IsFiniteSet(UNION {{e} \X spots[e] : e \in 1..d})
           /\ Held(spots, d) \in Nat
<1> DEFINE Rws(e) == {e} \X spots[e]
           F      == {Rws(e) : e \in 1..d}
<1>1. IsFiniteSet(1..d)
  BY FS_Interval
<1>2. [e \in 1..d |-> Rws(e)] \in Surjection(1..d, F)
  BY DEF Surjection
<1>3. IsFiniteSet(F)
  BY <1>1, <1>2, FS_Surjection
<1>4. ASSUME NEW T \in F PROVE IsFiniteSet(T)
  <2>1. PICK e \in 1..d : T = {e} \X spots[e]
    OBVIOUS
  <2>2. IsFiniteSet({e}) /\ IsFiniteSet(spots[e])
    BY FS_Singleton
  <2> QED
    BY <2>1, <2>2, FS_Product
<1>5. IsFiniteSet(UNION F)
  BY <1>3, <1>4, FS_UNION
<1> QED
  BY <1>5, FS_CardinalityType DEF Held

\* More sessions hold no fewer rows.
LEMMA HeldGrows ==
    ASSUME NEW spots, NEW d \in Int, NEW last \in Int, d <= last,
           \A e \in 1..last : IsFiniteSet(spots[e])
    PROVE  Held(spots, d) <= Held(spots, last)
<1>1. UNION {{e} \X spots[e] : e \in 1..d} \subseteq UNION {{e} \X spots[e] : e \in 1..last}
  OBVIOUS
<1>2. IsFiniteSet(UNION {{e} \X spots[e] : e \in 1..last})
  BY HeldCounts
<1> QED
  BY <1>1, <1>2, FS_Subset DEF Held

\* read_series: the rows come in the order of their sessions, none after last.
LEMMA SeriesOrdered ==
    ASSUME NEW spots, NEW last \in Nat, \A e \in 1..last : IsFiniteSet(spots[e])
    PROVE  /\ Ordered(Series(spots, last))
           /\ Len(Series(spots, last)) = Held(spots, last)
           /\ \A i \in 1..Held(spots, last) : Series(spots, last)[i] \in 1..last
<1> DEFINE n         == Held(spots, last)
           Prior(i)  == {d \in 1..last : Held(spots, d) < i}
           ser       == Series(spots, last)
<1>1. n \in Nat /\ \A d \in 1..last : Held(spots, d) \in Nat
  <2>1. ASSUME NEW d \in Int, d <= last PROVE Held(spots, d) \in Nat
    <3>1. \A e \in 1..d : IsFiniteSet(spots[e])
      BY <2>1
    <3> QED
      BY <3>1, HeldCounts
  <2> QED
    BY <2>1
<1>2. ASSUME NEW i \in 1..n PROVE ser[i] \in 1..last /\ ser[i] = 1 + Cardinality(Prior(i))
  <2>1. ser[i] = 1 + Cardinality(Prior(i))
    BY DEF Series
  <2>2. Prior(i) \subseteq 1..(last - 1)
    <3>1. \A d \in Prior(i) : d # last
      BY <1>1
    <3> QED
      BY <3>1
  <2>3. ASSUME last # 0
        PROVE  IsFiniteSet(1..(last - 1)) /\ Cardinality(1..(last - 1)) = last - 1
    <3>1. 1 \in Int /\ last - 1 \in Int
      OBVIOUS
    <3>2. /\ IsFiniteSet(1..(last - 1))
          /\ Cardinality(1..(last - 1)) = IF 1 > last - 1 THEN 0 ELSE (last - 1) - 1 + 1
      BY <3>1, FS_Interval
    <3> QED
      BY <2>3, <3>2
  <2>4. CASE last = 0
    <3>1. UNION {{e} \X spots[e] : e \in 1..last} = {}
      BY <2>4
    <3> QED
      BY <3>1, FS_EmptySet DEF Held
  <2>5. CASE last # 0
    <3>1. Cardinality(Prior(i)) \in Nat /\ Cardinality(Prior(i)) <= last - 1
      BY <2>2, <2>3, <2>5, FS_Subset, FS_CardinalityType
    <3> QED
      BY <2>1, <3>1
  <2> QED
    BY <2>4, <2>5, <2>1
<1>3. ASSUME NEW i \in 1..n, NEW j \in 1..n, i <= j PROVE ser[i] <= ser[j]
  <2>1. Prior(i) \subseteq Prior(j)
    BY <1>1, <1>3
  <2>2. IsFiniteSet(Prior(j)) /\ IsFiniteSet(Prior(i))
    <3>1. IsFiniteSet(1..last)
      BY FS_Interval
    <3>2. Prior(i) \in SUBSET (1..last) /\ Prior(j) \in SUBSET (1..last)
      OBVIOUS
    <3> QED
      BY <3>1, <3>2, FS_Subset
  <2>3. Cardinality(Prior(i)) <= Cardinality(Prior(j))
    BY <2>1, <2>2, FS_Subset
  <2> QED
    BY <1>2, <2>2, <2>3, FS_CardinalityType
<1>4. ser \in Seq(Int) /\ Len(ser) = n
  <2>1. ser = [i \in 1..n |-> 1 + Cardinality(Prior(i))]
    BY DEF Series
  <2>2. \A i \in 1..n : 1 + Cardinality(Prior(i)) \in Int
    BY <1>2
  <2> HIDE DEF ser, n, Prior
  <2> QED
    BY <1>1, <2>1, <2>2
<1> QED
  BY <1>2, <1>3, <1>4 DEF Ordered

\* The rows of an ordered series up to session d are its first ones.
LEMMA KnownIsPrefix ==
    ASSUME NEW series, Ordered(series), NEW d \in Int
    PROVE  \E n \in 0..Len(series) :
             /\ Known(series, d) = SubSeq(series, 1, n)
             /\ \A i \in 1..Len(series) : series[i] <= d <=> i <= n
<1> DEFINE N == Len(series)
           S == {i \in 1..N : series[i] <= d}
           n == Cardinality(S)
<1>1. N \in Nat /\ \A i \in 1..N : series[i] \in Int
  BY DEF Ordered
<1>2. IsFiniteSet(S) /\ n \in 0..N
  <2>1. IsFiniteSet(1..N) /\ Cardinality(1..N) = N /\ S \in SUBSET (1..N)
    BY <1>1, FS_Interval, SMTT(30)
  <2>2. IsFiniteSet(S) /\ n <= N
    BY <2>1, FS_Subset
  <2> QED
    BY <2>2, <1>1, FS_CardinalityType
<1>3. ASSUME NEW i \in 1..N, series[i] <= d PROVE i <= n
  <2>1. 1..i \in SUBSET S
    BY <1>1, <1>3 DEF Ordered
  <2>2. Cardinality(1..i) = i
    BY <1>1, FS_Interval
  <2> QED
    BY <1>2, <2>1, <2>2, FS_Subset
<1>4. ASSUME NEW i \in 1..N, ~(series[i] <= d) PROVE ~(i <= n)
  <2>1. S \in SUBSET (1..(i - 1))
    BY <1>1, <1>4 DEF Ordered
  <2>2. IsFiniteSet(1..(i - 1)) /\ Cardinality(1..(i - 1)) = i - 1
    <3>1. 1 \in Int /\ i - 1 \in Int /\ i >= 1
      BY <1>1
    <3>2. /\ IsFiniteSet(1..(i - 1))
          /\ Cardinality(1..(i - 1)) = IF 1 > i - 1 THEN 0 ELSE (i - 1) - 1 + 1
      BY <3>1, FS_Interval
    <3> QED
      BY <3>1, <3>2
  <2>3. n <= i - 1
    BY <2>1, <2>2, FS_Subset
  <2> QED
    BY <1>1, <1>2, <2>3
<1>5. Known(series, d) = SubSeq(series, 1, n)
  <2>1. DOMAIN series = 1..N
    BY DEF Ordered
  <2> QED
    BY <2>1 DEF Known
<1> HIDE DEF n
<1> QED
  BY <1>2, <1>3, <1>4, <1>5

\* What a calendar vouches for of a return, if there is one: from one session
\* to a later one, and to the next where it calls closed none on the way.
Vouched(cal, span) ==
    cal.known =>
        /\ span[1] < span[2]
        /\ (span[1] + 1 .. span[2]) \cap cal.excused = {} => span[2] = span[1] + 1

LEMMA AdjacentVouched ==
    ASSUME NEW cal, NEW a \in Int, NEW b \in Int, Adjacent(cal, a, b)
    PROVE  Vouched(cal, <<a, b>>)
<1> SUFFICES ASSUME cal.known
             PROVE  /\ a < b
                    /\ (a + 1 .. b) \cap cal.excused = {} => b = a + 1
  BY DEF Vouched
<1>1. Cardinality((a + 1 .. b) \ cal.excused) = 1
  BY DEF Adjacent, SessionsBetween
<1>2. a < b
  <2>1. ~(a < b) => (a + 1 .. b) \ cal.excused = {}
    OBVIOUS
  <2> QED
    BY <1>1, <2>1, FS_EmptySet
<1>3. ASSUME (a + 1 .. b) \cap cal.excused = {} PROVE b = a + 1
  <2>1. (a + 1 .. b) \ cal.excused = a + 1 .. b
    BY <1>3
  <2>2. Cardinality(a + 1 .. b) = IF a + 1 > b THEN 0 ELSE b - (a + 1) + 1
    <3>1. a + 1 \in Int
      OBVIOUS
    <3> QED
      BY <3>1, FS_Interval
  <2>3. Cardinality(a + 1 .. b) = 1
    BY <1>1, <2>1
  <2>4. (IF a + 1 > b THEN 0 ELSE b - (a + 1) + 1) = 1
    BY <2>2, <2>3
  <2> QED
    BY <2>4
<1> QED
  BY <1>2, <1>3

\* realized_variances: one entry per row, a pair of sessions or a null.
LEMMA VariancesOf ==
    ASSUME NEW series, Ordered(series), NEW cal
    PROVE  LET rv == RealizedVariances(series, cal)
               n  == Len(series)
           IN  /\ n \in Nat /\ Len(rv) = n
               /\ \A i \in 1..n : rv[i] =
                    IF i > 1 /\ Adjacent(cal, series[i - 1], series[i])
                    THEN <<series[i - 1], series[i]>> ELSE <<>>
<1> DEFINE n    == Len(series)
           r(i) == IF i > 1 /\ Adjacent(cal, series[i - 1], series[i])
                   THEN <<series[i - 1], series[i]>> ELSE <<>>
           T    == {r(i) : i \in 1..n}
<1>1. n \in Nat /\ DOMAIN series = 1..n
  BY DEF Ordered
<1>2. RealizedVariances(series, cal) = [i \in 1..n |-> r(i)]
  BY <1>1 DEF RealizedVariances
<1>3. \A i \in 1..n : r(i) \in T
  OBVIOUS
<1> HIDE DEF r, T
<1>4. [i \in 1..n |-> r(i)] \in Seq(T) /\ Len([i \in 1..n |-> r(i)]) = n
  BY <1>1, <1>3
<1>5. \A i \in 1..n : RealizedVariances(series, cal)[i] = r(i)
  BY <1>2
<1> QED
  BY <1>1, <1>2, <1>4, <1>5 DEF r

\* A window that ends by row i spans returns the calendar vouches for, none
\* that ends after row i.
LEMMA SpanHonest ==
    ASSUME NEW series, Ordered(series), NEW cal, NEW from \in Int, NEW to \in Int,
           NEW i \in 1..Len(series), to <= i,
           NEW span \in Span(RealizedVariances(series, cal), from, to)
    PROVE  Vouched(cal, span) /\ span[2] <= series[i]
<1> DEFINE rv == RealizedVariances(series, cal)
           n  == Len(series)
<1>1. /\ n \in Nat /\ Len(rv) = n
      /\ \A k \in 1..n : rv[k] = IF k > 1 /\ Adjacent(cal, series[k - 1], series[k])
                                 THEN <<series[k - 1], series[k]>> ELSE <<>>
  BY VariancesOf
<1> HIDE DEF rv
<1>2. /\ from >= 1 /\ to <= Len(rv) /\ \A k \in from..to : rv[k] # <<>>
      /\ \E k \in from..to : span = rv[k]
  BY DEF Span, rv
<1>3. PICK k \in from..to : span = rv[k]
  BY <1>2
<1>4. k \in 1..n /\ k <= i /\ rv[k] # <<>>
  BY <1>1, <1>2, <1>3
<1>5. /\ k > 1 /\ Adjacent(cal, series[k - 1], series[k])
      /\ span = <<series[k - 1], series[k]>>
  BY <1>1, <1>3, <1>4
<1>6. series[k] <= series[i] /\ series[k - 1] \in Int /\ series[k] \in Int
  BY <1>1, <1>4, <1>5 DEF Ordered
<1>7. Vouched(cal, <<series[k - 1], series[k]>>)
  BY <1>5, <1>6, AdjacentVouched
<1> QED
  BY <1>5, <1>6, <1>7

\* Whatever a row rests on, training windows included, ended by its origin.
LEMMA ForecastHonest ==
    ASSUME NEW series, Ordered(series), NEW d, NEW cal \in Calendar,
           NEW f \in ForecastRows(series, d, cal), NEW span \in f.used
    PROVE  Vouched(f.under, span) /\ span[2] <= d
<1> DEFINE rv == RealizedVariances(series, cal)
<1>1. PICK o \in Horizons \X DOMAIN series :
        /\ series[o[2]] = d
        /\ f = [horizon |-> o[1], used |-> Used(rv, o[2], o[1]), under |-> Answered(cal)]
  BY DEF ForecastRows
<1>0. Vouched(cal, span) => Vouched(f.under, span)
  <2>1. f.under = Answered(cal)
    BY <1>1
  <2> QED
    BY <2>1, CalendarIs DEF Vouched
<1>2. /\ o[1] \in Nat /\ o[2] \in 1..Len(series) /\ Len(series) \in Nat
      /\ Windows \subseteq Nat
  <2> HIDE DEF rv
  <2>1. DOMAIN series = 1..Len(series) /\ Len(series) \in Nat
    BY DEF Ordered
  <2>2. o[1] \in Horizons /\ o[2] \in DOMAIN series
    OBVIOUS
  <2>3. Horizons \subseteq Nat /\ Windows \subseteq Nat
    BY DerivedAssumption
  <2> QED
    BY <2>1, <2>2, <2>3
<1>3. span \in Used(rv, o[2], o[1])
  BY <1>1
<1>4. \A j \in Train(rv, o[2], o[1]) : j \in Int /\ j + o[1] <= o[2]
  BY <1>2 DEF Train
<1>5. CASE \E j \in Train(rv, o[2], o[1]) : span \in Span(rv, j + 1, j + o[1])
  <2>1. PICK j \in Train(rv, o[2], o[1]) : span \in Span(rv, j + 1, j + o[1])
    BY <1>5
  <2>2. j + 1 \in Int /\ j + o[1] \in Int /\ j + o[1] <= o[2]
    BY <1>2, <1>4
  <2> QED
    BY <1>0, <1>1, <1>2, <2>1, <2>2, SpanHonest
<1>6. CASE \E j \in Train(rv, o[2], o[1]) \cup {o[2]}, w \in Windows :
             span \in Span(rv, j - w + 1, j)
  <2>1. PICK j \in Train(rv, o[2], o[1]) \cup {o[2]}, w \in Windows :
               span \in Span(rv, j - w + 1, j)
    BY <1>6
  <2>2. j - w + 1 \in Int /\ j \in Int /\ j <= o[2]
    BY <1>2, <1>4
  <2> QED
    BY <1>0, <1>1, <1>2, <2>1, <2>2, SpanHonest
<1> DEFINE Past   == {Span(rv, j - w + 1, j) :
                        j \in Train(rv, o[2], o[1]) \cup {o[2]}, w \in Windows}
           Future == {Span(rv, j + 1, j + o[1]) : j \in Train(rv, o[2], o[1])}
<1>7. Used(rv, o[2], o[1]) = (UNION Past) \cup (UNION Future)
  BY DEF Used
<1>8. (\E T \in Past : span \in T) \/ (\E T \in Future : span \in T)
  <2> HIDE DEF Past, Future
  <2> QED
    BY <1>3, <1>7
<1> QED
  BY <1>5, <1>6, <1>8

\* Windows that end within the first n rows see those rows alone.
LEMMA SpanPrefix ==
    ASSUME NEW series, Ordered(series), NEW cal, NEW n \in 0..Len(series),
           NEW from \in Int, NEW to \in Int, to <= n
    PROVE  /\ Ordered(SubSeq(series, 1, n)) /\ Len(SubSeq(series, 1, n)) = n
           /\ \A i \in 1..n : SubSeq(series, 1, n)[i] = series[i]
           /\ Span(RealizedVariances(SubSeq(series, 1, n), cal), from, to)
                = Span(RealizedVariances(series, cal), from, to)
<1> DEFINE t  == SubSeq(series, 1, n)
           rs == RealizedVariances(series, cal)
           rt == RealizedVariances(t, cal)
<1>1. series \in Seq(Int) /\ Len(series) \in Nat /\ n \in Nat /\ n <= Len(series)
  BY DEF Ordered
<1>2. t \in Seq(Int) /\ Len(t) = n /\ \A i \in 1..n : t[i] = series[i]
  BY <1>1
<1>3. Ordered(t)
  BY <1>1, <1>2, SMTT(30) DEF Ordered
<1>4. /\ Len(rs) = Len(series)
      /\ \A k \in 1..Len(series) : rs[k] = IF k > 1 /\ Adjacent(cal, series[k - 1], series[k])
                                 THEN <<series[k - 1], series[k]>> ELSE <<>>
  BY VariancesOf
<1>5. /\ Len(rt) = n
      /\ \A k \in 1..n : rt[k] = IF k > 1 /\ Adjacent(cal, t[k - 1], t[k])
                                 THEN <<t[k - 1], t[k]>> ELSE <<>>
  BY <1>2, <1>3, VariancesOf
<1> HIDE DEF t, rs, rt
<1>6. ASSUME NEW k \in 1..n PROVE rt[k] = rs[k]
  <2>1. k \in 1..Len(series) /\ t[k] = series[k]
    BY <1>1, <1>2
  <2>2. k > 1 => t[k - 1] = series[k - 1]
    BY <1>1, <1>2
  <2> QED
    BY <1>4, <1>5, <2>1, <2>2
<1>7. Span(rt, from, to) = Span(rs, from, to)
  <2>1. to <= Len(rt) /\ to <= Len(rs)
    BY <1>1, <1>4, <1>5
  <2>2. from >= 1 => \A k \in from..to : rt[k] = rs[k]
    BY <1>1, <1>6
  <2>3. CASE from >= 1
    <3>1. (\A k \in from..to : rt[k] # <<>>) <=> (\A k \in from..to : rs[k] # <<>>)
      BY <2>2, <2>3
    <3>2. {rt[k] : k \in from..to} = {rs[k] : k \in from..to}
      BY <2>2, <2>3
    <3> QED
      BY <2>1, <2>3, <3>1, <3>2 DEF Span
  <2>4. CASE ~(from >= 1)
    BY <2>4 DEF Span
  <2> QED
    BY <2>3, <2>4
<1> QED
  BY <1>2, <1>3, <1>7 DEF t, rs, rt

\* Later rows change no row of an origin they come after: what is fitted there
\* looks at the rows up to the origin alone.
LEMMA FitIsPointInTime ==
    ASSUME NEW series, Ordered(series), NEW d \in Int, NEW cal
    PROVE  ForecastRows(series, d, cal) = ForecastRows(Known(series, d), d, cal)
<1>1. PICK n \in 0..Len(series) :
        /\ Known(series, d) = SubSeq(series, 1, n)
        /\ \A i \in 1..Len(series) : series[i] <= d <=> i <= n
  BY KnownIsPrefix
<1> DEFINE t  == Known(series, d)
           rs == RealizedVariances(series, cal)
           rt == RealizedVariances(t, cal)
<1>2. Len(series) \in Nat /\ DOMAIN series = 1..Len(series) /\ n \in Nat
  BY DEF Ordered
<1>3. /\ Ordered(t) /\ Len(t) = n /\ \A i \in 1..n : t[i] = series[i]
      /\ \A from, to \in Int : to <= n => Span(rt, from, to) = Span(rs, from, to)
  <2>1. ASSUME NEW from \in Int, NEW to \in Int, to <= n
        PROVE  /\ Ordered(t) /\ Len(t) = n /\ \A i \in 1..n : t[i] = series[i]
               /\ Span(rt, from, to) = Span(rs, from, to)
    <3>1. /\ Ordered(SubSeq(series, 1, n)) /\ Len(SubSeq(series, 1, n)) = n
          /\ \A i \in 1..n : SubSeq(series, 1, n)[i] = series[i]
          /\ Span(RealizedVariances(SubSeq(series, 1, n), cal), from, to)
               = Span(RealizedVariances(series, cal), from, to)
      BY <2>1, SpanPrefix
    <3>2. t = SubSeq(series, 1, n)
      BY <1>1
    <3> HIDE DEF t
    <3> QED
      BY <3>1, <3>2, ZenonT(40)
  <2>2. 0 \in Int /\ 0 <= n
    BY <1>2
  <2> HIDE DEF t, rs, rt
  <2> QED
    BY <2>1, <2>2
<1>4. DOMAIN t = 1..n /\ Len(rt) = n /\ Len(rs) = Len(series)
  <2>1. ASSUME NEW x, Ordered(x) PROVE x \in Seq(Int) /\ Len(RealizedVariances(x, cal)) = Len(x)
    <3>1. x \in Seq(Int)
      BY <2>1 DEF Ordered
    <3>2. Len(RealizedVariances(x, cal)) = Len(x)
      BY <2>1, VariancesOf
    <3> QED
      BY <3>1, <3>2
  <2>2. t \in Seq(Int) /\ Len(t) = n /\ Len(rt) = Len(t)
    <3>1. Ordered(t) /\ Len(t) = n
      BY <1>3
    <3> HIDE DEF t
    <3> QED
      BY <2>1, <3>1
  <2>3. Len(rs) = Len(series)
    BY <2>1
  <2> HIDE DEF t, rs, rt
  <2> QED
    BY <2>2, <2>3
<1>5. Windows \subseteq Nat /\ Horizons \subseteq Nat
  BY DerivedAssumption
<1> HIDE DEF t, rs, rt
<1>6. ASSUME NEW j \in 1..n PROVE HarFeatures(rs, j) <=> HarFeatures(rt, j)
  <2>1. \A w \in Windows : j - w + 1 \in Int /\ j \in Int /\ j <= n
    BY <1>2, <1>5
  <2> QED
    BY <1>3, <2>1 DEF HarFeatures, Moved
<1>7. ASSUME NEW i \in 1..n, NEW h \in Horizons
      PROVE  Train(rs, i, h) = Train(rt, i, h) /\ Train(rs, i, h) \subseteq 1..n
  <2>1. ASSUME NEW j \in 1..Len(series), j + h <= i
        PROVE  j \in 1..n /\ (Target(rs, j, h) <=> Target(rt, j, h))
    <3>1. j + 1 \in Int /\ j + h \in Int /\ j + h <= n /\ j \in 1..n
      BY <1>2, <1>5, <2>1
    <3> QED
      BY <1>3, <3>1 DEF Target, Moved
  <2>2. 1..n \subseteq 1..Len(series)
    BY <1>2
  <2> QED
    BY <1>4, <1>6, <2>1, <2>2 DEF Train
<1>8. ASSUME NEW i \in 1..n, NEW h \in Horizons PROVE Used(rs, i, h) = Used(rt, i, h)
  <2> DEFINE T == Train(rs, i, h)
  <2>1. T = Train(rt, i, h) /\ T \subseteq 1..n /\ \A j \in T : j + h <= n
    <3>1. \A j \in T : j + h <= i /\ j \in Int
      BY <1>2 DEF Train
    <3> QED
      BY <1>2, <1>5, <1>7, <3>1
  <2> HIDE DEF T
  <2>2. \A j \in T \cup {i}, w \in Windows :
          Span(rs, j - w + 1, j) = Span(rt, j - w + 1, j)
    <3>1. \A j \in T \cup {i}, w \in Windows : j - w + 1 \in Int /\ j \in Int /\ j <= n
      BY <1>2, <1>5, <2>1
    <3> QED
      BY <1>3, <3>1
  <2>3. \A j \in T : Span(rs, j + 1, j + h) = Span(rt, j + 1, j + h)
    <3>1. \A j \in T : j + 1 \in Int /\ j + h \in Int
      BY <1>2, <1>5, <2>1
    <3> QED
      BY <1>3, <2>1, <3>1
  <2> DEFINE Past(r, U)   == {Span(r, j - w + 1, j) : j \in U \cup {i}, w \in Windows}
             Future(r, U) == {Span(r, j + 1, j + h) : j \in U}
  <2>4. Past(rs, T) = Past(rt, T)
    <3>1. ASSUME NEW x \in Past(rs, T) PROVE x \in Past(rt, T)
      BY <2>2
    <3>2. ASSUME NEW x \in Past(rt, T) PROVE x \in Past(rs, T)
      BY <2>2
    <3> HIDE DEF Past
    <3> QED
      BY <3>1, <3>2
  <2>5. Future(rs, T) = Future(rt, T)
    BY <2>3
  <2>6. /\ Used(rs, i, h) = (UNION Past(rs, T)) \cup (UNION Future(rs, T))
        /\ Used(rt, i, h) = (UNION Past(rt, Train(rt, i, h)))
                              \cup (UNION Future(rt, Train(rt, i, h)))
    BY DEF Used, T
  <2> HIDE DEF Past, Future
  <2> QED
    BY <2>1, <2>4, <2>5, <2>6
<1> DEFINE Origin(s, rv, o) == /\ s[o[2]] = d
                               /\ HarFeatures(rv, o[2])
                               /\ Cardinality(Train(rv, o[2], o[1])) >= MinTrain
<1>9. {o \in Horizons \X DOMAIN series : Origin(series, rs, o)}
        = {o \in Horizons \X DOMAIN t : Origin(t, rt, o)}
  <2>1. ASSUME NEW o \in Horizons \X (1..n) PROVE Origin(series, rs, o) <=> Origin(t, rt, o)
    <3>1. /\ o[1] \in Horizons /\ o[2] \in 1..n
      OBVIOUS
    <3>2. /\ series[o[2]] = t[o[2]]
          /\ HarFeatures(rs, o[2]) <=> HarFeatures(rt, o[2])
          /\ Train(rs, o[2], o[1]) = Train(rt, o[2], o[1])
      BY <1>3, <1>6, <1>7, <3>1
    <3> QED
      BY <3>2
  <2>2. \A o \in Horizons \X DOMAIN series : Origin(series, rs, o) => o[2] \in 1..n
    BY <1>1, <1>2
  <2>3. 1..n \subseteq 1..Len(series)
    BY <1>2
  <2>4. DOMAIN series = 1..Len(series) /\ DOMAIN t = 1..n
    BY <1>2, <1>4
  <2>5. ASSUME NEW o \in Horizons \X (1..Len(series)), o[2] \in 1..n
        PROVE  o \in Horizons \X (1..n)
    BY <2>5
  <2>6. Horizons \X (1..n) \subseteq Horizons \X (1..Len(series))
    BY <2>3
  <2> HIDE DEF Origin
  <2> QED
    BY <2>1, <2>2, <2>4, <2>5, <2>6
<1> DEFINE O == {o \in Horizons \X DOMAIN t : Origin(t, rt, o)}
<1>10. \A o \in O : Used(rs, o[2], o[1]) = Used(rt, o[2], o[1])
  BY <1>4, <1>8
<1>11. /\ ForecastRows(series, d, cal)
            = {[horizon |-> o[1], used |-> Used(rs, o[2], o[1]),
                under |-> Answered(cal)] : o \in O}
       /\ ForecastRows(t, d, cal)
            = {[horizon |-> o[1], used |-> Used(rt, o[2], o[1]),
                under |-> Answered(cal)] : o \in O}
  BY <1>9 DEF ForecastRows, rs, rt
<1> HIDE DEF O
<1> QED
  BY <1>10, <1>11 DEF t

(***************************************************************************)
(* From the operators to the runs: every series fitted is an ordered one,  *)
(* so what a run is about to write is honest, and then what is written.    *)
(***************************************************************************)

Countable == \A st \in Stages, d \in Sessions : IsFiniteSet(part[st][d])

FitsOrdered == Ordered(pass.fits)

HonestRows(rows, d) ==
    \A r \in rows : \A span \in r.used : Vouched(r.under, span) /\ span[2] <= d

ProcsHonest == \A p \in Procs :
    proc[p].st = "rv_forecast" => HonestRows(proc[p].rows, proc[p].d)

ForecastInv == Countable /\ FitsOrdered /\ ProcsHonest /\ HonestReturns

LEMMA EmptyOrdered == Ordered(<<>>)
  BY DEF Ordered

LEMMA ForecastInit == Init => ForecastInv
<1> SUFFICES ASSUME Init PROVE ForecastInv
  OBVIOUS
<1>1. PICK old \in Chains :
        part = [st \in Stages |-> [d \in Sessions |->
            IF d < FirstDaily THEN Landed(st, old) ELSE {}]]
  BY DEF Init
<1>2. ASSUME NEW st \in Stages PROVE IsFiniteSet(Landed(st, old))
  <2>1. \E f : Landed(st, old) \subseteq {f}
    BY DEF Landed
  <2>2. PICK f : Landed(st, old) \in SUBSET {f}
    BY <2>1
  <2> QED
    BY <2>2, FS_Singleton, FS_Subset
<1>3. Countable
  BY <1>1, <1>2, FS_EmptySet DEF Countable
<1>4. Landed("rv_forecast", old) = {} /\ "rv_forecast" \in Stages
  BY DEF Landed, Stages
<1>5. HonestReturns
  BY <1>1, <1>4 DEF HonestReturns
<1>6. FitsOrdered
  BY EmptyOrdered DEF Init, NoPass, FitsOrdered
<1>7. ProcsHonest
  BY DEF Init, Off, ProcsHonest
<1> QED
  BY <1>3, <1>5, <1>6, <1>7 DEF ForecastInv

\* The spots up to any session give an ordered series.
LEMMA SpotsOrdered ==
    ASSUME Countable, NEW d \in Sessions
    PROVE  Ordered(Series(part["spy_spot"], d))
<1>1. "spy_spot" \in Stages /\ d \in Nat /\ 1..d \subseteq Sessions
  BY DerivedAssumption DEF Stages, Sessions
<1>2. \A e \in 1..d : IsFiniteSet(part["spy_spot"][e])
  BY <1>1 DEF Countable
<1> QED
  BY <1>1, <1>2, SeriesOrdered

LEMMA ReadyHas ==
    ASSUME NEW st, NEW d, NEW rows
    PROVE  /\ Ready(st, d, rows).st = st /\ Ready(st, d, rows).d = d
           /\ Ready(st, d, rows).rows = rows
<1>1. PICK w : w = [Off EXCEPT !.at = "ready", !.st = st, !.d = d, !.rows = rows]
  OBVIOUS
<1>2. w = [at |-> "ready", st |-> st, d |-> d, rows |-> rows,
           prior |-> {}, id |-> 0, alone |-> FALSE]
  BY <1>1 DEF Off
<1>3. w = Ready(st, d, rows)
  BY <1>1 DEF Ready
<1> QED
  BY <1>2, <1>3

\* A process that turns to honest rows, or goes off, leaves all of them honest.
LEMMA TurnsHonest ==
    ASSUME Typed, ProcsHonest, NEW p \in Procs, NEW st \in Stages, NEW d \in Sessions,
           NEW rows, st = "rv_forecast" => HonestRows(rows, d),
           proc' \in {proc, [proc EXCEPT ![p] = Ready(st, d, rows)]}
    PROVE  ProcsHonest'
<1>1. CASE proc' = proc
  BY <1>1 DEF ProcsHonest
<1>2. CASE proc' = [proc EXCEPT ![p] = Ready(st, d, rows)]
  <2>1. /\ proc'[p] = Ready(st, d, rows)
        /\ \A q \in Procs \ {p} : proc'[q] = proc[q]
    BY <1>2, SetProc DEF Typed
  <2>2. proc'[p].st = st /\ proc'[p].d = d /\ proc'[p].rows = rows
    BY <2>1, ReadyHas
  <2> QED
    BY <2>1, <2>2 DEF ProcsHonest
<1> QED
  BY <1>1, <1>2

\* The rows of a partition after a step were there or are those of the writer.
LEMMA WrittenHonest ==
    ASSUME Typed, HonestReturns, ProcsHonest,
           \A d \in Sessions : \A g \in part'["rv_forecast"][d] :
              \/ \E f \in part["rv_forecast"][d] : g.rows = f.rows
              \/ \E p \in Procs : /\ proc[p].st = "rv_forecast" /\ proc[p].d = d
                                  /\ g.rows = proc[p].rows
    PROVE  HonestReturns'
<1>1. HonestReturns <=> \A d \in Sessions : \A f \in part["rv_forecast"][d] :
                            HonestRows(f.rows, d)
  BY DEF HonestReturns, HonestRows, Vouched
<1>2. HonestReturns' <=> \A d \in Sessions : \A f \in part'["rv_forecast"][d] :
                            HonestRows(f.rows, d)
  BY DEF HonestReturns, HonestRows, Vouched
<1> QED
  BY <1>1, <1>2 DEF ProcsHonest

\* A daily run fits the spots up to its session.
LEMMA DailyForecast ==
    ASSUME Typed, ForecastInv, NEW st \in Stages, RunDaily(st)
    PROVE  ForecastInv'
<1>1. /\ UNCHANGED <<part, pass>> /\ yesterday \in Sessions /\ st \in Procs
      /\ yesterday \in Sessions
  BY DEF RunDaily, archive, Typed, RestTyped, Procs
<1>2. PICK cal \in IF st = "rv_forecast" THEN Calendars ELSE {NoCalendar} :
        LET rows == Build(st, yesterday, cal) IN
        proc' = IF rows = {} THEN proc
                ELSE [proc EXCEPT ![st] = Ready(st, yesterday, rows)]
  BY DEF RunDaily
<1>3. cal \in Calendar
  BY <1>2, CalendarIs
<1>4. PICK rows : rows = Build(st, yesterday, cal)
  OBVIOUS
<1>5. proc' \in {proc, [proc EXCEPT ![st] = Ready(st, yesterday, rows)]}
  BY <1>2, <1>4
<1>6. ASSUME st = "rv_forecast" PROVE HonestRows(rows, yesterday)
  <2>1. Build(st, yesterday, cal) = BuildForecast(yesterday, cal)
    BY <1>6 DEF Build
  <2>2. BuildForecast(yesterday, cal) \subseteq
          ForecastRows(Series(part["spy_spot"], yesterday), yesterday, cal)
    BY DEF BuildForecast
  <2>3. Ordered(Series(part["spy_spot"], yesterday))
    BY <1>1, SpotsOrdered DEF ForecastInv
  <2> QED
    BY <1>3, <1>4, <2>1, <2>2, <2>3, ForecastHonest DEF HonestRows
<1>7. ProcsHonest'
  BY <1>1, <1>5, <1>6, TurnsHonest DEF ForecastInv
<1> QED
  BY <1>1, <1>7 DEF ForecastInv, Countable, FitsOrdered, HonestReturns

\* An archive pass fits the series it read when it started.
LEMMA PassForecast == ASSUME Typed, ForecastInv, NextOfPass PROVE ForecastInv'
<1>1. PICK d \in pass.todo :
        /\ LET rows == IF pass.st = "rv_forecast" THEN ForecastRows(pass.fits, d, pass.under)
                       ELSE Build(pass.st, d, pass.under)
           IN proc' \in {proc, [proc EXCEPT !["archive"] = Ready(pass.st, d, rows)]}
        /\ pass' = [pass EXCEPT !.todo = @ \ {d}]
        /\ part' = part
  BY DEF NextOfPass
<1>2. /\ d \in Sessions /\ pass.st \in Stages /\ "archive" \in Procs
      /\ Ordered(pass.fits) /\ pass.under \in Calendar
  BY DEF Typed, PassTyped, Procs, ForecastInv, FitsOrdered
<1>3. pass'.fits = pass.fits
  BY <1>1 DEF Typed, PassTyped
<1>4. ProcsHonest'
  <2>1. PICK st \in Stages : st = pass.st
    BY <1>2
  <2>2. PICK rows :
          /\ st = "rv_forecast" => rows = ForecastRows(pass.fits, d, pass.under)
          /\ proc' \in {proc, [proc EXCEPT !["archive"] = Ready(st, d, rows)]}
    BY <1>1, <2>1
  <2>3. st = "rv_forecast" => HonestRows(rows, d)
    BY <1>2, <2>2, ForecastHonest DEF HonestRows
  <2> QED
    BY <1>2, <2>2, <2>3, TurnsHonest DEF ForecastInv
<1> QED
  BY <1>1, <1>3, <1>4 DEF ForecastInv, Countable, FitsOrdered, HonestReturns

\* A pass starts with an ordered series, or none.
LEMMA QuietForecast ==
    ASSUME Typed, ForecastInv, part' = part, proc' = proc,
           \/ UNCHANGED pass \/ StartWalk \/ StartFit \/ EndPass
    PROVE  ForecastInv'
<1>1. ProcsHonest'
  BY DEF ForecastInv, ProcsHonest
<1>2. FitsOrdered'
  <2>1. CASE UNCHANGED pass
    BY <2>1 DEF ForecastInv, FitsOrdered
  <2>2. CASE StartWalk
    <3>1. pass'.fits = <<>>
      BY <2>2 DEF StartWalk
    <3> QED
      BY <3>1, EmptyOrdered DEF FitsOrdered
  <2>3. CASE StartFit
    <3>1. PICK fits : fits = Series(part["spy_spot"], yesterday)
      OBVIOUS
    <3>2. PICK force, todo, under :
            pass' = [st |-> "rv_forecast", force |-> force, todo |-> todo, fits |-> fits,
                     under |-> under]
      BY <2>3, <3>1 DEF StartFit
    <3>3. Ordered(fits)
      BY <3>1, SpotsOrdered DEF ForecastInv, Typed, RestTyped
    <3> QED
      BY <3>2, <3>3 DEF FitsOrdered
  <2>4. CASE EndPass
    BY <2>4, EmptyOrdered DEF EndPass, NoPass, FitsOrdered
  <2> QED
    BY <2>1, <2>2, <2>3, <2>4
<1> QED
  BY <1>1, <1>2 DEF ForecastInv, Countable, HonestReturns

\* A writer writes the rows it was given.
LEMMA WriteForecast ==
    ASSUME Typed, ForecastInv, NEW p \in Procs,
           Snapshot(p) \/ Open(p) \/ Finish(p) \/ Retire(p)
    PROVE  ForecastInv'
<1>1. UNCHANGED pass /\ "rv_forecast" \in Stages
  BY DEF Snapshot, Open, Finish, Retire, archive, Stages
<1>2. \A q \in Procs : /\ proc'[q].st = proc[q].st /\ proc'[q].d = proc[q].d
                       /\ proc'[q].rows = proc[q].rows
  <2>1. CASE Snapshot(p)
    BY <2>1, SnapshotEffect
  <2>2. CASE Open(p)
    BY <2>2, OpenEffect
  <2>3. CASE Finish(p)
    BY <2>3, FinishEffect
  <2>4. CASE Retire(p)
    BY <2>4, RetireEffect
  <2> QED
    BY <2>1, <2>2, <2>3, <2>4
<1>3. ProcsHonest'
  BY <1>2 DEF ForecastInv, ProcsHonest
<1>4. CASE Snapshot(p)
  <2>1. part' = part
    BY <1>4, SnapshotEffect
  <2> QED
    BY <1>1, <1>3, <2>1 DEF ForecastInv, Countable, FitsOrdered, HonestReturns
<1>5. CASE Open(p)
  <2> DEFINE w == proc[p]
             f == [id |-> proc'[p].id, whole |-> FALSE, rows |-> w.rows]
  <2>1. \A s \in Stages, e \in Sessions :
          part'[s][e] = IF s = w.st /\ e = w.d THEN part[s][e] \cup {f} ELSE part[s][e]
    BY <1>5, OpenFiles
  <2>2. f.rows = w.rows
    OBVIOUS
  <2> HIDE DEF f, w
  <2>3. Countable'
    <3> SUFFICES ASSUME NEW s \in Stages, NEW e \in Sessions
                 PROVE  IsFiniteSet(part'[s][e])
      BY DEF Countable
    <3>1. IsFiniteSet(part[s][e])
      BY DEF ForecastInv, Countable
    <3>2. IsFiniteSet(part[s][e] \cup {f})
      BY <3>1, FS_AddElement
    <3> QED
      BY <2>1, <3>1, <3>2
  <2>4. HonestReturns'
    <3>1. \A d \in Sessions : \A g \in part'["rv_forecast"][d] :
            \/ g \in part["rv_forecast"][d]
            \/ w.st = "rv_forecast" /\ w.d = d /\ g.rows = w.rows
      BY <1>1, <2>1, <2>2, ZenonT(40)
    <3> QED
      BY <3>1, WrittenHonest DEF ForecastInv, w
  <2> QED
    BY <1>1, <1>3, <2>3, <2>4 DEF ForecastInv, FitsOrdered
<1>6. CASE Finish(p)
  <2> DEFINE w == proc[p]
             Done(f) == IF f.id = w.id THEN [f EXCEPT !.whole = TRUE] ELSE f
  <2>1. ASSUME NEW s \in Stages, NEW e \in Sessions PROVE IsFiniteSet(part'[s][e])
    <3>1. IsFiniteSet(part[s][e])
      BY DEF ForecastInv, Countable
    <3>2. CASE ~(s = w.st /\ e = w.d)
      BY <1>6, <3>1, <3>2, FinishFiles
    <3>3. CASE s = w.st /\ e = w.d
      <4>1. part' = [part EXCEPT ![w.st][w.d] =
                        {IF f.id = w.id THEN [f EXCEPT !.whole = TRUE] ELSE f : f \in @}]
        BY <1>6, FinishEffect
      <4>2. PICK new : new = {Done(f) : f \in part[w.st][w.d]}
        OBVIOUS
      <4>3. part' = Put(part, w.st, w.d, new)
        BY <4>1, <4>2 DEF Put
      <4>4. part'[s][e] = new
        BY <3>3, <4>3, Update DEF Typed, PartTyped
      <4>5. [f \in part[s][e] |-> Done(f)] \in Surjection(part[s][e], new)
        BY <3>3, <4>2 DEF Surjection
      <4> QED
        BY <3>1, <4>4, <4>5, FS_Surjection
    <3> QED
      BY <3>2, <3>3
  <2>2. \A d \in Sessions : \A g \in part'["rv_forecast"][d] :
          \E f \in part["rv_forecast"][d] : g.rows = f.rows
    BY <1>1, <1>6, FinishFiles
  <2> QED
    BY <1>1, <1>3, <2>1, <2>2, WrittenHonest DEF ForecastInv, Countable, FitsOrdered
<1>7. CASE Retire(p)
  <2> DEFINE w == proc[p]
  <2>1. \A s \in Stages, e \in Sessions : part'[s][e] \in SUBSET part[s][e]
    <3>1. PICK id \in w.prior :
             /\ proc'[p].prior = w.prior \ {id}
             /\ Shaped(part')
             /\ \A s \in Stages, e \in Sessions :
                  part'[s][e] = IF s = w.st /\ e = w.d
                                THEN {f \in part[s][e] : f.id # id} ELSE part[s][e]
      BY <1>7, RetireFiles
    <3> QED
      BY <3>1
  <2>2. Countable'
    BY <2>1, FS_Subset DEF ForecastInv, Countable
  <2>3. HonestReturns'
    BY <1>1, <2>1 DEF ForecastInv, HonestReturns
  <2> QED
    BY <1>1, <1>3, <2>2, <2>3 DEF ForecastInv, FitsOrdered
<1> QED
  BY <1>4, <1>5, <1>6, <1>7

LEMMA ForecastStep == Typed /\ ForecastInv /\ [Next]_vars => ForecastInv'
<1> SUFFICES ASSUME Typed, ForecastInv, [Next]_vars PROVE ForecastInv'
  OBVIOUS
<1>1. ASSUME NEW p \in Procs, Exit(p) \/ Kill(p) PROVE ForecastInv'
  <2>1. part' = part /\ proc' = [proc EXCEPT ![p] = Off] /\ pass' \in {pass, NoPass}
    BY <1>1 DEF Exit, Kill, archive
  <2>2. proc'[p] = Off /\ \A q \in Procs \ {p} : proc'[q] = proc[q]
    BY <2>1, SetProc DEF Typed
  <2>3. Off.st # "rv_forecast" /\ NoPass.fits = <<>>
    BY DEF Off, NoPass
  <2>4. FitsOrdered'
    BY <2>1, <2>3, EmptyOrdered DEF ForecastInv, FitsOrdered
  <2> QED
    BY <2>1, <2>2, <2>3, <2>4 DEF ForecastInv, Countable, ProcsHonest, HonestReturns
<1>2. ASSUME \/ \E d \in FirstDaily..yesterday : Land(d)
             \/ Tomorrow \/ (\E st \in Stages : Timer(st)) \/ UNCHANGED vars
      PROVE  ForecastInv'
  <2>1. part' = part /\ proc' = proc
    BY <1>2, QuietTyped
  <2>2. UNCHANGED pass
    BY <1>2 DEF Land, Tomorrow, Timer, vars, archive
  <2> QED
    BY <2>1, <2>2, QuietForecast
<1>3. ASSUME StartWalk \/ StartFit \/ EndPass PROVE ForecastInv'
  BY <1>3, QuietTyped, QuietForecast
<1> QED
  BY <1>1, <1>2, <1>3, DailyForecast, PassForecast, WriteForecast DEF Next

LEMMA ForecastInvariance == Spec => [](Typed /\ ForecastInv)
<1>1. Init => Typed /\ ForecastInv
  BY TypedInit, ForecastInit
<1>2. (Typed /\ ForecastInv) /\ [Next]_vars => (Typed /\ ForecastInv)'
  BY TypedStep, ForecastStep
<1> QED
  BY <1>1, <1>2, PTL DEF Spec

\* No row of rv_forecast, from the daily job or from an archive pass, rests on
\* a return that ended after the row's origin; none fitted under a calendar on a
\* return of a session with itself, or on one that spans a missing session, unless
\* that calendar calls closed a session the return reaches over or ends on.
\* (realized_variances, forecast_rows)
THEOREM ReturnsAreHonest == Spec => []HonestReturns
<1>1. ForecastInv => HonestReturns
  BY DEF ForecastInv
<1> QED
  BY <1>1, ForecastInvariance, PTL

\* The forecasts an archive pass fits with the whole history at hand are those
\* fitted on the rows up to each origin.  (build_for_date, the walk-forward fit)
THEOREM ForecastsArePointInTime == Spec => []PointInTime
<1>1. ForecastInv => PointInTime
  <2> SUFFICES ASSUME ForecastInv, NEW i \in DOMAIN pass.fits
               PROVE  ForecastRows(pass.fits, pass.fits[i], pass.under)
                        = ForecastRows(Known(pass.fits, pass.fits[i]), pass.fits[i],
                                       pass.under)
    BY DEF PointInTime
  <2>1. Ordered(pass.fits) /\ pass.fits[i] \in Int
    BY DEF ForecastInv, FitsOrdered, Ordered
  <2> QED
    BY <2>1, FitIsPointInTime
<1> QED
  BY <1>1, ForecastInvariance, PTL

\* The rows of a longer series up to a session are the series the daily job of
\* that session reads.  (read_series with and without on_or_before)
LEMMA KnownIsDaily ==
    ASSUME NEW spots, NEW last \in Nat, NEW d \in 1..last,
           \A e \in 1..last : IsFiniteSet(spots[e])
    PROVE  Known(Series(spots, last), d) = Series(spots, d)
<1> DEFINE ser       == Series(spots, last)
           N         == Held(spots, last)
           m         == Held(spots, d)
           Prior(i)  == {e \in 1..last : Held(spots, e) < i}
<1>1. /\ Ordered(ser) /\ Len(ser) = N
      /\ \A e \in 1..last : Held(spots, e) \in Nat
      /\ \A e, f \in 1..last : e <= f => Held(spots, e) <= Held(spots, f)
  <2>1. Ordered(ser) /\ Len(ser) = N
    BY SeriesOrdered
  <2>2. ASSUME NEW e \in 1..last PROVE Held(spots, e) \in Nat
    <3>1. e \in Int /\ \A x \in 1..e : IsFiniteSet(spots[x])
      OBVIOUS
    <3> HIDE DEF ser, N, m, Prior
    <3> QED
      BY <3>1, HeldCounts, Zenon
  <2>3. ASSUME NEW e \in 1..last, NEW f \in 1..last, e <= f
        PROVE  Held(spots, e) <= Held(spots, f)
    BY <2>3, HeldGrows
  <2> QED
    BY <2>1, <2>2, <2>3
<1>2. last \in 1..last /\ d \in 1..last /\ N \in Nat /\ m \in Nat /\ m <= N
  BY <1>1
<1>3. \A i \in 1..N : ser[i] = 1 + Cardinality(Prior(i))
  BY DEF Series
<1>4. ASSUME NEW i \in 1..N, i <= m
      PROVE  /\ Prior(i) = {e \in 1..d : Held(spots, e) < i}
             /\ ser[i] <= d
  <2>1. ASSUME NEW e \in Prior(i) PROVE e \in 1..(d - 1)
    BY <1>1, <1>2, <1>4
  <2>2. Prior(i) \in SUBSET (1..(d - 1))
    BY <2>1
  <2>3. IsFiniteSet(1..(d - 1)) /\ Cardinality(1..(d - 1)) = d - 1
    <3>1. /\ IsFiniteSet(1..(d - 1))
          /\ Cardinality(1..(d - 1)) = IF 1 > d - 1 THEN 0 ELSE (d - 1) - 1 + 1
      BY FS_Interval
    <3> QED
      BY <3>1
  <2>4. Cardinality(Prior(i)) \in Nat /\ Cardinality(Prior(i)) <= d - 1
    BY <2>2, <2>3, FS_Subset, FS_CardinalityType
  <2> QED
    BY <1>3, <2>2, <2>4
<1>5. ASSUME NEW i \in 1..N, m < i PROVE ~(ser[i] <= d)
  <2>1. 1..d \in SUBSET Prior(i)
    BY <1>1, <1>2, <1>5
  <2>2. IsFiniteSet(Prior(i))
    <3>1. IsFiniteSet(1..last) /\ Prior(i) \in SUBSET (1..last)
      BY FS_Interval
    <3> QED
      BY <3>1, FS_Subset
  <2>3. Cardinality(1..d) = d
    BY FS_Interval
  <2>4. Cardinality(Prior(i)) \in Nat /\ d <= Cardinality(Prior(i))
    BY <2>1, <2>2, <2>3, FS_Subset, FS_CardinalityType
  <2> QED
    BY <1>3, <2>4
<1> HIDE DEF ser, N, m, Prior
<1>6. PICK n \in 0..Len(ser) :
        /\ Known(ser, d) = SubSeq(ser, 1, n)
        /\ \A i \in 1..Len(ser) : ser[i] <= d <=> i <= n
  <2>1. d \in Int /\ Ordered(ser)
    BY <1>1
  <2> QED
    BY <2>1, KnownIsPrefix
<1>7. n = m
  <2>1. ASSUME NEW i \in 1..N PROVE i <= n <=> i <= m
    <3>1. i \in 1..Len(ser) /\ i \in Nat
      BY <1>1, <1>2
    <3>2. ser[i] <= d <=> i <= n
      BY <3>1, <1>6
    <3>3. i <= m => ser[i] <= d
      BY <1>4
    <3>4. m < i => ~(ser[i] <= d)
      BY <1>5
    <3> QED
      BY <1>2, <3>1, <3>2, <3>3, <3>4
  <2>2. n \in 0..N
    BY <1>1, <1>6
  <2> QED
    BY <1>2, <2>1, <2>2
<1>8. SubSeq(ser, 1, n) = [i \in 1..m |-> ser[i]]
  BY <1>1, <1>2, <1>6, <1>7 DEF Ordered
<1>9. \A i \in 1..m : ser[i] = 1 + Cardinality({e \in 1..d : Held(spots, e) < i})
  <2> SUFFICES ASSUME NEW i \in 1..m
               PROVE  ser[i] = 1 + Cardinality({e \in 1..d : Held(spots, e) < i})
    OBVIOUS
  <2>1. i \in 1..N /\ i <= m
    BY <1>2
  <2>2. Prior(i) = {e \in 1..d : Held(spots, e) < i}
    BY <2>1, <1>4
  <2> QED
    BY <2>1, <2>2, <1>3
<1>10. Series(spots, d) = [i \in 1..m |-> 1 + Cardinality({e \in 1..d : Held(spots, e) < i})]
  BY DEF Series, m
<1> QED
  BY <1>6, <1>8, <1>9, <1>10 DEF ser

=============================================================================
