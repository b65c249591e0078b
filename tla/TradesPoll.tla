----------------------------- MODULE TradesPoll -----------------------------
(***************************************************************************)
(* trades_watchlist: every five minutes, poll the vendor for the trades of *)
(* each watched contract past its cursor, land them under the day they     *)
(* happened, then save the cursors and the backoff ladder.                 *)
(*                                                                         *)
(* One run at a time (cronjob.sh's lock); it may die between any two       *)
(* steps, and its polls may fail.  The pool's threads share nothing but    *)
(* the lists they merge into under a lock, so a poll is one step.  The     *)
(* flat-file job lands whole days beside it.  --dry-run saves nothing and  *)
(* is left out.                                                            *)
(***************************************************************************)
EXTENDS Integers, FiniteSets

CONSTANTS Tickers,
          LastDay,      \* days are 1..LastDay
          Trades,       \* all the trades there will ever be
          BackoffMax,   \* BACKOFF_MAX
          Watchlists,   \* what compute_watchlist may return
          MaxFaults     \* bound: deaths, failed or cut-off polls, lost files,
                        \* outages

Days  == 1..LastDay
Trade == [ticker : Tickers, at : Nat \ {0}, day : Days]  \* at: sip_timestamp

ASSUME TradesAssumption ==
    /\ LastDay \in Nat \ {0}
    /\ Trades \subseteq Trade
    /\ BackoffMax \in Nat \ {0}
    /\ Watchlists \subseteq SUBSET Tickers
    /\ MaxFaults \in Nat

VARIABLES
    today, published, outage, \* the calendar and the vendor
    flat,      \* flat-file parquet of each day: "none", "file", "recorded"
    cursors,   \* trades_cursor.json; 0 where a ticker is absent
    ladder,    \* trades_poll_state.json: its date, and for each ticker the
               \* silent polls in a row and the slots until the next one
    pc, day, watched, keep, \* the run: position, run_date, watchlist (first tickers
               \* only, under --limit), tickers whose state is not pruned
    due,       \* tickers still to poll
    polled, failed, cur, lad, got, \* what the polls made of cursors and ladder
    parts,     \* days still to write
    landed,    \* trades with REST rows in clean/option_trades
    faults,
    overtaken, \* history: trades a cursor moved past, or was past, without them
    rewound,   \* history: tickers whose cursor fell behind what was landed
    twice,     \* history: trades landed again without that
    dark,      \* history: runs in a row that reported success on no answer
    skips      \* history: completed runs in a row that watched but skipped it

vendor == <<today, published, outage>>
buffer == <<due, polled, failed, cur, lad, got, parts>>
run    == <<day, watched, keep, buffer>>
judged == <<overtaken, rewound, twice, dark, skips>>
vars   == <<vendor, flat, cursors, ladder, pc, run, landed, faults, judged>>

NoCursors == [t \in Tickers |-> 0]
Fresh     == [t \in Tickers |-> 0]
NoLadder  == [date |-> 0, silent |-> Fresh, wait |-> Fresh]
MinOf(a, b) == IF a < b THEN a ELSE b
MaxOf(a, b) == IF a < b THEN b ELSE a

Init ==
    /\ today = 1 /\ published = {} /\ outage = FALSE /\ overtaken = {}
    /\ flat = [d \in Days |-> "none"]
    /\ cursors = NoCursors /\ ladder = NoLadder
    /\ pc = "idle" /\ day = 1 /\ watched = {} /\ keep = {} /\ due = {}
    /\ polled = {} /\ failed = {}
    /\ cur = NoCursors /\ lad = NoLadder /\ got = {} /\ parts = {}
    /\ landed = {} /\ twice = {}
    /\ faults = 0 /\ rewound = {} /\ dark = 0 /\ skips = [t \in Tickers |-> 0]
-----------------------------------------------------------------------------
\* The vendor makes a trade available, perhaps late or out of order.
Publish(tr) ==
    /\ tr \notin published /\ tr.day <= today
    /\ published' = published \cup {tr}
    /\ overtaken' = IF tr.at <= MaxOf(cursors[tr.ticker], cur[tr.ticker])
                      THEN overtaken \cup {tr} ELSE overtaken
    /\ UNCHANGED <<today, outage, flat, cursors, ladder, pc, run, landed,
                   faults, rewound, twice, dark, skips>>

NextDay ==
    /\ today < LastDay
    /\ today' = today + 1
    /\ UNCHANGED <<published, outage, flat, cursors, ladder, pc, run, landed,
                   faults, judged>>

\* Every request fails for a while: a broken endpoint, a lost entitlement.
Outage ==
    /\ ~outage /\ faults < MaxFaults
    /\ outage' = TRUE
    /\ faults' = faults + 1
    /\ UNCHANGED <<today, published, flat, cursors, ladder, pc, run, landed, judged>>

OutageEnds ==
    /\ outage
    /\ outage' = FALSE
    /\ UNCHANGED <<today, published, flat, cursors, ladder, pc, run, landed, faults,
                   judged>>

\* flatfile_pull lands an earlier day: the parquet appears, perhaps to stay
\* torn, and a later attempt or the same one records it in the manifest.
FlatFile(d) ==
    /\ d < today
    /\ \/ flat[d] = "none" /\ flat' = [flat EXCEPT ![d] = "file"]
       \/ flat[d] = "file" /\ flat' = [flat EXCEPT ![d] = "recorded"]
    /\ UNCHANGED <<vendor, cursors, ladder, pc, run, landed, faults, judged>>
-----------------------------------------------------------------------------
\* Mutant of LoadLadder: a run that skips a ticker brings its slot no nearer.
LoadLadderStuck(d) == IF ladder.date # d THEN [NoLadder EXCEPT !.date = d] ELSE ladder

\* _load_poll_state for this run's slot: empty for another date or a file that
\* does not parse; otherwise one slot nearer for every ticker.
LoadLadder(d) ==
    IF ladder.date # d THEN [NoLadder EXCEPT !.date = d]
    ELSE [ladder EXCEPT !.wait = [t \in Tickers |-> MaxOf(0, ladder.wait[t] - 1)]]

\* _due_tickers: the unknown and the due; on the closing run, all.
DueTickers(W, l, closing) == {t \in W : closing \/ l.wait[t] = 0}

\* The run starts: watchlist, cursors and ladder are loaded.
Start(W, lim, closing) ==
    /\ pc = "idle" /\ pc' = "poll"
    /\ day' = today /\ watched' = W
    /\ keep' = IF lim THEN Tickers ELSE W
    /\ cur' = cursors
    /\ lad' = LoadLadder(today)
    /\ due' = DueTickers(W, LoadLadder(today), closing)
    /\ UNCHANGED <<vendor, flat, cursors, ladder, polled, failed, got, parts, landed,
                   faults, judged>>

\* Mutant of Past: asks from the cursor on instead of past it.
PastInclusive(t) == {tr \in published : tr.ticker = t /\ tr.at >= cur[t]}

\* The trades past the cursor: for a ticker without one, its whole history.
Past(t) == {tr \in published : tr.ticker = t /\ tr.at > cur[t]}

\* _next_due after n silent polls in a row; more than BackoffMax are as many.
NextDue(l, t, n) == [l EXCEPT !.silent[t] = MinOf(n, BackoffMax),
                              !.wait[t] = MinOf(MaxOf(n, 1), BackoffMax)]

Polled(t) ==
    /\ pc = "poll" /\ t \in due
    /\ due' = due \ {t} /\ polled' = polled \cup {t}
    /\ UNCHANGED <<vendor, flat, cursors, ladder, pc, day, watched, keep, parts, landed,
                   rewound, twice, dark, skips>>

\* A ticker's poll brings S, oldest first: everything past the cursor, or less
\* if a repeated next_url stops the paging. It is merged under the lock.
Poll(t, S) ==
    /\ Polled(t) /\ ~outage
    /\ S \subseteq Past(t)
    /\ IF S = Past(t) THEN UNCHANGED faults
                      ELSE faults < MaxFaults /\ faults' = faults + 1
    /\ \E last \in S :
         /\ \A tr \in S : tr.at <= last.at
         /\ \A tr \in Past(t) \ S : tr.at >= last.at
         /\ cur' = [cur EXCEPT ![t] = last.at]
         /\ overtaken' = overtaken \cup {tr \in Past(t) \ S : tr.at = last.at}
    /\ got' = got \cup S
    /\ lad' = NextDue(lad, t, 0)
    /\ UNCHANGED failed

\* It brings nothing.
PollSilent(t) ==
    /\ Polled(t) /\ ~outage
    /\ Past(t) = {}
    /\ lad' = NextDue(lad, t, lad.silent[t] + 1)
    /\ UNCHANGED <<failed, got, cur, faults, overtaken>>

Fails(t) ==
    /\ Polled(t)
    /\ IF outage THEN UNCHANGED faults ELSE faults < MaxFaults /\ faults' = faults + 1
    /\ failed' = failed \cup {t}
    /\ UNCHANGED <<got, cur, overtaken>>

\* Mutant of PollFails: a failed poll counts as a silent one.
PollFailsSilently(t) == Fails(t) /\ lad' = NextDue(lad, t, lad.silent[t] + 1)

\* It fails: what its earlier pages brought is dropped; retried next slot.
PollFails(t) == Fails(t) /\ lad' = [lad EXCEPT !.silent[t] = 0, !.wait[t] = 1]
-----------------------------------------------------------------------------
Forget ==
    /\ pc' = "idle"
    /\ day' = 1 /\ watched' = {} /\ keep' = {}
    /\ due' = {} /\ polled' = {} /\ failed' = {} /\ got' = {} /\ parts' = {}
    /\ cur' = NoCursors /\ lad' = NoLadder

\* Contracts off the watchlist lose cursor and ladder, not under --limit.
Keep(f) == [t \in Tickers |-> IF t \in keep THEN f[t] ELSE 0]

\* Mutant of Covered: a parquet is taken for a landed day.
CoveredByFile == {d \in Days \ {day} : flat[d] # "none"}

\* _flatfile_covered: earlier days the manifest lists and a parquet is there for.
Covered == {d \in Days \ {day} : flat[d] = "recorded"}

\* All polls are in. A run where every watched ticker failed raises.
AllFailed ==
    /\ pc = "poll" /\ due = {}
    /\ watched # {} /\ failed = watched
    /\ dark' = 0
    /\ Forget
    /\ UNCHANGED <<vendor, flat, cursors, ladder, landed, faults,
                   overtaken, rewound, twice, skips>>

\* Otherwise pruning, and the days the rows go to: those not covered.
Split ==
    /\ pc = "poll" /\ due = {}
    /\ watched = {} \/ failed # watched
    /\ cur' = Keep(cur)
    /\ lad' = [lad EXCEPT !.silent = Keep(@), !.wait = Keep(@)]
    /\ parts' = {tr.day : tr \in got} \ Covered
    /\ pc' = "land"
    /\ UNCHANGED <<vendor, flat, cursors, ladder, day, watched, keep, due, polled,
                   failed, got, landed, faults, judged>>

\* write_raw and write_clean of one day, in order.
Land ==
    /\ pc = "land"
    /\ \E d \in parts :
         /\ \A e \in parts : d <= e
         /\ parts' = parts \ {d}
         /\ LET rows == {tr \in got : tr.day = d} IN
              /\ landed' = landed \cup rows
              /\ twice' = twice \cup {tr \in rows \cap landed : tr.ticker \notin rewound}
    /\ UNCHANGED <<vendor, flat, cursors, ladder, pc, day, watched, keep, due, polled,
                   failed, cur, lad, got, faults, overtaken, rewound, dark, skips>>

\* _save_cursors: a temporary file renamed over the old one.
SaveCursors ==
    /\ pc = "land" /\ parts = {}
    /\ cursors' = cur
    /\ rewound' = rewound \cup {t \in Tickers : cur[t] < cursors[t]}
    /\ pc' = "save"
    /\ UNCHANGED <<vendor, flat, ladder, run, landed, faults, overtaken, twice, dark, skips>>

\* _save_poll_state; the run reports success.
SaveLadder ==
    /\ pc = "save"
    /\ ladder' = lad
    /\ dark' = IF polled = {} THEN dark ELSE IF failed = polled THEN dark + 1 ELSE 0
    /\ skips' = [t \in Tickers |-> IF t \in polled \/ t \notin watched THEN 0
                                   ELSE skips[t] + 1]
    /\ Forget
    /\ UNCHANGED <<vendor, flat, cursors, landed, faults,
                   overtaken, rewound, twice>>

Fault == faults < MaxFaults /\ faults' = faults + 1

\* The run dies, or an exception ends it.
Crash ==
    /\ pc # "idle" /\ Fault
    /\ rewound' = IF pc = "land" THEN rewound \cup {tr.ticker : tr \in got} ELSE rewound
    /\ Forget
    /\ UNCHANGED <<vendor, flat, cursors, ladder, landed,
                   overtaken, twice, dark, skips>>

\* A state file is deleted, or no longer parses.
LoseCursors ==
    /\ Fault
    /\ cursors' = NoCursors
    /\ rewound' = rewound \cup {t \in Tickers : cursors[t] # 0}
    /\ UNCHANGED <<vendor, flat, ladder, pc, run, landed, overtaken, twice, dark, skips>>

LoseLadder ==
    /\ Fault
    /\ ladder' = NoLadder
    /\ UNCHANGED <<vendor, flat, cursors, pc, run, landed, judged>>
-----------------------------------------------------------------------------
Begin == \E W \in Watchlists, lim, closing \in BOOLEAN : Start(W, lim, closing)
Step  == \/ \E t \in Tickers : \/ \E S \in SUBSET Trades : Poll(t, S)
                               \/ PollSilent(t) \/ PollFails(t)
         \/ AllFailed \/ Split \/ Land \/ SaveCursors \/ SaveLadder

Next ==
    \/ \E tr \in Trades : Publish(tr)
    \/ NextDay
    \/ Outage \/ OutageEnds
    \/ \E d \in Days : FlatFile(d)
    \/ Begin
    \/ Step
    \/ Crash \/ LoseCursors \/ LoseLadder

Spec == Init /\ [][Next]_vars

\* cron starts runs for ever, a run that does not die goes on, and an outage
\* ends.
LiveSpec == Spec /\ WF_vars(Begin) /\ WF_vars(Step) /\ WF_vars(OutageEnds)
-----------------------------------------------------------------------------
TypeOK ==
    /\ today \in Days /\ day \in Days
    /\ published \subseteq Trades /\ overtaken \subseteq Trades /\ got \subseteq Trades
    /\ outage \in BOOLEAN
    /\ flat \in [Days -> {"none", "file", "recorded"}]
    /\ cursors \in [Tickers -> Nat] /\ cur \in [Tickers -> Nat]
    /\ \A l \in {ladder, lad} :
         l \in [date : {0} \cup Days, silent : [Tickers -> 0..BackoffMax],
                wait : [Tickers -> 0..BackoffMax]]
    /\ pc \in {"idle", "poll", "land", "save"}
    /\ \A W \in {watched, keep, due, polled, failed, rewound} : W \subseteq Tickers
    /\ parts \subseteq Days
    /\ landed \subseteq Trades /\ twice \subseteq Trades
    /\ faults \in 0..MaxFaults
    /\ dark \in Nat
    /\ skips \in [Tickers -> Nat]

Accounted(tr) == tr \in landed \/ flat[tr.day] = "recorded"

\* "Duplicates, never gaps": a trade the saved cursor is past is in
\* clean/option_trades, or in the flat file of its day, wherever runs died and
\* whatever they landed, dropped, pruned or lost before; unless the vendor
\* published it after trades with a later timestamp had been polled.
NeverGaps ==
    \A tr \in published \ overtaken : tr.at <= cursors[tr.ticker] => Accounted(tr)

\* And no duplicates either, unless the ticker's cursor fell back: its run
\* died before saving it, its contract rolled off the watchlist, or the file
\* was lost.
OnceUnlessRewound ==
    twice = {}

\* "Backoff can only ever delay a trade's arrival", and by how much: no ticker
\* is skipped by BACKOFF_MAX completed runs in a row.
SkippedLessThanCap == \A t \in Tickers : skips[t] < BackoffMax

\* An outage may hide behind the tickers that backoff skips, but for fewer
\* than BACKOFF_MAX runs in a row; then a run fails.
OutageSurfaces == dark < BackoffMax

\* "A run where EVERY ticker errored is an outage and must not report success."
\* The code does not keep this: TLC refutes it, and no run repeats it.
OutageFailsTheRun == dark = 0

\* A trade published in order arrives, or its day's flat file does, as long as
\* its contract keeps being watched.
TradesArrive ==
    \A tr \in Trades :
        []<>(tr.ticker \in watched) =>
            (tr \in published ~> (Accounted(tr) \/ tr \in overtaken))
=============================================================================
