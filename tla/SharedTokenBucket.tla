------------------------- MODULE SharedTokenBucket -------------------------
(***************************************************************************)
(* The token bucket every job on the box draws outbound requests from: a   *)
(* JSON file under _meta/ guarded by flock.  NORMAL callers (the snapshot  *)
(* sweep) preempt LOW ones (trades polling) by a reserve and by a claim    *)
(* stamped while they wait.                                                *)
(*                                                                         *)
(* A tick is the time one token takes to refill (1/rate).  Times are kept  *)
(* relative to the wall clock: how old the file's stamp is, how long the   *)
(* claim has left.  Each turn under the flock is one step, except that a   *)
(* process may die between truncating the file and writing it.             *)
(***************************************************************************)
EXTENDS Integers

CONSTANTS Normal, Low,  \* callers of each priority (a thread of some job)
          Burst,        \* most tokens the bucket holds
          Reserve,      \* tokens LOW callers leave: burst * RESERVE_FRACTION
          Claim,        \* NORMAL_CLAIM_S in ticks
          Poll,         \* LOW_POLL_S in ticks
          Lag,          \* how late the scheduler wakes a sleeper, in ticks
          Jump,         \* bound: how far one step of the wall clock goes
          MaxUpsets     \* bound: clock steps and deaths inside a write

ASSUME BucketAssumption ==
    /\ Normal \cap Low = {}
    /\ Burst \in Nat \ {0} /\ Reserve \in Nat /\ Reserve < Burst
    /\ Claim \in Nat \ {0} /\ Poll \in Nat \ {0} /\ Lag \in Nat
    /\ Jump \in Nat /\ MaxUpsets \in Nat

\* The deployed numbers (60 ticks of claim, sleeps of one) leave the scheduler
\* a second to wake a NORMAL caller before its claim runs out.
ASSUME ClaimOutlastsSleep == Claim > 1 + Lag

Callers == Normal \cup Low

VARIABLES
    file,     \* _meta/ratelimit.json: "empty" (new, torn, corrupt) or "state"
    tokens,   \* its tokens,
    age,      \* how long ago its stamp "updated" was by the wall clock,
    claim,    \* and how long its normal_claim is still ahead of it
    waiting,  \* callers inside acquire()
    nap,      \* ticks a waiting caller still sleeps; below zero, overdue
    credit,   \* history: a bucket in real time, one token drawn per grant
    owed,     \* history: NORMAL callers whose wait is stamped in the file
    upsets

bucketVars == <<file, tokens, age, claim, waiting, nap, credit, owed, upsets>>

MinOf(a, b) == IF a < b THEN a ELSE b
MaxOf(a, b) == IF a < b THEN b ELSE a

\* The oldest claim worth telling apart: a clock stepped back revives it.
Past == 0 - Jump * MaxUpsets

BucketInit ==
    /\ file = "empty" /\ tokens = 0 /\ age = 0 /\ claim = Past
    /\ waiting = {} /\ nap = [c \in Callers |-> 0]
    /\ credit = Burst /\ owed = {} /\ upsets = 0

\* Mutant of Have: idle time refills past the burst.
HaveUncapped == IF file = "empty" THEN Burst ELSE tokens + MaxOf(0, age)

\* _read and the two clamps: neither a stamp from a clock ahead of ours nor
\* one far behind moves more than a burst.
Have == IF file = "empty" THEN Burst
        ELSE MinOf(Burst, tokens + MaxOf(0, MinOf(age, Burst)))
LiveClaim == IF file = "empty" THEN Past ELSE MinOf(claim, Claim)

Floor(c) == IF c \in Low THEN Reserve ELSE 0

Write(t, k) == /\ file' = "state" /\ tokens' = t /\ age' = 0 /\ claim' = k

\* acquire() is entered.
Request(c) ==
    /\ c \notin waiting
    /\ waiting' = waiting \cup {c}
    /\ nap' = [nap EXCEPT ![c] = 0]
    /\ UNCHANGED <<file, tokens, age, claim, credit, owed, upsets>>

Awake(c) == c \in waiting /\ nap[c] <= 0

\* Mutant of Park: the stamp moves on, the refill since the last one is lost.
ParkLosesRefill(c) ==
    /\ Awake(c) /\ c \in Low
    /\ LiveClaim > 0
    /\ Write(tokens, LiveClaim)
    /\ nap' = [nap EXCEPT ![c] = MinOf(Poll, LiveClaim)]
    /\ UNCHANGED <<waiting, credit, owed, upsets>>

\* Mutant of Park: the one who stands aside renews the claim.
ParkRenews(c) ==
    /\ Awake(c) /\ c \in Low
    /\ LiveClaim > 0
    /\ Write(Have, Claim)
    /\ nap' = [nap EXCEPT ![c] = MinOf(Poll, LiveClaim)]
    /\ UNCHANGED <<waiting, credit, owed, upsets>>

\* A LOW caller declines to draw while a claim is live.
Park(c) ==
    /\ Awake(c) /\ c \in Low
    /\ LiveClaim > 0
    /\ Write(Have, LiveClaim)
    /\ nap' = [nap EXCEPT ![c] = MinOf(Poll, LiveClaim)]
    /\ UNCHANGED <<waiting, credit, owed, upsets>>

MayDraw(c) == c \in Low => LiveClaim <= 0

\* A token above the caller's floor is drawn. The claim stays as it is.
Grant(c) ==
    /\ Awake(c) /\ MayDraw(c)
    /\ Have - 1 >= Floor(c)
    /\ Write(Have - 1, LiveClaim)
    /\ waiting' = waiting \ {c}
    /\ credit' = credit - 1
    /\ owed' = owed \ {c}
    /\ UNCHANGED <<nap, upsets>>

\* Not enough: a NORMAL caller stamps its claim, and either sleeps until the
\* missing tokens are due.
Wait(c) ==
    /\ Awake(c) /\ MayDraw(c)
    /\ Have - 1 < Floor(c)
    /\ Write(Have, IF c \in Low THEN LiveClaim ELSE Claim)
    /\ nap' = [nap EXCEPT ![c] = 1 + Floor(c) - Have]
    /\ owed' = IF c \in Low THEN owed ELSE owed \cup {c}
    /\ UNCHANGED <<waiting, credit, upsets>>

\* A caller's process is killed while it sleeps; its claim stays in the file.
Die(c) ==
    /\ c \in waiting
    /\ waiting' = waiting \ {c}
    /\ owed' = owed \ {c}
    /\ UNCHANGED <<file, tokens, age, claim, nap, credit, upsets>>

Upset == /\ upsets < MaxUpsets
         /\ upsets' = upsets + 1
         /\ credit' = Burst
         /\ owed' = {}

\* It is killed after truncate() and before flush(): the next reader finds an
\* empty file, a full burst and no claim.
DieWriting(c) ==
    /\ Awake(c) /\ Upset
    /\ file' = "empty"
    /\ waiting' = waiting \ {c}
    /\ UNCHANGED <<tokens, age, claim, nap>>

\* The wall clock is stepped.
StepClock(d) ==
    /\ Upset
    /\ age' = MinOf(Burst, age + d)
    /\ claim' = MaxOf(Past, claim - d)
    /\ UNCHANGED <<file, tokens, waiting, nap>>

\* Time passes; a sleeper is up to Lag late.
Tick ==
    /\ \A c \in waiting : nap[c] > 0 - Lag
    /\ age' = MinOf(Burst, age + 1)
    /\ claim' = MaxOf(Past, claim - 1)
    /\ nap' = [c \in Callers |-> IF c \in waiting THEN nap[c] - 1 ELSE nap[c]]
    /\ credit' = MinOf(Burst, credit + 1)
    /\ UNCHANGED <<file, tokens, waiting, owed, upsets>>

Attempt(c) == Park(c) \/ Grant(c) \/ Wait(c)

BucketNext ==
    \/ \E c \in Callers : Request(c) \/ Attempt(c) \/ Die(c) \/ DieWriting(c)
    \/ \E d \in ((0 - Jump)..Jump) \ {0} : StepClock(d)
    \/ Tick

BucketSpec == BucketInit /\ [][BucketNext]_bucketVars

\* Clocks run, and a process whose sleep is over gets its turn.
Fairness == WF_bucketVars(Tick) /\ \A c \in Callers : WF_bucketVars(Attempt(c))
BucketLiveSpec == BucketSpec /\ Fairness
-----------------------------------------------------------------------------
BucketTypeOK ==
    /\ file \in {"empty", "state"}
    /\ tokens \in 0..Burst
    /\ age \in Int
    /\ claim \in Int
    /\ waiting \subseteq Callers
    /\ nap \in [Callers -> Int]
    /\ credit \in Int
    /\ owed \subseteq Normal \cap waiting
    /\ upsets \in 0..MaxUpsets

\* However the callers of all processes interleave, die or lag, they draw no
\* more than one bucket of Burst tokens refilled in real time allows; only a
\* stepped clock or a death inside a write starts it full again.
WithinAllowance == credit >= 0

\* While a NORMAL caller's stamped wait lasts, LOW callers find a live claim:
\* no token that arrives for it goes to them ("a sustained guarantee rather
\* than a burst one", module docs).
ClaimCoversWaiters == owed # {} => file = "state" /\ LiveClaim > 0

\* LOW callers cannot starve NORMAL ones: when all of those wait, one is served.
NormalServed == (Normal \subseteq waiting) ~> ~(Normal \subseteq waiting)

\* A claim whose caller is served or dead wedges nobody: once no NORMAL caller
\* is left, LOW ones are served, whatever the clock did.
LowNotWedged ==
    <>[](Normal \cap waiting = {}) =>
        ((Low \subseteq waiting) ~> ~(Low \subseteq waiting))
=============================================================================
