-------------------------- MODULE LoopClockProofs --------------------------
(***************************************************************************)
(* Proofs about ThreadStats, for any widths of the two counters, any        *)
(* channel and any number of threads, and about LoopClock, which extends    *)
(* it, for any number of loops, any intervals and any course of the clock.  *)
(***************************************************************************)
EXTENDS LoopClock, TLAPS

-----------------------------------------------------------------------------
(* ThreadStats.                                                             *)

(* What TypeOK and the averages rest on: an entry has statistics as soon as  *)
(* it has counted a report, and the last report lies between the extremes.   *)
EntryInv ==
  \A n \in Names :
    /\ jitter[n] # NoJitter => iters[n] > 0
    /\ jitter[n] = NoJitter => iters[n] = 0
    /\ jitter[n] # NoJitter =>
         jitter[n].min <= jitter[n].last /\ jitter[n].last <= jitter[n].max

Inv == TypeOK /\ EntryInv /\ TotalMatchesIters

(* An addition that stays within u32 does not wrap. *)
LEMMA Add32Exact ==
  ASSUME NEW a \in Nat, NEW b \in Nat, a + b <= U32Max
  PROVE  Add32(a, b) = a + b
<1>1. U32Max \in Nat
  BY StatsAssumption
<1>2. a + b \in Nat /\ U32Max + 1 \in Nat /\ a + b < U32Max + 1
  BY <1>1
<1>3. (a + b) % (U32Max + 1) = a + b
  BY <1>2
<1> QED
  BY <1>3 DEF Add32

(* A quotient lies between two bounds when its dividend lies between their   *)
(* multiples: the integer division of info().                                *)
LEMMA QuotientBounds ==
  ASSUME NEW a \in Nat, NEW b \in Nat, NEW t \in Nat, NEW d \in Nat, d > 0,
         a * d <= t, t <= b * d
  PROVE  a <= t \div d /\ t \div d <= b
<1> DEFINE q == t \div d
<1>1. q \in Int /\ d * q <= t /\ t < d * q + d
  OBVIOUS
<1> HIDE DEF q
<1>2. a <= q
  <2>1. SUFFICES ASSUME q + 1 <= a PROVE FALSE
    BY <1>1
  <2>2. (q + 1) * d <= a * d
    BY <1>1, <2>1
  <2> QED
    BY <1>1, <2>2
<1>3. q <= b
  <2>1. SUFFICES ASSUME b + 1 <= q PROVE FALSE
    BY <1>1
  <2>2. (b + 1) * d <= q * d
    BY <1>1, <2>1
  <2> QED
    BY <1>1, <2>2
<1> QED
  BY <1>2, <1>3 DEF q

(* A report within new extremes keeps the total between their multiples. *)
LEMMA OneMoreReport ==
  ASSUME NEW a \in Nat, NEW b \in Nat, NEW t \in Nat, NEW d \in Nat,
         NEW m \in Nat, NEW M \in Nat, NEW j \in Nat,
         a * d <= t, t <= b * d, m <= a, b <= M, m <= j, j <= M
  PROVE  m * (d + 1) <= t + j /\ t + j <= M * (d + 1)
<1>1. m * d <= a * d /\ b * d <= M * d
  OBVIOUS
<1>2. m * (d + 1) = m * d + m /\ M * (d + 1) = M * d + M
  OBVIOUS
<1> QED
  BY <1>1, <1>2

-----------------------------------------------------------------------------
(* One call of report_jitter() keeps the entry it folds the report into.     *)
LEMMA ReportKeepsEntry ==
  ASSUME Inv, NEW n \in Names, NEW j \in U16, ReportJitter(n, j)
  PROVE  /\ iters' \in [Names -> U32]
         /\ jitter' \in [Names -> Jitter \cup {NoJitter}]
         /\ EntryInv'
         /\ TotalMatchesIters'
<1> USE StatsAssumption
<1> USE DEF Inv, TypeOK, U16, U32
<1>1. CASE jitter[n] = NoJitter
  <2>1. /\ iters' = [iters EXCEPT ![n] = 1]
        /\ jitter' = [jitter EXCEPT ![n] = NewJitter(j)]
    <3>1. iters[n] = 0
      BY <1>1 DEF EntryInv
    <3>2. Counted(n) = 1
      BY <3>1, Add32Exact DEF Counted, WasReset
    <3> QED
      BY <1>1, <3>2 DEF ReportJitter
  <2>2. NewJitter(j) \in Jitter /\ NewJitter(j) # NoJitter
    BY DEF NewJitter, Jitter, NoJitter
  <2>3. EntryInv'
    BY <2>1, <2>2 DEF EntryInv, NewJitter
  <2>4. TotalMatchesIters'
    BY <2>1, <2>2 DEF TotalMatchesIters, NewJitter
  <2> QED
    BY <2>1, <2>2, <2>3, <2>4
<1>2. CASE jitter[n] # NoJitter
  <2> DEFINE f == Folded(n, j)
             k == IF ~WasReset(n) /\ Overflows(n, j) THEN 1 ELSE Counted(n)
  <2>1. jitter[n] \in Jitter /\ iters[n] \in U32 /\ iters[n] > 0
    BY <1>2 DEF EntryInv
  <2>2. iters' = [iters EXCEPT ![n] = k] /\ jitter' = [jitter EXCEPT ![n] = f]
    BY <1>2 DEF ReportJitter
  <2>3. CASE WasReset(n) \/ Overflows(n, j)
    <3>1. k = 1 /\ f.total = j
      BY <2>3 DEF Counted, Folded
    <3>2. /\ f \in Jitter /\ f # NoJitter
          /\ f.min <= f.last /\ f.last <= f.max /\ f.last = j
      BY <2>1, <3>1 DEF Folded, Jitter, NoJitter
    <3>3. f.min * k <= f.total /\ f.total <= f.max * k
      BY <3>1, <3>2 DEF Jitter
    <3> HIDE DEF f, k
    <3>4. EntryInv'
      BY <2>1, <2>2, <3>1, <3>2 DEF EntryInv
    <3>5. TotalMatchesIters'
      BY <2>2, <3>2, <3>3 DEF TotalMatchesIters
    <3> QED
      BY <2>2, <3>1, <3>2, <3>4, <3>5
  <2>4. CASE ~WasReset(n) /\ ~Overflows(n, j)
    <3>1. k = iters[n] + 1 /\ k \in U32
      BY <2>1, <2>4, Add32Exact DEF Counted, WasReset
    <3>2. f.total = jitter[n].total + j /\ f.total \in U32
      <4>1. /\ jitter[n].total \in Nat /\ j \in Nat
            /\ jitter[n].total + j <= U32Max
        BY <2>1, <2>4 DEF Overflows, Jitter
      <4>2. Add32(jitter[n].total, j) = jitter[n].total + j
        BY <4>1, Add32Exact
      <4> QED
        BY <2>4, <4>1, <4>2 DEF Folded
    <3>3. /\ f \in Jitter /\ f # NoJitter
          /\ f.min <= f.last /\ f.last <= f.max
          /\ f.min <= jitter[n].min /\ jitter[n].max <= f.max
          /\ f.min <= j /\ j <= f.max
      BY <2>1, <3>2 DEF Folded, Jitter, NoJitter
    <3>4. f.min * k <= f.total /\ f.total <= f.max * k
      <4>1. /\ jitter[n].min * iters[n] <= jitter[n].total
            /\ jitter[n].total <= jitter[n].max * iters[n]
        BY <1>2 DEF TotalMatchesIters
      <4>2. /\ f.min \in Nat /\ f.max \in Nat /\ f.total \in Nat /\ j \in Nat
            /\ jitter[n].min \in Nat /\ jitter[n].max \in Nat
            /\ jitter[n].total \in Nat /\ iters[n] \in Nat
        BY <2>1, <3>3 DEF Jitter
      <4> HIDE DEF f, k
      <4>3. /\ f.min * (iters[n] + 1) <= jitter[n].total + j
            /\ jitter[n].total + j <= f.max * (iters[n] + 1)
        BY <3>3, <4>1, <4>2, OneMoreReport
      <4> QED
        BY <3>1, <3>2, <4>3
    <3> HIDE DEF f, k
    <3>5. EntryInv'
      BY <2>1, <2>2, <3>1, <3>3 DEF EntryInv
    <3>6. TotalMatchesIters'
      BY <2>2, <3>3, <3>4 DEF TotalMatchesIters
    <3> QED
      BY <2>2, <3>1, <3>3, <3>5, <3>6
  <2> QED
    BY <2>3, <2>4
<1> QED
  BY <1>1, <1>2

(* The invariant is inductive: whatever the order of reports, receptions and *)
(* resets.                                                                   *)
LEMMA Inductive == Inv /\ [Next]_vars => Inv'
<1> SUFFICES ASSUME Inv, [Next]_vars PROVE Inv'
  OBVIOUS
<1> USE StatsAssumption
<1>1. ASSUME NEW n \in Names, Tick(n) PROVE Inv'
  <2>1. channel' \in Seq(Names \X U16)
    BY <1>1 DEF Tick, Report, AsU16Max, Inv, TypeOK, U16
  <2> QED
    BY <1>1, <2>1 DEF Tick, Inv, TypeOK, EntryInv, TotalMatchesIters
<1>2. CASE Receive
  <2>1. /\ Head(channel)[1] \in Names /\ Head(channel)[2] \in U16
        /\ channel' \in Seq(Names \X U16)
    BY <1>2 DEF Receive, Inv, TypeOK
  <2> QED
    BY <1>2, <2>1, ReportKeepsEntry DEF Receive, Inv, TypeOK
<1>3. CASE Reset
  BY <1>3 DEF Reset, Inv, TypeOK, EntryInv, TotalMatchesIters, NoJitter, U32
<1>4. CASE UNCHANGED vars
  BY <1>4 DEF vars, Inv, TypeOK, EntryInv, TotalMatchesIters
<1> QED
  BY <1>1, <1>2, <1>3, <1>4 DEF Next

(* No counter leaves its width, and a total is always that of as many        *)
(* reports as iters says.                                                    *)
THEOREM CountersAgree == Spec => [](TypeOK /\ TotalMatchesIters)
<1>1. Init => Inv
  BY StatsAssumption
     DEF Init, Inv, TypeOK, EntryInv, TotalMatchesIters, U32, NoJitter
<1>2. Inv => TypeOK /\ TotalMatchesIters
  BY DEF Inv
<1> QED
  BY <1>1, <1>2, Inductive, PTL DEF Spec

(* A reader of the statistics never divides by zero and never gets an        *)
(* average outside the extremes, for every width of the counters.            *)
THEOREM InfoConsistent == Spec => []InfoIsConsistent
<1>1. Init => Inv
  BY StatsAssumption
     DEF Init, Inv, TypeOK, EntryInv, TotalMatchesIters, U32, NoJitter
<1>2. Inv => InfoIsConsistent
  <2> SUFFICES ASSUME Inv, NEW n \in Names, jitter[n] # NoJitter
               PROVE  /\ iters[n] > 0
                      /\ jitter[n].min <= Average(n)
                      /\ Average(n) <= jitter[n].max
                      /\ jitter[n].min <= jitter[n].last
                      /\ jitter[n].last <= jitter[n].max
    BY DEF InfoIsConsistent
  <2>1. /\ jitter[n].min \in Nat /\ jitter[n].max \in Nat
        /\ jitter[n].max <= U16Max /\ jitter[n].total \in Nat
    BY StatsAssumption DEF Inv, TypeOK, Jitter, U16, U32
  <2>2. /\ iters[n] \in Nat /\ iters[n] > 0
        /\ jitter[n].min <= jitter[n].last /\ jitter[n].last <= jitter[n].max
    BY StatsAssumption DEF Inv, TypeOK, EntryInv, U32
  <2>3. /\ jitter[n].min * iters[n] <= jitter[n].total
        /\ jitter[n].total <= jitter[n].max * iters[n]
    BY DEF Inv, TotalMatchesIters
  <2>4. /\ jitter[n].min <= jitter[n].total \div iters[n]
        /\ jitter[n].total \div iters[n] <= jitter[n].max
    BY <2>1, <2>2, <2>3, QuotientBounds
  <2>5. Average(n) = jitter[n].total \div iters[n]
    BY <2>1, <2>2, <2>4, StatsAssumption DEF Average, AsU16Max
  <2> QED
    BY <2>2, <2>4, <2>5
<1> QED
  BY <1>1, <1>2, Inductive, PTL DEF Spec

-----------------------------------------------------------------------------
(* LoopClock.                                                               *)

(* What a loop knows of its deadline at each point of tick(): it is not due   *)
(* before an interval has passed since the round before the last one, and     *)
(* not past the last one by more than an interval; once it has been moved, it *)
(* is an interval or more after the last round.                               *)
PaceInv ==
  \A n \in Names :
    /\ pc[n] \in {"round", "sleep"} =>
         /\ before[n] + Interval(n) <= next[n]
         /\ next[n] <= last[n] + Interval(n)
    /\ pc[n] = "sleep" => last[n] <= next[n]
    /\ pc[n] = "late" => before[n] + Interval(n) <= now
    /\ pc[n] = "report" =>
         /\ before[n] + Interval(n) <= now
         /\ last[n] + Interval(n) <= next[n]
         /\ next[n] <= now + Interval(n)

ClockTypeOK ==
  /\ now \in 0 .. MaxTime
  /\ written \in [Names -> Written]
  /\ pc \in [Names -> {"prepare", "round", "sleep", "late", "report"}]
  /\ next \in [Names -> Nat]
  /\ last \in [Names -> 0 .. now]
  /\ before \in [Names -> Int]

ClockInv == ClockTypeOK /\ PaceInv

(* A parsed interval is a number, and the written one unless it overflows. *)
LEMMA IntervalParsed ==
  ASSUME ClockTypeOK, NEW n \in Names
  PROVE  /\ Interval(n) \in Nat
         /\ Exact(written[n]) <= U64Max => Interval(n) = Exact(written[n])
<1> USE ClockAssumption
<1>1. written[n] \in (0 .. U64Max) \X Suffixes
  BY DEF ClockTypeOK
<1>2. written[n][1] \in Nat /\ written[n][2] \in Suffixes
  BY <1>1
<1>3. Factor(written[n][2]) \in Nat
  <2>1. Unit * Unit \in Nat
    OBVIOUS
  <2>2. Unit * Unit * Unit \in Nat
    BY <2>1
  <2> QED
    BY <1>2, <2>1, <2>2 DEF Factor, Suffixes
<1> DEFINE e == written[n][1] * Factor(written[n][2])
<1>4. e \in Nat
  BY <1>2, <1>3
<1>5. Exact(written[n]) = e /\ Interval(n) = e % (U64Max + 1)
  BY DEF Exact, Interval, ParseInterval
<1> HIDE DEF e
<1>6. e % (U64Max + 1) \in Nat /\ (e <= U64Max => e % (U64Max + 1) = e)
  BY <1>4
<1> QED
  BY <1>5, <1>6

(* No step of the statistics moves a clock or a deadline. *)
LEMMA ClockUnchanged ==
  ASSUME ClockInv, UNCHANGED clockVars
  PROVE  ClockInv'
BY DEF ClockInv, ClockTypeOK, PaceInv, clockVars, Interval

(* Each step of a loop, and of the clock, keeps the pace. *)
LEMMA ClockInductive == ClockInv /\ [LoopNext]_loopVars => ClockInv'
<1> SUFFICES ASSUME ClockInv, [LoopNext]_loopVars PROVE ClockInv'
  OBVIOUS
<1> USE ClockAssumption DEF ClockInv, ClockTypeOK
<1>i. \A n \in Names : Interval(n) \in Nat
  BY IntervalParsed
<1>w. ASSUME written' = written PROVE \A n \in Names : Interval(n)' = Interval(n)
  BY <1>w DEF Interval
<1>1. ASSUME NEW m \in Names, Prepare(m) PROVE ClockInv'
  <2>1. written' = written /\ now' = now /\ last[m] <= now
    BY <1>1 DEF Prepare
  <2>2. ClockTypeOK'
    BY <1>1, <1>i DEF Prepare, Goto
  <2>3. PaceInv'
    BY <1>1, <1>i, <1>w, <2>1 DEF Prepare, Goto, PaceInv
  <2> QED
    BY <2>2, <2>3
<1>2. ASSUME NEW m \in Names, Compare(m) PROVE ClockInv'
  <2>1. written' = written /\ last[m] <= now
    BY <1>2 DEF Compare
  <2>2. ClockTypeOK'
    BY <1>2 DEF Compare, Goto
  <2>3. PaceInv'
    BY <1>2, <1>i, <1>w, <2>1 DEF Compare, Goto, PaceInv
  <2> QED
    BY <2>2, <2>3
<1>3. ASSUME NEW m \in Names, Wake(m) PROVE ClockInv'
  <2>1. written' = written /\ now' = now
    BY <1>3 DEF Wake
  <2>2. ClockTypeOK'
    BY <1>3, <1>i DEF Wake, Goto
  <2>3. PaceInv'
    BY <1>3, <1>i, <1>w, <2>1 DEF Wake, Goto, PaceInv
  <2> QED
    BY <2>2, <2>3
<1>4. ASSUME NEW m \in Names, Late(m) PROVE ClockInv'
  <2>1. written' = written /\ now' = now /\ last[m] <= now
    BY <1>4 DEF Late
  <2>2. ClockTypeOK'
    BY <1>4, <1>i DEF Late, Goto
  <2>3. PaceInv'
    BY <1>4, <1>i, <1>w, <2>1 DEF Late, Goto, PaceInv
  <2> QED
    BY <2>2, <2>3
<1>5. ASSUME NEW m \in Names, BeginRound(m) PROVE ClockInv'
  <2>1. written' = written /\ now' = now
    BY <1>5 DEF BeginRound
  <2>2. ClockTypeOK'
    BY <1>5 DEF BeginRound, Goto
  <2>3. PaceInv'
    BY <1>5, <1>i, <1>w, <2>1 DEF BeginRound, Goto, PaceInv
  <2> QED
    BY <2>2, <2>3
<1>6. CASE Advance
  <2>1. written' = written /\ now' = now + 1 /\ now < MaxTime
    BY <1>6 DEF Advance
  <2>2. ClockTypeOK'
    BY <1>6 DEF Advance
  <2>3. PaceInv'
    BY <1>6, <1>i, <1>w, <2>1 DEF Advance, PaceInv
  <2> QED
    BY <2>2, <2>3
<1>7. CASE UNCHANGED clockVars
  BY <1>7, ClockUnchanged
<1> QED
  BY <1>1, <1>2, <1>3, <1>4, <1>5, <1>6, <1>7 DEF LoopNext, LoopStep, loopVars

LEMMA ClockInitially == LoopInit => ClockInv
BY ClockAssumption DEF LoopInit, ClockInv, ClockTypeOK, PaceInv

(* Whatever a loop does, the statistics see reports, receptions and resets:   *)
(* what is proved of ThreadStats holds with the real schedule.                *)
THEOREM ImplementsThreadStats == LoopSpec => Spec
<1>1. LoopInit => Init
  BY DEF LoopInit
<1>2. ClockInv /\ [LoopNext]_loopVars => [Next]_vars
  <2> SUFFICES ASSUME ClockInv, [LoopNext]_loopVars PROVE [Next]_vars
    OBVIOUS
  <2>1. ASSUME NEW n \in Names, BeginRound(n) PROVE Tick(n)
    <3>1. now \in Nat /\ last[n] \in Nat /\ last[n] <= now /\ Interval(n) \in Nat
      BY IntervalParsed, ClockAssumption DEF ClockInv, ClockTypeOK
    <3>2. Deviation(n) \in Nat
      BY <3>1 DEF Deviation
    <3> QED
      BY <2>1, <3>2 DEF BeginRound, Tick
  <2>2. ASSUME NEW n \in Names, Prepare(n) \/ Compare(n) \/ Wake(n) \/ Late(n)
        PROVE  UNCHANGED vars
    BY <2>2 DEF Prepare, Compare, Wake, Late
  <2>3. ASSUME Advance PROVE UNCHANGED vars
    BY <2>3 DEF Advance
  <2>4. ASSUME UNCHANGED loopVars PROVE UNCHANGED vars
    BY <2>4 DEF loopVars
  <2> QED
    BY <2>1, <2>2, <2>3, <2>4 DEF LoopNext, LoopStep, Next
<1> QED
  BY <1>1, <1>2, ClockInitially, ClockInductive, PTL DEF LoopSpec, Spec

(* A loop's next deadline is within an interval of its last round and an      *)
(* interval or more after the round before.                                   *)
THEOREM DeadlinesInTime == LoopSpec => []DueInTime
<1>1. ClockInv => DueInTime
  BY DEF ClockInv, PaceInv, DueInTime
<1> QED
  BY <1>1, ClockInitially, ClockInductive, PTL DEF LoopSpec

(* No three rounds of a loop begin within the interval written for it.        *)
THEOREM RoundsAreApart == LoopSpec => NoBurst
<1>1. ClockInv /\ [LoopNext]_loopVars =>
        \A n \in Names :
          /\ pc[n] = "report" /\ pc'[n] = "round"
          /\ Exact(written[n]) <= U64Max
          => now - before[n] >= Exact(written[n])
  <2> SUFFICES ASSUME ClockInv, NEW n \in Names, pc[n] = "report",
                      Exact(written[n]) <= U64Max
               PROVE  now - before[n] >= Exact(written[n])
    OBVIOUS
  <2>1. Interval(n) = Exact(written[n]) /\ Interval(n) \in Nat
    BY IntervalParsed DEF ClockInv
  <2>2. before[n] + Interval(n) <= now /\ now \in Int /\ before[n] \in Int
    BY ClockAssumption DEF ClockInv, ClockTypeOK, PaceInv
  <2> QED
    BY <2>1, <2>2
<1> QED
  BY <1>1, ClockInitially, ClockInductive, PTL DEF LoopSpec, NoBurst

(* Every loop keeps the types of its schedule and of its statistics.          *)
THEOREM LoopTypes == LoopSpec => []LoopTypeOK
<1>1. ClockInv /\ TypeOK => LoopTypeOK
  BY DEF ClockInv, ClockTypeOK, LoopTypeOK
<1> QED
  BY <1>1, ClockInitially, ClockInductive, ImplementsThreadStats, CountersAgree, PTL DEF LoopSpec

(* The statistics of running loops agree.                                     *)
THEOREM LoopsReport == LoopSpec => [](TotalMatchesIters /\ InfoIsConsistent)
<1> QED
  BY ImplementsThreadStats, CountersAgree, InfoConsistent, PTL
=============================================================================
