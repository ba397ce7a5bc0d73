---------------------------- MODULE ThreadStats ----------------------------
(***************************************************************************)
(* The thread statistics of src/src/tasks.rs.  Loop::tick() sends the jitter *)
(* of each round into a bounded channel with try_send; the "stats" service   *)
(* receives the reports and folds them into the entry of the thread; the API *)
(* and the statistics log read the entries and the API resets them, all      *)
(* under CONTROLLER_STATS.  iters and total are u32: report_jitter starts    *)
(* the average anew before either would overflow.                            *)
(***************************************************************************)
EXTENDS Integers, Sequences

CONSTANTS
  Names,         \* the registered threads
  U16Max, U32Max,
  ChannelSize    \* STATS_CHANNEL_SIZE

ASSUME StatsAssumption ==
  /\ U16Max \in Nat \ {0}
  /\ U32Max \in Nat
  /\ U16Max <= U32Max
  /\ ChannelSize \in Nat

U16 == 0 .. U16Max
U32 == 0 .. U32Max

NoJitter == [kind |-> "none"]
Jitter   == [kind : {"some"}, min : U16, max : U16, last : U16, total : U32]

VARIABLES
  iters,     \* ThreadStats::iters of each thread
  jitter,    \* ThreadStats::jitter of each thread
  channel    \* the reports between the threads and the stats service

vars == <<iters, jitter, channel>>

Init ==
  /\ iters = [n \in Names |-> 0]
  /\ jitter = [n \in Names |-> NoJitter]
  /\ channel = <<>>

-----------------------------------------------------------------------------
(* Mutant: the conversion does not saturate. *)
AsWide(v) == v

(* as_u16_max() *)
AsU16Max(v) == IF v > U16Max THEN U16Max ELSE v

(* JitterStats::new() *)
NewJitter(j) == [kind |-> "some", min |-> j, max |-> j, last |-> j, total |-> j]

(* u32 additions, which wrap in a release build. *)
Add32(a, b) == (a + b) % (U32Max + 1)

(* ThreadStats::report_jitter(): the counter first, then the statistics. *)
WasReset(n)  == iters[n] = U32Max
Counted(n)   == IF WasReset(n) THEN 1 ELSE Add32(iters[n], 1)
Overflows(n, j) == jitter[n].total > U32Max - j

Folded(n, j) ==
  [kind  |-> "some",
   min   |-> IF jitter[n].min > j THEN j ELSE jitter[n].min,
   max   |-> IF jitter[n].max < j THEN j ELSE jitter[n].max,
   last  |-> j,
   total |-> IF WasReset(n) \/ Overflows(n, j) THEN j
             ELSE Add32(jitter[n].total, j)]

(* Mutant: the total is restarted without the counter. *)
ReportJitterTotalOnly(n, j) ==
  /\ iters' = [iters EXCEPT ![n] = Counted(n)]
  /\ jitter' = [jitter EXCEPT ![n] =
                   IF jitter[n] = NoJitter THEN NewJitter(j) ELSE Folded(n, j)]

ReportJitter(n, j) ==
  IF jitter[n] = NoJitter
  THEN /\ iters' = [iters EXCEPT ![n] = Counted(n)]
       /\ jitter' = [jitter EXCEPT ![n] = NewJitter(j)]
  ELSE /\ iters' = [iters EXCEPT ![n] =
                      IF ~WasReset(n) /\ Overflows(n, j) THEN 1 ELSE Counted(n)]
       /\ jitter' = [jitter EXCEPT ![n] = Folded(n, j)]

-----------------------------------------------------------------------------
(* report_jitter(): a report that finds the channel full is dropped. *)
Report(n, micros) ==
  channel' = IF Len(channel) < ChannelSize
             THEN Append(channel, <<n, AsU16Max(micros)>>)
             ELSE channel

(* The end of Loop::tick(), whatever it has measured: see LoopClock. *)
Tick(n) ==
  /\ \E micros \in Nat : Report(n, micros)
  /\ UNCHANGED <<iters, jitter>>

(* The stats service. *)
Receive ==
  /\ channel # <<>>
  /\ ReportJitter(Head(channel)[1], Head(channel)[2])
  /\ channel' = Tail(channel)

(* Mutant: the statistics survive the reset of the counter. *)
ResetItersOnly ==
  /\ iters' = [n \in Names |-> 0]
  /\ UNCHANGED <<jitter, channel>>

(* reset_thread_stats(), from the API. *)
Reset ==
  /\ iters' = [n \in Names |-> 0]
  /\ jitter' = [n \in Names |-> NoJitter]
  /\ UNCHANGED channel

Next == (\E n \in Names : Tick(n)) \/ Receive \/ Reset

Spec == Init /\ [][Next]_vars

-----------------------------------------------------------------------------
(* ThreadStats::info(): the average a reader is given. *)
Average(n) == AsU16Max(jitter[n].total \div iters[n])

TypeOK ==
  /\ iters \in [Names -> U32]
  /\ jitter \in [Names -> Jitter \cup {NoJitter}]
  /\ channel \in Seq(Names \X U16)

(* The average is computed of as many reports as the total has summed, even  *)
(* when one of the two has just been restarted: iters reports, none below    *)
(* min and none above max, add up to total (report_jitter).                  *)
TotalMatchesIters ==
  \A n \in Names : jitter[n] # NoJitter =>
    /\ jitter[n].min * iters[n] <= jitter[n].total
    /\ jitter[n].total <= jitter[n].max * iters[n]

(* A reader never divides by zero, and is never given an average outside the *)
(* extremes it is given with it (info).                                      *)
InfoIsConsistent ==
  \A n \in Names : jitter[n] # NoJitter =>
    /\ iters[n] > 0
    /\ jitter[n].min <= Average(n) /\ Average(n) <= jitter[n].max
    /\ jitter[n].min <= jitter[n].last /\ jitter[n].last <= jitter[n].max
=============================================================================
