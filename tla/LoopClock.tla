----------------------------- MODULE LoopClock -----------------------------
(***************************************************************************)
(* The schedule of the interval loops, src/src/interval.rs, and the jitter   *)
(* they report: Loop::prepare() sets the first deadline, and Loop::tick(),   *)
(* between two rounds, sleeps up to the deadline or, when it has passed,     *)
(* starts the next round at once and counts from there.  What tick() reports *)
(* is folded by ThreadStats.                                                 *)
(*                                                                         *)
(* Time passes between any two steps: a round may take any time, a thread    *)
(* may be woken late, or be held up between two looks at the clock.          *)
(***************************************************************************)
EXTENDS ThreadStats

CONSTANTS
  Unit,      \* 1000 in the code: nanoseconds in "us", and so on
  U64Max,
  Written,   \* <<number, suffix>> of the intervals that occur in the sources
  MaxTime    \* bound: the clock

Suffixes == {"ns", "us", "ms", "s", ""}

ASSUME ClockAssumption ==
  /\ Unit \in Nat \ {0}
  /\ U64Max \in Nat
  /\ Written \subseteq (0 .. U64Max) \X Suffixes
  /\ MaxTime \in Nat

VARIABLES
  now,       \* Instant::now()
  written,   \* the interval of a loop, as the source has it
  pc,        \* where a loop stands: in a round, or in tick()
  next,      \* Loop::next_iter
  last,      \* Loop::t: when the last round began
  before     \* history: when the round before that one began

clockVars == <<now, written, pc, next, last, before>>
loopVars == <<vars, clockVars>>

-----------------------------------------------------------------------------
(* parse_interval(): a number without a suffix is in seconds.  The product   *)
(* wraps round in a build script compiled without overflow checks; one with  *)
(* them panics, and there is no PLC.                                         *)

Factor(suffix) ==
  CASE suffix = "ns" -> 1
    [] suffix = "us" -> Unit
    [] suffix = "ms" -> Unit * Unit
    [] suffix \in {"s", ""} -> Unit * Unit * Unit

Exact(w) == w[1] * Factor(w[2])

ParseInterval(w) == Exact(w) % (U64Max + 1)

Interval(n) == ParseInterval(written[n])

-----------------------------------------------------------------------------
LoopInit ==
  /\ Init
  /\ now = 0
  /\ written \in [Names -> Written]
  /\ pc = [n \in Names |-> "prepare"]
  /\ next = [n \in Names |-> 0]
  /\ last = [n \in Names |-> 0]
  /\ before = [n \in Names |-> 0]

Goto(n, p) == pc' = [pc EXCEPT ![n] = p]

Advance ==
  /\ now < MaxTime
  /\ now' = now + 1
  /\ UNCHANGED <<vars, written, pc, next, last, before>>

(* The end of Loop::prepare(), past the gate and the shift. *)
Prepare(n) ==
  /\ pc[n] = "prepare"
  /\ next' = [next EXCEPT ![n] = now + Interval(n)]
  /\ last' = [last EXCEPT ![n] = now]
  /\ before' = [before EXCEPT ![n] = now - Interval(n)]
  /\ Goto(n, "round")
  /\ UNCHANGED <<vars, now, written>>

(* tick(): the clock against the deadline. *)
Compare(n) ==
  /\ pc[n] = "round"
  /\ Goto(n, IF now > next[n] THEN "late" ELSE "sleep")
  /\ UNCHANGED <<vars, now, written, next, last, before>>

Wake(n) ==
  /\ pc[n] = "sleep"
  /\ now >= next[n]
  /\ next' = [next EXCEPT ![n] = @ + Interval(n)]
  /\ Goto(n, "report")
  /\ UNCHANGED <<vars, now, written, last, before>>

(* Mutant: the loop catches up with the deadlines it has missed. *)
LateCatchesUp(n) ==
  /\ pc[n] = "late"
  /\ next' = [next EXCEPT ![n] = @ + Interval(n)]
  /\ Goto(n, "report")
  /\ UNCHANGED <<vars, now, written, last, before>>

(* Mutant: the deadline is moved once for both cases, and again. *)
LateMovesTwice(n) ==
  /\ pc[n] = "late"
  /\ next' = [next EXCEPT ![n] = now + 2 * Interval(n)]
  /\ Goto(n, "report")
  /\ UNCHANGED <<vars, now, written, last, before>>

(* The loop timeout: a second look at the clock sets the deadline. *)
Late(n) ==
  /\ pc[n] = "late"
  /\ next' = [next EXCEPT ![n] = now + Interval(n)]
  /\ Goto(n, "report")
  /\ UNCHANGED <<vars, now, written, last, before>>

Deviation(n) ==
  LET took == now - last[n]
  IN  IF took > Interval(n) THEN took - Interval(n) ELSE Interval(n) - took

(* The end of tick(): the jitter is reported, and the next round begins. *)
BeginRound(n) ==
  /\ pc[n] = "report"
  /\ Report(n, Deviation(n))
  /\ last' = [last EXCEPT ![n] = now]
  /\ before' = [before EXCEPT ![n] = last[n]]
  /\ Goto(n, "round")
  /\ UNCHANGED <<iters, jitter, now, written, next>>

LoopStep(n) ==
  Prepare(n) \/ Compare(n) \/ Wake(n) \/ Late(n) \/ BeginRound(n)

LoopNext ==
  \/ \E n \in Names : LoopStep(n)
  \/ Receive /\ UNCHANGED clockVars
  \/ Reset /\ UNCHANGED clockVars
  \/ Advance

LoopSpec == LoopInit /\ [][LoopNext]_loopVars

-----------------------------------------------------------------------------
LoopTypeOK ==
  /\ TypeOK
  /\ now \in 0 .. MaxTime
  /\ written \in [Names -> Written]
  /\ pc \in [Names -> {"prepare", "round", "sleep", "late", "report"}]
  /\ next \in [Names -> Nat]
  /\ last \in [Names -> 0 .. now]
  /\ before \in [Names -> Int]

(* A loop never begins three rounds within the interval written for it,      *)
(* however long a round takes and however late it is woken: tick() does not   *)
(* make up for the deadlines it has missed.  Unless the interval overflows    *)
(* u64 where it is parsed (Loop::tick, parse_interval).                       *)
NoBurst ==
  [][\A n \in Names :
       /\ pc[n] = "report" /\ pc'[n] = "round"
       /\ Exact(written[n]) <= U64Max
       => now - before[n] >= Exact(written[n])]_loopVars

(* No round is put off by more than an interval after the one before it      *)
(* began, nor due before an interval has passed since the round before that   *)
(* one: a late wake-up is not carried on (Loop::tick).                        *)
DueInTime ==
  \A n \in Names : pc[n] = "round" =>
    /\ before[n] + Interval(n) <= next[n]
    /\ next[n] <= last[n] + Interval(n)
=============================================================================
