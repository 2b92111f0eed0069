----------------------------- MODULE Nanosleep ------------------------------
(***************************************************************************)
(* The arithmetic of sys_nanosleep (src/syscall.rs): seconds and           *)
(* nanoseconds, both signed integers of Width bits, become timer ticks.    *)
(* One multiplication is unchecked: a development build panics when it     *)
(* overflows, a release build wraps around.                                *)
(***************************************************************************)
EXTENDS Integers

CONSTANTS
  Width,       \* bits of an integer, 64 in the code
  TimerHz,     \* TIMER_HZ, 100 in the code
  PerSecond    \* nanoseconds of a second

\* The powers of two.
Pow2[n \in Nat] == IF n = 0 THEN 1 ELSE 2 * Pow2[n - 1]

MaxInt == Pow2[Width - 1] - 1

MinInt == -Pow2[Width - 1]

Ints == MinInt .. MaxInt

\* A second's nanoseconds can be multiplied by the tick rate.
ASSUME NanosleepAssumption ==
  /\ Width \in Nat \ {0} /\ TimerHz \in Nat \ {0} /\ PerSecond \in Nat \ {0}
  /\ PerSecond * TimerHz <= MaxInt

VARIABLES
  request,   \* the timespec: sec and nsec
  release,   \* whether the kernel is a release build
  asleep,    \* "asked", then "asleep" or "panic"
  ticks      \* how many ticks the call sleeps

sleepVars == <<request, release, asleep, ticks>>

NanosleepInit ==
  /\ request \in [sec : Ints, nsec : Ints]
  /\ release \in BOOLEAN
  /\ asleep = "asked"
  /\ ticks = 0

Saturate(x) == IF x > MaxInt THEN MaxInt ELSE IF x < MinInt THEN MinInt ELSE x

Wrap(x) == ((x - MinInt) % Pow2[Width]) + MinInt

\* Rust's division rounds towards zero.
Quotient(x, y) == IF x >= 0 THEN x \div y ELSE -((-x) \div y)

\* Mutant: the seconds are multiplied without saturation.
SecondTicksWrap(sec) == Wrap(sec * TimerHz)

\* sec.saturating_mul(hz)
SecondTicks(sec) == Saturate(sec * TimerHz)

\* (nsec * hz) / 1_000_000_000, in a build that wraps.
NanoTicks(nsec) == Quotient(Wrap(nsec * TimerHz), PerSecond)

\* saturating_add, max(1)
Ticks(sec, nsec) ==
  LET sum == Saturate(SecondTicks(sec) + NanoTicks(nsec))
  IN  IF sum < 1 THEN 1 ELSE sum

\* sys_nanosleep past its pointer checks.
SysNanosleep ==
  /\ asleep = "asked"
  /\ IF ~release /\ request.nsec * TimerHz \notin Ints
     THEN asleep' = "panic" /\ UNCHANGED ticks
     ELSE asleep' = "asleep" /\ ticks' = Ticks(request.sec, request.nsec)
  /\ UNCHANGED <<request, release>>

NanosleepSpec == NanosleepInit /\ [][SysNanosleep]_sleepVars

-----------------------------------------------------------------------------

\* A proper request, in either build, sleeps the whole ticks of the time asked
\* for, or one tick if that is none, or the longest sleep there is if the ticks
\* do not fit: no step of the conversion overflows and a long sleep never
\* becomes a short one.  Any other request that does not panic still sleeps a
\* positive number of ticks.
SleepIsWholeTicks ==
  LET sec == request.sec  nsec == request.nsec
      exact == ((sec * PerSecond + nsec) * TimerHz) \div PerSecond
  IN  /\ asleep # "asked" /\ sec >= 0 /\ nsec \in 0 .. (PerSecond - 1) =>
           /\ asleep = "asleep"
           /\ ticks = IF exact < 1 THEN 1 ELSE Saturate(exact)
      /\ asleep = "asleep" => ticks \in 1 .. MaxInt

=============================================================================
