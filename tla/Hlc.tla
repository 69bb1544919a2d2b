------------------------------ MODULE Hlc ------------------------------
(***************************************************************************)
(* The hybrid logical clock of crates/core/src/hlc.rs: one HLC_STATE per   *)
(* process behind a mutex, advanced by Hlc::now() and packed into the i64  *)
(* that every CRDT row stores in its hlc column.                           *)
(*                                                                         *)
(* The wall clock is the environment: it moves to any reading, backwards   *)
(* too (NTP step, manual change), and may exceed the 47-bit cap.  The      *)
(* static state starts again from (0, 0) in every new process.             *)
(***************************************************************************)
EXTENDS Integers

CONSTANTS HLC_MAX_MS,       \* cap on the millisecond part (2^47 - 1 in the code)
          HLC_MAX_COUNTER,  \* cap on the same-millisecond counter (u16::MAX)
          WallReadings,     \* what SystemTime::now() may return, in ms
          MaxCalls          \* bound: calls of Hlc::now() per process

ASSUME HlcAssumption ==
    /\ HLC_MAX_MS \in Nat
    /\ HLC_MAX_COUNTER \in Nat
    /\ WallReadings \subseteq Nat
    /\ MaxCalls \in Nat

VARIABLES
    wall,      \* the reading the next call will get
    state,     \* HLC_STATE
    returned,  \* the values Hlc::now() returned in this process
    calls      \* how often it was called in this process

hlcVars == <<wall, state, returned, calls>>

\* struct Hlc { ms, counter }; u64 and u16 capped by the two constants.
Stamp == [ms : 0..HLC_MAX_MS, counter : 0..HLC_MAX_COUNTER]

\* #[derive(Ord)]: lexicographic on (ms, counter).
Less(a, b) == a.ms < b.ms \/ (a.ms = b.ms /\ a.counter < b.counter)

\* The static initialiser of HLC_STATE.
Zero == [ms |-> 0, counter |-> 0]

\* The one value after which Hlc::now() can no longer grow.
Ceiling == [ms |-> HLC_MAX_MS, counter |-> HLC_MAX_COUNTER]

Smaller(a, b) == IF a < b THEN a ELSE b

\* Mutant: the wall clock is used without its cap.
UncappedWall(s, w) ==
    IF w > s.ms
      THEN [ms |-> w, counter |-> 0]
      ELSE IF s.counter = HLC_MAX_COUNTER
             THEN [ms |-> s.ms + 1, counter |-> 0]
             ELSE [s EXCEPT !.counter = @ + 1]

\* Mutant: the branch for a wall clock that did not move resets the counter,
\* as if every call found a new millisecond.
ResetsCounter(s, w) ==
    LET wall_ms == Smaller(w, HLC_MAX_MS)
    IN  IF wall_ms > s.ms
          THEN [ms |-> wall_ms, counter |-> 0]
          ELSE [ms |-> s.ms, counter |-> 0]

\* Mutant: the clock follows the wall clock when it steps back.
FollowsWall(s, w) ==
    LET wall_ms == Smaller(w, HLC_MAX_MS)
    IN  IF wall_ms # s.ms
          THEN [ms |-> wall_ms, counter |-> 0]
          ELSE [s EXCEPT !.counter = Smaller(@ + 1, HLC_MAX_COUNTER)]

\* What Hlc::now() leaves in HLC_STATE, and returns, from the state s when
\* the clock reads w.
Advance(s, w) ==
    LET wall_ms == Smaller(w, HLC_MAX_MS)
    IN  IF wall_ms > s.ms
          THEN [ms |-> wall_ms, counter |-> 0]
          ELSE IF s.counter = HLC_MAX_COUNTER
                 THEN [ms |-> Smaller(s.ms + 1, HLC_MAX_MS), counter |-> 0]
                 ELSE [s EXCEPT !.counter = @ + 1]

\* Mutant: the counter is given one bit less than it needs.
NarrowPack(h) == (h.ms % (HLC_MAX_MS + 1)) * HLC_MAX_COUNTER + h.counter

\* Hlc::pack: ms masked to its width and shifted above the counter bits.
Pack(h) == (h.ms % (HLC_MAX_MS + 1)) * (HLC_MAX_COUNTER + 1) + h.counter

\* Hlc::unpack: the low bits are the counter, the masked high bits are ms.
Unpack(p) == [ms      |-> (p \div (HLC_MAX_COUNTER + 1)) % (HLC_MAX_MS + 1),
              counter |-> p % (HLC_MAX_COUNTER + 1)]
-----------------------------------------------------------------------------
HlcInit ==
    /\ wall \in WallReadings
    /\ state = Zero
    /\ returned = {}
    /\ calls = 0

\* The operating system's clock moves, in either direction.
WallMoves ==
    /\ wall' \in WallReadings
    /\ UNCHANGED <<state, returned, calls>>

\* Hlc::now(): read the clock, take the mutex, advance, return the new state.
Now ==
    /\ calls < MaxCalls
    /\ calls' = calls + 1
    /\ state' = Advance(state, wall)
    /\ returned' = returned \cup {state'}
    /\ UNCHANGED wall

\* The process exits and a new one starts: nothing of the clock is persisted.
Restart ==
    /\ state' = Zero
    /\ returned' = {}
    /\ calls' = 0
    /\ UNCHANGED wall

HlcNext == WallMoves \/ Now \/ Restart

HlcSpec == HlcInit /\ [][HlcNext]_hlcVars
-----------------------------------------------------------------------------
HlcTypeOK ==
    /\ wall \in WallReadings
    /\ state \in Stamp
    /\ returned \subseteq Stamp
    /\ calls \in 0..MaxCalls

\* Every value a process has received from Hlc::now() is at most the clock's
\* state, which is itself the latest of them: no call ever returns a value
\* below an earlier one, whatever the wall clock does, as long as the ceiling
\* has not been reached.
StateIsLatest ==
    Ceiling \notin returned =>
        /\ \A h \in returned : h = state \/ Less(h, state)
        /\ returned # {} => state \in returned

\* A call to Hlc::now() never returns a value this process got before, until
\* the clock is at its documented ceiling.
NowIsFresh == [][Now /\ Ceiling \notin returned => state' \notin returned]_hlcVars

\* The i64 order that ORDER BY hlc uses is the order of the stamps, and the
\* packed form loses nothing: checked on every pair a process received.
PackedOrder ==
    \A a, b \in returned :
        /\ Pack(a) < Pack(b) <=> Less(a, b)
        /\ Unpack(Pack(a)) = a
=============================================================================
