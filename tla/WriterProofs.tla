-------------------------- MODULE WriterProofs --------------------------
(***************************************************************************)
(* The writer actor, and the clock that stamps its commands.               *)
(*                                                                         *)
(* The clock: for every cap and every sequence of wall-clock readings.     *)
(* The actor keeps the promise of AtomicWrites for any number of commands, *)
(* handles and crashes: each command is committed at most once, Ok means   *)
(* committed and an error means not committed.                             *)
(***************************************************************************)
EXTENDS Hlc, Writer, TLAPS

(***************************************************************************)
(* The hybrid logical clock.                                               *)
(***************************************************************************)
\* Hlc::now() keeps both parts of HLC_STATE within their caps.
LEMMA AdvanceType ==
    ASSUME NEW s \in Stamp, NEW w \in Nat
    PROVE  Advance(s, w) \in Stamp
BY HlcAssumption DEF Stamp, Advance, Smaller

\* Below the ceiling, Hlc::now() returns a value strictly above the state it
\* found, whether the wall clock advanced, stood still or stepped back.
LEMMA AdvanceGrows ==
    ASSUME NEW s \in Stamp, NEW w \in Nat, s # Ceiling
    PROVE  Less(s, Advance(s, w))
<1>1. s.ms \in Nat /\ s.counter \in Nat /\ s.ms <= HLC_MAX_MS /\ s.counter <= HLC_MAX_COUNTER
  BY HlcAssumption DEF Stamp
<1>2. s.ms # HLC_MAX_MS \/ s.counter # HLC_MAX_COUNTER
  BY DEF Stamp, Ceiling
<1>3. QED
  BY <1>1, <1>2, HlcAssumption DEF Less, Advance, Smaller, Stamp

\* The order on stamps is a strict order.
LEMMA LessTransitive ==
    ASSUME NEW a \in Stamp, NEW b \in Stamp, NEW c \in Stamp, Less(a, b), Less(b, c)
    PROVE  Less(a, c)
BY HlcAssumption DEF Less, Stamp

\* No stamp is below itself.
LEMMA LessIrreflexive ==
    ASSUME NEW a \in Stamp
    PROVE  ~ Less(a, a)
BY HlcAssumption DEF Less, Stamp

\* Type correctness of the clock.
THEOREM HlcTypeCorrect == HlcSpec => []HlcTypeOK
<1>1. HlcInit => HlcTypeOK
  BY HlcAssumption DEF HlcInit, HlcTypeOK, Zero, Stamp
<1>2. HlcTypeOK /\ [HlcNext]_hlcVars => HlcTypeOK'
  <2> SUFFICES ASSUME HlcTypeOK, [HlcNext]_hlcVars PROVE HlcTypeOK'
    OBVIOUS
  <2>1. CASE WallMoves
    BY <2>1 DEF WallMoves, HlcTypeOK
  <2>2. CASE Now
    BY <2>2, AdvanceType, HlcAssumption DEF Now, HlcTypeOK
  <2>3. CASE Restart
    BY <2>3, HlcAssumption DEF Restart, HlcTypeOK, Zero, Stamp
  <2>4. CASE UNCHANGED hlcVars
    BY <2>4 DEF hlcVars, HlcTypeOK
  <2> QED BY <2>1, <2>2, <2>3, <2>4 DEF HlcNext
<1> QED BY <1>1, <1>2, PTL DEF HlcSpec

\* One step keeps the clock's state at or above every value it returned.
LEMMA StateIsLatestStep == HlcTypeOK /\ StateIsLatest /\ [HlcNext]_hlcVars => StateIsLatest'
<1> SUFFICES ASSUME HlcTypeOK, StateIsLatest, [HlcNext]_hlcVars PROVE StateIsLatest'
  OBVIOUS
<1>1. CASE WallMoves
  BY <1>1 DEF WallMoves, StateIsLatest
<1>2. CASE Now
  <2> SUFFICES ASSUME Ceiling \notin returned'
               PROVE  /\ \A h \in returned' : h = state' \/ Less(h, state')
                      /\ state' \in returned'
    BY DEF StateIsLatest
  <2>1. Ceiling \notin returned /\ state' # Ceiling /\ state' = Advance(state, wall)
    BY <1>2 DEF Now
  <2>2. returned = {} \/ state # Ceiling
    BY <2>1 DEF StateIsLatest
  <2>3. ASSUME NEW h \in returned PROVE Less(h, state')
    <3>1. Less(state, state')
      BY <2>1, <2>2, <2>3, AdvanceGrows, HlcAssumption DEF HlcTypeOK
    <3>2. h = state \/ Less(h, state)
      BY <2>1, <2>3 DEF StateIsLatest
    <3>3. h \in Stamp /\ state \in Stamp /\ state' \in Stamp
      BY <2>1, AdvanceType, HlcAssumption DEF HlcTypeOK
    <3> QED BY <3>1, <3>2, <3>3, LessTransitive
  <2> QED BY <1>2, <2>3 DEF Now
<1>3. CASE Restart
  BY <1>3 DEF Restart, StateIsLatest
<1>4. CASE UNCHANGED hlcVars
  BY <1>4 DEF hlcVars, StateIsLatest
<1> QED BY <1>1, <1>2, <1>3, <1>4 DEF HlcNext

\* The clock's state bounds every value Hlc::now() returned in the process.
THEOREM LatestInvariant == HlcSpec => []StateIsLatest
<1>1. HlcInit => StateIsLatest
  BY DEF HlcInit, StateIsLatest
<1> QED BY <1>1, StateIsLatestStep, HlcTypeCorrect, PTL DEF HlcSpec

\* Hlc::now() never repeats a value within a process before the ceiling.
THEOREM FreshStamps == HlcSpec => NowIsFresh
<1>1. HlcTypeOK /\ StateIsLatest /\ [HlcNext]_hlcVars
        => [Now /\ Ceiling \notin returned => state' \notin returned]_hlcVars
  <2> SUFFICES ASSUME HlcTypeOK, StateIsLatest, Now, Ceiling \notin returned
               PROVE  state' \notin returned
    OBVIOUS
  <2>1. SUFFICES ASSUME state' \in returned PROVE FALSE
    OBVIOUS
  <2>2. state \in returned /\ state # Ceiling
    BY <2>1 DEF StateIsLatest
  <2>3. Less(state, state')
    BY <2>2, AdvanceGrows, HlcAssumption DEF HlcTypeOK, Now
  <2>4. state' = state \/ Less(state', state)
    BY <2>1 DEF StateIsLatest
  <2>5. state \in Stamp /\ state' \in Stamp
    BY <2>1 DEF HlcTypeOK
  <2> QED BY <2>3, <2>4, <2>5, LessTransitive, LessIrreflexive
<1> QED BY <1>1, HlcTypeCorrect, LatestInvariant, PTL DEF HlcSpec, NowIsFresh
-----------------------------------------------------------------------------
\* The packed i64 of a stamp below the cap is its radix-(counter) numeral.
LEMMA PackValue ==
    ASSUME NEW h \in Stamp
    PROVE  Pack(h) = h.ms * (HLC_MAX_COUNTER + 1) + h.counter
<1>1. h.ms \in 0..HLC_MAX_MS
  BY DEF Stamp
<1>2. h.ms % (HLC_MAX_MS + 1) = h.ms
  BY <1>1, HlcAssumption
<1> QED BY <1>2 DEF Pack

\* Multiplication by a natural is monotone: the one nonlinear fact needed.
LEMMA TimesMonotone ==
    ASSUME NEW i \in Nat, NEW j \in Nat, NEW k \in Nat, i < j
    PROVE  i * k + k <= j * k
<1>1. PICK d \in Nat : j = i + 1 + d
  <2>1. j - i - 1 \in Nat /\ j = i + 1 + (j - i - 1)
    OBVIOUS
  <2> QED BY <2>1
<1>2. j * k = i * k + k + d * k
  BY <1>1
<1>3. d * k \in Nat /\ i * k \in Nat
  OBVIOUS
<1> QED BY <1>2, <1>3

\* A smaller stamp packs to a smaller integer.
LEMMA PackGrows ==
    ASSUME NEW a \in Stamp, NEW b \in Stamp, Less(a, b)
    PROVE  Pack(a) < Pack(b)
<1> DEFINE k == HLC_MAX_COUNTER + 1
<1>1. /\ a.ms \in Nat /\ b.ms \in Nat /\ a.counter \in Nat /\ b.counter \in Nat
      /\ a.counter < k /\ b.counter < k /\ k \in Nat
  BY HlcAssumption DEF Stamp
<1>2. Pack(a) = a.ms * k + a.counter /\ Pack(b) = b.ms * k + b.counter
  BY PackValue
<1>3. a.ms * k \in Nat /\ b.ms * k \in Nat
  BY <1>1
<1> HIDE DEF k
<1>4. CASE a.ms < b.ms
  <2>1. a.ms * k + k <= b.ms * k
    BY <1>1, <1>4, TimesMonotone
  <2> DEFINE p == a.ms * k
             q == b.ms * k
  <2>2. p \in Nat /\ q \in Nat /\ p + k <= q
    BY <1>3, <2>1
  <2> HIDE DEF p, q
  <2>3. p + a.counter < q + b.counter
    BY <1>1, <2>2
  <2> QED BY <1>2, <2>3 DEF p, q
<1>5. CASE a.ms = b.ms /\ a.counter < b.counter
  <2> DEFINE p == a.ms * k
  <2>1. p \in Nat
    BY <1>3
  <2> HIDE DEF p
  <2>2. p + a.counter < p + b.counter
    BY <1>1, <1>5, <2>1
  <2> QED BY <1>2, <1>5, <2>2 DEF p
<1> QED BY <1>4, <1>5 DEF Less

\* ORDER BY hlc on the packed column orders rows exactly as the stamps are
\* ordered, for every pair of stamps and every width of the two fields.
THEOREM PackPreservesOrder ==
    ASSUME NEW a \in Stamp, NEW b \in Stamp
    PROVE  Pack(a) < Pack(b) <=> Less(a, b)
<1>1. Less(a, b) => Pack(a) < Pack(b)
  BY PackGrows
<1>2. Less(a, b) \/ a = b \/ Less(b, a)
  BY HlcAssumption DEF Less, Stamp
<1>3. Less(b, a) => Pack(b) < Pack(a)
  BY PackGrows
<1>4. Pack(a) \in Int /\ Pack(b) \in Int
  BY PackValue, HlcAssumption DEF Stamp
<1>5. Pack(a) < Pack(b) /\ Pack(b) < Pack(a) => FALSE
  BY <1>4
<1>6. a = b => ~(Pack(a) < Pack(b))
  BY <1>4
<1> QED BY <1>1, <1>2, <1>3, <1>5, <1>6
-----------------------------------------------------------------------------
(***************************************************************************)
(* The writer actor.                                                       *)
(***************************************************************************)
\* What is queued is waiting, once, and not committed.
QueueInv ==
    /\ \A i \in 1..Len(queue) : queue[i] \in Command =>
          call[queue[i]] = "waiting" /\ ~Logged(queue[i])
    /\ \A i, j \in 1..Len(queue) : queue[i] \in Command /\ queue[i] = queue[j] => i = j

\* The command in the handler's hands, by the handler's progress.
HandInv ==
    /\ pc \in {"execute", "emit", "reply"} => ~Enqueued(cur)
    /\ pc = "execute" => call[cur] = "waiting" /\ ~Logged(cur)
    /\ pc = "emit"    => /\ result = "ok" /\ Logged(cur)
                         /\ call[cur] = IF cur \in Transcript THEN "ok" ELSE "waiting"
    /\ pc = "reply"   => /\ call[cur] = "waiting"
                         /\ \/ result = "ok" /\ Logged(cur)
                            \/ result = "err" /\ ~Logged(cur)

IInv == TypeOK /\ QueueInv /\ HandInv /\ ReplyTellsCommit
-----------------------------------------------------------------------------
\* Appending adds exactly one member.
LEMMA AppendMember ==
    ASSUME NEW S, NEW s \in Seq(S), NEW x \in S, NEW c
    PROVE  (\E i \in 1..Len(Append(s, x)) : Append(s, x)[i] = c)
             <=> (\E i \in 1..Len(s) : s[i] = c) \/ c = x
<1>1. /\ Len(Append(s, x)) = Len(s) + 1
      /\ \A i \in 1..Len(s) : Append(s, x)[i] = s[i]
      /\ Append(s, x)[Len(s) + 1] = x
      /\ Len(s) \in Nat
  OBVIOUS
<1>2. ASSUME NEW i \in 1..Len(Append(s, x)), Append(s, x)[i] = c
      PROVE  (\E k \in 1..Len(s) : s[k] = c) \/ c = x
  BY <1>1, <1>2
<1>3. ASSUME NEW i \in 1..Len(s), s[i] = c
      PROVE  \E k \in 1..Len(Append(s, x)) : Append(s, x)[k] = c
  BY <1>1, <1>3
<1>4. ASSUME c = x
      PROVE  \E k \in 1..Len(Append(s, x)) : Append(s, x)[k] = c
  BY <1>1, <1>4
<1> QED BY <1>2, <1>3, <1>4

\* A sequence without repetitions stays one when a new member is appended.
LEMMA AppendDistinct ==
    ASSUME NEW S, NEW s \in Seq(S), NEW x \in S,
           \A i \in 1..Len(s) : s[i] # x,
           \A i, j \in 1..Len(s) : s[i] = s[j] => i = j
    PROVE  \A i, j \in 1..Len(Append(s, x)) : Append(s, x)[i] = Append(s, x)[j] => i = j
<1>1. /\ Len(Append(s, x)) = Len(s) + 1
      /\ \A i \in 1..Len(s) : Append(s, x)[i] = s[i]
      /\ Append(s, x)[Len(s) + 1] = x
      /\ Len(s) \in Nat
  OBVIOUS
<1> QED BY <1>1

\* What the head of a sequence leaves behind, position by position.
LEMMA TailFacts ==
    ASSUME NEW S, NEW s \in Seq(S), s # <<>>
    PROVE  /\ Head(s) = s[1] /\ Head(s) \in S
           /\ Tail(s) \in Seq(S)
           /\ Len(Tail(s)) = Len(s) - 1 /\ Len(s) \in Nat \ {0}
           /\ \A i \in 1..Len(Tail(s)) : i + 1 \in 1..Len(s) /\ Tail(s)[i] = s[i + 1]
OBVIOUS

\* Steps that leave queue, log, calls and the handler's hands alone.
LEMMA QuietStep ==
    ASSUME IInv, TypeOK', UNCHANGED <<call, queue, log, pc, cur, result>>
    PROVE  IInv'
<1> QED BY DEF IInv, QueueInv, HandInv, ReplyTellsCommit, Logged, Enqueued

LEMMA InitIInv == Init => IInv
<1> SUFFICES ASSUME Init PROVE IInv
  OBVIOUS
<1>1. TypeOK
  <2>1. 0 \in 0..MaxCrashes
    BY WriterAssumption
  <2>2. /\ queue \in Seq(Command \cup {Shutdown})
        /\ log \in Seq(Command) /\ bus \in Seq(Command)
    BY DEF Init
  <2>3. /\ call \in [Command -> {"new", "waiting", "ok", "err", "lost"}]
        /\ joiner \in [Handle -> {"idle", "sent", "joining", "joined", "skipped", "dropped"}]
    BY DEF Init
  <2> QED BY <2>1, <2>2, <2>3 DEF Init, TypeOK
<1>2. QueueInv /\ HandInv /\ ReplyTellsCommit
  BY DEF Init, QueueInv, HandInv, ReplyTellsCommit, Logged, Enqueued
<1> QED BY <1>1, <1>2 DEF IInv

LEMMA SendStep == ASSUME IInv, NEW c \in Command, Send(c) PROVE IInv'
<1> USE DEF IInv
<1>1. TypeOK'
  <2>1. /\ call' \in [Command -> {"new", "waiting", "ok", "err", "lost"}]
        /\ queue' \in Seq(Command \cup {Shutdown})
        /\ behind' \subseteq Command
    <3>1. CASE pc = "exited"
      BY <3>1 DEF TypeOK, Send
    <3>2. CASE pc # "exited"
      <4>1. call' = [call EXCEPT ![c] = "waiting"] /\ queue' = Append(queue, c)
        BY <3>2 DEF Send
      <4>2. behind' \subseteq Command
        BY <3>2 DEF Send, TypeOK
      <4> QED BY <4>1, <4>2 DEF TypeOK
    <3> QED BY <3>1, <3>2
  <2>2. UNCHANGED <<pc, cur, result, log, bus, joiner, taken, held, crashes>>
    BY DEF Send, thread, handles
  <2> QED BY <2>1, <2>2 DEF TypeOK
<1>2. UNCHANGED <<log, pc, cur, result>> /\ call[c] = "new" /\ ~Logged(c)
  BY DEF Send, thread, ReplyTellsCommit
<1>3. \A d : Logged(d)' <=> Logged(d)
  BY <1>2 DEF Logged
<1>4. CASE pc = "exited"
  <2>1. queue' = queue /\ call' = [call EXCEPT ![c] = "err"]
    BY <1>4 DEF Send
  <2>2. QueueInv'
    BY <2>1, <1>2, <1>3 DEF QueueInv, TypeOK
  <2>3. HandInv'
    BY <2>1, <1>2, <1>3, <1>4 DEF HandInv
  <2>4. ReplyTellsCommit'
    BY <2>1, <1>2, <1>3 DEF ReplyTellsCommit, TypeOK
  <2> QED BY <1>1, <2>2, <2>3, <2>4
<1>5. CASE pc # "exited"
  <2>1. queue' = Append(queue, c) /\ call' = [call EXCEPT ![c] = "waiting"]
    BY <1>5 DEF Send
  <2>2. /\ Len(queue') = Len(queue) + 1 /\ Len(queue) \in Nat
        /\ \A i \in 1..Len(queue) : queue'[i] = queue[i]
        /\ queue'[Len(queue) + 1] = c
    BY <2>1 DEF TypeOK
  <2>3. \A i \in 1..Len(queue) : queue[i] # c
    BY <1>2 DEF QueueInv
  <2>4. QueueInv'
    <3>1. ASSUME NEW i \in 1..Len(queue'), queue'[i] \in Command
          PROVE  (call[queue[i]] = "waiting" /\ ~Logged(queue[i]))'
      <4>1. CASE i = Len(queue) + 1
        BY <4>1, <2>1, <2>2, <1>2 DEF TypeOK, Logged
      <4>2. CASE i \in 1..Len(queue)
        <5>1. queue'[i] = queue[i] /\ queue[i] # c
          BY <4>2, <2>2, <2>3
        <5>2. call[queue[i]] = "waiting" /\ ~Logged(queue[i])
          BY <5>1, <4>2, <3>1 DEF QueueInv
        <5> QED BY <5>1, <5>2, <3>1, <2>1, <1>2 DEF TypeOK, Logged
      <4> QED BY <4>1, <4>2, <2>2
    <3>2. ASSUME NEW i \in 1..Len(queue'), NEW j \in 1..Len(queue'),
                 queue'[i] \in Command, queue'[i] = queue'[j]
          PROVE  i = j
      BY <3>2, <2>2, <2>3 DEF QueueInv
    <3> QED BY <3>1, <3>2 DEF QueueInv, Logged
  <2>5. \A x : Enqueued(x)' <=> Enqueued(x) \/ x = c
    BY <2>2 DEF Enqueued
  <2>6. HandInv'
    <3>1. pc \in {"execute", "emit", "reply"} => cur # c
      BY <1>2 DEF HandInv
    <3> QED BY <3>1, <2>1, <2>5, <1>2, <1>3 DEF HandInv, TypeOK
  <2>7. ReplyTellsCommit'
    BY <2>1, <1>2, <1>3 DEF ReplyTellsCommit, TypeOK
  <2> QED BY <1>1, <2>4, <2>6, <2>7
<1> QED BY <1>4, <1>5

LEMMA RecvStep == ASSUME IInv, Recv PROVE IInv'
<1> USE DEF IInv
<1>1. /\ UNCHANGED <<call, result, log>> /\ queue # <<>> /\ pc = "recv"
      /\ cur' = Head(queue) /\ queue' = Tail(queue)
      /\ pc' = IF Head(queue) = Shutdown THEN "exiting" ELSE "execute"
  BY DEF Recv
<1>2. /\ Head(queue) = queue[1] /\ Head(queue) \in Command \cup {Shutdown}
      /\ queue' \in Seq(Command \cup {Shutdown})
      /\ Len(queue') = Len(queue) - 1 /\ Len(queue) \in Nat \ {0}
      /\ \A i \in 1..Len(queue') : i + 1 \in 1..Len(queue) /\ queue'[i] = queue[i + 1]
  BY <1>1, TailFacts DEF TypeOK
<1>3. TypeOK'
  BY <1>1, <1>2 DEF TypeOK, Recv, handles, history
<1>4. \A d : Logged(d)' <=> Logged(d)
  BY <1>1 DEF Logged
<1>5. QueueInv'
  <2>1. ASSUME NEW i \in 1..Len(queue'), queue'[i] \in Command
        PROVE  (call[queue[i]] = "waiting" /\ ~Logged(queue[i]))'
    BY <2>1, <1>1, <1>2 DEF QueueInv, Logged
  <2>2. ASSUME NEW i \in 1..Len(queue'), NEW j \in 1..Len(queue'),
               queue'[i] \in Command, queue'[i] = queue'[j]
        PROVE  i = j
    BY <2>2, <1>2 DEF QueueInv
  <2> QED BY <2>1, <2>2 DEF QueueInv, Logged
<1>6. HandInv'
  <2>1. CASE Head(queue) = Shutdown
    BY <2>1, <1>1 DEF HandInv
  <2>2. CASE Head(queue) # Shutdown
    <3>1. cur' \in Command /\ cur' = queue[1] /\ pc' = "execute" /\ 1 \in 1..Len(queue)
      BY <2>2, <1>1, <1>2
    <3>2. call'[cur'] = "waiting" /\ ~Logged(cur')
      BY <3>1, <1>1 DEF QueueInv
    <3>3. ASSUME NEW i \in 1..Len(queue'), queue'[i] = cur' PROVE FALSE
      BY <3>3, <3>1, <1>2 DEF QueueInv
    <3> QED BY <3>1, <3>2, <3>3, <1>4 DEF HandInv, Enqueued
  <2> QED BY <2>1, <2>2
<1>7. ReplyTellsCommit'
  BY <1>1, <1>4 DEF ReplyTellsCommit
<1> QED BY <1>3, <1>5, <1>6, <1>7

LEMMA ExecuteStep == ASSUME IInv, Execute PROVE IInv'
<1> USE DEF IInv
<1>1. /\ UNCHANGED <<call, queue, cur>> /\ pc = "execute" /\ cur \in Command
      /\ ~Enqueued(cur) /\ call[cur] = "waiting" /\ ~Logged(cur)
  BY DEF Execute, HandInv, TypeOK
<1>2. CASE result' = "err" /\ UNCHANGED log /\ pc' = "reply"
  <2>1. TypeOK'
    BY <1>1, <1>2 DEF TypeOK, Execute, handles, history
  <2> QED BY <2>1, <1>1, <1>2 DEF QueueInv, HandInv, ReplyTellsCommit, Logged, Enqueued
<1>3. CASE /\ result' = "ok" /\ log' = Append(log, cur)
           /\ pc' = IF cur \in Transcript \cup Silent THEN "reply" ELSE "emit"
  <2>1. TypeOK'
    BY <1>1, <1>3 DEF TypeOK, Execute, handles, history
  <2>2. \A d : Logged(d)' <=> Logged(d) \/ d = cur
    <3> SUFFICES ASSUME NEW d PROVE Logged(d)' <=> Logged(d) \/ d = cur
      OBVIOUS
    <3>1. log \in Seq(Command) /\ cur \in Command
      BY <1>1 DEF TypeOK
    <3>2. (\E i \in 1..Len(Append(log, cur)) : Append(log, cur)[i] = d)
             <=> (\E i \in 1..Len(log) : log[i] = d) \/ d = cur
      BY <3>1, AppendMember
    <3> QED BY <3>2, <1>3 DEF Logged
  <2>3. \A x : Enqueued(x)' <=> Enqueued(x)
    BY <1>1 DEF Enqueued
  <2>4. QueueInv'
    BY <1>1, <2>2 DEF QueueInv, Enqueued
  <2>5. HandInv'
    BY <1>1, <1>3, <2>2, <2>3 DEF HandInv
  <2>6. \A i, j \in 1..Len(log') : log'[i] = log'[j] => i = j
    <3>1. \A i \in 1..Len(log) : log[i] # cur
      BY <1>1 DEF Logged
    <3>2. \A i, j \in 1..Len(log) : log[i] = log[j] => i = j
      BY DEF ReplyTellsCommit
    <3> QED BY <3>1, <3>2, <1>1, <1>3, AppendDistinct DEF TypeOK
  <2>7. ReplyTellsCommit'
    BY <2>6, <2>2, <1>1 DEF ReplyTellsCommit
  <2> QED BY <2>1, <2>4, <2>5, <2>7
<1> QED BY <1>2, <1>3 DEF Execute

LEMMA EmitStep == ASSUME IInv, Emit PROVE IInv'
<1> USE DEF IInv
<1>1. /\ UNCHANGED <<call, queue, cur, result, log>> /\ pc = "emit" /\ cur \in Command
      /\ pc' = IF cur \in Transcript THEN "recv" ELSE "reply"
      /\ bus' = Append(bus, cur)
  BY DEF Emit, TypeOK
<1>2. TypeOK'
  BY <1>1 DEF TypeOK, Emit, handles, history
<1> QED BY <1>1, <1>2 DEF QueueInv, HandInv, ReplyTellsCommit, Logged, Enqueued

LEMMA ReplyStep == ASSUME IInv, ReplyTo PROVE IInv'
<1> USE DEF IInv
<1>1. /\ UNCHANGED <<queue, cur, result, log>> /\ pc = "reply" /\ cur \in Command
      /\ call' = [call EXCEPT ![cur] = result]
      /\ pc' = IF cur \in Transcript /\ result = "ok" THEN "emit" ELSE "recv"
      /\ ~Enqueued(cur)
      /\ \/ result = "ok" /\ Logged(cur)
         \/ result = "err" /\ ~Logged(cur)
  BY DEF ReplyTo, TypeOK, HandInv
<1>2. TypeOK'
  BY <1>1 DEF TypeOK, ReplyTo, handles, history
<1>3. \A d : (Logged(d)' <=> Logged(d)) /\ (Enqueued(d)' <=> Enqueued(d))
  BY <1>1 DEF Logged, Enqueued
<1>4. QueueInv'
  BY <1>1, <1>3 DEF QueueInv, Enqueued, TypeOK
<1>5. HandInv'
  BY <1>1, <1>3 DEF HandInv, TypeOK
<1>6. ReplyTellsCommit'
  BY <1>1, <1>3 DEF ReplyTellsCommit, TypeOK
<1> QED BY <1>2, <1>4, <1>5, <1>6

LEMMA ExitStep == ASSUME IInv, Exit PROVE IInv'
<1> USE DEF IInv
<1>1. UNCHANGED <<cur, result, log>> /\ pc = "exiting" /\ pc' = "exited"
  BY DEF Exit
<1>2. \A d : Logged(d)' <=> Logged(d)
  BY <1>1 DEF Logged
<1>3. HandInv'
  BY <1>1 DEF HandInv
<1>4. CASE UNCHANGED <<call, queue>>
  <2>1. TypeOK'
    BY <1>1, <1>4 DEF TypeOK, Exit, handles, history
  <2> QED BY <2>1, <1>2, <1>3, <1>4, <1>1 DEF QueueInv, ReplyTellsCommit
<1>5. CASE /\ call' = [c \in Command |-> IF Enqueued(c) THEN "err" ELSE call[c]]
           /\ queue' = <<>>
  <2>1. TypeOK'
    BY <1>1, <1>5 DEF TypeOK, Exit, handles, history
  <2>2. QueueInv'
    BY <1>5 DEF QueueInv
  <2>3. ReplyTellsCommit'
    <3>1. \A c \in Command : Enqueued(c) => ~Logged(c)
      BY DEF Enqueued, QueueInv
    <3> QED BY <3>1, <1>1, <1>2, <1>5 DEF ReplyTellsCommit
  <2> QED BY <2>1, <2>2, <2>3, <1>3
<1> QED BY <1>4, <1>5 DEF Exit

LEMMA CrashStep == ASSUME IInv, Crash PROVE IInv'
<1> USE DEF IInv
<1>1. TypeOK'
  <2>1. call' \in [Command -> {"new", "waiting", "ok", "err", "lost"}]
    BY DEF TypeOK, Crash
  <2>2. queue' \in Seq(Command \cup {Shutdown}) /\ crashes' \in 0..MaxCrashes
    BY WriterAssumption DEF TypeOK, Crash
  <2> QED BY <2>1, <2>2 DEF TypeOK, Crash
<1>2. \A d : Logged(d)' <=> Logged(d)
  BY DEF Logged, Crash
<1>3. QueueInv' /\ HandInv'
  BY DEF QueueInv, HandInv, Crash
<1>4. ReplyTellsCommit'
  BY <1>2 DEF ReplyTellsCommit, Crash
<1> QED BY <1>1, <1>3, <1>4

\* join() only adds a Shutdown to the queue.
LEMMA JoinSendStep == ASSUME IInv, NEW h \in Handle, JoinSend(h) PROVE IInv'
<1> USE DEF IInv
<1>1. TypeOK'
  BY DEF TypeOK, JoinSend, thread, history
<1>2. UNCHANGED <<call, log, pc, cur, result>>
  BY DEF JoinSend, thread
<1>3. CASE queue' = queue
  BY <1>1, <1>2, <1>3, QuietStep
<1>4. CASE queue' = Append(queue, Shutdown)
  <2>1. /\ Len(queue') = Len(queue) + 1 /\ Len(queue) \in Nat
        /\ \A i \in 1..Len(queue) : queue'[i] = queue[i]
        /\ queue'[Len(queue) + 1] = Shutdown
    BY <1>4 DEF TypeOK
  <2>2. \A d : Logged(d)' <=> Logged(d)
    BY <1>2 DEF Logged
  <2>3. \A c \in Command : Enqueued(c)' <=> Enqueued(c)
    BY <2>1, WriterAssumption DEF Enqueued
  <2>4. QueueInv'
    <3>1. ASSUME NEW i \in 1..Len(queue'), queue'[i] \in Command
          PROVE  i \in 1..Len(queue) /\ queue'[i] = queue[i]
      BY <3>1, <2>1, WriterAssumption
    <3> QED BY <3>1, <2>2, <1>2 DEF QueueInv
  <2>5. HandInv'
    BY <2>2, <2>3, <1>2 DEF HandInv, TypeOK
  <2>6. ReplyTellsCommit'
    BY <2>2, <1>2 DEF ReplyTellsCommit
  <2> QED BY <1>1, <2>4, <2>5, <2>6
<1> QED BY <1>3, <1>4 DEF JoinSend

\* The invariant is inductive.
LEMMA NextIInv == IInv /\ [Next]_vars => IInv'
<1> SUFFICES ASSUME IInv, [Next]_vars PROVE IInv'
  OBVIOUS
<1>1. ASSUME NEW c \in Command, Send(c) PROVE IInv'
  BY <1>1, SendStep
<1>2. CASE Recv
  BY <1>2, RecvStep
<1>3. CASE Disconnected
  <2>1. TypeOK'
    BY <1>3 DEF IInv, TypeOK, Disconnected, handles, history
  <2> QED BY <1>3, <2>1 DEF IInv, QueueInv, HandInv, ReplyTellsCommit, Logged, Enqueued, Disconnected
<1>4. CASE Execute
  BY <1>4, ExecuteStep
<1>5. CASE Emit
  BY <1>5, EmitStep
<1>6. CASE ReplyTo
  BY <1>6, ReplyStep
<1>7. CASE Exit
  BY <1>7, ExitStep
<1>8. ASSUME NEW h \in Handle, JoinSend(h) PROVE IInv'
  BY <1>8, JoinSendStep
<1>9. ASSUME NEW h \in Handle, JoinTake(h) \/ JoinDone(h) \/ DropHandle(h) PROVE IInv'
  <2>1. TypeOK'
    BY <1>9 DEF IInv, TypeOK, JoinTake, JoinDone, DropHandle, thread, history
  <2>2. UNCHANGED <<call, queue, log, pc, cur, result>>
    BY <1>9 DEF JoinTake, JoinDone, DropHandle, thread
  <2> QED BY <2>1, <2>2, QuietStep
<1>10. CASE DropRepos
  <2>1. TypeOK'
    BY <1>10 DEF IInv, TypeOK, DropRepos, thread, history
  <2>2. UNCHANGED <<call, queue, log, pc, cur, result>>
    BY <1>10 DEF DropRepos, thread
  <2> QED BY <2>1, <2>2, QuietStep
<1>11. CASE Crash
  BY <1>11, CrashStep
<1>12. CASE UNCHANGED vars
  <2>1. TypeOK'
    BY <1>12 DEF IInv, TypeOK, vars, thread, handles, history
  <2>2. UNCHANGED <<call, queue, log, pc, cur, result>>
    BY <1>12 DEF vars, thread
  <2> QED BY <2>1, <2>2, QuietStep
<1> QED
  BY <1>1, <1>2, <1>3, <1>4, <1>5, <1>6, <1>7, <1>8, <1>9, <1>10, <1>11, <1>12
  DEF Next, WriterStep

LEMMA Inductive == Spec => []IInv
<1> QED BY InitIInv, NextIInv, PTL DEF Spec

\* Every state of the writer, its channel and its callers is of its type: the
\* thread holds a command whenever it executes, emits or replies.
THEOREM TypeCorrect == Spec => []TypeOK
<1>1. IInv => TypeOK
  BY DEF IInv
<1> QED BY <1>1, Inductive, PTL

\* No command is committed twice, Ok means committed, an error means not
\* committed: for every number of callers, shutdowns and crashes.
THEOREM RepliesTellCommit == Spec => []ReplyTellsCommit
<1>1. IInv => ReplyTellsCommit
  BY DEF IInv
<1> QED BY <1>1, Inductive, PTL
-----------------------------------------------------------------------------
\* A handler of the common shape that is about to reply Ok has emitted.
AnnouncedInv ==
    /\ EventBeforeReply
    /\ pc = "reply" /\ result = "ok" /\ cur \notin Silent \cup Transcript => Emitted(cur)

LEMMA AnnouncedStep ==
    ASSUME IInv, AnnouncedInv, [Next]_vars PROVE AnnouncedInv'
<1> USE DEF IInv
<1>1. ASSUME UNCHANGED bus PROVE \A c : Emitted(c)' <=> Emitted(c)
  BY <1>1 DEF Emitted
<1>2. ASSUME UNCHANGED <<call, pc, cur, result, bus>> PROVE AnnouncedInv'
  BY <1>2 DEF AnnouncedInv, EventBeforeReply, Emitted
<1>3. ASSUME NEW c \in Command, Send(c) PROVE AnnouncedInv'
  <2>1. /\ UNCHANGED <<pc, cur, result, bus>>
        /\ \A d \in Command : call'[d] = "ok" => call[d] = "ok"
    BY <1>3 DEF Send, thread, TypeOK
  <2> QED BY <2>1, <1>1 DEF AnnouncedInv, EventBeforeReply
<1>4. CASE Recv \/ Disconnected
  <2>1. UNCHANGED <<call, bus>> /\ pc' # "reply"
    BY <1>4 DEF Recv, Disconnected
  <2> QED BY <2>1, <1>1 DEF AnnouncedInv, EventBeforeReply
<1>5. CASE Execute
  <2>1. /\ UNCHANGED <<call, cur, bus>>
        /\ pc' = "reply" /\ result' = "ok" => cur \in Silent \cup Transcript
    BY <1>5 DEF Execute
  <2> QED BY <2>1, <1>1 DEF AnnouncedInv, EventBeforeReply
<1>6. CASE Emit
  <2>1. UNCHANGED <<call, cur>> /\ cur \in Command /\ bus' = Append(bus, cur) /\ bus \in Seq(Command)
    BY <1>6 DEF Emit, TypeOK
  <2>2. ASSUME NEW d PROVE Emitted(d)' <=> Emitted(d) \/ d = cur
    <3>1. (\E i \in 1..Len(Append(bus, cur)) : Append(bus, cur)[i] = d)
             <=> (\E i \in 1..Len(bus) : bus[i] = d) \/ d = cur
      BY <2>1, AppendMember
    <3> QED BY <3>1, <2>1 DEF Emitted
  <2> QED BY <2>1, <2>2 DEF AnnouncedInv, EventBeforeReply
<1>7. CASE ReplyTo
  <2>1. /\ UNCHANGED <<cur, bus>> /\ pc = "reply" /\ pc' # "reply"
        /\ \A d \in Command : call'[d] = "ok" => call[d] = "ok" \/ (d = cur /\ result = "ok")
    BY <1>7 DEF ReplyTo, TypeOK
  <2> QED BY <2>1, <1>1 DEF AnnouncedInv, EventBeforeReply
<1>8. CASE Exit \/ Crash
  <2>1. /\ UNCHANGED bus /\ pc' # "reply"
        /\ \A d \in Command : call'[d] = "ok" => call[d] = "ok"
    BY <1>8 DEF Exit, Crash, TypeOK
  <2> QED BY <2>1, <1>1 DEF AnnouncedInv, EventBeforeReply
<1>9. ASSUME NEW h \in Handle, JoinSend(h) \/ JoinTake(h) \/ JoinDone(h) \/ DropHandle(h)
      PROVE  AnnouncedInv'
  BY <1>9, <1>2 DEF JoinSend, JoinTake, JoinDone, DropHandle, thread
<1>10. CASE DropRepos \/ UNCHANGED vars
  BY <1>10, <1>2 DEF DropRepos, vars, thread
<1> QED
  BY <1>3, <1>4, <1>5, <1>6, <1>7, <1>8, <1>9, <1>10 DEF Next, WriterStep

\* Whoever got an Ok from a handler of the common shape can rely on the event
\* being on the bus, for every order of calls, shutdowns and crashes.
THEOREM EventsPrecedeReplies == Spec => []EventBeforeReply
<1>1. Init => AnnouncedInv
  BY DEF Init, AnnouncedInv, EventBeforeReply
<1>2. IInv /\ AnnouncedInv /\ [Next]_vars => AnnouncedInv'
  BY AnnouncedStep
<1>3. AnnouncedInv => EventBeforeReply
  BY DEF AnnouncedInv
<1> QED BY <1>1, <1>2, <1>3, Inductive, PTL DEF Spec
-----------------------------------------------------------------------------
\* Where a waiting command is, and which queued ones came too late.
DrainInv ==
    /\ \A c \in Command : call[c] = "waiting" =>
          Enqueued(c) \/ (pc \in {"execute", "emit", "reply"} /\ cur = c)
    /\ \A i, j \in 1..Len(queue) :
          i < j /\ queue[i] = Shutdown /\ queue[j] \in Command => queue[j] \in behind
    /\ pc \in {"exiting", "exited"} =>
          \A i \in 1..Len(queue) : queue[i] \in Command => queue[i] \in behind

LEMMA DrainSend == ASSUME IInv, DrainInv, NEW c \in Command, Send(c) PROVE DrainInv'
<1>1. /\ UNCHANGED <<pc, cur>> /\ queue \in Seq(Command \cup {Shutdown})
      /\ call \in [Command -> {"new", "waiting", "ok", "err", "lost"}]
      /\ pc \in {"execute", "emit", "reply"} => cur # c
  BY DEF Send, thread, IInv, TypeOK, HandInv
<1>2. CASE pc = "exited"
  BY <1>1, <1>2 DEF Send, DrainInv, Enqueued
<1>3. CASE pc # "exited"
  <2>1. /\ call' = [call EXCEPT ![c] = "waiting"] /\ queue' = Append(queue, c)
        /\ behind' = IF Closing THEN behind \cup {c} ELSE behind
    BY <1>3 DEF Send
  <2>2. /\ Len(queue') = Len(queue) + 1 /\ Len(queue) \in Nat
        /\ \A i \in 1..Len(queue) : queue'[i] = queue[i]
        /\ queue'[Len(queue) + 1] = c
    BY <2>1, <1>1
  <2>3. \A d \in Command : call'[d] = "waiting" =>
          Enqueued(d)' \/ (pc' \in {"execute", "emit", "reply"} /\ cur' = d)
    <3>1. \A d : Enqueued(d) \/ d = c => Enqueued(d)'
      BY <2>2 DEF Enqueued
    <3> QED BY <3>1, <2>1, <1>1 DEF DrainInv
  <2>4. ASSUME NEW i \in 1..Len(queue'), NEW j \in 1..Len(queue'),
               i < j, queue'[i] = Shutdown, queue'[j] \in Command
        PROVE  queue'[j] \in behind'
    <3>1. i \in 1..Len(queue) /\ queue[i] = Shutdown
      BY <2>4, <2>2
    <3>2. CASE j \in 1..Len(queue)
      BY <3>1, <3>2, <2>1, <2>2, <2>4 DEF DrainInv
    <3>3. CASE j = Len(queue) + 1
      BY <3>1, <3>3, <2>1, <2>2 DEF Closing, Enqueued
    <3> QED BY <3>2, <3>3, <2>2
  <2>5. ASSUME pc' \in {"exiting", "exited"}, NEW i \in 1..Len(queue'), queue'[i] \in Command
        PROVE  queue'[i] \in behind'
    <3>1. pc = "exiting"
      BY <2>5, <1>1, <1>3
    <3>2. CASE i \in 1..Len(queue)
      BY <3>1, <3>2, <2>1, <2>2, <2>5 DEF DrainInv
    <3>3. CASE i = Len(queue) + 1
      BY <3>1, <3>3, <2>1, <2>2 DEF Closing
    <3> QED BY <3>2, <3>3, <2>2
  <2> QED BY <2>3, <2>4, <2>5 DEF DrainInv
<1> QED BY <1>2, <1>3

LEMMA DrainRecv == ASSUME IInv, DrainInv, Recv PROVE DrainInv'
<1>1. /\ UNCHANGED <<call, behind>> /\ queue # <<>> /\ pc = "recv"
      /\ cur' = Head(queue) /\ queue' = Tail(queue)
      /\ pc' = IF Head(queue) = Shutdown THEN "exiting" ELSE "execute"
  BY DEF Recv, history
<1>2. /\ Head(queue) = queue[1] /\ Len(queue) \in Nat \ {0}
      /\ Len(queue') = Len(queue) - 1
      /\ \A i \in 1..Len(queue') : i + 1 \in 1..Len(queue) /\ queue'[i] = queue[i + 1]
  BY <1>1, TailFacts DEF IInv, TypeOK
<1>3. ASSUME NEW c \in Command, call'[c] = "waiting"
      PROVE  Enqueued(c)' \/ (pc' \in {"execute", "emit", "reply"} /\ cur' = c)
  <2>1. PICK i \in 1..Len(queue) : queue[i] = c
    BY <1>1, <1>3 DEF DrainInv, Enqueued
  <2>2. CASE i = 1
    BY <2>1, <2>2, <1>1, <1>2, WriterAssumption
  <2>3. CASE i # 1
    <3>1. i - 1 \in 1..Len(queue') /\ queue'[i - 1] = c
      BY <2>1, <2>3, <1>2
    <3> QED BY <3>1 DEF Enqueued
  <2> QED BY <2>2, <2>3
<1>4. ASSUME NEW i \in 1..Len(queue'), NEW j \in 1..Len(queue'),
             i < j, queue'[i] = Shutdown, queue'[j] \in Command
      PROVE  queue'[j] \in behind'
  <2>1. i + 1 < j + 1 /\ i + 1 \in 1..Len(queue) /\ j + 1 \in 1..Len(queue)
    BY <1>2, <1>4
  <2> QED BY <2>1, <1>1, <1>2, <1>4 DEF DrainInv
<1>5. ASSUME pc' \in {"exiting", "exited"}, NEW i \in 1..Len(queue'), queue'[i] \in Command
      PROVE  queue'[i] \in behind'
  <2>1. queue[1] = Shutdown /\ 1 \in 1..Len(queue) /\ 1 < i + 1 /\ i + 1 \in 1..Len(queue)
    BY <1>1, <1>2, <1>5
  <2> QED BY <2>1, <1>1, <1>2, <1>5 DEF DrainInv
<1> QED BY <1>3, <1>4, <1>5 DEF DrainInv

LEMMA DrainExit == ASSUME IInv, DrainInv, Exit PROVE DrainInv'
<1>1. UNCHANGED <<cur, behind>> /\ pc = "exiting" /\ pc' = "exited"
  BY DEF Exit, history
<1>2. CASE UNCHANGED <<call, queue>>
  BY <1>1, <1>2 DEF DrainInv, Enqueued
<1>3. CASE /\ call' = [c \in Command |-> IF Enqueued(c) THEN "err" ELSE call[c]]
           /\ queue' = <<>>
  BY <1>1, <1>3 DEF DrainInv, Enqueued
<1> QED BY <1>2, <1>3 DEF Exit

LEMMA DrainJoinSend == ASSUME IInv, DrainInv, NEW h \in Handle, JoinSend(h) PROVE DrainInv'
<1>1. UNCHANGED <<call, pc, cur, behind>> /\ queue \in Seq(Command \cup {Shutdown})
  BY DEF JoinSend, thread, history, IInv, TypeOK
<1>2. CASE queue' = queue
  BY <1>1, <1>2 DEF DrainInv, Enqueued
<1>3. CASE queue' = Append(queue, Shutdown)
  <2>1. /\ Len(queue') = Len(queue) + 1 /\ Len(queue) \in Nat
        /\ \A i \in 1..Len(queue) : queue'[i] = queue[i]
        /\ queue'[Len(queue) + 1] = Shutdown
    BY <1>1, <1>3
  <2>2. \A c : Enqueued(c) => Enqueued(c)'
    BY <2>1 DEF Enqueued
  <2>3. \A j \in 1..Len(queue') : queue'[j] \in Command => j \in 1..Len(queue)
    BY <2>1, WriterAssumption
  <2>4. ASSUME NEW i \in 1..Len(queue'), NEW j \in 1..Len(queue'),
               i < j, queue'[i] = Shutdown, queue'[j] \in Command
        PROVE  queue'[j] \in behind'
    <3>1. j \in 1..Len(queue) /\ i \in 1..Len(queue)
      BY <2>1, <2>3, <2>4
    <3> QED BY <3>1, <2>1, <2>4, <1>1 DEF DrainInv
  <2>5. ASSUME pc' \in {"exiting", "exited"}, NEW i \in 1..Len(queue'), queue'[i] \in Command
        PROVE  queue'[i] \in behind'
    BY <2>1, <2>3, <2>5, <1>1 DEF DrainInv
  <2>6. \A c \in Command : call'[c] = "waiting" =>
          Enqueued(c)' \/ (pc' \in {"execute", "emit", "reply"} /\ cur' = c)
    BY <2>2, <1>1 DEF DrainInv
  <2> QED BY <2>4, <2>5, <2>6 DEF DrainInv
<1> QED BY <1>2, <1>3 DEF JoinSend

LEMMA DrainStep == ASSUME IInv, DrainInv, [Next]_vars PROVE DrainInv'
<1>1. ASSUME NEW c \in Command, Send(c) PROVE DrainInv'
  BY <1>1, DrainSend
<1>2. CASE Recv
  BY <1>2, DrainRecv
<1>3. CASE Disconnected
  BY <1>3 DEF Disconnected, DrainInv, Enqueued, history
<1>4. CASE Execute
  <2>1. /\ UNCHANGED <<call, queue, cur, behind>>
        /\ pc = "execute" /\ pc' \in {"emit", "reply"}
    BY <1>4 DEF Execute, history
  <2> QED BY <2>1 DEF DrainInv, Enqueued
<1>5. CASE Emit
  <2>1. /\ UNCHANGED <<call, queue, cur, behind>> /\ pc = "emit"
        /\ pc' = IF cur \in Transcript THEN "recv" ELSE "reply"
        /\ cur \in Transcript => call[cur] = "ok"
    BY <1>5 DEF Emit, history, IInv, HandInv
  <2> QED BY <2>1 DEF DrainInv, Enqueued
<1>6. CASE ReplyTo
  <2>1. /\ UNCHANGED <<queue, cur, behind>> /\ pc' \in {"recv", "emit"}
        /\ \A c \in Command : call'[c] = "waiting" => call[c] = "waiting" /\ c # cur
    BY <1>6 DEF ReplyTo, history, IInv, HandInv, TypeOK
  <2> QED BY <2>1 DEF DrainInv, Enqueued
<1>7. CASE Exit
  BY <1>7, DrainExit
<1>8. ASSUME NEW h \in Handle, JoinSend(h) PROVE DrainInv'
  BY <1>8, DrainJoinSend
<1>9. ASSUME UNCHANGED <<call, queue, pc, cur, behind>> PROVE DrainInv'
  BY <1>9 DEF DrainInv, Enqueued
<1>10. ASSUME NEW h \in Handle, JoinTake(h) \/ JoinDone(h) \/ DropHandle(h) PROVE DrainInv'
  BY <1>10, <1>9 DEF JoinTake, JoinDone, DropHandle, thread, history
<1>11. CASE DropRepos \/ UNCHANGED vars
  BY <1>11, <1>9 DEF DropRepos, vars, thread, history
<1>12. CASE Crash
  BY <1>12 DEF Crash, DrainInv
<1> QED
  BY <1>1, <1>2, <1>3, <1>4, <1>5, <1>6, <1>7, <1>8, <1>10, <1>11, <1>12 DEF Next, WriterStep

\* Graceful shutdown: once the thread has ended, whatever was sent before the
\* first Shutdown has its answer, for any number of joins and callers.
THEOREM ShutdownAnswersAll == Spec => []ShutdownDrains
<1>1. Init => DrainInv
  BY DEF Init, DrainInv
<1>2. IInv /\ DrainInv /\ [Next]_vars => DrainInv'
  BY DrainStep
<1>3. DrainInv => ShutdownDrains
  BY DEF DrainInv, ShutdownDrains, Enqueued
<1> QED BY <1>1, <1>2, <1>3, Inductive, PTL DEF Spec
-----------------------------------------------------------------------------
\* The refinement: each step of the writer is a step of AtomicWrites or
\* leaves the database and the callers' view as they are.

LEMMA SendRefines ==
    ASSUME IInv, NEW c \in Command, Send(c)
    PROVE  Atomic!Invoke(c) \/ Atomic!ReturnErr({c})
<1>1. call \in [Command -> {"new", "waiting", "ok", "err", "lost"}] /\ call[c] = "new"
  BY DEF IInv, TypeOK, Send
<1>2. log' = log
  BY DEF Send
<1>3. ~Atomic!Applied(c)
  BY <1>1 DEF IInv, ReplyTellsCommit, Logged, Atomic!Applied
<1>4. CASE call' = [call EXCEPT ![c] = "waiting"]
  BY <1>1, <1>2, <1>4 DEF Atomic!Invoke
<1>5. CASE call' = [call EXCEPT ![c] = "err"]
  <2>1. call' = [d \in Command |-> IF d \in {c} THEN "err" ELSE call[d]]
    BY <1>1, <1>5
  <2> QED BY <2>1, <1>1, <1>2, <1>3 DEF Atomic!ReturnErr
<1> QED BY <1>4, <1>5 DEF Send

LEMMA ExecuteRefines ==
    ASSUME IInv, Execute
    PROVE  (cur \in Command /\ Atomic!Apply(cur)) \/ UNCHANGED Atomic!vars
<1>1. /\ cur \in Command /\ call[cur] = "waiting" /\ ~Logged(cur) /\ UNCHANGED call
      /\ log' = Append(log, cur) \/ UNCHANGED log
  BY DEF IInv, TypeOK, HandInv, Execute
<1> QED BY <1>1 DEF Atomic!Apply, Atomic!Applied, Atomic!vars, Logged

LEMMA ReplyRefines ==
    ASSUME IInv, ReplyTo
    PROVE  cur \in Command /\ (Atomic!ReturnOk(cur) \/ Atomic!ReturnErr({cur}))
<1>1. /\ cur \in Command /\ call[cur] = "waiting" /\ UNCHANGED log
      /\ call' = [call EXCEPT ![cur] = result]
      /\ call \in [Command -> {"new", "waiting", "ok", "err", "lost"}]
  BY DEF IInv, TypeOK, HandInv, ReplyTo
<1>2. CASE result = "ok" /\ Logged(cur)
  BY <1>1, <1>2 DEF Atomic!ReturnOk, Atomic!Applied, Logged
<1>3. CASE result = "err" /\ ~Logged(cur)
  <2>1. call' = [d \in Command |-> IF d \in {cur} THEN "err" ELSE call[d]]
    BY <1>1, <1>3
  <2> QED BY <2>1, <1>1, <1>3 DEF Atomic!ReturnErr, Atomic!Applied, Logged
<1>4. \/ result = "ok" /\ Logged(cur)
      \/ result = "err" /\ ~Logged(cur)
  BY DEF IInv, HandInv, ReplyTo
<1> QED BY <1>1, <1>2, <1>3, <1>4

\* The end of the thread fails what is still queued, or leaves it waiting.
LEMMA ExitRefines ==
    ASSUME IInv, Exit
    PROVE  (\E S \in SUBSET Command : Atomic!ReturnErr(S)) \/ UNCHANGED Atomic!vars
<1>1. UNCHANGED log
  BY DEF Exit
<1>2. CASE UNCHANGED call
  BY <1>1, <1>2 DEF Atomic!vars
<1>3. CASE call' = [c \in Command |-> IF Enqueued(c) THEN "err" ELSE call[c]]
  <2> DEFINE S == {c \in Command : Enqueued(c)}
  <2>1. \A c \in S : call[c] \in {"new", "waiting"} /\ ~Atomic!Applied(c)
    BY DEF IInv, QueueInv, Enqueued, Atomic!Applied, Logged
  <2>2. call' = [c \in Command |-> IF c \in S THEN "err" ELSE call[c]]
    BY <1>3
  <2>3. S \in SUBSET Command
    OBVIOUS
  <2>4. Atomic!ReturnErr(S)
    <3> HIDE DEF S
    <3> QED BY <2>1, <2>2, <1>1 DEF Atomic!ReturnErr
  <2> QED BY <2>3, <2>4
<1> QED BY <1>2, <1>3 DEF Exit

LEMMA StepRefines == IInv /\ [Next]_vars => [Atomic!Next]_(Atomic!vars)
<1> SUFFICES ASSUME IInv, [Next]_vars
             PROVE  Atomic!Next \/ UNCHANGED Atomic!vars
  OBVIOUS
<1>1. ASSUME NEW c \in Command, Send(c) PROVE Atomic!Next
  <2>1. {c} \in SUBSET Command
    OBVIOUS
  <2> QED BY <1>1, <2>1, SendRefines DEF Atomic!Next
<1>2. CASE Execute
  BY <1>2, ExecuteRefines DEF Atomic!Next
<1>3. CASE ReplyTo
  <2>1. cur \in Command /\ (Atomic!ReturnOk(cur) \/ Atomic!ReturnErr({cur}))
    BY <1>3, ReplyRefines
  <2>2. {cur} \in SUBSET Command
    BY <2>1
  <2> QED BY <2>1, <2>2 DEF Atomic!Next
<1>4. CASE Exit
  BY <1>4, ExitRefines DEF Atomic!Next
<1>5. CASE Crash
  BY <1>5 DEF Crash, Atomic!Next, Atomic!Die
<1>6. CASE Recv \/ Disconnected \/ Emit
  BY <1>6 DEF Recv, Disconnected, Emit, Atomic!vars
<1>7. ASSUME NEW h \in Handle, JoinSend(h) \/ JoinTake(h) \/ JoinDone(h) \/ DropHandle(h)
      PROVE  UNCHANGED Atomic!vars
  BY <1>7 DEF JoinSend, JoinTake, JoinDone, DropHandle, Atomic!vars
<1>8. CASE DropRepos
  BY <1>8 DEF DropRepos, Atomic!vars
<1>9. CASE UNCHANGED vars
  BY <1>9 DEF vars, Atomic!vars
<1> QED
  BY <1>1, <1>2, <1>3, <1>4, <1>5, <1>6, <1>7, <1>8, <1>9 DEF Next, WriterStep

\* The writer implements AtomicWrites: seen from the adapters, every command
\* takes effect atomically, at most once, between its call and its return.
THEOREM WriterIsAtomic == Spec => AtomicWrites
<1>1. Init => Atomic!Init
  BY DEF Init, Atomic!Init
<1>2. IInv /\ [Next]_vars => [Atomic!Next]_(Atomic!vars)
  BY StepRefines
<1> QED BY <1>1, <1>2, Inductive, PTL DEF Spec, AtomicWrites, Atomic!Spec
=============================================================================
