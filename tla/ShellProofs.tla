-------------------------- MODULE ShellProofs --------------------------
(***************************************************************************)
(* The desktop shell: its event path and its calls.                        *)
(*                                                                         *)
(* The event bus and the event path, for every number of receivers, any    *)
(* ring size, and every number of events and commits: what enters the ring *)
(* is handled in order and without gaps, and a view that is stale at rest  *)
(* has one of the four causes named.                                       *)
(*                                                                         *)
(* The calls, for every number of calls, targets and providers: there is   *)
(* one way for a cancelled watcher to be left behind; "Saved" means a      *)
(* whole file of one's own, in one process; a migration that is cut short  *)
(* loses no file; and a start has the provider that is active, unless it   *)
(* has no key that can be read or its config was torn.                     *)
(***************************************************************************)
EXTENDS Desktop, Shell, TLAPS

(***************************************************************************)
(* The event bus and the desktop's event path.                             *)
(***************************************************************************)
\* A subsequence that ends one later has one member more.
LEMMA SubSeqLonger ==
    ASSUME NEW S, NEW s \in Seq(S), NEW m \in Nat, NEW n \in 1..Len(s), m < n
    PROVE  Append(SubSeq(s, m + 1, n - 1), s[n]) = SubSeq(s, m + 1, n)
<1> DEFINE a == SubSeq(s, m + 1, n - 1)
           b == SubSeq(s, m + 1, n)
<1>1. Len(s) \in Nat /\ n \in Nat
  OBVIOUS
<1>2. a \in Seq(S) /\ Len(a) = n - 1 - m /\ \A i \in 1..n - 1 - m : a[i] = s[m + i]
  BY <1>1
<1>3. b \in Seq(S) /\ Len(b) = n - m /\ \A i \in 1..n - m : b[i] = s[m + i]
  BY <1>1
<1>4. s[n] \in S
  OBVIOUS
<1> HIDE DEF a, b
<1>5. /\ Append(a, s[n]) \in Seq(S)
      /\ Len(Append(a, s[n])) = n - m
      /\ \A i \in 1..n - m : Append(a, s[n])[i] = s[m + i]
  BY <1>1, <1>2, <1>4
<1>6. Append(a, s[n]) = b
  BY <1>1, <1>3, <1>5
<1> QED BY <1>6 DEF a, b

\* What is before the end of a sequence does not change when it grows.
LEMMA SubSeqKept ==
    ASSUME NEW S, NEW s \in Seq(S), NEW x \in S, NEW m \in Nat, NEW n \in Int, n <= Len(s)
    PROVE  SubSeq(Append(s, x), m + 1, n) = SubSeq(s, m + 1, n)
OBVIOUS

LEMMA SubSeqEmpty ==
    ASSUME NEW S, NEW s \in Seq(S), NEW n \in Nat
    PROVE  SubSeq(s, n + 1, n) = <<>>
OBVIOUS
-----------------------------------------------------------------------------
Held(r) == IF r \in busy THEN 1 ELSE 0

\* A subscriber is between where it began and the end of the ring, at most a
\* ring behind, and has handled all it received but what is in its hands.
BusInv ==
    /\ emits \in Nat
    /\ accepted \in Seq(Nat)
    /\ busy \subseteq active /\ active \subseteq Receiver
    /\ start \in [Receiver -> Nat]
    /\ cursor \in [Receiver -> Nat]
    /\ DOMAIN handled = Receiver
    /\ \A r \in active : start[r] + Held(r) <= cursor[r] /\ cursor[r] <= Len(accepted)
    /\ \A r \in active : Len(accepted) - cursor[r] <= CAPACITY
    /\ \A r \in active : handled[r] = SubSeq(accepted, start[r] + 1, cursor[r] - Held(r))

LEMMA BusInitInv == Init => BusInv
<1> SUFFICES ASSUME Init PROVE BusInv
  OBVIOUS
<1>1. /\ emits = 0 /\ accepted = <<>> /\ active = {} /\ busy = {}
      /\ start = [r \in Receiver |-> 0] /\ cursor = [r \in Receiver |-> 0]
      /\ handled = [r \in Receiver |-> <<>>]
  BY DEF Init
<1> QED BY <1>1 DEF BusInv

LEMMA BusKept == ASSUME BusInv, UNCHANGED vars PROVE BusInv'
BY DEF BusInv, vars, tasks, Held

\* A full ring accepts nothing, so the slowest subscriber is never more than a
\* ring behind.
LEMMA EmitStep == ASSUME BusInv, emit PROVE BusInv'
<1>1. /\ emits \in Nat /\ emits' = emits + 1 /\ UNCHANGED <<active, start, cursor, busy, handled>>
  BY DEF emit, tasks, BusInv
<1>2. CASE UNCHANGED accepted
  BY <1>1, <1>2 DEF BusInv, Held
<1>3. CASE ~Full /\ accepted' = Append(accepted, emits + 1)
  <2>1. /\ accepted' \in Seq(Nat) /\ Len(accepted') = Len(accepted) + 1 /\ Len(accepted) \in Nat
    BY <1>1, <1>3 DEF BusInv
  <2>2. ASSUME NEW r \in active
        PROVE  /\ start[r] \in Nat /\ cursor[r] \in Nat /\ Held(r) \in {0, 1}
               /\ start[r] + Held(r) <= cursor[r] /\ cursor[r] <= Len(accepted)
               /\ ~(Len(accepted) - cursor[r] >= CAPACITY)
    BY <1>3 DEF BusInv, Full, Backlog, Held
  <2>3. \A r \in active : Len(accepted') - cursor[r] <= CAPACITY
    BY <2>1, <2>2, EventBusAssumption
  <2>4. ASSUME NEW r \in active
        PROVE  handled[r] = SubSeq(accepted', start[r] + 1, cursor[r] - Held(r))
    <3>1. cursor[r] - Held(r) \in Int /\ cursor[r] - Held(r) <= Len(accepted)
      BY <2>1, <2>2
    <3>2. accepted \in Seq(Nat) /\ emits + 1 \in Nat
      BY <1>1 DEF BusInv
    <3>3. SubSeq(accepted', start[r] + 1, cursor[r] - Held(r))
            = SubSeq(accepted, start[r] + 1, cursor[r] - Held(r))
      BY <1>3, <2>2, <3>1, <3>2, SubSeqKept
    <3> QED BY <3>3 DEF BusInv
  <2>5. \A r : Held(r)' = Held(r)
    BY <1>1 DEF Held
  <2> QED BY <1>1, <2>1, <2>2, <2>3, <2>4, <2>5 DEF BusInv
<1> QED BY <1>2, <1>3 DEF emit

LEMMA SubscribeStep == ASSUME BusInv, NEW r \in Receiver, Subscribe(r) PROVE BusInv'
<1>1. /\ r \notin active /\ active' = active \cup {r} /\ UNCHANGED <<emits, accepted, busy>>
      /\ cursor' = [cursor EXCEPT ![r] = Len(accepted)]
      /\ start' = [start EXCEPT ![r] = Len(accepted)]
      /\ handled' = [handled EXCEPT ![r] = <<>>]
  BY DEF Subscribe
<1>2. Len(accepted) \in Nat /\ r \notin busy
  BY <1>1 DEF BusInv
<1>3. /\ start' \in [Receiver -> Nat] /\ cursor' \in [Receiver -> Nat] /\ DOMAIN handled' = Receiver
      /\ start'[r] = Len(accepted) /\ cursor'[r] = Len(accepted) /\ handled'[r] = <<>>
      /\ \A q \in active : /\ start'[q] = start[q] /\ cursor'[q] = cursor[q]
                           /\ handled'[q] = handled[q]
  BY <1>1, <1>2 DEF BusInv
<1>4. \A q : Held(q)' = Held(q)
  BY <1>1 DEF Held
<1>5. Held(r) = 0
  BY <1>2 DEF Held
<1>6. SubSeq(accepted, Len(accepted) + 1, Len(accepted)) = <<>>
  BY <1>2, SubSeqEmpty DEF BusInv
<1>7. handled'[r] = SubSeq(accepted', start'[r] + 1, cursor'[r] - Held(r)')
  BY <1>1, <1>2, <1>3, <1>4, <1>5, <1>6
<1>8. \A q \in active : handled'[q] = SubSeq(accepted', start'[q] + 1, cursor'[q] - Held(q)')
  BY <1>1, <1>3, <1>4 DEF BusInv
<1>9. \A q \in active' : /\ start'[q] + Held(q)' <= cursor'[q] /\ cursor'[q] <= Len(accepted')
                         /\ Len(accepted') - cursor'[q] <= CAPACITY
  BY <1>1, <1>2, <1>3, <1>4, <1>5, EventBusAssumption DEF BusInv
<1> QED BY <1>1, <1>3, <1>7, <1>8, <1>9 DEF BusInv

LEMMA RecvStep == ASSUME BusInv, NEW r \in Receiver, Recv(r) PROVE BusInv'
<1>1. /\ r \in active /\ r \notin busy /\ Len(accepted) - cursor[r] > 0
      /\ cursor' = [cursor EXCEPT ![r] = cursor[r] + 1] /\ busy' = busy \cup {r}
      /\ UNCHANGED <<emits, accepted, active, start, handled>>
  BY DEF Recv, Backlog
<1>2. Len(accepted) \in Nat /\ cursor[r] \in Nat /\ start[r] \in Nat
  BY DEF BusInv
<1>3. /\ cursor' \in [Receiver -> Nat] /\ cursor'[r] = cursor[r] + 1
      /\ \A q \in Receiver : q # r => cursor'[q] = cursor[q]
  BY <1>1, <1>2 DEF BusInv
<1>4. Held(r) = 0 /\ Held(r)' = 1 /\ \A q : q # r => Held(q)' = Held(q)
  BY <1>1 DEF Held
<1>5. cursor'[r] - Held(r)' = cursor[r] - Held(r)
  BY <1>2, <1>3, <1>4
<1>6. \A q \in active : handled'[q] = SubSeq(accepted', start'[q] + 1, cursor'[q] - Held(q)')
  BY <1>1, <1>3, <1>4, <1>5 DEF BusInv
<1>7. ASSUME NEW q \in active
      PROVE  /\ start'[q] + Held(q)' <= cursor'[q] /\ cursor'[q] <= Len(accepted')
             /\ Len(accepted') - cursor'[q] <= CAPACITY
  <2>1. /\ start[q] \in Nat /\ cursor[q] \in Nat /\ start[q] + Held(q) <= cursor[q]
        /\ cursor[q] <= Len(accepted) /\ Len(accepted) - cursor[q] <= CAPACITY
    BY DEF BusInv
  <2>2. CASE q = r
    BY <1>1, <1>2, <1>3, <1>4, <2>1, <2>2, EventBusAssumption
  <2>3. CASE q # r
    <3>1. start'[q] = start[q] /\ cursor'[q] = cursor[q] /\ Held(q)' = Held(q)
          /\ accepted' = accepted
      BY <1>1, <1>3, <1>4, <2>3 DEF BusInv
    <3> QED BY <2>1, <3>1
  <2> QED BY <2>2, <2>3
<1>8. /\ emits' \in Nat /\ accepted' \in Seq(Nat) /\ busy' \subseteq active' /\ active' \subseteq Receiver
      /\ start' \in [Receiver -> Nat] /\ cursor' \in [Receiver -> Nat] /\ DOMAIN handled' = Receiver
  BY <1>1, <1>3 DEF BusInv
<1>9. active' = active
  BY <1>1
<1> QED BY <1>6, <1>7, <1>8, <1>9 DEF BusInv

LEMMA HandledStep == ASSUME BusInv, NEW r \in Receiver, Handled(r) PROVE BusInv'
<1>1. /\ r \in busy /\ busy' = busy \ {r}
      /\ handled' = [handled EXCEPT ![r] = Append(handled[r], accepted[cursor[r]])]
      /\ UNCHANGED <<emits, accepted, active, start, cursor>>
  BY DEF Handled
<1>2. /\ r \in active /\ Len(accepted) \in Nat /\ cursor[r] \in Nat /\ start[r] \in Nat
  BY <1>1 DEF BusInv
<1>3. Held(r) = 1 /\ Held(r)' = 0 /\ \A q : q # r => Held(q)' = Held(q)
  BY <1>1 DEF Held
<1>4. start[r] < cursor[r] /\ cursor[r] \in 1..Len(accepted)
  BY <1>2, <1>3 DEF BusInv
<1>5. handled[r] = SubSeq(accepted, start[r] + 1, cursor[r] - 1)
  BY <1>2, <1>3 DEF BusInv
<1>6. Append(handled[r], accepted[cursor[r]]) = SubSeq(accepted, start[r] + 1, cursor[r])
  BY <1>2, <1>4, <1>5, SubSeqLonger DEF BusInv
<1>7. /\ DOMAIN handled' = Receiver /\ handled'[r] = SubSeq(accepted, start[r] + 1, cursor[r])
      /\ \A q \in active : q # r => handled'[q] = handled[q]
  BY <1>1, <1>6 DEF BusInv
<1>8. cursor[r] - Held(r)' = cursor[r]
  BY <1>2, <1>3
<1>9. \A q \in active : handled'[q] = SubSeq(accepted', start'[q] + 1, cursor'[q] - Held(q)')
  BY <1>1, <1>3, <1>7, <1>8 DEF BusInv
<1>10. ASSUME NEW q \in active
       PROVE  /\ start'[q] + Held(q)' <= cursor'[q] /\ cursor'[q] <= Len(accepted')
              /\ Len(accepted') - cursor'[q] <= CAPACITY
  <2>1. /\ start[q] + Held(q) <= cursor[q]
        /\ cursor[q] <= Len(accepted) /\ Len(accepted) - cursor[q] <= CAPACITY
    BY DEF BusInv
  <2>2. CASE q = r
    BY <1>1, <1>2, <1>3, <1>4, <2>1, <2>2
  <2>3. CASE q # r
    <3>1. Held(q)' = Held(q)
      BY <1>3, <2>3
    <3> QED BY <1>1, <2>1, <3>1
  <2> QED BY <2>2, <2>3
<1>11. /\ emits' \in Nat /\ accepted' \in Seq(Nat) /\ busy' \subseteq active' /\ active' \subseteq Receiver
       /\ start' \in [Receiver -> Nat] /\ cursor' \in [Receiver -> Nat] /\ DOMAIN handled' = Receiver
  BY <1>1, <1>7 DEF BusInv
<1>12. active' = active
  BY <1>1
<1> QED BY <1>9, <1>10, <1>11, <1>12 DEF BusInv

LEMMA BusStep == ASSUME BusInv, [Next]_vars PROVE BusInv'
<1>1. ASSUME NEW r \in Receiver, Unsubscribe(r) PROVE BusInv'
  BY <1>1 DEF Unsubscribe, BusInv, Held
<1> QED BY <1>1, EmitStep, SubscribeStep, RecvStep, HandledStep, BusKept DEF Next

LEMMA BusInvImplies == BusInv => NoGaps /\ RingBounded
<1> SUFFICES ASSUME BusInv PROVE NoGaps /\ RingBounded
  OBVIOUS
<1>1. NoGaps
  BY DEF BusInv, NoGaps, Held
<1>2. ASSUME NEW r \in active PROVE Backlog(r) \in 0..CAPACITY
  BY EventBusAssumption DEF BusInv, Backlog
<1> QED BY <1>1, <1>2 DEF RingBounded

LEMMA BusInductive == Spec => []BusInv
BY BusInitInv, BusStep, PTL DEF Spec

\* The ring never holds more than its capacity, whoever subscribes and leaves.
THEOREM RingStaysBounded == Spec => []RingBounded
BY BusInductive, BusInvImplies, PTL

\* Each subscriber handles what was accepted since it came, once, in order,
\* with nothing left out: also beside subscribers that come, leave and lag.
THEOREM HandledInOrder == Spec => []NoGaps
BY BusInductive, BusInvImplies, PTL
-----------------------------------------------------------------------------
Shown == IF fetch = "read" THEN seen ELSE cache

\* News is under way to the view.
UnderWay ==
    \/ fetch = "asked" \/ timer
    \/ emitting # 0 \/ Tauri \in busy \/ Backlog(Tauri) > 0

\* What the view cannot know of; or its last fetch failed and rests.
Excused ==
    \/ causes \ {"failed"} # {}
    \/ fetch = "idle" /\ "failed" \in causes

DesktopInv ==
    /\ BusInv
    /\ active = Receiver
    /\ db \in Nat
    /\ fetch \in {"idle", "asked", "read"}
    /\ Excused \/ Shown = db \/ UnderWay

LEMMA TauriReceives == Tauri \in Receiver /\ Db \in Receiver
BY DesktopAssumption DEF Tauri, Db

\* The desktop never subscribes or unsubscribes; its other steps are the bus's.
LEMMA DesktopStepsBus ==
    ASSUME [DesktopNext]_desktopVars
    PROVE  [Next]_vars /\ UNCHANGED active
<1>1. ASSUME UNCHANGED vars PROVE [Next]_vars /\ UNCHANGED active
  BY <1>1 DEF vars, tasks
<1>2. ASSUME emit PROVE [Next]_vars /\ UNCHANGED active
  BY <1>2 DEF Next, emit, tasks
<1>3. ASSUME NEW r \in Receiver, Recv(r) PROVE [Next]_vars /\ UNCHANGED active
  BY <1>3 DEF Next, Recv
<1>4. ASSUME NEW r \in Receiver, Handled(r) PROVE [Next]_vars /\ UNCHANGED active
  BY <1>4 DEF Next, Handled
<1>5. CASE Commit
  BY <1>1, <1>5 DEF Commit
<1>6. CASE Announce \/ ScanCompleted \/ WatcherEmits
  BY <1>2, <1>6 DEF Announce, ScanCompleted, WatcherEmits, Publish
<1>7. CASE \E r \in Receiver : HandlerReceives(r)
  BY <1>3, <1>7 DEF HandlerReceives
<1>8. CASE DbHandles \/ TauriHandles
  BY <1>4, <1>8, TauriReceives DEF DbHandles, TauriHandles
<1>9. CASE Listen \/ View
  BY <1>1, <1>9 DEF Listen, View, TimerFires, QueryReads, QuerySettles, QueryFails
<1>10. CASE UNCHANGED desktopVars
  BY <1>1, <1>10 DEF desktopVars
<1> QED BY <1>5, <1>6, <1>7, <1>8, <1>9, <1>10 DEF DesktopNext, Handlers

LEMMA DesktopInitInv == DesktopInit => DesktopInv
<1> SUFFICES ASSUME DesktopInit PROVE DesktopInv
  OBVIOUS
<1>1. /\ emits = 0 /\ accepted = <<>> /\ active = Receiver /\ busy = {}
      /\ start = [r \in Receiver |-> 0] /\ cursor = [r \in Receiver |-> 0]
      /\ handled = [r \in Receiver |-> <<>>]
  BY DEF DesktopInit
<1>2. BusInv
  <2>1. ASSUME NEW r \in Receiver
        PROVE  /\ Held(r) = 0 /\ start[r] = 0 /\ cursor[r] = 0 /\ handled[r] = <<>>
    BY <1>1 DEF Held
  <2>2. Len(accepted) = 0 /\ accepted \in Seq(Nat) /\ SubSeq(accepted, 1, 0) = <<>>
    BY <1>1, SubSeqEmpty
  <2>3. ASSUME NEW r \in active
        PROVE  /\ start[r] + Held(r) <= cursor[r] /\ cursor[r] <= Len(accepted)
               /\ Len(accepted) - cursor[r] <= CAPACITY
    BY <1>1, <2>1, <2>2, EventBusAssumption
  <2>4. ASSUME NEW r \in active
        PROVE  handled[r] = SubSeq(accepted, start[r] + 1, cursor[r] - Held(r))
    <3>1. start[r] + 1 = 1 /\ cursor[r] - Held(r) = 0 /\ handled[r] = <<>>
      BY <1>1, <2>1
    <3> QED BY <2>2, <3>1
  <2> QED BY <1>1, <2>2, <2>3, <2>4 DEF BusInv
<1>3. db = 0 /\ cache = 0 /\ fetch \in {"idle", "asked"} /\ active = Receiver
  BY DEF DesktopInit
<1>4. Shown = db
  BY <1>3 DEF Shown
<1> QED BY <1>2, <1>3, <1>4 DEF DesktopInv

\* An announcement enters the ring, or is dropped and leaves a cause.
LEMMA PublishTells ==
    ASSUME DesktopInv, NEW kind, NEW commit, Publish(kind, commit)
    PROVE  Excused' \/ Backlog(Tauri)' > 0
<1>1. accepted \in Seq(Nat) /\ Tauri \in active /\ cursor[Tauri] \in Nat
      /\ cursor[Tauri] <= Len(accepted) /\ emits \in Nat
  BY TauriReceives DEF DesktopInv, BusInv
<1>2. CASE accepted' = Append(accepted, emits + 1)
  <2>1. Len(accepted') = Len(accepted) + 1 /\ Len(accepted) \in Nat
    BY <1>1, <1>2
  <2>2. cursor' = cursor
    BY DEF Publish, emit, tasks
  <2> QED BY <1>1, <2>1, <2>2 DEF Backlog
<1>3. CASE accepted' = accepted
  <2>1. causes' = causes \cup {"dropped"}
    BY <1>3 DEF Publish
  <2>2. "dropped" \in causes' \ {"failed"}
    BY <2>1
  <2> QED BY <2>2 DEF Excused
<1>4. accepted' = Append(accepted, emits + 1) \/ accepted' = accepted
  BY DEF Publish, emit
<1> QED BY <1>2, <1>3, <1>4

LEMMA DesktopStep == ASSUME DesktopInv, [DesktopNext]_desktopVars PROVE DesktopInv'
<1>1. BusInv'
  BY DesktopStepsBus, BusStep DEF DesktopInv
<1>2. active' = Receiver
  BY DesktopStepsBus DEF DesktopInv
<1> DEFINE Kept == /\ db' \in Nat
                   /\ fetch' \in {"idle", "asked", "read"}
                   /\ Excused' \/ Shown' = db' \/ UnderWay'
<1>3. ASSUME Commit PROVE Kept
  BY <1>3 DEF Commit, frontend, UnderWay, DesktopInv
<1>4. ASSUME Announce PROVE Kept
  <2>1. Excused' \/ Backlog(Tauri)' > 0
    BY <1>4, PublishTells DEF Announce
  <2> QED BY <1>4, <2>1 DEF Announce, frontend, UnderWay, DesktopInv
<1>5. ASSUME ScanCompleted PROVE Kept
  <2>1. Excused' \/ Backlog(Tauri)' > 0
    BY <1>5, PublishTells DEF ScanCompleted
  <2> QED BY <1>5, <2>1 DEF ScanCompleted, frontend, UnderWay, DesktopInv
<1>6. ASSUME WatcherEmits PROVE Kept
  <2>1. Excused' \/ Backlog(Tauri)' > 0
    BY <1>6, PublishTells DEF WatcherEmits
  <2> QED BY <1>6, <2>1 DEF WatcherEmits, frontend, UnderWay, DesktopInv
<1>7. ASSUME NEW r \in Receiver, HandlerReceives(r) PROVE Kept
  <2>1. UNCHANGED <<accepted, db, emitting, listening, timer, fetch, seen, cache, heard, causes>>
    BY <1>7 DEF HandlerReceives, Recv, frontend
  <2>2. busy' = busy \cup {r} /\ cursor' = [cursor EXCEPT ![r] = cursor[r] + 1]
    BY <1>7 DEF HandlerReceives, Recv
  <2>3. Tauri \in busy => Tauri \in busy'
    BY <2>2
  <2>4. r # Tauri => Backlog(Tauri)' = Backlog(Tauri)
    BY <2>1, <2>2, TauriReceives DEF Backlog, DesktopInv, BusInv
  <2>5. r = Tauri => Tauri \in busy'
    BY <2>2
  <2>6. UnderWay => UnderWay'
    BY <2>1, <2>3, <2>4, <2>5 DEF UnderWay
  <2>7. Shown' = Shown /\ Excused' = Excused
    BY <2>1 DEF Shown, Excused
  <2> QED BY <2>1, <2>6, <2>7 DEF DesktopInv
<1>8. ASSUME DbHandles PROVE Kept
  <2>1. /\ UNCHANGED <<accepted, cursor, emitting, timer, fetch, seen, cache>>
        /\ busy' = busy \ {Db}
    BY <1>8 DEF DbHandles, Handled, frontend
  <2>2. Db # Tauri
    BY DEF Db, Tauri
  <2>3. (UnderWay => UnderWay') /\ Shown' = Shown
    BY <2>1, <2>2 DEF UnderWay, Backlog, Shown
  <2>4. \/ db' = db + 1 /\ Excused'
        \/ UNCHANGED <<db, causes>> /\ (Excused => Excused')
    BY <1>8, <2>1 DEF DbHandles, Excused
  <2> QED BY <2>1, <2>3, <2>4 DEF DesktopInv
<1>9. ASSUME TauriHandles PROVE Kept
  <2>1. db' = db
    BY <1>9 DEF TauriHandles
  <2>2. \/ causes' = causes \cup {"late"} /\ fetch' = fetch
        \/ fetch' = "asked"
        \/ timer' = TRUE /\ fetch' = fetch
    BY <1>9 DEF TauriHandles, OnScanCompleted, Invalidate
  <2> QED BY <2>1, <2>2 DEF UnderWay, Excused, DesktopInv
<1>10. ASSUME Listen PROVE Kept
  BY <1>10 DEF Listen, vars, tasks, UnderWay, Backlog, Shown, Excused, DesktopInv
<1>11. ASSUME TimerFires PROVE Kept
  BY <1>11 DEF TimerFires, Invalidate, UnderWay, DesktopInv
<1>12. ASSUME QueryReads PROVE Kept
  BY <1>12 DEF QueryReads, Shown, DesktopInv
<1>13. ASSUME QuerySettles PROVE Kept
  BY <1>13 DEF QuerySettles, vars, tasks, UnderWay, Backlog, Shown, Excused, DesktopInv
<1>14. ASSUME UNCHANGED desktopVars PROVE Kept
  BY <1>14 DEF desktopVars, frontend, vars, tasks, UnderWay, Backlog, Shown, Excused, DesktopInv
<1>15. ASSUME QueryFails PROVE Kept
  BY <1>15 DEF QueryFails, Excused, DesktopInv
<1>16. Kept
  BY <1>3, <1>4, <1>5, <1>6, <1>7, <1>8, <1>9, <1>10, <1>11, <1>12, <1>13, <1>14, <1>15
     DEF DesktopNext, Handlers, View
<1> QED BY <1>1, <1>2, <1>16 DEF DesktopInv

LEMMA DesktopInvImplies == DesktopInv => NoGaps /\ StaleHasCause
<1> SUFFICES ASSUME DesktopInv PROVE NoGaps /\ StaleHasCause
  OBVIOUS
<1>1. NoGaps
  BY BusInvImplies DEF DesktopInv
<1>2. Quiescent /\ cache # db => causes # {}
  BY TauriReceives DEF DesktopInv, Quiescent, UnderWay, Shown, Excused
<1> QED BY <1>1, <1>2 DEF StaleHasCause

LEMMA DesktopInductive == DesktopSpec => []DesktopInv
BY DesktopInitInv, DesktopStep, PTL DEF DesktopSpec

\* In the desktop's composition too, both handlers handle every event that
\* entered the ring once and in order.
THEOREM DesktopHandlesInOrder == DesktopSpec => []NoGaps
BY DesktopInductive, DesktopInvImplies, PTL

\* Whatever the interleaving of writers, handlers, debounce and fetches: a
\* files view that rests on old data missed an announcement that the ring
\* dropped, that came before the listener, or that the watch writer's silent
\* bus never made, or its last fetch failed.  There is no fifth way.
THEOREM StaleStaysExplained == DesktopSpec => []StaleHasCause
BY DesktopInductive, DesktopInvImplies, PTL
-----------------------------------------------------------------------------
(***************************************************************************)
(* The shell's calls.                                                      *)
(***************************************************************************)
\* Whose token was taken is known: it was there, so its call had put it.  Until
\* the call that took it drops the watcher, that call is in progress.
WatchInv ==
    /\ DOMAIN watch = WatchCall
    /\ cancel # NoWatcher => cancel \in WatchCall /\ watch[cancel] \in {"put", "done"}
    /\ cancelled \subseteq {w \in WatchCall : watch[w] \in {"put", "done"}}
    /\ \A w \in cancelled : watch[w] = "put" => w \in crossed
    /\ inner \in cancelled \ crossed => \E v \in WatchCall : watch[v] \in {"took", "stopped"}

CopySteps == {"none", "resolved", "sent", "vacuum", "written", "measured", "failed", "saved"}
CopyRow   == [step : CopySteps, to : Target, force : BOOLEAN]

Holding(b) == copy[b].step \notin {"none", "failed", "saved"}

\* The flag is up while a call holds the guard, and no two do; whoever is past
\* the opening of its target still finds its own file there.
BackupInv ==
    /\ copy \in [Copy -> CopyRow]
    /\ DOMAIN target = Target
    /\ \A b \in Copy : Holding(b) => inFlight
    /\ \A b, c \in Copy : Holding(b) /\ Holding(c) => b = c
    /\ \A b \in Copy : copy[b].step = "vacuum" => target[copy[b].to] = FileOf(b, FALSE)
    /\ \A b \in Copy : copy[b].step \in {"written", "measured"} =>
          target[copy[b].to] = FileOf(b, TRUE)

MoveRow == [at : 0 .. 3, step : {"next", "copying", "copied"}, across : BOOLEAN]

\* A file has the old bytes at its first place or none; those that were copied
\* are whole at the second, unless the desktop opened them too early.
MoveInv ==
    /\ legacy \in [File -> {"old", "none"}]
    /\ DOMAIN canonical = File
    /\ move \in MoveRow
    /\ move # NoMove => move.at \in 1 .. 3
    /\ move.step = "copied" /\ ~early => canonical[Order[move.at]] = "old"
-----------------------------------------------------------------------------
LEMMA WatchInitInv == WatchInit => WatchInv
<1> SUFFICES ASSUME WatchInit PROVE WatchInv
  OBVIOUS
<1>1. /\ watch = [w \in WatchCall |-> "none"] /\ inner = NoWatcher
      /\ cancel = NoWatcher /\ cancelled = {} /\ crossed = {}
  BY DEF WatchInit
<1> QED BY <1>1, WatchAssumption DEF WatchInv

\* A call begins, or goes on to a step that touches neither lock.
LEMMA BetweenLocks ==
    ASSUME WatchInv, NEW w \in WatchCall,
           NEW s \in {"resolved", "stopping", "dropped", "watching", "done"},
           watch[w] \in {"none", "dropped"}, watch' = [watch EXCEPT ![w] = s],
           UNCHANGED <<inner, cancel, cancelled, crossed>>
    PROVE  WatchInv'
<1>1. /\ DOMAIN watch' = WatchCall /\ watch'[w] = s
      /\ \A v \in WatchCall : v # w => watch'[v] = watch[v]
  BY DEF WatchInv
<1>2. cancel # w /\ w \notin cancelled
  BY WatchAssumption DEF WatchInv
<1>3. \A v \in cancelled : v \in WatchCall /\ watch'[v] = watch[v]
  BY <1>1, <1>2 DEF WatchInv
<1>4. ASSUME inner \in cancelled \ crossed
      PROVE  \E v \in WatchCall : watch'[v] \in {"took", "stopped"}
  <2>1. PICK v \in WatchCall : watch[v] \in {"took", "stopped"}
    BY <1>4 DEF WatchInv
  <2>2. v # w
    BY <2>1
  <2> QED BY <1>1, <2>1, <2>2
<1> QED BY <1>1, <1>2, <1>3, <1>4 DEF WatchInv

LEMMA TakeTokenStep ==
    ASSUME WatchInv, NEW w \in WatchCall, TakeToken(w) PROVE WatchInv'
<1>1. /\ watch[w] \in {"resolved", "stopping"} /\ UNCHANGED inner /\ cancel' = NoWatcher
      /\ cancelled' = cancelled \cup ({cancel} \ {NoWatcher})
      /\ crossed' = crossed \cup {v \in {cancel} \cap WatchCall : watch[v] = "put"}
  BY DEF TakeToken
<1>2. PICK s \in {"took", "stopped"} : watch' = [watch EXCEPT ![w] = s]
  BY DEF TakeToken
<1>3. /\ DOMAIN watch' = WatchCall /\ watch'[w] = s
      /\ \A v \in WatchCall : v # w => watch'[v] = watch[v]
  BY <1>2 DEF WatchInv
<1>4. \A v \in cancelled' : v \in WatchCall /\ v # w /\ watch'[v] \in {"put", "done"}
  BY <1>1, <1>3 DEF WatchInv
<1>5. ASSUME NEW v \in cancelled', watch'[v] = "put" PROVE v \in crossed'
  <2>1. v \in WatchCall /\ watch[v] = "put"
    BY <1>3, <1>4, <1>5
  <2> QED BY <1>1, <1>5, <2>1 DEF WatchInv
<1>6. watch'[w] \in {"took", "stopped"}
  BY <1>3
<1> QED BY <1>1, <1>3, <1>4, <1>5, <1>6 DEF WatchInv

LEMMA DropInnerStep ==
    ASSUME WatchInv, NEW w \in WatchCall, DropInner(w) PROVE WatchInv'
<1>1. /\ watch[w] \in {"took", "stopped"} /\ UNCHANGED <<cancel, cancelled, crossed>>
      /\ inner' = NoWatcher
  BY DEF DropInner
<1>2. PICK s \in {"dropped", "done"} : watch' = [watch EXCEPT ![w] = s]
  BY DEF DropInner
<1>3. /\ DOMAIN watch' = WatchCall /\ watch'[w] = s
      /\ \A v \in WatchCall : v # w => watch'[v] = watch[v]
  BY <1>2 DEF WatchInv
<1>4. cancel # w /\ w \notin cancelled
  BY <1>1, WatchAssumption DEF WatchInv
<1>5. NoWatcher \notin cancelled
  BY WatchAssumption DEF WatchInv
<1>6. \A v \in cancelled : v \in WatchCall /\ watch'[v] = watch[v]
  BY <1>3, <1>4 DEF WatchInv
<1> QED BY <1>1, <1>3, <1>4, <1>5, <1>6 DEF WatchInv

\* The new token is that of a watcher nobody has cancelled yet.
LEMMA PutTokenStep ==
    ASSUME WatchInv, NEW w \in WatchCall, PutToken(w) PROVE WatchInv'
<1>1. /\ watch[w] = "watching" /\ UNCHANGED <<inner, cancelled, crossed>> /\ cancel' = w
      /\ watch' = [watch EXCEPT ![w] = "put"]
  BY DEF PutToken
<1>2. /\ DOMAIN watch' = WatchCall /\ watch'[w] = "put"
      /\ \A v \in WatchCall : v # w => watch'[v] = watch[v]
  BY <1>1 DEF WatchInv
<1>3. w \notin cancelled
  BY <1>1 DEF WatchInv
<1>4. \A v \in cancelled : v \in WatchCall /\ watch'[v] = watch[v]
  BY <1>2, <1>3 DEF WatchInv
<1>5. ASSUME inner \in cancelled \ crossed
      PROVE  \E v \in WatchCall : watch'[v] \in {"took", "stopped"}
  <2>1. PICK v \in WatchCall : watch[v] \in {"took", "stopped"}
    BY <1>5 DEF WatchInv
  <2> QED BY <1>1, <1>2, <2>1
<1> QED BY <1>1, <1>2, <1>4, <1>5 DEF WatchInv

\* The watcher that is put is cancelled only if it was crossed.
LEMMA PutInnerStep ==
    ASSUME WatchInv, NEW w \in WatchCall, PutInner(w) PROVE WatchInv'
<1>1. /\ watch[w] = "put" /\ UNCHANGED <<cancel, cancelled, crossed>> /\ inner' = w
      /\ watch' = [watch EXCEPT ![w] = "done"]
  BY DEF PutInner
<1>2. /\ DOMAIN watch' = WatchCall /\ watch'[w] = "done"
      /\ \A v \in WatchCall : v # w => watch'[v] = watch[v]
  BY <1>1 DEF WatchInv
<1>3. \A v \in cancelled : v \in WatchCall /\ watch'[v] \in {"put", "done"}
  BY <1>2 DEF WatchInv
<1>4. \A v \in cancelled : watch'[v] = "put" => v \in crossed
  BY <1>2, <1>3 DEF WatchInv
<1>5. cancel # NoWatcher => cancel \in WatchCall /\ watch'[cancel] \in {"put", "done"}
  BY <1>2 DEF WatchInv
<1>6. w \notin cancelled \ crossed
  BY <1>1 DEF WatchInv
<1> QED BY <1>1, <1>2, <1>3, <1>4, <1>5, <1>6 DEF WatchInv

LEMMA WatchDiesStep == ASSUME WatchInv, WatchDies PROVE WatchInv'
<1>1. /\ watch' = [w \in WatchCall |-> IF watch[w] = "none" THEN "none" ELSE "done"]
      /\ inner' = NoWatcher /\ cancel' = NoWatcher /\ UNCHANGED <<cancelled, crossed>>
  BY DEF WatchDies
<1>2. \A v \in cancelled : v \in WatchCall /\ watch'[v] = "done"
  BY <1>1 DEF WatchInv
<1>3. NoWatcher \notin cancelled
  BY WatchAssumption DEF WatchInv
<1> QED BY <1>1, <1>2, <1>3 DEF WatchInv

LEMMA WatchKept == ASSUME WatchInv, UNCHANGED watchVars PROVE WatchInv'
BY DEF WatchInv, watchVars

\* However starts and stops overlap, fail to register and die with the process:
\* between calls the watcher that is_watching tells of forwards events, unless
\* a call took its token before it was put.
THEOREM WatchingStaysTold == ShellSpec => []WatchingIsTold
<1>1. ShellInit => WatchInv
  BY WatchInitInv DEF ShellInit
<1>2. WatchInv /\ [ShellNext]_shellVars => WatchInv'
  <2> SUFFICES ASSUME WatchInv, [ShellNext]_shellVars PROVE WatchInv'
    OBVIOUS
  <2>1. CASE WatchNext
    <3> SUFFICES ASSUME NEW w \in WatchCall,
                        \/ start_watch(w) \/ stop_watch(w) \/ TakeToken(w) \/ DropInner(w)
                        \/ Register(w) \/ PutToken(w) \/ PutInner(w)
                 PROVE  WatchInv'
      BY <2>1 DEF WatchNext
    <3>1. CASE start_watch(w) \/ stop_watch(w)
      BY <3>1, BetweenLocks DEF start_watch, stop_watch, Accepted
    <3>2. CASE Register(w)
      BY <3>2, BetweenLocks DEF Register
    <3> QED BY <3>1, <3>2, TakeTokenStep, DropInnerStep, PutTokenStep, PutInnerStep
  <2>2. CASE Exit
    BY <2>2, WatchDiesStep DEF Exit
  <2>3. CASE UNCHANGED watchVars
    BY <2>3, WatchKept
  <2> QED BY <2>1, <2>2, <2>3 DEF ShellNext, Start, shellVars
<1>3. WatchInv => WatchingIsTold
  BY DEF WatchInv, WatchingIsTold, is_watching, InProgress
<1> QED BY <1>1, <1>2, <1>3, PTL DEF ShellSpec
-----------------------------------------------------------------------------
\* A change of a call's step, and of nothing else.
LEMMA GoesFacts ==
    ASSUME copy \in [Copy -> CopyRow], NEW b \in Copy, NEW s \in CopySteps, Goes(b, s)
    PROVE  /\ copy' \in [Copy -> CopyRow]
           /\ copy'[b].step = s /\ copy'[b].to = copy[b].to
           /\ \A c \in Copy : c # b => copy'[c] = copy[c]
<1>1. ASSUME NEW r \in CopyRow
      PROVE  /\ [r EXCEPT !.step = s] \in CopyRow
             /\ [r EXCEPT !.step = s].step = s
             /\ [r EXCEPT !.step = s].to = r.to
  BY DEF CopyRow
<1>2. copy[b] \in CopyRow /\ copy' = [copy EXCEPT ![b] = [copy[b] EXCEPT !.step = s]]
  BY DEF Goes
<1> DEFINE r == [copy[b] EXCEPT !.step = s]
<1>3. r \in CopyRow /\ r.step = s /\ r.to = copy[b].to
  BY <1>1, <1>2
<1>4. copy' = [copy EXCEPT ![b] = r]
  BY <1>2
<1> HIDE DEF r
<1> QED BY <1>3, <1>4

\* The holder of the guard goes on, and keeps what it promises of its target.
LEMMA HolderGoes ==
    ASSUME BackupInv, NEW b \in Copy, Holding(b),
           NEW s \in {"sent", "vacuum", "written", "measured"}, Goes(b, s),
           UNCHANGED inFlight, DOMAIN target' = Target,
           s = "vacuum" => target'[copy[b].to] = FileOf(b, FALSE),
           s \in {"written", "measured"} => target'[copy[b].to] = FileOf(b, TRUE)
    PROVE  BackupInv'
<1>1. /\ copy' \in [Copy -> CopyRow]
      /\ copy'[b].step = s /\ copy'[b].to = copy[b].to
      /\ \A c \in Copy : c # b => copy'[c] = copy[c]
  BY GoesFacts DEF BackupInv, CopySteps
<1>2. inFlight /\ \A c \in Copy : c # b => ~Holding(c)
  BY DEF BackupInv
<1>3. \A c \in Copy : c # b => copy'[c].step \in {"none", "failed", "saved"}
  BY <1>1, <1>2 DEF Holding
<1>4. inFlight'
  BY <1>2
<1>5. \A c, d \in Copy : Holding(c)' /\ Holding(d)' => c = d
  BY <1>3 DEF Holding
<1>6. \A c \in Copy : copy'[c].step = "vacuum" => target'[copy'[c].to] = FileOf(c, FALSE)
  BY <1>1, <1>3
<1>7. \A c \in Copy : copy'[c].step \in {"written", "measured"} =>
        target'[copy'[c].to] = FileOf(c, TRUE)
  BY <1>1, <1>3
<1> QED BY <1>1, <1>4, <1>5, <1>6, <1>7 DEF BackupInv

\* The holder's call ends: nobody holds the guard, whatever is at the targets.
LEMMA HolderEnds ==
    ASSUME BackupInv, NEW b \in Copy, Holding(b),
           NEW s \in {"failed", "saved"}, Goes(b, s), DOMAIN target' = Target
    PROVE  BackupInv'
<1>1. /\ copy' \in [Copy -> CopyRow] /\ copy'[b].step = s
      /\ \A c \in Copy : c # b => copy'[c] = copy[c]
  BY GoesFacts DEF BackupInv, CopySteps
<1>2. \A c \in Copy : copy'[c].step \in {"none", "failed", "saved"}
  BY <1>1 DEF BackupInv, Holding
<1> QED BY <1>1, <1>2 DEF BackupInv, Holding

\* The guard is free only when no call holds it.
LEMMA BackupBegins ==
    ASSUME Cli = {}, BackupInv, NEW b \in Copy, NEW t \in Target, NEW force \in BOOLEAN,
           backup_database(b, t, force)
    PROVE  BackupInv'
<1>1. copy[b].step = "none" /\ UNCHANGED target
  BY DEF backup_database
<1>2. CASE /\ ~Free(b) /\ Goes(b, "failed") /\ UNCHANGED inFlight
  <2>1. /\ copy' \in [Copy -> CopyRow] /\ copy'[b].step = "failed"
        /\ \A c \in Copy : c # b => copy'[c] = copy[c]
    BY <1>2, GoesFacts DEF BackupInv, CopySteps
  <2> QED BY <1>1, <1>2, <2>1 DEF BackupInv, Holding
<1>3. CASE /\ Free(b) /\ inFlight' = (inFlight \/ b \notin Cli)
           /\ copy' = [copy EXCEPT ![b] = [step |-> "resolved", to |-> t, force |-> force]]
  <2> DEFINE r == [step |-> "resolved", to |-> t, force |-> force]
  <2>1. r \in CopyRow /\ r.step = "resolved"
    BY DEF CopyRow, CopySteps
  <2>2. copy' = [copy EXCEPT ![b] = r]
    BY <1>3
  <2> HIDE DEF r
  <2>3. /\ copy' \in [Copy -> CopyRow] /\ copy'[b].step = "resolved"
        /\ \A c \in Copy : c # b => copy'[c] = copy[c]
    BY <2>1, <2>2 DEF BackupInv
  <2>4. inFlight'
    BY <1>3
  <2>5. \A c \in Copy : c # b => copy'[c].step \in {"none", "failed", "saved"}
    BY <1>3, <2>3 DEF BackupInv, Holding, Free
  <2> QED BY <1>1, <2>3, <2>4, <2>5 DEF BackupInv, Holding
<1> QED BY <1>2, <1>3 DEF backup_database

LEMMA CopyStep ==
    ASSUME BackupInv, NEW b \in Copy,
           CheckTarget(b) \/ VacuumBegins(b) \/ VacuumEnds(b) \/ Measure(b) \/ Saved(b)
    PROVE  BackupInv'
<1>1. Holding(b)
  BY DEF CheckTarget, VacuumBegins, VacuumEnds, Measure, Saved, Holding
<1>2. copy[b].to \in Target /\ DOMAIN target = Target
  BY DEF BackupInv, CopyRow
<1>3. CASE CheckTarget(b)
  <2>1. DOMAIN target' = Target
    BY <1>2, <1>3 DEF CheckTarget
  <2>2. CASE Goes(b, "sent") /\ UNCHANGED inFlight
    BY <1>1, <2>1, <2>2, HolderGoes
  <2>3. CASE Ends(b, "failed")
    BY <1>1, <2>1, <2>3, HolderEnds DEF Ends
  <2> QED BY <1>3, <2>2, <2>3 DEF CheckTarget
<1>4. CASE VacuumBegins(b)
  <2>1. CASE /\ Goes(b, "vacuum") /\ UNCHANGED inFlight
             /\ target' = [target EXCEPT ![copy[b].to] = FileOf(b, FALSE)]
    <3>1. DOMAIN target' = Target /\ target'[copy[b].to] = FileOf(b, FALSE)
      BY <1>2, <2>1
    <3> QED BY <1>1, <2>1, <3>1, HolderGoes
  <2>2. CASE Ends(b, "failed") /\ UNCHANGED target
    BY <1>1, <1>2, <2>2, HolderEnds DEF Ends
  <2> QED BY <1>4, <2>1, <2>2 DEF VacuumBegins
<1>5. CASE VacuumEnds(b)
  <2>1. target[copy[b].to] = FileOf(b, FALSE)
    BY <1>5 DEF VacuumEnds, BackupInv
  <2>2. CASE /\ Goes(b, "written") /\ UNCHANGED inFlight
             /\ target' = [target EXCEPT ![copy[b].to] = FileOf(b, TRUE)]
    <3>1. DOMAIN target' = Target /\ target'[copy[b].to] = FileOf(b, TRUE)
      BY <1>2, <2>2
    <3> QED BY <1>1, <2>2, <3>1, HolderGoes
  <2>3. CASE Ends(b, "failed") /\ DOMAIN target' = Target
    BY <1>1, <2>3, HolderEnds DEF Ends
  <2> QED BY <1>2, <1>5, <2>1, <2>2, <2>3 DEF VacuumEnds
<1>6. CASE Measure(b)
  <2>1. CASE Goes(b, "measured") /\ UNCHANGED <<inFlight, target>>
    <3>1. target'[copy[b].to] = FileOf(b, TRUE)
      BY <1>6, <2>1 DEF Measure, BackupInv
    <3> QED BY <1>1, <1>2, <2>1, <3>1, HolderGoes
  <2>2. CASE Ends(b, "failed") /\ UNCHANGED target
    BY <1>1, <1>2, <2>2, HolderEnds DEF Ends
  <2> QED BY <1>6, <2>1, <2>2 DEF Measure
<1>7. CASE Saved(b)
  BY <1>1, <1>2, <1>7, HolderEnds DEF Saved, Ends
<1> QED BY <1>3, <1>4, <1>5, <1>6, <1>7

LEMMA BackupDiesStep == ASSUME Cli = {}, BackupInv, BackupDies PROVE BackupInv'
<1>1. /\ UNCHANGED target
      /\ copy' = [b \in Copy |-> IF copy[b].step = "none" THEN copy[b]
                                   ELSE [copy[b] EXCEPT !.step = "failed"]]
  BY DEF BackupDies
<1>2. ASSUME NEW b \in Copy
      PROVE  copy'[b] \in CopyRow /\ copy'[b].step \in {"none", "failed"}
  <2>1. copy[b] \in CopyRow
    BY DEF BackupInv
  <2>2. [copy[b] EXCEPT !.step = "failed"] \in CopyRow
        /\ [copy[b] EXCEPT !.step = "failed"].step = "failed"
    BY <2>1 DEF CopyRow, CopySteps
  <2> QED BY <1>1, <2>1, <2>2
<1>3. copy' \in [Copy -> CopyRow]
  BY <1>1, <1>2
<1> QED BY <1>1, <1>2, <1>3 DEF BackupInv, Holding

LEMMA BackupInitInv == BackupInit => BackupInv
<1> SUFFICES ASSUME BackupInit PROVE BackupInv
  OBVIOUS
<1> DEFINE r == [step |-> "none", to |-> CHOOSE t \in Target : TRUE, force |-> FALSE]
<1>1. r \in CopyRow /\ r.step = "none"
  BY BackupAssumption DEF CopyRow, CopySteps
<1>2. copy = [b \in Copy |-> r] /\ DOMAIN target = Target
  BY DEF BackupInit
<1> HIDE DEF r
<1> QED BY <1>1, <1>2 DEF BackupInv, Holding

LEMMA BackupKept == ASSUME BackupInv, UNCHANGED backupVars PROVE BackupInv'
BY DEF BackupInv, backupVars, Holding

LEMMA BackupStep == ASSUME Cli = {}, BackupInv, [ShellNext]_shellVars PROVE BackupInv'
<1>1. CASE BackupNext
  BY <1>1, BackupBegins, CopyStep DEF BackupNext
<1>2. CASE Exit
  BY <1>2, BackupDiesStep DEF Exit
<1>3. CASE UNCHANGED backupVars
  BY <1>3, BackupKept
<1> QED BY <1>1, <1>2, <1>3 DEF ShellNext, Start, shellVars

\* Who is told "Saved" has a whole file of its own at its target, as long as
\* only one process makes backups: for any number of calls that share targets,
\* with --force or without, and with crashes between any two of their steps.
THEOREM SavedStaysWhole ==
    ASSUME Cli = {} PROVE ShellSpec => SavedIsWhole
<1> DEFINE A == \A b \in Copy : copy'[b].step = "saved" /\ copy[b].step # "saved" =>
                  target'[copy[b].to] = FileOf(b, TRUE)
<1>1. ShellInit => BackupInv
  BY BackupInitInv DEF ShellInit
<1>2. BackupInv /\ [ShellNext]_shellVars => BackupInv'
  BY BackupStep
<1>3. BackupInv /\ [ShellNext]_shellVars => [A]_backupVars
  <2> SUFFICES ASSUME BackupInv, ShellNext, ~UNCHANGED backupVars,
                      NEW b \in Copy, copy'[b].step = "saved", copy[b].step # "saved"
               PROVE  target'[copy[b].to] = FileOf(b, TRUE)
    BY DEF shellVars
  <2>1. CASE Exit
    <3>1. copy'[b] = copy[b] \/ copy'[b] = [copy[b] EXCEPT !.step = "failed"]
      BY <2>1 DEF Exit, BackupDies
    <3>2. copy[b] \in CopyRow
      BY DEF BackupInv
    <3> QED BY <3>1, <3>2 DEF CopyRow
  <2>2. ASSUME NEW c \in Copy, NEW s \in CopySteps \ {"saved"}, Goes(c, s) PROVE FALSE
    BY <2>2, GoesFacts DEF BackupInv
  <2>3. ASSUME NEW c \in Copy, NEW t \in Target, NEW force \in BOOLEAN,
               backup_database(c, t, force)
        PROVE  FALSE
    <3>1. Goes(c, "failed")
            \/ copy' = [copy EXCEPT ![c] = [step |-> "resolved", to |-> t, force |-> force]]
      BY <2>3 DEF backup_database
    <3>2. ASSUME copy' = [copy EXCEPT ![c] = [step |-> "resolved", to |-> t, force |-> force]]
          PROVE  FALSE
      BY <3>2 DEF BackupInv
    <3> QED BY <3>1, <3>2, <2>2 DEF CopySteps
  <2>4. ASSUME NEW c \in Copy,
               CheckTarget(c) \/ VacuumBegins(c) \/ VacuumEnds(c) \/ Measure(c)
        PROVE  FALSE
    <3>1. \E s \in {"sent", "vacuum", "written", "measured", "failed"} : Goes(c, s)
      BY <2>4 DEF CheckTarget, VacuumBegins, VacuumEnds, Measure, Ends
    <3> QED BY <3>1, <2>2 DEF CopySteps
  <2>5. ASSUME NEW c \in Copy, Saved(c)
        PROVE  target'[copy[b].to] = FileOf(b, TRUE)
    <3>1. Goes(c, "saved") /\ copy[c].step = "measured" /\ UNCHANGED target
      BY <2>5 DEF Saved, Ends
    <3>2. b = c
      BY <3>1, GoesFacts DEF BackupInv, CopySteps
    <3> QED BY <3>1, <3>2 DEF BackupInv
  <2>6. CASE BackupNext
    BY <2>3, <2>4, <2>5, <2>6 DEF BackupNext
  <2> QED BY <2>1, <2>6 DEF ShellNext, Start
<1> QED BY <1>1, <1>2, <1>3, PTL DEF ShellSpec, SavedIsWhole
-----------------------------------------------------------------------------
\* Which file a run is at.
LEMMA MovingFile ==
    ASSUME MoveInv, NEW f \in File, Moving(f)
    PROVE  move # NoMove /\ move.at \in 1 .. 3 /\ f = Order[move.at]
BY DEF Moving, MoveInv

LEMMA NextFile ==
    ASSUME MoveInv, move # NoMove, move \in MoveRow
    PROVE  /\ Following \in MoveRow /\ Following.step = "next"
           /\ Following # NoMove => Following.at \in 1 .. 3
<1>1. move.at \in 1 .. 3
  BY DEF MoveInv
<1>2. CASE move.at = 3
  BY <1>2 DEF Following, NoMove, MoveRow
<1>3. CASE move.at # 3
  <2>1. move.at + 1 \in 1 .. 3
    BY <1>1, <1>3
  <2>2. Following = [move EXCEPT !.at = move.at + 1, !.step = "next"]
    BY <1>3 DEF Following
  <2>3. /\ Following.at = move.at + 1 /\ Following.step = "next"
        /\ Following \in MoveRow
    <3>1. move.at + 1 \in 0 .. 3
      BY <2>1
    <3> DEFINE n == move.at + 1
    <3>2. n \in 0 .. 3 /\ Following = [move EXCEPT !.at = n, !.step = "next"]
      BY <2>2, <3>1
    <3> HIDE DEF n
    <3>3. Following.at = n /\ Following.step = "next" /\ Following \in MoveRow
      BY <3>2 DEF MoveRow
    <3> QED BY <3>3 DEF n
  <2> QED BY <2>1, <2>3
<1> QED BY <1>2, <1>3

\* What a step of a run leaves of one file's bytes.
FileKept(f) ==
    "old" \in {legacy[f], canonical[f]} /\ ~early'
        => "old" \in {legacy'[f], canonical'[f]}

LEMMA RunStep ==
    ASSUME MoveInv, NEW f \in File,
           \/ SkipAbsent(f) \/ MoveFile(f) \/ BeginCopy(f) \/ EndCopy(f) \/ RemoveSource(f)
    PROVE  MoveInv' /\ \A g \in File : FileKept(g)
<1>1. /\ move # NoMove /\ move.at \in 1 .. 3 /\ f = Order[move.at] /\ move \in MoveRow
      /\ UNCHANGED early
  BY MovingFile DEF SkipAbsent, MoveFile, BeginCopy, EndCopy, RemoveSource, MoveInv
<1>2. Following \in MoveRow /\ Following.step = "next"
      /\ (Following # NoMove => Following.at \in 1 .. 3)
  BY <1>1, NextFile
<1>3. legacy \in [File -> {"old", "none"}] /\ DOMAIN canonical = File
  BY DEF MoveInv
<1>4. CASE SkipAbsent(f)
  BY <1>1, <1>2, <1>4 DEF SkipAbsent, MoveInv, FileKept
<1>5. CASE MoveFile(f)
  <2>1. /\ legacy[f] = "old" /\ canonical' = [canonical EXCEPT ![f] = Arrives(legacy[f])]
        /\ legacy' = [legacy EXCEPT ![f] = "none"] /\ move' = Following
    BY <1>3, <1>5 DEF MoveFile
  <2>2. FileKept(f)
    BY <1>1, <1>3, <2>1 DEF FileKept, Arrives
  <2>3. \A g \in File : g # f => FileKept(g)
    BY <1>3, <2>1 DEF FileKept
  <2> QED BY <1>2, <1>3, <2>1, <2>2, <2>3 DEF MoveInv
<1>6. CASE BeginCopy(f)
  <2>1. /\ legacy[f] = "old" /\ canonical' = [canonical EXCEPT ![f] = Arrives("part")]
        /\ UNCHANGED legacy /\ move' = [move EXCEPT !.step = "copying"]
    BY <1>3, <1>6 DEF BeginCopy
  <2>2. move' \in MoveRow /\ move'.step = "copying" /\ move'.at = move.at
    BY <1>1, <2>1 DEF MoveRow
  <2>3. \A g \in File : FileKept(g)
    BY <1>3, <2>1 DEF FileKept
  <2> QED BY <1>1, <1>3, <2>1, <2>2, <2>3 DEF MoveInv
<1>7. CASE EndCopy(f)
  <2>1. /\ canonical' = [canonical EXCEPT ![f] = Arrives("old")]
        /\ UNCHANGED legacy /\ move' = [move EXCEPT !.step = "copied"]
    BY <1>7 DEF EndCopy
  <2>2. move' \in MoveRow /\ move'.step = "copied" /\ move'.at = move.at
    BY <1>1, <2>1 DEF MoveRow
  <2>3. \A g \in File : FileKept(g)
    BY <1>1, <1>3, <2>1 DEF FileKept, Arrives
  <2>4. ~early => canonical'[f] = "old"
    BY <1>3, <2>1 DEF Arrives
  <2> QED BY <1>1, <1>3, <2>1, <2>2, <2>3, <2>4 DEF MoveInv
<1>8. CASE RemoveSource(f)
  <2>1. /\ move.step = "copied" /\ legacy' = [legacy EXCEPT ![f] = "none"]
        /\ move' = Following /\ UNCHANGED canonical
    BY <1>8 DEF RemoveSource
  <2>2. ~early => canonical[f] = "old"
    BY <1>1, <2>1 DEF MoveInv
  <2>3. \A g \in File : FileKept(g)
    BY <1>1, <1>3, <2>1, <2>2 DEF FileKept
  <2> QED BY <1>2, <1>3, <2>1, <2>3 DEF MoveInv
<1> QED BY <1>4, <1>5, <1>6, <1>7, <1>8

LEMMA OpenStep ==
    ASSUME MoveInv, OpenDatabase PROVE MoveInv' /\ \A f \in File : FileKept(f)
<1>1. /\ early' = (early \/ InBetween) /\ UNCHANGED <<legacy, move>>
      /\ canonical' = [f \in File |-> CASE early'                -> "mixed"
                                        [] canonical[f] = "none" -> "new"
                                        [] OTHER                 -> canonical[f]]
  BY DEF OpenDatabase
<1>2. ~early' => ~early /\ move = NoMove
  BY <1>1 DEF InBetween
<1>3. ASSUME ~early', NEW f \in File, canonical[f] = "old" PROVE canonical'[f] = "old"
  BY <1>1, <1>3
<1>4. \A f \in File : FileKept(f)
  BY <1>1, <1>3 DEF FileKept
<1>5. DOMAIN canonical' = File
  BY <1>1
<1>6. move.step = "copied" => early'
  BY <1>2 DEF NoMove
<1> QED BY <1>1, <1>4, <1>5, <1>6 DEF MoveInv

LEMMA DataStep ==
    ASSUME MoveInv, [ShellNext]_shellVars PROVE MoveInv' /\ \A f \in File : FileKept(f)
<1>1. CASE UNCHANGED dataVars
  BY <1>1 DEF dataVars, MoveInv, FileKept
<1>2. CASE migrate
  <2>1. /\ UNCHANGED <<legacy, canonical, early>>
        /\ move' \in [at : {1}, step : {"next"}, across : BOOLEAN]
    BY <1>2 DEF migrate
  <2>2. move' \in MoveRow /\ move'.at = 1 /\ move'.step = "next"
    BY <2>1 DEF MoveRow
  <2> QED BY <2>1, <2>2 DEF MoveInv, FileKept
<1>3. CASE MoveStops
  BY <1>3 DEF MoveStops, MoveInv, FileKept, NoMove, MoveRow
<1> QED BY <1>1, <1>2, <1>3, RunStep, OpenStep
        DEF ShellNext, Start, Exit, DataNext, shellVars

\* Whatever step of a migration fails or is a process's last, for any number of
\* attempts on one file system or two: a file of the old library that is whole
\* at one of the two places stays so, unless the desktop opened the library in
\* between.
THEOREM LibraryStaysWhole == ShellSpec => NothingLost
<1>1. ShellInit => MoveInv
  BY DEF ShellInit, DataInit, MoveInv, NoMove, MoveRow
<1>2. MoveInv /\ [ShellNext]_shellVars => MoveInv'
  BY DataStep
<1>3. MoveInv /\ [ShellNext]_shellVars
        => [\A f \in File : "old" \in {legacy[f], canonical[f]} /\ ~early'
                              => "old" \in {legacy'[f], canonical'[f]}]_dataVars
  BY DataStep DEF FileKept
<1> QED BY <1>1, <1>2, <1>3, PTL DEF ShellSpec, NothingLost
-----------------------------------------------------------------------------
ConfigRow == [active : Provider \cup {NoProvider}, has : SUBSET Provider, torn : BOOLEAN]

ModalRow == [step : {"closed", "key", "config", "writing"}, name : Provider \cup {NoProvider},
             key : BOOLEAN, setAsActive : BOOLEAN, draft : ConfigRow]

\* The active provider is one of the table, with a key or known to lack it; of
\* what a torn write left this is not known.
Starts(c) ==
    /\ c \in ConfigRow
    /\ \/ c.torn
       \/ c.active = NoProvider
       \/ c.active \in c.has \cap (keyring \cup omitted)

\* What is on disk, and what a save will write, can be started from.
SettingsInv ==
    /\ config # Malformed => Starts(load)
    /\ cached # Absent \/ modal.step # "closed" => Starts(cached)
    /\ modal \in ModalRow
    /\ modal.step # "closed" => modal.name \in Provider
    /\ modal.step = "config" => modal.name \in keyring \cup omitted
    /\ modal.step = "writing" => Starts(modal.draft)

LEMMA ClosedModal ==
    /\ Default \in ConfigRow /\ Default.active = NoProvider
    /\ Closed \in ModalRow /\ Closed.step = "closed"
<1>1. Default \in ConfigRow /\ Default.active = NoProvider
  BY DEF Default, ConfigRow
<1> QED BY <1>1 DEF Closed, ModalRow

LEMMA SettingsInitInv == SettingsInit => SettingsInv
<1> SUFFICES ASSUME SettingsInit PROVE SettingsInv
  OBVIOUS
<1>1. config # Malformed => load = Default
  BY DEF SettingsInit, load
<1>2. Starts(Default)
  BY ClosedModal DEF Starts
<1>3. modal = Closed /\ cached = Absent
  BY DEF SettingsInit
<1> QED BY <1>1, <1>2, <1>3, ClosedModal DEF SettingsInv

LEMMA SettingsKept == ASSUME SettingsInv, UNCHANGED settingsVars PROVE SettingsInv'
BY DEF SettingsInv, Starts, load, settingsVars

\* A provider that has a key, or is known to lack it, stays one of the two.
LEMMA KeysKnown ==
    ASSUME SettingsInv, keyring \cup omitted \subseteq (keyring \cup omitted)',
           UNCHANGED <<config, cached>>
    PROVE  /\ (config # Malformed => Starts(load))'
           /\ cached # Absent \/ modal.step # "closed" => Starts(cached)'
<1>1. load' = load
  BY DEF load
<1> QED BY <1>1 DEF SettingsInv, Starts

LEMMA DraftKnown ==
    ASSUME SettingsInv, keyring \cup omitted \subseteq (keyring \cup omitted)', UNCHANGED modal
    PROVE  (modal.step = "writing" => Starts(modal.draft))'
BY DEF SettingsInv, Starts

LEMMA SaveStep ==
    ASSUME SettingsInv, NEW p \in Provider, NEW key \in BOOLEAN, NEW setAsActive \in BOOLEAN,
           Save(p, key, setAsActive)
    PROVE  SettingsInv'
<1>1. /\ cached # Absent
      /\ modal' = [Closed EXCEPT !.step = "key", !.name = p, !.key = key, !.setAsActive = setAsActive]
      /\ UNCHANGED <<config, keyring, cached, omitted>>
  BY DEF Save
<1>2. modal' \in ModalRow /\ modal'.step = "key" /\ modal'.name = p
  BY <1>1, ClosedModal DEF ModalRow
<1> QED BY <1>1, <1>2, KeysKnown DEF SettingsInv

LEMMA ModalGoes ==
    ASSUME SettingsInv, modal' = [modal EXCEPT !.step = "config"]
    PROVE  modal' \in ModalRow /\ modal'.step = "config" /\ modal'.name = modal.name
BY DEF SettingsInv, ModalRow

LEMMA KeyStep ==
    ASSUME SettingsInv, modal.step = "key", keyring \cup omitted \subseteq (keyring \cup omitted)',
           UNCHANGED <<config, cached>>,
           \/ modal' = Closed
           \/ modal' = [modal EXCEPT !.step = "config"] /\ modal.name \in (keyring \cup omitted)'
    PROVE  SettingsInv'
<1>1. Starts(cached)'
  BY KeysKnown
<1>2. CASE modal' = Closed
  BY <1>1, <1>2, KeysKnown, ClosedModal DEF SettingsInv
<1>3. CASE modal' = [modal EXCEPT !.step = "config"] /\ modal.name \in (keyring \cup omitted)'
  <2>1. modal.name \in Provider
    BY DEF SettingsInv
  <2> QED BY <1>1, <1>3, <2>1, KeysKnown, ModalGoes DEF SettingsInv
<1> QED BY <1>2, <1>3

\* The table that is to be written has the entry that was made active.
LEMMA DraftStarts == ASSUME SettingsInv, modal.step = "config" PROVE Starts(Draft)
<1>1. /\ Starts(cached) /\ modal.name \in Provider /\ modal.name \in keyring \cup omitted
      /\ modal.setAsActive \in BOOLEAN
  BY DEF SettingsInv, ModalRow
<1>2. Draft \in ConfigRow
  BY <1>1 DEF Draft, Starts, ConfigRow
<1>3. CASE modal.setAsActive
  BY <1>1, <1>2, <1>3 DEF Draft, Starts
<1>4. CASE ~modal.setAsActive
  <2>1. Draft.active = cached.active /\ Draft.torn = cached.torn /\ cached.has \subseteq Draft.has
    BY <1>1, <1>4 DEF Draft, Starts, ConfigRow
  <2> QED BY <1>1, <1>2, <2>1 DEF Starts
<1> QED BY <1>1, <1>3, <1>4

\* So has whatever a step of a save leaves of the file, or it is torn.
LEMMA WriteStep ==
    ASSUME SettingsInv, update_transcription_config \/ SaveEnds PROVE SettingsInv'
<1>1. /\ modal.step \in {"config", "writing"} /\ UNCHANGED <<keyring, cached, omitted>>
      /\ modal.name \in Provider /\ Starts(cached)
  BY DEF update_transcription_config, SaveEnds, SettingsInv
<1>2. \A c : Starts(c)' <=> Starts(c)
  BY <1>1 DEF Starts
<1>3. ASSUME NEW c, Starts(c), config' = c PROVE (config # Malformed => Starts(load))'
  <2>1. load' = c \/ load' = Default
    BY <1>3 DEF load
  <2>2. Starts(Default)
    BY ClosedModal DEF Starts
  <2> QED BY <1>2, <1>3, <2>1, <2>2
<1>4. CASE UNCHANGED config /\ modal' = Closed
  BY <1>1, <1>2, <1>4, KeysKnown, ClosedModal DEF SettingsInv
<1>5. CASE config' = modal.draft /\ modal' = Closed /\ modal.step = "writing"
  <2>1. Starts(modal.draft)
    BY <1>5 DEF SettingsInv
  <2> QED BY <1>1, <1>2, <1>3, <1>5, <2>1, ClosedModal DEF SettingsInv
<1>6. CASE /\ modal.step = "config" /\ config' \in Torn(Draft)
           /\ modal' = [modal EXCEPT !.step = "writing", !.draft = Draft]
  <2>1. Starts(Draft)
    BY <1>6, DraftStarts
  <2>2. Draft \in ConfigRow
    BY <2>1 DEF Starts
  <2>3. \A c \in Torn(Draft) : c = Malformed \/ Starts(c)
    <3>1. Starts([Default EXCEPT !.torn = TRUE])
      BY ClosedModal DEF Starts, ConfigRow, Default
    <3>2. ASSUME NEW c \in [active : {Draft.active}, has : SUBSET Draft.has, torn : {TRUE}]
          PROVE  Starts(c)
      <4> HIDE DEF Draft
      <4> QED BY <2>2, <3>2 DEF Starts, ConfigRow
    <3> QED BY <3>1, <3>2 DEF Torn
  <2>4. (config # Malformed => Starts(load))'
    BY <1>3, <1>6, <2>3
  <2>5. /\ modal' \in ModalRow /\ modal'.step = "writing" /\ modal'.name = modal.name
        /\ modal'.draft = Draft
    <3> HIDE DEF Draft
    <3> QED BY <1>6, <2>2 DEF SettingsInv, ModalRow
  <2>6. Starts(modal.draft)'
    <3>1. Starts(modal'.draft)
      BY <2>1, <2>5
    <3> QED BY <1>2, <3>1
  <2> QED BY <1>1, <1>2, <2>4, <2>5, <2>6 DEF SettingsInv
<1> QED BY <1>4, <1>5, <1>6 DEF update_transcription_config, SaveEnds

LEMMA SettingsNextStep == ASSUME SettingsInv, SettingsNext PROVE SettingsInv'
<1>1. ASSUME NEW p \in Provider, auth_set(p) \/ auth_delete(p) PROVE SettingsInv'
  <2>1. /\ keyring \cup omitted \subseteq (keyring \cup omitted)'
        /\ UNCHANGED <<config, cached, modal>>
    BY <1>1 DEF auth_set, auth_delete
  <2> QED BY <2>1, KeysKnown, DraftKnown DEF SettingsInv
<1>2. CASE EditByHand
  <2>1. config' = Malformed /\ UNCHANGED <<keyring, cached, modal, omitted>>
    BY <1>2 DEF EditByHand
  <2>2. Starts(cached)' <=> Starts(cached)
    BY <2>1 DEF Starts
  <2> QED BY <2>1, <2>2, DraftKnown DEF SettingsInv
<1>3. CASE FetchConfig
  <2>1. config # Malformed /\ cached' = load /\ UNCHANGED <<config, keyring, modal, omitted>>
    BY <1>3 DEF FetchConfig
  <2>2. load' = load /\ Starts(load)
    BY <2>1 DEF load, SettingsInv
  <2>3. Starts(load)' /\ Starts(cached)'
    BY <2>1, <2>2 DEF Starts
  <2> QED BY <2>1, <2>3, DraftKnown DEF SettingsInv
<1>4. CASE set_provider_key
  <2>1. modal.step = "key" /\ UNCHANGED <<config, cached>>
    BY <1>4 DEF set_provider_key
  <2>2. keyring \cup omitted \subseteq (keyring \cup omitted)'
    BY <1>4 DEF set_provider_key
  <2>3. \/ modal' = Closed
        \/ modal' = [modal EXCEPT !.step = "config"] /\ modal.name \in (keyring \cup omitted)'
    BY <1>4 DEF set_provider_key
  <2> QED BY <2>1, <2>2, <2>3, KeyStep
<1>5. CASE NoKeyGiven
  <2>1. /\ modal.step = "key" /\ UNCHANGED <<config, cached>>
        /\ keyring \cup omitted \subseteq (keyring \cup omitted)'
        /\ modal' = [modal EXCEPT !.step = "config"] /\ modal.name \in (keyring \cup omitted)'
    BY <1>5 DEF NoKeyGiven
  <2> QED BY <2>1, KeyStep
<1> QED BY <1>1, <1>2, <1>3, <1>4, <1>5, SaveStep, WriteStep DEF SettingsNext

LEMMA SettingsStep == ASSUME SettingsInv, [ShellNext]_shellVars PROVE SettingsInv'
<1>1. CASE Start
  <2>1. UNCHANGED <<config, keyring, cached, modal, omitted>>
    BY <1>1 DEF Start, SettingsStart
  <2> QED BY <2>1 DEF SettingsInv, Starts, load
<1>2. CASE Exit
  <2>1. /\ cached' = Absent /\ modal' = Closed /\ UNCHANGED <<config, keyring, omitted>>
    BY <1>2 DEF Exit, SettingsDies
  <2>2. load' = load /\ (Starts(load)' <=> Starts(load))
    BY <2>1 DEF load, Starts
  <2> QED BY <2>1, <2>2, ClosedModal DEF SettingsInv
<1>3. CASE UNCHANGED settingsVars
  BY <1>3, SettingsKept
<1>4. CASE UNCHANGED shellVars
  BY <1>4, SettingsKept DEF shellVars
<1> QED BY <1>1, <1>2, <1>3, <1>4, SettingsNextStep DEF ShellNext

\* However saves fail, end with the process, or overtake each other and the
\* command line: the next start has the active provider of a readable
\* config.toml, unless the user left it without a key, the keyring does not give
\* it, or the write of that file was cut short.
THEOREM ActiveProviderStarts == ShellSpec => ActiveStarts
<1>1. ASSUME SettingsInv, [ShellNext]_shellVars
      PROVE  [~running /\ running' /\ config # Malformed /\ ~load.torn
                /\ load.active \notin omitted \cup unread'
                => registry'.active = load.active]_<<running, settingsVars>>
  <2> SUFFICES ASSUME ~running, running', config # Malformed, ~load.torn,
                      load.active \notin omitted \cup unread'
               PROVE  registry'.active = load.active
    OBVIOUS
  <2>1. Start
    BY <1>1 DEF ShellNext, Exit, RunEnds, shellVars
  <2>2. PICK readable \in SUBSET keyring : /\ registry' = build_transcription_use_case(readable)
                                           /\ unread' = keyring \ readable
    BY <2>1 DEF Start, SettingsStart
  <2>3. load.active \in (load.has \cap keyring) \cup {NoProvider}
    BY <1>1 DEF SettingsInv, Starts
  <2>4. load.active \in (load.has \cap readable) \cup {NoProvider}
    BY <2>2, <2>3
  <2> QED BY <2>2, <2>4 DEF build_transcription_use_case
<1>2. ShellInit => SettingsInv
  BY SettingsInitInv DEF ShellInit
<1>3. SettingsInv /\ [ShellNext]_shellVars => SettingsInv'
  BY SettingsStep
<1> QED BY <1>1, <1>2, <1>3, PTL DEF ShellSpec, ActiveStarts
=============================================================================
