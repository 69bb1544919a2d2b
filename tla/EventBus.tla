---------------------------- MODULE EventBus ----------------------------
(***************************************************************************)
(* The application's event bus (crates/app/src/bus.rs) and the recv_loop   *)
(* tasks on it (crates/app/src/events.rs): one async_broadcast ring of     *)
(* CAPACITY events shared by all subscribers.  An event stays in the ring  *)
(* until every subscriber has received it; when the ring is full, emit     *)
(* drops the new event for everybody and returns Ok all the same.          *)
(*                                                                         *)
(* Events are numbered by the calls of emit.  Positions are absolute: the  *)
(* ring holds what the slowest subscriber has not received.                *)
(***************************************************************************)
EXTENDS Integers, Sequences

CONSTANTS Receiver,   \* handlers, each with its own recv_loop task
          CAPACITY,   \* ring size (256 in the code)
          MaxEmits    \* bound on the calls of emit

ASSUME EventBusAssumption == CAPACITY \in Nat \ {0} /\ MaxEmits \in Nat

VARIABLES
    emits,     \* calls of emit so far
    accepted,  \* the events that entered the ring, in order
    active,    \* the subscribed receivers
    start,     \* Receiver -> position at which it subscribed
    cursor,    \* Receiver -> position of the last event it received
    busy,      \* receivers inside handler.handle()
    handled    \* Receiver -> the events its handler is done with, in order

tasks == <<active, start, cursor, busy, handled>>
vars  == <<emits, accepted, tasks>>

Backlog(r) == Len(accepted) - cursor[r]

\* Mutant: full is noticed one event late.
FullLate == \E r \in active : Backlog(r) > CAPACITY

\* The slowest subscriber is a whole ring behind.
Full == \E r \in active : Backlog(r) >= CAPACITY

Init ==
    /\ emits = 0
    /\ accepted = <<>>
    /\ active = {}
    /\ start = [r \in Receiver |-> 0]
    /\ cursor = [r \in Receiver |-> 0]
    /\ busy = {}
    /\ handled = [r \in Receiver |-> <<>>]
-----------------------------------------------------------------------------
\* AppContainer::new_with_bus: subscribe (new_receiver starts at the end of
\* the ring) and spawn the handler's recv_loop.
Subscribe(r) ==
    /\ r \notin active
    /\ active' = active \cup {r}
    /\ cursor' = [cursor EXCEPT ![r] = Len(accepted)]
    /\ start' = [start EXCEPT ![r] = Len(accepted)]
    /\ handled' = [handled EXCEPT ![r] = <<>>]
    /\ UNCHANGED <<emits, accepted, busy>>

\* Bus::emit: try_broadcast.  With no active receiver the library answers
\* Inactive, with a full ring Full; the event is gone in both cases.
emit ==
    /\ emits < MaxEmits
    /\ emits' = emits + 1
    /\ \/ /\ active # {} /\ ~Full
          /\ accepted' = Append(accepted, emits + 1)
       \/ /\ active = {} \/ Full
          /\ UNCHANGED accepted
    /\ UNCHANGED tasks

\* Mutant: an event is waited for while another is in the ring.
RecvLate(r) ==
    /\ r \in active \ busy
    /\ Backlog(r) > 1
    /\ cursor' = [cursor EXCEPT ![r] = @ + 1]
    /\ busy' = busy \cup {r}
    /\ UNCHANGED <<emits, accepted, active, start, handled>>

\* recv().await yields the next event and handle() starts on it.
Recv(r) ==
    /\ r \in active \ busy
    /\ Backlog(r) > 0
    /\ cursor' = [cursor EXCEPT ![r] = @ + 1]
    /\ busy' = busy \cup {r}
    /\ UNCHANGED <<emits, accepted, active, start, handled>>

\* Mutant: an event whose handler panicked is taken again at the end.
HandledTwice(r) ==
    /\ r \in busy
    /\ busy' = busy \ {r}
    /\ handled' = [handled EXCEPT ![r] = Append(@, accepted[Len(accepted)])]
    /\ UNCHANGED <<emits, accepted, active, start, cursor>>

\* handle() returns, or panics and is caught: the loop continues either way.
Handled(r) ==
    /\ r \in busy
    /\ busy' = busy \ {r}
    /\ handled' = [handled EXCEPT ![r] = Append(@, accepted[cursor[r]])]
    /\ UNCHANGED <<emits, accepted, active, start, cursor>>

\* Mutant: the receiver is dropped under a running handler.
UnsubscribeBusy(r) ==
    /\ r \in active
    /\ active' = active \ {r}
    /\ UNCHANGED <<emits, accepted, start, cursor, busy, handled>>

\* The runtime drops the task at an await: its receiver leaves the ring.
Unsubscribe(r) ==
    /\ r \in active \ busy
    /\ active' = active \ {r}
    /\ UNCHANGED <<emits, accepted, start, cursor, busy, handled>>

Next ==
    \/ emit
    \/ \E r \in Receiver : Subscribe(r) \/ Recv(r) \/ Handled(r) \/ Unsubscribe(r)

\* The runtime polls every spawned task, and handlers terminate.
Fairness == \A r \in Receiver : WF_vars(Recv(r)) /\ WF_vars(Handled(r))

Spec == Init /\ [][Next]_vars /\ Fairness
-----------------------------------------------------------------------------
TypeOK ==
    /\ emits \in 0..MaxEmits
    /\ accepted \in Seq(1..MaxEmits)
    /\ active \subseteq Receiver
    /\ start \in [Receiver -> 0..MaxEmits]
    /\ cursor \in [Receiver -> 0..MaxEmits]
    /\ busy \subseteq active
    /\ handled \in [Receiver -> Seq(1..MaxEmits)]

\* The ring never holds more than CAPACITY events, whatever mixture of slow,
\* new and departing subscribers it has.
RingBounded == \A r \in active : Backlog(r) \in 0..CAPACITY

\* A subscriber handles exactly the events accepted since it subscribed, each
\* once and in the order of emission: no gap but the events emit() dropped.
NoGaps ==
    \A r \in active :
        handled[r] = SubSeq(accepted, start[r] + 1, cursor[r] - (IF r \in busy THEN 1 ELSE 0))

\* An accepted event is handled by every subscriber that stays: the backlog
\* of each is worked off.
WorkedOff ==
    \A r \in Receiver :
        (r \in active /\ Backlog(r) > 0) ~> (r \notin active \/ (Backlog(r) = 0 /\ r \notin busy))

\* A subscriber that is up to date receives the next event whatever the
\* others do: what the test slow_subscriber_does_not_block_fast says.
FastSubscriberHearsAll ==
    [][\A r \in active : emits' # emits /\ Backlog(r) = 0 => accepted' # accepted]_vars
=============================================================================
