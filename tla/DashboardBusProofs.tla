-------------------------- MODULE DashboardBusProofs --------------------------
(***************************************************************************)
(* Proofs about DashboardBus for any number of replicas, sockets, events    *)
(* and faults.                                                              *)
(***************************************************************************)
EXTENDS DashboardBus, FiniteSetTheorems, SequenceTheorems, TLAPS

-----------------------------------------------------------------------------
(* Part 1.  The inductive invariant. *)

\* What a listener holds: nothing but messages while it sends no event, and
\* the messages in the order of publication.
ListenerOK(r) ==
    /\ listener[r] \in {"starting", "dead"} => inbox[r] = <<>>
    /\ listener[r] = "sending" => inbox[r] # <<>> /\ pos[r] >= 1
    /\ listener[r] # "sending" => to[r] = None /\ dead[r] = {} /\ before[r] = {}
    /\ \A i \in 1 .. Len(inbox[r]) : inbox[r][i] <= published
    /\ \A i, j \in 1 .. Len(inbox[r]) : i < j => inbox[r][i] < inbox[r][j]

ListenerLedger == \A r \in Replicas : ListenerOK(r)

\* A socket is at one place of one replica's list; a socket that is sent to is
\* not at a place the loop has still to visit; whom a replica gave up is gone.
OnePlace ==
    \A r, q \in Replicas : \A i \in 1 .. Len(active[r]), j \in 1 .. Len(active[q]) :
        active[r][i] = active[q][j] => r = q /\ i = j

SentTo(r) ==
    to[r] # None =>
        /\ peer[to[r]] = "open" => to[r] \in Elements(active[r])
        /\ \A i \in 1 .. Len(active[r]) : active[r][i] = to[r] => i < pos[r]

SocketLedger ==
    /\ \A w \in Sockets : peer[w] = "none" => got[w] = <<>>
    /\ \A r \in Replicas : \A w \in dead[r] : peer[w] # "open"
    /\ OnePlace
    /\ \A r \in Replicas : SentTo(r)

\* What a browser got, against an event.
UpTo(events, e)    == \A k \in 1 .. Len(events) : events[k] <= e
Earlier(events, e) == \A k \in 1 .. Len(events) : events[k] < e

\* A socket that the loop has still to visit, or is being sent to, has only
\* earlier events than the one in hand; the others may have that one.
OrderOK(r) ==
    inbox[r] # <<>> =>
        /\ \A i \in 1 .. Len(active[r]) :
              /\ UpTo(got[active[r][i]], Event(r))
              /\ listener[r] # "sending" \/ i >= pos[r] => Earlier(got[active[r][i]], Event(r))
        /\ to[r] # None /\ peer[to[r]] = "open" => Earlier(got[to[r]], Event(r))

OrderLedger ==
    /\ \A w \in Sockets : UpTo(got[w], published)
    /\ \A r \in Replicas : OrderOK(r)

\* Sockets of the broadcast that the loop has passed without a send.
Slipped(r) ==
    {w \in before[r] :
        /\ to[r] # w /\ peer[w] = "open" /\ Event(r) \notin Elements(got[w])
        /\ \E i \in 1 .. Len(active[r]) : i < pos[r] /\ active[r][i] = w}

Leavers(r) == before[r] \ Elements(active[r])

\* Sockets that came during the broadcast are behind those that were there;
\* each of these that left may have cost one other the event.
SlipOK(r) ==
    listener[r] = "sending" =>
        /\ \A i, j \in 1 .. Len(active[r]) : i < j /\ active[r][j] \in before[r] => active[r][i] \in before[r]
        /\ Cardinality(Slipped(r)) <= Cardinality(Leavers(r))

SlipLedger == \A r \in Replicas : SlipOK(r)

BusInv == TypeOK /\ ListenerLedger /\ SocketLedger /\ OrderLedger /\ InOrderOnce /\ SlipLedger

-----------------------------------------------------------------------------
(* Part 2.  The lists. *)

(***************************************************************************)
(* Without takes one element out: the places before it stay, the later     *)
(* ones move up by one.                                                    *)
(***************************************************************************)
LEMMA WithoutList ==
    ASSUME NEW T, NEW s \in Seq(T), NEW i \in 1 .. Len(s)
    PROVE  /\ Without(s, i) \in Seq(T) /\ Len(Without(s, i)) = Len(s) - 1
           /\ \A j \in 1 .. Len(s) - 1 : Without(s, i)[j] = IF j < i THEN s[j] ELSE s[j + 1]
           /\ Len(s) - 1 \in Nat
<1>1. Len(s) \in Nat /\ Len(s) - 1 \in Nat /\ \A j \in 1 .. Len(s) : s[j] \in T
    OBVIOUS
<1>2. \A j \in 1 .. Len(s) - 1 : (IF j < i THEN s[j] ELSE s[j + 1]) \in T
    BY <1>1
<1> QED BY <1>1, <1>2 DEF Without

(***************************************************************************)
(* Remaining keeps elements outside D only, each from a place of its own:  *)
(* counting the kept places up to a kept one is an injection of the kept   *)
(* places into as many numbers, so every number is the count of one.       *)
(***************************************************************************)
LEMMA RemainingList ==
    ASSUME NEW T, NEW s \in Seq(T), NEW D
    PROVE  /\ Remaining(s, D) \in Seq(T)
           /\ \E nth \in [1 .. Len(Remaining(s, D)) -> 1 .. Len(s)] :
                /\ \A j \in 1 .. Len(Remaining(s, D)) : Remaining(s, D)[j] = s[nth[j]] /\ s[nth[j]] \notin D
                /\ \A j, k \in 1 .. Len(Remaining(s, D)) : nth[j] = nth[k] => j = k
<1> DEFINE keep    == {i \in 1 .. Len(s) : s[i] \notin D}
           upTo(i) == {k \in keep : k <= i}
           nth     == [j \in 1 .. Cardinality(keep) |-> CHOOSE i \in keep : Cardinality(upTo(i)) = j]
<1>1. Remaining(s, D) = [j \in 1 .. Cardinality(keep) |-> s[CHOOSE i \in keep : Cardinality(upTo(i)) = j]]
    BY DEF Remaining
<1>2. Remaining(s, D) = [j \in 1 .. Cardinality(keep) |-> s[nth[j]]]
    BY <1>1
<1>3. Len(s) \in Nat /\ keep \in SUBSET (1 .. Len(s))
    OBVIOUS
<1>4. IsFiniteSet(keep) /\ Cardinality(keep) \in Nat
    <2>1. IsFiniteSet(1 .. Len(s))
        BY <1>3, FS_Interval
    <2>2. IsFiniteSet(keep)
        BY ONLY <1>3, <2>1, FS_Subset
    <2> QED BY <2>2, FS_CardinalityType
<1>5. \A i \in keep : upTo(i) \in SUBSET keep /\ i \in upTo(i) /\ Cardinality(upTo(i)) \in 1 .. Cardinality(keep)
    <2> TAKE i \in keep
    <2>1. i \in Int /\ upTo(i) \in SUBSET keep /\ i \in upTo(i)
        BY <1>3
    <2> HIDE DEF keep, upTo
    <2>2. IsFiniteSet(upTo(i)) /\ Cardinality(upTo(i)) <= Cardinality(keep)
        BY <1>4, <2>1, FS_Subset
    <2>3. Cardinality(upTo(i)) \in Nat /\ Cardinality(upTo(i)) # 0
        BY <2>1, <2>2, FS_CardinalityType, FS_EmptySet
    <2> QED BY <1>4, <2>1, <2>2, <2>3
<1>6. \A i, j \in keep : i < j => Cardinality(upTo(i)) # Cardinality(upTo(j))
    <2> TAKE i, j \in keep
    <2> HAVE i < j
    <2>1. \A k \in keep : k \in Int
        BY <1>3
    <2> HIDE DEF keep, nth
    <2>2. i \in Int /\ j \in Int
        BY <2>1
    <2>a. \A k \in keep : k <= i => k <= j
        BY <2>1, <2>2
    <2>b. j <= j /\ ~(j <= i)
        BY <2>2
    <2>3. upTo(i) \in SUBSET upTo(j) /\ j \in upTo(j) /\ j \notin upTo(i)
        BY <2>a, <2>b
    <2> HIDE DEF upTo
    <2>4. IsFiniteSet(upTo(j))
        BY <1>4, <1>5, FS_Subset
    <2>5. upTo(i) # upTo(j)
        BY <2>3
    <2> QED BY ONLY <2>3, <2>4, <2>5, FS_Subset
<1>7. \A j \in 1 .. Cardinality(keep) : \E i \in keep : Cardinality(upTo(i)) = j
    <2> DEFINE rank == [i \in keep |-> Cardinality(upTo(i))]
    <2>1. \A i, j \in keep : i # j => i < j \/ j < i
        BY <1>3
    <2> HIDE DEF keep, upTo
    <2>2. \A i, j \in keep : rank[i] = rank[j] => i = j
        BY <1>6, <2>1
    <2>3. rank \in Injection(keep, 1 .. Cardinality(keep))
        BY <1>5, <2>2 DEF Injection, IsInjective
    <2>4. IsFiniteSet(1 .. Cardinality(keep)) /\ Cardinality(1 .. Cardinality(keep)) = Cardinality(keep)
        BY <1>4, FS_Interval
    <2> HIDE DEF rank
    <2>5. rank \in Surjection(keep, 1 .. Cardinality(keep))
        BY <2>3, <2>4, FS_Injection
    <2> QED BY <2>5 DEF Surjection, rank
<1>8. \A j \in 1 .. Cardinality(keep) : nth[j] \in keep /\ Cardinality(upTo(nth[j])) = j
    <2> HIDE DEF keep, upTo
    <2> QED BY <1>7
<1>9. \A j \in 1 .. Cardinality(keep) : nth[j] \in 1 .. Len(s) /\ s[nth[j]] \in T /\ s[nth[j]] \notin D
    <2>1. \A i \in keep : i \in 1 .. Len(s) /\ s[i] \in T /\ s[i] \notin D
        OBVIOUS
    <2> HIDE DEF keep, upTo, nth
    <2> QED BY <1>8, <2>1
<1>10. \A j, k \in 1 .. Cardinality(keep) : nth[j] = nth[k] => j = k
    <2> HIDE DEF nth, upTo
    <2> QED BY <1>8
<1>11. nth \in [1 .. Cardinality(keep) -> 1 .. Len(s)]
    BY <1>9
<1> HIDE DEF keep, nth
<1>12. Remaining(s, D) \in Seq(T) /\ Len(Remaining(s, D)) = Cardinality(keep)
    BY <1>2, <1>4, <1>9
<1> QED BY <1>2, <1>9, <1>10, <1>11, <1>12

-----------------------------------------------------------------------------
(* Part 3.  Types. *)

(***************************************************************************)
(* Nothing is published, connected or in hand initially.                   *)
(***************************************************************************)
LEMMA InitBus == Init => BusInv
<1> SUFFICES ASSUME Init PROVE BusInv
    OBVIOUS
<1>1. TypeOK
    BY BusAssumption DEF Init, TypeOK
<1>2. ListenerLedger /\ SocketLedger /\ OrderLedger /\ InOrderOnce /\ SlipLedger
    BY DEF Init, ListenerLedger, ListenerOK, SocketLedger, OnePlace, SentTo, OrderLedger, OrderOK, UpTo, InOrderOnce, SlipLedger, SlipOK
<1> QED BY <1>1, <1>2 DEF BusInv

(***************************************************************************)
(* The head of an inbox is its first message, an event that was published. *)
(***************************************************************************)
LEMMA HeadIsEvent ==
    ASSUME BusInv, NEW r \in Replicas, inbox[r] # <<>>
    PROVE  /\ Event(r) = inbox[r][1] /\ Len(inbox[r]) \in Nat /\ Len(inbox[r]) >= 1
           /\ Event(r) \in 1 .. MaxEvents /\ Event(r) <= published
<1>1. inbox[r] \in Seq(1 .. MaxEvents)
    BY DEF BusInv, TypeOK
<1>2. Event(r) = inbox[r][1] /\ Len(inbox[r]) \in Nat /\ Len(inbox[r]) >= 1 /\ Event(r) \in 1 .. MaxEvents
    <2>1. Len(inbox[r]) \in Nat \ {0}
        BY <1>1, EmptySeq
    <2>2. Head(inbox[r]) = inbox[r][1]
        BY <1>1
    <2>3. 1 \in 1 .. Len(inbox[r])
        BY <2>1
    <2>4. inbox[r][1] \in 1 .. MaxEvents
        BY <1>1, <2>3, ElementOfSeq
    <2> QED BY <2>1, <2>2, <2>4 DEF Event
<1>3. 1 \in 1 .. Len(inbox[r])
    BY <1>2
<1> QED BY <1>2, <1>3 DEF BusInv, ListenerLedger, ListenerOK

(***************************************************************************)
(* A listener that awaits a send is in a broadcast.                        *)
(***************************************************************************)
LEMMA SendIsBroadcast ==
    ASSUME BusInv, NEW r \in Replicas, to[r] # None
    PROVE  listener[r] = "sending" /\ inbox[r] # <<>> /\ pos[r] >= 1 /\ to[r] \in Sockets
BY DEF BusInv, TypeOK, ListenerLedger, ListenerOK

(***************************************************************************)
(* What a listener does keeps the types; the message in hand is an event.  *)
(***************************************************************************)
LEMMA ListenerTypes ==
    ASSUME BusInv, NEW r \in Replicas, listener_step(r)
    PROVE  TypeOK'
<1> USE DEF BusInv, TypeOK, page
<1>1. CASE subscribe(r)
    BY <1>1 DEF subscribe
<1>2. CASE listen(r)
    <2>1. Elements(active[r]) \in SUBSET Sockets
        BY DEF Elements
    <2> QED BY <1>2, <2>1 DEF listen
<1>3. CASE broadcast_next(r)
    <2>1. listener[r] = "sending" /\ pos[r] \in Nat /\ pos[r] >= 1 /\ pos[r] <= Len(active[r])
        BY <1>3 DEF broadcast_next, ListenerLedger, ListenerOK
    <2>2. active[r][pos[r]] \in Sockets
        BY <2>1
    <2> QED BY <1>3, <2>2 DEF broadcast_next
<1>4. CASE broadcast_sent(r)
    <2>1. to[r] \in Sockets /\ Event(r) \in 1 .. MaxEvents
        BY <1>4, SendIsBroadcast, HeadIsEvent DEF broadcast_sent
    <2>2. Append(got[to[r]], Event(r)) \in Seq(1 .. MaxEvents)
        BY <2>1
    <2>3. got' \in [Sockets -> Seq(1 .. MaxEvents)]
        BY <1>4, <2>1, <2>2 DEF broadcast_sent
    <2> QED BY <1>4, <2>3 DEF broadcast_sent
<1>5. CASE broadcast_raises(r)
    BY <1>5 DEF broadcast_raises
<1>6. CASE broadcast_ends(r)
    <2>1. Remaining(active[r], dead[r]) \in Seq(Sockets)
        BY RemainingList
    <2>2. Tail(inbox[r]) \in Seq(1 .. MaxEvents)
        BY <1>6 DEF broadcast_ends, ListenerLedger, ListenerOK
    <2> QED BY <1>6, <2>1, <2>2 DEF broadcast_ends
<1> QED BY <1>1, <1>2, <1>3, <1>4, <1>5, <1>6 DEF listener_step

(***************************************************************************)
(* Every step keeps the types.                                             *)
(***************************************************************************)
LEMMA NextTypes == BusInv /\ [Next]_vars => TypeOK'
<1> SUFFICES ASSUME BusInv, [Next]_vars PROVE TypeOK'
    OBVIOUS
<1> USE DEF BusInv, TypeOK, bus, page
<1>1. CASE publish_event
    <2>1. published' \in 1 .. MaxEvents /\ published' \in 0 .. MaxEvents
        BY <1>1, BusAssumption DEF publish_event
    <2>2. \A r \in Replicas : Append(inbox[r], published') \in Seq(1 .. MaxEvents)
        BY <2>1
    <2> QED BY <1>1, <2>1, <2>2 DEF publish_event
<1>2. ASSUME NEW r \in Replicas, listener_step(r) PROVE TypeOK'
    BY <1>2, ListenerTypes
<1>3. ASSUME NEW r \in Replicas, redis_lost(r) PROVE TypeOK'
    BY <1>3, BusAssumption DEF redis_lost, Stopped
<1>4. ASSUME NEW r \in Replicas, replica_restarts(r) PROVE TypeOK'
    <2>1. /\ peer' \in [Sockets -> {"none", "open", "closed"}]
          /\ got' \in [Sockets -> Seq(1 .. MaxEvents)]
          /\ active' \in [Replicas -> Seq(Sockets)]
        <3>1. PICK lost : /\ peer' = [w \in Sockets |-> IF w \in lost THEN "none" ELSE peer[w]]
                          /\ got' = [w \in Sockets |-> IF w \in lost THEN <<>> ELSE got[w]]
            BY <1>4 DEF replica_restarts
        <3>2. <<>> \in Seq(Sockets) /\ <<>> \in Seq(1 .. MaxEvents)
            OBVIOUS
        <3> QED BY <1>4, <3>1, <3>2 DEF replica_restarts
    <2>2. Stopped(r, "starting")
        BY <1>4 DEF replica_restarts
    <2>3. faults' \in 0 .. MaxFaults /\ published' = published
        BY <2>2, BusAssumption DEF Stopped
    <2>4. /\ listener' \in [Replicas -> {"starting", "listening", "sending", "dead"}]
          /\ inbox' \in [Replicas -> Seq(1 .. MaxEvents)]
          /\ pos' \in [Replicas -> Nat] /\ to' \in [Replicas -> Sockets \union {None}]
          /\ dead' \in [Replicas -> SUBSET Sockets] /\ before' \in [Replicas -> SUBSET Sockets]
        BY <2>2 DEF Stopped
    <2> QED BY <2>1, <2>3, <2>4
<1>5. ASSUME NEW w \in Sockets, closes(w) PROVE TypeOK'
    BY <1>5 DEF closes
<1>6. ASSUME NEW w \in Sockets, dashboard_ws_ends(w) PROVE TypeOK'
    <2>1. \A r \in Replicas : \A i \in 1 .. Len(active[r]) : Without(active[r], i) \in Seq(Sockets)
        BY WithoutList
    <2>2. active' = active => active' \in [Replicas -> Seq(Sockets)]
        OBVIOUS
    <2>3. ASSUME NEW r \in Replicas, NEW i \in 1 .. Len(active[r]),
                 active' = [active EXCEPT ![r] = Without(active[r], i)]
          PROVE  active' \in [Replicas -> Seq(Sockets)]
        BY <2>1, <2>3
    <2>4. active' \in [Replicas -> Seq(Sockets)]
        BY <1>6, <2>2, <2>3 DEF dashboard_ws_ends
    <2> QED BY <1>6, <2>4 DEF dashboard_ws_ends
<1>7. ASSUME NEW w \in Sockets, NEW r \in Replicas, connect(w, r) PROVE TypeOK'
    BY <1>7 DEF connect
<1>8. CASE UNCHANGED vars
    BY <1>8 DEF vars
<1> QED BY <1>1, <1>2, <1>3, <1>4, <1>5, <1>6, <1>7, <1>8 DEF Next

-----------------------------------------------------------------------------
(* Part 4.  Inboxes. *)

\* Replica q's listener is left alone.
SameListener(q) ==
    /\ listener'[q] = listener[q] /\ inbox'[q] = inbox[q] /\ pos'[q] = pos[q]
    /\ to'[q] = to[q] /\ dead'[q] = dead[q] /\ before'[q] = before[q]

(***************************************************************************)
(* A listener's step, a lost connection and a restart concern one replica. *)
(***************************************************************************)
LEMMA OneReplica ==
    ASSUME BusInv, NEW r \in Replicas, listener_step(r) \/ redis_lost(r) \/ replica_restarts(r)
    PROVE  /\ published' = published
           /\ \A q \in Replicas \ {r} : SameListener(q) /\ active'[q] = active[q]
<1> USE DEF BusInv, TypeOK, SameListener
<1>1. CASE subscribe(r) \/ listen(r) \/ broadcast_next(r) \/ broadcast_sent(r) \/ broadcast_raises(r)
    BY <1>1 DEF subscribe, listen, broadcast_next, broadcast_sent, broadcast_raises
<1>2. CASE broadcast_ends(r)
    BY <1>2 DEF broadcast_ends
<1>3. CASE redis_lost(r)
    BY <1>3 DEF redis_lost, Stopped
<1>4. CASE replica_restarts(r)
    BY <1>4 DEF replica_restarts, Stopped
<1> QED BY <1>1, <1>2, <1>3, <1>4 DEF listener_step

(***************************************************************************)
(* A message that is taken off leaves an inbox in order.                   *)
(***************************************************************************)
LEMMA TailInOrder ==
    ASSUME BusInv, NEW r \in Replicas, inbox[r] # <<>>, inbox'[r] = Tail(inbox[r]), published' = published
    PROVE  /\ inbox'[r] # <<>> => inbox'[r][1] > Event(r)
           /\ \A i \in 1 .. Len(inbox'[r]) : inbox'[r][i] <= published'
           /\ \A i, j \in 1 .. Len(inbox'[r]) : i < j => inbox'[r][i] < inbox'[r][j]
<1>1. inbox[r] \in Seq(1 .. MaxEvents) /\ ListenerOK(r)
    BY DEF BusInv, TypeOK, ListenerLedger
<1>2. /\ Tail(inbox[r]) \in Seq(1 .. MaxEvents)
      /\ Len(Tail(inbox[r])) = Len(inbox[r]) - 1
      /\ \A i \in 1 .. Len(Tail(inbox[r])) : Tail(inbox[r])[i] = inbox[r][i + 1]
    BY <1>1, HeadTailProperties
<1>3. Len(inbox[r]) \in Nat /\ Len(inbox[r]) >= 1 /\ Event(r) = inbox[r][1]
    BY HeadIsEvent
<1>4. \A i \in 1 .. Len(inbox'[r]) : i + 1 \in 1 .. Len(inbox[r]) /\ inbox'[r][i] = inbox[r][i + 1]
    BY <1>2, <1>3
<1>5. \A i \in 1 .. Len(inbox'[r]) : inbox'[r][i] <= published'
    BY <1>1, <1>4 DEF ListenerOK
<1>6. \A i, j \in 1 .. Len(inbox'[r]) : i < j => inbox'[r][i] < inbox'[r][j]
    <2> TAKE i, j \in 1 .. Len(inbox'[r])
    <2> HAVE i < j
    <2>1. i + 1 < j + 1
        OBVIOUS
    <2> QED BY <1>1, <1>4, <2>1 DEF ListenerOK
<1>7. ASSUME inbox'[r] # <<>> PROVE inbox'[r][1] > Event(r)
    <2>1. 1 \in 1 .. Len(inbox'[r])
        BY <1>2, <1>7, EmptySeq
    <2>2. inbox'[r][1] = inbox[r][2] /\ 1 \in 1 .. Len(inbox[r]) /\ 2 \in 1 .. Len(inbox[r])
        BY <1>3, <1>4, <2>1
    <2>3. inbox[r][1] < inbox[r][2]
        BY <1>1, <2>2 DEF ListenerOK
    <2>4. inbox[r][1] \in Nat /\ inbox[r][2] \in Nat
        <3>1. inbox[r][1] \in 1 .. MaxEvents /\ inbox[r][2] \in 1 .. MaxEvents
            BY <1>1, <2>2, ElementOfSeq
        <3> QED BY <3>1, BusAssumption
    <2> QED BY <1>3, <2>2, <2>3, <2>4
<1> QED BY <1>5, <1>6, <1>7

(***************************************************************************)
(* A new event goes to the end of an inbox; an inbox that had a head keeps *)
(* it.                                                                     *)
(***************************************************************************)
LEMMA PublishInOrder ==
    ASSUME BusInv, publish_event, NEW r \in Replicas
    PROVE  /\ ListenerOK(r)'
           /\ inbox[r] # <<>> => inbox'[r] # <<>> /\ Event(r)' = Event(r)
           /\ inbox[r] = <<>> /\ inbox'[r] # <<>> => Event(r)' = published + 1
<1>1. inbox[r] \in Seq(1 .. MaxEvents) /\ ListenerOK(r) /\ published \in Nat
    BY DEF BusInv, TypeOK, ListenerLedger
<1>2. /\ published' = published + 1 /\ published' \in 1 .. MaxEvents
      /\ listener' = listener /\ pos' = pos /\ to' = to /\ dead' = dead /\ before' = before
    BY <1>1, BusAssumption DEF publish_event
<1>3. \A i \in 1 .. Len(inbox[r]) : inbox[r][i] \in Nat /\ inbox[r][i] <= published
    <2>1. \A i \in 1 .. Len(inbox[r]) : inbox[r][i] \in 1 .. MaxEvents
        BY <1>1, ElementOfSeq
    <2> QED BY <1>1, <2>1, BusAssumption DEF ListenerOK
<1>4. CASE inbox'[r] = inbox[r]
    <2>1. \A i \in 1 .. Len(inbox'[r]) : inbox'[r][i] <= published'
        BY <1>1, <1>2, <1>3, <1>4
    <2> QED BY <1>1, <1>2, <1>4, <2>1 DEF ListenerOK, Event
<1>5. CASE listener[r] \in {"listening", "sending"} /\ inbox'[r] = Append(inbox[r], published')
    <2>1. /\ inbox'[r] \in Seq(1 .. MaxEvents) /\ Len(inbox[r]) \in Nat
          /\ Len(inbox'[r]) = Len(inbox[r]) + 1 /\ inbox'[r] # <<>>
          /\ inbox'[r][Len(inbox[r]) + 1] = published'
          /\ \A i \in 1 .. Len(inbox[r]) : inbox'[r][i] = inbox[r][i]
        BY <1>1, <1>2, <1>5
    <2>2. \A i \in 1 .. Len(inbox'[r]) : i \in 1 .. Len(inbox[r]) \/ i = Len(inbox[r]) + 1
        BY <2>1
    <2>3. \A i \in 1 .. Len(inbox'[r]) : inbox'[r][i] <= published'
        BY <1>1, <1>2, <1>3, <2>1, <2>2
    <2>4. \A i, j \in 1 .. Len(inbox'[r]) : i < j => inbox'[r][i] < inbox'[r][j]
        <3> TAKE i, j \in 1 .. Len(inbox'[r])
        <3> HAVE i < j
        <3>1. i \in 1 .. Len(inbox[r])
            BY <2>1, <2>2
        <3>2. CASE j \in 1 .. Len(inbox[r])
            BY <1>1, <2>1, <3>1, <3>2 DEF ListenerOK
        <3>3. CASE j = Len(inbox[r]) + 1
            BY <1>1, <1>2, <1>3, <2>1, <3>1, <3>3
        <3> QED BY <2>2, <3>2, <3>3
    <2>5. ListenerOK(r)'
        BY <1>1, <1>2, <1>5, <2>1, <2>3, <2>4 DEF ListenerOK
    <2>6. Head(inbox'[r]) = inbox'[r][1] /\ Head(inbox[r]) = inbox[r][1]
        BY <1>1, <2>1
    <2>7. inbox[r] # <<>> => 1 \in 1 .. Len(inbox[r])
        BY <1>1, EmptySeq
    <2>8. inbox[r] = <<>> => Len(inbox[r]) + 1 = 1
        BY EmptySeq
    <2> QED BY <1>2, <2>1, <2>5, <2>6, <2>7, <2>8 DEF Event
<1> QED BY <1>4, <1>5 DEF publish_event, BusInv, TypeOK

(***************************************************************************)
(* Every step keeps what the listeners hold.                               *)
(***************************************************************************)
LEMMA NextListener == BusInv /\ [Next]_vars => ListenerLedger'
<1> SUFFICES ASSUME BusInv, [Next]_vars, NEW q \in Replicas PROVE ListenerOK(q)'
    BY DEF ListenerLedger
<1>a. ASSUME SameListener(q), published' = published PROVE ListenerOK(q)'
    BY <1>a DEF BusInv, ListenerLedger, ListenerOK, SameListener
<1>1. CASE publish_event
    BY <1>1, PublishInOrder
<1>2. ASSUME NEW r \in Replicas, listener_step(r) \/ redis_lost(r) \/ replica_restarts(r), q # r
      PROVE  ListenerOK(q)'
    BY <1>2, <1>a, OneReplica
<1>3. ASSUME redis_lost(q) \/ replica_restarts(q) PROVE ListenerOK(q)'
    <2>1. /\ listener'[q] \in {"starting", "dead"} /\ inbox'[q] = <<>> /\ to'[q] = None
          /\ dead'[q] = {} /\ before'[q] = {}
        BY <1>3 DEF redis_lost, replica_restarts, Stopped, BusInv, TypeOK
    <2> QED BY <2>1, EmptySeq DEF ListenerOK
<1>4. ASSUME listener_step(q) PROVE ListenerOK(q)'
    <2> USE DEF BusInv, TypeOK, ListenerLedger, ListenerOK
    <2>1. CASE subscribe(q)
        BY <2>1 DEF subscribe
    <2>2. CASE listen(q)
        BY <2>2 DEF listen
    <2>3. CASE broadcast_next(q)
        BY <2>3 DEF broadcast_next
    <2>4. CASE broadcast_sent(q) \/ broadcast_raises(q)
        BY <2>4, SendIsBroadcast DEF broadcast_sent, broadcast_raises
    <2>5. CASE broadcast_ends(q)
        <3>1. /\ inbox[q] # <<>> /\ inbox'[q] = Tail(inbox[q]) /\ published' = published
              /\ listener'[q] = "listening" /\ to'[q] = None /\ dead'[q] = {} /\ before'[q] = {}
            BY <2>5 DEF broadcast_ends
        <3> QED BY <3>1, TailInOrder
    <2> QED BY <1>4, <2>1, <2>2, <2>3, <2>4, <2>5 DEF listener_step
<1>5. ASSUME NEW w \in Sockets,
             closes(w) \/ dashboard_ws_ends(w) \/ \E r \in Replicas : connect(w, r)
      PROVE  ListenerOK(q)'
    BY <1>5, <1>a DEF closes, dashboard_ws_ends, connect, bus, SameListener
<1>6. CASE UNCHANGED vars
    BY <1>6, <1>a DEF vars, bus, SameListener
<1> QED BY <1>1, <1>2, <1>3, <1>4, <1>5, <1>6 DEF Next

-----------------------------------------------------------------------------
(* Part 5.  The places of the sockets. *)

\* Replica r's list loses elements at most: each place of the new one stands
\* for a place of its own in the old one.
Thinned(r) ==
    \E from \in [1 .. Len(active'[r]) -> 1 .. Len(active[r])] :
        /\ \A i \in 1 .. Len(active'[r]) : active'[r][i] = active[r][from[i]]
        /\ \A i, j \in 1 .. Len(active'[r]) : from[i] = from[j] => i = j

(***************************************************************************)
(* A handler that ends takes its socket out of one list, or finds it gone. *)
(***************************************************************************)
LEMMA HandlerEnds ==
    ASSUME BusInv, NEW w \in Sockets, dashboard_ws_ends(w), NEW r \in Replicas
    PROVE  \/ active'[r] = active[r] /\ w \notin Elements(active[r])
           \/ \E i \in 1 .. Len(active[r]) :
                /\ active[r][i] = w /\ Len(active'[r]) = Len(active[r]) - 1
                /\ \A j \in 1 .. Len(active[r]) - 1 :
                      active'[r][j] = IF j < i THEN active[r][j] ELSE active[r][j + 1]
<1> USE DEF BusInv, TypeOK
<1>1. CASE \A q \in Replicas : w \notin Elements(active[q])
    <2>1. active' = active
        BY <1>1 DEF dashboard_ws_ends, Elements
    <2> QED BY <1>1, <2>1
<1>2. ASSUME NEW q \in Replicas, NEW i \in 1 .. Len(active[q]), active[q][i] = w,
             active' = [active EXCEPT ![q] = Without(active[q], i)]
      PROVE  \/ active'[r] = active[r] /\ w \notin Elements(active[r])
             \/ \E k \in 1 .. Len(active[r]) :
                  /\ active[r][k] = w /\ Len(active'[r]) = Len(active[r]) - 1
                  /\ \A j \in 1 .. Len(active[r]) - 1 :
                        active'[r][j] = IF j < k THEN active[r][j] ELSE active[r][j + 1]
    <2>1. CASE r = q
        <3>1. active[q] \in Seq(Sockets) /\ active'[q] = Without(active[q], i)
            BY <1>2
        <3>2. /\ Len(active'[q]) = Len(active[q]) - 1
              /\ \A j \in 1 .. Len(active[q]) - 1 :
                    active'[q][j] = IF j < i THEN active[q][j] ELSE active[q][j + 1]
            BY <3>1, WithoutList
        <3> QED BY <3>2, <2>1, <1>2
    <2>2. CASE r # q
        <3>1. active'[r] = active[r]
            BY <1>2, <2>2
        <3>2. \A j \in 1 .. Len(active[r]) : active[r][j] # w
            BY <1>2, <2>2 DEF SocketLedger, OnePlace
        <3> QED BY <3>1, <3>2 DEF Elements
    <2> QED BY <2>1, <2>2
<1> QED BY <1>1, <1>2 DEF dashboard_ws_ends

(***************************************************************************)
(* Only a new connection makes a list longer.                              *)
(***************************************************************************)
LEMMA ListsAreThinned ==
    ASSUME BusInv, [Next]_vars, NEW r \in Replicas,
           \A w \in Sockets, q \in Replicas : ~connect(w, q)
    PROVE  Thinned(r)
<1> USE DEF BusInv, TypeOK
<1>1. active[r] \in Seq(Sockets) /\ Len(active[r]) \in Nat
    OBVIOUS
<1>2. ASSUME active'[r] = active[r] PROVE Thinned(r)
    <2>1. [i \in 1 .. Len(active'[r]) |-> i] \in [1 .. Len(active'[r]) -> 1 .. Len(active[r])]
        BY <1>2
    <2> QED BY <1>2, <2>1 DEF Thinned
<1>3. ASSUME active'[r] = <<>> PROVE Thinned(r)
    <2>1. 1 .. Len(active'[r]) = {}
        BY <1>3
    <2>2. [i \in 1 .. Len(active'[r]) |-> i] \in [1 .. Len(active'[r]) -> 1 .. Len(active[r])]
        BY <2>1
    <2> QED BY <2>1, <2>2 DEF Thinned
<1>4. ASSUME NEW q \in Replicas, listener_step(q) \/ redis_lost(q) \/ replica_restarts(q) PROVE Thinned(r)
    <2>1. CASE q # r
        BY <1>2, <1>4, <2>1, OneReplica
    <2>2. CASE broadcast_ends(r)
        <3>1. active'[r] = Remaining(active[r], dead[r])
            BY <2>2 DEF broadcast_ends
        <3>2. PICK nth \in [1 .. Len(active'[r]) -> 1 .. Len(active[r])] :
                  /\ \A j \in 1 .. Len(active'[r]) : active'[r][j] = active[r][nth[j]]
                  /\ \A j, k \in 1 .. Len(active'[r]) : nth[j] = nth[k] => j = k
            <4>1. \E nth \in [1 .. Len(Remaining(active[r], dead[r])) -> 1 .. Len(active[r])] :
                     /\ \A j \in 1 .. Len(Remaining(active[r], dead[r])) :
                           /\ Remaining(active[r], dead[r])[j] = active[r][nth[j]]
                           /\ active[r][nth[j]] \notin dead[r]
                     /\ \A j, k \in 1 .. Len(Remaining(active[r], dead[r])) : nth[j] = nth[k] => j = k
                BY ONLY <1>1, RemainingList
            <4> QED BY ONLY <3>1, <4>1
        <3> QED BY <3>2 DEF Thinned
    <2>3. CASE replica_restarts(r)
        BY <1>3, <2>3 DEF replica_restarts
    <2>4. CASE subscribe(r) \/ listen(r) \/ broadcast_next(r) \/ broadcast_sent(r) \/ broadcast_raises(r)
               \/ redis_lost(r)
        BY <1>2, <2>4 DEF subscribe, listen, broadcast_next, broadcast_sent, broadcast_raises, redis_lost
    <2> QED BY <1>4, <2>1, <2>2, <2>3, <2>4 DEF listener_step
<1>5. ASSUME NEW w \in Sockets, dashboard_ws_ends(w) PROVE Thinned(r)
    <2>1. CASE active'[r] = active[r]
        BY <1>2, <2>1
    <2>2. ASSUME NEW i \in 1 .. Len(active[r]), Len(active'[r]) = Len(active[r]) - 1,
                 \A j \in 1 .. Len(active[r]) - 1 :
                     active'[r][j] = IF j < i THEN active[r][j] ELSE active[r][j + 1]
          PROVE  Thinned(r)
        <3>1. PICK from : from = [j \in 1 .. Len(active'[r]) |-> IF j < i THEN j ELSE j + 1]
            OBVIOUS
        <3>2. from \in [1 .. Len(active'[r]) -> 1 .. Len(active[r])]
            BY <1>1, <2>2, <3>1
        <3>3. \A j, k \in 1 .. Len(active'[r]) : from[j] = from[k] => j = k
            BY <1>1, <2>2, <3>1
        <3>4. \A j \in 1 .. Len(active'[r]) : active'[r][j] = active[r][from[j]]
            BY <1>1, <2>2, <3>1
        <3> QED BY <3>2, <3>3, <3>4 DEF Thinned
    <2> QED BY <1>5, <2>1, <2>2, HandlerEnds
<1>6. CASE publish_event \/ (\E w \in Sockets : closes(w)) \/ UNCHANGED vars
    BY <1>2, <1>6 DEF publish_event, closes, vars
<1> QED BY <1>4, <1>5, <1>6 DEF Next

(***************************************************************************)
(* A socket stays at one place of one list.                                *)
(***************************************************************************)
LEMMA NextOnePlace == BusInv /\ [Next]_vars => OnePlace'
<1> SUFFICES ASSUME BusInv, [Next]_vars PROVE OnePlace'
    OBVIOUS
<1>a. OnePlace /\ \A r \in Replicas : active[r] \in Seq(Sockets) /\ Len(active[r]) \in Nat
    BY DEF BusInv, TypeOK, SocketLedger
<1>1. ASSUME NEW w \in Sockets, NEW q \in Replicas, connect(w, q) PROVE OnePlace'
    <2>1. /\ active'[q] = Append(active[q], w)
          /\ \A r \in Replicas \ {q} : active'[r] = active[r]
        BY <1>1 DEF connect, BusInv, TypeOK
    <2>2. \A r \in Replicas : \A i \in 1 .. Len(active[r]) : active[r][i] # w
        BY <1>1 DEF connect, Unused, Elements
    <2>3. /\ Len(active'[q]) = Len(active[q]) + 1
          /\ active'[q][Len(active[q]) + 1] = w
          /\ \A i \in 1 .. Len(active[q]) : active'[q][i] = active[q][i]
        BY <1>a, <2>1
    <2>4. \A r \in Replicas : \A i \in 1 .. Len(active'[r]) :
              \/ i \in 1 .. Len(active[r]) /\ active'[r][i] = active[r][i]
              \/ r = q /\ i = Len(active[q]) + 1 /\ active'[r][i] = w
        <3> TAKE r \in Replicas
        <3> TAKE i \in 1 .. Len(active'[r])
        <3>1. CASE r = q
            BY <1>a, <2>3, <3>1
        <3>2. CASE r # q
            BY <2>1, <3>2
        <3> QED BY <3>1, <3>2
    <2> SUFFICES ASSUME NEW r \in Replicas, NEW s \in Replicas,
                        NEW i \in 1 .. Len(active'[r]), NEW j \in 1 .. Len(active'[s]),
                        active'[r][i] = active'[s][j]
                 PROVE  r = s /\ i = j
        BY DEF OnePlace
    <2>5. CASE i \in 1 .. Len(active[r]) /\ active'[r][i] = active[r][i]
        <3>1. CASE j \in 1 .. Len(active[s]) /\ active'[s][j] = active[s][j]
            <4>1. active[r][i] = active[s][j]
                BY <2>5, <3>1
            <4>2. i \in 1 .. Len(active[r]) /\ j \in 1 .. Len(active[s]) /\ OnePlace
                BY <1>a, <2>5, <3>1
            <4> QED BY ONLY <4>1, <4>2 DEF OnePlace
        <3>2. active'[s][j] # w
            BY <2>2, <2>5
        <3> QED BY <2>4, <3>1, <3>2
    <2>6. CASE r = q /\ i = Len(active[q]) + 1 /\ active'[r][i] = w
        BY <2>2, <2>4, <2>6
    <2> QED BY <2>4, <2>5, <2>6
<1>2. CASE \A w \in Sockets, q \in Replicas : ~connect(w, q)
    <2>1. \A r \in Replicas : Thinned(r)
        BY <1>2, ListsAreThinned
    <2> SUFFICES ASSUME NEW r \in Replicas, NEW q \in Replicas,
                        NEW i \in 1 .. Len(active'[r]), NEW j \in 1 .. Len(active'[q]),
                        active'[r][i] = active'[q][j]
                 PROVE  r = q /\ i = j
        BY DEF OnePlace
    <2>2. PICK f \in [1 .. Len(active'[r]) -> 1 .. Len(active[r])] :
              /\ \A k \in 1 .. Len(active'[r]) : active'[r][k] = active[r][f[k]]
              /\ \A k, l \in 1 .. Len(active'[r]) : f[k] = f[l] => k = l
        BY <2>1 DEF Thinned
    <2>3. CASE r = q
        <3>1. /\ f[i] \in 1 .. Len(active[r]) /\ f[j] \in 1 .. Len(active[r])
              /\ active[r][f[i]] = active[r][f[j]]
            BY <2>2, <2>3
        <3>2. f[i] = f[j]
            BY <1>a, <3>1 DEF OnePlace
        <3> QED BY <2>2, <2>3, <3>2
    <2>4. PICK g \in [1 .. Len(active'[q]) -> 1 .. Len(active[q])] :
              \A k \in 1 .. Len(active'[q]) : active'[q][k] = active[q][g[k]]
        BY <2>1 DEF Thinned
    <2>5. /\ f[i] \in 1 .. Len(active[r]) /\ g[j] \in 1 .. Len(active[q])
          /\ active[r][f[i]] = active[q][g[j]]
        BY <2>2, <2>4
    <2>6. r = q
        BY <1>a, <2>5 DEF OnePlace
    <2> QED BY <2>3, <2>6
<1> QED BY <1>1, <1>2

-----------------------------------------------------------------------------
(* Part 6.  The sockets and who is sent to. *)

\* What a step may do to socket w and to what it got.
PageChange(w) ==
    /\ peer'[w] = "open" => peer[w] = "open" \/ \E r \in Replicas : connect(w, r)
    /\ peer'[w] = "none" => peer[w] = "none" \/ got'[w] = <<>>
    /\ \/ got'[w] = got[w]
       \/ got'[w] = <<>> /\ peer'[w] = "none"
       \/ \E r \in Replicas : /\ broadcast_sent(r) /\ to[r] = w /\ peer[w] = "open"
                              /\ got'[w] = Append(got[w], Event(r)) /\ peer'[w] = peer[w]

(***************************************************************************)
(* A socket opens when a page connects, gets an event when a send to it    *)
(* returns, and forgets what it got when it is gone.                       *)
(***************************************************************************)
LEMMA PagesChange == BusInv /\ [Next]_vars => \A w \in Sockets : PageChange(w)
<1> SUFFICES ASSUME BusInv, [Next]_vars, NEW w \in Sockets PROVE PageChange(w)
    OBVIOUS
<1>a. peer \in [Sockets -> {"none", "open", "closed"}] /\ got \in [Sockets -> Seq(1 .. MaxEvents)]
    BY DEF BusInv, TypeOK
<1>b. UNCHANGED page => PageChange(w)
    BY DEF page, PageChange
<1>1. ASSUME NEW r \in Replicas, broadcast_sent(r) PROVE PageChange(w)
    <2>1. peer' = peer /\ to[r] \in Sockets
        BY <1>1, SendIsBroadcast DEF broadcast_sent
    <2>2. CASE peer[to[r]] = "open" /\ w = to[r]
        <3>1. got'[w] = Append(got[w], Event(r))
            BY <1>1, <1>a, <2>2 DEF broadcast_sent
        <3> QED BY <1>1, <2>1, <2>2, <3>1 DEF PageChange
    <2>3. CASE ~(peer[to[r]] = "open" /\ w = to[r])
        <3>1. got'[w] = got[w]
            BY <1>1, <1>a, <2>1, <2>3 DEF broadcast_sent
        <3> QED BY <2>1, <3>1 DEF PageChange
    <2> QED BY <2>2, <2>3
<1>2. ASSUME NEW r \in Replicas, listener_step(r), ~broadcast_sent(r) PROVE PageChange(w)
    BY <1>2, <1>b DEF listener_step, subscribe, listen, broadcast_next, broadcast_raises, broadcast_ends
<1>3. ASSUME NEW r \in Replicas, replica_restarts(r) PROVE PageChange(w)
    <2>1. PICK lost : /\ peer' = [v \in Sockets |-> IF v \in lost THEN "none" ELSE peer[v]]
                      /\ got' = [v \in Sockets |-> IF v \in lost THEN <<>> ELSE got[v]]
        BY <1>3 DEF replica_restarts
    <2> QED BY <2>1 DEF PageChange
<1>4. ASSUME NEW v \in Sockets, closes(v) PROVE PageChange(w)
    BY <1>4, <1>a DEF closes, PageChange
<1>5. ASSUME NEW v \in Sockets, dashboard_ws_ends(v) PROVE PageChange(w)
    BY <1>5, <1>a DEF dashboard_ws_ends, PageChange
<1>6. ASSUME NEW v \in Sockets, NEW r \in Replicas, connect(v, r) PROVE PageChange(w)
    BY <1>6, <1>a DEF connect, PageChange
<1>7. CASE publish_event \/ (\E r \in Replicas : redis_lost(r)) \/ UNCHANGED vars
    BY <1>7, <1>b DEF publish_event, redis_lost, vars
<1> QED BY <1>1, <1>2, <1>3, <1>4, <1>5, <1>6, <1>7 DEF Next

(***************************************************************************)
(* A socket that some replica still refers to is not opened again.         *)
(***************************************************************************)
LEMMA StaysGone ==
    ASSUME BusInv, [Next]_vars, NEW w \in Sockets, NEW r \in Replicas,
           to[r] = w \/ w \in Elements(active[r]) \union dead[r] \union before[r],
           peer'[w] = "open"
    PROVE  peer[w] = "open"
BY PagesChange DEF PageChange, connect, Unused

(***************************************************************************)
(* A socket that is gone has got nothing that would count for the next     *)
(* page, and whom a broadcast gave up stays gone.                          *)
(***************************************************************************)
LEMMA NextGone ==
    BusInv /\ [Next]_vars => /\ \A w \in Sockets : peer'[w] = "none" => got'[w] = <<>>
                             /\ \A r \in Replicas : \A w \in dead'[r] : peer'[w] # "open"
<1> SUFFICES ASSUME BusInv, [Next]_vars
             PROVE  /\ \A w \in Sockets : peer'[w] = "none" => got'[w] = <<>>
                    /\ \A r \in Replicas : \A w \in dead'[r] : peer'[w] # "open"
    OBVIOUS
<1>1. ASSUME NEW w \in Sockets, peer'[w] = "none" PROVE got'[w] = <<>>
    BY <1>1, PagesChange DEF PageChange, BusInv, SocketLedger
<1>2. ASSUME NEW r \in Replicas, NEW w \in dead'[r] PROVE peer'[w] # "open"
    <2>1. w \in Sockets
        BY <1>2, NextTypes DEF TypeOK
    <2>2. CASE w \in dead[r]
        BY <2>1, <2>2, StaysGone DEF BusInv, SocketLedger
    <2>3. CASE w \notin dead[r]
        <3>1. broadcast_raises(r)
            <4>1. dead'[r] # dead[r] /\ dead'[r] # {}
                BY <1>2, <2>3
            <4>2. ASSUME NEW q \in Replicas, listener_step(q) \/ redis_lost(q) \/ replica_restarts(q)
                  PROVE  broadcast_raises(r)
                <5>1. q = r
                    BY <4>1, <4>2, OneReplica DEF SameListener
                <5> QED BY <4>1, <4>2, <5>1
                    DEF listener_step, subscribe, listen, broadcast_next, broadcast_sent, broadcast_ends,
                        redis_lost, replica_restarts, Stopped, BusInv, TypeOK
            <4>3. ~(publish_event \/ UNCHANGED vars)
                BY <4>1 DEF publish_event, vars, bus
            <4>4. \A v \in Sockets : ~(closes(v) \/ dashboard_ws_ends(v) \/ \E q \in Replicas : connect(v, q))
                BY <4>1 DEF closes, dashboard_ws_ends, connect, bus
            <4> QED BY <4>2, <4>3, <4>4 DEF Next
        <3>2. dead' = [dead EXCEPT ![r] = dead[r] \union {to[r]}] /\ peer[to[r]] # "open" /\ peer' = peer
            BY <3>1 DEF broadcast_raises, page
        <3> QED BY <1>2, <2>3, <3>2 DEF BusInv, TypeOK
    <2> QED BY <2>2, <2>3
<1> QED BY <1>1, <1>2

(***************************************************************************)
(* The socket that is sent to stays behind the loop's index, and in the    *)
(* list while it is open.                                                  *)
(***************************************************************************)
LEMMA NextSentTo == BusInv /\ [Next]_vars => \A r \in Replicas : SentTo(r)'
<1> SUFFICES ASSUME BusInv, [Next]_vars, NEW r \in Replicas, to'[r] # None PROVE SentTo(r)'
    BY DEF SentTo
<1>a. /\ SentTo(r) /\ OnePlace /\ active[r] \in Seq(Sockets) /\ Len(active[r]) \in Nat
      /\ pos[r] \in Nat /\ to[r] \in Sockets \union {None}
    BY DEF BusInv, TypeOK, SocketLedger
<1>b. ASSUME to'[r] = to[r], pos'[r] = pos[r], active'[r] = active[r] PROVE SentTo(r)'
    <2>1. peer'[to[r]] = "open" => peer[to[r]] = "open"
        BY <1>a, <1>b, StaysGone
    <2> QED BY <1>a, <1>b, <2>1 DEF SentTo, Elements
<1>1. ASSUME NEW q \in Replicas, listener_step(q) \/ redis_lost(q) \/ replica_restarts(q) PROVE SentTo(r)'
    <2>1. CASE q # r
        BY <1>1, <1>b, <2>1, OneReplica DEF SameListener
    <2>2. CASE broadcast_next(r)
        <3>1. /\ to'[r] = active[r][pos[r]] /\ pos'[r] = pos[r] + 1 /\ active'[r] = active[r]
              /\ pos[r] <= Len(active[r]) /\ listener[r] = "sending"
            BY <2>2 DEF broadcast_next, BusInv, TypeOK
        <3>2. pos[r] \in 1 .. Len(active[r])
            BY <1>a, <3>1 DEF BusInv, ListenerLedger, ListenerOK
        <3>3. \A i \in 1 .. Len(active[r]) : active[r][i] = to'[r] => i = pos[r]
            BY <1>a, <3>1, <3>2 DEF OnePlace
        <3>4. to'[r] \in Elements(active[r])
            BY <3>1, <3>2 DEF Elements
        <3> QED BY <1>a, <3>1, <3>2, <3>3, <3>4 DEF SentTo, Elements
    <2>3. CASE subscribe(r) \/ listen(r)
        BY <1>b, <2>3 DEF subscribe, listen, BusInv, TypeOK, ListenerLedger, ListenerOK
    <2>4. ~(broadcast_sent(r) \/ broadcast_raises(r) \/ broadcast_ends(r) \/ replica_restarts(r) \/ redis_lost(r))
        BY DEF broadcast_sent, broadcast_raises, broadcast_ends, replica_restarts, redis_lost, Stopped,
            BusInv, TypeOK
    <2> QED BY <1>1, <2>1, <2>2, <2>3, <2>4 DEF listener_step
<1>2. ASSUME NEW w \in Sockets, NEW q \in Replicas, connect(w, q) PROVE SentTo(r)'
    <2>1. /\ to'[r] = to[r] /\ pos'[r] = pos[r] /\ to[r] # w
          /\ active' = [active EXCEPT ![q] = Append(active[q], w)]
        BY <1>2 DEF connect, Unused, bus
    <2>2. CASE q # r
        BY <1>b, <2>1, <2>2
    <2>3. CASE q = r
        <3>1. /\ Len(active'[r]) = Len(active[r]) + 1 /\ active'[r][Len(active[r]) + 1] = w
              /\ \A i \in 1 .. Len(active[r]) : active'[r][i] = active[r][i]
            BY <1>a, <2>1, <2>3 DEF BusInv, TypeOK
        <3>2. \A i \in 1 .. Len(active'[r]) : active'[r][i] = to[r] => i \in 1 .. Len(active[r])
            BY <1>a, <2>1, <3>1
        <3>3. to[r] \in Elements(active[r]) => to[r] \in Elements(active'[r])
            BY <1>a, <3>1 DEF Elements
        <3>4. peer'[to[r]] = "open" => peer[to[r]] = "open"
            BY <1>a, <2>1, StaysGone
        <3> QED BY <1>a, <2>1, <3>1, <3>2, <3>3, <3>4 DEF SentTo, Elements
    <2> QED BY <2>2, <2>3
<1>3. ASSUME NEW w \in Sockets, dashboard_ws_ends(w) PROVE SentTo(r)'
    <2>1. /\ to'[r] = to[r] /\ pos'[r] = pos[r] /\ peer' = [peer EXCEPT ![w] = "none"]
          /\ to[r] \in Sockets
        BY <1>3, <1>a DEF dashboard_ws_ends, bus
    <2>2. CASE active'[r] = active[r]
        BY <1>b, <2>1, <2>2
    <2>3. ASSUME NEW k \in 1 .. Len(active[r]), active[r][k] = w, Len(active'[r]) = Len(active[r]) - 1,
                 \A j \in 1 .. Len(active[r]) - 1 :
                     active'[r][j] = IF j < k THEN active[r][j] ELSE active[r][j + 1]
          PROVE  SentTo(r)'
        <3>1. \A i \in 1 .. Len(active[r]) : active[r][i] = to[r] => i < pos[r]
            BY <1>a, <2>1 DEF SentTo
        <3>2. \A j \in 1 .. Len(active'[r]) : active'[r][j] = to[r] => j < pos[r]
            <4> TAKE j \in 1 .. Len(active'[r])
            <4> HAVE active'[r][j] = to[r]
            <4>1. j \in 1 .. Len(active[r]) /\ j + 1 \in 1 .. Len(active[r])
                BY <1>a, <2>3
            <4>2. CASE j < k
                BY <1>a, <2>3, <3>1, <4>1, <4>2
            <4>3. CASE ~(j < k)
                <5>1. active[r][j + 1] = to[r]
                    BY <1>a, <2>3, <4>1, <4>3
                <5>2. j + 1 < pos[r]
                    BY <3>1, <4>1, <5>1
                <5> QED BY <1>a, <5>2
            <4> QED BY <4>2, <4>3
        <3>3. ASSUME peer'[to[r]] = "open" PROVE to[r] \in Elements(active'[r])
            <4>1. to[r] # w /\ peer[to[r]] = "open"
                BY <2>1, <3>3 DEF BusInv, TypeOK
            <4>2. PICK m \in 1 .. Len(active[r]) : active[r][m] = to[r]
                BY <1>a, <1>3, <2>1, <4>1 DEF SentTo, Elements
            <4>3. m # k
                BY <2>3, <4>1, <4>2
            <4>4. CASE m < k
                <5>1. m \in 1 .. Len(active[r]) - 1 /\ active'[r][m] = to[r]
                    BY <1>a, <2>3, <4>2, <4>4
                <5> QED BY <2>3, <5>1 DEF Elements
            <4>5. CASE m > k
                <5>1. m - 1 \in 1 .. Len(active[r]) - 1 /\ ~(m - 1 < k) /\ (m - 1) + 1 = m
                    BY <1>a, <4>2, <4>5
                <5>2. active'[r][m - 1] = to[r]
                    BY <2>3, <4>2, <5>1
                <5> QED BY <2>3, <5>1, <5>2 DEF Elements
            <4> QED BY <4>3, <4>4, <4>5
        <3> QED BY <2>1, <3>2, <3>3 DEF SentTo
    <2> QED BY <1>3, <2>2, <2>3, HandlerEnds
<1>4. CASE publish_event \/ (\E w \in Sockets : closes(w)) \/ UNCHANGED vars
    BY <1>4, <1>b DEF publish_event, closes, vars, bus
<1> QED BY <1>1, <1>2, <1>3, <1>4 DEF Next

-----------------------------------------------------------------------------
(* Part 7.  The order of the events. *)

(***************************************************************************)
(* The sockets of a replica, and the open one it sends to, get events from *)
(* that replica only.                                                      *)
(***************************************************************************)
LEMMA OnlyOwnSends ==
    ASSUME BusInv, [Next]_vars, NEW w \in Sockets, NEW r \in Replicas, ~broadcast_sent(r),
           w \in Elements(active[r]) \/ (w = to[r] /\ peer[w] = "open")
    PROVE  got'[w] = got[w] \/ got'[w] = <<>>
<1> SUFFICES ASSUME NEW q \in Replicas, broadcast_sent(q), to[q] = w, peer[w] = "open" PROVE FALSE
    BY PagesChange DEF PageChange
<1>1. q # r
    OBVIOUS
<1>2. SentTo(q) /\ SentTo(r) /\ OnePlace
    BY DEF BusInv, SocketLedger
<1>3. w # None
    BY BusAssumption
<1>4. w \in Elements(active[q])
    BY <1>2, <1>3 DEF SentTo
<1>5. w \in Elements(active[r])
    BY <1>2, <1>3 DEF SentTo
<1> QED BY <1>1, <1>2, <1>4, <1>5 DEF OnePlace, Elements

(***************************************************************************)
(* While its head and its loop stay, a listener whose list changes keeps   *)
(* the order, if the elements only move up and new ones have got nothing.  *)
(***************************************************************************)
LEMMA OrderKept ==
    ASSUME BusInv, [Next]_vars, NEW r \in Replicas, ~broadcast_sent(r),
           inbox'[r] # <<>> => inbox[r] # <<>> /\ Event(r)' = Event(r),
           listener'[r] = listener[r], pos'[r] = pos[r], to'[r] = to[r],
           \A j \in 1 .. Len(active'[r]) :
              \/ \E i \in 1 .. Len(active[r]) : i >= j /\ active'[r][j] = active[r][i]
              \/ got'[active'[r][j]] = <<>>
    PROVE  OrderOK(r)'
<1> SUFFICES ASSUME inbox'[r] # <<>>
             PROVE  /\ \A i \in 1 .. Len(active'[r]) :
                          /\ UpTo(got'[active'[r][i]], Event(r))
                          /\ listener[r] # "sending" \/ i >= pos[r] => Earlier(got'[active'[r][i]], Event(r))
                    /\ to[r] # None /\ peer'[to[r]] = "open" => Earlier(got'[to[r]], Event(r))
    BY DEF OrderOK
<1>1. /\ inbox[r] # <<>> /\ OrderOK(r) /\ active[r] \in Seq(Sockets) /\ active'[r] \in Seq(Sockets)
      /\ pos[r] \in Nat /\ to[r] \in Sockets \union {None}
    BY NextTypes DEF BusInv, OrderLedger, TypeOK
<1>2. UpTo(<<>>, Event(r)) /\ Earlier(<<>>, Event(r))
    BY EmptySeq DEF UpTo, Earlier
<1>3. ASSUME NEW j \in 1 .. Len(active'[r])
      PROVE  /\ UpTo(got'[active'[r][j]], Event(r))
             /\ listener[r] # "sending" \/ j >= pos[r] => Earlier(got'[active'[r][j]], Event(r))
    <2>1. CASE got'[active'[r][j]] = <<>>
        BY <1>2, <2>1
    <2>2. ASSUME NEW i \in 1 .. Len(active[r]), i >= j, active'[r][j] = active[r][i]
          PROVE  /\ UpTo(got'[active'[r][j]], Event(r))
                 /\ listener[r] # "sending" \/ j >= pos[r] => Earlier(got'[active'[r][j]], Event(r))
        <3>1. active[r][i] \in Sockets /\ active[r][i] \in Elements(active[r])
            BY <1>1, ElementOfSeq DEF Elements
        <3>2. got'[active[r][i]] = got[active[r][i]] \/ got'[active[r][i]] = <<>>
            BY <3>1, OnlyOwnSends
        <3>3. j >= pos[r] => i >= pos[r]
            BY <1>1, <2>2
        <3> QED BY <1>1, <1>2, <2>2, <3>2, <3>3 DEF OrderOK
    <2> QED BY <2>1, <2>2
<1>4. ASSUME to[r] # None, peer'[to[r]] = "open" PROVE Earlier(got'[to[r]], Event(r))
    <2>1. peer[to[r]] = "open" /\ to[r] \in Sockets
        BY <1>1, <1>4, StaysGone
    <2>2. got'[to[r]] = got[to[r]] \/ got'[to[r]] = <<>>
        BY <2>1, OnlyOwnSends
    <2> QED BY <1>1, <1>2, <1>4, <2>1, <2>2 DEF OrderOK
<1> QED BY <1>3, <1>4

(***************************************************************************)
(* A send that returns puts the event in hand behind earlier ones.         *)
(***************************************************************************)
LEMMA SentInOrder ==
    ASSUME BusInv, [Next]_vars, NEW r \in Replicas, broadcast_sent(r), peer[to[r]] = "open"
    PROVE  /\ UpTo(got'[to[r]], Event(r))
           /\ \A i, j \in 1 .. Len(got'[to[r]]) : i < j => got'[to[r]][i] < got'[to[r]][j]
           /\ \A w \in Sockets \ {to[r]} : got'[w] = got[w]
<1>1. /\ to[r] \in Sockets /\ inbox[r] # <<>> /\ to[r] # None
      /\ got[to[r]] \in Seq(1 .. MaxEvents) /\ Event(r) \in 1 .. MaxEvents
    BY SendIsBroadcast, HeadIsEvent DEF broadcast_sent, BusInv, TypeOK
<1>2. got'[to[r]] = Append(got[to[r]], Event(r)) /\ \A w \in Sockets \ {to[r]} : got'[w] = got[w]
    BY <1>1 DEF broadcast_sent, BusInv, TypeOK
<1>3. Earlier(got[to[r]], Event(r))
    BY <1>1 DEF BusInv, OrderLedger, OrderOK
<1>4. /\ Len(got[to[r]]) \in Nat /\ Len(got'[to[r]]) = Len(got[to[r]]) + 1
      /\ got'[to[r]][Len(got[to[r]]) + 1] = Event(r)
      /\ \A i \in 1 .. Len(got[to[r]]) : got'[to[r]][i] = got[to[r]][i]
    BY <1>1, <1>2
<1>5. \A i \in 1 .. Len(got'[to[r]]) : i \in 1 .. Len(got[to[r]]) \/ i = Len(got[to[r]]) + 1
    BY <1>4
<1>6. \A i \in 1 .. Len(got[to[r]]) : got[to[r]][i] \in Int /\ got[to[r]][i] < Event(r)
    <2>1. \A i \in 1 .. Len(got[to[r]]) : got[to[r]][i] \in 1 .. MaxEvents
        BY <1>1, ElementOfSeq
    <2> QED BY <1>3, <2>1, BusAssumption DEF Earlier
<1>7. Event(r) \in Int
    BY <1>1, BusAssumption
<1>8. UpTo(got'[to[r]], Event(r))
    BY <1>4, <1>5, <1>6, <1>7 DEF UpTo
<1>9. \A i, j \in 1 .. Len(got'[to[r]]) : i < j => got'[to[r]][i] < got'[to[r]][j]
    <2> TAKE i, j \in 1 .. Len(got'[to[r]])
    <2> HAVE i < j
    <2>1. i \in 1 .. Len(got[to[r]])
        BY <1>4, <1>5
    <2>2. CASE j \in 1 .. Len(got[to[r]])
        BY <1>1, <1>4, <2>1, <2>2 DEF BusInv, InOrderOnce
    <2>3. CASE j = Len(got[to[r]]) + 1
        BY <1>4, <1>6, <2>1, <2>3
    <2> QED BY <1>5, <2>2, <2>3
<1> QED BY <1>2, <1>8, <1>9

(***************************************************************************)
(* What a socket got has been published, in the order of publication.      *)
(***************************************************************************)
LEMMA NextInOrder ==
    BusInv /\ [Next]_vars => InOrderOnce' /\ \A w \in Sockets : UpTo(got'[w], published')
<1> SUFFICES ASSUME BusInv, [Next]_vars, NEW w \in Sockets
             PROVE  /\ UpTo(got'[w], published')
                    /\ \A i, j \in 1 .. Len(got'[w]) : i < j => got'[w][i] < got'[w][j]
    BY DEF InOrderOnce
<1>1. /\ published \in Nat /\ published' \in Nat /\ got[w] \in Seq(1 .. MaxEvents)
      /\ UpTo(got[w], published)
      /\ \A i, j \in 1 .. Len(got[w]) : i < j => got[w][i] < got[w][j]
    BY NextTypes DEF BusInv, TypeOK, OrderLedger, InOrderOnce
<1>2. published' >= published
    <2>1. published' = published \/ published' = published + 1
        BY OneReplica DEF Next, publish_event, closes, dashboard_ws_ends, connect, vars
    <2> QED BY <1>1, <2>1
<1>3. \A i \in 1 .. Len(got[w]) : got[w][i] \in Int
    <2>1. \A i \in 1 .. Len(got[w]) : got[w][i] \in 1 .. MaxEvents
        BY <1>1, ElementOfSeq
    <2> QED BY <2>1, BusAssumption
<1>4. UpTo(got[w], published')
    BY <1>1, <1>2, <1>3 DEF UpTo
<1>5. CASE got'[w] = got[w]
    BY <1>1, <1>4, <1>5
<1>6. CASE got'[w] = <<>>
    BY <1>6, EmptySeq DEF UpTo
<1>7. ASSUME NEW r \in Replicas, broadcast_sent(r), to[r] = w, peer[w] = "open"
      PROVE  /\ UpTo(got'[w], published')
             /\ \A i, j \in 1 .. Len(got'[w]) : i < j => got'[w][i] < got'[w][j]
    <2>1. /\ UpTo(got'[w], Event(r))
          /\ \A i, j \in 1 .. Len(got'[w]) : i < j => got'[w][i] < got'[w][j]
        BY <1>7, SentInOrder
    <2>2. Event(r) \in 1 .. MaxEvents /\ Event(r) <= published
        BY <1>7, SendIsBroadcast, HeadIsEvent DEF broadcast_sent
    <2>3. \A i \in 1 .. Len(got'[w]) : got'[w][i] \in 1 .. MaxEvents
        BY NextTypes, ElementOfSeq DEF TypeOK
    <2>4. \A i \in 1 .. Len(got'[w]) : got'[w][i] <= published'
        BY <1>1, <1>2, <2>1, <2>2, <2>3, BusAssumption DEF UpTo
    <2> QED BY <2>1, <2>4 DEF UpTo
<1> QED BY <1>5, <1>6, <1>7, PagesChange DEF PageChange

(***************************************************************************)
(* What a listener and the faults of its own replica do keeps the order.   *)
(***************************************************************************)
LEMMA OwnOrder ==
    ASSUME BusInv, [Next]_vars, NEW r \in Replicas, listener_step(r) \/ redis_lost(r) \/ replica_restarts(r)
    PROVE  OrderOK(r)'
<1>a. /\ OrderOK(r) /\ ListenerOK(r) /\ SentTo(r) /\ active[r] \in Seq(Sockets) /\ Len(active[r]) \in Nat
      /\ pos[r] \in Nat /\ to[r] \in Sockets \union {None}
    BY DEF BusInv, TypeOK, OrderLedger, ListenerLedger, SocketLedger
<1>1. CASE subscribe(r) \/ redis_lost(r) \/ replica_restarts(r)
    <2>1. inbox'[r] = <<>>
        BY <1>1, <1>a DEF subscribe, redis_lost, replica_restarts, Stopped, ListenerOK, BusInv, TypeOK
    <2> QED BY <2>1 DEF OrderOK
<1>2. CASE listen(r)
    <2>1. /\ listener[r] = "listening" /\ to[r] = None
          /\ to' = to /\ active' = active /\ inbox' = inbox /\ got' = got
        BY <1>2, <1>a DEF listen, page, ListenerOK
    <2> QED BY <1>a, <2>1 DEF OrderOK, Event
<1>3. CASE broadcast_next(r)
    <2>1. /\ to'[r] = active[r][pos[r]] /\ pos'[r] = pos[r] + 1 /\ pos[r] <= Len(active[r])
          /\ listener[r] = "sending" /\ listener' = listener
          /\ active' = active /\ inbox' = inbox /\ got' = got /\ peer' = peer
        BY <1>3 DEF broadcast_next, page, BusInv, TypeOK
    <2>2. pos[r] \in 1 .. Len(active[r]) /\ inbox[r] # <<>>
        BY <1>a, <2>1 DEF ListenerOK
    <2>3. Earlier(got[to'[r]], Event(r))
        BY <1>a, <2>1, <2>2 DEF OrderOK
    <2>4. \A i \in 1 .. Len(active[r]) : i >= pos[r] + 1 => i >= pos[r]
        BY <1>a
    <2> QED BY <1>a, <2>1, <2>2, <2>3, <2>4 DEF OrderOK, Event
<1>4. CASE broadcast_sent(r)
    <2>1. /\ to'[r] = None /\ pos' = pos /\ listener' = listener
          /\ active' = active /\ inbox' = inbox /\ peer' = peer
          /\ to[r] # None /\ to[r] \in Sockets /\ inbox[r] # <<>> /\ listener[r] = "sending"
        BY <1>4, SendIsBroadcast DEF broadcast_sent, BusInv, TypeOK
    <2>2. CASE got' = got
        BY <1>a, <2>1, <2>2 DEF OrderOK, Event
    <2>3. CASE peer[to[r]] = "open"
        <3>1. UpTo(got'[to[r]], Event(r)) /\ \A w \in Sockets \ {to[r]} : got'[w] = got[w]
            BY <1>4, <2>3, SentInOrder
        <3>2. ASSUME NEW i \in 1 .. Len(active[r])
              PROVE  /\ UpTo(got'[active[r][i]], Event(r))
                     /\ i >= pos[r] => Earlier(got'[active[r][i]], Event(r))
            <4>1. CASE active[r][i] = to[r]
                <5>1. ~(i >= pos[r])
                    BY <1>a, <2>1, <4>1 DEF SentTo
                <5> QED BY <3>1, <4>1, <5>1
            <4>2. CASE active[r][i] # to[r]
                <5>1. active[r][i] \in Sockets
                    BY <1>a, ElementOfSeq
                <5> QED BY <1>a, <2>1, <3>1, <4>2, <5>1 DEF OrderOK
            <4> QED BY <4>1, <4>2
        <3> QED BY <2>1, <3>2 DEF OrderOK, Event
    <2> QED BY <1>4, <2>2, <2>3 DEF broadcast_sent
<1>5. CASE broadcast_raises(r)
    <2>1. /\ to'[r] = None /\ pos' = pos /\ listener' = listener
          /\ active' = active /\ inbox' = inbox /\ peer' = peer /\ got' = got
        BY <1>5 DEF broadcast_raises, page, BusInv, TypeOK
    <2> QED BY <1>a, <2>1 DEF OrderOK, Event
<1>6. CASE broadcast_ends(r)
    <2>1. /\ listener[r] = "sending" /\ to'[r] = None /\ listener'[r] = "listening" /\ got' = got
          /\ inbox'[r] = Tail(inbox[r]) /\ published' = published
        BY <1>6 DEF broadcast_ends, page, BusInv, TypeOK
    <2>2. inbox[r] # <<>> /\ Event(r) \in 1 .. MaxEvents
        BY <1>a, <2>1, HeadIsEvent DEF ListenerOK
    <2>3. SUFFICES ASSUME inbox'[r] # <<>>, NEW j \in 1 .. Len(active'[r])
                   PROVE  /\ UpTo(got[active'[r][j]], Event(r)')
                          /\ Earlier(got[active'[r][j]], Event(r)')
        BY <2>1 DEF OrderOK
    <2>4. Event(r)' \in Int /\ Event(r)' > Event(r)
        <3>1. inbox'[r][1] > Event(r) /\ inbox'[r] \in Seq(1 .. MaxEvents)
            BY <2>1, <2>2, <2>3, TailInOrder, NextTypes DEF TypeOK
        <3>2. Event(r)' = inbox'[r][1]
            BY <3>1, <2>3 DEF Event
        <3>3. 1 \in 1 .. Len(inbox'[r])
            BY <3>1, <2>3, EmptySeq
        <3>4. inbox'[r][1] \in 1 .. MaxEvents
            BY <3>1, <3>3, ElementOfSeq
        <3> QED BY <3>1, <3>2, <3>4, BusAssumption
    <2>5. PICK i \in 1 .. Len(active[r]) : active'[r][j] = active[r][i]
        <3>1. \A w \in Sockets, q \in Replicas : ~connect(w, q)
            BY <2>1 DEF connect, bus
        <3> QED BY <3>1, ListsAreThinned DEF Thinned
    <2>6. UpTo(got[active[r][i]], Event(r)) /\ active[r][i] \in Sockets
        BY <1>a, <2>2, ElementOfSeq DEF OrderOK
    <2>7. \A k \in 1 .. Len(got[active[r][i]]) : got[active[r][i]][k] \in 1 .. MaxEvents
        BY <2>6, ElementOfSeq DEF BusInv, TypeOK
    <2>8. \A k \in 1 .. Len(got[active[r][i]]) : got[active[r][i]][k] < Event(r)' /\ got[active[r][i]][k] <= Event(r)'
        BY <2>2, <2>4, <2>6, <2>7, BusAssumption DEF UpTo
    <2> QED BY <2>5, <2>8 DEF UpTo, Earlier
<1> QED BY <1>1, <1>2, <1>3, <1>4, <1>5, <1>6 DEF listener_step

(***************************************************************************)
(* Every step keeps the order, although lists change under the loops.      *)
(***************************************************************************)
LEMMA NextOrder == BusInv /\ [Next]_vars => \A r \in Replicas : OrderOK(r)'
<1> SUFFICES ASSUME BusInv, [Next]_vars, NEW r \in Replicas PROVE OrderOK(r)'
    OBVIOUS
<1>a. active[r] \in Seq(Sockets) /\ Len(active[r]) \in Nat /\ pos[r] \in Nat
    BY DEF BusInv, TypeOK
<1>b. ASSUME ~broadcast_sent(r), SameListener(r), active'[r] = active[r] PROVE OrderOK(r)'
    <2>1. \A j \in 1 .. Len(active'[r]) :
              \E i \in 1 .. Len(active[r]) : i >= j /\ active'[r][j] = active[r][i]
        BY <1>a, <1>b
    <2> QED BY <1>b, <2>1, OrderKept DEF SameListener, Event
<1>1. CASE publish_event
    <2>1. /\ listener' = listener /\ pos' = pos /\ to' = to /\ active' = active /\ got' = got /\ peer' = peer
        BY <1>1 DEF publish_event, page
    <2>2. CASE inbox[r] # <<>>
        <3>1. inbox'[r] # <<>> /\ Event(r)' = Event(r)
            BY <1>1, <2>2, PublishInOrder
        <3> QED BY <2>1, <2>2, <3>1 DEF OrderOK, BusInv, OrderLedger
    <2>3. CASE inbox[r] = <<>> /\ inbox'[r] # <<>>
        <3>1. Event(r)' = published + 1 /\ listener[r] # "sending" /\ to[r] = None
            BY <1>1, <2>3, PublishInOrder DEF BusInv, ListenerLedger, ListenerOK
        <3>2. ASSUME NEW w \in Sockets
              PROVE  UpTo(got[w], published + 1) /\ Earlier(got[w], published + 1)
            <4>1. UpTo(got[w], published) /\ published \in Nat /\ got[w] \in Seq(1 .. MaxEvents)
                BY DEF BusInv, OrderLedger, TypeOK
            <4>2. \A k \in 1 .. Len(got[w]) : got[w][k] \in 1 .. MaxEvents
                BY <4>1, ElementOfSeq
            <4> QED BY <4>1, <4>2, BusAssumption DEF UpTo, Earlier
        <3>3. \A i \in 1 .. Len(active[r]) : active[r][i] \in Sockets
            BY <1>a, ElementOfSeq
        <3> QED BY <2>1, <3>1, <3>2, <3>3 DEF OrderOK
    <2> QED BY <2>2, <2>3 DEF OrderOK
<1>2. ASSUME NEW q \in Replicas, listener_step(q) \/ redis_lost(q) \/ replica_restarts(q) PROVE OrderOK(r)'
    <2>1. CASE q = r
        BY <1>2, <2>1, OwnOrder
    <2>2. CASE q # r
        <3>1. SameListener(r) /\ active'[r] = active[r]
            BY <1>2, <2>2, OneReplica
        <3>2. CASE broadcast_sent(r)
            BY <3>2, OwnOrder DEF listener_step
        <3>3. CASE ~broadcast_sent(r)
            BY <1>b, <3>1, <3>3
        <3> QED BY <3>2, <3>3
    <2> QED BY <2>1, <2>2
<1>3. ASSUME NEW w \in Sockets, NEW q \in Replicas, connect(w, q) PROVE OrderOK(r)'
    <2>1. /\ SameListener(r) /\ inbox' = inbox /\ ~broadcast_sent(r)
          /\ active' = [active EXCEPT ![q] = Append(active[q], w)] /\ got'[w] = <<>>
        BY <1>3 DEF connect, Unused, bus, SameListener, broadcast_sent, BusInv, SocketLedger, TypeOK
    <2>2. CASE q # r
        BY <1>b, <2>1, <2>2
    <2>3. CASE q = r
        <3>1. /\ Len(active'[r]) = Len(active[r]) + 1 /\ active'[r][Len(active[r]) + 1] = w
              /\ \A i \in 1 .. Len(active[r]) : active'[r][i] = active[r][i]
            BY <1>a, <2>1, <2>3 DEF BusInv, TypeOK
        <3>2. \A j \in 1 .. Len(active'[r]) :
                  \/ \E i \in 1 .. Len(active[r]) : i >= j /\ active'[r][j] = active[r][i]
                  \/ got'[active'[r][j]] = <<>>
            BY <1>a, <2>1, <3>1
        <3> QED BY <2>1, <3>2, OrderKept DEF SameListener, Event
    <2> QED BY <2>2, <2>3
<1>4. ASSUME NEW w \in Sockets, dashboard_ws_ends(w) PROVE OrderOK(r)'
    <2>1. SameListener(r) /\ ~broadcast_sent(r)
        BY <1>4 DEF dashboard_ws_ends, bus, SameListener, broadcast_sent, BusInv, TypeOK
    <2>2. CASE active'[r] = active[r]
        BY <1>b, <2>1, <2>2
    <2>3. ASSUME NEW k \in 1 .. Len(active[r]), Len(active'[r]) = Len(active[r]) - 1,
                 \A j \in 1 .. Len(active[r]) - 1 :
                     active'[r][j] = IF j < k THEN active[r][j] ELSE active[r][j + 1]
          PROVE  OrderOK(r)'
        <3>1. \A j \in 1 .. Len(active'[r]) :
                  \E i \in 1 .. Len(active[r]) : i >= j /\ active'[r][j] = active[r][i]
            <4> TAKE j \in 1 .. Len(active'[r])
            <4>1. j \in 1 .. Len(active[r]) /\ j + 1 \in 1 .. Len(active[r]) /\ j >= j /\ j + 1 >= j
                BY <1>a, <2>3
            <4>2. active'[r][j] = active[r][j] \/ active'[r][j] = active[r][j + 1]
                BY <2>3
            <4> QED BY <4>1, <4>2
        <3> QED BY <2>1, <3>1, OrderKept DEF SameListener, Event
    <2> QED BY <1>4, <2>2, <2>3, HandlerEnds
<1>5. CASE (\E w \in Sockets : closes(w)) \/ UNCHANGED vars
    <2>1. SameListener(r) /\ active'[r] = active[r] /\ to' = to
        BY <1>5 DEF closes, vars, bus, SameListener
    <2>2. ~broadcast_sent(r)
        BY <2>1 DEF broadcast_sent, BusInv, TypeOK
    <2> QED BY <1>b, <2>1, <2>2
<1> QED BY <1>1, <1>2, <1>3, <1>4, <1>5 DEF Next

-----------------------------------------------------------------------------
(* Part 8.  Who misses an event. *)

(***************************************************************************)
(* The sets that are compared are sets of sockets, and finite.             *)
(***************************************************************************)
LEMMA SlipSets ==
    ASSUME BusInv, NEW r \in Replicas
    PROVE  /\ IsFiniteSet(Slipped(r)) /\ Cardinality(Slipped(r)) \in Nat
           /\ IsFiniteSet(Leavers(r)) /\ Cardinality(Leavers(r)) \in Nat
<1>1. Slipped(r) \in SUBSET Sockets /\ Leavers(r) \in SUBSET Sockets
    BY DEF BusInv, TypeOK, Slipped, Leavers
<1>2. IsFiniteSet(Slipped(r)) /\ IsFiniteSet(Leavers(r))
    BY <1>1, BusAssumption, FS_Subset
<1> QED BY <1>2, FS_CardinalityType

(***************************************************************************)
(* No more sockets slip, and no leaver comes back.                         *)
(***************************************************************************)
LEMMA FewerSlip ==
    ASSUME NEW A, NEW L, NEW B, NEW M, IsFiniteSet(A), IsFiniteSet(M),
           B \in SUBSET A, L \in SUBSET M, Cardinality(A) <= Cardinality(L)
    PROVE  Cardinality(B) <= Cardinality(M)
<1>1. IsFiniteSet(L) /\ Cardinality(L) <= Cardinality(M)
    BY FS_Subset
<1>2. IsFiniteSet(B) /\ Cardinality(B) <= Cardinality(A)
    BY FS_Subset
<1>3. Cardinality(A) \in Nat /\ Cardinality(B) \in Nat /\ Cardinality(L) \in Nat /\ Cardinality(M) \in Nat
    BY <1>1, <1>2, FS_CardinalityType
<1> QED BY <1>1, <1>2, <1>3

(***************************************************************************)
(* One socket slips when one leaves.                                       *)
(***************************************************************************)
LEMMA OneSlips ==
    ASSUME NEW A, NEW L, NEW B, NEW M, NEW x, NEW y, IsFiniteSet(A), IsFiniteSet(M),
           B \in SUBSET (A \union {x}), L \union {y} \in SUBSET M, y \notin L,
           Cardinality(A) <= Cardinality(L)
    PROVE  Cardinality(B) <= Cardinality(M)
<1>1. /\ IsFiniteSet(A \union {x}) /\ Cardinality(A) \in Nat
      /\ Cardinality(A \union {x}) \in Nat /\ Cardinality(A \union {x}) <= Cardinality(A) + 1
    <2>1. IsFiniteSet(A \union {x}) /\ Cardinality(A) \in Nat
        BY FS_AddElement, FS_CardinalityType
    <2>2. Cardinality(A \union {x}) = Cardinality(A) \/ Cardinality(A \union {x}) = Cardinality(A) + 1
        BY FS_AddElement
    <2> QED BY <2>1, <2>2
<1>2. IsFiniteSet(L)
    BY FS_Subset
<1>3. /\ IsFiniteSet(L \union {y}) /\ Cardinality(L) \in Nat
      /\ Cardinality(L \union {y}) = Cardinality(L) + 1
    BY <1>2, FS_AddElement, FS_CardinalityType
<1>4. Cardinality(A \union {x}) <= Cardinality(L \union {y})
    BY <1>1, <1>3
<1> QED BY <1>1, <1>4, FewerSlip

(***************************************************************************)
(* A socket that stays open keeps what it got.                             *)
(***************************************************************************)
LEMMA GotGrows ==
    ASSUME BusInv, [Next]_vars, NEW w \in Sockets, peer'[w] = "open"
    PROVE  Elements(got[w]) \subseteq Elements(got'[w])
<1>1. CASE got'[w] = got[w]
    BY <1>1
<1>2. ASSUME NEW r \in Replicas, broadcast_sent(r), to[r] = w, got'[w] = Append(got[w], Event(r))
      PROVE  Elements(got[w]) \subseteq Elements(got'[w])
    <2>1. got[w] \in Seq(1 .. MaxEvents) /\ Event(r) \in 1 .. MaxEvents
        BY <1>2, SendIsBroadcast, HeadIsEvent DEF broadcast_sent, BusInv, TypeOK
    <2>2. /\ Len(got[w]) \in Nat /\ Len(got'[w]) = Len(got[w]) + 1
          /\ \A i \in 1 .. Len(got[w]) : got'[w][i] = got[w][i]
        BY <1>2, <2>1
    <2>3. \A i \in 1 .. Len(got[w]) : i \in 1 .. Len(got'[w])
        BY <2>2
    <2> QED BY <2>2, <2>3 DEF Elements
<1> QED BY <1>1, <1>2, PagesChange DEF PageChange

(***************************************************************************)
(* During a broadcast of r: a step after which every passed socket of the  *)
(* broadcast had been passed before, and that takes none into the list.    *)
(***************************************************************************)
LEMMA SlipKept ==
    ASSUME BusInv, [Next]_vars, NEW r \in Replicas, listener[r] = "sending",
           before'[r] = before[r], Event(r)' = Event(r),
           \A i, j \in 1 .. Len(active'[r]) : i < j /\ active'[r][j] \in before[r] => active'[r][i] \in before[r],
           \A w \in before[r] : w \in Elements(active'[r]) => w \in Elements(active[r]),
           \A w \in before[r] :
              to'[r] # w /\ peer'[w] = "open" /\ Event(r) \notin Elements(got'[w])
                  /\ (\E i \in 1 .. Len(active'[r]) : i < pos'[r] /\ active'[r][i] = w)
              => to[r] # w /\ (\E i \in 1 .. Len(active[r]) : i < pos[r] /\ active[r][i] = w)
    PROVE  SlipOK(r)'
<1>1. Leavers(r) \in SUBSET Leavers(r)'
    BY DEF Leavers
<1>2. Slipped(r)' \in SUBSET Slipped(r)
    <2> SUFFICES ASSUME NEW w \in Slipped(r)' PROVE w \in Slipped(r)
        OBVIOUS
    <2>1. /\ w \in before[r] /\ to'[r] # w /\ peer'[w] = "open" /\ Event(r) \notin Elements(got'[w])
          /\ \E i \in 1 .. Len(active'[r]) : i < pos'[r] /\ active'[r][i] = w
        BY DEF Slipped
    <2>2. w \in Sockets
        BY <2>1 DEF BusInv, TypeOK
    <2>3. peer[w] = "open"
        BY <2>1, <2>2, StaysGone
    <2>4. Event(r) \notin Elements(got[w])
        BY <2>1, <2>2, GotGrows
    <2> QED BY <2>1, <2>3, <2>4 DEF Slipped
<1>3. IsFiniteSet(Slipped(r)) /\ Cardinality(Slipped(r)) <= Cardinality(Leavers(r))
    BY SlipSets DEF BusInv, SlipLedger, SlipOK
<1>4. IsFiniteSet(Leavers(r)')
    <2>1. Leavers(r)' \in SUBSET Sockets
        BY DEF Leavers, BusInv, TypeOK
    <2> QED BY <2>1, BusAssumption, FS_Subset
<1>5. Cardinality(Slipped(r)') <= Cardinality(Leavers(r)')
    BY <1>1, <1>2, <1>3, <1>4, FewerSlip
<1>6. Cardinality(Slipped(r))' <= Cardinality(Leavers(r))'
    BY <1>5
<1> QED BY <1>6 DEF SlipOK

(***************************************************************************)
(* A handler that ends during a broadcast of r takes one socket out of the *)
(* list.  If that one had been passed, the socket the loop would have      *)
(* visited next slips; it is a socket of the broadcast only if the one     *)
(* that left was.                                                          *)
(***************************************************************************)
LEMMA HandlerSlips ==
    ASSUME BusInv, [Next]_vars, NEW w \in Sockets, dashboard_ws_ends(w),
           NEW r \in Replicas, listener[r] = "sending",
           NEW k \in 1 .. Len(active[r]), active[r][k] = w, Len(active'[r]) = Len(active[r]) - 1,
           \A j \in 1 .. Len(active[r]) - 1 :
               active'[r][j] = IF j < k THEN active[r][j] ELSE active[r][j + 1]
    PROVE  SlipOK(r)'
<1>a. /\ SlipOK(r) /\ OnePlace /\ active[r] \in Seq(Sockets) /\ Len(active[r]) \in Nat /\ pos[r] \in Nat
      /\ before[r] \in SUBSET Sockets
    BY DEF BusInv, TypeOK, SlipLedger, SocketLedger
<1>b. /\ listener' = listener /\ inbox' = inbox /\ pos' = pos /\ to' = to /\ before' = before
    BY DEF dashboard_ws_ends, bus
<1>1. \A j \in 1 .. Len(active'[r]) :
          /\ j \in 1 .. Len(active[r]) /\ j + 1 \in 1 .. Len(active[r])
          /\ j < k => active'[r][j] = active[r][j]
          /\ ~(j < k) => active'[r][j] = active[r][j + 1]
    <2> TAKE j \in 1 .. Len(active'[r])
    <2>1. 1 .. Len(active'[r]) = 1 .. Len(active[r]) - 1
        OBVIOUS
    <2>2. j \in 1 .. Len(active[r]) - 1
        BY <2>1
    <2>3. active'[r][j] = IF j < k THEN active[r][j] ELSE active[r][j + 1]
        BY <2>2
    <2>4. j \in 1 .. Len(active[r]) /\ j + 1 \in 1 .. Len(active[r])
        BY <1>a, <2>2
    <2>5. j < k => active'[r][j] = active[r][j]
        BY <2>3
    <2>6. ~(j < k) => active'[r][j] = active[r][j + 1]
        BY <2>3
    <2> QED BY <2>4, <2>5, <2>6
<1>2. \A i, j \in 1 .. Len(active'[r]) : i < j /\ active'[r][j] \in before[r] => active'[r][i] \in before[r]
    <2> TAKE i, j \in 1 .. Len(active'[r])
    <2> HAVE i < j /\ active'[r][j] \in before[r]
    <2>1. PICK m \in 1 .. Len(active[r]) : active'[r][i] = active[r][m] /\ (m = i \/ m = i + 1) /\ (m = i <=> i < k)
        <3>1. i \in 1 .. Len(active[r]) /\ i + 1 \in 1 .. Len(active[r]) /\ i # i + 1
            BY <1>1
        <3>2. i < k => active'[r][i] = active[r][i]
            BY <1>1
        <3>3. ~(i < k) => active'[r][i] = active[r][i + 1]
            BY <1>1
        <3> QED BY <3>1, <3>2, <3>3
    <2>2. PICK n \in 1 .. Len(active[r]) : active'[r][j] = active[r][n] /\ (n = j \/ n = j + 1) /\ (n = j <=> j < k)
        <3>1. j \in 1 .. Len(active[r]) /\ j + 1 \in 1 .. Len(active[r]) /\ j # j + 1
            BY <1>1
        <3>2. j < k => active'[r][j] = active[r][j]
            BY <1>1
        <3>3. ~(j < k) => active'[r][j] = active[r][j + 1]
            BY <1>1
        <3> QED BY <3>1, <3>2, <3>3
    <2>3. m < n
        BY <2>1, <2>2
    <2> QED BY <1>a, <2>1, <2>2, <2>3 DEF SlipOK
<1>3. Elements(active'[r]) \in SUBSET Elements(active[r]) /\ w \notin Elements(active'[r])
    <2>1. ASSUME NEW j \in 1 .. Len(active'[r]) PROVE active'[r][j] \in Elements(active[r]) /\ active'[r][j] # w
        <3>1. CASE j < k
            <4>1. active'[r][j] = active[r][j] /\ j \in 1 .. Len(active[r]) /\ j # k
                BY <1>1, <3>1
            <4> QED BY <1>a, <4>1 DEF OnePlace, Elements
        <3>2. CASE ~(j < k)
            <4>1. active'[r][j] = active[r][j + 1] /\ j + 1 \in 1 .. Len(active[r]) /\ j + 1 # k
                BY <1>1, <3>2
            <4> QED BY <1>a, <4>1 DEF OnePlace, Elements
        <3> QED BY <3>1, <3>2
    <2> QED BY <2>1 DEF Elements
<1>4. ASSUME NEW v \in before[r], NEW j \in 1 .. Len(active'[r]), j < pos[r], active'[r][j] = v
      PROVE  \/ \E i \in 1 .. Len(active[r]) : i < pos[r] /\ active[r][i] = v
             \/ k < pos[r] /\ pos[r] \in 1 .. Len(active[r]) /\ active[r][pos[r]] = v
    <2>1. CASE j < k
        BY <1>1, <1>4, <2>1
    <2>2. CASE ~(j < k) /\ j + 1 < pos[r]
        BY <1>1, <1>4, <2>2
    <2>3. CASE ~(j < k) /\ j + 1 = pos[r]
        BY <1>1, <1>4, <2>3
    <2> QED BY <1>a, <1>4, <2>1, <2>2, <2>3
<1>5. CASE w \notin before[r]
    <2>1. \A v \in before[r] :
              (\E j \in 1 .. Len(active'[r]) : j < pos[r] /\ active'[r][j] = v)
              => \E i \in 1 .. Len(active[r]) : i < pos[r] /\ active[r][i] = v
        <3>1. ~(k < pos[r] /\ pos[r] \in 1 .. Len(active[r]) /\ active[r][pos[r]] \in before[r])
            BY <1>a, <1>5 DEF SlipOK
        <3> QED BY <1>4, <3>1
    <2>2. Event(r)' = Event(r) /\ pos'[r] = pos[r] /\ to'[r] = to[r] /\ before'[r] = before[r]
        BY <1>b DEF Event
    <2>3. \A v \in before[r] : v \in Elements(active'[r]) => v \in Elements(active[r])
        BY <1>3
    <2> QED BY <1>2, <2>1, <2>2, <2>3, SlipKept
<1>6. CASE w \in before[r]
    <2>1. Leavers(r) \union {w} \in SUBSET Leavers(r)'
        BY <1>b, <1>3, <1>6 DEF Leavers
    <2>2. w \notin Leavers(r)
        BY DEF Leavers, Elements
    <2>3. Slipped(r)' \in SUBSET (Slipped(r) \union {active[r][pos[r]]})
        <3> SUFFICES ASSUME NEW v \in Slipped(r)', v # active[r][pos[r]] PROVE v \in Slipped(r)
            OBVIOUS
        <3>1. /\ v \in before[r] /\ to[r] # v /\ peer'[v] = "open" /\ Event(r) \notin Elements(got'[v])
              /\ \E j \in 1 .. Len(active'[r]) : j < pos[r] /\ active'[r][j] = v
            BY <1>b DEF Slipped, Event
        <3>2. v \in Sockets
            BY <1>a, <3>1
        <3>3. peer[v] = "open"
            BY <3>1, <3>2, StaysGone
        <3>4. Event(r) \notin Elements(got[v])
            BY <3>1, <3>2, GotGrows
        <3>5. \E i \in 1 .. Len(active[r]) : i < pos[r] /\ active[r][i] = v
            BY <1>4, <3>1
        <3> QED BY <3>1, <3>3, <3>4, <3>5 DEF Slipped
    <2>4. IsFiniteSet(Slipped(r)) /\ Cardinality(Slipped(r)) <= Cardinality(Leavers(r))
        BY <1>a, SlipSets DEF SlipOK
    <2>5. IsFiniteSet(Leavers(r)')
        <3>1. Leavers(r)' \in SUBSET Sockets
            BY <1>a, <1>b DEF Leavers
        <3> QED BY <3>1, BusAssumption, FS_Subset
    <2>6. Cardinality(Slipped(r)') <= Cardinality(Leavers(r)')
        BY <2>1, <2>2, <2>3, <2>4, <2>5, OneSlips
    <2>7. Cardinality(Slipped(r))' <= Cardinality(Leavers(r))'
        BY <2>6
    <2> QED BY <1>2, <1>b, <2>7 DEF SlipOK
<1> QED BY <1>5, <1>6

(***************************************************************************)
(* A replica's own listener lets no socket slip.                           *)
(***************************************************************************)
LEMMA OwnSlips ==
    ASSUME BusInv, [Next]_vars, NEW r \in Replicas, listener_step(r), listener'[r] = "sending"
    PROVE  SlipOK(r)'
<1>a. /\ SlipOK(r) /\ SentTo(r) /\ ListenerOK(r) /\ active[r] \in Seq(Sockets) /\ Len(active[r]) \in Nat
      /\ pos[r] \in Nat /\ before[r] \in SUBSET Sockets
    BY DEF BusInv, TypeOK, SlipLedger, SocketLedger, ListenerLedger
<1>b. \A w \in before[r] : w # None /\ w \in Sockets
    BY <1>a, BusAssumption
<1>1. CASE listen(r)
    <2>1. pos'[r] = 1 /\ before'[r] = Elements(active[r]) /\ active' = active
        BY <1>1 DEF listen, BusInv, TypeOK
    <2>2. Slipped(r)' = {}
        BY <2>1 DEF Slipped
    <2>3. Leavers(r)' = {}
        BY <2>1 DEF Leavers
    <2>4. Cardinality(Slipped(r))' <= Cardinality(Leavers(r))'
        <3>1. Cardinality(Slipped(r)') <= Cardinality(Leavers(r)')
            BY <2>2, <2>3, FS_EmptySet
        <3> QED BY <3>1
    <2>5. \A i \in 1 .. Len(active'[r]) : active'[r][i] \in before'[r]
        BY <2>1 DEF Elements
    <2> QED BY <2>4, <2>5 DEF SlipOK
<1>2. CASE broadcast_next(r)
    <2>1. /\ listener[r] = "sending" /\ to[r] = None /\ to'[r] = active[r][pos[r]] /\ pos'[r] = pos[r] + 1
          /\ pos[r] <= Len(active[r]) /\ active' = active /\ before' = before /\ inbox' = inbox
        BY <1>2 DEF broadcast_next, BusInv, TypeOK
    <2>2. \A w \in before[r] :
              to'[r] # w /\ (\E i \in 1 .. Len(active'[r]) : i < pos'[r] /\ active'[r][i] = w)
              => to[r] # w /\ \E i \in 1 .. Len(active[r]) : i < pos[r] /\ active[r][i] = w
        <3> TAKE w \in before[r]
        <3> HAVE to'[r] # w /\ \E i \in 1 .. Len(active'[r]) : i < pos'[r] /\ active'[r][i] = w
        <3>1. PICK i \in 1 .. Len(active[r]) : i < pos[r] + 1 /\ active[r][i] = w
            BY <2>1
        <3>2. i < pos[r]
            BY <1>a, <2>1, <3>1
        <3> QED BY <1>b, <2>1, <3>1, <3>2
    <2>3. Event(r)' = Event(r)
        BY <2>1 DEF Event
    <2> QED BY <1>a, <2>1, <2>2, <2>3, SlipKept DEF SlipOK
<1>3. CASE broadcast_sent(r)
    <2>1. /\ to'[r] = None /\ pos' = pos /\ listener[r] = "sending" /\ peer' = peer /\ to[r] \in Sockets
          /\ active' = active /\ before' = before /\ inbox' = inbox /\ inbox[r] # <<>>
        BY <1>3, SendIsBroadcast DEF broadcast_sent, BusInv, TypeOK
    <2>2. ASSUME peer[to[r]] = "open" PROVE Event(r) \in Elements(got'[to[r]])
        <3>1. /\ got[to[r]] \in Seq(1 .. MaxEvents) /\ Event(r) \in 1 .. MaxEvents
              /\ got'[to[r]] = Append(got[to[r]], Event(r))
            BY <1>3, <2>1, <2>2, HeadIsEvent DEF broadcast_sent, BusInv, TypeOK
        <3>2. /\ Len(got'[to[r]]) = Len(got[to[r]]) + 1 /\ Len(got[to[r]]) \in Nat
              /\ got'[to[r]][Len(got[to[r]]) + 1] = Event(r)
            BY <3>1
        <3>3. Len(got[to[r]]) + 1 \in 1 .. Len(got'[to[r]])
            BY <3>2
        <3> QED BY <3>2, <3>3 DEF Elements
    <2>3. Event(r)' = Event(r)
        BY <2>1 DEF Event
    <2>4. \A w \in before[r] :
              to'[r] # w /\ peer'[w] = "open" /\ Event(r) \notin Elements(got'[w])
                  /\ (\E i \in 1 .. Len(active'[r]) : i < pos'[r] /\ active'[r][i] = w)
              => to[r] # w /\ (\E i \in 1 .. Len(active[r]) : i < pos[r] /\ active[r][i] = w)
        BY <2>1, <2>2
    <2> QED BY <1>a, <2>1, <2>3, <2>4, SlipKept DEF SlipOK
<1>4. CASE broadcast_raises(r)
    <2>1. /\ to'[r] = None /\ pos' = pos /\ listener[r] = "sending" /\ peer' = peer /\ peer[to[r]] # "open"
          /\ active' = active /\ before' = before /\ inbox' = inbox
        BY <1>4, SendIsBroadcast DEF broadcast_raises, page, BusInv, TypeOK
    <2>2. Event(r)' = Event(r)
        BY <2>1 DEF Event
    <2>3. \A w \in before[r] :
              to'[r] # w /\ peer'[w] = "open" /\ Event(r) \notin Elements(got'[w])
                  /\ (\E i \in 1 .. Len(active'[r]) : i < pos'[r] /\ active'[r][i] = w)
              => to[r] # w /\ (\E i \in 1 .. Len(active[r]) : i < pos[r] /\ active[r][i] = w)
        BY <2>1
    <2> QED BY <1>a, <2>1, <2>2, <2>3, SlipKept DEF SlipOK
<1>5. ~(subscribe(r) \/ broadcast_ends(r))
    BY DEF subscribe, broadcast_ends, BusInv, TypeOK
<1> QED BY <1>1, <1>2, <1>3, <1>4, <1>5 DEF listener_step

(***************************************************************************)
(* Every step keeps the account of who slipped and who left.               *)
(***************************************************************************)
LEMMA NextSlip == BusInv /\ [Next]_vars => SlipLedger'
<1> SUFFICES ASSUME BusInv, [Next]_vars, NEW r \in Replicas, listener'[r] = "sending" PROVE SlipOK(r)'
    BY DEF SlipLedger, SlipOK
<1>a. /\ SlipOK(r) /\ ListenerOK(r) /\ active[r] \in Seq(Sockets) /\ Len(active[r]) \in Nat
      /\ pos[r] \in Nat /\ before[r] \in SUBSET Sockets
    BY DEF BusInv, TypeOK, SlipLedger, ListenerLedger
<1>b. ASSUME listener[r] = "sending", pos'[r] = pos[r], to'[r] = to[r], before'[r] = before[r],
             Event(r)' = Event(r), active'[r] = active[r]
      PROVE  SlipOK(r)'
    BY <1>a, <1>b, SlipKept DEF SlipOK
<1>1. CASE publish_event
    <2>1. /\ listener' = listener /\ pos' = pos /\ to' = to /\ before' = before /\ active' = active
        BY <1>1 DEF publish_event
    <2>2. Event(r)' = Event(r)
        BY <1>1, <1>a, <2>1, PublishInOrder DEF ListenerOK
    <2> QED BY <1>b, <2>1, <2>2
<1>2. ASSUME NEW q \in Replicas, listener_step(q) \/ redis_lost(q) \/ replica_restarts(q) PROVE SlipOK(r)'
    <2>1. CASE q # r
        BY <1>2, <1>b, <2>1, OneReplica DEF SameListener, Event
    <2>2. CASE listener_step(r)
        BY <2>2, OwnSlips
    <2>3. ~(redis_lost(r) \/ replica_restarts(r))
        BY DEF redis_lost, replica_restarts, Stopped, BusInv, TypeOK
    <2> QED BY <1>2, <2>1, <2>2, <2>3
<1>3. ASSUME NEW w \in Sockets, NEW q \in Replicas, connect(w, q) PROVE SlipOK(r)'
    <2>1. /\ listener' = listener /\ pos' = pos /\ to' = to /\ before' = before /\ inbox' = inbox
          /\ active' = [active EXCEPT ![q] = Append(active[q], w)] /\ w \notin before[r]
        BY <1>3 DEF connect, Unused, bus
    <2>2. Event(r)' = Event(r)
        BY <2>1 DEF Event
    <2>3. CASE q # r
        BY <1>b, <2>1, <2>2, <2>3
    <2>4. CASE q = r
        <3>1. /\ Len(active'[r]) = Len(active[r]) + 1 /\ active'[r][Len(active[r]) + 1] = w
              /\ \A i \in 1 .. Len(active[r]) : active'[r][i] = active[r][i]
            BY <1>a, <2>1, <2>4 DEF BusInv, TypeOK
        <3>2. \A i \in 1 .. Len(active'[r]) :
                  active'[r][i] \in before[r] => i \in 1 .. Len(active[r]) /\ active'[r][i] = active[r][i]
            BY <1>a, <2>1, <3>1
        <3>3. \A i, j \in 1 .. Len(active'[r]) :
                  i < j /\ active'[r][j] \in before[r] => active'[r][i] \in before[r]
            <4> TAKE i, j \in 1 .. Len(active'[r])
            <4> HAVE i < j /\ active'[r][j] \in before[r]
            <4>1. j \in 1 .. Len(active[r]) /\ active[r][j] \in before[r]
                BY <3>2
            <4>2. i \in 1 .. Len(active[r]) /\ active'[r][i] = active[r][i]
                BY <1>a, <3>1, <4>1
            <4> QED BY <1>a, <2>1, <4>1, <4>2 DEF SlipOK
        <3>4. \A v \in before[r] : v \in Elements(active'[r]) => v \in Elements(active[r])
            BY <3>2 DEF Elements
        <3>5. \A v \in before[r] :
                  (\E i \in 1 .. Len(active'[r]) : i < pos'[r] /\ active'[r][i] = v)
                  => \E i \in 1 .. Len(active[r]) : i < pos[r] /\ active[r][i] = v
            BY <2>1, <3>2
        <3> QED BY <2>1, <2>2, <3>3, <3>4, <3>5, SlipKept
    <2> QED BY <2>3, <2>4
<1>4. ASSUME NEW w \in Sockets, dashboard_ws_ends(w) PROVE SlipOK(r)'
    <2>1. listener' = listener /\ pos' = pos /\ to' = to /\ before' = before /\ inbox' = inbox
        BY <1>4 DEF dashboard_ws_ends, bus
    <2>2. CASE active'[r] = active[r]
        BY <1>b, <2>1, <2>2 DEF Event
    <2>3. CASE active'[r] # active[r]
        BY <1>4, <2>1, <2>3, HandlerEnds, HandlerSlips
    <2> QED BY <2>2, <2>3
<1>5. CASE (\E w \in Sockets : closes(w)) \/ UNCHANGED vars
    BY <1>5, <1>b DEF closes, vars, bus, Event
<1> QED BY <1>1, <1>2, <1>3, <1>4, <1>5 DEF Next

-----------------------------------------------------------------------------
(* Part 9.  The theorems. *)

(***************************************************************************)
(* The bus's invariant, for any number of replicas, sockets and events.    *)
(***************************************************************************)
THEOREM BusInvariant == Spec => []BusInv
<1>1. BusInv /\ [Next]_vars => BusInv'
    BY NextTypes, NextListener, NextOnePlace, NextGone, NextSentTo, NextInOrder, NextOrder, NextSlip
    DEF BusInv, SocketLedger, OrderLedger
<1> QED BY InitBus, <1>1, PTL DEF Spec

(***************************************************************************)
(* The types of the bus's state.                                           *)
(***************************************************************************)
THEOREM BusTypeOK == Spec => []TypeOK
<1>1. BusInv => TypeOK
    BY DEF BusInv
<1> QED BY BusInvariant, <1>1, PTL

(***************************************************************************)
(* Events reach a socket in the order of publication and none twice,       *)
(* although the loops run over lists that handlers change.                 *)
(***************************************************************************)
THEOREM BusInOrderOnce == Spec => []InOrderOnce
<1>1. BusInv => InOrderOnce
    BY DEF BusInv
<1> QED BY BusInvariant, <1>1, PTL

(***************************************************************************)
(* A broadcast costs at most one socket the event for each one that leaves *)
(* the list meanwhile.                                                     *)
(***************************************************************************)
THEOREM BusMissesOnlyForLeavers == Spec => []MissesOnlyForLeavers
<1>1. BusInv => MissesOnlyForLeavers
    <2> SUFFICES ASSUME BusInv, NEW r \in Replicas,
                        listener[r] = "sending", to[r] = None, pos[r] > Len(active[r])
                 PROVE  Cardinality(Missed(r)) <= Cardinality(before[r] \ Elements(active[r]))
        BY DEF MissesOnlyForLeavers
    <2>1. active[r] \in Seq(Sockets) /\ Len(active[r]) \in Nat /\ pos[r] \in Nat /\ before[r] \in SUBSET Sockets
        BY DEF BusInv, TypeOK
    <2>2. Missed(r) \in SUBSET Slipped(r)
        <3> SUFFICES ASSUME NEW w \in Missed(r) PROVE w \in Slipped(r)
            OBVIOUS
        <3>1. /\ w \in before[r] /\ peer[w] = "open" /\ Event(r) \notin Elements(got[w])
              /\ \E i \in 1 .. Len(active[r]) : active[r][i] = w
            BY DEF Missed, Elements
        <3>2. \A i \in 1 .. Len(active[r]) : i < pos[r]
            BY <2>1
        <3>3. to[r] # w
            BY <2>1, <3>1, BusAssumption
        <3> QED BY <3>1, <3>2, <3>3 DEF Slipped
    <2>3. /\ IsFiniteSet(Slipped(r)) /\ IsFiniteSet(Leavers(r))
          /\ Cardinality(Slipped(r)) <= Cardinality(Leavers(r))
        BY SlipSets DEF BusInv, SlipLedger, SlipOK
    <2>4. Cardinality(Missed(r)) <= Cardinality(Leavers(r))
        BY <2>2, <2>3, FewerSlip
    <2> QED BY <2>4 DEF Leavers
<1> QED BY BusInvariant, <1>1, PTL
=============================================================================
