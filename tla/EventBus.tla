------------------------------ MODULE EventBus ------------------------------
(***************************************************************************)
(* The event bus of the panel, internal/plugin/events.go, and the bridge   *)
(* that subscribes plugins to it, internal/plugin/events_bridge.go.        *)
(*                                                                         *)
(* Subscribe, Unsubscribe and Publish hold EventBus.mu. The goroutine of a *)
(* subscription takes events from its queue without that lock, so a        *)
(* Publish that meets a full queue interleaves with it between the three   *)
(* channel operations of the overflow path. The bridge subscribes in two   *)
(* critical sections, and several starts of one plugin may be under way.   *)
(* All of them have the event list of the plugin's manifest; an upgrade    *)
(* that changes the list while a start is under way is not part of this.   *)
(***************************************************************************)
EXTENDS Naturals, Sequences, SequencesExt, FiniteSets

CONSTANTS Ids,          \* subscriber ids ("plugin:" and a plugin's name)
          Names,        \* event names
          Events,       \* the event list in the manifest of each plugin
          Starters,     \* requests that may start a plugin at the same time
          QueueSize,    \* eventQueueSize
          MaxAttempts,  \* eventMaxAttempts
          MaxEvents,    \* bound on the events published
          MaxSubs       \* bound on the calls of Subscribe

BusBounds ==
  /\ Events \in [Ids -> Seq(Names)]
  /\ {QueueSize, MaxAttempts} \subseteq Nat \ {0}
  /\ {MaxEvents, MaxSubs} \subseteq Nat

VARIABLES
  subs,       \* EventBus.subs: event name -> id -> subscription, 0 if absent
  sub,        \* the subscriptions made so far, the numbers in subs index it
  published,  \* the number of events published so far; events are numbered
  pub,        \* the Publish that holds the lock, if one does
  starting    \* the starts between their Unsubscribe and their Subscribe

vars == <<subs, sub, published, pub, starting>>

NoEvent == 0
NoPub == [name |-> "none", evt |-> NoEvent, todo |-> {}, on |-> 0, step |-> "done"]
NoStart == <<>>

\* A subscription: the queue and the closed channel of eventSubscription, the
\* state of its goroutine, and what it was offered and has taken.
NewSub(id) ==
  [id |-> id, queue |-> <<>>, closed |-> FALSE, pc |-> "idle", evt |-> NoEvent,
   attempt |-> 0, offered |-> <<>>, taken |-> <<>>]

Event == 1..MaxEvents
Sub == 1..Len(sub)
Locked == pub # NoPub
Registered(s) == \E n \in Names, i \in Ids : subs[n][i] = s
Lost(s) == ToSet(sub[s].offered) \ ToSet(sub[s].queue \o sub[s].taken)

TypeOK ==
  /\ subs \in [Names -> [Ids -> 0..Len(sub)]]
  /\ Len(sub) <= MaxSubs
  /\ \A s \in Sub :
       /\ sub[s].id \in Ids
       /\ sub[s].queue \in Seq(Event) /\ Len(sub[s].queue) <= QueueSize
       /\ sub[s].closed \in BOOLEAN
       /\ sub[s].pc \in {"idle", "delivering", "waiting", "gone"}
       /\ sub[s].attempt \in 0..MaxAttempts
  /\ published \in 0..MaxEvents
  /\ pub.step \in {"next", "try", "evict", "put", "done"}
  /\ \A p \in Starters : starting[p] \in Seq(Ids) /\ Len(starting[p]) <= 1

Init ==
  /\ subs = [n \in Names |-> [i \in Ids |-> 0]]
  /\ sub = <<>>
  /\ published = 0
  /\ pub = NoPub
  /\ starting = [p \in Starters |-> NoStart]

----------------------------------------------------------------------------
(* Subscribe and Unsubscribe.                                               *)

\* Unsubscribe closes every subscription of the id and forgets it.
Closing(S) == [s \in Sub |-> [sub[s] EXCEPT !.closed = @ \/ s \in S]]
Unsubscribed(id) == [n \in Names |-> [subs[n] EXCEPT ![id] = 0]]
UnsubscribeEffect(id) ==
  /\ sub' = Closing({subs[n][id] : n \in Names})
  /\ subs' = Unsubscribed(id)

\* The old subscription that Subscribe closes: the first it finds in the order
\* of the event list.
OldKept(id, events) == 0
Old(id, events) ==
  LET k == SelectInSeq(events, LAMBDA n : subs[n][id] # 0)
  IN  IF k = 0 THEN 0 ELSE subs[events[k]][id]

Subscribe(id, events) ==
  /\ sub' = Append(Closing({Old(id, events)}), NewSub(id))
  /\ subs' = [n \in Names |->
                IF n \in ToSet(events) THEN [subs[n] EXCEPT ![id] = Len(sub) + 1] ELSE subs[n]]

\* startEventDelivery: a plugin without subscriptions returns at once; the
\* others cancel the old subscription ...
StartDelivery(p, id) ==
  /\ ~Locked
  /\ starting[p] = NoStart /\ Events[id] # <<>>
  /\ UnsubscribeEffect(id)
  /\ starting' = [starting EXCEPT ![p] = <<id>>]
  /\ UNCHANGED <<published, pub>>

\* ... and subscribe anew, in a second critical section.
FinishDelivery(p) ==
  /\ ~Locked
  /\ starting[p] # NoStart /\ Len(sub) < MaxSubs
  /\ Subscribe(Head(starting[p]), Events[Head(starting[p])])
  /\ starting' = [starting EXCEPT ![p] = NoStart]
  /\ UNCHANGED <<published, pub>>

\* stopEventDelivery.
StopDelivery(id) ==
  /\ ~Locked
  /\ \E n \in Names : subs[n][id] # 0
  /\ UnsubscribeEffect(id)
  /\ UNCHANGED <<published, pub, starting>>

----------------------------------------------------------------------------
(* Publish.                                                                 *)

Publish(n) ==
  /\ ~Locked /\ published < MaxEvents
  /\ published' = published + 1
  /\ pub' = [name |-> n, evt |-> published + 1,
             todo |-> {subs[n][i] : i \in Ids} \ {0}, on |-> 0, step |-> "next"]
  /\ UNCHANGED <<subs, sub, starting>>

\* The range over the subscribers, in any order; after the last one the lock is
\* released.
NextSubscriber ==
  /\ pub.step = "next"
  /\ IF pub.todo = {}
       THEN pub' = NoPub
       ELSE \E s \in pub.todo :
              pub' = [pub EXCEPT !.todo = @ \ {s}, !.on = s, !.step = "try"]
  /\ UNCHANGED <<subs, sub, published, starting>>

HasRoomOneMore(s) == Len(sub[s].queue) <= QueueSize
HasRoom(s) == Len(sub[s].queue) < QueueSize
Offer(s) ==
  [sub EXCEPT ![s].offered = Append(@, pub.evt),
              ![s].queue = IF HasRoom(s) THEN Append(@, pub.evt) ELSE @]

\* The first send: it succeeds, or the queue is full.
AfterTryAlwaysEvicts(s) == "evict"
AfterTry(s) == IF HasRoom(s) THEN "next" ELSE "evict"
TrySend ==
  /\ pub.step = "try"
  /\ sub' = Offer(pub.on)
  /\ pub' = [pub EXCEPT !.step = AfterTry(pub.on)]
  /\ UNCHANGED <<subs, published, starting>>

\* The overflow path takes the oldest event out, if one is left by now ...
EvictedNothing(q) == q
Evicted(q) == IF q = <<>> THEN q ELSE Tail(q)
EvictOldest ==
  /\ pub.step = "evict"
  /\ sub' = [sub EXCEPT ![pub.on].queue = Evicted(@)]
  /\ pub' = [pub EXCEPT !.step = "put"]
  /\ UNCHANGED <<subs, published, starting>>

\* ... and sends again, giving up if that fails too.
SendAgain ==
  /\ pub.step = "put"
  /\ sub' = [sub EXCEPT ![pub.on].queue = IF HasRoom(pub.on) THEN Append(@, pub.evt) ELSE @]
  /\ pub' = [pub EXCEPT !.step = "next"]
  /\ UNCHANGED <<subs, published, starting>>

----------------------------------------------------------------------------
(* The goroutine of a subscription: consume, safeDeliver, deliverWithRetry. *)

Take(s) ==
  /\ sub[s].pc = "idle" /\ sub[s].queue # <<>>
  /\ sub' = [sub EXCEPT ![s].pc = "delivering", ![s].evt = Head(sub[s].queue),
                        ![s].queue = Tail(@), ![s].attempt = 1,
                        ![s].taken = Append(@, Head(sub[s].queue))]
  /\ UNCHANGED <<subs, published, pub, starting>>

\* The other case of the select, which is chosen at random when both are ready.
SeesClosedNever(s) == FALSE
SeesClosed(s) == sub[s].closed
Leave(s) ==
  /\ sub[s].pc = "idle" /\ SeesClosed(s)
  /\ sub' = [sub EXCEPT ![s].pc = "gone"]
  /\ UNCHANGED <<subs, published, pub, starting>>

\* The handler returns nil: the plugin answered, or RunningEndpoint says that it
\* does not run and the event is passed over.
Deliver(s) ==
  /\ sub[s].pc = "delivering"
  /\ sub' = [sub EXCEPT ![s].pc = "idle"]
  /\ UNCHANGED <<subs, published, pub, starting>>

\* The handler fails, and the plugin may have got the event nevertheless; after
\* the last attempt the event is given up.
AttemptFails(s) ==
  /\ sub[s].pc = "delivering"
  /\ sub' = [sub EXCEPT ![s].pc = IF sub[s].attempt = MaxAttempts THEN "idle" ELSE "waiting"]
  /\ UNCHANGED <<subs, published, pub, starting>>

\* The handler panics: safeDeliver recovers outside the loop of
\* deliverWithRetry, and consume goes on with the next event.
AfterPanicUnrecovered == "gone"
AfterPanic == "idle"
HandlerPanics(s) ==
  /\ sub[s].pc = "delivering"
  /\ sub' = [sub EXCEPT ![s].pc = AfterPanic]
  /\ UNCHANGED <<subs, published, pub, starting>>

\* The back-off between attempts ends with the timer or with the subscription.
Retry(s) ==
  /\ sub[s].pc = "waiting"
  /\ sub' = [sub EXCEPT ![s].pc = "delivering", ![s].attempt = @ + 1]
  /\ UNCHANGED <<subs, published, pub, starting>>

AbandonRetries(s) ==
  /\ sub[s].pc = "waiting" /\ sub[s].closed
  /\ sub' = [sub EXCEPT ![s].pc = "idle"]
  /\ UNCHANGED <<subs, published, pub, starting>>

----------------------------------------------------------------------------
Bridge ==
  \/ \E p \in Starters, i \in Ids : StartDelivery(p, i)
  \/ \E p \in Starters : FinishDelivery(p)
  \/ \E i \in Ids : StopDelivery(i)

PublishStep == NextSubscriber \/ TrySend \/ EvictOldest \/ SendAgain

Consume(s) ==
  \/ Take(s) \/ Leave(s) \/ Deliver(s) \/ AttemptFails(s) \/ HandlerPanics(s)
  \/ Retry(s) \/ AbandonRetries(s)

\* Within the bounds everything is done, and the goroutines that are left wait.
Rest ==
  /\ ~Locked /\ published = MaxEvents
  /\ \A s \in Sub : sub[s].pc = "gone" \/ (sub[s].pc = "idle" /\ sub[s].queue = <<>>)
  /\ UNCHANGED vars

Next ==
  \/ Bridge
  \/ \E n \in Names : Publish(n)
  \/ PublishStep
  \/ \E s \in Sub : Consume(s)
  \/ Rest

Spec == Init /\ [][Next]_vars

\* A goroutine that can run is scheduled, and a handler returns: its context
\* ends after 30 seconds.
FairSpec ==
  /\ Spec
  /\ WF_vars(PublishStep)
  /\ \A s \in 1..MaxSubs : WF_vars(s \in Sub /\ Consume(s))

----------------------------------------------------------------------------
\* A subscription takes events in the order in which they were published and
\* none of them twice, also when Publish evicts while the goroutine takes.
TakenInOrder ==
  \A s \in Sub :
    LET q == sub[s].taken \o sub[s].queue
    IN  \A i, j \in 1..Len(q) : i < j => q[i] < q[j]

\* A slow subscriber loses old events and no more than necessary: the event that
\* was published last is never the one that an overflow loses, and the number of
\* losses is at most the number of events beyond the size of the queue, although
\* the queue may have been drained between Publish's check and its eviction.
OverflowLosesOldest ==
  \A s \in Sub : sub[s].offered # <<>> /\ ~(pub.on = s /\ pub.step \in {"evict", "put"}) =>
    /\ Last(sub[s].offered) \notin Lost(s)
    /\ Lost(s) # {} => Cardinality(Lost(s)) + QueueSize <= Len(sub[s].offered)

\* Repeated and simultaneous starts and stops leave no goroutine behind: a
\* subscription that is not closed is registered, so a later Unsubscribe finds
\* it, and no id has two of them.
NoLeakedConsumer ==
  /\ \A s \in Sub : ~sub[s].closed => Registered(s)
  /\ \A s, t \in Sub : sub[s].id = sub[t].id /\ ~sub[s].closed /\ ~sub[t].closed => s = t

\* The goroutine of a closed subscription ends, whatever it was doing.
ClosedConsumerEnds ==
  \A s \in 1..MaxSubs : (s \in Sub /\ sub[s].closed) ~> (s \in Sub /\ sub[s].pc = "gone")

\* An event in the queue of a subscription leaves it by delivery, eviction or
\* the end of the subscription: failures and panics of a handler do not stop
\* the goroutine.
QueueDrains ==
  \A s \in 1..MaxSubs :
    (s \in Sub /\ sub[s].queue # <<>>) ~> (s \in Sub /\ (sub[s].queue = <<>> \/ sub[s].closed))
=============================================================================
