------------------------------ MODULE EventBus ------------------------------
(***************************************************************************)
(* The event bus (event.go): subscribers register a channel for a type of  *)
(* event, and Publish starts a goroutine that offers the event to every    *)
(* channel registered for its type at that moment.  All operations hold    *)
(* the bus's lock, so each one is a step; the goroutines run on their own  *)
(* and take one channel of their copy per step.  Channels are unbuffered:  *)
(* a send completes only together with a receive on the same channel.      *)
(***************************************************************************)
EXTENDS Naturals, Sequences, SequencesExt, TLAPS

CONSTANTS
    Types,            \* event types the program publishes and subscribes to
    Receivers,        \* the channels the subscriptions own
    MaxEvents         \* bound: number of calls of Publish

VARIABLES
    subs,             \* EventBus.subs: the channels registered for a type
    subscription,     \* what Subscript returned to the owner of a channel
    sending,          \* the goroutines of Publish, in the order they started
    delivered         \* the publications each channel's owner has received

vars == <<subs, subscription, sending, delivered>>

NotSubscribed == [typ |-> "none", index |-> 0]
BetweenSends == "none"     \* where a goroutine of Publish sends when it does not
Nobody == "nobody"         \* a channel that Publish made and nobody else knows

Init ==
    /\ subs = [t \in Types |-> <<>>]
    /\ subscription = [c \in Receivers |-> NotSubscribed]
    /\ sending = <<>>
    /\ delivered = [c \in Receivers |-> {}]

-----------------------------------------------------------------------------
\* Subscript: the new channel goes to the end of its type's list and the
\* subscription remembers the position.  Each subscription makes its own
\* channel, so a channel registers once.
Subscript(t, c) ==
    /\ subscription[c] = NotSubscribed
    /\ subscription' = [subscription EXCEPT
                          ![c] = [typ |-> t, index |-> Len(subs[t])]]
    /\ subs' = [subs EXCEPT ![t] = Append(@, c)]
    /\ UNCHANGED <<sending, delivered>>

\* Slip: unsubscribe takes the type it is given.
LookedUpSlip(t) == {t}

\* The type under which unsubscribe looks up the list: it takes the dynamic
\* type of its argument, which is already a type descriptor, and no event is
\* of that type.
LookedUp(t) == {}

\* Unsubscribe: the list of the type looked up, if there is one, loses the
\* position the subscription was given.
Unsubscribe(c) ==
    /\ subscription[c] # NotSubscribed
    /\ subs' = [t \in Types |->
                  IF t \in LookedUp(subscription[c].typ)
                  THEN RemoveAt(subs[t], subscription[c].index + 1)
                  ELSE subs[t]]
    /\ UNCHANGED <<subscription, sending, delivered>>

\* Publish: with a list for the type, a goroutine gets the event and the list
\* as it is now; without one the event is dropped.
Publish(t) ==
    /\ Len(sending) < MaxEvents
    /\ subs[t] # <<>>
    /\ sending' = Append(sending, [typ |-> t, cs |-> subs[t], rest |-> subs[t],
                                   on |-> BetweenSends])
    /\ UNCHANGED <<subs, subscription, delivered>>

\* The channel the goroutine sends on when its loop is at channel c: the loop
\* variable is overwritten with a channel made on the spot.
SendsOn(c) == Nobody

\* The goroutine's loop turns to the next channel of its copy and blocks in the
\* send.
Offer(g) ==
    /\ sending[g].on = BetweenSends
    /\ sending[g].rest # <<>>
    /\ sending' = [sending EXCEPT ![g].on = SendsOn(Head(sending[g].rest)),
                                  ![g].rest = Tail(@)]
    /\ UNCHANGED <<subs, subscription, delivered>>

\* The owner of c, waiting in a select or in AddLListener, receives from its
\* channel what goroutine g is sending on it.
Receive(g, c) ==
    /\ sending[g].on = c
    /\ sending' = [sending EXCEPT ![g].on = BetweenSends]
    /\ delivered' = [delivered EXCEPT ![c] = @ \cup {g}]
    /\ UNCHANGED <<subs, subscription>>

BusNext ==
    \/ \E t \in Types, c \in Receivers : Subscript(t, c)
    \/ \E c \in Receivers : Unsubscribe(c)
    \/ \E t \in Types : Publish(t)
    \/ \E g \in DOMAIN sending : Offer(g)

\* What the bus does by itself, whatever its subscribers do.
BusSpec == Init /\ [][BusNext]_vars

Next == BusNext \/ \E g \in DOMAIN sending, c \in Receivers : Receive(g, c)

\* Goroutines are scheduled, and every subscriber of the program keeps
\* receiving: its channel is read in a loop for as long as it is subscribed.
Fairness ==
    /\ \A g \in 1 .. MaxEvents : WF_vars(g \in DOMAIN sending /\ Offer(g))
    /\ \A g \in 1 .. MaxEvents, c \in Receivers :
          WF_vars(g \in DOMAIN sending /\ Receive(g, c))

Spec == Init /\ [][Next]_vars /\ Fairness

-----------------------------------------------------------------------------
\* The state has the shape the declarations give it.
TypeOK ==
    /\ subs \in [Types -> Seq(Receivers)]
    /\ subscription \in
         [Receivers -> [typ : Types, index : Nat] \cup {NotSubscribed}]
    /\ sending \in Seq([typ : Types, cs : Seq(Receivers), rest : Seq(Receivers),
                        on : Receivers \cup {BetweenSends, Nobody}])
    /\ delivered \in [Receivers -> SUBSET (1 .. MaxEvents)]

\* A subscription's index always names its own channel in its type's list, so
\* that nothing done to one subscription (a second Unsubscribe included) can
\* touch the channel of another.
IndexNamesChannel ==
    \A c \in Receivers :
        subscription[c] # NotSubscribed =>
            LET list == subs[subscription[c].typ]
                pos == subscription[c].index + 1
            IN pos \in DOMAIN list /\ list[pos] = c

\* The comment on EventBus: an event reaches the receivers registered for its
\* type.
EventsReachReceivers ==
    \A g \in 1 .. MaxEvents, c \in Receivers :
        (g \in DOMAIN sending /\ Contains(sending[g].cs, c))
            ~> (g \in delivered[c])

-----------------------------------------------------------------------------
(* Proofs, for any sets of types and channels and any number of events.    *)

\* The inductive invariant: what Subscript returned is well formed, and the
\* position in it holds the channel it was returned for.
Registered ==
    /\ subs \in [Types -> Seq(Receivers)]
    /\ subscription \in
         [Receivers -> [typ : Types, index : Nat] \cup {NotSubscribed}]
    /\ IndexNamesChannel

LEMMA RegisteredInit == Init => Registered
BY DEF Init, Registered, IndexNamesChannel, NotSubscribed

\* Subscript appends, so the positions given before keep their channels.
LEMMA SubscriptKeeps ==
    ASSUME Registered, NEW t \in Types, NEW c \in Receivers, Subscript(t, c)
    PROVE  Registered'
<1> DEFINE new == [typ |-> t, index |-> Len(subs[t])]
<1>1. /\ subs' = [subs EXCEPT ![t] = Append(@, c)]
      /\ subscription' = [subscription EXCEPT ![c] = new]
  BY DEF Subscript
<1>2. subs[t] \in Seq(Receivers) /\ Len(subs[t]) \in Nat
  BY DEF Registered
<1>3. subs' \in [Types -> Seq(Receivers)]
  BY <1>1, <1>2 DEF Registered
<1>4. new \in [typ : Types, index : Nat]
  BY <1>2
<1>5. subscription' \in
        [Receivers -> [typ : Types, index : Nat] \cup {NotSubscribed}]
  BY <1>1, <1>4 DEF Registered
<1>6. IndexNamesChannel'
  <2> SUFFICES ASSUME NEW d \in Receivers, subscription'[d] # NotSubscribed
               PROVE  LET list == subs'[subscription'[d].typ]
                          pos == subscription'[d].index + 1
                      IN  pos \in DOMAIN list /\ list[pos] = d
    BY DEF IndexNamesChannel
  <2>1. CASE d = c
    <3>1. subscription'[d] = new
      BY <2>1, <1>1 DEF Registered
    <3>2. subs'[t] = Append(subs[t], c)
      BY <1>1 DEF Registered
    <3>3. new.typ = t /\ new.index = Len(subs[t])
      OBVIOUS
    <3>4. Len(subs[t]) + 1 \in DOMAIN Append(subs[t], c)
          /\ Append(subs[t], c)[Len(subs[t]) + 1] = c
      BY <1>2
    <3> QED
      BY <2>1, <3>1, <3>2, <3>3, <3>4
  <2>2. CASE d # c
    <3> DEFINE u == subscription[d].typ
               pos == subscription[d].index + 1
    <3>1. subscription'[d] = subscription[d]
      BY <2>2, <1>1 DEF Registered
    <3>2. subscription[d] \in [typ : Types, index : Nat]
      BY <3>1 DEF Registered
    <3>3. u \in Types /\ pos \in Nat /\ subs[u] \in Seq(Receivers)
      BY <3>2 DEF Registered
    <3>4. pos \in DOMAIN subs[u] /\ subs[u][pos] = d
      BY <3>1 DEF Registered, IndexNamesChannel
    <3>5. subs'[u] = subs[u] \/ subs'[u] = Append(subs[u], c)
      BY <1>1, <3>3 DEF Registered
    <3>6. pos \in DOMAIN Append(subs[u], c) /\ Append(subs[u], c)[pos] = d
      BY <3>3, <3>4
    <3>7. pos \in DOMAIN subs'[u] /\ subs'[u][pos] = d
      BY <3>4, <3>5, <3>6
    <3> QED
      BY <3>1, <3>7
  <2> QED
    BY <2>1, <2>2
<1> QED
  BY <1>3, <1>5, <1>6 DEF Registered

\* Unsubscribe looks up a type that no event has and removes nothing.
LEMMA UnsubscribeKeeps ==
    ASSUME Registered, NEW c \in Receivers, Unsubscribe(c)
    PROVE  Registered'
<1>1. subs' = [t \in Types |-> subs[t]]
  BY DEF Unsubscribe, LookedUp
<1>2. subs' = subs /\ subscription' = subscription
  BY <1>1 DEF Registered, Unsubscribe
<1> QED
  BY <1>2 DEF Registered, IndexNamesChannel

LEMMA RegisteredStep == Registered /\ [Next]_vars => Registered'
<1> SUFFICES ASSUME Registered, [Next]_vars PROVE Registered'
  OBVIOUS
<1>1. CASE UNCHANGED <<subs, subscription>>
  BY <1>1 DEF Registered, IndexNamesChannel
<1>2. ASSUME NEW t \in Types, NEW c \in Receivers, Subscript(t, c)
      PROVE  Registered'
  BY <1>2, SubscriptKeeps
<1>3. ASSUME NEW c \in Receivers, Unsubscribe(c) PROVE Registered'
  BY <1>3, UnsubscribeKeeps
<1>4. ASSUME NEW t \in Types, Publish(t) PROVE UNCHANGED <<subs, subscription>>
  BY <1>4 DEF Publish
<1>5. ASSUME NEW g \in DOMAIN sending, Offer(g)
      PROVE  UNCHANGED <<subs, subscription>>
  BY <1>5 DEF Offer
<1>6. ASSUME NEW g \in DOMAIN sending, NEW c \in Receivers, Receive(g, c)
      PROVE  UNCHANGED <<subs, subscription>>
  BY <1>6 DEF Receive
<1>7. CASE UNCHANGED vars
  BY <1>1, <1>7 DEF vars
<1> QED
  BY <1>1, <1>2, <1>3, <1>4, <1>5, <1>6, <1>7 DEF Next, BusNext

\* Whatever the order of Subscript, Unsubscribe and Publish, the index that a
\* subscription got from Subscript names its own channel.
THEOREM IndexAlwaysNamesChannel == BusSpec => []IndexNamesChannel
<1>1. Registered /\ [BusNext]_vars => Registered'
  BY RegisteredStep DEF Next
<1>2. Registered => IndexNamesChannel
  BY DEF Registered
<1> QED
  BY RegisteredInit, <1>1, <1>2, PTL DEF BusSpec
=============================================================================
