--------------------------- MODULE OrderedBroadcast ---------------------------
(***************************************************************************)
(* What the event bus promises, without its queue, worker and callbacks:   *)
(* every subscription settles the events that are accepted one after the   *)
(* other, acting on an event or missing it for good, and as long as it     *)
(* stays subscribed it passes over none.                                   *)
(***************************************************************************)
EXTENDS Integers, Sequences

CONSTANTS Kinds, Any, Names

VARIABLES subscriptions,   \* the pairs <<kind or Any, name>> subscribed
          since,           \* since[b]: the event b's subscription begins after
          kind,            \* the kinds of the accepted events
          handled,         \* handled[b]: the events b has acted on
          missed           \* missed[b]: the events b never acts on

vars == <<subscriptions, since, kind, handled, missed>>

Subscription == (Kinds \cup {Any}) \X Names

Event == 1 .. Len(kind)

Wants(b, n) == b[1] \in {Any, kind[n]}

Settled(b) == handled[b] \cup missed[b]

Init ==
  /\ subscriptions = {}
  /\ since = [b \in Subscription |-> 0]
  /\ kind = <<>>
  /\ handled = [b \in Subscription |-> {}]
  /\ missed = [b \in Subscription |-> {}]

Accept(k) ==
  /\ kind' = Append(kind, k)
  /\ UNCHANGED <<subscriptions, since, handled, missed>>

\* A subscription begins at an event that is still to be settled by it.
Subscribe(b) ==
  /\ b \notin subscriptions
  /\ subscriptions' = subscriptions \cup {b}
  /\ \E n \in 0 .. Len(kind) : since' = [since EXCEPT ![b] = n]
  /\ \A m \in Settled(b) : m <= since'[b]
  /\ UNCHANGED <<kind, handled, missed>>

Unsubscribe(b) ==
  /\ subscriptions' = subscriptions \ {b}
  /\ UNCHANGED <<since, kind, handled, missed>>

\* b settles the events in new: each is one it wants, comes after all those it
\* has settled and, while b is subscribed, leaves no earlier one open.
InTurn(b, new) ==
  \A n \in new :
    /\ n \in Event /\ Wants(b, n)
    /\ \A m \in Settled(b) : m < n
    /\ b \in subscriptions =>
         \A m \in since[b] + 1 .. n - 1 : Wants(b, m) => m \in Settled(b) \cup new

\* Subscriptions act on events, or miss them, or do neither: never both.
Settle ==
  /\ handled' \in [Subscription -> SUBSET Event]
  /\ missed' \in [Subscription -> SUBSET Event]
  /\ \A b \in Subscription :
       /\ handled[b] \subseteq handled'[b] /\ missed[b] \subseteq missed'[b]
       /\ InTurn(b, (handled'[b] \cup missed'[b]) \ Settled(b))
       /\ handled'[b] \cap missed'[b] = {}
  /\ UNCHANGED <<subscriptions, since, kind>>

Next ==
  \/ \E k \in Kinds : Accept(k)
  \/ \E b \in Subscription : Subscribe(b) \/ Unsubscribe(b)
  \/ Settle

Spec == Init /\ [][Next]_vars
=============================================================================
