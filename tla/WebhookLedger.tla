--------------------------- MODULE WebhookLedger ---------------------------
(***************************************************************************)
(* What the billing webhook endpoint promises a payment provider, with no  *)
(* handlers, statements or replicas in sight: an event identity is bound   *)
(* to one content, once and for all, and only an event whose content is    *)
(* the bound one is ever acknowledged.                                     *)
(***************************************************************************)

CONSTANTS
  Identity,   \* (provider, provider_event_id) pairs
  Content     \* what makes two events of one identity the same event

VARIABLES
  bound,      \* bound[i]: the set of contents bound to identity i
  acked       \* the <<identity, content>> pairs acknowledged to a provider

vars == <<bound, acked>>

Init ==
  /\ bound = [i \in Identity |-> {}]
  /\ acked = {}

(* The first verified delivery of an identity fixes its content. *)
Bind(i, c) ==
  /\ bound[i] = {}
  /\ bound' = [bound EXCEPT ![i] = {c}]
  /\ UNCHANGED acked

(* A 2xx reaches the provider. *)
Ack(i, c) ==
  /\ bound[i] = {c}
  /\ acked' = acked \cup {<<i, c>>}
  /\ UNCHANGED bound

Next == \E i \in Identity, c \in Content : Bind(i, c) \/ Ack(i, c)

Spec == Init /\ [][Next]_vars
=============================================================================
