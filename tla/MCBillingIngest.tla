-------------------------- MODULE MCBillingIngest --------------------------
(***************************************************************************)
(* Small instances of BillingIngest: two deliveries race on one identity   *)
(* with two contents; the Stripe identity and the PayPal one differ.       *)
(***************************************************************************)
EXTENDS BillingIngest

MCEvent(p, t, b) == [provider |-> p, id |-> "evt", event_type |-> t, payload |-> b]

(* One identity per provider; of Stripe's, a second body and a second type. *)
MCEvents == {MCEvent("stripe", "paid", "b1"), MCEvent("stripe", "paid", "b2"),
             MCEvent("stripe", "void", "b1"), MCEvent("paypal", "paid", "b1")}

MCSha256 == [p \in {"b1", "b2"} |-> IF p = "b1" THEN "h1" ELSE "h2"]
=============================================================================
