---------------------------- MODULE MCUserStore -----------------------------
(***************************************************************************)
(* A small instance of UserStore: any three of the inputs below at once.   *)
(* Ann has a session and Bob a notification; Bob asks for Ann's too.       *)
(***************************************************************************)
EXTENDS UserStore, TLC

MCInput(s, op, f, k, l, v) ==
  [subject |-> s, op |-> op, form |-> [region |-> f[1], density |-> f[2]],
   kind |-> k, label |-> l, view |-> v, refused |-> FALSE]

(* Forms that differ from one another in one column and in both. *)
MCInputs ==
  {MCInput("ann", "save", f, "session", "mac", "form") : f \in {<<0, 0>>, <<0, 1>>, <<1, 0>>}}
  \cup {MCInput("ann", "read", <<0, 0>>, "session", "mac", "api"),
        MCInput("ann", "show", <<0, 0>>, "session", "mac", "form"),
        MCInput("ann", "mark", <<0, 0>>, "session", "mac", "api"),
        MCInput("bob", "mark", <<0, 0>>, "session", "mac", "form"),
        MCInput("bob", "mark", <<0, 0>>, "notification", "n1", "form"),
        [MCInput("bob", "show", <<0, 0>>, "session", "mac", "api") EXCEPT !.refused = TRUE]}

MCItems == {"s1", "n1"}

MCOwner == [i \in MCItems |-> IF i = "s1" THEN "ann" ELSE "bob"]

MCKind == [i \in MCItems |-> IF i = "n1" THEN "notification" ELSE "session"]

MCLabel == [i \in MCItems |-> IF i = "n1" THEN "n1" ELSE "mac"]

MCSymmetry == Permutations(Requests)
=============================================================================
