--------------------------- MODULE MCLoginBudgets ---------------------------
(***************************************************************************)
(* A small instance of LoginBudgets: two handlers at once, one telephone   *)
(* written in two ways that are two keys and one mailbox written in two    *)
(* ways that are one, a client, and room for fewer keys than are used.     *)
(***************************************************************************)
EXTENDS LoginBudgets, TLC

MCPost(o, i, c) == [op |-> o, identifier |-> i, client |-> c]

MCPosts ==
  {MCPost("otp", "+1 2", "c1"), MCPost("otp", "+12", "c1"), MCPost("verify", "Ann", "c1")}

MCNormalised == [s \in Spellings |-> IF s = "Ann" THEN "ann" ELSE s]

MCDestination ==
  [s \in Spellings |-> CASE s \in {"+1 2", "+12"} -> "phone"
                         [] s \in {"Ann", "ann"} -> "mailbox"
                         [] OTHER -> NoDestination]

MCLimit == [b \in Buckets |-> IF b = "OtpDispatchPerClient" THEN 2 ELSE 1]

MCWindow == [b \in Buckets |-> IF b = "OtpDispatchPerClient" THEN 3 ELSE 2]

MCSymmetry == Permutations(Handlers)
=============================================================================
