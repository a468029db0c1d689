----------------------------- MODULE MCThrottle -----------------------------
(***************************************************************************)
(* Two buckets that differ in limit and window, two keys one of which has  *)
(* two spellings, room for two of the four entries, and a clock that ticks *)
(* twice a second for longer than both windows.                            *)
(***************************************************************************)
EXTENDS Throttle

MCLimit == [b \in Buckets |-> IF b = "verify" THEN 2 ELSE 1]

MCWindow == [b \in Buckets |-> IF b = "verify" THEN 4 ELSE 2]

MCNormalised == [s \in Spellings |-> IF s = "Ann" THEN "ann" ELSE s]
=============================================================================
