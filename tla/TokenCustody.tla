---------------------------- MODULE TokenCustody ----------------------------
(***************************************************************************)
(* What signing in promises about access tokens, with no tabs, handlers or *)
(* requests in sight: a token is handed out for one use, as the session or *)
(* as what waits for the second factor; a token that stands for two        *)
(* factors was earned with one that was handed out and is live; and the    *)
(* browser's cookies only ever hold tokens handed out for that use, and    *)
(* never get both at once.                                                 *)
(***************************************************************************)
CONSTANTS
  Tokens,   \* access tokens
  None      \* no token

VARIABLES
  level,    \* level[a]: "unminted", "aal1", "aal2" or "expired"
  parked,   \* tokens handed out to wait for the second factor
  issued,   \* tokens handed out as session
  session,  \* the browser's session
  pending   \* the browser's token that waits for the second factor

vars == <<level, parked, issued, session, pending>>

Init ==
  /\ level = [a \in Tokens |-> "unminted"]
  /\ parked = {}
  /\ issued = {}
  /\ session = None
  /\ pending = None

Live(a) == level[a] \in {"aal1", "aal2"}

Mint(a, aal) == level[a] = "unminted" /\ level' = [level EXCEPT ![a] = aal]

(* A password or a one-time code is right. *)
Grant(a) == Mint(a, "aal1") /\ UNCHANGED <<parked, issued, session, pending>>

(* A second factor is wanted. *)
Park(a) ==
  /\ level[a] = "aal1"
  /\ a \notin issued
  /\ parked' = parked \cup {a}
  /\ UNCHANGED <<level, issued, session, pending>>

(* The second factor of a login is right. *)
StepUp(a) ==
  /\ \E b \in parked : Live(b)
  /\ Mint(a, "aal2")
  /\ UNCHANGED <<parked, issued, session, pending>>

(* A login is complete. *)
Issue(a) ==
  /\ Live(a)
  /\ a \notin parked
  /\ issued' = issued \cup {a}
  /\ UNCHANGED <<level, parked, session, pending>>

(* A session proves a factor, and is replaced. *)
Upgrade(a) ==
  /\ \E b \in issued : Live(b)
  /\ Mint(a, "aal2")
  /\ issued' = issued \cup {a}
  /\ UNCHANGED <<parked, session, pending>>

Expire(a) ==
  /\ Live(a)
  /\ level' = [level EXCEPT ![a] = "expired"]
  /\ UNCHANGED <<parked, issued, session, pending>>

(* The browser takes, keeps or loses its tokens. *)
Store ==
  /\ session' \in issued \cup {None, session}
  /\ pending' \in parked \cup {None, pending}
  /\ session' \in {None, session} \/ pending' \in {None, pending}
  /\ UNCHANGED <<level, parked, issued>>

Next ==
  \/ Store
  \/ \E a \in Tokens :
       Grant(a) \/ Park(a) \/ StepUp(a) \/ Issue(a) \/ Upgrade(a) \/ Expire(a)

Spec == Init /\ [][Next]_vars
=============================================================================
