----------------------------- MODULE UserLedger -----------------------------
(***************************************************************************)
(* What the customer tables promise, with no statements in sight: a user's *)
(* preferences are always one whole form the user submitted, a session or  *)
(* a notification is marked only at its owner's request and never unmarked,*)
(* and a user is shown only rows of their own.                             *)
(***************************************************************************)

CONSTANTS
  Subjects,   \* Supabase users
  Forms,      \* whole preference forms
  NoRow,      \* no preferences are stored
  Items,      \* session and notification rows
  Owner       \* Owner[i]: the subject whose row i is

VARIABLES
  submitted,  \* <<subject, form>>: the preference forms submitted
  asked,      \* <<subject, item>>: the rows each subject has asked to mark
  prefs,      \* prefs[s]: the form in force
  rows,       \* rows[i]: "absent", "unmarked" or "marked"
  seen        \* <<subject, item>>: the rows shown to each subject

vars == <<submitted, asked, prefs, rows, seen>>

Init ==
  /\ submitted = {}
  /\ asked = {}
  /\ prefs = [s \in Subjects |-> NoRow]
  /\ rows = [i \in Items |-> "absent"]
  /\ seen = {}

Submit(s, f) ==
  /\ submitted' = submitted \cup {<<s, f>>}
  /\ UNCHANGED <<asked, prefs, rows, seen>>

Ask(s) ==
  /\ asked' \in SUBSET (asked \cup ({s} \X Items))
  /\ asked \subseteq asked'
  /\ UNCHANGED <<submitted, prefs, rows, seen>>

Save(s, f) ==
  /\ <<s, f>> \in submitted
  /\ prefs' = [prefs EXCEPT ![s] = f]
  /\ UNCHANGED <<submitted, asked, rows, seen>>

Arrive(i) ==
  /\ rows[i] = "absent"
  /\ rows' = [rows EXCEPT ![i] = "unmarked"]
  /\ UNCHANGED <<submitted, asked, prefs, seen>>

Mark(i) ==
  /\ <<Owner[i], i>> \in asked
  /\ rows[i] # "absent"
  /\ rows' = [rows EXCEPT ![i] = "marked"]
  /\ UNCHANGED <<submitted, asked, prefs, seen>>

Show(s) ==
  /\ seen' \in SUBSET (seen \cup ({s} \X {i \in Items : Owner[i] = s /\ rows[i] # "absent"}))
  /\ seen \subseteq seen'
  /\ UNCHANGED <<submitted, asked, prefs, rows>>

Next ==
  \/ \E s \in Subjects, f \in Forms : Submit(s, f) \/ Save(s, f)
  \/ \E s \in Subjects : Ask(s) \/ Show(s)
  \/ \E i \in Items : Arrive(i) \/ Mark(i)

Spec == Init /\ [][Next]_vars
=============================================================================
