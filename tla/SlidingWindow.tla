--------------------------- MODULE SlidingWindow ---------------------------
(***************************************************************************)
(* What the limiter promises, with no map, ceiling or pruning in sight: an *)
(* attempt is admitted while fewer than the budget were admitted in the    *)
(* window that ends now, a denial says within a second when that changes,  *)
(* and otherwise only an entry of which nothing counts is turned away,     *)
(* when admissions of MaxTracked others count.                             *)
(***************************************************************************)
EXTENDS Integers, FiniteSets

CONSTANTS
  Entries,         \* what a budget is kept for
  Budget,          \* Budget[x]: admissions allowed in one window
  Span,            \* Span[x]: the window, in ticks
  TicksPerSecond,
  MaxTracked

VARIABLES
  now,        \* the clock
  admitted,   \* admitted[x]: every admission of x
  decision    \* the latest decision

vars == <<now, admitted, decision>>

Init ==
  /\ now = 0
  /\ admitted = [x \in Entries |-> {}]
  /\ decision = [about |-> "nothing"]

(* What still counts of x. *)
Counting(x) == {e \in admitted[x] : now - e.at < Span[x]}

Spent(x) == Cardinality(Counting(x)) >= Budget[x]

(* How long until the oldest admission that counts does not. *)
Left(x) == CHOOSE n \in {Span[x] - (now - e.at) : e \in Counting(x)} :
             \A e \in Counting(x) : n <= Span[x] - (now - e.at)

Deny(x, seconds) ==
  /\ decision' = [about |-> "denied", key |-> x, at |-> now, retry_after_secs |-> seconds]
  /\ UNCHANGED <<now, admitted>>

Admit(x) ==
  /\ ~Spent(x)
  /\ admitted' = [admitted EXCEPT ![x] = @ \cup {[at |-> now, n |-> Cardinality(@)]}]
  /\ decision' = [about |-> "allowed", key |-> x, at |-> now]
  /\ UNCHANGED now

DenySpent(x) ==
  /\ Spent(x)
  /\ \E seconds \in 1..Span[x] :
       /\ seconds * TicksPerSecond - Left(x) < TicksPerSecond
       /\ Left(x) - seconds * TicksPerSecond < TicksPerSecond
       /\ Deny(x, seconds)

Overloaded(x) == Cardinality({y \in Entries \ {x} : Counting(y) # {}}) >= MaxTracked

Refuse(x) ==
  /\ Counting(x) = {}
  /\ Overloaded(x)
  /\ Deny(x, Span[x] \div TicksPerSecond)

Tick ==
  /\ now' = now + 1
  /\ UNCHANGED <<admitted, decision>>

Next == Tick \/ \E x \in Entries : Admit(x) \/ DenySpent(x) \/ Refuse(x)

Spec == Init /\ [][Next]_vars
=============================================================================
