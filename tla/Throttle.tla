------------------------------ MODULE Throttle ------------------------------
(***************************************************************************)
(* The sliding-window limiter of the login surface (src/throttle.rs): one  *)
(* process-wide map from (bucket, key) to the instants admitted in the     *)
(* bucket's window, behind a mutex.  The clock is read with the mutex      *)
(* held, so a check is one atomic step and instants never decrease.        *)
(*                                                                         *)
(* An instant is a number of ticks; a Vec<Instant> is the set of its       *)
(* admissions, numbered so that two at one instant differ (the code only   *)
(* uses the length, the oldest one and which are live).                    *)
(***************************************************************************)
EXTENDS Integers, FiniteSets

CONSTANTS
  Buckets,         \* the budgets a handler can charge
  Limit,           \* Limit[b]: admissions allowed in one window
  Window,          \* Window[b]: the window, in ticks
  Spellings,       \* what callers pass as the key
  Keys,            \* what a key is once trimmed and lower-cased
  Normalised,      \* the key of each spelling
  TicksPerSecond,  \* resolution of the clock, of which Retry-After keeps whole seconds
  MaxTracked,      \* MAX_TRACKED_KEYS
  MaxTime          \* bound on the clock

ASSUME BudgetAssumption ==
  /\ Limit \in [Buckets -> Nat \ {0}]
  /\ Window \in [Buckets -> Nat \ {0}]
  /\ Normalised \in [Spellings -> Keys]

ASSUME BoundAssumption ==
  /\ TicksPerSecond \in Nat \ {0}
  /\ MaxTracked \in Nat \ {0}
  /\ MaxTime \in Nat
  /\ \A b \in Buckets : Window[b] % TicksPerSecond = 0   \* Duration::from_secs

VARIABLES
  now,        \* Instant::now()
  windows,    \* the map: entry key -> events
  admitted,   \* history: every admission of an entry key
  decision    \* the latest Decision, with what it was about

vars == <<now, windows, admitted, decision>>

Time == 0..MaxTime

Event == [at: Time, n: Nat]

EntryKeys == Buckets \X Keys

EntryKey(b, s) == <<b, Normalised[s]>>

NoDecision == [about |-> "nothing"]

Init ==
  /\ now = 0
  /\ windows = [x \in {} |-> {}]
  /\ admitted = [x \in EntryKeys |-> {}]
  /\ decision = NoDecision

(* Mutant: an event that is exactly one window old still counts. *)
LiveInclusive(x, events) == {e \in events : now - e.at <= Window[x[1]]}

(* retain(): what has not aged out of the window of x's bucket. *)
Live(x, events) == {e \in events : now - e.at < Window[x[1]]}

(***************************************************************************)
(* prune_expired: at the ceiling, keys without a live event are dropped    *)
(* to make room for a new key.                                             *)
(***************************************************************************)
(* Mutant: every key is evicted, live or not. *)
EvictAll == [x \in {} |-> {}]

Pruned ==
  [x \in {y \in DOMAIN windows : Live(y, windows[y]) # {}} |-> Live(x, windows[x])]

(* Mutant: the ceiling is tested with > instead of >=. *)
AtCeilingOffByOne(x) == Cardinality(DOMAIN windows) > MaxTracked /\ x \notin DOMAIN windows

AtCeiling(x) == Cardinality(DOMAIN windows) >= MaxTracked /\ x \notin DOMAIN windows

MakeRoom(x) == IF AtCeiling(x) THEN Pruned ELSE windows

(* state.entry(x).or_default(), then retain. *)
Entry(x) == IF x \in DOMAIN MakeRoom(x) THEN Live(x, MakeRoom(x)[x]) ELSE {}

SetEntry(x, events) ==
  [y \in DOMAIN MakeRoom(x) \cup {x} |-> IF y = x THEN events ELSE MakeRoom(x)[y]]

RefusesNewKey(x) == AtCeiling(x) /\ Cardinality(DOMAIN Pruned) >= MaxTracked

OverBudget(x) == Cardinality(Entry(x)) >= Limit[x[1]]

Oldest(events) == CHOOSE t \in {e.at : e \in events} : \A e \in events : t <= e.at

AtLeast1(n) == IF n < 1 THEN 1 ELSE n

Newest(events) == CHOOSE t \in {e.at : e \in events} : \A e \in events : e.at <= t

(* Mutant: the newest event governs. *)
RetryAfterOfNewest(x) ==
  AtLeast1((Window[x[1]] - (now - Newest(Entry(x)))) \div TicksPerSecond)

(* Mutant: the subtraction is the wrong way round. *)
RetryAfterSwapped(x) ==
  ((now - Oldest(Entry(x))) - Window[x[1]]) \div TicksPerSecond

(* Duration::as_secs drops the fraction of a second; a denial never says 0. *)
RetryAfter(x) ==
  AtLeast1((Window[x[1]] - (now - Oldest(Entry(x)))) \div TicksPerSecond)

Deny(x, seconds) ==
  decision' = [about |-> "denied", key |-> x, at |-> now, retry_after_secs |-> seconds]

-----------------------------------------------------------------------------
(* check(bucket, key): a new key that finds the map full of live keys. *)
RefuseNewKey(b, s) ==
  LET x == EntryKey(b, s) IN
  /\ RefusesNewKey(x)
  /\ windows' = Pruned
  /\ Deny(x, Window[b] \div TicksPerSecond)
  /\ UNCHANGED <<now, admitted>>

(* check(bucket, key): the budget of the window is spent. *)
DenyOverBudget(b, s) ==
  LET x == EntryKey(b, s) IN
  /\ ~RefusesNewKey(x)
  /\ OverBudget(x)
  /\ windows' = SetEntry(x, Entry(x))
  /\ Deny(x, RetryAfter(x))
  /\ UNCHANGED <<now, admitted>>

(* check(bucket, key): the attempt is counted and may proceed. *)
Admit(b, s) ==
  LET x == EntryKey(b, s)
      event == [at |-> now, n |-> Cardinality(admitted[x])]
  IN
  /\ ~RefusesNewKey(x)
  /\ ~OverBudget(x)
  /\ windows' = SetEntry(x, Entry(x) \cup {event})
  /\ admitted' = [admitted EXCEPT ![x] = @ \cup {event}]
  /\ decision' = [about |-> "allowed", key |-> x, at |-> now]
  /\ UNCHANGED now

Check(b, s) == RefuseNewKey(b, s) \/ DenyOverBudget(b, s) \/ Admit(b, s)

Tick ==
  /\ now < MaxTime
  /\ now' = now + 1
  /\ UNCHANGED <<windows, admitted, decision>>

Next == Tick \/ \E b \in Buckets, s \in Spellings : Check(b, s)

Spec == Init /\ [][Next]_vars

-----------------------------------------------------------------------------
Decisions ==
  {NoDecision}
    \cup [about: {"allowed"}, key: EntryKeys, at: Time]
    \cup [about: {"denied"}, key: EntryKeys, at: Time, retry_after_secs: Nat]

(* The clock, the map, the history and the latest decision are well formed. *)
TypeOK ==
  /\ now \in Time
  /\ DOMAIN windows \subseteq EntryKeys
  /\ windows \in [DOMAIN windows -> SUBSET Event]
  /\ admitted \in [EntryKeys -> SUBSET Event]
  /\ decision \in Decisions

(***************************************************************************)
(* Every stretch of time as long as a bucket's window sees at most the     *)
(* bucket's limit of admissions of one key: ageing, the ceiling on tracked *)
(* keys and the pruning that makes room never give a key a fresh budget.   *)
(***************************************************************************)
InStretch(x, start) ==
  {e \in admitted[x] : start <= e.at /\ e.at < start + Window[x[1]]}

BudgetHonoured ==
  \A x \in EntryKeys, start \in Time : Cardinality(InStretch(x, start)) <= Limit[x[1]]

(* However many keys are tried, the map never tracks more than the ceiling. *)
TrackedKeysBounded == Cardinality(DOMAIN windows) <= MaxTracked

(***************************************************************************)
(* Nobody is turned away without cause: a denial means that the key has    *)
(* used its whole budget within the window that ends now, or that it is a  *)
(* new key and as many others as the map tracks were admitted recently.    *)
(***************************************************************************)
RecentlyAdmitted(x) == {e \in admitted[x] : decision.at - e.at < Window[x[1]]}

DenialJustified ==
  decision.about = "denied" =>
    LET x == decision.key IN
    \/ Cardinality(RecentlyAdmitted(x)) = Limit[x[1]]
    \/ Cardinality({y \in EntryKeys \ {x} : RecentlyAdmitted(y) # {}}) >= MaxTracked

(***************************************************************************)
(* What the doc of Decision says: retry_after_secs is how long it takes    *)
(* until the oldest event in the window ages out, so whoever waits that    *)
(* long finds it gone.                                                     *)
(***************************************************************************)
RetryAfterOutlastsOldest ==
  decision.about = "denied" =>
    \A e \in RecentlyAdmitted(decision.key) :
      e.at = Oldest(RecentlyAdmitted(decision.key)) =>
        decision.at + decision.retry_after_secs * TicksPerSecond - e.at
          >= Window[decision.key[1]]

(***************************************************************************)
(* The map, with its ceiling and its pruning, decides as the ideal limiter *)
(* does that remembers everything (SlidingWindow), and a denial is wrong   *)
(* about the time left by less than a second.                              *)
(***************************************************************************)
Ideal ==
  INSTANCE SlidingWindow
  WITH Entries <- EntryKeys,
       Budget <- [x \in EntryKeys |-> Limit[x[1]]],
       Span <- [x \in EntryKeys |-> Window[x[1]]]

ImplementsSlidingWindow == Ideal!Spec
=============================================================================
