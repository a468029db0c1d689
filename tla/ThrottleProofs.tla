--------------------------- MODULE ThrottleProofs ---------------------------
(***************************************************************************)
(* Proofs about Throttle for any buckets, limits, windows, keys, ceiling   *)
(* and length of time.  The map forgets: the invariant says that it never  *)
(* forgets an admission that still counts (Remembers), so what a check     *)
(* sees of a key is exactly what was admitted of it within the window.     *)
(***************************************************************************)
EXTENDS Throttle, FiniteSetTheorems, WellFoundedInduction, TLAPS

(* What still counts of x at the present instant. *)
Counting(x) == {e \in admitted[x] : now - e.at < Window[x[1]]}

(* The history grows by fresh, numbered events, none of them in the future. *)
HistoryOK ==
  \A x \in EntryKeys :
    /\ IsFiniteSet(admitted[x])
    /\ \A e \in admitted[x] : e.at <= now /\ e.n < Cardinality(admitted[x])

(* The map holds every admission that still counts, and nothing that was not admitted. *)
Remembers ==
  \A x \in EntryKeys :
    /\ Counting(x) # {} => x \in DOMAIN windows
    /\ x \in DOMAIN windows => Counting(x) \subseteq windows[x] /\ windows[x] \subseteq admitted[x]

Bounded == IsFiniteSet(DOMAIN windows) /\ TrackedKeysBounded

IInv == TypeOK /\ HistoryOK /\ Remembers /\ Bounded /\ BudgetHonoured /\ DenialJustified

-----------------------------------------------------------------------------
(* What a caller asks about is one of the entry keys, of the bucket it names. *)
LEMMA EntryKeyType ==
  ASSUME NEW b \in Buckets, NEW s \in Spellings
  PROVE  EntryKey(b, s) \in EntryKeys /\ EntryKey(b, s)[1] = b
BY BudgetAssumption DEF EntryKey, EntryKeys

(* A set below a bound stays within it when one element is added. *)
LEMMA AddWithinBound ==
  ASSUME NEW S, IsFiniteSet(S), NEW x, NEW n \in Nat, Cardinality(S) < n
  PROVE  IsFiniteSet(S \cup {x}) /\ Cardinality(S \cup {x}) <= n
<1>1. Cardinality(S) \in Nat
  BY FS_CardinalityType
<1> QED BY <1>1, FS_AddElement

(* A nonempty set of naturals has a least element. *)
LEMMA NatHasLeast ==
  ASSUME NEW T \in SUBSET Nat, T # {}
  PROVE  \E t \in T : \A u \in T : t <= u
<1>1. IsWellFoundedOn(OpToRel(<, Nat), Nat)
  BY NatLessThanWellFounded
<1>2. PICK t \in T : \A u \in T : ~(<<u, t>> \in OpToRel(<, Nat))
  BY <1>1, WFMin
<1>3. \A u \in T : ~(u < t)
  BY <1>2 DEF OpToRel
<1> QED BY <1>3

(* Pruning makes room without touching what counts. *)
LEMMA PrunedFacts ==
  ASSUME TypeOK, Remembers, Bounded
  PROVE  /\ DOMAIN Pruned \subseteq DOMAIN windows
         /\ IsFiniteSet(DOMAIN Pruned) /\ Cardinality(DOMAIN Pruned) <= MaxTracked
         /\ Pruned \in [DOMAIN Pruned -> SUBSET Event]
         /\ \A x \in DOMAIN Pruned : Pruned[x] = Counting(x) /\ Counting(x) # {}
         /\ \A x \in EntryKeys : Counting(x) # {} => x \in DOMAIN Pruned
<1>1. \A x \in DOMAIN windows : Live(x, windows[x]) = Counting(x)
  BY DEF Live, Counting, Remembers, TypeOK
<1>2. DOMAIN Pruned = {x \in DOMAIN windows : Counting(x) # {}}
  BY <1>1 DEF Pruned
<1>3. \A x \in DOMAIN Pruned : Pruned[x] = Counting(x)
  BY <1>1, <1>2 DEF Pruned
<1>4. IsFiniteSet(DOMAIN Pruned) /\ Cardinality(DOMAIN Pruned) <= Cardinality(DOMAIN windows)
  BY <1>2, FS_Subset DEF Bounded
<1>5. Cardinality(DOMAIN Pruned) <= MaxTracked
  BY <1>4, FS_CardinalityType, BoundAssumption DEF Bounded, TrackedKeysBounded
<1>6. Pruned \in [DOMAIN Pruned -> SUBSET Event]
  <2>1. \A x \in DOMAIN Pruned : Counting(x) \subseteq Event
    BY <1>2 DEF Counting, TypeOK
  <2> QED BY <1>3, <2>1 DEF Pruned
<1> QED BY <1>2, <1>3, <1>4, <1>5, <1>6 DEF Remembers

(* A check sees of its key exactly the admissions that count. *)
LEMMA EntryIsCounting ==
  ASSUME TypeOK, Remembers, Bounded, NEW x \in EntryKeys
  PROVE  Entry(x) = Counting(x)
<1>1. CASE AtCeiling(x)
  <2>1. MakeRoom(x) = Pruned /\ x \notin DOMAIN windows
    BY <1>1 DEF MakeRoom, AtCeiling
  <2> QED BY <2>1, PrunedFacts DEF Entry, Remembers
<1>2. CASE ~AtCeiling(x)
  BY <1>2 DEF MakeRoom, Entry, Live, Counting, Remembers, TypeOK
<1> QED BY <1>1, <1>2

(* An entry is added or replaced; every other key keeps what counts. *)
LEMMA SetEntryFacts ==
  ASSUME TypeOK, Remembers, Bounded, NEW x \in EntryKeys, ~RefusesNewKey(x),
         NEW events \in SUBSET Event, windows' = SetEntry(x, events)
  PROVE  /\ DOMAIN windows' \subseteq EntryKeys /\ x \in DOMAIN windows'
         /\ windows' \in [DOMAIN windows' -> SUBSET Event]
         /\ windows'[x] = events
         /\ \A y \in EntryKeys \ {x} :
              /\ Counting(y) # {} => y \in DOMAIN windows'
              /\ y \in DOMAIN windows' =>
                   y \in DOMAIN windows /\ Counting(y) \subseteq windows'[y]
                     /\ windows'[y] \subseteq windows[y]
         /\ IsFiniteSet(DOMAIN windows') /\ Cardinality(DOMAIN windows') <= MaxTracked
<1>1. \A y \in DOMAIN windows : Counting(y) \subseteq windows[y]
  BY DEF Remembers, TypeOK
<1>2. CASE AtCeiling(x)
  <2>1. MakeRoom(x) = Pruned
    BY <1>2 DEF MakeRoom
  <2>2. DOMAIN windows' = DOMAIN Pruned \cup {x}
    BY <2>1 DEF SetEntry
  <2>3. Cardinality(DOMAIN Pruned) < MaxTracked
    BY <1>2, PrunedFacts, FS_CardinalityType, BoundAssumption DEF RefusesNewKey
  <2>4. IsFiniteSet(DOMAIN windows') /\ Cardinality(DOMAIN windows') <= MaxTracked
    <3>1. IsFiniteSet(DOMAIN Pruned) /\ MaxTracked \in Nat
      BY PrunedFacts, BoundAssumption
    <3> QED BY <2>2, <2>3, <3>1, AddWithinBound
  <2>5. windows'[x] = events /\ \A y \in DOMAIN Pruned \ {x} : windows'[y] = Pruned[y]
    BY <2>1, <2>2 DEF SetEntry
  <2>6. windows' \in [DOMAIN windows' -> SUBSET Event]
    <3>1. \A y \in DOMAIN Pruned : Pruned[y] \in SUBSET Event
      BY PrunedFacts
    <3>2. windows' = [y \in DOMAIN Pruned \cup {x} |-> IF y = x THEN events ELSE Pruned[y]]
      BY <2>1 DEF SetEntry
    <3> QED BY <3>1, <3>2
  <2> QED BY <1>1, <2>2, <2>4, <2>5, <2>6, PrunedFacts DEF TypeOK
<1>3. CASE ~AtCeiling(x)
  <2>1. MakeRoom(x) = windows
    BY <1>3 DEF MakeRoom
  <2>2. DOMAIN windows' = DOMAIN windows \cup {x}
    BY <2>1 DEF SetEntry
  <2>3. IsFiniteSet(DOMAIN windows') /\ Cardinality(DOMAIN windows') <= MaxTracked
    <3>1. CASE x \in DOMAIN windows
      BY <2>2, <3>1 DEF Bounded, TrackedKeysBounded
    <3>2. CASE x \notin DOMAIN windows
      <4>1. Cardinality(DOMAIN windows) < MaxTracked
        <5>1. Cardinality(DOMAIN windows) \in Nat
          BY FS_CardinalityType DEF Bounded
        <5> QED BY <1>3, <3>2, <5>1, BoundAssumption DEF AtCeiling
      <4> QED BY <2>2, <4>1, AddWithinBound, BoundAssumption DEF Bounded
    <3> QED BY <3>1, <3>2
  <2>4. windows'[x] = events /\ \A y \in DOMAIN windows \ {x} : windows'[y] = windows[y]
    BY <2>1, <2>2 DEF SetEntry
  <2>5. windows' \in [DOMAIN windows' -> SUBSET Event]
    BY <2>1, <2>2, <2>4 DEF SetEntry, TypeOK
  <2> QED BY <1>1, <2>2, <2>3, <2>4, <2>5 DEF TypeOK, Remembers
<1> QED BY <1>2, <1>3

(* No more than the limit counts at any instant. *)
LEMMA CountingWithinLimit ==
  ASSUME TypeOK, HistoryOK, BudgetHonoured, NEW x \in EntryKeys
  PROVE  IsFiniteSet(Counting(x)) /\ Cardinality(Counting(x)) <= Limit[x[1]]
<1>1. PICK start \in Time : Counting(x) = InStretch(x, start)
  <2> DEFINE start == IF now - Window[x[1]] + 1 < 0 THEN 0 ELSE now - Window[x[1]] + 1
  <2>1. x[1] \in Buckets /\ Window[x[1]] \in Nat \ {0}
    BY BudgetAssumption DEF EntryKeys
  <2>2. start \in Time
    BY <2>1, BoundAssumption DEF TypeOK, Time
  <2>3. \A e \in admitted[x] : e.at \in Time /\ e.at <= now
    BY DEF TypeOK, HistoryOK, Event
  <2>4. \A e \in admitted[x] :
          now - e.at < Window[x[1]] <=> start <= e.at /\ e.at < start + Window[x[1]]
    BY <2>1, <2>3, BoundAssumption DEF TypeOK, Time
  <2> QED BY <2>2, <2>4 DEF Counting, InStretch
<1>2. IsFiniteSet(Counting(x))
  BY FS_Subset DEF Counting, HistoryOK
<1> QED BY <1>1, <1>2 DEF BudgetHonoured

-----------------------------------------------------------------------------
(* The initial state satisfies the invariant. *)
LEMMA InitIInv == Init => IInv
<1> SUFFICES ASSUME Init PROVE IInv
  OBVIOUS
<1> USE BudgetAssumption, BoundAssumption, FS_EmptySet
<1>1. TypeOK
  BY DEF Init, TypeOK, Decisions, Time
<1>2. HistoryOK /\ Remembers /\ Bounded
  BY DEF Init, HistoryOK, Remembers, Bounded, TrackedKeysBounded, Counting
<1>3. BudgetHonoured
  <2>1. \A x \in EntryKeys, start \in Time : InStretch(x, start) = {}
    BY DEF Init, InStretch
  <2>2. \A x \in EntryKeys : 0 <= Limit[x[1]]
    BY DEF EntryKeys
  <2> QED BY <2>1, <2>2 DEF BudgetHonoured
<1>4. DenialJustified
  BY DEF Init, DenialJustified, NoDecision
<1> QED BY <1>1, <1>2, <1>3, <1>4 DEF IInv

(* Time passing makes admissions count no more, never again. *)
LEMMA TickStep == IInv /\ Tick => IInv'
<1> SUFFICES ASSUME IInv, Tick PROVE IInv'
  OBVIOUS
<1> USE DEF IInv
<1>1. TypeOK'
  BY BoundAssumption DEF Tick, TypeOK, Time
<1>2. HistoryOK'
  BY BoundAssumption DEF Tick, HistoryOK, TypeOK, Time, Event
<1>3. Remembers'
  <2>1. \A x \in EntryKeys : Counting(x)' \subseteq Counting(x)
    <3>1. now' = now + 1 /\ admitted' = admitted /\ now \in Int
      BY DEF Tick, TypeOK, Time
    <3>2. ASSUME NEW x \in EntryKeys, NEW e \in Counting(x)'
          PROVE  e \in Counting(x)
      <4>1. e \in admitted[x] /\ now' - e.at < Window[x[1]]
        BY <3>1, <3>2 DEF Counting
      <4>2. e.at \in Nat /\ Window[x[1]] \in Nat
        BY <4>1, BudgetAssumption DEF TypeOK, Event, Time, EntryKeys
      <4> QED BY <3>1, <4>1, <4>2 DEF Counting
    <3> QED BY <3>2
  <2> QED BY <2>1 DEF Tick, Remembers
<1>4. Bounded' /\ BudgetHonoured' /\ DenialJustified'
  BY DEF Tick, Bounded, TrackedKeysBounded, BudgetHonoured, InStretch, DenialJustified,
     RecentlyAdmitted
<1> QED BY <1>1, <1>2, <1>3, <1>4

(* A new key is refused only while as many others as the map tracks still count. *)
LEMMA RefuseStep ==
  ASSUME IInv, NEW b \in Buckets, NEW s \in Spellings, RefuseNewKey(b, s)
  PROVE  IInv'
<1> USE DEF IInv
<1> DEFINE x == EntryKey(b, s)
<1>1. x \in EntryKeys /\ x[1] = b
  BY BudgetAssumption DEF EntryKey, EntryKeys
<1>2. windows' = Pruned /\ now' = now /\ admitted' = admitted
  BY DEF RefuseNewKey
<1>3. decision' = [about |-> "denied", key |-> x, at |-> now,
                   retry_after_secs |-> Window[b] \div TicksPerSecond]
  BY DEF RefuseNewKey, Deny
<1>4. TypeOK'
  <2>1. Window[b] \div TicksPerSecond \in Nat
    BY BudgetAssumption, BoundAssumption
  <2>2. decision' \in Decisions
    BY <1>1, <1>3, <2>1 DEF Decisions, TypeOK
  <2> QED BY <1>2, <2>2, PrunedFacts DEF TypeOK, Time, Decisions, EntryKeys
<1>5. \A y \in EntryKeys : Counting(y)' = Counting(y)
  BY <1>2 DEF Counting
<1>6. HistoryOK' /\ BudgetHonoured'
  BY <1>2 DEF HistoryOK, BudgetHonoured, InStretch
<1>7. Remembers'
  <2>1. \A y \in EntryKeys : Counting(y) \subseteq admitted[y]
    BY DEF Counting
  <2> QED BY <1>2, <1>5, <2>1, PrunedFacts DEF Remembers
<1>8. Bounded'
  BY <1>2, PrunedFacts DEF Bounded, TrackedKeysBounded
<1>9. DenialJustified'
  <2> DEFINE busy == {y \in EntryKeys \ {x} : Counting(y) # {}}
  <2>1. x \notin DOMAIN windows /\ Cardinality(DOMAIN Pruned) >= MaxTracked
    BY DEF RefuseNewKey, RefusesNewKey, AtCeiling
  <2>2. busy = DOMAIN Pruned
    BY <2>1, PrunedFacts DEF TypeOK
  <2>3. \A y \in EntryKeys : RecentlyAdmitted(y)' = Counting(y)
    BY <1>2, <1>3 DEF RecentlyAdmitted, Counting
  <2>4. {y \in EntryKeys \ {x} : RecentlyAdmitted(y)' # {}} = busy
    BY <2>3
  <2> QED BY <1>3, <2>1, <2>2, <2>4 DEF DenialJustified
<1> QED BY <1>4, <1>6, <1>7, <1>8, <1>9

(* A denial for want of budget: the whole budget was admitted within the window. *)
LEMMA DenyStep ==
  ASSUME IInv, NEW b \in Buckets, NEW s \in Spellings, DenyOverBudget(b, s)
  PROVE  IInv'
<1> USE DEF IInv
<1>0. PICK x \in EntryKeys : x = EntryKey(b, s) /\ x[1] = b
  BY EntryKeyType
<1>1. /\ ~RefusesNewKey(x) /\ windows' = SetEntry(x, Counting(x))
      /\ Cardinality(Counting(x)) >= Limit[x[1]]
      /\ now' = now /\ admitted' = admitted
  BY <1>0, EntryIsCounting DEF DenyOverBudget, OverBudget
<1>2. decision' = [about |-> "denied", key |-> x, at |-> now, retry_after_secs |-> RetryAfter(x)]
  BY <1>0 DEF DenyOverBudget, Deny
<1>3. Counting(x) \in SUBSET Event /\ Counting(x) \subseteq admitted[x]
  BY DEF Counting, TypeOK
<1>4. IsFiniteSet(Counting(x)) /\ Cardinality(Counting(x)) <= Limit[x[1]]
  BY CountingWithinLimit
<1>5. \A y \in EntryKeys : Counting(y)' = Counting(y)
  BY <1>1 DEF Counting
<1>6. TypeOK'
  <2>1. RetryAfter(x) \in Nat
    <3>1. Counting(x) # {}
      <4>1. Limit[x[1]] \in Nat \ {0}
        BY <1>0, BudgetAssumption
      <4> QED BY <1>1, <4>1, FS_EmptySet
    <3>2. \A e \in Counting(x) : e.at \in Nat /\ e.at <= now /\ now \in Nat
      BY <1>3 DEF TypeOK, HistoryOK, Event, Time
    <3>3. now - Oldest(Counting(x)) < Window[x[1]] /\ Oldest(Counting(x)) \in Nat
      <4> DEFINE instants == {e.at : e \in Counting(x)}
      <4>1. instants \subseteq Nat /\ instants # {}
        BY <3>1, <3>2
      <4>2. PICK t \in instants : \A u \in instants : t <= u
        BY <4>1, NatHasLeast
      <4>3. Oldest(Counting(x)) \in instants
        BY <4>2 DEF Oldest
      <4> QED BY <3>2, <4>1, <4>3 DEF Counting
    <3>4. Window[x[1]] \in Nat /\ now \in Nat /\ TicksPerSecond \in Nat \ {0}
      BY <1>0, BudgetAssumption, BoundAssumption DEF TypeOK, Time
    <3>5. RetryAfter(x)
            = AtLeast1((Window[x[1]] - (now - Oldest(Counting(x)))) \div TicksPerSecond)
      BY EntryIsCounting DEF RetryAfter
    <3> DEFINE seconds == (Window[x[1]] - (now - Oldest(Counting(x)))) \div TicksPerSecond
    <3>6. seconds \in Int
      BY <3>3, <3>4
    <3> HIDE DEF seconds
    <3> QED BY <3>5, <3>6 DEF AtLeast1, seconds
  <2>2. decision' \in Decisions
    BY <1>2, <2>1 DEF Decisions, TypeOK
  <2> QED BY <1>1, <1>3, <2>2, SetEntryFacts DEF TypeOK, Time, Decisions, EntryKeys
<1>7. HistoryOK' /\ BudgetHonoured'
  BY <1>1 DEF HistoryOK, BudgetHonoured, InStretch
<1>8. Remembers'
  <2>1. x \in DOMAIN windows' /\ windows'[x] = Counting(x)
    BY <1>1, <1>3, SetEntryFacts
  <2>2. \A y \in EntryKeys \ {x} :
          /\ Counting(y) # {} => y \in DOMAIN windows'
          /\ y \in DOMAIN windows' =>
               y \in DOMAIN windows /\ Counting(y) \subseteq windows'[y]
                 /\ windows'[y] \subseteq windows[y]
    BY <1>1, <1>3, SetEntryFacts
  <2> QED BY <1>1, <1>3, <1>5, <2>1, <2>2 DEF Remembers
<1>9. Bounded'
  BY <1>1, <1>3, SetEntryFacts DEF Bounded, TrackedKeysBounded
<1>10. DenialJustified'
  <2>1. RecentlyAdmitted(x)' = Counting(x)
    BY <1>1, <1>2 DEF RecentlyAdmitted, Counting
  <2>2. Cardinality(Counting(x)) = Limit[x[1]]
    <3>1. Limit[x[1]] \in Nat /\ Cardinality(Counting(x)) \in Nat
      BY <1>0, <1>4, BudgetAssumption, FS_CardinalityType
    <3> QED BY <1>1, <1>4, <3>1
  <2> QED BY <1>0, <1>2, <2>1, <2>2 DEF DenialJustified
<1> QED BY <1>6, <1>7, <1>8, <1>9, <1>10

(***************************************************************************)
(* An admission: a stretch of time that contains the present instant       *)
(* contains no admission that has aged out, so what it contains was        *)
(* counted, and was below the limit.                                       *)
(***************************************************************************)
LEMMA AdmitStep ==
  ASSUME IInv, NEW b \in Buckets, NEW s \in Spellings, Admit(b, s)
  PROVE  IInv'
<1> USE DEF IInv
<1>0. PICK x \in EntryKeys : x = EntryKey(b, s) /\ x[1] = b
  BY EntryKeyType
<1>a. PICK event : event = [at |-> now, n |-> Cardinality(admitted[x])]
  OBVIOUS
<1>1. /\ ~RefusesNewKey(x) /\ windows' = SetEntry(x, Counting(x) \cup {event})
      /\ ~(Cardinality(Counting(x)) >= Limit[x[1]])
      /\ now' = now /\ admitted' = [admitted EXCEPT ![x] = @ \cup {event}]
  BY <1>0, <1>a, EntryIsCounting DEF Admit, OverBudget
<1>2. decision' = [about |-> "allowed", key |-> x, at |-> now]
  BY <1>0 DEF Admit
<1>3. IsFiniteSet(admitted[x]) /\ Cardinality(admitted[x]) \in Nat
  BY FS_CardinalityType DEF HistoryOK
<1>4. event \in Event /\ event.at = now /\ event.n = Cardinality(admitted[x])
  BY <1>3, <1>a DEF TypeOK, Event
<1>5. event \notin admitted[x]
  BY <1>3, <1>4 DEF HistoryOK
<1>6. /\ admitted'[x] = admitted[x] \cup {event}
      /\ \A y \in EntryKeys \ {x} : admitted'[y] = admitted[y]
  BY <1>1 DEF TypeOK
<1>7. Counting(x) \cup {event} \in SUBSET Event /\ Counting(x) \subseteq admitted[x]
  BY <1>4 DEF Counting, TypeOK
<1>8. TypeOK'
  <2>1. decision' \in Decisions
    BY <1>2 DEF Decisions, TypeOK
  <2>2. admitted' \in [EntryKeys -> SUBSET Event]
    BY <1>1, <1>4 DEF TypeOK
  <2> QED BY <1>1, <1>7, <2>1, <2>2, SetEntryFacts DEF TypeOK, Time, Decisions, EntryKeys
<1>9. HistoryOK'
  <2>1. IsFiniteSet(admitted'[x]) /\ Cardinality(admitted'[x]) = Cardinality(admitted[x]) + 1
    BY <1>3, <1>5, <1>6, FS_AddElement
  <2>2. \A e \in admitted'[x] : e.at <= now /\ e.n < Cardinality(admitted'[x])
    <3>1. \A e \in admitted[x] : e.n \in Nat /\ e.n < Cardinality(admitted[x]) /\ e.at <= now
      BY DEF HistoryOK, TypeOK, Event
    <3>2. now \in Nat
      BY DEF TypeOK, Time
    <3> QED BY <1>3, <1>4, <1>6, <2>1, <3>1, <3>2
  <2> QED BY <1>1, <1>6, <2>1, <2>2 DEF HistoryOK
<1>10. Counting(x)' = Counting(x) \cup {event} /\ \A y \in EntryKeys \ {x} : Counting(y)' = Counting(y)
  <2>1. now - event.at < Window[x[1]]
    <3>1. now \in Nat /\ Window[x[1]] \in Nat \ {0}
      BY <1>0, BudgetAssumption DEF TypeOK, Time
    <3> QED BY <1>4, <3>1
  <2> QED BY <1>1, <1>6, <2>1 DEF Counting
<1>11. Remembers'
  <2>1. x \in DOMAIN windows' /\ windows'[x] = Counting(x) \cup {event}
    BY <1>1, <1>7, SetEntryFacts
  <2>2. \A y \in EntryKeys \ {x} :
          /\ Counting(y) # {} => y \in DOMAIN windows'
          /\ y \in DOMAIN windows' =>
               y \in DOMAIN windows /\ Counting(y) \subseteq windows'[y]
                 /\ windows'[y] \subseteq windows[y]
    BY <1>1, <1>7, SetEntryFacts
  <2> QED BY <1>6, <1>7, <1>10, <2>1, <2>2 DEF Remembers
<1>12. Bounded'
  BY <1>1, <1>7, SetEntryFacts DEF Bounded, TrackedKeysBounded
<1>13. BudgetHonoured'
  <2> SUFFICES ASSUME NEW y \in EntryKeys, NEW start \in Time
               PROVE  Cardinality(InStretch(y, start)') <= Limit[y[1]]
    BY DEF BudgetHonoured
  <2>1. CASE y # x
    <3>1. InStretch(y, start)' = InStretch(y, start)
      BY <1>6, <2>1 DEF InStretch
    <3> QED BY <3>1 DEF BudgetHonoured
  <2>2. CASE y = x /\ ~(start <= now /\ now < start + Window[x[1]])
    <3>1. InStretch(y, start)' = InStretch(y, start)
      BY <1>4, <1>6, <2>2 DEF InStretch
    <3> QED BY <3>1 DEF BudgetHonoured
  <2>3. CASE y = x /\ start <= now /\ now < start + Window[x[1]]
    <3>1. \A e \in admitted[x] : start <= e.at => now - e.at < Window[x[1]]
      <4>1. \A e \in admitted[x] : e.at \in Nat
        BY DEF TypeOK, Event, Time
      <4>2. now \in Nat /\ start \in Nat /\ Window[x[1]] \in Nat
        BY <1>0, BudgetAssumption DEF TypeOK, Time
      <4> QED BY <2>3, <4>1, <4>2
    <3>2. InStretch(y, start)' \subseteq Counting(x) \cup {event}
      BY <1>6, <2>3, <3>1 DEF InStretch, Counting
    <3>3. IsFiniteSet(Counting(x)) /\ Cardinality(Counting(x)) < Limit[x[1]]
      <4>1. IsFiniteSet(Counting(x))
        BY CountingWithinLimit
      <4> QED BY <1>0, <1>1, <4>1, BudgetAssumption, FS_CardinalityType
    <3>4. /\ IsFiniteSet(Counting(x) \cup {event})
          /\ Cardinality(Counting(x) \cup {event}) <= Limit[x[1]]
      BY <1>0, <3>3, BudgetAssumption, AddWithinBound
    <3>5. /\ IsFiniteSet(InStretch(y, start)')
          /\ Cardinality(InStretch(y, start)') <= Cardinality(Counting(x) \cup {event})
      BY <3>2, <3>4, FS_Subset
    <3> QED BY <1>0, <2>3, <3>4, <3>5, BudgetAssumption, FS_CardinalityType
  <2> QED BY <2>1, <2>2, <2>3
<1>14. DenialJustified'
  BY <1>2 DEF DenialJustified
<1> QED BY <1>8, <1>9, <1>11, <1>12, <1>13, <1>14

(* Every step of the limiter keeps the invariant. *)
LEMMA LimiterStep ==
  ASSUME IInv, [Next]_vars
  PROVE  IInv'
<1>1. CASE Tick
  BY <1>1, TickStep
<1>2. ASSUME NEW b \in Buckets, NEW s \in Spellings, Check(b, s) PROVE IInv'
  BY <1>2, RefuseStep, DenyStep, AdmitStep DEF Check
<1>3. CASE UNCHANGED vars
  BY <1>3 DEF vars, IInv, TypeOK, HistoryOK, Remembers, Bounded, TrackedKeysBounded,
     BudgetHonoured, InStretch, DenialJustified, RecentlyAdmitted, Counting
<1> QED BY <1>1, <1>2, <1>3 DEF Next

(* Every reachable state of the limiter satisfies the inductive invariant. *)
THEOREM Invariance == Spec => []IInv
<1>1. Init => IInv
  BY InitIInv
<1>2. IInv /\ [Next]_vars => IInv'
  BY LimiterStep
<1> QED BY <1>1, <1>2, PTL DEF Spec

(* The clock, the map, the history and the latest decision stay well formed. *)
THEOREM TypeCorrect == Spec => []TypeOK
BY Invariance, PTL DEF IInv

(* No stretch of time as long as its window sees more admissions of a key than the limit. *)
THEOREM BudgetsAreHonoured == Spec => []BudgetHonoured
BY Invariance, PTL DEF IInv

(* The map never tracks more keys than the ceiling. *)
THEOREM TrackingIsBounded == Spec => []TrackedKeysBounded
BY Invariance, PTL DEF IInv, Bounded

(* Nobody is denied whose budget is not spent, unless the map is full of live keys. *)
THEOREM DenialsAreJustified == Spec => []DenialJustified
BY Invariance, PTL DEF IInv

-----------------------------------------------------------------------------
(***************************************************************************)
(* The refinement of SlidingWindow.  What the ideal limiter counts is what *)
(* the map remembers; the rest is the rounding of Retry-After.             *)
(***************************************************************************)
LEMMA SameCardinality == \A S : Ideal!Cardinality(S) = Cardinality(S)
BY DEF Ideal!Cardinality, Cardinality

LEMMA IdealFacts ==
  ASSUME NEW x \in EntryKeys
  PROVE  /\ Ideal!Counting(x) = Counting(x)
         /\ Ideal!Spent(x) <=> Cardinality(Counting(x)) >= Limit[x[1]]
<1>1. Ideal!Counting(x) = Counting(x)
  BY DEF Ideal!Counting, Counting
<1> QED BY <1>1, SameCardinality DEF Ideal!Spent

(* What division by the ticks of a second keeps and what it drops. *)
LEMMA Rounding ==
  ASSUME NEW a \in Nat, NEW d \in Nat \ {0}
  PROVE  LET q == a \div d IN q \in Nat /\ q * d <= a /\ a < q * d + d
OBVIOUS

(* The oldest admission that counts. *)
LEMMA OldestFacts ==
  ASSUME TypeOK, HistoryOK, NEW x \in EntryKeys, Counting(x) # {}
  PROVE  /\ Oldest(Counting(x)) \in {e.at : e \in Counting(x)}
         /\ \A e \in Counting(x) : Oldest(Counting(x)) <= e.at
<1> DEFINE instants == {e.at : e \in Counting(x)}
<1>1. instants \subseteq Nat /\ instants # {}
  BY DEF Counting, TypeOK, Event, Time
<1>2. PICK t \in instants : \A u \in instants : t <= u
  BY <1>1, NatHasLeast
<1> QED BY <1>2 DEF Oldest

(* The time left is counted from the oldest admission, and is within the window. *)
LEMMA LeftFacts ==
  ASSUME TypeOK, HistoryOK, NEW x \in EntryKeys, Counting(x) # {}
  PROVE  /\ Ideal!Left(x) = Window[x[1]] - (now - Oldest(Counting(x)))
         /\ Ideal!Left(x) \in 1..Window[x[1]]
<1>1. now \in Nat /\ Window[x[1]] \in Nat \ {0}
  BY BudgetAssumption DEF EntryKeys, TypeOK, Time
<1>2. \A e \in Counting(x) : e.at \in Nat /\ e.at <= now /\ now - e.at < Window[x[1]]
  BY DEF Counting, TypeOK, HistoryOK, Event, Time
<1>3. PICK o \in Counting(x) : o.at = Oldest(Counting(x)) /\ \A e \in Counting(x) : o.at <= e.at
  BY OldestFacts
<1> DEFINE lefts == {Window[x[1]] - (now - e.at) : e \in Counting(x)}
<1>4. Ideal!Left(x) = CHOOSE n \in lefts : \A e \in Counting(x) : n <= Window[x[1]] - (now - e.at)
  BY IdealFacts DEF Ideal!Left
<1>5. Window[x[1]] - (now - o.at) \in lefts
      /\ \A e \in Counting(x) : Window[x[1]] - (now - o.at) <= Window[x[1]] - (now - e.at)
  BY <1>1, <1>2, <1>3
<1>6. Ideal!Left(x) \in lefts
      /\ \A e \in Counting(x) : Ideal!Left(x) <= Window[x[1]] - (now - e.at)
  BY <1>4, <1>5
<1>7. Ideal!Left(x) = Window[x[1]] - (now - o.at)
  BY <1>1, <1>2, <1>3, <1>6
<1> QED BY <1>1, <1>2, <1>3, <1>7

(* Retry-After is within a second of the time left, and never beyond the window. *)
LEMMA RetryAfterFacts ==
  ASSUME TypeOK, HistoryOK, Remembers, Bounded, NEW x \in EntryKeys, Counting(x) # {}
  PROVE  /\ RetryAfter(x) \in 1..Window[x[1]]
         /\ RetryAfter(x) * TicksPerSecond - Ideal!Left(x) < TicksPerSecond
         /\ Ideal!Left(x) - RetryAfter(x) * TicksPerSecond < TicksPerSecond
<1>1. PICK left \in 1..Window[x[1]] : left = Ideal!Left(x)
  BY LeftFacts
<1>2. Window[x[1]] \in Nat \ {0} /\ TicksPerSecond \in Nat \ {0}
  BY BudgetAssumption, BoundAssumption DEF EntryKeys
<1>3. PICK d \in Nat \ {0} : d = TicksPerSecond
  BY <1>2
<1>4. left \in Nat \ {0}
  BY <1>1, <1>2
<1>5. PICK q \in Nat : q = left \div d /\ q * d <= left /\ left < q * d + d
  BY <1>4, Rounding
<1>6. RetryAfter(x) = AtLeast1(q)
  BY <1>1, <1>3, <1>5, LeftFacts, EntryIsCounting DEF RetryAfter
<1>7. CASE q < 1
  <2>1. q = 0 /\ RetryAfter(x) = 1
    BY <1>6, <1>7 DEF AtLeast1
  <2>2. left < d
    BY <1>4, <1>5, <2>1
  <2> QED BY <1>1, <1>2, <1>3, <1>4, <2>1, <2>2
<1>8. CASE q >= 1
  <2>1. RetryAfter(x) = q
    BY <1>6, <1>8 DEF AtLeast1
  <2>2. q <= q * d
    BY <1>3
  <2>3. q * d \in Nat
    BY <1>3
  <2> QED BY <1>1, <1>2, <1>3, <1>4, <1>5, <1>8, <2>1, <2>2, <2>3
<1> QED BY <1>7, <1>8

LEMMA IdealStep ==
  ASSUME IInv, [Next]_vars
  PROVE  [Ideal!Next]_(Ideal!vars)
<1> USE DEF IInv
<1>1. CASE Tick
  BY <1>1 DEF Tick, Ideal!Next, Ideal!Tick
<1>2. ASSUME NEW b \in Buckets, NEW s \in Spellings, RefuseNewKey(b, s)
      PROVE  \E x \in EntryKeys : Ideal!Refuse(x)
  <2>0. PICK x \in EntryKeys : x = EntryKey(b, s) /\ x[1] = b
    BY EntryKeyType
  <2>1. x \notin DOMAIN windows /\ Cardinality(DOMAIN Pruned) >= MaxTracked
    BY <1>2, <2>0 DEF RefuseNewKey, RefusesNewKey, AtCeiling
  <2>2. Counting(x) = {}
    BY <2>1 DEF Remembers
  <2>3. {y \in EntryKeys \ {x} : Ideal!Counting(y) # {}} = DOMAIN Pruned
    <3>1. \A y \in EntryKeys : Ideal!Counting(y) = Counting(y)
      BY IdealFacts
    <3>2. DOMAIN Pruned \subseteq EntryKeys \ {x}
      BY <2>1, PrunedFacts DEF TypeOK
    <3> QED BY <2>2, <3>1, <3>2, PrunedFacts
  <2>4. Ideal!Overloaded(x)
    <3>1. Cardinality({y \in EntryKeys \ {x} : Ideal!Counting(y) # {}}) >= MaxTracked
      BY <2>1, <2>3
    <3> QED BY <3>1, SameCardinality DEF Ideal!Overloaded
  <2> QED BY <1>2, <2>0, <2>2, <2>4, IdealFacts DEF RefuseNewKey, Deny, Ideal!Refuse, Ideal!Deny
<1>3. ASSUME NEW b \in Buckets, NEW s \in Spellings, DenyOverBudget(b, s)
      PROVE  \E x \in EntryKeys : Ideal!DenySpent(x)
  <2>0. PICK x \in EntryKeys : x = EntryKey(b, s) /\ x[1] = b
    BY EntryKeyType
  <2>1. Cardinality(Counting(x)) >= Limit[x[1]]
    BY <1>3, <2>0, EntryIsCounting DEF DenyOverBudget, OverBudget
  <2>2. Counting(x) # {}
    <3>1. Limit[x[1]] \in Nat \ {0}
      BY <2>0, BudgetAssumption
    <3> QED BY <2>1, <3>1, FS_EmptySet
  <2>3. Ideal!Deny(x, RetryAfter(x))
    BY <1>3, <2>0 DEF DenyOverBudget, Deny, Ideal!Deny
  <2> QED BY <2>1, <2>2, <2>3, IdealFacts, RetryAfterFacts DEF Ideal!DenySpent
<1>4. ASSUME NEW b \in Buckets, NEW s \in Spellings, Admit(b, s)
      PROVE  \E x \in EntryKeys : Ideal!Admit(x)
  <2>0. PICK x \in EntryKeys : x = EntryKey(b, s) /\ x[1] = b
    BY EntryKeyType
  <2>1. ~Ideal!Spent(x)
    BY <1>4, <2>0, EntryIsCounting, IdealFacts DEF Admit, OverBudget
  <2>2. admitted' = [admitted EXCEPT ![x] =
                       @ \cup {[at |-> now, n |-> Cardinality(admitted[x])]}]
    BY <1>4, <2>0 DEF Admit
  <2>3. decision' = [about |-> "allowed", key |-> x, at |-> now] /\ now' = now
    BY <1>4, <2>0 DEF Admit
  <2>4. Ideal!Admit(x)
    BY <2>1, <2>2, <2>3, SameCardinality DEF Ideal!Admit, TypeOK
  <2> QED BY <2>4
<1>5. CASE UNCHANGED vars
  BY <1>5 DEF vars, Ideal!vars
<1> QED BY <1>1, <1>2, <1>3, <1>4, <1>5 DEF Next, Check, Ideal!Next

(***************************************************************************)
(* However many keys compete for the map, the limiter decides as one that  *)
(* remembers every admission, turns away unspent keys only when the map is *)
(* full of live ones, and is less than a second wrong about Retry-After.   *)
(***************************************************************************)
THEOREM Refinement == Spec => ImplementsSlidingWindow
<1>1. Init => Ideal!Init
  BY DEF Init, NoDecision, Ideal!Init
<1> QED BY <1>1, IdealStep, Invariance, PTL DEF Spec, ImplementsSlidingWindow, Ideal!Spec
=============================================================================
