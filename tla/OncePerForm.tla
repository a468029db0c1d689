---------------------------- MODULE OncePerForm ----------------------------
(***************************************************************************)
(* What a form of the portal, or a repeated call of its API, promises its  *)
(* user, with no attempts, services or lost answers in sight: it takes     *)
(* effect once at most, in the name of the account it was rendered for,    *)
(* with fields that were submitted with it and that the portal accepts,    *)
(* and the secret that comes of it is shown only when it has.              *)
(***************************************************************************)
EXTENDS Naturals

CONSTANTS Forms, Accounts, NoAccount, Contents, ValidContents

VARIABLES
  owner,   \* owner[f]: for whom f was rendered
  sent,    \* sent[f]: what was submitted with f
  times,   \* times[f]: how often f took effect
  record,  \* record[f]: who made what take effect with f, as <<account, content>>
  shown    \* the forms whose secret was shown

vars == <<owner, sent, times, record, shown>>

Init ==
  /\ owner = [f \in Forms |-> NoAccount]
  /\ sent = [f \in Forms |-> {}]
  /\ times = [f \in Forms |-> 0]
  /\ record = [f \in Forms |-> {}]
  /\ shown = {}

Render(f, a) ==
  /\ owner[f] = NoAccount
  /\ owner' = [owner EXCEPT ![f] = a]
  /\ UNCHANGED <<sent, times, record, shown>>

Submit(f, c) ==
  /\ owner[f] # NoAccount
  /\ sent' = [sent EXCEPT ![f] = @ \cup {c}]
  /\ UNCHANGED <<owner, times, record, shown>>

TakeEffect(f, c) ==
  /\ times[f] = 0
  /\ c \in sent[f]
  /\ times' = [times EXCEPT ![f] = 1]
  /\ record' = [record EXCEPT ![f] = {<<owner[f], c>>}]
  /\ UNCHANGED <<owner, sent, shown>>

Show(f) ==
  /\ times[f] = 1
  /\ shown' = shown \cup {f}
  /\ UNCHANGED <<owner, sent, times, record>>

Next ==
  \E f \in Forms :
    \/ \E a \in Accounts : Render(f, a)
    \/ \E c \in Contents : Submit(f, c)
    \/ \E c \in ValidContents : TakeEffect(f, c)
    \/ Show(f)

Spec == Init /\ [][Next]_vars
=============================================================================
