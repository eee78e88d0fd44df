------------------------------- MODULE Reminder -------------------------------
(***************************************************************************)
(* What the reminder service promises, without rows, runs, batches or       *)
(* clocks: a reminder is raised once; it is put to rest as sent only after  *)
(* it was posted, and as cancelled only when everything it is about has     *)
(* been seen since; nothing is ever un-raised, un-posted or reopened.       *)
(* Posting again is allowed: the service promises at least once.            *)
(***************************************************************************)
CONSTANT Nudges

VARIABLES
    raised,       \* reminders that exist
    vouched,      \* raised reminders whose every item has been seen since
    posted,       \* reminders posted at least once
    sent,         \* reminders put to rest as delivered
    cancelled     \* reminders put to rest as unnecessary

vars == <<raised, vouched, posted, sent, cancelled>>

Init ==
    /\ raised = {} /\ vouched = {} /\ posted = {} /\ sent = {} /\ cancelled = {}

\* The items may have turned up before the reminder is even written down.
Raise(n) ==
    /\ n \notin raised
    /\ raised' = raised \cup {n}
    /\ vouched' \in {vouched, vouched \cup {n}}
    /\ UNCHANGED <<posted, sent, cancelled>>

\* One sighting can settle the matter for several reminders.
Vouch(N) ==
    /\ vouched' = vouched \cup N
    /\ UNCHANGED <<raised, posted, sent, cancelled>>

Post(n) ==
    /\ n \in raised
    /\ posted' = posted \cup {n}
    /\ UNCHANGED <<raised, vouched, sent, cancelled>>

SettleSent(n) ==
    /\ n \in posted
    /\ sent' = sent \cup {n}
    /\ UNCHANGED <<raised, vouched, posted, cancelled>>

SettleCancelled(n) ==
    /\ n \in vouched
    /\ cancelled' = cancelled \cup {n}
    /\ UNCHANGED <<raised, vouched, posted, sent>>

Next ==
    \/ \E n \in Nudges : Raise(n) \/ Post(n) \/ SettleSent(n) \/ SettleCancelled(n)
    \/ \E N \in SUBSET raised : Vouch(N)

SafeSpec == Init /\ [][Next]_vars
===============================================================================
