------------------------ MODULE NotificationRegistry ------------------------
(***************************************************************************)
(* What the trigger builder promises (src/notification/notification.go):   *)
(* Apply and Drop each happen in one step or not at all, and a committed   *)
(* change of a row is announced by the notifications installed at that     *)
(* moment.  Notifications that share a name displace each other; to an     *)
(* application that uses such names only the last one is promised.         *)
(***************************************************************************)
CONSTANTS
    Notifs,
    Changes,        \* changes of single rows
    Promise,        \* Promise[n][c]: what n is to announce of change c
    Clashes,        \* pairs that share a name
    SameTrigger,    \* pairs that share a trigger: Drop of one drops both
    Nothing         \* no change has been made yet

VARIABLES
    installed,      \* the notifications the application can count on
    everInstalled,
    announced       \* the last change since Apply or Drop, and its messages

registryVars == <<installed, everInstalled, announced>>

ClashFree == \A n, m \in everInstalled : <<n, m>> \notin Clashes

Promised(c) == UNION {Promise[n][c] : n \in installed}

Silence == [change |-> Nothing, refused |-> FALSE, messages |-> {}]

Init ==
    /\ installed = {}
    /\ everInstalled = {}
    /\ announced = Silence

Apply(n) ==
    /\ installed' = {m \in installed : <<n, m>> \notin Clashes} \cup {n}
    /\ everInstalled' = everInstalled \cup {n}
    /\ announced' = Silence

Drop(n) ==
    /\ installed' = {m \in installed : m # n /\ <<n, m>> \notin SameTrigger}
    /\ announced' = Silence
    /\ UNCHANGED everInstalled

(* Nobody is promised silence about names that clash.                      *)
Change(c) ==
    /\ announced' = [change |-> c, refused |-> FALSE, messages |-> announced'.messages]
    /\ Promised(c) \subseteq announced'.messages
    /\ ClashFree => announced'.messages = Promised(c)
    /\ UNCHANGED <<installed, everInstalled>>

(* A message beyond the server's limits takes the change with it.          *)
Refuse(c) ==
    /\ announced' = [change |-> c, refused |-> TRUE, messages |-> {}]
    /\ ClashFree => \E m \in Promised(c) : ~m.fits
    /\ UNCHANGED <<installed, everInstalled>>

Next ==
    \/ \E n \in Notifs : Apply(n) \/ Drop(n)
    \/ \E c \in Changes : Change(c) \/ Refuse(c)

Spec == Init /\ [][Next]_registryVars
=============================================================================
