------------------------------- MODULE Mailbox -------------------------------
(***************************************************************************)
(* What the mailboxes promise, with every operation one step: a message is *)
(* posted, reported to its sender, acknowledged, and only then archived.   *)
(* A power loss may take back messages nobody was told about and archives, *)
(* but never a reported message or an acknowledgement.                     *)
(***************************************************************************)
CONSTANT Message

VARIABLES
    posted,        \* the messages a reader can find, archived or not
    reported,      \* the messages whose sender was told of success
    acknowledged,  \* the messages whose acknowledgement was sent
    archived       \* the messages that left the inbox

mailbox == <<posted, reported, acknowledged, archived>>

Init == posted = {} /\ reported = {} /\ acknowledged = {} /\ archived = {}

Post(m) ==
    /\ m \notin posted
    /\ posted' = posted \cup {m}
    /\ UNCHANGED <<reported, acknowledged, archived>>

Report(m) ==
    /\ m \in posted
    /\ reported' = reported \cup {m}
    /\ UNCHANGED <<posted, acknowledged, archived>>

Acknowledge(M) ==
    /\ M \subseteq Message
    /\ acknowledged' = acknowledged \cup M
    /\ UNCHANGED <<posted, reported, archived>>

Archive(m) ==
    /\ m \in posted \cap acknowledged
    /\ archived' = archived \cup {m}
    /\ UNCHANGED <<posted, reported, acknowledged>>

\* A message may also come back that had been lost and not been reported
PowerLoss ==
    /\ posted' \subseteq Message /\ reported \subseteq posted'
    /\ archived' \subseteq posted' \cap acknowledged
    /\ UNCHANGED <<reported, acknowledged>>

Next == \/ \E m \in Message : Post(m) \/ Report(m) \/ Archive(m)
        \/ \E M \in SUBSET Message : Acknowledge(M)
        \/ PowerLoss

Spec == Init /\ [][Next]_mailbox

=============================================================================
