---------------------------- MODULE SeatRegister ----------------------------
(***************************************************************************)
(* What the lease store promises, without locks, files or revisions: a     *)
(* register that says which running session holds which seat.  A seat is   *)
(* taken only when it and its harness are free and no guarded side effect  *)
(* is under way; it is left when its session ends or gives it up.          *)
(***************************************************************************)
EXTENDS Naturals

CONSTANTS Pid, Agent, Harness

VARIABLES
    holder,   \* holder[a]: the session that holds seat a, or Nobody
    users     \* the processes inside a guarded side effect

vars == <<holder, users>>

Nobody == [pid |-> "nobody"]

Held(a) == holder[a] # Nobody

Init == /\ holder = [a \in Agent |-> Nobody]
        /\ users = {}

Take(p, a, h) ==
    /\ users = {}
    /\ ~Held(a)
    /\ \A b \in Agent : Held(b) => holder[b].harness # h /\ holder[b].pid # p
    /\ holder' = [holder EXCEPT ![a] = [pid |-> p, harness |-> h]]
    /\ UNCHANGED users

\* a release: excluded while a guarded side effect is under way
GiveUp(a) ==
    /\ users = {}
    /\ Held(a)
    /\ holder' = [holder EXCEPT ![a] = Nobody]
    /\ UNCHANGED users

\* a death: of a session, of a process inside a guard, or of one that is both
End(p) ==
    /\ holder' = [a \in Agent |-> IF Held(a) /\ holder[a].pid = p
                                  THEN Nobody ELSE holder[a]]
    /\ users' = users \ {p}

Enter(p) ==
    /\ users' = users \cup {p}
    /\ UNCHANGED holder

Exit(p) ==
    /\ users' = users \ {p}
    /\ UNCHANGED holder

Next == \/ \E p \in Pid : End(p) \/ Enter(p) \/ Exit(p)
        \/ \E a \in Agent : GiveUp(a)
        \/ \E p \in Pid, a \in Agent, h \in Harness : Take(p, a, h)

Spec == Init /\ [][Next]_vars
=============================================================================
