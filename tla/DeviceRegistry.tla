---------------------------- MODULE DeviceRegistry ----------------------------
(***************************************************************************)
(* What the device registry promises: a set of devices, each below another *)
(* or below the computer itself.  Taking a device out takes out what is    *)
(* below it, and nothing else.                                             *)
(***************************************************************************)
CONSTANTS Device, Computer

VARIABLE under      \* what each registered device is below

Init == under = [d \in {} |-> Computer]

\* d comes below p.
Register(d, p) ==
    /\ d \in Device /\ p \in DOMAIN under \cup {Computer}
    /\ under' = [e \in DOMAIN under \cup {d} |-> IF e = d THEN p ELSE under[e]]

\* d goes, with everything below it.
Unregister(d, gone) ==
    /\ \A e \in DOMAIN under : e \in gone <=> e = d \/ under[e] \in gone
    /\ under' = [e \in DOMAIN under \ gone |-> under[e]]

Next ==
    \/ \E d \in DOMAIN under' \ DOMAIN under : Register(d, under'[d])
    \/ \E d \in DOMAIN under \ DOMAIN under' : Unregister(d, DOMAIN under \ DOMAIN under')

Spec == Init /\ [][Next]_under
=============================================================================
