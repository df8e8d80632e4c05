-------------------------- MODULE MC_ScheduledLab --------------------------
(***************************************************************************)
(* Instances of ScheduledLab: each of the labs on one event, and the one   *)
(* with the longest pipeline on two events that contend for its worker.    *)
(***************************************************************************)
EXTENDS ScheduledLab, TLC

CONSTANTS s1, s2

AllLabs == {Lab01, Lab02, Lab03, Lab04, Lab05, Lab06, Lab07, Lab08,
            Lab09, Lab10, Lab12, Lab13, Lab14, Lab15, Lab16, Lab17}
FindingLabs == {Lab05}
AllKinds == {"sweep", "feed", "simulation"}
AllGaps == {"runtime", "source", "bucket", "topic"}

\* The other event has been dead-lettered before this one is due.
Alone ==
    /\ kind[s2] = "sweep"
    /\ at = s1 :> "due" @@ s2 :> "dead"
    /\ offers = s1 :> 0 @@ s2 :> MaxOffers

\* Both have been refused until they have one delivery left.
Contending ==
    /\ lab = Lab01 /\ gaps = {}
    /\ kind = [e \in Event |-> "sweep"]
    /\ at = [e \in Event |-> "offered"]
    /\ offers = [e \in Event |-> MaxOffers - 1]

MCInit ==
    /\ lab \in Labs
    /\ gaps \in SUBSET Misses
    /\ kind \in [Event -> Payloads]
    /\ Alone \/ Contending
    /\ tries = [e \in Event |-> 0]
    /\ env = [e \in Event |-> {}]
    /\ verdict = [e \in Event |-> "PASS"]
    /\ evidence = [e \in Event |-> <<>>]
    /\ findings = {}
    /\ alerts = {}
    /\ answer = [e \in Event |-> NoAnswer]
MCSpec == MCInit /\ [][Next]_vars /\ Fairness
=============================================================================
