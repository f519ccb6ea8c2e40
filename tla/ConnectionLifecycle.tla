-------------------------- MODULE ConnectionLifecycle --------------------------
(***************************************************************************)
(* What a PeerConnection promises the application about the connections it *)
(* manages, whichever threads create and end them.  A user has at most one *)
(* current connection.  A connection leaves that state in one of two ways: *)
(* a newer one silently takes its place, or it ends, and then its end is   *)
(* reported exactly once.                                                  *)
(***************************************************************************)
EXTENDS Naturals

CONSTANTS Users, Gens

VARIABLES
    phase,     \* where each generation is in its life
    user,      \* the remote user of each generation
    reports    \* terminal statuses the application has received

vars == <<phase, user, reports>>

Init ==
    /\ phase = [g \in Gens |-> "unborn"]
    /\ user = [g \in Gens |-> "none"]
    /\ reports = [g \in Gens |-> 0]

\* A new connection to u; the one it replaces is not reported.
Create(g, u) ==
    /\ phase[g] = "unborn"
    /\ phase' = [h \in Gens |->
                   IF h = g THEN "current"
                   ELSE IF phase[h] = "current" /\ user[h] = u THEN "replaced"
                   ELSE phase[h]]
    /\ user' = [user EXCEPT ![g] = u]
    /\ UNCHANGED reports

\* The connections in S end, at once.
End(S) ==
    /\ \A g \in S : phase[g] = "current"
    /\ phase' = [g \in Gens |-> IF g \in S THEN "ending" ELSE phase[g]]
    /\ UNCHANGED <<user, reports>>

Report(g) ==
    /\ phase[g] = "ending"
    /\ phase' = [phase EXCEPT ![g] = "reported"]
    /\ reports' = [reports EXCEPT ![g] = @ + 1]
    /\ UNCHANGED user

Next ==
    \/ \E g \in Gens, u \in Users : Create(g, u)
    \/ \E S \in SUBSET Gens : End(S)
    \/ \E g \in Gens : Report(g)

Spec == Init /\ [][Next]_vars

=============================================================================
