----------------------------- MODULE MCServices -----------------------------
(***************************************************************************)
(* Three parts of the server that share no state: the login sessions, the  *)
(* key files, and the node health monitor.  A behaviour of the three       *)
(* together is an interleaving of one of each, so each is explored by      *)
(* itself: `part` chooses one and the two others stay where they started.  *)
(***************************************************************************)
EXTENDS Sessions, KeyMaterial, NodeHealth

VARIABLE part

vars == <<part, sessVars, keyVars, healthVars>>

OfSessions(A) == part = "sessions" /\ A /\ UNCHANGED <<part, keyVars, healthVars>>
OfKeys(A) == part = "keys" /\ A /\ UNCHANGED <<part, sessVars, healthVars>>
OfHealth(A) == part = "health" /\ A /\ UNCHANGED <<part, sessVars, keyVars>>

\* Of the initial states of the parts that are not explored one is enough; for
\* the key files it is one from which the server cannot start anyway.
Init ==
    /\ part \in {"sessions", "keys", "health"}
    /\ SessInit
    /\ KeyInit /\ (part # "keys" => crt = Absent /\ ~auto)
    /\ HealthInit /\ (part # "health" => table = {})

Next == OfSessions(SessNext) \/ OfKeys(KeyNext) \/ OfHealth(HealthNext)

\* The supervisor restarts the server and main() runs on; the monitor's ticker
\* fires, its list can be read sooner or later, its loop goes on and every dial
\* ends.
Fairness ==
    /\ WF_vars(OfKeys(BootStep))
    /\ WF_vars(OfHealth(StartCycle))
    /\ \A n \in HealthNodes :
        WF_vars(OfHealth(Launch(n))) /\ WF_vars(OfHealth(ProbeAnswers(n)))
    /\ WF_vars(OfHealth(EndCycle))

Spec == Init /\ [][Next]_vars /\ Fairness

\* Every variable of the three parts has its type: a cookie holds a token the
\* store once issued, no step of a boot or a renewal is skipped to one that
\* does not exist, and never more probes fly than the semaphore has places.
ServicesTypeOK == SessTypeOK /\ KeyTypeOK /\ HealthTypeOK
=============================================================================
