--------------------------- MODULE ServicesProofs ---------------------------
(***************************************************************************)
(* Proofs about three services that share no state.                        *)
(*                                                                         *)
(* The key files, for any number of faults and any life of a certificate:  *)
(* no order of starts, crashes and failing files loses the master key that *)
(* sealed secrets, and the TLS files match but after an undone removal.    *)
(* SecretsSurvive speaks of a running server.  What carries it through a   *)
(* restart is that the file keeps the key once something is sealed, and    *)
(* that a process which may seal has read or written that very file; the   *)
(* certificate steps need to be known to come after that.                  *)
(*                                                                         *)
(* The refresh sessions, for any number of tokens, requests at a time and  *)
(* passwords: the types, one session per login, and that the store         *)
(* implements TokenChain.  A new session must not meet another of its      *)
(* login.  After a rotation that is so because the old one is deleted in   *)
(* the same step; after a login because no session goes back to a token    *)
(* that was never drawn, which is what RootsUsed adds.                     *)
(*                                                                         *)
(* The health monitor, for any number of nodes: the semaphore counts the   *)
(* dials that are open, and a cycle misses no node it has listed.          *)
(***************************************************************************)
EXTENDS MCServices, TLAPS, FiniteSetTheorems

-----------------------------------------------------------------------------
(* The key files.                                                           *)

\* The names of the master key, and the steps of main().
MasterTypes ==
    /\ master \in Names \cup {Absent, Torn}
    /\ mk \in Names \cup {0} /\ sealed \in Names \cup {0}

\* The file holds the key secrets were sealed with.
FileKeepsKey == sealed # 0 => master = sealed

\* A process past loadMasterKey has the key of the file; one that truncated the
\* file found nothing in it.
MemoryIsFile ==
    /\ proc \in {"jwt", "jwt_fill", "tls", "up"} => mk # 0 /\ mk = master
    /\ proc = "master_fill" => sealed = 0

\* Certificates are written by a boot that has reached them, and renewed only
\* by a server that is up.
CertsAfterKeys ==
    /\ gen # "none" => proc \in {"tls", "up"}
    /\ due => proc = "up"

MasterInv == MasterTypes /\ FileKeepsKey /\ MemoryIsFile /\ CertsAfterKeys

\* There is always a name for a new master key.
LEMMA NewMasterName == NewMaster \in Names /\ NewMaster \notin {master, mk, sealed}
<1>1. \E g \in Names : g \notin {master, mk, sealed}
  <2>1. 1 \in Names /\ 2 \in Names /\ 3 \in Names /\ 4 \in Names
    BY DEF Names
  <2>2. \/ 1 \notin {master, mk, sealed} \/ 2 \notin {master, mk, sealed}
        \/ 3 \notin {master, mk, sealed} \/ 4 \notin {master, mk, sealed}
    OBVIOUS
  <2> QED
    BY <2>1, <2>2
<1> QED
  BY <1>1 DEF NewMaster

\* Initially nothing is sealed.
LEMMA InitMasterInv == KeyInit => MasterInv
  BY DEF KeyInit, MasterInv, MasterTypes, FileKeepsKey, MemoryIsFile,
         CertsAfterKeys, Names, Absent, Torn

\* Every step keeps the key of the sealed secrets in the file.
LEMMA NextMasterInv == MasterInv /\ [KeyNext]_keyVars => MasterInv'
<1> SUFFICES ASSUME MasterInv, [KeyNext]_keyVars PROVE MasterInv'
  OBVIOUS
<1> USE DEF MasterInv, MasterTypes, FileKeepsKey, MemoryIsFile, CertsAfterKeys
<1>1. CASE Boot
  BY <1>1 DEF Boot, keyFiles
<1>2. CASE LoadMaster
  BY <1>2 DEF LoadMaster, Names, Absent, Torn
<1>3. CASE FillMaster
  BY <1>3, NewMasterName DEF FillMaster, Names
<1>4. CASE LoadJwt
  BY <1>4 DEF LoadJwt, Die, keyFiles, Names
<1>5. CASE FillJwt
  BY <1>5 DEF FillJwt
<1>6. CASE LoadTls
  BY <1>6 DEF LoadTls, Serve, Die, keyFiles, Names
<1>7. CASE TruncateCrt \/ FillCrt \/ TruncateKey \/ FillKey
  BY <1>7 DEF TruncateCrt, FillCrt, TruncateKey, FillKey
<1>8. CASE LoadPair
  BY <1>8 DEF LoadPair, Serve, keyFiles
<1>9. CASE Seal
  BY <1>9 DEF Seal, keyFiles
<1>10. CASE DayPasses
  <2>1. UNCHANGED <<proc, master, mk, sealed, gen>>
    BY <1>10 DEF DayPasses, keyFiles
  <2>2. due' => proc' = "up"
    BY <1>10, Zenon DEF DayPasses
  <2> QED
    BY <2>1, <2>2
<1>11. CASE Check
  BY <1>11 DEF Check, keyFiles
<1>12. CASE RemoveCrt \/ RemoveKey
  BY <1>12 DEF RemoveCrt, RemoveKey
<1>13. CASE Crash \/ BootFileFails
  BY <1>13 DEF Crash, BootFileFails, Die, keyFiles
<1>14. CASE RemoveFails \/ RenewFails
  BY <1>14 DEF RemoveFails, RenewFails, keyFiles
<1>15. CASE UNCHANGED keyVars
  BY <1>15 DEF keyVars, keyFiles
<1> QED
  BY <1>1, <1>2, <1>3, <1>4, <1>5, <1>6, <1>7, <1>8, <1>9, <1>10,
     <1>11, <1>12, <1>13, <1>14, <1>15
  DEF KeyNext, BootStep

\* A server that is up has the master key its stored secrets were sealed with,
\* whatever crashed or failed before: loadMasterKey, main.go.
THEOREM SecretsSurviveAlways == KeySpec => []SecretsSurvive
<1>1. MasterInv => SecretsSurvive
  BY DEF MasterInv, FileKeepsKey, MemoryIsFile, SecretsSurvive
<1> QED
  BY <1>1, InitMasterInv, NextMasterInv, PTL DEF KeySpec

-----------------------------------------------------------------------------
(* The TLS pair.  FilesMatch is carried by what the files are like while    *)
(* only one of them has been removed or written.                           *)

\* The steps of a renewal or a generation, and what they have got to.
GenSteps ==
    /\ crt \in Names \cup {Absent, Torn} /\ key \in Names \cup {Absent, Torn}
    /\ gen \in {"none", "rm_crt", "rm_key", "crt", "crt_fill", "key", "key_fill", "load"}
    /\ gen \in {"rm_crt", "rm_key"} => proc = "up"
    /\ gen \in {"key", "key_fill"} => crt > 0
    /\ gen = "load" => crt > 0 /\ key = crt
    /\ due => proc = "up" /\ gen = "none"

\* Unless an old key was left behind: no key file without its certificate,
\* except between the two removals, and none while a certificate is written.
NoStrayKey ==
    \/ kept
    \/ /\ crt <= 0 => key <= 0 \/ gen = "rm_key"
       /\ gen \in {"crt", "crt_fill", "key", "key_fill"} => key <= 0

PairInv == GenSteps /\ NoStrayKey /\ FilesMatch

\* There is always a name for a new certificate.
LEMMA NewCertName == NewCert \in Names
<1>1. \E g \in Names : g \notin {crt, key, cert}
  <2>1. 1 \in Names /\ 2 \in Names /\ 3 \in Names /\ 4 \in Names
    BY DEF Names
  <2>2. \/ 1 \notin {crt, key, cert} \/ 2 \notin {crt, key, cert}
        \/ 3 \notin {crt, key, cert} \/ 4 \notin {crt, key, cert}
    OBVIOUS
  <2> QED
    BY <2>1, <2>2
<1> QED
  BY <1>1 DEF NewCert

\* Initially there is no pair, or the operator's.
LEMMA InitPairInv == KeyInit => PairInv
  BY DEF KeyInit, PairInv, GenSteps, NoStrayKey, FilesMatch, Names, Absent, Torn

\* Every step keeps the pair in order, or marks the key it leaves behind.
LEMMA NextPairInv == PairInv /\ [KeyNext]_keyVars => PairInv'
<1> SUFFICES ASSUME PairInv, [KeyNext]_keyVars PROVE PairInv'
  OBVIOUS
<1> USE DEF PairInv, GenSteps, NoStrayKey, FilesMatch, Names, Absent, Torn
<1>1. CASE Boot \/ LoadMaster \/ FillMaster \/ FillJwt
  BY <1>1 DEF Boot, LoadMaster, FillMaster, FillJwt, keyFiles
<1>2. CASE LoadJwt
  BY <1>2 DEF LoadJwt, Die, keyFiles
<1>3. CASE LoadTls
  BY <1>3 DEF LoadTls, Serve, Die, keyFiles
<1>4. CASE TruncateCrt
  BY <1>4 DEF TruncateCrt
<1>5. CASE FillCrt
  BY <1>5, NewCertName DEF FillCrt
<1>6. CASE TruncateKey
  BY <1>6 DEF TruncateKey
<1>7. CASE FillKey
  BY <1>7 DEF FillKey
<1>8. CASE LoadPair
  BY <1>8 DEF LoadPair, Serve, keyFiles
<1>9. CASE Seal
  BY <1>9 DEF Seal, keyFiles
<1>10. CASE DayPasses
  <2>1. UNCHANGED <<proc, crt, key, gen, kept>> /\ gen = "none"
    BY <1>10 DEF DayPasses, keyFiles
  <2>2. due' => proc' = "up"
    BY <1>10, Zenon DEF DayPasses
  <2> QED
    BY <2>1, <2>2
<1>11. CASE Check
  BY <1>11 DEF Check, keyFiles
<1>12. CASE RemoveCrt
  BY <1>12 DEF RemoveCrt
<1>13. CASE RemoveKey
  BY <1>13 DEF RemoveKey
<1>14. CASE Crash
  <2>1. UNCHANGED <<crt, key>> /\ proc' = "down" /\ gen' = "none" /\ due' = FALSE
    BY <1>14 DEF Crash, Die, keyFiles
  <2>2. kept \/ gen = "rm_key" => kept'
    BY <1>14, Zenon DEF Crash
  <2> QED
    BY <2>1, <2>2
<1>15. CASE BootFileFails
  BY <1>15 DEF BootFileFails, Die, keyFiles
<1>16. CASE RemoveFails
  BY <1>16 DEF RemoveFails, keyFiles
<1>17. CASE RenewFails
  BY <1>17 DEF RenewFails, keyFiles
<1>18. CASE UNCHANGED keyVars
  BY <1>18 DEF keyVars, keyFiles
<1> QED
  BY <1>1, <1>2, <1>3, <1>4, <1>5, <1>6, <1>7, <1>8, <1>9, <1>10, <1>11, <1>12, <1>13,
     <1>14, <1>15, <1>16, <1>17, <1>18
  DEF KeyNext, BootStep

\* The TLS files hold a certificate and the key of another one only after a
\* removal that failed, or a death between the two removals: renewalLoop and
\* generateAndSave, tls/manager.go.
THEOREM FilesMatchAlways == KeySpec => []FilesMatch
<1>1. PairInv => FilesMatch
  BY DEF PairInv
<1> QED
  BY <1>1, InitPairInv, NextPairInv, PTL DEF KeySpec

-----------------------------------------------------------------------------
(* The types of the key files.  That the served certificate has a name      *)
(* needs PairInv: what generateAndSave loads it has written before.         *)

\* KeyTypeOK in two parts: the flags, and the rest.
KeyFlags == due \in BOOLEAN /\ auto \in BOOLEAN /\ kept \in BOOLEAN

KeyValues ==
    /\ proc \in {"down", "master", "master_fill", "jwt", "jwt_fill", "tls", "up"}
    /\ master \in Names \cup {Absent, Torn} /\ jwt \in {Absent, Torn, 1}
    /\ crt \in Names \cup {Absent, Torn} /\ key \in Names \cup {Absent, Torn}
    /\ mk \in Names \cup {0} /\ sealed \in Names \cup {0} /\ cert \in Names \cup {0}
    /\ certLeft \in Left /\ crtLeft \in Left
    /\ gen \in {"none", "rm_crt", "rm_key", "crt", "crt_fill", "key", "key_fill", "load"}
    /\ faults \in 0 .. MaxFaults

\* Initially the files are absent, or the operator's.
LEMMA InitKeyTypes == KeyInit => KeyFlags /\ KeyValues
<1> SUFFICES ASSUME KeyInit PROVE KeyFlags /\ KeyValues
  OBVIOUS
<1>1. KeyFlags
  BY Zenon DEF KeyInit, KeyFlags
<1>2. KeyValues
  BY KeyAssumption DEF KeyInit, KeyValues, Names, Absent, Torn, Left
<1> QED
  BY <1>1, <1>2

\* Every step keeps the flags.
LEMMA NextKeyFlags == KeyFlags /\ [KeyNext]_keyVars => KeyFlags'
<1> SUFFICES ASSUME KeyFlags, [KeyNext]_keyVars PROVE KeyFlags'
  OBVIOUS
<1> USE DEF KeyFlags
<1>1. CASE BootStep
  BY <1>1, Zenon DEF BootStep, Boot, LoadMaster, FillMaster, LoadJwt, FillJwt, LoadTls,
     TruncateCrt, FillCrt, TruncateKey, FillKey, LoadPair, Serve, Die, keyFiles
<1>2. CASE Seal \/ DayPasses \/ Check \/ RemoveCrt \/ RemoveKey
  BY <1>2, Zenon DEF Seal, DayPasses, Check, RemoveCrt, RemoveKey
<1>3. CASE Crash \/ BootFileFails \/ RemoveFails \/ RenewFails
  BY <1>3, Zenon DEF Crash, BootFileFails, RemoveFails, RenewFails, Die
<1>4. CASE UNCHANGED keyVars
  BY <1>4, Zenon DEF keyVars
<1> QED
  BY <1>1, <1>2, <1>3, <1>4 DEF KeyNext

\* Every step keeps the rest.
LEMMA NextKeyValues == PairInv /\ KeyValues /\ [KeyNext]_keyVars => KeyValues'
<1> SUFFICES ASSUME PairInv, KeyValues, [KeyNext]_keyVars PROVE KeyValues'
  OBVIOUS
<1> USE KeyAssumption DEF KeyValues, Names, Absent, Torn, Left
<1>1. CASE Boot \/ LoadMaster
  BY <1>1 DEF Boot, LoadMaster, keyFiles
<1>2. CASE FillMaster
  BY <1>2, NewMasterName DEF FillMaster
<1>3. CASE LoadJwt \/ FillJwt
  BY <1>3 DEF LoadJwt, FillJwt, Die, keyFiles
<1>4. CASE LoadTls
  BY <1>4 DEF LoadTls, Serve, Die, keyFiles
<1>5. CASE TruncateCrt \/ TruncateKey \/ FillKey
  BY <1>5 DEF TruncateCrt, TruncateKey, FillKey
<1>6. CASE FillCrt
  BY <1>6, NewCertName DEF FillCrt
<1>7. CASE LoadPair
  BY <1>7 DEF LoadPair, Serve, keyFiles, PairInv, GenSteps
<1>8. CASE Seal
  BY <1>8 DEF Seal, keyFiles
<1>9. CASE DayPasses
  <2>1. \A n \in Left : Aged(n) \in Left
    BY DEF Aged
  <2>2. certLeft' \in Left /\ crtLeft' \in Left
    BY <1>9, <2>1 DEF DayPasses
  <2>3. UNCHANGED <<proc, master, jwt, crt, key, mk, sealed, cert, gen, faults>>
    BY <1>9 DEF DayPasses, keyFiles
  <2> QED
    BY <2>2, <2>3
<1>10. CASE Check
  BY <1>10 DEF Check, keyFiles
<1>11. CASE RemoveCrt \/ RemoveKey
  BY <1>11 DEF RemoveCrt, RemoveKey
<1>12. CASE Crash \/ BootFileFails \/ RemoveFails \/ RenewFails
  BY <1>12 DEF Crash, BootFileFails, RemoveFails, RenewFails, Die, Fault, keyFiles
<1>13. CASE UNCHANGED keyVars
  BY <1>13 DEF keyVars, keyFiles
<1> QED
  BY <1>1, <1>2, <1>3, <1>4, <1>5, <1>6, <1>7, <1>8, <1>9, <1>10, <1>11, <1>12, <1>13
  DEF KeyNext, BootStep

\* The types of the key files hold throughout.
LEMMA KeyTypesAlways == KeySpec => []KeyTypeOK
<1>1. KeyFlags /\ KeyValues => KeyTypeOK
  BY DEF KeyFlags, KeyValues, KeyTypeOK
<1> QED
  BY <1>1, InitPairInv, NextPairInv, InitKeyTypes, NextKeyFlags, NextKeyValues, PTL DEF KeySpec

-----------------------------------------------------------------------------
(* A boot goes forward: the part of BootServes that does not speak of time. *)

\* How many steps main() has still to take until it serves, from step p of main()
\* and step g of a generation.
StepsLeft(p, g) ==
    IF p = "tls"
    THEN [none |-> 6, crt |-> 5, crt_fill |-> 4, key |-> 3, key_fill |-> 2, load |-> 1][g]
    ELSE [down |-> 11, master |-> 10, master_fill |-> 9, jwt |-> 8, jwt_fill |-> 7, up |-> 0][p]

BootLeft == StepsLeft(proc, gen)

\* Each step of a boot leaves fewer to take; nothing sends it back, or ends a
\* server that is up, but a fault or files it cannot start with.
BootAdvances ==
    [][/\ BootStep /\ proc # "up" => BootLeft' < BootLeft \/ Damaged'
       /\ BootLeft' <= BootLeft \/ Damaged' \/ faults' > faults]_keyVars

\* The numbers, one by one.
LEMMA StepsLeftAre ==
    ASSUME NEW g
    PROVE  /\ StepsLeft("down", g) = 11 /\ StepsLeft("master", g) = 10
           /\ StepsLeft("master_fill", g) = 9 /\ StepsLeft("jwt", g) = 8
           /\ StepsLeft("jwt_fill", g) = 7 /\ StepsLeft("up", g) = 0
           /\ StepsLeft("tls", "none") = 6 /\ StepsLeft("tls", "crt") = 5
           /\ StepsLeft("tls", "crt_fill") = 4 /\ StepsLeft("tls", "key") = 3
           /\ StepsLeft("tls", "key_fill") = 2 /\ StepsLeft("tls", "load") = 1
  BY DEF StepsLeft

\* main() never turns back of its own accord, for any number of faults: after
\* each it serves in at most 11 steps, or has found what Damaged lists
\* (loadMasterKey, loadOrCreateRS256 and tls.Manager.loadOrGenerate).
THEOREM BootAdvancesAlways == KeySpec => BootAdvances
<1> DEFINE Step == /\ BootStep /\ proc # "up" => BootLeft' < BootLeft \/ Damaged'
                   /\ BootLeft' <= BootLeft \/ Damaged' \/ faults' > faults
           Inv == MasterInv /\ PairInv /\ KeyFlags /\ KeyValues
<1>1. ASSUME Inv, Inv', [KeyNext]_keyVars PROVE Step
  <2> DEFINE L == StepsLeft(proc, gen)
             M == StepsLeft(proc', gen')
  <2>0. BootLeft = L /\ BootLeft' = M
    BY DEF BootLeft
  <2>1. L \in Nat /\ M \in Nat /\ faults \in Nat /\ faults' \in Nat
    <3>1. /\ proc \in {"down", "master", "master_fill", "jwt", "jwt_fill", "tls", "up"}
          /\ proc = "tls" => gen \in {"none", "crt", "crt_fill", "key", "key_fill", "load"}
      BY <1>1 DEF KeyValues, PairInv, GenSteps
    <3>2. /\ proc' \in {"down", "master", "master_fill", "jwt", "jwt_fill", "tls", "up"}
          /\ proc' = "tls" => gen' \in {"none", "crt", "crt_fill", "key", "key_fill", "load"}
      BY <1>1 DEF KeyValues, PairInv, GenSteps
    <3>3. faults \in Nat /\ faults' \in Nat
      BY <1>1, KeyAssumption DEF KeyValues
    <3>4. L \in Nat
      BY <3>1, StepsLeftAre
    <3>5. M \in Nat
      BY <3>2, StepsLeftAre
    <3> QED
      BY <3>3, <3>4, <3>5
  <2>2. ASSUME BootStep, proc # "up" PROVE M < L \/ Damaged'
    <3>0. gen # "none" => proc = "tls"
      BY <1>1, <2>2 DEF MasterInv, CertsAfterKeys
    <3>1. CASE Boot \/ LoadMaster \/ FillMaster \/ FillJwt
      <4>1. gen' = gen /\ (proc = "jwt_fill" => gen = "none")
        BY <3>0, <3>1 DEF Boot, LoadMaster, FillMaster, FillJwt
      <4> QED
        BY <3>1, <4>1, StepsLeftAre DEF Boot, LoadMaster, FillMaster, FillJwt
    <3>2. CASE LoadJwt
      <4>1. \/ Damaged'
            \/ proc = "jwt" /\ proc' \in {"tls", "jwt_fill"} /\ gen' = "none"
        BY <3>0, <3>2 DEF LoadJwt, Die, Damaged, keyFiles
      <4> QED
        BY <4>1, StepsLeftAre
    <3>3. CASE LoadTls
      <4>1. \/ Damaged'
            \/ /\ proc = "tls" /\ gen = "none"
               /\ proc' = "up" \/ (proc' = "tls" /\ gen' = "crt")
        <5>1. CASE crt # Absent /\ key # Absent
          <6>1. /\ proc = "tls" /\ gen = "none"
                /\ \/ crt = key /\ crt > 0 /\ proc' = "up"
                   \/ ~(crt = key /\ crt > 0) /\ UNCHANGED <<crt, key>>
            BY <3>3, <5>1 DEF LoadTls, Serve, keyFiles
          <6> QED
            BY <5>1, <6>1 DEF Damaged, Absent
        <5>2. CASE crt = Absent \/ key = Absent
          <6>1. CASE auto
            BY <3>3, <5>2, <6>1, Zenon DEF LoadTls
          <6>2. CASE ~auto
            BY <3>3, <5>2, <6>2, Zenon DEF LoadTls, Damaged, keyFiles
          <6> QED
            BY <6>1, <6>2
        <5> QED
          BY <5>1, <5>2
      <4> QED
        BY <4>1, StepsLeftAre
    <3>4. CASE TruncateCrt \/ FillCrt \/ TruncateKey \/ FillKey
      <4>1. /\ proc = "tls" /\ proc' = "tls"
            /\ <<gen, gen'>> \in {<<"crt", "crt_fill">>, <<"crt_fill", "key">>,
                                  <<"key", "key_fill">>, <<"key_fill", "load">>}
        BY <3>0, <3>4 DEF TruncateCrt, FillCrt, TruncateKey, FillKey
      <4> QED
        BY <4>1, StepsLeftAre
    <3>5. CASE LoadPair
      <4>1. proc = "tls" /\ gen = "load" /\ proc' = "up"
        BY <3>0, <3>5 DEF LoadPair, Serve
      <4> QED
        BY <4>1, StepsLeftAre
    <3> QED
      BY <2>2, <3>1, <3>2, <3>3, <3>4, <3>5 DEF BootStep
  <2>3. M <= L \/ Damaged' \/ faults' > faults
    <3>0. ASSUME proc = "up", proc' = "up" PROVE M <= L
      BY <3>0, StepsLeftAre
    <3>1. CASE BootStep
      <4>1. CASE proc # "up"
        BY <2>1, <2>2, <3>1, <4>1
      <4>2. CASE proc = "up"
        <5>1. proc' = "up"
          BY <3>1, <4>2 DEF BootStep, Boot, LoadMaster, FillMaster, LoadJwt, FillJwt, LoadTls,
             TruncateCrt, FillCrt, TruncateKey, FillKey, LoadPair, Serve
        <5> QED
          BY <3>0, <4>2, <5>1
      <4> QED
        BY <4>1, <4>2
    <3>2. CASE Seal \/ DayPasses \/ Check \/ RemoveCrt \/ RemoveKey
      <4>1. \/ proc = "up" /\ proc' = "up"
            \/ proc' = proc /\ gen' = gen
        BY <1>1, <3>2 DEF Seal, DayPasses, Check, RemoveCrt, RemoveKey, PairInv, GenSteps
      <4> QED
        BY <2>1, <3>0, <4>1
    <3>3. CASE Crash \/ BootFileFails \/ RemoveFails \/ RenewFails
      BY <2>1, <3>3 DEF Crash, BootFileFails, RemoveFails, RenewFails, Fault
    <3>4. CASE UNCHANGED keyVars
      BY <2>1, <3>4 DEF keyVars
    <3> QED
      BY <1>1, <3>1, <3>2, <3>3, <3>4 DEF KeyNext
  <2> QED
    BY <2>0, <2>2, <2>3
<1>2. KeyInit => Inv
  BY InitMasterInv, InitPairInv, InitKeyTypes
<1>3. Inv /\ [KeyNext]_keyVars => Inv'
  BY NextMasterInv, NextPairInv, NextKeyFlags, NextKeyValues
<1>4. [][Step]_keyVars <=> BootAdvances
  BY DEF BootAdvances
<1> HIDE DEF Step, Inv
<1> QED
  BY <1>1, <1>2, <1>3, <1>4, PTL DEF KeySpec

-----------------------------------------------------------------------------
(* The health monitor.  That the semaphore stays within its places is       *)
(* inductive once its count is that of the probes in the air; no node is    *)
(* launched while it is in the air.                                         *)

\* Each occupied place is one probe, and a node is launched once per cycle.
PlacesAreProbes ==
    /\ IsFiniteSet(flying) /\ sem = Cardinality(flying)
    /\ todo \cap flying = {}
    /\ monitor = "wait" => todo = {} /\ flying = {}

HealthInv == HealthTypeOK /\ PlacesAreProbes

\* Initially no probe is in the air.
LEMMA InitHealthInv == HealthInit => HealthInv
  BY HealthAssumption, FS_EmptySet DEF HealthInit, HealthInv, HealthTypeOK, PlacesAreProbes

\* Every step keeps the places and the probes together.
LEMMA NextHealthInv == HealthInv /\ [HealthNext]_healthVars => HealthInv'
<1> SUFFICES ASSUME HealthInv, [HealthNext]_healthVars PROVE HealthInv'
  OBVIOUS
<1> USE DEF HealthInv, HealthTypeOK, PlacesAreProbes
<1>1. ASSUME NEW n \in HealthNodes, NodeAppears(n) \/ NodeVanishes(n)
      PROVE  HealthInv'
  BY <1>1 DEF NodeAppears, NodeVanishes
<1>2. ASSUME NEW n \in HealthNodes, Launch(n)
      PROVE  HealthInv'
  <2>1. CASE n \in Undialable
    BY <1>2, <2>1 DEF Launch
  <2>2. CASE n \notin Undialable
    <3>1. /\ monitor = "cycle" /\ n \in todo /\ n \notin flying /\ sem < Parallel
          /\ todo' = todo \ {n} /\ flying' = flying \cup {n} /\ sem' = sem + 1
          /\ UNCHANGED <<table, monitor, listed, cache>>
      BY <1>2, <2>2 DEF Launch
    <3>2. IsFiniteSet(flying') /\ Cardinality(flying') = sem'
      BY <3>1, FS_AddElement
    <3>3. sem' \in 0 .. Parallel
      BY <3>1, HealthAssumption
    <3> QED
      BY <3>1, <3>2, <3>3
  <2> QED
    BY <2>1, <2>2
<1>3. ASSUME NEW n \in HealthNodes, ProbeAnswers(n)
      PROVE  HealthInv'
  <2>1. PICK answer \in {"alive", "dead"} : Probed(n, answer)
    BY <1>3 DEF ProbeAnswers
  <2>2. /\ n \in flying /\ flying' = flying \ {n} /\ sem' = sem - 1
        /\ cache' = [cache EXCEPT ![n] = answer]
        /\ UNCHANGED <<table, monitor, listed, todo>>
    BY <2>1 DEF Probed
  <2>3. IsFiniteSet(flying') /\ Cardinality(flying') = sem'
    BY <2>2, FS_RemoveElement
  <2>4. sem # 0
    BY <2>2, FS_EmptySet
  <2>5. sem' \in 0 .. Parallel
    BY <2>2, <2>4, HealthAssumption
  <2> QED
    BY <2>2, <2>3, <2>5
<1>4. CASE StartCycle
  BY <1>4 DEF StartCycle
<1>5. CASE SkipCycle \/ UNCHANGED healthVars
  BY <1>5 DEF SkipCycle, healthVars
<1>6. CASE EndCycle
  BY <1>6 DEF EndCycle
<1> QED
  BY <1>1, <1>2, <1>3, <1>4, <1>5, <1>6 DEF HealthNext

\* Never more than Parallel dials are open at a time, and probeAll's semaphore
\* counts exactly these: none of its places is lost (node_health.go).
THEOREM PlacesAreProbesAlways == HealthSpec => [](PlacesAreProbes /\ HealthTypeOK)
<1>1. HealthInv => PlacesAreProbes /\ HealthTypeOK
  BY DEF HealthInv
<1> QED
  BY <1>1, InitHealthInv, NextHealthInv, PTL DEF HealthSpec

\* A cycle misses nobody: a listed node that can be dialled is to be looked at, is
\* being dialled, or has its answer, and only listed nodes keep one afterwards.
\* Whoever waits for a place of the semaphore waits for a dial that ends.
CycleMissesNobody ==
    /\ monitor = "cycle" => listed \ Undialable \subseteq todo \cup flying \cup Cached
    /\ monitor = "wait" => Cached = listed \ Undialable
    /\ todo # {} => sem < Parallel \/ flying # {}

\* No undialable node is dialled or has an answer.
OnlyDialable == (flying \cup Cached) \cap Undialable = {}

\* Every step keeps the account of the nodes listed.
LEMMA NextCycle ==
    HealthInv /\ OnlyDialable /\ CycleMissesNobody /\ [HealthNext]_healthVars
        => OnlyDialable' /\ CycleMissesNobody'
<1> SUFFICES ASSUME HealthInv, HealthInv', OnlyDialable, CycleMissesNobody, [HealthNext]_healthVars
             PROVE  OnlyDialable' /\ CycleMissesNobody'
  BY NextHealthInv
<1>1. (todo # {} => sem < Parallel \/ flying # {})'
  <2>1. (flying = {} => sem = 0)'
    BY FS_EmptySet DEF HealthInv, PlacesAreProbes
  <2> QED
    BY <2>1, HealthAssumption
<1> DEFINE Goal == /\ OnlyDialable'
                   /\ (monitor = "cycle" => listed \ Undialable \subseteq todo \cup flying \cup Cached)'
                   /\ (monitor = "wait" => Cached = listed \ Undialable)'
<1> USE DEF HealthInv, HealthTypeOK, PlacesAreProbes, OnlyDialable, CycleMissesNobody, Cached
<1>2. ASSUME NEW n \in HealthNodes, NodeAppears(n) \/ NodeVanishes(n) PROVE Goal
  BY <1>2 DEF NodeAppears, NodeVanishes
<1>3. ASSUME NEW n \in HealthNodes, Launch(n) PROVE Goal
  BY <1>3 DEF Launch
<1>4. ASSUME NEW n \in HealthNodes, NEW answer \in {"alive", "dead"}, Probed(n, answer)
      PROVE  Goal
  BY <1>4 DEF Probed
<1>5. ASSUME StartCycle PROVE Goal
  BY <1>5 DEF StartCycle
<1>6. ASSUME SkipCycle \/ UNCHANGED healthVars PROVE Goal
  BY <1>6 DEF SkipCycle, healthVars
<1>7. ASSUME EndCycle PROVE Goal
  BY <1>7 DEF EndCycle
<1>8. Goal
  BY <1>2, <1>3, <1>4, <1>5, <1>6, <1>7 DEF HealthNext, ProbeAnswers
<1> QED
  BY <1>1, <1>8

\* For any number of nodes and places, probeAll gets to every node it has listed
\* and can dial, and then forgets all others: what StayingNodesProbed needs
\* besides the timeout of a dial.
THEOREM CycleMissesNobodyAlways == HealthSpec => []CycleMissesNobody
<1>1. HealthInit => OnlyDialable /\ CycleMissesNobody
  BY DEF HealthInit, OnlyDialable, CycleMissesNobody, Cached
<1> QED
  BY <1>1, InitHealthInv, NextHealthInv, NextCycle, PTL DEF HealthSpec

-----------------------------------------------------------------------------
(* The refresh sessions.                                                    *)

\* A token that was drawn goes back to one that was drawn; no other does.
RootsUsed ==
    \A j \in Jtis :
        /\ sess[j] = "unused" => root[j] = None
        /\ sess[j] # "unused" => root[j] \in Jtis /\ sess[root[j]] # "unused"

\* Requests and cookies hold tokens that were drawn.
TokensUsed ==
    /\ refresh # None => sess[refresh] # "unused"
    /\ \A r \in Requests :
        /\ req[r].at = "rotate" => req[r].tok \in Jtis /\ sess[req[r].tok] # "unused"
        /\ req[r].at \in {"sign", "reply"} => req[r].tok \in Jtis /\ sess[req[r].tok] # "unused"

SessInv == SessTypeOK /\ RootsUsed /\ TokensUsed /\ LoginHasOneSession

Points == {"idle", "compare", "record", "reset", "hash", "issue", "rotate", "sign", "reply",
           "change"}

\* generateJTI draws a token for the first time.
LEMMA FreshUnused ==
    ASSUME Unused # {}
    PROVE  Fresh \in Jtis /\ sess[Fresh] = "unused"
  BY DEF Unused, Fresh

\* Initially there is no session.
LEMMA InitSessInv == SessInit => SessInv
<1> SUFFICES ASSUME SessInit PROVE SessInv
  OBVIOUS
<1>1. SessTypeOK
  BY DEF SessInit, SessTypeOK, Idle, At
<1>2. RootsUsed /\ TokensUsed /\ LoginHasOneSession
  BY SessAssumption DEF SessInit, RootsUsed, TokensUsed, LoginHasOneSession, Held, Idle,
     At
<1> QED
  BY <1>1, <1>2 DEF SessInv

-----------------------------------------------------------------------------
(* What a step does to the sessions: some end, or one begins, or one takes  *)
(* the place of another.                                                   *)

States == {"unused", "live", "expired", "gone"}

Ends ==
    /\ root' = root /\ sess' \in [Jtis -> States]
    /\ \A j \in Jtis : /\ sess'[j] = "unused" <=> sess[j] = "unused"
                       /\ Held(j)' => Held(j)

Begins == Unused # {} /\ Enter(Fresh)

Replaces(old) ==
    /\ Unused # {} /\ sess[old] = "live"
    /\ sess' = [sess EXCEPT ![old] = "gone", ![Fresh] = "live"]
    /\ root' = [root EXCEPT ![Fresh] = root[old]]

\* Sessions of tokens that were drawn end.
LEMMA BecomeEnds ==
    ASSUME SessTypeOK, NEW J, NEW s \in {"expired", "gone"}, Become(J, s), UNCHANGED root,
           \A j \in J \cap Jtis : sess[j] # "unused" /\ (s = "expired" => Held(j))
    PROVE  Ends
  BY DEF SessTypeOK, Become, Ends, Held, States

\* Each step is of one of the three kinds.
LEMMA StepKinds ==
    SessInv /\ [SessNext]_sessVars => Ends \/ Begins \/ \E old \in Jtis : Replaces(old)
<1> SUFFICES ASSUME SessInv, [SessNext]_sessVars
             PROVE  Ends \/ Begins \/ \E old \in Jtis : Replaces(old)
  OBVIOUS
<1>0. ASSUME UNCHANGED <<sess, root>> PROVE Ends
  BY <1>0 DEF SessInv, SessTypeOK, Ends, Held, States
<1>1. ASSUME NEW r \in Requests, IssuePair(r)
      PROVE  Ends \/ Begins
  BY <1>0, <1>1 DEF IssuePair, Begins
<1>2. ASSUME NEW r \in Requests, Rotate(r)
      PROVE  Ends \/ \E old \in Jtis : Replaces(old)
  <2>1. req[r].tok \in Jtis /\ sess[req[r].tok] = "live"
    BY <1>2 DEF Rotate, SessInv, TokensUsed
  <2>2. CASE Become({req[r].tok}, "gone") /\ UNCHANGED root
    BY <2>1, <2>2, BecomeEnds DEF SessInv
  <2> QED
    BY <1>2, <2>1, <2>2 DEF Rotate, Replaces
<1>3. ASSUME NEW r \in Requests, RotateRefused(r)
      PROVE  Ends
  <2>1. req[r].tok \in Jtis /\ sess[req[r].tok] # "unused"
    BY <1>3 DEF RotateRefused, SessInv, TokensUsed
  <2> QED
    BY <1>0, <1>3, <2>1 DEF RotateRefused, SessInv, SessTypeOK, Ends, Held, States
<1>4. ASSUME NEW r \in Requests, SignFails(r)
      PROVE  Ends
  <2>1. req[r].tok \in Jtis /\ sess[req[r].tok] # "unused"
    BY <1>4 DEF SignFails, SessInv, TokensUsed
  <2> QED
    BY <1>4, <2>1, BecomeEnds DEF SignFails, SessInv
<1>5. ASSUME NEW r \in Requests, NEW rt \in Jtis \cup {None}, Logout(r, rt)
      PROVE  Ends
  <2>1. Become({rt} \cap Jtis, "gone") /\ UNCHANGED root /\ rt \in {None, refresh}
    BY <1>5 DEF Logout, RevokeRefreshToken
  <2>2. \A j \in {rt} \cap Jtis : sess[j] # "unused"
    BY <2>1, SessAssumption DEF SessInv, TokensUsed
  <2> QED
    BY <2>1, <2>2, BecomeEnds DEF SessInv
<1>6. ASSUME NEW j \in Jtis, SessionAges(j)
      PROVE  Ends
  BY <1>6, BecomeEnds DEF SessionAges, SessInv, Held
<1>7. CASE PurgeExpired
  BY <1>7, BecomeEnds DEF PurgeExpired, SessInv
<1>8. CASE SessRestart
  BY <1>8, BecomeEnds DEF SessRestart, SessInv, Unused
<1>9. CASE \E r \in Requests :
            \/ LoginCheck(r) \/ LoginRecord(r) \/ LoginReset(r) \/ Bootstrap(r)
            \/ \E pw \in Passwords :
                LoginCompare(r, pw) \/ BootstrapSet(r, pw) \/ ChangePasswordSet(r, pw)
            \/ Refresh(r) \/ Sign(r) \/ Reply(r) \/ ReplyLost(r) \/ ChangePassword(r)
  BY <1>0, <1>9 DEF LoginCheck, LoginRecord, LoginReset, Bootstrap, LoginCompare, BootstrapSet,
     ChangePasswordSet, Refresh, Sign, Reply, ReplyLost, ChangePassword
<1>10. CASE AccessExpires \/ CookieExpires \/ AttemptAges \/ UNCHANGED sessVars
  BY <1>0, <1>10 DEF AccessExpires, CookieExpires, AttemptAges, sessVars
<1> QED
  BY <1>1, <1>2, <1>3, <1>4, <1>5, <1>6, <1>7, <1>8, <1>9, <1>10 DEF SessNext

-----------------------------------------------------------------------------
(* The invariant *)

\* None of the three kinds gives a login a second session.
LEMMA KindsKeepRoots ==
    ASSUME SessInv, Ends \/ Begins \/ \E old \in Jtis : Replaces(old)
    PROVE  RootsUsed' /\ LoginHasOneSession' /\ sess' \in [Jtis -> States]
           /\ root' \in [Jtis -> Jtis \cup {None}]
           /\ \A j \in Jtis : sess[j] # "unused" => sess'[j] # "unused"
<1> USE DEF SessInv, SessTypeOK, RootsUsed, LoginHasOneSession, Held, States
<1>1. CASE Ends
  BY <1>1 DEF Ends
<1>2. CASE Begins
  <2>1. Fresh \in Jtis /\ sess[Fresh] = "unused"
    BY <1>2, FreshUnused DEF Begins
  <2>2. /\ sess' = [j \in Jtis |-> IF j = Fresh THEN "live" ELSE sess[j]]
        /\ root' = [root EXCEPT ![Fresh] = Fresh]
    BY <1>2 DEF Begins, Enter, Become
  <2> QED
    BY <2>1, <2>2, SessAssumption
<1>3. CASE \E old \in Jtis : Replaces(old)
  <2>1. PICK old \in Jtis : Replaces(old)
    BY <1>3
  <2>2. Fresh \in Jtis /\ sess[Fresh] = "unused"
    BY <2>1, FreshUnused DEF Replaces
  <2>3. /\ sess' = [sess EXCEPT ![old] = "gone", ![Fresh] = "live"] /\ sess[old] = "live"
        /\ root' = [root EXCEPT ![Fresh] = root[old]]
    BY <2>1 DEF Replaces
  <2> QED
    BY <2>2, <2>3, SessAssumption
<1> QED
  BY <1>1, <1>2, <1>3

\* A request goes on to its next step ...
LEMMA GotoTypes ==
    ASSUME SessTypeOK, NEW r \in Requests, NEW p \in Points, Goto(r, p)
    PROVE  /\ req' \in [Requests -> [at : Points, tok : Jtis \cup {None}]]
           /\ req'[r].at = p /\ req'[r].tok = req[r].tok
           /\ \A q \in Requests : q # r => req'[q] = req[q]
  BY DEF SessTypeOK, Goto, Points, At

\* ... or is answered.
LEMMA FinishTypes ==
    ASSUME SessTypeOK, NEW r \in Requests, Finish(r)
    PROVE  /\ req' \in [Requests -> [at : Points, tok : Jtis \cup {None}]]
           /\ req'[r].at = "idle"
           /\ \A q \in Requests : q # r => req'[q] = req[q]
  BY DEF SessTypeOK, Finish, Idle, At, Points

\* The requests' records.
Records == [at : Points, tok : Jtis \cup {None}]

\* Only one request moves in a step, to a record that is in order.
LEMMA OneMoves ==
    ASSUME SessInv, \A j \in Jtis : sess[j] # "unused" => sess'[j] # "unused",
           NEW r \in Requests, req' \in [Requests -> Records],
           \A q \in Requests : q # r => req'[q] = req[q],
           req'[r].at = "rotate" => req'[r].tok \in Jtis /\ sess'[req'[r].tok] # "unused",
           req'[r].at \in {"sign", "reply"} => req'[r].tok \in Jtis /\ sess'[req'[r].tok] # "unused",
           refresh' # None => refresh' \in Jtis /\ sess'[refresh'] # "unused"
    PROVE  TokensUsed'
  BY DEF SessInv, TokensUsed, Records

\* No request moves.
LEMMA NoneMoves ==
    ASSUME SessInv, \A j \in Jtis : sess[j] # "unused" => sess'[j] # "unused",
           \A r \in Requests : req'[r] = req[r] \/ req'[r].at = "idle",
           refresh' \in {refresh, None}
    PROVE  TokensUsed'
  BY DEF SessInv, SessTypeOK, TokensUsed

\* Every step keeps the types, and tokens in use are tokens that were drawn.
LEMMA NextTypes ==
    ASSUME SessInv, [SessNext]_sessVars,
           sess' \in [Jtis -> States], root' \in [Jtis -> Jtis \cup {None}],
           \A j \in Jtis : sess[j] # "unused" => sess'[j] # "unused"
    PROVE  SessTypeOK' /\ TokensUsed'
<1>0. SessTypeOK /\ (refresh # None => refresh \in Jtis /\ sess'[refresh] # "unused")
  BY DEF SessInv, SessTypeOK, TokensUsed
<1>t. ASSUME req' \in [Requests -> Records], hash' \in Passwords \cup {None}, attempts' \in Nat,
             refresh' \in Jtis \cup {None}, access' \in BOOLEAN
      PROVE  SessTypeOK'
  BY <1>t DEF SessTypeOK, Records, Points, States
<1>1. ASSUME NEW r \in Requests, NEW p \in Points \ {"rotate", "sign", "reply"}, Goto(r, p),
             UNCHANGED <<refresh, access>>, hash' \in Passwords \cup {None}, attempts' \in Nat
      PROVE  SessTypeOK' /\ TokensUsed'
  <2>1. req' \in [Requests -> Records] /\ req'[r].at = p
        /\ \A q \in Requests : q # r => req'[q] = req[q]
    BY <1>0, <1>1, GotoTypes DEF Records
  <2>2. TokensUsed'
    BY <1>0, <1>1, <2>1, OneMoves
  <2> QED
    BY <1>0, <1>1, <1>t, <2>1, <2>2 DEF SessTypeOK
<1>2. ASSUME NEW r \in Requests, Finish(r), hash' \in Passwords \cup {None}, attempts' \in Nat,
             refresh' \in Jtis \cup {None}, access' \in BOOLEAN,
             refresh' # None => sess'[refresh'] # "unused"
      PROVE  SessTypeOK' /\ TokensUsed'
  <2>1. req' \in [Requests -> Records] /\ req'[r].at = "idle"
        /\ \A q \in Requests : q # r => req'[q] = req[q]
    BY <1>0, <1>2, FinishTypes DEF Records
  <2>2. TokensUsed'
    BY <1>2, <2>1, OneMoves
  <2> QED
    BY <1>2, <1>t, <2>1, <2>2
<1>3. hash \in Passwords \cup {None} /\ attempts \in Nat /\ refresh \in Jtis \cup {None}
      /\ access \in BOOLEAN /\ req \in [Requests -> Records]
  BY <1>0 DEF SessTypeOK, Records, Points
<1>4. ASSUME NEW r \in Requests, LoginCheck(r) \/ Bootstrap(r) \/ ChangePassword(r)
      PROVE  SessTypeOK' /\ TokensUsed'
  BY <1>1, <1>3, <1>4 DEF LoginCheck, Bootstrap, ChangePassword, Points
<1>5. ASSUME NEW r \in Requests, NEW pw \in Passwords, LoginCompare(r, pw)
      PROVE  SessTypeOK' /\ TokensUsed'
  BY <1>0, <1>1, <1>2, <1>3, <1>5 DEF LoginCompare, Points
<1>6. ASSUME NEW r \in Requests, LoginRecord(r) \/ LoginReset(r)
      PROVE  SessTypeOK' /\ TokensUsed'
  BY <1>0, <1>1, <1>2, <1>3, <1>6 DEF LoginRecord, LoginReset, Points
<1>7. ASSUME NEW r \in Requests, NEW pw \in Passwords,
             BootstrapSet(r, pw) \/ ChangePasswordSet(r, pw)
      PROVE  SessTypeOK' /\ TokensUsed'
  BY <1>0, <1>1, <1>2, <1>3, <1>7 DEF BootstrapSet, ChangePasswordSet, Points
<1>8. ASSUME NEW r \in Requests, IssuePair(r)
      PROVE  SessTypeOK' /\ TokensUsed'
  <2>1. UNCHANGED <<hash, attempts, refresh, access>>
    BY <1>8 DEF IssuePair
  <2>2. CASE Finish(r)
    BY <1>0, <1>2, <1>3, <2>1, <2>2
  <2>3. CASE /\ Unused # {} /\ Enter(Fresh)
             /\ req' = [req EXCEPT ![r] = At("sign", Fresh)]
    <3>1. Fresh \in Jtis /\ sess'[Fresh] = "live"
      BY <2>3, FreshUnused DEF Enter, Become
    <3>2. /\ req' \in [Requests -> Records] /\ req'[r].at = "sign" /\ req'[r].tok = Fresh
          /\ \A q \in Requests : q # r => req'[q] = req[q]
      BY <1>3, <2>3, <3>1 DEF Records, Points, At
    <3>3. TokensUsed'
      BY <1>0, <2>1, <3>1, <3>2, OneMoves
    <3> QED
      BY <1>3, <1>t, <2>1, <3>2, <3>3
  <2> QED
    BY <1>8, <2>2, <2>3 DEF IssuePair
<1>9. ASSUME NEW r \in Requests, Refresh(r)
      PROVE  SessTypeOK' /\ TokensUsed'
  <2>1. UNCHANGED <<hash, attempts, refresh, access>> /\ refresh # None
    BY <1>9 DEF Refresh
  <2>2. /\ req' \in [Requests -> Records] /\ req'[r].at = "rotate" /\ req'[r].tok = refresh
        /\ \A q \in Requests : q # r => req'[q] = req[q]
    BY <1>3, <1>9 DEF Refresh, Records, Points, At
  <2>3. TokensUsed'
    BY <1>0, <2>1, <2>2, OneMoves
  <2> QED
    BY <1>3, <1>t, <2>1, <2>2, <2>3
<1>10. ASSUME NEW r \in Requests, Rotate(r)
      PROVE  SessTypeOK' /\ TokensUsed'
  <2>1. UNCHANGED <<hash, attempts, refresh, access>>
    BY <1>10 DEF Rotate
  <2>2. CASE Finish(r)
    BY <1>0, <1>2, <1>3, <2>1, <2>2
  <2>3. CASE /\ Unused # {}
             /\ sess' = [sess EXCEPT ![req[r].tok] = "gone", ![Fresh] = "live"]
             /\ req' = [req EXCEPT ![r] = At("sign", Fresh)]
    <3>1. Fresh \in Jtis /\ sess'[Fresh] = "live"
      BY <1>0, <2>3, FreshUnused DEF SessTypeOK
    <3>2. /\ req' \in [Requests -> Records] /\ req'[r].at = "sign" /\ req'[r].tok = Fresh
          /\ \A q \in Requests : q # r => req'[q] = req[q]
      BY <1>3, <2>3, <3>1 DEF Records, Points, At
    <3>3. TokensUsed'
      BY <1>0, <2>1, <3>1, <3>2, OneMoves
    <3> QED
      BY <1>3, <1>t, <2>1, <3>2, <3>3
  <2> QED
    BY <1>10, <2>2, <2>3 DEF Rotate
<1>11. ASSUME NEW r \in Requests, RotateRefused(r) \/ SignFails(r) \/ ReplyLost(r)
      PROVE  SessTypeOK' /\ TokensUsed'
  BY <1>0, <1>2, <1>3, <1>11 DEF RotateRefused, SignFails, ReplyLost
<1>12. ASSUME NEW r \in Requests, Sign(r)
      PROVE  SessTypeOK' /\ TokensUsed'
  <2>1. UNCHANGED <<sess, hash, attempts, refresh, access>> /\ Goto(r, "reply") /\ req[r].at = "sign"
    BY <1>12 DEF Sign
  <2>2. "reply" \in Points
    BY DEF Points
  <2>3. /\ req' \in [Requests -> Records] /\ req'[r].at = "reply" /\ req'[r].tok = req[r].tok
        /\ \A q \in Requests : q # r => req'[q] = req[q]
    BY <1>0, <2>1, <2>2, GotoTypes DEF Records
  <2>4. req[r].tok \in Jtis /\ sess'[req[r].tok] # "unused"
    BY <2>1 DEF SessInv, TokensUsed
  <2>5. TokensUsed'
    BY <1>0, <2>1, <2>3, <2>4, OneMoves
  <2> QED
    BY <1>3, <1>t, <2>1, <2>3, <2>5
<1>13. ASSUME NEW r \in Requests, Reply(r)
      PROVE  SessTypeOK' /\ TokensUsed'
  <2>1. /\ Finish(r) /\ refresh' = req[r].tok /\ access' = TRUE /\ req[r].at = "reply"
        /\ UNCHANGED <<sess, hash, attempts>>
    BY <1>13 DEF Reply, SetTokenCookies
  <2>2. req[r].tok \in Jtis /\ sess'[req[r].tok] # "unused"
    BY <2>1 DEF SessInv, TokensUsed
  <2> QED
    BY <1>2, <1>3, <2>1, <2>2
<1>14. ASSUME NEW r \in Requests, NEW rt \in Jtis \cup {None}, Logout(r, rt)
      PROVE  SessTypeOK' /\ TokensUsed'
  <2>1. UNCHANGED <<hash, attempts, req>> /\ refresh' = None /\ access' = FALSE
    BY <1>14 DEF Logout, ClearTokenCookies
  <2> QED
    BY <1>3, <1>t, <2>1, NoneMoves
<1>15. ASSUME NEW j \in Jtis, SessionAges(j)
      PROVE  SessTypeOK' /\ TokensUsed'
  BY <1>3, <1>t, <1>15, NoneMoves DEF SessionAges
<1>16. CASE AccessExpires \/ CookieExpires \/ AttemptAges \/ PurgeExpired
  <2>1. /\ UNCHANGED <<hash, req>> /\ refresh' \in {refresh, None}
        /\ attempts' \in Nat
    BY <1>3, <1>16 DEF AccessExpires, CookieExpires, AttemptAges, PurgeExpired
  <2>2. access' = access \/ access' = FALSE
    BY <1>16 DEF AccessExpires, CookieExpires, AttemptAges, PurgeExpired
  <2> QED
    BY <1>3, <1>t, <2>1, <2>2, NoneMoves
<1>17. CASE SessRestart
  <2>1. UNCHANGED <<hash, refresh, access>> /\ attempts' = 0 /\ req' = [r \in Requests |-> Idle]
    BY <1>17 DEF SessRestart
  <2>2. Idle \in Records /\ Idle.at = "idle"
    BY DEF Idle, At, Records, Points
  <2>3. req' \in [Requests -> Records] /\ \A r \in Requests : req'[r].at = "idle"
    BY <2>1, <2>2
  <2> QED
    BY <1>3, <1>t, <2>1, <2>3, NoneMoves
<1>18. CASE UNCHANGED sessVars
  BY <1>3, <1>t, <1>18, NoneMoves DEF sessVars
<1> QED
  BY <1>4, <1>5, <1>6, <1>7, <1>8, <1>9, <1>10, <1>11, <1>12, <1>13, <1>14, <1>15, <1>16,
     <1>17, <1>18 DEF SessNext

\* Every step keeps the invariant.
LEMMA NextSessInv == SessInv /\ [SessNext]_sessVars => SessInv'
<1> SUFFICES ASSUME SessInv, [SessNext]_sessVars PROVE SessInv'
  OBVIOUS
<1>1. Ends \/ Begins \/ \E old \in Jtis : Replaces(old)
  BY StepKinds
<1>2. /\ RootsUsed' /\ LoginHasOneSession'
      /\ sess' \in [Jtis -> States] /\ root' \in [Jtis -> Jtis \cup {None}]
      /\ \A j \in Jtis : sess[j] # "unused" => sess'[j] # "unused"
  BY <1>1, KindsKeepRoots
<1>3. SessTypeOK' /\ TokensUsed'
  BY <1>2, NextTypes
<1> QED
  BY <1>2, <1>3 DEF SessInv

\* Every variable keeps its type; requests and cookies never hold a token that
\* the store did not issue.
THEOREM SessTypesAlways == SessSpec => []SessTypeOK
<1>1. SessInv => SessTypeOK
  BY DEF SessInv
<1> QED
  BY <1>1, InitSessInv, NextSessInv, PTL DEF SessSpec

\* A login never has two sessions in the store, whatever the order of refreshes,
\* replays, failures, expiries and restarts: Store.Rotate.
THEOREM LoginHasOneSessionAlways == SessSpec => []LoginHasOneSession
<1>1. SessInv => LoginHasOneSession
  BY DEF SessInv
<1> QED
  BY <1>1, InitSessInv, NextSessInv, PTL DEF SessSpec

-----------------------------------------------------------------------------
(* The refinement.  The good token of a chain is the one session the login  *)
(* has; the three kinds of steps are the three steps of TokenChain.         *)

\* The session of a login is the good token of its chain, ...
LEMMA CurrentIs ==
    ASSUME LoginHasOneSession, NEW c \in Jtis, NEW j \in Jtis, Held(j), root[j] = c
    PROVE  CurrentOf(c) = j
<1>1. \A i \in Jtis : Held(i) /\ root[i] = c => i = j
  BY DEF LoginHasOneSession
<1> QED
  BY <1>1 DEF CurrentOf

\* ... and without one the chain has ended.
LEMMA CurrentIsNone ==
    ASSUME NEW c \in Jtis, \A j \in Jtis : ~(Held(j) /\ root[j] = c)
    PROVE  CurrentOf(c) = None
  BY DEF CurrentOf

\* The same in the state after a step.
LEMMA CurrentIsNext ==
    ASSUME LoginHasOneSession', NEW c \in Jtis, NEW j \in Jtis, Held(j)', root'[j] = c
    PROVE  CurrentOf(c)' = j
<1>1. \A i \in Jtis : Held(i)' /\ root'[i] = c => i = j
  BY DEF LoginHasOneSession
<1> QED
  BY <1>1 DEF CurrentOf

\* And in the next state.
LEMMA CurrentIsNoneNext ==
    ASSUME NEW c \in Jtis, \A j \in Jtis : ~(Held(j)' /\ root'[j] = c)
    PROVE  CurrentOf(c)' = None
  BY DEF CurrentOf

\* Where sessions only end, so do chains.
LEMMA EndsChains ==
    ASSUME SessInv, LoginHasOneSession', Ends
    PROVE  \E C \in SUBSET Jtis : Chain!End(C)
<1> DEFINE C == {c \in Jtis : \A j \in Jtis : ~(Held(j)' /\ root'[j] = c)}
<1>1. Jtis \ Unused' = Jtis \ Unused
  BY DEF Ends, Unused
<1>2. \A c \in Jtis : CurrentOf(c)' = IF c \in C THEN None ELSE CurrentOf(c)
  <2> SUFFICES ASSUME NEW c \in Jtis
               PROVE  CurrentOf(c)' = IF c \in C THEN None ELSE CurrentOf(c)
    OBVIOUS
  <2>1. CASE c \in C
    BY <2>1, CurrentIsNoneNext
  <2>2. CASE c \notin C
    <3>1. PICK j \in Jtis : Held(j)' /\ root'[j] = c
      BY <2>2
    <3>2. Held(j) /\ root[j] = c
      BY <3>1 DEF Ends
    <3>3. CurrentOf(c)' = j /\ CurrentOf(c) = j
      BY <3>1, <3>2, CurrentIs, CurrentIsNext DEF SessInv
    <3> QED
      BY <2>2, <3>3
  <2> QED
    BY <2>1, <2>2
<1>3. [c \in Jtis |-> CurrentOf(c)]' = [c \in Jtis |-> IF c \in C THEN None ELSE [d \in Jtis |-> CurrentOf(d)][c]]
  BY <1>2
<1> QED
  BY <1>1, <1>3 DEF Chain!End

\* A new session starts a chain.
LEMMA BeginsChain ==
    ASSUME SessInv, LoginHasOneSession', Begins
    PROVE  \E t \in Jtis : Chain!Issue(t)
<1>1. PICK t \in Jtis : t = Fresh /\ sess[t] = "unused"
  BY FreshUnused DEF Begins
<1>2. /\ sess' = [j \in Jtis |-> IF j = t THEN "live" ELSE sess[j]]
      /\ root' = [root EXCEPT ![t] = t]
  BY <1>1 DEF Begins, Enter, Become
<1>3. root \in [Jtis -> Jtis \cup {None}]
  BY DEF SessInv, SessTypeOK
<1>4. t \notin Jtis \ Unused /\ Jtis \ Unused' = (Jtis \ Unused) \cup {t}
  BY <1>1, <1>2 DEF Unused
<1>5. CurrentOf(t)' = t
  <2>1. Held(t)' /\ root'[t] = t
    BY <1>1, <1>2, <1>3 DEF Held
  <2> QED
    BY <1>1, <2>1, CurrentIsNext
<1>6. ASSUME NEW c \in Jtis, c # t
      PROVE  CurrentOf(c)' = CurrentOf(c)
  <2>1. \A j \in Jtis : Held(j)' /\ root'[j] = c <=> Held(j) /\ root[j] = c
    BY <1>1, <1>2, <1>3, <1>6 DEF Held
  <2>2. CASE \E j \in Jtis : Held(j) /\ root[j] = c
    <3>1. PICK j \in Jtis : Held(j) /\ root[j] = c
      BY <2>2
    <3> QED
      BY <2>1, <3>1, CurrentIs, CurrentIsNext DEF SessInv
  <2>3. CASE ~\E j \in Jtis : Held(j) /\ root[j] = c
    BY <2>1, <2>3, CurrentIsNone, CurrentIsNoneNext
  <2> QED
    BY <2>2, <2>3
<1>7. [c \in Jtis |-> CurrentOf(c)]' = [[c \in Jtis |-> CurrentOf(c)] EXCEPT ![t] = t]
  BY <1>1, <1>5, <1>6
<1> QED
  BY <1>4, <1>7 DEF Chain!Issue

\* A rotation advances a chain.
LEMMA ReplacesAdvances ==
    ASSUME SessInv, LoginHasOneSession', NEW old \in Jtis, Replaces(old)
    PROVE  root[old] \in Jtis /\ \E t \in Jtis : Chain!Advance(root[old], t)
<1>1. PICK t \in Jtis : t = Fresh /\ sess[t] = "unused"
  BY FreshUnused DEF Replaces
<1>2. /\ sess' = [sess EXCEPT ![old] = "gone", ![t] = "live"] /\ sess[old] = "live"
      /\ root' = [root EXCEPT ![t] = root[old]]
  BY <1>1 DEF Replaces
<1>3. /\ sess \in [Jtis -> States] /\ root \in [Jtis -> Jtis \cup {None}]
      /\ root[old] \in Jtis
  BY <1>2 DEF SessInv, SessTypeOK, RootsUsed, States
<1>4. t \notin Jtis \ Unused /\ Jtis \ Unused' = (Jtis \ Unused) \cup {t}
  BY <1>1, <1>2, <1>3 DEF Unused
<1>5. CurrentOf(root[old]) = old
  BY <1>2, <1>3, CurrentIs DEF SessInv, Held
<1>6. CurrentOf(root[old]) # None
  BY <1>5, SessAssumption
<1>7. \A c \in Jtis : c = root[old] => CurrentOf(c)' = t
  <2> SUFFICES ASSUME NEW c \in Jtis, c = root[old] PROVE CurrentOf(c)' = t
    OBVIOUS
  <2>1. Held(t)' /\ root'[t] = c
    BY <1>1, <1>2, <1>3 DEF Held
  <2> QED
    BY <1>1, <2>1, CurrentIsNext
<1>8. ASSUME NEW c \in Jtis, c # root[old]
      PROVE  CurrentOf(c)' = CurrentOf(c)
  <2>1. \A j \in Jtis : Held(j)' /\ root'[j] = c <=> Held(j) /\ root[j] = c
    BY <1>1, <1>2, <1>3, <1>8 DEF Held
  <2>2. CASE \E j \in Jtis : Held(j) /\ root[j] = c
    <3>1. PICK j \in Jtis : Held(j) /\ root[j] = c
      BY <2>2
    <3> QED
      BY <2>1, <3>1, CurrentIs, CurrentIsNext DEF SessInv
  <2>3. CASE ~\E j \in Jtis : Held(j) /\ root[j] = c
    BY <2>1, <2>3, CurrentIsNone, CurrentIsNoneNext
  <2> QED
    BY <2>2, <2>3
<1>9. [c \in Jtis |-> CurrentOf(c)]' = [[c \in Jtis |-> CurrentOf(c)] EXCEPT ![root[old]] = t]
  BY <1>3, <1>7, <1>8
<1>10. [c \in Jtis |-> CurrentOf(c)][root[old]] # None
  BY <1>3, <1>6
<1> QED
  BY <1>1, <1>3, <1>4, <1>9, <1>10 DEF Chain!Advance

\* The store implements TokenChain: the initial state is one of its, and every
\* step is one of its steps.  refreshtoken/store.go keeps the promise of
\* rotating tokens.
THEOREM ImplementsTokenChain == SessSpec => SessionsAreChains
<1>1. SessInit => Chain!ChainInit
  <2> SUFFICES ASSUME SessInit PROVE Chain!ChainInit
    OBVIOUS
  <2>1. Jtis \ Unused = {}
    BY DEF SessInit, Unused
  <2>2. \A c \in Jtis : CurrentOf(c) = None
    BY CurrentIsNone DEF SessInit, Held
  <2> QED
    BY <2>1, <2>2 DEF Chain!ChainInit
<1>2. SessInv /\ SessInv' /\ [SessNext]_sessVars => [Chain!ChainNext]_(Chain!chainVars)
  <2> SUFFICES ASSUME SessInv, SessInv', [SessNext]_sessVars
               PROVE  Chain!ChainNext
    OBVIOUS
  <2>1. LoginHasOneSession'
    BY DEF SessInv
  <2>2. Ends \/ Begins \/ \E old \in Jtis : Replaces(old)
    BY StepKinds
  <2>3. CASE Ends
    BY <2>1, <2>3, EndsChains DEF Chain!ChainNext
  <2>4. CASE Begins
    BY <2>1, <2>4, BeginsChain DEF Chain!ChainNext
  <2>5. CASE \E old \in Jtis : Replaces(old)
    <3>1. PICK old \in Jtis : Replaces(old)
      BY <2>5
    <3>2. root[old] \in Jtis /\ \E t \in Jtis : Chain!Advance(root[old], t)
      BY <2>1, <3>1, ReplacesAdvances
    <3> QED
      BY <3>2 DEF Chain!ChainNext
  <2> QED
    BY <2>2, <2>3, <2>4, <2>5
<1> QED
  BY <1>1, <1>2, InitSessInv, NextSessInv, PTL DEF SessSpec, SessionsAreChains, Chain!ChainSpec
-----------------------------------------------------------------------------
(* The three together.                                                      *)

\* A step of the whole is a step of each part, or leaves it alone.
LEMMA EachPart == Spec => SessSpec /\ KeySpec /\ HealthSpec
<1>1. Init => SessInit /\ KeyInit /\ HealthInit
  BY DEF Init
<1>2. [Next]_vars => [SessNext]_sessVars
  BY DEF Next, OfSessions, OfKeys, OfHealth, vars
<1>3. [Next]_vars => [KeyNext]_keyVars
  BY DEF Next, OfSessions, OfKeys, OfHealth, vars
<1>4. [Next]_vars => [HealthNext]_healthVars
  BY DEF Next, OfSessions, OfKeys, OfHealth, vars
<1> QED
  BY <1>1, <1>2, <1>3, <1>4, PTL DEF Spec, SessSpec, KeySpec, HealthSpec

\* Every variable of the sessions, the key files and the monitor keeps its type,
\* for every number of tokens, faults, days and probes.
THEOREM ServicesTypesAlways == Spec => []ServicesTypeOK
<1>1. SessTypeOK /\ KeyTypeOK /\ HealthTypeOK <=> ServicesTypeOK
  BY DEF ServicesTypeOK
<1> QED
  BY <1>1, EachPart, SessTypesAlways, KeyTypesAlways, PlacesAreProbesAlways, PTL
=============================================================================
