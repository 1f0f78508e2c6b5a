----------------------------- MODULE KeyMaterial -----------------------------
(***************************************************************************)
(* The key files of the data directory: the master key that seals secrets  *)
(* in the database, the key that signs tokens, and the TLS pair with its   *)
(* renewal.  The process may die between any two steps and the supervisor  *)
(* starts it again.  os.WriteFile truncates and then writes, so a file may *)
(* be left torn.  A file is 0 when absent, -1 when torn and otherwise the  *)
(* name of the key in it; names not in use anywhere serve for new keys.    *)
(***************************************************************************)
EXTENDS Integers

CONSTANTS
    ValidDays,     \* life of a generated certificate (365)
    RenewWithin,   \* renewal starts when fewer days are left (30)
    MaxFaults      \* bound: deaths of the process and failed file operations

ASSUME KeyAssumption ==
    ValidDays \in Nat /\ RenewWithin \in Nat /\ RenewWithin > 0 /\ MaxFaults \in Nat

VARIABLES
    proc,        \* "down", the next step of main(), or "up"
    master, jwt, crt, key,   \* the files
    mk,          \* the master key in memory; 0 when there is none
    sealed,      \* history: the master key secrets were sealed with; 0: no secret
    cert,        \* Manager.cert by the name of its key; 0 before it is loaded
    certLeft,    \* days until it expires; -1: it has
    crtLeft,     \* the same for the certificate in the file
    gen,         \* the step of the renewal or of generateAndSave
    due,         \* the renewal ticker has fired
    auto,        \* Config.AutoCert
    kept,        \* history: a renewal left the old key file without its certificate
    faults

keyFiles == <<master, jwt, crt, key>>
keyVars == <<proc, keyFiles, mk, sealed, cert, certLeft, crtLeft, gen, due, auto,
             kept, faults>>

Absent == 0
Torn == -1
Names == 1 .. 4
Left == -1 .. ValidDays

KeyTypeOK ==
    /\ proc \in {"down", "master", "master_fill", "jwt", "jwt_fill", "tls", "up"}
    /\ master \in Names \cup {Absent, Torn} /\ jwt \in {Absent, Torn, 1}
    /\ crt \in Names \cup {Absent, Torn} /\ key \in Names \cup {Absent, Torn}
    /\ mk \in Names \cup {0} /\ sealed \in Names \cup {0} /\ cert \in Names \cup {0}
    /\ certLeft \in Left /\ crtLeft \in Left
    /\ gen \in {"none", "rm_crt", "rm_key", "crt", "crt_fill", "key", "key_fill", "load"}
    /\ due \in BOOLEAN /\ auto \in BOOLEAN /\ kept \in BOOLEAN
    /\ faults \in 0 .. MaxFaults

\* An empty data directory, or a certificate the operator has put there.
KeyInit ==
    /\ proc = "down"
    /\ master = Absent /\ jwt = Absent
    /\ \/ crt = Absent /\ key = Absent /\ crtLeft = 0
       \/ crt = 1 /\ key = 1 /\ crtLeft \in Left \ {-1}
    /\ mk = 0 /\ sealed = 0 /\ cert = 0 /\ certLeft = 0
    /\ gen = "none" /\ due = FALSE /\ auto \in BOOLEAN
    /\ kept = FALSE /\ faults = 0

NewMaster == CHOOSE g \in Names : g \notin {master, mk, sealed}
NewCert == CHOOSE g \in Names : g \notin {crt, key, cert}

Fault == faults < MaxFaults /\ faults' = faults + 1

\* Nothing of the process is left; a due check is forgotten.
Die ==
    /\ proc' = "down" /\ mk' = 0 /\ cert' = 0 /\ certLeft' = 0
    /\ gen' = "none" /\ due' = FALSE

-----------------------------------------------------------------------------
(* main(): master key, signing key, TLS *)

Boot ==
    /\ proc = "down"
    /\ proc' = "master"
    /\ UNCHANGED <<keyFiles, mk, sealed, cert, certLeft, crtLeft, gen, due, auto, kept, faults>>

\* loadMasterKey: a file of 32 bytes is used; one that is absent or of another
\* length is truncated for a new key.
LoadMaster ==
    /\ proc = "master"
    /\ \/ master > 0 /\ mk' = master /\ proc' = "jwt" /\ UNCHANGED master
       \/ master <= 0 /\ master' = Torn /\ proc' = "master_fill" /\ UNCHANGED mk
    /\ UNCHANGED <<jwt, crt, key, sealed, cert, certLeft, crtLeft, gen, due, auto, kept, faults>>

FillMaster ==
    /\ proc = "master_fill"
    /\ master' = NewMaster /\ mk' = NewMaster
    /\ proc' = "jwt"
    /\ UNCHANGED <<jwt, crt, key, sealed, cert, certLeft, crtLeft, gen, due, auto, kept, faults>>

\* loadOrCreateRS256: a file that does not parse ends the process.
LoadJwt ==
    /\ proc = "jwt"
    /\ \/ jwt > 0 /\ proc' = "tls"
          /\ UNCHANGED <<keyFiles, mk, cert, certLeft, gen, due>>
       \/ jwt = Absent /\ jwt' = Torn /\ proc' = "jwt_fill"
          /\ UNCHANGED <<master, crt, key, mk, cert, certLeft, gen, due>>
       \/ jwt = Torn /\ Die /\ UNCHANGED keyFiles
    /\ UNCHANGED <<sealed, crtLeft, auto, kept, faults>>

FillJwt ==
    /\ proc = "jwt_fill"
    /\ jwt' = 1
    /\ proc' = "tls"
    /\ UNCHANGED <<master, crt, key, mk, sealed, cert, certLeft, crtLeft, gen, due, auto,
                   kept, faults>>

\* The certificate of the file is served.  If a boot finds it inside the
\* renewal window, the first check is still a day away.
Serve ==
    /\ cert' = crt /\ certLeft' = crtLeft /\ proc' = "up" /\ gen' = "none"
    /\ kept' = FALSE

\* Mutation of LoadTls: one of the two files is enough to skip generation.
LoadTlsEither ==
    /\ proc = "tls" /\ gen = "none"
    /\ \/ (crt # Absent \/ key # Absent) /\ crt = key /\ crt > 0 /\ Serve
          /\ UNCHANGED <<keyFiles, mk, due>>
       \/ (crt # Absent \/ key # Absent) /\ ~(crt = key /\ crt > 0) /\ Die
          /\ UNCHANGED <<keyFiles, kept>>
       \/ crt = Absent /\ key = Absent /\ ~auto /\ Die /\ UNCHANGED <<keyFiles, kept>>
       \/ crt = Absent /\ key = Absent /\ auto /\ gen' = "crt"
          /\ UNCHANGED <<proc, keyFiles, mk, cert, certLeft, due, kept>>
    /\ UNCHANGED <<sealed, crtLeft, auto, faults>>

\* loadOrGenerate: two files that are there must load.
LoadTls ==
    /\ proc = "tls" /\ gen = "none"
    /\ \/ crt # Absent /\ key # Absent /\ crt = key /\ crt > 0 /\ Serve
          /\ UNCHANGED <<keyFiles, mk, due>>
       \/ crt # Absent /\ key # Absent /\ ~(crt = key /\ crt > 0) /\ Die
          /\ UNCHANGED <<keyFiles, kept>>
       \/ (crt = Absent \/ key = Absent) /\ ~auto /\ Die /\ UNCHANGED <<keyFiles, kept>>
       \/ (crt = Absent \/ key = Absent) /\ auto /\ gen' = "crt"
          /\ UNCHANGED <<proc, keyFiles, mk, cert, certLeft, due, kept>>
    /\ UNCHANGED <<sealed, crtLeft, auto, faults>>

-----------------------------------------------------------------------------
(* generateAndSave: the certificate file, then the key file *)

TruncateCrt ==
    /\ gen = "crt"
    /\ crt' = Torn /\ crtLeft' = 0
    /\ gen' = "crt_fill"
    /\ UNCHANGED <<proc, master, jwt, key, mk, sealed, cert, certLeft, due, auto, kept, faults>>

FillCrt ==
    /\ gen = "crt_fill"
    /\ crt' = NewCert /\ crtLeft' = ValidDays
    /\ gen' = "key"
    /\ UNCHANGED <<proc, master, jwt, key, mk, sealed, cert, certLeft, due, auto, kept, faults>>

TruncateKey ==
    /\ gen = "key"
    /\ key' = Torn
    /\ gen' = "key_fill"
    /\ UNCHANGED <<proc, master, jwt, crt, mk, sealed, cert, certLeft, crtLeft, due, auto,
                   kept, faults>>

FillKey ==
    /\ gen = "key_fill"
    /\ key' = crt
    /\ gen' = "load"
    /\ UNCHANGED <<proc, master, jwt, crt, mk, sealed, cert, certLeft, crtLeft, due, auto,
                   kept, faults>>

LoadPair ==
    /\ gen = "load"
    /\ Serve
    /\ UNCHANGED <<keyFiles, mk, sealed, crtLeft, due, auto, faults>>

-----------------------------------------------------------------------------
(* The running server *)

\* EncryptGCM: the private key of a tunnel or a peer goes to the database.
Seal ==
    /\ proc = "up" /\ sealed = 0
    /\ sealed' = mk
    /\ UNCHANGED <<proc, keyFiles, mk, cert, certLeft, crtLeft, gen, due, auto, kept, faults>>

Aged(n) == IF n < 0 THEN n ELSE n - 1

\* The ticker of a process that lived through the day fires; a check is over
\* before the next one (boots and renewals take less than a day).
DayPasses ==
    /\ proc \in {"up", "down"} /\ gen = "none" /\ ~due
    /\ certLeft' = (IF cert = 0 THEN 0 ELSE Aged(certLeft))
    /\ crtLeft' = (IF crt <= 0 THEN 0 ELSE Aged(crtLeft))
    /\ due' = (proc = "up")
    /\ UNCHANGED <<proc, keyFiles, mk, sealed, cert, gen, auto, kept, faults>>

\* Mutation of Check: the old files are overwritten in place.
CheckInPlace ==
    /\ due
    /\ due' = FALSE
    /\ gen' = (IF certLeft < RenewWithin /\ auto THEN "crt" ELSE "none")
    /\ UNCHANGED <<proc, keyFiles, mk, sealed, cert, certLeft, crtLeft, auto, kept, faults>>

\* renewalLoop: shouldRenew looks at the certificate in memory.
Check ==
    /\ due
    /\ due' = FALSE
    /\ gen' = (IF certLeft < RenewWithin /\ auto THEN "rm_crt" ELSE "none")
    /\ UNCHANGED <<proc, keyFiles, mk, sealed, cert, certLeft, crtLeft, auto, kept, faults>>

RemoveCrt ==
    /\ gen = "rm_crt"
    /\ crt' = Absent /\ crtLeft' = 0
    /\ gen' = "rm_key"
    /\ UNCHANGED <<proc, master, jwt, key, mk, sealed, cert, certLeft, due, auto, kept, faults>>

RemoveKey ==
    /\ gen = "rm_key"
    /\ key' = Absent
    /\ gen' = "crt"
    /\ UNCHANGED <<proc, master, jwt, crt, mk, sealed, cert, certLeft, crtLeft, due, auto,
                   kept, faults>>

-----------------------------------------------------------------------------
(* Faults *)

\* The process is killed, at any step; a restart by the operator is the same.
Crash ==
    /\ proc # "down" /\ Fault
    /\ Die
    /\ kept' = (kept \/ gen = "rm_key")
    /\ UNCHANGED <<keyFiles, sealed, crtLeft, auto>>

\* Mutation of BootFileFails: a master key that cannot be read is replaced.
BootFileFailsReplace ==
    /\ proc = "master" /\ Fault
    /\ master' = NewMaster /\ mk' = NewMaster
    /\ proc' = "jwt"
    /\ UNCHANGED <<jwt, crt, key, sealed, cert, certLeft, crtLeft, gen, due, auto, kept>>

\* A file cannot be read, opened or written to the end: main() gives up.
BootFileFails ==
    /\ proc \in {"master", "master_fill", "jwt", "jwt_fill", "tls"} /\ Fault
    /\ Die
    /\ UNCHANGED <<keyFiles, sealed, crtLeft, auto, kept>>

\* The errors of os.Remove are ignored.
RemoveFails ==
    /\ gen \in {"rm_crt", "rm_key"} /\ Fault
    /\ gen' = (IF gen = "rm_crt" THEN "rm_key" ELSE "crt")
    /\ kept' = TRUE
    /\ UNCHANGED <<proc, keyFiles, mk, sealed, cert, certLeft, crtLeft, due, auto>>

\* A failed renewal goes on with the old certificate until the next check.
RenewFails ==
    /\ proc = "up" /\ gen \in {"crt", "crt_fill", "key", "key_fill", "load"} /\ Fault
    /\ gen' = "none"
    /\ UNCHANGED <<proc, keyFiles, mk, sealed, cert, certLeft, crtLeft, due, auto, kept>>

BootStep ==
    \/ Boot \/ LoadMaster \/ FillMaster \/ LoadJwt \/ FillJwt \/ LoadTls
    \/ TruncateCrt \/ FillCrt \/ TruncateKey \/ FillKey \/ LoadPair

KeyNext ==
    \/ BootStep
    \/ Seal \/ DayPasses \/ Check \/ RemoveCrt \/ RemoveKey
    \/ Crash \/ BootFileFails \/ RemoveFails \/ RenewFails

KeySpec == KeyInit /\ [][KeyNext]_keyVars

-----------------------------------------------------------------------------
(* Properties *)

\* However starts, crashes and failing files alternate, a server that is up
\* has the master key its stored secrets were sealed with; loadMasterKey
\* replaces a file it finds damaged, but never one that sealed anything.  (The
\* process dies; what it has written is on disk.)
SecretsSurvive == proc = "up" /\ sealed # 0 => mk = sealed /\ master = sealed

\* The two TLS files do not come to hold a certificate and the key of another
\* one, at whatever step the process dies: such a pair would keep the server
\* from ever starting again.  It takes two faults: a removal that failed or a
\* death between the two removals, and then a death between the two writes.
FilesMatch == crt > 0 /\ key > 0 /\ crt # key => kept

\* Files no start gets past: a torn signing key, a TLS pair that does not load,
\* or no pair and no permission to generate one.
Damaged ==
    \/ jwt = Torn
    \/ crt # Absent /\ key # Absent /\ ~(crt = key /\ crt > 0)
    \/ ~auto /\ (crt = Absent \/ key = Absent)

\* A process that is down comes up again, unless one of those was left behind.
BootServes == (proc = "down") ~> (proc = "up" \/ Damaged)
=============================================================================
