----------------------------- MODULE TokenChain -----------------------------
(***************************************************************************)
(* What rotating refresh tokens promise: a login starts a chain of tokens, *)
(* at most one token of a chain is good at any time, a token is handed out *)
(* once, and a chain that has ended never continues.                       *)
(***************************************************************************)

CONSTANTS
    Tokens,   \* the identifiers of refresh tokens
    NoToken   \* no identifier

VARIABLES
    issued,   \* the tokens handed out so far
    current   \* the good token of the chain that a token started

chainVars == <<issued, current>>

ChainInit ==
    /\ issued = {}
    /\ current = [c \in Tokens |-> NoToken]

\* A login: its token is the start of a chain of its own.
Issue(t) ==
    /\ t \notin issued
    /\ issued' = issued \cup {t}
    /\ current' = [current EXCEPT ![t] = t]

\* A refresh: the token of chain c is replaced by a new one.
Advance(c, t) ==
    /\ current[c] # NoToken
    /\ t \notin issued
    /\ issued' = issued \cup {t}
    /\ current' = [current EXCEPT ![c] = t]

\* The chains C end: logout, expiry, a failed answer or a restart.
End(C) ==
    /\ issued' = issued
    /\ current' = [c \in Tokens |-> IF c \in C THEN NoToken ELSE current[c]]

ChainNext ==
    \/ \E t \in Tokens : Issue(t)
    \/ \E c, t \in Tokens : Advance(c, t)
    \/ \E C \in SUBSET Tokens : End(C)

ChainSpec == ChainInit /\ [][ChainNext]_chainVars
=============================================================================
