------------------------------- MODULE Tokens -------------------------------
(***************************************************************************)
(* The store of OAuth bearer tokens (handlers/oauth.go): a map from token  *)
(* to expiry, each operation one section of its mutex.  Expired tokens are *)
(* removed by the lookup that meets them, and by nothing else.             *)
(***************************************************************************)
EXTENDS Naturals

CONSTANTS
  Bearers,  \* tokens uuid.NewString() may hand out
  TTL,      \* tokenTTL
  MaxClock  \* bound: the last instant

ASSUME TokensAssumption == TTL \in Nat \ {0} /\ MaxClock \in Nat

VARIABLES
  clock,    \* time.Now(), which does not go back
  used,     \* tokens that have been handed out
  expiry,   \* tokens: the expiry of a token, 0 for one that is not there
  granted   \* history: the expiry a token was issued with, 0 once revoked

tokenVars == <<clock, used, expiry, granted>>

NoTokens == [t \in Bearers |-> 0]

TokensTypeOK ==
  /\ clock \in 0..MaxClock
  /\ used \subseteq Bearers
  /\ expiry \in [Bearers -> Nat]
  /\ granted \in [Bearers -> Nat]

TokensInit ==
  /\ clock = 0
  /\ used = {}
  /\ expiry = NoTokens
  /\ granted = NoTokens

Tick ==
  /\ clock < MaxClock
  /\ clock' = clock + 1
  /\ UNCHANGED <<used, expiry, granted>>

\* POST /oauth/token.
Issue(t) ==
  /\ t \notin used
  /\ used' = used \cup {t}
  /\ expiry' = [expiry EXCEPT ![t] = clock + TTL]
  /\ granted' = [granted EXCEPT ![t] = clock + TTL]
  /\ UNCHANGED clock

\* What Valid answers for t.
Accepted(t) == expiry[t] # 0 /\ clock <= expiry[t]

\* Mutant: a lookup at the very instant of the expiry removes the token.
LookupEager(t) ==
  /\ expiry' = [expiry EXCEPT ![t] = IF clock >= @ THEN 0 ELSE @]
  /\ UNCHANGED <<clock, used, granted>>

\* What Valid does: it removes t if it finds it expired.
Lookup(t) ==
  /\ expiry' = [expiry EXCEPT ![t] = IF clock > @ THEN 0 ELSE @]
  /\ UNCHANGED <<clock, used, granted>>

\* Reset of the cache, and the start of a process: no tokens.
ResetTokens ==
  /\ expiry' = NoTokens
  /\ granted' = NoTokens
  /\ UNCHANGED <<clock, used>>

-----------------------------------------------------------------------------
\* A token is accepted from its issue up to and including the instant of its
\* expiry, unless a reset or a restart revokes it: lookups, whenever they come,
\* neither shorten that time nor make it longer.
HonouredToItsExpiry ==
  \A t \in Bearers : Accepted(t) <=> granted[t] # 0 /\ clock <= granted[t]
=============================================================================
