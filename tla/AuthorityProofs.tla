--------------------------- MODULE AuthorityProofs ---------------------------
(***************************************************************************)
(* What every consumer of the central sessions may rely on, proved once for *)
(* the actions of Authority: the provider, forward authentication and the   *)
(* accounts cite these lemmas for the session half of their steps.          *)
(***************************************************************************)
EXTENDS Authority, TLAPS

AuthorityTypeOK ==
    /\ now \in Nat
    /\ active \in [Users -> BOOLEAN]
    /\ token_version \in [Users -> Nat]
    /\ revoked_before \in [Users -> Int]
    /\ creds \subseteq Credential
    /\ dead \subseteq Logins

\* Credentials of a login belong to one user, and once the login was revoked
\* the user's version has moved past all of them.
CredentialsOK ==
    /\ \A c \in creds : c.exp <= c.session_exp
    /\ \A c, d \in creds : c.login = d.login => c.user = d.user
    /\ \A n \in dead : \E c \in creds : c.login = n
    /\ \A c \in creds :
          /\ c.session_version <= token_version[c.user]
          /\ c.login \in dead => /\ c.session_version < token_version[c.user]
                                 /\ 0 < token_version[c.user]

-----------------------------------------------------------------------------
\* At the start only the legacy credentials exist, and nothing was revoked.
LEMMA AuthorityInitOK == AuthorityInit => AuthorityTypeOK /\ CredentialsOK
<1> SUFFICES ASSUME AuthorityInit PROVE AuthorityTypeOK /\ CredentialsOK
  OBVIOUS
<1>1. Legacy \subseteq Credential
  BY LegacyAssumption
<1>2. AuthorityTypeOK
  BY <1>1 DEF AuthorityTypeOK, AuthorityInit
<1>3. CredentialsOK
  BY <1>1, LegacyAssumption DEF CredentialsOK, Credential, NoVersion, AuthorityInit
<1> QED BY <1>2, <1>3

\* Signing in and renewing keep the types if the new credential has its own.
LEMMA MintTypes ==
    ASSUME AuthorityTypeOK, NEW c \in Credential
    PROVE  SignIn(c) \/ (\E b \in creds : Renew(b, c)) => AuthorityTypeOK'
BY DEF AuthorityTypeOK, SignIn, Renew

\* Revoking, deactivating and the clock keep the types.
LEMMA RevokeTypes ==
    ASSUME AuthorityTypeOK
    PROVE  /\ \A u \in Users : Revoke(u) \/ SetActive(u) => AuthorityTypeOK'
           /\ Tick => AuthorityTypeOK'
           /\ UNCHANGED authVars => AuthorityTypeOK'
<1>1. ASSUME NEW u \in Users, Revoke(u) PROVE AuthorityTypeOK'
  <2>1. dead' \subseteq Logins
    BY <1>1 DEF Revoke, Credential, AuthorityTypeOK
  <2> QED BY <1>1, <2>1 DEF Revoke, AuthorityTypeOK
<1>2. ASSUME NEW u \in Users, SetActive(u) PROVE AuthorityTypeOK'
  <2>1. active' \in [Users -> BOOLEAN]
    BY <1>2, Zenon DEF SetActive, AuthorityTypeOK
  <2> QED BY <1>2, <2>1 DEF SetActive, AuthorityTypeOK
<1>3. Tick => AuthorityTypeOK'
  BY DEF Tick, AuthorityTypeOK
<1>4. UNCHANGED authVars => AuthorityTypeOK'
  BY DEF authVars, AuthorityTypeOK
<1> QED BY <1>1, <1>2, <1>3, <1>4

\* What a step of the central sessions does to the credentials.
LEMMA CredentialsStep ==
    ASSUME AuthorityTypeOK, AuthorityTypeOK', CredentialsOK, [AuthorityNext]_authVars
    PROVE  CredentialsOK' /\ creds \subseteq creds'
<1>1. CASE UNCHANGED authVars
  BY <1>1 DEF authVars, CredentialsOK
<1>2. ASSUME NEW c \in creds', SignIn(c) PROVE CredentialsOK' /\ creds \subseteq creds'
  <2>1. c \in Credential /\ creds \subseteq Credential
    BY DEF AuthorityTypeOK
  <2>2. creds' = creds \cup {c} /\ UNCHANGED <<token_version, dead>>
    BY <1>2 DEF SignIn
  <2>3. c.login \notin dead /\ \A d \in creds : d.login # c.login
    BY <1>2 DEF SignIn, CredentialsOK
  <2>4. c.exp <= c.session_exp /\ c.session_version <= token_version[c.user]
    BY <1>2 DEF SignIn
  <2> QED BY <2>1, <2>2, <2>3, <2>4 DEF CredentialsOK
<1>3. ASSUME NEW d \in creds', NEW c \in creds, Renew(c, d)
      PROVE  CredentialsOK' /\ creds \subseteq creds'
  <2>1. c \in Credential /\ d \in Credential /\ creds \subseteq Credential
        /\ token_version \in [Users -> Nat]
    BY DEF AuthorityTypeOK
  <2>2. creds' = creds \cup {d} /\ UNCHANGED <<token_version, dead>>
    BY <1>3 DEF Renew
  <2>3. d.login = c.login /\ d.user = c.user /\ d.exp <= d.session_exp
    BY <1>3 DEF Renew
  <2>4. /\ d.session_version <= token_version[d.user]
        /\ d.login \in dead => /\ d.session_version < token_version[d.user]
                               /\ 0 < token_version[d.user]
    <3>1. d.session_version = IF c.session_version = NoVersion THEN 0 ELSE c.session_version
      BY <1>3 DEF Renew, RenewedVersion
    <3>2. token_version[c.user] \in Nat
      BY <2>1 DEF Credential
    <3>3. /\ c.session_version <= token_version[c.user]
          /\ c.login \in dead => /\ c.session_version < token_version[c.user]
                                 /\ 0 < token_version[c.user]
      BY DEF CredentialsOK
    <3> QED BY <2>3, <3>1, <3>2, <3>3
  <2>5. \A e \in creds : e.login = d.login => e.user = d.user
    BY <2>3 DEF CredentialsOK
  <2> QED BY <2>2, <2>3, <2>4, <2>5 DEF CredentialsOK
<1>4. ASSUME NEW u \in Users, Revoke(u) PROVE CredentialsOK' /\ creds \subseteq creds'
  <2>1. creds \subseteq Credential /\ token_version \in [Users -> Nat]
    BY DEF AuthorityTypeOK
  <2>2. /\ creds' = creds
        /\ token_version' = [token_version EXCEPT ![u] = @ + 1]
        /\ dead' = dead \cup {c.login : c \in {d \in creds : d.user = u}}
    BY <1>4 DEF Revoke
  <2>3. ASSUME NEW c \in creds
        PROVE  /\ c.session_version <= token_version'[c.user]
               /\ c.login \in dead' => /\ c.session_version < token_version'[c.user]
                                       /\ 0 < token_version'[c.user]
    <3>1. /\ c.user \in Users
          /\ c.session_version \in Int
          /\ c.session_version <= token_version[c.user]
          /\ c.login \in dead => /\ c.session_version < token_version[c.user]
                                 /\ 0 < token_version[c.user]
      BY <2>1 DEF Credential, CredentialsOK, NoVersion
    <3>2. CASE c.user = u
      BY <2>1, <2>2, <3>1, <3>2
    <3>3. CASE c.user # u
      <4>1. c.login \in dead' => c.login \in dead
        BY <2>2, <3>3 DEF CredentialsOK
      <4> QED BY <2>1, <2>2, <3>1, <3>3, <4>1
    <3> QED BY <3>2, <3>3
  <2>4. \A n \in dead' : \E c \in creds : c.login = n
    BY <2>2 DEF CredentialsOK
  <2> QED BY <2>2, <2>3, <2>4 DEF CredentialsOK
<1>5. CASE Tick
  BY <1>5 DEF Tick, CredentialsOK
<1>6. ASSUME NEW u \in Users, SetActive(u) PROVE CredentialsOK' /\ creds \subseteq creds'
  BY <1>6 DEF SetActive, CredentialsOK
<1> QED BY <1>1, <1>2, <1>3, <1>4, <1>5, <1>6 DEF AuthorityNext

\* A credential of a revoked login is refused, and so is whatever carries its
\* version, with whatever issue time (verify_user_session).
LEMMA RevokedIsRefused ==
    ASSUME AuthorityTypeOK, CredentialsOK, NEW c \in creds, c.login \in dead, NEW iat
    PROVE  ~SessionOk(c.user, iat, c.session_version)
<1>1. c.session_version < token_version[c.user] /\ 0 < token_version[c.user]
  BY DEF CredentialsOK
<1>2. c.session_version \in Int /\ token_version[c.user] \in Nat
  BY DEF AuthorityTypeOK, Credential, NoVersion
<1> QED BY <1>1, <1>2 DEF SessionOk

\* What a step of the central sessions leaves to those who hold on to a login or a
\* version: versions only grow, a login that dies is one whose user's version
\* grows, and a new credential starts a login or continues one of its user.
LEMMA AuthorityGrows ==
    ASSUME AuthorityTypeOK, [AuthorityNext]_authVars
    PROVE  /\ \A u \in Users : token_version[u] <= token_version'[u]
           /\ dead \subseteq dead'
           /\ \A n \in dead' \ dead : \E c \in creds :
                 c.login = n /\ token_version[c.user] < token_version'[c.user]
           /\ \A c \in creds' \ creds : \/ \A d \in creds : d.login # c.login
                                        \/ \E d \in creds : d.login = c.login /\ d.user = c.user
<1>1. CASE UNCHANGED authVars
  BY <1>1 DEF authVars, AuthorityTypeOK
<1>2. ASSUME NEW c \in creds', SignIn(c) \/ \E b \in creds : Renew(b, c)
      PROVE  UNCHANGED <<token_version, dead>> /\ creds' = creds \cup {c}
             /\ ((\A d \in creds : d.login # c.login) \/ \E d \in creds : d.login = c.login /\ d.user = c.user)
  BY <1>2 DEF SignIn, Renew
<1>3. ASSUME NEW u \in Users, Revoke(u)
      PROVE  /\ \A v \in Users : token_version[v] <= token_version'[v]
             /\ dead \subseteq dead' /\ creds' = creds
             /\ \A n \in dead' \ dead : \E c \in creds :
                   c.login = n /\ token_version[c.user] < token_version'[c.user]
  <2>1. token_version'[u] = token_version[u] + 1 /\ \A v \in Users : v # u => token_version'[v] = token_version[v]
    BY <1>3 DEF Revoke, AuthorityTypeOK
  <2>2. \A n \in dead' \ dead : \E c \in creds : c.login = n /\ c.user = u
    BY <1>3 DEF Revoke
  <2>3. \A v \in Users : token_version[v] \in Nat
    BY DEF AuthorityTypeOK
  <2> QED BY <1>3, <2>1, <2>2, <2>3 DEF Revoke
<1>4. ASSUME Tick \/ \E u \in Users : SetActive(u)
      PROVE  UNCHANGED <<token_version, dead, creds>>
  BY <1>4 DEF Tick, SetActive
<1>5. \A v \in Users : token_version[v] \in Nat
  BY DEF AuthorityTypeOK
<1> QED BY <1>1, <1>2, <1>3, <1>4, <1>5 DEF AuthorityNext

=============================================================================
