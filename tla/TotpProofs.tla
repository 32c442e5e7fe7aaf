----------------------------- MODULE TotpProofs -----------------------------
(***************************************************************************)
(* Proofs about Totp, for every set of secrets, every HOTP function and any *)
(* number of concurrent requests.                                           *)
(***************************************************************************)
EXTENDS Totp, TLAPS

\* What is known about the row: an active factor exists, was drawn, and none of
\* its steps above last_used_step has been accepted; a pending or future
\* enrollment has had nothing accepted.
StepsOK ==
    /\ activated => secret # NoSecret
    /\ secret # NoSecret => secret \in drawn
    /\ \A s \in Secrets, k \in Steps :
          /\ steps_accepted[<<s, k>>] <= 1
          /\ s \notin drawn \/ (s = secret /\ ~activated) => steps_accepted[<<s, k>>] = 0
          /\ s = secret /\ steps_accepted[<<s, k>>] # 0 => k <= last_used_step

\* What is known about the codes: an unused code has not been accepted, and the
\* codes belong to the active enrollment, or to a drawn one that was disabled.
CodesOK ==
    /\ \A c \in AllRecoveryCodes : codes_accepted[c] <= 1
    /\ \A c \in unused : codes_accepted[c] = 0
    /\ \A s \in Secrets, i \in CodeNumbers :
          s \notin drawn \/ (s = secret /\ ~activated) => codes_accepted[<<s, i>>] = 0
    /\ unused \cup used \subseteq drawn \X CodeNumbers
    /\ secret # NoSecret => unused \cup used \subseteq RecoveryCodes(secret)
    /\ secret # NoSecret /\ ~activated => unused = {} /\ used = {}

Inv == TypeOK /\ StepsOK /\ CodesOK

-----------------------------------------------------------------------------
(* Types *)

\* The idle request is a request.
LEMMA IdleType == Idle \in Request
  BY ConstantsAssumption DEF Idle, Request, Steps

\* Moving one request keeps the requests well typed.
LEMMA GotoType ==
    ASSUME TypeOK, NEW p \in Requests, NEW r \in Request, Goto(p, r)
    PROVE  req' \in [Requests -> Request]
  BY DEF TypeOK, Goto

\* A step returned by verify_code is a step.
LEMMA VerifyCodeType ==
    ASSUME NEW s, NEW c, NEW last PROVE VerifyCode(s, c, last) \subseteq Steps
  BY DEF VerifyCode

\* Every step keeps the state well typed.
LEMMA TypeStep == TypeOK /\ StepsOK /\ [Next]_vars => TypeOK'
  <1> SUFFICES ASSUME TypeOK, StepsOK, [Next]_vars PROVE TypeOK'
    OBVIOUS
  <1>1. ASSUME NEW p \in Requests, NEW c \in Digits \cup AllRecoveryCodes, EnforceMfa(p, c)
        PROVE  TypeOK'
    <2>1. PICK r \in Request : Goto(p, r)
      <3>1. ASSUME NEW k \in VerifyCode(secret, c, last_used_step)
            PROVE  [pc |-> "record", secret |-> secret, step |-> k, code |-> c] \in Request
        BY <1>1, VerifyCodeType DEF Request, TypeOK
      <3>2. [pc |-> "recover", secret |-> secret, step |-> 0, code |-> c] \in Request
        BY <1>1, IdleType DEF Request, TypeOK, Idle
      <3>3. QED
        BY <1>1, <3>1, <3>2 DEF EnforceMfa
    <2>2. QED
      BY <1>1, <2>1, GotoType DEF EnforceMfa, TypeOK, rowVars, codeVars, history
  <1>2. ASSUME NEW p \in Requests, RecordStep(p) PROVE TypeOK'
    <2>1. req' \in [Requests -> Request]
      BY <1>2, IdleType, GotoType DEF RecordStep
    <2>2. req[p].step \in Steps
      BY DEF TypeOK, Request
    <2>3. steps_accepted' \in [Secrets \X Steps -> Nat]
      BY <1>2, <2>2 DEF RecordStep, TypeOK
    <2>4. QED
      BY <1>2, <2>1, <2>2, <2>3 DEF RecordStep, TypeOK, codeVars
  <1>3. ASSUME NEW p \in Requests, Recover(p) PROVE TypeOK'
    <2>1. req' \in [Requests -> Request]
      BY <1>3, IdleType, GotoType DEF Recover
    <2>2. QED
      BY <1>3, <2>1 DEF Recover, Spend, TypeOK, rowVars, codeVars
  <1>4. ASSUME NEW p \in Requests, EnrollRead(p) PROVE TypeOK'
    <2>1. [Idle EXCEPT !.pc = "upsert"] \in Request
      BY IdleType DEF Request
    <2>2. QED
      BY <1>4, <2>1, GotoType DEF EnrollRead, TypeOK, rowVars, codeVars, history
  <1>5. ASSUME NEW p \in Requests, Upsert(p) PROVE TypeOK'
    <2>1. req' \in [Requests -> Request]
      BY <1>5, IdleType, GotoType DEF Upsert
    <2>2. QED
      BY <1>5, <2>1 DEF Upsert, WipeCodes, TypeOK, rowVars, codeVars, history
  <1>6. ASSUME NEW p \in Requests, DisableRow(p) PROVE TypeOK'
    <2>1. [Idle EXCEPT !.pc = "wipe"] \in Request
      BY IdleType DEF Request
    <2>2. QED
      BY <1>6, <2>1, GotoType DEF DisableRow, TypeOK, codeVars, history
  <1>7. ASSUME NEW p \in Requests, DisableCodes(p) \/ Abort(p) PROVE TypeOK'
    BY <1>7, IdleType, GotoType
    DEF DisableCodes, Abort, WipeCodes, TypeOK, rowVars, codeVars, history
  <1>8. ASSUME NEW c \in Digits, Activate(c) PROVE TypeOK'
    <2>1. PICK k \in Steps : /\ last_used_step' = k
                             /\ steps_accepted' = [steps_accepted EXCEPT ![<<secret, k>>] = @ + 1]
      BY <1>8, VerifyCodeType DEF Activate
    <2>2. steps_accepted' \in [Secrets \X Steps -> Nat]
      BY <1>8, <2>1 DEF TypeOK, Activate
    <2>3. unused' \subseteq AllRecoveryCodes
      BY <1>8 DEF Activate, TypeOK, RecoveryCodes, AllRecoveryCodes
    <2>4. QED
      BY <1>8, <2>1, <2>2, <2>3 DEF Activate, TypeOK
  <1>9. CASE Tick \/ UNCHANGED vars
    BY <1>9 DEF Tick, vars, TypeOK, rowVars, codeVars, history
  <1>10. QED
    BY <1>1, <1>2, <1>3, <1>4, <1>5, <1>6, <1>7, <1>8, <1>9 DEF Next

-----------------------------------------------------------------------------
(* Steps *)

\* Accepting step k of the enrolled secret once more is accepting it once, if
\* nothing at or above k was accepted before.
LEMMA AcceptKeeps ==
    ASSUME TypeOK, StepsOK, NEW k \in Steps, secret # NoSecret,
           steps_accepted[<<secret, k>>] = 0,
           \A j \in Steps : steps_accepted[<<secret, j>>] # 0 => j <= k,
           steps_accepted' = [steps_accepted EXCEPT ![<<secret, k>>] = @ + 1],
           last_used_step' = k, secret' = secret, activated', drawn' = drawn
    PROVE  StepsOK'
  <1>1. secret \in Secrets /\ secret \in drawn /\ Steps \subseteq Int
    BY DEF TypeOK, StepsOK, Steps
  <1>2. ASSUME NEW s \in Secrets, NEW j \in Steps
        PROVE  steps_accepted'[<<s, j>>] =
                  IF s = secret /\ j = k THEN 1 ELSE steps_accepted[<<s, j>>]
    BY <1>1 DEF TypeOK
  <1>3. QED
    BY <1>1, <1>2 DEF StepsOK

\* Every step keeps the accounts of accepted steps.
LEMMA StepsStep == TypeOK /\ StepsOK /\ [Next]_vars => StepsOK'
  <1> SUFFICES ASSUME TypeOK, StepsOK, [Next]_vars PROVE StepsOK'
    OBVIOUS
  <1>1. CASE UNCHANGED <<rowVars, drawn, steps_accepted>>
    BY <1>1 DEF StepsOK, rowVars
  <1>2. ASSUME NEW p \in Requests, RecordStep(p) PROVE StepsOK'
    <2> DEFINE k == req[p].step
    <2>1. CASE Recordable(req[p].secret, k)
      <3>1. /\ secret = req[p].secret /\ activated /\ last_used_step < k
            /\ secret # NoSecret /\ k \in Steps /\ secret \in Secrets
        BY <2>1 DEF Recordable, StepsOK, TypeOK, Request
      <3>2. \A j \in Steps : steps_accepted[<<secret, j>>] # 0 => j <= last_used_step
        BY <3>1 DEF StepsOK
      <3>3. last_used_step \in Int /\ Steps \subseteq Int
        BY DEF TypeOK, Steps, NullStep
      <3>4. /\ steps_accepted[<<secret, k>>] = 0
            /\ \A j \in Steps : steps_accepted[<<secret, j>>] # 0 => j <= k
        <4> HIDE DEF k
        <4>1. k \in Int /\ ~(k <= last_used_step)
          BY <3>1, <3>3
        <4>2. \A j \in Steps : j <= last_used_step => j <= k
          BY <3>1, <3>3, <4>1
        <4>3. QED
          BY <3>1, <3>2, <4>1, <4>2
      <3>5. /\ steps_accepted' = [steps_accepted EXCEPT ![<<secret, k>>] = @ + 1]
            /\ last_used_step' = k /\ secret' = secret /\ activated' /\ drawn' = drawn
        BY <1>2, <2>1, <3>1 DEF RecordStep
      <3>6. QED
        BY <3>1, <3>4, <3>5, AcceptKeeps
    <2>2. CASE ~Recordable(req[p].secret, k)
      BY <1>1, <1>2, <2>2 DEF RecordStep, rowVars
    <2>3. QED
      BY <2>1, <2>2
  <1>3. ASSUME NEW p \in Requests, Upsert(p) PROVE StepsOK'
    <2>1. PICK n \in Secrets \ drawn :
             /\ drawn' = drawn \cup {n}
             /\ \/ secret' = n /\ activated' = FALSE /\ last_used_step' = NullStep
                \/ UNCHANGED rowVars
      BY <1>3 DEF Upsert
    <2>2. steps_accepted' = steps_accepted /\ n # NoSecret
      BY <1>3, ConstantsAssumption DEF Upsert, history
    <2>3. QED
      BY <2>1, <2>2 DEF StepsOK, rowVars
  <1>4. ASSUME NEW p \in Requests, DisableRow(p) PROVE StepsOK'
    BY <1>4, ConstantsAssumption DEF DisableRow, StepsOK, history
  <1>5. ASSUME NEW c \in Digits, Activate(c) PROVE StepsOK'
    <2>1. PICK k \in Steps :
             /\ last_used_step' = k
             /\ steps_accepted' = [steps_accepted EXCEPT ![<<secret, k>>] = @ + 1]
      BY <1>5, VerifyCodeType DEF Activate
    <2>2. \A j \in Steps : steps_accepted[<<secret, j>>] = 0
      BY <1>5 DEF Activate, StepsOK, TypeOK
    <2>3. secret # NoSecret /\ secret' = secret /\ activated' /\ drawn' = drawn
      BY <1>5 DEF Activate
    <2>4. QED
      BY <2>1, <2>2, <2>3, AcceptKeeps
  <1>6. QED
    BY <1>1, <1>2, <1>3, <1>4, <1>5
    DEF Next, EnforceMfa, Recover, EnrollRead, DisableCodes, Abort, Tick, vars, history

-----------------------------------------------------------------------------
(* Recovery codes *)

\* Every step keeps the accounts of recovery codes.
LEMMA CodesStep == Inv /\ [Next]_vars => CodesOK'
  <1> SUFFICES ASSUME Inv, [Next]_vars PROVE CodesOK'
    OBVIOUS
  <1>1. CASE UNCHANGED <<secret, activated, codeVars, drawn, codes_accepted>>
    BY <1>1 DEF Inv, CodesOK, codeVars
  <1>2. ASSUME NEW p \in Requests, Recover(p) PROVE CodesOK'
    <2> DEFINE c == req[p].code
    <2>1. CASE c \in unused
      <3>1. /\ c \in AllRecoveryCodes /\ codes_accepted[c] = 0
            /\ c \in drawn \X CodeNumbers
            /\ ~(secret # NoSecret /\ ~activated)
        BY <2>1 DEF Inv, TypeOK, CodesOK
      <3>2. /\ unused' = unused \ {c} /\ used' = used \cup {c}
            /\ codes_accepted' = [codes_accepted EXCEPT ![c] = @ + 1]
            /\ UNCHANGED <<secret, activated, drawn>>
        BY <1>2, <2>1 DEF Recover, Spend, rowVars
      <3>3. \A d \in AllRecoveryCodes :
               codes_accepted'[d] = IF d = c THEN 1 ELSE codes_accepted[d]
        BY <3>1, <3>2 DEF Inv, TypeOK
      <3>4. /\ \A d \in AllRecoveryCodes : codes_accepted'[d] <= 1
            /\ \A d \in unused' : codes_accepted'[d] = 0
        BY <3>2, <3>3 DEF Inv, CodesOK, TypeOK
      <3>5. ASSUME NEW s \in Secrets, NEW i \in CodeNumbers,
                   s \notin drawn' \/ (s = secret' /\ ~activated')
            PROVE  codes_accepted'[<<s, i>>] = 0
        <4>1. s \notin drawn
          BY <3>1, <3>2, <3>5, ConstantsAssumption
        <4>2. <<s, i>> # c /\ <<s, i>> \in AllRecoveryCodes
          BY <3>1, <4>1 DEF AllRecoveryCodes
        <4>3. QED
          BY <3>3, <4>1, <4>2 DEF Inv, CodesOK
      <3>6. unused' \cup used' = unused \cup used
        BY <2>1, <3>2
      <3>7. QED
        BY <3>1, <3>2, <3>4, <3>5, <3>6 DEF Inv, CodesOK
    <2>2. CASE c \notin unused
      BY <1>1, <1>2, <2>2 DEF Recover, rowVars
    <2>3. QED
      BY <2>1, <2>2
  <1>3. ASSUME NEW p \in Requests, Upsert(p) PROVE CodesOK'
    <2>1. PICK n \in Secrets \ drawn :
             /\ drawn' = drawn \cup {n}
             /\ \/ secret' = n /\ activated' = FALSE /\ unused' = {} /\ used' = {}
                \/ UNCHANGED <<rowVars, codeVars>>
      BY <1>3 DEF Upsert, WipeCodes
    <2>2. codes_accepted' = codes_accepted
      BY <1>3 DEF Upsert, history
    <2>3. QED
      BY <2>1, <2>2 DEF Inv, CodesOK, rowVars, codeVars
  <1>4. ASSUME NEW p \in Requests, DisableRow(p) PROVE CodesOK'
    BY <1>4, ConstantsAssumption DEF DisableRow, Inv, CodesOK, codeVars, history
  <1>5. ASSUME NEW p \in Requests, DisableCodes(p) PROVE CodesOK'
    BY <1>5 DEF DisableCodes, WipeCodes, Inv, CodesOK, rowVars, history
  <1>6. ASSUME NEW c \in Digits, Activate(c) PROVE CodesOK'
    <2>1. /\ secret \in Secrets /\ secret \in drawn /\ ~activated
          /\ secret' = secret /\ activated' /\ drawn' = drawn
          /\ unused' = RecoveryCodes(secret) /\ used' = {}
          /\ codes_accepted' = codes_accepted
      BY <1>6 DEF Activate, Inv, TypeOK, StepsOK
    <2>2. ASSUME NEW d \in RecoveryCodes(secret)
          PROVE  codes_accepted[d] = 0 /\ d \in drawn \X CodeNumbers
      BY <2>1, <2>2 DEF RecoveryCodes, Inv, CodesOK
    <2>3. QED
      BY <2>1, <2>2 DEF Inv, CodesOK
  <1>7. QED
    BY <1>1, <1>2, <1>3, <1>4, <1>5, <1>6
    DEF Next, EnforceMfa, RecordStep, EnrollRead, Abort, Tick, vars, rowVars, codeVars, history

-----------------------------------------------------------------------------
(* Theorems *)

\* The rows of the second factor and its history are consistent.
THEOREM Invariance == Spec => []Inv
  <1>1. Init => Inv
    <2> SUFFICES ASSUME Init PROVE Inv
      OBVIOUS
    <2>1. TypeOK
      BY IdleType DEF Init, TypeOK
    <2>2. StepsOK
      BY ConstantsAssumption DEF Init, StepsOK
    <2>3. CodesOK
      BY DEF Init, CodesOK, AllRecoveryCodes
    <2>4. QED
      BY <2>1, <2>2, <2>3 DEF Inv
  <1>2. Inv /\ [Next]_vars => Inv'
    BY TypeStep, StepsStep, CodesStep DEF Inv
  <1>3. QED
    BY <1>1, <1>2, PTL DEF Spec

\* The state of the second factor is well typed.
THEOREM TypeCorrect == Spec => []TypeOK
  <1>1. Inv => TypeOK
    BY DEF Inv
  <1>2. QED
    BY <1>1, Invariance, PTL

\* No time step of an enrollment is accepted twice, by any number of
\* concurrent logins.
THEOREM StepsAreSingleUse == Spec => []StepAcceptedOnce
  <1>1. Inv => StepAcceptedOnce
    BY DEF Inv, StepsOK, StepAcceptedOnce
  <1>2. QED
    BY <1>1, Invariance, PTL

\* No recovery code is accepted twice.
THEOREM RecoveryCodesAreSingleUse == Spec => []RecoveryCodeAcceptedOnce
  <1>1. Inv => RecoveryCodeAcceptedOnce
    BY DEF Inv, CodesOK, RecoveryCodeAcceptedOnce
  <1>2. QED
    BY <1>1, Invariance, PTL

\* The stored recovery codes are those of the row's own enrollment.
THEOREM CodesMatchEnrollment == Spec => []CodesBelongToEnrollment
  <1>1. Inv => CodesBelongToEnrollment
    BY DEF Inv, CodesOK, CodesBelongToEnrollment
  <1>2. QED
    BY <1>1, Invariance, PTL

\* An active factor ends only by being disabled.
THEOREM ActiveFactorIsStable == Spec => ActiveFactorNotReset
  <1> DEFINE Kept == activated => \/ secret' = NoSecret
                                  \/ /\ secret' = secret
                                     /\ activated'
                                     /\ last_used_step' >= last_used_step
  <1>1. Inv /\ [Next]_vars => [Kept]_vars
    <2> SUFFICES ASSUME Inv, Next, activated, secret' # NoSecret
                 PROVE  secret' = secret /\ activated' /\ last_used_step' >= last_used_step
      BY Zenon
    <2>1. last_used_step \in Int /\ Steps \subseteq Int
      BY DEF Inv, TypeOK, Steps, NullStep
    <2>2. ASSUME NEW p \in Requests, RecordStep(p)
          PROVE  secret' = secret /\ activated' /\ last_used_step' >= last_used_step
      <3>1. req[p].step \in Int
        BY <2>1 DEF Inv, TypeOK, Request
      <3>2. QED
        BY <2>1, <2>2, <3>1 DEF RecordStep, Recordable
    <2>3. ASSUME NEW p \in Requests, DisableRow(p) PROVE FALSE
      BY <2>3 DEF DisableRow
    <2>4. ASSUME NEW p \in Requests, Upsert(p) PROVE UNCHANGED rowVars
      BY <2>4 DEF Upsert, Replaceable
    <2>5. ASSUME NEW c \in Digits, Activate(c) PROVE FALSE
      BY <2>5 DEF Activate
    <2>6. CASE UNCHANGED rowVars
      <3>1. last_used_step' >= last_used_step
        BY <2>1, <2>6 DEF rowVars
      <3>2. QED
        BY <2>6, <3>1, Zenon DEF rowVars
    <2>7. QED
      BY <2>2, <2>3, <2>4, <2>5, <2>6
      DEF Next, EnforceMfa, Recover, EnrollRead, DisableCodes, Abort, Tick
  <1>2. QED
    BY <1>1, Invariance, PTL DEF Spec, ActiveFactorNotReset

\* A step is accepted only for the secret enrolled when it is recorded.
THEOREM AcceptedStepIsOfEnrolledFactor == Spec => AcceptedFactorIsEnrolled
  <1> DEFINE Enrolled == \A s \in Secrets, k \in Steps :
                            steps_accepted'[<<s, k>>] # steps_accepted[<<s, k>>] =>
                               secret' = s /\ activated' /\ last_used_step' = k
  <1>1. Inv /\ [Next]_vars => [Enrolled]_vars
    <2> SUFFICES ASSUME Inv, Next PROVE Enrolled
      BY Zenon
    <2>1. CASE UNCHANGED steps_accepted
      BY <2>1
    <2>2. ASSUME NEW t \in Secrets, NEW j \in Steps,
                 steps_accepted' = [steps_accepted EXCEPT ![<<t, j>>] = @ + 1],
                 secret' = t, activated', last_used_step' = j
          PROVE  Enrolled
      <3>1. ASSUME NEW s \in Secrets, NEW k \in Steps, ~(s = t /\ k = j)
            PROVE  steps_accepted'[<<s, k>>] = steps_accepted[<<s, k>>]
        BY <2>2, <3>1 DEF Inv, TypeOK
      <3>2. QED
        BY <2>2, <3>1
    <2>3. ASSUME NEW p \in Requests, RecordStep(p) PROVE Enrolled
      <3>1. CASE Recordable(req[p].secret, req[p].step)
        <4>1. /\ req[p].secret \in Secrets /\ req[p].step \in Steps
              /\ secret = req[p].secret /\ activated
          BY <3>1 DEF Recordable, Inv, TypeOK, StepsOK, Request
        <4>2. /\ secret' = req[p].secret /\ activated' /\ last_used_step' = req[p].step
              /\ steps_accepted' =
                    [steps_accepted EXCEPT ![<<req[p].secret, req[p].step>>] = @ + 1]
          BY <2>3, <3>1, <4>1 DEF RecordStep
        <4>3. QED
          BY <2>2, <4>1, <4>2
      <3>2. CASE ~Recordable(req[p].secret, req[p].step)
        BY <2>1, <2>3, <3>2 DEF RecordStep
      <3>3. QED
        BY <3>1, <3>2
    <2>4. ASSUME NEW c \in Digits, Activate(c) PROVE Enrolled
      <3>1. secret \in Secrets /\ secret' = secret /\ activated'
        BY <2>4 DEF Activate, Inv, TypeOK
      <3>2. PICK k \in Steps :
               /\ last_used_step' = k
               /\ steps_accepted' = [steps_accepted EXCEPT ![<<secret, k>>] = @ + 1]
        BY <2>4, VerifyCodeType DEF Activate
      <3>3. QED
        BY <2>2, <3>1, <3>2
    <2>5. QED
      BY <2>1, <2>3, <2>4
      DEF Next, EnforceMfa, Recover, EnrollRead, Upsert, DisableRow, DisableCodes, Abort, Tick,
          history
  <1>2. QED
    BY <1>1, Invariance, PTL DEF Spec, AcceptedFactorIsEnrolled
=============================================================================
