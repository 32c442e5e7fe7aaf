-------------------------------- MODULE Totp --------------------------------
(***************************************************************************)
(* The second factor of a password login: server/src/user/auth/totp.rs,     *)
(* handlers/totp.rs and enforce_mfa of handlers/auth.rs.                    *)
(*                                                                          *)
(* One user: every statement is keyed by user_id.  The user_totps row is    *)
(* `secret', `activated' and `last_used_step'; a recovery code is the       *)
(* enrollment it was generated for and its number.  Activation and          *)
(* upsert_pending are transactions; enforce_mfa and UserTotp::delete take   *)
(* one step per statement, so that logins, enrollments and the two ways to  *)
(* disable the factor interleave.                                           *)
(***************************************************************************)
EXTENDS Integers

CONSTANTS
    Secrets,       \* secrets generate_secret can draw, each drawn once
    NoSecret,      \* no user_totps row
    Digits,        \* six-digit codes
    Hotp,          \* hotp(secret, step)
    NoCode,        \* totp_code absent or blank
    CodeNumbers,   \* the recovery codes of one enrollment
    Requests,      \* HTTP requests in flight
    TOTP_PERIOD,   \* seconds per step
    MaxTime        \* bound: the clock stops here

\* The steps that a code accepted before MaxTime can belong to.
Steps == 0 .. (MaxTime \div TOTP_PERIOD) + 1

ASSUME ConstantsAssumption ==
    /\ NoSecret \notin Secrets
    /\ Hotp \in [Secrets \X Steps -> Digits]
    /\ TOTP_PERIOD \in Nat \ {0}
    /\ MaxTime \in Nat

\* generate_recovery_codes, of the enrollment with secret s.
RecoveryCodes(s) == {s} \X CodeNumbers
AllRecoveryCodes == Secrets \X CodeNumbers

ASSUME CodesAssumption ==
    /\ Digits \cap AllRecoveryCodes = {}
    /\ NoCode \notin Digits \cup AllRecoveryCodes

VARIABLES
    now,             \* now_epoch()
    secret,          \* user_totps.secret_encrypted
    activated,       \* user_totps.activated_at IS NOT NULL
    last_used_step,  \* user_totps.last_used_step (-1: NULL)
    unused,          \* totp_recovery_codes with used_at NULL
    used,            \* totp_recovery_codes with used_at set
    req,             \* requests in flight
    drawn,           \* secrets generated so far
    steps_accepted,  \* history: how often a step of a secret was accepted
    codes_accepted   \* history: how often a recovery code was accepted

rowVars  == <<secret, activated, last_used_step>>
codeVars == <<unused, used>>
history  == <<steps_accepted, codes_accepted>>
vars == <<now, rowVars, codeVars, req, drawn, history>>

NullStep == -1

\* "record" and "recover" are the last statements of enforce_mfa, "upsert" of
\* enroll_my_totp, "wipe" of UserTotp::delete.
Idle == [pc |-> "idle", secret |-> NoSecret, step |-> 0, code |-> NoCode]
Request == [pc : {"idle", "record", "recover", "upsert", "wipe"},
            secret : Secrets \cup {NoSecret}, step : Steps,
            code : Digits \cup AllRecoveryCodes \cup {NoCode}]

Goto(p, r) == req' = [req EXCEPT ![p] = r]

-----------------------------------------------------------------------------
\* verify_code: the first step of the drift window, above the last step used,
\* whose code is c; no step at all if there is none.
VerifyCode(s, c, last) ==
    LET matching == {k \in Steps : /\ (now \div TOTP_PERIOD) - 1 <= k
                                   /\ k <= (now \div TOTP_PERIOD) + 1
                                   /\ k > last
                                   /\ Hotp[<<s, k>>] = c}
    IN  {k \in matching : \A j \in matching : k <= j}

-----------------------------------------------------------------------------
(* enforce_mfa, after the password check *)

\* No active factor: the login passes.  A factor and no code: MfaRequired.
\* Neither changes anything here.  Otherwise the code is compared with the
\* steps, and a code that matches none is tried as a recovery code.
EnforceMfa(p, c) ==
    /\ req[p] = Idle
    /\ secret # NoSecret
    /\ activated
    /\ \/ \E k \in VerifyCode(secret, c, last_used_step) :
             Goto(p, [pc |-> "record", secret |-> secret, step |-> k, code |-> c])
       \/ /\ VerifyCode(secret, c, last_used_step) = {}
          /\ Goto(p, [pc |-> "recover", secret |-> secret, step |-> 0, code |-> c])
    /\ UNCHANGED <<now, rowVars, codeVars, drawn, history>>

\* Mutant: the UPDATE without `last_used_step < ?'.
RecordableTwice(s, k) == secret = s /\ activated

\* Mutant: the UPDATE without `secret_encrypted = ?'.
RecordableAnySecret(s, k) == secret # NoSecret /\ activated /\ last_used_step < k

\* The row that the UPDATE of record_step matches.
Recordable(s, k) == secret = s /\ activated /\ last_used_step < k

\* record_step.  The login passes if the row was still there to update.
RecordStep(p) ==
    LET s == req[p].secret
        k == req[p].step
    IN  /\ req[p].pc = "record"
        /\ IF Recordable(s, k)
           THEN /\ last_used_step' = k
                /\ steps_accepted' = [steps_accepted EXCEPT ![<<s, k>>] = @ + 1]
           ELSE UNCHANGED <<last_used_step, steps_accepted>>
        /\ Goto(p, Idle)
        /\ UNCHANGED <<now, secret, activated, codeVars, drawn, codes_accepted>>

\* Mutant: the code stays usable.
SpendNothing(c) == UNCHANGED codeVars

\* UPDATE totp_recovery_codes SET used_at.
Spend(c) ==
    /\ unused' = unused \ {c}
    /\ used' = used \cup {c}

\* consume_recovery_code.
Recover(p) ==
    LET c == req[p].code IN
    /\ req[p].pc = "recover"
    /\ IF c \in unused
       THEN /\ Spend(c)
            /\ codes_accepted' = [codes_accepted EXCEPT ![c] = @ + 1]
       ELSE UNCHANGED <<codeVars, codes_accepted>>
    /\ Goto(p, Idle)
    /\ UNCHANGED <<now, rowVars, drawn, steps_accepted>>

-----------------------------------------------------------------------------
(* Enrollment *)

\* enroll_my_totp: the SELECT that refuses an active factor early.
EnrollRead(p) ==
    /\ req[p] = Idle
    /\ ~activated
    /\ Goto(p, [Idle EXCEPT !.pc = "upsert"])
    /\ UNCHANGED <<now, rowVars, codeVars, drawn, history>>

\* Mutant: the INSERT ... ON CONFLICT without its WHERE.
ReplaceableAlways == TRUE

\* Mutant: recovery codes of an earlier enrollment are kept.
KeepCodes == UNCHANGED codeVars

\* ON CONFLICT ... WHERE activated_at IS NULL.
Replaceable == ~activated

\* DELETE FROM totp_recovery_codes, of upsert_pending and of UserTotp::delete.
WipeCodes == unused' = {} /\ used' = {}

\* upsert_pending, with a new secret.
Upsert(p) ==
    /\ req[p].pc = "upsert"
    /\ \E s \in Secrets \ drawn :
          /\ drawn' = drawn \cup {s}
          /\ IF Replaceable
             THEN /\ secret' = s
                  /\ activated' = FALSE
                  /\ last_used_step' = NullStep
                  /\ WipeCodes
             ELSE UNCHANGED <<rowVars, codeVars>>
    /\ Goto(p, Idle)
    /\ UNCHANGED <<now, history>>

\* activate_my_totp: read, verify, activate and store_recovery_codes in one
\* transaction.
Activate(c) ==
    /\ secret # NoSecret
    /\ ~activated
    /\ \E k \in VerifyCode(secret, c, NullStep) :
          /\ last_used_step' = k
          /\ steps_accepted' = [steps_accepted EXCEPT ![<<secret, k>>] = @ + 1]
    /\ activated' = TRUE
    /\ unused' = RecoveryCodes(secret)
    /\ used' = {}
    /\ UNCHANGED <<now, secret, req, drawn, codes_accepted>>

\* disable_my_totp and admin_disable_user_totp: UserTotp::delete, the row ...
DisableRow(p) ==
    /\ req[p] = Idle
    /\ secret' = NoSecret
    /\ activated' = FALSE
    /\ last_used_step' = NullStep
    /\ Goto(p, [Idle EXCEPT !.pc = "wipe"])
    /\ UNCHANGED <<now, codeVars, drawn, history>>

\* ... then the codes.
DisableCodes(p) ==
    /\ req[p].pc = "wipe"
    /\ WipeCodes
    /\ Goto(p, Idle)
    /\ UNCHANGED <<now, rowVars, drawn, history>>

\* The handler's future is dropped between two statements.
Abort(p) ==
    /\ req[p] # Idle
    /\ Goto(p, Idle)
    /\ UNCHANGED <<now, rowVars, codeVars, drawn, history>>

Tick ==
    /\ now < MaxTime
    /\ now' = now + 1
    /\ UNCHANGED <<rowVars, codeVars, req, drawn, history>>

-----------------------------------------------------------------------------
Init ==
    /\ now = 0
    /\ secret = NoSecret
    /\ activated = FALSE
    /\ last_used_step = NullStep
    /\ unused = {}
    /\ used = {}
    /\ req = [p \in Requests |-> Idle]
    /\ drawn = {}
    /\ steps_accepted = [x \in Secrets \X Steps |-> 0]
    /\ codes_accepted = [c \in AllRecoveryCodes |-> 0]

Next ==
    \/ \E p \in Requests :
          \/ \E c \in Digits \cup AllRecoveryCodes : EnforceMfa(p, c)
          \/ RecordStep(p)
          \/ Recover(p)
          \/ EnrollRead(p)
          \/ Upsert(p)
          \/ DisableRow(p)
          \/ DisableCodes(p)
          \/ Abort(p)
    \/ \E c \in Digits : Activate(c)
    \/ Tick

Spec == Init /\ [][Next]_vars

-----------------------------------------------------------------------------
(* Properties *)

TypeOK ==
    /\ now \in Nat
    /\ secret \in Secrets \cup {NoSecret}
    /\ activated \in BOOLEAN
    /\ last_used_step \in Steps \cup {NullStep}
    /\ unused \subseteq AllRecoveryCodes
    /\ used \subseteq AllRecoveryCodes
    /\ req \in [Requests -> Request]
    /\ drawn \subseteq Secrets
    /\ steps_accepted \in [Secrets \X Steps -> Nat]
    /\ codes_accepted \in [AllRecoveryCodes -> Nat]

\* A time step of an enrollment is accepted once, the activation included,
\* however many logins compared the same code before one of them recorded it
\* (record_step; "Highest TOTP step number ever accepted").
StepAcceptedOnce == \A x \in Secrets \X Steps : steps_accepted[x] <= 1

\* A recovery code is accepted once (consume_recovery_code).
RecoveryCodeAcceptedOnce == \A c \in AllRecoveryCodes : codes_accepted[c] <= 1

\* While a row exists, pending or active, the stored recovery codes are those of
\* its own enrollment: codes left by a disable that stopped half way never
\* unlock a later enrollment (upsert_pending).
CodesBelongToEnrollment ==
    secret # NoSecret => unused \cup used \subseteq RecoveryCodes(secret)

\* An active factor is never reset to a pending one, replaced or moved back to
\* an earlier step, not by an enrollment that read the row before it became
\* active: it only ever ends by being disabled (upsert_pending, record_step).
ActiveFactorNotReset ==
    [][activated => \/ secret' = NoSecret
                    \/ /\ secret' = secret
                       /\ activated'
                       /\ last_used_step' >= last_used_step]_vars

\* A step is only accepted for the secret that is enrolled when it is
\* recorded, not for the one enrolled when the login read the row.
AcceptedFactorIsEnrolled ==
    [][\A s \in Secrets, k \in Steps :
          steps_accepted'[<<s, k>>] # steps_accepted[<<s, k>>] =>
             secret' = s /\ activated' /\ last_used_step' = k]_vars

\* An active factor has the recovery codes that activation handed out, each
\* unused or used.  activate_my_totp promises "Activated -- store the returned
\* recovery codes".  It does not hold: UserTotp::delete is two statements, and
\* an enrollment that is activated between them loses its codes to the second.
ActiveFactorKeepsItsCodes ==
    activated => unused \cup used = RecoveryCodes(secret)

=============================================================================
